---------------------------- MODULE EscrowProofs ----------------------------
(***************************************************************************)
(* The lemmas the proofs about money rest on: sums over finite sets, what  *)
(* the calls of pallet_balances do to an account's reserve and to the      *)
(* issuance, and what lock, release and refund do to the amounts locked on *)
(* a payer.                                                                *)
(*                                                                         *)
(* Sums need induction.  It is stated here over sets (NatSetInduction,     *)
(* SubsetInduction), so that no lemma takes an operator as a parameter:    *)
(* what is to be proved of n or s is written as membership of n or s in a  *)
(* set.                                                                    *)
(***************************************************************************)
EXTENDS Escrow, FiniteSetTheorems, WellFoundedInduction, TLAPS

(***************************************************************************)
(* Induction.                                                              *)
(***************************************************************************)
\* A set of numbers has a least one.
LEMMA NatMin ==
    ASSUME NEW T, T \subseteq Nat, T # {}
    PROVE  \E m \in T : \A n \in T : m <= n
<1> DEFINE R == {ss \in Nat \X Nat : ss[1] < ss[2]}
<1>1. IsWellFoundedOn(R, Nat)
  <2>1. R = OpToRel(<, Nat)
    BY Zenon DEF OpToRel
  <2> QED BY <2>1, NatLessThanWellFounded, Zenon
<1>2. PICK m \in T : \A n \in T : <<n, m>> \notin R
  <2> HIDE DEF R
  <2> QED BY <1>1, WFMin, Zenon
<1>3. ASSUME NEW n \in T, n < m PROVE FALSE
  <2>1. <<n, m>> \in Nat \X Nat /\ <<n, m>>[1] < <<n, m>>[2]
    BY <1>3, Zenon
  <2> QED BY <1>2, <2>1, Zenon
<1> QED BY <1>3

\* Induction, over the set of numbers a statement holds for.
LEMMA NatSetInduction ==
    ASSUME NEW T, 0 \in T, \A n \in Nat : n \in T => n + 1 \in T
    PROVE  Nat \subseteq T
<1> SUFFICES ASSUME Nat \ T # {} PROVE FALSE
  BY Zenon
<1>1. PICK m \in Nat \ T : \A n \in Nat \ T : m <= n
  <2>1. Nat \ T \subseteq Nat
    BY Zenon
  <2> QED BY <2>1, NatMin, Zenon
<1>2. m # 0 /\ m - 1 \in Nat /\ m - 1 \in T
  BY <1>1
<1> QED BY <1>1, <1>2

LEMMA SubsetFinite ==
    ASSUME NEW S, IsFiniteSet(S), NEW s \in SUBSET S
    PROVE  /\ IsFiniteSet(s) /\ Cardinality(s) \in Nat
           /\ \A x \in s : /\ s \ {x} \in SUBSET S
                           /\ Cardinality(s \ {x}) = Cardinality(s) - 1
           /\ s # {} => Cardinality(s) > 0
<1>1. IsFiniteSet(s) /\ Cardinality(s) \in Nat
  BY FS_Subset, FS_CardinalityType, Zenon
<1>2. ASSUME NEW x \in s PROVE Cardinality(s \ {x}) = Cardinality(s) - 1
  BY <1>1, FS_RemoveElement, Zenon
<1> QED BY <1>1, <1>2, FS_EmptySet

\* Induction over the subsets of a finite set: what holds for a set whenever it
\* holds for the sets with one element less holds for all.
LEMMA SubsetInduction ==
    ASSUME NEW S, IsFiniteSet(S), NEW T,
           \A s \in SUBSET S : (\A x \in s : s \ {x} \in T) => s \in T
    PROVE  S \in T
<1> DEFINE N == {n \in Nat : \A s \in SUBSET S : Cardinality(s) = n => s \in T}
<1>1. 0 \in N
  BY SubsetFinite
<1>2. ASSUME NEW n \in Nat, n \in N, NEW s \in SUBSET S, Cardinality(s) = n + 1
      PROVE  s \in T
  <2>1. ASSUME NEW x \in s PROVE s \ {x} \in T
    <3>1. s \ {x} \in SUBSET S /\ Cardinality(s \ {x}) = n
      BY <1>2, SubsetFinite
    <3> QED BY <1>2, <3>1, Zenon
  <2> QED BY <2>1, Zenon
<1>3. Nat \subseteq N
  <2>1. \A n \in Nat : n \in N => n + 1 \in N
    BY <1>2
  <2> HIDE DEF N
  <2> QED BY <1>1, <2>1, NatSetInduction, Zenon
<1>4. Cardinality(S) \in N
  BY <1>3, FS_CardinalityType, Zenon
<1> QED BY <1>4, Zenon

-----------------------------------------------------------------------------
(***************************************************************************)
(* Sums.  SumFunctionOnSet(f, S) reads a table, chosen for S, of the sums  *)
(* over all subsets.  Such a table exists, by induction over the size of   *)
(* the subsets; the rest is induction over the subsets themselves.         *)
(***************************************************************************)
\* The table of partial sums that SumFunctionOnSet chooses.
Pick(s) == CHOOSE x \in s : TRUE

IsSumTable(g, f, D) ==
    g = [s \in D |-> IF s = {} THEN 0 ELSE f[Pick(s)] + g[s \ {Pick(s)}]]

SumTable(f, S) == CHOOSE g : IsSumTable(g, f, SUBSET S)

LEMMA PickIn == ASSUME NEW s, s # {} PROVE Pick(s) \in s
BY Zenon DEF Pick

LEMMA SumTableExists ==
    ASSUME NEW f, NEW S, IsFiniteSet(S)
    PROVE  \E g : IsSumTable(g, f, SUBSET S)
<1> DEFINE D(n) == {s \in SUBSET S : Cardinality(s) <= n}
           T == {n \in Nat : \E g : IsSumTable(g, f, D(n))}
<1>1. 0 \in T
  <2>1. D(0) \subseteq {{}}
    BY SubsetFinite
  <2>2. IsSumTable([s \in D(0) |-> 0], f, D(0))
    BY <2>1, Zenon DEF IsSumTable
  <2> QED BY <2>2, Zenon
<1>2. ASSUME NEW n \in Nat, n \in T PROVE n + 1 \in T
  <2>1. PICK g : IsSumTable(g, f, D(n))
    BY <1>2, Zenon
  <2> DEFINE h == [s \in D(n + 1) |-> IF s = {} THEN 0 ELSE f[Pick(s)] + g[s \ {Pick(s)}]]
  <2>2. ASSUME NEW s \in D(n + 1), s # {} PROVE h[s \ {Pick(s)}] = g[s \ {Pick(s)}]
    <3>1. s \ {Pick(s)} \in D(n) /\ s \ {Pick(s)} \in D(n + 1)
      <4>1. s \in SUBSET S /\ Cardinality(s) <= n + 1 /\ Pick(s) \in s
        BY <2>2, PickIn, Zenon
      <4>2. Cardinality(s) \in Nat /\ Cardinality(s \ {Pick(s)}) = Cardinality(s) - 1
        BY <4>1, SubsetFinite, Zenon
      <4> QED BY <4>1, <4>2
    <3> DEFINE t == s \ {Pick(s)}
    <3>2. g[t] = IF t = {} THEN 0 ELSE f[Pick(t)] + g[t \ {Pick(t)}]
      BY <2>1, <3>1, Zenon DEF IsSumTable
    <3>3. h[t] = IF t = {} THEN 0 ELSE f[Pick(t)] + g[t \ {Pick(t)}]
      BY <3>1, Zenon
    <3> QED BY <3>2, <3>3, Zenon
  <2>3. IsSumTable(h, f, D(n + 1))
    BY <2>2, Zenon DEF IsSumTable
  <2>4. n + 1 \in Nat
    OBVIOUS
  <2>5. \E k : IsSumTable(k, f, D(n + 1))
    BY <2>3, Zenon
  <2> QED BY <2>4, <2>5, Zenon
<1>3. Cardinality(S) \in T
  <2>1. \A n \in Nat : n \in T => n + 1 \in T
    BY <1>2, Zenon
  <2> HIDE DEF T
  <2> QED BY <1>1, <2>1, NatSetInduction, FS_CardinalityType, Zenon
<1>4. D(Cardinality(S)) = SUBSET S
  BY FS_Subset, Zenon
<1> QED BY <1>3, <1>4, Zenon

LEMMA SumTableRec ==
    ASSUME NEW f, NEW S, IsFiniteSet(S), NEW s \in SUBSET S
    PROVE  SumTable(f, S)[s] = IF s = {} THEN 0
                               ELSE f[Pick(s)] + SumTable(f, S)[s \ {Pick(s)}]
<1> DEFINE g == SumTable(f, S)
<1>1. IsSumTable(g, f, SUBSET S)
  BY SumTableExists, Zenon DEF SumTable
<1> HIDE DEF g
<1>2. g[s] = IF s = {} THEN 0 ELSE f[Pick(s)] + g[s \ {Pick(s)}]
  BY <1>1, Zenon DEF IsSumTable
<1> QED BY <1>2, Zenon DEF g

LEMMA SumTableSame ==
    ASSUME NEW f, NEW S, IsFiniteSet(S), NEW R \in SUBSET S
    PROVE  SumTable(f, S)[R] = SumTable(f, R)[R]
<1> DEFINE T == {s \in SUBSET R : SumTable(f, S)[s] = SumTable(f, R)[s]}
<1>1. IsFiniteSet(R)
  BY SubsetFinite, Zenon
<1>2. ASSUME NEW s \in SUBSET R, \A x \in s : s \ {x} \in T PROVE s \in T
  <2>1. s \in SUBSET S
    BY Zenon
  <2>2. /\ SumTable(f, S)[s] = IF s = {} THEN 0 ELSE f[Pick(s)] + SumTable(f, S)[s \ {Pick(s)}]
        /\ SumTable(f, R)[s] = IF s = {} THEN 0 ELSE f[Pick(s)] + SumTable(f, R)[s \ {Pick(s)}]
    BY <1>1, <2>1, SumTableRec
  <2>3. s # {} => SumTable(f, S)[s \ {Pick(s)}] = SumTable(f, R)[s \ {Pick(s)}]
    BY <1>2, PickIn, Zenon
  <2> QED BY <2>2, <2>3, Zenon
<1>3. R \in T
  <2> HIDE DEF T
  <2> QED BY <1>1, <1>2, SubsetInduction, Zenon
<1> QED BY <1>3, Zenon

LEMMA SumUnfold == ASSUME NEW f, NEW S PROVE SumFunctionOnSet(f, S) = SumTable(f, S)[S]
BY Zenon DEF SumFunctionOnSet, FoldFunctionOnSet, MapThenFoldSet, SumTable, IsSumTable, Pick

LEMMA SumStep ==
    ASSUME NEW f, NEW S, IsFiniteSet(S)
    PROVE  SumFunctionOnSet(f, S) =
             IF S = {} THEN 0 ELSE f[Pick(S)] + SumFunctionOnSet(f, S \ {Pick(S)})
<1>1. SumTable(f, S)[S] = IF S = {} THEN 0 ELSE f[Pick(S)] + SumTable(f, S)[S \ {Pick(S)}]
  BY SumTableRec
<1>2. SumTable(f, S)[S \ {Pick(S)}] = SumTable(f, S \ {Pick(S)})[S \ {Pick(S)}]
  BY SumTableSame, Zenon
<1> QED BY <1>1, <1>2, SumUnfold, Zenon

LEMMA SumType ==
    ASSUME NEW f, NEW S, IsFiniteSet(S), \A x \in S : f[x] \in Nat
    PROVE  SumFunctionOnSet(f, S) \in Nat
<1> DEFINE T == {s \in SUBSET S : SumFunctionOnSet(f, s) \in Nat}
<1>1. ASSUME NEW s \in SUBSET S, \A x \in s : s \ {x} \in T PROVE s \in T
  <2>1. SumFunctionOnSet(f, s) =
          IF s = {} THEN 0 ELSE f[Pick(s)] + SumFunctionOnSet(f, s \ {Pick(s)})
    BY SubsetFinite, SumStep, Zenon
  <2>2. s # {} => Pick(s) \in S /\ SumFunctionOnSet(f, s \ {Pick(s)}) \in Nat
    BY <1>1, PickIn, Zenon
  <2> QED BY <2>1, <2>2
<1>2. S \in T
  <2> HIDE DEF T
  <2> QED BY <1>1, SubsetInduction, Zenon
<1> QED BY <1>2, Zenon

LEMMA SumSame ==
    ASSUME NEW f, NEW g, NEW S, IsFiniteSet(S), \A x \in S : f[x] = g[x]
    PROVE  SumFunctionOnSet(f, S) = SumFunctionOnSet(g, S)
<1> DEFINE T == {s \in SUBSET S : SumFunctionOnSet(f, s) = SumFunctionOnSet(g, s)}
<1>1. ASSUME NEW s \in SUBSET S, \A x \in s : s \ {x} \in T PROVE s \in T
  <2>1. /\ SumFunctionOnSet(f, s) =
             IF s = {} THEN 0 ELSE f[Pick(s)] + SumFunctionOnSet(f, s \ {Pick(s)})
        /\ SumFunctionOnSet(g, s) =
             IF s = {} THEN 0 ELSE g[Pick(s)] + SumFunctionOnSet(g, s \ {Pick(s)})
    BY SubsetFinite, SumStep, Zenon
  <2>2. s # {} => /\ f[Pick(s)] = g[Pick(s)]
                  /\ SumFunctionOnSet(f, s \ {Pick(s)}) = SumFunctionOnSet(g, s \ {Pick(s)})
    BY <1>1, PickIn, Zenon
  <2> QED BY <2>1, <2>2, Zenon
<1>2. S \in T
  <2> HIDE DEF T
  <2> QED BY <1>1, SubsetInduction, Zenon
<1> QED BY <1>2, Zenon

\* Any element may be taken out first, not only the chosen one.
LEMMA SumRemove ==
    ASSUME NEW f, NEW S, IsFiniteSet(S), \A x \in S : f[x] \in Nat, NEW x \in S
    PROVE  /\ SumFunctionOnSet(f, S) = f[x] + SumFunctionOnSet(f, S \ {x})
           /\ SumFunctionOnSet(f, S \ {x}) \in Nat
<1> DEFINE Sum(s) == SumFunctionOnSet(f, s)
           T == {s \in SUBSET S : \A z \in s : Sum(s) = f[z] + Sum(s \ {z})}
<1>1. \A s \in SUBSET S : Sum(s) \in Nat
  BY SubsetFinite, SumType, Zenon
<1>2. \A s \in SUBSET S : Sum(s) = IF s = {} THEN 0 ELSE f[Pick(s)] + Sum(s \ {Pick(s)})
  BY SubsetFinite, SumStep, Zenon
<1> HIDE DEF Sum
<1>3. ASSUME NEW s \in SUBSET S, \A z \in s : s \ {z} \in T PROVE s \in T
  <2>1. ASSUME NEW z \in s PROVE Sum(s) = f[z] + Sum(s \ {z})
    <3> DEFINE c == Pick(s)
    <3>1. c \in s /\ Sum(s) = f[c] + Sum(s \ {c})
      BY <1>2, PickIn, Zenon
    <3>2. CASE z = c
      BY <3>1, <3>2, Zenon
    <3>3. CASE z # c
      <4>1. Sum(s \ {c}) = f[z] + Sum((s \ {c}) \ {z})
        BY <1>3, <3>1, <3>3, Zenon
      <4>2. Sum(s \ {z}) = f[c] + Sum((s \ {z}) \ {c})
        BY <1>3, <3>1, <3>3, Zenon
      <4>3. (s \ {c}) \ {z} = (s \ {z}) \ {c} /\ (s \ {c}) \ {z} \in SUBSET S
        BY Zenon
      <4>4. f[z] \in Nat /\ f[c] \in Nat /\ Sum((s \ {c}) \ {z}) \in Nat
        BY <1>1, <3>1, <4>3, Zenon
      <4>5. Sum(s) = f[c] + (f[z] + Sum((s \ {c}) \ {z}))
        BY <3>1, <4>1, Zenon
      <4>6. f[z] + Sum(s \ {z}) = f[z] + (f[c] + Sum((s \ {c}) \ {z}))
        BY <4>2, <4>3, Zenon
      <4> HIDE DEF c
      <4> QED BY <4>4, <4>5, <4>6
    <3> QED BY <3>2, <3>3, Zenon
  <2> QED BY <2>1, Zenon
<1>4. S \in T
  <2> HIDE DEF T
  <2> QED BY <1>3, SubsetInduction, Zenon
<1>5. S \ {x} \in SUBSET S
  BY Zenon
<1>6. Sum(S) = f[x] + Sum(S \ {x}) /\ Sum(S \ {x}) \in Nat
  BY <1>1, <1>4, <1>5, Zenon
<1> QED BY <1>6, Zenon DEF Sum

LEMMA SumEmpty == ASSUME NEW f PROVE SumFunctionOnSet(f, {}) = 0
BY SumStep, FS_EmptySet, Zenon

\* A new element is counted in.
LEMMA SumAdd ==
    ASSUME NEW f, NEW g, NEW S, IsFiniteSet(S), NEW x, x \notin S,
           \A y \in S : f[y] = g[y] /\ f[y] \in Nat, g[x] \in Nat
    PROVE  SumFunctionOnSet(g, S \cup {x}) = SumFunctionOnSet(f, S) + g[x]
<1>1. IsFiniteSet(S \cup {x}) /\ (S \cup {x}) \ {x} = S
  BY FS_AddElement, Zenon
<1>2. SumFunctionOnSet(g, S \cup {x}) = g[x] + SumFunctionOnSet(g, S)
  <2>1. \A y \in S \cup {x} : g[y] \in Nat
    BY Zenon
  <2>2. SumFunctionOnSet(g, S \cup {x}) = g[x] + SumFunctionOnSet(g, (S \cup {x}) \ {x})
    BY <1>1, <2>1, SumRemove
  <2> QED BY <1>1, <2>2, Zenon
<1>3. SumFunctionOnSet(g, S) = SumFunctionOnSet(f, S) /\ SumFunctionOnSet(f, S) \in Nat
  BY SumSame, SumType, Zenon
<1> QED BY <1>2, <1>3

\* An element is counted out.
LEMMA SumDrop ==
    ASSUME NEW f, NEW g, NEW S, IsFiniteSet(S), NEW x \in S,
           \A y \in S : f[y] \in Nat, \A y \in S \ {x} : f[y] = g[y]
    PROVE  /\ SumFunctionOnSet(g, S \ {x}) = SumFunctionOnSet(f, S) - f[x]
           /\ f[x] <= SumFunctionOnSet(f, S)
<1>1. /\ SumFunctionOnSet(f, S) = f[x] + SumFunctionOnSet(f, S \ {x})
      /\ SumFunctionOnSet(f, S \ {x}) \in Nat
  BY SumRemove, Zenon
<1>2. SumFunctionOnSet(f, S \ {x}) = SumFunctionOnSet(g, S \ {x})
  BY SumSame, FS_RemoveElement
<1> QED BY <1>1, <1>2

\* One element changes its value.
LEMMA SumChange ==
    ASSUME NEW f, NEW g, NEW S, IsFiniteSet(S), NEW x \in S,
           \A y \in S : f[y] \in Nat /\ g[y] \in Nat, \A y \in S \ {x} : f[y] = g[y]
    PROVE  SumFunctionOnSet(g, S) = SumFunctionOnSet(f, S) - f[x] + g[x]
<1>1. /\ SumFunctionOnSet(f, S) = f[x] + SumFunctionOnSet(f, S \ {x})
      /\ SumFunctionOnSet(g, S) = g[x] + SumFunctionOnSet(g, S \ {x})
      /\ SumFunctionOnSet(f, S \ {x}) \in Nat
  BY SumRemove
<1>2. SumFunctionOnSet(f, S \ {x}) = SumFunctionOnSet(g, S \ {x})
  BY SumSame, FS_RemoveElement, Zenon
<1> QED BY <1>1, <1>2

\* Value moves between two elements.
LEMMA SumMove ==
    ASSUME NEW f, NEW g, NEW S, IsFiniteSet(S), NEW x \in S, NEW y \in S, x # y,
           \A z \in S : f[z] \in Nat /\ g[z] \in Nat, \A z \in S \ {x, y} : f[z] = g[z],
           f[x] + f[y] = g[x] + g[y]
    PROVE  SumFunctionOnSet(g, S) = SumFunctionOnSet(f, S)
<1>1. IsFiniteSet(S \ {x}) /\ y \in S \ {x}
  BY FS_RemoveElement, Zenon
<1>2. /\ SumFunctionOnSet(f, S) = f[x] + SumFunctionOnSet(f, S \ {x})
      /\ SumFunctionOnSet(f, S \ {x}) \in Nat
  BY SumRemove, Zenon
<1>3. SumFunctionOnSet(g, S) = g[x] + SumFunctionOnSet(g, S \ {x})
  BY SumRemove
<1>4. SumFunctionOnSet(g, S \ {x}) = SumFunctionOnSet(f, S \ {x}) - f[y] + g[y]
  <2> DEFINE R == S \ {x}
  <2>1. \A z \in R : f[z] \in Nat /\ g[z] \in Nat
    BY Zenon
  <2>2. \A z \in R \ {y} : f[z] = g[z]
    BY Zenon
  <2> HIDE DEF R
  <2>3. SumFunctionOnSet(g, R) = SumFunctionOnSet(f, R) - f[y] + g[y]
    BY <1>1, <2>1, <2>2, SumChange DEF R
  <2> QED BY <2>3, Zenon DEF R
<1> QED BY <1>2, <1>3, <1>4

LEMMA SumMonotone ==
    ASSUME NEW f, NEW g, NEW S, IsFiniteSet(S),
           \A x \in S : f[x] \in Nat /\ g[x] \in Nat /\ f[x] <= g[x]
    PROVE  SumFunctionOnSet(f, S) <= SumFunctionOnSet(g, S)
<1> DEFINE T == {s \in SUBSET S : SumFunctionOnSet(f, s) <= SumFunctionOnSet(g, s)}
<1>1. ASSUME NEW s \in SUBSET S, \A x \in s : s \ {x} \in T PROVE s \in T
  <2>1. /\ SumFunctionOnSet(f, s) =
             IF s = {} THEN 0 ELSE f[Pick(s)] + SumFunctionOnSet(f, s \ {Pick(s)})
        /\ SumFunctionOnSet(g, s) =
             IF s = {} THEN 0 ELSE g[Pick(s)] + SumFunctionOnSet(g, s \ {Pick(s)})
    BY SubsetFinite, SumStep, Zenon
  <2>2. /\ SumFunctionOnSet(f, s \ {Pick(s)}) \in Nat
        /\ SumFunctionOnSet(g, s \ {Pick(s)}) \in Nat
    BY SubsetFinite, SumType, FS_RemoveElement
  <2>3. s # {} => /\ f[Pick(s)] \in Nat /\ g[Pick(s)] \in Nat /\ f[Pick(s)] <= g[Pick(s)]
                  /\ SumFunctionOnSet(f, s \ {Pick(s)}) <= SumFunctionOnSet(g, s \ {Pick(s)})
    BY <1>1, PickIn, Zenon
  <2> QED BY <2>1, <2>2, <2>3
<1>2. S \in T
  <2> HIDE DEF T
  <2> QED BY <1>1, SubsetInduction, Zenon
<1> QED BY <1>2, Zenon

LEMMA SumBound ==
    ASSUME NEW f, NEW S, IsFiniteSet(S), NEW b \in Nat,
           \A x \in S : f[x] \in Nat /\ f[x] <= b
    PROVE  SumFunctionOnSet(f, S) <= Cardinality(S) * b
<1> DEFINE T == {s \in SUBSET S : SumFunctionOnSet(f, s) <= Cardinality(s) * b}
<1>1. ASSUME NEW s \in SUBSET S, \A x \in s : s \ {x} \in T PROVE s \in T
  <2>1. SumFunctionOnSet(f, s) =
          IF s = {} THEN 0 ELSE f[Pick(s)] + SumFunctionOnSet(f, s \ {Pick(s)})
    BY SubsetFinite, SumStep, Zenon
  <2>2. /\ SumFunctionOnSet(f, s \ {Pick(s)}) \in Nat
        /\ Cardinality(s) \in Nat
    BY SubsetFinite, SumType, FS_RemoveElement
  <2>3. CASE s = {}
    BY <2>1, <2>3, FS_EmptySet
  <2>4. CASE s # {}
    <3>1. /\ f[Pick(s)] \in Nat /\ f[Pick(s)] <= b
          /\ SumFunctionOnSet(f, s \ {Pick(s)}) <= Cardinality(s \ {Pick(s)}) * b
      BY <1>1, <2>4, PickIn, Zenon
    <3>2. Cardinality(s \ {Pick(s)}) = Cardinality(s) - 1
      BY <2>4, PickIn, SubsetFinite, Zenon
    <3>3. (Cardinality(s) - 1) * b + b = Cardinality(s) * b
      BY <2>2
    <3> QED BY <2>1, <2>2, <2>4, <3>1, <3>2, <3>3
  <2> QED BY <2>3, <2>4, Zenon
<1>2. S \in T
  <2> HIDE DEF T
  <2> QED BY <1>1, SubsetInduction, Zenon
<1> QED BY <1>2, Zenon

-----------------------------------------------------------------------------
(***************************************************************************)
(* Storage maps and the ledger.                                            *)
(***************************************************************************)
LEMMA PutType ==
    ASSUME NEW K, NEW R, NEW map, IsMap(map, K, R), NEW k \in K, NEW v \in R
    PROVE  IsMap(Put(map, k, v), K, R)
BY Zenon DEF IsMap, Put

LEMMA DropType ==
    ASSUME NEW K, NEW R, NEW map, IsMap(map, K, R), NEW k
    PROVE  IsMap(Drop(map, k), K, R)
BY Zenon DEF IsMap, Drop

LEMMA UpdateType ==
    ASSUME NEW K, NEW R, NEW map, IsMap(map, K, R), NEW k, NEW v, k \in DOMAIN map => v \in R
    PROVE  IsMap([map EXCEPT ![k] = v], K, R)
BY Zenon DEF IsMap

LEMMA EmptyMapType == ASSUME NEW K, NEW R PROVE IsMap(EmptyMap, K, R)
BY Zenon DEF IsMap, EmptyMap

LEMMA ReserveType ==
    ASSUME NEW ledger \in Ledger, NEW who \in Account, NEW value \in Nat,
           CanReserve(ledger, who, value)
    PROVE  Reserve(ledger, who, value) \in Ledger
BY BalancesAssumption DEF Ledger, CanReserve, Reserve

LEMMA UnreserveType ==
    ASSUME NEW ledger \in Ledger, NEW who \in Account, NEW value \in Nat
    PROVE  Unreserve(ledger, who, value) \in Ledger
BY DEF Ledger, Unreserve, Least

LEMMA SlashType ==
    ASSUME NEW ledger \in Ledger, NEW who \in Account, NEW value \in Nat
    PROVE  /\ SlashReserved(ledger, who, value) \in Ledger
           /\ Slashable(ledger, who, value) \in Nat
BY DEF Ledger, SlashReserved, Slashable, Least

LEMMA RepatriateType ==
    ASSUME NEW ledger \in Ledger, NEW from \in Account, NEW to \in Account, NEW value \in Nat
    PROVE  RepatriateReserved(ledger, from, to, value) \in Ledger
<1>1. CASE from = to
  BY <1>1, UnreserveType, Zenon DEF RepatriateReserved
<1>2. CASE from # to
  BY <1>2 DEF Ledger, RepatriateReserved, Least
<1> QED BY <1>1, <1>2, Zenon

LEMMA TransferType ==
    ASSUME NEW from \in Account, NEW to \in Account, balances \in Ledger, transfer_all(from, to)
    PROVE  balances' \in Ledger
BY BalancesAssumption DEF Ledger, transfer_all, Transferable, saturating_sub

-----------------------------------------------------------------------------
(***************************************************************************)
(* Reserves and the claims on them.  burned is what was slashed so far.    *)
(***************************************************************************)
Covers(ledger, burned, claims) ==
    \A a \in Account : /\ ledger[a].reserved <= claims[a]
                       /\ ledger[a].reserved + burned[a] >= claims[a]

\* after is claims with one more claim on who.
OneMore(claims, after, who, value) ==
    \A a \in Account : after[a] = IF a = who THEN claims[a] + value ELSE claims[a]

\* The reserve of who has lost value, or what there was.
Takes(ledger, new, who, value) ==
    \A a \in Account :
        new[a].reserved = IF a = who THEN ledger[a].reserved - Least(value, ledger[a].reserved)
                          ELSE ledger[a].reserved

\* A reservation made with a claim of its size.
LEMMA ReserveCovers ==
    ASSUME NEW ledger \in Ledger, NEW burned \in [Account -> Nat],
           NEW claims \in [Account -> Nat], NEW after, NEW who \in Account, NEW value \in Nat,
           Covers(ledger, burned, claims), OneMore(claims, after, who, value)
    PROVE  Covers(Reserve(ledger, who, value), burned, after)
<1> DEFINE new == Reserve(ledger, who, value)
<1>1. \A a \in Account :
         new[a].reserved = IF a = who THEN ledger[a].reserved + value ELSE ledger[a].reserved
  BY Zenon DEF Ledger, Reserve
<1>2. \A a \in Account : ledger[a].reserved \in Nat /\ burned[a] \in Nat /\ claims[a] \in Nat
  BY Zenon DEF Ledger
<1> HIDE DEF new
<1>3. Covers(new, burned, after)
  BY <1>1, <1>2 DEF Covers, OneMore
<1> QED BY <1>3, Zenon DEF new

\* A claim that ends, and takes up to its size out of the reserve.
LEMMA TakeCovers ==
    ASSUME NEW ledger \in Ledger, NEW burned \in [Account -> Nat],
           NEW claims \in [Account -> Nat], NEW after \in [Account -> Nat],
           NEW who \in Account, NEW value \in Nat, NEW new,
           Covers(ledger, burned, claims), OneMore(after, claims, who, value),
           Takes(ledger, new, who, value)
    PROVE  Covers(new, burned, after)
<1>1. \A a \in Account : ledger[a].reserved \in Nat /\ burned[a] \in Nat /\ after[a] \in Nat
  BY Zenon DEF Ledger
<1> QED BY <1>1 DEF Covers, OneMore, Takes, Least

LEMMA UnreserveTakes ==
    ASSUME NEW ledger \in Ledger, NEW who \in Account, NEW value \in Nat
    PROVE  Takes(ledger, Unreserve(ledger, who, value), who, value)
BY Zenon DEF Ledger, Unreserve, Takes

LEMMA RepatriateTakes ==
    ASSUME NEW ledger \in Ledger, NEW from \in Account, NEW to \in Account, NEW value \in Nat
    PROVE  Takes(ledger, RepatriateReserved(ledger, from, to, value), from, value)
<1>1. CASE from = to
  BY <1>1, UnreserveTakes, Zenon DEF RepatriateReserved
<1>2. CASE from # to
  BY <1>2, Zenon DEF Ledger, RepatriateReserved, Takes
<1> QED BY <1>1, <1>2, Zenon

\* A slash, with what it burned added to burned.
LEMMA SlashCovers ==
    ASSUME NEW ledger \in Ledger, NEW burned \in [Account -> Nat],
           NEW claims \in [Account -> Nat], NEW who \in Account, NEW value \in Nat,
           Covers(ledger, burned, claims)
    PROVE  Covers(SlashReserved(ledger, who, value),
                  [burned EXCEPT ![who] = @ + Slashable(ledger, who, value)], claims)
<1> DEFINE x == Slashable(ledger, who, value)
           new == SlashReserved(ledger, who, value)
<1>1. x \in Nat /\ x <= ledger[who].reserved
  BY DEF Ledger, Slashable, Least
<1>2. \A a \in Account :
         new[a].reserved = IF a = who THEN ledger[a].reserved - x ELSE ledger[a].reserved
  BY Zenon DEF Ledger, SlashReserved
<1>3. \A a \in Account : ledger[a].reserved \in Nat /\ burned[a] \in Nat /\ claims[a] \in Nat
  BY Zenon DEF Ledger
<1>4. \A a \in Account : [burned EXCEPT ![who] = @ + x][a] =
                            IF a = who THEN burned[a] + x ELSE burned[a]
  BY Zenon
<1> HIDE DEF x, new
<1>5. Covers(new, [burned EXCEPT ![who] = @ + x], claims)
  BY <1>1, <1>2, <1>3, <1>4 DEF Covers
<1> QED BY <1>5, Zenon DEF x, new

-----------------------------------------------------------------------------
(***************************************************************************)
(* The issuance: only a slash changes it.                                  *)
(***************************************************************************)
Wealth(ledger) == [a \in Account |-> ledger[a].free + ledger[a].reserved]

Issuance(ledger) == SumFunctionOnSet(Wealth(ledger), Account)

LEMMA WealthType ==
    ASSUME NEW ledger \in Ledger PROVE \A a \in Account : Wealth(ledger)[a] \in Nat
BY DEF Ledger, Wealth

LEMMA SameWealth ==
    ASSUME NEW ledger, NEW new, \A a \in Account : Wealth(new)[a] = Wealth(ledger)[a]
    PROVE  Issuance(new) = Issuance(ledger)
BY SumSame, BalancesAssumption DEF Issuance

LEMMA ReserveIssuance ==
    ASSUME NEW ledger \in Ledger, NEW who \in Account, NEW value \in Nat
    PROVE  Issuance(Reserve(ledger, who, value)) = Issuance(ledger)
<1>1. \A a \in Account : Wealth(Reserve(ledger, who, value))[a] = Wealth(ledger)[a]
  BY DEF Ledger, Reserve, Wealth
<1> QED BY <1>1, SameWealth, Zenon

LEMMA UnreserveIssuance ==
    ASSUME NEW ledger \in Ledger, NEW who \in Account, NEW value \in Nat
    PROVE  Issuance(Unreserve(ledger, who, value)) = Issuance(ledger)
<1>1. \A a \in Account : Wealth(Unreserve(ledger, who, value))[a] = Wealth(ledger)[a]
  BY DEF Ledger, Unreserve, Wealth, Least
<1> QED BY <1>1, SameWealth

\* An amount moves from one account to another.
LEMMA MoveIssuance ==
    ASSUME NEW ledger \in Ledger, NEW new \in Ledger, NEW from \in Account, NEW to \in Account,
           from # to, NEW x \in Nat,
           Wealth(new)[from] = Wealth(ledger)[from] - x,
           Wealth(new)[to] = Wealth(ledger)[to] + x,
           \A a \in Account \ {from, to} : Wealth(new)[a] = Wealth(ledger)[a]
    PROVE  Issuance(new) = Issuance(ledger)
<1>1. \A a \in Account : Wealth(ledger)[a] \in Nat /\ Wealth(new)[a] \in Nat
  BY WealthType, Zenon
<1>2. Wealth(ledger)[from] + Wealth(ledger)[to] = Wealth(new)[from] + Wealth(new)[to]
  BY <1>1
<1>3. \A a \in Account \ {from, to} : Wealth(ledger)[a] = Wealth(new)[a]
  BY Zenon
<1> QED BY <1>1, <1>2, <1>3, SumMove, BalancesAssumption DEF Issuance

LEMMA RepatriateIssuance ==
    ASSUME NEW ledger \in Ledger, NEW from \in Account, NEW to \in Account, NEW value \in Nat
    PROVE  Issuance(RepatriateReserved(ledger, from, to, value)) = Issuance(ledger)
<1>1. CASE from = to
  BY <1>1, UnreserveIssuance, Zenon DEF RepatriateReserved
<1>2. CASE from # to
  <2> DEFINE new == RepatriateReserved(ledger, from, to, value)
             x == Least(value, ledger[from].reserved)
  <2>1. x \in Nat /\ new \in Ledger
    BY RepatriateType, Zenon DEF Ledger, Least
  <2>2. /\ Wealth(new)[from] = Wealth(ledger)[from] - x
        /\ Wealth(new)[to] = Wealth(ledger)[to] + x
        /\ \A a \in Account \ {from, to} : Wealth(new)[a] = Wealth(ledger)[a]
    <3>1. /\ new[from].free = ledger[from].free /\ new[from].reserved = ledger[from].reserved - x
          /\ new[to].free = ledger[to].free + x /\ new[to].reserved = ledger[to].reserved
          /\ \A a \in Account \ {from, to} : new[a] = ledger[a]
      BY <1>2, Zenon DEF Ledger, RepatriateReserved
    <3>2. /\ ledger[from].free \in Nat /\ ledger[from].reserved \in Nat
          /\ ledger[to].free \in Nat /\ ledger[to].reserved \in Nat
      BY Zenon DEF Ledger
    <3> HIDE DEF new, x
    <3> QED BY <2>1, <3>1, <3>2 DEF Wealth
  <2> HIDE DEF new, x
  <2>3. Issuance(new) = Issuance(ledger)
    BY <1>2, <2>1, <2>2, MoveIssuance
  <2> QED BY <2>3, Zenon DEF new
<1> QED BY <1>1, <1>2, Zenon

LEMMA TransferIssuance ==
    ASSUME NEW from \in Account, NEW to \in Account, balances \in Ledger, transfer_all(from, to)
    PROVE  Issuance(balances)' = Issuance(balances)
<1> DEFINE x == Transferable(balances, from)
<1>1. x \in Nat /\ balances' \in Ledger
  BY TransferType, BalancesAssumption DEF Ledger, Transferable, saturating_sub
<1>2. from # to
  BY Zenon DEF transfer_all
<1>3. /\ Wealth(balances')[from] = Wealth(balances)[from] - x
      /\ Wealth(balances')[to] = Wealth(balances)[to] + x
      /\ \A a \in Account \ {from, to} : Wealth(balances')[a] = Wealth(balances)[a]
  <2>1. /\ balances'[from].free = balances[from].free - x
        /\ balances'[from].reserved = balances[from].reserved
        /\ balances'[to].free = balances[to].free + x
        /\ balances'[to].reserved = balances[to].reserved
        /\ \A a \in Account \ {from, to} : balances'[a] = balances[a]
    BY <1>2, Zenon DEF Ledger, transfer_all
  <2>2. /\ balances[from].free \in Nat /\ balances[from].reserved \in Nat
        /\ balances[to].free \in Nat /\ balances[to].reserved \in Nat
    BY Zenon DEF Ledger
  <2> HIDE DEF x
  <2> QED BY <1>1, <2>1, <2>2 DEF Wealth
<1>4. Issuance(balances') = Issuance(balances)
  <2> HIDE DEF x
  <2> QED BY <1>1, <1>2, <1>3, MoveIssuance
<1> QED BY <1>4, Zenon DEF Issuance, Wealth

LEMMA SlashIssuance ==
    ASSUME NEW ledger \in Ledger, NEW who \in Account, NEW value \in Nat
    PROVE  Issuance(SlashReserved(ledger, who, value))
             = Issuance(ledger) - Slashable(ledger, who, value)
<1> DEFINE new == SlashReserved(ledger, who, value)
           x == Slashable(ledger, who, value)
<1>1. new \in Ledger /\ x \in Nat
  BY SlashType, Zenon
<1>2. /\ Wealth(new)[who] = Wealth(ledger)[who] - x
      /\ \A a \in Account \ {who} : Wealth(ledger)[a] = Wealth(new)[a]
  BY <1>1 DEF Ledger, SlashReserved, Wealth
<1> HIDE DEF new, x
<1>3. \A a \in Account : Wealth(ledger)[a] \in Nat /\ Wealth(new)[a] \in Nat
  BY <1>1, WealthType, Zenon
<1>4. Issuance(new) = Issuance(ledger) - Wealth(ledger)[who] + Wealth(new)[who]
  BY <1>2, <1>3, SumChange, BalancesAssumption DEF Issuance
<1>5. Issuance(ledger) \in Nat
  BY <1>3, SumType, BalancesAssumption, Zenon DEF Issuance
<1>6. Issuance(new) = Issuance(ledger) - x
  BY <1>1, <1>2, <1>3, <1>4, <1>5
<1> QED BY <1>6, Zenon DEF new, x

-----------------------------------------------------------------------------
(***************************************************************************)
(* The amounts locked on a payer.                                          *)
(***************************************************************************)
Amounts == [id \in DOMAIN Escrows |-> Escrows[id].amount]

LEMMA LockedType ==
    ASSUME NEW Id, EscrowTypeOK(Id), IsFiniteSet(DOMAIN Escrows), NEW a
    PROVE  /\ IsFiniteSet(LockedFrom(a))
           /\ \A id \in DOMAIN Escrows : Amounts[id] \in Nat
           /\ LockedOn(a) = SumFunctionOnSet(Amounts, LockedFrom(a))
           /\ LockedOn(a) \in Nat
<1>1. LockedFrom(a) \in SUBSET DOMAIN Escrows
  BY Zenon DEF LockedFrom
<1>2. IsFiniteSet(LockedFrom(a))
  BY <1>1, FS_Subset, Zenon
<1>3. \A id \in DOMAIN Escrows : Amounts[id] \in Nat
  BY Zenon DEF Amounts, EscrowTypeOK, IsMap, EscrowRecord
<1>4. LockedOn(a) = SumFunctionOnSet(Amounts, LockedFrom(a))
  BY Zenon DEF LockedOn, Amounts
<1>5. LockedOn(a) \in Nat
  BY <1>1, <1>2, <1>3, <1>4, SumType, Zenon
<1> QED BY <1>2, <1>3, <1>4, <1>5, Zenon

\* One Locked record alone is no more than the sum.
LEMMA LockedBound ==
    ASSUME NEW Id, EscrowTypeOK(Id), IsFiniteSet(DOMAIN Escrows), NEW id, IsLocked(id)
    PROVE  Escrows[id].amount <= LockedOn(Escrows[id].payer)
<1> DEFINE a == Escrows[id].payer
<1>1. id \in LockedFrom(a) /\ LockedFrom(a) \subseteq DOMAIN Escrows
  BY Zenon DEF LockedFrom, IsLocked
<1>2. Amounts[id] = Escrows[id].amount
  BY Zenon DEF Amounts, IsLocked
<1>3. \A y \in LockedFrom(a) : Amounts[y] \in Nat
  BY <1>1, LockedType, Zenon
<1>4. Amounts[id] <= SumFunctionOnSet(Amounts, LockedFrom(a))
  BY <1>1, <1>3, LockedType, SumDrop, Zenon
<1> QED BY <1>2, <1>4, LockedType, Zenon

LEMMA LockClaims ==
    ASSUME NEW Id, EscrowTypeOK(Id), IsFiniteSet(DOMAIN Escrows),
           NEW id, NEW payer, NEW payee, NEW amount \in Nat, lock(id, payer, payee, amount)
    PROVE  /\ IsFiniteSet(DOMAIN Escrows')
           /\ \A a : LockedOn(a)' = IF a = payer THEN LockedOn(a) + amount ELSE LockedOn(a)
<1>1. /\ id \notin DOMAIN Escrows /\ DOMAIN Escrows' = DOMAIN Escrows \cup {id}
      /\ \A x \in DOMAIN Escrows : Escrows'[x] = Escrows[x]
      /\ Escrows'[id].payer = payer /\ Escrows'[id].amount = amount
      /\ Escrows'[id].status = "Locked"
  BY Zenon DEF lock, Put
<1>2. IsFiniteSet(DOMAIN Escrows')
  BY <1>1, FS_AddElement, Zenon
<1>3. /\ \A x \in DOMAIN Escrows : Amounts[x] = Amounts'[x]
      /\ Amounts'[id] = amount
  BY <1>1, Zenon DEF Amounts
<1>4. ASSUME NEW a
      PROVE  LockedOn(a)' = IF a = payer THEN LockedOn(a) + amount ELSE LockedOn(a)
  <2>1. LockedFrom(a)' = IF a = payer THEN LockedFrom(a) \cup {id} ELSE LockedFrom(a)
    BY <1>1, Zenon DEF LockedFrom, IsLocked
  <2>2. /\ id \notin LockedFrom(a)
        /\ \A x \in LockedFrom(a) : Amounts[x] = Amounts'[x] /\ Amounts[x] \in Nat
    BY <1>1, <1>3, LockedType, Zenon DEF LockedFrom
  <2>3. LockedOn(a)' = SumFunctionOnSet(Amounts', LockedFrom(a)')
    BY Zenon DEF LockedOn, Amounts
  <2>4. IsFiniteSet(LockedFrom(a)) /\ LockedOn(a) = SumFunctionOnSet(Amounts, LockedFrom(a))
    BY LockedType, Zenon
  <2>5. CASE a = payer
    <3>1. Amounts'[id] \in Nat
      BY <1>3, Zenon
    <3>2. SumFunctionOnSet(Amounts', LockedFrom(a) \cup {id})
            = SumFunctionOnSet(Amounts, LockedFrom(a)) + Amounts'[id]
      BY <2>2, <2>4, <3>1, SumAdd
    <3> QED BY <1>3, <2>1, <2>3, <2>4, <2>5, <3>2, Zenon
  <2>6. CASE a # payer
    <3>1. SumFunctionOnSet(Amounts, LockedFrom(a)) = SumFunctionOnSet(Amounts', LockedFrom(a))
      BY <2>2, <2>4, SumSame, Zenon
    <3> QED BY <2>1, <2>3, <2>4, <2>6, <3>1, Zenon
  <2> QED BY <2>5, <2>6, Zenon
<1> QED BY <1>2, <1>4, Zenon

\* A release or a refund.
LEMMA SettleClaims ==
    ASSUME NEW Id, EscrowTypeOK(Id), IsFiniteSet(DOMAIN Escrows),
           NEW id, IsLocked(id), NEW status \in EscrowStatus \ {"Locked"},
           Escrows' = [Escrows EXCEPT ![id].status = status]
    PROVE  /\ IsFiniteSet(DOMAIN Escrows')
           /\ \A a : LockedOn(a)' \in Nat
           /\ \A a : LockedOn(a) = IF a = Escrows[id].payer
                                   THEN LockedOn(a)' + Escrows[id].amount ELSE LockedOn(a)'
<1>1. id \in DOMAIN Escrows /\ Escrows[id] \in EscrowRecord /\ Escrows[id].status = "Locked"
  BY Zenon DEF IsLocked, EscrowTypeOK, IsMap
<1>2. /\ DOMAIN Escrows' = DOMAIN Escrows
      /\ \A x \in DOMAIN Escrows \ {id} : Escrows'[x] = Escrows[x]
      /\ Escrows'[id].payer = Escrows[id].payer /\ Escrows'[id].amount = Escrows[id].amount
      /\ Escrows'[id].status # "Locked"
  BY <1>1, Zenon DEF EscrowTypeOK, IsMap, EscrowRecord
<1>3. \A x \in DOMAIN Escrows : Amounts'[x] = Amounts[x]
  BY <1>2, Zenon DEF Amounts
<1>4. ASSUME NEW a
      PROVE  /\ LockedOn(a)' \in Nat
             /\ LockedOn(a) = IF a = Escrows[id].payer
                              THEN LockedOn(a)' + Escrows[id].amount ELSE LockedOn(a)'
  <2>1. LockedFrom(a)' = LockedFrom(a) \ {id}
    BY <1>2, Zenon DEF LockedFrom, IsLocked
  <2>2. id \in LockedFrom(a) <=> a = Escrows[id].payer
    BY <1>1, Zenon DEF LockedFrom, IsLocked
  <2>3. \A x \in LockedFrom(a) : Amounts[x] = Amounts'[x] /\ Amounts[x] \in Nat
    BY <1>3, LockedType, Zenon DEF LockedFrom
  <2>4. LockedOn(a)' = SumFunctionOnSet(Amounts', LockedFrom(a)')
    BY Zenon DEF LockedOn, Amounts
  <2>5. /\ IsFiniteSet(LockedFrom(a))
        /\ LockedOn(a) \in Nat /\ LockedOn(a) = SumFunctionOnSet(Amounts, LockedFrom(a))
    BY LockedType, Zenon
  <2>6. CASE a = Escrows[id].payer
    <3>1. /\ SumFunctionOnSet(Amounts', LockedFrom(a) \ {id})
                = SumFunctionOnSet(Amounts, LockedFrom(a)) - Amounts[id]
          /\ Amounts[id] <= SumFunctionOnSet(Amounts, LockedFrom(a))
      <4>1. /\ id \in LockedFrom(a) /\ IsFiniteSet(LockedFrom(a))
            /\ \A x \in LockedFrom(a) : Amounts[x] \in Nat
            /\ \A x \in LockedFrom(a) \ {id} : Amounts[x] = Amounts'[x]
        BY <2>2, <2>3, <2>5, <2>6, Zenon
      <4>2. PICK f, g, S : f = Amounts /\ g = Amounts' /\ S = LockedFrom(a)
        BY Zenon
      <4>3. /\ IsFiniteSet(S) /\ id \in S
            /\ \A y \in S : f[y] \in Nat
            /\ \A y \in S \ {id} : f[y] = g[y]
        BY <4>1, <4>2, Zenon
      <4>4. /\ SumFunctionOnSet(f, S) = f[id] + SumFunctionOnSet(f, S \ {id})
            /\ SumFunctionOnSet(f, S \ {id}) \in Nat
        BY <4>3, SumRemove, Zenon
      <4>5. IsFiniteSet(S \ {id})
        BY <4>3, FS_RemoveElement, Zenon
      <4>6. SumFunctionOnSet(f, S \ {id}) = SumFunctionOnSet(g, S \ {id})
        BY <4>3, <4>5, SumSame, Zenon
      <4>7. f[id] \in Nat
        BY <4>3, Zenon
      <4>8. /\ SumFunctionOnSet(g, S \ {id}) = SumFunctionOnSet(f, S) - f[id]
            /\ f[id] <= SumFunctionOnSet(f, S)
        BY <4>4, <4>6, <4>7
      <4> QED BY <4>2, <4>8, Zenon
    <3>2. Amounts[id] = Escrows[id].amount /\ Amounts[id] \in Nat
      BY <1>1, LockedType, Zenon DEF Amounts
    <3>3. LockedOn(a)' = LockedOn(a) - Escrows[id].amount
      BY <2>1, <2>4, <2>5, <3>1, <3>2, Zenon
    <3> QED BY <2>5, <2>6, <3>1, <3>2, <3>3
  <2>7. CASE a # Escrows[id].payer
    <3>1. LockedFrom(a)' = LockedFrom(a)
      BY <2>1, <2>2, <2>7, Zenon
    <3>2. SumFunctionOnSet(Amounts, LockedFrom(a)) = SumFunctionOnSet(Amounts', LockedFrom(a))
      BY <2>3, <2>5, SumSame, Zenon
    <3> QED BY <2>4, <2>5, <2>7, <3>1, <3>2, Zenon
  <2> QED BY <2>6, <2>7, Zenon
<1> QED BY <1>2, <1>4, Zenon

-----------------------------------------------------------------------------
(***************************************************************************)
(* The life of a record, and what a settlement moves.                      *)
(***************************************************************************)
EscrowEntry ==
    \/ \E id, payer, payee, amount : lock(id, payer, payee, amount)
    \/ \E id : release(id) \/ refund(id)

LEMMA EntryKeepsLife ==
    ASSUME EscrowEntry
    PROVE  RecordLife
<1>1. ASSUME NEW id, NEW payer, NEW payee, NEW amount, lock(id, payer, payee, amount)
      PROVE  RecordLife
  BY <1>1, Zenon DEF lock, Put, RecordLife
<1>2. ASSUME NEW id, release(id) \/ refund(id)
      PROVE  RecordLife
  <2>1. PICK s \in {"Released", "Refunded"} :
          IsLocked(id) /\ Escrows' = [Escrows EXCEPT ![id].status = s]
    BY <1>2, Zenon DEF release, refund
  <2>2. /\ DOMAIN Escrows' = DOMAIN Escrows
        /\ Escrows'[id] = [Escrows[id] EXCEPT !.status = s]
        /\ \A x \in DOMAIN Escrows : x # id => Escrows'[x] = Escrows[x]
    BY <2>1, Zenon DEF IsLocked
  <2> QED BY <2>1, <2>2, Zenon DEF RecordLife, IsLocked
<1> QED BY <1>1, <1>2, Zenon DEF EscrowEntry

\* Only release and refund of its own id settle a record.
LEMMA OnlySettler ==
    ASSUME NEW Id, EscrowTypeOK(Id), UNCHANGED Escrows \/ EscrowEntry, NEW id,
           NEW s \in {"Released", "Refunded"}, Settles(id, s)
    PROVE  IF s = "Released" THEN release(id) ELSE refund(id)
<1>1. id \in DOMAIN Escrows /\ Escrows[id].status = "Locked" /\ Escrows'[id].status = s
  BY Zenon DEF Settles
<1>2. ~ UNCHANGED Escrows
  BY <1>1, Zenon
<1>3. ASSUME NEW k, NEW payer, NEW payee, NEW amount, lock(k, payer, payee, amount)
      PROVE  FALSE
  <2>1. Escrows'[id] = Escrows[id]
    BY <1>1, <1>3, Zenon DEF lock, Put
  <2> QED BY <1>1, <2>1, Zenon
<1>4. PICK k : release(k) \/ refund(k)
  BY <1>2, <1>3, Zenon DEF EscrowEntry
<1>5. ASSUME NEW t, IsLocked(k), Escrows' = [Escrows EXCEPT ![k].status = t]
      PROVE  k = id /\ t = s
  <2>1. k = id
    BY <1>1, <1>5, Zenon DEF IsLocked
  <2>2. Escrows[id] \in EscrowRecord
    BY <1>1, Zenon DEF EscrowTypeOK, IsMap
  <2> QED BY <1>1, <1>5, <2>1, <2>2, Zenon DEF EscrowRecord
<1>6. CASE release(k)
  <2>1. k = id /\ s = "Released"
    BY <1>5, <1>6, Zenon DEF release
  <2> QED BY <1>6, <2>1, Zenon
<1>7. CASE refund(k)
  <2>1. k = id /\ s = "Refunded"
    BY <1>5, <1>7, Zenon DEF refund
  <2> QED BY <1>7, <2>1, Zenon
<1> QED BY <1>4, <1>6, <1>7, Zenon

LEMMA ReleasePays ==
    ASSUME NEW Id, EscrowTypeOK(Id), balances \in Ledger, NEW id, release(id),
           Escrows[id].amount <= balances[Escrows[id].payer].reserved
    PROVE  PaysInFull(id)
<1>1. PICK from \in Account, to \in Account, value \in Nat :
        from = Escrows[id].payer /\ to = Escrows[id].payee /\ value = Escrows[id].amount
  BY Zenon DEF release, IsLocked, EscrowTypeOK, IsMap, EscrowRecord
<1>2. balances' = RepatriateReserved(balances, from, to, value)
  BY <1>1, Zenon DEF release
<1>3. Least(value, balances[from].reserved) = value
  BY <1>1, Zenon DEF Least
<1>4. balances'[from].reserved = balances[from].reserved - value
  BY <1>2, <1>3, RepatriateTakes DEF Takes
<1>5. balances'[to].free = balances[to].free + value
  <2>1. CASE from = to
    BY <1>2, <1>3, <2>1, Zenon DEF RepatriateReserved, Unreserve, Ledger
  <2>2. CASE from # to
    BY <1>2, <1>3, <2>2, Zenon DEF RepatriateReserved, Ledger
  <2> QED BY <2>1, <2>2, Zenon
<1> QED BY <1>1, <1>4, <1>5, Zenon DEF PaysInFull

LEMMA RefundPays ==
    ASSUME NEW Id, EscrowTypeOK(Id), balances \in Ledger, NEW id, IsLocked(id),
           Escrows[id].amount <= balances[Escrows[id].payer].reserved
    PROVE  RefundLedger(id)[Escrows[id].payer].free
             = balances[Escrows[id].payer].free + Escrows[id].amount
<1>1. PICK who \in Account, value \in Nat : who = Escrows[id].payer /\ value = Escrows[id].amount
  BY Zenon DEF IsLocked, EscrowTypeOK, IsMap, EscrowRecord
<1>2. Least(value, balances[who].reserved) = value
  BY <1>1, Zenon DEF Least
<1>3. Unreserve(balances, who, value)[who].free = balances[who].free + value
  BY <1>2, Zenon DEF Unreserve, Ledger
<1> QED BY <1>1, <1>3, Zenon DEF RefundLedger
=============================================================================
