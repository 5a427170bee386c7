----------------------------- MODULE GameProofs -----------------------------
(***************************************************************************)
(* Proofs about the rules of a match (Game), for any players, board,       *)
(* prices, rules, deck and dice: the state is always one assertInvariants  *)
(* accepts, scores and titles are true, a staged offer can be kept, a view *)
(* tells what its player may know, menus are what the engine accepts, and  *)
(* the clock and the bots can always act.  Every event of GameEvents keeps *)
(* the hands and the bank together (Purse), the board in order (Layout),   *)
(* the scores what they are worth (Scored) and the titles earned; a        *)
(* command is a few of them, the plight and the judgement.                 *)
(* At the end, the log of a match (ReplayLog), of any length.              *)
(***************************************************************************)
EXTENDS GameBots, ReplayLog, FiniteSetTheorems, FunctionTheorems, WellFoundedInduction, TLAPS

-----------------------------------------------------------------------------
(***************************************************************************)
(* Recursion over finite data.  What has no least counterexample holds.    *)
(***************************************************************************)
LEMMA LeastNumber ==
  ASSUME NEW T \in SUBSET Nat, T # {}
  PROVE  \E n \in T : \A m \in T : n <= m
<1>1. PICK n \in T : \A m \in T : ~(<<m, n>> \in OpToRel(<, Nat))
  BY NatLessThanWellFounded, WFMin
<1>2. \A m \in T : ~(m < n)
  BY <1>1 DEF OpToRel
<1> QED
  BY <1>2

LEMMA LeastSet ==
  ASSUME NEW S, IsFiniteSet(S), NEW B, B \subseteq SUBSET S, B # {}
  PROVE  \E T \in B : \A U \in B : U \subseteq T => U = T
<1>1. IsWellFoundedOn(StrictSubsetOrdering(S), FiniteSubsetsOf(S)) /\ FiniteSubsetsOf(S) = SUBSET S
  BY FS_StrictSubsetOrderingWellFounded, FS_FiniteSubsetsOfFinite
<1>2. PICK T \in B : \A U \in B : ~(<<U, T>> \in StrictSubsetOrdering(S))
  BY <1>1, WFMin
<1> QED
  BY <1>2 DEF StrictSubsetOrdering

\* A definition by recursion on a rank has a solution: Phi makes one table of
\* values out of another and looks only at what has a smaller rank.
Descends(D, T, rank, N, Phi) ==
  /\ T # {} /\ N \in Nat
  /\ rank \in [D -> Nat] /\ \A x \in D : rank[x] <= N
  /\ Phi \in [[D -> T] -> [D -> T]]
  /\ \A g, h \in [D -> T] : \A x \in D :
        (\A y \in D : rank[y] < rank[x] => g[y] = h[y]) => Phi[g][x] = Phi[h][x]

LEMMA RecursionSolved ==
  ASSUME NEW D, NEW T, NEW rank, NEW N, NEW Phi, Descends(D, T, rank, N, Phi)
  PROVE  \E f \in [D -> T] : f = Phi[f]
<1> USE DEF Descends
<1> DEFINE Solves(f, n) == \A x \in D : rank[x] < n => f[x] = Phi[f][x]
           Unsolved == {n \in Nat : ~ \E f \in [D -> T] : Solves(f, n)}
<1>1. 0 \notin Unsolved
  <2>1. PICK t \in T : TRUE
    OBVIOUS
  <2>2. [x \in D |-> t] \in [D -> T] /\ Solves([x \in D |-> t], 0)
    OBVIOUS
  <2> QED
    BY <2>2
<1>2. ASSUME NEW n \in Nat, n \notin Unsolved PROVE n + 1 \notin Unsolved
  <2>1. PICK f \in [D -> T] : Solves(f, n)
    BY <1>2
  <2>2. Phi[f] \in [D -> T]
    OBVIOUS
  <2>3. ASSUME NEW x \in D, rank[x] < n + 1 PROVE Phi[f][x] = Phi[Phi[f]][x]
    <3>1. \A y \in D : rank[y] < rank[x] => f[y] = Phi[f][y]
      BY <2>1, <2>3
    <3> QED
      BY <2>2, <3>1
  <2> QED
    BY <2>2, <2>3
<1>3. Unsolved = {}
  <2> SUFFICES ASSUME Unsolved # {} PROVE FALSE
    OBVIOUS
  <2> HIDE DEF Unsolved
  <2>1. Unsolved \subseteq Nat
    BY DEF Unsolved
  <2>2. PICK n \in Unsolved : \A m \in Unsolved : n <= m
    BY <2>1, LeastNumber
  <2>3. n # 0 /\ n - 1 \in Nat /\ n - 1 \notin Unsolved /\ (n - 1) + 1 = n
    BY <1>1, <2>1, <2>2
  <2>4. (n - 1) + 1 \notin Unsolved
    BY <1>2, <2>3
  <2> QED
    BY <2>2, <2>3, <2>4
<1>4. PICK f \in [D -> T] : Solves(f, N + 1)
  <2>1. N + 1 \in Nat
    OBVIOUS
  <2> HIDE DEF Solves
  <2> QED
    BY <1>3, <2>1
<1>5. \A x \in D : f[x] = Phi[f][x]
  BY <1>4
<1>6. Phi[f] \in [D -> T]
  OBVIOUS
<1> QED
  BY <1>5, <1>6

-----------------------------------------------------------------------------
\* Sums over a finite set.

First(s) == CHOOSE x \in s : TRUE
SumTable(h, f, S) == h = [s \in SUBSET S |-> IF s = {} THEN 0 ELSE f[First(s)] + h[s \ {First(s)}]]

LEMMA SumIs ==
  ASSUME NEW f, NEW S
  PROVE  SumFunctionOnSet(f, S) = (CHOOSE h : SumTable(h, f, S))[S]
BY DEF SumFunctionOnSet, FoldFunctionOnSet, MapThenFoldSet, SumTable, First

LEMMA FirstIn == ASSUME NEW s, s # {} PROVE First(s) \in s
  BY DEF First

LEMMA SumTableExists ==
  ASSUME NEW S, IsFiniteSet(S), NEW f, \A x \in S : f[x] \in Int
  PROVE  \E h \in [SUBSET S -> Int] : SumTable(h, f, S)
<1> DEFINE D == SUBSET S
           Def(h, s) == IF s = {} THEN 0 ELSE f[First(s)] + h[s \ {First(s)}]
           Phi == [h \in [D -> Int] |-> [s \in D |-> Def(h, s)]]
           rank == [s \in D |-> Cardinality(s)]
           N == Cardinality(S)
<1>1. \A s \in D : IsFiniteSet(s) /\ Cardinality(s) \in Nat /\ Cardinality(s) <= N
  BY FS_Subset, FS_CardinalityType
<1>2. N \in Nat
  BY FS_CardinalityType
<1>3. \A s \in D : s # {} => First(s) \in s /\ s \ {First(s)} \in D /\ f[First(s)] \in Int
  BY FirstIn
<1>4. \A s \in D : s # {} => Cardinality(s \ {First(s)}) < Cardinality(s)
  <2> SUFFICES ASSUME NEW s \in D, s # {} PROVE Cardinality(s \ {First(s)}) < Cardinality(s)
    OBVIOUS
  <2>1. Cardinality(s \ {First(s)}) = Cardinality(s) - 1
    BY <1>1, <1>3, FS_RemoveElement
  <2> QED
    BY <1>1, <2>1
<1>5. \A h \in [D -> Int], s \in D : Def(h, s) \in Int
  BY <1>3
<1> HIDE DEF Def
<1>6. Phi \in [[D -> Int] -> [D -> Int]]
  BY <1>5
<1>7. ASSUME NEW g \in [D -> Int], NEW h \in [D -> Int], NEW s \in D,
             \A y \in D : rank[y] < rank[s] => g[y] = h[y]
      PROVE  Phi[g][s] = Phi[h][s]
  <2>1. s # {} => g[s \ {First(s)}] = h[s \ {First(s)}]
    BY <1>3, <1>4, <1>7
  <2>2. Def(g, s) = Def(h, s)
    BY <2>1 DEF Def
  <2> QED
    BY <2>2
<1>8. rank \in [D -> Nat] /\ \A s \in D : rank[s] <= N
  BY <1>1
<1>9. Int # {}
  OBVIOUS
<1> HIDE DEF D, Phi, rank, N
<1>11. \A g, h \in [D -> Int] : \A s \in D :
         (\A y \in D : rank[y] < rank[s] => g[y] = h[y]) => Phi[g][s] = Phi[h][s]
  BY <1>7
<1>12. Descends(D, Int, rank, N, Phi)
  BY <1>2, <1>6, <1>8, <1>9, <1>11 DEF Descends
<1>10. PICK h \in [D -> Int] : h = Phi[h]
  BY <1>12, RecursionSolved
<1> QED
  BY <1>10 DEF SumTable, Phi, D, Def

\* Two tables of the same sums agree where both are defined.
LEMMA SumTablesAgree ==
  ASSUME NEW S, IsFiniteSet(S), NEW R \in SUBSET S, NEW f, NEW g, \A x \in R : f[x] = g[x],
         NEW h, SumTable(h, f, S), NEW k, SumTable(k, g, R)
  PROVE  h[R] = k[R]
<1> DEFINE Bad == {s \in SUBSET R : h[s] # k[s]}
<1>1. SUFFICES ASSUME Bad # {} PROVE FALSE
  OBVIOUS
<1>2. IsFiniteSet(R)
  BY FS_Subset
<1>3. PICK s \in Bad : \A u \in Bad : u \subseteq s => u = s
  <2> HIDE DEF Bad
  <2>1. Bad \subseteq SUBSET R
    BY DEF Bad
  <2> QED
    BY <1>1, <1>2, <2>1, LeastSet
<1>4. h[s] = IF s = {} THEN 0 ELSE f[First(s)] + h[s \ {First(s)}]
  BY DEF SumTable
<1>5. k[s] = IF s = {} THEN 0 ELSE g[First(s)] + k[s \ {First(s)}]
  BY DEF SumTable
<1>6. s # {}
  BY <1>4, <1>5
<1>7. First(s) \in s /\ s \ {First(s)} \in SUBSET R /\ s \ {First(s)} # s
  BY <1>6, FirstIn
<1>8. h[s \ {First(s)}] = k[s \ {First(s)}]
  BY <1>3, <1>7
<1> QED
  BY <1>4, <1>5, <1>6, <1>7, <1>8

\* What SumFunctionOnSet adds up, element by element, in the order it chooses.
LEMMA SumSteps ==
  ASSUME NEW S, IsFiniteSet(S), NEW f, \A x \in S : f[x] \in Int
  PROVE  /\ SumFunctionOnSet(f, S) \in Int
         /\ S = {} => SumFunctionOnSet(f, S) = 0
         /\ S # {} => /\ First(S) \in S
                      /\ SumFunctionOnSet(f, S) = f[First(S)] + SumFunctionOnSet(f, S \ {First(S)})
<1> DEFINE h == CHOOSE h : SumTable(h, f, S)
           R == S \ {First(S)}
           k == CHOOSE k : SumTable(k, f, R)
<1>1. PICK typed \in [SUBSET S -> Int] : SumTable(typed, f, S)
  BY SumTableExists
<1>2. SumTable(h, f, S)
  BY <1>1
<1>3. IsFiniteSet(R) /\ R \in SUBSET S
  BY FS_Subset
<1>4. \E other : SumTable(other, f, R)
  BY <1>3, SumTableExists
<1>5. SumTable(k, f, R)
  BY <1>4
<1>6. SumFunctionOnSet(f, S) = h[S] /\ SumFunctionOnSet(f, R) = k[R]
  BY SumIs
<1> HIDE DEF h, k
<1>7. h[S] = typed[S]
  BY <1>1, <1>2, SumTablesAgree
<1>9. h[S] = IF S = {} THEN 0 ELSE f[First(S)] + h[R]
  BY <1>2 DEF SumTable
<1>10. S # {} => First(S) \in S
  BY FirstIn
<1>11. \A x \in R : f[x] = f[x]
  OBVIOUS
<1> HIDE DEF R
<1>8. h[R] = k[R]
  BY <1>2, <1>3, <1>5, <1>11, SumTablesAgree
<1>12. S # {} => SumFunctionOnSet(f, S) = f[First(S)] + SumFunctionOnSet(f, R)
  BY <1>6, <1>8, <1>9
<1> QED
  BY <1>1, <1>6, <1>7, <1>9, <1>10, <1>12 DEF R

LEMMA SumSame ==
  ASSUME NEW S, IsFiniteSet(S), NEW f, NEW g, \A x \in S : f[x] \in Int /\ f[x] = g[x]
  PROVE  SumFunctionOnSet(f, S) = SumFunctionOnSet(g, S)
<1>1. \E h : SumTable(h, f, S)
  BY SumTableExists
<1>2. \E k : SumTable(k, g, S)
  BY SumTableExists
<1> DEFINE h == CHOOSE h : SumTable(h, f, S)
           k == CHOOSE k : SumTable(k, g, S)
<1>3. SumTable(h, f, S) /\ SumTable(k, g, S)
  BY <1>1, <1>2
<1>4. SumFunctionOnSet(f, S) = h[S] /\ SumFunctionOnSet(g, S) = k[S]
  BY SumIs
<1> HIDE DEF h, k
<1> QED
  BY <1>3, <1>4, SumTablesAgree

\* Any element may be taken out of a sum.
LEMMA SumTakeOut ==
  ASSUME NEW S, IsFiniteSet(S), NEW f, \A x \in S : f[x] \in Int, NEW x \in S
  PROVE  SumFunctionOnSet(f, S) = f[x] + SumFunctionOnSet(f, S \ {x})
<1> DEFINE Bad == {s \in SUBSET S : \E y \in s :
                     SumFunctionOnSet(f, s) # f[y] + SumFunctionOnSet(f, s \ {y})}
<1>1. SUFFICES ASSUME Bad # {} PROVE FALSE
  OBVIOUS
<1>2. PICK s \in Bad : \A u \in Bad : u \subseteq s => u = s
  <2> HIDE DEF Bad
  <2>1. Bad \subseteq SUBSET S
    BY DEF Bad
  <2> QED
    BY <1>1, <2>1, LeastSet
<1>3. PICK y \in s : SumFunctionOnSet(f, s) # f[y] + SumFunctionOnSet(f, s \ {y})
  OBVIOUS
<1> DEFINE c == First(s)
<1>4. \A u \in SUBSET S : IsFiniteSet(u) /\ SumFunctionOnSet(f, u) \in Int
  <2> SUFFICES ASSUME NEW u \in SUBSET S PROVE IsFiniteSet(u) /\ SumFunctionOnSet(f, u) \in Int
    OBVIOUS
  <2>1. IsFiniteSet(u) /\ \A z \in u : f[z] \in Int
    BY FS_Subset
  <2> QED
    BY <2>1, SumSteps
<1>5. c \in s /\ SumFunctionOnSet(f, s) = f[c] + SumFunctionOnSet(f, s \ {c})
  <2>1. IsFiniteSet(s) /\ s # {} /\ \A z \in s : f[z] \in Int
    BY <1>4
  <2> HIDE DEF Bad
  <2> QED
    BY <2>1, SumSteps
<1>6. y # c
  BY <1>3, <1>5
<1>7. /\ s \ {c} \in SUBSET S /\ s \ {c} \notin Bad /\ y \in s \ {c}
      /\ s \ {y} \in SUBSET S /\ s \ {y} \notin Bad /\ c \in s \ {y}
  BY <1>2, <1>5, <1>6
<1>8. /\ SumFunctionOnSet(f, s \ {c}) = f[y] + SumFunctionOnSet(f, (s \ {c}) \ {y})
      /\ SumFunctionOnSet(f, s \ {y}) = f[c] + SumFunctionOnSet(f, (s \ {y}) \ {c})
  BY <1>7
<1>9. (s \ {c}) \ {y} = (s \ {y}) \ {c} /\ (s \ {y}) \ {c} \in SUBSET S
  OBVIOUS
<1>10. f[y] \in Int /\ f[c] \in Int /\ SumFunctionOnSet(f, (s \ {y}) \ {c}) \in Int
  BY <1>4, <1>5, <1>9
<1> DEFINE All == SumFunctionOnSet(f, s)
           Cut == SumFunctionOnSet(f, s \ {y})
           Both == SumFunctionOnSet(f, (s \ {y}) \ {c})
<1>11. /\ All = f[c] + (f[y] + Both) /\ Cut = f[c] + Both
       /\ All # f[y] + Cut
       /\ f[y] \in Int /\ f[c] \in Int /\ Both \in Int
  BY <1>3, <1>5, <1>8, <1>9, <1>10
<1> HIDE DEF Bad, c, All, Cut, Both
<1> QED
  BY <1>11

LEMMA SumExceptAt ==
  ASSUME NEW S, IsFiniteSet(S), NEW f, NEW g, \A x \in S : f[x] \in Int /\ g[x] \in Int,
         NEW x \in S, \A y \in S \ {x} : f[y] = g[y]
  PROVE  SumFunctionOnSet(g, S) = SumFunctionOnSet(f, S) - f[x] + g[x]
<1> DEFINE R == S \ {x}
<1>1. IsFiniteSet(R)
  BY FS_Subset
<1>2. SumFunctionOnSet(f, R) = SumFunctionOnSet(g, R) /\ SumFunctionOnSet(f, R) \in Int
  BY <1>1, SumSame, SumSteps
<1>3. /\ SumFunctionOnSet(f, S) = f[x] + SumFunctionOnSet(f, R)
      /\ SumFunctionOnSet(g, S) = g[x] + SumFunctionOnSet(g, R)
  BY SumTakeOut
<1> QED
  BY <1>2, <1>3

LEMMA SumPlus ==
  ASSUME NEW S, IsFiniteSet(S), NEW f, NEW g, NEW h,
         \A x \in S : f[x] \in Int /\ g[x] \in Int /\ h[x] = f[x] + g[x]
  PROVE  SumFunctionOnSet(h, S) = SumFunctionOnSet(f, S) + SumFunctionOnSet(g, S)
<1> DEFINE Bad == {s \in SUBSET S :
                     SumFunctionOnSet(h, s) # SumFunctionOnSet(f, s) + SumFunctionOnSet(g, s)}
<1>1. SUFFICES ASSUME Bad # {} PROVE FALSE
  OBVIOUS
<1>2. PICK s \in Bad : \A u \in Bad : u \subseteq s => u = s
  <2> HIDE DEF Bad
  <2>1. Bad \subseteq SUBSET S
    BY DEF Bad
  <2> QED
    BY <1>1, <2>1, LeastSet
<1>3. IsFiniteSet(s) /\ \A x \in s : f[x] \in Int /\ g[x] \in Int /\ h[x] \in Int /\ h[x] = f[x] + g[x]
  BY FS_Subset
<1>11. SumFunctionOnSet(h, s) # SumFunctionOnSet(f, s) + SumFunctionOnSet(g, s)
  OBVIOUS
<1>4. s # {}
  <2> HIDE DEF Bad
  <2>1. IsFiniteSet({}) /\ \A x \in {} : f[x] \in Int /\ g[x] \in Int /\ h[x] \in Int
    BY FS_EmptySet
  <2>2. SumFunctionOnSet(f, {}) = 0 /\ SumFunctionOnSet(g, {}) = 0 /\ SumFunctionOnSet(h, {}) = 0
    BY <2>1, SumSteps
  <2> QED
    BY <2>2, <1>11
<1>5. PICK x \in s : TRUE
  BY <1>4
<1> DEFINE R == s \ {x}
<1>6. R \in SUBSET S /\ R # s /\ R \subseteq s
  BY <1>5
<1>7. SumFunctionOnSet(h, R) = SumFunctionOnSet(f, R) + SumFunctionOnSet(g, R)
  BY <1>2, <1>6
<1>8. /\ SumFunctionOnSet(f, s) = f[x] + SumFunctionOnSet(f, R)
      /\ SumFunctionOnSet(g, s) = g[x] + SumFunctionOnSet(g, R)
      /\ SumFunctionOnSet(h, s) = h[x] + SumFunctionOnSet(h, R)
  <2> HIDE DEF Bad
  <2> QED
    BY <1>3, <1>5, SumTakeOut
<1>9. SumFunctionOnSet(f, R) \in Int /\ SumFunctionOnSet(g, R) \in Int
  <2>1. IsFiniteSet(R)
    BY <1>3, FS_Subset
  <2> HIDE DEF Bad
  <2> QED
    BY <1>3, <2>1, SumSteps
<1>10. f[x] \in Int /\ g[x] \in Int /\ h[x] = f[x] + g[x]
  BY <1>3, <1>5
<1> HIDE DEF Bad, R
<1> QED
  BY <1>7, <1>8, <1>9, <1>10, <1>11

LEMMA SumNat ==
  ASSUME NEW S, IsFiniteSet(S), NEW f, \A x \in S : f[x] \in Nat
  PROVE  SumFunctionOnSet(f, S) \in Nat
<1> DEFINE Bad == {s \in SUBSET S : SumFunctionOnSet(f, s) \notin Nat}
<1>1. SUFFICES ASSUME Bad # {} PROVE FALSE
  OBVIOUS
<1>2. PICK s \in Bad : \A u \in Bad : u \subseteq s => u = s
  <2> HIDE DEF Bad
  <2>1. Bad \subseteq SUBSET S
    BY DEF Bad
  <2> QED
    BY <1>1, <2>1, LeastSet
<1>3. IsFiniteSet(s) /\ (\A x \in s : f[x] \in Int /\ f[x] \in Nat) /\ SumFunctionOnSet(f, s) \notin Nat
  BY FS_Subset
<1>4. s # {} /\ First(s) \in s /\ SumFunctionOnSet(f, s) = f[First(s)] + SumFunctionOnSet(f, s \ {First(s)})
  <2> HIDE DEF Bad
  <2>1. \A x \in s : f[x] \in Int
    BY <1>3
  <2>2. /\ s = {} => SumFunctionOnSet(f, s) = 0
        /\ s # {} => /\ First(s) \in s
                     /\ SumFunctionOnSet(f, s) = f[First(s)] + SumFunctionOnSet(f, s \ {First(s)})
    BY <1>3, <2>1, SumSteps
  <2> QED
    BY <1>3, <2>2
<1>5. SumFunctionOnSet(f, s \ {First(s)}) \in Nat
  BY <1>2, <1>4
<1> HIDE DEF Bad
<1> QED
  BY <1>3, <1>4, <1>5

LEMMA SumZero ==
  ASSUME NEW S, IsFiniteSet(S), NEW f, \A x \in S : f[x] = 0
  PROVE  SumFunctionOnSet(f, S) = 0
<1>1. \A x \in S : f[x] \in Int /\ f[x] = f[x] + f[x]
  OBVIOUS
<1>2. SumFunctionOnSet(f, S) \in Int
  BY <1>1, SumSteps
<1>3. SumFunctionOnSet(f, S) = SumFunctionOnSet(f, S) + SumFunctionOnSet(f, S)
  BY <1>1, SumPlus
<1>4. \A n \in Int : n = n + n => n = 0
  OBVIOUS
<1> QED
  BY <1>2, <1>3, <1>4

-----------------------------------------------------------------------------
(* The longest trail.  Its recursion has a solution, whatever the board.   *)

LEMMA ImageFinite ==
  ASSUME NEW S, IsFiniteSet(S), NEW f, NEW T, \A t \in T : \E x \in S : t = f[x]
  PROVE  IsFiniteSet(T)
<1> DEFINE U == {f[x] : x \in S}
           onto == [x \in S |-> f[x]]
<1>1. onto \in Surjection(S, U)
  BY DEF Surjection
<1>2. T \in SUBSET U
  OBVIOUS
<1> HIDE DEF U, onto
<1>3. IsFiniteSet(U)
  BY <1>1, FS_Surjection
<1> QED
  BY <1>2, <1>3, FS_Subset

LEMMA MaxIs ==
  ASSUME NEW S, IsFiniteSet(S), S \subseteq Int, S # {}
  PROVE  Max(S) \in S /\ \A x \in S : x <= Max(S)
<1> DEFINE Tops(s) == {x \in s : \A y \in s : x >= y}
<1>3. S \in SUBSET S
  OBVIOUS
<1> DEFINE Bad == {s \in SUBSET S : s # {} /\ Tops(s) = {}}
<1>1. Bad = {}
  <2> SUFFICES ASSUME Bad # {} PROVE FALSE
    OBVIOUS
  <2>1. PICK s \in Bad : \A u \in Bad : u \subseteq s => u = s
    <3> HIDE DEF Bad
    <3>1. Bad \subseteq SUBSET S
      BY DEF Bad
    <3>2. Bad # {} /\ IsFiniteSet(S)
      OBVIOUS
    <3>3. \E T \in Bad : \A U \in Bad : U \subseteq T => U = T
      BY ONLY <3>1, <3>2, LeastSet
    <3> QED
      BY <3>3
  <2>2. PICK x \in s : TRUE
    OBVIOUS
  <2>3. x \in Int /\ s \subseteq Int
    OBVIOUS
  <2>4. s \ {x} # {}
    <3> SUFFICES ASSUME s \ {x} = {} PROVE FALSE
      OBVIOUS
    <3>1. x \in Tops(s)
      BY <2>3
    <3> QED
      BY <3>1
  <2>5. PICK y \in Tops(s \ {x}) : TRUE
    <3>1. s \ {x} \in SUBSET S /\ s \ {x} # s /\ s \ {x} \subseteq s
      BY <2>2
    <3>2. s \ {x} \notin Bad
      BY <2>1, <3>1
    <3> HIDE DEF Tops
    <3> QED
      BY <2>4, <3>1, <3>2
  <2>6. y \in Tops(s) \/ x \in Tops(s)
    BY <2>3, <2>5
  <2> QED
    BY <2>6
<1>2. Tops(S) # {}
  BY <1>1
<1>4. \E x \in S : \A y \in S : x >= y
  BY <1>2
<1>5. Max(S) \in S /\ \A y \in S : Max(S) >= y
  BY <1>4, Zenon DEF Max
<1> QED
  BY <1>5

-----------------------------------------------------------------------------
\* One step of LongestTrail's recursion, and the recursion as a functional.
Ends(e, v) == CHOOSE w \in e : w # v
Beyond(t, cut, unused, v, e) ==
    IF Ends(e, v) \in cut THEN 1 ELSE 1 + t[unused \ {e}][Ends(e, v)]
Lengths(t, cut, unused, v) ==
    {0} \cup {Beyond(t, cut, unused, v, e) : e \in {e \in unused : v \in e}}
Trails(t, cut) == t = [unused \in SUBSET Edge |-> [v \in Vertex |-> Max(Lengths(t, cut, unused, v))]]

LEMMA LongestTrailIs ==
  ASSUME NEW roads, NEW cut
  PROVE  LongestTrail(roads, cut) = 
           Max({0} \cup {(CHOOSE t : Trails(t, cut))[roads][v] : v \in UNION roads})
BY DEF LongestTrail, Trails, Lengths, Beyond, Ends

LEMMA LengthsFinite ==
  ASSUME NEW t \in [SUBSET Edge -> [Vertex -> Nat]], NEW cut, NEW unused \in SUBSET Edge, NEW v \in Vertex
  PROVE  /\ IsFiniteSet(Lengths(t, cut, unused, v)) /\ Lengths(t, cut, unused, v) # {}
         /\ Lengths(t, cut, unused, v) \subseteq Nat
         /\ Max(Lengths(t, cut, unused, v)) \in Nat
<1> DEFINE E == {e \in unused : v \in e}
           f == [e \in E |-> Beyond(t, cut, unused, v, e)]
<1>1. ASSUME NEW e \in E PROVE f[e] \in Nat
  <2>1. Ends(e, v) \in Vertex
    <3>1. PICK a, b \in Vertex : a # b /\ e = {a, b}
      BY BoardFits
    <3>2. \E w \in e : w # v
      BY <3>1
    <3>3. Ends(e, v) \in e
      BY <3>2 DEF Ends
    <3> QED
      BY <3>1, <3>3
  <2>2. unused \ {e} \in SUBSET Edge
    OBVIOUS
  <2>3. t[unused \ {e}][Ends(e, v)] \in Nat
    BY <2>1, <2>2
  <2> QED
    BY <2>3 DEF Beyond
<1>2. IsFiniteSet(E)
  <2>1. E \in SUBSET Edge /\ IsFiniteSet(Edge)
    BY BoardFits
  <2> HIDE DEF E
  <2> QED
    BY <2>1, FS_Subset
<1>3. Lengths(t, cut, unused, v) = {0} \cup {f[e] : e \in E}
  BY DEF Lengths
<1> HIDE DEF E, f
<1>4. IsFiniteSet({f[e] : e \in E}) /\ IsFiniteSet({0})
  <2> DEFINE T == {f[e] : e \in E}
  <2>1. \A x \in T : \E e \in E : x = f[e]
    OBVIOUS
  <2> HIDE DEF T
  <2>2. IsFiniteSet(T)
    BY <1>2, <2>1, ImageFinite
  <2> QED
    BY <2>2, FS_Singleton DEF T
<1>5. IsFiniteSet({0} \cup {f[e] : e \in E})
  BY <1>4, FS_Union
<1>6. /\ IsFiniteSet(Lengths(t, cut, unused, v)) /\ Lengths(t, cut, unused, v) # {}
      /\ Lengths(t, cut, unused, v) \subseteq Nat
  BY <1>1, <1>3, <1>5
<1>7. Max(Lengths(t, cut, unused, v)) \in Lengths(t, cut, unused, v)
  <2>1. Lengths(t, cut, unused, v) \subseteq Int
    BY <1>6
  <2> QED
    BY <1>6, <2>1, MaxIs
<1> QED
  BY <1>6, <1>7

LEMMA TrailsExist ==
  ASSUME NEW cut
  PROVE  \E t \in [SUBSET Edge -> [Vertex -> Nat]] : Trails(t, cut)
<1> DEFINE D == SUBSET Edge
           T == [Vertex -> Nat]
           Def(t, unused) == [v \in Vertex |-> Max(Lengths(t, cut, unused, v))]
           Phi == [t \in [D -> T] |-> [unused \in D |-> Def(t, unused)]]
           rank == [unused \in D |-> Cardinality(unused)]
           N == Cardinality(Edge)
<1>1. \A s \in D : IsFiniteSet(s) /\ Cardinality(s) \in Nat /\ Cardinality(s) <= N
  <2>1. IsFiniteSet(Edge)
    BY BoardFits
  <2> QED
    BY <2>1, FS_Subset, FS_CardinalityType
<1>2. N \in Nat
  BY BoardFits, FS_CardinalityType
<1>3. \A t \in [D -> T], unused \in D : Def(t, unused) \in T
  BY LengthsFinite
<1>4. ASSUME NEW g \in [D -> T], NEW h \in [D -> T], NEW s \in D,
             \A y \in D : rank[y] < rank[s] => g[y] = h[y]
      PROVE  Def(g, s) = Def(h, s)
  <2>1. ASSUME NEW e \in s PROVE g[s \ {e}] = h[s \ {e}]
    <3>1. Cardinality(s \ {e}) = Cardinality(s) - 1
      BY <1>1, FS_RemoveElement
    <3>2. s \ {e} \in D /\ Cardinality(s \ {e}) < Cardinality(s)
      BY <1>1, <3>1
    <3> QED
      BY <1>4, <3>2
  <2>2. ASSUME NEW v \in Vertex PROVE Lengths(g, cut, s, v) = Lengths(h, cut, s, v)
    <3>1. \A e \in {e \in s : v \in e} : Beyond(g, cut, s, v, e) = Beyond(h, cut, s, v, e)
      BY <2>1 DEF Beyond
    <3> QED
      BY <3>1 DEF Lengths
  <2> QED
    BY <2>2
<1> HIDE DEF Def
<1>5. Phi \in [[D -> T] -> [D -> T]]
  BY <1>3
<1>6. rank \in [D -> Nat] /\ \A s \in D : rank[s] <= N
  BY <1>1
<1>7. T # {}
  <2>1. [v \in Vertex |-> 0] \in T
    OBVIOUS
  <2> QED
    BY <2>1
<1>8. \A g, h \in [D -> T] : \A s \in D :
         (\A y \in D : rank[y] < rank[s] => g[y] = h[y]) => Phi[g][s] = Phi[h][s]
  BY <1>4
<1> HIDE DEF D, T, Phi, rank, N
<1>9. Descends(D, T, rank, N, Phi)
  BY <1>2, <1>5, <1>6, <1>7, <1>8 DEF Descends
<1>10. PICK t \in [D -> T] : t = Phi[t]
  BY <1>9, RecursionSolved
<1>11. t = [unused \in D |-> Def(t, unused)]
  BY <1>10 DEF Phi
<1> QED
  BY <1>11 DEF Trails, D, T, Def

LEMMA TrailsTyped ==
  ASSUME NEW cut, NEW t, Trails(t, cut)
  PROVE  t \in [SUBSET Edge -> [Vertex -> Nat]]
<1>1. PICK u \in [SUBSET Edge -> [Vertex -> Nat]] : Trails(u, cut)
  BY TrailsExist
<1> DEFINE Bad == {s \in SUBSET Edge : t[s] # u[s]}
<1>2. Bad = {}
  <2> SUFFICES ASSUME Bad # {} PROVE FALSE
    OBVIOUS
  <2>1. PICK s \in Bad : \A r \in Bad : r \subseteq s => r = s
    <3> HIDE DEF Bad
    <3>1. Bad \subseteq SUBSET Edge /\ IsFiniteSet(Edge)
      BY BoardFits DEF Bad
    <3> QED
      BY <3>1, LeastSet
  <2>2. ASSUME NEW e \in s PROVE t[s \ {e}] = u[s \ {e}]
    BY <2>1
  <2>3. ASSUME NEW v \in Vertex PROVE Lengths(t, cut, s, v) = Lengths(u, cut, s, v)
    <3>1. \A e \in {e \in s : v \in e} : Beyond(t, cut, s, v, e) = Beyond(u, cut, s, v, e)
      BY <2>2 DEF Beyond
    <3> QED
      BY <3>1 DEF Lengths
  <2>4. t[s] = [v \in Vertex |-> Max(Lengths(t, cut, s, v))]
    BY DEF Trails
  <2>5. u[s] = [v \in Vertex |-> Max(Lengths(u, cut, s, v))]
    BY <1>1 DEF Trails
  <2> QED
    BY <2>3, <2>4, <2>5
<1>3. t = u
  <2>1. t = [s \in SUBSET Edge |-> t[s]] /\ u = [s \in SUBSET Edge |-> u[s]]
    BY <1>1 DEF Trails
  <2> QED
    BY <1>2, <2>1
<1> QED
  BY <1>1, <1>3

LEMMA LongestTrailNat ==
  ASSUME NEW roads \in SUBSET Edge, NEW cut
  PROVE  LongestTrail(roads, cut) \in Nat
<1> DEFINE t == CHOOSE t : Trails(t, cut)
           V == UNION roads
           S == {0} \cup {t[roads][v] : v \in V}
<1>1. Trails(t, cut)
  BY TrailsExist
<1>2. t \in [SUBSET Edge -> [Vertex -> Nat]]
  BY <1>1, TrailsTyped
<1>3. LongestTrail(roads, cut) = Max(S)
  BY LongestTrailIs
<1> HIDE DEF t
<1>4. V \in SUBSET Vertex
  BY BoardFits
<1>5. IsFiniteSet(V)
  BY <1>4, BoardFits, FS_Subset
<1>6. IsFiniteSet({t[roads][v] : v \in V}) /\ IsFiniteSet({0})
  <2> DEFINE T == {t[roads][v] : v \in V}
  <2>1. \A x \in T : \E v \in V : x = t[roads][v]
    OBVIOUS
  <2> HIDE DEF T, V
  <2>2. IsFiniteSet(T)
    BY <1>5, <2>1, ImageFinite
  <2> QED
    BY <2>2, FS_Singleton DEF T
<1>7. IsFiniteSet(S) /\ S \subseteq Nat /\ S \subseteq Int /\ S # {}
  <2>1. IsFiniteSet(S)
    BY <1>6, FS_Union
  <2> QED
    BY <1>2, <1>4, <2>1
<1>8. Max(S) \in S
  <2> HIDE DEF S
  <2> QED
    BY <1>7, MaxIs
<1> QED
  BY <1>3, <1>7, <1>8

-----------------------------------------------------------------------------
(* Hands and the bank.                                                     *)

LEMMA PlayersFinite == IsFiniteSet(Player) /\ Player # {} /\ Len(PlayerOrder) \in Nat \ {0}
<1> DEFINE D == 1..Len(PlayerOrder)
<1>1. Len(PlayerOrder) \in Nat /\ DOMAIN PlayerOrder = D
  BY PlayersSeated
<1>2. IsFiniteSet(D)
  BY <1>1, FS_Interval
<1>3. \A p \in Player : \E i \in D : p = PlayerOrder[i]
  BY <1>1 DEF Player
<1>4. Len(PlayerOrder) # 0
  BY <1>1, PlayersSeated
<1>5. PlayerOrder[1] \in Player
  BY <1>1, <1>4 DEF Player
<1> HIDE DEF D
<1>6. IsFiniteSet(Player)
  BY <1>2, <1>3, ImageFinite
<1> QED
  BY <1>1, <1>4, <1>5, <1>6

-----------------------------------------------------------------------------
(* The resources: every bundle is of natural numbers, and what the players *)
(* hold and what the bank holds make up what the game came with.           *)
Purse(hand, bank) ==
    /\ hand \in [Player -> Bundle] /\ bank \in Bundle
    /\ \A r \in Resource : Together(hand, r) + bank[r] = BankSize

LEMMA BundlesAdd ==
  ASSUME NEW a \in Bundle, NEW b \in Bundle
  PROVE  /\ Plus(a, b) \in Bundle /\ \A r \in Resource : Plus(a, b)[r] = a[r] + b[r]
         /\ Has(a, b) => Minus(a, b) \in Bundle
         /\ \A r \in Resource : Minus(a, b)[r] = a[r] - b[r]
BY DEF Bundle, Plus, Minus, Has

LEMMA SmallBundles ==
  /\ Nothing \in Bundle /\ \A s \in Resource : Nothing[s] = 0
  /\ \A r \in Resource, n \in Nat :
        Many(r, n) \in Bundle /\ \A s \in Resource : Many(r, n)[s] = IF s = r THEN n ELSE 0
  /\ \A r \in Resource :
        One(r) \in Bundle /\ \A s \in Resource : One(r)[s] = IF s = r THEN 1 ELSE 0
BY DEF Nothing, Bundle, Many, One

LEMMA TogetherInt ==
  ASSUME NEW hand \in [Player -> Bundle], NEW r \in Resource
  PROVE  Together(hand, r) \in Nat
<1> DEFINE f == [p \in Player |-> hand[p][r]]
<1>1. \A p \in Player : f[p] \in Nat
  BY DEF Bundle
<1> HIDE DEF f
<1>2. SumFunctionOnSet(f, Player) \in Nat
  BY <1>1, PlayersFinite, SumNat
<1> QED
  BY <1>2 DEF Together, f

\* What one hand gains or loses, all hands together gain or lose.
LEMMA OneHandChanges ==
  ASSUME NEW hand \in [Player -> Bundle], NEW after \in [Player -> Bundle], NEW p \in Player,
         \A q \in Player \ {p} : after[q] = hand[q], NEW r \in Resource
  PROVE  Together(after, r) = Together(hand, r) - hand[p][r] + after[p][r]
<1> DEFINE f == [q \in Player |-> hand[q][r]]
           g == [q \in Player |-> after[q][r]]
<1>1. \A q \in Player : f[q] \in Int /\ g[q] \in Int
  BY DEF Bundle
<1>2. \A q \in Player \ {p} : f[q] = g[q]
  OBVIOUS
<1>3. f[p] = hand[p][r] /\ g[p] = after[p][r]
  OBVIOUS
<1> HIDE DEF f, g
<1>4. SumFunctionOnSet(g, Player) = SumFunctionOnSet(f, Player) - f[p] + g[p]
  BY <1>1, <1>2, PlayersFinite, SumExceptAt
<1> QED
  BY <1>3, <1>4 DEF Together, f, g

LEMMA PurseAfterPaying ==
  ASSUME NEW hand, NEW bank, Purse(hand, bank), NEW p \in Player, NEW cost \in Bundle,
         Has(hand[p], cost)
  PROVE  Purse([hand EXCEPT ![p] = Minus(@, cost)], Plus(bank, cost))
<1> DEFINE after == [hand EXCEPT ![p] = Minus(@, cost)]
<1>1. hand \in [Player -> Bundle] /\ bank \in Bundle
  BY DEF Purse
<1>2. Minus(hand[p], cost) \in Bundle /\ Plus(bank, cost) \in Bundle
  BY <1>1, BundlesAdd
<1>3. after \in [Player -> Bundle] /\ after[p] = Minus(hand[p], cost) /\ \A q \in Player \ {p} : after[q] = hand[q]
  BY <1>1, <1>2
<1> HIDE DEF after
<1>4. ASSUME NEW r \in Resource PROVE Together(after, r) + Plus(bank, cost)[r] = BankSize
  <2>1. Together(after, r) = Together(hand, r) - hand[p][r] + after[p][r]
    BY <1>1, <1>3, OneHandChanges
  <2>2. after[p][r] = hand[p][r] - cost[r] /\ Plus(bank, cost)[r] = bank[r] + cost[r]
    BY <1>1, <1>3, BundlesAdd
  <2>3. Together(hand, r) + bank[r] = BankSize /\ Together(hand, r) \in Nat
    BY <1>1, TogetherInt DEF Purse
  <2>4. hand[p][r] \in Nat /\ cost[r] \in Nat /\ bank[r] \in Nat
    BY <1>1 DEF Bundle
  <2> QED
    BY <2>1, <2>2, <2>3, <2>4
<1>5. Purse(after, Plus(bank, cost))
  BY <1>2, <1>3, <1>4 DEF Purse
<1> QED
  BY <1>5 DEF after

LEMMA PurseAfterDrawing ==
  ASSUME NEW hand, NEW bank, Purse(hand, bank), NEW p \in Player, NEW gain \in Bundle,
         Has(bank, gain)
  PROVE  Purse([hand EXCEPT ![p] = Plus(@, gain)], Minus(bank, gain))
<1> DEFINE after == [hand EXCEPT ![p] = Plus(@, gain)]
<1>1. hand \in [Player -> Bundle] /\ bank \in Bundle
  BY DEF Purse
<1>2. Plus(hand[p], gain) \in Bundle /\ Minus(bank, gain) \in Bundle
  BY <1>1, BundlesAdd
<1>3. after \in [Player -> Bundle] /\ after[p] = Plus(hand[p], gain) /\ \A q \in Player \ {p} : after[q] = hand[q]
  BY <1>1, <1>2
<1> HIDE DEF after
<1>4. ASSUME NEW r \in Resource PROVE Together(after, r) + Minus(bank, gain)[r] = BankSize
  <2>1. Together(after, r) = Together(hand, r) - hand[p][r] + after[p][r]
    BY <1>1, <1>3, OneHandChanges
  <2>2. after[p][r] = hand[p][r] + gain[r] /\ Minus(bank, gain)[r] = bank[r] - gain[r]
    BY <1>1, <1>3, BundlesAdd
  <2>3. Together(hand, r) + bank[r] = BankSize /\ Together(hand, r) \in Nat
    BY <1>1, TogetherInt DEF Purse
  <2>4. hand[p][r] \in Nat /\ gain[r] \in Nat /\ bank[r] \in Nat
    BY <1>1 DEF Bundle
  <2> QED
    BY <2>1, <2>2, <2>3, <2>4
<1>5. Purse(after, Minus(bank, gain))
  BY <1>2, <1>3, <1>4 DEF Purse
<1> QED
  BY <1>5 DEF after

\* One player gives, another takes: a theft, or each half of a trade.
LEMMA PurseAfterGiving ==
  ASSUME NEW hand, NEW bank, Purse(hand, bank), NEW p \in Player, NEW q \in Player, p # q,
         NEW give \in Bundle, NEW take \in Bundle, Has(hand[p], give), Has(hand[q], take),
         NEW after \in [Player -> Bundle],
         after[p] = Plus(Minus(hand[p], give), take), after[q] = Minus(Plus(hand[q], give), take),
         \A s \in Player \ {p, q} : after[s] = hand[s]
  PROVE  Purse(after, bank)
<1>1. hand \in [Player -> Bundle] /\ bank \in Bundle
  BY DEF Purse
<1> DEFINE half == [hand EXCEPT ![p] = after[p]]
<1>2. half \in [Player -> Bundle] /\ half[p] = after[p] /\ \A s \in Player \ {p} : half[s] = hand[s]
  BY <1>1
<1> HIDE DEF half
<1>3. \A s \in Player \ {q} : after[s] = half[s]
  BY <1>2
<1>4. ASSUME NEW r \in Resource PROVE Together(after, r) = Together(hand, r)
  <2>1. Together(half, r) = Together(hand, r) - hand[p][r] + half[p][r]
    BY <1>1, <1>2, OneHandChanges
  <2>2. Together(after, r) = Together(half, r) - half[q][r] + after[q][r]
    BY <1>2, <1>3, OneHandChanges
  <2>3. half[q] = hand[q] /\ half[p] = after[p]
    BY <1>2
  <2>4. /\ after[p][r] = (hand[p][r] - give[r]) + take[r]
        /\ after[q][r] = (hand[q][r] + give[r]) - take[r]
    BY DEF Plus, Minus
  <2>5. /\ hand[p][r] \in Nat /\ hand[q][r] \in Nat /\ give[r] \in Nat /\ take[r] \in Nat
        /\ Together(hand, r) \in Nat
    BY <1>1, TogetherInt DEF Bundle
  <2> QED
    BY <2>1, <2>2, <2>3, <2>4, <2>5
<1> QED
  BY <1>1, <1>4 DEF Purse

LEMMA PurseAfterProduction ==
  ASSUME NEW hand, NEW bank, Purse(hand, bank), NEW gains \in [Player -> Bundle],
         \A r \in Resource : Together(gains, r) <= bank[r]
  PROVE  Purse([p \in Player |-> Plus(hand[p], gains[p])],
               [r \in Resource |-> bank[r] - Together(gains, r)])
<1> DEFINE after == [p \in Player |-> Plus(hand[p], gains[p])]
           rest == [r \in Resource |-> bank[r] - Together(gains, r)]
<1>1. hand \in [Player -> Bundle] /\ bank \in Bundle
  BY DEF Purse
<1>2. after \in [Player -> Bundle]
  BY <1>1, BundlesAdd
<1>3. \A r \in Resource : Together(gains, r) \in Nat /\ bank[r] \in Nat
  BY <1>1, TogetherInt DEF Bundle
<1>4. rest \in Bundle
  BY <1>3 DEF Bundle
<1>5. ASSUME NEW r \in Resource PROVE Together(after, r) + rest[r] = BankSize
  <2> DEFINE f == [p \in Player |-> hand[p][r]]
             k == [p \in Player |-> gains[p][r]]
             h == [p \in Player |-> after[p][r]]
  <2>1. \A p \in Player : f[p] \in Int /\ k[p] \in Int /\ h[p] = f[p] + k[p]
    BY <1>1 DEF Bundle, Plus
  <2> HIDE DEF f, k, h, after
  <2>2. SumFunctionOnSet(h, Player) = SumFunctionOnSet(f, Player) + SumFunctionOnSet(k, Player)
    BY <2>1, PlayersFinite, SumPlus
  <2>3. Together(after, r) = Together(hand, r) + Together(gains, r)
    BY <2>2 DEF Together, f, k, h
  <2>4. Together(hand, r) + bank[r] = BankSize /\ Together(hand, r) \in Nat
    BY <1>1, TogetherInt DEF Purse
  <2> QED
    BY <1>3, <2>3, <2>4
<1> QED
  BY <1>2, <1>4, <1>5 DEF Purse

\* The limit leaves nobody what the bank cannot pay to everybody.
LEMMA ProductionLimited ==
  ASSUME NEW g, g.bank \in Bundle, NEW gains \in [Player -> Bundle]
  PROVE  LET paid == EnforceBankProductionLimit(g, gains)
         IN  /\ paid \in [Player -> Bundle]
             /\ \A r \in Resource : Together(paid, r) <= g.bank[r]
<1> DEFINE paid == EnforceBankProductionLimit(g, gains)
<1>1. \A p \in Player, r \in Resource :
         paid[p][r] = IF Together(gains, r) > g.bank[r] THEN 0 ELSE gains[p][r]
  BY DEF EnforceBankProductionLimit
<1>2. paid \in [Player -> Bundle]
  BY DEF EnforceBankProductionLimit, Bundle
<1> HIDE DEF paid
<1>3. ASSUME NEW r \in Resource PROVE Together(paid, r) <= g.bank[r]
  <2> DEFINE f == [p \in Player |-> gains[p][r]]
             k == [p \in Player |-> paid[p][r]]
  <2>1. g.bank[r] \in Nat /\ Together(gains, r) \in Nat
    BY TogetherInt DEF Bundle
  <2>2. CASE Together(gains, r) > g.bank[r]
    <3>1. \A p \in Player : k[p] = 0
      BY <1>1, <2>2
    <3> HIDE DEF k
    <3>2. SumFunctionOnSet(k, Player) = 0
      BY <3>1, PlayersFinite, SumZero
    <3> QED
      BY <2>1, <3>2 DEF Together, k
  <2>3. CASE ~(Together(gains, r) > g.bank[r])
    <3>1. \A p \in Player : k[p] \in Int /\ k[p] = f[p]
      BY <1>1, <2>3 DEF Bundle
    <3> HIDE DEF k, f
    <3>2. SumFunctionOnSet(k, Player) = SumFunctionOnSet(f, Player)
      BY <3>1, PlayersFinite, SumSame
    <3>3. Together(paid, r) = Together(gains, r)
      BY <3>2 DEF Together, k, f
    <3> QED
      BY <2>1, <2>3, <3>3
  <2> QED
    BY <2>2, <2>3
<1> QED
  BY <1>2, <1>3 DEF paid

LEMMA GainsAreBundles ==
  ASSUME NEW g, NEW sum, NEW multiplier \in Nat
  PROVE  ResourceGainForRoll(g, sum, multiplier) \in [Player -> Bundle]
<1> DEFINE yield  == [v \in Vertex |->
                        multiplier * (IF g.buildings[v].type = "city" THEN 2 ELSE 1)]
           lots(h, p) == {v \in Corners[h] : g.buildings[v].owner = p}
           due(p) == [h \in Hex |-> SumFunctionOnSet(yield, lots(h, p))]
           giving(r) == {h \in Hex \ {g.thief} : Terrain[h] = r /\ Token[h] = sum}
<1>1. \A v \in Vertex : yield[v] \in Nat
  OBVIOUS
<1>2. \A h \in Hex, p \in Player : IsFiniteSet(lots(h, p)) /\ lots(h, p) \subseteq Vertex
  <2> SUFFICES ASSUME NEW h \in Hex, NEW p \in Player
               PROVE  IsFiniteSet(lots(h, p)) /\ lots(h, p) \subseteq Vertex
    OBVIOUS
  <2>1. lots(h, p) \in SUBSET Vertex
    BY BoardFits
  <2> HIDE DEF lots
  <2> QED
    BY <2>1, BoardFits, FS_Subset
<1>3. \A r : IsFiniteSet(giving(r)) /\ giving(r) \subseteq Hex
  <2> SUFFICES ASSUME NEW r PROVE IsFiniteSet(giving(r)) /\ giving(r) \subseteq Hex
    OBVIOUS
  <2>1. giving(r) \in SUBSET Hex
    OBVIOUS
  <2> HIDE DEF giving
  <2> QED
    BY <2>1, BoardFits, FS_Subset
<1>4. \A p \in Player : \A h \in Hex : due(p)[h] \in Nat
  <2> SUFFICES ASSUME NEW p \in Player, NEW h \in Hex PROVE due(p)[h] \in Nat
    OBVIOUS
  <2> DEFINE S == lots(h, p)
  <2>1. due(p)[h] = SumFunctionOnSet(yield, S)
    OBVIOUS
  <2>2. IsFiniteSet(S) /\ \A v \in S : yield[v] \in Nat
    BY <1>1, <1>2
  <2> HIDE DEF S, yield
  <2>3. SumFunctionOnSet(yield, S) \in Nat
    BY <2>2, SumNat
  <2> QED
    BY <2>1, <2>3
<1>5. ASSUME NEW p \in Player, NEW r \in Resource
      PROVE  SumFunctionOnSet(due(p), giving(r)) \in Nat
  <2> DEFINE f == due(p)
             S == giving(r)
  <2>1. IsFiniteSet(S) /\ \A h \in S : f[h] \in Nat
    BY <1>3, <1>4
  <2> HIDE DEF f, S
  <2>2. SumFunctionOnSet(f, S) \in Nat
    BY <2>1, SumNat
  <2> QED
    BY <2>2 DEF f, S
<1>6. ResourceGainForRoll(g, sum, multiplier)
        = [p \in Player |-> [r \in Resource |-> SumFunctionOnSet(due(p), giving(r))]]
  BY DEF ResourceGainForRoll
<1> HIDE DEF due, giving
<1> QED
  BY <1>5, <1>6 DEF Bundle

LEMMA PurseAfterMonopoly ==
  ASSUME NEW hand, NEW bank, Purse(hand, bank), NEW p \in Player, NEW r \in Resource,
         NEW total, total = SumFunctionOnSet([q \in Player |-> hand[q][r]], Player \ {p})
  PROVE  Purse([q \in Player |-> IF q = p THEN Plus(hand[p], Many(r, total))
                                 ELSE [hand[q] EXCEPT ![r] = 0]], bank)
<1> DEFINE after == [q \in Player |-> IF q = p THEN Plus(hand[p], Many(r, total))
                                      ELSE [hand[q] EXCEPT ![r] = 0]]
           others == Player \ {p}
           f == [q \in Player |-> hand[q][r]]
           k == [q \in Player |-> after[q][r]]
<1>1. hand \in [Player -> Bundle] /\ bank \in Bundle
  BY DEF Purse
<1>2. IsFiniteSet(others)
  BY PlayersFinite, FS_Subset
<1>3. (\A q \in Player : f[q] \in Nat /\ f[q] \in Int) /\ f[p] = hand[p][r]
  BY <1>1 DEF Bundle
<1>4. total \in Nat
  <2>1. \A q \in others : f[q] \in Nat
    BY <1>3
  <2> HIDE DEF f, others
  <2>2. SumFunctionOnSet(f, others) \in Nat
    BY <1>2, <2>1, SumNat
  <2> QED
    BY <2>2 DEF f, others
<1>5. after \in [Player -> Bundle]
  BY <1>1, <1>4, BundlesAdd, SmallBundles DEF Bundle
<1>11. \A s \in Resource : after[p][s] = hand[p][s] + (IF s = r THEN total ELSE 0)
  <2>1. after[p] = Plus(hand[p], Many(r, total)) /\ hand[p] \in Bundle /\ Many(r, total) \in Bundle
    BY <1>1, <1>4, SmallBundles
  <2> HIDE DEF after
  <2> QED
    BY <1>4, <2>1, BundlesAdd, SmallBundles
<1>12. \A q \in Player \ {p}, s \in Resource : after[q][s] = IF s = r THEN 0 ELSE hand[q][s]
  BY <1>1 DEF Bundle
<1>13. \A q \in Player, s \in Resource : hand[q][s] \in Nat /\ after[q][s] \in Nat
  BY <1>1, <1>5 DEF Bundle
<1>6. /\ \A q \in others : k[q] = 0
      /\ k[p] = f[p] + total
      /\ \A q \in Player : k[q] \in Int
  <2>1. \A q \in Player : k[q] = after[q][r]
    OBVIOUS
  <2> HIDE DEF after, k
  <2> QED
    BY <1>3, <1>11, <1>12, <1>13, <2>1
<1>7. SumFunctionOnSet(k, Player) = SumFunctionOnSet(f, Player)
  <2>1. SumFunctionOnSet(f, others) = total
    BY DEF f, others
  <2> HIDE DEF f, k, others
  <2>2. SumFunctionOnSet(k, others) = 0
    BY <1>2, <1>6, SumZero
  <2>3. SumFunctionOnSet(k, Player) = k[p] + SumFunctionOnSet(k, others)
    BY <1>6, PlayersFinite, SumTakeOut DEF others
  <2>4. SumFunctionOnSet(f, Player) = f[p] + SumFunctionOnSet(f, others)
    BY <1>3, PlayersFinite, SumTakeOut DEF others
  <2> QED
    BY <1>3, <1>4, <1>6, <2>1, <2>2, <2>3, <2>4
<1>8. Together(after, r) = Together(hand, r)
  BY <1>7 DEF Together, f, k
<1>9. ASSUME NEW s \in Resource, s # r PROVE Together(after, s) = Together(hand, s)
  <2> DEFINE fs == [q \in Player |-> hand[q][s]]
             ks == [q \in Player |-> after[q][s]]
  <2> HIDE DEF after
  <2>1. \A q \in Player : ks[q] \in Int /\ ks[q] = fs[q]
    BY <1>9, <1>11, <1>12, <1>13
  <2> HIDE DEF fs, ks
  <2>2. SumFunctionOnSet(ks, Player) = SumFunctionOnSet(fs, Player)
    BY <2>1, PlayersFinite, SumSame
  <2> QED
    BY <2>2 DEF Together, fs, ks
<1> HIDE DEF after
<1>10. Purse(after, bank)
  BY <1>1, <1>5, <1>8, <1>9 DEF Purse
<1> QED
  BY <1>10 DEF after

-----------------------------------------------------------------------------
(* The board: whose road, whose settlement or city is where, no two        *)
(* buildings beside each other and no more pieces than a player has.       *)
Lot == {NoBuilding} \cup {Building(p, type) : p \in Player, type \in {"settlement", "city"}}
Built(buildings, p, type) == {v \in Vertex : buildings[v] = Building(p, type)}
Laid(roads, p) == {e \in Edge : roads[e] = p}

Layout(roads, buildings) ==
    /\ roads \in [Edge -> Player \cup {NoOne}] /\ buildings \in [Vertex -> Lot]
    /\ \A v \in Vertex : buildings[v] # NoBuilding =>
           \A w \in Neighbours(v) : buildings[w] = NoBuilding
    /\ \A p \in Player : /\ Cardinality(Laid(roads, p)) <= MaxRoads
                         /\ Cardinality(Built(buildings, p, "settlement")) <= MaxSettlements
                         /\ Cardinality(Built(buildings, p, "city")) <= MaxCities

LEMMA NeighboursMutual ==
  ASSUME NEW v \in Vertex, NEW w \in Neighbours(v)
  PROVE  w \in Vertex /\ w # v /\ v \in Neighbours(w)
<1>1. PICK e \in Edge : v \in e /\ w \in e /\ w # v
  BY DEF Neighbours
<1>2. w \in Vertex
  BY <1>1, BoardFits
<1>3. v \in UNION {d \in Edge : w \in d}
  BY <1>1
<1> QED
  BY <1>1, <1>2, <1>3 DEF Neighbours

LEMMA CountsExact ==
  ASSUME NEW p
  PROVE  /\ \A roads : IsFiniteSet(Laid(roads, p)) /\ Cardinality(Laid(roads, p)) \in Nat
         /\ \A buildings, type : /\ IsFiniteSet(Built(buildings, p, type))
                                 /\ Cardinality(Built(buildings, p, type)) \in Nat
<1>1. ASSUME NEW roads PROVE IsFiniteSet(Laid(roads, p)) /\ Cardinality(Laid(roads, p)) \in Nat
  <2>1. Laid(roads, p) \in SUBSET Edge
    BY DEF Laid
  <2> QED
    BY <2>1, BoardFits, FS_Subset, FS_CardinalityType
<1>2. ASSUME NEW buildings, NEW type
      PROVE  /\ IsFiniteSet(Built(buildings, p, type))
             /\ Cardinality(Built(buildings, p, type)) \in Nat
  <2>1. Built(buildings, p, type) \in SUBSET Vertex
    BY DEF Built
  <2> QED
    BY <2>1, BoardFits, FS_Subset, FS_CardinalityType
<1> QED
  BY <1>1, <1>2

LEMMA Lots ==
  /\ NoBuilding \in Lot
  /\ \A p \in Player, type \in {"settlement", "city"} :
        /\ Building(p, type) \in Lot /\ Building(p, type) # NoBuilding
        /\ Building(p, type).owner = p /\ Building(p, type).type = type
  /\ \A p, q \in Player, s, t \in {"settlement", "city"} :
        Building(p, s) = Building(q, t) <=> p = q /\ s = t
  /\ NoBuilding.owner = NoOne
  /\ \A lot \in Lot : /\ lot.owner = NoOne <=> lot = NoBuilding
                      /\ lot # NoBuilding => /\ lot.owner \in Player
                                             /\ lot.type \in {"settlement", "city"}
                                             /\ lot = Building(lot.owner, lot.type)
<1>1. NoBuilding \in Lot /\ NoBuilding.owner = NoOne /\ NoBuilding.type = "none"
  BY DEF Lot, NoBuilding
<1>2. ASSUME NEW p \in Player, NEW type \in {"settlement", "city"}
      PROVE  /\ Building(p, type) \in Lot
             /\ Building(p, type).owner = p /\ Building(p, type).type = type
  BY DEF Lot, Building
<1>3. ASSUME NEW p \in Player, NEW type \in {"settlement", "city"}
      PROVE  Building(p, type) # NoBuilding
  BY <1>1, <1>2, PlayersSeated
<1>4. \A p, q \in Player, s, t \in {"settlement", "city"} :
        Building(p, s) = Building(q, t) <=> p = q /\ s = t
  BY <1>2
<1>5. ASSUME NEW lot \in Lot, lot # NoBuilding
      PROVE  /\ lot.owner \in Player /\ lot.type \in {"settlement", "city"}
             /\ lot = Building(lot.owner, lot.type) /\ lot.owner # NoOne
  <2>1. PICK p \in Player, type \in {"settlement", "city"} : lot = Building(p, type)
    BY <1>5 DEF Lot
  <2> QED
    BY <1>2, <2>1, PlayersSeated
<1> QED
  BY <1>1, <1>2, <1>3, <1>4, <1>5

\* A change of one lot, counted.
OnlyAt(v, buildings, after) == \A w \in Vertex \ {v} : after[w] = buildings[w]

LEMMA OneLotChanges ==
  ASSUME NEW buildings, NEW after, NEW v \in Vertex, OnlyAt(v, buildings, after), NEW p, NEW type
  PROVE  Cardinality(Built(after, p, type)) =
            Cardinality(Built(buildings, p, type))
            + (IF after[v] = Building(p, type) THEN 1 ELSE 0)
            - (IF buildings[v] = Building(p, type) THEN 1 ELSE 0)
<1> DEFINE B == Built(buildings, p, type)
           A == Built(after, p, type)
<1>1. IsFiniteSet(A) /\ IsFiniteSet(B) /\ Cardinality(A) \in Nat /\ Cardinality(B) \in Nat
  BY CountsExact
<1>2. v \in A <=> after[v] = Building(p, type)
  BY DEF Built
<1>3. v \in B <=> buildings[v] = Building(p, type)
  BY DEF Built
<1>4. A \ {v} = B \ {v}
  BY DEF Built, OnlyAt
<1> HIDE DEF A, B
<1>5. /\ Cardinality(A \ {v}) = IF v \in A THEN Cardinality(A) - 1 ELSE Cardinality(A)
      /\ Cardinality(B \ {v}) = IF v \in B THEN Cardinality(B) - 1 ELSE Cardinality(B)
  BY <1>1, FS_RemoveElement
<1>7. Cardinality(A \ {v}) = Cardinality(B \ {v})
  BY <1>4
<1>6. Cardinality(A) = Cardinality(B) + (IF v \in A THEN 1 ELSE 0) - (IF v \in B THEN 1 ELSE 0)
  <2>1. CASE v \in A /\ v \in B
    BY <1>1, <1>5, <1>7, <2>1
  <2>2. CASE v \in A /\ v \notin B
    BY <1>1, <1>5, <1>7, <2>2
  <2>3. CASE v \notin A /\ v \in B
    BY <1>1, <1>5, <1>7, <2>3
  <2>4. CASE v \notin A /\ v \notin B
    BY <1>1, <1>5, <1>7, <2>4
  <2> QED
    BY <2>1, <2>2, <2>3, <2>4
<1> QED
  BY <1>2, <1>3, <1>6 DEF A, B

LEMMA LayoutAfterRoad ==
  ASSUME NEW roads, NEW buildings, Layout(roads, buildings), NEW p \in Player, NEW e \in Edge,
         roads[e] = NoOne, Cardinality(Laid(roads, p)) < MaxRoads
  PROVE  Layout([roads EXCEPT ![e] = p], buildings)
<1> DEFINE after == [roads EXCEPT ![e] = p]
<1>1. roads \in [Edge -> Player \cup {NoOne}] /\ after \in [Edge -> Player \cup {NoOne}]
  BY DEF Layout
<1>2. Laid(after, p) = Laid(roads, p) \cup {e} /\ e \notin Laid(roads, p)
  BY <1>1, PlayersSeated DEF Laid
<1>3. \A q \in Player \ {p} : Laid(after, q) = Laid(roads, q)
  BY <1>1, PlayersSeated DEF Laid
<1> HIDE DEF after
<1>4. Cardinality(Laid(after, p)) = Cardinality(Laid(roads, p)) + 1
  BY <1>2, CountsExact, FS_AddElement
<1>5. \A q \in Player : Cardinality(Laid(after, q)) <= MaxRoads
  <2> SUFFICES ASSUME NEW q \in Player PROVE Cardinality(Laid(after, q)) <= MaxRoads
    OBVIOUS
  <2>1. MaxRoads \in Nat /\ Cardinality(Laid(roads, q)) <= MaxRoads
    BY SizesFit DEF Layout
  <2>2. Cardinality(Laid(roads, p)) \in Nat
    BY CountsExact
  <2> QED
    BY <1>3, <1>4, <2>1, <2>2
<1> QED
  BY <1>1, <1>5 DEF Layout, after

\* What p's buildings and everybody else's are worth.
Worth(buildings, p) ==
    Cardinality(Built(buildings, p, "settlement")) + 2 * Cardinality(Built(buildings, p, "city"))

LEMMA WorthNat ==
  ASSUME NEW buildings, NEW p PROVE Worth(buildings, p) \in Nat
BY CountsExact DEF Worth

LEMMA LayoutAfterSettlement ==
  ASSUME NEW roads, NEW buildings, Layout(roads, buildings), NEW p \in Player, NEW v \in Vertex,
         buildings[v] = NoBuilding, \A w \in Neighbours(v) : buildings[w] = NoBuilding,
         Cardinality(Built(buildings, p, "settlement")) < MaxSettlements
  PROVE  LET after == [buildings EXCEPT ![v] = Building(p, "settlement")]
         IN  /\ Layout(roads, after)
             /\ Worth(after, p) = Worth(buildings, p) + 1
             /\ \A q \in Player \ {p} : Worth(after, q) = Worth(buildings, q)
<1> DEFINE lot == Building(p, "settlement")
           after == [buildings EXCEPT ![v] = lot]
<1>1. buildings \in [Vertex -> Lot] /\ lot \in Lot
  BY Lots DEF Layout
<1>2. after \in [Vertex -> Lot] /\ after[v] = lot /\ \A w \in Vertex \ {v} : after[w] = buildings[w]
  BY <1>1
<1>3. ASSUME NEW u \in Vertex, after[u] # NoBuilding, NEW w \in Neighbours(u)
      PROVE  after[w] = NoBuilding
  <2>1. w \in Vertex /\ w # u /\ u \in Neighbours(w)
    BY NeighboursMutual
  <2>2. CASE u = v
    BY <1>2, <2>1, <2>2
  <2>3. CASE u # v
    <3>1. buildings[u] # NoBuilding
      BY <1>2, <1>3, <2>3
    <3>2. w # v
      BY <2>1, <3>1
    <3>3. buildings[w] = NoBuilding
      BY <3>1 DEF Layout
    <3> QED
      BY <1>2, <2>1, <3>2, <3>3
  <2> QED
    BY <2>2, <2>3
<1>4. \A q \in Player, type \in {"settlement", "city"} :
         Cardinality(Built(after, q, type)) =
           Cardinality(Built(buildings, q, type)) + (IF q = p /\ type = "settlement" THEN 1 ELSE 0)
  <2> SUFFICES ASSUME NEW q \in Player, NEW type \in {"settlement", "city"}
               PROVE  Cardinality(Built(after, q, type)) =
                        Cardinality(Built(buildings, q, type))
                        + (IF q = p /\ type = "settlement" THEN 1 ELSE 0)
    OBVIOUS
  <2>1. Cardinality(Built(after, q, type)) =
            Cardinality(Built(buildings, q, type))
            + (IF lot = Building(q, type) THEN 1 ELSE 0)
            - (IF buildings[v] = Building(q, type) THEN 1 ELSE 0)
    <3> HIDE DEF after, lot
    <3>1. OnlyAt(v, buildings, after)
      BY <1>2 DEF OnlyAt
    <3> QED
      BY <1>2, <3>1, OneLotChanges
  <2>2. (lot = Building(q, type) <=> q = p /\ type = "settlement") /\ buildings[v] # Building(q, type)
    BY Lots
  <2>3. Cardinality(Built(buildings, q, type)) \in Nat
    BY CountsExact
  <2> HIDE DEF after, lot
  <2> QED
    BY <2>1, <2>2, <2>3
<1> HIDE DEF after
<1>9. \A q \in Player, type \in {"settlement", "city"} :
         Cardinality(Built(after, q, type)) \in Nat /\ Cardinality(Built(buildings, q, type)) \in Nat
  BY CountsExact
<1>5. ASSUME NEW q \in Player
      PROVE  /\ Cardinality(Built(after, q, "settlement")) <= MaxSettlements
             /\ Cardinality(Built(after, q, "city")) <= MaxCities
  <2>1. /\ Cardinality(Built(buildings, q, "settlement")) <= MaxSettlements
        /\ Cardinality(Built(buildings, q, "city")) <= MaxCities
        /\ MaxSettlements \in Nat /\ MaxCities \in Nat
    BY SizesFit DEF Layout
  <2> QED
    BY <1>4, <1>9, <2>1
<1>6. Layout(roads, after)
  BY <1>2, <1>3, <1>5 DEF Layout
<1>7. /\ Worth(after, p) = Worth(buildings, p) + 1
      /\ \A q \in Player \ {p} : Worth(after, q) = Worth(buildings, q)
  BY <1>4, <1>9 DEF Worth
<1> QED
  BY <1>6, <1>7 DEF after

LEMMA LayoutAfterCity ==
  ASSUME NEW roads, NEW buildings, Layout(roads, buildings), NEW p \in Player, NEW v \in Vertex,
         buildings[v] = Building(p, "settlement"),
         Cardinality(Built(buildings, p, "city")) < MaxCities
  PROVE  LET after == [buildings EXCEPT ![v] = Building(p, "city")]
         IN  /\ Layout(roads, after)
             /\ Worth(after, p) = Worth(buildings, p) + 1
             /\ \A q \in Player \ {p} : Worth(after, q) = Worth(buildings, q)
             /\ \A w \in Vertex : after[w].owner = buildings[w].owner
<1> DEFINE lot == Building(p, "city")
           after == [buildings EXCEPT ![v] = lot]
<1>1. buildings \in [Vertex -> Lot] /\ lot \in Lot
  BY Lots DEF Layout
<1>2. after \in [Vertex -> Lot] /\ after[v] = lot /\ \A w \in Vertex \ {v} : after[w] = buildings[w]
  BY <1>1
<1>3. \A w \in Vertex : (after[w] = NoBuilding <=> buildings[w] = NoBuilding)
                        /\ after[w].owner = buildings[w].owner
  BY <1>2, Lots
<1>4. \A q \in Player, type \in {"settlement", "city"} :
         Cardinality(Built(after, q, type)) =
           Cardinality(Built(buildings, q, type)) + (IF q = p /\ type = "city" THEN 1 ELSE 0)
           - (IF q = p /\ type = "settlement" THEN 1 ELSE 0)
  <2> SUFFICES ASSUME NEW q \in Player, NEW type \in {"settlement", "city"}
               PROVE  Cardinality(Built(after, q, type)) =
                        Cardinality(Built(buildings, q, type))
                        + (IF q = p /\ type = "city" THEN 1 ELSE 0)
                        - (IF q = p /\ type = "settlement" THEN 1 ELSE 0)
    OBVIOUS
  <2>1. Cardinality(Built(after, q, type)) =
            Cardinality(Built(buildings, q, type))
            + (IF lot = Building(q, type) THEN 1 ELSE 0)
            - (IF buildings[v] = Building(q, type) THEN 1 ELSE 0)
    <3> HIDE DEF after, lot
    <3>1. OnlyAt(v, buildings, after)
      BY <1>2 DEF OnlyAt
    <3> QED
      BY <1>2, <3>1, OneLotChanges
  <2>2. /\ lot = Building(q, type) <=> q = p /\ type = "city"
        /\ buildings[v] = Building(q, type) <=> q = p /\ type = "settlement"
    BY Lots
  <2>3. Cardinality(Built(buildings, q, type)) \in Nat
    BY CountsExact
  <2> HIDE DEF after, lot
  <2> QED
    BY <2>1, <2>2, <2>3
<1> HIDE DEF after
<1>9. \A q \in Player, type \in {"settlement", "city"} :
         Cardinality(Built(after, q, type)) \in Nat /\ Cardinality(Built(buildings, q, type)) \in Nat
  BY CountsExact
<1>5. ASSUME NEW q \in Player
      PROVE  /\ Cardinality(Built(after, q, "settlement")) <= MaxSettlements
             /\ Cardinality(Built(after, q, "city")) <= MaxCities
  <2>1. /\ Cardinality(Built(buildings, q, "settlement")) <= MaxSettlements
        /\ Cardinality(Built(buildings, q, "city")) <= MaxCities
        /\ MaxSettlements \in Nat /\ MaxCities \in Nat
    BY SizesFit DEF Layout
  <2> QED
    BY <1>4, <1>9, <2>1
<1>6. \A u \in Vertex : after[u] # NoBuilding => \A w \in Neighbours(u) : after[w] = NoBuilding
  BY <1>3, NeighboursMutual DEF Layout
<1>7. Layout(roads, after)
  BY <1>2, <1>5, <1>6 DEF Layout
<1>8. /\ Worth(after, p) = Worth(buildings, p) + 1
      /\ \A q \in Player \ {p} : Worth(after, q) = Worth(buildings, q)
  BY <1>4, <1>9 DEF Worth
<1> QED
  BY <1>3, <1>7, <1>8 DEF after

\* The plight takes one building from everybody who has any.
LEMMA LayoutAfterPlight ==
  ASSUME NEW roads, NEW buildings, Layout(roads, buildings), NEW lost,
         \A p \in Player : p \in DOMAIN lost <=> \E v \in Vertex : buildings[v].owner = p,
         DOMAIN lost \subseteq Player,
         \A p \in DOMAIN lost : lost[p] \in Vertex /\ buildings[lost[p]].owner = p
  PROVE  LET after == [v \in Vertex |-> IF \E p \in DOMAIN lost : lost[p] = v THEN NoBuilding
                                        ELSE buildings[v]]
         IN  /\ Layout(roads, after)
             /\ \A p \in Player :
                   Worth(after, p) = Worth(buildings, p)
                                     - (IF p \notin DOMAIN lost THEN 0
                                        ELSE IF buildings[lost[p]].type = "city" THEN 2 ELSE 1)
<1> DEFINE after == [v \in Vertex |-> IF \E p \in DOMAIN lost : lost[p] = v THEN NoBuilding
                                      ELSE buildings[v]]
<1>1. buildings \in [Vertex -> Lot] /\ after \in [Vertex -> Lot]
  BY Lots DEF Layout
<1>2. \A v \in Vertex : after[v] = buildings[v] \/ after[v] = NoBuilding
  OBVIOUS
<1>3. \A u \in Vertex : after[u] # NoBuilding => \A w \in Neighbours(u) : after[w] = NoBuilding
  BY <1>2, NeighboursMutual DEF Layout
<1>4. ASSUME NEW p \in Player, p \notin DOMAIN lost, NEW type \in {"settlement", "city"}
      PROVE  Built(after, p, type) = {} /\ Built(buildings, p, type) = {}
  <2>1. \A v \in Vertex : buildings[v] # Building(p, type)
    BY <1>4, Lots
  <2>2. \A v \in Vertex : after[v] # Building(p, type)
    BY <1>2, <2>1, Lots
  <2> QED
    BY <2>1, <2>2 DEF Built
<1>5. ASSUME NEW p \in DOMAIN lost, NEW type \in {"settlement", "city"}
      PROVE  /\ Built(after, p, type) = Built(buildings, p, type) \ {lost[p]}
             /\ lost[p] \in Built(buildings, p, type) <=> buildings[lost[p]].type = type
  <2>1. p \in Player /\ lost[p] \in Vertex /\ buildings[lost[p]] \in Lot
    BY <1>1
  <2>2. buildings[lost[p]] # NoBuilding
    BY <2>1, Lots, PlayersSeated
  <2>3. buildings[lost[p]] = Building(p, buildings[lost[p]].type)
    BY <2>1, <2>2, Lots
  <2>4. \A v \in Vertex : after[v] = Building(p, type) <=> buildings[v] = Building(p, type) /\ v # lost[p]
    <3> SUFFICES ASSUME NEW v \in Vertex
                 PROVE  after[v] = Building(p, type)
                          <=> buildings[v] = Building(p, type) /\ v # lost[p]
      OBVIOUS
    <3>1. Building(p, type) # NoBuilding /\ Building(p, type).owner = p
      BY <2>1, Lots
    <3>2. after[v] = Building(p, type) => buildings[v] = Building(p, type) /\ v # lost[p]
      BY <3>1
    <3>3. ASSUME buildings[v] = Building(p, type), NEW q \in DOMAIN lost, lost[q] = v PROVE v = lost[p]
      <4>1. buildings[v].owner = q
        BY <3>3
      <4> QED
        BY <3>1, <3>3, <4>1
    <3> QED
      BY <3>2, <3>3
  <2>5. buildings[lost[p]].type \in {"settlement", "city"}
    BY <2>1, <2>2, Lots
  <2>6. lost[p] \in Built(buildings, p, type) <=> buildings[lost[p]].type = type
    BY <2>1, <2>3, <2>5, Lots DEF Built
  <2> HIDE DEF after
  <2> QED
    BY <2>4, <2>6 DEF Built
<1> HIDE DEF after
<1>6. ASSUME NEW p \in DOMAIN lost, NEW type \in {"settlement", "city"}
      PROVE  Cardinality(Built(after, p, type)) =
               Cardinality(Built(buildings, p, type))
               - (IF buildings[lost[p]].type = type THEN 1 ELSE 0)
  <2>1. IsFiniteSet(Built(buildings, p, type)) /\ Cardinality(Built(buildings, p, type)) \in Nat
    BY CountsExact
  <2>2. Cardinality(Built(buildings, p, type) \ {lost[p]}) =
          IF lost[p] \in Built(buildings, p, type) THEN Cardinality(Built(buildings, p, type)) - 1
          ELSE Cardinality(Built(buildings, p, type))
    BY <2>1, FS_RemoveElement
  <2>3. Built(after, p, type) = Built(buildings, p, type) \ {lost[p]}
    BY <1>5, <1>6
  <2>4. lost[p] \in Built(buildings, p, type) <=> buildings[lost[p]].type = type
    BY <1>5, <1>6
  <2> QED
    BY <2>1, <2>2, <2>3, <2>4
<1>7. \A p \in Player : /\ Cardinality(Built(after, p, "settlement")) <= MaxSettlements
                        /\ Cardinality(Built(after, p, "city")) <= MaxCities
  <2> SUFFICES ASSUME NEW p \in Player
               PROVE  /\ Cardinality(Built(after, p, "settlement")) <= MaxSettlements
                      /\ Cardinality(Built(after, p, "city")) <= MaxCities
    OBVIOUS
  <2>1. /\ Cardinality(Built(buildings, p, "settlement")) <= MaxSettlements
        /\ Cardinality(Built(buildings, p, "city")) <= MaxCities
        /\ Cardinality(Built(buildings, p, "settlement")) \in Nat
        /\ Cardinality(Built(buildings, p, "city")) \in Nat
        /\ MaxSettlements \in Nat /\ MaxCities \in Nat
    BY CountsExact, SizesFit DEF Layout
  <2>2. CASE p \in DOMAIN lost
    BY <1>6, <2>1, <2>2
  <2>3. CASE p \notin DOMAIN lost
    BY <1>4, <2>1, <2>3
  <2> QED
    BY <2>2, <2>3
<1>8. Layout(roads, after)
  BY <1>1, <1>3, <1>7 DEF Layout
<1>9. ASSUME NEW p \in Player
      PROVE  Worth(after, p) = Worth(buildings, p)
                               - (IF p \notin DOMAIN lost THEN 0
                                  ELSE IF buildings[lost[p]].type = "city" THEN 2 ELSE 1)
  <2>1. CASE p \notin DOMAIN lost
    <3>1. /\ Built(after, p, "settlement") = Built(buildings, p, "settlement")
          /\ Built(after, p, "city") = Built(buildings, p, "city")
      BY <1>4, <2>1
    <3>2. Worth(after, p) = Worth(buildings, p)
      BY <3>1 DEF Worth
    <3> QED
      BY <2>1, <3>2, WorthNat
  <2>2. CASE p \in DOMAIN lost
    <3>1. buildings[lost[p]].type \in {"settlement", "city"}
      BY <1>1, <2>2, Lots, PlayersSeated
    <3>2. /\ Cardinality(Built(after, p, "settlement")) =
                Cardinality(Built(buildings, p, "settlement"))
                - (IF buildings[lost[p]].type = "settlement" THEN 1 ELSE 0)
          /\ Cardinality(Built(after, p, "city")) =
                Cardinality(Built(buildings, p, "city"))
                - (IF buildings[lost[p]].type = "city" THEN 1 ELSE 0)
      BY <1>6, <2>2
    <3>3. /\ Cardinality(Built(buildings, p, "settlement")) \in Nat
          /\ Cardinality(Built(buildings, p, "city")) \in Nat
      BY CountsExact
    <3> QED
      BY <2>2, <3>1, <3>2, <3>3 DEF Worth
  <2> QED
    BY <2>1, <2>2
<1> QED
  BY <1>8, <1>9 DEF after

-----------------------------------------------------------------------------
(* The titles.                                                             *)
Cuts(buildings, p) == {v \in Vertex : buildings[v].owner \notin {p, NoOne}}
RoadLengths(roads, buildings) ==
    [p \in Player |-> LongestTrail(Laid(roads, p), Cuts(buildings, p))]

Titled(owner, holds) ==
    /\ owner \in Player \cup {NoOne}
    /\ \A p \in Player : holds[p] <=> owner = p
RoadTitle(roads, buildings, holds, owner) ==
    Titled(owner, holds) /\ Earned(owner, RoadLengths(roads, buildings), LongestRoadMinimum)
ArmyTitle(knights, holds, owner) ==
    Titled(owner, holds) /\ Earned(owner, knights, LargestArmyMinimum)

LEMMA RoadLengthsAre ==
  ASSUME NEW g
  PROVE  /\ RoadLengths(g.roads, g.buildings) \in [Player -> Nat]
         /\ RoadLengths(g.roads, g.buildings) = [p \in Player |-> LongestRoadLength(g, p)]
         /\ \A p \in Player : LongestRoadLength(g, p) = RoadLengths(g.roads, g.buildings)[p]
<1>1. \A p : Laid(g.roads, p) \in SUBSET Edge
  BY DEF Laid
<1>2. \A p \in Player : LongestTrail(Laid(g.roads, p), Cuts(g.buildings, p)) \in Nat
  BY <1>1, LongestTrailNat
<1>3. \A p \in Player : LongestRoadLength(g, p) = LongestTrail(Laid(g.roads, p), Cuts(g.buildings, p))
  BY DEF LongestRoadLength, RoadsOf, Blocked, Laid, Cuts
<1> QED
  BY <1>2, <1>3 DEF RoadLengths

\* Roads are cut by whose a building is, not by what it is.
LEMMA OwnersDecide ==
  ASSUME NEW roads, NEW buildings, NEW after,
         \A v \in Vertex : after[v].owner = buildings[v].owner
  PROVE  RoadLengths(roads, after) = RoadLengths(roads, buildings)
<1>1. \A p \in Player : Cuts(after, p) = Cuts(buildings, p)
  BY DEF Cuts
<1> QED
  BY <1>1 DEF RoadLengths

LEMMA OneOf ==
  ASSUME NEW S
  PROVE  /\ Cardinality(S) = 1 /\ IsFiniteSet(S) => (CHOOSE x \in S : TRUE) \in S
         /\ \A x : S = {x} => Cardinality(S) = 1 /\ (CHOOSE y \in S : TRUE) = x
<1>1. Cardinality(S) = 1 /\ IsFiniteSet(S) => \E x : S = {x}
  BY FS_Singleton
<1>2. \A x : Cardinality({x}) = 1
  BY FS_Singleton
<1>3. \A x : (CHOOSE y \in {x} : TRUE) = x
  OBVIOUS
<1> QED
  BY <1>1, <1>2, <1>3

LEMMA RoadLeaderEarns ==
  ASSUME NEW g
  PROVE  /\ LongestRoadLeader(g) \in Player \cup {NoOne}
         /\ Earned(LongestRoadLeader(g), RoadLengths(g.roads, g.buildings), LongestRoadMinimum)
<1> DEFINE length == RoadLengths(g.roads, g.buildings)
           leaders == {p \in Player : /\ length[p] >= LongestRoadMinimum
                                      /\ \A q \in Player : length[q] <= length[p]}
           leader == LongestRoadLeader(g)
<1>1. \A p \in Player : length[p] \in Nat
  BY RoadLengthsAre
<1>2. leader = IF Cardinality(leaders) = 1 THEN CHOOSE p \in leaders : TRUE
               ELSE IF g.roadOwner \in leaders /\ g.hasLongestRoad[g.roadOwner]
                    THEN g.roadOwner ELSE NoOne
  <2> DEFINE found == [p \in Player |-> LongestRoadLength(g, p)]
             first == {p \in Player : /\ found[p] >= LongestRoadMinimum
                                      /\ \A q \in Player : found[q] <= found[p]}
  <2>1. leader = IF Cardinality(first) = 1 THEN CHOOSE p \in first : TRUE
                 ELSE IF g.roadOwner \in first /\ g.hasLongestRoad[g.roadOwner]
                      THEN g.roadOwner ELSE NoOne
    BY Zenon DEF LongestRoadLeader
  <2>2. found = length
    BY RoadLengthsAre
  <2>3. first = leaders
    BY <2>2
  <2> HIDE DEF first, leaders, leader
  <2> QED
    BY <2>1, <2>3
<1>3. leaders \in SUBSET Player /\ LongestRoadMinimum \in Nat
  BY SizesFit
<1>4. \A p \in leaders : length[p] >= LongestRoadMinimum /\ \A q \in Player : length[q] <= length[p]
  OBVIOUS
<1>5. ASSUME NEW p \in Player, length[p] >= LongestRoadMinimum,
             \A q \in Player \ {p} : length[q] < length[p]
      PROVE  leaders = {p}
  <2>1. p \in leaders
    <3>1. \A q \in Player : length[q] <= length[p]
      BY <1>1, <1>5
    <3> QED
      BY <1>5, <3>1
  <2>2. \A q \in Player \ {p} : ~(length[p] <= length[q])
    BY <1>1, <1>5
  <2> QED
    BY <2>1, <2>2
<1> HIDE DEF length, leaders, leader
<1>6. IsFiniteSet(leaders)
  BY <1>3, PlayersFinite, FS_Subset
<1>7. leader \in leaders \/ leader = NoOne
  BY <1>2, <1>6, OneOf
<1>8. ASSUME NEW p, leaders = {p} PROVE leader = p
  BY <1>2, <1>8, OneOf
<1>9. leader \in Player \cup {NoOne}
  BY <1>3, <1>7
<1>10. Earned(leader, length, LongestRoadMinimum)
  BY <1>4, <1>5, <1>7, <1>8 DEF Earned
<1> QED
  BY <1>9, <1>10 DEF leader, length

LEMMA ArmyLeaderEarns ==
  ASSUME NEW g, g.knights \in [Player -> Nat], g.armyOwner \in Player \cup {NoOne}
  PROVE  /\ LargestArmyLeader(g) \in Player \cup {NoOne}
         /\ Earned(LargestArmyLeader(g), g.knights, LargestArmyMinimum)
<1> DEFINE all == {g.knights[p] : p \in Player}
           best == Max(all)
           leaders == {p \in Player : g.knights[p] = best}
           leader == LargestArmyLeader(g)
           keeps == /\ g.armyOwner # NoOne
                    /\ g.knights[g.armyOwner] >= LargestArmyMinimum
                    /\ \A p \in Player : g.knights[p] <= g.knights[g.armyOwner]
<1>1. leader = IF keeps THEN g.armyOwner
               ELSE IF best >= LargestArmyMinimum /\ Cardinality(leaders) = 1
                    THEN CHOOSE p \in leaders : TRUE ELSE NoOne
  BY DEF LargestArmyLeader
<1>2. LargestArmyMinimum \in Nat /\ \A p \in Player : g.knights[p] \in Nat
  BY SizesFit
<1>3. best \in all /\ \A p \in Player : g.knights[p] <= best
  <2>1. \A x \in all : \E p \in Player : x = g.knights[p]
    OBVIOUS
  <2>2. all \subseteq Int /\ all # {} /\ \A p \in Player : g.knights[p] \in all
    BY <1>2, PlayersFinite
  <2> HIDE DEF all
  <2>3. IsFiniteSet(all)
    BY <2>1, PlayersFinite, ImageFinite
  <2>4. best \in all /\ \A x \in all : x <= best
    BY <2>2, <2>3, MaxIs
  <2> QED
    BY <2>2, <2>4
<1>4. best \in Nat
  BY <1>2, <1>3
<1> HIDE DEF best
<1>5. leaders \in SUBSET Player /\ \A p \in leaders : g.knights[p] = best
  OBVIOUS
<1>6. ASSUME NEW p \in Player, \A q \in Player \ {p} : g.knights[q] < g.knights[p]
      PROVE  leaders = {p} /\ best = g.knights[p]
  <2>1. best = g.knights[p]
    <3>1. PICK q \in Player : best = g.knights[q]
      BY <1>3
    <3> QED
      BY <1>2, <1>3, <1>6, <3>1
  <2>2. \A q \in Player \ {p} : g.knights[q] # best
    BY <1>2, <1>6, <2>1
  <2> QED
    BY <2>1, <2>2
<1> HIDE DEF leaders, leader, all
<1>7. IsFiniteSet(leaders)
  BY <1>5, PlayersFinite, FS_Subset
<1>8. CASE keeps
  <2>1. leader = g.armyOwner /\ leader \in Player
    BY <1>1, <1>8
  <2>2. ASSUME NEW p \in Player, \A q \in Player \ {p} : g.knights[q] < g.knights[p] PROVE leader = p
    BY <1>2, <1>8, <2>1, <2>2
  <2> QED
    BY <1>8, <2>1, <2>2 DEF Earned, leader
<1>9. CASE ~keeps
  <2>1. leader = IF best >= LargestArmyMinimum /\ Cardinality(leaders) = 1
                 THEN CHOOSE p \in leaders : TRUE ELSE NoOne
    BY <1>1, <1>9
  <2>2. leader = NoOne \/ (leader \in leaders /\ best >= LargestArmyMinimum)
    BY <1>7, <2>1, OneOf
  <2>3. leader \in Player \cup {NoOne}
    BY <1>5, <2>2
  <2>4. leader # NoOne => /\ g.knights[leader] >= LargestArmyMinimum
                          /\ \A q \in Player : g.knights[q] <= g.knights[leader]
    BY <1>3, <1>5, <2>2
  <2>5. ASSUME NEW p \in Player, g.knights[p] >= LargestArmyMinimum,
               \A q \in Player \ {p} : g.knights[q] < g.knights[p]
        PROVE  leader = p
    BY <1>6, <2>1, <2>5, OneOf
  <2> QED
    BY <2>3, <2>4, <2>5 DEF Earned, leader
<1> QED
  BY <1>8, <1>9

-----------------------------------------------------------------------------
(* The score.                                                              *)
Prize(held) == IF held THEN Bonus ELSE 0

Scored(score, buildings, road, army) ==
    /\ score \in [Player -> Int]
    /\ road \in [Player -> BOOLEAN] /\ army \in [Player -> BOOLEAN]
    /\ \A p \in Player : score[p] = Worth(buildings, p) + Prize(road[p]) + Prize(army[p])

LEMMA Prizes == \A held : Prize(held) \in Nat
BY SizesFit DEF Prize

LEMMA ScoreNat ==
  ASSUME NEW score, NEW buildings, NEW road, NEW army, Scored(score, buildings, road, army)
  PROVE  \A p \in Player : score[p] \in Nat /\ score[p] >= Worth(buildings, p)
BY WorthNat, Prizes DEF Scored

LEMMA ScoreAfterBuilding ==
  ASSUME NEW score, NEW buildings, NEW road, NEW army, Scored(score, buildings, road, army),
         NEW p \in Player, NEW after,
         Worth(after, p) = Worth(buildings, p) + 1,
         \A q \in Player \ {p} : Worth(after, q) = Worth(buildings, q)
  PROVE  Scored([score EXCEPT ![p] = @ + 1], after, road, army)
BY WorthNat, Prizes DEF Scored

-----------------------------------------------------------------------------
(* A match, field by field.                                                *)
Fields == {"rules", "deck", "turn", "phase", "hand", "bank", "roads", "buildings", "thief", "cards",
           "playedCardTurn", "knights", "score", "hasLongestRoad", "roadOwner", "hasLargestArmy",
           "armyOwner", "trades", "plightApplied"}
Match(g) == DOMAIN g = Fields
SameBut(g, h, changed) == Match(h) /\ \A field \in Fields \ changed : h[field] = g[field]

LEMMA RoadRefreshed ==
  ASSUME NEW g, Match(g),
         Scored(g.score, g.buildings, g.hasLongestRoad, g.hasLargestArmy)
  PROVE  LET h == RefreshLongestRoad(g)
         IN  /\ SameBut(g, h, {"score", "hasLongestRoad", "roadOwner"})
             /\ RoadTitle(g.roads, g.buildings, h.hasLongestRoad, h.roadOwner)
             /\ Scored(h.score, g.buildings, h.hasLongestRoad, g.hasLargestArmy)
<1> DEFINE bare == WithoutLongestRoad(g)
           leader == LongestRoadLeader(bare)
           h == WithLongestRoad(bare, leader)
<1>1. RefreshLongestRoad(g) = h
  <2>1. UNION {{WithLongestRoad(k, p) : p \in {LongestRoadLeader(k)}} : k \in {bare}} = {h}
    OBVIOUS
  <2> HIDE DEF h, bare
  <2>2. (CHOOSE after \in {h} : TRUE) = h
    OBVIOUS
  <2> QED
    BY <2>1, <2>2 DEF RefreshLongestRoad, bare
<1>2. /\ SameBut(g, bare, {"score", "hasLongestRoad"})
      /\ bare.score = [p \in Player |-> g.score[p] - (IF g.hasLongestRoad[p] THEN Bonus ELSE 0)]
      /\ bare.hasLongestRoad = [p \in Player |-> FALSE]
  BY DEF WithoutLongestRoad, Match, SameBut, Fields
<1>3. bare.roads = g.roads /\ bare.buildings = g.buildings /\ Match(bare)
  BY <1>2 DEF SameBut, Fields
<1>4. /\ leader \in Player \cup {NoOne}
      /\ Earned(leader, RoadLengths(g.roads, g.buildings), LongestRoadMinimum)
  BY <1>3, RoadLeaderEarns
<1>5. \A p \in Player : bare.score[p] = Worth(g.buildings, p) + Prize(g.hasLargestArmy[p])
  <2> SUFFICES ASSUME NEW p \in Player
               PROVE  bare.score[p] = Worth(g.buildings, p) + Prize(g.hasLargestArmy[p])
    OBVIOUS
  <2>1. bare.score[p] = g.score[p] - Prize(g.hasLongestRoad[p])
    BY <1>2 DEF Prize
  <2> QED
    BY <2>1, WorthNat, Prizes DEF Scored
<1> HIDE DEF bare, leader
<1>6. CASE leader = NoOne
  <2>1. /\ SameBut(bare, h, {"roadOwner"}) /\ h.roadOwner = NoOne
    BY <1>3, <1>6 DEF WithLongestRoad, Match, SameBut, Fields
  <2>2. h.score = bare.score /\ h.hasLongestRoad = bare.hasLongestRoad
    BY <2>1 DEF SameBut, Fields
  <2>3. SameBut(g, h, {"score", "hasLongestRoad", "roadOwner"})
    BY <1>2, <2>1 DEF SameBut
  <2> HIDE DEF h
  <2>4. RoadTitle(g.roads, g.buildings, h.hasLongestRoad, h.roadOwner)
    BY <1>2, <1>4, <1>6, <2>1, <2>2, PlayersSeated DEF RoadTitle, Titled
  <2>5. Scored(h.score, g.buildings, h.hasLongestRoad, g.hasLargestArmy)
    <3>1. h.score \in [Player -> Int] /\ h.hasLongestRoad \in [Player -> BOOLEAN]
      BY <1>2, <1>5, <2>2, WorthNat, Prizes
    <3>2. \A p \in Player : Prize(h.hasLongestRoad[p]) = 0
      BY <1>2, <2>2 DEF Prize
    <3> QED
      BY <1>5, <2>2, <3>1, <3>2, WorthNat, Prizes DEF Scored
  <2> QED
    BY <1>1, <2>3, <2>4, <2>5
<1>7. CASE leader # NoOne
  <2>1. /\ SameBut(bare, h, {"roadOwner", "score", "hasLongestRoad"}) /\ h.roadOwner = leader
        /\ h.score = [bare.score EXCEPT ![leader] = @ + Bonus]
        /\ h.hasLongestRoad = [bare.hasLongestRoad EXCEPT ![leader] = TRUE]
    BY <1>3, <1>7 DEF WithLongestRoad, Scores, Match, SameBut, Fields
  <2>2. leader \in Player
    BY <1>4, <1>7
  <2>3. SameBut(g, h, {"score", "hasLongestRoad", "roadOwner"})
    BY <1>2, <2>1 DEF SameBut
  <2> HIDE DEF h
  <2>4. h.hasLongestRoad = [p \in Player |-> p = leader]
    BY <1>2, <2>1
  <2>5. RoadTitle(g.roads, g.buildings, h.hasLongestRoad, h.roadOwner)
    BY <1>4, <2>1, <2>2, <2>4 DEF RoadTitle, Titled
  <2>6. Scored(h.score, g.buildings, h.hasLongestRoad, g.hasLargestArmy)
    <3>1. \A p \in Player : Prize(h.hasLongestRoad[p]) = IF p = leader THEN Bonus ELSE 0
      BY <2>4 DEF Prize
    <3>2. bare.score \in [Player -> Int] /\ Bonus \in Nat
      BY <1>2, <1>5, WorthNat, Prizes, SizesFit
    <3>3. \A p \in Player : h.score[p] = bare.score[p] + (IF p = leader THEN Bonus ELSE 0)
      BY <2>1, <3>2
    <3>4. h.score \in [Player -> Int] /\ h.hasLongestRoad \in [Player -> BOOLEAN]
      <4>1. bare.hasLongestRoad \in [Player -> BOOLEAN]
        BY <1>2
      <4>2. h.hasLongestRoad \in [Player -> BOOLEAN]
        BY <2>1, <4>1
      <4>3. h.score \in [Player -> Int]
        BY <2>1, <2>2, <3>2
      <4> QED
        BY <4>2, <4>3
    <3> QED
      BY <1>5, <3>1, <3>2, <3>3, <3>4, WorthNat, Prizes DEF Scored
  <2> QED
    BY <1>1, <2>3, <2>5, <2>6
<1> QED
  BY <1>6, <1>7

\* The army's title after a knight, moved by an event if it must be.
LEMMA ArmyUpdated ==
  ASSUME NEW before, NEW g, Match(g), g.armyOwner = before.armyOwner,
         g.knights \in [Player -> Nat], Titled(g.armyOwner, g.hasLargestArmy),
         Scored(g.score, g.buildings, g.hasLongestRoad, g.hasLargestArmy)
  PROVE  LET h == WithArmyUpdate(before, g)
         IN  /\ SameBut(g, h, {"score", "hasLargestArmy", "armyOwner"})
             /\ ArmyTitle(g.knights, h.hasLargestArmy, h.armyOwner)
             /\ Scored(h.score, g.buildings, g.hasLongestRoad, h.hasLargestArmy)
<1>1. CASE LargestArmyLeader(g) = before.armyOwner
  <2>1. WithArmyUpdate(before, g) = g
    BY <1>1 DEF WithArmyUpdate
  <2>2. g.armyOwner \in Player \cup {NoOne}
    BY DEF Titled
  <2>3. Earned(g.armyOwner, g.knights, LargestArmyMinimum)
    BY <1>1, <2>2, ArmyLeaderEarns
  <2> QED
    BY <2>1, <2>3 DEF SameBut, ArmyTitle
<1>2. CASE LargestArmyLeader(g) # before.armyOwner
  <2> DEFINE bare == [g EXCEPT
            !.score = [p \in Player |-> @[p] - (IF g.hasLargestArmy[p] THEN Bonus ELSE 0)],
            !.hasLargestArmy = [p \in Player |-> FALSE]]
             leader == LargestArmyLeader(bare)
             h == IF leader = NoOne THEN [bare EXCEPT !.armyOwner = NoOne]
                  ELSE [Scores(bare, leader, Bonus) EXCEPT
                           !.armyOwner = leader, !.hasLargestArmy[leader] = TRUE]
  <2>1. WithArmyUpdate(before, g) = h
    BY <1>2 DEF WithArmyUpdate, RefreshLargestArmy
  <2>2. /\ SameBut(g, bare, {"score", "hasLargestArmy"})
        /\ bare.score = [p \in Player |-> g.score[p] - (IF g.hasLargestArmy[p] THEN Bonus ELSE 0)]
        /\ bare.hasLargestArmy = [p \in Player |-> FALSE]
    BY DEF Match, SameBut, Fields
  <2>3. bare.knights = g.knights /\ bare.armyOwner = g.armyOwner /\ Match(bare)
    BY <2>2 DEF SameBut, Fields
  <2> HIDE DEF bare
  <2>4. /\ leader \in Player \cup {NoOne}
        /\ Earned(leader, g.knights, LargestArmyMinimum)
    BY <2>3, ArmyLeaderEarns DEF Titled
  <2>5. \A p \in Player : bare.score[p] = Worth(g.buildings, p) + Prize(g.hasLongestRoad[p])
    <3> SUFFICES ASSUME NEW p \in Player
                 PROVE  bare.score[p] = Worth(g.buildings, p) + Prize(g.hasLongestRoad[p])
      OBVIOUS
    <3>1. bare.score[p] = g.score[p] - Prize(g.hasLargestArmy[p])
      BY <2>2 DEF Prize
    <3> QED
      BY <3>1, WorthNat, Prizes DEF Scored
  <2> HIDE DEF leader
  <2>6. bare.score \in [Player -> Int] /\ Bonus \in Nat /\ bare.hasLargestArmy \in [Player -> BOOLEAN]
    BY <2>2, <2>5, WorthNat, Prizes, SizesFit
  <2>7. CASE leader = NoOne
    <3>1. SameBut(bare, h, {"armyOwner"}) /\ h.armyOwner = NoOne
      BY <2>3, <2>7 DEF Match, SameBut, Fields
    <3>2. h.score = bare.score /\ h.hasLargestArmy = bare.hasLargestArmy
      BY <3>1 DEF SameBut, Fields
    <3>3. SameBut(g, h, {"score", "hasLargestArmy", "armyOwner"})
      BY <2>2, <3>1 DEF SameBut
    <3> HIDE DEF h
    <3>4. ArmyTitle(g.knights, h.hasLargestArmy, h.armyOwner)
      BY <2>2, <2>4, <2>7, <3>1, <3>2, PlayersSeated DEF ArmyTitle, Titled
    <3>5. \A p \in Player : Prize(h.hasLargestArmy[p]) = 0
      BY <2>2, <3>2 DEF Prize
    <3>6. Scored(h.score, g.buildings, g.hasLongestRoad, h.hasLargestArmy)
      BY <2>5, <2>6, <3>2, <3>5, WorthNat, Prizes DEF Scored
    <3> QED
      BY <2>1, <3>3, <3>4, <3>6
  <2>8. CASE leader # NoOne
    <3>1. /\ SameBut(bare, h, {"armyOwner", "score", "hasLargestArmy"}) /\ h.armyOwner = leader
          /\ h.score = [bare.score EXCEPT ![leader] = @ + Bonus]
          /\ h.hasLargestArmy = [bare.hasLargestArmy EXCEPT ![leader] = TRUE]
      BY <2>3, <2>8 DEF Scores, Match, SameBut, Fields
    <3>2. leader \in Player
      BY <2>4, <2>8
    <3>3. SameBut(g, h, {"score", "hasLargestArmy", "armyOwner"})
      BY <2>2, <3>1 DEF SameBut
    <3> HIDE DEF h
    <3>4. h.hasLargestArmy = [p \in Player |-> p = leader]
      BY <2>2, <3>1
    <3>5. ArmyTitle(g.knights, h.hasLargestArmy, h.armyOwner)
      BY <2>4, <3>1, <3>2, <3>4 DEF ArmyTitle, Titled
    <3>6. \A p \in Player : Prize(h.hasLargestArmy[p]) = IF p = leader THEN Bonus ELSE 0
      BY <3>4 DEF Prize
    <3>7. \A p \in Player : h.score[p] = bare.score[p] + (IF p = leader THEN Bonus ELSE 0)
      BY <2>6, <3>1
    <3>8. h.hasLargestArmy \in [Player -> BOOLEAN]
      BY <2>6, <3>1
    <3>9. h.score \in [Player -> Int]
      BY <2>6, <3>1, <3>2
    <3>10. Scored(h.score, g.buildings, g.hasLongestRoad, h.hasLargestArmy)
      BY <2>5, <2>6, <3>6, <3>7, <3>8, <3>9, WorthNat, Prizes DEF Scored
    <3> QED
      BY <2>1, <3>3, <3>5, <3>10
  <2> QED
    BY <2>7, <2>8
<1> QED
  BY <1>1, <1>2

-----------------------------------------------------------------------------
(* The phases, and what is due in them.                                    *)

\* In the second half of the setup a placement draws three of a kind at most.
Opening(phase, bank) ==
    phase.type = "SETUP_PLACEMENT" =>
        /\ phase.index \in 0..(2 * Len(PlayerOrder) - 1)
        /\ \A r \in Resource :
               bank[r] >= BankSize - (IF phase.index <= Len(PlayerOrder) THEN 0
                                      ELSE 3 * (phase.index - Len(PlayerOrder)))
\* Somebody is at turn in every phase; whoever owes cards after a seven owes some.
Due(phase) ==
    /\ phase.type \in {"SETUP_PLACEMENT", "WAITING_FOR_ROLL", "DISCARDING", "MOVING_THIEF",
                      "ACTION_PHASE", "GAME_OVER"}
    /\ phase.type # "GAME_OVER" => phase.active \in Player
    /\ phase.type = "DISCARDING" =>
           /\ phase = DiscardPhase(phase.active, phase.roller, phase.pending, phase.submitted)
           /\ phase.active \in DOMAIN phase.pending \ DOMAIN phase.submitted
           /\ phase.roller \in Player /\ DOMAIN phase.pending \subseteq Player
           /\ \A p \in DOMAIN phase.pending :
                 /\ phase.pending[p] \in Nat \ {0}
                 /\ p \in DOMAIN phase.submitted =>
                       Count(phase.submitted[p]) = phase.pending[p]
    /\ phase.type = "ACTION_PHASE" => phase = ActionPhase(phase.active)

\* Whoever still has to discard has the cards for it.
Discarding(phase, hand) ==
    phase.type = "DISCARDING" => \A p \in DOMAIN phase.pending \ DOMAIN phase.submitted :
                                    phase.pending[p] <= Count(hand[p])

\* In the setup everybody has placed as often as it was their turn, every road
\* at a settlement.
Placements(p, n) == {j \in 1..n : SetupOrder[j] = p}
Taken(buildings) == {v \in Vertex : buildings[v] # NoBuilding}
Settling(phase, turn, roads, buildings) ==
    phase.type = "SETUP_PLACEMENT" =>
        /\ phase = SetupPhase(SetupOrder[phase.index + 1], phase.index) /\ turn = 0
        /\ Cardinality(Taken(buildings)) <= phase.index
        /\ \A p \in Player :
              /\ Cardinality(Built(buildings, p, "settlement")) <= Cardinality(Placements(p, phase.index))
              /\ Cardinality(Laid(roads, p)) <= Cardinality(Placements(p, phase.index))
        /\ \A e \in Edge : roads[e] # NoOne => \E v \in e : buildings[v] # NoBuilding

IsStaged(trade) == trade.status = "COLLECTING_RESPONSES"
Quiet(trades) == \A t \in TradeId : ~IsStaged(trades[t])

\* A staged offer is the only one, its player is at turn and both sides can pay.
Staged(phase, hand, trades) ==
    phase.type # "GAME_OVER" => \A t \in TradeId : IsStaged(trades[t]) =>
        /\ phase = ActionPhase(trades[t].from)
        /\ \A u \in TradeId : IsStaged(trades[u]) => u = t
        /\ Has(hand[trades[t].from], trades[t].offered)
        /\ \A q \in DOMAIN trades[t].responses :
               trades[t].responses[q] = "WANTS_ACCEPT" => Has(hand[q], trades[t].requested)

Timely(phase, bank, hand, trades) ==
    /\ Opening(phase, bank) /\ Due(phase) /\ Discarding(phase, hand)
    /\ Staged(phase, hand, trades)

Deal(trade) ==
    trade = NoTrade \/ /\ DOMAIN trade = {"from", "recipients", "offered", "requested",
                                          "status", "responses"}
                       /\ trade.from \in Player /\ trade.recipients \subseteq Player \ {trade.from}
                       /\ trade.offered \in Bundle /\ trade.requested \in Bundle
                       /\ DOMAIN trade.responses = trade.recipients
                       /\ \A q \in trade.recipients : trade.responses[q] \in ResponseStatus
Deals(trades) == DOMAIN trades = TradeId /\ \A t \in TradeId : Deal(trades[t])

Card == [owner : Player, type : CardTypes, bought : Int, played : BOOLEAN]
Stocked(deck, cards) ==
    /\ DOMAIN deck \subseteq CardTypes
    /\ deck \in [DOMAIN deck -> Nat]
    /\ \A i \in DOMAIN cards : cards[i].type \in DOMAIN deck

(* A match in good order.  Solid is what needs no phase; Fair is all but   *)
(* the largest army's being earned, which a knight upsets until the title  *)
(* is looked at again.                                                     *)
Solid(g) ==
    /\ Match(g) /\ g.thief \in Hex /\ g.cards \in Seq(Card) /\ g.turn \in Int
    /\ g.rules.plightTurn \in Nat
    /\ Stocked(g.deck, g.cards)
    /\ Purse(g.hand, g.bank)
    /\ Layout(g.roads, g.buildings)
    /\ Scored(g.score, g.buildings, g.hasLongestRoad, g.hasLargestArmy)
    /\ RoadTitle(g.roads, g.buildings, g.hasLongestRoad, g.roadOwner)
    /\ Titled(g.armyOwner, g.hasLargestArmy) /\ g.knights \in [Player -> Nat]
    /\ Deals(g.trades)
Fair(g) == /\ Solid(g) /\ Timely(g.phase, g.bank, g.hand, g.trades)
           /\ Settling(g.phase, g.turn, g.roads, g.buildings)
Sound(g) == Fair(g) /\ Earned(g.armyOwner, g.knights, LargestArmyMinimum)
Keeps(g, h) ==
    /\ h.rules = g.rules /\ h.knights = g.knights /\ h.armyOwner = g.armyOwner
    /\ h.phase.type \in {"GAME_OVER", "SETUP_PLACEMENT"} => h.phase.type = g.phase.type

LEMMA CardTypesFinite == ASSUME NEW D, D \subseteq CardTypes PROVE IsFiniteSet(D)
<1>1. CardTypes = {"KNIGHT"} \cup ({"ROAD_BUILDING"} \cup ({"MONOPOLY"}
                      \cup ({"YEAR_OF_PLENTY"} \cup {"VICTORY_POINT"})))
  BY DEF CardTypes
<1>2. \A type : IsFiniteSet({type})
  BY FS_Singleton
<1>3. IsFiniteSet({"YEAR_OF_PLENTY"} \cup {"VICTORY_POINT"})
  BY <1>2, FS_Union
<1>4. IsFiniteSet({"MONOPOLY"} \cup ({"YEAR_OF_PLENTY"} \cup {"VICTORY_POINT"}))
  BY <1>2, <1>3, FS_Union
<1>5. IsFiniteSet({"ROAD_BUILDING"} \cup ({"MONOPOLY"}
                      \cup ({"YEAR_OF_PLENTY"} \cup {"VICTORY_POINT"})))
  BY <1>2, <1>4, FS_Union
<1>6. IsFiniteSet(CardTypes)
  BY <1>1, <1>2, <1>5, FS_Union
<1> QED
  BY <1>6, FS_Subset

LEMMA CalmIsTimely ==
  ASSUME NEW phase, NEW bank, NEW hand, NEW trades, Quiet(trades),
         phase.type \notin {"SETUP_PLACEMENT", "DISCARDING"}, Due(phase)
  PROVE  Timely(phase, bank, hand, trades)
BY DEF Quiet, Timely, Opening, Discarding, Staged

\* Whoever may act while somebody is at turn finds no offer staged.
LEMMA NothingStaged ==
  ASSUME NEW g, Fair(g), NEW p \in Player, Unlocked(g, p),
         g.phase.active = p \/ ~Is(g, "ACTION_PHASE")
  PROVE  Quiet(g.trades)
<1> SUFFICES ASSUME NEW t \in TradeId, IsStaged(g.trades[t]) PROVE FALSE
  BY DEF Quiet
<1>1. g.phase = ActionPhase(g.trades[t].from)
  BY DEF Fair, Timely, Staged, Unlocked, Is
<1>2. g.trades[t].from = p
  BY <1>1 DEF ActionPhase, Is
<1>3. t \in ActiveCollectingTrades(g, p)
  BY <1>2 DEF ActiveCollectingTrades, Collecting, IsStaged, Fair, Solid, Deals
<1> QED
  BY <1>3 DEF Unlocked

LEMMA SolidFrame ==
  ASSUME NEW g, Solid(g), NEW h,
         SameBut(g, h, {"phase", "turn", "hand", "bank", "thief", "cards", "deck",
                        "playedCardTurn", "trades", "plightApplied"}),
         Purse(h.hand, h.bank), h.thief \in Hex, h.cards \in Seq(Card), h.turn \in Int,
         Stocked(h.deck, h.cards), Deals(h.trades),
         h.phase.type \in {"GAME_OVER", "SETUP_PLACEMENT"} => h.phase.type = g.phase.type
  PROVE  Solid(h) /\ Keeps(g, h)
<1>1. /\ Match(h) /\ h.rules = g.rules /\ h.roads = g.roads /\ h.buildings = g.buildings
      /\ h.knights = g.knights /\ h.score = g.score
      /\ h.hasLongestRoad = g.hasLongestRoad /\ h.roadOwner = g.roadOwner
      /\ h.hasLargestArmy = g.hasLargestArmy /\ h.armyOwner = g.armyOwner
  BY DEF SameBut, Fields
<1> QED
  BY <1>1 DEF Solid, Keeps

LEMMA SolidRefreshed ==
  ASSUME NEW g, Solid(g), NEW k,
         SameBut(g, k, {"hand", "bank", "roads", "buildings", "score", "plightApplied"}),
         Purse(k.hand, k.bank), Layout(k.roads, k.buildings),
         Scored(k.score, k.buildings, g.hasLongestRoad, g.hasLargestArmy)
  PROVE  LET h == RefreshLongestRoad(k)
         IN  /\ Solid(h) /\ Keeps(g, h)
             /\ h.phase = g.phase /\ h.trades = g.trades /\ h.hand = k.hand /\ h.bank = k.bank
             /\ h.roads = k.roads /\ h.buildings = k.buildings /\ h.cards = g.cards
             /\ h.turn = g.turn
<1> DEFINE h == RefreshLongestRoad(k)
<1>1. /\ Match(k) /\ k.rules = g.rules /\ k.deck = g.deck /\ k.turn = g.turn /\ k.phase = g.phase
      /\ k.thief = g.thief /\ k.cards = g.cards /\ k.knights = g.knights /\ k.trades = g.trades
      /\ k.hasLongestRoad = g.hasLongestRoad /\ k.roadOwner = g.roadOwner
      /\ k.hasLargestArmy = g.hasLargestArmy /\ k.armyOwner = g.armyOwner
  BY DEF SameBut, Fields
<1>2. /\ SameBut(k, h, {"score", "hasLongestRoad", "roadOwner"})
      /\ RoadTitle(k.roads, k.buildings, h.hasLongestRoad, h.roadOwner)
      /\ Scored(h.score, k.buildings, h.hasLongestRoad, k.hasLargestArmy)
  BY <1>1, RoadRefreshed
<1> HIDE DEF h
<1>3. /\ Match(h) /\ h.rules = k.rules /\ h.deck = k.deck /\ h.turn = k.turn /\ h.phase = k.phase
      /\ h.thief = k.thief /\ h.cards = k.cards /\ h.knights = k.knights /\ h.trades = k.trades
      /\ h.hand = k.hand /\ h.bank = k.bank /\ h.roads = k.roads /\ h.buildings = k.buildings
      /\ h.hasLargestArmy = k.hasLargestArmy /\ h.armyOwner = k.armyOwner
  BY <1>2 DEF SameBut, Fields
<1> QED
  BY <1>1, <1>2, <1>3 DEF Solid, Keeps, h

LEMMA SeatsAre ==
  ASSUME NEW p \in Player
  PROVE  SeatOf(p) \in 1..Len(PlayerOrder) /\ PlayerOrder[SeatOf(p)] = p
<1>1. DOMAIN PlayerOrder = 1..Len(PlayerOrder)
  BY PlayersSeated
<1>2. \E i \in DOMAIN PlayerOrder : PlayerOrder[i] = p
  BY DEF Player
<1> QED
  BY <1>1, <1>2 DEF SeatOf

LEMMA FirstSeatedIs ==
  ASSUME NEW S \in SUBSET Player
  PROVE  /\ FirstSeated(S) = NoOne <=> S = {}
         /\ S # {} => FirstSeated(S) \in S
<1>1. CASE S = {}
  BY <1>1 DEF FirstSeated
<1>2. CASE S # {}
  <2> DEFINE seats == {SeatOf(p) : p \in S}
  <2>1. PlayerOrder \in Seq(Player)
    BY PlayersSeated
  <2>2. \A p \in Player : SeatOf(p) \in DOMAIN PlayerOrder
    BY DEF SeatOf, Player
  <2>3. DOMAIN PlayerOrder \subseteq Nat
    BY <2>1
  <2>4. seats \in SUBSET Nat /\ seats # {}
    BY <1>2, <2>2, <2>3
  <2>5. PICK n \in seats : \A m \in seats : n <= m
    <3> HIDE DEF seats
    <3> QED
      BY <2>4, LeastNumber
  <2>6. \E p \in S : \A q \in S : SeatOf(p) <= SeatOf(q)
    BY <2>5
  <2>7. FirstSeated(S) \in S
    BY <1>2, <2>6 DEF FirstSeated
  <2> QED
    BY <1>2, <2>7, PlayersSeated
<1> QED
  BY <1>1, <1>2

LEMMA PaysAndDraws ==
  ASSUME NEW g, Match(g), NEW p, NEW b
  PROVE  /\ SameBut(g, Pays(g, p, b), {"hand", "bank"})
         /\ Pays(g, p, b).hand = [g.hand EXCEPT ![p] = Minus(@, b)]
         /\ Pays(g, p, b).bank = Plus(g.bank, b)
         /\ SameBut(g, Draws(g, p, b), {"hand", "bank"})
         /\ Draws(g, p, b).hand = [g.hand EXCEPT ![p] = Plus(@, b)]
         /\ Draws(g, p, b).bank = Minus(g.bank, b)
<1>1. /\ SameBut(g, Pays(g, p, b), {"hand", "bank"})
      /\ Pays(g, p, b).hand = [g.hand EXCEPT ![p] = Minus(@, b)]
      /\ Pays(g, p, b).bank = Plus(g.bank, b)
  BY DEF Pays, Match, SameBut, Fields
<1>2. /\ SameBut(g, Draws(g, p, b), {"hand", "bank"})
      /\ Draws(g, p, b).hand = [g.hand EXCEPT ![p] = Plus(@, b)]
      /\ Draws(g, p, b).bank = Minus(g.bank, b)
  BY DEF Draws, Match, SameBut, Fields
<1> QED
  BY <1>1, <1>2

LEMMA ScoresIs ==
  ASSUME NEW g, Match(g), NEW p, NEW n
  PROVE  /\ SameBut(g, Scores(g, p, n), {"score"})
         /\ Scores(g, p, n).score = [g.score EXCEPT ![p] = @ + n]
BY DEF Scores, Match, SameBut, Fields

LEMMA FairFrame ==
  ASSUME NEW g, Fair(g), NEW h,
         SameBut(g, h, {"phase", "turn", "hand", "bank", "thief", "cards", "deck",
                        "playedCardTurn", "trades", "plightApplied"}),
         Purse(h.hand, h.bank), h.thief \in Hex, h.cards \in Seq(Card), h.turn \in Int,
         Stocked(h.deck, h.cards), Deals(h.trades),
         Timely(h.phase, h.bank, h.hand, h.trades),
         \/ h.phase = g.phase /\ h.turn = g.turn
         \/ h.phase.type \notin {"GAME_OVER", "SETUP_PLACEMENT"}
         \/ h.phase = g.phase /\ h.phase.type # "SETUP_PLACEMENT"
  PROVE  Fair(h) /\ Keeps(g, h)
<1>1. Solid(g) /\ Settling(g.phase, g.turn, g.roads, g.buildings)
  BY DEF Fair
<1>2. h.roads = g.roads /\ h.buildings = g.buildings
  BY DEF SameBut, Fields
<1>3. Settling(h.phase, h.turn, h.roads, h.buildings)
  BY <1>1, <1>2 DEF Settling
<1> QED
  BY <1>1, <1>3, SolidFrame DEF Fair

-----------------------------------------------------------------------------
(* Dice, discards and the thief.                                           *)

LEMMA StartingResourcesFew ==
  ASSUME NEW v \in Vertex
  PROVE  StartingResources(v) \in Bundle /\ \A r \in Resource : StartingResources(v)[r] <= 3
<1> SUFFICES ASSUME NEW r \in Resource
             PROVE  StartingResources(v)[r] \in Nat /\ StartingResources(v)[r] <= 3
  BY DEF StartingResources, Bundle
<1> DEFINE near == {h \in Hex : v \in Corners[h]}
           here == {h \in Hex : v \in Corners[h] /\ Terrain[h] = r}
<1>1. IsFiniteSet(near) /\ here \subseteq near
  BY BoardFits, FS_Subset
<1>2. Cardinality(here) \in Nat /\ Cardinality(here) <= Cardinality(near)
  BY <1>1, FS_Subset, FS_CardinalityType
<1>3. Cardinality(near) \in Nat /\ Cardinality(near) <= 3
  BY <1>1, BoardFits, FS_CardinalityType
<1>4. StartingResources(v)[r] = Cardinality(here)
  BY DEF StartingResources
<1> QED
  BY <1>2, <1>3, <1>4

LEMMA DiscardsDue ==
  ASSUME NEW g, g.hand \in [Player -> Bundle]
  PROVE  /\ DOMAIN DiscardRequirements(g) \subseteq Player
         /\ \A p \in DOMAIN DiscardRequirements(g) :
               /\ DiscardRequirements(g)[p] \in Nat \ {0}
               /\ DiscardRequirements(g)[p] <= Count(g.hand[p])
<1> SUFFICES ASSUME NEW p \in Player, Count(g.hand[p]) > HandLimit
             PROVE  /\ Count(g.hand[p]) \div 2 \in Nat \ {0}
                    /\ Count(g.hand[p]) \div 2 <= Count(g.hand[p])
  BY DEF DiscardRequirements
<1>1. Count(g.hand[p]) \in Nat
  BY SumNat, BoardFits DEF Count, Bundle
<1>2. HandLimit \in Nat \ {0}
  BY SizesFit
<1> QED
  BY <1>1, <1>2

LEMMA FairAfterRoll ==
  ASSUME NEW g, Fair(g), NEW p \in Player, ValidRollDice(g, p), NEW sum, NEW multiplier \in Nat
  PROVE  Fair(AfterRoll(g, p, sum, multiplier)) /\ Keeps(g, AfterRoll(g, p, sum, multiplier))
<1> DEFINE h == AfterRoll(g, p, sum, multiplier)
<1>1. Quiet(g.trades)
  BY NothingStaged DEF ValidRollDice, Active, ActivePlayer, Unlocked
<1>2. /\ Match(g) /\ Purse(g.hand, g.bank) /\ g.thief \in Hex /\ g.cards \in Seq(Card)
      /\ g.turn \in Int /\ Stocked(g.deck, g.cards) /\ Deals(g.trades)
  BY DEF Fair, Solid
<1>3. CASE sum # 7
  <2> DEFINE gains == ResourceGainForRoll(g, sum, multiplier)
             paid == EnforceBankProductionLimit(g, gains)
  <2>1. gains \in [Player -> Bundle]
    BY GainsAreBundles
  <2> HIDE DEF gains
  <2>2. paid \in [Player -> Bundle] /\ \A r \in Resource : Together(paid, r) <= g.bank[r]
    BY <1>2, <2>1, ProductionLimited DEF Purse
  <2>3. h = ResourcesProduced(DiceRolled(g, p), paid)
    BY <1>3 DEF AfterRoll, gains
  <2> HIDE DEF paid
  <2>4. /\ SameBut(g, h, {"phase", "hand", "bank"}) /\ h.phase = ActionPhase(p)
        /\ h.hand = [q \in Player |-> Plus(g.hand[q], paid[q])]
        /\ h.bank = [r \in Resource |-> g.bank[r] - Together(paid, r)]
    <3> DEFINE d == DiceRolled(g, p)
    <3>1. /\ SameBut(g, d, {"phase"}) /\ d.phase = ActionPhase(p)
          /\ d.hand = g.hand /\ d.bank = g.bank
      BY <1>2 DEF DiceRolled, Match, SameBut, Fields
    <3>2. h = [d EXCEPT !.hand = [q \in Player |-> Plus(@[q], paid[q])],
                        !.bank = [r \in Resource |-> @[r] - Together(paid, r)]]
      BY <2>3 DEF ResourcesProduced
    <3> HIDE DEF d, h
    <3>3. SameBut(d, h, {"hand", "bank"}) /\ h.phase = d.phase
      BY <3>1, <3>2 DEF Match, SameBut, Fields
    <3>4. /\ h.hand = [q \in Player |-> Plus(d.hand[q], paid[q])]
          /\ h.bank = [r \in Resource |-> d.bank[r] - Together(paid, r)]
      BY <3>1, <3>2 DEF Match, SameBut, Fields
    <3> QED
      BY <3>1, <3>3, <3>4 DEF SameBut
  <2> HIDE DEF h
  <2>5. Purse(h.hand, h.bank)
    BY <1>2, <2>2, <2>4, PurseAfterProduction
  <2>6. h.phase.type \notin {"SETUP_PLACEMENT", "GAME_OVER", "DISCARDING"} /\ Due(h.phase)
    BY <2>4 DEF ActionPhase, Due
  <2>7. /\ h.thief = g.thief /\ h.cards = g.cards /\ h.turn = g.turn /\ h.deck = g.deck
        /\ h.trades = g.trades
    BY <2>4 DEF SameBut, Fields
  <2>8. Timely(h.phase, h.bank, h.hand, h.trades)
    BY <1>1, <2>6, <2>7, CalmIsTimely
  <2>9. SameBut(g, h, {"phase", "turn", "hand", "bank", "thief", "cards", "deck",
                        "playedCardTurn", "trades", "plightApplied"})
    BY <2>4 DEF SameBut
  <2> QED
    BY <1>2, <2>5, <2>6, <2>7, <2>8, <2>9, FairFrame DEF h
<1>4. CASE sum = 7
  <2> DEFINE pending == DiscardRequirements(g)
  <2>1. /\ DOMAIN pending \subseteq Player
        /\ \A q \in DOMAIN pending : /\ pending[q] \in Nat \ {0}
                                     /\ pending[q] <= Count(g.hand[q])
    BY <1>2, DiscardsDue DEF Purse
  <2>8. pending # <<>> => DOMAIN pending # {}
    BY DEF pending, DiscardRequirements
  <2>2. h = IF pending = <<>> THEN SevenRolled(DiceRolled(g, p), p)
            ELSE DiscardRequired(SevenRolled(DiceRolled(g, p), p), p, pending)
    BY <1>4 DEF AfterRoll
  <2> HIDE DEF pending
  <2> DEFINE next == NextPendingDiscardPlayer(pending, <<>>)
  <2>9. pending # <<>> => next \in DOMAIN pending
    BY <2>1, <2>8, FirstSeatedIs DEF NextPendingDiscardPlayer
  <2> HIDE DEF next
  <2>3. /\ SameBut(g, h, {"phase"})
        /\ h.phase = IF pending = <<>> THEN ThiefPhase(p) ELSE DiscardPhase(next, p, pending, <<>>)
    BY <1>2, <2>2 DEF SevenRolled, DiceRolled, DiscardRequired, Match, SameBut, Fields, next
  <2> HIDE DEF h
  <2>4. h.phase.type \notin {"SETUP_PLACEMENT", "GAME_OVER"} /\ Due(h.phase)
    BY <2>1, <2>3, <2>9 DEF ThiefPhase, DiscardPhase, Due
  <2>5. /\ h.thief = g.thief /\ h.cards = g.cards /\ h.turn = g.turn /\ h.deck = g.deck
        /\ h.trades = g.trades /\ h.hand = g.hand /\ h.bank = g.bank
    BY <2>3 DEF SameBut, Fields
  <2>6. Timely(h.phase, h.bank, h.hand, h.trades)
    <3>1. Discarding(h.phase, h.hand)
      BY <2>1, <2>3, <2>5 DEF ThiefPhase, DiscardPhase, Discarding
    <3> QED
      BY <1>1, <2>4, <2>5, <3>1 DEF Timely, Opening, Staged, Quiet
  <2>7. SameBut(g, h, {"phase", "turn", "hand", "bank", "thief", "cards", "deck",
                        "playedCardTurn", "trades", "plightApplied"})
    BY <2>3 DEF SameBut
  <2> QED
    BY <1>2, <2>4, <2>5, <2>6, <2>7, FairFrame DEF h
<1> QED
  BY <1>3, <1>4

LEMMA FairAfterDiscard ==
  ASSUME NEW g, Fair(g), NEW p \in Player, NEW b, ValidDiscardResources(g, p, b)
  PROVE  Fair(ResourcesDiscarded(g, p, b)) /\ Keeps(g, ResourcesDiscarded(g, p, b))
<1> DEFINE h == ResourcesDiscarded(g, p, b)
           before == g.phase.submitted
           submitted == [q \in DOMAIN before \cup {p} |-> IF q = p THEN b ELSE before[q]]
           next == NextPendingDiscardPlayer(g.phase.pending, submitted)
<1>1. /\ Match(g) /\ Purse(g.hand, g.bank) /\ g.thief \in Hex /\ g.cards \in Seq(Card)
      /\ g.turn \in Int /\ Stocked(g.deck, g.cards) /\ Deals(g.trades)
      /\ Due(g.phase) /\ Discarding(g.phase, g.hand)
  BY DEF Fair, Solid, Timely
<1>2. Is(g, "DISCARDING") /\ Unlocked(g, p)
  BY DEF ValidDiscardResources, Pending
<1>3. Quiet(g.trades)
  BY <1>2, NothingStaged DEF Is
<1>4. b \in Bundle /\ Has(g.hand[p], b)
  BY DEF ValidDiscardResources, SubBundles, Bundle
<1>5. /\ SameBut(g, h, {"hand", "bank", "phase"})
      /\ h.hand = [g.hand EXCEPT ![p] = Minus(@, b)] /\ h.bank = Plus(g.bank, b)
      /\ h.phase = IF next = NoOne THEN ThiefPhase(g.phase.roller)
                   ELSE DiscardPhase(next, g.phase.roller, g.phase.pending, submitted)
  BY <1>1 DEF ResourcesDiscarded, Pays, Match, SameBut, Fields
<1>13. /\ DOMAIN submitted = DOMAIN g.phase.submitted \cup {p}
       /\ \A q \in DOMAIN submitted : submitted[q] = IF q = p THEN b ELSE g.phase.submitted[q]
  OBVIOUS
<1> HIDE DEF h, next, submitted
<1>6. Purse(h.hand, h.bank)
  BY <1>1, <1>4, <1>5, PurseAfterPaying
<1>11. next # NoOne => next \in DOMAIN g.phase.pending \ DOMAIN submitted
  <2>1. DOMAIN g.phase.pending \ DOMAIN submitted \subseteq Player
    BY <1>1, <1>2 DEF Due, Is
  <2> QED
    BY <2>1, FirstSeatedIs DEF NextPendingDiscardPlayer, next
<1>14. Count(b) = g.phase.pending[p]
  BY DEF ValidDiscardResources, SubBundles
<1>7. h.phase.type \notin {"SETUP_PLACEMENT", "GAME_OVER"} /\ Due(h.phase)
  <2>1. CASE next = NoOne
    BY <1>1, <1>2, <1>5, <2>1 DEF ThiefPhase, Due, Is
  <2>2. CASE next # NoOne
    <3>1. h.phase = DiscardPhase(next, g.phase.roller, g.phase.pending, submitted)
      BY <1>5, <2>2
    <3>2. /\ h.phase.type = "DISCARDING" /\ h.phase.active = next
          /\ h.phase.roller = g.phase.roller /\ h.phase.pending = g.phase.pending
          /\ h.phase.submitted = submitted
      BY <3>1 DEF DiscardPhase
    <3>3. /\ g.phase.roller \in Player /\ DOMAIN g.phase.pending \subseteq Player
          /\ \A q \in DOMAIN g.phase.pending :
                /\ g.phase.pending[q] \in Nat \ {0}
                /\ q \in DOMAIN g.phase.submitted =>
                      Count(g.phase.submitted[q]) = g.phase.pending[q]
      BY <1>1, <1>2 DEF Due, Is
    <3>4. \A q \in DOMAIN g.phase.pending :
             q \in DOMAIN submitted => Count(submitted[q]) = g.phase.pending[q]
      BY <1>13, <1>14, <3>3
    <3> QED
      BY <1>11, <2>2, <3>1, <3>2, <3>3, <3>4 DEF Due
  <2> QED
    BY <2>1, <2>2
<1>12. Discarding(h.phase, h.hand)
  <2>1. \A q \in DOMAIN g.phase.pending \ DOMAIN g.phase.submitted : g.phase.pending[q] <= Count(g.hand[q])
    BY <1>1, <1>2 DEF Discarding, Is
  <2>2. \A q \in Player \ {p} : h.hand[q] = g.hand[q]
    BY <1>1, <1>5 DEF Purse
  <2>3. DOMAIN g.phase.pending \subseteq Player
    BY <1>1, <1>2 DEF Due, Is
  <2>4. CASE next = NoOne
    BY <1>5, <2>4 DEF ThiefPhase, Discarding
  <2>5. CASE next # NoOne
    <3>1. h.phase.pending = g.phase.pending /\ h.phase.submitted = submitted
      BY <1>5, <2>5 DEF DiscardPhase
    <3> QED
      BY <1>13, <2>1, <2>2, <2>3, <3>1 DEF Discarding
  <2> QED
    BY <2>4, <2>5
<1>8. /\ h.thief = g.thief /\ h.cards = g.cards /\ h.turn = g.turn /\ h.deck = g.deck
      /\ h.trades = g.trades
  BY <1>5 DEF SameBut, Fields
<1>9. Timely(h.phase, h.bank, h.hand, h.trades)
  BY <1>3, <1>7, <1>8, <1>12 DEF Timely, Opening, Staged, Quiet
<1>10. SameBut(g, h, {"phase", "turn", "hand", "bank", "thief", "cards", "deck",
                      "playedCardTurn", "trades", "plightApplied"})
  BY <1>5 DEF SameBut
<1> QED
  BY <1>1, <1>6, <1>7, <1>8, <1>9, <1>10, FairFrame DEF h

LEMMA ThiefsHexes ==
  ASSUME NEW g, NEW p \in Player, NEW h, NEW from, ValidThiefMove(g, p, h, from)
  PROVE  h \in Hex /\ from \in Player \cup {NoOne} /\ from # p
<1>1. h \in Hex
  BY DEF ValidThiefMove, ValidThiefHexes
<1>2. p # NoOne
  BY PlayersSeated
<1> QED
  BY <1>1, <1>2 DEF ValidThiefMove, EligibleStealTargets

\* What is stolen changes hands; the phase ends where a seven began it.
LEMMA FairAfterTheft ==
  ASSUME NEW g, Fair(g), NEW p \in Player, NEW h \in Hex, NEW from \in Player \cup {NoOne},
         from # p, NEW reason, NEW k \in Thefts(g, p, h, reason, from), Quiet(g.trades),
         g.phase.type \in {"WAITING_FOR_ROLL", "ACTION_PHASE", "MOVING_THIEF"}
  PROVE  Fair(k) /\ Keeps(g, k) /\ k.phase \in {g.phase, ActionPhase(p)} /\ k.trades = g.trades
<1>1. PICK stolen \in StolenResources(g, from) : k = ThiefMoved(g, p, h, reason, from, stolen)
  BY DEF Thefts
<1>2. /\ Match(g) /\ Purse(g.hand, g.bank) /\ g.thief \in Hex /\ g.cards \in Seq(Card)
      /\ g.turn \in Int /\ Stocked(g.deck, g.cards) /\ Deals(g.trades)
      /\ Due(g.phase) /\ g.hand \in [Player -> Bundle]
  BY DEF Fair, Solid, Timely, Purse
<1>3. /\ SameBut(g, k, {"hand", "phase", "thief"}) /\ k.thief = h
      /\ k.phase \in {g.phase, ActionPhase(p)}
      /\ k.hand = IF from = NoOne THEN g.hand
                  ELSE [g.hand EXCEPT ![from] = Minus(@, stolen), ![p] = Plus(@, stolen)]
  BY <1>1, <1>2 DEF ThiefMoved, Match, SameBut, Fields
<1>4. /\ k.cards = g.cards /\ k.turn = g.turn /\ k.deck = g.deck
      /\ k.trades = g.trades /\ k.bank = g.bank
  BY <1>3 DEF SameBut, Fields
<1>5. Purse(k.hand, k.bank)
  <2>1. CASE from = NoOne
    BY <1>2, <1>3, <1>4, <2>1
  <2>2. CASE from # NoOne
    <3>1. from \in Player
      BY <2>2
    <3>2. PICK r \in Resource : stolen = One(r) /\ g.hand[from][r] > 0
      BY <1>1, <2>2 DEF StolenResources
    <3>3. stolen \in Bundle /\ \A s \in Resource : stolen[s] = IF s = r THEN 1 ELSE 0
      BY <3>2, SmallBundles
    <3>4. g.hand[from] \in Bundle /\ g.hand[p] \in Bundle
      BY <1>2, <3>1
    <3>5. \A s \in Resource : g.hand[from][s] \in Nat /\ g.hand[p][s] \in Nat
      BY <3>4 DEF Bundle
    <3>6. Has(g.hand[from], stolen) /\ Has(g.hand[p], Nothing)
      BY <3>2, <3>3, <3>5, SmallBundles DEF Has
    <3>7. Minus(g.hand[from], stolen) \in Bundle /\ Plus(g.hand[p], stolen) \in Bundle
      BY <3>3, <3>4, <3>6, BundlesAdd
    <3>8. /\ k.hand \in [Player -> Bundle] /\ k.hand[from] = Minus(g.hand[from], stolen)
          /\ k.hand[p] = Plus(g.hand[p], stolen)
          /\ \A s \in Player \ {p, from} : k.hand[s] = g.hand[s]
      BY <1>2, <1>3, <2>2, <3>1, <3>7
    <3>9. /\ Plus(Minus(g.hand[from], stolen), Nothing) = Minus(g.hand[from], stolen)
          /\ Minus(Plus(g.hand[p], stolen), Nothing) = Plus(g.hand[p], stolen)
      <4>1. /\ \A x \in Bundle : Plus(x, Nothing) = x
            /\ \A x \in Bundle : Minus(x, Nothing) = x
        BY SmallBundles DEF Plus, Minus, Bundle
      <4> QED
        BY <3>7, <4>1
    <3>10. Nothing \in Bundle
      BY SmallBundles
    <3> QED
      BY <1>2, <1>4, <3>1, <3>3, <3>6, <3>8, <3>9, <3>10, PurseAfterGiving
  <2> QED
    BY <2>1, <2>2
<1>6. k.phase.type \notin {"SETUP_PLACEMENT", "GAME_OVER", "DISCARDING"} /\ Due(k.phase)
  BY <1>2, <1>3 DEF ActionPhase, Due
<1>7. Timely(k.phase, k.bank, k.hand, k.trades)
  BY <1>4, <1>6, CalmIsTimely
<1>8. SameBut(g, k, {"phase", "turn", "hand", "bank", "thief", "cards", "deck",
                      "playedCardTurn", "trades", "plightApplied"})
  BY <1>3 DEF SameBut
<1> QED
  BY <1>2, <1>3, <1>4, <1>5, <1>6, <1>7, <1>8, FairFrame

LEMMA PurseKept ==
  ASSUME NEW g, Match(g), Purse(g.hand, g.bank), NEW p \in Player, NEW b \in Bundle
  PROVE  /\ Has(g.hand[p], b) =>
               /\ SameBut(g, Pays(g, p, b), {"hand", "bank"})
               /\ Purse(Pays(g, p, b).hand, Pays(g, p, b).bank)
               /\ \A r \in Resource : Pays(g, p, b).bank[r] = g.bank[r] + b[r]
         /\ Has(g.bank, b) =>
               /\ SameBut(g, Draws(g, p, b), {"hand", "bank"})
               /\ Purse(Draws(g, p, b).hand, Draws(g, p, b).bank)
               /\ \A r \in Resource : Draws(g, p, b).bank[r] = g.bank[r] - b[r]
<1>1. ASSUME Has(g.hand[p], b)
      PROVE  Purse([g.hand EXCEPT ![p] = Minus(@, b)], Plus(g.bank, b))
  BY <1>1, PurseAfterPaying
<1>2. ASSUME Has(g.bank, b)
      PROVE  Purse([g.hand EXCEPT ![p] = Plus(@, b)], Minus(g.bank, b))
  BY <1>2, PurseAfterDrawing
<1>3. \A r \in Resource : /\ Plus(g.bank, b)[r] = g.bank[r] + b[r]
                          /\ Minus(g.bank, b)[r] = g.bank[r] - b[r]
  BY DEF Plus, Minus
<1> DEFINE k == Pays(g, p, b)
           d == Draws(g, p, b)
<1>4. SameBut(g, k, {"hand", "bank"}) /\ SameBut(g, d, {"hand", "bank"})
  BY PaysAndDraws
<1>5. k.hand = [g.hand EXCEPT ![p] = Minus(@, b)] /\ k.bank = Plus(g.bank, b)
  BY DEF Pays, Match, Fields
<1>6. d.hand = [g.hand EXCEPT ![p] = Plus(@, b)] /\ d.bank = Minus(g.bank, b)
  BY DEF Draws, Match, Fields
<1> HIDE DEF k, d
<1>7. /\ Has(g.hand[p], b) => Purse(k.hand, k.bank)
      /\ Has(g.bank, b) => Purse(d.hand, d.bank)
  BY <1>1, <1>2, <1>5, <1>6
<1>8. \A r \in Resource : k.bank[r] = g.bank[r] + b[r] /\ d.bank[r] = g.bank[r] - b[r]
  BY <1>3, <1>5, <1>6
<1> QED
  BY <1>4, <1>7, <1>8 DEF k, d

(* Trades with the bank and with the others, and the end of a turn.        *)

LEMMA FairAfterMaritime ==
  ASSUME NEW g, Fair(g), NEW p \in Player, NEW r \in Resource, NEW s \in Resource,
         ValidMaritimeTrade(g, p, r, s)
  PROVE  LET h == MaritimeTraded(g, p, r, s, MaritimeTradeRatio(g, p, r))
         IN  Fair(h) /\ Keeps(g, h)
<1> DEFINE ratio == MaritimeTradeRatio(g, p, r)
           offered == Many(r, ratio)
           k == Pays(g, p, offered)
           h == Draws(k, p, One(s))
<1>1. /\ Match(g) /\ Purse(g.hand, g.bank) /\ g.thief \in Hex /\ g.cards \in Seq(Card)
      /\ g.turn \in Int /\ Stocked(g.deck, g.cards) /\ Deals(g.trades)
      /\ g.hand[p] \in Bundle /\ g.bank \in Bundle /\ Due(g.phase)
  BY DEF Fair, Solid, Purse, Timely
<1>2. Quiet(g.trades) /\ g.phase.type = "ACTION_PHASE"
  BY NothingStaged DEF ValidMaritimeTrade, Active, ActivePlayer, Unlocked, Is
<1>3. ratio \in Nat
  BY DEF MaritimeTradeRatio
<1>4. g.hand[p][r] >= ratio /\ g.bank[s] >= 1
  BY DEF ValidMaritimeTrade
<1> HIDE DEF ratio
<1>5. offered \in Bundle /\ \A q \in Resource : offered[q] = IF q = r THEN ratio ELSE 0
  BY <1>3, SmallBundles
<1>6. One(s) \in Bundle /\ \A q \in Resource : One(s)[q] = IF q = s THEN 1 ELSE 0
  BY SmallBundles
<1>7. MaritimeTraded(g, p, r, s, MaritimeTradeRatio(g, p, r)) = h
  BY DEF MaritimeTraded, ratio
<1> HIDE DEF offered
<1>8. \A q \in Resource : g.hand[p][q] \in Nat /\ g.bank[q] \in Nat
  BY <1>1 DEF Bundle
<1>9. Has(g.hand[p], offered)
  BY <1>4, <1>5, <1>8 DEF Has
<1>10. /\ SameBut(g, k, {"hand", "bank"}) /\ Purse(k.hand, k.bank)
       /\ \A q \in Resource : k.bank[q] = g.bank[q] + offered[q]
  BY <1>1, <1>5, <1>9, PurseKept
<1> HIDE DEF k
<1>11. Has(k.bank, One(s))
  <2>1. \A q \in Resource : k.bank[q] = g.bank[q] + offered[q] /\ offered[q] \in Nat
    BY <1>5, <1>10 DEF Bundle
  <2> QED
    BY <1>4, <1>6, <1>8, <2>1 DEF Has
<1>12. SameBut(k, h, {"hand", "bank"}) /\ Purse(h.hand, h.bank)
  <2>1. Match(k)
    BY <1>10 DEF SameBut
  <2> QED
    BY <1>6, <1>10, <1>11, <2>1, PurseKept
<1> HIDE DEF h
<1>13. /\ h.thief = g.thief /\ h.cards = g.cards /\ h.turn = g.turn /\ h.deck = g.deck
       /\ h.trades = g.trades /\ h.phase = g.phase
  BY <1>10, <1>12 DEF SameBut, Fields
<1>14. Timely(h.phase, h.bank, h.hand, h.trades)
  BY <1>1, <1>2, <1>13, CalmIsTimely
<1>15. SameBut(g, h, {"phase", "turn", "hand", "bank", "thief", "cards", "deck",
                      "playedCardTurn", "trades", "plightApplied"})
  BY <1>10, <1>12 DEF SameBut
<1> QED
  BY <1>1, <1>7, <1>12, <1>13, <1>14, <1>15, FairFrame

\* Only the trades change, and perhaps no offer is staged any more.
LEMMA FairTrades ==
  ASSUME NEW g, Fair(g), NEW h, SameBut(g, h, {"trades"}), Deals(h.trades),
         Staged(g.phase, g.hand, h.trades)
  PROVE  Fair(h) /\ Keeps(g, h)
<1>1. /\ Purse(g.hand, g.bank) /\ g.thief \in Hex /\ g.cards \in Seq(Card)
      /\ g.turn \in Int /\ Stocked(g.deck, g.cards)
      /\ Opening(g.phase, g.bank) /\ Due(g.phase) /\ Discarding(g.phase, g.hand)
  BY DEF Fair, Solid, Timely
<1>2. /\ h.thief = g.thief /\ h.cards = g.cards /\ h.turn = g.turn /\ h.deck = g.deck
      /\ h.phase = g.phase /\ h.hand = g.hand /\ h.bank = g.bank
  BY DEF SameBut, Fields
<1>3. Timely(h.phase, h.bank, h.hand, h.trades)
  BY <1>1, <1>2 DEF Timely
<1>4. SameBut(g, h, {"phase", "turn", "hand", "bank", "thief", "cards", "deck",
                      "playedCardTurn", "trades", "plightApplied"})
  BY DEF SameBut
<1> QED
  BY <1>1, <1>2, <1>3, <1>4, FairFrame

LEMMA DealDone ==
  ASSUME NEW trades, Deals(trades), NEW t \in TradeId, IsStaged(trades[t]), NEW status
  PROVE  LET after == [trades EXCEPT ![t].status = status]
         IN  /\ Deals(after) /\ after[t].status = status
             /\ \A u \in TradeId \ {t} : after[u] = trades[u]
             /\ trades[t].from \in Player
             /\ trades[t].offered \in Bundle /\ trades[t].requested \in Bundle
             /\ trades[t].recipients \subseteq Player \ {trades[t].from}
             /\ DOMAIN trades[t].responses = trades[t].recipients
<1> DEFINE after == [trades EXCEPT ![t].status = status]
<1>1. DOMAIN trades = TradeId /\ Deal(trades[t]) /\ trades[t] # NoTrade
  BY DEF Deals, IsStaged, NoTrade
<1>2. /\ DOMAIN trades[t] = {"from", "recipients", "offered", "requested", "status", "responses"}
      /\ trades[t].from \in Player
      /\ trades[t].offered \in Bundle /\ trades[t].requested \in Bundle
      /\ trades[t].recipients \subseteq Player \ {trades[t].from}
      /\ DOMAIN trades[t].responses = trades[t].recipients
      /\ \A q \in trades[t].recipients : trades[t].responses[q] \in ResponseStatus
  BY <1>1 DEF Deal
<1>3. /\ DOMAIN after = TradeId /\ \A u \in TradeId \ {t} : after[u] = trades[u]
      /\ after[t] = [trades[t] EXCEPT !.status = status]
  BY <1>1
<1> HIDE DEF after
<1>5. /\ DOMAIN after[t] = DOMAIN trades[t] /\ after[t].status = status
      /\ after[t].from = trades[t].from /\ after[t].recipients = trades[t].recipients
      /\ after[t].offered = trades[t].offered /\ after[t].requested = trades[t].requested
      /\ after[t].responses = trades[t].responses
  BY <1>2, <1>3
<1>4. after[t].status = status /\ Deal(after[t])
  BY <1>2, <1>5 DEF Deal
<1> QED
  BY <1>2, <1>3, <1>4 DEF Deals, after

LEMMA FairAfterClosing ==
  ASSUME NEW g, Fair(g), NEW t \in TradeId, Collecting(g, t),
         NEW h, h \in {TradeClosed(g, t), TradeCancelled(g, t)}
  PROVE  Fair(h) /\ Keeps(g, h) /\ h.phase = g.phase
<1>1. Match(g) /\ Deals(g.trades) /\ Staged(g.phase, g.hand, g.trades)
  BY DEF Fair, Solid, Timely
<1>2. PICK status \in {"CLOSED", "CANCELLED"} :
         SameBut(g, h, {"trades"}) /\ h.trades = [g.trades EXCEPT ![t].status = status]
  BY <1>1 DEF TradeClosed, TradeCancelled, Match, SameBut, Fields
<1>3. IsStaged(g.trades[t])
  BY DEF Collecting, IsStaged
<1>4. /\ Deals(h.trades) /\ h.trades[t].status = status
      /\ \A u \in TradeId \ {t} : h.trades[u] = g.trades[u]
  <2>2. LET after == [g.trades EXCEPT ![t].status = status]
        IN  /\ Deals(after) /\ after[t].status = status
            /\ \A u \in TradeId \ {t} : after[u] = g.trades[u]
    BY <1>1, <1>3, DealDone
  <2> QED
    BY <1>2, <2>2
<1>5. ~IsStaged(h.trades[t])
  BY <1>4 DEF IsStaged
<1>6. Staged(g.phase, g.hand, h.trades)
  BY <1>1, <1>4, <1>5 DEF Staged
<1>7. h.phase = g.phase
  BY <1>2 DEF SameBut, Fields
<1> QED
  BY <1>2, <1>4, <1>6, <1>7, FairTrades

LEMMA FairAfterOffer ==
  ASSUME NEW g, Fair(g), NEW p \in Player, NEW t \in TradeId, NEW o \in Offers,
         NEW to \in SUBSET (Player \ {p}), ValidOfferTrade(g, p, t, o, to)
  PROVE  Fair(TradeOffered(g, t, NewTrade(p, o, to)))
         /\ Keeps(g, TradeOffered(g, t, NewTrade(p, o, to)))
<1> DEFINE h == TradeOffered(g, t, NewTrade(p, o, to))
<1>1. Match(g) /\ Deals(g.trades)
  BY DEF Fair, Solid
<1>2. Quiet(g.trades)
  BY NothingStaged DEF ValidOfferTrade, Active, ActivePlayer, Unlocked
<1>3. g.phase.active = p /\ g.phase.type = "ACTION_PHASE"
  BY DEF ValidOfferTrade, Active, ActivePlayer, Unlocked, Is
<1> DEFINE deal == NewTrade(p, o, to)
<1>4. SameBut(g, h, {"trades"}) /\ h.trades = [g.trades EXCEPT ![t] = deal]
  BY <1>1 DEF TradeOffered, Match, SameBut, Fields
<1>5. /\ deal.from = p /\ deal.offered = o.offered /\ deal.requested = o.requested
      /\ deal.status = "COLLECTING_RESPONSES" /\ deal.recipients = to
      /\ DOMAIN deal.responses = to
      /\ DOMAIN deal = {"from", "recipients", "offered", "requested", "status", "responses"}
      /\ \A q \in to : deal.responses[q] = "PENDING"
  BY DEF NewTrade
<1>6. o.offered \in Bundle /\ o.requested \in Bundle
  BY OffersFit
<1>7. Has(g.hand[p], o.offered)
  BY DEF ValidOfferTrade
<1> HIDE DEF h, deal
<1>8. Deal(deal)
  BY <1>5, <1>6 DEF Deal, ResponseStatus
<1>9. h.trades[t] = deal /\ \A u \in TradeId \ {t} : h.trades[u] = g.trades[u]
  BY <1>1, <1>4 DEF Deals
<1>10. DOMAIN h.trades = TradeId
  BY <1>1, <1>4 DEF Deals
<1>11. Deals(h.trades)
  BY <1>1, <1>8, <1>9, <1>10 DEF Deals
<1>12. g.phase = ActionPhase(p)
  BY <1>3 DEF Fair, Timely, Due
<1>13. Staged(g.phase, g.hand, h.trades)
  BY <1>2, <1>5, <1>7, <1>9, <1>12 DEF Staged, Quiet
<1> QED
  BY <1>4, <1>11, <1>13, FairTrades DEF h

LEMMA FairAfterResponse ==
  ASSUME NEW g, Fair(g), NEW p \in Player, NEW t \in TradeId,
         NEW response \in {"WANTS_ACCEPT", "REJECTED"}, ValidRespondTrade(g, p, t, response)
  PROVE  Fair(AfterResponse(g, p, t, response)) /\ Keeps(g, AfterResponse(g, p, t, response))
<1> DEFINE k == TradeResponseRecorded(g, t, p, response)
           h == AfterResponse(g, p, t, response)
<1>1. Match(g) /\ Deals(g.trades) /\ Staged(g.phase, g.hand, g.trades)
  BY DEF Fair, Solid, Timely
<1>2. IsStaged(g.trades[t]) /\ p \in g.trades[t].recipients
  BY DEF ValidRespondTrade, Collecting, IsStaged
<1>3. response = "WANTS_ACCEPT" => Has(g.hand[p], g.trades[t].requested)
  BY DEF ValidRespondTrade
<1>4. g.phase.type # "GAME_OVER"
  BY DEF ValidRespondTrade, Unlocked, Is
<1>5. SameBut(g, k, {"trades"}) /\ k.trades = [g.trades EXCEPT ![t].responses[p] = response]
  BY <1>1 DEF TradeResponseRecorded, Match, SameBut, Fields
<1>6. h = IF \A q \in k.trades[t].recipients : k.trades[t].responses[q] = "REJECTED"
          THEN TradeClosed(k, t) ELSE k
  BY DEF AfterResponse
<1> HIDE DEF k, h
<1>7. Deal(g.trades[t]) /\ g.trades[t] # NoTrade
  BY <1>1, <1>2 DEF Deals, IsStaged, NoTrade
<1>8. DOMAIN g.trades[t] = {"from", "recipients", "offered", "requested", "status", "responses"}
  BY <1>7 DEF Deal
<1>9. /\ DOMAIN k.trades = TradeId /\ \A u \in TradeId \ {t} : k.trades[u] = g.trades[u]
      /\ k.trades[t] = [g.trades[t] EXCEPT !.responses = [@ EXCEPT ![p] = response]]
  BY <1>1, <1>5 DEF Deals
<1>10. /\ k.trades[t].from = g.trades[t].from /\ k.trades[t].offered = g.trades[t].offered
       /\ k.trades[t].requested = g.trades[t].requested
       /\ k.trades[t].status = g.trades[t].status
       /\ k.trades[t].recipients = g.trades[t].recipients
       /\ k.trades[t].responses = [g.trades[t].responses EXCEPT ![p] = response]
       /\ DOMAIN k.trades[t] = DOMAIN g.trades[t]
  BY <1>8, <1>9
<1>11. Deal(k.trades[t])
  <2>1. /\ g.trades[t].from \in Player
        /\ g.trades[t].recipients \subseteq Player \ {g.trades[t].from}
        /\ g.trades[t].offered \in Bundle /\ g.trades[t].requested \in Bundle
        /\ DOMAIN g.trades[t].responses = g.trades[t].recipients
        /\ \A q \in g.trades[t].recipients : g.trades[t].responses[q] \in ResponseStatus
    BY <1>7 DEF Deal
  <2>2. response \in ResponseStatus
    BY DEF ResponseStatus
  <2>3. /\ DOMAIN k.trades[t].responses = g.trades[t].recipients
        /\ \A q \in g.trades[t].recipients : k.trades[t].responses[q] \in ResponseStatus
    BY <1>10, <2>1, <2>2
  <2> QED
    BY <1>8, <1>10, <2>1, <2>3 DEF Deal
<1>12. Deals(k.trades)
  BY <1>1, <1>9, <1>11 DEF Deals
<1>13. Staged(g.phase, g.hand, k.trades)
  <2>1. \A u \in TradeId : IsStaged(k.trades[u]) <=> IsStaged(g.trades[u])
    BY <1>9, <1>10 DEF IsStaged
  <2>2. \A u \in TradeId : IsStaged(g.trades[u]) => u = t
    BY <1>1, <1>2, <1>4 DEF Staged
  <2>3. /\ g.phase = ActionPhase(g.trades[t].from)
        /\ Has(g.hand[g.trades[t].from], g.trades[t].offered)
        /\ \A q \in DOMAIN g.trades[t].responses :
              g.trades[t].responses[q] = "WANTS_ACCEPT" => Has(g.hand[q], g.trades[t].requested)
    BY <1>1, <1>2, <1>4 DEF Staged
  <2>4. \A q \in DOMAIN k.trades[t].responses :
           k.trades[t].responses[q] = "WANTS_ACCEPT" => Has(g.hand[q], g.trades[t].requested)
    <3>1. DOMAIN g.trades[t].responses = g.trades[t].recipients
      BY <1>7 DEF Deal
    <3> QED
      BY <1>2, <1>3, <1>10, <2>3, <3>1
  <2> QED
    BY <1>10, <2>1, <2>2, <2>3, <2>4 DEF Staged
<1>14. Fair(k) /\ Keeps(g, k)
  BY <1>5, <1>12, <1>13, FairTrades
<1>15. Collecting(k, t)
  BY <1>2, <1>10 DEF Collecting, IsStaged
<1>16. Fair(TradeClosed(k, t)) /\ Keeps(k, TradeClosed(k, t))
  BY <1>14, <1>15, FairAfterClosing
<1> QED
  BY <1>6, <1>14, <1>16 DEF h, Keeps

LEMMA FairAfterTrade ==
  ASSUME NEW g, Fair(g), NEW p \in Player, NEW t \in TradeId, NEW q \in Player,
         ValidFinalizeTrade(g, p, t, q)
  PROVE  Fair(TradeAccepted(g, t, q)) /\ Keeps(g, TradeAccepted(g, t, q))
<1> DEFINE h == TradeAccepted(g, t, q)
           trade == g.trades[t]
<1>1. /\ Match(g) /\ Purse(g.hand, g.bank) /\ g.thief \in Hex /\ g.cards \in Seq(Card)
      /\ g.turn \in Int /\ Stocked(g.deck, g.cards) /\ Deals(g.trades)
      /\ Due(g.phase) /\ Staged(g.phase, g.hand, g.trades)
      /\ g.hand \in [Player -> Bundle]
  BY DEF Fair, Solid, Timely, Purse
<1>2. /\ IsStaged(trade) /\ trade.from = p /\ g.phase.type # "GAME_OVER"
      /\ q \in trade.recipients
      /\ Has(g.hand[p], trade.offered) /\ Has(g.hand[q], trade.requested)
  BY DEF ValidFinalizeTrade, Chosen, Mine, Collecting, IsStaged, Is
<1>3. /\ SameBut(g, h, {"hand", "trades"})
      /\ h.trades = [g.trades EXCEPT ![t].status = "ACCEPTED"]
      /\ h.hand = [g.hand EXCEPT
                      ![p] = Plus(Minus(@, trade.offered), trade.requested),
                      ![q] = Minus(Plus(@, trade.offered), trade.requested)]
  BY <1>1, <1>2 DEF TradeAccepted, Match, SameBut, Fields
<1> HIDE DEF h
<1>4. /\ Deals(h.trades) /\ h.trades[t].status = "ACCEPTED"
      /\ \A u \in TradeId \ {t} : h.trades[u] = g.trades[u]
      /\ trade.offered \in Bundle /\ trade.requested \in Bundle
      /\ trade.recipients \subseteq Player \ {trade.from}
  <2>1. LET after == [g.trades EXCEPT ![t].status = "ACCEPTED"]
        IN  /\ Deals(after) /\ after[t].status = "ACCEPTED"
            /\ \A u \in TradeId \ {t} : after[u] = g.trades[u]
            /\ g.trades[t].offered \in Bundle /\ g.trades[t].requested \in Bundle
            /\ g.trades[t].recipients \subseteq Player \ {g.trades[t].from}
    <3>1. Deals(g.trades) /\ IsStaged(g.trades[t])
      BY <1>1, <1>2
    <3> QED
      BY <3>1, DealDone
  <2> QED
    BY <1>3, <2>1
<1> HIDE DEF trade
<1>5. p # q
  BY <1>2, <1>4
<1>6. g.phase = ActionPhase(p)
  BY <1>1, <1>2 DEF Staged, trade
<1>7. Quiet(h.trades)
  BY <1>1, <1>2, <1>4 DEF Staged, Quiet, IsStaged, trade
<1>8. Purse(h.hand, g.bank)
  <2> DEFINE given == Plus(Minus(g.hand[p], trade.offered), trade.requested)
             taken == Minus(Plus(g.hand[q], trade.offered), trade.requested)
  <2>1. g.hand[p] \in Bundle /\ g.hand[q] \in Bundle
    BY <1>1
  <2>2. given \in Bundle
    BY <1>2, <1>4, <2>1, BundlesAdd
  <2>3. Plus(g.hand[q], trade.offered) \in Bundle
    BY <1>4, <2>1, BundlesAdd
  <2>4. Has(Plus(g.hand[q], trade.offered), trade.requested)
    BY <1>2, <1>4, <2>1 DEF Has, Plus, Bundle
  <2>5. taken \in Bundle
    BY <1>4, <2>3, <2>4, BundlesAdd
  <2> HIDE DEF given, taken
  <2>6. h.hand = [g.hand EXCEPT ![p] = given, ![q] = taken]
    BY <1>3, <1>5 DEF given, taken
  <2>7. /\ h.hand \in [Player -> Bundle] /\ h.hand[p] = given /\ h.hand[q] = taken
        /\ \A s \in Player \ {p, q} : h.hand[s] = g.hand[s]
    BY <1>1, <1>5, <2>2, <2>5, <2>6
  <2> QED
    <3>1. /\ Purse(g.hand, g.bank) /\ p # q /\ trade.offered \in Bundle
          /\ trade.requested \in Bundle /\ Has(g.hand[p], trade.offered)
          /\ Has(g.hand[q], trade.requested) /\ h.hand \in [Player -> Bundle]
      BY <1>1, <1>2, <1>4, <1>5, <2>7
    <3>2. /\ h.hand[p] = Plus(Minus(g.hand[p], trade.offered), trade.requested)
          /\ h.hand[q] = Minus(Plus(g.hand[q], trade.offered), trade.requested)
      BY <2>7 DEF given, taken
    <3>3. \A s \in Player \ {p, q} : h.hand[s] = g.hand[s]
      BY <2>7
    <3> QED
      BY <3>1, <3>2, <3>3, PurseAfterGiving
<1>9. /\ h.thief = g.thief /\ h.cards = g.cards /\ h.turn = g.turn /\ h.deck = g.deck
      /\ h.phase = g.phase /\ h.bank = g.bank
  BY <1>3 DEF SameBut, Fields
<1>10. g.phase.type \notin {"SETUP_PLACEMENT", "DISCARDING"}
  BY <1>6 DEF ActionPhase
<1>11. Timely(h.phase, h.bank, h.hand, h.trades)
  BY <1>1, <1>7, <1>9, <1>10, CalmIsTimely
<1>12. SameBut(g, h, {"phase", "turn", "hand", "bank", "thief", "cards", "deck",
                      "playedCardTurn", "trades", "plightApplied"})
  BY <1>3 DEF SameBut
<1> QED
  BY <1>1, <1>4, <1>8, <1>9, <1>11, <1>12, FairFrame DEF h

LEMMA FairAfterTurn ==
  ASSUME NEW g, Fair(g), NEW p \in Player, ValidEndTurn(g, p)
  PROVE  Fair(AfterEndTurn(g, p)) /\ Keeps(g, AfterEndTurn(g, p))
<1> DEFINE next == PlayerOrder[(SeatOf(p) % Len(PlayerOrder)) + 1]
           h == AfterEndTurn(g, p)
<1>1. /\ Match(g) /\ Purse(g.hand, g.bank) /\ g.thief \in Hex /\ g.cards \in Seq(Card)
      /\ g.turn \in Int /\ Stocked(g.deck, g.cards) /\ Deals(g.trades)
  BY DEF Fair, Solid
<1>2. Quiet(g.trades)
  BY NothingStaged DEF ValidEndTurn, Active, ActivePlayer, Unlocked
<1>3. h = TurnEnded(g, next)
  BY DEF AfterEndTurn
<1>10. next \in Player
  <2>1. Len(PlayerOrder) \in Nat \ {0} /\ SeatOf(p) \in 1..Len(PlayerOrder)
    BY PlayersFinite, SeatsAre
  <2>2. (SeatOf(p) % Len(PlayerOrder)) + 1 \in 1..Len(PlayerOrder)
    BY <2>1
  <2> QED
    BY <2>2, PlayersSeated DEF Player
<1> HIDE DEF next
<1>4. SameBut(g, h, {"turn", "phase"}) /\ h.turn = g.turn + 1 /\ h.phase = RollPhase(next)
  BY <1>1, <1>3 DEF TurnEnded, Match, SameBut, Fields
<1> HIDE DEF h
<1>5. /\ h.thief = g.thief /\ h.cards = g.cards /\ h.deck = g.deck
      /\ h.hand = g.hand /\ h.bank = g.bank /\ h.trades = g.trades
  BY <1>4 DEF SameBut, Fields
<1>6. h.phase.type \notin {"SETUP_PLACEMENT", "GAME_OVER", "DISCARDING"} /\ Due(h.phase)
  BY <1>4, <1>10 DEF RollPhase, Due
<1>7. Timely(h.phase, h.bank, h.hand, h.trades)
  BY <1>2, <1>5, <1>6, CalmIsTimely
<1>8. SameBut(g, h, {"phase", "turn", "hand", "bank", "thief", "cards", "deck",
                      "playedCardTurn", "trades", "plightApplied"})
  BY <1>4 DEF SameBut
<1>9. h.turn \in Int
  BY <1>1, <1>4
<1> QED
  BY <1>1, <1>5, <1>6, <1>7, <1>8, <1>9, FairFrame DEF h

LEMMA FairAfterEnd ==
  ASSUME NEW g, Fair(g), NEW winner, NEW reason
  PROVE  LET h == GameOver(g, winner, reason)
         IN  /\ Fair(h) /\ h.phase = OverPhase(winner, reason)
             /\ h.rules = g.rules /\ h.knights = g.knights /\ h.armyOwner = g.armyOwner
             /\ h.score = g.score /\ h.cards = g.cards
             /\ h.turn = g.turn /\ h.plightApplied = g.plightApplied
<1> DEFINE h == GameOver(g, winner, reason)
<1>1. Solid(g)
  BY DEF Fair
<1>2. SameBut(g, h, {"phase"}) /\ h.phase = OverPhase(winner, reason)
  BY <1>1 DEF GameOver, Solid, Match, SameBut, Fields
<1> HIDE DEF h
<1>3. /\ Match(h) /\ h.rules = g.rules /\ h.deck = g.deck /\ h.turn = g.turn /\ h.hand = g.hand
      /\ h.bank = g.bank /\ h.roads = g.roads /\ h.buildings = g.buildings
      /\ h.thief = g.thief /\ h.cards = g.cards /\ h.knights = g.knights /\ h.score = g.score
      /\ h.hasLongestRoad = g.hasLongestRoad /\ h.roadOwner = g.roadOwner
      /\ h.hasLargestArmy = g.hasLargestArmy /\ h.armyOwner = g.armyOwner
      /\ h.trades = g.trades /\ h.plightApplied = g.plightApplied
  BY <1>2 DEF SameBut, Fields
<1>4. Timely(h.phase, h.bank, h.hand, h.trades)
  BY <1>2 DEF OverPhase, Timely, Opening, Due, Discarding, Staged
<1>6. Settling(h.phase, h.turn, h.roads, h.buildings)
  BY <1>2 DEF OverPhase, Settling
<1>5. Solid(h)
  BY <1>1, <1>3 DEF Solid
<1> QED
  BY <1>2, <1>3, <1>4, <1>5, <1>6 DEF Fair, h

(* Development cards.                                                      *)

LEMMA FairAfterBuying ==
  ASSUME NEW g, Fair(g), NEW p \in Player, ValidBuySpecialCard(g, p), NEW type \in InDeck(g)
  PROVE  Fair(SpecialCardBought(g, p, type)) /\ Keeps(g, SpecialCardBought(g, p, type))
<1> DEFINE k == Pays(g, p, CardCost)
           h == SpecialCardBought(g, p, type)
           card == [owner |-> p, type |-> type, bought |-> g.turn, played |-> FALSE]
<1>1. /\ Match(g) /\ Purse(g.hand, g.bank) /\ g.thief \in Hex /\ g.cards \in Seq(Card)
      /\ g.turn \in Int /\ Stocked(g.deck, g.cards) /\ Deals(g.trades)
      /\ Due(g.phase)
  BY DEF Fair, Solid, Timely
<1>2. Quiet(g.trades) /\ g.phase.type = "ACTION_PHASE"
  BY NothingStaged DEF ValidBuySpecialCard, Active, ActivePlayer, Unlocked, Is
<1>3. CardCost \in Bundle /\ Has(g.hand[p], CardCost)
  BY SizesFit DEF ValidBuySpecialCard, Bundle
<1>4. SameBut(g, k, {"hand", "bank"}) /\ Purse(k.hand, k.bank)
  BY <1>1, <1>3, PurseKept
<1>5. h = [k EXCEPT !.deck[type] = @ - 1, !.cards = Append(@, card)]
  <2>1. k.turn = g.turn
    BY <1>4 DEF SameBut, Fields
  <2> QED
    BY <2>1 DEF SpecialCardBought
<1> HIDE DEF k, card
<1>6. /\ SameBut(k, h, {"deck", "cards"}) /\ h.deck = [k.deck EXCEPT ![type] = @ - 1]
      /\ h.cards = Append(k.cards, card)
  BY <1>4, <1>5 DEF Match, SameBut, Fields
<1> HIDE DEF h
<1>7. /\ k.deck = g.deck /\ k.cards = g.cards
  BY <1>4 DEF SameBut, Fields
<1>14. type \in DOMAIN g.deck /\ g.deck[type] \in Nat \ {0}
  BY <1>1 DEF InDeck, Stocked
<1>15. card \in Card
  BY <1>1, <1>14 DEF card, Card, Stocked
<1>9. card \in Card /\ card.type = type
  BY <1>15 DEF card
<1>8. Stocked(h.deck, h.cards)
  <2>1. h.deck = [g.deck EXCEPT ![type] = @ - 1] /\ h.cards = Append(g.cards, card)
    BY <1>6, <1>7
  <2>2. DOMAIN h.deck = DOMAIN g.deck /\ h.deck \in [DOMAIN g.deck -> Nat]
    BY <1>1, <1>14, <2>1 DEF Stocked
  <2>3. \A i \in DOMAIN h.cards : (i \in DOMAIN g.cards /\ h.cards[i] = g.cards[i]) \/ h.cards[i] = card
    BY <1>1, <1>15, <2>1
  <2> QED
    BY <1>1, <1>9, <1>14, <2>2, <2>3 DEF Stocked
<1>10. h.cards \in Seq(Card)
  BY <1>1, <1>6, <1>7, <1>9
<1>11. /\ h.thief = g.thief /\ h.turn = g.turn /\ h.trades = g.trades /\ h.phase = g.phase
       /\ h.hand = k.hand /\ h.bank = k.bank
  BY <1>4, <1>6 DEF SameBut, Fields
<1>12. Timely(h.phase, h.bank, h.hand, h.trades)
  BY <1>1, <1>2, <1>11, CalmIsTimely
<1>13. SameBut(g, h, {"phase", "turn", "hand", "bank", "thief", "cards", "deck",
                      "playedCardTurn", "trades", "plightApplied"})
  BY <1>4, <1>6 DEF SameBut
<1> QED
  BY <1>1, <1>4, <1>8, <1>10, <1>11, <1>12, <1>13, FairFrame DEF h

\* Who may play a card is at turn, with nothing staged.
LEMMA FairAfterCard ==
  ASSUME NEW g, Fair(g), NEW p \in Player, NEW i \in DOMAIN g.cards, NEW type,
         ValidDevelopmentCardPlay(g, p, i, type)
  PROVE  LET h == DevelopmentCardPlayed(g, p, i)
         IN  /\ Fair(h) /\ Quiet(h.trades)
             /\ h.phase.type \in {"WAITING_FOR_ROLL", "ACTION_PHASE"}
             /\ type # "KNIGHT" => Keeps(g, h)
             /\ h.rules = g.rules /\ h.armyOwner = g.armyOwner
             /\ h.hand = g.hand /\ h.bank = g.bank /\ h.roads = g.roads
             /\ h.buildings = g.buildings
<1> DEFINE h == DevelopmentCardPlayed(g, p, i)
<1>1. Match(g) /\ g.cards \in Seq(Card) /\ g.knights \in [Player -> Nat]
  BY DEF Fair, Solid
<1>2. Quiet(g.trades) /\ g.phase.type \in {"WAITING_FOR_ROLL", "ACTION_PHASE"}
  BY NothingStaged DEF ValidDevelopmentCardPlay, Active, ActivePlayer, Unlocked, Is
<1>3. g.cards[i].type = type
  BY DEF ValidDevelopmentCardPlay
<1>4. /\ SameBut(g, h, {"cards", "playedCardTurn", "knights"})
      /\ h.cards = [g.cards EXCEPT ![i].played = TRUE]
      /\ h.knights = [g.knights EXCEPT ![p] = @ + (IF type = "KNIGHT" THEN 1 ELSE 0)]
  BY <1>1, <1>3 DEF DevelopmentCardPlayed, Match, SameBut, Fields
<1> HIDE DEF h
<1>5. h.cards \in Seq(Card)
  <2>1. g.cards \in [1..Len(g.cards) -> Card] /\ Len(g.cards) \in Nat
    BY <1>1
  <2>2. g.cards[i] \in Card /\ [g.cards[i] EXCEPT !.played = TRUE] \in Card
    BY <2>1 DEF Card
  <2>3. h.cards \in [1..Len(g.cards) -> Card]
    BY <1>4, <2>1, <2>2
  <2> QED
    BY <2>1, <2>3
<1>6. /\ h.knights \in [Player -> Nat]
      /\ type # "KNIGHT" => h.knights = g.knights
  BY <1>1, <1>4
<1>7. /\ h.thief = g.thief /\ h.turn = g.turn /\ h.trades = g.trades /\ h.phase = g.phase
      /\ h.hand = g.hand /\ h.bank = g.bank /\ h.rules = g.rules /\ h.armyOwner = g.armyOwner
      /\ h.hasLargestArmy = g.hasLargestArmy /\ h.hasLongestRoad = g.hasLongestRoad
      /\ h.roads = g.roads /\ h.buildings = g.buildings /\ h.score = g.score
      /\ h.roadOwner = g.roadOwner /\ h.deck = g.deck /\ Match(h)
  BY <1>4 DEF SameBut, Fields
<1>9. Stocked(h.deck, h.cards)
  <2>1. Stocked(g.deck, g.cards)
    BY DEF Fair, Solid
  <2>2. \A j \in DOMAIN g.cards : g.cards[j] \in Card
    BY <1>1
  <2>3. \A j \in DOMAIN h.cards : j \in DOMAIN g.cards /\ h.cards[j].type = g.cards[j].type
    BY <1>4, <2>2 DEF Card
  <2> QED
    BY <1>7, <2>1, <2>3 DEF Stocked
<1>8. Fair(h)
  BY <1>5, <1>6, <1>7, <1>9 DEF Fair, Solid
<1> QED
  BY <1>2, <1>6, <1>7, <1>8 DEF Keeps, h

LEMMA FairAfterMonopoly ==
  ASSUME NEW g, Fair(g), NEW p \in Player, NEW r \in Resource, Quiet(g.trades),
         g.phase.type \notin {"SETUP_PLACEMENT", "DISCARDING"}
  PROVE  Fair(MonopolyPlayed(g, p, r)) /\ Keeps(g, MonopolyPlayed(g, p, r))
<1> DEFINE h == MonopolyPlayed(g, p, r)
           total == SumFunctionOnSet([q \in Player |-> g.hand[q][r]], Player \ {p})
<1>1. /\ Match(g) /\ Purse(g.hand, g.bank) /\ g.thief \in Hex /\ g.cards \in Seq(Card)
      /\ g.turn \in Int /\ Stocked(g.deck, g.cards) /\ Deals(g.trades)
      /\ Due(g.phase)
  BY DEF Fair, Solid, Timely
<1>2. h = [g EXCEPT !.hand = [q \in Player |->
            IF q = p THEN Plus(@[p], Many(r, total)) ELSE [@[q] EXCEPT ![r] = 0]]]
  BY DEF MonopolyPlayed
<1> HIDE DEF h
<1>3. /\ SameBut(g, h, {"hand"})
      /\ h.hand = [q \in Player |-> IF q = p THEN Plus(g.hand[p], Many(r, total))
                                    ELSE [g.hand[q] EXCEPT ![r] = 0]]
  <2> HIDE DEF total
  <2> QED
    BY <1>1, <1>2 DEF Match, SameBut, Fields
<1>4. Purse(h.hand, g.bank)
  <2>1. total = SumFunctionOnSet([q \in Player |-> g.hand[q][r]], Player \ {p})
    OBVIOUS
  <2> HIDE DEF total
  <2>2. Purse([q \in Player |-> IF q = p THEN Plus(g.hand[p], Many(r, total))
                               ELSE [g.hand[q] EXCEPT ![r] = 0]], g.bank)
    BY <1>1, <2>1, PurseAfterMonopoly
  <2> QED
    BY <1>3, <2>2
<1>5. /\ h.thief = g.thief /\ h.cards = g.cards /\ h.deck = g.deck /\ h.turn = g.turn
      /\ h.bank = g.bank /\ h.trades = g.trades /\ h.phase = g.phase
  BY <1>3 DEF SameBut, Fields
<1>6. Timely(h.phase, h.bank, h.hand, h.trades)
  BY <1>1, <1>5, CalmIsTimely
<1>7. SameBut(g, h, {"phase", "turn", "hand", "bank", "thief", "cards", "deck",
                      "playedCardTurn", "trades", "plightApplied"})
  BY <1>3 DEF SameBut
<1> QED
  BY <1>1, <1>4, <1>5, <1>6, <1>7, FairFrame DEF h

LEMMA FairAfterPlenty ==
  ASSUME NEW g, Fair(g), NEW p \in Player, NEW r \in Resource, NEW s \in Resource,
         Has(g.bank, Plus(One(r), One(s))), Quiet(g.trades),
         g.phase.type \notin {"SETUP_PLACEMENT", "DISCARDING"}
  PROVE  LET h == YearOfPlentyPlayed(g, p, Plus(One(r), One(s))) IN Fair(h) /\ Keeps(g, h)
<1> DEFINE gain == Plus(One(r), One(s))
           h == Draws(g, p, gain)
<1>1. /\ Match(g) /\ Purse(g.hand, g.bank) /\ g.thief \in Hex /\ g.cards \in Seq(Card)
      /\ g.turn \in Int /\ Stocked(g.deck, g.cards) /\ Deals(g.trades)
      /\ Due(g.phase)
  BY DEF Fair, Solid, Timely
<1>2. gain \in Bundle
  BY SmallBundles, BundlesAdd
<1>3. YearOfPlentyPlayed(g, p, Plus(One(r), One(s))) = h
  BY DEF YearOfPlentyPlayed
<1> HIDE DEF gain
<1>4. SameBut(g, h, {"hand", "bank"}) /\ Purse(h.hand, h.bank)
  BY <1>1, <1>2, PurseKept DEF gain
<1> HIDE DEF h
<1>5. /\ h.thief = g.thief /\ h.cards = g.cards /\ h.deck = g.deck /\ h.turn = g.turn
      /\ h.trades = g.trades /\ h.phase = g.phase
  BY <1>4 DEF SameBut, Fields
<1>6. Timely(h.phase, h.bank, h.hand, h.trades)
  BY <1>1, <1>5, CalmIsTimely
<1>7. SameBut(g, h, {"phase", "turn", "hand", "bank", "thief", "cards", "deck",
                      "playedCardTurn", "trades", "plightApplied"})
  BY <1>4 DEF SameBut
<1> QED
  BY <1>1, <1>3, <1>4, <1>5, <1>6, <1>7, FairFrame

\* After a knight the title has been looked at again.
LEMMA SoundAfterKnight ==
  ASSUME NEW g, Fair(g), NEW before, g.armyOwner = before.armyOwner
  PROVE  LET h == WithArmyUpdate(before, g)
         IN  Sound(h) /\ h.rules = g.rules /\ h.phase = g.phase
<1> DEFINE h == WithArmyUpdate(before, g)
<1>1. Match(g) /\ g.knights \in [Player -> Nat] /\ Titled(g.armyOwner, g.hasLargestArmy)
      /\ Scored(g.score, g.buildings, g.hasLongestRoad, g.hasLargestArmy)
  BY DEF Fair, Solid
<1>2. /\ SameBut(g, h, {"score", "hasLargestArmy", "armyOwner"})
      /\ ArmyTitle(g.knights, h.hasLargestArmy, h.armyOwner)
      /\ Scored(h.score, g.buildings, g.hasLongestRoad, h.hasLargestArmy)
  BY <1>1, ArmyUpdated
<1> HIDE DEF h
<1>3. /\ h.thief = g.thief /\ h.turn = g.turn /\ h.trades = g.trades /\ h.phase = g.phase
      /\ h.hand = g.hand /\ h.bank = g.bank /\ h.rules = g.rules /\ h.cards = g.cards
      /\ h.hasLongestRoad = g.hasLongestRoad /\ h.knights = g.knights
      /\ h.roads = g.roads /\ h.buildings = g.buildings
      /\ h.roadOwner = g.roadOwner /\ h.deck = g.deck /\ Match(h)
  BY <1>2 DEF SameBut, Fields
<1> QED
  BY <1>2, <1>3 DEF Sound, Fair, Solid, ArmyTitle, h

-----------------------------------------------------------------------------
(* Building.                                                               *)

LEMMA FairAfterRoad ==
  ASSUME NEW g, Fair(g), NEW p \in Player, NEW e \in Edge, NEW cost \in Bundle,
         g.roads[e] = NoOne, Cardinality(RoadsOf(g, p)) < MaxRoads, Has(g.hand[p], cost),
         Quiet(g.trades), g.phase.type \notin {"SETUP_PLACEMENT", "DISCARDING"}
  PROVE  LET h == RoadBuilt(g, p, e, cost)
         IN  /\ Fair(h) /\ Keeps(g, h) /\ h.phase = g.phase /\ h.trades = g.trades
             /\ h.roads = [g.roads EXCEPT ![e] = p] /\ h.buildings = g.buildings
<1> DEFINE laid == [g EXCEPT !.roads[e] = p]
           k == Pays(laid, p, cost)
           h == RefreshLongestRoad(k)
<1>1. /\ Solid(g) /\ Match(g) /\ Purse(g.hand, g.bank) /\ Layout(g.roads, g.buildings)
      /\ Due(g.phase) /\ Scored(g.score, g.buildings, g.hasLongestRoad, g.hasLargestArmy)
  BY DEF Fair, Solid, Timely
<1>2. SameBut(g, laid, {"roads"}) /\ laid.roads = [g.roads EXCEPT ![e] = p]
  BY <1>1 DEF Match, SameBut, Fields
<1> HIDE DEF laid
<1>3. Match(laid) /\ laid.hand = g.hand /\ laid.bank = g.bank
  BY <1>2 DEF SameBut, Fields
<1>4. SameBut(laid, k, {"hand", "bank"}) /\ Purse(k.hand, k.bank)
  BY <1>1, <1>3, PurseKept
<1>5. RoadBuilt(g, p, e, cost) = h
  BY DEF RoadBuilt, laid
<1> HIDE DEF k
<1>6. /\ SameBut(g, k, {"hand", "bank", "roads", "buildings", "score", "plightApplied"})
      /\ k.roads = laid.roads /\ k.buildings = g.buildings /\ k.score = g.score
  BY <1>2, <1>4 DEF SameBut, Fields
<1>7. Layout([g.roads EXCEPT ![e] = p], g.buildings)
  BY <1>1, LayoutAfterRoad DEF RoadsOf, Laid
<1>8. Layout(k.roads, k.buildings)
  BY <1>2, <1>6, <1>7
<1>9. Scored(k.score, k.buildings, g.hasLongestRoad, g.hasLargestArmy)
  BY <1>1, <1>6
<1>10. /\ Solid(h) /\ Keeps(g, h)
       /\ h.phase = g.phase /\ h.trades = g.trades
       /\ h.roads = k.roads /\ h.buildings = k.buildings
  BY <1>1, <1>4, <1>6, <1>8, <1>9, SolidRefreshed
<1> HIDE DEF h
<1>11. Timely(h.phase, h.bank, h.hand, h.trades)
  BY <1>1, <1>10, CalmIsTimely
<1>12. Settling(h.phase, h.turn, h.roads, h.buildings)
  BY <1>10 DEF Settling
<1> QED
  BY <1>2, <1>5, <1>6, <1>10, <1>11, <1>12 DEF Fair

LEMMA FairAfterSettlement ==
  ASSUME NEW g, Fair(g), NEW p \in Player, NEW v \in Vertex, ValidBuildSettlement(g, p, v)
  PROVE  Fair(SettlementBuilt(g, p, v)) /\ Keeps(g, SettlementBuilt(g, p, v))
<1> DEFINE laid == [g EXCEPT !.buildings[v] = Building(p, "settlement")]
           paid == Pays(laid, p, SettlementCost)
           k == Scores(paid, p, 1)
           h == RefreshLongestRoad(k)
<1>1. /\ Solid(g) /\ Match(g) /\ Purse(g.hand, g.bank) /\ Layout(g.roads, g.buildings)
      /\ Due(g.phase) /\ Scored(g.score, g.buildings, g.hasLongestRoad, g.hasLargestArmy)
  BY DEF Fair, Solid, Timely
<1>2. Quiet(g.trades) /\ g.phase.type = "ACTION_PHASE"
  BY NothingStaged DEF ValidBuildSettlement, Active, ActivePlayer, Unlocked, Is
<1>3. SettlementCost \in Bundle /\ Has(g.hand[p], SettlementCost)
  BY SizesFit DEF ValidBuildSettlement, Bundle
<1>4. /\ g.buildings[v] = NoBuilding /\ \A w \in Neighbours(v) : g.buildings[w] = NoBuilding
      /\ Cardinality(Built(g.buildings, p, "settlement")) < MaxSettlements
  BY DEF ValidBuildSettlement, CanPlaceSettlement, BuildingsOf, Built
<1>5. /\ SameBut(g, laid, {"buildings"})
      /\ laid.buildings = [g.buildings EXCEPT ![v] = Building(p, "settlement")]
  BY <1>1 DEF Match, SameBut, Fields
<1>6. SettlementBuilt(g, p, v) = h
  BY DEF SettlementBuilt
<1> HIDE DEF laid
<1>7. Match(laid) /\ laid.hand = g.hand /\ laid.bank = g.bank
  BY <1>5 DEF SameBut, Fields
<1>8. SameBut(laid, paid, {"hand", "bank"}) /\ Purse(paid.hand, paid.bank)
  BY <1>1, <1>3, <1>7, PurseKept
<1> HIDE DEF paid
<1>9. SameBut(paid, k, {"score"}) /\ k.score = [paid.score EXCEPT ![p] = @ + 1]
  BY <1>8 DEF Scores, Match, SameBut, Fields
<1> HIDE DEF k
<1>10. /\ SameBut(g, k, {"hand", "bank", "roads", "buildings", "score", "plightApplied"})
       /\ k.roads = g.roads /\ k.buildings = laid.buildings /\ paid.score = g.score
       /\ k.hand = paid.hand /\ k.bank = paid.bank
  BY <1>5, <1>8, <1>9 DEF SameBut, Fields
<1>11. /\ Layout(g.roads, laid.buildings)
       /\ Worth(laid.buildings, p) = Worth(g.buildings, p) + 1
       /\ \A q \in Player \ {p} : Worth(laid.buildings, q) = Worth(g.buildings, q)
  BY <1>1, <1>4, <1>5, LayoutAfterSettlement
<1>12. Scored([g.score EXCEPT ![p] = @ + 1], laid.buildings, g.hasLongestRoad, g.hasLargestArmy)
  BY <1>1, <1>11, ScoreAfterBuilding
<1>13. /\ Scored(k.score, k.buildings, g.hasLongestRoad, g.hasLargestArmy)
       /\ Purse(k.hand, k.bank) /\ Layout(k.roads, k.buildings)
  BY <1>8, <1>9, <1>10, <1>11, <1>12
<1>14. /\ Solid(h) /\ Keeps(g, h) /\ h.phase = g.phase /\ h.trades = g.trades
  BY <1>1, <1>10, <1>13, SolidRefreshed
<1> HIDE DEF h
<1>15. Timely(h.phase, h.bank, h.hand, h.trades)
  BY <1>1, <1>2, <1>14, CalmIsTimely
<1>16. Settling(h.phase, h.turn, h.roads, h.buildings)
  BY <1>2, <1>14 DEF Settling
<1> QED
  BY <1>6, <1>14, <1>15, <1>16 DEF Fair

LEMMA FairAfterCity ==
  ASSUME NEW g, Fair(g), NEW p \in Player, NEW v \in Vertex, ValidUpgradeCity(g, p, v)
  PROVE  Fair(CityUpgraded(g, p, v)) /\ Keeps(g, CityUpgraded(g, p, v))
<1> DEFINE laid == [g EXCEPT !.buildings[v] = Building(p, "city")]
           paid == Pays(laid, p, CityCost)
           h == Scores(paid, p, 1)
<1>1. /\ Solid(g) /\ Match(g) /\ Purse(g.hand, g.bank) /\ Layout(g.roads, g.buildings)
      /\ Due(g.phase) /\ Scored(g.score, g.buildings, g.hasLongestRoad, g.hasLargestArmy)
      /\ RoadTitle(g.roads, g.buildings, g.hasLongestRoad, g.roadOwner)
  BY DEF Fair, Solid, Timely
<1>2. Quiet(g.trades) /\ g.phase.type = "ACTION_PHASE"
  BY NothingStaged DEF ValidUpgradeCity, Active, ActivePlayer, Unlocked, Is
<1>3. CityCost \in Bundle /\ Has(g.hand[p], CityCost)
  BY SizesFit DEF ValidUpgradeCity, Bundle
<1>4. /\ g.buildings[v] = Building(p, "settlement")
      /\ Cardinality(Built(g.buildings, p, "city")) < MaxCities
  BY DEF ValidUpgradeCity, BuildingsOf, Built
<1>5. /\ SameBut(g, laid, {"buildings"})
      /\ laid.buildings = [g.buildings EXCEPT ![v] = Building(p, "city")]
  BY <1>1 DEF Match, SameBut, Fields
<1>6. CityUpgraded(g, p, v) = h
  BY DEF CityUpgraded
<1> HIDE DEF laid
<1>7. Match(laid) /\ laid.hand = g.hand /\ laid.bank = g.bank
  BY <1>5 DEF SameBut, Fields
<1>8. SameBut(laid, paid, {"hand", "bank"}) /\ Purse(paid.hand, paid.bank)
  BY <1>1, <1>3, <1>7, PurseKept
<1> HIDE DEF paid
<1>9. SameBut(paid, h, {"score"}) /\ h.score = [paid.score EXCEPT ![p] = @ + 1]
  BY <1>8 DEF Scores, Match, SameBut, Fields
<1> HIDE DEF h
<1>10. /\ SameBut(g, h, {"hand", "bank", "buildings", "score"})
       /\ h.buildings = laid.buildings /\ paid.score = g.score
       /\ h.hand = paid.hand /\ h.bank = paid.bank
  BY <1>5, <1>8, <1>9 DEF SameBut, Fields
<1>11. /\ Layout(g.roads, laid.buildings)
       /\ Worth(laid.buildings, p) = Worth(g.buildings, p) + 1
       /\ \A q \in Player \ {p} : Worth(laid.buildings, q) = Worth(g.buildings, q)
       /\ \A w \in Vertex : laid.buildings[w].owner = g.buildings[w].owner
  BY <1>1, <1>4, <1>5, LayoutAfterCity
<1>12. Scored([g.score EXCEPT ![p] = @ + 1], laid.buildings, g.hasLongestRoad, g.hasLargestArmy)
  BY <1>1, <1>11, ScoreAfterBuilding
<1>13. RoadTitle(g.roads, laid.buildings, g.hasLongestRoad, g.roadOwner)
  BY <1>1, <1>11, OwnersDecide DEF RoadTitle
<1>14. /\ h.thief = g.thief /\ h.turn = g.turn /\ h.trades = g.trades /\ h.phase = g.phase
       /\ h.rules = g.rules /\ h.cards = g.cards /\ h.armyOwner = g.armyOwner
       /\ h.hasLongestRoad = g.hasLongestRoad /\ h.knights = g.knights
       /\ h.hasLargestArmy = g.hasLargestArmy
       /\ h.roads = g.roads /\ h.roadOwner = g.roadOwner /\ h.deck = g.deck /\ Match(h)
  BY <1>10 DEF SameBut, Fields
<1>15. Solid(h)
  BY <1>1, <1>8, <1>9, <1>10, <1>11, <1>12, <1>13, <1>14 DEF Solid
<1>16. Timely(h.phase, h.bank, h.hand, h.trades)
  BY <1>1, <1>2, <1>14, CalmIsTimely
<1>17. Settling(h.phase, h.turn, h.roads, h.buildings)
  BY <1>2, <1>14 DEF Settling
<1> QED
  BY <1>6, <1>14, <1>15, <1>16, <1>17 DEF Fair, Keeps

\* Both roads of the card find a free edge, and pieces for them.
LEMMA FairAfterRoadBuilding ==
  ASSUME NEW g, Fair(g), NEW p \in Player, NEW i \in DOMAIN g.cards, NEW edges,
         ValidPlayRoadBuilding(g, p, i, edges)
  PROVE  Fair(AfterRoadBuilding(g, p, i, edges)) /\ Keeps(g, AfterRoadBuilding(g, p, i, edges))
<1> DEFINE played == DevelopmentCardPlayed(g, p, i)
           first == RoadBuilt(played, p, edges[1], Nothing)
           second == RoadBuilt(first, p, edges[2], Nothing)
<1>1. /\ edges \in RoadBuildingOptions(g, p)
      /\ Cardinality(RoadsOf(g, p)) + Len(edges) <= MaxRoads
      /\ ValidDevelopmentCardPlay(g, p, i, "ROAD_BUILDING")
  BY DEF ValidPlayRoadBuilding
<1>2. /\ Fair(played) /\ Quiet(played.trades) /\ Keeps(g, played)
      /\ played.phase.type \in {"WAITING_FOR_ROLL", "ACTION_PHASE"}
      /\ played.roads = g.roads /\ played.buildings = g.buildings
  BY <1>1, FairAfterCard
<1>3. AfterRoadBuilding(g, p, i, edges) = IF Len(edges) = 1 THEN first ELSE second
  BY DEF AfterRoadBuilding
<1>4. \/ Len(edges) = 1 /\ edges[1] \in Edge /\ g.roads[edges[1]] = NoOne
      \/ /\ Len(edges) = 2 /\ edges[1] \in Edge /\ g.roads[edges[1]] = NoOne
         /\ edges[2] \in Edge /\ edges[1] # edges[2] /\ g.roads[edges[2]] = NoOne
  <2>1. Match(g) /\ g.roads \in [Edge -> Player \cup {NoOne}]
    BY DEF Fair, Solid, Layout
  <2>2. \A e, f \in Edge : e # f /\ CanBuildRoad([g EXCEPT !.roads[e] = p], p, f)
                             => g.roads[f] = NoOne
    <3> SUFFICES ASSUME NEW e \in Edge, NEW f \in Edge, e # f,
                        CanBuildRoad([g EXCEPT !.roads[e] = p], p, f)
                 PROVE  g.roads[f] = NoOne
      OBVIOUS
    <3>1. [g EXCEPT !.roads[e] = p].roads = [g.roads EXCEPT ![e] = p]
      BY <2>1 DEF Match, Fields
    <3>2. [g.roads EXCEPT ![e] = p][f] = NoOne
      BY <3>1 DEF CanBuildRoad
    <3> QED
      BY <2>1, <3>2
  <2>3. \A e \in Edge : CanBuildRoad(g, p, e) => g.roads[e] = NoOne
    BY DEF CanBuildRoad
  <2> DEFINE one == {e \in Edge : CanBuildRoad(g, p, e)}
             ones == {<<e>> : e \in one}
             twos == {ef \in one \X Edge :
                        /\ ef[1] # ef[2]
                        /\ CanBuildRoad([g EXCEPT !.roads[ef[1]] = p], p, ef[2])}
  <2>4. edges \in ones \/ edges \in twos
    BY <1>1 DEF RoadBuildingOptions
  <2>5. CASE edges \in ones
    <3>1. PICK e \in one : edges = <<e>>
      BY <2>5
    <3> QED
      BY <2>3, <3>1
  <2>6. CASE edges \in twos
    <3>1. /\ edges \in one \X Edge /\ edges[1] # edges[2]
          /\ CanBuildRoad([g EXCEPT !.roads[edges[1]] = p], p, edges[2])
      BY <2>6
    <3>2. edges[1] \in one /\ edges[2] \in Edge /\ Len(edges) = 2
      BY <3>1
    <3> QED
      BY <2>2, <2>3, <3>1, <3>2
  <2> QED
    BY <2>4, <2>5, <2>6
<1>5. Nothing \in Bundle /\ \A q \in Player : \A h : Fair(h) => Has(h.hand[q], Nothing)
  <2>1. Nothing \in Bundle /\ \A r \in Resource : Nothing[r] = 0
    BY SmallBundles
  <2>2. ASSUME NEW q \in Player, NEW h, Fair(h) PROVE Has(h.hand[q], Nothing)
    <3>1. h.hand[q] \in Bundle
      BY <2>2 DEF Fair, Solid, Purse
    <3>2. \A r \in Resource : h.hand[q][r] \in Nat
      BY <3>1 DEF Bundle
    <3> QED
      BY <2>1, <3>2 DEF Has
  <2> QED
    BY <2>1, <2>2
<1>6. /\ IsFiniteSet(RoadsOf(g, p)) /\ Cardinality(RoadsOf(g, p)) \in Nat /\ MaxRoads \in Nat
  BY CountsExact, SizesFit DEF RoadsOf, Laid
<1>7. Cardinality(RoadsOf(played, p)) < MaxRoads
  <2>1. RoadsOf(played, p) = RoadsOf(g, p)
    BY <1>2 DEF RoadsOf
  <2> QED
    BY <1>1, <1>4, <1>6, <2>1
<1>8. edges[1] \in Edge /\ played.roads[edges[1]] = NoOne
  BY <1>2, <1>4
<1>9. played.phase.type # "SETUP_PLACEMENT" /\ Has(played.hand[p], Nothing)
  BY <1>2, <1>5
<1> HIDE DEF played
<1>10. /\ Fair(first) /\ Keeps(played, first) /\ first.phase = played.phase
       /\ first.trades = played.trades
       /\ first.roads = [played.roads EXCEPT ![edges[1]] = p]
  BY <1>2, <1>5, <1>7, <1>8, <1>9, FairAfterRoad
<1>11. CASE Len(edges) = 1
  BY <1>2, <1>3, <1>10, <1>11 DEF Keeps
<1>12. CASE Len(edges) # 1
  <2> HIDE DEF first
  <2>1. /\ Len(edges) = 2 /\ edges[1] \in Edge /\ g.roads[edges[1]] = NoOne
        /\ edges[2] \in Edge /\ edges[1] # edges[2] /\ g.roads[edges[2]] = NoOne
    BY <1>4, <1>12
  <2>2. first.roads[edges[2]] = NoOne
    <3>1. g.roads \in [Edge -> Player \cup {NoOne}]
      BY DEF Fair, Solid, Layout
    <3> QED
      BY <1>2, <1>10, <2>1, <3>1
  <2>3. Cardinality(RoadsOf(first, p)) < MaxRoads
    <3>1. g.roads \in [Edge -> Player \cup {NoOne}]
      BY DEF Fair, Solid, Layout
    <3>2. RoadsOf(first, p) = RoadsOf(g, p) \cup {edges[1]}
      BY <1>2, <1>10, <2>1, <3>1 DEF RoadsOf
    <3>3. Cardinality(RoadsOf(first, p)) <= Cardinality(RoadsOf(g, p)) + 1
      <4> DEFINE S == RoadsOf(g, p)
      <4>1. IsFiniteSet(S) /\ Cardinality(S) \in Nat
        BY <1>6
      <4> HIDE DEF S
      <4>2. Cardinality(S \cup {edges[1]}) \in {Cardinality(S), Cardinality(S) + 1}
        BY <4>1, FS_AddElement
      <4> QED
        BY <3>2, <4>1, <4>2 DEF S
    <3>4. Cardinality(RoadsOf(first, p)) \in Nat
      BY CountsExact DEF RoadsOf, Laid
    <3> QED
      BY <1>1, <1>6, <2>1, <3>3, <3>4
  <2>4. /\ Has(first.hand[p], Nothing) /\ Quiet(first.trades)
        /\ first.phase.type \notin {"SETUP_PLACEMENT", "DISCARDING"}
    BY <1>2, <1>5, <1>9, <1>10
  <2>5. Fair(second) /\ Keeps(first, second)
    BY <1>5, <1>10, <2>1, <2>2, <2>3, <2>4, FairAfterRoad
  <2> HIDE DEF second
  <2> QED
    BY <1>2, <1>3, <1>10, <1>12, <2>5 DEF Keeps
<1> QED
  BY <1>11, <1>12

\* The plight is over, or still to come.
Spared(g) == g.rules.plightTurn = 0 \/ g.plightApplied \/ g.turn < g.rules.plightTurn

LEMMA FairAfterPlight ==
  ASSUME NEW g, Fair(g), NEW h \in PlightOutcomes(g)
  PROVE  /\ Fair(h) /\ Keeps(g, h) /\ h.phase = g.phase /\ Spared(h)
         /\ g.phase.type = "SETUP_PLACEMENT" => h = g
<1> DEFINE owners == {p \in Player : \E v \in Vertex : g.buildings[v].owner = p}
<1>3. g.phase.type = "SETUP_PLACEMENT" => Spared(g)
  <2>1. g.rules.plightTurn \in Nat /\ Settling(g.phase, g.turn, g.roads, g.buildings)
    BY DEF Fair, Solid
  <2> SUFFICES ASSUME g.phase.type = "SETUP_PLACEMENT" PROVE Spared(g)
    OBVIOUS
  <2>2. g.turn = 0
    BY <2>1 DEF Settling
  <2> QED
    BY <2>1, <2>2 DEF Spared
<1>1. CASE Spared(g)
  <2>1. h = g
    BY <1>1 DEF PlightOutcomes, Spared
  <2> QED
    BY <1>1, <2>1 DEF Keeps
<1>2. CASE ~Spared(g)
  <2>1. PICK lost \in [owners -> Vertex] :
           /\ h = PlightStruck(g, lost)
           /\ \A p \in owners : g.buildings[lost[p]].owner = p
    BY <1>2 DEF PlightOutcomes, Spared
  <2> DEFINE worth(p) == IF p \notin DOMAIN lost THEN 0
                         ELSE IF g.buildings[lost[p]].type = "city" THEN 2 ELSE 1
             after == [v \in Vertex |-> IF \E p \in DOMAIN lost : lost[p] = v THEN NoBuilding
                                        ELSE g.buildings[v]]
             score == [p \in Player |-> Max({0, g.score[p] - worth(p)})]
             k == [g EXCEPT
                     !.plightApplied = TRUE,
                     !.buildings = [v \in Vertex |->
                         IF \E p \in DOMAIN lost : lost[p] = v THEN NoBuilding ELSE @[v]],
                     !.score = [p \in Player |-> Max({0, @[p] - worth(p)})]]
  <2>2. h = RefreshLongestRoad(k)
    BY <2>1 DEF PlightStruck
  <2>3. /\ Solid(g) /\ Match(g) /\ Purse(g.hand, g.bank) /\ Layout(g.roads, g.buildings)
        /\ Scored(g.score, g.buildings, g.hasLongestRoad, g.hasLargestArmy)
        /\ Timely(g.phase, g.bank, g.hand, g.trades)
    BY DEF Fair, Solid
  <2>4. /\ SameBut(g, k, {"plightApplied", "buildings", "score"})
        /\ k.buildings = after /\ k.score = score /\ k.plightApplied = TRUE
    <3> HIDE DEF worth
    <3> QED
      BY <2>3 DEF Match, SameBut, Fields
  <2> HIDE DEF k
  <2>5. /\ DOMAIN lost = owners /\ owners \subseteq Player
        /\ \A p \in owners : lost[p] \in Vertex /\ g.buildings[lost[p]].owner = p
    BY <2>1
  <2>6. /\ Layout(g.roads, after)
        /\ \A p \in Player :
              Worth(after, p) = Worth(g.buildings, p)
                                - (IF p \notin DOMAIN lost THEN 0
                                   ELSE IF g.buildings[lost[p]].type = "city" THEN 2 ELSE 1)
    <3>1. \A p \in Player : p \in DOMAIN lost <=> \E v \in Vertex : g.buildings[v].owner = p
      BY <2>5
    <3>2. DOMAIN lost \subseteq Player
      BY <2>5
    <3>3. \A p \in DOMAIN lost : lost[p] \in Vertex /\ g.buildings[lost[p]].owner = p
      BY <2>5
    <3> HIDE DEF owners
    <3> QED
      BY <2>3, <3>1, <3>2, <3>3, LayoutAfterPlight
  <2> HIDE DEF after, owners
  <2>7. Scored(score, after, g.hasLongestRoad, g.hasLargestArmy)
    <3>1. ASSUME NEW p \in Player
          PROVE  score[p] = Worth(after, p) + Prize(g.hasLongestRoad[p]) + Prize(g.hasLargestArmy[p])
      <4>1. worth(p) \in Nat /\ Worth(after, p) = Worth(g.buildings, p) - worth(p)
        BY <2>6
      <4>2. score[p] = Max({0, g.score[p] - worth(p)})
        OBVIOUS
      <4> DEFINE n == g.score[p] - worth(p)
                 prizes == Prize(g.hasLongestRoad[p]) + Prize(g.hasLargestArmy[p])
      <4> HIDE DEF worth, score
      <4>3. prizes \in Nat
        BY Prizes
      <4>4. g.score[p] = Worth(g.buildings, p) + Prize(g.hasLongestRoad[p]) + Prize(g.hasLargestArmy[p])
        BY <2>3 DEF Scored
      <4>5. n = Worth(after, p) + prizes /\ n \in Nat
        BY <4>1, <4>3, <4>4, WorthNat, Prizes
      <4> HIDE DEF n
      <4>6. {0, n} \subseteq Int /\ IsFiniteSet({0, n}) /\ {0, n} # {}
        <5>1. IsFiniteSet({}) /\ IsFiniteSet({} \cup {0}) /\ IsFiniteSet({0} \cup {n})
          BY FS_EmptySet, FS_AddElement, FS_Singleton
        <5>2. {0} \cup {n} = {0, n}
          OBVIOUS
        <5> QED
          BY <4>5, <5>1, <5>2
      <4>7. Max({0, n}) \in {0, n} /\ 0 <= Max({0, n}) /\ n <= Max({0, n})
        BY <4>6, MaxIs
      <4>8. Max({0, n}) = n
        BY <4>5, <4>7
      <4> QED
        BY <4>1, <4>2, <4>3, <4>4, <4>5, <4>8, WorthNat, Prizes DEF n
    <3>2. score \in [Player -> Int]
      <4>1. \A p \in Player : score[p] \in Int
        <5> SUFFICES ASSUME NEW p \in Player PROVE score[p] \in Int
          OBVIOUS
        <5> HIDE DEF score
        <5>1. /\ Worth(after, p) \in Nat
              /\ Prize(g.hasLongestRoad[p]) \in Nat /\ Prize(g.hasLargestArmy[p]) \in Nat
          BY WorthNat, Prizes
        <5> QED
          BY <3>1, <5>1
      <4> QED
        BY <4>1
    <3> QED
      BY <2>3, <3>1, <3>2 DEF Scored
  <2> HIDE DEF score
  <2>8. /\ SameBut(g, k, {"hand", "bank", "roads", "buildings", "score", "plightApplied"})
        /\ k.hand = g.hand /\ k.bank = g.bank /\ k.roads = g.roads
    BY <2>4 DEF SameBut, Fields
  <2>9. /\ Purse(k.hand, k.bank) /\ Layout(k.roads, k.buildings)
        /\ Scored(k.score, k.buildings, g.hasLongestRoad, g.hasLargestArmy)
    BY <2>3, <2>4, <2>6, <2>7, <2>8
  <2>10. /\ Solid(h) /\ Keeps(g, h)
         /\ h.phase = g.phase /\ h.trades = g.trades /\ h.hand = k.hand /\ h.bank = k.bank
    BY <2>2, <2>3, <2>8, <2>9, SolidRefreshed
  <2>11. Settling(h.phase, h.turn, h.roads, h.buildings)
    BY <1>2, <1>3, <2>10 DEF Settling
  <2>12. h.plightApplied = TRUE
    <3>1. Scored(k.score, k.buildings, k.hasLongestRoad, k.hasLargestArmy) /\ Match(k)
      BY <2>4, <2>9 DEF SameBut, Fields
    <3>2. SameBut(k, h, {"score", "hasLongestRoad", "roadOwner"})
      BY <2>2, <3>1, RoadRefreshed
    <3> QED
      BY <2>4, <3>2 DEF SameBut, Fields
  <2>13. Spared(h)
    BY <2>12 DEF Spared
  <2> QED
    BY <1>2, <1>3, <2>3, <2>8, <2>10, <2>11, <2>13 DEF Fair
<1> QED
  BY <1>1, <1>2, <1>3

LEMMA SetupOrderLength ==
  /\ Len(SetupOrder) = 2 * Len(PlayerOrder) /\ Len(PlayerOrder) \in Nat \ {0}
  /\ PlayerOrder[1] \in Player /\ SetupOrder[1] = PlayerOrder[1]
  /\ \A i \in 1..Len(SetupOrder) : SetupOrder[i] \in Player
<1> DEFINE back == [i \in DOMAIN PlayerOrder |-> PlayerOrder[Len(PlayerOrder) + 1 - i]]
<1>1. PlayerOrder \in Seq(Player) /\ Len(PlayerOrder) \in Nat \ {0}
  BY PlayersSeated, PlayersFinite
<1>2. DOMAIN PlayerOrder = 1..Len(PlayerOrder) /\ \A i \in DOMAIN PlayerOrder : PlayerOrder[i] \in Player
  BY <1>1
<1>3. back \in [1..Len(PlayerOrder) -> Player]
  <2>1. \A i \in 1..Len(PlayerOrder) : Len(PlayerOrder) + 1 - i \in 1..Len(PlayerOrder)
    BY <1>1
  <2> QED
    BY <1>2, <2>1
<1>4. back \in Seq(Player) /\ Len(back) = Len(PlayerOrder)
  BY <1>1, <1>3
<1> HIDE DEF back
<1>5. /\ Len(PlayerOrder \o back) = Len(PlayerOrder) + Len(back)
      /\ PlayerOrder \o back \in Seq(Player) /\ (PlayerOrder \o back)[1] = PlayerOrder[1]
  BY <1>1, <1>4
<1>6. \A i \in 1..Len(PlayerOrder \o back) : (PlayerOrder \o back)[i] \in Player
  BY <1>5
<1> QED
  BY <1>1, <1>2, <1>4, <1>5, <1>6 DEF SetupOrder, back

\* One more placement: a settlement and a road that touches it.
LEMMA SettlingAfter ==
  ASSUME NEW roads, NEW buildings, Layout(roads, buildings), NEW turn, NEW phase,
         Settling(phase, turn, roads, buildings), phase.type = "SETUP_PLACEMENT",
         phase.index \in Nat, NEW p \in Player, phase.active = p,
         NEW v \in Vertex, NEW e \in Edge, v \in e, buildings[v] = NoBuilding
  PROVE  Settling(SetupPhase(SetupOrder[phase.index + 2], phase.index + 1), turn,
                  [roads EXCEPT ![e] = p], [buildings EXCEPT ![v] = Building(p, "settlement")])
<1> DEFINE n == phase.index
           laid == [roads EXCEPT ![e] = p]
           built == [buildings EXCEPT ![v] = Building(p, "settlement")]
           next == SetupPhase(SetupOrder[n + 2], n + 1)
<1>1. /\ phase = SetupPhase(SetupOrder[n + 1], n) /\ turn = 0
      /\ Cardinality(Taken(buildings)) <= n
      /\ \A q \in Player :
            /\ Cardinality(Built(buildings, q, "settlement")) <= Cardinality(Placements(q, n))
            /\ Cardinality(Laid(roads, q)) <= Cardinality(Placements(q, n))
      /\ \A f \in Edge : roads[f] # NoOne => \E w \in f : buildings[w] # NoBuilding
  BY DEF Settling
<1>2. SetupOrder[n + 1] = p
  BY <1>1 DEF SetupPhase
<1>3. /\ roads \in [Edge -> Player \cup {NoOne}] /\ DOMAIN buildings = Vertex
  BY DEF Layout
<1>4. Building(p, "settlement") # NoBuilding /\ p # NoOne
  BY PlayersSeated DEF Building, NoBuilding
<1>5. n \in Nat
  OBVIOUS
<1>6. ASSUME NEW S, IsFiniteSet(S), NEW x, NEW k \in Nat, Cardinality(S) <= k
      PROVE  Cardinality(S \cup {x}) <= k + 1
  <2>1. Cardinality(S) \in Nat
    BY <1>6, FS_CardinalityType
  <2>2. Cardinality(S \cup {x}) \in {Cardinality(S), Cardinality(S) + 1}
    BY <1>6, FS_AddElement
  <2> QED
    BY <1>6, <2>1, <2>2
<1>7. Cardinality(Taken(built)) <= n + 1
  <2>1. Taken(built) = Taken(buildings) \cup {v}
    BY <1>3, <1>4 DEF Taken
  <2>2. IsFiniteSet(Taken(buildings))
    BY BoardFits, FS_Subset DEF Taken
  <2> QED
    BY <1>1, <1>5, <1>6, <2>1, <2>2
<1>8. ASSUME NEW q \in Player
      PROVE  /\ IsFiniteSet(Placements(q, n)) /\ Cardinality(Placements(q, n)) \in Nat
             /\ Cardinality(Placements(q, n + 1)) =
                   Cardinality(Placements(q, n)) + (IF q = p THEN 1 ELSE 0)
  <2>1. IsFiniteSet(1..n)
    BY <1>5, FS_Interval
  <2>2. IsFiniteSet(Placements(q, n)) /\ n + 1 \notin Placements(q, n)
    BY <1>5, <2>1, FS_Subset DEF Placements
  <2>3. Cardinality(Placements(q, n)) \in Nat
    BY <2>2, FS_CardinalityType
  <2>4. Placements(q, n + 1) = Placements(q, n) \cup (IF q = p THEN {n + 1} ELSE {})
    <3>1. 1..(n + 1) = (1..n) \cup {n + 1}
      BY <1>5
    <3> QED
      BY <1>2, <3>1 DEF Placements
  <2>5. CASE q = p
    <3> DEFINE P == Placements(q, n)
               P2 == Placements(q, n + 1)
    <3>1. P2 = P \cup {n + 1}
      BY <2>4, <2>5
    <3>2. IsFiniteSet(P) /\ n + 1 \notin P
      BY <2>2
    <3> HIDE DEF P, P2
    <3>3. Cardinality(P2) = Cardinality(P) + 1
      BY <3>1, <3>2, FS_AddElement
    <3> QED
      BY <2>2, <2>3, <2>5, <3>3 DEF P, P2
  <2>6. CASE q # p
    BY <2>2, <2>3, <2>4, <2>6
  <2> QED
    BY <2>2, <2>3, <2>5, <2>6
<1>9. ASSUME NEW q \in Player
      PROVE  /\ Cardinality(Built(built, q, "settlement")) <= Cardinality(Placements(q, n + 1))
             /\ Cardinality(Laid(laid, q)) <= Cardinality(Placements(q, n + 1))
  <2>1. /\ IsFiniteSet(Built(buildings, q, "settlement")) /\ IsFiniteSet(Laid(roads, q))
    BY BoardFits, FS_Subset DEF Built, Laid
  <2>2. CASE q = p
    <3>1. Built(built, q, "settlement") = Built(buildings, q, "settlement") \cup {v}
      BY <1>3, <2>2 DEF Built
    <3>2. Laid(laid, q) = Laid(roads, q) \cup {e}
      BY <1>3, <2>2 DEF Laid
    <3> DEFINE k == Cardinality(Placements(q, n))
    <3>3. k \in Nat /\ Cardinality(Placements(q, n + 1)) = k + 1
      BY <1>8, <2>2
    <3>4. /\ Cardinality(Built(buildings, q, "settlement")) <= k
          /\ Cardinality(Laid(roads, q)) <= k
      BY <1>1
    <3> HIDE DEF k
    <3>5. Cardinality(Built(built, q, "settlement")) <= k + 1
      BY <1>6, <2>1, <3>1, <3>3, <3>4
    <3>6. Cardinality(Laid(laid, q)) <= k + 1
      BY <1>6, <2>1, <3>2, <3>3, <3>4
    <3> QED
      BY <3>3, <3>5, <3>6
  <2>3. CASE q # p
    <3>1. Built(built, q, "settlement") \subseteq Built(buildings, q, "settlement")
      BY <1>3, <2>3 DEF Built, Building
    <3>2. Laid(laid, q) \subseteq Laid(roads, q)
      BY <1>3, <2>3 DEF Laid
    <3>3. /\ Cardinality(Built(built, q, "settlement")) <= Cardinality(Built(buildings, q, "settlement"))
          /\ Cardinality(Laid(laid, q)) <= Cardinality(Laid(roads, q))
          /\ Cardinality(Built(buildings, q, "settlement")) \in Nat
          /\ Cardinality(Laid(roads, q)) \in Nat
          /\ Cardinality(Built(built, q, "settlement")) \in Nat
          /\ Cardinality(Laid(laid, q)) \in Nat
      BY <2>1, <3>1, <3>2, FS_Subset, FS_CardinalityType
    <3> QED
      BY <1>1, <1>8, <2>3, <3>3
  <2> QED
    BY <2>2, <2>3
<1>10. \A f \in Edge : laid[f] # NoOne => \E w \in f : built[w] # NoBuilding
  <2> SUFFICES ASSUME NEW f \in Edge, laid[f] # NoOne PROVE \E w \in f : built[w] # NoBuilding
    OBVIOUS
  <2>1. f \subseteq Vertex
    BY BoardFits
  <2>2. CASE f = e
    BY <1>3, <1>4, <2>1, <2>2
  <2>3. CASE f # e
    <3>1. roads[f] # NoOne
      BY <1>3, <2>3
    <3>2. PICK w \in f : buildings[w] # NoBuilding
      BY <1>1, <3>1
    <3>3. built[w] # NoBuilding
      BY <1>3, <1>4, <2>1, <3>2
    <3> QED
      BY <3>3
  <2> QED
    BY <2>2, <2>3
<1>11. next.index = n + 1 /\ next = SetupPhase(SetupOrder[next.index + 1], next.index)
  BY <1>5 DEF SetupPhase
<1> HIDE DEF n, laid, built, next
<1> QED
  <2>1. next.index + 1 = n + 2
    BY <1>5, <1>11
  <2>2. Settling(next, turn, laid, built)
    BY <1>1, <1>7, <1>9, <1>10, <1>11 DEF Settling
  <2> QED
    BY <2>2 DEF n, laid, built, next

\* A placement of the second half draws what the bank still has for it.
LEMMA SetupAffordable ==
  ASSUME NEW g, Fair(g), Is(g, "SETUP_PLACEMENT"), NEW v \in Vertex,
         NEW gain, gain = IF g.phase.index >= Len(PlayerOrder) THEN StartingResources(v) ELSE Nothing
  PROVE  /\ gain \in Bundle /\ Has(g.bank, gain)
         /\ g.phase.index \in 0..(2 * Len(PlayerOrder) - 1)
         /\ \A r \in Resource :
               g.bank[r] - gain[r] >=
                  BankSize - (IF g.phase.index + 1 <= Len(PlayerOrder) THEN 0
                              ELSE 3 * (g.phase.index + 1 - Len(PlayerOrder)))
<1> DEFINE n == Len(PlayerOrder)
           i == g.phase.index
<1>1. n \in Nat \ {0} /\ BankSize \in Nat /\ BankSize >= 3 * n
  BY SizesFit, SetupOrderLength
<1>2. /\ i \in 0..(2 * n - 1)
      /\ \A r \in Resource : g.bank[r] >= BankSize - (IF i <= n THEN 0 ELSE 3 * (i - n))
  BY DEF Fair, Timely, Opening, Is
<1>3. \A r \in Resource : g.bank[r] \in Nat
  BY DEF Fair, Solid, Purse, Bundle
<1> HIDE DEF n, i
<1>4. CASE i >= n
  <2>1. gain \in Bundle /\ \A r \in Resource : gain[r] <= 3
    BY <1>4, StartingResourcesFew DEF n, i
  <2>2. \A r \in Resource : gain[r] \in Nat
    BY <2>1 DEF Bundle
  <2>3. \A r \in Resource : g.bank[r] >= BankSize - 3 * (i - n)
    BY <1>1, <1>2, <1>3, <1>4
  <2>4. i \in Nat /\ i <= 2 * n - 1
    BY <1>1, <1>2
  <2>5. BankSize - 3 * (i - n) >= 3
    BY <1>1, <2>4
  <2>6. \A r \in Resource : g.bank[r] >= gain[r] /\ g.bank[r] - gain[r] >= BankSize - 3 * (i + 1 - n)
    BY <1>1, <1>3, <2>1, <2>2, <2>3, <2>4, <2>5
  <2>7. ~(i + 1 <= n)
    BY <1>1, <1>4, <2>4
  <2> QED
    BY <1>2, <2>1, <2>6, <2>7 DEF Has, n, i
<1>5. CASE ~(i >= n)
  <2>1. gain = Nothing
    BY <1>5 DEF n, i
  <2>2. gain \in Bundle /\ \A r \in Resource : gain[r] = 0
    BY <2>1, SmallBundles
  <2>3. i \in Nat /\ i <= n /\ i + 1 <= n
    BY <1>1, <1>2, <1>5
  <2>4. \A r \in Resource : g.bank[r] >= gain[r] /\ g.bank[r] - gain[r] >= BankSize
    BY <1>1, <1>2, <1>3, <2>2, <2>3
  <2> QED
    BY <1>1, <1>2, <2>2, <2>3, <2>4 DEF Has, n, i
<1> QED
  BY <1>4, <1>5

LEMMA FairAfterSetup ==
  ASSUME NEW g, Fair(g), NEW p \in Player, NEW v \in Vertex, NEW e \in Edge,
         ValidPlaceSetup(g, p, v, e)
  PROVE  /\ Fair(AfterSetup(g, p, v, e)) /\ Keeps(g, AfterSetup(g, p, v, e))
         /\ AfterSetup(g, p, v, e).buildings = [g.buildings EXCEPT ![v] = Building(p, "settlement")]
<1> DEFINE gain == IF g.phase.index >= Len(PlayerOrder) THEN StartingResources(v) ELSE Nothing
           laid == [g EXCEPT !.buildings[v] = Building(p, "settlement"), !.roads[e] = p]
           drawn == Draws(laid, p, gain)
           placed == Scores(drawn, p, 1)
           k == RefreshLongestRoad(placed)
           next == g.phase.index + 1
           phase == IF next < Len(SetupOrder) THEN SetupPhase(SetupOrder[next + 1], next)
                    ELSE RollPhase(PlayerOrder[1])
           h == [k EXCEPT !.phase = phase]
<1>1. /\ Solid(g) /\ Match(g) /\ Purse(g.hand, g.bank) /\ Layout(g.roads, g.buildings)
      /\ Scored(g.score, g.buildings, g.hasLongestRoad, g.hasLargestArmy)
      /\ g.bank \in Bundle
  BY DEF Fair, Solid, Purse
<1>2. Quiet(g.trades) /\ Is(g, "SETUP_PLACEMENT")
  BY NothingStaged DEF ValidPlaceSetup, Active, ActivePlayer, Unlocked, Is
<1>3. /\ g.buildings[v] = NoBuilding /\ \A w \in Neighbours(v) : g.buildings[w] = NoBuilding
      /\ Cardinality(Built(g.buildings, p, "settlement")) < MaxSettlements
      /\ g.roads[e] = NoOne /\ Cardinality(Laid(g.roads, p)) < MaxRoads
  BY DEF ValidPlaceSetup, CanPlaceSettlement, CanBuildSetupRoad, BuildingsOf, Built, RoadsOf, Laid
<1>4. AfterSetup(g, p, v, e) = h
  BY DEF AfterSetup, SetupPlaced
<1>5. /\ gain \in Bundle /\ Has(g.bank, gain)
      /\ g.phase.index \in 0..(2 * Len(PlayerOrder) - 1)
      /\ \A r \in Resource :
            g.bank[r] - gain[r] >= BankSize - (IF next <= Len(PlayerOrder) THEN 0
                                               ELSE 3 * (next - Len(PlayerOrder)))
  BY <1>2, SetupAffordable
<1> HIDE DEF gain, phase
<1>6. /\ SameBut(g, laid, {"buildings", "roads"})
      /\ laid.buildings = [g.buildings EXCEPT ![v] = Building(p, "settlement")]
      /\ laid.roads = [g.roads EXCEPT ![e] = p]
  BY <1>1 DEF Match, SameBut, Fields
<1> HIDE DEF laid
<1>7. Match(laid) /\ laid.hand = g.hand /\ laid.bank = g.bank
  BY <1>6 DEF SameBut, Fields
<1>8. /\ SameBut(laid, drawn, {"hand", "bank"}) /\ Purse(drawn.hand, drawn.bank)
      /\ \A r \in Resource : drawn.bank[r] = g.bank[r] - gain[r]
  BY <1>1, <1>5, <1>7, PurseKept
<1> HIDE DEF drawn
<1>9. SameBut(drawn, placed, {"score"}) /\ placed.score = [drawn.score EXCEPT ![p] = @ + 1]
  BY <1>8 DEF Scores, Match, SameBut, Fields
<1> HIDE DEF placed
<1>10. /\ SameBut(g, placed, {"hand", "bank", "roads", "buildings", "score", "plightApplied"})
       /\ placed.roads = laid.roads /\ placed.buildings = laid.buildings /\ drawn.score = g.score
       /\ placed.hand = drawn.hand /\ placed.bank = drawn.bank
  BY <1>6, <1>8, <1>9 DEF SameBut, Fields
<1>11. /\ Layout(g.roads, laid.buildings)
       /\ Worth(laid.buildings, p) = Worth(g.buildings, p) + 1
       /\ \A q \in Player \ {p} : Worth(laid.buildings, q) = Worth(g.buildings, q)
  BY <1>1, <1>3, <1>6, LayoutAfterSettlement
<1>12. Layout(laid.roads, laid.buildings)
  BY <1>3, <1>6, <1>11, LayoutAfterRoad
<1>13. Scored([g.score EXCEPT ![p] = @ + 1], laid.buildings, g.hasLongestRoad, g.hasLargestArmy)
  BY <1>1, <1>11, ScoreAfterBuilding
<1>14. /\ Scored(placed.score, placed.buildings, g.hasLongestRoad, g.hasLargestArmy)
       /\ Purse(placed.hand, placed.bank) /\ Layout(placed.roads, placed.buildings)
  BY <1>8, <1>9, <1>10, <1>12, <1>13
<1>15. /\ Solid(k) /\ Keeps(g, k) /\ k.trades = g.trades /\ k.bank = placed.bank
       /\ k.phase = g.phase /\ k.turn = g.turn
       /\ k.roads = placed.roads /\ k.buildings = placed.buildings
  BY <1>1, <1>10, <1>14, SolidRefreshed
<1> HIDE DEF k
<1>16. SameBut(k, h, {"phase"}) /\ h.phase = phase
  <2>1. Match(k)
    BY <1>15 DEF Solid
  <2> QED
    BY <2>1 DEF Match, SameBut, Fields
<1> HIDE DEF h
<1>17. /\ h.rules = k.rules /\ h.knights = k.knights /\ h.armyOwner = k.armyOwner
       /\ h.hand = k.hand /\ h.bank = k.bank /\ h.thief = k.thief /\ h.cards = k.cards
       /\ h.turn = k.turn /\ h.deck = k.deck /\ h.trades = k.trades
       /\ h.roads = k.roads /\ h.buildings = k.buildings
  BY <1>16 DEF SameBut, Fields
<1>18. Solid(h) /\ Keeps(k, h)
  <2>1. SameBut(k, h, {"phase", "turn", "hand", "bank", "thief", "cards", "deck",
                       "playedCardTurn", "trades", "plightApplied"})
    BY <1>16 DEF SameBut
  <2>3. h.phase.type \in {"GAME_OVER", "SETUP_PLACEMENT"} => h.phase.type = k.phase.type
    BY <1>2, <1>15, <1>16 DEF phase, SetupPhase, RollPhase, Is
  <2>2. /\ Purse(h.hand, h.bank) /\ h.thief \in Hex /\ h.cards \in Seq(Card) /\ h.turn \in Int
        /\ Stocked(h.deck, h.cards) /\ Deals(h.trades)
    BY <1>15, <1>17 DEF Solid
  <2> QED
    BY <1>15, <2>1, <2>2, <2>3, SolidFrame
<1>19. next \in Nat /\ Len(SetupOrder) = 2 * Len(PlayerOrder) /\ Len(PlayerOrder) \in Nat \ {0}
  BY <1>5, SetupOrderLength
<1>20. Opening(h.phase, h.bank)
  <2>1. CASE next < Len(SetupOrder)
    <3>1. h.phase = SetupPhase(SetupOrder[next + 1], next)
      BY <1>16, <2>1 DEF phase
    <3>2. h.phase.index = next
      BY <3>1 DEF SetupPhase
    <3>3. next \in 0..(2 * Len(PlayerOrder) - 1)
      BY <1>19, <2>1
    <3>4. \A r \in Resource : h.bank[r] = g.bank[r] - gain[r]
      BY <1>8, <1>10, <1>15, <1>17
    <3> HIDE DEF next
    <3> QED
      BY <1>5, <3>2, <3>3, <3>4 DEF Opening
  <2>2. CASE ~(next < Len(SetupOrder))
    BY <1>16, <2>2 DEF phase, RollPhase, Opening
  <2> QED
    BY <2>1, <2>2
<1>21. Due(h.phase) /\ Discarding(h.phase, h.hand)
  <2>1. next < Len(SetupOrder) => SetupOrder[next + 1] \in Player
    BY <1>19, SetupOrderLength
  <2> QED
    BY <1>16, <2>1, SetupOrderLength DEF phase, SetupPhase, RollPhase, Due, Discarding
<1>23. Settling(h.phase, h.turn, h.roads, h.buildings)
  <2>1. CASE next < Len(SetupOrder)
    <3>1. /\ h.phase = SetupPhase(SetupOrder[next + 1], next) /\ h.turn = g.turn
          /\ h.roads = [g.roads EXCEPT ![e] = p]
          /\ h.buildings = [g.buildings EXCEPT ![v] = Building(p, "settlement")]
      BY <1>6, <1>10, <1>15, <1>16, <1>17, <2>1 DEF phase
    <3>2. g.phase.active = p /\ g.phase.type = "SETUP_PLACEMENT" /\ v \in e
      BY <1>2 DEF ValidPlaceSetup, Active, ActivePlayer, Is
    <3>3. g.phase.index \in Nat /\ next + 1 = g.phase.index + 2
      BY <1>5
    <3>4. Settling(g.phase, g.turn, g.roads, g.buildings)
      BY DEF Fair
    <3>5. Settling(SetupPhase(SetupOrder[g.phase.index + 2], g.phase.index + 1), g.turn,
                  [g.roads EXCEPT ![e] = p], [g.buildings EXCEPT ![v] = Building(p, "settlement")])
      BY <1>1, <1>3, <3>2, <3>3, <3>4, SettlingAfter
    <3> QED
      BY <3>1, <3>3, <3>5
  <2>2. CASE ~(next < Len(SetupOrder))
    BY <1>16, <2>2 DEF phase, RollPhase, Settling
  <2> QED
    BY <2>1, <2>2
<1>22. Staged(h.phase, h.hand, h.trades)
  BY <1>2, <1>15, <1>17 DEF Staged, Quiet
<1>24. h.buildings = [g.buildings EXCEPT ![v] = Building(p, "settlement")]
  BY <1>6, <1>10, <1>15, <1>17
<1> QED
  BY <1>2, <1>4, <1>15, <1>16, <1>17, <1>18, <1>20, <1>21, <1>22, <1>23, <1>24
     DEF Fair, Timely, Keeps, Is

-----------------------------------------------------------------------------
(* Folds over a sequence, as a table of what they come to.                 *)

LEMMA AllNumbers ==
  ASSUME NEW S, 0 \in S, \A k \in Nat : k \in S => k + 1 \in S
  PROVE  Nat \subseteq S
<1>1. SUFFICES ASSUME Nat \ S # {} PROVE FALSE
  OBVIOUS
<1>2. PICK n \in Nat \ S : \A m \in Nat \ S : n <= m
  BY <1>1, LeastNumber
<1>3. n # 0 /\ n - 1 \in Nat /\ (n - 1) + 1 = n
  OBVIOUS
<1>4. n - 1 \in S
  BY <1>2, <1>3
<1> QED
  BY <1>3, <1>4

LEMMA Greatest ==
  ASSUME NEW n \in Nat, NEW s \in SUBSET (1..n), s # {}
  PROVE  Max(s) \in s /\ \A x \in s : x <= Max(s)
<1> DEFINE T == {n - x : x \in s}
<1>1. T \in SUBSET Nat /\ T # {}
  <2>1. \A x \in s : x \in 1..n
    OBVIOUS
  <2>2. \A x \in s : n - x \in Nat
    BY <2>1
  <2> QED
    BY <2>2
<1>2. PICK m \in T : \A k \in T : m <= k
  <2> HIDE DEF T
  <2> QED
    BY <1>1, LeastNumber
<1>3. PICK x \in s : m = n - x
  OBVIOUS
<1>6. \A y \in s : n - x <= n - y /\ y \in Nat
  BY <1>2, <1>3
<1>7. \A y \in s : y <= x
  <2> HIDE DEF T
  <2> QED
    BY <1>6
<1>4. \E z \in s : \A y \in s : z >= y
  BY <1>7
<1>5. Max(s) \in s /\ \A y \in s : Max(s) >= y
  BY <1>4 DEF Max
<1> QED
  BY <1>5

\* What FoldLeft makes of a sequence, from its beginnings: of those of length k
\* it makes h[1..k].
FoldTable(h, op, base, n) ==
  h = [s \in SUBSET (1..n) |-> IF s = {} THEN base ELSE op[<<h[s \ {Max(s)}], Max(s)>>]]

LEMMA FoldTableExists ==
  ASSUME NEW T, NEW base \in T, NEW n \in Nat, NEW op \in [T \X (1..n) -> T]
  PROVE  \E h \in [SUBSET (1..n) -> T] : FoldTable(h, op, base, n)
<1> DEFINE D == SUBSET (1..n)
           Def(h, s) == IF s = {} THEN base ELSE op[<<h[s \ {Max(s)}], Max(s)>>]
           Phi == [h \in [D -> T] |-> [s \in D |-> Def(h, s)]]
           rank == [s \in D |-> IF s = {} THEN 0 ELSE Max(s)]
<1>1. \A s \in D : s # {} => Max(s) \in s /\ Max(s) \in 1..n /\ \A x \in s : x <= Max(s)
  BY Greatest
<1>2. \A s \in D : s # {} => s \ {Max(s)} \in D
  OBVIOUS
<1>3. rank \in [D -> Nat] /\ \A s \in D : rank[s] <= n
  BY <1>1
<1>4. \A s \in D : s # {} => rank[s \ {Max(s)}] < rank[s]
  BY <1>1, <1>2
<1>5. \A h \in [D -> T], s \in D : Def(h, s) \in T
  BY <1>1, <1>2
<1> HIDE DEF Def
<1>6. Phi \in [[D -> T] -> [D -> T]]
  BY <1>5
<1>7. ASSUME NEW g \in [D -> T], NEW h \in [D -> T], NEW s \in D,
             \A y \in D : rank[y] < rank[s] => g[y] = h[y]
      PROVE  Phi[g][s] = Phi[h][s]
  <2>1. s # {} => g[s \ {Max(s)}] = h[s \ {Max(s)}]
    BY <1>2, <1>4, <1>7
  <2>2. Def(g, s) = Def(h, s)
    BY <2>1 DEF Def
  <2> QED
    BY <2>2
<1>8. T # {}
  OBVIOUS
<1> HIDE DEF D, Phi, rank
<1>9. \A g, h \in [D -> T] : \A s \in D :
         (\A y \in D : rank[y] < rank[s] => g[y] = h[y]) => Phi[g][s] = Phi[h][s]
  BY <1>7
<1>10. Descends(D, T, rank, n, Phi)
  BY <1>3, <1>6, <1>8, <1>9 DEF Descends
<1>11. PICK h \in [D -> T] : h = Phi[h]
  BY <1>10, RecursionSolved
<1> QED
  BY <1>11 DEF FoldTable, Phi, D, Def

LEMMA Beginnings ==
  ASSUME NEW n \in Nat
  PROVE  /\ 1..0 = {} /\ \A k \in 0..n : 1..k \in SUBSET (1..n)
         /\ \A k \in 0..n : k # n => /\ 1..(k + 1) # {} /\ Max(1..(k + 1)) = k + 1
                                     /\ (1..(k + 1)) \ {k + 1} = 1..k
                                     /\ k + 1 \in 1..n /\ k + 1 \in 0..n
<1>1. ASSUME NEW k \in 0..n, k # n PROVE Max(1..(k + 1)) = k + 1
  <2>1. 1..(k + 1) \in SUBSET (1..n) /\ 1..(k + 1) # {}
    BY <1>1
  <2>3. 1..(k + 1) \in SUBSET (1..(k + 1)) /\ k + 1 \in Nat /\ k + 1 \in 1..(k + 1)
    OBVIOUS
  <2>2. Max(1..(k + 1)) \in 1..(k + 1) /\ k + 1 <= Max(1..(k + 1))
    BY <2>1, <2>3, Greatest
  <2> QED
    BY <2>2
<1> QED
  BY <1>1

-----------------------------------------------------------------------------
(* The end of every command.                                               *)

Won(g) == (Is(g, "GAME_OVER") /\ g.phase.reason # "TURN_LIMIT") =>
              TrueVictoryPoints(g, g.phase.winner) >= g.rules.victoryPoints
Settled(g) == Sound(g) /\ WonInTime(g) /\ Won(g)
Open(g) == Sound(g) /\ ~Is(g, "GAME_OVER")

LEMMA VictoryPointsInt ==
  ASSUME NEW g, Sound(g), NEW p \in Player
  PROVE  TrueVictoryPoints(g, p) \in Int
<1>1. /\ Scored(g.score, g.buildings, g.hasLongestRoad, g.hasLargestArmy)
      /\ g.cards \in Seq(Card)
  BY DEF Sound, Fair, Solid
<1>2. g.score[p] \in Int
  BY <1>1 DEF Scored
<1> DEFINE mine == {i \in CardsOf(g, p) : g.cards[i].type = "VICTORY_POINT"}
<1>3. DOMAIN g.cards = 1..Len(g.cards) /\ Len(g.cards) \in Nat
  BY <1>1
<1>4. IsFiniteSet(1..Len(g.cards))
  BY <1>3, FS_Interval
<1>5. mine \subseteq 1..Len(g.cards)
  BY <1>3 DEF CardsOf
<1>6. Cardinality(mine) \in Nat
  <2> HIDE DEF mine
  <2> QED
    BY <1>4, <1>5, FS_Subset, FS_CardinalityType
<1> QED
  BY <1>2, <1>6 DEF TrueVictoryPoints, CardVictoryPoints

LEMMA KeepsOpen ==
  ASSUME NEW g, Open(g), NEW h, Fair(h), Keeps(g, h)
  PROVE  Open(h) /\ h.rules = g.rules
BY DEF Open, Sound, Keeps, Is

LEMMA EndedSettled ==
  ASSUME NEW g, Sound(g), NEW winner, NEW reason,
         reason = "TURN_LIMIT" \/ TrueVictoryPoints(g, winner) >= g.rules.victoryPoints
  PROVE  /\ Settled(GameOver(g, winner, reason)) /\ GameOver(g, winner, reason).rules = g.rules
         /\ GameOver(g, winner, reason).turn = g.turn
         /\ GameOver(g, winner, reason).plightApplied = g.plightApplied
         /\ Is(GameOver(g, winner, reason), "GAME_OVER")
<1> DEFINE h == GameOver(g, winner, reason)
<1>1. /\ Fair(h) /\ h.phase = OverPhase(winner, reason)
      /\ h.rules = g.rules /\ h.knights = g.knights /\ h.armyOwner = g.armyOwner
      /\ h.score = g.score /\ h.cards = g.cards
      /\ h.turn = g.turn /\ h.plightApplied = g.plightApplied
  BY FairAfterEnd DEF Sound
<1> HIDE DEF h
<1>2. Sound(h)
  BY <1>1 DEF Sound
<1>3. h.phase.type = "GAME_OVER" /\ h.phase.winner = winner /\ h.phase.reason = reason
  BY <1>1 DEF OverPhase
<1>4. TrueVictoryPoints(h, winner) = TrueVictoryPoints(g, winner)
  BY <1>1 DEF TrueVictoryPoints, CardVictoryPoints, CardsOf
<1> QED
  BY <1>1, <1>2, <1>3, <1>4 DEF Settled, WonInTime, Won, Is, h

LEMMA JudgedSettled ==
  ASSUME NEW g, Open(g), g.rules.victoryPoints \in Nat, NEW type, NEW h \in Judged(g, type)
  PROVE  /\ Settled(h) /\ h.rules = g.rules
         /\ Spared(g) => Spared(h)
         /\ Is(h, "GAME_OVER") \/ h = g
<1> DEFINE there == {p \in Player : TrueVictoryPoints(g, p) >= g.rules.victoryPoints}
           winner == WinnerByVictoryPoints(g)
<1>1. Sound(g) /\ ~Is(g, "GAME_OVER")
  BY DEF Open
<1>2. /\ winner = NoOne <=> there = {}
      /\ winner # NoOne => winner \in there
  BY FirstSeatedIs DEF WinnerByVictoryPoints
<1>3. CASE winner # NoOne
  <2>1. h = GameOver(g, winner, "VICTORY_POINTS")
    BY <1>3 DEF Judged
  <2>2. TrueVictoryPoints(g, winner) >= g.rules.victoryPoints
    BY <1>2, <1>3
  <2> HIDE DEF winner
  <2> QED
    BY <1>1, <2>1, <2>2, EndedSettled DEF Spared
<1>4. CASE winner = NoOne
  <2>1. \/ \E p \in AdjudicatedLeaders(g) : h = GameOver(g, p, "TURN_LIMIT")
        \/ h = g
    BY <1>4 DEF Judged
  <2>2. CASE h = g
    <3>1. \A p \in Player : ~(TrueVictoryPoints(g, p) >= g.rules.victoryPoints)
      BY <1>2, <1>4
    <3>2. \A p \in Player : TrueVictoryPoints(g, p) < g.rules.victoryPoints
      BY <1>1, <3>1, VictoryPointsInt
    <3> QED
      BY <1>1, <2>2, <3>2 DEF Settled, WonInTime, Won
  <2>3. CASE \E p \in AdjudicatedLeaders(g) : h = GameOver(g, p, "TURN_LIMIT")
    BY <1>1, <2>3, EndedSettled DEF Spared
  <2> QED
    BY <2>1, <2>2, <2>3
<1> QED
  BY <1>3, <1>4

LEMMA CommandSettles ==
  ASSUME NEW g, Open(g), g.rules.victoryPoints \in Nat, NEW type, NEW h \in AfterCommand(g, type)
  PROVE  /\ Settled(h) /\ h.rules = g.rules /\ Spared(h)
         /\ Is(h, "SETUP_PLACEMENT") => h = g
<1>1. PICK k \in PlightOutcomes(g) : h \in Judged(k, type)
  BY DEF AfterCommand
<1>2. /\ Fair(k) /\ Keeps(g, k) /\ Spared(k)
      /\ k.phase = g.phase /\ (g.phase.type = "SETUP_PLACEMENT" => k = g)
  BY FairAfterPlight DEF Open, Sound
<1>3. Open(k) /\ k.rules = g.rules
  BY <1>2, KeepsOpen
<1>4. /\ Settled(h) /\ h.rules = k.rules /\ Spared(h) /\ (Is(h, "GAME_OVER") \/ h = k)
  BY <1>1, <1>2, <1>3, JudgedSettled
<1> QED
  BY <1>2, <1>3, <1>4 DEF Is

-----------------------------------------------------------------------------
(* The inductive invariant and its steps.                                  *)

\* Until all are settled, only spots of the scenario are taken.
Sited(g, spots) == Is(g, "SETUP_PLACEMENT") => Taken(g.buildings) \subseteq spots

InGoodOrder ==
    /\ scenario \in Scenarios /\ game.rules = scenario.rules
    /\ Settled(game) /\ Spared(game) /\ Sited(game, SetupSpots(scenario))

LEMMA ReachSettles ==
  ASSUME InGoodOrder, NEW type, NEW states, Reach(type, states),
         \A g \in states : Open(g) /\ g.rules = game.rules /\ Sited(g, SetupSpots(scenario))
  PROVE  InGoodOrder'
<1>1. scenario' = scenario
  BY DEF Reach
<1>2. PICK g \in states : game' \in AfterCommand(g, type)
  BY DEF Reach
<1>3. Open(g) /\ g.rules = game.rules /\ Sited(g, SetupSpots(scenario))
  BY <1>2
<1>4. g.rules.victoryPoints \in Nat
  BY <1>3, ScenariosFit DEF InGoodOrder
<1>5. /\ Settled(game') /\ game'.rules = g.rules /\ Spared(game')
      /\ Is(game', "SETUP_PLACEMENT") => game' = g
  BY <1>2, <1>3, <1>4, CommandSettles
<1>6. Sited(game', SetupSpots(scenario))
  BY <1>3, <1>5 DEF Sited
<1> QED
  BY <1>1, <1>3, <1>5, <1>6 DEF InGoodOrder

\* A single outcome, and one that leaves the title of the army alone.
LEMMA OneOutcome ==
  ASSUME InGoodOrder, ~Is(game, "GAME_OVER"), ~Is(game, "SETUP_PLACEMENT"),
         NEW type, NEW states, Reach(type, states),
         \A g \in states : Fair(g) /\ Keeps(game, g)
  PROVE  InGoodOrder'
<1>1. Open(game)
  BY DEF InGoodOrder, Settled, Open
<1>2. \A g \in states : Open(g) /\ g.rules = game.rules
  BY <1>1, KeepsOpen
<1>3. \A g \in states : Sited(g, SetupSpots(scenario))
  BY DEF Keeps, Is, Sited
<1> QED
  BY <1>2, <1>3, ReachSettles

LEMMA OrderIsFair ==
  ASSUME InGoodOrder
  PROVE  Fair(game) /\ Sound(game)
BY DEF InGoodOrder, Settled, Sound

LEMMA SpotsAre ==
  ASSUME InGoodOrder, Is(game, "SETUP_PLACEMENT"), NEW s \in SetupsHere
  PROVE  s.vertex \in Vertex /\ s.edge \in Edge /\ s.vertex \in SetupSpots(scenario)
<1>1. game.phase.index \in 0..(2 * Len(PlayerOrder) - 1)
  BY OrderIsFair DEF Fair, Timely, Opening, Is
<1>2. game.phase.index + 1 \in 1..Len(SetupOrder)
  BY <1>1, SetupOrderLength
<1>3. scenario.setups \in [1..Len(SetupOrder) -> SUBSET [vertex : Vertex, edge : Edge]]
  BY ScenariosFit DEF InGoodOrder
<1>4. SetupsHere \in SUBSET [vertex : Vertex, edge : Edge]
  BY <1>2, <1>3 DEF SetupsHere
<1>5. s.vertex \in SetupSpots(scenario)
  BY <1>2 DEF SetupsHere, SetupSpots
<1> QED
  BY <1>4, <1>5

\* A settlement on one of the spots.
LEMMA PlacedSited ==
  ASSUME InGoodOrder, Is(game, "SETUP_PLACEMENT"), NEW p \in Player, NEW s \in SetupsHere,
         ValidPlaceSetup(game, p, s.vertex, s.edge)
  PROVE  LET g == AfterSetup(game, p, s.vertex, s.edge)
         IN  Open(g) /\ g.rules = game.rules /\ Sited(g, SetupSpots(scenario))
<1> DEFINE g == AfterSetup(game, p, s.vertex, s.edge)
<1>1. s.vertex \in Vertex /\ s.edge \in Edge /\ s.vertex \in SetupSpots(scenario)
  BY SpotsAre
<1>2. /\ Fair(g) /\ Keeps(game, g)
      /\ g.buildings = [game.buildings EXCEPT ![s.vertex] = Building(p, "settlement")]
  BY <1>1, OrderIsFair, FairAfterSetup
<1> HIDE DEF g
<1>3. Open(game) /\ Taken(game.buildings) \subseteq SetupSpots(scenario)
  BY DEF InGoodOrder, Settled, Open, Is, Sited
<1>4. Open(g) /\ g.rules = game.rules
  BY <1>2, <1>3, KeepsOpen
<1>5. Taken(g.buildings) \subseteq Taken(game.buildings) \cup {s.vertex}
  BY <1>2 DEF Taken
<1> QED
  BY <1>1, <1>3, <1>4, <1>5 DEF Sited, g

LEMMA RollsAreFair ==
  ASSUME NEW g, Fair(g), NEW p \in Player, ValidRollDice(g, p)
  PROVE  \A h \in Rolls(g, p) : Fair(h) /\ Keeps(g, h)
<1> SUFFICES ASSUME NEW h \in Rolls(g, p) PROVE Fair(h) /\ Keeps(g, h)
  OBVIOUS
<1>1. PICK sum \in scenario.sums, m \in (IF g.rules.diceDoubles THEN {1, 2} ELSE {1}) :
         h = AfterRoll(g, p, sum, m)
  BY DEF Rolls
<1>2. m \in Nat
  OBVIOUS
<1> QED
  BY <1>1, <1>2, FairAfterRoll

LEMMA TheftsAreFair ==
  ASSUME NEW g, Fair(g), NEW p \in Player, NEW h, NEW from, ValidMoveThief(g, p, h, from)
  PROVE  \A k \in Thefts(g, p, h, "ROLL_7", from) : Fair(k) /\ Keeps(g, k)
<1>1. h \in Hex /\ from \in Player \cup {NoOne} /\ from # p
  BY ThiefsHexes DEF ValidMoveThief
<1>2. Quiet(g.trades)
  BY NothingStaged DEF ValidMoveThief, Active, ActivePlayer, Unlocked
<1>3. g.phase.type = "MOVING_THIEF"
  BY DEF ValidMoveThief, Active, Is
<1> QED
  BY <1>1, <1>2, <1>3, FairAfterTheft

LEMMA SetupMoveSettles ==
  ASSUME InGoodOrder, SetupMove
  PROVE  InGoodOrder'
<1>1. Is(game, "SETUP_PLACEMENT")
  BY DEF SetupMove
<1>2. PICK p \in Player, s \in SetupsHere : PlaceSetup(p, s.vertex, s.edge)
  BY DEF SetupMove
<1>3. /\ ValidPlaceSetup(game, p, s.vertex, s.edge)
      /\ Reach("PLACE_SETUP", {AfterSetup(game, p, s.vertex, s.edge)})
  BY <1>2 DEF PlaceSetup, Command
<1>4. \A g \in {AfterSetup(game, p, s.vertex, s.edge)} :
         Open(g) /\ g.rules = game.rules /\ Sited(g, SetupSpots(scenario))
  BY <1>1, <1>3, PlacedSited
<1> QED
  BY <1>3, <1>4, ReachSettles

LEMMA TurnMoveSettles ==
  ASSUME InGoodOrder, TurnMove
  PROVE  InGoodOrder'
<1>1. PICK p \in Player :
        \/ RollDice(p) \/ EndTurn(p) \/ BuySpecialCard(p)
        \/ Pending(game, p) /\ \E b \in SubBundles(game.hand[p], game.phase.pending[p]) :
               DiscardResources(p, b)
        \/ \E h \in Hex, from \in Player \cup {NoOne} : MoveThief(p, h, from)
        \/ \E e \in Edge : BuildRoad(p, e)
        \/ \E v \in Vertex : BuildSettlement(p, v) \/ UpgradeCity(p, v)
        \/ \E r, s \in Resource : MaritimeTrade(p, r, s)
  BY DEF TurnMove
<1>f. Fair(game)
  BY OrderIsFair
<1>2. CASE RollDice(p)
  <2>1. ValidRollDice(game, p) /\ Reach("ROLL_DICE", Rolls(game, p))
    BY <1>2 DEF RollDice, Command
  <2>2. ~Is(game, "GAME_OVER") /\ ~Is(game, "SETUP_PLACEMENT")
    BY <2>1 DEF ValidRollDice, Active, Unlocked, Is
  <2> QED
    BY <1>f, <2>1, <2>2, RollsAreFair, OneOutcome
<1>3. CASE EndTurn(p)
  <2>1. ValidEndTurn(game, p) /\ Reach("END_TURN", {AfterEndTurn(game, p)})
    BY <1>3 DEF EndTurn, Command
  <2>2. ~Is(game, "GAME_OVER") /\ ~Is(game, "SETUP_PLACEMENT")
    BY <2>1 DEF ValidEndTurn, Active, Unlocked, Is
  <2>3. \A g \in {AfterEndTurn(game, p)} : Fair(g) /\ Keeps(game, g)
    BY <1>f, <2>1, FairAfterTurn
  <2> QED
    BY <2>1, <2>2, <2>3, OneOutcome
<1>4. CASE BuySpecialCard(p)
  <2>1. /\ ValidBuySpecialCard(game, p)
        /\ Reach("BUY_SPECIAL_CARD", {SpecialCardBought(game, p, type) : type \in InDeck(game)})
    BY <1>4 DEF BuySpecialCard, Command
  <2>2. ~Is(game, "GAME_OVER") /\ ~Is(game, "SETUP_PLACEMENT")
    BY <2>1 DEF ValidBuySpecialCard, Active, Unlocked, Is
  <2>3. \A g \in {SpecialCardBought(game, p, type) : type \in InDeck(game)} :
           Fair(g) /\ Keeps(game, g)
    BY <1>f, <2>1, FairAfterBuying
  <2> QED
    BY <2>1, <2>2, <2>3, OneOutcome
<1>5. ASSUME NEW b, DiscardResources(p, b)
      PROVE  InGoodOrder'
  <2>1. /\ ValidDiscardResources(game, p, b)
        /\ Reach("DISCARD_RESOURCES", {ResourcesDiscarded(game, p, b)})
    BY <1>5 DEF DiscardResources, Command
  <2>2. ~Is(game, "GAME_OVER") /\ ~Is(game, "SETUP_PLACEMENT")
    BY <2>1 DEF ValidDiscardResources, Unlocked, Pending, Is
  <2>3. \A g \in {ResourcesDiscarded(game, p, b)} : Fair(g) /\ Keeps(game, g)
    BY <1>f, <2>1, FairAfterDiscard
  <2> QED
    BY <2>1, <2>2, <2>3, OneOutcome
<1>6. ASSUME NEW h, NEW from, MoveThief(p, h, from)
      PROVE  InGoodOrder'
  <2>1. /\ ValidMoveThief(game, p, h, from)
        /\ Reach("MOVE_THIEF", Thefts(game, p, h, "ROLL_7", from))
    BY <1>6 DEF MoveThief, Command
  <2>2. ~Is(game, "GAME_OVER") /\ ~Is(game, "SETUP_PLACEMENT")
    BY <2>1 DEF ValidMoveThief, Active, Unlocked, Is
  <2> QED
    BY <1>f, <2>1, <2>2, TheftsAreFair, OneOutcome
<1>7. ASSUME NEW e \in Edge, BuildRoad(p, e)
      PROVE  InGoodOrder'
  <2>1. ValidBuildRoad(game, p, e) /\ Reach("BUILD_ROAD", {RoadBuilt(game, p, e, RoadCost)})
    BY <1>7 DEF BuildRoad, Command
  <2>2. /\ ~Is(game, "GAME_OVER") /\ ~Is(game, "SETUP_PLACEMENT")
        /\ Is(game, "ACTION_PHASE") /\ Unlocked(game, p)
    BY <2>1 DEF ValidBuildRoad, Active, Unlocked, Is
  <2>3. Quiet(game.trades)
    BY <1>f, <2>1, <2>2, NothingStaged DEF ValidBuildRoad, Active, ActivePlayer
  <2>4. /\ RoadCost \in Bundle /\ game.roads[e] = NoOne
        /\ Cardinality(RoadsOf(game, p)) < MaxRoads /\ Has(game.hand[p], RoadCost)
    BY <2>1, SizesFit DEF ValidBuildRoad, CanBuildRoad, Bundle
  <2>5. game.phase.type \notin {"SETUP_PLACEMENT", "DISCARDING"}
    BY <2>2 DEF Is
  <2>6. \A g \in {RoadBuilt(game, p, e, RoadCost)} : Fair(g) /\ Keeps(game, g)
    <3>1. LET h == RoadBuilt(game, p, e, RoadCost)
          IN  Fair(h) /\ Keeps(game, h) /\ h.phase = game.phase /\ h.trades = game.trades
              /\ h.roads = [game.roads EXCEPT ![e] = p] /\ h.buildings = game.buildings
      BY <1>f, <2>3, <2>4, <2>5, FairAfterRoad
    <3> QED
      BY <3>1
  <2> QED
    BY <2>1, <2>2, <2>6, OneOutcome
<1>8. ASSUME NEW v \in Vertex, BuildSettlement(p, v)
      PROVE  InGoodOrder'
  <2>1. /\ ValidBuildSettlement(game, p, v)
        /\ Reach("BUILD_SETTLEMENT", {SettlementBuilt(game, p, v)})
    BY <1>8 DEF BuildSettlement, Command
  <2>2. ~Is(game, "GAME_OVER") /\ ~Is(game, "SETUP_PLACEMENT")
    BY <2>1 DEF ValidBuildSettlement, Active, Unlocked, Is
  <2>3. \A g \in {SettlementBuilt(game, p, v)} : Fair(g) /\ Keeps(game, g)
    BY <1>f, <2>1, FairAfterSettlement
  <2> QED
    BY <2>1, <2>2, <2>3, OneOutcome
<1>9. ASSUME NEW v \in Vertex, UpgradeCity(p, v)
      PROVE  InGoodOrder'
  <2>1. ValidUpgradeCity(game, p, v) /\ Reach("UPGRADE_CITY", {CityUpgraded(game, p, v)})
    BY <1>9 DEF UpgradeCity, Command
  <2>2. ~Is(game, "GAME_OVER") /\ ~Is(game, "SETUP_PLACEMENT")
    BY <2>1 DEF ValidUpgradeCity, Active, Unlocked, Is
  <2>3. \A g \in {CityUpgraded(game, p, v)} : Fair(g) /\ Keeps(game, g)
    BY <1>f, <2>1, FairAfterCity
  <2> QED
    BY <2>1, <2>2, <2>3, OneOutcome
<1>10. ASSUME NEW r \in Resource, NEW s \in Resource, MaritimeTrade(p, r, s)
       PROVE  InGoodOrder'
  <2>1. /\ ValidMaritimeTrade(game, p, r, s)
        /\ Reach("MARITIME_TRADE", {MaritimeTraded(game, p, r, s, MaritimeTradeRatio(game, p, r))})
    BY <1>10 DEF MaritimeTrade, Command
  <2>2. ~Is(game, "GAME_OVER") /\ ~Is(game, "SETUP_PLACEMENT")
    BY <2>1 DEF ValidMaritimeTrade, Active, Unlocked, Is
  <2>3. \A g \in {MaritimeTraded(game, p, r, s, MaritimeTradeRatio(game, p, r))} :
           Fair(g) /\ Keeps(game, g)
    BY <1>f, <2>1, FairAfterMaritime
  <2> QED
    BY <2>1, <2>2, <2>3, OneOutcome
<1> QED
  BY <1>1, <1>2, <1>3, <1>4, <1>5, <1>6, <1>7, <1>8, <1>9, <1>10

LEMMA CardMoveSettles ==
  ASSUME InGoodOrder, CardMove
  PROVE  InGoodOrder'
<1>1. PICK p \in Player, i \in Cards :
        \/ \E h \in Hex, from \in Player \cup {NoOne} : PlayKnight(p, i, h, from)
        \/ /\ ValidDevelopmentCardPlay(game, p, i, "ROAD_BUILDING")
           /\ \E edges \in RoadBuildingOptions(game, p) : PlayRoadBuilding(p, i, edges)
        \/ \E r \in Resource : PlayMonopoly(p, i, r)
        \/ \E r, s \in Resource : PlayYearOfPlenty(p, i, r, s)
  BY DEF CardMove
<1>f. Fair(game) /\ i \in DOMAIN game.cards
  BY OrderIsFair DEF Cards
<1>2. ASSUME NEW h, NEW from, PlayKnight(p, i, h, from)
      PROVE  InGoodOrder'
  <2> DEFINE played == DevelopmentCardPlayed(game, p, i)
             states == {WithArmyUpdate(game, g) : g \in Thefts(played, p, h, "KNIGHT", from)}
  <2>1. ValidPlayKnight(game, p, i, h, from) /\ Reach("PLAY_KNIGHT", states)
    BY <1>2 DEF PlayKnight, Command
  <2>2. ValidDevelopmentCardPlay(game, p, i, "KNIGHT") /\ ValidThiefMove(game, p, h, from)
    BY <2>1 DEF ValidPlayKnight
  <2>3. ~Is(game, "GAME_OVER")
    BY <2>2 DEF ValidDevelopmentCardPlay, Active, Unlocked
  <2>4. /\ Fair(played) /\ Quiet(played.trades)
        /\ played.phase.type \in {"WAITING_FOR_ROLL", "ACTION_PHASE"}
        /\ played.rules = game.rules /\ played.armyOwner = game.armyOwner
    BY <1>f, <2>2, FairAfterCard
  <2>5. h \in Hex /\ from \in Player \cup {NoOne} /\ from # p
    BY <2>2, ThiefsHexes
  <2> HIDE DEF played
  <2>6. ASSUME NEW g \in Thefts(played, p, h, "KNIGHT", from)
        PROVE  /\ Open(WithArmyUpdate(game, g)) /\ WithArmyUpdate(game, g).rules = game.rules
               /\ Sited(WithArmyUpdate(game, g), SetupSpots(scenario))
    <3>1. /\ Fair(g) /\ Keeps(played, g)
      BY <2>4, <2>5, FairAfterTheft
    <3>2. /\ g.rules = game.rules /\ g.armyOwner = game.armyOwner
          /\ g.phase.type \notin {"GAME_OVER", "SETUP_PLACEMENT"}
      BY <2>4, <3>1 DEF Keeps
    <3> DEFINE k == WithArmyUpdate(game, g)
    <3>3. Sound(k) /\ k.rules = g.rules /\ k.phase = g.phase
      BY <3>1, <3>2, SoundAfterKnight
    <3> QED
      BY <3>2, <3>3 DEF Open, Is, Sited
  <2>7. \A k \in states : Open(k) /\ k.rules = game.rules /\ Sited(k, SetupSpots(scenario))
    BY <2>6
  <2> QED
    BY <2>1, <2>7, ReachSettles
<1>3. ASSUME NEW edges, PlayRoadBuilding(p, i, edges)
      PROVE  InGoodOrder'
  <2>1. /\ ValidPlayRoadBuilding(game, p, i, edges)
        /\ Reach("PLAY_ROAD_BUILDING", {AfterRoadBuilding(game, p, i, edges)})
    BY <1>3 DEF PlayRoadBuilding, Command
  <2>2. ~Is(game, "GAME_OVER") /\ ~Is(game, "SETUP_PLACEMENT")
    BY <2>1 DEF ValidPlayRoadBuilding, ValidDevelopmentCardPlay, Active, Unlocked, Is
  <2>3. \A g \in {AfterRoadBuilding(game, p, i, edges)} : Fair(g) /\ Keeps(game, g)
    BY <1>f, <2>1, FairAfterRoadBuilding
  <2> QED
    BY <2>1, <2>2, <2>3, OneOutcome
<1>4. ASSUME NEW r \in Resource, PlayMonopoly(p, i, r)
      PROVE  InGoodOrder'
  <2> DEFINE played == DevelopmentCardPlayed(game, p, i)
  <2>1. /\ ValidDevelopmentCardPlay(game, p, i, "MONOPOLY")
        /\ Reach("PLAY_MONOPOLY", {MonopolyPlayed(played, p, r)})
    BY <1>4 DEF PlayMonopoly, Command
  <2>2. ~Is(game, "GAME_OVER") /\ ~Is(game, "SETUP_PLACEMENT")
    BY <2>1 DEF ValidDevelopmentCardPlay, Active, Unlocked, Is
  <2>3. /\ Fair(played) /\ Quiet(played.trades) /\ Keeps(game, played)
        /\ played.phase.type \in {"WAITING_FOR_ROLL", "ACTION_PHASE"}
    BY <1>f, <2>1, FairAfterCard
  <2> HIDE DEF played
  <2>4. Fair(MonopolyPlayed(played, p, r)) /\ Keeps(played, MonopolyPlayed(played, p, r))
    BY <2>3, FairAfterMonopoly
  <2>5. \A g \in {MonopolyPlayed(played, p, r)} : Fair(g) /\ Keeps(game, g)
    BY <2>3, <2>4 DEF Keeps
  <2> QED
    BY <2>1, <2>2, <2>5, OneOutcome
<1>5. ASSUME NEW r \in Resource, NEW s \in Resource, PlayYearOfPlenty(p, i, r, s)
      PROVE  InGoodOrder'
  <2> DEFINE played == DevelopmentCardPlayed(game, p, i)
             after == YearOfPlentyPlayed(played, p, Plus(One(r), One(s)))
  <2>1. ValidPlayYearOfPlenty(game, p, i, r, s) /\ Reach("PLAY_YEAR_OF_PLENTY", {after})
    BY <1>5 DEF PlayYearOfPlenty, Command
  <2>2. /\ ValidDevelopmentCardPlay(game, p, i, "YEAR_OF_PLENTY")
        /\ Has(game.bank, Plus(One(r), One(s)))
    BY <2>1 DEF ValidPlayYearOfPlenty
  <2>3. ~Is(game, "GAME_OVER") /\ ~Is(game, "SETUP_PLACEMENT")
    BY <2>2 DEF ValidDevelopmentCardPlay, Active, Unlocked, Is
  <2>4. /\ Fair(played) /\ Quiet(played.trades) /\ Keeps(game, played)
        /\ played.phase.type \in {"WAITING_FOR_ROLL", "ACTION_PHASE"}
        /\ played.bank = game.bank
    BY <1>f, <2>2, FairAfterCard
  <2> HIDE DEF played
  <2>5. Fair(after) /\ Keeps(played, after)
    BY <2>2, <2>4, FairAfterPlenty
  <2> HIDE DEF after
  <2>6. \A g \in {after} : Fair(g) /\ Keeps(game, g)
    BY <2>4, <2>5 DEF Keeps
  <2> QED
    BY <2>1, <2>3, <2>6, OneOutcome
<1> QED
  BY <1>1, <1>2, <1>3, <1>4, <1>5

\* An offer is staged in the action phase only.
LEMMA StagedInAction ==
  ASSUME NEW g, Fair(g), NEW t \in TradeId, Collecting(g, t), ~Is(g, "GAME_OVER")
  PROVE  g.phase = ActionPhase(g.trades[t].from) /\ ~Is(g, "SETUP_PLACEMENT")
<1>1. g.phase = ActionPhase(g.trades[t].from)
  BY DEF Fair, Timely, Staged, Collecting, IsStaged, Is
<1> QED
  BY <1>1 DEF ActionPhase, Is

LEMMA TradeMoveSettles ==
  ASSUME InGoodOrder, TradeMove
  PROVE  InGoodOrder'
<1>1. PICK p \in Player, t \in TradeId :
        \/ \E o \in Offers, to \in SUBSET (Player \ {p}) : OfferTrade(p, t, o, to)
        \/ \E response \in {"WANTS_ACCEPT", "REJECTED"} : RespondTrade(p, t, response)
        \/ \E q \in Player : FinalizeTrade(p, t, q)
        \/ CancelTrade(p, t) \/ ExpireTrade(p, t)
  BY DEF TradeMove
<1>f. Fair(game)
  BY OrderIsFair
<1>2. ASSUME NEW o \in Offers, NEW to \in SUBSET (Player \ {p}), OfferTrade(p, t, o, to)
      PROVE  InGoodOrder'
  <2>1. /\ ValidOfferTrade(game, p, t, o, to)
        /\ Reach("OFFER_TRADE", {TradeOffered(game, t, NewTrade(p, o, to))})
    BY <1>2 DEF OfferTrade, Command
  <2>2. ~Is(game, "GAME_OVER") /\ ~Is(game, "SETUP_PLACEMENT")
    BY <2>1 DEF ValidOfferTrade, Active, Unlocked, Is
  <2>3. \A g \in {TradeOffered(game, t, NewTrade(p, o, to))} : Fair(g) /\ Keeps(game, g)
    BY <1>f, <2>1, FairAfterOffer
  <2> QED
    BY <2>1, <2>2, <2>3, OneOutcome
<1>3. ASSUME NEW response \in {"WANTS_ACCEPT", "REJECTED"}, RespondTrade(p, t, response)
      PROVE  InGoodOrder'
  <2>1. /\ ValidRespondTrade(game, p, t, response)
        /\ Reach("RESPOND_TRADE", {AfterResponse(game, p, t, response)})
    BY <1>3 DEF RespondTrade, Command
  <2>2. ~Is(game, "GAME_OVER") /\ ~Is(game, "SETUP_PLACEMENT")
    BY <1>f, <2>1, StagedInAction DEF ValidRespondTrade, Unlocked
  <2>3. \A g \in {AfterResponse(game, p, t, response)} : Fair(g) /\ Keeps(game, g)
    BY <1>f, <2>1, FairAfterResponse
  <2> QED
    BY <2>1, <2>2, <2>3, OneOutcome
<1>4. ASSUME NEW q \in Player, FinalizeTrade(p, t, q)
      PROVE  InGoodOrder'
  <2>1. /\ ValidFinalizeTrade(game, p, t, q)
        /\ Reach("FINALIZE_TRADE", {TradeAccepted(game, t, q)})
    BY <1>4 DEF FinalizeTrade, Command
  <2>2. ~Is(game, "GAME_OVER") /\ ~Is(game, "SETUP_PLACEMENT")
    BY <1>f, <2>1, StagedInAction DEF ValidFinalizeTrade, Chosen, Mine
  <2>3. \A g \in {TradeAccepted(game, t, q)} : Fair(g) /\ Keeps(game, g)
    BY <1>f, <2>1, FairAfterTrade
  <2> QED
    BY <2>1, <2>2, <2>3, OneOutcome
<1>5. CASE CancelTrade(p, t) \/ ExpireTrade(p, t)
  <2>1. /\ Mine(game, p, t)
        /\ \E type : \/ Reach(type, {TradeCancelled(game, t)})
                     \/ Reach(type, {TradeClosed(game, t)})
    BY <1>5 DEF CancelTrade, ExpireTrade, Command
  <2>2. Collecting(game, t) /\ ~Is(game, "GAME_OVER") /\ ~Is(game, "SETUP_PLACEMENT")
    BY <1>f, <2>1, StagedInAction DEF Mine
  <2>3. \A g \in {TradeCancelled(game, t), TradeClosed(game, t)} : Fair(g) /\ Keeps(game, g)
    BY <1>f, <2>2, FairAfterClosing
  <2>4. PICK type : Reach(type, {TradeCancelled(game, t)}) \/ Reach(type, {TradeClosed(game, t)})
    BY <2>1
  <2>5. CASE Reach(type, {TradeCancelled(game, t)})
    BY <2>2, <2>3, <2>5, OneOutcome
  <2>6. CASE Reach(type, {TradeClosed(game, t)})
    BY <2>2, <2>3, <2>6, OneOutcome
  <2> QED
    BY <2>4, <2>5, <2>6
<1> QED
  BY <1>1, <1>2, <1>3, <1>4, <1>5

\* The clock plays what a player could: its outcomes are theirs.
LEMMA TurnClockSettles ==
  ASSUME InGoodOrder, TurnClock
  PROVE  InGoodOrder'
<1>1. PICK p \in Player : \/ ClockPlaces(p) \/ ClockRolls(p) \/ ClockDiscards(p)
                          \/ ClockMovesThief(p) \/ ClockEndsTurn(p)
  BY DEF TurnClock
<1>f. Fair(game)
  BY OrderIsFair
<1>2. CASE ClockPlaces(p)
  <2> DEFINE states == {AfterSetup(game, p, s.vertex, s.edge) :
               s \in {s \in SetupsHere : ValidPlaceSetup(game, p, s.vertex, s.edge)}}
  <2>1. Is(game, "SETUP_PLACEMENT") /\ Reach("PLACE_SETUP", states)
    BY <1>2 DEF ClockPlaces, Clock
  <2>2. ASSUME NEW s \in SetupsHere, ValidPlaceSetup(game, p, s.vertex, s.edge)
        PROVE  LET g == AfterSetup(game, p, s.vertex, s.edge)
               IN  Open(g) /\ g.rules = game.rules /\ Sited(g, SetupSpots(scenario))
    BY <2>1, <2>2, PlacedSited
  <2>3. \A g \in states : Open(g) /\ g.rules = game.rules /\ Sited(g, SetupSpots(scenario))
    BY <2>2
  <2> QED
    BY <2>1, <2>3, ReachSettles
<1>3. CASE ClockRolls(p)
  <2>1. ValidRollDice(game, p) /\ Reach("ROLL_DICE", Rolls(game, p))
    BY <1>3 DEF ClockRolls, Clock
  <2>2. ~Is(game, "GAME_OVER") /\ ~Is(game, "SETUP_PLACEMENT")
    BY <2>1 DEF ValidRollDice, Active, Unlocked, Is
  <2> QED
    BY <1>f, <2>1, <2>2, RollsAreFair, OneOutcome
<1>4. CASE ClockDiscards(p)
  <2> DEFINE states == {ResourcesDiscarded(game, p, b) :
               b \in {b \in SubBundles(game.hand[p], game.phase.pending[p]) :
                         ValidDiscardResources(game, p, b)}}
  <2>1. Pending(game, p) /\ Reach("DISCARD_RESOURCES", states)
    BY <1>4 DEF ClockDiscards, Clock
  <2>2. ~Is(game, "GAME_OVER") /\ ~Is(game, "SETUP_PLACEMENT")
    BY <2>1 DEF Pending, Is
  <2>3. \A g \in states : Fair(g) /\ Keeps(game, g)
    BY <1>f, FairAfterDiscard
  <2> QED
    BY <2>1, <2>2, <2>3, OneOutcome
<1>5. CASE ClockMovesThief(p)
  <2>1. PICK h \in ValidThiefHexes(game), from \in Player \cup {NoOne} :
           /\ ValidMoveThief(game, p, h, from)
           /\ Reach("MOVE_THIEF", Thefts(game, p, h, "ROLL_7", from))
    BY <1>5 DEF ClockMovesThief, Clock
  <2>2. ~Is(game, "GAME_OVER") /\ ~Is(game, "SETUP_PLACEMENT")
    BY <2>1 DEF ValidMoveThief, Active, Unlocked, Is
  <2> QED
    BY <1>f, <2>1, <2>2, TheftsAreFair, OneOutcome
<1>6. CASE ClockEndsTurn(p)
  <2> DEFINE states == {AfterEndTurn(g, p) : g \in {g \in Freed(game, p) : ValidEndTurn(g, p)}}
  <2>1. Is(game, "ACTION_PHASE") /\ Reach("END_TURN", states)
    BY <1>6 DEF ClockEndsTurn, Clock
  <2>2. Open(game) /\ game.rules.victoryPoints \in Nat
    BY <2>1, ScenariosFit DEF InGoodOrder, Settled, Open, Is
  <2>3. ASSUME NEW g \in Freed(game, p) PROVE Sound(g) /\ g.rules = game.rules
    <3> DEFINE staged == ActiveCollectingTrades(game, p)
               t == CHOOSE t \in staged : TRUE
    <3>1. CASE staged = {}
      BY <2>2, <2>3, <3>1 DEF Freed, Open
    <3>2. CASE staged # {}
      <4>1. g \in AfterCommand(TradeClosed(game, t), "EXPIRE_TRADE")
        BY <2>3, <3>2 DEF Freed
      <4>2. t \in staged
        BY <3>2
      <4> HIDE DEF t
      <4>3. t \in TradeId /\ Collecting(game, t)
        BY <1>f, <4>2 DEF ActiveCollectingTrades, Fair, Solid, Deals
      <4>4. Fair(TradeClosed(game, t)) /\ Keeps(game, TradeClosed(game, t))
        BY <1>f, <4>3, FairAfterClosing
      <4>5. Open(TradeClosed(game, t)) /\ TradeClosed(game, t).rules = game.rules
        BY <2>2, <4>4, KeepsOpen
      <4>6. TradeClosed(game, t).rules.victoryPoints \in Nat
        BY <2>2, <4>5
      <4> QED
        BY <4>1, <4>5, <4>6, CommandSettles DEF Settled
    <3> QED
      BY <3>1, <3>2
  <2>4. ASSUME NEW g \in Freed(game, p), ValidEndTurn(g, p)
        PROVE  LET h == AfterEndTurn(g, p)
               IN  Open(h) /\ h.rules = game.rules /\ Sited(h, SetupSpots(scenario))
    <3>1. Open(g) /\ Fair(g) /\ g.rules = game.rules
      BY <2>3, <2>4 DEF Open, Sound, ValidEndTurn, Active, Unlocked
    <3>2. Fair(AfterEndTurn(g, p)) /\ Keeps(g, AfterEndTurn(g, p))
      BY <2>4, <3>1, FairAfterTurn
    <3>3. ~Is(AfterEndTurn(g, p), "SETUP_PLACEMENT")
      BY <2>4, <3>2 DEF Keeps, Is, ValidEndTurn, Active
    <3> QED
      BY <3>1, <3>2, <3>3, KeepsOpen DEF Sited
  <2>5. \A g \in states : Open(g) /\ g.rules = game.rules /\ Sited(g, SetupSpots(scenario))
    BY <2>4
  <2> QED
    BY <2>1, <2>5, ReachSettles
<1> QED
  BY <1>1, <1>2, <1>3, <1>4, <1>5, <1>6

-----------------------------------------------------------------------------
(* The beginning of a match.                                               *)

LEMMA StartSettled ==
  ASSUME NEW s \in Scenarios
  PROVE  /\ Settled(CreateGame(s)) /\ CreateGame(s).rules = s.rules
         /\ Spared(CreateGame(s)) /\ Taken(CreateGame(s).buildings) = {}
<1> DEFINE g == CreateGame(s)
           empty == [v \in Vertex |-> NoBuilding]
           bare == [e \in Edge |-> NoOne]
           none == [p \in Player |-> FALSE]
           zero == [p \in Player |-> 0]
           hands == [p \in Player |-> Nothing]
           bank == [r \in Resource |-> BankSize]
<1>1. /\ Match(g) /\ g.rules = s.rules /\ g.deck = s.deck /\ g.turn = 0
      /\ g.phase = SetupPhase(PlayerOrder[1], 0) /\ g.hand = hands /\ g.bank = bank
      /\ g.roads = bare /\ g.buildings = empty /\ g.cards = <<>> /\ g.knights = zero
      /\ g.score = zero /\ g.hasLongestRoad = none /\ g.roadOwner = NoOne
      /\ g.hasLargestArmy = none /\ g.armyOwner = NoOne
      /\ g.trades = [t \in TradeId |-> NoTrade] /\ g.plightApplied = FALSE
  BY DEF CreateGame, Match, Fields
<1>2. g.thief \in Hex
  <2>1. g.thief = IF \E h \in Hex : Terrain[h] = Desert
                  THEN CHOOSE h \in Hex : Terrain[h] = Desert ELSE CHOOSE h \in Hex : TRUE
    BY DEF CreateGame
  <2> HIDE DEF g
  <2> QED
    BY <2>1, BoardFits
<1> HIDE DEF g
<1>3. Purse(hands, bank)
  <2>1. Nothing \in Bundle /\ \A r \in Resource : Nothing[r] = 0
    BY SmallBundles
  <2>2. bank \in Bundle /\ hands \in [Player -> Bundle] /\ BankSize \in Nat
    BY <2>1, SizesFit DEF Bundle
  <2>3. ASSUME NEW r \in Resource PROVE Together(hands, r) = 0
    <3> DEFINE f == [p \in Player |-> hands[p][r]]
    <3>1. \A p \in Player : f[p] = 0
      BY <2>1
    <3>2. Together(hands, r) = SumFunctionOnSet(f, Player)
      BY DEF Together
    <3> HIDE DEF f
    <3> QED
      BY <3>1, <3>2, SumZero, PlayersFinite
  <2> QED
    BY <2>2, <2>3 DEF Purse
<1>4. \A p \in Player : /\ Laid(bare, p) = {}
                        /\ \A type : Built(empty, p, type) = {}
  BY PlayersSeated DEF Laid, Built, NoBuilding, Building
<1>5. Cardinality({}) = 0
  BY FS_EmptySet
<1>6. Layout(bare, empty)
  <2>1. {MaxRoads, MaxSettlements, MaxCities} \subseteq Nat
    BY SizesFit
  <2>2. bare \in [Edge -> Player \cup {NoOne}] /\ empty \in [Vertex -> Lot]
    BY DEF Lot
  <2>3. \A p \in Player : /\ Cardinality(Laid(bare, p)) <= MaxRoads
                          /\ Cardinality(Built(empty, p, "settlement")) <= MaxSettlements
                          /\ Cardinality(Built(empty, p, "city")) <= MaxCities
    BY <1>4, <1>5, <2>1
  <2> HIDE DEF bare
  <2> QED
    BY <2>2, <2>3 DEF Layout
<1>7. Scored(zero, empty, none, none)
  <2>1. \A p \in Player : Worth(empty, p) = 0 /\ Prize(none[p]) = 0
    BY <1>4, <1>5 DEF Worth, Prize
  <2>2. zero \in [Player -> Int] /\ none \in [Player -> BOOLEAN] /\ \A p \in Player : zero[p] = 0
    OBVIOUS
  <2> HIDE DEF zero, none, empty
  <2> QED
    BY <2>1, <2>2 DEF Scored
<1>8. \A owner \in Player : ~none[owner]
  OBVIOUS
<1>9. Titled(NoOne, none)
  BY PlayersSeated DEF Titled
<1>10. \A p \in Player : RoadLengths(bare, empty)[p] = 0
  <2> SUFFICES ASSUME NEW p \in Player PROVE LongestTrail({}, Cuts(empty, p)) = 0
    BY <1>4 DEF RoadLengths
  <2>1. LongestTrail({}, Cuts(empty, p)) =
           Max({0} \cup {(CHOOSE t : Trails(t, Cuts(empty, p)))[{}][v] : v \in UNION {}})
    BY LongestTrailIs
  <2>2. {0} \cup {(CHOOSE t : Trails(t, Cuts(empty, p)))[{}][v] : v \in UNION {}} = {0}
    OBVIOUS
  <2>3. Max({0}) \in {0}
    BY FS_Singleton, MaxIs
  <2> QED
    BY <2>1, <2>2, <2>3
<1>11. /\ Earned(NoOne, RoadLengths(bare, empty), LongestRoadMinimum)
       /\ Earned(NoOne, zero, LargestArmyMinimum)
  BY <1>10, SizesFit DEF Earned
<1>12. /\ Opening(g.phase, bank) /\ Due(g.phase) /\ Discarding(g.phase, g.hand)
       /\ g.phase.type = "SETUP_PLACEMENT"
  <2>1. Len(PlayerOrder) \in Nat \ {0} /\ BankSize \in Nat /\ PlayerOrder[1] \in Player
    BY SetupOrderLength, SizesFit
  <2> QED
    BY <1>1, <2>1 DEF Opening, Due, Discarding, SetupPhase
<1>20. Settling(g.phase, 0, bare, empty)
  <2>1. g.phase.index = 0 /\ g.phase = SetupPhase(SetupOrder[0 + 1], 0)
    BY <1>1, SetupOrderLength DEF SetupPhase
  <2>2. Taken(empty) = {} /\ Cardinality(Taken(empty)) = 0
    BY <1>5 DEF Taken
  <2>3. \A p \in Player : Placements(p, 0) = {}
    BY DEF Placements
  <2>4. \A e \in Edge : bare[e] = NoOne
    OBVIOUS
  <2> HIDE DEF bare, empty
  <2> QED
    BY <1>4, <1>5, <2>1, <2>2, <2>3, <2>4 DEF Settling
<1>13. Deals(g.trades) /\ Quiet(g.trades)
  BY <1>1 DEF Deals, Deal, Quiet, IsStaged, NoTrade
<1>14. Staged(g.phase, g.hand, g.trades)
  BY <1>13 DEF Staged, Quiet
<1>15. /\ g.cards \in Seq(Card) /\ g.turn \in Int /\ Stocked(g.deck, g.cards)
       /\ g.rules.plightTurn \in Nat
  BY <1>1, ScenariosFit DEF Stocked
<1>16. g.knights \in [Player -> Nat]
  BY <1>1
<1> HIDE DEF hands, bank, bare, empty, none, zero
<1>17. Sound(g)
  BY <1>1, <1>2, <1>3, <1>6, <1>7, <1>9, <1>11, <1>12, <1>13, <1>14, <1>15, <1>16, <1>20
     DEF Sound, Fair, Solid, Timely, RoadTitle
<1>18. WonInTime(g)
  <2>1. \A p \in Player : TrueVictoryPoints(g, p) = 0
    <3> SUFFICES ASSUME NEW p \in Player PROVE TrueVictoryPoints(g, p) = 0
      OBVIOUS
    <3>1. CardsOf(g, p) = {}
      BY <1>1 DEF CardsOf
    <3>2. CardVictoryPoints(g, p) = 0
      BY <1>5, <3>1 DEF CardVictoryPoints
    <3> QED
      BY <1>1, <3>2 DEF TrueVictoryPoints, zero
  <2> QED
    BY <1>1, <2>1, ScenariosFit DEF WonInTime
<1>19. Won(g)
  BY <1>12 DEF Won, Is
<1>21. Taken(g.buildings) = {}
  BY <1>1 DEF Taken, empty
<1>22. Spared(g)
  BY <1>1, <1>15 DEF Spared
<1> QED
  BY <1>1, <1>17, <1>18, <1>19, <1>21, <1>22 DEF Settled, g

LEMMA InitIsInOrder == Init => InGoodOrder
<1> SUFFICES ASSUME Init PROVE InGoodOrder
  OBVIOUS
<1>1. scenario \in Scenarios /\ game = CreateGame(scenario)
  BY DEF Init
<1> QED
  BY <1>1, StartSettled DEF InGoodOrder, Sited

LEMMA StepsKeepOrder == InGoodOrder /\ [Next]_vars => InGoodOrder'
<1> SUFFICES ASSUME InGoodOrder, [Next]_vars PROVE InGoodOrder'
  OBVIOUS
<1>1. CASE SetupMove
  BY <1>1, SetupMoveSettles
<1>2. CASE TurnMove
  BY <1>2, TurnMoveSettles
<1>3. CASE CardMove
  BY <1>3, CardMoveSettles
<1>4. CASE TradeMove
  BY <1>4, TradeMoveSettles
<1>5. CASE TurnClock
  BY <1>5, TurnClockSettles
<1>6. CASE UNCHANGED vars
  <2>1. game' = game /\ scenario' = scenario
    BY <1>6 DEF vars
  <2> QED
    BY <2>1 DEF InGoodOrder
<1> QED
  BY <1>1, <1>2, <1>3, <1>4, <1>5, <1>6 DEF Next, Over

(* Every reachable match is in good order: the bank and the hands add up,  *)
(* pieces fit, scores and titles are what board, knights and prizes make   *)
(* them, offers can be kept and nobody plays on with the points to win.    *)
THEOREM AlwaysInGoodOrder == Spec => []InGoodOrder
<1>1. Init => InGoodOrder
  BY InitIsInOrder
<1>2. InGoodOrder /\ [Next]_vars => InGoodOrder'
  BY StepsKeepOrder
<1> QED
  BY <1>1, <1>2, PTL DEF Spec

\* What assertInvariants asks of the board and of staged offers.
LEMMA LayoutAccepted ==
  ASSUME NEW roads, NEW buildings, Layout(roads, buildings)
  PROVE  /\ \A e \in Edge : roads[e] \in Player \cup {NoOne}
         /\ \A v \in Vertex : buildings[v] # NoBuilding =>
                /\ buildings[v].owner \in Player
                /\ \A w \in Neighbours(v) : buildings[w] = NoBuilding
<1>1. /\ roads \in [Edge -> Player \cup {NoOne}] /\ buildings \in [Vertex -> Lot]
      /\ \A v \in Vertex : buildings[v] # NoBuilding =>
             \A w \in Neighbours(v) : buildings[w] = NoBuilding
  BY DEF Layout
<1>2. \A v \in Vertex : buildings[v] # NoBuilding => buildings[v].owner \in Player
  BY <1>1 DEF Lot, Building
<1> QED
  BY <1>1, <1>2

LEMMA DealsAccepted ==
  ASSUME NEW g, Deals(g.trades), NEW t \in DOMAIN g.trades
  PROVE  /\ g.trades[t] # NoTrade => g.trades[t].from \in Player
         /\ Collecting(g, t) =>
               /\ DOMAIN g.trades[t].responses = g.trades[t].recipients
               /\ \A q \in g.trades[t].recipients : g.trades[t].responses[q] \in ResponseStatus
<1>1. Deal(g.trades[t]) /\ (Collecting(g, t) => g.trades[t] # NoTrade)
  BY DEF Deals, Collecting, NoTrade
<1> QED
  BY <1>1 DEF Deal

LEMMA OrderAccepted == InGoodOrder => ValidCommandsApply
<1> SUFFICES ASSUME InGoodOrder PROVE AssertInvariants(game)
  BY DEF ValidCommandsApply
<1>1. /\ game.thief \in Hex /\ Purse(game.hand, game.bank) /\ Layout(game.roads, game.buildings)
      /\ Scored(game.score, game.buildings, game.hasLongestRoad, game.hasLargestArmy)
      /\ Due(game.phase) /\ Won(game) /\ game.cards \in Seq(Card) /\ Deals(game.trades)
  BY DEF InGoodOrder, Settled, Sound, Fair, Solid, Timely
<1>2. \A p \in Player : game.hand[p] \in Bundle /\ game.score[p] >= 0
  BY <1>1, ScoreNat DEF Purse
<1>6. \A i \in DOMAIN game.cards : game.cards[i].type \in CardTypes
  <2> SUFFICES ASSUME NEW i \in DOMAIN game.cards PROVE game.cards[i].type \in CardTypes
    OBVIOUS
  <2>1. game.cards[i] \in Card
    BY <1>1
  <2> QED
    BY <2>1 DEF Card
<1>7. \A p \in Player : \A i \in CardsOf(game, p) : game.cards[i].type \in CardTypes
  BY <1>6 DEF CardsOf
<1>8. \A t \in DOMAIN game.trades :
         /\ game.trades[t] # NoTrade => game.trades[t].from \in Player
         /\ Collecting(game, t) =>
               /\ DOMAIN game.trades[t].responses = game.trades[t].recipients
               /\ \A q \in game.trades[t].recipients :
                     game.trades[t].responses[q] \in ResponseStatus
  BY <1>1, DealsAccepted
<1>3. /\ game.bank \in Bundle
      /\ \A r \in Resource : Together(game.hand, r) + game.bank[r] = BankSize
  BY <1>1 DEF Purse
<1>4. /\ \A e \in Edge : game.roads[e] \in Player \cup {NoOne}
      /\ \A v \in Vertex : game.buildings[v] # NoBuilding =>
             /\ game.buildings[v].owner \in Player
             /\ \A w \in Neighbours(v) : game.buildings[w] = NoBuilding
  BY <1>1, LayoutAccepted
<1>9. \A p \in Player : /\ Cardinality(RoadsOf(game, p)) <= MaxRoads
                         /\ Cardinality(BuildingsOf(game, p, "settlement")) <= MaxSettlements
                         /\ Cardinality(BuildingsOf(game, p, "city")) <= MaxCities
  BY <1>1 DEF Layout, RoadsOf, Laid, BuildingsOf, Built
<1>5. /\ Is(game, "DISCARDING") => \A p \in DOMAIN game.phase.pending :
             /\ p \in Player /\ game.phase.pending[p] > 0
             /\ p \in DOMAIN game.phase.submitted =>
                   Count(game.phase.submitted[p]) = game.phase.pending[p]
      /\ (Is(game, "GAME_OVER") /\ game.phase.reason # "TURN_LIMIT") =>
             TrueVictoryPoints(game, game.phase.winner) >= game.rules.victoryPoints
  BY <1>1 DEF Due, Won, Is
<1> QED
  BY <1>1, <1>2, <1>3, <1>4, <1>5, <1>7, <1>8, <1>9 DEF AssertInvariants

LEMMA OrderScored == InGoodOrder => ScoresTrue
<1> SUFFICES ASSUME InGoodOrder PROVE ScoresTrue
  OBVIOUS
<1>1. /\ Scored(game.score, game.buildings, game.hasLongestRoad, game.hasLargestArmy)
      /\ RoadTitle(game.roads, game.buildings, game.hasLongestRoad, game.roadOwner)
      /\ Titled(game.armyOwner, game.hasLargestArmy)
      /\ Earned(game.armyOwner, game.knights, LargestArmyMinimum)
      /\ WonInTime(game)
  BY DEF InGoodOrder, Settled, Sound, Fair, Solid
<1>2. ScoresAddUp(game)
  BY <1>1 DEF ScoresAddUp, Scored, Worth, Prize, BuildingsOf, Built
<1>3. RoadLengths(game.roads, game.buildings) = [p \in Player |-> LongestRoadLength(game, p)]
  BY RoadLengthsAre
<1>4. Earned(game.roadOwner, [p \in Player |-> LongestRoadLength(game, p)], LongestRoadMinimum)
  BY <1>1, <1>3 DEF RoadTitle
<1>5. \A p \in Player : /\ game.hasLongestRoad[p] <=> game.roadOwner = p
                        /\ game.hasLargestArmy[p] <=> game.armyOwner = p
  BY <1>1 DEF RoadTitle, Titled
<1> QED
  BY <1>1, <1>2, <1>4, <1>5 DEF ScoresTrue, TitlesEarned

LEMMA OrderHolds == InGoodOrder => StagedOffersHold
<1> SUFFICES ASSUME InGoodOrder, NEW p \in Player, NEW t \in ActiveCollectingTrades(game, p),
                    ~Is(game, "GAME_OVER")
             PROVE  /\ game.phase = ActionPhase(p)
                    /\ ActiveCollectingTrades(game, p) = {t}
                    /\ \A q \in Player : Chosen(game, p, t, q) => ValidFinalizeTrade(game, p, t, q)
  BY DEF StagedOffersHold
<1>1. Deals(game.trades) /\ Staged(game.phase, game.hand, game.trades)
  BY DEF InGoodOrder, Settled, Sound, Fair, Solid, Timely
<1>2. t \in TradeId /\ IsStaged(game.trades[t]) /\ game.trades[t].from = p
  BY <1>1 DEF ActiveCollectingTrades, Collecting, IsStaged, Deals
<1>3. /\ game.phase = ActionPhase(p)
      /\ \A u \in TradeId : IsStaged(game.trades[u]) => u = t
      /\ Has(game.hand[p], game.trades[t].offered)
      /\ \A q \in DOMAIN game.trades[t].responses :
            game.trades[t].responses[q] = "WANTS_ACCEPT" =>
               Has(game.hand[q], game.trades[t].requested)
  BY <1>1, <1>2 DEF Staged, Is
<1>4. ActiveCollectingTrades(game, p) = {t}
  BY <1>1, <1>2, <1>3 DEF ActiveCollectingTrades, Collecting, IsStaged, Deals
<1>5. \A q \in Player : Chosen(game, p, t, q) => ValidFinalizeTrade(game, p, t, q)
  <2>1. DOMAIN game.trades[t].responses = game.trades[t].recipients
    BY <1>1, <1>2 DEF Deals, Deal, IsStaged, NoTrade
  <2> QED
    BY <1>3, <2>1 DEF Chosen, ValidFinalizeTrade
<1> QED
  BY <1>3, <1>4, <1>5

(* applyCommand never rejects, on its assertInvariants, a command that     *)
(* validateCommand let through.                                            *)
THEOREM CommandsAlwaysApply == Spec => []ValidCommandsApply
<1>1. Spec => []InGoodOrder
  BY AlwaysInGoodOrder
<1>2. InGoodOrder => ValidCommandsApply
  BY OrderAccepted
<1> QED
  BY <1>1, <1>2, PTL

(* The scores the reducers adjust event by event are what the board and    *)
(* the titles are worth, each title is with whoever has earned it, and     *)
(* nobody plays on with the points to win.                                 *)
THEOREM ScoresAlwaysTrue == Spec => []ScoresTrue
<1>1. Spec => []InGoodOrder
  BY AlwaysInGoodOrder
<1>2. InGoodOrder => ScoresTrue
  BY OrderScored
<1> QED
  BY <1>1, <1>2, PTL

(* A staged offer holds its player, is alone, and every promise to accept  *)
(* it can be kept when FINALIZE_TRADE looks at the hands.                  *)
THEOREM OffersAlwaysHold == Spec => []StagedOffersHold
<1>1. Spec => []InGoodOrder
  BY AlwaysInGoodOrder
<1>2. InGoodOrder => StagedOffersHold
  BY OrderHolds
<1> QED
  BY <1>1, <1>2, PTL

-----------------------------------------------------------------------------
(* What a view tells.                                                      *)

\* What makes two matches look the same.
LEMMA ViewsAgree ==
  ASSUME NEW g, Match(g), NEW h, SameBut(g, h, {"phase", "hand", "cards", "deck", "trades"}),
         NEW p, h.phase.type = g.phase.type, PhaseFor(h.phase, p) = PhaseFor(g.phase, p), h.hand[p] = g.hand[p],
         \A q \in Player : Count(h.hand[q]) = Count(g.hand[q]),
         DOMAIN h.cards = DOMAIN g.cards,
         \A i \in DOMAIN g.cards : h.cards[i] = g.cards[i] \/
              /\ ~Shown(g, p, g.cards[i].owner) /\ h.cards[i].owner = g.cards[i].owner
              /\ h.cards[i].played = g.cards[i].played,
         SumFunctionOnSet(h.deck, DOMAIN h.deck) = SumFunctionOnSet(g.deck, DOMAIN g.deck),
         \A t \in TradeId : TradeFor(h.trades[t], p) = TradeFor(g.trades[t], p)
  PROVE  View(h, p) = View(g, p)
<1>1. /\ h.rules = g.rules /\ h.turn = g.turn /\ h.roads = g.roads
      /\ h.buildings = g.buildings /\ h.thief = g.thief /\ h.bank = g.bank
      /\ h.roadOwner = g.roadOwner /\ h.armyOwner = g.armyOwner
      /\ h.hasLongestRoad = g.hasLongestRoad /\ h.hasLargestArmy = g.hasLargestArmy
      /\ h.knights = g.knights /\ h.playedCardTurn = g.playedCardTurn /\ h.score = g.score
  BY DEF SameBut, Fields
<1>2. \A q : Shown(h, p, q) <=> Shown(g, p, q)
  BY DEF Shown, Is
<1>3. \A q : CardsOf(h, q) = CardsOf(g, q) /\ Unplayed(h, q) = Unplayed(g, q)
  BY DEF CardsOf, Unplayed
<1>4. ASSUME NEW q, Shown(g, p, q)
      PROVE  TrueVictoryPoints(h, q) = TrueVictoryPoints(g, q)
  <2>1. \A i \in CardsOf(g, q) : h.cards[i] = g.cards[i]
    BY <1>4 DEF CardsOf
  <2>2. {i \in CardsOf(h, q) : h.cards[i].type = "VICTORY_POINT"} =
        {i \in CardsOf(g, q) : g.cards[i].type = "VICTORY_POINT"}
    BY <1>3, <2>1
  <2> QED
    BY <1>1, <2>2 DEF TrueVictoryPoints, CardVictoryPoints
<1>5. [q \in Player |-> IF Shown(h, p, q) THEN TrueVictoryPoints(h, q) ELSE h.score[q]] =
      [q \in Player |-> IF Shown(g, p, q) THEN TrueVictoryPoints(g, q) ELSE g.score[q]]
  BY <1>1, <1>2, <1>4
<1>6. [i \in DOMAIN h.cards |-> IF Shown(h, p, h.cards[i].owner) THEN h.cards[i] ELSE Absent] =
      [i \in DOMAIN g.cards |-> IF Shown(g, p, g.cards[i].owner) THEN g.cards[i] ELSE Absent]
  BY <1>2
<1>7. /\ [q \in Player |-> Cardinality(Unplayed(h, q))] = [q \in Player |-> Cardinality(Unplayed(g, q))]
      /\ [q \in Player |-> Count(h.hand[q])] = [q \in Player |-> Count(g.hand[q])]
      /\ [t \in TradeId |-> TradeFor(h.trades[t], p)] = [t \in TradeId |-> TradeFor(g.trades[t], p)]
  BY <1>3
<1> QED
  BY <1>1, <1>5, <1>6, <1>7 DEF View

\* A card for another: as many as before.
LEMMA SwapCounts ==
  ASSUME NEW hand \in Bundle, NEW x \in Resource, NEW y \in Resource, hand[x] > 0
  PROVE  Count(Plus(Minus(hand, One(x)), One(y))) = Count(hand)
<1> DEFINE less == Minus(hand, One(x))
           after == Plus(less, One(y))
<1>1. /\ \A r \in Resource : One(x)[r] = IF r = x THEN 1 ELSE 0
      /\ \A r \in Resource : One(y)[r] = IF r = y THEN 1 ELSE 0
  BY SmallBundles
<1>2. \A r \in Resource : hand[r] \in Nat
  BY DEF Bundle
<1>3. \A r \in Resource : less[r] = hand[r] - (IF r = x THEN 1 ELSE 0)
  BY <1>1 DEF Minus
<1>4. \A r \in Resource : after[r] = less[r] + (IF r = y THEN 1 ELSE 0)
  BY <1>1 DEF Plus
<1> HIDE DEF less, after
<1>5. \A r \in Resource : less[r] \in Int /\ after[r] \in Int
  BY <1>2, <1>3, <1>4
<1>6. SumFunctionOnSet(less, Resource) = SumFunctionOnSet(hand, Resource) - hand[x] + less[x]
  BY <1>2, <1>3, <1>5, SumExceptAt, BoardFits
<1>7. SumFunctionOnSet(after, Resource) = SumFunctionOnSet(less, Resource) - less[y] + after[y]
  BY <1>4, <1>5, SumExceptAt, BoardFits
<1>8. SumFunctionOnSet(hand, Resource) \in Nat
  BY <1>2, SumNat, BoardFits
<1>9. after[y] = less[y] + 1 /\ less[x] = hand[x] - 1
  BY <1>3, <1>4
<1> QED
  BY <1>2, <1>5, <1>6, <1>7, <1>8, <1>9 DEF Count, after, less

Swapped(g, q, r, x, y) == [g EXCEPT !.hand[q] = Plus(Minus(@, One(x)), One(y)),
                                    !.hand[r] = Plus(Minus(@, One(y)), One(x))]

LEMMA SwappedAlike ==
  ASSUME NEW g, Solid(g), NEW p \in Player, NEW q \in Player \ {p}, NEW r \in Player \ {p}, q # r,
         NEW x \in Resource, NEW y \in Resource, g.hand[q][x] > 0, g.hand[r][y] > 0
  PROVE  View(Swapped(g, q, r, x, y), p) = View(g, p)
<1> DEFINE h == Swapped(g, q, r, x, y)
           mine(b) == Plus(Minus(b, One(x)), One(y))
           theirs(b) == Plus(Minus(b, One(y)), One(x))
<1>1. Match(g) /\ g.hand \in [Player -> Bundle]
  BY DEF Solid, Purse
<1>2. /\ SameBut(g, h, {"hand"})
      /\ h.hand = [g.hand EXCEPT ![q] = mine(@), ![r] = theirs(@)]
  <2>1. h = [g EXCEPT !.hand[q] = mine(@), !.hand[r] = theirs(@)]
    BY DEF Swapped
  <2> HIDE DEF mine, theirs, h
  <2> QED
    BY <1>1, <2>1 DEF Match, SameBut, Fields
<1>3. /\ h.hand[q] = mine(g.hand[q]) /\ h.hand[r] = theirs(g.hand[r])
      /\ \A s \in Player \ {q, r} : h.hand[s] = g.hand[s]
  <2> HIDE DEF mine, theirs, h
  <2> QED
    BY <1>1, <1>2
<1> HIDE DEF h
<1>4. Count(h.hand[q]) = Count(g.hand[q]) /\ Count(h.hand[r]) = Count(g.hand[r])
  <2>1. g.hand[q] \in Bundle /\ g.hand[r] \in Bundle
    BY <1>1
  <2> QED
    BY <1>3, <2>1, SwapCounts
<1>5. /\ \A s \in Player : Count(h.hand[s]) = Count(g.hand[s])
      /\ h.hand[p] = g.hand[p]
  BY <1>3, <1>4
<1>6. h.phase = g.phase /\ h.cards = g.cards /\ h.deck = g.deck /\ h.trades = g.trades
  BY <1>2 DEF SameBut, Fields
<1>7. SameBut(g, h, {"phase", "hand", "cards", "deck", "trades"})
  BY <1>2 DEF SameBut
<1> QED
  BY <1>1, <1>5, <1>6, <1>7, ViewsAgree DEF h

\* Another kind of card, drawn from the deck in place of the first.
LEMMA RedrawnAlike ==
  ASSUME NEW g, Solid(g), ~Is(g, "GAME_OVER"), NEW p \in Player, NEW q \in Player \ {p},
         NEW i \in Unplayed(g, q), NEW type \in InDeck(g), g.cards[i].type # type
  PROVE  LET h == [g EXCEPT !.cards[i].type = type, !.deck[type] = @ - 1,
                            !.deck[g.cards[i].type] = @ + 1]
         IN  View(h, p) = View(g, p)
<1> DEFINE old == g.cards[i].type
           h == [g EXCEPT !.cards[i].type = type, !.deck[type] = @ - 1, !.deck[old] = @ + 1]
           D == DOMAIN g.deck
           less == [g.deck EXCEPT ![type] = @ - 1]
<1>1. Match(g) /\ Stocked(g.deck, g.cards) /\ g.cards \in Seq(Card)
  BY DEF Solid
<1>2. /\ i \in DOMAIN g.cards /\ g.cards[i].owner = q /\ old \in D
      /\ type \in D /\ old # type
  BY <1>1 DEF Unplayed, CardsOf, InDeck, Stocked
<1> HIDE DEF old
<1>3. /\ SameBut(g, h, {"cards", "deck"})
      /\ h.cards = [g.cards EXCEPT ![i].type = type]
      /\ h.deck = [g.deck EXCEPT ![type] = @ - 1, ![old] = @ + 1]
  BY <1>1, <1>2 DEF Match, SameBut, Fields, Stocked
<1>4. /\ DOMAIN h.cards = DOMAIN g.cards
      /\ \A j \in DOMAIN g.cards \ {i} : h.cards[j] = g.cards[j]
      /\ h.cards[i].owner = q /\ h.cards[i].played = g.cards[i].played
  <2>1. g.cards[i] \in Card
    BY <1>1, <1>2
  <2>2. DOMAIN g.cards[i] = {"owner", "type", "bought", "played"}
    BY <2>1 DEF Card
  <2> HIDE DEF h
  <2>3. h.cards[i] = [g.cards[i] EXCEPT !.type = type]
    BY <1>2, <1>3
  <2> QED
    BY <1>2, <1>3, <2>2, <2>3
<1>5. /\ IsFiniteSet(D) /\ g.deck \in [D -> Nat]
  BY <1>1, CardTypesFinite DEF Stocked
<1>6. less \in [D -> Int] /\ less[type] = g.deck[type] - 1 /\ \A t \in D \ {type} : less[t] = g.deck[t]
  BY <1>2, <1>5
<1>7. h.deck = [less EXCEPT ![old] = @ + 1]
  <2> HIDE DEF h
  <2> QED
    BY <1>2, <1>3, <1>5
<1> HIDE DEF less, h
<1>8. /\ h.deck \in [D -> Int] /\ h.deck[old] = less[old] + 1
      /\ \A t \in D \ {old} : h.deck[t] = less[t]
  BY <1>2, <1>6, <1>7
<1>9. SumFunctionOnSet(less, D) = SumFunctionOnSet(g.deck, D) - g.deck[type] + less[type]
  <2>1. \A t \in D : g.deck[t] \in Int /\ less[t] \in Int
    BY <1>5, <1>6
  <2> QED
    BY <1>2, <1>5, <1>6, <2>1, SumExceptAt
<1>10. SumFunctionOnSet(h.deck, D) = SumFunctionOnSet(less, D) - less[old] + h.deck[old]
  <2>1. \A t \in D : h.deck[t] \in Int /\ less[t] \in Int
    BY <1>6, <1>8
  <2> QED
    BY <1>2, <1>5, <1>8, <2>1, SumExceptAt
<1>11. SumFunctionOnSet(h.deck, DOMAIN h.deck) = SumFunctionOnSet(g.deck, DOMAIN g.deck)
  <2>1. SumFunctionOnSet(g.deck, D) \in Nat
    BY <1>5, SumNat
  <2>2. g.deck[type] \in Nat /\ less[old] \in Int /\ less[type] = g.deck[type] - 1
        /\ h.deck[old] = less[old] + 1 /\ DOMAIN h.deck = D
    BY <1>2, <1>5, <1>6, <1>8
  <2> QED
    BY <1>9, <1>10, <2>1, <2>2
<1>12. ~Shown(g, p, g.cards[i].owner)
  BY <1>2 DEF Shown
<1>13. h.phase = g.phase /\ h.hand = g.hand /\ h.trades = g.trades
  BY <1>3 DEF SameBut, Fields
<1>14. SameBut(g, h, {"phase", "hand", "cards", "deck", "trades"})
  BY <1>3 DEF SameBut
<1>15. \A j \in DOMAIN g.cards : h.cards[j] = g.cards[j] \/
              /\ ~Shown(g, p, g.cards[j].owner) /\ h.cards[j].owner = g.cards[j].owner
              /\ h.cards[j].played = g.cards[j].played
  BY <1>2, <1>4, <1>12
<1> QED
  <2>1. View(h, p) = View(g, p)
    BY <1>1, <1>4, <1>11, <1>13, <1>14, <1>15, ViewsAgree
  <2> QED
    BY <2>1 DEF h, old

Reoffered(g, t, x, y, a) ==
    [g EXCEPT !.trades[t] = [@ EXCEPT !.offered = x, !.requested = y, !.responses = a]]

\* Another offer, answered otherwise, which the viewer has no part in.
LEMMA OtherOfferAlike ==
  ASSUME NEW g, Solid(g), NEW p, NEW t \in TradeId, g.trades[t] # NoTrade,
         ~CanSeeTrade(g.trades[t], p), NEW x, NEW y, NEW a
  PROVE  View(Reoffered(g, t, x, y, a), p) = View(g, p)
<1> DEFINE trade == g.trades[t]
           other == [trade EXCEPT !.offered = x, !.requested = y, !.responses = a]
           h == Reoffered(g, t, x, y, a)
<1>1. Match(g) /\ Deals(g.trades)
  BY DEF Solid
<1>2. SameBut(g, h, {"trades"}) /\ h.trades = [g.trades EXCEPT ![t] = other]
  <2>1. h = [g EXCEPT !.trades[t] = other]
    BY DEF Reoffered
  <2> HIDE DEF other, h
  <2> QED
    BY <1>1, <2>1 DEF Match, SameBut, Fields
<1> HIDE DEF h
<1>3. /\ DOMAIN trade = {"from", "recipients", "offered", "requested", "status", "responses"}
      /\ DOMAIN g.trades = TradeId
  BY <1>1 DEF Deals, Deal
<1>4. /\ \A u \in TradeId \ {t} : h.trades[u] = g.trades[u]
      /\ h.trades[t] = other
  <2> HIDE DEF other
  <2> QED
    BY <1>2, <1>3
<1>5. other.from = trade.from /\ other.recipients = trade.recipients
  BY <1>3
<1>6. other # NoTrade
  <2>1. "from" \in DOMAIN other /\ "from" \notin DOMAIN NoTrade
    BY <1>3 DEF NoTrade
  <2> QED
    BY <2>1
<1>7. ~CanSeeTrade(other, p)
  BY <1>5 DEF CanSeeTrade
<1>8. TradeFor(h.trades[t], p) = TradeFor(g.trades[t], p)
  <2>1. [other EXCEPT !.offered = Nothing, !.requested = Nothing, !.responses = <<>>] =
        [trade EXCEPT !.offered = Nothing, !.requested = Nothing, !.responses = <<>>]
    BY <1>3
  <2> HIDE DEF other, trade
  <2> QED
    BY <1>4, <1>6, <1>7, <2>1 DEF TradeFor, trade
<1>9. h.phase = g.phase /\ h.hand = g.hand /\ h.cards = g.cards /\ h.deck = g.deck
  BY <1>2 DEF SameBut, Fields
<1>10. SameBut(g, h, {"phase", "hand", "cards", "deck", "trades"})
  BY <1>2 DEF SameBut
<1>11. \A u \in TradeId : TradeFor(h.trades[u], p) = TradeFor(g.trades[u], p)
  BY <1>4, <1>8
<1>12. View(h, p) = View(g, p)
  BY <1>1, <1>9, <1>10, <1>11, ViewsAgree
<1> QED
  BY <1>12 DEF h

\* Somebody else discarded other cards.
LEMMA DiscardedAlike ==
  ASSUME NEW g, Solid(g), Is(g, "DISCARDING"), Due(g.phase), NEW p,
         NEW q \in DOMAIN g.phase.submitted \ {p}, NEW b
  PROVE  View([g EXCEPT !.phase.submitted[q] = b], p) = View(g, p)
<1> DEFINE phase == [g.phase EXCEPT !.submitted[q] = b]
           h == [g EXCEPT !.phase = phase]
           Hidden(submitted) == [s \in DOMAIN submitted |-> IF s = p THEN submitted[s] ELSE Nothing]
<1>1. Match(g) /\ g.phase.type = "DISCARDING"
      /\ g.phase = DiscardPhase(g.phase.active, g.phase.roller, g.phase.pending, g.phase.submitted)
  BY DEF Solid, Due, Is
<1>2. h = [g EXCEPT !.phase.submitted[q] = b]
  OBVIOUS
<1>3. /\ phase.type = g.phase.type /\ phase.active = g.phase.active
      /\ phase.roller = g.phase.roller /\ phase.pending = g.phase.pending
      /\ phase.submitted = [g.phase.submitted EXCEPT ![q] = b]
  <2>1. DOMAIN g.phase = {"type", "active", "roller", "pending", "submitted"}
    BY <1>1 DEF DiscardPhase
  <2> QED
    BY <2>1
<1> HIDE DEF phase
<1>4. SameBut(g, h, {"phase"}) /\ h.phase = phase
  BY <1>1 DEF Match, SameBut, Fields
<1>5. Hidden(phase.submitted) = Hidden(g.phase.submitted)
  BY <1>3
<1> HIDE DEF h
<1>6. PhaseFor(h.phase, p) = PhaseFor(g.phase, p)
  BY <1>1, <1>3, <1>4, <1>5 DEF PhaseFor
<1>7. h.hand = g.hand /\ h.cards = g.cards /\ h.deck = g.deck /\ h.trades = g.trades
  BY <1>4 DEF SameBut, Fields
<1>8. SameBut(g, h, {"phase", "hand", "cards", "deck", "trades"})
  BY <1>4 DEF SameBut
<1>9. View(h, p) = View(g, p)
  BY <1>1, <1>3, <1>4, <1>6, <1>7, <1>8, ViewsAgree
<1> QED
  BY <1>2, <1>9

LEMMA OrderTellsNothing == InGoodOrder => ViewsDoNotTell
<1> SUFFICES ASSUME InGoodOrder, NEW p \in Player, NEW h \in Indistinguishable(p)
             PROVE  View(h, p) = View(game, p)
  BY DEF ViewsDoNotTell
<1> DEFINE others == Player \ {p}
           swap(q, r, x, y) == [game EXCEPT !.hand[q] = Plus(Minus(@, One(x)), One(y)),
                                            !.hand[r] = Plus(Minus(@, One(y)), One(x))]
           redrawn(i, type) == [game EXCEPT !.cards[i].type = type, !.deck[type] = @ - 1,
                                            !.deck[game.cards[i].type] = @ + 1]
           other(trade, o) == [trade EXCEPT !.offered = o.offered, !.requested = o.requested,
                                            !.responses = [q \in DOMAIN @ |-> "REJECTED"]]
           offering(t, o) == [game EXCEPT !.trades[t] = other(@, o)]
           throwing(q, b) == [game EXCEPT !.phase.submitted[q] = b]
<1>1. Solid(game) /\ Due(game.phase)
  BY DEF InGoodOrder, Settled, Sound, Fair, Timely
<1>2. \/ \E q \in others, r \in others, x \in Resource, y \in Resource :
            /\ q # r /\ game.hand[q][x] > 0 /\ game.hand[r][y] > 0
            /\ h = swap(q, r, x, y)
      \/ /\ ~Is(game, "GAME_OVER")
         /\ \E q \in others : \E i \in Unplayed(game, q), type \in InDeck(game) :
               game.cards[i].type # type /\ h = redrawn(i, type)
      \/ \E t \in TradeId, o \in Offers :
            /\ game.trades[t] # NoTrade /\ ~CanSeeTrade(game.trades[t], p)
            /\ h = offering(t, o)
      \/ \E q \in others : \E b :
            /\ Is(game, "DISCARDING") /\ q \in DOMAIN game.phase.submitted
            /\ h = throwing(q, b)
  <2> DEFINE swaps == {s \in others \X others \X Resource \X Resource :
                           s[1] # s[2] /\ game.hand[s[1]][s[3]] > 0 /\ game.hand[s[2]][s[4]] > 0}
             kinds == {k \in (UNION {Unplayed(game, q) : q \in others}) \X InDeck(game) :
                           ~Is(game, "GAME_OVER") /\ game.cards[k[1]].type # k[2]}
             offers == {t \in TradeId : game.trades[t] # NoTrade /\ ~CanSeeTrade(game.trades[t], p)}
             thrown == {d \in others \X Resource :
                           Is(game, "DISCARDING") /\ d[1] \in DOMAIN game.phase.submitted}
  <2>1. \/ \E s \in swaps : h = swap(s[1], s[2], s[3], s[4])
        \/ \E k \in kinds : h = redrawn(k[1], k[2])
        \/ \E x \in offers \X Offers : h = offering(x[1], x[2])
        \/ \E d \in thrown : h = throwing(d[1], Many(d[2], game.phase.pending[d[1]]))
    BY DEF Indistinguishable
  <2>2. ASSUME NEW s \in swaps, h = swap(s[1], s[2], s[3], s[4])
        PROVE  \E q \in others, r \in others, x \in Resource, y \in Resource :
                  /\ q # r /\ game.hand[q][x] > 0 /\ game.hand[r][y] > 0
                  /\ h = swap(q, r, x, y)
    <3>1. s[1] \in others /\ s[2] \in others /\ s[3] \in Resource /\ s[4] \in Resource
      OBVIOUS
    <3> HIDE DEF swap
    <3> QED
      BY <2>2, <3>1
  <2>3. ASSUME NEW k \in kinds, h = redrawn(k[1], k[2])
        PROVE  /\ ~Is(game, "GAME_OVER")
               /\ \E q \in others : \E i \in Unplayed(game, q), type \in InDeck(game) :
                     game.cards[i].type # type /\ h = redrawn(i, type)
    <3>1. k[1] \in UNION {Unplayed(game, q) : q \in others} /\ k[2] \in InDeck(game)
      OBVIOUS
    <3> HIDE DEF redrawn
    <3> QED
      BY <2>3, <3>1
  <2>4. ASSUME NEW x \in offers \X Offers, h = offering(x[1], x[2])
        PROVE  \E t \in TradeId, o \in Offers :
                  /\ game.trades[t] # NoTrade /\ ~CanSeeTrade(game.trades[t], p)
                  /\ h = offering(t, o)
    <3>1. /\ x[1] \in TradeId /\ x[2] \in Offers
          /\ game.trades[x[1]] # NoTrade /\ ~CanSeeTrade(game.trades[x[1]], p)
      OBVIOUS
    <3> HIDE DEF offering
    <3> QED
      BY <2>4, <3>1
  <2>5. ASSUME NEW d \in thrown, h = throwing(d[1], Many(d[2], game.phase.pending[d[1]]))
        PROVE  \E q \in others : \E b :
                  /\ Is(game, "DISCARDING") /\ q \in DOMAIN game.phase.submitted
                  /\ h = throwing(q, b)
    <3>1. /\ d[1] \in others /\ Is(game, "DISCARDING")
          /\ d[1] \in DOMAIN game.phase.submitted
      OBVIOUS
    <3> HIDE DEF throwing
    <3> QED
      BY <2>5, <3>1
  <2> HIDE DEF swaps, kinds, offers, thrown, swap, redrawn, offering, throwing
  <2> QED
    BY <2>1, <2>2, <2>3, <2>4, <2>5
<1>3. CASE \E q \in others, r \in others, x \in Resource, y \in Resource :
              /\ q # r /\ game.hand[q][x] > 0 /\ game.hand[r][y] > 0
              /\ h = swap(q, r, x, y)
  <2>1. PICK q \in others, r \in others, x \in Resource, y \in Resource :
              /\ q # r /\ game.hand[q][x] > 0 /\ game.hand[r][y] > 0
              /\ h = swap(q, r, x, y)
    BY <1>3
  <2>2. h = Swapped(game, q, r, x, y)
    BY <2>1 DEF Swapped
  <2> QED
    BY <1>1, <2>1, <2>2, SwappedAlike
<1>4. CASE /\ ~Is(game, "GAME_OVER")
           /\ \E q \in others : \E i \in Unplayed(game, q), type \in InDeck(game) :
                 game.cards[i].type # type /\ h = redrawn(i, type)
  <2>1. PICK q \in others : \E i \in Unplayed(game, q), type \in InDeck(game) :
                 game.cards[i].type # type /\ h = redrawn(i, type)
    BY <1>4
  <2>2. PICK i \in Unplayed(game, q), type \in InDeck(game) :
                 game.cards[i].type # type /\ h = redrawn(i, type)
    BY <2>1
  <2>3. View(redrawn(i, type), p) = View(game, p)
    BY <1>1, <1>4, <2>2, RedrawnAlike
  <2> QED
    BY <2>2, <2>3
<1>5. CASE \E t \in TradeId, o \in Offers :
              /\ game.trades[t] # NoTrade /\ ~CanSeeTrade(game.trades[t], p)
              /\ h = offering(t, o)
  <2>1. PICK t \in TradeId, o \in Offers :
              /\ game.trades[t] # NoTrade /\ ~CanSeeTrade(game.trades[t], p)
              /\ h = offering(t, o)
    BY <1>5
  <2> DEFINE refused == [q \in DOMAIN game.trades[t].responses |-> "REJECTED"]
  <2>2. h = Reoffered(game, t, o.offered, o.requested, refused)
    BY <2>1 DEF Reoffered
  <2> HIDE DEF refused, offering
  <2>3. View(Reoffered(game, t, o.offered, o.requested, refused), p) = View(game, p)
    BY <1>1, <2>1, OtherOfferAlike
  <2> QED
    BY <2>2, <2>3
<1>6. CASE \E q \in others : \E b :
              /\ Is(game, "DISCARDING") /\ q \in DOMAIN game.phase.submitted
              /\ h = throwing(q, b)
  BY <1>1, <1>6, DiscardedAlike
<1> QED
  <2> HIDE DEF swap, redrawn, offering, throwing
  <2> QED
    BY <1>2, <1>3, <1>4, <1>5, <1>6

(* Whatever a match has come to, what a player's view of it shows does not *)
(* depend on the others' cards, on what they have drawn or on offers that  *)
(* the player has no part in.                                              *)
THEOREM ViewsNeverTell == Spec => []ViewsDoNotTell
<1>1. Spec => []InGoodOrder
  BY AlwaysInGoodOrder
<1>2. InGoodOrder => ViewsDoNotTell
  BY OrderTellsNothing
<1> QED
  BY <1>1, <1>2, PTL

-----------------------------------------------------------------------------
(* Counting cards.                                                         *)

LEMMA SumPositive ==
  ASSUME NEW S, IsFiniteSet(S), NEW f, \A x \in S : f[x] \in Nat
  PROVE  /\ \A x \in S : f[x] <= SumFunctionOnSet(f, S)
         /\ SumFunctionOnSet(f, S) > 0 <=> \E x \in S : f[x] > 0
<1>1. SumFunctionOnSet(f, S) \in Nat
  BY SumNat
<1>2. ASSUME NEW x \in S PROVE f[x] <= SumFunctionOnSet(f, S)
  <2>1. SumFunctionOnSet(f, S) = f[x] + SumFunctionOnSet(f, S \ {x})
    BY SumTakeOut
  <2>2. IsFiniteSet(S \ {x})
    BY FS_Subset
  <2>3. SumFunctionOnSet(f, S \ {x}) \in Nat
    BY <2>2, SumNat
  <2> QED
    BY <2>1, <2>3
<1>3. (\A x \in S : ~(f[x] > 0)) => SumFunctionOnSet(f, S) = 0
  BY SumZero
<1> QED
  BY <1>1, <1>2, <1>3

LEMMA CountIs ==
  ASSUME NEW b \in Bundle
  PROVE  /\ Count(b) \in Nat /\ \A r \in Resource : b[r] <= Count(b)
         /\ Count(b) > 0 <=> \E r \in Resource : b[r] > 0
<1>1. \A r \in Resource : b[r] \in Nat
  BY DEF Bundle
<1> QED
  BY <1>1, SumNat, SumPositive, BoardFits DEF Count

LEMMA OneMore ==
  ASSUME NEW b \in Bundle, NEW r \in Resource
  PROVE  /\ [b EXCEPT ![r] = @ + 1] \in Bundle
         /\ Count([b EXCEPT ![r] = @ + 1]) = Count(b) + 1
<1> DEFINE c == [b EXCEPT ![r] = @ + 1]
<1>1. c \in Bundle /\ c[r] = b[r] + 1 /\ \A s \in Resource \ {r} : c[s] = b[s]
  BY DEF Bundle
<1> HIDE DEF c
<1>2. \A s \in Resource : b[s] \in Int /\ c[s] \in Int
  BY <1>1 DEF Bundle
<1>3. SumFunctionOnSet(c, Resource) = SumFunctionOnSet(b, Resource) - b[r] + c[r]
  BY <1>1, <1>2, SumExceptAt, BoardFits
<1> QED
  BY <1>1, <1>2, <1>3, CountIs DEF c, Count

LEMMA OneLess ==
  ASSUME NEW b \in Bundle, NEW r \in Resource, b[r] > 0
  PROVE  /\ [b EXCEPT ![r] = @ - 1] \in Bundle
         /\ Count([b EXCEPT ![r] = @ - 1]) = Count(b) - 1
<1> DEFINE c == [b EXCEPT ![r] = @ - 1]
<1>1. c \in Bundle /\ c[r] = b[r] - 1 /\ \A s \in Resource \ {r} : c[s] = b[s]
  BY DEF Bundle
<1> HIDE DEF c
<1>2. \A s \in Resource : b[s] \in Int /\ c[s] \in Int
  BY <1>1 DEF Bundle
<1>3. SumFunctionOnSet(c, Resource) = SumFunctionOnSet(b, Resource) - b[r] + c[r]
  BY <1>1, <1>2, SumExceptAt, BoardFits
<1> QED
  BY <1>1, <1>2, <1>3, CountIs DEF c, Count

\* Of n cards or more, n can be chosen.
LEMMA SubBundlesExist ==
  ASSUME NEW hand \in Bundle, NEW n \in Nat, n <= Count(hand)
  PROVE  SubBundles(hand, n) # {}
<1> DEFINE S == {k \in Nat : k <= Count(hand) => \E b \in Bundle : Has(hand, b) /\ Count(b) = k}
<1>1. 0 \in S
  <2>1. Nothing \in Bundle /\ \A r \in Resource : Nothing[r] = 0
    BY SmallBundles
  <2>2. Count(Nothing) = 0
    BY <2>1, SumZero, BoardFits DEF Count
  <2>3. Has(hand, Nothing)
    BY <2>1 DEF Has, Bundle
  <2> QED
    BY <2>1, <2>2, <2>3
<1>2. ASSUME NEW k \in Nat, k \in S PROVE k + 1 \in S
  <2> SUFFICES ASSUME k + 1 <= Count(hand)
               PROVE  \E b \in Bundle : Has(hand, b) /\ Count(b) = k + 1
    OBVIOUS
  <2>1. Count(hand) \in Nat
    BY CountIs
  <2>2. PICK b \in Bundle : Has(hand, b) /\ Count(b) = k
    BY <1>2, <2>1
  <2>3. PICK r \in Resource : b[r] # hand[r]
    <3> SUFFICES ASSUME \A r \in Resource : b[r] = hand[r] PROVE FALSE
      OBVIOUS
    <3>1. b = hand
      BY DEF Bundle
    <3> QED
      BY <2>1, <2>2, <3>1
  <2>4. \A s \in Resource : b[s] \in Nat /\ hand[s] \in Nat /\ hand[s] >= b[s]
    BY <2>2 DEF Bundle, Has
  <2> DEFINE c == [b EXCEPT ![r] = @ + 1]
  <2>5. c \in Bundle /\ Count(c) = k + 1
    BY <2>2, OneMore
  <2>6. Has(hand, c)
    BY <2>3, <2>4 DEF Has, Bundle
  <2> QED
    BY <2>5, <2>6
<1> HIDE DEF S
<1>3. n \in S
  BY <1>1, <1>2, AllNumbers
<1>4. PICK b \in Bundle : Has(hand, b) /\ Count(b) = n
  BY <1>3 DEF S
<1>5. \A r \in Resource : b[r] \in Nat /\ b[r] <= n
  BY <1>4, CountIs DEF Bundle
<1>6. b \in [Resource -> 0..n]
  BY <1>5 DEF Bundle
<1> QED
  BY <1>4, <1>6 DEF SubBundles

-----------------------------------------------------------------------------
(* The menu depends on what is on the table and in the player's own hand.  *)

LEMMA RoadOptionsSame ==
  ASSUME NEW g, Match(g), NEW h, Match(h), h.roads = g.roads, h.buildings = g.buildings, NEW p
  PROVE  /\ RoadsOf(h, p) = RoadsOf(g, p)
         /\ \A e \in Edge : CanBuildRoad(h, p, e) <=> CanBuildRoad(g, p, e)
         /\ RoadBuildingOptions(h, p) = RoadBuildingOptions(g, p)
<1>1. RoadsOf(h, p) = RoadsOf(g, p)
  BY DEF RoadsOf
<1>2. \A e \in Edge : CanBuildRoad(h, p, e) <=> CanBuildRoad(g, p, e)
  BY <1>1 DEF CanBuildRoad
<1>3. ASSUME NEW a, NEW e \in Edge
      PROVE  CanBuildRoad([h EXCEPT !.roads[a] = p], p, e) <=> CanBuildRoad([g EXCEPT !.roads[a] = p], p, e)
  <2> DEFINE k == [h EXCEPT !.roads[a] = p]
             l == [g EXCEPT !.roads[a] = p]
  <2>1. /\ k.roads = [h.roads EXCEPT ![a] = p] /\ k.buildings = h.buildings
        /\ l.roads = [g.roads EXCEPT ![a] = p] /\ l.buildings = g.buildings
    BY DEF Match, Fields
  <2> HIDE DEF k, l
  <2>2. k.roads = l.roads /\ k.buildings = l.buildings
    BY <2>1
  <2>3. CanBuildRoad(k, p, e) <=> CanBuildRoad(l, p, e)
    BY <2>2 DEF CanBuildRoad, RoadsOf
  <2> QED
    BY <2>3 DEF k, l
<1> DEFINE first(x) == {e \in Edge : CanBuildRoad(x, p, e)}
           twos(x) == {ef \in first(x) \X Edge :
                     /\ ef[1] # ef[2]
                     /\ CanBuildRoad([x EXCEPT !.roads[ef[1]] = p], p, ef[2])}
<1>4. first(h) = first(g)
  BY <1>2
<1>5. twos(h) = twos(g)
  BY <1>3, <1>4
<1>6. RoadBuildingOptions(h, p) = RoadBuildingOptions(g, p)
  BY <1>1, <1>4, <1>5 DEF RoadBuildingOptions
<1> QED
  BY <1>1, <1>2, <1>6

-----------------------------------------------------------------------------
(* The menu of legal actions.                                              *)

\* A menu, item by item.
Free(g, p) == ActivePlayer(g) = p /\ ActiveCollectingTrades(g, p) = {}
Acting(g, p) == Free(g, p) /\ Is(g, "ACTION_PHASE")
Playing(g, p, type) ==
    {i \in PlayableCards(g, p, type) : Acting(g, p) \/ (Free(g, p) /\ Is(g, "WAITING_FOR_ROLL"))}

DiscardItem(g, p) == IF Pending(g, p) THEN g.phase.pending[p] ELSE 0
RollItem(g, p) == Free(g, p) /\ Is(g, "WAITING_FOR_ROLL")
SetupItem(g, p) ==
    {v \in Vertex : (Free(g, p) /\ Is(g, "SETUP_PLACEMENT")) /\ CanPlaceSettlement(g, v, FALSE, p)}
ThiefItem(g, p) == {h \in ValidThiefHexes(g) : Free(g, p) /\ Is(g, "MOVING_THIEF")}
MaritimeItem(g, p) ==
    {x \in Resource \X Resource : /\ Acting(g, p) /\ x[1] # x[2] /\ g.bank[x[2]] > 0
                                  /\ g.hand[p][x[1]] >= MaritimeTradeRatio(g, p, x[1])}
RoadItem(g, p) ==
    {e \in Edge : /\ Acting(g, p) /\ Cardinality(RoadsOf(g, p)) < MaxRoads
                  /\ CanBuildRoad(g, p, e) /\ Has(g.hand[p], RoadCost)}
SettlementItem(g, p) ==
    {v \in Vertex : /\ Acting(g, p) /\ Cardinality(BuildingsOf(g, p, "settlement")) < MaxSettlements
                    /\ CanPlaceSettlement(g, v, TRUE, p) /\ Has(g.hand[p], SettlementCost)}
CityItem(g, p) ==
    {v \in BuildingsOf(g, p, "settlement") :
        /\ Acting(g, p) /\ Cardinality(BuildingsOf(g, p, "city")) < MaxCities
        /\ Has(g.hand[p], CityCost)}
BuyItem(g, p) == Acting(g, p) /\ InDeck(g) # {} /\ Has(g.hand[p], CardCost)
KnightItem(g, p) == Playing(g, p, "KNIGHT") \X ValidThiefHexes(g)
BuilderItem(g, p) == IF Playing(g, p, "ROAD_BUILDING") = {} THEN {}
                     ELSE Playing(g, p, "ROAD_BUILDING") \X RoadBuildingOptions(g, p)
MonopolyItem(g, p) == Playing(g, p, "MONOPOLY") \X Resource
PlentyItem(g, p) ==
    {x \in Playing(g, p, "YEAR_OF_PLENTY") \X Resource \X Resource :
        /\ g.bank[x[2]] > 0 /\ g.bank[x[3]] > 0
        /\ x[2] = x[3] => g.bank[x[2]] >= 2}

Menu(g, p) ==
    [DISCARD_RESOURCES |-> DiscardItem(g, p), ROLL_DICE |-> RollItem(g, p), END_TURN |-> Acting(g, p),
     PLACE_SETUP |-> SetupItem(g, p), MOVE_THIEF |-> ThiefItem(g, p),
     MARITIME_TRADE |-> MaritimeItem(g, p), BUILD_ROAD |-> RoadItem(g, p),
     BUILD_SETTLEMENT |-> SettlementItem(g, p), UPGRADE_CITY |-> CityItem(g, p),
     BUY_SPECIAL_CARD |-> BuyItem(g, p), PLAY_KNIGHT |-> KnightItem(g, p),
     PLAY_ROAD_BUILDING |-> BuilderItem(g, p), PLAY_MONOPOLY |-> MonopolyItem(g, p),
     PLAY_YEAR_OF_PLENTY |-> PlentyItem(g, p)]

LEMMA MenuIs == ASSUME NEW g, NEW p PROVE LegalActions(g, p) = Menu(g, p)
BY DEF LegalActions, Menu, Free, Acting, Playing, DiscardItem, RollItem, SetupItem, ThiefItem,
       MaritimeItem, RoadItem, SettlementItem, CityItem, BuyItem, KnightItem, BuilderItem,
       MonopolyItem, PlentyItem

\* A phase seen as it is, but for the cards others have discarded.
Alike(phase, seen) ==
    /\ seen.type = phase.type
    /\ phase.type # "DISCARDING" => seen = phase
    /\ phase.type = "DISCARDING" =>
           /\ seen.active = phase.active /\ seen.pending = phase.pending
           /\ DOMAIN seen.submitted = DOMAIN phase.submitted

LEMMA PhaseShownIs == ASSUME NEW phase, NEW p PROVE Alike(phase, PhaseFor(phase, p))
BY DEF Alike, PhaseFor, DiscardPhase

\* Two tables on which a player finds the same.
SameTable(g, h, p) ==
    /\ Match(g) /\ Match(h)
    /\ Alike(g.phase, h.phase) /\ h.turn = g.turn /\ h.roads = g.roads /\ h.buildings = g.buildings
    /\ h.thief = g.thief /\ h.bank = g.bank /\ h.hand[p] = g.hand[p]
    /\ h.playedCardTurn = g.playedCardTurn
    /\ ActiveCollectingTrades(h, p) = ActiveCollectingTrades(g, p)
    /\ CardsOf(h, p) = CardsOf(g, p) /\ \A i \in CardsOf(g, p) : h.cards[i] = g.cards[i]
    /\ InDeck(h) = {} <=> InDeck(g) = {}

LEMMA SameMenu ==
  ASSUME NEW g, NEW h, NEW p, SameTable(g, h, p)
  PROVE  LegalActions(h, p) = LegalActions(g, p)
<1>1. /\ Match(g) /\ Match(h)
      /\ Alike(g.phase, h.phase) /\ h.turn = g.turn /\ h.roads = g.roads /\ h.buildings = g.buildings
      /\ h.thief = g.thief /\ h.bank = g.bank /\ h.hand[p] = g.hand[p]
      /\ h.playedCardTurn = g.playedCardTurn
      /\ ActiveCollectingTrades(h, p) = ActiveCollectingTrades(g, p)
      /\ CardsOf(h, p) = CardsOf(g, p) /\ \A i \in CardsOf(g, p) : h.cards[i] = g.cards[i]
      /\ (InDeck(h) = {} <=> InDeck(g) = {})
  BY DEF SameTable
<1>2. /\ \A type : Is(h, type) <=> Is(g, type)
      /\ ActivePlayer(h) = ActivePlayer(g) /\ (Pending(h, p) <=> Pending(g, p))
  BY <1>1 DEF Alike, Is, ActivePlayer, Pending
<1>3. Free(h, p) = Free(g, p) /\ Acting(h, p) = Acting(g, p)
  BY <1>1, <1>2 DEF Free, Acting
<1>4. \A type : PlayableCards(h, p, type) = PlayableCards(g, p, type)
  BY <1>1 DEF PlayableCards
<1>5. \A type : Playing(h, p, type) = Playing(g, p, type)
  BY <1>2, <1>3, <1>4 DEF Playing
<1>6. /\ RoadsOf(h, p) = RoadsOf(g, p)
      /\ \A e \in Edge : CanBuildRoad(h, p, e) <=> CanBuildRoad(g, p, e)
      /\ RoadBuildingOptions(h, p) = RoadBuildingOptions(g, p)
  BY <1>1, RoadOptionsSame
<1>7. /\ ValidThiefHexes(h) = ValidThiefHexes(g)
      /\ \A r : MaritimeTradeRatio(h, p, r) = MaritimeTradeRatio(g, p, r)
      /\ \A type : BuildingsOf(h, p, type) = BuildingsOf(g, p, type)
      /\ \A v, needed : CanPlaceSettlement(h, v, needed, p) <=> CanPlaceSettlement(g, v, needed, p)
  BY <1>1, <1>6 DEF ValidThiefHexes, MaritimeTradeRatio, BuildingsOf, CanPlaceSettlement
<1>8. DiscardItem(h, p) = DiscardItem(g, p)
  BY <1>1, <1>2 DEF DiscardItem, Alike, Pending, Is
<1>9. RollItem(h, p) = RollItem(g, p)
  BY <1>2, <1>3 DEF RollItem
<1>10. SetupItem(h, p) = SetupItem(g, p) /\ ThiefItem(h, p) = ThiefItem(g, p)
  BY <1>2, <1>3, <1>7 DEF SetupItem, ThiefItem
<1>11. MaritimeItem(h, p) = MaritimeItem(g, p) /\ RoadItem(h, p) = RoadItem(g, p)
  BY <1>1, <1>3, <1>6, <1>7 DEF MaritimeItem, RoadItem
<1>12. SettlementItem(h, p) = SettlementItem(g, p) /\ CityItem(h, p) = CityItem(g, p)
  <2>1. /\ BuildingsOf(h, p, "settlement") = BuildingsOf(g, p, "settlement")
        /\ BuildingsOf(h, p, "city") = BuildingsOf(g, p, "city")
        /\ \A v \in Vertex : CanPlaceSettlement(h, v, TRUE, p) <=> CanPlaceSettlement(g, v, TRUE, p)
    BY <1>7
  <2>2. SettlementItem(h, p) = SettlementItem(g, p)
    BY <1>1, <1>3, <2>1 DEF SettlementItem
  <2> QED
    BY <1>1, <1>3, <2>1, <2>2 DEF CityItem
<1>13. BuyItem(h, p) = BuyItem(g, p)
  BY <1>1, <1>3 DEF BuyItem
<1>14. /\ KnightItem(h, p) = KnightItem(g, p) /\ BuilderItem(h, p) = BuilderItem(g, p)
       /\ MonopolyItem(h, p) = MonopolyItem(g, p)
  BY <1>5, <1>6, <1>7 DEF KnightItem, BuilderItem, MonopolyItem
<1>15. PlentyItem(h, p) = PlentyItem(g, p)
  BY <1>1, <1>5 DEF PlentyItem
<1>16. Menu(h, p) = Menu(g, p)
  BY <1>3, <1>8, <1>9, <1>10, <1>11, <1>12, <1>13, <1>14, <1>15 DEF Menu
<1> QED
  BY <1>16, MenuIs

\* In the setup nobody runs out of pieces, and every free vertex has a free edge.
LEMMA TwoPlacements ==
  ASSUME NEW p \in Player, NEW n \in 0..(2 * Len(PlayerOrder) - 1), SetupOrder[n + 1] = p
  PROVE  Cardinality(Placements(p, n)) <= 1
<1> DEFINE N == Len(PlayerOrder)
           back == [i \in DOMAIN PlayerOrder |-> PlayerOrder[Len(PlayerOrder) + 1 - i]]
<1>1. N \in Nat \ {0} /\ PlayerOrder \in Seq(Player) /\ DOMAIN PlayerOrder = 1..N
  BY PlayersSeated, PlayersFinite
<1>2. \A i, j \in 1..N : PlayerOrder[i] = PlayerOrder[j] => i = j
  BY <1>1, SeatsFit
<1>3. back \in Seq(Player) /\ Len(back) = N /\ \A i \in 1..N : back[i] = PlayerOrder[N + 1 - i]
  <2>1. \A i \in 1..N : N + 1 - i \in 1..N
    BY <1>1
  <2>2. \A i \in 1..N : PlayerOrder[N + 1 - i] \in Player
    BY <1>1, <2>1
  <2>3. back \in [1..N -> Player]
    BY <1>1, <2>2
  <2> QED
    BY <1>1, <2>3
<1> HIDE DEF back
<1>4. SetupOrder = PlayerOrder \o back
  BY DEF SetupOrder, back
<1>5. \A j \in 1..(2 * N) : SetupOrder[j] = IF j <= N THEN PlayerOrder[j] ELSE PlayerOrder[2 * N + 1 - j]
  <2> SUFFICES ASSUME NEW j \in 1..(2 * N)
               PROVE  SetupOrder[j] = IF j <= N THEN PlayerOrder[j] ELSE PlayerOrder[2 * N + 1 - j]
    OBVIOUS
  <2>1. CASE j <= N
    BY <1>1, <1>3, <1>4, <2>1
  <2>2. CASE ~(j <= N)
    <3>1. j - N \in 1..N /\ N + 1 - (j - N) = 2 * N + 1 - j
      BY <1>1, <2>2
    <3>2. SetupOrder[j] = back[j - N]
      BY <1>1, <1>3, <1>4, <2>2
    <3> QED
      BY <1>3, <2>2, <3>1, <3>2
  <2> QED
    BY <2>1, <2>2
<1>6. PICK i \in 1..N : PlayerOrder[i] = p
  BY <1>1 DEF Player
<1>7. \A j \in 1..(2 * N) : SetupOrder[j] = p => j = i \/ j = 2 * N + 1 - i
  <2> SUFFICES ASSUME NEW j \in 1..(2 * N), SetupOrder[j] = p PROVE j = i \/ j = 2 * N + 1 - i
    OBVIOUS
  <2>1. CASE j <= N
    BY <1>1, <1>2, <1>5, <1>6, <2>1
  <2>2. CASE ~(j <= N)
    <3>1. 2 * N + 1 - j \in 1..N /\ PlayerOrder[2 * N + 1 - j] = p
      BY <1>1, <1>5, <2>2
    <3>2. 2 * N + 1 - j = i
      BY <1>2, <1>6, <3>1
    <3> QED
      BY <1>1, <3>2
  <2> QED
    BY <2>1, <2>2
<1>8. n + 1 \in 1..(2 * N)
  BY <1>1
<1>9. n + 1 = i \/ n + 1 = 2 * N + 1 - i
  BY <1>7, <1>8
<1>10. Placements(p, n) \subseteq {i}
  <2> SUFFICES ASSUME NEW j \in 1..n, SetupOrder[j] = p PROVE j = i
    BY DEF Placements
  <2>1. j \in 1..(2 * N) /\ j < n + 1 /\ i < 2 * N + 1 - i
    BY <1>1
  <2>2. j = i \/ j = 2 * N + 1 - i
    BY <1>7, <2>1
  <2> QED
    BY <1>1, <1>9, <2>1, <2>2
<1>11. IsFiniteSet({i}) /\ Cardinality({i}) = 1
  BY FS_Singleton
<1>12. Cardinality(Placements(p, n)) <= Cardinality({i})
  BY <1>10, <1>11, FS_Subset
<1> QED
  BY <1>11, <1>12

\* What the table looks like in the setup, for whoever is at turn.
LEMMA SetupIsOpen ==
  ASSUME NEW g, Fair(g), Is(g, "SETUP_PLACEMENT")
  PROVE  /\ \A p \in Player : ActiveCollectingTrades(g, p) = {}
         /\ g.phase.active \in Player
         /\ LET p == g.phase.active
            IN  /\ Cardinality(BuildingsOf(g, p, "settlement")) < MaxSettlements
                /\ Cardinality(RoadsOf(g, p)) < MaxRoads
         /\ \A v \in Vertex, p \in Player :
               CanPlaceSettlement(g, v, FALSE, p) => \E e \in Edge : CanBuildSetupRoad(g, e, v)
         /\ Cardinality(Taken(g.buildings)) < Len(SetupOrder)
<1> DEFINE p == g.phase.active
           n == g.phase.index
<1>1. /\ Solid(g) /\ Layout(g.roads, g.buildings) /\ Due(g.phase) /\ Opening(g.phase, g.bank)
      /\ Staged(g.phase, g.hand, g.trades) /\ Deals(g.trades)
      /\ Settling(g.phase, g.turn, g.roads, g.buildings) /\ g.phase.type = "SETUP_PLACEMENT"
  BY DEF Fair, Solid, Timely, Is
<1>2. p \in Player /\ n \in 0..(2 * Len(PlayerOrder) - 1)
  BY <1>1 DEF Due, Opening
<1>3. /\ g.phase = SetupPhase(SetupOrder[n + 1], n)
      /\ Cardinality(Taken(g.buildings)) <= n
      /\ \A q \in Player :
            /\ Cardinality(Built(g.buildings, q, "settlement")) <= Cardinality(Placements(q, n))
            /\ Cardinality(Laid(g.roads, q)) <= Cardinality(Placements(q, n))
      /\ \A e \in Edge : g.roads[e] # NoOne => \E v \in e : g.buildings[v] # NoBuilding
  BY <1>1 DEF Settling
<1>4. SetupOrder[n + 1] = p
  <2>1. SetupPhase(SetupOrder[n + 1], n).active = SetupOrder[n + 1]
    BY DEF SetupPhase
  <2> HIDE DEF n
  <2> QED
    BY <1>3, <2>1
<1>5. \A q \in Player : ActiveCollectingTrades(g, q) = {}
  <2> SUFFICES ASSUME NEW q \in Player, NEW t \in ActiveCollectingTrades(g, q) PROVE FALSE
    OBVIOUS
  <2>1. t \in TradeId /\ IsStaged(g.trades[t])
    BY <1>1 DEF ActiveCollectingTrades, Collecting, IsStaged, Deals
  <2>2. g.phase = ActionPhase(g.trades[t].from)
    BY <1>1, <2>1 DEF Staged
  <2> QED
    BY <1>1, <2>2 DEF ActionPhase
<1>6. Cardinality(Placements(p, n)) <= 1
  BY <1>2, <1>4, TwoPlacements
<1>7. /\ Cardinality(BuildingsOf(g, p, "settlement")) < MaxSettlements
      /\ Cardinality(RoadsOf(g, p)) < MaxRoads
  <2>1. BuildingsOf(g, p, "settlement") = Built(g.buildings, p, "settlement") /\ RoadsOf(g, p) = Laid(g.roads, p)
    BY DEF BuildingsOf, Built, RoadsOf, Laid
  <2>2. /\ Cardinality(Built(g.buildings, p, "settlement")) \in Nat
        /\ Cardinality(Laid(g.roads, p)) \in Nat
    BY CountsExact
  <2>3. Cardinality(Placements(p, n)) \in Nat
    <3>1. n \in Int /\ Placements(p, n) \subseteq 1..n
      BY <1>2, PlayersFinite DEF Placements
    <3> HIDE DEF n
    <3>2. IsFiniteSet(1..n)
      BY <3>1, FS_Interval
    <3> QED
      BY <3>1, <3>2, FS_Subset, FS_CardinalityType
  <2>4. MaxRoads \in Nat /\ MaxSettlements \in Nat /\ MaxRoads >= 2 /\ MaxSettlements >= 2
    BY SeatsFit, SizesFit
  <2>5. /\ Cardinality(Built(g.buildings, p, "settlement")) <= Cardinality(Placements(p, n))
        /\ Cardinality(Laid(g.roads, p)) <= Cardinality(Placements(p, n))
    BY <1>2, <1>3
  <2> HIDE DEF n, p
  <2>6. /\ Cardinality(Built(g.buildings, p, "settlement")) < MaxSettlements
        /\ Cardinality(Laid(g.roads, p)) < MaxRoads
    BY <1>6, <2>2, <2>3, <2>4, <2>5
  <2> QED
    BY <2>1, <2>6
<1>8. ASSUME NEW v \in Vertex, NEW q \in Player, CanPlaceSettlement(g, v, FALSE, q)
      PROVE  \E e \in Edge : CanBuildSetupRoad(g, e, v)
  <2>1. PICK e \in Edge : v \in e
    BY SeatsFit
  <2>2. \A w \in e : w = v \/ w \in Neighbours(v)
    BY <2>1 DEF Neighbours
  <2>3. \A w \in e : g.buildings[w] = NoBuilding
    BY <1>8, <2>2 DEF CanPlaceSettlement
  <2> QED
    BY <1>3, <2>1, <2>3 DEF CanBuildSetupRoad
<1>9. Cardinality(Taken(g.buildings)) < Len(SetupOrder)
  <2>1. Taken(g.buildings) \subseteq Vertex
    BY DEF Taken
  <2>2. Cardinality(Taken(g.buildings)) \in Nat
    BY <2>1, BoardFits, FS_Subset, FS_CardinalityType
  <2> QED
    BY <1>2, <1>3, <2>2, SetupOrderLength
<1> QED
  BY <1>2, <1>5, <1>7, <1>8, <1>9

LEMMA FreeIsActive ==
  ASSUME NEW g, NEW p, NEW phase, phase # "GAME_OVER"
  PROVE  Active(g, p, phase) <=> Free(g, p) /\ Is(g, phase)
BY DEF Active, Unlocked, Free, Is

LEMMA ThiefChoices ==
  ASSUME NEW g, NEW p
  PROVE  \A h : (\E q \in Player \cup {NoOne} : ValidThiefMove(g, p, h, q)) <=> h \in ValidThiefHexes(g)
<1> SUFFICES ASSUME NEW h, h \in ValidThiefHexes(g)
             PROVE  \E q \in Player \cup {NoOne} : ValidThiefMove(g, p, h, q)
  BY DEF ValidThiefMove
<1>1. EligibleStealTargets(g, p, h) \subseteq Player
  BY DEF EligibleStealTargets
<1>2. PICK q : IF EligibleStealTargets(g, p, h) = {} THEN q = NoOne ELSE q \in EligibleStealTargets(g, p, h)
  OBVIOUS
<1> QED
  BY <1>1, <1>2 DEF ValidThiefMove

LEMMA PlayingIsValid ==
  ASSUME NEW g, NEW p \in Player, NEW type
  PROVE  Playing(g, p, type) = {i \in CardsOf(g, p) : ValidDevelopmentCardPlay(g, p, i, type)}
<1>1. /\ Active(g, p, "WAITING_FOR_ROLL") <=> Free(g, p) /\ Is(g, "WAITING_FOR_ROLL")
      /\ Active(g, p, "ACTION_PHASE") <=> Free(g, p) /\ Is(g, "ACTION_PHASE")
  BY FreeIsActive
<1>2. \A i \in CardsOf(g, p) : g.cards[i].owner = p
  BY DEF CardsOf
<1>3. PlayableCards(g, p, type) \subseteq CardsOf(g, p)
  BY DEF PlayableCards
<1>4. ASSUME NEW i \in CardsOf(g, p)
      PROVE  i \in Playing(g, p, type) <=> ValidDevelopmentCardPlay(g, p, i, type)
  BY <1>1, <1>2, <1>4 DEF Playing, PlayableCards, Acting, ValidDevelopmentCardPlay
<1>5. Playing(g, p, type) \subseteq CardsOf(g, p)
  BY <1>3 DEF Playing
<1> QED
  BY <1>4, <1>5

-----------------------------------------------------------------------------
(* What the menu offers is what the engine accepts.                        *)

\* Out of the action phase nobody is held to an offer.
LEMMA Unheld ==
  ASSUME NEW g, Fair(g), ~Is(g, "ACTION_PHASE"), ~Is(g, "GAME_OVER"), NEW p
  PROVE  ActiveCollectingTrades(g, p) = {} /\ Unlocked(g, p)
<1>1. Deals(g.trades) /\ Staged(g.phase, g.hand, g.trades)
  BY DEF Fair, Solid, Timely
<1>2. ActiveCollectingTrades(g, p) = {}
  <2> SUFFICES ASSUME NEW t \in ActiveCollectingTrades(g, p) PROVE FALSE
    OBVIOUS
  <2>1. t \in TradeId /\ IsStaged(g.trades[t])
    BY <1>1 DEF ActiveCollectingTrades, Collecting, IsStaged, Deals
  <2>2. g.phase = ActionPhase(g.trades[t].from)
    BY <1>1, <2>1 DEF Staged, Is
  <2> QED
    BY <2>2 DEF ActionPhase, Is
<1> QED
  BY <1>2 DEF Unlocked

\* Whoever owes cards has them, and may give any of them.
LEMMA DiscardsThere ==
  ASSUME NEW g, Fair(g), NEW p \in Player, Pending(g, p)
  PROVE  /\ SubBundles(g.hand[p], g.phase.pending[p]) # {}
         /\ \A b \in SubBundles(g.hand[p], g.phase.pending[p]) : ValidDiscardResources(g, p, b)
<1>1. /\ Purse(g.hand, g.bank) /\ Due(g.phase) /\ Discarding(g.phase, g.hand)
      /\ g.phase.type = "DISCARDING" /\ p \in DOMAIN g.phase.pending \ DOMAIN g.phase.submitted
  BY DEF Fair, Solid, Timely, Pending, Is
<1>2. g.phase.pending[p] \in Nat /\ g.phase.pending[p] <= Count(g.hand[p]) /\ g.hand[p] \in Bundle
  BY <1>1 DEF Due, Discarding, Purse
<1>3. SubBundles(g.hand[p], g.phase.pending[p]) # {}
  BY <1>2, SubBundlesExist
<1>4. Unlocked(g, p)
  BY <1>1, Unheld DEF Is
<1> QED
  BY <1>3, <1>4 DEF ValidDiscardResources

LEMMA DiscardsAccepted ==
  ASSUME NEW g, Fair(g), NEW p \in Player
  PROVE  DiscardItem(g, p) =
            IF Pending(g, p) /\ (\E b \in SubBundles(g.hand[p], g.phase.pending[p]) :
                                     ValidDiscardResources(g, p, b))
            THEN g.phase.pending[p] ELSE 0
<1>1. ASSUME Pending(g, p)
      PROVE  \E b \in SubBundles(g.hand[p], g.phase.pending[p]) : ValidDiscardResources(g, p, b)
  BY <1>1, DiscardsThere
<1> QED
  BY <1>1 DEF DiscardItem

LEMMA SetupsAccepted ==
  ASSUME NEW g, Fair(g), NEW p \in Player
  PROVE  SetupItem(g, p) = {v \in Vertex : \E e \in Edge : ValidPlaceSetup(g, p, v, e)}
<1>1. Active(g, p, "SETUP_PLACEMENT") <=> Free(g, p) /\ Is(g, "SETUP_PLACEMENT")
  BY FreeIsActive
<1>2. ASSUME NEW v \in Vertex, NEW e \in Edge, ValidPlaceSetup(g, p, v, e)
      PROVE  v \in SetupItem(g, p)
  BY <1>1, <1>2 DEF ValidPlaceSetup, SetupItem
<1>3. ASSUME NEW v \in SetupItem(g, p)
      PROVE  v \in Vertex /\ \E e \in Edge : ValidPlaceSetup(g, p, v, e)
  <2>1. /\ Free(g, p) /\ Is(g, "SETUP_PLACEMENT") /\ CanPlaceSettlement(g, v, FALSE, p) /\ v \in Vertex
    BY DEF SetupItem
  <2>2. g.phase.active = p
    BY <2>1 DEF Free, ActivePlayer, Is
  <2>3. /\ Cardinality(BuildingsOf(g, p, "settlement")) < MaxSettlements
        /\ Cardinality(RoadsOf(g, p)) < MaxRoads
        /\ \E e \in Edge : CanBuildSetupRoad(g, e, v)
    BY <2>1, <2>2, SetupIsOpen
  <2>4. PICK e \in Edge : CanBuildSetupRoad(g, e, v)
    BY <2>3
  <2>5. v \in e
    BY <2>4 DEF CanBuildSetupRoad
  <2>6. ValidPlaceSetup(g, p, v, e)
    BY <1>1, <2>1, <2>3, <2>4, <2>5 DEF ValidPlaceSetup
  <2> QED
    BY <2>1, <2>6
<1>4. SetupItem(g, p) \subseteq Vertex
  BY DEF SetupItem
<1> QED
  BY <1>2, <1>3, <1>4

LEMMA BuilderAccepted ==
  ASSUME NEW g, Fair(g), NEW p \in Player
  PROVE  BuilderItem(g, p) =
            IF \A i \in CardsOf(g, p) : ~ValidDevelopmentCardPlay(g, p, i, "ROAD_BUILDING") THEN {}
            ELSE {x \in CardsOf(g, p) \X RoadBuildingOptions(g, p) :
                     ValidPlayRoadBuilding(g, p, x[1], x[2])}
<1> DEFINE cards == Playing(g, p, "ROAD_BUILDING")
           options == RoadBuildingOptions(g, p)
           pieces == MaxRoads - Cardinality(RoadsOf(g, p))
<1>1. cards = {i \in CardsOf(g, p) : ValidDevelopmentCardPlay(g, p, i, "ROAD_BUILDING")}
  BY PlayingIsValid
<1>2. BuilderItem(g, p) = IF cards = {} THEN {} ELSE cards \X options
  BY DEF BuilderItem
<1>3. \A edges \in options : Cardinality(RoadsOf(g, p)) + Len(edges) <= MaxRoads
  <2> SUFFICES ASSUME NEW edges \in options PROVE Cardinality(RoadsOf(g, p)) + Len(edges) <= MaxRoads
    OBVIOUS
  <2>1. RoadsOf(g, p) = Laid(g.roads, p)
    BY DEF RoadsOf, Laid
  <2>2. Cardinality(RoadsOf(g, p)) \in Nat /\ MaxRoads \in Nat
    BY <2>1, CountsExact, SizesFit
  <2>8. pieces \in Int
    BY <2>2
  <2> DEFINE first == {e \in Edge : CanBuildRoad(g, p, e)}
             ones == {<<e>> : e \in first}
             twos == {ef \in first \X Edge :
                         /\ ef[1] # ef[2]
                         /\ CanBuildRoad([g EXCEPT !.roads[ef[1]] = p], p, ef[2])}
  <2>3. options = IF pieces <= 0 \/ first = {} THEN {}
                  ELSE IF pieces = 1 \/ twos = {} THEN ones ELSE twos
    BY DEF RoadBuildingOptions
  <2>4. (\A x \in ones : Len(x) = 1) /\ (\A x \in twos : Len(x) = 2)
    OBVIOUS
  <2> HIDE DEF first, ones, twos, options, pieces
  <2>5. pieces > 0 /\ (edges \in ones \/ (pieces # 1 /\ edges \in twos))
    BY <2>8, <2>3
  <2>6. pieces > 0 /\ (Len(edges) = 1 \/ (pieces # 1 /\ Len(edges) = 2))
    BY <2>4, <2>5
  <2>7. pieces = MaxRoads - Cardinality(RoadsOf(g, p))
    BY DEF pieces
  <2>9. \A l, a \in Nat : \A n \in {1, 2} : l - a > 0 /\ (n = 1 \/ l - a # 1) => a + n <= l
    OBVIOUS
  <2>10. MaxRoads - Cardinality(RoadsOf(g, p)) > 0
    BY <2>6, <2>7
  <2>11. Len(edges) = 1 \/ MaxRoads - Cardinality(RoadsOf(g, p)) # 1
    BY <2>6, <2>7
  <2> QED
    BY <2>2, <2>6, <2>9, <2>10, <2>11
<1> HIDE DEF cards, options
<1>4. \A i \in cards, edges \in options : ValidPlayRoadBuilding(g, p, i, edges)
  BY <1>1, <1>3 DEF ValidPlayRoadBuilding, options
<1>5. \A i \in CardsOf(g, p), edges \in options : ValidPlayRoadBuilding(g, p, i, edges) => i \in cards
  BY <1>1 DEF ValidPlayRoadBuilding
<1>6. cards \subseteq CardsOf(g, p)
  BY <1>1
<1>7. cards \X options = {x \in CardsOf(g, p) \X options : ValidPlayRoadBuilding(g, p, x[1], x[2])}
  BY <1>4, <1>5, <1>6
<1> QED
  BY <1>1, <1>2, <1>7 DEF options

LEMMA PlentyAccepted ==
  ASSUME NEW g, Fair(g), NEW p \in Player
  PROVE  PlentyItem(g, p) = {x \in CardsOf(g, p) \X Resource \X Resource :
                                ValidPlayYearOfPlenty(g, p, x[1], x[2], x[3])}
<1>1. Playing(g, p, "YEAR_OF_PLENTY")
        = {i \in CardsOf(g, p) : ValidDevelopmentCardPlay(g, p, i, "YEAR_OF_PLENTY")}
  BY PlayingIsValid
<1>2. g.bank \in Bundle
  BY DEF Fair, Solid, Purse
<1>3. ASSUME NEW r \in Resource, NEW s \in Resource
      PROVE  Has(g.bank, Plus(One(r), One(s))) <=>
                g.bank[r] > 0 /\ g.bank[s] > 0 /\ (r = s => g.bank[r] >= 2)
  <2>1. \A q \in Resource : g.bank[q] \in Nat
    BY <1>2 DEF Bundle
  <2>2. \A q \in Resource : Plus(One(r), One(s))[q] = (IF q = r THEN 1 ELSE 0) + (IF q = s THEN 1 ELSE 0)
    BY SmallBundles, BundlesAdd
  <2>3. Has(g.bank, Plus(One(r), One(s))) <=>
           \A q \in Resource : g.bank[q] >= (IF q = r THEN 1 ELSE 0) + (IF q = s THEN 1 ELSE 0)
    BY <2>2 DEF Has
  <2> QED
    BY <2>1, <2>3
<1>4. ASSUME NEW i \in CardsOf(g, p), NEW r \in Resource, NEW s \in Resource
      PROVE  ValidPlayYearOfPlenty(g, p, i, r, s) <=>
                /\ i \in Playing(g, p, "YEAR_OF_PLENTY")
                /\ g.bank[r] > 0 /\ g.bank[s] > 0 /\ (r = s => g.bank[r] >= 2)
  BY <1>1, <1>3 DEF ValidPlayYearOfPlenty
<1>5. Playing(g, p, "YEAR_OF_PLENTY") \subseteq CardsOf(g, p)
  BY <1>1
<1> QED
  BY <1>4, <1>5 DEF PlentyItem

LEMMA MenuIsAccepted ==
  ASSUME NEW g, Fair(g), NEW p \in Player
  PROVE  LegalActions(g, p) = Accepted(g, p)
<1> DEFINE victim == Player \cup {NoOne}
<1>1. \A phase : phase # "GAME_OVER" => (Active(g, p, phase) <=> Free(g, p) /\ Is(g, phase))
  BY FreeIsActive
<1>2. /\ Active(g, p, "ACTION_PHASE") <=> Acting(g, p)
      /\ Active(g, p, "WAITING_FOR_ROLL") <=> RollItem(g, p)
      /\ Active(g, p, "MOVING_THIEF") <=> Free(g, p) /\ Is(g, "MOVING_THIEF")
  BY <1>1 DEF Acting, RollItem
<1>3. ValidThiefHexes(g) \subseteq Hex
  BY DEF ValidThiefHexes
<1>4. ThiefItem(g, p) = {h \in Hex : \E q \in victim : ValidMoveThief(g, p, h, q)}
  BY <1>2, <1>3, ThiefChoices DEF ThiefItem, ValidMoveThief
<1>5. MaritimeItem(g, p) = {x \in Resource \X Resource : ValidMaritimeTrade(g, p, x[1], x[2])}
  <2>1. \A r \in Resource : g.bank[r] \in Nat
    BY DEF Fair, Solid, Purse, Bundle
  <2>2. \A r \in Resource : g.bank[r] > 0 <=> g.bank[r] >= 1
    BY <2>1
  <2> QED
    BY <1>2, <2>2 DEF MaritimeItem, ValidMaritimeTrade
<1>6. RoadItem(g, p) = {e \in Edge : ValidBuildRoad(g, p, e)}
  BY <1>2 DEF RoadItem, ValidBuildRoad
<1>7. SettlementItem(g, p) = {v \in Vertex : ValidBuildSettlement(g, p, v)}
  BY <1>2 DEF SettlementItem, ValidBuildSettlement
<1>8. CityItem(g, p) = {v \in Vertex : ValidUpgradeCity(g, p, v)}
  BY <1>2 DEF CityItem, ValidUpgradeCity, BuildingsOf
<1>9. BuyItem(g, p) <=> ValidBuySpecialCard(g, p)
  BY <1>2 DEF BuyItem, ValidBuySpecialCard
<1>10. /\ Playing(g, p, "KNIGHT") = {i \in CardsOf(g, p) : ValidDevelopmentCardPlay(g, p, i, "KNIGHT")}
       /\ Playing(g, p, "MONOPOLY") = {i \in CardsOf(g, p) : ValidDevelopmentCardPlay(g, p, i, "MONOPOLY")}
  BY PlayingIsValid
<1>11. KnightItem(g, p) = {x \in CardsOf(g, p) \X Hex :
                             \E q \in victim : ValidPlayKnight(g, p, x[1], x[2], q)}
  <2>1. \A i, h : (\E q \in victim : ValidPlayKnight(g, p, i, h, q)) <=>
                     ValidDevelopmentCardPlay(g, p, i, "KNIGHT") /\ h \in ValidThiefHexes(g)
    BY ThiefChoices DEF ValidPlayKnight
  <2> QED
    BY <1>3, <1>10, <2>1 DEF KnightItem
<1>12. MonopolyItem(g, p) = {x \in CardsOf(g, p) \X Resource :
                               ValidDevelopmentCardPlay(g, p, x[1], "MONOPOLY")}
  BY <1>10 DEF MonopolyItem
<1>13. RollItem(g, p) = ValidRollDice(g, p) /\ Acting(g, p) = ValidEndTurn(g, p)
  <2>1. ValidRollDice(g, p) = Active(g, p, "WAITING_FOR_ROLL")
    BY DEF ValidRollDice
  <2>2. Active(g, p, "WAITING_FOR_ROLL") = RollItem(g, p)
    BY <1>2 DEF Active, RollItem
  <2>3. ValidEndTurn(g, p) = Active(g, p, "ACTION_PHASE")
    BY DEF ValidEndTurn
  <2>4. Active(g, p, "ACTION_PHASE") = Acting(g, p)
    BY <1>2 DEF Active, Acting
  <2> QED
    BY <2>1, <2>2, <2>3, <2>4
<1>16. BuyItem(g, p) = ValidBuySpecialCard(g, p)
  BY <1>9 DEF BuyItem, ValidBuySpecialCard
<1>14. Menu(g, p) = Accepted(g, p)
  BY <1>4, <1>5, <1>6, <1>7, <1>8, <1>16, <1>11, <1>12, <1>13,
     DiscardsAccepted, SetupsAccepted, BuilderAccepted, PlentyAccepted DEF Menu, Accepted
<1> QED
  BY <1>14, MenuIs

-----------------------------------------------------------------------------
(* The menu of whoever sees a view only.                                   *)

LEMMA TradeShownIs ==
  ASSUME NEW trade, Deal(trade), NEW p
  PROVE  /\ TradeFor(trade, p).status = trade.status
         /\ trade # NoTrade => /\ TradeFor(trade, p).from = trade.from
                               /\ TradeFor(trade, p) # NoTrade
         /\ trade = NoTrade \/ CanSeeTrade(trade, p) => TradeFor(trade, p) = trade
<1>1. CASE trade = NoTrade \/ CanSeeTrade(trade, p)
  BY <1>1 DEF TradeFor
<1>2. CASE ~(trade = NoTrade \/ CanSeeTrade(trade, p))
  <2>1. DOMAIN trade = {"from", "recipients", "offered", "requested", "status", "responses"}
    BY <1>2 DEF Deal
  <2> DEFINE a == [trade EXCEPT !.offered = Nothing]
             b == [a EXCEPT !.requested = Nothing]
             c == [b EXCEPT !.responses = <<>>]
  <2>2. a.status = trade.status /\ a.from = trade.from /\ DOMAIN a = DOMAIN trade
    BY <2>1
  <2> HIDE DEF a
  <2>3. b.status = a.status /\ b.from = a.from /\ DOMAIN b = DOMAIN a
    BY <2>1, <2>2
  <2> HIDE DEF b
  <2>4. c.status = b.status /\ c.from = b.from /\ DOMAIN c = DOMAIN b
    BY <2>1, <2>2, <2>3
  <2>5. TradeFor(trade, p) = c
    BY <1>2 DEF TradeFor, a, b
  <2> HIDE DEF c
  <2>6. DOMAIN NoTrade = {"status"}
    BY DEF NoTrade
  <2>7. c # NoTrade
    BY <2>1, <2>2, <2>3, <2>4, <2>6
  <2> QED
    BY <1>2, <2>2, <2>3, <2>4, <2>5, <2>7
<1> QED
  BY <1>1, <1>2

\* A game rebuilt from p's view.
Guessed(g, p, hands, h) ==
    /\ Match(h)
    /\ h.phase = PhaseFor(g.phase, p)
    /\ h.turn = g.turn /\ h.roads = g.roads /\ h.buildings = g.buildings
    /\ h.thief = g.thief /\ h.bank = g.bank /\ h.hand = hands /\ h.score = g.score
    /\ h.playedCardTurn = g.playedCardTurn
    /\ h.trades = [t \in TradeId |-> TradeFor(g.trades[t], p)]
    /\ h.deck = [KNIGHT |-> SumFunctionOnSet(g.deck, DOMAIN g.deck)]
    /\ h.cards = [i \in DOMAIN g.cards |-> IF Shown(g, p, g.cards[i].owner) THEN g.cards[i] ELSE Absent]

LEMMA RebuiltIs ==
  ASSUME NEW g, NEW p, NEW hands
  PROVE  Guessed(g, p, hands, Rebuilt(View(g, p), hands, FALSE))
<1> DEFINE view == View(g, p)
<1>1. /\ view.rules = g.rules /\ view.phase = PhaseFor(g.phase, p) /\ view.turn = g.turn /\ view.roads = g.roads
      /\ view.buildings = g.buildings /\ view.thief = g.thief /\ view.bank = g.bank
      /\ view.score = g.score /\ view.playedCardTurn = g.playedCardTurn
      /\ view.cards = [i \in DOMAIN g.cards |-> IF Shown(g, p, g.cards[i].owner)
                                                THEN g.cards[i] ELSE Absent]
      /\ view.trades = [t \in TradeId |-> TradeFor(g.trades[t], p)]
      /\ view.deckLeft = SumFunctionOnSet(g.deck, DOMAIN g.deck)
  BY DEF View
<1> DEFINE h == Rebuilt(view, hands, FALSE)
<1> HIDE DEF view
<1>3. Match(h)
  BY DEF Match, Fields, Rebuilt
<1>4. /\ h.phase = view.phase /\ h.turn = view.turn /\ h.roads = view.roads
      /\ h.buildings = view.buildings /\ h.thief = view.thief /\ h.bank = view.bank
      /\ h.hand = hands /\ h.score = view.score /\ h.playedCardTurn = view.playedCardTurn
      /\ h.trades = view.trades /\ h.deck = [KNIGHT |-> view.deckLeft] /\ h.cards = view.cards
  BY DEF Rebuilt
<1> HIDE DEF h
<1>5. Guessed(g, p, hands, h)
  BY <1>1, <1>3, <1>4 DEF Guessed
<1> QED
  BY <1>5 DEF h, view

LEMMA RebuiltAlike ==
  ASSUME NEW g, Solid(g), NEW p \in Player, NEW hands, hands[p] = g.hand[p],
         NEW h, Guessed(g, p, hands, h)
  PROVE  SameTable(g, h, p)
<1>1. /\ Match(h)
      /\ Alike(g.phase, h.phase)
      /\ h.turn = g.turn /\ h.roads = g.roads /\ h.buildings = g.buildings
      /\ h.thief = g.thief /\ h.bank = g.bank /\ h.hand = hands
      /\ h.playedCardTurn = g.playedCardTurn
      /\ h.trades = [t \in TradeId |-> TradeFor(g.trades[t], p)]
      /\ h.deck = [KNIGHT |-> SumFunctionOnSet(g.deck, DOMAIN g.deck)]
      /\ DOMAIN h.cards = DOMAIN g.cards
      /\ \A i \in DOMAIN g.cards : h.cards[i] = IF Shown(g, p, g.cards[i].owner)
                                                THEN g.cards[i] ELSE Absent
  BY PhaseShownIs DEF Guessed
<1>2. Match(g) /\ Deals(g.trades) /\ Stocked(g.deck, g.cards) /\ g.cards \in Seq(Card)
  BY DEF Solid
<1>3. CardsOf(h, p) = CardsOf(g, p) /\ \A i \in CardsOf(g, p) : h.cards[i] = g.cards[i]
  <2>1. Absent.owner # p
    BY PlayersSeated DEF Absent
  <2>2. \A i \in DOMAIN g.cards : g.cards[i].owner = p => h.cards[i] = g.cards[i]
    BY <1>1 DEF Shown
  <2>3. \A i \in DOMAIN g.cards : h.cards[i].owner = p => g.cards[i].owner = p
    BY <1>1, <2>1
  <2> QED
    BY <1>1, <2>2, <2>3 DEF CardsOf
<1>4. ActiveCollectingTrades(h, p) = ActiveCollectingTrades(g, p)
  <2>1. DOMAIN g.trades = TradeId /\ DOMAIN h.trades = TradeId
    BY <1>1, <1>2 DEF Deals
  <2>2. ASSUME NEW t \in TradeId
        PROVE  Collecting(h, t) /\ h.trades[t].from = p <=> Collecting(g, t) /\ g.trades[t].from = p
    <3>1. Deal(g.trades[t]) /\ h.trades[t] = TradeFor(g.trades[t], p)
      BY <1>1, <1>2 DEF Deals
    <3>2. h.trades[t].status = g.trades[t].status /\
          (g.trades[t] # NoTrade => h.trades[t].from = g.trades[t].from)
      <4> DEFINE trade == g.trades[t]
      <4>1. Deal(trade) /\ h.trades[t] = TradeFor(trade, p)
        BY <3>1
      <4> HIDE DEF trade
      <4>2. TradeFor(trade, p).status = trade.status
            /\ (trade # NoTrade => TradeFor(trade, p).from = trade.from)
        BY <4>1, TradeShownIs
      <4> QED
        BY <4>1, <4>2 DEF trade
    <3>3. g.trades[t] = NoTrade => ~Collecting(g, t)
      BY DEF Collecting, NoTrade
    <3> QED
      BY <3>2, <3>3 DEF Collecting
  <2> QED
    BY <2>1, <2>2 DEF ActiveCollectingTrades
<1>5. InDeck(h) = {} <=> InDeck(g) = {}
  <2> DEFINE d == g.deck
             all == SumFunctionOnSet(d, DOMAIN d)
  <2>1. IsFiniteSet(DOMAIN d) /\ \A x \in DOMAIN d : d[x] \in Nat
    BY <1>2, CardTypesFinite DEF Stocked
  <2>2. all \in Nat /\ (all > 0 <=> \E x \in DOMAIN d : d[x] > 0)
    <3> HIDE DEF d
    <3> QED
      BY <2>1, SumNat, SumPositive
  <2>3. InDeck(g) = {} <=> ~(all > 0)
    <3>1. InDeck(g) = {x \in DOMAIN d : d[x] > 0}
      BY DEF InDeck
    <3> HIDE DEF d, all
    <3> QED
      BY <2>2, <3>1
  <2>4. h.deck = [KNIGHT |-> all]
    BY <1>1
  <2> HIDE DEF all
  <2>5. InDeck(h) = {} <=> ~(all > 0)
    <3> DEFINE one == [KNIGHT |-> all]
    <3>1. DOMAIN one = {"KNIGHT"} /\ one.KNIGHT = all
      OBVIOUS
    <3>2. InDeck(h) = {x \in DOMAIN one : one[x] > 0}
      BY <2>4 DEF InDeck
    <3> HIDE DEF one
    <3>3. \A x \in DOMAIN one : one[x] = all
      BY <3>1
    <3>4. "KNIGHT" \in DOMAIN one
      BY <3>1
    <3> QED
      BY <3>2, <3>3, <3>4
  <2> QED
    BY <2>3, <2>5
<1> QED
  BY <1>1, <1>2, <1>3, <1>4, <1>5 DEF SameTable

LEMMA ClientMenuIs ==
  ASSUME NEW g, Solid(g), NEW p \in Player
  PROVE  /\ LegalActions(ClientState(View(g, p), p), p) = LegalActions(g, p)
         /\ \A h \in Hex : EligibleStealTargets(g, p, h) = VisibleStealTargets(View(g, p), p, h)
<1>1. View(g, p).hand = g.hand[p] /\ View(g, p).buildings = g.buildings
  BY DEF View
<1>2. View(g, p).handCount = [q \in Player |-> Count(g.hand[q])]
  BY DEF View
<1> DEFINE hands == [q \in Player |-> IF q = p THEN View(g, p).hand ELSE Nothing]
           h == Rebuilt(View(g, p), hands, FALSE)
<1>3. hands[p] = g.hand[p]
  BY <1>1
<1>4. ClientState(View(g, p), p) = h
  BY DEF ClientState
<1>5. SameTable(g, h, p)
  <2> HIDE DEF hands
  <2> QED
    BY <1>3, RebuiltAlike, RebuiltIs
<1>6. LegalActions(h, p) = LegalActions(g, p)
  <2> HIDE DEF h
  <2> QED
    BY <1>5, SameMenu
<1>7. \A k \in Hex : EligibleStealTargets(g, p, k) = VisibleStealTargets(View(g, p), p, k)
  BY <1>1, <1>2 DEF EligibleStealTargets, VisibleStealTargets
<1> QED
  BY <1>4, <1>6, <1>7

-----------------------------------------------------------------------------
(* The hands a bot guesses.  The cards it does not see, so many of each    *)
(* player, one after the other in seat order.                              *)

LEMMA Repeated ==
  ASSUME NEW T, NEW p \in T, NEW m \in Nat
  PROVE  /\ [k \in 1..m |-> p] \in Seq(T) /\ Len([k \in 1..m |-> p]) = m
         /\ \A k \in 1..m : [j \in 1..m |-> p][k] = p
OBVIOUS

FlatTable(h, parts, n) ==
  h = [i \in 1..n |-> IF i = 1 THEN parts[i] ELSE h[i - 1] \o parts[i]]

Flat(flat, parts, n) ==
  /\ flat[1] = parts[1] /\ FlattenSeq(parts) = flat[n]
  /\ \A i \in 1..n : i # n => flat[i + 1] = flat[i] \o parts[i + 1]

LEMMA FlattenIs ==
  ASSUME NEW T, NEW n \in Nat \ {0}, NEW parts \in [1..n -> Seq(T)]
  PROVE  \E flat \in [1..n -> Seq(T)] : Flat(flat, parts, n)
<1> DEFINE D == 1..n
           S == Seq(T)
           Phi == [h \in [D -> S] |-> [i \in D |-> IF i = 1 THEN parts[i] ELSE h[i - 1] \o parts[i]]]
           rank == [i \in D |-> i]
<1>1. \A i \in D : i # 1 => i - 1 \in D /\ i - 1 < i
  OBVIOUS
<1>2. \A h \in [D -> S], i \in D : (IF i = 1 THEN parts[i] ELSE h[i - 1] \o parts[i]) \in S
  BY <1>1
<1>3. Phi \in [[D -> S] -> [D -> S]]
  BY <1>2
<1>4. ASSUME NEW g \in [D -> S], NEW h \in [D -> S], NEW i \in D,
             \A y \in D : rank[y] < rank[i] => g[y] = h[y]
      PROVE  Phi[g][i] = Phi[h][i]
  <2>1. i # 1 => g[i - 1] = h[i - 1]
    BY <1>1, <1>4
  <2> QED
    BY <2>1
<1>5. rank \in [D -> Nat] /\ (\A x \in D : rank[x] <= n) /\ S # {} /\ n \in Nat
  <2>1. <<>> \in S
    OBVIOUS
  <2> QED
    BY <2>1
<1> HIDE DEF Phi, rank, D, S
<1>6. \A g, h \in [D -> S] : \A i \in D :
         (\A y \in D : rank[y] < rank[i] => g[y] = h[y]) => Phi[g][i] = Phi[h][i]
  BY <1>4
<1>7. Descends(D, S, rank, n, Phi)
  BY <1>3, <1>5, <1>6 DEF Descends
<1>8. PICK h \in [D -> S] : h = Phi[h]
  BY <1>7, RecursionSolved
<1>9. FlatTable(h, parts, n)
  BY <1>8 DEF FlatTable, Phi, D
<1> DEFINE flat == CHOOSE k : FlatTable(k, parts, n)
<1>10. FlatTable(flat, parts, n)
  BY <1>9
<1>11. Len(parts) = n
  OBVIOUS
<1>12. FlattenSeq(parts) = flat[n]
  BY <1>11 DEF FlattenSeq, FlatTable
<1> HIDE DEF flat
<1>13. flat[1] = parts[1] /\ \A i \in D : i # n => flat[i + 1] = flat[i] \o parts[i + 1]
  <2>1. \A i \in D : flat[i] = IF i = 1 THEN parts[i] ELSE flat[i - 1] \o parts[i]
    BY <1>10 DEF FlatTable, D
  <2>2. 1 \in D /\ \A i \in D : i # n => i + 1 \in D /\ i + 1 # 1 /\ (i + 1) - 1 = i
    BY DEF D
  <2> HIDE DEF FlatTable
  <2> QED
    BY <2>1, <2>2
<1>14. \A i \in D : flat[i] \in S
  <2> DEFINE P == {i \in Nat : i + 1 \in D => flat[i + 1] \in S}
  <2>1. 0 \in P
    BY <1>13 DEF S
  <2>2. ASSUME NEW i \in Nat, i \in P PROVE i + 1 \in P
    <3> SUFFICES ASSUME (i + 1) + 1 \in D PROVE flat[(i + 1) + 1] \in S
      OBVIOUS
    <3>1. i + 1 \in D /\ i + 1 # n
      BY DEF D
    <3>2. flat[i + 1] \in S /\ parts[(i + 1) + 1] \in S
      BY <2>2, <3>1 DEF D, S
    <3>3. flat[(i + 1) + 1] = flat[i + 1] \o parts[(i + 1) + 1]
      BY <1>13, <3>1
    <3> QED
      BY <3>2, <3>3 DEF S
  <2>3. Nat \subseteq P
    <3> HIDE DEF P
    <3> QED
      BY <2>1, <2>2, AllNumbers
  <2> SUFFICES ASSUME NEW i \in D PROVE flat[i] \in S
    OBVIOUS
  <2>4. i - 1 \in Nat /\ (i - 1) + 1 = i
    BY DEF D
  <2>5. i - 1 \in P
    BY <2>3, <2>4
  <2> QED
    BY <2>4, <2>5
<1>15. flat \in [D -> S]
  <2>1. flat = [i \in D |-> flat[i]]
    BY <1>10 DEF FlatTable, D
  <2> QED
    BY <1>14, <2>1
<1>16. Flat(flat, parts, n)
  BY <1>12, <1>13 DEF Flat, D
<1> QED
  BY <1>15, <1>16 DEF D, S

\* Where the cards of each seat begin and end.
Unseen(c, bot, i) == IF PlayerOrder[i] = bot THEN 0 ELSE c[PlayerOrder[i]]
PartOf(part, c, bot, i) ==
    /\ part \in Seq(Player) /\ Len(part) = Unseen(c, bot, i)
    /\ \A k \in 1..Len(part) : part[k] = PlayerOrder[i]
Spread(H, c, bot, off, n) ==
    /\ off \in [0..n -> Nat] /\ off[0] = 0
    /\ H \in Seq(Player) /\ Len(H) = off[n]
    /\ \A i \in 1..n : off[i] = off[i - 1] + Unseen(c, bot, i)
    /\ \A i \in 1..n : \A k \in (off[i - 1] + 1)..off[i] : H[k] = PlayerOrder[i]

LEMMA SpreadGoesOn ==
  ASSUME NEW c \in [Player -> Nat], NEW bot \in Player, NEW n \in Nat, n + 1 \in 1..Len(PlayerOrder),
         NEW H, NEW off, Spread(H, c, bot, off, n), NEW part,
         PartOf(part, c, bot, n + 1)
  PROVE  \E more : Spread(H \o part, c, bot, more, n + 1)
<1> DEFINE p == PlayerOrder[n + 1]
           m == Unseen(c, bot, n + 1)
           more == [i \in 0..(n + 1) |-> IF i = n + 1 THEN off[n] + m ELSE off[i]]
<1>1. p \in Player /\ m \in Nat
  <2>1. p \in Player
    BY PlayersFinite, PlayersSeated
  <2> QED
    BY <2>1 DEF Unseen
<1>2. part \in Seq(Player) /\ Len(part) = m /\ \A k \in 1..m : part[k] = p
  BY DEF PartOf
<1>3. /\ off \in [0..n -> Nat] /\ off[0] = 0 /\ H \in Seq(Player) /\ Len(H) = off[n]
      /\ \A i \in 1..n : off[i] = off[i - 1] + Unseen(c, bot, i)
      /\ \A i \in 1..n : \A k \in (off[i - 1] + 1)..off[i] : H[k] = PlayerOrder[i]
  BY DEF Spread
<1> HIDE DEF m, p
<1>4. /\ more \in [0..(n + 1) -> Nat] /\ more[0] = 0 /\ more[n + 1] = off[n] + m
      /\ \A i \in 0..n : more[i] = off[i]
  BY <1>1, <1>3
<1> HIDE DEF more
<1>5. /\ H \o part \in Seq(Player) /\ Len(H \o part) = off[n] + m
      /\ \A k \in 1..Len(H) : (H \o part)[k] = H[k]
      /\ \A k \in 1..m : (H \o part)[Len(H) + k] = part[k]
  <2>1. H \in Seq(Player) /\ part \in Seq(Player) /\ Len(H) \in Nat
    BY <1>2, <1>3
  <2>2. H \o part \in Seq(Player) /\ Len(H \o part) = Len(H) + Len(part)
    BY <2>1
  <2>3. \A k \in 1..Len(H) : (H \o part)[k] = H[k]
    BY <2>1
  <2>4. \A k \in 1..Len(part) : (H \o part)[Len(H) + k] = part[k]
    BY <2>1
  <2>5. Len(H) = off[n] /\ Len(part) = m
    BY <1>2, <1>3
  <2> QED
    BY <2>2, <2>3, <2>4, <2>5
<1>6. \A i \in 1..(n + 1) : more[i] = more[i - 1] + Unseen(c, bot, i)
  <2> SUFFICES ASSUME NEW i \in 1..(n + 1) PROVE more[i] = more[i - 1] + Unseen(c, bot, i)
    OBVIOUS
  <2>1. CASE i = n + 1
    BY <1>4, <2>1 DEF m
  <2>2. CASE i # n + 1
    BY <1>3, <1>4, <2>2
  <2> QED
    BY <2>1, <2>2
<1>7. \A i \in 1..n : off[i] <= off[n]
  <2> DEFINE P == {k \in Nat : k <= n => off[n - k] <= off[n]}
  <2>1. 0 \in P
    BY <1>3
  <2>2. ASSUME NEW k \in Nat, k \in P PROVE k + 1 \in P
    <3> SUFFICES ASSUME k + 1 <= n PROVE off[n - (k + 1)] <= off[n]
      OBVIOUS
    <3>1. n - k \in 1..n /\ (n - k) - 1 = n - (k + 1) /\ n - (k + 1) \in 0..n
      OBVIOUS
    <3>2. off[n - k] = off[n - (k + 1)] + Unseen(c, bot, n - k)
      BY <1>3, <3>1
    <3>3. Unseen(c, bot, n - k) \in Nat
      <4>1. n - k \in 1..Len(PlayerOrder)
        BY <3>1, PlayersFinite
      <4>2. PlayerOrder[n - k] \in Player
        BY <4>1, PlayersFinite, PlayersSeated
      <4> QED
        BY <4>2 DEF Unseen
    <3>4. off[n - k] <= off[n] /\ off[n] \in Nat /\ off[n - (k + 1)] \in Nat /\ off[n - k] \in Nat
      BY <1>3, <2>2, <3>1
    <3> QED
      BY <3>2, <3>3, <3>4
  <2>3. Nat \subseteq P
    <3> HIDE DEF P
    <3> QED
      BY <2>1, <2>2, AllNumbers
  <2> SUFFICES ASSUME NEW i \in 1..n PROVE off[i] <= off[n]
    OBVIOUS
  <2>4. n - i \in Nat /\ n - i <= n /\ n - (n - i) = i
    OBVIOUS
  <2>5. n - i \in P
    BY <2>3, <2>4
  <2> QED
    BY <2>4, <2>5
<1>8. \A i \in 1..(n + 1) : \A k \in (more[i - 1] + 1)..more[i] : (H \o part)[k] = PlayerOrder[i]
  <2> SUFFICES ASSUME NEW i \in 1..(n + 1), NEW k \in (more[i - 1] + 1)..more[i]
               PROVE  (H \o part)[k] = PlayerOrder[i]
    OBVIOUS
  <2>1. CASE i = n + 1
    <3>1. k \in (off[n] + 1)..(off[n] + m) /\ off[n] \in Nat
      BY <1>3, <1>4, <2>1
    <3>2. k - off[n] \in 1..m /\ off[n] + (k - off[n]) = k
      BY <1>1, <3>1
    <3>3. (H \o part)[off[n] + (k - off[n])] = p
      BY <1>2, <1>3, <1>5, <3>2
    <3> QED
      BY <2>1, <3>2, <3>3 DEF p
  <2>2. CASE i # n + 1
    <3>1. i \in 1..n /\ i - 1 \in 0..n /\ i \in 0..n
      BY <2>2
    <3>2. k \in (off[i - 1] + 1)..off[i] /\ off[i - 1] \in Nat /\ off[i] \in Nat /\ off[i] <= off[n]
      BY <1>3, <1>4, <1>7, <3>1
    <3>3. Len(H) = off[n] /\ off[n] \in Nat
      BY <1>3
    <3>4. k \in 1..Len(H)
      BY <3>2, <3>3
    <3>5. \A j \in (off[i - 1] + 1)..off[i] : H[j] = PlayerOrder[i]
      BY <1>3, <3>1
    <3>6. H[k] = PlayerOrder[i]
      BY <3>2, <3>5
    <3> QED
      BY <1>5, <3>4, <3>6
  <2> QED
    BY <2>1, <2>2
<1> DEFINE all == H \o part
<1> HIDE DEF all
<1>9. Spread(all, c, bot, more, n + 1)
  BY <1>4, <1>5, <1>6, <1>8 DEF Spread, all
<1> QED
  BY <1>9 DEF all

LEMMA HiddenCardsSpread ==
  ASSUME NEW view, NEW c \in [Player -> Nat], view.handCount = c, NEW bot \in Player
  PROVE  \E off : Spread(HiddenCards(view, bot), c, bot, off, Len(PlayerOrder))
<1> DEFINE N == Len(PlayerOrder)
           parts == [i \in DOMAIN PlayerOrder |->
                        IF PlayerOrder[i] = bot THEN <<>>
                        ELSE [n \in 1..view.handCount[PlayerOrder[i]] |-> PlayerOrder[i]]]
<1>1. N \in Nat \ {0} /\ DOMAIN PlayerOrder = 1..N /\ \A i \in 1..N : PlayerOrder[i] \in Player
  BY PlayersFinite, PlayersSeated
<1>2. \A i \in 1..N : parts[i] = IF PlayerOrder[i] = bot THEN <<>>
                                 ELSE [k \in 1..c[PlayerOrder[i]] |-> PlayerOrder[i]]
  BY <1>1
<1>3. \A i \in 1..N : PartOf(parts[i], c, bot, i)
  <2> SUFFICES ASSUME NEW i \in 1..N PROVE PartOf(parts[i], c, bot, i)
    OBVIOUS
  <2> HIDE DEF parts
  <2>1. CASE PlayerOrder[i] = bot
    <3>1. parts[i] = <<>> /\ Unseen(c, bot, i) = 0
      BY <1>2, <2>1 DEF Unseen
    <3> QED
      BY <3>1 DEF PartOf
  <2>2. CASE PlayerOrder[i] # bot
    <3> DEFINE p == PlayerOrder[i]
               m == c[p]
               cards == [k \in 1..m |-> p]
    <3>1. p \in Player /\ m \in Nat
      BY <1>1
    <3>2. parts[i] = cards /\ Unseen(c, bot, i) = m
      BY <1>2, <2>2 DEF Unseen
    <3>3. cards \in Seq(Player) /\ Len(cards) = m /\ \A k \in 1..m : cards[k] = p
      <4> HIDE DEF p, m
      <4> QED
        BY <3>1, Repeated
    <3> HIDE DEF cards
    <3> QED
      BY <3>2, <3>3 DEF PartOf
  <2> QED
    BY <2>1, <2>2
<1>4. parts \in [1..N -> Seq(Player)]
  BY <1>1, <1>3 DEF PartOf
<1>5. HiddenCards(view, bot) = FlattenSeq(parts)
  BY DEF HiddenCards
<1> HIDE DEF parts, N
<1>11. PICK flat \in [1..N -> Seq(Player)] : Flat(flat, parts, N)
  BY <1>1, <1>4, FlattenIs
<1>6. /\ flat[1] = parts[1] /\ FlattenSeq(parts) = flat[N]
      /\ \A i \in 1..N : i # N => flat[i + 1] = flat[i] \o parts[i + 1]
  BY <1>11 DEF Flat
<1> DEFINE P == {i \in Nat : i + 1 \in 1..N => \E off : Spread(flat[i + 1], c, bot, off, i + 1)}
<1>7. 0 \in P
  <2>1. Spread(<<>>, c, bot, [i \in 0..0 |-> 0], 0)
    BY DEF Spread
  <2>2. 0 + 1 \in 1..N /\ PartOf(parts[1], c, bot, 0 + 1)
    <3>1. 0 + 1 = 1 /\ 1 \in 1..N
      BY <1>1
    <3> QED
      BY <1>3, <3>1
  <2>3. \E more : Spread(<<>> \o parts[1], c, bot, more, 0 + 1)
    BY <2>1, <2>2, SpreadGoesOn DEF N
  <2>4. <<>> \o parts[1] = flat[1]
    <3>1. parts[1] \in Seq(Player)
      BY <1>1, <1>3 DEF PartOf
    <3> QED
      BY <1>6, <3>1
  <2> QED
    BY <2>3, <2>4
<1>8. ASSUME NEW i \in Nat, i \in P PROVE i + 1 \in P
  <2> SUFFICES ASSUME (i + 1) + 1 \in 1..N
               PROVE  \E off : Spread(flat[(i + 1) + 1], c, bot, off, (i + 1) + 1)
    OBVIOUS
  <2>1. i + 1 \in 1..N /\ i + 1 # N /\ i + 1 \in Nat
    BY <1>1
  <2>2. PICK off : Spread(flat[i + 1], c, bot, off, i + 1)
    BY <1>8, <2>1
  <2>3. PartOf(parts[(i + 1) + 1], c, bot, (i + 1) + 1)
    BY <1>3
  <2> DEFINE n == i + 1
  <2>4. n \in Nat /\ n + 1 \in 1..N /\ Spread(flat[n], c, bot, off, n) /\ PartOf(parts[n + 1], c, bot, n + 1)
    BY <2>1, <2>2, <2>3
  <2>5. flat[n + 1] = flat[n] \o parts[n + 1]
    BY <1>6, <2>1
  <2> HIDE DEF n
  <2>6. \E more : Spread(flat[n] \o parts[n + 1], c, bot, more, n + 1)
    BY <2>4, SpreadGoesOn DEF N
  <2> QED
    BY <2>5, <2>6 DEF n
<1>9. N - 1 \in P
  <2>1. Nat \subseteq P
    <3> HIDE DEF P
    <3> QED
      BY <1>7, <1>8, AllNumbers
  <2>2. N - 1 \in Nat
    BY <1>1
  <2> HIDE DEF P
  <2> QED
    BY <2>1, <2>2
<1>10. \E off : Spread(flat[N], c, bot, off, N)
  <2>1. (N - 1) + 1 = N /\ N \in 1..N
    BY <1>1
  <2> QED
    BY <1>9, <2>1
<1> QED
  BY <1>5, <1>6, <1>10 DEF N

LEMMA UnseenNat ==
  ASSUME NEW c \in [Player -> Nat], NEW bot, NEW i \in 1..Len(PlayerOrder)
  PROVE  PlayerOrder[i] \in Player /\ Unseen(c, bot, i) \in Nat
<1>1. PlayerOrder[i] \in Player
  BY PlayersFinite, PlayersSeated
<1> QED
  BY <1>1 DEF Unseen

LEMMA SpreadClimbs ==
  ASSUME NEW c \in [Player -> Nat], NEW bot, NEW H, NEW off, Spread(H, c, bot, off, Len(PlayerOrder)),
         NEW i \in 0..Len(PlayerOrder), NEW j \in i..Len(PlayerOrder)
  PROVE  off[i] <= off[j]
<1> DEFINE N == Len(PlayerOrder)
<1>1. N \in Nat
  BY PlayersFinite
<1>2. /\ off \in [0..N -> Nat]
      /\ \A k \in 1..N : off[k] = off[k - 1] + Unseen(c, bot, k) /\ Unseen(c, bot, k) \in Nat
  BY UnseenNat DEF Spread
<1> HIDE DEF N
<1> DEFINE P == {k \in Nat : i + k <= N => off[i] <= off[i + k]}
<1>3. i \in 0..N /\ j \in i..N
  BY DEF N
<1>4. 0 \in P
  BY <1>1, <1>2, <1>3
<1>5. ASSUME NEW k \in Nat, k \in P PROVE k + 1 \in P
  <2> SUFFICES ASSUME i + (k + 1) <= N PROVE off[i] <= off[i + (k + 1)]
    OBVIOUS
  <2>1. i + (k + 1) \in 1..N /\ (i + (k + 1)) - 1 = i + k /\ i + k \in 0..N /\ i + k <= N
        /\ i + (k + 1) \in 0..N
    BY <1>1, <1>3
  <2>2. off[i + (k + 1)] = off[i + k] + Unseen(c, bot, i + (k + 1)) /\ Unseen(c, bot, i + (k + 1)) \in Nat
    BY <1>2, <2>1
  <2>3. off[i] <= off[i + k] /\ off[i] \in Nat /\ off[i + k] \in Nat /\ off[i + (k + 1)] \in Nat
    BY <1>2, <1>3, <1>5, <2>1
  <2> QED
    BY <2>2, <2>3
<1>6. Nat \subseteq P
  <2> HIDE DEF P
  <2> QED
    BY <1>4, <1>5, AllNumbers
<1>7. j - i \in Nat /\ i + (j - i) = j /\ j <= N
  BY <1>1, <1>3
<1>8. j - i \in P
  BY <1>6, <1>7
<1> QED
  BY <1>7, <1>8

\* The seat a card belongs to.
Within(off, i, k) == off[i - 1] < k /\ k <= off[i]

LEMMA SeatOfCard ==
  ASSUME NEW c \in [Player -> Nat], NEW bot, NEW H, NEW off, Spread(H, c, bot, off, Len(PlayerOrder)),
         NEW k \in 1..Len(H)
  PROVE  \E i \in 1..Len(PlayerOrder) :
            /\ Within(off, i, k) /\ PlayerOrder[i] # bot /\ H[k] = PlayerOrder[i]
            /\ \A j \in 1..Len(PlayerOrder) : j # i => k <= off[j - 1] \/ off[j] < k
<1> DEFINE N == Len(PlayerOrder)
           T == {i \in 0..N : k <= off[i]}
<1>1. N \in Nat \ {0}
  BY PlayersFinite
<1>2. /\ off \in [0..N -> Nat] /\ off[0] = 0 /\ Len(H) = off[N]
      /\ \A i \in 1..N : off[i] = off[i - 1] + Unseen(c, bot, i)
      /\ \A i \in 1..N : \A m \in (off[i - 1] + 1)..off[i] : H[m] = PlayerOrder[i]
  BY DEF Spread
<1>9. \A i \in 0..N, j \in 0..N : i <= j => off[i] <= off[j]
  <2> SUFFICES ASSUME NEW i \in 0..N, NEW j \in 0..N, i <= j PROVE off[i] <= off[j]
    OBVIOUS
  <2>1. j \in i..N
    BY <1>1
  <2> QED
    BY <2>1, SpreadClimbs
<1> HIDE DEF N
<1>3. T \in SUBSET Nat /\ N \in T
  BY <1>1, <1>2
<1>4. PICK i \in T : \A m \in T : i <= m
  <2> HIDE DEF T
  <2> QED
    BY <1>3, LeastNumber
<1>5. i \in 1..N /\ i - 1 \in 0..N
  BY <1>1, <1>2, <1>4
<1>6. ~(k <= off[i - 1])
  <2>1. i - 1 \notin T
    BY <1>3, <1>4, <1>5
  <2> QED
    BY <1>5, <2>1
<1>7. Within(off, i, k) /\ H[k] = PlayerOrder[i]
  <2>1. off[i - 1] \in Nat /\ off[i] \in Nat /\ k \in Nat /\ k <= off[i] /\ off[i - 1] < k
    BY <1>2, <1>4, <1>5, <1>6
  <2>2. k \in (off[i - 1] + 1)..off[i]
    BY <2>1
  <2> QED
    BY <1>2, <1>5, <2>1, <2>2 DEF Within
<1>8. PlayerOrder[i] # bot
  <2>1. off[i] # off[i - 1]
    BY <1>4, <1>6
  <2>2. Unseen(c, bot, i) # 0
    BY <1>2, <1>5, <2>1
  <2> QED
    BY <2>2 DEF Unseen
<1>10. ASSUME NEW j \in 1..N, j # i PROVE k <= off[j - 1] \/ off[j] < k
  <2>1. CASE i < j
    <3>1. i \in 0..N /\ j - 1 \in 0..N /\ i <= j - 1
      BY <1>1, <1>5, <2>1
    <3>2. off[i] <= off[j - 1] /\ off[i] \in Nat /\ off[j - 1] \in Nat
      BY <1>2, <1>9, <3>1
    <3> QED
      BY <1>4, <3>2
  <2>2. CASE ~(i < j)
    <3>1. j \in 0..N /\ i - 1 \in 0..N /\ j <= i - 1
      BY <1>1, <1>5, <1>10, <2>2
    <3>2. off[j] <= off[i - 1] /\ off[j] \in Nat /\ off[i - 1] \in Nat
      BY <1>2, <1>9, <3>1
    <3> QED
      BY <1>6, <3>2
  <2> QED
    BY <2>1, <2>2
<1> QED
  BY <1>5, <1>7, <1>8, <1>10 DEF N

LEMMA SpreadTotal ==
  ASSUME NEW c \in [Player -> Nat], NEW bot \in Player, NEW H, NEW off,
         Spread(H, c, bot, off, Len(PlayerOrder))
  PROVE  Len(H) = SumFunctionOnSet(c, Player \ {bot})
<1> DEFINE N == Len(PlayerOrder)
           S(n) == {PlayerOrder[j] : j \in 1..n} \ {bot}
           P == {n \in Nat : n <= N => off[n] = SumFunctionOnSet(c, S(n))}
<1>1. N \in Nat /\ DOMAIN PlayerOrder = 1..N /\ \A i \in 1..N : PlayerOrder[i] \in Player
  BY PlayersFinite, PlayersSeated
<1>2. /\ off \in [0..N -> Nat] /\ off[0] = 0 /\ Len(H) = off[N]
      /\ \A i \in 1..N : off[i] = off[i - 1] + Unseen(c, bot, i)
  BY DEF Spread
<1>3. \A i, j \in 1..N : PlayerOrder[i] = PlayerOrder[j] => i = j
  BY <1>1, SeatsFit
<1>4. S(N) = Player \ {bot}
  BY <1>1 DEF Player
<1> HIDE DEF N
<1>5. \A n \in 0..N : S(n) \subseteq Player /\ IsFiniteSet(S(n))
  <2> SUFFICES ASSUME NEW n \in 0..N PROVE S(n) \subseteq Player /\ IsFiniteSet(S(n))
    OBVIOUS
  <2>1. S(n) \subseteq Player
    BY <1>1
  <2> QED
    BY <2>1, PlayersFinite, FS_Subset
<1>6. 0 \in P
  <2>1. S(0) = {}
    OBVIOUS
  <2>2. IsFiniteSet({}) /\ SumFunctionOnSet(c, {}) = 0
    BY SumZero, FS_EmptySet
  <2> QED
    BY <1>2, <2>1, <2>2
<1>7. ASSUME NEW n \in Nat, n \in P PROVE n + 1 \in P
  <2> SUFFICES ASSUME n + 1 <= N PROVE off[n + 1] = SumFunctionOnSet(c, S(n + 1))
    OBVIOUS
  <2> DEFINE p == PlayerOrder[n + 1]
  <2>1. /\ n \in 0..N /\ n + 1 \in 0..N /\ n + 1 \in 1..N /\ (n + 1) - 1 = n
        /\ 1..(n + 1) = (1..n) \cup {n + 1} /\ 1..n \subseteq 1..N /\ n + 1 \notin 1..n
    BY <1>1
  <2>2. off[n] = SumFunctionOnSet(c, S(n)) /\ off[n + 1] = off[n] + Unseen(c, bot, n + 1) /\ p \in Player
        /\ off[n] \in Nat
    BY <1>1, <1>2, <1>7, <2>1
  <2>3. p \notin S(n)
    BY <1>3, <2>1
  <2>4. CASE p = bot
    <3>1. S(n + 1) = S(n) /\ Unseen(c, bot, n + 1) = 0
      BY <2>1, <2>4 DEF Unseen
    <3>2. SumFunctionOnSet(c, S(n + 1)) = SumFunctionOnSet(c, S(n))
      BY <3>1
    <3> HIDE DEF S
    <3> QED
      BY <2>2, <3>1, <3>2
  <2>5. CASE p # bot
    <3>1. S(n + 1) = S(n) \cup {p} /\ Unseen(c, bot, n + 1) = c[p]
      BY <2>1, <2>5 DEF Unseen
    <3> DEFINE A == S(n + 1)
               B == S(n)
    <3>2. IsFiniteSet(A) /\ A \subseteq Player /\ p \in A /\ A \ {p} = B
      BY <1>5, <2>1, <2>3, <3>1
    <3>3. \A x \in A : c[x] \in Int
      BY <3>2
    <3>5. c[p] \in Nat
      BY <2>2
    <3> HIDE DEF A, B, p
    <3>4. SumFunctionOnSet(c, A) = c[p] + SumFunctionOnSet(c, B)
      BY <3>2, <3>3, SumTakeOut
    <3> QED
      BY <2>2, <3>1, <3>4, <3>5 DEF A, B
  <2> QED
    BY <2>4, <2>5
<1>8. Nat \subseteq P
  <2> HIDE DEF P
  <2> QED
    BY <1>6, <1>7, AllNumbers
<1>9. N \in P
  BY <1>1, <1>8
<1>10. off[N] = SumFunctionOnSet(c, S(N))
  BY <1>1, <1>9
<1>11. SumFunctionOnSet(c, S(N)) = SumFunctionOnSet(c, Player \ {bot})
  BY <1>4
<1> HIDE DEF S
<1> QED
  BY <1>2, <1>10, <1>11

-----------------------------------------------------------------------------
(* Cards counted by player or by kind.                                     *)

LEMMA SumsExchanged ==
  ASSUME NEW hand \in [Player -> Bundle]
  PROVE  SumFunctionOnSet([q \in Player |-> Count(hand[q])], Player)
           = SumFunctionOnSet([r \in Resource |-> Together(hand, r)], Resource)
<1> DEFINE counts == [q \in Player |-> Count(hand[q])]
           of(r) == [q \in Player |-> hand[q][r]]
           held(s) == [r \in Resource |-> SumFunctionOnSet(of(r), s)]
           Bad == {s \in SUBSET Player : SumFunctionOnSet(counts, s) # SumFunctionOnSet(held(s), Resource)}
<1>1. IsFiniteSet(Player) /\ IsFiniteSet(Resource)
  BY PlayersFinite, BoardFits
<1>2. \A q \in Player : counts[q] \in Nat /\ hand[q] \in Bundle
  BY CountIs
<1>3. \A q \in Player, r \in Resource : of(r)[q] \in Nat /\ of(r)[q] = hand[q][r]
  BY DEF Bundle
<1> HIDE DEF of
<1>4. ASSUME NEW s \in SUBSET Player, NEW r \in Resource
      PROVE  IsFiniteSet(s) /\ held(s)[r] = SumFunctionOnSet(of(r), s) /\ held(s)[r] \in Nat
  <2>1. IsFiniteSet(s)
    BY <1>1, FS_Subset
  <2>2. \A x \in s : of(r)[x] \in Nat
    BY <1>3
  <2>3. SumFunctionOnSet(of(r), s) \in Nat
    BY <2>1, <2>2, SumNat
  <2> QED
    BY <2>1, <2>3
<1>5. Bad = {}
  <2> SUFFICES ASSUME Bad # {} PROVE FALSE
    OBVIOUS
  <2>1. PICK s \in Bad : \A u \in Bad : u \subseteq s => u = s
    <3>1. Bad \subseteq SUBSET Player
      OBVIOUS
    <3> HIDE DEF Bad
    <3> QED
      BY <1>1, <3>1, LeastSet
  <2>2. s \in SUBSET Player /\ IsFiniteSet(s) /\ SumFunctionOnSet(counts, s) # SumFunctionOnSet(held(s), Resource)
    BY <1>1, FS_Subset
  <2>3. CASE s = {}
    <3>1. SumFunctionOnSet(counts, s) = 0
      <4>1. \A x \in s : counts[x] = 0
        BY <2>3
      <4> QED
        BY <2>2, <4>1, SumZero
    <3>2. \A r \in Resource : held(s)[r] = 0
      <4> SUFFICES ASSUME NEW r \in Resource PROVE held(s)[r] = 0
        OBVIOUS
      <4>1. \A x \in s : of(r)[x] = 0
        BY <2>3
      <4>2. SumFunctionOnSet(of(r), s) = 0
        BY <2>2, <4>1, SumZero
      <4> QED
        BY <4>2
    <3> HIDE DEF held
    <3>3. SumFunctionOnSet(held(s), Resource) = 0
      BY <1>1, <3>2, SumZero
    <3> QED
      BY <2>2, <3>1, <3>3
  <2>4. CASE s # {}
    <3>1. PICK x \in s : TRUE
      BY <2>4
    <3> DEFINE u == s \ {x}
    <3>2. u \in SUBSET Player /\ u \subseteq s /\ u # s /\ x \in Player
      BY <2>2, <3>1
    <3>3. SumFunctionOnSet(counts, u) = SumFunctionOnSet(held(u), Resource)
      BY <2>1, <3>2
    <3>4. SumFunctionOnSet(counts, s) = counts[x] + SumFunctionOnSet(counts, u)
      <4>1. \A y \in s : counts[y] \in Int
        BY <1>2, <2>2
      <4> HIDE DEF counts
      <4> QED
        BY <2>2, <4>1, SumTakeOut
    <3>5. \A r \in Resource : held(s)[r] = hand[x][r] + held(u)[r]
      <4> SUFFICES ASSUME NEW r \in Resource PROVE held(s)[r] = hand[x][r] + held(u)[r]
        OBVIOUS
      <4>1. \A y \in s : of(r)[y] \in Int
        BY <1>3, <2>2
      <4>2. SumFunctionOnSet(of(r), s) = of(r)[x] + SumFunctionOnSet(of(r), s \ {x})
        BY <2>2, <4>1, SumTakeOut
      <4> QED
        BY <1>3, <3>2, <4>2
    <3>6. \A r \in Resource : hand[x][r] \in Int /\ held(u)[r] \in Int
      <4>1. \A r \in Resource : hand[x][r] \in Nat
        BY <1>2, <3>2 DEF Bundle
      <4> HIDE DEF held, u
      <4>2. \A r \in Resource : held(u)[r] \in Nat
        BY <1>4, <3>2
      <4> QED
        BY <4>1, <4>2
    <3>7. counts[x] = SumFunctionOnSet(hand[x], Resource)
      BY <3>2 DEF Count
    <3> HIDE DEF held, u, counts
    <3>8. SumFunctionOnSet(held(s), Resource) = SumFunctionOnSet(hand[x], Resource) + SumFunctionOnSet(held(u), Resource)
      BY <1>1, <3>5, <3>6, SumPlus
    <3> QED
      BY <2>2, <3>3, <3>4, <3>7, <3>8
  <2> QED
    BY <2>3, <2>4
<1>6. SumFunctionOnSet(counts, Player) = SumFunctionOnSet(held(Player), Resource)
  BY <1>5
<1>7. held(Player) = [r \in Resource |-> Together(hand, r)]
  BY DEF Together, of
<1> QED
  BY <1>6, <1>7

-----------------------------------------------------------------------------
(* Dealing the cards a bot does not see.                                   *)

DealSet == [hands : [Player -> Bundle], left : Bundle]

GivesOne(d, p, e) ==
    /\ e \in DealSet
    /\ Count(d.left) > 0 =>
           /\ Count(e.left) = Count(d.left) - 1
           /\ Count(e.hands[p]) = Count(d.hands[p]) + 1
           /\ \A q \in Player \ {p} : e.hands[q] = d.hands[q]
           /\ \A r \in Resource : Together(e.hands, r) + e.left[r] = Together(d.hands, r) + d.left[r]

LEMMA MostIs ==
  ASSUME NEW b \in Bundle, Resource # {}
  PROVE  \E r \in Resource : \A s \in Resource : b[r] >= b[s]
<1> DEFINE T == {b[r] : r \in Resource}
<1>1. T \subseteq Int /\ T # {}
  BY DEF Bundle
<1>2. \A t \in T : \E r \in Resource : t = b[r]
  OBVIOUS
<1> HIDE DEF T
<1>3. IsFiniteSet(T)
  BY <1>2, BoardFits, ImageFinite
<1>4. Max(T) \in T /\ \A t \in T : t <= Max(T)
  BY <1>1, <1>3, MaxIs
<1>5. PICK r \in Resource : Max(T) = b[r]
  BY <1>2, <1>4
<1>6. \A s \in Resource : b[s] \in T /\ b[s] \in Nat
  BY DEF T, Bundle
<1> QED
  BY <1>4, <1>5, <1>6

LEMMA DealOneIs ==
  ASSUME NEW d \in DealSet, NEW p \in Player, Resource # {}
  PROVE  GivesOne(d, p, DealOne(d, p))
<1> DEFINE most == CHOOSE r \in Resource : \A s \in Resource : d.left[r] >= d.left[s]
           hands == [d.hands EXCEPT ![p][most] = @ + 1]
           rest == [d.left EXCEPT ![most] = @ - 1]
           e == DealOne(d, p)
<1>1. d.hands \in [Player -> Bundle] /\ d.left \in Bundle
  BY DEF DealSet
<1>2. most \in Resource /\ \A s \in Resource : d.left[most] >= d.left[s]
  BY <1>1, MostIs
<1> HIDE DEF most
<1>3. \A s \in Resource : d.left[s] \in Nat
  BY <1>1 DEF Bundle
<1>4. e = IF d.left[most] = 0 THEN d ELSE [hands |-> hands, left |-> rest]
  BY DEF DealOne, most
<1> HIDE DEF e
<1>5. CASE d.left[most] = 0
  <2>1. \A s \in Resource : ~(d.left[s] > 0)
    BY <1>2, <1>3, <1>5
  <2>2. ~(Count(d.left) > 0)
    BY <1>1, <2>1, CountIs
  <2> QED
    BY <1>4, <1>5, <2>2 DEF GivesOne, e
<1>6. CASE d.left[most] # 0
  <2>1. d.left[most] > 0
    BY <1>2, <1>3, <1>6
  <2>2. rest \in Bundle /\ Count(rest) = Count(d.left) - 1
    BY <1>1, <1>2, <2>1, OneLess
  <2> DEFINE mine == [d.hands[p] EXCEPT ![most] = @ + 1]
  <2>3. d.hands[p] \in Bundle
    BY <1>1
  <2>4. mine \in Bundle /\ Count(mine) = Count(d.hands[p]) + 1
    BY <1>2, <2>3, OneMore
  <2>5. hands = [d.hands EXCEPT ![p] = mine]
    BY <1>1
  <2>12. \A r \in Resource : mine[r] = d.hands[p][r] + (IF r = most THEN 1 ELSE 0)
    BY <1>2, <2>3 DEF Bundle
  <2> HIDE DEF mine, hands
  <2>6. /\ hands \in [Player -> Bundle] /\ hands[p] = mine
        /\ \A q \in Player \ {p} : hands[q] = d.hands[q]
    BY <1>1, <2>4, <2>5
  <2>7. e = [hands |-> hands, left |-> rest]
    BY <1>4, <1>6
  <2>13. \A r \in Resource : rest[r] = d.left[r] - (IF r = most THEN 1 ELSE 0)
    BY <1>1, <1>2 DEF Bundle
  <2> HIDE DEF rest
  <2>8. e \in DealSet /\ e.hands = hands /\ e.left = rest
    BY <2>2, <2>6, <2>7 DEF DealSet
  <2>9. ASSUME NEW r \in Resource
        PROVE  Together(hands, r) + rest[r] = Together(d.hands, r) + d.left[r]
    <3>1. Together(hands, r) = Together(d.hands, r) - d.hands[p][r] + hands[p][r]
      BY <1>1, <2>6, OneHandChanges
    <3>2. Together(d.hands, r) \in Nat
      BY <1>1, TogetherInt
    <3>3. d.hands[p][r] \in Nat /\ d.left[r] \in Nat
      BY <1>3, <2>3 DEF Bundle
    <3> QED
      BY <2>6, <2>12, <2>13, <3>1, <3>2, <3>3
  <2>10. Count(e.left) = Count(d.left) - 1 /\ Count(e.hands[p]) = Count(d.hands[p]) + 1
    BY <2>2, <2>4, <2>6, <2>8
  <2>11. /\ \A q \in Player \ {p} : e.hands[q] = d.hands[q]
         /\ \A r \in Resource : Together(e.hands, r) + e.left[r] = Together(d.hands, r) + d.left[r]
    BY <2>6, <2>8, <2>9
  <2>14. GivesOne(d, p, e)
    BY <2>8, <2>10, <2>11 DEF GivesOne
  <2> QED
    BY <2>14 DEF e
<1> QED
  BY <1>5, <1>6

DealTable(h, view, bot, s, n) ==
  h = [t \in SUBSET (1..n) |-> IF t = {} THEN NoneDealt(view, bot)
                               ELSE DealOne(h[t \ {Max(t)}], s[Max(t)])]

LEMMA EstimatedIs ==
  ASSUME NEW view, NEW bot, NEW n, DOMAIN HiddenCards(view, bot) = 1..n
  PROVE  EstimatedHands(view, bot) = (CHOOSE h : DealTable(h, view, bot, HiddenCards(view, bot), n))[1..n].hands
BY DEF EstimatedHands, FoldLeft, MapThenFoldSet, DealTable

Dealing(seen, view, bot, s, n) ==
  /\ seen[0] = NoneDealt(view, bot)
  /\ \A k \in 0..n : seen[k] \in DealSet
  /\ \A k \in 0..n : k # n => seen[k + 1] = DealOne(seen[k], s[k + 1])

LEMMA CardsAreDealt ==
  ASSUME NEW view, NEW bot, NoneDealt(view, bot) \in DealSet, Resource # {},
         NEW n \in Nat, HiddenCards(view, bot) \in [1..n -> Player]
  PROVE  \E seen : /\ Dealing(seen, view, bot, HiddenCards(view, bot), n)
                   /\ EstimatedHands(view, bot) = seen[n].hands
<1> DEFINE s == HiddenCards(view, bot)
           start == NoneDealt(view, bot)
           op == [x \in DealSet \X (1..n) |-> DealOne(x[1], s[x[2]])]
<1>1. \A d \in DealSet, i \in 1..n : DealOne(d, s[i]) \in DealSet
  <2> SUFFICES ASSUME NEW d \in DealSet, NEW i \in 1..n PROVE DealOne(d, s[i]) \in DealSet
    OBVIOUS
  <2>1. s[i] \in Player
    OBVIOUS
  <2> HIDE DEF s
  <2> QED
    BY <2>1, DealOneIs DEF GivesOne
<1> HIDE DEF s, start
<1>2. op \in [DealSet \X (1..n) -> DealSet]
  BY <1>1
<1>3. start \in DealSet
  BY DEF start
<1>4. PICK g \in [SUBSET (1..n) -> DealSet] : FoldTable(g, op, start, n)
  <2> HIDE DEF op
  <2> QED
    BY <1>2, <1>3, FoldTableExists
<1>5. \A t \in SUBSET (1..n) : t # {} =>
        /\ Max(t) \in 1..n /\ t \ {Max(t)} \in SUBSET (1..n)
        /\ op[<<g[t \ {Max(t)}], Max(t)>>] = DealOne(g[t \ {Max(t)}], s[Max(t)])
  <2> SUFFICES ASSUME NEW t \in SUBSET (1..n), t # {}
               PROVE  /\ Max(t) \in 1..n /\ t \ {Max(t)} \in SUBSET (1..n)
                      /\ op[<<g[t \ {Max(t)}], Max(t)>>] = DealOne(g[t \ {Max(t)}], s[Max(t)])
    OBVIOUS
  <2>1. Max(t) \in 1..n
    BY Greatest
  <2>2. t \ {Max(t)} \in SUBSET (1..n)
    OBVIOUS
  <2>3. <<g[t \ {Max(t)}], Max(t)>> \in DealSet \X (1..n)
    BY <2>1, <2>2
  <2> QED
    BY <2>1, <2>2, <2>3
<1>6. DealTable(g, view, bot, s, n)
  <2>1. g = [t \in SUBSET (1..n) |-> IF t = {} THEN start ELSE op[<<g[t \ {Max(t)}], Max(t)>>]]
    BY <1>4 DEF FoldTable
  <2>2. \A t \in SUBSET (1..n) : g[t] = IF t = {} THEN start ELSE DealOne(g[t \ {Max(t)}], s[Max(t)])
    <3> HIDE DEF op
    <3> QED
      BY <1>5, <2>1
  <2>3. g = [t \in SUBSET (1..n) |-> g[t]]
    OBVIOUS
  <2> QED
    BY <2>2, <2>3 DEF DealTable, start
<1> DEFINE h == CHOOSE h : DealTable(h, view, bot, s, n)
           seen == [k \in 0..n |-> h[1..k]]
<1>7. DealTable(h, view, bot, s, n)
  BY <1>6
<1>8. EstimatedHands(view, bot) = h[1..n].hands
  <2>1. DOMAIN HiddenCards(view, bot) = 1..n
    OBVIOUS
  <2> QED
    BY <2>1, EstimatedIs DEF s
<1> HIDE DEF h
<1>9. seen[0] = start
  BY <1>7, Beginnings DEF DealTable, start
<1>10. \A k \in 0..n : k # n => seen[k + 1] = DealOne(seen[k], s[k + 1])
  <2> SUFFICES ASSUME NEW k \in 0..n, k # n PROVE seen[k + 1] = DealOne(seen[k], s[k + 1])
    OBVIOUS
  <2>1. /\ k + 1 \in 0..n /\ 1..(k + 1) \in SUBSET (1..n) /\ 1..(k + 1) # {}
        /\ Max(1..(k + 1)) = k + 1 /\ (1..(k + 1)) \ {k + 1} = 1..k
    BY Beginnings
  <2>2. h[1..(k + 1)] = DealOne(h[(1..(k + 1)) \ {Max(1..(k + 1))}], s[Max(1..(k + 1))])
    BY <1>7, <2>1 DEF DealTable
  <2> QED
    BY <2>1, <2>2
<1>11. seen[n] = h[1..n]
  OBVIOUS
<1> HIDE DEF seen
<1>12. \A k \in 0..n : seen[k] \in DealSet
  <2> DEFINE S == {k \in Nat : k \in 0..n => seen[k] \in DealSet}
  <2>1. 0 \in S
    BY <1>3, <1>9
  <2>2. \A k \in Nat : k \in S => k + 1 \in S
    <3> SUFFICES ASSUME NEW k \in Nat, k \in S, k + 1 \in 0..n PROVE seen[k + 1] \in DealSet
      OBVIOUS
    <3>1. k \in 0..n /\ k # n /\ seen[k] \in DealSet /\ k + 1 \in 1..n
      OBVIOUS
    <3>2. seen[k + 1] = DealOne(seen[k], s[k + 1])
      BY <1>10, <3>1
    <3> QED
      BY <1>1, <3>1, <3>2
  <2>3. Nat \subseteq S
    <3> HIDE DEF S
    <3> QED
      BY <2>1, <2>2, AllNumbers
  <2> QED
    BY <2>3
<1> QED
  BY <1>8, <1>9, <1>10, <1>11, <1>12 DEF Dealing, start, s

\* How many cards of seat i are among the first k.
Given(off, i, k) == IF k <= off[i - 1] THEN 0
                    ELSE IF off[i] <= k THEN off[i] - off[i - 1] ELSE k - off[i - 1]

LEMMA OneGiven ==
  ASSUME NEW off, NEW i, off[i - 1] \in Nat, off[i] \in Nat, off[i - 1] <= off[i], NEW k \in Nat
  PROVE  /\ Given(off, i, 0) = 0
         /\ Within(off, i, k + 1) => Given(off, i, k + 1) = Given(off, i, k) + 1
         /\ k + 1 <= off[i - 1] \/ off[i] < k + 1 => Given(off, i, k + 1) = Given(off, i, k)
         /\ off[i] <= k => Given(off, i, k) = off[i] - off[i - 1]
<1> DEFINE a == off[i - 1]
           b == off[i]
<1>1. a \in Nat /\ b \in Nat /\ a <= b /\ k \in Nat
  OBVIOUS
<1> HIDE DEF a, b
<1> QED
  BY <1>1 DEF Given, Within, a, b

\* The hands before anything is dealt, and what is left to deal.
Undealt(g, bot, d) ==
    /\ d \in DealSet /\ d.hands[bot] = g.hand[bot]
    /\ \A q \in Player \ {bot} : Count(d.hands[q]) = 0
    /\ \A r \in Resource : Together(d.hands, r) + d.left[r] = BankSize - g.bank[r]
    /\ Count(d.left) = SumFunctionOnSet([q \in Player |-> Count(g.hand[q])], Player \ {bot})

LEMMA DealBegins ==
  ASSUME NEW g, Solid(g), NEW bot \in Player
  PROVE  Undealt(g, bot, NoneDealt(View(g, bot), bot))
<1> DEFINE d == NoneDealt(View(g, bot), bot)
<1> DEFINE hands == [q \in Player |-> IF q = bot THEN g.hand[bot] ELSE Nothing]
           rest == [r \in Resource |-> Together(g.hand, r) - g.hand[bot][r]]
           counts == [q \in Player |-> Count(g.hand[q])]
<1>1. /\ g.hand \in [Player -> Bundle] /\ g.bank \in Bundle
      /\ \A r \in Resource : Together(g.hand, r) + g.bank[r] = BankSize
  BY DEF Solid, Purse
<1>2. /\ \A r \in Resource : /\ g.hand[bot][r] \in Nat /\ g.bank[r] \in Nat /\ Together(g.hand, r) \in Nat
      /\ BankSize \in Nat
  BY <1>1, TogetherInt, SizesFit DEF Bundle
<1>3. \A r \in Resource : g.hand[bot][r] <= Together(g.hand, r)
  <2> SUFFICES ASSUME NEW r \in Resource PROVE g.hand[bot][r] <= Together(g.hand, r)
    OBVIOUS
  <2> DEFINE f == [q \in Player |-> g.hand[q][r]]
  <2>1. \A q \in Player : f[q] \in Nat
    BY <1>1 DEF Bundle
  <2>2. f[bot] = g.hand[bot][r] /\ Together(g.hand, r) = SumFunctionOnSet(f, Player)
    BY DEF Together
  <2> HIDE DEF f
  <2>3. f[bot] <= SumFunctionOnSet(f, Player)
    BY <2>1, PlayersFinite, SumPositive
  <2> QED
    BY <2>2, <2>3
<1>4. \A r \in Resource : rest[r] \in Nat /\ rest[r] = BankSize - g.bank[r] - g.hand[bot][r]
  BY <1>1, <1>2, <1>3
<1>5. \A n \in Nat : Max({0, n}) = n
  <2> SUFFICES ASSUME NEW n \in Nat PROVE Max({0, n}) = n
    OBVIOUS
  <2>1. \E z \in {0, n} : \A y \in {0, n} : z >= y
    OBVIOUS
  <2>2. Max({0, n}) \in {0, n} /\ \A y \in {0, n} : Max({0, n}) >= y
    BY <2>1 DEF Max
  <2> QED
    BY <2>2
<1>6. d = [hands |-> hands, left |-> rest]
  <2>1. View(g, bot).hand = g.hand[bot] /\ View(g, bot).bank = g.bank
    BY DEF View
  <2>2. [r \in Resource |-> Max({0, BankSize - g.bank[r] - g.hand[bot][r]})] = rest
    <3>1. \A r \in Resource : Max({0, BankSize - g.bank[r] - g.hand[bot][r]}) = rest[r]
      BY <1>4, <1>5
    <3> QED
      BY <3>1
  <2> HIDE DEF rest
  <2> QED
    BY <2>1, <2>2 DEF NoneDealt
<1>7. Nothing \in Bundle /\ Count(Nothing) = 0
  <2>1. Nothing \in Bundle /\ \A r \in Resource : Nothing[r] = 0
    BY SmallBundles
  <2> QED
    BY <2>1, SumZero, BoardFits DEF Count
<1>8. rest \in Bundle
  BY <1>4 DEF Bundle
<1>9. hands \in [Player -> Bundle] /\ hands[bot] = g.hand[bot] /\ \A q \in Player \ {bot} : hands[q] = Nothing
  BY <1>1, <1>7
<1>10. \A r \in Resource : Together(hands, r) = g.hand[bot][r]
  <2> SUFFICES ASSUME NEW r \in Resource PROVE Together(hands, r) = g.hand[bot][r]
    OBVIOUS
  <2> DEFINE f == [q \in Player |-> hands[q][r]]
  <2>1. Together(hands, r) = SumFunctionOnSet(f, Player)
    BY DEF Together
  <2>2. f[bot] = g.hand[bot][r] /\ \A q \in Player \ {bot} : f[q] = 0
    BY <1>9, SmallBundles
  <2> HIDE DEF f
  <2>3. \A q \in Player : f[q] \in Int
    BY <1>2, <2>2
  <2>4. SumFunctionOnSet(f, Player) = f[bot] + SumFunctionOnSet(f, Player \ {bot})
    BY <2>3, PlayersFinite, SumTakeOut
  <2>5. IsFiniteSet(Player \ {bot})
    BY PlayersFinite, FS_Subset
  <2>6. SumFunctionOnSet(f, Player \ {bot}) = 0
    BY <2>2, <2>5, SumZero
  <2> QED
    BY <1>2, <2>1, <2>2, <2>4, <2>6
<1>11. Count(rest) = SumFunctionOnSet(counts, Player \ {bot})
  <2> DEFINE tog == [r \in Resource |-> Together(g.hand, r)]
             mine == g.hand[bot]
  <2>1. SumFunctionOnSet(counts, Player) = SumFunctionOnSet(tog, Resource)
    BY <1>1, SumsExchanged
  <2>2. \A r \in Resource : mine[r] \in Int /\ rest[r] \in Int /\ tog[r] = mine[r] + rest[r]
    BY <1>2, <1>4
  <2>3. \A q \in Player : counts[q] \in Int
    BY <1>1, CountIs
  <2>4. counts[bot] = Count(mine)
    OBVIOUS
  <2>8. mine \in Bundle
    BY <1>1
  <2> HIDE DEF tog, mine, rest, counts
  <2>5. SumFunctionOnSet(tog, Resource) = Count(mine) + Count(rest)
    BY <2>2, SumPlus, BoardFits DEF Count
  <2>6. SumFunctionOnSet(counts, Player) = counts[bot] + SumFunctionOnSet(counts, Player \ {bot})
    BY <2>3, PlayersFinite, SumTakeOut
  <2>7. Count(mine) \in Nat /\ Count(rest) \in Nat
    BY <1>8, <2>8, CountIs
  <2>9. IsFiniteSet(Player \ {bot})
    BY PlayersFinite, FS_Subset
  <2>10. SumFunctionOnSet(counts, Player \ {bot}) \in Int
    BY <2>3, <2>9, SumSteps
  <2> QED
    BY <2>1, <2>4, <2>5, <2>6, <2>7, <2>10
<1> HIDE DEF hands, counts
<1>12. \A r \in Resource : Together(hands, r) + rest[r] = BankSize - g.bank[r]
  BY <1>2, <1>4, <1>10
<1> HIDE DEF rest
<1>13. d.hands = hands /\ d.left = rest /\ d \in DealSet
  BY <1>6, <1>8, <1>9 DEF DealSet
<1> HIDE DEF d
<1>14. Undealt(g, bot, d)
  BY <1>7, <1>9, <1>11, <1>12, <1>13 DEF counts, Undealt
<1> QED
  BY <1>14 DEF d

\* What a bot guesses is a way the cards may lie.
LEMMA GuessDealt ==
  ASSUME NEW g, Solid(g), NEW bot \in Player, NEW hands, hands = EstimatedHands(View(g, bot), bot)
  PROVE  /\ Purse(hands, g.bank) /\ hands[bot] = g.hand[bot]
         /\ \A q \in Player : Count(hands[q]) = Count(g.hand[q])
<1> DEFINE view == View(g, bot)
           c == [q \in Player |-> Count(g.hand[q])]
           H == HiddenCards(view, bot)
           N == Len(PlayerOrder)
           n == Len(H)
<1>1. g.hand \in [Player -> Bundle] /\ g.bank \in Bundle /\ BankSize \in Nat
  BY SizesFit DEF Solid, Purse
<1>2. c \in [Player -> Nat]
  BY <1>1, CountIs
<1>3. view.handCount = c
  BY DEF View
<1> HIDE DEF c, view
<1>4. PICK off : Spread(H, c, bot, off, N)
  BY <1>2, <1>3, HiddenCardsSpread
<1> HIDE DEF H
<1>5. /\ off \in [0..N -> Nat] /\ off[0] = 0 /\ H \in Seq(Player) /\ n = off[N] /\ N \in Nat
      /\ \A i \in 1..N : off[i] = off[i - 1] + Unseen(c, bot, i)
  BY <1>4, PlayersFinite DEF Spread
<1>6. \A i \in 1..N : off[i - 1] \in Nat /\ off[i] \in Nat /\ off[i - 1] <= off[i] /\ off[i] <= n
  <2> SUFFICES ASSUME NEW i \in 1..N
               PROVE  off[i - 1] \in Nat /\ off[i] \in Nat /\ off[i - 1] <= off[i] /\ off[i] <= n
    OBVIOUS
  <2>1. i \in 0..N /\ N \in i..N /\ i - 1 \in 0..N /\ i \in (i - 1)..N
    BY <1>5
  <2>2. off[i] <= off[N] /\ off[i - 1] <= off[i]
    BY <1>2, <1>4, <2>1, SpreadClimbs
  <2> QED
    BY <1>5, <2>1, <2>2
<1>7. n = SumFunctionOnSet(c, Player \ {bot})
  BY <1>2, <1>4, SpreadTotal
<1> DEFINE d == NoneDealt(view, bot)
<1>8. /\ d \in DealSet /\ d.hands[bot] = g.hand[bot]
      /\ \A q \in Player \ {bot} : Count(d.hands[q]) = 0
      /\ \A r \in Resource : Together(d.hands, r) + d.left[r] = BankSize - g.bank[r]
      /\ Count(d.left) = n
  <2>1. d = NoneDealt(View(g, bot), bot)
    BY DEF view
  <2> HIDE DEF d, n
  <2>2. /\ d \in DealSet /\ d.hands[bot] = g.hand[bot]
        /\ \A q \in Player \ {bot} : Count(d.hands[q]) = 0
        /\ \A r \in Resource : Together(d.hands, r) + d.left[r] = BankSize - g.bank[r]
        /\ Count(d.left) = SumFunctionOnSet([q \in Player |-> Count(g.hand[q])], Player \ {bot})
    <3>1. Undealt(g, bot, NoneDealt(View(g, bot), bot))
      BY DealBegins
    <3>2. Undealt(g, bot, d)
      BY <2>1, <3>1
    <3> QED
      BY <3>2 DEF Undealt
  <2>3. n = SumFunctionOnSet([q \in Player |-> Count(g.hand[q])], Player \ {bot})
    BY <1>7 DEF c
  <2> QED
    BY <2>2, <2>3
<1> HIDE DEF d
<1>9. n \in Nat /\ H \in [1..n -> Player]
  BY <1>5
<1>10. PICK seen : Dealing(seen, view, bot, H, n) /\ EstimatedHands(view, bot) = seen[n].hands
  <2>1. NoneDealt(view, bot) \in DealSet /\ Resource # {} /\ HiddenCards(view, bot) \in [1..n -> Player]
    BY <1>8, <1>9, SeatsFit DEF d, H
  <2> HIDE DEF n
  <2> QED
    BY <1>9, <2>1, CardsAreDealt DEF H
<1>11. /\ seen[0] = d /\ \A k \in 0..n : seen[k] \in DealSet
       /\ \A k \in 0..n : k # n => seen[k + 1] = DealOne(seen[k], H[k + 1])
  BY <1>10 DEF Dealing, d
<1> HIDE DEF N
<1> DEFINE Going(x, k) ==
             /\ x.hands[bot] = g.hand[bot] /\ Count(x.left) = n - k
             /\ \A i \in 1..N : PlayerOrder[i] # bot => Count(x.hands[PlayerOrder[i]]) = Given(off, i, k)
             /\ \A r \in Resource : Together(x.hands, r) + x.left[r] = BankSize - g.bank[r]
           P == {k \in Nat : k <= n => Going(seen[k], k)}
<1>12. \A i \in 1..N : PlayerOrder[i] \in Player
  BY PlayersFinite, PlayersSeated DEF N
<1>13. 0 \in P
  <2>1. \A i \in 1..N : Given(off, i, 0) = 0
    BY <1>6, OneGiven
  <2> QED
    BY <1>8, <1>9, <1>11, <1>12, <2>1
<1>14. ASSUME NEW k \in Nat, k + 1 <= n, NEW x \in DealSet, Going(x, k)
       PROVE  Going(DealOne(x, H[k + 1]), k + 1)
  <2> DEFINE p == H[k + 1]
             y == DealOne(x, p)
  <2>1. k + 1 \in 1..n /\ p \in Player
    BY <1>9, <1>14
  <2>2. PICK i \in 1..N :
            /\ Within(off, i, k + 1) /\ PlayerOrder[i] # bot /\ p = PlayerOrder[i]
            /\ \A j \in 1..N : j # i => k + 1 <= off[j - 1] \/ off[j] < k + 1
    BY <1>2, <1>4, <2>1, SeatOfCard DEF N
  <2> HIDE DEF p
  <2>3. GivesOne(x, p, y)
    BY <1>14, <2>1, SeatsFit, DealOneIs
  <2> HIDE DEF y
  <2>4. Count(x.left) = n - k /\ n - k > 0 /\ n - k - 1 = n - (k + 1)
    BY <1>9, <1>14
  <2>5. /\ Count(y.left) = n - (k + 1)
        /\ Count(y.hands[p]) = Count(x.hands[p]) + 1
        /\ \A q \in Player \ {p} : y.hands[q] = x.hands[q]
        /\ \A r \in Resource : Together(y.hands, r) + y.left[r] = BankSize - g.bank[r]
    BY <1>14, <2>3, <2>4 DEF GivesOne
  <2>6. y.hands[bot] = g.hand[bot]
    BY <1>14, <2>2, <2>5
  <2>7. ASSUME NEW j \in 1..N, PlayerOrder[j] # bot
        PROVE  Count(y.hands[PlayerOrder[j]]) = Given(off, j, k + 1)
    <3>1. Count(x.hands[PlayerOrder[j]]) = Given(off, j, k)
      BY <1>14, <2>7
    <3>2. CASE j = i
      <4>1. Given(off, i, k + 1) = Given(off, i, k) + 1
        BY <1>6, <2>2, OneGiven
      <4> QED
        BY <2>2, <2>5, <3>1, <3>2, <4>1
    <3>3. CASE j # i
      <4>1. Given(off, j, k + 1) = Given(off, j, k)
        BY <1>6, <2>2, <3>3, OneGiven
      <4>2. PlayerOrder[j] # p
        <5>1. DOMAIN PlayerOrder = 1..N
          BY PlayersSeated DEF N
        <5> QED
          BY <2>2, <3>3, <5>1, SeatsFit
      <4> QED
        BY <1>12, <2>5, <3>1, <4>1, <4>2
    <3> QED
      BY <3>2, <3>3
  <2>8. Going(y, k + 1)
    BY <2>5, <2>6, <2>7
  <2> HIDE DEF Going
  <2> QED
    BY <2>8 DEF y, p
<1>15. \A k \in Nat : k \in P => k + 1 \in P
  <2> HIDE DEF Going
  <2> SUFFICES ASSUME NEW k \in Nat, k \in P, k + 1 <= n PROVE Going(seen[k + 1], k + 1)
    OBVIOUS
  <2>1. k \in 0..n /\ k # n /\ k <= n
    <3>1. n \in Nat
      BY <1>9
    <3> HIDE DEF n, P
    <3> QED
      BY <3>1
  <2>2. seen[k] \in DealSet /\ Going(seen[k], k) /\ seen[k + 1] = DealOne(seen[k], H[k + 1])
    BY <1>11, <2>1
  <2> QED
    BY <1>14, <2>2
<1>16. Going(seen[n], n)
  <2> HIDE DEF Going
  <2>1. Nat \subseteq P
    <3> HIDE DEF P
    <3> QED
      BY <1>13, <1>15, AllNumbers
  <2>2. n \in P /\ n <= n
    BY <1>9, <2>1
  <2> QED
    BY <2>2
<1> DEFINE x == seen[n]
<1>17. hands = x.hands /\ x \in DealSet
  <2>1. hands = x.hands
    BY <1>10 DEF view
  <2>2. n \in 0..n
    <3>1. n \in Nat
      BY <1>9
    <3> HIDE DEF n
    <3> QED
      BY <3>1
  <2> HIDE DEF n
  <2> QED
    BY <2>1, <2>2, <1>11
<1>18. Count(x.left) = 0
  BY <1>9, <1>16
<1>19. \A r \in Resource : x.left[r] = 0
  <2>1. x.left \in Bundle
    BY <1>17 DEF DealSet
  <2>2. \A r \in Resource : x.left[r] \in Nat
    BY <2>1 DEF Bundle
  <2>3. \A r \in Resource : ~(x.left[r] > 0)
    BY <1>18, <2>1, CountIs
  <2> QED
    BY <2>2, <2>3
<1>20. hands \in [Player -> Bundle]
  BY <1>17 DEF DealSet
<1>21. \A r \in Resource : Together(hands, r) + g.bank[r] = BankSize
  <2> SUFFICES ASSUME NEW r \in Resource PROVE Together(hands, r) + g.bank[r] = BankSize
    OBVIOUS
  <2>1. Together(hands, r) + x.left[r] = BankSize - g.bank[r]
    BY <1>16, <1>17
  <2>2. Together(hands, r) \in Nat /\ g.bank[r] \in Nat
    BY <1>1, <1>20, TogetherInt DEF Bundle
  <2> QED
    BY <1>1, <1>19, <2>1, <2>2
<1>22. \A q \in Player : Count(hands[q]) = Count(g.hand[q])
  <2> SUFFICES ASSUME NEW q \in Player PROVE Count(hands[q]) = Count(g.hand[q])
    OBVIOUS
  <2>1. CASE q = bot
    BY <1>16, <1>17, <2>1
  <2>2. CASE q # bot
    <3>1. PICK i \in 1..N : PlayerOrder[i] = q
      <4>1. DOMAIN PlayerOrder = 1..N
        BY PlayersSeated DEF N
      <4> QED
        BY <4>1 DEF Player
    <3>2. Count(hands[q]) = Given(off, i, n)
      BY <1>16, <1>17, <2>2, <3>1
    <3>3. Given(off, i, n) = off[i] - off[i - 1]
      BY <1>6, <1>9, OneGiven
    <3>4. off[i] = off[i - 1] + c[q] /\ c[q] \in Nat /\ c[q] = Count(g.hand[q])
      BY <1>2, <1>5, <2>2, <3>1 DEF Unseen, c
    <3>5. off[i - 1] \in Nat
      BY <1>6
    <3> QED
      BY <3>2, <3>3, <3>4, <3>5
  <2> QED
    BY <2>1, <2>2
<1> QED
  BY <1>1, <1>16, <1>17, <1>20, <1>21, <1>22 DEF Purse

-----------------------------------------------------------------------------
(* Players can act.                                                        *)

\* A guess that agrees with the match on all its player knows of it.
WellGuessed(g, p, h) ==
    /\ Guessed(g, p, h.hand, h) /\ SameTable(g, h, p)
    /\ Purse(h.hand, g.bank) /\ h.hand[p] = g.hand[p]
    /\ \A q \in Player : Count(h.hand[q]) = Count(g.hand[q])

LEMMA BotGuesses ==
  ASSUME NEW g, Solid(g), NEW p \in Player
  PROVE  WellGuessed(g, p, BotState(View(g, p), p))
<1> DEFINE hands == EstimatedHands(View(g, p), p)
           h == Rebuilt(View(g, p), hands, FALSE)
<1>1. BotState(View(g, p), p) = h
  BY DEF BotState
<1>2. /\ Purse(hands, g.bank) /\ hands[p] = g.hand[p]
      /\ \A q \in Player : Count(hands[q]) = Count(g.hand[q])
  BY GuessDealt
<1> HIDE DEF hands
<1>3. Guessed(g, p, hands, h)
  BY RebuiltIs
<1> HIDE DEF h
<1>4. SameTable(g, h, p)
  BY <1>2, <1>3, RebuiltAlike
<1>5. h.hand = hands
  BY <1>3 DEF Guessed
<1>6. WellGuessed(g, p, h)
  BY <1>2, <1>3, <1>4, <1>5 DEF WellGuessed
<1> QED
  BY <1>1, <1>6

LEMMA OrderPlays == InGoodOrder => PlayersCanAct
<1> SUFFICES ASSUME InGoodOrder PROVE PlayersCanAct
  OBVIOUS
<1>1. Fair(game) /\ Solid(game)
  BY OrderIsFair DEF Fair
<1>2. ASSUME NEW p \in Player
      PROVE  /\ LegalActions(game, p) = Accepted(game, p)
             /\ LegalActions(game, p) = LegalActions(ClientState(View(game, p), p), p)
             /\ LegalActions(game, p) = LegalActions(BotState(View(game, p), p), p)
             /\ \A h \in Hex :
                   EligibleStealTargets(game, p, h) = VisibleStealTargets(View(game, p), p, h)
  <2>1. LegalActions(game, p) = Accepted(game, p)
    BY <1>1, MenuIsAccepted
  <2>2. /\ LegalActions(ClientState(View(game, p), p), p) = LegalActions(game, p)
        /\ \A h \in Hex : EligibleStealTargets(game, p, h) = VisibleStealTargets(View(game, p), p, h)
    BY <1>1, ClientMenuIs
  <2>3. WellGuessed(game, p, BotState(View(game, p), p))
    BY <1>1, BotGuesses
  <2>4. SameTable(game, BotState(View(game, p), p), p)
    BY <2>3 DEF WellGuessed
  <2>5. LegalActions(BotState(View(game, p), p), p) = LegalActions(game, p)
    BY <2>4, SameMenu
  <2> QED
    BY <2>1, <2>2, <2>5
<1>3. MenusAreTrue
  BY <1>2 DEF MenusAreTrue
<1> QED
  BY <1>3, OrderHolds DEF PlayersCanAct

(* What getLegalActions lists is what validateCommand accepts, to the     *)
(* engine, the client and the bot alike, and whoever is held to a staged   *)
(* offer can carry it out.                                                 *)
THEOREM PlayersCanAlwaysAct == Spec => []PlayersCanAct
<1>1. Spec => []InGoodOrder
  BY AlwaysInGoodOrder
<1>2. InGoodOrder => PlayersCanAct
  BY OrderPlays
<1> QED
  BY <1>1, <1>2, PTL

-----------------------------------------------------------------------------
(* The clock can act.                                                      *)

\* While placements are due there is a spot for the next, with an edge.
LEMMA SetupsThere ==
  ASSUME NEW g, Fair(g), Is(g, "SETUP_PLACEMENT"), NEW s \in Scenarios, Sited(g, SetupSpots(s)),
         NEW p, p = ActivePlayer(g)
  PROVE  /\ p \in Player /\ Free(g, p)
         /\ \E v \in Vertex : CanPlaceSettlement(g, v, FALSE, p)
         /\ \A v \in Vertex : CanPlaceSettlement(g, v, FALSE, p) =>
               \E e \in Edge : ValidPlaceSetup(g, p, v, e)
<1> DEFINE taken == Taken(g.buildings)
<1>1. p = g.phase.active /\ p \in Player
  BY SetupIsOpen DEF ActivePlayer, Is
<1>2. Free(g, p)
  BY <1>1, SetupIsOpen DEF Free
<1>3. taken \in SUBSET SetupSpots(s) /\ Cardinality(taken) < Len(SetupOrder)
  BY SetupIsOpen DEF Sited
<1>4. PICK v \in Vertex \ taken : Neighbours(v) \cap taken = {}
  BY <1>3, SetupsFit
<1>5. CanPlaceSettlement(g, v, FALSE, p)
  <2>1. g.buildings[v] = NoBuilding
    BY <1>4 DEF Taken
  <2>2. \A w \in Neighbours(v) : g.buildings[w] = NoBuilding
    BY <1>4, NeighboursMutual DEF Taken
  <2> QED
    BY <2>1, <2>2 DEF CanPlaceSettlement
<1>6. ASSUME NEW w \in Vertex, CanPlaceSettlement(g, w, FALSE, p)
      PROVE  \E e \in Edge : ValidPlaceSetup(g, p, w, e)
  <2>1. w \in SetupItem(g, p)
    BY <1>2, <1>6 DEF SetupItem
  <2> QED
    BY <1>1, <2>1, SetupsAccepted
<1> QED
  BY <1>1, <1>2, <1>5, <1>6

\* Closing the offer of the player at turn ends nothing and leaves the turn to end.
LEMMA FreedToEnd ==
  ASSUME NEW g, Open(g), Spared(g), WonInTime(g), g.rules.victoryPoints \in Nat,
         Is(g, "ACTION_PHASE"), NEW p, p = ActivePlayer(g)
  PROVE  \A h \in Freed(g, p) : ValidEndTurn(h, p)
<1> SUFFICES ASSUME NEW h \in Freed(g, p) PROVE ValidEndTurn(h, p)
  OBVIOUS
<1> DEFINE staged == ActiveCollectingTrades(g, p)
           t == CHOOSE t \in staged : TRUE
           k == TradeClosed(g, t)
<1>1. CASE staged = {}
  BY <1>1 DEF Freed, ValidEndTurn, Active, Unlocked, Is
<1>2. CASE staged # {}
  <2>1. h \in AfterCommand(k, "EXPIRE_TRADE")
    BY <1>2 DEF Freed
  <2>2. t \in staged
    BY <1>2
  <2> HIDE DEF t
  <2>3. /\ Match(g) /\ Deals(g.trades) /\ Staged(g.phase, g.hand, g.trades)
    BY DEF Open, Sound, Fair, Solid, Timely
  <2>4. t \in TradeId /\ Collecting(g, t) /\ IsStaged(g.trades[t])
    BY <2>2, <2>3 DEF ActiveCollectingTrades, Deals, Collecting, IsStaged
  <2>5. SameBut(g, k, {"trades"}) /\ k.trades = [g.trades EXCEPT ![t].status = "CLOSED"]
    BY <2>3 DEF TradeClosed, Match, SameBut, Fields
  <2> HIDE DEF k
  <2>6. /\ k.phase = g.phase /\ k.rules = g.rules /\ k.turn = g.turn
        /\ k.plightApplied = g.plightApplied /\ k.score = g.score /\ k.cards = g.cards
    BY <2>5 DEF SameBut, Fields
  <2>7. Spared(k) /\ PlightOutcomes(k) = {k}
    BY <2>6 DEF Spared, PlightOutcomes
  <2>8. WinnerByVictoryPoints(k) = NoOne
    <3> DEFINE there == {q \in Player : TrueVictoryPoints(k, q) >= k.rules.victoryPoints}
    <3>1. ASSUME NEW q \in Player PROVE ~(TrueVictoryPoints(k, q) >= k.rules.victoryPoints)
      <4>1. TrueVictoryPoints(k, q) = TrueVictoryPoints(g, q)
        BY <2>6 DEF TrueVictoryPoints, CardVictoryPoints, CardsOf
      <4>2. TrueVictoryPoints(g, q) < g.rules.victoryPoints
        BY DEF WonInTime, Open
      <4>3. TrueVictoryPoints(g, q) \in Int
        BY VictoryPointsInt DEF Open
      <4> QED
        BY <2>6, <4>1, <4>2, <4>3
    <3>2. there = {} /\ there \in SUBSET Player
      BY <3>1
    <3> HIDE DEF there
    <3>3. FirstSeated(there) = NoOne
      BY <3>2, FirstSeatedIs
    <3> QED
      BY <3>3 DEF WinnerByVictoryPoints, there
  <2>9. Judged(k, "EXPIRE_TRADE") = {k}
    BY <2>8 DEF Judged
  <2>10. h = k
    BY <2>1, <2>7, <2>9 DEF AfterCommand
  <2>11. \A u \in TradeId \ {t} : k.trades[u] = g.trades[u] /\ ~IsStaged(g.trades[u])
    BY <2>3, <2>4, <2>5 DEF Staged, Deals, Is
  <2>12. k.trades[t].status = "CLOSED" /\ DOMAIN k.trades = TradeId
    <3>1. DOMAIN g.trades = TradeId /\ g.trades[t] # NoTrade /\ Deal(g.trades[t])
      BY <2>3, <2>4 DEF Deals, IsStaged, NoTrade
    <3> DEFINE trade == g.trades[t]
    <3>2. DOMAIN trade = {"from", "recipients", "offered", "requested", "status", "responses"}
      BY <3>1 DEF Deal
    <3>3. k.trades = [g.trades EXCEPT ![t] = [trade EXCEPT !.status = "CLOSED"]]
      BY <2>5
    <3> HIDE DEF trade
    <3>4. [trade EXCEPT !.status = "CLOSED"].status = "CLOSED"
      BY <3>2
    <3> QED
      BY <2>4, <3>1, <3>3, <3>4
  <2>13. ActiveCollectingTrades(k, p) = {}
    BY <2>11, <2>12 DEF ActiveCollectingTrades, Collecting, IsStaged
  <2> QED
    BY <2>6, <2>10, <2>13 DEF ValidEndTurn, Active, Unlocked, ActivePlayer, Is
<1> QED
  BY <1>1, <1>2

LEMMA OrderClocks == InGoodOrder => ClockCanAct
<1> SUFFICES ASSUME InGoodOrder PROVE ClockCanAct
  OBVIOUS
<1> DEFINE p == ActivePlayer(game)
           spots == {v \in Vertex : CanPlaceSettlement(game, v, FALSE, p)}
<1>1. /\ Fair(game) /\ Due(game.phase) /\ Spared(game) /\ WonInTime(game) /\ Sound(game)
      /\ scenario \in Scenarios /\ Sited(game, SetupSpots(scenario))
  BY DEF InGoodOrder, Settled, Sound, Fair, Timely
<1>2. \/ Is(game, "SETUP_PLACEMENT") \/ Is(game, "WAITING_FOR_ROLL") \/ Is(game, "DISCARDING")
      \/ Is(game, "MOVING_THIEF") \/ Is(game, "ACTION_PHASE") \/ Is(game, "GAME_OVER")
  BY <1>1 DEF Due, Is
<1>3. ~Is(game, "GAME_OVER") => p = game.phase.active /\ p \in Player
  BY <1>1 DEF Due, Is, ActivePlayer
<1>4. ASSUME Is(game, "SETUP_PLACEMENT")
      PROVE  spots # {} /\ \A v \in spots : \E e \in Edge : ValidPlaceSetup(game, p, v, e)
  BY <1>1, <1>4, SetupsThere
<1>5. ASSUME Is(game, "WAITING_FOR_ROLL") PROVE ValidRollDice(game, p)
  <2>1. Unlocked(game, p)
    BY <1>1, <1>5, Unheld DEF Is
  <2> QED
    BY <1>5, <2>1 DEF ValidRollDice, Active
<1>6. ASSUME Is(game, "DISCARDING")
      PROVE  /\ Pending(game, p)
             /\ SubBundles(game.hand[p], game.phase.pending[p]) # {}
             /\ \A b \in SubBundles(game.hand[p], game.phase.pending[p]) :
                    ValidDiscardResources(game, p, b)
  <2>1. Pending(game, p) /\ p \in Player
    BY <1>1, <1>3, <1>6 DEF Due, Pending, Is
  <2> HIDE DEF p
  <2> QED
    BY <1>1, <2>1, DiscardsThere
<1>7. ASSUME Is(game, "MOVING_THIEF")
      PROVE  \A h \in ValidThiefHexes(game) :
                 \E from \in Player \cup {NoOne} : ValidMoveThief(game, p, h, from)
  <2>1. Active(game, p, "MOVING_THIEF")
    BY <1>1, <1>7, Unheld DEF Active, Is
  <2> HIDE DEF p
  <2> QED
    BY <2>1, ThiefChoices DEF ValidMoveThief
<1>8. ASSUME Is(game, "ACTION_PHASE") PROVE \A g \in Freed(game, p) : ValidEndTurn(g, p)
  <2>1. Open(game) /\ game.rules.victoryPoints \in Nat
    BY <1>1, <1>8, ScenariosFit DEF InGoodOrder, Open, Is
  <2> QED
    BY <1>1, <1>8, <2>1, FreedToEnd
<1> HIDE DEF p
<1> QED
  BY <1>2, <1>4, <1>5, <1>6, <1>7, <1>8 DEF ClockCanAct, Is, p

-----------------------------------------------------------------------------
(* The bots can act.                                                       *)

\* What a bot's guess of the match shares with it, besides its player's menu.
LEMMA GuessShares ==
  ASSUME NEW g, Fair(g), NEW p \in Player, NEW h, WellGuessed(g, p, h)
  PROVE  /\ Alike(g.phase, h.phase) /\ h.roads = g.roads /\ h.buildings = g.buildings
         /\ h.thief = g.thief /\ h.bank = g.bank /\ h.hand[p] = g.hand[p] /\ h.score = g.score
         /\ h.trades = [t \in TradeId |-> TradeFor(g.trades[t], p)]
         /\ \A type : Is(h, type) <=> Is(g, type)
         /\ Pending(h, p) <=> Pending(g, p)
         /\ LegalActions(h, p) = LegalActions(g, p)
         /\ ValidThiefHexes(h) = ValidThiefHexes(g)
         /\ \A hex : EligibleStealTargets(h, p, hex) = EligibleStealTargets(g, p, hex)
         /\ \A r : MaritimeTradeRatio(h, p, r) = MaritimeTradeRatio(g, p, r)
<1>1. /\ Alike(g.phase, h.phase) /\ h.roads = g.roads /\ h.buildings = g.buildings
      /\ h.thief = g.thief /\ h.bank = g.bank /\ h.hand[p] = g.hand[p] /\ h.score = g.score
      /\ h.trades = [t \in TradeId |-> TradeFor(g.trades[t], p)]
      /\ \A q \in Player : Count(h.hand[q]) = Count(g.hand[q])
      /\ SameTable(g, h, p)
  BY PhaseShownIs DEF WellGuessed, Guessed
<1>2. /\ \A type : Is(h, type) <=> Is(g, type)
      /\ Pending(h, p) <=> Pending(g, p)
  BY <1>1 DEF Alike, Is, Pending
<1>3. LegalActions(h, p) = LegalActions(g, p)
  BY <1>1, SameMenu
<1>4. /\ ValidThiefHexes(h) = ValidThiefHexes(g)
      /\ \A hex : EligibleStealTargets(h, p, hex) = EligibleStealTargets(g, p, hex)
      /\ \A r : MaritimeTradeRatio(h, p, r) = MaritimeTradeRatio(g, p, r)
  BY <1>1 DEF ValidThiefHexes, EligibleStealTargets, MaritimeTradeRatio
<1> QED
  BY <1>1, <1>2, <1>3, <1>4

\* Where the bot tries its moves out, the engine takes the guess for a match.
LEMMA GuessAccepted ==
  ASSUME NEW g, Fair(g), NEW p \in Player, TriesOut(g, p), NEW h, WellGuessed(g, p, h)
  PROVE  AssertInvariants(h)
<1>1. /\ g.thief \in Hex /\ Layout(g.roads, g.buildings) /\ g.cards \in Seq(Card)
      /\ Scored(g.score, g.buildings, g.hasLongestRoad, g.hasLargestArmy) /\ Deals(g.trades)
  BY DEF Fair, Solid
<1>2. /\ h.roads = g.roads /\ h.buildings = g.buildings
      /\ h.thief = g.thief /\ h.bank = g.bank /\ h.score = g.score
      /\ h.trades = [t \in TradeId |-> TradeFor(g.trades[t], p)]
      /\ \A type : Is(h, type) <=> Is(g, type)
  BY GuessShares
<1>3. Purse(h.hand, h.bank)
  BY <1>2 DEF WellGuessed
<1>4. h.thief \in Hex /\ h.bank \in Bundle
  BY <1>1, <1>2, <1>3 DEF Purse
<1>5. \A q \in Player : h.hand[q] \in Bundle /\ h.score[q] >= 0
  BY <1>1, <1>2, <1>3, ScoreNat DEF Purse
<1>6. /\ \A e \in Edge : h.roads[e] \in Player \cup {NoOne}
      /\ \A v \in Vertex : h.buildings[v] # NoBuilding =>
             /\ h.buildings[v].owner \in Player
             /\ \A w \in Neighbours(v) : h.buildings[w] = NoBuilding
  BY <1>1, <1>2, LayoutAccepted
<1>7. \A q \in Player : /\ Cardinality(RoadsOf(h, q)) <= MaxRoads
                         /\ Cardinality(BuildingsOf(h, q, "settlement")) <= MaxSettlements
                         /\ Cardinality(BuildingsOf(h, q, "city")) <= MaxCities
  BY <1>1, <1>2 DEF Layout, RoadsOf, Laid, BuildingsOf, Built
<1>8. \A r \in Resource : Together(h.hand, r) + h.bank[r] = BankSize
  BY <1>3 DEF Purse
<1>9. ~Is(h, "GAME_OVER") /\ ~Is(h, "DISCARDING")
  BY <1>2 DEF TriesOut, Active, Is
<1>10. \A q \in Player : \A i \in CardsOf(h, q) : h.cards[i].type \in CardTypes
  <2> SUFFICES ASSUME NEW q \in Player, NEW i \in CardsOf(h, q)
               PROVE  h.cards[i].type \in CardTypes
    OBVIOUS
  <2>1. i \in DOMAIN g.cards /\ h.cards[i] \in {g.cards[i], Absent} /\ h.cards[i].owner = q
    BY DEF CardsOf, WellGuessed, Guessed
  <2>2. Absent.owner # q
    BY PlayersSeated DEF Absent
  <2>3. h.cards[i] = g.cards[i] /\ g.cards[i] \in Card
    BY <1>1, <2>1, <2>2
  <2> QED
    BY <2>3 DEF Card
<1>11. \A t \in DOMAIN h.trades : /\ h.trades[t] # NoTrade => h.trades[t].from \in Player
                                  /\ ~Collecting(h, t)
  <2>1. Quiet(g.trades)
    BY NothingStaged DEF TriesOut, Active, ActivePlayer, Unlocked
  <2> SUFFICES ASSUME NEW t \in TradeId
               PROVE  /\ h.trades[t] # NoTrade => h.trades[t].from \in Player
                      /\ ~Collecting(h, t)
    BY <1>2
  <2>2. Deal(g.trades[t]) /\ h.trades[t] = TradeFor(g.trades[t], p)
    BY <1>1, <1>2 DEF Deals
  <2>3. /\ h.trades[t].status = g.trades[t].status
        /\ h.trades[t] # NoTrade => h.trades[t].from \in Player
    <3> DEFINE trade == g.trades[t]
    <3>1. Deal(trade) /\ h.trades[t] = TradeFor(trade, p)
      BY <2>2
    <3> HIDE DEF trade
    <3>2. /\ TradeFor(trade, p).status = trade.status
          /\ trade # NoTrade => TradeFor(trade, p).from = trade.from
          /\ trade = NoTrade => TradeFor(trade, p) = NoTrade
      BY <3>1, TradeShownIs
    <3>3. trade # NoTrade => trade.from \in Player
      BY <3>1 DEF Deal
    <3> QED
      BY <3>1, <3>2, <3>3 DEF trade
  <2> QED
    BY <2>1, <2>3 DEF Collecting, Quiet, IsStaged
<1> QED
  BY <1>4, <1>5, <1>6, <1>7, <1>8, <1>9, <1>10, <1>11 DEF AssertInvariants

\* The thief: a bot's choices are those of the match, and there are some.
LEMMA ThiefMovesValid ==
  ASSUME NEW g, Fair(g), NEW p \in Player, NEW h, WellGuessed(g, p, h)
  PROVE  /\ \A hexes \in SUBSET ValidThiefHexes(g) : \A x \in BotThiefMoves(h, p, hexes) :
               ValidThiefMove(g, p, x[1], x[2]) /\ x[1] \in hexes
         /\ \A hexes : hexes # {} => BotThiefMoves(h, p, hexes) # {}
<1>1. \A hex : EligibleStealTargets(h, p, hex) = EligibleStealTargets(g, p, hex)
  BY GuessShares
<1> DEFINE victims(hex) == IF EligibleStealTargets(h, p, hex) = {} THEN {NoOne}
                           ELSE EligibleStealTargets(h, p, hex)
<1>2. \A hexes : BotThiefMoves(h, p, hexes) = UNION {{<<hex, q>> : q \in victims(hex)} : hex \in hexes}
  BY DEF BotThiefMoves
<1>3. \A hex : victims(hex) # {}
  OBVIOUS
<1>4. ASSUME NEW hexes \in SUBSET ValidThiefHexes(g), NEW x \in BotThiefMoves(h, p, hexes)
      PROVE  ValidThiefMove(g, p, x[1], x[2]) /\ x[1] \in hexes
  <2>1. PICK hex \in hexes : x \in {<<hex, q>> : q \in victims(hex)}
    BY <1>2
  <2>2. PICK q \in victims(hex) : x = <<hex, q>>
    BY <2>1
  <2> QED
    BY <1>1, <2>2 DEF ValidThiefMove
<1>5. ASSUME NEW hexes, hexes # {}
      PROVE  BotThiefMoves(h, p, hexes) # {}
  <2>1. PICK hex \in hexes : TRUE
    BY <1>5
  <2>2. PICK q \in victims(hex) : TRUE
    BY <1>3
  <2> HIDE DEF victims
  <2>3. <<hex, q>> \in BotThiefMoves(h, p, hexes)
    BY <1>2, <2>1, <2>2
  <2> QED
    BY <2>3
<1> QED
  BY <1>4, <1>5

\* Offers: cards the bot has, for others, to everybody else.
LEMMA OffersValid ==
  ASSUME NEW g, Fair(g), NEW p \in Player, NEW h, WellGuessed(g, p, h), Acting(g, p),
         NEW o \in BotOffers(h, p), NEW t \in TradeId, g.trades[t] = NoTrade
  PROVE  ValidOfferTrade(g, p, t, o, Player \ {p})
<1>1. h.hand[p] = g.hand[p] /\ \A r : MaritimeTradeRatio(h, p, r) = MaritimeTradeRatio(g, p, r)
  BY GuessShares
<1> DEFINE given(r) == IF h.hand[p][r] >= 3 /\ MaritimeTradeRatio(h, p, r) > 3 THEN 2 ELSE 1
<1>2. PICK r \in Resource, s \in Resource :
         r # s /\ h.hand[p][r] > 1 /\ o = [offered |-> Many(r, given(r)), requested |-> One(s)]
  BY DEF BotOffers
<1> DEFINE n == given(r)
<1>3. g.hand[p] \in Bundle
  BY DEF Fair, Solid, Purse
<1>4. \A q \in Resource : g.hand[p][q] \in Nat
  BY <1>3 DEF Bundle
<1>5. n \in Nat /\ n > 0 /\ g.hand[p][r] >= n
  BY <1>1, <1>2, <1>4
<1>6. o.offered = Many(r, n) /\ o.requested = One(s)
  BY <1>2
<1> HIDE DEF n, given
<1>7. /\ o.offered \in Bundle /\ o.requested \in Bundle
      /\ \A q \in Resource : o.offered[q] = IF q = r THEN n ELSE 0
      /\ \A q \in Resource : o.requested[q] = IF q = s THEN 1 ELSE 0
  BY <1>5, <1>6, SmallBundles
<1>8. Count(o.offered) > 0 /\ Count(o.requested) > 0
  BY <1>5, <1>7, CountIs
<1>9. Has(g.hand[p], o.offered)
  BY <1>4, <1>5, <1>7 DEF Has
<1>10. \A q \in Resource : o.offered[q] = 0 \/ o.requested[q] = 0
  BY <1>2, <1>7
<1>11. Player \ {p} # {}
  <2>1. Len(PlayerOrder) \in Nat /\ DOMAIN PlayerOrder = 1..Len(PlayerOrder) /\ Len(PlayerOrder) >= 2
    BY PlayersFinite, PlayersSeated, SeatsFit
  <2>2. 1 \in DOMAIN PlayerOrder /\ 2 \in DOMAIN PlayerOrder
    BY <2>1
  <2>3. PlayerOrder[1] # PlayerOrder[2] /\ PlayerOrder[1] \in Player /\ PlayerOrder[2] \in Player
    BY <2>2, SeatsFit DEF Player
  <2> QED
    BY <2>3
<1>12. Active(g, p, "ACTION_PHASE")
  BY FreeIsActive DEF Acting
<1> QED
  BY <1>8, <1>9, <1>10, <1>11, <1>12 DEF ValidOfferTrade

\* Answers: who is asked is bound by no offer of its own, and agrees if it can pay.
LEMMA ResponsesValid ==
  ASSUME NEW g, Fair(g), ~Is(g, "GAME_OVER"), NEW p \in Player, NEW h, WellGuessed(g, p, h),
         NEW t \in TradeId, Asked(g, p, t), NEW response \in BotResponses(h, p, t)
  PROVE  ValidRespondTrade(g, p, t, response)
<1>1. h.hand[p] = g.hand[p] /\ h.trades[t] = TradeFor(g.trades[t], p)
  <2>1. h.hand[p] = g.hand[p] /\ h.trades = [u \in TradeId |-> TradeFor(g.trades[u], p)]
    BY GuessShares
  <2> QED
    BY <2>1
<1>2. /\ Collecting(g, t) /\ p \in g.trades[t].recipients
      /\ Has(g.hand[g.trades[t].from], g.trades[t].offered)
  BY DEF Asked
<1>3. /\ Deals(g.trades) /\ Staged(g.phase, g.hand, g.trades) /\ Deal(g.trades[t])
  BY DEF Fair, Solid, Timely, Deals
<1>4. g.trades[t] # NoTrade /\ g.trades[t].from # p
  BY <1>2, <1>3 DEF Deal, Collecting, NoTrade
<1>5. h.trades[t] = g.trades[t]
  BY <1>1, <1>2 DEF TradeFor, CanSeeTrade
<1>6. ActiveCollectingTrades(g, p) = {}
  <2> SUFFICES ASSUME NEW u \in ActiveCollectingTrades(g, p) PROVE FALSE
    OBVIOUS
  <2>1. u \in TradeId /\ IsStaged(g.trades[u]) /\ g.trades[u].from = p
    BY <1>3 DEF ActiveCollectingTrades, Collecting, IsStaged, Deals
  <2>2. u = t
    BY <1>2, <1>3, <2>1 DEF Staged, Collecting, IsStaged, Is
  <2> QED
    BY <1>4, <2>1, <2>2
<1>7. response = "WANTS_ACCEPT" => Has(g.hand[p], g.trades[t].requested)
  BY <1>1, <1>5 DEF BotResponses
<1> QED
  BY <1>2, <1>6, <1>7 DEF ValidRespondTrade, Unlocked

LEMMA CandidatesAre ==
  ASSUME NEW g, Fair(g), NEW p \in Player, NEW h, WellGuessed(g, p, h)
  PROVE  LET c == BotCandidates(h, p)
         IN  /\ c.setups = {x \in SetupItem(g, p) \X Edge : CanBuildSetupRoad(g, x[2], x[1])}
             /\ c.discards = IF Pending(g, p) THEN SubBundles(g.hand[p], g.phase.pending[p]) ELSE {}
             /\ c.thief = BotThiefMoves(h, p, ThiefItem(g, p))
             /\ c.knights = {<<k[1], x>> : k \in KnightItem(g, p),
                                           x \in BotThiefMoves(h, p, ValidThiefHexes(g))}
             /\ c.offers = IF Acting(g, p) THEN BotOffers(h, p) ELSE {}
<1> DEFINE menu == LegalActions(h, p)
           c == BotCandidates(h, p)
<1>1. /\ Alike(g.phase, h.phase) /\ h.roads = g.roads /\ h.hand[p] = g.hand[p]
      /\ (Pending(h, p) <=> Pending(g, p))
      /\ menu = Menu(g, p) /\ ValidThiefHexes(h) = ValidThiefHexes(g)
  BY GuessShares, MenuIs
<1>2. /\ menu.PLACE_SETUP = SetupItem(g, p) /\ menu.MOVE_THIEF = ThiefItem(g, p)
      /\ menu.PLAY_KNIGHT = KnightItem(g, p) /\ menu.END_TURN = Acting(g, p)
  BY <1>1 DEF Menu
<1> HIDE DEF menu
<1>3. /\ c.setups = BotSetups(h, menu.PLACE_SETUP)
      /\ c.discards = IF Pending(h, p) THEN BotDiscards(h, p) ELSE {}
      /\ c.thief = BotThiefMoves(h, p, menu.MOVE_THIEF)
      /\ c.knights = {<<k[1], x>> : k \in menu.PLAY_KNIGHT,
                                    x \in BotThiefMoves(h, p, ValidThiefHexes(h))}
      /\ c.offers = IF menu.END_TURN THEN BotOffers(h, p) ELSE {}
  BY DEF BotCandidates, menu
<1>4. BotSetups(h, menu.PLACE_SETUP) = {x \in SetupItem(g, p) \X Edge : CanBuildSetupRoad(g, x[2], x[1])}
  BY <1>1, <1>2 DEF BotSetups, CanBuildSetupRoad
<1>5. Pending(g, p) => BotDiscards(h, p) = SubBundles(g.hand[p], g.phase.pending[p])
  BY <1>1 DEF BotDiscards, Alike, Pending, Is
<1> HIDE DEF c
<1>6. /\ c.setups = {x \in SetupItem(g, p) \X Edge : CanBuildSetupRoad(g, x[2], x[1])}
      /\ c.discards = IF Pending(g, p) THEN SubBundles(g.hand[p], g.phase.pending[p]) ELSE {}
      /\ c.thief = BotThiefMoves(h, p, ThiefItem(g, p))
      /\ c.knights = {<<k[1], x>> : k \in KnightItem(g, p),
                                    x \in BotThiefMoves(h, p, ValidThiefHexes(g))}
      /\ c.offers = IF Acting(g, p) THEN BotOffers(h, p) ELSE {}
  BY <1>1, <1>2, <1>3, <1>4, <1>5
<1> QED
  BY <1>6 DEF c

LEMMA OrderBots == InGoodOrder => BotsPlayOn
<1> SUFFICES ASSUME InGoodOrder, ~Is(game, "GAME_OVER"), NEW p \in Player,
                    NEW guess, guess = BotState(View(game, p), p),
                    NEW choice, choice = BotCandidates(guess, p)
             PROVE  /\ TriesOut(game, p) => AssertInvariants(guess)
                    /\ (ActivePlayer(game) = p /\ ActiveCollectingTrades(game, p) = {}) =>
                           HasChoice(game, choice)
                    /\ \A x \in choice.setups : ValidPlaceSetup(game, p, x[1], x[2])
                    /\ \A b \in choice.discards : ValidDiscardResources(game, p, b)
                    /\ \A x \in choice.thief : ValidMoveThief(game, p, x[1], x[2])
                    /\ \A k \in choice.knights : ValidPlayKnight(game, p, k[1], k[2][1], k[2][2])
                    /\ \A o \in choice.offers, t \in TradeId :
                           game.trades[t] = NoTrade => ValidOfferTrade(game, p, t, o, Player \ {p})
                    /\ \A t \in TradeId :
                           /\ Asked(game, p, t) => \A response \in BotResponses(guess, p, t) :
                                  ValidRespondTrade(game, p, t, response)
                           /\ (t \in ActiveCollectingTrades(game, p) /\ BotFinalizes(game, t)) =>
                                  \A q \in Acceptors(game, t) : ValidFinalizeTrade(game, p, t, q)
  BY DEF BotsPlayOn
<1>1. /\ Fair(game) /\ Due(game.phase)
      /\ scenario \in Scenarios /\ Sited(game, SetupSpots(scenario))
  BY DEF InGoodOrder, Settled, Sound, Fair, Timely
<1>2. WellGuessed(game, p, guess)
  BY <1>1, BotGuesses DEF Fair
<1>3. /\ choice.setups = {x \in SetupItem(game, p) \X Edge : CanBuildSetupRoad(game, x[2], x[1])}
      /\ choice.discards = IF Pending(game, p) THEN SubBundles(game.hand[p], game.phase.pending[p]) ELSE {}
      /\ choice.thief = BotThiefMoves(guess, p, ThiefItem(game, p))
      /\ choice.knights = {<<k[1], x>> : k \in KnightItem(game, p),
                                         x \in BotThiefMoves(guess, p, ValidThiefHexes(game))}
      /\ choice.offers = IF Acting(game, p) THEN BotOffers(guess, p) ELSE {}
  BY <1>1, <1>2, CandidatesAre
<1>4. TriesOut(game, p) => AssertInvariants(guess)
  BY <1>1, <1>2, GuessAccepted
<1>5. \A x \in choice.setups : ValidPlaceSetup(game, p, x[1], x[2])
  <2> SUFFICES ASSUME NEW x \in choice.setups PROVE ValidPlaceSetup(game, p, x[1], x[2])
    OBVIOUS
  <2>1. x[1] \in SetupItem(game, p) /\ CanBuildSetupRoad(game, x[2], x[1])
    BY <1>3
  <2>2. /\ Free(game, p) /\ Is(game, "SETUP_PLACEMENT") /\ CanPlaceSettlement(game, x[1], FALSE, p)
        /\ x[1] \in x[2]
    BY <2>1 DEF SetupItem, CanBuildSetupRoad
  <2>3. game.phase.active = p
    BY <2>2 DEF Free, ActivePlayer, Is
  <2>4. /\ Cardinality(BuildingsOf(game, p, "settlement")) < MaxSettlements
        /\ Cardinality(RoadsOf(game, p)) < MaxRoads
    BY <1>1, <2>2, <2>3, SetupIsOpen
  <2>5. Active(game, p, "SETUP_PLACEMENT")
    BY <2>2, FreeIsActive
  <2> QED
    BY <2>1, <2>2, <2>4, <2>5 DEF ValidPlaceSetup
<1>6. \A b \in choice.discards : ValidDiscardResources(game, p, b)
  BY <1>1, <1>3, DiscardsThere
<1>7. \A x \in choice.thief : ValidMoveThief(game, p, x[1], x[2])
  <2> SUFFICES ASSUME NEW x \in choice.thief PROVE ValidMoveThief(game, p, x[1], x[2])
    OBVIOUS
  <2>1. ThiefItem(game, p) \in SUBSET ValidThiefHexes(game)
    BY DEF ThiefItem
  <2>2. ValidThiefMove(game, p, x[1], x[2]) /\ x[1] \in ThiefItem(game, p)
    BY <1>1, <1>2, <1>3, <2>1, ThiefMovesValid
  <2>3. Active(game, p, "MOVING_THIEF")
    BY <2>2, FreeIsActive DEF ThiefItem
  <2> QED
    BY <2>2, <2>3 DEF ValidMoveThief
<1>8. \A k \in choice.knights : ValidPlayKnight(game, p, k[1], k[2][1], k[2][2])
  <2> SUFFICES ASSUME NEW k \in choice.knights
               PROVE  ValidPlayKnight(game, p, k[1], k[2][1], k[2][2])
    OBVIOUS
  <2>1. PICK i \in KnightItem(game, p), x \in BotThiefMoves(guess, p, ValidThiefHexes(game)) :
           k = <<i[1], x>>
    BY <1>3
  <2>2. i[1] \in Playing(game, p, "KNIGHT")
    BY <2>1 DEF KnightItem
  <2>3. ValidDevelopmentCardPlay(game, p, i[1], "KNIGHT")
    BY <2>2, PlayingIsValid
  <2>4. ValidThiefMove(game, p, x[1], x[2])
    BY <1>1, <1>2, ThiefMovesValid
  <2> QED
    BY <2>1, <2>3, <2>4 DEF ValidPlayKnight
<1>9. \A o \in choice.offers, t \in TradeId :
         game.trades[t] = NoTrade => ValidOfferTrade(game, p, t, o, Player \ {p})
  BY <1>1, <1>2, <1>3, OffersValid
<1>10. ASSUME NEW t \in TradeId
       PROVE  /\ Asked(game, p, t) => \A response \in BotResponses(guess, p, t) :
                     ValidRespondTrade(game, p, t, response)
              /\ (t \in ActiveCollectingTrades(game, p) /\ BotFinalizes(game, t)) =>
                     \A q \in Acceptors(game, t) : ValidFinalizeTrade(game, p, t, q)
  <2>1. Asked(game, p, t) => \A response \in BotResponses(guess, p, t) :
                                ValidRespondTrade(game, p, t, response)
    BY <1>1, <1>2, ResponsesValid
  <2>2. ASSUME t \in ActiveCollectingTrades(game, p), BotFinalizes(game, t),
               NEW q \in Acceptors(game, t)
        PROVE  ValidFinalizeTrade(game, p, t, q)
    BY <2>2 DEF ActiveCollectingTrades, BotFinalizes, Acceptors, ValidFinalizeTrade, Chosen, Mine
  <2> QED
    BY <2>1, <2>2
<1>11. ASSUME ActivePlayer(game) = p, ActiveCollectingTrades(game, p) = {}
       PROVE  HasChoice(game, choice)
  <2>1. Free(game, p) /\ game.phase.active = p
    BY <1>11 DEF Free, ActivePlayer
  <2>2. ASSUME Is(game, "SETUP_PLACEMENT") PROVE choice.setups # {}
    <3>1. PICK v \in Vertex : CanPlaceSettlement(game, v, FALSE, p)
      BY <1>1, <1>11, <2>2, SetupsThere
    <3>2. PICK e \in Edge : CanBuildSetupRoad(game, e, v)
      BY <1>1, <2>2, <3>1, SetupIsOpen
    <3>3. v \in SetupItem(game, p)
      BY <2>1, <2>2, <3>1 DEF SetupItem
    <3>4. <<v, e>> \in choice.setups
      BY <1>3, <3>2, <3>3
    <3> QED
      BY <3>4
  <2>3. ASSUME Is(game, "DISCARDING") PROVE choice.discards # {}
    <3>1. Pending(game, p)
      BY <1>1, <2>1, <2>3 DEF Due, Pending, Is
    <3> QED
      BY <1>1, <1>3, <3>1, DiscardsThere
  <2>4. ASSUME Is(game, "MOVING_THIEF") PROVE choice.thief # {}
    <3>1. ValidThiefHexes(game) # {}
      <4>1. CASE Cardinality(Hex) <= 1
        BY <4>1, BoardFits DEF ValidThiefHexes
      <4>2. CASE ~(Cardinality(Hex) <= 1)
        <5>1. Hex # {game.thief}
          <6>1. Cardinality({game.thief}) = 1
            BY FS_Singleton
          <6> QED
            BY <4>2, <6>1
        <5> QED
          BY <4>2, <5>1, BoardFits DEF ValidThiefHexes
      <4> QED
        BY <4>1, <4>2
    <3>2. ThiefItem(game, p) # {}
      BY <2>1, <2>4, <3>1 DEF ThiefItem
    <3> QED
      BY <1>1, <1>2, <1>3, <3>2, ThiefMovesValid
  <2> QED
    BY <2>2, <2>3, <2>4 DEF HasChoice
<1> QED
  BY <1>4, <1>5, <1>6, <1>7, <1>8, <1>9, <1>10, <1>11

(* Nobody's absence stops a match: in every phase the command the clock    *)
(* plays is there and valid, a bot finds something to play, what it        *)
(* chooses from its guess of the game is valid in the game itself, and     *)
(* where it tries its moves out, the guess is a game the engine accepts.   *)
THEOREM AutomationCanAlwaysAct == Spec => []AutomationCanAct
<1>1. Spec => []InGoodOrder
  BY AlwaysInGoodOrder
<1>2. InGoodOrder => AutomationCanAct
  BY OrderClocks, OrderBots DEF AutomationCanAct
<1> QED
  BY <1>1, <1>2, PTL

-----------------------------------------------------------------------------
(***************************************************************************)
(* The log of a match (ReplayLog).  A fold over the events is a run of     *)
(* states, one before the first event and one after each; what holds of    *)
(* the first and is kept by an event holds of the last.                    *)
(***************************************************************************)
\* Any log can be put in order.
Sortable(k) == \A e \in [1..k -> LogEvents] : \E p \in Orders(k) : Sorted(Rearranged(e, p))

LEMMA LatestEvent ==
  ASSUME NEW k \in Nat, NEW e \in [1..(k + 1) -> LogEvents]
  PROVE  \E m \in 1..(k + 1) : \A i \in 1..(k + 1) : e[i].seq <= e[m].seq
<1> DEFINE D == 1..(k + 1)
           T == {MaxSeq - e[i].seq : i \in D}
<1>1. MaxSeq \in Nat /\ \A i \in D : e[i] \in LogEvents /\ e[i].seq \in 0..MaxSeq
  BY LogBounds DEF LogEvents
<1>2. \A i \in D : MaxSeq - e[i].seq \in Nat
  BY <1>1
<1>3. T \in SUBSET Nat /\ T # {}
  <2>1. 1 \in D
    OBVIOUS
  <2> HIDE DEF D
  <2> QED
    BY <1>2, <2>1
<1>4. PICK t \in T : \A u \in T : t <= u
  <2> HIDE DEF T
  <2> QED
    BY <1>3, LeastNumber
<1>5. PICK m \in D : t = MaxSeq - e[m].seq
  OBVIOUS
<1>6. \A i \in D : MaxSeq - e[m].seq <= MaxSeq - e[i].seq
  BY <1>4, <1>5
<1>7. \A i \in D : e[i].seq <= e[m].seq
  <2> HIDE DEF D, T
  <2> QED
    BY <1>1, <1>5, <1>6
<1> QED
  BY <1>5, <1>7

LEMMA SortingGoesOn ==
  ASSUME NEW k \in Nat, Sortable(k)
  PROVE  Sortable(k + 1)
<1> SUFFICES ASSUME NEW e \in [1..(k + 1) -> LogEvents]
             PROVE  \E p \in Orders(k + 1) : Sorted(Rearranged(e, p))
  BY DEF Sortable
<1>1. PICK m \in 1..(k + 1) : \A i \in 1..(k + 1) : e[i].seq <= e[m].seq
  BY LatestEvent
<1> DEFINE rest == [i \in 1..k |-> IF i = m THEN e[k + 1] ELSE e[i]]
<1>2. rest \in [1..k -> LogEvents]
  OBVIOUS
<1>3. PICK q \in Orders(k) : Sorted(Rearranged(rest, q))
  BY <1>2 DEF Sortable
<1>4. q \in [1..k -> 1..k] /\ {q[i] : i \in 1..k} = 1..k
  BY <1>3 DEF Orders
<1>5. \A i, j \in 1..k : i < j => rest[q[i]].seq <= rest[q[j]].seq
  BY <1>3 DEF Sorted, Rearranged
<1> DEFINE p == [i \in 1..(k + 1) |-> IF i = k + 1 THEN m ELSE IF q[i] = m THEN k + 1 ELSE q[i]]
<1>6. p \in [1..(k + 1) -> 1..(k + 1)]
  <2>1. \A i \in 1..(k + 1) : i # k + 1 => i \in 1..k /\ q[i] \in 1..k
    BY <1>4
  <2>2. \A x \in 1..k : x \in 1..(k + 1)
    OBVIOUS
  <2>3. k + 1 \in 1..(k + 1)
    OBVIOUS
  <2> QED
    BY <2>1, <2>2, <2>3
<1>7. \A x \in 1..(k + 1) : \E i \in 1..(k + 1) : p[i] = x
  <2> SUFFICES ASSUME NEW x \in 1..(k + 1) PROVE \E i \in 1..(k + 1) : p[i] = x
    OBVIOUS
  <2>1. CASE x = m
    <3>1. p[k + 1] = m
      OBVIOUS
    <3> QED
      BY <2>1, <3>1
  <2>2. CASE x # m /\ x = k + 1
    <3>1. m \in 1..k
      BY <2>2
    <3>2. PICK i \in 1..k : q[i] = m
      BY <1>4, <3>1
    <3>3. p[i] = k + 1
      BY <3>2
    <3> QED
      BY <2>2, <3>3
  <2>3. CASE x # m /\ x # k + 1
    <3>1. x \in 1..k
      BY <2>3
    <3>2. PICK i \in 1..k : q[i] = x
      BY <1>4, <3>1
    <3>3. p[i] = x
      BY <2>3, <3>2
    <3> QED
      BY <3>3
  <2> QED
    BY <2>1, <2>2, <2>3
<1>8. p \in Orders(k + 1)
  <2>1. {p[i] : i \in 1..(k + 1)} = 1..(k + 1)
    <3> HIDE DEF p
    <3> QED
      BY <1>6, <1>7
  <2> HIDE DEF p
  <2> QED
    BY <1>6, <2>1 DEF Orders
<1>9. \A i \in 1..k : e[p[i]] = rest[q[i]]
  <2> SUFFICES ASSUME NEW i \in 1..k PROVE e[p[i]] = rest[q[i]]
    OBVIOUS
  <2>1. q[i] \in 1..k /\ i # k + 1 /\ i \in 1..(k + 1)
    BY <1>4
  <2> QED
    BY <2>1
<1>10. e[p[k + 1]] = e[m]
  OBVIOUS
<1>11. \A i, j \in 1..(k + 1) : i < j => e[p[i]].seq <= e[p[j]].seq
  <2> SUFFICES ASSUME NEW i \in 1..(k + 1), NEW j \in 1..(k + 1), i < j
               PROVE  e[p[i]].seq <= e[p[j]].seq
    OBVIOUS
  <2>1. i \in 1..k /\ (j = k + 1 \/ j \in 1..k) /\ p[i] \in 1..(k + 1)
    BY <1>6
  <2> HIDE DEF p, rest
  <2> QED
    BY <1>1, <1>5, <1>9, <1>10, <2>1
<1>12. Sorted(Rearranged(e, p))
  <2>1. Rearranged(e, p) = [i \in 1..(k + 1) |-> e[p[i]]]
    BY DEF Rearranged
  <2> HIDE DEF p
  <2> QED
    BY <1>11, <2>1 DEF Sorted
<1> HIDE DEF p
<1> QED
  BY <1>8, <1>12

LEMMA LogsAreSortable == \A k \in Nat : Sortable(k)
<1> DEFINE S == {k \in Nat : Sortable(k)}
<1>1. Sortable(0)
  <2>1. ASSUME NEW e \in [1..0 -> LogEvents]
        PROVE  /\ [i \in 1..0 |-> 1] \in Orders(0)
               /\ Sorted(Rearranged(e, [i \in 1..0 |-> 1]))
    BY DEF Orders, Sorted, Rearranged
  <2> QED
    BY <2>1 DEF Sortable
<1>2. 0 \in S /\ \A k \in Nat : k \in S => k + 1 \in S
  BY <1>1, SortingGoesOn
<1>3. Nat \subseteq S
  <2> HIDE DEF S
  <2> QED
    BY <1>2, AllNumbers
<1> QED
  BY <1>3

\* The events of a log in order: the same events, by number.
LEMMA InOrder ==
  ASSUME NEW log \in Logs
  PROVE  LET n == Len(log.events)
             s == Ordered(log)
         IN  /\ n \in Nat /\ log.events \in [1..n -> LogEvents]
             /\ s \in [1..n -> LogEvents]
             /\ \A i, j \in 1..n : i < j => s[i].seq <= s[j].seq
             /\ \A i \in 1..n : \E j \in 1..n : s[i] = log.events[j]
             /\ \A j \in 1..n : \E i \in 1..n : s[i] = log.events[j]
<1> DEFINE n == Len(log.events)
           e == log.events
<1>1. PICK k \in 0..MaxEvents : e \in [1..k -> LogEvents]
  BY DEF Logs
<1>2. k \in Nat /\ n = k
  BY <1>1, LogBounds
<1>3. n \in Nat /\ e \in [1..n -> LogEvents]
  BY <1>1, <1>2
<1> DEFINE Candidates == {Rearranged(e, p) : p \in Orders(n)}
<1>4. \E s \in Candidates : Sorted(s)
  <2> HIDE DEF n, e
  <2> QED
    BY <1>3, LogsAreSortable DEF Sortable
<1>5. Ordered(log) \in Candidates /\ Sorted(Ordered(log))
  BY <1>4 DEF Ordered
<1>6. PICK p \in Orders(n) : Ordered(log) = Rearranged(e, p)
  BY <1>5
<1> HIDE DEF n, e
<1>7. p \in [1..n -> 1..n] /\ {p[i] : i \in 1..n} = 1..n
  BY DEF Orders
<1>8. Ordered(log) = [i \in 1..n |-> e[p[i]]]
  BY <1>3, <1>6 DEF Rearranged
<1>9. Ordered(log) \in [1..n -> LogEvents]
  BY <1>3, <1>7, <1>8
<1>10. \A i, j \in 1..n : i < j => Ordered(log)[i].seq <= Ordered(log)[j].seq
  BY <1>5, <1>9 DEF Sorted
<1>11. \A i \in 1..n : \E j \in 1..n : Ordered(log)[i] = e[j]
  BY <1>7, <1>8
<1>12. \A j \in 1..n : \E i \in 1..n : Ordered(log)[i] = e[j]
  BY <1>7, <1>8
<1> QED
  BY <1>3, <1>9, <1>10, <1>11, <1>12 DEF n, e

\* What has been seen, and told, after each event of a log.
Codes == {"INVALID_SNAPSHOT", "INVALID_EVENT", "DUPLICATE_SEQUENCE", "MISSING_SEQUENCE",
          "INVALID_SEQUENCE_START"}
SeenSet == [expected : Nat, numbers : SUBSET Nat,
            issues : SUBSET [code : Codes, from : Nat, seq : Nat]]
NoneSeen(log) == [expected |-> log.snapshot + 1, numbers |-> {}, issues |-> SnapshotIssues(log)]
Checks(seen, log, s, n) ==
  /\ seen[0] = NoneSeen(log)
  /\ \A k \in 0..n : seen[k] \in SeenSet
  /\ \A k \in 0..n : k # n => seen[k + 1] = Checked(log.snapshot + 1, seen[k], s[k + 1])

LEMMA CountedIs ==
  ASSUME NEW a, NEW b, NEW c, NEW e
  PROVE  Counted([expected |-> a, numbers |-> b, issues |-> c], e)
           = [expected |-> e.seq + 1, numbers |-> b \cup {e.seq}, issues |-> c]
<1> DEFINE r == [expected |-> a, numbers |-> b, issues |-> c]
           n == e.seq + 1
           m == b \cup {e.seq}
<1>1. Counted(r, e) = [[r EXCEPT !.numbers = m] EXCEPT !.expected = n]
  BY DEF Counted
<1> HIDE DEF n, m
<1>2. [r EXCEPT !.numbers = m] = [expected |-> a, numbers |-> m, issues |-> c]
  OBVIOUS
<1>3. [[expected |-> a, numbers |-> m, issues |-> c] EXCEPT !.expected = n]
        = [expected |-> n, numbers |-> m, issues |-> c]
  OBVIOUS
<1> QED
  BY <1>1, <1>2, <1>3 DEF n, m

LEMMA CheckedTyped ==
  ASSUME NEW first \in Nat, NEW seen \in SeenSet, NEW e \in LogEvents
  PROVE  Checked(first, seen, e) \in SeenSet
<1> DEFINE Told == [code : Codes, from : Nat, seq : Nat]
           told == [seen EXCEPT !.issues = @ \cup Malformed(e)]
<1>1. e.seq \in Nat /\ e.seq + 1 \in Nat
  BY LogBounds DEF LogEvents
<1>2. seen.expected \in Nat /\ seen.numbers \subseteq Nat /\ seen.issues \subseteq Told
  BY DEF SeenSet
<1>3. \A code \in Codes, from \in Nat : Issue(code, from, e) \in Told
  BY <1>1 DEF Issue
<1>4. Malformed(e) \subseteq Told /\ OutOfPlace(first, seen, e) \subseteq Told
  <2> HIDE DEF Told
  <2> QED
    BY <1>2, <1>3 DEF Malformed, OutOfPlace, Codes
<1>5. Issue("DUPLICATE_SEQUENCE", 0, e) \in Told
  <2> HIDE DEF Told
  <2> QED
    BY <1>3 DEF Codes
<1>14. seen = [expected |-> seen.expected, numbers |-> seen.numbers, issues |-> seen.issues]
  BY DEF SeenSet
<1>6. told = [expected |-> seen.expected, numbers |-> seen.numbers, issues |-> seen.issues \cup Malformed(e)]
  BY <1>14
<1> HIDE DEF told, Told
<1>7. told \in SeenSet
  BY <1>2, <1>4, <1>6 DEF SeenSet, Told
<1>13. [told EXCEPT !.issues = @ \cup OutOfPlace(first, seen, e)] =
        [expected |-> seen.expected, numbers |-> seen.numbers,
         issues |-> (seen.issues \cup Malformed(e)) \cup OutOfPlace(first, seen, e)]
  BY <1>6
<1>8. Counted([told EXCEPT !.issues = @ \cup OutOfPlace(first, seen, e)], e) =
        [expected |-> e.seq + 1, numbers |-> seen.numbers \cup {e.seq},
         issues |-> (seen.issues \cup Malformed(e)) \cup OutOfPlace(first, seen, e)]
  <2> DEFINE c == (seen.issues \cup Malformed(e)) \cup OutOfPlace(first, seen, e)
  <2>1. Counted([expected |-> seen.expected, numbers |-> seen.numbers, issues |-> c], e)
          = [expected |-> e.seq + 1, numbers |-> seen.numbers \cup {e.seq}, issues |-> c]
    <3> HIDE DEF c
    <3> QED
      BY CountedIs
  <2> HIDE DEF told
  <2> QED
    BY <1>13, <2>1
<1>9. [told EXCEPT !.issues = @ \cup {Issue("DUPLICATE_SEQUENCE", 0, e)}] =
        [expected |-> seen.expected, numbers |-> seen.numbers,
         issues |-> (seen.issues \cup Malformed(e)) \cup {Issue("DUPLICATE_SEQUENCE", 0, e)}]
  BY <1>6
<1>10. Counted([told EXCEPT !.issues = @ \cup OutOfPlace(first, seen, e)], e) \in SeenSet
  <2>1. /\ e.seq + 1 \in Nat /\ seen.numbers \cup {e.seq} \subseteq Nat
        /\ (seen.issues \cup Malformed(e)) \cup OutOfPlace(first, seen, e) \subseteq Told
    BY <1>1, <1>2, <1>4
  <2> DEFINE numbers == seen.numbers \cup {e.seq}
             issues == (seen.issues \cup Malformed(e)) \cup OutOfPlace(first, seen, e)
  <2>2. [expected |-> e.seq + 1, numbers |-> numbers, issues |-> issues] \in SeenSet
    <3> HIDE DEF numbers, issues
    <3>1. e.seq + 1 \in Nat /\ numbers \subseteq Nat /\ issues \subseteq Told
      BY <2>1 DEF numbers, issues
    <3> QED
      BY <3>1 DEF SeenSet, Told
  <2> QED
    BY <1>8, <2>2
<1>11. [told EXCEPT !.issues = @ \cup {Issue("DUPLICATE_SEQUENCE", 0, e)}] \in SeenSet
  BY <1>2, <1>4, <1>5, <1>9 DEF SeenSet, Told
<1>12. Checked(first, seen, e) =
         IF e.seq = 0 THEN told
         ELSE IF e.seq \in seen.numbers THEN [told EXCEPT !.issues = @ \cup {Issue("DUPLICATE_SEQUENCE", 0, e)}]
         ELSE Counted([told EXCEPT !.issues = @ \cup OutOfPlace(first, seen, e)], e)
  BY DEF Checked, told
<1> QED
  BY <1>7, <1>10, <1>11, <1>12

CheckTable(h, log, s, n) ==
  h = [t \in SUBSET (1..n) |-> IF t = {} THEN NoneSeen(log)
                               ELSE Checked(log.snapshot + 1, h[t \ {Max(t)}], s[Max(t)])]

LEMMA ValidatedIs ==
  ASSUME NEW log, NEW n, DOMAIN Ordered(log) = 1..n
  PROVE  ValidateReplayLog(log) = (CHOOSE h : CheckTable(h, log, Ordered(log), n))[1..n].issues
BY DEF ValidateReplayLog, FoldLeft, MapThenFoldSet, CheckTable, NoneSeen

LEMMA LogsAreChecked ==
  ASSUME NEW log \in Logs, NEW n \in Nat, Ordered(log) \in [1..n -> LogEvents]
  PROVE  \E seen : Checks(seen, log, Ordered(log), n) /\ ValidateReplayLog(log) = seen[n].issues
<1> DEFINE s == Ordered(log)
           first == log.snapshot + 1
           op == [x \in SeenSet \X (1..n) |-> Checked(first, x[1], s[x[2]])]
<1>1. log.snapshot \in Nat /\ first \in Nat
  BY DEF Logs
<1>2. NoneSeen(log) \in SeenSet
  <2>1. SnapshotIssues(log) \subseteq [code : Codes, from : Nat, seq : Nat]
    BY <1>1 DEF SnapshotIssues, Codes
  <2> QED
    BY <1>1, <2>1 DEF NoneSeen, SeenSet
<1>3. \A x \in SeenSet, i \in 1..n : Checked(first, x, s[i]) \in SeenSet
  BY <1>1, CheckedTyped
<1>4. op \in [SeenSet \X (1..n) -> SeenSet]
  <2> HIDE DEF s, first
  <2> QED
    BY <1>3
<1>5. PICK g \in [SUBSET (1..n) -> SeenSet] : FoldTable(g, op, NoneSeen(log), n)
  <2> HIDE DEF op
  <2> QED
    BY <1>2, <1>4, FoldTableExists
<1>6. \A t \in SUBSET (1..n) : t # {} =>
        /\ Max(t) \in 1..n /\ t \ {Max(t)} \in SUBSET (1..n)
        /\ op[<<g[t \ {Max(t)}], Max(t)>>] = Checked(first, g[t \ {Max(t)}], s[Max(t)])
  <2> SUFFICES ASSUME NEW t \in SUBSET (1..n), t # {}
               PROVE  /\ Max(t) \in 1..n /\ t \ {Max(t)} \in SUBSET (1..n)
                      /\ op[<<g[t \ {Max(t)}], Max(t)>>] = Checked(first, g[t \ {Max(t)}], s[Max(t)])
    OBVIOUS
  <2>1. Max(t) \in 1..n
    BY Greatest
  <2>2. t \ {Max(t)} \in SUBSET (1..n)
    OBVIOUS
  <2>3. <<g[t \ {Max(t)}], Max(t)>> \in SeenSet \X (1..n)
    BY <2>1, <2>2
  <2> HIDE DEF s, first
  <2> QED
    BY <2>1, <2>2, <2>3
<1>7. CheckTable(g, log, s, n)
  <2>1. g = [t \in SUBSET (1..n) |-> IF t = {} THEN NoneSeen(log) ELSE op[<<g[t \ {Max(t)}], Max(t)>>]]
    BY <1>5 DEF FoldTable
  <2>2. \A t \in SUBSET (1..n) : g[t] = IF t = {} THEN NoneSeen(log)
                                        ELSE Checked(first, g[t \ {Max(t)}], s[Max(t)])
    <3> HIDE DEF op, s, first
    <3> QED
      BY <1>6, <2>1
  <2>3. g = [t \in SUBSET (1..n) |-> g[t]]
    OBVIOUS
  <2> HIDE DEF s
  <2> QED
    BY <2>2, <2>3 DEF CheckTable
<1> DEFINE h == CHOOSE h : CheckTable(h, log, s, n)
           seen == [k \in 0..n |-> h[1..k]]
<1>8. CheckTable(h, log, s, n)
  BY <1>7
<1>9. ValidateReplayLog(log) = h[1..n].issues
  BY ValidatedIs
<1> HIDE DEF h, s
<1>10. seen[0] = NoneSeen(log)
  BY <1>8, Beginnings DEF CheckTable
<1>11. \A k \in 0..n : k # n => seen[k + 1] = Checked(first, seen[k], s[k + 1])
  <2> SUFFICES ASSUME NEW k \in 0..n, k # n PROVE seen[k + 1] = Checked(first, seen[k], s[k + 1])
    OBVIOUS
  <2>1. /\ k + 1 \in 0..n /\ 1..(k + 1) \in SUBSET (1..n) /\ 1..(k + 1) # {}
        /\ Max(1..(k + 1)) = k + 1 /\ (1..(k + 1)) \ {k + 1} = 1..k
    BY Beginnings
  <2>2. h[1..(k + 1)] = Checked(first, h[(1..(k + 1)) \ {Max(1..(k + 1))}], s[Max(1..(k + 1))])
    BY <1>8, <2>1 DEF CheckTable
  <2> QED
    BY <2>1, <2>2
<1> HIDE DEF seen, first
<1>12. \A k \in 0..n : seen[k] \in SeenSet
  <2> DEFINE S == {k \in Nat : k \in 0..n => seen[k] \in SeenSet}
  <2>1. 0 \in S
    BY <1>2, <1>10
  <2>2. \A k \in Nat : k \in S => k + 1 \in S
    <3> SUFFICES ASSUME NEW k \in Nat, k \in S, k + 1 \in 0..n PROVE seen[k + 1] \in SeenSet
      OBVIOUS
    <3>1. k \in 0..n /\ k # n /\ seen[k] \in SeenSet /\ k + 1 \in 1..n
      OBVIOUS
    <3>2. seen[k + 1] = Checked(first, seen[k], s[k + 1])
      BY <1>11, <3>1
    <3> QED
      BY <1>3, <3>1, <3>2
  <2>3. Nat \subseteq S
    <3> HIDE DEF S
    <3> QED
      BY <2>1, <2>2, AllNumbers
  <2> QED
    BY <2>3
<1>13. seen[n] = h[1..n]
  BY DEF seen
<1> QED
  BY <1>9, <1>10, <1>11, <1>12, <1>13 DEF Checks, first, s

\* A log being checked, its events in order.
Passing(seen, log, s, n) ==
  /\ log \in Logs /\ n \in Nat /\ s \in [1..n -> LogEvents]
  /\ \A i, j \in 1..n : i < j => s[i].seq <= s[j].seq
  /\ Checks(seen, log, s, n)

NewIssues(first, x, e) ==
  IF e.seq = 0 THEN {}
  ELSE IF e.seq \in x.numbers THEN {Issue("DUPLICATE_SEQUENCE", 0, e)} ELSE OutOfPlace(first, x, e)

LEMMA TellingMore ==
  ASSUME NEW a, NEW b, NEW c, NEW d, NEW r, r = [expected |-> a, numbers |-> b, issues |-> c]
  PROVE  [r EXCEPT !.issues = @ \cup d] = [expected |-> a, numbers |-> b, issues |-> c \cup d]
<1> DEFINE m == c \cup d
<1>1. [[expected |-> a, numbers |-> b, issues |-> c] EXCEPT !.issues = m]
        = [expected |-> a, numbers |-> b, issues |-> m]
  <2> HIDE DEF m
  <2> QED
    OBVIOUS
<1>2. r.issues = c
  OBVIOUS
<1> QED
  BY <1>1, <1>2

LEMMA CheckedIs ==
  ASSUME NEW first \in Nat, NEW x \in SeenSet, NEW e \in LogEvents, NEW y, y = Checked(first, x, e)
  PROVE  /\ y.numbers = x.numbers \cup ({e.seq} \ {0})
         /\ y.expected = IF e.seq = 0 \/ e.seq \in x.numbers THEN x.expected ELSE e.seq + 1
         /\ y.issues = (x.issues \cup Malformed(e)) \cup NewIssues(first, x, e)
<1> DEFINE told == [x EXCEPT !.issues = @ \cup Malformed(e)]
           placed == (x.issues \cup Malformed(e)) \cup OutOfPlace(first, x, e)
           again == (x.issues \cup Malformed(e)) \cup {Issue("DUPLICATE_SEQUENCE", 0, e)}
<1>1. x = [expected |-> x.expected, numbers |-> x.numbers, issues |-> x.issues]
  BY DEF SeenSet
<1>2. told = [expected |-> x.expected, numbers |-> x.numbers, issues |-> x.issues \cup Malformed(e)]
  BY <1>1
<1>3. [told EXCEPT !.issues = @ \cup OutOfPlace(first, x, e)]
        = [expected |-> x.expected, numbers |-> x.numbers, issues |-> placed]
  <2> HIDE DEF told
  <2> QED
    BY <1>2, TellingMore
<1>4. [told EXCEPT !.issues = @ \cup {Issue("DUPLICATE_SEQUENCE", 0, e)}]
        = [expected |-> x.expected, numbers |-> x.numbers, issues |-> again]
  <2> HIDE DEF told
  <2> QED
    BY <1>2, TellingMore
<1>5. Counted([expected |-> x.expected, numbers |-> x.numbers, issues |-> placed], e)
        = [expected |-> e.seq + 1, numbers |-> x.numbers \cup {e.seq}, issues |-> placed]
  <2> HIDE DEF placed
  <2> QED
    BY CountedIs
<1>6. y = IF e.seq = 0 THEN told
          ELSE IF e.seq \in x.numbers THEN [told EXCEPT !.issues = @ \cup {Issue("DUPLICATE_SEQUENCE", 0, e)}]
          ELSE Counted([told EXCEPT !.issues = @ \cup OutOfPlace(first, x, e)], e)
  BY DEF Checked, told
<1>7. CASE e.seq = 0
  <2>1. y = [expected |-> x.expected, numbers |-> x.numbers, issues |-> x.issues \cup Malformed(e)]
    BY <1>2, <1>6, <1>7
  <2>2. NewIssues(first, x, e) = {} /\ {e.seq} \ {0} = {}
    BY <1>7 DEF NewIssues
  <2> QED
    BY <1>7, <2>1, <2>2
<1>8. CASE e.seq # 0 /\ e.seq \in x.numbers
  <2>1. y = [expected |-> x.expected, numbers |-> x.numbers, issues |-> again]
    BY <1>4, <1>6, <1>8
  <2>2. NewIssues(first, x, e) = {Issue("DUPLICATE_SEQUENCE", 0, e)} /\ x.numbers \cup ({e.seq} \ {0}) = x.numbers
    BY <1>8 DEF NewIssues
  <2> QED
    BY <1>8, <2>1, <2>2
<1>9. CASE e.seq # 0 /\ e.seq \notin x.numbers
  <2>1. y = [expected |-> e.seq + 1, numbers |-> x.numbers \cup {e.seq}, issues |-> placed]
    <3> HIDE DEF told, placed
    <3> QED
      BY <1>3, <1>5, <1>6, <1>9
  <2>2. NewIssues(first, x, e) = OutOfPlace(first, x, e) /\ {e.seq} \ {0} = {e.seq}
    BY <1>9 DEF NewIssues
  <2> QED
    BY <1>9, <2>1, <2>2
<1> QED
  BY <1>7, <1>8, <1>9

LEMMA NextChecked ==
  ASSUME NEW seen, NEW log, NEW s, NEW n, Passing(seen, log, s, n), NEW k \in 0..n, k # n
  PROVE  /\ k + 1 \in 1..n /\ k + 1 \in 0..n /\ k \in Nat
         /\ s[k + 1] \in LogEvents /\ s[k + 1].seq \in Nat /\ log.snapshot \in Nat
         /\ seen[k] \in SeenSet /\ seen[k].expected \in Nat /\ seen[k].numbers \subseteq Nat
         /\ seen[k + 1].numbers = seen[k].numbers \cup ({s[k + 1].seq} \ {0})
         /\ seen[k + 1].expected = IF s[k + 1].seq = 0 \/ s[k + 1].seq \in seen[k].numbers
                                   THEN seen[k].expected ELSE s[k + 1].seq + 1
         /\ seen[k + 1].issues = (seen[k].issues \cup Malformed(s[k + 1]))
                                   \cup NewIssues(log.snapshot + 1, seen[k], s[k + 1])
<1>1. k + 1 \in 1..n /\ k + 1 \in 0..n /\ k \in Nat
  BY DEF Passing
<1>2. s[k + 1] \in LogEvents /\ log.snapshot \in Nat
  BY <1>1 DEF Passing, Logs
<1>3. seen[k] \in SeenSet /\ seen[k + 1] = Checked(log.snapshot + 1, seen[k], s[k + 1])
  BY DEF Passing, Checks
<1>4. seen[k].expected \in Nat /\ seen[k].numbers \subseteq Nat
  BY <1>3 DEF SeenSet
<1>5. s[k + 1].seq \in Nat
  BY <1>2, LogBounds DEF LogEvents
<1>6. log.snapshot + 1 \in Nat
  BY <1>2
<1> QED
  BY <1>1, <1>2, <1>3, <1>4, <1>5, <1>6, CheckedIs

\* What has been seen of a log are its numbers; the one after the last is expected.
SeenSoFar(seen, log, s, k) ==
  /\ seen[k].numbers = {s[i].seq : i \in 1..k} \ {0}
  /\ (\A i \in 1..k : s[i].seq = 0) => seen[k].expected = log.snapshot + 1
  /\ (k # 0 /\ s[k].seq # 0) => seen[k].expected = s[k].seq + 1

LEMMA SeenGoesOn ==
  ASSUME NEW seen, NEW log, NEW s, NEW n, Passing(seen, log, s, n), NEW k \in 0..n, k # n,
         SeenSoFar(seen, log, s, k)
  PROVE  SeenSoFar(seen, log, s, k + 1)
<1> DEFINE e == s[k + 1]
<1>1. /\ k + 1 \in 1..n /\ k + 1 \in 0..n /\ k \in Nat /\ n \in Nat
      /\ e.seq \in Nat /\ log.snapshot \in Nat
      /\ seen[k].expected \in Nat
      /\ seen[k + 1].numbers = seen[k].numbers \cup ({e.seq} \ {0})
      /\ seen[k + 1].expected = IF e.seq = 0 \/ e.seq \in seen[k].numbers
                                THEN seen[k].expected ELSE e.seq + 1
  BY NextChecked DEF Passing
<1>2. 1..(k + 1) = (1..k) \cup {k + 1}
  BY <1>1
<1>3. \A i \in 1..k : /\ i \in 1..n /\ s[i].seq \in Nat /\ s[i].seq <= e.seq
                      /\ k \in 1..n /\ s[k].seq \in Nat /\ s[i].seq <= s[k].seq /\ s[k].seq <= e.seq
  <2> SUFFICES ASSUME NEW i \in 1..k
               PROVE  /\ i \in 1..n /\ s[i].seq \in Nat /\ s[i].seq <= e.seq
                      /\ k \in 1..n /\ s[k].seq \in Nat /\ s[i].seq <= s[k].seq /\ s[k].seq <= e.seq
    OBVIOUS
  <2>1. i \in 1..n /\ k \in 1..n /\ k + 1 \in 1..n /\ i < k + 1 /\ k < k + 1 /\ (i = k \/ i < k)
    BY <1>1
  <2>2. \A j \in 1..n : s[j].seq \in Nat
    BY LogBounds DEF Passing, LogEvents
  <2>3. s[i].seq <= e.seq /\ s[k].seq <= e.seq /\ (i < k => s[i].seq <= s[k].seq)
    BY <2>1 DEF Passing
  <2> QED
    BY <2>1, <2>2, <2>3
<1> HIDE DEF e
<1>4. seen[k + 1].numbers = {s[i].seq : i \in 1..(k + 1)} \ {0}
  BY <1>1, <1>2 DEF SeenSoFar, e
<1>5. (\A i \in 1..(k + 1) : s[i].seq = 0) => seen[k + 1].expected = log.snapshot + 1
  BY <1>1, <1>2 DEF SeenSoFar, e
<1>6. ASSUME e.seq # 0 PROVE seen[k + 1].expected = e.seq + 1
  <2>1. CASE e.seq \in seen[k].numbers
    <3>1. PICK i \in 1..k : s[i].seq = e.seq
      BY <2>1 DEF SeenSoFar
    <3>2. s[k].seq = e.seq /\ k # 0
      BY <1>1, <1>3, <3>1
    <3> QED
      BY <1>1, <1>6, <2>1, <3>2 DEF SeenSoFar
  <2>2. CASE e.seq \notin seen[k].numbers
    BY <1>1, <1>6, <2>2
  <2> QED
    BY <2>1, <2>2
<1> QED
  BY <1>4, <1>5, <1>6 DEF SeenSoFar, e

\* Nothing is told of a log that goes on where its snapshot ends.
Faultless(log, s, k) ==
  /\ log.at = log.snapshot
  /\ \A i \in 1..k : s[i].seq = log.snapshot + i /\ s[i].valid

ToldSoFar(seen, log, s, k) == seen[k].issues = {} <=> Faultless(log, s, k)

LEMMA ToldGoesOn ==
  ASSUME NEW seen, NEW log, NEW s, NEW n, Passing(seen, log, s, n), NEW k \in 0..n, k # n,
         SeenSoFar(seen, log, s, k), ToldSoFar(seen, log, s, k)
  PROVE  ToldSoFar(seen, log, s, k + 1)
<1> DEFINE e == s[k + 1]
           x == seen[k]
<1>1. /\ k + 1 \in 1..n /\ k + 1 \in 0..n /\ k \in Nat /\ n \in Nat
      /\ e \in LogEvents /\ e.seq \in Nat /\ log.snapshot \in Nat
      /\ x.expected \in Nat
      /\ seen[k + 1].issues = (x.issues \cup Malformed(e)) \cup NewIssues(log.snapshot + 1, x, e)
  <2>1. k \in Nat /\ n \in Nat /\ k + 1 \in 1..n /\ k + 1 \in 0..n
    BY DEF Passing
  <2>2. e \in LogEvents /\ e.seq \in Nat /\ log.snapshot \in Nat /\ x.expected \in Nat
    BY NextChecked
  <2>3. seen[k + 1].issues = (x.issues \cup Malformed(e)) \cup NewIssues(log.snapshot + 1, x, e)
    BY NextChecked
  <2> QED
    BY <2>1, <2>2, <2>3
<1>2. 1..(k + 1) = (1..k) \cup {k + 1}
  BY <1>1
<1>3. Faultless(log, s, k + 1) <=> Faultless(log, s, k) /\ e.seq = log.snapshot + (k + 1) /\ e.valid
  BY <1>2 DEF Faultless
<1>4. seen[k + 1].issues = {} <=>
        x.issues = {} /\ Malformed(e) = {} /\ NewIssues(log.snapshot + 1, x, e) = {}
  BY <1>1
<1>5. e.valid \in BOOLEAN /\ (Malformed(e) = {} <=> e.seq # 0 /\ e.valid)
  BY <1>1 DEF Malformed, LogEvents
<1>6. e.seq # 0 => (NewIssues(log.snapshot + 1, x, e) = {} <=> e.seq \notin x.numbers /\ e.seq = x.expected)
  BY DEF NewIssues, OutOfPlace
<1>7. ASSUME Faultless(log, s, k)
      PROVE  x.expected = log.snapshot + (k + 1) /\ log.snapshot + (k + 1) \notin x.numbers
             /\ log.snapshot + (k + 1) # 0
  <2>1. \A i \in 1..k : s[i].seq = log.snapshot + i
    BY <1>7 DEF Faultless
  <2>2. k # 0 => k \in 1..k
    BY <1>1
  <2>3. x.expected = log.snapshot + (k + 1)
    <3>1. CASE k = 0
      <4>1. \A i \in 1..k : s[i].seq = 0
        BY <3>1
      <4> QED
        BY <1>1, <3>1, <4>1 DEF SeenSoFar
    <3>2. CASE k # 0
      <4>1. s[k].seq = log.snapshot + k /\ log.snapshot + k # 0
        BY <1>1, <2>1, <2>2, <3>2
      <4>2. x.expected = log.snapshot + k + 1
        BY <3>2, <4>1 DEF SeenSoFar
      <4> QED
        BY <1>1, <4>2
    <3> QED
      BY <3>1, <3>2
  <2>4. \A i \in 1..k : log.snapshot + i # log.snapshot + (k + 1)
    BY <1>1
  <2>5. log.snapshot + (k + 1) \notin {s[i].seq : i \in 1..k}
    BY <2>1, <2>4
  <2> QED
    BY <1>1, <2>3, <2>5 DEF SeenSoFar
<1> HIDE DEF e, x
<1>8. x.issues = {} <=> Faultless(log, s, k)
  BY DEF ToldSoFar, x
<1>9. seen[k + 1].issues = {} <=> Faultless(log, s, k + 1)
  BY <1>3, <1>4, <1>5, <1>6, <1>7, <1>8
<1> QED
  BY <1>9 DEF ToldSoFar

\* The numbers left out before the one expected are those the gaps tell.
Cover(issues) == UNION {i.from .. (i.seq - 1) : i \in Gaps(issues)}
GapsSoFar(seen, log, k) ==
  Cover(seen[k].issues) = ((log.snapshot + 1) .. (seen[k].expected - 1)) \ seen[k].numbers

LEMMA CoverUnion == ASSUME NEW A, NEW B PROVE Cover(A \cup B) = Cover(A) \cup Cover(B)
BY DEF Cover, Gaps

LEMMA CoverNone ==
  ASSUME NEW A, \A i \in A : i.code \notin {"INVALID_SEQUENCE_START", "MISSING_SEQUENCE"}
  PROVE  Cover(A) = {}
BY DEF Cover, Gaps

LEMMA CoverPlace ==
  ASSUME NEW first, NEW x, NEW e, e.seq # x.expected
  PROVE  Cover(OutOfPlace(first, x, e)) = x.expected .. (e.seq - 1)
<1> DEFINE code == IF x.expected = first THEN "INVALID_SEQUENCE_START" ELSE "MISSING_SEQUENCE"
           i == Issue(code, x.expected, e)
<1>1. OutOfPlace(first, x, e) = {i}
  BY DEF OutOfPlace
<1>2. i.code = code /\ i.from = x.expected /\ i.seq = e.seq
  BY DEF Issue
<1>3. code \in {"INVALID_SEQUENCE_START", "MISSING_SEQUENCE"}
  OBVIOUS
<1> HIDE DEF i, code
<1>4. Gaps({i}) = {i}
  BY <1>2, <1>3 DEF Gaps
<1>5. UNION {j.from .. (j.seq - 1) : j \in {i}} = i.from .. (i.seq - 1)
  OBVIOUS
<1> QED
  BY <1>1, <1>2, <1>4, <1>5 DEF Cover

LEMMA GapsGoOn ==
  ASSUME NEW seen, NEW log, NEW s, NEW n, Passing(seen, log, s, n), NEW k \in 0..n, k # n,
         \A i \in 1..n : s[i].seq >= log.snapshot + 1,
         SeenSoFar(seen, log, s, k), GapsSoFar(seen, log, k)
  PROVE  GapsSoFar(seen, log, k + 1)
<1> DEFINE e == s[k + 1]
           x == seen[k]
           first == log.snapshot + 1
<1>1. /\ k + 1 \in 1..n /\ k + 1 \in 0..n /\ k \in Nat /\ n \in Nat
      /\ e \in LogEvents /\ e.seq \in Nat /\ log.snapshot \in Nat
      /\ x.expected \in Nat /\ x.numbers \subseteq Nat
      /\ seen[k + 1].numbers = x.numbers \cup ({e.seq} \ {0})
      /\ seen[k + 1].expected = IF e.seq = 0 \/ e.seq \in x.numbers THEN x.expected ELSE e.seq + 1
      /\ seen[k + 1].issues = (x.issues \cup Malformed(e)) \cup NewIssues(log.snapshot + 1, x, e)
  <2>1. n \in Nat
    BY DEF Passing
  <2> HIDE DEF first
  <2> QED
    BY <2>1, NextChecked
<1>2. first \in Nat /\ e.seq >= first /\ e.seq # 0
  BY <1>1
<1>3. \A i \in 1..k : i \in 1..n /\ s[i].seq \in Nat /\ s[i].seq <= e.seq
  <2> SUFFICES ASSUME NEW i \in 1..k PROVE i \in 1..n /\ s[i].seq \in Nat /\ s[i].seq <= e.seq
    OBVIOUS
  <2>1. i \in 1..n /\ k + 1 \in 1..n /\ i < k + 1
    BY <1>1
  <2>2. \A j \in 1..n : s[j].seq \in Nat
    BY LogBounds DEF Passing, LogEvents
  <2>3. s[i].seq <= e.seq
    BY <2>1 DEF Passing
  <2> QED
    BY <2>1, <2>2, <2>3
<1>4. Cover(Malformed(e)) = {}
  <2>1. \A i \in Malformed(e) : i.code = "INVALID_EVENT"
    BY DEF Malformed, Issue
  <2> QED
    BY <2>1, CoverNone
<1>5. Cover(seen[k + 1].issues) = Cover(x.issues) \cup Cover(NewIssues(first, x, e))
  <2>1. seen[k + 1].issues = (x.issues \cup Malformed(e)) \cup NewIssues(first, x, e)
    BY <1>1
  <2> DEFINE A == x.issues
             B == Malformed(e)
             C == NewIssues(first, x, e)
  <2>2. seen[k + 1].issues = (A \cup B) \cup C /\ Cover(B) = {}
    BY <1>4, <2>1
  <2> HIDE DEF A, B, C
  <2>3. Cover(A \cup B) = Cover(A) \cup Cover(B) /\ Cover((A \cup B) \cup C) = Cover(A \cup B) \cup Cover(C)
    BY CoverUnion
  <2>4. Cover(seen[k + 1].issues) = Cover(A) \cup Cover(C)
    BY <2>2, <2>3
  <2> QED
    BY <2>4 DEF A, C
<1>6. Cover(x.issues) = (first .. (x.expected - 1)) \ x.numbers
  BY DEF GapsSoFar
<1>7. x.numbers = {s[i].seq : i \in 1..k} \ {0}
  BY DEF SeenSoFar
<1>8. k # 0 => k \in 1..k /\ s[k].seq \in x.numbers /\ x.expected = s[k].seq + 1 /\ s[k].seq \in Nat
  <2> SUFFICES ASSUME k # 0
               PROVE  k \in 1..k /\ s[k].seq \in x.numbers /\ x.expected = s[k].seq + 1 /\ s[k].seq \in Nat
    OBVIOUS
  <2>1. k \in 1..k /\ k \in 1..n
    BY <1>1
  <2>2. s[k].seq \in Nat /\ s[k].seq >= log.snapshot + 1
    BY <1>3, <2>1
  <2>3. s[k].seq # 0
    <3>1. log.snapshot \in Nat
      BY <1>1
    <3> QED
      BY <2>2, <3>1
  <2> HIDE DEF x
  <2> QED
    BY <1>7, <2>1, <2>2, <2>3 DEF SeenSoFar, x
<1>9. k = 0 => x.expected = first /\ x.numbers = {}
  <2> SUFFICES ASSUME k = 0 PROVE x.expected = first /\ x.numbers = {}
    OBVIOUS
  <2>1. 1..k = {}
    OBVIOUS
  <2> HIDE DEF x, first
  <2> QED
    BY <1>7, <2>1 DEF SeenSoFar, x, first
<1>10. \A m \in x.numbers : m \in Nat /\ m < x.expected /\ m <= e.seq
  <2> SUFFICES ASSUME NEW m \in x.numbers PROVE m \in Nat /\ m < x.expected /\ m <= e.seq
    OBVIOUS
  <2>1. PICK i \in 1..k : s[i].seq = m
    BY <1>7
  <2>2. k # 0 /\ i \in 1..n /\ k \in 1..n /\ (i = k \/ i < k)
    BY <1>1, <2>1
  <2>3. s[i].seq <= s[k].seq
    <3>1. s[k].seq \in Nat
      BY <1>3, <2>2
    <3> QED
      BY <2>2, <3>1 DEF Passing
  <2> HIDE DEF x
  <2> QED
    BY <1>3, <1>8, <2>1, <2>2, <2>3
<1> HIDE DEF e, x, first
<1>11. CASE e.seq \in x.numbers
  <2>1. Cover(NewIssues(first, x, e)) = {}
    <3>1. NewIssues(first, x, e) = {Issue("DUPLICATE_SEQUENCE", 0, e)}
      BY <1>2, <1>11 DEF NewIssues
    <3>2. \A i \in NewIssues(first, x, e) : i.code = "DUPLICATE_SEQUENCE"
      BY <3>1 DEF Issue
    <3> QED
      BY <3>2, CoverNone
  <2>2. seen[k + 1].numbers = x.numbers /\ seen[k + 1].expected = x.expected
    BY <1>1, <1>11
  <2> QED
    BY <1>5, <1>6, <2>1, <2>2 DEF GapsSoFar, first
<1>12. CASE e.seq \notin x.numbers
  <2>1. seen[k + 1].numbers = x.numbers \cup {e.seq} /\ seen[k + 1].expected = e.seq + 1
    BY <1>1, <1>2, <1>12
  <2>2. x.expected <= e.seq
    <3>1. CASE k = 0
      BY <1>2, <1>9, <3>1
    <3>2. CASE k # 0
      <4>1. s[k].seq # e.seq /\ s[k].seq <= e.seq
        BY <1>8, <1>10, <1>12, <3>2
      <4> QED
        BY <1>1, <1>8, <3>2, <4>1
    <3> QED
      BY <3>1, <3>2
  <2>3. Cover(NewIssues(first, x, e)) = x.expected .. (e.seq - 1)
    <3>1. NewIssues(first, x, e) = OutOfPlace(first, x, e)
      BY <1>2, <1>12 DEF NewIssues
    <3>2. CASE e.seq = x.expected
      <4>1. OutOfPlace(first, x, e) = {}
        BY <3>2 DEF OutOfPlace
      <4>2. Cover({}) = {}
        BY CoverNone
      <4>3. x.expected .. (e.seq - 1) = {}
        BY <1>1, <3>2
      <4> QED
        BY <3>1, <4>1, <4>2, <4>3
    <3>3. CASE e.seq # x.expected
      BY <3>1, <3>3, CoverPlace
    <3> QED
      BY <3>2, <3>3
  <2>4. first <= x.expected
    BY <1>2, <1>1, <1>8, <1>9, <1>3, <1>10 DEF first
  <2>5. (first .. (x.expected - 1)) \cup (x.expected .. (e.seq - 1)) = first .. (e.seq - 1)
    BY <1>1, <1>2, <2>2, <2>4
  <2>6. ((first .. (x.expected - 1)) \ x.numbers) \cup (x.expected .. (e.seq - 1))
          = (first .. ((e.seq + 1) - 1)) \ (x.numbers \cup {e.seq})
    <3>1. (first .. (x.expected - 1)) \cup (x.expected .. (e.seq - 1)) \cup {e.seq} = first .. ((e.seq + 1) - 1)
      BY <1>1, <1>2, <2>2, <2>4
    <3>2. \A m \in x.expected .. (e.seq - 1) : m \notin x.numbers /\ m # e.seq
      BY <1>1, <1>10
    <3>3. \A m \in first .. (x.expected - 1) : m # e.seq
      BY <1>1, <1>2, <2>2
    <3> QED
      BY <3>1, <3>2, <3>3
  <2> QED
    BY <1>5, <1>6, <2>1, <2>3, <2>6 DEF GapsSoFar, first
<1> QED
  BY <1>11, <1>12

LEMMA SeenFromTheStart ==
  ASSUME NEW seen, NEW log, NEW s, NEW n, Passing(seen, log, s, n)
  PROVE  /\ SeenSoFar(seen, log, s, n) /\ ToldSoFar(seen, log, s, n)
         /\ (\A i \in 1..n : s[i].seq >= log.snapshot + 1) => GapsSoFar(seen, log, n)
<1> DEFINE late == \A i \in 1..n : s[i].seq >= log.snapshot + 1
           Good(k) == /\ SeenSoFar(seen, log, s, k) /\ ToldSoFar(seen, log, s, k)
                      /\ late => GapsSoFar(seen, log, k)
           S == {k \in Nat : k \in 0..n => Good(k)}
<1>1. Good(0)
  <2>1. /\ seen[0].expected = log.snapshot + 1 /\ seen[0].numbers = {}
        /\ seen[0].issues = SnapshotIssues(log) /\ log.snapshot \in Nat
    BY DEF Passing, Checks, NoneSeen, Logs
  <2>2. 1..0 = {}
    OBVIOUS
  <2>3. SeenSoFar(seen, log, s, 0)
    BY <2>1, <2>2 DEF SeenSoFar
  <2>4. ToldSoFar(seen, log, s, 0)
    BY <2>1, <2>2 DEF ToldSoFar, Faultless, SnapshotIssues
  <2>5. GapsSoFar(seen, log, 0)
    <3>1. \A i \in SnapshotIssues(log) : i.code = "INVALID_SNAPSHOT"
      BY DEF SnapshotIssues
    <3>2. Cover(SnapshotIssues(log)) = {}
      BY <3>1, CoverNone
    <3>3. (log.snapshot + 1) .. ((log.snapshot + 1) - 1) = {}
      BY <2>1
    <3> QED
      BY <2>1, <3>2, <3>3 DEF GapsSoFar
  <2> QED
    BY <2>3, <2>4, <2>5
<1>2. \A k \in Nat : k \in S => k + 1 \in S
  <2> SUFFICES ASSUME NEW k \in Nat, k \in 0..n => Good(k), k + 1 \in 0..n PROVE Good(k + 1)
    OBVIOUS
  <2>1. k \in 0..n /\ k # n
    BY DEF Passing
  <2> HIDE DEF late
  <2>2. Good(k)
    BY <2>1
  <2>3. SeenSoFar(seen, log, s, k + 1)
    BY <2>1, <2>2, SeenGoesOn
  <2>4. ToldSoFar(seen, log, s, k + 1)
    BY <2>1, <2>2, ToldGoesOn
  <2>5. late => GapsSoFar(seen, log, k + 1)
    BY <2>1, <2>2, GapsGoOn DEF late
  <2> QED
    BY <2>3, <2>4, <2>5
<1>3. 0 \in S
  BY <1>1
<1>4. Nat \subseteq S
  <2> HIDE DEF S
  <2> QED
    BY <1>2, <1>3, AllNumbers
<1>5. n \in Nat /\ n \in 0..n
  BY DEF Passing
<1>6. Good(n)
  BY <1>4, <1>5
<1> QED
  BY <1>6

\* A sequence that climbs through k numbers in k places climbs one at a time.
LEMMA ClimbsByOne ==
  ASSUME NEW n \in Nat, NEW f \in [1..n -> Nat], NEW b \in Nat,
         \A i, j \in 1..n : i < j => f[i] <= f[j],
         \A x \in (b + 1) .. (b + n) : \E i \in 1..n : f[i] = x,
         \A i \in 1..n : f[i] \in (b + 1) .. (b + n)
  PROVE  \A i \in 1..n : f[i] = b + i
<1>1. \A i, j \in 1..n : i <= j => f[i] <= f[j]
  <2> SUFFICES ASSUME NEW i \in 1..n, NEW j \in 1..n, i <= j PROVE f[i] <= f[j]
    OBVIOUS
  <2>1. i < j \/ (i = j /\ f[i] \in Nat)
    OBVIOUS
  <2> QED
    BY <2>1
<1>2. ASSUME NEW i \in 1..n, i # n PROVE i + 1 \in 1..n /\ f[i + 1] <= f[i] + 1
  <2>1. i + 1 \in 1..n /\ f[i] \in Nat /\ f[i + 1] \in Nat
    BY <1>2
  <2>2. SUFFICES ASSUME f[i] + 1 < f[i + 1] PROVE FALSE
    BY <2>1
  <2>3. f[i] + 1 \in (b + 1) .. (b + n)
    <3>1. b + 1 <= f[i] /\ f[i + 1] <= b + n
      BY <2>1
    <3> QED
      BY <2>1, <2>2, <3>1
  <2>4. PICK j \in 1..n : f[j] = f[i] + 1
    BY <2>3
  <2>5. j <= i \/ i + 1 <= j
    BY <2>1
  <2>6. CASE j <= i
    <3>1. f[j] <= f[i]
      BY <1>1, <2>6
    <3> QED
      BY <2>1, <2>4, <3>1
  <2>7. CASE i + 1 <= j
    <3>1. f[i + 1] <= f[j]
      BY <1>1, <2>1, <2>7
    <3> QED
      BY <2>1, <2>2, <2>4, <3>1
  <2> QED
    BY <2>5, <2>6, <2>7
<1> DEFINE Low == {i \in Nat : i + 1 \in 1..n => f[i + 1] <= b + (i + 1)}
           High == {i \in Nat : n - i \in 1..n => f[n - i] >= b + (n - i)}
<1>3. 0 \in Low
  <2> SUFFICES ASSUME 1 \in 1..n PROVE f[1] <= b + 1
    OBVIOUS
  <2>1. b + 1 \in (b + 1) .. (b + n)
    OBVIOUS
  <2>2. PICK j \in 1..n : f[j] = b + 1
    BY <2>1
  <2>3. f[1] <= f[j]
    BY <1>1
  <2> QED
    BY <2>2, <2>3
<1>4. \A i \in Nat : i \in Low => i + 1 \in Low
  <2> SUFFICES ASSUME NEW i \in Nat, i \in Low, (i + 1) + 1 \in 1..n
               PROVE  f[(i + 1) + 1] <= b + ((i + 1) + 1)
    OBVIOUS
  <2>1. i + 1 \in 1..n /\ i + 1 # n
    OBVIOUS
  <2>2. f[i + 1] <= b + (i + 1) /\ f[(i + 1) + 1] <= f[i + 1] + 1
    BY <1>2, <2>1
  <2>3. f[i + 1] \in Nat /\ f[(i + 1) + 1] \in Nat
    BY <2>1
  <2> QED
    BY <2>2, <2>3
<1>5. 0 \in High
  <2> SUFFICES ASSUME n \in 1..n PROVE f[n] >= b + n
    OBVIOUS
  <2>1. b + n \in (b + 1) .. (b + n)
    OBVIOUS
  <2>2. PICK j \in 1..n : f[j] = b + n
    BY <2>1
  <2>3. f[j] <= f[n]
    BY <1>1
  <2> QED
    BY <2>2, <2>3
<1>6. \A i \in Nat : i \in High => i + 1 \in High
  <2> SUFFICES ASSUME NEW i \in Nat, i \in High, n - (i + 1) \in 1..n
               PROVE  f[n - (i + 1)] >= b + (n - (i + 1))
    OBVIOUS
  <2>1. n - i \in 1..n /\ n - (i + 1) # n /\ (n - (i + 1)) + 1 = n - i
    OBVIOUS
  <2>2. f[n - i] >= b + (n - i) /\ f[n - i] <= f[n - (i + 1)] + 1
    BY <1>2, <2>1
  <2>3. f[n - i] \in Nat /\ f[n - (i + 1)] \in Nat
    BY <2>1
  <2> QED
    BY <2>2, <2>3
<1> HIDE DEF Low, High
<1>7. Nat \subseteq Low
  BY <1>3, <1>4, AllNumbers
<1>8. Nat \subseteq High
  BY <1>5, <1>6, AllNumbers
<1> QED
  <2> SUFFICES ASSUME NEW i \in 1..n PROVE f[i] = b + i
    OBVIOUS
  <2>1. i - 1 \in Nat /\ (i - 1) + 1 = i /\ n - i \in Nat /\ n - (n - i) = i
    OBVIOUS
  <2>2. f[i] <= b + i
    <3>1. i - 1 \in Low
      BY <1>7, <2>1
    <3> QED
      BY <2>1, <3>1 DEF Low
  <2>3. f[i] >= b + i
    <3>1. n - i \in High
      BY <1>8, <2>1
    <3> QED
      BY <2>1, <3>1 DEF High
  <2> QED
    BY <2>2, <2>3

ReplayStart(log) == [eventSeq |-> log.at, inOrder |-> TRUE]
ReplayStep(x, e) == [eventSeq |-> e.seq, inOrder |-> x.inOrder /\ e.seq = x.eventSeq + 1]
ReplayTable(h, log, s, n) ==
  h = [t \in SUBSET (1..n) |-> IF t = {} THEN ReplayStart(log)
                               ELSE ReplayStep(h[t \ {Max(t)}], s[Max(t)])]

LEMMA ReplayedIs ==
  ASSUME NEW log, NEW n, DOMAIN Ordered(log) = 1..n
  PROVE  Replayed(log) = (CHOOSE h : ReplayTable(h, log, Ordered(log), n))[1..n]
BY DEF Replayed, FoldLeft, MapThenFoldSet, ReplayTable, ReplayStart, ReplayStep

LEMMA LogsAreReplayed ==
  ASSUME NEW log \in Logs, NEW n \in Nat, Ordered(log) \in [1..n -> LogEvents]
  PROVE  \E state : /\ state[0] = ReplayStart(log)
                    /\ \A k \in 0..n : k # n => state[k + 1] = ReplayStep(state[k], Ordered(log)[k + 1])
                    /\ Replayed(log) = state[n]
<1> DEFINE s == Ordered(log)
           States == [eventSeq : Nat, inOrder : BOOLEAN]
           op == [x \in States \X (1..n) |-> ReplayStep(x[1], s[x[2]])]
<1>1. ReplayStart(log) \in States
  BY DEF ReplayStart, Logs
<1>2. \A x \in States, i \in 1..n : ReplayStep(x, s[i]) \in States
  <2> SUFFICES ASSUME NEW x \in States, NEW i \in 1..n PROVE ReplayStep(x, s[i]) \in States
    OBVIOUS
  <2>1. s[i] \in LogEvents
    OBVIOUS
  <2>2. s[i].seq \in Nat /\ (x.inOrder /\ s[i].seq = x.eventSeq + 1) \in BOOLEAN
    BY <2>1, LogBounds DEF LogEvents
  <2> HIDE DEF s
  <2> QED
    BY <2>2 DEF ReplayStep
<1>3. op \in [States \X (1..n) -> States]
  <2> HIDE DEF s, States
  <2> QED
    BY <1>2
<1>4. PICK g \in [SUBSET (1..n) -> States] : FoldTable(g, op, ReplayStart(log), n)
  <2> HIDE DEF op, States
  <2> QED
    BY <1>1, <1>3, FoldTableExists
<1>5. \A t \in SUBSET (1..n) : t # {} =>
        op[<<g[t \ {Max(t)}], Max(t)>>] = ReplayStep(g[t \ {Max(t)}], s[Max(t)])
  <2> SUFFICES ASSUME NEW t \in SUBSET (1..n), t # {}
               PROVE  op[<<g[t \ {Max(t)}], Max(t)>>] = ReplayStep(g[t \ {Max(t)}], s[Max(t)])
    OBVIOUS
  <2>1. Max(t) \in 1..n
    BY Greatest
  <2>2. t \ {Max(t)} \in SUBSET (1..n)
    OBVIOUS
  <2> HIDE DEF States
  <2>3. <<g[t \ {Max(t)}], Max(t)>> \in States \X (1..n)
    BY <2>1, <2>2
  <2> HIDE DEF s
  <2> QED
    BY <2>1, <2>2, <2>3
<1>6. ReplayTable(g, log, s, n)
  <2> HIDE DEF States
  <2>1. g = [t \in SUBSET (1..n) |-> IF t = {} THEN ReplayStart(log) ELSE op[<<g[t \ {Max(t)}], Max(t)>>]]
    BY <1>4 DEF FoldTable
  <2>2. \A t \in SUBSET (1..n) : g[t] = IF t = {} THEN ReplayStart(log)
                                        ELSE ReplayStep(g[t \ {Max(t)}], s[Max(t)])
    <3> HIDE DEF op, s
    <3> QED
      BY <1>5, <2>1
  <2>3. g = [t \in SUBSET (1..n) |-> g[t]]
    OBVIOUS
  <2> HIDE DEF s
  <2> QED
    BY <2>2, <2>3 DEF ReplayTable
<1> DEFINE h == CHOOSE h : ReplayTable(h, log, s, n)
           state == [k \in 0..n |-> h[1..k]]
<1>7. ReplayTable(h, log, s, n)
  BY <1>6
<1>8. Replayed(log) = h[1..n]
  BY ReplayedIs
<1> HIDE DEF h, s
<1>9. state[0] = ReplayStart(log)
  BY <1>7, Beginnings DEF ReplayTable
<1>10. \A k \in 0..n : k # n => state[k + 1] = ReplayStep(state[k], s[k + 1])
  <2> SUFFICES ASSUME NEW k \in 0..n, k # n PROVE state[k + 1] = ReplayStep(state[k], s[k + 1])
    OBVIOUS
  <2>1. /\ k + 1 \in 0..n /\ 1..(k + 1) \in SUBSET (1..n) /\ 1..(k + 1) # {}
        /\ Max(1..(k + 1)) = k + 1 /\ (1..(k + 1)) \ {k + 1} = 1..k
    BY Beginnings
  <2>2. h[1..(k + 1)] = ReplayStep(h[(1..(k + 1)) \ {Max(1..(k + 1))}], s[Max(1..(k + 1))])
    BY <1>7, <2>1 DEF ReplayTable
  <2> QED
    BY <2>1, <2>2
<1>11. state[n] = h[1..n]
  OBVIOUS
<1> HIDE DEF state
<1> QED
  BY <1>8, <1>9, <1>10, <1>11 DEF s

\* A log whose numbers follow its snapshot is replayed in order.
LEMMA FaultlessInOrder ==
  ASSUME NEW log \in Logs, NEW n \in Nat, Ordered(log) \in [1..n -> LogEvents],
         Faultless(log, Ordered(log), n)
  PROVE  Replayed(log).inOrder
<1>1. PICK state : /\ state[0] = ReplayStart(log)
                   /\ \A k \in 0..n : k # n => state[k + 1] = ReplayStep(state[k], Ordered(log)[k + 1])
                   /\ Replayed(log) = state[n]
  BY LogsAreReplayed
<1> DEFINE So(k) == state[k].eventSeq = log.snapshot + k /\ state[k].inOrder = TRUE
           S == {k \in Nat : k \in 0..n => So(k)}
<1>2. log.snapshot \in Nat
  BY DEF Logs
<1>3. 0 \in S
  <2>1. state[0].eventSeq = log.at /\ state[0].inOrder = TRUE
    BY <1>1 DEF ReplayStart
  <2> QED
    BY <1>2, <2>1 DEF Faultless
<1>4. \A k \in Nat : k \in S => k + 1 \in S
  <2> SUFFICES ASSUME NEW k \in Nat, k \in S, k + 1 \in 0..n PROVE So(k + 1)
    <3> HIDE DEF So
    <3> QED
      OBVIOUS
  <2>1. k \in 0..n /\ k # n /\ k + 1 \in 1..n
    OBVIOUS
  <2>2. (state[k].eventSeq = log.snapshot + k) /\ (state[k].inOrder = TRUE)
    BY <2>1
  <2>3. Ordered(log)[k + 1].seq = log.snapshot + (k + 1)
    BY <2>1 DEF Faultless
  <2>4. state[k + 1] = ReplayStep(state[k], Ordered(log)[k + 1])
    BY <1>1, <2>1
  <2>5. log.snapshot + (k + 1) = (log.snapshot + k) + 1
    BY <1>2
  <2>6. state[k + 1].eventSeq = Ordered(log)[k + 1].seq
    BY <2>4 DEF ReplayStep
  <2>7. state[k + 1].inOrder = (state[k].inOrder /\ (Ordered(log)[k + 1].seq = state[k].eventSeq + 1))
    BY <2>4 DEF ReplayStep
  <2>8. Ordered(log)[k + 1].seq = state[k].eventSeq + 1
    BY <2>2, <2>3, <2>5
  <2>9. state[k + 1].inOrder = TRUE
    BY <2>2, <2>7, <2>8
  <2> QED
    BY <2>3, <2>6, <2>9
<1>5. Nat \subseteq S
  <2> HIDE DEF S
  <2> QED
    BY <1>3, <1>4, AllNumbers
<1>6. n \in S /\ n \in 0..n
  BY <1>5
<1> QED
  BY <1>1, <1>6

\* What ReplaysAreWhole says of a log.
LEMMA LogIsWhole ==
  ASSUME NEW log \in Logs
  PROVE  /\ AcceptedExactly(log, ValidateReplayLog(log)) /\ GapsTold(log, ValidateReplayLog(log))
         /\ ValidateReplayLog(log) = {} => Replayed(log).inOrder
<1> DEFINE n == Len(log.events)
           e == log.events
           s == Ordered(log)
<1>1. /\ n \in Nat /\ e \in [1..n -> LogEvents] /\ s \in [1..n -> LogEvents]
      /\ \A i, j \in 1..n : i < j => s[i].seq <= s[j].seq
      /\ \A i \in 1..n : \E j \in 1..n : s[i] = e[j]
      /\ \A j \in 1..n : \E i \in 1..n : s[i] = e[j]
  BY InOrder
<1> HIDE DEF n, s
<1>2. PICK seen : Checks(seen, log, s, n) /\ ValidateReplayLog(log) = seen[n].issues
  BY <1>1, LogsAreChecked DEF s
<1>3. Passing(seen, log, s, n)
  BY <1>1, <1>2 DEF Passing
<1>4. /\ SeenSoFar(seen, log, s, n) /\ ToldSoFar(seen, log, s, n)
      /\ (\A i \in 1..n : s[i].seq >= log.snapshot + 1) => GapsSoFar(seen, log, n)
  BY <1>3, SeenFromTheStart
<1>5. ValidateReplayLog(log) = {} <=> Faultless(log, s, n)
  BY <1>2, <1>4 DEF ToldSoFar
<1>6. log.snapshot \in Nat /\ DOMAIN e = 1..n /\ \A i \in 1..n : s[i].seq \in Nat /\ e[i].seq \in Nat
  <2>1. \A x \in LogEvents : x.seq \in Nat
    BY LogBounds DEF LogEvents
  <2>2. log.snapshot \in Nat
    BY DEF Logs
  <2> HIDE DEF e
  <2> QED
    BY <1>1, <2>1, <2>2
<1>7. Numbers(log) = {s[i].seq : i \in 1..n}
  <2>1. Numbers(log) = {e[i].seq : i \in 1..n}
    BY <1>6 DEF Numbers
  <2>2. /\ \A i \in 1..n : \E j \in 1..n : s[i].seq = e[j].seq
        /\ \A j \in 1..n : \E i \in 1..n : s[i].seq = e[j].seq
    <3> HIDE DEF e
    <3> QED
      BY <1>1
  <2>3. \A m : m \in Numbers(log) <=> \E j \in 1..n : m = e[j].seq
    BY <2>1
  <2> HIDE DEF e
  <2>4. \A m : m \in {s[i].seq : i \in 1..n} <=> \E i \in 1..n : m = s[i].seq
    OBVIOUS
  <2>5. ASSUME NEW m \in Numbers(log) PROVE m \in {s[i].seq : i \in 1..n}
    <3>1. PICK j \in 1..n : m = e[j].seq
      BY <2>3
    <3>2. PICK i \in 1..n : s[i].seq = e[j].seq
      BY <2>2
    <3> QED
      BY <3>1, <3>2
  <2>6. ASSUME NEW m \in {s[i].seq : i \in 1..n} PROVE m \in Numbers(log)
    <3>1. PICK i \in 1..n : m = s[i].seq
      OBVIOUS
    <3>2. PICK j \in 1..n : s[i].seq = e[j].seq
      BY <2>2
    <3> QED
      BY <2>3, <3>1, <3>2
  <2> QED
    BY <2>5, <2>6
<1>8. (\A i \in DOMAIN log.events : log.events[i].valid) <=> \A i \in 1..n : s[i].valid
  BY <1>1, <1>6
<1>9. AcceptedExactly(log, ValidateReplayLog(log))
  <2>1. ASSUME \A i \in 1..n : s[i].seq = log.snapshot + i
        PROVE  Numbers(log) = (log.snapshot + 1) .. (log.snapshot + n)
    <3> DEFINE b == log.snapshot
    <3>4. b \in Nat /\ n \in Nat
      BY <1>1, <1>6
    <3>5. /\ \A i \in 1..n : b + i \in (b + 1) .. (b + n)
          /\ \A x \in (b + 1) .. (b + n) : x - b \in 1..n /\ x = b + (x - b)
      <4> HIDE DEF b
      <4> QED
        BY <3>4
    <3>1. \A i \in 1..n : log.snapshot + i \in (log.snapshot + 1) .. (log.snapshot + n)
      BY <3>5
    <3>2. \A x \in (log.snapshot + 1) .. (log.snapshot + n) :
            x - log.snapshot \in 1..n /\ x = log.snapshot + (x - log.snapshot)
      BY <3>5
    <3>3. \A x \in (log.snapshot + 1) .. (log.snapshot + n) : \E i \in 1..n : x = s[i].seq
      BY <2>1, <3>2
    <3> QED
      BY <1>7, <2>1, <3>1, <3>3
  <2>2. ASSUME Numbers(log) = (log.snapshot + 1) .. (log.snapshot + n)
        PROVE  \A i \in 1..n : s[i].seq = log.snapshot + i
    <3> DEFINE f == [i \in 1..n |-> s[i].seq]
    <3>1. f \in [1..n -> Nat]
      BY <1>6
    <3>2. \A x \in (log.snapshot + 1) .. (log.snapshot + n) : \E i \in 1..n : f[i] = x
      BY <1>7, <2>2
    <3>3. \A i \in 1..n : f[i] \in (log.snapshot + 1) .. (log.snapshot + n)
      BY <1>7, <2>2
    <3>4. \A i, j \in 1..n : i < j => f[i] <= f[j]
      BY <1>1
    <3>5. \A i \in 1..n : f[i] = log.snapshot + i
      <4> HIDE DEF f
      <4> QED
        BY <1>1, <1>6, <3>1, <3>2, <3>3, <3>4, ClimbsByOne
    <3> QED
      BY <3>5
  <2>3. Faultless(log, s, n) <=>
          /\ log.at = log.snapshot
          /\ Numbers(log) = (log.snapshot + 1) .. (log.snapshot + n)
          /\ \A i \in DOMAIN log.events : log.events[i].valid
    <3> HIDE DEF e
    <3> QED
      BY <1>8, <2>1, <2>2 DEF Faultless
  <2> HIDE DEF e
  <2> QED
    BY <1>5, <2>3 DEF AcceptedExactly, n
<1>10. GapsTold(log, ValidateReplayLog(log))
  <2> DEFINE from == log.snapshot + 1
             till == CHOOSE m \in Numbers(log) : \A k \in Numbers(log) : k <= m
  <2> SUFFICES ASSUME Numbers(log) # {}, \A m \in Numbers(log) : m >= from
               PROVE  Cover(ValidateReplayLog(log)) = (from .. till) \ Numbers(log)
    BY DEF GapsTold, Cover
  <2>1. n # 0 /\ n \in 1..n
    <3>1. PICK i \in 1..n : TRUE
      BY <1>7
    <3> QED
      BY <1>1
  <2>2. \A i \in 1..n : s[i].seq >= log.snapshot + 1 /\ s[i].seq # 0
    <3>1. \A i \in 1..n : s[i].seq >= log.snapshot + 1
      BY <1>7
    <3> QED
      BY <1>6, <3>1
  <2>3. \A i \in 1..n : s[i].seq <= s[n].seq
    <3> SUFFICES ASSUME NEW i \in 1..n PROVE s[i].seq <= s[n].seq
      OBVIOUS
    <3>1. i = n \/ i < n
      BY <1>1
    <3>2. i < n => s[i].seq <= s[n].seq
      BY <1>1, <2>1
    <3>3. s[i].seq \in Nat
      BY <1>6
    <3> QED
      BY <3>1, <3>2, <3>3
  <2>4. s[n].seq \in Numbers(log) /\ \A k \in Numbers(log) : k <= s[n].seq /\ k \in Nat
    BY <1>6, <1>7, <2>1, <2>3
  <2>5. till \in Numbers(log) /\ \A k \in Numbers(log) : k <= till
    BY <2>4
  <2>6. till = s[n].seq
    <3> HIDE DEF till
    <3> QED
      BY <2>4, <2>5
  <2>7. seen[n].expected - 1 = till
    <3>1. seen[n].expected = s[n].seq + 1
      BY <1>4, <2>1, <2>2 DEF SeenSoFar
    <3> HIDE DEF till
    <3> QED
      BY <2>4, <2>6, <3>1
  <2>8. seen[n].numbers = Numbers(log)
    <3>1. 0 \notin Numbers(log)
      BY <1>7, <2>2
    <3> QED
      BY <1>4, <1>7, <3>1 DEF SeenSoFar
  <2>9. GapsSoFar(seen, log, n)
    BY <1>4, <2>2
  <2> HIDE DEF till
  <2> QED
    BY <1>2, <2>7, <2>8, <2>9 DEF GapsSoFar
<1>11. ValidateReplayLog(log) = {} => Replayed(log).inOrder
  BY <1>1, <1>5, FaultlessInOrder DEF s
<1> QED
  BY <1>9, <1>10, <1>11

\* For a log of any length, in any order, with any numbers missing, repeated or
\* malformed: replay.ts accepts it exactly when it is whole, names what is
\* missing, and replays what it accepts one event after the other.
THEOREM ReplaysAlwaysWhole == ReplaySpec => []ReplaysAreWhole
<1> DEFINE ALog == logged \in Logs
<1>1. ReplayInit => ALog
  BY DEF ReplayInit
<1>2. ALog /\ [FALSE]_logged => ALog'
  BY DEF Logs
<1>3. ALog => ReplaysAreWhole
  BY LogIsWhole DEF ReplaysAreWhole
<1> QED
  BY <1>1, <1>2, <1>3, PTL DEF ReplaySpec
=============================================================================
