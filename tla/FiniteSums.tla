----------------------------- MODULE FiniteSums ------------------------------
(***************************************************************************)
(* Facts about sums over finite sets, for the proofs of properties that    *)
(* add up a column of the ledger (MapThenSumSet of the community modules). *)
(*                                                                         *)
(* The induction theorems of the library take the induction hypothesis as  *)
(* an operator, and no prover here can instantiate one.  The proofs below  *)
(* argue by a least counterexample instead: among the finite sets of which *)
(* a fact fails there would be one with no smaller one inside it.  The     *)
(* summand is a function, for the same reason.                             *)
(***************************************************************************)
EXTENDS Integers, FiniteSetsExt, FiniteSetTheorems, TLAPS

SumOver(f, S) == MapThenSumSet(LAMBDA x : f[x], S)

(* The recursion of MapThenFoldSet: which element it takes first, and the  *)
(* equation the function it chooses has to satisfy.                        *)
Pick(S) == CHOOSE x \in S : TRUE

IsSum(g, f, S) ==
  g = [s \in SUBSET S |-> IF s = {} THEN 0 ELSE f[Pick(s)] + g[s \ {Pick(s)}]]

LEMMA SumIsChosen ==
  ASSUME NEW f, NEW S
  PROVE  SumOver(f, S) = (CHOOSE g : IsSum(g, f, S))[S]
  BY DEF SumOver, MapThenSumSet, MapThenFoldSet, IsSum, Pick

(* A set of subsets of a finite set has a member with no other inside it.  *)
LEMMA LeastSubset ==
  ASSUME NEW S, IsFiniteSet(S), NEW Bad \in SUBSET SUBSET S, Bad # {}
  PROVE  \E s \in Bad : \A u \in Bad : ~(u \subseteq s /\ u # s)
  <1>1. IsWellFoundedOn(StrictSubsetOrdering(S), FiniteSubsetsOf(S))
    BY FS_StrictSubsetOrderingWellFounded
  <1>2. \A s \in SUBSET S : s \in FiniteSubsetsOf(S)
    BY FS_Subset DEF FiniteSubsetsOf
  <1>3. PICK s \in Bad : \A u \in Bad : ~(<<u, s>> \in StrictSubsetOrdering(S))
    BY <1>1, <1>2, WFMin
  <1>. QED  BY <1>3 DEF StrictSubsetOrdering

(* What satisfies the equation on a set agrees with what satisfies it on a *)
(* larger one.                                                             *)
LEMMA SumsAgree ==
  ASSUME NEW f, NEW A, NEW B, IsFiniteSet(A), A \subseteq B,
         NEW g, IsSum(g, f, A), NEW h, IsSum(h, f, B),
         NEW s \in SUBSET A
  PROVE  g[s] = h[s]
  <1> DEFINE Bad == {t \in SUBSET A : g[t] # h[t]}
  <1> SUFFICES ASSUME Bad # {} PROVE FALSE
    OBVIOUS
  <1>1. PICK t \in Bad : \A u \in Bad : ~(u \subseteq t /\ u # t)
    <2>1. Bad \in SUBSET SUBSET A
      OBVIOUS
    <2> HIDE DEF Bad
    <2>. QED  BY <2>1, LeastSubset
  <1>2. t # {} => Pick(t) \in t
    BY DEF Pick
  <1>3. t # {} => t \ {Pick(t)} \notin Bad
    BY <1>1, <1>2
  <1>4. /\ g[t] = IF t = {} THEN 0 ELSE f[Pick(t)] + g[t \ {Pick(t)}]
        /\ h[t] = IF t = {} THEN 0 ELSE f[Pick(t)] + h[t \ {Pick(t)}]
    BY DEF IsSum
  <1>. QED  BY <1>1, <1>2, <1>3, <1>4

(* The equation has a solution: put together, one level up, of solutions   *)
(* on the smaller sets.                                                    *)
LEMMA SumIsDefined ==
  ASSUME NEW f, NEW S, IsFiniteSet(S)
  PROVE  \E g : IsSum(g, f, S)
  <1> DEFINE Bad == {t \in SUBSET S : ~\E g : IsSum(g, f, t)}
  <1> SUFFICES ASSUME Bad # {} PROVE FALSE
    OBVIOUS
  <1>1. PICK t \in Bad : \A u \in Bad : ~(u \subseteq t /\ u # t)
    <2>1. Bad \in SUBSET SUBSET S
      OBVIOUS
    <2> HIDE DEF Bad
    <2>. QED  BY <2>1, LeastSubset
  <1> DEFINE part(u) == CHOOSE g : IsSum(g, f, u)
             whole == [u \in SUBSET t |->
                         IF u = {} THEN 0
                         ELSE f[Pick(u)] + part(u \ {Pick(u)})[u \ {Pick(u)}]]
  <1>2. \A u \in SUBSET t : u # t => IsSum(part(u), f, u)
    BY <1>1
  <1>3. \A u \in SUBSET t : u # {} => Pick(u) \in u
    BY DEF Pick
  <1>4. ASSUME NEW u \in SUBSET t, u # t
        PROVE  whole[u] = part(u)[u]
    <2>1. part(u)[u] = IF u = {} THEN 0 ELSE f[Pick(u)] + part(u)[u \ {Pick(u)}]
      <3>1. IsSum(part(u), f, u)
        BY <1>2, <1>4
      <3> HIDE DEF part
      <3>. QED  BY <3>1 DEF IsSum
    <2> DEFINE v == u \ {Pick(u)}
    <2>2. CASE u = {}
      BY <2>1, <2>2
    <2>3. CASE u # {}
      <3>1. v \subseteq u /\ v # t /\ v \in SUBSET t /\ IsFiniteSet(v)
        BY <1>3, <2>3, FS_Subset
      <3>2. IsSum(part(v), f, v) /\ IsSum(part(u), f, u)
        BY <3>1, <1>2, <1>4
      <3> HIDE DEF part, v
      <3>3. part(v)[v] = part(u)[v]
        BY <3>1, <3>2, SumsAgree
      <3>. QED  BY <3>3, <2>1, <2>3 DEF v
    <2>. QED  BY <2>2, <2>3
  <1>5. ASSUME NEW u \in SUBSET t, u # {}
        PROVE  whole[u \ {Pick(u)}] = part(u \ {Pick(u)})[u \ {Pick(u)}]
    BY <1>3, <1>4, <1>5
  <1>6. whole = [u \in SUBSET t |-> IF u = {} THEN 0 ELSE f[Pick(u)] + whole[u \ {Pick(u)}]]
    <2> HIDE DEF part
    <2>. QED BY <1>5
  <1>7. IsSum(whole, f, t)
    <2> HIDE DEF whole
    <2>. QED BY <1>6 DEF IsSum
  <1>. QED  BY <1>7

(* So the fold really is the recursion it is written as.                   *)
LEMMA SumUnfold ==
  ASSUME NEW f, NEW S, IsFiniteSet(S)
  PROVE  SumOver(f, S) = IF S = {} THEN 0
                         ELSE f[Pick(S)] + SumOver(f, S \ {Pick(S)})
  <1> DEFINE chosen(u) == CHOOSE g : IsSum(g, f, u)
             rest == S \ {Pick(S)}
  <1>1. IsSum(chosen(S), f, S)
    BY SumIsDefined
  <1>2. IsFiniteSet(rest) /\ rest \in SUBSET S
    BY FS_Subset
  <1>3. IsSum(chosen(rest), f, rest)
    BY <1>2, SumIsDefined
  <1>4. SumOver(f, S) = chosen(S)[S] /\ SumOver(f, rest) = chosen(rest)[rest]
    BY SumIsChosen
  <1> HIDE DEF chosen
  <1>5. chosen(rest)[rest] = chosen(S)[rest]
    BY <1>1, <1>2, <1>3, SumsAgree
  <1>. QED  BY <1>1, <1>4, <1>5 DEF IsSum

-----------------------------------------------------------------------------
LEMMA SumIsInt ==
  ASSUME NEW S, IsFiniteSet(S), NEW f, \A x \in S : f[x] \in Int
  PROVE  SumOver(f, S) \in Int
  <1> DEFINE Bad == {t \in SUBSET S : SumOver(f, t) \notin Int}
  <1> SUFFICES ASSUME Bad # {} PROVE FALSE
    OBVIOUS
  <1>1. PICK t \in Bad : \A u \in Bad : ~(u \subseteq t /\ u # t)
    <2>1. Bad \in SUBSET SUBSET S
      OBVIOUS
    <2> HIDE DEF Bad
    <2>. QED  BY <2>1, LeastSubset
  <1>2. SumOver(f, t) = IF t = {} THEN 0
                        ELSE f[Pick(t)] + SumOver(f, t \ {Pick(t)})
    BY FS_Subset, SumUnfold
  <1>3. t # {} => Pick(t) \in t
    BY DEF Pick
  <1>4. t # {} => t \ {Pick(t)} \notin Bad
    BY <1>1, <1>3
  <1>. QED  BY <1>2, <1>3, <1>4

(* Any element may be taken first.                                         *)
LEMMA SumRemove ==
  ASSUME NEW S, IsFiniteSet(S), NEW f, \A x \in S : f[x] \in Int, NEW x \in S
  PROVE  SumOver(f, S) = f[x] + SumOver(f, S \ {x})
  <1> DEFINE Bad == {t \in SUBSET S :
                \E y \in t : SumOver(f, t) # f[y] + SumOver(f, t \ {y})}
  <1> SUFFICES ASSUME Bad # {} PROVE FALSE
    OBVIOUS
  <1>1. PICK t \in Bad : \A u \in Bad : ~(u \subseteq t /\ u # t)
    <2>1. Bad \in SUBSET SUBSET S
      OBVIOUS
    <2> HIDE DEF Bad
    <2>. QED  BY <2>1, LeastSubset
  <1>2. PICK y \in t : SumOver(f, t) # f[y] + SumOver(f, t \ {y})
    OBVIOUS
  <1> DEFINE p == Pick(t)
  <1>3. p \in t
    BY <1>2 DEF Pick
  <1>4. SumOver(f, t) = f[p] + SumOver(f, t \ {p})
    BY <1>2, FS_Subset, SumUnfold
  <1>5. p # y
    BY <1>2, <1>4
  <1>6. t \ {p} \notin Bad /\ t \ {y} \notin Bad
    BY <1>1, <1>2, <1>3
  <1>7. /\ SumOver(f, t \ {p}) = f[y] + SumOver(f, (t \ {p}) \ {y})
        /\ SumOver(f, t \ {y}) = f[p] + SumOver(f, (t \ {y}) \ {p})
    BY <1>2, <1>3, <1>5, <1>6
  <1>8. (t \ {p}) \ {y} = (t \ {y}) \ {p}
    OBVIOUS
  <1>9. SumOver(f, (t \ {y}) \ {p}) \in Int
    <2>1. IsFiniteSet((t \ {y}) \ {p})
      BY FS_Subset
    <2>. QED  BY <2>1, SumIsInt
  <1>10. f[p] \in Int /\ f[y] \in Int
    BY <1>2, <1>3
  <1> DEFINE c == SumOver(f, (t \ {y}) \ {p})
             all == SumOver(f, t)
             less == SumOver(f, t \ {y})
  <1>11. c \in Int /\ all = f[p] + (f[y] + c) /\ less = f[p] + c
    BY <1>4, <1>7, <1>8, <1>9
  <1>12. all # f[y] + less
    BY <1>2
  <1> HIDE DEF p, c, all, less
  <1>. QED  BY <1>10, <1>11, <1>12

LEMMA SumAdd ==
  ASSUME NEW S, IsFiniteSet(S), NEW f, NEW x, x \notin S,
         \A y \in S \cup {x} : f[y] \in Int
  PROVE  SumOver(f, S \cup {x}) = f[x] + SumOver(f, S)
  <1>1. IsFiniteSet(S \cup {x}) /\ (S \cup {x}) \ {x} = S
    BY FS_AddElement
  <1>. QED  BY <1>1, SumRemove

LEMMA SumCongruence ==
  ASSUME NEW S, IsFiniteSet(S), NEW f, NEW g, \A x \in S : f[x] = g[x]
  PROVE  SumOver(f, S) = SumOver(g, S)
  <1> DEFINE Bad == {t \in SUBSET S : SumOver(f, t) # SumOver(g, t)}
  <1> SUFFICES ASSUME Bad # {} PROVE FALSE
    OBVIOUS
  <1>1. PICK t \in Bad : \A u \in Bad : ~(u \subseteq t /\ u # t)
    <2>1. Bad \in SUBSET SUBSET S
      OBVIOUS
    <2> HIDE DEF Bad
    <2>. QED  BY <2>1, LeastSubset
  <1>2. /\ SumOver(f, t) = IF t = {} THEN 0 ELSE f[Pick(t)] + SumOver(f, t \ {Pick(t)})
        /\ SumOver(g, t) = IF t = {} THEN 0 ELSE g[Pick(t)] + SumOver(g, t \ {Pick(t)})
    BY FS_Subset, SumUnfold
  <1>3. t # {} => Pick(t) \in t
    BY DEF Pick
  <1>4. t # {} => t \ {Pick(t)} \notin Bad
    BY <1>1, <1>3
  <1>. QED  BY <1>2, <1>3, <1>4

(* What a single element sums to.                                          *)
LEMMA SumOfOne ==
  ASSUME NEW f, NEW x, f[x] \in Int
  PROVE  SumOver(f, {x}) = f[x] /\ SumOver(f, {}) = 0
  <1>1. SumOver(f, {}) = 0
    BY FS_EmptySet, SumUnfold
  <1>2. SumOver(f, {} \cup {x}) = f[x] + SumOver(f, {})
    BY FS_EmptySet, SumAdd
  <1>. QED  BY <1>1, <1>2

(* Some element of a finite set has the least value.                       *)
LEMMA LeastElement ==
  ASSUME NEW S, IsFiniteSet(S), S # {}, NEW f, \A x \in S : f[x] \in Int
  PROVE  \E x \in S : \A y \in S : f[x] <= f[y]
  <1> DEFINE Bad == {t \in SUBSET S : t # {} /\ ~\E x \in t : \A y \in t : f[x] <= f[y]}
  <1> SUFFICES ASSUME Bad # {} PROVE FALSE
    OBVIOUS
  <1>1. PICK t \in Bad : \A u \in Bad : ~(u \subseteq t /\ u # t)
    <2>1. Bad \in SUBSET SUBSET S
      OBVIOUS
    <2> HIDE DEF Bad
    <2>. QED  BY <2>1, LeastSubset
  <1>2. PICK x \in t : TRUE
    OBVIOUS
  <1>3. t # {x}
    <2>1. x \in S /\ f[x] <= f[x]
      BY <1>2
    <2>. QED  BY <1>2, <2>1
  <1>4. t \ {x} \notin Bad /\ t \ {x} # {}
    BY <1>1, <1>2, <1>3
  <1>5. PICK y \in t \ {x} : \A z \in t \ {x} : f[y] <= f[z]
    BY <1>4
  <1>. QED  BY <1>2, <1>5
==============================================================================
