----------------------------- MODULE FiniteSums ------------------------------
(***************************************************************************)
(* Sums of integers over finite sets, as the fold SumFunctionOnSet computes  *)
(* them: what the proofs about pools, payouts, refunds and credits rest on.  *)
(* An induction over a finite set is told by a smallest set for which the    *)
(* claim fails, which needs no predicate as a parameter.                     *)
(***************************************************************************)
EXTENDS Integers, FiniteSetsExt, FiniteSetTheorems, TLAPS

-----------------------------------------------------------------------------
(* Induction over finite sets *)

\* Among finite sets there is one that contains none of the others.
LEMMA SmallestSet ==
  ASSUME NEW S, NEW Bad, Bad \subseteq FiniteSubsetsOf(S), Bad # {}
  PROVE  \E B \in Bad : \A C \in Bad : C \subseteq B => C = B
<1>1. \E B \in Bad : \A C \in Bad : <<C, B>> \notin StrictSubsetOrdering(S)
  BY FS_StrictSubsetOrderingWellFounded, WFMin, Zenon
<1>2. \A B, C \in Bad : C \subseteq B /\ C # B => <<C, B>> \in StrictSubsetOrdering(S)
  BY DEF StrictSubsetOrdering, FiniteSubsetsOf
<1> QED BY <1>1, <1>2

\* What is good of a set as soon as it is of all its parts is good of all subsets of S.
LEMMA SubsetInduction ==
  ASSUME NEW S, IsFiniteSet(S), NEW Good,
         \A B \in SUBSET S : (\A C \in SUBSET B : C # B => C \in Good) => B \in Good
  PROVE  \A B \in SUBSET S : B \in Good
<1> DEFINE Bad == {B \in SUBSET S : B \notin Good}
<1>1. SUFFICES ASSUME Bad # {}
               PROVE  FALSE
  OBVIOUS
<1>2. Bad \subseteq FiniteSubsetsOf(S)
  BY FS_FiniteSubsetsOfFinite
<1> HIDE DEF Bad
<1>3. PICK B \in Bad : \A C \in Bad : C \subseteq B => C = B
  BY <1>1, <1>2, SmallestSet
<1>4. B \in SUBSET S /\ B \notin Good
  BY DEF Bad
<1>5. \A C \in SUBSET B : C # B => C \in Good
  BY <1>3, <1>4 DEF Bad
<1> QED BY <1>4, <1>5

-----------------------------------------------------------------------------
(* The fold is well defined *)

Chosen(S) == CHOOSE x \in S : TRUE

\* g adds up f over every subset of S.
Adds(f, S, g) ==
  g = [T \in SUBSET S |-> IF T = {} THEN 0 ELSE f[Chosen(T)] + g[T \ {Chosen(T)}]]

Adding(f, S) == CHOOSE g : Adds(f, S, g)

LEMMA SumUnfolds ==
  ASSUME NEW f, NEW S
  PROVE  SumFunctionOnSet(f, S) = Adding(f, S)[S]
BY DEF SumFunctionOnSet, FoldFunctionOnSet, MapThenFoldSet, Adding, Adds, Chosen

LEMMA ChosenIn ==
  ASSUME NEW S, S # {}
  PROVE  Chosen(S) \in S
BY DEF Chosen

\* On a subset that two sums have in common they agree.
LEMMA AddsUnique ==
  ASSUME NEW f, NEW S, NEW R, NEW g, NEW h, Adds(f, S, g), Adds(f, R, h),
         IsFiniteSet(S), R \subseteq S
  PROVE  \A T \in SUBSET R : g[T] = h[T]
<1> DEFINE Good == {T \in SUBSET R : g[T] = h[T]}
<1>1. IsFiniteSet(R)
  BY FS_Subset
<1>2. ASSUME NEW T \in SUBSET R, \A U \in SUBSET T : U # T => U \in Good
      PROVE  T \in Good
  <2>1. CASE T = {}
    BY <2>1 DEF Adds
  <2>2. CASE T # {}
    <3>1. T \ {Chosen(T)} \in SUBSET T /\ T \ {Chosen(T)} # T
      BY <2>2, ChosenIn
    <3>2. g[T \ {Chosen(T)}] = h[T \ {Chosen(T)}]
      BY <1>2, <3>1
    <3> QED BY <2>2, <3>2 DEF Adds
  <2> QED BY <2>1, <2>2
<1> HIDE DEF Good
<1>3. \A T \in SUBSET R : T \in Good
  BY <1>1, <1>2, SubsetInduction
<1> QED BY <1>3 DEF Good

LEMMA AddsExists ==
  ASSUME NEW f, NEW S, IsFiniteSet(S)
  PROVE  Adds(f, S, Adding(f, S))
<1> DEFINE Good == {T \in SUBSET S : Adds(f, T, Adding(f, T))}
<1>1. ASSUME NEW T \in SUBSET S, \A U \in SUBSET T : U # T => U \in Good
      PROVE  T \in Good
  <2> DEFINE rest(U) == U \ {Chosen(U)}
             g == [U \in SUBSET T |->
                     IF U = {} THEN 0
                     ELSE f[Chosen(U)] + Adding(f, rest(U))[rest(U)]]
  <2>1. \A U \in SUBSET T : U # {} => rest(U) \in SUBSET T /\ rest(U) # T
                                     /\ rest(U) \in SUBSET U
    BY ChosenIn
  <2>2. \A U \in SUBSET T : U # T => Adds(f, U, Adding(f, U)) /\ IsFiniteSet(U)
    BY <1>1, FS_Subset
  <2>3. \A U \in SUBSET T : U # T => g[U] = Adding(f, U)[U]
    <3>1. TAKE U \in SUBSET T
    <3>2. SUFFICES ASSUME U # T, U # {}
                   PROVE  g[U] = Adding(f, U)[U]
      BY <2>2 DEF Adds
    <3>3. PICK V : V = rest(U)
      OBVIOUS
    <3>4. V \in SUBSET T /\ V # T /\ V \in SUBSET U
      BY <2>1, <3>2, <3>3
    <3>5. Adding(f, U)[V] = Adding(f, V)[V]
      BY <2>2, <3>2, <3>4, AddsUnique
    <3>6. Adding(f, U)[U] = f[Chosen(U)] + Adding(f, U)[V]
      BY <2>2, <3>2, <3>3 DEF Adds
    <3> QED BY <3>2, <3>3, <3>5, <3>6
  <2>4. Adds(f, T, g)
    BY <2>1, <2>3 DEF Adds
  <2> QED BY <2>4 DEF Adding
<1> HIDE DEF Good
<1>2. \A T \in SUBSET S : T \in Good
  BY <1>1, SubsetInduction
<1> QED BY <1>2 DEF Good

LEMMA SumEmpty ==
  ASSUME NEW f
  PROVE  SumFunctionOnSet(f, {}) = 0
<1>1. Adds(f, {}, Adding(f, {}))
  BY AddsExists, FS_EmptySet
<1>2. Adding(f, {})[{}] = 0
  BY <1>1 DEF Adds
<1> QED BY <1>2, SumUnfolds

\* One element after the other, as chosen.
LEMMA SumChosen ==
  ASSUME NEW f, NEW S, IsFiniteSet(S), S # {}
  PROVE  SumFunctionOnSet(f, S) =
           f[Chosen(S)] + SumFunctionOnSet(f, S \ {Chosen(S)})
<1>1. PICK R : R = S \ {Chosen(S)}
  OBVIOUS
<1>2. R \subseteq S /\ IsFiniteSet(R)
  BY <1>1, FS_Subset
<1>3. Adds(f, S, Adding(f, S)) /\ Adds(f, R, Adding(f, R))
  BY <1>2, AddsExists
<1>4. Adding(f, S)[R] = Adding(f, R)[R]
  BY <1>2, <1>3, AddsUnique
<1>5. Adding(f, S)[S] = f[Chosen(S)] + Adding(f, S)[R]
  BY <1>1, <1>3 DEF Adds
<1> QED BY <1>1, <1>4, <1>5, SumUnfolds

-----------------------------------------------------------------------------
(* Sums of integers *)

LEMMA SumInt ==
  ASSUME NEW f, NEW S, IsFiniteSet(S), \A x \in S : f[x] \in Int
  PROVE  SumFunctionOnSet(f, S) \in Int
<1> DEFINE Good == {T \in SUBSET S : SumFunctionOnSet(f, T) \in Int}
<1>1. ASSUME NEW T \in SUBSET S, \A U \in SUBSET T : U # T => U \in Good
      PROVE  T \in Good
  <2>1. CASE T = {}
    BY <2>1, SumEmpty
  <2>2. CASE T # {}
    <3>1. /\ SumFunctionOnSet(f, T) =
               f[Chosen(T)] + SumFunctionOnSet(f, T \ {Chosen(T)})
          /\ Chosen(T) \in T
      BY <2>2, SumChosen, ChosenIn, FS_Subset
    <3>2. T \ {Chosen(T)} \in Good
      BY <1>1, <3>1
    <3>3. f[Chosen(T)] \in Int
      BY <3>1
    <3> QED BY <3>1, <3>2, <3>3
  <2> QED BY <2>1, <2>2
<1> HIDE DEF Good
<1>2. \A T \in SUBSET S : T \in Good
  BY <1>1, SubsetInduction
<1> QED BY <1>2 DEF Good

\* The order of the elements makes no difference.
LEMMA SumRemove ==
  ASSUME NEW f, NEW S, IsFiniteSet(S), \A x \in S : f[x] \in Int, NEW x \in S
  PROVE  SumFunctionOnSet(f, S) = f[x] + SumFunctionOnSet(f, S \ {x})
<1> DEFINE Good == {T \in SUBSET S : \A y \in T :
                      SumFunctionOnSet(f, T) = f[y] + SumFunctionOnSet(f, T \ {y})}
<1>1. ASSUME NEW T \in SUBSET S, \A U \in SUBSET T : U # T => U \in Good
      PROVE  T \in Good
  <2>1. SUFFICES ASSUME NEW y \in T
                 PROVE  SumFunctionOnSet(f, T) = f[y] + SumFunctionOnSet(f, T \ {y})
    OBVIOUS
  <2>2. PICK c : c = Chosen(T)
    OBVIOUS
  <2>3. /\ c \in T /\ IsFiniteSet(T)
        /\ SumFunctionOnSet(f, T) = f[c] + SumFunctionOnSet(f, T \ {c})
    BY <2>1, <2>2, SumChosen, ChosenIn, FS_Subset
  <2>4. CASE y = c
    BY <2>3, <2>4
  <2>5. CASE y # c
    <3>1. PICK R : R = (T \ {c}) \ {y}
      OBVIOUS
    <3>2. SumFunctionOnSet(f, T \ {c}) = f[y] + SumFunctionOnSet(f, R)
      <4>1. T \ {c} \in Good /\ y \in T \ {c}
        BY <1>1, <2>3, <2>5
      <4> QED BY <3>1, <4>1
    <3>3. SumFunctionOnSet(f, T \ {y}) = f[c] + SumFunctionOnSet(f, R)
      <4>1. T \ {y} \in Good /\ c \in T \ {y} /\ R = (T \ {y}) \ {c}
        BY <1>1, <2>1, <2>3, <2>5, <3>1
      <4> QED BY <4>1
    <3>4. f[y] \in Int /\ f[c] \in Int
      BY <2>1, <2>3
    <3>5. SumFunctionOnSet(f, R) \in Int
      <4>1. IsFiniteSet(R) /\ \A z \in R : f[z] \in Int
        BY <2>3, <3>1, FS_Subset
      <4> QED BY <4>1, SumInt
    <3> QED BY <2>3, <3>2, <3>3, <3>4, <3>5
  <2> QED BY <2>4, <2>5
<1> HIDE DEF Good
<1>2. \A T \in SUBSET S : T \in Good
  BY <1>1, SubsetInduction
<1> QED BY <1>2 DEF Good

LEMMA SumAdd ==
  ASSUME NEW f, NEW S, IsFiniteSet(S), NEW x, x \notin S, f[x] \in Int,
         \A y \in S : f[y] \in Int
  PROVE  SumFunctionOnSet(f, S \cup {x}) = f[x] + SumFunctionOnSet(f, S)
<1>1. IsFiniteSet(S \cup {x}) /\ (S \cup {x}) \ {x} = S
  BY FS_AddElement
<1>2. \A y \in S \cup {x} : f[y] \in Int
  OBVIOUS
<1>3. SumFunctionOnSet(f, S \cup {x}) = f[x] + SumFunctionOnSet(f, (S \cup {x}) \ {x})
  BY <1>1, <1>2, SumRemove
<1> QED BY <1>1, <1>3

\* Two sums whose terms are each as large as the other's.
LEMMA SumMonotonic ==
  ASSUME NEW f, NEW g, NEW S, IsFiniteSet(S),
         \A x \in S : f[x] \in Int /\ g[x] \in Int /\ f[x] <= g[x]
  PROVE  SumFunctionOnSet(f, S) <= SumFunctionOnSet(g, S)
<1> DEFINE Good == {T \in SUBSET S : SumFunctionOnSet(f, T) <= SumFunctionOnSet(g, T)}
<1>1. ASSUME NEW T \in SUBSET S, \A U \in SUBSET T : U # T => U \in Good
      PROVE  T \in Good
  <2>1. CASE T = {}
    BY <2>1, SumEmpty
  <2>2. CASE T # {}
    <3>1. PICK c \in T : TRUE
      BY <2>2
    <3>2. PICK R : R = T \ {c}
      OBVIOUS
    <3>3. R \in Good /\ R \in SUBSET S /\ IsFiniteSet(R) /\ IsFiniteSet(T)
      BY <1>1, <3>1, <3>2, FS_Subset
    <3>4. /\ SumFunctionOnSet(f, T) = f[c] + SumFunctionOnSet(f, R)
          /\ SumFunctionOnSet(g, T) = g[c] + SumFunctionOnSet(g, R)
      BY <3>1, <3>2, <3>3, SumRemove
    <3>5. /\ SumFunctionOnSet(f, R) \in Int /\ SumFunctionOnSet(g, R) \in Int
          /\ f[c] \in Int /\ g[c] \in Int /\ f[c] <= g[c]
      BY <3>1, <3>3, SumInt
    <3> QED BY <3>3, <3>4, <3>5
  <2> QED BY <2>1, <2>2
<1> HIDE DEF Good
<1>2. \A T \in SUBSET S : T \in Good
  BY <1>1, SubsetInduction
<1> QED BY <1>2 DEF Good

LEMMA SumSame ==
  ASSUME NEW f, NEW g, NEW S, IsFiniteSet(S),
         \A x \in S : f[x] \in Int /\ g[x] = f[x]
  PROVE  SumFunctionOnSet(g, S) = SumFunctionOnSet(f, S)
<1>1. /\ SumFunctionOnSet(f, S) <= SumFunctionOnSet(g, S)
      /\ SumFunctionOnSet(g, S) <= SumFunctionOnSet(f, S)
  BY SumMonotonic
<1>2. SumFunctionOnSet(f, S) \in Int /\ SumFunctionOnSet(g, S) \in Int
  BY SumInt
<1> QED BY <1>1, <1>2

\* A common factor, and terms of two sums.
LEMMA SumLinear ==
  ASSUME NEW f, NEW g, NEW h, NEW k \in Int, NEW S, IsFiniteSet(S),
         \A x \in S : f[x] \in Int /\ g[x] \in Int /\ h[x] = k * f[x] + g[x]
  PROVE  SumFunctionOnSet(h, S) = k * SumFunctionOnSet(f, S) + SumFunctionOnSet(g, S)
<1> DEFINE Good == {T \in SUBSET S : SumFunctionOnSet(h, T) =
                      k * SumFunctionOnSet(f, T) + SumFunctionOnSet(g, T)}
<1>1. ASSUME NEW T \in SUBSET S, \A U \in SUBSET T : U # T => U \in Good
      PROVE  T \in Good
  <2>1. CASE T = {}
    BY <2>1, SumEmpty
  <2>2. CASE T # {}
    <3>1. PICK c \in T : TRUE
      BY <2>2
    <3>2. PICK R : R = T \ {c}
      OBVIOUS
    <3>3. R \in Good /\ R \in SUBSET S /\ IsFiniteSet(R) /\ IsFiniteSet(T)
      BY <1>1, <3>1, <3>2, FS_Subset
    <3>4. \A x \in S : h[x] \in Int
      OBVIOUS
    <3>5. /\ SumFunctionOnSet(f, T) = f[c] + SumFunctionOnSet(f, R)
          /\ SumFunctionOnSet(g, T) = g[c] + SumFunctionOnSet(g, R)
          /\ SumFunctionOnSet(h, T) = h[c] + SumFunctionOnSet(h, R)
      BY <3>1, <3>2, <3>3, <3>4, SumRemove
    <3>6. PICK F \in Int, G \in Int : F = SumFunctionOnSet(f, R) /\ G = SumFunctionOnSet(g, R)
      BY <3>3, SumInt
    <3>7. PICK a \in Int, b \in Int : a = f[c] /\ b = g[c] /\ h[c] = k * a + b
      BY <3>1
    <3>8. SumFunctionOnSet(h, T) = (k * a + b) + (k * F + G)
      BY <3>3, <3>5, <3>6, <3>7
    <3>9. (k * a + b) + (k * F + G) = k * (a + F) + (b + G)
      OBVIOUS
    <3> QED BY <3>5, <3>6, <3>7, <3>8, <3>9
  <2> QED BY <2>1, <2>2
<1> HIDE DEF Good
<1>2. \A T \in SUBSET S : T \in Good
  BY <1>1, SubsetInduction
<1> QED BY <1>2 DEF Good

LEMMA SumConstant ==
  ASSUME NEW f, NEW c \in Int, NEW S, IsFiniteSet(S), \A x \in S : f[x] = c
  PROVE  SumFunctionOnSet(f, S) = c * Cardinality(S)
<1> DEFINE Good == {T \in SUBSET S : SumFunctionOnSet(f, T) = c * Cardinality(T)}
<1>1. ASSUME NEW T \in SUBSET S, \A U \in SUBSET T : U # T => U \in Good
      PROVE  T \in Good
  <2>1. CASE T = {}
    BY <2>1, SumEmpty, FS_EmptySet
  <2>2. CASE T # {}
    <3>1. PICK x \in T : TRUE
      BY <2>2
    <3>2. PICK R : R = T \ {x}
      OBVIOUS
    <3>3. R \in Good /\ R \in SUBSET S /\ IsFiniteSet(R) /\ IsFiniteSet(T)
      BY <1>1, <3>1, <3>2, FS_Subset
    <3>4. SumFunctionOnSet(f, T) = c + SumFunctionOnSet(f, R)
      BY <3>1, <3>2, <3>3, SumRemove
    <3>5. Cardinality(T) = Cardinality(R) + 1 /\ Cardinality(R) \in Nat
      BY <3>1, <3>2, <3>3, FS_RemoveElement, FS_CardinalityType
    <3>6. PICK n \in Nat : n = Cardinality(R)
      BY <3>5
    <3>7. c * (n + 1) = c + c * n
      OBVIOUS
    <3> QED BY <3>3, <3>4, <3>5, <3>6, <3>7
  <2> QED BY <2>1, <2>2
<1> HIDE DEF Good
<1>2. \A T \in SUBSET S : T \in Good
  BY <1>1, SubsetInduction
<1> QED BY <1>2 DEF Good

LEMMA SumNat ==
  ASSUME NEW f, NEW S, IsFiniteSet(S), \A x \in S : f[x] \in Nat
  PROVE  /\ SumFunctionOnSet(f, S) \in Nat
         /\ \A x \in S : f[x] <= SumFunctionOnSet(f, S)
<1>1. ASSUME NEW T \in SUBSET S
      PROVE  SumFunctionOnSet(f, T) \in Nat
  <2>1. PICK g : g = [x \in T |-> 0]
    OBVIOUS
  <2>2. IsFiniteSet(T)
    BY FS_Subset
  <2>3. SumFunctionOnSet(g, T) = 0 * Cardinality(T)
    BY <2>1, <2>2, SumConstant
  <2>4. 0 * Cardinality(T) = 0
    BY <2>2, FS_CardinalityType
  <2>5. SumFunctionOnSet(g, T) <= SumFunctionOnSet(f, T)
    BY <2>1, <2>2, SumMonotonic
  <2>6. SumFunctionOnSet(f, T) \in Int
    BY <2>2, SumInt
  <2> QED BY <2>3, <2>4, <2>5, <2>6
<1>2. ASSUME NEW x \in S
      PROVE  f[x] <= SumFunctionOnSet(f, S)
  <2>1. SumFunctionOnSet(f, S) = f[x] + SumFunctionOnSet(f, S \ {x})
    BY SumRemove
  <2>2. SumFunctionOnSet(f, S \ {x}) \in Nat
    BY <1>1
  <2> QED BY <2>1, <2>2
<1> QED BY <1>1, <1>2

\* Two parts that have nothing in common.
LEMMA SumUnion ==
  ASSUME NEW f, NEW S, NEW T, IsFiniteSet(S), IsFiniteSet(T), S \cap T = {},
         \A x \in S \cup T : f[x] \in Int
  PROVE  SumFunctionOnSet(f, S \cup T) = SumFunctionOnSet(f, S) + SumFunctionOnSet(f, T)
<1> DEFINE Good == {U \in SUBSET T : SumFunctionOnSet(f, S \cup U) =
                      SumFunctionOnSet(f, S) + SumFunctionOnSet(f, U)}
<1>1. ASSUME NEW U \in SUBSET T, \A V \in SUBSET U : V # U => V \in Good
      PROVE  U \in Good
  <2>1. SumFunctionOnSet(f, S) \in Int
    BY SumInt
  <2>2. CASE U = {}
    BY <2>1, <2>2, SumEmpty
  <2>3. CASE U # {}
    <3>1. PICK x \in U : TRUE
      BY <2>3
    <3>2. PICK R : R = U \ {x}
      OBVIOUS
    <3>3. /\ R \in Good /\ R \in SUBSET T /\ IsFiniteSet(R) /\ x \notin R
          /\ U = R \cup {x} /\ x \notin S \cup R /\ S \cup U = (S \cup R) \cup {x}
          /\ \A y \in R : f[y] \in Int /\ \A z \in S \cup R : f[z] \in Int
          /\ f[x] \in Int
      BY <1>1, <3>1, <3>2, FS_Subset
    <3>4. IsFiniteSet(S \cup R)
      BY <3>3, FS_Union
    <3>5. SumFunctionOnSet(f, U) = f[x] + SumFunctionOnSet(f, R)
      BY <3>3, SumAdd
    <3>6. SumFunctionOnSet(f, S \cup U) = f[x] + SumFunctionOnSet(f, S \cup R)
      BY <3>3, <3>4, SumAdd
    <3>7. SumFunctionOnSet(f, R) \in Int
      BY <3>3, SumInt
    <3> QED BY <2>1, <3>3, <3>5, <3>6, <3>7
  <2> QED BY <2>2, <2>3
<1> HIDE DEF Good
<1>2. \A U \in SUBSET T : U \in Good
  BY <1>1, SubsetInduction
<1> QED BY <1>2 DEF Good

\* One term changes.
LEMMA SumChange ==
  ASSUME NEW f, NEW g, NEW S, IsFiniteSet(S), NEW x \in S,
         \A y \in S : f[y] \in Int /\ g[y] \in Int,
         \A y \in S \ {x} : g[y] = f[y]
  PROVE  SumFunctionOnSet(g, S) = SumFunctionOnSet(f, S) + (g[x] - f[x])
<1>1. IsFiniteSet(S \ {x})
  BY FS_Subset
<1>2. /\ SumFunctionOnSet(f, S) = f[x] + SumFunctionOnSet(f, S \ {x})
      /\ SumFunctionOnSet(g, S) = g[x] + SumFunctionOnSet(g, S \ {x})
  BY SumRemove
<1>3. SumFunctionOnSet(g, S \ {x}) = SumFunctionOnSet(f, S \ {x})
  BY <1>1, SumSame
<1>4. SumFunctionOnSet(f, S \ {x}) \in Int /\ f[x] \in Int /\ g[x] \in Int
  BY <1>1, SumInt
<1> QED BY <1>2, <1>3, <1>4

\* The same amounts, added up group by group.
LEMMA SumByGroup ==
  ASSUME NEW f, NEW S, IsFiniteSet(S), NEW A, IsFiniteSet(A), NEW group,
         \A x \in S : f[x] \in Int /\ group[x] \in A
  PROVE  SumFunctionOnSet([a \in A |->
           SumFunctionOnSet(f, {x \in S : group[x] = a})], A) = SumFunctionOnSet(f, S)
<1> DEFINE of(T, a) == {x \in T : group[x] = a}
           sums(T) == [a \in A |-> SumFunctionOnSet(f, of(T, a))]
           Good == {T \in SUBSET S :
                      SumFunctionOnSet(sums(T), A) = SumFunctionOnSet(f, T)}
<1>1. ASSUME NEW T \in SUBSET S
      PROVE  IsFiniteSet(T) /\ \A a \in A : IsFiniteSet(of(T, a)) /\ sums(T)[a] \in Int
  <2>1. IsFiniteSet(T)
    BY FS_Subset
  <2>2. ASSUME NEW a \in A
        PROVE  IsFiniteSet(of(T, a)) /\ sums(T)[a] \in Int
    <3>1. IsFiniteSet(of(T, a))
      BY <2>1, FS_Subset
    <3>2. SumFunctionOnSet(f, of(T, a)) \in Int
      BY <3>1, SumInt
    <3> QED BY <3>1, <3>2
  <2> QED BY <2>1, <2>2
<1>2. ASSUME NEW T \in SUBSET S, \A U \in SUBSET T : U # T => U \in Good
      PROVE  T \in Good
  <2>1. CASE T = {}
    <3>1. \A a \in A : of(T, a) = {}
      BY <2>1
    <3>2. \A a \in A : sums(T)[a] = 0
      BY <3>1, SumEmpty
    <3>3. SumFunctionOnSet(sums(T), A) = 0 * Cardinality(A)
      <4>1. PICK g : g = sums(T)
        OBVIOUS
      <4>2. \A a \in A : g[a] = 0
        BY <3>2, <4>1
      <4>3. SumFunctionOnSet(g, A) = 0 * Cardinality(A)
        BY <4>2, SumConstant
      <4> QED BY <4>1, <4>3
    <3>4. 0 * Cardinality(A) = 0
      BY FS_CardinalityType
    <3> QED BY <2>1, <3>3, <3>4, SumEmpty
  <2>2. CASE T # {}
    <3>1. PICK x \in T : TRUE
      BY <2>2
    <3>2. PICK R : R = T \ {x}
      OBVIOUS
    <3>3. R \in Good /\ R \in SUBSET S
      BY <1>2, <3>1, <3>2
    <3>4. PICK a \in A : a = group[x]
      BY <3>1
    <3>5. /\ x \notin of(R, a) /\ of(T, a) = of(R, a) \cup {x}
          /\ \A c \in A \ {a} : of(T, c) = of(R, c)
      BY <3>1, <3>2, <3>4
    <3>6. f[x] \in Int /\ IsFiniteSet(of(R, a)) /\ \A y \in of(R, a) : f[y] \in Int
      BY <1>1, <3>1, <3>3
    <3>7. sums(T)[a] = f[x] + sums(R)[a]
      <4>1. SumFunctionOnSet(f, of(R, a) \cup {x}) = f[x] + SumFunctionOnSet(f, of(R, a))
        BY <3>5, <3>6, SumAdd
      <4> QED BY <3>5, <4>1
    <3>8. \A c \in A \ {a} : sums(T)[c] = sums(R)[c]
      BY <3>5
    <3>9. /\ \A c \in A : sums(R)[c] \in Int /\ sums(T)[c] \in Int
          /\ IsFiniteSet(T)
      BY <1>1, <3>3
    <3> HIDE DEF sums
    <3>10. SumFunctionOnSet(sums(T), A) =
             SumFunctionOnSet(sums(R), A) + (sums(T)[a] - sums(R)[a])
      BY <3>8, <3>9, SumChange
    <3>11. SumFunctionOnSet(f, T) = f[x] + SumFunctionOnSet(f, R)
      BY <3>1, <3>2, <3>9, SumRemove
    <3>12. SumFunctionOnSet(sums(R), A) = SumFunctionOnSet(f, R)
      BY <3>3
    <3>13. SumFunctionOnSet(sums(R), A) \in Int /\ sums(R)[a] \in Int
      BY <3>9, SumInt
    <3> QED BY <3>6, <3>7, <3>10, <3>11, <3>12, <3>13
  <2> QED BY <2>1, <2>2
<1> HIDE DEF Good
<1>3. \A T \in SUBSET S : T \in Good
  BY <1>2, SubsetInduction
<1> QED BY <1>3 DEF Good
=============================================================================
