---------------------------- MODULE DataTheorems ----------------------------
(***************************************************************************)
(* Facts about numbers and sums that the proofs of several modules use.    *)
(*                                                                         *)
(* A set of naturals has a least element, which makes the choice of a      *)
(* first or of a latest entry of a list well defined, and which is where   *)
(* induction comes from: NaturalInduction speaks of a set of numbers that  *)
(* a proof names, not of a predicate.                                      *)
(*                                                                         *)
(* SumFunctionOnSet(f, S) adds f[x] up over the x in S.  It is a fold,     *)
(* whose recursive definition picks the elements of S in an order of its   *)
(* own; what is proved is that the definition has a solution and that the  *)
(* order does not matter, and from there how sums change, what bounds them *)
(* and what their squares are bounded by.                                  *)
(***************************************************************************)
EXTENDS Integers, Sequences, WellFoundedInduction, FiniteSetTheorems, Functions, TLAPS

(* The natural numbers are well-ordered by <.                              *)
LEMMA LessIsWellFounded ==
  \E less : /\ IsWellFoundedOn(less, Nat)
            /\ \A x, y \in Nat : <<y, x>> \in less <=> y < x
<1>1. \A x, y \in Nat : <<y, x>> \in OpToRel(<, Nat) <=> y < x
  BY DEF OpToRel
<1>2. QED
  BY <1>1, NatLessThanWellFounded, Zenon

(* A set of naturals that is not empty has a least element.                *)
LEMMA HasLeast ==
  ASSUME NEW S \in SUBSET Nat, S # {}
  PROVE  \E x \in S : \A y \in S : x <= y
<1>1. PICK less : /\ IsWellFoundedOn(less, Nat)
                  /\ \A x, y \in Nat : <<y, x>> \in less <=> y < x
  BY LessIsWellFounded
<1>2. PICK x \in S : \A y \in S : ~ (<<y, x>> \in less)
  BY <1>1, WFMin
<1>3. \A y \in S : ~ (y < x)
  BY <1>1, <1>2
<1>4. QED
  BY <1>3

(* And a greatest one when it is bounded.                                  *)
LEMMA HasGreatest ==
  ASSUME NEW n \in Nat, NEW S \in SUBSET (0..n), S # {}
  PROVE  \E x \in S : \A y \in S : y <= x
<1> DEFINE T == { n - x : x \in S }
<1>1. T \in SUBSET Nat /\ T # {}
  <2>1. \A x \in S : x \in Int /\ n - x \in Nat
    OBVIOUS
  <2>2. QED
    BY <2>1
<1>2. PICK t \in T : \A u \in T : t <= u
  BY <1>1, HasLeast
<1>3. PICK x \in S : t = n - x
  BY <1>2
<1>4. ASSUME NEW y \in S PROVE y <= x
  <2>1. n - x <= n - y
    BY <1>2, <1>3
  <2>2. QED
    BY <2>1
<1>5. QED
  BY <1>4

(* A set that has 0, and the successor of all it has, has every natural.   *)
LEMMA NaturalInduction ==
  ASSUME NEW P \in SUBSET Nat, 0 \in P, \A n \in P : n + 1 \in P
  PROVE  P = Nat
<1>1. SUFFICES ASSUME Nat \ P # {} PROVE FALSE
  OBVIOUS
<1>2. PICK least \in Nat \ P : \A y \in Nat \ P : least <= y
  BY <1>1, HasLeast
<1>3. least # 0 /\ least - 1 \in Nat
  BY <1>2
<1>4. least - 1 \in P
  BY <1>2, <1>3
<1>5. QED
  BY <1>2, <1>3, <1>4

----------------------------------------------------------------------------
(* The equation of a sum's recursive definition, whatever the elements add.*)
Some(s) == CHOOSE x \in s : TRUE

SumOfSubset(g, f, s) == IF s = {} THEN 0 ELSE f[Some(s)] + g[s \ {Some(s)}]

SumsUp(g, f, S) == g = [ s \in SUBSET S |-> SumOfSubset(g, f, s) ]

Summable(f, S) == IsFiniteSet(S) /\ \A x \in S : f[x] \in Int

(* An element taken from a finite set leaves one of one less.              *)
LEMMA TakeSome ==
  ASSUME NEW S, IsFiniteSet(S), NEW s \in SUBSET S, NEW x \in s
  PROVE  /\ IsFiniteSet(s) /\ Cardinality(s) \in Nat \ {0}
         /\ s \ {x} \in SUBSET S /\ IsFiniteSet(s \ {x})
         /\ Cardinality(s \ {x}) = Cardinality(s) - 1
<1>1. IsFiniteSet(s) /\ Cardinality(s) \in Nat
  BY FS_Subset, FS_CardinalityType
<1>2. Cardinality(s) # 0
  BY <1>1, FS_EmptySet
<1>3. IsFiniteSet(s \ {x}) /\ Cardinality(s \ {x}) = Cardinality(s) - 1
  BY <1>1, FS_RemoveElement
<1>4. QED
  BY <1>1, <1>2, <1>3

(* What Some picks is in the set.                                          *)
LEMMA SomeIsIn == \A s : s # {} => Some(s) \in s
BY DEF Some

(* A fold over a finite set, whose every step is in T, exists: an equation *)
(* that holds up to sets of n elements is made to hold up to n + 1.        *)
FoldOf(g, base, step, S) ==
  \A s \in SUBSET S : g[s] = IF s = {} THEN base ELSE step[<<Some(s), g[s \ {Some(s)}]>>]

(* Every fold over a finite set with steps in T exists. *)
LEMMA FoldExists ==
  ASSUME NEW S, IsFiniteSet(S), NEW T, NEW base \in T, NEW step \in [S \X T -> T]
  PROVE  \E g \in [SUBSET S -> T] : FoldOf(g, base, step, S)
<1> DEFINE value(g, s) == IF s = {} THEN base ELSE step[<<Some(s), g[s \ {Some(s)}]>>]
           UpTo(g, n) == \A s \in SUBSET S : Cardinality(s) <= n => g[s] = value(g, s)
           P == { n \in Nat : \E g \in [SUBSET S -> T] : UpTo(g, n) }
<1>0. \A s \in SUBSET S : Cardinality(s) \in Nat /\ IsFiniteSet(s)
  BY FS_Subset, FS_CardinalityType
<1>1. 0 \in P
  <2> DEFINE g == [ s \in SUBSET S |-> base ]
  <2>1. \A s \in SUBSET S : Cardinality(s) <= 0 => s = {}
    BY <1>0, FS_EmptySet
  <2>2. UpTo(g, 0) /\ g \in [SUBSET S -> T]
    BY <2>1
  <2> HIDE DEF UpTo, g
  <2>3. QED
    BY <2>2
<1>2. ASSUME NEW n \in P PROVE n + 1 \in P
  <2>1. PICK g \in [SUBSET S -> T] : UpTo(g, n)
    OBVIOUS
  <2> DEFINE h == [ s \in SUBSET S |-> IF Cardinality(s) <= n THEN g[s] ELSE value(g, s) ]
  <2>2. ASSUME NEW s \in SUBSET S PROVE value(g, s) \in T
    <3>1. s # {} => Some(s) \in S /\ s \ {Some(s)} \in SUBSET S
      BY SomeIsIn
    <3>2. s # {} => g[s \ {Some(s)}] \in T
      BY <3>1
    <3>3. QED
      BY <3>1, <3>2
  <2>3. h \in [SUBSET S -> T]
    <3> HIDE DEF value
    <3>1. QED
      BY <2>2
  <2>4. ASSUME NEW s \in SUBSET S, Cardinality(s) <= n + 1
        PROVE  h[s] = value(h, s)
    <3>1. h[s] = value(g, s)
      BY <2>1
    <3>2. CASE s = {}
      BY <3>1, <3>2
    <3>3. CASE s # {}
      <4>1. Some(s) \in s
        BY <3>3, SomeIsIn
      <4>2. s \ {Some(s)} \in SUBSET S /\ Cardinality(s \ {Some(s)}) <= n
        BY <1>0, <2>4, <4>1, TakeSome
      <4>3. h[s \ {Some(s)}] = g[s \ {Some(s)}]
        BY <4>2
      <4> HIDE DEF h
      <4>4. QED
        BY <3>1, <4>3
    <3>4. QED
      BY <3>2, <3>3
  <2> HIDE DEF h
  <2>5. UpTo(h, n + 1)
    BY <2>4
  <2> HIDE DEF UpTo
  <2>6. QED
    BY <2>3, <2>5
<1>3. P = Nat
  <2> HIDE DEF P
  <2>1. P \in SUBSET Nat
    BY DEF P
  <2>2. QED
    BY <1>1, <1>2, <2>1, NaturalInduction
<1>4. PICK g \in [SUBSET S -> T] : UpTo(g, Cardinality(S))
  <2>1. Cardinality(S) \in P
    BY <1>0, <1>3
  <2> HIDE DEF UpTo
  <2>2. QED
    BY <2>1
<1>5. \A s \in SUBSET S : g[s] = value(g, s)
  BY <1>0, <1>4, FS_Subset
<1>6. QED
  BY <1>5 DEF FoldOf

(* So does a sum.                                                          *)
LEMMA SumExists ==
  ASSUME NEW f, NEW S, Summable(f, S)
  PROVE  \E g \in [SUBSET S -> Int] : SumsUp(g, f, S)
<1>1. PICK step : step = [ p \in S \X Int |-> f[p[1]] + p[2] ]
  OBVIOUS
<1>2. step \in [S \X Int -> Int] /\ \A x \in S, y \in Int : step[<<x, y>>] = f[x] + y
  BY <1>1 DEF Summable
<1>3. PICK g \in [SUBSET S -> Int] : FoldOf(g, 0, step, S)
  <2>1. IsFiniteSet(S)
    BY DEF Summable
  <2>2. 0 \in Int
    OBVIOUS
  <2>3. step \in [S \X Int -> Int]
    BY <1>2
  <2>4. QED
    BY <2>1, <2>2, <2>3, FoldExists
<1>4. ASSUME NEW s \in SUBSET S PROVE g[s] = SumOfSubset(g, f, s)
  <2>1. s # {} => Some(s) \in S /\ g[s \ {Some(s)}] \in Int
    BY SomeIsIn
  <2>2. QED
    BY <1>2, <1>3, <2>1 DEF FoldOf, SumOfSubset
<1>5. SumsUp(g, f, S)
  BY <1>4 DEF SumsUp
<1>6. QED
  BY <1>5

(* Solutions for two sets, or for two functions, agree where the functions *)
(* do.                                                                     *)
LEMMA SumsAgree ==
  ASSUME NEW f, NEW S, NEW g, SumsUp(g, f, S),
         NEW e, NEW T, NEW h, SumsUp(h, e, T),
         NEW U, IsFiniteSet(U), U \subseteq S, U \subseteq T, \A x \in U : e[x] = f[x]
  PROVE  g[U] = h[U]
<1> DEFINE P == { n \in Nat : \A s \in SUBSET U : Cardinality(s) = n => g[s] = h[s] }
<1>0. \A s \in SUBSET U : Cardinality(s) \in Nat /\ IsFiniteSet(s)
  BY FS_Subset, FS_CardinalityType
<1>1. \A s \in SUBSET U : g[s] = SumOfSubset(g, f, s) /\ h[s] = SumOfSubset(h, e, s)
  BY DEF SumsUp
<1>2. 0 \in P
  BY <1>0, <1>1, FS_EmptySet DEF SumOfSubset
<1>3. ASSUME NEW n \in P PROVE n + 1 \in P
  <2>1. SUFFICES ASSUME NEW s \in SUBSET U, Cardinality(s) = n + 1
                 PROVE  g[s] = h[s]
    OBVIOUS
  <2>2. s # {}
    BY <2>1, FS_EmptySet
  <2>3. Some(s) \in s
    BY <2>2, SomeIsIn
  <2>4. s \ {Some(s)} \in SUBSET U /\ Cardinality(s \ {Some(s)}) = n
    BY SMTT(40), <1>0, <2>1, <2>3, TakeSome
  <2>5. g[s \ {Some(s)}] = h[s \ {Some(s)}] /\ e[Some(s)] = f[Some(s)]
    BY <2>3, <2>4
  <2>6. QED
    BY <1>1, <2>2, <2>5 DEF SumOfSubset
<1>4. P = Nat
  <2> HIDE DEF P
  <2>1. P \in SUBSET Nat
    BY DEF P
  <2>2. QED
    BY <1>2, <1>3, <2>1, NaturalInduction
<1>5. QED
  BY <1>0, <1>4

(* The sum is the value of such a solution.                                *)
LEMMA SumIs ==
  ASSUME NEW f, NEW S, Summable(f, S)
  PROVE  \E g \in [SUBSET S -> Int] : SumsUp(g, f, S) /\ SumFunctionOnSet(f, S) = g[S]
<1> DEFINE sum == CHOOSE g : SumsUp(g, f, S)
<1>1. PICK g \in [SUBSET S -> Int] : SumsUp(g, f, S)
  BY SumExists
<1>2. SumsUp(sum, f, S)
  BY <1>1
<1>3. SumFunctionOnSet(f, S) = sum[S]
  BY DEF SumFunctionOnSet, FoldFunctionOnSet, MapThenFoldSet, SumsUp, SumOfSubset, Some
<1> HIDE DEF sum
<1>4. \A s \in SUBSET S : sum[s] = g[s]
  BY <1>1, <1>2, SumsAgree, FS_Subset DEF Summable
<1>5. sum = g
  BY <1>1, <1>2, <1>4 DEF SumsUp
<1>6. QED
  BY <1>1, <1>3, <1>5

----------------------------------------------------------------------------
(* A sum of integers is one.                                               *)
LEMMA SumTyped ==
  ASSUME NEW f, NEW S, Summable(f, S)
  PROVE  SumFunctionOnSet(f, S) \in Int
<1>1. PICK g \in [SUBSET S -> Int] : SumFunctionOnSet(f, S) = g[S]
  BY SumIs
<1>2. QED
  BY <1>1

(* The sum over nothing is 0.                                              *)
LEMMA SumOfNothing ==
  ASSUME NEW f
  PROVE  SumFunctionOnSet(f, {}) = 0
<1>1. Summable(f, {})
  BY FS_EmptySet DEF Summable
<1>2. PICK g \in [SUBSET {} -> Int] : SumsUp(g, f, {}) /\ SumFunctionOnSet(f, {}) = g[{}]
  BY <1>1, SumIs
<1>3. QED
  BY <1>2 DEF SumsUp, SumOfSubset

(* Functions that agree on a set have one sum over it.                     *)
LEMMA SumOfEqual ==
  ASSUME NEW f, NEW e, NEW S, Summable(f, S), \A x \in S : e[x] = f[x]
  PROVE  SumFunctionOnSet(e, S) = SumFunctionOnSet(f, S)
<1>1. Summable(e, S)
  BY DEF Summable
<1>2. PICK g \in [SUBSET S -> Int] : SumsUp(g, f, S) /\ SumFunctionOnSet(f, S) = g[S]
  BY SumIs
<1>3. PICK h \in [SUBSET S -> Int] : SumsUp(h, e, S) /\ SumFunctionOnSet(e, S) = h[S]
  BY <1>1, SumIs
<1>4. QED
  BY <1>2, <1>3, SumsAgree DEF Summable

(* The sum over a set is the element it picks first and the rest.          *)
LEMMA SumPicks ==
  ASSUME NEW f, NEW S, Summable(f, S), S # {}
  PROVE  SumFunctionOnSet(f, S) = f[Some(S)] + SumFunctionOnSet(f, S \ {Some(S)})
<1> DEFINE R == S \ {Some(S)}
<1>1. Some(S) \in S /\ R \subseteq S /\ IsFiniteSet(R) /\ Summable(f, R)
  BY SomeIsIn, FS_Subset DEF Summable
<1>2. PICK g \in [SUBSET S -> Int] : SumsUp(g, f, S) /\ SumFunctionOnSet(f, S) = g[S]
  BY SumIs
<1>3. PICK h \in [SUBSET R -> Int] : SumsUp(h, f, R) /\ SumFunctionOnSet(f, R) = h[R]
  BY <1>1, SumIs
<1>4. g[R] = h[R]
  BY <1>1, <1>2, <1>3, SumsAgree
<1>5. g[S] = f[Some(S)] + g[R]
  BY <1>2 DEF SumsUp, SumOfSubset
<1>6. QED
  BY <1>2, <1>3, <1>4, <1>5

(* Any element may be taken first.                                         *)
LEMMA SumTakes ==
  ASSUME NEW f, NEW S, Summable(f, S), NEW y \in S
  PROVE  SumFunctionOnSet(f, S) = f[y] + SumFunctionOnSet(f, S \ {y})
<1> DEFINE Takes(s) == \A x \in s :
                         SumFunctionOnSet(f, s) = f[x] + SumFunctionOnSet(f, s \ {x})
           P == { n \in Nat : \A s \in SUBSET S : Cardinality(s) = n => Takes(s) }
<1>0. \A s \in SUBSET S : /\ Cardinality(s) \in Nat /\ IsFiniteSet(s) /\ Summable(f, s)
                          /\ SumFunctionOnSet(f, s) \in Int
  <2>1. \A s \in SUBSET S : Cardinality(s) \in Nat /\ Summable(f, s)
    BY FS_Subset, FS_CardinalityType DEF Summable
  <2>2. QED
    BY <2>1, SumTyped DEF Summable
<1>1. 0 \in P
  BY <1>0, FS_EmptySet
<1>2. ASSUME NEW n \in P PROVE n + 1 \in P
  <2>1. SUFFICES ASSUME NEW s \in SUBSET S, Cardinality(s) = n + 1, NEW x \in s
                 PROVE  SumFunctionOnSet(f, s) = f[x] + SumFunctionOnSet(f, s \ {x})
    OBVIOUS
  <2> DEFINE first == Some(s)
             rest == s \ {first}
  <2>2. first \in s
    BY SomeIsIn
  <2> HIDE DEF first
  <2>3. SumFunctionOnSet(f, s) = f[first] + SumFunctionOnSet(f, rest)
    BY <1>0, SumPicks DEF first
  <2>4. CASE x = first
    BY <2>3, <2>4
  <2>5. CASE x # first
    <3>1. /\ rest \in SUBSET S /\ Cardinality(rest) = n /\ x \in rest
          /\ s \ {x} \in SUBSET S /\ Cardinality(s \ {x}) = n /\ first \in s \ {x}
      BY <1>0, <2>1, <2>2, <2>5, TakeSome
    <3>2. SumFunctionOnSet(f, rest) = f[x] + SumFunctionOnSet(f, rest \ {x})
      BY <3>1
    <3>3. SumFunctionOnSet(f, s \ {x})
            = f[first] + SumFunctionOnSet(f, (s \ {x}) \ {first})
      BY <3>1
    <3>4. rest \ {x} = (s \ {x}) \ {first} /\ rest \ {x} \in SUBSET S
      OBVIOUS
    <3>5. SumFunctionOnSet(f, rest \ {x}) \in Int /\ f[x] \in Int /\ f[first] \in Int
      BY <1>0, <2>2, <3>4 DEF Summable
    <3>6. SumFunctionOnSet(f, s \ {x}) = f[first] + SumFunctionOnSet(f, rest \ {x})
      BY <3>3, <3>4, Zenon
    <3> HIDE DEF rest
    <3>7. QED
      BY <2>3, <3>2, <3>5, <3>6
  <2>6. QED
    BY <2>4, <2>5
<1>3. P = Nat
  <2> HIDE DEF P
  <2>1. P \in SUBSET Nat
    BY DEF P
  <2>2. QED
    BY <1>1, <1>2, <2>1, NaturalInduction
<1>4. Takes(S)
  BY <1>0, <1>3
<1>5. QED
  BY <1>4

(* An element more adds its value.                                         *)
LEMMA SumAdds ==
  ASSUME NEW f, NEW S, NEW y, y \notin S, Summable(f, S \union {y})
  PROVE  SumFunctionOnSet(f, S \union {y}) = SumFunctionOnSet(f, S) + f[y]
<1>1. SumFunctionOnSet(f, S \union {y}) = f[y] + SumFunctionOnSet(f, (S \union {y}) \ {y})
  BY SumTakes
<1>2. SumFunctionOnSet(f, (S \union {y}) \ {y}) = SumFunctionOnSet(f, S)
  <2>1. (S \union {y}) \ {y} = S
    OBVIOUS
  <2>2. QED
    BY <2>1, Zenon
<1>3. IsFiniteSet(S)
  BY FS_Subset DEF Summable
<1>4. Summable(f, S)
  BY <1>3 DEF Summable
<1>5. SumFunctionOnSet(f, S) \in Int /\ f[y] \in Int
  BY <1>4, SumTyped DEF Summable
<1>6. QED
  BY <1>1, <1>2, <1>5

(* A value that changes changes the sum by as much.                        *)
LEMMA SumChanges ==
  ASSUME NEW f, NEW e, NEW S, NEW y \in S, Summable(f, S), e[y] \in Int,
         \A x \in S \ {y} : e[x] = f[x]
  PROVE  SumFunctionOnSet(e, S) = SumFunctionOnSet(f, S) - f[y] + e[y]
<1> DEFINE R == S \ {y}
<1>1. IsFiniteSet(R) /\ Summable(f, R) /\ Summable(e, S)
  BY FS_Subset DEF Summable
<1>2. SumFunctionOnSet(f, S) = f[y] + SumFunctionOnSet(f, R)
  BY SumTakes
<1>3. SumFunctionOnSet(e, S) = e[y] + SumFunctionOnSet(e, R)
  BY <1>1, SumTakes
<1>4. SumFunctionOnSet(e, R) = SumFunctionOnSet(f, R)
  BY <1>1, SumOfEqual
<1>5. SumFunctionOnSet(f, R) \in Int /\ f[y] \in Int
  BY <1>1, SumTyped DEF Summable
<1>6. QED
  BY <1>2, <1>3, <1>4, <1>5

(* What adds nothing can be left out.                                      *)
LEMMA SumOfZeros ==
  ASSUME NEW f, NEW S, IsFiniteSet(S), \A x \in S : f[x] = 0
  PROVE  SumFunctionOnSet(f, S) = 0
<1> DEFINE P == { n \in Nat : \A s \in SUBSET S :
                    Cardinality(s) = n => SumFunctionOnSet(f, s) = 0 }
<1>0. \A s \in SUBSET S : Cardinality(s) \in Nat /\ IsFiniteSet(s) /\ Summable(f, s)
  BY FS_Subset, FS_CardinalityType DEF Summable
<1>1. 0 \in P
  BY <1>0, FS_EmptySet, SumOfNothing
<1>2. ASSUME NEW n \in P PROVE n + 1 \in P
  <2>1. SUFFICES ASSUME NEW s \in SUBSET S, Cardinality(s) = n + 1
                 PROVE  SumFunctionOnSet(f, s) = 0
    OBVIOUS
  <2>2. PICK x \in s : TRUE
    BY <2>1, FS_EmptySet
  <2>3. s \ {x} \in SUBSET S /\ Cardinality(s \ {x}) = n
    BY <1>0, <2>1, <2>2, TakeSome
  <2>4. SumFunctionOnSet(f, s) = f[x] + SumFunctionOnSet(f, s \ {x})
    BY <1>0, <2>2, SumTakes
  <2>5. QED
    BY <2>2, <2>3, <2>4
<1>3. P = Nat
  <2> HIDE DEF P
  <2>1. P \in SUBSET Nat
    BY DEF P
  <2>2. QED
    BY <1>1, <1>2, <2>1, NaturalInduction
<1>4. QED
  BY <1>0, <1>3

----------------------------------------------------------------------------
(* The same for SumFunction, the sum over a function's whole domain.       *)

(* A sum of integers is one.                                               *)
LEMMA SumFunctionTyped ==
  ASSUME NEW S, IsFiniteSet(S), NEW f \in [S -> Int]
  PROVE  SumFunction(f) \in Int
BY SumTyped DEF SumFunction, Summable

(* A function on no argument sums to 0.                                    *)
LEMMA SumFunctionOfNothing ==
  ASSUME NEW f \in [{} -> Int]
  PROVE  SumFunction(f) = 0
BY SumOfNothing DEF SumFunction

(* A function with one more argument sums to its value more.               *)
LEMMA SumFunctionAdds ==
  ASSUME NEW S, NEW y, NEW e, NEW f, IsFiniteSet(S), y \notin S,
         e \in [S -> Int], f \in [S \union {y} -> Int], \A x \in S : f[x] = e[x]
  PROVE  SumFunction(f) = SumFunction(e) + f[y]
<1>1. Summable(f, S \union {y}) /\ Summable(e, S)
  BY FS_AddElement DEF Summable
<1>2. SumFunctionOnSet(f, S \union {y}) = SumFunctionOnSet(f, S) + f[y]
  BY <1>1, SumAdds
<1>3. SumFunctionOnSet(f, S) = SumFunctionOnSet(e, S)
  BY <1>1, SumOfEqual
<1>4. DOMAIN f = S \union {y} /\ DOMAIN e = S
  OBVIOUS
<1>5. QED
  BY <1>2, <1>3, <1>4, Zenon DEF SumFunction

(* A value that changes changes the sum by as much.                        *)
LEMMA SumFunctionChanges ==
  ASSUME NEW S, IsFiniteSet(S), NEW y \in S,
         NEW e \in [S -> Int], NEW f \in [S -> Int],
         \A x \in S \ {y} : f[x] = e[x]
  PROVE  SumFunction(f) = SumFunction(e) - e[y] + f[y]
<1>1. Summable(f, S) /\ Summable(e, S)
  BY DEF Summable
<1>2. SumFunctionOnSet(f, S) = SumFunctionOnSet(e, S) - e[y] + f[y]
  BY <1>1, SumChanges
<1>3. DOMAIN f = S /\ DOMAIN e = S
  OBVIOUS
<1>4. QED
  BY <1>2, <1>3, Zenon DEF SumFunction

(* What adds nothing sums to nothing.                                      *)
LEMMA SumFunctionOfZeros ==
  ASSUME NEW S, IsFiniteSet(S), NEW f \in [S -> Int], \A x \in S : f[x] = 0
  PROVE  SumFunction(f) = 0
BY SumOfZeros DEF SumFunction

----------------------------------------------------------------------------
(* Sums of lists of integers. *)

(* A sequence is a function on 1..Len.                                     *)
LEMMA SeqIsFunction ==
  ASSUME NEW T, NEW s \in Seq(T)
  PROVE  Len(s) \in Nat /\ s \in [1..Len(s) -> T] /\ DOMAIN s = 1..Len(s)
OBVIOUS

(* A function on 1..n + 1 sums to its last value more than on 1..n.        *)
LEMMA SumOfLonger ==
  ASSUME NEW n \in Nat, NEW e \in [1..n -> Int], NEW f \in [1..(n + 1) -> Int],
         \A i \in 1..n : f[i] = e[i]
  PROVE  SumFunction(f) = SumFunction(e) + f[n + 1]
<1>1. IsFiniteSet(1..n) /\ IsFiniteSet(1..(n + 1)) /\ n + 1 \notin 1..n
  BY FS_Interval
<1>2. Summable(f, 1..(n + 1)) /\ Summable(e, 1..n)
  BY <1>1 DEF Summable
<1>3. 1..(n + 1) = 1..n \union {n + 1}
  OBVIOUS
<1>4. Summable(f, 1..n \union {n + 1})
  BY <1>2, <1>3, Zenon
<1>5. SumFunctionOnSet(f, 1..n \union {n + 1}) = SumFunctionOnSet(f, 1..n) + f[n + 1]
  BY <1>1, <1>4, SumAdds
<1>6. SumFunctionOnSet(f, 1..n) = SumFunctionOnSet(e, 1..n)
  BY <1>2, SumOfEqual DEF Summable
<1>7. DOMAIN f = 1..(n + 1) /\ DOMAIN e = 1..n
  OBVIOUS
<1>8. SumFunction(f) = SumFunctionOnSet(f, 1..n \union {n + 1})
      /\ SumFunction(e) = SumFunctionOnSet(e, 1..n)
  BY <1>3, <1>7, Zenon DEF SumFunction
<1>9. QED
  BY <1>5, <1>6, <1>8

(* One number more at the end of a list adds it to the sum.                *)
LEMMA SumOfAppend ==
  ASSUME NEW s \in Seq(Int), NEW x \in Int
  PROVE  SumFunction(s) \in Int /\ SumFunction(Append(s, x)) = SumFunction(s) + x
<1>1. PICK n : n = Len(s)
  OBVIOUS
<1>2. PICK f : f = Append(s, x)
  OBVIOUS
<1>3. n \in Nat /\ s \in [1..n -> Int] /\ IsFiniteSet(1..n)
  BY <1>1, SeqIsFunction, FS_Interval
<1>4. f \in Seq(Int) /\ Len(f) = n + 1
  BY <1>1, <1>2
<1>5. f[n + 1] = x /\ \A i \in 1..n : f[i] = s[i]
  BY <1>1, <1>2
<1>6. f \in [1..(n + 1) -> Int]
  BY <1>4, SeqIsFunction
<1>7. SumFunction(f) = SumFunction(s) + f[n + 1]
  BY <1>3, <1>5, <1>6, SumOfLonger
<1>8. SumFunction(s) \in Int
  BY <1>3, SumFunctionTyped
<1>9. QED
  BY <1>2, <1>5, <1>7, <1>8

(* The empty list sums to 0.                                               *)
LEMMA SumOfEmptyList == SumFunction(<<>>) = 0
<1>1. <<>> \in [{} -> Int]
  OBVIOUS
<1>2. QED
  BY <1>1, SumFunctionOfNothing

(* A list that gets longer keeps its prefixes, the longest of which it is. *)
LEMMA PrefixOfAppend ==
  ASSUME NEW T, NEW s \in Seq(T), NEW x \in T
  PROVE  /\ SubSeq(s, 1, Len(s)) = s /\ SubSeq(s, 1, 0) = <<>>
         /\ \A k \in 0..Len(s) : /\ SubSeq(s, 1, k) \in Seq(T)
                                 /\ SubSeq(Append(s, x), 1, k) = SubSeq(s, 1, k)
OBVIOUS

----------------------------------------------------------------------------
(* Induction up to a bound.                                                *)
LEMMA BoundedInduction ==
  ASSUME NEW N \in Nat, NEW P \in SUBSET (0..N), 0 \in P,
         \A n \in P : n < N => n + 1 \in P
  PROVE  P = 0..N
<1> DEFINE Q == P \union { n \in Nat : n > N }
<1>0. \A n \in P : n \in Nat /\ n <= N
  OBVIOUS
<1>1. Q \in SUBSET Nat /\ 0 \in Q
  BY <1>0
<1>2. ASSUME NEW n \in Q PROVE n + 1 \in Q
  <2>1. CASE n \in P
    BY <1>0, <2>1
  <2>2. CASE n \notin P
    BY <2>2
  <2>3. QED
    BY <2>1, <2>2
<1> HIDE DEF Q
<1>3. Q = Nat
  BY <1>1, <1>2, NaturalInduction
<1>4. \A n \in 0..N : n \in P
  <2>1. ASSUME NEW n \in 0..N PROVE n \in P
    <3>1. n \in Nat /\ n \in Q /\ ~ (n > N)
      BY <1>3
    <3>2. QED
      BY <3>1 DEF Q
  <2>2. QED
    BY <2>1
<1>5. QED
  BY <1>0, <1>4

(* What step makes of what came before, from a: such a recursive function  *)
(* exists.                                                                 *)
Steps(f, N, a, step) ==
  f = [ n \in 0..N |-> IF n = 0 THEN a ELSE step[<<n, f[n - 1]>>] ]

(* Every recursive function on 0..N whose steps stay in S exists. *)
LEMMA RecursionExists ==
  ASSUME NEW S, NEW N \in Nat, NEW a \in S, NEW step \in [(1..N) \X S -> S]
  PROVE  \E f \in [0..N -> S] : Steps(f, N, a, step)
<1> DEFINE Right(f, n) == \A i \in 0..n : f[i] = IF i = 0 THEN a ELSE step[<<i, f[i - 1]>>]
           P == { n \in 0..N : \E f \in [0..N -> S] : Right(f, n) }
<1>1. 0 \in P
  <2>1. [n \in 0..N |-> a] \in [0..N -> S] /\ Right([n \in 0..N |-> a], 0)
    OBVIOUS
  <2>2. 0 \in 0..N
    OBVIOUS
  <2> HIDE DEF Right
  <2>3. QED
    BY <2>1, <2>2
<1>2. ASSUME NEW n \in P, n < N PROVE n + 1 \in P
  <2>1. PICK f \in [0..N -> S] : Right(f, n)
    OBVIOUS
  <2> DEFINE g == [f EXCEPT ![n + 1] = step[<<n + 1, f[n]>>]]
  <2>2. n \in Nat /\ n + 1 \in 1..N /\ f[n] \in S
    BY <1>2
  <2>3. g \in [0..N -> S] /\ g[n + 1] = step[<<n + 1, f[n]>>]
    BY <2>2
  <2>4. \A i \in 0..n : g[i] = f[i]
    BY <2>2
  <2> HIDE DEF g
  <2>5. Right(g, n + 1)
    <3>1. ASSUME NEW i \in 0..(n + 1)
          PROVE  g[i] = IF i = 0 THEN a ELSE step[<<i, g[i - 1]>>]
      <4>1. CASE i = n + 1
        BY <2>2, <2>3, <2>4, <4>1
      <4>2. CASE i # n + 1
        <5>1. i \in 0..n /\ (i # 0 => i - 1 \in 0..n)
          BY <2>2, <4>2
        <5>2. QED
          BY <2>1, <2>4, <5>1
      <4>3. QED
        BY <4>1, <4>2
    <3>2. QED
      BY <3>1
  <2>6. QED
    BY SMTT(40), <2>2, <2>3, <2>5
<1>3. P = 0..N
  <2> HIDE DEF P
  <2>1. P \in SUBSET (0..N)
    BY DEF P
  <2>2. QED
    BY <1>1, <1>2, <2>1, BoundedInduction
<1>4. PICK f \in [0..N -> S] : Right(f, N)
  <2>0. N \in 0..N
    OBVIOUS
  <2>1. N \in P
    BY <1>3, <2>0
  <2> HIDE DEF Right
  <2>2. QED
    BY <2>1
<1>5. QED
  BY <1>4 DEF Steps

----------------------------------------------------------------------------
(* Multiplication by a natural number keeps the order, and by a positive   *)
(* one does so strictly.                                                   *)
LEMMA TimesKeepsOrder ==
  ASSUME NEW a \in Int, NEW b \in Int, a <= b, NEW c \in Nat
  PROVE  c * a <= c * b /\ a * c <= b * c
<1> DEFINE P == { n \in Nat : n * a <= n * b }
<1>1. 0 \in P
  OBVIOUS
<1>2. \A n \in P : n + 1 \in P
  OBVIOUS
<1>3. P = Nat
  <2> HIDE DEF P
  <2>1. P \in SUBSET Nat
    BY DEF P
  <2>2. QED
    BY <1>1, <1>2, <2>1, NaturalInduction
<1>4. c * a <= c * b
  BY <1>3
<1>5. QED
  BY <1>4

(* A sum of values between two bounds is between as many times the bounds. *)
LEMMA SumBounds ==
  ASSUME NEW f, NEW S, Summable(f, S), NEW a \in Int, NEW b \in Int, NEW c \in Int,
         \A x \in S : a <= c * f[x] /\ c * f[x] <= b
  PROVE  /\ Cardinality(S) \in Nat
         /\ a * Cardinality(S) <= c * SumFunctionOnSet(f, S)
         /\ c * SumFunctionOnSet(f, S) <= b * Cardinality(S)
<1> DEFINE Between(s) == /\ a * Cardinality(s) <= c * SumFunctionOnSet(f, s)
                         /\ c * SumFunctionOnSet(f, s) <= b * Cardinality(s)
           P == { n \in Nat : \A s \in SUBSET S : Cardinality(s) = n => Between(s) }
<1>0. \A s \in SUBSET S : /\ Cardinality(s) \in Nat /\ IsFiniteSet(s) /\ Summable(f, s)
                          /\ SumFunctionOnSet(f, s) \in Int
  <2>1. \A s \in SUBSET S : Cardinality(s) \in Nat /\ Summable(f, s)
    BY FS_Subset, FS_CardinalityType DEF Summable
  <2>2. QED
    BY <2>1, SumTyped DEF Summable
<1>1. 0 \in P
  <2>1. ASSUME NEW s \in SUBSET S, Cardinality(s) = 0 PROVE Between(s)
    <3>1. s = {}
      BY <1>0, <2>1, FS_EmptySet
    <3>2. SumFunctionOnSet(f, s) = 0
      BY <1>0, <3>1, SumOfNothing
    <3>3. a * 0 = 0 /\ b * 0 = 0 /\ c * 0 = 0
      OBVIOUS
    <3>4. QED
      BY <2>1, <3>2, <3>3
  <2> HIDE DEF Between
  <2>2. QED
    BY <2>1
<1>2. ASSUME NEW n \in P PROVE n + 1 \in P
  <2>1. SUFFICES ASSUME NEW s \in SUBSET S, Cardinality(s) = n + 1
                 PROVE  Between(s)
    OBVIOUS
  <2>2. PICK x \in s : TRUE
    BY <2>1, FS_EmptySet
  <2>3. s \ {x} \in SUBSET S /\ Cardinality(s \ {x}) = n
    <3>1. IsFiniteSet(s) /\ x \in s /\ n \in Nat
      BY <1>0, <2>2
    <3>2. Cardinality(s \ {x}) = Cardinality(s) - 1
      BY <3>1, FS_RemoveElement
    <3>3. QED
      BY <2>1, <3>1, <3>2
  <2>4. SumFunctionOnSet(f, s) = f[x] + SumFunctionOnSet(f, s \ {x})
    BY <1>0, <2>2, SumTakes
  <2>5. PICK rest \in Int : rest = SumFunctionOnSet(f, s \ {x})
    BY <1>0, <2>3
  <2>6. a * n <= c * rest /\ c * rest <= b * n
    BY <2>3, <2>5
  <2>7. x \in S /\ f[x] \in Int /\ n \in Nat /\ a <= c * f[x] /\ c * f[x] <= b
    BY <2>2 DEF Summable
  <2>8. /\ a * (n + 1) = a * n + a /\ b * (n + 1) = b * n + b
        /\ c * (f[x] + rest) = c * f[x] + c * rest
    BY <2>5, <2>7
  <2>9. /\ a * n \in Int /\ b * n \in Int /\ c * f[x] \in Int /\ c * rest \in Int
    BY <2>5, <2>7
  <2>10. a * (n + 1) <= c * (f[x] + rest) /\ c * (f[x] + rest) <= b * (n + 1)
    BY <2>6, <2>7, <2>8, <2>9
  <2>11. QED
    BY <2>1, <2>4, <2>5, <2>10
<1>3. P = Nat
  <2> HIDE DEF P
  <2>1. P \in SUBSET Nat
    BY DEF P
  <2>2. QED
    BY <1>1, <1>2, <2>1, NaturalInduction
<1>4. QED
  BY <1>0, <1>3

----------------------------------------------------------------------------
(* Two sets with nothing in common sum to the sum of their union.          *)
LEMMA SumOfUnion ==
  ASSUME NEW f, NEW S, NEW T, Summable(f, S \union T), S \intersect T = {}
  PROVE  SumFunctionOnSet(f, S \union T) = SumFunctionOnSet(f, S) + SumFunctionOnSet(f, T)
<1> DEFINE P == { n \in Nat : \A t \in SUBSET T : Cardinality(t) = n =>
                    SumFunctionOnSet(f, S \union t)
                      = SumFunctionOnSet(f, S) + SumFunctionOnSet(f, t) }
<1>0. IsFiniteSet(T) /\ Summable(f, S) /\ SumFunctionOnSet(f, S) \in Int
  <2>1. IsFiniteSet(T) /\ IsFiniteSet(S)
    BY FS_Subset DEF Summable
  <2>2. Summable(f, S)
    BY <2>1 DEF Summable
  <2>3. QED
    BY <2>1, <2>2, SumTyped
<1>1. \A t \in SUBSET T : /\ Cardinality(t) \in Nat /\ IsFiniteSet(t)
                          /\ Summable(f, t) /\ Summable(f, S \union t)
                          /\ SumFunctionOnSet(f, t) \in Int
  <2>1. TAKE t \in SUBSET T
  <2>2. IsFiniteSet(t) /\ IsFiniteSet(S \union t)
    <3>1. S \union t \subseteq S \union T
      OBVIOUS
    <3>2. QED
      BY <1>0, <3>1, FS_Subset DEF Summable
  <2>3. Summable(f, t) /\ Summable(f, S \union t)
    BY <2>2 DEF Summable
  <2>4. QED
    BY <2>2, <2>3, FS_CardinalityType, SumTyped
<1>2. 0 \in P
  <2>1. ASSUME NEW t \in SUBSET T, Cardinality(t) = 0
        PROVE  SumFunctionOnSet(f, S \union t)
                 = SumFunctionOnSet(f, S) + SumFunctionOnSet(f, t)
    <3>1. t = {} /\ S \union t = S
      BY <1>1, <2>1, FS_EmptySet
    <3>2. SumFunctionOnSet(f, t) = 0 /\ SumFunctionOnSet(f, S \union t) = SumFunctionOnSet(f, S)
      BY <3>1, SumOfNothing, Zenon
    <3>3. QED
      BY <1>0, <3>2
  <2>2. QED
    BY <2>1
<1>3. ASSUME NEW n \in P PROVE n + 1 \in P
  <2>1. SUFFICES ASSUME NEW t \in SUBSET T, Cardinality(t) = n + 1
                 PROVE  SumFunctionOnSet(f, S \union t)
                          = SumFunctionOnSet(f, S) + SumFunctionOnSet(f, t)
    OBVIOUS
  <2>2. PICK x \in t : TRUE
    BY <2>1, FS_EmptySet
  <2>3. PICK r \in SUBSET T : r = t \ {x} /\ Cardinality(r) = n
    <3>1. Cardinality(t \ {x}) = Cardinality(t) - 1 /\ t \ {x} \in SUBSET T
      BY <1>0, <2>2, TakeSome
    <3>2. QED
      BY <2>1, <3>1
  <2>4. t = r \union {x} /\ x \notin r /\ x \notin S \union r
        /\ S \union t = (S \union r) \union {x}
    BY <2>2, <2>3
  <2>5. SumFunctionOnSet(f, r \union {x}) = SumFunctionOnSet(f, r) + f[x]
    <3>1. Summable(f, r \union {x})
      BY <1>1, <2>4, Zenon
    <3>2. QED
      BY <2>4, <3>1, SumAdds
  <2>6. SumFunctionOnSet(f, (S \union r) \union {x}) = SumFunctionOnSet(f, S \union r) + f[x]
    <3>1. Summable(f, (S \union r) \union {x})
      BY <1>1, <2>4, Zenon
    <3>2. QED
      BY <2>4, <3>1, SumAdds
  <2>7. SumFunctionOnSet(f, S \union r) = SumFunctionOnSet(f, S) + SumFunctionOnSet(f, r)
    BY <2>3
  <2>8. SumFunctionOnSet(f, r) \in Int /\ f[x] \in Int
    BY <1>1, <2>2, <2>3 DEF Summable
  <2>9. SumFunctionOnSet(f, t) = SumFunctionOnSet(f, r \union {x})
        /\ SumFunctionOnSet(f, S \union t) = SumFunctionOnSet(f, (S \union r) \union {x})
    BY <2>4, Zenon
  <2>10. QED
    BY <1>0, <2>5, <2>6, <2>7, <2>8, <2>9
<1>4. P = Nat
  <2> HIDE DEF P
  <2>1. P \in SUBSET Nat
    BY DEF P
  <2>2. QED
    BY <1>2, <1>3, <2>1, NaturalInduction
<1>5. QED
  BY <1>1, <1>4

(* One number more: (s + x)^2 <= (n + 1) * (q + x^2) if s^2 <= n * q.      *)
LEMMA SquareStep ==
  ASSUME NEW n \in Nat, NEW s \in Int, NEW q \in Nat, s * s <= n * q, NEW x \in Int
  PROVE  (s + x) * (s + x) <= (n + 1) * (q + x * x)
<1>0. \A y \in Int : y * y >= 0
  OBVIOUS
<1>1. CASE n = 0
  <2>1. n * q = 0
    BY <1>1
  <2>2. s * s = 0
    BY <1>0, <2>1
  <2>3. s = 0
    BY <2>2
  <2>4. (s + x) * (s + x) = x * x /\ (n + 1) * (q + x * x) = q + x * x
    BY <1>1, <2>3
  <2>5. QED
    BY <2>4
<1>2. CASE n # 0
  <2>1. PICK d \in Int : d = (n + 1) * (q + x * x) - (s + x) * (s + x)
    OBVIOUS
  <2>2. n * d = n * (n * q - s * s) + (n * q - s * s) + (s - n * x) * (s - n * x)
    <3>1. n * ((n + 1) * (q + x * x) - (s + x) * (s + x))
            = n * (n * q - s * s) + (n * q - s * s) + (s - n * x) * (s - n * x)
      OBVIOUS
    <3>2. QED
      BY <2>1, <3>1
  <2>3. PICK r \in Nat : r = n * q - s * s
    OBVIOUS
  <2>4. n * r >= 0 /\ n * r \in Int
    BY <2>3
  <2>5. s - n * x \in Int
    OBVIOUS
  <2>6. (s - n * x) * (s - n * x) >= 0 /\ (s - n * x) * (s - n * x) \in Int
    BY <1>0, <2>5
  <2>7. n * d >= 0
    BY <2>2, <2>3, <2>4, <2>6
  <2>8. d < 0 => n * d < 0
    BY <1>2
  <2>9. d >= 0
    BY <2>7, <2>8
  <2>10. PICK a \in Int, b \in Int : a = (n + 1) * (q + x * x) /\ b = (s + x) * (s + x)
    OBVIOUS
  <2>11. b <= a
    BY <2>1, <2>9, <2>10
  <2>12. QED
    BY <2>10, <2>11
<1>3. QED
  BY <1>1, <1>2

(* The square of a sum is at most as many times the sum of the squares as  *)
(* there are numbers.                                                      *)
LEMMA SquareOfSum ==
  ASSUME NEW f, NEW S, Summable(f, S), NEW q, \A x \in S : q[x] = f[x] * f[x]
  PROVE  /\ Summable(q, S) /\ Cardinality(S) \in Nat /\ SumFunctionOnSet(q, S) \in Nat
         /\ SumFunctionOnSet(f, S) \in Int
         /\ SumFunctionOnSet(f, S) * SumFunctionOnSet(f, S)
              <= Cardinality(S) * SumFunctionOnSet(q, S)
<1> DEFINE Right(s) == /\ SumFunctionOnSet(q, s) \in Nat
                       /\ SumFunctionOnSet(f, s) * SumFunctionOnSet(f, s)
                            <= Cardinality(s) * SumFunctionOnSet(q, s)
           P == { n \in Nat : \A s \in SUBSET S : Cardinality(s) = n => Right(s) }
<1>0. Summable(q, S)
  BY DEF Summable
<1>1. \A s \in SUBSET S : /\ Cardinality(s) \in Nat /\ IsFiniteSet(s)
                          /\ Summable(f, s) /\ Summable(q, s)
                          /\ SumFunctionOnSet(f, s) \in Int
  <2>1. \A s \in SUBSET S : /\ Cardinality(s) \in Nat /\ IsFiniteSet(s)
                            /\ Summable(f, s) /\ Summable(q, s)
    BY <1>0, FS_Subset, FS_CardinalityType DEF Summable
  <2>2. QED
    BY <2>1, SumTyped
<1>2. 0 \in P
  <2>1. ASSUME NEW s \in SUBSET S, Cardinality(s) = 0 PROVE Right(s)
    <3>1. s = {}
      BY <1>1, <2>1, FS_EmptySet
    <3>2. SumFunctionOnSet(f, s) = 0 /\ SumFunctionOnSet(q, s) = 0
      BY <3>1, SumOfNothing
    <3>3. QED
      BY <2>1, <3>2
  <2> HIDE DEF Right
  <2>2. QED
    BY <2>1
<1>3. ASSUME NEW n \in P PROVE n + 1 \in P
  <2>1. SUFFICES ASSUME NEW s \in SUBSET S, Cardinality(s) = n + 1
                 PROVE  Right(s)
    OBVIOUS
  <2>2. PICK x \in s : TRUE
    <3>1. n + 1 # 0
      BY <1>3
    <3>2. Cardinality(s) # 0 /\ IsFiniteSet(s)
      BY <1>1, <2>1, <3>1
    <3>3. s # {}
      BY <3>2, FS_EmptySet
    <3>4. QED
      BY <3>3
  <2>3. PICK r \in SUBSET S : r = s \ {x} /\ Cardinality(r) = n
    <3>1. Cardinality(s \ {x}) = Cardinality(s) - 1 /\ s \ {x} \in SUBSET S
      BY <2>2, TakeSome DEF Summable
    <3>2. QED
      BY <2>1, <3>1
  <2>4. Right(r)
    BY <2>3
  <2>5. PICK a \in Int, b \in Nat, e \in Int :
          a = SumFunctionOnSet(f, r) /\ b = SumFunctionOnSet(q, r) /\ e = f[x] /\ a * a <= n * b
    BY <1>1, <2>2, <2>3, <2>4 DEF Summable
  <2>6. q[x] = e * e /\ e * e \in Nat
    <3>1. \A y \in Int : y * y \in Nat
      OBVIOUS
    <3>2. QED
      BY <2>2, <2>5, <3>1
  <2>7. SumFunctionOnSet(f, s) = e + a
    <3>1. Summable(f, s) /\ x \in s
      BY <1>1, <2>1, <2>2
    <3>2. SumFunctionOnSet(f, s) = f[x] + SumFunctionOnSet(f, s \ {x})
      BY <3>1, SumTakes
    <3>3. SumFunctionOnSet(f, s \ {x}) = SumFunctionOnSet(f, r)
      BY <2>3, Zenon
    <3>4. QED
      BY <2>5, <3>2, <3>3
  <2>8. SumFunctionOnSet(q, s) = e * e + b
    <3>1. Summable(q, s) /\ x \in s
      BY <1>1, <2>1, <2>2
    <3>2. SumFunctionOnSet(q, s) = q[x] + SumFunctionOnSet(q, s \ {x})
      BY <3>1, SumTakes
    <3>3. SumFunctionOnSet(q, s \ {x}) = SumFunctionOnSet(q, r)
      BY <2>3, Zenon
    <3>4. QED
      BY <2>5, <2>6, <3>2, <3>3
  <2>9. (a + e) * (a + e) <= (n + 1) * (b + e * e)
    BY <2>5, SquareStep
  <2>10. e + a = a + e /\ e * e + b = b + e * e
    BY <2>6
  <2>11. e * e + b \in Nat
    BY <2>6
  <2>12. QED
    BY <2>1, <2>7, <2>8, <2>9, <2>10, <2>11
<1>4. P = Nat
  <2> HIDE DEF P
  <2>1. P \in SUBSET Nat
    BY DEF P
  <2>2. QED
    BY <1>2, <1>3, <2>1, NaturalInduction
<1>5. Right(S)
  BY <1>1, <1>4
<1>6. QED
  BY <1>0, <1>1, <1>5

(* The sum of differences is the difference of the sums.                   *)
LEMMA SumOfDifference ==
  ASSUME NEW S, NEW f, NEW g, NEW e, Summable(f, S), Summable(g, S),
         \A x \in S : e[x] = f[x] - g[x]
  PROVE  /\ Summable(e, S)
         /\ SumFunctionOnSet(e, S) = SumFunctionOnSet(f, S) - SumFunctionOnSet(g, S)
<1> DEFINE Right(s) ==
             SumFunctionOnSet(e, s) = SumFunctionOnSet(f, s) - SumFunctionOnSet(g, s)
           P == { n \in Nat : \A s \in SUBSET S : Cardinality(s) = n => Right(s) }
<1>0. Summable(e, S)
  BY DEF Summable
<1>1. \A s \in SUBSET S : /\ Cardinality(s) \in Nat /\ IsFiniteSet(s)
                          /\ Summable(f, s) /\ Summable(g, s) /\ Summable(e, s)
                          /\ SumFunctionOnSet(f, s) \in Int /\ SumFunctionOnSet(g, s) \in Int
  <2>1. \A s \in SUBSET S : /\ Cardinality(s) \in Nat /\ IsFiniteSet(s)
                            /\ Summable(f, s) /\ Summable(g, s) /\ Summable(e, s)
    BY <1>0, FS_Subset, FS_CardinalityType DEF Summable
  <2>2. QED
    BY <2>1, SumTyped
<1>2. 0 \in P
  <2>1. ASSUME NEW s \in SUBSET S, Cardinality(s) = 0 PROVE Right(s)
    <3>1. s = {}
      BY <1>1, <2>1, FS_EmptySet
    <3>2. /\ SumFunctionOnSet(f, s) = 0 /\ SumFunctionOnSet(g, s) = 0
          /\ SumFunctionOnSet(e, s) = 0
      BY <3>1, SumOfNothing
    <3>3. QED
      BY <3>2
  <2> HIDE DEF Right
  <2>2. QED
    BY <2>1
<1>3. ASSUME NEW n \in P PROVE n + 1 \in P
  <2>1. SUFFICES ASSUME NEW s \in SUBSET S, Cardinality(s) = n + 1
                 PROVE  Right(s)
    OBVIOUS
  <2>2. PICK x \in s : TRUE
    <3>1. n + 1 # 0
      BY <1>3
    <3>2. Cardinality(s) # 0 /\ IsFiniteSet(s)
      BY <1>1, <2>1, <3>1
    <3>3. s # {}
      BY <3>2, FS_EmptySet
    <3>4. QED
      BY <3>3
  <2>3. PICK r \in SUBSET S : r = s \ {x} /\ Cardinality(r) = n
    <3>1. Cardinality(s \ {x}) = Cardinality(s) - 1 /\ s \ {x} \in SUBSET S
      BY <2>2, TakeSome DEF Summable
    <3>2. QED
      BY <2>1, <3>1
  <2>4. Right(r)
    BY <2>3
  <2>5. Summable(f, s) /\ Summable(g, s) /\ Summable(e, s) /\ x \in s
    BY <1>1, <2>1, <2>2
  <2>6. /\ SumFunctionOnSet(f, s) = f[x] + SumFunctionOnSet(f, s \ {x})
        /\ SumFunctionOnSet(g, s) = g[x] + SumFunctionOnSet(g, s \ {x})
        /\ SumFunctionOnSet(e, s) = e[x] + SumFunctionOnSet(e, s \ {x})
    BY <2>5, SumTakes
  <2>7. /\ SumFunctionOnSet(f, s) = f[x] + SumFunctionOnSet(f, r)
        /\ SumFunctionOnSet(g, s) = g[x] + SumFunctionOnSet(g, r)
        /\ SumFunctionOnSet(e, s) = e[x] + SumFunctionOnSet(e, r)
    BY <2>3, <2>6, Zenon
  <2>8. f[x] \in Int /\ g[x] \in Int /\ e[x] = f[x] - g[x]
    BY <2>2 DEF Summable
  <2>9. SumFunctionOnSet(f, r) \in Int /\ SumFunctionOnSet(g, r) \in Int
    BY <1>1, <2>3
  <2>10. QED
    BY <2>4, <2>7, <2>8, <2>9
<1>4. P = Nat
  <2> HIDE DEF P
  <2>1. P \in SUBSET Nat
    BY DEF P
  <2>2. QED
    BY <1>2, <1>3, <2>1, NaturalInduction
<1>5. Right(S)
  BY <1>1, <1>4
<1>6. QED
  BY <1>0, <1>5

============================================================================
