--------------------------- MODULE SequenceFolds ---------------------------
(***************************************************************************)
(* What FoldLeft returns. Induction is over sets of numbers here: a        *)
(* property of the turns of a loop is the set of the turns that have it,   *)
(* and a fold is shown to be such a loop before anything is shown about it.*)
(***************************************************************************)
EXTENDS Integers, Sequences, SequencesExt, SequenceTheorems, FiniteSetTheorems, TLAPS

\* The order of the natural numbers, as a relation.
Below == {p \in Nat \X Nat : p[1] < p[2]}

\* There is no infinite descent.
LEMMA BelowWellFounded == IsWellFoundedOn(Below, Nat)
BY NatLessThanWellFounded DEF OpToRel, Below

\* Induction, for the set of the numbers that have the property.
LEMMA InductionSet ==
  ASSUME NEW S, 0 \in S, \A n \in Nat : n \in S => n + 1 \in S
  PROVE  Nat \subseteq S
<1> SUFFICES ASSUME Nat \ S # {} PROVE FALSE
  OBVIOUS
<1>1. PICK x \in Nat \ S : \A y \in Nat \ S : ~(<<y, x>> \in Below)
  BY BelowWellFounded, WFMin
<1>2. x # 0 /\ x - 1 \in Nat
  OBVIOUS
<1>3. <<x - 1, x>> \in Below
  BY <1>2 DEF Below
<1>4. x - 1 \in S
  BY <1>1, <1>2, <1>3
<1>5. (x - 1) + 1 \in S
  BY <1>2, <1>4
<1> QED  BY <1>2, <1>5

\* Induction over the turns of a loop that makes n of them.
LEMMA RangeInduction ==
  ASSUME NEW n \in Nat, NEW S, 0 \in S, \A i \in 1..n : i - 1 \in S => i \in S
  PROVE  0..n \subseteq S
<1> DEFINE T == {k \in Nat : k <= n => k \in S}
<1>1. 0 \in T
  OBVIOUS
<1>2. ASSUME NEW k \in Nat, k \in T PROVE k + 1 \in T
  <2>1. CASE k + 1 <= n
    <3>1. k + 1 \in 1..n /\ (k + 1) - 1 = k /\ k \in S
      BY <1>2, <2>1
    <3> QED  BY <3>1
  <2> QED  BY <2>1
<1> HIDE DEF T
<1>3. Nat \subseteq T
  BY <1>1, <1>2, InductionSet
<1> QED  BY <1>3 DEF T

\* A set of natural numbers that is not empty has a least element.
LEMMA LeastExists ==
  ASSUME NEW S \in SUBSET Nat, S # {}
  PROVE  \E x \in S : \A y \in S : x <= y
<1>1. PICK x \in S : \A y \in S : ~(<<y, x>> \in Below)
  BY BelowWellFounded, WFMin
<1>2. \A y \in S : x <= y
  <2> TAKE y \in S
  <2>1. x \in Nat /\ y \in Nat
    OBVIOUS
  <2>2. ~(<<y, x>> \in Nat \X Nat /\ y < x)
    BY <1>1 DEF Below
  <2> QED  BY <2>1, <2>2
<1> QED  BY <1>2

\* The Max of the library is the greatest element of a part of 1..n.
LEMMA MaxOfRange ==
  ASSUME NEW n \in Nat, NEW S \in SUBSET (1..n), S # {}
  PROVE  Max(S) \in S /\ \A y \in S : y <= Max(S)
<1> DEFINE T == {k \in Nat : \E x \in S : k = n - x}
<1>1. T \subseteq Nat /\ T # {}
  <2>1. PICK x \in S : x \in 1..n
    OBVIOUS
  <2>2. n - x \in T
    BY <2>1
  <2> QED  BY <2>2
<1>2. PICK k \in T : \A j \in T : ~(<<j, k>> \in Below)
  BY <1>1, BelowWellFounded, WFMin
<1>3. PICK x \in S : k = n - x
  OBVIOUS
<1>4. \A y \in S : x >= y
  <2> TAKE y \in S
  <2>1. n - y \in T /\ n - y \in Nat /\ k \in Nat
    OBVIOUS
  <2>2. ~(n - y < k)
    BY <1>2, <2>1 DEF Below
  <2> QED  BY <1>3, <2>1, <2>2
<1>5. \E z \in S : \A y \in S : z >= y
  BY <1>4
<1>6. Max(S) \in S /\ \A y \in S : Max(S) >= y
  BY <1>5, Zenon DEF Max
<1> QED  BY <1>6

\* It is n if the part has n.
LEMMA MaxIsLast ==
  ASSUME NEW n \in Nat, NEW S \in SUBSET (1..n), n \in S
  PROVE  Max(S) = n
<1>1. Max(S) \in S /\ n <= Max(S)
  BY MaxOfRange
<1>2. Max(S) \in 1..n
  BY <1>1
<1> QED  BY <1>1, <1>2

\* A fold takes the last element of a prefix first; the shorter prefix is left.
LEMMA MaxOfPrefix ==
  ASSUME NEW i \in Nat, i > 0
  PROVE  Max(1..i) = i /\ (1..i) \ {i} = 1..(i - 1) /\ 1..i # {}
<1>1. i \in 1..i /\ 1..i \in SUBSET (1..i)
  OBVIOUS
<1>2. Max(1..i) = i
  BY <1>1, MaxIsLast
<1> QED  BY <1>1, <1>2

\* A fold from the left over n elements, of which F[i] is what it does with the
\* i-th: the recursive function of the library's fold, what such a function must
\* satisfy at least, and the values of a loop.
Iterates(iter, n, A, base, F) ==
  /\ iter \in [SUBSET (1..n) -> A]
  /\ \A s \in SUBSET (1..n) :
       iter[s] = IF s = {} THEN base ELSE F[Max(s)][iter[s \ {Max(s)}]]

Recurs(iter, n, A, base, F) ==
  /\ iter[{}] = base
  /\ \A s \in SUBSET (1..n) : s # {} /\ iter[s \ {Max(s)}] \in A =>
       iter[s] = F[Max(s)][iter[s \ {Max(s)}]]

Loops(h, n, A, base, F, result) ==
  /\ h \in [0..n -> A]
  /\ h[0] = base
  /\ \A i \in 1..n : h[i] = F[i][h[i - 1]]
  /\ h[n] = result

\* The recursive function of a fold from the left exists.
LEMMA FoldExists ==
  ASSUME NEW n \in Nat, NEW A, NEW base \in A, NEW F \in [1..n -> [A -> A]]
  PROVE  \E iter : Iterates(iter, n, A, base, F)
<1> DEFINE Rec(g, k) == \A s \in SUBSET (1..k) :
                 g[s] = IF s = {} THEN base ELSE F[Max(s)][g[s \ {Max(s)}]]
           S == {k \in 0..n : \E g \in [SUBSET (1..k) -> A] : Rec(g, k)}
<1>1. 0 \in S
  <2> DEFINE first == [s \in SUBSET (1..0) |-> base]
  <2>1. first \in [SUBSET (1..0) -> A] /\ Rec(first, 0)
    OBVIOUS
  <2>2. 0 \in 0..n
    OBVIOUS
  <2> HIDE DEF first, Rec
  <2> QED  BY <2>1, <2>2
<1>2. ASSUME NEW i \in 1..n, i - 1 \in S PROVE i \in S
  <2>1. PICK g \in [SUBSET (1..(i - 1)) -> A] : Rec(g, i - 1)
    BY <1>2
  <2> DEFINE h == [s \in SUBSET (1..i) |->
                     IF i \in s THEN F[i][g[s \ {i}]] ELSE g[s]]
  <2>2. \A s \in SUBSET (1..i) : s \ {i} \in SUBSET (1..(i - 1))
    OBVIOUS
  <2>3. \A s \in SUBSET (1..i) : i \notin s => s \in SUBSET (1..(i - 1))
    OBVIOUS
  <2>4. h \in [SUBSET (1..i) -> A]
    BY <2>2, <2>3
  <2>5. ASSUME NEW s \in SUBSET (1..i), i \in s
        PROVE  h[s] = IF s = {} THEN base ELSE F[Max(s)][h[s \ {Max(s)}]]
    <3>1. Max(s) = i
      <4>1. i \in Nat
        OBVIOUS
      <4> QED  BY <2>5, <4>1, MaxIsLast
    <3>2. s \ {i} \in SUBSET (1..i) /\ i \notin s \ {i}
      OBVIOUS
    <3>3. h[s \ {i}] = g[s \ {i}]
      BY <3>2
    <3> QED  BY <2>5, <3>1, <3>3
  <2>6. ASSUME NEW s \in SUBSET (1..i), i \notin s
        PROVE  h[s] = IF s = {} THEN base ELSE F[Max(s)][h[s \ {Max(s)}]]
    <3>1. s \in SUBSET (1..(i - 1)) /\ h[s] = g[s]
      BY <2>3, <2>6
    <3>2. s \ {Max(s)} \in SUBSET (1..i) /\ i \notin s \ {Max(s)}
      BY <2>6
    <3>3. h[s \ {Max(s)}] = g[s \ {Max(s)}]
      BY <3>2
    <3> QED  BY <2>1, <3>1, <3>3
  <2>7. Rec(h, i)
    BY <2>5, <2>6
  <2> HIDE DEF h, Rec
  <2> QED  BY <2>4, <2>7
<1> HIDE DEF S
<1>3. 0..n \subseteq S
  BY <1>1, <1>2, RangeInduction
<1>4. n \in S
  BY <1>3
<1> QED  BY <1>4 DEF S, Iterates

\* What a function with the recursion of a fold returns: its values on the
\* prefixes of a sequence are those of a loop over the sequence.
LEMMA FoldLoop ==
  ASSUME NEW n \in Nat, NEW A, NEW base \in A, NEW F \in [1..n -> [A -> A]],
         NEW iter, Recurs(iter, n, A, base, F)
  PROVE  \E h : Loops(h, n, A, base, F, iter[1..n])
<1> USE DEF Recurs
<1> DEFINE S == {i \in 0..n : iter[1..i] \in A}
           h == [i \in 0..n |-> iter[1..i]]
<1>1. 0 \in S /\ iter[1..0] = base
  <2>1. 1..0 = {} /\ 0 \in 0..n
    OBVIOUS
  <2> QED  BY <2>1
<1>2. ASSUME NEW i \in 1..n, iter[1..(i - 1)] \in A
      PROVE  iter[1..i] = F[i][iter[1..(i - 1)]]
  <2>1. Max(1..i) = i /\ (1..i) \ {i} = 1..(i - 1) /\ 1..i # {}
    <3>1. i \in Nat /\ i > 0
      OBVIOUS
    <3> QED  BY <3>1, MaxOfPrefix
  <2>2. 1..i \in SUBSET (1..n)
    OBVIOUS
  <2> QED  BY <1>2, <2>1, <2>2
<1>3. ASSUME NEW i \in 1..n, i - 1 \in S PROVE i \in S
  BY <1>2, <1>3
<1> HIDE DEF S
<1>4. 0..n \subseteq S
  BY <1>1, <1>3, RangeInduction
<1>5. \A i \in 0..n : iter[1..i] \in A
  BY <1>4 DEF S
<1>6. h \in [0..n -> A] /\ h[0] = base /\ iter[1..n] = h[n]
  BY <1>1, <1>5
<1>7. \A i \in 1..n : h[i] = F[i][h[i - 1]]
  BY <1>2, <1>5
<1>8. Loops(h, n, A, base, F, iter[1..n])
  BY <1>6, <1>7 DEF Loops
<1> QED  BY <1>8

\* A turn of a loop.
LEMMA LoopStep ==
  ASSUME NEW n \in Nat, NEW A, NEW base, NEW F, NEW h, NEW result,
         Loops(h, n, A, base, F, result), NEW i \in 1..n
  PROVE  h[i - 1] \in A /\ h[i] \in A /\ h[i] = F[i][h[i - 1]]
<1>1. i - 1 \in 0..n /\ i \in 0..n
  OBVIOUS
<1> QED  BY <1>1 DEF Loops
=============================================================================
