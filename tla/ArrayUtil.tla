------------------------------ MODULE ArrayUtil ------------------------------
(***************************************************************************)
(* internal/service/util/array.go on arrays of pointers. Elements are       *)
(* compared by what they point to; a nil pointer panics as soon as it is    *)
(* compared, and only then. What a call does is the set of what it may      *)
(* return: empty if it panics.                                              *)
(***************************************************************************)
EXTENDS Naturals, Sequences, FiniteSets, SequencesExt

CONSTANT Nil  \* a nil pointer

Panic == {}

\* IsInclude and Count walk over arr up to the first element `until` says.
Compared(arr, until(_)) ==
  {i \in 1..Len(arr) : \A j \in 1..(i - 1) : ~until(arr[j])}

ComparesNil(arr, elm, until(_)) ==
  \E i \in Compared(arr, until) : Nil \in {arr[i], elm}

IsInclude(arr, elm) ==
  IF ComparesNil(arr, elm, LAMBDA e : e = elm /\ e # Nil)
    THEN Panic ELSE {Contains(arr, elm)}

Count(arr, elm) ==
  IF ComparesNil(arr, elm, LAMBDA e : FALSE)
    THEN Panic ELSE {Cardinality({i \in 1..Len(arr) : arr[i] = elm})}

\* Mutant of Include: an equal element is replaced by the one that comes last.
IncludeLast(res, elm) ==
  UNION {{IF found THEN Append(SelectSeq(r, LAMBDA e : e # elm), elm) ELSE Append(r, elm) :
            found \in IsInclude(r, elm)} : r \in res}

\* One turn of the loops of Unique, Map and AppendUnique.
Include(res, elm) ==
  UNION {{IF found THEN r ELSE Append(r, elm) : found \in IsInclude(r, elm)} : r \in res}

AppendUnique(arr, elms) == FoldLeft(Include, {arr}, elms)

\* Unique, and Map with onlyOne.
Unique(arr) == FoldLeft(Include, {<<>>}, arr)

\* Remove looks each element up in elms.
RemoveElms(arr, elms) ==
  IF \E i \in 1..Len(arr) :
       ComparesNil(elms, arr[i], LAMBDA e : e = arr[i] /\ e # Nil)
    THEN Panic
    ELSE {FoldLeft(LAMBDA res, e : IF Contains(elms, e) THEN res ELSE Append(res, e), <<>>, arr)}

-----------------------------------------------------------------------------
(* Properties *)

Values(arr) == Range(arr) \ {Nil}

Increasing(s) == \A i, j \in 1..Len(s) : i < j => s[i] < s[j]

\* Unique keeps the first of equal elements, in their order. It panics on a nil
\* pointer unless that is all there is.
UniqueKeepsFirsts(arr) ==
  /\ Unique(arr) = Panic <=> Nil \in Range(arr) /\ Len(arr) > 1
  /\ \A res \in Unique(arr) :
       /\ Range(res) = Range(arr) /\ IsInjective(res)
       /\ Increasing([i \in 1..Len(res) |-> SelectInSeq(arr, LAMBDA e : e = res[i])])

\* A search for e in arr that compares no nil pointer: there is nothing to compare,
\* no nil at all, or e in front of the first nil.
Answered(arr, e) ==
  \/ arr = <<>>
  \/ /\ e # Nil
     /\ \/ Nil \notin Range(arr)
        \/ \E i \in 1..Len(arr) : arr[i] = e /\ \A j \in 1..i : arr[j] # Nil

\* AppendUnique and Remove panic if and only if one of their searches would: those
\* of AppendUnique in what was there before, unless that is nothing; then it is as
\* Unique of what it adds.
PanicsAtNil(arr, elms) ==
  /\ AppendUnique(arr, elms) = Panic <=>
       IF arr = <<>> THEN Nil \in Range(elms) /\ Len(elms) > 1
       ELSE \E e \in Range(elms) : ~Answered(arr, e)
  /\ RemoveElms(arr, elms) = Panic <=> \E e \in Range(arr) : ~Answered(elms, e)

\* AppendUnique adds each value once and behind arr; Remove takes out all that it is
\* given, and leaves after AppendUnique what it leaves of arr alone.
AddedOnceAndRemoved(arr, elms) ==
  /\ \A left \in RemoveElms(arr, elms) : Range(left) = Range(arr) \ Range(elms)
  /\ \A res \in AppendUnique(arr, elms) :
       /\ IsPrefix(arr, res)
       /\ \A e \in Values(elms) \ Range(arr) : Count(res, e) \subseteq {1}
       /\ Values(res) = Values(arr) \cup Values(elms)
       /\ \A left \in RemoveElms(res, elms) : RemoveElms(arr, elms) = {left}
=============================================================================
