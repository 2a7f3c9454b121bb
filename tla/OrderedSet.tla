------------------------------- MODULE OrderedSet ------------------------------
(***************************************************************************)
(* OrderedSet of algo/ordered_set.go: a set in a red-black tree and its    *)
(* size.  The algebra of sets is built from ToSlice, Contains and Add.     *)
(***************************************************************************)
EXTENDS RedBlackTree, FiniteSets, SequencesExt

CONSTANT Others    (* the sets a set is combined with                      *)

ASSUME OrderedSetAssumption == Others \subseteq SUBSET Elements

VARIABLES
  tree,       (* the set: the tree and the size                             *)
  reference   (* history: the set of the elements added and not removed     *)

setVars == <<tree, reference>>

NewOrderedSet == [tree |-> NewRedBlackTree, size |-> 0]
Contains1(s, e) == TreeSearch(s.tree, e)
ToSlice(s) == InOrderTraversal(s.tree)

Add1(s, e) ==
  IF Contains1(s, e) THEN s ELSE [tree |-> TreeInsert(s.tree, e), size |-> s.size + 1]

Remove1(s, e) ==
  IF Contains1(s, e) THEN [tree |-> TreeDelete(s.tree, e), size |-> s.size - 1] ELSE s

(* AddAll, and the loops of the operations that build a set.               *)
AddAll(s, elements) == FoldLeft(Add1, s, elements)

Union(s, other) == AddAll(AddAll(NewOrderedSet, ToSlice(s)), ToSlice(other))

Intersection(s, other) ==
  LET smaller == IF other.size < s.size THEN other ELSE s
      larger == IF other.size < s.size THEN s ELSE other
  IN  AddAll(NewOrderedSet, SelectSeq(ToSlice(smaller), LAMBDA e : Contains1(larger, e)))

Difference(s, other) ==
  AddAll(NewOrderedSet, SelectSeq(ToSlice(s), LAMBDA e : ~Contains1(other, e)))

SymmetricDifference(s, other) ==
  AddAll(Difference(s, other), SelectSeq(ToSlice(other), LAMBDA e : ~Contains1(s, e)))

IsSubset(s, other) ==
  s.size <= other.size /\ \A e \in ToSet(ToSlice(s)) : Contains1(other, e)

SetEquals(s, other) == s.size = other.size /\ IsSubset(s, other)

--------------------------------------------------------------------------------
OrderedSetInit == tree = NewOrderedSet /\ reference = {}

AddElement(e)    == tree' = Add1(tree, e) /\ reference' = reference \cup {e}
RemoveElement(e) == tree' = Remove1(tree, e) /\ reference' = reference \ {e}
ClearSet         == tree' = NewOrderedSet /\ reference' = {}

OrderedSetNext ==
  \/ \E e \in Elements : AddElement(e) \/ RemoveElement(e)
  \/ ClearSet

--------------------------------------------------------------------------------
Sorted == [S \in SUBSET Elements |->
             [i \in 1 .. Cardinality(S) |->
                CHOOSE e \in S : Cardinality({f \in S : f < e}) = i - 1]]
SortedSlice(S) == Sorted[S]
Is(s, S) == ToSlice(s) = SortedSlice(S) /\ s.size = Cardinality(S)

OtherSet == [S \in Others |-> AddAll(NewOrderedSet, SortedSlice(S))]

(* After any insertions and deletions the tree is balanced, holds exactly  *)
(* the elements of the set in their order, and counts them; and with other *)
(* sets the operations give what they give on sets.                        *)
TreeExact ==
  /\ IsRedBlack(tree.tree) /\ Is(tree, reference)
  /\ \A S \in Others :
       LET other == OtherSet[S]
       IN  /\ Is(Union(tree, other), reference \cup S)
           /\ Is(Intersection(tree, other), reference \cap S)
           /\ Is(Difference(tree, other), reference \ S)
           /\ Is(SymmetricDifference(tree, other), (reference \cup S) \ (reference \cap S))
           /\ IsSubset(tree, other) = (reference \subseteq S)
           /\ SetEquals(tree, other) = (reference = S)
================================================================================
