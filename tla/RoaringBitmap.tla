------------------------------ MODULE RoaringBitmap ----------------------------
(***************************************************************************)
(* RoaringBitmap of algo/roaring_bitmap.go: a set of integers in           *)
(* containers, one for each value of their high half, that hold the low    *)
(* halves in a sorted array when they are few and in a bitmap when they    *)
(* are many.  The halves have 16 bits and both thresholds are 4096 in the  *)
(* code; here they are CONSTANTS.                                          *)
(***************************************************************************)
EXTENDS Integers, Sequences, FiniteSets, SequencesExt, Functions

CONSTANTS
  Width,                   (* number of low halves                          *)
  MaxBitmapValue,          (* bound: of the integers                        *)
  ArrayToBitmapThreshold,
  BitmapToArrayThreshold,
  OtherContents            (* sets that the bitmap is combined with         *)

BitmapValues == 0 .. MaxBitmapValue
High(x) == x \div Width
Low(x) == x % Width

ASSUME RoaringBitmapAssumption ==
  /\ Width \in Nat \ {0} /\ MaxBitmapValue \in Nat
  /\ ArrayToBitmapThreshold \in Nat /\ BitmapToArrayThreshold \in Nat
  /\ OtherContents \subseteq SUBSET BitmapValues

VARIABLES
  containers,    (* of the high halves that have one, the container         *)
  contents       (* history: the set of the integers in the bitmap          *)

bitmapVars == <<containers, contents>>

--------------------------------------------------------------------------------
(* Containers.                                                             *)
ArrayOf(values) == [kind |-> "array", values |-> values, bits |-> {}]
BitmapOf(bits)  == [kind |-> "bitmap", values |-> <<>>, bits |-> bits]

IsArray(c) == c.kind = "array"

ToBitmapContainer(values) == BitmapOf(ToSet(values))
ToArrayContainer(bits) == ArrayOf(SelectSeq([i \in 1 .. Width |-> i - 1], LAMBDA x : x \in bits))

ToArray(c) == IF IsArray(c) THEN c.values ELSE ToArrayContainer(c.bits).values
ContainerSize(c) == IF IsArray(c) THEN Len(c.values) ELSE Cardinality(c.bits)

(* The binary search of arrayContainer.contains.                           *)
BinarySearch(values, x) ==
  LET found[left \in 1 .. Len(values) + 1, right \in 0 .. Len(values)] ==
        LET mid == (left + right) \div 2
        IN  /\ left <= right
            /\ \/ values[mid] = x
               \/ values[mid] < x /\ found[mid + 1, right]
               \/ values[mid] > x /\ found[left, mid - 1]
  IN  found[1, Len(values)]

Has(c, x) == IF IsArray(c) THEN BinarySearch(c.values, x) ELSE x \in c.bits

(* An array that may have become too long; a bitmap that may have become   *)
(* too sparse.                                                             *)
DenseArray(values) ==
  IF Len(values) > ArrayToBitmapThreshold THEN ToBitmapContainer(values) ELSE ArrayOf(values)
SparseBitmap(bits) ==
  IF Cardinality(bits) < BitmapToArrayThreshold THEN ToArrayContainer(bits) ELSE BitmapOf(bits)

AddLow(c, x) ==
  LET smaller == SelectSeq(c.values, LAMBDA v : v < x)
      larger == SubSeq(c.values, Len(smaller) + 1, Len(c.values))
  IN  IF ~IsArray(c) THEN BitmapOf(c.bits \cup {x})
      ELSE IF Has(c, x) THEN c
      ELSE DenseArray(smaller \o <<x>> \o larger)

(* Mutant of RemoveLow: a bitmap stays a bitmap. *)
RemoveLowKeepsBitmap(c, x) ==
  IF IsArray(c) THEN ArrayOf(SelectSeq(c.values, LAMBDA v : v # x)) ELSE BitmapOf(c.bits \ {x})

RemoveLow(c, x) ==
  IF IsArray(c) THEN ArrayOf(SelectSeq(c.values, LAMBDA v : v # x))
                ELSE SparseBitmap(c.bits \ {x})

(* The merge of two sorted arrays that keeps what only the first has, what *)
(* both have and what only the second has, or some of these.               *)
MergeArrays(a, b, keep) ==
  LET Kept(case, x) == IF case \in keep THEN <<x>> ELSE <<>>
      merged[i \in 1 .. Len(a) + 1, j \in 1 .. Len(b) + 1] ==
        IF i > Len(a) /\ j > Len(b) THEN <<>>
        ELSE IF j > Len(b) \/ (i <= Len(a) /\ a[i] < b[j])
        THEN Kept("first", a[i]) \o merged[i + 1, j]
        ELSE IF i > Len(a) \/ a[i] > b[j]
        THEN Kept("second", b[j]) \o merged[i, j + 1]
        ELSE Kept("both", a[i]) \o merged[i + 1, j + 1]
  IN  merged[1, 1]

UnionArrays(a, b) == DenseArray(MergeArrays(a, b, {"first", "both", "second"}))
IntersectArrays(a, b) == ArrayOf(MergeArrays(a, b, {"both"}))
SubtractArrays(a, b)  == ArrayOf(MergeArrays(a, b, {"first"}))

(* A bitmap with any container.  An array in an intersection is filtered.  *)
UnionWithBitmap(c, d) == BitmapOf(c.bits \cup ToSet(ToArray(d)))
IntersectWithBitmap(c, d) ==
  IF IsArray(d) THEN ArrayOf(SelectSeq(d.values, LAMBDA v : Has(c, v)))
                ELSE SparseBitmap(c.bits \cap d.bits)
SubtractFromBitmap(c, d) == SparseBitmap(c.bits \ ToSet(ToArray(d)))

UnionContainers(c, d) ==
  IF IsArray(c) /\ IsArray(d) THEN UnionArrays(c.values, d.values)
  ELSE IF IsArray(c) THEN UnionWithBitmap(d, c) ELSE UnionWithBitmap(c, d)

IntersectContainers(c, d) ==
  IF IsArray(c) /\ IsArray(d) THEN IntersectArrays(c.values, d.values)
  ELSE IF IsArray(c) THEN IntersectWithBitmap(d, c) ELSE IntersectWithBitmap(c, d)

SubtractContainers(c, d) ==
  IF IsArray(c) /\ IsArray(d) THEN SubtractArrays(c.values, d.values)
  ELSE IF IsArray(c) THEN ArrayOf(SelectSeq(c.values, LAMBDA v : ~Has(d, v)))
  ELSE SubtractFromBitmap(c, d)

--------------------------------------------------------------------------------
(* Bitmaps: functions from the high halves that have a container.          *)
EmptyBitmap == [h \in {} |-> ArrayOf(<<>>)]

HasContainer(b, h) == h \in DOMAIN b
NonEmpty(b) == Restrict(b, {h \in DOMAIN b : ContainerSize(b[h]) > 0})

WithValue(b, x) ==
  [h \in DOMAIN b \cup {High(x)} |->
     IF h # High(x) THEN b[h]
     ELSE IF HasContainer(b, h) THEN AddLow(b[h], Low(x)) ELSE ArrayOf(<<Low(x)>>)]

WithoutValue(b, x) ==
  NonEmpty([h \in DOMAIN b |-> IF h = High(x) THEN RemoveLow(b[h], Low(x)) ELSE b[h]])

HasValue(b, x) == HasContainer(b, High(x)) /\ Has(b[High(x)], Low(x))
BitmapSize(b) ==
  FoldFunction(LAMBDA c, total : ContainerSize(c) + total, 0, b)

UnionBitmaps(b, c) ==
  [h \in DOMAIN b \cup DOMAIN c |->
     IF ~HasContainer(b, h) THEN c[h]
     ELSE IF HasContainer(c, h) THEN UnionContainers(b[h], c[h]) ELSE b[h]]

IntersectBitmaps(b, c) ==
  NonEmpty([h \in DOMAIN b \cap DOMAIN c |-> IntersectContainers(b[h], c[h])])

SubtractBitmaps(b, c) ==
  NonEmpty([h \in DOMAIN b |-> IF HasContainer(c, h) THEN SubtractContainers(b[h], c[h])
                                                     ELSE b[h]])

(* ToArray of the bitmap: by container, in the order of the high halves.   *)
BitmapToArray(b) ==
  LET ascending == SortSeq(SetToSeq(DOMAIN b), LAMBDA h, i : h < i)
      ValuesIn(h) == [i \in 1 .. Len(ToArray(b[h])) |-> h * Width + ToArray(b[h])[i]]
  IN  FlattenSeq([i \in 1 .. Len(ascending) |-> ValuesIn(ascending[i])])

--------------------------------------------------------------------------------
BitmapInit == containers = EmptyBitmap /\ contents = {}

AddValue(x)    == containers' = WithValue(containers, x) /\ contents' = contents \cup {x}
RemoveValue(x) == containers' = WithoutValue(containers, x) /\ contents' = contents \ {x}

RoaringNext == \E x \in BitmapValues : AddValue(x) \/ RemoveValue(x)

--------------------------------------------------------------------------------
(* A bitmap holds just the given integers: it contains them, counts them   *)
(* and lists them in order, and no container is empty, too long for an     *)
(* array or too sparse for a bitmap.                                       *)
Represents(b, values) ==
  LET list == BitmapToArray(b)
  IN  /\ \A x \in BitmapValues : HasValue(b, x) = (x \in values)
      /\ BitmapSize(b) = Cardinality(values)
      /\ ToSet(list) = values
      /\ \A i, j \in DOMAIN list : i < j => list[i] < list[j]
      /\ \A h \in DOMAIN b :
           /\ ContainerSize(b[h]) > 0
           /\ IF IsArray(b[h]) THEN ContainerSize(b[h]) <= ArrayToBitmapThreshold
                               ELSE ContainerSize(b[h]) >= BitmapToArrayThreshold

(* The bitmap that values were added to one after the other.               *)
BitmapFrom(values) == FoldLeft(WithValue, EmptyBitmap, SetToSeq(values))

(* However a bitmap came about, it holds what was added and not removed,   *)
(* and so do its union, intersection and difference with another one,      *)
(* whatever containers meet: never is an integer lost, kept or held twice  *)
(* where an array becomes a bitmap or a bitmap an array.                   *)
BitmapExact ==
  /\ Represents(containers, contents)
  /\ \A values \in OtherContents :
       LET other == BitmapFrom(values)
       IN  /\ Represents(UnionBitmaps(containers, other), contents \cup values)
           /\ Represents(IntersectBitmaps(containers, other), contents \cap values)
           /\ Represents(SubtractBitmaps(containers, other), contents \ values)
           /\ Represents(SubtractBitmaps(other, containers), values \ contents)
================================================================================
