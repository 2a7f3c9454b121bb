------------------------------ MODULE RedBlackTree -----------------------------
(***************************************************************************)
(* The tree of algo/red_black_tree.go as operators on its nodes.  A node   *)
(* is known by its key: OrderedSet, the tree's user, inserts no key twice. *)
(* A tree is its root and, of each node, its children, its parent and its  *)
(* colour; the sentinel rbt.Nil is a node, with a parent that Delete sets. *)
(*                                                                         *)
(* What the code writes once for the left and once for the right is        *)
(* written once here, for a side and the other one.                        *)
(***************************************************************************)
EXTENDS Integers, Sequences

CONSTANT Elements    (* keys                                                *)

ASSUME RedBlackTreeAssumption == Elements \subseteq Nat \ {0}

NilNode == 0
TreeNodes == Elements \cup {NilNode}
Sides == {"left", "right"}
OtherSide(d) == IF d = "left" THEN "right" ELSE "left"

NewRedBlackTree ==
  [root |-> NilNode,
   child |-> [d \in Sides |-> [n \in Elements |-> NilNode]],
   parent |-> [n \in TreeNodes |-> NilNode],
   red |-> [n \in TreeNodes |-> FALSE]]

Trees == [root : TreeNodes, child : [Sides -> [Elements -> TreeNodes]],
          parent : [TreeNodes -> TreeNodes], red : [TreeNodes -> BOOLEAN]]

SideOf(t, n) == IF t.child["left"][t.parent[n]] = n THEN "left" ELSE "right"

(* The link from u's parent to u becomes one to v.                         *)
Relink(t, u, v) ==
  IF t.parent[u] = NilNode THEN [t EXCEPT !.root = v]
  ELSE [t EXCEPT !.child[SideOf(t, u)][t.parent[u]] = v]

(* leftRotate and rightRotate: x goes down to side d.                      *)
Rotate(t, x, d) ==
  LET up == OtherSide(d)
      y == t.child[up][x]
      moved == t.child[d][y]
      linked == Relink(t, x, y)
  IN  [linked EXCEPT
         !.child[up][x] = moved,
         !.child[d][y] = x,
         !.parent = [n \in DOMAIN @ |-> IF n = x THEN y
                                        ELSE IF n = y THEN t.parent[x]
                                        ELSE IF n = moved /\ n # NilNode THEN x
                                        ELSE @[n]]]

Paint(t, reds, blacks) ==
  [t EXCEPT !.red = [n \in DOMAIN @ |-> IF n \in reds THEN TRUE
                                        ELSE IF n \in blacks THEN FALSE ELSE @[n]]]

(* A red parent is not the root, so that there is a grandparent.           *)
InsertFixup(inserted, node) ==
  LET fix[t \in Trees, z \in TreeNodes] ==
        LET p == t.parent[z]
            g == t.parent[p]
            d == SideOf(t, p)
            uncle == t.child[OtherSide(d)][g]
            inner == t.child[OtherSide(d)][p] = z
            straight == IF inner THEN Rotate(t, p, d) ELSE t
            lower == IF inner THEN p ELSE z
            upper == straight.parent[lower]
        IN  IF ~t.red[p] THEN Paint(t, {}, {t.root})
            ELSE IF t.red[uncle] THEN fix[Paint(t, {g}, {p, uncle}), g]
            ELSE fix[Rotate(Paint(straight, {g}, {upper}), g, OtherSide(d)), lower]
  IN  fix[inserted, node]

(* The side on which a search for key goes on.                             *)
Towards(t, key, x) == t.child[IF key < x THEN "left" ELSE "right"][x]

(* The last node of a search that finds nothing.                           *)
LeafFor(t, key) ==
  LET leaf[x \in TreeNodes, y \in TreeNodes] ==
        IF x = NilNode THEN y ELSE leaf[Towards(t, key, x), x]
  IN  leaf[t.root, NilNode]

TreeInsert(t, key) ==
  LET y == LeafFor(t, key)
      fresh == [t EXCEPT !.child = [d \in Sides |-> [@[d] EXCEPT ![key] = NilNode]],
                         !.parent[key] = y, !.red[key] = TRUE]
      placed == IF y = NilNode THEN [fresh EXCEPT !.root = key]
                ELSE [fresh EXCEPT !.child[IF key < y THEN "left" ELSE "right"][y] = key]
  IN  InsertFixup(placed, key)

TreeSearch(t, key) ==
  LET found[x \in TreeNodes] ==
        x # NilNode /\ (x = key \/ found[Towards(t, key, x)])
  IN  found[t.root]

--------------------------------------------------------------------------------
Transplant(t, u, v) == [Relink(t, u, v) EXCEPT !.parent[v] = t.parent[u]]

Minimum(t, x) ==
  LET least[n \in TreeNodes] ==
        IF t.child["left"][n] = NilNode THEN n ELSE least[t.child["left"][n]]
  IN  least[x]

(* Mutant of DeleteFixup: the sibling keeps its colour in the last case. *)
DeleteFixupKeepsColour(rest, node) ==
  LET fix[t \in Trees, x \in TreeNodes] ==
        LET p == t.parent[x]
            d == SideOf(t, x)
            far == OtherSide(d)
            w == t.child[far][p]
        IN  IF x = t.root \/ t.red[x] THEN Paint(t, {}, {x})
            ELSE LET t1 == IF t.red[w] THEN Rotate(Paint(t, {p}, {w}), p, d) ELSE t
                     w1 == t1.child[far][p]
                 IN  IF ~t1.red[t1.child["left"][w1]] /\ ~t1.red[t1.child["right"][w1]]
                     THEN fix[Paint(t1, {w1}, {}), p]
                     ELSE Paint(Rotate(Paint(t1, {}, {p, t1.child[far][w1]}), p, d),
                                {}, {t1.root})
  IN  fix[rest, node]

(* x, which may be the sentinel, is one black node short.                  *)
DeleteFixup(rest, node) ==
  LET fix[t \in Trees, x \in TreeNodes] ==
        LET p == t.parent[x]
            d == SideOf(t, x)
            far == OtherSide(d)
            w == t.child[far][p]
            t1 == IF t.red[w] THEN Rotate(Paint(t, {p}, {w}), p, d) ELSE t
            w1 == t1.child[far][p]
            t2 == IF ~t1.red[t1.child[far][w1]]
                  THEN Rotate(Paint(t1, {w1}, {t1.child[d][w1]}), w1, far) ELSE t1
            w2 == t2.child[far][p]
            t3 == Rotate(Paint([t2 EXCEPT !.red[w2] = t2.red[p]], {},
                               {p, t2.child[far][w2]}), p, d)
        IN  IF x = t.root \/ t.red[x] THEN Paint(t, {}, {x})
            ELSE IF ~t1.red[t1.child["left"][w1]] /\ ~t1.red[t1.child["right"][w1]]
            THEN fix[Paint(t1, {w1}, {}), p]
            ELSE Paint(t3, {}, {t3.root})
  IN  fix[rest, node]

(* The node z is garbage when Delete returns: it is made like new.         *)
Discard(t, z) ==
  [t EXCEPT !.child = [d \in Sides |-> [@[d] EXCEPT ![z] = NilNode]],
            !.parent[z] = NilNode, !.red[z] = FALSE]

TreeDelete(t, z) ==
  LET l == t.child["left"][z]
      r == t.child["right"][z]
      y == Minimum(t, r)
      x == t.child["right"][y]
      cut == IF t.parent[y] = z THEN [t EXCEPT !.parent[x] = y]
             ELSE LET s == Transplant(t, y, x)
                  IN  [s EXCEPT !.child["right"][y] = s.child["right"][z],
                                !.parent[s.child["right"][z]] = y]
      moved == [Transplant(cut, z, y) EXCEPT !.child["left"][y] = l, !.parent[l] = y,
                                             !.red[y] = t.red[z]]
      (* The tree without z, the node that may be short, and whether it is. *)
      rest == IF l = NilNode THEN <<Transplant(t, z, r), r, ~t.red[z]>>
              ELSE IF r = NilNode THEN <<Transplant(t, z, l), l, ~t.red[z]>>
              ELSE <<moved, x, ~t.red[y]>>
  IN  Discard(IF rest[3] THEN DeleteFixup(rest[1], rest[2]) ELSE rest[1], z)

InOrderTraversal(t) ==
  LET inOrder[n \in TreeNodes] ==
        IF n = NilNode THEN <<>>
        ELSE inOrder[t.child["left"][n]] \o <<n>> \o inOrder[t.child["right"][n]]
  IN  inOrder[t.root]

--------------------------------------------------------------------------------
(* Black nodes on the way down from n, if it is the same on every way;     *)
(* otherwise -1.                                                           *)
BlackHeight(t, n) ==
  LET height[m \in TreeNodes] ==
        IF m = NilNode THEN 0
        ELSE LET l == height[t.child["left"][m]]
                 r == height[t.child["right"][m]]
             IN  IF l = -1 \/ l # r THEN -1 ELSE l + (IF t.red[m] THEN 0 ELSE 1)
  IN  height[n]

(* What makes every search, insertion and deletion take logarithmic time.  *)
IsRedBlack(t) ==
  LET nodes == {n \in Elements : TreeSearch(t, n)}
  IN  /\ ~t.red[NilNode] /\ ~t.red[t.root]
      /\ \A n \in nodes, d \in Sides :
           LET c == t.child[d][n]
           IN  c # NilNode => t.parent[c] = n /\ ~(t.red[n] /\ t.red[c])
      /\ t.root # NilNode => t.parent[t.root] = NilNode
      /\ BlackHeight(t, t.root) # -1
================================================================================
