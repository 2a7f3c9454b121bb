-------------------------------- MODULE UnionFind ------------------------------
(***************************************************************************)
(* UnionFind of algo/union_find.go: union by rank, path compression.       *)
(* Connected compresses paths too, but under a read lock: several of its   *)
(* calls rewrite the parents at the same time, each load and each store a  *)
(* step.  Union and Find hold the lock for writing and are one step.       *)
(***************************************************************************)
EXTENDS Integers, FiniteSets

CONSTANTS
  NumElements,
  Askers         (* goroutines that call Connected                          *)

ASSUME UnionFindAssumption == NumElements \in Nat

Members == 0 .. NumElements - 1
NoMember == -1

VARIABLES
  ufParent, ufRank, ufCount,
  asker,         (* of each asker: at, the right answer, the element that   *)
                 (* is still to be found, the first root, and the locals p, *)
                 (* root and newp of findWithoutLocking                     *)
  blocks,        (* history: of each element, the set it is in              *)
  misled         (* history: an answer of Connected was wrong               *)

unionVars == <<ufParent, ufRank, ufCount, asker, blocks, misled>>

NotAsking == [at |-> "idle", same |-> FALSE, second |-> NoMember, first |-> NoMember,
              p |-> NoMember, root |-> NoMember, newp |-> NoMember]

UnionFindInit ==
  /\ ufParent = [m \in Members |-> m]
  /\ ufRank = [m \in Members |-> 0]
  /\ ufCount = NumElements
  /\ asker = [a \in Askers |-> NotAsking]
  /\ blocks = [m \in Members |-> {m}] /\ misled = FALSE

(* The elements on the way from m to its root.  A way is not longer than   *)
(* the number of elements.                                                 *)
Way[i \in 0 .. NumElements] ==
  [m \in Members |-> IF i = 0 \/ ufParent[m] = m THEN {m}
                     ELSE {m} \cup Way[i - 1][ufParent[m]]]
WayFrom(m) == Way[NumElements][m]
RootOf(m) == CHOOSE r \in WayFrom(m) : ufParent[r] = r \/ \A n \in WayFrom(m) : ufParent[n] # n

Compressed(ps) ==
  [m \in Members |-> IF \E p \in ps : m \in WayFrom(p) /\ ufParent[m] # m
                     THEN RootOf(m) ELSE ufParent[m]]

WriteLocks == \A a \in Askers : asker[a].at = "idle"

--------------------------------------------------------------------------------
Find(p) ==
  /\ WriteLocks /\ ufParent[p] # p
  /\ ufParent' = Compressed({p})
  /\ UNCHANGED <<ufRank, ufCount, asker, blocks, misled>>

Merge(p, q) ==
  blocks' = [m \in Members |-> IF m \in blocks[p] \cup blocks[q] THEN blocks[p] \cup blocks[q]
                               ELSE blocks[m]]

(* Mutant of UniteMembers: the lower rank is not the one that is linked. *)
UniteMembersAnyway(p, q) ==
  LET rootP == RootOf(p)
      rootQ == RootOf(q)
      flat == Compressed({p, q})
  IN  /\ WriteLocks
      /\ Merge(p, q)
      /\ ufParent' = IF rootP = rootQ THEN flat ELSE [flat EXCEPT ![rootP] = rootQ]
      /\ ufRank' = IF rootP # rootQ /\ ufRank[rootP] = ufRank[rootQ]
                   THEN [ufRank EXCEPT ![rootQ] = @ + 1] ELSE ufRank
      /\ ufCount' = IF rootP = rootQ THEN ufCount ELSE ufCount - 1
      /\ UNCHANGED <<asker, misled>>

(* Union(p, q).                                                            *)
UniteMembers(p, q) ==
  LET rootP == RootOf(p)
      rootQ == RootOf(q)
      flat == Compressed({p, q})
  IN  /\ WriteLocks
      /\ Merge(p, q)
      /\ ufParent' = IF rootP = rootQ THEN flat
                     ELSE IF ufRank[rootP] < ufRank[rootQ] THEN [flat EXCEPT ![rootP] = rootQ]
                     ELSE [flat EXCEPT ![rootQ] = rootP]
      /\ ufRank' = IF rootP # rootQ /\ ufRank[rootP] = ufRank[rootQ]
                   THEN [ufRank EXCEPT ![rootP] = @ + 1] ELSE ufRank
      /\ ufCount' = IF rootP = rootQ THEN ufCount ELSE ufCount - 1
      /\ UNCHANGED <<asker, misled>>

--------------------------------------------------------------------------------
AskerOnly == UNCHANGED <<ufRank, ufCount, blocks>>

(* Connected(p, q): RLock, findWithoutLocking(p), findWithoutLocking(q).    *)
(* (Of an element and itself it is a find and nothing more.)               *)
StartConnected(a, p, q) ==
  /\ asker[a].at = "idle" /\ p # q
  /\ asker' = [asker EXCEPT ![a] = [NotAsking EXCEPT !.at = "climb", !.same = q \in blocks[p],
                                                     !.second = q, !.p = p, !.root = p]]
  /\ UNCHANGED <<ufParent, misled>> /\ AskerOnly

Climb(a) ==
  LET s == asker[a]
      up == ufParent[s.root]
  IN  /\ s.at = "climb"
      /\ asker' = [asker EXCEPT ![a] = IF up = s.root THEN [s EXCEPT !.at = "load"]
                                                     ELSE [s EXCEPT !.root = up]]
      /\ UNCHANGED <<ufParent, misled>> /\ AskerOnly

LoadParent(a) ==
  LET s == asker[a]
  IN  /\ s.at = "load" /\ s.p # s.root
      /\ asker' = [asker EXCEPT ![a] = [s EXCEPT !.at = "store", !.newp = ufParent[s.p]]]
      /\ UNCHANGED <<ufParent, misled>> /\ AskerOnly

StoreParent(a) ==
  LET s == asker[a]
  IN  /\ s.at = "store"
      /\ ufParent' = [ufParent EXCEPT ![s.p] = s.root]
      /\ asker' = [asker EXCEPT ![a] = [s EXCEPT !.at = "load", !.p = s.newp, !.newp = NoMember]]
      /\ UNCHANGED misled /\ AskerOnly

FindNextOrAnswer(a) ==
  LET s == asker[a]
      q == s.second
  IN  /\ s.at = "load" /\ s.p = s.root
      /\ IF s.first = NoMember
         THEN /\ asker' = [asker EXCEPT ![a] = [s EXCEPT !.at = "climb", !.first = s.root,
                                                   !.second = NoMember, !.p = q, !.root = q]]
              /\ UNCHANGED misled
         ELSE /\ asker' = [asker EXCEPT ![a] = NotAsking]
              /\ misled' = (misled \/ (s.first = s.root) # s.same)
      /\ UNCHANGED ufParent /\ AskerOnly

UnionFindNext ==
  \/ \E p, q \in Members : UniteMembers(p, q) \/ \E a \in Askers : StartConnected(a, p, q)
  \/ \E p \in Members : Find(p)
  \/ \E a \in Askers : Climb(a) \/ LoadParent(a) \/ StoreParent(a) \/ FindNextOrAnswer(a)

--------------------------------------------------------------------------------
(* However finds and answers rewrite the parents, two elements have the    *)
(* same root exactly if unions have put them together, the sets are        *)
(* counted, every answer of Connected is right, and ranks rise towards the *)
(* root, which keeps the ways short.                                       *)
PartitionExact ==
  /\ ~misled
  /\ \A p, q \in Members : (RootOf(p) = RootOf(q)) = (q \in blocks[p])
  /\ ufCount = Cardinality({blocks[m] : m \in Members})
  /\ \A m \in Members : ufParent[m] # m => ufRank[m] < ufRank[ufParent[m]]
================================================================================
