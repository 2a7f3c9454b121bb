------------------------- MODULE RedisLimiters_proofs --------------------------
(***************************************************************************)
(* Proofs about the Redis limiters, for any requests, shards, callers and  *)
(* sizes: a request that waits has one place (OnePlace), the map of v3     *)
(* keeps what is fetched and what came too late (ResultsKept), and what is *)
(* allowed is covered by capacity and time (WithinLimit).                  *)
(*                                                                         *)
(* None is inductive by itself.  SendResults answers the requests of a     *)
(* batch only if the shard has a verdict for each of them that it has not  *)
(* passed over, and passing over is safe only because the request has      *)
(* given up (ShardExact).  A request not made or answered has no place,    *)
(* and one that does not wait has no answer (RequestExact).                *)
(*                                                                         *)
(* The limit has an invariant for each use of the bucket (LimitInv): for   *)
(* the transactions of v3 DirectInv, for scripts ScriptInv, for those that *)
(* the batches of v2 queue QueuesInv, and for the pipelines of v3 and v4   *)
(* PipesInv, which counts what shards have promised but not yet written,   *)
(* and the time that only some of them know to be refilled.  The sums over *)
(* requests and shards that it takes come first.                           *)
(***************************************************************************)
EXTENDS RedisLimiters, SequenceTheorems, WellFoundedInduction, TLAPS

Fields == {"tokens", "last_ns", "current"}
Hashes == UNION {[D -> Int] : D \in SUBSET Fields}

Item     == [id : Requests, n : Asks]
Verdicts == {"allowed", "denied", "error", "none"}
Command  == [field : {"tokens", "last_ns", "script", "none"}, by : Int]

BucketTypeOK == hash \in Hashes /\ clock \in Nat

DirectTypeOK ==
  /\ ask \in [Callers -> Int] /\ now \in [Callers -> Nat]
  /\ seen \in [Callers -> Hashes]

BatchTypeOK ==
  /\ version \in {"v2", "v3", "v4"} /\ currentIndex \in Shards
  /\ pc \in [Requests -> {"new", "wait", "done", "gone"}]
  /\ reply \in [Requests -> Verdicts]
  /\ results \subseteq Requests
  /\ queue \in [Shards -> Seq(Item)] /\ batch \in [Shards -> Seq(Item)]
  /\ stage \in [Shards -> {"idle", "write", "send", "exited"}]
  /\ verdict \in [Shards -> Seq(Verdicts)]
  /\ pipe \in [Shards -> Seq(Command)]

(* A shard has nothing while it is idle; to send, a verdict on each of its *)
(* requests; and while Redis runs its pipeline either these already or,    *)
(* with scripts, a verdict or a command for each.  Whom it passes over     *)
(* does not wait.                                                          *)
ShardExact(s) ==
  /\ stage[s] \in {"idle", "exited"} =>
       batch[s] = <<>> /\ verdict[s] = <<>> /\ pipe[s] = <<>>
  /\ stage[s] = "send" => pipe[s] = <<>> /\ Len(verdict[s]) = Len(batch[s])
  /\ stage[s] = "write" =>
       IF version = "v2"
       THEN /\ \A i \in 1 .. Len(pipe[s]) : pipe[s][i].field \in {"script", "none"}
            /\ Len(verdict[s]) + Len(pipe[s]) = Len(batch[s])
       ELSE /\ \A i \in 1 .. Len(pipe[s]) : pipe[s][i].field \in {"tokens", "last_ns"}
            /\ Len(verdict[s]) = Len(batch[s])
  /\ \A i \in 1 .. Len(verdict[s]) :
       verdict[s][i] = "none" => i <= Len(batch[s]) /\ pc[batch[s][i].id] # "wait"

(* Request r is in list l, and in it once at most.                         *)
In(l, r)   == \E i \in 1 .. Len(l) : l[i].id = r
Once(l, r) == \A i, j \in 1 .. Len(l) : l[i].id = r /\ l[j].id = r => i = j

(* With queues q and batches b, it is at shard s, nowhere, or in one place *)
(* at most.                                                                *)
AtShard(q, b, s, r) == In(q[s], r) \/ In(b[s], r)
Nowhere(q, b, r)    == \A s \in Shards : ~AtShard(q, b, s, r)
AtMostOne(q, b, r)  ==
  /\ \A s \in Shards : Once(q[s], r) /\ Once(b[s], r) /\ ~(In(q[s], r) /\ In(b[s], r))
  /\ \A s, t \in Shards : AtShard(q, b, s, r) /\ AtShard(q, b, t, r) => s = t

RequestExact(r) ==
  /\ AtMostOne(queue, batch, r)
  /\ pc[r] \in {"new", "done"} => Nowhere(queue, batch, r)
  /\ pc[r] = "wait" => (Nowhere(queue, batch, r) <=> reply[r] # "none")
  /\ pc[r] # "wait" => reply[r] = "none"
  /\ IF pc[r] = "wait" /\ reply[r] # "none" THEN version = "v3" => r \in results
     ELSE r \in results => pc[r] = "gone"

TypeInv  == BucketTypeOK /\ DirectTypeOK /\ BatchTypeOK
ShardInv == \A s \in Shards : ShardExact(s)
RequestInv == \A r \in Requests : RequestExact(r)

IInv == TypeInv /\ ShardInv /\ RequestInv

--------------------------------------------------------------------------------
(* The places of a request are where the lists have it.                    *)
LEMMA PlaceIs ==
  ASSUME NEW r
  PROVE  \A p : p \in Places(r) <=>
           \E s \in Shards :
             \/ \E i \in 1 .. Len(queue[s]) : queue[s][i].id = r /\ p = <<"queue", s, i>>
             \/ \E i \in 1 .. Len(batch[s]) : batch[s][i].id = r /\ p = <<"batch", s, i>>
<1> QED BY DEF Places

(* A request has one place at most if it is in one list, once; and none if *)
(* it is in none.                                                          *)
LEMMA PlacesAre ==
  ASSUME NEW r
  PROVE  /\ AtMostOne(queue, batch, r) => \A p, q \in Places(r) : p = q
         /\ Nowhere(queue, batch, r) <=> Places(r) = {}
<1>1. ASSUME AtMostOne(queue, batch, r), NEW p \in Places(r), NEW q \in Places(r)
      PROVE  p = q
  <2>1. PICK s \in Shards :
          \/ \E i \in 1 .. Len(queue[s]) : queue[s][i].id = r /\ p = <<"queue", s, i>>
          \/ \E i \in 1 .. Len(batch[s]) : batch[s][i].id = r /\ p = <<"batch", s, i>>
    BY <1>1, PlaceIs
  <2>2. PICK t \in Shards :
          \/ \E i \in 1 .. Len(queue[t]) : queue[t][i].id = r /\ q = <<"queue", t, i>>
          \/ \E i \in 1 .. Len(batch[t]) : batch[t][i].id = r /\ q = <<"batch", t, i>>
    BY <1>1, PlaceIs
  <2>3. s = t
    BY <1>1, <2>1, <2>2 DEF AtMostOne, AtShard, In
  <2>4. Once(queue[s], r) /\ Once(batch[s], r) /\ ~(In(queue[s], r) /\ In(batch[s], r))
    BY <1>1, <2>1 DEF AtMostOne
  <2>5. CASE In(queue[s], r)
    <3>1. ~In(batch[s], r)
      BY <2>4, <2>5
    <3>2. \E i \in 1 .. Len(queue[s]) : queue[s][i].id = r /\ p = <<"queue", s, i>>
      BY <2>1, <3>1 DEF In
    <3>3. \E i \in 1 .. Len(queue[s]) : queue[s][i].id = r /\ q = <<"queue", s, i>>
      BY <2>2, <2>3, <3>1 DEF In
    <3> QED BY <2>4, <3>2, <3>3 DEF Once
  <2>6. CASE ~In(queue[s], r)
    <3>1. \E i \in 1 .. Len(batch[s]) : batch[s][i].id = r /\ p = <<"batch", s, i>>
      BY <2>1, <2>6 DEF In
    <3>2. \E i \in 1 .. Len(batch[s]) : batch[s][i].id = r /\ q = <<"batch", s, i>>
      BY <2>2, <2>3, <2>6 DEF In
    <3> QED BY <2>4, <3>1, <3>2 DEF Once
  <2> QED BY <2>5, <2>6
<1>2. ASSUME Nowhere(queue, batch, r) PROVE Places(r) = {}
  BY <1>2, PlaceIs DEF Nowhere, AtShard, In
<1>3. ASSUME Places(r) = {} PROVE Nowhere(queue, batch, r)
  <2>1. ASSUME NEW s \in Shards, NEW i \in 1 .. Len(queue[s]), queue[s][i].id = r PROVE FALSE
    <3>1. <<"queue", s, i>> \in Places(r)
      BY <2>1, PlaceIs
    <3> QED BY <1>3, <3>1
  <2>2. ASSUME NEW s \in Shards, NEW i \in 1 .. Len(batch[s]), batch[s][i].id = r PROVE FALSE
    <3>1. <<"batch", s, i>> \in Places(r)
      BY <2>2, PlaceIs
    <3> QED BY <1>3, <3>1
  <2> QED BY <2>1, <2>2 DEF Nowhere, AtShard, In
<1> QED BY <1>1, <1>2, <1>3

(* What a list has after one more request comes, ...                       *)
LEMMA Grows ==
  ASSUME NEW l \in Seq(Item), NEW x \in Item, NEW r
  PROVE  /\ Append(l, x) \in Seq(Item)
         /\ In(Append(l, x), r) <=> In(l, r) \/ x.id = r
         /\ Once(l, r) /\ (x.id = r => ~In(l, r)) => Once(Append(l, x), r)
<1>1. /\ Append(l, x) \in Seq(Item) /\ Len(Append(l, x)) = Len(l) + 1
      /\ Append(l, x)[Len(l) + 1] = x
      /\ \A i \in 1 .. Len(l) : Append(l, x)[i] = l[i]
  OBVIOUS
<1>2. In(Append(l, x), r) <=> In(l, r) \/ x.id = r
  <2>1. Len(l) \in Nat
    OBVIOUS
  <2>2. ASSUME In(l, r) PROVE In(Append(l, x), r)
    BY <1>1, <2>1, <2>2 DEF In
  <2>3. ASSUME x.id = r PROVE In(Append(l, x), r)
    <3>1. Len(l) + 1 \in 1 .. Len(Append(l, x))
      BY <1>1, <2>1
    <3> QED BY <1>1, <2>3, <3>1 DEF In
  <2>4. ASSUME In(Append(l, x), r), ~In(l, r) PROVE x.id = r
    BY <1>1, <2>1, <2>4 DEF In
  <2> QED BY <2>2, <2>3, <2>4
<1>3. ASSUME Once(l, r), x.id = r => ~In(l, r) PROVE Once(Append(l, x), r)
  BY <1>1, <1>3 DEF Once, In
<1> QED BY <1>1, <1>2, <1>3

(* ... and after it is cut in two.                                         *)
LEMMA Cut ==
  ASSUME NEW l \in Seq(Item), NEW k \in 0 .. Len(l), NEW r
  PROVE  LET a == SubSeq(l, 1, k)
             c == SubSeq(l, k + 1, Len(l))
         IN  /\ a \in Seq(Item) /\ c \in Seq(Item)
             /\ In(l, r) <=> In(a, r) \/ In(c, r)
             /\ Once(l, r) => Once(a, r) /\ Once(c, r) /\ ~(In(a, r) /\ In(c, r))
<1> DEFINE a == SubSeq(l, 1, k)
           c == SubSeq(l, k + 1, Len(l))
<1>1. /\ a \in Seq(Item) /\ Len(a) = k
      /\ \A i \in 1 .. k : a[i] = l[i]
  OBVIOUS
<1>2. /\ c \in Seq(Item) /\ Len(c) = Len(l) - k
      /\ \A i \in 1 .. Len(l) - k : c[i] = l[k + i]
  OBVIOUS
<1> HIDE DEF a, c
<1>3. Len(l) \in Nat /\ k \in Nat /\ k <= Len(l)
  OBVIOUS
<1>4. In(l, r) <=> In(a, r) \/ In(c, r)
  <2>1. ASSUME In(l, r), ~In(a, r) PROVE In(c, r)
    <3>1. PICK i \in 1 .. Len(l) : l[i].id = r
      BY <2>1 DEF In
    <3>2. i > k
      BY <1>1, <2>1, <3>1, <1>3 DEF In
    <3>3. i - k \in 1 .. Len(l) - k /\ k + (i - k) = i
      BY <1>3, <3>2
    <3> QED BY <1>2, <3>1, <3>3 DEF In
  <2>2. ASSUME In(a, r) PROVE In(l, r)
    BY <1>1, <1>3, <2>2 DEF In
  <2>3. ASSUME In(c, r) PROVE In(l, r)
    <3>1. PICK i \in 1 .. Len(l) - k : c[i].id = r
      BY <1>2, <2>3 DEF In
    <3>2. k + i \in 1 .. Len(l)
      BY <1>3
    <3> QED BY <1>2, <3>1, <3>2 DEF In
  <2> QED BY <2>1, <2>2, <2>3
<1>5. ASSUME Once(l, r) PROVE Once(a, r) /\ Once(c, r) /\ ~(In(a, r) /\ In(c, r))
  <2>1. Once(a, r)
    BY <1>1, <1>3, <1>5 DEF Once
  <2>2. \A i \in 1 .. Len(l) - k : k + i \in 1 .. Len(l)
    BY <1>3
  <2>3. ASSUME NEW i \in 1 .. Len(c), NEW j \in 1 .. Len(c), c[i].id = r, c[j].id = r
        PROVE  i = j
    <3>1. k + i \in 1 .. Len(l) /\ k + j \in 1 .. Len(l)
      BY <1>2, <2>2
    <3>2. l[k + i].id = r /\ l[k + j].id = r
      BY <1>2, <2>3
    <3>3. k + i = k + j
      BY <1>5, <3>1, <3>2 DEF Once
    <3> QED BY <1>3, <3>3
  <2>4. ASSUME NEW i \in 1 .. Len(a), a[i].id = r, NEW j \in 1 .. Len(c), c[j].id = r
        PROVE  FALSE
    <3>1. i \in 1 .. Len(l) /\ l[i].id = r
      BY <1>1, <1>3, <2>4
    <3>2. k + j \in 1 .. Len(l) /\ l[k + j].id = r
      BY <1>2, <1>3, <2>4
    <3>3. i <= k /\ j >= 1
      BY <1>1, <1>2, <1>3
    <3> QED BY <1>3, <1>5, <3>1, <3>2, <3>3 DEF Once
  <2> QED BY <2>1, <2>3, <2>4 DEF In, Once
<1> QED BY <1>1, <1>2, <1>4, <1>5 DEF a, c

--------------------------------------------------------------------------------
(* Redis' commands, and the script, leave whole numbers in the fields of   *)
(* the hash.                                                               *)
LEMMA HashSet ==
  ASSUME NEW h \in Hashes, NEW f \in Fields, NEW d \in Int
  PROVE  HSet(h, f, d) \in Hashes /\ HIncrBy(h, f, d) \in Hashes
<1>1. PICK D \in SUBSET Fields : h \in [D -> Int]
  BY DEF Hashes
<1>2. ASSUME NEW v \in Int PROVE HSet(h, f, v) \in Hashes
  <2>1. HSet(h, f, v) = [x \in D \cup {f} |-> IF x = f THEN v ELSE h[x]]
    BY <1>1 DEF HSet
  <2>2. HSet(h, f, v) \in [D \cup {f} -> Int] /\ D \cup {f} \in SUBSET Fields
    BY <1>1, <1>2, <2>1
  <2> QED BY <2>2 DEF Hashes
<1>3. (IF f \in DOMAIN h THEN h[f] + d ELSE d) \in Int
  BY <1>1
<1> QED BY <1>2, <1>3 DEF HIncrBy

(* A field that is there has a whole number.                               *)
LEMMA HashGet ==
  ASSUME NEW h \in Hashes, NEW f, f \in DOMAIN h
  PROVE  h[f] \in Int
<1> QED BY DEF Hashes

(* What is refilled is a whole number of tokens.                           *)
LEMMA RefillIs == ASSUME NEW a \in Int, NEW b \in Int PROVE Refill(a, b) \in Int
<1>1. TicksPerToken \in Nat /\ TicksPerToken > 0
  BY RedisBucketAssumption
<1>2. a > b => (a - b) \div TicksPerToken \in Int
  BY <1>1
<1> QED BY <1>2 DEF Refill

(* The script leaves a hash of whole numbers.                              *)
LEMMA ScriptIs ==
  ASSUME BucketTypeOK, NEW n \in Int
  PROVE  ScriptHash(n) \in Hashes
<1>1. HGet("last_ns", clock) \in Int /\ HGet("current", 0) \in Int
  BY HashGet DEF HGet, BucketTypeOK
<1>2. ScriptLast \in Int
  BY <1>1 DEF ScriptLast, AtMost, BucketTypeOK
<1>3. ScriptLeaked \in Int
  <2>1. TicksPerToken \in Nat /\ TicksPerToken > 0 /\ clock - ScriptLast \in Int
    BY <1>2, RedisBucketAssumption DEF BucketTypeOK
  <2> QED BY <2>1 DEF ScriptLeaked
<1>4. ScriptLevel \in Int
  BY <1>1, <1>3 DEF ScriptLevel
<1>5. ScriptLast + ScriptLeaked * TicksPerToken \in Int
  BY <1>2, <1>3, RedisBucketAssumption
<1>6. (IF ScriptAllows(n) THEN ScriptLevel + n ELSE ScriptLevel) \in Int
  BY <1>4
<1> HIDE DEF ScriptLevel, ScriptLast, ScriptLeaked, ScriptAllows
<1>7. HSet(hash, "current", IF ScriptAllows(n) THEN ScriptLevel + n ELSE ScriptLevel)
        \in Hashes
  BY <1>6, HashSet DEF BucketTypeOK, Fields
<1> QED BY <1>5, <1>7, HashSet DEF ScriptHash, Fields

(* What the direct callers compute from what they have read.               *)
LEMMA DirectIs ==
  ASSUME DirectTypeOK, NEW c \in Callers
  PROVE  Due(c) \in Int /\ Held(c) \in Int /\ Stamp(c) \in Int
<1> USE DEF DirectTypeOK
<1>1. seen[c] \in Hashes /\ now[c] \in Nat
  OBVIOUS
<1>2. \A d \in Int : Read(c, "tokens", d) \in Int /\ Read(c, "last_ns", d) \in Int
  BY <1>1, HashGet DEF Read
<1>3. LastNS(c) \in Int
  BY <1>1, <1>2 DEF LastNS, AtMost
<1>4. Due(c) \in Int
  BY <1>1, <1>3, RefillIs DEF Due
<1>5. Held(c) \in Int
  BY <1>2, <1>4, RedisBucketAssumption DEF Held, AtMost
<1>6. Stamp(c) \in Int
  BY <1>1, <1>3 DEF Stamp
<1> QED BY <1>4, <1>5, <1>6

(* The direct callers keep the types.                                      *)
LEMMA DirectStep ==
  ASSUME BucketTypeOK, DirectTypeOK, DirectNext
  PROVE  BucketTypeOK' /\ DirectTypeOK'
<1> USE DEF BucketTypeOK, DirectTypeOK
<1>1. PICK c \in Callers :
        \/ \E n \in 1 .. Burst : DirectBegin(c, n)
        \/ DirectAllow(c) \/ DirectDeny(c) \/ DirectConflict(c) \/ DirectError(c)
  BY DEF DirectNext
<1>2. NoHash \in Hashes
  <2>1. NoHash \in [{} -> Int] /\ {} \in SUBSET Fields
    BY DEF NoHash
  <2> QED BY <2>1 DEF Hashes
<1>3. Look(c) => now' \in [Callers -> Nat] /\ seen' \in [Callers -> Hashes]
  BY DEF Look
<1>4. Return(c) => DirectTypeOK'
  BY <1>2 DEF Return
<1>5. ASSUME NEW n \in 1 .. Burst, DirectBegin(c, n) PROVE BucketTypeOK' /\ DirectTypeOK'
  BY <1>3, <1>5, RedisBucketAssumption DEF DirectBegin, bucketVars
<1>6. CASE DirectAllow(c)
  <2>1. Due(c) - ask[c] \in Int /\ Stamp(c) \in Int
    BY DirectIs
  <2>2. hash' \in Hashes
    BY <1>6, <2>1, HashSet DEF DirectAllow, Fields
  <2> QED BY <1>4, <1>6, <2>2 DEF DirectAllow
<1>7. CASE DirectDeny(c)
  <2>1. hash' \in Hashes
    BY <1>7, DirectIs, HashSet DEF DirectDeny, Fields
  <2> QED BY <1>4, <1>7, <2>1 DEF DirectDeny
<1>8. CASE DirectConflict(c)
  BY <1>3, <1>4, <1>8 DEF DirectConflict, bucketVars
<1>9. CASE DirectError(c)
  BY <1>4, <1>9 DEF DirectError, bucketVars
<1> QED BY <1>1, <1>5, <1>6, <1>7, <1>8, <1>9

--------------------------------------------------------------------------------
(* A function on 1 .. n is a sequence of length n.                         *)
LEMMA ListOf ==
  ASSUME NEW n \in Nat, NEW S, NEW f \in [1 .. n -> S]
  PROVE  f \in Seq(S) /\ Len(f) = n
<1> QED OBVIOUS

(* What a shard collects, and what it leaves.                              *)
LEMMA CollectedIs ==
  ASSUME BatchTypeOK, NEW s \in Shards
  PROVE  \E k \in 0 .. Len(queue[s]) :
           /\ Collected(s) = SubSeq(queue[s], 1, k)
           /\ Collected(s) \in Seq(Item) /\ Len(Collected(s)) = k
           /\ SubSeq(queue[s], Len(Collected(s)) + 1, Len(queue[s]))
                = SubSeq(queue[s], k + 1, Len(queue[s]))
<1> DEFINE k == AtMost(Len(queue[s]), MaxBatch)
<1>1. queue[s] \in Seq(Item) /\ Len(queue[s]) \in Nat
  BY DEF BatchTypeOK
<1>2. k \in 0 .. Len(queue[s])
  BY <1>1, RedisBatchAssumption DEF AtMost
<1>3. Collected(s) = SubSeq(queue[s], 1, k)
  BY DEF Collected
<1> HIDE DEF k
<1>4. Collected(s) \in Seq(Item) /\ Len(Collected(s)) = k
  BY <1>1, <1>2, <1>3
<1> QED BY <1>2, <1>3, <1>4

(* The decisions on a list, one for each request.                          *)
LEMMA Decisions ==
  ASSUME NEW b \in Seq(Item), NEW m
  PROVE  /\ Decide(b, m) \in Seq({"allowed", "denied"}) /\ Len(Decide(b, m)) = Len(b)
         /\ AllErrors(b) \in Seq({"error"}) /\ Len(AllErrors(b)) = Len(b)
<1>1. Len(b) \in Nat
  OBVIOUS
<1>2. Decide(b, m) \in [1 .. Len(b) -> {"allowed", "denied"}]
  BY DEF Decide
<1>3. AllErrors(b) \in [1 .. Len(b) -> {"error"}]
  BY DEF AllErrors
<1> QED BY <1>1, <1>2, <1>3, ListOf

(* The pipeline of v3 and v4 has no scripts in it.                         *)
LEMMA CommandsAre ==
  ASSUME BucketTypeOK, NEW b \in Seq(Item), NEW v, NEW m \in Int
  PROVE  /\ Commands(b, v, m) \in Seq(Command)
         /\ \A i \in 1 .. Len(Commands(b, v, m)) :
              Commands(b, v, m)[i].field \in {"tokens", "last_ns"}
<1> DEFINE Write == [field : {"tokens", "last_ns"}, by : Int]
           consume == [i \in 1 .. Len(b) |->
                         [field |-> "tokens",
                          by |-> IF v[i] = "allowed" THEN -b[i].n ELSE 0]]
           first == [field |-> "tokens", by |-> m]
           last  == [field |-> "last_ns", by |-> clock]
<1>1. Len(b) \in Nat /\ \A i \in 1 .. Len(b) : b[i].n \in Int
  <2>1. \A n \in Asks : n \in Int
    BY RedisBatchAssumption, RedisBucketAssumption
  <2>2. Len(b) \in Nat /\ \A i \in 1 .. Len(b) : b[i] \in Item
    OBVIOUS
  <2> QED BY <2>1, <2>2 DEF Item
<1>2. consume \in [1 .. Len(b) -> Write]
  BY <1>1
<1>3. first \in Write /\ last \in Write
  BY DEF BucketTypeOK
<1>4. Commands(b, v, m) = <<first>> \o consume \o <<last>>
  BY DEF Commands
<1> HIDE DEF consume, first, last, Write
<1>5. consume \in Seq(Write)
  BY <1>1, <1>2, ListOf
<1>6. Commands(b, v, m) \in Seq(Write)
  BY <1>3, <1>4, <1>5
<1> HIDE DEF Commands
<1>7. \A i \in 1 .. Len(Commands(b, v, m)) : Commands(b, v, m)[i] \in Write
  BY <1>6
<1>8. Write \subseteq Command
  BY DEF Write, Command
<1>9. Commands(b, v, m) \in Seq(Command)
  BY <1>6, <1>7, <1>8, ListOf, Len(Commands(b, v, m)) \in Nat
<1> QED BY <1>7, <1>9 DEF Write

(* A batch is taken from the front of the queue, and no request changes    *)
(* its shard.                                                              *)
LEMMA BatchTaken ==
  ASSUME BatchTypeOK, ShardInv, NEW s \in Shards,
         TakeBatch(s), batch' = [batch EXCEPT ![s] = Collected(s)]
  PROVE  /\ queue' \in [Shards -> Seq(Item)] /\ batch' \in [Shards -> Seq(Item)]
         /\ stage' \in [Shards -> {"idle", "write", "send", "exited"}]
         /\ \A r \in Requests : AtMostOne(queue, batch, r) =>
              /\ AtMostOne(queue', batch', r)
              /\ Nowhere(queue', batch', r) <=> Nowhere(queue, batch, r)
<1> DEFINE l == queue[s]
<1>1. PICK k \in 0 .. Len(l) :
        /\ Collected(s) = SubSeq(l, 1, k)
        /\ Collected(s) \in Seq(Item) /\ Len(Collected(s)) = k
        /\ SubSeq(l, Len(Collected(s)) + 1, Len(l)) = SubSeq(l, k + 1, Len(l))
  BY CollectedIs
<1> DEFINE a == SubSeq(l, 1, k)
           c == SubSeq(l, k + 1, Len(l))
<1>2. queue' = [queue EXCEPT ![s] = c] /\ batch' = [batch EXCEPT ![s] = a]
  BY <1>1 DEF TakeBatch
<1>3. l \in Seq(Item) /\ a \in Seq(Item) /\ c \in Seq(Item)
  BY Cut DEF BatchTypeOK
<1>4. batch[s] = <<>>
  BY DEF TakeBatch, ShardInv, ShardExact
<1>5. \A r : /\ In(l, r) <=> In(a, r) \/ In(c, r)
             /\ Once(l, r) => Once(a, r) /\ Once(c, r) /\ ~(In(a, r) /\ In(c, r))
  BY <1>3, Cut
<1>6. \A r : ~In(batch[s], r)
  BY <1>4 DEF In
<1>7. /\ queue'[s] = c /\ batch'[s] = a
      /\ \A t \in Shards \ {s} : queue'[t] = queue[t] /\ batch'[t] = batch[t]
  BY <1>2 DEF BatchTypeOK
<1> HIDE DEF a, c
<1>8. ASSUME NEW r \in Requests, AtMostOne(queue, batch, r)
      PROVE  /\ AtMostOne(queue', batch', r)
             /\ Nowhere(queue', batch', r) <=> Nowhere(queue, batch, r)
  <2>1. \A t \in Shards : AtShard(queue', batch', t, r) <=> AtShard(queue, batch, t, r)
    BY <1>5, <1>6, <1>7 DEF AtShard
  <2>2. \A t \in Shards : /\ Once(queue'[t], r) /\ Once(batch'[t], r)
                          /\ ~(In(queue'[t], r) /\ In(batch'[t], r))
    BY <1>5, <1>7, <1>8 DEF AtMostOne
  <2> QED BY <1>8, <2>1, <2>2 DEF AtMostOne, Nowhere
<1>9. queue' \in [Shards -> Seq(Item)] /\ batch' \in [Shards -> Seq(Item)]
  BY <1>2, <1>3 DEF BatchTypeOK
<1>10. stage' \in [Shards -> {"idle", "write", "send", "exited"}]
  BY DEF BatchTypeOK, TakeBatch
<1> QED BY <1>8, <1>9, <1>10

(* The types.                                                              *)
LEMMA IndexMoves == ASSUME BatchTypeOK PROVE NextIndex \in Shards /\ Target \in Shards
<1>1. NumShards \in Nat /\ NumShards > 0
  BY RedisBatchAssumption
<1>2. 0 \in Shards
  BY <1>1 DEF Shards
<1>3. currentIndex \in Shards /\ currentIndex + 1 \in Int
  BY <1>1 DEF BatchTypeOK, Shards
<1>4. (currentIndex + 1) % NumShards \in 0 .. NumShards - 1
  BY <1>1, <1>3
<1> QED BY <1>2, <1>3, <1>4 DEF NextIndex, Target, Shards

(* The answers that request r gets from a shard with requests b: with a    *)
(* verdict on each one that is not passed over, it gets one.               *)
LEMMA AnswersAre ==
  ASSUME NEW b \in Seq(Item), NEW v \in Seq(Verdicts), Len(v) = Len(b), NEW r
  PROVE  /\ Answers(r, b, v) \subseteq Verdicts \ {"none"}
         /\ ~In(b, r) => Answers(r, b, v) = {}
         /\ In(b, r) /\ (\A i \in 1 .. Len(v) : b[i].id = r => v[i] # "none")
              => Answers(r, b, v) # {}
<1>1. \A i \in 1 .. Len(b) : v[i] \in Verdicts
  OBVIOUS
<1>2. Answers(r, b, v) \subseteq Verdicts \ {"none"}
  BY <1>1 DEF Answers
<1>3. ~In(b, r) => Answers(r, b, v) = {}
  BY DEF Answers, In
<1>4. ASSUME In(b, r), \A i \in 1 .. Len(v) : b[i].id = r => v[i] # "none"
      PROVE  Answers(r, b, v) # {}
  <2>1. PICK i \in 1 .. Len(b) : b[i].id = r
    BY <1>4 DEF In
  <2>2. v[i] \in Answers(r, b, v)
    BY <1>4, <2>1 DEF Answers
  <2> QED BY <2>2
<1> QED BY <1>2, <1>3, <1>4

(* The requests b leave shard s with the verdicts v: whoever waits has its *)
(* answer, and in v3 it is in the map.                                     *)
LEMMA Answered ==
  ASSUME BatchTypeOK, RequestInv,
         NEW s \in Shards, NEW b \in Seq(Item), NEW v \in Seq(Verdicts), Len(v) = Len(b),
         \A i \in 1 .. Len(v) : v[i] = "none" => pc[b[i].id] # "wait",
         Answer(b, v), UNCHANGED <<version, pc>>,
         \/ b = batch[s] /\ batch' = [batch EXCEPT ![s] = <<>>] /\ UNCHANGED queue
         \/ b = queue[s] /\ queue' = [queue EXCEPT ![s] = <<>>] /\ UNCHANGED batch
  PROVE  /\ reply' \in [Requests -> Verdicts] /\ results' \subseteq Requests
         /\ queue' \in [Shards -> Seq(Item)] /\ batch' \in [Shards -> Seq(Item)]
         /\ RequestInv'
<1>1. \A r \in Requests :
        /\ Answers(r, b, v) \subseteq Verdicts \ {"none"}
        /\ ~In(b, r) => Answers(r, b, v) = {}
        /\ In(b, r) /\ pc[r] = "wait" => Answers(r, b, v) # {}
  BY AnswersAre
<1>2. \A r \in Requests : In(b, r) => AtShard(queue, batch, s, r)
  BY DEF AtShard
<1>3. ~(\E r \in Requests : In(<<>>, r))
  BY DEF In
<1>4. \A r \in Requests : Once(<<>>, r)
  BY DEF Once
<1>5. queue' \in [Shards -> Seq(Item)] /\ batch' \in [Shards -> Seq(Item)]
  <2>1. <<>> \in Seq(Item)
    OBVIOUS
  <2> QED BY <2>1 DEF BatchTypeOK
<1>6. results' \subseteq Requests
  BY DEF Answer, BatchTypeOK
<1>7. reply' \in [Requests -> Verdicts]
  BY <1>1 DEF Answer, BatchTypeOK
<1>8. ASSUME NEW r \in Requests PROVE RequestExact(r)'
  <2>1. RequestExact(r)
    BY DEF RequestInv
  <2>2. /\ AtMostOne(queue', batch', r)
        /\ \A t \in Shards : AtShard(queue', batch', t, r) => AtShard(queue, batch, t, r)
        /\ \A t \in Shards : AtShard(queue, batch, t, r) /\ ~In(b, r)
                               => AtShard(queue', batch', t, r)
        /\ In(b, r) => ~AtShard(queue', batch', s, r)
    <3>1. AtMostOne(queue, batch, r)
      BY <2>1 DEF RequestExact
    <3>2. CASE b = batch[s] /\ batch' = [batch EXCEPT ![s] = <<>>] /\ UNCHANGED queue
      <4>1. batch'[s] = <<>> /\ \A t \in Shards \ {s} : batch'[t] = batch[t]
        BY <3>2 DEF BatchTypeOK
      <4>2. \A t \in Shards : In(batch'[t], r) => In(batch[t], r)
        BY <1>3, <4>1
      <4>3. \A t \in Shards : Once(batch'[t], r)
        BY <1>4, <3>1, <4>1 DEF AtMostOne
      <4>4. AtMostOne(queue', batch', r)
        BY <3>1, <3>2, <4>2, <4>3 DEF AtMostOne, AtShard
      <4>5. In(b, r) => ~AtShard(queue', batch', s, r)
        BY <1>3, <3>1, <3>2, <4>1 DEF AtMostOne, AtShard
      <4> QED BY <3>2, <4>1, <4>2, <4>4, <4>5 DEF AtShard
    <3>3. CASE b = queue[s] /\ queue' = [queue EXCEPT ![s] = <<>>] /\ UNCHANGED batch
      <4>1. queue'[s] = <<>> /\ \A t \in Shards \ {s} : queue'[t] = queue[t]
        BY <3>3 DEF BatchTypeOK
      <4>2. \A t \in Shards : In(queue'[t], r) => In(queue[t], r)
        BY <1>3, <4>1
      <4>3. \A t \in Shards : Once(queue'[t], r)
        BY <1>4, <3>1, <4>1 DEF AtMostOne
      <4>4. AtMostOne(queue', batch', r)
        BY <3>1, <3>3, <4>2, <4>3 DEF AtMostOne, AtShard
      <4>5. In(b, r) => ~AtShard(queue', batch', s, r)
        BY <1>3, <3>1, <3>3, <4>1 DEF AtMostOne, AtShard
      <4> QED BY <3>3, <4>1, <4>2, <4>4, <4>5 DEF AtShard
    <3> QED BY <3>2, <3>3
  <2>3. CASE In(b, r)
    <3>1. Nowhere(queue', batch', r)
      BY <1>2, <2>1, <2>2, <2>3 DEF Nowhere, RequestExact, AtMostOne
    <3>2. pc[r] \in {"wait", "gone"}
      BY <1>2, <2>1, <2>3 DEF RequestExact, Nowhere, BatchTypeOK
    <3>3. CASE pc[r] = "wait"
      <4>1. reply'[r] \in Verdicts \ {"none"}
        BY <1>1, <2>3, <3>3 DEF Answer
      <4>2. version = "v3" => r \in results'
        BY <1>1, <2>3, <3>3 DEF Answer
      <4> QED BY <2>2, <3>1, <3>3, <4>1, <4>2 DEF RequestExact
    <3>4. CASE pc[r] = "gone"
      <4>1. reply'[r] = reply[r]
        BY <3>4 DEF Answer
      <4> QED BY <2>1, <2>2, <3>4, <4>1 DEF RequestExact
    <3> QED BY <3>2, <3>3, <3>4
  <2>4. CASE ~In(b, r)
    <3>1. reply'[r] = reply[r] /\ (r \in results' <=> r \in results)
      BY <1>1, <2>4 DEF Answer
    <3>2. Nowhere(queue', batch', r) <=> Nowhere(queue, batch, r)
      BY <2>2, <2>4 DEF Nowhere
    <3> QED BY <2>1, <2>2, <3>1, <3>2 DEF RequestExact
  <2> QED BY <2>3, <2>4
<1> QED BY <1>5, <1>6, <1>7, <1>8 DEF RequestInv

(* A request that waits no more has no answer, and none is kept for it.    *)
LEMMA Leaves ==
  ASSUME BatchTypeOK, RequestInv, NEW r \in Requests, pc[r] = "wait",
         pc' = [pc EXCEPT ![r] = IF reply[r] = "none" THEN "gone" ELSE "done"],
         reply' = [reply EXCEPT ![r] = "none"], results' = results \ {r},
         UNCHANGED <<version, queue, batch>>
  PROVE  RequestInv'
<1>1. ASSUME NEW u \in Requests PROVE RequestExact(u)'
  <2>1. RequestExact(u)
    BY DEF RequestInv
  <2>2. AtMostOne(queue', batch', u) <=> AtMostOne(queue, batch, u)
    OBVIOUS
  <2>3. Nowhere(queue', batch', u) <=> Nowhere(queue, batch, u)
    OBVIOUS
  <2>4. CASE u = r
    <3>1. pc'[r] = (IF reply[r] = "none" THEN "gone" ELSE "done") /\ reply'[r] = "none"
      BY DEF BatchTypeOK
    <3> QED BY <2>1, <2>2, <2>3, <2>4, <3>1 DEF RequestExact
  <2>5. CASE u # r
    <3>1. pc'[u] = pc[u] /\ reply'[u] = reply[u] /\ (u \in results' <=> u \in results)
      BY <2>5 DEF BatchTypeOK
    <3> QED BY <2>1, <2>2, <2>3, <3>1 DEF RequestExact
  <2> QED BY <2>4, <2>5
<1> QED BY <1>1 DEF RequestInv

(* Where the requests and their lists stay, what is known of them does.    *)
LEMMA RequestsStay ==
  ASSUME RequestInv, UNCHANGED <<version, pc, reply, results, queue, batch>>
  PROVE  RequestInv'
<1>1. ASSUME NEW r \in Requests PROVE RequestExact(r)'
  <2>1. /\ AtMostOne(queue', batch', r) <=> AtMostOne(queue, batch, r)
        /\ Nowhere(queue', batch', r) <=> Nowhere(queue, batch, r)
    OBVIOUS
  <2> QED BY <2>1 DEF RequestInv, RequestExact
<1> QED BY <1>1 DEF RequestInv

(* The items of a list are requests with what they ask for.                *)
LEMMA ItemsOf ==
  ASSUME NEW l \in Seq(Item)
  PROVE  \A i \in 1 .. Len(l) : l[i].id \in Requests /\ l[i].n \in Asks
<1>1. \A i \in 1 .. Len(l) : l[i] \in Item
  OBVIOUS
<1> QED BY <1>1 DEF Item

(* A shard that nothing happens to, while no request begins to wait that   *)
(* is in its batch.                                                        *)
LEMMA ShardStays ==
  ASSUME BatchTypeOK, NEW s \in Shards, ShardExact(s), version' = version,
         stage'[s] = stage[s], batch'[s] = batch[s], verdict'[s] = verdict[s],
         pipe'[s] = pipe[s],
         \A i \in 1 .. Len(batch[s]) : pc'[batch[s][i].id] = "wait" => pc[batch[s][i].id] = "wait"
  PROVE  ShardExact(s)'
<1>1. \A i \in 1 .. Len(verdict'[s]) :
        verdict'[s][i] = "none" => i <= Len(batch'[s]) /\ pc'[batch'[s][i].id] # "wait"
  <2> SUFFICES ASSUME NEW i \in 1 .. Len(verdict[s]), verdict[s][i] = "none"
               PROVE  i <= Len(batch[s]) /\ pc'[batch[s][i].id] # "wait"
    OBVIOUS
  <2>1. i <= Len(batch[s]) /\ pc[batch[s][i].id] # "wait"
    BY DEF ShardExact
  <2>2. Len(verdict[s]) \in Nat /\ Len(batch[s]) \in Nat
    BY DEF BatchTypeOK
  <2>3. i \in 1 .. Len(batch[s])
    BY <2>1, <2>2
  <2> QED BY <2>1, <2>3
<1> QED BY <1>1 DEF ShardExact

(* Nothing happens to the pipelines.                                       *)
LEMMA BatchStays ==
  ASSUME BatchTypeOK, ShardInv, RequestInv,
         UNCHANGED <<version, currentIndex, requestVars, shardVars>>
  PROVE  BatchTypeOK' /\ ShardInv' /\ RequestInv'
<1>1. UNCHANGED <<version, currentIndex, pc, reply, queue, stage, batch, verdict, pipe, results>>
  BY DEF requestVars, shardVars
<1>2. ASSUME NEW s \in Shards PROVE ShardExact(s)'
  BY <1>1, ShardStays DEF ShardInv
<1>3. RequestInv'
  BY <1>1, RequestsStay
<1> QED BY <1>1, <1>2, <1>3 DEF BatchTypeOK, ShardInv

--------------------------------------------------------------------------------
(* The requests and clients.                                               *)
Client ==
  \/ \E r \in Requests : \/ \E n \in Asks : AllowN(r, n)
                         \/ Receive(r) \/ GiveUp(r)
  \/ \E n \in Asks \cup {0} : InitializeTokenBucket(n)
  \/ Close

(* A request is made, and queued at a shard.                               *)
LEMMA AllowNKept ==
  ASSUME BucketTypeOK, BatchTypeOK, ShardInv, RequestInv,
         NEW r \in Requests, NEW n \in Asks, AllowN(r, n)
  PROVE  BucketTypeOK' /\ BatchTypeOK' /\ ShardInv' /\ RequestInv'
<1> DEFINE s == Target
           x == [id |-> r, n |-> n]
<1>1. s \in Shards /\ NextIndex \in Shards
  BY IndexMoves
<1>2. /\ pc[r] = "new" /\ UNCHANGED <<hash, clock, version, reply, stage, batch, verdict, pipe, results>>
      /\ currentIndex' \in {currentIndex, NextIndex}
      /\ \/ /\ queue' = [queue EXCEPT ![s] = Append(@, x)]
            /\ pc' = [pc EXCEPT ![r] = "wait"]
         \/ queue' = queue /\ pc' = [pc EXCEPT ![r] = "done"]
  BY DEF AllowN, bucketVars
<1> HIDE DEF s, x
<1>3. x \in Item /\ x.id = r
  BY DEF x, Item
<1>4. queue' \in [Shards -> Seq(Item)]
  <2>1. queue \in [Shards -> Seq(Item)] /\ Append(queue[s], x) \in Seq(Item)
    BY <1>1, <1>3 DEF BatchTypeOK
  <2> QED BY <1>1, <1>2, <2>1
<1>5. BucketTypeOK' /\ BatchTypeOK'
  BY <1>1, <1>2, <1>4 DEF BucketTypeOK, BatchTypeOK
<1>6. RequestExact(r) /\ Nowhere(queue, batch, r) /\ reply[r] = "none"
  BY <1>2 DEF RequestInv, RequestExact
<1>7. ShardInv'
  <2>1. ASSUME NEW t \in Shards PROVE ShardExact(t)'
    <3>1. \A i \in 1 .. Len(batch[t]) : batch[t][i].id \in Requests \ {r}
      BY <1>6, ItemsOf DEF Nowhere, AtShard, In, BatchTypeOK
    <3>2. \A u \in Requests : u # r => pc'[u] = pc[u]
      BY <1>2 DEF BatchTypeOK
    <3> QED BY <1>2, <3>1, <3>2, ShardStays DEF ShardInv
  <2> QED BY <2>1 DEF ShardInv
<1>8. ASSUME NEW u \in Requests PROVE RequestExact(u)'
  <2>1. RequestExact(u)
    BY DEF RequestInv
  <2>2. CASE queue' = queue /\ pc' = [pc EXCEPT ![r] = "done"]
    <3>1. AtMostOne(queue', batch', u) /\ (Nowhere(queue', batch', u) <=> Nowhere(queue, batch, u))
      BY <1>2, <2>1, <2>2 DEF RequestExact
    <3>2. pc'[u] = IF u = r THEN "done" ELSE pc[u]
      BY <2>2 DEF BatchTypeOK
    <3> QED BY <1>2, <1>6, <2>1, <3>1, <3>2 DEF RequestExact
  <2>3. CASE /\ queue' = [queue EXCEPT ![s] = Append(@, x)]
             /\ pc' = [pc EXCEPT ![r] = "wait"]
    <3>1. /\ queue[s] \in Seq(Item) /\ queue'[s] = Append(queue[s], x)
          /\ \A t \in Shards \ {s} : queue'[t] = queue[t]
      BY <1>1, <2>3 DEF BatchTypeOK
    <3>2. /\ In(queue'[s], u) <=> In(queue[s], u) \/ u = r
          /\ Once(queue[s], u) /\ (u = r => ~In(queue[s], u)) => Once(queue'[s], u)
      BY <1>3, <3>1, Grows
    <3>3. pc'[u] = IF u = r THEN "wait" ELSE pc[u]
      BY <2>3 DEF BatchTypeOK
    <3>4. CASE u = r
      <4>1. \A t \in Shards : ~In(queue[t], u) /\ ~In(batch[t], u)
        BY <1>6, <3>4 DEF Nowhere, AtShard
      <4>2. AtMostOne(queue', batch', u)
        <5>1. \A t \in Shards : Once(queue'[t], u) /\ Once(batch'[t], u)
          BY <1>2, <2>1, <3>1, <3>2, <3>4, <4>1 DEF AtMostOne, RequestExact
        <5>2. \A t \in Shards : ~In(batch'[t], u) /\ (In(queue'[t], u) => t = s)
          BY <1>2, <3>1, <4>1
        <5> QED BY <5>1, <5>2 DEF AtMostOne, AtShard
      <4>3. ~Nowhere(queue', batch', u)
        BY <1>1, <3>2, <3>4 DEF Nowhere, AtShard
      <4> QED BY <1>2, <1>6, <2>1, <3>3, <3>4, <4>2, <4>3 DEF RequestExact
    <3>5. CASE u # r
      <4>1. \A t \in Shards : /\ In(queue'[t], u) <=> In(queue[t], u)
                              /\ Once(queue[t], u) => Once(queue'[t], u)
        BY <3>1, <3>2, <3>5
      <4>2. /\ AtMostOne(queue', batch', u)
            /\ Nowhere(queue', batch', u) <=> Nowhere(queue, batch, u)
        BY <1>2, <2>1, <4>1 DEF AtMostOne, Nowhere, AtShard, RequestExact
      <4> QED BY <1>2, <2>1, <3>3, <3>5, <4>2 DEF RequestExact
    <3> QED BY <3>4, <3>5
  <2> QED BY <1>2, <2>2, <2>3
<1> QED BY <1>5, <1>7, <1>8 DEF RequestInv

(* A request is made, fetches its answer, gives up or is released.         *)
LEMMA ClientKept ==
  ASSUME BucketTypeOK, BatchTypeOK, ShardInv, RequestInv, Client
  PROVE  BucketTypeOK' /\ BatchTypeOK' /\ ShardInv' /\ RequestInv'
<1>1. ASSUME NEW r \in Requests, NEW n \in Asks, AllowN(r, n)
      PROVE  BucketTypeOK' /\ BatchTypeOK' /\ ShardInv' /\ RequestInv'
  BY <1>1, AllowNKept
<1>2. ASSUME NEW r \in Requests, Receive(r) \/ GiveUp(r)
      PROVE  BucketTypeOK' /\ BatchTypeOK' /\ ShardInv' /\ RequestInv'
  <2>1. /\ pc[r] = "wait" /\ pc' = [pc EXCEPT ![r] = IF reply[r] = "none" THEN "gone" ELSE "done"]
        /\ reply' = [reply EXCEPT ![r] = "none"] /\ results' = results \ {r}
        /\ UNCHANGED <<hash, clock, version, currentIndex, queue, stage, batch, verdict, pipe>>
    BY <1>2 DEF Receive, GiveUp, bucketVars
  <2>2. BucketTypeOK' /\ BatchTypeOK'
    <3>1. pc' \in [Requests -> {"new", "wait", "done", "gone"}]
      BY <2>1 DEF BatchTypeOK
    <3>2. reply' \in [Requests -> Verdicts]
      BY <2>1 DEF BatchTypeOK, Verdicts
    <3> QED BY <2>1, <3>1, <3>2 DEF BucketTypeOK, BatchTypeOK
  <2>3. ASSUME NEW t \in Shards PROVE ShardExact(t)'
    <3>1. \A i \in 1 .. Len(batch[t]) : batch[t][i].id \in Requests
      BY ItemsOf DEF BatchTypeOK
    <3>2. \A u \in Requests : pc'[u] = "wait" => pc[u] = "wait"
      BY <2>1 DEF BatchTypeOK
    <3> QED BY <2>1, <3>1, <3>2, ShardStays DEF ShardInv
  <2>4. RequestInv'
    BY <2>1, Leaves
  <2> QED BY <2>2, <2>3, <2>4 DEF ShardInv
<1>3. ASSUME NEW n \in Asks \cup {0}, InitializeTokenBucket(n)
      PROVE  BucketTypeOK' /\ BatchTypeOK' /\ ShardInv' /\ RequestInv'
  <2>1. n \in Int
    BY RedisBatchAssumption, RedisBucketAssumption
  <2>2. hash' \in Hashes /\ clock' = clock
    BY <1>3, <2>1, HashSet DEF InitializeTokenBucket, BucketTypeOK, Fields
  <2>3. UNCHANGED <<version, currentIndex, requestVars, shardVars>>
    BY <1>3 DEF InitializeTokenBucket, batchVars
  <2> QED BY <2>2, <2>3, BatchStays DEF BucketTypeOK
<1>4. ASSUME Close PROVE BucketTypeOK' /\ BatchTypeOK' /\ ShardInv' /\ RequestInv'
  <2>1. UNCHANGED <<hash, clock>> /\ UNCHANGED <<version, currentIndex, requestVars, shardVars>>
    BY <1>4 DEF Close, bucketVars
  <2> QED BY <2>1, BatchStays DEF BucketTypeOK
<1> QED BY <1>1, <1>2, <1>3, <1>4 DEF Client

--------------------------------------------------------------------------------
(* A shard takes a batch, with verdicts v on it or commands p for it.      *)
LEMMA TakeKept ==
  ASSUME BatchTypeOK, ShardInv, RequestInv, NEW s \in Shards,
         TakeBatch(s), batch' = [batch EXCEPT ![s] = Collected(s)],
         UNCHANGED <<version, currentIndex, pc, reply, results>>,
         NEW v \in Seq({"allowed", "denied", "error"}), verdict' = [verdict EXCEPT ![s] = v],
         NEW p \in Seq(Command), pipe' = [pipe EXCEPT ![s] = p],
         IF version = "v2"
         THEN /\ \A i \in 1 .. Len(p) : p[i].field \in {"script", "none"}
              /\ Len(v) + Len(p) = Len(Collected(s))
         ELSE /\ \A i \in 1 .. Len(p) : p[i].field \in {"tokens", "last_ns"}
              /\ Len(v) = Len(Collected(s))
  PROVE  BatchTypeOK' /\ ShardInv' /\ RequestInv'
<1>1. /\ queue' \in [Shards -> Seq(Item)] /\ batch' \in [Shards -> Seq(Item)]
      /\ stage' \in [Shards -> {"idle", "write", "send", "exited"}]
      /\ \A r \in Requests : AtMostOne(queue, batch, r) =>
           /\ AtMostOne(queue', batch', r)
           /\ Nowhere(queue', batch', r) <=> Nowhere(queue, batch, r)
  BY BatchTaken
<1>2. \A i \in 1 .. Len(v) : v[i] \in {"allowed", "denied", "error"}
  OBVIOUS
<1>3. v \in Seq(Verdicts)
  <2>1. v \in [1 .. Len(v) -> Verdicts]
    BY <1>2 DEF Verdicts
  <2> QED BY <2>1, ListOf, Len(v) \in Nat
<1>4. BatchTypeOK'
  <2>1. verdict' \in [Shards -> Seq(Verdicts)] /\ pipe' \in [Shards -> Seq(Command)]
    BY <1>3 DEF BatchTypeOK
  <2> QED BY <1>1, <2>1 DEF BatchTypeOK
<1>5. ASSUME NEW t \in Shards PROVE ShardExact(t)'
  <2>1. CASE t = s
    <3>1. stage'[s] = "write" /\ batch'[s] = Collected(s) /\ verdict'[s] = v /\ pipe'[s] = p
      BY DEF TakeBatch, BatchTypeOK
    <3>2. \A i \in 1 .. Len(v) : v[i] # "none"
      BY <1>2
    <3>3. version' = version
      OBVIOUS
    <3> HIDE DEF Collected
    <3>4. ShardExact(s)'
      BY <3>1, <3>2, <3>3 DEF ShardExact
    <3> QED BY <2>1, <3>4
  <2>2. CASE t # s
    <3>1. stage'[t] = stage[t] /\ batch'[t] = batch[t] /\ verdict'[t] = verdict[t]
          /\ pipe'[t] = pipe[t]
      BY <2>2 DEF TakeBatch, BatchTypeOK
    <3> QED BY <3>1, ShardStays DEF ShardInv
  <2> QED BY <2>1, <2>2
<1>6. ASSUME NEW r \in Requests PROVE RequestExact(r)'
  <2>1. RequestExact(r)
    BY DEF RequestInv
  <2>2. AtMostOne(queue', batch', r) /\ (Nowhere(queue', batch', r) <=> Nowhere(queue, batch, r))
    BY <1>1, <2>1 DEF RequestExact
  <2> QED BY <2>1, <2>2 DEF RequestExact
<1> QED BY <1>4, <1>5, <1>6 DEF ShardInv, RequestInv

(* A shard of v3 or v4 takes a batch, decides it and sends its commands.   *)
LEMMA ExecutePipelineKept ==
  ASSUME BucketTypeOK, BatchTypeOK, ShardInv, RequestInv,
         NEW s \in Shards, NEW at \in Nat, ExecutePipeline(s, at)
  PROVE  BatchTypeOK' /\ ShardInv' /\ RequestInv'
<1> DEFINE tokens  == HGet("tokens", 0)
           initial == IF "tokens" \in DOMAIN hash THEN 0 ELSE Burst
           due     == Refill(at, HGet("last_ns", at))
           refill  == IF tokens >= Burst THEN 0 ELSE AtMost(due, Burst - tokens)
           b == Collected(s)
           v == Decide(b, AtMost(tokens + initial + refill, Burst))
           p == Commands(b, v, initial + refill)
<1>1. /\ version # "v2" /\ TakeBatch(s) /\ batch' = [batch EXCEPT ![s] = b]
      /\ verdict' = [verdict EXCEPT ![s] = v] /\ pipe' = [pipe EXCEPT ![s] = p]
      /\ UNCHANGED <<version, currentIndex, pc, reply, results>>
  BY DEF ExecutePipeline, requestVars
<1>2. tokens \in Int /\ HGet("last_ns", at) \in Int
  BY HashGet DEF HGet, BucketTypeOK
<1>3. Burst \in Int /\ due \in Int
  BY <1>2, RefillIs, RedisBucketAssumption
<1>4. initial + refill \in Int
  BY <1>2, <1>3 DEF AtMost
<1>5. b \in Seq(Item)
  BY CollectedIs
<1> HIDE DEF tokens, initial, due, refill, b
<1>6. v \in Seq({"allowed", "denied"}) /\ Len(v) = Len(b)
  BY <1>5, Decisions
<1> HIDE DEF v
<1>7. p \in Seq(Command) /\ \A i \in 1 .. Len(p) : p[i].field \in {"tokens", "last_ns"}
  BY <1>4, <1>5, CommandsAre
<1>8. v \in Seq({"allowed", "denied", "error"})
  BY <1>6
<1> HIDE DEF p
<1> QED BY <1>1, <1>6, <1>7, <1>8, TakeKept DEF b

(* A shard of v2 takes a batch and sends a script for each request.        *)
LEMMA ExecuteScriptsKept ==
  ASSUME BatchTypeOK, ShardInv, RequestInv, NEW s \in Shards, ExecuteScripts(s)
  PROVE  BatchTypeOK' /\ ShardInv' /\ RequestInv'
<1> DEFINE b == Collected(s)
           p == [i \in 1 .. Len(b) |->
                   [field |-> IF pc[b[i].id] = "wait" THEN "script" ELSE "none",
                    by |-> b[i].n]]
<1>1. /\ version = "v2" /\ TakeBatch(s) /\ batch' = [batch EXCEPT ![s] = b]
      /\ pipe' = [pipe EXCEPT ![s] = p]
      /\ UNCHANGED <<version, currentIndex, pc, reply, results, verdict>>
  BY DEF ExecuteScripts, requestVars
<1>2. b \in Seq(Item) /\ Len(b) \in Nat
  BY CollectedIs
<1> HIDE DEF b
<1>3. \A n \in Asks : n \in Int
  BY RedisBatchAssumption, RedisBucketAssumption
<1>4. p \in [1 .. Len(b) -> [field : {"script", "none"}, by : Int]]
  BY <1>2, <1>3, ItemsOf
<1>5. p \in [1 .. Len(b) -> Command] /\ \A i \in 1 .. Len(b) : p[i].field \in {"script", "none"}
  BY <1>4 DEF Command
<1> HIDE DEF p
<1>6. p \in Seq(Command) /\ Len(p) = Len(b)
  BY <1>2, <1>5, ListOf
<1>7. verdict[s] = <<>> /\ verdict' = [verdict EXCEPT ![s] = <<>>]
  BY <1>1 DEF TakeBatch, ShardInv, ShardExact, BatchTypeOK
<1>8. <<>> \in Seq({"allowed", "denied", "error"}) /\ Len(<<>>) + Len(p) = Len(b)
  BY <1>2, <1>6
<1> QED BY <1>1, <1>5, <1>6, <1>7, <1>8, TakeKept DEF b

(* The read of the hash fails, and the batch with it.                      *)
LEMMA ReadFailsKept ==
  ASSUME BatchTypeOK, ShardInv, RequestInv, NEW s \in Shards, ReadFails(s)
  PROVE  BatchTypeOK' /\ ShardInv' /\ RequestInv'
<1> DEFINE b == Collected(s)
           v == AllErrors(b)
<1>1. /\ version # "v2" /\ TakeBatch(s) /\ batch' = [batch EXCEPT ![s] = b]
      /\ verdict' = [verdict EXCEPT ![s] = v]
      /\ UNCHANGED <<version, currentIndex, pc, reply, results, pipe>>
  BY DEF ReadFails, requestVars
<1>2. b \in Seq(Item)
  BY CollectedIs
<1>3. v \in Seq({"error"}) /\ Len(v) = Len(b)
  BY <1>2, Decisions
<1>4. v \in Seq({"allowed", "denied", "error"})
  BY <1>3
<1> DEFINE p == <<>>
<1>5. pipe' = [pipe EXCEPT ![s] = p]
  BY <1>1 DEF TakeBatch, ShardInv, ShardExact, BatchTypeOK
<1>6. p \in Seq(Command) /\ \A i \in 1 .. Len(p) : p[i].field \in {"tokens", "last_ns"}
  OBVIOUS
<1> HIDE DEF v, b, p
<1> QED BY <1>1, <1>3, <1>4, <1>5, <1>6, TakeKept DEF b

(* Redis runs a command of a pipeline: with scripts that is one verdict    *)
(* more and one command less.                                              *)
LEMMA WriteBucketKept ==
  ASSUME BucketTypeOK, BatchTypeOK, ShardInv, RequestInv, NEW s \in Shards, WriteBucket(s)
  PROVE  BucketTypeOK' /\ BatchTypeOK' /\ ShardInv' /\ RequestInv'
<1> DEFINE c == Head(pipe[s])
<1>1. /\ pipe[s] \in Seq(Command) /\ pipe[s] # <<>> /\ Len(pipe[s]) \in Nat \ {0}
      /\ c = pipe[s][1] /\ c \in Command
      /\ Tail(pipe[s]) \in Seq(Command) /\ Len(Tail(pipe[s])) = Len(pipe[s]) - 1
      /\ \A i \in 1 .. Len(pipe[s]) - 1 : Tail(pipe[s])[i] = pipe[s][i + 1]
  BY DEF WriteBucket, BatchTypeOK
<1>2. stage[s] = "write"
  BY <1>1 DEF ShardInv, ShardExact, BatchTypeOK
<1>3. /\ pipe' = [pipe EXCEPT ![s] = Tail(@)]
      /\ UNCHANGED <<clock, version, currentIndex, pc, reply, queue, stage, batch, results>>
  BY DEF WriteBucket, requestVars
<1>4. hash' \in Hashes
  BY <1>1, HashSet, ScriptIs DEF WriteBucket, Command, Fields, BucketTypeOK
<1>5. \/ c.field \in {"tokens", "last_ns"} /\ verdict' = verdict
      \/ /\ c.field \in {"script", "none"}
         /\ \E a \in {"allowed", "denied", "error"} :
              verdict' = [verdict EXCEPT ![s] = Append(@, a)]
  <2>1. ASSUME c.field = "script" PROVE \E a \in {"allowed", "denied", "error"} :
                                          verdict' = [verdict EXCEPT ![s] = Append(@, a)]
    <3>1. verdict' = [verdict EXCEPT ![s] =
                        Append(@, IF ScriptAllows(c.by) THEN "allowed" ELSE "denied")]
      BY <2>1 DEF WriteBucket
    <3> QED BY <3>1
  <2> QED BY <2>1 DEF WriteBucket
<1> HIDE DEF c
<1>6. ASSUME NEW a \in {"allowed", "denied", "error"}, verdict' = [verdict EXCEPT ![s] = Append(@, a)]
      PROVE  /\ verdict'[s] \in Seq(Verdicts) /\ Len(verdict'[s]) = Len(verdict[s]) + 1
             /\ \A i \in 1 .. Len(verdict'[s]) :
                  verdict'[s][i] = "none" => i \in 1 .. Len(verdict[s]) /\ verdict[s][i] = "none"
  <2>1. verdict[s] \in Seq(Verdicts) /\ a \in Verdicts /\ a # "none"
    BY DEF BatchTypeOK, Verdicts
  <2>2. verdict'[s] = Append(verdict[s], a)
    BY <1>6 DEF BatchTypeOK
  <2> QED BY <2>1, <2>2
<1>7. BatchTypeOK'
  <2>1. pipe' \in [Shards -> Seq(Command)]
    BY <1>1, <1>3 DEF BatchTypeOK
  <2>2. verdict' \in [Shards -> Seq(Verdicts)]
    <3>1. ASSUME NEW a \in {"allowed", "denied", "error"}, verdict' = [verdict EXCEPT ![s] = Append(@, a)]
          PROVE  verdict' \in [Shards -> Seq(Verdicts)]
      <4>1. Append(verdict[s], a) \in Seq(Verdicts)
        BY DEF BatchTypeOK, Verdicts
      <4> QED BY <3>1, <4>1 DEF BatchTypeOK
    <3> QED BY <1>5, <3>1 DEF BatchTypeOK
  <2> QED BY <1>3, <2>1, <2>2 DEF BatchTypeOK
<1>8. ASSUME NEW t \in Shards PROVE ShardExact(t)'
  <2>1. CASE t # s
    <3>1. pipe'[t] = pipe[t] /\ verdict'[t] = verdict[t]
      BY <1>3, <1>5, <2>1 DEF BatchTypeOK
    <3> QED BY <1>3, <3>1, ShardStays DEF ShardInv
  <2>2. CASE t = s
    <3>1. pipe'[s] = Tail(pipe[s])
      BY <1>3 DEF BatchTypeOK
    <3>2. ShardExact(s)
      BY DEF ShardInv
    <3>3. Len(verdict[s]) \in Nat /\ Len(batch[s]) \in Nat
      BY DEF BatchTypeOK
    <3>4. \A i \in 1 .. Len(pipe'[s]) : \E j \in 1 .. Len(pipe[s]) : pipe'[s][i] = pipe[s][j]
      BY <1>1, <3>1
    <3>5. CASE version = "v2"
      <4>1. c.field \in {"script", "none"}
        BY <1>1, <1>2, <3>2, <3>5 DEF ShardExact
      <4>2. PICK a \in {"allowed", "denied", "error"} :
              verdict' = [verdict EXCEPT ![s] = Append(@, a)]
        BY <1>5, <4>1
      <4>3. Len(verdict'[s]) + Len(pipe'[s]) = Len(batch[s])
        <5>1. Len(verdict'[s]) = Len(verdict[s]) + 1 /\ Len(pipe'[s]) = Len(pipe[s]) - 1
          BY <1>1, <1>6, <3>1, <4>2
        <5>2. Len(verdict[s]) + Len(pipe[s]) = Len(batch[s]) /\ Len(pipe[s]) \in Nat
          BY <1>1, <1>2, <3>2, <3>5 DEF ShardExact
        <5>3. \A x, y \in Nat : (x + 1) + (y - 1) = x + y
          OBVIOUS
        <5> QED BY <3>3, <5>1, <5>2, <5>3
      <4>4. \A i \in 1 .. Len(pipe'[s]) : pipe'[s][i].field \in {"script", "none"}
        BY <1>2, <3>2, <3>4, <3>5 DEF ShardExact
      <4>5. \A i \in 1 .. Len(verdict'[s]) :
              verdict'[s][i] = "none" => i <= Len(batch[s]) /\ pc[batch[s][i].id] # "wait"
        BY <1>6, <3>2, <4>2 DEF ShardExact
      <4> QED BY <1>2, <1>3, <2>2, <3>5, <4>3, <4>4, <4>5 DEF ShardExact
    <3>6. CASE version # "v2"
      <4>1. c.field \in {"tokens", "last_ns"}
        BY <1>1, <1>2, <3>2, <3>6 DEF ShardExact
      <4>2. verdict' = verdict
        BY <1>5, <4>1
      <4>3. \A i \in 1 .. Len(pipe'[s]) : pipe'[s][i].field \in {"tokens", "last_ns"}
        BY <1>2, <3>2, <3>4, <3>6 DEF ShardExact
      <4> QED BY <1>2, <1>3, <2>2, <3>2, <3>6, <4>2, <4>3 DEF ShardExact
    <3> QED BY <3>5, <3>6
  <2> QED BY <2>1, <2>2
<1>9. RequestInv'
  BY <1>3, RequestsStay
<1> QED BY <1>3, <1>4, <1>7, <1>8, <1>9 DEF BucketTypeOK, ShardInv

(* The pipeline fails on its way.                                          *)
LEMMA WriteFailsKept ==
  ASSUME BatchTypeOK, ShardInv, RequestInv, NEW s \in Shards, WriteFails(s)
  PROVE  BatchTypeOK' /\ ShardInv' /\ RequestInv'
<1> DEFINE v == AllErrors(batch[s])
<1>1. /\ stage' = [stage EXCEPT ![s] = "send"] /\ verdict' = [verdict EXCEPT ![s] = v]
      /\ pipe' = [pipe EXCEPT ![s] = <<>>]
      /\ UNCHANGED <<version, currentIndex, pc, reply, queue, batch, results>>
  BY DEF WriteFails, requestVars
<1>2. v \in Seq({"error"}) /\ Len(v) = Len(batch[s])
  BY Decisions DEF BatchTypeOK
<1> HIDE DEF v
<1>3. \A i \in 1 .. Len(v) : v[i] = "error"
  BY <1>2
<1>4. v \in Seq(Verdicts)
  BY <1>2 DEF Verdicts
<1>5. BatchTypeOK'
  <2>1. /\ stage' \in [Shards -> {"idle", "write", "send", "exited"}]
        /\ verdict' \in [Shards -> Seq(Verdicts)] /\ pipe' \in [Shards -> Seq(Command)]
    BY <1>1, <1>4 DEF BatchTypeOK
  <2> QED BY <1>1, <2>1 DEF BatchTypeOK
<1>6. ASSUME NEW t \in Shards PROVE ShardExact(t)'
  <2>1. CASE t = s
    <3>1. stage'[s] = "send" /\ verdict'[s] = v /\ pipe'[s] = <<>>
      BY <1>1 DEF BatchTypeOK
    <3> QED BY <1>1, <1>2, <1>3, <2>1, <3>1 DEF ShardExact
  <2>2. CASE t # s
    <3>1. stage'[t] = stage[t] /\ verdict'[t] = verdict[t] /\ pipe'[t] = pipe[t]
      BY <1>1, <2>2 DEF BatchTypeOK
    <3> QED BY <1>1, <3>1, ShardStays DEF ShardInv
  <2> QED BY <2>1, <2>2
<1> QED BY <1>1, <1>5, <1>6, RequestsStay DEF ShardInv

(* The pipeline returns when all its commands have run.                    *)
LEMMA WriteReturnsKept ==
  ASSUME BatchTypeOK, ShardInv, RequestInv, NEW s \in Shards, WriteReturns(s)
  PROVE  BatchTypeOK' /\ ShardInv' /\ RequestInv'
<1> DEFINE b == batch[s]
           v == [i \in 1 .. Len(b) |-> IF PassedOver(b[i]) THEN "none" ELSE verdict[s][i]]
<1>1. /\ stage[s] = "write" /\ pipe[s] = <<>>
      /\ stage' = [stage EXCEPT ![s] = "send"] /\ verdict' = [verdict EXCEPT ![s] = v]
      /\ UNCHANGED <<version, currentIndex, pc, reply, queue, batch, results, pipe>>
  BY DEF WriteReturns, requestVars, BatchTypeOK
<1>2. Len(verdict[s]) = Len(b) /\ Len(b) \in Nat
  <2>1. Len(pipe[s]) = 0 /\ Len(verdict[s]) \in Nat /\ Len(b) \in Nat
    BY <1>1 DEF BatchTypeOK
  <2>2. \A x \in Nat : x + 0 = x
    OBVIOUS
  <2>3. \/ Len(verdict[s]) + Len(pipe[s]) = Len(b)
        \/ Len(verdict[s]) = Len(b)
    BY <1>1 DEF ShardInv, ShardExact
  <2> QED BY <2>1, <2>2, <2>3
<1>3. \A i \in 1 .. Len(b) : verdict[s][i] \in Verdicts
  BY <1>2 DEF BatchTypeOK
<1>4. v \in [1 .. Len(b) -> Verdicts]
  BY <1>3 DEF Verdicts
<1>5. v \in Seq(Verdicts) /\ Len(v) = Len(b)
  BY <1>2, <1>4, ListOf
<1>6. \A i \in 1 .. Len(b) : v[i] = "none" => pc[b[i].id] # "wait"
  BY <1>2 DEF PassedOver, ShardInv, ShardExact
<1> HIDE DEF v
<1>7. BatchTypeOK'
  <2>1. /\ stage' \in [Shards -> {"idle", "write", "send", "exited"}]
        /\ verdict' \in [Shards -> Seq(Verdicts)]
    BY <1>1, <1>5 DEF BatchTypeOK
  <2> QED BY <1>1, <2>1 DEF BatchTypeOK
<1>8. ASSUME NEW t \in Shards PROVE ShardExact(t)'
  <2>1. CASE t = s
    <3>1. stage'[s] = "send" /\ verdict'[s] = v
      BY <1>1 DEF BatchTypeOK
    <3>2. \A i \in 1 .. Len(b) : i <= Len(b)
      BY <1>2
    <3> QED BY <1>1, <1>5, <1>6, <2>1, <3>1, <3>2 DEF ShardExact
  <2>2. CASE t # s
    <3>1. stage'[t] = stage[t] /\ verdict'[t] = verdict[t]
      BY <1>1, <2>2 DEF BatchTypeOK
    <3> QED BY <1>1, <3>1, ShardStays DEF ShardInv
  <2> QED BY <2>1, <2>2
<1> QED BY <1>1, <1>7, <1>8, RequestsStay DEF ShardInv

(* A shard answers its batch.                                              *)
LEMMA SendResultsKept ==
  ASSUME BatchTypeOK, ShardInv, RequestInv, NEW s \in Shards, SendResults(s)
  PROVE  BatchTypeOK' /\ ShardInv' /\ RequestInv'
<1>1. /\ stage[s] = "send" /\ Answer(batch[s], verdict[s])
      /\ stage' = [stage EXCEPT ![s] = "idle"]
      /\ batch' = [batch EXCEPT ![s] = <<>>] /\ verdict' = [verdict EXCEPT ![s] = <<>>]
      /\ UNCHANGED <<version, currentIndex, pc, queue, pipe>>
  BY DEF SendResults
<1>2. /\ pipe[s] = <<>> /\ Len(verdict[s]) = Len(batch[s])
      /\ \A i \in 1 .. Len(verdict[s]) : verdict[s][i] = "none" => pc[batch[s][i].id] # "wait"
      /\ verdict[s] \in Seq(Verdicts) /\ batch[s] \in Seq(Item)
  BY <1>1 DEF ShardInv, ShardExact, BatchTypeOK
<1>3. /\ reply' \in [Requests -> Verdicts] /\ results' \subseteq Requests
      /\ batch' \in [Shards -> Seq(Item)] /\ RequestInv'
  BY <1>1, <1>2, Answered
<1>4. BatchTypeOK'
  <2>1. /\ stage' \in [Shards -> {"idle", "write", "send", "exited"}]
        /\ verdict' \in [Shards -> Seq(Verdicts)]
    <3>1. <<>> \in Seq(Verdicts)
      OBVIOUS
    <3> QED BY <1>1, <3>1 DEF BatchTypeOK
  <2> QED BY <1>1, <1>3, <2>1 DEF BatchTypeOK
<1>5. ASSUME NEW t \in Shards PROVE ShardExact(t)'
  <2>1. CASE t = s
    <3>1. stage'[s] = "idle" /\ batch'[s] = <<>> /\ verdict'[s] = <<>>
      BY <1>1 DEF BatchTypeOK
    <3>2. ~(\E i \in 1 .. Len(verdict'[s]) : TRUE)
      BY <3>1
    <3>3. pipe'[s] = <<>>
      BY <1>1, <1>2
    <3> QED BY <2>1, <3>1, <3>2, <3>3 DEF ShardExact
  <2>2. CASE t # s
    <3>1. stage'[t] = stage[t] /\ batch'[t] = batch[t] /\ verdict'[t] = verdict[t]
      BY <1>1, <2>2 DEF BatchTypeOK
    <3> QED BY <1>1, <3>1, ShardStays DEF ShardInv
  <2> QED BY <2>1, <2>2
<1> QED BY <1>3, <1>4, <1>5 DEF ShardInv

(* A shard that exits answers its queue with errors.                       *)
LEMMA FailPendingKept ==
  ASSUME BatchTypeOK, ShardInv, RequestInv, NEW s \in Shards, FailPending(s)
  PROVE  BatchTypeOK' /\ ShardInv' /\ RequestInv'
<1> DEFINE v == AllErrors(queue[s])
<1>1. /\ stage[s] = "idle" /\ Answer(queue[s], v)
      /\ stage' = [stage EXCEPT ![s] = "exited"] /\ queue' = [queue EXCEPT ![s] = <<>>]
      /\ UNCHANGED <<version, currentIndex, pc, batch, verdict, pipe>>
  BY DEF FailPending
<1>2. queue[s] \in Seq(Item)
  BY DEF BatchTypeOK
<1>3. v \in Seq({"error"}) /\ Len(v) = Len(queue[s])
  BY <1>2, Decisions
<1> HIDE DEF v
<1>4. v \in Seq(Verdicts) /\ \A i \in 1 .. Len(v) : v[i] # "none"
  BY <1>3 DEF Verdicts
<1>5. /\ reply' \in [Requests -> Verdicts] /\ results' \subseteq Requests
      /\ queue' \in [Shards -> Seq(Item)] /\ RequestInv'
  BY <1>1, <1>2, <1>3, <1>4, Answered
<1>6. BatchTypeOK'
  <2>1. stage' \in [Shards -> {"idle", "write", "send", "exited"}]
    BY <1>1 DEF BatchTypeOK
  <2> QED BY <1>1, <1>5, <2>1 DEF BatchTypeOK
<1>7. ASSUME NEW t \in Shards PROVE ShardExact(t)'
  <2>1. CASE t = s
    <3>1. stage'[s] = "exited"
      BY <1>1 DEF BatchTypeOK
    <3>2. ShardExact(s)
      BY DEF ShardInv
    <3> QED BY <1>1, <2>1, <3>1, <3>2 DEF ShardExact
  <2>2. CASE t # s
    <3>1. stage'[t] = stage[t]
      BY <1>1, <2>2 DEF BatchTypeOK
    <3> QED BY <1>1, <3>1, ShardStays DEF ShardInv
  <2> QED BY <2>1, <2>2
<1> QED BY <1>5, <1>6, <1>7 DEF ShardInv

--------------------------------------------------------------------------------
(* Every step of the pipelines keeps what is known of them.                *)
LEMMA BatchStep ==
  ASSUME BucketTypeOK, BatchTypeOK, ShardInv, RequestInv, BatchNext
  PROVE  BucketTypeOK' /\ BatchTypeOK' /\ ShardInv' /\ RequestInv'
<1>1. CASE Client
  BY <1>1, ClientKept
<1>2. ASSUME NEW s \in Shards, Shard(s)
      PROVE  BucketTypeOK' /\ BatchTypeOK' /\ ShardInv' /\ RequestInv'
  <2>1. ASSUME NEW at \in {clock - 1, clock} \cap Nat, ExecutePipeline(s, at)
        PROVE  BucketTypeOK' /\ BatchTypeOK' /\ ShardInv' /\ RequestInv'
    <3>1. UNCHANGED <<hash, clock>>
      BY <2>1 DEF ExecutePipeline, bucketVars
    <3> QED BY <2>1, <3>1, ExecutePipelineKept DEF BucketTypeOK
  <2>2. CASE ExecuteScripts(s)
    <3>1. UNCHANGED <<hash, clock>>
      BY <2>2 DEF ExecuteScripts, bucketVars
    <3> QED BY <2>2, <3>1, ExecuteScriptsKept DEF BucketTypeOK
  <2>3. CASE ReadFails(s)
    <3>1. UNCHANGED <<hash, clock>>
      BY <2>3 DEF ReadFails, bucketVars
    <3> QED BY <2>3, <3>1, ReadFailsKept DEF BucketTypeOK
  <2>4. CASE WriteBucket(s)
    BY <2>4, WriteBucketKept
  <2>5. CASE WriteFails(s)
    <3>1. UNCHANGED <<hash, clock>>
      BY <2>5 DEF WriteFails
    <3> QED BY <2>5, <3>1, WriteFailsKept DEF BucketTypeOK
  <2>6. CASE WriteReturns(s)
    <3>1. UNCHANGED <<hash, clock>>
      BY <2>6 DEF WriteReturns
    <3> QED BY <2>6, <3>1, WriteReturnsKept DEF BucketTypeOK
  <2>7. CASE SendResults(s)
    <3>1. UNCHANGED <<hash, clock>>
      BY <2>7 DEF SendResults, bucketVars
    <3> QED BY <2>7, <3>1, SendResultsKept DEF BucketTypeOK
  <2>8. CASE FailPending(s)
    <3>1. UNCHANGED <<hash, clock>>
      BY <2>8 DEF FailPending, bucketVars
    <3> QED BY <2>8, <3>1, FailPendingKept DEF BucketTypeOK
  <2> QED BY <1>2, <2>1, <2>2, <2>3, <2>4, <2>5, <2>6, <2>7, <2>8 DEF Shard
<1> QED BY <1>1, <1>2 DEF BatchNext, Client

(* No request is made yet, and the shards have nothing to do.              *)
LEMMA InitInv == Init => IInv
<1> SUFFICES ASSUME Init PROVE IInv
  OBVIOUS
<1> USE DEF Init, BucketInit, BatchInit, DirectInit
<1>1. NoHash \in Hashes
  <2>1. NoHash \in [{} -> Int] /\ {} \in SUBSET Fields
    BY DEF NoHash
  <2> QED BY <2>1 DEF Hashes
<1>2. BucketTypeOK /\ DirectTypeOK
  BY <1>1 DEF BucketTypeOK, DirectTypeOK
<1>3. BatchTypeOK
  <2>1. 0 \in Shards
    BY RedisBatchAssumption DEF Shards
  <2>2. <<>> \in Seq(Item) /\ <<>> \in Seq(Verdicts) /\ <<>> \in Seq(Command)
    OBVIOUS
  <2>3. "none" \in Verdicts
    BY DEF Verdicts
  <2> QED BY <2>1, <2>2, <2>3 DEF BatchTypeOK
<1>4. ASSUME NEW s \in Shards PROVE ShardExact(s)
  BY DEF ShardExact
<1>5. ASSUME NEW r \in Requests PROVE RequestExact(r)
  <2>1. ~In(<<>>, r) /\ Once(<<>>, r)
    BY DEF In, Once
  <2>2. \A s \in Shards : queue[s] = <<>> /\ batch[s] = <<>>
    OBVIOUS
  <2>3. AtMostOne(queue, batch, r) /\ Nowhere(queue, batch, r)
    BY <2>1, <2>2 DEF AtMostOne, Nowhere, AtShard
  <2>4. pc[r] # "wait" /\ reply[r] = "none" /\ r \notin results
    OBVIOUS
  <2> QED BY <2>3, <2>4 DEF RequestExact
<1> QED BY <1>2, <1>3, <1>4, <1>5 DEF IInv, TypeInv, ShardInv, RequestInv

(* Every step keeps the invariant, ...                                     *)
LEMMA Step == IInv /\ [Next]_vars => IInv'
<1> SUFFICES ASSUME IInv, [Next]_vars PROVE IInv'
  OBVIOUS
<1>1. BucketTypeOK /\ DirectTypeOK /\ BatchTypeOK /\ ShardInv /\ RequestInv
  BY DEF IInv, TypeInv
<1>2. ASSUME UNCHANGED batchVars PROVE BatchTypeOK' /\ ShardInv' /\ RequestInv'
  BY <1>1, <1>2, BatchStays DEF batchVars
<1>3. CASE Tick /\ UNCHANGED <<kind, batchVars, directVars>>
  <2>1. BucketTypeOK' /\ DirectTypeOK'
    BY <1>1, <1>3 DEF Tick, BucketTypeOK, DirectTypeOK, directVars
  <2> QED BY <1>2, <1>3, <2>1 DEF IInv, TypeInv
<1>4. CASE /\ Expire /\ dirty' = watching
           /\ UNCHANGED <<kind, batchVars, watching, ask, now, seen, attempt>>
  <2>1. NoHash \in [{} -> Int] /\ {} \in SUBSET Fields
    BY DEF NoHash
  <2>2. NoHash \in Hashes
    BY <2>1 DEF Hashes
  <2>3. BucketTypeOK' /\ DirectTypeOK'
    BY <1>1, <1>4, <2>2 DEF Expire, BucketTypeOK, DirectTypeOK
  <2> QED BY <1>2, <1>4, <2>3 DEF IInv, TypeInv
<1>5. CASE DirectNext /\ UNCHANGED <<kind, batchVars>>
  BY <1>1, <1>2, <1>5, DirectStep DEF IInv, TypeInv
<1>6. ASSUME NEW n \in 1 .. Burst, ScriptAllowN(n), UNCHANGED <<kind, batchVars, directVars>>
      PROVE  IInv'
  <2>1. BucketTypeOK'
    BY <1>1, <1>6, ScriptIs DEF ScriptAllowN, BucketTypeOK
  <2>2. DirectTypeOK'
    BY <1>1, <1>6 DEF DirectTypeOK, directVars
  <2> QED BY <1>2, <1>6, <2>1, <2>2 DEF IInv, TypeInv
<1>7. CASE BatchNext /\ UNCHANGED <<kind, directVars>>
  <2>1. DirectTypeOK'
    BY <1>1, <1>7 DEF DirectTypeOK, directVars
  <2> QED BY <1>1, <1>7, <2>1, BatchStep DEF IInv, TypeInv
<1>8. CASE UNCHANGED vars
  <2>1. BucketTypeOK' /\ DirectTypeOK'
    BY <1>1, <1>8 DEF vars, bucketVars, directVars, BucketTypeOK, DirectTypeOK
  <2> QED BY <1>2, <1>8, <2>1 DEF vars, IInv, TypeInv
<1> QED BY <1>3, <1>4, <1>5, <1>6, <1>7, <1>8 DEF Next

(* ... which holds from the start.                                         *)
LEMMA Inductive == Spec => []IInv
<1> QED BY InitInv, Step, PTL DEF Spec

(* However requests come, give up, are queued at a shard that exits, or    *)
(* fail with their pipeline: a request that waits for its answer has it,   *)
(* or is in the queue or the batch of one shard, and no request is twice   *)
(* anywhere (AllowN, executePipeline, failPending).                        *)
THEOREM RequestsInOnePlace == Spec => []OnePlace
<1>1. IInv => OnePlace
  <2> SUFFICES ASSUME IInv, NEW r \in Requests
               PROVE  /\ \A p, q \in Places(r) : p = q
                      /\ pc[r] = "wait" => (Places(r) = {} <=> reply[r] # "none")
    BY DEF OnePlace
  <2>1. RequestExact(r)
    BY DEF IInv, RequestInv
  <2> QED BY <2>1, PlacesAre DEF RequestExact
<1> QED BY <1>1, Inductive, PTL

(* The map of v3 has the answer of every released request that has not     *)
(* fetched it, and otherwise only answers that came after their requests   *)
(* had given up (storeResultAndRelease, takeResult, deleteResult).         *)
THEOREM ResultsAreKept == Spec => []ResultsKept
<1>1. IInv => ResultsKept
  BY DEF IInv, RequestInv, RequestExact, ResultsKept
<1> QED BY <1>1, Inductive, PTL

--------------------------------------------------------------------------------
(* The time that is refilled has passed.                                   *)
LEMMA RefillBound ==
  ASSUME NEW a \in Int, NEW b \in Int, b <= a
  PROVE  /\ (a - b) \div TicksPerToken \in Nat
         /\ TicksPerToken * ((a - b) \div TicksPerToken) <= a - b
         /\ a - b < TicksPerToken * ((a - b) \div TicksPerToken) + TicksPerToken
<1>1. TicksPerToken \in Nat /\ TicksPerToken > 0 /\ a - b \in Nat
  BY RedisBucketAssumption
<1> QED BY <1>1

(* Tokens that time covers are those of whole units.                       *)
LEMMA WholeTokens ==
  ASSUME NEW g \in Int, NEW x \in Int, NEW l \in Int, NEW t \in Nat, l <= t,
         TicksPerToken * g <= TicksPerToken * x + l
  PROVE  g <= x + (t \div TicksPerToken)
<1> DEFINE q == t \div TicksPerToken
<1>1. TicksPerToken \in Nat /\ TicksPerToken > 0
  BY RedisBucketAssumption
<1>2. q \in Int /\ t < TicksPerToken * q + TicksPerToken
  BY <1>1
<1> HIDE DEF q
<1>3. ASSUME g >= x + q + 1 PROVE FALSE
  <2>1. PICK d \in Nat : g = x + q + 1 + d
    <3>1. g - (x + q + 1) \in Nat /\ g = x + q + 1 + (g - (x + q + 1))
      BY <1>2, <1>3
    <3> QED BY <3>1
  <2>2. TicksPerToken * d \in Nat
    BY <1>1
  <2>3. TicksPerToken * g = TicksPerToken * x + TicksPerToken * q + TicksPerToken + TicksPerToken * d
    BY <1>1, <1>2, <2>1
  <2>4. TicksPerToken * x \in Int /\ TicksPerToken * q \in Int /\ TicksPerToken * g \in Int
    BY <1>1, <1>2
  <2> QED BY <1>1, <1>2, <2>2, <2>3, <2>4
<1>4. g <= x + q
  BY <1>2, <1>3
<1> QED BY <1>4 DEF q

(* A counter and the time are written.                                     *)
LEMMA SetBoth ==
  ASSUME NEW h \in Hashes, NEW f \in Fields \ {"last_ns"}, NEW v \in Int, NEW t \in Int,
         NEW w, w = HSet(HSet(h, f, v), "last_ns", t)
  PROVE  /\ f \in DOMAIN w /\ "last_ns" \in DOMAIN w
         /\ w[f] = v /\ w["last_ns"] = t
<1>1. f \in DOMAIN HSet(h, f, v) /\ HSet(h, f, v)[f] = v
  BY DEF HSet
<1> DEFINE g == HSet(h, f, v)
<1>2. f \in DOMAIN g /\ g[f] = v
  BY <1>1
<1> HIDE DEF g
<1>3. w = [x \in DOMAIN g \cup {"last_ns"} |-> IF x = "last_ns" THEN t ELSE g[x]]
  BY DEF g, HSet
<1> QED BY <1>2, <1>3

--------------------------------------------------------------------------------
(* A set of natural numbers has a least one, ...                           *)
LEMMA Least ==
  ASSUME NEW S, S \subseteq Nat, S # {}
  PROVE  \E m \in S : \A k \in S : ~(k < m)
<1>1. IsWellFoundedOn(OpToRel(<, Nat), Nat)
  BY NatLessThanWellFounded
<1>2. PICK m \in S : \A k \in S : ~(<<k, m>> \in OpToRel(<, Nat))
  BY <1>1, WFMin
<1>3. \A k \in S : <<k, m>> \in OpToRel(<, Nat) <=> k < m
  BY DEF OpToRel
<1> QED BY <1>2, <1>3

(* ... so that what holds of 0 and, with each number, of the next holds of *)
(* all.                                                                    *)
LEMMA Induction ==
  ASSUME NEW S, 0 \in S, \A n \in Nat : n \in S => n + 1 \in S
  PROVE  Nat \subseteq S
<1> SUFFICES ASSUME Nat \ S # {} PROVE FALSE
  OBVIOUS
<1>1. PICK m \in Nat \ S : \A k \in Nat \ S : ~(k < m)
  BY Least
<1>2. m - 1 \in Nat /\ m - 1 < m /\ (m - 1) + 1 = m
  BY <1>1
<1> QED BY <1>1, <1>2

(* The sum, as a recursive function, is there, ...                         *)
SumLoop(f, n, g) == g = [i \in 0 .. n |-> IF i = 0 THEN 0 ELSE g[i - 1] + f[i]]

LEMMA SumLoopExists ==
  ASSUME NEW f, NEW n \in Nat
  PROVE  \E g : SumLoop(f, n, g)
<1> DEFINE S == {m \in Nat : \E g : SumLoop(f, m, g)}
<1>1. 0 \in S
  <2> DEFINE h == [i \in 0 .. 0 |-> 0]
  <2>1. h = [i \in 0 .. 0 |-> IF i = 0 THEN 0 ELSE h[i - 1] + f[i]]
    OBVIOUS
  <2> HIDE DEF h
  <2> QED BY <2>1 DEF SumLoop
<1>2. ASSUME NEW m \in Nat, m \in S PROVE m + 1 \in S
  <2>1. PICK g : SumLoop(f, m, g)
    BY <1>2
  <2> DEFINE last == g[m] + f[m + 1]
             h == [i \in 0 .. (m + 1) |-> IF i = m + 1 THEN last ELSE g[i]]
  <2> HIDE DEF last
  <2>2. ASSUME NEW i \in 0 .. (m + 1)
        PROVE  h[i] = IF i = 0 THEN 0 ELSE h[i - 1] + f[i]
    <3>1. CASE i = m + 1
      <4>1. i # 0 /\ h[i] = last /\ i - 1 \in 0 .. (m + 1) /\ i - 1 # m + 1 /\ i - 1 = m
        BY <3>1
      <4>2. h[i - 1] = g[m]
        BY <4>1
      <4> QED BY <3>1, <4>1, <4>2 DEF last
    <3>2. CASE i # m + 1
      <4>1. i \in 0 .. m /\ h[i] = g[i]
        BY <3>2
      <4>2. g[i] = IF i = 0 THEN 0 ELSE g[i - 1] + f[i]
        BY <2>1, <4>1 DEF SumLoop
      <4>3. CASE i = 0
        BY <4>1, <4>2, <4>3
      <4>4. CASE i # 0
        <5>1. h[i - 1] = g[i - 1]
          BY <4>1, <4>4
        <5> QED BY <4>1, <4>2, <4>4, <5>1
      <4> QED BY <4>3, <4>4
    <3> QED BY <3>1, <3>2
  <2>3. h = [i \in 0 .. (m + 1) |-> h[i]]
    OBVIOUS
  <2> HIDE DEF h
  <2>4. SumLoop(f, m + 1, h)
    BY <2>2, <2>3 DEF SumLoop
  <2> QED BY <2>4
<1>3. Nat \subseteq S
  <2> HIDE DEF S
  <2> QED BY <1>1, <1>2, Induction
<1> QED BY <1>3

(* ... and one step longer adds one element.                               *)
LEMMA SumIs ==
  ASSUME NEW f
  PROVE  /\ SumTo(f, 0) = 0
         /\ \A n \in Nat : SumTo(f, n + 1) = SumTo(f, n) + f[n + 1]
<1> DEFINE loop(n) == CHOOSE g : SumLoop(f, n, g)
<1>1. ASSUME NEW n \in Nat PROVE SumTo(f, n) = loop(n)[n]
  BY DEF SumTo, SumLoop
<1>2. ASSUME NEW n \in Nat PROVE SumLoop(f, n, loop(n))
  BY SumLoopExists
<1> HIDE DEF loop
<1>3. ASSUME NEW n \in Nat, NEW i \in 0 .. n
      PROVE  loop(n)[i] = IF i = 0 THEN 0 ELSE loop(n)[i - 1] + f[i]
  BY <1>2 DEF SumLoop
<1>4. ASSUME NEW n \in Nat PROVE loop(n)[n] = loop(n + 1)[n]
  <2> DEFINE S == {i \in Nat : i <= n => loop(n)[i] = loop(n + 1)[i]}
  <2>1. 0 \in S
    BY <1>3
  <2>2. ASSUME NEW i \in Nat, i \in S PROVE i + 1 \in S
    <3> SUFFICES ASSUME i + 1 <= n PROVE loop(n)[i + 1] = loop(n + 1)[i + 1]
      OBVIOUS
    <3>1. loop(n)[i] = loop(n + 1)[i]
      BY <2>2
    <3>2. i + 1 \in 0 .. n /\ i + 1 \in 0 .. (n + 1) /\ i + 1 # 0 /\ (i + 1) - 1 = i
      OBVIOUS
    <3> QED BY <1>3, <3>1, <3>2
  <2>3. Nat \subseteq S
    <3> HIDE DEF S
    <3> QED BY <2>1, <2>2, Induction
  <2> QED BY <2>3
<1>5. SumTo(f, 0) = 0
  BY <1>1, <1>3
<1>6. ASSUME NEW n \in Nat PROVE SumTo(f, n + 1) = SumTo(f, n) + f[n + 1]
  <2>1. n + 1 \in Nat /\ n + 1 \in 0 .. (n + 1) /\ n + 1 # 0 /\ (n + 1) - 1 = n
    OBVIOUS
  <2>2. loop(n + 1)[n + 1] = loop(n + 1)[n] + f[n + 1]
    BY <1>3, <2>1
  <2> QED BY <1>1, <1>4, <2>1, <2>2
<1> QED BY <1>5, <1>6

(* Sums of integers: they are integers, ...                                *)
LEMMA SumInt ==
  ASSUME NEW n \in Nat, NEW f, \A i \in 1 .. n : f[i] \in Int
  PROVE  \A k \in 0 .. n : SumTo(f, k) \in Int
<1> DEFINE S == {k \in Nat : k <= n => SumTo(f, k) \in Int}
<1>1. 0 \in S
  BY SumIs
<1>2. ASSUME NEW k \in Nat, k \in S PROVE k + 1 \in S
  <2>1. SumTo(f, k + 1) = SumTo(f, k) + f[k + 1]
    BY SumIs
  <2> QED BY <1>2, <2>1
<1>3. Nat \subseteq S
  <2> HIDE DEF S
  <2> QED BY <1>1, <1>2, Induction
<1> QED BY <1>3

LEMMA SumType ==
  ASSUME NEW n \in Nat, NEW f, \A i \in 1 .. n : f[i] \in Int
  PROVE  SumTo(f, n) \in Int
<1>1. n \in 0 .. n
  OBVIOUS
<1> QED BY <1>1, SumInt

(* ... depend on nothing but the elements, ...                             *)
LEMMA SumSame ==
  ASSUME NEW n \in Nat, NEW f, NEW g, \A i \in 1 .. n : f[i] = g[i]
  PROVE  SumTo(f, n) = SumTo(g, n)
<1> DEFINE S == {k \in Nat : k <= n => SumTo(f, k) = SumTo(g, k)}
<1>1. 0 \in S
  BY SumIs
<1>2. ASSUME NEW k \in Nat, k \in S PROVE k + 1 \in S
  <2>1. /\ SumTo(f, k + 1) = SumTo(f, k) + f[k + 1]
        /\ SumTo(g, k + 1) = SumTo(g, k) + g[k + 1]
    BY SumIs
  <2> QED BY <1>2, <2>1
<1>3. Nat \subseteq S
  <2> HIDE DEF S
  <2> QED BY <1>1, <1>2, Induction
<1> QED BY <1>3

(* ... grow by no more than the elements do, ...                           *)
LEMMA SumGrows ==
  ASSUME NEW n \in Nat, NEW c \in Int, NEW f, NEW g,
         \A i \in 1 .. n : f[i] \in Int /\ g[i] \in Int /\ f[i] <= g[i] + c
  PROVE  SumTo(f, n) <= SumTo(g, n) + n * c
<1> DEFINE S == {k \in Nat : k <= n => SumTo(f, k) <= SumTo(g, k) + k * c}
<1>1. 0 \in S
  <2>1. 0 * c = 0
    OBVIOUS
  <2> QED BY SumIs, <2>1
<1>2. ASSUME NEW k \in Nat, k \in S PROVE k + 1 \in S
  <2> SUFFICES ASSUME k + 1 <= n PROVE SumTo(f, k + 1) <= SumTo(g, k + 1) + (k + 1) * c
    OBVIOUS
  <2>1. /\ SumTo(f, k + 1) = SumTo(f, k) + f[k + 1]
        /\ SumTo(g, k + 1) = SumTo(g, k) + g[k + 1]
    BY SumIs
  <2>2. SumTo(f, k) \in Int /\ SumTo(g, k) \in Int
    BY SumInt
  <2>3. f[k + 1] \in Int /\ g[k + 1] \in Int /\ f[k + 1] <= g[k + 1] + c
    OBVIOUS
  <2>4. (k + 1) * c = k * c + c /\ k * c \in Int
    OBVIOUS
  <2>5. SumTo(f, k) <= SumTo(g, k) + k * c
    BY <1>2
  <2> HIDE DEF S
  <2> QED BY <2>1, <2>2, <2>3, <2>4, <2>5
<1>3. Nat \subseteq S
  <2> HIDE DEF S
  <2> QED BY <1>1, <1>2, Induction
<1> QED BY <1>3

LEMMA SumAtMost ==
  ASSUME NEW n \in Nat, NEW f, NEW g,
         \A i \in 1 .. n : f[i] \in Int /\ g[i] \in Int /\ f[i] <= g[i]
  PROVE  SumTo(f, n) <= SumTo(g, n)
<1>1. \A i \in 1 .. n : f[i] \in Int /\ g[i] \in Int /\ f[i] <= g[i] + 0
  OBVIOUS
<1>2. SumTo(f, n) <= SumTo(g, n) + n * 0
  BY <1>1, SumGrows
<1>3. SumTo(f, n) \in Int /\ SumTo(g, n) \in Int
  BY SumInt
<1>4. n * 0 = 0
  OBVIOUS
<1> QED BY <1>2, <1>3, <1>4

(* ... lie between bounds that hold for each element, ...                  *)
LEMMA SumBetween ==
  ASSUME NEW n \in Nat, NEW f, NEW a \in Int, NEW b \in Int,
         \A i \in 1 .. n : f[i] \in Int /\ a <= f[i] /\ f[i] <= b
  PROVE  n * a <= SumTo(f, n) /\ SumTo(f, n) <= n * b
<1> DEFINE S == {k \in Nat : k <= n => k * a <= SumTo(f, k) /\ SumTo(f, k) <= k * b}
<1>1. 0 \in S
  <2>1. 0 * a = 0 /\ 0 * b = 0
    OBVIOUS
  <2> QED BY SumIs, <2>1
<1>2. ASSUME NEW k \in Nat, k \in S PROVE k + 1 \in S
  <2> SUFFICES ASSUME k + 1 <= n
               PROVE  (k + 1) * a <= SumTo(f, k + 1) /\ SumTo(f, k + 1) <= (k + 1) * b
    OBVIOUS
  <2>1. SumTo(f, k + 1) = SumTo(f, k) + f[k + 1] /\ SumTo(f, k) \in Int
    BY SumIs, SumInt
  <2>2. f[k + 1] \in Int /\ a <= f[k + 1] /\ f[k + 1] <= b
    OBVIOUS
  <2>3. /\ (k + 1) * a = k * a + a /\ k * a \in Int
        /\ (k + 1) * b = k * b + b /\ k * b \in Int
    OBVIOUS
  <2>4. k * a <= SumTo(f, k) /\ SumTo(f, k) <= k * b
    BY <1>2
  <2> HIDE DEF S
  <2> QED BY <2>1, <2>2, <2>3, <2>4
<1>3. Nat \subseteq S
  <2> HIDE DEF S
  <2> QED BY <1>1, <1>2, Induction
<1> QED BY <1>3

(* ... and follow a change of one element.                                 *)
LEMMA SumChanges ==
  ASSUME NEW n \in Nat, NEW j \in 1 .. n, NEW f, NEW g,
         \A i \in 1 .. n : f[i] \in Int /\ g[i] \in Int /\ (i # j => f[i] = g[i])
  PROVE  SumTo(f, n) = SumTo(g, n) - g[j] + f[j]
<1> DEFINE S == {k \in Nat : j <= k /\ k <= n =>
                   SumTo(f, k) = SumTo(g, k) - g[j] + f[j]}
<1>1. 0 \in S
  OBVIOUS
<1>2. ASSUME NEW k \in Nat, k \in S PROVE k + 1 \in S
  <2> SUFFICES ASSUME j <= k + 1, k + 1 <= n
               PROVE  SumTo(f, k + 1) = SumTo(g, k + 1) - g[j] + f[j]
    OBVIOUS
  <2>1. /\ SumTo(f, k + 1) = SumTo(f, k) + f[k + 1]
        /\ SumTo(g, k + 1) = SumTo(g, k) + g[k + 1]
    BY SumIs
  <2>2. SumTo(f, k) \in Int /\ SumTo(g, k) \in Int
    BY SumInt
  <2>3. /\ f[k + 1] \in Int /\ g[k + 1] \in Int /\ f[j] \in Int /\ g[j] \in Int
    OBVIOUS
  <2>4. CASE j = k + 1
    <3>1. \A i \in 1 .. k : f[i] = g[i]
      BY <2>4
    <3>2. SumTo(f, k) = SumTo(g, k)
      BY <3>1, SumSame
    <3> QED BY <2>1, <2>2, <2>3, <2>4, <3>2
  <2>5. CASE j <= k
    <3>1. SumTo(f, k) = SumTo(g, k) - g[j] + f[j] /\ f[k + 1] = g[k + 1]
      BY <1>2, <2>5
    <3> HIDE DEF S
    <3> QED BY <2>1, <2>2, <2>3, <3>1
  <2> QED BY <2>4, <2>5
<1>3. Nat \subseteq S
  <2> HIDE DEF S
  <2> QED BY <1>1, <1>2, Induction
<1> QED BY <1>3

(* The first element, instead of the last, may be taken out.               *)
LEMMA SumFirst ==
  ASSUME NEW n \in Nat, NEW f, NEW g,
         \A i \in 1 .. n + 1 : f[i] \in Int,
         \A i \in 1 .. n : g[i] = f[i + 1]
  PROVE  SumTo(f, n + 1) = f[1] + SumTo(g, n)
<1> DEFINE S == {k \in Nat : k <= n => SumTo(f, k + 1) = f[1] + SumTo(g, k)}
<1>1. 0 \in S
  <2>1. SumTo(f, 0 + 1) = SumTo(f, 0) + f[0 + 1] /\ SumTo(f, 0) = 0 /\ SumTo(g, 0) = 0
    BY SumIs
  <2>2. 0 + 1 = 1 /\ f[1] \in Int
    OBVIOUS
  <2> QED BY <2>1, <2>2
<1>2. ASSUME NEW k \in Nat, k \in S PROVE k + 1 \in S
  <2> SUFFICES ASSUME k + 1 <= n
               PROVE  SumTo(f, (k + 1) + 1) = f[1] + SumTo(g, k + 1)
    OBVIOUS
  <2>1. SumTo(f, (k + 1) + 1) = SumTo(f, k + 1) + f[(k + 1) + 1]
    BY SumIs
  <2>2. SumTo(g, k + 1) = SumTo(g, k) + g[k + 1] /\ g[k + 1] = f[(k + 1) + 1]
    BY SumIs
  <2>3. SumTo(f, k + 1) = f[1] + SumTo(g, k)
    BY <1>2
  <2>4. \A i \in 1 .. n : g[i] \in Int
    OBVIOUS
  <2>5. SumTo(g, k) \in Int
    BY <2>4, SumInt
  <2>6. f[1] \in Int /\ f[(k + 1) + 1] \in Int
    OBVIOUS
  <2> HIDE DEF S
  <2> QED BY <2>1, <2>2, <2>3, <2>5, <2>6
<1>3. Nat \subseteq S
  <2> HIDE DEF S
  <2> QED BY <1>1, <1>2, Induction
<1> QED BY <1>3

(* Sums are added element by element.                                      *)
LEMMA SumPlus ==
  ASSUME NEW n \in Nat, NEW f, NEW g, NEW h,
         \A i \in 1 .. n : f[i] \in Int /\ g[i] \in Int /\ h[i] = f[i] + g[i]
  PROVE  SumTo(h, n) = SumTo(f, n) + SumTo(g, n)
<1> DEFINE S == {k \in Nat : k <= n => SumTo(h, k) = SumTo(f, k) + SumTo(g, k)}
<1>1. 0 \in S
  BY SumIs
<1>2. ASSUME NEW k \in Nat, k \in S PROVE k + 1 \in S
  <2> SUFFICES ASSUME k + 1 <= n
               PROVE  SumTo(h, k + 1) = SumTo(f, k + 1) + SumTo(g, k + 1)
    OBVIOUS
  <2>1. /\ SumTo(f, k + 1) = SumTo(f, k) + f[k + 1]
        /\ SumTo(g, k + 1) = SumTo(g, k) + g[k + 1]
        /\ SumTo(h, k + 1) = SumTo(h, k) + h[k + 1]
    BY SumIs
  <2>2. SumTo(f, k) \in Int /\ SumTo(g, k) \in Int
    BY SumInt
  <2>3. f[k + 1] \in Int /\ g[k + 1] \in Int /\ h[k + 1] = f[k + 1] + g[k + 1]
    OBVIOUS
  <2>4. SumTo(h, k) = SumTo(f, k) + SumTo(g, k)
    BY <1>2
  <2> HIDE DEF S
  <2> QED BY <2>1, <2>2, <2>3, <2>4
<1>3. Nat \subseteq S
  <2> HIDE DEF S
  <2> QED BY <1>1, <1>2, Induction
<1> QED BY <1>3

(* Nothing but zeros.                                                      *)
LEMMA SumZero ==
  ASSUME NEW n \in Nat, NEW f, \A i \in 1 .. n : f[i] = 0
  PROVE  SumTo(f, n) = 0
<1>1. n * 0 <= SumTo(f, n) /\ SumTo(f, n) <= n * 0
  <2>1. \A i \in 1 .. n : f[i] \in Int /\ 0 <= f[i] /\ f[i] <= 0
    OBVIOUS
  <2> QED BY <2>1, SumBetween
<1>2. SumTo(f, n) \in Int
  BY SumInt
<1>3. n * 0 = 0
  OBVIOUS
<1> QED BY <1>1, <1>2, <1>3

--------------------------------------------------------------------------------
(* The sum over all pairs of the larger of two elements.                   *)
Larger(a, b)  == IF a > b THEN a ELSE b
Row(a, n, i)  == SumTo([j \in 1 .. n |-> Larger(a[i], a[j])], i - 1)
Rows(a, n)    == [i \in 1 .. n |-> Row(a, n, i)]
PairSum(a, n) == SumTo(Rows(a, n), n)

LEMMA RowsInt ==
  ASSUME NEW n \in Nat, NEW a, \A i \in 1 .. n : a[i] \in Nat
  PROVE  \A i \in 1 .. n : Rows(a, n)[i] = Row(a, n, i) /\ Row(a, n, i) \in Int
<1> SUFFICES ASSUME NEW i \in 1 .. n
             PROVE  Rows(a, n)[i] = Row(a, n, i) /\ Row(a, n, i) \in Int
  OBVIOUS
<1> DEFINE f == [j \in 1 .. n |-> Larger(a[i], a[j])]
<1>1. \A j \in 1 .. i - 1 : f[j] \in Int
  BY DEF Larger
<1>2. i - 1 \in Nat
  OBVIOUS
<1> HIDE DEF f
<1>3. SumTo(f, i - 1) \in Int
  BY <1>1, <1>2, SumInt
<1> QED BY <1>3 DEF Rows, Row, f

(* If no element grows by more than 1, no pair does.                       *)
LEMMA PairsLater ==
  ASSUME NEW n \in Nat, NEW a, NEW b,
         \A i \in 1 .. n : a[i] \in Nat /\ b[i] \in Nat /\ b[i] <= a[i] + 1
  PROVE  2 * PairSum(b, n) <= 2 * PairSum(a, n) + n * (n - 1)
<1> DEFINE R == Rows(a, n)
           Q == Rows(b, n)
<1>1. \A i \in 1 .. n : R[i] \in Int /\ Q[i] \in Int
  BY RowsInt
<1>2. ASSUME NEW i \in 1 .. n PROVE Q[i] <= R[i] + (i - 1)
  <2> DEFINE f == [j \in 1 .. n |-> Larger(b[i], b[j])]
             g == [j \in 1 .. n |-> Larger(a[i], a[j])]
  <2>1. i - 1 \in Nat /\ \A j \in 1 .. i - 1 : j \in 1 .. n
    OBVIOUS
  <2>2. \A j \in 1 .. i - 1 : f[j] \in Int /\ g[j] \in Int /\ f[j] <= g[j] + 1
    BY <2>1 DEF Larger
  <2>3. Q[i] = SumTo(f, i - 1) /\ R[i] = SumTo(g, i - 1)
    BY DEF Rows, Row
  <2> HIDE DEF f, g
  <2>4. SumTo(f, i - 1) <= SumTo(g, i - 1) + (i - 1) * 1
    <3> DEFINE m == i - 1
               c == 1
    <3>1. \A j \in 1 .. m : f[j] \in Int /\ g[j] \in Int /\ f[j] <= g[j] + c
      BY <2>2
    <3>2. m \in Nat /\ c \in Int
      BY <2>1
    <3> HIDE DEF m, c
    <3>3. SumTo(f, m) <= SumTo(g, m) + m * c
      BY <3>1, <3>2, SumGrows
    <3> QED BY <3>3 DEF m, c
  <2>5. (i - 1) * 1 = i - 1
    OBVIOUS
  <2> HIDE DEF R, Q
  <2> QED BY <2>3, <2>4, <2>5
<1> HIDE DEF R, Q
<1> DEFINE S == {k \in Nat : k <= n => 2 * SumTo(Q, k) <= 2 * SumTo(R, k) + k * (k - 1)}
<1>3. 0 \in S
  <2>1. 0 * (0 - 1) = 0
    OBVIOUS
  <2> QED BY SumIs, <2>1
<1>4. ASSUME NEW k \in Nat, k \in S PROVE k + 1 \in S
  <2> SUFFICES ASSUME k + 1 <= n
               PROVE  2 * SumTo(Q, k + 1) <= 2 * SumTo(R, k + 1) + (k + 1) * ((k + 1) - 1)
    OBVIOUS
  <2>1. /\ SumTo(Q, k + 1) = SumTo(Q, k) + Q[k + 1]
        /\ SumTo(R, k + 1) = SumTo(R, k) + R[k + 1]
    BY SumIs
  <2>2. SumTo(Q, k) \in Int /\ SumTo(R, k) \in Int
    BY <1>1, SumInt
  <2>3. Q[k + 1] \in Int /\ R[k + 1] \in Int /\ Q[k + 1] <= R[k + 1] + k
    BY <1>1, <1>2
  <2>4. (k + 1) * ((k + 1) - 1) = k * (k - 1) + 2 * k /\ k * (k - 1) \in Int
    OBVIOUS
  <2>5. 2 * SumTo(Q, k) <= 2 * SumTo(R, k) + k * (k - 1)
    BY <1>4
  <2> HIDE DEF S
  <2> QED BY <2>1, <2>2, <2>3, <2>4, <2>5
<1>5. Nat \subseteq S
  <2> HIDE DEF S
  <2> QED BY <1>3, <1>4, Induction
<1>6. PairSum(b, n) = SumTo(Q, n) /\ PairSum(a, n) = SumTo(R, n)
  BY DEF PairSum, Q, R
<1> QED BY <1>5, <1>6

(* If one element goes to 0, the pairs lose at least what it is larger     *)
(* than each of the others.                                                *)
LEMMA PairsPaid ==
  ASSUME NEW n \in Nat, NEW s \in 1 .. n, NEW a, NEW b, NEW d,
         \A i \in 1 .. n : a[i] \in Nat /\ b[i] = IF i = s THEN 0 ELSE a[i],
         \A i \in 1 .. n : d[i] = IF i = s THEN 0 ELSE Larger(a[s], a[i]) - a[i]
  PROVE  PairSum(b, n) + SumTo(d, n) <= PairSum(a, n)
<1> DEFINE R == Rows(a, n)
           Q == Rows(b, n)
<1>1. \A i \in 1 .. n : R[i] \in Int /\ Q[i] \in Int /\ d[i] \in Nat
  <2>1. \A i \in 1 .. n : R[i] \in Int /\ Q[i] \in Int
    BY RowsInt
  <2>2. \A i \in 1 .. n : d[i] \in Nat
    BY DEF Larger
  <2> QED BY <2>1, <2>2
<1>2. ASSUME NEW i \in 1 .. n
      PROVE  IF i < s THEN Q[i] = R[i]
             ELSE IF i = s THEN Q[i] + SumTo(d, i - 1) <= R[i]
             ELSE Q[i] + d[i] <= R[i]
  <2> DEFINE f == [j \in 1 .. n |-> Larger(b[i], b[j])]
             g == [j \in 1 .. n |-> Larger(a[i], a[j])]
  <2>1. i - 1 \in Nat /\ \A j \in 1 .. i - 1 : j \in 1 .. n
    OBVIOUS
  <2>2. Q[i] = SumTo(f, i - 1) /\ R[i] = SumTo(g, i - 1)
    BY DEF Rows, Row
  <2>3. \A j \in 1 .. i - 1 : f[j] \in Int /\ g[j] \in Int
    BY <2>1 DEF Larger
  <2>4. CASE i < s
    <3>1. \A j \in 1 .. i - 1 : f[j] = g[j]
      BY <2>1, <2>4
    <3> HIDE DEF f, g
    <3>2. SumTo(f, i - 1) = SumTo(g, i - 1)
      BY <2>1, <3>1, SumSame
    <3> HIDE DEF R, Q
    <3> QED BY <2>2, <2>4, <3>2
  <2>5. CASE i = s
    <3> DEFINE h == [j \in 1 .. n |-> f[j] + d[j]]
    <3>1. \A j \in 1 .. i - 1 : f[j] = a[j] /\ g[j] = Larger(a[s], a[j]) /\ j # s
      BY <2>1, <2>5 DEF Larger
    <3>2. \A j \in 1 .. i - 1 : h[j] = f[j] + d[j] /\ d[j] \in Int /\ h[j] = g[j]
      <4> SUFFICES ASSUME NEW j \in 1 .. i - 1
                   PROVE  h[j] = f[j] + d[j] /\ d[j] \in Int /\ h[j] = g[j]
        OBVIOUS
      <4>1. j \in 1 .. n /\ j # s /\ a[j] \in Nat /\ a[s] \in Nat
        BY <2>1, <3>1
      <4>2. d[j] = Larger(a[s], a[j]) - a[j] /\ Larger(a[s], a[j]) \in Int
        BY <4>1 DEF Larger
      <4>3. f[j] = a[j] /\ g[j] = Larger(a[s], a[j])
        BY <3>1
      <4>4. h[j] = f[j] + d[j]
        BY <4>1
      <4> HIDE DEF f, g, h
      <4> QED BY <4>1, <4>2, <4>3, <4>4
    <3> HIDE DEF f, g, h
    <3>3. SumTo(h, i - 1) = SumTo(f, i - 1) + SumTo(d, i - 1)
      BY <2>1, <2>3, <3>2, SumPlus
    <3>4. SumTo(h, i - 1) = SumTo(g, i - 1)
      BY <2>1, <3>2, SumSame
    <3>5. \A j \in 1 .. i - 1 : d[j] \in Int
      BY <3>2
    <3>6. SumTo(f, i - 1) \in Int /\ SumTo(g, i - 1) \in Int /\ SumTo(d, i - 1) \in Int
      BY <2>1, <2>3, <3>5, SumInt
    <3> HIDE DEF R, Q
    <3> QED BY <2>2, <2>5, <3>3, <3>4, <3>6
  <2>6. CASE i > s
    <3>1. s \in 1 .. i - 1
      BY <2>6
    <3>2. \A j \in 1 .. i - 1 : j # s => f[j] = g[j]
      BY <2>1, <2>6
    <3>3. f[s] = a[i] /\ g[s] = Larger(a[s], a[i]) /\ d[i] = Larger(a[s], a[i]) - a[i]
      BY <2>6 DEF Larger
    <3> HIDE DEF f, g
    <3>4. SumTo(f, i - 1) = SumTo(g, i - 1) - g[s] + f[s]
      BY <2>1, <2>3, <3>1, <3>2, SumChanges
    <3>5. SumTo(f, i - 1) \in Int /\ SumTo(g, i - 1) \in Int /\ a[i] \in Int /\ g[s] \in Int
      BY <2>1, <2>3, <3>1, SumInt
    <3> HIDE DEF R, Q
    <3> QED BY <2>2, <2>6, <3>3, <3>4, <3>5
  <2> QED BY <2>4, <2>5, <2>6
<1> HIDE DEF R, Q
<1> DEFINE S == {k \in Nat : k <= n =>
                   IF k < s THEN SumTo(Q, k) = SumTo(R, k)
                   ELSE SumTo(Q, k) + SumTo(d, k) <= SumTo(R, k)}
<1>3. 0 \in S
  BY SumIs
<1>4. ASSUME NEW k \in Nat, k \in S PROVE k + 1 \in S
  <2> SUFFICES ASSUME k + 1 <= n
               PROVE  IF k + 1 < s THEN SumTo(Q, k + 1) = SumTo(R, k + 1)
                      ELSE SumTo(Q, k + 1) + SumTo(d, k + 1) <= SumTo(R, k + 1)
    OBVIOUS
  <2>1. /\ SumTo(Q, k + 1) = SumTo(Q, k) + Q[k + 1]
        /\ SumTo(R, k + 1) = SumTo(R, k) + R[k + 1]
        /\ SumTo(d, k + 1) = SumTo(d, k) + d[k + 1]
    BY SumIs
  <2>2. SumTo(Q, k) \in Int /\ SumTo(R, k) \in Int /\ SumTo(d, k) \in Int
    <3>1. \A i \in 1 .. n : d[i] \in Int
      BY <1>1
    <3> QED BY <1>1, <3>1, SumInt
  <2>3. k + 1 \in 1 .. n /\ Q[k + 1] \in Int /\ R[k + 1] \in Int /\ d[k + 1] \in Int
    BY <1>1
  <2>4. IF k < s THEN SumTo(Q, k) = SumTo(R, k)
        ELSE SumTo(Q, k) + SumTo(d, k) <= SumTo(R, k)
    BY <1>4
  <2>5. IF k + 1 < s THEN Q[k + 1] = R[k + 1]
        ELSE IF k + 1 = s THEN Q[k + 1] + SumTo(d, k) <= R[k + 1]
        ELSE Q[k + 1] + d[k + 1] <= R[k + 1]
    <3>1. (k + 1) - 1 = k
      OBVIOUS
    <3> QED BY <1>2, <2>3, <3>1
  <2>6. k + 1 = s => d[k + 1] = 0
    BY <2>3
  <2> HIDE DEF S
  <2>7. CASE k + 1 < s
    BY <2>1, <2>2, <2>3, <2>4, <2>5, <2>7
  <2>8. CASE k + 1 = s
    BY <2>1, <2>2, <2>3, <2>4, <2>5, <2>6, <2>8
  <2>9. CASE k + 1 > s
    BY <2>1, <2>2, <2>3, <2>4, <2>5, <2>9
  <2> QED BY <2>7, <2>8, <2>9
<1>5. Nat \subseteq S
  <2> HIDE DEF S
  <2> QED BY <1>3, <1>4, Induction
<1>6. PairSum(b, n) = SumTo(Q, n) /\ PairSum(a, n) = SumTo(R, n)
  BY DEF PairSum, Q, R
<1> QED BY <1>5, <1>6

--------------------------------------------------------------------------------
(* What a pipeline has still to add to the tokens.                         *)
Moves(p)   == [i \in 1 .. Len(p) |-> IF p[i].field = "tokens" THEN p[i].by ELSE 0]
Balance(p) == SumTo(Moves(p), Len(p))

(* What is left of a pipeline of v3 or v4: if anything, the time at the    *)
(* end, and before it the tokens, nothing being added but by the first.    *)
Pipeline(p) ==
  p # <<>> =>
    /\ \A i \in 1 .. Len(p) : p[i].field = IF i = Len(p) THEN "last_ns" ELSE "tokens"
    /\ \A i \in 2 .. Len(p) - 1 : p[i].by <= 0
    /\ p[Len(p)].by \in 0 .. clock

LEMMA MovesInt ==
  ASSUME NEW p \in Seq(Command)
  PROVE  /\ Len(p) \in Nat /\ \A i \in 1 .. Len(p) : Moves(p)[i] \in Int
         /\ Balance(p) \in Int
<1>1. Len(p) \in Nat /\ \A i \in 1 .. Len(p) : p[i] \in Command
  OBVIOUS
<1>2. \A i \in 1 .. Len(p) : p[i].by \in Int
  BY <1>1 DEF Command
<1>3. \A i \in 1 .. Len(p) : Moves(p)[i] \in Int
  BY <1>2 DEF Moves
<1>4. SumTo(Moves(p), Len(p)) \in Int
  <2> DEFINE n == Len(p)
  <2>1. n \in Nat /\ \A i \in 1 .. n : Moves(p)[i] \in Int
    BY <1>1, <1>3
  <2> HIDE DEF n
  <2>2. SumTo(Moves(p), n) \in Int
    BY <2>1, SumType
  <2> QED BY <2>2 DEF n
<1> QED BY <1>1, <1>3, <1>4 DEF Balance

LEMMA BalanceNone == Balance(<<>>) = 0
<1>1. Len(<<>>) = 0
  OBVIOUS
<1> QED BY <1>1, SumIs DEF Balance

(* The next command's share, and the rest.                                 *)
LEMMA BalanceNext ==
  ASSUME NEW p \in Seq(Command), p # <<>>
  PROVE  /\ Tail(p) \in Seq(Command) /\ Head(p) = p[1] /\ p[1] \in Command
         /\ Len(Tail(p)) = Len(p) - 1
         /\ \A i \in 1 .. Len(Tail(p)) : Tail(p)[i] = p[i + 1]
         /\ Balance(p) = Moves(p)[1] + Balance(Tail(p))
<1>1. /\ Tail(p) \in Seq(Command) /\ Head(p) = p[1] /\ p[1] \in Command
      /\ Len(Tail(p)) = Len(p) - 1 /\ Len(p) \in Nat /\ Len(p) >= 1
      /\ \A i \in 1 .. Len(Tail(p)) : Tail(p)[i] = p[i + 1]
  OBVIOUS
<1>2. \A i \in 1 .. Len(p) : Moves(p)[i] \in Int
  BY MovesInt
<1> DEFINE n == Len(p) - 1
<1>3. n \in Nat /\ Len(p) = n + 1 /\ Len(Tail(p)) = n
  BY <1>1
<1>4. \A i \in 1 .. n : Moves(Tail(p))[i] = Moves(p)[i + 1]
  BY <1>1, <1>3 DEF Moves
<1>5. \A i \in 1 .. n + 1 : Moves(p)[i] \in Int
  BY <1>2, <1>3
<1> HIDE DEF n
<1>6. SumTo(Moves(p), n + 1) = Moves(p)[1] + SumTo(Moves(Tail(p)), n)
  BY <1>3, <1>4, <1>5, SumFirst
<1> QED BY <1>1, <1>3, <1>6 DEF Balance

(* What is left after the first command takes tokens, if anything.         *)
LEMMA RestTakes ==
  ASSUME NEW p \in Seq(Command), p # <<>>, Pipeline(p), clock \in Nat
  PROVE  /\ Balance(p) \in Int /\ Balance(Tail(p)) \in Int /\ Balance(Tail(p)) <= 0
         /\ Pipeline(Tail(p))
         /\ Tail(p) # <<>> => /\ Head(p).field = "tokens" /\ Moves(p)[1] = Head(p).by
                              /\ Tail(p)[Len(Tail(p))] = p[Len(p)]
                              /\ Balance(Tail(Tail(p))) \in Int
                              /\ Balance(Tail(p)) <= Balance(Tail(Tail(p)))
         /\ Tail(p) = <<>> => /\ Head(p) = p[Len(p)] /\ Head(p).field = "last_ns"
                              /\ Balance(p) = 0 /\ Balance(Tail(p)) = 0
         /\ Head(p).by \in Int
<1> DEFINE q == Tail(p)
<1>1. /\ q \in Seq(Command) /\ Head(p) = p[1] /\ Head(p).by \in Int
      /\ Len(p) \in Nat /\ Len(p) >= 1 /\ Len(q) = Len(p) - 1
      /\ \A i \in 1 .. Len(q) : q[i] = p[i + 1]
  <2>1. Len(p) \in Nat /\ Len(p) >= 1
    OBVIOUS
  <2>2. p[1].by \in Int
    BY BalanceNext DEF Command
  <2> QED BY <2>1, <2>2, BalanceNext
<1>2. Balance(p) \in Int /\ Balance(q) \in Int /\ \A i \in 1 .. Len(q) : Moves(q)[i] \in Int
  BY <1>1, MovesInt
<1>3. Balance(p) = Moves(p)[1] + Balance(q)
  BY BalanceNext
<1>4. \A i \in 1 .. Len(q) : Moves(q)[i] <= 0
  <2> SUFFICES ASSUME NEW i \in 1 .. Len(q) PROVE Moves(q)[i] <= 0
    OBVIOUS
  <2>1. q[i] = p[i + 1] /\ i + 1 \in 2 .. Len(p) /\ i + 1 \in 1 .. Len(p)
    BY <1>1
  <2>2. q[i].field = "tokens" => q[i].by <= 0
    <3>1. CASE i + 1 = Len(p)
      BY <2>1, <3>1 DEF Pipeline
    <3>2. CASE i + 1 # Len(p)
      <4>1. i + 1 \in 2 .. Len(p) - 1
        BY <2>1, <3>2
      <4> HIDE DEF q
      <4> QED BY <2>1, <4>1 DEF Pipeline
    <3> QED BY <3>1, <3>2
  <2> QED BY <2>2 DEF Moves
<1>5. Balance(q) <= 0
  <2>1. Len(q) \in Nat
    BY <1>1
  <2> DEFINE z == [i \in 1 .. Len(q) |-> 0]
  <2>2. \A i \in 1 .. Len(q) : Moves(q)[i] \in Int /\ z[i] \in Int /\ Moves(q)[i] <= z[i]
    BY <1>2, <1>4
  <2>3. \A i \in 1 .. Len(q) : z[i] = 0
    OBVIOUS
  <2> HIDE DEF z, q
  <2>4. SumTo(Moves(q), Len(q)) <= SumTo(z, Len(q)) /\ SumTo(z, Len(q)) = 0
    BY <2>1, <2>2, <2>3, SumAtMost, SumZero
  <2> QED BY <2>4 DEF Balance
<1>6. CASE q = <<>>
  <2> HIDE DEF q
  <2>1. Len(q) = 0
    BY <1>6
  <2>6. Len(p) = 1
    BY <1>1, <2>1
  <2>7. Len(p) = 1 /\ Head(p) = p[Len(p)]
    BY <1>1, <2>6
  <2>2. p[1].field = "last_ns"
    BY <2>7 DEF Pipeline
  <2>3. Moves(p)[1] = 0 /\ Balance(q) = 0
    BY <1>6, <2>7, <2>2, BalanceNone DEF Moves
  <2>4. Pipeline(q)
    BY <1>6 DEF Pipeline
  <2>5. Balance(p) = 0 /\ Head(p).field = "last_ns"
    BY <1>1, <1>3, <2>2, <2>3
  <2> QED BY <1>1, <1>2, <1>6, <2>7, <2>3, <2>4, <2>5 DEF q
<1>7. CASE q # <<>>
  <2>1. Len(p) >= 2 /\ Len(q) >= 1 /\ Len(q) = Len(p) - 1
    <3> HIDE DEF q
    <3>1. Len(q) \in Nat /\ Len(q) # 0
      BY <1>1, <1>7
    <3> QED BY <1>1, <3>1
  <2>2. p[1].field = "tokens" /\ Moves(p)[1] = p[1].by
    <3>1. 1 \in 1 .. Len(p) /\ 1 # Len(p)
      BY <1>1, <2>1
    <3>2. p[1].field = "tokens"
      BY <3>1 DEF Pipeline
    <3> QED BY <3>1, <3>2 DEF Moves
  <2>3. q[Len(q)] = p[Len(p)]
    BY <1>1, <2>1
  <2>4. Pipeline(q)
    <3>1. ASSUME NEW i \in 1 .. Len(q)
          PROVE  q[i].field = IF i = Len(q) THEN "last_ns" ELSE "tokens"
      <4>1. q[i] = p[i + 1] /\ i + 1 \in 1 .. Len(p) /\ (i + 1 = Len(p) <=> i = Len(q))
        BY <1>1
      <4> HIDE DEF q
      <4> QED BY <4>1 DEF Pipeline
    <3>2. ASSUME NEW i \in 2 .. Len(q) - 1 PROVE q[i].by <= 0
      <4>1. q[i] = p[i + 1] /\ i + 1 \in 2 .. Len(p) - 1
        BY <1>1
      <4> HIDE DEF q
      <4> QED BY <4>1 DEF Pipeline
    <3>3. q[Len(q)].by \in 0 .. clock
      BY <2>3 DEF Pipeline
    <3> HIDE DEF q
    <3> QED BY <3>1, <3>2, <3>3 DEF Pipeline
  <2>5. Balance(q) = Moves(q)[1] + Balance(Tail(q)) /\ Tail(q) \in Seq(Command)
    BY <1>1, <1>7, BalanceNext
  <2>6. Balance(Tail(q)) \in Int
    BY <2>5, MovesInt
  <2>7. Moves(q)[1] <= 0 /\ Moves(q)[1] \in Int
    BY <1>2, <1>4, <2>1
  <2>8. Balance(q) <= Balance(Tail(q))
    BY <1>2, <2>5, <2>6, <2>7
  <2> HIDE DEF q
  <2> QED BY <1>1, <1>2, <1>5, <1>7, <2>2, <2>3, <2>4, <2>6, <2>8 DEF q
<1> QED BY <1>6, <1>7

--------------------------------------------------------------------------------
(* What a batch is given: nothing less than nothing, ...                   *)
LEMMA GivenNat ==
  ASSUME NEW b \in Seq(Item), NEW v
  PROVE  /\ Len(b) \in Nat
         /\ \A i \in 1 .. Len(b) : /\ b[i] \in Item /\ b[i].n \in Nat \ {0}
                                   /\ Given(b, v)[i] \in Nat
                                   /\ Given(b, v)[i] = IF v[i] = "allowed" THEN b[i].n ELSE 0
         /\ Granted(b, v) \in Nat
<1>1. Len(b) \in Nat /\ \A i \in 1 .. Len(b) : b[i] \in Item
  OBVIOUS
<1>2. \A a \in Asks : a \in Nat \ {0}
  BY RedisBatchAssumption, RedisBucketAssumption
<1>3. \A i \in 1 .. Len(b) : b[i].n \in Nat \ {0}
  BY <1>1, <1>2 DEF Item
<1>4. \A i \in 1 .. Len(b) : /\ Given(b, v)[i] \in Nat
                             /\ Given(b, v)[i] = IF v[i] = "allowed" THEN b[i].n ELSE 0
  BY <1>3 DEF Given
<1>5. SumTo(Given(b, v), Len(b)) \in Nat
  <2> DEFINE n == Len(b)
             f == Given(b, v)
             z == [i \in 1 .. n |-> 0]
  <2>1. n \in Nat /\ \A i \in 1 .. n : f[i] \in Int /\ z[i] \in Int /\ z[i] <= f[i] /\ z[i] = 0
    BY <1>1, <1>4
  <2> HIDE DEF n, f, z
  <2>2. SumTo(f, n) \in Int
    BY <2>1, SumType
  <2>3. SumTo(z, n) <= SumTo(f, n)
    BY <2>1, SumAtMost
  <2>4. SumTo(z, n) = 0
    BY <2>1, SumZero
  <2>5. SumTo(f, n) \in Nat
    BY <2>2, <2>3, <2>4
  <2> QED BY <2>5 DEF f, n
<1> QED BY <1>1, <1>3, <1>4, <1>5 DEF Granted

(* ... nothing when it has failed, ...                                     *)
LEMMA ErrorsGiveNothing ==
  ASSUME NEW b \in Seq(Item)
  PROVE  Granted(b, AllErrors(b)) = 0
<1> DEFINE n == Len(b)
           f == Given(b, AllErrors(b))
<1>1. n \in Nat /\ \A i \in 1 .. n : f[i] = 0
  <2>1. \A i \in 1 .. n : AllErrors(b)[i] = "error"
    BY DEF AllErrors
  <2> QED BY <2>1, GivenNat
<1> HIDE DEF n, f
<1>2. SumTo(f, n) = 0
  BY <1>1, SumZero
<1> QED BY <1>2 DEF Granted, f, n

(* ... and otherwise what is left at most, as it is decided one by one.    *)
LeftLoop(b, m, n, g) ==
  g = [i \in 0 .. n |-> IF i = 0 THEN m
                        ELSE IF b[i].n <= g[i - 1] THEN g[i - 1] - b[i].n ELSE g[i - 1]]

LEMMA LeftLoopExists ==
  ASSUME NEW b, NEW m, NEW n \in Nat
  PROVE  \E g : LeftLoop(b, m, n, g)
<1> DEFINE next(i, l) == IF b[i].n <= l THEN l - b[i].n ELSE l
           S == {k \in Nat : \E g : LeftLoop(b, m, k, g)}
<1>1. 0 \in S
  <2> DEFINE h == [i \in 0 .. 0 |-> m]
  <2>1. h = [i \in 0 .. 0 |-> IF i = 0 THEN m ELSE next(i, h[i - 1])]
    OBVIOUS
  <2> HIDE DEF h
  <2> QED BY <2>1 DEF LeftLoop
<1>2. ASSUME NEW k \in Nat, k \in S PROVE k + 1 \in S
  <2>1. PICK g : LeftLoop(b, m, k, g)
    BY <1>2
  <2> DEFINE last == next(k + 1, g[k])
             h == [i \in 0 .. (k + 1) |-> IF i = k + 1 THEN last ELSE g[i]]
  <2> HIDE DEF last
  <2>2. ASSUME NEW i \in 0 .. k PROVE g[i] = IF i = 0 THEN m ELSE next(i, g[i - 1])
    BY <2>1 DEF LeftLoop
  <2>3. last = next(k + 1, g[k])
    BY DEF last
  <2>4. h = [i \in 0 .. (k + 1) |-> h[i]]
    OBVIOUS
  <2>5. ASSUME NEW i \in 0 .. (k + 1)
        PROVE  h[i] = IF i = 0 THEN m ELSE next(i, h[i - 1])
    <3> HIDE DEF next
    <3>1. CASE i = k + 1
      <4>1. i # 0 /\ h[i] = last /\ i - 1 \in 0 .. (k + 1) /\ i - 1 # k + 1 /\ i - 1 = k
        BY <3>1
      <4>2. h[i - 1] = g[k]
        BY <4>1
      <4> QED BY <3>1, <4>1, <4>2, <2>3
    <3>2. CASE i # k + 1
      <4>1. i \in 0 .. k /\ h[i] = g[i]
        BY <3>2
      <4>2. CASE i = 0
        BY <4>1, <4>2, <2>2
      <4>3. CASE i # 0
        <5>1. h[i - 1] = g[i - 1]
          BY <4>1, <4>3
        <5> QED BY <4>1, <4>3, <5>1, <2>2
      <4> QED BY <4>2, <4>3
    <3> QED BY <3>1, <3>2
  <2> HIDE DEF h
  <2>6. LeftLoop(b, m, k + 1, h)
    BY <2>4, <2>5 DEF LeftLoop
  <2> QED BY <2>6
<1>3. Nat \subseteq S
  <2> HIDE DEF S
  <2> QED BY <1>1, <1>2, Induction
<1> QED BY <1>3

LEMMA DecidedWithin ==
  ASSUME NEW b \in Seq(Item), NEW m \in Int
  PROVE  Granted(b, Decide(b, m)) <= IF m > 0 THEN m ELSE 0
<1> DEFINE n == Len(b)
           left == CHOOSE g : LeftLoop(b, m, n, g)
           v == Decide(b, m)
           f == Given(b, v)
<1>1. n \in Nat /\ \A i \in 1 .. n : b[i].n \in Nat \ {0}
  BY GivenNat
<1>2. LeftLoop(b, m, n, left)
  BY <1>1, LeftLoopExists
<1>3. \A i \in 1 .. n : v[i] = IF left[i] < left[i - 1] THEN "allowed" ELSE "denied"
  BY DEF Decide, LeftLoop
<1>4. \A i \in 1 .. n : f[i] = IF v[i] = "allowed" THEN b[i].n ELSE 0
  BY GivenNat
<1> HIDE DEF left, v, f
<1>5. \A i \in 0 .. n :
        left[i] = IF i = 0 THEN m
                  ELSE IF b[i].n <= left[i - 1] THEN left[i - 1] - b[i].n ELSE left[i - 1]
  BY <1>2 DEF LeftLoop
<1>6. Granted(b, v) = SumTo(f, n)
  BY DEF Granted, f
<1> DEFINE S == {k \in Nat : k <= n =>
                   /\ left[k] \in Int /\ SumTo(f, k) = m - left[k]
                   /\ (m > 0 => left[k] >= 0) /\ (m <= 0 => left[k] = m)}
<1>7. 0 \in S
  <2>1. 0 \in 0 .. n
    BY <1>1
  <2>2. left[0] = m
    BY <1>5, <2>1
  <2>3. SumTo(f, 0) = 0
    BY SumIs
  <2> HIDE DEF n
  <2> QED BY <2>2, <2>3
<1>8. ASSUME NEW k \in Nat, k \in S PROVE k + 1 \in S
  <2> HIDE DEF n
  <2> SUFFICES ASSUME k + 1 <= n
               PROVE  /\ left[k + 1] \in Int /\ SumTo(f, k + 1) = m - left[k + 1]
                      /\ (m > 0 => left[k + 1] >= 0) /\ (m <= 0 => left[k + 1] = m)
    OBVIOUS
  <2>1. /\ left[k] \in Int /\ SumTo(f, k) = m - left[k]
        /\ (m > 0 => left[k] >= 0) /\ (m <= 0 => left[k] = m)
    BY <1>1, <1>8
  <2>2. SumTo(f, k + 1) = SumTo(f, k) + f[k + 1]
    BY SumIs
  <2>3. k + 1 \in 0 .. n /\ k + 1 \in 1 .. n /\ k + 1 # 0 /\ (k + 1) - 1 = k
    BY <1>1
  <2>4. left[k + 1] = IF b[k + 1].n <= left[k] THEN left[k] - b[k + 1].n ELSE left[k]
    BY <1>5, <2>3
  <2>5. b[k + 1].n \in Nat \ {0}
    BY <1>1, <2>3
  <2>6. f[k + 1] = IF left[k + 1] < left[k] THEN b[k + 1].n ELSE 0
    BY <1>3, <1>4, <2>3
  <2> HIDE DEF S
  <2> QED BY <2>1, <2>2, <2>4, <2>5, <2>6
<1>9. Nat \subseteq S
  <2> HIDE DEF S, n
  <2> QED BY <1>7, <1>8, Induction
<1>10. /\ left[n] \in Int /\ SumTo(f, n) = m - left[n]
       /\ (m > 0 => left[n] >= 0) /\ (m <= 0 => left[n] = m)
  <2> HIDE DEF n
  <2> QED BY <1>1, <1>9
<1> HIDE DEF S
<1> QED BY <1>6, <1>10 DEF v

(* Lists end to end.                                                       *)
LEMMA Joined ==
  ASSUME NEW T, NEW s \in Seq(T), NEW t \in Seq(T)
  PROVE  /\ s \o t \in Seq(T) /\ Len(s) \in Nat /\ Len(t) \in Nat
         /\ Len(s \o t) = Len(s) + Len(t)
         /\ \A i \in 1 .. Len(s) : (s \o t)[i] = s[i]
         /\ \A i \in 1 .. Len(t) : (s \o t)[Len(s) + i] = t[i]
<1>1. /\ s \o t \in Seq(T) /\ Len(s) \in Nat /\ Len(t) \in Nat
      /\ Len(s \o t) = Len(s) + Len(t)
  OBVIOUS
<1>2. \A i \in 1 .. Len(s) : (s \o t)[i] = s[i]
  OBVIOUS
<1>3. \A i \in 1 .. Len(t) : (s \o t)[Len(s) + i] = t[i]
  OBVIOUS
<1> QED BY <1>1, <1>2, <1>3

(* A new pipeline adds the refill and takes what is given.                 *)
LEMMA CommandsBalance ==
  ASSUME NEW b \in Seq(Item), NEW v, NEW m \in Nat, clock \in Nat,
         Commands(b, v, m) \in Seq(Command)
  PROVE  /\ Pipeline(Commands(b, v, m)) /\ Commands(b, v, m) # <<>>
         /\ Head(Commands(b, v, m)).field = "tokens"
         /\ Commands(b, v, m)[Len(Commands(b, v, m))].by = clock
         /\ Balance(Commands(b, v, m)) = m - Granted(b, v)
         /\ Balance(Tail(Commands(b, v, m))) = -Granted(b, v)
<1> DEFINE p == Commands(b, v, m)
           n == Len(b)
           g == Given(b, v)
<1>1. n \in Nat /\ \A i \in 1 .. n : g[i] \in Nat /\ g[i] = IF v[i] = "allowed" THEN b[i].n ELSE 0
  BY GivenNat
<1>2. /\ Len(p) = n + 2
      /\ p[1] = [field |-> "tokens", by |-> m]
      /\ \A i \in 1 .. n : p[i + 1] = [field |-> "tokens", by |-> IF v[i] = "allowed" THEN -b[i].n ELSE 0]
      /\ p[n + 2] = [field |-> "last_ns", by |-> clock]
  <2> DEFINE first == <<[field |-> "tokens", by |-> m]>>
             consume == [i \in 1 .. n |-> [field |-> "tokens",
                                          by |-> IF v[i] = "allowed" THEN -b[i].n ELSE 0]]
             last == <<[field |-> "last_ns", by |-> clock]>>
             C == [field : {"tokens", "last_ns"}, by : Int]
  <2>1. \A i \in 1 .. n : b[i].n \in Int
    BY GivenNat
  <2>2. first \in Seq(C) /\ Len(first) = 1 /\ first[1] = [field |-> "tokens", by |-> m]
    OBVIOUS
  <2>3. last \in Seq(C) /\ Len(last) = 1 /\ last[1] = [field |-> "last_ns", by |-> clock]
    OBVIOUS
  <2>4. consume \in [1 .. n -> C]
    BY <2>1
  <2>5. \A i \in 1 .. n : consume[i] = [field |-> "tokens", by |-> IF v[i] = "allowed" THEN -b[i].n ELSE 0]
    OBVIOUS
  <2>6. p = first \o consume \o last
    BY DEF Commands
  <2> HIDE DEF first, consume, last, C, p, n
  <2>7. consume \in Seq(C) /\ Len(consume) = n
    BY <1>1, <2>4, ListOf
  <2>8. n \in Nat
    BY <1>1
  <2>9. first \in Seq(C) /\ last \in Seq(C) /\ Len(first) = 1 /\ Len(last) = 1
    BY <2>2, <2>3
  <2> DEFINE q == first \o consume
  <2>10. p = q \o last
    BY <2>6
  <2>11. /\ q \in Seq(C) /\ Len(q) = n + 1
         /\ q[1] = first[1] /\ \A i \in 1 .. n : q[i + 1] = consume[i]
    <3>1. first \in Seq(C) /\ consume \in Seq(C)
      BY <2>7, <2>9
    <3>4. /\ first \o consume \in Seq(C) /\ Len(first) \in Nat /\ Len(consume) \in Nat
          /\ Len(first \o consume) = Len(first) + Len(consume)
          /\ \A i \in 1 .. Len(first) : (first \o consume)[i] = first[i]
          /\ \A i \in 1 .. Len(consume) : (first \o consume)[Len(first) + i] = consume[i]
      BY <3>1, Joined
    <3> HIDE DEF q
    <3>2. Len(q) = n + 1 /\ q[1] = first[1]
      BY <2>7, <2>8, <2>9, <3>4 DEF q
    <3>3. ASSUME NEW i \in 1 .. n PROVE q[i + 1] = consume[i]
      <4>1. q[1 + i] = consume[i] /\ 1 + i = i + 1
        BY <2>7, <2>8, <2>9, <3>4 DEF q
      <4> QED BY <4>1
    <3> QED BY <3>2, <3>3, <3>4 DEF q
  <2> HIDE DEF q
  <2>12. Len(p) = n + 2 /\ p[n + 2] = last[1]
    <3>3. q \in Seq(C) /\ last \in Seq(C)
      BY <2>9, <2>11
    <3>1. /\ q \o last \in Seq(C) /\ Len(q) \in Nat /\ Len(last) \in Nat
          /\ Len(q \o last) = Len(q) + Len(last)
          /\ \A i \in 1 .. Len(q) : (q \o last)[i] = q[i]
          /\ \A i \in 1 .. Len(last) : (q \o last)[Len(q) + i] = last[i]
      BY <3>3, Joined
    <3>2. (n + 1) + 1 = n + 2 /\ 1 \in 1 .. 1
      BY <2>8
    <3> QED BY <2>9, <2>10, <2>11, <3>1, <3>2
  <2>13. \A i \in 1 .. n + 1 : p[i] = q[i]
    <3>1. q \in Seq(C) /\ last \in Seq(C)
      BY <2>9, <2>11
    <3>2. \A i \in 1 .. Len(q) : (q \o last)[i] = q[i]
      BY <3>1, Joined
    <3> QED BY <2>10, <2>11, <3>2
  <2>14. 1 \in 1 .. n + 1 /\ \A i \in 1 .. n : i + 1 \in 1 .. n + 1
    BY <1>1
  <2> QED BY <2>2, <2>3, <2>5, <2>11, <2>12, <2>13, <2>14
<1>3. \A i \in 1 .. n : p[i + 1].field = "tokens" /\ p[i + 1].by = -g[i] /\ b[i].n \in Nat
  <2> SUFFICES ASSUME NEW i \in 1 .. n
               PROVE  p[i + 1].field = "tokens" /\ p[i + 1].by = -g[i] /\ b[i].n \in Nat
    OBVIOUS
  <2> HIDE DEF p, g
  <2>1. p[i + 1] = [field |-> "tokens", by |-> IF v[i] = "allowed" THEN -b[i].n ELSE 0]
    BY <1>2
  <2>2. b[i].n \in Nat /\ g[i] = IF v[i] = "allowed" THEN b[i].n ELSE 0
    BY <1>1, GivenNat
  <2> QED BY <2>1, <2>2
<1> HIDE DEF p, g
<1>4. p \in Seq(Command) /\ p # <<>> /\ Head(p) = p[1]
  <2>1. p \in Seq(Command)
    BY DEF p
  <2>2. Len(p) # 0
    BY <1>1, <1>2
  <2> QED BY <2>1, <2>2
<1>5. /\ p[1].field = "tokens" /\ p[1].by = m
      /\ p[Len(p)].field = "last_ns" /\ p[Len(p)].by = clock
  BY <1>2
<1>6. Pipeline(p)
  <2>1. ASSUME NEW i \in 1 .. Len(p)
        PROVE  p[i].field = IF i = Len(p) THEN "last_ns" ELSE "tokens"
    <3>1. CASE i = 1
      BY <1>1, <1>2, <1>5, <3>1
    <3>2. CASE i = Len(p)
      BY <1>5, <3>2
    <3>3. CASE i # 1 /\ i # Len(p)
      <4>1. i - 1 \in 1 .. n /\ (i - 1) + 1 = i
        BY <1>1, <1>2, <3>3
      <4> QED BY <1>3, <3>3, <4>1
    <3> QED BY <3>1, <3>2, <3>3
  <2>2. ASSUME NEW i \in 2 .. Len(p) - 1 PROVE p[i].by <= 0
    <3>1. i - 1 \in 1 .. n /\ (i - 1) + 1 = i
      BY <1>1, <1>2
    <3>2. p[i].by = -g[i - 1] /\ g[i - 1] \in Nat
      BY <1>1, <1>3, <3>1
    <3> QED BY <3>2
  <2>3. p[Len(p)].by \in 0 .. clock
    BY <1>5
  <2> QED BY <2>1, <2>2, <2>3 DEF Pipeline
<1>7. /\ Tail(p) \in Seq(Command) /\ Len(Tail(p)) = n + 1
      /\ \A i \in 1 .. n + 1 : Tail(p)[i] = p[i + 1]
      /\ Balance(p) = Moves(p)[1] + Balance(Tail(p))
  <2>1. (n + 2) - 1 = n + 1
    BY <1>1
  <2> QED BY <1>2, <1>4, <2>1, BalanceNext
<1> DEFINE h == Moves(Tail(p))
<1>8. \A i \in 1 .. n : h[i] = -g[i]
  <2> SUFFICES ASSUME NEW i \in 1 .. n PROVE h[i] = -g[i]
    OBVIOUS
  <2>1. i \in 1 .. n + 1
    BY <1>1
  <2> QED BY <1>3, <1>7, <2>1 DEF Moves
<1>9. h[n + 1] = 0
  <2>1. n + 1 \in 1 .. n + 1 /\ (n + 1) + 1 = n + 2
    BY <1>1
  <2> QED BY <1>2, <1>7, <2>1 DEF Moves
<1> HIDE DEF h
<1>10. SumTo(h, n) = -SumTo(g, n) /\ SumTo(g, n) \in Int
  <2> DEFINE z == [i \in 1 .. n |-> 0]
  <2> HIDE DEF n
  <2>1. \A i \in 1 .. n : g[i] \in Int /\ h[i] \in Int /\ z[i] = h[i] + g[i] /\ z[i] = 0
    BY <1>1, <1>8
  <2> HIDE DEF z
  <2>2. SumTo(z, n) = SumTo(h, n) + SumTo(g, n)
    BY <1>1, <2>1, SumPlus
  <2>3. SumTo(z, n) = 0
    BY <1>1, <2>1, SumZero
  <2>4. SumTo(h, n) \in Int /\ SumTo(g, n) \in Int
    BY <1>1, <2>1, SumType
  <2> QED BY <2>2, <2>3, <2>4
<1>11. Balance(Tail(p)) = -Granted(b, v) /\ Granted(b, v) \in Int
  <2>1. SumTo(h, n + 1) = SumTo(h, n) + h[n + 1]
    BY <1>1, SumIs
  <2>2. Balance(Tail(p)) = SumTo(h, n + 1)
    BY <1>7 DEF Balance, h
  <2>3. Granted(b, v) = SumTo(g, n)
    BY DEF Granted, g
  <2> QED BY <1>9, <1>10, <2>1, <2>2, <2>3
<1>12. Moves(p)[1] = m
  <2>1. 1 \in 1 .. Len(p)
    BY <1>1, <1>2
  <2> QED BY <1>5, <2>1 DEF Moves
<1>13. Balance(p) = m - Granted(b, v)
  BY <1>7, <1>11, <1>12
<1> QED BY <1>4, <1>5, <1>6, <1>11, <1>13 DEF p

--------------------------------------------------------------------------------
(* What is granted through the pipelines of v3 and v4.  The shards that    *)
(* matter for the key are the first Shares.  A shard has decided on a      *)
(* batch (Promised) and has still to write the balance of its pipeline     *)
(* (Pending), which carries the moment the shard read the bucket.  Time    *)
(* since then is time no shard has refilled but it (Claim), nor any of the *)
(* pairs it is in.                                                         *)
Promised(s) == IF stage[s] = "write" THEN Granted(batch[s], verdict[s]) ELSE 0
Pending(s)  == Balance(pipe[s])
Age(s)      == IF pipe[s] = <<>> THEN 0 ELSE clock - pipe[s][Len(pipe[s])].by

(* What this shard may still add to a missing bucket by filling it.        *)
Unfilled(s) == IF pipe[s] # <<>> /\ Head(pipe[s]).field = "tokens"
               THEN Burst - AtMost(Pending(s) + Promised(s), Burst)
               ELSE Burst

Tokens == HGet("tokens", 0)
Last   == HGet("last_ns", clock)

Lines     == 1 .. Shares
Promises  == [i \in Lines |-> Promised(i - 1)]
Pendings  == [i \in Lines |-> Pending(i - 1)]
Lows      == [i \in Lines |-> AtMost(Pending(i - 1), 0)]
Unfilleds == [i \in Lines |-> Unfilled(i - 1)]
Ages      == [i \in Lines |-> Age(i - 1)]

(* The least the tokens may become, and by how much they are overdrawn     *)
(* then beyond the capacity of all shards but one.                         *)
Low  == Tokens + SumTo(Lows, Shares)
Debt == LET d == -((Shares - 1) * Burst) - Low IN IF d > 0 THEN d ELSE 0

(* The time that a shard may refill: what the bucket lacks at most.        *)
Cap      == AtMost(clock - Last, TicksPerToken * (Shares * Burst + Debt))
Claim(s) == IF pipe[s] = <<>> THEN Cap ELSE Age(s)
Claims   == [i \in Lines |-> Claim(i - 1)]

Owed == granted + SumTo(Promises, Shares) + Tokens + SumTo(Pendings, Shares) + Debt
          + (IF "tokens" \in DOMAIN hash THEN 0 ELSE SumTo(Unfilleds, Shares))
Allowance == Shares * Burst + (Fillings * Burst) * upsets
Time      == Refills * clock - SumTo(Claims, Shares) - PairSum(Ages, Shares)

Spare(s) == s >= Shares => stage[s] \in {"idle", "exited"} /\ queue[s] = <<>>

LineOK(s) ==
  /\ Promised(s) <= Burst /\ Pipeline(pipe[s])
  /\ pipe[s] # <<>> => /\ -Promised(s) <= Pending(s)
                       /\ -Promised(s) <= Balance(Tail(pipe[s]))
  /\ Spare(s)

(* One shard alone has refilled enough to undo what was overdrawn, or has  *)
(* little time to.                                                         *)
Alone ==
  Shares = 1 /\ pipe[0] # <<>> /\ "last_ns" \in DOMAIN hash =>
    \/ pipe[0][Len(pipe[0])].by - hash["last_ns"] <= TicksPerToken * Burst
    \/ Tokens + Pending(0) >= 0

Main == TicksPerToken * Owed <= TicksPerToken * Allowance + Time

Counted == granted \in Nat /\ upsets \in Nat /\ Last <= clock

LinesInv == \A s \in Shards : LineOK(s)
PipesInv == Counted /\ LinesInv /\ -(Shares * Burst) <= Low /\ Alone /\ Main

--------------------------------------------------------------------------------
(* The constants of the limit, in the forms that the provers need.         *)
LEMMA SharesAre ==
  /\ Shares \in Nat /\ Shares >= 1 /\ \A i \in 1 .. Shares : i - 1 \in Shards
  /\ \A s \in Shards : s \in Int /\ (s < Shares => s + 1 \in 1 .. Shares /\ (s + 1) - 1 = s)
  /\ 0 \in Shards
  /\ Burst \in Nat /\ Burst >= 1 /\ TicksPerToken \in Nat /\ TicksPerToken >= 1
  /\ Fillings = 2 * Shares - 1 /\ 2 * Refills = Shares * (Shares + 1) /\ Refills \in Nat
<1>1. NumShards \in Nat /\ NumShards >= 1
  BY RedisBatchAssumption
<1>2. Shares \in Nat /\ Shares >= 1 /\ Shares <= NumShards
  BY <1>1 DEF Shares
<1>3. /\ \A i \in 1 .. Shares : i - 1 \in Shards
      /\ \A s \in Shards : s \in Int /\ (s < Shares => s + 1 \in 1 .. Shares /\ (s + 1) - 1 = s)
      /\ 0 \in Shards
  <2> DEFINE k == Shares
  <2>1. k \in Nat /\ k >= 1 /\ k <= NumShards
    BY <1>2
  <2> HIDE DEF k
  <2>2. /\ \A i \in 1 .. k : i - 1 \in Shards
        /\ \A s \in Shards : s \in Int /\ (s < k => s + 1 \in 1 .. k /\ (s + 1) - 1 = s)
        /\ 0 \in Shards
    BY <1>1, <2>1 DEF Shards
  <2> QED BY <2>2 DEF k
<1>4. /\ Burst \in Nat /\ Burst >= 1 /\ TicksPerToken \in Nat /\ TicksPerToken >= 1
  BY RedisBucketAssumption
<1>5. \A k \in Nat : 2 * ((k * (k + 1)) \div 2) = k * (k + 1) /\ (k * (k + 1)) \div 2 \in Nat
  <2> DEFINE S == {k \in Nat : 2 * ((k * (k + 1)) \div 2) = k * (k + 1) /\ (k * (k + 1)) \div 2 \in Nat}
  <2>1. 0 \in S
    <3>1. 0 * (0 + 1) = 0
      OBVIOUS
    <3>2. 0 \div 2 = 0
      OBVIOUS
    <3> QED BY <3>1, <3>2
  <2>2. ASSUME NEW k \in Nat, k \in S PROVE k + 1 \in S
    <3> DEFINE a == k * (k + 1)
               b == (k + 1) * ((k + 1) + 1)
    <3>1. a \in Nat /\ b = a + 2 * (k + 1) /\ 2 * (a \div 2) = a /\ a \div 2 \in Nat
      BY <2>2
    <3> HIDE DEF a, b
    <3>2. b \div 2 = a \div 2 + (k + 1)
      BY <3>1
    <3>3. 2 * (b \div 2) = b /\ b \div 2 \in Nat
      BY <3>1, <3>2
    <3> QED BY <3>3 DEF b
  <2>3. Nat \subseteq S
    <3> HIDE DEF S
    <3> QED BY <2>1, <2>2, Induction
  <2> QED BY <2>3
<1>6. Fillings = 2 * Shares - 1 /\ 2 * Refills = Shares * (Shares + 1) /\ Refills \in Nat
  BY <1>2, <1>5 DEF Fillings, Refills
<1> QED BY <1>2, <1>3, <1>4, <1>6

(* The quantities of a shard.                                              *)
LEMMA LineTypes ==
  ASSUME TypeInv, NEW s \in Shards
  PROVE  /\ Promised(s) \in Nat /\ Pending(s) \in Int
         /\ Unfilled(s) \in Int /\ Unfilled(s) >= 0
         /\ pipe[s] \in Seq(Command) /\ batch[s] \in Seq(Item)
         /\ (pipe[s] = <<>> => Pending(s) = 0 /\ Age(s) = 0 /\ Unfilled(s) = Burst)
<1>1. /\ batch[s] \in Seq(Item) /\ pipe[s] \in Seq(Command)
  BY DEF TypeInv, BatchTypeOK
<1>2. Promised(s) \in Nat
  BY <1>1, GivenNat DEF Promised
<1>3. Pending(s) \in Int
  BY <1>1, MovesInt DEF Pending
<1>4. Burst \in Nat
  BY SharesAre
<1>5. Unfilled(s) \in Int /\ Unfilled(s) >= 0
  BY <1>2, <1>3, <1>4 DEF Unfilled, AtMost
<1>6. pipe[s] = <<>> => Pending(s) = 0 /\ Age(s) = 0 /\ Unfilled(s) = Burst
  BY BalanceNone DEF Pending, Age, Unfilled
<1> QED BY <1>1, <1>2, <1>3, <1>5, <1>6

LEMMA BucketTypes ==
  ASSUME TypeInv
  PROVE  /\ hash \in Hashes /\ clock \in Nat /\ Tokens \in Int /\ Last \in Int
         /\ ("tokens" \notin DOMAIN hash => Tokens = 0)
         /\ ("tokens" \in DOMAIN hash => Tokens = hash["tokens"])
         /\ ("last_ns" \notin DOMAIN hash => Last = clock)
         /\ ("last_ns" \in DOMAIN hash => Last = hash["last_ns"])
<1>1. hash \in Hashes /\ clock \in Nat
  BY DEF TypeInv, BucketTypeOK
<1> QED BY <1>1, HashGet DEF Tokens, Last, HGet

(* The bounds that hold for a shard.                                       *)
LEMMA LineBounds ==
  ASSUME TypeInv, NEW s \in Shards, LineOK(s)
  PROVE  /\ Age(s) \in Nat /\ Age(s) <= clock
         /\ AtMost(Pending(s), 0) \in Int /\ AtMost(Pending(s), 0) <= 0
         /\ AtMost(Pending(s), 0) <= Pending(s) /\ -Promised(s) <= AtMost(Pending(s), 0)
         /\ -Burst <= AtMost(Pending(s), 0)
         /\ Unfilled(s) <= Burst
         /\ pipe[s] # <<>> => /\ pipe[s][Len(pipe[s])].by \in 0 .. clock
                              /\ Age(s) = clock - pipe[s][Len(pipe[s])].by
<1>1. /\ Promised(s) \in Nat /\ Pending(s) \in Int /\ Burst \in Nat /\ clock \in Nat
      /\ (pipe[s] = <<>> => Pending(s) = 0 /\ Age(s) = 0 /\ Unfilled(s) = Burst)
  BY LineTypes, SharesAre, BucketTypes
<1>2. Promised(s) <= Burst /\ -Promised(s) <= Pending(s)
  BY <1>1 DEF LineOK
<1>3. /\ AtMost(Pending(s), 0) \in Int /\ AtMost(Pending(s), 0) <= 0
      /\ AtMost(Pending(s), 0) <= Pending(s) /\ -Promised(s) <= AtMost(Pending(s), 0)
      /\ -Burst <= AtMost(Pending(s), 0)
  BY <1>1, <1>2 DEF AtMost
<1>4. Unfilled(s) <= Burst
  BY <1>1, <1>2 DEF Unfilled, AtMost
<1>5. pipe[s] # <<>> => /\ pipe[s][Len(pipe[s])].by \in 0 .. clock
                        /\ Age(s) = clock - pipe[s][Len(pipe[s])].by
  BY DEF LineOK, Pipeline, Age
<1>6. Age(s) \in Nat /\ Age(s) <= clock
  BY <1>1, <1>5
<1> QED BY <1>3, <1>4, <1>5, <1>6

(* The quantities of the shards, by line.                                  *)
LEMMA ByLine ==
  \A i \in Lines : /\ Promises[i] = Promised(i - 1) /\ Pendings[i] = Pending(i - 1)
                   /\ Lows[i] = AtMost(Pending(i - 1), 0)
                   /\ Unfilleds[i] = Unfilled(i - 1) /\ Ages[i] = Age(i - 1)
                   /\ Claims[i] = Claim(i - 1)
<1> QED BY DEF Promises, Pendings, Lows, Unfilleds, Ages, Claims

Sized ==
  /\ \A i \in 1 .. Shares : /\ Promises[i] \in Nat /\ Pendings[i] \in Int
                            /\ Lows[i] \in Int /\ Lows[i] <= Pendings[i] /\ Lows[i] <= 0
                            /\ -Burst <= Lows[i]
                            /\ Unfilleds[i] \in Nat /\ Unfilleds[i] <= Burst
                            /\ Ages[i] \in Nat /\ Claims[i] \in Nat
  /\ SumTo(Promises, Shares) \in Int /\ SumTo(Pendings, Shares) \in Int
  /\ SumTo(Lows, Shares) \in Int /\ SumTo(Unfilleds, Shares) \in Int
  /\ SumTo(Claims, Shares) \in Int /\ PairSum(Ages, Shares) \in Int
  /\ Tokens \in Int /\ Last \in Int /\ clock \in Nat
  /\ Low \in Int /\ Debt \in Nat /\ Cap \in Nat
  /\ Owed \in Int /\ Time \in Int

LEMMA SumTypes == TypeInv /\ LinesInv /\ Counted => Sized
<1> SUFFICES ASSUME TypeInv, LinesInv, Counted PROVE Sized
  OBVIOUS
<1> DEFINE k == Shares
<1>1. k \in Nat /\ k >= 1 /\ Lines = 1 .. k
  BY SharesAre DEF Lines
<1>2. ASSUME NEW i \in 1 .. k
      PROVE  /\ Promises[i] \in Nat /\ Pendings[i] \in Int
             /\ Lows[i] \in Int /\ Lows[i] <= Pendings[i] /\ Lows[i] <= 0
             /\ -Burst <= Lows[i]
             /\ Unfilleds[i] \in Nat /\ Unfilleds[i] <= Burst
             /\ Ages[i] \in Nat
  <2>1. i - 1 \in Shards /\ LineOK(i - 1)
    BY SharesAre DEF LinesInv
  <2> DEFINE s == i - 1
  <2>2. /\ Promised(s) \in Nat /\ Pending(s) \in Int
        /\ Unfilled(s) \in Int /\ Unfilled(s) >= 0
    BY <2>1, LineTypes
  <2>3. /\ Age(s) \in Nat /\ Unfilled(s) <= Burst
        /\ AtMost(Pending(s), 0) \in Int /\ AtMost(Pending(s), 0) <= 0
        /\ AtMost(Pending(s), 0) <= Pending(s)
        /\ -Burst <= AtMost(Pending(s), 0)
    BY <2>1, LineBounds
  <2>4. Unfilled(s) \in Nat
    BY <2>2
  <2> QED BY <1>1, <2>2, <2>3, <2>4, ByLine
<1>3. /\ Tokens \in Int /\ Last \in Int /\ clock \in Nat /\ granted \in Nat /\ Last <= clock
      /\ Burst \in Nat /\ TicksPerToken \in Nat /\ Refills \in Nat
  BY BucketTypes, SharesAre DEF Counted
<1>4. /\ SumTo(Promises, k) \in Int /\ SumTo(Pendings, k) \in Int
      /\ SumTo(Lows, k) \in Int /\ SumTo(Unfilleds, k) \in Int
      /\ PairSum(Ages, k) \in Int
  <2> HIDE DEF k
  <2>1. SumTo(Promises, k) \in Int
    BY <1>1, <1>2, SumType
  <2>2. SumTo(Pendings, k) \in Int
    BY <1>1, <1>2, SumType
  <2>3. SumTo(Lows, k) \in Int
    BY <1>1, <1>2, SumType
  <2>4. SumTo(Unfilleds, k) \in Int
    <3>1. \A i \in 1 .. k : Unfilleds[i] \in Int
      BY <1>2
    <3> QED BY <1>1, <3>1, SumType
  <2>5. SumTo(Rows(Ages, k), k) \in Int
    <3>1. \A i \in 1 .. k : Ages[i] \in Nat
      BY <1>2
    <3>2. \A i \in 1 .. k : Rows(Ages, k)[i] \in Int
      BY <1>1, <3>1, RowsInt
    <3> QED BY <1>1, <3>2, SumType
  <2> QED BY <2>1, <2>2, <2>3, <2>4, <2>5 DEF PairSum
<1>5. Low \in Int
  BY <1>3, <1>4 DEF Low
<1>6. Debt \in Nat
  <2>1. (Shares - 1) * Burst \in Int
    BY <1>1, <1>3
  <2> DEFINE d == -((Shares - 1) * Burst) - Low
  <2>2. d \in Int
    BY <1>5, <2>1
  <2>3. Debt = IF d > 0 THEN d ELSE 0
    BY DEF Debt
  <2> HIDE DEF d
  <2> QED BY <2>2, <2>3
<1>7. Cap \in Nat
  <2> DEFINE w == TicksPerToken * (Shares * Burst + Debt)
  <2>1. w \in Nat
    BY <1>1, <1>3, <1>6
  <2>2. Cap = AtMost(clock - Last, w)
    BY DEF Cap
  <2> HIDE DEF w
  <2> QED BY <1>3, <2>1, <2>2 DEF AtMost
<1>8. ASSUME NEW i \in 1 .. k PROVE Claims[i] \in Nat
  <2>1. Claims[i] = IF pipe[i - 1] = <<>> THEN Cap ELSE Ages[i]
    BY <1>1, ByLine DEF Claim
  <2> QED BY <1>2, <1>7, <2>1
<1>9. SumTo(Claims, k) \in Int
  <2>1. \A i \in 1 .. k : Claims[i] \in Int
    BY <1>8
  <2> HIDE DEF k
  <2> QED BY <1>1, <2>1, SumType
<1>10. Owed \in Int /\ Time \in Int
  <2>1. Refills * clock \in Int
    BY <1>3
  <2> QED BY <1>3, <1>4, <1>6, <1>9, <2>1 DEF Owed, Time
<1> QED BY <1>2, <1>3, <1>4, <1>5, <1>6, <1>7, <1>8, <1>9, <1>10 DEF Sized

LEMMA SumTypesNext == TypeInv' /\ LinesInv' /\ Counted' => Sized'
<1> QED BY SumTypes, PTL

(* One element changes, and no other grows.                                *)
LEMMA SumDrops ==
  ASSUME NEW n \in Nat, NEW j \in 1 .. n, NEW f, NEW g,
         \A i \in 1 .. n : f[i] \in Int /\ g[i] \in Int /\ (i # j => f[i] <= g[i])
  PROVE  SumTo(f, n) <= SumTo(g, n) - g[j] + f[j]
<1> DEFINE h == [i \in 1 .. n |-> IF i = j THEN f[j] ELSE g[i]]
<1>1. \A i \in 1 .. n : h[i] \in Int /\ (i # j => h[i] = g[i]) /\ f[i] <= h[i]
  OBVIOUS
<1>2. h[j] = f[j]
  OBVIOUS
<1> HIDE DEF h
<1>3. SumTo(h, n) = SumTo(g, n) - g[j] + h[j]
  BY <1>1, SumChanges
<1>4. SumTo(f, n) <= SumTo(h, n)
  BY <1>1, SumAtMost
<1> QED BY <1>2, <1>3, <1>4

(* What is owed may grow by d if time grows by what d costs, or by as much *)
(* more as an upset allows.                                                *)
LEMMA MainKept ==
  ASSUME Sized, Sized', Main, Shares' = Shares, upsets \in Nat,
         NEW d \in Int, NEW z \in Int, Owed' <= Owed + d, Time + z <= Time',
         \/ upsets' = upsets /\ TicksPerToken * d <= z
         \/ upsets' = upsets + 1 /\ TicksPerToken * (d - (2 * Shares - 1) * Burst) <= z
  PROVE  Main'
<1> DEFINE m == (2 * Shares - 1) * Burst
           o == Owed
           o2 == Owed'
           t == Time
           t2 == Time'
           a == Shares * Burst + m * upsets
           a2 == Shares * Burst + m * upsets'
           T == TicksPerToken
<1>1. /\ m \in Int /\ o \in Int /\ o2 \in Int /\ t \in Int /\ t2 \in Int /\ a \in Int
      /\ T \in Nat
  BY SharesAre DEF Sized
<1>2. Allowance = a /\ Allowance' = a2
  <2>1. Fillings = 2 * Shares - 1 /\ Fillings' = Fillings
    BY SharesAre DEF Fillings
  <2>2. Allowance = Shares * Burst + (Fillings * Burst) * upsets
    BY DEF Allowance
  <2>3. Allowance' = Shares * Burst + (Fillings * Burst) * upsets'
    BY <2>1 DEF Allowance
  <2> QED BY <2>1, <2>2, <2>3
<1>3. a2 \in Int /\ (upsets' = upsets => a2 = a) /\ (upsets' = upsets + 1 => a2 = a + m)
  <2>1. Shares * Burst \in Int
    BY SharesAre
  <2> HIDE DEF m
  <2>2. m * (upsets + 1) = m * upsets + m /\ m * upsets \in Int
    BY <1>1
  <2>3. CASE upsets' = upsets
    BY <2>1, <2>2, <2>3
  <2>4. CASE upsets' = upsets + 1
    BY <1>1, <2>1, <2>2, <2>4
  <2>5. upsets' = upsets \/ upsets' = upsets + 1
    OBVIOUS
  <2> QED BY <2>3, <2>4, <2>5
<1>4. T * o <= T * a + t
  BY <1>2 DEF Main
<1>5. o2 <= o + d /\ t + z <= t2
  OBVIOUS
<1>6. \/ a2 = a /\ T * d <= z
      \/ a2 = a + m /\ T * (d - m) <= z
  BY <1>3
<1> HIDE DEF m, o, o2, t, t2, a, a2, T
<1>7. T * o2 <= T * o + T * d
  <2>1. PICK c \in Nat : o + d = o2 + c
    <3>1. (o + d) - o2 \in Nat /\ o + d = o2 + ((o + d) - o2)
      BY <1>1, <1>5
    <3> QED BY <3>1
  <2>2. T * (o + d) = T * o + T * d /\ T * (o2 + c) = T * o2 + T * c
    BY <1>1, <2>1
  <2>3. T * c \in Nat /\ T * o2 \in Int /\ T * o \in Int /\ T * d \in Int
    BY <1>1
  <2> QED BY <2>1, <2>2, <2>3
<1>8. T * o \in Int /\ T * d \in Int /\ T * a \in Int /\ T * m \in Int /\ T * o2 \in Int
  BY <1>1
<1>9. T * (a + m) = T * a + T * m /\ T * (d - m) = T * d - T * m
  BY <1>1
<1>10. T * o2 <= T * a2 + t2
  BY <1>1, <1>4, <1>5, <1>6, <1>7, <1>8, <1>9
<1> QED BY <1>2, <1>10 DEF Main, o2, t2, T

(* If no more is overdrawn, and nothing is stored earlier than before, a   *)
(* shard can claim no more.                                                *)
LEMMA CapFollows ==
  ASSUME Sized, Sized', Shares' = Shares, clock' = clock, Last <= Last', Debt' <= Debt
  PROVE  Cap' <= Cap
<1> DEFINE v  == Shares * Burst
           d  == Debt
           d2 == Debt'
           x  == TicksPerToken * (v + d)
           x2 == TicksPerToken * (v + d2)
           p  == Last
           p2 == Last'
           q  == Cap
           q2 == Cap'
<1>1. /\ d \in Nat /\ d2 \in Nat /\ d2 <= d /\ TicksPerToken \in Nat /\ v \in Int
      /\ p \in Int /\ p2 \in Int /\ p <= p2 /\ clock \in Nat
  BY SharesAre DEF Sized
<1>2. q = AtMost(clock - p, x) /\ q2 = AtMost(clock - p2, x2)
  BY DEF Cap
<1> HIDE DEF v, d, d2
<1>3. x \in Int /\ x2 \in Int /\ x2 <= x
  <2> DEFINE c == d - d2
  <2>1. c \in Nat /\ d = d2 + c
    BY <1>1
  <2> HIDE DEF c
  <2>2. x = x2 + TicksPerToken * c
    BY <1>1, <2>1
  <2>3. TicksPerToken * c \in Nat /\ x2 \in Int
    BY <1>1, <2>1
  <2> HIDE DEF x, x2
  <2> QED BY <2>2, <2>3
<1> HIDE DEF x, x2, p, p2, q, q2
<1>4. q2 <= q
  BY <1>1, <1>2, <1>3 DEF AtMost
<1> QED BY <1>4 DEF q, q2

(* The same if no less is left of the tokens.                              *)
LEMMA CapFalls ==
  ASSUME Sized, Sized', Shares' = Shares, Low <= Low'
  PROVE  /\ Debt' <= Debt
         /\ clock' = clock /\ Last <= Last' => Cap' <= Cap
<1>1. Debt' <= Debt
  <2> DEFINE w  == (Shares - 1) * Burst
             l  == Low
             l2 == Low'
             d  == Debt
             d2 == Debt'
  <2>1. l \in Int /\ l2 \in Int /\ l <= l2 /\ w \in Int
    BY SharesAre DEF Sized
  <2>2. /\ d = IF -w - l > 0 THEN -w - l ELSE 0
        /\ d2 = IF -w - l2 > 0 THEN -w - l2 ELSE 0
    BY DEF Debt
  <2> HIDE DEF w, l, l2, d, d2
  <2>3. d2 <= d
    BY <2>1, <2>2
  <2> QED BY <2>3 DEF d, d2
<1> QED BY <1>1, CapFollows

LEMMA ByLineNext ==
  \A i \in Lines' : /\ Promises'[i] = Promised(i - 1)' /\ Pendings'[i] = Pending(i - 1)'
                    /\ Lows'[i] = AtMost(Pending(i - 1)', 0)
                    /\ Unfilleds'[i] = Unfilled(i - 1)' /\ Ages'[i] = Age(i - 1)'
                    /\ Claims'[i] = Claim(i - 1)'
<1> QED BY DEF Promises, Pendings, Lows, Unfilleds, Ages, Claims

LEMMA SharesStay ==
  ASSUME kind' = kind, version' = version
  PROVE  Shares' = Shares /\ Lines' = Lines /\ Refills' = Refills
<1>1. Shares' = Shares
  BY DEF Shares
<1> QED BY <1>1 DEF Lines, Refills

(* A shard that stays as it is, as far as it counts.                       *)
Still(t) == pipe'[t] = pipe[t] /\ Promised(t)' = Promised(t)

LEMMA StillIs ==
  ASSUME NEW t \in Shards, stage'[t] = stage[t], batch'[t] = batch[t],
         verdict'[t] = verdict[t], pipe'[t] = pipe[t]
  PROVE  Still(t)
<1> QED BY DEF Still, Promised

LEMMA Stays ==
  ASSUME NEW t \in Shards, Still(t)
  PROVE  /\ Promised(t)' = Promised(t) /\ Pending(t)' = Pending(t)
         /\ Unfilled(t)' = Unfilled(t)
         /\ clock' = clock => Age(t)' = Age(t)
<1>1. Promised(t)' = Promised(t) /\ Pending(t)' = Pending(t)
  BY DEF Still, Pending
<1> QED BY <1>1 DEF Still, Unfilled, Age

LEMMA StaysOK ==
  ASSUME NEW t \in Shards, Still(t), LineOK(t), Spare(t)',
         clock \in Nat, clock' \in Nat, clock <= clock'
  PROVE  LineOK(t)'
<1>1. Promised(t)' = Promised(t) /\ Pending(t)' = Pending(t) /\ pipe'[t] = pipe[t]
  BY Stays DEF Still
<1>2. Pipeline(pipe[t])'
  <2>1. Pipeline(pipe[t])
    BY DEF LineOK
  <2>2. \A x \in 0 .. clock : x \in 0 .. clock'
    OBVIOUS
  <2> QED BY <1>1, <2>1, <2>2 DEF Pipeline
<1> QED BY <1>1, <1>2 DEF LineOK

(* The sums, when only shard s moves.                                      *)
LEMMA OneMoves ==
  ASSUME Sized, Sized', Shares' = Shares, NEW s \in Shards, s < Shares,
         \A t \in Shards \ {s} : Still(t)
  PROVE  /\ SumTo(Promises, Shares)' = SumTo(Promises, Shares) - Promised(s) + Promised(s)'
         /\ SumTo(Pendings, Shares)' = SumTo(Pendings, Shares) - Pending(s) + Pending(s)'
         /\ SumTo(Lows, Shares)' = SumTo(Lows, Shares) - AtMost(Pending(s), 0) + AtMost(Pending(s)', 0)
         /\ SumTo(Unfilleds, Shares)' = SumTo(Unfilleds, Shares) - Unfilled(s) + Unfilled(s)'
         /\ clock' = clock => \A i \in 1 .. Shares : i # s + 1 => Ages'[i] = Ages[i]
<1> DEFINE n == Shares
           j == s + 1
<1>1. n \in Nat /\ j \in 1 .. n /\ j - 1 = s /\ Lines = 1 .. n /\ Lines' = 1 .. n
  BY SharesAre DEF Lines
<1>2. \A i \in 1 .. n : i # j => i - 1 \in Shards \ {s}
  <2>1. ASSUME NEW i \in 1 .. n, i # j PROVE i - 1 # s
    BY <1>1, <2>1
  <2> QED BY <2>1, SharesAre
<1> HIDE DEF n, j
<1>3. ASSUME NEW i \in 1 .. n, i # j
      PROVE  /\ Promises'[i] = Promises[i] /\ Pendings'[i] = Pendings[i]
             /\ Lows'[i] = Lows[i] /\ Unfilleds'[i] = Unfilleds[i]
             /\ clock' = clock => Ages'[i] = Ages[i]
  <2> DEFINE t == i - 1
  <2>1. t \in Shards /\ Still(t)
    BY <1>2, <1>3
  <2>2. /\ Promised(t)' = Promised(t) /\ Pending(t)' = Pending(t)
        /\ Unfilled(t)' = Unfilled(t)
        /\ clock' = clock => Age(t)' = Age(t)
    BY <2>1, Stays
  <2>3. i \in Lines /\ i \in Lines'
    BY <1>1
  <2> QED BY <2>2, <2>3, ByLine, ByLineNext
<1>4. /\ Promises[j] = Promised(s) /\ Promises'[j] = Promised(s)'
      /\ Pendings[j] = Pending(s) /\ Pendings'[j] = Pending(s)'
      /\ Lows[j] = AtMost(Pending(s), 0) /\ Lows'[j] = AtMost(Pending(s)', 0)
      /\ Unfilleds[j] = Unfilled(s) /\ Unfilleds'[j] = Unfilled(s)'
  BY <1>1, ByLine, ByLineNext
<1>5. \A i \in 1 .. n : /\ Promises[i] \in Int /\ Promises'[i] \in Int
                        /\ Pendings[i] \in Int /\ Pendings'[i] \in Int
                        /\ Lows[i] \in Int /\ Lows'[i] \in Int
                        /\ Unfilleds[i] \in Int /\ Unfilleds'[i] \in Int
  BY DEF Sized, n
<1>6. SumTo(Promises', n) = SumTo(Promises, n) - Promises[j] + Promises'[j]
  <2> DEFINE f == Promises'
             g == Promises
  <2>1. \A i \in 1 .. n : f[i] \in Int /\ g[i] \in Int /\ (i # j => f[i] = g[i])
    BY <1>3, <1>5
  <2> HIDE DEF f, g
  <2>2. SumTo(f, n) = SumTo(g, n) - g[j] + f[j]
    BY <1>1, <2>1, SumChanges
  <2> QED BY <2>2 DEF f, g
<1>7. SumTo(Pendings', n) = SumTo(Pendings, n) - Pendings[j] + Pendings'[j]
  <2> DEFINE f == Pendings'
             g == Pendings
  <2>1. \A i \in 1 .. n : f[i] \in Int /\ g[i] \in Int /\ (i # j => f[i] = g[i])
    BY <1>3, <1>5
  <2> HIDE DEF f, g
  <2>2. SumTo(f, n) = SumTo(g, n) - g[j] + f[j]
    BY <1>1, <2>1, SumChanges
  <2> QED BY <2>2 DEF f, g
<1>8. SumTo(Lows', n) = SumTo(Lows, n) - Lows[j] + Lows'[j]
  <2> DEFINE f == Lows'
             g == Lows
  <2>1. \A i \in 1 .. n : f[i] \in Int /\ g[i] \in Int /\ (i # j => f[i] = g[i])
    BY <1>3, <1>5
  <2> HIDE DEF f, g
  <2>2. SumTo(f, n) = SumTo(g, n) - g[j] + f[j]
    BY <1>1, <2>1, SumChanges
  <2> QED BY <2>2 DEF f, g
<1>9. SumTo(Unfilleds', n) = SumTo(Unfilleds, n) - Unfilleds[j] + Unfilleds'[j]
  <2> DEFINE f == Unfilleds'
             g == Unfilleds
  <2>1. \A i \in 1 .. n : f[i] \in Int /\ g[i] \in Int /\ (i # j => f[i] = g[i])
    BY <1>3, <1>5
  <2> HIDE DEF f, g
  <2>2. SumTo(f, n) = SumTo(g, n) - g[j] + f[j]
    BY <1>1, <2>1, SumChanges
  <2> QED BY <2>2 DEF f, g
<1>10. Shares' = n /\ Shares = n
  BY DEF n
<1>11. clock' = clock => \A i \in 1 .. n : i # j => Ages'[i] = Ages[i]
  BY <1>3
<1> QED BY <1>4, <1>6, <1>7, <1>8, <1>9, <1>10, <1>11 DEF n, j

(* The quantities when no shard moves.                                     *)
LEMMA NoneMoves ==
  ASSUME Shares' = Shares, \A t \in Shards : Still(t)
  PROVE  /\ Promises' = Promises /\ Pendings' = Pendings /\ Lows' = Lows
         /\ Unfilleds' = Unfilleds
         /\ clock' = clock => Ages' = Ages
         /\ clock' = clock /\ Cap' = Cap => Claims' = Claims
         /\ \A i \in 1 .. Shares : pipe'[i - 1] = pipe[i - 1]
<1>1. Lines' = Lines
  BY DEF Lines
<1>2. ASSUME NEW i \in Lines
      PROVE  /\ Promised(i - 1)' = Promised(i - 1) /\ Pending(i - 1)' = Pending(i - 1)
             /\ Unfilled(i - 1)' = Unfilled(i - 1)
             /\ clock' = clock => Age(i - 1)' = Age(i - 1)
             /\ pipe'[i - 1] = pipe[i - 1]
  <2> DEFINE t == i - 1
  <2>1. t \in Shards
    BY SharesAre DEF Lines
  <2>2. Still(t)
    BY <2>1
  <2> HIDE DEF t
  <2>3. /\ Promised(t)' = Promised(t) /\ Pending(t)' = Pending(t)
        /\ Unfilled(t)' = Unfilled(t)
        /\ clock' = clock => Age(t)' = Age(t)
    BY <2>1, <2>2, Stays
  <2>4. pipe'[t] = pipe[t]
    BY <2>2 DEF Still
  <2> QED BY <2>3, <2>4 DEF t
<1>3. Promises' = Promises
  BY <1>1, <1>2 DEF Promises
<1>4. Pendings' = Pendings
  BY <1>1, <1>2 DEF Pendings
<1>5. Lows' = Lows
  BY <1>1, <1>2 DEF Lows
<1>6. Unfilleds' = Unfilleds
  BY <1>1, <1>2 DEF Unfilleds
<1>7. clock' = clock => Ages' = Ages
  BY <1>1, <1>2 DEF Ages
<1>8. clock' = clock /\ Cap' = Cap => Claims' = Claims
  BY <1>1, <1>2 DEF Claims, Claim
<1>9. \A i \in 1 .. Shares : pipe'[i - 1] = pipe[i - 1]
  BY <1>2 DEF Lines
<1> QED BY <1>3, <1>4, <1>5, <1>6, <1>7, <1>8, <1>9

(* A step that touches neither bucket nor pipelines.                       *)
LEMMA QuietStep ==
  ASSUME TypeInv, PipesInv, kind' = kind, version' = version,
         hash' = hash, clock' = clock, granted' = granted, upsets' = upsets,
         \A t \in Shards : Still(t) /\ Spare(t)'
  PROVE  PipesInv'
<1>1. Shares' = Shares /\ Refills' = Refills
  BY SharesStay
<1>2. Tokens' = Tokens /\ Last' = Last
  BY DEF Tokens, Last, HGet
<1>3. /\ Promises' = Promises /\ Pendings' = Pendings /\ Lows' = Lows
      /\ Unfilleds' = Unfilleds /\ Ages' = Ages
  BY <1>1, NoneMoves
<1>4. Low' = Low
  BY <1>1, <1>2, <1>3 DEF Low
<1>5. Debt' = Debt
  BY <1>1, <1>4 DEF Debt
<1>6. Cap' = Cap
  BY <1>1, <1>2, <1>5 DEF Cap
<1>7. Claims' = Claims
  BY <1>1, <1>6, NoneMoves
<1>8. Owed' = Owed
  BY <1>1, <1>2, <1>3, <1>5 DEF Owed
<1>9. Time' = Time
  BY <1>1, <1>3, <1>7 DEF Time
<1>10. Allowance' = Allowance
  BY <1>1 DEF Allowance, Fillings
<1>11. LinesInv'
  <2>1. clock \in Nat /\ clock' \in Nat /\ clock <= clock'
    BY BucketTypes
  <2> SUFFICES ASSUME NEW t \in Shards PROVE LineOK(t)'
    BY DEF LinesInv
  <2> QED BY <2>1, StaysOK DEF PipesInv, LinesInv
<1>12. Alone'
  <2>1. pipe'[0] = pipe[0] /\ Pending(0)' = Pending(0)
    BY SharesAre, Stays DEF Still
  <2> QED BY <1>1, <1>2, <2>1 DEF PipesInv, Alone
<1>13. Counted' /\ Main' /\ (-(Shares * Burst) <= Low)'
  BY <1>1, <1>2, <1>4, <1>8, <1>9, <1>10 DEF PipesInv, Counted, Main
<1> QED BY <1>11, <1>12, <1>13 DEF PipesInv

(* The sums are bounded by the capacity of all shards.                     *)
LEMMA SumBounds ==
  ASSUME Sized
  PROVE  /\ (Shares - 1) * Burst \in Nat /\ Shares * Burst = (Shares - 1) * Burst + Burst
         /\ (2 * Shares - 1) * Burst = 2 * ((Shares - 1) * Burst) + Burst
         /\ -(Shares * Burst) <= SumTo(Lows, Shares) /\ SumTo(Lows, Shares) <= 0
         /\ SumTo(Lows, Shares) <= SumTo(Pendings, Shares)
         /\ 0 <= SumTo(Unfilleds, Shares) /\ SumTo(Unfilleds, Shares) <= Shares * Burst
         /\ 0 <= SumTo(Promises, Shares) /\ 0 <= SumTo(Claims, Shares)
<1> DEFINE n == Shares
<1>1. n \in Nat /\ n >= 1 /\ Burst \in Nat
  BY SharesAre
<1>2. \A i \in 1 .. n : /\ Promises[i] \in Nat /\ Pendings[i] \in Int
                        /\ Lows[i] \in Int /\ Lows[i] <= Pendings[i] /\ Lows[i] <= 0
                        /\ -Burst <= Lows[i]
                        /\ Unfilleds[i] \in Nat /\ Unfilleds[i] <= Burst
                        /\ Claims[i] \in Nat
  BY DEF Sized
<1> HIDE DEF n
<1>3. /\ (n - 1) * Burst \in Nat /\ n * Burst = (n - 1) * Burst + Burst
      /\ (2 * n - 1) * Burst = 2 * ((n - 1) * Burst) + Burst
  <2>1. n - 1 \in Nat
    BY <1>1
  <2> QED BY <1>1, <2>1
<1>4. -(n * Burst) <= SumTo(Lows, n) /\ SumTo(Lows, n) <= 0
  <2> DEFINE a == -Burst
             b == 0
  <2>1. a \in Int /\ b \in Int /\ \A i \in 1 .. n : Lows[i] \in Int /\ a <= Lows[i] /\ Lows[i] <= b
    BY <1>1, <1>2
  <2>2. n * a = -(n * Burst) /\ n * b = 0
    BY <1>1
  <2> HIDE DEF a, b
  <2>3. n * a <= SumTo(Lows, n) /\ SumTo(Lows, n) <= n * b
    BY <1>1, <2>1, SumBetween
  <2> QED BY <2>2, <2>3
<1>5. SumTo(Lows, n) <= SumTo(Pendings, n)
  BY <1>1, <1>2, SumAtMost
<1>6. 0 <= SumTo(Unfilleds, n) /\ SumTo(Unfilleds, n) <= n * Burst
  <2> DEFINE a == 0
             b == Burst
  <2>1. a \in Int /\ b \in Int /\ \A i \in 1 .. n : Unfilleds[i] \in Int /\ a <= Unfilleds[i] /\ Unfilleds[i] <= b
    BY <1>1, <1>2
  <2>2. n * a = 0 /\ n * b = n * Burst
    BY <1>1
  <2> HIDE DEF a, b
  <2>3. n * a <= SumTo(Unfilleds, n) /\ SumTo(Unfilleds, n) <= n * b
    BY <1>1, <2>1, SumBetween
  <2> QED BY <2>2, <2>3
<1>7. ASSUME NEW f, \A i \in 1 .. n : f[i] \in Nat PROVE 0 <= SumTo(f, n)
  <2> DEFINE z == [i \in 1 .. n |-> 0]
  <2>1. \A i \in 1 .. n : f[i] \in Int /\ z[i] \in Int /\ z[i] <= f[i] /\ z[i] = 0
    BY <1>7
  <2> HIDE DEF z
  <2>2. SumTo(z, n) <= SumTo(f, n)
    BY <1>1, <2>1, SumAtMost
  <2>3. SumTo(z, n) = 0
    BY <1>1, <2>1, SumZero
  <2> QED BY <2>2, <2>3
<1>8. 0 <= SumTo(Promises, n) /\ 0 <= SumTo(Claims, n)
  <2>1. \A i \in 1 .. n : Promises[i] \in Nat
    BY <1>2
  <2>2. \A i \in 1 .. n : Claims[i] \in Nat
    BY <1>2
  <2> QED BY <1>7, <2>1, <2>2
<1> QED BY <1>3, <1>4, <1>5, <1>6, <1>8 DEF n

(* Time stands still, and no shard claims more.                            *)
LEMMA NoLater ==
  ASSUME Sized, Sized', Shares' = Shares, Refills' = Refills, clock' = clock, Ages' = Ages,
         \A i \in 1 .. Shares : Claims'[i] <= Claims[i]
  PROVE  Time <= Time'
<1> DEFINE n == Shares
           f == Claims'
           g == Claims
<1>1. n \in Nat /\ \A i \in 1 .. n : f[i] \in Int /\ g[i] \in Int /\ f[i] <= g[i]
  <2>1. \A i \in 1 .. n : f[i] \in Nat /\ g[i] \in Nat
    BY DEF Sized
  <2> QED BY <2>1, SharesAre
<1>2. /\ Time = Refills * clock - SumTo(g, n) - PairSum(Ages, n)
      /\ Time' = Refills * clock - SumTo(f, n) - PairSum(Ages, n)
  BY DEF Time
<1>3. Refills * clock \in Int /\ PairSum(Ages, n) \in Int
  BY SharesAre DEF Sized
<1> DEFINE r == Refills * clock
           p == PairSum(Ages, n)
           a == Time
           b == Time'
<1> HIDE DEF n, f, g, r, p, a, b
<1>4. SumTo(f, n) <= SumTo(g, n) /\ SumTo(f, n) \in Int /\ SumTo(g, n) \in Int
  BY <1>1, SumAtMost, SumType
<1>5. a = r - SumTo(g, n) - p /\ b = r - SumTo(f, n) - p
  BY <1>2 DEF r, p, a, b
<1>6. r \in Int /\ p \in Int
  BY <1>3 DEF r, p
<1>7. a <= b
  BY <1>4, <1>5, <1>6
<1> QED BY <1>7 DEF a, b

(* The bucket is deleted, or stored anew: this costs the capacity of all   *)
(* shards, and of those that may have overdrawn it.                        *)
LEMMA Refreshed ==
  ASSUME TypeInv, TypeInv', PipesInv, kind' = kind, version' = version,
         clock' = clock, granted' = granted, upsets' = upsets + 1,
         \A t \in Shards : Still(t) /\ Spare(t)',
         NEW v \in 0 .. Burst, Tokens' = v, Last' = clock,
         "tokens" \in DOMAIN hash' \/ v = 0
  PROVE  PipesInv'
<1>1. Shares' = Shares /\ Refills' = Refills
  BY SharesStay
<1>2. /\ Promises' = Promises /\ Pendings' = Pendings /\ Lows' = Lows
      /\ Unfilleds' = Unfilleds /\ Ages' = Ages
  BY <1>1, NoneMoves
<1>3. Counted'
  <2>1. clock \in Nat
    BY BucketTypes
  <2> QED BY <2>1 DEF PipesInv, Counted
<1>4. LinesInv'
  <2>1. clock \in Nat /\ clock' \in Nat /\ clock <= clock'
    BY BucketTypes
  <2> SUFFICES ASSUME NEW t \in Shards PROVE LineOK(t)'
    BY DEF LinesInv
  <2> QED BY <2>1, StaysOK DEF PipesInv, LinesInv
<1>5. Sized /\ Sized'
  BY <1>3, <1>4, SumTypes, SumTypesNext DEF PipesInv
<1> DEFINE w == (Shares - 1) * Burst
           l == SumTo(Lows, Shares)
           u == SumTo(Unfilleds, Shares)
           x == Tokens
           d == Debt
           d2 == Debt'
           o == Owed
           o2 == Owed'
           there == "tokens" \in DOMAIN hash
           there2 == "tokens" \in DOMAIN hash'
           rest == granted + SumTo(Promises, Shares) + SumTo(Pendings, Shares)
           m == (2 * Shares - 1) * Burst
<1>6. /\ w \in Nat /\ Burst \in Nat /\ m = 2 * w + Burst /\ m \in Int
      /\ l \in Int /\ -(w + Burst) <= l /\ l <= 0
      /\ u \in Int /\ 0 <= u /\ u <= w + Burst
      /\ v \in Int /\ 0 <= v /\ v <= Burst
  BY <1>5, SumBounds, SharesAre DEF Sized
<1>7. /\ x \in Int /\ d \in Int /\ d2 \in Int /\ o \in Int /\ o2 \in Int /\ rest \in Int
      /\ (~there => x = 0)
  BY <1>5, BucketTypes DEF Sized, PipesInv, Counted
<1>8. /\ d = IF -w - (x + l) > 0 THEN -w - (x + l) ELSE 0
      /\ d2 = IF -w - (v + l) > 0 THEN -w - (v + l) ELSE 0
  BY <1>1, <1>2 DEF Debt, Low
<1>9. /\ o = rest + x + d + (IF there THEN 0 ELSE u)
      /\ o2 = rest + v + d2 + (IF there2 THEN 0 ELSE u)
      /\ (there2 \/ v = 0)
  <2>1. /\ Owed = granted + SumTo(Promises, Shares) + x + SumTo(Pendings, Shares) + d
                    + (IF there THEN 0 ELSE u)
        /\ Owed' = granted + SumTo(Promises, Shares) + v + SumTo(Pendings, Shares) + d2
                    + (IF there2 THEN 0 ELSE u)
    BY <1>1, <1>2 DEF Owed
  <2> DEFINE a == SumTo(Promises, Shares)
             b == SumTo(Pendings, Shares)
             c == IF there THEN 0 ELSE u
             c2 == IF there2 THEN 0 ELSE u
  <2>2. /\ o = granted + a + x + b + d + c /\ o2 = granted + a + v + b + d2 + c2
        /\ rest = granted + a + b
    BY <2>1
  <2>3. granted \in Int /\ a \in Int /\ b \in Int /\ c \in Int /\ c2 \in Int
    BY <1>5, <1>6 DEF Sized, PipesInv, Counted
  <2> HIDE DEF a, b, c, c2, x, d, d2, o, o2, rest
  <2>4. o = rest + x + d + c /\ o2 = rest + v + d2 + c2
    BY <1>6, <1>7, <2>2, <2>3
  <2> QED BY <2>4 DEF c, c2
<1>10. o2 <= o + m
  <2> HIDE DEF w, l, u, x, d, d2, o, o2, there, there2, rest, m
  <2>1. v + d2 <= x + d + v + w
    BY <1>6, <1>7, <1>8
  <2>2. CASE there2
    BY <1>6, <1>7, <1>9, <2>1, <2>2
  <2>3. CASE ~there2 /\ there
    BY <1>6, <1>7, <1>9, <2>1, <2>3
  <2>4. CASE ~there2 /\ ~there
    BY <1>6, <1>7, <1>8, <1>9, <2>4
  <2> QED BY <2>2, <2>3, <2>4
<1>11. Cap' = 0
  <2> DEFINE z == TicksPerToken * (Shares * Burst + d2)
  <2>1. z \in Nat
    <3> DEFINE y == Shares * Burst
    <3>1. y \in Nat /\ d2 \in Nat /\ TicksPerToken \in Nat
      BY <1>5, SharesAre DEF Sized
    <3> HIDE DEF y, d2
    <3>2. TicksPerToken * (y + d2) \in Nat
      BY <3>1
    <3> QED BY <3>2 DEF y
  <2>2. Cap' = AtMost(clock' - Last', z)
    BY <1>1 DEF Cap
  <2> HIDE DEF z
  <2>3. clock' - Last' = 0
    BY BucketTypes
  <2> QED BY <2>1, <2>2, <2>3 DEF AtMost
<1>12. \A i \in 1 .. Shares : Claims'[i] <= Claims[i]
  <2> SUFFICES ASSUME NEW i \in 1 .. Shares PROVE Claims'[i] <= Claims[i]
    OBVIOUS
  <2>1. i \in Lines /\ i \in Lines'
    BY <1>1 DEF Lines
  <2>2. /\ Claims[i] = IF pipe[i - 1] = <<>> THEN Cap ELSE Ages[i]
        /\ Claims'[i] = IF pipe'[i - 1] = <<>> THEN Cap' ELSE Ages'[i]
    BY <2>1, ByLine, ByLineNext DEF Claim
  <2>3. pipe'[i - 1] = pipe[i - 1]
    BY <1>1, NoneMoves
  <2>4. Cap \in Nat /\ Ages[i] \in Nat
    BY <1>5 DEF Sized
  <2> QED BY <1>2, <1>11, <2>2, <2>3, <2>4
<1>13. Time <= Time'
  BY <1>1, <1>2, <1>5, <1>12, NoLater
<1>14. Main'
  <2>1. m \in Int /\ Owed' <= Owed + m
    BY <1>6, <1>10
  <2>2. TicksPerToken * (m - (2 * Shares - 1) * Burst) <= 0
    <3>1. m - m = 0 /\ TicksPerToken * 0 = 0
      BY <1>6, SharesAre
    <3> QED BY <3>1
  <2>3. Time + 0 <= Time'
    BY <1>5, <1>13 DEF Sized
  <2>4. upsets \in Nat /\ Main
    BY DEF PipesInv, Counted
  <2> DEFINE z == 0
  <2>5. z \in Int /\ Time + z <= Time' /\ TicksPerToken * (m - (2 * Shares - 1) * Burst) <= z
    BY <2>2, <2>3
  <2> HIDE DEF m, z
  <2> QED BY <1>1, <1>5, <2>1, <2>4, <2>5, MainKept
<1>15. (-(Shares * Burst) <= Low)'
  <2>1. Low' = v + l /\ Shares * Burst = w + Burst
    BY <1>1, <1>2, <1>5, SumBounds DEF Low
  <2> HIDE DEF w, l
  <2>2. -(w + Burst) <= v + l
    BY <1>6
  <2> QED BY <1>1, <2>1, <2>2
<1>16. Alone'
  <2> SUFFICES ASSUME pipe'[0] # <<>>, "last_ns" \in DOMAIN hash'
               PROVE  pipe'[0][Len(pipe'[0])].by - hash'["last_ns"] <= TicksPerToken * Burst
    BY DEF Alone
  <2>1. hash'["last_ns"] = clock
    BY DEF Last, HGet
  <2>2. pipe'[0] = pipe[0] /\ LineOK(0) /\ 0 \in Shards
    BY SharesAre DEF Still, PipesInv, LinesInv
  <2>3. pipe'[0][Len(pipe'[0])].by \in 0 .. clock
    BY <2>2, LineBounds
  <2>4. TicksPerToken * Burst \in Nat /\ clock \in Nat
    BY SharesAre, BucketTypes
  <2> QED BY <2>1, <2>3, <2>4
<1> QED BY <1>3, <1>4, <1>14, <1>15, <1>16 DEF PipesInv

(* Time passes: each shard can claim a tick more, and so can each pair.    *)
LEMMA TickStep ==
  ASSUME TypeInv, TypeInv', PipesInv, kind' = kind, version' = version,
         hash' = hash, clock' = clock + 1, granted' = granted, upsets' = upsets,
         \A t \in Shards : Still(t) /\ Spare(t)'
  PROVE  PipesInv'
<1>1. Shares' = Shares /\ Refills' = Refills
  BY SharesStay
<1>2. /\ Promises' = Promises /\ Pendings' = Pendings /\ Lows' = Lows
      /\ Unfilleds' = Unfilleds
  BY <1>1, NoneMoves
<1>3. /\ clock \in Nat /\ Tokens' = Tokens /\ Last \in Int
      /\ Last' = IF "last_ns" \in DOMAIN hash THEN Last ELSE clock + 1
      /\ ("last_ns" \notin DOMAIN hash => Last = clock) /\ Last <= clock
  <2>1. /\ clock \in Nat /\ Last \in Int /\ ("last_ns" \notin DOMAIN hash => Last = clock)
    BY BucketTypes
  <2> QED BY <2>1 DEF Tokens, Last, HGet, PipesInv, Counted
<1>4. Counted'
  <2>1. Last' <= clock + 1
    BY <1>3
  <2> QED BY <2>1 DEF PipesInv, Counted
<1>5. LinesInv'
  <2>1. clock \in Nat /\ clock' \in Nat /\ clock <= clock'
    BY <1>3
  <2> SUFFICES ASSUME NEW t \in Shards PROVE LineOK(t)'
    BY DEF LinesInv
  <2> QED BY <2>1, StaysOK DEF PipesInv, LinesInv
<1>6. Sized /\ Sized'
  BY <1>4, <1>5, SumTypes, SumTypesNext DEF PipesInv
<1>7. Low' = Low
  BY <1>1, <1>2, <1>3 DEF Low
<1>8. Debt' = Debt
  BY <1>1, <1>7 DEF Debt
<1>9. Owed' = Owed
  BY <1>1, <1>2, <1>3, <1>8 DEF Owed
<1>10. Cap' <= Cap + 1
  <2> DEFINE z == TicksPerToken * (Shares * Burst + Debt)
             p == Last
             p2 == Last'
             c == Cap
             c2 == Cap'
  <2>1. z \in Int
    <3> DEFINE y == Shares * Burst
               d == Debt
    <3>1. y \in Nat /\ d \in Nat /\ TicksPerToken \in Nat
      BY <1>6, SharesAre DEF Sized
    <3> HIDE DEF y, d
    <3>2. TicksPerToken * (y + d) \in Int
      BY <3>1
    <3> QED BY <3>2 DEF y, d
  <2>2. c = AtMost(clock - p, z) /\ c2 = AtMost(clock' - p2, z)
    BY <1>1, <1>8 DEF Cap
  <2>3. p \in Int /\ p <= clock /\ (p2 = p \/ (p2 = clock + 1 /\ p = clock))
    BY <1>3
  <2> HIDE DEF z, p, p2, c, c2
  <2>4. c2 <= c + 1
    BY <1>3, <2>1, <2>2, <2>3 DEF AtMost
  <2> QED BY <2>4 DEF c, c2
<1>11. \A i \in 1 .. Shares : Ages'[i] <= Ages[i] + 1 /\ Claims'[i] <= Claims[i] + 1
  <2> SUFFICES ASSUME NEW i \in 1 .. Shares
               PROVE  Ages'[i] <= Ages[i] + 1 /\ Claims'[i] <= Claims[i] + 1
    OBVIOUS
  <2>1. i \in Lines /\ i \in Lines' /\ i - 1 \in Shards
    BY <1>1, SharesAre DEF Lines
  <2> PICK s \in Shards : s = i - 1
    BY <2>1
  <2>2. pipe'[s] = pipe[s]
    BY DEF Still
  <2>3. /\ Ages[i] = Age(s) /\ Ages'[i] = Age(s)'
        /\ Claims[i] = IF pipe[s] = <<>> THEN Cap ELSE Age(s)
        /\ Claims'[i] = IF pipe'[s] = <<>> THEN Cap' ELSE Age(s)'
    BY <2>1, ByLine, ByLineNext DEF Claim
  <2>4. CASE pipe[s] = <<>>
    <3>1. Age(s) = 0 /\ Age(s)' = 0
      BY <2>2, <2>4 DEF Age
    <3> QED BY <1>10, <2>2, <2>3, <2>4, <3>1
  <2>5. CASE pipe[s] # <<>>
    <3>1. LineOK(s) /\ s \in Shards
      BY DEF PipesInv, LinesInv
    <3>2. pipe[s][Len(pipe[s])].by \in 0 .. clock
      BY <2>5, <3>1, LineBounds
    <3>3. /\ Age(s) = clock - pipe[s][Len(pipe[s])].by
          /\ Age(s)' = clock' - pipe[s][Len(pipe[s])].by
      BY <2>2, <2>5 DEF Age
    <3> DEFINE b == pipe[s][Len(pipe[s])].by
    <3>4. clock' - b <= (clock - b) + 1
      <4>1. b \in Int
        BY <3>2
      <4> HIDE DEF b
      <4> QED BY <1>3, <4>1
    <3> QED BY <2>2, <2>3, <2>5, <3>3, <3>4
  <2> QED BY <2>4, <2>5
<1>12. Time <= Time'
  <2> DEFINE n == Shares
             f == Claims'
             g == Claims
             a == Ages
             b == Ages'
             t == Time
             t2 == Time'
             r == Refills
             q == r * clock
  <2>1. \A i \in 1 .. n : /\ f[i] \in Int /\ g[i] \in Int /\ f[i] <= g[i] + 1
                          /\ a[i] \in Nat /\ b[i] \in Nat /\ b[i] <= a[i] + 1
    <3>1. \A i \in 1 .. n : f[i] \in Nat /\ g[i] \in Nat /\ a[i] \in Nat /\ b[i] \in Nat
      BY <1>1, <1>6 DEF Sized
    <3> QED BY <1>11, <3>1
  <2>2. n \in Nat /\ r \in Nat /\ 2 * r = n * (n + 1)
    BY SharesAre
  <2>3. /\ t = q - SumTo(g, n) - PairSum(a, n)
        /\ t2 = r * (clock + 1) - SumTo(f, n) - PairSum(b, n)
    BY <1>1 DEF Time
  <2>4. PairSum(a, n) \in Int /\ PairSum(b, n) \in Int
    BY <1>1, <1>6 DEF Sized
  <2>5. SumTo(f, n) \in Int /\ SumTo(g, n) \in Int
    BY <1>1, <1>6 DEF Sized
  <2>6. q \in Int /\ r * (clock + 1) = q + r
    BY <1>3, <2>2
  <2> HIDE DEF n, f, g, a, b, t, t2, r, q
  <2>7. 2 * PairSum(b, n) <= 2 * PairSum(a, n) + n * (n - 1)
    BY <2>1, <2>2, PairsLater
  <2>8. SumTo(f, n) <= SumTo(g, n) + n
    <3> DEFINE c == 1
    <3>1. c \in Int /\ n * c = n /\ \A i \in 1 .. n : f[i] \in Int /\ g[i] \in Int /\ f[i] <= g[i] + c
      BY <2>1, <2>2
    <3> HIDE DEF c
    <3>2. SumTo(f, n) <= SumTo(g, n) + n * c
      BY <2>2, <3>1, SumGrows
    <3> QED BY <3>1, <3>2
  <2>9. n * (n + 1) = n * n + n /\ n * (n - 1) = n * n - n /\ n * n \in Int
    BY <2>2
  <2>10. t <= t2
    BY <2>2, <2>3, <2>4, <2>5, <2>6, <2>7, <2>8, <2>9
  <2> QED BY <2>10 DEF t, t2
<1>13. Main'
  <2> DEFINE d == 0
  <2>1. TicksPerToken * d = 0 /\ d \in Int
    BY SharesAre
  <2>2. Owed' <= Owed + d /\ Time + d <= Time'
    BY <1>6, <1>9, <1>12 DEF Sized
  <2>3. upsets \in Nat /\ Main
    BY DEF PipesInv, Counted
  <2>4. TicksPerToken * d <= d
    BY <2>1
  <2> HIDE DEF d
  <2> QED BY <1>1, <1>6, <2>1, <2>2, <2>3, <2>4, MainKept
<1>14. Alone'
  <2>1. pipe'[0] = pipe[0] /\ Pending(0)' = Pending(0)
    BY SharesAre, Stays DEF Still
  <2> QED BY <1>1, <1>3, <2>1 DEF PipesInv, Alone
<1> QED BY <1>1, <1>4, <1>5, <1>7, <1>13, <1>14 DEF PipesInv

LEMMA LinesTypedNext ==
  TypeInv' => \A t \in Shards : Promised(t)' \in Nat /\ Pending(t)' \in Int /\ Unfilled(t)' \in Int
<1> DEFINE P == \A t \in Shards : Promised(t) \in Nat /\ Pending(t) \in Int /\ Unfilled(t) \in Int
<1>1. TypeInv => P
  BY LineTypes
<1> HIDE DEF P
<1>2. TypeInv' => P'
  BY <1>1, PTL
<1> QED BY <1>2 DEF P

(* One shard moves.                                                        *)
LEMMA LineNext ==
  ASSUME TypeInv, TypeInv', PipesInv, NEW s \in Shards, clock' = clock,
         \A t \in Shards \ {s} : Still(t) /\ Spare(t)',
         LineOK(s)', granted' \in Nat, upsets' \in Nat, Last' <= clock
  PROVE  Counted' /\ LinesInv' /\ Sized /\ Sized'
<1>1. Counted'
  BY DEF Counted
<1>2. LinesInv'
  <2>1. clock \in Nat /\ clock' \in Nat /\ clock <= clock'
    BY BucketTypes
  <2> SUFFICES ASSUME NEW t \in Shards PROVE LineOK(t)'
    BY DEF LinesInv
  <2>2. CASE t = s
    BY <2>2
  <2>3. CASE t # s
    BY <2>1, <2>3, StaysOK DEF PipesInv, LinesInv
  <2> QED BY <2>2, <2>3
<1>3. Sized /\ Sized'
  BY <1>1, <1>2, SumTypes, SumTypesNext DEF PipesInv
<1> QED BY <1>1, <1>2, <1>3

(* What is owed grows by what one shard adds.                              *)
LEMMA OwedMoves ==
  ASSUME TypeInv, TypeInv', Sized, Sized', Counted, Counted', Shares' = Shares,
         NEW s \in Shards, s < Shares, \A t \in Shards \ {s} : Still(t),
         NEW g \in Int, NEW f \in Int,
         granted' + Promised(s)' + Tokens' + Pending(s)'
           = granted + Promised(s) + Tokens + Pending(s) + g,
         Unfilled(s)' = Unfilled(s) + f,
         "tokens" \in DOMAIN hash => "tokens" \in DOMAIN hash'
  PROVE  /\ "tokens" \in DOMAIN hash' => Owed' <= Owed + (Debt' - Debt) + g
         /\ "tokens" \notin DOMAIN hash' => Owed' = Owed + (Debt' - Debt) + g + f
<1> DEFINE a == SumTo(Promises, Shares)
           a2 == SumTo(Promises, Shares)'
           b == SumTo(Pendings, Shares)
           b2 == SumTo(Pendings, Shares)'
           u == SumTo(Unfilleds, Shares)
           u2 == SumTo(Unfilleds, Shares)'
           p == Promised(s)
           p2 == Promised(s)'
           q == Pending(s)
           q2 == Pending(s)'
           r == Unfilled(s)
           r2 == Unfilled(s)'
           x == Tokens
           x2 == Tokens'
           d == Debt
           d2 == Debt'
           o == Owed
           o2 == Owed'
           h == granted
           h2 == granted'
           there == "tokens" \in DOMAIN hash
           there2 == "tokens" \in DOMAIN hash'
<1>1. a2 = a - p + p2 /\ b2 = b - q + q2 /\ u2 = u - r + r2
  BY OneMoves
<1>2. /\ a \in Int /\ a2 \in Int /\ b \in Int /\ b2 \in Int /\ u \in Int /\ u2 \in Int
      /\ x \in Int /\ x2 \in Int /\ d \in Int /\ d2 \in Int /\ h \in Int /\ h2 \in Int
  BY DEF Sized, Counted
<1>3. /\ p \in Int /\ q \in Int /\ r \in Int
  BY LineTypes
<1>4. /\ p2 \in Int /\ q2 \in Int /\ r2 \in Int
  <2>1. \A t \in Shards : /\ Promised(t)' \in Nat /\ Pending(t)' \in Int /\ Unfilled(t)' \in Int
    BY LinesTypedNext
  <2> QED BY <2>1
<1>5. 0 <= u
  BY SumBounds
<1>6. /\ o = h + a + x + b + d + (IF there THEN 0 ELSE u)
      /\ o2 = h2 + a2 + x2 + b2 + d2 + (IF there2 THEN 0 ELSE u2)
  BY DEF Owed
<1>7. h2 + p2 + x2 + q2 = h + p + x + q + g /\ r2 = r + f /\ (there => there2)
  OBVIOUS
<1> HIDE DEF a, a2, b, b2, u, u2, p, p2, q, q2, r, r2, x, x2, d, d2, o, o2, h, h2, there, there2
<1>8. CASE there2
  <2>1. o2 <= o + (d2 - d) + g
    <3>1. h2 + a2 + x2 + b2 = h + a + x + b + g
      BY <1>1, <1>2, <1>3, <1>4, <1>7
    <3>2. o2 = h2 + a2 + x2 + b2 + d2 /\ h + a + x + b + d <= o
      BY <1>2, <1>5, <1>6, <1>8
    <3>3. o \in Int /\ o2 \in Int
      BY <1>2, <1>6
    <3> QED BY <1>2, <3>1, <3>2, <3>3
  <2> QED BY <1>8, <2>1 DEF o, o2, d, d2, there2
<1>9. CASE ~there2
  <2>1. o2 = o + (d2 - d) + g + f
    <3>1. o = h + a + x + b + d + u /\ o2 = h2 + a2 + x2 + b2 + d2 + u2
      BY <1>6, <1>7, <1>9
    <3> QED BY <1>1, <1>2, <1>3, <1>4, <1>7, <3>1
  <2> QED BY <1>9, <2>1 DEF o, o2, d, d2, there2
<1> QED BY <1>8, <1>9 DEF there2

(* No shard claims more but the one that moves.                            *)
LEMMA ClaimsMove ==
  ASSUME Sized, Sized', Shares' = Shares, clock' = clock,
         NEW s \in Shards, s < Shares, \A t \in Shards \ {s} : Still(t),
         Cap' <= Cap, Age(s)' = Age(s), Refills' = Refills
  PROVE  Time + (Claim(s) - Claim(s)') <= Time'
<1> DEFINE n == Shares
           j == s + 1
           f == Claims'
           g == Claims
           c == Claim(s)
           c2 == Claim(s)'
<1>1. n \in Nat /\ j \in 1 .. n /\ j - 1 = s /\ Lines = 1 .. n /\ Lines' = 1 .. n
  BY SharesAre DEF Lines
<1>2. ASSUME NEW i \in 1 .. n, i # j PROVE f[i] <= g[i] /\ Ages'[i] = Ages[i]
  <2>1. PICK t \in Shards : t = i - 1
    BY SharesAre
  <2>2. t # s
    BY <1>1, <1>2, <2>1
  <2>3. Still(t) /\ Age(t)' = Age(t)
    BY <2>2, Stays
  <2>4. /\ Ages[i] = Age(t) /\ Ages'[i] = Age(t)'
        /\ Claims[i] = IF pipe[t] = <<>> THEN Cap ELSE Age(t)
        /\ Claims'[i] = IF pipe'[t] = <<>> THEN Cap' ELSE Age(t)'
    BY <1>1, <2>1, ByLine, ByLineNext DEF Claim
  <2>5. Ages[i] \in Nat
    BY DEF Sized
  <2> QED BY <2>3, <2>4, <2>5 DEF Still
<1>3. Ages' = Ages
  <2>1. \A i \in 1 .. n : Ages'[i] = Ages[i]
    <3>1. Ages'[j] = Ages[j]
      BY <1>1, ByLine, ByLineNext
    <3> QED BY <1>2, <3>1
  <2> QED BY <1>1, <2>1 DEF Ages
<1>4. g[j] = c /\ f[j] = c2
  BY <1>1, ByLine, ByLineNext
<1>5. \A i \in 1 .. n : f[i] \in Int /\ g[i] \in Int
  <2>1. \A i \in 1 .. n : f[i] \in Nat /\ g[i] \in Nat
    BY DEF Sized
  <2> QED BY <2>1
<1> DEFINE r == Refills * clock
           p == PairSum(Ages, n)
           a == Time
           b == Time'
<1>6. a = r - SumTo(g, n) - p /\ b = r - SumTo(f, n) - p
  BY <1>3 DEF Time
<1>7. r \in Int /\ p \in Int
  BY SharesAre DEF Sized
<1> HIDE DEF n, j, f, g, r, p, a, b, c, c2
<1>8. SumTo(f, n) <= SumTo(g, n) - g[j] + f[j]
  BY <1>1, <1>2, <1>5, SumDrops
<1>9. SumTo(f, n) \in Int /\ SumTo(g, n) \in Int /\ c \in Int /\ c2 \in Int
  <2>1. SumTo(f, n) \in Int
    BY <1>1, <1>5, SumType
  <2>2. SumTo(g, n) \in Int
    BY <1>1, <1>5, SumType
  <2> QED BY <1>1, <1>4, <1>5, <2>1, <2>2
<1>10. a + (c - c2) <= b
  BY <1>4, <1>6, <1>7, <1>8, <1>9
<1> QED BY <1>10 DEF a, b, c, c2

LEMMA LineStep ==
  ASSUME TypeInv, TypeInv', PipesInv, kind' = kind, version' = version, clock' = clock,
         NEW s \in Shards, s < Shares, \A t \in Shards \ {s} : Still(t) /\ Spare(t)',
         LineOK(s)', granted' \in Nat, upsets' = upsets, Last' <= clock,
         Age(s)' = Age(s), Debt' <= Debt, Cap' <= Cap,
         NEW g \in Int, NEW f \in Int, NEW d \in Int,
         granted' + Promised(s)' + Tokens' + Pending(s)'
           = granted + Promised(s) + Tokens + Pending(s) + g,
         Unfilled(s)' = Unfilled(s) + f,
         "tokens" \in DOMAIN hash => "tokens" \in DOMAIN hash',
         IF "tokens" \in DOMAIN hash' THEN g <= d ELSE g + f <= d,
         TicksPerToken * d <= Claim(s) - Claim(s)'
  PROVE  Counted' /\ LinesInv' /\ Main'
<1>1. Shares' = Shares /\ Refills' = Refills
  BY SharesStay
<1>2. Counted' /\ LinesInv' /\ Sized /\ Sized'
  <2>1. upsets' \in Nat
    BY DEF PipesInv, Counted
  <2> QED BY <2>1, LineNext
<1> DEFINE c == Claim(s)
           c2 == Claim(s)'
           o == Owed
           o2 == Owed'
           e == Debt
           e2 == Debt'
           there == "tokens" \in DOMAIN hash'
<1>3. c \in Int /\ c2 \in Int
  <2>1. s + 1 \in 1 .. Shares /\ (s + 1) - 1 = s /\ s + 1 \in Lines /\ s + 1 \in Lines'
    BY <1>1, SharesAre DEF Lines
  <2>2. Claims[s + 1] = c /\ Claims'[s + 1] = c2
    BY <2>1, ByLine, ByLineNext
  <2>3. Claims[s + 1] \in Nat /\ Claims'[s + 1] \in Nat
    BY <1>1, <1>2, <2>1 DEF Sized
  <2> QED BY <2>2, <2>3
<1>4. /\ there => o2 <= o + (e2 - e) + g
      /\ ~there => o2 = o + (e2 - e) + g + f
  BY <1>1, <1>2, OwedMoves DEF PipesInv
<1>5. o2 <= o + d
  <2>1. /\ o \in Int /\ o2 \in Int /\ e \in Int /\ e2 \in Int /\ e2 <= e
        /\ IF there THEN g <= d ELSE g + f <= d
    BY <1>2 DEF Sized
  <2> HIDE DEF o, o2, e, e2, there
  <2> QED BY <1>4, <2>1
<1>6. Time + (c - c2) <= Time'
  BY <1>1, <1>2, ClaimsMove
<1>7. Main'
  <2> DEFINE z == c - c2
  <2>1. z \in Int /\ TicksPerToken * d <= z /\ Time + z <= Time'
    BY <1>3, <1>6
  <2>2. upsets \in Nat /\ Main
    BY DEF PipesInv, Counted
  <2> HIDE DEF z, c, c2, e, e2, there
  <2> QED BY <1>1, <1>2, <1>5, <2>1, <2>2, MainKept DEF o, o2
<1> QED BY <1>2, <1>7

(* The pipeline is done: what was promised is granted.                     *)
LEMMA WriteReturnsStep ==
  ASSUME IInv, TypeInv', PipesInv, kind' = kind, NEW s \in Shards, WriteReturns(s)
  PROVE  PipesInv'
<1>1. /\ hash' = hash /\ clock' = clock /\ upsets' = upsets /\ version' = version
      /\ pipe' = pipe /\ queue' = queue /\ batch' = batch /\ pipe[s] = <<>>
      /\ granted' = granted + Granted(batch[s], verdict[s])
      /\ stage[s] = "write" /\ stage'[s] = "send"
      /\ \A t \in Shards \ {s} : stage'[t] = stage[t] /\ verdict'[t] = verdict[t]
  BY DEF WriteReturns, IInv, TypeInv, BatchTypeOK
<1>2. TypeInv /\ LineOK(s) /\ Counted
  BY DEF IInv, PipesInv, LinesInv
<1>3. s < Shares
  BY <1>1, <1>2, SharesAre DEF LineOK, Spare
<1>4. Shares' = Shares
  BY <1>1, SharesStay
<1>5. \A t \in Shards \ {s} : Still(t) /\ Spare(t)'
  BY <1>1, <1>4, StillIs DEF PipesInv, LinesInv, LineOK, Spare
<1>6. Promised(s)' = 0 /\ Promised(s) = Granted(batch[s], verdict[s]) /\ Promised(s) \in Nat
  BY <1>1, <1>2, LineTypes DEF Promised
<1>7. Pending(s)' = Pending(s) /\ Unfilled(s)' = Unfilled(s) /\ Age(s)' = Age(s)
  BY <1>1 DEF Pending, Unfilled, Age
<1>8. LineOK(s)'
  <2>1. Pipeline(pipe[s])'
    BY <1>1 DEF Pipeline
  <2>2. (Promised(s) <= Burst)'
    BY <1>6, SharesAre
  <2>3. Spare(s)'
    BY <1>3, <1>4, SharesAre DEF Spare
  <2> QED BY <1>1, <2>1, <2>2, <2>3 DEF LineOK
<1>9. Tokens' = Tokens /\ Last' = Last /\ Last' <= clock
  BY <1>1, <1>2 DEF Tokens, Last, HGet, Counted
<1>10. granted' \in Nat
  BY <1>1, <1>2, <1>6 DEF Counted
<1>11. Counted' /\ LinesInv' /\ Sized /\ Sized'
  <2>1. upsets' \in Nat
    BY <1>1, <1>2 DEF Counted
  <2> QED BY <1>1, <1>2, <1>5, <1>8, <1>9, <1>10, <2>1, LineNext
<1>12. Low' = Low
  <2> DEFINE l == SumTo(Lows, Shares)
             l2 == SumTo(Lows, Shares)'
             m == AtMost(Pending(s), 0)
  <2>1. l2 = l - m + m
    BY <1>3, <1>4, <1>5, <1>7, <1>11, OneMoves
  <2>2. l \in Int /\ m \in Int
    <3>1. m \in Int
      BY <1>2, LineBounds
    <3> QED BY <1>11, <3>1 DEF Sized
  <2>3. Low = Tokens + l /\ Low' = Tokens' + l2
    BY DEF Low
  <2> HIDE DEF l, l2, m
  <2>4. l2 = l
    BY <2>1, <2>2
  <2> QED BY <1>9, <2>3, <2>4
<1>13. Debt' = Debt
  BY <1>4, <1>12 DEF Debt
<1>14. Cap' = Cap
  BY <1>1, <1>4, <1>9, <1>13 DEF Cap
<1>15. Claim(s)' = Claim(s) /\ Claim(s) \in Int
  <2>1. Claim(s)' = Claim(s)
    BY <1>1, <1>7, <1>14 DEF Claim
  <2>2. Claim(s) = Cap
    BY <1>1 DEF Claim
  <2> QED BY <1>11, <2>1, <2>2 DEF Sized
<1>16. Counted' /\ LinesInv' /\ Main'
  <2> DEFINE z == 0
             x == Tokens
             q == Pending(s)
             p == Promised(s)
             u == Unfilled(s)
             c == Claim(s)
             c2 == Claim(s)'
  <2>1. /\ z \in Int /\ x \in Int /\ q \in Int /\ u \in Int /\ c \in Int /\ c2 = c
        /\ granted \in Int /\ p \in Int
    BY <1>2, <1>6, <1>15, LineTypes, BucketTypes DEF Counted
  <2>2. /\ granted' + Promised(s)' + Tokens' + Pending(s)' = granted + p + x + q + z
        /\ Unfilled(s)' = u + z /\ z + z <= z /\ z <= z /\ TicksPerToken * z <= c - c2
    <3>1. granted' = granted + p /\ Promised(s)' = 0 /\ Tokens' = x /\ Pending(s)' = q
      BY <1>1, <1>6, <1>7, <1>9
    <3>2. (granted + p) + 0 + x + q = granted + p + x + q + z
      <4> HIDE DEF x, q, p
      <4> QED BY <2>1
    <3>3. Unfilled(s)' = u + z
      <4>1. u + z = u
        <5> HIDE DEF u
        <5> QED BY <2>1
      <4> QED BY <1>7, <4>1
    <3>4. TicksPerToken * z <= c - c2
      <4> HIDE DEF c, c2
      <4> QED BY <2>1, SharesAre
    <3> QED BY <3>1, <3>2, <3>3, <3>4
  <2>3. Debt' <= Debt /\ Cap' <= Cap
    BY <1>11, <1>13, <1>14 DEF Sized
  <2>4. IF "tokens" \in DOMAIN hash' THEN z <= z ELSE z + z <= z
    BY <2>2
  <2> HIDE DEF z
  <2> QED BY <1>1, <1>2, <1>3, <1>5, <1>7, <1>8, <1>9, <1>10, <2>1, <2>2, <2>3, <2>4, LineStep
        DEF IInv
<1>17. Alone'
  <2>1. Pending(0)' = Pending(0)
    BY <1>1 DEF Pending
  <2> QED BY <1>1, <1>4, <1>9, <2>1 DEF PipesInv, Alone
<1>18. (-(Shares * Burst) <= Low)'
  BY <1>4, <1>12 DEF PipesInv
<1> QED BY <1>16, <1>17, <1>18 DEF PipesInv

(* A shard whose pipeline ends leaves as much to those that do not know of *)
(* it as the pairs it was in had counted for them.                         *)
LEMMA TimePaid ==
  ASSUME Sized, Sized', Shares' = Shares, Refills' = Refills, clock' = clock,
         NEW s \in Shards, s < Shares, \A t \in Shards \ {s} : Still(t),
         Age(s)' = 0, NEW c \in Int, Claim(s)' <= Claim(s) + c, Cap' <= Cap + Age(s)
  PROVE  Time - c <= Time'
<1> DEFINE n == Shares
           j == s + 1
           f == Claims'
           g == Claims
           a == Ages
           b == Ages'
           d == [i \in 1 .. n |-> IF i = j THEN 0 ELSE Larger(a[j], a[i]) - a[i]]
           h == [i \in 1 .. n |-> g[i] + d[i] + (IF i = j THEN c ELSE 0)]
           k == [i \in 1 .. n |-> g[i] + d[i]]
<1>1. n \in Nat /\ j \in 1 .. n /\ j - 1 = s /\ Lines = 1 .. n /\ Lines' = 1 .. n
  BY SharesAre DEF Lines
<1>2. \A i \in 1 .. n : a[i] \in Nat /\ b[i] \in Nat /\ f[i] \in Nat /\ g[i] \in Nat
  BY DEF Sized
<1>3. /\ a[j] = Age(s) /\ b[j] = 0 /\ f[j] <= g[j] + c
  <2>1. a[j] = Age(s) /\ b[j] = Age(s)' /\ g[j] = Claim(s) /\ f[j] = Claim(s)'
    BY <1>1, ByLine, ByLineNext
  <2> QED BY <2>1
<1>4. ASSUME NEW i \in 1 .. n, i # j
      PROVE  b[i] = a[i] /\ (f[i] = g[i] \/ (a[i] = 0 /\ f[i] <= g[i] + a[j]))
  <2>1. PICK t \in Shards : t = i - 1
    BY SharesAre
  <2>2. t # s
    BY <1>1, <1>4, <2>1
  <2>3. Still(t) /\ Age(t)' = Age(t)
    BY <2>2, Stays
  <2>4. /\ a[i] = Age(t) /\ b[i] = Age(t)'
        /\ g[i] = IF pipe[t] = <<>> THEN Cap ELSE Age(t)
        /\ f[i] = IF pipe'[t] = <<>> THEN Cap' ELSE Age(t)'
    BY <1>1, <2>1, ByLine, ByLineNext DEF Claim
  <2>5. CASE pipe[t] = <<>>
    <3>1. Age(t) = 0
      BY <2>5 DEF Age
    <3> QED BY <1>3, <2>3, <2>4, <2>5, <3>1 DEF Still
  <2>6. CASE pipe[t] # <<>>
    BY <2>3, <2>4, <2>6 DEF Still
  <2> QED BY <2>5, <2>6
<1> DEFINE r == Refills * clock
           u == Time
           v == Time'
<1>5. u = r - SumTo(g, n) - PairSum(a, n) /\ v = r - SumTo(f, n) - PairSum(b, n)
  BY DEF Time
<1>6. r \in Int /\ PairSum(a, n) \in Int /\ PairSum(b, n) \in Int
  BY SharesAre DEF Sized
<1>7. \A i \in 1 .. n : d[i] = IF i = j THEN 0 ELSE Larger(a[j], a[i]) - a[i]
  OBVIOUS
<1>8. \A i \in 1 .. n : /\ h[i] = g[i] + d[i] + (IF i = j THEN c ELSE 0)
                        /\ k[i] = g[i] + d[i]
  OBVIOUS
<1> HIDE DEF n, j, f, g, a, b, d, h, k, r, u, v
<1>9. \A i \in 1 .. n : d[i] \in Nat /\ (i # j /\ a[i] = 0 => d[i] = a[j])
  <2> SUFFICES ASSUME NEW i \in 1 .. n
               PROVE  d[i] \in Nat /\ (i # j /\ a[i] = 0 => d[i] = a[j])
    OBVIOUS
  <2>1. a[i] \in Nat /\ a[j] \in Nat /\ d[i] = IF i = j THEN 0 ELSE Larger(a[j], a[i]) - a[i]
    BY <1>1, <1>2, <1>7
  <2>2. CASE i = j
    BY <2>1, <2>2
  <2>3. CASE i # j
    BY <2>1, <2>3 DEF Larger
  <2> QED BY <2>2, <2>3
<1>10. PairSum(b, n) + SumTo(d, n) <= PairSum(a, n)
  <2>1. \A i \in 1 .. n : a[i] \in Nat /\ b[i] = IF i = j THEN 0 ELSE a[i]
    BY <1>2, <1>3, <1>4
  <2> QED BY <1>1, <1>7, <2>1, PairsPaid
<1>11. \A i \in 1 .. n : f[i] \in Int /\ h[i] \in Int /\ f[i] <= h[i]
  <2> SUFFICES ASSUME NEW i \in 1 .. n PROVE f[i] \in Int /\ h[i] \in Int /\ f[i] <= h[i]
    OBVIOUS
  <2>1. f[i] \in Int /\ g[i] \in Int /\ d[i] \in Nat /\ h[i] \in Int
    BY <1>2, <1>8, <1>9
  <2>2. CASE i = j
    BY <1>3, <1>8, <2>1, <2>2
  <2>3. CASE i # j
    BY <1>4, <1>8, <1>9, <2>1, <2>3
  <2> QED BY <2>1, <2>2, <2>3
<1>12. SumTo(f, n) <= SumTo(h, n)
  BY <1>1, <1>11, SumAtMost
<1>13. SumTo(h, n) = SumTo(k, n) - k[j] + h[j]
  <2>1. \A i \in 1 .. n : h[i] \in Int /\ k[i] \in Int /\ (i # j => h[i] = k[i])
    BY <1>2, <1>8, <1>9
  <2> QED BY <1>1, <2>1, SumChanges
<1>14. SumTo(k, n) = SumTo(g, n) + SumTo(d, n)
  <2>1. \A i \in 1 .. n : g[i] \in Int /\ d[i] \in Int /\ k[i] = g[i] + d[i]
    BY <1>2, <1>8, <1>9
  <2> QED BY <1>1, <2>1, SumPlus
<1>15. h[j] = k[j] + c /\ k[j] \in Int
  <2>1. g[j] \in Nat /\ d[j] \in Nat
    BY <1>1, <1>2, <1>9
  <2>2. h[j] = g[j] + d[j] + c /\ k[j] = g[j] + d[j]
    BY <1>1, <1>8
  <2> QED BY <2>1, <2>2
<1>16. SumTo(f, n) \in Int /\ SumTo(g, n) \in Int /\ SumTo(d, n) \in Int
  <2>1. \A i \in 1 .. n : f[i] \in Int /\ g[i] \in Int /\ d[i] \in Int
    BY <1>2, <1>9
  <2> QED BY <1>1, <2>1, SumType
<1>17. u - c <= v
  BY <1>5, <1>6, <1>10, <1>12, <1>13, <1>14, <1>15, <1>16
<1> QED BY <1>17 DEF u, v

(* What the commands of a pipeline do to the bucket.                       *)
LEMMA TokensAdded ==
  ASSUME TypeInv, clock' = clock, NEW d \in Int, hash' = HIncrBy(hash, "tokens", d)
  PROVE  /\ "tokens" \in DOMAIN hash' /\ Tokens' = Tokens + d /\ Last' = Last
         /\ ("last_ns" \in DOMAIN hash' <=> "last_ns" \in DOMAIN hash)
         /\ ("last_ns" \in DOMAIN hash => hash'["last_ns"] = hash["last_ns"])
<1>1. hash' = [x \in DOMAIN hash \cup {"tokens"} |->
                 IF x = "tokens" THEN (IF "tokens" \in DOMAIN hash THEN hash["tokens"] + d ELSE d)
                 ELSE hash[x]]
  BY DEF HIncrBy, HSet
<1>2. DOMAIN hash' = DOMAIN hash \cup {"tokens"}
  BY <1>1
<1>3. hash'["tokens"] = IF "tokens" \in DOMAIN hash THEN hash["tokens"] + d ELSE d
  BY <1>1
<1>4. /\ ("last_ns" \in DOMAIN hash' <=> "last_ns" \in DOMAIN hash)
      /\ ("last_ns" \in DOMAIN hash => hash'["last_ns"] = hash["last_ns"])
  BY <1>1
<1>5. Last' = Last
  BY <1>4 DEF Last, HGet
<1>6. Tokens' = hash'["tokens"] /\ Tokens = IF "tokens" \in DOMAIN hash THEN hash["tokens"] ELSE 0
  BY <1>2 DEF Tokens, HGet
<1>7. Tokens' = Tokens + d
  <2>1. CASE "tokens" \in DOMAIN hash
    BY <1>3, <1>6, <2>1
  <2>2. CASE "tokens" \notin DOMAIN hash
    <3>1. 0 + d = d
      OBVIOUS
    <3> QED BY <1>3, <1>6, <2>2, <3>1
  <2> QED BY <2>1, <2>2
<1> QED BY <1>2, <1>4, <1>5, <1>7

LEMMA TimeStored ==
  ASSUME TypeInv, clock' = clock, NEW t \in Int, hash' = HSet(hash, "last_ns", t)
  PROVE  /\ ("tokens" \in DOMAIN hash' <=> "tokens" \in DOMAIN hash) /\ Tokens' = Tokens
         /\ Last' = t
<1>1. hash' = [x \in DOMAIN hash \cup {"last_ns"} |-> IF x = "last_ns" THEN t ELSE hash[x]]
  BY DEF HSet
<1>2. /\ "last_ns" \in DOMAIN hash' /\ hash'["last_ns"] = t
      /\ ("tokens" \in DOMAIN hash' <=> "tokens" \in DOMAIN hash)
      /\ ("tokens" \in DOMAIN hash => hash'["tokens"] = hash["tokens"])
  BY <1>1
<1> QED BY <1>2 DEF Tokens, Last, HGet

(* A shard that does not move, and the one that does, keep their place.    *)
LEMMA MoverIs ==
  ASSUME TypeInv, PipesInv, NEW s \in Shards, stage[s] \notin {"idle", "exited"}
  PROVE  s < Shares /\ LineOK(s) /\ s \in Int
<1>1. LineOK(s) /\ s \in Int
  BY SharesAre DEF PipesInv, LinesInv
<1> QED BY <1>1, SharesAre DEF LineOK, Spare

(* Redis adds to the tokens.                                               *)
LEMMA TokensStep ==
  ASSUME IInv, TypeInv', PipesInv, kind' = kind, NEW s \in Shards, WriteBucket(s),
         Head(pipe[s]).field = "tokens"
  PROVE  PipesInv'
<1>1. TypeInv /\ LineOK(s) /\ Counted
  BY DEF IInv, PipesInv, LinesInv
<1> DEFINE p == pipe[s]
<1>2. p # <<>> /\ Pipeline(p) /\ p \in Seq(Command) /\ clock \in Nat
  BY <1>1, LineTypes, BucketTypes DEF WriteBucket, LineOK
<1>3. /\ clock' = clock /\ granted' = granted /\ upsets' = upsets /\ version' = version
      /\ queue' = queue /\ stage' = stage /\ batch' = batch
      /\ hash' = HIncrBy(hash, "tokens", Head(p).by) /\ verdict' = verdict
      /\ pipe'[s] = Tail(p) /\ \A t \in Shards \ {s} : pipe'[t] = pipe[t]
  BY DEF WriteBucket, IInv, TypeInv, BatchTypeOK
<1>4. s < Shares
  <2>1. stage[s] \notin {"idle", "exited"}
    BY <1>2 DEF IInv, ShardInv, ShardExact
  <2> QED BY <1>1, <2>1, MoverIs
<1>5. Shares' = Shares
  BY <1>3, SharesStay
<1>6. \A t \in Shards \ {s} : Still(t) /\ Spare(t)'
  BY <1>3, <1>5, StillIs DEF PipesInv, LinesInv, LineOK, Spare
<1> DEFINE c == Head(p).by
<1>7. /\ Balance(p) \in Int /\ Balance(Tail(p)) \in Int /\ Balance(Tail(p)) <= 0
      /\ Pipeline(Tail(p)) /\ c \in Int
      /\ Tail(p) # <<>> /\ Moves(p)[1] = c
      /\ Tail(p)[Len(Tail(p))] = p[Len(p)]
      /\ Balance(Tail(Tail(p))) \in Int
      /\ Balance(Tail(p)) <= Balance(Tail(Tail(p)))
  <2> HIDE DEF p, c
  <2>1. /\ Balance(p) \in Int /\ Balance(Tail(p)) \in Int /\ Balance(Tail(p)) <= 0
        /\ Pipeline(Tail(p))
        /\ Tail(p) # <<>> => /\ Head(p).field = "tokens" /\ Moves(p)[1] = Head(p).by
                             /\ Tail(p)[Len(Tail(p))] = p[Len(p)]
                             /\ Balance(Tail(Tail(p))) \in Int
                             /\ Balance(Tail(p)) <= Balance(Tail(Tail(p)))
        /\ Tail(p) = <<>> => /\ Head(p) = p[Len(p)] /\ Head(p).field = "last_ns"
                             /\ Balance(p) = 0 /\ Balance(Tail(p)) = 0
        /\ Head(p).by \in Int
    BY <1>2, RestTakes
  <2>2. Head(p).field = "tokens"
    BY DEF p
  <2>3. Tail(p) # <<>>
    BY <2>1, <2>2
  <2> QED BY <2>1, <2>3 DEF c
<1>8. Balance(p) = c + Balance(Tail(p))
  <2>1. Balance(p) = Moves(p)[1] + Balance(Tail(p))
    <3> HIDE DEF p
    <3> QED BY <1>2, BalanceNext
  <2> QED BY <1>7, <2>1
<1>9. /\ "tokens" \in DOMAIN hash' /\ Tokens' = Tokens + c /\ Last' = Last
      /\ ("last_ns" \in DOMAIN hash' <=> "last_ns" \in DOMAIN hash)
      /\ ("last_ns" \in DOMAIN hash => hash'["last_ns"] = hash["last_ns"])
  <2> HIDE DEF c
  <2>1. hash' = HIncrBy(hash, "tokens", c) /\ c \in Int
    BY <1>3, <1>7 DEF c
  <2> QED BY <1>1, <1>3, <2>1, TokensAdded
<1>10. /\ Promised(s)' = Promised(s) /\ Promised(s) \in Nat
       /\ Pending(s) = Balance(p) /\ Pending(s)' = Balance(Tail(p))
       /\ Age(s)' = Age(s) /\ Claim(s) = Age(s) /\ Claim(s)' = Age(s)'
       /\ Age(s) \in Nat
  <2>1. Promised(s)' = Promised(s)
    BY <1>3 DEF Promised
  <2>2. Pending(s) = Balance(p) /\ Pending(s)' = Balance(Tail(p))
    BY <1>3 DEF Pending
  <2>3. Age(s) = clock - p[Len(p)].by
    BY <1>2 DEF Age
  <2>4. Age(s)' = clock - Tail(p)[Len(Tail(p))].by
    BY <1>3, <1>7 DEF Age
  <2>5. Claim(s) = Age(s) /\ Claim(s)' = Age(s)'
    BY <1>2, <1>3, <1>7 DEF Claim
  <2>6. Promised(s) \in Nat /\ Age(s) \in Nat
    BY <1>1, LineTypes, LineBounds
  <2> QED BY <1>7, <2>1, <2>2, <2>3, <2>4, <2>5, <2>6
<1>11. LineOK(s)'
  <2>1. Pipeline(pipe[s])'
    BY <1>3, <1>7 DEF Pipeline
  <2>2. -Promised(s) <= Balance(Tail(p)) /\ Promised(s) <= Burst
    BY <1>1, <1>2 DEF LineOK
  <2>3. -Promised(s) <= Balance(Tail(Tail(p)))
    <3> DEFINE x == Promised(s)
               y == Balance(Tail(p))
               z == Balance(Tail(Tail(p)))
    <3>1. x \in Nat /\ y \in Int /\ z \in Int /\ -x <= y /\ y <= z
      BY <1>7, <1>10, <2>2
    <3> HIDE DEF x, y, z
    <3>2. -x <= z
      BY <3>1
    <3> QED BY <3>2 DEF x, z
  <2>4. Spare(s)'
    BY <1>4, <1>5, SharesAre DEF Spare
  <2> QED BY <1>3, <1>10, <2>1, <2>2, <2>3, <2>4 DEF LineOK
<1>12. granted' \in Nat /\ upsets' \in Nat /\ Last' <= clock
  BY <1>1, <1>3, <1>9 DEF Counted
<1>13. Counted' /\ LinesInv' /\ Sized /\ Sized'
  BY <1>1, <1>3, <1>6, <1>11, <1>12, LineNext
<1>14. Low <= Low'
  <2> DEFINE l == SumTo(Lows, Shares)
             l2 == SumTo(Lows, Shares)'
             m == AtMost(Pending(s), 0)
             x == Tokens
             q == Pending(s)
             q2 == Balance(Tail(p))
             b == Low
             b2 == Low'
  <2>1. l2 = l - m + AtMost(Pending(s)', 0)
    BY <1>4, <1>5, <1>6, <1>13, OneMoves
  <2>2. AtMost(Pending(s)', 0) = q2 /\ q2 \in Int /\ q = c + q2 /\ c \in Int /\ q \in Int
    BY <1>7, <1>8, <1>10 DEF AtMost
  <2>3. l \in Int /\ x \in Int /\ m \in Int /\ m <= q
    BY <1>1, <1>13, LineBounds DEF Sized
  <2>4. b = x + l /\ b2 = x + c + l2
    BY <1>9 DEF Low
  <2> HIDE DEF l, l2, m, x, q, q2, b, b2, c
  <2>5. b <= b2
    BY <2>1, <2>2, <2>3, <2>4
  <2> QED BY <2>5 DEF b, b2
<1>15. Debt' <= Debt /\ Cap' <= Cap
  <2>1. Last <= Last'
    BY <1>9, BucketTypes, <1>1
  <2> QED BY <1>3, <1>5, <1>13, <1>14, <2>1, CapFalls
<1>16. Counted' /\ LinesInv' /\ Main'
  <2> DEFINE z == 0
             f == Unfilled(s)' - Unfilled(s)
  <2>1. Unfilled(s)' = Unfilled(s) + f /\ f \in Int /\ z \in Int
    <3> DEFINE a == Unfilled(s)
               b == Unfilled(s)'
    <3>1. a \in Int /\ b \in Int
      BY <1>1, LineTypes, LinesTypedNext
    <3>2. f = b - a
      OBVIOUS
    <3> HIDE DEF a, b, f
    <3>3. b = a + f /\ f \in Int
      BY <3>1, <3>2
    <3> QED BY <3>3 DEF a, b
  <2>2. granted' + Promised(s)' + Tokens' + Pending(s)'
          = granted + Promised(s) + Tokens + Pending(s) + z
    <3> DEFINE x == Tokens
               q2 == Balance(Tail(p))
               m == Promised(s)
    <3>1. x \in Int /\ q2 \in Int /\ m \in Int /\ c \in Int /\ granted \in Int
      BY <1>1, <1>7, <1>10, <1>13 DEF Sized, Counted
    <3>2. /\ granted' = granted /\ Promised(s)' = m /\ Tokens' = x + c /\ Pending(s)' = q2
          /\ Pending(s) = c + q2
      BY <1>3, <1>8, <1>9, <1>10
    <3> HIDE DEF x, q2, m, c
    <3>3. granted + m + (x + c) + q2 = granted + m + x + (c + q2) + z
      BY <3>1
    <3> QED BY <3>2, <3>3 DEF x, m
  <2>3. TicksPerToken * z <= Claim(s) - Claim(s)'
    <3> DEFINE a == Age(s)
    <3>1. a \in Int /\ Claim(s) = a /\ Claim(s)' = a
      BY <1>10
    <3> HIDE DEF a
    <3>2. TicksPerToken * z <= a - a
      BY <3>1, SharesAre
    <3> QED BY <3>1, <3>2
  <2>4. IF "tokens" \in DOMAIN hash' THEN z <= z ELSE z + f <= z
    BY <1>9
  <2>5. "tokens" \in DOMAIN hash => "tokens" \in DOMAIN hash'
    BY <1>9
  <2> HIDE DEF z, f
  <2> QED BY <1>1, <1>3, <1>4, <1>6, <1>10, <1>11, <1>12, <1>15, <2>1, <2>2, <2>3, <2>4, <2>5,
             LineStep
<1>17. Alone'
  <2> SUFFICES ASSUME Shares = 1, "last_ns" \in DOMAIN hash
               PROVE  \/ pipe'[0][Len(pipe'[0])].by - hash'["last_ns"] <= TicksPerToken * Burst
                      \/ Tokens' + Pending(0)' >= 0
    BY <1>5, <1>9 DEF Alone
  <2>1. s = 0
    BY <1>4 DEF Shards
  <2>2. \/ p[Len(p)].by - hash["last_ns"] <= TicksPerToken * Burst
        \/ Tokens + Balance(p) >= 0
    BY <1>2, <2>1, <1>10 DEF PipesInv, Alone
  <2>3. Tokens' + Pending(0)' = Tokens + Balance(p)
    <3> DEFINE x == Tokens
               q2 == Balance(Tail(p))
    <3>1. x \in Int /\ q2 \in Int /\ c \in Int
      BY <1>7, <1>13 DEF Sized
    <3>2. Tokens' = x + c /\ Pending(0)' = q2 /\ Balance(p) = c + q2
      BY <1>8, <1>9, <1>10, <2>1
    <3> HIDE DEF x, q2, c
    <3>3. (x + c) + q2 = x + (c + q2)
      BY <3>1
    <3> QED BY <3>2, <3>3 DEF x
  <2>4. pipe'[0][Len(pipe'[0])] = p[Len(p)]
    BY <1>3, <1>7, <2>1
  <2> QED BY <1>9, <2>2, <2>3, <2>4
<1>18. (-(Shares * Burst) <= Low)'
  <2> DEFINE b == Low
             b2 == Low'
             k == Shares * Burst
  <2>1. b \in Int /\ b2 \in Int /\ b <= b2 /\ k \in Int /\ -k <= b
    BY <1>5, <1>13, <1>14, SharesAre DEF Sized, PipesInv
  <2> HIDE DEF b, b2, k
  <2>2. -k <= b2
    BY <2>1
  <2> QED BY <1>5, <2>2 DEF b2, k
<1> QED BY <1>16, <1>17, <1>18 DEF PipesInv

(* Redis stores the time, of which a later one may have been stored.       *)
LEMMA TimeStep ==
  ASSUME IInv, TypeInv', PipesInv, kind' = kind, NEW s \in Shards, WriteBucket(s),
         Head(pipe[s]).field = "last_ns"
  PROVE  PipesInv'
<1>1. TypeInv /\ LineOK(s) /\ Counted
  BY DEF IInv, PipesInv, LinesInv
<1> DEFINE p == pipe[s]
           c == Head(p).by
<1>2. p # <<>> /\ Pipeline(p) /\ p \in Seq(Command) /\ clock \in Nat
  BY <1>1, LineTypes, BucketTypes DEF WriteBucket, LineOK
<1>3. /\ clock' = clock /\ granted' = granted /\ upsets' = upsets /\ version' = version
      /\ queue' = queue /\ stage' = stage /\ batch' = batch
      /\ hash' = HSet(hash, "last_ns", Head(p).by) /\ verdict' = verdict
      /\ pipe'[s] = Tail(p) /\ \A t \in Shards \ {s} : pipe'[t] = pipe[t]
  BY DEF WriteBucket, IInv, TypeInv, BatchTypeOK
<1>4. s < Shares
  <2>1. stage[s] \notin {"idle", "exited"}
    BY <1>2 DEF IInv, ShardInv, ShardExact
  <2> QED BY <1>1, <2>1, MoverIs
<1>5. Shares' = Shares /\ Refills' = Refills
  BY <1>3, SharesStay
<1>6. \A t \in Shards \ {s} : Still(t) /\ Spare(t)'
  BY <1>3, <1>5, StillIs DEF PipesInv, LinesInv, LineOK, Spare
<1>7. Tail(p) = <<>> /\ Head(p) = p[Len(p)] /\ Balance(p) = 0
  <2> HIDE DEF p, c
  <2>1. /\ Balance(p) \in Int /\ Balance(Tail(p)) \in Int /\ Balance(Tail(p)) <= 0
        /\ Pipeline(Tail(p))
        /\ Tail(p) # <<>> => /\ Head(p).field = "tokens" /\ Moves(p)[1] = Head(p).by
                             /\ Tail(p)[Len(Tail(p))] = p[Len(p)]
                             /\ Balance(Tail(Tail(p))) \in Int
                             /\ Balance(Tail(p)) <= Balance(Tail(Tail(p)))
        /\ Tail(p) = <<>> => /\ Head(p) = p[Len(p)] /\ Head(p).field = "last_ns"
                             /\ Balance(p) = 0 /\ Balance(Tail(p)) = 0
        /\ Head(p).by \in Int
    BY <1>2, RestTakes
  <2>2. Head(p).field # "tokens"
    BY DEF p
  <2> QED BY <2>1, <2>2
<1>8. c \in 0 .. clock /\ Age(s) = clock - c /\ Age(s) \in Nat
  <2>1. p[Len(p)].by \in 0 .. clock /\ Age(s) = clock - p[Len(p)].by
    BY <1>1, <1>2, LineBounds
  <2> QED BY <1>1, <1>7, <2>1, LineBounds
<1>9. /\ ("tokens" \in DOMAIN hash' <=> "tokens" \in DOMAIN hash) /\ Tokens' = Tokens
      /\ Last' = c
  <2>1. hash' = HSet(hash, "last_ns", c) /\ c \in Int
    BY <1>3, <1>8
  <2> HIDE DEF c
  <2> QED BY <1>1, <1>3, <2>1, TimeStored
<1>10. /\ Promised(s)' = Promised(s) /\ Promised(s) \in Nat
       /\ Pending(s) = 0 /\ Pending(s)' = 0
       /\ Unfilled(s) = Burst /\ Unfilled(s)' = Burst
       /\ Age(s)' = 0 /\ Claim(s) = Age(s) /\ Claim(s)' = Cap'
  <2>1. Promised(s)' = Promised(s)
    BY <1>3 DEF Promised
  <2>2. Pending(s) = Balance(p) /\ Pending(s)' = Balance(<<>>)
    BY <1>3, <1>7 DEF Pending
  <2>3. Age(s)' = 0
    BY <1>3, <1>7 DEF Age
  <2>4. Claim(s) = Age(s) /\ Claim(s)' = Cap'
    BY <1>2, <1>3, <1>7 DEF Claim
  <2>5. Unfilled(s) = Burst /\ Unfilled(s)' = Burst
    BY <1>2, <1>3, <1>7 DEF Unfilled
  <2> QED BY <1>1, <1>7, <2>1, <2>2, <2>3, <2>4, <2>5, LineTypes, BalanceNone
<1>11. LineOK(s)'
  <2>1. Pipeline(pipe[s])'
    BY <1>3, <1>7 DEF Pipeline
  <2>2. Promised(s) <= Burst
    BY <1>1 DEF LineOK
  <2>3. Spare(s)'
    BY <1>4, <1>5, SharesAre DEF Spare
  <2> QED BY <1>3, <1>7, <1>10, <2>1, <2>2, <2>3 DEF LineOK
<1>12. granted' \in Nat /\ upsets' \in Nat /\ Last' <= clock
  BY <1>1, <1>3, <1>8, <1>9 DEF Counted
<1>13. Counted' /\ LinesInv' /\ Sized /\ Sized'
  BY <1>1, <1>3, <1>6, <1>11, <1>12, LineNext
<1>14. Low' = Low
  <2> DEFINE l == SumTo(Lows, Shares)
             l2 == SumTo(Lows, Shares)'
  <2>1. l2 = l - AtMost(Pending(s), 0) + AtMost(Pending(s)', 0)
    BY <1>4, <1>5, <1>6, <1>13, OneMoves
  <2>2. AtMost(Pending(s), 0) = 0 /\ AtMost(Pending(s)', 0) = 0
    BY <1>10 DEF AtMost
  <2>3. l \in Int
    BY <1>13 DEF Sized
  <2>4. Low = Tokens + l /\ Low' = Tokens' + l2
    BY DEF Low
  <2> HIDE DEF l, l2
  <2>5. l2 = l
    BY <2>1, <2>2, <2>3
  <2> QED BY <1>9, <2>4, <2>5
<1>15. Debt' = Debt
  BY <1>5, <1>14 DEF Debt
<1>16. Owed' <= Owed
  <2> DEFINE z == 0
             o == Owed
             o2 == Owed'
             e == Debt
             e2 == Debt'
             there == "tokens" \in DOMAIN hash'
  <2>1. granted' + Promised(s)' + Tokens' + Pending(s)'
          = granted + Promised(s) + Tokens + Pending(s) + z
    <3> DEFINE x == Tokens
               m == Promised(s)
    <3>1. x \in Int /\ m \in Int /\ granted \in Int
      BY <1>1, <1>10, <1>13 DEF Sized, Counted
    <3>2. /\ granted' = granted /\ Promised(s)' = m /\ Tokens' = x /\ Pending(s)' = 0
          /\ Pending(s) = 0
      BY <1>3, <1>9, <1>10
    <3> HIDE DEF x, m
    <3>3. granted + m + x + 0 = granted + m + x + 0 + z
      BY <3>1
    <3> QED BY <3>2, <3>3 DEF x, m
  <2>2. Unfilled(s)' = Unfilled(s) + z
    BY <1>10, SharesAre
  <2>3. z \in Int
    OBVIOUS
  <2> HIDE DEF z
  <2>4. /\ there => o2 <= o + (e2 - e) + z
        /\ ~there => o2 = o + (e2 - e) + z + z
    BY <1>1, <1>4, <1>5, <1>6, <1>9, <1>13, <2>1, <2>2, <2>3, OwedMoves
  <2>5. o \in Int /\ o2 \in Int /\ e \in Int /\ e2 = e /\ z = 0
    BY <1>13, <1>15 DEF Sized, z
  <2> HIDE DEF o, o2, e, e2, there
  <2>6. o2 <= o
    BY <2>4, <2>5
  <2> QED BY <2>6 DEF o, o2
<1>17. Cap' <= Age(s)
  <2> DEFINE w == TicksPerToken * (Shares * Burst + Debt')
             a == Age(s)
             q == Cap'
  <2>1. q = AtMost(clock - c, w)
    BY <1>3, <1>5, <1>9 DEF Cap
  <2>2. w \in Int
    <3> DEFINE y == Shares * Burst
               d == Debt'
    <3>1. y \in Nat /\ d \in Nat /\ TicksPerToken \in Nat
      BY <1>13, SharesAre DEF Sized
    <3> HIDE DEF y, d
    <3>2. TicksPerToken * (y + d) \in Int
      BY <3>1
    <3> QED BY <3>2 DEF y, d
  <2>3. a = clock - c /\ c \in Int
    BY <1>8
  <2> HIDE DEF w, a, q, c
  <2>4. q <= a
    BY <1>2, <2>1, <2>2, <2>3 DEF AtMost
  <2> QED BY <2>4 DEF q, a
<1>18. Main'
  <2> DEFINE z == 0
  <2>1. z \in Int /\ TicksPerToken * z <= z
    BY SharesAre
  <2>2. Claim(s)' <= Claim(s) + z /\ Cap' <= Cap + Age(s)
    <3> DEFINE a == Age(s)
               q == Cap
               q2 == Cap'
    <3>1. a \in Nat /\ q \in Nat /\ q2 \in Nat /\ q2 <= a /\ Claim(s) = a /\ Claim(s)' = q2
      BY <1>8, <1>10, <1>13, <1>17 DEF Sized
    <3> HIDE DEF a, q, q2
    <3>2. q2 <= a + z /\ q2 <= q + a
      BY <3>1
    <3> QED BY <3>1, <3>2 DEF q, q2, a
  <2>3. Owed' <= Owed + z
    BY <1>13, <1>16 DEF Sized
  <2>4. upsets \in Nat /\ Main /\ upsets' = upsets
    BY <1>3 DEF PipesInv, Counted
  <2> HIDE DEF z
  <2>5. Time - z <= Time'
    BY <1>3, <1>4, <1>5, <1>6, <1>10, <1>13, <2>1, <2>2, TimePaid
  <2>6. Time + z <= Time'
    BY <1>13, <2>5 DEF Sized, z
  <2> QED BY <1>5, <1>13, <2>1, <2>3, <2>4, <2>6, MainKept
<1>19. Alone'
  <2> SUFFICES ASSUME Shares = 1 PROVE pipe'[0] = <<>>
    BY <1>5 DEF Alone
  <2>1. s = 0
    BY <1>4 DEF Shards
  <2> QED BY <1>3, <1>7, <2>1
<1>20. (-(Shares * Burst) <= Low)'
  BY <1>5, <1>14 DEF PipesInv
<1> QED BY <1>13, <1>18, <1>19, <1>20 DEF PipesInv

(* A pipeline fails: the requests are not granted what is written.         *)
LEMMA WriteFailsStep ==
  ASSUME IInv, TypeInv', PipesInv, kind' = kind, NEW s \in Shards, WriteFails(s)
  PROVE  PipesInv'
<1>1. TypeInv /\ LineOK(s) /\ Counted
  BY DEF IInv, PipesInv, LinesInv
<1>2. /\ hash' = hash /\ clock' = clock /\ granted' = granted /\ upsets' = upsets + 1
      /\ version' = version /\ queue' = queue /\ batch' = batch
      /\ stage[s] = "write" /\ stage'[s] = "send" /\ pipe'[s] = <<>>
      /\ \A t \in Shards \ {s} : /\ stage'[t] = stage[t] /\ verdict'[t] = verdict[t]
                                 /\ pipe'[t] = pipe[t]
  BY DEF WriteFails, Upset, IInv, TypeInv, BatchTypeOK
<1>3. s < Shares
  BY <1>1, <1>2, MoverIs
<1>4. Shares' = Shares /\ Refills' = Refills
  BY <1>2, SharesStay
<1>5. \A t \in Shards \ {s} : Still(t) /\ Spare(t)'
  BY <1>2, <1>4, StillIs DEF PipesInv, LinesInv, LineOK, Spare
<1>6. /\ Promised(s)' = 0 /\ Pending(s)' = 0 /\ Unfilled(s)' = Burst /\ Age(s)' = 0
      /\ Claim(s)' = Cap'
  <2>1. Promised(s)' = 0
    BY <1>2 DEF Promised
  <2>2. Pending(s)' = 0
    BY <1>2, BalanceNone DEF Pending
  <2> QED BY <1>2, <2>1, <2>2 DEF Unfilled, Age, Claim
<1>7. LineOK(s)'
  <2>1. Pipeline(pipe[s])'
    BY <1>2 DEF Pipeline
  <2>2. (Promised(s) <= Burst)'
    BY <1>6, SharesAre
  <2>3. Spare(s)'
    BY <1>3, <1>4, SharesAre DEF Spare
  <2> QED BY <1>2, <2>1, <2>2, <2>3 DEF LineOK
<1>8. Tokens' = Tokens /\ Last' = Last /\ Last' <= clock
  BY <1>1, <1>2 DEF Tokens, Last, HGet, Counted
<1>9. granted' \in Nat /\ upsets' \in Nat
  BY <1>1, <1>2 DEF Counted
<1>10. Counted' /\ LinesInv' /\ Sized /\ Sized'
  BY <1>1, <1>2, <1>5, <1>7, <1>8, <1>9, LineNext
<1> DEFINE p == Promised(s)
           q == Pending(s)
           u == Unfilled(s)
           m == AtMost(q, 0)
           x == Tokens
           l == SumTo(Lows, Shares)
           b == Low
           b2 == Low'
<1>11. /\ p \in Nat /\ q \in Int /\ -p <= q /\ u \in Int /\ m \in Int /\ m <= 0
       /\ x \in Int /\ l \in Int /\ b \in Int /\ b2 \in Int /\ Burst \in Nat /\ m <= q
       /\ Burst - u <= p + q /\ 0 <= p + q
  <2>1. /\ p \in Nat /\ q \in Int /\ u \in Int /\ m \in Int /\ m <= 0 /\ m <= q /\ -p <= m
    BY <1>1, LineTypes, LineBounds
  <2>2. x \in Int /\ l \in Int /\ b \in Int /\ b2 \in Int /\ Burst \in Nat
    BY <1>4, <1>10, SharesAre DEF Sized
  <2>3. -p <= q /\ 0 <= p + q
    <3> HIDE DEF p, q, m
    <3> QED BY <2>1
  <2>4. Burst - u <= p + q
    <3>1. u = Burst - AtMost(q + p, Burst) \/ u = Burst
      BY DEF Unfilled
    <3> HIDE DEF p, q, m, u
    <3> QED BY <2>1, <2>2, <2>3, <3>1 DEF AtMost
  <2> QED BY <2>1, <2>2, <2>3, <2>4
<1>12. b = x + l /\ b2 = x + (l - m)
  <2>1. SumTo(Lows, Shares)' = l - m + AtMost(Pending(s)', 0)
    BY <1>3, <1>4, <1>5, <1>10, OneMoves
  <2>2. AtMost(Pending(s)', 0) = 0
    BY <1>6 DEF AtMost
  <2>3. b = x + l /\ b2 = x + SumTo(Lows, Shares)'
    BY <1>8 DEF Low
  <2> HIDE DEF l, m, x, b, b2
  <2>4. l - m + 0 = l - m
    BY <1>11
  <2> QED BY <2>1, <2>2, <2>3, <2>4
<1>13. b <= b2
  <2> HIDE DEF p, q, u, m, x, l, b, b2
  <2> QED BY <1>11, <1>12
<1>14. Debt' <= Debt /\ Cap' <= Cap
  <2>1. Last <= Last'
    BY <1>1, <1>8, BucketTypes
  <2> QED BY <1>2, <1>4, <1>10, <1>13, <2>1, CapFalls
<1> DEFINE o == Owed
           o2 == Owed'
           e == Debt
           e2 == Debt'
           there == "tokens" \in DOMAIN hash'
<1>15. /\ o \in Int /\ o2 \in Int /\ e \in Nat /\ e2 \in Nat /\ e2 <= e
       /\ (~there => x = 0)
  BY <1>1, <1>2, <1>10, <1>14, BucketTypes DEF Sized
<1>16. o2 <= o /\ (there => o2 <= o + (e2 - e) - (p + q))
  <2> DEFINE g == -(p + q)
             f == Burst - u
  <2>1. granted' + Promised(s)' + Tokens' + Pending(s)' = granted + p + x + q + g
    <3> HIDE DEF p, q, x
    <3>1. granted \in Int
      BY <1>1 DEF Counted
    <3>2. granted + 0 + x + 0 = granted + p + x + q + g
      BY <1>11, <3>1
    <3> QED BY <1>2, <1>6, <1>8, <3>2 DEF x
  <2>2. Unfilled(s)' = u + f
    <3>1. u + f = Burst
      <4> HIDE DEF u
      <4> QED BY <1>11
    <3> QED BY <1>6, <3>1
  <2>3. g \in Int /\ f \in Int
    BY <1>11
  <2>4. "tokens" \in DOMAIN hash => "tokens" \in DOMAIN hash'
    BY <1>2
  <2> HIDE DEF g, f
  <2>5. /\ there => o2 <= o + (e2 - e) + g
        /\ ~there => o2 = o + (e2 - e) + g + f
    BY <1>1, <1>3, <1>4, <1>5, <1>10, <2>1, <2>2, <2>3, <2>4, OwedMoves
  <2>6. g = -(p + q) /\ f = Burst - u
    BY DEF g, f
  <2> HIDE DEF o, o2, e, e2, there, p, q, u, m, x, l, b, b2
  <2> QED BY <1>11, <1>15, <2>5, <2>6
<1> DEFINE c == Claim(s)
           c2 == Claim(s)'
           h == TicksPerToken * (Shares * Burst + e2)
           a == Age(s)
<1>17. /\ c \in Nat /\ c2 \in Nat /\ c2 <= h /\ h \in Int /\ a \in Nat
       /\ c2 <= clock - Last
       /\ (pipe[s] = <<>> => c2 <= c) /\ (pipe[s] # <<>> => c = a)
  <2>1. c2 = AtMost(clock - Last, h)
    BY <1>2, <1>4, <1>6, <1>8 DEF Cap
  <2>2. h \in Int
    <3> DEFINE y == Shares * Burst
    <3>1. y \in Nat /\ e2 \in Nat /\ TicksPerToken \in Nat
      BY <1>15, SharesAre
    <3> HIDE DEF y, e2
    <3>2. TicksPerToken * (y + e2) \in Int
      BY <3>1
    <3> QED BY <3>2 DEF y
  <2>3. c = IF pipe[s] = <<>> THEN Cap ELSE a
    BY DEF Claim
  <2>4. Cap \in Nat /\ Cap' \in Nat /\ a \in Nat
    BY <1>1, <1>10, LineBounds DEF Sized
  <2>5. Last \in Int /\ clock \in Nat
    BY <1>1, BucketTypes
  <2>6. c2 <= h /\ c2 <= clock - Last
    <3> HIDE DEF c2, h
    <3> QED BY <2>1, <2>2, <2>5 DEF AtMost
  <2> QED BY <1>6, <1>14, <2>2, <2>3, <2>4, <2>6
<1> DEFINE M == (2 * Shares - 1) * Burst
           T == TicksPerToken
<1>18. M \in Nat /\ T \in Nat /\ T * M \in Nat /\ M - 0 = M
  <2>1. M \in Nat /\ T \in Nat
    BY SharesAre
  <2> HIDE DEF M, T
  <2> QED BY <2>1
<1>19. \E d \in Int : o2 <= o + d /\ c2 <= c + T * (M - d)
  <2>1. ASSUME c2 <= c + T * M PROVE \E d \in Int : o2 <= o + d /\ c2 <= c + T * (M - d)
    <3>1. o2 <= o + 0 /\ c2 <= c + T * (M - 0)
      <4> HIDE DEF o, o2, c, c2, M, T
      <4> QED BY <1>15, <1>16, <1>18, <2>1
    <3> HIDE DEF o, o2, c, c2, M, T
    <3> QED BY <3>1
  <2>2. CASE pipe[s] = <<>>
    <3>1. c2 <= c + T * M
      <4> HIDE DEF c, c2, M, T
      <4> QED BY <1>17, <1>18, <2>2
    <3> QED BY <2>1, <3>1
  <2>3. CASE Shares # 1
    <3>1. h <= T * M
      <4> DEFINE w == (Shares - 1) * Burst
                 k == Shares * Burst
      <4>1. /\ w \in Nat /\ k = w + Burst /\ M = 2 * w + Burst
            /\ -k <= b /\ e2 = IF -w - b2 > 0 THEN -w - b2 ELSE 0
            /\ -k <= l /\ T \in Nat
        BY <1>4, <1>10, SumBounds, SharesAre DEF PipesInv, Debt
      <4>2. Burst <= w
        <5>1. PICK n \in Nat : Shares = n + 2
          <6>1. Shares - 2 \in Nat /\ Shares = (Shares - 2) + 2
            BY <2>3, SharesAre
          <6> QED BY <6>1
        <5>2. w = n * Burst + Burst /\ n * Burst \in Nat
          BY <1>11, <5>1
        <5> HIDE DEF w
        <5> QED BY <1>11, <5>2
      <4>3. k + e2 <= M
        <5> HIDE DEF w, k, M, e2, b, b2, l, T
        <5> QED BY <1>11, <1>13, <4>1, <4>2
      <4>4. T * (k + e2) <= T * M
        <5> HIDE DEF w, b, b2, l
        <5>1. k \in Int /\ e2 \in Int /\ M \in Int
          BY <1>15, <1>18, <4>1, <1>11
        <5> HIDE DEF M, e2, T, k
        <5>2. PICK n \in Nat : M = (k + e2) + n
          <6>1. M - (k + e2) \in Nat /\ M = (k + e2) + (M - (k + e2))
            BY <4>3, <5>1
          <6> QED BY <6>1
        <5>3. T * M = T * (k + e2) + T * n /\ T * n \in Nat /\ T * (k + e2) \in Int
          BY <4>1, <5>1, <5>2
        <5> QED BY <5>3
      <4> QED BY <4>4
    <3>2. c2 <= c + T * M
      <4> HIDE DEF c, c2, h, M, T
      <4> QED BY <1>17, <1>18, <3>1
    <3> QED BY <2>1, <3>2
  <2>4. CASE Shares = 1 /\ pipe[s] # <<>>
    <3>1. s = 0 /\ M = Burst /\ h = T * (Burst + e2)
      BY <1>3, <1>11, <2>4 DEF Shards
    <3>2. l = m
      <4>1. 1 \in Lines /\ 1 - 1 = s
        BY <2>4, <3>1 DEF Lines
      <4>2. Lows[1] = m
        BY <4>1, ByLine
      <4>3. SumTo(Lows, 0 + 1) = SumTo(Lows, 0) + Lows[0 + 1] /\ SumTo(Lows, 0) = 0
        BY SumIs
      <4>4. l = SumTo(Lows, 1)
        BY <2>4
      <4> HIDE DEF l, m
      <4> QED BY <1>11, <4>2, <4>3, <4>4
    <3>3. /\ e = (IF -(x + m) > 0 THEN -(x + m) ELSE 0)
          /\ e2 = (IF -x > 0 THEN -x ELSE 0)
      <4> DEFINE w == (Shares - 1) * Burst
      <4>1. w = 0
        BY <1>11, <2>4
      <4>2. e = (IF -w - b > 0 THEN -w - b ELSE 0) /\ e2 = (IF -w - b2 > 0 THEN -w - b2 ELSE 0)
        BY <1>4 DEF Debt
      <4> HIDE DEF w, e, e2, b, b2, l, m, x
      <4>3. /\ -w - b = -(x + m)
            /\ -w - b2 = -x
        BY <1>11, <1>12, <3>2, <4>1
      <4> QED BY <4>2, <4>3
    <3>4. c2 <= c + T * Burst \/ (x + q >= 0 /\ c2 <= T * (Burst + e2))
      <4>1. CASE "last_ns" \notin DOMAIN hash
        <5>1. Last = clock /\ clock \in Nat
          BY <1>1, <4>1, BucketTypes
        <5>2. T * Burst \in Nat
          BY <1>11, <1>18
        <5>3. c2 <= 0
          <6> HIDE DEF c2
          <6> QED BY <1>17, <5>1
        <5>4. c2 <= c + T * Burst
          <6> HIDE DEF c, c2, T
          <6> QED BY <1>17, <5>2, <5>3
        <5> QED BY <5>4
      <4>2. CASE "last_ns" \in DOMAIN hash
        <5> DEFINE y == pipe[0][Len(pipe[0])].by
                   t == Last
        <5>1. y - hash["last_ns"] <= T * Burst \/ x + q >= 0
          BY <2>4, <3>1, <4>2 DEF PipesInv, Alone
        <5>2. t = hash["last_ns"] /\ t \in Int /\ clock \in Nat
          BY <1>1, <4>2, BucketTypes
        <5>3. y \in 0 .. clock /\ a = clock - y
          BY <1>1, <2>4, <3>1, LineBounds
        <5>4. CASE y - hash["last_ns"] <= T * Burst
          <6>1. T * Burst \in Nat /\ y - t <= T * Burst /\ c2 <= clock - t /\ c = clock - y
            BY <1>11, <1>17, <1>18, <2>4, <5>2, <5>3, <5>4
          <6> DEFINE z == T * Burst
          <6> HIDE DEF y, t, z, c, c2
          <6>2. c2 <= c + z
            BY <1>17, <5>2, <5>3, <6>1 DEF z
          <6> QED BY <6>2 DEF z
        <5>5. CASE x + q >= 0
          BY <1>17, <3>1, <5>5
        <5> QED BY <5>1, <5>4, <5>5
      <4> QED BY <4>1, <4>2
    <3>5. \E d \in Int : o2 <= o + d /\ c2 <= c + T * (Burst - d)
      <4>1. x < 0 => o2 <= o + (e2 - e) - (p + q)
        BY <1>15, <1>16
      <4>2. m = AtMost(q, 0)
        OBVIOUS
      <4> HIDE DEF m, o, o2, c, c2, T, e, e2, x, q, p, there, h
      <4>3. /\ e = (IF -(x + AtMost(q, 0)) > 0 THEN -(x + AtMost(q, 0)) ELSE 0)
            /\ e2 = (IF -x > 0 THEN -x ELSE 0)
        BY <3>3, <4>2
      <4>4. /\ T \in Nat /\ Burst \in Nat /\ x \in Int /\ q \in Int /\ p \in Nat
            /\ e \in Nat /\ e2 \in Nat /\ o \in Int /\ o2 \in Int
            /\ c \in Nat /\ c2 \in Int /\ -p <= q /\ o2 <= o
        BY <1>11, <1>15, <1>16, <1>17, <1>18
      <4>5. /\ x >= 0 => o2 <= o
            /\ x < 0 => o2 <= o + (e2 - e) - (p + q)
            /\ c2 <= c + T * Burst \/ (x + q >= 0 /\ c2 <= T * (Burst + e2))
        BY <3>4, <4>1, <4>4
      <4>6. CASE c2 <= c + T * Burst
        <5>1. 0 \in Int /\ o2 <= o + 0 /\ c2 <= c + T * (Burst - 0)
          <6>1. Burst - 0 = Burst /\ o + 0 = o
            BY <4>4
          <6> QED BY <4>4, <4>6, <6>1
        <5> QED BY <5>1
      <4>7. CASE x >= 0 /\ c2 <= T * (Burst + e2)
        <5>1. e2 = 0
          BY <4>3, <4>4, <4>7
        <5>2. T * (Burst + e2) = T * Burst /\ T * Burst \in Nat
          BY <4>4, <5>1
        <5>3. c2 <= c + T * Burst
          BY <4>4, <4>7, <5>2
        <5> QED BY <4>6, <5>3
      <4>8. CASE x < 0 /\ x + q >= 0 /\ c2 <= T * (Burst + e2)
        <5>1. e2 = -x /\ e = -x
          BY <4>3, <4>4, <4>8 DEF AtMost
        <5>2. o2 <= o + x
          BY <4>4, <4>5, <4>8, <5>1
        <5>3. Burst + e2 = Burst - x
          BY <4>4, <5>1
        <5>4. T * (Burst - x) \in Int
          BY <4>4
        <5>5. c2 <= c + T * (Burst - x)
          <6> DEFINE y == T * (Burst - x)
          <6>1. c2 <= y /\ y \in Int
            BY <4>8, <5>3, <5>4
          <6> HIDE DEF y
          <6>2. c2 <= c + y
            BY <4>4, <6>1
          <6> QED BY <6>2 DEF y
        <5>6. x \in Int
          BY <4>4
        <5> QED BY <5>2, <5>5, <5>6
      <4> QED BY <4>4, <4>5, <4>6, <4>7, <4>8
    <3> HIDE DEF M, o, o2, c, c2, T
    <3> QED BY <3>1, <3>5
  <2> QED BY <2>2, <2>3, <2>4
<1>20. PICK d \in Int : o2 <= o + d /\ c2 <= c + T * (M - d)
  BY <1>19
<1>21. Main'
  <2> DEFINE y == T * (M - d)
             z == -y
  <2>1. y \in Int
    <3> HIDE DEF M, T
    <3> QED BY <1>18
  <2>2. T * (d - M) <= z
    <3> HIDE DEF M, T
    <3>1. T * (d - M) = -(T * (M - d)) /\ T * (M - d) \in Int
      BY <1>18
    <3> QED BY <3>1
  <2>3. c2 <= c + y
    BY <1>20
  <2>4. upsets \in Nat /\ Main
    BY <1>1 DEF PipesInv, Counted
  <2>5. Cap' <= Cap + Age(s)
    <3> DEFINE v == Cap
               v2 == Cap'
    <3>1. v \in Nat /\ v2 \in Nat /\ v2 <= v /\ a \in Nat
      BY <1>10, <1>14, <1>17 DEF Sized
    <3> HIDE DEF v, v2, a
    <3>2. v2 <= v + a
      BY <3>1
    <3> QED BY <3>2 DEF v, v2, a
  <2>6. o2 <= o + d
    BY <1>20
  <2> HIDE DEF y
  <2>7. Time - y <= Time'
    BY <1>2, <1>3, <1>4, <1>5, <1>6, <1>10, <2>1, <2>3, <2>5, TimePaid
  <2>8. Time + z <= Time' /\ z \in Int
    <3> DEFINE r == Time
               r2 == Time'
    <3>1. r \in Int /\ r2 \in Int /\ r - y <= r2
      BY <1>10, <2>7 DEF Sized
    <3> HIDE DEF r, r2
    <3>2. r + z <= r2 /\ z \in Int
      BY <2>1, <3>1
    <3> QED BY <3>2 DEF r, r2
  <2> HIDE DEF z
  <2> QED BY <1>2, <1>4, <1>10, <2>2, <2>4, <2>6, <2>8, MainKept
<1>22. Alone'
  <2> SUFFICES ASSUME Shares = 1 PROVE pipe'[0] = <<>>
    BY <1>4 DEF Alone
  <2>1. s = 0
    BY <1>3 DEF Shards
  <2> QED BY <1>2, <2>1
<1>23. (-(Shares * Burst) <= Low)'
  <2> DEFINE k == Shares * Burst
  <2>1. k \in Int /\ -k <= b
    BY SharesAre DEF PipesInv
  <2> HIDE DEF b, b2, k, p, q, u, m, x, l
  <2>2. -k <= b2
    BY <1>11, <1>13, <2>1
  <2> QED BY <1>4, <2>2 DEF b2, k
<1> QED BY <1>10, <1>21, <1>22, <1>23 DEF PipesInv

(* What is due was not refilled before: the time for it has passed.        *)
LEMMA DueIs ==
  ASSUME TypeInv, Last <= clock, NEW at \in {clock - 1, clock} \cap Nat, NEW due,
         due = Refill(at, HGet("last_ns", at))
  PROVE  /\ due \in Nat /\ TicksPerToken * due <= clock - Last
         /\ "last_ns" \in DOMAIN hash => clock - Last <= TicksPerToken * due + TicksPerToken
<1> DEFINE l == Last
           T == TicksPerToken
<1>1. /\ l \in Int /\ l <= clock /\ clock \in Nat /\ at \in Nat /\ at <= clock /\ clock <= at + 1
      /\ T \in Nat /\ T >= 1
  BY BucketTypes, SharesAre
<1>2. CASE "last_ns" \notin DOMAIN hash
  <2>1. due = 0
    BY <1>1, <1>2 DEF HGet, Refill
  <2>2. TicksPerToken * due = 0 /\ 0 <= clock - Last
    BY <1>1, <2>1
  <2> QED BY <1>2, <2>1, <2>2
<1>3. CASE "last_ns" \in DOMAIN hash
  <2>1. due = IF at <= l THEN 0 ELSE (at - l) \div T
    BY <1>3 DEF HGet, Refill, Last
  <2>2. CASE at <= l
    <3>1. due = 0 /\ T * due = 0
      BY <1>1, <2>1, <2>2
    <3>2. 0 <= clock - l /\ clock - l <= 0 + T
      <4> HIDE DEF l, T
      <4> QED BY <1>1, <2>2
    <3> QED BY <3>1, <3>2
  <2>3. CASE ~(at <= l)
    <3>1. /\ (at - l) \div T \in Nat /\ T * ((at - l) \div T) <= at - l
          /\ at - l < T * ((at - l) \div T) + T
      <4>1. at \in Int /\ l <= at
        BY <1>1, <2>3
      <4> HIDE DEF l
      <4> QED BY <1>1, <4>1, RefillBound
    <3> DEFINE d == (at - l) \div T
               y == T * d
    <3>2. due = d /\ d \in Nat /\ y \in Int /\ y <= at - l /\ at - l < y + T
      BY <1>1, <2>1, <2>3, <3>1
    <3> HIDE DEF d
    <3>3. y = T * due
      BY <3>2
    <3> HIDE DEF y, l, T
    <3>4. y <= clock - l /\ clock - l <= y + T
      BY <1>1, <3>2
    <3> QED BY <3>2, <3>3, <3>4 DEF l, T
  <2> QED BY <2>2, <2>3
<1> QED BY <1>2, <1>3

(* All shards but one cannot overdraw more than their capacities.          *)
LEMMA OthersLow ==
  ASSUME Sized, NEW s \in Shards, s < Shares, Pending(s) = 0
  PROVE  -((Shares - 1) * Burst) <= SumTo(Lows, Shares)
<1> DEFINE n == Shares
           j == s + 1
           a == -Burst
           z == [i \in 1 .. n |-> a]
           f == Lows
<1>1. n \in Nat /\ j \in 1 .. n /\ j - 1 = s /\ Lines = 1 .. n /\ Burst \in Nat /\ a \in Int
  BY SharesAre DEF Lines
<1>2. f[j] = 0
  BY <1>1, ByLine DEF AtMost
<1>3. \A i \in 1 .. n : f[i] \in Int /\ a <= f[i]
  BY DEF Sized
<1>4. \A i \in 1 .. n : z[i] = a
  OBVIOUS
<1>5. n * a = -(n * Burst) /\ (n - 1) * Burst = n * Burst - Burst /\ n * Burst \in Int /\ a = -Burst
  BY <1>1
<1> HIDE DEF n, j, a, z, f
<1>6. SumTo(z, n) <= SumTo(f, n) - f[j] + z[j]
  <2>1. \A i \in 1 .. n : z[i] \in Int /\ f[i] \in Int /\ (i # j => z[i] <= f[i])
    BY <1>1, <1>3, <1>4
  <2> QED BY <1>1, <2>1, SumDrops
<1>7. n * a <= SumTo(z, n)
  <2>1. \A i \in 1 .. n : z[i] \in Int /\ a <= z[i] /\ z[i] <= a
    BY <1>1, <1>4
  <2> QED BY <1>1, <2>1, SumBetween
<1>8. SumTo(f, n) \in Int /\ SumTo(z, n) \in Int /\ z[j] = a
  <2>1. \A i \in 1 .. n : z[i] \in Int /\ f[i] \in Int
    BY <1>1, <1>3, <1>4
  <2>2. SumTo(f, n) \in Int
    BY <1>1, <2>1, SumType
  <2>3. SumTo(z, n) \in Int
    BY <1>1, <2>1, SumType
  <2> QED BY <1>1, <1>4, <2>2, <2>3
<1>9. -((n - 1) * Burst) <= SumTo(f, n)
  BY <1>1, <1>2, <1>5, <1>6, <1>7, <1>8
<1> QED BY <1>9 DEF n, f

--------------------------------------------------------------------------------
(* What a shard that reads n tokens adds (r) and gives away (g).           *)
LEMMA TakesAre ==
  ASSUME NEW n \in Int, NEW due \in Nat, NEW initial \in {0, Burst}, NEW r, NEW g \in Nat,
         r = IF n >= Burst THEN 0 ELSE AtMost(due, Burst - n),
         g <= LET m == AtMost(n + initial + r, Burst) IN IF m > 0 THEN m ELSE 0,
         initial = Burst => n = 0
  PROVE  /\ r \in Nat /\ r <= due /\ initial + r \in Nat /\ g <= Burst
         /\ n < 0 => g <= initial + r
         /\ n >= 0 => n + ((initial + r) - g) >= 0 /\ r <= Burst
         /\ n < 0 => r <= Burst - n
         /\ n < 0 /\ n + ((initial + r) - g) < 0 => r = due /\ r < -n
<1>1. Burst \in Nat /\ Burst >= 1
  BY SharesAre
<1>2. initial \in Nat
  BY <1>1
<1>3. r \in Nat /\ r <= due /\ (n >= 0 => r <= Burst) /\ (n < 0 => r <= Burst - n)
      /\ (n < 0 => r = due \/ r = Burst - n)
  BY <1>1 DEF AtMost
<1> DEFINE m == AtMost(n + initial + r, Burst)
<1>4. /\ m \in Int /\ m <= Burst /\ m <= n + initial + r
      /\ g <= IF m > 0 THEN m ELSE 0
  BY <1>1, <1>2, <1>3 DEF AtMost
<1> HIDE DEF m
<1>5. g <= Burst /\ (n < 0 => g <= initial + r)
  BY <1>1, <1>2, <1>3, <1>4
<1>6. n >= 0 => n + ((initial + r) - g) >= 0
  BY <1>1, <1>2, <1>3, <1>4
<1>7. ASSUME n < 0, n + ((initial + r) - g) < 0 PROVE r = due /\ r < -n
  <2>1. initial = 0
    BY <1>1, <1>7
  <2>2. g = 0 \/ g <= n + r
    BY <1>3, <1>4, <2>1
  <2>3. n + r < 0
    BY <1>3, <1>7, <2>1, <2>2
  <2> QED BY <1>1, <1>3, <1>7, <2>3
<1> QED BY <1>2, <1>3, <1>5, <1>6, <1>7

(* A shard has read the bucket: it adds i to fill a missing one, and r for *)
(* the time, and gives g away.                                             *)
Takes(s, at, i, r, g) ==
  /\ i = IF "tokens" \in DOMAIN hash THEN 0 ELSE Burst
  /\ r = IF Tokens >= Burst THEN 0 ELSE AtMost(Refill(at, HGet("last_ns", at)), Burst - Tokens)
  /\ g \in Nat
  /\ g <= LET m == AtMost(Tokens + i + r, Burst) IN IF m > 0 THEN m ELSE 0
  /\ Promised(s)' = g /\ Pending(s)' = (i + r) - g
  /\ Balance(Tail(pipe'[s])) = -g
  /\ pipe'[s] # <<>> /\ Pipeline(pipe'[s]) /\ Head(pipe'[s]).field = "tokens"
  /\ pipe'[s][Len(pipe'[s])].by = clock

LEMMA ExecuteTakes ==
  ASSUME IInv, PipesInv, NEW s \in Shards,
         NEW at \in {clock - 1, clock} \cap Nat, ExecutePipeline(s, at)
  PROVE  \E i, r, g : Takes(s, at, i, r, g)
<1> DEFINE i == IF "tokens" \in DOMAIN hash THEN 0 ELSE Burst
           due == Refill(at, HGet("last_ns", at))
           r == IF Tokens >= Burst THEN 0 ELSE AtMost(due, Burst - Tokens)
           b == Collected(s)
           m == AtMost(Tokens + i + r, Burst)
           v == Decide(b, m)
           p == Commands(b, v, i + r)
           g == Granted(b, v)
<1>1. TypeInv /\ Counted
  BY DEF IInv, PipesInv
<1>2. /\ stage'[s] = "write" /\ batch'[s] = b /\ verdict'[s] = v /\ pipe'[s] = p
      /\ clock' = clock
  BY <1>1 DEF ExecutePipeline, TakeBatch, TypeInv, BatchTypeOK, bucketVars, Tokens
<1>3. b \in Seq(Item)
  BY <1>1, CollectedIs DEF TypeInv
<1>4. /\ Tokens \in Int /\ due \in Nat /\ i \in Nat /\ r \in Nat /\ m \in Int /\ clock \in Nat
      /\ i + r \in Nat
  <2>1. Tokens \in Int /\ clock \in Nat /\ Burst \in Nat
    BY <1>1, BucketTypes, SharesAre
  <2>2. due \in Nat
    BY <1>1, DueIs DEF Counted
  <2>3. i \in Nat
    BY <2>1
  <2> HIDE DEF due, i
  <2>4. r \in Nat
    BY <2>1, <2>2 DEF AtMost
  <2> HIDE DEF r
  <2>5. m \in Int
    BY <2>1, <2>3, <2>4 DEF AtMost
  <2> QED BY <2>1, <2>2, <2>3, <2>4, <2>5
<1> HIDE DEF i, due, r, b, m
<1>5. g \in Nat
  BY <1>3, GivenNat
<1>6. g <= IF m > 0 THEN m ELSE 0
  BY <1>3, <1>4, DecidedWithin
<1> HIDE DEF v
<1>7. Promised(s)' = g
  BY <1>2 DEF Promised
<1>8. p \in Seq(Command)
  BY <1>1, <1>3, <1>4, CommandsAre DEF TypeInv
<1>9. /\ Pipeline(p) /\ p # <<>> /\ Head(p).field = "tokens" /\ p[Len(p)].by = clock
      /\ Balance(p) = (i + r) - g /\ Balance(Tail(p)) = -g
  <2> DEFINE k == i + r
  <2>1. k \in Nat /\ Commands(b, v, k) \in Seq(Command)
    BY <1>4, <1>8
  <2>2. p = Commands(b, v, k)
    OBVIOUS
  <2> HIDE DEF k, p
  <2>3. /\ Pipeline(Commands(b, v, k)) /\ Commands(b, v, k) # <<>>
        /\ Head(Commands(b, v, k)).field = "tokens"
        /\ Commands(b, v, k)[Len(Commands(b, v, k))].by = clock
        /\ Balance(Commands(b, v, k)) = k - Granted(b, v)
        /\ Balance(Tail(Commands(b, v, k))) = -Granted(b, v)
    BY <1>3, <1>4, <2>1, CommandsBalance
  <2> QED BY <2>2, <2>3 DEF k
<1> HIDE DEF p, g
<1>10. Pending(s)' = (i + r) - g
  BY <1>2, <1>9 DEF Pending
<1>11. g <= LET k == AtMost(Tokens + i + r, Burst) IN IF k > 0 THEN k ELSE 0
  BY <1>6 DEF m
<1>12. Takes(s, at, i, r, g)
  BY <1>2, <1>5, <1>7, <1>9, <1>10, <1>11 DEF Takes, i, r, due
<1> QED BY <1>12

(* After a shard has read the bucket.                                      *)
LEMMA ExecuteMoves ==
  ASSUME IInv, PipesInv, kind' = kind, NEW s \in Shards,
         NEW at \in {clock - 1, clock} \cap Nat, ExecutePipeline(s, at),
         NEW i, NEW r, NEW g, Takes(s, at, i, r, g), Shares' = Shares
  PROVE  /\ hash' = hash /\ clock' = clock /\ granted' = granted /\ upsets' = upsets
         /\ version' = version /\ s < Shares
         /\ \A t \in Shards \ {s} : Still(t) /\ Spare(t)'
         /\ i \in {0, Burst} /\ i + r \in Nat /\ r \in Nat /\ g \in Nat
         /\ Promised(s) = 0 /\ Pending(s) = 0 /\ Age(s) = 0 /\ Unfilled(s) = Burst
         /\ Age(s)' = 0 /\ Claim(s) = Cap /\ Claim(s)' = 0
         /\ Unfilled(s)' = Burst - AtMost(i + r, Burst)
         /\ LineOK(s)'
<1>1. TypeInv /\ LineOK(s) /\ Counted
  BY DEF IInv, PipesInv, LinesInv
<1>2. /\ hash' = hash /\ clock' = clock /\ granted' = granted /\ upsets' = upsets
      /\ version' = version /\ stage[s] = "idle" /\ queue[s] # <<>>
      /\ \A t \in Shards \ {s} : /\ stage'[t] = stage[t] /\ verdict'[t] = verdict[t]
                                 /\ pipe'[t] = pipe[t] /\ batch'[t] = batch[t]
                                 /\ queue'[t] = queue[t]
  BY <1>1 DEF ExecutePipeline, TakeBatch, TypeInv, BatchTypeOK, bucketVars
<1>3. s < Shares
  BY <1>1, <1>2, SharesAre DEF LineOK, Spare
<1>4. \A t \in Shards \ {s} : Still(t) /\ Spare(t)'
  BY <1>2, StillIs DEF PipesInv, LinesInv, LineOK, Spare
<1>5. pipe[s] = <<>> /\ Promised(s) = 0
  BY <1>2 DEF IInv, ShardInv, ShardExact, Promised
<1>6. Pending(s) = 0 /\ Age(s) = 0 /\ Unfilled(s) = Burst /\ Claim(s) = Cap
  BY <1>1, <1>5, LineTypes DEF Claim
<1>7. /\ Promised(s)' = g /\ Pending(s)' = (i + r) - g /\ Balance(Tail(pipe'[s])) = -g
      /\ pipe'[s] # <<>> /\ Pipeline(pipe'[s]) /\ Head(pipe'[s]).field = "tokens"
      /\ pipe'[s][Len(pipe'[s])].by = clock /\ g \in Nat
  BY DEF Takes
<1>8. i \in {0, Burst} /\ i + r \in Nat /\ r \in Nat /\ g <= Burst
  <2> DEFINE due == Refill(at, HGet("last_ns", at))
             n == Tokens
  <2>1. due \in Nat /\ n \in Int
    BY <1>1, DueIs, BucketTypes DEF Counted
  <2>2. /\ i \in {0, Burst} /\ (i = Burst => n = 0)
        /\ r = IF n >= Burst THEN 0 ELSE AtMost(due, Burst - n)
        /\ g <= LET m == AtMost(n + i + r, Burst) IN IF m > 0 THEN m ELSE 0
    BY <1>1, BucketTypes, SharesAre DEF Takes
  <2> HIDE DEF due, n
  <2>3. r \in Nat /\ i + r \in Nat /\ g <= Burst
    BY <1>7, <2>1, <2>2, TakesAre
  <2> QED BY <2>2, <2>3
<1>9. Age(s)' = 0 /\ Claim(s)' = 0
  <2>1. Age(s)' = clock' - pipe'[s][Len(pipe'[s])].by
    BY <1>7 DEF Age
  <2>2. clock \in Nat
    BY <1>1, BucketTypes
  <2> QED BY <1>2, <1>7, <2>1, <2>2 DEF Claim
<1>10. Unfilled(s)' = Burst - AtMost(i + r, Burst)
  <2>1. ((i + r) - g) + g = i + r
    <3> DEFINE k == i + r
    <3>1. k \in Nat
      BY <1>8
    <3> HIDE DEF k
    <3>2. (k - g) + g = k
      BY <1>7, <3>1
    <3> QED BY <3>2 DEF k
  <2>2. Unfilled(s)' = Burst - AtMost(Pending(s)' + Promised(s)', Burst)
    BY <1>7 DEF Unfilled
  <2> QED BY <1>7, <2>1, <2>2
<1>11. LineOK(s)'
  <2>1. Pipeline(pipe[s])'
    BY <1>2, <1>7 DEF Pipeline
  <2>2. -g <= (i + r) - g /\ -g <= -g
    <3> DEFINE k == i + r
    <3>1. k \in Nat
      BY <1>8
    <3> HIDE DEF k
    <3>2. -g <= k - g /\ -g <= -g
      BY <1>7, <3>1
    <3> QED BY <3>2 DEF k
  <2>3. Spare(s)'
    BY <1>3, SharesAre DEF Spare
  <2> QED BY <1>7, <1>8, <2>1, <2>2, <2>3 DEF LineOK
<1> QED BY <1>2, <1>3, <1>4, <1>5, <1>6, <1>7, <1>8, <1>9, <1>10, <1>11

LEMMA ExecutePipelineStep ==
  ASSUME IInv, TypeInv', PipesInv, kind' = kind, NEW s \in Shards,
         NEW at \in {clock - 1, clock} \cap Nat, ExecutePipeline(s, at)
  PROVE  PipesInv'
<1>1. TypeInv /\ Counted /\ LinesInv
  BY DEF IInv, PipesInv
<1>2. version' = version
  BY DEF ExecutePipeline
<1>3. Shares' = Shares
  BY <1>2, SharesStay
<1>4. PICK i, r, g : Takes(s, at, i, r, g)
  BY ExecuteTakes
<1>5. /\ hash' = hash /\ clock' = clock /\ granted' = granted /\ upsets' = upsets
      /\ version' = version /\ s < Shares
      /\ \A t \in Shards \ {s} : Still(t) /\ Spare(t)'
      /\ i \in {0, Burst} /\ i + r \in Nat /\ r \in Nat /\ g \in Nat
      /\ Promised(s) = 0 /\ Pending(s) = 0 /\ Age(s) = 0 /\ Unfilled(s) = Burst
      /\ Age(s)' = 0 /\ Claim(s) = Cap /\ Claim(s)' = 0
      /\ Unfilled(s)' = Burst - AtMost(i + r, Burst)
      /\ LineOK(s)'
  BY <1>3, <1>4, ExecuteMoves
<1>6. Tokens' = Tokens /\ Last' = Last /\ Last' <= clock
  BY <1>1, <1>5 DEF Tokens, Last, HGet, Counted
<1>7. granted' \in Nat /\ upsets' \in Nat
  BY <1>1, <1>5 DEF Counted
<1>8. Counted' /\ LinesInv' /\ Sized /\ Sized'
  BY <1>1, <1>5, <1>6, <1>7, LineNext
<1> DEFINE due == Refill(at, HGet("last_ns", at))
           n == Tokens
<1>9. /\ due \in Nat /\ n \in Int /\ TicksPerToken * due <= clock - Last
      /\ ("last_ns" \in DOMAIN hash => clock - Last <= TicksPerToken * due + TicksPerToken)
      /\ clock \in Nat /\ Last \in Int
  BY <1>1, DueIs, BucketTypes DEF Counted
<1>10. /\ r \in Nat /\ r <= due /\ (n < 0 => g <= i + r)
       /\ (n >= 0 => n + ((i + r) - g) >= 0 /\ r <= Burst)
       /\ (n < 0 => r <= Burst - n)
       /\ (n < 0 /\ n + ((i + r) - g) < 0 => r = due /\ r < -n)
       /\ (i = Burst => n = 0) /\ i = IF "tokens" \in DOMAIN hash THEN 0 ELSE Burst
  <2>2. /\ i \in {0, Burst} /\ (i = Burst => n = 0) /\ g \in Nat
        /\ r = IF n >= Burst THEN 0 ELSE AtMost(due, Burst - n)
        /\ g <= LET m == AtMost(n + i + r, Burst) IN IF m > 0 THEN m ELSE 0
        /\ i = IF "tokens" \in DOMAIN hash THEN 0 ELSE Burst
    BY <1>1, <1>4, BucketTypes, SharesAre DEF Takes
  <2> HIDE DEF due, n
  <2>3. n \in Int /\ due \in Nat
    BY <1>9
  <2>4. /\ r \in Nat /\ r <= due /\ (n < 0 => g <= i + r)
        /\ (n >= 0 => n + ((i + r) - g) >= 0 /\ r <= Burst)
        /\ (n < 0 => r <= Burst - n)
        /\ (n < 0 /\ n + ((i + r) - g) < 0 => r = due /\ r < -n)
    BY <2>2, <2>3, TakesAre
  <2> QED BY <2>2, <2>4
<1> DEFINE k == i + r
           q2 == k - g
           l == SumTo(Lows, Shares)
           l2 == SumTo(Lows, Shares)'
           w == (Shares - 1) * Burst
           b == Low
           b2 == Low'
           e == Debt
           e2 == Debt'
<1>11. /\ k \in Nat /\ q2 \in Int /\ l \in Int /\ l2 \in Int /\ w \in Nat /\ b \in Int /\ b2 \in Int
       /\ e \in Nat /\ e2 \in Nat
       /\ Shares * Burst = w + Burst /\ -w <= l /\ l <= 0 /\ Burst \in Nat /\ Burst >= 1
  <2>1. w \in Nat /\ Shares * Burst = w + Burst /\ l <= 0
    BY <1>8, SumBounds
  <2>2. -w <= l
    BY <1>5, <1>8, OthersLow
  <2>3. l \in Int /\ l2 \in Int /\ b \in Int /\ b2 \in Int /\ e \in Nat /\ e2 \in Nat
    BY <1>3, <1>8 DEF Sized
  <2>4. k \in Nat
    BY <1>5
  <2>5. q2 \in Int
    <3> HIDE DEF k
    <3> QED BY <1>5, <2>4
  <2> QED BY <2>1, <2>2, <2>3, <2>4, <2>5, SharesAre
<1>12. Pending(s)' = q2 /\ Promised(s)' = g
  BY <1>4 DEF Takes
<1>13. b = n + l /\ b2 = n + l2 /\ l2 = l + AtMost(q2, 0)
  <2>1. b = n + l /\ b2 = n + l2
    BY <1>6 DEF Low
  <2>2. AtMost(Pending(s), 0) = 0
    BY <1>5 DEF AtMost
  <2>3. l2 = l - AtMost(Pending(s), 0) + AtMost(Pending(s)', 0)
    BY <1>3, <1>5, <1>8, OneMoves
  <2>4. l2 = (l - 0) + AtMost(q2, 0)
    BY <1>12, <2>2, <2>3
  <2>5. AtMost(q2, 0) \in Int
    BY <1>11 DEF AtMost
  <2> DEFINE a == AtMost(q2, 0)
  <2> HIDE DEF a, l, l2, n, b, b2, q2
  <2>6. l2 = l + a
    BY <1>11, <2>4, <2>5 DEF a
  <2> QED BY <2>1, <2>6 DEF a
<1>14. /\ e = IF -w - b > 0 THEN -w - b ELSE 0
       /\ e2 = IF -w - b2 > 0 THEN -w - b2 ELSE 0
  BY <1>3 DEF Debt
<1>15. (n < 0 => q2 >= 0 /\ b2 = b) /\ (n >= 0 => -w <= b2)
  <2> HIDE DEF n, l, l2, w, b, b2, e, e2
  <2>1. ASSUME n < 0 PROVE q2 >= 0 /\ b2 = b
    <3>1. g <= k
      BY <1>10, <2>1
    <3> HIDE DEF k
    <3>2. q2 >= 0
      BY <1>5, <1>11, <3>1
    <3> HIDE DEF q2
    <3>3. AtMost(q2, 0) = 0
      BY <1>11, <3>2 DEF AtMost
    <3>4. l2 = l + 0 /\ b = n + l /\ b2 = n + l2
      BY <1>13, <3>3
    <3>5. b2 = b
      BY <1>11, <3>4
    <3> QED BY <3>2, <3>5
  <2>2. ASSUME n >= 0 PROVE -w <= b2
    <3>1. n + ((i + r) - g) >= 0
      BY ONLY <1>10, <2>2
    <3>2. n + q2 >= 0
      BY ONLY <3>1
    <3> HIDE DEF k, q2
    <3> QED BY <1>9, <1>11, <1>13, <2>2, <3>2 DEF AtMost
  <2> QED BY <2>1, <2>2
<1>16. e2 <= e
  <2> HIDE DEF n, k, q2, l, l2, w, b, b2, e, e2
  <2> QED BY <1>9, <1>11, <1>14, <1>15
<1>17. Cap' <= Cap
  BY <1>3, <1>5, <1>6, <1>8, <1>9, <1>16, CapFollows
<1>18. TicksPerToken * r <= Cap
  <2> DEFINE T == TicksPerToken
             x == Shares * Burst + e
             y == T * x
             z == T * r
             u == T * due
  <2>1. T \in Nat /\ x \in Nat /\ r \in Nat /\ r <= x /\ r <= due
    <3>1. T \in Nat
      BY SharesAre
    <3>2. x = (w + Burst) + e
      BY <1>11
    <3>3. r <= (w + Burst) + e
      <4>1. CASE n >= 0
        <5>1. r <= Burst
          BY <1>10, <4>1
        <5> HIDE DEF n, l, l2, w, b, b2, e, e2
        <5> QED BY <1>10, <1>11, <5>1
      <4>2. CASE ~(n >= 0)
        <5>1. r <= Burst - n
          BY <1>9, <1>10, <4>2
        <5> HIDE DEF n, l, l2, w, b, b2, e, e2, k, q2
        <5> QED BY <1>9, <1>10, <1>11, <1>13, <1>14, <5>1
      <4> QED BY <4>1, <4>2
    <3>4. (w + Burst) + e \in Nat
      <4> HIDE DEF w, e
      <4> QED BY <1>11
    <3> QED BY <1>10, <3>1, <3>2, <3>3, <3>4
  <2>2. Cap = AtMost(clock - Last, y)
    BY DEF Cap
  <2> HIDE DEF due, x, T
  <2>3. \A p, q \in Nat : p <= q => T * p <= T * q
    <3> SUFFICES ASSUME NEW p \in Nat, NEW q \in Nat, p <= q PROVE T * p <= T * q
      OBVIOUS
    <3> DEFINE c == q - p
    <3>1. c \in Nat /\ q = p + c
      OBVIOUS
    <3> HIDE DEF c
    <3>2. T * q = T * p + T * c /\ T * c \in Nat /\ T * p \in Nat
      BY <2>1, <3>1
    <3> QED BY <3>2
  <2>4. z <= y /\ z <= u /\ y \in Nat /\ z \in Nat /\ u \in Nat
    BY <1>9, <2>1, <2>3
  <2>5. u <= clock - Last
    BY <1>9 DEF T
  <2> HIDE DEF y, z, u
  <2>6. z <= AtMost(clock - Last, y)
    BY <1>9, <2>4, <2>5 DEF AtMost
  <2> QED BY <2>2, <2>6 DEF z, T
<1>19. Counted' /\ LinesInv' /\ Main'
  <2> DEFINE f == -AtMost(k, Burst)
  <2>1. f \in Int
    <3> HIDE DEF k
    <3> QED BY <1>11 DEF AtMost
  <2>2. Unfilled(s)' = Unfilled(s) + f
    <3> DEFINE a == AtMost(k, Burst)
    <3>1. a \in Int
      <4> HIDE DEF k
      <4> QED BY <1>11 DEF AtMost
    <3>2. Unfilled(s)' = Burst - a /\ Unfilled(s) = Burst
      BY <1>5
    <3> HIDE DEF a
    <3>3. Burst - a = Burst + (-a)
      BY <1>11, <3>1
    <3> QED BY <3>2, <3>3 DEF a
  <2>3. granted' + Promised(s)' + Tokens' + Pending(s)'
          = granted + Promised(s) + Tokens + Pending(s) + k
    <3>1. granted \in Int
      BY <1>1 DEF Counted
    <3>2. granted' = granted /\ Promised(s)' = g /\ Tokens' = n /\ Pending(s)' = q2
          /\ Promised(s) = 0 /\ Pending(s) = 0
      BY <1>5, <1>6, <1>12
    <3>3. q2 = k - g
      OBVIOUS
    <3> HIDE DEF n, k, q2
    <3>4. granted + g + n + (k - g) = granted + 0 + n + 0 + k
      BY <1>5, <1>9, <1>11, <3>1
    <3> QED BY <3>2, <3>3, <3>4 DEF n
  <2>4. IF "tokens" \in DOMAIN hash' THEN k <= r ELSE k + f <= r
    <3>1. CASE "tokens" \in DOMAIN hash
      BY <1>5, <1>10, <3>1
    <3>2. CASE "tokens" \notin DOMAIN hash
      <4>1. k = Burst + r /\ r \in Nat
        BY <1>10, <3>2
      <4> HIDE DEF k
      <4>2. AtMost(k, Burst) = Burst
        BY <1>11, <4>1 DEF AtMost
      <4>3. k + f <= r
        BY <1>11, <4>1, <4>2
      <4> QED BY <1>5, <3>2, <4>3
    <3> QED BY <3>1, <3>2
  <2>5. TicksPerToken * r <= Claim(s) - Claim(s)'
    <3> DEFINE c == Cap
               z == TicksPerToken * r
    <3>1. c \in Int /\ z <= c /\ Claim(s) = c /\ Claim(s)' = 0
      BY <1>5, <1>8, <1>18 DEF Sized
    <3> HIDE DEF c, z
    <3>2. z <= c - 0
      BY <3>1
    <3> QED BY <3>1, <3>2 DEF z
  <2>6. "tokens" \in DOMAIN hash => "tokens" \in DOMAIN hash'
    BY <1>5
  <2>7. Age(s)' = Age(s) /\ k \in Int /\ r \in Int
    BY <1>5, <1>10, <1>11
  <2> HIDE DEF k, f
  <2> QED BY <1>1, <1>5, <1>6, <1>7, <1>16, <1>17, <2>1, <2>2, <2>3, <2>4, <2>5, <2>6, <2>7,
             LineStep DEF e, e2
<1>20. Alone'
  <2> SUFFICES ASSUME Shares = 1, "last_ns" \in DOMAIN hash
               PROVE  \/ pipe'[0][Len(pipe'[0])].by - hash["last_ns"] <= TicksPerToken * Burst
                      \/ Tokens' + Pending(0)' >= 0
    BY <1>3, <1>5 DEF Alone
  <2>1. s = 0
    BY <1>5 DEF Shards
  <2>2. pipe'[0][Len(pipe'[0])].by = clock /\ Tokens' + Pending(0)' = n + q2
    BY <1>4, <1>6, <1>12, <2>1 DEF Takes
  <2>3. hash["last_ns"] = Last
    BY <1>1, BucketTypes
  <2>4. CASE n + q2 >= 0
    BY <2>2, <2>4
  <2>5. CASE ~(n + q2 >= 0)
    <3>1. n + q2 < 0 /\ n < 0
      <4>1. n >= 0 => n + q2 >= 0
        BY <1>10
      <4> HIDE DEF n, k, q2
      <4> QED BY <1>9, <1>11, <2>5, <4>1
    <3>2. due < -n
      BY <1>10, <3>1
    <3>3. w = 0
      BY <2>1, SharesAre
    <3>4. -Burst <= b
      <4>1. -(Shares * Burst) <= b
        BY DEF PipesInv
      <4> HIDE DEF w, b
      <4> QED BY <1>11, <3>3, <4>1
    <3>5. due + 1 <= Burst
      <4> HIDE DEF due, n, k, q2, l, l2, w, b, b2
      <4> QED BY <1>9, <1>11, <1>13, <3>2, <3>4
    <3>6. clock - Last <= TicksPerToken * Burst
      <4> DEFINE T == TicksPerToken
                 c == Burst - (due + 1)
      <4>1. c \in Nat /\ Burst = (due + 1) + c /\ T \in Nat
        <5> HIDE DEF due
        <5> QED BY <1>9, <1>11, <3>5, SharesAre
      <4>2. clock - Last <= T * due + T
        BY <1>9
      <4> HIDE DEF T, c, due
      <4>3. T * ((due + 1) + c) = (T * due + T) + T * c /\ T * c \in Nat /\ T * due \in Nat
        BY <1>9, <4>1
      <4>4. clock - Last <= (T * due + T) + T * c
        BY <1>9, <4>1, <4>2, <4>3
      <4> QED BY <4>1, <4>3, <4>4 DEF T
    <3> QED BY <2>2, <2>3, <3>6
  <2> QED BY <2>4, <2>5
<1>21. (-(Shares * Burst) <= Low)'
  <2>1. -(Shares * Burst) <= b
    BY DEF PipesInv
  <2> DEFINE v == Shares * Burst
  <2>2. v = w + Burst /\ -v <= b
    BY <1>11, <2>1
  <2> HIDE DEF v, n, l, l2, w, b, b2, k, q2
  <2>3. -v <= b2
    BY <1>9, <1>11, <1>15, <2>2
  <2> QED BY <1>3, <2>3 DEF b2, v
<1> QED BY <1>19, <1>20, <1>21 DEF PipesInv

--------------------------------------------------------------------------------
(* The steps that leave promises and pipelines alone.                      *)
LEMMA SparesStay ==
  ASSUME PipesInv, kind' = kind, version' = version, stage' = stage, queue' = queue
  PROVE  \A t \in Shards : Spare(t)'
<1>1. Shares' = Shares
  BY SharesStay
<1> QED BY <1>1 DEF PipesInv, LinesInv, LineOK, Spare

LEMMA ClientStep ==
  ASSUME IInv, TypeInv', PipesInv, kind = "batch", kind' = kind, Client
  PROVE  PipesInv'
<1>1. TypeInv
  BY DEF IInv
<1>2. ASSUME NEW r \in Requests, NEW n \in Asks, AllowN(r, n) PROVE PipesInv'
  <2>1. /\ hash' = hash /\ clock' = clock /\ granted' = granted /\ upsets' = upsets
        /\ version' = version /\ stage' = stage /\ batch' = batch /\ verdict' = verdict
        /\ pipe' = pipe
    BY <1>2 DEF AllowN, bucketVars
  <2>2. Target \in Shards /\ Target < Shares
    <3>1. Target \in Shards
      BY <1>1, IndexMoves DEF TypeInv
    <3>2. NumShards \in Nat /\ Shares \in Nat /\ Shares >= 1
      BY RedisBatchAssumption, SharesAre
    <3>3. CASE version = "v4"
      BY <3>1, <3>2, <3>3 DEF Shares, Shards
    <3>4. CASE version # "v4"
      <4>1. Target = 0
        BY <3>4 DEF Target
      <4> QED BY <3>1, <3>2, <4>1
    <3> QED BY <3>1, <3>3, <3>4
  <2>3. \A t \in Shards \ {Target} : queue'[t] = queue[t]
    BY <1>1, <1>2 DEF AllowN, TypeInv, BatchTypeOK
  <2>4. Shares' = Shares
    BY <2>1, SharesStay
  <2>5. \A t \in Shards : Still(t)
    BY <2>1, StillIs
  <2>6. \A t \in Shards : Spare(t)'
    <3> SUFFICES ASSUME NEW t \in Shards PROVE Spare(t)'
      OBVIOUS
    <3>1. CASE t = Target
      <4>1. ~(t >= Shares)
        BY <2>2, <3>1, SharesAre
      <4> QED BY <2>4, <4>1 DEF Spare
    <3>2. CASE t # Target
      BY <2>1, <2>3, <2>4, <3>2 DEF PipesInv, LinesInv, LineOK, Spare
    <3> QED BY <3>1, <3>2
  <2> QED BY <1>1, <2>1, <2>5, <2>6, QuietStep
<1>3. ASSUME NEW r \in Requests, Receive(r) \/ GiveUp(r) PROVE PipesInv'
  <2>1. /\ hash' = hash /\ clock' = clock /\ granted' = granted /\ upsets' = upsets
        /\ version' = version /\ stage' = stage /\ batch' = batch /\ verdict' = verdict
        /\ pipe' = pipe /\ queue' = queue
    BY <1>3 DEF Receive, GiveUp, bucketVars
  <2> QED BY <1>1, <2>1, StillIs, SparesStay, QuietStep
<1>4. ASSUME Close PROVE PipesInv'
  <2>1. /\ hash' = hash /\ clock' = clock /\ granted' = granted /\ upsets' = upsets
        /\ version' = version /\ stage' = stage /\ batch' = batch /\ verdict' = verdict
        /\ pipe' = pipe /\ queue' = queue
    BY <1>4 DEF Close, bucketVars, shardVars
  <2> QED BY <1>1, <2>1, StillIs, SparesStay, QuietStep
<1>5. ASSUME NEW n \in Asks \cup {0}, InitializeTokenBucket(n) PROVE PipesInv'
  <2>1. /\ hash' = HSet(HSet(hash, "tokens", n), "last_ns", clock)
        /\ clock' = clock /\ granted' = granted /\ upsets' = upsets + 1
        /\ version' = version /\ stage' = stage /\ batch' = batch /\ verdict' = verdict
        /\ pipe' = pipe /\ queue' = queue
    BY <1>5 DEF InitializeTokenBucket, Upset, batchVars, shardVars
  <2>2. n \in 0 .. Burst /\ n \in Int
    BY RedisBatchAssumption, SharesAre
  <2>3. /\ "tokens" \in DOMAIN hash' /\ "last_ns" \in DOMAIN hash'
        /\ hash'["tokens"] = n /\ hash'["last_ns"] = clock
    <3>1. hash \in Hashes /\ clock \in Int /\ "tokens" \in Fields \ {"last_ns"}
      BY <1>1, BucketTypes DEF Fields
    <3> QED BY <2>1, <2>2, <3>1, SetBoth
  <2>4. Tokens' = n /\ Last' = clock
    BY <2>3 DEF Tokens, Last, HGet
  <2>5. \A t \in Shards : Still(t) /\ Spare(t)'
    BY <2>1, StillIs, SparesStay
  <2> QED BY <1>1, <2>1, <2>2, <2>3, <2>4, <2>5, Refreshed
<1> QED BY <1>2, <1>3, <1>4, <1>5 DEF Client

LEMMA ShardQuiet ==
  ASSUME IInv, PipesInv, kind' = kind, NEW s \in Shards,
         ReadFails(s) \/ SendResults(s) \/ FailPending(s)
  PROVE  PipesInv'
<1>1. TypeInv /\ BatchTypeOK
  BY DEF IInv, TypeInv
<1>2. /\ hash' = hash /\ clock' = clock /\ granted' = granted /\ upsets' = upsets
      /\ version' = version /\ pipe' = pipe
      /\ \A t \in Shards \ {s} : /\ stage'[t] = stage[t] /\ verdict'[t] = verdict[t]
                                 /\ batch'[t] = batch[t] /\ queue'[t] = queue[t]
  <2>1. CASE ReadFails(s)
    BY <1>1, <2>1 DEF ReadFails, TakeBatch, BatchTypeOK, bucketVars
  <2>2. CASE SendResults(s)
    BY <1>1, <2>2 DEF SendResults, BatchTypeOK, bucketVars
  <2>3. CASE FailPending(s)
    BY <1>1, <2>3 DEF FailPending, BatchTypeOK, bucketVars
  <2> QED BY <2>1, <2>2, <2>3
<1>3. Shares' = Shares
  BY <1>2, SharesStay
<1>4. Promised(s) = 0 /\ Promised(s)' = 0
  <2>1. CASE ReadFails(s)
    <3>1. stage[s] = "idle" /\ stage'[s] = "write" /\ batch'[s] = Collected(s)
          /\ verdict'[s] = AllErrors(Collected(s))
      BY <1>1, <2>1 DEF ReadFails, TakeBatch, BatchTypeOK
    <3>2. Granted(Collected(s), AllErrors(Collected(s))) = 0
      BY <1>1, CollectedIs, ErrorsGiveNothing
    <3> QED BY <3>1, <3>2 DEF Promised
  <2>2. CASE SendResults(s)
    BY <1>1, <2>2 DEF SendResults, BatchTypeOK, Promised
  <2>3. CASE FailPending(s)
    BY <1>1, <2>3 DEF FailPending, BatchTypeOK, Promised
  <2> QED BY <2>1, <2>2, <2>3
<1>5. Spare(s)'
  <2>1. CASE ReadFails(s)
    <3>1. stage[s] = "idle" /\ queue[s] # <<>>
      BY <2>1 DEF ReadFails, TakeBatch
    <3>2. s < Shares
      BY <3>1, SharesAre DEF PipesInv, LinesInv, LineOK, Spare
    <3> QED BY <1>3, <3>2, SharesAre DEF Spare
  <2>2. CASE SendResults(s)
    <3>1. stage[s] = "send"
      BY <2>2 DEF SendResults
    <3>2. s < Shares
      BY <1>1, <3>1, MoverIs
    <3> QED BY <1>3, <3>2, SharesAre DEF Spare
  <2>3. CASE FailPending(s)
    BY <1>1, <2>3 DEF FailPending, BatchTypeOK, Spare
  <2> QED BY <2>1, <2>2, <2>3
<1>6. \A t \in Shards \ {s} : Still(t) /\ Spare(t)'
  BY <1>2, <1>3, StillIs DEF PipesInv, LinesInv, LineOK, Spare
<1>7. Still(s)
  BY <1>2, <1>4 DEF Still
<1> QED BY <1>1, <1>2, <1>5, <1>6, <1>7, QuietStep

(* Every step of the pipelines of v3 and v4.                               *)
LEMMA PipesStep ==
  IInv /\ kind = "batch" /\ version # "v2" /\ PipesInv /\ [Next]_vars /\ TypeInv' => PipesInv'
<1> SUFFICES ASSUME IInv, kind = "batch", version # "v2", PipesInv, [Next]_vars, TypeInv'
             PROVE  PipesInv'
  OBVIOUS
<1>1. TypeInv
  BY DEF IInv
<1>2. kind' = kind
  BY DEF Next, vars
<1>3. CASE Tick /\ UNCHANGED <<kind, batchVars, directVars>>
  <2>1. /\ hash' = hash /\ clock' = clock + 1 /\ granted' = granted /\ upsets' = upsets
        /\ version' = version /\ stage' = stage /\ batch' = batch /\ verdict' = verdict
        /\ pipe' = pipe /\ queue' = queue
    BY <1>3 DEF Tick, batchVars, shardVars
  <2>2. \A t \in Shards : Still(t) /\ Spare(t)'
    BY <1>2, <2>1, StillIs, SparesStay
  <2> QED BY <1>1, <1>2, <2>1, <2>2, TickStep
<1>4. CASE /\ Expire /\ dirty' = watching
           /\ UNCHANGED <<kind, batchVars, watching, ask, now, seen, attempt>>
  <2>1. /\ hash' = NoHash /\ clock' = clock /\ granted' = granted /\ upsets' = upsets + 1
        /\ version' = version /\ stage' = stage /\ batch' = batch /\ verdict' = verdict
        /\ pipe' = pipe /\ queue' = queue
    BY <1>4 DEF Expire, Upset, batchVars, shardVars
  <2>2. \A t \in Shards : Still(t) /\ Spare(t)'
    BY <1>2, <2>1, StillIs, SparesStay
  <2>3. Tokens' = 0 /\ Last' = clock
    BY <2>1 DEF Tokens, Last, HGet, NoHash
  <2> DEFINE z == 0
  <2>4. z \in 0 .. Burst /\ Tokens' = z /\ ("tokens" \in DOMAIN hash' \/ z = 0)
    BY <2>3, SharesAre
  <2> HIDE DEF z
  <2> QED BY <1>1, <1>2, <2>1, <2>2, <2>3, <2>4, Refreshed
<1>5. CASE BatchNext /\ UNCHANGED <<kind, directVars>>
  <2>1. CASE Client
    BY <1>2, <2>1, ClientStep
  <2>2. ASSUME NEW s \in Shards, Shard(s) PROVE PipesInv'
    <3>1. ASSUME NEW at \in {clock - 1, clock} \cap Nat, ExecutePipeline(s, at) PROVE PipesInv'
      BY <1>2, <3>1, ExecutePipelineStep
    <3>2. CASE ExecuteScripts(s)
      BY <3>2 DEF ExecuteScripts
    <3>3. CASE ReadFails(s) \/ SendResults(s) \/ FailPending(s)
      BY <1>2, <3>3, ShardQuiet
    <3>4. CASE WriteBucket(s)
      <4>1. Head(pipe[s]).field \in {"tokens", "last_ns"}
        <5>1. pipe[s] # <<>> /\ pipe[s] \in Seq(Command)
          BY <3>4, <1>1 DEF WriteBucket, TypeInv, BatchTypeOK
        <5>2. Head(pipe[s]) = pipe[s][1] /\ 1 \in 1 .. Len(pipe[s])
          BY <5>1
        <5>3. stage[s] = "write"
          BY <5>1, <1>1 DEF IInv, ShardInv, ShardExact, TypeInv, BatchTypeOK
        <5> QED BY <5>2, <5>3 DEF IInv, ShardInv, ShardExact
      <4> QED BY <1>2, <3>4, <4>1, TokensStep, TimeStep
    <3>5. CASE WriteFails(s)
      BY <1>2, <3>5, WriteFailsStep
    <3>6. CASE WriteReturns(s)
      BY <1>2, <3>6, WriteReturnsStep
    <3> QED BY <2>2, <3>1, <3>2, <3>3, <3>4, <3>5, <3>6 DEF Shard
  <2> QED BY <1>5, <2>1, <2>2 DEF BatchNext, Client
<1>6. CASE UNCHANGED vars
  <2>1. /\ hash' = hash /\ clock' = clock /\ granted' = granted /\ upsets' = upsets
        /\ version' = version /\ stage' = stage /\ batch' = batch /\ verdict' = verdict
        /\ pipe' = pipe /\ queue' = queue
    BY <1>6 DEF vars, bucketVars, batchVars, shardVars
  <2> QED BY <1>1, <1>2, <2>1, StillIs, SparesStay, QuietStep
<1> QED BY <1>3, <1>4, <1>5, <1>6 DEF Next

--------------------------------------------------------------------------------
(* What the invariant says of what is granted.                             *)
LEMMA SumNat ==
  ASSUME NEW n \in Nat, NEW f, \A i \in 1 .. n : f[i] \in Int /\ 0 <= f[i]
  PROVE  SumTo(f, n) \in Int /\ 0 <= SumTo(f, n)
<1> DEFINE z == [i \in 1 .. n |-> 0]
<1>1. \A i \in 1 .. n : z[i] = 0
  OBVIOUS
<1>2. \A i \in 1 .. n : z[i] \in Int /\ f[i] \in Int /\ z[i] <= f[i]
  BY <1>1
<1> HIDE DEF z
<1>3. SumTo(z, n) = 0
  BY <1>1, SumZero
<1>4. SumTo(z, n) <= SumTo(f, n)
  BY <1>2, SumAtMost
<1>5. SumTo(f, n) \in Int
  <2>1. \A i \in 1 .. n : f[i] \in Int
    OBVIOUS
  <2> QED BY <2>1, SumType
<1> QED BY <1>3, <1>4, <1>5

LEMMA PairsNat ==
  ASSUME NEW n \in Nat, NEW a, \A i \in 1 .. n : a[i] \in Nat
  PROVE  PairSum(a, n) \in Int /\ 0 <= PairSum(a, n)
<1>1. ASSUME NEW i \in 1 .. n PROVE Rows(a, n)[i] \in Int /\ 0 <= Rows(a, n)[i]
  <2> DEFINE f == [j \in 1 .. n |-> Larger(a[i], a[j])]
             k == i - 1
  <2>1. k \in Nat /\ \A j \in 1 .. k : f[j] \in Int /\ 0 <= f[j]
    BY DEF Larger
  <2>2. Rows(a, n)[i] = SumTo(f, k)
    BY DEF Rows, Row
  <2> HIDE DEF f, k
  <2> QED BY <2>1, <2>2, SumNat
<1> DEFINE g == Rows(a, n)
<1>2. \A i \in 1 .. n : g[i] \in Int /\ 0 <= g[i]
  BY <1>1
<1> HIDE DEF g
<1>3. SumTo(g, n) \in Int /\ 0 <= SumTo(g, n)
  BY <1>2, SumNat
<1> QED BY <1>3 DEF PairSum, g

LEMMA PipesLimit == ASSUME TypeInv, PipesInv PROVE WithinLimit
<1>1. Sized /\ Counted
  BY SumTypes DEF PipesInv
<1> DEFINE w == (Shares - 1) * Burst
           f == Fillings * Burst
           T == TicksPerToken
           x == f * (1 + upsets)
           t == Refills * clock
           o == Owed
           a == Allowance
           l == Time
           p == SumTo(Promises, Shares)
           q == SumTo(Pendings, Shares)
           m == SumTo(Lows, Shares)
           u == SumTo(Unfilleds, Shares)
           c == SumTo(Claims, Shares)
           h == PairSum(Ages, Shares)
           b == Low
           d == Debt
           n == Tokens
<1>2. /\ w \in Nat /\ f = 2 * w + Burst /\ Shares * Burst = w + Burst
      /\ Burst \in Nat /\ T \in Nat /\ upsets \in Nat /\ granted \in Nat /\ t \in Nat
  <2>1. /\ (Shares - 1) * Burst \in Nat /\ Shares * Burst = (Shares - 1) * Burst + Burst
        /\ (2 * Shares - 1) * Burst = 2 * ((Shares - 1) * Burst) + Burst
    BY <1>1, SumBounds
  <2>2. Fillings = 2 * Shares - 1 /\ T \in Nat /\ Refills \in Nat /\ Burst \in Nat
    BY SharesAre
  <2>3. f = 2 * w + Burst
    BY <2>1, <2>2
  <2>4. clock \in Nat /\ granted \in Nat /\ upsets \in Nat
    BY <1>1 DEF Sized, Counted
  <2>5. t \in Nat
    BY <2>2, <2>4
  <2> QED BY <2>1, <2>2, <2>3, <2>4, <2>5
<1>3. /\ p \in Int /\ q \in Int /\ m \in Int /\ u \in Int /\ c \in Int /\ h \in Int
      /\ b \in Int /\ d \in Nat /\ n \in Int /\ o \in Int /\ l \in Int
  BY <1>1 DEF Sized
<1>4. /\ 0 <= p /\ m <= q /\ 0 <= u /\ 0 <= c
  BY <1>1, SumBounds
<1>5. 0 <= h
  <2>1. Shares \in Nat /\ \A i \in 1 .. Shares : Ages[i] \in Nat
    BY <1>1, SharesAre DEF Sized
  <2> DEFINE k == Shares
  <2> HIDE DEF k
  <2> QED BY <2>1, PairsNat
<1>6. /\ b = n + m /\ d = IF -w - b > 0 THEN -w - b ELSE 0
      /\ o = granted + p + n + q + d + (IF "tokens" \in DOMAIN hash THEN 0 ELSE u)
      /\ a = (Shares * Burst) + f * upsets /\ l = t - c - h /\ T * o <= T * a + l
  BY DEF PipesInv, Main, Low, Debt, Owed, Allowance, Time
<1>7. a \in Int /\ a + w = x
  <2>1. f \in Int
    <3> HIDE DEF w, f
    <3> QED BY <1>2
  <2>2. x = f + f * upsets /\ f * upsets \in Int
    <3> HIDE DEF f
    <3> QED BY <1>2, <2>1
  <2> DEFINE y == f * upsets
             s == Shares * Burst
  <2>3. s = w + Burst /\ f = 2 * w + Burst /\ a = s + y /\ x = f + y /\ y \in Int
    BY <1>2, <1>6, <2>2
  <2> HIDE DEF y, s, w, f, x, a
  <2> QED BY <1>2, <2>3
<1> HIDE DEF w, f, T, x, t, o, a, l, p, q, m, u, c, h, b, d, n
<1>8. granted - w <= o
  BY <1>2, <1>3, <1>4, <1>6
<1>9. l <= t
  BY <1>2, <1>3, <1>4, <1>5, <1>6
<1>10. T * granted <= T * x + l
  <2>1. PICK k \in Nat : o = (granted - w) + k
    <3>1. o - (granted - w) \in Nat /\ o = (granted - w) + (o - (granted - w))
      BY <1>2, <1>3, <1>8
    <3> QED BY <3>1
  <2>2. T * ((granted - w) + k) = (T * granted - T * w) + T * k
    BY <1>2, <2>1
  <2>3. T * granted \in Int /\ T * w \in Int /\ T * k \in Nat /\ T * a \in Int
    BY <1>2, <1>7, <2>1
  <2>4. T * x = T * a + T * w
    BY <1>2, <1>7
  <2> QED BY <1>3, <1>6, <2>1, <2>2, <2>3, <2>4
<1>11. granted <= x + (t \div TicksPerToken)
  <2>1. x \in Int
    BY <1>2, <1>7
  <2>2. TicksPerToken * granted <= TicksPerToken * x + l
    BY <1>10 DEF T
  <2> QED BY <1>2, <1>3, <1>9, <2>1, <2>2, WholeTokens
<1> QED BY <1>11 DEF WithinLimit, x, t, f

(* Nothing is promised yet.                                                *)
LEMMA PipesInit == Init => PipesInv
<1> SUFFICES ASSUME Init PROVE PipesInv
  OBVIOUS
<1>1. TypeInv
  BY InitInv DEF IInv
<1>2. /\ granted = 0 /\ upsets = 0 /\ clock = 0 /\ DOMAIN hash = {}
      /\ \A s \in Shards : stage[s] = "idle" /\ queue[s] = <<>> /\ pipe[s] = <<>>
  BY DEF Init, BucketInit, BatchInit, NoHash
<1>3. Tokens = 0 /\ Last = 0
  BY <1>2 DEF Tokens, Last, HGet
<1>4. Counted
  BY <1>2, <1>3 DEF Counted
<1>5. ASSUME NEW s \in Shards
      PROVE  /\ Promised(s) = 0 /\ Pending(s) = 0 /\ Age(s) = 0 /\ Unfilled(s) = Burst
             /\ LineOK(s) /\ Claim(s) = Cap
  <2>1. Promised(s) = 0
    BY <1>2 DEF Promised
  <2>2. Pending(s) = 0 /\ Age(s) = 0 /\ Unfilled(s) = Burst
    BY <1>1, <1>2, LineTypes
  <2>3. LineOK(s)
    BY <1>2, <2>1, SharesAre DEF LineOK, Pipeline, Spare
  <2> QED BY <1>2, <2>1, <2>2, <2>3 DEF Claim
<1>6. LinesInv
  BY <1>5 DEF LinesInv
<1>7. Sized
  BY <1>1, <1>4, <1>6, SumTypes
<1> DEFINE k == Shares
<1>8. k \in Nat /\ k >= 1 /\ Lines = 1 .. k /\ \A i \in 1 .. k : i - 1 \in Shards
  BY SharesAre DEF Lines
<1>9. \A i \in 1 .. k : /\ Promises[i] = 0 /\ Pendings[i] = 0 /\ Lows[i] = 0 /\ Ages[i] = 0
                        /\ Unfilleds[i] <= Burst
  BY <1>5, <1>8, SharesAre, ByLine DEF AtMost
<1>10. SumTo(Promises, k) = 0 /\ SumTo(Pendings, k) = 0 /\ SumTo(Lows, k) = 0
  <2> HIDE DEF k
  <2>1. SumTo(Promises, k) = 0
    BY <1>8, <1>9, SumZero
  <2>2. SumTo(Pendings, k) = 0
    BY <1>8, <1>9, SumZero
  <2>3. SumTo(Lows, k) = 0
    BY <1>8, <1>9, SumZero
  <2> QED BY <2>1, <2>2, <2>3
<1> DEFINE w == (Shares - 1) * Burst
           v == Shares * Burst
           u == SumTo(Unfilleds, Shares)
<1>11. u \in Int /\ u <= v /\ v \in Nat /\ w \in Nat
  <2>1. u <= v /\ w \in Nat /\ v = w + Burst
    BY <1>7, SumBounds
  <2>2. v \in Nat
    BY SharesAre
  <2> QED BY <1>7, <2>1, <2>2 DEF Sized
<1>12. Low = 0
  BY <1>3, <1>10 DEF Low
<1>13. Debt = 0
  <2>1. Debt = IF -w - 0 > 0 THEN -w - 0 ELSE 0
    BY <1>12 DEF Debt
  <2> HIDE DEF w
  <2> QED BY <1>11, <2>1
<1>14. Cap = 0
  <2>1. Cap = AtMost(0, TicksPerToken * (Shares * Burst + Debt))
    BY <1>2, <1>3 DEF Cap
  <2>2. TicksPerToken * (Shares * Burst + Debt) \in Nat
    BY <1>13, SharesAre
  <2> DEFINE y == TicksPerToken * (Shares * Burst + Debt)
  <2> HIDE DEF y
  <2>3. AtMost(0, y) = 0
    BY <2>2 DEF AtMost, y
  <2> QED BY <2>1, <2>3 DEF y
<1>15. SumTo(Claims, k) = 0
  <2>1. \A i \in 1 .. k : Claims[i] = 0
    BY <1>5, <1>8, <1>14, ByLine
  <2> HIDE DEF k
  <2> QED BY <1>8, <2>1, SumZero
<1>16. PairSum(Ages, k) = 0
  <2> HIDE DEF k
  <2>1. ASSUME NEW i \in 1 .. k PROVE Rows(Ages, k)[i] = 0
    <3> DEFINE f == [j \in 1 .. k |-> Larger(Ages[i], Ages[j])]
               m == i - 1
    <3>1. m \in Nat /\ \A j \in 1 .. m : f[j] = 0
      BY <1>8, <1>9 DEF Larger
    <3>2. Rows(Ages, k)[i] = SumTo(f, m)
      BY DEF Rows, Row
    <3> HIDE DEF f, m
    <3> QED BY <3>1, <3>2, SumZero
  <2> DEFINE g == Rows(Ages, k)
  <2>2. \A i \in 1 .. k : g[i] = 0
    BY <2>1
  <2> HIDE DEF g
  <2>3. SumTo(g, k) = 0
    BY <1>8, <2>2, SumZero
  <2> QED BY <2>3 DEF PairSum, g
<1>17. Main
  <2>1. Owed = u
    <3>1. Owed = 0 + 0 + 0 + 0 + 0 + u
      BY <1>2, <1>3, <1>10, <1>13 DEF Owed
    <3> HIDE DEF u
    <3> QED BY <1>11, <3>1
  <2>2. Allowance = v
    <3>1. Allowance = v + (Fillings * Burst) * 0
      BY <1>2 DEF Allowance
    <3>2. Fillings * Burst \in Int
      BY SharesAre
    <3> DEFINE y == Fillings * Burst
    <3> HIDE DEF v, y
    <3>3. y * 0 = 0
      BY <3>2 DEF y
    <3> QED BY <1>11, <3>1, <3>3 DEF y
  <2>3. Time = 0
    <3>1. Time = Refills * 0 - 0 - 0
      BY <1>2, <1>15, <1>16 DEF Time
    <3>2. Refills * 0 = 0
      BY SharesAre
    <3> QED BY <3>1, <3>2
  <2> DEFINE T == TicksPerToken
  <2>4. T \in Nat
    BY SharesAre
  <2> HIDE DEF u, v, T
  <2>5. PICK c \in Nat : v = u + c
    <3>1. v - u \in Nat /\ v = u + (v - u)
      BY <1>11
    <3> QED BY <3>1
  <2>6. T * (u + c) = T * u + T * c /\ T * c \in Nat /\ T * u \in Int
    BY <1>11, <2>4, <2>5
  <2>7. T * u <= T * v + 0
    BY <2>5, <2>6
  <2> QED BY <2>1, <2>2, <2>3, <2>7 DEF Main, T
<1>18. Alone
  BY <1>2, SharesAre DEF Alone
<1>19. -(Shares * Burst) <= Low
  BY <1>11, <1>12
<1> QED BY <1>4, <1>6, <1>17, <1>18, <1>19 DEF PipesInv

--------------------------------------------------------------------------------
(* What is granted by transactions or scripts.  Counted in time, the       *)
(* tokens granted and the tokens in the hash are covered by last_ns: what  *)
(* is refilled moves it forward by as much.  A bucket that does not exist  *)
(* holds nothing on account of the present moment; HINCRBY counts it from  *)
(* 0, so that it may be overdrawn by one request.                          *)
Covered(h, t) ==
  IF "tokens" \in DOMAIN h
  THEN /\ "last_ns" \in DOMAIN h /\ h["last_ns"] <= t /\ h["tokens"] >= -Burst
       /\ TicksPerToken * (granted + h["tokens"])
            <= TicksPerToken * (Burst * upsets) + h["last_ns"]
  ELSE /\ "last_ns" \notin DOMAIN h
       /\ TicksPerToken * granted <= TicksPerToken * (Burst * upsets) + t

(* A caller whose transaction Redis will not refuse has seen the hash as   *)
(* it is, which was covered at the moment it looked at the clock.          *)
DirectInv ==
  /\ Covered(hash, clock) /\ dirty \subseteq watching /\ watching \subseteq Callers
  /\ \A c \in watching : ask[c] \in 1 .. Burst /\ now[c] <= clock
  /\ \A c \in watching \ dirty : seen[c] = hash /\ Covered(hash, now[c])

(* Filled instead of emptied: the level covers what the scripts allowed,   *)
(* which is granted or, in v2, still to be told to the requests.           *)
Told(s) == IF stage[s] = "write"
           THEN SumTo(Given(batch[s], verdict[s]), Len(verdict[s])) ELSE 0
Allowed == granted + (IF kind = "batch" THEN Told(0) ELSE 0)

ScriptInv ==
  IF "current" \in DOMAIN hash
  THEN /\ "last_ns" \in DOMAIN hash /\ hash["last_ns"] <= clock
       /\ hash["current"] \in 0 .. Burst
       /\ TicksPerToken * Allowed
            <= TicksPerToken * (hash["current"] + Burst * upsets) + hash["last_ns"]
  ELSE /\ "last_ns" \notin DOMAIN hash
       /\ TicksPerToken * Allowed <= TicksPerToken * (Burst * upsets) + clock

(* In v2 the first shard alone works for the key, and its pipeline asks    *)
(* for the requests of its batch in turn.                                  *)
QueueOK(s) ==
  /\ Spare(s)
  /\ stage[s] = "write" =>
       \A i \in 1 .. Len(pipe[s]) : pipe[s][i].by = batch[s][Len(verdict[s]) + i].n

QueuesInv == /\ granted \in Nat /\ upsets \in Nat
             /\ ScriptInv /\ \A s \in Shards : QueueOK(s)

(* The invariant of the limit is that of the use made of the bucket.       *)
LimitInv ==
  /\ kind \in {"direct", "script", "batch"}
  /\ kind # "batch" => granted \in Nat /\ upsets \in Nat
  /\ kind = "direct" => DirectInv
  /\ kind = "script" => ScriptInv
  /\ kind = "batch" => IF version = "v2" THEN QueuesInv ELSE PipesInv

(* What is told was given to the requests of the batch.                    *)
LEMMA AllowedIs ==
  ASSUME IInv, granted \in Nat
  PROVE  /\ Told(0) \in Nat /\ Allowed \in Nat /\ granted <= Allowed
         /\ kind # "batch" => Allowed = granted
         /\ kind = "batch" => Allowed = granted + Told(0)
<1>1. 0 \in Shards
  BY SharesAre
<1> DEFINE b == batch[0]
           v == verdict[0]
           n == Len(v)
           f == Given(b, v)
<1>2. b \in Seq(Item) /\ n \in Nat
  BY <1>1 DEF IInv, TypeInv, BatchTypeOK
<1>3. CASE stage[0] = "write"
  <2>1. n <= Len(b) /\ Len(b) \in Nat
    <3>1. pipe[0] \in Seq(Command)
      BY <1>1 DEF IInv, TypeInv, BatchTypeOK
    <3>2. Len(pipe[0]) \in Nat
      BY <3>1
    <3>3. Len(v) + Len(pipe[0]) = Len(b) \/ Len(v) = Len(b)
      BY <1>1, <1>3 DEF IInv, ShardInv, ShardExact
    <3> DEFINE k == Len(b)
               m == Len(pipe[0])
    <3>4. n + m = k \/ n = k
      BY <3>3
    <3>5. k \in Nat /\ m \in Nat
      BY <1>2, <3>2
    <3> HIDE DEF n, k, m
    <3>6. n <= k
      BY <1>2, <3>4, <3>5
    <3> QED BY <3>5, <3>6 DEF k
  <2>2. \A i \in 1 .. Len(b) : f[i] \in Nat
    BY <1>2, GivenNat
  <2>3. \A i \in 1 .. n : f[i] \in Int /\ 0 <= f[i]
    BY <1>2, <2>1, <2>2
  <2>4. Told(0) = SumTo(f, n)
    BY <1>3 DEF Told
  <2> HIDE DEF f, n
  <2>5. SumTo(f, n) \in Int /\ 0 <= SumTo(f, n)
    BY <1>2, <2>3, SumNat
  <2>6. Told(0) \in Nat
    BY <2>4, <2>5
  <2> QED BY <2>6 DEF Allowed
<1>4. CASE stage[0] # "write"
  <2>1. Told(0) = 0
    BY <1>4 DEF Told
  <2> QED BY <2>1 DEF Allowed
<1> QED BY <1>3, <1>4

(* What is covered is within the limit.                                    *)
LEMMA LimitHolds == IInv /\ LimitInv => WithinLimit
<1> SUFFICES ASSUME IInv, LimitInv, ~(kind = "batch" /\ version # "v2") PROVE WithinLimit
  BY PipesLimit DEF IInv, LimitInv
<1>1. /\ granted \in Nat /\ upsets \in Nat /\ clock \in Nat /\ Burst \in Nat
      /\ TicksPerToken \in Nat /\ hash \in Hashes
  BY RedisBucketAssumption DEF LimitInv, QueuesInv, IInv, TypeInv, BucketTypeOK
<1> DEFINE x == Burst * (1 + upsets)
           q == clock \div TicksPerToken
           u == Burst * upsets
<1>2. x \in Int /\ u \in Int /\ u + Burst = x /\ u <= x /\ q \in Int
  BY <1>1, RedisBucketAssumption
<1>3. ASSUME NEW y \in Int, NEW l \in Int, y <= x, l <= clock,
             TicksPerToken * granted <= TicksPerToken * y + l
      PROVE  granted <= x + q
  <2>1. granted <= y + q
    BY <1>1, <1>3, WholeTokens
  <2> HIDE DEF x, q
  <2> QED BY <1>1, <1>2, <1>3, <2>1
<1>4. granted <= x + q
  <2> HIDE DEF x, q
  <2>1. CASE kind = "direct"
    <3>1. Covered(hash, clock)
      BY <2>1 DEF LimitInv, DirectInv
    <3>2. CASE "tokens" \in DOMAIN hash
      <4> DEFINE k == hash["tokens"]
                 l == hash["last_ns"]
                 y == u - k
      <4>1. /\ k \in Int /\ l \in Int /\ l <= clock /\ k >= -Burst
            /\ TicksPerToken * (granted + k) <= TicksPerToken * u + l
        BY <1>1, <3>1, <3>2, HashGet DEF Covered
      <4> HIDE DEF k, l, u
      <4>2. y \in Int /\ y <= x
        BY <1>1, <1>2, <4>1
      <4>3. TicksPerToken * granted <= TicksPerToken * y + l
        BY <1>1, <1>2, <4>1
      <4> HIDE DEF y
      <4> QED BY <1>3, <4>1, <4>2, <4>3
    <3>3. CASE "tokens" \notin DOMAIN hash
      <4>1. TicksPerToken * granted <= TicksPerToken * u + clock
        BY <3>1, <3>3 DEF Covered
      <4> HIDE DEF u
      <4> QED BY <1>1, <1>2, <1>3, <4>1
    <3> QED BY <3>2, <3>3
  <2>2. CASE kind # "direct"
    <3>1. ScriptInv
      BY <2>2 DEF LimitInv, QueuesInv
    <3> DEFINE A == Allowed
    <3>2. TicksPerToken * granted <= TicksPerToken * A /\ TicksPerToken * A \in Int
          /\ TicksPerToken * granted \in Int
      <4>1. A \in Nat /\ granted <= A
        BY <1>1, AllowedIs
      <4> DEFINE d == A - granted
      <4>2. d \in Nat /\ A = granted + d
        BY <1>1, <4>1
      <4> HIDE DEF A, d
      <4>3. TicksPerToken * A = TicksPerToken * granted + TicksPerToken * d
        BY <1>1, <4>2
      <4>4. TicksPerToken * d \in Nat /\ TicksPerToken * granted \in Int
        BY <1>1, <4>2
      <4> QED BY <4>3, <4>4
    <3>3. CASE "current" \in DOMAIN hash
      <4> DEFINE k == hash["current"]
                 l == hash["last_ns"]
                 y == k + u
      <4>1. /\ k \in 0 .. Burst /\ l \in Int /\ l <= clock
            /\ TicksPerToken * A <= TicksPerToken * y + l
        BY <1>1, <3>1, <3>3, HashGet DEF ScriptInv
      <4> HIDE DEF k, l, u
      <4>2. y \in Int /\ y <= x
        BY <1>1, <1>2, <4>1
      <4> HIDE DEF y
      <4>3. TicksPerToken * y \in Int
        BY <1>1, <4>2
      <4>4. TicksPerToken * granted <= TicksPerToken * y + l
        <5> DEFINE r == TicksPerToken * granted
                   q2 == TicksPerToken * A
                   z == TicksPerToken * y
        <5>1. r <= q2 /\ r \in Int /\ q2 \in Int /\ z \in Int /\ q2 <= z + l
          BY <3>2, <4>1, <4>3
        <5> HIDE DEF r, q2, z
        <5>2. r <= z + l
          BY <4>1, <5>1
        <5> QED BY <5>2 DEF r, z
      <4> QED BY <1>3, <4>1, <4>2, <4>4
    <3>4. CASE "current" \notin DOMAIN hash
      <4>1. TicksPerToken * A <= TicksPerToken * u + clock
        BY <3>1, <3>4 DEF ScriptInv
      <4> HIDE DEF u
      <4>2. TicksPerToken * granted <= TicksPerToken * u + clock
        <5> DEFINE r == TicksPerToken * granted
                   q2 == TicksPerToken * A
                   z == TicksPerToken * u
        <5>1. r <= q2 /\ r \in Int /\ q2 \in Int /\ z \in Int /\ q2 <= z + clock
          BY <1>1, <1>2, <3>2, <4>1
        <5> HIDE DEF r, q2, z
        <5>2. r <= z + clock
          BY <1>1, <5>1
        <5> QED BY <5>2 DEF r, z
      <4> QED BY <1>1, <1>2, <1>3, <4>2
    <3> QED BY <3>3, <3>4
  <2> QED BY <2>1, <2>2
<1>5. Shares = 1
  BY DEF Shares
<1>6. Fillings = 1 /\ Refills = 1
  BY <1>5 DEF Fillings, Refills
<1>7. Fillings * Burst * (1 + upsets) = x /\ (Refills * clock) \div TicksPerToken = q
  BY <1>1, <1>6
<1> HIDE DEF x, q
<1> QED BY <1>4, <1>7 DEF WithinLimit

(* Nothing is granted yet.                                                 *)
LEMMA LimitInit == Init => LimitInv
<1> SUFFICES ASSUME Init PROVE LimitInv
  OBVIOUS
<1>1. /\ granted = 0 /\ upsets = 0 /\ clock = 0 /\ DOMAIN hash = {}
      /\ watching = {} /\ dirty = {} /\ kind \in {"direct", "script", "batch"}
      /\ \A s \in Shards : stage[s] = "idle" /\ queue[s] = <<>>
  BY RedisLimitersAssumption DEF Init, BucketInit, BatchInit, DirectInit, NoHash
<1>2. TicksPerToken * 0 <= TicksPerToken * (Burst * 0) + 0
  BY RedisBucketAssumption
<1>3. Allowed = 0
  <2>1. Told(0) = 0
    BY <1>1, SharesAre DEF Told
  <2> QED BY <1>1, <2>1 DEF Allowed
<1>4. Covered(hash, clock) /\ ScriptInv
  BY <1>1, <1>2, <1>3 DEF Covered, ScriptInv
<1>5. \A s \in Shards : QueueOK(s)
  BY <1>1 DEF QueueOK, Spare
<1>6. QueuesInv /\ PipesInv
  BY <1>1, <1>4, <1>5, PipesInit DEF QueuesInv
<1> QED BY <1>1, <1>4, <1>6 DEF LimitInv, DirectInv

(* What was covered stays so.                                              *)
LEMMA CoveredLater ==
  ASSUME NEW h \in Hashes, NEW t \in Int, NEW t2 \in Int, t <= t2,
         granted \in Nat, upsets \in Nat, Covered(h, t)
  PROVE  Covered(h, t2)
<1>1. TicksPerToken * granted \in Int /\ TicksPerToken * (Burst * upsets) \in Int
  BY RedisBucketAssumption
<1>2. CASE "tokens" \in DOMAIN h
  <2>1. "last_ns" \in DOMAIN h => h["last_ns"] \in Int
    BY HashGet
  <2> QED BY <1>2, <2>1 DEF Covered
<1>3. CASE "tokens" \notin DOMAIN h
  <2> DEFINE a == TicksPerToken * granted
             b == TicksPerToken * (Burst * upsets)
  <2>1. "last_ns" \notin DOMAIN h /\ a <= b + t
    BY <1>3 DEF Covered
  <2>2. a \in Int /\ b \in Int
    BY <1>1
  <2>3. a <= b + t2
    <3> HIDE DEF a, b
    <3> QED BY <2>1, <2>2
  <2> QED BY <1>3, <2>1, <2>3 DEF Covered
<1> QED BY <1>2, <1>3

(* A hash that is gone leaves nothing that was not covered by one more     *)
(* capacity.                                                               *)
LEMMA Gone ==
  ASSUME NEW g \in Nat, NEW m \in Nat, NEW k \in Int, NEW l \in Int,
         NEW t \in Int, l <= t, k >= -Burst,
         TicksPerToken * (g + k) <= TicksPerToken * (Burst * m) + l
  PROVE  TicksPerToken * g <= TicksPerToken * (Burst * (m + 1)) + t
<1>1. TicksPerToken \in Nat /\ Burst \in Nat
  BY RedisBucketAssumption
<1>2. PICK d \in Nat : k = d - Burst
  <2>1. k + Burst \in Nat /\ k = (k + Burst) - Burst
    BY <1>1
  <2> QED BY <2>1
<1> DEFINE u == Burst * m
<1>3. u \in Int /\ Burst * (m + 1) = u + Burst
  BY <1>1
<1> HIDE DEF u
<1>4. TicksPerToken * (g + k) = TicksPerToken * g + TicksPerToken * d - TicksPerToken * Burst
  BY <1>1, <1>2
<1>5. TicksPerToken * (u + Burst) = TicksPerToken * u + TicksPerToken * Burst
  BY <1>1, <1>3
<1>6. /\ TicksPerToken * d \in Nat /\ TicksPerToken * g \in Int
      /\ TicksPerToken * u \in Int /\ TicksPerToken * Burst \in Int
  BY <1>1, <1>3
<1>7. TicksPerToken * (g + k) <= TicksPerToken * u + l
  BY DEF u
<1> QED BY <1>3, <1>4, <1>5, <1>6, <1>7

(* Neither does one that counts a level, of at most the capacity.          *)
LEMMA Drained ==
  ASSUME NEW g \in Nat, NEW m \in Nat, NEW k \in 0 .. Burst, NEW l \in Int,
         NEW t \in Int, l <= t,
         TicksPerToken * g <= TicksPerToken * (k + Burst * m) + l
  PROVE  TicksPerToken * g <= TicksPerToken * (Burst * (m + 1)) + t
<1>1. TicksPerToken \in Nat /\ Burst \in Nat /\ Burst * m \in Int /\ k \in Int
  BY RedisBucketAssumption
<1> DEFINE u == Burst * m
<1>2. u \in Int /\ Burst * (m + 1) = u + Burst
  BY <1>1
<1>3. TicksPerToken * g <= TicksPerToken * (k + u) + l
  OBVIOUS
<1> HIDE DEF u
<1>4. TicksPerToken * (g + (-k)) <= TicksPerToken * u + l
  <2>1. /\ TicksPerToken * (g + (-k)) = TicksPerToken * g - TicksPerToken * k
        /\ TicksPerToken * (k + u) = TicksPerToken * k + TicksPerToken * u
    BY <1>1, <1>2
  <2>2. /\ TicksPerToken * g \in Int /\ TicksPerToken * k \in Int
        /\ TicksPerToken * u \in Int
    BY <1>1, <1>2
  <2> QED BY <1>3, <2>1, <2>2
<1>5. -k \in Int /\ -k >= -Burst
  BY <1>1
<1> QED BY <1>4, <1>5, Gone DEF u

(* What a caller whose transaction Redis will execute has computed.        *)
LEMMA Decided ==
  ASSUME TypeInv, DirectInv, NEW c \in watching \ dirty
  PROVE  /\ c \in Callers /\ ask[c] \in 1 .. Burst /\ now[c] \in Nat /\ now[c] <= clock
         /\ Due(c) \in Nat /\ Held(c) \in Int /\ Stamp(c) \in Int /\ Stamp(c) <= now[c]
         /\ "tokens" \in DOMAIN hash =>
              /\ "last_ns" \in DOMAIN hash /\ hash["last_ns"] \in Int
              /\ hash["tokens"] \in Int /\ hash["tokens"] >= -Burst
              /\ hash["last_ns"] + TicksPerToken * Due(c) <= Stamp(c)
              /\ Held(c) <= hash["tokens"] + Due(c) /\ Held(c) >= -Burst
              /\ Due(c) = 0 => Stamp(c) = hash["last_ns"]
         /\ "tokens" \notin DOMAIN hash =>
              /\ "last_ns" \notin DOMAIN hash
              /\ Due(c) = 0 /\ Held(c) = Burst /\ Stamp(c) = now[c]
<1>1. /\ c \in Callers /\ ask[c] \in 1 .. Burst /\ now[c] \in Nat /\ now[c] <= clock
      /\ seen[c] = hash /\ Covered(hash, now[c])
  BY DEF DirectInv, TypeInv, DirectTypeOK
<1>2. hash \in Hashes /\ Burst \in Nat /\ TicksPerToken \in Nat
  BY RedisBucketAssumption DEF TypeInv, BucketTypeOK
<1>3. Due(c) \in Int /\ Held(c) \in Int /\ Stamp(c) \in Int
  BY <1>1, DirectIs DEF TypeInv
<1>4. CASE "tokens" \in DOMAIN hash
  <2> DEFINE k == hash["tokens"]
             l == hash["last_ns"]
  <2>1. /\ "last_ns" \in DOMAIN hash /\ k \in Int /\ l \in Int
        /\ k >= -Burst /\ l <= now[c]
    BY <1>1, <1>2, <1>4, HashGet DEF Covered
  <2>2. Read(c, "last_ns", now[c]) = l /\ Read(c, "tokens", Burst) = k
    BY <1>1, <1>4, <2>1 DEF Read
  <2> HIDE DEF k, l
  <2>3. LastNS(c) = l
    BY <1>1, <2>1, <2>2 DEF LastNS, AtMost
  <2>4. Due(c) \in Nat /\ TicksPerToken * Due(c) <= now[c] - l
    <3>1. CASE now[c] <= l
      <4>1. Due(c) = 0 /\ TicksPerToken * 0 = 0 /\ now[c] = l
        BY <1>1, <1>2, <2>1, <2>3, <3>1 DEF Due, Refill
      <4> QED BY <1>1, <1>2, <2>1, <4>1
    <3>2. CASE ~(now[c] <= l)
      <4>1. Due(c) = (now[c] - l) \div TicksPerToken
        BY <2>3, <3>2 DEF Due, Refill
      <4> QED BY <1>1, <2>1, <4>1, RefillBound
    <3> QED BY <3>1, <3>2
  <2>5. /\ Held(c) <= k + Due(c) /\ Held(c) >= -Burst
    BY <1>2, <2>1, <2>2, <2>4 DEF Held, AtMost
  <2>6. Stamp(c) = IF Due(c) > 0 THEN now[c] ELSE l
    BY <1>1, <1>4, <2>3, <2>4 DEF Stamp
  <2>7. l + TicksPerToken * Due(c) <= Stamp(c) /\ Stamp(c) <= now[c]
    <3>1. CASE Due(c) > 0
      <4>1. TicksPerToken * Due(c) \in Int
        BY <1>2, <1>3
      <4> QED BY <1>1, <2>1, <2>4, <2>6, <3>1, <4>1
    <3>2. CASE Due(c) = 0
      <4>1. TicksPerToken * Due(c) = 0
        BY <1>2, <3>2
      <4> QED BY <1>1, <2>1, <2>6, <3>2, <4>1
    <3> QED BY <2>4, <3>1, <3>2
  <2>8. Due(c) = 0 => Stamp(c) = l
    BY <2>6
  <2> QED BY <1>1, <1>3, <1>4, <2>1, <2>4, <2>5, <2>7, <2>8 DEF k, l
<1>5. CASE "tokens" \notin DOMAIN hash
  <2>1. "last_ns" \notin DOMAIN hash
    BY <1>1, <1>5 DEF Covered
  <2>2. Read(c, "last_ns", now[c]) = now[c] /\ Read(c, "tokens", Burst) = Burst
    BY <1>1, <1>5, <2>1 DEF Read
  <2>3. LastNS(c) = now[c]
    BY <1>1, <2>2 DEF LastNS, AtMost
  <2>4. Due(c) = 0
    BY <1>1, <2>3 DEF Due, Refill
  <2>5. Held(c) = Burst /\ Stamp(c) = now[c]
    BY <1>1, <1>5, <2>2, <2>4 DEF Held, Stamp
  <2> QED BY <1>1, <1>3, <1>5, <2>1, <2>4, <2>5
<1> QED BY <1>4, <1>5

(* A transaction leaves a hash that its caller's clock covers.             *)
LEMMA AllowCovered ==
  ASSUME TypeInv, DirectInv, granted \in Nat, upsets \in Nat,
         NEW c \in watching, DirectAllow(c)
  PROVE  Covered(hash, clock)'
<1>1. c \in watching \ dirty /\ Held(c) >= ask[c]
  BY DEF DirectAllow
<1>2. /\ ask[c] \in 1 .. Burst /\ now[c] \in Nat /\ now[c] <= clock
      /\ Due(c) \in Nat /\ Held(c) \in Int /\ Stamp(c) \in Int /\ Stamp(c) <= now[c]
  BY <1>1, Decided
<1> DEFINE d == Due(c) - ask[c]
           k == IF "tokens" \in DOMAIN hash THEN hash["tokens"] + d ELSE d
           m == TicksPerToken * (Burst * upsets)
<1>3. hash \in Hashes /\ k \in Int
  BY <1>2, HashGet DEF TypeInv, BucketTypeOK
<1>4. hash' = HSet(HSet(hash, "tokens", k), "last_ns", Stamp(c))
  BY DEF DirectAllow, HIncrBy
<1>5. "tokens" \in Fields \ {"last_ns"}
  BY DEF Fields
<1>6. /\ "tokens" \in DOMAIN hash' /\ "last_ns" \in DOMAIN hash'
      /\ hash'["tokens"] = k /\ hash'["last_ns"] = Stamp(c)
  <2> HIDE DEF k
  <2> QED BY <1>2, <1>3, <1>4, <1>5, SetBoth
<1>7. granted' = granted + ask[c] /\ clock' = clock /\ upsets' = upsets
  BY DEF DirectAllow
<1>8. m \in Int /\ Burst \in Nat /\ TicksPerToken \in Nat /\ clock \in Nat
  BY RedisBucketAssumption DEF TypeInv, BucketTypeOK
<1>9. k \in Int /\ k >= -Burst /\ TicksPerToken * (granted + ask[c] + k) <= m + Stamp(c)
  <2>1. Covered(hash, now[c])
    BY <1>1 DEF DirectInv
  <2>2. CASE "tokens" \in DOMAIN hash
    <3> DEFINE t == hash["tokens"]
               l == hash["last_ns"]
    <3>1. /\ t \in Int /\ l \in Int /\ l + TicksPerToken * Due(c) <= Stamp(c)
          /\ Held(c) <= t + Due(c) /\ TicksPerToken * (granted + t) <= m + l
      BY <1>1, <2>1, <2>2, Decided DEF Covered
    <3>2. k = t + Due(c) - ask[c]
      BY <2>2
    <3> HIDE DEF t, l, k, m
    <3>3. k \in Int /\ k >= 0 /\ granted + ask[c] + k = (granted + t) + Due(c)
      BY <1>1, <1>2, <1>8, <3>1, <3>2
    <3>4. TicksPerToken * ((granted + t) + Due(c))
            = TicksPerToken * (granted + t) + TicksPerToken * Due(c)
      BY <1>2, <1>8, <3>1
    <3>5. TicksPerToken * (granted + t) \in Int /\ TicksPerToken * Due(c) \in Int
      BY <1>2, <1>8, <3>1
    <3>6. TicksPerToken * (granted + ask[c] + k) <= m + Stamp(c)
      BY <1>2, <1>8, <3>1, <3>3, <3>4, <3>5
    <3> QED BY <1>8, <3>3, <3>6
  <2>3. CASE "tokens" \notin DOMAIN hash
    <3>1. Due(c) = 0 /\ Stamp(c) = now[c] /\ TicksPerToken * granted <= m + now[c]
      BY <1>1, <2>1, <2>3, Decided DEF Covered
    <3>2. k = -ask[c] /\ granted + ask[c] + k = granted
      BY <1>2, <2>3, <3>1
    <3> HIDE DEF k, m
    <3>3. k \in Int /\ k >= -Burst
      BY <1>2, <1>8, <3>2
    <3> QED BY <3>1, <3>2, <3>3
  <2> QED BY <2>2, <2>3
<1>10. Stamp(c) <= clock
  BY <1>2, <1>8
<1> HIDE DEF k
<1> QED BY <1>6, <1>7, <1>9, <1>10 DEF Covered

(* So does one that refuses, and writes back what was refilled.            *)
LEMMA DenyCovered ==
  ASSUME TypeInv, DirectInv, granted \in Nat, upsets \in Nat,
         NEW c \in watching, DirectDeny(c)
  PROVE  Covered(hash, clock)'
<1>1. c \in watching \ dirty
  BY DEF DirectDeny
<1>2. /\ now[c] \in Nat /\ now[c] <= clock
      /\ Due(c) \in Nat /\ Held(c) \in Int /\ Stamp(c) \in Int /\ Stamp(c) <= now[c]
  BY <1>1, Decided
<1>3. hash \in Hashes /\ clock \in Nat
  BY DEF TypeInv, BucketTypeOK
<1>4. granted' = granted /\ clock' = clock /\ upsets' = upsets
  BY DEF DirectDeny
<1>5. CASE ~(Due(c) > 0)
  <2>1. hash' = hash /\ Covered(hash, clock)
    BY <1>5 DEF DirectDeny, DirectInv
  <2> QED BY <1>4, <2>1 DEF Covered
<1>6. CASE Due(c) > 0
  <2> DEFINE t == hash["tokens"]
             l == hash["last_ns"]
             m == TicksPerToken * (Burst * upsets)
  <2>1. hash' = HSet(HSet(hash, "tokens", Held(c)), "last_ns", Stamp(c))
    BY <1>6 DEF DirectDeny
  <2>2. "tokens" \in Fields \ {"last_ns"}
    BY DEF Fields
  <2>3. /\ "tokens" \in DOMAIN hash' /\ "last_ns" \in DOMAIN hash'
        /\ hash'["tokens"] = Held(c) /\ hash'["last_ns"] = Stamp(c)
    BY <1>2, <1>3, <2>1, <2>2, SetBoth
  <2>4. "tokens" \in DOMAIN hash
    BY <1>1, <1>2, <1>6, Decided
  <2>5. /\ t \in Int /\ l \in Int /\ l + TicksPerToken * Due(c) <= Stamp(c)
        /\ Held(c) <= t + Due(c) /\ Held(c) >= -Burst /\ TicksPerToken * (granted + t) <= m + l
    BY <1>1, <2>4, Decided DEF Covered, DirectInv
  <2>6. m \in Int /\ TicksPerToken \in Nat
    BY RedisBucketAssumption
  <2> HIDE DEF t, l, m
  <2>7. PICK e \in Nat : Held(c) = t + Due(c) - e
    <3>1. /\ t + Due(c) - Held(c) \in Nat
          /\ Held(c) = t + Due(c) - (t + Due(c) - Held(c))
      BY <1>2, <2>5
    <3> QED BY <3>1
  <2>8. TicksPerToken * (granted + (t + Due(c) - e))
          = TicksPerToken * (granted + t) + TicksPerToken * Due(c) - TicksPerToken * e
    BY <1>2, <2>5, <2>6
  <2>9. /\ TicksPerToken * (granted + t) \in Int /\ TicksPerToken * Due(c) \in Int
        /\ TicksPerToken * e \in Nat
    BY <1>2, <2>5, <2>6
  <2>10. TicksPerToken * (granted + Held(c)) <= m + Stamp(c)
    BY <1>2, <2>5, <2>6, <2>7, <2>8, <2>9
  <2>11. Stamp(c) <= clock
    BY <1>2, <1>3
  <2> QED BY <1>4, <2>3, <2>5, <2>10, <2>11 DEF m, Covered
<1> QED BY <1>5, <1>6

(* A request answered, or given up, leaves the others as they were, or     *)
(* refused.                                                                *)
LEMMA DirectLimit ==
  ASSUME TypeInv, DirectInv, granted \in Nat, upsets \in Nat, DirectNext
  PROVE  DirectInv' /\ granted' \in Nat /\ upsets' \in Nat
<1>1. PICK c \in Callers :
        \/ \E n \in 1 .. Burst : DirectBegin(c, n)
        \/ DirectAllow(c) \/ DirectDeny(c) \/ DirectConflict(c) \/ DirectError(c)
  BY DEF DirectNext
<1>2. /\ Covered(hash, clock) /\ dirty \subseteq watching /\ watching \subseteq Callers
      /\ \A d \in watching : ask[d] \in 1 .. Burst /\ now[d] <= clock
      /\ \A d \in watching \ dirty : seen[d] = hash /\ Covered(hash, now[d])
  BY DEF DirectInv
<1>3. /\ hash \in Hashes /\ clock \in Nat /\ ask \in [Callers -> Int]
      /\ now \in [Callers -> Nat] /\ seen \in [Callers -> Hashes]
  BY DEF TypeInv, BucketTypeOK, DirectTypeOK
<1>4. ASSUME NEW d \in Callers, d # c, Return(c) \/ Look(c)
      PROVE  now'[d] = now[d] /\ seen'[d] = seen[d]
  BY <1>3, <1>4 DEF Return, Look
<1>5. ASSUME NEW d \in Callers, d # c, Return(c) PROVE ask'[d] = ask[d]
  BY <1>3, <1>5 DEF Return
<1>6. ASSUME UNCHANGED bucketVars
      PROVE  /\ hash' = hash /\ clock' = clock /\ granted' \in Nat /\ upsets' \in Nat
             /\ \A h, t : Covered(h, t) => Covered(h, t)'
  BY <1>6 DEF bucketVars, Covered
<1>7. ASSUME Return(c), Written(c), Covered(hash, clock)', clock' = clock PROVE DirectInv'
  <2>1. watching' \ dirty' = {} /\ dirty' \subseteq watching' /\ watching' \subseteq Callers
    BY <1>2, <1>7 DEF Return, Written
  <2>2. \A d \in watching' : d \in watching /\ d # c /\ d \in Callers
    BY <1>2, <1>7 DEF Return
  <2>3. \A d \in watching' : ask'[d] \in 1 .. Burst /\ now'[d] <= clock'
    BY <1>2, <1>4, <1>5, <1>7, <2>2
  <2> QED BY <1>7, <2>1, <2>3 DEF DirectInv

<1>8. ASSUME UNCHANGED bucketVars, Return(c), dirty' = dirty \ {c}
      PROVE  DirectInv' /\ granted' \in Nat /\ upsets' \in Nat
  <2>1. /\ dirty' \subseteq watching' /\ watching' \subseteq Callers
        /\ \A d \in watching' : d \in watching /\ d # c /\ d \in Callers
        /\ \A d \in watching' \ dirty' : d \in watching \ dirty
    BY <1>2, <1>8 DEF Return
  <2>2. \A d \in watching' : ask'[d] \in 1 .. Burst /\ now'[d] <= clock'
    BY <1>2, <1>4, <1>5, <1>6, <1>8, <2>1
  <2>3. \A d \in watching' \ dirty' : seen'[d] = hash' /\ Covered(hash, now[d])'
    <3> SUFFICES ASSUME NEW d \in watching' \ dirty'
                 PROVE  seen'[d] = hash' /\ Covered(hash, now[d])'
      OBVIOUS
    <3>1. seen'[d] = hash' /\ hash' = hash /\ now'[d] = now[d] /\ Covered(hash, now[d])
      BY <1>2, <1>4, <1>6, <1>8, <2>1
    <3> QED BY <1>8, <3>1 DEF bucketVars, Covered
  <2>4. Covered(hash, clock)'
    BY <1>2, <1>8 DEF bucketVars, Covered
  <2> QED BY <1>6, <1>8, <2>1, <2>2, <2>3, <2>4 DEF DirectInv
<1>9. ASSUME UNCHANGED bucketVars, Look(c), watching' = watching \cup {c},
             dirty' = dirty \ {c}, ask'[c] \in 1 .. Burst,
             \A d \in Callers : d # c => ask'[d] = ask[d]
      PROVE  DirectInv' /\ granted' \in Nat /\ upsets' \in Nat
  <2>1. now'[c] = clock /\ seen'[c] = hash
    BY <1>3, <1>9 DEF Look
  <2>2. /\ dirty' \subseteq watching' /\ watching' \subseteq Callers
        /\ \A d \in watching' : d # c => d \in watching /\ d \in Callers
        /\ \A d \in watching' \ dirty' : d # c => d \in watching \ dirty
    BY <1>2, <1>9
  <2>3. \A d \in watching' : ask'[d] \in 1 .. Burst /\ now'[d] <= clock'
    BY <1>2, <1>3, <1>4, <1>6, <1>9, <2>1, <2>2
  <2>4. Covered(hash, clock)'
    BY <1>2, <1>9 DEF bucketVars, Covered
  <2>5. \A d \in watching' \ dirty' : seen'[d] = hash' /\ Covered(hash, now[d])'
    <3> SUFFICES ASSUME NEW d \in watching' \ dirty'
                 PROVE  seen'[d] = hash' /\ Covered(hash, now[d])'
      OBVIOUS
    <3>1. CASE d = c
      BY <1>2, <1>9, <2>1, <3>1 DEF bucketVars, Covered
    <3>2. CASE d # c
      <4>1. seen'[d] = hash' /\ hash' = hash /\ now'[d] = now[d] /\ Covered(hash, now[d])
        BY <1>2, <1>4, <1>6, <1>9, <2>2, <3>2
      <4> QED BY <1>9, <4>1 DEF bucketVars, Covered
    <3> QED BY <3>1, <3>2
  <2> QED BY <1>6, <1>9, <2>2, <2>3, <2>4, <2>5 DEF DirectInv
<1>10. ASSUME NEW n \in 1 .. Burst, DirectBegin(c, n)
       PROVE  DirectInv' /\ granted' \in Nat /\ upsets' \in Nat
  <2>1. /\ dirty' = dirty \ {c} /\ ask'[c] = n
        /\ \A d \in Callers : d # c => ask'[d] = ask[d]
    BY <1>2, <1>3, <1>10 DEF DirectBegin
  <2> QED BY <1>9, <1>10, <2>1 DEF DirectBegin
<1>11. CASE DirectAllow(c)
  <2>1. c \in watching /\ ask[c] \in 1 .. Burst /\ Covered(hash, clock)'
    BY <1>2, <1>11, AllowCovered DEF DirectAllow
  <2>2. granted' \in Nat /\ upsets' \in Nat
    BY <1>11, <2>1 DEF DirectAllow
  <2> QED BY <1>7, <1>11, <2>1, <2>2 DEF DirectAllow
<1>12. CASE DirectDeny(c)
  <2>1. c \in watching /\ Covered(hash, clock)'
    BY <1>12, DenyCovered DEF DirectDeny
  <2> QED BY <1>7, <1>12, <2>1 DEF DirectDeny
<1>13. CASE DirectConflict(c)
  <2>1. CASE Return(c)
    BY <1>8, <1>13, <2>1 DEF DirectConflict
  <2>2. CASE Look(c) /\ UNCHANGED <<watching, ask>>
    <3>1. watching' = watching \cup {c} /\ ask'[c] \in 1 .. Burst
      BY <1>2, <1>13, <2>2 DEF DirectConflict
    <3> QED BY <1>9, <1>13, <2>2, <3>1 DEF DirectConflict
  <2> QED BY <1>13, <2>1, <2>2 DEF DirectConflict
<1>14. CASE DirectError(c)
  BY <1>8, <1>14 DEF DirectError
<1> QED BY <1>1, <1>10, <1>11, <1>12, <1>13, <1>14

(* A script takes from what has leaked, and moves last_ns by as much.      *)
LEMMA ScriptLimit ==
  ASSUME TypeInv, ScriptInv, Allowed \in Nat, upsets \in Nat,
         NEW n \in 1 .. Burst, hash' = ScriptHash(n), clock' = clock, upsets' = upsets,
         Allowed' = Allowed + (IF ScriptAllows(n) THEN n ELSE 0)
  PROVE  ScriptInv'
<1> DEFINE l == ScriptLast
           e == ScriptLeaked
           v == ScriptLevel
           m == TicksPerToken * (Burst * upsets)
           k == HGet("current", 0)
           w == IF ScriptAllows(n) THEN v + n ELSE v
           g == IF ScriptAllows(n) THEN n ELSE 0
<1>1. /\ hash \in Hashes /\ clock \in Nat /\ Burst \in Nat /\ TicksPerToken \in Nat
      /\ m \in Int /\ Burst * upsets \in Int
  BY RedisBucketAssumption DEF TypeInv, BucketTypeOK
<1>2. /\ l \in Int /\ l <= clock /\ k \in 0 .. Burst
      /\ TicksPerToken * Allowed <= TicksPerToken * (k + Burst * upsets) + l
  <2>1. CASE "current" \in DOMAIN hash
    <3>1. /\ "last_ns" \in DOMAIN hash /\ hash["last_ns"] \in Int /\ hash["last_ns"] <= clock
          /\ l = hash["last_ns"] /\ k = hash["current"]
      BY <1>1, <2>1, HashGet DEF ScriptInv, ScriptLast, AtMost, HGet
    <3> QED BY <2>1, <3>1 DEF ScriptInv
  <2>2. CASE "current" \notin DOMAIN hash
    <3>1. l = clock /\ k = 0 /\ TicksPerToken * Allowed <= m + clock
      BY <1>1, <2>2 DEF ScriptInv, ScriptLast, AtMost, HGet
    <3>2. k + Burst * upsets = Burst * upsets
      BY <1>1, <3>1
    <3> QED BY <1>1, <3>1, <3>2
  <2> QED BY <2>1, <2>2
<1>3. e \in Nat /\ TicksPerToken * e <= clock - l
  <2>1. e = (clock - l) \div TicksPerToken
    BY DEF ScriptLeaked
  <2>2. clock \in Int /\ l \in Int /\ l <= clock
    BY <1>1, <1>2
  <2> HIDE DEF e, l
  <2>3. /\ (clock - l) \div TicksPerToken \in Nat
        /\ TicksPerToken * ((clock - l) \div TicksPerToken) <= clock - l
    BY <2>2, RefillBound
  <2> QED BY <2>1, <2>3, Zenon
<1>4. v \in 0 .. Burst /\ k <= v + e
  <2>1. v = IF k > e THEN k - e ELSE 0
    BY DEF ScriptLevel
  <2> HIDE DEF v, k, e
  <2> QED BY <1>1, <1>2, <1>3, <2>1
<1>5. w \in 0 .. Burst /\ g \in Nat /\ w = v + g
  BY <1>1, <1>4 DEF ScriptAllows
<1>6. /\ hash' = HSet(HSet(hash, "current", w), "last_ns", l + e * TicksPerToken)
      /\ Allowed' = Allowed + g /\ clock' = clock /\ upsets' = upsets
  BY DEF ScriptHash
<1> HIDE DEF l, e, v, k, w, g
<1>7. e * TicksPerToken = TicksPerToken * e /\ TicksPerToken * e \in Nat
  BY <1>1, <1>3
<1>8. "current" \in Fields \ {"last_ns"} /\ w \in Int /\ l + e * TicksPerToken \in Int
  BY <1>2, <1>5, <1>7 DEF Fields
<1>9. /\ "current" \in DOMAIN hash' /\ "last_ns" \in DOMAIN hash'
      /\ hash'["current"] = w /\ hash'["last_ns"] = l + TicksPerToken * e
  BY <1>1, <1>6, <1>7, <1>8, SetBoth
<1>10. l + TicksPerToken * e <= clock
  BY <1>1, <1>2, <1>3, <1>7
<1>11. TicksPerToken * (Allowed + g)
         <= TicksPerToken * (w + Burst * upsets) + (l + TicksPerToken * e)
  <2> DEFINE u == Burst * upsets
  <2>1. u \in Int /\ TicksPerToken * Allowed <= TicksPerToken * (k + u) + l
    BY <1>1, <1>2
  <2> HIDE DEF u
  <2>2. PICK d \in Nat : d = v + e - k
    BY <1>2, <1>3, <1>4
  <2>3. w + u = (k + u) + g + d - e
    BY <1>2, <1>3, <1>4, <1>5, <2>1, <2>2
  <2>4. TicksPerToken * ((k + u) + g + d - e)
          = TicksPerToken * (k + u) + TicksPerToken * g + TicksPerToken * d - TicksPerToken * e
    BY <1>1, <1>2, <1>3, <1>5, <2>1, <2>2
  <2>5. TicksPerToken * (Allowed + g) = TicksPerToken * Allowed + TicksPerToken * g
    BY <1>1, <1>5
  <2>6. /\ TicksPerToken * (k + u) \in Int /\ TicksPerToken * g \in Int
        /\ TicksPerToken * d \in Nat /\ TicksPerToken * Allowed \in Int
    BY <1>1, <1>2, <1>5, <2>1, <2>2
  <2>7. TicksPerToken * (Allowed + g) <= TicksPerToken * (w + u) + (l + TicksPerToken * e)
    BY <1>2, <1>7, <2>1, <2>3, <2>4, <2>5, <2>6
  <2> QED BY <2>7 DEF u
<1> QED BY <1>5, <1>6, <1>9, <1>10, <1>11 DEF ScriptInv

(* The bucket of the scripts stays as it is, and no more was allowed.      *)
LEMMA ScriptStays ==
  ASSUME TypeInv, ScriptInv, hash' = hash, clock' \in Nat, clock <= clock',
         upsets \in Nat, upsets' \in Nat, upsets <= upsets',
         Allowed \in Nat, Allowed' \in Nat, Allowed' <= Allowed
  PROVE  ScriptInv'
<1> DEFINE T == TicksPerToken
           a == Allowed
           a2 == Allowed'
           u == Burst * upsets
           u2 == Burst * upsets'
<1>1. /\ hash \in Hashes /\ clock \in Nat /\ Burst \in Nat /\ T \in Nat
      /\ a \in Nat /\ a2 \in Nat /\ a2 <= a
  BY SharesAre DEF TypeInv, BucketTypeOK
<1>2. \A p, q \in Int : p <= q => T * p <= T * q
  <2> SUFFICES ASSUME NEW p \in Int, NEW q \in Int, p <= q PROVE T * p <= T * q
    OBVIOUS
  <2> DEFINE c == q - p
  <2>1. c \in Nat /\ q = p + c
    OBVIOUS
  <2> HIDE DEF c, T
  <2>2. T * q = T * p + T * c /\ T * c \in Nat /\ T * p \in Int
    BY <1>1, <2>1
  <2> QED BY <2>2
<1>3. u \in Nat /\ u2 \in Nat /\ u <= u2
  <2> DEFINE x == upsets
             x2 == upsets'
             c == x2 - x
  <2>1. x \in Nat /\ x2 \in Nat /\ x <= x2
    OBVIOUS
  <2> HIDE DEF x, x2
  <2>2. c \in Nat /\ x2 = x + c
    BY <2>1
  <2> HIDE DEF c
  <2>3. Burst * (x + c) = Burst * x + Burst * c /\ Burst * c \in Nat /\ Burst * x \in Nat
    BY <1>1, <2>1, <2>2
  <2>4. Burst * x \in Nat /\ Burst * x2 \in Nat /\ Burst * x <= Burst * x2
    BY <2>2, <2>3
  <2> QED BY <2>4 DEF x, x2
<1> HIDE DEF T, a, a2, u, u2
<1>4. T * a2 <= T * a /\ T * a2 \in Int /\ T * a \in Int
  BY <1>1, <1>2
<1>5. ASSUME NEW k \in Int, NEW l \in Int, NEW l2 \in Int, l <= l2,
             T * a <= T * (k + u) + l
      PROVE  T * a2 <= T * (k + u2) + l2
  <2>1. T * (k + u) <= T * (k + u2) /\ T * (k + u) \in Int /\ T * (k + u2) \in Int
    <3>1. k + u \in Int /\ k + u2 \in Int /\ k + u <= k + u2
      BY <1>3
    <3> QED BY <1>1, <1>2, <3>1
  <2> QED BY <1>4, <1>5, <2>1
<1>6. CASE "current" \in DOMAIN hash
  <2> DEFINE k == hash["current"]
             l == hash["last_ns"]
  <2>1. /\ "last_ns" \in DOMAIN hash /\ l \in Int /\ l <= clock /\ k \in 0 .. Burst
        /\ T * a <= T * (k + u) + l
    BY <1>1, <1>6, HashGet DEF ScriptInv, T, a, u
  <2> HIDE DEF k, l
  <2>2. l <= clock'
    BY <1>1, <2>1
  <2>3. T * a2 <= T * (k + u2) + l
    BY <1>1, <1>5, <2>1
  <2> QED BY <1>6, <2>1, <2>2, <2>3 DEF ScriptInv, T, a2, u2, k, l
<1>7. CASE "current" \notin DOMAIN hash
  <2>1. "last_ns" \notin DOMAIN hash /\ T * a <= T * u + clock
    BY <1>7 DEF ScriptInv, T, a, u
  <2> DEFINE z == 0
  <2>2. z \in Int /\ z + u = u /\ z + u2 = u2
    BY <1>3
  <2> HIDE DEF z
  <2>3. T * a2 <= T * (z + u2) + clock'
    BY <1>1, <1>5, <2>1, <2>2
  <2>4. T * a2 <= T * u2 + clock'
    BY <2>2, <2>3
  <2> QED BY <1>7, <2>1, <2>4 DEF ScriptInv, T, a2, u2
<1> QED BY <1>6, <1>7

(* The key is gone, with what was in it.                                   *)
LEMMA ScriptGone ==
  ASSUME TypeInv, ScriptInv, hash' = NoHash, clock' = clock,
         upsets \in Nat, upsets' = upsets + 1, Allowed \in Nat, Allowed' = Allowed
  PROVE  ScriptInv'
<1>1. /\ hash \in Hashes /\ clock \in Nat /\ Burst \in Nat /\ TicksPerToken \in Nat
  BY SharesAre DEF TypeInv, BucketTypeOK
<1>2. DOMAIN hash' = {}
  BY DEF NoHash
<1> DEFINE a == Allowed
<1>3. PICK k \in 0 .. Burst, l \in Int :
        /\ l <= clock
        /\ TicksPerToken * a <= TicksPerToken * (k + Burst * upsets) + l
  <2>1. CASE "current" \in DOMAIN hash
    BY <1>1, <2>1, HashGet DEF ScriptInv
  <2>2. CASE "current" \notin DOMAIN hash
    <3>1. /\ 0 + Burst * upsets = Burst * upsets
          /\ TicksPerToken * a <= TicksPerToken * (Burst * upsets) + clock
      BY <1>1, <2>2 DEF ScriptInv
    <3>2. TicksPerToken * a <= TicksPerToken * (0 + Burst * upsets) + clock
      BY <3>1, Zenon
    <3> QED BY <1>1, <3>2
  <2> QED BY <2>1, <2>2
<1>4. TicksPerToken * a <= TicksPerToken * (Burst * (upsets + 1)) + clock
  <2>1. a \in Nat
    OBVIOUS
  <2> HIDE DEF a
  <2> QED BY <1>1, <1>3, <2>1, Drained
<1> QED BY <1>2, <1>4 DEF ScriptInv

--------------------------------------------------------------------------------
(* The steps of v2.                                                        *)
LEMMA QueueStays ==
  ASSUME QueuesInv, NEW t \in Shards, Shares' = Shares, stage'[t] = stage[t],
         queue'[t] = queue[t], batch'[t] = batch[t], verdict'[t] = verdict[t],
         pipe'[t] = pipe[t]
  PROVE  QueueOK(t)' /\ Told(t)' = Told(t)
<1>1. QueueOK(t)
  BY DEF QueuesInv
<1>2. Told(t)' = Told(t)
  BY DEF Told
<1> QED BY <1>1, <1>2 DEF QueueOK, Spare

LEMMA AllowedNext ==
  IInv' /\ granted' \in Nat =>
    Allowed' \in Nat /\ (kind' = "batch" => Allowed' = granted' + Told(0)')
<1>1. IInv /\ granted \in Nat =>
        Allowed \in Nat /\ (kind = "batch" => Allowed = granted + Told(0))
  BY AllowedIs
<1>2. (IInv /\ granted \in Nat =>
         Allowed \in Nat /\ (kind = "batch" => Allowed = granted + Told(0)))'
  BY <1>1, PTL
<1> QED BY <1>2

LEMMA QueuesKept ==
  ASSUME IInv, IInv', QueuesInv, kind = "batch", kind' = kind,
         hash' = hash, clock <= clock',
         granted' \in Nat, upsets' \in Nat, upsets <= upsets',
         granted' + Told(0)' <= granted + Told(0), \A t \in Shards : QueueOK(t)'
  PROVE  QueuesInv'
<1>1. granted \in Nat /\ upsets \in Nat /\ ScriptInv
  BY DEF QueuesInv
<1>2. Allowed \in Nat /\ Allowed = granted + Told(0)
  BY <1>1, AllowedIs
<1>3. Allowed' \in Nat /\ Allowed' = granted' + Told(0)'
  BY AllowedNext
<1>4. Allowed' <= Allowed
  BY <1>2, <1>3
<1>5. TypeInv /\ clock' \in Nat
  BY DEF IInv, TypeInv, BucketTypeOK
<1>6. ScriptInv'
  BY <1>1, <1>2, <1>3, <1>4, <1>5, ScriptStays
<1> QED BY <1>6 DEF QueuesInv

LEMMA QueuesClient ==
  ASSUME IInv, IInv', QueuesInv, kind = "batch", kind' = kind, version = "v2", Client
  PROVE  QueuesInv'
<1>1. TypeInv /\ granted \in Nat /\ upsets \in Nat /\ clock \in Nat
  BY DEF IInv, QueuesInv, TypeInv, BucketTypeOK
<1>2. /\ hash' = hash /\ clock' = clock /\ granted' = granted /\ upsets' = upsets
      /\ version' = version /\ stage' = stage /\ batch' = batch /\ verdict' = verdict
      /\ pipe' = pipe /\ \A t \in Shards \ {0} : queue'[t] = queue[t]
  <2>1. ASSUME NEW r \in Requests, NEW n \in Asks, AllowN(r, n)
        PROVE  /\ hash' = hash /\ clock' = clock /\ granted' = granted /\ upsets' = upsets
               /\ version' = version /\ stage' = stage /\ batch' = batch
               /\ verdict' = verdict /\ pipe' = pipe
               /\ \A t \in Shards \ {0} : queue'[t] = queue[t]
    <3>1. Target = 0
      BY DEF Target
    <3> QED BY <1>1, <2>1, <3>1 DEF AllowN, bucketVars, TypeInv, BatchTypeOK
  <2>2. ASSUME NEW r \in Requests, Receive(r) \/ GiveUp(r)
        PROVE  /\ hash' = hash /\ clock' = clock /\ granted' = granted /\ upsets' = upsets
               /\ version' = version /\ stage' = stage /\ batch' = batch
               /\ verdict' = verdict /\ pipe' = pipe /\ queue' = queue
    BY <2>2 DEF Receive, GiveUp, bucketVars
  <2>3. ASSUME Close
        PROVE  /\ hash' = hash /\ clock' = clock /\ granted' = granted /\ upsets' = upsets
               /\ version' = version /\ stage' = stage /\ batch' = batch
               /\ verdict' = verdict /\ pipe' = pipe /\ queue' = queue
    BY <2>3 DEF Close, bucketVars, shardVars
  <2>4. \A n : ~InitializeTokenBucket(n)
    BY DEF InitializeTokenBucket
  <2> QED BY <2>1, <2>2, <2>3, <2>4 DEF Client
<1>3. Shares' = Shares
  BY <1>2, SharesStay
<1>4. Told(0)' = Told(0)
  BY <1>2 DEF Told
<1>5. ASSUME NEW t \in Shards PROVE QueueOK(t)'
  <2>1. QueueOK(t)
    BY DEF QueuesInv
  <2>2. CASE t = 0
    <3>1. Spare(t)'
      BY <1>3, <2>2, SharesAre DEF Spare
    <3> QED BY <1>2, <2>1, <3>1 DEF QueueOK
  <2>3. CASE t # 0
    BY <1>2, <1>3, <2>3, QueueStays
  <2> QED BY <2>2, <2>3
<1>6. Told(0) \in Nat
  BY <1>1, AllowedIs
<1>7. granted' + Told(0)' <= granted + Told(0) /\ clock <= clock' /\ upsets <= upsets'
  BY <1>1, <1>2, <1>4, <1>6
<1> QED BY <1>1, <1>2, <1>5, <1>7, QueuesKept

(* The shard that moves is the first, which has the batch it works on.     *)
LEMMA QueuesMover ==
  ASSUME QueuesInv, version = "v2", NEW s \in Shards, stage[s] \in {"write", "send"} \/ queue[s] # <<>>
  PROVE  s = 0 /\ Shares = 1
<1>1. Shares = 1
  BY DEF Shares
<1>2. s \in Nat /\ (s < 1 \/ (stage[s] \in {"idle", "exited"} /\ queue[s] = <<>>))
  BY <1>1 DEF QueuesInv, QueueOK, Spare, Shards
<1>3. s < 1
  BY <1>2
<1> QED BY <1>1, <1>2, <1>3

(* All steps of a shard but Redis' own.                                    *)
LEMMA QueuesShard ==
  ASSUME IInv, IInv', QueuesInv, kind = "batch", kind' = kind, version = "v2",
         NEW s \in Shards,
         \/ ExecuteScripts(s) \/ WriteFails(s) \/ WriteReturns(s)
         \/ SendResults(s) \/ FailPending(s)
  PROVE  QueuesInv'
<1>1. TypeInv /\ BatchTypeOK /\ granted \in Nat /\ upsets \in Nat /\ clock \in Nat
  BY DEF IInv, QueuesInv, TypeInv, BucketTypeOK
<1>2. /\ hash' = hash /\ clock' = clock /\ version' = version
      /\ upsets' \in {upsets, upsets + 1}
      /\ \A t \in Shards \ {s} : /\ stage'[t] = stage[t] /\ verdict'[t] = verdict[t]
                                 /\ batch'[t] = batch[t] /\ queue'[t] = queue[t]
                                 /\ pipe'[t] = pipe[t]
  <2>1. CASE ExecuteScripts(s)
    BY <1>1, <2>1 DEF ExecuteScripts, TakeBatch, BatchTypeOK, bucketVars
  <2>2. CASE WriteFails(s)
    BY <1>1, <2>2 DEF WriteFails, Upset, BatchTypeOK
  <2>3. CASE WriteReturns(s)
    BY <1>1, <2>3 DEF WriteReturns, BatchTypeOK
  <2>4. CASE SendResults(s)
    BY <1>1, <2>4 DEF SendResults, BatchTypeOK, bucketVars
  <2>5. CASE FailPending(s)
    BY <1>1, <2>5 DEF FailPending, BatchTypeOK, bucketVars
  <2> QED BY <2>1, <2>2, <2>3, <2>4, <2>5
<1>3. Shares' = Shares
  BY <1>2, SharesStay
<1>4. \A t \in Shards \ {s} : QueueOK(t)' /\ Told(t)' = Told(t)
  BY <1>2, <1>3, QueueStays
<1>5. Told(0) \in Nat
  BY <1>1, AllowedIs
<1>6. QueueOK(s)' /\ granted' \in Nat /\ granted' + Told(0)' <= granted + Told(0)
  <2>1. CASE ExecuteScripts(s)
    <3> DEFINE b == Collected(s)
    <3>1. /\ stage[s] = "idle" /\ queue[s] # <<>> /\ stage'[s] = "write" /\ batch'[s] = b
          /\ verdict'[s] = verdict[s] /\ granted' = granted
          /\ pipe'[s] = [i \in 1 .. Len(b) |->
                           [field |-> IF pc[b[i].id] = "wait" THEN "script" ELSE "none",
                            by |-> b[i].n]]
      BY <1>1, <2>1 DEF ExecuteScripts, TakeBatch, BatchTypeOK, bucketVars
    <3>2. s = 0 /\ Shares = 1
      BY <3>1, QueuesMover
    <3>3. verdict[s] = <<>>
      BY <3>1 DEF IInv, ShardInv, ShardExact
    <3>4. Len(b) \in Nat
      BY <1>1, CollectedIs
    <3>5. Len(pipe'[s]) = Len(b) /\ \A i \in 1 .. Len(b) : pipe'[s][i].by = b[i].n
      BY <3>1, <3>4
    <3>6. QueueOK(s)'
      <4>1. Spare(s)'
        BY <1>3, <3>2 DEF Spare
      <4>2. \A i \in 1 .. Len(b) : 0 + i = i
        BY <3>4
      <4>3. Len(verdict'[s]) = 0
        BY <3>1, <3>3
      <4> QED BY <3>1, <3>5, <4>1, <4>2, <4>3 DEF QueueOK
    <3>7. Told(0)' = 0
      <4>1. SumTo(Given(batch'[s], verdict'[s]), 0) = 0
        BY SumIs
      <4> QED BY <3>1, <3>2, <3>3, <4>1 DEF Told
    <3>8. Told(0) = 0
      BY <3>1, <3>2 DEF Told
    <3> QED BY <1>1, <3>1, <3>6, <3>7, <3>8
  <2>2. CASE WriteFails(s)
    <3>1. stage[s] = "write" /\ stage'[s] = "send" /\ granted' = granted
      BY <1>1, <2>2 DEF WriteFails, BatchTypeOK
    <3>2. s = 0 /\ Shares = 1
      BY <3>1, QueuesMover
    <3>3. QueueOK(s)'
      BY <1>3, <3>1, <3>2 DEF QueueOK, Spare
    <3>4. Told(0)' = 0
      BY <3>1, <3>2 DEF Told
    <3> QED BY <1>1, <1>5, <3>1, <3>3, <3>4
  <2>3. CASE WriteReturns(s)
    <3>1. /\ stage[s] = "write" /\ stage'[s] = "send" /\ pipe[s] = <<>>
          /\ granted' = granted + Granted(batch[s], verdict[s])
      BY <1>1, <2>3 DEF WriteReturns, BatchTypeOK
    <3>2. s = 0 /\ Shares = 1
      BY <3>1, QueuesMover
    <3>3. QueueOK(s)'
      BY <1>3, <3>1, <3>2 DEF QueueOK, Spare
    <3>4. Told(0)' = 0
      BY <3>1, <3>2 DEF Told
    <3>5. Len(verdict[s]) = Len(batch[s])
      <4>1. Len(verdict[s]) + Len(pipe[s]) = Len(batch[s])
        BY <3>1 DEF IInv, ShardInv, ShardExact
      <4>2. Len(pipe[s]) = 0 /\ Len(verdict[s]) \in Nat
        BY <1>1, <3>1 DEF BatchTypeOK
      <4> QED BY <4>1, <4>2
    <3>6. Told(0) = Granted(batch[s], verdict[s])
      BY <3>1, <3>2, <3>5 DEF Told, Granted
    <3> QED BY <1>1, <1>5, <3>1, <3>3, <3>4, <3>6
  <2>4. CASE SendResults(s)
    <3>1. stage[s] = "send" /\ stage'[s] = "idle" /\ granted' = granted
      BY <1>1, <2>4 DEF SendResults, BatchTypeOK, bucketVars
    <3>2. s = 0 /\ Shares = 1
      BY <3>1, QueuesMover
    <3>3. QueueOK(s)'
      BY <1>3, <3>1, <3>2 DEF QueueOK, Spare
    <3>4. Told(0)' = 0
      BY <3>1, <3>2 DEF Told
    <3> QED BY <1>1, <1>5, <3>1, <3>3, <3>4
  <2>5. CASE FailPending(s)
    <3>1. /\ stage[s] = "idle" /\ stage'[s] = "exited" /\ queue'[s] = <<>>
          /\ granted' = granted
      BY <1>1, <2>5 DEF FailPending, BatchTypeOK, bucketVars
    <3>2. QueueOK(s)'
      BY <3>1 DEF QueueOK, Spare
    <3>3. Told(0)' = Told(0)
      <4>1. 0 \in Shards
        BY SharesAre
      <4>2. CASE s = 0
        BY <3>1, <4>2 DEF Told
      <4>3. CASE s # 0
        BY <1>4, <4>1, <4>3
      <4> QED BY <4>2, <4>3
    <3> QED BY <1>1, <1>5, <3>1, <3>2, <3>3
  <2> QED BY <2>1, <2>2, <2>3, <2>4, <2>5
<1>7. \A t \in Shards : QueueOK(t)'
  BY <1>4, <1>6
<1>8. clock <= clock' /\ upsets <= upsets' /\ upsets' \in Nat
  BY <1>1, <1>2
<1> QED BY <1>2, <1>6, <1>7, <1>8, QueuesKept

(* Redis runs a script, whose answer is the decision on the next request.  *)
LEMMA QueuesWrite ==
  ASSUME IInv, IInv', QueuesInv, kind = "batch", kind' = kind, version = "v2",
         NEW s \in Shards, WriteBucket(s)
  PROVE  QueuesInv'
<1> DEFINE p == pipe[s]
           b == batch[s]
           v == verdict[s]
           v2 == verdict'[s]
           n == Len(v)
           c == Head(p)
<1>1. TypeInv /\ BatchTypeOK /\ granted \in Nat /\ upsets \in Nat /\ clock \in Nat /\ ScriptInv
  BY DEF IInv, QueuesInv, TypeInv, BucketTypeOK
<1>2. /\ p # <<>> /\ p \in Seq(Command) /\ b \in Seq(Item) /\ v \in Seq(Verdicts)
  BY <1>1 DEF WriteBucket, BatchTypeOK
<1>3. stage[s] = "write"
  BY <1>1, <1>2 DEF IInv, ShardInv, ShardExact, BatchTypeOK
<1>4. s = 0 /\ Shares = 1
  BY <1>3, QueuesMover
<1>5. /\ clock' = clock /\ granted' = granted /\ upsets' = upsets /\ version' = version
      /\ stage' = stage /\ batch' = batch /\ queue' = queue /\ pipe'[s] = Tail(p)
      /\ \A t \in Shards \ {s} : pipe'[t] = pipe[t] /\ verdict'[t] = verdict[t]
  BY <1>1 DEF WriteBucket, BatchTypeOK
<1>6. /\ c = p[1] /\ n \in Nat /\ Len(p) \in Nat /\ Len(p) >= 1 /\ Len(b) \in Nat
      /\ n + Len(p) = Len(b) /\ c.field \in {"script", "none"} /\ c.by = b[n + 1].n
      /\ Len(Tail(p)) = Len(p) - 1 /\ \A i \in 1 .. Len(Tail(p)) : Tail(p)[i] = p[i + 1]
      /\ \A i \in 1 .. Len(p) : p[i].by = b[n + i].n
  <2>1. /\ c = p[1] /\ n \in Nat /\ Len(p) \in Nat /\ Len(p) >= 1 /\ Len(b) \in Nat
        /\ Len(Tail(p)) = Len(p) - 1 /\ \A i \in 1 .. Len(Tail(p)) : Tail(p)[i] = p[i + 1]
    <3> HIDE DEF p, b, v
    <3> QED BY <1>2
  <2>2. n + Len(p) = Len(b) /\ \A i \in 1 .. Len(p) : p[i].field \in {"script", "none"}
    BY <1>3 DEF IInv, ShardInv, ShardExact
  <2>3. \A i \in 1 .. Len(p) : p[i].by = b[n + i].n
    BY <1>3 DEF QueuesInv, QueueOK
  <2>4. 1 \in 1 .. Len(p)
    BY <2>1
  <2> HIDE DEF p, b, v, n
  <2> QED BY <2>1, <2>2, <2>3, <2>4
<1>7. n + 1 \in 1 .. Len(b) /\ c.by \in 1 .. Burst
  <2>1. n + 1 \in 1 .. Len(b)
    <3> DEFINE k == Len(b)
               m == Len(p)
    <3>1. n \in Nat /\ m \in Nat /\ m >= 1 /\ k \in Nat /\ n + m = k
      BY <1>6
    <3> HIDE DEF k, m, n
    <3>2. n + 1 \in 1 .. k
      BY <3>1
    <3> QED BY <3>2 DEF k
  <2>2. b[n + 1] \in Item
    <3> HIDE DEF n, b
    <3> QED BY <1>2, <2>1
  <2>3. b[n + 1].n \in Asks
    BY <2>2 DEF Item
  <2> QED BY <1>6, <2>1, <2>3, RedisBatchAssumption
<1> DEFINE a == IF c.field = "script" /\ ScriptAllows(c.by) THEN c.by ELSE 0
<1>8. /\ c.field = "script" => hash' = ScriptHash(c.by)
      /\ c.field = "none" => hash' = hash
      /\ \E x \in Verdicts : v2 = Append(v, x) /\ (x = "allowed" <=> a # 0)
  <2>1. c.by # 0
    BY <1>7
  <2>2. CASE c.field = "script"
    <3>1. hash' = ScriptHash(c.by)
          /\ v2 = Append(v, IF ScriptAllows(c.by) THEN "allowed" ELSE "denied")
      BY <1>1, <2>2 DEF WriteBucket, BatchTypeOK
    <3> QED BY <2>1, <2>2, <3>1 DEF Verdicts
  <2>3. CASE c.field = "none"
    <3>1. hash' = hash /\ v2 = Append(v, "error")
      BY <1>1, <2>3 DEF WriteBucket, BatchTypeOK
    <3> QED BY <2>3, <3>1 DEF Verdicts
  <2> QED BY <1>6, <2>2, <2>3
<1>9. /\ Len(v2) = n + 1 /\ \A i \in 1 .. n : v2[i] = v[i]
      /\ v2[n + 1] = "allowed" <=> a # 0
  <2>1. PICK x \in Verdicts : v2 = Append(v, x) /\ (x = "allowed" <=> a # 0)
    BY <1>8
  <2> HIDE DEF v2, a, v
  <2>2. Len(v2) = Len(v) + 1 /\ (\A i \in 1 .. Len(v) : v2[i] = v[i]) /\ v2[Len(v) + 1] = x
    BY <1>2, <2>1
  <2> QED BY <2>1, <2>2
<1>10. Told(0)' = Told(0) + a
  <2> DEFINE f == Given(b, v)
             g == Given(b, v2)
             k == Len(b)
  <2>1. \A i \in 1 .. k : /\ f[i] = IF v[i] = "allowed" THEN b[i].n ELSE 0
                          /\ g[i] = IF v2[i] = "allowed" THEN b[i].n ELSE 0
    BY DEF Given
  <2>2. n \in Nat /\ k \in Nat /\ n + 1 \in 1 .. k /\ \A i \in 1 .. n : i \in 1 .. k
    <3>1. n \in Nat /\ k \in Nat /\ n + 1 \in 1 .. k
      BY <1>6, <1>7
    <3> HIDE DEF n, k
    <3> QED BY <3>1
  <2>3. g[n + 1] = a
    <3>1. c.by = b[n + 1].n /\ (a # 0 => a = c.by)
      BY <1>6
    <3>2. g[n + 1] = IF v2[n + 1] = "allowed" THEN b[n + 1].n ELSE 0
      BY <2>1, <2>2
    <3> HIDE DEF a, g, v2, n, b, c
    <3> QED BY <1>9, <3>1, <3>2
  <2>4. \A i \in 1 .. n : g[i] = f[i]
    BY <1>9, <2>1, <2>2
  <2>5. Told(0) = SumTo(f, n) /\ Told(0)' = SumTo(g, n + 1)
    <3>1. Told(0) = SumTo(f, n)
      BY <1>3, <1>4 DEF Told
    <3>2. Told(0)' = SumTo(Given(b, v2), Len(v2))
      BY <1>3, <1>4, <1>5 DEF Told
    <3> QED BY <1>9, <3>1, <3>2
  <2> HIDE DEF f, g, n, a
  <2>6. SumTo(g, n + 1) = SumTo(g, n) + g[n + 1]
    BY <2>2, SumIs
  <2>7. SumTo(g, n) = SumTo(f, n)
    BY <2>2, <2>4, SumSame
  <2> QED BY <2>3, <2>5, <2>6, <2>7
<1>11. QueueOK(s)'
  <2>1. Spare(s)'
    <3>1. Shares' = Shares
      BY <1>5, SharesStay
    <3> QED BY <1>4, <3>1 DEF Spare
  <2>2. ASSUME NEW i \in 1 .. Len(pipe'[s]) PROVE pipe'[s][i].by = batch'[s][Len(v2) + i].n
    <3>1. i \in 1 .. Len(Tail(p)) /\ Tail(p)[i] = p[i + 1]
      BY <1>5, <1>6
    <3>2. i + 1 \in 1 .. Len(p)
      BY <1>6, <3>1
    <3>3. p[i + 1].by = b[n + (i + 1)].n
      BY <1>6, <3>2
    <3>4. n + (i + 1) = Len(v2) + i
      <4>1. n \in Nat /\ Len(v2) = n + 1 /\ i \in Int
        BY <1>6, <1>9, <3>1
      <4> HIDE DEF n, v2
      <4> QED BY <4>1
    <3> QED BY <1>5, <3>1, <3>3, <3>4
  <2> QED BY <2>1, <2>2 DEF QueueOK
<1>12. \A t \in Shards : QueueOK(t)'
  <2>1. Shares' = Shares
    BY <1>5, SharesStay
  <2>2. \A t \in Shards \ {s} : QueueOK(t)'
    BY <1>5, <2>1, QueueStays
  <2> QED BY <1>11, <2>2
<1>13. Told(0) \in Nat /\ Allowed \in Nat /\ Allowed = granted + Told(0)
  BY <1>1, AllowedIs
<1>14. Allowed' = granted' + Told(0)'
  BY <1>1, <1>5, AllowedNext
<1>15. CASE c.field = "script"
  <2>1. a = IF ScriptAllows(c.by) THEN c.by ELSE 0
    BY <1>15
  <2> DEFINE d == c.by
  <2>2. d \in 1 .. Burst /\ a \in Nat
    BY <1>7
  <2>3. Allowed' = Allowed + a
    <3> DEFINE w == Told(0)
    <3>1. Allowed' = granted + (w + a) /\ Allowed = granted + w /\ w \in Nat
      BY <1>5, <1>10, <1>13, <1>14
    <3> HIDE DEF w, a
    <3>2. granted + (w + a) = (granted + w) + a
      BY <1>1, <2>2, <3>1
    <3> QED BY <3>1, <3>2
  <2>4. hash' = ScriptHash(d) /\ Allowed' = Allowed + (IF ScriptAllows(d) THEN d ELSE 0)
    BY <1>8, <1>15, <2>1, <2>3
  <2> HIDE DEF d
  <2>5. ScriptInv'
    BY <1>1, <1>5, <1>13, <2>2, <2>4, ScriptLimit
  <2> QED BY <1>1, <1>5, <1>12, <2>5 DEF QueuesInv
<1>16. CASE c.field = "none"
  <2>1. a = 0
    BY <1>16
  <2>2. Told(0)' = Told(0)
    BY <1>10, <1>13, <2>1
  <2>3. granted' + Told(0)' <= granted + Told(0) /\ clock <= clock' /\ upsets <= upsets'
    BY <1>1, <1>5, <1>13, <2>2
  <2> QED BY <1>1, <1>5, <1>8, <1>12, <1>16, <2>3, QueuesKept
<1> QED BY <1>6, <1>15, <1>16

(* Neither the kind nor the version of a limiter changes.                  *)
LEMMA VersionStays == [Next]_vars => kind' = kind /\ version' = version
<1> SUFFICES ASSUME [Next]_vars PROVE kind' = kind /\ version' = version
  OBVIOUS
<1>1. kind' = kind
  BY DEF Next, vars
<1>2. ASSUME BatchNext PROVE version' = version
  <2>1. ASSUME NEW r \in Requests, NEW n \in Asks, AllowN(r, n) PROVE version' = version
    BY <2>1 DEF AllowN
  <2>2. ASSUME NEW r \in Requests, Receive(r) \/ GiveUp(r) PROVE version' = version
    BY <2>2 DEF Receive, GiveUp
  <2>3. ASSUME NEW n, InitializeTokenBucket(n) PROVE version' = version
    BY <2>3 DEF InitializeTokenBucket, batchVars
  <2>4. ASSUME Close PROVE version' = version
    BY <2>4 DEF Close
  <2>5. ASSUME NEW s \in Shards, Shard(s) PROVE version' = version
    <3>1. \A at : ExecutePipeline(s, at) => version' = version
      BY DEF ExecutePipeline
    <3>2. ExecuteScripts(s) \/ ReadFails(s) \/ WriteBucket(s) => version' = version
      BY DEF ExecuteScripts, ReadFails, WriteBucket
    <3>3. WriteFails(s) \/ WriteReturns(s) => version' = version
      BY DEF WriteFails, WriteReturns
    <3>4. SendResults(s) \/ FailPending(s) => version' = version
      BY DEF SendResults, FailPending
    <3> QED BY <2>5, <3>1, <3>2, <3>3, <3>4 DEF Shard
  <2> QED BY <1>2, <2>1, <2>2, <2>3, <2>4, <2>5 DEF BatchNext
<1>3. UNCHANGED batchVars => version' = version
  BY DEF batchVars
<1> QED BY <1>1, <1>2, <1>3 DEF Next, vars

(* Every step of v2 keeps what its scripts allow covered, ...              *)
LEMMA QueuesStep ==
  IInv /\ IInv' /\ kind = "batch" /\ version = "v2" /\ QueuesInv /\ [Next]_vars => QueuesInv'
<1> SUFFICES ASSUME IInv, IInv', kind = "batch", version = "v2", QueuesInv, [Next]_vars
             PROVE  QueuesInv'
  OBVIOUS
<1>1. /\ TypeInv /\ clock \in Nat /\ granted \in Nat /\ upsets \in Nat /\ ScriptInv
      /\ kind' = kind /\ version' = version
  BY VersionStays DEF IInv, TypeInv, BucketTypeOK, QueuesInv
<1>2. Told(0) \in Nat /\ Allowed \in Nat /\ Allowed = granted + Told(0)
  BY <1>1, AllowedIs
<1>3. ASSUME UNCHANGED shardVars
      PROVE  Told(0)' = Told(0) /\ \A t \in Shards : QueueOK(t)'
  <2>1. Shares' = Shares /\ 0 \in Shards
    BY <1>1, SharesStay, SharesAre
  <2> QED BY <1>3, <2>1, QueueStays DEF shardVars
<1>4. ASSUME UNCHANGED <<hash, granted, upsets, shardVars>>, clock <= clock' PROVE QueuesInv'
  <2>1. Told(0)' = Told(0) /\ \A t \in Shards : QueueOK(t)'
    BY <1>3, <1>4
  <2>2. granted' + Told(0)' <= granted + Told(0) /\ upsets <= upsets'
    BY <1>1, <1>2, <1>4, <2>1
  <2> QED BY <1>1, <1>4, <2>1, <2>2, QueuesKept
<1>5. CASE Tick /\ UNCHANGED <<kind, batchVars, directVars>>
  <2>1. UNCHANGED <<hash, granted, upsets, shardVars>> /\ clock' = clock + 1
    BY <1>5 DEF Tick, batchVars
  <2> QED BY <1>1, <1>4, <2>1
<1>6. CASE /\ Expire /\ dirty' = watching
           /\ UNCHANGED <<kind, batchVars, watching, ask, now, seen, attempt>>
  <2>1. /\ hash' = NoHash /\ clock' = clock /\ granted' = granted /\ upsets' = upsets + 1
        /\ UNCHANGED shardVars
    BY <1>6 DEF Expire, Upset, batchVars
  <2>2. Allowed' = Allowed
    <3>1. Allowed' = granted' + Told(0)'
      BY <1>1, <2>1, AllowedNext
    <3> QED BY <1>2, <1>3, <2>1, <3>1
  <2>3. ScriptInv'
    BY <1>1, <1>2, <2>1, <2>2, ScriptGone
  <2> QED BY <1>1, <1>3, <2>1, <2>3 DEF QueuesInv
<1>7. CASE BatchNext /\ UNCHANGED <<kind, directVars>>
  <2>1. CASE Client
    BY <1>1, <2>1, QueuesClient
  <2>2. ASSUME NEW s \in Shards, Shard(s) PROVE QueuesInv'
    <3>1. \A at : ~ExecutePipeline(s, at)
      BY DEF ExecutePipeline
    <3>2. ~ReadFails(s)
      BY DEF ReadFails
    <3>3. CASE WriteBucket(s)
      BY <1>1, <3>3, QueuesWrite
    <3>4. CASE \/ ExecuteScripts(s) \/ WriteFails(s) \/ WriteReturns(s)
               \/ SendResults(s) \/ FailPending(s)
      BY <1>1, <3>4, QueuesShard
    <3> QED BY <2>2, <3>1, <3>2, <3>3, <3>4 DEF Shard
  <2> QED BY <1>7, <2>1, <2>2 DEF BatchNext, Client
<1>8. CASE UNCHANGED vars
  <2>1. UNCHANGED <<hash, granted, upsets, shardVars>> /\ clock' = clock
    BY <1>8 DEF vars, bucketVars, batchVars
  <2> QED BY <1>1, <1>4, <2>1
<1> QED BY <1>5, <1>6, <1>7, <1>8 DEF Next

(* ... every request answered by the script itself, ...                    *)
LEMMA ScriptStep ==
  IInv /\ IInv' /\ kind = "script" /\ granted \in Nat /\ upsets \in Nat /\ ScriptInv /\ [Next]_vars
    => ScriptInv' /\ granted' \in Nat /\ upsets' \in Nat
<1> SUFFICES ASSUME IInv, IInv', kind = "script", granted \in Nat, upsets \in Nat, ScriptInv,
                    [Next]_vars
             PROVE  ScriptInv' /\ granted' \in Nat /\ upsets' \in Nat
  OBVIOUS
<1>1. TypeInv /\ clock \in Nat /\ clock' \in Nat /\ kind' = kind
  BY VersionStays DEF IInv, TypeInv, BucketTypeOK
<1>2. Allowed = granted + 0 /\ Allowed' = granted' + 0 /\ Allowed \in Nat
  BY <1>1 DEF Allowed
<1>3. ASSUME hash' = hash, granted' = granted, upsets' = upsets, clock <= clock'
      PROVE  ScriptInv' /\ granted' \in Nat /\ upsets' \in Nat
  <2>1. Allowed' \in Nat /\ Allowed' <= Allowed /\ upsets' \in Nat /\ upsets <= upsets'
    BY <1>2, <1>3
  <2> QED BY <1>1, <1>2, <1>3, <2>1, ScriptStays
<1>4. CASE Tick /\ UNCHANGED <<kind, batchVars, directVars>>
  <2>1. hash' = hash /\ granted' = granted /\ upsets' = upsets /\ clock' = clock + 1
    BY <1>4 DEF Tick
  <2> QED BY <1>1, <1>3, <2>1
<1>5. CASE /\ Expire /\ dirty' = watching
           /\ UNCHANGED <<kind, batchVars, watching, ask, now, seen, attempt>>
  <2>1. hash' = NoHash /\ clock' = clock /\ granted' = granted /\ upsets' = upsets + 1
    BY <1>5 DEF Expire, Upset
  <2> QED BY <1>1, <1>2, <2>1, ScriptGone
<1>6. ASSUME NEW n \in 1 .. Burst, ScriptAllowN(n)
      PROVE  ScriptInv' /\ granted' \in Nat /\ upsets' \in Nat
  <2>1. /\ hash' = ScriptHash(n) /\ clock' = clock /\ upsets' = upsets
        /\ granted' = granted + (IF ScriptAllows(n) THEN n ELSE 0)
    BY <1>6 DEF ScriptAllowN
  <2>2. granted' \in Nat
    BY <2>1, SharesAre
  <2>3. Allowed' = Allowed + (IF ScriptAllows(n) THEN n ELSE 0)
    BY <1>2, <2>1, <2>2
  <2> QED BY <1>1, <1>2, <2>1, <2>2, <2>3, ScriptLimit
<1>7. CASE UNCHANGED vars
  <2>1. hash' = hash /\ granted' = granted /\ upsets' = upsets /\ clock' = clock
    BY <1>7 DEF vars, bucketVars
  <2> QED BY <1>1, <1>3, <2>1
<1> QED BY <1>4, <1>5, <1>6, <1>7 DEF Next

(* ... and every transaction.                                              *)
LEMMA DirectKept ==
  IInv /\ kind = "direct" /\ granted \in Nat /\ upsets \in Nat /\ DirectInv /\ [Next]_vars
    => DirectInv' /\ granted' \in Nat /\ upsets' \in Nat
<1> SUFFICES ASSUME IInv, kind = "direct", granted \in Nat, upsets \in Nat, DirectInv, [Next]_vars
             PROVE  DirectInv' /\ granted' \in Nat /\ upsets' \in Nat
  OBVIOUS
<1>1. /\ TypeInv /\ hash \in Hashes /\ clock \in Nat /\ now \in [Callers -> Nat]
      /\ Burst \in Nat /\ TicksPerToken \in Nat
  BY RedisBucketAssumption DEF IInv, TypeInv, BucketTypeOK, DirectTypeOK
<1>2. CASE Tick /\ UNCHANGED <<kind, batchVars, directVars>>
  <2>1. /\ clock' = clock + 1 /\ clock' \in Nat /\ hash' = hash
        /\ granted' = granted /\ upsets' = upsets
    BY <1>1, <1>2 DEF Tick
  <2>2. /\ watching' = watching /\ dirty' = dirty /\ ask' = ask
        /\ now' = now /\ seen' = seen
    BY <1>2 DEF directVars
  <2>3. Covered(hash, clock + 1)
    BY <1>1, CoveredLater DEF DirectInv
  <2>4. Covered(hash, clock)'
    BY <2>1, <2>3 DEF Covered
  <2>5. \A c \in watching : now[c] <= clock + 1
    BY <1>1 DEF DirectInv
  <2>6. \A c \in watching \ dirty : Covered(hash, now[c])'
    BY <2>1, <2>2 DEF DirectInv, Covered
  <2> QED BY <2>1, <2>2, <2>4, <2>5, <2>6 DEF DirectInv
<1>3. CASE /\ Expire /\ dirty' = watching
           /\ UNCHANGED <<kind, batchVars, watching, ask, now, seen, attempt>>
  <2>1. /\ hash' = NoHash /\ clock' = clock /\ granted' = granted
        /\ upsets' = upsets + 1
    BY <1>3 DEF Expire, Upset
  <2>2. DOMAIN hash' = {}
    BY <2>1 DEF NoHash
  <2>3. TicksPerToken * granted <= TicksPerToken * (Burst * (upsets + 1)) + clock
    <3>1. Covered(hash, clock)
      BY DEF DirectInv
    <3>2. CASE "tokens" \in DOMAIN hash
      <4> DEFINE k == hash["tokens"]
                 l == hash["last_ns"]
      <4>1. /\ k \in Int /\ l \in Int /\ l <= clock /\ k >= -Burst
            /\ TicksPerToken * (granted + k) <= TicksPerToken * (Burst * upsets) + l
        BY <1>1, <3>1, <3>2, HashGet DEF Covered
      <4> HIDE DEF k, l
      <4> QED BY <1>1, <4>1, Gone
    <3>3. CASE "tokens" \notin DOMAIN hash
      <4>1. TicksPerToken * (granted + 0) <= TicksPerToken * (Burst * upsets) + clock
        BY <3>1, <3>3 DEF Covered
      <4> QED BY <1>1, <4>1, Gone
    <3> QED BY <3>2, <3>3
  <2>4. Covered(hash, clock)'
    BY <2>1, <2>2, <2>3 DEF Covered
  <2> QED BY <1>3, <2>1, <2>4 DEF DirectInv
<1>4. CASE DirectNext
  BY <1>1, <1>4, DirectLimit
<1>5. CASE UNCHANGED vars
  BY <1>5 DEF vars, bucketVars, directVars, DirectInv, Covered
<1> QED BY <1>2, <1>3, <1>4, <1>5 DEF Next

LEMMA LimitStep == IInv /\ LimitInv /\ [Next]_vars => LimitInv'
<1> SUFFICES ASSUME IInv, LimitInv, [Next]_vars PROVE LimitInv'
  OBVIOUS
<1>1. IInv' /\ TypeInv'
  BY Step DEF IInv
<1>2. kind' = kind /\ version' = version /\ kind \in {"direct", "script", "batch"}
  BY VersionStays DEF LimitInv
<1>3. CASE kind = "direct"
  <2>1. DirectInv' /\ granted' \in Nat /\ upsets' \in Nat
    BY <1>3, DirectKept DEF LimitInv
  <2> QED BY <1>2, <1>3, <2>1 DEF LimitInv
<1>4. CASE kind = "script"
  <2>1. ScriptInv' /\ granted' \in Nat /\ upsets' \in Nat
    BY <1>1, <1>4, ScriptStep DEF LimitInv
  <2> QED BY <1>2, <1>4, <2>1 DEF LimitInv
<1>5. CASE kind = "batch" /\ version = "v2"
  <2>1. QueuesInv'
    BY <1>1, <1>5, QueuesStep DEF LimitInv
  <2> QED BY <1>2, <1>5, <2>1 DEF LimitInv
<1>6. CASE kind = "batch" /\ version # "v2"
  <2>1. PipesInv'
    BY <1>1, <1>6, PipesStep DEF LimitInv
  <2> QED BY <1>2, <1>6, <2>1 DEF LimitInv
<1> QED BY <1>2, <1>3, <1>4, <1>5, <1>6

(* However transactions and pipelines interleave, conflict, are repeated,  *)
(* fail half-way or are answered late, and whatever they have read before  *)
(* the key is written, expires or is initialized: what is allowed is       *)
(* covered by the capacity and the time that has passed, as often as the   *)
(* shards of v4 may fill the bucket and refill the same time, for every    *)
(* capacity, rate and number of callers, requests and shards (AllowN and   *)
(* executePipeline of v3 and v4, redisAllowScript).                        *)
THEOREM AllWithinLimit == Spec => []WithinLimit
<1>1. Spec => []LimitInv
  <2>1. LimitInv /\ IInv /\ [Next]_vars => LimitInv'
    BY LimitStep
  <2> QED BY <2>1, LimitInit, Inductive, PTL DEF Spec
<1> QED BY <1>1, LimitHolds, Inductive, PTL
================================================================================
