----------------------------- MODULE Runners_proofs ----------------------------
(***************************************************************************)
(* What the components with goroutines of their own keep, for any number   *)
(* of goroutines, tasks and capacities: each safety invariant of Runners   *)
(* is a theorem here.  They are about one component each, the part that    *)
(* runs; a step of it is one of the component alone (PartStep), so that    *)
(* each has an inductive invariant of its own, XInv, with the lemmas       *)
(* XInitial, XKept and, where it is long, XStays.  FlushBuffer_proofs has  *)
(* those of the flush buffer.                                              *)
(***************************************************************************)
EXTENDS Runners, FlushBuffer_proofs

--------------------------------------------------------------------------------
(* One element of a sequence is replaced.                                  *)
LEMMA Replaced ==
  ASSUME NEW S, NEW s \in Seq(S), NEW i \in DOMAIN s, NEW x \in S, NEW t,
         t = [s EXCEPT ![i] = x]
  PROVE  /\ t \in Seq(S) /\ Len(t) = Len(s) /\ DOMAIN t = DOMAIN s /\ t[i] = x
         /\ \A j \in DOMAIN s : j # i => t[j] = s[j]
BY ExceptSeq

(* A sequence without repetitions gets an element that it does not have.   *)
LEMMA Appended ==
  ASSUME NEW S, NEW s \in Seq(S), IsInjective(s), NEW x \in S, x \notin ToSet(s)
  PROVE  /\ Append(s, x) \in Seq(S) /\ IsInjective(Append(s, x))
         /\ ToSet(Append(s, x)) = ToSet(s) \cup {x}
<1> DEFINE t == Append(s, x)
<1>1. /\ t \in Seq(S) /\ Len(t) = Len(s) + 1 /\ t[Len(s) + 1] = x
      /\ \A i \in 1 .. Len(s) : t[i] = s[i]
  BY AppendProperties
<1>2. /\ Len(s) \in Nat /\ DOMAIN s = 1 .. Len(s) /\ DOMAIN t = 1 .. Len(s) + 1
  BY <1>1, LenProperties
<1> HIDE DEF t
<1>3. \A i \in 1 .. Len(s) : s[i] # x
  BY <1>2 DEF ToSet
<1>4. IsInjective(t)
  BY <1>1, <1>2, <1>3 DEF IsInjective
<1>5. ASSUME NEW y PROVE y \in ToSet(t) <=> y \in ToSet(s) \cup {x}
  <2>1. y \in ToSet(t) <=> \E i \in 1 .. Len(s) + 1 : t[i] = y
    BY <1>2 DEF ToSet
  <2>2. y \in ToSet(s) <=> \E i \in 1 .. Len(s) : s[i] = y
    BY <1>2 DEF ToSet
  <2>3. 1 .. Len(s) + 1 = 1 .. Len(s) \cup {Len(s) + 1}
    BY <1>2
  <2> QED BY <1>1, <2>1, <2>2, <2>3
<1> QED BY <1>1, <1>4, <1>5 DEF t

(* The first element of a sequence without repetitions leaves it.          *)
LEMMA FirstLeaves ==
  ASSUME NEW S, NEW s \in Seq(S), IsInjective(s), s # <<>>
  PROVE  /\ Tail(s) \in Seq(S) /\ IsInjective(Tail(s)) /\ Head(s) \in ToSet(s)
         /\ ToSet(Tail(s)) = ToSet(s) \ {Head(s)}
<1> DEFINE t == Tail(s)
<1>1. /\ t \in Seq(S) /\ Len(t) = Len(s) - 1
      /\ \A i \in 1 .. Len(t) : t[i] = s[i + 1]
  BY HeadTailProperties
<1>2. Len(s) \in Nat \ {0} /\ DOMAIN s = 1 .. Len(s) /\ DOMAIN t = 1 .. Len(t) /\ Head(s) = s[1]
  BY <1>1, LenProperties, EmptySeq
<1> HIDE DEF t
<1>3. IsInjective(t)
  BY <1>1, <1>2 DEF IsInjective
<1>4. ASSUME NEW y PROVE y \in ToSet(t) <=> y \in ToSet(s) \ {Head(s)}
  <2>1. y \in ToSet(t) <=> \E i \in 1 .. Len(t) : s[i + 1] = y
    BY <1>1, <1>2 DEF ToSet
  <2>2. y \in ToSet(s) <=> \E i \in 1 .. Len(s) : s[i] = y
    BY <1>2 DEF ToSet
  <2>3. (\E i \in 1 .. Len(t) : s[i + 1] = y) <=> \E i \in 1 .. Len(s) : i # 1 /\ s[i] = y
    <3>1. ASSUME NEW i \in 1 .. Len(s), i # 1 PROVE i - 1 \in 1 .. Len(t) /\ (i - 1) + 1 = i
      BY <1>1, <1>2, <3>1
    <3>2. ASSUME NEW i \in 1 .. Len(t) PROVE i + 1 \in 1 .. Len(s) /\ i + 1 # 1
      BY <1>1, <1>2, <3>2
    <3> QED BY <3>1, <3>2
  <2>4. \A i \in 1 .. Len(s) : s[i] = s[1] => i = 1
    BY <1>2 DEF IsInjective
  <2> QED BY <1>2, <2>1, <2>2, <2>3, <2>4
<1>5. Head(s) \in ToSet(s)
  BY <1>2 DEF ToSet
<1> QED BY <1>1, <1>3, <1>4, <1>5 DEF t

(* A function that takes no value twice takes as many as its domain has    *)
(* elements.                                                               *)
LEMMA ImageSize ==
  ASSUME NEW U, IsFiniteSet(U), NEW f, \A x, y \in U : f[x] = f[y] => x = y
  PROVE  LET V == {f[x] : x \in U}
         IN  IsFiniteSet(V) /\ Cardinality(V) = Cardinality(U)
<1> DEFINE V == {f[x] : x \in U}
           g == [x \in U |-> f[x]]
<1>1. g \in [U -> V] /\ \A x \in U : g[x] = f[x]
  OBVIOUS
<1>2. \A v \in V : \E x \in U : g[x] = v
  BY <1>1
<1>3. g \in Bijection(U, V)
  BY <1>1, <1>2 DEF Bijection, Injection, Surjection, IsInjective
<1> HIDE DEF V, g
<1>4. IsFiniteSet(V) /\ Cardinality(V) = Cardinality(U)
  BY <1>3, FS_Bijection, Zenon DEF ExistsBijection
<1> QED BY <1>4 DEF V

--------------------------------------------------------------------------------
(* Pollers: the registry.                                                  *)
PollerStates == {"select", "poll", "backoff", "cleanup", "done"}

Poller == [id : PollerIDs, state : PollerStates, cancelled : BOOLEAN,
           maxRetries : Int, attempt : Nat, results : Nat]

(* The registry names pollers that exist.                                  *)
PollersTypeOK ==
  /\ pollers \in Seq(Poller)
  /\ registry \in [PollerIDs -> 0 .. Len(pollers)]
  /\ stopTarget \in [Stoppers -> 0 .. Len(pollers)]

PollersInv ==
  PollersTypeOK /\ stopExpired \in BOOLEAN /\ managerDone \in BOOLEAN /\ RegistryExact

(* The goroutine of poller i, or a client, changes only this poller, and   *)
(* neither its ID nor whether it has ended.                                *)
Continues(i) ==
  \E p \in Poller :
    /\ pollers' = [pollers EXCEPT ![i] = p]
    /\ p.id = pollers[i].id /\ (p.state = "done" <=> pollers[i].state = "done")

(* The initial registry is empty.                                          *)
LEMMA PollersInitial == PollersInit => PollersInv
<1> SUFFICES ASSUME PollersInit PROVE PollersInv
  OBVIOUS
<1>1. pollers \in Seq(Poller) /\ Len(pollers) = 0 /\ DOMAIN pollers = {}
  BY EmptySeq DEF PollersInit
<1>2. PollersTypeOK /\ RegistryExact
  BY <1>1 DEF PollersInit, PollersTypeOK, RegistryExact, Unregistered
<1>3. stopExpired \in BOOLEAN /\ managerDone \in BOOLEAN
  BY DEF PollersInit
<1> QED BY <1>2, <1>3 DEF PollersInv

(* A poller that continues is registered as before.                        *)
LEMMA PollerContinues ==
  ASSUME PollersInv, NEW i \in DOMAIN pollers, Continues(i),
         UNCHANGED <<registry, managerDone, stopTarget, stopExpired>>
  PROVE  PollersInv'
<1>1. /\ pollers \in Seq(Poller) /\ DOMAIN pollers = 1 .. Len(pollers)
  BY DEF PollersInv, PollersTypeOK
<1>2. /\ pollers' \in Seq(Poller) /\ Len(pollers') = Len(pollers)
      /\ DOMAIN pollers' = DOMAIN pollers
      /\ \A j \in DOMAIN pollers :
           /\ pollers'[j].id = pollers[j].id
           /\ pollers'[j].state = "done" <=> pollers[j].state = "done"
  BY <1>1, Replaced DEF Continues
<1>3. PollersTypeOK /\ RegistryExact
  BY DEF PollersInv
<1>4. PollersTypeOK'
  BY <1>2, <1>3 DEF PollersTypeOK
<1>5. RegistryExact'
  <2>1. ASSUME NEW id \in PollerIDs, registry'[id] # Unregistered
        PROVE  pollers'[registry'[id]].id = id /\ pollers'[registry'[id]].state # "done"
    <3>1. registry[id] \in DOMAIN pollers
      BY <1>1, <1>3, <2>1 DEF PollersTypeOK, Unregistered
    <3>2. pollers[registry[id]].id = id /\ pollers[registry[id]].state # "done"
      BY <1>3, <2>1 DEF RegistryExact
    <3> QED BY <3>1, <3>2, <1>2
  <2>2. ASSUME ~stopExpired', NEW j \in DOMAIN pollers', pollers'[j].state # "done"
        PROVE  registry'[pollers'[j].id] = j
    <3>1. j \in DOMAIN pollers /\ pollers[j].state # "done" /\ pollers'[j].id = pollers[j].id
      BY <1>2, <2>2
    <3> QED BY <3>1, <1>3, <2>2 DEF RegistryExact
  <2> QED BY <2>1, <2>2 DEF RegistryExact
<1>6. stopExpired' \in BOOLEAN /\ managerDone' \in BOOLEAN
  BY DEF PollersInv
<1> QED BY <1>4, <1>5, <1>6 DEF PollersInv

(* Every change of the state of a goroutine but its end continues the      *)
(* poller.                                                                 *)
LEMMA Moved ==
  ASSUME PollersInv, NEW i \in DOMAIN pollers, NEW state \in PollerStates \ {"done"},
         pollers[i].state # "done", Move(i, state)
  PROVE  Continues(i)
<1> DEFINE p == [pollers[i] EXCEPT !.state = state,
                                   !.attempt = IF state = "backoff" THEN @ ELSE 0]
<1>1. pollers \in Seq(Poller) /\ pollers[i] \in Poller
  BY DEF PollersInv, PollersTypeOK
<1>2. p \in Poller /\ p.id = pollers[i].id /\ p.state = state
  BY <1>1 DEF Poller
<1>3. pollers' = [pollers EXCEPT ![i] = p]
  BY <1>1 DEF Move
<1> QED BY <1>2, <1>3 DEF Continues

(* So do the steps of its loop before the cleanup.                         *)
LEMMA PollerActions ==
  ASSUME PollersInv, NEW i \in DOMAIN pollers,
         \/ PollerTick(i) \/ PollerDone(i)
         \/ \E found, shouldStop \in BOOLEAN : PollSucceeds(i, found, shouldStop)
         \/ PollFails(i) \/ Retry(i) \/ BackoffDone(i) \/ PollPanics(i) \/ ReceiveResults(i)
  PROVE  Continues(i) /\ UNCHANGED <<registry, managerDone, stopTarget, stopExpired>>
<1>1. /\ pollers \in Seq(Poller) /\ i \in DOMAIN pollers /\ pollers[i] \in Poller
      /\ ChannelSize \in Nat
  BY PollersAssumption DEF PollersInv, PollersTypeOK
<1>2. CASE PollerTick(i) \/ PollerDone(i) \/ PollFails(i) \/ BackoffDone(i) \/ PollPanics(i)
  BY <1>2, Moved DEF PollerTick, PollerDone, PollFails, BackoffDone, PollPanics, PollerStates
<1>3. ASSUME NEW found \in BOOLEAN, NEW shouldStop \in BOOLEAN, PollSucceeds(i, found, shouldStop)
      PROVE  Continues(i) /\ UNCHANGED <<registry, managerDone, stopTarget, stopExpired>>
  <2> DEFINE n == pollers[i].results
             r == IF found /\ n < ChannelSize THEN n + 1 ELSE n
             q == IF shouldStop THEN "cleanup" ELSE "select"
             p == [pollers[i] EXCEPT !.state = q, !.attempt = 0, !.results = r]
  <2>1. CASE pollers' = [pollers EXCEPT
           ![i].state = IF shouldStop THEN "cleanup" ELSE "select",
           ![i].attempt = 0,
           ![i].results = IF found /\ @ < ChannelSize THEN @ + 1 ELSE @]
    <3>1. pollers' = [pollers EXCEPT ![i] = p]
      BY <2>1, <1>1
    <3>a. r \in Nat /\ q \in PollerStates \ {"done"}
      BY <1>1 DEF Poller, PollerStates
    <3>2. p \in Poller /\ p.id = pollers[i].id /\ p.state # "done"
      <4> HIDE DEF r, q
      <4> QED BY <1>1, <3>a DEF Poller
    <3>3. pollers[i].state # "done"
      BY <1>3 DEF PollSucceeds
    <3> QED BY <1>3, <3>1, <3>2, <3>3 DEF Continues, PollSucceeds
  <2>2. CASE Move(i, "select")
    BY <1>3, <2>2, Moved DEF PollSucceeds, PollerStates
  <2> QED BY <1>3, <2>1, <2>2 DEF PollSucceeds
<1>4. CASE Retry(i)
  <2> DEFINE n == IF pollers[i].maxRetries < 0 THEN 0 ELSE pollers[i].attempt + 1
             p == [pollers[i] EXCEPT !.state = "poll", !.attempt = n]
  <2>1. pollers' = [pollers EXCEPT ![i] = p]
    BY <1>1, <1>4 DEF Retry
  <2>a. n \in Nat
    BY <1>1 DEF Poller
  <2>2. p \in Poller /\ p.id = pollers[i].id /\ p.state # "done"
    <3> HIDE DEF n
    <3> QED BY <1>1, <2>a DEF Poller, PollerStates
  <2> QED BY <1>4, <2>1, <2>2 DEF Continues, Retry
<1>5. CASE ReceiveResults(i)
  <2> DEFINE n == pollers[i].results - 1
             p == [pollers[i] EXCEPT !.results = n]
  <2>1. pollers' = [pollers EXCEPT ![i] = p]
    BY <1>1, <1>5 DEF ReceiveResults
  <2>a. n \in Nat
    BY <1>1, <1>5 DEF Poller, ReceiveResults
  <2>2. p \in Poller /\ p.id = pollers[i].id /\ p.state = pollers[i].state
    <3> HIDE DEF n
    <3> QED BY <1>1, <2>a DEF Poller
  <2> QED BY <1>5, <2>1, <2>2 DEF Continues, ReceiveResults
<1> QED BY <1>2, <1>3, <1>4, <1>5

(* The pollers keep the invariant: those that start enter the registry,    *)
(* those that end or are removed leave it.                                 *)
LEMMA PollersKept == PollersInv /\ PollersNext => PollersInv'
<1> SUFFICES ASSUME PollersInv, PollersNext PROVE PollersInv'
  OBVIOUS
<1>1. /\ pollers \in Seq(Poller) /\ DOMAIN pollers = 1 .. Len(pollers) /\ Len(pollers) \in Nat
      /\ registry \in [PollerIDs -> 0 .. Len(pollers)]
      /\ stopTarget \in [Stoppers -> 0 .. Len(pollers)]
  BY DEF PollersInv, PollersTypeOK
<1>2. RegistryExact
  BY DEF PollersInv
<1>3. stopExpired \in BOOLEAN /\ managerDone \in BOOLEAN
  BY DEF PollersInv
<1>a. \A i \in DOMAIN pollers : pollers[i] \in Poller
  BY <1>1
<1>b. \A id \in PollerIDs : registry[id] # 0 =>
        pollers[registry[id]].id = id /\ pollers[registry[id]].state # "done"
  BY <1>2 DEF RegistryExact, Unregistered
<1>4. ASSUME NEW id \in PollerIDs, NEW max \in Retries, RunPoller(id, max) PROVE PollersInv'
  <2> DEFINE new == [id |-> id, state |-> "select", cancelled |-> managerDone,
                     maxRetries |-> max, attempt |-> 0, results |-> 0]
  <2>1. new \in Poller
    <3>1. max \in Int
      BY PollersAssumption DEF Retries
    <3> QED BY <1>3, <3>1 DEF Poller, PollerStates
  <2>2. /\ pollers' = Append(pollers, new) /\ registry[id] = 0
        /\ registry' = [registry EXCEPT ![id] = Len(pollers')]
        /\ UNCHANGED <<managerDone, stopTarget, stopExpired>>
    BY <1>4 DEF RunPoller, Unregistered
  <2>3. new.id = id /\ new.state = "select"
    OBVIOUS
  <2> HIDE DEF new
  <2>4. /\ pollers' \in Seq(Poller) /\ Len(pollers') = Len(pollers) + 1
        /\ DOMAIN pollers' = 1 .. Len(pollers) + 1
        /\ pollers'[Len(pollers) + 1] = new
        /\ \A j \in 1 .. Len(pollers) : pollers'[j] = pollers[j]
    BY <1>1, <2>1, <2>2, AppendProperties
  <2>5. PollersTypeOK'
    BY <1>1, <2>2, <2>4 DEF PollersTypeOK
  <2>6. RegistryExact'
    BY <1>1, <1>2, <2>2, <2>3, <2>4 DEF RegistryExact, Unregistered
  <2>7. stopExpired' \in BOOLEAN /\ managerDone' \in BOOLEAN
    BY <1>3, <2>2
  <2> QED BY <2>5, <2>6, <2>7 DEF PollersInv
<1>5. ASSUME NEW s \in Stoppers, NEW id \in PollerIDs, StopPoller(s, id) PROVE PollersInv'
  <2> DEFINE n == registry[id]
             p == [pollers[n] EXCEPT !.cancelled = TRUE]
  <2>1. /\ n \in DOMAIN pollers /\ pollers' = [pollers EXCEPT ![n] = p]
        /\ stopTarget' = [stopTarget EXCEPT ![s] = n]
        /\ UNCHANGED <<registry, managerDone, stopExpired>>
    BY <1>1, <1>5 DEF StopPoller, Unregistered
  <2>2. p \in Poller /\ p.id = pollers[n].id /\ p.state = pollers[n].state
    BY <1>1, <1>a, <2>1 DEF Poller
  <2> HIDE DEF n, p
  <2>3. /\ pollers' \in Seq(Poller) /\ Len(pollers') = Len(pollers)
        /\ DOMAIN pollers' = DOMAIN pollers
        /\ \A j \in DOMAIN pollers :
             pollers'[j].id = pollers[j].id /\ pollers'[j].state = pollers[j].state
    BY <1>1, <2>1, <2>2, Replaced
  <2>4. PollersTypeOK'
    BY <1>1, <2>1, <2>3 DEF PollersTypeOK
  <2>5. RegistryExact'
    BY <1>1, <1>2, <2>1, <2>3 DEF RegistryExact, Unregistered
  <2>6. stopExpired' \in BOOLEAN /\ managerDone' \in BOOLEAN
    BY <1>3, <2>1
  <2> QED BY <2>4, <2>5, <2>6 DEF PollersInv
<1>6. ASSUME NEW s \in Stoppers, StopReturns(s) PROVE PollersInv'
  <2>1. PollersTypeOK' /\ RegistryExact'
    BY <1>1, <1>2, <1>6 DEF StopReturns, PollersTypeOK, RegistryExact, Unregistered
  <2>2. stopExpired' \in BOOLEAN /\ managerDone' \in BOOLEAN
    BY <1>3, <1>6 DEF StopReturns
  <2> QED BY <2>1, <2>2 DEF PollersInv
<1>7. ASSUME NEW s \in Stoppers, StopExpires(s) PROVE PollersInv'
  <2>1. PollersTypeOK' /\ RegistryExact'
    <3> DEFINE id == pollers[stopTarget[s]].id
    <3>1. /\ id \in PollerIDs /\ registry' = [registry EXCEPT ![id] = 0]
          /\ stopTarget' = [stopTarget EXCEPT ![s] = 0]
          /\ pollers' = pollers /\ stopExpired'
      BY <1>1, <1>a, <1>7 DEF StopExpires, Unregistered, Poller
    <3> HIDE DEF id
    <3> QED BY <1>1, <1>2, <3>1 DEF PollersTypeOK, RegistryExact, Unregistered
  <2>2. stopExpired' \in BOOLEAN /\ managerDone' \in BOOLEAN
    BY <1>3, <1>7 DEF StopExpires
  <2> QED BY <2>1, <2>2 DEF PollersInv
<1>8. CASE CloseManager
  <2>1. /\ pollers' = [i \in 1 .. Len(pollers) |-> [pollers[i] EXCEPT !.cancelled = TRUE]]
        /\ UNCHANGED <<registry, stopTarget, stopExpired>>
    BY <1>1, <1>8 DEF CloseManager
  <2>2. \A i \in 1 .. Len(pollers) : [pollers[i] EXCEPT !.cancelled = TRUE] \in Poller
    BY <1>1, <1>a DEF Poller
  <2>3. pollers' \in Seq(Poller) /\ Len(pollers') = Len(pollers)
    BY <1>1, <2>1, <2>2
  <2>4. \A i \in 1 .. Len(pollers) :
          pollers'[i].id = pollers[i].id /\ pollers'[i].state = pollers[i].state
    BY <1>1, <1>a, <2>1 DEF Poller
  <2>5. PollersTypeOK' /\ RegistryExact'
    BY <1>1, <1>2, <2>1, <2>3, <2>4 DEF PollersTypeOK, RegistryExact, Unregistered
  <2>6. stopExpired' \in BOOLEAN /\ managerDone' \in BOOLEAN
    BY <1>3, <1>8 DEF CloseManager
  <2> QED BY <2>5, <2>6 DEF PollersInv
<1>9. ASSUME NEW i \in DOMAIN pollers, CleanUp(i) PROVE PollersInv'
  <2> DEFINE p == [pollers[i] EXCEPT !.state = "done", !.attempt = 0]
  <2>1. pollers' = [pollers EXCEPT ![i] = p]
    BY <1>1, <1>9 DEF CleanUp, Move
  <2>2. p \in Poller /\ p.id = pollers[i].id /\ p.state = "done"
    BY <1>1, <1>a, <1>9 DEF Poller, PollerStates
  <2> HIDE DEF p
  <2>3. /\ pollers' \in Seq(Poller) /\ Len(pollers') = Len(pollers)
        /\ DOMAIN pollers' = DOMAIN pollers /\ pollers'[i] = p
        /\ \A j \in DOMAIN pollers : j # i => pollers'[j] = pollers[j]
    BY <1>1, <2>1, <2>2, Replaced
  <2>4. /\ pollers[i].id \in PollerIDs /\ pollers[i].state = "cleanup"
        /\ registry' = [registry EXCEPT ![pollers[i].id] = 0]
        /\ UNCHANGED <<managerDone, stopTarget, stopExpired>>
    BY <1>1, <1>a, <1>9 DEF CleanUp, Poller, Unregistered
  <2>5. PollersTypeOK'
    BY <1>1, <2>3, <2>4 DEF PollersTypeOK
  <2>6. RegistryExact'
    <3> DEFINE old == pollers[i].id
    <3>1. /\ old \in PollerIDs /\ registry' = [registry EXCEPT ![old] = 0]
          /\ pollers'[i].id = old /\ pollers'[i].state = "done"
      BY <2>2, <2>3, <2>4
    <3>2. ASSUME NEW id \in PollerIDs, registry'[id] # 0
          PROVE  /\ pollers'[registry'[id]].id = id
                 /\ pollers'[registry'[id]].state # "done"
      <4>1. id # old /\ registry'[id] = registry[id] /\ registry[id] \in DOMAIN pollers
        BY <1>1, <3>1, <3>2
      <4>2. pollers[registry[id]].id = id /\ pollers[registry[id]].state # "done"
        BY <1>b, <3>2, <4>1
      <4>3. registry[id] # i
        BY <4>1, <4>2
      <4> QED BY <2>3, <4>1, <4>2, <4>3
    <3>3. ASSUME ~stopExpired', NEW j \in DOMAIN pollers', pollers'[j].state # "done"
          PROVE  registry'[pollers'[j].id] = j
      <4>1. j # i /\ pollers'[j] = pollers[j] /\ j \in DOMAIN pollers
        BY <2>3, <3>1, <3>3
      <4>2. registry[pollers[j].id] = j
        BY <1>2, <2>4, <3>3, <4>1 DEF RegistryExact
      <4>3. registry[old] = i
        BY <1>2, <2>4, <3>3 DEF RegistryExact
      <4>4. pollers[j].id \in PollerIDs /\ pollers[j].id # old
        BY <1>a, <4>1, <4>2, <4>3 DEF Poller
      <4> QED BY <1>1, <3>1, <4>1, <4>2, <4>4
    <3> QED BY <3>2, <3>3 DEF RegistryExact, Unregistered
  <2>7. stopExpired' \in BOOLEAN /\ managerDone' \in BOOLEAN
    BY <1>3, <2>4
  <2> QED BY <2>5, <2>6, <2>7 DEF PollersInv
<1> QED
  BY <1>4, <1>5, <1>6, <1>7, <1>8, <1>9, PollerActions, PollerContinues DEF PollersNext, PollerStep

--------------------------------------------------------------------------------
(* OneTimePoller.                                                          *)
OneTimeTypeOK ==
  /\ config \in [timed : BOOLEAN, retries : Int]
  /\ run \in [at : {"idle", "select", "poll", "backoff", "done"}, attempt : Nat, first : BOOLEAN]
  /\ result \in [polls : Nat, batches : Nat, errors : Nat, stopped : BOOLEAN, timedOut : BOOLEAN]
  /\ metrics \in [polls : Nat, errors : Nat]
  /\ ctx \in [cancelled : BOOLEAN, expired : BOOLEAN]

(* Before the end of the first cycle nothing has ended or been counted;    *)
(* who waits for a retry has one left; and only a run with a timeout has a *)
(* deadline.                                                               *)
OneTimeInv ==
  /\ OneTimeTypeOK /\ ResultExact
  /\ run.first => run.at \notin {"select", "done"} /\ result.errors = 0
  /\ run.at = "backoff" /\ config.retries >= 0 => run.attempt < config.retries
  /\ ctx.expired => config.timed

(* No cycle has begun.                                                     *)
LEMMA OneTimeInitial == OneTimeInit => OneTimeInv
<1> SUFFICES ASSUME OneTimeInit PROVE OneTimeInv
  OBVIOUS
<1>1. OneTimeTypeOK
  BY OneTimePollerAssumption DEF OneTimeInit, OneTimeTypeOK
<1>2. config.retries \in Int
  BY OneTimePollerAssumption DEF OneTimeInit
<1> QED BY <1>1, <1>2 DEF OneTimeInit, OneTimeInv, ResultExact

(* A cycle, its retries and its end keep the invariant.                    *)
LEMMA OneTimeKept == OneTimeInv /\ OneTimeNext => OneTimeInv'
<1> SUFFICES ASSUME OneTimeInv, OneTimeNext PROVE OneTimeInv'
  OBVIOUS
<1> USE OneTimePollerAssumption
<1>1. CASE BeginCycle
  BY <1>1 DEF BeginCycle, OneTimeInv, OneTimeTypeOK, ResultExact
<1>2. ASSUME run.at \in {"poll", "backoff"}, CycleFails PROVE OneTimeInv'
  <2> DEFINE e == Counted(result.errors)
             m == IF run.first THEN metrics.errors ELSE Counted(metrics.errors)
  <2>1. /\ result.errors \in Nat /\ metrics.errors \in Nat
        /\ metrics.errors <= result.errors /\ result.errors <= metrics.errors + 1
        /\ run.first => result.errors = 0
    BY DEF OneTimeInv, OneTimeTypeOK, ResultExact
  <2>2. e \in Nat /\ m \in Nat /\ m <= e /\ e <= m + 1
    BY <2>1 DEF Counted
  <2>3. /\ run' = [run EXCEPT !.at = "select", !.first = FALSE]
        /\ result' = [result EXCEPT !.errors = e]
        /\ metrics' = [metrics EXCEPT !.errors = m]
        /\ UNCHANGED <<config, ctx>>
    BY <1>2 DEF CycleFails, OneTimeInv, OneTimeTypeOK
  <2> HIDE DEF e, m
  <2> QED BY <1>2, <2>2, <2>3 DEF OneTimeInv, OneTimeTypeOK, ResultExact
<1>a. ASSUME run.at = "poll", MayRetry, run' = [run EXCEPT !.at = "backoff"],
             UNCHANGED <<config, result, metrics, ctx>>
      PROVE  OneTimeInv'
  BY <1>a DEF MayRetry, OneTimeInv, OneTimeTypeOK, ResultExact
<1>b. CASE PollErrs
  BY <1>2, <1>a, <1>b DEF PollErrs
<1>3. CASE RetryPoll
  <2> DEFINE n == IF config.retries < 0 THEN 0 ELSE run.attempt + 1
  <2>1. /\ run.at = "backoff" /\ run' = [run EXCEPT !.at = "poll", !.attempt = n]
        /\ UNCHANGED <<config, result, metrics, ctx>>
    BY <1>3 DEF RetryPoll, OneTimeInv, OneTimeTypeOK
  <2>2. n \in Nat /\ (config.retries >= 0 => n <= config.retries)
    BY <1>3 DEF RetryPoll, OneTimeInv, OneTimeTypeOK
  <2> HIDE DEF n
  <2> QED BY <2>1, <2>2 DEF OneTimeInv, OneTimeTypeOK, ResultExact
<1>4. CASE BackoffCancelled
  BY <1>2, <1>4 DEF BackoffCancelled
<1>5. CASE RunEnds
  BY <1>5 DEF RunEnds, PollingDone, OneTimeInv, OneTimeTypeOK, ResultExact
<1>6. ASSUME NEW found \in BOOLEAN, NEW shouldStop \in BOOLEAN, PollAnswers(found, shouldStop)
      PROVE  OneTimeInv'
  <2> DEFINE p == Counted(result.polls)
             b == IF found THEN Counted(result.batches) ELSE result.batches
             q == IF shouldStop THEN "done" ELSE "select"
  <2>1. result.polls \in Nat /\ result.batches \in Nat /\ result.batches <= result.polls
    BY DEF OneTimeInv, OneTimeTypeOK, ResultExact
  <2>2. p \in Nat \ {0} /\ b \in Nat /\ b <= p
    BY <2>1 DEF Counted
  <2>3. q \in {"done", "select"} /\ (shouldStop <=> q = "done")
    OBVIOUS
  <2>4. /\ run.at = "poll" /\ run' = [run EXCEPT !.at = q, !.first = FALSE]
        /\ result' = [result EXCEPT !.polls = p, !.stopped = shouldStop, !.batches = b]
        /\ metrics' = [metrics EXCEPT !.polls = p]
        /\ UNCHANGED <<config, ctx>>
    BY <1>6 DEF PollAnswers, OneTimeInv, OneTimeTypeOK, ResultExact
  <2> HIDE DEF p, b, q
  <2>5. OneTimeTypeOK'
    BY <1>6, <2>2, <2>3, <2>4 DEF OneTimeInv, OneTimeTypeOK
  <2> QED BY <1>6, <2>2, <2>3, <2>4, <2>5 DEF OneTimeInv, OneTimeTypeOK, ResultExact
<1>7. CASE CancelContext
  BY <1>7 DEF CancelContext, OneTimeInv, OneTimeTypeOK, ResultExact
<1>8. CASE DeadlinePasses
  BY <1>8 DEF DeadlinePasses, PollingDone, OneTimeInv, OneTimeTypeOK, ResultExact
<1> QED BY <1>1, <1>b, <1>3, <1>4, <1>5, <1>6, <1>7, <1>8 DEF OneTimeNext, OneTimeStep

--------------------------------------------------------------------------------
(* A step is one of the part that runs.                                    *)
LEMMA PartStep ==
  ASSUME RunnersNext
  PROVE  /\ part' = part
         /\ part = "buffer" => Next
         /\ part = "workflow" => WorkflowNext
         /\ part = "pollers" => PollersNext
         /\ part = "onetime" => OneTimeNext
         /\ part = "pool" => WorkerPoolNext
         /\ part = "scheduler" => SchedulerNext
         /\ part = "states" => StateMachineNext
         /\ part = "triggers" => TriggersNext
         /\ part = "producer" => KafkaProducerNext
         /\ part = "consumer" => KafkaConsumerNext
BY DEF RunnersNext, In

(* FlushBuffer: see FlushBuffer_proofs.                                    *)
THEOREM ItemsAreKept == RunnersSpec => []BufferExact
<1> DEFINE I == part = "buffer" => FlushBufferInv
<1>1. RunnersInit => I
  BY FlushBufferInitial DEF RunnersInit
<1>2. I /\ [RunnersNext]_allVars => I'
  <2> SUFFICES ASSUME I, [RunnersNext]_allVars PROVE I'
    OBVIOUS
  <2>1. CASE RunnersNext
    BY <2>1, PartStep, FlushBufferKept
  <2>2. CASE UNCHANGED allVars
    BY <2>2, FlushBufferStays DEF allVars
  <2> QED BY <2>1, <2>2
<1>3. I => BufferExact
  BY PlacesAddUp DEF BufferExact
<1> QED BY <1>1, <1>2, <1>3, PTL DEF RunnersSpec

(* Pollers: what the manager's registry says agrees with the pollers that  *)
(* run. OneTimePoller: the result that Run returns says why the run ended. *)
THEOREM PollersAgree == RunnersSpec => []PollersExact
<1> DEFINE I == /\ part = "pollers" => PollersInv
                /\ part = "onetime" => OneTimeInv
<1>1. RunnersInit => I
  BY PollersInitial, OneTimeInitial DEF RunnersInit
<1>2. I /\ [RunnersNext]_allVars => I'
  <2> SUFFICES ASSUME I, [RunnersNext]_allVars PROVE I'
    OBVIOUS
  <2>1. CASE RunnersNext
    BY <2>1, PartStep, PollersKept, OneTimeKept
  <2>2. CASE UNCHANGED allVars
    <3>1. part' = part /\ pollersVars' = pollersVars /\ oneTimeVars' = oneTimeVars
      BY <2>2 DEF allVars
    <3>2. PollersInv => PollersInv'
      BY <3>1 DEF pollersVars, PollersInv, PollersTypeOK, RegistryExact, Unregistered
    <3>3. OneTimeInv => OneTimeInv'
      BY <3>1 DEF oneTimeVars, OneTimeInv, OneTimeTypeOK, ResultExact
    <3> QED BY <3>1, <3>2, <3>3
  <2> QED BY <2>1, <2>2
<1>3. I => PollersExact
  BY DEF PollersInv, OneTimeInv, PollersExact
<1> QED BY <1>1, <1>2, <1>3, PTL DEF RunnersSpec

--------------------------------------------------------------------------------
(* Scheduler.                                                              *)
Task == [id : TaskIDs, oneTime : BOOLEAN, timer : BOOLEAN, others : Nat, fired : Nat,
         executing : Nat, runs : Nat, retired : BOOLEAN]

(* Chains, of a record; and how often the handler of a task that is to run *)
(* once has been or may still be started.                                  *)
Links(t) == (IF t.timer THEN 1 ELSE 0) + t.others + t.fired + t.executing
RunsAhead(t) == (IF t.timer THEN 1 ELSE 0) + t.others + t.fired + t.runs

SchedulerTypeOK ==
  /\ tasks \in Seq(Task) /\ starts \in Nat
  /\ scheduled \in [TaskIDs -> 0 .. Len(tasks)]

(* No more chains than starts, nor more runs of a task that runs once.     *)
WithinStarts(t, n) ==
  /\ Links(t) <= n /\ (t.oneTime => RunsAhead(t) <= n)
  /\ t.retired => Links(t) = 0

(* Every registered task of a running scheduler has a chain that will      *)
(* fire, and none has more of them than there were starts.                 *)
SchedulerInv ==
  /\ SchedulerTypeOK
  /\ running \in BOOLEAN
  /\ running => starts > 0
  /\ \A id \in TaskIDs : scheduled[id] # 0 => tasks[scheduled[id]].id = id
  /\ \A i \in 1 .. Len(tasks) : WithinStarts(tasks[i], starts)
  /\ \A i \in 1 .. Len(tasks) : Registered(i) => ~tasks[i].retired
  /\ running => \A i \in 1 .. Len(tasks) : Registered(i) => Links(tasks[i]) > 0

(* Both are numbers.                                                       *)
LEMMA LinksNat == ASSUME NEW t \in Task PROVE Links(t) \in Nat /\ RunsAhead(t) \in Nat
BY DEF Links, RunsAhead, Task

(* No task is registered.                                                  *)
LEMMA SchedulerInitial == SchedulerInit => SchedulerInv
<1> SUFFICES ASSUME SchedulerInit PROVE SchedulerInv
  OBVIOUS
<1>1. tasks \in Seq(Task) /\ Len(tasks) = 0
  BY EmptySeq DEF SchedulerInit
<1>2. running \in BOOLEAN /\ ~running
  BY DEF SchedulerInit
<1>3. SchedulerTypeOK /\ \A id \in TaskIDs : scheduled[id] = 0
  BY <1>1 DEF SchedulerInit, SchedulerTypeOK, NotRegistered
<1> QED BY <1>1, <1>2, <1>3 DEF SchedulerInv

(* One task changes, and perhaps IDs are removed.                          *)
LEMMA TaskChanges ==
  ASSUME SchedulerInv, NEW i \in 1 .. Len(tasks), NEW t \in Task,
         tasks' = [tasks EXCEPT ![i] = t], starts' = starts, running' = running,
         t.id = tasks[i].id, WithinStarts(t, starts),
         scheduled' \in [TaskIDs -> 0 .. Len(tasks)],
         \A id \in TaskIDs : scheduled'[id] \in {0, scheduled[id]},
         scheduled'[t.id] = i => ~t.retired,
         running /\ scheduled'[t.id] = i => Links(t) > 0
  PROVE  SchedulerInv'
<1>1. /\ tasks \in Seq(Task) /\ \A j \in 1 .. Len(tasks) : tasks[j] \in Task
      /\ DOMAIN tasks = 1 .. Len(tasks)
  BY DEF SchedulerInv, SchedulerTypeOK
<1>2. /\ tasks' \in Seq(Task) /\ Len(tasks') = Len(tasks) /\ tasks'[i] = t
      /\ \A j \in 1 .. Len(tasks) : j # i => tasks'[j] = tasks[j]
  BY <1>1, Replaced
<1>3. \A j \in 1 .. Len(tasks) : tasks[j].id \in TaskIDs /\ tasks'[j].id = tasks[j].id
  BY <1>1, <1>2 DEF Task
<1>4. SchedulerTypeOK'
  BY <1>2 DEF SchedulerInv, SchedulerTypeOK
<1>5. running' \in BOOLEAN /\ (running' => starts' > 0)
  BY DEF SchedulerInv
<1>6. \A id \in TaskIDs : scheduled'[id] # 0 => tasks'[scheduled'[id]].id = id
  <2> TAKE id \in TaskIDs
  <2>1. scheduled[id] \in 0 .. Len(tasks) /\ (scheduled[id] # 0 => tasks[scheduled[id]].id = id)
    BY DEF SchedulerInv, SchedulerTypeOK
  <2> QED BY <1>3, <2>1
<1>7. \A j \in 1 .. Len(tasks) : WithinStarts(tasks'[j], starts)
  BY <1>2 DEF SchedulerInv
<1>8. \A j \in 1 .. Len(tasks) : Registered(j)' => ~tasks'[j].retired
  <2> TAKE j \in 1 .. Len(tasks)
  <2>1. Registered(j) => ~tasks[j].retired
    BY DEF SchedulerInv
  <2> QED BY <1>2, <1>3, <2>1 DEF Registered
<1>9. running => \A j \in 1 .. Len(tasks) : Registered(j)' => Links(tasks'[j]) > 0
  <2> SUFFICES ASSUME running, NEW j \in 1 .. Len(tasks) PROVE Registered(j)' => Links(tasks'[j]) > 0
    OBVIOUS
  <2>1. Registered(j) => Links(tasks[j]) > 0
    BY DEF SchedulerInv
  <2> QED BY <1>2, <1>3, <2>1 DEF Registered
<1> QED BY <1>2, <1>4, <1>5, <1>6, <1>7, <1>8, <1>9 DEF SchedulerInv

(* What the steps make of a task q: t, the same task with so many chains   *)
(* more, and so many starts of its handler ahead or done.                  *)
Becomes(q, t, links, ahead) ==
  /\ t \in Task /\ t.id = q.id /\ t.oneTime = q.oneTime /\ t.retired = q.retired
  /\ Links(t) = Links(q) + links /\ RunsAhead(t) = RunsAhead(q) + ahead

(* How a step of a timer or a handler changes the record of its task.      *)
LEMMA TaskSteps ==
  ASSUME NEW q \in Task
  PROVE  /\ q.timer => Becomes(q, [q EXCEPT !.timer = FALSE, !.fired = @ + 1], 0, 0)
         /\ q.others > 0 => Becomes(q, [q EXCEPT !.others = @ - 1, !.fired = @ + 1], 0, 0)
         /\ q.fired > 0 =>
              /\ Becomes(q, [q EXCEPT !.fired = @ - 1, !.executing = @ + 1, !.runs = @ + 1], 0, 0)
              /\ Becomes(q, [q EXCEPT !.fired = @ - 1], -1, -1)
         /\ q.executing > 0 => Becomes(q, [q EXCEPT !.executing = @ - 1], -1, 0)
         /\ Becomes(q, Arm(q), 1, 1)
<1>1. /\ q = [id |-> q.id, oneTime |-> q.oneTime, timer |-> q.timer, others |-> q.others,
              fired |-> q.fired, executing |-> q.executing, runs |-> q.runs,
              retired |-> q.retired]
      /\ q.id \in TaskIDs /\ q.oneTime \in BOOLEAN /\ q.timer \in BOOLEAN
      /\ q.others \in Nat /\ q.fired \in Nat /\ q.executing \in Nat
      /\ q.runs \in Nat /\ q.retired \in BOOLEAN
  BY DEF Task
<1>2. ASSUME q.timer PROVE Becomes(q, [q EXCEPT !.timer = FALSE, !.fired = @ + 1], 0, 0)
  <2> DEFINE m == q.fired + 1
             t == [q EXCEPT !.timer = FALSE, !.fired = m]
  <2>1. t \in Task
    <3>1. m \in Nat
      BY <1>1, <1>2
    <3> HIDE DEF m
    <3> QED BY <1>1, <3>1 DEF Task
  <2>2. /\ t.id = q.id /\ t.oneTime = q.oneTime /\ t.retired = q.retired
        /\ t.timer = FALSE /\ t.others = q.others /\ t.fired = q.fired + 1
        /\ t.executing = q.executing /\ t.runs = q.runs
    BY <1>1
  <2> HIDE DEF t
  <2>3. Becomes(q, t, 0, 0)
    BY <1>1, <2>1, <2>2, <1>2 DEF Becomes, Links, RunsAhead
  <2> QED BY <2>3 DEF t
<1>3. ASSUME q.others > 0
      PROVE  Becomes(q, [q EXCEPT !.others = @ - 1, !.fired = @ + 1], 0, 0)
  <2> DEFINE m == q.others - 1
             n == q.fired + 1
             t == [q EXCEPT !.others = m, !.fired = n]
  <2>1. t \in Task
    <3>1. m \in Nat /\ n \in Nat
      BY <1>1, <1>3
    <3> HIDE DEF m, n
    <3> QED BY <1>1, <3>1 DEF Task
  <2>2. /\ t.id = q.id /\ t.oneTime = q.oneTime /\ t.retired = q.retired
        /\ t.timer = q.timer /\ t.others = q.others - 1 /\ t.fired = q.fired + 1
        /\ t.executing = q.executing /\ t.runs = q.runs
    BY <1>1
  <2> HIDE DEF t
  <2>3. Becomes(q, t, 0, 0)
    BY <1>1, <2>1, <2>2, <1>3 DEF Becomes, Links, RunsAhead
  <2> QED BY <2>3 DEF t
<1>4. ASSUME q.fired > 0
      PROVE  Becomes(q, [q EXCEPT !.fired = @ - 1, !.executing = @ + 1, !.runs = @ + 1], 0, 0)
  <2> DEFINE m == q.fired - 1
             n == q.executing + 1
             k == q.runs + 1
             t == [q EXCEPT !.fired = m, !.executing = n, !.runs = k]
  <2>1. t \in Task
    <3>1. m \in Nat /\ n \in Nat /\ k \in Nat
      BY <1>1, <1>4
    <3> HIDE DEF m, n, k
    <3> QED BY <1>1, <3>1 DEF Task
  <2>2. /\ t.id = q.id /\ t.oneTime = q.oneTime /\ t.retired = q.retired
        /\ t.timer = q.timer /\ t.others = q.others /\ t.fired = q.fired - 1
        /\ t.executing = q.executing + 1 /\ t.runs = q.runs + 1
    BY <1>1
  <2> HIDE DEF t
  <2>3. Becomes(q, t, 0, 0)
    BY <1>1, <2>1, <2>2, <1>4 DEF Becomes, Links, RunsAhead
  <2> QED BY <2>3 DEF t
<1>5. ASSUME q.fired > 0 PROVE Becomes(q, [q EXCEPT !.fired = @ - 1], -1, -1)
  BY <1>5 DEF Becomes, Links, RunsAhead, Task
<1>6. ASSUME q.executing > 0 PROVE Becomes(q, [q EXCEPT !.executing = @ - 1], -1, 0)
  BY <1>6 DEF Becomes, Links, RunsAhead, Task
<1>7. Becomes(q, Arm(q), 1, 1)
  <2> DEFINE n == IF q.timer THEN q.others + 1 ELSE q.others
             t == [q EXCEPT !.timer = TRUE, !.others = n]
  <2>1. Arm(q) = t
    BY <1>1 DEF Arm
  <2>2. n \in Nat /\ (q.timer => n = q.others + 1) /\ (~q.timer => n = q.others)
    BY <1>1
  <2> HIDE DEF n
  <2>3. t \in Task
    BY <1>1, <2>2 DEF Task
  <2>4. /\ t.id = q.id /\ t.oneTime = q.oneTime /\ t.retired = q.retired
        /\ t.timer = TRUE /\ t.others = n /\ t.fired = q.fired
        /\ t.executing = q.executing /\ t.runs = q.runs
    BY <1>1
  <2> HIDE DEF t
  <2>5. Becomes(q, t, 1, 1)
    BY <1>1, <2>2, <2>3, <2>4 DEF Becomes, Links, RunsAhead
  <2> QED BY <2>1, <2>5
<1> QED BY <1>2, <1>3, <1>4, <1>5, <1>6, <1>7

(* Registering, Start, Stop, the timers and the handlers keep the          *)
(* invariant.                                                              *)
LEMMA SchedulerKept == SchedulerInv /\ SchedulerNext => SchedulerInv'
<1> SUFFICES ASSUME SchedulerInv, SchedulerNext PROVE SchedulerInv'
  OBVIOUS
<1>1. /\ tasks \in Seq(Task) /\ DOMAIN tasks = 1 .. Len(tasks) /\ Len(tasks) \in Nat
      /\ scheduled \in [TaskIDs -> 0 .. Len(tasks)] /\ starts \in Nat
  BY DEF SchedulerInv, SchedulerTypeOK
<1>2. \A i \in 1 .. Len(tasks) :
        /\ tasks[i] \in Task /\ tasks[i].id \in TaskIDs
        /\ Links(tasks[i]) \in Nat /\ RunsAhead(tasks[i]) \in Nat
  <2> TAKE i \in 1 .. Len(tasks)
  <2>1. tasks[i] \in Task
    BY <1>1
  <2> QED BY <2>1, LinksNat DEF Task
<1>3. running \in BOOLEAN /\ (running => starts > 0)
  BY DEF SchedulerInv
<1>4. \A id \in TaskIDs : scheduled[id] # 0 => tasks[scheduled[id]].id = id
  BY DEF SchedulerInv
<1>5. \A i \in 1 .. Len(tasks) : WithinStarts(tasks[i], starts)
  BY DEF SchedulerInv
<1>6. \A i \in 1 .. Len(tasks) : Registered(i) => ~tasks[i].retired
  BY DEF SchedulerInv
<1>7. \A i \in 1 .. Len(tasks) : running /\ Registered(i) => Links(tasks[i]) > 0
  BY DEF SchedulerInv
(* A step of the callback of task i.                                       *)
<1>8. ASSUME NEW i \in 1 .. Len(tasks), NEW t \in Task,
             t.id = tasks[i].id, t.oneTime = tasks[i].oneTime, t.retired = tasks[i].retired,
             Links(t) <= Links(tasks[i]),
             tasks[i].oneTime => RunsAhead(t) <= RunsAhead(tasks[i]),
             running => Links(t) > 0, Links(tasks[i]) > 0,
             tasks' = [tasks EXCEPT ![i] = t],
             scheduled' = scheduled, running' = running, starts' = starts
      PROVE  SchedulerInv'
  <2>1. Links(t) \in Nat /\ RunsAhead(t) \in Nat
    BY LinksNat
  <2>2. WithinStarts(t, starts)
    BY <1>1, <1>2, <1>5, <1>8, <2>1 DEF WithinStarts
  <2>3. scheduled'[t.id] = i => ~t.retired
    BY <1>6, <1>8 DEF Registered
  <2>4. scheduled' \in [TaskIDs -> 0 .. Len(tasks)]
        /\ \A id \in TaskIDs : scheduled'[id] \in {0, scheduled[id]}
    BY <1>1, <1>8
  <2> QED BY <1>8, <2>2, <2>3, <2>4, TaskChanges
<1>9. ASSUME NEW i \in 1 .. Len(tasks), TimerFires(i) PROVE SchedulerInv'
  <2>3. scheduled' = scheduled /\ running' = running /\ starts' = starts
    BY <1>9 DEF TimerFires
  <2>1. CASE tasks[i].timer /\ tasks' = [tasks EXCEPT ![i].timer = FALSE, ![i].fired = @ + 1]
    <3> DEFINE t == [tasks[i] EXCEPT !.timer = FALSE, !.fired = @ + 1]
    <3>1. Becomes(tasks[i], t, 0, 0)
      BY <1>2, <2>1, TaskSteps
    <3>2. tasks' = [tasks EXCEPT ![i] = t]
      BY <1>1, <2>1
    <3>3. Links(tasks[i]) > 0
      BY <1>2, <2>1 DEF Links, Task
    <3> HIDE DEF t
    <3>4. /\ t \in Task /\ t.id = tasks[i].id /\ t.oneTime = tasks[i].oneTime
          /\ t.retired = tasks[i].retired
          /\ Links(t) <= Links(tasks[i]) /\ RunsAhead(t) <= RunsAhead(tasks[i])
          /\ Links(t) > 0
      BY <1>2, <3>1, <3>3 DEF Becomes
    <3> QED BY <1>2, <1>8, <2>3, <3>2, <3>3, <3>4
  <2>2. CASE tasks[i].others > 0
             /\ tasks' = [tasks EXCEPT ![i].others = @ - 1, ![i].fired = @ + 1]
    <3> DEFINE t == [tasks[i] EXCEPT !.others = @ - 1, !.fired = @ + 1]
    <3>1. Becomes(tasks[i], t, 0, 0)
      BY <1>2, <2>2, TaskSteps
    <3>2. tasks' = [tasks EXCEPT ![i] = t]
      BY <1>1, <2>2
    <3>3. Links(tasks[i]) > 0
      BY <1>2, <2>2 DEF Links, Task
    <3> HIDE DEF t
    <3>4. /\ t \in Task /\ t.id = tasks[i].id /\ t.oneTime = tasks[i].oneTime
          /\ t.retired = tasks[i].retired
          /\ Links(t) <= Links(tasks[i]) /\ RunsAhead(t) <= RunsAhead(tasks[i])
          /\ Links(t) > 0
      BY <1>2, <3>1, <3>3 DEF Becomes
    <3> QED BY <1>2, <1>8, <2>3, <3>2, <3>3, <3>4
  <2> QED BY <1>9, <2>1, <2>2 DEF TimerFires
<1>10. ASSUME NEW i \in 1 .. Len(tasks), ExecuteTask(i) PROVE SchedulerInv'
  <2>1. /\ tasks[i].fired > 0 /\ Links(tasks[i]) > 0
        /\ scheduled' = scheduled /\ running' = running /\ starts' = starts
    BY <1>2, <1>10 DEF ExecuteTask, Links, Task
  <2>2. CASE running /\ tasks' = [tasks EXCEPT ![i].fired = @ - 1, ![i].executing = @ + 1,
                                               ![i].runs = @ + 1]
    <3> DEFINE t == [tasks[i] EXCEPT !.fired = @ - 1, !.executing = @ + 1, !.runs = @ + 1]
    <3>1. Becomes(tasks[i], t, 0, 0)
      BY <1>2, <2>1, TaskSteps
    <3>2. tasks' = [tasks EXCEPT ![i] = t]
      BY <1>1, <2>2
    <3> HIDE DEF t
    <3>3. /\ t \in Task /\ t.id = tasks[i].id /\ t.oneTime = tasks[i].oneTime
          /\ t.retired = tasks[i].retired
          /\ Links(t) <= Links(tasks[i]) /\ RunsAhead(t) <= RunsAhead(tasks[i])
          /\ Links(t) > 0
      BY <1>2, <3>1, <2>1 DEF Becomes
    <3> QED BY <1>2, <1>8, <2>1, <3>2, <3>3
  <2>3. CASE ~running /\ tasks' = [tasks EXCEPT ![i].fired = @ - 1]
    <3> DEFINE t == [tasks[i] EXCEPT !.fired = @ - 1]
    <3>1. Becomes(tasks[i], t, -1, -1)
      BY <1>2, <2>1, TaskSteps
    <3>2. tasks' = [tasks EXCEPT ![i] = t]
      BY <1>1, <2>3
    <3> HIDE DEF t
    <3>3. /\ t \in Task /\ t.id = tasks[i].id /\ t.oneTime = tasks[i].oneTime
          /\ t.retired = tasks[i].retired
          /\ Links(t) <= Links(tasks[i]) /\ RunsAhead(t) <= RunsAhead(tasks[i])
      BY <1>2, <3>1 DEF Becomes
    <3> QED BY <1>2, <1>8, <2>1, <2>3, <3>2, <3>3
  <2> QED BY <1>10, <2>2, <2>3 DEF ExecuteTask
<1>11. ASSUME NEW i \in 1 .. Len(tasks), Reschedule(i) PROVE SchedulerInv'
  <2> DEFINE ended == [tasks[i] EXCEPT !.executing = @ - 1]
             id == tasks[i].id
  <2>1. /\ tasks[i].executing > 0 /\ Links(tasks[i]) > 0
        /\ running' = running /\ starts' = starts
    BY <1>2, <1>11 DEF Reschedule, Links, Task
  <2>2. Becomes(tasks[i], ended, -1, 0) /\ ended \in Task
    BY <1>2, <2>1, TaskSteps DEF Becomes
  <2>3. CASE /\ scheduled' = [scheduled EXCEPT ![id] = NotRegistered]
             /\ tasks' = [tasks EXCEPT ![i] = ended]
    <3> HIDE DEF ended
    <3>1. /\ ended.id = id /\ ended.oneTime = tasks[i].oneTime
          /\ ended.retired = tasks[i].retired
          /\ Links(ended) = Links(tasks[i]) - 1 /\ RunsAhead(ended) = RunsAhead(tasks[i])
      BY <1>2, <2>2 DEF Becomes
    <3>2. WithinStarts(ended, starts)
      BY <1>1, <1>2, <1>5, <2>1, <3>1 DEF WithinStarts
    <3>3. /\ scheduled' \in [TaskIDs -> 0 .. Len(tasks)] /\ scheduled'[ended.id] = 0
          /\ \A d \in TaskIDs : scheduled'[d] \in {0, scheduled[d]}
      BY <1>1, <1>2, <2>3, <3>1 DEF NotRegistered
    <3>4. i # 0 /\ ended.id = tasks[i].id
      BY <1>1, <3>1
    <3> QED BY <2>1, <2>2, <2>3, <3>2, <3>3, <3>4, TaskChanges
  <2>4. CASE /\ tasks' = [tasks EXCEPT ![i] = IF running THEN Arm(ended) ELSE ended]
             /\ scheduled' = scheduled /\ ~tasks[i].oneTime
    <3> HIDE DEF ended
    <3>1. CASE running
      <4>1. Becomes(ended, Arm(ended), 1, 1)
        BY <2>2, TaskSteps
      <4>2. Becomes(tasks[i], Arm(ended), 0, 1)
        BY <1>2, <2>2, <4>1 DEF Becomes
      <4>3. tasks' = [tasks EXCEPT ![i] = Arm(ended)]
        BY <2>4, <3>1
      <4> DEFINE t == Arm(ended)
      <4>4. /\ t \in Task /\ t.id = tasks[i].id /\ t.oneTime = tasks[i].oneTime
            /\ t.retired = tasks[i].retired
            /\ Links(t) <= Links(tasks[i]) /\ Links(t) > 0
        BY <1>2, <2>1, <4>2 DEF Becomes
      <4> HIDE DEF t
      <4>5. tasks' = [tasks EXCEPT ![i] = t]
        BY <4>3 DEF t
      <4> QED BY <1>2, <1>8, <2>1, <2>4, <4>4, <4>5
    <3>2. CASE ~running
      <4>1. tasks' = [tasks EXCEPT ![i] = ended]
        BY <2>4, <3>2
      <4>2. /\ ended.id = tasks[i].id /\ ended.oneTime = tasks[i].oneTime
            /\ ended.retired = tasks[i].retired
            /\ Links(ended) <= Links(tasks[i]) /\ RunsAhead(ended) = RunsAhead(tasks[i])
        BY <1>2, <2>2 DEF Becomes
      <4> QED BY <1>2, <1>8, <2>1, <2>2, <2>4, <3>2, <4>1, <4>2
    <3> QED BY <3>1, <3>2
  <2> HIDE DEF ended
  <2> QED BY <1>11, <2>3, <2>4 DEF Reschedule, ended
<1>12. ASSUME NEW id \in TaskIDs, NEW oneTime \in BOOLEAN, Register(id, oneTime)
       PROVE  SchedulerInv'
  <2> DEFINE new == [id |-> id, oneTime |-> oneTime, timer |-> running, others |-> 0,
                     fired |-> 0, executing |-> 0, runs |-> 0, retired |-> FALSE]
             n == Len(tasks) + 1
  <2>1. new \in Task
    BY <1>3 DEF Task
  <2>2. /\ new.id = id /\ new.retired = FALSE /\ new.oneTime = oneTime
        /\ Links(new) = IF running THEN 1 ELSE 0
        /\ RunsAhead(new) = IF running THEN 1 ELSE 0
    BY DEF Links, RunsAhead
  <2>3. /\ tasks' = Append(tasks, new)
        /\ scheduled' = [scheduled EXCEPT ![id] = Len(tasks')]
        /\ starts' = starts /\ running' = running
    BY <1>12 DEF Register
  <2> HIDE DEF new
  <2>4. WithinStarts(new, starts)
    BY <1>1, <1>3, <2>2 DEF WithinStarts
  <2>5. /\ tasks' \in Seq(Task) /\ Len(tasks') = n /\ DOMAIN tasks' = 1 .. n /\ tasks'[n] = new
        /\ \A j \in 1 .. Len(tasks) : tasks'[j] = tasks[j]
    BY <1>1, <2>1, <2>3, AppendProperties
  <2>6. scheduled' = [scheduled EXCEPT ![id] = n]
    BY <2>3, <2>5
  <2>7. SchedulerTypeOK'
    BY <1>1, <2>3, <2>5, <2>6 DEF SchedulerTypeOK
  <2>8. \A d \in TaskIDs : scheduled'[d] # 0 => tasks'[scheduled'[d]].id = d
    <3> TAKE d \in TaskIDs
    <3>1. CASE d = id
      BY <1>1, <2>2, <2>5, <2>6, <3>1
    <3>2. CASE d # id
      BY <1>1, <1>4, <2>5, <2>6, <3>2
    <3> QED BY <3>1, <3>2
  <2>9. \A j \in 1 .. n : WithinStarts(tasks'[j], starts)
    BY <1>1, <1>5, <2>4, <2>5
  <2>10. \A j \in 1 .. Len(tasks) : Registered(j)' => Registered(j)
    BY <1>1, <1>2, <2>5, <2>6 DEF Registered
  <2>11. \A j \in 1 .. n : Registered(j)' => ~tasks'[j].retired
    BY <1>1, <1>6, <2>2, <2>5, <2>10
  <2>12. running => \A j \in 1 .. n : Registered(j)' => Links(tasks'[j]) > 0
    BY <1>1, <1>7, <2>2, <2>5, <2>10
  <2>13. running' \in BOOLEAN /\ (running' => starts' > 0)
    BY <1>3, <2>3
  <2> QED BY <2>3, <2>5, <2>7, <2>8, <2>9, <2>11, <2>12, <2>13 DEF SchedulerInv
<1>13. ASSUME NEW id \in TaskIDs, RemoveTask(id) PROVE SchedulerInv'
  <2> DEFINE i == scheduled[id]
             q == tasks[i]
             over == q.others + q.fired + q.executing = 0
             t == [q EXCEPT !.timer = FALSE, !.retired = over]
  <2>1. i \in 1 .. Len(tasks) /\ q.id = id /\ q \in Task
    BY <1>1, <1>2, <1>4, <1>13 DEF RemoveTask, NotRegistered
  <2>2. /\ scheduled' = [scheduled EXCEPT ![id] = 0]
        /\ tasks' = [tasks EXCEPT ![i] = t] /\ running' = running /\ starts' = starts
    BY <1>1, <1>13 DEF RemoveTask, NotRegistered
  <2>3. t \in Task /\ t.id = id
    BY <2>1 DEF Task
  <2>a. /\ t.timer = FALSE /\ t.others = q.others /\ t.fired = q.fired /\ t.runs = q.runs
        /\ t.executing = q.executing /\ t.oneTime = q.oneTime
        /\ q.others \in Nat /\ q.fired \in Nat /\ q.executing \in Nat /\ q.runs \in Nat
    BY <2>1 DEF Task
  <2>b. t.retired <=> over
    BY <2>1 DEF Task
  <2>4. Links(t) <= Links(q) /\ RunsAhead(t) <= RunsAhead(q) /\ t.oneTime = q.oneTime
    <3> HIDE DEF t, q
    <3> QED BY <2>a DEF Links, RunsAhead
  <2>5. t.retired => Links(t) = 0
    <3> HIDE DEF t, q
    <3> QED BY <2>a, <2>b DEF Links
  <2>6. Links(t) \in Nat /\ RunsAhead(t) \in Nat
    BY <2>3, LinksNat
  <2>c. WithinStarts(q, starts) /\ Links(q) \in Nat /\ RunsAhead(q) \in Nat
    BY <1>2, <1>5, <2>1
  <2> HIDE DEF t, q, i
  <2>7. WithinStarts(t, starts)
    BY <1>1, <2>c, <2>4, <2>5, <2>6 DEF WithinStarts
  <2>8. /\ scheduled' \in [TaskIDs -> 0 .. Len(tasks)] /\ scheduled'[t.id] = 0
        /\ \A d \in TaskIDs : scheduled'[d] \in {0, scheduled[d]}
    BY <1>1, <2>2, <2>3
  <2>9. t.id = tasks[i].id
    BY <2>1, <2>3 DEF q
  <2>d. i # 0
    BY <2>1
  <2> QED BY <2>1, <2>2, <2>3, <2>7, <2>8, <2>9, <2>d, TaskChanges
<1>14. CASE StopScheduler
  <2> DEFINE t(i) == IF Registered(i) THEN [tasks[i] EXCEPT !.timer = FALSE] ELSE tasks[i]
  <2>1. /\ tasks' = [i \in 1 .. Len(tasks) |-> t(i)] /\ ~running'
        /\ scheduled' = scheduled /\ starts' = starts /\ running' \in BOOLEAN
    BY <1>1, <1>14 DEF StopScheduler
  <2>2. ASSUME NEW i \in 1 .. Len(tasks)
        PROVE  /\ t(i) \in Task /\ t(i).id = tasks[i].id /\ t(i).retired = tasks[i].retired
               /\ WithinStarts(t(i), starts)
    <3>1. CASE ~Registered(i)
      BY <1>2, <1>5, <3>1
    <3>2. CASE Registered(i)
      <4> DEFINE q == tasks[i]
                 u == [q EXCEPT !.timer = FALSE]
      <4>1. q \in Task /\ u \in Task /\ u.id = q.id /\ u.retired = q.retired
        BY <1>2 DEF Task
      <4>2. /\ u.timer = FALSE /\ u.others = q.others /\ u.fired = q.fired /\ u.runs = q.runs
            /\ u.executing = q.executing /\ u.oneTime = q.oneTime
            /\ q.others \in Nat /\ q.fired \in Nat /\ q.executing \in Nat /\ q.runs \in Nat
        BY <1>2 DEF Task
      <4>3. WithinStarts(q, starts)
        BY <1>5
      <4>4. WithinStarts(u, starts)
        <5> HIDE DEF q, u
        <5>1. Links(u) <= Links(q) /\ RunsAhead(u) <= RunsAhead(q) /\ Links(u) \in Nat
              /\ Links(q) \in Nat /\ RunsAhead(u) \in Nat /\ RunsAhead(q) \in Nat
          <6>1. (IF u.timer THEN 1 ELSE 0) = 0 /\ (IF q.timer THEN 1 ELSE 0) \in 0 .. 1
            BY <4>2
          <6> QED BY <4>2, <6>1 DEF Links, RunsAhead
        <5>2. starts \in Nat
          BY <1>1 DEF SchedulerTypeOK
        <5> QED BY <4>1, <4>2, <4>3, <5>1, <5>2 DEF WithinStarts
      <4>5. t(i) = u
        BY <3>2
      <4> QED BY <4>1, <4>4, <4>5
    <3> QED BY <3>1, <3>2
  <2> HIDE DEF t
  <2>3. /\ tasks' \in Seq(Task) /\ Len(tasks') = Len(tasks)
        /\ \A i \in 1 .. Len(tasks) : tasks'[i] = t(i)
    BY <1>1, <2>1, <2>2
  <2>4. SchedulerTypeOK'
    BY <1>1, <2>1, <2>3 DEF SchedulerTypeOK
  <2>5. \A id \in TaskIDs : scheduled'[id] # 0 => tasks'[scheduled'[id]].id = id
    BY <1>1, <1>4, <2>1, <2>2, <2>3
  <2>6. \A i \in 1 .. Len(tasks) : Registered(i)' => ~tasks'[i].retired
    BY <1>6, <2>1, <2>2, <2>3 DEF Registered
  <2>7. \A i \in 1 .. Len(tasks) : WithinStarts(tasks'[i], starts)
    BY <2>2, <2>3
  <2> QED BY <2>1, <2>3, <2>4, <2>5, <2>6, <2>7 DEF SchedulerInv
<1>15. CASE StartScheduler
  <2> DEFINE t(i) == IF Registered(i) THEN Arm(tasks[i]) ELSE tasks[i]
  <2>1. /\ tasks' = [i \in 1 .. Len(tasks) |-> t(i)] /\ running' = TRUE
        /\ scheduled' = scheduled /\ starts' = starts + 1
    BY <1>1, <1>15 DEF StartScheduler
  <2>2. ASSUME NEW i \in 1 .. Len(tasks)
        PROVE  /\ t(i) \in Task /\ t(i).id = tasks[i].id /\ t(i).retired = tasks[i].retired
               /\ WithinStarts(t(i), starts + 1)
               /\ Registered(i) => Links(t(i)) > 0
    <3>1. CASE ~Registered(i)
      BY <1>1, <1>2, <1>5, <3>1 DEF WithinStarts
    <3>2. CASE Registered(i)
      <4>1. Becomes(tasks[i], t(i), 1, 1)
        BY <1>2, <3>2, TaskSteps
      <4>2. ~tasks[i].retired
        BY <1>6, <3>2
      <4> HIDE DEF t
      <4> QED BY <1>1, <1>2, <1>5, <4>1, <4>2 DEF Becomes, WithinStarts
    <3> QED BY <3>1, <3>2
  <2> HIDE DEF t
  <2>3. /\ tasks' \in Seq(Task) /\ Len(tasks') = Len(tasks)
        /\ \A i \in 1 .. Len(tasks) : tasks'[i] = t(i)
    BY <1>1, <2>1, <2>2
  <2>4. SchedulerTypeOK'
    BY <1>1, <2>1, <2>3 DEF SchedulerTypeOK
  <2>5. \A id \in TaskIDs : scheduled'[id] # 0 => tasks'[scheduled'[id]].id = id
    BY <1>1, <1>4, <2>1, <2>2, <2>3
  <2>6. \A i \in 1 .. Len(tasks) : Registered(i)' <=> Registered(i)
    BY <2>1, <2>2, <2>3 DEF Registered
  <2>7. \A i \in 1 .. Len(tasks) : Registered(i)' => ~tasks'[i].retired /\ Links(tasks'[i]) > 0
    BY <1>6, <2>2, <2>3, <2>6
  <2>8. \A i \in 1 .. Len(tasks) : WithinStarts(tasks'[i], starts')
    BY <2>1, <2>2, <2>3
  <2>9. running' \in BOOLEAN /\ starts' > 0
    BY <1>1, <2>1
  <2> QED BY <2>3, <2>4, <2>5, <2>7, <2>8, <2>9 DEF SchedulerInv
<1> QED
  BY <1>1, <1>9, <1>10, <1>11, <1>12, <1>13, <1>14, <1>15 DEF SchedulerNext

(* Scheduler: while it runs, no registered task is forgotten, and none     *)
(* runs in more chains, or more often, than it was started.                *)
THEOREM TasksAreScheduled == RunnersSpec => []ScheduleExact
<1> DEFINE I == part = "scheduler" => SchedulerInv
<1>1. RunnersInit => I
  BY SchedulerInitial DEF RunnersInit
<1>2. I /\ [RunnersNext]_allVars => I'
  <2> SUFFICES ASSUME I, [RunnersNext]_allVars PROVE I'
    OBVIOUS
  <2>1. CASE RunnersNext
    BY <2>1, PartStep, SchedulerKept
  <2>2. CASE UNCHANGED allVars
    <3>1. part' = part /\ schedulerVars' = schedulerVars
      BY <2>2 DEF allVars
    <3>2. SchedulerInv => SchedulerInv'
      BY <3>1 DEF schedulerVars, SchedulerInv, SchedulerTypeOK, Registered
    <3> QED BY <3>1, <3>2
  <2> QED BY <2>1, <2>2
<1>3. I => ScheduleExact
  <2> SUFFICES ASSUME SchedulerInv PROVE NotForgotten /\ NoExtraRuns
    BY DEF ScheduleExact
  <2>1. DOMAIN tasks = 1 .. Len(tasks) /\ starts \in Nat
    BY DEF SchedulerInv, SchedulerTypeOK
  <2>2. ASSUME NEW i \in 1 .. Len(tasks)
        PROVE  /\ tasks[i] \in Task /\ Chains(i) = Links(tasks[i])
               /\ tasks[i].runs <= RunsAhead(tasks[i])
    <3>1. tasks[i] \in Task
      BY DEF SchedulerInv, SchedulerTypeOK
    <3> QED BY <3>1 DEF Task, Chains, Links, RunsAhead
  <2>3. NotForgotten
    BY <2>1, <2>2 DEF SchedulerInv, NotForgotten
  <2>4. ASSUME NEW i \in 1 .. Len(tasks)
        PROVE  /\ Chains(i) <= starts
               /\ tasks[i].oneTime => tasks[i].runs <= starts
               /\ tasks[i].retired => Chains(i) = 0
    <3>1. WithinStarts(tasks[i], starts)
      BY DEF SchedulerInv
    <3>2. tasks[i].runs \in Nat /\ RunsAhead(tasks[i]) \in Nat
      BY <2>2, LinksNat DEF Task
    <3> QED BY <2>1, <2>2, <3>1, <3>2 DEF WithinStarts
  <2> QED BY <2>1, <2>3, <2>4 DEF NoExtraRuns
<1> QED BY <1>1, <1>2, <1>3, PTL DEF RunnersSpec

--------------------------------------------------------------------------------
(* KafkaConsumer.                                                          *)
KafkaConsumerTypeOK ==
  /\ claim \in [at : {"none", "select", "handling", "marking"}, handler : Nat,
                offset : Nat, done : BOOLEAN]
  /\ seen \in [1 .. NumHandlers -> Nat]
  /\ marked \in Nat /\ committed \in Nat

(* What is being handled has been seen by the handlers before the one it   *)
(* is with, and what is to be marked by all of them.                       *)
KafkaConsumerInv ==
  /\ KafkaConsumerTypeOK /\ AtLeastOnce
  /\ claim.at = "none" => claim.offset = 0
  /\ claim.at = "handling" =>
       /\ claim.handler \in 1 .. NumHandlers
       /\ \A h \in 1 .. NumHandlers : h < claim.handler => claim.offset < seen[h]
  /\ claim.at = "marking" => \A h \in 1 .. NumHandlers : claim.offset < seen[h]

(* No claim yet.                                                           *)
LEMMA KafkaConsumerInitial == KafkaConsumerInit => KafkaConsumerInv
BY KafkaConsumerAssumption
   DEF KafkaConsumerInit, KafkaConsumerInv, KafkaConsumerTypeOK, AtLeastOnce, NoClaim

(* A claim, its handlers, the marks, the commits and a crash keep the      *)
(* invariant.                                                              *)
LEMMA KafkaConsumerKept == KafkaConsumerInv /\ KafkaConsumerNext => KafkaConsumerInv'
<1> SUFFICES ASSUME KafkaConsumerInv, KafkaConsumerNext PROVE KafkaConsumerInv'
  OBVIOUS
<1> USE KafkaConsumerAssumption
<1>1. CASE SessionStarts
  <2>1. /\ committed \in Nat /\ seen \in [1 .. NumHandlers -> Nat]
        /\ \A h \in 1 .. NumHandlers : committed <= seen[h]
        /\ \A h \in 2 .. NumHandlers : seen[h] <= seen[h - 1]
    BY DEF KafkaConsumerInv, KafkaConsumerTypeOK, AtLeastOnce
  <2>2. /\ claim' = [at |-> "select", handler |-> 0, offset |-> committed, done |-> FALSE]
        /\ marked' = committed /\ UNCHANGED <<committed, seen>>
    BY <1>1 DEF SessionStarts, NoClaim
  <2>3. /\ claim'.at = "select" /\ claim'.offset = committed
        /\ KafkaConsumerTypeOK'
    BY <2>1, <2>2 DEF KafkaConsumerTypeOK
  <2> QED BY <2>1, <2>2, <2>3 DEF KafkaConsumerInv, AtLeastOnce
<1>2. CASE ReceiveMessage
  <2>1. /\ claim'.at = "handling" /\ claim'.handler = 1 /\ claim'.offset = claim.offset
        /\ UNCHANGED <<marked, committed, seen>>
    BY <1>2 DEF ReceiveMessage, KafkaConsumerInv, KafkaConsumerTypeOK
  <2>2. KafkaConsumerTypeOK' /\ claim.at = "select"
    BY <1>2 DEF ReceiveMessage, KafkaConsumerInv, KafkaConsumerTypeOK
  <2> QED BY <2>1, <2>2 DEF KafkaConsumerInv, KafkaConsumerTypeOK, AtLeastOnce
<1>3. CASE CallHandler
  <2> DEFINE h == claim.handler
             n == IF claim.offset >= seen[h] THEN claim.offset + 1 ELSE seen[h]
  <2>1. /\ h \in 1 .. NumHandlers /\ claim.at = "handling" /\ claim.offset \in Nat
        /\ seen \in [1 .. NumHandlers -> Nat] /\ committed \in Nat /\ marked \in Nat
        /\ \A g \in 1 .. NumHandlers : committed <= seen[g] /\ claim.offset <= seen[g]
        /\ \A g \in 1 .. NumHandlers : g < h => claim.offset < seen[g]
        /\ \A g \in 2 .. NumHandlers : seen[g] <= seen[g - 1]
        /\ committed <= marked /\ marked <= claim.offset
    BY <1>3 DEF CallHandler, KafkaConsumerInv, KafkaConsumerTypeOK, AtLeastOnce
  <2>2. n \in Nat /\ n > claim.offset /\ n >= seen[h]
    BY <2>1
  <2>3. /\ seen' = [seen EXCEPT ![h] = n] /\ UNCHANGED <<marked, committed>>
        /\ \/ /\ h = NumHandlers /\ claim' = [claim EXCEPT !.at = "marking", !.handler = 0]
           \/ /\ h # NumHandlers /\ claim' = [claim EXCEPT !.handler = h + 1]
    BY <1>3, <2>1 DEF CallHandler
  <2>4. /\ claim'.offset = claim.offset
        /\ claim' \in [at : {"none", "select", "handling", "marking"}, handler : Nat,
                      offset : Nat, done : BOOLEAN]
        /\ \/ h = NumHandlers /\ claim'.at = "marking"
           \/ h # NumHandlers /\ claim'.at = "handling" /\ claim'.handler = h + 1
    <3> DEFINE k == h + 1
    <3>1. k \in Nat
      BY <2>1
    <3>2. \/ h = NumHandlers /\ claim' = [claim EXCEPT !.at = "marking", !.handler = 0]
          \/ h # NumHandlers /\ claim' = [claim EXCEPT !.handler = k]
      BY <2>3
    <3> HIDE DEF k
    <3>3. CASE h = NumHandlers /\ claim' = [claim EXCEPT !.at = "marking", !.handler = 0]
      BY <3>3 DEF KafkaConsumerInv, KafkaConsumerTypeOK
    <3>4. CASE h # NumHandlers /\ claim' = [claim EXCEPT !.handler = k]
      BY <2>1, <3>1, <3>4 DEF KafkaConsumerInv, KafkaConsumerTypeOK, k
    <3> QED BY <3>2, <3>3, <3>4
  <2>5. n = claim.offset + 1 \/ n = seen[h]
    BY <2>1
  <2> HIDE DEF n, h
  <2>6. /\ \A g \in 1 .. NumHandlers : committed <= seen'[g] /\ claim.offset <= seen'[g]
        /\ \A g \in 1 .. NumHandlers : g <= h => claim.offset < seen'[g]
    BY <2>1, <2>2, <2>3
  <2>7. ASSUME NEW g \in 2 .. NumHandlers PROVE seen'[g] <= seen'[g - 1]
    <3>1. g - 1 \in 1 .. NumHandlers /\ g \in 1 .. NumHandlers /\ seen[g] <= seen[g - 1]
      BY <2>1
    <3>2. CASE g = h
      <4>1. claim.offset < seen[g - 1] /\ seen'[g - 1] = seen[g - 1] /\ seen'[g] = n
        BY <2>1, <2>3, <3>1, <3>2
      <4> QED BY <2>1, <2>5, <3>1, <3>2, <4>1
    <3>3. CASE g # h
      BY <2>1, <2>2, <2>3, <3>1, <3>3
    <3> QED BY <3>2, <3>3
  <2>8. seen' \in [1 .. NumHandlers -> Nat]
    BY <2>1, <2>2, <2>3
  <2>9. KafkaConsumerTypeOK' /\ AtLeastOnce'
    BY <2>1, <2>3, <2>4, <2>6, <2>7, <2>8 DEF KafkaConsumerTypeOK, AtLeastOnce
  <2> QED BY <2>1, <2>3, <2>4, <2>6, <2>9 DEF KafkaConsumerInv
<1>4. CASE MarkMessage
  <2>1. /\ claim'.at = "select" /\ claim'.offset = claim.offset + 1
        /\ marked' = claim.offset + 1 /\ UNCHANGED <<committed, seen>>
        /\ claim.at = "marking"
    BY <1>4 DEF MarkMessage, KafkaConsumerInv, KafkaConsumerTypeOK
  <2>2. KafkaConsumerTypeOK'
    <3> DEFINE n == claim.offset + 1
    <3>1. /\ n \in Nat /\ claim' = [claim EXCEPT !.at = "select", !.offset = n]
          /\ marked' = n /\ UNCHANGED <<committed, seen>>
      BY <1>4 DEF MarkMessage, KafkaConsumerInv, KafkaConsumerTypeOK
    <3> HIDE DEF n
    <3> QED BY <3>1 DEF KafkaConsumerInv, KafkaConsumerTypeOK
  <2> QED BY <2>1, <2>2 DEF KafkaConsumerInv, KafkaConsumerTypeOK, AtLeastOnce
<1>5. CASE ClaimReturns
  BY <1>5 DEF ClaimReturns, KafkaConsumerInv, KafkaConsumerTypeOK, AtLeastOnce, NoClaim
<1>6. CASE CloseGroup
  BY <1>6 DEF CloseGroup, KafkaConsumerInv, KafkaConsumerTypeOK, AtLeastOnce
<1>7. CASE Rebalance
  BY <1>7 DEF Rebalance, KafkaConsumerInv, KafkaConsumerTypeOK, AtLeastOnce
<1>8. CASE CommitMarked
  BY <1>8 DEF CommitMarked, KafkaConsumerInv, KafkaConsumerTypeOK, AtLeastOnce
<1>9. CASE ConsumerCrashes
  BY <1>9 DEF ConsumerCrashes, KafkaConsumerInv, KafkaConsumerTypeOK, AtLeastOnce, NoClaim
<1> QED
  BY <1>1, <1>2, <1>3, <1>4, <1>5, <1>6, <1>7, <1>8, <1>9 DEF KafkaConsumerNext, ConsumeStep

--------------------------------------------------------------------------------
(* KafkaProducer.                                                          *)
KafkaProducerTypeOK ==
  /\ mode \in {"sync", "async"}
  /\ kafkaClient \in [KafkaClients -> {"idle", "sending", "locking", "closing", "draining", "over"}]
  /\ library \in [input : Nat, inFlight : Nat, reports : [Reports -> Nat], closed : BOOLEAN]
  /\ handlers \subseteq Reports
  /\ taken \in Nat /\ reported \in Nat

(* Every message taken is in the library or handed on; a handler that has  *)
(* ended leaves nothing; and the library is closed only by who has set     *)
(* closed.                                                                 *)
KafkaProducerInv ==
  /\ KafkaProducerTypeOK /\ ProducerExact
  /\ taken = library.input + library.inFlight + library.reports["Errors"]
               + library.reports["Successes"] + reported
  /\ mode = "async" => \A r \in Reports \ handlers :
       /\ library.closed /\ library.input = 0 /\ library.inFlight = 0
       /\ library.reports[r] = 0
  /\ library.closed => producerClosed
  /\ \A c \in KafkaClients :
       kafkaClient[c] \in {"closing", "draining"} => producerClosed /\ mode = "async"

(* Nothing has been sent.                                                  *)
LEMMA KafkaProducerInitial == KafkaProducerInit => KafkaProducerInv
BY DEF KafkaProducerInit, KafkaProducerInv, KafkaProducerTypeOK, ProducerExact, Reports, Busy

(* The clients, the library and the handlers of its reports keep the       *)
(* invariant.                                                              *)
LEMMA KafkaProducerKept == KafkaProducerInv /\ KafkaProducerNext => KafkaProducerInv'
<1> SUFFICES ASSUME KafkaProducerInv, KafkaProducerNext PROVE KafkaProducerInv'
  OBVIOUS
<1> USE DEF KafkaProducerInv, KafkaProducerTypeOK, ProducerExact, Reports, Busy, ClientAt
<1>1. ASSUME NEW c \in KafkaClients, SendLocks(c) PROVE KafkaProducerInv'
  BY <1>1 DEF SendLocks
<1>2. ASSUME NEW c \in KafkaClients, CloseProducer(c) PROVE KafkaProducerInv'
  BY <1>2 DEF CloseProducer
<1>3. ASSUME NEW c \in KafkaClients, SendAsync(c) PROVE KafkaProducerInv'
  BY <1>3 DEF SendAsync
<1>4. ASSUME NEW c \in KafkaClients, SendSync(c) PROVE KafkaProducerInv'
  BY <1>4 DEF SendSync
<1>5. ASSUME NEW c \in KafkaClients, CloseLocked(c) PROVE KafkaProducerInv'
  BY <1>5 DEF CloseLocked
<1>6. ASSUME NEW c \in KafkaClients, AsyncClose(c) PROVE KafkaProducerInv'
  <2>1. /\ library' \in [input : Nat, inFlight : Nat, reports : [Reports -> Nat], closed : BOOLEAN]
        /\ library'.input = library.input /\ library'.inFlight = library.inFlight
        /\ library'.reports = library.reports /\ library'.closed = TRUE
    BY <1>6 DEF AsyncClose
  <2> QED BY <1>6, <2>1 DEF AsyncClose
<1>7. ASSUME NEW c \in KafkaClients, CloseReturns(c) PROVE KafkaProducerInv'
  <2>1. mode = "async" /\ handlers = {}
    BY <1>7 DEF CloseReturns
  <2>2. /\ library.input = 0 /\ library.inFlight = 0
        /\ library.reports["Errors"] = 0 /\ library.reports["Successes"] = 0
    BY <2>1
  <2>3. reported = taken
    BY <2>2
  <2>4. ~kafkaMisused' /\ UNCHANGED <<mode, producerClosed, library, handlers, taken, reported>>
    BY <1>7, <2>3 DEF CloseReturns
  <2>5. /\ kafkaClient[c] = "draining" /\ kafkaClient' = [kafkaClient EXCEPT ![c] = "over"]
    BY <1>7 DEF CloseReturns
  <2>6. KafkaProducerTypeOK' /\ ProducerExact'
    BY <2>4, <2>5
  <2> QED BY <2>4, <2>5, <2>6
<1>8. ASSUME NEW r \in Reports, HandleReport(r) PROVE KafkaProducerInv'
  BY <1>8 DEF HandleReport
<1>9. ASSUME NEW r \in Reports, HandlerEnds(r) PROVE KafkaProducerInv'
  <2>1. /\ library.closed /\ library.input = 0 /\ library.inFlight = 0 /\ library.reports[r] = 0
        /\ handlers' = handlers \ {r}
        /\ UNCHANGED <<mode, producerClosed, kafkaClient, library, taken, reported, kafkaMisused>>
    BY <1>9 DEF HandlerEnds
  <2>2. \A s \in Reports \ handlers' : s = r \/ s \in Reports \ handlers
    BY <2>1
  <2>3. KafkaProducerTypeOK' /\ ProducerExact'
    BY <2>1
  <2> QED BY <2>1, <2>2, <2>3
<1>10. CASE LibraryTakes
  <2> DEFINE m == library.input - 1
             n == library.inFlight + 1
  <2>1. m \in Nat /\ n \in Nat /\ library' = [library EXCEPT !.input = m, !.inFlight = n]
    BY <1>10 DEF LibraryTakes
  <2> HIDE DEF m, n
  <2>2. /\ library' \in [input : Nat, inFlight : Nat, reports : [Reports -> Nat], closed : BOOLEAN]
        /\ library'.input = m /\ library'.inFlight = n
        /\ library'.reports = library.reports /\ library'.closed = library.closed
    BY <2>1
  <2> QED BY <1>10, <2>2 DEF LibraryTakes, m, n
<1>11. ASSUME NEW r \in Reports, LibraryReports(r) PROVE KafkaProducerInv'
  <2> DEFINE m == library.inFlight - 1
             n == [library.reports EXCEPT ![r] = @ + 1]
  <2>1. m \in Nat /\ n \in [Reports -> Nat]
        /\ library' = [library EXCEPT !.inFlight = m, !.reports = n]
    BY <1>11 DEF LibraryReports
  <2> HIDE DEF m, n
  <2>2. /\ library' \in [input : Nat, inFlight : Nat, reports : [Reports -> Nat], closed : BOOLEAN]
        /\ library'.input = library.input /\ library'.inFlight = m
        /\ library'.reports = n /\ library'.closed = library.closed
    BY <2>1
  <2>3. /\ n[r] = library.reports[r] + 1
        /\ \A s \in Reports : s # r => n[s] = library.reports[s]
    BY DEF n
  <2>4. n["Errors"] + n["Successes"] = library.reports["Errors"] + library.reports["Successes"] + 1
    BY <2>3
  <2> QED BY <1>11, <2>1, <2>2, <2>3, <2>4 DEF LibraryReports, m
<1> QED
  BY <1>1, <1>2, <1>3, <1>4, <1>5, <1>6, <1>7, <1>8, <1>9, <1>10, <1>11
     DEF KafkaProducerNext, LibraryStep, HandlerStep, ClientGoesOn

--------------------------------------------------------------------------------
(* WorkerPool.                                                             *)
PoolTypeOK ==
  /\ submitted \in Nat /\ answers \in Seq(BOOLEAN) /\ Len(answers) = submitted
  /\ poolQueue \in Seq(Nat)
  /\ poolWorkers \in [Workplaces -> {"none", "select", "process", "exited"}]
  /\ poolTask \in [Workplaces -> Nat]
  /\ submitPc \in [PoolClients -> {"idle", "block", "try"}]
  /\ submitting \in [PoolClients -> Nat]

(* The tasks that were accepted, and those that the workers have.          *)
Yes == {t \in 1 .. submitted : answers[t]}
Held == {poolTask[w] : w \in Workplaces} \ {NoWork}

(* A task has one place, a client its own task, of which it does not know  *)
(* the answer yet, and a worker that processes nothing has none.           *)
OnePlaceEach ==
  /\ IsInjective(poolQueue)
  /\ \A v, w \in Workplaces : poolTask[v] = poolTask[w] /\ poolTask[v] # NoWork => v = w
  /\ ToSet(poolQueue) \cap Held = {} /\ handled \cap panicked = {}
  /\ (ToSet(poolQueue) \cup Held) \cap (handled \cup panicked) = {}

(* Who submits a task does so alone, and before it is answered.            *)
OwnTasks ==
  /\ \A c \in PoolClients : submitPc[c] # "idle" =>
       submitting[c] \in 1 .. submitted /\ submitting[c] \notin Yes
  /\ \A c, d \in PoolClients :
       submitPc[c] # "idle" /\ submitPc[d] # "idle" /\ submitting[c] = submitting[d] => c = d

(* What was accepted is in the queue, with a worker, handled or lost to a  *)
(* panic; a worker has a task while it processes it.                       *)
PoolInv ==
  /\ PoolTypeOK /\ OnePlaceEach /\ OwnTasks
  /\ Yes = ToSet(poolQueue) \cup Held \cup handled \cup panicked
  /\ \A w \in Workplaces : poolTask[w] # NoWork <=> poolWorkers[w] = "process"
  /\ ~poolStarted => \A w \in Workplaces : poolWorkers[w] = "none"

(* Nothing was submitted.                                                  *)
LEMMA PoolInitial == PoolInit => PoolInv
<1> SUFFICES ASSUME PoolInit PROVE PoolInv
  OBVIOUS
<1>1. PoolTypeOK
  <2>1. answers \in Seq(BOOLEAN) /\ Len(answers) = 0
    BY EmptySeq, Zenon DEF PoolInit
  <2>2. poolQueue \in Seq(Nat)
    BY EmptySeq DEF PoolInit
  <2> QED BY <2>1, <2>2 DEF PoolInit, PoolTypeOK, NoWork
<1>2. ToSet(poolQueue) = {} /\ IsInjective(poolQueue)
  BY DEF PoolInit, ToSet, IsInjective
<1>3. Held = {} /\ Yes = {}
  BY DEF PoolInit, Held, Yes, NoWork
<1>4. OnePlaceEach /\ OwnTasks
  BY <1>2, <1>3 DEF PoolInit, OnePlaceEach, OwnTasks, NoWork
<1> QED BY <1>1, <1>2, <1>3, <1>4 DEF PoolInit, PoolInv, NoWork

(* So what is in the places adds up.                                       *)
LEMMA PoolCounts == PoolInv => SubmitTruthful
<1> SUFFICES ASSUME PoolInv PROVE SubmitTruthful
  OBVIOUS
<1> DEFINE Q == ToSet(poolQueue)
           W == {w \in Workplaces : poolTask[w] # NoWork}
<1>1. IsFiniteSet(Yes) /\ Q \subseteq Yes /\ Held \subseteq Yes /\ handled \subseteq Yes
      /\ panicked \subseteq Yes
  <2>1. IsFiniteSet(1 .. submitted)
    <3>1. 1 \in Int /\ submitted \in Int
      BY DEF PoolInv, PoolTypeOK
    <3> QED BY <3>1, FS_Interval, Zenon
  <2>2. Yes \in SUBSET (1 .. submitted)
    BY DEF Yes
  <2>3. IsFiniteSet(Yes)
    BY <2>1, <2>2, FS_Subset
  <2> QED BY <2>3 DEF PoolInv
<1>2. IsFiniteSet(Q) /\ Cardinality(Q) = Len(poolQueue)
  BY SequenceSize DEF PoolInv, PoolTypeOK, OnePlaceEach
<1>3. IsFiniteSet(Held) /\ Cardinality(Held) = Cardinality(W)
  <2>1. IsFiniteSet(W)
    <3>1. IsFiniteSet(Workplaces)
      <4>1. 1 \in Int /\ NumWorkers \in Int
        BY WorkerPoolAssumption
      <4> QED BY <4>1, FS_Interval, Zenon DEF Workplaces
    <3>2. W \in SUBSET Workplaces
      OBVIOUS
    <3> QED BY <3>1, <3>2, FS_Subset
  <2>2. \A v, w \in W : poolTask[v] = poolTask[w] => v = w
    BY DEF PoolInv, OnePlaceEach
  <2>3. Held = {poolTask[w] : w \in W}
    BY DEF Held
  <2> HIDE DEF W
  <2> QED BY <2>1, <2>2, <2>3, ImageSize
<1>4. IsFiniteSet(handled) /\ IsFiniteSet(panicked)
  BY <1>1, FS_Subset
<1>5. Q \cap Held = {} /\ handled \cap panicked = {} /\ (Q \cup Held) \cap (handled \cup panicked) = {}
  BY DEF PoolInv, OnePlaceEach
<1>6. Yes = (Q \cup Held) \cup (handled \cup panicked)
  BY DEF PoolInv
<1> HIDE DEF Q, W
<1>7. /\ IsFiniteSet(Q \cup Held) /\ Cardinality(Q) \in Nat /\ Cardinality(Held) \in Nat
      /\ Cardinality(Q \cup Held) = Cardinality(Q) + Cardinality(Held)
  BY <1>2, <1>3, <1>5, DisjointSize
<1>8. /\ IsFiniteSet(handled \cup panicked)
      /\ Cardinality(handled) \in Nat /\ Cardinality(panicked) \in Nat
      /\ Cardinality(handled \cup panicked) = Cardinality(handled) + Cardinality(panicked)
  BY <1>4, <1>5, DisjointSize
<1>9. Cardinality(Yes) = Cardinality(Q \cup Held) + Cardinality(handled \cup panicked)
  BY <1>5, <1>6, <1>7, <1>8, DisjointSize
<1>10. Cardinality(Yes) = Len(poolQueue) + Cardinality(W) + Cardinality(handled)
                            + Cardinality(panicked)
  BY <1>2, <1>3, <1>7, <1>8, <1>9
<1>11. Yes = Q \cup ({poolTask[w] : w \in Workplaces} \ {NoWork}) \cup handled \cup panicked
  BY <1>6 DEF Held
<1> QED BY <1>10, <1>11 DEF SubmitTruthful, Yes, Q, W

(* A new answer is FALSE; one that becomes TRUE is one of Yes.             *)
LEMMA AnswerAdded ==
  ASSUME PoolTypeOK, submitted' = submitted + 1, answers' = Append(answers, FALSE)
  PROVE  answers' \in Seq(BOOLEAN) /\ Len(answers') = submitted' /\ Yes' = Yes
<1>1. submitted \in Nat /\ answers \in Seq(BOOLEAN) /\ Len(answers) = submitted
  BY DEF PoolTypeOK
<1>2. /\ answers' \in Seq(BOOLEAN) /\ Len(answers') = submitted + 1
      /\ answers'[submitted + 1] = FALSE
      /\ \A t \in 1 .. submitted : answers'[t] = answers[t]
  <2>1. /\ Append(answers, FALSE) \in Seq(BOOLEAN) /\ Len(Append(answers, FALSE)) = Len(answers) + 1
        /\ Append(answers, FALSE)[Len(answers) + 1] = FALSE
        /\ \A t \in 1 .. Len(answers) : Append(answers, FALSE)[t] = answers[t]
    <3> DEFINE B == BOOLEAN
               f == FALSE
    <3>1. answers \in Seq(B) /\ f \in B
      BY <1>1
    <3> HIDE DEF B, f
    <3>2. /\ Append(answers, f) \in Seq(B) /\ Len(Append(answers, f)) = Len(answers) + 1
          /\ Append(answers, f)[Len(answers) + 1] = f
          /\ \A t \in 1 .. Len(answers) : Append(answers, f)[t] = answers[t]
      BY <3>1, AppendProperties
    <3> QED BY <3>2 DEF B, f
  <2> QED BY <1>1, <2>1
<1>3. ASSUME NEW t PROVE t \in Yes' <=> t \in Yes
  <2>1. t \in Yes' <=> t \in 1 .. submitted + 1 /\ answers'[t]
    BY DEF Yes
  <2>2. t \in Yes <=> t \in 1 .. submitted /\ answers[t]
    BY DEF Yes
  <2>3. CASE t = submitted + 1
    <3>1. ~answers'[t] /\ t \notin 1 .. submitted
      BY <1>1, <1>2, <2>3
    <3> QED BY <2>1, <2>2, <3>1
  <2>4. CASE t \in 1 .. submitted
    <3>1. t \in 1 .. submitted + 1
      BY <1>1, <2>4
    <3>2. answers'[t] = answers[t]
      BY <1>2, <2>4, Zenon
    <3> QED BY <2>1, <2>2, <2>4, <3>1, <3>2, Zenon
  <2>5. CASE t \notin 1 .. submitted /\ t # submitted + 1
    <3>1. t \notin 1 .. submitted + 1
      BY <1>1, <2>5
    <3> QED BY <2>1, <2>2, <2>5, <3>1
  <2> QED BY <2>3, <2>4, <2>5
<1> QED BY <1>2, <1>3

(* The task k is accepted.                                                 *)
LEMMA AnswerSet ==
  ASSUME PoolTypeOK, NEW k \in 1 .. submitted, answers' = [answers EXCEPT ![k] = TRUE],
         submitted' = submitted
  PROVE  answers' \in Seq(BOOLEAN) /\ Len(answers') = submitted /\ Yes' = Yes \cup {k}
<1>1. submitted \in Nat /\ answers \in Seq(BOOLEAN) /\ Len(answers) = submitted
  BY DEF PoolTypeOK
<1>2. /\ answers' \in Seq(BOOLEAN) /\ Len(answers') = submitted
      /\ answers'[k] = TRUE
      /\ \A t \in 1 .. submitted : t # k => answers'[t] = answers[t]
  <2>1. TRUE \in BOOLEAN /\ k \in DOMAIN answers /\ DOMAIN answers = 1 .. submitted
    BY <1>1
  <2> QED BY <1>1, <2>1, Replaced
<1>3. ASSUME NEW t PROVE t \in Yes' <=> t \in Yes \cup {k}
  <2>1. t \in Yes' <=> t \in 1 .. submitted /\ answers'[t]
    BY DEF Yes
  <2>2. t \in Yes <=> t \in 1 .. submitted /\ answers[t]
    BY DEF Yes
  <2>3. CASE t = k
    BY <1>2, <2>1, <2>3
  <2>4. CASE t # k
    <3>1. t \in 1 .. submitted => answers'[t] = answers[t]
      BY <1>2, <2>4
    <3> QED BY <2>1, <2>2, <2>4, <3>1
  <2> QED BY <2>3, <2>4
<1> QED BY <1>2, <1>3

(* Submit, TrySubmit, the workers and Stop keep the invariant.             *)
LEMMA PoolKept == PoolInv /\ WorkerPoolNext => PoolInv'
<1> SUFFICES ASSUME PoolInv, WorkerPoolNext PROVE PoolInv'
  OBVIOUS
<1>1. /\ submitted \in Nat /\ answers \in Seq(BOOLEAN) /\ Len(answers) = submitted
      /\ poolQueue \in Seq(Nat)
  BY DEF PoolInv, PoolTypeOK
<1>2. /\ poolWorkers \in [Workplaces -> {"none", "select", "process", "exited"}]
      /\ poolTask \in [Workplaces -> Nat]
      /\ submitPc \in [PoolClients -> {"idle", "block", "try"}]
      /\ submitting \in [PoolClients -> Nat]
  BY DEF PoolInv, PoolTypeOK
<1>3. /\ PoolTypeOK /\ OnePlaceEach /\ OwnTasks
      /\ Yes = ToSet(poolQueue) \cup Held \cup handled \cup panicked
  BY DEF PoolInv
<1>4. /\ \A w \in Workplaces : poolTask[w] # 0 <=> poolWorkers[w] = "process"
      /\ ~poolStarted => \A w \in Workplaces : poolWorkers[w] = "none"
  BY DEF PoolInv, NoWork
<1>5. Yes \subseteq 1 .. submitted
  BY DEF Yes
(* Only where the workers are changes.                                     *)
<1>6. ASSUME UNCHANGED <<submitted, answers, poolQueue, poolTask, submitPc, submitting,
                         handled, panicked>>,
             poolWorkers' \in [Workplaces -> {"none", "select", "process", "exited"}],
             \A w \in Workplaces : poolTask[w] # 0 <=> poolWorkers'[w] = "process",
             ~poolStarted' => \A w \in Workplaces : poolWorkers'[w] = "none"
      PROVE  PoolInv'
  <2>1. Yes' = Yes /\ Held' = Held /\ OnePlaceEach' /\ OwnTasks'
    BY <1>3, <1>6 DEF Yes, Held, OnePlaceEach, OwnTasks
  <2>2. answers' \in Seq(BOOLEAN) /\ Len(answers') = submitted'
    BY <1>1, <1>6
  <2>3. PoolTypeOK'
    BY <1>1, <1>2, <1>6, <2>2 DEF PoolTypeOK
  <2> QED BY <1>3, <1>6, <2>1, <2>3 DEF PoolInv, NoWork
<1>7. CASE PoolStart
  <2>1. /\ ~poolStarted /\ poolStarted' /\ poolWorkers' = [w \in Workplaces |-> "select"]
        /\ UNCHANGED <<submitted, answers, poolQueue, poolTask, submitPc, submitting,
                       handled, panicked>>
    BY <1>7 DEF PoolStart
  <2>2. \A w \in Workplaces : poolTask[w] = 0
    BY <1>4, <2>1
  <2> QED BY <1>6, <2>1, <2>2
<1>8. CASE PoolContextEnds \/ PoolStop \/ PoolClose \/ PoolStopped
  <2>1. UNCHANGED <<submitted, answers, poolQueue, poolTask, submitPc, submitting,
                    handled, panicked, poolStarted, poolWorkers>>
    BY <1>8 DEF PoolContextEnds, PoolStop, PoolClose, PoolStopped
  <2> QED BY <1>2, <1>4, <1>6, <2>1
<1>9. ASSUME NEW w \in Workplaces, PoolWorkerExits(w) PROVE PoolInv'
  <2>1. /\ poolWorkers[w] = "select" /\ poolWorkers' = [poolWorkers EXCEPT ![w] = "exited"]
        /\ UNCHANGED <<submitted, answers, poolQueue, poolTask, submitPc, submitting,
                       handled, panicked, poolStarted>>
    BY <1>9 DEF PoolWorkerExits
  <2> QED BY <1>2, <1>4, <1>6, <2>1
<1>10. ASSUME NEW c \in PoolClients, NEW try \in BOOLEAN, SubmitBegin(c, try) PROVE PoolInv'
  <2>1. /\ submitPc[c] = "idle" /\ submitted' = submitted + 1 /\ answers' = Append(answers, FALSE)
        /\ UNCHANGED <<poolStarted, poolQueue, poolWorkers, poolTask, handled, panicked>>
    BY <1>10 DEF SubmitBegin
  <2>2. answers' \in Seq(BOOLEAN) /\ Len(answers') = submitted' /\ Yes' = Yes
    BY <1>3, <2>1, AnswerAdded
  <2>3. Held' = Held /\ OnePlaceEach'
    BY <1>3, <2>1 DEF Held, OnePlaceEach
  <2>4. \/ UNCHANGED <<submitPc, submitting>>
        \/ \E to \in {"block", "try"} : /\ submitPc' = [submitPc EXCEPT ![c] = to]
                                       /\ submitting' = [submitting EXCEPT ![c] = submitted + 1]
    BY <1>10, <2>1 DEF SubmitBegin
  <2>5. CASE UNCHANGED <<submitPc, submitting>>
    <3>1. OwnTasks'
      BY <1>1, <1>3, <2>1, <2>2, <2>5 DEF OwnTasks
    <3>2. PoolTypeOK'
      BY <1>1, <1>2, <2>1, <2>2, <2>5 DEF PoolTypeOK
    <3> QED BY <1>3, <1>4, <2>1, <2>2, <2>3, <3>1, <3>2 DEF PoolInv, NoWork
  <2>6. ASSUME NEW to \in {"block", "try"}, submitPc' = [submitPc EXCEPT ![c] = to],
               submitting' = [submitting EXCEPT ![c] = submitted + 1]
        PROVE  PoolInv'
    <3>1. ASSUME NEW d \in PoolClients, submitPc'[d] # "idle"
          PROVE  /\ submitting'[d] \in 1 .. submitted' /\ submitting'[d] \notin Yes'
                 /\ d = c \/ (submitting'[d] \in 1 .. submitted /\ submitting'[d] = submitting[d]
                              /\ submitPc[d] # "idle")
      <4>1. CASE d = c
        BY <1>1, <1>2, <1>5, <2>1, <2>2, <2>6, <4>1
      <4>2. CASE d # c
        BY <1>1, <1>2, <1>3, <2>1, <2>2, <2>6, <3>1, <4>2 DEF OwnTasks
      <4> QED BY <4>1, <4>2
    <3>2. submitting'[c] = submitted + 1
      BY <1>2, <2>6
    <3>3. ASSUME NEW d \in PoolClients, NEW e \in PoolClients,
                 submitPc'[d] # "idle", submitPc'[e] # "idle", submitting'[d] = submitting'[e]
          PROVE  d = e
      BY <1>1, <1>3, <3>1, <3>2, <3>3 DEF OwnTasks
    <3>4. OwnTasks'
      BY <3>1, <3>3 DEF OwnTasks
    <3>5. PoolTypeOK'
      BY <1>1, <1>2, <2>1, <2>2, <2>6 DEF PoolTypeOK
    <3> QED BY <1>3, <1>4, <2>1, <2>2, <2>3, <3>4, <3>5 DEF PoolInv, NoWork
  <2> QED BY <2>4, <2>5, <2>6
<1>11. ASSUME NEW c \in PoolClients, SubmitSend(c) PROVE PoolInv'
  <2> DEFINE k == submitting[c]
  <2>1. /\ submitPc[c] # "idle" /\ poolQueue' = Append(poolQueue, k)
        /\ answers' = [answers EXCEPT ![k] = TRUE]
        /\ submitPc' = [submitPc EXCEPT ![c] = "idle"]
        /\ submitting' = [submitting EXCEPT ![c] = 0]
        /\ UNCHANGED <<poolStarted, submitted, poolWorkers, poolTask, handled, panicked>>
    BY <1>11 DEF SubmitSend, SubmitEnd, NoWork
  <2>2. k \in 1 .. submitted /\ k \notin Yes /\ k \in Nat
    BY <1>1, <1>3, <2>1 DEF OwnTasks
  <2> HIDE DEF k
  <2>3. answers' \in Seq(BOOLEAN) /\ Len(answers') = submitted /\ Yes' = Yes \cup {k}
    BY <1>3, <2>1, <2>2, AnswerSet
  <2>4. /\ poolQueue' \in Seq(Nat) /\ IsInjective(poolQueue')
        /\ ToSet(poolQueue') = ToSet(poolQueue) \cup {k}
    BY <1>1, <1>3, <2>1, <2>2, Appended DEF OnePlaceEach
  <2>5. Held' = Held
    BY <2>1 DEF Held
  <2>6. OnePlaceEach'
    BY <1>3, <2>1, <2>2, <2>4, <2>5 DEF OnePlaceEach
  <2>7. OwnTasks'
    BY <1>2, <1>3, <2>1, <2>3 DEF OwnTasks, k
  <2>8. PoolTypeOK'
    BY <1>1, <1>2, <2>1, <2>3, <2>4 DEF PoolTypeOK
  <2> QED BY <1>3, <1>4, <2>1, <2>3, <2>4, <2>5, <2>6, <2>7, <2>8 DEF PoolInv, NoWork
<1>12. ASSUME NEW c \in PoolClients, SubmitFails(c) PROVE PoolInv'
  <2>1. /\ submitPc' = [submitPc EXCEPT ![c] = "idle"]
        /\ submitting' = [submitting EXCEPT ![c] = 0]
        /\ UNCHANGED <<poolStarted, submitted, answers, poolQueue, poolWorkers, poolTask,
                       handled, panicked>>
    BY <1>12 DEF SubmitFails, SubmitEnd, NoWork
  <2>2. Yes' = Yes /\ Held' = Held /\ OnePlaceEach'
    BY <1>3, <2>1 DEF Yes, Held, OnePlaceEach
  <2>3. OwnTasks'
    BY <1>2, <1>3, <2>1, <2>2 DEF OwnTasks
  <2>4. answers' \in Seq(BOOLEAN) /\ Len(answers') = submitted'
    BY <1>1, <2>1
  <2>5. PoolTypeOK'
    BY <1>1, <1>2, <2>1, <2>4 DEF PoolTypeOK
  <2> QED BY <1>3, <1>4, <2>1, <2>2, <2>3, <2>5 DEF PoolInv, NoWork
<1>13. ASSUME NEW w \in Workplaces, PoolReceive(w) PROVE PoolInv'
  <2> DEFINE k == Head(poolQueue)
  <2>1. /\ poolWorkers[w] = "select" /\ poolQueue # <<>>
        /\ poolTask' = [poolTask EXCEPT ![w] = k] /\ poolQueue' = Tail(poolQueue)
        /\ poolWorkers' = [poolWorkers EXCEPT ![w] = "process"]
        /\ UNCHANGED <<poolStarted, submitted, answers, submitPc, submitting, handled, panicked>>
    BY <1>13 DEF PoolReceive
  <2>2. /\ poolQueue' \in Seq(Nat) /\ IsInjective(poolQueue')
        /\ k \in ToSet(poolQueue) /\ ToSet(poolQueue') = ToSet(poolQueue) \ {k}
    BY <1>1, <1>3, <2>1, FirstLeaves DEF OnePlaceEach
  <2> HIDE DEF k
  <2>3. k \in Nat \ {0} /\ k \notin Held /\ poolTask[w] = 0
    BY <1>1, <1>3, <1>4, <1>5, <2>1, <2>2 DEF OnePlaceEach
  <2>4. Yes' = Yes
    BY <2>1 DEF Yes
  <2>5. Held' = Held \cup {k}
    <3>1. \A v \in Workplaces : poolTask'[v] = IF v = w THEN k ELSE poolTask[v]
      BY <1>2, <2>1
    <3> QED BY <2>3, <3>1 DEF Held, NoWork
  <2>6. ASSUME NEW u \in Workplaces, NEW v \in Workplaces,
               poolTask'[u] = poolTask'[v], poolTask'[u] # NoWork
        PROVE  u = v
    <3>1. \A x \in Workplaces : poolTask[x] # k
      BY <2>3 DEF Held, NoWork
    <3> QED BY <1>2, <1>3, <2>1, <2>6, <3>1 DEF OnePlaceEach
  <2>7. OnePlaceEach'
    BY <1>3, <2>1, <2>2, <2>3, <2>5, <2>6 DEF OnePlaceEach
  <2>8. OwnTasks'
    BY <1>3, <2>1, <2>4 DEF OwnTasks
  <2>9. answers' \in Seq(BOOLEAN) /\ Len(answers') = submitted'
    BY <1>1, <2>1
  <2>10. PoolTypeOK'
    BY <1>1, <1>2, <2>1, <2>2, <2>3, <2>9 DEF PoolTypeOK
  <2>11. Yes' = ToSet(poolQueue') \cup Held' \cup handled' \cup panicked'
    BY <1>3, <2>1, <2>2, <2>4, <2>5
  <2>12. /\ \A v \in Workplaces : poolTask'[v] # 0 <=> poolWorkers'[v] = "process"
         /\ ~poolStarted' => \A v \in Workplaces : poolWorkers'[v] = "none"
    BY <1>2, <1>4, <2>1, <2>3
  <2> QED BY <2>7, <2>8, <2>10, <2>11, <2>12 DEF PoolInv, NoWork
<1>14. ASSUME NEW w \in Workplaces, PoolProcess(w) PROVE PoolInv'
  <2> DEFINE k == poolTask[w]
  <2>1. /\ poolWorkers[w] = "process" /\ poolTask' = [poolTask EXCEPT ![w] = 0]
        /\ UNCHANGED <<poolStarted, submitted, answers, poolQueue, submitPc, submitting>>
        /\ \/ handled' = handled \cup {k} /\ panicked' = panicked
           \/ handled' = handled /\ panicked' = panicked \cup {k}
        /\ \E to \in {"select", "exited"} : poolWorkers' = [poolWorkers EXCEPT ![w] = to]
    BY <1>14 DEF PoolProcess, NoWork
  <2>2. k \in Nat \ {0} /\ k \in Held /\ \A v \in Workplaces : v # w => poolTask[v] # k
    BY <1>2, <1>3, <1>4, <2>1 DEF Held, OnePlaceEach, NoWork
  <2> HIDE DEF k
  <2>3. Held' = Held \ {k}
    <3>1. \A v \in Workplaces : poolTask'[v] = IF v = w THEN 0 ELSE poolTask[v]
      BY <1>2, <2>1
    <3> QED BY <2>2, <3>1 DEF Held, NoWork, k
  <2>4. Yes' = Yes
    BY <2>1 DEF Yes
  <2>5. OnePlaceEach'
    BY <1>2, <1>3, <2>1, <2>2, <2>3 DEF OnePlaceEach, NoWork
  <2>6. OwnTasks'
    BY <1>3, <2>1, <2>4 DEF OwnTasks
  <2>7. answers' \in Seq(BOOLEAN) /\ Len(answers') = submitted'
    BY <1>1, <2>1
  <2>8. PoolTypeOK'
    BY <1>1, <1>2, <2>1, <2>7 DEF PoolTypeOK
  <2>9. Yes' = ToSet(poolQueue') \cup Held' \cup handled' \cup panicked'
    BY <1>3, <2>1, <2>2, <2>3, <2>4
  <2>10. /\ \A v \in Workplaces : poolTask'[v] # 0 <=> poolWorkers'[v] = "process"
         /\ ~poolStarted' => \A v \in Workplaces : poolWorkers'[v] = "none"
    BY <1>2, <1>4, <2>1
  <2> QED BY <2>5, <2>6, <2>8, <2>9, <2>10 DEF PoolInv, NoWork
<1> QED
  BY <1>7, <1>8, <1>9, <1>10, <1>11, <1>12, <1>13, <1>14 DEF WorkerPoolNext, PoolWorker

(* WorkerPool: a task whose Submit returned true is in the queue, with a   *)
(* worker, handled or lost to a panic of its handler, and no other is.     *)
(* KafkaProducer: nobody sends to a producer that is closed, and nothing   *)
(* is reported that was not taken.  KafkaConsumer: what was committed was  *)
(* seen by every handler.                                                  *)
THEOREM AnswersAreKept == RunnersSpec => []SubmitExact
<1> DEFINE I == /\ part = "pool" => PoolInv
                /\ part = "producer" => KafkaProducerInv
                /\ part = "consumer" => KafkaConsumerInv
<1>1. RunnersInit => I
  BY PoolInitial, KafkaProducerInitial, KafkaConsumerInitial DEF RunnersInit
<1>2. I /\ [RunnersNext]_allVars => I'
  <2> SUFFICES ASSUME I, [RunnersNext]_allVars PROVE I'
    OBVIOUS
  <2>1. CASE RunnersNext
    BY <2>1, PartStep, PoolKept, KafkaProducerKept, KafkaConsumerKept
  <2>2. CASE UNCHANGED allVars
    <3>1. /\ part' = part /\ workerPoolVars' = workerPoolVars
          /\ kafkaProducerVars' = kafkaProducerVars /\ kafkaConsumerVars' = kafkaConsumerVars
      BY <2>2 DEF allVars
    <3>2. PoolInv => PoolInv'
      <4>1. UNCHANGED <<submitted, answers, poolQueue, poolTask, submitPc, submitting,
                        handled, panicked, poolStarted, poolWorkers>>
        BY <3>1 DEF workerPoolVars
      <4>2. Yes' = Yes /\ Held' = Held /\ (OnePlaceEach => OnePlaceEach') /\ (OwnTasks => OwnTasks')
        BY <4>1 DEF Yes, Held, OnePlaceEach, OwnTasks
      <4>3. PoolTypeOK => PoolTypeOK'
        BY <4>1, Zenon DEF PoolTypeOK
      <4> QED BY <4>1, <4>2, <4>3 DEF PoolInv
    <3>3. KafkaProducerInv => KafkaProducerInv'
      BY <3>1 DEF kafkaProducerVars, KafkaProducerInv, KafkaProducerTypeOK, ProducerExact, Busy
    <3>4. KafkaConsumerInv => KafkaConsumerInv'
      BY <3>1 DEF kafkaConsumerVars, KafkaConsumerInv, KafkaConsumerTypeOK, AtLeastOnce
    <3> QED BY <3>1, <3>2, <3>3, <3>4
  <2> QED BY <2>1, <2>2
<1>3. I => SubmitExact
  BY PoolCounts DEF KafkaProducerInv, KafkaConsumerInv, SubmitExact
<1> QED BY <1>1, <1>2, <1>3, PTL DEF RunnersSpec

--------------------------------------------------------------------------------
(* Triggers.                                                               *)
Frame == [event : EventTypes,
          at : {"lock", "match", "run", "act", "failed"},
          left : SUBSET TriggerIDs, matching : SUBSET TriggerIDs,
          trigger : TriggerIDs \cup {"none"}]

TriggersTypeOK ==
  /\ kind \in [TriggerIDs -> [type : EventTypes, priority : Priorities, once : BOOLEAN]]
  /\ registered \subseteq TriggerIDs
  /\ executed \in [TriggerIDs -> BOOLEAN]
  /\ stack \in [Firers -> Seq(Frame)]
  /\ runs \in [TriggerIDs -> Nat]

(* No two events execute trigger t.                                        *)
Sole(t) ==
  \A f, g \in Firers : \A i \in DOMAIN stack[f], j \in DOMAIN stack[g] :
    stack[f][i].trigger = t /\ stack[g][j].trigger = t => f = g /\ i = j

(* A trigger that has run once is marked, and only one that is to execute  *)
(* once counts its runs.  As long as no two events have executed it        *)
(* together, one that is marked is not being executed: its next execution  *)
(* would have to begin after the mark.                                     *)
Once(t) ==
  /\ runs[t] > 0 => kind[t].once /\ executed[t]
  /\ t \notin overlapping =>
       runs[t] <= 1 /\ Sole(t) /\ (kind[t].once /\ executed[t] => ~Executing(t))

(* Together.                                                               *)
TriggersInv == TriggersTypeOK /\ \A t \in TriggerIDs : Once(t)

(* No trigger has run and no event is under way.                           *)
LEMMA TriggersInitial == TriggersInit => TriggersInv
<1> SUFFICES ASSUME TriggersInit PROVE TriggersInv
  OBVIOUS
<1>1. <<>> \in Seq(Frame) /\ DOMAIN <<>> = {}
  BY EmptySeq
<1>2. /\ stack = [f \in Firers |-> <<>>] /\ \A f \in Firers : DOMAIN stack[f] = {}
      /\ stack \in [Firers -> Seq(Frame)]
  BY <1>1 DEF TriggersInit
<1>3. TriggersTypeOK
  BY <1>2 DEF TriggersInit, TriggersTypeOK
<1>4. \A t \in TriggerIDs : Once(t)
  BY <1>2 DEF TriggersInit, Once, Sole, Executing
<1> QED BY <1>3, <1>4 DEF TriggersInv

(* Without its last element a sequence is the same, up to there.           *)
LEMMA FrontRemains ==
  ASSUME NEW S, NEW s \in Seq(S), s # <<>>
  PROVE  /\ Front(s) \in Seq(S) /\ Len(s) \in Nat \ {0} /\ Len(Front(s)) = Len(s) - 1
         /\ DOMAIN s = 1 .. Len(s) /\ DOMAIN Front(s) = 1 .. Len(s) - 1
         /\ \A i \in 1 .. Len(s) - 1 : Front(s)[i] = s[i]
<1> DEFINE n == Len(s) - 1
           r == SubSeq(s, 1, n)
<1>1. Len(s) \in Nat \ {0} /\ DOMAIN s = 1 .. Len(s) /\ \A i \in 1 .. Len(s) : s[i] \in S
  BY EmptySeq, LenProperties, ElementOfSeq
<1>2. n \in Nat /\ n = Len(s) - 1 /\ 1 \in Int /\ n \in Int /\ \A i \in 1 .. n : s[i] \in S
  BY <1>1
<1> HIDE DEF n
<1>3. /\ r \in Seq(S) /\ Len(r) = IF 1 <= n THEN n - 1 + 1 ELSE 0
      /\ \A i \in 1 .. n - 1 + 1 : r[i] = s[1 + i - 1]
  BY <1>2, SubSeqProperties
<1> HIDE DEF r
<1>4. Len(r) = n /\ \A i \in 1 .. n : r[i] = s[i]
  BY <1>2, <1>3
<1>5. DOMAIN r = 1 .. n
  BY <1>3, <1>4, LenProperties
<1> QED BY <1>1, <1>2, <1>3, <1>4, <1>5 DEF r, n, Front

(* The last element gives way to another one.                              *)
LEMMA LastReplaced ==
  ASSUME NEW S, NEW s \in Seq(S), s # <<>>, NEW x \in S
  PROVE  /\ Append(Front(s), x) \in Seq(S) /\ DOMAIN Append(Front(s), x) = DOMAIN s
         /\ Append(Front(s), x)[Len(s)] = x /\ Len(s) \in DOMAIN s
         /\ \A i \in DOMAIN s : i # Len(s) => Append(Front(s), x)[i] = s[i]
<1> DEFINE r == Front(s)
           t == Append(r, x)
<1>1. /\ r \in Seq(S) /\ Len(s) \in Nat \ {0} /\ Len(r) = Len(s) - 1
      /\ DOMAIN s = 1 .. Len(s) /\ \A i \in 1 .. Len(s) - 1 : r[i] = s[i]
  BY FrontRemains
<1> HIDE DEF r
<1>2. /\ t \in Seq(S) /\ Len(t) = Len(r) + 1 /\ t[Len(r) + 1] = x
      /\ \A i \in 1 .. Len(r) : t[i] = r[i]
  BY <1>1, AppendProperties
<1> HIDE DEF t
<1>3. DOMAIN t = 1 .. Len(s) /\ t[Len(s)] = x
  BY <1>1, <1>2, LenProperties
<1>4. ASSUME NEW i \in DOMAIN s, i # Len(s) PROVE t[i] = s[i]
  BY <1>1, <1>2, <1>4
<1> QED BY <1>1, <1>2, <1>3, <1>4 DEF t, r

(* An event gives way to another state of it, ...                          *)
Holds(s, i, t) == i \in DOMAIN s /\ s[i].trigger = t
Keeps(s, r, t) == \A i \in DOMAIN r : r[i].trigger = t => Holds(s, i, t)

(* The last frame of a stack is replaced by x.                             *)
LEMMA FrameReplaced ==
  ASSUME NEW s \in Seq(Frame), s # <<>>, NEW x \in Frame, NEW r, r = Append(Front(s), x)
  PROVE  /\ r \in Seq(Frame) /\ DOMAIN r = DOMAIN s /\ Len(s) \in DOMAIN s
         /\ r[Len(s)] = x /\ \A i \in DOMAIN s : i # Len(s) => r[i] = s[i]
         /\ \A t : x.trigger # t \/ s[Len(s)].trigger = t => Keeps(s, r, t)
<1>1. /\ r \in Seq(Frame) /\ DOMAIN r = DOMAIN s /\ Len(s) \in DOMAIN s
      /\ r[Len(s)] = x /\ \A i \in DOMAIN s : i # Len(s) => r[i] = s[i]
  BY LastReplaced
<1>2. \A t : x.trigger # t \/ s[Len(s)].trigger = t => Keeps(s, r, t)
  BY <1>1 DEF Holds, Keeps
<1> QED BY <1>1, <1>2

(* ... it ends, perhaps with a failure of the action that fired it, ...    *)
LEMMA FrameEnds ==
  ASSUME stack \in [Firers -> Seq(Frame)], NEW f \in Firers, stack[f] # <<>>, NEW failure,
         stack' = Ended(f, failure)
  PROVE  /\ stack' \in [Firers -> Seq(Frame)] /\ \A t : Keeps(stack[f], stack'[f], t)
         /\ \A g \in Firers : g # f => stack'[g] = stack[g]
<1> DEFINE s == stack[f]
           outer == Front(s)
           x == [Last(outer) EXCEPT !.at = "failed"]
           r == IF outer = <<>> \/ ~failure THEN outer ELSE Append(Front(outer), x)
<1>1. stack' = [stack EXCEPT ![f] = r] /\ s \in Seq(Frame) /\ s # <<>>
  BY DEF Ended
<1>2. /\ outer \in Seq(Frame) /\ Len(s) \in Nat \ {0} /\ Len(outer) = Len(s) - 1
      /\ DOMAIN s = 1 .. Len(s) /\ DOMAIN outer = 1 .. Len(s) - 1
      /\ \A i \in 1 .. Len(s) - 1 : outer[i] = s[i]
  BY <1>1, FrontRemains
<1> HIDE DEF s, outer
<1>3. r \in Seq(Frame) /\ \A t : Keeps(s, r, t)
  <2>1. \A i \in DOMAIN outer : i \in DOMAIN s /\ outer[i] = s[i]
    BY <1>2
  <2>2. CASE outer = <<>> \/ ~failure
    BY <1>2, <2>1, <2>2 DEF Keeps, Holds
  <2>3. CASE outer # <<>> /\ failure
    <3>1. Last(outer) \in Frame /\ Len(outer) \in DOMAIN outer /\ Last(outer) = outer[Len(outer)]
      BY <1>2, <2>3, LenProperties, EmptySeq, ElementOfSeq DEF Last
    <3>2. x \in Frame /\ x.trigger = Last(outer).trigger
      BY <3>1 DEF Frame
    <3>3. r = Append(Front(outer), x)
      BY <2>3
    <3> HIDE DEF x, r
    <3>4. /\ r \in Seq(Frame) /\ DOMAIN r = DOMAIN outer /\ r[Len(outer)] = x
          /\ \A i \in DOMAIN outer : i # Len(outer) => r[i] = outer[i]
      BY <1>2, <2>3, <3>2, <3>3, LastReplaced
    <3> QED BY <2>1, <3>1, <3>2, <3>4 DEF Keeps, Holds
  <2> QED BY <2>2, <2>3
<1> HIDE DEF r
<1>4. stack' \in [Firers -> Seq(Frame)] /\ stack'[f] = r /\ \A g \in Firers : g # f => stack'[g] = stack[g]
  BY <1>1, <1>3
<1> QED BY <1>3, <1>4 DEF s

(* ... and where no event begins to execute a trigger, the trigger is as   *)
(* before.                                                                 *)
LEMMA OnceStays ==
  ASSUME NEW t \in TriggerIDs, Once(t),
         \A f \in Firers : Keeps(stack[f], stack'[f], t),
         runs'[t] = runs[t], executed'[t] = executed[t], kind'[t] = kind[t],
         t \in overlapping => t \in overlapping'
  PROVE  Once(t)'
<1>1. Sole(t) => Sole(t)'
  BY DEF Sole, Keeps, Holds
<1>2. Executing(t)' => Executing(t)
  BY DEF Executing, Keeps, Holds
<1> QED BY <1>1, <1>2 DEF Once

(* A step that begins no execution and marks nothing keeps the invariant.  *)
LEMMA NothingExecuted ==
  ASSUME TriggersInv, stack' \in [Firers -> Seq(Frame)], registered' \subseteq TriggerIDs,
         \A f \in Firers : \A t \in TriggerIDs : Keeps(stack[f], stack'[f], t),
         UNCHANGED <<kind, executed, runs, overlapping>>
  PROVE  TriggersInv'
<1>1. TriggersTypeOK'
  BY DEF TriggersInv, TriggersTypeOK
<1>2. \A t \in TriggerIDs : Once(t)'
  BY OnceStays DEF TriggersInv
<1> QED BY <1>1, <1>2 DEF TriggersInv

(* The innermost event of f, as an action finds it.                        *)
LEMMA Innermost ==
  ASSUME TriggersInv, NEW f \in Firers, stack[f] # <<>>
  PROVE  /\ stack \in [Firers -> Seq(Frame)] /\ stack[f] \in Seq(Frame)
         /\ Last(stack[f]) \in Frame /\ Last(stack[f]) = stack[f][Len(stack[f])]
         /\ Len(stack[f]) \in DOMAIN stack[f]
<1>1. stack \in [Firers -> Seq(Frame)] /\ stack[f] \in Seq(Frame)
  BY DEF TriggersInv, TriggersTypeOK
<1>2. Len(stack[f]) \in 1 .. Len(stack[f]) /\ DOMAIN stack[f] = 1 .. Len(stack[f])
  BY <1>1, LenProperties, EmptySeq
<1> QED BY <1>1, <1>2, ElementOfSeq DEF Last

(* It gives way to another state of it, with the same trigger, another one *)
(* or none.                                                                *)
LEMMA InnermostReplaced ==
  ASSUME TriggersInv, NEW f \in Firers, stack[f] # <<>>, NEW x \in Frame, stack' = Top(f, x)
  PROVE  /\ stack' \in [Firers -> Seq(Frame)]
         /\ \A g \in Firers : g # f => stack'[g] = stack[g]
         /\ DOMAIN stack'[f] = DOMAIN stack[f] /\ Len(stack[f]) \in DOMAIN stack[f]
         /\ stack'[f][Len(stack[f])] = x
         /\ \A i \in DOMAIN stack[f] : i # Len(stack[f]) => stack'[f][i] = stack[f][i]
         /\ \A t : x.trigger # t \/ Last(stack[f]).trigger = t =>
              \A g \in Firers : Keeps(stack[g], stack'[g], t)
<1> DEFINE s == stack[f]
           r == Append(Front(s), x)
<1>1. stack \in [Firers -> Seq(Frame)] /\ s \in Seq(Frame) /\ Last(s) = s[Len(s)] /\ s # <<>>
  BY Innermost
<1>2. stack' = [stack EXCEPT ![f] = r]
  BY DEF Top
<1> HIDE DEF s
<1>3. /\ r \in Seq(Frame) /\ DOMAIN r = DOMAIN s /\ Len(s) \in DOMAIN s
      /\ r[Len(s)] = x /\ \A i \in DOMAIN s : i # Len(s) => r[i] = s[i]
      /\ \A t : x.trigger # t \/ s[Len(s)].trigger = t => Keeps(s, r, t)
  BY <1>1, FrameReplaced
<1> HIDE DEF r
<1>4. /\ stack' \in [Firers -> Seq(Frame)] /\ stack'[f] = r
      /\ \A g \in Firers : g # f => stack'[g] = stack[g]
  BY <1>1, <1>2, <1>3
<1>5. \A t : \A g \in Firers : g # f => Keeps(stack[g], stack'[g], t)
  BY <1>4 DEF Keeps, Holds
<1> QED BY <1>1, <1>3, <1>4, <1>5 DEF s

(* A trigger begins to be executed: if nobody else executes it, it has     *)
(* just been looked at, and is not marked.                                 *)
LEMMA ExecuteTriggerKept ==
  ASSUME TriggersInv, NEW f \in Firers, ExecuteTrigger(f)
  PROVE  TriggersInv'
<1> DEFINE frame == Last(stack[f])
<1>1. /\ stack[f] # <<>> /\ stack \in [Firers -> Seq(Frame)] /\ frame \in Frame
      /\ Len(stack[f]) \in DOMAIN stack[f]
      /\ TriggersTypeOK /\ registered' \subseteq TriggerIDs
  BY Innermost DEF ExecuteTrigger, At, lockVars, TriggersInv, TriggersTypeOK
<1>2. UNCHANGED <<kind, executed, runs>>
  BY DEF ExecuteTrigger, lockVars
<1>3. ASSUME NEW t \in frame.matching, CanExecute(t, frame.event),
             stack' = Top(f, [frame EXCEPT !.at = "act", !.matching = @ \ {t}, !.trigger = t]),
             overlapping' = IF Executing(t) THEN overlapping \cup {t} ELSE overlapping
      PROVE  TriggersInv'
  <2> DEFINE x == [frame EXCEPT !.at = "act", !.matching = @ \ {t}, !.trigger = t]
  <2>1. t \in TriggerIDs /\ x \in Frame /\ x.trigger = t
    BY <1>1, <1>3 DEF Frame
  <2>2. stack' = Top(f, x)
    BY <1>3
  <2> HIDE DEF x, frame
  <2>3. /\ stack' \in [Firers -> Seq(Frame)]
        /\ \A g \in Firers : g # f => stack'[g] = stack[g]
        /\ DOMAIN stack'[f] = DOMAIN stack[f]
        /\ \A i \in DOMAIN stack[f] : i # Len(stack[f]) => stack'[f][i] = stack[f][i]
        /\ \A u : u # t => \A g \in Firers : Keeps(stack[g], stack'[g], u)
    BY <1>1, <2>1, <2>2, InnermostReplaced
  <2>4. TriggersTypeOK'
    BY <1>1, <1>2, <2>3 DEF TriggersTypeOK
  <2>5. ASSUME NEW u \in TriggerIDs, u # t PROVE Once(u)'
    <3>1. u \in overlapping => u \in overlapping'
      BY <1>3
    <3> QED BY <1>2, <2>3, <2>5, <3>1, OnceStays DEF TriggersInv
  <2>6. Once(t)'
    <3>1. CASE Executing(t)
      BY <1>2, <1>3, <2>1, <3>1 DEF Once, TriggersInv
    <3>2. CASE ~Executing(t)
      <4>1. \A g \in Firers : \A i \in DOMAIN stack[g] : stack[g][i].trigger # t
        BY <3>2 DEF Executing
      <4>2. \A g \in Firers : \A i \in DOMAIN stack'[g] :
              stack'[g][i].trigger = t => g = f /\ i = Len(stack[f])
        BY <2>3, <4>1
      <4>3. Sole(t)'
        BY <4>2 DEF Sole
      <4>4. ~(kind[t].once /\ executed[t])
        BY <1>3 DEF CanExecute
      <4> QED BY <1>2, <1>3, <2>1, <3>2, <4>3, <4>4 DEF Once, TriggersInv
    <3> QED BY <3>1, <3>2
  <2> QED BY <2>4, <2>5, <2>6 DEF TriggersInv
<1>4. CASE stack' = Ended(f, TRUE) /\ UNCHANGED overlapping
  <2>1. /\ stack' \in [Firers -> Seq(Frame)] /\ \A t : Keeps(stack[f], stack'[f], t)
        /\ \A g \in Firers : g # f => stack'[g] = stack[g]
    BY <1>1, <1>4, FrameEnds
  <2>2. \A g \in Firers : \A t \in TriggerIDs : Keeps(stack[g], stack'[g], t)
    BY <2>1 DEF Keeps, Holds
  <2> QED BY <1>1, <1>2, <1>4, <2>1, <2>2, NothingExecuted
<1> QED BY <1>3, <1>4 DEF ExecuteTrigger

(* Its actions are done: it is marked, and nobody executes it now.         *)
LEMMA ActionsDoneKept ==
  ASSUME TriggersInv, NEW f \in Firers, ActionsDone(f)
  PROVE  TriggersInv'
<1> DEFINE frame == Last(stack[f])
<1> SUFFICES ASSUME NEW t, t = frame.trigger PROVE TriggersInv'
  OBVIOUS
<1> DEFINE x == [frame EXCEPT !.at = "run", !.trigger = "none"]
<1>1. /\ stack[f] # <<>> /\ stack \in [Firers -> Seq(Frame)] /\ frame \in Frame
      /\ Len(stack[f]) \in DOMAIN stack[f] /\ frame = stack[f][Len(stack[f])]
      /\ TriggersTypeOK /\ registered' \subseteq TriggerIDs
  BY Innermost DEF ActionsDone, At, lockVars, TriggersInv, TriggersTypeOK
<1>2. /\ kind' = kind /\ overlapping' = overlapping /\ stack' = Top(f, x)
      /\ executed' = [executed EXCEPT ![t] = @ \/ kind[t].once]
      /\ runs' = [runs EXCEPT ![t] = IF kind[t].once THEN @ + 1 ELSE @]
  BY DEF ActionsDone, lockVars
<1>3. x \in Frame /\ x.trigger = "none" /\ t \in TriggerIDs \cup {"none"}
  BY <1>1 DEF Frame
<1> HIDE DEF x
<1>4. /\ stack' \in [Firers -> Seq(Frame)]
      /\ \A g \in Firers : g # f => stack'[g] = stack[g]
      /\ DOMAIN stack'[f] = DOMAIN stack[f] /\ stack'[f][Len(stack[f])] = x
      /\ \A u : u # "none" => \A g \in Firers : Keeps(stack[g], stack'[g], u)
  BY <1>1, <1>2, <1>3, InnermostReplaced
<1>a. stack[f][Len(stack[f])].trigger = t
  BY <1>1
<1> HIDE DEF frame
<1>5. ASSUME NEW u \in TriggerIDs, u # t
      PROVE  executed'[u] = executed[u] /\ runs'[u] = runs[u]
  BY <1>1, <1>2, <1>5 DEF TriggersTypeOK
<1>6. ASSUME t \in TriggerIDs
      PROVE  /\ executed'[t] = (executed[t] \/ kind[t].once)
             /\ runs'[t] = IF kind[t].once THEN runs[t] + 1 ELSE runs[t]
  BY <1>1, <1>2, <1>6 DEF TriggersTypeOK
<1>7. kind'[t] = kind[t]
  BY <1>2
<1>8. TriggersTypeOK'
  <2>1. executed' \in [TriggerIDs -> BOOLEAN]
    <3>1. \A u \in TriggerIDs : executed[u] \in BOOLEAN /\ kind[u].once \in BOOLEAN
      BY <1>1 DEF TriggersTypeOK
    <3>2. executed' = [u \in TriggerIDs |-> IF u = t THEN executed[t] \/ kind[t].once ELSE executed[u]]
      BY <1>1, <1>2 DEF TriggersTypeOK
    <3> QED BY <3>1, <3>2
  <2>2. runs' \in [TriggerIDs -> Nat]
    <3>1. \A u \in TriggerIDs : runs[u] \in Nat
      BY <1>1 DEF TriggersTypeOK
    <3>2. \A u \in TriggerIDs : runs'[u] \in Nat
      BY <1>5, <1>6, <3>1
    <3>3. runs' = [u \in TriggerIDs |-> runs'[u]]
      BY <1>1, <1>2 DEF TriggersTypeOK
    <3> QED BY <3>2, <3>3
  <2> QED BY <1>1, <1>2, <1>4, <2>1, <2>2 DEF TriggersTypeOK
<1>9. ASSUME NEW u \in TriggerIDs, u # t PROVE Once(u)'
  <2>1. u # "none"
    BY TriggersAssumption
  <2> QED BY <1>2, <1>4, <1>5, <1>9, <2>1, OnceStays DEF TriggersInv
<1>10. ASSUME t \in TriggerIDs PROVE Once(t)'
  <2>1. t # "none" /\ Once(t) /\ runs[t] \in Nat
    BY <1>1, <1>10, TriggersAssumption DEF TriggersInv, TriggersTypeOK
  <2>2. \A g \in Firers : Keeps(stack[g], stack'[g], t)
    BY <1>4, <2>1
  <2>3. runs'[t] > 0 => kind'[t].once /\ executed'[t]
    BY <1>6, <1>7, <1>10, <2>1 DEF Once
  <2>4. ASSUME t \notin overlapping'
        PROVE  /\ runs'[t] <= 1 /\ Sole(t)'
               /\ ~Executing(t)'
    <3>1. /\ runs[t] <= 1 /\ Sole(t) /\ (kind[t].once /\ executed[t] => ~Executing(t))
      BY <1>2, <2>1, <2>4 DEF Once
    <3>2. stack[f][Len(stack[f])].trigger = t
      BY <1>a
    <3>3. Executing(t)
      BY <1>1, <3>2 DEF Executing
    <3>4. kind[t].once => runs[t] = 0
      BY <2>1, <3>1, <3>3 DEF Once
    <3>5. runs'[t] <= 1
      <4>1. CASE kind[t].once
        BY <1>6, <1>10, <3>4, <4>1
      <4>2. CASE ~kind[t].once
        BY <1>6, <1>10, <3>1, <4>2
      <4> QED BY <4>1, <4>2
    <3>6. Sole(t)'
      BY <2>2, <3>1 DEF Sole, Keeps, Holds
    <3>7. ~Executing(t)'
      <4>1. ASSUME NEW g \in Firers, NEW i \in DOMAIN stack'[g], stack'[g][i].trigger = t
            PROVE  FALSE
        <5>1. i \in DOMAIN stack[g] /\ stack[g][i].trigger = t
          BY <2>2, <4>1 DEF Keeps, Holds
        <5>2. g = f /\ i = Len(stack[f])
          BY <1>1, <3>1, <3>2, <5>1 DEF Sole
        <5> QED BY <1>3, <1>4, <2>1, <4>1, <5>2
      <4> QED BY <4>1 DEF Executing
    <3> QED BY <3>5, <3>6, <3>7
  <2> QED BY <2>3, <2>4 DEF Once
<1> QED BY <1>8, <1>9, <1>10 DEF TriggersInv

(* Registration, the events and the actions of the triggers keep the       *)
(* invariant.                                                              *)
LEMMA TriggersKept == TriggersInv /\ TriggersNext => TriggersInv'
<1> SUFFICES ASSUME TriggersInv, TriggersNext PROVE TriggersInv'
  OBVIOUS
<1>1. TriggersTypeOK /\ stack \in [Firers -> Seq(Frame)] /\ registered \subseteq TriggerIDs
  BY DEF TriggersInv, TriggersTypeOK
<1>2. ASSUME UNCHANGED <<kind, executed, stack, runs, overlapping>>,
             registered' \subseteq TriggerIDs
      PROVE  TriggersInv'
  <2>1. \A f \in Firers : \A t \in TriggerIDs : Keeps(stack[f], stack'[f], t)
    BY <1>2 DEF Keeps, Holds
  <2> QED BY <1>1, <1>2, <2>1, NothingExecuted
<1>3. CASE WriterLocks
  BY <1>1, <1>2, <1>3 DEF WriterLocks
<1>4. CASE WriterWrites
  <2>1. registered' \subseteq TriggerIDs
    BY <1>1, <1>4 DEF WriterWrites
  <2> QED BY <1>2, <1>4, <2>1 DEF WriterWrites
<1>5. CASE StopManager
  BY <1>1, <1>2, <1>5 DEF StopManager
<1>6. ASSUME NEW t \in TriggerIDs, ResetTrigger(t) PROVE TriggersInv'
  <2>1. /\ UNCHANGED <<kind, registered, stack, overlapping>>
        /\ executed' = [executed EXCEPT ![t] = FALSE] /\ runs' = [runs EXCEPT ![t] = 0]
    BY <1>6 DEF ResetTrigger
  <2>2. TriggersTypeOK'
    <3>1. executed' \in [TriggerIDs -> BOOLEAN]
      BY <1>1, <2>1 DEF TriggersTypeOK
    <3>2. runs' \in [TriggerIDs -> Nat]
      BY <1>1, <2>1 DEF TriggersTypeOK
    <3> QED BY <1>1, <2>1, <3>1, <3>2 DEF TriggersTypeOK
  <2>3. \A u \in TriggerIDs :
          (~executed'[u] /\ runs'[u] = 0) \/ (executed'[u] = executed[u] /\ runs'[u] = runs[u])
    <3>1. executed \in [TriggerIDs -> BOOLEAN] /\ runs \in [TriggerIDs -> Nat]
      BY <1>1 DEF TriggersTypeOK
    <3>2. \A u \in TriggerIDs : u # t => executed'[u] = executed[u] /\ runs'[u] = runs[u]
      BY <2>1, <3>1
    <3>3. executed'[t] = FALSE
      BY <2>1, <3>1
    <3>4. runs'[t] = 0
      BY <2>1, <3>1
    <3> QED BY <3>2, <3>3, <3>4
  <2>4. ASSUME NEW u \in TriggerIDs PROVE Once(u)'
    <3>1. Once(u)
      BY DEF TriggersInv
    <3>2. (Sole(u) => Sole(u)') /\ (Executing(u)' => Executing(u)) /\ kind'[u] = kind[u]
          /\ overlapping' = overlapping
      BY <2>1 DEF Sole, Executing
    <3>3. CASE ~executed'[u] /\ runs'[u] = 0
      BY <3>1, <3>2, <3>3 DEF Once
    <3>4. CASE executed'[u] = executed[u] /\ runs'[u] = runs[u]
      BY <3>1, <3>2, <3>4 DEF Once
    <3> QED BY <2>3, <3>3, <3>4
  <2> QED BY <2>2, <2>4 DEF TriggersInv
<1>7. ASSUME NEW f \in Firers, NEW e \in EventTypes, FireEvent(f, e) PROVE TriggersInv'
  <2> DEFINE x == [event |-> e, at |-> "lock", left |-> {}, matching |-> {}, trigger |-> "none"]
             s == stack[f]
             r == Append(s, x)
  <2>1. /\ stack' = [stack EXCEPT ![f] = r]
        /\ UNCHANGED <<kind, registered, executed, runs, overlapping>>
    BY <1>7 DEF FireEvent, lockVars
  <2>2. x \in Frame /\ x.trigger = "none" /\ s \in Seq(Frame)
    BY <1>1 DEF Frame
  <2> HIDE DEF x, s
  <2>3. /\ r \in Seq(Frame) /\ Len(r) = Len(s) + 1 /\ r[Len(s) + 1] = x
        /\ \A i \in 1 .. Len(s) : r[i] = s[i]
    BY <2>2, AppendProperties
  <2> HIDE DEF r
  <2>4. Len(s) \in Nat /\ DOMAIN s = 1 .. Len(s) /\ DOMAIN r = 1 .. Len(s) + 1
    BY <2>2, <2>3, LenProperties
  <2>5. \A i \in DOMAIN r : (i \in DOMAIN s /\ r[i] = s[i]) \/ r[i].trigger = "none"
    BY <2>2, <2>3, <2>4
  <2>6. \A t \in TriggerIDs : Keeps(s, r, t)
    BY <2>5, TriggersAssumption DEF Keeps, Holds
  <2>7. /\ stack' \in [Firers -> Seq(Frame)] /\ stack'[f] = r
        /\ \A g \in Firers : g # f => stack'[g] = stack[g]
    BY <1>1, <2>1, <2>3
  <2>8. \A g \in Firers : \A t \in TriggerIDs : Keeps(stack[g], stack'[g], t)
    BY <2>6, <2>7 DEF Keeps, Holds, s
  <2> QED BY <1>1, <2>1, <2>7, <2>8, NothingExecuted
<1>8. ASSUME NEW f \in Firers, stack[f] # <<>>, NEW x \in Frame, stack' = Top(f, x),
             x.trigger = Last(stack[f]).trigger,
             UNCHANGED <<kind, registered, executed, runs, overlapping>>
      PROVE  TriggersInv'
  <2>1. /\ stack' \in [Firers -> Seq(Frame)]
        /\ \A t : \A g \in Firers : Keeps(stack[g], stack'[g], t)
    BY <1>8, InnermostReplaced
  <2> QED BY <1>1, <1>8, <2>1, NothingExecuted
<1>9. ASSUME NEW f \in Firers, stack[f] # <<>>, NEW failure, stack' = Ended(f, failure),
             UNCHANGED <<kind, registered, executed, runs, overlapping>>
      PROVE  TriggersInv'
  <2>1. /\ stack' \in [Firers -> Seq(Frame)] /\ \A t : Keeps(stack[f], stack'[f], t)
        /\ \A g \in Firers : g # f => stack'[g] = stack[g]
    BY <1>1, <1>9, FrameEnds
  <2>2. \A g \in Firers : \A t \in TriggerIDs : Keeps(stack[g], stack'[g], t)
    BY <2>1 DEF Keeps, Holds
  <2> QED BY <1>1, <1>9, <2>1, <2>2, NothingExecuted
<1>10. ASSUME NEW f \in Firers, ReaderLocks(f) PROVE TriggersInv'
  <2> DEFINE frame == Last(stack[f])
             x == [frame EXCEPT !.at = "match", !.left = registered]
  <2>1. /\ stack[f] # <<>> /\ stack' = Top(f, x)
        /\ UNCHANGED <<kind, registered, executed, runs, overlapping>>
    BY <1>10 DEF ReaderLocks, At, lockVars
  <2>2. frame \in Frame
    BY <2>1, Innermost
  <2>3. x \in Frame /\ x.trigger = frame.trigger
    BY <1>1, <2>2 DEF Frame
  <2> HIDE DEF x
  <2> QED BY <1>8, <2>1, <2>3
<1>11. ASSUME NEW f \in Firers, MatchTrigger(f) PROVE TriggersInv'
  <2> DEFINE frame == Last(stack[f])
  <2>1. /\ stack[f] # <<>>
        /\ UNCHANGED <<kind, registered, executed, runs, overlapping>>
    BY <1>11 DEF MatchTrigger, At, lockVars
  <2>2. frame \in Frame
    BY <2>1, Innermost
  <2>3. ASSUME NEW t \in frame.left,
               \/ stack' = Top(f, [frame EXCEPT !.left = @ \ {t}])
               \/ stack' = Top(f, [[frame EXCEPT !.left = @ \ {t}] EXCEPT !.matching = @ \cup {t}])
        PROVE  TriggersInv'
    <3> DEFINE y == [frame EXCEPT !.left = @ \ {t}]
               z == [y EXCEPT !.matching = @ \cup {t}]
    <3>1. y \in Frame /\ y.trigger = frame.trigger /\ t \in TriggerIDs
      BY <2>2 DEF Frame
    <3>2. z \in Frame /\ z.trigger = frame.trigger
      <4> HIDE DEF y
      <4> QED BY <3>1 DEF Frame
    <3>3. stack' = Top(f, y) \/ stack' = Top(f, z)
      BY <2>3
    <3> HIDE DEF y, z
    <3> QED BY <1>8, <2>1, <3>1, <3>2, <3>3
  <2>4. CASE stack' = Top(f, [frame EXCEPT !.at = "run"])
    <3> DEFINE x == [frame EXCEPT !.at = "run"]
    <3>1. x \in Frame /\ x.trigger = frame.trigger
      BY <2>2 DEF Frame
    <3>2. stack' = Top(f, x)
      BY <2>4
    <3> HIDE DEF x
    <3> QED BY <1>8, <2>1, <3>1, <3>2
  <2> QED BY <1>11, <2>3, <2>4 DEF MatchTrigger
<1>12. ASSUME NEW f \in Firers, ActionFails(f) PROVE TriggersInv'
  BY <1>9, <1>12 DEF ActionFails, At, lockVars
<1>13. ASSUME NEW f \in Firers, CallListeners(f) PROVE TriggersInv'
  BY <1>9, <1>13 DEF CallListeners, At, lockVars
<1> QED
  BY <1>3, <1>4, <1>5, <1>6, <1>7, <1>10, <1>11, <1>12, <1>13, ExecuteTriggerKept, ActionsDoneKept
  DEF TriggersNext, FirerStep

(* Triggers: what is to execute once does.                                 *)
THEOREM OnceIsOnce == RunnersSpec => []OnceExact
<1> DEFINE I == part = "triggers" => TriggersInv
<1>1. RunnersInit => I
  BY TriggersInitial DEF RunnersInit
<1>2. I /\ [RunnersNext]_allVars => I'
  <2> SUFFICES ASSUME I, [RunnersNext]_allVars PROVE I'
    OBVIOUS
  <2>1. CASE RunnersNext
    BY <2>1, PartStep, TriggersKept
  <2>2. CASE UNCHANGED allVars
    <3>1. part' = part /\ UNCHANGED <<kind, registered, executed, stack, runs, overlapping>>
      BY <2>2 DEF allVars, triggerVars
    <3>2. TriggersInv => TriggersInv'
      <4> SUFFICES ASSUME TriggersInv PROVE TriggersInv'
        OBVIOUS
      <4>1. \A f \in Firers : \A t \in TriggerIDs : Keeps(stack[f], stack'[f], t)
        BY <3>1 DEF Keeps, Holds
      <4> QED BY <3>1, <4>1, NothingExecuted DEF TriggersInv, TriggersTypeOK
    <3> QED BY <3>1, <3>2
  <2> QED BY <2>1, <2>2
<1>3. I => OnceExact
  <2> SUFFICES ASSUME TriggersInv PROVE OnceUnlessOverlapping
    BY DEF OnceExact
  <2>1. ASSUME NEW t \in TriggerIDs, runs[t] > 1 PROVE t \in overlapping
    BY <2>1 DEF TriggersInv, TriggersTypeOK, Once
  <2> QED BY <2>1 DEF OnceUnlessOverlapping
<1> QED BY <1>1, <1>2, <1>3, PTL DEF RunnersSpec

--------------------------------------------------------------------------------
(* EventWorkflow: every task is in one place.  How often a task is in a    *)
(* sequence, in what the workers have and in what the senders have.        *)
Is(x, t)         == IF x = t THEN 1 ELSE 0
CountIn(s, t)    == Cardinality({i \in DOMAIN s : s[i] = t})
CountAt(f, t)    == Cardinality({w \in Workers : f[w] = t})
HandSpots(h, t)  == {p \in Senders \X (1 .. MaxTasks) :
                       p[2] <= Len(h[p[1]]) /\ h[p[1]][p[2]] = t}
CountHeld(h, t)  == Cardinality(HandSpots(h, t))

(* The count is a number, 0 if the task is not in the sequence, ...        *)
LEMMA CountIs ==
  ASSUME NEW S, NEW s \in Seq(S), NEW t
  PROVE  /\ IsFiniteSet({i \in DOMAIN s : s[i] = t}) /\ CountIn(s, t) \in Nat
         /\ CountIn(s, t) = 0 <=> t \notin ToSet(s)
<1> DEFINE D == {i \in DOMAIN s : s[i] = t}
<1>1. Len(s) \in Nat /\ DOMAIN s = 1 .. Len(s)
  BY LenProperties
<1>2. IsFiniteSet(D)
  BY <1>1, CountedFromOne, FS_Subset, D \in SUBSET (1 .. Len(s)), Zenon
<1>3. Cardinality(D) \in Nat
  BY <1>2, FS_CardinalityType
<1>4. Cardinality(D) = 0 <=> D = {}
  BY <1>2, FS_EmptySet
<1>5. D = {} <=> t \notin ToSet(s)
  BY <1>1 DEF ToSet
<1> QED BY <1>2, <1>3, <1>4, <1>5 DEF CountIn

(* ... one more with a task that is appended, ...                          *)
LEMMA CountAppended ==
  ASSUME NEW S, NEW s \in Seq(S), NEW x \in S, NEW t
  PROVE  CountIn(Append(s, x), t) = CountIn(s, t) + Is(x, t)
<1> DEFINE r == Append(s, x)
           D == {i \in DOMAIN s : s[i] = t}
           R == {i \in DOMAIN r : r[i] = t}
           n == Len(s)
<1>1. /\ r \in Seq(S) /\ Len(r) = n + 1 /\ r[n + 1] = x
      /\ \A i \in 1 .. n : r[i] = s[i]
  BY AppendProperties
<1>2. n \in Nat /\ DOMAIN s = 1 .. n /\ DOMAIN r = 1 .. n + 1
  BY <1>1, LenProperties
<1>3. IsFiniteSet(D) /\ Cardinality(D) \in Nat
  BY CountIs DEF CountIn
<1> HIDE DEF r, n
<1>4. CASE x = t
  <2>1. R = D \cup {n + 1} /\ n + 1 \notin D
    BY <1>1, <1>2, <1>4
  <2> HIDE DEF D, R
  <2>2. Cardinality(R) = Cardinality(D) + 1
    BY <1>3, <2>1, FS_AddElement
  <2> QED BY <1>4, <2>2 DEF CountIn, Is, D, R, r
<1>5. CASE x # t
  <2>1. R = D
    BY <1>1, <1>2, <1>5
  <2>2. CountIn(s, t) = Cardinality(D) /\ CountIn(r, t) = Cardinality(R)
    BY DEF CountIn
  <2> HIDE DEF D, R
  <2> QED BY <1>3, <1>5, <2>1, <2>2 DEF Is, r
<1> QED BY <1>4, <1>5

(* ... and one less without the first.                                     *)
LEMMA CountTail ==
  ASSUME NEW S, NEW s \in Seq(S), s # <<>>, NEW t
  PROVE  /\ Tail(s) \in Seq(S) /\ Head(s) \in S /\ Len(Tail(s)) = Len(s) - 1
         /\ CountIn(s, t) = Is(Head(s), t) + CountIn(Tail(s), t)
<1> DEFINE r == Tail(s)
           D == {i \in DOMAIN s : s[i] = t}
           R == {i \in DOMAIN r : r[i] = t}
           n == Len(s)
           next == [i \in R |-> i + 1]
           V == {next[i] : i \in R}
<1>1. /\ r \in Seq(S) /\ Len(r) = n - 1 /\ \A i \in 1 .. Len(r) : r[i] = s[i + 1]
      /\ Head(s) \in S
  BY HeadTailProperties
<1>2. n \in Nat \ {0} /\ DOMAIN s = 1 .. n /\ DOMAIN r = 1 .. n - 1 /\ Head(s) = s[1]
  BY <1>1, LenProperties, EmptySeq
<1> HIDE DEF r, n
<1>3. IsFiniteSet(D) /\ IsFiniteSet(R) /\ Cardinality(R) \in Nat
  BY <1>1, CountIs DEF CountIn
<1>4. \A i \in R : i \in Int /\ next[i] = i + 1
  BY <1>2
<1>5. D \ {1} = V
  <2>1. ASSUME NEW j \in D, j # 1 PROVE j \in V
    <3>1. j - 1 \in 1 .. n - 1 /\ (j - 1) + 1 = j
      BY <1>2, <2>1
    <3>2. j - 1 \in R
      <4>1. s[j] = t /\ j - 1 \in 1 .. Len(r)
        BY <1>1, <2>1, <3>1
      <4>2. r[j - 1] = s[j]
        BY <1>1, <3>1, <4>1
      <4> QED BY <1>2, <3>1, <4>1, <4>2
    <3>3. next[j - 1] = j
      BY <3>1, <3>2
    <3> QED BY <3>2, <3>3
  <2>2. ASSUME NEW i \in R PROVE next[i] \in D /\ next[i] # 1
    BY <1>1, <1>2
  <2> QED BY <2>1, <2>2
<1>6. 1 \in D <=> Head(s) = t
  BY <1>2
<1> HIDE DEF D, R, next, V
<1>7. IsFiniteSet(V) /\ Cardinality(V) = Cardinality(R)
  <2>1. \A x, y \in R : next[x] = next[y] => x = y
    BY <1>4
  <2> QED BY <1>3, <2>1, ImageSize, Zenon DEF V
<1>8. Cardinality(D) \in Nat
  BY <1>3, FS_CardinalityType
<1>9. Cardinality(D \ {1}) = IF 1 \in D THEN Cardinality(D) - 1 ELSE Cardinality(D)
  BY <1>3, FS_RemoveElement
<1>11. CountIn(s, t) = Cardinality(D) /\ CountIn(r, t) = Cardinality(R)
  BY DEF CountIn, D, R
<1>12. CountIn(s, t) = Is(Head(s), t) + CountIn(r, t)
  <2>1. Cardinality(D \ {1}) = Cardinality(R) /\ CountIn(r, t) = Cardinality(R)
    BY <1>5, <1>7, <1>11
  <2> QED BY <1>6, <1>8, <1>9, <1>11, <2>1 DEF Is
<1>10. CountIn(s, t) = Is(Head(s), t) + CountIn(Tail(s), t)
  BY <1>12 DEF r
<1> QED BY <1>1, <1>10 DEF r, n

(* One worker has something else.                                          *)
WorkerDiffers(f, g, w) == \A v \in Workers : v # w => g[v] = f[v]

(* Worker w changes what it does, and the counts of workers with it.       *)
LEMMA CountReplaced ==
  ASSUME IsFiniteSet(Workers), NEW f, NEW g, NEW w \in Workers, WorkerDiffers(f, g, w), NEW t
  PROVE  /\ CountAt(f, t) \in Nat /\ CountAt(g, t) \in Nat
         /\ CountAt(g, t) + Is(f[w], t) = CountAt(f, t) + Is(g[w], t)
<1> DEFINE F == {v \in Workers : f[v] = t}
           G == {v \in Workers : g[v] = t}
<1>1. F \ {w} = G \ {w} /\ (w \in F <=> f[w] = t) /\ (w \in G <=> g[w] = t)
  BY DEF WorkerDiffers
<1>2. F \in SUBSET Workers /\ G \in SUBSET Workers
  OBVIOUS
<1> HIDE DEF F, G
<1>3. IsFiniteSet(F) /\ IsFiniteSet(G)
  BY <1>2, FS_Subset
<1>4. Cardinality(F) \in Nat /\ Cardinality(G) \in Nat /\ Cardinality(F \ {w}) \in Nat
  BY <1>3, FS_CardinalityType, FS_RemoveElement, Zenon
<1>5. /\ Cardinality(F \ {w}) = IF w \in F THEN Cardinality(F) - 1 ELSE Cardinality(F)
      /\ Cardinality(G \ {w}) = IF w \in G THEN Cardinality(G) - 1 ELSE Cardinality(G)
  BY <1>3, FS_RemoveElement
<1>6. CountAt(f, t) = Cardinality(F) /\ CountAt(g, t) = Cardinality(G)
  BY DEF CountAt, F, G
<1>8. Cardinality(F \ {w}) = Cardinality(G \ {w})
  BY <1>1
<1>9. (w \in F <=> f[w] = t) /\ (w \in G <=> g[w] = t)
  BY <1>1
<1>7. /\ CountAt(f, t) \in Nat /\ CountAt(g, t) \in Nat
      /\ CountAt(g, t) + Is(f[w], t) = CountAt(f, t) + Is(g[w], t)
  BY <1>4, <1>5, <1>6, <1>8, <1>9 DEF Is
<1> QED BY <1>7

(* What the senders other than s have.                                     *)
OtherSpots(h, s, t) == {p \in HandSpots(h, t) : p[1] # s}

(* What the senders have is what one of them has and what the others have. *)
LEMMA HandsSplit ==
  ASSUME EventWorkflowAssumption, NEW h \in [Senders -> Seq(Tasks)],
         \A s \in Senders : Len(h[s]) <= MaxTasks, NEW s \in Senders, NEW t
  PROVE  /\ CountHeld(h, t) \in Nat /\ CountIn(h[s], t) \in Nat
         /\ Cardinality(OtherSpots(h, s, t)) \in Nat
         /\ CountHeld(h, t) = CountIn(h[s], t) + Cardinality(OtherSpots(h, s, t))
<1> DEFINE D == {i \in DOMAIN h[s] : h[s][i] = t}
           spot == [i \in D |-> <<s, i>>]
           V == {spot[i] : i \in D}
           A == HandSpots(h, t)
           O == OtherSpots(h, s, t)
<1>1. h[s] \in Seq(Tasks) /\ Len(h[s]) \in Nat /\ DOMAIN h[s] = 1 .. Len(h[s])
  BY LenProperties
<1>2. IsFiniteSet(D) /\ CountIn(h[s], t) \in Nat /\ CountIn(h[s], t) = Cardinality(D)
  <2>3. \A q \in Seq(Tasks) : /\ IsFiniteSet({i \in DOMAIN q : q[i] = t})
                               /\ CountIn(q, t) \in Nat
    BY CountIs
  <2>1. IsFiniteSet({i \in DOMAIN h[s] : h[s][i] = t}) /\ CountIn(h[s], t) \in Nat
    BY <1>1, <2>3, Zenon
  <2>2. CountIn(h[s], t) = Cardinality(D)
    BY DEF CountIn
  <2> QED BY <2>1, <2>2
<1>3. IsFiniteSet(Senders) /\ IsFiniteSet(1 .. MaxTasks)
  BY EventWorkflowAssumption, FS_AddElement, CountedFromOne DEF EventWorkflowAssumption, Senders
<1>4. IsFiniteSet(Senders \X (1 .. MaxTasks))
  BY <1>3, FS_Product
<1>5. A \in SUBSET (Senders \X (1 .. MaxTasks)) /\ O \in SUBSET A
  BY DEF HandSpots, OtherSpots
<1>6. IsFiniteSet(A) /\ IsFiniteSet(O)
  BY <1>4, <1>5, FS_Subset, Zenon
<1>7. V \cap O = {}
  <2>1. \A i \in D : spot[i][1] = s
    OBVIOUS
  <2>2. \A p \in O : p[1] # s
    BY DEF OtherSpots
  <2> QED BY <2>1, <2>2
<1>8. A = V \cup O
  <2>1. ASSUME NEW i \in D PROVE spot[i] \in A
    <3>1. i \in 1 .. MaxTasks /\ i <= Len(h[s]) /\ h[s][i] = t
      BY <1>1, EventWorkflowAssumption DEF EventWorkflowAssumption
    <3> QED BY <3>1 DEF HandSpots
  <2>2. ASSUME NEW p \in A, p \notin O PROVE p \in V
    <3>1. p[1] = s /\ p[2] \in 1 .. MaxTasks /\ p[2] <= Len(h[s]) /\ h[s][p[2]] = t
          /\ p = <<p[1], p[2]>>
      BY <2>2 DEF HandSpots, OtherSpots
    <3>2. p[2] \in D
      BY <1>1, <3>1
    <3> QED BY <3>1, <3>2
  <2> QED BY <1>5, <2>1, <2>2
<1>9. \A x, y \in D : spot[x] = spot[y] => x = y
  OBVIOUS
<1> HIDE DEF D, spot, V, A, O
<1>10. IsFiniteSet(V) /\ Cardinality(V) = Cardinality(D)
  BY <1>2, <1>9, ImageSize, Zenon DEF V
<1>11. /\ Cardinality(O) \in Nat
       /\ Cardinality(A) = Cardinality(V) + Cardinality(O)
  BY <1>6, <1>7, <1>8, <1>10, DisjointSize
<1> QED BY <1>2, <1>10, <1>11 DEF CountHeld, A, O

(* One sender has something else.                                          *)
HandsDiffer(h, g, s) ==
  /\ g \in [Senders -> Seq(Tasks)] /\ \A r \in Senders : Len(g[r]) <= MaxTasks
  /\ \A r \in Senders : r # s => g[r] = h[r]

(* So only what that one has is counted anew.                              *)
LEMMA HandReplaced ==
  ASSUME EventWorkflowAssumption, NEW h \in [Senders -> Seq(Tasks)],
         \A s \in Senders : Len(h[s]) <= MaxTasks, NEW s \in Senders,
         NEW g, HandsDiffer(h, g, s), NEW t
  PROVE  /\ CountHeld(g, t) \in Nat /\ CountHeld(h, t) \in Nat
         /\ CountIn(h[s], t) \in Nat /\ CountIn(g[s], t) \in Nat
         /\ CountHeld(g, t) + CountIn(h[s], t) = CountHeld(h, t) + CountIn(g[s], t)
<1>1. /\ g \in [Senders -> Seq(Tasks)] /\ \A r \in Senders : Len(g[r]) <= MaxTasks
      /\ \A r \in Senders : r # s => g[r] = h[r]
  BY DEF HandsDiffer
<1>2. OtherSpots(g, s, t) = OtherSpots(h, s, t)
  BY <1>1 DEF OtherSpots, HandSpots
<1>3. /\ CountHeld(g, t) \in Nat /\ CountIn(g[s], t) \in Nat
      /\ CountHeld(g, t) = CountIn(g[s], t) + Cardinality(OtherSpots(g, s, t))
  BY <1>1, HandsSplit
<1>4. /\ CountHeld(h, t) \in Nat /\ CountIn(h[s], t) \in Nat
      /\ Cardinality(OtherSpots(h, s, t)) \in Nat
      /\ CountHeld(h, t) = CountIn(h[s], t) + Cardinality(OtherSpots(h, s, t))
  BY HandsSplit
<1> QED BY <1>2, <1>3, <1>4

(* How often a task is in all of them.                                     *)
CopiesOf(h, c, q, l, f, t) ==
  CountHeld(h, t) + CountIn(c, t) + CountIn(q, t) + Is(l, t) + CountAt(f, t)

WorkflowTypeOK ==
  /\ returns \in BOOLEAN /\ cancelled \in BOOLEAN /\ sent \in 0 .. MaxTasks
  /\ hand \in [Senders -> Seq(Tasks)] /\ \A s \in Senders : Len(hand[s]) <= MaxTasks
  /\ taskChan \in Seq(Tasks) /\ taskQueue \in Seq(Tasks)
  /\ loopTask \in Tasks \cup {NoTask} /\ workerTask \in [Workers -> Tasks \cup {NoTask}]
  /\ workerPc \in [Workers -> {"new", "select", "process", "return", "exited"}]
  /\ DOMAIN gone \subseteq 1 .. sent

(* Who is not at work on a task has none, so that none is overwritten.     *)
HoldWhatTheyHandle ==
  /\ hand[Puller] # <<>> => pullPc = "send"
  /\ loopPc = "assign" <=> loopTask # NoTask
  /\ \A w \in Workers : workerPc[w] \in {"process", "return"} <=> workerTask[w] # NoTask
  /\ loopPc = "new" => pullPc = "new" /\ \A w \in Workers : workerPc[w] = "new"

WorkflowInv == WorkflowTypeOK /\ HoldWhatTheyHandle /\ TaskInOnePlace

(* That is what Copies says, before and after a step.                      *)
LEMMA CopiesAre ==
  /\ \A t : Copies(t) = CopiesOf(hand, taskChan, taskQueue, loopTask, workerTask, t)
  /\ \A t : Copies(t)' = CopiesOf(hand', taskChan', taskQueue', loopTask', workerTask', t)
BY DEF Copies, CopiesOf, CountHeld, CountIn, Is, CountAt, HandSpots

(* Nothing is in an empty sequence.                                        *)
LEMMA NothingCounted == \A t : CountIn(<<>>, t) = 0
<1> SUFFICES ASSUME NEW t, NEW e, e = <<>> PROVE CountIn(e, t) = 0
  OBVIOUS
<1>1. e \in Seq({}) /\ Len(e) = 0
  BY EmptySeq
<1>2. DOMAIN e = 1 .. 0
  BY <1>1, LenProperties
<1>3. {i \in DOMAIN e : e[i] = t} = {}
  BY <1>2
<1> QED BY <1>3, FS_EmptySet DEF CountIn

(* No task was sent.                                                       *)
LEMMA WorkflowInitial == WorkflowInit => WorkflowInv
<1> SUFFICES ASSUME WorkflowInit PROVE WorkflowInv
  OBVIOUS
<1>1. WorkflowTypeOK
  <2>1. <<>> \in Seq(Tasks) /\ Len(<<>>) = 0 /\ 0 <= MaxTasks
    BY EventWorkflowAssumption, EmptySeq DEF EventWorkflowAssumption
  <2>2. hand \in [Senders -> Seq(Tasks)] /\ \A s \in Senders : Len(hand[s]) <= MaxTasks
    BY <2>1 DEF WorkflowInit
  <2>3. DOMAIN gone = {} /\ sent \in 0 .. MaxTasks
    BY EventWorkflowAssumption DEF WorkflowInit, EventWorkflowAssumption
  <2> QED BY <2>1, <2>2, <2>3 DEF WorkflowInit, WorkflowTypeOK
<1>2. HoldWhatTheyHandle
  BY DEF WorkflowInit, HoldWhatTheyHandle, Senders
<1>3. ASSUME NEW t \in Tasks PROVE Copies(t) = 0
  <2>1. t # NoTask
    BY <1>3, EventWorkflowAssumption DEF Tasks, NoTask, EventWorkflowAssumption
  <2>2. HandSpots(hand, t) = {}
    BY <1>3, EventWorkflowAssumption
    DEF HandSpots, WorkflowInit, EventWorkflowAssumption
  <2>3. {w \in Workers : workerTask[w] = t} = {}
    BY <2>1 DEF WorkflowInit
  <2>4. CountHeld(hand, t) = 0 /\ CountAt(workerTask, t) = 0
    BY <2>2, <2>3, FS_EmptySet DEF CountHeld, CountAt
  <2>5. CountIn(taskChan, t) = 0 /\ CountIn(taskQueue, t) = 0
    BY NothingCounted DEF WorkflowInit
  <2>6. Is(loopTask, t) = 0
    BY <2>1 DEF Is, WorkflowInit
  <2> QED BY <2>4, <2>5, <2>6, CopiesAre DEF CopiesOf
<1>4. TaskInOnePlace
  BY <1>3, EventWorkflowAssumption
  DEF TaskInOnePlace, WorkflowInit, Tasks, EventWorkflowAssumption
<1> QED BY <1>1, <1>2, <1>4 DEF WorkflowInv

(* A task that moves stays in one place.                                   *)
LEMMA TasksMove ==
  ASSUME TaskInOnePlace, \A t \in Tasks : Copies(t)' = Copies(t),
         sent' = sent, gone' = gone, cancelled => cancelled'
  PROVE  TaskInOnePlace'
BY DEF TaskInOnePlace

(* New tasks are passed to one sender.                                     *)
LEMMA TasksEnter ==
  ASSUME TaskInOnePlace, NEW n \in Nat, sent \in Nat, DOMAIN gone \subseteq 1 .. sent,
         \A t \in Tasks : Copies(t)' = Copies(t) + IF t \in sent + 1 .. sent + n THEN 1 ELSE 0,
         sent' = sent + n, gone' = gone, cancelled' = cancelled,
         MaxTasks \in Nat
  PROVE  TaskInOnePlace'
<1>1. ASSUME NEW t \in Tasks
      PROVE  Copies(t)' = IF t > sent' \/ t \in DOMAIN gone' THEN 0 ELSE 1
  <2>1. t \in Nat \ {0}
    BY DEF Tasks
  <2>2. CASE t \in sent + 1 .. sent + n
    BY <2>1, <2>2 DEF TaskInOnePlace
  <2>3. CASE t <= sent
    BY <2>1, <2>3 DEF TaskInOnePlace
  <2>4. CASE t > sent + n
    BY <2>1, <2>4 DEF TaskInOnePlace
  <2> QED BY <2>1, <2>2, <2>3, <2>4
<1> QED BY <1>1 DEF TaskInOnePlace

(* Tasks leave who held them.                                              *)
LEMMA TasksLeave ==
  ASSUME TaskInOnePlace, NEW ts \in SUBSET Tasks, NEW how, Leave(ts, how),
         \A t \in ts : Copies(t)' \in Nat /\ Copies(t)' < Copies(t),
         \A t \in Tasks \ ts : Copies(t)' = Copies(t),
         sent' = sent, cancelled' = cancelled, how = "dropped" => cancelled,
         sent \in Nat, DOMAIN gone \subseteq 1 .. sent, MaxTasks \in Nat
  PROVE  TaskInOnePlace' /\ DOMAIN gone' \subseteq 1 .. sent'
<1>1. /\ DOMAIN gone' = DOMAIN gone \cup ts
      /\ \A t \in DOMAIN gone' : gone'[t] = IF t \in ts THEN how ELSE gone[t]
  BY DEF Leave
<1>2. ASSUME NEW t \in ts PROVE t \in 1 .. sent /\ Copies(t)' = 0
  BY DEF TaskInOnePlace, Tasks
<1>3. ASSUME NEW t \in Tasks
      PROVE  Copies(t)' = IF t > sent' \/ t \in DOMAIN gone' THEN 0 ELSE 1
  BY <1>1, <1>2 DEF TaskInOnePlace
<1>4. (\E t \in DOMAIN gone' : gone'[t] = "dropped") => cancelled'
  BY <1>1 DEF TaskInOnePlace
<1> QED BY <1>1, <1>2, <1>3, <1>4 DEF TaskInOnePlace

(* All counts are numbers.                                                 *)
LEMMA CountsAreNat ==
  ASSUME WorkflowTypeOK, NEW t
  PROVE  /\ CountHeld(hand, t) \in Nat /\ CountIn(taskChan, t) \in Nat
         /\ CountIn(taskQueue, t) \in Nat /\ CountAt(workerTask, t) \in Nat
         /\ Is(loopTask, t) \in Nat
<1>1. Puller \in Senders
  BY DEF Senders
<1>2. CountHeld(hand, t) \in Nat
  BY <1>1, EventWorkflowAssumption, HandsSplit DEF WorkflowTypeOK
<1>3. CountIn(taskChan, t) \in Nat /\ CountIn(taskQueue, t) \in Nat
  BY CountIs DEF WorkflowTypeOK
<1>4. CountAt(workerTask, t) \in Nat
  <2> DEFINE F == {w \in Workers : workerTask[w] = t}
  <2>1. F \in SUBSET Workers /\ IsFiniteSet(Workers)
    BY EventWorkflowAssumption DEF EventWorkflowAssumption
  <2>2. CountAt(workerTask, t) = Cardinality(F)
    BY DEF CountAt
  <2> HIDE DEF F
  <2> QED BY <2>1, <2>2, FS_Subset, FS_CardinalityType
<1> QED BY <1>2, <1>3, <1>4 DEF Is

(* A sender gets new tasks, with n more of them.                           *)
LEMMA GivenToSender ==
  ASSUME WorkflowInv, NEW s \in Senders, hand[s] = <<>>, NEW n \in {1, 2}, Took(n),
         hand' = [hand EXCEPT ![s] = NextTasks(n)],
         taskChan' = taskChan, taskQueue' = taskQueue, loopTask' = loopTask,
         workerTask' = workerTask, gone' = gone, cancelled' = cancelled
  PROVE  /\ sent' \in 0 .. MaxTasks /\ DOMAIN gone' \subseteq 1 .. sent'
         /\ hand' \in [Senders -> Seq(Tasks)] /\ \A r \in Senders : Len(hand'[r]) <= MaxTasks
         /\ \A r \in Senders : r # s => hand'[r] = hand[r]
         /\ TaskInOnePlace'
<1> DEFINE q == NextTasks(n)
<1>1. /\ sent \in Nat /\ sent' = sent + n /\ sent + n <= MaxTasks /\ MaxTasks \in Nat
      /\ n \in Nat /\ DOMAIN gone \subseteq 1 .. sent
  BY EventWorkflowAssumption DEF Took, WorkflowInv, WorkflowTypeOK, EventWorkflowAssumption
<1>2. q \in [1 .. n -> Tasks] /\ \A i \in 1 .. n : q[i] = sent + i
  BY <1>1 DEF NextTasks, Tasks
<1>3. q \in Seq(Tasks) /\ Len(q) = n
  <2>1. q = [i \in 1 .. n |-> q[i]] /\ \A i \in 1 .. n : q[i] \in Tasks
    BY <1>2
  <2> HIDE DEF q
  <2> QED BY <1>1, <2>1, IsASeq
<1> HIDE DEF q
<1>4. Len(q) <= MaxTasks
  BY <1>1, <1>3
<1>5. ASSUME NEW t \in Tasks
      PROVE  CountIn(q, t) = IF t \in sent + 1 .. sent + n THEN 1 ELSE 0
  <2> DEFINE D == {i \in DOMAIN q : q[i] = t}
  <2>1. DOMAIN q = 1 .. n /\ CountIn(q, t) = Cardinality(D) /\ t \in Nat
    BY <1>2 DEF CountIn, Tasks
  <2>2. CASE t \in sent + 1 .. sent + n
    <3>1. t - sent \in 1 .. n /\ sent + (t - sent) = t
      BY <1>1, <2>1, <2>2
    <3>2. D = {t - sent}
      BY <1>1, <1>2, <2>1, <3>1
    <3> QED BY <2>1, <2>2, <3>2, FS_Singleton
  <2>3. CASE t \notin sent + 1 .. sent + n
    <3>1. D = {}
      BY <1>1, <1>2, <2>1, <2>3
    <3> QED BY <2>1, <2>3, <3>1, FS_EmptySet
  <2> QED BY <2>2, <2>3
<1>6. /\ hand \in [Senders -> Seq(Tasks)] /\ \A r \in Senders : Len(hand[r]) <= MaxTasks
      /\ hand' = [hand EXCEPT ![s] = q]
  BY DEF WorkflowInv, WorkflowTypeOK, q
<1>10. HandsDiffer(hand, hand', s) /\ hand'[s] = q
  BY <1>3, <1>4, <1>6 DEF HandsDiffer
<1>7. ASSUME NEW t
      PROVE  /\ CountHeld(hand', t) \in Nat /\ CountHeld(hand, t) \in Nat
             /\ CountHeld(hand', t) + CountIn(hand[s], t) = CountHeld(hand, t) + CountIn(q, t)
  <2>1. /\ CountHeld(hand', t) \in Nat /\ CountHeld(hand, t) \in Nat
        /\ CountHeld(hand', t) + CountIn(hand[s], t) = CountHeld(hand, t) + CountIn(hand'[s], t)
    <3>1. \A g : HandsDiffer(hand, g, s) =>
                   /\ CountHeld(g, t) \in Nat /\ CountHeld(hand, t) \in Nat
                   /\ CountHeld(g, t) + CountIn(hand[s], t) = CountHeld(hand, t) + CountIn(g[s], t)
      BY <1>6, EventWorkflowAssumption, HandReplaced
    <3> QED BY <1>10, <3>1
  <2> QED BY <1>10, <2>1
<1>8. ASSUME NEW t \in Tasks
      PROVE  Copies(t)' = Copies(t) + IF t \in sent + 1 .. sent + n THEN 1 ELSE 0
  <2>1. CountHeld(hand', t) = CountHeld(hand, t) + CountIn(q, t) /\ CountIn(q, t) \in Nat
    <3>1. CountIn(hand[s], t) = 0
      BY NothingCounted
    <3>2. CountIn(q, t) \in Nat
      BY <1>5
    <3>3. /\ CountHeld(hand', t) \in Nat /\ CountHeld(hand, t) \in Nat
          /\ CountHeld(hand', t) + CountIn(hand[s], t) = CountHeld(hand, t) + CountIn(q, t)
      BY <1>7
    <3> QED BY <3>1, <3>2, <3>3
  <2>2. /\ Copies(t) = CopiesOf(hand, taskChan, taskQueue, loopTask, workerTask, t)
        /\ Copies(t)' = CopiesOf(hand', taskChan, taskQueue, loopTask, workerTask, t)
    BY CopiesAre
  <2>3. Copies(t)' = Copies(t) + CountIn(q, t)
    BY <1>7, <2>1, <2>2, CountsAreNat DEF CopiesOf, WorkflowInv
  <2> QED BY <1>5, <2>3
<1>9. TaskInOnePlace'
  BY <1>1, <1>8, TasksEnter DEF WorkflowInv
<1> QED BY <1>1, <1>9, <1>10 DEF HandsDiffer

(* A sender has what it held no more.                                      *)
LEMMA SenderLosesAll ==
  ASSUME WorkflowInv, NEW s \in Senders, hand' = [hand EXCEPT ![s] = <<>>], NEW how,
         Leave(ToSet(hand[s]), how), how = "dropped" => cancelled, sent' = sent,
         taskChan' = taskChan, taskQueue' = taskQueue, loopTask' = loopTask,
         workerTask' = workerTask, cancelled' = cancelled
  PROVE  /\ DOMAIN gone' \subseteq 1 .. sent'
         /\ hand' \in [Senders -> Seq(Tasks)] /\ \A r \in Senders : Len(hand'[r]) <= MaxTasks
         /\ \A r \in Senders : r # s => hand'[r] = hand[r]
         /\ hand'[s] = <<>> /\ TaskInOnePlace'
<1>1. /\ sent \in Nat /\ MaxTasks \in Nat /\ DOMAIN gone \subseteq 1 .. sent
      /\ hand \in [Senders -> Seq(Tasks)] /\ \A r \in Senders : Len(hand[r]) <= MaxTasks
  BY EventWorkflowAssumption DEF WorkflowInv, WorkflowTypeOK, EventWorkflowAssumption
<1>2. <<>> \in Seq(Tasks) /\ Len(<<>>) <= MaxTasks /\ \A t : CountIn(<<>>, t) = 0
  BY <1>1, EmptySeq, NothingCounted
<1>8. HandsDiffer(hand, hand', s) /\ hand'[s] = <<>>
  BY <1>1, <1>2 DEF HandsDiffer
<1>3. ASSUME NEW t
      PROVE  /\ CountHeld(hand', t) \in Nat /\ CountHeld(hand, t) \in Nat
             /\ CountIn(hand[s], t) \in Nat
             /\ CountHeld(hand', t) + CountIn(hand[s], t) = CountHeld(hand, t)
  <2>1. CountIn(hand'[s], t) = 0
    BY <1>2, <1>8
  <2>2. /\ CountHeld(hand', t) \in Nat /\ CountHeld(hand, t) \in Nat
        /\ CountIn(hand[s], t) \in Nat
        /\ CountHeld(hand', t) + CountIn(hand[s], t) = CountHeld(hand, t) + CountIn(hand'[s], t)
    <3>1. \A g : HandsDiffer(hand, g, s) =>
                   /\ CountHeld(g, t) \in Nat /\ CountHeld(hand, t) \in Nat
                   /\ CountIn(hand[s], t) \in Nat
                   /\ CountHeld(g, t) + CountIn(hand[s], t) = CountHeld(hand, t) + CountIn(g[s], t)
      BY <1>1, EventWorkflowAssumption, HandReplaced
    <3> QED BY <1>8, <3>1
  <2> QED BY <2>1, <2>2
<1>4. ToSet(hand[s]) \in SUBSET Tasks
  BY <1>1 DEF ToSet
<1>5. ASSUME NEW t
      PROVE  /\ Copies(t)' \in Nat /\ Copies(t) = Copies(t)' + CountIn(hand[s], t)
             /\ (CountIn(hand[s], t) = 0 <=> t \notin ToSet(hand[s]))
  <2>1. /\ Copies(t) = CopiesOf(hand, taskChan, taskQueue, loopTask, workerTask, t)
        /\ Copies(t)' = CopiesOf(hand', taskChan, taskQueue, loopTask, workerTask, t)
    BY CopiesAre
  <2>2. CountIn(hand[s], t) = 0 <=> t \notin ToSet(hand[s])
    BY <1>1, CountIs
  <2>3. /\ CountIn(taskChan, t) \in Nat /\ CountIn(taskQueue, t) \in Nat
        /\ CountAt(workerTask, t) \in Nat /\ Is(loopTask, t) \in Nat
    BY CountsAreNat DEF WorkflowInv
  <2>4. Copies(t)' \in Nat /\ Copies(t) = Copies(t)' + CountIn(hand[s], t)
    <3>1. /\ CountHeld(hand', t) \in Nat /\ CountHeld(hand, t) \in Nat
          /\ CountIn(hand[s], t) \in Nat
          /\ CountHeld(hand', t) + CountIn(hand[s], t) = CountHeld(hand, t)
      BY <1>3
    <3>2. CopiesOf(hand, taskChan, taskQueue, loopTask, workerTask, t) =
            CountHeld(hand, t) + CountIn(taskChan, t) + CountIn(taskQueue, t)
            + Is(loopTask, t) + CountAt(workerTask, t)
      BY DEF CopiesOf
    <3>3. CopiesOf(hand', taskChan, taskQueue, loopTask, workerTask, t) =
            CountHeld(hand', t) + CountIn(taskChan, t) + CountIn(taskQueue, t)
            + Is(loopTask, t) + CountAt(workerTask, t)
      BY DEF CopiesOf
    <3>5. /\ CopiesOf(hand', taskChan, taskQueue, loopTask, workerTask, t) \in Nat
          /\ CopiesOf(hand, taskChan, taskQueue, loopTask, workerTask, t) =
               CopiesOf(hand', taskChan, taskQueue, loopTask, workerTask, t) + CountIn(hand[s], t)
      <4> DEFINE a == CountHeld(hand', t)
                 b == CountHeld(hand, t)
                 c == CountIn(taskChan, t)
                 d == CountIn(taskQueue, t)
                 e == Is(loopTask, t)
                 f == CountAt(workerTask, t)
                 g == CountIn(hand[s], t)
      <4>1. a \in Nat /\ b \in Nat /\ c \in Nat /\ d \in Nat /\ e \in Nat /\ f \in Nat /\ g \in Nat
            /\ a + g = b
        BY <2>3, <3>1
      <4>2. /\ CopiesOf(hand', taskChan, taskQueue, loopTask, workerTask, t) = a + c + d + e + f
            /\ CopiesOf(hand, taskChan, taskQueue, loopTask, workerTask, t) = b + c + d + e + f
        BY <3>2, <3>3
      <4> HIDE DEF a, b, c, d, e, f, g
      <4>3. a + c + d + e + f \in Nat /\ b + c + d + e + f = (a + c + d + e + f) + g
        BY <4>1
      <4> QED BY <4>2, <4>3 DEF g
    <3> QED BY <2>1, <3>5
  <2> QED BY <2>2, <2>4
<1>6. /\ \A t \in ToSet(hand[s]) : Copies(t)' \in Nat /\ Copies(t)' < Copies(t)
      /\ \A t \in Tasks \ ToSet(hand[s]) : Copies(t)' = Copies(t)
  BY <1>3, <1>5
<1>7. TaskInOnePlace' /\ DOMAIN gone' \subseteq 1 .. sent'
  BY <1>1, <1>4, <1>6, TasksLeave DEF WorkflowInv
<1> QED BY <1>7, <1>8 DEF HandsDiffer

(* Steps that move no task.                                                *)
LEMMA TasksStay ==
  ASSUME TaskInOnePlace, sent' = sent, gone' = gone, cancelled => cancelled', hand' = hand,
         taskChan' = taskChan, taskQueue' = taskQueue, loopTask' = loopTask,
         workerTask' = workerTask
  PROVE  TaskInOnePlace'
<1>1. \A t : Copies(t)' = Copies(t)
  BY CopiesAre
<1> QED BY <1>1, TasksMove

(* The clients and the puller.                                             *)
LEMMA SendersKept ==
  ASSUME WorkflowInv,
         \/ \E s \in Submitters, n \in {1, 2} : WorkflowSubmit(s, n)
         \/ \E n \in {1, 2} : WorkflowPull(n)
         \/ \E s \in Senders : WorkflowSend(s) \/ SubmitGivesUp(s)
         \/ PullerExit
  PROVE  WorkflowInv'
<1>1. /\ Puller \in Senders /\ Puller \notin Submitters /\ Submitters \subseteq Senders
      /\ MaxTasks \in Nat
  BY EventWorkflowAssumption DEF EventWorkflowAssumption, Senders
<1>2. CASE \E s \in Submitters, n \in {1, 2} : WorkflowSubmit(s, n)
  <2> PICK s \in Submitters, n \in {1, 2} : WorkflowSubmit(s, n)
    BY <1>2
  <2>1. /\ sent' \in 0 .. MaxTasks /\ DOMAIN gone' \subseteq 1 .. sent'
        /\ hand' \in [Senders -> Seq(Tasks)] /\ \A r \in Senders : Len(hand'[r]) <= MaxTasks
        /\ \A r \in Senders : r # s => hand'[r] = hand[r]
        /\ TaskInOnePlace'
    BY <1>1, GivenToSender DEF WorkflowSubmit
  <2>2. WorkflowTypeOK'
    BY <2>1 DEF WorkflowSubmit, WorkflowInv, WorkflowTypeOK
  <2>3. HoldWhatTheyHandle'
    BY <1>1, <2>1 DEF WorkflowSubmit, WorkflowInv, HoldWhatTheyHandle
  <2> QED BY <2>1, <2>2, <2>3 DEF WorkflowInv
<1>3. CASE \E n \in {1, 2} : WorkflowPull(n)
  <2> PICK n \in {1, 2} : WorkflowPull(n)
    BY <1>3
  <2>1. hand[Puller] = <<>>
    BY DEF WorkflowPull, WorkflowInv, HoldWhatTheyHandle
  <2>2. /\ sent' \in 0 .. MaxTasks /\ DOMAIN gone' \subseteq 1 .. sent'
        /\ hand' \in [Senders -> Seq(Tasks)] /\ \A r \in Senders : Len(hand'[r]) <= MaxTasks
        /\ TaskInOnePlace'
    BY <1>1, <2>1, GivenToSender DEF WorkflowPull
  <2>3. WorkflowTypeOK'
    BY <2>2 DEF WorkflowPull, WorkflowInv, WorkflowTypeOK
  <2>4. HoldWhatTheyHandle'
    BY DEF WorkflowPull, WorkflowInv, HoldWhatTheyHandle
  <2> QED BY <2>2, <2>3, <2>4 DEF WorkflowInv
<1>4. ASSUME NEW s \in Senders, WorkflowSend(s) PROVE WorkflowInv'
  <2> DEFINE x == Head(hand[s])
             q == Tail(hand[s])
  <2>1. /\ hand[s] # <<>> /\ hand[s] \in Seq(Tasks) /\ Len(hand[s]) <= MaxTasks
        /\ hand \in [Senders -> Seq(Tasks)] /\ \A r \in Senders : Len(hand[r]) <= MaxTasks
        /\ taskChan \in Seq(Tasks)
    BY <1>4 DEF WorkflowSend, WorkflowInv, WorkflowTypeOK
  <2>2. /\ q \in Seq(Tasks) /\ x \in Tasks /\ Len(q) = Len(hand[s]) - 1
        /\ \A t : CountIn(hand[s], t) = Is(x, t) + CountIn(q, t)
    BY <2>1, CountTail
  <2>3. /\ Append(taskChan, x) \in Seq(Tasks)
        /\ \A t : CountIn(Append(taskChan, x), t) = CountIn(taskChan, t) + Is(x, t)
    BY <2>1, <2>2, CountAppended, AppendProperties
  <2>4. hand' = [hand EXCEPT ![s] = q] /\ taskChan' = Append(taskChan, x)
    BY <1>4 DEF WorkflowSend
  <2>5. Len(hand[s]) \in Nat /\ Len(q) \in Nat /\ (Len(q) = 0 <=> q = <<>>)
    BY <2>1, <2>2, LenProperties, EmptySeq
  <2> HIDE DEF x, q
  <2>6. HandsDiffer(hand, hand', s) /\ hand'[s] = q
    BY <1>1, <2>1, <2>2, <2>4, <2>5 DEF HandsDiffer
  <2>7. WorkflowTypeOK'
    <3>1. /\ hand' \in [Senders -> Seq(Tasks)] /\ \A r \in Senders : Len(hand'[r]) <= MaxTasks
      BY <2>6 DEF HandsDiffer
    <3>2. taskChan' \in Seq(Tasks)
      BY <2>3, <2>4
    <3> QED BY <1>4, <3>1, <3>2 DEF WorkflowSend, WorkflowInv, WorkflowTypeOK
  <2>8. HoldWhatTheyHandle'
    <3>1. hand'[Puller] # <<>> => pullPc' = "send"
      BY <1>1, <1>4, <2>1, <2>2, <2>5, <2>6
      DEF WorkflowSend, WorkflowInv, HoldWhatTheyHandle, HandsDiffer
    <3>2. loopPc = "new" => s # Puller
      BY <2>1 DEF WorkflowInv, HoldWhatTheyHandle
    <3> QED BY <1>4, <3>1, <3>2 DEF WorkflowSend, WorkflowInv, HoldWhatTheyHandle
  <2>9. ASSUME NEW t PROVE Copies(t)' = Copies(t)
    <3>1. \A g : HandsDiffer(hand, g, s) =>
                   /\ CountHeld(g, t) \in Nat /\ CountHeld(hand, t) \in Nat
                   /\ CountIn(hand[s], t) \in Nat /\ CountIn(g[s], t) \in Nat
                   /\ CountHeld(g, t) + CountIn(hand[s], t) = CountHeld(hand, t) + CountIn(g[s], t)
      BY <2>1, EventWorkflowAssumption, HandReplaced
    <3>2. /\ CountHeld(hand', t) \in Nat /\ CountHeld(hand, t) \in Nat /\ CountIn(q, t) \in Nat
          /\ CountHeld(hand', t) + CountIn(hand[s], t) = CountHeld(hand, t) + CountIn(q, t)
      BY <2>6, <3>1
    <3>3. /\ CountIn(hand[s], t) = Is(x, t) + CountIn(q, t)
          /\ CountIn(taskChan', t) = CountIn(taskChan, t) + Is(x, t)
      BY <2>2, <2>3, <2>4
    <3>4. /\ CountIn(taskChan, t) \in Nat /\ CountIn(taskQueue, t) \in Nat
          /\ CountAt(workerTask, t) \in Nat /\ Is(loopTask, t) \in Nat /\ Is(x, t) \in Nat
      BY CountsAreNat DEF WorkflowInv, Is
    <3>5. /\ Copies(t) = CopiesOf(hand, taskChan, taskQueue, loopTask, workerTask, t)
          /\ Copies(t)' = CopiesOf(hand', taskChan', taskQueue, loopTask, workerTask, t)
      BY <1>4, CopiesAre DEF WorkflowSend
    <3> QED BY <3>2, <3>3, <3>4, <3>5 DEF CopiesOf
  <2>10. TaskInOnePlace'
    BY <1>4, <2>9, TasksMove DEF WorkflowSend, WorkflowInv
  <2> QED BY <2>7, <2>8, <2>10 DEF WorkflowInv
<1>5. ASSUME NEW s \in Senders, SubmitGivesUp(s) PROVE WorkflowInv'
  <2>1. /\ DOMAIN gone' \subseteq 1 .. sent'
        /\ hand' \in [Senders -> Seq(Tasks)] /\ \A r \in Senders : Len(hand'[r]) <= MaxTasks
        /\ \A r \in Senders : r # s => hand'[r] = hand[r]
        /\ hand'[s] = <<>> /\ TaskInOnePlace'
    <3>1. /\ hand' = [hand EXCEPT ![s] = <<>>] /\ Leave(ToSet(hand[s]), "refused")
          /\ sent' = sent /\ taskChan' = taskChan /\ taskQueue' = taskQueue
          /\ loopTask' = loopTask /\ workerTask' = workerTask /\ cancelled' = cancelled
      BY <1>5 DEF SubmitGivesUp
    <3>2. "refused" = "dropped" => cancelled
      OBVIOUS
    <3> QED BY <3>1, <3>2, SenderLosesAll, Zenon
  <2>2. WorkflowTypeOK'
    BY <1>5, <2>1 DEF SubmitGivesUp, WorkflowInv, WorkflowTypeOK
  <2>3. HoldWhatTheyHandle'
    BY <1>1, <1>5, <2>1 DEF SubmitGivesUp, WorkflowInv, HoldWhatTheyHandle
  <2> QED BY <2>1, <2>2, <2>3 DEF WorkflowInv
<1>6. CASE PullerExit
  <2>1. /\ DOMAIN gone' \subseteq 1 .. sent'
        /\ hand' \in [Senders -> Seq(Tasks)] /\ \A r \in Senders : Len(hand'[r]) <= MaxTasks
        /\ hand'[Puller] = <<>> /\ TaskInOnePlace'
    <3>1. /\ hand' = [hand EXCEPT ![Puller] = <<>>] /\ Leave(ToSet(hand[Puller]), "dropped")
          /\ cancelled /\ sent' = sent /\ taskChan' = taskChan /\ taskQueue' = taskQueue
          /\ loopTask' = loopTask /\ workerTask' = workerTask /\ cancelled' = cancelled
      BY <1>6 DEF PullerExit
    <3> QED BY <1>1, <3>1, SenderLosesAll, Zenon
  <2>2. WorkflowTypeOK'
    BY <1>6, <2>1 DEF PullerExit, WorkflowInv, WorkflowTypeOK
  <2>3. HoldWhatTheyHandle'
    BY <1>6, <2>1 DEF PullerExit, WorkflowInv, HoldWhatTheyHandle
  <2> QED BY <2>1, <2>2, <2>3 DEF WorkflowInv
<1> QED BY <1>2, <1>3, <1>4, <1>5, <1>6

(* The loop, with Start and Stop.                                          *)
LEMMA LoopKept ==
  ASSUME WorkflowInv,
         WorkflowStart \/ EventLoop \/ WorkflowStop \/ StopWaited \/ StopTimesOut
  PROVE  WorkflowInv'
<1>1. /\ taskChan \in Seq(Tasks) /\ taskQueue \in Seq(Tasks)
      /\ sent \in Nat /\ MaxTasks \in Nat /\ DOMAIN gone \subseteq 1 .. sent
      /\ NoTask \notin Tasks
  BY EventWorkflowAssumption
  DEF WorkflowInv, WorkflowTypeOK, EventWorkflowAssumption, Tasks, NoTask
<1>2. ASSUME NEW t \in Tasks
      PROVE  /\ CountHeld(hand, t) \in Nat /\ CountIn(taskChan, t) \in Nat
             /\ CountIn(taskQueue, t) \in Nat /\ CountAt(workerTask, t) \in Nat
             /\ Is(loopTask, t) \in Nat /\ Is(NoTask, t) = 0
  BY <1>1, CountsAreNat DEF WorkflowInv, Is
<1>3. CASE WorkflowStart
  <2>1. WorkflowTypeOK'
    BY <1>3 DEF WorkflowStart, WorkflowInv, WorkflowTypeOK
  <2>2. HoldWhatTheyHandle'
    BY <1>3 DEF WorkflowStart, WorkflowInv, HoldWhatTheyHandle, WorkflowTypeOK
  <2>3. TaskInOnePlace'
    BY <1>3, TasksStay DEF WorkflowStart, WorkflowInv
  <2> QED BY <2>1, <2>2, <2>3 DEF WorkflowInv
<1>4. CASE LoopReceive
  <2> DEFINE x == Head(taskChan)
             q == Tail(taskChan)
  <2>1. /\ q \in Seq(Tasks) /\ x \in Tasks
        /\ \A t : CountIn(taskChan, t) = Is(x, t) + CountIn(q, t)
    BY <1>1, <1>4, CountTail DEF LoopReceive
  <2>2. taskChan' = q /\ loopTask' = x /\ loopTask = NoTask /\ loopPc = "select" /\ loopPc' = "assign"
    BY <1>4 DEF LoopReceive, WorkflowInv, HoldWhatTheyHandle
  <2> HIDE DEF x, q
  <2>3. WorkflowTypeOK'
    BY <1>4, <2>1, <2>2 DEF LoopReceive, WorkflowInv, WorkflowTypeOK
  <2>4. HoldWhatTheyHandle'
    BY <1>1, <1>4, <2>1, <2>2 DEF LoopReceive, WorkflowInv, HoldWhatTheyHandle
  <2>5. ASSUME NEW t \in Tasks PROVE Copies(t)' = Copies(t)
    <3>1. /\ CountIn(taskChan, t) = Is(x, t) + CountIn(q, t)
          /\ CountIn(q, t) \in Nat /\ Is(x, t) \in Nat
      BY <2>1, CountIs DEF Is
    <3>2. /\ Copies(t) = CopiesOf(hand, taskChan, taskQueue, NoTask, workerTask, t)
          /\ Copies(t)' = CopiesOf(hand, q, taskQueue, x, workerTask, t)
      BY <1>4, <2>2, CopiesAre DEF LoopReceive
    <3> QED BY <1>2, <3>1, <3>2 DEF CopiesOf
  <2>6. TaskInOnePlace'
    BY <1>4, <2>5, TasksMove DEF LoopReceive, WorkflowInv
  <2> QED BY <2>3, <2>4, <2>6 DEF WorkflowInv
<1>5. CASE LoopAssign
  <2>1. loopTask \in Tasks
    BY <1>5 DEF LoopAssign, WorkflowInv, HoldWhatTheyHandle, WorkflowTypeOK
  <2> DEFINE q == Append(taskQueue, loopTask)
  <2>2. /\ q \in Seq(Tasks)
        /\ \A t : CountIn(q, t) = CountIn(taskQueue, t) + Is(loopTask, t)
    BY <1>1, <2>1, CountAppended, AppendProperties
  <2>3. taskQueue' = q /\ loopTask' = NoTask /\ loopPc' = "select"
    BY <1>5 DEF LoopAssign
  <2> HIDE DEF q
  <2>4. WorkflowTypeOK'
    BY <1>5, <2>2, <2>3 DEF LoopAssign, WorkflowInv, WorkflowTypeOK
  <2>5. HoldWhatTheyHandle'
    BY <1>5, <2>3 DEF LoopAssign, WorkflowInv, HoldWhatTheyHandle
  <2>6. ASSUME NEW t \in Tasks PROVE Copies(t)' = Copies(t)
    <3>1. CountIn(q, t) = CountIn(taskQueue, t) + Is(loopTask, t)
      BY <2>2
    <3>2. /\ Copies(t) = CopiesOf(hand, taskChan, taskQueue, loopTask, workerTask, t)
          /\ Copies(t)' = CopiesOf(hand, taskChan, q, NoTask, workerTask, t)
      BY <1>5, <2>3, CopiesAre DEF LoopAssign
    <3> QED BY <1>2, <3>1, <3>2 DEF CopiesOf
  <2>7. TaskInOnePlace'
    BY <1>5, <2>6, TasksMove DEF LoopAssign, WorkflowInv
  <2> QED BY <2>4, <2>5, <2>7 DEF WorkflowInv
<1>6. CASE LoopAssignFails
  <2>1. /\ loopTask \in Tasks /\ cancelled /\ loopTask' = NoTask /\ loopPc' = "select"
        /\ Leave({loopTask}, "dropped") /\ sent' = sent /\ cancelled' = cancelled
    BY <1>6 DEF LoopAssignFails, WorkflowInv, HoldWhatTheyHandle, WorkflowTypeOK
  <2>2. ASSUME NEW t \in Tasks
        PROVE  /\ Copies(t)' \in Nat /\ Copies(t) = Copies(t)' + Is(loopTask, t)
    <3>1. /\ Copies(t) = CopiesOf(hand, taskChan, taskQueue, loopTask, workerTask, t)
          /\ Copies(t)' = CopiesOf(hand, taskChan, taskQueue, NoTask, workerTask, t)
      BY <1>6, <2>1, CopiesAre DEF LoopAssignFails
    <3> QED BY <1>2, <3>1 DEF CopiesOf
  <2>3. /\ \A t \in {loopTask} : Copies(t)' \in Nat /\ Copies(t)' < Copies(t)
        /\ \A t \in Tasks \ {loopTask} : Copies(t)' = Copies(t)
    <3>1. ASSUME NEW t \in Tasks, t = loopTask PROVE Copies(t)' \in Nat /\ Copies(t)' < Copies(t)
      BY <2>2, <3>1 DEF Is
    <3>2. ASSUME NEW t \in Tasks, t # loopTask PROVE Copies(t)' = Copies(t)
      BY <2>2, <3>2 DEF Is
    <3> QED BY <2>1, <3>1, <3>2
  <2>4. TaskInOnePlace' /\ DOMAIN gone' \subseteq 1 .. sent'
    <3>1. {loopTask} \in SUBSET Tasks /\ TaskInOnePlace
      BY <2>1 DEF WorkflowInv
    <3> QED BY <1>1, <2>1, <2>3, <3>1, TasksLeave
  <2>5. WorkflowTypeOK'
    BY <1>6, <2>1, <2>4 DEF LoopAssignFails, WorkflowInv, WorkflowTypeOK
  <2>6. HoldWhatTheyHandle'
    BY <1>6, <2>1 DEF LoopAssignFails, WorkflowInv, HoldWhatTheyHandle
  <2> QED BY <2>4, <2>5, <2>6 DEF WorkflowInv
<1>7. CASE LoopDone
  <2>1. WorkflowTypeOK'
    BY <1>7 DEF LoopDone, WorkflowInv, WorkflowTypeOK
  <2>2. HoldWhatTheyHandle'
    BY <1>7 DEF LoopDone, WorkflowInv, HoldWhatTheyHandle
  <2>3. TaskInOnePlace'
    BY <1>7, TasksStay DEF LoopDone, WorkflowInv
  <2> QED BY <2>1, <2>2, <2>3 DEF WorkflowInv
<1>8. CASE WorkflowStop \/ StopWaited \/ StopTimesOut
  <2>1. /\ (cancelled => cancelled') /\ cancelled' \in BOOLEAN
        /\ UNCHANGED <<returns, sent, hand, taskChan, pullPc, loopPc, loopTask, taskQueue,
                       workerPc, workerTask, gone>>
    BY <1>8 DEF WorkflowStop, StopWaited, StopTimesOut, WorkflowInv, WorkflowTypeOK
  <2>2. WorkflowTypeOK'
    BY <2>1 DEF WorkflowInv, WorkflowTypeOK
  <2>3. HoldWhatTheyHandle'
    BY <2>1 DEF WorkflowInv, HoldWhatTheyHandle
  <2>4. TaskInOnePlace'
    BY <2>1, TasksStay DEF WorkflowInv
  <2> QED BY <2>2, <2>3, <2>4 DEF WorkflowInv
<1> QED BY <1>3, <1>4, <1>5, <1>6, <1>7, <1>8 DEF EventLoop

(* The workers.                                                            *)
LEMMA WorkerStepKept ==
  ASSUME WorkflowInv, NEW w \in Workers, RunWorker(w)
  PROVE  WorkflowInv'
<1>1. /\ taskChan \in Seq(Tasks) /\ taskQueue \in Seq(Tasks)
      /\ sent \in Nat /\ MaxTasks \in Nat /\ DOMAIN gone \subseteq 1 .. sent
      /\ NoTask \notin Tasks /\ IsFiniteSet(Workers)
      /\ workerTask \in [Workers -> Tasks \cup {NoTask}]
  BY EventWorkflowAssumption
  DEF WorkflowInv, WorkflowTypeOK, EventWorkflowAssumption, Tasks, NoTask
<1>2. ASSUME NEW t \in Tasks
      PROVE  /\ CountHeld(hand, t) \in Nat /\ CountIn(taskChan, t) \in Nat
             /\ CountIn(taskQueue, t) \in Nat /\ CountAt(workerTask, t) \in Nat
             /\ Is(loopTask, t) \in Nat /\ Is(NoTask, t) = 0
  BY <1>1, CountsAreNat DEF WorkflowInv, Is
<1>3. ASSUME WorkerDiffers(workerTask, workerTask', w), NEW t
      PROVE  /\ CountAt(workerTask', t) \in Nat
             /\ CountAt(workerTask', t) + Is(workerTask[w], t)
                  = CountAt(workerTask, t) + Is(workerTask'[w], t)
  <2>1. \A g : WorkerDiffers(workerTask, g, w) =>
                 /\ CountAt(g, t) \in Nat
                 /\ CountAt(g, t) + Is(workerTask[w], t) = CountAt(workerTask, t) + Is(g[w], t)
    BY <1>1, CountReplaced
  <2> QED BY <1>3, <2>1
(* The task of w leaves.                                                   *)
<1>4. ASSUME NEW how, workerPc[w] \in {"process", "return"},
             workerTask' = [workerTask EXCEPT ![w] = NoTask], Leave({workerTask[w]}, how),
             how = "dropped" => cancelled, sent' = sent, cancelled' = cancelled, hand' = hand,
             taskChan' = taskChan, taskQueue' = taskQueue, loopTask' = loopTask
      PROVE  TaskInOnePlace' /\ DOMAIN gone' \subseteq 1 .. sent'
  <2>1. workerTask[w] \in Tasks
    BY <1>1, <1>4 DEF WorkflowInv, HoldWhatTheyHandle
  <2>2. ASSUME NEW t \in Tasks
        PROVE  /\ Copies(t)' \in Nat /\ Copies(t) = Copies(t)' + Is(workerTask[w], t)
    <3>1. /\ Copies(t) = CopiesOf(hand, taskChan, taskQueue, loopTask, workerTask, t)
          /\ Copies(t)' = CopiesOf(hand, taskChan, taskQueue, loopTask, workerTask', t)
      BY <1>4, CopiesAre
    <3>2. /\ CountAt(workerTask', t) \in Nat /\ Is(workerTask[w], t) \in Nat
          /\ CountAt(workerTask', t) + Is(workerTask[w], t) = CountAt(workerTask, t)
      <4>1. WorkerDiffers(workerTask, workerTask', w) /\ workerTask'[w] = NoTask
        BY <1>1, <1>4 DEF WorkerDiffers
      <4> QED BY <1>2, <1>3, <4>1 DEF Is
    <3> QED BY <1>2, <3>1, <3>2 DEF CopiesOf
  <2>3. /\ \A t \in {workerTask[w]} : Copies(t)' \in Nat /\ Copies(t)' < Copies(t)
        /\ \A t \in Tasks \ {workerTask[w]} : Copies(t)' = Copies(t)
    <3>1. ASSUME NEW t \in Tasks, t = workerTask[w]
          PROVE  Copies(t)' \in Nat /\ Copies(t)' < Copies(t)
      BY <2>2, <3>1 DEF Is
    <3>2. ASSUME NEW t \in Tasks, t # workerTask[w] PROVE Copies(t)' = Copies(t)
      BY <2>2, <3>2 DEF Is
    <3> QED BY <2>1, <3>1, <3>2
  <2>4. {workerTask[w]} \in SUBSET Tasks /\ TaskInOnePlace
    BY <2>1 DEF WorkflowInv
  <2> QED BY <1>1, <1>4, <2>3, <2>4, TasksLeave
<1>5. CASE WorkerTake(w)
  <2> DEFINE x == Head(taskQueue)
             q == Tail(taskQueue)
  <2>1. /\ q \in Seq(Tasks) /\ x \in Tasks
        /\ \A t : CountIn(taskQueue, t) = Is(x, t) + CountIn(q, t)
    BY <1>1, <1>5, CountTail DEF WorkerTake
  <2>2. /\ taskQueue' = q /\ workerTask' = [workerTask EXCEPT ![w] = x]
        /\ workerTask[w] = NoTask /\ workerPc' = [workerPc EXCEPT ![w] = "process"]
        /\ workerPc[w] = "select"
    BY <1>5 DEF WorkerTake, WorkflowInv, HoldWhatTheyHandle
  <2> HIDE DEF x, q
  <2>3. WorkflowTypeOK'
    BY <1>5, <2>1, <2>2 DEF WorkerTake, WorkflowInv, WorkflowTypeOK
  <2>4. HoldWhatTheyHandle'
    BY <1>1, <1>5, <2>1, <2>2 DEF WorkerTake, WorkflowInv, HoldWhatTheyHandle, WorkflowTypeOK
  <2>5. ASSUME NEW t \in Tasks PROVE Copies(t)' = Copies(t)
    <3>1. /\ CountIn(taskQueue, t) = Is(x, t) + CountIn(q, t)
          /\ CountIn(q, t) \in Nat /\ Is(x, t) \in Nat
      BY <2>1, CountIs DEF Is
    <3>2. /\ Copies(t) = CopiesOf(hand, taskChan, taskQueue, loopTask, workerTask, t)
          /\ Copies(t)' = CopiesOf(hand, taskChan, q, loopTask, workerTask', t)
      BY <1>5, <2>2, CopiesAre DEF WorkerTake
    <3>3. /\ CountAt(workerTask', t) \in Nat
          /\ CountAt(workerTask', t) = CountAt(workerTask, t) + Is(x, t)
      <4>1. WorkerDiffers(workerTask, workerTask', w) /\ workerTask'[w] = x
        BY <1>1, <2>2 DEF WorkerDiffers
      <4>2. /\ CountAt(workerTask', t) \in Nat
            /\ CountAt(workerTask', t) + Is(workerTask[w], t)
                 = CountAt(workerTask, t) + Is(workerTask'[w], t)
        BY <1>3, <4>1
      <4>3. Is(workerTask[w], t) = 0
        BY <1>2, <2>2
      <4> QED BY <1>2, <4>1, <4>2, <4>3
    <3> QED BY <1>2, <3>1, <3>2, <3>3 DEF CopiesOf
  <2>6. TaskInOnePlace'
    BY <1>5, <2>5, TasksMove DEF WorkerTake, WorkflowInv
  <2> QED BY <2>3, <2>4, <2>6 DEF WorkflowInv
<1>6. CASE WorkerProcess(w) /\ returns
  <2>1. /\ workerPc[w] = "process" /\ workerPc' = [workerPc EXCEPT ![w] = "return"]
        /\ UNCHANGED <<returns, cancelled, sent, hand, taskChan, pullPc, loopPc, loopTask,
                       taskQueue, stopPc, workerTask, gone>>
    BY <1>6 DEF WorkerProcess
  <2>2. WorkflowTypeOK'
    BY <2>1 DEF WorkflowInv, WorkflowTypeOK
  <2>3. HoldWhatTheyHandle'
    BY <2>1 DEF WorkflowInv, HoldWhatTheyHandle, WorkflowTypeOK
  <2>4. TaskInOnePlace'
    BY <2>1, TasksStay DEF WorkflowInv
  <2> QED BY <2>2, <2>3, <2>4 DEF WorkflowInv
<1>7. CASE WorkerProcess(w) /\ ~returns
  <2>1. /\ workerPc[w] = "process" /\ workerPc' = [workerPc EXCEPT ![w] = "select"]
        /\ workerTask' = [workerTask EXCEPT ![w] = NoTask]
        /\ Leave({workerTask[w]}, "finished")
        /\ UNCHANGED <<returns, cancelled, sent, hand, taskChan, pullPc, loopPc, loopTask,
                       taskQueue, stopPc>>
    BY <1>7 DEF WorkerProcess
  <2>2. TaskInOnePlace' /\ DOMAIN gone' \subseteq 1 .. sent'
    BY <1>4, <2>1
  <2>3. WorkflowTypeOK'
    BY <2>1, <2>2 DEF WorkflowInv, WorkflowTypeOK
  <2>4. HoldWhatTheyHandle'
    BY <2>1 DEF WorkflowInv, HoldWhatTheyHandle, WorkflowTypeOK
  <2> QED BY <2>2, <2>3, <2>4 DEF WorkflowInv
<1>8. CASE WorkerReturn(w)
  <2>1. workerTask[w] \in Tasks
    BY <1>1, <1>8 DEF WorkerReturn, WorkflowInv, HoldWhatTheyHandle
  <2> DEFINE x == workerTask[w]
             q == Append(taskChan, x)
  <2>2. /\ q \in Seq(Tasks)
        /\ \A t : CountIn(q, t) = CountIn(taskChan, t) + Is(x, t)
    BY <1>1, <2>1, CountAppended, AppendProperties
  <2>3. /\ taskChan' = q /\ workerTask' = [workerTask EXCEPT ![w] = NoTask]
        /\ workerPc' = [workerPc EXCEPT ![w] = "select"] /\ workerPc[w] = "return"
    BY <1>8 DEF WorkerReturn
  <2> HIDE DEF q
  <2>4. WorkflowTypeOK'
    BY <1>8, <2>2, <2>3 DEF WorkerReturn, WorkflowInv, WorkflowTypeOK
  <2>5. HoldWhatTheyHandle'
    BY <1>8, <2>3 DEF WorkerReturn, WorkflowInv, HoldWhatTheyHandle, WorkflowTypeOK
  <2>6. ASSUME NEW t \in Tasks PROVE Copies(t)' = Copies(t)
    <3>1. CountIn(q, t) = CountIn(taskChan, t) + Is(x, t) /\ Is(x, t) \in Nat
      BY <2>2 DEF Is
    <3>2. /\ Copies(t) = CopiesOf(hand, taskChan, taskQueue, loopTask, workerTask, t)
          /\ Copies(t)' = CopiesOf(hand, q, taskQueue, loopTask, workerTask', t)
      BY <1>8, <2>3, CopiesAre DEF WorkerReturn
    <3>3. /\ CountAt(workerTask', t) \in Nat
          /\ CountAt(workerTask', t) + Is(x, t) = CountAt(workerTask, t)
      <4>1. WorkerDiffers(workerTask, workerTask', w) /\ workerTask'[w] = NoTask
        BY <1>1, <2>3 DEF WorkerDiffers
      <4> QED BY <1>2, <1>3, <4>1
    <3> HIDE DEF x
    <3> QED BY <1>2, <3>1, <3>2, <3>3 DEF CopiesOf
  <2>7. TaskInOnePlace'
    BY <1>8, <2>6, TasksMove DEF WorkerReturn, WorkflowInv
  <2> QED BY <2>4, <2>5, <2>7 DEF WorkflowInv
<1>9. CASE WorkerReturnFails(w)
  <2>1. /\ workerPc[w] = "return" /\ workerPc' = [workerPc EXCEPT ![w] = "select"]
        /\ workerTask' = [workerTask EXCEPT ![w] = NoTask] /\ cancelled
        /\ Leave({workerTask[w]}, "dropped")
        /\ UNCHANGED <<returns, cancelled, sent, hand, taskChan, pullPc, loopPc, loopTask,
                       taskQueue, stopPc>>
    BY <1>9 DEF WorkerReturnFails
  <2>2. TaskInOnePlace' /\ DOMAIN gone' \subseteq 1 .. sent'
    BY <1>4, <2>1
  <2>3. WorkflowTypeOK'
    BY <2>1, <2>2 DEF WorkflowInv, WorkflowTypeOK
  <2>4. HoldWhatTheyHandle'
    BY <2>1 DEF WorkflowInv, HoldWhatTheyHandle, WorkflowTypeOK
  <2> QED BY <2>2, <2>3, <2>4 DEF WorkflowInv
<1>10. CASE WorkerDone(w)
  <2>1. /\ workerPc[w] = "select" /\ workerPc' = [workerPc EXCEPT ![w] = "exited"]
        /\ UNCHANGED <<returns, cancelled, sent, hand, taskChan, pullPc, loopPc, loopTask,
                       taskQueue, workerTask, stopPc, processed, gone>>
    BY <1>10 DEF WorkerDone
  <2>2. WorkflowTypeOK'
    BY <2>1 DEF WorkflowInv, WorkflowTypeOK
  <2>3. HoldWhatTheyHandle'
    BY <2>1 DEF WorkflowInv, HoldWhatTheyHandle, WorkflowTypeOK
  <2>4. TaskInOnePlace'
    BY <2>1, TasksStay DEF WorkflowInv
  <2> QED BY <2>2, <2>3, <2>4 DEF WorkflowInv
<1> QED BY <1>5, <1>6, <1>7, <1>8, <1>9, <1>10 DEF RunWorker

(* Every step keeps the invariant, ...                                     *)
LEMMA WorkflowKept == WorkflowInv /\ WorkflowNext => WorkflowInv'
BY SendersKept, LoopKept, WorkerStepKept DEF WorkflowNext

(* ... and so does nothing.                                                *)
LEMMA WorkflowStays == WorkflowInv /\ UNCHANGED workflowVars => WorkflowInv'
<1> SUFFICES ASSUME WorkflowInv, UNCHANGED workflowVars PROVE WorkflowInv'
  OBVIOUS
<1>1. TaskInOnePlace'
  BY TasksStay DEF WorkflowInv, workflowVars
<1>2. WorkflowTypeOK' /\ HoldWhatTheyHandle'
  BY DEF WorkflowInv, WorkflowTypeOK, HoldWhatTheyHandle, workflowVars
<1> QED BY <1>1, <1>2 DEF WorkflowInv

(* EventWorkflow: no task is lost between the puller, the clients, the two *)
(* queues, the event loop and the workers, none is in two of them at once, *)
(* and only Stop drops some.                                               *)
THEOREM TasksAreInOnePlace == RunnersSpec => []TasksExact
<1> DEFINE I == part = "workflow" => WorkflowInv
<1>1. RunnersInit => I
  BY WorkflowInitial DEF RunnersInit
<1>2. I /\ [RunnersNext]_allVars => I'
  <2> SUFFICES ASSUME I, [RunnersNext]_allVars PROVE I'
    OBVIOUS
  <2>1. CASE RunnersNext
    BY <2>1, PartStep, WorkflowKept
  <2>2. CASE UNCHANGED allVars
    BY <2>2, WorkflowStays DEF allVars
  <2> QED BY <2>1, <2>2
<1>3. I => TasksExact
  BY DEF WorkflowInv, TasksExact
<1> QED BY <1>1, <1>2, <1>3, PTL DEF RunnersSpec

--------------------------------------------------------------------------------
(* StateMachine: the hooks.                                                *)
Event == [at : {"idle", "find", "exit", "enter", "set"}, from : StateIDs \cup {NoState},
          to : StateIDs \cup {NoState}]

(* The states, and a number for each.                                      *)
StateMachineTypeOK ==
  /\ states \subseteq StateIDs /\ initialState \in StateIDs \cup {NoState}
  /\ currentState \in StateIDs \cup {NoState} /\ senders \in [EventSenders -> Event]
  /\ inside \in [StateIDs -> Int] /\ balance \in Int /\ failedEnters \in Nat
  /\ initializations \in Nat /\ disturbed \in BOOLEAN

(* Who sends an event, and who has left a state and not entered the next.  *)
Underway   == {c \in EventSenders : senders[c].at # "idle"}
BetweenTwo == {c \in EventSenders : senders[c].at = "enter"}

(* The only state that is inside is s.                                     *)
InsideOnly(s) == \A r \in StateIDs : inside[r] = IF r = s THEN 1 ELSE 0

(* Who has left a state and not yet entered the next one owes one.         *)
Balanced ==
  IF currentState = NoState
  THEN Underway = {} /\ InsideOnly(NoState) /\ balance = 0
       /\ failedEnters = 0 /\ initializations = 0
  ELSE balance = initializations - failedEnters - Cardinality(BetweenTwo)

(* Where an event is that no other one overlaps.                           *)
EventInside(c) ==
  /\ senders[c].from = currentState /\ senders[c].to # currentState
  /\ senders[c].at \in {"find", "exit"} => InsideOnly(currentState)
  /\ senders[c].at = "enter" => InsideOnly(NoState)
  /\ senders[c].at = "set" => InsideOnly(senders[c].to)

(* While no two events overlap and the machine is initialized once, there  *)
(* is one event at most, and as long as no OnEnter has failed it is where  *)
(* EventInside says.                                                       *)
OneAfterAnother ==
  ~disturbed =>
    /\ \A c, d \in Underway : c = d
    /\ failedEnters = 0 =>
         /\ Underway = {} => InsideOnly(currentState)
         /\ \A c \in Underway : EventInside(c)

(* An event leads from a state to another one.                             *)
FromStateToState == \A c \in Underway : senders[c].from \in StateIDs /\ senders[c].to \in StateIDs

StateMachineInv == StateMachineTypeOK /\ FromStateToState /\ Balanced /\ OneAfterAnother

(* No state is current.                                                    *)
LEMMA StateMachineInitial == StateMachineInit => StateMachineInv
<1> SUFFICES ASSUME StateMachineInit PROVE StateMachineInv
  OBVIOUS
<1>1. StateMachineTypeOK
  <2>1. AtRest \in Event
    BY DEF AtRest, Event
  <2>2. senders \in [EventSenders -> Event]
    BY <2>1 DEF StateMachineInit
  <2>3. inside \in [StateIDs -> Int] /\ states \subseteq StateIDs
    BY DEF StateMachineInit
  <2>4. initializations \in Nat /\ disturbed \in BOOLEAN
    BY DEF StateMachineInit
  <2> QED BY <2>2, <2>3, <2>4 DEF StateMachineInit, StateMachineTypeOK
<1>2. /\ Underway = {} /\ InsideOnly(NoState) /\ currentState = NoState /\ balance = 0
      /\ failedEnters = 0 /\ initializations = 0
  BY StateMachineAssumption
  DEF StateMachineInit, Underway, InsideOnly, AtRest, StateMachineAssumption
<1> QED BY <1>1, <1>2 DEF FromStateToState, Balanced, OneAfterAnother, StateMachineInv

(* Without an event nobody owes anything.                                  *)
LEMMA StateMachineShown == StateMachineInv => HooksBalanced
<1> SUFFICES ASSUME StateMachineInv, \A c \in EventSenders : senders[c].at = "idle"
             PROVE  /\ balance = initializations - failedEnters
                    /\ ~disturbed /\ failedEnters = 0 =>
                         \A s \in StateIDs : inside[s] = (IF s = currentState THEN 1 ELSE 0)
  BY DEF HooksBalanced
<1>1. Underway = {} /\ BetweenTwo = {}
  BY DEF Underway, BetweenTwo
<1>2. Cardinality(BetweenTwo) = 0
  BY <1>1, FS_EmptySet
<1>3. balance = initializations - failedEnters
  BY <1>2 DEF StateMachineInv, StateMachineTypeOK, Balanced
<1>4. ~disturbed /\ failedEnters = 0 => InsideOnly(currentState)
  BY <1>1 DEF StateMachineInv, OneAfterAnother
<1> QED BY <1>3, <1>4 DEF InsideOnly

(* A sender comes to, or leaves, the point between two states.             *)
LEMMA BetweenTwoIs ==
  /\ IsFiniteSet(BetweenTwo) /\ Cardinality(BetweenTwo) \in Nat
  /\ \A c : /\ Cardinality(BetweenTwo \cup {c}) =
                 IF c \in BetweenTwo THEN Cardinality(BetweenTwo) ELSE Cardinality(BetweenTwo) + 1
            /\ Cardinality(BetweenTwo \ {c}) =
                 IF c \in BetweenTwo THEN Cardinality(BetweenTwo) - 1 ELSE Cardinality(BetweenTwo)
<1>1. BetweenTwo \in SUBSET EventSenders /\ IsFiniteSet(EventSenders)
  BY StateMachineAssumption DEF BetweenTwo, StateMachineAssumption
<1>2. IsFiniteSet(BetweenTwo)
  BY <1>1, FS_Subset
<1> QED BY <1>2, FS_CardinalityType, FS_AddElement, FS_RemoveElement

(* One sender goes on.                                                     *)
SenderGoesOn(c, e) ==
  /\ senders' \in [EventSenders -> Event] /\ senders'[c] = e
  /\ \A d \in EventSenders : d # c => senders'[d] = senders[d]

(* This decides who is under way, and who between two states.              *)
LEMMA SenderReplaced ==
  ASSUME StateMachineTypeOK, NEW c \in EventSenders, NEW e \in Event, SenderGoesOn(c, e)
  PROVE  /\ Underway' = IF e.at = "idle" THEN Underway \ {c} ELSE Underway \cup {c}
         /\ BetweenTwo' = IF e.at = "enter" THEN BetweenTwo \cup {c} ELSE BetweenTwo \ {c}
BY DEF SenderGoesOn, Underway, BetweenTwo

(* A hook is counted.                                                      *)
LEMMA HookCounted ==
  ASSUME inside \in [StateIDs -> Int], balance \in Int, NEW s, Entered(s) \/ Left(s)
  PROVE  inside' \in [StateIDs -> Int] /\ balance' \in Int
<1>1. CASE Entered(s)
  <2>1. /\ inside' = [r \in StateIDs |-> IF r = s THEN inside[r] + 1 ELSE inside[r]]
        /\ balance' = balance + 1
    BY <1>1 DEF Entered
  <2> QED BY <2>1
<1>2. CASE Left(s)
  <2>1. /\ inside' = [r \in StateIDs |-> IF r = s THEN inside[r] - 1 ELSE inside[r]]
        /\ balance' = balance - 1
    BY <1>2 DEF Left
  <2> QED BY <2>1
<1> QED BY <1>1, <1>2

(* Registration, Initialize and the steps of SendEvent keep the invariant, *)
(* ...                                                                     *)
LEMMA StateMachineKept == StateMachineInv /\ StateMachineNext => StateMachineInv'
<1> SUFFICES ASSUME StateMachineInv, StateMachineNext PROVE StateMachineInv'
  OBVIOUS
<1>1. NoState \notin StateIDs
  BY StateMachineAssumption DEF StateMachineAssumption
<1>2. CASE \E s \in StateIDs : AddState(s) \/ SetInitialState(s)
  <2>1. /\ states' \subseteq StateIDs /\ initialState' \in StateIDs \cup {NoState}
        /\ UNCHANGED <<currentState, senders, inside, balance, failedEnters, initializations, disturbed>>
    BY <1>2 DEF AddState, SetInitialState, StateMachineInv, StateMachineTypeOK
  <2>2. StateMachineTypeOK'
    BY <2>1 DEF StateMachineInv, StateMachineTypeOK
  <2>3. FromStateToState' /\ Balanced' /\ OneAfterAnother'
    BY <2>1
    DEF StateMachineInv, FromStateToState, Balanced, OneAfterAnother, EventInside, InsideOnly, Underway, BetweenTwo
  <2> QED BY <2>2, <2>3 DEF StateMachineInv
<1>3. CASE Initialize
  <2>1. /\ initialState \in StateIDs /\ currentState' = initialState
        /\ initializations' = initializations + 1
        /\ disturbed' = (disturbed \/ currentState # NoState)
        /\ UNCHANGED <<states, initialState, senders>>
        /\ inside \in [StateIDs -> Int] /\ balance \in Int /\ failedEnters \in Nat
        /\ initializations \in Nat /\ disturbed \in BOOLEAN
    BY <1>3 DEF Initialize, StateMachineInv, StateMachineTypeOK
  <2>2. \/ Entered(initialState) /\ UNCHANGED failedEnters
        \/ failedEnters' = failedEnters + 1 /\ UNCHANGED <<inside, balance>>
    BY <1>3 DEF Initialize
  <2>3. StateMachineTypeOK'
    <3>1. CASE Entered(initialState) /\ UNCHANGED failedEnters
      BY <2>1, <3>1 DEF Entered, StateMachineInv, StateMachineTypeOK
    <3>2. CASE failedEnters' = failedEnters + 1 /\ UNCHANGED <<inside, balance>>
      BY <2>1, <3>2 DEF StateMachineInv, StateMachineTypeOK
    <3> QED BY <2>2, <3>1, <3>2
  <2>4. Underway' = Underway /\ BetweenTwo' = BetweenTwo /\ FromStateToState'
    BY <2>1 DEF Underway, BetweenTwo, FromStateToState, StateMachineInv
  <2>5. balance = initializations - failedEnters - Cardinality(BetweenTwo)
    <3>1. CASE currentState = NoState
      <4>1. BetweenTwo = {}
        BY <3>1 DEF StateMachineInv, Balanced, Underway, BetweenTwo
      <4>2. Cardinality(BetweenTwo) = 0
        BY <4>1, FS_EmptySet
      <4> QED BY <3>1, <4>2 DEF StateMachineInv, Balanced
    <3> QED BY <3>1 DEF StateMachineInv, Balanced
  <2>6. Balanced'
    <3> DEFINE k == Cardinality(BetweenTwo)
    <3>1. k \in Nat /\ k' = k /\ balance = initializations - failedEnters - k
      BY <2>4, <2>5, BetweenTwoIs
    <3> HIDE DEF k
    <3>2. balance' = initializations' - failedEnters' - k
      BY <2>1, <2>2, <3>1 DEF Entered
    <3>3. currentState' # NoState
      BY <1>1, <2>1
    <3> QED BY <3>1, <3>2, <3>3 DEF Balanced, k
  <2>7. OneAfterAnother'
    <3> SUFFICES ASSUME ~disturbed' PROVE OneAfterAnother'
      BY DEF OneAfterAnother
    <3>1. Underway' = {} /\ InsideOnly(NoState)
      BY <2>1, <2>4 DEF StateMachineInv, Balanced
    <3>2. failedEnters' = 0 => InsideOnly(currentState)'
      <4> SUFFICES ASSUME failedEnters' = 0 PROVE InsideOnly(currentState)'
        OBVIOUS
      <4>1. Entered(initialState)
        BY <2>1, <2>2
      <4> QED BY <1>1, <2>1, <3>1, <4>1 DEF Entered, InsideOnly
    <3> QED BY <3>1, <3>2 DEF OneAfterAnother
  <2> QED BY <2>3, <2>4, <2>6, <2>7 DEF StateMachineInv
<1>4. ASSUME NEW c \in EventSenders, NEW s \in StateIDs, ChooseNext(c, s) PROVE StateMachineInv'
  <2> DEFINE e == [at |-> "find", from |-> currentState, to |-> s]
  <2>1. e \in Event /\ e.at = "find" /\ e.from = currentState /\ e.to = s
    BY DEF Event, StateMachineInv, StateMachineTypeOK
  <2>2. /\ senders[c].at = "idle" /\ currentState \in StateIDs /\ s # currentState
        /\ UNCHANGED <<states, initialState, currentState, inside, balance, failedEnters, initializations>>
        /\ disturbed' = (disturbed \/ \E d \in EventSenders : senders[d].at # "idle")
    BY <1>4 DEF ChooseNext, StateMachineInv, StateMachineTypeOK
  <2>3. SenderGoesOn(c, e)
    BY <1>4, <2>1 DEF ChooseNext, SenderGoesOn, StateMachineInv, StateMachineTypeOK
  <2> HIDE DEF e
  <2>4. Underway' = Underway \cup {c} /\ BetweenTwo' = BetweenTwo
    BY <2>1, <2>2, <2>3, SenderReplaced DEF StateMachineInv, BetweenTwo
  <2>5. StateMachineTypeOK'
    <3>1. disturbed' \in BOOLEAN
      BY <2>2
    <3> QED BY <2>2, <2>3, <3>1 DEF SenderGoesOn, StateMachineInv, StateMachineTypeOK
  <2>6. Balanced'
    BY <1>1, <2>2, <2>4 DEF StateMachineInv, Balanced
  <2>7. OneAfterAnother'
    <3> SUFFICES ASSUME ~disturbed' PROVE OneAfterAnother'
      BY DEF OneAfterAnother
    <3>1. ~disturbed /\ Underway = {}
      BY <2>2 DEF Underway
    <3>2. Underway' = {c} /\ senders'[c] = e
      BY <2>3, <2>4, <3>1 DEF SenderGoesOn
    <3>3. failedEnters' = 0 => InsideOnly(currentState)'
      BY <2>2, <3>1 DEF StateMachineInv, OneAfterAnother, InsideOnly
    <3>4. failedEnters' = 0 => EventInside(c)'
      BY <2>1, <2>2, <3>2, <3>3 DEF EventInside
    <3> QED BY <3>2, <3>4 DEF OneAfterAnother
  <2>8. FromStateToState'
    BY <2>1, <2>2, <2>3, <2>4 DEF FromStateToState, StateMachineInv, SenderGoesOn, Underway
  <2> QED BY <2>5, <2>6, <2>7, <2>8 DEF StateMachineInv
<1>5. ASSUME NEW c \in EventSenders, senders[c].at # "idle"
      PROVE  /\ currentState # NoState /\ c \in Underway /\ senders[c] \in Event
             /\ senders[c].from \in StateIDs /\ senders[c].to \in StateIDs
             /\ balance = initializations - failedEnters - Cardinality(BetweenTwo)
             /\ ~disturbed => Underway = {c} /\ (failedEnters = 0 => EventInside(c))
  <2>1. c \in Underway /\ senders[c] \in Event
    BY <1>5 DEF Underway, StateMachineInv, StateMachineTypeOK
  <2>2. ~disturbed => Underway = {c} /\ (failedEnters = 0 => EventInside(c))
    BY <2>1 DEF StateMachineInv, OneAfterAnother
  <2> QED BY <2>1, <2>2 DEF StateMachineInv, Balanced, FromStateToState
<1>6. ASSUME NEW c \in EventSenders, FindNext(c) PROVE StateMachineInv'
  <2>1. /\ senders[c].at = "find"
        /\ UNCHANGED <<states, initialState, currentState, inside, balance, failedEnters, initializations, disturbed>>
    BY <1>6 DEF FindNext
  <2>2. PICK e \in Event : /\ SenderGoesOn(c, e) /\ e.at \in {"idle", "exit"}
                           /\ e.at = "exit" => e.from = senders[c].from /\ e.to = senders[c].to
    <3>1. [senders[c] EXCEPT !.at = "exit"] \in Event /\ AtRest \in Event
      BY <1>5, <2>1 DEF Event, AtRest
    <3> DEFINE e == IF senders[c].to \in states THEN [senders[c] EXCEPT !.at = "exit"] ELSE AtRest
    <3>2. senders' = [senders EXCEPT ![c] = e] /\ senders \in [EventSenders -> Event]
      BY <1>6 DEF FindNext, StateMachineInv, StateMachineTypeOK
    <3>3. /\ e \in Event /\ e.at \in {"idle", "exit"}
          /\ e.at = "exit" => e.from = senders[c].from /\ e.to = senders[c].to
      BY <1>5, <2>1, <3>1 DEF Event, AtRest
    <3> HIDE DEF e
    <3> QED BY <3>2, <3>3 DEF SenderGoesOn
  <2>3. /\ Underway' = IF e.at = "idle" THEN Underway \ {c} ELSE Underway \cup {c}
        /\ BetweenTwo' = BetweenTwo
    BY <2>1, <2>2, SenderReplaced DEF StateMachineInv, BetweenTwo
  <2>4. StateMachineTypeOK'
    BY <2>1, <2>2 DEF SenderGoesOn, StateMachineInv, StateMachineTypeOK
  <2>5. Balanced'
    BY <1>5, <2>1, <2>3 DEF Balanced
  <2>6. OneAfterAnother'
    <3> SUFFICES ASSUME ~disturbed' PROVE OneAfterAnother'
      BY DEF OneAfterAnother
    <3>1. Underway = {c} /\ (failedEnters = 0 => EventInside(c))
      BY <1>5, <2>1
    <3>2. failedEnters' = 0 => InsideOnly(currentState)'
      BY <2>1, <3>1 DEF EventInside, InsideOnly
    <3>3. CASE e.at = "idle"
      BY <2>3, <3>1, <3>2, <3>3 DEF OneAfterAnother
    <3>4. CASE e.at # "idle"
      <4>1. failedEnters' = 0 => EventInside(c)'
        BY <2>1, <2>2, <3>1, <3>2, <3>4 DEF EventInside, SenderGoesOn
      <4>2. Underway' = {c}
        BY <2>3, <3>1, <3>4
      <4> QED BY <4>1, <4>2 DEF OneAfterAnother
    <3> QED BY <3>3, <3>4
  <2>7. FromStateToState'
    BY <1>5, <1>6, <2>1, <2>2, <2>3 DEF FromStateToState, StateMachineInv, SenderGoesOn, Underway
  <2> QED BY <2>4, <2>5, <2>6, <2>7 DEF StateMachineInv
<1>7. ASSUME NEW c \in EventSenders, senders[c].at = "exit",
             senders' = [senders EXCEPT ![c].at = "enter"], Left(senders[c].from),
             UNCHANGED <<states, initialState, currentState, failedEnters, initializations, disturbed>>
      PROVE  StateMachineInv'
  <2> DEFINE e == [senders[c] EXCEPT !.at = "enter"]
  <2>1. /\ e \in Event /\ e.at = "enter" /\ e.from = senders[c].from /\ e.to = senders[c].to
        /\ senders' = [senders EXCEPT ![c] = e] /\ senders \in [EventSenders -> Event]
    BY <1>5, <1>7 DEF Event, StateMachineInv, StateMachineTypeOK
  <2> HIDE DEF e
  <2>2. SenderGoesOn(c, e)
    BY <2>1 DEF SenderGoesOn
  <2>3. Underway' = Underway \cup {c} /\ BetweenTwo' = BetweenTwo \cup {c} /\ c \notin BetweenTwo
    BY <1>7, <2>1, <2>2, SenderReplaced DEF StateMachineInv, BetweenTwo
  <2>4. StateMachineTypeOK'
    <3>1. inside' \in [StateIDs -> Int] /\ balance' \in Int
      BY <1>7, HookCounted DEF StateMachineInv, StateMachineTypeOK
    <3>2. senders' \in [EventSenders -> Event]
      BY <2>2 DEF SenderGoesOn
    <3> QED BY <1>7, <3>1, <3>2 DEF StateMachineInv, StateMachineTypeOK
  <2>5. Balanced'
    <3>1. Cardinality(BetweenTwo') = Cardinality(BetweenTwo) + 1
      BY <2>3, BetweenTwoIs
    <3>2. balance' = balance - 1 /\ failedEnters \in Nat /\ initializations \in Nat
           /\ Cardinality(BetweenTwo) \in Nat
      BY <1>7, BetweenTwoIs DEF Left, StateMachineInv, StateMachineTypeOK
    <3>3. balance' = initializations - failedEnters - Cardinality(BetweenTwo')
      BY <1>5, <1>7, <3>1, <3>2
    <3> QED BY <1>5, <1>7, <3>3 DEF Balanced
  <2>6. OneAfterAnother'
    <3> SUFFICES ASSUME ~disturbed' PROVE OneAfterAnother'
      BY DEF OneAfterAnother
    <3>1. Underway = {c} /\ (failedEnters = 0 => EventInside(c))
      BY <1>5, <1>7
    <3>2. failedEnters' = 0 => InsideOnly(NoState)'
      BY <1>1, <1>7, <3>1 DEF EventInside, InsideOnly, Left, StateMachineInv, StateMachineTypeOK
    <3>3. failedEnters' = 0 => EventInside(c)'
      BY <1>7, <2>1, <2>2, <3>1, <3>2 DEF EventInside, SenderGoesOn
    <3> QED BY <2>3, <3>1, <3>3 DEF OneAfterAnother
  <2>7. FromStateToState'
    BY <1>5, <1>7, <2>1, <2>2, <2>3 DEF FromStateToState, StateMachineInv, SenderGoesOn, Underway
  <2> QED BY <2>4, <2>5, <2>6, <2>7 DEF StateMachineInv
(* The call of SendEvent ends.                                             *)
<1>8. ASSUME NEW c \in EventSenders, senders[c].at # "idle",
             senders' = [senders EXCEPT ![c] = AtRest],
             UNCHANGED <<states, initialState, inside, balance, initializations, disturbed>>,
             \/ senders[c].at = "exit" /\ UNCHANGED <<currentState, failedEnters, initializations>>
             \/ senders[c].at = "enter" /\ failedEnters' = failedEnters + 1
                                       /\ UNCHANGED currentState
             \/ senders[c].at = "set" /\ currentState' = senders[c].to
                                     /\ UNCHANGED failedEnters
      PROVE  StateMachineInv'
  <2>1. /\ AtRest \in Event /\ AtRest.at = "idle" /\ senders \in [EventSenders -> Event]
        /\ failedEnters \in Nat /\ initializations \in Nat /\ currentState \in StateIDs \cup {NoState}
    BY DEF AtRest, Event, StateMachineInv, StateMachineTypeOK
  <2>2. SenderGoesOn(c, AtRest)
    BY <1>8, <2>1 DEF SenderGoesOn
  <2>3. Underway' = Underway \ {c} /\ BetweenTwo' = BetweenTwo \ {c}
    BY <2>1, <2>2, SenderReplaced DEF StateMachineInv
  <2>4. StateMachineTypeOK'
    <3>1. currentState' \in StateIDs \cup {NoState} /\ failedEnters' \in Nat
      BY <1>5, <1>8, <2>1 DEF Event
    <3>2. senders' \in [EventSenders -> Event]
      BY <2>2 DEF SenderGoesOn
    <3> QED BY <1>8, <3>1, <3>2 DEF StateMachineInv, StateMachineTypeOK
  <2>5. Balanced'
    <3>1. /\ balance = initializations - failedEnters - Cardinality(BetweenTwo) /\ currentState # NoState
          /\ Cardinality(BetweenTwo) \in Nat
      BY <1>5, <1>8, BetweenTwoIs
    <3>2. currentState' # NoState
      BY <1>1, <1>5, <1>8, <3>1
    <3>3. balance = initializations - failedEnters' - Cardinality(BetweenTwo')
      <4>1. CASE senders[c].at = "enter"
        <5>1. Cardinality(BetweenTwo') = Cardinality(BetweenTwo) - 1
          BY <2>3, <4>1, BetweenTwoIs DEF BetweenTwo
        <5>2. failedEnters' = failedEnters + 1
          BY <1>8, <4>1
        <5> QED BY <2>1, <3>1, <5>1, <5>2
      <4>2. CASE senders[c].at # "enter"
        <5>1. BetweenTwo' = BetweenTwo
          BY <2>3, <4>2 DEF BetweenTwo
        <5>2. failedEnters' = failedEnters
          BY <1>8, <4>2
        <5> QED BY <3>1, <5>1, <5>2
      <4> QED BY <4>1, <4>2
    <3> QED BY <1>8, <3>2, <3>3 DEF Balanced
  <2>6. OneAfterAnother'
    <3> SUFFICES ASSUME ~disturbed' PROVE OneAfterAnother'
      BY DEF OneAfterAnother
    <3>1. Underway = {c} /\ (failedEnters = 0 => EventInside(c))
      BY <1>5, <1>8
    <3>2. failedEnters' = 0 => failedEnters = 0 /\ senders[c].at # "enter"
      BY <1>8, <2>1
    <3>3. failedEnters' = 0 => InsideOnly(currentState)'
      BY <1>8, <3>1, <3>2 DEF EventInside, InsideOnly
    <3> QED BY <2>3, <3>1, <3>3 DEF OneAfterAnother
  <2>7. FromStateToState'
    BY <1>5, <1>8, <2>1, <2>2, <2>3 DEF FromStateToState, StateMachineInv, SenderGoesOn, Underway
  <2> QED BY <2>4, <2>5, <2>6, <2>7 DEF StateMachineInv
<1>9. ASSUME NEW c \in EventSenders, senders[c].at = "enter",
             senders' = [senders EXCEPT ![c].at = "set"], Entered(senders[c].to),
             UNCHANGED <<states, initialState, currentState, failedEnters, initializations, disturbed>>
      PROVE  StateMachineInv'
  <2> DEFINE e == [senders[c] EXCEPT !.at = "set"]
  <2>1. /\ e \in Event /\ e.at = "set" /\ e.from = senders[c].from /\ e.to = senders[c].to
        /\ senders' = [senders EXCEPT ![c] = e] /\ senders \in [EventSenders -> Event]
    BY <1>5, <1>9 DEF Event, StateMachineInv, StateMachineTypeOK
  <2> HIDE DEF e
  <2>2. SenderGoesOn(c, e)
    BY <2>1 DEF SenderGoesOn
  <2>3. Underway' = Underway \cup {c} /\ BetweenTwo' = BetweenTwo \ {c} /\ c \in BetweenTwo
    BY <1>9, <2>1, <2>2, SenderReplaced DEF StateMachineInv, BetweenTwo
  <2>4. StateMachineTypeOK'
    <3>1. inside' \in [StateIDs -> Int] /\ balance' \in Int
      BY <1>9, HookCounted DEF StateMachineInv, StateMachineTypeOK
    <3>2. senders' \in [EventSenders -> Event]
      BY <2>2 DEF SenderGoesOn
    <3> QED BY <1>9, <3>1, <3>2 DEF StateMachineInv, StateMachineTypeOK
  <2>5. Balanced'
    <3>1. Cardinality(BetweenTwo') = Cardinality(BetweenTwo) - 1
      BY <2>3, BetweenTwoIs
    <3>2. balance' = balance + 1 /\ failedEnters \in Nat /\ initializations \in Nat
           /\ Cardinality(BetweenTwo) \in Nat
      BY <1>9, BetweenTwoIs DEF Entered, StateMachineInv, StateMachineTypeOK
    <3>3. balance' = initializations - failedEnters - Cardinality(BetweenTwo')
      BY <1>5, <1>9, <3>1, <3>2
    <3> QED BY <1>5, <1>9, <3>3 DEF Balanced
  <2>6. OneAfterAnother'
    <3> SUFFICES ASSUME ~disturbed' PROVE OneAfterAnother'
      BY DEF OneAfterAnother
    <3>1. Underway = {c} /\ (failedEnters = 0 => EventInside(c))
      BY <1>5, <1>9
    <3>2. failedEnters' = 0 => InsideOnly(senders[c].to)'
      <4> SUFFICES ASSUME failedEnters' = 0, NEW r \in StateIDs
                   PROVE  inside'[r] = IF r = senders[c].to' THEN 1 ELSE 0
        BY DEF InsideOnly
      <4> QED BY <1>1, <1>9, <2>1, <2>2, <3>1
              DEF EventInside, InsideOnly, Entered, StateMachineInv, StateMachineTypeOK, SenderGoesOn
    <3>3. failedEnters' = 0 => EventInside(c)'
      BY <1>9, <2>1, <2>2, <3>1, <3>2 DEF EventInside, SenderGoesOn
    <3> QED BY <2>3, <3>1, <3>3 DEF OneAfterAnother
  <2>7. FromStateToState'
    BY <1>5, <1>9, <2>1, <2>2, <2>3 DEF FromStateToState, StateMachineInv, SenderGoesOn, Underway
  <2> QED BY <2>4, <2>5, <2>6, <2>7 DEF StateMachineInv
<1>10. ASSUME NEW c \in EventSenders, ExitState(c) \/ EnterState(c) \/ SetCurrent(c)
       PROVE  StateMachineInv'
  <2>1. CASE ExitState(c)
    <3>1. CASE senders' = [senders EXCEPT ![c].at = "enter"] /\ Left(senders[c].from)
      BY <1>7, <2>1, <3>1 DEF ExitState
    <3>2. CASE senders' = [senders EXCEPT ![c] = AtRest] /\ UNCHANGED <<inside, balance>>
      BY <1>8, <2>1, <3>2 DEF ExitState
    <3> QED BY <2>1, <3>1, <3>2 DEF ExitState
  <2>2. CASE EnterState(c)
    <3>1. CASE senders' = [senders EXCEPT ![c].at = "set"] /\ Entered(senders[c].to)
               /\ UNCHANGED failedEnters
      BY <1>9, <2>2, <3>1 DEF EnterState
    <3>2. CASE senders' = [senders EXCEPT ![c] = AtRest] /\ UNCHANGED <<inside, balance>>
               /\ failedEnters' = failedEnters + 1
      BY <1>8, <2>2, <3>2 DEF EnterState
    <3> QED BY <2>2, <3>1, <3>2 DEF EnterState
  <2>3. CASE SetCurrent(c)
    BY <1>8, <2>3 DEF SetCurrent
  <2> QED BY <1>10, <2>1, <2>2, <2>3
<1> QED BY <1>2, <1>3, <1>4, <1>6, <1>10 DEF StateMachineNext

(* ... and so does nothing.                                                *)
LEMMA StateMachineStays == StateMachineInv /\ UNCHANGED stateVars => StateMachineInv'
BY DEF StateMachineInv, StateMachineTypeOK, Balanced, OneAfterAnother, EventInside,
       FromStateToState, InsideOnly, Underway, BetweenTwo, stateVars

(* StateMachine: the hooks of the states balance, with or without errors,  *)
(* and whatever events overlap.                                            *)
THEOREM HooksAreBalanced == RunnersSpec => []HooksExact
<1> DEFINE I == part = "states" => StateMachineInv
<1>1. RunnersInit => I
  BY StateMachineInitial DEF RunnersInit
<1>2. I /\ [RunnersNext]_allVars => I'
  <2> SUFFICES ASSUME I, [RunnersNext]_allVars PROVE I'
    OBVIOUS
  <2>1. CASE RunnersNext
    BY <2>1, PartStep, StateMachineKept
  <2>2. CASE UNCHANGED allVars
    BY <2>2, StateMachineStays DEF allVars
  <2> QED BY <2>1, <2>2
<1>3. I => HooksExact
  BY StateMachineShown DEF HooksExact
<1> QED BY <1>1, <1>2, <1>3, PTL DEF RunnersSpec
================================================================================
