----------------------------- MODULE DnsProofs -----------------------------
(***************************************************************************)
(* A theorem about Dns, for a pool of any size, any number of threads and  *)
(* every back-off: a lookup gives up a sweep only after it has asked every *)
(* resolver that stayed as it was.                                         *)
(***************************************************************************)
EXTENDS Dns, FiniteSetTheorems, TLAPS

-----------------------------------------------------------------------------
(***************************************************************************)
(* The orders of a sweep.                                                  *)
(***************************************************************************)

\* A shuffle of the pool (Dns_PickResolvers) leaves no resolver out.
LEMMA OrderCovers ==
  ASSUME NEW o \in Orders
  PROVE  /\ Len(o) \in Nat /\ DOMAIN o = 1..Len(o)
         /\ \A j \in 1..Len(o) : o[j] \in Resolvers
         /\ \A r \in Resolvers : \E j \in 1..Len(o) : o[j] = r
<1> DEFINE n == Cardinality(Resolvers)
<1>1. IsFiniteSet(Resolvers) /\ n \in Nat
  BY DnsConstants, FS_CardinalityType
<1>2. o \in [1..n -> Resolvers] /\ \A i, j \in 1..n : i # j => o[i] # o[j]
  BY DEF Orders, SetToSeqs
<1> HIDE DEF n
<1>3. o \in Seq(Resolvers) /\ Len(o) = n /\ DOMAIN o = 1..n
  BY <1>1, <1>2
<1>4. ASSUME NEW r \in Resolvers, \A j \in 1..n : o[j] # r
      PROVE  FALSE
  <2>1. o \in [1..n -> Resolvers \ {r}]
    BY <1>2, <1>4
  <2>2. IsFiniteSet(Resolvers \ {r}) /\ Cardinality(Resolvers \ {r}) = n - 1
    BY <1>1, FS_RemoveElement DEF n
  <2>3. IsFiniteSet(1..n) /\ Cardinality(1..n) = n
    <3>1. 1 \in Int /\ n \in Int
      BY <1>1
    <3>2. Cardinality(1..n) = IF 1 > n THEN 0 ELSE n - 1 + 1
      BY <3>1, FS_Interval
    <3> QED
      BY <1>1, <3>1, <3>2, FS_Interval
  <2>4. n - 1 < n
    BY <1>1
  <2>5. \E i, j \in 1..n : i # j /\ o[i] = o[j]
    BY <2>1, <2>2, <2>3, <2>4, FS_PigeonHole
  <2> QED
    BY <1>2, <2>5
<1> QED
  BY <1>1, <1>2, <1>3, <1>4

-----------------------------------------------------------------------------
(***************************************************************************)
(* The inductive invariant.                                                *)
(***************************************************************************)
TaskSet ==
    [pc : {"idle", "unresolved", "unreached", "pick", "asking", "system", "connect"},
     nts : BOOLEAN, host : Hosts,
     first : {4, 6}, family : {4, 6},
     order : Orders \cup {<<>>}, pass : {0, 1}, i : Nat,
     skipped : BOOLEAN, tried : SUBSET Resolvers, group : {4, 6}]

Entry == [host : Hosts, family : {4, 6}, left : Nat]

DnsTypes ==
    /\ routed \in SUBSET {4, 6} /\ preferred \in {4, 6} /\ cache \subseteq Entry
    /\ backoff \in [Resolvers -> Nat]
    /\ task \in [Threads -> TaskSet]
    /\ relieved \in [Threads -> SUBSET Resolvers]

Sweeping(t) == task[t].pc \in {"pick", "asking"}

\* Thread t has asked the resolver, or could not know that it came back.
Accounted(t, r) == r \in task[t].tried \cup relieved[t]

\* A pass stands at a place of the order.
AtPlace(t) ==
    /\ task[t].order \in Orders
    /\ task[t].i \in 1..(Len(task[t].order) + 1)
    /\ task[t].pc = "asking" =>
           /\ task[t].i <= Len(task[t].order)
           /\ task[t].order[task[t].i] \in task[t].tried

\* Until a resolver is skipped, there is one pass and it asks them all.
AsksAll(t) ==
    ~task[t].skipped =>
        /\ task[t].pass = 0
        /\ \A j \in 1..Len(task[t].order) :
               j < task[t].i => task[t].order[j] \in task[t].tried

\* A resolver the first pass has gone by, unless it is accounted for, is still
\* backed off; and when the second pass has gone by, it is accounted for.
SkipsOnlyBackedOff(t) ==
    \A j \in 1..Len(task[t].order) :
        j < task[t].i \/ task[t].pass = 1 =>
            \/ Accounted(t, task[t].order[j])
            \/ /\ BackedOff(task[t].order[j])
               /\ task[t].pass = 0 \/ j >= task[t].i

SweepOk(t) == Sweeping(t) => AtPlace(t) /\ AsksAll(t) /\ SkipsOnlyBackedOff(t)

DnsInv == DnsTypes /\ \A t \in Threads : SweepOk(t)

-----------------------------------------------------------------------------
(***************************************************************************)
(* The ghost and the back-offs.                                            *)
(***************************************************************************)

\* A step tells thread t of every resolver that it brings back, unless the
\* thread's sweep has only begun.
TellsOf(t) ==
    \/ task'[t].tried = {} /\ ~task'[t].skipped
    \/ /\ relieved[t] \subseteq relieved'[t]
       /\ \A r \in Resolvers : BackedOff(r) => BackedOff(r)' \/ r \in relieved'[t]

LEMMA RelieveTells ==
  ASSUME NEW rs \in SUBSET Resolvers, Relieve(rs), DnsTypes,
         \A r \in Resolvers : BackedOff(r) => BackedOff(r)' \/ r \in rs
  PROVE  /\ relieved' \in [Threads -> SUBSET Resolvers]
         /\ \A t \in Threads : TellsOf(t)
<1> DEFINE fresh(t) == task'[t].tried = {} /\ ~task'[t].skipped
<1>1. relieved' = [t \in Threads |-> IF fresh(t) THEN {} ELSE relieved[t] \cup rs]
  BY DEF Relieve
<1>2. relieved \in [Threads -> SUBSET Resolvers]
  BY DEF DnsTypes
<1> HIDE DEF fresh
<1>3. ASSUME NEW t \in Threads
      PROVE  relieved'[t] = IF fresh(t) THEN {} ELSE relieved[t] \cup rs
  BY <1>1
<1>4. relieved' \in [Threads -> SUBSET Resolvers]
  BY <1>1, <1>2
<1>5. ASSUME NEW t \in Threads
      PROVE  TellsOf(t)
  BY <1>3 DEF TellsOf, fresh
<1> QED
  BY <1>4, <1>5

\* A step that leaves back-offs and ghost alone tells nothing, and has nothing to tell.
LEMMA NothingToTell ==
  ASSUME DnsTypes, UNCHANGED <<backoff, relieved>>
  PROVE  /\ relieved' \in [Threads -> SUBSET Resolvers]
         /\ \A t \in Threads : TellsOf(t)
BY DEF DnsTypes, TellsOf, BackedOff

\* An answer ends the back-off of the resolver that gave it.
LEMMA SuccessTells ==
  ASSUME NEW r \in Resolvers, NoteSuccess(r), DnsTypes
  PROVE  /\ backoff' \in [Resolvers -> Nat]
         /\ relieved' \in [Threads -> SUBSET Resolvers]
         /\ \A t \in Threads : TellsOf(t)
<1> DEFINE rs == {r} \cap {q \in Resolvers : BackedOff(q)}
<1>1. Relieve(rs) /\ rs \in SUBSET Resolvers /\ backoff' = [backoff EXCEPT ![r] = 0]
  BY DEF NoteSuccess
<1>2. backoff \in [Resolvers -> Nat]
  BY DEF DnsTypes
<1>3. \A q \in Resolvers : BackedOff(q) => BackedOff(q)' \/ q \in rs
  BY <1>1, <1>2 DEF BackedOff
<1>4. backoff' \in [Resolvers -> Nat]
  BY <1>1, <1>2
<1> HIDE DEF rs
<1> QED
  BY <1>1, <1>3, <1>4, RelieveTells

\* A failure ends no back-off.
LEMMA FailureKeeps ==
  ASSUME NEW r \in Resolvers, NoteFailure(r), DnsTypes
  PROVE  /\ backoff' \in [Resolvers -> Nat]
         /\ \A q \in Resolvers : BackedOff(q) => BackedOff(q)'
<1>1. backoff \in [Resolvers -> Nat] /\ DOH_BACKOFF_MS \in Nat \ {0}
  BY DnsConstants DEF DnsTypes
<1>2. backoff' = [backoff EXCEPT ![r] = DOH_BACKOFF_MS] \/ backoff' = backoff
  BY DEF NoteFailure
<1> QED
  BY <1>1, <1>2 DEF BackedOff

-----------------------------------------------------------------------------
(***************************************************************************)
(* What a step does to one sweep.                                          *)
(***************************************************************************)

\* Nothing anybody else does spoils a sweep.
LEMMA Bystander ==
  ASSUME NEW t \in Threads, DnsTypes, SweepOk(t), task'[t] = task[t], TellsOf(t)
  PROVE  SweepOk(t)'
<1> SUFFICES ASSUME Sweeping(t)
             PROVE  AtPlace(t)' /\ AsksAll(t)' /\ SkipsOnlyBackedOff(t)'
  BY DEF SweepOk, Sweeping
<1>1. AtPlace(t) /\ AsksAll(t) /\ SkipsOnlyBackedOff(t)
  BY DEF SweepOk
<1>2. AtPlace(t)' /\ AsksAll(t)'
  BY <1>1 DEF AtPlace, AsksAll
<1>3. \A j \in 1..Len(task[t].order) : task[t].order[j] \in Resolvers
  BY <1>1, OrderCovers DEF AtPlace
<1>4. CASE task'[t].tried = {} /\ ~task'[t].skipped
  <2>1. \A j \in 1..Len(task[t].order) : ~(j < task[t].i) /\ task[t].pass # 1
    BY <1>1, <1>4 DEF AsksAll
  <2>2. SkipsOnlyBackedOff(t)'
    BY <2>1 DEF SkipsOnlyBackedOff
  <2> QED
    BY <1>2, <2>2
<1>5. CASE /\ relieved[t] \subseteq relieved'[t]
           /\ \A r \in Resolvers : BackedOff(r) => BackedOff(r)' \/ r \in relieved'[t]
  <2>1. \A r \in Resolvers : Accounted(t, r) => Accounted(t, r)'
    BY <1>5 DEF Accounted
  <2>2. \A r \in Resolvers : BackedOff(r) => BackedOff(r)' \/ Accounted(t, r)'
    BY <1>5 DEF Accounted
  <2>3. ASSUME NEW j \in 1..Len(task[t].order), j < task[t].i \/ task[t].pass = 1
        PROVE  \/ Accounted(t, task[t].order[j])'
               \/ /\ BackedOff(task[t].order[j])'
                  /\ task[t].pass = 0 \/ j >= task[t].i
    BY <1>1, <1>3, <2>1, <2>2, <2>3 DEF SkipsOnlyBackedOff
  <2>4. SkipsOnlyBackedOff(t)'
    BY <2>3 DEF SkipsOnlyBackedOff, Accounted
  <2> QED
    BY <1>2, <2>4
<1> QED
  BY <1>2, <1>4, <1>5 DEF TellsOf

LEMMA IdleIsATask == Idle \in TaskSet /\ Idle.pc = "idle"
<1>1. (CHOOSE h \in Hosts : TRUE) \in Hosts
  BY DnsConstants
<1> QED
  BY <1>1 DEF Idle, TaskSet

\* A sweep that begins has gone by nobody.
LEMMA NewSweep ==
  ASSUME NEW t \in Threads, DnsTypes, NEW h \in Hosts,
         NEW first \in {4, 6}, NEW family \in {4, 6}, NEW o \in Orders,
         SweepStarts(t, h, first, family, o)
  PROVE  task' \in [Threads -> TaskSet] /\ SweepOk(t)'
<1> DEFINE v == [Idle EXCEPT !.pc = "pick", !.host = h, !.first = first,
                             !.family = family, !.order = o]
<1>1. task' = [task EXCEPT ![t] = v] /\ task \in [Threads -> TaskSet]
  BY DEF SweepStarts, DnsTypes
<1>2. /\ v \in TaskSet /\ v.pc = "pick" /\ v.order = o /\ v.i = 1 /\ v.pass = 0
      /\ ~v.skipped
  BY DEF TaskSet, Idle
<1> HIDE DEF v
<1>3. task'[t] = v /\ task' \in [Threads -> TaskSet]
  BY <1>1, <1>2
<1>4. Len(o) \in Nat
  BY OrderCovers
<1> QED
  BY <1>2, <1>3, <1>4
  DEF SweepOk, AtPlace, AsksAll, SkipsOnlyBackedOff

\* A thread that is out of its sweep.
LEMMA NoSweep ==
  ASSUME NEW t \in Threads, DnsTypes, NEW v \in TaskSet, v.pc \notin {"pick", "asking"},
         task' = [task EXCEPT ![t] = v]
  PROVE  task' \in [Threads -> TaskSet] /\ SweepOk(t)'
BY DEF DnsTypes, SweepOk, Sweeping

LEMMA EndedNoSweep ==
  ASSUME NEW t \in Threads, DnsTypes, NEW pc \in {"idle", "unresolved", "unreached"},
         EndsIn(t, pc)
  PROVE  task' \in [Threads -> TaskSet] /\ SweepOk(t)'
<1> DEFINE v == [Idle EXCEPT !.pc = pc]
<1>1. task' = [task EXCEPT ![t] = v] /\ v \in TaskSet /\ v.pc \notin {"pick", "asking"}
  BY IdleIsATask DEF EndsIn, TaskSet
<1> QED
  BY <1>1, NoSweep

LEMMA FoundNoSweep ==
  ASSUME NEW t \in Threads, DnsTypes, NEW h \in Hosts,
         NEW family \in {4, 6}, NEW nts \in BOOLEAN, Found(t, h, family, nts)
  PROVE  task' \in [Threads -> TaskSet] /\ SweepOk(t)'
<1> DEFINE v == [Idle EXCEPT !.pc = "connect", !.nts = nts, !.host = h, !.family = family]
<1>1. task' = [task EXCEPT ![t] = v] /\ v \in TaskSet /\ v.pc \notin {"pick", "asking"}
  BY IdleIsATask DEF Found, TaskSet
<1> QED
  BY <1>1, NoSweep

LEMMA FailedSweep ==
  ASSUME NEW t \in Threads, DnsTypes, NEW o \in Orders, SweepFails(t, o)
  PROVE  task' \in [Threads -> TaskSet] /\ SweepOk(t)'
<1>1. task[t] \in TaskSet
  BY DEF DnsTypes
<1> DEFINE h == task[t].host
           f == task[t].first
<1>2. h \in Hosts /\ f \in {4, 6} /\ Other(f) \in {4, 6}
  BY <1>1 DEF TaskSet, Other
<1>3. CASE SweepStarts(t, h, f, Other(f), o)
  <2> HIDE DEF h, f
  <2> QED
    BY <1>2, <1>3, NewSweep
<1>4. CASE task' = [task EXCEPT ![t] = [Idle EXCEPT !.pc = "system", !.host = task[t].host]]
  <2> DEFINE v == [Idle EXCEPT !.pc = "system", !.host = h]
  <2>1. v \in TaskSet /\ v.pc \notin {"pick", "asking"}
    BY <1>2, IdleIsATask DEF TaskSet
  <2> QED
    BY <1>4, <2>1, NoSweep
<1>5. CASE EndsIn(t, "unresolved")
  BY <1>5, EndedNoSweep
<1> QED
  BY <1>3, <1>4, <1>5 DEF SweepFails

-----------------------------------------------------------------------------
(***************************************************************************)
(* The steps of a sweep.                                                   *)
(***************************************************************************)

\* A thread looks at a resolver: it asks it, or passes it over with a reason.
LEMMA PickKeeps ==
  ASSUME NEW t \in Threads, DnsTypes, SweepOk(t), PickNext(t), TellsOf(t)
  PROVE  task' \in [Threads -> TaskSet] /\ SweepOk(t)'
<1> DEFINE k == task[t]
           r == Resolver(t)
<1>1. /\ k \in TaskSet /\ task \in [Threads -> TaskSet] /\ preferred \in {4, 6}
      /\ k.pc = "pick" /\ k.i <= Len(k.order)
      /\ AtPlace(t) /\ AsksAll(t) /\ SkipsOnlyBackedOff(t)
  BY DEF DnsTypes, PickNext, SweepOk, Sweeping
<1>2. /\ k.order \in Orders /\ k.i \in 1..Len(k.order) /\ r = k.order[k.i]
      /\ Len(k.order) \in Nat /\ r \in Resolvers /\ k.i \in Nat
      /\ \A j \in 1..Len(k.order) : k.order[j] \in Resolvers
  <2>1. k.order \in Orders /\ r = k.order[k.i] /\ k.i \in 1..(Len(k.order) + 1)
    BY <1>1 DEF AtPlace, Resolver
  <2>2. Len(k.order) \in Nat /\ \A j \in 1..Len(k.order) : k.order[j] \in Resolvers
    BY <2>1, OrderCovers
  <2> QED
    BY <1>1, <2>1, <2>2
<1>3. backoff' = backoff
  BY DEF PickNext, pool
<1>4. \A q \in Resolvers : BackedOff(q)' <=> BackedOff(q)
  BY <1>3 DEF BackedOff
<1>5. BackedOff(r) \in BOOLEAN
  BY <1>2 DEF BackedOff, DnsTypes
<1>6. CASE ThisPass(t, r)
  <2> DEFINE v == [k EXCEPT !.pc = "asking", !.group = preferred, !.tried = @ \cup {r}]
  <2>1. task' = [task EXCEPT ![t].pc = "asking", ![t].group = preferred,
                             ![t].tried = @ \cup {r}]
    BY <1>6 DEF PickNext
  <2>2. task' = [task EXCEPT ![t] = v] /\ v \in TaskSet
    BY <1>1, <1>2, <2>1 DEF TaskSet
  <2>3. /\ v.pc = "asking" /\ v.order = k.order /\ v.i = k.i /\ v.pass = k.pass
        /\ v.skipped = k.skipped /\ v.tried = k.tried \cup {r}
    BY <1>1 DEF TaskSet
  <2> HIDE DEF v
  <2>4. task'[t] = v /\ task' \in [Threads -> TaskSet]
    BY <1>1, <2>2
  <2>5. AtPlace(t)' /\ AsksAll(t)'
    BY <1>1, <1>2, <2>3, <2>4 DEF AtPlace, AsksAll
  <2>6. \A q \in Resolvers : Accounted(t, q) => Accounted(t, q)'
    BY <2>3, <2>4 DEF Accounted, TellsOf
  <2>7. SkipsOnlyBackedOff(t)'
    BY <1>1, <1>2, <1>4, <2>3, <2>4, <2>6 DEF SkipsOnlyBackedOff
  <2> QED
    BY <2>4, <2>5, <2>7 DEF SweepOk
<1>7. CASE ~ThisPass(t, r)
  <2> DEFINE v == [k EXCEPT !.i = @ + 1,
                            !.skipped = @ \/ (k.pass = 0 /\ BackedOff(r))]
  <2>1. task' = [task EXCEPT ![t].i = @ + 1,
                             ![t].skipped = @ \/ (task[t].pass = 0 /\ BackedOff(r))]
    BY <1>7 DEF PickNext
  <2>2. task' = [task EXCEPT ![t] = v] /\ v \in TaskSet
    <3>1. k.i + 1 \in Nat /\ k.skipped \in BOOLEAN /\ k.pass \in {0, 1}
      BY <1>1, <1>2 DEF TaskSet
    <3>2. (k.skipped \/ (k.pass = 0 /\ BackedOff(r))) \in BOOLEAN
      OBVIOUS
    <3>3. v \in TaskSet
      BY <1>1, <3>1, <3>2 DEF TaskSet
    <3>4. task' = [task EXCEPT ![t] = v]
      BY <1>1, <2>1
    <3> QED
      BY <3>3, <3>4
  <2>3. /\ v.pc = "pick" /\ v.order = k.order /\ v.i = k.i + 1 /\ v.pass = k.pass
        /\ v.skipped = (k.skipped \/ (k.pass = 0 /\ BackedOff(r))) /\ v.tried = k.tried
    BY <1>1 DEF TaskSet
  <2> HIDE DEF v
  <2>4. task'[t] = v /\ task' \in [Threads -> TaskSet]
    BY <1>1, <2>2
  <2>5. k.pass \in {0, 1} /\ k.skipped \in BOOLEAN
    BY <1>1 DEF TaskSet
  <2>6. v.skipped
    <3>1. k.pass = 1 => k.skipped
      BY <1>1, <2>5 DEF AsksAll
    <3>2. k.pass = 0 => BackedOff(r)
      BY <1>7, <1>5, <2>5 DEF ThisPass
    <3> QED
      BY <2>3, <2>5, <3>1, <3>2
  <2>7. AtPlace(t)' /\ AsksAll(t)'
    BY <1>1, <1>2, <2>3, <2>4, <2>6 DEF AtPlace, AsksAll
  <2>8. \A q \in Resolvers : Accounted(t, q) => Accounted(t, q)'
    BY <2>3, <2>4, <2>6 DEF Accounted, TellsOf
  <2>9. ASSUME NEW j \in 1..Len(k.order), j < k.i + 1 \/ k.pass = 1
        PROVE  \/ Accounted(t, k.order[j])
               \/ BackedOff(k.order[j]) /\ (k.pass = 0 \/ j >= k.i + 1)
    <3>1. CASE j = k.i
      <4>1. k.pass = 1 => ~BackedOff(r)
        BY <1>7, <1>5, <2>5 DEF ThisPass
      <4>2. k.pass = 0 => BackedOff(r)
        BY <1>7, <1>5, <2>5 DEF ThisPass
      <4>3. k.pass = 1 => Accounted(t, r)
        BY <1>1, <1>2, <4>1 DEF SkipsOnlyBackedOff
      <4> QED
        BY <1>2, <2>5, <3>1, <4>2, <4>3
    <3>2. CASE j # k.i
      <4>1. j < k.i \/ k.pass = 1
        BY <1>2, <2>9, <3>2
      <4>2. \/ Accounted(t, k.order[j])
            \/ BackedOff(k.order[j]) /\ (k.pass = 0 \/ j >= k.i)
        BY <1>1, <4>1 DEF SkipsOnlyBackedOff
      <4> QED
        BY <1>2, <3>2, <4>2
    <3> QED
      BY <3>1, <3>2
  <2>10. SkipsOnlyBackedOff(t)'
    BY <1>2, <1>4, <2>3, <2>4, <2>8, <2>9 DEF SkipsOnlyBackedOff
  <2> QED
    BY <2>4, <2>7, <2>10 DEF SweepOk
<1> QED
  BY <1>6, <1>7

\* The resolver that was asked gave no records: on to the next.
LEMMA MoveOnKeeps ==
  ASSUME NEW t \in Threads, DnsTypes, SweepOk(t), TellsOf(t), task[t].pc = "asking",
         task' = [task EXCEPT ![t].pc = "pick", ![t].i = @ + 1]
  PROVE  task' \in [Threads -> TaskSet] /\ SweepOk(t)'
<1> DEFINE k == task[t]
           v == [k EXCEPT !.pc = "pick", !.i = @ + 1]
<1>1. /\ k \in TaskSet /\ task \in [Threads -> TaskSet]
      /\ AtPlace(t) /\ AsksAll(t) /\ SkipsOnlyBackedOff(t)
  BY DEF DnsTypes, SweepOk, Sweeping
<1>2. /\ k.order \in Orders /\ k.i \in 1..Len(k.order) /\ k.order[k.i] \in k.tried
      /\ Len(k.order) \in Nat /\ k.i \in Nat
      /\ \A j \in 1..Len(k.order) : k.order[j] \in Resolvers
  <2>1. /\ k.order \in Orders /\ k.i \in 1..(Len(k.order) + 1)
        /\ k.i <= Len(k.order) /\ k.order[k.i] \in k.tried
    BY <1>1 DEF AtPlace
  <2>2. Len(k.order) \in Nat /\ \A j \in 1..Len(k.order) : k.order[j] \in Resolvers
    BY <2>1, OrderCovers
  <2> QED
    BY <2>1, <2>2
<1>3. task' = [task EXCEPT ![t] = v] /\ v \in TaskSet
  BY <1>1, <1>2 DEF TaskSet
<1>4. /\ v.pc = "pick" /\ v.order = k.order /\ v.i = k.i + 1 /\ v.pass = k.pass
      /\ v.skipped = k.skipped /\ v.tried = k.tried
  BY <1>1 DEF TaskSet
<1> HIDE DEF v
<1>5. task'[t] = v /\ task' \in [Threads -> TaskSet]
  BY <1>1, <1>3
<1>6. AtPlace(t)'
  BY <1>2, <1>4, <1>5 DEF AtPlace
<1>7. AsksAll(t)'
  <2>1. ASSUME NEW j \in 1..Len(k.order), j < k.i + 1, ~k.skipped
        PROVE  k.order[j] \in k.tried
    <3>1. j < k.i \/ j = k.i
      BY <1>2, <2>1
    <3> QED
      BY <1>1, <1>2, <2>1, <3>1 DEF AsksAll
  <2>2. ~k.skipped => k.pass = 0
    BY <1>1 DEF AsksAll
  <2> QED
    BY <1>4, <1>5, <2>1, <2>2 DEF AsksAll
<1>8. /\ \A q \in Resolvers : Accounted(t, q) => Accounted(t, q)'
      /\ \A q \in Resolvers : BackedOff(q) => BackedOff(q)' \/ Accounted(t, q)'
  BY <1>2, <1>4, <1>5 DEF Accounted, TellsOf
<1>9. ASSUME NEW j \in 1..Len(k.order), j < k.i + 1 \/ k.pass = 1
      PROVE  \/ Accounted(t, k.order[j])'
             \/ BackedOff(k.order[j])' /\ (k.pass = 0 \/ j >= k.i + 1)
  <2>1. CASE j = k.i
    BY <1>2, <1>4, <1>5, <2>1 DEF Accounted
  <2>2. CASE j # k.i
    <3>1. j < k.i \/ k.pass = 1
      BY <1>2, <1>9, <2>2
    <3>2. \/ Accounted(t, k.order[j])
          \/ BackedOff(k.order[j]) /\ (k.pass = 0 \/ j >= k.i)
      BY <1>1, <3>1 DEF SkipsOnlyBackedOff
    <3>3. j >= k.i => j >= k.i + 1
      BY <1>2, <2>2
    <3>4. (k.order[j])' = k.order[j]
      BY <1>4, <1>5
    <3> QED
      BY <1>2, <1>8, <3>2, <3>3, <3>4
  <2> QED
    BY <2>1, <2>2
<1>10. SkipsOnlyBackedOff(t)'
  BY <1>2, <1>4, <1>5, <1>9 DEF SkipsOnlyBackedOff, Accounted, BackedOff
<1> QED
  BY <1>5, <1>6, <1>7, <1>10 DEF SweepOk

\* The second pass begins where the first one did.
LEMMA SecondPassKeeps ==
  ASSUME NEW t \in Threads, DnsTypes, SweepOk(t), TellsOf(t), task[t].pc = "pick",
         task[t].i > Len(task[t].order), task[t].pass = 0, task[t].skipped,
         task' = [task EXCEPT ![t].pass = 1, ![t].i = 1]
  PROVE  task' \in [Threads -> TaskSet] /\ SweepOk(t)'
<1> DEFINE k == task[t]
           v == [k EXCEPT !.pass = 1, !.i = 1]
<1>1. /\ k \in TaskSet /\ task \in [Threads -> TaskSet]
      /\ AtPlace(t) /\ SkipsOnlyBackedOff(t)
  BY DEF DnsTypes, SweepOk, Sweeping
<1>2. /\ k.order \in Orders /\ Len(k.order) \in Nat /\ k.i \in Nat
      /\ \A j \in 1..Len(k.order) : k.order[j] \in Resolvers
  BY <1>1, OrderCovers DEF AtPlace
<1>3. task' = [task EXCEPT ![t] = v] /\ v \in TaskSet
  BY <1>1 DEF TaskSet
<1>4. /\ v.pc = "pick" /\ v.order = k.order /\ v.i = 1 /\ v.pass = 1
      /\ v.skipped = k.skipped /\ v.tried = k.tried
  BY <1>1 DEF TaskSet
<1> HIDE DEF v
<1>5. task'[t] = v /\ task' \in [Threads -> TaskSet]
  BY <1>1, <1>3
<1>6. AtPlace(t)' /\ AsksAll(t)'
  BY <1>2, <1>4, <1>5 DEF AtPlace, AsksAll
<1>7. /\ \A q \in Resolvers : Accounted(t, q) => Accounted(t, q)'
      /\ \A q \in Resolvers : BackedOff(q) => BackedOff(q)' \/ Accounted(t, q)'
  BY <1>4, <1>5 DEF Accounted, TellsOf
<1>8. ASSUME NEW j \in 1..Len(k.order)
      PROVE  Accounted(t, k.order[j])' \/ BackedOff(k.order[j])'
  <2>1. j < k.i
    BY <1>2
  <2>2. Accounted(t, k.order[j]) \/ BackedOff(k.order[j])
    BY <1>1, <2>1 DEF SkipsOnlyBackedOff
  <2>3. (k.order[j])' = k.order[j]
    BY <1>4, <1>5
  <2> QED
    BY <1>2, <1>7, <2>2, <2>3
<1>9. SkipsOnlyBackedOff(t)'
  BY <1>2, <1>4, <1>5, <1>8 DEF SkipsOnlyBackedOff, Accounted, BackedOff
<1> QED
  BY <1>5, <1>6, <1>9 DEF SweepOk

-----------------------------------------------------------------------------
(***************************************************************************)
(* The invariant is inductive.                                             *)
(***************************************************************************)

\* A step that is all right for the thread that takes it is all right.
LEMMA OneThreadMoves ==
  ASSUME NEW t \in Threads, DnsInv,
         \A s \in Threads \ {t} : task'[s] = task[s],
         routed' \in SUBSET {4, 6}, preferred' \in {4, 6}, cache' \subseteq Entry,
         backoff' \in [Resolvers -> Nat],
         task' \in [Threads -> TaskSet] /\ SweepOk(t)',
         relieved' \in [Threads -> SUBSET Resolvers] /\ \A s \in Threads : TellsOf(s)
  PROVE  DnsInv'
<1>1. DnsTypes'
  BY DEF DnsTypes
<1>2. ASSUME NEW s \in Threads \ {t}
      PROVE  SweepOk(s)'
  BY Bystander DEF DnsInv
<1> QED
  BY <1>1, <1>2 DEF DnsInv

LEMMA NobodyMoves ==
  ASSUME DnsInv, UNCHANGED task,
         routed' \in SUBSET {4, 6}, preferred' \in {4, 6}, cache' \subseteq Entry,
         backoff' \in [Resolvers -> Nat],
         relieved' \in [Threads -> SUBSET Resolvers] /\ \A s \in Threads : TellsOf(s)
  PROVE  DnsInv'
<1>1. DnsTypes'
  BY DEF DnsTypes, DnsInv
<1>2. ASSUME NEW s \in Threads
      PROVE  SweepOk(s)'
  BY Bystander DEF DnsInv
<1> QED
  BY <1>1, <1>2 DEF DnsInv

LEMMA DnsInitInv == Init => DnsInv
<1> SUFFICES ASSUME Init
             PROVE  DnsInv
  OBVIOUS
<1>1. Idle \in TaskSet /\ Idle.pc = "idle"
  BY IdleIsATask
<1>2. DnsTypes
  <2> HIDE DEF Idle
  <2> QED
    BY <1>1 DEF Init, DnsTypes
<1>3. ASSUME NEW t \in Threads
      PROVE  SweepOk(t)
  <2> HIDE DEF Idle
  <2> QED
    BY <1>1 DEF Init, SweepOk, Sweeping
<1> QED
  BY <1>2, <1>3 DEF DnsInv

\* The families of the addresses that were reached.
LEMMA ReachedFamilies ==
  ASSUME NEW t \in Threads, DnsTypes
  PROVE  Reached(t) \subseteq {4, 6}
<1>1. task[t] \in TaskSet
  BY DEF DnsTypes
<1>2. task[t].group \in {4, 6} /\ Other(task[t].group) \in {4, 6}
  BY <1>1 DEF TaskSet, Other
<1> QED
  BY <1>2 DEF Reached

\* What the cache takes in, and what it keeps as time passes, are addresses.
LEMMA CacheKeeps ==
  ASSUME DnsTypes
  PROVE  /\ \A h \in Hosts, ttl \in Ttls : \A f \in Families[h] :
                CacheInsert(h, f, ttl) \subseteq Entry
         /\ \A h \in Hosts : Invalidate(h) \subseteq Entry
         /\ {[e EXCEPT !.left = @ - 1] : e \in {d \in cache : d.left > 1}} \subseteq Entry
<1>1. cache \subseteq Entry
  BY DEF DnsTypes
<1>2. ASSUME NEW h \in Hosts, NEW ttl \in Ttls, NEW f \in Families[h]
      PROVE  CacheInsert(h, f, ttl) \subseteq Entry
  <2> DEFINE new == [host |-> h, family |-> f, left |-> Clamp(ttl)]
             others == cache \ Cached(h)
  <2>1. f \in {4, 6} /\ Clamp(ttl) \in Nat
    BY DnsConstants DEF Clamp
  <2>2. new \in Entry
    BY <2>1 DEF Entry
  <2>3. others \subseteq Entry
    BY <1>1
  <2>4. \E x : CacheInsert(h, f, ttl) = others \cup {new}
               \/ CacheInsert(h, f, ttl) = (others \ {x}) \cup {new}
    BY DEF CacheInsert
  <2> HIDE DEF new, others
  <2> QED
    BY <2>2, <2>3, <2>4
<1>3. ASSUME NEW h \in Hosts
      PROVE  Invalidate(h) \subseteq Entry
  BY <1>1 DEF Invalidate
<1>4. ASSUME NEW e \in {d \in cache : d.left > 1}
      PROVE  [e EXCEPT !.left = @ - 1] \in Entry
  BY <1>1 DEF Entry
<1> QED
  BY <1>2, <1>3, <1>4

LEMMA StepKeeps ==
  ASSUME DnsInv, NEW t \in Threads, Step(t)
  PROVE  DnsInv'
<1>1. /\ DnsTypes /\ SweepOk(t) /\ task \in [Threads -> TaskSet] /\ task[t] \in TaskSet
      /\ routed \in SUBSET {4, 6} /\ preferred \in {4, 6} /\ backoff \in [Resolvers -> Nat]
      /\ cache \subseteq Entry
  BY DEF DnsInv, DnsTypes
<1> DEFINE tells == /\ relieved' \in [Threads -> SUBSET Resolvers]
                    /\ \A s \in Threads : TellsOf(s)
           moves == task' \in [Threads -> TaskSet] /\ SweepOk(t)'
           alone == \A s \in Threads \ {t} : task'[s] = task[s]
           types == /\ routed' \in SUBSET {4, 6} /\ preferred' \in {4, 6}
                    /\ cache' \subseteq Entry /\ backoff' \in [Resolvers -> Nat]
<1>2. ASSUME backoff' = backoff, Relieve({})
      PROVE  tells
  <2>1. \A r \in Resolvers : BackedOff(r) => BackedOff(r)'
    BY <1>2 DEF BackedOff
  <2> QED
    BY <1>1, <1>2, <2>1, RelieveTells
<1>3. ASSUME UNCHANGED <<backoff, relieved>>
      PROVE  tells
  BY <1>1, <1>3, NothingToTell
<1>4. task[t].pc = "asking" => Resolver(t) \in Resolvers
  <2> SUFFICES ASSUME task[t].pc = "asking"
               PROVE  Resolver(t) \in Resolvers
    OBVIOUS
  <2>1. AtPlace(t)
    BY <1>1 DEF SweepOk, Sweeping
  <2>2. /\ task[t].order \in Orders /\ task[t].i \in 1..(Len(task[t].order) + 1)
        /\ task[t].i <= Len(task[t].order)
    BY <2>1 DEF AtPlace
  <2>3. Len(task[t].order) \in Nat
    BY <2>2, OrderCovers
  <2>4. task[t].i \in 1..Len(task[t].order)
    BY <2>2, <2>3
  <2> QED
    BY <2>2, <2>4, OrderCovers DEF Resolver
<1>5. Reached(t) \subseteq {4, 6}
  BY <1>1, ReachedFamilies
<1>6. task[t].host \in Hosts /\ task[t].family \in {4, 6}
  BY <1>1 DEF TaskSet
<1>7. \A r \in Resolvers : NoteSuccess(r) => tells /\ backoff' \in [Resolvers -> Nat]
  BY <1>1, SuccessTells
<1>8. ASSUME NEW r \in Resolvers, NoteFailure(r), Relieve({})
      PROVE  tells /\ backoff' \in [Resolvers -> Nat]
  <2>1. /\ backoff' \in [Resolvers -> Nat]
        /\ \A q \in Resolvers : BackedOff(q) => BackedOff(q)'
    BY <1>1, <1>8, FailureKeeps
  <2> QED
    BY <1>1, <1>8, <2>1, RelieveTells
<1>9. SUFFICES types /\ alone /\ moves /\ tells
  BY OneThreadMoves
<1>10. CASE \E h \in Hosts, o \in Orders : Lookup(t, h, o)
  <2> PICK h \in Hosts, o \in Orders : Lookup(t, h, o)
    BY <1>10
  <2>1. types /\ tells
    BY <1>1, <1>2 DEF Lookup, pool
  <2>2. CASE Cached(h) # {}
    <3>1. PICK e \in Cached(h), nts \in BOOLEAN : Found(t, h, e.family, nts)
      BY <2>2 DEF Lookup
    <3>2. e.family \in {4, 6}
      BY <1>1 DEF Cached, Entry
    <3>3. moves
      BY <1>1, <3>1, <3>2, FoundNoSweep
    <3>4. alone
      BY <1>1, <3>1 DEF Found
    <3> QED
      BY <2>1, <3>3, <3>4
  <2>3. CASE Cached(h) = {}
    <3>1. SweepStarts(t, h, preferred, preferred, o)
      BY <2>3 DEF Lookup
    <3>2. moves
      BY <1>1, <3>1, NewSweep
    <3>3. alone
      BY <1>1, <3>1 DEF SweepStarts
    <3> QED
      BY <2>1, <3>2, <3>3
  <2> QED
    BY <2>2, <2>3
<1>11. CASE PickNext(t)
  <2>1. types /\ tells
    BY <1>1, <1>2, <1>11 DEF PickNext, pool
  <2>2. moves
    BY <1>1, <1>11, <2>1, PickKeeps
  <2>3. alone
    BY <1>1, <1>11 DEF PickNext
  <2> QED
    BY <2>1, <2>2, <2>3
<1>12. CASE \E o \in Orders : PassEnds(t, o)
  <2> PICK o \in Orders : PassEnds(t, o)
    BY <1>12
  <2>1. types /\ tells
    BY <1>1, <1>2 DEF PassEnds, pool
  <2>2. CASE task[t].pass = 0 /\ task[t].skipped
    <3>1. /\ task[t].pc = "pick" /\ task[t].i > Len(task[t].order)
          /\ task' = [task EXCEPT ![t].pass = 1, ![t].i = 1]
      BY <2>2 DEF PassEnds
    <3>2. moves
      BY <1>1, <2>1, <2>2, <3>1, SecondPassKeeps
    <3> QED
      BY <1>1, <2>1, <3>1, <3>2
  <2>3. CASE ~(task[t].pass = 0 /\ task[t].skipped)
    <3>1. SweepFails(t, o)
      BY <2>3 DEF PassEnds
    <3>2. moves
      BY <1>1, <3>1, FailedSweep
    <3>3. alone
      BY <1>1, <3>1 DEF SweepFails, SweepStarts, EndsIn
    <3> QED
      BY <2>1, <3>2, <3>3
  <2> QED
    BY <2>2, <2>3
<1>13. CASE \E o \in Orders : AnswerEmpty(t, o)
  <2> PICK o \in Orders : AnswerEmpty(t, o)
    BY <1>13
  <2>1. /\ task[t].pc = "asking" /\ SweepFails(t, o) /\ NoteSuccess(Resolver(t))
        /\ preferred' \in Reached(t) /\ UNCHANGED <<routed, cache>>
    BY DEF AnswerEmpty
  <2>2. tells /\ types
    BY <1>1, <1>4, <1>5, <1>7, <2>1
  <2>3. moves
    BY <1>1, <2>1, FailedSweep
  <2>4. alone
    BY <1>1, <2>1 DEF SweepFails, SweepStarts, EndsIn
  <2> QED
    BY <2>2, <2>3, <2>4
<1>14. CASE \E ttl \in Ttls : AnswerRecords(t, ttl)
  <2> PICK ttl \in Ttls : AnswerRecords(t, ttl)
    BY <1>14
  <2> DEFINE h == task[t].host
             f == task[t].family
  <2>1. /\ task[t].pc = "asking" /\ f \in Families[h] /\ NoteSuccess(Resolver(t))
        /\ \E nts \in BOOLEAN : Found(t, h, f, nts)
        /\ preferred' \in Reached(t) /\ cache' = CacheInsert(h, f, ttl) /\ routed' = routed
    BY DEF AnswerRecords
  <2> HIDE DEF h, f
  <2>2. tells /\ backoff' \in [Resolvers -> Nat]
    BY <1>4, <1>7, <2>1
  <2>3. moves
    BY <1>1, <1>6, <2>1, FoundNoSweep DEF h, f
  <2>4. alone
    BY <1>1, <2>1 DEF Found
  <2>5. cache' \subseteq Entry
    BY <1>1, <1>6, <2>1, CacheKeeps DEF h, f
  <2> QED
    BY <1>1, <1>5, <2>1, <2>2, <2>3, <2>4, <2>5
<1>15. CASE AnswerError(t)
  <2>1. /\ task[t].pc = "asking" /\ NoteSuccess(Resolver(t))
        /\ task' = [task EXCEPT ![t].pc = "pick", ![t].i = @ + 1]
        /\ preferred' \in Reached(t) /\ UNCHANGED <<routed, cache>>
    BY <1>15 DEF AnswerError
  <2>2. tells /\ types
    BY <1>1, <1>4, <1>5, <1>7, <2>1
  <2>3. moves
    BY <1>1, <2>1, <2>2, MoveOnKeeps
  <2> QED
    BY <1>1, <2>1, <2>2, <2>3
<1>16. CASE AnswerFails(t)
  <2>1. /\ task[t].pc = "asking" /\ NoteFailure(Resolver(t)) /\ Relieve({})
        /\ task' = [task EXCEPT ![t].pc = "pick", ![t].i = @ + 1]
        /\ preferred' \in {preferred} \cup (IF Storm THEN {4, 6} ELSE routed)
        /\ UNCHANGED <<routed, cache>>
    BY <1>16 DEF AnswerFails
  <2>2. tells /\ types
    BY <1>1, <1>4, <1>8, <2>1
  <2>3. moves
    BY <1>1, <2>1, <2>2, MoveOnKeeps
  <2> QED
    BY <1>1, <2>1, <2>2, <2>3
<1>17. CASE SystemLookup(t)
  <2> DEFINE h == task[t].host
             f == IF preferred \in Families[h] THEN preferred ELSE Other(preferred)
  <2>1. Found(t, h, f, TRUE) \/ EndsIn(t, "unresolved")
    BY <1>17 DEF SystemLookup
  <2>2. f \in {4, 6}
    BY <1>1 DEF Other
  <2> HIDE DEF f
  <2>3. moves
    BY <1>1, <1>6, <2>1, <2>2, FoundNoSweep, EndedNoSweep
  <2>4. alone
    BY <1>1, <2>1 DEF Found, EndsIn
  <2>5. types /\ tells
    BY <1>1, <1>3, <1>17 DEF SystemLookup, pool
  <2> QED
    BY <2>3, <2>4, <2>5
<1>18. CASE Connects(t)
  <2>1. moves
    BY <1>1, <1>18, EndedNoSweep DEF Connects
  <2>2. alone
    BY <1>1, <1>18 DEF Connects, EndsIn
  <2>3. types /\ tells
    BY <1>1, <1>3, <1>18 DEF Connects, pool
  <2> QED
    BY <2>1, <2>2, <2>3
<1>19. CASE ConnectFails(t)
  <2>1. moves
    BY <1>1, <1>19, EndedNoSweep DEF ConnectFails
  <2>2. alone
    BY <1>1, <1>19 DEF ConnectFails, EndsIn
  <2>3. cache' \subseteq Entry
    BY <1>1, <1>19 DEF ConnectFails, Invalidate
  <2>4. types /\ tells
    BY <1>1, <1>3, <1>19, <2>3 DEF ConnectFails, pool
  <2> QED
    BY <2>1, <2>2, <2>4
<1> QED
  BY <1>10, <1>11, <1>12, <1>13, <1>14, <1>15, <1>16, <1>17, <1>18, <1>19 DEF Step

\* The passing of time, the network and the workers that are not followed.
LEMMA WorldKeeps ==
  ASSUME DnsInv, Tick \/ OtherWorker \/ (\E n \in Networks \cup {{}} : Weather(n))
  PROVE  DnsInv'
<1>1. /\ DnsTypes /\ cache \subseteq Entry
      /\ routed \in SUBSET {4, 6} /\ preferred \in {4, 6} /\ backoff \in [Resolvers -> Nat]
  BY DEF DnsInv, DnsTypes
<1> DEFINE tells == /\ relieved' \in [Threads -> SUBSET Resolvers]
                    /\ \A s \in Threads : TellsOf(s)
           types == /\ routed' \in SUBSET {4, 6} /\ preferred' \in {4, 6}
                    /\ cache' \subseteq Entry /\ backoff' \in [Resolvers -> Nat]
<1>2. ASSUME backoff' = backoff, Relieve({})
      PROVE  tells
  <2>1. \A r \in Resolvers : BackedOff(r) => BackedOff(r)'
    BY <1>2 DEF BackedOff
  <2> QED
    BY <1>1, <1>2, <2>1, RelieveTells
<1>3. UNCHANGED task
  BY DEF Tick, OtherWorker, Weather
<1>4. SUFFICES types /\ tells
  BY <1>3, NobodyMoves
<1>5. CASE Tick
  <2> DEFINE rs == {r \in Resolvers : backoff[r] = 1}
  <2>1. backoff' = [r \in Resolvers |-> IF backoff[r] > 0 THEN backoff[r] - 1 ELSE 0]
    BY <1>5 DEF Tick
  <2>2. backoff' \in [Resolvers -> Nat]
    BY <1>1, <2>1
  <2>3. \A r \in Resolvers : BackedOff(r) => BackedOff(r)' \/ r \in rs
    BY <1>1, <2>1 DEF BackedOff
  <2>4. Relieve(rs) /\ rs \in SUBSET Resolvers
    BY <1>5 DEF Tick
  <2> HIDE DEF rs
  <2>5. tells
    BY <1>1, <2>3, <2>4, RelieveTells
  <2>6. types
    BY <1>1, <1>5, <2>2, CacheKeeps DEF Tick
  <2> QED
    BY <2>5, <2>6
<1>6. CASE \E n \in Networks \cup {{}} : Weather(n)
  <2>1. routed' \in SUBSET {4, 6} /\ UNCHANGED <<backoff, preferred, cache, relieved>>
    BY <1>6, DnsConstants DEF Weather, pool
  <2> QED
    BY <1>1, <2>1, NothingToTell
<1>7. CASE OtherWorker
  <2>1. CASE preferred' \in (IF Storm THEN {4, 6} ELSE routed)
             /\ UNCHANGED <<pool, cache>> /\ Relieve({})
    BY <1>1, <1>2, <1>7, <2>1 DEF OtherWorker, pool
  <2>2. CASE UNCHANGED <<fails, backoff, preferred, cache>> /\ Relieve({})
    BY <1>1, <1>2, <1>7, <2>2 DEF OtherWorker
  <2>3. CASE \E r \in Resolvers :
               /\ \/ NoteSuccess(r)
                  \/ NoteFailure(r) /\ Relieve({})
               /\ UNCHANGED <<h1only, preferred, cache>>
    <3>1. PICK r \in Resolvers : /\ \/ NoteSuccess(r)
                                    \/ NoteFailure(r) /\ Relieve({})
                                 /\ UNCHANGED <<preferred, cache>>
      BY <2>3
    <3>2. routed' = routed
      BY <1>7 DEF OtherWorker
    <3>3. CASE NoteSuccess(r)
      BY <1>1, <3>1, <3>2, <3>3, SuccessTells
    <3>4. CASE NoteFailure(r) /\ Relieve({})
      <4>1. /\ backoff' \in [Resolvers -> Nat]
            /\ \A q \in Resolvers : BackedOff(q) => BackedOff(q)'
        BY <1>1, <3>4, FailureKeeps
      <4>2. tells
        BY <1>1, <3>4, <4>1, RelieveTells
      <4> QED
        BY <1>1, <3>1, <3>2, <4>1, <4>2
    <3> QED
      BY <3>1, <3>3, <3>4
  <2>4. CASE /\ \E h \in Hosts :
                   \/ \E f \in Families[h], ttl \in Ttls :
                         (Storm \/ f \in routed) /\ cache' = CacheInsert(h, f, ttl)
                   \/ cache' = Invalidate(h)
             /\ UNCHANGED <<pool, preferred>> /\ Relieve({})
    <3>1. cache' \subseteq Entry
      BY <1>1, <2>4, CacheKeeps
    <3> QED
      BY <1>1, <1>2, <1>7, <2>4, <3>1 DEF OtherWorker, pool
  <2> QED
    BY <1>7, <2>1, <2>2, <2>3, <2>4 DEF OtherWorker
<1> QED
  BY <1>5, <1>6, <1>7

LEMMA DnsNextInv == DnsInv /\ [Next]_vars => DnsInv'
<1> SUFFICES ASSUME DnsInv, [Next]_vars
             PROVE  DnsInv'
  OBVIOUS
<1>1. CASE UNCHANGED vars
  <2>1. UNCHANGED <<routed, backoff, preferred, cache, task, relieved>>
    BY <1>1 DEF vars, pool
  <2>2. DnsTypes
    BY DEF DnsInv
  <2>3. /\ relieved' \in [Threads -> SUBSET Resolvers]
        /\ \A s \in Threads : TellsOf(s)
    BY <2>1, <2>2, NothingToTell
  <2>4. /\ routed' \in SUBSET {4, 6} /\ preferred' \in {4, 6}
        /\ cache' \subseteq Entry /\ backoff' \in [Resolvers -> Nat]
    BY <2>1, <2>2 DEF DnsTypes
  <2> QED
    BY <2>1, <2>3, <2>4, NobodyMoves
<1>2. CASE \E t \in Threads : Step(t)
  BY <1>2, StepKeeps
<1>3. CASE Tick \/ OtherWorker \/ (\E n \in Networks \cup {{}} : Weather(n))
  BY <1>3, WorldKeeps
<1> QED
  BY <1>1, <1>2, <1>3 DEF Next

\* When a sweep gives up, its order has been gone through.
LEMMA EndOfSweep == DnsInv => NeverStranded
<1> SUFFICES ASSUME DnsInv, NEW t \in Threads,
                    task[t].pc = "pick", task[t].i > Len(task[t].order),
                    ~(task[t].pass = 0 /\ task[t].skipped)
             PROVE  Resolvers = task[t].tried \cup relieved[t]
  BY DEF NeverStranded
<1>1. /\ task[t] \in TaskSet /\ relieved[t] \subseteq Resolvers
      /\ AtPlace(t) /\ AsksAll(t) /\ SkipsOnlyBackedOff(t)
  BY DEF DnsInv, DnsTypes, SweepOk, Sweeping
<1>2. task[t].tried \subseteq Resolvers /\ task[t].pass \in {0, 1} /\ task[t].i \in Nat
  BY <1>1 DEF TaskSet
<1>3. task[t].order \in Orders
  BY <1>1 DEF AtPlace
<1>4. Len(task[t].order) \in Nat
  BY <1>3, OrderCovers
<1>5. ASSUME NEW r \in Resolvers
      PROVE  Accounted(t, r)
  <2>1. PICK j \in 1..Len(task[t].order) : task[t].order[j] = r
    BY <1>3, OrderCovers
  <2>2. j < task[t].i /\ ~(j >= task[t].i)
    BY <1>2, <1>4
  <2>3. CASE ~task[t].skipped
    BY <1>1, <2>1, <2>2, <2>3 DEF AsksAll, Accounted
  <2>4. CASE task[t].pass = 1
    BY <1>1, <2>1, <2>2, <2>4 DEF SkipsOnlyBackedOff
  <2> QED
    BY <1>2, <2>3, <2>4
<1> QED
  BY <1>1, <1>2, <1>5 DEF Accounted

\* dns.c: "a back-off can never strand a lookup" (PickNext, PassEnds).  Whatever the other
\* workers do to the back-offs in the meantime, a sweep that gives up has asked every
\* resolver of the pool, or one came out of its back-off while the sweep was under way.
THEOREM BackOffStrandsNobody == Spec => []NeverStranded
<1>1. Init => DnsInv
  BY DnsInitInv
<1>2. DnsInv /\ [Next]_vars => DnsInv'
  BY DnsNextInv
<1>3. DnsInv => NeverStranded
  BY EndOfSweep
<1> QED
  BY <1>1, <1>2, <1>3, PTL DEF Spec
=============================================================================
