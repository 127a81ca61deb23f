------------------------- MODULE ProcessCacheProofs -------------------------
(***************************************************************************)
(* Proofs about ProcessCache, for any threads, process ids, reports and      *)
(* limits.                                                                   *)
(***************************************************************************)
EXTENDS ProcessCache, FiniteSetTheorems, TLAPS

\* Unsigned arithmetic shows only when a difference is negative.
LEMMA NoWrap ==
  ASSUME NEW a \in Ages, NEW c \in Ages, c <= a
  PROVE  (a - c) % TickRange = a - c
<1>1. a - c \in 0..(TickRange - 1)
  BY ConstantsAssumption DEF Ages, AgeCap
<1> QED
  BY <1>1, ConstantsAssumption, SMTT(30)

\* What one update of the cache leaves.
LEMMA Updated ==
  ASSUME TypeOK, NEW t \in Threads, NEW p \in Pids, NEW n \in Gens, NEW c \in Gens,
         CacheProcessContext(t, p, n, c)
  PROVE  /\ cached' \subseteq Pids /\ Cardinality(cached') <= MaxEntries
         /\ name' \in [Pids -> Gens] /\ cmd' \in [Pids -> Gens]
         /\ age' \in [Pids -> Ages]
         /\ \A q \in cached \ cached' : EvictedFor(t, q)
<1> DEFINE ages == [age EXCEPT ![p] = clock[t]]
           all == cached \cup {p}
           fresh == {q \in all : Elapsed(t, ages, q) <= Ttl}
<1>1. PICK ids \in Prune(t, all, ages) :
        /\ cached' = ids
        /\ name' = Clear([name EXCEPT ![p] = Merged(@, n)], ids)
        /\ cmd' = Clear([cmd EXCEPT ![p] = Merged(@, c)], ids)
        /\ age' = Clear(ages, ids)
  BY DEF CacheProcessContext
<1>2. clock[t] \in Ages /\ 0 \in Ages
  BY ConstantsAssumption DEF TypeOK, Ages, AgeCap
<1>3. ages \in [Pids -> Ages]
  BY <1>2 DEF TypeOK
<1>4. ids \subseteq fresh /\ fresh \subseteq Pids
  BY DEF Prune, TypeOK
<1>5. IsFiniteSet(fresh) /\ Cardinality(fresh) \in Nat
  BY <1>4, ConstantsAssumption, FS_Subset, FS_CardinalityType
<1>6. Cardinality(ids) <= MaxEntries
  <2>1. CASE Cardinality(fresh) <= MaxEntries
    BY <2>1 DEF Prune
  <2>2. CASE ~(Cardinality(fresh) <= MaxEntries)
    <3>1. Cardinality(ids) = MaxEntries
      BY <2>2 DEF Prune
    <3> QED
      BY <3>1, ConstantsAssumption
  <2> QED
    BY <2>1, <2>2
<1>7. ASSUME NEW q \in cached \ cached' PROVE EvictedFor(t, q)
  <2>1. q \in Pids /\ q \in all /\ q \notin ids /\ age[q] \in Ages /\ ages[q] \in Ages
    BY <1>1, <1>3 DEF TypeOK
  <2>2. SUFFICES ASSUME clock[t] <= age[q] PROVE EvictedFor(t, q)
    BY <1>2, <2>1 DEF EvictedFor, Ages
  <2>3. ages[q] = (IF q = p THEN clock[t] ELSE age[q])
    BY <2>1 DEF TypeOK
  <2>4. ages[q] <= age[q] /\ clock[t] <= ages[q]
    BY <1>2, <2>1, <2>2, <2>3 DEF Ages
  <2>5. Elapsed(t, ages, q) = ages[q] - clock[t]
    BY <1>2, <2>1, <2>4, NoWrap DEF Elapsed
  <2>6. CASE q \notin fresh
    <3>1. ages[q] - clock[t] > Ttl
      BY <1>2, <2>1, <2>5, <2>6, ConstantsAssumption DEF Ages, AgeCap
    <3> QED
      BY <1>2, <2>1, <2>4, <3>1, ConstantsAssumption DEF EvictedFor, Ages, AgeCap
  <2>7. CASE q \in fresh
    <3>1. ids # fresh
      BY <2>1, <2>7
    <3>2. Cardinality(ids) = MaxEntries /\ \A r \in ids : ages[r] <= ages[q]
      BY <1>1, <2>1, <2>7, <3>1 DEF Prune
    <3>3. ASSUME NEW r \in ids PROVE age'[r] <= age[q]
      <4>1. age'[r] = ages[r] /\ ages[r] \in Ages
        BY <1>1, <1>3, <1>4 DEF Clear
      <4> QED
        BY <2>1, <2>4, <3>2, <4>1 DEF Ages
    <3> DEFINE near == {r \in cached' : age'[r] <= age[q]}
    <3>4. near = ids
      BY <1>1, <3>3
    <3>5. Cardinality(ids) >= MaxEntries
      BY <3>2, ConstantsAssumption
    <3>6. Cardinality(near) >= MaxEntries
      <4> HIDE DEF near
      <4> QED
        BY <3>4, <3>5
    <3> QED
      BY <3>6 DEF EvictedFor
  <2> QED
    BY <2>6, <2>7
<1>8. name' \in [Pids -> Gens] /\ cmd' \in [Pids -> Gens]
  BY <1>1 DEF Clear, Merged, TypeOK, Gens
<1>9. age' \in [Pids -> Ages]
  BY <1>1, <1>2, <1>3 DEF Clear
<1> QED
  BY <1>1, <1>4, <1>6, <1>7, <1>8, <1>9

-----------------------------------------------------------------------------
\* An update takes place with the arguments the threads give.
LEMMA Updates ==
  ASSUME TypeOK, NEW t \in Threads
  PROVE  /\ Child(t) \in Pids /\ Parent(t) \in Pids
         /\ childName[t] \in Gens /\ parentName[t] \in Gens /\ parentCmd[t] \in Gens
         /\ whoGen[t][1] \in Gens /\ whoGen[t][2] \in Gens
         /\ 0 \in Gens /\ clock[t] \in 0..MaxDelay
  BY DEF TypeOK, Child, Parent, Gens

\* The types: a tick count never passes the bounds, and the cache never holds
\* more than it may.
LEMMA TypeStep == TypeOK /\ [Next]_vars => TypeOK'
<1> SUFFICES ASSUME TypeOK, [Next]_vars PROVE TypeOK'
  OBVIOUS
<1> USE DEF TypeOK, At, Labels
<1>a. Observer \in Threads /\ Workers \subseteq Threads /\ Root \in Pids
  BY ConstantsAssumption DEF Threads
<1>b. 0 \in Gens /\ 0 \in 0..MaxDelay
  BY ConstantsAssumption DEF Gens
<1>1. ASSUME NEW t \in Workers, NEW cp \in Creations, NEW fields \in Reports[cp[1]],
             Create(t, cp[1], cp[2], fields)
      PROVE  TypeOK'
  <2>1. cp[1] \in Pids /\ cp[2] \in Pids /\ fields \subseteq Fields
    BY ConstantsAssumption
  <2>2. gen[cp[1]] + 1 \in Gens /\ gen[cp[2]] \in Gens
    BY <2>1 DEF Gens
  <2> QED
    BY <1>1, <1>a, <2>1, <2>2 DEF Create, cache, locals
<1>2. ASSUME NEW t \in Workers, Expire(t) PROVE TypeOK'
  BY <1>2, <1>a DEF Expire, Waiting, Busy, cache, request, locals, Child, Parent
<1>3. ASSUME NEW p \in Reported, NEW fields \in Observed, Observe(p, fields) PROVE TypeOK'
  <2>1. p \in Pids /\ fields \subseteq Fields
    BY ConstantsAssumption DEF Fields
  <2> QED
    BY <1>3, <1>a, <1>b, <2>1 DEF Observe, system, cache
<1>4. ASSUME NEW p \in Pids, Exit(p) PROVE TypeOK'
  BY <1>4 DEF Exit, cache, request, locals
<1>5. ASSUME Tick PROVE TypeOK'
  <2>1. age' \in [Pids -> Ages]
    BY <1>5, ConstantsAssumption DEF Tick, Ages, AgeCap
  <2>2. clock' \in [Threads -> 0..MaxDelay]
    BY <1>5, ConstantsAssumption DEF Tick
  <2> QED
    BY <1>5, <2>1, <2>2 DEF Tick, system, request, locals
<1>6. ASSUME NEW t \in Workers, Names(t) PROVE TypeOK'
  <2>1. t \in Threads
    BY <1>a
  <2>2. Child(t) \in Pids /\ Parent(t) \in Pids
    BY <2>1, Updates
  <2>3. whoGen[t][1] \in Gens /\ whoGen[t][2] \in Gens
    BY <2>1, Updates
  <2> QED
    BY <1>6, <1>b, <2>1, <2>2, <2>3 DEF Names, NameOf, system, cache, request
<1>7. ASSUME NEW t \in Workers, CacheChild(t) PROVE TypeOK'
  <2>1. t \in Threads
    BY <1>a
  <2>2. (IF "childCmd" \in given[t] THEN whoGen[t][1] ELSE 0) \in Gens
    BY <2>1, Updates
  <2>3. Child(t) \in Pids /\ childName[t] \in Gens
    BY <2>1, Updates
  <2>4. CacheProcessContext(t, Child(t), childName[t],
                            IF "childCmd" \in given[t] THEN whoGen[t][1] ELSE 0)
    BY <1>7 DEF CacheChild
  <2>5. /\ cached' \subseteq Pids /\ Cardinality(cached') <= MaxEntries
        /\ name' \in [Pids -> Gens] /\ cmd' \in [Pids -> Gens] /\ age' \in [Pids -> Ages]
    BY <2>1, <2>2, <2>3, <2>4, Updated
  <2> QED
    BY <1>7, <1>b, <2>1, <2>5 DEF CacheChild, system, request, locals
<1>8. ASSUME CacheObserved PROVE TypeOK'
  <2>2. (IF "childCmd" \in given[Observer] THEN whoGen[Observer][1] ELSE 0) \in Gens
    BY <1>a, Updates
  <2>3. Child(Observer) \in Pids /\ childName[Observer] \in Gens
    BY <1>a, Updates
  <2>4. CacheProcessContext(Observer, Child(Observer), childName[Observer],
                 IF "childCmd" \in given[Observer] THEN whoGen[Observer][1] ELSE 0)
    BY <1>8 DEF CacheObserved
  <2>5. /\ cached' \subseteq Pids /\ Cardinality(cached') <= MaxEntries
        /\ name' \in [Pids -> Gens] /\ cmd' \in [Pids -> Gens] /\ age' \in [Pids -> Ages]
    BY <1>a, <2>2, <2>3, <2>4, Updated
  <2> QED
    BY <1>8, <1>a, <1>b, <2>5 DEF CacheObserved, Finish, None, system
<1>9. ASSUME NEW t \in Workers, CacheParent(t) PROVE TypeOK'
  <2>1. t \in Threads
    BY <1>a
  <2>3. Parent(t) \in Pids /\ parentName[t] \in Gens /\ parentCmd[t] \in Gens
    BY <2>1, Updates
  <2>4. CacheProcessContext(t, Parent(t), parentName[t], parentCmd[t])
    BY <1>9 DEF CacheParent
  <2>5. /\ cached' \subseteq Pids /\ Cardinality(cached') <= MaxEntries
        /\ name' \in [Pids -> Gens] /\ cmd' \in [Pids -> Gens] /\ age' \in [Pids -> Ages]
    BY <2>1, <2>3, <2>4, Updated
  <2> QED
    BY <1>9, <1>b, <2>1, <2>5 DEF CacheParent, system, request, locals
<1>10. ASSUME NEW t \in Workers, CommandLine(t) PROVE TypeOK'
  <2>1. t \in Threads /\ Parent(t) \in Pids
    BY <1>a, Updates
  <2> QED
    BY <1>10, <2>1 DEF CommandLine, system, cache, request
<1>11. ASSUME NEW t \in Workers, Reply(t) PROVE TypeOK'
  <2>1. t \in Threads /\ Child(t) \in Pids
    BY <1>a, Updates
  <2> QED
    BY <1>11, <1>a, <1>b, <2>1 DEF Reply, Finish, None, cache
<1>12. CASE UNCHANGED vars
  BY <1>12 DEF vars, system, cache, request, locals
<1> QED
  BY <1>1, <1>2, <1>3, <1>4, <1>5, <1>6, <1>7, <1>8, <1>9, <1>10, <1>11, <1>12
  DEF Next, Worker

\* The cache is empty at the start.
LEMMA InitTypes == Init => TypeOK
<1> SUFFICES ASSUME Init PROVE TypeOK
  OBVIOUS
<1>1. Cardinality(cached) = 0
  BY FS_EmptySet DEF Init
<1> QED
  BY <1>1, ConstantsAssumption
  DEF Init, TypeOK, None, Labels, Gens, Ages, AgeCap, Threads

\* The program never leaves its types, and the cache never holds more than
\* kMaxProcessCacheEntries (677-699).
THEOREM CacheTypeCorrect == Spec => []TypeOK
BY InitTypes, TypeStep, PTL DEF Spec

-----------------------------------------------------------------------------
\* An entry is never lost without a reason: it is too old, others are as new,
\* or the clock of the thread that prunes is older than the entry (677-699).
THEOREM EntriesEvictedForCause == Spec => EvictedForCause
<1> DEFINE Cause == \A p \in cached \ cached' : \E t \in ReadClock : EvictedFor(t, p)
<1>1. ASSUME TypeOK, [Next]_vars PROVE [Cause]_vars
  <2> SUFFICES ASSUME Next, cached' # cached PROVE Cause
    BY <1>1 DEF vars, cache
  <2>1. ASSUME NEW t \in Workers, CacheChild(t) PROVE Cause
    <3>1. t \in Threads
      BY DEF Threads
    <3>2. Child(t) \in Pids /\ childName[t] \in Gens
          /\ (IF "childCmd" \in given[t] THEN whoGen[t][1] ELSE 0) \in Gens
      BY <1>1, <3>1, Updates
    <3>3. CacheProcessContext(t, Child(t), childName[t],
                              IF "childCmd" \in given[t] THEN whoGen[t][1] ELSE 0)
          /\ t \in ReadClock
      BY <2>1, <3>1 DEF CacheChild, ReadClock
    <3>4. \A p \in cached \ cached' : EvictedFor(t, p)
      BY <1>1, <3>1, <3>2, <3>3, Updated
    <3> QED
      BY <3>3, <3>4
  <2>2. ASSUME NEW t \in Workers, CacheParent(t) PROVE Cause
    <3>1. t \in Threads
      BY DEF Threads
    <3>2. Parent(t) \in Pids /\ parentName[t] \in Gens /\ parentCmd[t] \in Gens
      BY <1>1, <3>1, Updates
    <3>3. CacheProcessContext(t, Parent(t), parentName[t], parentCmd[t]) /\ t \in ReadClock
      BY <2>2, <3>1 DEF CacheParent, ReadClock
    <3>4. \A p \in cached \ cached' : EvictedFor(t, p)
      BY <1>1, <3>1, <3>2, <3>3, Updated
    <3> QED
      BY <3>3, <3>4
  <2>3. ASSUME CacheObserved PROVE Cause
    <3>1. Observer \in Threads
      BY DEF Threads
    <3>2. Child(Observer) \in Pids /\ childName[Observer] \in Gens
          /\ (IF "childCmd" \in given[Observer] THEN whoGen[Observer][1] ELSE 0) \in Gens
      BY <1>1, <3>1, Updates
    <3>3. CacheProcessContext(Observer, Child(Observer), childName[Observer],
              IF "childCmd" \in given[Observer] THEN whoGen[Observer][1] ELSE 0)
          /\ Observer \in ReadClock
      BY <2>3, <3>1 DEF CacheObserved, ReadClock
    <3>4. \A p \in cached \ cached' : EvictedFor(Observer, p)
      BY <1>1, <3>1, <3>2, <3>3, Updated
    <3> QED
      BY <3>3, <3>4
  <2>4. ASSUME \/ \E t \in Workers : Names(t) \/ CommandLine(t) \/ Reply(t) \/ Expire(t)
               \/ \E p \in Reported, fields \in Observed : Observe(p, fields)
               \/ \E t \in Workers, cp \in Creations : \E fields \in Reports[cp[1]] :
                    Create(t, cp[1], cp[2], fields)
               \/ \E p \in Pids : Exit(p)
               \/ Tick
        PROVE  cached' = cached
    BY <2>4 DEF Names, CommandLine, Reply, Expire, Observe, Create, Exit, Tick, cache
  <2> QED
    BY <2>1, <2>2, <2>3, <2>4 DEF Next, Worker
<1> QED
  BY <1>1, CacheTypeCorrect, PTL DEF Spec, EvictedForCause

-----------------------------------------------------------------------------
(* Why a verdict is decided on data of its own.  All of this is said of ids *)
(* that are not tainted.                                                    *)

\* The child of a request does not run yet, so nothing else is about it, and
\* its request has its name and command line.
ChildKnown ==
  \A t \in Workers : tpc[t] # "idle" /\ Child(t) \notin tainted =>
    /\ t \notin expired /\ Child(t) \notin running
    /\ whoGen[t][1] = gen[Child(t)] /\ gen[Child(t)] # 0
    /\ {"childName", "childCmd"} \subseteq given[t]
    /\ tpc[t] # "names" => childName[t] = gen[Child(t)]
    /\ \A u \in Workers : tpc[u] # "idle" /\ Child(u) = Child(t) => u = t

\* The parent of a request runs until the answer.
ParentKnown ==
  \A t \in Workers : tpc[t] # "idle" /\ Parent(t) \notin tainted =>
    /\ t \notin expired /\ Parent(t) \in running
    /\ whoGen[t][2] = gen[Parent(t)]
    /\ tpc[t] # "names" => /\ parentName[t] \in {0, gen[Parent(t)]}
                           /\ parentCmd[t] \in {0, gen[Parent(t)]}

\* The event that is handled is about the process that has the id.
ObservedKnown ==
  tpc[Observer] # "idle" /\ Child(Observer) \notin tainted =>
    /\ whoGen[Observer][1] = gen[Child(Observer)]
    /\ childName[Observer] \in {0, gen[Child(Observer)]}

\* An entry has nothing of an earlier process, unless the request that replaces
\* it is under way.
Replaced(p) == \E t \in Workers : tpc[t] \in {"names", "childUpdate"} /\ Child(t) = p
EntriesKnown ==
  \A p \in Pids \ tainted :
    (name[p] \in {0, gen[p]} /\ cmd[p] \in {0, gen[p]}) \/ Replaced(p)

\* A request that has timed out is still worked on.
ExpiredBusy == \A t \in expired : tpc[t] # "idle"

OwnDataInv ==
  TypeOK /\ ExpiredBusy /\ ChildKnown /\ ParentKnown /\ ObservedKnown /\ EntriesKnown

\* The entry of a running process has nothing of an earlier one.
LEMMA RunningKnown ==
  ASSUME OwnDataInv, NEW p \in running \ tainted
  PROVE  name[p] \in {0, gen[p]} /\ cmd[p] \in {0, gen[p]}
<1>1. ~Replaced(p)
  BY DEF OwnDataInv, ChildKnown, Replaced
<1> QED
  BY <1>1 DEF OwnDataInv, TypeOK, EntriesKnown

\* Nothing untainted that is about an id is under way when the id is given to a
\* new process.
LEMMA NewChild ==
  ASSUME OwnDataInv, NEW t \in Workers, NEW c, NEW p, NEW fields, Create(t, c, p, fields),
         c \notin tainted'
  PROVE  /\ \A u \in Workers : tpc[u] # "idle" => Child(u) # c /\ Parent(u) # c
         /\ tpc[Observer] # "idle" => Child(Observer) # c
         /\ {"childName", "childCmd"} \subseteq fields
         /\ tainted' = tainted
<1>1. /\ {"childName", "childCmd"} \subseteq fields
      /\ ~(tpc[Observer] # "idle" /\ Child(Observer) = c)
      /\ tainted' = tainted
  BY DEF Create
<1>2. ASSUME NEW u \in Workers, tpc[u] # "idle" PROVE Child(u) # c /\ Parent(u) # c
  <2>1. CASE u \in expired
    BY <1>1, <1>2, <2>1 DEF OwnDataInv, ChildKnown, ParentKnown
  <2>2. CASE u \notin expired
    <3>1. u \in Waiting
      BY <1>2, <2>2, ConstantsAssumption DEF Waiting, Busy, Threads
    <3> QED
      BY <3>1 DEF Create
  <2> QED
    BY <2>1, <2>2
<1> QED
  BY <1>1, <1>2

\* What an update leaves of the names and the command lines.
LEMMA Learns ==
  ASSUME TypeOK, NEW t \in Threads, NEW p \in Pids, NEW n \in Gens, NEW c \in Gens,
         CacheProcessContext(t, p, n, c), NEW q \in Pids
  PROVE  /\ name'[q] \in {0, IF q = p THEN Merged(name[p], n) ELSE name[q]}
         /\ cmd'[q] \in {0, IF q = p THEN Merged(cmd[p], c) ELSE cmd[q]}
BY DEF CacheProcessContext, Clear, TypeOK

\* The children.
LEMMA ChildStep == OwnDataInv /\ [Next]_vars => ChildKnown'
<1> SUFFICES ASSUME OwnDataInv, [Next]_vars PROVE ChildKnown'
  OBVIOUS
<1> USE DEF OwnDataInv, TypeOK, At, Child
<1>a. Workers \subseteq Threads /\ Observer \notin Workers
  BY ConstantsAssumption DEF Threads
<1>1. ASSUME NEW t \in Workers, NEW cp \in Creations, NEW fields \in Reports[cp[1]],
             Create(t, cp[1], cp[2], fields)
      PROVE  ChildKnown'
  <2>1. SUFFICES ASSUME NEW u \in Workers, tpc'[u] # "idle", who'[u][1] \notin tainted'
        PROVE  /\ u \notin expired' /\ who'[u][1] \notin running'
               /\ whoGen'[u][1] = gen'[who'[u][1]] /\ gen'[who'[u][1]] # 0
               /\ {"childName", "childCmd"} \subseteq given'[u]
               /\ tpc'[u] # "names" => childName'[u] = gen'[who'[u][1]]
               /\ \A v \in Workers : tpc'[v] # "idle" /\ who'[v][1] = who'[u][1] => v = u
    BY DEF ChildKnown
  <2>2. cp[1] \in Pids /\ gen[cp[1]] \in Nat
    BY ConstantsAssumption DEF Gens
  <2>3. CASE u = t
    <3>1. who'[t] = <<cp[1], cp[2]>> /\ cp[1] \notin tainted'
      BY <1>1, <1>a, <2>1, <2>3 DEF Create
    <3>2. \A v \in Workers : tpc[v] # "idle" => who[v][1] # cp[1]
      BY <1>1, <3>1, NewChild
    <3>3. t \notin expired
      BY <1>1 DEF Create, ExpiredBusy
    <3> QED
      BY <1>1, <1>a, <2>2, <2>3, <3>1, <3>2, <3>3, NewChild DEF Create
  <2>4. CASE u # t
    <3>1. tpc[u] # "idle" /\ who'[u] = who[u] /\ who[u][1] \notin tainted
      BY <1>1, <1>a, <2>1, <2>4 DEF Create
    <3>2. who[u][1] # cp[1]
      BY <1>1, <2>1, <3>1, NewChild
    <3> QED
      BY <1>1, <1>a, <2>1, <2>4, <3>1, <3>2 DEF Create, ChildKnown, locals
  <2> QED
    BY <2>3, <2>4
<1>2. ASSUME NEW t \in Workers, Expire(t) PROVE ChildKnown'
  BY <1>2, <1>a DEF Expire, ChildKnown, request, locals
<1>3. ASSUME NEW p \in Reported, NEW fields \in Observed, Observe(p, fields) PROVE ChildKnown'
  BY <1>3, <1>a DEF Observe, ChildKnown, system
<1>4. ASSUME NEW p \in Pids, Exit(p) PROVE ChildKnown'
  BY <1>4, <1>a DEF Exit, ChildKnown, request, locals
<1>5. CASE Tick
  BY <1>5 DEF Tick, ChildKnown, request, locals, system
<1>6. ASSUME NEW t \in Workers, Names(t) PROVE ChildKnown'
  BY <1>6, <1>a DEF Names, NameOf, ChildKnown, request, system
<1>7. ASSUME NEW t \in Workers, CacheChild(t) PROVE ChildKnown'
  BY <1>7, <1>a DEF CacheChild, ChildKnown, request, locals, system
<1>8. CASE CacheObserved
  BY <1>8, <1>a DEF CacheObserved, Finish, ChildKnown, system
<1>9. ASSUME NEW t \in Workers, CacheParent(t) PROVE ChildKnown'
  BY <1>9, <1>a DEF CacheParent, ChildKnown, request, locals, system
<1>10. ASSUME NEW t \in Workers, CommandLine(t) PROVE ChildKnown'
  BY <1>10, <1>a DEF CommandLine, ChildKnown, request, system
<1>11. ASSUME NEW t \in Workers, Reply(t) PROVE ChildKnown'
  BY <1>11, <1>a DEF Reply, Finish, ChildKnown
<1>12. CASE UNCHANGED vars
  BY <1>12 DEF vars, system, request, locals, ChildKnown
<1> QED
  BY <1>1, <1>2, <1>3, <1>4, <1>5, <1>6, <1>7, <1>8, <1>9, <1>10, <1>11, <1>12
  DEF Next, Worker

\* The parents.
LEMMA ParentStep == OwnDataInv /\ [Next]_vars => ParentKnown'
<1> SUFFICES ASSUME OwnDataInv, [Next]_vars PROVE ParentKnown'
  OBVIOUS
<1> USE DEF OwnDataInv, TypeOK, At, Child, Parent
<1>a. Workers \subseteq Threads /\ Observer \notin Workers
  BY ConstantsAssumption DEF Threads
<1>1. ASSUME NEW t \in Workers, NEW cp \in Creations, NEW fields \in Reports[cp[1]],
             Create(t, cp[1], cp[2], fields)
      PROVE  ParentKnown'
  <2>1. SUFFICES ASSUME NEW u \in Workers, tpc'[u] # "idle", who'[u][2] \notin tainted'
        PROVE  /\ u \notin expired' /\ who'[u][2] \in running'
               /\ whoGen'[u][2] = gen'[who'[u][2]]
               /\ tpc'[u] # "names" => /\ parentName'[u] \in {0, gen'[who'[u][2]]}
                                       /\ parentCmd'[u] \in {0, gen'[who'[u][2]]}
    BY DEF ParentKnown
  <2>2. cp[1] \in Pids /\ cp[2] \in Pids /\ cp[1] # cp[2] /\ tainted \subseteq tainted'
    BY <1>1, ConstantsAssumption DEF Create
  <2>3. CASE u = t
    <3>1. t \notin expired
      BY <1>1 DEF Create, ExpiredBusy
    <3> QED
      BY <1>1, <1>a, <2>2, <2>3, <3>1 DEF Create
  <2>4. CASE u # t
    <3>1. tpc[u] # "idle" /\ who'[u] = who[u] /\ who[u][2] \notin tainted
      BY <1>1, <1>a, <2>1, <2>2, <2>4 DEF Create
    <3>2. who[u][2] # cp[1]
      BY <1>1, <2>1, <3>1 DEF Create, ParentKnown
    <3> QED
      BY <1>1, <1>a, <2>1, <2>2, <2>4, <3>1, <3>2 DEF Create, ParentKnown, locals
  <2> QED
    BY <2>3, <2>4
<1>2. ASSUME NEW t \in Workers, Expire(t) PROVE ParentKnown'
  BY <1>2, <1>a DEF Expire, ParentKnown, request, locals
<1>3. ASSUME NEW p \in Reported, NEW fields \in Observed, Observe(p, fields) PROVE ParentKnown'
  BY <1>3, <1>a DEF Observe, ParentKnown, system
<1>4. ASSUME NEW p \in Pids, Exit(p) PROVE ParentKnown'
  <2>1. \A u \in Workers : tpc[u] # "idle" /\ u \notin expired => who[u][2] # p
    BY <1>4, <1>a DEF Exit, Waiting, Busy
  <2> QED
    BY <1>4, <1>a, <2>1 DEF Exit, ParentKnown, request, locals
<1>5. CASE Tick
  BY <1>5 DEF Tick, ParentKnown, request, locals, system
<1>6. ASSUME NEW t \in Workers, Names(t) PROVE ParentKnown'
  <2>1. who[t][2] \notin tainted => /\ who[t][2] \in running
                                   /\ whoGen[t][2] = gen[who[t][2]]
                                   /\ name[who[t][2]] \in {0, gen[who[t][2]]}
    BY <1>6, RunningKnown DEF Names, ParentKnown
  <2> QED
    BY <1>6, <1>a, <2>1 DEF Names, NameOf, ParentKnown, request, system
<1>7. ASSUME NEW t \in Workers, CacheChild(t) PROVE ParentKnown'
  BY <1>7, <1>a DEF CacheChild, ParentKnown, request, locals, system
<1>8. CASE CacheObserved
  BY <1>8, <1>a DEF CacheObserved, Finish, ParentKnown, system
<1>9. ASSUME NEW t \in Workers, CacheParent(t) PROVE ParentKnown'
  BY <1>9, <1>a DEF CacheParent, ParentKnown, request, locals, system
<1>10. ASSUME NEW t \in Workers, CommandLine(t) PROVE ParentKnown'
  <2>1. who[t][2] \notin tainted => cmd[who[t][2]] \in {0, gen[who[t][2]]}
    BY <1>10, RunningKnown DEF CommandLine, ParentKnown
  <2> QED
    BY <1>10, <1>a, <2>1 DEF CommandLine, ParentKnown, request, system
<1>11. ASSUME NEW t \in Workers, Reply(t) PROVE ParentKnown'
  BY <1>11, <1>a DEF Reply, Finish, ParentKnown
<1>12. CASE UNCHANGED vars
  BY <1>12 DEF vars, system, request, locals, ParentKnown
<1> QED
  BY <1>1, <1>2, <1>3, <1>4, <1>5, <1>6, <1>7, <1>8, <1>9, <1>10, <1>11, <1>12
  DEF Next, Worker

\* The requests that have timed out, and the event that is handled.
LEMMA OtherStep == OwnDataInv /\ [Next]_vars => ExpiredBusy' /\ ObservedKnown'
<1> SUFFICES ASSUME OwnDataInv, [Next]_vars PROVE ExpiredBusy' /\ ObservedKnown'
  OBVIOUS
<1> USE DEF OwnDataInv, TypeOK, At, Child, ExpiredBusy, ObservedKnown
<1>a. Workers \subseteq Threads /\ Observer \notin Workers /\ Observer \in Threads
  BY ConstantsAssumption DEF Threads
<1>1. ASSUME NEW t \in Workers, NEW cp \in Creations, NEW fields \in Reports[cp[1]],
             Create(t, cp[1], cp[2], fields)
      PROVE  ExpiredBusy' /\ ObservedKnown'
  <2>1. ExpiredBusy'
    BY <1>1, <1>a DEF Create
  <2>2. ASSUME tpc'[Observer] # "idle", who'[Observer][1] \notin tainted' PROVE ObservedKnown'
    <3>1. tpc[Observer] # "idle" /\ who'[Observer] = who[Observer]
      BY <1>1, <1>a, <2>2 DEF Create
    <3>2. who[Observer][1] # cp[1] /\ who[Observer][1] \notin tainted
      BY <1>1, <2>2, <3>1 DEF Create
    <3>3. who[Observer][1] \in Pids
      BY <1>a
    <3> QED
      BY <1>1, <1>a, <3>1, <3>2, <3>3 DEF Create, locals
  <2> QED
    BY <2>1, <2>2
<1>2. ASSUME NEW t \in Workers, Expire(t) PROVE ExpiredBusy' /\ ObservedKnown'
  BY <1>2, <1>a DEF Expire, Waiting, Busy, request, locals
<1>3. ASSUME NEW p \in Reported, NEW fields \in Observed, Observe(p, fields)
      PROVE  ExpiredBusy' /\ ObservedKnown'
  BY <1>3, <1>a DEF Observe, system
<1>4. ASSUME NEW p \in Pids, Exit(p) PROVE ExpiredBusy' /\ ObservedKnown'
  BY <1>4, <1>a DEF Exit, request, locals
<1>5. ASSUME Tick PROVE ExpiredBusy' /\ ObservedKnown'
  BY <1>5, <1>a DEF Tick, request, locals, system
<1>6. ASSUME NEW t \in Workers, Names(t) PROVE ExpiredBusy' /\ ObservedKnown'
  BY <1>6, <1>a DEF Names, NameOf, request, system
<1>7. ASSUME NEW t \in Workers, CacheChild(t) PROVE ExpiredBusy' /\ ObservedKnown'
  BY <1>7, <1>a DEF CacheChild, request, locals, system
<1>8. ASSUME CacheObserved PROVE ExpiredBusy' /\ ObservedKnown'
  BY <1>8, <1>a DEF CacheObserved, Finish, system
<1>9. ASSUME NEW t \in Workers, CacheParent(t) PROVE ExpiredBusy' /\ ObservedKnown'
  BY <1>9, <1>a DEF CacheParent, request, locals, system
<1>10. ASSUME NEW t \in Workers, CommandLine(t) PROVE ExpiredBusy' /\ ObservedKnown'
  BY <1>10, <1>a DEF CommandLine, request, system
<1>11. ASSUME NEW t \in Workers, Reply(t) PROVE ExpiredBusy' /\ ObservedKnown'
  BY <1>11, <1>a DEF Reply, Finish
<1>12. CASE UNCHANGED vars
  BY <1>12 DEF vars, system, request, locals
<1> QED
  BY <1>1, <1>2, <1>3, <1>4, <1>5, <1>6, <1>7, <1>8, <1>9, <1>10, <1>11, <1>12
  DEF Next, Worker

\* The entries.
LEMMA EntriesStep == OwnDataInv /\ [Next]_vars => EntriesKnown'
<1> SUFFICES ASSUME OwnDataInv, [Next]_vars, NEW e \in Pids, e \notin tainted'
             PROVE  (name'[e] \in {0, gen'[e]} /\ cmd'[e] \in {0, gen'[e]}) \/ Replaced(e)'
  BY DEF EntriesKnown
<1> DEFINE Known == (name'[e] \in {0, gen'[e]} /\ cmd'[e] \in {0, gen'[e]}) \/ Replaced(e)'
<1> USE DEF OwnDataInv, TypeOK, At, Child, Parent, Replaced
<1>a. Workers \subseteq Threads /\ Observer \notin Workers /\ Observer \in Threads
  BY ConstantsAssumption DEF Threads
<1>1. ASSUME NEW t \in Workers, NEW cp \in Creations, NEW fields \in Reports[cp[1]],
             Create(t, cp[1], cp[2], fields)
      PROVE  Known
  <2>1. CASE e = cp[1]
    BY <1>1, <1>a, <2>1 DEF Create
  <2>2. CASE e # cp[1]
    <3>1. e \notin tainted /\ gen'[e] = gen[e] /\ name'[e] = name[e] /\ cmd'[e] = cmd[e]
      BY <1>1, <2>2 DEF Create, cache
    <3>2. Replaced(e) => Replaced(e)'
      BY <1>1, <1>a DEF Create
    <3> QED
      BY <3>1, <3>2 DEF EntriesKnown
  <2> QED
    BY <2>1, <2>2
<1>2. ASSUME NEW t \in Workers, Expire(t) PROVE Known
  BY <1>2 DEF Expire, EntriesKnown, request, cache
<1>3. ASSUME NEW p \in Reported, NEW fields \in Observed, Observe(p, fields) PROVE Known
  BY <1>3, <1>a DEF Observe, EntriesKnown, system, cache
<1>4. ASSUME NEW p \in Pids, Exit(p) PROVE Known
  BY <1>4 DEF Exit, EntriesKnown, request, cache
<1>5. ASSUME Tick PROVE Known
  BY <1>5 DEF Tick, EntriesKnown, request, system
<1>6. ASSUME NEW t \in Workers, Names(t) PROVE Known
  BY <1>6, <1>a DEF Names, EntriesKnown, request, system, cache
<1>7. ASSUME NEW t \in Workers, CacheChild(t) PROVE Known
  <2> DEFINE c == IF "childCmd" \in given[t] THEN whoGen[t][1] ELSE 0
  <2>1. /\ t \in Threads /\ tpc[t] = "childUpdate" /\ e \notin tainted
        /\ gen' = gen /\ who' = who
    BY <1>7, <1>a DEF CacheChild, system, request
  <2>2. who[t][1] \in Pids /\ childName[t] \in Gens /\ c \in Gens
    BY <2>1, Updates
  <2>3. CacheProcessContext(t, who[t][1], childName[t], c)
    BY <1>7 DEF CacheChild
  <2>4. /\ name'[e] \in {0, IF e = who[t][1] THEN Merged(name[who[t][1]], childName[t]) ELSE name[e]}
        /\ cmd'[e] \in {0, IF e = who[t][1] THEN Merged(cmd[who[t][1]], c) ELSE cmd[e]}
    <3> HIDE DEF c
    <3> QED
      BY <2>1, <2>2, <2>3, Learns
  <2>5. CASE e = who[t][1]
    <3>1. childName[t] = gen[e] /\ c = gen[e] /\ gen[e] # 0
      BY <2>1, <2>5 DEF ChildKnown
    <3> QED
      BY <2>1, <2>4, <2>5, <3>1 DEF Merged
  <2>6. CASE e # who[t][1]
    <3>1. Replaced(e) => Replaced(e)'
      BY <1>7, <1>a, <2>1, <2>6 DEF CacheChild
    <3> QED
      BY <2>1, <2>4, <2>6, <3>1 DEF EntriesKnown
  <2> QED
    BY <2>5, <2>6
<1>8. ASSUME CacheObserved PROVE Known
  <2> DEFINE t == Observer
             c == IF "childCmd" \in given[t] THEN whoGen[t][1] ELSE 0
  <2>1. /\ tpc[t] = "childUpdate" /\ e \notin tainted /\ gen' = gen
        /\ \A u \in Workers : tpc'[u] = tpc[u] /\ who'[u] = who[u]
    BY <1>8, <1>a DEF CacheObserved, Finish, system
  <2>2. who[t][1] \in Pids /\ childName[t] \in Gens /\ c \in Gens
    BY <1>a, Updates
  <2>3. CacheProcessContext(t, who[t][1], childName[t], c)
    BY <1>8 DEF CacheObserved
  <2>4. /\ name'[e] \in {0, IF e = who[t][1] THEN Merged(name[who[t][1]], childName[t]) ELSE name[e]}
        /\ cmd'[e] \in {0, IF e = who[t][1] THEN Merged(cmd[who[t][1]], c) ELSE cmd[e]}
    <3> HIDE DEF c
    <3> QED
      BY <1>a, <2>2, <2>3, Learns
  <2>5. e = who[t][1] => childName[t] \in {0, gen[e]} /\ c \in {0, gen[e]}
    BY <2>1 DEF ObservedKnown
  <2>6. Replaced(e) => Replaced(e)'
    BY <2>1
  <2> QED
    <3> HIDE DEF c, t
    <3> QED
      BY <2>1, <2>4, <2>5, <2>6 DEF EntriesKnown, Merged
<1>9. ASSUME NEW t \in Workers, CacheParent(t) PROVE Known
  <2>1. /\ t \in Threads /\ tpc[t] = "parentUpdate" /\ e \notin tainted
        /\ gen' = gen /\ who' = who
    BY <1>9, <1>a DEF CacheParent, system, request
  <2>2. who[t][2] \in Pids /\ parentName[t] \in Gens /\ parentCmd[t] \in Gens
    BY <2>1, Updates
  <2>3. CacheProcessContext(t, who[t][2], parentName[t], parentCmd[t])
    BY <1>9 DEF CacheParent
  <2>4. /\ name'[e] \in {0, IF e = who[t][2] THEN Merged(name[who[t][2]], parentName[t]) ELSE name[e]}
        /\ cmd'[e] \in {0, IF e = who[t][2] THEN Merged(cmd[who[t][2]], parentCmd[t]) ELSE cmd[e]}
    BY <2>1, <2>2, <2>3, Learns
  <2>5. e = who[t][2] => parentName[t] \in {0, gen[e]} /\ parentCmd[t] \in {0, gen[e]}
    BY <2>1 DEF ParentKnown
  <2>6. Replaced(e) => Replaced(e)'
    BY <1>9, <1>a, <2>1 DEF CacheParent
  <2> QED
    BY <2>1, <2>4, <2>5, <2>6 DEF EntriesKnown, Merged
<1>10. ASSUME NEW t \in Workers, CommandLine(t) PROVE Known
  BY <1>10, <1>a DEF CommandLine, EntriesKnown, request, system, cache
<1>11. ASSUME NEW t \in Workers, Reply(t) PROVE Known
  BY <1>11, <1>a DEF Reply, Finish, EntriesKnown, cache
<1>12. ASSUME UNCHANGED vars PROVE Known
  BY <1>12 DEF vars, system, request, cache, EntriesKnown
<1> QED
  BY <1>1, <1>2, <1>3, <1>4, <1>5, <1>6, <1>7, <1>8, <1>9, <1>10, <1>11, <1>12
  DEF Next, Worker

\* A verdict is decided on data of the processes it is about, or on none: what
\* comes from the cache belongs to an earlier process with the same id only
\* where a request was answered too late, was reported without a field, or
\* overtook the event of that process (1588-1606, 2072-2080).
THEOREM VerdictsOnOwnData == Spec => []DecidedOnOwnData
<1>1. Init => OwnDataInv
  <2> SUFFICES ASSUME Init PROVE OwnDataInv
    OBVIOUS
  <2>1. TypeOK
    BY InitTypes
  <2>2. Workers \subseteq Threads /\ Observer \in Threads
    BY ConstantsAssumption DEF Threads
  <2> QED
    BY <2>1, <2>2
    DEF Init, OwnDataInv, ExpiredBusy, ChildKnown, ParentKnown, ObservedKnown, EntriesKnown
<1>2. OwnDataInv /\ [Next]_vars => OwnDataInv'
  BY TypeStep, ChildStep, ParentStep, OtherStep, EntriesStep DEF OwnDataInv
<1>3. OwnDataInv => DecidedOnOwnData
  BY DEF OwnDataInv, ChildKnown, ParentKnown, DecidedOnOwnData, OwnOrUnknown
<1> QED
  BY <1>1, <1>2, <1>3, PTL DEF Spec
=============================================================================
