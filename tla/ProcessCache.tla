---------------------------- MODULE ProcessCache ----------------------------
(***************************************************************************)
(* The process cache of HostGuard.cpp: what the worker threads learn of      *)
(* processes from the verdict requests, and fall back to when a request      *)
(* leaves the name or the command line of the child or the parent out.  The  *)
(* thread of the driver events adds what it is told of started processes.    *)
(*                                                                           *)
(* A process id is reused, so a process is an id and a generation, and a     *)
(* name or command line is represented by the generation it belongs to; 0    *)
(* stands for the empty string and for "<unknown>".  The image path is       *)
(* stored but never read back and is left out, as is createTime.  Time is    *)
(* kept as ages: an entry was last seen, or a clock was read, so many ticks  *)
(* ago.  A thread reads its clock at some moment before it has the cache's   *)
(* lock: until then, and in that tick, its clock is 0.  The driver holds a   *)
(* process back until its creation is answered or its time-out passes, and   *)
(* its parent with it (external).                                            *)
(***************************************************************************)
EXTENDS Integers, FiniteSets

CONSTANTS
  Workers,     \* worker threads of the verdict port
  Observer,    \* DriverEventMonitorThread
  Pids,        \* process ids
  Creations,   \* <<child, parent>> pairs that may occur
  Reports,     \* of an id: the sets of fields that the driver may fill in in a
               \* request, and
  Observed,    \* in the event of a process that was started
  Reported,    \* ids for which it sends such events
  Root,        \* a process that runs from the start
  MaxGen,      \* bound: how often each id is used
  Ttl,         \* kProcessCacheTtlMs
  MaxEntries,  \* kMaxProcessCacheEntries
  MaxDelay,    \* bound: how long a thread waits for the lock, in ticks
  TickRange    \* values of a tick count (2^64)

AgeCap == Ttl + MaxDelay + 1
Fields == {"childName", "childCmd", "parentName", "parentCmd"}

ASSUME ConstantsAssumption ==
  /\ IsFiniteSet(Pids) /\ Creations \subseteq Pids \X Pids /\ Root \in Pids
  /\ Observer \notin Workers
  /\ Reports \in [Pids -> SUBSET (SUBSET Fields)]
  /\ Observed \subseteq SUBSET {"childName", "childCmd"} \ {{}}
  /\ Reported \subseteq Pids
  /\ MaxGen \in [Pids -> Nat \ {0}] /\ Ttl \in Nat /\ MaxEntries \in Nat /\ MaxDelay \in Nat
  /\ TickRange \in Nat /\ AgeCap < TickRange - AgeCap

Threads == Workers \cup {Observer}
Gens == Nat
Ages == 0..AgeCap

VARIABLES
  gen,       \* the generation of each process id
  running,   \* processes that run
  cached,    \* ids with an entry in g_ProcessCache
  name,      \* processName of the entries
  cmd,       \* commandLine of the entries
  age,       \* age of lastSeenTick of the entries
  tpc,       \* where each worker is in HandleProcessVerdictMessage, and the
             \* observer in HandleDriverEventPayload
  who,       \* the creation a thread is about
  whoGen,    \* the generations of its child and parent
  given,     \* the fields the driver filled in
  childName, \* childName and
  parentName,\* parentName of the worker: a generation or 0
  parentCmd, \* parentCmdLine of the worker
  clock,     \* age of the worker's nowTick
  expired,   \* workers whose request has timed out
  tainted    \* ghost: ids with an expired or incomplete creation, or one that
             \* overtook the event of the process that had the id before

system == <<gen, running>>
cache == <<cached, name, cmd, age>>
request == <<who, whoGen, given>>
locals == <<childName, parentName, parentCmd>>
vars == <<system, cache, tpc, request, locals, clock, expired, tainted>>

Labels == {"idle", "names", "childUpdate", "parentUpdate", "commandLine", "reply"}

TypeOK ==
  /\ gen \in [Pids -> Gens]
  /\ running \subseteq Pids
  /\ cached \subseteq Pids /\ name \in [Pids -> Gens] /\ cmd \in [Pids -> Gens]
  /\ age \in [Pids -> Ages]
  /\ tpc \in [Threads -> Labels]
  /\ who \in [Threads -> Pids \X Pids]
  /\ whoGen \in [Threads -> Gens \X Gens]
  /\ given \in [Threads -> SUBSET Fields]
  /\ childName \in [Threads -> Gens] /\ parentName \in [Threads -> Gens]
  /\ parentCmd \in [Threads -> Gens]
  /\ clock \in [Threads -> 0..MaxDelay]
  /\ expired \subseteq Workers
  /\ tainted \subseteq Pids
  /\ Cardinality(cached) <= MaxEntries

None == <<Root, Root>>

Init ==
  /\ gen = [p \in Pids |-> IF p = Root THEN 1 ELSE 0]
  /\ running = {Root}
  /\ cached = {} /\ name = [p \in Pids |-> 0] /\ cmd = [p \in Pids |-> 0]
  /\ age = [p \in Pids |-> 0]
  /\ tpc = [t \in Threads |-> "idle"]
  /\ who = [t \in Threads |-> None] /\ whoGen = [t \in Threads |-> <<0, 0>>]
  /\ given = [t \in Threads |-> {}]
  /\ childName = [t \in Threads |-> 0] /\ parentName = [t \in Threads |-> 0]
  /\ parentCmd = [t \in Threads |-> 0]
  /\ clock = [t \in Threads |-> 0]
  /\ expired = {}
  /\ tainted = {}

Child(t) == who[t][1]
Parent(t) == who[t][2]
Busy == {t \in Threads : tpc[t] # "idle"}
Waiting == (Busy \cap Workers) \ expired
At(t, label) == tpc' = [tpc EXCEPT ![t] = label]

-----------------------------------------------------------------------------
(* Processes, the driver and the clock.                                    *)

\* A running process creates another; the driver asks about it with the fields
\* it could fill in and keeps the two waiting.
Create(t, c, p, fields) ==
  /\ tpc[t] = "idle"
  /\ p \in running /\ c \notin running /\ gen[c] < MaxGen[c]
  /\ \A u \in Waiting : c \notin {Child(u), Parent(u)} /\ p # Parent(u)
  /\ gen' = [gen EXCEPT ![c] = @ + 1]
  /\ At(t, "names")
  /\ who' = [who EXCEPT ![t] = <<c, p>>]
  /\ whoGen' = [whoGen EXCEPT ![t] = <<gen[c] + 1, gen[p]>>]
  /\ given' = [given EXCEPT ![t] = fields]
  /\ tainted' = IF /\ {"childName", "childCmd"} \subseteq fields
                   /\ ~(tpc[Observer] # "idle" /\ Child(Observer) = c)
                THEN tainted ELSE tainted \cup {c}
  /\ UNCHANGED <<running, cache, locals, clock, expired>>

\* The driver stops waiting for the verdict and lets the process run.
Expire(t) ==
  /\ t \in Waiting
  /\ expired' = expired \cup {t}
  /\ running' = running \cup {Child(t)}
  /\ tainted' = tainted \cup {Child(t), Parent(t)}
  /\ UNCHANGED <<gen, cache, tpc, request, locals, clock>>

\* The driver queues the event of a process that it has let run; the thread of
\* the events may come to it much later.
Observe(p, fields) ==
  /\ tpc[Observer] = "idle"
  /\ p \in running \ {Root}
  /\ At(Observer, "childUpdate")
  /\ who' = [who EXCEPT ![Observer] = <<p, Root>>]
  /\ whoGen' = [whoGen EXCEPT ![Observer] = <<gen[p], 0>>]
  /\ given' = [given EXCEPT ![Observer] = fields]
  /\ childName' = [childName EXCEPT
                     ![Observer] = IF "childName" \in fields THEN gen[p] ELSE 0]
  /\ UNCHANGED <<system, cache, parentName, parentCmd, clock, expired, tainted>>

\* A process that is not inside a creation ends.
Exit(p) ==
  /\ p \in running \ {Root}
  /\ \A t \in Waiting : p # Parent(t)
  /\ running' = running \ {p}
  /\ UNCHANGED <<gen, cache, tpc, request, locals, clock, expired, tainted>>

\* The threads that are about to update the cache.
ReadClock == {t \in Threads : tpc[t] \in {"childUpdate", "parentUpdate"}}

\* Time passes; a thread that has not read its clock (GetTickCount64) may leave
\* it at that.
Tick ==
  /\ \E unread \in SUBSET {t \in ReadClock : clock[t] = 0} :
       /\ \A t \in ReadClock \ unread : clock[t] < MaxDelay
       /\ clock' = [t \in Threads |->
                      IF t \in ReadClock \ unread THEN clock[t] + 1 ELSE clock[t]]
  /\ age' = [p \in Pids |-> IF p \in cached /\ age[p] < AgeCap THEN age[p] + 1 ELSE age[p]]
  /\ UNCHANGED <<system, cached, name, cmd, tpc, request, locals, expired, tainted>>

-----------------------------------------------------------------------------
(* The cache.                                                              *)

\* nowTick - lastSeenTick, unsigned: an entry seen after the clock was read is
\* older than anything.
Elapsed(t, ages, p) == (ages[p] - clock[t]) % TickRange

\* Mutant: the entries seen last go.
PruneNewest(t, ids, ages) ==
  LET fresh == {p \in ids : Elapsed(t, ages, p) <= Ttl}
  IN  IF Cardinality(fresh) <= MaxEntries THEN {fresh}
      ELSE {S \in SUBSET fresh :
              /\ Cardinality(S) = MaxEntries
              /\ \A p \in S, q \in fresh \ S : ages[p] >= ages[q]}

\* Mutant: only the time to live is looked at.
PruneExpired(t, ids, ages) == {{p \in ids : Elapsed(t, ages, p) <= Ttl}}

\* PruneProcessCacheLocked: what may be left of ids.
Prune(t, ids, ages) ==
  LET fresh == {p \in ids : Elapsed(t, ages, p) <= Ttl}
  IN  IF Cardinality(fresh) <= MaxEntries THEN {fresh}
      ELSE {S \in SUBSET fresh :
              /\ Cardinality(S) = MaxEntries
              /\ \A p \in S, q \in fresh \ S : ages[p] <= ages[q]}

\* Entries that are gone hold nothing.
Clear(f, ids) == [p \in Pids |-> IF p \in ids THEN f[p] ELSE 0]

\* Mutant: what an entry holds already is kept.
Learned(known, n) == IF known # 0 THEN known ELSE n

\* A field is only overwritten by one that is not empty.
Merged(known, n) == IF n # 0 THEN n ELSE known

\* CacheProcessContext under its lock: the entry is updated field by field and
\* stamped with the clock read before, then the cache is pruned.  The early return
\* for id 0 or a context without any text (706-708) is not taken: every process has
\* an id, a name that is nowhere to be found is given as "<unknown>", and what is
\* Observed is never nothing.
CacheProcessContext(t, p, n, c) ==
  LET ages == [age EXCEPT ![p] = clock[t]]
  IN  \E ids \in Prune(t, cached \cup {p}, ages) :
        /\ cached' = ids
        /\ name' = Clear([name EXCEPT ![p] = Merged(@, n)], ids)
        /\ cmd' = Clear([cmd EXCEPT ![p] = Merged(@, c)], ids)
        /\ age' = Clear(ages, ids)

-----------------------------------------------------------------------------
(* HandleProcessVerdictMessage and HandleDriverEventPayload, as far as the  *)
(* cache is concerned.                                                     *)

\* A name that the request gives, or that the cache has for the id.
NameOf(t, field, g, p) == IF field \in given[t] THEN g ELSE name[p]

Names(t) ==
  /\ tpc[t] = "names"
  /\ At(t, "childUpdate")
  /\ childName' = [childName EXCEPT
                     ![t] = NameOf(t, "childName", whoGen[t][1], Child(t))]
  /\ parentName' = [parentName EXCEPT
                      ![t] = NameOf(t, "parentName", whoGen[t][2], Parent(t))]
  /\ parentCmd' = [parentCmd EXCEPT
                     ![t] = IF "parentCmd" \in given[t] THEN whoGen[t][2] ELSE 0]
  /\ UNCHANGED <<system, cache, request, clock, expired, tainted>>

\* The locals are gone.
Finish(t) ==
  /\ At(t, "idle")
  /\ who' = [who EXCEPT ![t] = None]
  /\ whoGen' = [whoGen EXCEPT ![t] = <<0, 0>>]
  /\ given' = [given EXCEPT ![t] = {}]
  /\ childName' = [childName EXCEPT ![t] = 0]
  /\ clock' = [clock EXCEPT ![t] = 0]

CacheChild(t) ==
  /\ tpc[t] = "childUpdate" /\ t \in Workers
  /\ At(t, "parentUpdate")
  /\ CacheProcessContext(t, Child(t), childName[t],
                         IF "childCmd" \in given[t] THEN whoGen[t][1] ELSE 0)
  /\ clock' = [clock EXCEPT ![t] = 0]
  /\ UNCHANGED <<system, request, locals, expired, tainted>>

CacheObserved ==
  LET t == Observer
  IN  /\ tpc[t] = "childUpdate"
      /\ CacheProcessContext(t, Child(t), childName[t],
                             IF "childCmd" \in given[t] THEN whoGen[t][1] ELSE 0)
      /\ Finish(t)
      /\ UNCHANGED <<system, parentName, parentCmd, expired, tainted>>

CacheParent(t) ==
  /\ tpc[t] = "parentUpdate"
  /\ At(t, "commandLine")
  /\ CacheProcessContext(t, Parent(t), parentName[t], parentCmd[t])
  /\ clock' = [clock EXCEPT ![t] = 0]
  /\ UNCHANGED <<system, request, locals, expired, tainted>>

\* A command line that the request leaves out comes from the cache.
CommandLine(t) ==
  /\ tpc[t] = "commandLine"
  /\ At(t, "reply")
  /\ parentCmd' = [parentCmd EXCEPT ![t] = IF @ = 0 THEN cmd[Parent(t)] ELSE @]
  /\ UNCHANGED <<system, cache, request, childName, parentName, clock, expired, tainted>>

\* The verdict is sent; the process starts unless it is blocked, or has been
\* started already because the request had expired.
Reply(t) ==
  /\ tpc[t] = "reply"
  /\ Finish(t)
  /\ \/ UNCHANGED running
     \/ t \notin expired /\ running' = running \cup {Child(t)}
  /\ expired' = expired \ {t}
  /\ parentName' = [parentName EXCEPT ![t] = 0]
  /\ parentCmd' = [parentCmd EXCEPT ![t] = 0]
  /\ UNCHANGED <<gen, cache, tainted>>

-----------------------------------------------------------------------------
Worker(t) ==
  Names(t) \/ CacheChild(t) \/ CacheParent(t) \/ CommandLine(t) \/ Reply(t)

Next ==
  \/ \E t \in Workers : Worker(t) \/ Expire(t)
  \/ CacheObserved
  \/ \E p \in Reported, fields \in Observed : Observe(p, fields)
  \/ \E t \in Workers, cp \in Creations : \E fields \in Reports[cp[1]] :
       Create(t, cp[1], cp[2], fields)
  \/ \E p \in Pids : Exit(p)
  \/ Tick

Spec == Init /\ [][Next]_vars

-----------------------------------------------------------------------------
(* Properties.                                                             *)

\* What a verdict is decided on belongs to the processes it is about: a name or
\* command line that comes from the cache is that of an earlier process with
\* the same id only if a creation with that id was answered too late, was
\* reported without it, or came before the event of that earlier process was
\* handled (1588-1606, 2072-2080).
OwnOrUnknown(g, own, p) == g \in {0, own} \/ p \in tainted

DecidedOnOwnData ==
  \A t \in Workers : tpc[t] = "reply" =>
    /\ OwnOrUnknown(childName[t], whoGen[t][1], Child(t))
    /\ OwnOrUnknown(parentName[t], whoGen[t][2], Parent(t))
    /\ OwnOrUnknown(parentCmd[t], whoGen[t][2], Parent(t))

\* An entry leaves the cache only because it has not been seen for the time to
\* live, because as many entries as fit are at least as new, or because it was
\* seen after the thread that prunes had read its clock (677-699).
EvictedFor(t, p) ==
  \/ age[p] - clock[t] > Ttl
  \/ Cardinality({q \in cached' : age'[q] <= age[p]}) >= MaxEntries
  \/ age[p] < clock[t]

EvictedForCause ==
  [][\A p \in cached \ cached' : \E t \in ReadClock : EvictedFor(t, p)]_vars
=============================================================================
