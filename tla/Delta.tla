------------------------------- MODULE Delta -------------------------------
(***************************************************************************)
(* The delta profilers: godeltaprof/heap.go and block.go with              *)
(* godeltaprof/internal/pprof/delta_heap.go and delta_mutex.go.            *)
(*                                                                         *)
(* The runtime counts events per bucket, for ever.  Profile turns the      *)
(* counts into what was counted since the previous profile.  Several       *)
(* buckets may have the same key (stack, and block size): a first loop     *)
(* over the records sums them in entry.acc, a second one takes the         *)
(* difference with entry.prev at the first record of each key and clears   *)
(* entry.acc, which makes the other records of the key pass unnoticed.     *)
(*                                                                         *)
(* A record has two numbers.  Of the heap: objects allocated (n), for      *)
(* which the difference is taken, and in use (m), shown as they are; the   *)
(* samples are not scaled (rate 1).  Of a block or mutex profile:          *)
(* contentions (n) and cycles (m), of which nanoseconds are made before    *)
(* the difference is taken.  The entries of profMap are a function of the  *)
(* keys, see ProfMap; LocsForStack succeeds or panics, see ProfileBuilder. *)
(***************************************************************************)
EXTENDS Integers, Sequences, FiniteSets, FiniteSetsExt

CONSTANTS Buckets,      \* the runtime's buckets
          Keys, KeyOf,  \* (stack, block size), and the one of each bucket
          GHz,          \* cycles per nanosecond
          Delays,       \* how many cycles one contention may take
          MaxEvents,    \* bound on the number of allocations or contentions
          MaxPanics     \* bound on panics while symbols of a stack are looked up

ASSUME FiniteBuckets == IsFiniteSet(Buckets)
ASSUME KeyAssumption == KeyOf \in [Buckets -> Keys]
ASSUME GHzAssumption == GHz \in Nat \ {0} /\ Delays \subseteq Nat \ {0}
ASSUME Bounds == MaxEvents \in Nat /\ MaxPanics \in Nat

VARIABLES
  kind,                 \* heap, or count (block and mutex)
  counts,               \* the runtime's counts, as it publishes them
  snap,                 \* the records of the Profile in progress
  pass, todo,           \* the loop Profile is in, and the records left in it
  acc, prev,            \* entry.acc and entry.prev
  out,                  \* the samples of the last Profile
  total,                \* history: what all profiles reported up to a panic
  panics, clean         \* panics so far; profiles completed since the last one

vars == <<kind, counts, snap, pass, todo, acc, prev, out, total, panics, clean>>
profilerVars == <<snap, pass, todo, acc, prev, out, total, panics, clean>>

(* the sum of the numbers f[b], as the size of a disjoint union            *)
Sum(f, S) == Cardinality(UNION {{b} \X (1 .. f[b]) : b \in S})

Zero == [n |-> 0, m |-> 0]
Plus(x, y) == [n |-> x.n + y.n, m |-> x.m + y.m]
Minus(x, y) == [n |-> x.n - y.n, m |-> x.m - y.m]

Init == /\ kind \in {"heap", "count"}
        /\ counts = [b \in Buckets |-> Zero] /\ snap = counts
        /\ pass = "idle" /\ todo = {}
        /\ acc = [k \in Keys |-> Zero] /\ prev = acc /\ total = acc
        /\ out = [k \in Keys |-> <<>>]
        /\ panics = 0 /\ clean = 2

-----------------------------------------------------------------------------
(* The runtime publishes an allocation or that an object was freed, or     *)
(* that a goroutine was blocked for d cycles.                              *)
Event(b, d) == /\ Sum([x \in Buckets |-> counts[x].n], Buckets) < MaxEvents
               /\ counts' = [counts EXCEPT ![b] = Plus(@, [n |-> 1, m |-> d])]
               /\ UNCHANGED <<kind, profilerVars>>

Allocate(b) == kind = "heap" /\ Event(b, 1)

Free(b) == /\ kind = "heap" /\ counts[b].m > 0
           /\ counts' = [counts EXCEPT ![b].m = @ - 1]
           /\ UNCHANGED <<kind, profilerVars>>

Contend(b, d) == kind = "count" /\ Event(b, d)

-----------------------------------------------------------------------------
(* Profile takes the profiler's mutex and reads the records: a consistent  *)
(* copy, since the runtime is asked again if the slice was too short.      *)
Profile(records) ==
  /\ pass = "idle"
  /\ snap' = records
  /\ pass' = "acc" /\ todo' = Buckets
  /\ out' = [k \in Keys |-> <<>>]
  /\ UNCHANGED <<kind, counts, acc, prev, total, panics, clean>>

MemProfile == counts
fetchBlockLike == counts

HeapProfile == kind = "heap" /\ Profile(MemProfile)
BlockProfile == kind = "count" /\ Profile(fetchBlockLike)

(* b comes next.  Heap records are in the order of the runtime, here any;  *)
(* the others were sorted by cycles.                                       *)
IsNext(b) == b \in todo /\ (kind = "count" => \A x \in todo : snap[x].m <= snap[b].m)

(* memRecordIsFresh: nothing published yet (frees follow allocations)      *)
Fresh(b) == snap[b].n = 0

Visit(loop, b) == /\ pass = loop /\ IsNext(b)
                  /\ todo' = todo \ {b}
                  /\ UNCHANGED <<kind, counts, snap, pass, panics, clean>>

(* the records of a key are not summed                                     *)
BadAccumulated(b) == [acc EXCEPT ![KeyOf[b]] = snap[b]]

Accumulated(b) == [acc EXCEPT ![KeyOf[b]] = Plus(@, snap[b])]

(* First loop of WriteHeapProto and of PrintCountCycleProfile.             *)
HeapAccumulate(b) ==
  /\ kind = "heap" /\ Visit("acc", b)
  /\ acc' = IF Fresh(b) THEN acc ELSE Accumulated(b)
  /\ UNCHANGED <<prev, out, total>>

CountAccumulate(b) ==
  /\ kind = "count" /\ Visit("acc", b)
  /\ acc' = Accumulated(b)
  /\ UNCHANGED <<prev, out, total>>

SecondLoop ==
  /\ pass = "acc" /\ todo = {}
  /\ pass' = "delta" /\ todo' = Buckets
  /\ UNCHANGED <<kind, counts, snap, acc, prev, out, total, panics, clean>>

-----------------------------------------------------------------------------
(* Second loop of WriteHeapProto.                                          *)

(* what it passes over, leaving the entry as it is                         *)
HeapSkipped(b) == LET k == KeyOf[b]
                  IN Fresh(b) \/ acc[k] = Zero \/ acc[k].n - prev[k].n < 0

HeapDiff(k) == [n |-> acc[k].n - prev[k].n, m |-> acc[k].m]

(* entry.acc is left as it is                                              *)
BadHeapAdvance(k) == /\ prev' = [prev EXCEPT ![k].n = acc[k].n]
                     /\ UNCHANGED acc

HeapAdvance(k) == /\ prev' = [prev EXCEPT ![k].n = acc[k].n]
                  /\ acc' = [acc EXCEPT ![k] = Zero]

Report(k, d) == /\ out' = [out EXCEPT ![k] = Append(@, d)]
                /\ total' = IF panics > 0 THEN total
                            ELSE [total EXCEPT ![k] =
                                    [n |-> @.n + d.n,
                                     m |-> IF kind = "heap" THEN 0 ELSE @.m + d.m]]

HeapSkip(b) == /\ kind = "heap" /\ HeapSkipped(b) /\ Visit("delta", b)
               /\ UNCHANGED <<acc, prev, out, total>>

(* no sample is written if all its values are zero                         *)
HeapDelta(b) ==
  LET k == KeyOf[b] IN
  /\ kind = "heap" /\ ~HeapSkipped(b) /\ Visit("delta", b)
  /\ HeapAdvance(k)
  /\ IF HeapDiff(k) = Zero THEN UNCHANGED <<out, total>> ELSE Report(k, HeapDiff(k))

(* the mutex is not released by a defer                                    *)
BadAbort == /\ panics < MaxPanics
            /\ pass' = "dead" /\ todo' = {}
            /\ panics' = panics + 1 /\ clean' = 0
            /\ UNCHANGED <<kind, counts, snap, out, total>>

(* LocsForStack panics and the caller, the snapshot loop, recovers: the    *)
(* mutex is released by its defer, the other entries keep their acc.       *)
Abort == /\ panics < MaxPanics
         /\ pass' = "idle" /\ todo' = {}
         /\ panics' = panics + 1 /\ clean' = 0
         /\ UNCHANGED <<kind, counts, snap, out, total>>

HeapPanic(b) == LET k == KeyOf[b] IN
                /\ kind = "heap" /\ pass = "delta" /\ IsNext(b)
                /\ ~HeapSkipped(b) /\ HeapDiff(k) # Zero
                /\ HeapAdvance(k) /\ Abort

-----------------------------------------------------------------------------
(* Second loop of PrintCountCycleProfile: the entry is advanced whatever   *)
(* the difference.                                                         *)

CountSkip(b) == /\ kind = "count" /\ acc[KeyOf[b]] = Zero /\ Visit("delta", b)
                /\ UNCHANGED <<acc, prev, out, total>>

(* count, inanosec                                                         *)
Scaled(k) == [n |-> acc[k].n, m |-> acc[k].m \div GHz]
CountDiff(k) == Minus(Scaled(k), prev[k])
Reported(d) == d.n >= 0 /\ d.m >= 0 /\ d # Zero

(* prev is advanced only by what is reported                               *)
BadCountAdvance(k) ==
  /\ acc' = [acc EXCEPT ![k] = Zero]
  /\ prev' = IF Reported(CountDiff(k)) THEN [prev EXCEPT ![k] = Scaled(k)] ELSE prev

CountAdvance(k) == /\ acc' = [acc EXCEPT ![k] = Zero]
                   /\ prev' = [prev EXCEPT ![k] = Scaled(k)]

CountDelta(b) ==
  LET k == KeyOf[b] IN
  /\ kind = "count" /\ acc[k] # Zero /\ Visit("delta", b)
  /\ CountAdvance(k)
  /\ IF Reported(CountDiff(k)) THEN Report(k, CountDiff(k)) ELSE UNCHANGED <<out, total>>

CountPanic(b) == LET k == KeyOf[b] IN
                 /\ kind = "count" /\ pass = "delta" /\ IsNext(b)
                 /\ acc[k] # Zero /\ Reported(CountDiff(k))
                 /\ CountAdvance(k) /\ Abort

(* b.Build(), and the mutex is released                                    *)
Build ==
  /\ pass = "delta" /\ todo = {}
  /\ pass' = "idle"
  /\ clean' = Min({clean + 1, 2})
  /\ UNCHANGED <<kind, counts, snap, todo, acc, prev, out, total, panics>>

WriteHeapProto(b) == HeapAccumulate(b) \/ HeapSkip(b) \/ HeapDelta(b) \/ HeapPanic(b)
PrintCountCycleProfile(b) ==
  CountAccumulate(b) \/ CountSkip(b) \/ CountDelta(b) \/ CountPanic(b)

Write == \/ \E b \in Buckets : WriteHeapProto(b) \/ PrintCountCycleProfile(b)
         \/ SecondLoop \/ Build

Next == \/ \E b \in Buckets : Allocate(b) \/ Free(b) \/ \E d \in Delays : Contend(b, d)
        \/ HeapProfile \/ BlockProfile \/ Write

Spec == Init /\ [][Next]_vars /\ WF_vars(Write)

-----------------------------------------------------------------------------
(* Properties.                                                             *)

Of(k) == {b \in Buckets : KeyOf[b] = k}

(* What the runtime had counted for a key, over all its buckets, when the  *)
(* last profile was taken.                                                 *)
Counted(k) == [n |-> Sum([b \in Buckets |-> snap[b].n], Of(k)),
               m |-> Sum([b \in Buckets |-> snap[b].m], Of(k))
                       \div (IF kind = "heap" THEN 1 ELSE GHz)]

(* The differences add up: what all profiles reported for a stack is what  *)
(* the runtime counted.  Rounding nanoseconds down in each profile loses   *)
(* less than a nanosecond in all, not in each.                             *)
DeltasAddUp ==
  pass = "idle" /\ panics = 0 => \A k \in Keys :
    total[k].n = Counted(k).n /\ (kind = "count" => total[k].m = Counted(k).m)

(* A profile has one sample for a stack, however many buckets it has; in   *)
(* the heap profile it shows the objects in use in all of them.            *)
OneSamplePerStack ==
  pass = "idle" /\ panics = 0 => \A k \in Keys :
    /\ Len(out[k]) <= 1
    /\ kind = "heap" /\ Counted(k).m > 0 => out[k] # <<>> /\ out[k][1].m = Counted(k).m

(* In block and mutex profiles a panic that the snapshot loop recovered    *)
(* from disturbs the next profile but not those after the second:          *)
(* entry.prev is right again.                                              *)
HealsAfterPanic ==
  kind = "count" /\ pass = "idle" /\ clean = 2 => \A k \in Keys : prev[k] = Counted(k)

(* Profile lets go of the mutex, by returning or by panicking: the next    *)
(* snapshot and a request to the delta handlers can take a profile.        *)
ProfileEnds == pass # "idle" ~> pass = "idle"
=============================================================================
