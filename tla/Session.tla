------------------------------ MODULE Session ------------------------------
(***************************************************************************)
(* The snapshots of a profiling session: session.go, takeSnapshots, reset, *)
(* uploadData and the dump functions.                                      *)
(*                                                                         *)
(* At every tick, and at every Flush, the loop uploads one profile of each *)
(* enabled kind for the window since the previous snapshot.  Time is the   *)
(* integers; uploads, dumps and garbage collections take place while it    *)
(* passes.  What happens to the CPU collector is the subject of Profiler.  *)
(***************************************************************************)
EXTENDS Integers, FiniteSets

CONSTANTS Enabled,        \* the kinds of profile that are enabled
          Rate,           \* ps.uploadRate
          MaxFlushes,     \* bound on calls of Flush
          MaxTime,        \* bound on the clock
          MaxGC,          \* bound on garbage collections
          MaxFailures     \* bound on dumps of one kind that fail

Aborting == {"goroutine", "goroutineleak"}     \* dumps written in uploadData
Delta == {"block", "mutex", "heap"}            \* dumps of godeltaprof

ASSUME KindAssumption == Enabled \subseteq Aborting \cup Delta
ASSUME RateAssumption == Rate \in Nat \ {0}
ASSUME BoundAssumption ==
          /\ MaxTime \in Nat /\ MaxGC \in Nat
          /\ MaxFailures \in Nat /\ MaxFlushes \in Nat

VARIABLES
  now,            \* the clock
  fires, tick,    \* when the ticker fires next; the time in its channel, or 0
  startTime,      \* ps.startTime, 0 is the zero time
  disableGCRuns,  \* ps.disableGCRuns, which does not change
  available,      \* goroutine profiles pprof.Lookup finds in this build
  pc,             \* the kind uploadData has come to, or the loop's position
  cause,          \* what the snapshot in progress is for
  from, until,    \* its window
  gc, seen,       \* numGC of the runtime; currentGCGeneration
  lastGC,         \* ps.lastGCGeneration
  bufs,           \* dumps in the buffer of each kind
  sent, failed,   \* history: kinds uploaded and kinds whose dump failed in
                  \* the last snapshot
  spoiled,        \* history: uploads of each kind that held more than one dump
  heapGC,         \* history: numGC when the last uploaded heap profile was taken
  failures,       \* history: dumps of each kind that failed
  flushes

vars == <<disableGCRuns, available, now, fires, tick, startTime, pc, cause, from, until, gc, seen,
          lastGC, bufs, sent, failed, spoiled, heapGC, failures, flushes>>
clockVars == <<now, fires, tick, gc>>
windowVars == <<disableGCRuns, available, startTime, cause, from, until, flushes>>
dumpVars == <<seen, lastGC, bufs, sent, failed, spoiled, heapGC, failures>>

Order == [goroutine |-> "goroutineleak", goroutineleak |-> "block",
          block |-> "mutex", mutex |-> "heap", heap |-> "end"]

(* the wrong multiple of the upload rate                                   *)
BadTruncatedTime(t) == (t - (t % Rate)) - Rate

truncatedTime(t) == t - (t % Rate)

(* Start: the first reset uploads nothing and sets startTime; the clock    *)
(* has any phase with respect to the upload rate.  The runtime always has  *)
(* a goroutine profile; goroutineleak is an experiment of some builds.     *)
Init == /\ disableGCRuns \in BOOLEAN
        /\ available \in {{"goroutine"}, {"goroutine", "goroutineleak"}}
        /\ now \in 2 * Rate .. 3 * Rate - 1
        /\ startTime = truncatedTime(now)
        /\ fires = now + Rate /\ tick = 0
        /\ pc = "select" /\ cause = "start"
        /\ from = startTime /\ until = startTime
        /\ gc \in {0, 1} /\ seen = 0 /\ lastGC = 0
        /\ bufs = [k \in Enabled |-> 0]
        /\ spoiled = [k \in Enabled |-> 0] /\ failures = [k \in Enabled |-> 0]
        /\ sent = {} /\ failed = {}
        /\ heapGC = 0 /\ flushes = 0

-----------------------------------------------------------------------------
(* Time passes.  The ticker drops ticks for a slow receiver.               *)
Pass == /\ now < MaxTime
        /\ now' = now + 1
        /\ IF now' = fires
           THEN /\ fires' = fires + Rate
                /\ tick' = IF tick = 0 THEN now' ELSE tick
           ELSE UNCHANGED <<fires, tick>>
        /\ UNCHANGED <<pc, gc, windowVars, dumpVars>>

Collect == /\ gc < MaxGC
           /\ gc' = gc + 1
           /\ UNCHANGED <<now, fires, tick, pc, windowVars, dumpVars>>

-----------------------------------------------------------------------------
(* takeSnapshots: reset and uploadData begin                               *)
Reset(why, end) ==
  /\ pc = "select"
  /\ pc' = "goroutine"
  /\ cause' = why
  /\ from' = startTime
  /\ until' = end
  /\ sent' = {} /\ failed' = {}
  /\ UNCHANGED <<disableGCRuns, available, now, fires, gc, startTime, seen, lastGC, bufs,
                 spoiled, heapGC, failures>>

OnTick == /\ tick # 0
          /\ Reset("tick", tick)
          /\ tick' = 0
          /\ UNCHANGED flushes

OnFlush == /\ flushes < MaxFlushes
           /\ Reset("flush", truncatedTime(now))
           /\ flushes' = flushes + 1
           /\ UNCHANGED tick

(* startTime is read from the clock when the snapshot is over              *)
BadResetEnd == /\ pc = "end"
               /\ startTime' = now
               /\ pc' = "select"
               /\ UNCHANGED <<clockVars, disableGCRuns, available, cause, from, until, flushes,
                              dumpVars>>

(* ps.startTime = endTime                                                  *)
ResetEnd == /\ pc = "end"
            /\ startTime' = until
            /\ pc' = "select"
            /\ UNCHANGED <<clockVars, disableGCRuns, available, cause, from, until, flushes,
                           dumpVars>>

-----------------------------------------------------------------------------
(* uploadData                                                              *)

NotEnabled == /\ pc \in DOMAIN Order /\ pc \notin Enabled
              /\ pc' = Order[pc]
              /\ UNCHANGED <<clockVars, windowVars, dumpVars>>

(* p == nil: the build has no such profile                                *)
Unavailable == /\ pc \in (Aborting \cap Enabled) \ available
               /\ pc' = Order[pc]
               /\ UNCHANGED <<clockVars, windowVars, dumpVars>>

(* upstream.Upload of what is in the buffer                                *)
Upload(k, dumps) ==
  /\ sent' = sent \cup {k}
  /\ spoiled' = IF dumps > 1 THEN [spoiled EXCEPT ![k] = @ + 1] ELSE spoiled

(* the buffer is not emptied after the upload                              *)
BadDumpGoroutines ==
  /\ pc \in Aborting \cap Enabled \cap available
  /\ bufs' = [bufs EXCEPT ![pc] = @ + 1]
  /\ Upload(pc, bufs[pc] + 1)
  /\ pc' = Order[pc]
  /\ UNCHANGED <<clockVars, windowVars, seen, lastGC, failed, heapGC, failures>>

(* goroutine and goroutineleak: the dump goes on top of what is in the     *)
(* buffer, which is emptied after the upload                               *)
DumpGoroutines ==
  /\ pc \in Aborting \cap Enabled \cap available
  /\ Upload(pc, bufs[pc] + 1)
  /\ bufs' = [bufs EXCEPT ![pc] = 0]
  /\ pc' = Order[pc]
  /\ UNCHANGED <<clockVars, windowVars, seen, lastGC, failed, heapGC, failures>>

(* a failed dump of block or mutex ends uploadData                         *)
BadFail ==
  /\ pc \in Enabled \ {"heap"} /\ (pc \in Aborting => pc \in available)
  /\ failures[pc] < MaxFailures
  /\ failures' = [failures EXCEPT ![pc] = @ + 1]
  /\ failed' = failed \cup {pc}
  /\ bufs' = [bufs EXCEPT ![pc] = IF pc \in Aborting THEN @ + 1 ELSE 1]
  /\ pc' = "end"
  /\ UNCHANGED <<clockVars, windowVars, seen, lastGC, sent, spoiled, heapGC>>

(* WriteTo or Profile returns an error, or Profile panics.  A part of the  *)
(* dump is in the buffer.  In uploadData the error ends the snapshot.      *)
Fail ==
  /\ pc \in Enabled \ {"heap"} /\ (pc \in Aborting => pc \in available)
  /\ failures[pc] < MaxFailures
  /\ failures' = [failures EXCEPT ![pc] = @ + 1]
  /\ failed' = failed \cup {pc}
  /\ bufs' = [bufs EXCEPT ![pc] = IF pc \in Aborting THEN @ + 1 ELSE 1]
  /\ pc' = IF pc \in Aborting THEN "end" ELSE Order[pc]
  /\ UNCHANGED <<clockVars, windowVars, seen, lastGC, sent, spoiled, heapGC>>

(* dumpBlockProfile, dumpMutexProfile: the buffer is emptied before the    *)
(* dump and kept after it                                                  *)
DumpDelta ==
  /\ pc \in {"block", "mutex"} \cap Enabled
  /\ bufs' = [bufs EXCEPT ![pc] = 1]
  /\ Upload(pc, 1)
  /\ pc' = Order[pc]
  /\ UNCHANGED <<clockVars, windowVars, seen, lastGC, failed, heapGC, failures>>

(* dumpHeapProfile: read numGC, force a collection if there was none since *)
(* the last upload, and go on if there is one now.                         *)
HeapBegin ==
  /\ pc = "heap" /\ pc \in Enabled
  /\ gc' = IF gc = lastGC /\ ~disableGCRuns THEN gc + 1 ELSE gc
  /\ seen' = gc'
  /\ pc' = IF gc' = lastGC THEN "end" ELSE "profile"
  /\ UNCHANGED <<now, fires, tick, windowVars, lastGC, bufs, sent, failed, spoiled, heapGC,
                 failures>>

(* the generation is taken after the profile was                           *)
BadHeapProfile ==
  /\ pc = "profile"
  /\ bufs' = [bufs EXCEPT !["heap"] = 1]
  /\ Upload("heap", 1)
  /\ heapGC' = seen
  /\ lastGC' = gc
  /\ pc' = "end"
  /\ UNCHANGED <<clockVars, windowVars, seen, failed, failures>>

HeapProfile ==
  /\ pc = "profile"
  /\ bufs' = [bufs EXCEPT !["heap"] = 1]
  /\ Upload("heap", 1)
  /\ heapGC' = gc
  /\ lastGC' = seen
  /\ pc' = "end"
  /\ UNCHANGED <<clockVars, windowVars, seen, failed, failures>>

HeapFail ==
  /\ pc = "profile"
  /\ failures["heap"] < MaxFailures
  /\ failures' = [failures EXCEPT !["heap"] = @ + 1]
  /\ failed' = failed \cup {"heap"}
  /\ bufs' = [bufs EXCEPT !["heap"] = 1]
  /\ pc' = "end"
  /\ UNCHANGED <<clockVars, windowVars, seen, lastGC, sent, spoiled, heapGC>>

uploadData == \/ NotEnabled \/ Unavailable \/ DumpGoroutines \/ Fail \/ DumpDelta
              \/ HeapBegin \/ HeapProfile \/ HeapFail

takeSnapshots == OnTick \/ OnFlush \/ uploadData \/ ResetEnd

Next == Pass \/ Collect \/ takeSnapshots

Spec == Init /\ [][Next]_vars

-----------------------------------------------------------------------------
(* Properties.                                                             *)

Snapshot == pc \notin {"select"}
Finished == pc = "select" /\ cause # "start"

(* As long as nobody flushes, every window ends after it begins, however   *)
(* late the loop takes a tick and however long a snapshot takes.           *)
TickWindowsAdvance == Snapshot /\ flushes = 0 => from < until

(* A flush ends its window at a multiple of the upload rate, which may lie *)
(* before the window's start (the last tick): by less than one upload rate.*)
FlushSkewBounded == Snapshot /\ cause = "flush" => from - until < Rate

(* A snapshot has uploaded every enabled kind the build has but those      *)
(* whose own dump failed, unless a goroutine dump failed, which ends       *)
(* uploadData, or, for the heap, collections are not forced.               *)
OnlyFailedMissing ==
  Finished /\ failed \cap Aborting = {} =>
    Enabled \subseteq sent \cup failed \cup (Aborting \ available)
                        \cup (IF disableGCRuns THEN {"heap"} ELSE {})

(* A failed dump spoils at most one upload.  What it left in the buffer is *)
(* uploaded in front of the next dump of the kind if that is a goroutine   *)
(* profile, together with the rests of other failed dumps, and is then     *)
(* gone: the uploads after it are whole, until a dump fails again.         *)
SpoilsOneUpload == \A k \in Enabled : spoiled[k] <= failures[k]

(* The generation remembered is not newer than the heap profile that was   *)
(* uploaded: no collection is taken for uploaded that was not, though one  *)
(* may end while the profile is being taken.                               *)
NoCollectionMissed == lastGC <= heapGC
=============================================================================
