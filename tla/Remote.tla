------------------------------- MODULE Remote -------------------------------
(***************************************************************************)
(* The upload queue: upstream/remote/remote.go.                            *)
(*                                                                         *)
(* Callers (the snapshot loop and the CPU collector) put jobs on a bounded *)
(* channel; worker goroutines take them off and post them.  Every job      *)
(* carries a pointer to the WaitGroup that was current when it was put on  *)
(* the channel; Flush swaps the current WaitGroup for a fresh one and      *)
(* waits for the old one.  WaitGroups are numbered in the order they are   *)
(* allocated.  Definitions whose names start with Bad are wrong variants   *)
(* of the definition that follows them, kept to show what the properties   *)
(* rule out; no specification uses them.                                   *)
(***************************************************************************)
EXTENDS Integers, Sequences, FiniteSets

CONSTANTS Callers,      \* goroutines that call Upload
          Flushers,     \* goroutines that call Flush
          Workers,      \* cfg.Threads goroutines running handleJobs
          Jobs,         \* upload jobs, one pointer each
          QueueCap,     \* capacity of the channel (20 in NewRemote)
          MaxFlushes,   \* bound on the number of Flush calls
          MayStop,      \* whether Stop is ever called
          None

ASSUME CapAssumption == QueueCap \in Nat \ {0}
ASSUME FlushBound == MaxFlushes \in Nat
ASSUME FiniteJobs == IsFiniteSet(Jobs)
ASSUME FiniteWorkers == IsFiniteSet(Workers)
ASSUME NoneAssumption == None \notin Jobs \cup Callers \cup Flushers

Procs == Callers \cup Flushers
Gens == 1 .. MaxFlushes + 1

VARIABLES
  mu,           \* holder of Remote.mu
  pc,           \* where a caller is inside Upload or Flush
  arg,          \* the job of the Upload in progress
  waitOn,       \* the WaitGroup the Flush in progress waits for
  before,       \* history: jobs put on the channel before that Flush swapped
  queue,        \* channel jobs
  st,           \* where a job is
  gen,          \* job.flush: the WaitGroup of a job
  count,        \* counters of the flush WaitGroups
  flushWG,      \* Remote.flushWG
  wpc, cur,     \* a worker's position in handleJobs and its job
  recv,         \* how often a job was posted to the server
  wg,           \* counter of Remote.wg
  owner,        \* progress of the goroutine that calls Start and Stop
  left          \* history: jobs handed over and not posted when Stop was called

vars == <<mu, pc, arg, waitOn, before, queue, st, gen, count, flushWG,
          wpc, cur, recv, wg, owner, left>>
callerVars == <<mu, pc, arg, waitOn, before, flushWG>>
workerVars == <<wpc, cur, recv>>
ownerVars  == <<wg, owner, left>>

Done == owner \in {"stopping", "stopped"}     \* channel done is closed

JobStates == {"new", "offered", "added", "queued", "taken", "tried",
              "settled", "dropped"}

Init == /\ mu = None
        /\ pc = [c \in Procs |-> "idle"]
        /\ arg = [c \in Procs |-> None]
        /\ waitOn = [c \in Procs |-> 0]
        /\ before = [c \in Procs |-> {}]
        /\ queue = <<>>
        /\ st = [j \in Jobs |-> "new"]
        /\ gen = [j \in Jobs |-> 0]
        /\ count = [g \in Gens |-> 0]
        /\ flushWG = 1
        /\ wpc = [w \in Workers |-> "off"]
        /\ cur = [w \in Workers |-> None]
        /\ recv = [j \in Jobs |-> 0]
        /\ wg = 0
        /\ owner = "new"
        /\ left = {}

-----------------------------------------------------------------------------
(* Upload.                                                                 *)

UploadCall(c, j) ==
  /\ c \in Callers /\ pc[c] = "idle" /\ st[j] = "new"
  /\ pc' = [pc EXCEPT ![c] = "upload"]
  /\ arg' = [arg EXCEPT ![c] = j]
  /\ st' = [st EXCEPT ![j] = "offered"]
  /\ UNCHANGED <<mu, waitOn, before, queue, gen, count, flushWG>>
  /\ UNCHANGED <<workerVars, ownerVars>>

(* Lock, then flushWG.Add(1) before the job can be seen by a worker.       *)
UploadLock(c) ==
  /\ pc[c] = "upload" /\ mu = None
  /\ mu' = c
  /\ pc' = [pc EXCEPT ![c] = "select"]
  /\ count' = [count EXCEPT ![flushWG] = @ + 1]
  /\ gen' = [gen EXCEPT ![arg[c]] = flushWG]
  /\ st' = [st EXCEPT ![arg[c]] = "added"]
  /\ UNCHANGED <<arg, waitOn, before, queue, flushWG, workerVars, ownerVars>>

(* case r.jobs <- j                                                        *)
UploadSend(c) ==
  /\ pc[c] = "select" /\ Len(queue) < QueueCap
  /\ queue' = Append(queue, arg[c])
  /\ st' = [st EXCEPT ![arg[c]] = "queued"]
  /\ pc' = [pc EXCEPT ![c] = "unlock"]
  /\ UNCHANGED <<mu, arg, waitOn, before, gen, count, flushWG>>
  /\ UNCHANGED <<workerVars, ownerVars>>

(* a dropped job is not taken off its WaitGroup                            *)
BadDropNoDone(c) ==
  /\ pc[c] = "select" /\ Len(queue) >= QueueCap
  /\ st' = [st EXCEPT ![arg[c]] = "dropped"]
  /\ pc' = [pc EXCEPT ![c] = "unlock"]
  /\ UNCHANGED <<mu, arg, waitOn, before, queue, gen, count, flushWG>>
  /\ UNCHANGED <<workerVars, ownerVars>>

(* a select without default: Upload waits for room, holding mu             *)
BadDropBlocks(c) ==
  /\ pc[c] = "select" /\ Len(queue) >= QueueCap
  /\ UNCHANGED vars

(* default: the queue is full, the job is dropped                          *)
UploadDrop(c) ==
  /\ pc[c] = "select" /\ Len(queue) >= QueueCap
  /\ count' = [count EXCEPT ![gen[arg[c]]] = @ - 1]
  /\ st' = [st EXCEPT ![arg[c]] = "dropped"]
  /\ pc' = [pc EXCEPT ![c] = "unlock"]
  /\ UNCHANGED <<mu, arg, waitOn, before, queue, gen, flushWG>>
  /\ UNCHANGED <<workerVars, ownerVars>>

(* the deferred Unlock                                                     *)
UploadUnlock(c) ==
  /\ pc[c] = "unlock"
  /\ mu' = None
  /\ pc' = [pc EXCEPT ![c] = "idle"]
  /\ arg' = [arg EXCEPT ![c] = None]
  /\ UNCHANGED <<waitOn, before, queue, st, gen, count, flushWG>>
  /\ UNCHANGED <<workerVars, ownerVars>>

-----------------------------------------------------------------------------
(* Flush.                                                                  *)

FlushCall(c) ==
  /\ c \in Flushers /\ pc[c] = "idle"
  /\ flushWG + Cardinality({d \in Procs : pc[d] = "flush"}) <= MaxFlushes
  /\ pc' = [pc EXCEPT ![c] = "flush"]
  /\ UNCHANGED <<mu, arg, waitOn, before, queue, st, gen, count, flushWG>>
  /\ UNCHANGED <<workerVars, ownerVars>>

(* the WaitGroup waited for is read after the swap                         *)
BadSwapOrder(c) ==
  /\ pc[c] = "flush" /\ mu = None /\ flushWG <= MaxFlushes
  /\ flushWG' = flushWG + 1
  /\ waitOn' = [waitOn EXCEPT ![c] = flushWG']
  /\ before' = [before EXCEPT ![c] =
       {j \in Jobs : st[j] \in {"queued", "taken", "tried", "settled"}}]
  /\ pc' = [pc EXCEPT ![c] = "waiting"]
  /\ UNCHANGED <<mu, arg, queue, st, gen, count, workerVars, ownerVars>>

(* one WaitGroup for ever                                                  *)
BadNoSwap(c) ==
  /\ pc[c] = "flush" /\ mu = None
  /\ waitOn' = [waitOn EXCEPT ![c] = flushWG]
  /\ before' = [before EXCEPT ![c] =
       {j \in Jobs : st[j] \in {"queued", "taken", "tried", "settled"}}]
  /\ pc' = [pc EXCEPT ![c] = "waiting"]
  /\ UNCHANGED <<mu, arg, queue, st, gen, count, flushWG, workerVars, ownerVars>>

(* The critical section of Flush: only holders of mu touch flushWG.        *)
FlushSwap(c) ==
  /\ pc[c] = "flush" /\ mu = None /\ flushWG <= MaxFlushes
  /\ waitOn' = [waitOn EXCEPT ![c] = flushWG]
  /\ flushWG' = flushWG + 1
  /\ before' = [before EXCEPT ![c] =
       {j \in Jobs : st[j] \in {"queued", "taken", "tried", "settled"}}]
  /\ pc' = [pc EXCEPT ![c] = "waiting"]
  /\ UNCHANGED <<mu, arg, queue, st, gen, count, workerVars, ownerVars>>

(* Flush does not wait                                                     *)
BadFlushNoWait(c) ==
  /\ pc[c] = "waiting"
  /\ pc' = [pc EXCEPT ![c] = "idle"]
  /\ waitOn' = [waitOn EXCEPT ![c] = 0]
  /\ before' = [before EXCEPT ![c] = {}]
  /\ UNCHANGED <<mu, arg, queue, st, gen, count, flushWG>>
  /\ UNCHANGED <<workerVars, ownerVars>>

(* flush.Wait() returns                                                    *)
FlushReturn(c) ==
  /\ pc[c] = "waiting" /\ count[waitOn[c]] = 0
  /\ pc' = [pc EXCEPT ![c] = "idle"]
  /\ waitOn' = [waitOn EXCEPT ![c] = 0]
  /\ before' = [before EXCEPT ![c] = {}]
  /\ UNCHANGED <<mu, arg, queue, st, gen, count, flushWG>>
  /\ UNCHANGED <<workerVars, ownerVars>>

-----------------------------------------------------------------------------
(* handleJobs: one iteration is one of these.                              *)

WorkerTake(w) ==
  /\ wpc[w] = "select" /\ queue # <<>>
  /\ wpc' = [wpc EXCEPT ![w] = "uploading"]
  /\ cur' = [cur EXCEPT ![w] = Head(queue)]
  /\ queue' = Tail(queue)
  /\ st' = [st EXCEPT ![Head(queue)] = "taken"]
  /\ UNCHANGED <<callerVars, gen, count, recv, ownerVars>>

(* a request that failed is repeated, though the server may have got it    *)
BadUploadRetries(w) ==
  /\ wpc[w] = "uploading"
  /\ recv' = [recv EXCEPT ![cur[w]] = @ + 1]
  /\ \/ /\ wpc' = [wpc EXCEPT ![w] = "done"]
        /\ st' = [st EXCEPT ![cur[w]] = "tried"]
     \/ recv[cur[w]] = 0 /\ UNCHANGED <<wpc, st>>
  /\ UNCHANGED <<callerVars, cur, queue, gen, count, ownerVars>>

(* One request, which the server gets or does not get.  The error          *)
(* uploadProfile returns tells nobody which: it is logged.                 *)
uploadProfile(j) == \/ recv' = [recv EXCEPT ![j] = @ + 1]
                    \/ UNCHANGED recv

(* safeUpload: an error or a panic does not keep the worker from going on. *)
WorkerUpload(w) ==
  /\ wpc[w] = "uploading"
  /\ wpc' = [wpc EXCEPT ![w] = "done"]
  /\ st' = [st EXCEPT ![cur[w]] = "tried"]
  /\ uploadProfile(cur[w])
  /\ UNCHANGED <<callerVars, cur, queue, gen, count, ownerVars>>

(* j.flush.Done()                                                          *)
WorkerDone(w) ==
  /\ wpc[w] = "done"
  /\ wpc' = [wpc EXCEPT ![w] = "select"]
  /\ cur' = [cur EXCEPT ![w] = None]
  /\ count' = [count EXCEPT ![gen[cur[w]]] = @ - 1]
  /\ st' = [st EXCEPT ![cur[w]] = "settled"]
  /\ UNCHANGED <<callerVars, queue, gen, recv, ownerVars>>

(* a worker leaves without r.wg.Done()                                     *)
BadExitNoDone(w) ==
  /\ wpc[w] = "select" /\ Done
  /\ wpc' = [wpc EXCEPT ![w] = "exited"]
  /\ UNCHANGED <<callerVars, queue, st, gen, count, cur, recv, ownerVars>>

(* case <-r.done: nothing prefers it to, or puts it after, a queued job.   *)
WorkerExit(w) ==
  /\ wpc[w] = "select" /\ Done
  /\ wpc' = [wpc EXCEPT ![w] = "exited"]
  /\ wg' = wg - 1
  /\ UNCHANGED <<callerVars, queue, st, gen, count, cur, recv, owner, left>>

-----------------------------------------------------------------------------
Start ==
  /\ owner = "new"
  /\ owner' = "running"
  /\ wg' = wg + Cardinality(Workers)
  /\ wpc' = [w \in Workers |-> "select"]
  /\ UNCHANGED <<callerVars, queue, st, gen, count, cur, recv, left>>

(* close(r.done)                                                           *)
Stop ==
  /\ owner = "running" /\ MayStop
  /\ owner' = "stopping"
  /\ left' = {j \in Jobs : /\ st[j] \in {"queued", "taken"}
                           /\ \A c \in Procs : arg[c] # j}
  /\ UNCHANGED <<callerVars, queue, st, gen, count, workerVars, wg>>

(* r.wg.Wait() returns                                                     *)
StopReturn ==
  /\ owner = "stopping" /\ wg = 0
  /\ owner' = "stopped"
  /\ UNCHANGED <<callerVars, queue, st, gen, count, workerVars, wg, left>>

-----------------------------------------------------------------------------
UploadStep(c) == UploadLock(c) \/ UploadSend(c) \/ UploadDrop(c) \/ UploadUnlock(c)
FlushStep(c) == FlushSwap(c) \/ FlushReturn(c)
handleJobs(w) == WorkerTake(w) \/ WorkerUpload(w) \/ WorkerDone(w) \/ WorkerExit(w)

Next == \/ \E c \in Procs : \/ \E j \in Jobs : UploadCall(c, j)
                            \/ UploadStep(c)
                            \/ FlushCall(c)
                            \/ FlushStep(c)
        \/ \E w \in Workers : handleJobs(w)
        \/ Start \/ Stop \/ StopReturn

Spec == Init /\ [][Next]_vars

(* Goroutines that call Upload or Flush run; the server need not answer.   *)
CallerFairness == \A c \in Procs : WF_vars(UploadStep(c)) /\ WF_vars(FlushStep(c))
(* The workers run as well: the HTTP client has a timeout, so every        *)
(* request ends.                                                           *)
WorkerFairness == /\ \A w \in Workers : WF_vars(handleJobs(w))
                  /\ WF_vars(Start) /\ WF_vars(StopReturn)

FairSpec == Spec /\ CallerFairness
-----------------------------------------------------------------------------
(* Properties.                                                             *)

TypeOK ==
  /\ mu \in Procs \cup {None}
  /\ pc \in [Procs -> {"idle", "upload", "select", "unlock", "flush", "waiting"}]
  /\ arg \in [Procs -> Jobs \cup {None}]
  /\ waitOn \in [Procs -> Gens \cup {0}]
  /\ before \in [Procs -> SUBSET Jobs]
  /\ queue \in Seq(Jobs) /\ Len(queue) <= QueueCap
  /\ st \in [Jobs -> JobStates]
  /\ gen \in [Jobs -> Gens \cup {0}]
  /\ count \in [Gens -> Nat]
  /\ flushWG \in Gens
  /\ wpc \in [Workers -> {"off", "select", "uploading", "done", "exited"}]
  /\ cur \in [Workers -> Jobs \cup {None}]
  /\ recv \in [Jobs -> Nat]
  /\ wg \in Nat
  /\ owner \in {"new", "running", "stopping", "stopped"}
  /\ left \subseteq Jobs

(* The jobs of a WaitGroup on which Done has still to be called.           *)
Live(g) == {j \in Jobs : gen[j] = g /\ st[j] \in {"added", "queued", "taken", "tried"}}

(* A flush WaitGroup counts exactly its jobs between Upload's Add(1) and   *)
(* the Done of Upload (queue full) or of handleJobs: no counter goes       *)
(* negative, which would panic, and none stays up without a job to bring   *)
(* it down, which would hang Flush.                                        *)
WaitGroupCounts == \A g \in Gens : count[g] = Cardinality(Live(g))

(* No job is posted twice, and a job that Upload dropped or has not queued *)
(* yet is not posted at all: the profiles are deltas, and a second copy    *)
(* would be added to the first by the server.                              *)
PostedAtMostOnce ==
  \A j \in Jobs : /\ recv[j] <= 1
                  /\ recv[j] > 0 => st[j] \in {"tried", "settled"}

(* With one goroutine that flushes (takeSnapshots is the only one in the   *)
(* package) flush.Wait() does not return before every job queued ahead of  *)
(* the Flush has been attempted, those of earlier WaitGroups included.     *)
FlushBarrier ==
  \A f \in Flushers :
    pc[f] = "waiting" /\ count[waitOn[f]] = 0
      => \A j \in before[f] : st[j] \in {"tried", "settled"}

(* Upload never calls Add on a WaitGroup some Flush is waiting for: the    *)
(* misuse of sync.WaitGroup that TestConcurrentUploadFlushRace is about.   *)
NoAddDuringWait ==
  [][\A g \in Gens : count'[g] > count[g]
        => \A f \in Flushers : pc[f] = "waiting" => waitOn[f] # g]_vars

(* Upload and Flush keep the promise of the Upstream interface.            *)
PhaseOf(s) == CASE s \in {"new", "offered", "added"} -> "new"
                [] s \in {"queued", "taken"} -> "accepted"
                [] s \in {"tried", "settled"} -> "tried"
                [] s = "dropped" -> "dropped"

Abs == INSTANCE Upstream WITH
         phase <- [j \in Jobs |-> PhaseOf(st[j])],
         flushing <- [f \in Flushers |-> pc[f] = "waiting"],
         pending <- [f \in Flushers |-> before[f]]

RefinesUpstream == Abs!USpec

(* Upload returns even if no worker ever makes progress: a full queue      *)
(* drops the job, it does not block the profilers.                         *)
UploadReturns == \A c \in Callers : pc[c] = "upload" ~> pc[c] = "idle"

(* Flush and Stop return if the workers get to run, whatever the outcome   *)
(* of the uploads: every job is taken off its WaitGroup, unless Remote is  *)
(* stopped first, and every worker sees done closed.                       *)
WaitsEnd ==
  WorkerFairness =>
    /\ \A f \in Flushers : pc[f] = "flush" ~> (pc[f] = "idle" \/ Done)
    /\ owner = "stopping" ~> owner = "stopped"

(* The comment on Profiler.Stop (api.go:101): the remaining profiling data *)
(* present when Stop was called has been uploaded when Stop returns.       *)
StopUploadsRemaining ==
  owner = "stopped" => \A j \in left : st[j] \in {"tried", "settled"}
=============================================================================
