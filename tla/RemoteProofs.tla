---------------------------- MODULE RemoteProofs ----------------------------
(***************************************************************************)
(* Proofs about the upload queue, for any number of callers, flushers,     *)
(* workers and jobs, any capacity of the channel and any number of         *)
(* flushes.                                                                *)
(***************************************************************************)
EXTENDS Remote, FiniteSetTheorems, SequenceTheorems, TLAPS

(* The mutex is held from Upload's Lock to its deferred Unlock.            *)
Mutex == \A c \in Procs : pc[c] \in {"select", "unlock"} <=> mu = c

(* Only a flusher is inside Flush.                                         *)
FlushersFlush == \A c \in Procs : pc[c] \in {"flush", "waiting"} => c \in Flushers

(* An Upload that has not decided about its job has the job to itself.     *)
Carried ==
  /\ \A c \in Procs : /\ pc[c] = "upload" => arg[c] \in Jobs /\ st[arg[c]] = "offered"
                      /\ pc[c] = "select" => arg[c] \in Jobs /\ st[arg[c]] = "added"
  /\ \A c, d \in Procs :
       pc[c] \in {"upload", "select"} /\ pc[d] \in {"upload", "select"} /\ c # d
         => arg[c] # arg[d]

(* The channel holds the queued jobs, each once.                           *)
Channel ==
  /\ \A i \in 1 .. Len(queue) : st[queue[i]] = "queued"
  /\ \A i, k \in 1 .. Len(queue) : queue[i] = queue[k] => i = k

(* A worker has the job it took to itself until it is settled.             *)
InHand ==
  /\ \A w \in Workers : /\ wpc[w] = "uploading" => cur[w] \in Jobs /\ st[cur[w]] = "taken"
                        /\ wpc[w] = "done" => cur[w] \in Jobs /\ st[cur[w]] = "tried"
  /\ \A w, v \in Workers :
       wpc[w] \in {"uploading", "done"} /\ wpc[v] \in {"uploading", "done"} /\ w # v
         => cur[w] # cur[v]

Unsettled == {"added", "queued", "taken", "tried"}

(* A job counted by a WaitGroup knows which, and it is the current one or  *)
(* one that some Flush waits for.                                          *)
Numbered ==
  \A j \in Jobs : st[j] \in Unsettled =>
    /\ gen[j] \in 1 .. flushWG
    /\ gen[j] = flushWG \/ \E c \in Procs : pc[c] = "waiting" /\ waitOn[c] = gen[j]

(* A Flush waits for a WaitGroup that is no longer current; the jobs       *)
(* queued before it belong to that WaitGroup or to earlier ones.           *)
Behind ==
  \A c \in Procs : pc[c] = "waiting" =>
    /\ waitOn[c] \in Gens /\ waitOn[c] < flushWG
    /\ \A j \in before[c] : /\ st[j] \in {"queued", "taken", "tried", "settled"}
                            /\ st[j] # "settled" => gen[j] <= waitOn[c]

(* Remote.wg counts the workers that have not exited.                      *)
Running == {w \in Workers : wpc[w] \in {"select", "uploading", "done"}}
WorkersCounted == /\ wg = Cardinality(Running)
                  /\ owner = "new" => wpc = [w \in Workers |-> "off"]

RemInv == /\ TypeOK /\ Mutex /\ FlushersFlush /\ Carried /\ Channel /\ InHand
          /\ Numbered /\ Behind /\ WorkersCounted /\ WaitGroupCounts /\ PostedAtMostOnce


(* The jobs of a WaitGroup are finitely many.                              *)
LEMMA LiveFinite == \A g : IsFiniteSet(Live(g))
BY FiniteJobs, FS_Subset DEF Live

(* A step that starts and settles no job keeps the counters right.         *)
LEMMA CountSame ==
  ASSUME WaitGroupCounts, count' = count, \A g \in Gens : Live(g)' = Live(g)
  PROVE  WaitGroupCounts'
BY DEF WaitGroupCounts

(* flushWG.Add(1) for a job that was not counted.                          *)
LEMMA CountUp ==
  ASSUME TypeOK, WaitGroupCounts, NEW g \in Gens, NEW j \in Jobs, j \notin Live(g),
         count' = [count EXCEPT ![g] = @ + 1], Live(g)' = Live(g) \cup {j},
         \A k \in Gens \ {g} : Live(k)' = Live(k)
  PROVE  WaitGroupCounts'
<1>1. Cardinality(Live(g) \cup {j}) = Cardinality(Live(g)) + 1
  BY LiveFinite, FS_AddElement
<1>2. count'[g] = Cardinality(Live(g)')
  BY <1>1 DEF TypeOK, WaitGroupCounts
<1>3. \A k \in Gens \ {g} : count'[k] = Cardinality(Live(k)')
  BY DEF TypeOK, WaitGroupCounts
<1> QED BY <1>2, <1>3 DEF WaitGroupCounts

(* Done for a job that was counted: the counter was positive.              *)
LEMMA CountDown ==
  ASSUME TypeOK, WaitGroupCounts, NEW g \in Gens, NEW j \in Jobs, j \in Live(g),
         count' = [count EXCEPT ![g] = @ - 1], Live(g)' = Live(g) \ {j},
         \A k \in Gens \ {g} : Live(k)' = Live(k)
  PROVE  WaitGroupCounts' /\ count' \in [Gens -> Nat]
<1>1. /\ Cardinality(Live(g) \ {j}) = Cardinality(Live(g)) - 1
      /\ IsFiniteSet(Live(g) \ {j})
  BY LiveFinite, FS_RemoveElement
<1>2. Cardinality(Live(g) \ {j}) \in Nat
  BY <1>1, FS_CardinalityType
<1>3. count'[g] = Cardinality(Live(g)') /\ count'[g] \in Nat
  BY <1>1, <1>2 DEF TypeOK, WaitGroupCounts
<1>4. \A k \in Gens \ {g} : count'[k] = Cardinality(Live(k)') /\ count'[k] \in Nat
  BY DEF TypeOK, WaitGroupCounts
<1> QED BY <1>3, <1>4 DEF WaitGroupCounts, TypeOK

(* The workers that run are finitely many.                                 *)
LEMMA RunningFinite == IsFiniteSet(Running)
BY FiniteWorkers, FS_Subset DEF Running

(* A job that nobody has is offered to the queue.                          *)
LEMMA UploadCallInv ==
  ASSUME NEW c \in Procs, NEW j \in Jobs, RemInv, UploadCall(c, j)
  PROVE  RemInv'
<1> USE DEF UploadCall, workerVars, ownerVars
<1>1. TypeOK'
  BY DEF RemInv, TypeOK, JobStates
<1>2. Mutex' /\ FlushersFlush'
  BY DEF RemInv, Mutex, FlushersFlush
<1>3. Carried'
  BY DEF RemInv, TypeOK, Carried
<1>4. Channel'
  BY DEF RemInv, Channel
<1>5. InHand'
  BY DEF RemInv, InHand
<1>6. Numbered'
  BY DEF RemInv, Numbered, Unsettled
<1>7. Behind'
  BY DEF RemInv, Behind
<1>8. WorkersCounted'
  <2>1. Running' = Running
    BY DEF RemInv, Running
  <2> QED BY <2>1 DEF RemInv, WorkersCounted
<1>9. WaitGroupCounts'
  <2>1. \A g \in Gens : Live(g)' = Live(g)
    BY DEF RemInv, Live
  <2> QED BY <2>1, CountSame DEF RemInv
<1>10. PostedAtMostOnce'
  BY DEF RemInv, PostedAtMostOnce
<1> QED BY <1>1, <1>2, <1>3, <1>4, <1>5, <1>6, <1>7, <1>8, <1>9, <1>10 DEF RemInv

(* Upload counts its job on the current WaitGroup.                         *)
LEMMA UploadLockInv ==
  ASSUME NEW c \in Procs, RemInv, UploadLock(c)
  PROVE  RemInv'
<1> USE DEF UploadLock, workerVars, ownerVars
<1>0. arg[c] \in Jobs /\ st[arg[c]] = "offered" /\ flushWG \in Gens
  BY DEF RemInv, TypeOK, Carried
<1>1. TypeOK'
  BY <1>0 DEF RemInv, TypeOK, JobStates
<1>2. Mutex' /\ FlushersFlush'
  BY NoneAssumption DEF RemInv, TypeOK, Mutex, FlushersFlush, Procs
<1>3. Carried'
  BY DEF RemInv, TypeOK, Carried
<1>4. Channel'
  BY <1>0 DEF RemInv, Channel
<1>5. InHand'
  BY <1>0 DEF RemInv, InHand
<1>6. Numbered'
  <2>1. \A j \in Jobs \ {arg[c]} : st'[j] = st[j] /\ gen'[j] = gen[j]
    BY DEF RemInv
  <2>2. gen'[arg[c]] = flushWG /\ flushWG \in 1 .. flushWG
    BY <1>0 DEF RemInv, TypeOK, Gens
  <2>3. \A d \in Procs : pc[d] = "waiting" => pc'[d] = "waiting"
    BY DEF RemInv
  <2> QED BY <2>1, <2>2, <2>3 DEF RemInv, Numbered
<1>7. Behind'
  BY <1>0 DEF RemInv, Behind
<1>8. WorkersCounted'
  <2>1. Running' = Running
    BY DEF RemInv, Running
  <2> QED BY <2>1 DEF RemInv, WorkersCounted
<1>9. WaitGroupCounts'
  <2>1. Live(flushWG)' = Live(flushWG) \cup {arg[c]} /\ arg[c] \notin Live(flushWG)
    BY <1>0 DEF RemInv, TypeOK, Live
  <2>2. \A k \in Gens \ {flushWG} : Live(k)' = Live(k)
    BY <1>0 DEF RemInv, TypeOK, Live
  <2> QED BY <1>0, <2>1, <2>2, CountUp DEF RemInv
<1>10. PostedAtMostOnce'
  BY <1>0 DEF RemInv, PostedAtMostOnce
<1> QED BY <1>1, <1>2, <1>3, <1>4, <1>5, <1>6, <1>7, <1>8, <1>9, <1>10 DEF RemInv

(* The job goes to the end of the channel.                                 *)
LEMMA UploadSendInv ==
  ASSUME NEW c \in Procs, RemInv, UploadSend(c)
  PROVE  RemInv'
<1> USE DEF UploadSend, workerVars, ownerVars
<1>0. /\ arg[c] \in Jobs /\ st[arg[c]] = "added"
      /\ queue' \in Seq(Jobs) /\ Len(queue') = Len(queue) + 1 /\ Len(queue) \in Nat
      /\ queue'[Len(queue) + 1] = arg[c]
      /\ \A i \in 1 .. Len(queue) : queue'[i] = queue[i] /\ queue[i] \in Jobs
  BY DEF RemInv, TypeOK, Carried
<1>1. TypeOK'
  BY <1>0, CapAssumption DEF RemInv, TypeOK, JobStates
<1>2. Mutex' /\ FlushersFlush'
  BY DEF RemInv, Mutex, FlushersFlush
<1>3. Carried'
  BY DEF RemInv, TypeOK, Carried
<1>4. Channel'
  BY <1>0 DEF RemInv, TypeOK, Channel
<1>5. InHand'
  BY <1>0 DEF RemInv, InHand
<1>6. Numbered'
  BY <1>0 DEF RemInv, Numbered, Unsettled
<1>7. Behind'
  BY <1>0 DEF RemInv, Behind
<1>8. WorkersCounted'
  <2>1. Running' = Running
    BY DEF RemInv, Running
  <2> QED BY <2>1 DEF RemInv, WorkersCounted
<1>9. WaitGroupCounts'
  <2>1. \A g \in Gens : Live(g)' = Live(g)
    BY DEF RemInv, Live, Carried
  <2> QED BY <2>1, CountSame DEF RemInv
<1>10. PostedAtMostOnce'
  BY <1>0 DEF RemInv, PostedAtMostOnce
<1> QED BY <1>1, <1>2, <1>3, <1>4, <1>5, <1>6, <1>7, <1>8, <1>9, <1>10 DEF RemInv

(* The queue is full: the job is taken off the WaitGroup it was counted on. *)
LEMMA UploadDropInv ==
  ASSUME NEW c \in Procs, RemInv, UploadDrop(c)
  PROVE  RemInv'
<1> USE DEF UploadDrop, workerVars, ownerVars
<1>0. PICK j \in Jobs, g \in Gens : j = arg[c] /\ st[j] = "added" /\ gen[j] = g
  BY DEF RemInv, TypeOK, Carried, Numbered, Unsettled
<1>a. WaitGroupCounts' /\ count' \in [Gens -> Nat]
  <2>1. Live(g)' = Live(g) \ {j} /\ j \in Live(g)
    BY <1>0 DEF RemInv, TypeOK, Live
  <2>2. \A k \in Gens \ {g} : Live(k)' = Live(k)
    BY <1>0 DEF RemInv, Live
  <2> QED BY <1>0, <2>1, <2>2, CountDown DEF RemInv
<1>1. TypeOK'
  BY <1>a DEF RemInv, TypeOK, JobStates
<1>2. Mutex' /\ FlushersFlush'
  BY DEF RemInv, Mutex, FlushersFlush
<1>3. Carried'
  BY DEF RemInv, TypeOK, Carried
<1>4. Channel'
  BY <1>0 DEF RemInv, Channel
<1>5. InHand'
  BY <1>0 DEF RemInv, InHand
<1>6. Numbered'
  BY DEF RemInv, Numbered, Unsettled
<1>7. Behind'
  BY <1>0 DEF RemInv, Behind
<1>8. WorkersCounted'
  <2>1. Running' = Running
    BY DEF RemInv, Running
  <2> QED BY <2>1 DEF RemInv, WorkersCounted
<1>9. PostedAtMostOnce'
  BY <1>0 DEF RemInv, PostedAtMostOnce
<1> QED BY <1>1, <1>2, <1>3, <1>4, <1>5, <1>6, <1>7, <1>8, <1>9, <1>a DEF RemInv

(* Upload returns.                                                         *)
LEMMA UploadUnlockInv ==
  ASSUME NEW c \in Procs, RemInv, UploadUnlock(c)
  PROVE  RemInv'
<1> USE DEF UploadUnlock, workerVars, ownerVars
<1>1. TypeOK'
  BY DEF RemInv, TypeOK
<1>2. Mutex' /\ FlushersFlush'
  BY NoneAssumption DEF RemInv, TypeOK, Mutex, FlushersFlush, Procs
<1>3. Carried'
  BY DEF RemInv, Carried
<1>4. Channel'
  BY DEF RemInv, Channel
<1>5. InHand'
  BY DEF RemInv, InHand
<1>6. Numbered'
  BY DEF RemInv, Numbered
<1>7. Behind'
  BY DEF RemInv, Behind
<1>8. WorkersCounted'
  <2>1. Running' = Running
    BY DEF RemInv, Running
  <2> QED BY <2>1 DEF RemInv, WorkersCounted
<1>9. WaitGroupCounts'
  <2>1. \A g \in Gens : Live(g)' = Live(g)
    BY DEF RemInv, Live
  <2> QED BY <2>1, CountSame DEF RemInv
<1>10. PostedAtMostOnce'
  BY DEF RemInv, PostedAtMostOnce
<1> QED BY <1>1, <1>2, <1>3, <1>4, <1>5, <1>6, <1>7, <1>8, <1>9, <1>10 DEF RemInv

(* Flush is called.                                                        *)
LEMMA FlushCallInv ==
  ASSUME NEW c \in Procs, RemInv, FlushCall(c)
  PROVE  RemInv'
<1> USE DEF FlushCall, workerVars, ownerVars
<1>1. TypeOK'
  BY DEF RemInv, TypeOK
<1>2. Mutex' /\ FlushersFlush'
  BY DEF RemInv, Mutex, FlushersFlush
<1>3. Carried'
  BY DEF RemInv, Carried
<1>4. Channel'
  BY DEF RemInv, Channel
<1>5. InHand'
  BY DEF RemInv, InHand
<1>6. Numbered'
  BY DEF RemInv, Numbered
<1>7. Behind'
  BY DEF RemInv, Behind
<1>8. WorkersCounted'
  <2>1. Running' = Running
    BY DEF RemInv, Running
  <2> QED BY <2>1 DEF RemInv, WorkersCounted
<1>9. WaitGroupCounts'
  <2>1. \A g \in Gens : Live(g)' = Live(g)
    BY DEF RemInv, Live
  <2> QED BY <2>1, CountSame DEF RemInv
<1>10. PostedAtMostOnce'
  BY DEF RemInv, PostedAtMostOnce
<1> QED BY <1>1, <1>2, <1>3, <1>4, <1>5, <1>6, <1>7, <1>8, <1>9, <1>10 DEF RemInv

(* Every job counted so far is left to the Flush that swaps.               *)
LEMMA FlushSwapInv ==
  ASSUME NEW c \in Procs, RemInv, FlushSwap(c)
  PROVE  RemInv'
<1> USE DEF FlushSwap, workerVars, ownerVars
<1>0. flushWG + 1 \in Gens /\ flushWG \in Gens
  BY FlushBound DEF RemInv, TypeOK, Gens
<1>1. TypeOK'
  BY <1>0 DEF RemInv, TypeOK
<1>2. Mutex' /\ FlushersFlush'
  BY DEF RemInv, Mutex, FlushersFlush
<1>3. Carried'
  BY DEF RemInv, Carried
<1>4. Channel'
  BY DEF RemInv, Channel
<1>5. InHand'
  BY DEF RemInv, InHand
<1>6. Numbered'
  BY DEF RemInv, TypeOK, Numbered, Gens
<1>7. Behind'
  <2>1. \A j \in before'[c] : /\ st[j] \in {"queued", "taken", "tried", "settled"}
                             /\ st[j] # "settled" => gen[j] \in 1 .. flushWG
    BY DEF RemInv, TypeOK, Numbered, Unsettled
  <2>2. waitOn'[c] = flushWG /\ flushWG' = flushWG + 1 /\ flushWG \in Gens
    BY DEF RemInv, TypeOK
  <2>3. \A d \in Procs \ {c} : /\ pc'[d] = pc[d] /\ waitOn'[d] = waitOn[d]
                              /\ before'[d] = before[d]
    BY DEF RemInv
  <2>4. \A d \in Procs : waitOn[d] < flushWG => waitOn[d] < flushWG'
    BY DEF RemInv, TypeOK, Gens
  <2>5. ASSUME NEW d \in Procs, pc'[d] = "waiting"
        PROVE  /\ waitOn'[d] \in Gens /\ waitOn'[d] < flushWG'
               /\ \A j \in before'[d] : /\ st'[j] \in {"queued", "taken", "tried", "settled"}
                                         /\ st'[j] # "settled" => gen'[j] <= waitOn'[d]
    <3>1. CASE d = c
      BY <3>1, <2>1, <2>2 DEF Gens
    <3>2. CASE d # c
      BY <3>2, <2>4, <2>5 DEF RemInv, Behind
    <3> QED BY <3>1, <3>2
  <2> QED BY <1>0, <2>5 DEF RemInv, TypeOK, Behind
<1>8. WorkersCounted'
  <2>1. Running' = Running
    BY DEF RemInv, Running
  <2> QED BY <2>1 DEF RemInv, WorkersCounted
<1>9. WaitGroupCounts'
  <2>1. \A g \in Gens : Live(g)' = Live(g)
    BY DEF RemInv, Live
  <2> QED BY <2>1, CountSame DEF RemInv
<1>10. PostedAtMostOnce'
  BY DEF RemInv, PostedAtMostOnce
<1> QED BY <1>1, <1>2, <1>3, <1>4, <1>5, <1>6, <1>7, <1>8, <1>9, <1>10 DEF RemInv

(* The WaitGroup is at zero: it has no unsettled job left to be waited for. *)
LEMMA FlushReturnInv ==
  ASSUME NEW c \in Procs, RemInv, FlushReturn(c)
  PROVE  RemInv'
<1> USE DEF FlushReturn, workerVars, ownerVars
<1>0. Live(waitOn[c]) = {}
  <2>1. waitOn[c] \in Gens
    BY DEF RemInv, Behind
  <2> QED BY <2>1, LiveFinite, FS_EmptySet DEF RemInv, WaitGroupCounts
<1>1. TypeOK'
  BY DEF RemInv, TypeOK
<1>2. Mutex' /\ FlushersFlush'
  BY DEF RemInv, Mutex, FlushersFlush
<1>3. Carried'
  BY DEF RemInv, Carried
<1>4. Channel'
  BY DEF RemInv, Channel
<1>5. InHand'
  BY DEF RemInv, InHand
<1>6. Numbered'
  <2>1. \A j \in Jobs : st[j] \in Unsettled => gen[j] # waitOn[c]
    BY <1>0 DEF Live, Unsettled
  <2>2. \A d \in Procs \ {c} : pc'[d] = pc[d] /\ waitOn'[d] = waitOn[d]
    BY DEF RemInv
  <2> QED BY <2>1, <2>2 DEF RemInv, Numbered
<1>7. Behind'
  BY DEF RemInv, TypeOK, Behind
<1>8. WorkersCounted'
  <2>1. Running' = Running
    BY DEF RemInv, Running
  <2> QED BY <2>1 DEF RemInv, WorkersCounted
<1>9. WaitGroupCounts'
  <2>1. \A g \in Gens : Live(g)' = Live(g)
    BY DEF RemInv, Live
  <2> QED BY <2>1, CountSame DEF RemInv
<1>10. PostedAtMostOnce'
  BY DEF RemInv, PostedAtMostOnce
<1> QED BY <1>1, <1>2, <1>3, <1>4, <1>5, <1>6, <1>7, <1>8, <1>9, <1>10 DEF RemInv

(* The first job moves from the channel into the hands of one worker.      *)
LEMMA WorkerTakeInv ==
  ASSUME NEW w \in Workers, RemInv, WorkerTake(w)
  PROVE  RemInv'
<1> USE DEF WorkerTake, callerVars, ownerVars
<1>0. /\ Head(queue) = queue[1] /\ queue[1] \in Jobs /\ Len(queue) \in Nat \ {0}
      /\ st[queue[1]] = "queued" /\ Len(queue') = Len(queue) - 1 /\ queue' \in Seq(Jobs)
      /\ \A i \in 1 .. Len(queue') : queue'[i] = queue[i + 1] /\ queue'[i] \in Jobs
  BY DEF RemInv, TypeOK, Channel
<1>1. TypeOK'
  BY CapAssumption DEF RemInv, TypeOK, JobStates
<1>2. Mutex' /\ FlushersFlush'
  BY DEF RemInv, Mutex, FlushersFlush
<1>3. Carried'
  BY <1>0 DEF RemInv, Carried
<1>4. Channel'
  BY DEF RemInv, Channel
<1>5. InHand'
  BY <1>0 DEF RemInv, TypeOK, InHand
<1>6. Numbered'
  BY <1>0 DEF RemInv, Numbered, Unsettled
<1>7. Behind'
  BY <1>0 DEF RemInv, Behind
<1>8. WorkersCounted'
  <2>1. Running' = Running
    BY DEF RemInv, Running
  <2> QED BY <2>1 DEF RemInv, WorkersCounted
<1>9. WaitGroupCounts'
  <2>1. \A g \in Gens : Live(g)' = Live(g)
    BY DEF RemInv, Live, Channel
  <2> QED BY <2>1, CountSame DEF RemInv
<1>10. PostedAtMostOnce'
  BY <1>0 DEF RemInv, PostedAtMostOnce
<1> QED BY <1>1, <1>2, <1>3, <1>4, <1>5, <1>6, <1>7, <1>8, <1>9, <1>10 DEF RemInv

(* The one attempt: the job had not been posted before.                    *)
LEMMA WorkerUploadInv ==
  ASSUME NEW w \in Workers, RemInv, WorkerUpload(w)
  PROVE  RemInv'
<1> USE DEF WorkerUpload, callerVars, ownerVars, uploadProfile
<1>0. cur[w] \in Jobs /\ st[cur[w]] = "taken"
  BY DEF RemInv, InHand
<1>1. TypeOK'
  BY <1>0 DEF RemInv, TypeOK, JobStates
<1>2. Mutex' /\ FlushersFlush'
  BY DEF RemInv, Mutex, FlushersFlush
<1>3. Carried'
  BY <1>0 DEF RemInv, Carried
<1>4. Channel'
  BY <1>0 DEF RemInv, Channel
<1>5. InHand'
  BY DEF RemInv, TypeOK, InHand
<1>6. Numbered'
  BY <1>0 DEF RemInv, Numbered, Unsettled
<1>7. Behind'
  BY <1>0 DEF RemInv, Behind
<1>8. WorkersCounted'
  <2>1. Running' = Running
    BY DEF RemInv, Running
  <2> QED BY <2>1 DEF RemInv, WorkersCounted
<1>9. WaitGroupCounts'
  <2>1. \A g \in Gens : Live(g)' = Live(g)
    BY DEF RemInv, Live, InHand
  <2> QED BY <2>1, CountSame DEF RemInv
<1>10. PostedAtMostOnce'
  <2>1. recv[cur[w]] = 0
    <3>1. recv[cur[w]] \in Nat
      BY <1>0 DEF RemInv, TypeOK
    <3>2. ~(recv[cur[w]] > 0)
      BY <1>0 DEF RemInv, PostedAtMostOnce
    <3> QED BY <3>1, <3>2
  <2>2. recv'[cur[w]] <= 1 /\ st'[cur[w]] = "tried"
    BY <1>0, <2>1 DEF RemInv, TypeOK
  <2>3. \A j \in Jobs \ {cur[w]} : recv'[j] = recv[j] /\ st'[j] = st[j]
    BY DEF RemInv, TypeOK
  <2> QED BY <2>2, <2>3 DEF RemInv, PostedAtMostOnce
<1> QED BY <1>1, <1>2, <1>3, <1>4, <1>5, <1>6, <1>7, <1>8, <1>9, <1>10 DEF RemInv

(* The worker takes its job off the WaitGroup it was counted on.           *)
LEMMA WorkerDoneInv ==
  ASSUME NEW w \in Workers, RemInv, WorkerDone(w)
  PROVE  RemInv'
<1> USE DEF WorkerDone, callerVars, ownerVars
<1>0. PICK j \in Jobs, g \in Gens : j = cur[w] /\ st[j] = "tried" /\ gen[j] = g
  BY DEF RemInv, TypeOK, InHand, Numbered, Unsettled
<1>a. WaitGroupCounts' /\ count' \in [Gens -> Nat]
  <2>1. Live(g)' = Live(g) \ {j} /\ j \in Live(g)
    BY <1>0 DEF RemInv, TypeOK, Live
  <2>2. \A k \in Gens \ {g} : Live(k)' = Live(k)
    BY <1>0 DEF RemInv, Live
  <2> QED BY <1>0, <2>1, <2>2, CountDown DEF RemInv
<1>1. TypeOK'
  BY <1>a DEF RemInv, TypeOK, JobStates
<1>2. Mutex' /\ FlushersFlush'
  BY DEF RemInv, Mutex, FlushersFlush
<1>3. Carried'
  BY <1>0 DEF RemInv, Carried
<1>4. Channel'
  BY <1>0 DEF RemInv, Channel
<1>5. InHand'
  BY DEF RemInv, TypeOK, InHand
<1>6. Numbered'
  BY DEF RemInv, Numbered, Unsettled
<1>7. Behind'
  BY DEF RemInv, Behind
<1>8. WorkersCounted'
  <2>1. Running' = Running
    BY DEF RemInv, Running
  <2> QED BY <2>1 DEF RemInv, WorkersCounted
<1>9. PostedAtMostOnce'
  BY DEF RemInv, PostedAtMostOnce
<1> QED BY <1>1, <1>2, <1>3, <1>4, <1>5, <1>6, <1>7, <1>8, <1>9, <1>a DEF RemInv

(* A worker exits: it was counted on Remote.wg.                            *)
LEMMA WorkerExitInv ==
  ASSUME NEW w \in Workers, RemInv, WorkerExit(w)
  PROVE  RemInv'
<1> USE DEF WorkerExit, callerVars, ownerVars
<1>0. wg - 1 \in Nat
  <2>1. w \in Running
    BY DEF RemInv, Running
  <2>2. /\ Cardinality(Running \ {w}) = Cardinality(Running) - 1
        /\ Cardinality(Running \ {w}) \in Nat
    BY <2>1, RunningFinite, FS_RemoveElement, FS_CardinalityType
  <2> QED BY <2>2 DEF RemInv, WorkersCounted
<1>1. TypeOK'
  BY <1>0 DEF RemInv, TypeOK
<1>2. Mutex' /\ FlushersFlush'
  BY DEF RemInv, Mutex, FlushersFlush
<1>3. Carried'
  BY DEF RemInv, Carried
<1>4. Channel'
  BY DEF RemInv, Channel
<1>5. InHand'
  BY DEF RemInv, InHand
<1>6. Numbered'
  BY DEF RemInv, Numbered
<1>7. Behind'
  BY DEF RemInv, Behind
<1>8. WorkersCounted'
  <2>1. Running' = Running \ {w} /\ w \in Running
    BY DEF RemInv, TypeOK, Running
  <2>2. Cardinality(Running \ {w}) = Cardinality(Running) - 1
    BY <2>1, RunningFinite, FS_RemoveElement
  <2> QED BY <2>1, <2>2 DEF RemInv, WorkersCounted, Done
<1>9. WaitGroupCounts'
  <2>1. \A g \in Gens : Live(g)' = Live(g)
    BY DEF RemInv, Live
  <2> QED BY <2>1, CountSame DEF RemInv
<1>10. PostedAtMostOnce'
  BY DEF RemInv, PostedAtMostOnce
<1> QED BY <1>1, <1>2, <1>3, <1>4, <1>5, <1>6, <1>7, <1>8, <1>9, <1>10 DEF RemInv

(* All workers start and are counted.                                      *)
LEMMA StartInv ==
  ASSUME RemInv, Start
  PROVE  RemInv'
<1> USE DEF Start, callerVars, workerVars
<1>0. Cardinality(Workers) \in Nat
  BY FiniteWorkers, FS_CardinalityType
<1>1. TypeOK'
  BY <1>0 DEF RemInv, TypeOK
<1>2. Mutex' /\ FlushersFlush'
  BY DEF RemInv, Mutex, FlushersFlush
<1>3. Carried'
  BY DEF RemInv, Carried
<1>4. Channel'
  BY DEF RemInv, Channel
<1>5. InHand'
  BY DEF RemInv, InHand
<1>6. Numbered'
  BY DEF RemInv, Numbered
<1>7. Behind'
  BY DEF RemInv, Behind
<1>8. WorkersCounted'
  <2>1. Running = {} /\ Running' = Workers
    BY DEF RemInv, WorkersCounted, Running
  <2> QED BY <1>0, <2>1, FS_EmptySet DEF RemInv, WorkersCounted
<1>9. WaitGroupCounts'
  <2>1. \A g \in Gens : Live(g)' = Live(g)
    BY DEF RemInv, Live
  <2> QED BY <2>1, CountSame DEF RemInv
<1>10. PostedAtMostOnce'
  BY DEF RemInv, PostedAtMostOnce
<1> QED BY <1>1, <1>2, <1>3, <1>4, <1>5, <1>6, <1>7, <1>8, <1>9, <1>10 DEF RemInv

(* Channel done is closed.                                                 *)
LEMMA StopInv ==
  ASSUME RemInv, Stop
  PROVE  RemInv'
<1> USE DEF Stop, callerVars, workerVars
<1>1. TypeOK'
  BY DEF RemInv, TypeOK
<1>2. Mutex' /\ FlushersFlush'
  BY DEF RemInv, Mutex, FlushersFlush
<1>3. Carried'
  BY DEF RemInv, Carried
<1>4. Channel'
  BY DEF RemInv, Channel
<1>5. InHand'
  BY DEF RemInv, InHand
<1>6. Numbered'
  BY DEF RemInv, Numbered
<1>7. Behind'
  BY DEF RemInv, Behind
<1>8. WorkersCounted'
  <2>1. Running' = Running
    BY DEF RemInv, Running
  <2> QED BY <2>1 DEF RemInv, WorkersCounted
<1>9. WaitGroupCounts'
  <2>1. \A g \in Gens : Live(g)' = Live(g)
    BY DEF RemInv, Live
  <2> QED BY <2>1, CountSame DEF RemInv
<1>10. PostedAtMostOnce'
  BY DEF RemInv, PostedAtMostOnce
<1> QED BY <1>1, <1>2, <1>3, <1>4, <1>5, <1>6, <1>7, <1>8, <1>9, <1>10 DEF RemInv

(* Stop returns.                                                           *)
LEMMA StopReturnInv ==
  ASSUME RemInv, StopReturn
  PROVE  RemInv'
<1> USE DEF StopReturn, callerVars, workerVars
<1>1. TypeOK'
  BY DEF RemInv, TypeOK
<1>2. Mutex' /\ FlushersFlush'
  BY DEF RemInv, Mutex, FlushersFlush
<1>3. Carried'
  BY DEF RemInv, Carried
<1>4. Channel'
  BY DEF RemInv, Channel
<1>5. InHand'
  BY DEF RemInv, InHand
<1>6. Numbered'
  BY DEF RemInv, Numbered
<1>7. Behind'
  BY DEF RemInv, Behind
<1>8. WorkersCounted'
  <2>1. Running' = Running
    BY DEF RemInv, Running
  <2> QED BY <2>1 DEF RemInv, WorkersCounted
<1>9. WaitGroupCounts'
  <2>1. \A g \in Gens : Live(g)' = Live(g)
    BY DEF RemInv, Live
  <2> QED BY <2>1, CountSame DEF RemInv
<1>10. PostedAtMostOnce'
  BY DEF RemInv, PostedAtMostOnce
<1> QED BY <1>1, <1>2, <1>3, <1>4, <1>5, <1>6, <1>7, <1>8, <1>9, <1>10 DEF RemInv

(* Nothing has been uploaded and nobody runs yet.                          *)
LEMMA InitInv == Init => RemInv
<1> SUFFICES ASSUME Init PROVE RemInv
  OBVIOUS
<1> USE DEF Init
<1>1. TypeOK
  BY CapAssumption, FlushBound DEF TypeOK, JobStates, Gens
<1>2. Mutex /\ FlushersFlush /\ Carried /\ Channel /\ InHand /\ Numbered /\ Behind
  BY NoneAssumption DEF Mutex, FlushersFlush, Carried, Channel, InHand, Numbered,
                        Unsettled, Behind, Procs
<1>3. WorkersCounted
  <2>1. Running = {}
    BY DEF Running
  <2> QED BY <2>1, FS_EmptySet DEF WorkersCounted
<1>4. WaitGroupCounts
  <2>1. \A g \in Gens : Live(g) = {}
    BY DEF Live
  <2> QED BY <2>1, FS_EmptySet DEF WaitGroupCounts
<1>5. PostedAtMostOnce
  BY DEF PostedAtMostOnce
<1> QED BY <1>1, <1>2, <1>3, <1>4, <1>5 DEF RemInv

(* Every step keeps the invariant: one case per kind of step of Next.      *)
LEMMA NextInv == RemInv /\ [Next]_vars => RemInv'
<1> SUFFICES ASSUME RemInv, [Next]_vars PROVE RemInv'
  OBVIOUS
<1>1. CASE UNCHANGED vars
  <2>1. Running' = Running
    BY <1>1 DEF vars, Running
  <2>2. \A g \in Gens : Live(g)' = Live(g)
    BY <1>1 DEF vars, Live
  <2>3. WorkersCounted' /\ WaitGroupCounts'
    BY <1>1, <2>1, <2>2, CountSame DEF vars, RemInv, WorkersCounted
  <2>4. TypeOK' /\ Mutex' /\ FlushersFlush' /\ Carried' /\ Channel' /\ InHand'
    BY <1>1 DEF vars, RemInv, TypeOK, Mutex, FlushersFlush, Carried, Channel, InHand
  <2>5. Numbered' /\ Behind' /\ PostedAtMostOnce'
    BY <1>1 DEF vars, RemInv, Numbered, Behind, PostedAtMostOnce
  <2> QED BY <2>3, <2>4, <2>5 DEF RemInv
<1>2. ASSUME NEW c \in Procs, NEW j \in Jobs, UploadCall(c, j) PROVE RemInv'
  BY <1>2, UploadCallInv
<1>3. ASSUME NEW c \in Procs, UploadStep(c) PROVE RemInv'
  BY <1>3, UploadLockInv, UploadSendInv, UploadDropInv, UploadUnlockInv DEF UploadStep
<1>4. ASSUME NEW c \in Procs, FlushCall(c) \/ FlushStep(c) PROVE RemInv'
  BY <1>4, FlushCallInv, FlushSwapInv, FlushReturnInv DEF FlushStep
<1>5. ASSUME NEW w \in Workers, handleJobs(w) PROVE RemInv'
  BY <1>5, WorkerTakeInv, WorkerUploadInv, WorkerDoneInv, WorkerExitInv DEF handleJobs
<1>6. CASE Start \/ Stop \/ StopReturn
  BY <1>6, StartInv, StopInv, StopReturnInv
<1> QED BY <1>1, <1>2, <1>3, <1>4, <1>5, <1>6 DEF Next

(* The inductive invariant always holds.                                   *)
LEMMA Invariance == Spec => []RemInv
BY InitInv, NextInv, PTL DEF Spec

(* The upload queue keeps its types (the channel never holds more than its *)
(* capacity), its WaitGroups count exactly the jobs they have to wait for, *)
(* so that no counter goes negative and none stays up, and no job is       *)
(* posted twice.                                                           *)
THEOREM RemoteSafe == Spec => [](TypeOK /\ WaitGroupCounts /\ PostedAtMostOnce)
<1>1. RemInv => TypeOK /\ WaitGroupCounts /\ PostedAtMostOnce
  BY DEF RemInv
<1> QED BY Invariance, <1>1, PTL

(* However callers and workers interleave, the server gets a profile at    *)
(* most once: handleJobs takes a job off the channel only once, and what   *)
(* Upload dropped is never posted.                                         *)
THEOREM RemotePostedAtMostOnce == Spec => []PostedAtMostOnce
BY RemoteSafe, PTL

(* Only UploadLock raises a counter, that of the current WaitGroup.        *)
LEMMA AddsToCurrent ==
  ASSUME RemInv, [Next]_vars, NEW g \in Gens, count'[g] > count[g]
  PROVE  g = flushWG
<1>0. count \in [Gens -> Nat] /\ gen \in [Jobs -> Gens \cup {0}]
  BY DEF RemInv, TypeOK
<1>1. CASE count' = count
  BY <1>0, <1>1
<1>2. ASSUME NEW c \in Procs, UploadLock(c) PROVE g = flushWG
  BY <1>0, <1>2 DEF UploadLock
<1>3. ASSUME NEW c \in Procs, UploadDrop(c) PROVE FALSE
  BY <1>0, <1>3 DEF UploadDrop
<1>4. ASSUME NEW w \in Workers, WorkerDone(w) PROVE FALSE
  BY <1>0, <1>4 DEF WorkerDone
<1>5. ASSUME NEW c \in Procs,
             UploadSend(c) \/ UploadUnlock(c) \/ FlushCall(c) \/ FlushStep(c)
      PROVE  count' = count
  BY <1>5 DEF UploadSend, UploadUnlock, FlushCall, FlushStep, FlushSwap, FlushReturn
<1>6. ASSUME NEW w \in Workers, WorkerTake(w) \/ WorkerUpload(w) \/ WorkerExit(w)
      PROVE  count' = count
  BY <1>6 DEF WorkerTake, WorkerUpload, WorkerExit
<1>7. ASSUME NEW c \in Procs, NEW j \in Jobs, UploadCall(c, j) PROVE count' = count
  BY <1>7 DEF UploadCall
<1>8. CASE Start \/ Stop \/ StopReturn \/ UNCHANGED vars
  BY <1>1, <1>8 DEF Start, Stop, StopReturn, vars
<1> QED BY <1>1, <1>2, <1>3, <1>4, <1>5, <1>6, <1>7, <1>8
        DEF Next, UploadStep, handleJobs

(* Upload never calls Add on a WaitGroup that some Flush waits for, with   *)
(* any number of goroutines that upload and flush.                         *)
THEOREM RemoteNoAddDuringWait == Spec => NoAddDuringWait
<1>1. RemInv /\ [Next]_vars =>
        [\A g \in Gens : count'[g] > count[g]
           => \A f \in Flushers : pc[f] = "waiting" => waitOn[f] # g]_vars
  <2> SUFFICES ASSUME RemInv, [Next]_vars, NEW g \in Gens, count'[g] > count[g],
                      NEW f \in Flushers, pc[f] = "waiting"
               PROVE  waitOn[f] # g
    OBVIOUS
  <2>1. waitOn[f] < flushWG /\ waitOn[f] \in Gens
    BY DEF RemInv, Behind, Procs
  <2>2. g = flushWG
    BY AddsToCurrent
  <2> QED BY <2>1, <2>2 DEF Gens
<1> QED BY Invariance, <1>1, PTL DEF Spec, NoAddDuringWait

(* The unsettled jobs queued before a Flush are all in its own WaitGroup   *)
(* if nobody else flushes: those of earlier ones were waited for.          *)
LEMMA Barrier ==
  ASSUME \A f, g \in Flushers : f = g, RemInv
  PROVE  FlushBarrier
<1> SUFFICES ASSUME NEW f \in Flushers, pc[f] = "waiting", count[waitOn[f]] = 0,
                    NEW j \in before[f], st[j] \notin {"tried", "settled"}
             PROVE  FALSE
  BY DEF FlushBarrier
<1>1. /\ j \in Jobs /\ f \in Procs
      /\ waitOn[f] \in Gens /\ waitOn[f] < flushWG /\ flushWG \in Gens
  BY DEF RemInv, TypeOK, Behind, Procs
<1>2. st[j] \in {"queued", "taken"} /\ gen[j] <= waitOn[f]
  BY <1>1 DEF RemInv, Behind
<1>3. PICK c \in Procs : pc[c] = "waiting" /\ waitOn[c] = gen[j]
  BY <1>1, <1>2 DEF RemInv, Numbered, Unsettled, Gens
<1>4. c = f
  BY <1>3 DEF RemInv, FlushersFlush
<1>5. j \in Live(waitOn[f])
  BY <1>1, <1>2, <1>3, <1>4 DEF Live
<1>6. Live(waitOn[f]) = {}
  BY <1>1, LiveFinite, FS_EmptySet DEF RemInv, WaitGroupCounts
<1> QED BY <1>5, <1>6

(* With one goroutine that flushes, flush.Wait() does not return before    *)
(* every job queued ahead of the Flush has been attempted.                 *)
THEOREM RemoteFlushBarrier ==
  ASSUME \A f, g \in Flushers : f = g
  PROVE  Spec => []FlushBarrier
<1>1. RemInv => FlushBarrier
  BY Barrier
<1> QED BY Invariance, <1>1, PTL

-----------------------------------------------------------------------------
(* Remote implements Upstream.                                             *)

(* The refinement mapping, state by state.                                 *)
LEMMA Phases ==
  /\ PhaseOf("new") = "new" /\ PhaseOf("offered") = "new" /\ PhaseOf("added") = "new"
  /\ PhaseOf("queued") = "accepted" /\ PhaseOf("taken") = "accepted"
  /\ PhaseOf("tried") = "tried" /\ PhaseOf("settled") = "tried"
  /\ PhaseOf("dropped") = "dropped"
BY DEF PhaseOf

(* Steps that the upstream's user cannot see.                              *)
LEMMA Unseen ==
  ASSUME \A j \in Jobs : PhaseOf(st'[j]) = PhaseOf(st[j]),
         \A f \in Flushers : /\ pc'[f] = "waiting" <=> pc[f] = "waiting"
                             /\ before'[f] = before[f]
  PROVE  UNCHANGED Abs!uVars
BY DEF Abs!uVars

(* Steps that decide about one job.                                        *)
LEMMA OneJobMoves ==
  ASSUME NEW j \in Jobs, NEW s \in JobStates, TypeOK, st' = [st EXCEPT ![j] = s],
         \A f \in Flushers : /\ pc'[f] = "waiting" <=> pc[f] = "waiting"
                             /\ before'[f] = before[f]
  PROVE  /\ [i \in Jobs |-> PhaseOf(st[i])]'
              = [[i \in Jobs |-> PhaseOf(st[i])] EXCEPT ![j] = PhaseOf(s)]
         /\ [f \in Flushers |-> pc[f] = "waiting"]' = [f \in Flushers |-> pc[f] = "waiting"]
         /\ [f \in Flushers |-> before[f]]' = [f \in Flushers |-> before[f]]
BY DEF TypeOK

(* Accept is UploadSend, Drop is UploadDrop, Try is WorkerUpload, and a    *)
(* Flush lasts from its swap to its return; the rest is invisible.         *)
LEMMA NextImplements ==
  ASSUME RemInv, FlushBarrier, [Next]_vars
  PROVE  [Abs!UNext]_(Abs!uVars)
<1>0. TypeOK /\ Flushers \subseteq Procs
  BY DEF RemInv, Procs
<1>1. CASE UNCHANGED vars
  BY <1>1, Unseen DEF vars
<1>2. ASSUME NEW c \in Procs, NEW j \in Jobs, UploadCall(c, j) PROVE UNCHANGED Abs!uVars
  BY <1>0, <1>2, Phases, Unseen DEF UploadCall, TypeOK
<1>3. ASSUME NEW c \in Procs, UploadLock(c) PROVE UNCHANGED Abs!uVars
  <2>1. arg[c] \in Jobs /\ st[arg[c]] = "offered"
    BY <1>3 DEF RemInv, Carried, UploadLock
  <2> QED BY <1>0, <1>3, <2>1, Phases, Unseen DEF UploadLock, TypeOK
<1>4. ASSUME NEW c \in Procs, UploadSend(c) PROVE Abs!Accept(arg[c]) /\ arg[c] \in Jobs
  <2>1. arg[c] \in Jobs /\ st[arg[c]] = "added"
    BY <1>4 DEF RemInv, Carried, UploadSend
  <2>2. \A f \in Flushers : /\ pc'[f] = "waiting" <=> pc[f] = "waiting"
                            /\ before'[f] = before[f]
    BY <1>0, <1>4 DEF UploadSend, TypeOK
  <2> QED BY <1>0, <1>4, <2>1, <2>2, Phases, OneJobMoves DEF UploadSend, Abs!Accept, JobStates
<1>5. ASSUME NEW c \in Procs, UploadDrop(c) PROVE Abs!Drop(arg[c]) /\ arg[c] \in Jobs
  <2>1. arg[c] \in Jobs /\ st[arg[c]] = "added"
    BY <1>5 DEF RemInv, Carried, UploadDrop
  <2>2. \A f \in Flushers : /\ pc'[f] = "waiting" <=> pc[f] = "waiting"
                            /\ before'[f] = before[f]
    BY <1>0, <1>5 DEF UploadDrop, TypeOK
  <2> QED BY <1>0, <1>5, <2>1, <2>2, Phases, OneJobMoves DEF UploadDrop, Abs!Drop, JobStates
<1>6. ASSUME NEW c \in Procs, UploadUnlock(c) \/ FlushCall(c) PROVE UNCHANGED Abs!uVars
  BY <1>0, <1>6, Unseen DEF UploadUnlock, FlushCall, TypeOK
<1>7. ASSUME NEW c \in Procs, FlushSwap(c) PROVE Abs!BeginFlush(c) /\ c \in Flushers
  <2>1. c \in Flushers
    BY <1>7 DEF RemInv, FlushersFlush, FlushSwap
  <2>2. {j \in Jobs : st[j] \in {"queued", "taken", "tried", "settled"}}
          = {j \in Jobs : [i \in Jobs |-> PhaseOf(st[i])][j] \in {"accepted", "tried"}}
    BY <1>0, Phases DEF TypeOK, JobStates
  <2>3. [f \in Flushers |-> before[f]]'
          = [[f \in Flushers |-> before[f]] EXCEPT
               ![c] = {j \in Jobs : [i \in Jobs |-> PhaseOf(st[i])][j] \in {"accepted", "tried"}}]
    BY <1>0, <1>7, <2>1, <2>2 DEF FlushSwap, TypeOK
  <2>4. /\ ~[f \in Flushers |-> pc[f] = "waiting"][c]
        /\ [f \in Flushers |-> pc[f] = "waiting"]'
             = [[f \in Flushers |-> pc[f] = "waiting"] EXCEPT ![c] = TRUE]
    BY <1>0, <1>7, <2>1 DEF FlushSwap, TypeOK
  <2>5. [i \in Jobs |-> PhaseOf(st[i])]' = [i \in Jobs |-> PhaseOf(st[i])]
    BY <1>7 DEF FlushSwap
  <2> QED BY <2>1, <2>3, <2>4, <2>5 DEF Abs!BeginFlush
<1>8. ASSUME NEW c \in Procs, FlushReturn(c) PROVE Abs!EndFlush(c) /\ c \in Flushers
  <2>1. c \in Flushers
    BY <1>8 DEF RemInv, FlushersFlush, FlushReturn
  <2>2. \A j \in [f \in Flushers |-> before[f]][c] : [i \in Jobs |-> PhaseOf(st[i])][j] = "tried"
    BY <1>0, <1>8, <2>1, Phases DEF FlushBarrier, FlushReturn, TypeOK
  <2>3. [f \in Flushers |-> before[f]]' = [[f \in Flushers |-> before[f]] EXCEPT ![c] = {}]
    BY <1>0, <1>8, <2>1 DEF FlushReturn, TypeOK
  <2>4. /\ [f \in Flushers |-> pc[f] = "waiting"][c]
        /\ [f \in Flushers |-> pc[f] = "waiting"]'
             = [[f \in Flushers |-> pc[f] = "waiting"] EXCEPT ![c] = FALSE]
    BY <1>0, <1>8, <2>1 DEF FlushReturn, TypeOK
  <2>5. [i \in Jobs |-> PhaseOf(st[i])]' = [i \in Jobs |-> PhaseOf(st[i])]
    BY <1>8 DEF FlushReturn
  <2> QED BY <2>1, <2>2, <2>3, <2>4, <2>5 DEF Abs!EndFlush
<1>9. ASSUME NEW w \in Workers, WorkerTake(w) PROVE UNCHANGED Abs!uVars
  <2>1. Head(queue) \in Jobs /\ st[Head(queue)] = "queued"
    BY <1>0, <1>9 DEF RemInv, Channel, WorkerTake, TypeOK
  <2> QED BY <1>0, <1>9, <2>1, Phases, Unseen DEF WorkerTake, callerVars, TypeOK
<1>10. ASSUME NEW w \in Workers, WorkerUpload(w) PROVE Abs!Try(cur[w]) /\ cur[w] \in Jobs
  <2>1. cur[w] \in Jobs /\ st[cur[w]] = "taken"
    BY <1>10 DEF RemInv, InHand, WorkerUpload
  <2>2. \A f \in Flushers : /\ pc'[f] = "waiting" <=> pc[f] = "waiting"
                            /\ before'[f] = before[f]
    BY <1>10 DEF WorkerUpload, callerVars
  <2> QED BY <1>0, <1>10, <2>1, <2>2, Phases, OneJobMoves DEF WorkerUpload, Abs!Try, JobStates
<1>11. ASSUME NEW w \in Workers, WorkerDone(w) PROVE UNCHANGED Abs!uVars
  <2>1. cur[w] \in Jobs /\ st[cur[w]] = "tried"
    BY <1>11 DEF RemInv, InHand, WorkerDone
  <2> QED BY <1>0, <1>11, <2>1, Phases, Unseen DEF WorkerDone, callerVars, TypeOK
<1>12. ASSUME NEW w \in Workers, WorkerExit(w) PROVE UNCHANGED Abs!uVars
  BY <1>12, Unseen DEF WorkerExit, callerVars
<1>13. CASE Start \/ Stop \/ StopReturn
  BY <1>13, Unseen DEF Start, Stop, StopReturn, callerVars
<1> QED BY <1>1, <1>2, <1>3, <1>4, <1>5, <1>6, <1>7, <1>8, <1>9, <1>10, <1>11, <1>12, <1>13
        DEF Next, UploadStep, FlushStep, handleJobs, Abs!UNext

(* What remote.go does is what the interface upstream.Upstream promises    *)
(* the profilers (module Upstream), for any queue, workers and callers, if *)
(* one goroutine flushes, as only takeSnapshots does.                      *)
THEOREM RemoteRefinesUpstream ==
  ASSUME \A f, g \in Flushers : f = g
  PROVE  Spec => RefinesUpstream
<1>1. Init => Abs!UInit
  <2> SUFFICES ASSUME Init PROVE Abs!UInit
    OBVIOUS
  <2>1. [j \in Jobs |-> PhaseOf(st[j])] = [j \in Jobs |-> "new"]
    BY Phases DEF Init
  <2>2. [f \in Flushers |-> pc[f] = "waiting"] = [f \in Flushers |-> FALSE]
    <3>1. \A f \in Flushers : (pc[f] = "waiting") = FALSE
      BY DEF Init, Procs
    <3> QED BY <3>1
  <2>3. [f \in Flushers |-> before[f]] = [f \in Flushers |-> {}]
    BY DEF Init, Procs
  <2> QED BY <2>1, <2>2, <2>3 DEF Abs!UInit
<1>2. RemInv => FlushBarrier
  BY Barrier
<1>3. RemInv /\ [Next]_vars => [Abs!UNext]_(Abs!uVars)
  BY <1>2, NextImplements
<1> QED BY Invariance, <1>1, <1>3, PTL DEF Spec, RefinesUpstream, Abs!USpec
=============================================================================
