------------------------------ MODULE Registry ------------------------------
(***************************************************************************)
(* The process-wide switch between CPU profile collectors:                 *)
(* internal/pprof/pprof.go, and the handler of http/pprof that goes        *)
(* through it.                                                             *)
(*                                                                         *)
(* StartCPUProfile and StopCPUProfile hold the mutex while they call the   *)
(* collector that is registered; SetCollector replaces the collector at    *)
(* once if no profile is being taken and otherwise leaves a closure behind *)
(* that the last StopCPUProfile runs.  The chain of closures is a          *)
(* sequence, oldest first.  What a collector does when it is called is the *)
(* business of the modules that extend this one; the specification below   *)
(* lets it accept or refuse every Start.                                   *)
(***************************************************************************)
EXTENDS Integers, Sequences, FiniteSets

CONSTANTS Handlers,     \* HTTP requests served by http/pprof.Profile
          Setters,      \* goroutines that call SetCollector
          Collectors,   \* the collectors there are
          Default,      \* DefaultCollector(), package runtime/pprof
          None          \* the nil collector

ASSUME DefaultAssumption == Default \in Collectors /\ None \notin Collectors
ASSUME FiniteHandlers == IsFiniteSet(Handlers)
ASSUME NobodyAssumption == None \notin Handlers

VARIABLES
  mu,           \* the request that holds the mutex across a collector call
  collector,    \* c.Collector
  ref, fn,      \* c.ref, c.fn
  hpc,          \* where a request is in collectCPUProfile
  on,           \* history: the collector that a request's Start went to
  setting,      \* whether a setter is blocked on its channel
  want          \* history: the collector asked for last

regVars == <<mu, collector, ref, fn, hpc, on, setting, want>>
setVars == <<fn, setting, want>>

RegInit == /\ mu = None
           /\ collector = None
           /\ ref = 0
           /\ fn = <<>>
           /\ hpc = [h \in Handlers |-> "idle"]
           /\ on = [h \in Handlers |-> None]
           /\ setting = [s \in Setters |-> FALSE]
           /\ want = None

-----------------------------------------------------------------------------
(* collectCPUProfile: StartCPUProfile, wait for the deadline, StopCPUProfile *)

Request(h) == /\ hpc[h] = "idle"
              /\ hpc' = [hpc EXCEPT ![h] = "start"]
              /\ UNCHANGED <<mu, collector, ref, on, setVars>>

(* StartCPUProfile takes the mutex and replaces a nil collector.           *)
StartLock(h) ==
  /\ hpc[h] = "start" /\ mu = None
  /\ mu' = h
  /\ collector' = IF collector = None THEN Default ELSE collector
  /\ on' = [on EXCEPT ![h] = collector']
  /\ hpc' = [hpc EXCEPT ![h] = "starting"]
  /\ UNCHANGED <<ref, setVars>>

(* The collector's answer; a refused Start ends the request with an error. *)
StartReturn(h, ok) ==
  /\ hpc[h] = "starting"
  /\ mu' = None
  /\ ref' = IF ok THEN ref + 1 ELSE ref
  /\ hpc' = [hpc EXCEPT ![h] = IF ok THEN "profiling" ELSE "idle"]
  /\ on' = IF ok THEN on ELSE [on EXCEPT ![h] = None]
  /\ UNCHANGED <<collector, setVars>>

(* <-ctx.Done()                                                            *)
Deadline(h) == /\ hpc[h] = "profiling"
               /\ hpc' = [hpc EXCEPT ![h] = "stop"]
               /\ UNCHANGED <<mu, collector, ref, on, setVars>>

StopLock(h) ==
  /\ hpc[h] = "stop" /\ mu = None
  /\ mu' = h
  /\ hpc' = [hpc EXCEPT ![h] = "stopping"]
  /\ UNCHANGED <<collector, ref, on, setVars>>

(* each closure runs before the one it was chained to                      *)
BadStopReturn(h) ==
  /\ hpc[h] = "stopping"
  /\ mu' = None
  /\ ref' = ref - 1
  /\ hpc' = [hpc EXCEPT ![h] = "idle"]
  /\ on' = [on EXCEPT ![h] = None]
  /\ IF ref' = 0 /\ fn # <<>>
     THEN /\ collector' = Head(fn)[2]
          /\ setting' = [s \in Setters |-> FALSE]
          /\ fn' = <<>>
     ELSE UNCHANGED <<collector, setting, fn>>
  /\ UNCHANGED want

(* StopCPUProfile, the last one of which runs the closures oldest first:   *)
(* each sets the collector and releases the setter that made it.           *)
StopReturn(h) ==
  /\ hpc[h] = "stopping"
  /\ mu' = None
  /\ ref' = ref - 1
  /\ hpc' = [hpc EXCEPT ![h] = "idle"]
  /\ on' = [on EXCEPT ![h] = None]
  /\ IF ref' = 0 /\ fn # <<>>
     THEN /\ collector' = fn[Len(fn)][2]
          /\ setting' = [s \in Setters |-> setting[s] /\ \A i \in 1 .. Len(fn) : fn[i][1] # s]
          /\ fn' = <<>>
     ELSE UNCHANGED <<collector, setting, fn>>
  /\ UNCHANGED want

-----------------------------------------------------------------------------
(* SetCollector replaces the collector whether or not it is in use         *)
BadSetCollector(s, col) ==
  /\ ~setting[s] /\ mu = None
  /\ want' = col
  /\ collector' = col
  /\ UNCHANGED <<mu, ref, fn, setting, hpc, on>>

(* a later closure forgets the one it replaces                             *)
BadSetNoChain(s, col) ==
  /\ ~setting[s] /\ mu = None
  /\ want' = col
  /\ IF ref = 0
     THEN collector' = col /\ UNCHANGED <<fn, setting>>
     ELSE /\ fn' = << <<s, col>> >>
          /\ setting' = [setting EXCEPT ![s] = TRUE]
          /\ UNCHANGED collector
  /\ UNCHANGED <<mu, ref, hpc, on>>

SetCollector(s, col) ==
  /\ ~setting[s] /\ mu = None
  /\ want' = col
  /\ IF ref = 0
     THEN collector' = col /\ UNCHANGED <<fn, setting>>
     ELSE /\ fn' = Append(fn, <<s, col>>)
          /\ setting' = [setting EXCEPT ![s] = TRUE]
          /\ UNCHANGED collector
  /\ UNCHANGED <<mu, ref, hpc, on>>

-----------------------------------------------------------------------------
Answer(h) == \E ok \in BOOLEAN : StartReturn(h, ok)

collectCPUProfile(h) == \/ StartLock(h) \/ Answer(h) \/ Deadline(h)
                        \/ StopLock(h) \/ StopReturn(h)

RegNext == \/ \E h \in Handlers : Request(h) \/ collectCPUProfile(h)
           \/ \E s \in Setters, col \in Collectors \cup {None} : SetCollector(s, col)

RegSpec == RegInit /\ [][RegNext]_regVars

-----------------------------------------------------------------------------
(* Properties.                                                             *)

RegTypeOK ==
  /\ mu \in Handlers \cup {None}
  /\ collector \in Collectors \cup {None}
  /\ ref \in Nat
  /\ fn \in Seq(Setters \X (Collectors \cup {None}))
  /\ hpc \in [Handlers -> {"idle", "start", "starting", "profiling", "stop", "stopping"}]
  /\ on \in [Handlers -> Collectors \cup {None}]
  /\ setting \in [Setters -> BOOLEAN]
  /\ want \in Collectors \cup {None}

(* A profile is stopped through the collector that started it: SetCollector *)
(* never changes the collector between a successful StartCPUProfile and    *)
(* the StopCPUProfile of the same request (nor leaves it nil).             *)
SameCollector ==
  \A h \in Handlers : hpc[h] \in {"starting", "profiling", "stop", "stopping"}
                        => collector = on[h] /\ on[h] # None

(* The requests with a profile that StartCPUProfile has started.           *)
Taking == {h \in Handlers : hpc[h] \in {"profiling", "stop", "stopping"}}

(* c.ref counts the profiles being taken: a refused StartCPUProfile leaves *)
(* nothing behind that would keep SetCollector waiting for ever.           *)
RefCounts == ref = Cardinality(Taking)

(* A setter waits exactly while its closure is on the chain, and there is  *)
(* a chain only while a profile is being taken: no closure is lost or left *)
(* behind when c.fn is replaced by StopCPUProfile or SetCollector.         *)
NoForgottenSetter ==
  /\ ref = 0 => fn = <<>>
  /\ \A s \in Setters : setting[s] <=> \E i \in 1 .. Len(fn) : fn[i][1] = s

(* When no SetCollector is waiting, the registered collector is the one    *)
(* asked for last, in the order in which the mutex was taken.              *)
LastRequestWins ==
  fn = <<>> => \/ collector = want
               \/ want = None /\ collector = Default
=============================================================================
