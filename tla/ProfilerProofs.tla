--------------------------- MODULE ProfilerProofs ---------------------------
(***************************************************************************)
(* Proofs about the collector registry, for any number of requests and     *)
(* setters and any collectors.  The whole profiler uses the registry as    *)
(* module Registry says, and so inherits what is proved of it.  On top of  *)
(* that, an inductive invariant of the collector, the snapshot loop, the   *)
(* requests and the application together gives the profiler's own          *)
(* properties.                                                             *)
(***************************************************************************)
EXTENDS Profiler, FiniteSetTheorems, SequenceTheorems, TLAPS

-----------------------------------------------------------------------------
(* The registry.                                                           *)

(* The mutex is held across a collector call, by the request that calls.   *)
Holder == \A h \in Handlers : hpc[h] \in {"starting", "stopping"} <=> mu = h

(* The newest closure is the one that will install the collector asked for *)
(* last.                                                                   *)
NewestClosure == fn # <<>> => fn[Len(fn)][2] = want

RegInv == /\ RegTypeOK /\ Holder /\ NewestClosure
          /\ RefCounts /\ SameCollector /\ NoForgottenSetter /\ LastRequestWins

(* The requests that take a profile are finitely many.                     *)
LEMMA TakingFinite == IsFiniteSet(Taking)
BY FiniteHandlers, FS_Subset DEF Taking

(* It holds at first.                                                      *)
LEMMA InitInv == RegInit => RegInv
<1> SUFFICES ASSUME RegInit PROVE RegInv
  OBVIOUS
<1> USE DefaultAssumption, NobodyAssumption DEF RegInit
<1>1. RegTypeOK
  BY DEF RegTypeOK
<1>2. RefCounts
  <2>1. Taking = {}
    BY DEF Taking
  <2> QED BY <2>1, FS_EmptySet DEF RefCounts
<1>3. Holder /\ NewestClosure /\ SameCollector /\ LastRequestWins
  BY DEF Holder, NewestClosure, SameCollector, LastRequestWins
<1>4. NoForgottenSetter
  BY DEF NoForgottenSetter
<1> QED BY <1>1, <1>2, <1>3, <1>4 DEF RegInv

(* StartCPUProfile succeeds: one more profile is being taken.              *)
LEMMA TakingGrows ==
  ASSUME NEW h \in Handlers, RegTypeOK, RefCounts,
         hpc[h] = "starting", hpc' = [hpc EXCEPT ![h] = "profiling"], ref' = ref + 1
  PROVE  RefCounts'
<1>1. Taking' = Taking \cup {h} /\ h \notin Taking
  BY DEF Taking, RegTypeOK
<1>2. Cardinality(Taking \cup {h}) = Cardinality(Taking) + 1
  BY <1>1, TakingFinite, FS_AddElement
<1> QED BY <1>1, <1>2 DEF RefCounts

(* StopCPUProfile: one less.                                               *)
LEMMA TakingShrinks ==
  ASSUME NEW h \in Handlers, RegTypeOK, RefCounts,
         hpc[h] = "stopping", hpc' = [hpc EXCEPT ![h] = "idle"], ref' = ref - 1
  PROVE  RefCounts' /\ ref' \in Nat
<1>1. Taking' = Taking \ {h} /\ h \in Taking
  BY DEF Taking, RegTypeOK
<1>2. /\ Cardinality(Taking \ {h}) = Cardinality(Taking) - 1
      /\ IsFiniteSet(Taking \ {h})
  BY <1>1, TakingFinite, FS_RemoveElement
<1>3. Cardinality(Taking \ {h}) \in Nat
  BY <1>2, FS_CardinalityType
<1> QED BY <1>1, <1>2, <1>3 DEF RefCounts

(* A step that moves no request into or out of a profile keeps the count.  *)
LEMMA TakingSame ==
  ASSUME RefCounts, Taking' = Taking, ref' = ref
  PROVE  RefCounts'
BY DEF RefCounts

(* Nobody takes a profile when c.ref is zero.                              *)
LEMMA NobodyTakes ==
  ASSUME RegTypeOK, RefCounts, ref = 0
  PROVE  \A h \in Handlers : hpc[h] \notin {"profiling", "stop", "stopping"}
<1>1. Taking = {}
  BY TakingFinite, FS_EmptySet DEF RefCounts
<1> QED BY <1>1 DEF Taking

(* A request asks for a profile.                                           *)
LEMMA RequestInv == ASSUME NEW h \in Handlers, RegInv, Request(h) PROVE RegInv'
<1> USE DEF Request, setVars
<1>1. RegTypeOK'
  BY DEF RegInv, RegTypeOK
<1>2. RefCounts'
  <2>1. Taking' = Taking
    BY DEF RegInv, RegTypeOK, Taking
  <2> QED BY <2>1, TakingSame DEF RegInv
<1>3. Holder' /\ SameCollector'
  BY DEF RegInv, RegTypeOK, Holder, SameCollector
<1>4. NewestClosure' /\ NoForgottenSetter' /\ LastRequestWins'
  BY DEF RegInv, NewestClosure, NoForgottenSetter, LastRequestWins
<1> QED BY <1>1, <1>2, <1>3, <1>4 DEF RegInv

(* StartCPUProfile takes the lock.                                         *)
LEMMA StartLockInv == ASSUME NEW h \in Handlers, RegInv, StartLock(h) PROVE RegInv'
<1> USE DefaultAssumption, NobodyAssumption DEF StartLock, setVars
<1>1. RegTypeOK'
  BY DEF RegInv, RegTypeOK
<1>2. RefCounts'
  <2>1. Taking' = Taking
    BY DEF RegInv, RegTypeOK, Taking
  <2> QED BY <2>1, TakingSame DEF RegInv
<1>3. Holder' /\ SameCollector'
  BY DEF RegInv, RegTypeOK, Holder, SameCollector
<1>4. NewestClosure' /\ NoForgottenSetter'
  BY DEF RegInv, NewestClosure, NoForgottenSetter
<1>5. LastRequestWins'
  BY DEF RegInv, LastRequestWins
<1> QED BY <1>1, <1>2, <1>3, <1>4, <1>5 DEF RegInv

(* StartCPUProfile returns.                                                *)
LEMMA StartReturnInv ==
  ASSUME NEW h \in Handlers, NEW ok \in BOOLEAN, RegInv, StartReturn(h, ok)
  PROVE  RegInv'
<1> USE DefaultAssumption, NobodyAssumption DEF StartReturn, setVars
<1>1. RegTypeOK'
  BY DEF RegInv, RegTypeOK
<1>2. RefCounts'
  <2>1. CASE ok
    BY <2>1, TakingGrows DEF RegInv
  <2>2. CASE ~ok
    <3>1. Taking' = Taking
      BY <2>2 DEF RegInv, RegTypeOK, Taking
    <3> QED BY <2>2, <3>1, TakingSame DEF RegInv
  <2> QED BY <2>1, <2>2
<1>3. Holder' /\ SameCollector'
  BY DEF RegInv, RegTypeOK, Holder, SameCollector
<1>4. NewestClosure' /\ LastRequestWins'
  BY DEF RegInv, NewestClosure, LastRequestWins
<1>5. NoForgottenSetter'
  BY DEF RegInv, RegTypeOK, NoForgottenSetter
<1> QED BY <1>1, <1>2, <1>3, <1>4, <1>5 DEF RegInv

(* The handler has slept, or its request is cancelled.                     *)
LEMMA DeadlineInv == ASSUME NEW h \in Handlers, RegInv, Deadline(h) PROVE RegInv'
<1> USE DEF Deadline, setVars
<1>1. RegTypeOK'
  BY DEF RegInv, RegTypeOK
<1>2. RefCounts'
  <2>1. Taking' = Taking
    BY DEF RegInv, RegTypeOK, Taking
  <2> QED BY <2>1, TakingSame DEF RegInv
<1>3. Holder' /\ SameCollector'
  BY DEF RegInv, RegTypeOK, Holder, SameCollector
<1>4. NewestClosure' /\ NoForgottenSetter' /\ LastRequestWins'
  BY DEF RegInv, NewestClosure, NoForgottenSetter, LastRequestWins
<1> QED BY <1>1, <1>2, <1>3, <1>4 DEF RegInv

(* StopCPUProfile takes the lock.                                          *)
LEMMA StopLockInv == ASSUME NEW h \in Handlers, RegInv, StopLock(h) PROVE RegInv'
<1> USE NobodyAssumption DEF StopLock, setVars
<1>1. RegTypeOK'
  BY DEF RegInv, RegTypeOK
<1>2. RefCounts'
  <2>1. Taking' = Taking
    BY DEF RegInv, RegTypeOK, Taking
  <2> QED BY <2>1, TakingSame DEF RegInv
<1>3. Holder' /\ SameCollector'
  BY DEF RegInv, RegTypeOK, Holder, SameCollector
<1>4. NewestClosure' /\ NoForgottenSetter' /\ LastRequestWins'
  BY DEF RegInv, NewestClosure, NoForgottenSetter, LastRequestWins
<1> QED BY <1>1, <1>2, <1>3, <1>4 DEF RegInv

(* The step that may run the closures.  If it does, c.ref was one: no      *)
(* other request is inside a profile, so none can see its collector change.*)
LEMMA StopReturnInv == ASSUME NEW h \in Handlers, RegInv, StopReturn(h) PROVE RegInv'
<1> USE DefaultAssumption, NobodyAssumption DEF StopReturn
<1>1. RefCounts' /\ ref' \in Nat
  BY TakingShrinks DEF RegInv
<1>2. RegTypeOK'
  <2>1. collector' \in Collectors \cup {None}
    <3>1. CASE ref' = 0 /\ fn # <<>>
      <4>1. Len(fn) \in 1 .. Len(fn)
        BY <3>1 DEF RegInv, RegTypeOK
      <4>2. fn[Len(fn)] \in Setters \X (Collectors \cup {None})
        BY <4>1 DEF RegInv, RegTypeOK
      <4> QED BY <3>1, <4>2
    <3>2. CASE ~(ref' = 0 /\ fn # <<>>)
      BY <3>2 DEF RegInv, RegTypeOK
    <3> QED BY <3>1, <3>2
  <2>2. /\ mu' \in Handlers \cup {None}
        /\ on' \in [Handlers -> Collectors \cup {None}]
        /\ hpc' \in [Handlers -> {"idle", "start", "starting", "profiling", "stop", "stopping"}]
        /\ want' \in Collectors \cup {None}
    BY DEF RegInv, RegTypeOK
  <2>3. fn' \in Seq(Setters \X (Collectors \cup {None}))
    <3>1. fn' = <<>> \/ fn' = fn
      OBVIOUS
    <3>2. fn \in Seq(Setters \X (Collectors \cup {None}))
      BY DEF RegInv, RegTypeOK
    <3> HIDE DEF StopReturn
    <3> QED BY <3>1, <3>2, EmptySeq
  <2>4. setting' \in [Setters -> BOOLEAN]
    <3>1. CASE ref' = 0 /\ fn # <<>>
      <4> DEFINE Queued(s) == setting[s] /\ \A i \in 1 .. Len(fn) : fn[i][1] # s
      <4>1. setting' = [s \in Setters |-> Queued(s)]
        BY <3>1
      <4>2. \A s \in Setters : Queued(s) \in BOOLEAN
        OBVIOUS
      <4> HIDE DEF Queued
      <4> QED BY <4>1, <4>2
    <3>2. CASE ~(ref' = 0 /\ fn # <<>>)
      BY <3>2 DEF RegInv, RegTypeOK
    <3> QED BY <3>1, <3>2
  <2> QED BY <1>1, <2>1, <2>2, <2>3, <2>4 DEF RegTypeOK
<1>3. Holder'
  BY DEF RegInv, RegTypeOK, Holder
<1>4. SameCollector'
  <2>1. CASE ref' = 0 /\ fn # <<>>
    <3>1. \A g \in Handlers : hpc'[g] \notin {"profiling", "stop", "stopping"}
      <4>1. Taking' = {}
        <5>1. IsFiniteSet(Taking')
          BY FiniteHandlers, FS_Subset DEF Taking
        <5> QED BY <2>1, <1>1, <5>1, FS_EmptySet DEF RefCounts
      <4> QED BY <4>1 DEF Taking
    <3>2. \A g \in Handlers : hpc'[g] # "starting"
      BY DEF RegInv, RegTypeOK, Holder
    <3> QED BY <3>1, <3>2 DEF SameCollector
  <2>2. CASE ~(ref' = 0 /\ fn # <<>>)
    BY <2>2 DEF RegInv, RegTypeOK, SameCollector
  <2> QED BY <2>1, <2>2
<1>5. NewestClosure' /\ LastRequestWins'
  BY DEF RegInv, NewestClosure, LastRequestWins
<1>6. NoForgottenSetter'
  <2>1. CASE ref' = 0 /\ fn # <<>>
    <3>1. fn' = <<>> /\ Len(fn') = 0
      BY <2>1
    <3>2. ASSUME NEW s \in Setters PROVE ~setting'[s]
      <4>1. setting'[s] = (setting[s] /\ \A i \in 1 .. Len(fn) : fn[i][1] # s)
        BY <2>1
      <4>2. setting[s] <=> \E i \in 1 .. Len(fn) : fn[i][1] = s
        BY DEF RegInv, NoForgottenSetter
      <4> QED BY <4>1, <4>2
    <3> QED BY <3>1, <3>2 DEF NoForgottenSetter
  <2>2. CASE ~(ref' = 0 /\ fn # <<>>)
    BY <2>2 DEF RegInv, NoForgottenSetter
  <2> QED BY <2>1, <2>2
<1> QED BY <1>1, <1>2, <1>3, <1>4, <1>5, <1>6 DEF RegInv

(* A collector is set.                                                     *)
LEMMA SetCollectorInv ==
  ASSUME NEW s \in Setters, NEW col \in Collectors \cup {None}, RegInv, SetCollector(s, col)
  PROVE  RegInv'
<1> USE NobodyAssumption DEF SetCollector
<1> DEFINE Closure == Setters \X (Collectors \cup {None})
<1>0. /\ Append(fn, <<s, col>>) \in Seq(Closure)
      /\ Append(fn, <<s, col>>) # <<>>
      /\ Len(fn) \in Nat
      /\ Len(Append(fn, <<s, col>>)) = Len(fn) + 1
      /\ Append(fn, <<s, col>>)[Len(fn) + 1] = <<s, col>>
      /\ \A i \in 1 .. Len(fn) : Append(fn, <<s, col>>)[i] = fn[i]
  <2>1. fn \in Seq(Closure)
    BY DEF RegInv, RegTypeOK
  <2>2. <<s, col>> \in Closure
    OBVIOUS
  <2>3. Len(fn) \in Nat
    BY <2>1, LenProperties
  <2> HIDE DEF Closure
  <2> QED BY <2>1, <2>2, <2>3, AppendProperties
<1>1. RegTypeOK'
  <2>1. CASE ref = 0
    BY <2>1 DEF RegInv, RegTypeOK
  <2>2. CASE ref # 0
    BY <2>2, <1>0 DEF RegInv, RegTypeOK
  <2> QED BY <2>1, <2>2
<1>2. RefCounts'
  <2>1. Taking' = Taking
    BY DEF Taking
  <2> QED BY <2>1, TakingSame DEF RegInv
<1>3. Holder'
  BY DEF RegInv, Holder
<1>4. SameCollector'
  <2>1. CASE ref = 0
    <3>1. \A h \in Handlers : hpc[h] \notin {"starting", "profiling", "stop", "stopping"}
      BY <2>1, NobodyTakes DEF RegInv, Holder
    <3> QED BY <3>1 DEF SameCollector
  <2>2. CASE ref # 0
    BY <2>2 DEF RegInv, SameCollector
  <2> QED BY <2>1, <2>2
<1>5. NewestClosure' /\ LastRequestWins'
  <2>1. CASE ref = 0
    BY <2>1 DEF RegInv, NewestClosure, LastRequestWins, NoForgottenSetter
  <2>2. CASE ref # 0
    <3>1. Len(fn') = Len(fn) + 1 /\ fn'[Len(fn) + 1] = <<s, col>> /\ fn' # <<>>
      BY <2>2, <1>0
    <3> QED BY <2>2, <3>1 DEF NewestClosure, LastRequestWins
  <2> QED BY <2>1, <2>2
<1>6. NoForgottenSetter'
  <2>1. CASE ref = 0
    BY <2>1 DEF RegInv, NoForgottenSetter
  <2>2. CASE ref # 0
    <3>1. /\ Len(fn) \in Nat /\ Len(fn') = Len(fn) + 1
          /\ fn'[Len(fn) + 1] = <<s, col>>
          /\ \A i \in 1 .. Len(fn) : fn'[i] = fn[i]
      BY <2>2, <1>0
    <3>2. ASSUME NEW r \in Setters
          PROVE  setting'[r] <=> \E i \in 1 .. Len(fn') : fn'[i][1] = r
      <4>1. CASE r = s
        <5>1. Len(fn) + 1 \in 1 .. Len(fn') /\ fn'[Len(fn) + 1][1] = r
          BY <3>1, <4>1
        <5>2. setting'[r]
          BY <2>2, <4>1 DEF RegInv, RegTypeOK
        <5> QED BY <5>1, <5>2
      <4>2. CASE r # s
        <5>1. setting'[r] = setting[r]
          BY <2>2, <4>2 DEF RegInv, RegTypeOK
        <5>2. (\E i \in 1 .. Len(fn') : fn'[i][1] = r) <=> \E i \in 1 .. Len(fn) : fn[i][1] = r
          BY <3>1, <4>2
        <5> QED BY <5>1, <5>2 DEF RegInv, NoForgottenSetter
      <4> QED BY <4>1, <4>2
    <3> QED BY <2>2, <3>2 DEF NoForgottenSetter
  <2> QED BY <2>1, <2>2
<1> QED BY <1>1, <1>2, <1>3, <1>4, <1>5, <1>6 DEF RegInv

(* The invariant is inductive.                                             *)
LEMMA NextInv == RegInv /\ [RegNext]_regVars => RegInv'
<1> SUFFICES ASSUME RegInv, [RegNext]_regVars PROVE RegInv'
  OBVIOUS
<1>1. CASE UNCHANGED regVars
  BY <1>1 DEF RegInv, RegTypeOK, Holder, NewestClosure, RefCounts, SameCollector,
              NoForgottenSetter, LastRequestWins, Taking, regVars
<1>2. ASSUME NEW h \in Handlers, Request(h) PROVE RegInv'
  BY <1>2, RequestInv
<1>3. ASSUME NEW h \in Handlers, collectCPUProfile(h) PROVE RegInv'
  <2>1. CASE Answer(h)
    BY <2>1, StartReturnInv DEF Answer
  <2> QED BY <1>3, <2>1, StartLockInv, DeadlineInv, StopLockInv, StopReturnInv
          DEF collectCPUProfile
<1>4. ASSUME NEW s \in Setters, NEW col \in Collectors \cup {None}, SetCollector(s, col)
      PROVE  RegInv'
  BY <1>4, SetCollectorInv
<1> QED BY <1>1, <1>2, <1>3, <1>4 DEF RegNext

(* The registry keeps its types, its count of the profiles being taken and *)
(* its chain of closures, and a profile is stopped through the collector   *)
(* that started it, for any number of requests and calls of SetCollector.  *)
THEOREM RegistrySafe ==
  RegSpec => [](RegTypeOK /\ SameCollector /\ RefCounts /\ NoForgottenSetter /\ LastRequestWins)
<1>1. RegInv => RegTypeOK /\ SameCollector /\ RefCounts /\ NoForgottenSetter /\ LastRequestWins
  BY DEF RegInv
<1> QED BY InitInv, NextInv, <1>1, PTL DEF RegSpec

-----------------------------------------------------------------------------
(* The profiler uses the registry.                                         *)

(* The owner, the users and the application leave the registry alone.      *)
LEMMA OthersLeaveRegistry ==
  ASSUME \/ Start \/ Stop \/ Stopped \/ Application
         \/ \E u \in Users : Flush(u)
  PROVE  UNCHANGED regVars
BY DEF Start, Stop, Stopped, Application, Flush, ExtStart, ExtStop

(* The snapshot loop calls SetCollector to unregister, and nothing else.   *)
LEMMA LoopUsesRegistry ==
  ASSUME takeSnapshots PROVE [RegNext]_regVars
<1>1. CASE LoopUnregister
  BY <1>1, SetterAssumption, DefaultAssumption DEF LoopUnregister, RegNext
<1>2. CASE \E u \in Users : LoopFlush(u)
  BY <1>2 DEF LoopFlush
<1>3. CASE LoopFlushed \/ LoopStop \/ LoopHalt \/ LoopJoin
  BY <1>3 DEF LoopFlushed, LoopStop, LoopHalt, LoopJoin
<1> QED BY <1>1, <1>2, <1>3 DEF takeSnapshots

(* The collector's goroutine calls SetCollector to register.               *)
LEMMA CollectorUsesRegistry ==
  ASSUME Collector PROVE [RegNext]_regVars
<1>1. CASE CollRegister
  BY <1>1, SetterAssumption, CpuAssumption DEF CollRegister, RegNext
<1>2. CASE CollBegin \/ Restart \/ CollTick \/ CollHalt
  BY <1>2 DEF CollBegin, Restart, CollTick, CollHalt
<1>3. CASE \E p \in Clients : CollEvent(p)
  BY <1>3 DEF CollEvent
<1> QED BY <1>1, <1>2, <1>3 DEF Collector, CollStep

(* A request goes through StartCPUProfile and StopCPUProfile; whatever the *)
(* collector answers is an answer the registry allows.                     *)
LEMMA RequestsUseRegistry ==
  ASSUME NEW h \in Handlers, Requests(h) PROVE RegNext
<1>1. CASE NewRequest(h)
  BY <1>1 DEF NewRequest, RegNext
<1>2. CASE StartDone(h)
  <2>1. \E ok \in BOOLEAN : StartReturn(h, ok)
    BY <1>2 DEF StartDone
  <2> QED BY <2>1 DEF Answer, collectCPUProfile, RegNext
<1>3. CASE StartSend(h) \/ Expire(h) \/ StopSend(h) \/ StopDone(h)
  BY <1>3 DEF StartSend, Expire, StopSend, StopDone, collectCPUProfile, RegNext
<1> QED BY <1>1, <1>2, <1>3 DEF Requests, ServeProfile

(* Every step of the profiler is one of the registry, or leaves it alone.  *)
LEMMA StepUsesRegistry == [Next]_vars => [RegNext]_regVars
<1> SUFFICES ASSUME [Next]_vars PROVE [RegNext]_regVars
  OBVIOUS
<1>1. CASE UNCHANGED vars
  BY <1>1 DEF vars
<1>2. CASE Start \/ Stop \/ Stopped \/ Application \/ \E u \in Users : Flush(u)
  BY <1>2, OthersLeaveRegistry
<1>3. CASE takeSnapshots
  BY <1>3, LoopUsesRegistry
<1>4. CASE Collector
  BY <1>4, CollectorUsesRegistry
<1>5. CASE \E h \in Handlers : Requests(h)
  BY <1>5, RequestsUseRegistry
<1> QED BY <1>1, <1>2, <1>3, <1>4, <1>5 DEF Next

(* The profiler is composed of the registry's actions, so what holds of    *)
(* the registry on its own holds in the profiler.                          *)
LEMMA ProfilerUsesRegistry == Spec => RegSpec
<1>1. Init => RegInit
  BY DEF Init
<1> QED BY <1>1, StepUsesRegistry, PTL DEF Spec, RegSpec

(* In the running profiler, with its collector, its snapshot loop, Stop    *)
(* and any number of requests, a CPU profile is stopped through the        *)
(* collector that started it, though cpu.Start and cpu.Stop replace the    *)
(* collector while requests are in progress.                               *)
THEOREM ProfilerSameCollector == Spec => []SameCollector
BY ProfilerUsesRegistry, RegistrySafe, PTL

(* And no SetCollector of the collector or of the snapshot loop waits for  *)
(* a closure that was lost.                                                *)
THEOREM ProfilerNoForgottenSetter == Spec => []NoForgottenSetter
BY ProfilerUsesRegistry, RegistrySafe, PTL

(***************************************************************************)
(* The invariant of the profiler, as a conjunction of parts.               *)
(***************************************************************************)

(* The types of what the owner, the snapshot loop and the users keep.      *)
MainTypes ==
  /\ opc \in {"new", "running", "stopping", "stopped"}
  /\ lpc \in {"off", "select", "flush", "stop", "unregistering", "join", "exited"}
  /\ flusher \in Users \cup {None}
  /\ upc \in [Users -> {"idle", "send", "wait"}]
  /\ owed \subseteq Users

(* A client has an event or an answer exactly while it is in a call of the *)
(* CPU collector, and one that suits the call.                             *)
EventInv ==
  /\ \A h \in Handlers : hpc[h] = "starting" /\ on[h] = Cpu
                           => ev[h] \in {"start", "busy", "ok", "err"}
  /\ \A h \in Handlers : hpc[h] = "stopping" /\ on[h] = Cpu
                           => ev[h] \in {"stop", "busy", "ok", "err"}
  /\ \A h \in Handlers : ev[h] # "none" => hpc[h] \in {"starting", "stopping"} /\ on[h] = Cpu
  /\ lpc = "flush" => ev[Loop] \in {"flush", "busy", "ok", "err"}
  /\ lpc # "flush" => ev[Loop] = "none"

(* In the middle of a reset the collector serves the one client whose      *)
(* event it has taken, which is still in the call it made.                 *)
ServeInv ==
  /\ \A p \in Clients : ev[p] = "busy" <=> (cpc = "restart" /\ serving[1] = p)
  /\ cpc # "restart" => serving = <<None, "none">>
  /\ cpc = "restart" =>
       \/ serving = <<None, "background">>
       \/ serving = <<Loop, "flush">>
       \/ \E h \in Handlers : hpc[h] = "starting" /\ serving = <<h, "start">>
       \/ \E h \in Handlers : hpc[h] = "stopping" /\ serving = <<h, "stop">>

(* How far Start and Stop have got, seen from the owner, from the loop and *)
(* from the collector.                                                     *)
LifeInv ==
  /\ opc = "new" => lpc = "off" /\ cpc = "off"
  /\ opc = "running" => lpc \in {"select", "flush"}
  /\ opc = "stopped" => lpc = "exited" /\ cpc \in {"off", "exited"}
  /\ halt => lpc \in {"join", "exited"}
  /\ lpc = "off" => opc = "new"

(* cpu.Stop has not called SetCollector.                                   *)
Early == lpc \in {"off", "select", "flush", "stop"}

(* Until then the collector asked for is the one cpu.Start asked for, and  *)
(* cpu.Start goes on only when its SetCollector has returned.              *)
AskInv ==
  /\ Early => /\ cpc \in {"off", "new"} => want = None
              /\ cpc \notin {"off", "new"} => want = Cpu
              /\ \A i \in 1 .. Len(fn) : fn[i][1] = Coll
  /\ cpc \in {"restart", "select", "exited"} => ~setting[Coll]

(* If Stop comes after cpu.Start has registered, the call of cpu.Stop is   *)
(* the last SetCollector there is.                                         *)
RestoreInv == CpuEnabled /\ ~PromptStop =>
  /\ opc \in {"stopping", "stopped"} => cpc # "new"
  /\ lpc \in {"unregistering", "join", "exited"} => want = Default
  /\ lpc = "unregistering" => fn = <<>> \/ fn[Len(fn)][1] = Loop
  /\ lpc \in {"join", "exited"} => fn = <<>>

(* The loop serves the flush of a user, who waits for it, and to whom      *)
(* nothing is owed once the collector has started a reset for it; if the   *)
(* flush was refused, not after the end of the foreground profile either.  *)
OwedInv == lpc = "flush" =>
  /\ flusher \in Users
  /\ flusher \in Waits => /\ upc[flusher] = "wait"
                          /\ ev[Loop] \in {"busy", "ok"} => flusher \notin owed
                          /\ ev[Loop] = "err" /\ flusher \in owed
                               => cpc = "select" /\ started

(* The request h has a foreground profile: its start event succeeded and   *)
(* its stop event has not been taken.                                      *)
Active(h) == /\ on[h] = Cpu
             /\ \/ hpc[h] \in {"profiling", "stop"}
                \/ hpc[h] = "starting" /\ ev[h] = "ok"
                \/ hpc[h] = "stopping" /\ ev[h] = "stop"

(* c.started says that there is a foreground profile; there is one at most. *)
StartedInv ==
  /\ \A h \in Handlers : Active(h) => cpc = "select" /\ started /\ timed
  /\ \A g, h \in Handlers : Active(g) /\ Active(h) => g = h
  /\ cpc = "select" /\ started => \E h \in Handlers : Active(h)
  /\ cpc = "restart" => (started <=> serving[2] = "stop")
  /\ cpc \notin {"select", "restart"} => ~started

(* The runtime takes a request's profile only for a request that is in     *)
(* between Start and Stop, and only the collector's profiles go to c.buf.  *)
RuntimeInv ==
  /\ \A h \in Handlers : rt = h => Active(h) \/ (on[h] = Default /\ h \in Taking)
  /\ rtBuf <=> rt = Bg \/ \E h \in Handlers : rt = h /\ Active(h)
  /\ ~ExtUses => ~extOn /\ rt # Ext

(* c.buf is empty while a profile is being written to it, and whenever the *)
(* collector is not in its select or timeStarted is zero; it holds one     *)
(* profile at most, ended by someone else than the collector.              *)
BufferInv ==
  /\ rtBuf => buf = <<>>
  /\ cpc # "select" \/ ~timed => ~rtBuf /\ buf = <<>>
  /\ \/ buf = <<>>
     \/ buf = <<Bg>>
     \/ \E h \in Handlers : Active(h) /\ buf = <<h>>

(* A foreground profile is being taken, or was ended early and is complete *)
(* in c.buf and in the response; it is uploaded once, when it is stopped.  *)
DeliveryInv ==
  \A h \in Handlers :
    /\ Active(h) => /\ up[h] = 0
                    /\ \/ rt = h /\ got[h] = 0
                       \/ rt # h /\ got[h] = 1 /\ buf = <<h>>
    /\ hpc[h] \in {"start", "starting"} /\ ~Active(h) => got[h] = 0 /\ up[h] = 0
    /\ hpc[h] = "stopping" /\ on[h] = Cpu /\ ~Active(h) => got[h] = 1 /\ up[h] = 1

(* If the application keeps off runtime/pprof, then until Stop is called   *)
(* whoever started a profile still has it, and the collector has one       *)
(* whenever it is in its select.                                           *)
OwnInv == ~ExtUses /\ opc \in {"new", "running"} =>
  /\ \A h \in Taking : on[h] = Default => rt = h
  /\ cpc = "select" => IF started THEN \E h \in Handlers : rt = h /\ Active(h) ELSE rt = Bg

ProfInv == /\ RegInv /\ CpuTypeOK /\ MainTypes /\ EventInv /\ ServeInv
           /\ LifeInv /\ AskInv /\ RestoreInv /\ OwedInv
           /\ StartedInv /\ RuntimeInv /\ BufferInv /\ DeliveryInv /\ OwnInv

(* What module Profiler adds to a step of the collector.                   *)
Owes == /\ owed' = IF cpc' \in {"restart", "exited"} /\ ~Unsent' THEN {} ELSE owed
        /\ UNCHANGED <<opc, lpc, flusher, upc>>

(***************************************************************************)
(* Lemmas about c.buf and the runtime's profile.                           *)
(***************************************************************************)
(* What is in c.buf once the runtime has stopped: one profile at most.     *)
LEMMA WrittenOne ==
  ASSUME BufferInv, CpuTypeOK
  PROVE  /\ rtBuf => Written = <<rt>>
         /\ ~rtBuf => Written = buf
<1>1. rtBuf => Written = Append(<<>>, rt)
  BY DEF BufferInv, Written
<1>2. Append(<<>>, rt) = <<rt>>
  OBVIOUS
<1> QED BY <1>1, <1>2 DEF Written

(* How often h occurs in a sequence of one.                                *)
LEMMA CountOne ==
  ASSUME NEW x, NEW h
  PROVE  Cardinality({i \in 1 .. Len(<<x>>) : <<x>>[i] = h}) = IF x = h THEN 1 ELSE 0
<1>1. CASE x = h
  <2>1. {i \in 1 .. Len(<<x>>) : <<x>>[i] = h} = {1}
    BY <1>1
  <2> QED BY <1>1, <2>1, FS_Singleton
<1>2. CASE x # h
  <2>1. {i \in 1 .. Len(<<x>>) : <<x>>[i] = h} = {}
    BY <1>2
  <2> QED BY <1>2, <2>1, FS_EmptySet
<1> QED BY <1>1, <1>2

(* The first half of a reset ends the profile, empties c.buf and uploads   *)
(* the profile it held, of which it counts one for the request that it is  *)
(* of.                                                                     *)
LEMMA Uploads ==
  ASSUME ProfInv, StopAndUpload
  PROVE  /\ rt' = Off /\ ~rtBuf' /\ rtBuf' = FALSE
         /\ buf' = <<>>
         /\ \A h \in Handlers : /\ got'[h] = IF rt = h THEN got[h] + 1 ELSE got[h]
                                /\ (rtBuf /\ rt = h) \/ buf = <<h>> => up'[h] = up[h] + 1
                                /\ ~((rtBuf /\ rt = h) \/ buf = <<h>>) => up'[h] = up[h]
         /\ got' \in [Handlers -> Nat] /\ up' \in [Handlers -> Nat]
<1>0. BufferInv /\ CpuTypeOK
  BY DEF ProfInv
<1>1. /\ rt' = Off /\ ~rtBuf' /\ rtBuf' = FALSE
      /\ got' \in [Handlers -> Nat]
      /\ \A h \in Handlers : got'[h] = IF rt = h THEN got[h] + 1 ELSE got[h]
  BY <1>0 DEF StopAndUpload, RuntimeStop, CpuTypeOK
<1>2. CASE Written = <<>>
  <2>1. buf' = <<>> /\ up' = up
    BY <1>2 DEF StopAndUpload
  <2>2. ~rtBuf /\ buf = <<>>
    BY <1>0, <1>2, WrittenOne
  <2> QED BY <1>0, <1>1, <2>1, <2>2 DEF CpuTypeOK
<1>3. CASE Written # <<>>
  <2>1. timed
    BY <1>0, <1>3, WrittenOne DEF BufferInv
  <2>2. /\ buf' = <<>>
        /\ up' = [h \in Handlers |->
               up[h] + Cardinality({i \in 1 .. Len(Written) : Written[i] = h})]
    BY <1>3, <2>1 DEF StopAndUpload
  <2>3. PICK x : Written = <<x>>
    BY <1>0, <1>3, WrittenOne DEF BufferInv
  <2>4. \A h \in Handlers :
          Cardinality({i \in 1 .. Len(Written) : Written[i] = h}) = IF x = h THEN 1 ELSE 0
    BY <2>3, CountOne
  <2>5. \A h \in Handlers : up'[h] = up[h] + (IF x = h THEN 1 ELSE 0)
    BY <2>2, <2>4
  <2>6. up' \in [Handlers -> Nat]
    <3>1. \A h \in Handlers : up[h] + (IF x = h THEN 1 ELSE 0) \in Nat
      BY <1>0 DEF CpuTypeOK
    <3>2. up' = [h \in Handlers |-> up[h] + (IF x = h THEN 1 ELSE 0)]
      BY <2>2, <2>4
    <3> QED BY <3>1, <3>2
  <2>7. \A h \in Handlers : x = h <=> ((rtBuf /\ rt = h) \/ buf = <<h>>)
    <3>1. CASE rtBuf
      <4>1. x = rt /\ buf = <<>>
        BY <1>0, <2>3, <3>1, WrittenOne DEF BufferInv
      <4> QED BY <3>1, <4>1
    <3>2. CASE ~rtBuf
      BY <1>0, <2>3, <3>2, WrittenOne
    <3> QED BY <3>1, <3>2
  <2>8. \A h \in Handlers : up[h] \in Nat
    BY <1>0 DEF CpuTypeOK
  <2>9. \A h \in Handlers : /\ x = h => up'[h] = up[h] + 1
                            /\ x # h => up'[h] = up[h]
    BY <2>5, <2>8
  <2> QED BY <1>1, <2>2, <2>6, <2>7, <2>9
<1> QED BY <1>2, <1>3

(* The contents of c.buf that occur.                                       *)
LEMMA BufType ==
  /\ <<>> \in Seq({Bg} \cup Handlers)
  /\ \A x \in {Bg} \cup Handlers : <<x>> \in Seq({Bg} \cup Handlers)
OBVIOUS

(* A reset without a foreground profile neither uploads nor writes the     *)
(* profile of a request that uses the CPU collector.                       *)
LEMMA IdleReset ==
  ASSUME ProfInv, StopAndUpload, \A h \in Handlers : ~Active(h)
  PROVE  \A h \in Handlers : /\ up'[h] = up[h]
                             /\ ~(on[h] = Default /\ h \in Taking) => got'[h] = got[h]
<1>1. ASSUME NEW h \in Handlers PROVE up'[h] = up[h]
  <2>1. ~(rtBuf /\ rt = h)
    BY NameAssumption DEF ProfInv, RuntimeInv
  <2>2. buf # <<h>>
    BY NameAssumption DEF ProfInv, BufferInv
  <2> QED BY <2>1, <2>2, Uploads
<1>2. ASSUME NEW h \in Handlers, ~(on[h] = Default /\ h \in Taking) PROVE got'[h] = got[h]
  <2>1. rt # h
    BY <1>2 DEF ProfInv, RuntimeInv
  <2> QED BY <2>1, Uploads
<1> QED BY <1>1, <1>2

(* c.buf holds profiles that were written to it.                           *)
LEMMA WrittenType ==
  ASSUME ProfInv PROVE Written \in Seq({Bg} \cup Handlers)
<1>1. CASE rtBuf
  <2>1. Written = <<rt>> /\ rt \in {Bg} \cup Handlers
    BY <1>1, WrittenOne DEF ProfInv, RuntimeInv
  <2> QED BY <2>1, BufType
<1>2. CASE ~rtBuf
  BY <1>2, WrittenOne DEF ProfInv, CpuTypeOK
<1> QED BY <1>1, <1>2

(* StopCPUProfile of the runtime.                                          *)
LEMMA StopTypes ==
  ASSUME CpuTypeOK, RuntimeStop
  PROVE  rt' = Off /\ rtBuf' = FALSE /\ got' \in [Handlers -> Nat]
<1>1. \A h \in Handlers : got[h] + (IF h = rt THEN 1 ELSE 0) \in Nat
  BY DEF CpuTypeOK
<1> QED BY <1>1 DEF RuntimeStop

(* When someone else than the collector ends the runtime profile, what the *)
(* collector had started stays in c.buf until its own reset.               *)
LEMMA StopKeeps ==
  ASSUME ProfInv, RuntimeStop, buf' = Written, UNCHANGED <<cpc, timed, up>>,
         \A g \in Handlers : Active(g)' <=> Active(g)
  PROVE  /\ BufferInv'
         /\ \A g \in Handlers : Active(g) => /\ up'[g] = 0 /\ got'[g] = 1
                                             /\ rt' # g /\ buf' = <<g>>
         /\ \A g \in Handlers : ~Active(g) /\ ~(on[g] = Default /\ g \in Taking)
                                   => got'[g] = got[g]
<1> USE NameAssumption
<1>1. rtBuf' = FALSE /\ rt' = Off
  BY DEF RuntimeStop
<1>2. \A g \in Handlers : got'[g] = IF rt = g THEN got[g] + 1 ELSE got[g]
  BY DEF ProfInv, CpuTypeOK, RuntimeStop
<1>3. BufferInv'
  <2>1. CASE rtBuf
    <3>1. /\ buf' = <<rt>> /\ cpc = "select" /\ timed
          /\ rt = Bg \/ \E g \in Handlers : rt = g /\ Active(g)
      BY <2>1, WrittenOne DEF ProfInv, BufferInv, RuntimeInv
    <3> QED BY <1>1, <3>1 DEF BufferInv
  <2>2. CASE ~rtBuf
    <3>1. buf' = buf
      BY <2>2, WrittenOne DEF ProfInv
    <3> QED BY <1>1, <2>2, <3>1 DEF ProfInv, BufferInv
  <2> QED BY <2>1, <2>2
<1>4. ASSUME NEW g \in Handlers, Active(g)
      PROVE  up'[g] = 0 /\ got'[g] = 1 /\ rt' # g /\ buf' = <<g>>
  <2>1. CASE rt = g
    <3>1. rtBuf /\ got[g] = 0 /\ up[g] = 0
      BY <1>4, <2>1 DEF ProfInv, RuntimeInv, DeliveryInv
    <3> QED BY <1>1, <1>2, <2>1, <3>1, WrittenOne DEF ProfInv
  <2>2. CASE rt # g
    <3>1. got[g] = 1 /\ up[g] = 0 /\ buf = <<g>>
      BY <1>4, <2>2 DEF ProfInv, DeliveryInv
    <3>2. ~rtBuf
      BY <3>1 DEF ProfInv, BufferInv
    <3> QED BY <1>1, <1>2, <2>2, <3>1, <3>2, WrittenOne DEF ProfInv
  <2> QED BY <2>1, <2>2
<1>5. ASSUME NEW g \in Handlers, ~Active(g), ~(on[g] = Default /\ g \in Taking)
      PROVE  got'[g] = got[g]
  BY <1>2, <1>5 DEF ProfInv, RuntimeInv
<1> QED BY <1>3, <1>4, <1>5

(* Until Stop is called, the collector past its first SetCollector is the  *)
(* registered one.                                                         *)
LEMMA Registered ==
  ASSUME ProfInv, opc \in {"new", "running"}, ~setting[Coll],
         cpc \in {"registering", "restart", "select"}
  PROVE  collector = Cpu
<1>1. want = Cpu /\ \A i \in 1 .. Len(fn) : fn[i][1] = Coll
  BY DEF ProfInv, LifeInv, AskInv, Early
<1>2. fn = <<>>
  BY <1>1, SetterAssumption DEF ProfInv, RegInv, RegTypeOK, NoForgottenSetter
<1> QED BY <1>1, <1>2, CpuAssumption, DefaultAssumption DEF ProfInv, RegInv, LastRequestWins

(* So no request is using the runtime directly then.                       *)
LEMMA NoneDirect ==
  ASSUME ProfInv, opc \in {"new", "running"}, ~setting[Coll],
         cpc \in {"registering", "restart", "select"}
  PROVE  \A h \in Taking : on[h] = Cpu
BY Registered DEF ProfInv, RegInv, SameCollector, Taking

(***************************************************************************)
(* The invariant is preserved, action by action.                           *)
(***************************************************************************)

(* Profiler.Start.                                                         *)
LEMMA StartStep ==
  ASSUME ProfInv, RegInv', Start
  PROVE  ProfInv'
<1> USE DEF Start, SessionStart, regVars, rtVars
<1>1. lpc = "off" /\ cpc = "off" /\ lpc' = "select" /\ cpc' \in {"new", "off"}
  BY DEF ProfInv, LifeInv
<1>2. (RuntimeInv /\ DeliveryInv)'
  BY DEF ProfInv, RuntimeInv, DeliveryInv, Active, Taking
<1>3. CpuTypeOK'
  BY DEF ProfInv, CpuTypeOK
<1>4. MainTypes'
  BY DEF ProfInv, MainTypes
<1>5. EventInv'
  BY <1>1 DEF ProfInv, EventInv
<1>6. ServeInv'
  BY <1>1 DEF ProfInv, ServeInv
<1>7. LifeInv'
  BY DEF ProfInv, LifeInv
<1>8. AskInv'
  BY DEF ProfInv, AskInv, Early, LifeInv, RegInv, RegTypeOK, MainTypes
<1>9. RestoreInv'
  BY DEF ProfInv, RestoreInv
<1>10. OwedInv'
  BY DEF ProfInv, OwedInv
<1>11. StartedInv'
  BY <1>1 DEF ProfInv, StartedInv, Active
<1>12. BufferInv'
  BY <1>1 DEF ProfInv, BufferInv
<1>13. OwnInv'
  BY DEF ProfInv, OwnInv, Taking
<1> QED BY <1>2, <1>3, <1>4, <1>5, <1>6, <1>7, <1>8, <1>9, <1>10, <1>11, <1>12,
         <1>13 DEF ProfInv

(* Session.Stop closes stopCh.                                             *)
LEMMA StopStep ==
  ASSUME ProfInv, RegInv', Stop
  PROVE  ProfInv'
<1> USE DEF Stop, regVars, cpuVars, rtVars, collVars
<1>1. (CpuTypeOK /\ EventInv /\ ServeInv /\ AskInv /\ OwedInv
       /\ StartedInv /\ RuntimeInv /\ BufferInv /\ DeliveryInv)'
  BY DEF ProfInv, CpuTypeOK, EventInv, ServeInv, AskInv, OwedInv, StartedInv,
           RuntimeInv, BufferInv, DeliveryInv, Active, Early, Taking
<1>2. MainTypes'
  BY DEF ProfInv, MainTypes
<1>3. LifeInv'
  BY DEF ProfInv, LifeInv
<1>4. RestoreInv'
  BY DEF ProfInv, RestoreInv
<1>5. OwnInv'
  BY DEF ProfInv, OwnInv
<1> QED BY <1>1, <1>2, <1>3, <1>4, <1>5 DEF ProfInv

(* Session.Stop returns.                                                   *)
LEMMA StoppedStep ==
  ASSUME ProfInv, RegInv', Stopped
  PROVE  ProfInv'
<1> USE DEF Stopped, regVars, cpuVars, rtVars, collVars
<1>1. (CpuTypeOK /\ EventInv /\ ServeInv /\ AskInv /\ OwedInv
       /\ StartedInv /\ RuntimeInv /\ BufferInv /\ DeliveryInv)'
  BY DEF ProfInv, CpuTypeOK, EventInv, ServeInv, AskInv, OwedInv, StartedInv,
           RuntimeInv, BufferInv, DeliveryInv, Active, Early, Taking
<1>2. MainTypes'
  BY DEF ProfInv, MainTypes
<1>3. LifeInv'
  BY DEF ProfInv, LifeInv
<1>4. RestoreInv'
  BY DEF ProfInv, RestoreInv
<1>5. OwnInv'
  BY DEF ProfInv, OwnInv
<1> QED BY <1>1, <1>2, <1>3, <1>4, <1>5 DEF ProfInv

(* A user calls Flush.                                                     *)
LEMMA FlushStep ==
  ASSUME NEW u \in Users, ProfInv, RegInv', Flush(u)
  PROVE  ProfInv'
<1> USE DEF Flush, regVars, cpuVars, rtVars, collVars
<1>1. (CpuTypeOK /\ EventInv /\ ServeInv /\ LifeInv /\ AskInv /\ RestoreInv
       /\ StartedInv /\ RuntimeInv /\ BufferInv /\ DeliveryInv /\ OwnInv)'
  BY DEF ProfInv, CpuTypeOK, EventInv, ServeInv, LifeInv, AskInv, RestoreInv,
           StartedInv, RuntimeInv, BufferInv, DeliveryInv, OwnInv, Active, Early, Taking
<1>2. MainTypes'
  BY DEF ProfInv, MainTypes
<1>3. OwedInv'
  BY DEF ProfInv, OwedInv
<1> QED BY <1>1, <1>2, <1>3 DEF ProfInv

(* The loop takes a flush and sends the event.                             *)
LEMMA LoopFlushStep ==
  ASSUME NEW u \in Users, ProfInv, RegInv', LoopFlush(u)
  PROVE  ProfInv'
<1> USE DEF LoopFlush, Reply, regVars, rtVars, collVars
<1>1. CpuTypeOK'
  BY DEF ProfInv, CpuTypeOK
<1>2. MainTypes'
  BY DEF ProfInv, MainTypes
<1>3. EventInv'
  BY NameAssumption DEF ProfInv, EventInv, RegInv, RegTypeOK, CpuTypeOK, MainTypes,
           Clients
<1>4. ServeInv'
  BY DEF ProfInv, ServeInv, EventInv, RegInv, RegTypeOK, CpuTypeOK, MainTypes, Clients
<1>5. LifeInv'
  BY DEF ProfInv, LifeInv
<1>6. AskInv'
  BY DEF ProfInv, AskInv, Early
<1>7. RestoreInv'
  BY DEF ProfInv, RestoreInv
<1>8. OwedInv'
  BY DEF ProfInv, OwedInv, EventInv, ServeInv, CpuTypeOK, MainTypes, Clients
<1>9. StartedInv'
  BY DEF ProfInv, StartedInv, Active, EventInv, ServeInv, RegInv, RegTypeOK, CpuTypeOK,
           Clients
<1>10. RuntimeInv'
  BY DEF ProfInv, RuntimeInv, Active, Taking, EventInv, RegInv, RegTypeOK, CpuTypeOK,
           Clients
<1>11. BufferInv'
  BY DEF ProfInv, BufferInv, Active, EventInv, RegInv, RegTypeOK, CpuTypeOK, Clients
<1>12. DeliveryInv'
  BY DEF ProfInv, DeliveryInv, Active, EventInv, RegInv, RegTypeOK, CpuTypeOK, Clients
<1>13. OwnInv'
  BY NameAssumption DEF ProfInv, OwnInv, Active, Taking, LifeInv, RegInv, RegTypeOK,
           CpuTypeOK, Clients
<1> QED BY <1>1, <1>2, <1>3, <1>4, <1>5, <1>6, <1>7, <1>8, <1>9, <1>10, <1>11, <1>12,
         <1>13 DEF ProfInv

(* The flush is answered.                                                  *)
LEMMA LoopFlushedStep ==
  ASSUME ProfInv, RegInv', LoopFlushed
  PROVE  ProfInv'
<1> USE DEF LoopFlushed, Reply, regVars, rtVars, collVars
<1>1. CpuTypeOK'
  BY DEF ProfInv, CpuTypeOK
<1>2. MainTypes'
  BY DEF ProfInv, MainTypes
<1>3. EventInv'
  BY NameAssumption DEF ProfInv, EventInv, RegInv, RegTypeOK, CpuTypeOK, MainTypes,
           Clients
<1>4. ServeInv'
  BY DEF ProfInv, ServeInv
<1>5. LifeInv'
  BY DEF ProfInv, LifeInv
<1>6. AskInv'
  BY DEF ProfInv, AskInv, Early
<1>7. RestoreInv'
  BY DEF ProfInv, RestoreInv
<1>8. OwedInv'
  BY DEF ProfInv, OwedInv
<1>9. StartedInv'
  BY NameAssumption DEF ProfInv, StartedInv, Active, EventInv, ServeInv, RegInv,
           RegTypeOK, CpuTypeOK, Clients
<1>10. RuntimeInv'
  BY NameAssumption DEF ProfInv, RuntimeInv, Active, Taking, EventInv, RegInv,
           RegTypeOK, CpuTypeOK, Clients
<1>11. BufferInv'
  BY NameAssumption DEF ProfInv, BufferInv, Active, EventInv, RegInv, RegTypeOK,
           CpuTypeOK, Clients
<1>12. DeliveryInv'
  BY NameAssumption DEF ProfInv, DeliveryInv, Active, EventInv, RegInv, RegTypeOK,
           CpuTypeOK, Clients
<1>13. OwnInv'
  BY NameAssumption DEF ProfInv, OwnInv, Active, Taking, LifeInv, RegInv, RegTypeOK,
           CpuTypeOK, Clients
<1> QED BY <1>1, <1>2, <1>3, <1>4, <1>5, <1>6, <1>7, <1>8, <1>9, <1>10, <1>11, <1>12,
         <1>13 DEF ProfInv

(* The loop sees stopCh closed.                                            *)
LEMMA LoopStopStep ==
  ASSUME ProfInv, RegInv', LoopStop
  PROVE  ProfInv'
<1> USE DEF LoopStop, regVars, cpuVars, rtVars, collVars
<1>1. (CpuTypeOK /\ ServeInv /\ StartedInv /\ RuntimeInv
       /\ BufferInv /\ DeliveryInv /\ OwnInv)'
  BY DEF ProfInv, CpuTypeOK, ServeInv, StartedInv, RuntimeInv, BufferInv, DeliveryInv,
           OwnInv, Active, Taking
<1>2. MainTypes'
  BY DEF ProfInv, MainTypes
<1>3. EventInv'
  BY DEF ProfInv, EventInv
<1>4. LifeInv'
  BY DEF ProfInv, LifeInv
<1>5. AskInv'
  BY DEF ProfInv, AskInv, Early
<1>6. RestoreInv'
  BY DEF ProfInv, RestoreInv
<1>7. OwedInv'
  BY DEF ProfInv, OwedInv
<1> QED BY <1>1, <1>2, <1>3, <1>4, <1>5, <1>6, <1>7 DEF ProfInv

(* cpu.Stop calls SetCollector.                                            *)
LEMMA LoopUnregisterStep ==
  ASSUME ProfInv, RegInv', LoopUnregister
  PROVE  ProfInv'
<1> USE DEF LoopUnregister, SetCollector, cpuVars, rtVars, collVars
<1>1. (CpuTypeOK /\ ServeInv /\ StartedInv /\ RuntimeInv
       /\ BufferInv /\ DeliveryInv /\ OwnInv)'
  BY DEF ProfInv, CpuTypeOK, ServeInv, StartedInv, RuntimeInv, BufferInv, DeliveryInv,
           OwnInv, Active, Taking
<1>2. MainTypes'
  BY DEF ProfInv, MainTypes
<1>3. EventInv'
  BY DEF ProfInv, EventInv
<1>4. LifeInv'
  BY DEF ProfInv, LifeInv
<1>5. AskInv'
  BY SetterAssumption DEF ProfInv, AskInv, Early, LifeInv, RegInv, RegTypeOK, MainTypes
<1>6. RestoreInv'
  BY DEF ProfInv, RestoreInv, LifeInv, MainTypes, AskInv, Early, RegInv, RegTypeOK,
           NoForgottenSetter
<1>7. OwedInv'
  BY DEF ProfInv, OwedInv
<1> QED BY <1>1, <1>2, <1>3, <1>4, <1>5, <1>6, <1>7 DEF ProfInv

(* cpu.Stop closes halt.                                                   *)
LEMMA LoopHaltStep ==
  ASSUME ProfInv, RegInv', LoopHalt
  PROVE  ProfInv'
<1> USE DEF LoopHalt, regVars, rtVars, collVars
<1>1. (ServeInv /\ StartedInv /\ RuntimeInv /\ BufferInv /\ DeliveryInv /\ OwnInv)'
  BY DEF ProfInv, ServeInv, StartedInv, RuntimeInv, BufferInv, DeliveryInv, OwnInv,
           Active, Taking
<1>2. CpuTypeOK'
  BY DEF ProfInv, CpuTypeOK
<1>3. MainTypes'
  BY DEF ProfInv, MainTypes
<1>4. EventInv'
  BY DEF ProfInv, EventInv
<1>5. LifeInv'
  BY DEF ProfInv, LifeInv
<1>6. AskInv'
  BY DEF ProfInv, AskInv, Early
<1>7. RestoreInv'
  BY DEF ProfInv, RestoreInv, LifeInv, MainTypes, AskInv, Early, RegInv, RegTypeOK,
           NoForgottenSetter
<1>8. OwedInv'
  BY DEF ProfInv, OwedInv
<1> QED BY <1>1, <1>2, <1>3, <1>4, <1>5, <1>6, <1>7, <1>8 DEF ProfInv

(* cpu.Stop returns.                                                       *)
LEMMA LoopJoinStep ==
  ASSUME ProfInv, RegInv', LoopJoin
  PROVE  ProfInv'
<1> USE DEF LoopJoin, regVars, cpuVars, rtVars, collVars
<1>1. (CpuTypeOK /\ ServeInv /\ StartedInv /\ RuntimeInv
       /\ BufferInv /\ DeliveryInv /\ OwnInv)'
  BY DEF ProfInv, CpuTypeOK, ServeInv, StartedInv, RuntimeInv, BufferInv, DeliveryInv,
           OwnInv, Active, Taking
<1>2. MainTypes'
  BY DEF ProfInv, MainTypes
<1>3. EventInv'
  BY DEF ProfInv, EventInv
<1>4. LifeInv'
  BY DEF ProfInv, LifeInv
<1>5. AskInv'
  BY DEF ProfInv, AskInv, Early
<1>6. RestoreInv'
  BY DEF ProfInv, RestoreInv
<1>7. OwedInv'
  BY DEF ProfInv, OwedInv
<1> QED BY <1>1, <1>2, <1>3, <1>4, <1>5, <1>6, <1>7 DEF ProfInv

(* cpu.Start calls SetCollector.                                           *)
LEMMA CollRegisterStep ==
  ASSUME ProfInv, RegInv', CollRegister, Owes
  PROVE  ProfInv'
<1> USE DEF CollRegister, SetCollector, rtVars, Owes
<1>1. (MainTypes /\ EventInv /\ OwedInv /\ RuntimeInv /\ DeliveryInv)'
  BY DEF ProfInv, MainTypes, EventInv, OwedInv, RuntimeInv, DeliveryInv, Active, Taking
<1>2. CpuTypeOK'
  BY DEF ProfInv, CpuTypeOK
<1>3. ServeInv'
  BY DEF ProfInv, ServeInv
<1>4. LifeInv'
  BY DEF ProfInv, LifeInv
<1>5. AskInv'
  BY SetterAssumption, CpuAssumption, NameAssumption, NobodyAssumption DEF ProfInv,
           AskInv, Early, LifeInv, RegInv, RegTypeOK, MainTypes
<1>6. RestoreInv'
  BY DEF ProfInv, RestoreInv, LifeInv, MainTypes, AskInv, Early, RegInv, RegTypeOK,
           NoForgottenSetter
<1>7. StartedInv'
  BY DEF ProfInv, StartedInv, Active
<1>8. BufferInv'
  BY DEF ProfInv, BufferInv
<1>9. OwnInv'
  BY DEF ProfInv, OwnInv, Taking
<1> QED BY <1>1, <1>2, <1>3, <1>4, <1>5, <1>6, <1>7, <1>8, <1>9 DEF ProfInv

(* The first reset.                                                        *)
LEMMA CollBeginStep ==
  ASSUME ProfInv, RegInv', CollBegin, Owes
  PROVE  ProfInv'
<1> USE DEF CollBegin, BeginReset, regVars, Owes
<1>1. \A g \in Handlers : ~Active(g) /\ ~Active(g)'
  BY DEF ProfInv, StartedInv, Active
<1>2. CpuTypeOK'
  <2>1. buf' \in Seq({Bg} \cup Handlers)
    BY Uploads, BufType
  <2>2. serving' \in (Clients \cup {None}) \X {"none", "background", "start", "stop", "flush"}
    BY DEF Clients
  <2>3. got' \in [Handlers -> Nat] /\ up' \in [Handlers -> Nat]
    BY Uploads
  <2>4. ev' \in [Clients -> {"none", "start", "stop", "flush", "busy", "ok", "err"}]
    BY DEF ProfInv, CpuTypeOK
  <2>5. /\ rt' \in {Off, Bg, Ext} \cup Handlers /\ rtBuf' \in BOOLEAN /\ extOn' \in BOOLEAN
        /\ started' \in BOOLEAN /\ timed' \in BOOLEAN /\ ticking' \in BOOLEAN /\ halt' \in BOOLEAN
        /\ cpc' \in {"off", "new", "registering", "select", "restart", "exited"}
    BY Uploads DEF ProfInv, CpuTypeOK
  <2> QED BY <2>1, <2>2, <2>3, <2>4, <2>5 DEF CpuTypeOK
<1>3. MainTypes'
  BY DEF ProfInv, MainTypes
<1>4. EventInv'
  BY DEF ProfInv, EventInv
<1>5. ServeInv'
  BY NameAssumption, NobodyAssumption DEF ProfInv, ServeInv, EventInv, RegInv,
           RegTypeOK, CpuTypeOK, MainTypes, Clients
<1>6. LifeInv'
  BY DEF ProfInv, LifeInv
<1>7. AskInv'
  BY DEF ProfInv, AskInv, Early
<1>8. RestoreInv'
  BY DEF ProfInv, RestoreInv
<1>9. OwedInv'
  BY Uploads DEF ProfInv, OwedInv
<1>10. StartedInv'
  BY Uploads DEF ProfInv, StartedInv, Active
<1>11. RuntimeInv'
  BY Uploads, NameAssumption DEF ProfInv, RuntimeInv, Active, Taking, EventInv, RegInv,
           RegTypeOK, CpuTypeOK, Clients
<1>12. BufferInv'
  BY Uploads DEF ProfInv, BufferInv
<1>13. DeliveryInv'
  BY <1>1, IdleReset, CpuAssumption DEF ProfInv, DeliveryInv, Taking
<1>14. OwnInv'
  BY NoneDirect, CpuAssumption DEF ProfInv, OwnInv, Taking
<1> QED BY <1>2, <1>3, <1>4, <1>5, <1>6, <1>7, <1>8, <1>9, <1>10, <1>11, <1>12, <1>13,
         <1>14 DEF ProfInv

(* The second half of a reset: no foreground profile is in progress, and   *)
(* one is if the reset was for a start event and the runtime was free.     *)
LEMMA RestartStep ==
  ASSUME ProfInv, RegInv', Restart, Owes
  PROVE  ProfInv'
<1> USE DEF Restart, RuntimeStart, Reply, regVars, Owes
<1>1. /\ ~rtBuf /\ buf = <<>> /\ rt # Bg
      /\ \A g \in Handlers : ~Active(g)
  BY DEF ProfInv, BufferInv, StartedInv, RuntimeInv
<1>2. /\ rt = Off => /\ rt' = IF serving[2] = "start" THEN serving[1] ELSE Bg
                     /\ rtBuf' = TRUE
      /\ rt # Off => rt' = rt /\ rtBuf' = rtBuf
      /\ buf' = <<>>
      /\ timed' \in BOOLEAN /\ (timed' <=> rt = Off)
      /\ started' \in BOOLEAN /\ (started' <=> serving[2] = "start" /\ rt = Off)
  BY <1>1
<1>3. \/ serving = <<None, "background">> /\ ev' = ev
      \/ \E p \in Clients : /\ serving[1] = p /\ ev[p] = "busy"
                            /\ ev' = [ev EXCEPT ![p] = IF rt = Off THEN "ok" ELSE "err"]
                            /\ \/ p = Loop /\ serving = <<p, "flush">>
                               \/ p \in Handlers /\ hpc[p] = "starting" /\ serving = <<p, "start">>
                               \/ p \in Handlers /\ hpc[p] = "stopping" /\ serving = <<p, "stop">>
  <2>1. CASE serving = <<None, "background">>
    BY <2>1
  <2>2. ASSUME NEW p \in Clients, serving[1] = p PROVE ev[p] = "busy" /\ p # None
    BY <2>2, NameAssumption, NobodyAssumption DEF ProfInv, ServeInv, Clients
  <2>3. ASSUME NEW p \in Clients, serving[1] = p
        PROVE  ev' = [ev EXCEPT ![p] = IF rt = Off THEN "ok" ELSE "err"]
    BY <2>2, <2>3
  <2>4. CASE serving = <<Loop, "flush">>
    BY <2>4, <2>2, <2>3 DEF Clients
  <2>5. ASSUME NEW g \in Handlers, \/ hpc[g] = "starting" /\ serving = <<g, "start">>
                                   \/ hpc[g] = "stopping" /\ serving = <<g, "stop">>
        PROVE  \E p \in Clients : /\ serving[1] = p /\ ev[p] = "busy"
                             /\ ev' = [ev EXCEPT ![p] = IF rt = Off THEN "ok" ELSE "err"]
                             /\ \/ p = Loop /\ serving = <<p, "flush">>
                                \/ p \in Handlers /\ hpc[p] = "starting" /\ serving = <<p, "start">>
                                \/ p \in Handlers /\ hpc[p] = "stopping" /\ serving = <<p, "stop">>
    BY <2>5, <2>2, <2>3 DEF Clients
  <2> QED BY <2>1, <2>4, <2>5 DEF ProfInv, ServeInv
<1>4. serving[2] = "start" => serving[1] \in Handlers /\ hpc[serving[1]] = "starting"
                               /\ serving = <<serving[1], "start">>
  BY <1>3
<1>5. \A g \in Handlers : Active(g)' <=> (serving = <<g, "start">> /\ rt = Off)
  BY <1>1, <1>3, NameAssumption DEF ProfInv, Active, EventInv, CpuTypeOK, Clients
<1>6. CpuTypeOK'
  <2>1. buf' \in Seq({Bg} \cup Handlers)
    BY <1>2, BufType
  <2>2. serving' \in (Clients \cup {None}) \X {"none", "background", "start", "stop", "flush"}
    BY DEF Clients
  <2>3. got' \in [Handlers -> Nat] /\ up' \in [Handlers -> Nat]
    BY DEF ProfInv, CpuTypeOK
  <2>4. ev' \in [Clients -> {"none", "start", "stop", "flush", "busy", "ok", "err"}]
    BY <1>3 DEF ProfInv, CpuTypeOK
  <2>5. /\ rt' \in {Off, Bg, Ext} \cup Handlers /\ rtBuf' \in BOOLEAN /\ extOn' \in BOOLEAN
        /\ started' \in BOOLEAN /\ timed' \in BOOLEAN /\ ticking' \in BOOLEAN /\ halt' \in BOOLEAN
        /\ cpc' \in {"off", "new", "registering", "select", "restart", "exited"}
    BY <1>2, <1>4 DEF ProfInv, CpuTypeOK
  <2> QED BY <2>1, <2>2, <2>3, <2>4, <2>5 DEF CpuTypeOK
<1>7. MainTypes'
  BY DEF ProfInv, MainTypes
<1>8. EventInv'
  <2>1. CASE ev' = ev
    BY <2>1 DEF ProfInv, EventInv
  <2>2. ASSUME NEW p \in Clients, ev[p] = "busy",
               ev' = [ev EXCEPT ![p] = IF rt = Off THEN "ok" ELSE "err"]
        PROVE  EventInv'
    <3>1. /\ \A q \in Clients : q # p => ev'[q] = ev[q]
          /\ ev'[p] \in {"ok", "err"}
      BY <2>2 DEF ProfInv, CpuTypeOK
    <3> QED BY <2>2, <3>1 DEF ProfInv, EventInv
  <2> QED BY <2>1, <2>2, <1>3
<1>9. ServeInv'
  BY NameAssumption, NobodyAssumption DEF ProfInv, ServeInv, EventInv, RegInv,
           RegTypeOK, CpuTypeOK, MainTypes, Clients
<1>10. LifeInv'
  BY DEF ProfInv, LifeInv
<1>11. AskInv'
  BY DEF ProfInv, AskInv, Early
<1>12. RestoreInv'
  BY DEF ProfInv, RestoreInv
<1>13. OwedInv'
  BY DEF ProfInv, OwedInv, EventInv, ServeInv, CpuTypeOK, MainTypes, Clients
<1>14. StartedInv'
  <2>1. started' => \E g \in Handlers : Active(g)'
    BY <1>2, <1>5, <1>4
  <2>2. \A g \in Handlers : Active(g)' => started' /\ timed'
    BY <1>2, <1>5
  <2>3. \A g, h \in Handlers : Active(g)' /\ Active(h)' => g = h
    BY <1>5
  <2> QED BY <2>1, <2>2, <2>3 DEF StartedInv
<1>15. RuntimeInv'
  BY <1>1, <1>2, <1>3, <1>5, NameAssumption DEF ProfInv, RuntimeInv, Taking
<1>16. BufferInv'
  BY <1>1, <1>2 DEF ProfInv, BufferInv
<1>17. DeliveryInv'
  <2> SUFFICES ASSUME NEW g \in Handlers
               PROVE  /\ Active(g)' => /\ up'[g] = 0
                                       /\ \/ rt' = g /\ got'[g] = 0
                                          \/ rt' # g /\ got'[g] = 1 /\ buf' = <<g>>
                      /\ hpc'[g] \in {"start", "starting"} /\ ~Active(g)' => got'[g] = 0 /\ up'[g] = 0
                      /\ hpc'[g] = "stopping" /\ on'[g] = Cpu /\ ~Active(g)' => got'[g] = 1 /\ up'[g] = 1
    BY DEF DeliveryInv
  <2>1. /\ hpc[g] \in {"start", "starting"} => got[g] = 0 /\ up[g] = 0
        /\ hpc[g] = "stopping" /\ on[g] = Cpu => got[g] = 1 /\ up[g] = 1
    BY <1>1 DEF ProfInv, DeliveryInv
  <2>2. Active(g)' => rt' = g /\ hpc[g] = "starting"
    BY <1>2, <1>3, <1>5
  <2> QED BY <2>1, <2>2
<1>18. OwnInv'
  <2> SUFFICES ASSUME ~ExtUses, opc \in {"new", "running"}
               PROVE  /\ \A g \in Taking' : on'[g] = Default => rt' = g
                      /\ IF started' THEN \E g \in Handlers : rt' = g /\ Active(g)' ELSE rt' = Bg
    BY DEF OwnInv
  <2>1. \A g \in Taking : on[g] = Cpu
    BY NoneDirect DEF ProfInv, AskInv
  <2>2. rt = Off
    BY <1>1, <2>1, CpuAssumption DEF ProfInv, RuntimeInv, CpuTypeOK
  <2>3. Taking' = Taking /\ on' = on
    BY DEF Taking
  <2>4. started' => serving[1] \in Handlers /\ serving = <<serving[1], "start">>
    BY <1>2, <1>4
  <2> QED BY <1>2, <1>5, <2>1, <2>2, <2>3, <2>4, CpuAssumption
<1> QED BY <1>6, <1>7, <1>8, <1>9, <1>10, <1>11, <1>12, <1>13, <1>14, <1>15, <1>16,
         <1>17, <1>18 DEF ProfInv

(* A tick.                                                                 *)
LEMMA CollTickStep ==
  ASSUME ProfInv, RegInv', CollTick, Owes
  PROVE  ProfInv'
<1> USE DEF CollTick, BeginReset, regVars, Owes
<1>1. \A g \in Handlers : ~Active(g) /\ ~Active(g)'
  BY DEF ProfInv, StartedInv, Active
<1>2. CpuTypeOK'
  <2>1. buf' \in Seq({Bg} \cup Handlers)
    BY Uploads, BufType
  <2>2. serving' \in (Clients \cup {None}) \X {"none", "background", "start", "stop", "flush"}
    BY DEF Clients
  <2>3. got' \in [Handlers -> Nat] /\ up' \in [Handlers -> Nat]
    BY Uploads
  <2>4. ev' \in [Clients -> {"none", "start", "stop", "flush", "busy", "ok", "err"}]
    BY DEF ProfInv, CpuTypeOK
  <2>5. /\ rt' \in {Off, Bg, Ext} \cup Handlers /\ rtBuf' \in BOOLEAN /\ extOn' \in BOOLEAN
        /\ started' \in BOOLEAN /\ timed' \in BOOLEAN /\ ticking' \in BOOLEAN /\ halt' \in BOOLEAN
        /\ cpc' \in {"off", "new", "registering", "select", "restart", "exited"}
    BY Uploads DEF ProfInv, CpuTypeOK
  <2> QED BY <2>1, <2>2, <2>3, <2>4, <2>5 DEF CpuTypeOK
<1>3. MainTypes'
  BY DEF ProfInv, MainTypes
<1>4. EventInv'
  BY DEF ProfInv, EventInv
<1>5. ServeInv'
  BY NameAssumption, NobodyAssumption DEF ProfInv, ServeInv, EventInv, RegInv,
           RegTypeOK, CpuTypeOK, MainTypes, Clients
<1>6. LifeInv'
  BY DEF ProfInv, LifeInv
<1>7. AskInv'
  BY DEF ProfInv, AskInv, Early
<1>8. RestoreInv'
  BY DEF ProfInv, RestoreInv
<1>9. OwedInv'
  BY Uploads DEF ProfInv, OwedInv
<1>10. StartedInv'
  BY Uploads DEF ProfInv, StartedInv, Active
<1>11. RuntimeInv'
  BY Uploads, NameAssumption DEF ProfInv, RuntimeInv, Active, Taking, EventInv, RegInv,
           RegTypeOK, CpuTypeOK, Clients
<1>12. BufferInv'
  BY Uploads DEF ProfInv, BufferInv
<1>13. DeliveryInv'
  BY <1>1, IdleReset, CpuAssumption DEF ProfInv, DeliveryInv, Taking
<1>14. OwnInv'
  BY Uploads, NameAssumption DEF ProfInv, OwnInv, Active, Taking, LifeInv, RegInv,
           RegTypeOK, CpuTypeOK, Clients
<1> QED BY <1>2, <1>3, <1>4, <1>5, <1>6, <1>7, <1>8, <1>9, <1>10, <1>11, <1>12, <1>13,
         <1>14 DEF ProfInv

(* The collector sees halt closed.                                         *)
LEMMA CollHaltStep ==
  ASSUME ProfInv, RegInv', CollHalt, Owes
  PROVE  ProfInv'
<1> USE DEF CollHalt, regVars, rtVars, Owes
<1>1. ~started => \A g \in Handlers : ~Active(g) /\ ~Active(g)'
  BY DEF ProfInv, StartedInv, Active
<1>2. CpuTypeOK'
  <2>1. CASE started
    BY <2>1 DEF ProfInv, CpuTypeOK
  <2>2. CASE ~started
    <3>1. got' \in [Handlers -> Nat] /\ up' \in [Handlers -> Nat] /\ buf' \in Seq({Bg} \cup Handlers)
      BY <2>2, Uploads, BufType
    <3> QED BY <2>2, <3>1, Uploads DEF ProfInv, CpuTypeOK
  <2> QED BY <2>1, <2>2
<1>3. MainTypes'
  BY DEF ProfInv, MainTypes
<1>4. EventInv'
  BY DEF ProfInv, EventInv
<1>5. ServeInv'
  BY DEF ProfInv, ServeInv
<1>6. LifeInv'
  BY DEF ProfInv, LifeInv
<1>7. AskInv'
  BY DEF ProfInv, AskInv, Early
<1>8. RestoreInv'
  BY DEF ProfInv, RestoreInv
<1>9. OwedInv'
  BY Uploads DEF ProfInv, OwedInv
<1>10. StartedInv'
  BY Uploads DEF ProfInv, StartedInv, Active
<1>11. RuntimeInv'
  <2>1. CASE started
    BY <2>1 DEF ProfInv, RuntimeInv, Active, Taking
  <2>2. CASE ~started
    <3>1. rt' = Off /\ ~rtBuf'
      BY <2>2, Uploads
    <3>2. Off # Bg /\ Off # Ext /\ Off \notin Handlers
      BY NameAssumption
    <3> QED BY <2>2, <3>1, <3>2 DEF ProfInv, RuntimeInv
  <2> QED BY <2>1, <2>2
<1>12. BufferInv'
  BY Uploads DEF ProfInv, BufferInv, Active
<1>13. DeliveryInv'
  <2>1. CASE started
    BY <2>1 DEF ProfInv, DeliveryInv, Active
  <2>2. CASE ~started
    BY <2>2, <1>1, IdleReset, CpuAssumption DEF ProfInv, DeliveryInv, Taking
  <2> QED BY <2>1, <2>2
<1>14. OwnInv'
  BY Uploads DEF ProfInv, OwnInv, Active, Taking, LifeInv, RegInv, RegTypeOK,
           CpuTypeOK, Clients
<1> QED BY <1>2, <1>3, <1>4, <1>5, <1>6, <1>7, <1>8, <1>9, <1>10, <1>11, <1>12, <1>13,
         <1>14 DEF ProfInv

(* handleEvent: a reset for the client, or a refusal, which leaves the     *)
(* foreground profile alone.                                               *)
LEMMA CollEventStep ==
  ASSUME NEW p \in Clients, ProfInv, RegInv', CollEvent(p), Owes
  PROVE  ProfInv'
<1> USE DEF CollEvent, BeginReset, Reply, regVars, rtVars, Owes
<1>1. \/ /\ ev[p] = "stop" <=> started
         /\ StopAndUpload /\ cpc' = "restart" /\ serving' = <<p, ev[p]>>
         /\ ev' = [ev EXCEPT ![p] = "busy"]
      \/ /\ ~(ev[p] = "stop" <=> started)
         /\ ev' = [ev EXCEPT ![p] = IF ev[p] = "stop" THEN "ok" ELSE "err"]
         /\ UNCHANGED <<rtVars, cpc, serving, buf, up>>
  OBVIOUS
<1>2. CASE /\ ev[p] = "stop" <=> started
          /\ StopAndUpload /\ cpc' = "restart" /\ serving' = <<p, ev[p]>>
          /\ ev' = [ev EXCEPT ![p] = "busy"]
  <2>1. /\ \A q \in Clients : q # p => ev'[q] = ev[q]
        /\ ev'[p] = "busy" /\ p # None
        /\ rt' = Off /\ ~rtBuf' /\ buf' = <<>>
    BY <1>2, Uploads, NameAssumption, NobodyAssumption DEF ProfInv, CpuTypeOK, Clients
  <2>2. \A g \in Handlers : ~Active(g)'
    <3>1. ASSUME NEW g \in Handlers, g # p PROVE ~Active(g)
      <4>1. CASE ev[p] = "stop"
        <5>1. p \in Handlers /\ Active(p)
          BY <4>1 DEF ProfInv, EventInv, Active, Clients
        <5> QED BY <3>1, <5>1 DEF ProfInv, StartedInv
      <4>2. CASE ev[p] # "stop"
        BY <1>2, <4>2 DEF ProfInv, StartedInv
      <4> QED BY <4>1, <4>2
    <3>2. \A g \in Handlers : g # p => (Active(g)' <=> Active(g))
      BY <2>1 DEF Active, Clients
    <3>3. p \in Handlers => ~Active(p)'
      <4>1. p \in Handlers => hpc[p] \notin {"profiling", "stop"}
        BY DEF ProfInv, EventInv
      <4> QED BY <2>1, <4>1 DEF Active
    <3> QED BY <3>1, <3>2, <3>3
  <2>3. CpuTypeOK'
    <3>1. buf' \in Seq({Bg} \cup Handlers)
      BY <2>1, BufType
    <3>2. serving' \in (Clients \cup {None}) \X {"none", "background", "start", "stop", "flush"}
      BY <1>2, <2>1 DEF Clients
    <3>3. got' \in [Handlers -> Nat] /\ up' \in [Handlers -> Nat]
      BY <1>2, Uploads
    <3>4. ev' \in [Clients -> {"none", "start", "stop", "flush", "busy", "ok", "err"}]
      BY <1>2 DEF ProfInv, CpuTypeOK
    <3>5. /\ rt' \in {Off, Bg, Ext} \cup Handlers /\ rtBuf' \in BOOLEAN /\ extOn' \in BOOLEAN
        /\ started' \in BOOLEAN /\ timed' \in BOOLEAN /\ ticking' \in BOOLEAN /\ halt' \in BOOLEAN
        /\ cpc' \in {"off", "new", "registering", "select", "restart", "exited"}
      BY <1>2, Uploads DEF ProfInv, CpuTypeOK
    <3> QED BY <3>1, <3>2, <3>3, <3>4, <3>5 DEF CpuTypeOK
  <2>4. EventInv'
    <3>1. p \in Handlers => hpc[p] \in {"starting", "stopping"} /\ on[p] = Cpu
      BY DEF ProfInv, EventInv
    <3>2. p = Loop => lpc = "flush"
      BY DEF ProfInv, EventInv
    <3> QED BY <2>1, <3>1, <3>2 DEF ProfInv, EventInv, Clients
  <2>5. ServeInv'
    <3>1. \A q \in Clients : ev[q] # "busy"
      BY DEF ProfInv, ServeInv
    <3>2. \/ p = Loop /\ ev[p] = "flush"
          \/ p \in Handlers /\ hpc[p] = "starting" /\ ev[p] = "start"
          \/ p \in Handlers /\ hpc[p] = "stopping" /\ ev[p] = "stop"
      BY DEF ProfInv, EventInv, Clients
    <3> QED BY <1>2, <2>1, <3>1, <3>2 DEF ServeInv
  <2>6. LifeInv' /\ AskInv' /\ RestoreInv' /\ MainTypes'
    BY <1>2 DEF ProfInv, LifeInv, AskInv, RestoreInv, MainTypes, Early
  <2>7. OwedInv'
    <3>1. owed' = {}
      BY <1>2, <2>1 DEF Unsent
    <3> QED BY <2>1, <3>1 DEF ProfInv, OwedInv
  <2>8. StartedInv'
    BY <1>2, <2>2 DEF ProfInv, StartedInv
  <2>9. RuntimeInv'
    BY <2>1, <2>2, NameAssumption DEF ProfInv, RuntimeInv
  <2>10. BufferInv'
    BY <2>1 DEF BufferInv
  <2>11. DeliveryInv'
    <3>1. CASE ev[p] = "stop"
      <4>1. p \in Handlers /\ Active(p) /\ hpc[p] = "stopping"
        BY <3>1 DEF ProfInv, EventInv, Active, Clients
      <4>2. got'[p] = 1 /\ up'[p] = 1
        <5>1. rt = p => rtBuf
          BY <4>1 DEF ProfInv, RuntimeInv
        <5>2. /\ up[p] = 0
              /\ \/ rt = p /\ got[p] = 0
                 \/ rt # p /\ got[p] = 1 /\ buf = <<p>>
          BY <4>1 DEF ProfInv, DeliveryInv
        <5>3. /\ got'[p] = IF rt = p THEN got[p] + 1 ELSE got[p]
              /\ (rtBuf /\ rt = p) \/ buf = <<p>> => up'[p] = up[p] + 1
          BY <1>2, <4>1, Uploads
        <5> QED BY <5>1, <5>2, <5>3
      <4>3. ASSUME NEW g \in Handlers, g # p, ~(on[g] = Default /\ g \in Taking)
            PROVE  got'[g] = got[g] /\ up'[g] = up[g]
        <5>1. ~Active(g)
          BY <4>1, <4>3 DEF ProfInv, StartedInv
        <5>2. rt # g
          BY <4>3, <5>1 DEF ProfInv, RuntimeInv
        <5>3. buf # <<g>>
          BY <5>1, NameAssumption DEF ProfInv, BufferInv
        <5> QED BY <1>2, <5>2, <5>3, Uploads
      <4>4. \A g \in Handlers : g # p => ~Active(g)
        BY <4>1 DEF ProfInv, StartedInv
      <4> QED BY <2>2, <4>1, <4>2, <4>3, <4>4, CpuAssumption DEF ProfInv, DeliveryInv,
               Taking
    <3>2. CASE ev[p] # "stop"
      <4>1. \A g \in Handlers : ~Active(g)
        BY <1>2, <3>2 DEF ProfInv, StartedInv
      <4> QED BY <1>2, <2>2, <4>1, IdleReset, CpuAssumption DEF ProfInv, DeliveryInv,
               Taking
    <3> QED BY <3>1, <3>2
  <2>12. OwnInv'
    <3> SUFFICES ASSUME opc \in {"new", "running"}
                 PROVE  \A g \in Taking : on[g] # Default
      BY <1>2 DEF OwnInv, Taking
    <3> QED BY NoneDirect, CpuAssumption DEF ProfInv, AskInv
  <2> QED BY <2>3, <2>4, <2>5, <2>6, <2>7, <2>8, <2>9, <2>10, <2>11, <2>12 DEF ProfInv
<1>3. CASE /\ ~(ev[p] = "stop" <=> started)
           /\ ev' = [ev EXCEPT ![p] = IF ev[p] = "stop" THEN "ok" ELSE "err"]
           /\ UNCHANGED <<rtVars, cpc, serving, buf, up>>
  <2>1. /\ \A q \in Clients : q # p => ev'[q] = ev[q]
        /\ ev'[p] = "err" /\ ev[p] \in {"start", "flush"} /\ started
    <3>1. ev[p] = "stop" => started
      BY DEF ProfInv, EventInv, StartedInv, Active, Clients
    <3> QED BY <1>3, <3>1 DEF ProfInv, CpuTypeOK
  <2>2. \A g \in Handlers : Active(g)' <=> Active(g)
    BY <2>1 DEF ProfInv, EventInv, Active, Clients
  <2>3. CpuTypeOK'
    BY <1>3 DEF ProfInv, CpuTypeOK
  <2>4. EventInv'
    BY <2>1 DEF ProfInv, EventInv, Clients
  <2>5. ServeInv'
    BY <1>3, <2>1 DEF ProfInv, ServeInv
  <2>6. LifeInv' /\ AskInv' /\ RestoreInv' /\ MainTypes'
    BY <1>3 DEF ProfInv, LifeInv, AskInv, RestoreInv, MainTypes, Early
  <2>7. OwedInv'
    BY <1>3, <2>1 DEF ProfInv, OwedInv
  <2>8. StartedInv' /\ RuntimeInv' /\ BufferInv'
    BY <1>3, <2>2 DEF ProfInv, StartedInv, RuntimeInv, BufferInv, Taking
  <2>9. DeliveryInv'
    BY <1>3, <2>2 DEF ProfInv, DeliveryInv
  <2>10. OwnInv'
    BY <1>3, <2>2 DEF ProfInv, OwnInv, Taking
  <2> QED BY <2>3, <2>4, <2>5, <2>6, <2>7, <2>8, <2>9, <2>10 DEF ProfInv
<1> QED BY <1>1, <1>2, <1>3

(* A request arrives.                                                      *)
LEMMA NewRequestStep ==
  ASSUME NEW h \in Handlers, ProfInv, RegInv', NewRequest(h), UNCHANGED mainVars
  PROVE  ProfInv'
<1> USE DEF NewRequest, Request, setVars, mainVars
<1>1. (MainTypes /\ LifeInv /\ AskInv /\ RestoreInv /\ OwedInv)'
  BY DEF ProfInv, MainTypes, LifeInv, AskInv, RestoreInv, OwedInv, Early
<1>2. CpuTypeOK'
  BY DEF ProfInv, CpuTypeOK
<1>3. EventInv'
  BY DEF ProfInv, EventInv
<1>4. ServeInv'
  BY DEF ProfInv, ServeInv
<1>5. StartedInv'
  BY DEF ProfInv, StartedInv, Active
<1>6. RuntimeInv'
  BY DEF ProfInv, RuntimeInv, Active, Taking
<1>7. BufferInv'
  BY DEF ProfInv, BufferInv, Active
<1>8. DeliveryInv'
  BY DEF ProfInv, DeliveryInv, Active, EventInv, RegInv, RegTypeOK, CpuTypeOK, Clients
<1>9. OwnInv'
  BY DEF ProfInv, OwnInv, Active, Taking
<1> QED BY <1>1, <1>2, <1>3, <1>4, <1>5, <1>6, <1>7, <1>8, <1>9 DEF ProfInv

(* StartCPUProfile calls the collector.                                    *)
LEMMA StartSendStep ==
  ASSUME NEW h \in Handlers, ProfInv, RegInv', StartSend(h), UNCHANGED mainVars
  PROVE  ProfInv'
<1> USE DEF StartSend, StartLock, Reply, setVars, rtVars, collVars, mainVars
<1>1. (MainTypes /\ LifeInv /\ AskInv /\ RestoreInv)'
  BY DEF ProfInv, MainTypes, LifeInv, AskInv, RestoreInv, Early
<1>2. CpuTypeOK'
  <2>1. ev' \in [Clients -> {"none", "start", "stop", "flush", "busy", "ok", "err"}]
    BY DEF ProfInv, CpuTypeOK
  <2> QED BY <2>1 DEF ProfInv, CpuTypeOK
<1>3. EventInv'
  BY NameAssumption DEF ProfInv, EventInv, RegInv, RegTypeOK, CpuTypeOK, MainTypes,
           Clients
<1>4. ServeInv'
  BY DEF ProfInv, ServeInv, EventInv, RegInv, RegTypeOK, CpuTypeOK, MainTypes, Clients
<1>5. OwedInv'
  BY DEF ProfInv, OwedInv, EventInv, ServeInv, CpuTypeOK, MainTypes, Clients
<1>6. StartedInv'
  BY CpuAssumption, DefaultAssumption, NobodyAssumption DEF ProfInv, StartedInv,
           Active, EventInv, ServeInv, RegInv, RegTypeOK, CpuTypeOK, Clients
<1>7. RuntimeInv'
  BY DEF ProfInv, RuntimeInv, Active, Taking, EventInv, RegInv, RegTypeOK, CpuTypeOK,
           Clients
<1>8. BufferInv'
  BY DEF ProfInv, BufferInv, Active, EventInv, RegInv, RegTypeOK, CpuTypeOK, Clients
<1>9. DeliveryInv'
  BY DEF ProfInv, DeliveryInv, Active, EventInv, RegInv, RegTypeOK, CpuTypeOK, Clients
<1>10. OwnInv'
  BY DEF ProfInv, OwnInv, Active, Taking, LifeInv, RegInv, RegTypeOK, CpuTypeOK, Clients
<1> QED BY <1>1, <1>2, <1>3, <1>4, <1>5, <1>6, <1>7, <1>8, <1>9, <1>10 DEF ProfInv

(* The collector has answered.                                             *)
LEMMA StartDoneStep ==
  ASSUME NEW h \in Handlers, ProfInv, RegInv', StartDone(h), UNCHANGED mainVars
  PROVE  ProfInv'
<1> USE DEF StartDone, StartReturn, RuntimeStart, Reply, setVars, rtVars, collVars, mainVars
<1>1. \A g \in Handlers : Active(g)' <=> Active(g)
  BY CpuAssumption DEF ProfInv, RegInv, RegTypeOK, EventInv, CpuTypeOK, Active, Clients
<1>2. (MainTypes /\ LifeInv /\ AskInv /\ RestoreInv)'
  BY DEF ProfInv, MainTypes, LifeInv, AskInv, RestoreInv, Early
<1>3. CpuTypeOK'
  <2>1. ev' \in [Clients -> {"none", "start", "stop", "flush", "busy", "ok", "err"}]
    BY DEF ProfInv, CpuTypeOK
  <2>2. rt' \in {Off, Bg, Ext} \cup Handlers /\ rtBuf' \in BOOLEAN
    BY DEF ProfInv, CpuTypeOK
  <2>3. UNCHANGED <<got, extOn, collVars, halt>>
    OBVIOUS
  <2> QED BY <2>1, <2>2, <2>3 DEF ProfInv, CpuTypeOK
<1>4. EventInv'
  <2>1. \A g \in Handlers : g # h => ev'[g] = ev[g] /\ hpc'[g] = hpc[g] /\ on'[g] = on[g]
    BY DEF ProfInv, RegInv, RegTypeOK, CpuTypeOK, Clients
  <2>2. ev'[h] = "none" /\ hpc'[h] \notin {"starting", "stopping"}
    BY CpuAssumption DEF ProfInv, RegInv, RegTypeOK, CpuTypeOK, EventInv, Clients
  <2>3. ev'[Loop] = ev[Loop] /\ lpc' = lpc
    BY NameAssumption DEF ProfInv, CpuTypeOK, Clients
  <2> QED BY <2>1, <2>2, <2>3 DEF ProfInv, EventInv
<1>5. ServeInv'
  BY CpuAssumption DEF ProfInv, ServeInv, EventInv, RegInv, RegTypeOK, CpuTypeOK,
           MainTypes, Clients
<1>6. OwedInv'
  BY DEF ProfInv, OwedInv, EventInv, ServeInv, CpuTypeOK, MainTypes, Clients
<1>7. StartedInv'
  <2>1. UNCHANGED <<cpc, started, timed, serving>>
    OBVIOUS
  <2> QED BY <1>1, <2>1 DEF ProfInv, StartedInv
<1>8. RuntimeInv'
  BY CpuAssumption, NameAssumption DEF ProfInv, RuntimeInv, Active, Taking, EventInv,
           RegInv, RegTypeOK, CpuTypeOK, Clients
<1>9. BufferInv'
  BY CpuAssumption DEF ProfInv, BufferInv, Active, EventInv, RegInv, RegTypeOK,
           CpuTypeOK, Clients
<1>10. DeliveryInv'
  BY CpuAssumption, NameAssumption, DefaultAssumption, NobodyAssumption DEF ProfInv,
           DeliveryInv, Active, EventInv, RegInv, RegTypeOK, CpuTypeOK, Clients
<1>11. OwnInv'
  BY CpuAssumption, NameAssumption DEF ProfInv, OwnInv, Active, Taking, LifeInv,
           RegInv, RegTypeOK, CpuTypeOK, Clients
<1> QED BY <1>2, <1>3, <1>4, <1>5, <1>6, <1>7, <1>8, <1>9, <1>10, <1>11 DEF ProfInv

(* The deadline.                                                           *)
LEMMA ExpireStep ==
  ASSUME NEW h \in Handlers, ProfInv, RegInv', Expire(h), UNCHANGED mainVars
  PROVE  ProfInv'
<1> USE DEF Expire, Deadline, setVars, cpuVars, rtVars, collVars, mainVars
<1>1. (CpuTypeOK /\ MainTypes /\ LifeInv /\ AskInv /\ RestoreInv /\ OwedInv)'
  BY DEF ProfInv, CpuTypeOK, MainTypes, LifeInv, AskInv, RestoreInv, OwedInv, Early
<1>2. EventInv'
  BY DEF ProfInv, EventInv
<1>3. ServeInv'
  BY DEF ProfInv, ServeInv
<1>4. StartedInv'
  BY DEF ProfInv, StartedInv, Active
<1>5. RuntimeInv'
  BY DEF ProfInv, RuntimeInv, Active, Taking
<1>6. BufferInv'
  BY DEF ProfInv, BufferInv, Active
<1>7. DeliveryInv'
  BY DEF ProfInv, DeliveryInv, Active
<1>8. OwnInv'
  BY DEF ProfInv, OwnInv, Active, Taking
<1> QED BY <1>1, <1>2, <1>3, <1>4, <1>5, <1>6, <1>7, <1>8 DEF ProfInv

(* StopCPUProfile calls the collector.                                     *)
LEMMA StopSendStep ==
  ASSUME NEW h \in Handlers, ProfInv, RegInv', StopSend(h), UNCHANGED mainVars
  PROVE  ProfInv'
<1> USE DEF StopSend, StopLock, Reply, setVars, rtVars, collVars, mainVars
<1>1. (MainTypes /\ LifeInv /\ AskInv /\ RestoreInv)'
  BY DEF ProfInv, MainTypes, LifeInv, AskInv, RestoreInv, Early
<1>2. CpuTypeOK'
  <2>1. ev' \in [Clients -> {"none", "start", "stop", "flush", "busy", "ok", "err"}]
    BY DEF ProfInv, CpuTypeOK
  <2> QED BY <2>1 DEF ProfInv, CpuTypeOK
<1>3. EventInv'
  BY NameAssumption DEF ProfInv, EventInv, RegInv, RegTypeOK, CpuTypeOK, MainTypes,
           Clients
<1>4. ServeInv'
  BY DEF ProfInv, ServeInv, EventInv, RegInv, RegTypeOK, CpuTypeOK, MainTypes, Clients
<1>5. OwedInv'
  BY DEF ProfInv, OwedInv, EventInv, ServeInv, CpuTypeOK, MainTypes, Clients
<1>6. StartedInv'
  BY DEF ProfInv, StartedInv, Active, EventInv, ServeInv, RegInv, RegTypeOK, CpuTypeOK,
           Clients
<1>7. RuntimeInv'
  BY DEF ProfInv, RuntimeInv, Active, Taking, EventInv, RegInv, RegTypeOK, CpuTypeOK,
           Clients
<1>8. BufferInv'
  BY DEF ProfInv, BufferInv, Active, EventInv, RegInv, RegTypeOK, CpuTypeOK, Clients
<1>9. DeliveryInv'
  BY DEF ProfInv, DeliveryInv, Active, EventInv, RegInv, RegTypeOK, CpuTypeOK, Clients
<1>10. OwnInv'
  BY DEF ProfInv, OwnInv, Active, Taking, LifeInv, RegInv, RegTypeOK, CpuTypeOK, Clients
<1> QED BY <1>1, <1>2, <1>3, <1>4, <1>5, <1>6, <1>7, <1>8, <1>9, <1>10 DEF ProfInv

(* The collector has stopped the profile; the runtime has, if the request  *)
(* used it directly.                                                       *)
LEMMA StopDoneStep ==
  ASSUME NEW h \in Handlers, ProfInv, RegInv', StopDone(h), UNCHANGED mainVars
  PROVE  ProfInv'
<1> USE DEF StopDone, StopReturn, RuntimeStop, Reply, rtVars, mainVars
<1>1. \A g \in Handlers : Active(g)' <=> Active(g)
  BY CpuAssumption DEF ProfInv, RegInv, RegTypeOK, EventInv, CpuTypeOK, Active, Clients
<1>2. (MainTypes /\ LifeInv)'
  BY DEF ProfInv, MainTypes, LifeInv
<1>3. CpuTypeOK'
  <2>1. ev' \in [Clients -> {"none", "start", "stop", "flush", "busy", "ok", "err"}]
    BY DEF ProfInv, CpuTypeOK
  <2>2. buf' \in Seq({Bg} \cup Handlers)
    BY WrittenType DEF ProfInv, CpuTypeOK
  <2>3. rt' \in {Off, Bg, Ext} \cup Handlers /\ rtBuf' \in BOOLEAN /\ got' \in [Handlers -> Nat]
    <3>1. CASE UNCHANGED rtVars
      BY <3>1 DEF ProfInv, CpuTypeOK
    <3>2. CASE RuntimeStop
      BY <3>2, StopTypes DEF ProfInv
    <3> QED BY <3>1, <3>2
  <2>4. UNCHANGED <<extOn, cpc, serving, started, timed, ticking, up, halt>>
    OBVIOUS
  <2> QED BY <2>1, <2>2, <2>3, <2>4 DEF ProfInv, CpuTypeOK
<1>4. EventInv'
  BY CpuAssumption, NameAssumption DEF ProfInv, EventInv, RegInv, RegTypeOK, CpuTypeOK,
           MainTypes, Clients
<1>5. ServeInv'
  BY CpuAssumption DEF ProfInv, ServeInv, EventInv, RegInv, RegTypeOK, CpuTypeOK,
           MainTypes, Clients
<1>6. AskInv'
  BY SetterAssumption DEF ProfInv, AskInv, Early, LifeInv, RegInv, RegTypeOK, MainTypes
<1>7. RestoreInv'
  BY DEF ProfInv, RestoreInv
<1>8. OwedInv'
  BY DEF ProfInv, OwedInv, EventInv, ServeInv, CpuTypeOK, MainTypes, Clients
<1>9. StartedInv'
  <2>1. UNCHANGED <<cpc, started, timed, serving>>
    OBVIOUS
  <2> QED BY <1>1, <2>1 DEF ProfInv, StartedInv
<1>10. RuntimeInv'
  BY CpuAssumption, NameAssumption DEF ProfInv, RuntimeInv, Active, Taking, EventInv,
           RegInv, RegTypeOK, CpuTypeOK, Clients
<1>11. BufferInv'
  <2>1. CASE UNCHANGED <<rtVars, buf>>
    BY <1>1, <2>1 DEF ProfInv, BufferInv
  <2>2. CASE RuntimeStop /\ buf' = Written
    BY <1>1, <2>2, StopKeeps
  <2> QED BY <2>1, <2>2
<1>12. DeliveryInv'
  <2>1. /\ \A g \in Handlers : g # h => hpc'[g] = hpc[g] /\ on'[g] = on[g]
        /\ hpc'[h] = "idle" /\ ~Active(h)
    BY CpuAssumption DEF ProfInv, RegInv, RegTypeOK, EventInv, Active
  <2>2. CASE UNCHANGED <<rtVars, buf>>
    BY <1>1, <2>1, <2>2 DEF ProfInv, DeliveryInv
  <2>3. CASE RuntimeStop /\ buf' = Written
    <3>1. \A g \in Handlers : Active(g) => /\ up'[g] = 0 /\ got'[g] = 1
                                           /\ rt' # g /\ buf' = <<g>>
      BY <1>1, <2>3, StopKeeps
    <3>2. ASSUME NEW g \in Handlers, g # h, ~Active(g),
                 hpc[g] \in {"start", "starting"} \/ (hpc[g] = "stopping" /\ on[g] = Cpu)
          PROVE  got'[g] = got[g] /\ up'[g] = up[g]
      <4>1. ~(on[g] = Default /\ g \in Taking)
        BY <3>2, CpuAssumption DEF Taking
      <4> QED BY <1>1, <2>3, <3>2, <4>1, StopKeeps
    <3> QED BY <1>1, <2>1, <3>1, <3>2 DEF ProfInv, DeliveryInv
  <2> QED BY <2>2, <2>3
<1>13. OwnInv'
  BY CpuAssumption, NameAssumption DEF ProfInv, OwnInv, Active, Taking, LifeInv,
           RegInv, RegTypeOK, CpuTypeOK, Clients
<1> QED BY <1>2, <1>3, <1>4, <1>5, <1>6, <1>7, <1>8, <1>9, <1>10, <1>11, <1>12,
         <1>13 DEF ProfInv

(* The application starts a profile.                                       *)
LEMMA ExtStartStep ==
  ASSUME ProfInv, RegInv', ExtStart, UNCHANGED mainVars
  PROVE  ProfInv'
<1> USE DEF ExtStart, RuntimeStart, regVars, collVars, mainVars
<1>1. (MainTypes /\ EventInv /\ ServeInv /\ LifeInv /\ AskInv
       /\ RestoreInv /\ OwedInv /\ StartedInv)'
  BY DEF ProfInv, MainTypes, EventInv, ServeInv, LifeInv, AskInv, RestoreInv, OwedInv,
           StartedInv, Active, Early
<1>2. CpuTypeOK'
  BY DEF ProfInv, CpuTypeOK
<1>3. RuntimeInv'
  BY NameAssumption DEF ProfInv, RuntimeInv, Active, Taking, EventInv, RegInv,
           RegTypeOK, CpuTypeOK, Clients
<1>4. BufferInv'
  BY DEF ProfInv, BufferInv, Active
<1>5. DeliveryInv'
  BY NameAssumption DEF ProfInv, DeliveryInv, Active, EventInv, RegInv, RegTypeOK,
           CpuTypeOK, Clients
<1>6. OwnInv'
  BY DEF ProfInv, OwnInv
<1> QED BY <1>1, <1>2, <1>3, <1>4, <1>5, <1>6 DEF ProfInv

(* The application stops whatever profile there is.                        *)
LEMMA ExtStopStep ==
  ASSUME ProfInv, RegInv', ExtStop, UNCHANGED mainVars
  PROVE  ProfInv'
<1> USE DEF ExtStop, RuntimeStop, regVars, mainVars
<1>1. \A g \in Handlers : Active(g)' <=> Active(g)
  BY DEF ProfInv, Active, Clients
<1>2. (MainTypes /\ EventInv /\ ServeInv /\ LifeInv /\ AskInv
       /\ RestoreInv /\ OwedInv /\ StartedInv)'
  BY DEF ProfInv, MainTypes, EventInv, ServeInv, LifeInv, AskInv, RestoreInv, OwedInv,
           StartedInv, Active, Early
<1>3. CpuTypeOK'
  <2>1. buf' \in Seq({Bg} \cup Handlers)
    BY WrittenType
  <2>2. rt' \in {Off, Bg, Ext} \cup Handlers /\ rtBuf' \in BOOLEAN /\ got' \in [Handlers -> Nat]
    BY StopTypes DEF ProfInv
  <2> QED BY <2>1, <2>2 DEF ProfInv, CpuTypeOK
<1>4. RuntimeInv'
  BY NameAssumption DEF ProfInv, RuntimeInv, Active, Taking, EventInv, RegInv,
           RegTypeOK, CpuTypeOK, Clients
<1>5. BufferInv'
  BY <1>1, StopKeeps
<1>6. DeliveryInv'
  BY <1>1, StopKeeps, CpuAssumption DEF ProfInv, DeliveryInv, Taking
<1>7. OwnInv'
  BY DEF ProfInv, RuntimeInv, OwnInv
<1> QED BY <1>2, <1>3, <1>4, <1>5, <1>6, <1>7 DEF ProfInv

(***************************************************************************)
(* The theorems.                                                           *)
(***************************************************************************)

(* Nothing runs yet.                                                       *)
LEMMA ProfInit == Init => ProfInv
<1> SUFFICES ASSUME Init PROVE ProfInv
  OBVIOUS
<1> USE SetterAssumption, CpuAssumption, NameAssumption, DefaultAssumption, NobodyAssumption
        DEF Init, CpuInit
<1>1. RegInv
  BY InitInv
<1>2. CpuTypeOK
  <2>1. <<>> \in Seq({Bg} \cup Handlers)
    OBVIOUS
  <2> QED BY <2>1 DEF CpuTypeOK, Clients
<1>3. MainTypes /\ LifeInv /\ AskInv /\ RestoreInv /\ OwedInv
  BY DEF MainTypes, LifeInv, AskInv, RestoreInv, OwedInv, Early, RegInit
<1>4. EventInv /\ ServeInv
  BY DEF EventInv, ServeInv, Clients, RegInit
<1>5. \A h \in Handlers : ~Active(h) /\ hpc[h] = "idle"
  BY DEF Active, RegInit
<1>6. StartedInv /\ RuntimeInv /\ BufferInv /\ DeliveryInv /\ OwnInv
  BY <1>5 DEF StartedInv, RuntimeInv, BufferInv, DeliveryInv, OwnInv, Taking
<1> QED BY <1>1, <1>2, <1>3, <1>4, <1>6 DEF ProfInv

(* Nothing changes.                                                        *)
LEMMA ProfStutter == ProfInv /\ UNCHANGED vars => ProfInv'
<1> SUFFICES ASSUME ProfInv, UNCHANGED vars PROVE ProfInv'
  OBVIOUS
<1> USE DEF vars, regVars, cpuVars, rtVars, collVars, mainVars
<1>1. RegInv'
  BY NextInv DEF ProfInv
<1>2. (CpuTypeOK /\ MainTypes /\ EventInv /\ ServeInv /\ LifeInv /\ AskInv)'
  BY DEF ProfInv, CpuTypeOK, MainTypes, EventInv, ServeInv, LifeInv, AskInv, Early
<1>3. (RestoreInv /\ OwedInv /\ StartedInv /\ RuntimeInv /\ BufferInv /\ DeliveryInv /\ OwnInv)'
  BY DEF ProfInv, RestoreInv, OwedInv, StartedInv, RuntimeInv, BufferInv, DeliveryInv,
           OwnInv,
         Active, Taking
<1> QED BY <1>1, <1>2, <1>3 DEF ProfInv

(* The invariant is inductive.                                             *)
LEMMA ProfNext == ProfInv /\ [Next]_vars => ProfInv'
<1> SUFFICES ASSUME ProfInv, [Next]_vars PROVE ProfInv'
  OBVIOUS
<1>1. RegInv'
  BY StepUsesRegistry, NextInv DEF ProfInv
<1>2. CASE UNCHANGED vars
  BY <1>2, ProfStutter
<1>3. CASE Start \/ Stop \/ Stopped \/ \E u \in Users : Flush(u)
  BY <1>1, <1>3, StartStep, StopStep, StoppedStep, FlushStep
<1>4. CASE takeSnapshots
  BY <1>1, <1>4, LoopFlushStep, LoopFlushedStep, LoopStopStep, LoopUnregisterStep,
     LoopHaltStep, LoopJoinStep DEF takeSnapshots
<1>5. CASE Collector
  <2>1. CollStep /\ Owes
    BY <1>5 DEF Collector, Owes
  <2> QED BY <1>1, <2>1, CollRegisterStep, CollBeginStep, RestartStep, CollTickStep,
             CollHaltStep, CollEventStep DEF CollStep
<1>6. CASE \E h \in Handlers : Requests(h)
  BY <1>1, <1>6, NewRequestStep, StartSendStep, StartDoneStep, ExpireStep, StopSendStep,
     StopDoneStep DEF Requests, ServeProfile
<1>7. CASE Application
  BY <1>1, <1>7, ExtStartStep, ExtStopStep DEF Application
<1> QED BY <1>2, <1>3, <1>4, <1>5, <1>6, <1>7 DEF Next

(* The invariant holds throughout, for any set of requests and of users.   *)
THEOREM ProfilerInvariant == Spec => []ProfInv
BY ProfInit, ProfNext, PTL DEF Spec

(* Every variable of the profiler keeps its type.                          *)
THEOREM ProfilerTypes == Spec => []TypeOK
<1>1. ProfInv => TypeOK
  BY DEF ProfInv, RegInv, MainTypes, TypeOK
<1> QED BY <1>1, ProfilerInvariant, PTL

(* c.buf never holds two profiles when it is uploaded.                     *)
THEOREM ProfilerOneProfilePerUpload == Spec => []OneProfilePerUpload
<1>1. ProfInv => OneProfilePerUpload
  <2>1. ProfInv => buf = <<>> \/ \E x : buf = <<x>>
    BY DEF ProfInv, BufferInv
  <2>2. Len(<<>>) <= 1 /\ \A x : Len(<<x>>) <= 1
    OBVIOUS
  <2> QED BY <2>1, <2>2, Zenon DEF OneProfilePerUpload
<1> QED BY <1>1, ProfilerInvariant, PTL

(* A request that went through the CPU collector is answered with its      *)
(* profile, which was uploaded, each exactly once: whichever of the        *)
(* collector, the application or another request ended the runtime's       *)
(* profile.                                                                *)
THEOREM ProfilerForegroundDelivered == Spec => []ForegroundDelivered
<1>1. ProfInv => ForegroundDelivered
  BY DEF ProfInv, DeliveryInv, Active, ForegroundDelivered
<1> QED BY <1>1, ProfilerInvariant, PTL

(* If the application keeps off runtime/pprof, the collector in its select *)
(* is always taking the profile it should.                                 *)
THEOREM ProfilerAlwaysProfiling == Spec => []AlwaysProfiling
<1>1. ProfInv => AlwaysProfiling
  BY DEF ProfInv, OwnInv, Active, AlwaysProfiling
<1> QED BY <1>1, ProfilerInvariant, PTL

(* A Flush(true) has uploaded the CPU samples that there were, but for the *)
(* profile of the request because of which the collector refused it.       *)
THEOREM ProfilerFlushUploadsCpu == Spec => []FlushUploadsCpu
<1>1. ASSUME ProfInv, lpc = "flush", ev[Loop] \in {"ok", "err"}, flusher \in Waits \cap owed
      PROVE  /\ ev[Loop] = "err"
             /\ \E h \in Handlers : Written = <<h>> /\ up[h] = 0
  <2>1. ev[Loop] = "err" /\ cpc = "select" /\ started
    BY <1>1 DEF ProfInv, OwedInv
  <2>2. PICK h \in Handlers : Active(h)
    BY <1>1, <2>1 DEF ProfInv, StartedInv
  <2>3. up[h] = 0 /\ (rt = h \/ buf = <<h>>)
    BY <1>1, <2>2 DEF ProfInv, DeliveryInv
  <2>4. CASE rt = h
    <3>1. rtBuf /\ buf = <<>>
      BY <1>1, <2>2, <2>4 DEF ProfInv, RuntimeInv, BufferInv
    <3> QED BY <2>1, <2>3, <2>4, <3>1 DEF Written
  <2>5. CASE buf = <<h>>
    <3>1. ~rtBuf
      BY <1>1, <2>5 DEF ProfInv, BufferInv
    <3> QED BY <2>1, <2>3, <2>5, <3>1 DEF Written
  <2> QED BY <2>3, <2>4, <2>5
<1>2. ProfInv => FlushUploadsCpu
  BY <1>1 DEF FlushUploadsCpu
<1> QED BY <1>2, ProfilerInvariant, PTL

(* When Stop has returned no CPU profile is being taken or kept back.      *)
THEOREM ProfilerStoppedIsQuiet == Spec => []StoppedIsQuiet
<1>1. ProfInv => StoppedIsQuiet
  BY DEF ProfInv, LifeInv, BufferInv, Unsent, StoppedIsQuiet
<1> QED BY <1>1, ProfilerInvariant, PTL

(* When Stop has returned StartCPUProfile goes to the runtime again, if    *)
(* CPU profiles were enabled and Stop did not overtake the SetCollector of *)
(* cpu.Start.                                                              *)
THEOREM ProfilerStopRestoresDefault ==
  ASSUME CpuEnabled, ~PromptStop PROVE Spec => []StopRestoresDefault
<1>1. ProfInv => StopRestoresDefault
  BY DefaultAssumption DEF ProfInv, LifeInv, RestoreInv, RegInv, LastRequestWins,
           StopRestoresDefault
<1> QED BY <1>1, ProfilerInvariant, PTL

(* A step that stops a request's profile is part of a reset, or of a       *)
(* StopCPUProfile of the runtime.                                          *)
LEMMA ProfileEnds ==
  ASSUME ProfInv, Next, rt \in Handlers, rt' # rt, ~ExtUses
  PROVE  \/ CollBegin \/ CollTick \/ CollHalt
         \/ \E p \in Clients : CollEvent(p)
         \/ \E h \in Handlers : StopDone(h) /\ on[h] = Default
<1> USE NameAssumption DEF RuntimeStart, regVars, cpuVars, rtVars, collVars, mainVars
<1>1. ~extOn /\ rt # Off
  BY DEF ProfInv, RuntimeInv
<1>2. ~(Start \/ Stop \/ Stopped \/ \E u \in Users : Flush(u))
  BY DEF Start, Stop, Stopped, Flush
<1>3. ~takeSnapshots
  BY DEF takeSnapshots, LoopFlush, LoopFlushed, LoopStop, LoopUnregister, LoopHalt, LoopJoin
<1>4. ~Application
  BY <1>1 DEF Application, ExtStart, ExtStop
<1>5. ASSUME Collector PROVE CollBegin \/ CollTick \/ CollHalt \/ \E p \in Clients : CollEvent(p)
  <2>1. ~CollRegister
    BY DEF CollRegister
  <2>2. ~Restart
    BY <1>1 DEF Restart
  <2> QED BY <1>5, <2>1, <2>2 DEF Collector, CollStep
<1>6. ASSUME NEW h \in Handlers, Requests(h) PROVE StopDone(h) /\ on[h] = Default
  <2>1. ~(NewRequest(h) \/ StartSend(h) \/ Expire(h) \/ StopSend(h))
    BY DEF NewRequest, StartSend, Expire, StopSend
  <2>2. ~StartDone(h)
    BY <1>1 DEF StartDone
  <2>3. StopDone(h)
    BY <1>6, <2>1, <2>2 DEF Requests, ServeProfile
  <2> QED BY <2>3 DEF StopDone
<1> QED BY <1>2, <1>3, <1>4, <1>5, <1>6 DEF Next

(* A request's profile is ended by its own StopCPUProfile, unless it was   *)
(* started directly on the runtime while the profiler is being stopped.    *)
THEOREM ProfilerForegroundNotCut == Spec => ForegroundNotCut
<1>1. ASSUME ProfInv, Next, rt \in Handlers, rt' # rt, ~ExtUses,
             opc \in {"new", "running"} \/ on[rt] # Default
      PROVE  hpc[rt] = "stopping"
  <2> USE CpuAssumption, NameAssumption
  <2>1. opc \in {"new", "running"} /\ ~setting[Coll] /\ cpc \in {"registering", "restart", "select"}
          => Active(rt)
    BY <1>1, NoneDirect DEF ProfInv, RuntimeInv
  <2>2. on[rt] # Default => Active(rt)
    BY <1>1 DEF ProfInv, RuntimeInv
  <2>3. Active(rt) => cpc = "select" /\ started
    BY <1>1 DEF ProfInv, StartedInv
  <2>4. CASE CollBegin
    BY <1>1, <2>1, <2>2, <2>3, <2>4 DEF CollBegin
  <2>5. CASE CollTick
    BY <1>1, <2>1, <2>2, <2>3, <2>5 DEF CollTick, ProfInv, AskInv
  <2>6. CASE CollHalt
    <3>1. ~started
      BY <1>1, <2>6 DEF CollHalt, rtVars
    <3>2. opc \notin {"new", "running"}
      BY <2>6, <1>1 DEF CollHalt, ProfInv, LifeInv
    <3> QED BY <1>1, <2>2, <2>3, <3>1, <3>2
  <2>7. ASSUME NEW p \in Clients, CollEvent(p) PROVE hpc[rt] = "stopping"
    <3>1. Active(rt) /\ started
      BY <1>1, <2>1, <2>2, <2>3, <2>7 DEF CollEvent, ProfInv, AskInv
    <3>2. ev[p] = "stop"
      BY <1>1, <2>7, <3>1 DEF CollEvent, rtVars
    <3>3. p \in Handlers /\ hpc[p] = "stopping" /\ Active(p)
      BY <1>1, <3>2 DEF ProfInv, EventInv, Active, Clients
    <3> QED BY <1>1, <3>1, <3>3 DEF ProfInv, StartedInv
  <2>8. ASSUME NEW h \in Handlers, StopDone(h), on[h] = Default PROVE hpc[rt] = "stopping"
    <3>1. hpc[h] = "stopping" /\ h \in Taking
      BY <2>8 DEF StopDone, StopReturn, Taking
    <3>2. on[rt] = Default
      BY <1>1, <2>8, <3>1 DEF ProfInv, RegInv, SameCollector, RuntimeInv, Active, Taking
    <3>3. rt = h
      BY <1>1, <2>8, <3>1, <3>2 DEF ProfInv, OwnInv
    <3> QED BY <3>1, <3>3
  <2> QED BY <1>1, <2>4, <2>5, <2>6, <2>7, <2>8, ProfileEnds
<1>2. ProfInv /\ [Next]_vars =>
        [(rt \in Handlers /\ rt' # rt /\ ~ExtUses) =>
           \/ hpc[rt] = "stopping"
           \/ on[rt] = Default /\ opc \in {"stopping", "stopped"}]_vars
  BY <1>1 DEF ProfInv, MainTypes
<1> QED BY <1>2, ProfilerInvariant, PTL DEF Spec, ForegroundNotCut
=============================================================================
