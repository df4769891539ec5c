------------------------------ MODULE Profiler ------------------------------
(***************************************************************************)
(* The profiler as a whole: api.go and the goroutines of session.go, with  *)
(* the CPU collector and the collector registry.                           *)
(*                                                                         *)
(* Profiler.Start launches the snapshot loop and, if CPU profiling is      *)
(* enabled, the collector.  Users call Flush; the owner calls Stop.  The   *)
(* snapshot loop serves both.  What the loop's reset writes and uploads is *)
(* the subject of module Session and is not visible here; the upstream is  *)
(* taken at its word (module Upstream, implemented by Remote): Upload does *)
(* not block and Flush returns.                                            *)
(***************************************************************************)
EXTENDS CPUCollector

CONSTANTS Users,        \* goroutines that call Profiler.Flush
          Waits,        \* those that pass wait = true
          CpuEnabled,   \* ProfileCPU is among the profile types
          MayStop,      \* whether Stop is called
          PromptStop    \* Stop may come before cpu.Start has registered

VARIABLES
  opc,          \* the owner: new, running, stopping, stopped
  lpc,          \* the snapshot loop
  flusher,      \* the user whose flush the loop is serving
  upc,          \* where a user is in Flush
  owed          \* history: users whose Flush found CPU data not yet uploaded

mainVars == <<opc, lpc, flusher, upc, owed>>
vars == <<regVars, cpuVars, mainVars>>

Init == /\ RegInit /\ CpuInit
        /\ opc = "new"
        /\ lpc = "off"
        /\ flusher = None
        /\ upc = [u \in Users |-> "idle"]
        /\ owed = {}

-----------------------------------------------------------------------------
(* The owner.                                                              *)

(* Session.Start launches the snapshot loop and the collector.             *)
SessionStart == /\ lpc' = "select"
                /\ cpc' = IF CpuEnabled THEN "new" ELSE "off"

Start == /\ opc = "new"
         /\ opc' = "running"
         /\ SessionStart
         /\ UNCHANGED <<regVars, rtVars, extOn, serving, started, timed, buf,
                        ticking, up, halt, ev, flusher, upc, owed>>

(* Session.Stop: close(ps.stopCh)                                          *)
Stop == /\ opc = "running" /\ MayStop
        /\ PromptStop \/ cpc # "new"
        /\ opc' = "stopping"
        /\ UNCHANGED <<regVars, cpuVars, lpc, flusher, upc, owed>>

(* ps.wg.Wait() returns, then the uploader is stopped                      *)
Stopped == /\ opc = "stopping"
           /\ lpc = "exited" /\ cpc \in {"off", "exited"}
           /\ opc' = "stopped"
           /\ UNCHANGED <<regVars, cpuVars, lpc, flusher, upc, owed>>

-----------------------------------------------------------------------------
(* Users.                                                                  *)

(* CPU samples taken and not uploaded                                      *)
Unsent == rtBuf \/ buf # <<>>

Flush(u) == /\ opc # "new" /\ upc[u] = "idle"
            /\ upc' = [upc EXCEPT ![u] = "send"]
            /\ owed' = IF Unsent THEN owed \cup {u} ELSE owed
            /\ UNCHANGED <<regVars, cpuVars, opc, lpc, flusher>>

-----------------------------------------------------------------------------
(* takeSnapshots.                                                          *)

(* the flush event is not sent                                             *)
BadLoopFlush(u) ==
  /\ lpc = "select" /\ upc[u] = "send"
  /\ lpc' = "flush"
  /\ flusher' = u
  /\ upc' = [upc EXCEPT ![u] = IF u \in Waits THEN "wait" ELSE "idle"]
  /\ owed' = IF u \in Waits THEN owed ELSE owed \ {u}
  /\ Reply(Loop, "ok")
  /\ UNCHANGED <<regVars, rtVars, extOn, collVars, halt, opc>>

(* case f := <-ps.flushCh; cpu.Flush() is called whether or not CPU        *)
(* profiling is enabled.                                                   *)
LoopFlush(u) ==
  /\ lpc = "select" /\ upc[u] = "send"
  /\ lpc' = "flush"
  /\ flusher' = u
  /\ upc' = [upc EXCEPT ![u] = IF u \in Waits THEN "wait" ELSE "idle"]
  /\ owed' = IF u \in Waits THEN owed ELSE owed \ {u}
  /\ Reply(Loop, "flush")
  /\ UNCHANGED <<regVars, rtVars, extOn, collVars, halt, opc>>

(* cpu.Flush() has returned, upstream.Flush() returns, f.wg.Done()         *)
LoopFlushed ==
  /\ lpc = "flush" /\ ev[Loop] \in {"ok", "err"}
  /\ lpc' = "select"
  /\ flusher' = None
  /\ upc' = IF upc[flusher] = "wait" THEN [upc EXCEPT ![flusher] = "idle"] ELSE upc
  /\ owed' = IF upc[flusher] = "wait" THEN owed \ {flusher} ELSE owed
  /\ Reply(Loop, "none")
  /\ UNCHANGED <<regVars, rtVars, extOn, collVars, halt, opc>>

(* case <-ps.stopCh                                                        *)
LoopStop ==
  /\ lpc = "select" /\ opc = "stopping"
  /\ lpc' = IF CpuEnabled THEN "stop" ELSE "exited"
  /\ UNCHANGED <<regVars, cpuVars, opc, flusher, upc, owed>>

(* cpu.Stop                                                                *)
LoopUnregister ==
  /\ lpc = "stop"
  /\ SetCollector(Loop, Default)
  /\ lpc' = "unregistering"
  /\ UNCHANGED <<cpuVars, opc, flusher, upc, owed>>

LoopHalt ==
  /\ lpc = "unregistering" /\ ~setting[Loop]
  /\ halt' = TRUE
  /\ lpc' = "join"
  /\ UNCHANGED <<regVars, rtVars, extOn, collVars, ev, opc, flusher, upc, owed>>

LoopJoin ==
  /\ lpc = "join" /\ cpc = "exited"
  /\ lpc' = "exited"
  /\ UNCHANGED <<regVars, cpuVars, opc, flusher, upc, owed>>

takeSnapshots == \/ \E u \in Users : LoopFlush(u)
                 \/ LoopFlushed \/ LoopStop \/ LoopUnregister \/ LoopHalt \/ LoopJoin

-----------------------------------------------------------------------------
(* Nothing is owed to anyone after a step that stops and uploads.          *)
Collector == /\ CollStep
             /\ owed' = IF cpc' \in {"restart", "exited"} /\ ~Unsent' THEN {} ELSE owed
             /\ UNCHANGED <<opc, lpc, flusher, upc>>

Requests(h) == (NewRequest(h) \/ ServeProfile(h)) /\ UNCHANGED mainVars
Application == (ExtStart \/ ExtStop) /\ UNCHANGED mainVars

Next == \/ Start \/ Stop \/ Stopped
        \/ \E u \in Users : Flush(u)
        \/ takeSnapshots
        \/ Collector
        \/ \E h \in Handlers : Requests(h)
        \/ Application

Spec == Init /\ [][Next]_vars

(* Goroutines that can run do run.  A select that finds several cases ready *)
(* picks one at random and a mutex is handed to its waiters in turn, so a  *)
(* case or a lock that is available again and again is got: strong         *)
(* fairness.  Requests end by their deadline.  Nothing obliges a tick, a   *)
(* request, a Flush or a Stop to happen.                                   *)
FairSpec ==
  /\ Spec
  /\ WF_vars(Stopped)
  /\ \A h \in Handlers : SF_vars(ServeProfile(h) /\ UNCHANGED mainVars)
  /\ \A u \in Users : SF_vars(LoopFlush(u))
  /\ WF_vars(LoopFlushed) /\ SF_vars(LoopStop) /\ SF_vars(LoopUnregister)
  /\ WF_vars(LoopHalt) /\ WF_vars(LoopJoin)
  /\ SF_vars(CollRegister /\ Collector) /\ WF_vars(CollBegin /\ Collector)
  /\ WF_vars(Restart /\ Collector) /\ SF_vars(CollHalt /\ Collector)
  /\ \A p \in Clients : SF_vars(CollEvent(p) /\ Collector)

-----------------------------------------------------------------------------
(* Properties.                                                             *)

TypeOK ==
  /\ RegTypeOK /\ CpuTypeOK
  /\ opc \in {"new", "running", "stopping", "stopped"}
  /\ lpc \in {"off", "select", "flush", "stop", "unregistering", "join", "exited"}
  /\ flusher \in Users \cup {None}
  /\ upc \in [Users -> {"idle", "send", "wait"}]
  /\ owed \subseteq Users

(* c.buf never holds two profiles: every upload is one well-formed profile, *)
(* however resets, ticks, requests and the application's own use of        *)
(* runtime/pprof interleave.                                               *)
OneProfilePerUpload == Len(buf) <= 1

(* A request that went through the CPU collector has its profile written   *)
(* to the response exactly once, and the same profile was uploaded exactly *)
(* once, before StopCPUProfile returns (http/pprof/README.md).             *)
ForegroundDelivered ==
  \A h \in Handlers :
    hpc[h] = "stopping" /\ on[h] = Cpu /\ ev[h] \in {"ok", "err"}
      => got[h] = 1 /\ up[h] = 1

(* A request's profile is ended by the request's own StopCPUProfile:       *)
(* neither a tick nor a flush nor another request nor Stop cuts it short.  *)
(* Excepted are applications that use runtime/pprof themselves, and        *)
(* requests that start directly on the runtime once cpu.Stop has called    *)
(* SetCollector: the last reset of the collector can stop one of those,    *)
(* whose own StopCPUProfile then stops the next.                           *)
ForegroundNotCut ==
  [][(rt \in Handlers /\ rt' # rt /\ ~ExtUses) =>
       \/ hpc[rt] = "stopping"
       \/ on[rt] = Default /\ opc \in {"stopping", "stopped"}]_vars

(* If the application keeps off runtime/pprof, the collector in its select *)
(* is always taking a profile: the requested one, or else, resumed after   *)
(* each request, flush and tick, the background one.                       *)
AlwaysProfiling ==
  cpc = "select" /\ ~ExtUses /\ opc = "running" =>
    IF started THEN \E h \in Handlers : rt = h /\ hpc[h] # "idle" ELSE rt = Bg

(* When cpu.Flush() has returned for a Flush(true), the CPU samples there  *)
(* were when it was called are uploaded, unless it was refused because a   *)
(* request is being served (the loop drops the error): then the profile of *)
(* that request, and no other, is still to be uploaded.                    *)
FlushUploadsCpu ==
  lpc = "flush" /\ ev[Loop] \in {"ok", "err"} /\ flusher \in Waits \cap owed =>
    /\ ev[Loop] = "err"
    /\ \E h \in Handlers : Written = <<h>> /\ up[h] = 0

(* After Stop the profiler takes no CPU profile and keeps none back.       *)
StoppedIsQuiet == opc = "stopped" => ~Unsent

(* After Stop, StartCPUProfile goes to the runtime again                   *)
(* (collector.go:178 "Switches back to the standard pprof collector.").    *)
StopRestoresDefault == opc = "stopped" => collector = Default

(* Profiler.Flush returns, unless the profiler is stopped before the       *)
(* snapshot loop has taken it.                                             *)
FlushReturns ==
  \A u \in Users :
    /\ (upc[u] = "send") ~> (upc[u] # "send" \/ opc \in {"stopping", "stopped"})
    /\ (upc[u] = "wait") ~> (upc[u] = "idle")

(* Profiler.Stop returns, though it waits for requests, for the loop and   *)
(* for the collector, which wait for each other.                           *)
StopReturns == opc = "stopping" ~> opc = "stopped"

(* Every request for a CPU profile is answered.                            *)
RequestReturns == \A h \in Handlers : hpc[h] = "start" ~> hpc[h] = "idle"
=============================================================================
