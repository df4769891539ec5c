---------------------------- MODULE CPUCollector ----------------------------
(***************************************************************************)
(* The CPU profile collector: collector.go, on top of the CPU profiler of  *)
(* runtime/pprof, of which a process has one.                              *)
(*                                                                         *)
(* The collector's goroutine profiles in the background and uploads what   *)
(* it has at every tick.  Through the channel events it is asked to start  *)
(* and to stop a foreground profile, which goes to a request and to the    *)
(* upstream, and to flush.  A reset stops the running profile and uploads  *)
(* it in one step and starts the next one in a second step: the runtime's  *)
(* profiler is free in between.  A profile is named by who asked for it.   *)
(***************************************************************************)
EXTENDS Registry

CONSTANTS Cpu,          \* the cpuProfileCollector, as a Collector
          Coll, Loop,   \* the goroutines of cpu.Start and of takeSnapshots
          Off, Bg, Ext, \* no profile; a background one; one of the application
          ExtUses       \* whether the application calls runtime/pprof itself

ASSUME CpuAssumption == Cpu \in Collectors \ {Default}
ASSUME SetterAssumption == Coll \in Setters /\ Loop \in Setters /\ Coll # Loop

(* who can be named apart                                                  *)
ASSUME NameAssumption ==
  /\ Loop \notin Handlers \cup {None}
  /\ Off # Bg /\ Off # Ext /\ Bg # Ext
  /\ {Off, Bg, Ext} \cap Handlers = {}

Clients == Handlers \cup {Loop}       \* goroutines that send events

VARIABLES
  rt, rtBuf,    \* the runtime's profile, and whether it is written to c.buf
  extOn,        \* the application started a profile and has not stopped it
  cpc,          \* where the collector's goroutine is
  serving,      \* the client and the type of event that a reset is for
  started,      \* c.started
  timed,        \* c.timeStarted is not the zero time
  buf,          \* c.buf: the profiles written to it since it was emptied
  ticking,      \* the ticker has not been stopped
  halt,         \* channel halt is closed
  ev,           \* the event a client has sent, or the answer to it
  got, up       \* history: profiles of a request written to it and uploaded

rtVars == <<rt, rtBuf, got>>
collVars == <<cpc, serving, started, timed, buf, ticking, up>>
cpuVars == <<rtVars, extOn, collVars, halt, ev>>

CpuInit == /\ rt = Off /\ rtBuf = FALSE
           /\ extOn = FALSE
           /\ cpc = "off"
           /\ serving = <<None, "none">>
           /\ started = FALSE
           /\ timed = FALSE
           /\ buf = <<>>
           /\ ticking = FALSE
           /\ halt = FALSE
           /\ ev = [p \in Clients |-> "none"]
           /\ got = [h \in Handlers |-> 0]
           /\ up = [h \in Handlers |-> 0]

-----------------------------------------------------------------------------
(* runtime/pprof: StartCPUProfile fails while a profile is being taken, by *)
(* whomever; StopCPUProfile stops it, whoever started it, and has written  *)
(* it to its writers when it returns.                                      *)

RuntimeStart(who, toBuf) == rt = Off /\ rt' = who /\ rtBuf' = toBuf

RuntimeStop == /\ rt' = Off
               /\ rtBuf' = FALSE
               /\ got' = [h \in Handlers |-> got[h] + (IF h = rt THEN 1 ELSE 0)]

Written == IF rtBuf THEN Append(buf, rt) ELSE buf     \* c.buf after RuntimeStop

ExtStart == /\ ExtUses /\ ~extOn
            /\ RuntimeStart(Ext, FALSE)
            /\ extOn' = TRUE
            /\ UNCHANGED <<regVars, collVars, halt, ev, got>>

ExtStop == /\ extOn
           /\ RuntimeStop
           /\ buf' = Written
           /\ extOn' = FALSE
           /\ UNCHANGED <<regVars, cpc, serving, started, timed, ticking, up, halt, ev>>

-----------------------------------------------------------------------------
(* reset: c.collector.StopCPUProfile(), then upload()                      *)

(* c.buf is not emptied                                                    *)
BadStopAndUpload ==
  /\ RuntimeStop
  /\ buf' = Written
  /\ up' = IF timed
           THEN [h \in Handlers |->
                   up[h] + Cardinality({i \in 1 .. Len(Written) : Written[i] = h})]
           ELSE up

StopAndUpload ==
  /\ RuntimeStop
  /\ IF timed /\ Written # <<>>
     THEN /\ buf' = <<>>
          /\ up' = [h \in Handlers |->
               up[h] + Cardinality({i \in 1 .. Len(Written) : Written[i] = h})]
     ELSE buf' = Written /\ UNCHANGED up

BeginReset(p, typ) == /\ StopAndUpload
                      /\ cpc' = "restart"
                      /\ serving' = <<p, typ>>

Reply(p, answer) == ev' = [ev EXCEPT ![p] = answer]

(* a foreground profile is written to the request only                     *)
BadRestartWriter ==
  /\ cpc = "restart"
  /\ cpc' = "select"
  /\ serving' = <<None, "none">>
  /\ LET p == serving[1]
         ok == rt = Off
     IN /\ IF ok
           THEN /\ IF serving[2] = "start" THEN RuntimeStart(p, FALSE)
                                          ELSE RuntimeStart(Bg, TRUE)
                /\ UNCHANGED buf
           ELSE /\ UNCHANGED <<rt, rtBuf>>
                /\ buf' = <<>>
        /\ timed' = ok
        /\ started' = (serving[2] = "start" /\ ok)
        /\ IF p = None THEN UNCHANGED ev ELSE Reply(p, IF ok THEN "ok" ELSE "err")
  /\ UNCHANGED <<regVars, extOn, ticking, up, got, halt>>

(* c.started is not cleared by a stop event                                *)
BadRestartStarted ==
  /\ cpc = "restart"
  /\ cpc' = "select"
  /\ serving' = <<None, "none">>
  /\ LET p == serving[1]
         ok == rt = Off
     IN /\ IF ok
           THEN /\ RuntimeStart(IF serving[2] = "start" THEN p ELSE Bg, TRUE)
                /\ UNCHANGED buf
           ELSE /\ UNCHANGED <<rt, rtBuf>>
                /\ buf' = <<>>
        /\ timed' = ok
        /\ started' = IF serving[2] = "start" THEN ok ELSE started
        /\ IF p = None THEN UNCHANGED ev ELSE Reply(p, IF ok THEN "ok" ELSE "err")
  /\ UNCHANGED <<regVars, extOn, ticking, up, got, halt>>

(* reset: the next StartCPUProfile, and the end of handleEvent.  On        *)
(* failure timeStarted is zeroed and c.buf emptied.                        *)
Restart ==
  /\ cpc = "restart"
  /\ cpc' = "select"
  /\ serving' = <<None, "none">>
  /\ LET p == serving[1]
         ok == rt = Off
     IN /\ IF ok
           THEN /\ RuntimeStart(IF serving[2] = "start" THEN p ELSE Bg, TRUE)
                /\ UNCHANGED buf
           ELSE /\ UNCHANGED <<rt, rtBuf>>
                /\ buf' = <<>>
        /\ timed' = ok
        /\ started' = (serving[2] = "start" /\ ok)
        /\ IF p = None THEN UNCHANGED ev ELSE Reply(p, IF ok THEN "ok" ELSE "err")
  /\ UNCHANGED <<regVars, extOn, ticking, up, got, halt>>

-----------------------------------------------------------------------------
(* Start.  cpu.Start makes this collector the one StartCPUProfile calls.   *)
CollRegister ==
  /\ cpc = "new"
  /\ SetCollector(Coll, Cpu)
  /\ cpc' = "registering"
  /\ UNCHANGED <<rtVars, extOn, serving, started, timed, buf, ticking, up, halt, ev>>

(* SetCollector has returned: the first reset.                             *)
CollBegin ==
  /\ cpc = "registering" /\ ~setting[Coll]
  /\ BeginReset(None, "background")
  /\ ticking' = TRUE
  /\ UNCHANGED <<regVars, extOn, started, timed, halt, ev>>

(* a tick does not look at c.started                                       *)
BadCollTick ==
  /\ cpc = "select" /\ ticking
  /\ BeginReset(None, "background")
  /\ UNCHANGED <<regVars, extOn, started, timed, ticking, halt, ev>>

(* case n := <-t.C, the profile being long enough.  A tick that comes too  *)
(* early, or during a foreground profile, only sets the ticker again.      *)
CollTick ==
  /\ cpc = "select" /\ ticking /\ ~started
  /\ BeginReset(None, "background")
  /\ UNCHANGED <<regVars, extOn, started, timed, ticking, halt, ev>>

(* the collector exits with a profile running                              *)
BadCollHalt ==
  /\ cpc = "select" /\ halt
  /\ ticking' = FALSE
  /\ IF started THEN UNCHANGED cpc ELSE cpc' = "exited"
  /\ UNCHANGED <<regVars, rtVars, extOn, serving, started, timed, buf, up, halt, ev>>

(* case <-c.halt                                                           *)
CollHalt ==
  /\ cpc = "select" /\ halt
  /\ ticking' = FALSE
  /\ IF started
     THEN UNCHANGED <<rtVars, cpc, buf, up>>
     ELSE StopAndUpload /\ cpc' = "exited"
  /\ UNCHANGED <<regVars, extOn, serving, started, timed, halt, ev>>

(* an event that is refused gets no answer                                 *)
BadCollEvent(p) ==
  /\ cpc = "select" /\ ev[p] \in {"start", "stop", "flush"}
  /\ Reply(p, "busy")
  /\ \/ (ev[p] = "stop" <=> started) /\ BeginReset(p, ev[p])
     \/ /\ ~(ev[p] = "stop" <=> started)
        /\ UNCHANGED <<rtVars, cpc, serving, buf, up>>
  /\ UNCHANGED <<regVars, extOn, started, timed, ticking, halt>>

(* case e := <-c.events: handleEvent                                       *)
CollEvent(p) ==
  /\ cpc = "select" /\ ev[p] \in {"start", "stop", "flush"}
  /\ \/ /\ ev[p] = "stop" <=> started          \* err = c.reset(...)
        /\ BeginReset(p, ev[p])
        /\ Reply(p, "busy")
     \/ /\ ~(ev[p] = "stop" <=> started)       \* nothing to do, or refused
        /\ Reply(p, IF ev[p] = "stop" THEN "ok" ELSE "err")
        /\ UNCHANGED <<rtVars, cpc, serving, buf, up>>
  /\ UNCHANGED <<regVars, extOn, started, timed, ticking, halt>>

-----------------------------------------------------------------------------
(* Requests: the steps of Registry, joined with what the registered        *)
(* collector does.  A call of the CPU collector sends it an event and      *)
(* waits for the answer.                                                   *)

NewRequest(h) == /\ Request(h)
                 /\ got' = [got EXCEPT ![h] = 0]
                 /\ up' = [up EXCEPT ![h] = 0]
                 /\ UNCHANGED <<rt, rtBuf, extOn, cpc, serving, started, timed,
                                buf, ticking, halt, ev>>

StartSend(h) == /\ StartLock(h)
                /\ IF on'[h] = Cpu THEN Reply(h, "start") ELSE UNCHANGED ev
                /\ UNCHANGED <<rtVars, extOn, collVars, halt>>

StartDone(h) ==
  \/ /\ on[h] = Cpu /\ ev[h] \in {"ok", "err"}
     /\ StartReturn(h, ev[h] = "ok")
     /\ Reply(h, "none")
     /\ UNCHANGED <<rtVars, extOn, collVars, halt>>
  \/ /\ on[h] = Default
     /\ StartReturn(h, rt = Off)
     /\ IF rt = Off THEN RuntimeStart(h, FALSE) ELSE UNCHANGED <<rt, rtBuf>>
     /\ UNCHANGED <<got, extOn, collVars, halt, ev>>

Expire(h) == Deadline(h) /\ UNCHANGED cpuVars

StopSend(h) == /\ StopLock(h)
               /\ IF on[h] = Cpu THEN Reply(h, "stop") ELSE UNCHANGED ev
               /\ UNCHANGED <<rtVars, extOn, collVars, halt>>

StopDone(h) ==
  /\ StopReturn(h)
  /\ \/ /\ on[h] = Cpu /\ ev[h] \in {"ok", "err"}
        /\ Reply(h, "none")
        /\ UNCHANGED <<rtVars, buf>>
     \/ /\ on[h] = Default
        /\ RuntimeStop
        /\ buf' = Written
        /\ UNCHANGED ev
  /\ UNCHANGED <<extOn, cpc, serving, started, timed, ticking, up, halt>>

ServeProfile(h) == StartSend(h) \/ StartDone(h) \/ Expire(h) \/ StopSend(h) \/ StopDone(h)

CollStep == CollRegister \/ CollBegin \/ Restart \/ CollTick \/ CollHalt
            \/ \E p \in Clients : CollEvent(p)

-----------------------------------------------------------------------------
CpuTypeOK ==
  /\ rt \in {Off, Bg, Ext} \cup Handlers
  /\ rtBuf \in BOOLEAN /\ extOn \in BOOLEAN /\ started \in BOOLEAN
  /\ timed \in BOOLEAN /\ ticking \in BOOLEAN /\ halt \in BOOLEAN
  /\ cpc \in {"off", "new", "registering", "select", "restart", "exited"}
  /\ serving \in (Clients \cup {None}) \X {"none", "background", "start", "stop", "flush"}
  /\ buf \in Seq({Bg} \cup Handlers)
  /\ ev \in [Clients -> {"none", "start", "stop", "flush", "busy", "ok", "err"}]
  /\ got \in [Handlers -> Nat] /\ up \in [Handlers -> Nat]
=============================================================================
