------------------------------- MODULE Ticker -------------------------------
(***************************************************************************)
(* The ticker of the CPU collector: the loop of cpuProfileCollector.Start  *)
(* in collector.go, with time.                                             *)
(*                                                                         *)
(* A background profile should last Dur.  Starting and stopping a          *)
(* foreground profile and flushing start a profile anew but leave the      *)
(* ticker alone, so a tick may find a profile that is too young; the loop  *)
(* then sets the ticker to the age of the profile.  Time is kept relative  *)
(* to now: age is now - c.timeStarted, and due is the time left until the  *)
(* next tick, zero or less for a tick waiting in t.C, whose value n is the *)
(* time it was due.  Which profile goes where, and Stop, are the subject   *)
(* of module CPUCollector.                                                 *)
(***************************************************************************)
EXTENDS Integers

CONSTANTS Dur,          \* c.dur
          MaxLate,      \* bound on how long the select passes over a tick
          MaxStop,      \* bound on how long the runtime takes to stop a profile
          MaxRequest    \* bound on the length of a foreground profile

ASSUME DurAssumption == Dur \in Nat /\ Dur > 1
ASSUME Bounds == MaxLate \in Nat /\ MaxStop \in Nat /\ MaxRequest \in Nat

VARIABLES
  pc,           \* select, stopping (in c.reset) or crashed
  timed,        \* c.timeStarted is not the zero time
  started,      \* c.started
  age,          \* now - c.timeStarted, or the time since the last reset
  due,          \* the next tick, from now
  busy,         \* how long the runtime has been stopping the profile
  why,          \* what the reset is for
  quiet         \* history: no event since the last reset made by a tick

vars == <<pc, timed, started, age, due, busy, why, quiet>>

(* c.reset, up to the return of StopCPUProfile                             *)
BeginReset(w) == pc' = "stopping" /\ busy' = 0 /\ why' = w

(* NewTicker, and the first reset                                          *)
Init == /\ pc = "stopping" /\ why = "tick"
        /\ timed = FALSE /\ started = FALSE
        /\ age = 0 /\ busy = 0
        /\ due = Dur
        /\ quiet = TRUE

-----------------------------------------------------------------------------
(* Time passes.  A select with several cases ready picks one at random:    *)
(* it takes a waiting tick within MaxLate.                                 *)
Pass ==
  /\ \/ pc = "select" /\ due > -MaxLate /\ (started => age < MaxRequest)
        /\ UNCHANGED busy
     \/ pc = "stopping" /\ busy < MaxStop
        /\ busy' = busy + 1
  /\ age' = age + 1
  /\ due' = due - 1
  /\ UNCHANGED <<pc, timed, started, why, quiet>>

(* timeStarted is kept though StartCPUProfile failed                       *)
BadSub == age + due

(* n.Sub(c.timeStarted): n is the time the tick was due, and a zero        *)
(* timeStarted is longer ago than any Dur.                                 *)
Sub == IF timed THEN age + due ELSE Dur

Ticked == pc = "select" /\ due <= 0

(* the ticker is set to a whole period                                     *)
BadInterval(d) == Dur

(* what the ticker is set to if the tick came too early                    *)
Interval(d) == IF d < 0 THEN Dur ELSE d

(* case n := <-t.C, the profile being too young                            *)
TickEarly ==
  /\ Ticked /\ Sub < Dur /\ Interval(Sub) > 0
  /\ due' = Interval(Sub)
  /\ UNCHANGED <<pc, timed, started, age, busy, why, quiet>>

(* Ticker.Reset panics if the interval is not positive: the tick was due   *)
(* at the very instant the profile was started.                            *)
TickZero ==
  /\ Ticked /\ Sub < Dur /\ Interval(Sub) = 0
  /\ pc' = "crashed"
  /\ UNCHANGED <<timed, started, age, due, busy, why, quiet>>

(* case n := <-t.C, the profile being old enough                           *)
TickInTime ==
  /\ Ticked /\ Sub >= Dur
  /\ due' = Dur
  /\ IF started THEN UNCHANGED <<pc, busy, why>> ELSE BeginReset("tick")
  /\ UNCHANGED <<timed, started, age, quiet>>

(* case e := <-c.events, for an event that leads to a reset                *)
Event(typ) ==
  /\ pc = "select" /\ due > -MaxLate
  /\ typ = "stop" <=> started
  /\ BeginReset(typ)
  /\ UNCHANGED <<timed, started, age, due, quiet>>

(* c.reset, from upload() on: the old profile is uploaded; the new one     *)
(* fails to start if the application has started one of its own.           *)
FinishReset(ok) ==
  /\ pc = "stopping"
  /\ pc' = "select"
  /\ age' = 0
  /\ timed' = ok
  /\ started' = (why = "start" /\ ok)
  /\ quiet' = (why = "tick")
  /\ UNCHANGED <<due, busy, why>>

Next == \/ Pass
        \/ TickEarly \/ TickZero \/ TickInTime
        \/ \E typ \in {"start", "stop", "flush"} : Event(typ)
        \/ \E ok \in BOOLEAN : FinishReset(ok)

Spec == Init /\ [][Next]_vars

-----------------------------------------------------------------------------
(* Properties.                                                             *)

(* However flushes and foreground profiles shift the ticker against the    *)
(* profile, a background profile is ended and uploaded before it is twice  *)
(* as old as it should be, but for the time ticks were passed over: each   *)
(* early tick doubles the age at the next one.                             *)
UploadedInTime == pc = "select" /\ ~started => age <= 2 * (Dur - 1) + 2 * MaxLate

(* A start that failed is tried again one period later, not later: the     *)
(* collector profiles again soon after the application has finished        *)
(* (collector.go:92).                                                      *)
RetriedInTime == pc = "select" /\ ~timed => age <= Dur + MaxLate

(* A tick finds a profile that is too young only "if the collector has     *)
(* been interrupted and then resumed, or flushed" (collector.go:99).       *)
EarlyOnlyIfInterrupted == Ticked /\ Sub < Dur => ~quiet
=============================================================================
