---------------------------- MODULE TickerProofs ----------------------------
(***************************************************************************)
(* Proofs about the CPU collector's ticker, for every upload rate and      *)
(* every delay: profiles are uploaded, and failed starts tried again, in   *)
(* time.                                                                   *)
(*                                                                         *)
(* The argument: age + due, the age the profile will have at the next      *)
(* tick, does not change while time passes.  A reset makes it at most Dur, *)
(* an early tick at most twice the age of a profile that is too young,     *)
(* which is why the bound is nearly 2 * Dur.  A waiting tick is taken      *)
(* within MaxLate unless the profile was started after it was due.         *)
(***************************************************************************)
EXTENDS Ticker, TLAPS

TypeOK == /\ pc \in {"select", "stopping", "crashed"}
          /\ timed \in BOOLEAN /\ started \in BOOLEAN
          /\ age \in Nat /\ due \in Int /\ busy \in Nat

(* A foreground profile has a start time.                                  *)
StartedIsTimed == started => timed

(* The age at the next tick, of a background profile and since a start     *)
(* that failed.                                                            *)
AgeAtTick == pc = "select" => /\ ~started => age + due <= 2 * (Dur - 1) + MaxLate
                              /\ ~timed => age + due <= Dur

(* A tick does not wait longer than MaxLate beside a profile.              *)
TickTaken == pc = "select" => age = 0 \/ due >= -MaxLate

IInv == TypeOK /\ due <= Dur /\ StartedIsTimed /\ AgeAtTick /\ TickTaken

(* The invariant holds when the collector starts.                          *)
LEMMA InitIInv == Init => IInv
<1> SUFFICES ASSUME Init PROVE IInv
  OBVIOUS
<1>1. age \in Nat /\ due \in Int /\ busy \in Nat /\ due <= Dur
  BY DurAssumption, SMT DEF Init
<1>2. /\ pc \in {"select", "stopping", "crashed"}
      /\ timed \in BOOLEAN /\ started \in BOOLEAN
  BY Zenon DEF Init
<1>3. StartedIsTimed /\ AgeAtTick /\ TickTaken
  BY DEF Init, StartedIsTimed, AgeAtTick, TickTaken
<1> QED BY <1>1, <1>2, <1>3 DEF IInv, TypeOK

(* Every step of the loop keeps the invariant.                             *)
LEMMA NextIInv == IInv /\ [Next]_vars => IInv'
<1> SUFFICES ASSUME IInv, [Next]_vars PROVE IInv'
  OBVIOUS
<1> USE DurAssumption, Bounds
        DEF IInv, TypeOK, StartedIsTimed, AgeAtTick, TickTaken
<1>1. CASE Pass
  BY <1>1 DEF Pass
<1>2. CASE TickEarly
  <2>1. timed /\ age + due < Dur /\ pc = "select" /\ due <= 0
    BY <1>2 DEF TickEarly, Ticked, Sub
  <2>2. age <= Dur - 1 + MaxLate
    BY <2>1
  <2>3. CASE age + due < 0
    BY <1>2, <2>1, <2>3 DEF TickEarly, Sub, Interval
  <2>4. CASE age + due >= 0
    BY <1>2, <2>1, <2>2, <2>4 DEF TickEarly, Sub, Interval
  <2> QED BY <2>1, <2>3, <2>4
<1>3. CASE TickZero
  BY <1>3 DEF TickZero
<1>4. CASE TickInTime
  <2>1. CASE started
    BY <1>4, <2>1 DEF TickInTime
  <2>2. CASE ~started
    BY <1>4, <2>2 DEF TickInTime, BeginReset
  <2> QED BY <2>1, <2>2
<1>5. CASE \E typ \in {"start", "stop", "flush"} : Event(typ)
  BY <1>5 DEF Event, BeginReset
<1>6. CASE \E ok \in BOOLEAN : FinishReset(ok)
  BY <1>6 DEF FinishReset
<1>7. CASE UNCHANGED vars
  BY <1>7 DEF vars
<1> QED BY <1>1, <1>2, <1>3, <1>4, <1>5, <1>6, <1>7 DEF Next

(* The invariant holds always.                                             *)
LEMMA SpecIInv == Spec => []IInv
  BY InitIInv, NextIInv, PTL DEF Spec

(* A background profile is uploaded before it is twice as old as it should *)
(* be, but for late ticks: collector.go:98-120 sets the ticker again to    *)
(* the age of a profile that is too young, never to more.                  *)
THEOREM TickerUploadedInTime == Spec => []UploadedInTime
<1>1. IInv => UploadedInTime
  BY DurAssumption, Bounds DEF IInv, TypeOK, AgeAtTick, TickTaken, UploadedInTime
<1> QED BY <1>1, SpecIInv, PTL

(* A start that failed is tried again after one period: timeStarted is the *)
(* zero time then, and no tick is too early (collector.go:205-225).        *)
THEOREM TickerRetriedInTime == Spec => []RetriedInTime
<1>1. IInv => RetriedInTime
  BY DurAssumption, Bounds DEF IInv, TypeOK, AgeAtTick, TickTaken, RetriedInTime
<1> QED BY <1>1, SpecIInv, PTL
=============================================================================
