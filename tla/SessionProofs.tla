--------------------------- MODULE SessionProofs ---------------------------
(***************************************************************************)
(* Proofs about the snapshots of a session, for every upload rate, every   *)
(* choice of profile types and any number of flushes, failed dumps and     *)
(* garbage collections.                                                    *)
(***************************************************************************)
EXTENDS Session, TLAPS

SessionTypes ==
  /\ now \in Nat /\ fires \in Int /\ tick \in Int
  /\ startTime \in Int /\ from \in Int /\ until \in Int
  /\ gc \in Nat /\ seen \in Nat /\ lastGC \in Nat /\ heapGC \in Nat
  /\ flushes \in Nat
  /\ pc \in DOMAIN Order \cup {"select", "profile", "end"}
  /\ cause \in {"start", "tick", "flush"}
  /\ bufs \in [Enabled -> Nat]
  /\ spoiled \in [Enabled -> Nat] /\ failures \in [Enabled -> Nat]

(* Nothing the loop remembers lies in the future, and the next tick does.  *)
ClockInv ==
  /\ now < fires /\ tick <= now
  /\ startTime <= now /\ from <= now /\ until <= now

(* As long as nobody flushes, a waiting tick lies after the end of the     *)
(* window in progress and after the start of the next one.                 *)
TickInv == flushes = 0 =>
  /\ tick # 0 => startTime < tick /\ until < tick
  /\ Snapshot => from < until

(* The kinds uploadData has dealt with.                                    *)
Passed == CASE pc = "goroutine"     -> {}
            [] pc = "goroutineleak" -> {"goroutine"}
            [] pc = "block"         -> Aborting
            [] pc = "mutex"         -> Aborting \cup {"block"}
            [] pc = "heap"          -> Aborting \cup {"block", "mutex"}
            [] pc = "profile"       -> Aborting \cup {"block", "mutex"}
            [] OTHER                -> Aborting \cup Delta

PassedInv ==
  cause # "start" /\ failed \cap Aborting = {} =>
    Enabled \cap Passed \subseteq sent \cup failed \cup (Aborting \ available)
                                   \cup (IF disableGCRuns THEN {"heap"} ELSE {})

(* What is in the buffer of a goroutine profile between two dumps comes    *)
(* from a failed one that has not spoiled an upload yet.                   *)
Rests(k) == IF k \in Aborting /\ bufs[k] # 0 THEN 1 ELSE 0
BufferInv == \A k \in Enabled : spoiled[k] + Rests(k) <= failures[k]

(* The generation read before the heap profile is not in the future.       *)
GenerationInv == pc = "profile" => seen <= gc

SessionInv == /\ SessionTypes /\ ClockInv /\ TickInv /\ FlushSkewBounded /\ PassedInv
              /\ BufferInv /\ GenerationInv /\ NoCollectionMissed

-----------------------------------------------------------------------------
(* A time is cut to the multiple of the upload rate at or before it.       *)
LEMMA TruncatedTime ==
  ASSUME NEW t \in Int
  PROVE  /\ truncatedTime(t) \in Int
         /\ truncatedTime(t) <= t
         /\ t - truncatedTime(t) < Rate
BY RateAssumption DEF truncatedTime

(* Before the first tick.                                                  *)
LEMMA SessionInit == Init => SessionInv
<1> SUFFICES ASSUME Init PROVE SessionInv
  OBVIOUS
<1>1. now \in Nat
  BY RateAssumption DEF Init
<1>2. /\ startTime \in Int /\ startTime <= now
  BY <1>1, TruncatedTime DEF Init
<1>3. SessionTypes
  BY <1>1, <1>2, RateAssumption DEF Init, SessionTypes
<1>4. ClockInv
  BY <1>1, <1>2, RateAssumption DEF Init, ClockInv
<1>5. TickInv /\ FlushSkewBounded /\ PassedInv /\ GenerationInv
  BY DEF Init, TickInv, FlushSkewBounded, PassedInv, GenerationInv, Snapshot
<1>6. BufferInv
  BY DEF Init, BufferInv, Rests
<1>7. NoCollectionMissed
  BY DEF Init, NoCollectionMissed
<1> QED BY <1>3, <1>4, <1>5, <1>6, <1>7 DEF SessionInv

-----------------------------------------------------------------------------
(* Time passes: a tick that is put in the channel is later than anything   *)
(* the loop remembers.                                                     *)
LEMMA PassInv == ASSUME SessionInv, Pass PROVE SessionInv'
<1> USE DEF Pass, windowVars, dumpVars
<1>1. SessionTypes'
  BY RateAssumption DEF SessionInv, SessionTypes
<1>2. ClockInv' /\ TickInv'
  BY RateAssumption DEF SessionInv, SessionTypes, ClockInv, TickInv, Snapshot
<1>3. FlushSkewBounded' /\ PassedInv' /\ BufferInv'
  BY DEF SessionInv, FlushSkewBounded, PassedInv, Passed, BufferInv, Rests, Snapshot
<1>4. GenerationInv' /\ NoCollectionMissed'
  BY DEF SessionInv, GenerationInv, NoCollectionMissed
<1> QED BY <1>1, <1>2, <1>3, <1>4 DEF SessionInv

(* A garbage collection only raises the runtime's count.                   *)
LEMMA CollectInv == ASSUME SessionInv, Collect PROVE SessionInv'
<1> USE DEF Collect, windowVars, dumpVars
<1>1. SessionTypes'
  BY DEF SessionInv, SessionTypes
<1>2. ClockInv' /\ TickInv' /\ FlushSkewBounded'
  BY DEF SessionInv, ClockInv, TickInv, FlushSkewBounded, Snapshot
<1>3. PassedInv' /\ BufferInv'
  BY DEF SessionInv, PassedInv, Passed, BufferInv, Rests
<1>4. GenerationInv' /\ NoCollectionMissed'
  BY DEF SessionInv, SessionTypes, GenerationInv, NoCollectionMissed
<1> QED BY <1>1, <1>2, <1>3, <1>4 DEF SessionInv

-----------------------------------------------------------------------------
(* What is common to the two ways in which a snapshot begins.              *)
LEMMA ResetInv ==
  ASSUME NEW why \in {"tick", "flush"}, NEW end \in Int,
         SessionInv, Reset(why, end), flushes' \in Nat, tick' \in Int
  PROVE  /\ SessionTypes' /\ PassedInv' /\ BufferInv'
         /\ GenerationInv' /\ NoCollectionMissed'
<1> USE DEF Reset
<1>1. SessionTypes'
  BY DEF SessionInv, SessionTypes, Order
<1>2. PassedInv'
  BY DEF PassedInv, Passed
<1>3. BufferInv' /\ GenerationInv' /\ NoCollectionMissed'
  BY DEF SessionInv, BufferInv, Rests, GenerationInv, NoCollectionMissed
<1> QED BY <1>1, <1>2, <1>3

(* A tick: the window ends when the tick was sent, which is after the      *)
(* previous one's end unless there were flushes.                           *)
LEMMA OnTickInv == ASSUME SessionInv, OnTick PROVE SessionInv'
<1> USE DEF OnTick
<1>1. /\ SessionTypes' /\ PassedInv' /\ BufferInv'
      /\ GenerationInv' /\ NoCollectionMissed'
  BY ResetInv DEF SessionInv, SessionTypes
<1>2. ClockInv'
  BY DEF Reset, SessionInv, SessionTypes, ClockInv
<1>3. TickInv'
  BY DEF Reset, SessionInv, TickInv, Snapshot
<1>4. FlushSkewBounded'
  BY DEF Reset, FlushSkewBounded
<1> QED BY <1>1, <1>2, <1>3, <1>4 DEF SessionInv

(* A flush: the window ends less than one upload rate ago.                 *)
LEMMA OnFlushInv == ASSUME SessionInv, OnFlush PROVE SessionInv'
<1> USE DEF OnFlush
<1>0. /\ truncatedTime(now) \in Int
      /\ truncatedTime(now) <= now
      /\ now - truncatedTime(now) < Rate
  BY TruncatedTime DEF SessionInv, SessionTypes
<1>1. /\ SessionTypes' /\ PassedInv' /\ BufferInv'
      /\ GenerationInv' /\ NoCollectionMissed'
  BY <1>0, ResetInv DEF SessionInv, SessionTypes
<1>2. ClockInv' /\ TickInv' /\ FlushSkewBounded'
  BY <1>0, RateAssumption
  DEF Reset, SessionInv, SessionTypes, ClockInv, TickInv, FlushSkewBounded, Snapshot
<1> QED BY <1>1, <1>2 DEF SessionInv

(* The next window starts where this one ended.                            *)
LEMMA ResetEndInv == ASSUME SessionInv, ResetEnd PROVE SessionInv'
<1> USE DEF ResetEnd, clockVars, dumpVars
<1>1. SessionTypes'
  BY DEF SessionInv, SessionTypes
<1>2. ClockInv' /\ TickInv' /\ FlushSkewBounded'
  BY DEF SessionInv, ClockInv, TickInv, FlushSkewBounded, Snapshot
<1>3. PassedInv' /\ BufferInv'
  BY DEF SessionInv, PassedInv, Passed, BufferInv, Rests
<1>4. GenerationInv' /\ NoCollectionMissed'
  BY DEF SessionInv, GenerationInv, NoCollectionMissed
<1> QED BY <1>1, <1>2, <1>3, <1>4 DEF SessionInv

-----------------------------------------------------------------------------
(* uploadData leaves the clock and the windows alone.                      *)
LEMMA WindowKept ==
  ASSUME SessionInv, pc # "select", pc' # "select",
         UNCHANGED <<now, fires, tick, startTime, from, until, cause, flushes>>
  PROVE  ClockInv' /\ TickInv' /\ FlushSkewBounded'
BY DEF SessionInv, ClockInv, TickInv, FlushSkewBounded, Snapshot

(* A kind that is not enabled is passed over.                              *)
LEMMA NotEnabledInv == ASSUME SessionInv, NotEnabled PROVE SessionInv'
<1> USE DEF NotEnabled, clockVars, windowVars, dumpVars, Order
<1>1. SessionTypes'
  BY DEF SessionInv, SessionTypes
<1>2. ClockInv' /\ TickInv' /\ FlushSkewBounded'
  BY WindowKept
<1>3. PassedInv'
  BY DEF SessionInv, PassedInv, Passed, Aborting, Delta
<1>4. BufferInv' /\ GenerationInv' /\ NoCollectionMissed'
  BY DEF SessionInv, BufferInv, Rests, GenerationInv, NoCollectionMissed
<1> QED BY <1>1, <1>2, <1>3, <1>4 DEF SessionInv

(* So is one the build does not have.                                      *)
LEMMA UnavailableInv == ASSUME SessionInv, Unavailable PROVE SessionInv'
<1> USE DEF Unavailable, clockVars, windowVars, dumpVars, Order, Aborting
<1>1. SessionTypes'
  BY DEF SessionInv, SessionTypes
<1>2. ClockInv' /\ TickInv' /\ FlushSkewBounded'
  BY WindowKept
<1>3. PassedInv'
  BY DEF SessionInv, PassedInv, Passed, Delta
<1>4. BufferInv' /\ GenerationInv' /\ NoCollectionMissed'
  BY DEF SessionInv, BufferInv, Rests, GenerationInv, NoCollectionMissed
<1> QED BY <1>1, <1>2, <1>3, <1>4 DEF SessionInv

(* Goroutine profiles are dumped into an emptied buffer or on top of one   *)
(* that could not be uploaded.                                             *)
LEMMA DumpGoroutinesInv == ASSUME SessionInv, DumpGoroutines PROVE SessionInv'
<1> USE DEF DumpGoroutines, Upload, clockVars, windowVars, Order, Aborting
<1>1. SessionTypes'
  BY DEF SessionInv, SessionTypes
<1>2. ClockInv' /\ TickInv' /\ FlushSkewBounded'
  BY WindowKept
<1>3. PassedInv'
  BY DEF SessionInv, PassedInv, Passed, Delta
<1>4. BufferInv'
  <2> SUFFICES ASSUME NEW k \in Enabled PROVE (spoiled[k] + Rests(k) <= failures[k])'
    BY DEF BufferInv
  <2>1. /\ spoiled[k] \in Nat /\ failures[k] \in Nat /\ bufs[k] \in Nat
        /\ spoiled[k] + Rests(k) <= failures[k]
    BY DEF SessionInv, SessionTypes, BufferInv
  <2>2. CASE k # pc
    <3>1. spoiled'[k] = spoiled[k] /\ bufs'[k] = bufs[k]
      BY <2>2 DEF SessionInv, SessionTypes
    <3> QED BY <2>1, <3>1 DEF Rests
  <2>3. CASE k = pc
    <3>1. bufs'[k] = 0
      BY <2>3 DEF SessionInv, SessionTypes
    <3>2. spoiled'[k] = spoiled[k] + Rests(k)
      BY <2>1, <2>3 DEF SessionInv, SessionTypes, Rests
    <3> QED BY <2>1, <3>1, <3>2 DEF Rests
  <2> QED BY <2>2, <2>3
<1>5. GenerationInv' /\ NoCollectionMissed'
  BY DEF SessionInv, GenerationInv, NoCollectionMissed
<1> QED BY <1>1, <1>2, <1>3, <1>4, <1>5 DEF SessionInv

(* A failed dump is accounted for by failed; in uploadData itself it ends  *)
(* the snapshot, and what it has written stays in the buffer.              *)
LEMMA FailInv == ASSUME SessionInv, Fail PROVE SessionInv'
<1> USE KindAssumption DEF Fail, clockVars, windowVars, Order, Aborting, Delta
<1>1. SessionTypes'
  BY DEF SessionInv, SessionTypes
<1>2. ClockInv' /\ TickInv' /\ FlushSkewBounded'
  BY WindowKept
<1>3. PassedInv'
  BY DEF SessionInv, PassedInv, Passed
<1>4. BufferInv'
  BY DEF SessionInv, SessionTypes, BufferInv, Rests
<1>5. GenerationInv' /\ NoCollectionMissed'
  BY DEF SessionInv, GenerationInv, NoCollectionMissed
<1> QED BY <1>1, <1>2, <1>3, <1>4, <1>5 DEF SessionInv

(* Block and mutex profiles empty their buffer first.                      *)
LEMMA DumpDeltaInv == ASSUME SessionInv, DumpDelta PROVE SessionInv'
<1> USE DEF DumpDelta, Upload, clockVars, windowVars, Order, Aborting
<1>1. SessionTypes'
  BY DEF SessionInv, SessionTypes
<1>2. ClockInv' /\ TickInv' /\ FlushSkewBounded'
  BY WindowKept
<1>3. PassedInv'
  BY DEF SessionInv, PassedInv, Passed, Delta
<1>4. BufferInv'
  BY DEF SessionInv, SessionTypes, BufferInv, Rests
<1>5. GenerationInv' /\ NoCollectionMissed'
  BY DEF SessionInv, GenerationInv, NoCollectionMissed
<1> QED BY <1>1, <1>2, <1>3, <1>4, <1>5 DEF SessionInv

(* No heap profile is taken only if there was no collection and none was   *)
(* to be forced.                                                           *)
LEMMA HeapBeginInv == ASSUME SessionInv, HeapBegin PROVE SessionInv'
<1> USE DEF HeapBegin, windowVars
<1>1. SessionTypes'
  BY DEF SessionInv, SessionTypes
<1>2. ClockInv' /\ TickInv' /\ FlushSkewBounded'
  BY WindowKept
<1>3. PassedInv'
  <2>1. gc' = lastGC => disableGCRuns
    BY DEF SessionInv, SessionTypes
  <2> QED BY <2>1 DEF SessionInv, PassedInv, Passed, Aborting, Delta
<1>4. BufferInv'
  BY DEF SessionInv, BufferInv, Rests
<1>5. GenerationInv' /\ NoCollectionMissed'
  BY <1>1 DEF SessionInv, SessionTypes, GenerationInv, NoCollectionMissed
<1> QED BY <1>1, <1>2, <1>3, <1>4, <1>5 DEF SessionInv

(* The generation remembered was read before the profile.                  *)
LEMMA HeapProfileInv == ASSUME SessionInv, HeapProfile PROVE SessionInv'
<1> USE DEF HeapProfile, Upload, clockVars, windowVars
<1>1. SessionTypes'
  <2>1. bufs' \in [Enabled -> Nat]
    BY DEF SessionInv, SessionTypes
  <2>2. ~(1 > 1)
    OBVIOUS
  <2>3. spoiled' = spoiled
    BY <2>2, Zenon
  <2> QED BY <2>1, <2>3 DEF SessionInv, SessionTypes
<1>2. ClockInv' /\ TickInv' /\ FlushSkewBounded'
  BY WindowKept
<1>3. PassedInv'
  BY DEF SessionInv, PassedInv, Passed, Aborting, Delta
<1>4. BufferInv'
  BY DEF SessionInv, SessionTypes, BufferInv, Rests, Aborting
<1>5. GenerationInv' /\ NoCollectionMissed'
  BY DEF SessionInv, GenerationInv, NoCollectionMissed
<1> QED BY <1>1, <1>2, <1>3, <1>4, <1>5 DEF SessionInv

(* A heap dump that fails ends that kind's part of the snapshot.           *)
LEMMA HeapFailInv == ASSUME SessionInv, HeapFail PROVE SessionInv'
<1> USE DEF HeapFail, clockVars, windowVars
<1>1. SessionTypes'
  <2>1. bufs' \in [Enabled -> Nat]
    BY DEF SessionInv, SessionTypes
  <2> QED BY <2>1 DEF SessionInv, SessionTypes
<1>2. ClockInv' /\ TickInv' /\ FlushSkewBounded'
  BY WindowKept
<1>3. PassedInv'
  BY DEF SessionInv, PassedInv, Passed, Aborting, Delta
<1>4. BufferInv'
  BY DEF SessionInv, SessionTypes, BufferInv, Rests
<1>5. GenerationInv' /\ NoCollectionMissed'
  BY DEF SessionInv, GenerationInv, NoCollectionMissed
<1> QED BY <1>1, <1>2, <1>3, <1>4, <1>5 DEF SessionInv

-----------------------------------------------------------------------------
(* The invariant is inductive.                                             *)
LEMMA SessionNext == SessionInv /\ [Next]_vars => SessionInv'
<1> SUFFICES ASSUME SessionInv, [Next]_vars PROVE SessionInv'
  OBVIOUS
<1>1. CASE UNCHANGED vars
  BY <1>1 DEF vars, SessionInv, SessionTypes, ClockInv, TickInv, FlushSkewBounded, PassedInv,
              Passed, BufferInv, Rests, GenerationInv, NoCollectionMissed, Snapshot
<1>2. CASE Pass \/ Collect
  BY <1>2, PassInv, CollectInv
<1>3. CASE OnTick \/ OnFlush \/ ResetEnd
  BY <1>3, OnTickInv, OnFlushInv, ResetEndInv
<1>4. CASE uploadData
  BY <1>4, NotEnabledInv, UnavailableInv, DumpGoroutinesInv, FailInv, DumpDeltaInv, HeapBeginInv,
     HeapProfileInv, HeapFailInv DEF uploadData
<1> QED BY <1>1, <1>2, <1>3, <1>4 DEF Next, takeSnapshots

(* The inductive invariant always holds.                                   *)
LEMMA SessionAlways == Spec => []SessionInv
BY SessionInit, SessionNext, PTL DEF Spec

(* However late the loop takes a tick and however long its uploads take,   *)
(* the window of a snapshot is not empty as long as nobody flushes, for    *)
(* every upload rate.                                                      *)
THEOREM SessionTickWindows == Spec => []TickWindowsAdvance
<1>1. SessionInv => TickWindowsAdvance
  BY DEF SessionInv, TickInv, TickWindowsAdvance
<1> QED BY <1>1, SessionAlways, PTL

(* The end truncatedTime gives a flush may lie before the start of its     *)
(* window, by less than one upload rate, whatever ticks, flushes and       *)
(* delays went before it.                                                  *)
THEOREM SessionFlushSkew == Spec => []FlushSkewBounded
<1>1. SessionInv => FlushSkewBounded
  BY DEF SessionInv
<1> QED BY <1>1, SessionAlways, PTL

(* For every choice of profile types, in builds with and without the       *)
(* goroutineleak profile, and every sequence of failed dumps, a snapshot   *)
(* leaves out only the kinds the build does not have and those whose own   *)
(* dump failed, unless a dump in uploadData itself failed.                 *)
THEOREM SessionOnlyFailedMissing == Spec => []OnlyFailedMissing
<1>1. SessionInv => OnlyFailedMissing
  BY KindAssumption DEF SessionInv, PassedInv, Passed, OnlyFailedMissing, Finished
<1> QED BY <1>1, SessionAlways, PTL

(* Of every kind at most as many uploads hold the rest of a failed dump as *)
(* dumps have failed, though uploadData empties the goroutine buffers only *)
(* after an upload and leaves them as they are when a dump fails.          *)
THEOREM SessionSpoilsOneUpload == Spec => []SpoilsOneUpload
<1>1. SessionInv => SpoilsOneUpload
  BY DEF SessionInv, SessionTypes, BufferInv, Rests, SpoilsOneUpload
<1> QED BY <1>1, SessionAlways, PTL

(* dumpHeapProfile remembers a generation that the uploaded profile        *)
(* covers, however many collections end while it is taken.                 *)
THEOREM SessionNoCollectionMissed == Spec => []NoCollectionMissed
<1>1. SessionInv => NoCollectionMissed
  BY DEF SessionInv
<1> QED BY <1>1, SessionAlways, PTL
=============================================================================
