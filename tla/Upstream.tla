------------------------------ MODULE Upstream ------------------------------
(***************************************************************************)
(* What an upstream promises the profilers that use it.  Session and       *)
(* cpuProfileCollector know only the interface upstream.Upstream: Upload   *)
(* and Flush.  An uploaded job is taken over or dropped, a job taken over  *)
(* is attempted at most once, and a Flush returns only when every job      *)
(* taken over before it has been attempted.  Remote implements this.       *)
(***************************************************************************)
EXTENDS FiniteSets

CONSTANTS Flushers,     \* goroutines that call Flush
          Jobs          \* the upload jobs

VARIABLES phase,        \* what became of a job: new, accepted, dropped, tried
          flushing,     \* flushing[f]: f is inside Flush
          pending       \* pending[f]: the jobs that Flush waits for

uVars == <<phase, flushing, pending>>

UInit == /\ phase = [j \in Jobs |-> "new"]
         /\ flushing = [f \in Flushers |-> FALSE]
         /\ pending = [f \in Flushers |-> {}]

(* Upload hands a job over, or drops it when there is no room for it.      *)
Accept(j) == /\ phase[j] = "new"
             /\ phase' = [phase EXCEPT ![j] = "accepted"]
             /\ UNCHANGED <<flushing, pending>>

Drop(j) == /\ phase[j] = "new"
           /\ phase' = [phase EXCEPT ![j] = "dropped"]
           /\ UNCHANGED <<flushing, pending>>

(* The one attempt to deliver a job, successful or not.                    *)
Try(j) == /\ phase[j] = "accepted"
          /\ phase' = [phase EXCEPT ![j] = "tried"]
          /\ UNCHANGED <<flushing, pending>>

BeginFlush(f) == /\ ~flushing[f]
                 /\ flushing' = [flushing EXCEPT ![f] = TRUE]
                 /\ pending' = [pending EXCEPT ![f] =
                                   {j \in Jobs : phase[j] \in {"accepted", "tried"}}]
                 /\ UNCHANGED phase

EndFlush(f) == /\ flushing[f]
               /\ \A j \in pending[f] : phase[j] = "tried"
               /\ flushing' = [flushing EXCEPT ![f] = FALSE]
               /\ pending' = [pending EXCEPT ![f] = {}]
               /\ UNCHANGED phase

UNext == \/ \E j \in Jobs : Accept(j) \/ Drop(j) \/ Try(j)
         \/ \E f \in Flushers : BeginFlush(f) \/ EndFlush(f)

USpec == UInit /\ [][UNext]_uVars
=============================================================================
