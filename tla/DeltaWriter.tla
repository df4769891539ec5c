---------------------------- MODULE DeltaWriter ----------------------------
(***************************************************************************)
(* How the delta heap profiler writes its samples: the loops of            *)
(* WriteHeapProto in godeltaprof/internal/pprof/delta_heap.go over profMap *)
(* and the profile builder.  The entries live as long as the profiler, the *)
(* builder as long as one profile.  What the entries hold, and whether     *)
(* there is a difference to report, are the subject of module Delta.       *)
(***************************************************************************)
EXTENDS ProfMap, ProfileBuilder

CONSTANTS StackOf,      \* the stack of a key
          Runtime,      \* addresses in functions of package runtime
          MaxSamples    \* bound on the number of samples of a profile

(* In a stack an inlined call is followed by what it is inlined in, unless *)
(* the stack ends there.                                                   *)
Linked(s) == \A i \in 1 .. Len(s) - 1 :
               Rest[s[i]] # <<>> => s[i + 1] = Head(Rest[s[i]])

ASSUME StackAssumption == /\ StackOf \in [Keys -> Seq(PCs)]
                          /\ \A k \in Keys : Linked(StackOf[k])

(* An address without frames is in runtime.goexit.                         *)
ASSUME GoexitAssumption == \A p \in PCs : FramesOf[p] = <<>> => p \in Runtime

VARIABLES
  rec,          \* the record at hand
  hideRuntime,
  samples       \* the Sample messages written

writerVars == <<rec, hideRuntime, samples>>
allVars == <<vars, pbVars, writerVars>>

WriterInit == /\ Init /\ PbInit
              /\ rec = NoKey /\ hideRuntime = TRUE /\ samples = <<>>

NewProfile == NewProfileBuilder /\ UNCHANGED <<vars, writerVars>>

(* the loop over the records: d.m.Lookup                                   *)
Record(k) == /\ bpc = "open" /\ rec = NoKey /\ Len(samples) < MaxSamples
             /\ Lookup(k)
             /\ rec' = k
             /\ UNCHANGED <<pbVars, hideRuntime, samples>>

MapStep == /\ Walk \/ Found \/ Add
           /\ UNCHANGED <<pbVars, writerVars>>

Looked == rec # NoKey /\ arg = NoKey

(* first loop, or nothing to report                                        *)
Continue == /\ Looked /\ bpc = "open" /\ hideRuntime
            /\ rec' = NoKey
            /\ UNCHANGED <<vars, pbVars, hideRuntime, samples>>

(* the stack from the first frame on that is not of package runtime        *)
Shown(s) == LET shown == {i \in DOMAIN s : s[i] \notin Runtime}
            IN IF shown = {} THEN s ELSE Drop(s, Min(shown) - 1)

Locate == /\ Looked
          /\ LocsForStack(IF hideRuntime THEN Shown(StackOf[rec]) ELSE StackOf[rec])
          /\ UNCHANGED <<vars, writerVars>>

BuilderStep == Loop /\ UNCHANGED <<vars, writerVars>>

(* try again, and show all frames next time                                *)
Retry == /\ bpc = "located" /\ ids = <<>> /\ hideRuntime
         /\ bpc' = "open"
         /\ hideRuntime' = FALSE
         /\ UNCHANGED <<vars, lazy, mem, cache, funcs, out, deck, stk, ids, rec, samples>>

Sample == /\ bpc = "located" /\ (ids # <<>> \/ ~hideRuntime)
          /\ bpc' = "open"
          /\ samples' = Append(samples, [key |-> rec, locs |-> ids])
          /\ ids' = <<>>
          /\ rec' = NoKey /\ hideRuntime' = TRUE
          /\ UNCHANGED <<vars, lazy, mem, cache, funcs, out, deck, stk>>

EndProfile == /\ rec = NoKey /\ Build
              /\ samples' = <<>>
              /\ UNCHANGED <<vars, rec, hideRuntime>>

WriterNext == \/ NewProfile \/ EndProfile
              \/ \E k \in Keys : Record(k)
              \/ MapStep \/ Continue \/ Locate \/ BuilderStep \/ Retry \/ Sample

WriterSpec == WriterInit /\ [][WriterNext]_allVars

-----------------------------------------------------------------------------
(* Properties.                                                             *)

(* The functions a reader of the profile finds for a sample, by way of its *)
(* location ids, their lines and the function ids of those.                *)
Lines(id) == LET loc == CHOOSE l \in Range(out) : l.id = id
             IN [k \in DOMAIN loc.lines |-> funcs[loc.lines[k]]]
Read(locs) == FlattenSeq([i \in DOMAIN locs |-> Lines(locs[i])])

(* The functions of the key's stack, all of them if it was cut off inside  *)
(* an inlined call, without runtime frames at the leaf.                    *)
Called(k) == LET s == Shown(StackOf[k])
             IN NamesOf(IF s = <<>> THEN s ELSE s \o Rest[Last(s)])

(* Every sample reads as its stack, whatever samples were written before   *)
(* it and whatever they left in the cache and in the deck.                 *)
SamplesReadAsStacks ==
  \A i \in DOMAIN samples : Read(samples[i].locs) = Called(samples[i].key)
=============================================================================
