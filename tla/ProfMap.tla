------------------------------ MODULE ProfMap ------------------------------
(***************************************************************************)
(* The map from stacks to entries of the delta profilers:                  *)
(* godeltaprof/internal/pprof/map.go.                                      *)
(*                                                                         *)
(* Lookup walks the list of the entries with the same hash, moves the one  *)
(* it finds to the front of the list by relinking it, or puts a new entry  *)
(* in front.  The caller keeps totals in the entry: an entry that got lost *)
(* or doubled would make a delta profile report everything again.  A key   *)
(* is a stack and a tag; entries are numbered in the order in which they   *)
(* are cut off the free slice.                                             *)
(***************************************************************************)
EXTENDS Integers, FiniteSets

CONSTANTS Keys, Hashes, HashOf      \* HashOf: keys may collide

ASSUME HashAssumption == HashOf \in [Keys -> Hashes] /\ IsFiniteSet(Keys)

Entries == 1 .. Cardinality(Keys)
Nil == 0

VARIABLES
  hash,           \* m.hash: the first entry of each list
  next, key,      \* e.nextHash, and e.stk with e.tag
  used,           \* how many entries were cut off m.free
  arg, e, last,   \* the Lookup in progress
  owner           \* history: the entry Lookup returned for a key

vars == <<hash, next, key, used, arg, e, last, owner>>

NoKey == "none"

ASSUME NoKeyAssumption == NoKey \notin Keys

Init == /\ hash = [h \in Hashes |-> Nil]
        /\ next = [n \in Entries |-> Nil]
        /\ key = [n \in Entries |-> NoKey]
        /\ used = 0
        /\ arg = NoKey /\ e = Nil /\ last = Nil
        /\ owner = [k \in Keys |-> Nil]

Lookup(k) == /\ arg = NoKey
             /\ arg' = k /\ e' = hash[HashOf[k]] /\ last' = Nil
             /\ UNCHANGED <<hash, next, key, used, owner>>

(* continue Search                                                         *)
Walk == /\ arg # NoKey /\ e # Nil /\ key[e] # arg
        /\ last' = e /\ e' = next[e]
        /\ UNCHANGED <<hash, next, key, used, arg, owner>>

Return(n) == /\ owner' = [owner EXCEPT ![arg] = n]
             /\ arg' = NoKey /\ e' = Nil /\ last' = Nil

(* the entry before is not linked to the one after                         *)
BadFound == /\ arg # NoKey /\ e # Nil /\ key[e] = arg
            /\ IF last # Nil
               THEN /\ next' = [next EXCEPT ![e] = hash[HashOf[arg]]]
                    /\ hash' = [hash EXCEPT ![HashOf[arg]] = e]
               ELSE UNCHANGED <<hash, next>>
            /\ Return(e)
            /\ UNCHANGED <<key, used>>

(* the entry is found, and moved to the front                              *)
Found == /\ arg # NoKey /\ e # Nil /\ key[e] = arg
         /\ IF last # Nil
            THEN /\ next' = [next EXCEPT ![last] = next[e], ![e] = hash[HashOf[arg]]]
                 /\ hash' = [hash EXCEPT ![HashOf[arg]] = e]
            ELSE UNCHANGED <<hash, next>>
         /\ Return(e)
         /\ UNCHANGED <<key, used>>

(* the new entry is not linked to the list                                 *)
BadAdd == /\ arg # NoKey /\ e = Nil
          /\ used' = used + 1
          /\ UNCHANGED next
          /\ key' = [key EXCEPT ![used'] = arg]
          /\ hash' = [hash EXCEPT ![HashOf[arg]] = used']
          /\ Return(used')

(* Add a new entry.                                                        *)
Add == /\ arg # NoKey /\ e = Nil
       /\ used' = used + 1
       /\ next' = [next EXCEPT ![used'] = hash[HashOf[arg]]]
       /\ key' = [key EXCEPT ![used'] = arg]
       /\ hash' = [hash EXCEPT ![HashOf[arg]] = used']
       /\ Return(used')

-----------------------------------------------------------------------------
(* Properties.                                                             *)

(* Where n steps from the head of list h lead.                             *)
At(h, n) == LET at[i \in 0 .. n] ==
                  IF i = 0 THEN hash[h]
                  ELSE IF at[i - 1] = Nil THEN Nil ELSE next[at[i - 1]]
            IN at[n]

OnList(h) == {At(h, n) : n \in 0 .. Cardinality(Keys)} \ {Nil}

(* Each list ends, and holds exactly the entries of its hash, also while a *)
(* Lookup walks it: relinking loses no entry and makes no cycle.           *)
ListsIntact ==
  \A h \in Hashes :
    /\ At(h, Cardinality(Keys)) = Nil
    /\ OnList(h) = {n \in 1 .. used : HashOf[key[n]] = h}

(* Lookup returns the same entry for the same key for ever, so that the    *)
(* previous totals are found again.                                        *)
SameEntry == [][\A k \in Keys : owner[k] # Nil => owner'[k] = owner[k]]_vars
=============================================================================
