------------------------- MODULE DeltaWriterProofs -------------------------
(***************************************************************************)
(* Proofs about the map of the delta profilers and about the profile       *)
(* builder, under the loop that writes the samples of a heap profile.      *)
(***************************************************************************)
EXTENDS DeltaWriter, SequenceFacts, FiniteSetTheorems

-----------------------------------------------------------------------------
(* The map.                                                                *)

N == Cardinality(Keys)

(* The entries of a hash.                                                  *)
List(h) == {n \in 1 .. used : HashOf[key[n]] = h}

MapTypes ==
  /\ hash \in [Hashes -> 0 .. N] /\ next \in [Entries -> 0 .. N]
  /\ key \in [Entries -> Keys \cup {NoKey}] /\ used \in 0 .. N
  /\ arg \in Keys \cup {NoKey}
  /\ owner \in [Keys -> 0 .. N]
  /\ e \in 0 .. N /\ last \in 0 .. N

(* Every entry has a key of its own, and is the one Lookup returned.       *)
KeysInv ==
  /\ \A n \in 1 .. used : key[n] \in Keys
  /\ \A m, n \in 1 .. used : key[m] = key[n] => m = n
  /\ \A k \in Keys : owner[k] # Nil => owner[k] \in 1 .. used /\ key[owner[k]] = k

(* pos puts the entries of each list in order: the head is the first, and  *)
(* nextHash leads to the next one or, from the last, nowhere.              *)
First(pos, h) ==
  \/ hash[h] = Nil /\ List(h) = {}
  \/ hash[h] \in List(h) /\ \A n \in List(h) : pos[hash[h]] <= pos[n]

After(pos, h, n) ==
  \/ next[n] = Nil /\ \A m \in List(h) : pos[m] <= pos[n]
  \/ /\ next[n] \in List(h) /\ pos[n] < pos[next[n]]
     /\ \A m \in List(h) : pos[m] <= pos[n] \/ pos[next[n]] <= pos[m]

Ordered(pos, h) ==
  /\ First(pos, h)
  /\ \A n \in List(h) : After(pos, h, n)
  /\ \A m, n \in List(h) : pos[m] = pos[n] => m = n

(* A Lookup in progress has not passed the entry it looks for.             *)
Search(pos) ==
  arg # NoKey =>
    LET h == HashOf[arg] IN
    /\ e = Nil \/ e \in List(h)
    /\ last # Nil => last \in List(h) /\ next[last] = e
    /\ \A n \in List(h) : key[n] = arg => e # Nil /\ pos[e] <= pos[n]

Sorted(pos) == (\A h \in Hashes : Ordered(pos, h)) /\ Search(pos)

MapInv == MapTypes /\ KeysInv /\ \E pos \in [Entries -> Int] : Sorted(pos)

(* The entries are the numbers from 1, and nil is none of them.            *)
LEMMA Sizes == N \in Nat /\ Entries = 1 .. N /\ Nil = 0 /\ Nil \notin Entries
BY HashAssumption, FS_CardinalityType DEF N, Entries, Nil

(* An entry with the key looked up is on the list of its hash.             *)
LEMMA Listed ==
  ASSUME MapTypes, KeysInv
  PROVE  /\ \A h : List(h) \subseteq Entries
         /\ \A n \in 1 .. used : n \in List(HashOf[key[n]]) /\ HashOf[key[n]] \in Hashes
         /\ arg # NoKey => HashOf[arg] \in Hashes
BY Sizes, HashAssumption DEF MapTypes, KeysInv, List

(* An empty map has empty lists.                                           *)
LEMMA MapInit == Init => MapInv
<1> SUFFICES ASSUME Init PROVE MapInv
  OBVIOUS
<1>1. MapTypes /\ KeysInv
  BY Sizes DEF Init, MapTypes, KeysInv
<1>2. \A h : List(h) = {}
  BY DEF Init, List
<1>3. [n \in Entries |-> 0] \in [Entries -> Int]
  OBVIOUS
<1>4. \A pos : Sorted(pos)
  BY <1>2 DEF Init, Sorted, Ordered, First, After, Search
<1> QED BY <1>1, <1>3, <1>4 DEF MapInv

(* A Lookup starts at the head of the list of its key.                     *)
LEMMA LookupStep ==
  ASSUME MapInv, NEW k \in Keys, Lookup(k) PROVE MapInv'
<1>1. MapTypes' /\ KeysInv'
  BY Sizes, HashAssumption DEF MapInv, Lookup, MapTypes, KeysInv
<1>2. PICK pos \in [Entries -> Int] : Sorted(pos)
  BY DEF MapInv
<1>3. \A h : (List(h)' = List(h)) /\ (Ordered(pos, h)' <=> Ordered(pos, h))
  BY DEF Lookup, List, Ordered, First, After
<1>4. Search(pos)'
  <2>1. HashOf[k] \in Hashes /\ List(HashOf[k]) \subseteq Entries
    BY HashAssumption, Listed DEF MapInv
  <2>2. First(pos, HashOf[k])
    BY <1>2, <2>1 DEF Sorted, Ordered
  <2> QED BY <1>3, <2>1, <2>2, Sizes DEF Lookup, Search, First
<1> QED BY <1>1, <1>2, <1>3, <1>4 DEF MapInv, Sorted

(* It walks on: the entry it looks for, if there is one, is behind the one *)
(* it has passed.                                                          *)
LEMMA WalkStep ==
  ASSUME MapInv, Walk PROVE MapInv'
<1>1. PICK pos \in [Entries -> Int] : Sorted(pos)
  BY DEF MapInv
<1>2. \A h : (List(h)' = List(h)) /\ (Ordered(pos, h)' <=> Ordered(pos, h))
  BY DEF Walk, List, Ordered, First, After
<1> DEFINE h == HashOf[arg]
<1>3. h \in Hashes /\ e \in List(h) /\ List(h) \subseteq Entries
  BY <1>1, Listed DEF Walk, MapInv, Search, Sorted
<1>4. After(pos, h, e)
  BY <1>1, <1>3 DEF Sorted, Ordered
<1>5. MapTypes' /\ KeysInv'
  BY <1>3, Sizes DEF MapInv, Walk, MapTypes, KeysInv
<1>6. Search(pos)'
  <2>1. ASSUME NEW n \in List(h), key[n] = arg PROVE next[e] # Nil /\ pos[next[e]] <= pos[n]
    <3>1. pos[e] <= pos[n] /\ n # e
      BY <1>1, <2>1 DEF Walk, Search, Sorted
    <3>2. pos[e] # pos[n]
      BY <1>1, <1>3, <3>1 DEF Sorted, Ordered
    <3> QED BY <1>3, <1>4, <3>1, <3>2, Sizes DEF After
  <2>2. next[e] = Nil \/ next[e] \in List(h)
    BY <1>4 DEF After
  <2> QED BY <1>2, <1>3, <2>1, <2>2 DEF Walk, Search
<1> QED BY <1>1, <1>2, <1>5, <1>6 DEF MapInv, Sorted

(* Found without relinking: only who owns the entry is new.                *)
LEMMA FoundFirst ==
  ASSUME MapInv, Found, last = Nil PROVE MapInv'
<1>1. PICK pos \in [Entries -> Int] : Sorted(pos)
  BY DEF MapInv
<1>2. \A h : (List(h)' = List(h)) /\ (Ordered(pos, h)' <=> Ordered(pos, h))
  BY DEF Found, List, Ordered, First, After
<1>3. e \in List(HashOf[arg]) /\ arg \in Keys
  BY <1>1 DEF Found, MapInv, MapTypes, Search, Sorted
<1>4. MapTypes'
  BY <1>3, Sizes DEF MapInv, MapTypes, Found, Return
<1>5. KeysInv'
  BY <1>3 DEF MapInv, MapTypes, KeysInv, Found, Return, List
<1>6. Search(pos)'
  BY DEF Found, Return, Search
<1> QED BY <1>1, <1>2, <1>4, <1>5, <1>6 DEF MapInv, Sorted

(* Found with relinking: the entry goes from behind last to the front.     *)
LEMMA FoundMoves ==
  ASSUME MapInv, Found, last # Nil PROVE MapInv'
<1>1. PICK pos \in [Entries -> Int] : Sorted(pos)
  BY DEF MapInv
<1>2. \A g : List(g)' = List(g)
  BY DEF Found, List
<1>3. PICK h \in Hashes, x \in Entries, p \in Entries :
        /\ x \in List(h) /\ p \in List(h)
        /\ h = HashOf[arg] /\ x = e /\ p = last /\ next[p] = x
        /\ arg \in Keys /\ List(h) \subseteq Entries /\ Nil \notin Entries
  BY <1>1, Listed, Sizes DEF Found, MapInv, MapTypes, Search, Sorted
<1>4. /\ Ordered(pos, h) /\ After(pos, h, p) /\ After(pos, h, x) /\ First(pos, h)
  BY <1>1, <1>3 DEF Sorted, Ordered
<1>5. /\ hash[h] \in List(h) /\ \A n \in List(h) : pos[hash[h]] <= pos[n]
      /\ pos[p] < pos[x] /\ \A n \in List(h) : pos[n] <= pos[p] \/ pos[x] <= pos[n]
  BY <1>3, <1>4 DEF First, After
<1>6. hash[h] # x /\ p # x
  BY <1>3, <1>5
<1>7. /\ next' = [next EXCEPT ![p] = next[x], ![x] = hash[h]]
      /\ hash' = [hash EXCEPT ![h] = x]
  BY <1>3 DEF Found
<1>8. MapTypes'
  <2>1. next' \in [Entries -> 0 .. N] /\ hash' \in [Hashes -> 0 .. N]
    BY <1>3, <1>5, <1>7, Sizes DEF MapInv, MapTypes
  <2>2. owner' \in [Keys -> 0 .. N]
    BY <1>3, Sizes DEF MapInv, MapTypes, Found, Return
  <2>3. UNCHANGED <<key, used>> /\ arg' = NoKey /\ e' = Nil /\ last' = Nil
    BY DEF Found, Return
  <2> QED BY <2>1, <2>2, <2>3, Sizes DEF MapInv, MapTypes
<1>9. KeysInv'
  BY <1>3 DEF MapInv, MapTypes, KeysInv, Found, Return, List
<1>10. PICK new \in [Entries -> Int] :
         /\ new[x] = pos[hash[h]] - 1
         /\ \A n \in Entries : n # x => new[n] = pos[n]
         /\ \A n \in List(h) : n # x => new[x] < new[n]
  <2> DEFINE new == [pos EXCEPT ![x] = pos[hash[h]] - 1]
  <2>1. /\ new \in [Entries -> Int] /\ new[x] = pos[hash[h]] - 1
        /\ \A n \in Entries : n # x => new[n] = pos[n]
    BY <1>3, <1>5
  <2> HIDE DEF new
  <2> QED BY <1>3, <1>5, <2>1
<1>11. /\ next'[p] = next[x] /\ next'[x] = hash[h] /\ hash'[h] = x
       /\ \A n \in Entries : n # p /\ n # x => next'[n] = next[n]
       /\ \A g \in Hashes : g # h => hash'[g] = hash[g]
  BY <1>3, <1>6, <1>7, Sizes DEF MapInv, MapTypes
<1>12. ASSUME NEW g \in Hashes, g # h PROVE Ordered(new, g)'
  <2>1. \A n \in List(g) : n # x /\ n # p /\ n \in Entries
    BY <1>3, <1>12, Listed DEF List, MapInv
  <2>2. Ordered(pos, g)
    BY <1>1 DEF Sorted
  <2>3. \A n \in List(g) : new[n] = pos[n] /\ next'[n] = next[n]
    BY <2>1, <1>10, <1>11
  <2>4. First(new, g)'
    BY <1>2, <1>11, <1>12, <2>2, <2>3 DEF First, Ordered
  <2>5. ASSUME NEW n \in List(g) PROVE After(new, g, n)'
    <3>1. After(pos, g, n)
      BY <2>2, <2>5 DEF Ordered
    <3> QED BY <1>2, <2>3, <3>1 DEF After
  <2> QED BY <1>2, <2>2, <2>3, <2>4, <2>5 DEF Ordered
<1>13. Ordered(new, h)'
  <2>1. First(new, h)'
    BY <1>2, <1>3, <1>10, <1>11 DEF First
  <2>2. After(new, h, x)'
    <3>1. \A n \in List(h) : n # x => new[hash[h]] <= new[n]
      BY <1>3, <1>5, <1>6, <1>10
    <3>2. new[x] < new[hash[h]] /\ \A n \in List(h) : new[n] <= new[x] \/ new[hash[h]] <= new[n]
      BY <1>3, <1>5, <1>6, <1>10, <3>1
    <3> QED BY <1>2, <1>5, <1>11, <3>2 DEF After
  <2>3. After(new, h, p)'
    <3>1. CASE next[x] = Nil
      <4>1. \A n \in List(h) : new[n] <= new[p]
        BY <1>3, <1>4, <1>5, <1>6, <1>10, <3>1 DEF After, Ordered
      <4> QED BY <1>2, <1>11, <3>1, <4>1 DEF After
    <3>2. CASE next[x] # Nil
      <4>1. next[x] \in List(h) /\ pos[x] < pos[next[x]]
            /\ \A n \in List(h) : pos[n] <= pos[x] \/ pos[next[x]] <= pos[n]
        BY <1>4, <3>2 DEF After
      <4>2. new[p] < new[next[x]]
        BY <1>3, <1>5, <1>6, <1>10, <4>1
      <4>3. ASSUME NEW n \in List(h) PROVE new[n] <= new[p] \/ new[next[x]] <= new[n]
        <5>1. CASE n = x
          BY <1>3, <1>6, <1>10, <5>1
        <5>2. CASE n # x
          <6>1. pos[n] # pos[x]
            BY <1>3, <1>4, <5>2 DEF Ordered
          <6> QED BY <1>3, <1>5, <1>6, <1>10, <4>1, <5>2, <6>1
        <5> QED BY <5>1, <5>2
      <4> QED BY <1>2, <1>11, <4>1, <4>2, <4>3 DEF After
    <3> QED BY <3>1, <3>2
  <2>4. ASSUME NEW n \in List(h), n # x, n # p PROVE After(new, h, n)'
    <3>1. After(pos, h, n) /\ next'[n] = next[n] /\ new[n] = pos[n] /\ n \in Entries
      BY <1>3, <1>4, <1>10, <1>11, <2>4 DEF Ordered
    <3>2. next[n] # x
      <4> SUFFICES ASSUME next[n] = x PROVE FALSE
        OBVIOUS
      <4>1. pos[n] < pos[x] /\ (pos[p] <= pos[n] \/ pos[x] <= pos[p])
        BY <1>3, <3>1 DEF After
      <4>2. pos[n] = pos[p]
        BY <1>3, <1>5, <3>1, <4>1
      <4> QED BY <1>3, <1>4, <2>4, <4>2 DEF Ordered
    <3>3. CASE next[n] = Nil
      <4>1. \A m \in List(h) : new[m] <= new[n]
        BY <1>3, <1>5, <1>10, <2>4, <3>1, <3>3 DEF After
      <4> QED BY <1>2, <3>1, <3>3, <4>1 DEF After
    <3>4. CASE next[n] # Nil
      <4>1. next[n] \in List(h) /\ pos[n] < pos[next[n]]
            /\ \A m \in List(h) : pos[m] <= pos[n] \/ pos[next[n]] <= pos[m]
        BY <3>1, <3>4 DEF After
      <4>2. new[next[n]] = pos[next[n]]
        BY <1>3, <1>10, <3>2, <4>1
      <4>3. \A m \in List(h) : new[m] <= new[n] \/ new[next[n]] <= new[m]
        BY <1>3, <1>10, <2>4, <3>1, <4>1, <4>2
      <4> QED BY <1>2, <3>1, <4>1, <4>2, <4>3 DEF After
    <3> QED BY <3>3, <3>4
  <2>5. \A m, n \in List(h) : new[m] = new[n] => m = n
    BY <1>3, <1>4, <1>10 DEF Ordered
  <2> QED BY <1>2, <2>1, <2>2, <2>3, <2>4, <2>5 DEF Ordered
<1>14. Search(new)'
  BY DEF Found, Return, Search
<1> QED BY <1>8, <1>9, <1>10, <1>12, <1>13, <1>14 DEF MapInv, Sorted

(* There is room for a new entry: every entry in use has a key of its own  *)
(* that is not the one looked up.                                          *)
LEMMA Room ==
  ASSUME MapInv, Add PROVE used + 1 \in Entries
<1>1. PICK pos \in [Entries -> Int] : Sorted(pos)
  BY DEF MapInv
<1>2. arg \in Keys /\ used \in Nat /\ used <= N
  BY Sizes DEF Add, MapInv, MapTypes
<1>3. \A n \in 1 .. used : key[n] \in Keys \ {arg}
  BY <1>1, <1>2, Listed DEF Add, Search, Sorted, MapInv, KeysInv, List
<1> DEFINE f == [n \in 1 .. used |-> key[n]]
<1>4. f \in Injection(1 .. used, Keys \ {arg})
  <2>1. f \in [1 .. used -> Keys \ {arg}]
    BY <1>3
  <2>2. \A m, n \in 1 .. used : f[m] = f[n] => m = n
    BY DEF MapInv, KeysInv
  <2> QED BY <2>1, <2>2 DEF Injection, IsInjective
<1>5. IsFiniteSet(Keys \ {arg}) /\ Cardinality(Keys \ {arg}) = N - 1
  BY <1>2, HashAssumption, FS_RemoveElement DEF N
<1>6. Cardinality(1 .. used) = used
  BY <1>2, FS_Interval
<1>7. Cardinality(1 .. used) <= N - 1
  <2> HIDE DEF f
  <2> QED BY <1>4, <1>5, FS_Injection
<1> QED BY <1>2, <1>6, <1>7, Sizes

(* A new entry goes in front of its list, which has none with its key.     *)
LEMMA AddStep ==
  ASSUME MapInv, Add PROVE MapInv'
<1>1. PICK pos \in [Entries -> Int] : Sorted(pos)
  BY DEF MapInv
<1>2. PICK h \in Hashes, x \in Entries :
        h = HashOf[arg] /\ x = used + 1 /\ arg \in Keys
  BY <1>1, Listed, Room DEF Add, MapInv, MapTypes
<1>3. /\ used' = x
      /\ next' = [next EXCEPT ![x] = hash[h]]
      /\ key' = [key EXCEPT ![x] = arg]
      /\ hash' = [hash EXCEPT ![h] = x]
      /\ owner' = [owner EXCEPT ![arg] = x]
      /\ arg' = NoKey /\ e' = Nil /\ last' = Nil
  BY <1>2 DEF Add, Return
<1>4. x \in 1 .. N /\ used \in 0 .. N /\ 1 .. x = (1 .. used) \cup {x} /\ x \notin 1 .. used
  <2>1. x \in 1 .. N /\ used \in 0 .. N
    BY <1>2, Sizes DEF MapInv, MapTypes
  <2> QED BY <1>2, <2>1, Sizes
<1>5. MapTypes'
  BY <1>2, <1>3, <1>4, Sizes DEF MapInv, MapTypes
<1>6. \A n \in 1 .. used : key'[n] = key[n] /\ key[n] # arg /\ n \in Entries /\ n # x
  <2>1. \A n \in 1 .. used : key[n] # arg
    BY <1>1, <1>2, Listed DEF Add, Search, Sorted, MapInv, KeysInv, List
  <2> QED BY <1>3, <1>4, <2>1, Sizes DEF MapInv, MapTypes
<1>7. key'[x] = arg
  BY <1>2, <1>3 DEF MapInv, MapTypes
<1>8. KeysInv'
  <2>1. \A n \in 1 .. used' : key'[n] \in Keys
    BY <1>2, <1>3, <1>4, <1>6, <1>7 DEF MapInv, KeysInv
  <2>2. \A m, n \in 1 .. used' : key'[m] = key'[n] => m = n
    BY <1>3, <1>4, <1>6, <1>7 DEF MapInv, KeysInv
  <2>3. ASSUME NEW k \in Keys, owner'[k] # Nil
        PROVE  owner'[k] \in 1 .. used' /\ key'[owner'[k]] = k
    BY <1>2, <1>3, <1>4, <1>6, <1>7, <2>3 DEF MapInv, MapTypes, KeysInv
  <2> QED BY <2>1, <2>2, <2>3 DEF KeysInv
<1>9. /\ List(h)' = List(h) \cup {x} /\ x \notin List(h)
      /\ \A g : g # h => List(g)' = List(g)
      /\ \A g : List(g) \subseteq Entries /\ x \notin List(g)
  BY <1>2, <1>3, <1>4, <1>6, <1>7 DEF List
<1>10. /\ next'[x] = hash[h] /\ hash'[h] = x
       /\ \A n \in Entries : n # x => next'[n] = next[n]
       /\ \A g \in Hashes : g # h => hash'[g] = hash[g]
  BY <1>2, <1>3 DEF MapInv, MapTypes
<1>11. PICK new \in [Entries -> Int] :
         /\ \A n \in Entries : n # x => new[n] = pos[n]
         /\ \A n \in List(h) : new[x] < new[n]
  <2> DEFINE at == IF hash[h] = Nil THEN 0 ELSE pos[hash[h]] - 1
             new == [pos EXCEPT ![x] = at]
  <2>1. First(pos, h)
    BY <1>1 DEF Sorted, Ordered
  <2>2. at \in Int /\ \A n \in List(h) : at < pos[n]
    BY <1>9, <2>1, Sizes DEF First
  <2> HIDE DEF at
  <2>3. /\ new \in [Entries -> Int] /\ new[x] = at
        /\ \A n \in Entries : n # x => new[n] = pos[n]
    BY <2>2
  <2> HIDE DEF new
  <2> QED BY <1>9, <2>2, <2>3
<1>12. ASSUME NEW g \in Hashes, g # h PROVE Ordered(new, g)'
  <2>1. Ordered(pos, g)
    BY <1>1 DEF Sorted
  <2>2. List(g)' = List(g) /\ \A n \in List(g) : new[n] = pos[n] /\ next'[n] = next[n]
    BY <1>9, <1>10, <1>11, <1>12
  <2>3. First(new, g)'
    BY <1>10, <1>12, <2>1, <2>2 DEF First, Ordered
  <2>4. ASSUME NEW n \in List(g) PROVE After(new, g, n)'
    <3>1. After(pos, g, n)
      BY <2>1 DEF Ordered
    <3> QED BY <2>2, <3>1 DEF After
  <2> QED BY <2>1, <2>2, <2>3, <2>4 DEF Ordered
<1>13. Ordered(new, h)'
  <2>1. Ordered(pos, h) /\ First(pos, h)
    BY <1>1 DEF Sorted, Ordered
  <2>2. \A n \in List(h) : new[n] = pos[n] /\ next'[n] = next[n] /\ new[x] < new[n]
    BY <1>9, <1>10, <1>11
  <2>3. First(new, h)'
    BY <1>9, <1>10, <2>2 DEF First
  <2>4. After(new, h, x)'
    BY <1>9, <1>10, <2>1, <2>2 DEF First, After
  <2>5. ASSUME NEW n \in List(h) PROVE After(new, h, n)'
    <3>1. After(pos, h, n)
      BY <2>1 DEF Ordered
    <3> QED BY <1>9, <2>2, <3>1 DEF After
  <2> QED BY <1>9, <2>1, <2>2, <2>3, <2>4, <2>5 DEF Ordered
<1>14. Search(new)'
  BY <1>3 DEF Search
<1> QED BY <1>5, <1>8, <1>12, <1>13, <1>14 DEF MapInv, Sorted

(* The rest of the writer leaves the map alone.                            *)
LEMMA MapStutter ==
  ASSUME MapInv, UNCHANGED vars PROVE MapInv'
<1>1. MapTypes' /\ KeysInv'
  BY DEF MapInv, vars, MapTypes, KeysInv
<1>2. PICK pos \in [Entries -> Int] : Sorted(pos)
  BY DEF MapInv
<1>3. \A h : List(h)' = List(h)
  BY DEF vars, List
<1>4. Sorted(pos)'
  BY <1>2, <1>3 DEF vars, Sorted, Ordered, First, After, Search
<1> QED BY <1>1, <1>2, <1>4 DEF MapInv

(* Whatever the writer does, the map sees a step of Lookup or nothing.     *)
LEMMA MapSteps ==
  ASSUME [WriterNext]_allVars
  PROVE  Walk \/ Found \/ Add \/ UNCHANGED vars \/ \E k \in Keys : Lookup(k)
BY DEF WriterNext, allVars, NewProfile, EndProfile, Record, MapStep, Continue, Locate,
       BuilderStep, Retry, Sample

(* The invariant of the map is inductive.                                  *)
LEMMA MapNext == ASSUME MapInv, [WriterNext]_allVars PROVE MapInv'
BY MapSteps, WalkStep, FoundFirst, FoundMoves, AddStep, LookupStep, MapStutter

(* It always holds.                                                        *)
LEMMA MapInvariant == WriterSpec => []MapInv
<1>1. WriterInit => MapInv
  BY MapInit DEF WriterInit
<1> QED BY <1>1, MapNext, PTL DEF WriterSpec

(* Lookup never returns another entry for a key it has returned one for:   *)
(* the entry found has the key, and a new one is made only if no entry     *)
(* has it.                                                                 *)
THEOREM MapSameEntry == WriterSpec => SameEntry
<1>1. ASSUME MapInv, [WriterNext]_allVars, NEW k \in Keys, owner[k] # Nil
      PROVE  owner'[k] = owner[k]
  <2>1. owner[k] \in 1 .. used /\ key[owner[k]] = k
    BY <1>1 DEF MapInv, KeysInv
  <2>2. PICK pos \in [Entries -> Int] : Sorted(pos)
    BY <1>1 DEF MapInv
  <2>3. CASE Found
    <3>1. e \in 1 .. used
      BY <2>2, <2>3 DEF Found, Search, Sorted, List
    <3>2. arg = k => e = owner[k]
      BY <1>1, <2>1, <2>3, <3>1 DEF Found, MapInv, KeysInv
    <3> QED BY <1>1, <2>3, <3>2 DEF Found, Return, MapInv, MapTypes
  <2>4. CASE Add
    <3>1. arg # k
      BY <1>1, <2>1, <2>2, <2>4, Listed DEF Add, Search, Sorted, List, MapInv
    <3> QED BY <1>1, <2>4, <3>1 DEF Add, Return, MapInv, MapTypes
  <2>5. CASE Walk \/ UNCHANGED vars \/ \E l \in Keys : Lookup(l)
    BY <2>5 DEF Walk, Lookup, vars
  <2> QED BY <1>1, <2>3, <2>4, <2>5, MapSteps
<1>2. MapInv /\ [WriterNext]_allVars
        => [\A k \in Keys : owner[k] # Nil => owner'[k] = owner[k]]_vars
  BY <1>1
<1> QED BY MapInvariant, <1>2, PTL DEF WriterSpec, SameEntry

(* The walk of At: from the head along nextHash.                           *)
Step(x) == IF x = Nil THEN Nil ELSE next[x]

IsWalk(f, h, n) ==
  f = [i \in 0 .. n |-> IF i = 0 THEN hash[h]
                        ELSE IF f[i - 1] = Nil THEN Nil ELSE next[f[i - 1]]]

(* The recursive definition in At has a solution, for any number of steps. *)
LEMMA WalkExists ==
  ASSUME NEW h PROVE \A n \in Nat : \E f : IsWalk(f, h, n)
<1> DEFINE T == {n \in Nat : \E f : IsWalk(f, h, n)}
<1>1. 0 \in T
  <2>1. IsWalk([i \in 0 .. 0 |-> hash[h]], h, 0)
    BY DEF IsWalk
  <2> QED BY <2>1
<1>2. ASSUME NEW n \in Nat, n \in T PROVE n + 1 \in T
  <2>1. PICK f : IsWalk(f, h, n)
    BY <1>2
  <2> DEFINE g == [i \in 0 .. n + 1 |-> IF i = n + 1 THEN Step(f[n]) ELSE f[i]]
  <2>2. \A i \in 0 .. n : g[i] = f[i]
    OBVIOUS
  <2>3. g[n + 1] = Step(f[n]) /\ DOMAIN g = 0 .. n + 1
    OBVIOUS
  <2>4. \A i \in 0 .. n : f[i] = IF i = 0 THEN hash[h]
                                 ELSE IF f[i - 1] = Nil THEN Nil ELSE next[f[i - 1]]
    BY <2>1 DEF IsWalk
  <2>5. \A i \in 0 .. n + 1 : g[i] = IF i = 0 THEN hash[h]
                                     ELSE IF g[i - 1] = Nil THEN Nil ELSE next[g[i - 1]]
    <3> TAKE i \in 0 .. n + 1
    <3> HIDE DEF g
    <3>1. CASE i = n + 1
      <4>1. i - 1 = n /\ i # 0 /\ g[i - 1] = f[n]
        BY <2>2, <3>1
      <4> QED BY <2>3, <3>1, <4>1 DEF Step
    <3>2. CASE i # n + 1
      <4>1. i \in 0 .. n /\ (i # 0 => i - 1 \in 0 .. n)
        BY <3>2
      <4> QED BY <2>2, <2>4, <4>1
    <3> QED BY <3>1, <3>2
  <2>6. IsWalk(g, h, n + 1)
    <3> HIDE DEF g
    <3>1. g = [i \in 0 .. n + 1 |-> g[i]]
      BY DEF g
    <3> QED BY <2>5, <3>1 DEF IsWalk
  <2> QED BY <2>6
<1> HIDE DEF T
<1>3. \A n \in Nat : n \in T
  BY <1>1, <1>2, SetInduction
<1> QED BY <1>3 DEF T

(* It has only one, as far as two of them go.                              *)
LEMMA WalkUnique ==
  ASSUME NEW h, NEW m \in Nat, NEW n \in Nat, NEW f, NEW g, IsWalk(f, h, m), IsWalk(g, h, n)
  PROVE  \A i \in Nat : i <= m /\ i <= n => f[i] = g[i]
<1> DEFINE T == {i \in Nat : i <= m /\ i <= n => f[i] = g[i]}
<1>1. /\ \A i \in 0 .. m : f[i] = IF i = 0 THEN hash[h]
                                  ELSE IF f[i - 1] = Nil THEN Nil ELSE next[f[i - 1]]
      /\ \A i \in 0 .. n : g[i] = IF i = 0 THEN hash[h]
                                  ELSE IF g[i - 1] = Nil THEN Nil ELSE next[g[i - 1]]
  BY DEF IsWalk
<1>2. 0 \in T
  BY <1>1
<1>3. ASSUME NEW i \in Nat, i \in T PROVE i + 1 \in T
  <2> SUFFICES ASSUME i + 1 <= m, i + 1 <= n PROVE f[i + 1] = g[i + 1]
    OBVIOUS
  <2>1. /\ i + 1 \in 0 .. m /\ i + 1 \in 0 .. n /\ i + 1 # 0 /\ (i + 1) - 1 = i
        /\ i <= m /\ i <= n
    OBVIOUS
  <2>2. f[i] = g[i]
    BY <1>3, <2>1
  <2> QED BY <1>1, <2>1, <2>2
<1> HIDE DEF T
<1>4. \A i \in Nat : i \in T
  BY <1>2, <1>3, SetInduction
<1> QED BY <1>4 DEF T

(* At is this walk: it starts at the head and follows nextHash.            *)
LEMMA AtSteps ==
  ASSUME NEW h, NEW n \in Nat
  PROVE  At(h, 0) = hash[h] /\ At(h, n + 1) = Step(At(h, n))
<1>1. ASSUME NEW i \in Nat PROVE \E f : IsWalk(f, h, i) /\ At(h, i) = f[i]
  <2> DEFINE f == CHOOSE f : IsWalk(f, h, i)
  <2>1. IsWalk(f, h, i)
    BY WalkExists
  <2>2. At(h, i) = f[i]
    BY DEF At, IsWalk
  <2> QED BY <2>1, <2>2
<1>2. PICK f : IsWalk(f, h, 0) /\ At(h, 0) = f[0]
  BY <1>1
<1>3. At(h, 0) = hash[h]
  BY <1>2 DEF IsWalk
<1>4. PICK u : IsWalk(u, h, n) /\ At(h, n) = u[n]
  BY <1>1
<1>5. PICK v : IsWalk(v, h, n + 1) /\ At(h, n + 1) = v[n + 1]
  BY <1>1
<1>6. v[n] = u[n]
  BY <1>4, <1>5, WalkUnique
<1>7. v[n + 1] = Step(v[n])
  <2>1. n + 1 \in 0 .. n + 1 /\ n + 1 # 0 /\ (n + 1) - 1 = n
    OBVIOUS
  <2> QED BY <1>5, <2>1 DEF IsWalk, Step
<1> QED BY <1>3, <1>4, <1>5, <1>6, <1>7

(* After i steps: i + 1 entries are passed, or the end has come after all  *)
(* of them.                                                                *)
UpTo(pos, h, x) == {m \in List(h) : pos[m] <= pos[x]}

Progress(pos, h, i) ==
  IF At(h, i) = Nil THEN \A m \in List(h) : \E j \in 0 .. i : At(h, j) = m
  ELSE /\ At(h, i) \in List(h)
       /\ Cardinality(UpTo(pos, h, At(h, i))) = i + 1
       /\ \A m \in UpTo(pos, h, At(h, i)) : \E j \in 0 .. i : At(h, j) = m

(* No list is longer than there are entries.                               *)
LEMMA ListFinite ==
  ASSUME MapTypes, KeysInv, NEW h, NEW S, S \subseteq List(h)
  PROVE  IsFiniteSet(S) /\ Cardinality(S) \in Nat /\ Cardinality(S) <= N
<1>1. S \subseteq 1 .. N
  BY Sizes DEF List, MapTypes
<1>2. IsFiniteSet(1 .. N) /\ Cardinality(1 .. N) = N
  BY Sizes, FS_Interval
<1> QED BY <1>1, <1>2, FS_Subset, FS_CardinalityType

(* By induction over the steps: the entries of the list come one by one.   *)
LEMMA Progresses ==
  ASSUME MapTypes, KeysInv, NEW pos \in [Entries -> Int], NEW h \in Hashes, Ordered(pos, h)
  PROVE  \A i \in Nat : Progress(pos, h, i)
<1> DEFINE T == {i \in Nat : Progress(pos, h, i)}
<1>0. List(h) \subseteq Entries /\ Nil \notin List(h)
  BY Listed, Sizes
<1>1. 0 \in T
  <2>1. At(h, 0) = hash[h] /\ First(pos, h)
    BY AtSteps DEF Ordered
  <2>2. CASE hash[h] = Nil
    BY <1>0, <2>1, <2>2 DEF First, Progress
  <2>3. CASE hash[h] # Nil
    <3>1. hash[h] \in List(h) /\ \A n \in List(h) : pos[hash[h]] <= pos[n]
      BY <2>1, <2>3 DEF First
    <3>2. UpTo(pos, h, hash[h]) = {hash[h]}
      BY <1>0, <3>1 DEF UpTo, Ordered
    <3>3. Cardinality({hash[h]}) = 1
      BY FS_Singleton
    <3>4. 0 \in 0 .. 0 /\ 0 + 1 = 1
      OBVIOUS
    <3>5. \A m \in UpTo(pos, h, At(h, 0)) : \E j \in 0 .. 0 : At(h, j) = m
      <4>1. UpTo(pos, h, At(h, 0)) = {At(h, 0)}
        BY <2>1, <3>2
      <4> QED BY <3>4, <4>1
    <3> QED BY <2>1, <2>3, <3>1, <3>2, <3>3, <3>4, <3>5 DEF Progress
  <2> QED BY <2>2, <2>3
<1>2. ASSUME NEW i \in Nat, i \in T PROVE i + 1 \in T
  <2>1. At(h, i + 1) = Step(At(h, i)) /\ Progress(pos, h, i)
    BY <1>2, AtSteps
  <2>2. \A m : (\E j \in 0 .. i : At(h, j) = m) => \E j \in 0 .. i + 1 : At(h, j) = m
    OBVIOUS
  <2>3. CASE At(h, i) = Nil
    BY <2>1, <2>2, <2>3 DEF Progress, Step
  <2>4. CASE At(h, i) # Nil
    <3> DEFINE x == At(h, i)
               y == At(h, i + 1)
    <3>1. /\ x \in List(h) /\ Cardinality(UpTo(pos, h, x)) = i + 1 /\ y = next[x]
          /\ \A m \in UpTo(pos, h, x) : \E j \in 0 .. i : At(h, j) = m
      BY <2>1, <2>4 DEF Progress, Step
    <3> HIDE DEF x, y
    <3>2. After(pos, h, x)
      BY <3>1 DEF Ordered
    <3>3. CASE y = Nil
      <4>1. UpTo(pos, h, x) = List(h)
        BY <1>0, <3>1, <3>2, <3>3 DEF After, UpTo
      <4> QED BY <2>2, <3>1, <3>3, <4>1 DEF Progress, y
    <3>4. CASE y # Nil
      <4>1. /\ y \in List(h) /\ pos[x] < pos[y]
            /\ \A m \in List(h) : pos[m] <= pos[x] \/ pos[y] <= pos[m]
        BY <3>1, <3>2, <3>4 DEF After
      <4>2. UpTo(pos, h, y) = UpTo(pos, h, x) \cup {y} /\ y \notin UpTo(pos, h, x)
        <5>1. \A m \in List(h) : pos[m] <= pos[y] <=> pos[m] <= pos[x] \/ m = y
          BY <1>0, <3>1, <4>1 DEF Ordered
        <5> QED BY <1>0, <3>1, <4>1, <5>1 DEF UpTo
      <4>3. Cardinality(UpTo(pos, h, y)) = (i + 1) + 1
        <5>1. IsFiniteSet(UpTo(pos, h, x))
          BY ListFinite DEF UpTo
        <5> QED BY <3>1, <4>2, <5>1, FS_AddElement
      <4>4. \A m \in UpTo(pos, h, y) : \E j \in 0 .. i + 1 : At(h, j) = m
        BY <2>2, <3>1, <4>2 DEF y
      <4> QED BY <3>4, <4>1, <4>3, <4>4 DEF Progress, y
    <3> QED BY <3>3, <3>4
  <2> QED BY <2>3, <2>4
<1> HIDE DEF T
<1>3. \A i \in Nat : i \in T
  BY <1>1, <1>2, SetInduction
<1> QED BY <1>3 DEF T

(* Each list of the map ends, and holds exactly the entries of its hash,   *)
(* whatever keys collide and however often Lookup has moved an entry to    *)
(* the front.                                                              *)
THEOREM MapListsIntact == WriterSpec => []ListsIntact
<1>1. ASSUME MapInv, NEW h \in Hashes
      PROVE  At(h, N) = Nil /\ OnList(h) = List(h)
  <2>1. PICK pos \in [Entries -> Int] : Ordered(pos, h)
    BY <1>1 DEF MapInv, Sorted
  <2>2. \A i \in Nat : Progress(pos, h, i)
    BY <1>1, <2>1, Progresses DEF MapInv
  <2>3. At(h, N) = Nil
    <3> SUFFICES ASSUME At(h, N) # Nil PROVE FALSE
      OBVIOUS
    <3>1. Cardinality(UpTo(pos, h, At(h, N))) = N + 1
      BY <2>2, Sizes DEF Progress
    <3>2. Cardinality(UpTo(pos, h, At(h, N))) <= N
      BY <1>1, ListFinite DEF UpTo, MapInv
    <3> QED BY <3>1, <3>2, Sizes
  <2>4. \A m \in List(h) : \E j \in 0 .. N : At(h, j) = m
    BY <2>2, <2>3, Sizes DEF Progress
  <2>5. \A j \in 0 .. N : At(h, j) = Nil \/ At(h, j) \in List(h)
    BY <2>2, Sizes DEF Progress
  <2>6. Nil \notin List(h)
    BY <1>1, Listed, Sizes DEF MapInv
  <2> QED BY <2>3, <2>4, <2>5, <2>6 DEF OnList, N
<1>2. MapInv => ListsIntact
  BY <1>1 DEF ListsIntact, List, N
<1> QED BY MapInvariant, <1>2, PTL

-----------------------------------------------------------------------------
(* The builder.                                                            *)

(* The addresses of the physical frame that begins at p.                   *)
Chain(p) == <<p>> \o Rest[p]

(* The sequence s begins with r; and what is inlined is followed by all it *)
(* is inlined in.                                                          *)
Begins(s, r) == \A j \in DOMAIN r : j \in DOMAIN s /\ s[j] = r[j]

Whole(s) == \A i \in DOMAIN s : \A j \in DOMAIN Rest[s[i]] :
              i + j \in DOMAIN s /\ s[i + j] = Rest[s[i]][j]

(* The results of looking up all these addresses.                          *)
Symbols(pcs) == {r \in {"tried", "failed"} : \E i \in DOMAIN pcs : r \in Symbolized(pcs[i])}

CacheInv ==
  /\ IsFiniteSet(DOMAIN cache) /\ DOMAIN cache \subseteq PCs
  /\ \A p \in DOMAIN cache : cache[p].pcs = Chain(p)

StackInv == stk \in Seq(PCs) /\ Whole(stk)

(* The deck holds the beginning of a physical frame that is not cached,    *)
(* and the stack goes on with the rest of it.                              *)
DeckInv ==
  /\ deck = [pcs |-> deck.pcs, sym |-> deck.sym] /\ deck.pcs \in Seq(PCs)
  /\ \A i \in DOMAIN deck.pcs : FramesOf[deck.pcs[i]] # <<>>
  /\ deck.sym = Symbols(deck.pcs)
  /\ deck.pcs # <<>> =>
       /\ Head(deck.pcs) \notin DOMAIN cache
       /\ Chain(Head(deck.pcs)) = deck.pcs \o Rest[Last(deck.pcs)]
       /\ Begins(stk, Rest[Last(deck.pcs)])

OutInv ==
  /\ \E S : out \in Seq(S)
  /\ \A i \in DOMAIN out : /\ out[i].id \in 1 .. Cardinality(DOMAIN cache)
                           /\ out[i].pcs = Chain(Head(out[i].pcs))
                           /\ \A j \in DOMAIN out[i].pcs : FramesOf[out[i].pcs[j]] # <<>>
  /\ IdsDistinct

(* The results in the flags of a mapping: those of the locations in it, or *)
(* also, if mappings are kept, those of earlier profiles.                  *)
Results(m) == {r \in {"tried", "failed"} :
                 \E i \in DOMAIN out : out[i].mapping = m /\ r \in Symbols(out[i].pcs)}

MemInv ==
  /\ lazy \in BOOLEAN
  /\ \A m \in DOMAIN mem :
       /\ mem[m] = [start |-> mem[m].start, end |-> mem[m].end, fake |-> mem[m].fake,
                    funcs |-> mem[m].funcs]
       /\ Results(m) \subseteq mem[m].funcs
       /\ ~lazy /\ bpc # "closed" => mem[m].funcs = Results(m)
  /\ bpc = "closed" => out = <<>>

BuilderInv == CacheInv /\ StackInv /\ DeckInv /\ OutInv /\ MemInv

(* Facts about sequences.                                                  *)
LEMMA Dropped ==
  ASSUME NEW S, NEW s \in Seq(S), NEW n \in 0 .. Len(s)
  PROVE  /\ Drop(s, n) \in Seq(S) /\ Len(Drop(s, n)) = Len(s) - n
         /\ \A i \in 1 .. Len(s) - n : Drop(s, n)[i] = s[i + n]
<1>1. Len(s) \in Nat
  OBVIOUS
<1>2. Drop(s, n) = [i \in 1 .. Len(s) - n |-> s[i + n]]
  BY <1>1 DEF Drop
<1>3. \A i \in 1 .. Len(s) - n : s[i + n] \in S
  BY <1>1
<1> QED BY <1>1, <1>2, <1>3

(* A turn of the loop drops one address.                                   *)
LEMMA DropOne ==
  ASSUME NEW S, NEW s \in Seq(S), s # <<>>
  PROVE  Tail(s) = Drop(s, 1) /\ 1 \in 0 .. Len(s)
BY DEF Drop

(* The addresses of a physical frame, one by one.                          *)
LEMMA Chains ==
  ASSUME NEW p \in PCs
  PROVE  /\ Rest[p] \in Seq(PCs) /\ Chain(p) \in Seq(PCs) /\ Len(Chain(p)) = Len(Rest[p]) + 1
         /\ Head(Chain(p)) = p /\ Chain(p)[1] = p
         /\ \A j \in DOMAIN Rest[p] : Chain(p)[j + 1] = Rest[p][j]
BY RestAssumption DEF Chain

(* What is left of a whole stack is whole.                                 *)
LEMMA DropWhole ==
  ASSUME NEW s \in Seq(PCs), Whole(s), NEW n \in 0 .. Len(s)
  PROVE  Whole(Drop(s, n))
<1> DEFINE t == Drop(s, n)
<1>1. t \in Seq(PCs) /\ Len(t) = Len(s) - n /\ \A i \in 1 .. Len(t) : t[i] = s[i + n]
  BY Dropped
<1> HIDE DEF t
<1> SUFFICES ASSUME NEW i \in DOMAIN t, NEW j \in DOMAIN Rest[t[i]]
             PROVE  i + j \in DOMAIN t /\ t[i + j] = Rest[t[i]][j]
  BY DEF Whole, t
<1>2. i \in 1 .. Len(t) /\ i + n \in DOMAIN s /\ t[i] = s[i + n] /\ s[i + n] \in PCs
  BY <1>1
<1>3. j \in Nat /\ j > 0
  BY <1>2, RestAssumption
<1>4. (i + n) + j \in DOMAIN s /\ s[(i + n) + j] = Rest[t[i]][j]
  BY <1>2 DEF Whole
<1>5. i + j \in 1 .. Len(t) /\ (i + j) + n = (i + n) + j
  BY <1>1, <1>2, <1>3, <1>4
<1> QED BY <1>1, <1>4, <1>5

(* The first address of a stack stands there with all that follows it.     *)
LEMMA WholeHead ==
  ASSUME NEW s \in Seq(PCs), Whole(s), s # <<>>
  PROVE  /\ Begins(s, Chain(Head(s))) /\ Len(Chain(Head(s))) <= Len(s)
         /\ Begins(Tail(s), Rest[Head(s)])
<1>1. Head(s) = s[1] /\ 1 \in DOMAIN s /\ s[1] \in PCs
  OBVIOUS
<1> DEFINE r == Rest[s[1]]
           c == Chain(s[1])
<1>2. /\ r \in Seq(PCs) /\ c \in Seq(PCs) /\ Len(c) = Len(r) + 1 /\ c[1] = s[1]
      /\ \A j \in DOMAIN r : c[j + 1] = r[j]
  BY <1>1, Chains
<1>3. \A j \in DOMAIN r : 1 + j \in DOMAIN s /\ s[1 + j] = r[j]
  BY <1>1 DEF Whole
<1> HIDE DEF r, c
<1>4. \A j \in DOMAIN c : j \in DOMAIN s /\ s[j] = c[j]
  <2> TAKE j \in DOMAIN c
  <2>1. CASE j = 1
    BY <1>1, <1>2, <2>1
  <2>2. CASE j # 1
    <3>1. j - 1 \in DOMAIN r /\ 1 + (j - 1) = j /\ (j - 1) + 1 = j
      BY <1>2, <2>2
    <3> QED BY <1>2, <1>3, <3>1
  <2> QED BY <2>1, <2>2
<1>5. Len(c) <= Len(s)
  <2>1. Len(c) \in DOMAIN c
    BY <1>2
  <2> QED BY <1>2, <1>4, <2>1
<1>6. \A j \in DOMAIN r : j \in DOMAIN Tail(s) /\ Tail(s)[j] = r[j]
  <2>1. \A j \in 1 .. Len(s) - 1 : j \in DOMAIN Tail(s) /\ Tail(s)[j] = s[1 + j]
    OBVIOUS
  <2>2. \A j \in DOMAIN r : j \in 1 .. Len(s) - 1
    BY <1>2, <1>3
  <2> QED BY <1>3, <2>1, <2>2
<1> QED BY <1>1, <1>4, <1>5, <1>6 DEF Begins, r, c

(* What follows a fake address is what followed the address before it.     *)
LEMMA RestTails ==
  ASSUME NEW p \in PCs, NEW j \in DOMAIN Rest[p]
  PROVE  Rest[Rest[p][j]] = Drop(Rest[p], j) /\ j \in 0 .. Len(Rest[p])
<1> DEFINE r == Rest[p]
           T == {n \in Nat : n + 1 \in DOMAIN r => Rest[r[n + 1]] = Drop(r, n + 1)}
<1>1. r \in Seq(PCs)
  BY RestAssumption
<1>2. ASSUME NEW q \in PCs, Rest[q] # <<>>
      PROVE  Rest[Head(Rest[q])] = Tail(Rest[q])
  BY <1>2, RuntimeAssumption
<1> HIDE DEF r
<1>3. 0 \in T
  <2> SUFFICES ASSUME 1 \in DOMAIN r PROVE Rest[r[1]] = Drop(r, 1)
    OBVIOUS
  <2>1. r # <<>> /\ r[1] = Head(r)
    BY <1>1
  <2> QED BY <1>1, <1>2, <2>1, DropOne DEF r
<1>4. ASSUME NEW n \in Nat, n \in T PROVE n + 1 \in T
  <2> SUFFICES ASSUME (n + 1) + 1 \in DOMAIN r PROVE Rest[r[(n + 1) + 1]] = Drop(r, (n + 1) + 1)
    OBVIOUS
  <2> DEFINE q == r[n + 1]
             t == Drop(r, n + 1)
  <2>1. n + 1 \in DOMAIN r /\ n + 1 \in 0 .. Len(r) /\ q \in PCs /\ Len(r) \in Nat
    BY <1>1
  <2>2. /\ t \in Seq(PCs) /\ Len(t) = Len(r) - (n + 1)
        /\ \A i \in 1 .. Len(r) - (n + 1) : t[i] = r[i + (n + 1)]
    BY <1>1, <2>1, Dropped
  <2>3. Rest[q] = t
    BY <1>4, <2>1
  <2> HIDE DEF q, t
  <2>4. t # <<>> /\ Head(t) = r[(n + 1) + 1]
    BY <1>1, <2>1, <2>2
  <2>5. Rest[r[(n + 1) + 1]] = Tail(t)
    BY <1>2, <2>1, <2>3, <2>4
  <2>6. Tail(t) = Drop(r, (n + 1) + 1)
    BY <1>1, <2>1 DEF t, Drop
  <2> QED BY <2>5, <2>6
<1> HIDE DEF T
<1>5. \A n \in Nat : n \in T
  BY <1>3, <1>4, SetInduction
<1>6. j - 1 \in Nat /\ (j - 1) + 1 = j /\ j \in 0 .. Len(r) /\ j \in DOMAIN r
  BY <1>1 DEF r
<1> QED BY <1>5, <1>6 DEF T, r

(* Once its last call is expanded a stack is whole.                        *)
LEMMA WholeStack ==
  ASSUME NEW s \in Seq(PCs), Linked(s)
  PROVE  Expand(s) \in Seq(PCs) /\ Whole(Expand(s))
<1>1. CASE s = <<>>
  BY <1>1 DEF Expand, Whole
<1>2. CASE s # <<>>
  <2> DEFINE n == Len(s)
             r == Rest[s[n]]
             t == s \o r
             Holds(i) == \A j \in DOMAIN Rest[s[i]] : i + j \in DOMAIN t /\ t[i + j] = Rest[s[i]][j]
             T == {k \in Nat : k < n => Holds(n - k)}
  <2>1. n \in Nat /\ n > 0 /\ DOMAIN s = 1 .. n /\ s[n] \in PCs /\ Expand(s) = t
    BY <1>2 DEF Expand, Last
  <2>2. r \in Seq(PCs) /\ Len(r) \in Nat /\ DOMAIN r = 1 .. Len(r)
    BY <2>1, RestAssumption
  <2> HIDE DEF r, n
  <2>3. /\ t \in Seq(PCs) /\ DOMAIN t = 1 .. n + Len(r)
        /\ \A i \in 1 .. n : t[i] = s[i]
        /\ \A i \in 1 .. Len(r) : t[n + i] = r[i]
    BY <2>1, <2>2 DEF n
  <2> HIDE DEF t
  <2>4. 0 \in T
    <3>1. Holds(n)
      <4> SUFFICES ASSUME NEW j \in DOMAIN r PROVE n + j \in DOMAIN t /\ t[n + j] = r[j]
        BY DEF r
      <4> QED BY <2>1, <2>2, <2>3
    <3> QED BY <2>1, <3>1
  <2>5. ASSUME NEW k \in Nat, k \in T PROVE k + 1 \in T
    <3> SUFFICES ASSUME k + 1 < n PROVE Holds(n - (k + 1))
      OBVIOUS
    <3> DEFINE i == n - (k + 1)
    <3>1. i \in 1 .. n - 1 /\ i + 1 = n - k /\ i \in DOMAIN s /\ i + 1 \in DOMAIN s /\ k < n
      BY <2>1
    <3>2. Holds(i + 1)
      BY <2>5, <3>1
    <3> HIDE DEF i
    <3>3. ASSUME NEW j \in DOMAIN Rest[s[i]]
          PROVE  i + j \in DOMAIN t /\ t[i + j] = Rest[s[i]][j]
      <4> DEFINE u == Rest[s[i]]
      <4>1. s[i] \in PCs /\ s[i + 1] \in PCs
        BY <3>1
      <4>2. u \in Seq(PCs) /\ u # <<>>
        BY <3>3, <4>1, RestAssumption
      <4>3. s[i + 1] = Head(u) /\ Rest[s[i + 1]] = Tail(u)
        BY <3>1, <4>1, <4>2, RuntimeAssumption DEF Linked, n
      <4> HIDE DEF u
      <4>4. CASE j = 1
        BY <2>1, <2>2, <2>3, <3>1, <4>2, <4>3, <4>4 DEF u
      <4>5. CASE j # 1
        <5>1. j \in Nat /\ j - 1 \in DOMAIN Tail(u) /\ Tail(u)[j - 1] = u[j]
          <6>1. Len(u) \in Nat /\ j \in 1 .. Len(u)
            BY <3>3, <4>2 DEF u
          <6>2. /\ DOMAIN Tail(u) = 1 .. Len(u) - 1
                /\ \A l \in 1 .. Len(u) - 1 : Tail(u)[l] = u[l + 1]
            BY <4>2
          <6>3. j \in Nat /\ j - 1 \in 1 .. Len(u) - 1 /\ (j - 1) + 1 = j
            BY <4>5, <6>1
          <6> QED BY <6>2, <6>3
        <5>2. (i + 1) + (j - 1) \in DOMAIN t /\ t[(i + 1) + (j - 1)] = Tail(u)[j - 1]
          BY <3>2, <4>3, <5>1
        <5>3. (i + 1) + (j - 1) = i + j
          BY <3>1, <5>1
        <5> QED BY <5>1, <5>2, <5>3 DEF u
      <4> QED BY <4>4, <4>5
    <3> QED BY <3>3 DEF i
  <2> HIDE DEF T
  <2>6. \A k \in Nat : k \in T
    BY <2>4, <2>5, SetInduction
  <2>7. ASSUME NEW i \in 1 .. n PROVE Holds(i)
    <3>1. n - i \in Nat /\ n - i < n /\ n - (n - i) = i
      BY <2>1
    <3> QED BY <2>6, <3>1 DEF T
  <2>8. ASSUME NEW i \in DOMAIN t, NEW j \in DOMAIN Rest[t[i]]
        PROVE  i + j \in DOMAIN t /\ t[i + j] = Rest[t[i]][j]
    <3>1. CASE i \in 1 .. n
      BY <2>3, <2>7, <2>8, <3>1
    <3>2. CASE i \notin 1 .. n
      <4>1. i - n \in DOMAIN r /\ n + (i - n) = i /\ t[i] = r[i - n]
        BY <2>1, <2>2, <2>3, <3>2
      <4>2. Rest[r[i - n]] = Drop(r, i - n) /\ i - n \in 0 .. Len(r)
        BY <2>1, <4>1, RestTails DEF r
      <4>3. /\ Len(Drop(r, i - n)) = Len(r) - (i - n) /\ Drop(r, i - n) \in Seq(PCs)
            /\ \A l \in 1 .. Len(r) - (i - n) : Drop(r, i - n)[l] = r[l + (i - n)]
        BY <2>2, <4>2, Dropped
      <4>4. j \in 1 .. Len(r) - (i - n)
        BY <2>8, <4>1, <4>2, <4>3
      <4>5. Rest[t[i]][j] = r[j + (i - n)]
        BY <4>1, <4>2, <4>3, <4>4
      <4>6. j + (i - n) \in 1 .. Len(r) /\ n + (j + (i - n)) = i + j
        <5>1. n \in Nat /\ Len(r) \in Nat /\ i \in Int /\ j \in Int
          BY <2>1, <2>2, <2>3, <4>4
        <5>2. 0 <= i - n /\ i - n <= Len(r) /\ 1 <= j /\ j <= Len(r) - (i - n)
          BY <4>2, <4>4, <5>1
        <5> QED BY <5>1, <5>2
      <4> QED BY <2>1, <2>2, <2>3, <4>5, <4>6
    <3> QED BY <3>1, <3>2
  <2> QED BY <2>1, <2>3, <2>8 DEF Whole
<1> QED BY <1>1, <1>2

(* Either all of a stack is shown, or what begins with the first frame     *)
(* that is not of package runtime.                                         *)
LEMMA FirstShown ==
  ASSUME NEW s \in Seq(PCs), Shown(s) # s
  PROVE  \E n \in 0 .. Len(s) : /\ n + 1 \in DOMAIN s /\ s[n + 1] \notin Runtime
                                /\ Shown(s) = Drop(s, n)
<1> DEFINE A == {i \in DOMAIN s : s[i] \notin Runtime}
           n == Min(A) - 1
<1>1. A # {} /\ A \subseteq Nat
  BY DEF Shown
<1>2. PICK m \in A : \A i \in A : ~(<<i, m>> \in OpToRel(<, Nat))
  <2> HIDE DEF A
  <2> QED BY <1>1, WFMin, NatLessThanWellFounded, Zenon
<1>3. \A i \in A : m <= i
  <2> TAKE i \in A
  <2>1. i \in Nat /\ m \in Nat
    BY <1>1
  <2>2. ~(i < m)
    BY <1>2, <2>1 DEF OpToRel
  <2> QED BY <2>1, <2>2
<1>4. Min(A) \in A
  <2> HIDE DEF A
  <2> QED BY <1>3 DEF Min
<1>5. n \in 0 .. Len(s) /\ n + 1 \in DOMAIN s /\ s[n + 1] \notin Runtime /\ Shown(s) = Drop(s, n)
  BY <1>1, <1>4 DEF Shown
<1> QED BY <1>5

(* A stack without its runtime frames is still a stack.                    *)
LEMMA ShownLinked ==
  ASSUME NEW s \in Seq(PCs), Linked(s)
  PROVE  Shown(s) \in Seq(PCs) /\ Linked(Shown(s))
<1>1. CASE Shown(s) = s
  BY <1>1
<1>2. CASE Shown(s) # s
  <2> DEFINE t == Shown(s)
  <2>1. PICK n \in 0 .. Len(s) : t = Drop(s, n)
    BY <1>2, FirstShown
  <2>2. /\ t \in Seq(PCs) /\ Len(t) = Len(s) - n
        /\ \A i \in 1 .. Len(s) - n : t[i] = s[i + n]
    BY <2>1, Dropped
  <2> HIDE DEF t
  <2>3. ASSUME NEW i \in 1 .. Len(t) - 1, Rest[t[i]] # <<>>
        PROVE  t[i + 1] = Head(Rest[t[i]])
    <3>1. /\ i + n \in 1 .. Len(s) - 1 /\ (i + 1) + n = (i + n) + 1
          /\ i \in 1 .. Len(s) - n /\ i + 1 \in 1 .. Len(s) - n
      BY <2>1, <2>2, <2>3
    <3>2. t[i] = s[i + n]
      BY <2>2, <3>1
    <3>3. t[i + 1] = s[(i + 1) + n]
      BY <2>2, <3>1
    <3> QED BY <2>3, <3>1, <3>2, <3>3 DEF Linked
  <2> QED BY <2>2, <2>3 DEF Linked, t
<1> QED BY <1>1, <1>2

-----------------------------------------------------------------------------
(* Each step of the builder keeps its invariant.                           *)

(* An address that does not go on top of the deck comes after the end of   *)
(* the physical frame in it.                                               *)
LEMMA Complete ==
  ASSUME BuilderInv, deck.pcs # <<>>,
         stk = <<>> \/ FramesOf[Addr] = <<>> \/ ~CanAdd(Addr)
  PROVE  Rest[Last(deck.pcs)] = <<>> /\ deck.pcs = Chain(Head(deck.pcs))
<1> DEFINE q == Last(deck.pcs)
<1>1. q \in PCs /\ deck.pcs \in Seq(PCs)
  BY DEF BuilderInv, DeckInv, Last
<1>2. Rest[q] \in Seq(PCs)
  BY <1>1, RestAssumption
<1>3. Rest[q] = <<>>
  <2> SUFFICES ASSUME Rest[q] # <<>> PROVE FALSE
    OBVIOUS
  <2>1. 1 \in DOMAIN Rest[q] /\ Head(Rest[q]) = Rest[q][1]
    BY <1>2
  <2>2. 1 \in DOMAIN stk /\ stk[1] = Rest[q][1]
    BY <2>1 DEF BuilderInv, DeckInv, Begins
  <2>3. stk # <<>> /\ Addr = Head(Rest[q])
    BY <2>1, <2>2 DEF Addr, BuilderInv, StackInv
  <2>4. Joins(q, Addr)
    BY <1>1, <2>3, RuntimeAssumption
  <2> QED BY <2>3, <2>4 DEF CanAdd, Joins
<1>4. deck.pcs \o <<>> = deck.pcs
  BY <1>1
<1> QED BY <1>3, <1>4 DEF BuilderInv, DeckInv

(* What emitLocation writes: the location new, cached by addr.             *)
Writes(addr, new) ==
  /\ addr = Head(deck.pcs) /\ addr \in PCs /\ addr \notin DOMAIN cache /\ deck.pcs = Chain(addr)
  /\ DOMAIN cache' = DOMAIN cache \cup {addr}
  /\ cache'[addr].pcs = deck.pcs /\ \A p \in DOMAIN cache : cache'[p] = cache[p]
  /\ out' = Append(out, new)
  /\ new.id = Id /\ new.pcs = deck.pcs /\ new.mapping = MappingOf(addr)
  /\ mem' = [m \in DOMAIN mem |->
               IF m = MappingOf(addr) THEN [mem[m] EXCEPT !.funcs = @ \cup deck.sym]
               ELSE mem[m]]

(* emitLocation writes a whole physical frame that was not cached.         *)
LEMMA Written ==
  ASSUME BuilderInv, NEW d, emitLocation(d), deck.pcs # <<>>, Rest[Last(deck.pcs)] = <<>>
  PROVE  \E addr, new : Writes(addr, new)
<1> DEFINE addr == Head(deck.pcs)
<1>1. /\ deck.pcs \in Seq(PCs) /\ addr \in PCs /\ addr \notin DOMAIN cache
      /\ Chain(addr) = deck.pcs \o <<>>
  BY DEF BuilderInv, DeckInv
<1>2. deck.pcs = Chain(addr)
  BY <1>1
<1>3. WriteLocation
  BY DEF emitLocation
<1>4. cache' = [p \in DOMAIN cache \cup {addr} |->
                  IF p = addr THEN [id |-> Id, pcs |-> deck.pcs] ELSE cache[p]]
  BY <1>3 DEF WriteLocation
<1>5. PICK new : /\ out' = Append(out, new)
               /\ new.id = Id /\ new.pcs = deck.pcs /\ new.mapping = MappingOf(addr)
  <2>1. \E l : out' = Append(out, [id |-> Id, pcs |-> deck.pcs, mapping |-> MappingOf(addr),
                                   lines |-> l])
    BY <1>3, Zenon DEF WriteLocation
  <2> QED BY <2>1
<1>6. mem' = [m \in DOMAIN mem |->
                IF m = MappingOf(addr) THEN [mem[m] EXCEPT !.funcs = @ \cup deck.sym]
                ELSE mem[m]]
  BY <1>3, Zenon DEF WriteLocation
<1>7. Writes(addr, new)
  BY <1>1, <1>2, <1>4, <1>5, <1>6 DEF Writes
<1> QED BY <1>7

(* A location is written: it has an id of its own, is all of a physical    *)
(* frame, and its results are added to the flags of its mapping.           *)
LEMMA Emits ==
  ASSUME BuilderInv, NEW d, emitLocation(d),
         deck.pcs # <<>> => Rest[Last(deck.pcs)] = <<>>,
         lazy' = lazy, bpc # "closed", bpc' # "closed"
  PROVE  /\ CacheInv' /\ OutInv' /\ MemInv'
         /\ DOMAIN cache' = DOMAIN cache \cup (IF deck.pcs = <<>> THEN {} ELSE {Head(deck.pcs)})
<1>1. CASE deck.pcs = <<>>
  <2>1. UNCHANGED <<cache, funcs, out, mem>>
    BY <1>1 DEF emitLocation
  <2>2. CacheInv' /\ OutInv'
    BY <2>1 DEF BuilderInv, CacheInv, OutInv, IdsDistinct
  <2>3. MemInv'
    BY <2>1 DEF BuilderInv, MemInv, Results
  <2> QED BY <1>1, <2>1, <2>2, <2>3
<1>2. CASE deck.pcs # <<>>
  <2>0. PICK addr, new : Writes(addr, new)
    BY <1>2, Written
  <2>1. /\ addr \in PCs /\ addr \notin DOMAIN cache /\ deck.pcs = Chain(addr)
        /\ addr = Head(deck.pcs)
        /\ DOMAIN cache' = DOMAIN cache \cup {addr}
        /\ cache'[addr].pcs = deck.pcs /\ \A p \in DOMAIN cache : cache'[p] = cache[p]
        /\ out' = Append(out, new)
        /\ new.id = Id /\ new.pcs = deck.pcs /\ new.mapping = MappingOf(addr)
        /\ mem' = [m \in DOMAIN mem |->
                     IF m = MappingOf(addr) THEN [mem[m] EXCEPT !.funcs = @ \cup deck.sym]
                     ELSE mem[m]]
    BY <2>0 DEF Writes
  <2>2. /\ IsFiniteSet(DOMAIN cache') /\ Cardinality(DOMAIN cache) \in Nat
        /\ Cardinality(DOMAIN cache') = Cardinality(DOMAIN cache) + 1
        /\ Id = Cardinality(DOMAIN cache) + 1
    BY <2>1, FS_AddElement, FS_CardinalityType DEF BuilderInv, CacheInv, Id
  <2>3. CacheInv'
    BY <2>1, <2>2 DEF BuilderInv, CacheInv
  <2>4. PICK S : out \in Seq(S)
    BY DEF BuilderInv, OutInv
  <2>5. /\ out' \in Seq(S \cup {new}) /\ DOMAIN out' = 1 .. Len(out) + 1
        /\ out'[Len(out) + 1] = new /\ Len(out) \in Nat /\ DOMAIN out = 1 .. Len(out)
        /\ \A i \in DOMAIN out : out'[i] = out[i]
    <3>1. out \in Seq(S \cup {new})
      BY <2>4
    <3> QED BY <2>1, <3>1
  <2>6. \A i \in DOMAIN out' : i \in DOMAIN out \/ i = Len(out) + 1
    BY <2>5
  <2>7. OutInv'
    <3>1. ASSUME NEW i \in DOMAIN out'
          PROVE  /\ out'[i].id \in 1 .. Cardinality(DOMAIN cache')
                 /\ out'[i].pcs = Chain(Head(out'[i].pcs))
                 /\ \A j \in DOMAIN out'[i].pcs : FramesOf[out'[i].pcs[j]] # <<>>
      <4>1. CASE i \in DOMAIN out
        BY <2>2, <2>5, <4>1 DEF BuilderInv, OutInv
      <4>2. CASE i = Len(out) + 1
        BY <2>1, <2>2, <2>5, <4>2 DEF BuilderInv, DeckInv
      <4> QED BY <2>6, <4>1, <4>2
    <3>2. ASSUME NEW i \in DOMAIN out', NEW j \in DOMAIN out', out'[i].id = out'[j].id
          PROVE  i = j
      <4>1. \A l \in DOMAIN out : out'[l].id # Id /\ out'[l].id = out[l].id
        BY <2>2, <2>5 DEF BuilderInv, OutInv
      <4>2. out'[Len(out) + 1].id = Id
        BY <2>1, <2>5
      <4> QED BY <2>6, <3>2, <4>1, <4>2 DEF BuilderInv, OutInv, IdsDistinct
    <3> QED BY <2>5, <3>1, <3>2 DEF OutInv, IdsDistinct
  <2>8. ASSUME NEW m
        PROVE  Results(m)' = Results(m) \cup (IF m = MappingOf(addr) THEN deck.sym ELSE {})
    <3>1. deck.sym = Symbols(new.pcs) /\ new.mapping = MappingOf(addr)
      BY <2>1 DEF BuilderInv, DeckInv
    <3>2. \A r : (\E i \in DOMAIN out' : out'[i].mapping = m /\ r \in Symbols(out'[i].pcs))
             <=> \/ \E i \in DOMAIN out : out[i].mapping = m /\ r \in Symbols(out[i].pcs)
                 \/ m = MappingOf(addr) /\ r \in deck.sym
      <4>1. Len(out) + 1 \in DOMAIN out' /\ \A i \in DOMAIN out : i \in DOMAIN out'
        BY <2>5
      <4> QED BY <2>5, <2>6, <3>1, <4>1
    <3>3. deck.sym \subseteq {"tried", "failed"}
      BY <3>1 DEF Symbols
    <3> QED BY <3>2, <3>3 DEF Results
  <2>9. MemInv'
    <3>1. ASSUME NEW m \in DOMAIN mem'
          PROVE  /\ mem'[m] = [start |-> mem'[m].start, end |-> mem'[m].end,
                               fake |-> mem'[m].fake, funcs |-> mem'[m].funcs]
                 /\ Results(m)' \subseteq mem'[m].funcs
                 /\ ~lazy => mem'[m].funcs = Results(m)'
      <4>1. /\ m \in DOMAIN mem
            /\ mem[m] = [start |-> mem[m].start, end |-> mem[m].end, fake |-> mem[m].fake,
                         funcs |-> mem[m].funcs]
            /\ Results(m) \subseteq mem[m].funcs
            /\ ~lazy => mem[m].funcs = Results(m)
        BY <2>1, <3>1 DEF BuilderInv, MemInv
      <4>2. CASE m = MappingOf(addr)
        <5>1. mem'[m] = [mem[m] EXCEPT !.funcs = mem[m].funcs \cup deck.sym]
          BY <2>1, <4>1, <4>2
        <5>2. mem'[m] = [start |-> mem[m].start, end |-> mem[m].end, fake |-> mem[m].fake,
                         funcs |-> mem[m].funcs \cup deck.sym]
          BY <4>1, <5>1
        <5> QED BY <2>8, <4>1, <4>2, <5>2
      <4>3. CASE m # MappingOf(addr)
        BY <2>1, <2>8, <4>1, <4>3
      <4> QED BY <4>2, <4>3
    <3> QED BY <3>1 DEF BuilderInv, MemInv
  <2> QED BY <1>2, <2>1, <2>3, <2>7, <2>9
<1> QED BY <1>1, <1>2

(* Nothing is to be shown for an empty deck.                               *)
LEMMA EmptyDeck == ASSUME deck' = NoPCs PROVE DeckInv'
BY DEF NoPCs, DeckInv, Symbols

(* The stack loses some of its first addresses.                            *)
LEMMA Advances ==
  ASSUME StackInv, NEW n \in 0 .. Len(stk), stk' = Drop(stk, n)
  PROVE  StackInv'
BY Dropped, DropWhole DEF StackInv

(* It loses the first.                                                     *)
LEMMA AdvancesOne ==
  ASSUME StackInv, stk # <<>>, stk' = Tail(stk)
  PROVE  StackInv'
BY DropOne, Advances DEF StackInv

(* The address on top of the deck is the next of the physical frame in it, *)
(* by the heuristic's assumption, or the first of a new one.               *)
LEMMA PushStep ==
  ASSUME BuilderInv, Push PROVE BuilderInv'
<1>1. /\ StackInv /\ stk # <<>> /\ stk \in Seq(PCs) /\ Whole(stk) /\ Addr \in PCs
      /\ Addr = Head(stk) /\ stk' = Tail(stk) /\ Rest[Addr] \in Seq(PCs)
  BY RestAssumption DEF Push, Turn, Addr, BuilderInv, StackInv
<1>2. StackInv'
  BY <1>1, AdvancesOne
<1>3. CacheInv'
  BY DEF Push, BuilderInv, CacheInv
<1>4. OutInv'
  BY DEF Push, BuilderInv, OutInv, IdsDistinct
<1>5. MemInv'
  BY DEF Push, BuilderInv, MemInv, Results
<1>6. DeckInv'
  <2> DEFINE d == deck.pcs
             new == Append(d, Addr)
  <2>1. /\ d \in Seq(PCs) /\ Len(d) \in Nat /\ DOMAIN d = 1 .. Len(d)
        /\ deck.sym = Symbols(d) /\ \A i \in DOMAIN d : FramesOf[d[i]] # <<>>
    BY DEF BuilderInv, DeckInv
  <2>2. deck' = [pcs |-> new, sym |-> deck.sym \cup Symbolized(Addr)]
    BY DEF Push, Added
  <2> HIDE DEF d
  <2>3. /\ new \in Seq(PCs) /\ DOMAIN new = 1 .. Len(d) + 1 /\ Len(new) = Len(d) + 1
        /\ new[Len(d) + 1] = Addr /\ \A i \in DOMAIN d : new[i] = d[i]
        /\ new # <<>> /\ Last(new) = Addr
        /\ Head(new) = IF d = <<>> THEN Addr ELSE Head(d)
    BY <1>1, <2>1 DEF Last
  <2>4. \A i \in DOMAIN new : FramesOf[new[i]] # <<>>
    BY <2>1, <2>3 DEF Push
  <2>5. deck.sym \cup Symbolized(Addr) = Symbols(new)
    <3>1. Symbolized(Addr) \subseteq {"tried", "failed"}
      BY DEF Symbolized
    <3>2. \A i \in DOMAIN new : i \in DOMAIN d \/ i = Len(d) + 1
      BY <2>1, <2>3
    <3>3. Len(d) + 1 \in DOMAIN new /\ \A i \in DOMAIN d : i \in DOMAIN new
      BY <2>1, <2>3
    <3>4. \A r : (\E i \in DOMAIN new : r \in Symbolized(new[i]))
             <=> (\E i \in DOMAIN d : r \in Symbolized(d[i])) \/ r \in Symbolized(Addr)
      BY <2>3, <3>2, <3>3
    <3> QED BY <2>1, <3>1, <3>4 DEF Symbols
  <2>6. Head(new) \notin DOMAIN cache /\ Chain(Head(new)) = new \o Rest[Addr]
    <3>1. CASE d = <<>>
      <4>1. new = <<Addr>> /\ Head(new) = Addr
        BY <2>3, <3>1
      <4> QED BY <3>1, <4>1 DEF Push, Chain, d
    <3>2. CASE d # <<>>
      <4> DEFINE q == Last(d)
      <4>1. q \in PCs /\ FramesOf[q] # <<>> /\ Joins(q, Addr)
        BY <2>1, <3>2 DEF Push, CanAdd, Last, d
      <4>2. Rest[q] # <<>> /\ Rest[q] \in Seq(PCs)
        BY <1>1, <4>1, RuntimeAssumption, RestAssumption
      <4>3. /\ Head(d) \notin DOMAIN cache /\ Chain(Head(d)) = d \o Rest[q]
            /\ Begins(stk, Rest[q])
        BY <3>2 DEF BuilderInv, DeckInv, d
      <4>4. Addr = Head(Rest[q])
        <5>1. 1 \in DOMAIN Rest[q] /\ Head(Rest[q]) = Rest[q][1]
          BY <4>2
        <5> QED BY <1>1, <4>3, <5>1 DEF Begins
      <4>5. Rest[Addr] = Tail(Rest[q])
        BY <4>1, <4>2, <4>4, RuntimeAssumption
      <4> HIDE DEF q
      <4>6. d \o Rest[q] = new \o Tail(Rest[q])
        BY <1>1, <2>1, <4>2, <4>4, MovesOver
      <4> QED BY <2>3, <3>2, <4>3, <4>5, <4>6
    <3> QED BY <3>1, <3>2
  <2>7. Begins(stk', Rest[Addr])
    BY <1>1, WholeHead
  <2>8. cache' = cache
    BY DEF Push
  <2>9. deck'.pcs = new /\ deck'.sym = deck.sym \cup Symbolized(Addr)
    BY <2>2
  <2> HIDE DEF new
  <2> QED BY <2>2, <2>3, <2>4, <2>5, <2>6, <2>7, <2>8, <2>9 DEF DeckInv, Begins
<1> QED BY <1>2, <1>3, <1>4, <1>5, <1>6 DEF BuilderInv

(* The addresses of the cached location are dropped.                       *)
LEMMA CachedStep ==
  ASSUME BuilderInv, Cached PROVE BuilderInv'
<1>1. /\ stk # <<>> /\ stk \in Seq(PCs) /\ Addr = Head(stk) /\ emitLocation(NoPCs)
      /\ bpc = "locs" /\ UNCHANGED <<lazy, bpc>> /\ deck' = NoPCs
  BY DEF Cached, Turn, Addr, BuilderInv, StackInv, emitLocation
<1>2. CacheInv' /\ OutInv' /\ MemInv'
  <2>1. deck.pcs # <<>> => Rest[Last(deck.pcs)] = <<>>
    BY Complete DEF Cached
  <2> QED BY <1>1, <2>1, Emits
<1>3. Len(cache[Addr].pcs) \in 0 .. Len(stk)
  <2>1. cache[Addr].pcs = Chain(Addr) /\ Addr \in PCs
    BY DEF Cached, BuilderInv, CacheInv
  <2>2. Len(Chain(Addr)) <= Len(stk)
    BY <1>1, WholeHead DEF BuilderInv, StackInv
  <2> QED BY <1>1, <2>1, <2>2, Chains
<1>4. StackInv'
  BY <1>3, Advances DEF Cached, BuilderInv
<1> QED BY <1>1, <1>2, <1>4, EmptyDeck DEF BuilderInv

(* runtime.goexit has no frames and leaves no trace but a flushed deck.    *)
LEMMA GoexitStep ==
  ASSUME BuilderInv, Goexit PROVE BuilderInv'
<1>1. /\ stk # <<>> /\ emitLocation(NoPCs) /\ stk' = Tail(stk)
      /\ bpc = "locs" /\ UNCHANGED <<lazy, bpc>> /\ deck' = NoPCs
  BY DEF Goexit, Turn, emitLocation
<1>2. CacheInv' /\ OutInv' /\ MemInv'
  <2>1. deck.pcs # <<>> => Rest[Last(deck.pcs)] = <<>>
    BY Complete DEF Goexit
  <2> QED BY <1>1, <2>1, Emits
<1>3. StackInv'
  BY <1>1, AdvancesOne DEF BuilderInv
<1> QED BY <1>1, <1>2, <1>3, EmptyDeck DEF BuilderInv

(* The deck is written; the address starts a new one unless it is the very *)
(* location just written.                                                  *)
LEMMA FlushStep ==
  ASSUME BuilderInv, Flush PROVE BuilderInv'
<1>1. /\ stk # <<>> /\ stk \in Seq(PCs) /\ Whole(stk) /\ Addr = Head(stk) /\ Addr \in PCs
      /\ bpc = "locs" /\ UNCHANGED <<lazy, bpc>>
      /\ Addr \notin DOMAIN cache /\ FramesOf[Addr] # <<>>
  BY DEF Flush, Turn, Addr, BuilderInv, StackInv
<1>2. /\ deck.pcs # <<>> /\ Rest[Last(deck.pcs)] = <<>> /\ deck.pcs = Chain(Head(deck.pcs))
      /\ deck.pcs \in Seq(PCs)
  BY Complete DEF Flush, CanAdd, BuilderInv, DeckInv
<1>3. CASE Addr = Head(deck.pcs)
  <2>1. emitLocation(NoPCs) /\ stk' = Drop(stk, Len(deck.pcs)) /\ deck' = NoPCs
    BY <1>3 DEF Flush, emitLocation
  <2>2. Len(deck.pcs) \in 0 .. Len(stk)
    BY <1>1, <1>2, <1>3, WholeHead
  <2>3. StackInv'
    BY <2>1, <2>2, Advances DEF BuilderInv
  <2> QED BY <1>1, <1>2, <2>1, <2>3, Emits, EmptyDeck DEF BuilderInv
<1>4. CASE Addr # Head(deck.pcs)
  <2>1. emitLocation(Added(NoPCs, Addr)) /\ stk' = Tail(stk)
    BY <1>4 DEF Flush
  <2>2. CacheInv' /\ OutInv' /\ MemInv' /\ DOMAIN cache' = DOMAIN cache \cup {Head(deck.pcs)}
    <3> DEFINE d == Added(NoPCs, Addr)
    <3> HIDE DEF d
    <3>1. emitLocation(d)
      BY <2>1 DEF d
    <3> QED BY <1>1, <1>2, <3>1, Emits
  <2>3. StackInv'
    BY <1>1, <2>1, AdvancesOne DEF BuilderInv
  <2>4. deck' = [pcs |-> <<Addr>>, sym |-> Symbolized(Addr)]
    BY <2>1 DEF emitLocation, Added, NoPCs
  <2>5. Begins(stk', Rest[Addr])
    BY <1>1, <2>1, WholeHead
  <2>6. Symbols(<<Addr>>) = Symbolized(Addr)
    BY DEF Symbols, Symbolized
  <2>7. DeckInv'
    <3>1. deck'.pcs = <<Addr>> /\ deck'.sym = Symbolized(Addr) /\ Head(<<Addr>>) = Addr
          /\ Last(<<Addr>>) = Addr /\ <<Addr>> \in Seq(PCs) /\ DOMAIN <<Addr>> = {1}
      BY <1>1, <2>4 DEF Last
    <3>2. Addr \notin DOMAIN cache'
      BY <1>1, <1>4, <2>2
    <3> QED BY <1>1, <2>4, <2>5, <2>6, <3>1, <3>2 DEF DeckInv, Begins, Chain
  <2> QED BY <2>2, <2>3, <2>7 DEF BuilderInv
<1> QED BY <1>3, <1>4

(* Nothing follows the last address, so the deck is complete.              *)
LEMMA LocsReturnStep ==
  ASSUME BuilderInv, LocsReturn PROVE BuilderInv'
<1>1. /\ stk = <<>> /\ emitLocation(NoPCs) /\ UNCHANGED <<lazy, stk>> /\ deck' = NoPCs
      /\ bpc = "locs" /\ bpc' = "located"
  BY DEF LocsReturn, emitLocation
<1>2. CacheInv' /\ OutInv' /\ MemInv'
  <2>1. deck.pcs # <<>> => Rest[Last(deck.pcs)] = <<>>
    BY <1>1, Complete
  <2> QED BY <1>1, <2>1, Emits
<1>3. StackInv'
  BY <1>1 DEF BuilderInv, StackInv
<1> QED BY <1>1, <1>2, <1>3, EmptyDeck DEF BuilderInv

(* A stack that is expanded is whole.                                      *)
LEMMA LocsForStackStep ==
  ASSUME BuilderInv, NEW s \in Seq(PCs), Linked(s), LocsForStack(s) PROVE BuilderInv'
<1>1. StackInv'
  BY WholeStack DEF LocsForStack, StackInv
<1>2. CacheInv' /\ OutInv'
  BY DEF LocsForStack, BuilderInv, CacheInv, OutInv, IdsDistinct
<1>3. MemInv'
  BY DEF LocsForStack, BuilderInv, MemInv, Results
<1>4. DeckInv'
  BY EmptyDeck DEF LocsForStack
<1> QED BY <1>1, <1>2, <1>3, <1>4 DEF BuilderInv

(* A new builder has no locations; the flags are fresh or kept.            *)
LEMMA NewProfileStep ==
  ASSUME BuilderInv, NewProfileBuilder PROVE BuilderInv'
<1>1. CacheInv' /\ OutInv' /\ StackInv'
  BY DEF NewProfileBuilder, BuilderInv, CacheInv, OutInv, IdsDistinct, StackInv
<1>2. DeckInv'
  BY DEF NewProfileBuilder, BuilderInv, DeckInv
<1>3. out = <<>> /\ out' = <<>> /\ lazy' = lazy /\ bpc' = "open" /\ mem' = mapping
  BY DEF NewProfileBuilder, BuilderInv, MemInv
<1>4. \A m : Results(m) = {} /\ Results(m)' = {}
  BY <1>3 DEF Results
<1>5. ASSUME NEW m \in DOMAIN readMapping
      PROVE  \E a, b, c : readMapping[m] = [start |-> a, end |-> b, fake |-> c, funcs |-> {}]
  <2> DEFINE lines == SelectSeq(Maps, Kept)
  <2> HIDE DEF lines
  <2>1. readMapping =
          IF lines = <<>> THEN <<[start |-> 0, end |-> 0, fake |-> TRUE, funcs |-> {}]>>
          ELSE [i \in DOMAIN lines |-> [start |-> lines[i].lo, end |-> lines[i].hi,
                                        fake |-> FALSE, funcs |-> {}]]
    BY DEF readMapping, lines
  <2>2. CASE lines = <<>>
    <3>1. readMapping[m] = [start |-> 0, end |-> 0, fake |-> TRUE, funcs |-> {}]
      <4> DEFINE x == [start |-> 0, end |-> 0, fake |-> TRUE, funcs |-> {}]
      <4> HIDE DEF x
      <4>1. readMapping = <<x>>
        BY <2>1, <2>2 DEF x
      <4>2. m = 1
        BY <1>5, <4>1
      <4> QED BY <4>1, <4>2 DEF x
    <3> QED BY <3>1
  <2>3. CASE lines # <<>>
    <3>1. readMapping[m] = [start |-> lines[m].lo, end |-> lines[m].hi,
                            fake |-> FALSE, funcs |-> {}]
      BY <1>5, <2>1, <2>3
    <3> QED BY <3>1
  <2> QED BY <2>2, <2>3
<1>6. MemInv'
  <2>1. CASE mapping = readMapping
    <3>1. \A m \in DOMAIN mem' :
            mem'[m] = [start |-> mem'[m].start, end |-> mem'[m].end, fake |-> mem'[m].fake,
                       funcs |-> mem'[m].funcs] /\ mem'[m].funcs = {}
      <4> TAKE m \in DOMAIN mem'
      <4>1. PICK a, b, c : mem'[m] = [start |-> a, end |-> b, fake |-> c, funcs |-> {}]
        BY <1>3, <1>5, <2>1
      <4> QED BY <4>1
    <3> QED BY <1>3, <1>4, <3>1 DEF BuilderInv, MemInv
  <2>2. CASE mapping # readMapping
    <3>1. lazy /\ mem' = mem
      BY <1>3, <2>2 DEF mapping, BuilderInv, MemInv
    <3> QED BY <1>3, <1>4, <3>1 DEF BuilderInv, MemInv
  <2> QED BY <2>1, <2>2
<1> QED BY <1>1, <1>2, <1>6 DEF BuilderInv

(* The builder is done with.                                               *)
LEMMA BuildStep ==
  ASSUME BuilderInv, Build PROVE BuilderInv'
<1>1. /\ cache' = <<>> /\ out' = <<>> /\ UNCHANGED <<lazy, mem, deck, stk>> /\ bpc' = "closed"
      /\ DOMAIN cache' = {} /\ DOMAIN out' = {}
  BY DEF Build
<1>2. CacheInv' /\ OutInv'
  <2>1. out' \in Seq({})
    BY <1>1
  <2> QED BY <1>1, <2>1, FS_EmptySet DEF CacheInv, OutInv, IdsDistinct
<1>3. StackInv' /\ DeckInv'
  BY <1>1 DEF BuilderInv, StackInv, DeckInv
<1>4. MemInv'
  BY <1>1 DEF BuilderInv, MemInv, Results
<1> QED BY <1>2, <1>3, <1>4 DEF BuilderInv

(* The writer's own steps, which at most open the builder again.           *)
LEMMA BuilderStutter ==
  ASSUME BuilderInv, UNCHANGED <<lazy, mem, cache, out, deck, stk>>,
         bpc' = bpc \/ (bpc = "located" /\ bpc' = "open")
  PROVE  BuilderInv'
<1>1. CacheInv' /\ OutInv' /\ StackInv' /\ DeckInv'
  BY DEF BuilderInv, CacheInv, OutInv, IdsDistinct, StackInv, DeckInv
<1>2. MemInv'
  BY DEF BuilderInv, MemInv, Results
<1> QED BY <1>1, <1>2 DEF BuilderInv

(* Before the first profile.                                               *)
LEMMA BuilderInit == PbInit => BuilderInv
<1> SUFFICES ASSUME PbInit PROVE BuilderInv
  OBVIOUS
<1>1. /\ cache = <<>> /\ out = <<>> /\ stk = <<>> /\ mem = <<>> /\ deck = NoPCs
      /\ DOMAIN cache = {} /\ DOMAIN out = {} /\ DOMAIN stk = {} /\ DOMAIN mem = {}
  BY DEF PbInit
<1>2. CacheInv /\ StackInv
  BY <1>1, FS_EmptySet DEF CacheInv, StackInv, Whole
<1>3. OutInv
  <2>1. out \in Seq({})
    BY <1>1
  <2> QED BY <1>1, <2>1 DEF OutInv, IdsDistinct
<1>4. DeckInv
  BY <1>1 DEF NoPCs, DeckInv, Symbols
<1>5. MemInv
  BY <1>1 DEF PbInit, MemInv
<1> QED BY <1>2, <1>3, <1>4, <1>5 DEF BuilderInv

(* The record at hand is a key.                                            *)
LEMMA RecInv ==
  ASSUME rec \in Keys \cup {NoKey}, [WriterNext]_allVars PROVE rec' \in Keys \cup {NoKey}
BY DEF WriterNext, allVars, writerVars, NewProfile, EndProfile, Record, MapStep, Continue, Locate,
       BuilderStep, Retry, Sample

(* The invariant of the builder is inductive.                              *)
LEMMA BuilderNext ==
  ASSUME BuilderInv, rec \in Keys \cup {NoKey}, [WriterNext]_allVars PROVE BuilderInv'
<1>1. CASE NewProfile
  BY <1>1, NewProfileStep DEF NewProfile
<1>2. CASE EndProfile
  BY <1>2, BuildStep DEF EndProfile
<1>3. CASE Locate
  <2>1. rec \in Keys
    BY <1>3 DEF Locate, Looked
  <2>2. StackOf[rec] \in Seq(PCs) /\ Linked(StackOf[rec])
    BY <2>1, StackAssumption
  <2>3. Shown(StackOf[rec]) \in Seq(PCs) /\ Linked(Shown(StackOf[rec]))
    BY <2>2, ShownLinked
  <2> QED BY <1>3, <2>2, <2>3, LocsForStackStep DEF Locate
<1>4. CASE BuilderStep
  BY <1>4, PushStep, CachedStep, GoexitStep, FlushStep, LocsReturnStep DEF BuilderStep, Loop
<1>5. CASE MapStep \/ Continue \/ Retry \/ Sample \/ UNCHANGED allVars \/ \E k \in Keys : Record(k)
  BY <1>5, BuilderStutter DEF MapStep, Continue, Retry, Sample, allVars, Record, pbVars
<1> QED BY <1>1, <1>2, <1>3, <1>4, <1>5 DEF WriterNext

(* It always holds.                                                        *)
LEMMA BuilderInvariant == WriterSpec => []BuilderInv
<1>1. WriterInit => BuilderInv /\ rec \in Keys \cup {NoKey}
  BY BuilderInit DEF WriterInit
<1>2. BuilderInv /\ rec \in Keys \cup {NoKey} /\ [WriterNext]_allVars
        => BuilderInv' /\ (rec \in Keys \cup {NoKey})'
  BY BuilderNext, RecInv
<1> QED BY <1>1, <1>2, PTL DEF WriterSpec

(* The ids of the locations of a profile differ: one is given out only for *)
(* an address that has none.                                               *)
THEOREM BuilderIdsDistinct == WriterSpec => []IdsDistinct
<1>1. BuilderInv => IdsDistinct
  BY DEF BuilderInv, OutInv
<1> QED BY BuilderInvariant, <1>1, PTL

(* Every location written is a whole physical frame, whatever the order of *)
(* the stacks, their recursion and what the cache holds.                   *)
THEOREM BuilderInlineChains == WriterSpec => []InlineChains
<1>1. BuilderInv => InlineChains
  BY DEF BuilderInv, OutInv, InlineChains, Chain
<1> QED BY BuilderInvariant, <1>1, PTL

(* The addresses skipped for a cached location are on the stack, and are   *)
(* those of the location.                                                  *)
THEOREM BuilderSkipsOwnFrames == WriterSpec => []SkipsOwnFrames
<1>1. ASSUME BuilderInv, Turn, Addr \in DOMAIN cache PROVE IsPrefix(cache[Addr].pcs, stk)
  <2> DEFINE c == cache[Addr].pcs
  <2>1. c = Chain(Addr) /\ Addr \in PCs /\ Addr = Head(stk) /\ stk # <<>> /\ stk \in Seq(PCs)
    BY <1>1 DEF BuilderInv, CacheInv, StackInv, Turn, Addr
  <2>2. Begins(stk, c) /\ Len(c) <= Len(stk)
    BY <1>1, <2>1, WholeHead DEF BuilderInv, StackInv
  <2>3. c \in Seq(PCs)
    BY <2>1, Chains
  <2> HIDE DEF c
  <2>4. SubSeq(c, 1, Len(c)) = SubSeq(stk, 1, Len(c))
    <3>1. \A i \in 1 .. Len(c) : c[i] = stk[i]
      BY <2>2, <2>3 DEF Begins
    <3> QED BY <2>1, <2>2, <2>3, <3>1
  <2> QED BY <2>2, <2>4 DEF IsPrefix, c
<1>2. BuilderInv => SkipsOwnFrames
  BY <1>1 DEF SkipsOwnFrames
<1> QED BY BuilderInvariant, <1>2, PTL

(* The flag of a mapping tells whether all symbols looked up in it were    *)
(* found.                                                                  *)
THEOREM BuilderHasFunctions == WriterSpec => []HasFunctionsRight
<1>1. ASSUME BuilderInv, bpc = "open", NEW m \in DOMAIN mem
      PROVE  LET here == {p \in UNION {Range(out[i].pcs) :
                                       i \in {j \in DOMAIN out : out[j].mapping = m}} :
                            FramesOf[p] # <<>>}
                 found == here # {} /\ \A p \in here : Head(FramesOf[p]).ok
             IN /\ HasFunctions(m) /\ here # {} => found
                /\ ~lazy => HasFunctions(m) = found
  <2> DEFINE here == {p \in UNION {Range(out[i].pcs) :
                                   i \in {j \in DOMAIN out : out[j].mapping = m}} :
                        FramesOf[p] # <<>>}
             found == here # {} /\ \A p \in here : Head(FramesOf[p]).ok
  <2>1. \A p : p \in here <=> \E i \in DOMAIN out : /\ out[i].mapping = m
                                                   /\ \E j \in DOMAIN out[i].pcs : out[i].pcs[j] = p
    BY <1>1 DEF Range, BuilderInv, OutInv
  <2> HIDE DEF here
  <2>2. Results(m) = {r \in {"tried", "failed"} : \E p \in here : r \in Symbolized(p)}
    BY <2>1 DEF Results, Symbols
  <2>3. "tried" \in Results(m) <=> here # {}
    BY <2>2 DEF Symbolized
  <2>4. "failed" \in Results(m) <=> \E p \in here : ~Head(FramesOf[p]).ok
    BY <2>2 DEF Symbolized
  <2>5. Results(m) \subseteq mem[m].funcs /\ (~lazy => mem[m].funcs = Results(m))
    BY <1>1 DEF BuilderInv, MemInv
  <2>6. HasFunctions(m) /\ here # {} => found
    BY <2>4, <2>5 DEF HasFunctions
  <2>7. ~lazy => HasFunctions(m) = found
    <3>1. Results(m) \subseteq {"tried", "failed"}
      BY <2>2
    <3>2. Results(m) = {"tried"} <=> found
      BY <2>3, <2>4, <3>1
    <3> QED BY <2>5, <3>2 DEF HasFunctions
  <2> QED BY <2>6, <2>7 DEF here
<1>2. BuilderInv => HasFunctionsRight
  BY <1>1 DEF HasFunctionsRight
<1> QED BY BuilderInvariant, <1>2, PTL

-----------------------------------------------------------------------------
(* What is read back.  The functions of the program, and reading with the  *)
(* locations o and the functions fs.                                       *)
AllNames == UNION {Range(Names(p)) : p \in PCs}

LinesIn(o, fs, id) == LET loc == CHOOSE l \in Range(o) : l.id = id
                      IN [k \in DOMAIN loc.lines |-> fs[loc.lines[k]]]

ReadIn(o, fs, locs) == FlattenSeq([i \in DOMAIN locs |-> LinesIn(o, fs, locs[i])])

(* Each location has an id of its own, and its lines name the functions of *)
(* its addresses.                                                          *)
NamedRight(o, fs) ==
  /\ fs \in Seq(AllNames)
  /\ DOMAIN o = 1 .. Len(o) /\ Len(o) \in Nat
  /\ \A i, j \in DOMAIN o : o[i].id = o[j].id => i = j
  /\ \A i \in DOMAIN o :
       /\ o[i].pcs \in Seq(PCs)
       /\ DOMAIN o[i].lines = DOMAIN NamesOf(o[i].pcs)
       /\ \A k \in DOMAIN o[i].lines : /\ o[i].lines[k] \in 1 .. Len(fs)
                                       /\ fs[o[i].lines[k]] = NamesOf(o[i].pcs)[k]

IdsIn(o) == {o[i].id : i \in DOMAIN o}

(* The cache leads to the location of its addresses.                       *)
CachedInv == \A p \in DOMAIN cache : \E i \in DOMAIN out :
               out[i].id = cache[p].id /\ out[i].pcs = cache[p].pcs

(* The stack LocsForStack was called with, and how much of it is read by   *)
(* way of the ids so far: what is not in the deck or left on the stack.    *)
Given == IF hideRuntime THEN Shown(StackOf[rec]) ELSE StackOf[rec]

ReadInv ==
  bpc \in {"locs", "located"} =>
    /\ rec \in Keys
    /\ ids \in Seq(IdsIn(out))
    /\ NamesOf(Expand(Given)) = (Read(ids) \o NamesOf(deck.pcs)) \o NamesOf(stk)
    /\ bpc = "located" => deck.pcs = <<>> /\ stk = <<>>

(* All frames are shown only of a stack that is in package runtime.        *)
HideInv == ~hideRuntime => rec \in Keys /\ Shown(StackOf[rec]) = StackOf[rec]

SamplesInv ==
  /\ DOMAIN samples = 1 .. Len(samples) /\ Len(samples) \in Nat
  /\ \A i \in DOMAIN samples :
       samples[i].locs \in Seq(IdsIn(out)) /\ Read(samples[i].locs) = Called(samples[i].key)

WritingInv == NamedRight(out, funcs) /\ CachedInv /\ ReadInv /\ HideInv /\ SamplesInv

(* The functions of an address, and of a stack.                            *)
NameMap == [p \in PCs |-> Names(p)]

(* Every address has a sequence of function names.                         *)
LEMMA NamesType == Gives(NameMap, PCs, Seq(AllNames))
<1> SUFFICES ASSUME NEW p \in PCs PROVE Names(p) \in Seq(AllNames)
  BY DEF Gives, NameMap
<1> DEFINE S == Range(FramesOf[p])
           n == Len(FramesOf[p])
<1>1. FramesOf[p] \in Seq(S)
  BY FramesAssumption
<1>2. n \in Nat /\ DOMAIN FramesOf[p] = 1 .. n
  BY <1>1
<1> HIDE DEF S, n
<1>3. Names(p) = [k \in 1 .. n |-> FramesOf[p][k].name]
  BY <1>2 DEF Names
<1>4. \A k \in 1 .. n : Names(p)[k] \in AllNames
  <2> TAKE k \in 1 .. n
  <2>1. Names(p)[k] \in Range(Names(p))
    BY <1>3 DEF Range
  <2> QED BY <2>1 DEF AllNames
<1>5. \A k \in 1 .. n : FramesOf[p][k].name \in AllNames
  BY <1>3, <1>4
<1> QED BY <1>2, <1>3, <1>5

(* The functions of a stack are collected from its addresses.              *)
LEMMA NamesAre ==
  ASSUME NEW s \in Seq(PCs) PROVE NamesOf(s) = Collect(NameMap, s)
<1>1. \A i \in DOMAIN s : s[i] \in PCs
  OBVIOUS
<1>2. Mapped(NameMap, s) = [i \in DOMAIN s |-> Names(s[i])]
  BY <1>1 DEF Mapped, NameMap
<1> QED BY <1>2 DEF NamesOf, Collect

(* Of no address, and of one.                                              *)
LEMMA NamesFew ==
  /\ NamesOf(<<>>) = <<>>
  /\ \A p \in PCs : NamesOf(<<p>>) = Names(p) /\ Names(p) \in Seq(AllNames)
<1>1. <<>> \in Seq(PCs) /\ \A p \in PCs : <<p>> \in Seq(PCs) /\ NameMap[p] = Names(p)
  BY DEF NameMap
<1>2. Collect(NameMap, <<>>) = <<>> /\ \A p \in PCs : Collect(NameMap, <<p>>) = NameMap[p]
  BY NamesType, CollectFew
<1>3. \A p \in PCs : NameMap[p] \in Seq(AllNames)
  BY NamesType DEF Gives
<1> QED BY <1>1, <1>2, <1>3, NamesAre

(* Of two stacks, one after the other.                                     *)
LEMMA NamesConcat ==
  ASSUME NEW s \in Seq(PCs), NEW t \in Seq(PCs)
  PROVE  /\ NamesOf(s) \in Seq(AllNames) /\ NamesOf(t) \in Seq(AllNames)
         /\ NamesOf(s \o t) = NamesOf(s) \o NamesOf(t)
<1>1. s \o t \in Seq(PCs)
  OBVIOUS
<1>2. NamesOf(s \o t) = Collect(NameMap, s \o t)
  BY <1>1, NamesAre, Zenon
<1>3. Collect(NameMap, s \o t) = Collect(NameMap, s) \o Collect(NameMap, t)
  BY NamesType, CollectConcat, s \in Seq(PCs), t \in Seq(PCs)
<1>4. Collect(NameMap, s) \in Seq(AllNames) /\ Collect(NameMap, t) \in Seq(AllNames)
  BY NamesType, CollectType
<1> QED BY <1>2, <1>3, <1>4, NamesAre

(* What a reader finds for a location.                                     *)
LEMMA LinesAre ==
  ASSUME NEW o, NEW fs, NamedRight(o, fs), NEW i \in DOMAIN o
  PROVE  /\ LinesIn(o, fs, o[i].id) = NamesOf(o[i].pcs)
         /\ NamesOf(o[i].pcs) \in Seq(AllNames)
<1> DEFINE x == o[i].id
           loc == CHOOSE l \in Range(o) : l.id = x
<1>1. o[i] \in Range(o) /\ \A l \in Range(o) : l.id = x => l = o[i]
  <2>1. o[i] \in Range(o)
    BY DEF Range
  <2>2. \A l \in Range(o) : \E j \in DOMAIN o : l = o[j]
    BY DEF Range
  <2>3. \A j \in DOMAIN o : o[j].id = x => o[j] = o[i]
    BY DEF NamedRight
  <2> QED BY <2>1, <2>2, <2>3
<1>2. loc = o[i]
  BY <1>1
<1> HIDE DEF loc
<1> DEFINE t == NamesOf(o[i].pcs)
           g == o[i].lines
<1>3. /\ DOMAIN g = DOMAIN t /\ o[i].pcs \in Seq(PCs)
      /\ \A k \in DOMAIN g : fs[g[k]] = t[k]
  BY DEF NamedRight
<1>4. t \in Seq(AllNames)
  BY <1>3, NamesConcat
<1> HIDE DEF t, g
<1>5. t = [k \in DOMAIN t |-> t[k]]
  BY <1>4
<1>6. LinesIn(o, fs, x) = [k \in DOMAIN g |-> fs[g[k]]]
  <2>1. LinesIn(o, fs, x) = [k \in DOMAIN loc.lines |-> fs[loc.lines[k]]]
    BY DEF LinesIn, loc
  <2> QED BY <1>2, <2>1 DEF g
<1>7. [k \in DOMAIN g |-> fs[g[k]]] = t
  BY <1>3, <1>5
<1> QED BY <1>4, <1>6, <1>7 DEF t

LineMap(o, fs) == [x \in IdsIn(o) |-> LinesIn(o, fs, x)]

(* Every written location reads as a sequence of function names.           *)
LEMMA LinesType ==
  ASSUME NEW o, NEW fs, NamedRight(o, fs)
  PROVE  Gives(LineMap(o, fs), IdsIn(o), Seq(AllNames))
BY LinesAre DEF Gives, LineMap, IdsIn

(* What locations read as is collected from their lines.                   *)
LEMMA ReadAre ==
  ASSUME NEW o, NEW fs, NEW s \in Seq(IdsIn(o)) PROVE ReadIn(o, fs, s) = Collect(LineMap(o, fs), s)
<1>1. \A i \in DOMAIN s : s[i] \in IdsIn(o)
  OBVIOUS
<1>2. Mapped(LineMap(o, fs), s) = [i \in DOMAIN s |-> LinesIn(o, fs, s[i])]
  BY <1>1 DEF Mapped, LineMap
<1> QED BY <1>2 DEF ReadIn, Collect

(* No location reads as nothing, and one as the addresses it stands for.   *)
LEMMA ReadFew ==
  ASSUME NEW o, NEW fs, NamedRight(o, fs)
  PROVE  /\ ReadIn(o, fs, <<>>) = <<>>
         /\ \A i \in DOMAIN o : /\ o[i].id \in IdsIn(o)
                                /\ ReadIn(o, fs, <<o[i].id>>) = NamesOf(o[i].pcs)
<1>0. Gives(LineMap(o, fs), IdsIn(o), Seq(AllNames))
  BY LinesType
<1>1. /\ <<>> \in Seq(IdsIn(o))
      /\ \A x \in IdsIn(o) : <<x>> \in Seq(IdsIn(o)) /\ LineMap(o, fs)[x] = LinesIn(o, fs, x)
  BY DEF LineMap
<1>2. /\ Collect(LineMap(o, fs), <<>>) = <<>>
      /\ \A x \in IdsIn(o) : Collect(LineMap(o, fs), <<x>>) = LineMap(o, fs)[x]
  BY <1>0, CollectFew
<1>3. ReadIn(o, fs, <<>>) = <<>>
  BY <1>1, <1>2, ReadAre
<1>4. ASSUME NEW i \in DOMAIN o
      PROVE  o[i].id \in IdsIn(o) /\ ReadIn(o, fs, <<o[i].id>>) = NamesOf(o[i].pcs)
  <2> DEFINE x == o[i].id
  <2>1. x \in IdsIn(o) /\ LinesIn(o, fs, x) = NamesOf(o[i].pcs)
    BY LinesAre DEF IdsIn
  <2> HIDE DEF x
  <2>2. ReadIn(o, fs, <<x>>) = Collect(LineMap(o, fs), <<x>>)
    BY <1>1, <2>1, ReadAre
  <2> QED BY <1>1, <1>2, <2>1, <2>2 DEF x
<1> QED BY <1>3, <1>4

(* Locations read one after the other.                                     *)
LEMMA ReadConcat ==
  ASSUME NEW o, NEW fs, NamedRight(o, fs), NEW s \in Seq(IdsIn(o)), NEW t \in Seq(IdsIn(o))
  PROVE  /\ ReadIn(o, fs, s) \in Seq(AllNames) /\ ReadIn(o, fs, t) \in Seq(AllNames)
         /\ ReadIn(o, fs, s \o t) = ReadIn(o, fs, s) \o ReadIn(o, fs, t)
<1>0. Gives(LineMap(o, fs), IdsIn(o), Seq(AllNames))
  BY LinesType
<1>1. s \o t \in Seq(IdsIn(o))
  OBVIOUS
<1>2. ReadIn(o, fs, s \o t) = Collect(LineMap(o, fs), s \o t)
  BY <1>1, ReadAre, Zenon
<1>3. Collect(LineMap(o, fs), s \o t) = Collect(LineMap(o, fs), s) \o Collect(LineMap(o, fs), t)
  BY <1>0, CollectConcat, s \in Seq(IdsIn(o)), t \in Seq(IdsIn(o))
<1>4. /\ Collect(LineMap(o, fs), s) \in Seq(AllNames)
      /\ Collect(LineMap(o, fs), t) \in Seq(AllNames)
  BY <1>0, CollectType
<1> QED BY <1>2, <1>3, <1>4, ReadAre

(* What was written reads the same when there is more.                     *)
LEMMA ReadGrows ==
  ASSUME NEW o, NEW fs, NamedRight(o, fs), NEW p, NEW gs, NamedRight(p, gs),
         \A i \in DOMAIN o : i \in DOMAIN p /\ p[i] = o[i],
         NEW s \in Seq(IdsIn(o))
  PROVE  s \in Seq(IdsIn(p)) /\ ReadIn(p, gs, s) = ReadIn(o, fs, s)
<1>1. IdsIn(o) \subseteq IdsIn(p)
  BY DEF IdsIn
<1>2. s \in Seq(IdsIn(p))
  BY <1>1
<1>3. ASSUME NEW i \in DOMAIN s PROVE LinesIn(p, gs, s[i]) = LinesIn(o, fs, s[i])
  <2>1. PICK j \in DOMAIN o : s[i] = o[j].id
    BY DEF IdsIn
  <2>2. LinesIn(o, fs, o[j].id) = NamesOf(o[j].pcs)
    BY LinesAre
  <2>3. LinesIn(p, gs, p[j].id) = NamesOf(p[j].pcs)
    BY LinesAre
  <2> QED BY <2>1, <2>2, <2>3
<1>4. [i \in DOMAIN s |-> LinesIn(p, gs, s[i])] = [i \in DOMAIN s |-> LinesIn(o, fs, s[i])]
  BY <1>3
<1> QED BY <1>2, <1>4 DEF ReadIn
-----------------------------------------------------------------------------
(* The functions known once those of a location are.                       *)
Known(fs, names) == FoldLeft(Learn, fs, names)

(* The recursion in FoldLeft, over the places in D.                        *)
IsFold(f, fs, names, D) ==
  f = [s \in SUBSET D |-> IF s = {} THEN fs ELSE Learn(f[s \ {Max(s)}], names[Max(s)])]

(* The last place is the greatest.                                         *)
LEMMA MaxIs ==
  ASSUME NEW n \in Nat, NEW s \in SUBSET (1 .. n + 1), n + 1 \in s PROVE Max(s) = n + 1
<1>1. \A y \in s : y \in 1 .. n + 1 /\ n + 1 >= y
  OBVIOUS
<1>2. Max(s) \in s /\ \A y \in s : Max(s) >= y
  BY <1>1 DEF Max
<1>3. Max(s) \in 1 .. n + 1 /\ Max(s) >= n + 1
  BY <1>1, <1>2
<1> QED BY <1>3

(* The functions known after a location are the end of this recursion.     *)
LEMMA FoldIs ==
  ASSUME NEW fs, NEW names
  PROVE  Known(fs, names) = (CHOOSE f : IsFold(f, fs, names, DOMAIN names))[DOMAIN names]
BY DEF Known, FoldLeft, MapThenFoldSet, IsFold

(* It has a solution.                                                      *)
LEMMA FoldExists ==
  ASSUME NEW fs, NEW names PROVE \A n \in Nat : \E f : IsFold(f, fs, names, 1 .. n)
<1> DEFINE T == {n \in Nat : \E f : IsFold(f, fs, names, 1 .. n)}
<1>1. 0 \in T
  <2>1. SUBSET (1 .. 0) = {{}}
    OBVIOUS
  <2>2. IsFold([s \in SUBSET (1 .. 0) |-> fs], fs, names, 1 .. 0)
    BY <2>1 DEF IsFold
  <2> QED BY <2>2
<1>2. ASSUME NEW n \in Nat, n \in T PROVE n + 1 \in T
  <2>1. PICK f : IsFold(f, fs, names, 1 .. n)
    BY <1>2
  <2> DEFINE g == [s \in SUBSET (1 .. n + 1) |->
                     IF s \in SUBSET (1 .. n) THEN f[s] ELSE Learn(f[s \ {n + 1}], names[n + 1])]
  <2>2. ASSUME NEW s \in SUBSET (1 .. n + 1)
        PROVE  g[s] = IF s = {} THEN fs ELSE Learn(g[s \ {Max(s)}], names[Max(s)])
    <3>1. CASE s \in SUBSET (1 .. n)
      <4>1. s \ {Max(s)} \in SUBSET (1 .. n) /\ s \ {Max(s)} \in SUBSET (1 .. n + 1)
        BY <3>1
      <4>2. g[s] = f[s] /\ g[s \ {Max(s)}] = f[s \ {Max(s)}]
        BY <3>1, <4>1
      <4>3. f[s] = IF s = {} THEN fs ELSE Learn(f[s \ {Max(s)}], names[Max(s)])
        BY <2>1, <3>1 DEF IsFold
      <4> QED BY <4>2, <4>3
    <3>2. CASE s \notin SUBSET (1 .. n)
      <4>1. n + 1 \in s
        BY <3>2
      <4>2. Max(s) = n + 1
        BY <4>1, MaxIs
      <4>3. s \ {n + 1} \in SUBSET (1 .. n) /\ s \ {n + 1} \in SUBSET (1 .. n + 1)
        OBVIOUS
      <4>4. g[s \ {n + 1}] = f[s \ {n + 1}] /\ g[s] = Learn(f[s \ {n + 1}], names[n + 1])
        BY <3>2, <4>3
      <4> QED BY <4>1, <4>2, <4>4
    <3> QED BY <3>1, <3>2
  <2>3. g = [s \in SUBSET (1 .. n + 1) |-> g[s]]
    OBVIOUS
  <2> HIDE DEF g
  <2>4. IsFold(g, fs, names, 1 .. n + 1)
    BY <2>2, <2>3 DEF IsFold
  <2> QED BY <2>4
<1> HIDE DEF T
<1>3. \A n \in Nat : n \in T
  BY <1>1, <1>2, SetInduction
<1> QED BY <1>3 DEF T

(* ks goes on from fs and has the first n names.                           *)
Knows(ks, fs, names, n) ==
  /\ Len(fs) <= Len(ks) /\ \A i \in 1 .. Len(fs) : ks[i] = fs[i]
  /\ \A k \in 1 .. n : \E i \in 1 .. Len(ks) : ks[i] = names[k]

(* Learning a name keeps the ones before and adds that one.                *)
LEMMA Learned ==
  ASSUME NEW S, NEW ks \in Seq(S), NEW x \in S
  PROVE  /\ Learn(ks, x) \in Seq(S) /\ Len(ks) <= Len(Learn(ks, x))
         /\ \A i \in 1 .. Len(ks) : Learn(ks, x)[i] = ks[i]
         /\ \E i \in 1 .. Len(Learn(ks, x)) : Learn(ks, x)[i] = x
<1>1. CASE x \in Range(ks)
  <2>1. PICK i \in DOMAIN ks : ks[i] = x
    BY <1>1 DEF Range
  <2>2. i \in 1 .. Len(ks)
    OBVIOUS
  <2> QED BY <1>1, <2>1, <2>2 DEF Learn
<1>2. CASE x \notin Range(ks)
  <2>1. Learn(ks, x) = Append(ks, x)
    BY <1>2 DEF Learn
  <2>2. /\ Append(ks, x) \in Seq(S) /\ Len(Append(ks, x)) = Len(ks) + 1
        /\ Append(ks, x)[Len(ks) + 1] = x /\ Len(ks) \in Nat
        /\ \A i \in 1 .. Len(ks) : Append(ks, x)[i] = ks[i]
    OBVIOUS
  <2> HIDE DEF Learn
  <2>3. Len(ks) + 1 \in 1 .. Len(Append(ks, x)) /\ Len(ks) <= Len(Append(ks, x))
    BY <2>2
  <2> QED BY <2>1, <2>2, <2>3
<1> QED BY <1>1, <1>2

(* After a location its functions are known, and those before are kept.    *)
LEMMA KnownAll ==
  ASSUME NEW S, NEW fs \in Seq(S), NEW names \in Seq(S)
  PROVE  Known(fs, names) \in Seq(S) /\ Knows(Known(fs, names), fs, names, Len(names))
<1> DEFINE l == Len(names)
           f == CHOOSE f : IsFold(f, fs, names, 1 .. l)
           T == {n \in Nat : n <= l => f[1 .. n] \in Seq(S) /\ Knows(f[1 .. n], fs, names, n)}
<1>1. l \in Nat /\ DOMAIN names = 1 .. l /\ \A i \in 1 .. l : names[i] \in S
  OBVIOUS
<1> HIDE DEF l
<1>2. IsFold(f, fs, names, 1 .. l)
  BY <1>1, FoldExists
<1>3. Known(fs, names) = f[1 .. l]
  BY <1>1, FoldIs
<1> HIDE DEF f
<1>4. 0 \in T
  <2>1. f[1 .. 0] = fs
    BY <1>2 DEF IsFold
  <2>2. Len(fs) \in Nat
    OBVIOUS
  <2> QED BY <2>1, <2>2 DEF Knows
<1>5. ASSUME NEW n \in Nat, n \in T PROVE n + 1 \in T
  <2> SUFFICES ASSUME n + 1 <= l
               PROVE  f[1 .. n + 1] \in Seq(S) /\ Knows(f[1 .. n + 1], fs, names, n + 1)
    OBVIOUS
  <2> DEFINE ks == f[1 .. n]
             x == names[n + 1]
  <2>1. ks \in Seq(S) /\ Knows(ks, fs, names, n) /\ x \in S
    BY <1>1, <1>5
  <2>2. f[1 .. n + 1] = Learn(ks, x)
    <3>1. (1 .. n + 1) \in SUBSET (1 .. l) /\ n + 1 \in 1 .. n + 1 /\ (1 .. n + 1) \ {n + 1} = 1 .. n
      BY <1>1
    <3>2. Max(1 .. n + 1) = n + 1
      BY <3>1, MaxIs
    <3> QED BY <1>2, <3>1, <3>2 DEF IsFold
  <2> HIDE DEF ks, x
  <2> DEFINE m == Learn(ks, x)
  <2>0. /\ m \in Seq(S) /\ Len(ks) <= Len(m)
        /\ \A i \in 1 .. Len(ks) : m[i] = ks[i]
        /\ \E i \in 1 .. Len(m) : m[i] = x
    BY <2>1, Learned, Zenon
  <2> HIDE DEF m
  <2>3. /\ m \in Seq(S) /\ Len(ks) <= Len(m) /\ Len(ks) \in Nat /\ Len(m) \in Nat /\ Len(fs) \in Nat
        /\ \A i \in 1 .. Len(ks) : m[i] = ks[i]
        /\ \E i \in 1 .. Len(m) : m[i] = x
    BY <2>0, <2>1
  <2>4. Len(fs) <= Len(m) /\ \A i \in 1 .. Len(fs) : m[i] = fs[i]
    BY <2>1, <2>3 DEF Knows
  <2>5. ASSUME NEW k \in 1 .. n + 1 PROVE \E i \in 1 .. Len(m) : m[i] = names[k]
    <3>1. CASE k = n + 1
      BY <2>3, <3>1 DEF x
    <3>2. CASE k # n + 1
      <4>1. k \in 1 .. n
        BY <3>2
      <4>2. PICK i \in 1 .. Len(ks) : ks[i] = names[k]
        BY <2>1, <4>1 DEF Knows
      <4>3. i \in 1 .. Len(m)
        BY <2>3
      <4> QED BY <2>3, <4>2, <4>3
    <3> QED BY <3>1, <3>2
  <2> QED BY <2>2, <2>3, <2>4, <2>5 DEF Knows, m
<1> HIDE DEF T
<1>6. \A n \in Nat : n \in T
  BY <1>4, <1>5, SetInduction
<1> QED BY <1>1, <1>3, <1>6 DEF T, l

-----------------------------------------------------------------------------
(* The location that emitLocation writes.                                  *)
LEMMA WrittenLines ==
  ASSUME emitLocation(deck'), deck.pcs # <<>>
  PROVE  LET names == NamesOf(deck.pcs)
             known == Known(funcs, names)
         IN /\ funcs' = known
            /\ \E new : /\ out' = Append(out, new) /\ new.id = Id /\ new.pcs = deck.pcs
                        /\ new.lines = [k \in DOMAIN names |->
                                          CHOOSE i \in DOMAIN known : known[i] = names[k]]
            /\ DOMAIN cache' = DOMAIN cache \cup {Head(deck.pcs)}
            /\ \A p \in DOMAIN cache' :
                 cache'[p] = IF p = Head(deck.pcs) THEN [id |-> Id, pcs |-> deck.pcs] ELSE cache[p]
<1> DEFINE names == NamesOf(deck.pcs)
           known == Known(funcs, names)
           L == [k \in DOMAIN names |-> CHOOSE i \in DOMAIN known : known[i] = names[k]]
<1>1. WriteLocation
  BY DEF emitLocation
<1>2. /\ cache' = [p \in DOMAIN cache \cup {Head(deck.pcs)} |->
                     IF p = Head(deck.pcs) THEN [id |-> Id, pcs |-> deck.pcs] ELSE cache[p]]
      /\ funcs' = known
  BY <1>1, Zenon DEF WriteLocation, Known
<1>3. out' = Append(out, [id |-> Id, pcs |-> deck.pcs, mapping |-> MappingOf(Head(deck.pcs)),
                         lines |-> L])
  BY <1>1, Zenon DEF WriteLocation, Known
<1> HIDE DEF L, known
<1>4. \E new : out' = Append(out, new) /\ new.id = Id /\ new.pcs = deck.pcs /\ new.lines = L
  BY <1>3
<1> QED BY <1>2, <1>4, Zenon DEF L, known

(* A location that is written names the functions of its addresses.        *)
LEMMA EmitNames ==
  ASSUME BuilderInv, NamedRight(out, funcs), CachedInv, emitLocation(deck'),
         deck.pcs # <<>> => Rest[Last(deck.pcs)] = <<>>,
         lazy' = lazy, bpc # "closed", bpc' # "closed"
  PROVE  /\ NamedRight(out', funcs') /\ CachedInv'
         /\ \A i \in DOMAIN out : i \in DOMAIN out' /\ out'[i] = out[i]
         /\ deck.pcs # <<>> => \E i \in DOMAIN out' : out'[i].id = Id /\ out'[i].pcs = deck.pcs
<1>1. CASE deck.pcs = <<>>
  BY <1>1 DEF emitLocation, CachedInv
<1>2. CASE deck.pcs # <<>>
  <2> DEFINE names == NamesOf(deck.pcs)
             known == Known(funcs, names)
             n == Len(out) + 1
  <2>1. PICK new : /\ out' = Append(out, new) /\ new.id = Id /\ new.pcs = deck.pcs
                   /\ new.lines = [k \in DOMAIN names |->
                                     CHOOSE i \in DOMAIN known : known[i] = names[k]]
    BY <1>2, WrittenLines
  <2>2. /\ funcs' = known /\ DOMAIN cache' = DOMAIN cache \cup {Head(deck.pcs)}
        /\ \A p \in DOMAIN cache' :
             cache'[p] = IF p = Head(deck.pcs) THEN [id |-> Id, pcs |-> deck.pcs] ELSE cache[p]
    BY <1>2, WrittenLines
  <2>3. OutInv'
    BY Emits
  <2>4. PICK S : out \in Seq(S)
    BY DEF BuilderInv, OutInv
  <2>5. /\ n \in Nat /\ DOMAIN out' = 1 .. n /\ Len(out') = n /\ out'[n] = new
        /\ DOMAIN out = 1 .. Len(out) /\ Len(out) \in Nat
        /\ \A i \in DOMAIN out : i \in DOMAIN out' /\ out'[i] = out[i]
        /\ \A i \in DOMAIN out' : i \in DOMAIN out \/ i = n
    <3>1. out \in Seq(S \cup {new})
      BY <2>4
    <3> QED BY <2>1, <3>1
  <2>6. deck.pcs \in Seq(PCs) /\ names \in Seq(AllNames) /\ funcs \in Seq(AllNames)
    BY NamesConcat DEF BuilderInv, DeckInv, NamedRight
  <2> HIDE DEF names, n
  <2>7. known \in Seq(AllNames) /\ Knows(known, funcs, names, Len(names))
    BY <2>6, KnownAll
  <2> HIDE DEF known
  <2>8. /\ Len(funcs) <= Len(known) /\ Len(known) \in Nat /\ Len(funcs) \in Nat
        /\ \A i \in 1 .. Len(funcs) : known[i] = funcs[i] /\ i \in 1 .. Len(known)
    BY <2>6, <2>7 DEF Knows
  <2>9. ASSUME NEW k \in DOMAIN names
        PROVE  new.lines[k] \in 1 .. Len(known) /\ known[new.lines[k]] = names[k]
    <3>1. k \in 1 .. Len(names) /\ DOMAIN known = 1 .. Len(known)
      BY <2>6, <2>7, <2>9
    <3>2. \E i \in DOMAIN known : known[i] = names[k]
      BY <2>7, <3>1 DEF Knows
    <3>3. new.lines[k] = CHOOSE i \in DOMAIN known : known[i] = names[k]
      BY <2>1, <2>9
    <3>4. new.lines[k] \in DOMAIN known /\ known[new.lines[k]] = names[k]
      BY <3>2, <3>3, Zenon
    <3> QED BY <3>1, <3>4
  <2>10. ASSUME NEW i \in DOMAIN out'
         PROVE  /\ out'[i].pcs \in Seq(PCs)
                /\ DOMAIN out'[i].lines = DOMAIN NamesOf(out'[i].pcs)
                /\ \A k \in DOMAIN out'[i].lines : /\ out'[i].lines[k] \in 1 .. Len(known)
                                                   /\ known[out'[i].lines[k]] = NamesOf(out'[i].pcs)[k]
    <3>1. CASE i = n
      <4>1. DOMAIN new.lines = DOMAIN names /\ new.pcs = deck.pcs
        BY <2>1
      <4>2. out'[i] = new
        BY <2>5, <3>1
      <4>3. NamesOf(new.pcs) = names
        BY <4>1 DEF names
      <4> QED BY <2>6, <2>9, <4>1, <4>2, <4>3, Zenon
    <3>2. CASE i \in DOMAIN out
      BY <2>5, <2>8, <3>2 DEF NamedRight
    <3> QED BY <2>5, <3>1, <3>2
  <2>11. NamedRight(out', funcs')
    BY <2>2, <2>3, <2>5, <2>7, <2>10 DEF NamedRight, OutInv, IdsDistinct
  <2>12. CachedInv'
    <3> SUFFICES ASSUME NEW p \in DOMAIN cache'
                 PROVE  \E i \in DOMAIN out' : out'[i].id = cache'[p].id /\ out'[i].pcs = cache'[p].pcs
      BY DEF CachedInv
    <3>1. CASE p = Head(deck.pcs)
      BY <2>1, <2>2, <2>5, <3>1
    <3>2. CASE p # Head(deck.pcs)
      BY <2>2, <2>5, <3>2 DEF CachedInv
    <3> QED BY <3>1, <3>2
  <2>13. n \in DOMAIN out' /\ out'[n].id = Id /\ out'[n].pcs = deck.pcs
    BY <2>1, <2>5
  <2> QED BY <2>5, <2>11, <2>12, <2>13
<1> QED BY <1>1, <1>2

(* What is emitted reads as what is in the deck.                           *)
LEMMA EmitRead ==
  ASSUME BuilderInv, NamedRight(out, funcs), CachedInv, emitLocation(deck'),
         deck.pcs # <<>> => Rest[Last(deck.pcs)] = <<>>,
         lazy' = lazy, bpc # "closed", bpc' # "closed", ids \in Seq(IdsIn(out))
  PROVE  /\ ids \o Emitted \in Seq(IdsIn(out'))
         /\ ReadIn(out', funcs', ids \o Emitted) = ReadIn(out, funcs, ids) \o NamesOf(deck.pcs)
         /\ ReadIn(out, funcs, ids) \o NamesOf(deck.pcs) \in Seq(AllNames)
<1>1. /\ NamedRight(out', funcs') /\ \A i \in DOMAIN out : i \in DOMAIN out' /\ out'[i] = out[i]
      /\ deck.pcs # <<>> => \E i \in DOMAIN out' : out'[i].id = Id /\ out'[i].pcs = deck.pcs
  BY EmitNames
<1>2. /\ ids \in Seq(IdsIn(out'))
      /\ ReadIn(out', funcs', ids) = ReadIn(out, funcs, ids)
  BY <1>1, ReadGrows
<1>3. Emitted \in Seq(IdsIn(out')) /\ ReadIn(out', funcs', Emitted) = NamesOf(deck.pcs)
  <2>1. CASE deck.pcs = <<>>
    BY <1>1, <2>1, NamesFew, ReadFew DEF Emitted
  <2>2. CASE deck.pcs # <<>>
    <3>1. PICK i \in DOMAIN out' : out'[i].id = Id /\ out'[i].pcs = deck.pcs
      BY <1>1, <2>2
    <3>2. Id \in IdsIn(out') /\ ReadIn(out', funcs', <<Id>>) = NamesOf(deck.pcs)
      BY <1>1, <3>1, ReadFew
    <3> QED BY <2>2, <3>2 DEF Emitted
  <2> QED BY <2>1, <2>2
<1>4. /\ ReadIn(out', funcs', ids \o Emitted) = ReadIn(out', funcs', ids) \o ReadIn(out', funcs', Emitted)
      /\ ReadIn(out', funcs', ids) \in Seq(AllNames) /\ ReadIn(out', funcs', Emitted) \in Seq(AllNames)
  BY <1>1, <1>2, <1>3, ReadConcat
<1>5. ids \o Emitted \in Seq(IdsIn(out'))
  BY <1>2, <1>3
<1>6. ReadIn(out', funcs', ids) \o ReadIn(out', funcs', Emitted) \in Seq(AllNames)
  BY <1>4
<1> QED BY <1>2, <1>3, <1>4, <1>5, <1>6

-----------------------------------------------------------------------------
(* Every step keeps the invariant.                                         *)

(* A stack that begins with some addresses reads as them and the rest.     *)
LEMMA Splits ==
  ASSUME NEW s \in Seq(PCs), NEW c \in Seq(PCs), Begins(s, c), Len(c) <= Len(s)
  PROVE  /\ Drop(s, Len(c)) \in Seq(PCs)
         /\ NamesOf(s) = NamesOf(c) \o NamesOf(Drop(s, Len(c)))
<1> DEFINE n == Len(c)
           r == Drop(s, n)
           t == c \o r
<1>1. n \in 0 .. Len(s) /\ Len(s) \in Nat /\ DOMAIN c = 1 .. n
  OBVIOUS
<1>2. /\ r \in Seq(PCs) /\ Len(r) = Len(s) - n
      /\ \A i \in 1 .. Len(s) - n : r[i] = s[i + n]
  BY <1>1, Dropped
<1> HIDE DEF r
<1>3. /\ t \in Seq(PCs) /\ Len(t) = n + Len(r)
      /\ \A i \in 1 .. n + Len(r) : t[i] = IF i <= n THEN c[i] ELSE r[i - n]
  BY <1>2
<1> HIDE DEF n, t
<1>4. ASSUME NEW i \in 1 .. Len(s) PROVE t[i] = s[i]
  <2>1. CASE i <= n
    <3>1. i \in 1 .. n /\ i \in 1 .. n + Len(r)
      BY <1>1, <1>2, <2>1
    <3>2. t[i] = c[i]
      BY <1>3, <2>1, <3>1
    <3> QED BY <1>1, <3>1, <3>2 DEF Begins
  <2>2. CASE ~(i <= n)
    <3>1. i - n \in 1 .. Len(s) - n /\ (i - n) + n = i /\ i \in 1 .. n + Len(r)
      BY <1>1, <1>2, <2>2
    <3> QED BY <1>2, <1>3, <2>2, <3>1
  <2> QED BY <2>1, <2>2
<1>5. s = t
  <2>1. t \in Seq(PCs) /\ Len(t) = Len(s)
    BY <1>1, <1>2, <1>3
  <2> QED BY <1>4, <2>1
<1>6. NamesOf(c \o r) = NamesOf(c) \o NamesOf(r)
  BY <1>2, NamesConcat
<1> QED BY <1>2, <1>5, <1>6 DEF t, r, n

(* The first address of a stack and the rest.                              *)
LEMMA SplitsHead ==
  ASSUME NEW s \in Seq(PCs), s # <<>>
  PROVE  /\ Head(s) \in PCs /\ Tail(s) \in Seq(PCs)
         /\ NamesOf(s) = Names(Head(s)) \o NamesOf(Tail(s))
<1>1. Head(s) \in PCs /\ Tail(s) \in Seq(PCs) /\ <<Head(s)>> \in Seq(PCs)
  OBVIOUS
<1>2. s = <<Head(s)>> \o Tail(s)
  OBVIOUS
<1>3. NamesOf(<<Head(s)>> \o Tail(s)) = NamesOf(<<Head(s)>>) \o NamesOf(Tail(s))
  BY <1>1, NamesConcat, Zenon
<1>4. NamesOf(<<Head(s)>>) = Names(Head(s))
  BY <1>1, NamesFew
<1> QED BY <1>1, <1>2, <1>3, <1>4

(* Reading in a state and in the next.                                     *)
LEMMA ReadIs == \A locs : Read(locs) = ReadIn(out, funcs, locs)
BY DEF Read, Lines, ReadIn, LinesIn

(* Samples read the same while locations are only added.                   *)
LEMMA SamplesKept ==
  ASSUME SamplesInv, NamedRight(out, funcs), NamedRight(out', funcs'),
         \A i \in DOMAIN out : i \in DOMAIN out' /\ out'[i] = out[i], samples' = samples
  PROVE  SamplesInv'
<1>1. ASSUME NEW i \in DOMAIN samples
      PROVE  /\ samples[i].locs \in Seq(IdsIn(out'))
             /\ ReadIn(out', funcs', samples[i].locs) = Called(samples[i].key)
  <2>1. samples[i].locs \in Seq(IdsIn(out)) /\ ReadIn(out, funcs, samples[i].locs) = Called(samples[i].key)
    BY ReadIs DEF SamplesInv
  <2> QED BY <2>1, ReadGrows
<1>2. \A i \in DOMAIN samples : Read(samples[i].locs)' = ReadIn(out', funcs', samples[i].locs)
  BY DEF Read, Lines, ReadIn, LinesIn
<1> QED BY <1>1, <1>2 DEF SamplesInv

(* A turn of the loop that writes the deck.                                *)
LEMMA TurnWrites ==
  ASSUME BuilderInv, WritingInv, emitLocation(deck'), UNCHANGED <<lazy, rec, hideRuntime, samples>>,
         deck.pcs # <<>> => Rest[Last(deck.pcs)] = <<>>,
         bpc = "locs", bpc' \in {"locs", "located"},
         ids' \in Seq(IdsIn(out')),
         NamesOf(Expand(Given)) = (ReadIn(out', funcs', ids') \o NamesOf(deck'.pcs)) \o NamesOf(stk'),
         bpc' = "located" => deck'.pcs = <<>> /\ stk' = <<>>
  PROVE  WritingInv'
<1>1. /\ NamedRight(out', funcs') /\ CachedInv'
      /\ \A i \in DOMAIN out : i \in DOMAIN out' /\ out'[i] = out[i]
  BY EmitNames DEF WritingInv
<1>2. SamplesInv'
  BY <1>1, SamplesKept DEF WritingInv
<1>3. HideInv'
  BY DEF WritingInv, HideInv
<1>4. ReadInv'
  <2>1. rec \in Keys
    BY DEF WritingInv, ReadInv
  <2>2. Given' = Given
    BY DEF Given
  <2>3. Read(ids)' = ReadIn(out', funcs', ids')
    BY DEF Read, Lines, ReadIn, LinesIn
  <2> QED BY <2>1, <2>2, <2>3 DEF ReadInv
<1> QED BY <1>1, <1>2, <1>3, <1>4 DEF WritingInv

(* What was read, is in the deck, comes next and is left on the stack: how *)
(* a turn of the loop regroups it.                                         *)
LEMMA Regroup ==
  \A a, b, c, d \in Seq(AllNames) :
    /\ Cat(Cat(a, b), Cat(c, d)) = Cat(Cat(a, Cat(b, c)), d)
    /\ Cat(Cat(a, b), Cat(c, d)) = Cat(Cat(Cat(a, b), c), d)
    /\ Cat(Cat(a, b), Cat(c, d)) = Cat(Cat(Cat(Cat(a, b), c), <<>>), d)
    /\ Cat(Cat(a, b), Cat(<<>>, d)) = Cat(Cat(Cat(a, b), <<>>), d)
    /\ Cat(Cat(a, b), d) = Cat(Cat(Cat(a, b), <<>>), d)
<1> DEFINE S == Seq(AllNames)
<1>1. \A a, b \in S : Cat(a, b) \in S /\ Cat(a, <<>>) = a /\ Cat(<<>>, a) = a
  BY CatFacts
<1>2. \A a, b, c \in S : Cat(Cat(a, b), c) = Cat(a, Cat(b, c))
  BY CatFacts
<1> HIDE DEF S
<1> SUFFICES ASSUME NEW a \in S, NEW b \in S, NEW c \in S, NEW d \in S
             PROVE  /\ Cat(Cat(a, b), Cat(c, d)) = Cat(Cat(a, Cat(b, c)), d)
                    /\ Cat(Cat(a, b), Cat(c, d)) = Cat(Cat(Cat(a, b), c), d)
                    /\ Cat(Cat(a, b), Cat(c, d)) = Cat(Cat(Cat(Cat(a, b), c), <<>>), d)
                    /\ Cat(Cat(a, b), Cat(<<>>, d)) = Cat(Cat(Cat(a, b), <<>>), d)
                    /\ Cat(Cat(a, b), d) = Cat(Cat(Cat(a, b), <<>>), d)
  BY DEF S
<1>3. Cat(a, b) \in S /\ Cat(Cat(a, b), c) \in S
  BY <1>1
<1>4. Cat(Cat(Cat(a, b), c), d) = Cat(Cat(a, b), Cat(c, d)) /\ Cat(Cat(a, b), c) = Cat(a, Cat(b, c))
  BY <1>2, <1>3
<1>5. /\ Cat(Cat(Cat(a, b), c), <<>>) = Cat(Cat(a, b), c) /\ Cat(Cat(a, b), <<>>) = Cat(a, b)
      /\ Cat(<<>>, d) = d
  BY <1>1, <1>3
<1> QED BY <1>4, <1>5

(* An address moves from the stack to the deck.                            *)
LEMMA PushReads ==
  ASSUME BuilderInv, WritingInv, Push, UNCHANGED writerVars PROVE WritingInv'
<1>1. /\ bpc = "locs" /\ stk # <<>> /\ stk \in Seq(PCs) /\ Addr = Head(stk) /\ deck.pcs \in Seq(PCs)
      /\ stk' = Tail(stk) /\ deck'.pcs = Append(deck.pcs, Addr)
      /\ UNCHANGED <<bpc, cache, funcs, out, ids, rec, hideRuntime, samples>>
  BY DEF Push, Turn, Addr, BuilderInv, StackInv, DeckInv, writerVars, Added
<1>2. /\ Addr \in PCs /\ stk' \in Seq(PCs) /\ NamesOf(stk) = Names(Addr) \o NamesOf(stk')
      /\ <<Addr>> \in Seq(PCs) /\ NamesOf(<<Addr>>) = Names(Addr) /\ Names(Addr) \in Seq(AllNames)
  BY <1>1, SplitsHead, NamesFew
<1>3. NamesOf(deck'.pcs) = NamesOf(deck.pcs) \o Names(Addr)
  <2>1. Append(deck.pcs, Addr) = deck.pcs \o <<Addr>>
    BY <1>1, <1>2
  <2>2. NamesOf(deck.pcs \o <<Addr>>) = NamesOf(deck.pcs) \o NamesOf(<<Addr>>)
    BY <1>1, <1>2, NamesConcat
  <2> QED BY <1>1, <1>2, <2>1, <2>2
<1>4. ReadInv'
  <2> DEFINE a == Read(ids)
             b == NamesOf(deck.pcs)
             c == Names(Addr)
             d == NamesOf(stk')
  <2>1. /\ rec \in Keys /\ ids \in Seq(IdsIn(out))
        /\ NamesOf(Expand(Given)) = (a \o b) \o NamesOf(stk)
    BY <1>1 DEF WritingInv, ReadInv
  <2>2. a \in Seq(AllNames) /\ b \in Seq(AllNames) /\ c \in Seq(AllNames) /\ d \in Seq(AllNames)
    BY <1>1, <1>2, <2>1, ReadIs, ReadConcat, NamesConcat DEF WritingInv
  <2>3. (a \o b) \o (c \o d) = (a \o (b \o c)) \o d
    <3> HIDE DEF a, b, c, d
    <3>1. Cat(Cat(a, b), Cat(c, d)) = Cat(Cat(a, Cat(b, c)), d)
      BY <2>2, Regroup
    <3> QED BY <3>1, Zenon DEF Cat
  <2>4. Given' = Given /\ Read(ids)' = Read(ids)
    BY <1>1 DEF Given, Read, Lines
  <2> QED BY <1>1, <1>2, <1>3, <2>1, <2>3, <2>4 DEF ReadInv
<1>5. NamedRight(out', funcs') /\ CachedInv' /\ HideInv' /\ SamplesInv'
  BY <1>1, SamplesKept DEF WritingInv, CachedInv, HideInv
<1> QED BY <1>4, <1>5 DEF WritingInv

(* Before a turn: what is read so far, and after it with the deck written. *)
LEMMA TurnStarts ==
  ASSUME BuilderInv, WritingInv, emitLocation(deck'), lazy' = lazy,
         deck.pcs # <<>> => Rest[Last(deck.pcs)] = <<>>,
         bpc = "locs", bpc' \in {"locs", "located"}
  PROVE  LET a == ReadIn(out, funcs, ids)
             b == NamesOf(deck.pcs)
         IN /\ a \in Seq(AllNames) /\ b \in Seq(AllNames)
            /\ NamesOf(Expand(Given)) = Cat(Cat(a, b), NamesOf(stk))
            /\ ids \o Emitted \in Seq(IdsIn(out'))
            /\ ReadIn(out', funcs', ids \o Emitted) = Cat(a, b)
            /\ NamedRight(out', funcs')
            /\ \A i \in DOMAIN out : i \in DOMAIN out' /\ out'[i] = out[i]
            /\ deck.pcs # <<>> => \E i \in DOMAIN out' : out'[i].id = Id /\ out'[i].pcs = deck.pcs
            /\ stk \in Seq(PCs) /\ deck.pcs \in Seq(PCs)
<1>1. /\ ids \in Seq(IdsIn(out)) /\ NamedRight(out, funcs) /\ CachedInv
      /\ NamesOf(Expand(Given)) = (Read(ids) \o NamesOf(deck.pcs)) \o NamesOf(stk)
      /\ stk \in Seq(PCs) /\ deck.pcs \in Seq(PCs)
  BY DEF WritingInv, ReadInv, BuilderInv, StackInv, DeckInv
<1>2. ReadIn(out, funcs, ids) \in Seq(AllNames)
  BY <1>1, ReadConcat
<1>3. NamesOf(deck.pcs) \in Seq(AllNames)
  BY <1>1, NamesConcat
<1>4. /\ ids \o Emitted \in Seq(IdsIn(out'))
      /\ ReadIn(out', funcs', ids \o Emitted) = ReadIn(out, funcs, ids) \o NamesOf(deck.pcs)
  BY <1>1, EmitRead
<1>5. /\ NamedRight(out', funcs')
      /\ \A i \in DOMAIN out : i \in DOMAIN out' /\ out'[i] = out[i]
      /\ deck.pcs # <<>> => \E i \in DOMAIN out' : out'[i].id = Id /\ out'[i].pcs = deck.pcs
  BY <1>1, EmitNames
<1>6. Read(ids) = ReadIn(out, funcs, ids)
  BY ReadIs
<1>7. NamesOf(Expand(Given)) = Cat(Cat(ReadIn(out, funcs, ids), NamesOf(deck.pcs)), NamesOf(stk))
  BY <1>1, <1>6, Zenon DEF Cat
<1>8. ReadIn(out', funcs', ids \o Emitted) = Cat(ReadIn(out, funcs, ids), NamesOf(deck.pcs))
  BY <1>4, Zenon DEF Cat
<1> QED BY <1>1, <1>2, <1>3, <1>4, <1>5, <1>7, <1>8

(* One location more is read.                                              *)
LEMMA OneMore ==
  ASSUME NEW o, NEW fs, NamedRight(o, fs), NEW s \in Seq(IdsIn(o)), NEW i \in DOMAIN o
  PROVE  /\ s \o <<o[i].id>> \in Seq(IdsIn(o))
         /\ ReadIn(o, fs, s \o <<o[i].id>>) = Cat(ReadIn(o, fs, s), NamesOf(o[i].pcs))
<1> DEFINE x == o[i].id
<1>1. x \in IdsIn(o) /\ ReadIn(o, fs, <<x>>) = NamesOf(o[i].pcs)
  BY ReadFew
<1> HIDE DEF x
<1>2. <<x>> \in Seq(IdsIn(o)) /\ s \o <<x>> \in Seq(IdsIn(o))
  BY <1>1
<1>3. ReadIn(o, fs, s \o <<x>>) = ReadIn(o, fs, s) \o ReadIn(o, fs, <<x>>)
  BY <1>2, ReadConcat
<1> QED BY <1>1, <1>2, <1>3 DEF Cat, x

(* The stack begins with the addresses of a location whose id is added.    *)
LEMMA SkipReads ==
  ASSUME BuilderInv, WritingInv, emitLocation(deck'), deck' = NoPCs,
         UNCHANGED <<lazy, bpc, rec, hideRuntime, samples>>,
         deck.pcs # <<>> => Rest[Last(deck.pcs)] = <<>>, bpc = "locs",
         NEW i \in DOMAIN out', ids' = (ids \o Emitted) \o <<out'[i].id>>,
         out'[i].pcs \in Seq(PCs), Begins(stk, out'[i].pcs), Len(out'[i].pcs) <= Len(stk),
         stk' = Drop(stk, Len(out'[i].pcs))
  PROVE  WritingInv'
<1> DEFINE a == ReadIn(out, funcs, ids)
           b == NamesOf(deck.pcs)
           c == NamesOf(out'[i].pcs)
           d == NamesOf(stk')
<1>1. /\ a \in Seq(AllNames) /\ b \in Seq(AllNames)
      /\ NamesOf(Expand(Given)) = Cat(Cat(a, b), NamesOf(stk))
      /\ ids \o Emitted \in Seq(IdsIn(out'))
      /\ ReadIn(out', funcs', ids \o Emitted) = Cat(a, b)
      /\ NamedRight(out', funcs') /\ stk \in Seq(PCs)
  BY TurnStarts
<1>2. /\ ids' \in Seq(IdsIn(out')) /\ ReadIn(out', funcs', ids') = Cat(ReadIn(out', funcs', ids \o Emitted), c)
  BY <1>1, OneMore
<1>3. stk' \in Seq(PCs) /\ NamesOf(stk) = c \o d
  BY <1>1, Splits
<1>4. c \in Seq(AllNames) /\ d \in Seq(AllNames)
  BY <1>3, NamesConcat
<1>5. NamesOf(deck'.pcs) = <<>> /\ deck'.pcs = <<>>
  BY NamesFew DEF NoPCs
<1> HIDE DEF a, b, c, d
<1>6. Cat(Cat(a, b), Cat(c, d)) = Cat(Cat(Cat(Cat(a, b), c), <<>>), d)
  BY <1>1, <1>4, Regroup
<1>7. NamesOf(Expand(Given)) = Cat(Cat(ReadIn(out', funcs', ids'), <<>>), d)
  <2>1. NamesOf(stk) = Cat(c, d)
    BY <1>3 DEF Cat
  <2> QED BY <1>1, <1>2, <1>6, <2>1
<1>8. NamesOf(Expand(Given)) = (ReadIn(out', funcs', ids') \o NamesOf(deck'.pcs)) \o NamesOf(stk')
  BY <1>5, <1>7, Zenon DEF Cat, d
<1> QED BY <1>2, <1>5, <1>8, TurnWrites

(* A cached location stands for the addresses it is used for.              *)
LEMMA CachedReads ==
  ASSUME BuilderInv, WritingInv, Cached, UNCHANGED writerVars PROVE WritingInv'
<1>1. /\ stk # <<>> /\ stk \in Seq(PCs) /\ Addr = Head(stk) /\ emitLocation(deck')
      /\ bpc = "locs" /\ UNCHANGED <<lazy, bpc, rec, hideRuntime, samples>> /\ deck' = NoPCs
      /\ Addr \in DOMAIN cache /\ Addr \in PCs /\ Whole(stk)
      /\ ids' = (ids \o Emitted) \o <<cache[Addr].id>>
      /\ stk' = Drop(stk, Len(cache[Addr].pcs))
  BY DEF Cached, Turn, Addr, BuilderInv, StackInv, emitLocation, writerVars
<1>2. deck.pcs # <<>> => Rest[Last(deck.pcs)] = <<>>
  BY Complete DEF Cached
<1>3. cache[Addr].pcs = Chain(Addr) /\ Chain(Addr) \in Seq(PCs)
  BY <1>1, Chains DEF BuilderInv, CacheInv
<1>4. Begins(stk, Chain(Addr)) /\ Len(Chain(Addr)) <= Len(stk)
  BY <1>1, WholeHead
<1>5. PICK i \in DOMAIN out : out[i].id = cache[Addr].id /\ out[i].pcs = cache[Addr].pcs
  BY <1>1 DEF WritingInv, CachedInv
<1>6. i \in DOMAIN out' /\ out'[i] = out[i]
  BY <1>1, <1>2, TurnStarts
<1> QED BY <1>1, <1>2, <1>3, <1>4, <1>5, <1>6, SkipReads

(* The deck is written and holds d next.                                   *)
LEMMA FlushReads ==
  ASSUME BuilderInv, WritingInv, emitLocation(deck'), UNCHANGED <<lazy, rec, hideRuntime, samples>>,
         deck.pcs # <<>> => Rest[Last(deck.pcs)] = <<>>,
         bpc = "locs", bpc' \in {"locs", "located"}, ids' = ids \o Emitted,
         NEW c \in Seq(AllNames), deck'.pcs \in Seq(PCs), stk' \in Seq(PCs),
         NamesOf(deck'.pcs) = c, NamesOf(stk) = c \o NamesOf(stk'),
         bpc' = "located" => deck'.pcs = <<>> /\ stk' = <<>>
  PROVE  WritingInv'
<1> DEFINE a == ReadIn(out, funcs, ids)
           b == NamesOf(deck.pcs)
           d == NamesOf(stk')
<1>1. /\ a \in Seq(AllNames) /\ b \in Seq(AllNames)
      /\ NamesOf(Expand(Given)) = Cat(Cat(a, b), NamesOf(stk))
      /\ ids' \in Seq(IdsIn(out'))
      /\ ReadIn(out', funcs', ids') = Cat(a, b)
  BY TurnStarts
<1>2. d \in Seq(AllNames)
  BY NamesConcat
<1> HIDE DEF a, b, d
<1>3. Cat(Cat(a, b), Cat(c, d)) = Cat(Cat(Cat(a, b), c), d)
  BY <1>1, <1>2, Regroup
<1>4. NamesOf(Expand(Given)) = Cat(Cat(ReadIn(out', funcs', ids'), c), d)
  <2>1. NamesOf(stk) = Cat(c, d)
    BY DEF Cat, d
  <2> QED BY <1>1, <1>3, <2>1
<1>5. NamesOf(Expand(Given)) = (ReadIn(out', funcs', ids') \o NamesOf(deck'.pcs)) \o NamesOf(stk')
  BY <1>4, Zenon DEF Cat, d
<1> QED BY <1>1, <1>5, TurnWrites

(* An address without frames reads as nothing.                             *)
LEMMA GoexitReads ==
  ASSUME BuilderInv, WritingInv, Goexit, UNCHANGED writerVars PROVE WritingInv'
<1>1. /\ stk # <<>> /\ stk \in Seq(PCs) /\ Addr = Head(stk) /\ emitLocation(deck')
      /\ bpc = "locs" /\ UNCHANGED <<lazy, bpc, rec, hideRuntime, samples>> /\ deck' = NoPCs
      /\ ids' = ids \o Emitted /\ stk' = Tail(stk) /\ FramesOf[Addr] = <<>>
  BY DEF Goexit, Turn, Addr, BuilderInv, StackInv, emitLocation, writerVars
<1>2. deck.pcs # <<>> => Rest[Last(deck.pcs)] = <<>>
  BY Complete DEF Goexit
<1>3. stk' \in Seq(PCs) /\ NamesOf(stk) = Names(Addr) \o NamesOf(stk')
  BY <1>1, SplitsHead
<1>4. Names(Addr) = <<>>
  BY <1>1 DEF Names
<1>5. deck'.pcs = <<>> /\ deck'.pcs \in Seq(PCs) /\ NamesOf(deck'.pcs) = <<>> /\ <<>> \in Seq(AllNames)
  BY <1>1, NamesFew DEF NoPCs
<1> QED BY <1>1, <1>2, <1>3, <1>4, <1>5, FlushReads

(* The end of the stack writes what is on the deck.                        *)
LEMMA LocsReturnReads ==
  ASSUME BuilderInv, WritingInv, LocsReturn, UNCHANGED writerVars PROVE WritingInv'
<1>1. /\ stk = <<>> /\ stk' = <<>> /\ emitLocation(deck') /\ deck' = NoPCs
      /\ bpc = "locs" /\ bpc' = "located" /\ UNCHANGED <<lazy, rec, hideRuntime, samples>>
      /\ ids' = ids \o Emitted
  BY DEF LocsReturn, emitLocation, writerVars
<1>2. deck.pcs # <<>> => Rest[Last(deck.pcs)] = <<>>
  BY <1>1, Complete
<1>3. /\ deck'.pcs = <<>> /\ deck'.pcs \in Seq(PCs) /\ NamesOf(deck'.pcs) = <<>>
      /\ <<>> \in Seq(AllNames) /\ stk' \in Seq(PCs)
  BY <1>1, NamesFew DEF NoPCs
<1>4. NamesOf(stk) = <<>> \o NamesOf(stk')
  BY <1>1, NamesFew
<1> QED BY <1>1, <1>2, <1>3, <1>4, FlushReads

(* A full deck is written, and the turn goes on with the same address.     *)
LEMMA FlushStepReads ==
  ASSUME BuilderInv, WritingInv, Flush, UNCHANGED writerVars PROVE WritingInv'
<1>1. /\ stk # <<>> /\ stk \in Seq(PCs) /\ Whole(stk) /\ Addr = Head(stk) /\ Addr \in PCs
      /\ bpc = "locs" /\ UNCHANGED <<lazy, bpc, rec, hideRuntime, samples>> /\ emitLocation(deck')
  BY DEF Flush, Turn, Addr, BuilderInv, StackInv, writerVars, emitLocation
<1>2. /\ deck.pcs # <<>> /\ Rest[Last(deck.pcs)] = <<>> /\ deck.pcs = Chain(Head(deck.pcs))
      /\ deck.pcs \in Seq(PCs)
  BY Complete DEF Flush, CanAdd, BuilderInv, DeckInv
<1>3. CASE Addr = Head(deck.pcs)
  <2>1. /\ stk' = Drop(stk, Len(deck.pcs)) /\ deck' = NoPCs
        /\ ids' = (ids \o Emitted) \o <<Id>>
    BY <1>3 DEF Flush, emitLocation
  <2>2. Begins(stk, deck.pcs) /\ Len(deck.pcs) <= Len(stk)
    BY <1>1, <1>2, <1>3, WholeHead
  <2>3. PICK i \in DOMAIN out' : out'[i].id = Id /\ out'[i].pcs = deck.pcs
    BY <1>1, <1>2, TurnStarts
  <2> QED BY <1>1, <1>2, <2>1, <2>2, <2>3, SkipReads
<1>4. CASE Addr # Head(deck.pcs)
  <2>1. deck' = Added(NoPCs, Addr) /\ stk' = Tail(stk) /\ ids' = ids \o Emitted
    BY <1>4 DEF Flush, emitLocation
  <2>2. deck'.pcs = <<Addr>> /\ deck'.pcs \in Seq(PCs)
    BY <1>1, <2>1 DEF Added, NoPCs
  <2>3. NamesOf(deck'.pcs) = Names(Addr) /\ Names(Addr) \in Seq(AllNames)
    BY <1>1, <2>2, NamesFew
  <2>4. stk' \in Seq(PCs) /\ NamesOf(stk) = Names(Addr) \o NamesOf(stk')
    BY <1>1, <2>1, SplitsHead
  <2> QED BY <1>1, <1>2, <2>1, <2>2, <2>3, <2>4, FlushReads
<1> QED BY <1>3, <1>4

(* The loop starts with all of the stack to go.                            *)
LEMMA LocateReads ==
  ASSUME BuilderInv, WritingInv, rec \in Keys \cup {NoKey}, Locate PROVE WritingInv'
<1>1. /\ rec \in Keys /\ LocsForStack(Given) /\ UNCHANGED <<rec, hideRuntime, samples>>
  BY DEF Locate, Looked, Given, writerVars
<1>2. Given \in Seq(PCs) /\ Linked(Given)
  <2>1. StackOf[rec] \in Seq(PCs) /\ Linked(StackOf[rec])
    BY <1>1, StackAssumption
  <2> QED BY <2>1, ShownLinked DEF Given
<1>3. Expand(Given) \in Seq(PCs)
  BY <1>2, WholeStack
<1>4. /\ UNCHANGED <<cache, funcs, out>> /\ stk' = Expand(Given) /\ ids' = <<>>
      /\ deck'.pcs = <<>> /\ bpc' = "locs"
  BY <1>1 DEF LocsForStack, NoPCs
<1>5. ReadInv'
  <2>1. Read(ids)' = <<>> /\ NamesOf(deck'.pcs) = <<>>
    <3>1. ReadIn(out, funcs, <<>>) = <<>>
      BY ReadFew DEF WritingInv
    <3>2. Read(ids)' = ReadIn(out', funcs', ids')
      BY DEF Read, Lines, ReadIn, LinesIn
    <3> QED BY <1>4, <3>1, <3>2, NamesFew
  <2> DEFINE x == NamesOf(Expand(Given))
  <2>2. x \in Seq(AllNames)
    BY <1>3, NamesConcat
  <2>3. x = (<<>> \o <<>>) \o x
    <3> HIDE DEF x
    <3> QED BY <2>2
  <2>4. Given' = Given /\ ids' \in Seq(IdsIn(out'))
    BY <1>1, <1>4 DEF Given
  <2> QED BY <1>1, <1>4, <2>1, <2>3, <2>4 DEF ReadInv
<1>6. NamedRight(out', funcs') /\ CachedInv' /\ HideInv' /\ SamplesInv'
  BY <1>1, <1>4, SamplesKept DEF WritingInv, CachedInv, HideInv
<1> QED BY <1>5, <1>6 DEF WritingInv

(* A stack with a frame outside of package runtime has a location.         *)
LEMMA ShownNames ==
  ASSUME NEW s \in Seq(PCs), Linked(s), NamesOf(Expand(Shown(s))) = <<>>
  PROVE  Shown(s) = s
<1> SUFFICES ASSUME Shown(s) # s PROVE FALSE
  OBVIOUS
<1> DEFINE t == Shown(s)
           u == Expand(t)
<1>1. PICK n \in 0 .. Len(s) : n + 1 \in DOMAIN s /\ s[n + 1] \notin Runtime /\ Shown(s) = Drop(s, n)
  BY FirstShown
<1>2. t \in Seq(PCs) /\ t # <<>> /\ Head(t) = s[n + 1]
  <2>1. /\ t \in Seq(PCs) /\ Len(t) = Len(s) - n
        /\ \A i \in 1 .. Len(s) - n : t[i] = s[i + n]
    BY <1>1, Dropped
  <2>2. 1 \in 1 .. Len(s) - n /\ 1 + n = n + 1
    BY <1>1
  <2> HIDE DEF t
  <2> QED BY <2>1, <2>2
<1>3. u \in Seq(PCs) /\ u # <<>> /\ Head(u) = Head(t)
  <2>1. u = t \o Rest[Last(t)]
    BY <1>2 DEF Expand
  <2>2. Last(t) \in PCs
    BY <1>2 DEF Last
  <2>3. Rest[Last(t)] \in Seq(PCs)
    BY <2>2, RestAssumption
  <2> HIDE DEF t, u
  <2> QED BY <1>2, <2>1, <2>3
<1>4. NamesOf(u) = Names(Head(u)) \o NamesOf(Tail(u)) /\ Head(u) \in PCs /\ Tail(u) \in Seq(PCs)
  BY <1>3, SplitsHead
<1>5. /\ Names(Head(u)) # <<>> /\ Names(Head(u)) \in Seq(AllNames)
      /\ NamesOf(Tail(u)) \in Seq(AllNames)
  <2>1. FramesOf[Head(u)] # <<>>
    BY <1>1, <1>2, <1>3, <1>4, GoexitAssumption
  <2>2. FramesOf[Head(u)] \in Seq(Range(FramesOf[Head(u)]))
    BY <1>4, FramesAssumption
  <2>3. 1 \in DOMAIN FramesOf[Head(u)]
    BY <2>1, <2>2
  <2>4. 1 \in DOMAIN Names(Head(u))
    BY <2>3 DEF Names
  <2>5. Names(Head(u)) # <<>>
    BY <2>4
  <2>6. Names(Head(u)) \in Seq(AllNames)
    BY <1>4, NamesFew
  <2>7. NamesOf(Tail(u)) \in Seq(AllNames)
    BY <1>4, NamesConcat
  <2> QED BY <2>5, <2>6, <2>7
<1>6. NamesOf(u) # <<>>
  <2> DEFINE v == Names(Head(u))
             w == NamesOf(Tail(u))
  <2>1. v # <<>> /\ v \in Seq(AllNames) /\ w \in Seq(AllNames) /\ NamesOf(u) = v \o w
    BY <1>4, <1>5
  <2> HIDE DEF v, w, u
  <2>2. v \o w # <<>>
    BY <2>1
  <2> QED BY <2>1, <2>2
<1> QED BY <1>6

(* A stack is tried again only if nothing but runtime frames is in it.     *)
LEMMA RetryReads ==
  ASSUME BuilderInv, WritingInv, Retry PROVE WritingInv'
<1>1. /\ bpc' = "open" /\ UNCHANGED <<cache, funcs, out, ids, rec, samples>>
      /\ bpc = "located" /\ ids = <<>> /\ hideRuntime
  BY DEF Retry
<1>2. /\ rec \in Keys /\ deck.pcs = <<>> /\ stk = <<>>
      /\ NamesOf(Expand(Shown(StackOf[rec]))) = (Read(<<>>) \o NamesOf(<<>>)) \o NamesOf(<<>>)
  BY <1>1 DEF WritingInv, ReadInv, Given
<1>3. NamesOf(Expand(Shown(StackOf[rec]))) = <<>>
  <2>1. Read(<<>>) = <<>> /\ NamesOf(<<>>) = <<>>
    BY ReadIs, ReadFew, NamesFew DEF WritingInv
  <2> QED BY <1>2, <2>1
<1>4. Shown(StackOf[rec]) = StackOf[rec]
  BY <1>2, <1>3, ShownNames, StackAssumption
<1>5. HideInv' /\ ReadInv'
  BY <1>1, <1>2, <1>4 DEF HideInv, ReadInv
<1>6. NamedRight(out', funcs') /\ CachedInv' /\ SamplesInv'
  BY <1>1, SamplesKept DEF WritingInv, CachedInv
<1> QED BY <1>5, <1>6 DEF WritingInv

(* A sample is written whose ids have been read all the way.               *)
LEMMA SampleReads ==
  ASSUME BuilderInv, WritingInv, Sample PROVE WritingInv'
<1>1. /\ bpc' = "open" /\ UNCHANGED <<cache, funcs, out>>
      /\ bpc = "located" /\ hideRuntime' = TRUE
      /\ samples' = Append(samples, [key |-> rec, locs |-> ids])
  BY DEF Sample
<1>2. /\ rec \in Keys /\ deck.pcs = <<>> /\ stk = <<>> /\ ids \in Seq(IdsIn(out))
      /\ NamesOf(Expand(Given)) = (Read(ids) \o NamesOf(<<>>)) \o NamesOf(<<>>)
  BY <1>1 DEF WritingInv, ReadInv
<1>3. Given = Shown(StackOf[rec])
  BY DEF Given, WritingInv, HideInv
<1>4. Read(ids) \in Seq(AllNames) /\ NamesOf(<<>>) = <<>>
  BY <1>2, ReadIs, ReadConcat, NamesFew DEF WritingInv
<1>5. NamesOf(Expand(Given)) = Read(ids)
  <2> DEFINE a == Read(ids)
  <2> HIDE DEF a
  <2>1. (a \o <<>>) \o <<>> = a
    BY <1>4 DEF a
  <2> QED BY <1>2, <1>4, <2>1 DEF a
<1>6. Read(ids) = Called(rec)
  BY <1>3, <1>5 DEF Called, Expand
<1>7. SamplesInv'
  <2> DEFINE new == [key |-> rec, locs |-> ids]
             S == {samples[i] : i \in DOMAIN samples} \cup {new}
             n == Len(samples) + 1
  <2>1. DOMAIN samples = 1 .. Len(samples) /\ Len(samples) \in Nat
    BY DEF WritingInv, SamplesInv
  <2>2. /\ samples' = [i \in 1 .. n |-> IF i = n THEN new ELSE samples[i]]
        /\ DOMAIN samples' = 1 .. n /\ Len(samples') = n /\ n \in Nat
    BY <1>1, <2>1
  <2>3. \A l : Read(l)' = Read(l)
    BY <1>1 DEF Read, Lines
  <2>4. ASSUME NEW i \in DOMAIN samples'
        PROVE  samples'[i].locs \in Seq(IdsIn(out)) /\ Read(samples'[i].locs) = Called(samples'[i].key)
    <3>1. CASE i = n
      BY <1>2, <1>6, <2>2, <3>1
    <3>2. CASE i # n
      <4>1. i \in DOMAIN samples /\ samples'[i] = samples[i]
        BY <2>1, <2>2, <2>4, <3>2
      <4> QED BY <4>1 DEF WritingInv, SamplesInv
    <3> QED BY <3>1, <3>2
  <2> HIDE DEF n
  <2> QED BY <1>1, <2>2, <2>3, <2>4 DEF SamplesInv
<1>8. HideInv' /\ ReadInv' /\ NamedRight(out', funcs') /\ CachedInv'
  BY <1>1 DEF HideInv, ReadInv, WritingInv, CachedInv
<1> QED BY <1>7, <1>8 DEF WritingInv

(* Nothing is written yet.                                                 *)
LEMMA NothingRead ==
  ASSUME out = <<>>, funcs = <<>>, cache = <<>>, samples = <<>>, bpc = "closed", HideInv
  PROVE  WritingInv
<1>1. DOMAIN out = {} /\ DOMAIN cache = {} /\ DOMAIN samples = {} /\ Len(out) = 0 /\ Len(samples) = 0
      /\ funcs \in Seq(AllNames) /\ 1 .. 0 = {}
  OBVIOUS
<1> QED BY <1>1 DEF WritingInv, NamedRight, CachedInv, ReadInv, SamplesInv

(* Nothing is written at first.                                            *)
LEMMA WritingInit == WriterInit => WritingInv
BY NothingRead DEF WriterInit, PbInit, HideInv

(* The other steps leave what was written alone, and start or end it.      *)
LEMMA OthersRead ==
  ASSUME WritingInv, rec \in Keys \cup {NoKey},
         \/ NewProfile \/ MapStep \/ Continue \/ UNCHANGED allVars \/ \E k \in Keys : Record(k)
  PROVE  WritingInv'
<1>1. /\ UNCHANGED <<cache, funcs, out, samples>> /\ hideRuntime' = hideRuntime
      /\ \/ UNCHANGED <<bpc, deck, stk, ids, rec>>
         \/ bpc' = "open" /\ (rec' = rec \/ hideRuntime \/ rec = NoKey)
  BY DEF NewProfile, NewProfileBuilder, MapStep, Continue, Record, allVars, pbVars, writerVars
<1>2. NamedRight(out', funcs') /\ CachedInv' /\ SamplesInv'
  BY <1>1, SamplesKept DEF WritingInv, CachedInv
<1>3. HideInv'
  BY <1>1, NoKeyAssumption DEF WritingInv, HideInv
<1>4. ReadInv'
  <2>1. Read(ids)' = ReadIn(out', funcs', ids') /\ Read(ids) = ReadIn(out, funcs, ids)
    BY DEF Read, Lines, ReadIn, LinesIn
  <2> QED BY <1>1, <2>1 DEF WritingInv, ReadInv, Given
<1> QED BY <1>2, <1>3, <1>4 DEF WritingInv

(* The invariant of what was written is inductive.                         *)
LEMMA WritingNext ==
  ASSUME BuilderInv, WritingInv, rec \in Keys \cup {NoKey}, [WriterNext]_allVars PROVE WritingInv'
<1>1. CASE BuilderStep
  BY <1>1, PushReads, CachedReads, GoexitReads, FlushStepReads, LocsReturnReads DEF BuilderStep, Loop
<1>2. CASE EndProfile
  <2>1. /\ out' = <<>> /\ funcs' = <<>> /\ cache' = <<>> /\ samples' = <<>> /\ bpc' = "closed"
        /\ UNCHANGED <<rec, hideRuntime>>
    BY <1>2 DEF EndProfile, Build
  <2>2. HideInv'
    BY <2>1 DEF WritingInv, HideInv
  <2>3. DOMAIN out' = {} /\ DOMAIN cache' = {} /\ DOMAIN samples' = {} /\ Len(out') = 0 /\ Len(samples') = 0
        /\ funcs' \in Seq(AllNames) /\ 1 .. 0 = {}
    BY <2>1
  <2> QED BY <2>1, <2>2, <2>3 DEF WritingInv, NamedRight, CachedInv, ReadInv, SamplesInv
<1>3. CASE Locate
  BY <1>3, LocateReads
<1>4. CASE Retry
  BY <1>4, RetryReads
<1>5. CASE Sample
  BY <1>5, SampleReads
<1>6. CASE NewProfile \/ MapStep \/ Continue \/ UNCHANGED allVars \/ \E k \in Keys : Record(k)
  BY <1>6, OthersRead
<1> QED BY <1>1, <1>2, <1>3, <1>4, <1>5, <1>6 DEF WriterNext

(* Every sample of a profile reads as the functions of its stack: inlined  *)
(* calls expanded, runtime frames at the leaf left out, whatever stacks    *)
(* were written before it and whatever is in the cache.                    *)
THEOREM BuilderSamplesReadAsStacks == WriterSpec => []SamplesReadAsStacks
<1> DEFINE I == BuilderInv /\ rec \in Keys \cup {NoKey} /\ WritingInv
<1>1. WriterInit => I
  BY BuilderInit, WritingInit DEF WriterInit
<1>2. I /\ [WriterNext]_allVars => I'
  BY BuilderNext, RecInv, WritingNext
<1>3. I => SamplesReadAsStacks
  BY DEF WritingInv, SamplesInv, SamplesReadAsStacks
<1> QED BY <1>1, <1>2, <1>3, PTL DEF WriterSpec
=============================================================================
