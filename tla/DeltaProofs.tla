---------------------------- MODULE DeltaProofs ----------------------------
(***************************************************************************)
(* The delta profiles add up, for any buckets, keys, clock rate and delays *)
(* and however many profiles are taken.                                    *)
(***************************************************************************)
EXTENDS Delta, FiniteSetTheorems, TLAPS

(***************************************************************************)
(* Sums.                                                                   *)
(***************************************************************************)

(* The set whose size is the sum.                                          *)
Units(f, S) == UNION {{b} \X (1 .. f[b]) : b \in S}

(* What one bucket adds to it.                                             *)
LEMMA UnitsOfOne ==
  ASSUME NEW b, NEW n \in Nat
  PROVE  IsFiniteSet({b} \X (1 .. n)) /\ Cardinality({b} \X (1 .. n)) = n
<1>1. IsFiniteSet({b}) /\ Cardinality({b}) = 1
  BY FS_Singleton
<1>2. IsFiniteSet(1 .. n) /\ Cardinality(1 .. n) = n
  BY FS_Interval
<1>3. Cardinality({b} \X (1 .. n)) = 1 * n
  BY <1>1, <1>2, FS_Product
<1> QED BY <1>1, <1>2, <1>3, FS_Product

(* It is finite, so that the sum is a number.                              *)
LEMMA UnitsFinite ==
  ASSUME NEW f \in [Buckets -> Nat], NEW S \in SUBSET Buckets
  PROVE  IsFiniteSet(Units(f, S))
<1> DEFINE part == [b \in S |-> {b} \X (1 .. f[b])]
           T == {{b} \X (1 .. f[b]) : b \in S}
<1>1. part \in Surjection(S, T)
  BY DEF Surjection
<1>2. IsFiniteSet(T)
  BY <1>1, FiniteBuckets, FS_Subset, FS_Surjection
<1>3. \A b \in S : IsFiniteSet({b} \X (1 .. f[b]))
  BY UnitsOfOne
<1>4. \A U \in T : IsFiniteSet(U)
  BY <1>3
<1> HIDE DEF T
<1>5. IsFiniteSet(UNION T)
  BY <1>2, <1>4, FS_UNION
<1> QED BY <1>5 DEF Units, T

(* A sum of naturals is a natural.                                         *)
LEMMA SumType ==
  ASSUME NEW f \in [Buckets -> Nat], NEW S \in SUBSET Buckets
  PROVE  Sum(f, S) \in Nat
BY UnitsFinite, FS_CardinalityType DEF Sum, Units

(* A record more adds its number to the sum.                               *)
LEMMA SumAdd ==
  ASSUME NEW f \in [Buckets -> Nat], NEW S \in SUBSET Buckets, NEW b \in Buckets \ S
  PROVE  Sum(f, S \cup {b}) = Sum(f, S) + f[b]
<1> DEFINE B == {b} \X (1 .. f[b])
<1>1. Units(f, S \cup {b}) = Units(f, S) \cup B
  BY DEF Units
<1>2. Units(f, S) \cap B = {}
  BY DEF Units
<1>3. IsFiniteSet(B) /\ Cardinality(B) = f[b]
  BY UnitsOfOne
<1>4. IsFiniteSet(Units(f, S))
  BY UnitsFinite
<1> HIDE DEF B
<1>5. Cardinality(Units(f, S) \cup B) = Cardinality(Units(f, S)) + f[b]
  <2>1. Cardinality(Units(f, S) \cup B)
          = Cardinality(Units(f, S)) + Cardinality(B) - Cardinality(Units(f, S) \cap B)
    BY <1>3, <1>4, FS_Union
  <2>2. Cardinality(Units(f, S) \cap B) = 0
    BY <1>2, FS_EmptySet
  <2>3. Cardinality(Units(f, S)) \in Nat
    BY <1>4, FS_CardinalityType
  <2> QED BY <1>3, <2>1, <2>2, <2>3
<1> QED BY <1>1, <1>5 DEF Sum, Units

(* The sum grows with its parts.                                           *)
LEMMA SumMonotone ==
  ASSUME NEW f \in [Buckets -> Nat], NEW g \in [Buckets -> Nat], NEW S \in SUBSET Buckets,
         \A b \in S : f[b] <= g[b]
  PROVE  Sum(f, S) <= Sum(g, S)
<1>1. Units(f, S) \subseteq Units(g, S)
  BY DEF Units
<1> QED BY <1>1, UnitsFinite, FS_Subset DEF Sum, Units

(* It is zero exactly if they all are.                                     *)
LEMMA SumZero ==
  ASSUME NEW f \in [Buckets -> Nat], NEW S \in SUBSET Buckets
  PROVE  Sum(f, S) = 0 <=> \A b \in S : f[b] = 0
<1>1. Units(f, S) = {} <=> \A b \in S : f[b] = 0
  <2>1. ASSUME NEW b \in S, f[b] # 0 PROVE <<b, 1>> \in Units(f, S)
    BY <2>1 DEF Units
  <2>2. ASSUME \A b \in S : f[b] = 0 PROVE Units(f, S) = {}
    BY <2>2 DEF Units
  <2> QED BY <2>1, <2>2
<1> QED BY <1>1, UnitsFinite, FS_EmptySet DEF Sum, Units

(* Division of naturals, as inanosec is computed.                          *)
LEMMA DivType == \A x \in Nat : \A g \in Nat \ {0} : x \div g \in Nat /\ 0 \div g = 0
OBVIOUS

(* Division by one.                                                        *)
LEMMA DivOne == \A x \in Nat : x \div 1 = x
OBVIOUS

(* Division keeps the order: nanoseconds grow with cycles.                 *)
LEMMA DivMonotone ==
  ASSUME NEW x \in Nat, NEW y \in Nat, x <= y, NEW g \in Nat \ {0}
  PROVE  x \div g <= y \div g
OBVIOUS

(***************************************************************************)
(* The invariant.                                                          *)
(***************************************************************************)

(* The numbers of a record and of an entry, and differences of them.       *)
Num == [n : Nat, m : Nat]
Diff == [n : Int, m : Int]

(* Types.  What a profile has read or added up is never negative.          *)
DeltaTypes ==
  /\ kind \in {"heap", "count"}
  /\ counts \in [Buckets -> Num] /\ snap \in [Buckets -> Num]
  /\ pass \in {"idle", "acc", "delta"} /\ todo \in SUBSET Buckets
  /\ acc \in [Keys -> Num] /\ prev \in [Keys -> Num]
  /\ out \in [Keys -> Seq(Diff)] /\ total \in [Keys -> Diff]
  /\ panics \in Nat /\ clean \in 0 .. 2

(* The runtime's counts only grow, but for the objects in use; a bucket    *)
(* without events has no number at all.                                    *)
Grows ==
  /\ \A b \in Buckets : snap[b].n <= counts[b].n /\ (kind = "count" => snap[b].m <= counts[b].m)
  /\ \A b \in Buckets : counts[b].n = 0 => counts[b].m = 0
  /\ \A b \in Buckets : snap[b].n = 0 => snap[b].m = 0

(* A stack without events has no accumulated or previous value.            *)
NoneYet ==
  kind = "count" =>
    \A k \in Keys : (\A b \in Of(k) : snap[b].n = 0) => acc[k] = Zero /\ prev[k] = Zero

(* The counts and the delays or sizes of the records, and their sums.      *)
Ns(s) == [b \in Buckets |-> s[b].n]
Ms(s) == [b \in Buckets |-> s[b].m]
Part(s, k, S) == [n |-> Sum(Ns(s), Of(k) \cap S), m |-> Sum(Ms(s), Of(k) \cap S)]
Full(s, k) == [n |-> Sum(Ns(s), Of(k)), m |-> Sum(Ms(s), Of(k))]

(* No panic has left a value behind in entry.acc; entry.prev is right.     *)
Sound == panics = 0 \/ (kind = "count" /\ clean >= 1)
Right == panics = 0 \/ (kind = "count" /\ clean = 2)

(* entry.prev is, or is not above, what this profile counts; the samples   *)
(* are what they should be.                                                *)
PrevRight(k) == /\ prev[k].n = Full(snap, k).n
                /\ kind = "count" => prev[k].m = Full(snap, k).m \div GHz
PrevLow(k) == /\ prev[k].n <= Full(snap, k).n
              /\ kind = "count" => prev[k].m <= Full(snap, k).m \div GHz
OutRight(k) ==
  /\ Len(out[k]) <= 1
  /\ kind = "heap" /\ Full(snap, k).m > 0 => out[k] # <<>> /\ out[k][1].m = Full(snap, k).m

(* In the second loop the entry of a key waits for the key's first record  *)
(* that counts, or has been dealt with.                                    *)
Waiting(k) == /\ acc[k] = Full(snap, k) /\ acc[k] # Zero /\ out[k] = <<>>
              /\ \A b \in Of(k) \ todo : snap[b].n = 0
              /\ panics = 0 => PrevLow(k)
Done(k) == acc[k] = Zero /\ PrevRight(k) /\ OutRight(k)

(* Between two profiles.                                                   *)
IdleInv == pass = "idle" => /\ Sound => \A k \in Keys : acc[k] = Zero
                            /\ Right => \A k \in Keys : PrevRight(k)
                            /\ panics = 0 => \A k \in Keys : OutRight(k)

(* In the first loop the entries hold the sums of the records visited.     *)
FirstInv == pass = "acc" => /\ Sound => \A k \in Keys : acc[k] = Part(snap, k, Buckets \ todo)
                            /\ panics = 0 => \A k \in Keys : PrevLow(k)
                            /\ \A k \in Keys : out[k] = <<>>

(* In the second loop.  Records that were visited have entries that were   *)
(* cleared, also after a panic (block and mutex profiles).                 *)
SecondInv == pass = "delta" =>
  /\ Sound => \A k \in Keys : Waiting(k) \/ Done(k)
  /\ kind = "count" => \A b \in Buckets \ todo : acc[KeyOf[b]] = Zero

(* What was reported for a key is what entry.prev says was.                *)
TotalInv == panics = 0 => \A k \in Keys : /\ total[k].n = prev[k].n
                                          /\ kind = "count" => total[k].m = prev[k].m

(* The inductive invariant.                                                *)
DeltaInv == /\ DeltaTypes /\ Grows /\ NoneYet
            /\ IdleInv /\ FirstInv /\ SecondInv /\ TotalInv

(***************************************************************************)
(* What the sums of the records are.                                       *)
(***************************************************************************)

(* The counts of records are naturals.                                     *)
LEMMA NumbersType ==
  ASSUME NEW s \in [Buckets -> Num]
  PROVE  /\ Ns(s) \in [Buckets -> Nat] /\ Ms(s) \in [Buckets -> Nat]
         /\ \A b \in Buckets : Ns(s)[b] = s[b].n /\ Ms(s)[b] = s[b].m
<1>1. \A b \in Buckets : s[b].n \in Nat /\ s[b].m \in Nat
  BY DEF Num
<1> QED BY <1>1 DEF Ns, Ms

(* So are the sums for a key.                                              *)
LEMMA FullType ==
  ASSUME NEW s \in [Buckets -> Num], NEW k \in Keys
  PROVE  Full(s, k) \in Num
<1>1. Of(k) \in SUBSET Buckets
  BY DEF Of
<1> QED BY <1>1, NumbersType, SumType DEF Full, Num

(* The first loop begins with nothing and ends with everything.            *)
LEMMA PartEnds ==
  ASSUME NEW s \in [Buckets -> Num], NEW k \in Keys
  PROVE  Part(s, k, Buckets \ {}) = Full(s, k) /\ Part(s, k, Buckets \ Buckets) = Zero
<1>1. Of(k) \cap (Buckets \ {}) = Of(k)
  BY DEF Of
<1>2. Of(k) \cap (Buckets \ Buckets) = {}
  OBVIOUS
<1>3. Sum(Ns(s), {}) = 0 /\ Sum(Ms(s), {}) = 0
  BY NumbersType, SumZero
<1> QED BY <1>1, <1>2, <1>3 DEF Part, Full, Zero

(* The next record changes the sum of its key only.                        *)
LEMMA PartAdd ==
  ASSUME NEW s \in [Buckets -> Num], NEW T \in SUBSET Buckets, NEW b \in T, NEW k \in Keys
  PROVE  /\ KeyOf[b] = k => Part(s, k, Buckets \ (T \ {b})) = Plus(Part(s, k, Buckets \ T), s[b])
         /\ KeyOf[b] # k => Part(s, k, Buckets \ (T \ {b})) = Part(s, k, Buckets \ T)
<1> DEFINE S == Of(k) \cap (Buckets \ T)
<1>1. S \in SUBSET Buckets /\ b \in Buckets \ S
  BY DEF Of
<1>2. KeyOf[b] = k => Of(k) \cap (Buckets \ (T \ {b})) = S \cup {b}
  BY <1>1 DEF Of
<1>3. KeyOf[b] # k => Of(k) \cap (Buckets \ (T \ {b})) = S
  BY <1>1 DEF Of
<1>4. Part(s, k, Buckets \ T) = [n |-> Sum(Ns(s), S), m |-> Sum(Ms(s), S)]
  BY DEF Part
<1> HIDE DEF S
<1>5. /\ Sum(Ns(s), S \cup {b}) = Sum(Ns(s), S) + s[b].n
      /\ Sum(Ms(s), S \cup {b}) = Sum(Ms(s), S) + s[b].m
  BY <1>1, NumbersType, SumAdd
<1> QED BY <1>2, <1>3, <1>4, <1>5 DEF Part, Plus

(* A key has a sum of zero exactly if it has had no event.                 *)
LEMMA FullZero ==
  ASSUME NEW s \in [Buckets -> Num], NEW k \in Keys,
         \A b \in Buckets : s[b].n = 0 => s[b].m = 0
  PROVE  Full(s, k) = Zero <=> \A b \in Of(k) : s[b].n = 0
<1>1. Of(k) \in SUBSET Buckets
  BY DEF Of
<1>2. /\ Sum(Ns(s), Of(k)) = 0 <=> \A b \in Of(k) : s[b].n = 0
      /\ Sum(Ms(s), Of(k)) = 0 <=> \A b \in Of(k) : s[b].m = 0
  BY <1>1, NumbersType, SumZero
<1> QED BY <1>1, <1>2 DEF Full, Zero

(* The sums of a key grow with the counts, also in nanoseconds.            *)
LEMMA FullGrows ==
  ASSUME NEW s \in [Buckets -> Num], NEW t \in [Buckets -> Num], NEW k \in Keys
  PROVE  /\ (\A b \in Buckets : s[b].n <= t[b].n) => Full(s, k).n <= Full(t, k).n
         /\ (\A b \in Buckets : s[b].m <= t[b].m)
              => Full(s, k).m <= Full(t, k).m /\ Full(s, k).m \div GHz <= Full(t, k).m \div GHz
<1>1. Of(k) \in SUBSET Buckets
  BY DEF Of
<1>2. (\A b \in Buckets : s[b].n <= t[b].n) => Full(s, k).n <= Full(t, k).n
  <2> SUFFICES ASSUME \A b \in Buckets : s[b].n <= t[b].n
               PROVE  Sum(Ns(s), Of(k)) <= Sum(Ns(t), Of(k))
    BY DEF Full
  <2> QED BY <1>1, NumbersType, SumMonotone
<1>3. (\A b \in Buckets : s[b].m <= t[b].m) => Full(s, k).m <= Full(t, k).m
  <2> SUFFICES ASSUME \A b \in Buckets : s[b].m <= t[b].m
               PROVE  Sum(Ms(s), Of(k)) <= Sum(Ms(t), Of(k))
    BY DEF Full
  <2> QED BY <1>1, NumbersType, SumMonotone
<1>4. Full(s, k).m \in Nat /\ Full(t, k).m \in Nat
  BY FullType DEF Num
<1> QED BY <1>2, <1>3, <1>4, DivMonotone, GHzAssumption

(***************************************************************************)
(* The runtime.                                                            *)
(***************************************************************************)

(* The profiler works on its copy of the records: what the runtime counts  *)
(* meanwhile does not disturb it.                                          *)
LEMMA KeptByRuntime ==
  ASSUME DeltaInv, DeltaTypes', Grows', UNCHANGED <<kind, profilerVars>>
  PROVE  DeltaInv'
<1> USE DEF profilerVars
<1>1. NoneYet' /\ TotalInv'
  BY DEF DeltaInv, NoneYet, TotalInv, Of
<1>2. \A k : /\ PrevRight(k)' <=> PrevRight(k)
             /\ PrevLow(k)' <=> PrevLow(k)
             /\ OutRight(k)' <=> OutRight(k)
  BY DEF PrevRight, PrevLow, OutRight
<1>3. \A k : (Waiting(k)' <=> Waiting(k)) /\ (Done(k)' <=> Done(k))
  BY <1>2 DEF Waiting, Done
<1>4. IdleInv' /\ FirstInv' /\ SecondInv'
  BY <1>2, <1>3 DEF DeltaInv, IdleInv, FirstInv, SecondInv, Sound, Right
<1> QED BY <1>1, <1>4 DEF DeltaInv

(* An allocation, or a contention.                                         *)
LEMMA EventStep ==
  ASSUME DeltaInv, NEW b \in Buckets, NEW d \in Nat \ {0}, Event(b, d)
  PROVE  DeltaInv'
<1> USE DEF Event, profilerVars
<1>1. counts[b].n \in Nat /\ counts[b].m \in Nat
  BY DEF DeltaInv, DeltaTypes, Num
<1>2. /\ counts'[b] = [n |-> counts[b].n + 1, m |-> counts[b].m + d]
      /\ \A x \in Buckets : x # b => counts'[x] = counts[x]
      /\ counts' \in [Buckets -> Num]
  BY <1>1 DEF DeltaInv, DeltaTypes, Num, Plus
<1>3. DeltaTypes'
  BY <1>2 DEF DeltaInv, DeltaTypes
<1>4. Grows'
  BY <1>1, <1>2 DEF DeltaInv, DeltaTypes, Num, Grows
<1> QED BY <1>3, <1>4, KeptByRuntime

(* An object is freed.                                                     *)
LEMMA FreeStep ==
  ASSUME DeltaInv, NEW b \in Buckets, Free(b)
  PROVE  DeltaInv'
<1> USE DEF Free, profilerVars
<1>1. /\ counts \in [Buckets -> Num]
      /\ counts[b].n \in Nat /\ counts[b].m \in Nat /\ counts[b].m > 0
      /\ counts[b] = [n |-> counts[b].n, m |-> counts[b].m]
  BY DEF DeltaInv, DeltaTypes, Num
<1>2. counts' = [counts EXCEPT ![b] = [n |-> counts[b].n, m |-> counts[b].m - 1]]
  <2>1. [counts[b] EXCEPT !.m = @ - 1] = [n |-> counts[b].n, m |-> counts[b].m - 1]
    BY <1>1
  <2> QED BY <2>1
<1>3. [n |-> counts[b].n, m |-> counts[b].m - 1] \in Num
  BY <1>1 DEF Num
<1>4. /\ counts'[b] = [n |-> counts[b].n, m |-> counts[b].m - 1]
      /\ \A x \in Buckets : x # b => counts'[x] = counts[x]
      /\ counts' \in [Buckets -> Num]
  BY <1>1, <1>2, <1>3
<1>5. DeltaTypes'
  BY <1>4 DEF DeltaInv, DeltaTypes
<1>6. Grows'
  BY <1>1, <1>4 DEF DeltaInv, Grows
<1> QED BY <1>5, <1>6, KeptByRuntime

(***************************************************************************)
(* A profile begins.                                                       *)
(***************************************************************************)

(* The new records are not below those of the last profile, so entry.prev  *)
(* is not above their sums.                                                *)
LEMMA ProfileStep ==
  ASSUME DeltaInv, Profile(counts)
  PROVE  DeltaInv'
<1> USE DEF Profile
<1>1. snap \in [Buckets -> Num] /\ snap' \in [Buckets -> Num]
  BY DEF DeltaInv, DeltaTypes
<1>2. DeltaTypes'
  <2>1. out' \in [Keys -> Seq(Diff)]
    OBVIOUS
  <2> QED BY <2>1 DEF DeltaInv, DeltaTypes
<1>3. Grows'
  BY DEF DeltaInv, DeltaTypes, Num, Grows
<1>4. NoneYet'
  <2>1. \A b \in Buckets : counts[b].n = 0 => snap[b].n = 0
    BY DEF DeltaInv, DeltaTypes, Num, Grows
  <2> QED BY <2>1 DEF DeltaInv, NoneYet, Of
<1>5. TotalInv'
  BY DEF DeltaInv, TotalInv
<1>6. FirstInv'
  <2>1. ASSUME Sound', NEW k \in Keys PROVE acc'[k] = Part(snap', k, Buckets \ todo')
    <3>1. acc'[k] = Zero
      BY <2>1 DEF DeltaInv, IdleInv, Sound
    <3> QED BY <1>1, <3>1, PartEnds
  <2>2. ASSUME panics' = 0, NEW k \in Keys PROVE PrevLow(k)'
    <3>1. PrevRight(k)
      BY <2>2 DEF DeltaInv, IdleInv, Right
    <3>2. /\ \A b \in Buckets : snap[b].n <= snap'[b].n
          /\ kind = "count" => \A b \in Buckets : snap[b].m <= snap'[b].m
      BY DEF DeltaInv, Grows
    <3>3. /\ Full(snap, k).n <= Full(snap', k).n
          /\ kind = "count" => Full(snap, k).m \div GHz <= Full(snap', k).m \div GHz
      BY <1>1, <3>2, FullGrows
    <3> QED BY <3>1, <3>3 DEF PrevRight, PrevLow
  <2> QED BY <2>1, <2>2 DEF FirstInv
<1> QED BY <1>2, <1>3, <1>4, <1>5, <1>6 DEF DeltaInv, IdleInv, SecondInv

(***************************************************************************)
(* The first loop.                                                         *)
(***************************************************************************)

(* A record is added to the entry of its key; a fresh one has nothing to   *)
(* add.                                                                    *)
LEMMA AccumulateStep ==
  ASSUME DeltaInv, NEW b \in Buckets, Visit("acc", b),
         acc' = Accumulated(b) \/ (acc' = acc /\ snap[b].n = 0), UNCHANGED <<prev, out, total>>
  PROVE  DeltaInv'
<1> DEFINE k == KeyOf[b]
<1> USE DEF Visit
<1>1. /\ k \in Keys /\ b \in todo /\ todo \in SUBSET Buckets
      /\ snap \in [Buckets -> Num] /\ acc \in [Keys -> Num]
  BY KeyAssumption DEF DeltaInv, DeltaTypes, IsNext
<1>2. /\ acc[k] \in Num /\ snap[b] \in Num
      /\ snap[b].n = 0 => snap[b] = Zero
  BY <1>1 DEF DeltaInv, Grows, Num, Zero
<1>3. Plus(acc[k], snap[b]) \in Num /\ (snap[b] = Zero => Plus(acc[k], snap[b]) = acc[k])
  BY <1>2 DEF Num, Plus, Zero
<1>4. acc' = [acc EXCEPT ![k] = Plus(acc[k], snap[b])]
  BY <1>1, <1>2, <1>3 DEF Accumulated
<1>5. /\ acc' \in [Keys -> Num] /\ acc'[k] = Plus(acc[k], snap[b])
      /\ \A x \in Keys : x # k => acc'[x] = acc[x]
  BY <1>1, <1>3, <1>4
<1> HIDE DEF k
<1>6. DeltaTypes' /\ Grows' /\ TotalInv'
  BY <1>5 DEF DeltaInv, DeltaTypes, Grows, TotalInv
<1>7. NoneYet'
  <2>1. (\A x \in Of(k) : snap[x].n = 0) => snap[b] = Zero
    BY <1>2 DEF Of, k
  <2> QED BY <1>1, <1>2, <1>3, <1>5, <2>1 DEF DeltaInv, NoneYet, Of
<1>8. FirstInv'
  <2>1. ASSUME Sound, NEW x \in Keys PROVE acc'[x] = Part(snap, x, Buckets \ (todo \ {b}))
    <3>1. acc[x] = Part(snap, x, Buckets \ todo)
      BY <2>1 DEF DeltaInv, FirstInv
    <3> QED BY <1>1, <1>5, <3>1, PartAdd DEF k
  <2>2. \A x \in Keys : PrevLow(x)' <=> PrevLow(x)
    BY DEF PrevLow
  <2> QED BY <2>1, <2>2 DEF DeltaInv, FirstInv, Sound
<1> QED BY <1>6, <1>7, <1>8 DEF DeltaInv, IdleInv, SecondInv

(* All records have been added up: every entry holds the sum of its key.   *)
LEMMA SecondLoopStep ==
  ASSUME DeltaInv, SecondLoop
  PROVE  DeltaInv'
<1> USE DEF SecondLoop
<1>1. DeltaTypes' /\ Grows' /\ NoneYet' /\ TotalInv'
  BY DEF DeltaInv, DeltaTypes, Grows, NoneYet, TotalInv, Of
<1>2. snap \in [Buckets -> Num] /\ GHz \in Nat \ {0}
  BY GHzAssumption DEF DeltaInv, DeltaTypes
<1>3. ASSUME Sound, NEW k \in Keys PROVE Waiting(k)' \/ Done(k)'
  <2>1. acc[k] = Full(snap, k) /\ out[k] = <<>> /\ (panics = 0 => PrevLow(k))
    BY <1>2, <1>3, PartEnds DEF DeltaInv, FirstInv
  <2>2. Of(k) \ todo' = {}
    BY DEF Of
  <2>3. CASE acc[k] # Zero
    <3>1. PrevLow(k)' <=> PrevLow(k)
      BY DEF PrevLow
    <3> QED BY <2>1, <2>2, <2>3, <3>1 DEF Waiting
  <2>4. CASE acc[k] = Zero
    <3>1. Full(snap, k) = [n |-> 0, m |-> 0]
      BY <2>1, <2>4 DEF Zero
    <3>2. prev[k].n \in Nat /\ prev[k].m \in Nat
      BY DEF DeltaInv, DeltaTypes, Num
    <3>3. 0 \div GHz = 0
      BY <1>2, DivType
    <3>4. \A x \in Of(k) : snap[x].n = 0
      BY <1>2, <2>1, <2>4, FullZero DEF DeltaInv, Grows
    <3>5. panics = 0 => PrevRight(k)
      BY <2>1, <3>1, <3>2, <3>3 DEF PrevLow, PrevRight
    <3>6. kind = "count" => PrevRight(k)
      BY <3>1, <3>3, <3>4 DEF DeltaInv, NoneYet, PrevRight, Zero
    <3>7. PrevRight(k)'
      BY <1>3, <3>5, <3>6 DEF Sound, PrevRight
    <3>8. OutRight(k)'
      BY <2>1, <3>1 DEF OutRight
    <3> QED BY <2>4, <3>7, <3>8 DEF Done
  <2> QED BY <2>3, <2>4
<1>4. SecondInv'
  BY <1>3 DEF SecondInv, Sound
<1> QED BY <1>1, <1>4 DEF DeltaInv, IdleInv, FirstInv

(***************************************************************************)
(* The second loop.                                                        *)
(***************************************************************************)

(* A record of one key leaves the entries of the others as they are.       *)
LEMMA OtherKeys ==
  ASSUME DeltaInv, NEW b \in Buckets, Visit("delta", b), NEW x \in Keys, x # KeyOf[b],
         acc'[x] = acc[x], prev'[x] = prev[x], out'[x] = out[x]
  PROVE  (Waiting(x) => Waiting(x)') /\ (Done(x) => Done(x)')
<1>1. Of(x) \ todo' = Of(x) \ todo
  BY DEF Visit, Of
<1>2. /\ PrevRight(x)' <=> PrevRight(x)
      /\ PrevLow(x)' <=> PrevLow(x)
      /\ OutRight(x)' <=> OutRight(x)
  BY DEF Visit, PrevRight, PrevLow, OutRight
<1> QED BY <1>1, <1>2 DEF Visit, Waiting, Done

(* A record that is passed over: its key has been dealt with, or it is     *)
(* fresh.                                                                  *)
LEMMA SkipStep ==
  ASSUME DeltaInv, NEW b \in Buckets, Visit("delta", b), UNCHANGED <<acc, prev, out, total>>,
         \/ acc[KeyOf[b]] = Zero
         \/ kind = "heap" /\ (Sound => snap[b].n = 0)
  PROVE  DeltaInv'
<1> DEFINE k == KeyOf[b]
<1> USE DEF Visit
<1>1. DeltaTypes' /\ Grows' /\ NoneYet' /\ TotalInv'
  BY DEF DeltaInv, DeltaTypes, Grows, NoneYet, TotalInv, Of
<1>2. k \in Keys
  BY KeyAssumption
<1>3. ASSUME Sound PROVE Waiting(k)' \/ Done(k)'
  <2>1. Waiting(k) \/ Done(k)
    BY <1>2, <1>3 DEF DeltaInv, SecondInv
  <2>2. /\ PrevRight(k)' <=> PrevRight(k)
        /\ PrevLow(k)' <=> PrevLow(k)
        /\ OutRight(k)' <=> OutRight(k)
    BY DEF PrevRight, PrevLow, OutRight
  <2>3. Done(k) => Done(k)'
    BY <2>2 DEF Done
  <2>4. Waiting(k) => Waiting(k)'
    <3>1. Waiting(k) => snap[b].n = 0
      BY <1>3 DEF Waiting
    <3>2. Of(k) \ todo' \subseteq (Of(k) \ todo) \cup {b}
      OBVIOUS
    <3> QED BY <2>2, <3>1, <3>2 DEF Waiting
  <2> QED BY <2>1, <2>3, <2>4
<1> HIDE DEF k
<1>4. SecondInv'
  <2>1. ASSUME Sound, NEW x \in Keys PROVE Waiting(x)' \/ Done(x)'
    <3>1. CASE x = k
      BY <1>3, <2>1, <3>1
    <3>2. CASE x # k
      BY <2>1, <3>2, OtherKeys DEF DeltaInv, SecondInv, k
    <3> QED BY <3>1, <3>2
  <2>2. kind = "count" => \A x \in Buckets \ todo' : acc[KeyOf[x]] = Zero
    BY DEF DeltaInv, SecondInv
  <2> QED BY <2>1, <2>2 DEF SecondInv, Sound
<1> QED BY <1>1, <1>4 DEF DeltaInv, IdleInv, FirstInv

(* The first record of a key that counts settles the entry of the key:     *)
(* entry.acc is cleared and entry.prev is the sum.                         *)
LEMMA SettleStep ==
  ASSUME DeltaInv, NEW b \in Buckets, Visit("delta", b), acc[KeyOf[b]] # Zero,
         NEW v \in Num, v.n = acc[KeyOf[b]].n,
         kind = "count" => v.m = acc[KeyOf[b]].m \div GHz,
         acc' = [acc EXCEPT ![KeyOf[b]] = Zero], prev' = [prev EXCEPT ![KeyOf[b]] = v],
         out' \in [Keys -> Seq(Diff)], total' \in [Keys -> Diff],
         \A x \in Keys : x # KeyOf[b] => out'[x] = out[x] /\ total'[x] = total[x],
         panics = 0 => /\ total'[KeyOf[b]].n = v.n
                       /\ kind = "count" => total'[KeyOf[b]].m = v.m,
         Sound => OutRight(KeyOf[b])'
  PROVE  DeltaInv'
<1> DEFINE k == KeyOf[b]
<1> USE DEF Visit
<1>1. k \in Keys /\ Zero \in Num
  BY KeyAssumption DEF Num, Zero
<1>2. /\ acc'[k] = Zero /\ prev'[k] = v
      /\ \A x \in Keys : x # k => acc'[x] = acc[x] /\ prev'[x] = prev[x]
      /\ acc' \in [Keys -> Num] /\ prev' \in [Keys -> Num]
  BY <1>1 DEF DeltaInv, DeltaTypes
<1>3. DeltaTypes' /\ Grows'
  BY <1>2 DEF DeltaInv, DeltaTypes, Grows
<1>4. NoneYet'
  <2>1. kind = "count" => ~ \A x \in Of(k) : snap[x].n = 0
    BY <1>1 DEF DeltaInv, NoneYet
  <2> QED BY <1>2, <2>1 DEF DeltaInv, NoneYet, Of
<1>5. TotalInv'
  BY <1>2 DEF DeltaInv, TotalInv
<1>6. ASSUME Sound PROVE Done(k)'
  <2>1. acc[k] = Full(snap, k)
    BY <1>1, <1>6 DEF DeltaInv, SecondInv, Waiting, Done
  <2>2. PrevRight(k)'
    BY <1>2, <2>1 DEF PrevRight
  <2> QED BY <1>2, <1>6, <2>2 DEF Done
<1>7. SecondInv'
  <2>1. ASSUME Sound, NEW x \in Keys PROVE Waiting(x)' \/ Done(x)'
    <3>1. CASE x = k
      BY <1>6, <2>1, <3>1
    <3>2. CASE x # k
      BY <1>2, <2>1, <3>2, OtherKeys DEF DeltaInv, SecondInv
    <3> QED BY <3>1, <3>2
  <2>2. kind = "count" => \A x \in Buckets \ todo' : acc'[KeyOf[x]] = Zero
    <3>1. \A x \in Buckets : KeyOf[x] \in Keys
      BY KeyAssumption
    <3> QED BY <1>2, <3>1 DEF DeltaInv, SecondInv
  <2> QED BY <2>1, <2>2 DEF SecondInv, Sound
<1> QED BY <1>3, <1>4, <1>5, <1>7 DEF DeltaInv, IdleInv, FirstInv

(* A sample is written and counted.                                        *)
LEMMA ReportAdds ==
  ASSUME DeltaTypes, NEW k \in Keys, NEW d \in Diff, Report(k, d)
  PROVE  /\ out' \in [Keys -> Seq(Diff)] /\ out'[k] = Append(out[k], d)
         /\ total' \in [Keys -> Diff]
         /\ \A x \in Keys : x # k => out'[x] = out[x] /\ total'[x] = total[x]
         /\ panics = 0 => /\ total'[k].n = total[k].n + d.n
                          /\ kind = "count" => total'[k].m = total[k].m + d.m
<1> DEFINE v == [n |-> total[k].n + d.n, m |-> IF kind = "heap" THEN 0 ELSE total[k].m + d.m]
<1>1. out \in [Keys -> Seq(Diff)] /\ total \in [Keys -> Diff] /\ total[k] \in Diff
  BY DEF DeltaTypes
<1>2. Append(out[k], d) \in Seq(Diff)
  BY <1>1
<1>3. v \in Diff
  BY <1>1 DEF Diff
<1>4. out' = [out EXCEPT ![k] = Append(out[k], d)]
  BY DEF Report
<1>5. panics = 0 => total' = [total EXCEPT ![k] = v]
  BY DEF Report, DeltaTypes
<1>6. panics # 0 => total' = total
  BY DEF Report, DeltaTypes
<1>7. out' \in [Keys -> Seq(Diff)] /\ out'[k] = Append(out[k], d)
      /\ \A x \in Keys : x # k => out'[x] = out[x]
  BY <1>1, <1>2, <1>4
<1>8. CASE panics = 0
  <2>1. /\ total' \in [Keys -> Diff] /\ total'[k] = v
        /\ \A x \in Keys : x # k => total'[x] = total[x]
    BY <1>1, <1>3, <1>5, <1>8
  <2> QED BY <1>7, <1>8, <2>1 DEF DeltaTypes
<1>9. CASE panics # 0
  BY <1>1, <1>6, <1>7, <1>9
<1> QED BY <1>8, <1>9

(* A first sample.                                                         *)
LEMMA OneSample ==
  ASSUME NEW d
  PROVE  Append(<<>>, d) = <<d>> /\ Len(<<d>>) <= 1 /\ <<d>> # <<>> /\ <<d>>[1] = d
OBVIOUS

(* WriteHeapProto passes over a record: never because the count went down. *)
LEMMA HeapSkipStep ==
  ASSUME DeltaInv, NEW b \in Buckets, HeapSkip(b)
  PROVE  DeltaInv'
<1> DEFINE k == KeyOf[b]
<1>1. k \in Keys
  BY KeyAssumption
<1>2. ASSUME Sound, acc[k] # Zero PROVE snap[b].n = 0
  <2>1. acc[k] = Full(snap, k) /\ PrevLow(k)
    BY <1>1, <1>2 DEF DeltaInv, SecondInv, Sound, Waiting, Done, HeapSkip, Visit
  <2>2. acc[k].n \in Nat /\ prev[k].n \in Nat
    BY <1>1 DEF DeltaInv, DeltaTypes, Num
  <2>3. ~(acc[k].n - prev[k].n < 0)
    BY <2>1, <2>2 DEF PrevLow
  <2> QED BY <1>2, <2>3 DEF HeapSkip, HeapSkipped, Fresh
<1> QED BY <1>2, SkipStep DEF HeapSkip

(* How WriteHeapProto moves the entry on.                                  *)
LEMMA HeapAdvances ==
  ASSUME DeltaInv, NEW k \in Keys, HeapAdvance(k)
  PROVE  /\ [n |-> acc[k].n, m |-> prev[k].m] \in Num
         /\ acc' = [acc EXCEPT ![k] = Zero]
         /\ prev' = [prev EXCEPT ![k] = [n |-> acc[k].n, m |-> prev[k].m]]
<1>1. /\ prev \in [Keys -> Num] /\ prev[k] = [n |-> prev[k].n, m |-> prev[k].m]
      /\ acc[k].n \in Nat /\ prev[k].m \in Nat
  BY DEF DeltaInv, DeltaTypes, Num
<1>2. [prev[k] EXCEPT !.n = acc[k].n] = [n |-> acc[k].n, m |-> prev[k].m]
  BY <1>1
<1>3. prev' = [prev EXCEPT ![k] = [prev[k] EXCEPT !.n = acc[k].n]]
  BY DEF HeapAdvance
<1> QED BY <1>1, <1>2, <1>3 DEF HeapAdvance, Num

(* WriteHeapProto writes the difference for a key, or nothing if it has    *)
(* none.                                                                   *)
LEMMA HeapDeltaStep ==
  ASSUME DeltaInv, NEW b \in Buckets, HeapDelta(b)
  PROVE  DeltaInv'
<1> DEFINE k == KeyOf[b]
           v == [n |-> acc[k].n, m |-> prev[k].m]
<1>1. /\ k \in Keys /\ kind = "heap" /\ acc[k] # Zero
      /\ acc[k].n \in Nat /\ acc[k].m \in Nat /\ prev[k].n \in Nat
      /\ total[k].n \in Int /\ out[k] \in Seq(Diff)
      /\ out \in [Keys -> Seq(Diff)] /\ total \in [Keys -> Diff]
  BY KeyAssumption DEF HeapDelta, HeapSkipped, DeltaInv, DeltaTypes, Num, Diff
<1>2. /\ v \in Num /\ acc' = [acc EXCEPT ![k] = Zero] /\ prev' = [prev EXCEPT ![k] = v]
      /\ Visit("delta", b)
  BY <1>1, HeapAdvances DEF HeapDelta
<1>3. HeapDiff(k) = [n |-> acc[k].n - prev[k].n, m |-> acc[k].m] /\ HeapDiff(k) \in Diff
  BY <1>1 DEF HeapDiff, Diff
<1>4. panics = 0 => total[k].n = prev[k].n
  BY <1>1 DEF DeltaInv, TotalInv
<1>5. Sound => acc[k] = Full(snap, k) /\ out[k] = <<>>
  BY <1>1, <1>2 DEF DeltaInv, SecondInv, Waiting, Done, Visit
<1>6. kind' = kind /\ snap' = snap
  BY <1>2 DEF Visit
<1>7. CASE HeapDiff(k) = Zero
  <2>1. UNCHANGED <<out, total>>
    BY <1>7 DEF HeapDelta
  <2>2. acc[k].n = prev[k].n /\ acc[k].m = 0
    BY <1>1, <1>3, <1>7 DEF Zero
  <2>3. Sound => OutRight(k)'
    BY <1>5, <1>6, <2>1, <2>2 DEF OutRight
  <2>4. panics = 0 => total'[k].n = v.n
    BY <1>4, <2>1, <2>2
  <2> HIDE DEF v
  <2> QED BY <1>1, <1>2, <2>1, <2>3, <2>4, SettleStep DEF v
<1>8. CASE HeapDiff(k) # Zero
  <2>1. Report(k, HeapDiff(k))
    BY <1>8 DEF HeapDelta
  <2>2. /\ out' \in [Keys -> Seq(Diff)] /\ out'[k] = Append(out[k], HeapDiff(k))
        /\ total' \in [Keys -> Diff]
        /\ \A x \in Keys : x # k => out'[x] = out[x] /\ total'[x] = total[x]
        /\ panics = 0 => total'[k].n = total[k].n + HeapDiff(k).n
    BY <1>1, <1>3, <2>1, ReportAdds DEF DeltaInv
  <2>3. Sound => OutRight(k)'
    <3> SUFFICES ASSUME Sound PROVE OutRight(k)'
      OBVIOUS
    <3>1. out'[k] = Append(<<>>, HeapDiff(k))
      BY <1>5, <2>2
    <3>2. HeapDiff(k).m = Full(snap', k).m
      BY <1>3, <1>5, <1>6
    <3>3. Len(out'[k]) <= 1 /\ out'[k] # <<>> /\ out'[k][1].m = Full(snap', k).m
      BY <3>1, <3>2, OneSample, Zenon
    <3> QED BY <3>3 DEF OutRight
  <2>4. panics = 0 => total'[k].n = v.n
    BY <1>1, <1>3, <1>4, <2>2
  <2> HIDE DEF v
  <2> QED BY <1>1, <1>2, <2>2, <2>3, <2>4, SettleStep DEF v
<1> QED BY <1>7, <1>8

(* PrintCountCycleProfile does; a difference it does not report is zero,   *)
(* as long as nothing has panicked.                                        *)
LEMMA CountDeltaStep ==
  ASSUME DeltaInv, NEW b \in Buckets, CountDelta(b)
  PROVE  DeltaInv'
<1> DEFINE k == KeyOf[b]
<1>1. /\ k \in Keys /\ kind = "count" /\ acc[k] # Zero
      /\ acc[k].n \in Nat /\ acc[k].m \in Nat /\ prev[k].n \in Nat /\ prev[k].m \in Nat
      /\ total[k].n \in Int /\ total[k].m \in Int /\ out[k] \in Seq(Diff)
      /\ out \in [Keys -> Seq(Diff)] /\ total \in [Keys -> Diff]
  BY KeyAssumption DEF CountDelta, DeltaInv, DeltaTypes, Num, Diff
<1>2. acc[k].m \div GHz \in Nat
  BY <1>1, DivType, GHzAssumption
<1>3. /\ Scaled(k) \in Num /\ Scaled(k).n = acc[k].n /\ Scaled(k).m = acc[k].m \div GHz
      /\ acc' = [acc EXCEPT ![k] = Zero] /\ prev' = [prev EXCEPT ![k] = Scaled(k)]
      /\ Visit("delta", b)
  BY <1>1, <1>2 DEF CountDelta, CountAdvance, Scaled, Num
<1>4. /\ CountDiff(k).n = Scaled(k).n - prev[k].n /\ CountDiff(k).m = Scaled(k).m - prev[k].m
      /\ CountDiff(k) = [n |-> Scaled(k).n - prev[k].n, m |-> Scaled(k).m - prev[k].m]
      /\ CountDiff(k) \in Diff
  BY <1>1, <1>3 DEF CountDiff, Minus, Diff, Num
<1>5. panics = 0 => total[k].n = prev[k].n /\ total[k].m = prev[k].m
  BY <1>1 DEF DeltaInv, TotalInv
<1>6. Sound => acc[k] = Full(snap, k) /\ out[k] = <<>> /\ (panics = 0 => PrevLow(k))
  BY <1>1, <1>3 DEF DeltaInv, SecondInv, Waiting, Done, Visit
<1>7. kind' = kind
  BY <1>3 DEF Visit
<1>8. CASE ~Reported(CountDiff(k))
  <2>1. UNCHANGED <<out, total>>
    BY <1>8 DEF CountDelta
  <2>2. panics = 0 => CountDiff(k).n >= 0 /\ CountDiff(k).m >= 0
    BY <1>1, <1>3, <1>4, <1>6 DEF PrevLow, Sound, Num
  <2>3. panics = 0 => CountDiff(k).n = 0 /\ CountDiff(k).m = 0
    BY <1>4, <1>8, <2>2 DEF Reported, Zero
  <2>4. panics = 0 => total'[k].n = Scaled(k).n /\ total'[k].m = Scaled(k).m
    BY <1>1, <1>3, <1>4, <1>5, <2>1, <2>3 DEF Num
  <2>5. Sound => OutRight(k)'
    BY <1>1, <1>6, <1>7, <2>1 DEF OutRight
  <2> QED BY <1>1, <1>3, <2>1, <2>4, <2>5, SettleStep
<1>9. CASE Reported(CountDiff(k))
  <2>1. Report(k, CountDiff(k))
    BY <1>9 DEF CountDelta
  <2>2. /\ out' \in [Keys -> Seq(Diff)] /\ out'[k] = Append(out[k], CountDiff(k))
        /\ total' \in [Keys -> Diff]
        /\ \A x \in Keys : x # k => out'[x] = out[x] /\ total'[x] = total[x]
        /\ panics = 0 => /\ total'[k].n = total[k].n + CountDiff(k).n
                         /\ total'[k].m = total[k].m + CountDiff(k).m
    BY <1>1, <1>4, <2>1, ReportAdds DEF DeltaInv
  <2>3. Sound => OutRight(k)'
    <3>1. Sound => out'[k] = Append(<<>>, CountDiff(k))
      BY <1>6, <2>2
    <3>2. Sound => Len(out'[k]) <= 1
      BY <3>1, OneSample, Zenon
    <3> QED BY <1>1, <1>7, <3>2 DEF OutRight
  <2>4. panics = 0 => total'[k].n = Scaled(k).n /\ total'[k].m = Scaled(k).m
    BY <1>1, <1>3, <1>4, <1>5, <2>2 DEF Num
  <2> QED BY <1>1, <1>3, <2>2, <2>3, <2>4, SettleStep
<1> QED BY <1>8, <1>9

(* A panic: from now on the entries that were not settled hold too much.   *)
LEMMA PanicStep ==
  ASSUME DeltaInv, NEW b \in Buckets, HeapPanic(b) \/ CountPanic(b)
  PROVE  DeltaInv'
<1> DEFINE k == KeyOf[b]
<1>1. k \in Keys /\ Abort /\ Zero \in Num
  BY KeyAssumption DEF HeapPanic, CountPanic, Num, Zero
<1>2. PICK v \in Num : acc' = [acc EXCEPT ![k] = Zero] /\ prev' = [prev EXCEPT ![k] = v]
  <2>1. CASE HeapPanic(b)
    BY <1>1, <2>1, HeapAdvances DEF HeapPanic
  <2>2. CASE CountPanic(b)
    <3>1. acc[k].n \in Nat /\ acc[k].m \in Nat
      BY <1>1 DEF DeltaInv, DeltaTypes, Num
    <3>2. acc[k].m \div GHz \in Nat
      BY <3>1, DivType, GHzAssumption
    <3>3. Scaled(k) \in Num
      BY <3>1, <3>2 DEF Scaled, Num
    <3> QED BY <2>2, <3>3 DEF CountPanic, CountAdvance
  <2> QED BY <2>1, <2>2
<1>3. kind = "count" => acc[k] # Zero
  BY DEF HeapPanic, CountPanic
<1>4. /\ panics' \in Nat \ {0} /\ clean' = 0 /\ pass' = "idle" /\ todo' = {}
      /\ UNCHANGED <<kind, counts, snap, out, total>>
  BY <1>1 DEF Abort, DeltaInv, DeltaTypes
<1> HIDE DEF k
<1>5. /\ acc' \in [Keys -> Num] /\ prev' \in [Keys -> Num]
      /\ \A x \in Keys : x # k => acc'[x] = acc[x] /\ prev'[x] = prev[x]
  BY <1>1, <1>2 DEF DeltaInv, DeltaTypes
<1>6. DeltaTypes'
  BY <1>4, <1>5 DEF DeltaInv, DeltaTypes
<1>7. Grows' /\ TotalInv'
  BY <1>4 DEF DeltaInv, Grows, TotalInv
<1>8. NoneYet'
  <2>1. kind = "count" => ~ \A x \in Of(k) : snap[x].n = 0
    BY <1>1, <1>3 DEF DeltaInv, NoneYet
  <2> QED BY <1>4, <1>5, <2>1 DEF DeltaInv, NoneYet, Of
<1>9. ~Sound' /\ ~Right'
  BY <1>4 DEF Sound, Right
<1> QED BY <1>4, <1>6, <1>7, <1>8, <1>9 DEF DeltaInv, IdleInv, FirstInv, SecondInv

(* The profile is complete: no entry is left waiting, since a key whose    *)
(* records are all fresh has a sum of zero.                                *)
LEMMA BuildStep ==
  ASSUME DeltaInv, Build
  PROVE  DeltaInv'
<1> USE DEF Build
<1>1. /\ clean' \in 0 .. 2
      /\ clean' = 2 => clean >= 1
  <2>1. clean \in {0, 1, 2}
    BY DEF DeltaInv, DeltaTypes
  <2> QED BY <2>1 DEF Min
<1>2. DeltaTypes' /\ Grows' /\ NoneYet' /\ TotalInv'
  BY <1>1 DEF DeltaInv, DeltaTypes, Grows, NoneYet, TotalInv, Of
<1>3. ASSUME Sound, NEW k \in Keys PROVE Done(k)
  <2>1. Waiting(k) => Full(snap, k) = Zero
    BY FullZero DEF DeltaInv, DeltaTypes, Grows, Waiting
  <2> QED BY <1>3, <2>1 DEF DeltaInv, SecondInv, Waiting
<1>4. ASSUME kind = "count", NEW k \in Keys PROVE acc[k] = Zero
  <2>1. CASE \E b \in Buckets : KeyOf[b] = k
    BY <1>4, <2>1 DEF DeltaInv, SecondInv
  <2>2. CASE ~ \E b \in Buckets : KeyOf[b] = k
    BY <1>4, <2>2 DEF DeltaInv, NoneYet, Of
  <2> QED BY <2>1, <2>2
<1>5. \A k \in Keys : /\ PrevRight(k)' <=> PrevRight(k)
                      /\ OutRight(k)' <=> OutRight(k)
  BY DEF PrevRight, OutRight
<1>6. IdleInv'
  <2>1. Sound' => \A k \in Keys : acc'[k] = Zero
    BY <1>3, <1>4 DEF Sound, Done
  <2>2. Right' => Sound
    BY <1>1 DEF Right, Sound
  <2>3. panics' = 0 => Sound
    BY DEF Sound
  <2> QED BY <1>3, <1>5, <2>1, <2>2, <2>3 DEF IdleInv, Done
<1> QED BY <1>2, <1>6 DEF DeltaInv, FirstInv, SecondInv

(***************************************************************************)
(* The theorems.                                                           *)
(***************************************************************************)

(* The invariant holds initially.                                          *)
LEMMA DeltaInit == Init => DeltaInv
<1> SUFFICES ASSUME Init PROVE DeltaInv
  OBVIOUS
<1>1. Zero = [n |-> 0, m |-> 0] /\ Zero \in Num /\ Zero \in Diff
  BY DEF Zero, Num, Diff
<1>2. DeltaTypes
  <2>1. out \in [Keys -> Seq(Diff)]
    BY DEF Init
  <2> QED BY <1>1, <2>1 DEF Init, DeltaTypes
<1>3. Grows /\ NoneYet /\ TotalInv
  BY <1>1 DEF Init, Grows, NoneYet, TotalInv
<1>4. IdleInv
  <2> SUFFICES ASSUME NEW k \in Keys PROVE acc[k] = Zero /\ PrevRight(k) /\ OutRight(k)
    BY DEF IdleInv
  <2>1. Full(snap, k) = [n |-> 0, m |-> 0]
    <3>1. \A b \in Of(k) : snap[b].n = 0
      BY <1>1 DEF Init, Of
    <3>2. Full(snap, k) = Zero
      BY <1>2, <1>3, <3>1, FullZero DEF DeltaTypes, Grows
    <3> QED BY <1>1, <3>2
  <2>2. 0 \div GHz = 0
    BY DivType, GHzAssumption
  <2>3. prev[k] = Zero /\ acc[k] = Zero /\ out[k] = <<>>
    BY DEF Init
  <2>4. PrevRight(k)
    BY <1>1, <2>1, <2>2, <2>3 DEF PrevRight
  <2>5. OutRight(k)
    BY <2>1, <2>3 DEF OutRight
  <2> QED BY <2>3, <2>4, <2>5
<1> QED BY <1>2, <1>3, <1>4 DEF Init, DeltaInv, FirstInv, SecondInv

(* Every step keeps it.                                                    *)
LEMMA DeltaNext == DeltaInv /\ [Next]_vars => DeltaInv'
<1> SUFFICES ASSUME DeltaInv, [Next]_vars PROVE DeltaInv'
  OBVIOUS
<1>1. CASE UNCHANGED vars
  <2>1. DeltaTypes' /\ Grows'
    BY <1>1 DEF vars, DeltaInv, DeltaTypes, Grows
  <2> QED BY <1>1, <2>1, KeptByRuntime DEF vars, profilerVars
<1>2. ASSUME NEW b \in Buckets, Allocate(b) \/ Free(b) \/ \E d \in Delays : Contend(b, d)
      PROVE  DeltaInv'
  BY <1>2, EventStep, FreeStep, GHzAssumption DEF Allocate, Contend
<1>3. CASE HeapProfile \/ BlockProfile
  BY <1>3, ProfileStep DEF HeapProfile, BlockProfile, MemProfile, fetchBlockLike
<1>4. ASSUME NEW b \in Buckets, HeapAccumulate(b) \/ CountAccumulate(b)
      PROVE  DeltaInv'
  BY <1>4, AccumulateStep DEF HeapAccumulate, CountAccumulate, Fresh
<1>5. ASSUME NEW b \in Buckets, HeapSkip(b) \/ CountSkip(b)
      PROVE  DeltaInv'
  BY <1>5, HeapSkipStep, SkipStep DEF CountSkip
<1>6. ASSUME NEW b \in Buckets, HeapDelta(b) \/ CountDelta(b) \/ HeapPanic(b) \/ CountPanic(b)
      PROVE  DeltaInv'
  BY <1>6, HeapDeltaStep, CountDeltaStep, PanicStep
<1>7. CASE SecondLoop \/ Build
  BY <1>7, SecondLoopStep, BuildStep
<1> QED BY <1>1, <1>2, <1>3, <1>4, <1>5, <1>6, <1>7
        DEF Next, Write, WriteHeapProto, PrintCountCycleProfile

(* The invariant holds throughout, for any number of buckets and keys.     *)
THEOREM DeltaInvariant == Spec => []DeltaInv
BY DeltaInit, DeltaNext, PTL DEF Spec

(* What all profiles reported for a stack is what the runtime counted for  *)
(* it over all its buckets, and rounding to nanoseconds does not add up.   *)
THEOREM DeltaDeltasAddUp == Spec => []DeltasAddUp
<1>1. DeltaInv => DeltasAddUp
  BY DEF DeltaInv, IdleInv, TotalInv, Right, PrevRight, Full, Ns, Ms, Counted, DeltasAddUp
<1> QED BY <1>1, DeltaInvariant, PTL

(* A profile has one sample for a stack at most, and the heap profile one  *)
(* for every stack with objects in use, which shows all of them.           *)
THEOREM DeltaOneSamplePerStack == Spec => []OneSamplePerStack
<1>1. ASSUME DeltaInv, kind = "heap", NEW k \in Keys PROVE Counted(k).m = Full(snap, k).m
  <2>1. Full(snap, k).m \in Nat
    BY <1>1, FullType DEF DeltaInv, DeltaTypes, Num
  <2>2. Counted(k).m = Full(snap, k).m \div 1
    BY <1>1 DEF Counted, Full, Ms
  <2> QED BY <2>1, <2>2, DivOne
<1>2. DeltaInv => OneSamplePerStack
  BY <1>1 DEF DeltaInv, IdleInv, OutRight, OneSamplePerStack
<1> QED BY <1>2, DeltaInvariant, PTL

(* Two complete block or mutex profiles after a recovered panic entry.prev *)
(* is what the runtime had counted.                                        *)
THEOREM DeltaHealsAfterPanic == Spec => []HealsAfterPanic
<1>1. ASSUME DeltaInv, kind = "count", NEW k \in Keys, PrevRight(k) PROVE prev[k] = Counted(k)
  <2>1. prev[k] = [n |-> prev[k].n, m |-> prev[k].m]
    BY <1>1 DEF DeltaInv, DeltaTypes, Num
  <2> QED BY <1>1, <2>1 DEF PrevRight, Full, Ns, Ms, Counted
<1>2. DeltaInv => HealsAfterPanic
  BY <1>1 DEF DeltaInv, IdleInv, Right, HealsAfterPanic
<1> QED BY <1>2, DeltaInvariant, PTL
=============================================================================
