--------------------------- MODULE SequenceFacts ---------------------------
(***************************************************************************)
(* Facts about sequences that the proofs of several components need, and   *)
(* above all what it means to flatten a sequence of sequences.  Its        *)
(* definition is recursive; an induction over the naturals, for sets       *)
(* instead of predicates, makes it usable.                                 *)
(***************************************************************************)
EXTENDS Integers, FiniteSets, SequencesExt, SequenceTheorems, WellFoundedInduction, TLAPS

(* A set that has 0 and with every number the next one has them all.       *)
LEMMA SetInduction ==
  ASSUME NEW T, 0 \in T, \A n \in Nat : n \in T => n + 1 \in T
  PROVE  \A n \in Nat : n \in T
<1> DEFINE C == Nat \ T
<1> SUFFICES ASSUME C # {} PROVE FALSE
  OBVIOUS
<1>1. PICK n \in C : \A m \in C : ~(<<m, n>> \in OpToRel(<, Nat))
  <2> HIDE DEF C
  <2>1. C \subseteq Nat
    BY DEF C
  <2> QED BY <2>1, WFMin, NatLessThanWellFounded, Zenon
<1>2. n \in Nat /\ n # 0 /\ n - 1 \in Nat /\ n - 1 < n
  OBVIOUS
<1>3. n - 1 \in C
  <2>1. (n - 1) + 1 = n
    BY <1>2
  <2> QED BY <1>2, <2>1
<1>4. <<n - 1, n>> \in OpToRel(<, Nat)
  BY <1>2 DEF OpToRel
<1> QED BY <1>1, <1>3, <1>4

(* The recursion in FlattenSeq, over the first n of the sequences.         *)
IsFlat(f, s, n) == f = [i \in 1 .. n |-> IF i = 1 THEN s[i] ELSE f[i - 1] \o s[i]]

(* It has a solution.                                                      *)
LEMMA FlatExists ==
  ASSUME NEW s PROVE \A n \in Nat : \E f : IsFlat(f, s, n)
<1> DEFINE T == {n \in Nat : \E f : IsFlat(f, s, n)}
<1>1. 0 \in T
  <2>1. IsFlat([i \in 1 .. 0 |-> s[i]], s, 0)
    BY DEF IsFlat
  <2> QED BY <2>1
<1>2. ASSUME NEW n \in Nat, n \in T PROVE n + 1 \in T
  <2>1. PICK f : IsFlat(f, s, n)
    BY <1>2
  <2> DEFINE g == [i \in 1 .. n + 1 |-> IF i = 1 THEN s[i] ELSE f[i - 1] \o s[i]]
  <2>2. \A i \in 1 .. n : g[i] = f[i]
    <3>1. \A i \in 1 .. n : f[i] = IF i = 1 THEN s[i] ELSE f[i - 1] \o s[i]
      BY <2>1 DEF IsFlat
    <3>2. \A i \in 1 .. n : i \in 1 .. n + 1
      OBVIOUS
    <3> QED BY <3>1, <3>2
  <2>3. g = [i \in 1 .. n + 1 |-> IF i = 1 THEN s[i] ELSE g[i - 1] \o s[i]]
    <3>1. \A i \in 1 .. n + 1 : i # 1 => i - 1 \in 1 .. n
      OBVIOUS
    <3>2. \A i \in 1 .. n + 1 : i # 1 => g[i - 1] = f[i - 1]
      BY <2>2, <3>1
    <3> QED BY <3>2
  <2> HIDE DEF g
  <2>4. IsFlat(g, s, n + 1)
    BY <2>3 DEF IsFlat
  <2> QED BY <2>4
<1> HIDE DEF T
<1>3. \A n \in Nat : n \in T
  BY <1>1, <1>2, SetInduction
<1> QED BY <1>3 DEF T

(* It depends on those sequences only.                                     *)
LEMMA FlatUnique ==
  ASSUME NEW s, NEW t, NEW f, NEW g, NEW k \in Nat,
         \A i \in 1 .. k : s[i] = t[i], IsFlat(f, s, k), IsFlat(g, t, k + 1)
  PROVE  \A i \in 1 .. k : f[i] = g[i]
<1> DEFINE T == {i \in Nat : i + 1 <= k => f[i + 1] = g[i + 1]}
<1>1. /\ \A i \in 1 .. k : f[i] = IF i = 1 THEN s[i] ELSE f[i - 1] \o s[i]
      /\ \A i \in 1 .. k + 1 : g[i] = IF i = 1 THEN t[i] ELSE g[i - 1] \o t[i]
  BY DEF IsFlat
<1>2. 0 \in T
  BY <1>1
<1>3. ASSUME NEW i \in Nat, i \in T PROVE i + 1 \in T
  <2> SUFFICES ASSUME (i + 1) + 1 <= k PROVE f[(i + 1) + 1] = g[(i + 1) + 1]
    OBVIOUS
  <2> DEFINE j == (i + 1) + 1
  <2>1. j \in 1 .. k /\ j \in 1 .. k + 1 /\ j # 1 /\ j - 1 = i + 1 /\ i + 1 <= k
    OBVIOUS
  <2>2. f[j - 1] = g[j - 1]
    BY <1>3, <2>1
  <2>3. f[j] = f[j - 1] \o s[j] /\ g[j] = g[j - 1] \o t[j] /\ s[j] = t[j]
    BY <1>1, <2>1
  <2> QED BY <2>2, <2>3
<1> HIDE DEF T
<1>4. \A i \in Nat : i \in T
  BY <1>2, <1>3, SetInduction
<1>5. \A i \in 1 .. k : i - 1 \in Nat /\ (i - 1) + 1 = i
  OBVIOUS
<1> QED BY <1>4, <1>5 DEF T

(* What it computes.                                                       *)
LEMMA FlatIs ==
  ASSUME NEW s, Len(s) \in Nat \ {0}
  PROVE  \E f : IsFlat(f, s, Len(s)) /\ FlattenSeq(s) = f[Len(s)]
<1> DEFINE n == Len(s)
           f == CHOOSE f : IsFlat(f, s, n)
<1>1. IsFlat(f, s, n)
  BY FlatExists
<1>2. FlattenSeq(s) = f[n]
  BY DEF FlattenSeq, IsFlat
<1> QED BY <1>1, <1>2

(* Nothing, and one sequence.                                              *)
LEMMA FlatFew ==
  /\ FlattenSeq(<<>>) = <<>>
  /\ \A x : FlattenSeq(<<x>>) = x
<1>1. FlattenSeq(<<>>) = <<>>
  BY DEF FlattenSeq
<1>2. ASSUME NEW x PROVE FlattenSeq(<<x>>) = x
  <2>1. Len(<<x>>) = 1 /\ <<x>>[1] = x
    OBVIOUS
  <2> DEFINE s == <<x>>
  <2> HIDE DEF s
  <2>2. PICK f : IsFlat(f, s, 1) /\ FlattenSeq(s) = f[1]
    <3>1. Len(s) = 1 /\ Len(s) \in Nat \ {0}
      BY <2>1 DEF s
    <3>2. \E f : IsFlat(f, s, Len(s)) /\ FlattenSeq(s) = f[Len(s)]
      BY <3>1, FlatIs, Zenon
    <3> QED BY <3>1, <3>2
  <2>3. f[1] = s[1]
    BY <2>2 DEF IsFlat
  <2> QED BY <2>1, <2>2, <2>3 DEF s
<1> QED BY <1>1, <1>2

(* The last step of the recursion.                                         *)
LEMMA FlatLast ==
  ASSUME NEW S, NEW s \in Seq(Seq(S)), NEW x \in Seq(S)
  PROVE  FlattenSeq(Append(s, x)) = IF s = <<>> THEN x ELSE FlattenSeq(s) \o x
<1>1. CASE s = <<>>
  <2>1. Append(s, x) = <<x>>
    BY <1>1
  <2> QED BY <1>1, <2>1, FlatFew
<1>2. CASE s # <<>>
  <2> DEFINE t == Append(s, x)
             n == Len(s)
  <2>1. /\ n \in Nat \ {0} /\ Len(t) = n + 1 /\ t[n + 1] = x
        /\ \A i \in 1 .. n : t[i] = s[i]
    BY <1>2
  <2> HIDE DEF t, n
  <2>2. PICK f : IsFlat(f, s, n) /\ FlattenSeq(s) = f[n]
    BY <2>1, FlatIs DEF n
  <2>3. PICK g : IsFlat(g, t, n + 1) /\ FlattenSeq(t) = g[n + 1]
    BY <2>1, FlatIs
  <2>4. g[n] = f[n]
    <3>1. n \in Nat /\ n \in 1 .. n /\ \A i \in 1 .. n : s[i] = t[i]
      BY <2>1
    <3>2. \A i \in 1 .. n : f[i] = g[i]
      BY <2>2, <2>3, <3>1, FlatUnique
    <3> QED BY <3>1, <3>2
  <2>5. g[n + 1] = g[n] \o t[n + 1]
    <3>1. n + 1 \in 1 .. n + 1 /\ n + 1 # 1 /\ (n + 1) - 1 = n
      BY <2>1
    <3> QED BY <2>3, <3>1 DEF IsFlat
  <2> QED BY <1>2, <2>1, <2>2, <2>3, <2>4, <2>5 DEF t
<1> QED BY <1>1, <1>2

(* A sequence comes before its last element.                               *)
LEMMA Fronts ==
  ASSUME NEW S, NEW s \in Seq(S), NEW n \in Nat, Len(s) = n + 1
  PROVE  \E u \in Seq(S), x \in S : s = Append(u, x) /\ Len(u) = n
<1>1. s # <<>>
  OBVIOUS
<1>2. PICK u \in Seq(S), x \in S : s = Append(u, x)
  BY <1>1, SequenceEmptyOrAppend
<1>3. Len(u) = n
  BY <1>2
<1> QED BY <1>2, <1>3

(* The result is a sequence of what was in the sequences.                  *)
LEMMA FlatType ==
  ASSUME NEW S, NEW s \in Seq(Seq(S)) PROVE FlattenSeq(s) \in Seq(S)
<1> DEFINE T == {n \in Nat : \A u \in Seq(Seq(S)) : Len(u) = n => FlattenSeq(u) \in Seq(S)}
<1>1. 0 \in T
  <2>1. \A u \in Seq(Seq(S)) : Len(u) = 0 => u = <<>>
    OBVIOUS
  <2> QED BY <2>1, FlatFew
<1>2. ASSUME NEW n \in Nat, n \in T PROVE n + 1 \in T
  <2> SUFFICES ASSUME NEW u \in Seq(Seq(S)), Len(u) = n + 1 PROVE FlattenSeq(u) \in Seq(S)
    OBVIOUS
  <2>1. PICK v \in Seq(Seq(S)), x \in Seq(S) : u = Append(v, x) /\ Len(v) = n
    BY Fronts
  <2>2. FlattenSeq(v) \in Seq(S)
    BY <1>2, <2>1
  <2>3. FlattenSeq(u) = IF v = <<>> THEN x ELSE FlattenSeq(v) \o x
    BY <2>1, FlatLast
  <2> QED BY <2>2, <2>3
<1> HIDE DEF T
<1>3. \A n \in Nat : n \in T
  BY <1>1, <1>2, SetInduction
<1> QED BY <1>3 DEF T

(* One sequence more.                                                      *)
LEMMA FlatAppend ==
  ASSUME NEW S, NEW s \in Seq(Seq(S)), NEW x \in Seq(S)
  PROVE  FlattenSeq(Append(s, x)) = FlattenSeq(s) \o x
<1>1. <<>> \o x = x
  OBVIOUS
<1> QED BY <1>1, FlatLast, FlatFew

(* The head of one sequence moves to the end of another.                   *)
LEMMA MovesOver ==
  ASSUME NEW S, NEW s \in Seq(S), NEW r \in Seq(S), r # <<>>
  PROVE  s \o r = Append(s, Head(r)) \o Tail(r)
<1> DEFINE t == Append(s, Head(r)) \o Tail(r)
<1>1. /\ s \o r \in Seq(S) /\ Len(s \o r) = Len(s) + Len(r)
      /\ \A i \in 1 .. Len(s) + Len(r) : (s \o r)[i] = IF i <= Len(s) THEN s[i] ELSE r[i - Len(s)]
  OBVIOUS
<1>2. /\ Append(s, Head(r)) \in Seq(S) /\ Len(Append(s, Head(r))) = Len(s) + 1
      /\ Tail(r) \in Seq(S) /\ Len(Tail(r)) = Len(r) - 1 /\ Len(s) \in Nat /\ Len(r) \in Nat
  OBVIOUS
<1>3. t \in Seq(S) /\ Len(t) = Len(s) + Len(r)
  BY <1>2
<1>4. ASSUME NEW i \in 1 .. Len(s) + Len(r) PROVE t[i] = (s \o r)[i]
  <2>1. CASE i <= Len(s)
    BY <1>1, <1>2, <2>1
  <2>2. CASE i = Len(s) + 1
    BY <1>1, <1>2, <2>2
  <2>3. CASE i > Len(s) + 1
    <3>1. i - (Len(s) + 1) \in 1 .. Len(Tail(r)) /\ (i - (Len(s) + 1)) + 1 = i - Len(s)
      BY <1>2, <2>3
    <3>2. t[i] = Tail(r)[i - (Len(s) + 1)]
      BY <1>2, <2>3
    <3>3. Tail(r)[i - (Len(s) + 1)] = r[i - Len(s)]
      BY <1>2, <3>1
    <3> QED BY <1>1, <1>2, <2>3, <3>2, <3>3
  <2> QED BY <1>2, <2>1, <2>2, <2>3
<1> DEFINE u == s \o r
<1>5. /\ u \in Seq(S) /\ t \in Seq(S) /\ Len(u) = Len(t)
      /\ \A i \in 1 .. Len(u) : u[i] = t[i]
  BY <1>1, <1>3, <1>4
<1> HIDE DEF t, u
<1>6. u = t
  BY <1>5
<1> QED BY <1>6 DEF t, u

(* What comes first, and what comes after it.                              *)
LEMMA TakesOne ==
  ASSUME NEW S, NEW r \in Seq(S), NEW t \in Seq(S), r # <<>>
  PROVE  /\ r \o t # <<>> /\ Head(r \o t) = Head(r) /\ Tail(r \o t) = Tail(r) \o t
         /\ Head(r) \in Range(r) /\ Head(r) \in S /\ Tail(r) \in Seq(S)
<1>1. r \o t \in Seq(S) /\ Len(r \o t) = Len(r) + Len(t) /\ Len(r) > 0
  OBVIOUS
<1>2. r \o t # <<>> /\ Head(r \o t) = Head(r)
  BY <1>1
<1>3. Tail(r \o t) = Tail(r) \o t
  BY <1>1
<1>4. 1 \in DOMAIN r /\ Head(r) = r[1] /\ Head(r) \in S /\ Tail(r) \in Seq(S)
  OBVIOUS
<1> QED BY <1>2, <1>3, <1>4 DEF Range

(* A set of numbers up to some n has a least and a greatest one.           *)
LEMMA Ends ==
  ASSUME NEW n \in Nat, NEW s \in SUBSET (1 .. n), s # {}
  PROVE  /\ Min(s) \in s /\ \A y \in s : Min(s) <= y
         /\ Max(s) \in s /\ \A y \in s : Max(s) >= y
<1> DEFINE Has(u) == (\E x \in u : \A y \in u : x <= y) /\ (\E x \in u : \A y \in u : x >= y)
           T == {m \in Nat : \A u \in SUBSET (1 .. m) : u # {} => Has(u)}
<1>1. 0 \in T
  <2>1. 1 .. 0 = {}
    OBVIOUS
  <2> QED BY <2>1
<1>2. ASSUME NEW m \in Nat, m \in T PROVE m + 1 \in T
  <2> SUFFICES ASSUME NEW u \in SUBSET (1 .. m + 1), u # {} PROVE Has(u)
    OBVIOUS
  <2>1. CASE m + 1 \notin u
    <3>1. u \in SUBSET (1 .. m)
      BY <2>1
    <3> QED BY <1>2, <3>1
  <2>2. CASE m + 1 \in u
    <3> DEFINE v == u \ {m + 1}
    <3>1. v \in SUBSET (1 .. m) /\ \A y \in u : y \in Int /\ m + 1 >= y
      OBVIOUS
    <3>2. \E x \in u : \A y \in u : x >= y
      BY <2>2, <3>1
    <3>3. CASE v = {}
      <4>1. u = {m + 1}
        BY <2>2, <3>3
      <4> QED BY <3>2, <4>1
    <3>4. CASE v # {}
      <4>1. PICK x \in v : \A y \in v : x <= y
        BY <1>2, <3>1, <3>4
      <4>2. x \in u /\ \A y \in u : x <= y
        BY <3>1, <4>1
      <4> QED BY <3>2, <4>2
    <3> QED BY <3>3, <3>4
  <2> QED BY <2>1, <2>2
<1> HIDE DEF T
<1>3. \A m \in Nat : m \in T
  BY <1>1, <1>2, SetInduction
<1>4. Has(s)
  BY <1>3 DEF T
<1> QED BY <1>4 DEF Min, Max

(* Concatenation is associative.                                           *)
LEMMA Assoc == \A S : \A s, t, u \in Seq(S) : (s \o t) \o u = s \o (t \o u)
OBVIOUS

(* Concatenation as an operator whose definition a proof need not expand.  *)
Cat(s, t) == s \o t

(* What it needs to know instead.                                          *)
LEMMA CatFacts ==
  ASSUME NEW S
  PROVE  /\ \A a, b \in Seq(S) : Cat(a, b) \in Seq(S)
         /\ \A a \in Seq(S) : Cat(a, <<>>) = a /\ Cat(<<>>, a) = a
         /\ \A a, b, c \in Seq(S) : Cat(Cat(a, b), c) = Cat(a, Cat(b, c))
<1>1. \A a, b \in Seq(S) : Cat(a, b) \in Seq(S)
  BY DEF Cat
<1>2. \A a \in Seq(S) : Cat(a, <<>>) = a /\ Cat(<<>>, a) = a
  BY DEF Cat
<1>3. \A a, b, c \in Seq(S) : Cat(Cat(a, b), c) = Cat(a, Cat(b, c))
  BY ONLY Assoc DEF Cat
<1> QED BY <1>1, <1>2, <1>3

(* Flattening commutes with concatenation.                                 *)
LEMMA FlatConcat ==
  ASSUME NEW S, NEW s \in Seq(Seq(S)), NEW t \in Seq(Seq(S))
  PROVE  FlattenSeq(s \o t) = FlattenSeq(s) \o FlattenSeq(t)
<1> DEFINE T == {n \in Nat : \A u \in Seq(Seq(S)) :
                   Len(u) = n => FlattenSeq(s \o u) = FlattenSeq(s) \o FlattenSeq(u)}
<1>1. 0 \in T
  <2> SUFFICES ASSUME NEW u \in Seq(Seq(S)), Len(u) = 0
               PROVE  FlattenSeq(s \o u) = FlattenSeq(s) \o FlattenSeq(u)
    OBVIOUS
  <2>1. u = <<>> /\ s \o <<>> = s
    OBVIOUS
  <2>2. FlattenSeq(s) \o <<>> = FlattenSeq(s)
    BY FlatType, ConcatEmptySeq
  <2> QED BY <2>1, <2>2, FlatFew
<1>2. ASSUME NEW n \in Nat, n \in T PROVE n + 1 \in T
  <2> SUFFICES ASSUME NEW u \in Seq(Seq(S)), Len(u) = n + 1
               PROVE  FlattenSeq(s \o u) = FlattenSeq(s) \o FlattenSeq(u)
    OBVIOUS
  <2>1. PICK v \in Seq(Seq(S)), x \in Seq(S) : u = Append(v, x) /\ Len(v) = n
    BY Fronts
  <2>2. FlattenSeq(s \o v) = FlattenSeq(s) \o FlattenSeq(v)
    BY <1>2, <2>1
  <2>3. s \o u = Append(s \o v, x) /\ s \o v \in Seq(Seq(S))
    BY <2>1
  <2>4. FlattenSeq(s \o u) = (FlattenSeq(s) \o FlattenSeq(v)) \o x
    BY <2>2, <2>3, FlatAppend
  <2>5. FlattenSeq(u) = FlattenSeq(v) \o x
    BY <2>1, FlatAppend
  <2>6. FlattenSeq(s) \in Seq(S) /\ FlattenSeq(v) \in Seq(S)
    BY FlatType
  <2>7. \A a, b \in Seq(S) : (a \o b) \o x = a \o (b \o x)
    BY ONLY Assoc, x \in Seq(S)
  <2> QED BY <2>4, <2>5, <2>6, <2>7, Zenon
<1> HIDE DEF T
<1>3. \A n \in Nat : n \in T
  BY <1>1, <1>2, SetInduction
<1> QED BY <1>3 DEF T

-----------------------------------------------------------------------------
(* F maps the elements of X to elements of Y; the images of the elements   *)
(* of s under F; the sequences F gives for them, one after the other.      *)
Gives(F, X, Y) == \A x \in X : F[x] \in Y
Mapped(F, s) == [i \in DOMAIN s |-> F[s[i]]]
Collect(F, s) == FlattenSeq(Mapped(F, s))

(* A sequence whose elements are mapped is one.                            *)
LEMMA MapSeq ==
  ASSUME NEW X, NEW Y, NEW F, Gives(F, X, Y), NEW s \in Seq(X)
  PROVE  /\ Mapped(F, s) \in Seq(Y) /\ Len(Mapped(F, s)) = Len(s)
         /\ \A i \in 1 .. Len(s) : Mapped(F, s)[i] = F[s[i]]
<1> DEFINE n == Len(s)
<1>1. n \in Nat /\ DOMAIN s = 1 .. n /\ \A i \in 1 .. n : s[i] \in X
  OBVIOUS
<1> HIDE DEF n
<1>2. \A i \in 1 .. n : F[s[i]] \in Y
  BY <1>1 DEF Gives
<1>3. [i \in 1 .. n |-> F[s[i]]] \in Seq(Y) /\ Len([i \in 1 .. n |-> F[s[i]]]) = n
  BY <1>1, <1>2
<1> QED BY <1>1, <1>3 DEF n, Mapped

(* Two of them are mapped one after the other.                             *)
LEMMA MapConcat ==
  ASSUME NEW X, NEW Y, NEW F, Gives(F, X, Y), NEW s \in Seq(X), NEW t \in Seq(X)
  PROVE  Mapped(F, s \o t) = Mapped(F, s) \o Mapped(F, t)
<1> DEFINE u == s \o t
           a == Mapped(F, s)
           b == Mapped(F, t)
           c == Mapped(F, u)
           m == Len(s)
           n == Len(t)
<1>1. /\ u \in Seq(X) /\ Len(u) = m + n /\ m \in Nat /\ n \in Nat
      /\ \A i \in 1 .. m + n : u[i] = IF i <= m THEN s[i] ELSE t[i - m]
  OBVIOUS
<1> HIDE DEF u
<1>2. a \in Seq(Y) /\ Len(a) = m /\ \A i \in 1 .. m : a[i] = F[s[i]]
  BY MapSeq
<1>3. b \in Seq(Y) /\ Len(b) = n /\ \A i \in 1 .. n : b[i] = F[t[i]]
  BY MapSeq
<1>4. c \in Seq(Y) /\ Len(c) = m + n /\ \A i \in 1 .. m + n : c[i] = F[u[i]]
  <2>1. u \in Seq(X) /\ Len(u) = m + n
    BY <1>1
  <2>2. c \in Seq(Y) /\ Len(c) = Len(u) /\ \A i \in 1 .. Len(u) : c[i] = F[u[i]]
    BY <2>1, MapSeq
  <2> QED BY <2>1, <2>2, Zenon
<1> HIDE DEF a, b, c, m, n
<1> DEFINE v == a \o b
<1>5. /\ v \in Seq(Y) /\ Len(v) = m + n
      /\ \A i \in 1 .. m + n : v[i] = IF i <= m THEN a[i] ELSE b[i - m]
  <2>1. a \in Seq(Y) /\ b \in Seq(Y) /\ Len(a) = m /\ Len(b) = n
    BY <1>2, <1>3
  <2>2. \A x, y \in Seq(Y) :
          /\ x \o y \in Seq(Y) /\ Len(x \o y) = Len(x) + Len(y)
          /\ \A i \in 1 .. Len(x) + Len(y) : (x \o y)[i] = IF i <= Len(x) THEN x[i] ELSE y[i - Len(x)]
    OBVIOUS
  <2> QED BY <2>1, <2>2, Zenon
<1> HIDE DEF v
<1>6. ASSUME NEW i \in 1 .. m + n PROVE v[i] = c[i]
  <2>1. v[i] = (IF i <= m THEN a[i] ELSE b[i - m]) /\ u[i] = (IF i <= m THEN s[i] ELSE t[i - m])
    BY <1>1, <1>5
  <2>2. CASE i <= m
    <3>1. i \in 1 .. m
      BY <1>1, <2>2
    <3> QED BY <1>2, <1>4, <2>1, <2>2, <3>1, Zenon
  <2>3. CASE ~(i <= m)
    <3>1. i - m \in 1 .. n
      BY <1>1, <2>3
    <3> QED BY <1>3, <1>4, <2>1, <2>3, <3>1, Zenon
  <2> QED BY <2>2, <2>3
<1>7. v = c
  BY <1>4, <1>5, <1>6
<1> QED BY <1>7 DEF v, a, b, c, u

(* What is collected is a sequence of what F gives.                        *)
LEMMA CollectType ==
  ASSUME NEW X, NEW S, NEW F, Gives(F, X, Seq(S)), NEW s \in Seq(X)
  PROVE  Collect(F, s) \in Seq(S)
BY MapSeq, FlatType DEF Collect

(* Nothing, and one element.                                               *)
LEMMA CollectFew ==
  ASSUME NEW X, NEW S, NEW F, Gives(F, X, Seq(S))
  PROVE  /\ Collect(F, <<>>) = <<>>
         /\ \A x \in X : Collect(F, <<x>>) = F[x]
<1>1. Mapped(F, <<>>) = <<>>
  BY DEF Mapped
<1>2. \A x \in X : Mapped(F, <<x>>) = <<F[x]>>
  BY DEF Mapped
<1> QED BY <1>1, <1>2, FlatFew DEF Collect

(* What is collected from two sequences.                                   *)
LEMMA CollectConcat ==
  ASSUME NEW X, NEW S, NEW F, Gives(F, X, Seq(S)), NEW s \in Seq(X), NEW t \in Seq(X)
  PROVE  Collect(F, s \o t) = Collect(F, s) \o Collect(F, t)
<1>1. Mapped(F, s) \in Seq(Seq(S)) /\ Mapped(F, t) \in Seq(Seq(S))
  BY MapSeq
<1>2. Mapped(F, s \o t) = Mapped(F, s) \o Mapped(F, t)
  BY MapConcat, s \in Seq(X), t \in Seq(X)
<1> QED BY <1>1, <1>2, FlatConcat DEF Collect
=============================================================================
