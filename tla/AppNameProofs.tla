--------------------------- MODULE AppNameProofs ---------------------------
(***************************************************************************)
(* Proofs about the application names, for any alphabet, tags and          *)
(* configured name, of any length.                                         *)
(***************************************************************************)
EXTENDS AppName, SequenceFacts, FiniteSetTheorems

NAME == ReservedLabelNameName

-----------------------------------------------------------------------------
(* Which label takes precedence.                                           *)

(* The labels of the configured name with some of the tags merged.         *)
Merged(done) ==
  LET own == {k \in done : ~IsLabelNameReserved(k)}
  IN [k \in (DOMAIN parsed \ own) \cup {k \in own : tags[k] # <<>>}
        |-> IF k \in own THEN tags[k] ELSE parsed[k]]

MergeInv ==
  /\ pc = "parse" => labels = [k \in DOMAIN labels |-> labels[k]]
  /\ pc = "tags" => todo \subseteq DOMAIN tags /\ labels = Merged(DOMAIN tags \ todo)

(* A tag that is merged.                                                   *)
LEMMA MergesTag ==
  ASSUME MergeInv, NEW k \in todo, MergeTag(k) PROVE MergeInv'
<1>1. /\ pc = "tags" /\ k \in DOMAIN tags /\ todo' = todo \ {k}
      /\ todo \subseteq DOMAIN tags /\ labels = Merged(DOMAIN tags \ todo)
      /\ tags' = tags /\ parsed' = parsed
  BY DEF MergeTag, MergeInv
<1> DEFINE done == DOMAIN tags \ todo
<1>2. DOMAIN tags \ todo' = done \cup {k} /\ k \notin done
  BY <1>1
<1> HIDE DEF done
<1>3. labels = Merged(done) /\ Merged(DOMAIN tags \ todo)' = Merged(done \cup {k})
  BY <1>1, <1>2 DEF done, Merged
<1>4. CASE IsLabelNameReserved(k)
  <2>1. pc' = "tags" /\ labels' = labels
    BY <1>1, <1>4 DEF MergeTag, ValidLabelName
  <2>2. Merged(done \cup {k}) = Merged(done)
    <3>1. {j \in done \cup {k} : ~IsLabelNameReserved(j)} = {j \in done : ~IsLabelNameReserved(j)}
      BY <1>4
    <3> QED BY <3>1 DEF Merged
  <2> QED BY <1>1, <1>3, <2>1, <2>2 DEF MergeInv
<1>5. CASE ValidLabelName(k)
  <2>1. pc' = "tags" /\ labels' = AddLabel(labels, k, tags[k]) /\ ~IsLabelNameReserved(k)
    BY <1>1, <1>5 DEF MergeTag, ValidLabelName
  <2>2. AddLabel(Merged(done), k, tags[k]) = Merged(done \cup {k})
    <3> DEFINE own == {j \in done : ~IsLabelNameReserved(j)}
               more == {j \in done \cup {k} : ~IsLabelNameReserved(j)}
    <3>1. more = own \cup {k} /\ k \notin own
      BY <1>2, <2>1
    <3> HIDE DEF own, more
    <3>2. /\ Merged(done) = [j \in (DOMAIN parsed \ own) \cup {j \in own : tags[j] # <<>>}
                               |-> IF j \in own THEN tags[j] ELSE parsed[j]]
          /\ Merged(done \cup {k}) = [j \in (DOMAIN parsed \ more) \cup {j \in more : tags[j] # <<>>}
                               |-> IF j \in more THEN tags[j] ELSE parsed[j]]
      BY DEF Merged, own, more
    <3>3. CASE tags[k] = <<>>
      <4>1. (DOMAIN parsed \ more) \cup {j \in more : tags[j] # <<>>}
              = ((DOMAIN parsed \ own) \cup {j \in own : tags[j] # <<>>}) \ {k}
        BY <3>1, <3>3
      <4> QED BY <3>1, <3>2, <3>3, <4>1 DEF AddLabel, Without
    <3>4. CASE tags[k] # <<>>
      <4>1. (DOMAIN parsed \ more) \cup {j \in more : tags[j] # <<>>}
              = ((DOMAIN parsed \ own) \cup {j \in own : tags[j] # <<>>}) \cup {k}
        BY <3>1, <3>4
      <4> DEFINE D == (DOMAIN parsed \ own) \cup {j \in own : tags[j] # <<>>}
                 m == [j \in D |-> IF j \in own THEN tags[j] ELSE parsed[j]]
      <4>2. AddLabel(m, k, tags[k]) = [x \in D \cup {k} |-> IF x = k THEN tags[k] ELSE m[x]]
        BY <3>4 DEF AddLabel, With
      <4>3. Merged(done \cup {k})
              = [x \in D \cup {k} |-> IF x \in more THEN tags[x] ELSE parsed[x]]
        BY <3>2, <4>1
      <4>4. \A x \in D \cup {k} : (IF x = k THEN tags[k] ELSE m[x])
                                  = (IF x \in more THEN tags[x] ELSE parsed[x])
        BY <3>1
      <4>5. Merged(done) = m
        BY <3>2
      <4> HIDE DEF D, m
      <4> QED BY <4>2, <4>3, <4>4, <4>5
    <3> QED BY <3>3, <3>4
  <2> QED BY <1>1, <1>3, <2>1, <2>2 DEF MergeInv
<1>6. CASE ~IsLabelNameReserved(k) /\ ~ValidLabelName(k)
  BY <1>6 DEF MergeTag, MergeInv
<1> QED BY <1>4, <1>5, <1>6

(* The labels at hand are a function from names to values.                 *)
LEMMA ParsesLabels ==
  ASSUME labels = [k \in DOMAIN labels |-> labels[k]], NEW r, NEW fail, ParseRune(r, fail)
  PROVE  labels' = [k \in DOMAIN labels' |-> labels'[k]]
<1>1. ASSUME NEW k, NEW v PROVE With(labels, k, v) = [x \in DOMAIN With(labels, k, v) |-> With(labels, k, v)[x]]
  BY DEF With
<1>2. labels' = labels \/ \E k, v : labels' = With(labels, k, v)
  BY DEF ParseRune, nameParserCase, tagLabelSetParserCase, tagValueParserCase, doneParserCase
<1> QED BY <1>1, <1>2

(* The value of a label.                                                   *)
ValueIn(l, k) == IF k \in DOMAIN l THEN l[k] ELSE <<>>

(* The labels that Add and addDefaultLabel make.                           *)
LEMMA AddedLabels ==
  ASSUME NEW l, NEW k, NEW v
  PROVE  /\ \A x : x # k => /\ x \in DOMAIN AddLabel(l, k, v) <=> x \in DOMAIN l
                            /\ x \in DOMAIN addDefaultLabel(l, k, v) <=> x \in DOMAIN l
                            /\ ValueIn(AddLabel(l, k, v), x) = ValueIn(l, x)
                            /\ ValueIn(addDefaultLabel(l, k, v), x) = ValueIn(l, x)
         /\ ValueIn(AddLabel(l, k, v), k) = v
         /\ ValueIn(addDefaultLabel(l, k, v), k) = IF k \in DOMAIN l THEN l[k] ELSE v
<1> DEFINE a == AddLabel(l, k, v)
<1>1. CASE v = <<>>
  <2>1. DOMAIN a = DOMAIN l \ {k} /\ \A x \in DOMAIN a : a[x] = l[x]
    BY <1>1 DEF AddLabel, Without
  <2> HIDE DEF a
  <2> QED BY <1>1, <2>1 DEF a, ValueIn, addDefaultLabel
<1>2. CASE v # <<>>
  <2>1. DOMAIN a = DOMAIN l \cup {k} /\ \A x \in DOMAIN a : a[x] = IF x = k THEN v ELSE l[x]
    BY <1>2 DEF AddLabel, With
  <2> HIDE DEF a
  <2> QED BY <1>2, <2>1 DEF a, ValueIn, addDefaultLabel
<1> QED BY <1>1, <1>2

(* The labels of the two names are the expected ones.                      *)
LEMMA DefaultLabels ==
  ASSUME MergeInv, MergeDefaults PROVE TagsTakePrecedence'
<1> DEFINE S == labelPyroscopeSessionID
           R == labelProcessRuntimeName
           O == labelScopeName
           m == AddLabel(labels, S, Sid)
<1>1. /\ labels = Merged(DOMAIN tags) /\ labels' = addDefaultLabel(m, R, RuntimeName)
      /\ sdk' = buildAppName(labels', Scopes.sdk) /\ tags' = tags /\ parsed' = parsed
      /\ godeltaprof' = buildAppName(labels', Scopes.godeltaprof)
  <2>1. DOMAIN tags \ {} = DOMAIN tags
    OBVIOUS
  <2> QED BY <2>1 DEF MergeDefaults, MergeInv
<1>2. S # R /\ S # O /\ R # O
  BY DEF labelPyroscopeSessionID, labelProcessRuntimeName, labelScopeName
<1> SUFFICES ASSUME NEW k, NEW scope
             PROVE  ValueIn(addDefaultLabel(labels', O, scope), k) = Expected(k, scope)
  <2>1. \A k, scope : Expected(k, scope)' = Expected(k, scope)
    BY <1>1 DEF Expected, Configured
  <2> QED BY <1>1, <2>1, Zenon DEF TagsTakePrecedence, ValueIn, buildAppName
<1>3. /\ k \in DOMAIN labels
           <=> (~Configured(k) /\ k \in DOMAIN parsed) \/ (Configured(k) /\ tags[k] # <<>>)
      /\ k \in DOMAIN labels => labels[k] = IF Configured(k) THEN tags[k] ELSE parsed[k]
  BY <1>1 DEF Merged, Configured
<1> HIDE DEF S, R, O
<1>4. CASE k = S
  <2>1. ValueIn(addDefaultLabel(labels', O, scope), k) = Sid
    BY <1>1, <1>2, <1>4, AddedLabels
  <2> QED BY <1>4, <2>1 DEF Expected, S
<1>5. CASE k # S /\ k # R /\ k # O
  <2>1. ValueIn(addDefaultLabel(labels', O, scope), k) = ValueIn(labels, k)
    BY <1>1, <1>5, AddedLabels
  <2> QED BY <1>3, <1>5, <2>1 DEF Expected, S, R, O, ValueIn
<1>6. CASE k = R
  <2>1. k \in DOMAIN m <=> k \in DOMAIN labels
    BY <1>2, <1>6, AddedLabels
  <2>2. ValueIn(m, k) = ValueIn(labels, k)
    BY <1>2, <1>6, AddedLabels
  <2>3. ValueIn(addDefaultLabel(labels', O, scope), k) = ValueIn(labels', k)
    BY <1>2, <1>6, AddedLabels
  <2>4. ValueIn(labels', k) = IF k \in DOMAIN m THEN m[k] ELSE RuntimeName
    BY <1>1, <1>6, AddedLabels
  <2> HIDE DEF m
  <2>5. ValueIn(addDefaultLabel(labels', O, scope), k)
          = IF k \in DOMAIN labels THEN labels[k] ELSE RuntimeName
    BY <2>1, <2>2, <2>3, <2>4 DEF ValueIn
  <2> QED BY <1>2, <1>3, <1>6, <2>5 DEF Expected, S, R, O
<1>7. CASE k = O
  <2>1. /\ k \in DOMAIN m <=> k \in DOMAIN labels
        /\ ValueIn(m, k) = ValueIn(labels, k)
    BY <1>2, <1>7, AddedLabels
  <2>2. /\ k \in DOMAIN labels' <=> k \in DOMAIN m
        /\ ValueIn(labels', k) = ValueIn(m, k)
    BY <1>1, <1>2, <1>7, AddedLabels
  <2>3. ValueIn(addDefaultLabel(labels', O, scope), k)
          = IF k \in DOMAIN labels' THEN labels'[k] ELSE scope
    BY <1>7, AddedLabels
  <2> HIDE DEF m
  <2>4. ValueIn(addDefaultLabel(labels', O, scope), k)
          = IF k \in DOMAIN labels THEN labels[k] ELSE scope
    BY <2>1, <2>2, <2>3 DEF ValueIn
  <2> QED BY <1>2, <1>3, <1>7, <2>4 DEF Expected, S, R, O
<1> QED BY <1>4, <1>5, <1>6, <1>7

(* What is merged so far is as it should be.                               *)
LEMMA MergeNext == ASSUME MergeInv, [Next]_vars PROVE MergeInv'
<1>1. CASE Parse
  <2>1. <<>> = [k \in DOMAIN <<>> |-> <<>>[k]]
    OBVIOUS
  <2> QED BY <1>1, <2>1 DEF Parse, MergeInv
<1>2. ASSUME NEW r \in Runes, ParseConfigured(r) PROVE MergeInv'
  <2>1. pc = "parse" /\ pc' \in {"idle", "parse"} /\ \E fail : ParseRune(r, fail)
    BY <1>2 DEF ParseConfigured
  <2>2. labels' = [k \in DOMAIN labels' |-> labels'[k]]
    BY <2>1, ParsesLabels DEF MergeInv
  <2> QED BY <2>1, <2>2 DEF MergeInv
<1>3. CASE ParseEnd
  <2>1. /\ pc = "parse" /\ pc' \in {"idle", "tags"} /\ \E fail : ParseRune(OpenBrace, fail)
        /\ todo' = DOMAIN tags /\ parsed' = labels' /\ tags' = tags
    BY <1>3 DEF ParseEnd
  <2>2. labels' = [k \in DOMAIN labels' |-> labels'[k]]
    BY <2>1, ParsesLabels DEF MergeInv
  <2>3. Merged(DOMAIN tags \ todo)' = labels'
    BY <2>1, <2>2 DEF Merged
  <2> QED BY <2>1, <2>3 DEF MergeInv
<1>4. ASSUME NEW k \in todo, MergeTag(k) PROVE MergeInv'
  BY <1>4, MergesTag
<1>5. CASE MergeDefaults \/ Receive \/ ParseReceived
  BY <1>5 DEF MergeDefaults, Receive, ParseReceived, MergeInv
<1>6. CASE UNCHANGED vars
  BY <1>6 DEF vars, MergeInv, Merged
<1> QED BY <1>1, <1>2, <1>3, <1>4, <1>5, <1>6 DEF Next

(* Both names have the labels they should, whatever the order in which the *)
(* tags are merged, and neither has the other's scope.                     *)
THEOREM NamesTagsTakePrecedence == Spec => []TagsTakePrecedence
<1> DEFINE Inv == MergeInv /\ TagsTakePrecedence
<1>1. Init => Inv
  BY DEF Init, MergeInv, TagsTakePrecedence
<1>2. ASSUME Inv, [Next]_vars PROVE Inv'
  <2>1. CASE MergeDefaults
    BY <1>2, <2>1, MergeNext, DefaultLabels
  <2>2. CASE Receive \/ ParseReceived \/ UNCHANGED vars
    <3>1. /\ UNCHANGED <<tags, parsed, sdk, godeltaprof>>
          /\ pc' = pc \/ pc \in {"name", "receive"}
      BY <2>2 DEF Receive, ParseReceived, vars
    <3>2. TagsTakePrecedence'
      BY <1>2, <3>1 DEF TagsTakePrecedence, AllLabels, Expected, Configured
    <3> QED BY <1>2, <3>2, MergeNext
  <2>3. CASE Parse \/ ParseEnd \/ (\E r \in Runes : ParseConfigured(r))
             \/ \E k \in todo : MergeTag(k)
    <3>1. pc' \in {"idle", "parse", "tags"}
      BY <2>3 DEF Parse, ParseEnd, ParseConfigured, MergeTag
    <3> QED BY <1>2, <3>1, MergeNext DEF TagsTakePrecedence
  <2> QED BY <1>2, <2>1, <2>2, <2>3 DEF Next
<1> QED BY <1>1, <1>2, PTL DEF Spec

-----------------------------------------------------------------------------
(* What a receiver reads.                                                  *)

AnyRune ==
  Runes \cup Letters \cup {Space, Comma, "=", OpenBrace, CloseBrace, "/"}
    \cup (UNION {Range(v) : v \in {Sid, RuntimeName, Scopes.sdk, Scopes.godeltaprof}})
    \cup (UNION {UNION {Range(t[k]) : k \in DOMAIN t} : t \in TagSets})
Text == Seq(AnyRune)

PlainValues(t) == Plain(RuntimeName) /\ \A k \in DOMAIN t : Plain(t[k])

(* A label that can be written, and that reads as it is written if the     *)
(* tags t do; and a set of such labels.                                    *)
FitLabel(k, v, t) ==
  /\ v \in Text
  /\ k # NAME => k \in Text /\ ValidLabelName(k) /\ (PlainValues(t) => Plain(v))

Fit(l, t) ==
  /\ l = [k \in DOMAIN l |-> l[k]] /\ IsFiniteSet(DOMAIN l)
  /\ \A k \in DOMAIN l : FitLabel(k, l[k], t)

ParseInv ==
  /\ key \in Text /\ value \in Text
  /\ parserState = "value" => Range(value) \cap {Comma, CloseBrace} = {}
  /\ parserState # "name" => NAME \in DOMAIN labels
  /\ Fit(labels, tags)

(* These labels have the service name of the configured name.              *)
Names(l) == Fit(l, tags) /\ NAME \in DOMAIN l /\ l[NAME] = parsed[NAME]

SentInv ==
  /\ tags \in TagSets
  /\ pc = "parse" => ParseInv
  /\ pc = "tags" => Names(labels) /\ NAME \in DOMAIN parsed
  /\ pc \in {"name", "receive", "received", "rejected"} => Names(sdk) /\ Names(godeltaprof)

(* The names of the labels, what is written for each, and what comes after *)
(* the first i of them.                                                    *)
Order(l) == SetToSeq(DOMAIN l \ {NAME})
Written(l, i) ==
  (IF i = 1 THEN <<>> ELSE <<Comma>>) \o Order(l)[i] \o <<"=">> \o l[Order(l)[i]]
Texts(l, i) == [j \in 1 .. Len(Order(l)) - i |-> Written(l, i + j)]
Left(l, i) == FlattenSeq(Texts(l, i)) \o <<CloseBrace, OpenBrace>>

(* The labels among them.                                                  *)
Part(l, i) == [k \in {NAME} \cup {Order(l)[j] : j \in 1 .. i} |-> l[k]]

ReadsName(l) ==
  /\ parserState = "name" /\ key = <<>> /\ labels = <<>>
  /\ \E rest \in Text : value \o rest = l[NAME] /\ input = rest \o (<<OpenBrace>> \o Left(l, 0))

ReadsLabel(l, i) ==
  /\ parserState = "label" /\ labels = Part(l, i)
  /\ \E rest \in Text : /\ key \o rest = Order(l)[i + 1]
                        /\ input = rest \o (<<"=">> \o (l[Order(l)[i + 1]] \o Left(l, i + 1)))

ReadsValue(l, i) ==
  /\ parserState = "value" /\ labels = Part(l, i) /\ key = Order(l)[i + 1]
  /\ \E rest \in Text : value \o rest = l[key] /\ input = rest \o Left(l, i + 1)

ReadsEnd(l) ==
  /\ labels = l /\ key = <<>>
  /\ \/ parserState = "label" /\ input \in {<<OpenBrace>>, <<CloseBrace, OpenBrace>>}
     \/ parserState = "done" /\ input = <<OpenBrace>>

Reads(l) ==
  /\ key \in Text /\ value \in Text /\ input # <<>>
  /\ \/ ReadsName(l) \/ ReadsEnd(l)
     \/ \E i \in 0 .. Len(Order(l)) - 1 : ReadsLabel(l, i) \/ ReadsValue(l, i)

Readable == PlainValues(tags) /\ ValidServiceName(parsed[NAME])

ReceiveInv ==
  /\ pc = "receive" /\ Readable => \E l \in {sdk, godeltaprof} : Reads(l)
  /\ ReceivedAsSent

(* A text with no space at its ends is not trimmed.                        *)
LEMMA Untrimmed ==
  ASSUME NEW S, NEW s \in Seq(S), s # <<>> => s[1] # Space /\ s[Len(s)] # Space
  PROVE  TrimSpace(s) = s
<1> DEFINE text == {i \in DOMAIN s : s[i] # Space}
           n == Len(s)
<1>1. n \in Nat /\ DOMAIN s = 1 .. n
  OBVIOUS
<1>2. CASE s = <<>>
  <2>1. text = {}
    BY <1>1, <1>2
  <2> QED BY <1>2, <2>1 DEF TrimSpace
<1>3. CASE s # <<>>
  <2>1. n > 0 /\ text \in SUBSET (1 .. n) /\ 1 \in text /\ n \in text
    BY <1>1, <1>3
  <2>2. TrimSpace(s) = SubSeq(s, Min(text), Max(text))
    BY <2>1 DEF TrimSpace
  <2> HIDE DEF text, n
  <2>3. /\ Min(text) \in text /\ \A y \in text : Min(text) <= y
        /\ Max(text) \in text /\ \A y \in text : Max(text) >= y
    BY <1>1, <2>1, Ends
  <2>4. Min(text) = 1 /\ Max(text) = n
    <3>1. Min(text) \in 1 .. n /\ Max(text) \in 1 .. n /\ Min(text) <= 1 /\ Max(text) >= n
      BY <2>1, <2>3
    <3> QED BY <1>1, <3>1
  <2> QED BY <2>2, <2>4 DEF n
<1> QED BY <1>2, <1>3

(* TrimSpace takes runes away, and does nothing a second time.             *)
LEMMA Trimmed ==
  ASSUME NEW S, NEW s \in Seq(S)
  PROVE  /\ TrimSpace(s) \in Seq(S) /\ Range(TrimSpace(s)) \subseteq Range(s)
         /\ TrimSpace(TrimSpace(s)) = TrimSpace(s)
<1> DEFINE text == {i \in DOMAIN s : s[i] # Space}
           n == Len(s)
<1>1. n \in Nat /\ DOMAIN s = 1 .. n
  OBVIOUS
<1>2. CASE text = {}
  <2>1. TrimSpace(s) = <<>> /\ <<>> \in Seq(S) /\ Range(<<>>) = {}
    BY <1>2 DEF TrimSpace, Range
  <2> QED BY <2>1, Untrimmed
<1>3. CASE text # {}
  <2> DEFINE a == Min(text)
             b == Max(text)
             t == SubSeq(s, a, b)
  <2>1. TrimSpace(s) = t
    BY <1>3 DEF TrimSpace
  <2>2. text \in SUBSET (1 .. n) /\ \A i \in text : s[i] # Space
    BY <1>1
  <2> HIDE DEF text, n
  <2>3. a \in text /\ b \in text /\ a <= b
    BY <1>1, <1>3, <2>2, Ends
  <2>4. a \in 1 .. n /\ b \in 1 .. n /\ s[a] # Space /\ s[b] # Space
    BY <2>2, <2>3
  <2> HIDE DEF a, b
  <2>5. t \in Seq(S) /\ Len(t) = b - a + 1 /\ \A i \in 1 .. b - a + 1 : t[i] = s[a + i - 1]
    BY <1>1, <2>3, <2>4 DEF n
  <2> HIDE DEF t
  <2>6. Range(t) \subseteq Range(s)
    <3>1. \A i \in 1 .. b - a + 1 : a + i - 1 \in 1 .. n
      BY <1>1, <2>3, <2>4
    <3> QED BY <1>1, <2>5, <3>1 DEF Range
  <2>7. TrimSpace(t) = t
    <3>1. 1 \in 1 .. b - a + 1 /\ b - a + 1 \in 1 .. b - a + 1 /\ a + 1 - 1 = a
          /\ a + (b - a + 1) - 1 = b
      BY <1>1, <2>3, <2>4
    <3>2. t[1] # Space /\ t[Len(t)] # Space
      BY <2>4, <2>5, <3>1
    <3> QED BY <2>5, <3>2, Untrimmed
  <2> QED BY <2>1, <2>5, <2>6, <2>7
<1> QED BY <1>2, <1>3

(* The letters of label names and service names are no spaces.             *)
LEMMA NoSpaces ==
  ASSUME NEW S, NEW s \in Seq(S), Space \notin Range(s) PROVE TrimSpace(s) = s
<1>1. s # <<>> => 1 \in DOMAIN s /\ Len(s) \in DOMAIN s
  OBVIOUS
<1> QED BY <1>1, Untrimmed DEF Range

(* Sequences of the runes that occur.                                      *)
LEMMA TextIs ==
  ASSUME NEW v, IsText(v), Range(v) \subseteq AnyRune PROVE v \in Text
BY DEF IsText, Text

(* The order has every label but the name, once.                           *)
LEMMA OrderIs ==
  ASSUME NEW l, IsFiniteSet(DOMAIN l)
  PROVE  /\ Order(l) \in Seq(DOMAIN l \ {NAME})
         /\ \A k \in DOMAIN l \ {NAME} : \E i \in 1 .. Len(Order(l)) : Order(l)[i] = k
         /\ \A i, j \in 1 .. Len(Order(l)) : Order(l)[i] = Order(l)[j] => i = j
<1> DEFINE D == DOMAIN l \ {NAME}
           n == Cardinality(D)
           f == Order(l)
<1>1. IsFiniteSet(D)
  BY FS_RemoveElement
<1> HIDE DEF D
<1>2. n \in Nat /\ ExistsBijection(1 .. n, D)
  BY <1>1, FS_CardinalityType
<1>3. f = CHOOSE g \in [1 .. n -> D] : IsInjective(g)
  BY DEF Order, SetToSeq, D
<1> HIDE DEF n, f
<1>4. f \in [1 .. n -> D] /\ IsInjective(f)
  <2>1. \E g \in [1 .. n -> D] : IsInjective(g)
    BY <1>2 DEF ExistsBijection, Bijection, Injection
  <2> QED BY <1>3, <2>1
<1>5. IsFiniteSet(1 .. n) /\ Cardinality(1 .. n) = n
  BY <1>2, FS_Interval
<1>6. f \in Surjection(1 .. n, D)
  <2>1. f \in Injection(1 .. n, D)
    BY <1>4 DEF Injection
  <2> QED BY <1>1, <1>5, <2>1, FS_Injection DEF n
<1>7. f \in Seq(D) /\ Len(f) = n
  BY <1>2, <1>4
<1>8. /\ \A k \in D : \E i \in 1 .. n : f[i] = k
      /\ \A i, j \in 1 .. n : f[i] = f[j] => i = j
  BY <1>4, <1>6 DEF Surjection, IsInjective
<1> QED BY <1>7, <1>8 DEF f, D

(* The runes that separate are different ones.                             *)
LEMMA Separators ==
  /\ Space # Comma /\ Space # CloseBrace /\ Space # OpenBrace /\ Comma # CloseBrace
  /\ Comma # OpenBrace /\ OpenBrace # CloseBrace
  /\ "=" # Comma /\ "=" # OpenBrace /\ "=" # CloseBrace /\ "=" # Space
  /\ "/" # Comma /\ "/" # OpenBrace /\ "/" # CloseBrace /\ "/" # Space
BY Zenon DEF Space, Comma, OpenBrace, CloseBrace

(* No name has one of them.                                                *)
LEMMA LettersAre ==
  /\ Space \notin Letters /\ Comma \notin Letters /\ "=" \notin Letters
  /\ OpenBrace \notin Letters /\ CloseBrace \notin Letters
  /\ {Space, Comma, OpenBrace, CloseBrace, "=", "/"} \subseteq AnyRune
  /\ Letters \subseteq AnyRune /\ Runes \subseteq AnyRune
<1>1. Letters \cap {Space, Comma, "=", OpenBrace, CloseBrace} = {}
  BY LettersAssumption
<1> QED BY <1>1 DEF AnyRune

(* One more label, or one less.                                            *)
LEMMA FitAdds ==
  ASSUME NEW l, NEW t, Fit(l, t), NEW k, NEW v, FitLabel(k, v, t)
  PROVE  /\ Fit(With(l, k, v), t) /\ Fit(Without(l, k), t)
         /\ Fit(AddLabel(l, k, v), t) /\ Fit(addDefaultLabel(l, k, v), t)
         /\ DOMAIN With(l, k, v) = DOMAIN l \cup {k}
         /\ \A x \in DOMAIN With(l, k, v) : With(l, k, v)[x] = IF x = k THEN v ELSE l[x]
<1> DEFINE a == With(l, k, v)
           b == Without(l, k)
<1>1. /\ DOMAIN a = DOMAIN l \cup {k} /\ a = [x \in DOMAIN a |-> a[x]]
      /\ \A x \in DOMAIN a : a[x] = IF x = k THEN v ELSE l[x]
  BY DEF With
<1>2. /\ DOMAIN b = DOMAIN l \ {k} /\ b = [x \in DOMAIN b |-> b[x]]
      /\ \A x \in DOMAIN b : b[x] = l[x]
  BY DEF Without
<1>3. IsFiniteSet(DOMAIN l \cup {k}) /\ IsFiniteSet(DOMAIN l \ {k})
  BY FS_AddElement, FS_RemoveElement DEF Fit
<1> HIDE DEF a, b
<1>4. \A x \in DOMAIN a : FitLabel(x, a[x], t)
  BY <1>1 DEF Fit
<1>5. \A x \in DOMAIN b : FitLabel(x, b[x], t)
  BY <1>2 DEF Fit
<1>6. Fit(a, t)
  BY <1>1, <1>3, <1>4 DEF Fit
<1>7. Fit(b, t)
  BY <1>2, <1>3, <1>5 DEF Fit
<1> QED BY <1>1, <1>6, <1>7 DEF a, b, AddLabel, addDefaultLabel

(* No label.                                                               *)
LEMMA FitNone == \A t : Fit(<<>>, t)
<1>1. DOMAIN <<>> = {} /\ <<>> = [k \in DOMAIN <<>> |-> <<>>[k]]
  OBVIOUS
<1> QED BY <1>1, FS_EmptySet DEF Fit

(* A rune that is written to a buffer.                                     *)
LEMMA WritesRune ==
  ASSUME NEW s \in Text, NEW r \in AnyRune
  PROVE  Append(s, r) \in Text /\ Range(Append(s, r)) = Range(s) \cup {r}
<1>1. /\ Append(s, r) \in Text /\ Len(Append(s, r)) = Len(s) + 1 /\ Append(s, r)[Len(s) + 1] = r
      /\ \A i \in 1 .. Len(s) : Append(s, r)[i] = s[i]
  BY DEF Text
<1>2. DOMAIN s = 1 .. Len(s) /\ DOMAIN Append(s, r) = 1 .. Len(s) + 1 /\ Len(s) \in Nat
  BY DEF Text
<1>3. \A i \in 1 .. Len(s) + 1 : i \in 1 .. Len(s) \/ i = Len(s) + 1
  BY <1>2
<1>4. Len(s) + 1 \in 1 .. Len(s) + 1 /\ \A i \in 1 .. Len(s) : i \in 1 .. Len(s) + 1
  BY <1>2
<1> DEFINE t == Append(s, r)
           n == Len(s)
<1> HIDE DEF t, n
<1>5. \A x : x \in Range(t) <=> x \in Range(s) \cup {r}
  BY <1>1, <1>2, <1>3, <1>4 DEF Range, t, n
<1> QED BY <1>1, <1>5 DEF t

(* NAME is a text.                                                         *)
LEMMA NameIs == NAME = ReservedLabelNameName /\ \A k : IsLabelNameReserved(k) <=> k = NAME
BY DEF NAME, IsLabelNameReserved

(* A turn of the loop leaves texts and labels that can be written.         *)
LEMMA ParsesFit ==
  ASSUME ParseInv, NEW r \in AnyRune, ParseRune(r, FALSE), UNCHANGED tags
  PROVE  ParseInv' /\ (r = OpenBrace => NAME \in DOMAIN labels')
<1>1. /\ key \in Text /\ value \in Text /\ Fit(labels, tags)
      /\ <<>> \in Text /\ Range(<<>>) = {}
      /\ parserState # "name" => NAME \in DOMAIN labels
  <2>1. <<>> \in Text /\ Range(<<>>) = {}
    BY DEF Text, Range
  <2> QED BY <2>1 DEF ParseInv
<1>2. CASE nameParserCase(r, FALSE)
  <2>1. CASE r = OpenBrace
    <3> DEFINE v == TrimSpace(value)
    <3>1. parserState' = "label" /\ UNCHANGED <<key, value>> /\ labels' = With(labels, NAME, v)
      BY <1>2, <2>1, NameIs DEF nameParserCase
    <3>2. v \in Text
      BY <1>1, Trimmed DEF Text
    <3>3. FitLabel(NAME, v, tags)
      BY <3>2 DEF FitLabel
    <3> HIDE DEF v
    <3>4. Fit(With(labels, NAME, v), tags) /\ NAME \in DOMAIN With(labels, NAME, v)
      <4>1. /\ Fit(With(labels, NAME, v), tags)
            /\ DOMAIN With(labels, NAME, v) = DOMAIN labels \cup {NAME}
        BY <1>1, <3>3, FitAdds, Zenon
      <4> QED BY <4>1
    <3> QED BY <1>1, <3>1, <3>4 DEF ParseInv
  <2>2. CASE r # OpenBrace
    <3>1. parserState = "name" /\ value' = Append(value, r) /\ UNCHANGED <<parserState, key, labels>>
      BY <1>2, <2>2 DEF nameParserCase
    <3>2. value' \in Text
      BY <1>1, <3>1, WritesRune
    <3> QED BY <1>1, <2>2, <3>1, <3>2 DEF ParseInv
  <2> QED BY <2>1, <2>2
<1>3. CASE tagLabelSetParserCase(r, FALSE)
  <2>1. parserState = "label" /\ labels' = labels
    BY <1>3 DEF tagLabelSetParserCase
  <2>2. CASE r = CloseBrace
    <3>1. parserState' = "done" /\ UNCHANGED <<key, value>>
      BY <1>3, <2>2, Separators DEF tagLabelSetParserCase
    <3> QED BY <1>1, <2>1, <3>1 DEF ParseInv
  <2>3. CASE r = "="
    <3>1. parserState' = "value" /\ value' = <<>> /\ key' = key
      BY <1>3, <2>3, Separators DEF tagLabelSetParserCase
    <3> QED BY <1>1, <2>1, <3>1 DEF ParseInv
  <2>4. CASE r # CloseBrace /\ r # "="
    <3>1. key' = Append(key, r) /\ UNCHANGED <<parserState, value>>
      BY <1>3, <2>4 DEF tagLabelSetParserCase
    <3> QED BY <1>1, <2>1, <3>1, WritesRune DEF ParseInv
  <2> QED BY <2>2, <2>3, <2>4
<1>4. CASE tagValueParserCase(r, FALSE)
  <2>1. parserState = "value" /\ Range(value) \cap {Comma, CloseBrace} = {}
    BY <1>4 DEF tagValueParserCase, ParseInv
  <2>2. CASE r \in {Comma, CloseBrace}
    <3> DEFINE k == TrimSpace(key)
               v == TrimSpace(value)
    <3>1. /\ parserState' = "label" /\ labels' = With(labels, k, v)
          /\ key' = <<>> /\ value' = value
          /\ k # NAME => ValidLabelName(k)
      BY <1>4, <2>2, NameIs DEF tagValueParserCase
    <3>2. k \in Text /\ v \in Text /\ Range(v) \subseteq Range(value) /\ TrimSpace(v) = v
      BY <1>1, Trimmed DEF Text
    <3> HIDE DEF k, v
    <3>3. Plain(v)
      BY <2>1, <3>2 DEF Plain
    <3>4. FitLabel(k, v, tags)
      BY <3>1, <3>2, <3>3 DEF FitLabel
    <3>5. r # OpenBrace
      BY <2>2, Separators
    <3>6. Fit(With(labels, k, v), tags) /\ NAME \in DOMAIN With(labels, k, v)
      <4>1. /\ Fit(With(labels, k, v), tags)
            /\ DOMAIN With(labels, k, v) = DOMAIN labels \cup {k}
        BY <1>1, <3>4, FitAdds, Zenon
      <4> QED BY <1>1, <2>1, <4>1
    <3> QED BY <1>1, <3>1, <3>5, <3>6 DEF ParseInv
  <2>3. CASE r \notin {Comma, CloseBrace}
    <3>1. value' = Append(value, r) /\ UNCHANGED <<parserState, key, labels>>
      BY <1>4, <2>3 DEF tagValueParserCase
    <3>2. value' \in Text /\ Range(value') = Range(value) \cup {r}
      BY <1>1, <3>1, WritesRune
    <3> QED BY <1>1, <2>1, <2>3, <3>1, <3>2 DEF ParseInv
  <2> QED BY <2>2, <2>3
<1>5. CASE doneParserCase(FALSE)
  BY <1>1, <1>5 DEF doneParserCase, parser, ParseInv
<1> QED BY <1>2, <1>3, <1>4, <1>5 DEF ParseRune

(* The labels with the values that are constants of the code or come from  *)
(* the runtime.                                                            *)
LEMMA FitDefaults ==
  ASSUME NEW t
  PROVE  /\ FitLabel(labelPyroscopeSessionID, Sid, t)
         /\ FitLabel(labelProcessRuntimeName, RuntimeName, t)
         /\ FitLabel(labelScopeName, Scopes.sdk, t)
         /\ FitLabel(labelScopeName, Scopes.godeltaprof, t)
<1>1. ASSUME NEW v \in {Sid, RuntimeName, Scopes.sdk, Scopes.godeltaprof}
      PROVE  v \in Text /\ (v # RuntimeName => Plain(v))
  <2>1. IsText(v) /\ (v # RuntimeName => Plain(v))
    BY DefaultsAssumption
  <2>2. Range(v) \subseteq AnyRune
    BY DEF AnyRune
  <2> QED BY <2>1, <2>2, TextIs
<1>2. ASSUME NEW r \in {"sid", "runtime", "scope"} PROVE <<r>> \in Text /\ ValidLabelName(<<r>>)
  <2>1. r \in Letters /\ r # "__name__"
    BY LettersAssumption
  <2>2. <<r>> \in Text /\ <<r>> # <<>> /\ <<r>> # <<"__name__">>
    BY <2>1, LettersAre DEF Text
  <2>3. Range(<<r>>) \subseteq Letters
    BY <2>1 DEF Range
  <2> QED BY <2>2, <2>3 DEF ValidLabelName, IsLabelNameReserved, ReservedLabelNameName
<1>3. ASSUME NEW v \in {Sid, RuntimeName, Scopes.sdk, Scopes.godeltaprof}
      PROVE  v \in Text /\ (PlainValues(t) => Plain(v))
  BY <1>1 DEF PlainValues
<1> QED BY <1>2, <1>3 DEF FitLabel, labelPyroscopeSessionID, labelProcessRuntimeName, labelScopeName

(* A configured tag with a valid name.                                     *)
LEMMA FitTag ==
  ASSUME tags \in TagSets, NEW k \in DOMAIN tags, ValidLabelName(k)
  PROVE  FitLabel(k, tags[k], tags)
<1>1. IsText(k) /\ IsText(tags[k])
  BY TagsAssumption
<1>2. tags[k] \in Text
  <2>1. Range(tags[k]) \subseteq AnyRune
    BY DEF AnyRune
  <2> QED BY <1>1, <2>1, TextIs
<1>3. k \in Text
  BY <1>1, LettersAre, TextIs DEF ValidLabelName
<1> QED BY <1>2, <1>3 DEF FitLabel, PlainValues

(* A label that is not the name, with the name kept.                       *)
LEMMA NamesKept ==
  ASSUME NEW l, Names(l), NEW k, NEW v, k # NAME, FitLabel(k, v, tags)
  PROVE  Names(AddLabel(l, k, v)) /\ Names(addDefaultLabel(l, k, v))
<1>1. Fit(l, tags) /\ NAME \in DOMAIN l /\ l[NAME] = parsed[NAME]
  BY DEF Names
<1>2. Fit(AddLabel(l, k, v), tags) /\ Fit(addDefaultLabel(l, k, v), tags)
  BY <1>1, FitAdds, Zenon
<1>3. AddLabel(l, k, v) = Without(l, k) \/ AddLabel(l, k, v) = With(l, k, v)
  BY DEF AddLabel
<1>4. NAME \in DOMAIN AddLabel(l, k, v) /\ AddLabel(l, k, v)[NAME] = l[NAME]
  BY <1>1, <1>3 DEF With, Without
<1>5. addDefaultLabel(l, k, v) = l \/ addDefaultLabel(l, k, v) = AddLabel(l, k, v)
  BY DEF addDefaultLabel
<1> QED BY <1>1, <1>2, <1>4, <1>5 DEF Names

(* Both names are made of labels that can be written.                      *)
LEMMA DefaultsSent ==
  ASSUME Names(labels), MergeDefaults PROVE Names(sdk)' /\ Names(godeltaprof)'
<1> DEFINE m == AddLabel(labels, labelPyroscopeSessionID, Sid)
           d == addDefaultLabel(m, labelProcessRuntimeName, RuntimeName)
           a == addDefaultLabel(d, labelScopeName, Scopes.sdk)
           b == addDefaultLabel(d, labelScopeName, Scopes.godeltaprof)
<1>1. sdk' = a /\ godeltaprof' = b /\ tags' = tags /\ parsed' = parsed
  BY DEF MergeDefaults, buildAppName
<1>2. labelPyroscopeSessionID # NAME /\ labelProcessRuntimeName # NAME /\ labelScopeName # NAME
  BY DEF labelPyroscopeSessionID, labelProcessRuntimeName, labelScopeName, NAME,
         ReservedLabelNameName
<1>3. Names(m)
  BY <1>2, FitDefaults, NamesKept, Zenon
<1> HIDE DEF m
<1>4. Names(d)
  BY <1>2, <1>3, FitDefaults, NamesKept, Zenon
<1> HIDE DEF d
<1>5. Names(a) /\ Names(b)
  BY <1>2, <1>4, FitDefaults, NamesKept, Zenon
<1> HIDE DEF a, b
<1> QED BY <1>1, <1>5 DEF Names

(* What is sent can be written, whatever was configured.                   *)
LEMMA SentNext == ASSUME MergeInv, SentInv, [Next]_vars PROVE SentInv'
<1>1. CASE Parse
  <2>1. /\ tags' = tags /\ pc' = "parse" /\ labels' = <<>> /\ parserState' = "name"
        /\ key' = <<>> /\ value' = <<>>
    BY <1>1 DEF Parse, reset
  <2>2. <<>> \in Text
    BY DEF Text
  <2> QED BY <2>1, <2>2, FitNone DEF SentInv, ParseInv
<1>2. ASSUME NEW r \in Runes, ParseConfigured(r) PROVE SentInv'
  <2>1. /\ pc = "parse" /\ pc' \in {"idle", "parse"} /\ UNCHANGED tags
        /\ pc' = "parse" => ParseRune(r, FALSE)
    BY <1>2 DEF ParseConfigured
  <2>2. r \in AnyRune
    BY LettersAre
  <2>3. CASE pc' = "idle"
    BY <2>1, <2>3 DEF SentInv
  <2>4. CASE pc' = "parse"
    BY <2>1, <2>2, <2>4, ParsesFit DEF SentInv
  <2> QED BY <2>1, <2>3, <2>4
<1>3. CASE ParseEnd
  <2>1. /\ pc = "parse" /\ pc' \in {"idle", "tags"} /\ UNCHANGED tags /\ parsed' = labels'
        /\ pc' = "tags" => ParseRune(OpenBrace, FALSE)
    BY <1>3 DEF ParseEnd
  <2>2. OpenBrace \in AnyRune
    BY LettersAre
  <2>3. CASE pc' = "idle"
    BY <2>1, <2>3 DEF SentInv
  <2>4. CASE pc' = "tags"
    <3>1. ParseInv' /\ NAME \in DOMAIN labels'
      BY <2>1, <2>2, <2>4, ParsesFit DEF SentInv
    <3> QED BY <2>1, <2>4, <3>1 DEF SentInv, ParseInv, Names
  <2> QED BY <2>1, <2>3, <2>4
<1>4. ASSUME NEW k \in todo, MergeTag(k) PROVE SentInv'
  <2>1. /\ pc = "tags" /\ k \in DOMAIN tags /\ UNCHANGED <<tags, parsed>>
        /\ Names(labels) /\ NAME \in DOMAIN parsed
    BY <1>4 DEF MergeTag, MergeInv, SentInv
  <2>2. CASE pc' = "idle"
    BY <2>1, <2>2 DEF SentInv
  <2>3. CASE pc' = "tags" /\ labels' = labels
    BY <2>1, <2>3 DEF SentInv, Names
  <2>4. CASE pc' = "tags" /\ ValidLabelName(k) /\ labels' = AddLabel(labels, k, tags[k])
    <3>1. k # NAME
      BY <2>4, NameIs DEF ValidLabelName
    <3>2. FitLabel(k, tags[k], tags)
      BY <2>1, <2>4, FitTag DEF SentInv
    <3>3. Names(AddLabel(labels, k, tags[k]))
      BY <2>1, <3>1, <3>2, NamesKept, Zenon
    <3> QED BY <2>1, <2>4, <3>3 DEF SentInv, Names
  <2> QED BY <1>4, <2>1, <2>2, <2>3, <2>4 DEF MergeTag
<1>5. CASE MergeDefaults
  BY <1>5, DefaultsSent DEF SentInv, MergeDefaults
<1>6. CASE Receive \/ ParseReceived
  <2>1. /\ pc \in {"name", "receive"} /\ pc' \in {"receive", "received", "rejected"}
        /\ UNCHANGED <<tags, parsed, sdk, godeltaprof>>
    BY <1>6 DEF Receive, ParseReceived
  <2> QED BY <2>1 DEF SentInv, Names
<1>7. CASE UNCHANGED vars
  BY <1>7 DEF vars, parser, SentInv, ParseInv, Names
<1> QED BY <1>1, <1>2, <1>3, <1>4, <1>5, <1>6, <1>7 DEF Next

(* The labels that are written for l.                                      *)
LEMMA Ordered ==
  ASSUME NEW l, NEW t, Fit(l, t), PlainValues(t), NAME \in DOMAIN l
  PROVE  /\ Len(Order(l)) \in Nat /\ DOMAIN Order(l) = 1 .. Len(Order(l)) /\ l[NAME] \in Text
         /\ \A i \in 1 .. Len(Order(l)) :
              /\ Order(l)[i] \in DOMAIN l /\ Order(l)[i] # NAME
              /\ Order(l)[i] \in Text /\ ValidLabelName(Order(l)[i])
              /\ l[Order(l)[i]] \in Text /\ Plain(l[Order(l)[i]])
<1>1. Order(l) \in Seq(DOMAIN l \ {NAME})
  BY OrderIs DEF Fit
<1> DEFINE f == Order(l)
<1> HIDE DEF f
<1>2. /\ Len(f) \in Nat /\ DOMAIN f = 1 .. Len(f)
      /\ \A i \in 1 .. Len(f) : f[i] \in DOMAIN l /\ f[i] # NAME
  BY <1>1 DEF f
<1>3. \A k \in DOMAIN l : FitLabel(k, l[k], t)
  BY DEF Fit
<1>4. \A i \in 1 .. Len(f) : /\ f[i] \in Text /\ ValidLabelName(f[i])
                             /\ l[f[i]] \in Text /\ Plain(l[f[i]])
  BY <1>2, <1>3 DEF FitLabel
<1>5. l[NAME] \in Text
  BY <1>3 DEF FitLabel
<1> QED BY <1>2, <1>4, <1>5 DEF f

(* Texts are joined.                                                       *)
LEMMA TextCat ==
  /\ \A a, b \in Seq(AnyRune) : Cat(a, b) \in Seq(AnyRune)
  /\ \A a, b, c \in Seq(AnyRune) : Cat(Cat(a, b), c) = Cat(a, Cat(b, c))
BY CatFacts

(* The text of label i, with any text after it.                            *)
Unfolds(l, i) ==
  \A s \in Text :
    Written(l, i) \o s = (IF i = 1 THEN <<>> ELSE <<Comma>>)
                          \o (Order(l)[i] \o (<<"=">> \o (l[Order(l)[i]] \o s)))

(* What is written is a text, and reads as its parts do.                   *)
LEMMA WrittenIs ==
  ASSUME NEW l, NEW t, Fit(l, t), PlainValues(t), NAME \in DOMAIN l,
         NEW i \in 1 .. Len(Order(l))
  PROVE  Written(l, i) \in Text /\ Unfolds(l, i)
<1> DEFINE c == IF i = 1 THEN <<>> ELSE <<Comma>>
           k == Order(l)[i]
           v == l[k]
           e == <<"=">>
<1>1. c \in Seq(AnyRune) /\ k \in Seq(AnyRune) /\ v \in Seq(AnyRune) /\ e \in Seq(AnyRune)
  <2>1. k \in Text /\ v \in Text
    BY Ordered
  <2>2. <<Comma>> \in Seq(AnyRune) /\ e \in Seq(AnyRune) /\ <<>> \in Seq(AnyRune)
    BY LettersAre
  <2> QED BY <2>1, <2>2 DEF Text
<1>2. Written(l, i) = Cat(Cat(Cat(c, k), e), v)
  BY DEF Written, Cat
<1> HIDE DEF c, k, v, e
<1>3. Written(l, i) \in Seq(AnyRune)
  BY <1>1, <1>2, TextCat
<1>4. ASSUME NEW s \in Seq(AnyRune)
      PROVE  Cat(Written(l, i), s) = Cat(c, Cat(k, Cat(e, Cat(v, s))))
  <2> DEFINE ck == Cat(c, k)
  <2>1. ck \in Seq(AnyRune) /\ Cat(ck, e) \in Seq(AnyRune) /\ Cat(v, s) \in Seq(AnyRune)
        /\ Cat(e, Cat(v, s)) \in Seq(AnyRune)
    BY <1>1, TextCat
  <2>2. Cat(Cat(Cat(ck, e), v), s) = Cat(Cat(ck, e), Cat(v, s))
    BY <1>1, <2>1, TextCat
  <2>3. Cat(Cat(ck, e), Cat(v, s)) = Cat(ck, Cat(e, Cat(v, s)))
    BY <1>1, <2>1, TextCat
  <2>4. Cat(ck, Cat(e, Cat(v, s))) = Cat(c, Cat(k, Cat(e, Cat(v, s))))
    BY <1>1, <2>1, TextCat
  <2> QED BY <1>2, <2>2, <2>3, <2>4
<1> QED BY <1>3, <1>4, Zenon DEF Cat, c, k, v, e, Text, Unfolds

(* What is left after a label.                                             *)
LEMMA LeftIs ==
  ASSUME NEW l, NEW t, Fit(l, t), PlainValues(t), NAME \in DOMAIN l
  PROVE  /\ \A i \in 0 .. Len(Order(l)) : Left(l, i) \in Text /\ Left(l, i) # <<>>
         /\ Left(l, Len(Order(l))) = <<CloseBrace, OpenBrace>>
         /\ \A i \in 0 .. Len(Order(l)) - 1 : Left(l, i) = Written(l, i + 1) \o Left(l, i + 1)
         /\ Append(Normalized(l), OpenBrace) = l[NAME] \o (<<OpenBrace>> \o Left(l, 0))
<1> DEFINE n == Len(Order(l))
           q == <<CloseBrace, OpenBrace>>
<1>1. n \in Nat /\ DOMAIN Order(l) = 1 .. n /\ l[NAME] \in Seq(AnyRune)
  BY Ordered DEF Text
<1>2. q \in Seq(AnyRune) /\ <<OpenBrace>> \in Seq(AnyRune) /\ <<CloseBrace>> \in Seq(AnyRune)
  BY LettersAre
<1>3. \A i \in 1 .. n : Written(l, i) \in Seq(AnyRune)
  BY WrittenIs DEF Text
<1> HIDE DEF n
<1>4. ASSUME NEW i \in 0 .. n
      PROVE  /\ Texts(l, i) \in Seq(Seq(AnyRune)) /\ Len(Texts(l, i)) = n - i
             /\ \A j \in 1 .. n - i : Texts(l, i)[j] = Written(l, i + j)
  <2>1. Texts(l, i) = [j \in 1 .. n - i |-> Written(l, i + j)]
    BY DEF Texts, n
  <2>2. \A j \in 1 .. n - i : i + j \in 1 .. n
    BY <1>1
  <2>3. n - i \in Nat /\ \A j \in 1 .. n - i : Written(l, i + j) \in Seq(AnyRune)
    BY <1>1, <1>3, <2>2
  <2> QED BY <2>1, <2>3
<1>5. \A i \in 0 .. n : FlattenSeq(Texts(l, i)) \in Seq(AnyRune)
  BY <1>4, FlatType
<1>6. \A i \in 0 .. n : Left(l, i) \in Seq(AnyRune) /\ Left(l, i) # <<>>
  <2>1. \A s \in Seq(AnyRune) : s \o q \in Seq(AnyRune) /\ s \o q # <<>>
    BY <1>2
  <2> QED BY <1>5, <2>1, Zenon DEF Left
<1>7. Left(l, n) = q
  <2>1. n \in 0 .. n /\ n - n = 0
    BY <1>1
  <2>2. Texts(l, n) = <<>>
    BY <1>4, <2>1
  <2>3. <<>> \o q = q
    OBVIOUS
  <2> QED BY <2>2, <2>3, FlatFew DEF Left
<1>8. ASSUME NEW i \in 0 .. n - 1 PROVE Left(l, i) = Written(l, i + 1) \o Left(l, i + 1)
  <2> DEFINE w == Written(l, i + 1)
             u == Texts(l, i + 1)
             s == Texts(l, i)
  <2>1. i \in 0 .. n /\ i + 1 \in 0 .. n /\ i + 1 \in 1 .. n
    BY <1>1
  <2>2. w \in Seq(AnyRune)
    BY <1>3, <2>1
  <2>3. u \in Seq(Seq(AnyRune)) /\ Len(u) = n - (i + 1)
        /\ \A j \in 1 .. n - (i + 1) : u[j] = Written(l, (i + 1) + j)
    BY <1>4, <2>1
  <2>4. s \in Seq(Seq(AnyRune)) /\ Len(s) = n - i
        /\ \A j \in 1 .. n - i : s[j] = Written(l, i + j)
    BY <1>4, <2>1
  <2> HIDE DEF u, s
  <2>5. s[1] = w
    <3>1. 1 \in 1 .. n - i
      BY <1>1
    <3> QED BY <2>4, <3>1
  <2> HIDE DEF w
  <2>6. Tail(s) = u
    <3>1. s # <<>> /\ n - i > 0
      BY <1>1, <2>4
    <3>2. Tail(s) \in Seq(Seq(AnyRune)) /\ Len(Tail(s)) = n - (i + 1)
          /\ \A j \in 1 .. n - (i + 1) : Tail(s)[j] = s[j + 1]
      BY <1>1, <2>4, <3>1
    <3>3. \A j \in 1 .. n - (i + 1) : j + 1 \in 1 .. n - i /\ i + (j + 1) = (i + 1) + j
      BY <1>1
    <3>4. \A j \in 1 .. n - (i + 1) : Tail(s)[j] = u[j]
      BY <2>3, <2>4, <3>2, <3>3
    <3> DEFINE d == Tail(s)
    <3>5. d \in Seq(Seq(AnyRune)) /\ Len(d) = Len(u) /\ \A j \in 1 .. Len(u) : d[j] = u[j]
      BY <2>3, <3>2, <3>4
    <3> HIDE DEF d
    <3>6. d = u
      BY <2>3, <3>5
    <3> QED BY <3>6 DEF d
  <2>7. s = <<w>> \o u
    <3>1. s # <<>>
      BY <1>1, <2>4
    <3>2. s = <<Head(s)>> \o Tail(s) /\ Head(s) = s[1]
      BY <2>4, <3>1
    <3> QED BY <2>5, <2>6, <3>2
  <2>8. FlattenSeq(s) = w \o FlattenSeq(u)
    <3>1. <<w>> \in Seq(Seq(AnyRune))
      BY <2>2
    <3>2. FlattenSeq(<<w>> \o u) = FlattenSeq(<<w>>) \o FlattenSeq(u)
      BY <2>3, <3>1, FlatConcat
    <3> QED BY <2>7, <3>2, FlatFew
  <2>9. FlattenSeq(u) \in Seq(AnyRune)
    BY <2>3, FlatType
  <2>10. Cat(Cat(w, FlattenSeq(u)), q) = Cat(w, Cat(FlattenSeq(u), q))
    BY <1>2, <2>2, <2>9, TextCat
  <2> QED BY <2>8, <2>10, Zenon DEF Cat, Left, s, u, w
<1>9. Append(Normalized(l), OpenBrace) = l[NAME] \o (<<OpenBrace>> \o Left(l, 0))
  <2> DEFINE f == FlattenSeq(Texts(l, 0))
             o == <<OpenBrace>>
             c == <<CloseBrace>>
             a == l[NAME]
  <2>1. Texts(l, 0) = [i \in DOMAIN Order(l) |-> Written(l, i)]
    <3>1. n - 0 = n /\ \A i \in 1 .. n : 0 + i = i
      BY <1>1
    <3> QED BY <1>1, <3>1 DEF Texts, n
  <2>2. Normalized(l) = Cat(Cat(Cat(a, o), f), c)
    BY <2>1, Zenon DEF Normalized, Written, Order, NAME, Cat
  <2>3. /\ f \in Seq(AnyRune) /\ o \in Seq(AnyRune) /\ c \in Seq(AnyRune) /\ a \in Seq(AnyRune)
        /\ q = Cat(c, o)
    <3>1. 0 \in 0 .. n
      BY <1>1
    <3>2. q = Cat(c, o)
      BY DEF Cat
    <3> QED BY <1>1, <1>2, <1>5, <3>1, <3>2
  <2> HIDE DEF f, o, c, a, q
  <2>4. Cat(Cat(Cat(Cat(a, o), f), c), o) = Cat(a, Cat(o, Cat(f, q)))
    <3>1. /\ Cat(a, o) \in Seq(AnyRune) /\ Cat(Cat(a, o), f) \in Seq(AnyRune)
          /\ Cat(c, o) \in Seq(AnyRune) /\ Cat(f, Cat(c, o)) \in Seq(AnyRune)
      BY <2>3, TextCat
    <3>2. Cat(Cat(Cat(Cat(a, o), f), c), o) = Cat(Cat(Cat(a, o), f), Cat(c, o))
      BY <2>3, <3>1, TextCat
    <3>3. Cat(Cat(Cat(a, o), f), Cat(c, o)) = Cat(Cat(a, o), Cat(f, Cat(c, o)))
      BY <2>3, <3>1, TextCat
    <3>4. Cat(Cat(a, o), Cat(f, Cat(c, o))) = Cat(a, Cat(o, Cat(f, Cat(c, o))))
      BY <2>3, <3>1, TextCat
    <3> QED BY <2>3, <3>2, <3>3, <3>4
  <2>5. Append(Normalized(l), OpenBrace) = Cat(Normalized(l), o)
    <3>1. Normalized(l) \in Seq(AnyRune)
      BY <2>2, <2>3, TextCat
    <3>2. \A s \in Seq(AnyRune) : Append(s, OpenBrace) = s \o <<OpenBrace>>
      BY LettersAre
    <3> QED BY <3>1, <3>2, Zenon DEF Cat, o
  <2>6. Left(l, 0) = Cat(f, q)
    BY Zenon DEF Left, Cat, f, q
  <2> QED BY <2>2, <2>4, <2>5, <2>6, Zenon DEF Cat, a, o
<1> QED BY <1>6, <1>7, <1>8, <1>9 DEF n, Text

(* The labels are read one by one.                                         *)
LEMMA PartIs ==
  ASSUME NEW l, NEW t, Fit(l, t), NAME \in DOMAIN l
  PROVE  /\ With(<<>>, NAME, l[NAME]) = Part(l, 0) /\ Part(l, Len(Order(l))) = l
         /\ \A i \in 0 .. Len(Order(l)) - 1 :
              With(Part(l, i), Order(l)[i + 1], l[Order(l)[i + 1]]) = Part(l, i + 1)
<1> DEFINE f == Order(l)
           n == Len(f)
           Some(i) == {NAME} \cup {f[j] : j \in 1 .. i}
<1>1. f \in Seq(DOMAIN l \ {NAME}) /\ \A k \in DOMAIN l \ {NAME} : \E i \in 1 .. n : f[i] = k
  BY OrderIs DEF Fit
<1>2. n \in Nat /\ \A i \in 1 .. n : f[i] \in DOMAIN l
  BY <1>1
<1>3. \A i : Part(l, i) = [k \in Some(i) |-> l[k]]
  BY DEF Part
<1> HIDE DEF f, n
<1>4. Some(0) = {NAME} /\ DOMAIN <<>> = {}
  OBVIOUS
<1>5. With(<<>>, NAME, l[NAME]) = Part(l, 0)
  <2>1. With(<<>>, NAME, l[NAME]) = [k \in {NAME} |-> IF k = NAME THEN l[NAME] ELSE <<>>[k]]
    BY <1>4 DEF With
  <2> QED BY <1>3, <1>4, <2>1
<1>6. Some(n) = DOMAIN l
  BY <1>1, <1>2
<1>7. Part(l, n) = l
  BY <1>3, <1>6 DEF Fit
<1>8. ASSUME NEW i \in 0 .. n - 1
      PROVE  With(Part(l, i), f[i + 1], l[f[i + 1]]) = Part(l, i + 1)
  <2>1. Some(i + 1) = Some(i) \cup {f[i + 1]}
    <3>1. \A j \in 1 .. i + 1 : j \in 1 .. i \/ j = i + 1
      BY <1>2
    <3>2. i + 1 \in 1 .. i + 1 /\ \A j \in 1 .. i : j \in 1 .. i + 1
      BY <1>2
    <3> QED BY <3>1, <3>2
  <2> HIDE DEF Some
  <2>2. DOMAIN Part(l, i) = Some(i) /\ \A k \in Some(i) : Part(l, i)[k] = l[k]
    BY <1>3
  <2>3. With(Part(l, i), f[i + 1], l[f[i + 1]])
          = [k \in Some(i + 1) |-> IF k = f[i + 1] THEN l[f[i + 1]] ELSE Part(l, i)[k]]
    BY <2>1, <2>2 DEF With
  <2>4. \A k \in Some(i + 1) : (IF k = f[i + 1] THEN l[f[i + 1]] ELSE Part(l, i)[k]) = l[k]
    BY <2>1, <2>2
  <2>5. Part(l, i + 1) = [k \in Some(i + 1) |-> l[k]]
    BY <1>3
  <2> QED BY <2>3, <2>4, <2>5
<1> QED BY <1>5, <1>7, <1>8 DEF f, n

(* What is sent; a turn of the receiver's loop; and what it does.          *)
Sent(l, t) == Fit(l, t) /\ PlainValues(t) /\ NAME \in DOMAIN l /\ ValidServiceName(l[NAME])
Turn(fail) == input # <<>> /\ ParseRune(Head(input), fail) /\ input' = Tail(input)
ReadsOn(l, fail) == ~fail /\ (Reads(l)' \/ (labels' = l /\ input' = <<>>))

(* A rune of rest moves from the input x, which goes on with s, to the     *)
(* buffer b.                                                               *)
Moved(b, rest, s, x) ==
  /\ Head(x) \in Range(b \o rest) /\ Head(x) \in AnyRune
  /\ Append(b, Head(x)) \in Text /\ Tail(rest) \in Text
  /\ Append(b, Head(x)) \o Tail(rest) = b \o rest
  /\ Tail(x) = Tail(rest) \o s /\ Tail(rest) \o s # <<>>

(* If there is one.                                                        *)
LEMMA Moves ==
  ASSUME NEW b \in Text, NEW rest \in Text, NEW s \in Text, s # <<>>, rest # <<>>,
         NEW x, x = rest \o s
  PROVE  Moved(b, rest, s, x)
<1> DEFINE r == Head(rest)
<1>0. b \in Seq(AnyRune) /\ rest \in Seq(AnyRune) /\ s \in Seq(AnyRune)
  BY DEF Text
<1>1. /\ Head(rest \o s) = r /\ Tail(rest \o s) = Tail(rest) \o s
      /\ r \in Range(rest) /\ r \in AnyRune /\ Tail(rest) \in Seq(AnyRune)
  BY <1>0, TakesOne
<1>2. r \in Range(b \o rest)
  <2>1. /\ Len(b) + 1 \in DOMAIN (b \o rest) /\ (b \o rest)[Len(b) + 1] = rest[1]
        /\ r = rest[1]
    BY <1>0
  <2> QED BY <2>1 DEF Range
<1>3. Append(b, r) \o Tail(rest) = b \o rest
  BY <1>0, MovesOver
<1>4. Append(b, r) \in Text
  BY <1>1, WritesRune
<1>5. Tail(rest) \o s # <<>>
  <2>1. \A u \in Seq(AnyRune) : u \o s # <<>>
    BY <1>0
  <2> QED BY <1>1, <2>1
<1> HIDE DEF r
<1> QED BY <1>1, <1>2, <1>3, <1>4, <1>5 DEF Moved, Text

(* A single rune comes first.                                              *)
LEMMA First ==
  ASSUME NEW r \in AnyRune, NEW s \in Text
  PROVE  /\ <<r>> \o s \in Text /\ <<r>> \o s # <<>> /\ Head(<<r>> \o s) = r
         /\ Tail(<<r>> \o s) = s
BY DEF Text

(* Nothing before or after.                                                *)
LEMMA Empty ==
  /\ <<>> \in Text
  /\ \A s \in Text : <<>> \o s = s /\ s \o <<>> = s
  /\ \A s, u \in Text : s \o u \in Text /\ (u # <<>> => s \o u # <<>>)
BY DEF Text

(* The receiver reads the name.                                            *)
LEMMA ReadsNameStep ==
  ASSUME NEW l, NEW t, Sent(l, t), NEW fail \in BOOLEAN, Turn(fail), key \in Text,
         value \in Text, ReadsName(l)
  PROVE  ReadsOn(l, fail)
<1> DEFINE n == Len(Order(l))
<1>1. /\ Fit(l, t) /\ PlainValues(t) /\ NAME \in DOMAIN l /\ ValidServiceName(l[NAME])
      /\ n \in Nat /\ l[NAME] \in Text
  BY Ordered DEF Sent
<1>2. Left(l, 0) \in Text /\ Left(l, 0) # <<>>
  <2>1. 0 \in 0 .. n
    BY <1>1
  <2> QED BY <1>1, <2>1, LeftIs
<1>3. PICK rest \in Text : value \o rest = l[NAME] /\ input = rest \o (<<OpenBrace>> \o Left(l, 0))
  BY DEF ReadsName
<1>4. /\ <<OpenBrace>> \o Left(l, 0) \in Text /\ <<OpenBrace>> \o Left(l, 0) # <<>>
      /\ Head(<<OpenBrace>> \o Left(l, 0)) = OpenBrace
      /\ Tail(<<OpenBrace>> \o Left(l, 0)) = Left(l, 0)
  BY <1>2, LettersAre, First
<1>5. /\ nameParserCase(Head(input), fail) /\ input' = Tail(input) /\ key = <<>>
      /\ parserState = "name" /\ labels = <<>>
  BY DEF Turn, ReadsName, ParseRune, tagLabelSetParserCase, tagValueParserCase, doneParserCase
<1>6. Space \notin Range(l[NAME]) /\ OpenBrace \notin Range(l[NAME])
  BY <1>1, LettersAre, Separators DEF ValidServiceName
<1>7. CASE rest = <<>>
  <2>1. value = l[NAME] /\ Head(input) = OpenBrace /\ input' = Left(l, 0)
    BY <1>3, <1>4, <1>5, <1>7, Empty
  <2>2. TrimSpace(value) = value
    BY <1>1, <1>6, <2>1, NoSpaces DEF Text
  <2>3. ~fail /\ parserState' = "label" /\ key' = <<>> /\ value' = value
        /\ labels' = With(<<>>, NAME, l[NAME])
    BY <1>1, <1>5, <2>1, <2>2, NameIs DEF nameParserCase
  <2>4. labels' = Part(l, 0)
    BY <1>1, <2>3, PartIs
  <2>5. CASE n = 0
    <3>1. labels' = l /\ input' = <<CloseBrace, OpenBrace>>
      BY <1>1, <2>1, <2>4, <2>5, PartIs, LeftIs
    <3>2. ReadsEnd(l)'
      BY <2>3, <3>1 DEF ReadsEnd
    <3> QED BY <1>2, <2>1, <2>3, <3>2, Empty DEF ReadsOn, Reads
  <2>6. CASE n # 0
    <3> DEFINE k == Order(l)[1]
               s == <<"=">> \o (l[k] \o Left(l, 1))
    <3>1. 0 \in 0 .. n - 1 /\ 1 \in 1 .. n /\ 1 \in 0 .. n /\ 0 + 1 = 1
      BY <1>1, <2>6
    <3>2. Left(l, 0) = Written(l, 1) \o Left(l, 1) /\ Left(l, 1) \in Text
      BY <1>1, <3>1, LeftIs
    <3>3. Written(l, 1) \o Left(l, 1) = <<>> \o (k \o s)
      BY <1>1, <3>1, <3>2, WrittenIs DEF Unfolds
    <3>4. k \in Text /\ l[k] \in Text
      BY <1>1, <3>1, Ordered
    <3>5. s \in Text /\ k \o s \in Text
      <4>1. "=" \in AnyRune /\ l[k] \o Left(l, 1) \in Text
        BY <3>2, <3>4, LettersAre, Empty
      <4>2. s \in Text
        BY <4>1, First
      <4> HIDE DEF s
      <4> QED BY <3>4, <4>2, Empty
    <3>6. input' = k \o s /\ <<>> \o k = k
      <4> HIDE DEF s, k
      <4> QED BY <2>1, <3>2, <3>3, <3>4, <3>5, Empty
    <3>7. ReadsLabel(l, 0)'
      BY <2>3, <2>4, <3>1, <3>4, <3>6 DEF ReadsLabel
    <3> QED BY <1>2, <2>1, <2>3, <3>1, <3>7, Empty DEF ReadsOn, Reads
  <2> QED BY <2>5, <2>6
<1>8. CASE rest # <<>>
  <2> DEFINE r == Head(input)
             s == <<OpenBrace>> \o Left(l, 0)
  <2> HIDE DEF s
  <2>1. /\ r \in Range(l[NAME]) /\ Append(value, r) \in Text /\ Tail(rest) \in Text
        /\ Append(value, r) \o Tail(rest) = l[NAME]
        /\ input' = Tail(rest) \o s /\ input' # <<>>
    <3>1. s \in Text /\ s # <<>> /\ input = rest \o s
      BY <1>3, <1>4 DEF s
    <3>2. Moved(value, rest, s, input)
      BY <1>8, <3>1, Moves
    <3> QED BY <1>3, <1>5, <3>2, Zenon DEF Moved
  <2>2. r # OpenBrace
    BY <1>6, <2>1
  <2>3. ~fail /\ value' = Append(value, r) /\ UNCHANGED <<parserState, key, labels>>
    BY <1>5, <2>2 DEF nameParserCase
  <2> HIDE DEF r
  <2>4. ReadsName(l)'
    BY <1>5, <2>1, <2>3 DEF ReadsName, s
  <2> QED BY <1>5, <2>1, <2>3, <2>4, Empty DEF ReadsOn, Reads
<1> QED BY <1>7, <1>8

(* Around label i + 1.                                                     *)
LEMMA Around ==
  ASSUME NEW l, NEW t, Sent(l, t), NEW i \in 0 .. Len(Order(l)) - 1
  PROVE  LET k == Order(l)[i + 1]
         IN  /\ k \in Text /\ ValidLabelName(k) /\ TrimSpace(k) = k
             /\ CloseBrace \notin Range(k) /\ "=" \notin Range(k)
             /\ l[k] \in Text /\ Plain(l[k])
             /\ Left(l, i + 1) \in Text /\ Left(l, i + 1) # <<>>
<1> DEFINE k == Order(l)[i + 1]
<1>1. Fit(l, t) /\ PlainValues(t) /\ NAME \in DOMAIN l /\ Len(Order(l)) \in Nat
  BY Ordered DEF Sent
<1>2. i + 1 \in 1 .. Len(Order(l)) /\ i + 1 \in 0 .. Len(Order(l))
  BY <1>1
<1>3. k \in Text /\ ValidLabelName(k) /\ l[k] \in Text /\ Plain(l[k])
  BY <1>1, <1>2, Ordered
<1>4. Left(l, i + 1) \in Text /\ Left(l, i + 1) # <<>>
  BY <1>1, <1>2, LeftIs
<1> HIDE DEF k
<1>5. Space \notin Range(k) /\ CloseBrace \notin Range(k) /\ "=" \notin Range(k)
  BY <1>3, LettersAre DEF ValidLabelName
<1>6. TrimSpace(k) = k
  BY <1>3, <1>5, NoSpaces DEF Text
<1> QED BY <1>3, <1>4, <1>5, <1>6 DEF k

(* The receiver reads the name of a label.                                 *)
LEMMA ReadsLabelStep ==
  ASSUME NEW l, NEW t, Sent(l, t), NEW fail \in BOOLEAN, Turn(fail), key \in Text,
         value \in Text, NEW i \in 0 .. Len(Order(l)) - 1, ReadsLabel(l, i)
  PROVE  ReadsOn(l, fail)
<1> DEFINE k == Order(l)[i + 1]
           v == l[k]
           s == <<"=">> \o (v \o Left(l, i + 1))
<1>1. /\ k \in Text /\ CloseBrace \notin Range(k) /\ "=" \notin Range(k) /\ v \in Text
      /\ Left(l, i + 1) \in Text /\ Left(l, i + 1) # <<>>
  BY Around
<1>2. PICK rest \in Text : key \o rest = k /\ input = rest \o s
  BY DEF ReadsLabel
<1>3. v \o Left(l, i + 1) \in Text /\ v \o Left(l, i + 1) # <<>>
  <2> HIDE DEF v
  <2> QED BY <1>1, Empty
<1>4. s \in Text /\ s # <<>> /\ Head(s) = "=" /\ Tail(s) = v \o Left(l, i + 1)
  <2>1. "=" \in AnyRune
    BY LettersAre
  <2> HIDE DEF v
  <2> QED BY <1>3, <2>1, First
<1>5. /\ tagLabelSetParserCase(Head(input), fail) /\ input' = Tail(input)
      /\ parserState = "label" /\ labels = Part(l, i)
  BY DEF Turn, ReadsLabel, ParseRune, nameParserCase, tagValueParserCase, doneParserCase
<1> HIDE DEF s
<1>6. CASE rest = <<>>
  <2>1. key = k /\ Head(input) = "=" /\ input' = v \o Left(l, i + 1)
    <3> HIDE DEF k, v
    <3> QED BY <1>2, <1>4, <1>5, <1>6, Empty
  <2>2. ~fail /\ parserState' = "value" /\ value' = <<>> /\ key' = key /\ labels' = labels
    BY <1>5, <2>1, Separators DEF tagLabelSetParserCase
  <2>3. ReadsValue(l, i)'
    <3>1. value' \o v = v
      <4> HIDE DEF v
      <4> QED BY <1>1, <2>2, Empty
    <3> QED BY <1>1, <1>5, <2>1, <2>2, <3>1 DEF ReadsValue
  <2> QED BY <1>3, <2>1, <2>2, <2>3, Empty DEF ReadsOn, Reads
<1>7. CASE rest # <<>>
  <2> DEFINE r == Head(input)
  <2>1. Moved(key, rest, s, input)
    BY <1>2, <1>4, <1>7, Moves
  <2>2. /\ r \in Range(k) /\ Append(key, r) \in Text /\ Tail(rest) \in Text
        /\ Append(key, r) \o Tail(rest) = k
        /\ input' = Tail(rest) \o s /\ input' # <<>>
    BY <1>2, <1>5, <2>1, Zenon DEF Moved
  <2>3. r # CloseBrace /\ r # "="
    BY <1>1, <2>2
  <2>4. ~fail /\ key' = Append(key, r) /\ UNCHANGED <<parserState, value, labels>>
    BY <1>5, <2>3 DEF tagLabelSetParserCase
  <2> HIDE DEF r
  <2>5. ReadsLabel(l, i)'
    BY <1>5, <2>2, <2>4 DEF ReadsLabel, s
  <2> QED BY <2>2, <2>4, <2>5 DEF ReadsOn, Reads
<1> QED BY <1>6, <1>7

(* The receiver reads the value of a label, and then has the label.        *)
LEMMA ReadsValueStep ==
  ASSUME NEW l, NEW t, Sent(l, t), NEW fail \in BOOLEAN, Turn(fail), key \in Text,
         value \in Text, NEW i \in 0 .. Len(Order(l)) - 1, ReadsValue(l, i)
  PROVE  ReadsOn(l, fail)
<1> DEFINE n == Len(Order(l))
           k == Order(l)[i + 1]
           v == l[k]
           s == Left(l, i + 1)
<1>1. /\ k \in Text /\ ValidLabelName(k) /\ TrimSpace(k) = k /\ v \in Text /\ Plain(v)
      /\ s \in Text /\ s # <<>>
  BY Around
<1>2. PICK rest \in Text : value \o rest = v /\ input = rest \o s
  BY DEF ReadsValue
<1>3. /\ tagValueParserCase(Head(input), fail) /\ input' = Tail(input)
      /\ parserState = "value" /\ labels = Part(l, i) /\ key = k
  BY DEF Turn, ReadsValue, ParseRune, nameParserCase, tagLabelSetParserCase, doneParserCase
<1>4. Fit(l, t) /\ PlainValues(t) /\ NAME \in DOMAIN l /\ n \in Nat
  BY Ordered DEF Sent
<1>5. CASE rest = <<>>
  <2>1. value = v /\ input = s
    <3> HIDE DEF v, s
    <3> QED BY <1>1, <1>2, <1>5, Empty
  <2>2. TrimSpace(value) = v
    BY <1>1, <2>1 DEF Plain
  <2>3. ASSUME Head(input) \in {Comma, CloseBrace}
        PROVE  ~fail /\ parserState' = "label" /\ key' = <<>> /\ value' = value
               /\ labels' = Part(l, i + 1)
    <3>1. ~fail /\ parserState' = "label" /\ key' = <<>> /\ value' = value
          /\ labels' = With(Part(l, i), k, v)
      <4> HIDE DEF k, v
      <4> QED BY <1>1, <1>3, <2>2, <2>3 DEF tagValueParserCase
    <3>2. With(Part(l, i), k, v) = Part(l, i + 1)
      BY <1>4, PartIs
    <3> QED BY <3>1, <3>2
  <2>4. CASE i + 1 = n
    <3>1. input = <<CloseBrace, OpenBrace>> /\ Part(l, i + 1) = l
      BY <1>4, <2>1, <2>4, LeftIs, PartIs
    <3>2. Head(input) = CloseBrace /\ input' = <<OpenBrace>> /\ input' # <<>>
      BY <1>3, <3>1
    <3>3. ReadsEnd(l)'
      BY <2>3, <3>1, <3>2 DEF ReadsEnd
    <3> QED BY <2>3, <3>2, <3>3, Empty DEF ReadsOn, Reads
  <2>5. CASE i + 1 # n
    <3> DEFINE j == i + 1
               k2 == Order(l)[j + 1]
               v2 == l[k2]
               s2 == <<"=">> \o (v2 \o Left(l, j + 1))
    <3>1. j \in 0 .. n - 1 /\ j + 1 \in 1 .. n /\ j + 1 # 1
      BY <1>4, <2>5
    <3>2. k2 \in Text /\ v2 \in Text /\ Left(l, j + 1) \in Text
      BY <3>1, Around
    <3>3. s = Written(l, j + 1) \o Left(l, j + 1)
      BY <1>4, <3>1, LeftIs
    <3>4. Written(l, j + 1) \o Left(l, j + 1) = <<Comma>> \o (k2 \o s2)
      <4> DEFINE m == j + 1
      <4>1. m \in 1 .. Len(Order(l)) /\ m # 1 /\ Left(l, m) \in Text
        BY <3>1, <3>2
      <4> HIDE DEF m
      <4>2. Unfolds(l, m)
        BY <1>4, <4>1, WrittenIs
      <4>3. Written(l, m) \o Left(l, m)
              = <<Comma>> \o (Order(l)[m] \o (<<"=">> \o (l[Order(l)[m]] \o Left(l, m))))
        BY <4>1, <4>2, Zenon DEF Unfolds
      <4> QED BY <4>3 DEF m
    <3>5. k2 \o s2 \in Text /\ k2 \o s2 # <<>>
      <4>1. "=" \in AnyRune
        BY LettersAre
      <4>2. v2 \o Left(l, j + 1) \in Text
        <5> HIDE DEF v2
        <5> QED BY <3>2, Empty
      <4>3. s2 \in Text /\ s2 # <<>>
        BY <4>1, <4>2, First
      <4> HIDE DEF s2, k2
      <4> QED BY <3>2, <4>3, Empty
    <3>6. Head(input) = Comma /\ input' = k2 \o s2
      <4>1. Comma \in AnyRune
        BY LettersAre
      <4>2. input = <<Comma>> \o (k2 \o s2)
        BY <2>1, <3>3, <3>4
      <4> HIDE DEF s2, k2
      <4> QED BY <1>3, <3>5, <4>1, <4>2, First
    <3>7. ReadsLabel(l, j)'
      <4>1. <<>> \o k2 = k2
        <5> HIDE DEF k2
        <5> QED BY <3>2, Empty
      <4> QED BY <2>3, <3>2, <3>6, <4>1 DEF ReadsLabel
    <3> HIDE DEF j
    <3> QED BY <2>3, <3>1, <3>5, <3>6, <3>7, Empty DEF ReadsOn, Reads
  <2> QED BY <2>4, <2>5
<1>6. CASE rest # <<>>
  <2> DEFINE r == Head(input)
  <2> HIDE DEF s
  <2>1. Moved(value, rest, s, input)
    BY <1>1, <1>2, <1>6, Moves
  <2>2. /\ r \in Range(v) /\ Append(value, r) \in Text /\ Tail(rest) \in Text
        /\ Append(value, r) \o Tail(rest) = v
        /\ input' = Tail(rest) \o s /\ input' # <<>>
    BY <1>2, <1>3, <2>1, Zenon DEF Moved
  <2>3. r \notin {Comma, CloseBrace}
    BY <1>1, <2>2 DEF Plain
  <2>4. ~fail /\ value' = Append(value, r) /\ UNCHANGED <<parserState, key, labels>>
    BY <1>3, <2>3 DEF tagValueParserCase
  <2> HIDE DEF r
  <2>5. ReadsValue(l, i)'
    BY <1>3, <2>2, <2>4 DEF ReadsValue, s
  <2> QED BY <2>2, <2>4, <2>5 DEF ReadsOn, Reads
<1> QED BY <1>5, <1>6

(* The receiver comes to the end.                                          *)
LEMMA ReadsEndStep ==
  ASSUME NEW l, NEW fail \in BOOLEAN, Turn(fail), key \in Text, value \in Text, ReadsEnd(l)
  PROVE  ReadsOn(l, fail)
<1>1. /\ labels = l /\ key = <<>> /\ ParseRune(Head(input), fail) /\ input' = Tail(input)
      /\ \/ parserState = "label" /\ input \in {<<OpenBrace>>, <<CloseBrace, OpenBrace>>}
         \/ parserState = "done" /\ input = <<OpenBrace>>
  BY DEF Turn, ReadsEnd
<1>2. ~fail /\ labels' = l
  BY <1>1 DEF ParseRune, nameParserCase, tagLabelSetParserCase, tagValueParserCase,
              doneParserCase
<1>3. CASE input = <<OpenBrace>>
  BY <1>1, <1>2, <1>3 DEF ReadsOn
<1>4. CASE input = <<CloseBrace, OpenBrace>>
  <2>1. /\ parserState = "label" /\ Head(input) = CloseBrace
        /\ input' = <<OpenBrace>> /\ input' # <<>>
    BY <1>1, <1>4
  <2>2. parserState' = "done" /\ UNCHANGED <<key, value>>
    BY <1>1, <2>1, Separators DEF ParseRune, nameParserCase, tagLabelSetParserCase,
                                  tagValueParserCase, doneParserCase
  <2>3. ReadsEnd(l)'
    BY <1>1, <1>2, <2>1, <2>2 DEF ReadsEnd
  <2> QED BY <1>2, <2>1, <2>2, <2>3 DEF ReadsOn, Reads
<1> QED BY <1>1, <1>3, <1>4

(* A turn of the receiver's loop.                                          *)
LEMMA ReadsStep ==
  ASSUME NEW l, NEW t, Sent(l, t), NEW fail \in BOOLEAN, Turn(fail), Reads(l)
  PROVE  ReadsOn(l, fail)
<1>1. key \in Text /\ value \in Text
  BY DEF Reads
<1>2. CASE ReadsName(l)
  BY <1>1, <1>2, ReadsNameStep
<1>3. CASE ReadsEnd(l)
  BY <1>1, <1>3, ReadsEndStep
<1>4. CASE \E i \in 0 .. Len(Order(l)) - 1 : ReadsLabel(l, i) \/ ReadsValue(l, i)
  BY <1>1, <1>4, ReadsLabelStep, ReadsValueStep
<1> QED BY <1>2, <1>3, <1>4 DEF Reads

(* The receiver starts with a parser that was reset.                       *)
LEMMA ReadsFirst ==
  ASSUME SentInv, Readable, Receive
  PROVE  \E l \in {sdk', godeltaprof'} : Reads(l)'
<1>1. /\ pc = "name" /\ UNCHANGED <<sdk, godeltaprof>> /\ parserState' = "name"
      /\ key' = <<>> /\ value' = <<>> /\ labels' = <<>>
  BY DEF Receive, reset
<1>2. PICK l \in {sdk, godeltaprof} : input' = Append(Normalized(l), OpenBrace)
  BY DEF Receive
<1>3. Fit(l, tags) /\ PlainValues(tags) /\ NAME \in DOMAIN l
  BY <1>1, <1>2 DEF SentInv, Names, Readable
<1>4. l[NAME] \in Text /\ Left(l, 0) \in Text
  <2>1. 0 \in 0 .. Len(Order(l))
    BY <1>3, Ordered
  <2> QED BY <1>3, <2>1, Ordered, LeftIs
<1>5. input' = l[NAME] \o (<<OpenBrace>> \o Left(l, 0))
  BY <1>2, <1>3, LeftIs
<1>6. <<OpenBrace>> \o Left(l, 0) \in Text /\ <<OpenBrace>> \o Left(l, 0) # <<>>
  BY <1>4, LettersAre, First
<1>7. input' # <<>> /\ value' \o l[NAME] = l[NAME]
  <2> DEFINE s == <<OpenBrace>> \o Left(l, 0)
             a == l[NAME]
  <2> HIDE DEF s, a
  <2>1. a \in Text /\ s \in Text /\ s # <<>> /\ input' = a \o s
    BY <1>4, <1>5, <1>6 DEF a, s
  <2>2. a \o s # <<>> /\ <<>> \o a = a
    BY <2>1, Empty
  <2> QED BY <1>1, <2>1, <2>2 DEF a
<1>8. ReadsName(l)'
  BY <1>1, <1>4, <1>5, <1>7 DEF ReadsName
<1>9. Reads(l)'
  BY <1>1, <1>7, <1>8, Empty DEF Reads
<1> QED BY <1>1, <1>2, <1>9

(* What is received is read as it was sent.                                *)
LEMMA ReceiveNext ==
  ASSUME SentInv, ReceiveInv, [Next]_vars PROVE ReceiveInv'
<1>1. CASE Receive
  <2>1. pc' = "receive" /\ UNCHANGED <<tags, parsed>>
    BY <1>1 DEF Receive
  <2>2. Readable' = Readable
    BY <2>1 DEF Readable
  <2> QED BY <1>1, <2>1, <2>2, ReadsFirst DEF ReceiveInv, ReceivedAsSent
<1>2. CASE ParseReceived
  <2>1. pc = "receive" /\ UNCHANGED <<tags, parsed, sdk, godeltaprof>>
    BY <1>2 DEF ParseReceived
  <2>2. PICK fail \in BOOLEAN :
          /\ Turn(fail)
          /\ pc' = IF fail THEN "rejected" ELSE IF input' = <<>> THEN "received" ELSE pc
    BY <1>2 DEF ParseReceived, Turn
  <2>3. Readable' <=> Readable
    BY <2>1 DEF Readable
  <2>4. (Readable <=> PlainValues(tags) /\ ValidServiceName(parsed[NAME]))
    BY DEF Readable
  <2>5. CASE ~Readable
    BY <2>1, <2>3, <2>5 DEF ReceiveInv, ReceivedAsSent, Readable, PlainValues, NAME
  <2>6. CASE Readable
    <3>1. PICK l \in {sdk, godeltaprof} : Reads(l)
      BY <2>1, <2>6 DEF ReceiveInv
    <3>2. Sent(l, tags)
      BY <2>1, <2>6, <3>1 DEF SentInv, Names, Sent, Readable
    <3>3. ReadsOn(l, fail)
      BY <2>2, <3>1, <3>2, ReadsStep
    <3>4. CASE Reads(l)'
      <4>1. pc' = "receive"
        BY <2>1, <2>2, <3>3, <3>4 DEF ReadsOn, Reads
      <4> QED BY <2>1, <3>1, <3>4, <4>1 DEF ReceiveInv, ReceivedAsSent
    <3>5. CASE labels' = l /\ input' = <<>>
      <4>1. pc' = "received"
        BY <2>2, <3>3, <3>5 DEF ReadsOn
      <4> QED BY <2>1, <3>1, <3>5, <4>1 DEF ReceiveInv, ReceivedAsSent
    <3> QED BY <3>3, <3>4, <3>5 DEF ReadsOn
  <2> QED BY <2>5, <2>6
<1>3. CASE Parse \/ ParseEnd \/ MergeDefaults
  BY <1>3 DEF Parse, ParseEnd, MergeDefaults, ReceiveInv, ReceivedAsSent
<1>4. ASSUME NEW r \in Runes, ParseConfigured(r) PROVE ReceiveInv'
  BY <1>4 DEF ParseConfigured, ReceiveInv, ReceivedAsSent
<1>5. ASSUME NEW k \in todo, MergeTag(k) PROVE ReceiveInv'
  BY <1>5 DEF MergeTag, ReceiveInv, ReceivedAsSent
<1>6. CASE UNCHANGED vars
  BY <1>6 DEF vars, parser, ReceiveInv, ReceivedAsSent, Readable, Reads, ReadsName, ReadsEnd,
              ReadsLabel, ReadsValue
<1> QED BY <1>1, <1>2, <1>3, <1>4, <1>5, <1>6 DEF Next

(* A receiver reads the labels that were put in, for any configured name   *)
(* with a valid service name, if the values of the tags and the runtime's  *)
(* name and version are plain, whatever the pooled parser was left with,   *)
(* and in whatever order the labels are written.                           *)
THEOREM NamesReceivedAsSent == Spec => []ReceivedAsSent
<1> DEFINE Inv == MergeInv /\ SentInv /\ ReceiveInv
<1>1. Init => Inv
  BY DEF Init, MergeInv, SentInv, ReceiveInv, ReceivedAsSent
<1>2. Inv /\ [Next]_vars => Inv'
  BY MergeNext, SentNext, ReceiveNext
<1>3. Inv => ReceivedAsSent
  BY DEF ReceiveInv
<1> QED BY <1>1, <1>2, <1>3, PTL DEF Spec
=============================================================================
