------------------------------ MODULE AppName ------------------------------
(***************************************************************************)
(* The application names: internal/semconv/labels.go and the label sets of *)
(* internal/labelset.                                                      *)
(*                                                                         *)
(* MergeTagsWithAppName parses the configured name, app{key=value,...},    *)
(* merges the configured tags with the labels in it, and makes two names   *)
(* of the result, for profiles of the SDK and of godeltaprof.  The names   *)
(* are parsed again by whoever receives a profile.  The parser takes one   *)
(* rune per step and comes from a pool, where the parse before, failed or  *)
(* not, left it in some state.  A text is a sequence of runes; the names   *)
(* of the labels that matter here are one rune each.  Labels are written   *)
(* in some fixed order.                                                    *)
(***************************************************************************)
EXTENDS Integers, SequencesExt

CONSTANTS Letters,      \* runes that label names and service names may have
          Runes,        \* all runes of a configured name
          TagSets,      \* the tags a program may configure
          Sid,          \* the session id
          Scopes,       \* names and versions of the two instrumentation scopes
          RuntimeName,  \* value of the labels process.runtime.name and .version
          MaxLen        \* bound on the length of a configured name

ReservedLabelNameName == <<"__name__">>
labelPyroscopeSessionID == <<"sid">>
labelProcessRuntimeName == <<"runtime">>
labelScopeName == <<"scope">>

Space == " "
Comma == ","
OpenBrace == "{"
CloseBrace == "}"

VARIABLES
  pc,                   \* idle, parse, tags, name, receive, received, rejected
  parserState, key, value,      \* the pooled parser
  labels,               \* the LabelSet at hand
  read,                 \* how much of a configured name was parsed
  tags, todo,           \* the configured tags, and those not yet merged
  parsed,               \* history: the labels of the configured name
  sdk, godeltaprof,     \* the labels of the two names
  input                 \* what is left of a received name

parser == <<parserState, key, value>>
vars == <<pc, parser, labels, read, tags, todo, parsed, sdk, godeltaprof, input>>

Init == /\ pc = "idle"
        /\ parserState = "name" /\ key = <<>> /\ value = <<>>
        /\ labels = <<>> /\ parsed = <<>> /\ sdk = <<>> /\ godeltaprof = <<>>
        /\ read = 0 /\ input = <<>>
        /\ tags \in TagSets /\ todo = {}

-----------------------------------------------------------------------------
(* internal/labelset.                                                      *)

With(l, k, v) == [x \in DOMAIN l \cup {k} |-> IF x = k THEN v ELSE l[x]]
Without(l, k) == [x \in DOMAIN l \ {k} |-> l[x]]

AddLabel(l, k, v) == IF v = <<>> THEN Without(l, k) ELSE With(l, k, v)

TrimSpace(s) == LET text == {i \in DOMAIN s : s[i] # Space}
                IN IF text = {} THEN <<>> ELSE SubSeq(s, Min(text), Max(text))

IsLabelNameReserved(k) == k = ReservedLabelNameName
ValidLabelName(k) == k # <<>> /\ Range(k) \subseteq Letters /\ ~IsLabelNameReserved(k)
ValidServiceName(n) == n # <<>> /\ Range(n) \subseteq Letters \cup {"/"}

(* the buffers keep what the parse before left in them                     *)
BadReset == parserState' = "name" /\ UNCHANGED <<key, value>>

reset == parserState' = "name" /\ key' = <<>> /\ value' = <<>>

(* One turn of Parse's loop.  fail: whether it returned an error.          *)
nameParserCase(r, fail) ==
  /\ parserState = "name"
  /\ IF r = OpenBrace
     THEN /\ parserState' = "label"
          /\ fail = ~ValidServiceName(TrimSpace(value))
          /\ labels' = IF fail THEN labels
                       ELSE With(labels, ReservedLabelNameName, TrimSpace(value))
          /\ UNCHANGED <<key, value>>
     ELSE /\ ~fail
          /\ value' = Append(value, r)
          /\ UNCHANGED <<parserState, key, labels>>

tagLabelSetParserCase(r, fail) ==
  /\ parserState = "label" /\ ~fail
  /\ CASE r = CloseBrace -> parserState' = "done" /\ UNCHANGED <<key, value>>
       [] r = "=" -> parserState' = "value" /\ value' = <<>> /\ UNCHANGED key
       [] OTHER   -> key' = Append(key, r) /\ UNCHANGED <<parserState, value>>
  /\ UNCHANGED labels

tagValueParserCase(r, fail) ==
  /\ parserState = "value"
  /\ IF r \in {Comma, CloseBrace}
     THEN LET k == TrimSpace(key) IN
          /\ parserState' = "label"
          /\ fail = ~(ValidLabelName(k) \/ IsLabelNameReserved(k))
          /\ labels' = IF fail THEN labels ELSE With(labels, k, TrimSpace(value))
          /\ key' = IF fail THEN key ELSE <<>>
          /\ UNCHANGED value
     ELSE /\ ~fail
          /\ value' = Append(value, r)
          /\ UNCHANGED <<parserState, key, labels>>

doneParserCase(fail) == parserState = "done" /\ ~fail /\ UNCHANGED <<parser, labels>>

ParseRune(r, fail) == \/ nameParserCase(r, fail) \/ tagLabelSetParserCase(r, fail)
                      \/ tagValueParserCase(r, fail) \/ doneParserCase(fail)

(* A comma separates two labels.                                           *)
Normalized(l) ==
  LET names == SetToSeq(DOMAIN l \ {ReservedLabelNameName})
      text(i) == (IF i = 1 THEN <<>> ELSE <<Comma>>) \o names[i] \o <<"=">> \o l[names[i]]
  IN l[ReservedLabelNameName] \o <<OpenBrace>>
       \o FlattenSeq([i \in DOMAIN names |-> text(i)]) \o <<CloseBrace>>

(* A value that reads as it is written.                                    *)
Plain(v) == Range(v) \cap {Comma, CloseBrace} = {} /\ TrimSpace(v) = v

IsText(s) == s \in Seq(Range(s))

(* The runes of names are not the ones that separate them; tags and the    *)
(* runtime's name and version are texts; the values that are constants of  *)
(* the code or made by it are plain besides.                               *)
ASSUME LettersAssumption ==
  /\ {"sid", "runtime", "scope"} \subseteq Letters
  /\ Letters \cap {Space, Comma, "=", OpenBrace, CloseBrace} = {}
ASSUME TagsAssumption ==
  \A t \in TagSets : \A k \in DOMAIN t : IsText(k) /\ IsText(t[k])
ASSUME DefaultsAssumption ==
  /\ IsText(RuntimeName)
  /\ \A v \in {Sid, Scopes.sdk, Scopes.godeltaprof} : IsText(v) /\ Plain(v)

-----------------------------------------------------------------------------
(* MergeTagsWithAppName.                                                   *)

Parse == /\ pc = "idle"
         /\ pc' = "parse" /\ read' = 0
         /\ reset
         /\ labels' = <<>> /\ parsed' = <<>> /\ todo' = {}
         /\ UNCHANGED <<tags, sdk, godeltaprof, input>>

(* A rune of the configured name.  After an error the caller may try again *)
(* with another name.                                                      *)
ParseConfigured(r) ==
  /\ pc = "parse" /\ read < MaxLen
  /\ read' = read + 1
  /\ \E fail \in BOOLEAN : ParseRune(r, fail) /\ pc' = IF fail THEN "idle" ELSE pc
  /\ UNCHANGED <<tags, todo, parsed, sdk, godeltaprof, input>>

(* The rune that Parse appends to the name.                                *)
ParseEnd ==
  /\ pc = "parse"
  /\ \E fail \in BOOLEAN : ParseRune(OpenBrace, fail) /\ pc' = IF fail THEN "idle" ELSE "tags"
  /\ todo' = DOMAIN tags
  /\ parsed' = labels'
  /\ UNCHANGED <<read, tags, sdk, godeltaprof, input>>

(* for tagKey, tagValue := range tags                                      *)
MergeTag(k) ==
  /\ pc = "tags" /\ k \in todo
  /\ todo' = todo \ {k}
  /\ \/ /\ IsLabelNameReserved(k)
        /\ UNCHANGED <<pc, labels>>
     \/ /\ ValidLabelName(k)
        /\ labels' = AddLabel(labels, k, tags[k])
        /\ UNCHANGED pc
     \/ /\ ~IsLabelNameReserved(k) /\ ~ValidLabelName(k)
        /\ pc' = "idle"
        /\ UNCHANGED labels
  /\ UNCHANGED <<parser, read, tags, parsed, sdk, godeltaprof, input>>

addDefaultLabel(l, k, v) == IF v = <<>> \/ k \in DOMAIN l THEN l ELSE AddLabel(l, k, v)

(* the label set is not cloned: the first name's scope is in the second    *)
BadBuildAppName(l, scope) == addDefaultLabel(l, labelScopeName, Scopes.sdk)

buildAppName(l, scope) == addDefaultLabel(l, labelScopeName, scope)

MergeDefaults ==
  /\ pc = "tags" /\ todo = {}
  /\ pc' = "name"
  /\ labels' = addDefaultLabel(AddLabel(labels, labelPyroscopeSessionID, Sid),
                               labelProcessRuntimeName, RuntimeName)
  /\ sdk' = buildAppName(labels', Scopes.sdk)
  /\ godeltaprof' = buildAppName(labels', Scopes.godeltaprof)
  /\ UNCHANGED <<parser, read, tags, todo, parsed, input>>

-----------------------------------------------------------------------------
(* A receiver parses one of the names, with the same package.              *)
Receive == /\ pc = "name"
           /\ pc' = "receive"
           /\ \E l \in {sdk, godeltaprof} : input' = Append(Normalized(l), OpenBrace)
           /\ reset
           /\ labels' = <<>>
           /\ UNCHANGED <<read, tags, todo, parsed, sdk, godeltaprof>>

ParseReceived ==
  /\ pc = "receive" /\ input # <<>>
  /\ input' = Tail(input)
  /\ \E fail \in BOOLEAN :
       /\ ParseRune(Head(input), fail)
       /\ pc' = IF fail THEN "rejected" ELSE IF input' = <<>> THEN "received" ELSE pc
  /\ UNCHANGED <<read, tags, todo, parsed, sdk, godeltaprof>>

Next == \/ Parse \/ ParseEnd \/ \E r \in Runes : ParseConfigured(r)
        \/ \E k \in todo : MergeTag(k)
        \/ MergeDefaults \/ Receive \/ ParseReceived

Spec == Init /\ [][Next]_vars

-----------------------------------------------------------------------------
(* Properties.                                                             *)

(* The tags that are merged: the reserved ones are skipped.                *)
Configured(k) == k \in DOMAIN tags /\ ~IsLabelNameReserved(k)

(* The value of a label in the name for a scope: the configured tag if it  *)
(* is not empty; if there is no such tag, the label of the configured name *)
(* even if empty; or else, or if an empty tag took the label away, the     *)
(* default.  The session id is always ours.                                *)
Expected(k, scope) ==
  IF k = labelPyroscopeSessionID THEN Sid
  ELSE CASE Configured(k) /\ tags[k] # <<>> -> tags[k]
         [] ~Configured(k) /\ k \in DOMAIN parsed -> parsed[k]
         [] OTHER -> IF k = labelScopeName THEN scope
                     ELSE IF k = labelProcessRuntimeName THEN RuntimeName ELSE <<>>

AllLabels == DOMAIN parsed \cup DOMAIN tags
               \cup {labelPyroscopeSessionID, labelProcessRuntimeName, labelScopeName}

(* Both names have the labels they should, "last take precedence", and     *)
(* neither has the other's scope (semconv/labels.go:70).                   *)
TagsTakePrecedence ==
  pc \in {"name", "receive", "received", "rejected"} => \A k \in AllLabels :
    LET Get(l) == IF k \in DOMAIN l THEN l[k] ELSE <<>>
    IN /\ Get(sdk) = Expected(k, Scopes.sdk)
       /\ Get(godeltaprof) = Expected(k, Scopes.godeltaprof)

(* A receiver reads the labels that were put in, though the parser it gets *)
(* from the pool may have just failed on another name, and though any      *)
(* rune may occur in a configured name.  A name that is given again as a   *)
(* label is not validated, and may read as anything; nor are the values of *)
(* the tags and the version of the runtime (which lists the experiments of *)
(* the build with commas): Add takes and Normalized writes them as they    *)
(* are.                                                                    *)
ReceivedAsSent ==
  pc \in {"received", "rejected"} /\ ValidServiceName(parsed[ReservedLabelNameName])
    /\ Plain(RuntimeName) /\ (\A k \in DOMAIN tags : Plain(tags[k]))
    => pc = "received" /\ labels \in {sdk, godeltaprof}
=============================================================================
