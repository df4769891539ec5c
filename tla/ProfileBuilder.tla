--------------------------- MODULE ProfileBuilder ---------------------------
(***************************************************************************)
(* The profile builder of the delta profilers:                             *)
(* godeltaprof/internal/pprof/proto.go.                                    *)
(*                                                                         *)
(* LocsForStack turns the addresses of a stack into the ids of locations.  *)
(* A location stands for one physical frame: the address of an inlined     *)
(* call and the fake addresses of the functions it is inlined in.  The     *)
(* deck collects such addresses, a cache remembers by its first address    *)
(* each location that was written.  One step is one turn of the loop.      *)
(*                                                                         *)
(* An address is a number.  What the runtime knows of it is constant: its  *)
(* frames (none for runtime.goexit) and the fake addresses that follow it  *)
(* in a stack.  A frame has a name, an entry (0 if it is not a Go          *)
(* function), and may be inlined (its Func is nil) or unresolved (~ok).    *)
(* The copy of the first address' frames kept in the cache is what         *)
(* allFrames returns for it.  Encoding and compression are left out.       *)
(***************************************************************************)
EXTENDS Integers, FiniteSets, SequencesExt

CONSTANTS PCs,          \* addresses that occur in stacks
          FramesOf,     \* their frames, leaf first
          Rest,         \* the fake addresses that follow an inlined call
          Maps          \* the lines of /proc/self/maps

(* What the heuristic of pcDeck relies on.                                 *)
Merges(last, first) == /\ last.inlined
                       /\ last.entry # 0 /\ first.entry # 0
                       /\ last.entry = first.entry
                       /\ last.name # first.name

Joins(p, q) == FramesOf[q] # <<>> /\ Merges(Last(FramesOf[p]), Head(FramesOf[q]))

ASSUME RestAssumption == Rest \in [PCs -> Seq(PCs)]
ASSUME FramesAssumption == \A p \in PCs : FramesOf[p] \in Seq(Range(FramesOf[p]))

ASSUME RuntimeAssumption ==
  \A p \in PCs :
    /\ Rest[p] # <<>> => LET q == Head(Rest[p])
                         IN Joins(p, q) /\ Rest[q] = Tail(Rest[p])
    /\ Rest[p] = <<>> /\ FramesOf[p] # <<>> => \A q \in PCs : ~Joins(p, q)

VARIABLES
  lazy,         \* opt.LazyMapping
  mem,          \* opt.mem, which is also b.mem
  bpc,          \* the builder: closed, open, in LocsForStack, returned from it
  cache,        \* b.locs
  funcs,        \* b.funcs: a function's id is its place
  out,          \* the Location messages written
  deck,         \* b.deck
  stk, ids      \* LocsForStack: what is left of the stack, and the result

pbVars == <<lazy, mem, bpc, cache, funcs, out, deck, stk, ids>>

NoPCs == [pcs |-> <<>>, sym |-> {}]

PbInit == /\ lazy \in BOOLEAN
          /\ mem = <<>> /\ bpc = "closed"
          /\ cache = <<>> /\ funcs = <<>> /\ out = <<>>
          /\ deck = NoPCs /\ stk = <<>> /\ ids = <<>>

-----------------------------------------------------------------------------
(* parseProcSelfMaps: lines that are not well-formed, not executable, or   *)
(* the unpopulated part of a huge page are passed over.                    *)
Kept(line) == line.wellFormed /\ line.exec /\ ~(line.inode = 0 /\ line.file = "")

readMapping ==
  LET lines == SelectSeq(Maps, Kept)
  IN IF lines = <<>> THEN <<[start |-> 0, end |-> 0, fake |-> TRUE, funcs |-> {}]>>
     ELSE [i \in DOMAIN lines |-> [start |-> lines[i].lo, end |-> lines[i].hi,
                                   fake |-> FALSE, funcs |-> {}]]

mapping == IF mem = <<>> \/ ~lazy THEN readMapping ELSE mem

NewProfileBuilder ==
  /\ bpc = "closed"
  /\ bpc' = "open"
  /\ mem' = mapping
  /\ UNCHANGED <<lazy, cache, funcs, out, deck, stk, ids>>

(* b.Build: a mapping whose symbols were all found is marked as such, and  *)
(* the builder is done with.                                               *)
HasFunctions(m) == mem[m].funcs = {"tried"}

Build == /\ bpc = "open"
         /\ bpc' = "closed"
         /\ cache' = <<>> /\ funcs' = <<>> /\ out' = <<>>
         /\ UNCHANGED <<lazy, mem, deck, stk, ids>>

-----------------------------------------------------------------------------
(* pcDeck and emitLocation.                                                *)

(* the symbolizeResult of allFrames                                        *)
Symbolized(pc) == {"tried"} \cup (IF Head(FramesOf[pc]).ok THEN {} ELSE {"failed"})

CanAdd(pc) == deck.pcs # <<>> => Joins(Last(deck.pcs), pc)

(* the results of the addresses before are lost                            *)
BadAdded(d, pc) == [pcs |-> Append(d.pcs, pc), sym |-> Symbolized(pc)]

(* the deck after a tryAdd that succeeds                                   *)
Added(d, pc) == [pcs |-> Append(d.pcs, pc), sym |-> d.sym \cup Symbolized(pc)]

(* the mapping an address is in, the first if it is faked, or none         *)
MappingOf(pc) ==
  LET in == {i \in DOMAIN mem : mem[i].fake \/ (mem[i].start <= pc /\ pc < mem[i].end)}
  IN IF in = {} THEN 0 ELSE Min(in)

Names(pc) == [k \in DOMAIN FramesOf[pc] |-> FramesOf[pc][k].name]
NamesOf(pcs) == FlattenSeq([i \in DOMAIN pcs |-> Names(pcs[i])])

(* a function gets an id when it is first named                            *)
Learn(fs, n) == IF n \in Range(fs) THEN fs ELSE Append(fs, n)

Id == Cardinality(DOMAIN cache) + 1

Emitted == IF deck.pcs = <<>> THEN <<>> ELSE <<Id>>

WriteLocation ==
  LET addr == Head(deck.pcs)
      names == NamesOf(deck.pcs)
      known == FoldLeft(Learn, funcs, names)
  IN /\ cache' = [p \in DOMAIN cache \cup {addr} |->
                    IF p = addr THEN [id |-> Id, pcs |-> deck.pcs] ELSE cache[p]]
     /\ funcs' = known
     /\ out' = Append(out, [id |-> Id, pcs |-> deck.pcs, mapping |-> MappingOf(addr),
                            lines |-> [k \in DOMAIN names |->
                                         CHOOSE i \in DOMAIN known : known[i] = names[k]]])
     /\ mem' = [i \in DOMAIN mem |->
                  IF i = MappingOf(addr) THEN [mem[i] EXCEPT !.funcs = @ \cup deck.sym]
                  ELSE mem[i]]

(* emitLocation, and what is in the deck next                              *)
emitLocation(next) ==
  /\ deck' = next
  /\ IF deck.pcs = <<>> THEN UNCHANGED <<cache, funcs, out, mem>> ELSE WriteLocation

-----------------------------------------------------------------------------
(* LocsForStack.                                                           *)

(* the last inlined call is left as the stack depth limit has cut it       *)
BadExpand(s) == s

(* runtime_expandFinalInlineFrame                                          *)
Expand(s) == IF s = <<>> THEN s ELSE s \o Rest[Last(s)]

LocsForStack(s) ==
  /\ bpc = "open"
  /\ bpc' = "locs"
  /\ stk' = Expand(s) /\ ids' = <<>> /\ deck' = NoPCs
  /\ UNCHANGED <<lazy, mem, cache, funcs, out>>

Turn == bpc = "locs" /\ stk # <<>>
Addr == Head(stk)
Drop(s, n) == SubSeq(s, n + 1, Len(s))

(* a cached address is added to an empty deck                              *)
BadPush ==
  /\ Turn /\ FramesOf[Addr] # <<>> /\ CanAdd(Addr)
  /\ deck' = Added(deck, Addr)
  /\ stk' = Tail(stk)
  /\ UNCHANGED <<lazy, mem, bpc, cache, funcs, out, ids>>

(* The address goes on the deck.  A cached one does so only on top of      *)
(* others: here it may be a fake address.                                  *)
Push ==
  /\ Turn /\ FramesOf[Addr] # <<>> /\ CanAdd(Addr)
  /\ Addr \in DOMAIN cache => deck.pcs # <<>>
  /\ deck' = Added(deck, Addr)
  /\ stk' = Tail(stk)
  /\ UNCHANGED <<lazy, mem, bpc, cache, funcs, out, ids>>

(* the deck is not looked at if the address is cached                      *)
BadCached ==
  /\ Turn /\ Addr \in DOMAIN cache
  /\ emitLocation(NoPCs)
  /\ ids' = ids \o Emitted \o <<cache[Addr].id>>
  /\ stk' = Drop(stk, Len(cache[Addr].pcs))
  /\ UNCHANGED <<lazy, bpc>>

(* the addresses of a cached location but the first are not skipped        *)
BadCachedSkip ==
  /\ Turn /\ Addr \in DOMAIN cache /\ (deck.pcs = <<>> \/ ~CanAdd(Addr))
  /\ emitLocation(NoPCs)
  /\ ids' = ids \o Emitted \o <<cache[Addr].id>>
  /\ stk' = Tail(stk)
  /\ UNCHANGED <<lazy, bpc>>

Cached ==
  /\ Turn /\ Addr \in DOMAIN cache /\ (deck.pcs = <<>> \/ ~CanAdd(Addr))
  /\ emitLocation(NoPCs)
  /\ ids' = ids \o Emitted \o <<cache[Addr].id>>
  /\ stk' = Drop(stk, Len(cache[Addr].pcs))
  /\ UNCHANGED <<lazy, bpc>>

Goexit ==
  /\ Turn /\ Addr \notin DOMAIN cache /\ FramesOf[Addr] = <<>>
  /\ emitLocation(NoPCs)
  /\ ids' = ids \o Emitted
  /\ stk' = Tail(stk)
  /\ UNCHANGED <<lazy, bpc>>

(* The address is not inlined with those in the deck.  Writing the deck    *)
(* may have put it in the cache, if the function calls itself.             *)
Flush ==
  /\ Turn /\ Addr \notin DOMAIN cache /\ FramesOf[Addr] # <<>> /\ ~CanAdd(Addr)
  /\ IF Addr = Head(deck.pcs)
     THEN /\ emitLocation(NoPCs)
          /\ ids' = ids \o Emitted \o <<Id>>
          /\ stk' = Drop(stk, Len(deck.pcs))
     ELSE /\ emitLocation(Added(NoPCs, Addr))
          /\ ids' = ids \o Emitted
          /\ stk' = Tail(stk)
  /\ UNCHANGED <<lazy, bpc>>

LocsReturn ==
  /\ bpc = "locs" /\ stk = <<>>
  /\ emitLocation(NoPCs)
  /\ ids' = ids \o Emitted
  /\ bpc' = "located"
  /\ UNCHANGED <<lazy, stk>>

Loop == Push \/ Cached \/ Goexit \/ Flush \/ LocsReturn

-----------------------------------------------------------------------------
(* Properties.                                                             *)

(* No two Location messages of a profile have the same id.                 *)
IdsDistinct == \A i, j \in DOMAIN out : out[i].id = out[j].id => i = j

(* A location holds the addresses of one physical frame, all of them,      *)
(* whatever stacks were seen before: inlined calls are neither split up    *)
(* nor run together with their caller.                                     *)
InlineChains == \A i \in DOMAIN out :
  out[i].pcs = <<Head(out[i].pcs)>> \o Rest[Head(out[i].pcs)]

(* What a cached location stands for is there to be skipped: the slice     *)
(* expression stays in bounds "even if stk was truncated due to the stack  *)
(* depth limit" (proto.go:372), and no other frame is passed over.         *)
SkipsOwnFrames ==
  Turn /\ Addr \in DOMAIN cache /\ (deck.pcs = <<>> \/ ~CanAdd(Addr))
    => IsPrefix(cache[Addr].pcs, stk)

(* A mapping is marked as having functions only if every symbol looked up  *)
(* in it for this profile was found, and, if mappings are read anew for    *)
(* each profile, whenever that is so.                                      *)
HasFunctionsRight ==
  bpc = "open" => \A m \in DOMAIN mem :
    LET here == {p \in UNION {Range(out[i].pcs) : i \in {j \in DOMAIN out : out[j].mapping = m}} :
                   FramesOf[p] # <<>>}
        found == here # {} /\ \A p \in here : Head(FramesOf[p]).ok
    IN /\ HasFunctions(m) /\ here # {} => found
       /\ ~lazy => HasFunctions(m) = found
=============================================================================
