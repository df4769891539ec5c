--------------------------- MODULE MCDeltaWriter ---------------------------
(* Instance of DeltaWriter for TLC.                                        *)
EXTENDS DeltaWriter

Frame(n, entry, inl, ok) == [name |-> n, entry |-> entry, inlined |-> inl, ok |-> ok]

(* main.f (3) calls main.h (2), which calls main.g (1), both inlined in it; *)
(* it also calls an inlined function of the runtime (8).  main.r (4) calls *)
(* itself, 5 is runtime.goexit, 6 is in C code, 7 is runtime.mallocgc.     *)
ThePCs == 1 .. 8
TheFramesOf ==
  <<<<Frame("g", 10, TRUE, TRUE)>>, <<Frame("h", 10, TRUE, FALSE)>>,
    <<Frame("f", 10, FALSE, TRUE)>>, <<Frame("r", 20, FALSE, TRUE)>>, <<>>,
    <<Frame("c1", 0, TRUE, TRUE), Frame("c2", 0, TRUE, TRUE)>>,
    <<Frame("malloc", 30, FALSE, TRUE)>>, <<Frame("new", 10, TRUE, TRUE)>>>>
TheRest == <<<<2, 3>>, <<3>>, <<>>, <<>>, <<>>, <<>>, <<>>, <<3>>>>
TheRuntime == {5, 7, 8}

Line(lo, hi, exec, inode, file) ==
  [lo |-> lo, hi |-> hi, exec |-> exec, inode |-> inode, file |-> file, wellFormed |-> TRUE]
TheMaps == <<Line(1, 4, TRUE, 0, ""), Line(1, 4, TRUE, 7, "main"),
             Line(4, 5, FALSE, 7, "main"), Line(4, 8, TRUE, 8, "lib")>>

TheKeys == {"a", "b", "c", "d", "e"}
TheStackOf == [k \in TheKeys |->
  CASE k = "a" -> <<7, 1, 2, 3, 4>>
    [] k = "b" -> <<8, 3, 4, 4, 5>>       \* a fake address becomes the leaf
    [] k = "c" -> <<4, 2>>                \* cut off inside an inlined call
    [] k = "d" -> <<6, 2, 3>>
    [] k = "e" -> <<5>>]
TheHashes == {1, 2}
TheHashOf == [k \in TheKeys |-> IF k \in {"d", "e"} THEN 2 ELSE 1]
=============================================================================
