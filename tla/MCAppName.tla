----------------------------- MODULE MCAppName -----------------------------
(* Instance of AppName for TLC.                                            *)
EXTENDS AppName

TheLetters == {"a", "sid", "runtime", "scope", "__name__", "go", "x"}
TheRunes == {"a", "scope", "__name__", " ", "=", ",", "{", "}"}
Tags(keys, v) == [k \in keys |-> v]
TheTagSets == {Tags({}, <<>>), Tags({<<"a">>, <<"scope">>}, <<"x">>),
               Tags({<<"a">>, <<"scope">>}, <<>>), Tags({<<"__name__">>, <<"sid">>}, <<"x">>),
               Tags({<<"a">>, <<"=">>}, <<"x">>), Tags({<<"a">>}, <<"x", ",", "x">>)}
TheSid == <<"x">>
TheScopes == [sdk |-> <<"go">>, godeltaprof |-> <<"go", "x">>]
TheRuntime == <<"go">>
=============================================================================
