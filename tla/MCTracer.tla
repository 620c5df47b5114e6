------------------------------ MODULE MCTracer ------------------------------
(* Thread ids, names and clocks of the instances of Tracer that TLC checks. *)
EXTENDS Tracer

OneThread == {<<"1">>}
TwoThreads == {<<"1">>, <<"2">>}
PrefixThreads == {<<"1">>, <<"1", "2">>}  \* thread ids 1 and 12
OneTag == {<<"a">>}
TwoTags == {<<"a">>, <<"b">>}
DigitTags == {<<"a">>, <<"2", "a">>}      \* 1 ++ "2a" = 12 ++ "a"
=============================================================================
