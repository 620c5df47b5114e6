------------------------ MODULE MCDownloadDependency ------------------------
(* The lists of requirements and the platforms that TLC checks. *)
EXTENDS DownloadDependency

Plain == <<<<"tool">>, <<"lib", "x">>>>
Nesting == <<<<"b", "lib">>, <<"b">>>>

Heading == <<<<"name">>>>
OldTool == <<<<"name">>, <<"old", "tool">>>>

OnePlatform == [r \in Run |-> <<"linux64">>]
TwoPlatforms == [r \in Run |-> IF r = CHOOSE q \in Run : TRUE THEN <<"linux64">> ELSE <<"s2lm">>]
=============================================================================
