--------------------------- MODULE MCFileOperate ---------------------------
(* The tree and the calls of the instances that TLC checks. *)
EXTENDS FileOperate

none == [kind |-> "none", text |-> <<>>]
dir == [none EXCEPT !.kind = "dir"]
socket == [none EXCEPT !.kind = "sock"]

APlace == {<<>>, <<"a">>, <<"a", "b">>, <<"d">>, <<"d", "x">>, <<"e">>, <<"e", "x">>, <<"g">>}
ATree == [p \in APlace |-> CASE p \in {<<>>, <<"d">>, <<"e">>} -> dir
                             [] p \in {<<"d", "x">>, <<"e", "x">>} -> socket
                             [] OTHER -> none]
Closed == {<<"e">>}

dot == <<".">>
ab == <<".", "/", "a", "/", "b">>
ab_ == <<".", "/", "a", "/", "b", "/">>
a__b == <<".", "/", "a", "/", "/", "b">>
g == <<".", "/", "g">>

mkdirs(p) == [op |-> "mkdirs", path |-> p]
create(p) == [op |-> "create", path |-> p]
write(p, text) == [op |-> "write", path |-> p, text |-> text]
read(p, json) == [op |-> "read", path |-> p, json |-> json]
search(p, depth, hits, valid) ==
  [op |-> "search", path |-> p, depth |-> depth, hits |-> hits, valid |-> valid]
list(p, type, hits, valid) ==
  [op |-> "list", path |-> p, depth |-> 1, type |-> type, hits |-> hits, valid |-> valid]

AllRequest ==
  {mkdirs(ab), mkdirs(ab_), mkdirs(a__b), mkdirs(<<"a">>), create(g), write(g, <<"{", "}">>),
   write(g, <<"2">>), read(g, TRUE), read(g, FALSE), read(dot, TRUE), read(dot, FALSE),
   search(dot, 2, {"x"}, TRUE), search(dot, 1, {"x"}, TRUE), search(dot, 2, {"g"}, FALSE),
   list(dot, "dir", {"a", "g"}, TRUE), list(dot, "file", {"a", "g"}, TRUE)}

Values == {<<"{", "}">>, <<"2">>}

Relative == {mkdirs(<<"a", "/", "b">>), create(g), search(dot, 2, {"x"}, TRUE)}
Creators == {create(g), mkdirs(ab), read(g, FALSE)}

ShortNames == UNION {[1 .. n -> {"a", ".", "/"}] : n \in 0 .. 5}

AnyThread == Permutations(Thread)
=============================================================================
