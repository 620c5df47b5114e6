---------------------------- MODULE FileOperate ----------------------------
(***************************************************************************)
(* Class FileOperate of include/commutils/file_.h.  The class keeps no     *)
(* state: its methods, called by any thread, work on one file tree, a      *)
(* system call at a time, and only ever add to the tree.                   *)
(*                                                                         *)
(* A path handed to a method is a sequence of names, "." and "/"; a place  *)
(* in the tree is a sequence of names.  A file's text is a sequence of     *)
(* blocks, a block being what the stream hands to one write(2).  Which     *)
(* names a keyword or a regular expression matches is the set "hits".      *)
(* Operators named Bug... are wrong variants of the next definition.       *)
(***************************************************************************)
EXTENDS Integers, Sequences, SequencesExt, FiniteSets, FileName

CONSTANTS
  Thread,
  Place,      \* the places of the tree, <<>> being the working directory
  Initially,  \* [Place -> Node], the tree before the first call
  Denied,     \* places the process may not create, or whose directory it may not open
  Request,    \* the calls: records with op, path and the arguments of the method
  Json,       \* the texts that are one JSON value
  MaxDepth,   \* bound: frames of MkdirsByPath that the stack holds
  MaxCalls    \* bound: calls of all threads

Kind == {"none", "dir", "reg", "sock"}
Node == [kind : Kind, text : Seq(STRING)]

ASSUME FileOperateAssumption ==
  /\ <<>> \in Place /\ \A p \in Place \ {<<>>} : p \in Seq(STRING) /\ Front(p) \in Place
  /\ \A p \in Place \ {<<>>} : Last(p) \notin {".", "..", "/"}
  /\ Initially \in [Place -> Node] /\ Initially[<<>>].kind = "dir"
  /\ \A p \in Place \ {<<>>} : Initially[p].kind # "none" => Initially[Front(p)].kind = "dir"
  /\ \A p \in Place : Initially[p].kind # "reg" => Initially[p].text = <<>>
  /\ Json \subseteq Seq(STRING) \ {<<>>}
  /\ MaxDepth \in Nat \ {0} /\ MaxCalls \in Nat
  /\ "nul" \in STRING  \* true of every string, but the provers do not know it

VARIABLES
  tree,    \* Place -> Node, kind "none" where there is nothing
  pc,      \* the next step of the call a thread is in; "idle", "returned", "overflow"
  req,     \* the call a thread is in, or was in last
  stack,   \* frames, innermost first: paths of MkdirsByPath; of a directory scan,
           \* the place, the entries that opendir saw, those read, the depth left
  buf,     \* what WriteTo has still to write, what ReadFrom has read
  fds,     \* DIR handles that the call has open
  ret,     \* what the last call returned
  calls,
  since,   \* history: the tree when the call began
  alone    \* history: nobody else creates or writes the call's file meanwhile

ghost == <<since, alone>>
local == <<stack, buf, fds>>
vars == <<tree, pc, req, local, ret, calls, ghost>>

Fail == -1
Throws == -2
True == 1
False == 0

\* The place that a path names.
Names(p) ==
  LET n[i \in 0 .. Len(p)] ==
        IF i = 0 THEN <<>> ELSE IF p[i] \in {"/", "."} THEN n[i - 1] ELSE Append(n[i - 1], p[i])
  IN  n[Len(p)]
Exists(p) == p # <<>> /\ tree[Names(p)].kind # "none"
Up(p) == SubSeq(p, 1, SelectLastInSeq(p, LAMBDA x : x = "/") - 1)

\* p.substr(0, p.rfind('/')): all of p when there is no slash.
BugParentText(p) ==
  IF Contains(p, "/") THEN SubSeq(p, 1, SelectInSeq(p, LAMBDA x : x = "/") - 1) ELSE p
ParentText(p) == IF Contains(p, "/") THEN Up(p) ELSE p

\* A path has no two names without a slash between them.  A list goes one level deep.
Path == {p \in Seq(STRING) :
  Names(p) \in Place /\ \A i \in 1 .. Len(p) - 1 : p[i] = "/" \/ p[i + 1] = "/"}

ASSUME RequestAssumption ==
  /\ Request # {}
  /\ \A r \in Request :
       /\ r.op \in {"mkdirs", "create", "write", "read", "search", "list"} /\ r.path \in Path
       /\ r.op = "write" => r.text \in Seq(STRING)
       /\ r.op = "read" => r.json \in BOOLEAN
       /\ r.op \in {"search", "list"} =>
            r.depth \in Int /\ r.hits \subseteq STRING /\ r.valid \in BOOLEAN /\ r.path # <<>>
       /\ r.op = "list" => r.depth = 1

Init ==
  /\ tree = Initially
  /\ pc = [t \in Thread |-> "idle"] /\ calls = 0
  /\ req = [t \in Thread |-> CHOOSE r \in Request : TRUE]
  /\ stack = [t \in Thread |-> <<>>] /\ buf = [t \in Thread |-> <<>>]
  /\ fds = [t \in Thread |-> 0]
  /\ ret = [t \in Thread |-> [code |-> 0, out |-> <<>>]]
  /\ since = [t \in Thread |-> Initially] /\ alone = [t \in Thread |-> FALSE]

(***************************************************************************)
(* A call begins and returns.  MkdirsByPath on a path that never ends in   *)
(* an existing one recurses until the stack is full, and the process dies. *)
(***************************************************************************)
First == [mkdirs |-> "access", create |-> "stat", write |-> "openw", read |-> "openr",
          search |-> "opendir", list |-> "opendir"]

Writes(r) == r.op \in {"create", "write"}
Clash(r, s) == Writes(r) /\ Names(r.path) = Names(s.path)
Active(t) == pc[t] \notin {"idle", "returned"}
Running == \A t \in Thread : pc[t] # "overflow"

Call(t) ==
  /\ ~Active(t) /\ Running /\ calls < MaxCalls
  /\ calls' = calls + 1
  /\ \E r \in Request :
       /\ req' = [req EXCEPT ![t] = r]
       /\ pc' = [pc EXCEPT ![t] = First[r.op]]
       /\ stack' = [stack EXCEPT ![t] = IF r.op = "mkdirs" THEN <<r.path>> ELSE <<>>]
       /\ alone' = [u \in Thread |->
            IF u = t THEN \A v \in Thread \ {t} : ~(Active(v) /\ Clash(req[v], r))
            ELSE alone[u] /\ ~Clash(r, req[u])]
  /\ since' = [since EXCEPT ![t] = tree]
  /\ buf' = [buf EXCEPT ![t] = <<>>] /\ fds' = [fds EXCEPT ![t] = 0]
  /\ UNCHANGED <<tree, ret>>

At(t, l) == pc[t] = l /\ Running
Goto(t, l) == pc' = [pc EXCEPT ![t] = l] /\ UNCHANGED <<ret, req, calls, ghost>>
Return(t, code, out) ==
  /\ pc' = [pc EXCEPT ![t] = "returned"]
  /\ ret' = [ret EXCEPT ![t] = [code |-> code, out |-> out]]
  /\ UNCHANGED <<req, calls, ghost>>

(***************************************************************************)
(* MkdirsByPath.                                                           *)
(***************************************************************************)
\* A frame returns 0, to the caller or to the mkdir of the frame below it.
FrameReturns0(t) ==
  IF Len(stack[t]) = 1 THEN Return(t, 0, <<>>) /\ UNCHANGED stack
  ELSE Goto(t, "mkdir") /\ stack' = [stack EXCEPT ![t] = Tail(@)]

Access(t) ==
  /\ At(t, "access")
  /\ LET p == Head(stack[t]) IN
       \/ Exists(p) /\ FrameReturns0(t)
       \/ /\ ~Exists(p) /\ Len(stack[t]) < MaxDepth
          /\ Goto(t, "access") /\ stack' = [stack EXCEPT ![t] = <<ParentText(p)>> \o @]
       \/ /\ ~Exists(p) /\ Len(stack[t]) = MaxDepth
          /\ Goto(t, "overflow") /\ UNCHANGED stack
  /\ UNCHANGED <<tree, buf, fds>>

Creatable(n) == tree[n].kind = "none" /\ n \notin Denied /\ tree[Front(n)].kind = "dir"

Mkdir(t) ==
  /\ At(t, "mkdir")
  /\ LET n == Names(Head(stack[t])) IN
       \/ /\ Creatable(n)
          /\ tree' = [tree EXCEPT ![n] = [kind |-> "dir", text |-> <<>>]]
          /\ FrameReturns0(t)
       \/ ~Creatable(n) /\ Return(t, Fail, <<>>) /\ UNCHANGED <<tree, stack>>
  /\ UNCHANGED <<buf, fds>>

(***************************************************************************)
(* CreateEmpty, WriteTo and ReadFrom.  The openmode of WriteTo is not used.*)
(***************************************************************************)
\* open with O_CREAT and O_TRUNC.
Opens(n) == tree[n].kind = "reg" \/ Creatable(n)
BugTruncated(n) == tree' = [tree EXCEPT ![n].kind = "reg"]
Truncated(n) == tree' = [tree EXCEPT ![n] = [kind |-> "reg", text |-> <<>>]]

Stat(t) ==
  /\ At(t, "stat")
  /\ IF Exists(req[t].path) THEN Return(t, Fail, <<>>) ELSE Goto(t, "create")
  /\ UNCHANGED <<tree, local>>

Create(t) ==
  LET n == Names(req[t].path) IN
  /\ At(t, "create")
  /\ IF Opens(n) THEN Truncated(n) /\ Return(t, 0, <<>>)
     ELSE UNCHANGED tree /\ Return(t, Fail, <<>>)
  /\ UNCHANGED local

OpenForWrite(t) ==
  LET n == Names(req[t].path) IN
  /\ At(t, "openw")
  /\ IF Opens(n) THEN Truncated(n) /\ Goto(t, "write") ELSE UNCHANGED tree /\ Return(t, Fail, <<>>)
  /\ buf' = [buf EXCEPT ![t] = req[t].text]
  /\ UNCHANGED <<stack, fds>>

\* A block goes where this stream stands, whatever others have done to the file.
PutAt(text, i, block) ==
  [k \in 1 .. (IF i > Len(text) THEN i ELSE Len(text)) |->
     IF k = i THEN block ELSE IF k <= Len(text) THEN text[k] ELSE "nul"]

WriteBlock(t) ==
  LET n == Names(req[t].path)
      i == Len(req[t].text) - Len(buf[t]) + 1 IN
  /\ At(t, "write") /\ buf[t] # <<>>
  /\ tree' = [tree EXCEPT ![n].text = PutAt(@, i, Head(buf[t]))]
  /\ buf' = [buf EXCEPT ![t] = Tail(@)]
  /\ Goto(t, "write") /\ UNCHANGED <<stack, fds>>

\* seekp to the end, tellp: the size of the file.
WriteReturns(t) ==
  /\ At(t, "write") /\ buf[t] = <<>>
  /\ Return(t, Len(tree[Names(req[t].path)].text), <<>>)
  /\ UNCHANGED <<tree, local>>

\* v is the value that >> takes from the text, whatever follows it there.
Begins(v, text) ==
  v \in Json /\ IsPrefix(v, text) /\ \A w \in Json : IsPrefix(w, text) => IsPrefix(w, v)

\* A directory opens for reading too.
Readable(t) ==
  LET n == Names(req[t].path) IN
  \/ tree[n].kind = "reg"
  \/ tree[n].kind = "dir" /\ n \notin Denied /\ req[t].path # <<>>

\* The string variant sizes its buffer first; what size a directory has, or whether it
\* is one that resize refuses, is up to the file system.  The json variant parses first,
\* and throws when the text begins with no value, or cannot be read.
OpenForRead(t) ==
  LET f == tree[Names(req[t].path)] IN
  /\ At(t, "openr")
  /\ \/ ~Readable(t) /\ Return(t, Fail, <<>>) /\ UNCHANGED buf
     \/ /\ Readable(t) /\ ~req[t].json
        /\ \E size \in IF f.kind = "reg" THEN {Len(f.text)} ELSE {0, 1} :
             buf' = [buf EXCEPT ![t] = [k \in 1 .. size |-> "nul"]]
        /\ Goto(t, "read")
     \/ /\ Readable(t) /\ req[t].json
        /\ \E v \in Json : Begins(v, f.text) /\ buf' = [buf EXCEPT ![t] = v]
        /\ Goto(t, "read")
     \/ /\ Readable(t) /\ IF req[t].json THEN \A v \in Json : ~Begins(v, f.text) ELSE f.kind = "dir"
        /\ Return(t, Throws, <<>>) /\ UNCHANGED buf
  /\ UNCHANGED <<tree, stack, fds>>

\* The string variant reads as much as there is and returns the size of its buffer,
\* the json variant returns the size of the file.
ReadReturns(t) ==
  LET text == tree[Names(req[t].path)].text
      got == [k \in DOMAIN buf[t] |-> IF k <= Len(text) THEN text[k] ELSE "nul"] IN
  /\ At(t, "read")
  /\ IF req[t].json THEN Return(t, Len(text), buf[t]) ELSE Return(t, Len(got), got)
  /\ UNCHANGED <<tree, local>>

(***************************************************************************)
(* SearchRecursively and ListInDir.  readdir gives the entries in any      *)
(* order; one that is added after opendir may or may not be given.         *)
(***************************************************************************)
Dots == {".", ".."}
Below(n) == {Last(p) : p \in {q \in Place \ {<<>>} : Front(q) = n /\ tree[q].kind # "none"}}
IsDir(n, e) == e \in Dots \/ tree[Append(n, e)].kind = "dir"
CanScan(n) == tree[n].kind = "dir" /\ n \notin Denied
Frame(n, depth) == [at |-> n, saw |-> Below(n), seen |-> {}, depth |-> depth]

\* The bits of d_type: DT_DIR = 4, DT_REG = 8, DT_SOCK = 12; type "dir" asks for
\* the bit of DT_DIR, any other type for one of the other bits.
DType(n, e) == IF IsDir(n, e) THEN {4}
               ELSE IF tree[Append(n, e)].kind = "sock" THEN {4, 8} ELSE {8}
BugIsListed(r, n, e) == r.type = "dir" => 4 \in DType(n, e)
IsListed(r, n, e) == IF r.type = "dir" THEN 4 \in DType(n, e) ELSE DType(n, e) \ {4} # {}

OpenDir(t) ==
  LET n == Names(req[t].path) IN
  /\ At(t, "opendir")
  /\ \/ /\ req[t].depth > 0 /\ CanScan(n)
        /\ Goto(t, req[t].op)
        /\ stack' = [stack EXCEPT ![t] = <<Frame(n, req[t].depth)>>]
        /\ fds' = [fds EXCEPT ![t] = @ + 1]
     \/ /\ ~(req[t].depth > 0 /\ CanScan(n))
        /\ Return(t, False, <<>>) /\ UNCHANGED <<stack, fds>>
  /\ UNCHANGED <<tree, buf>>

\* The directory of the innermost scan of t, and the entries readdir may give next;
\* SearchRecursively passes over "." and "..".
Here(t) == stack[t][1].at
Given(t) ==
  (Below(Here(t)) \cup IF req[t].op = "list" THEN Dots ELSE {}) \ stack[t][1].seen
Seen(t, e) == [stack EXCEPT ![t][1].seen = @ \cup {e}]

BugDescends(t, e) ==
  IsDir(Here(t), e) /\ stack[t][1].depth > 0 /\ CanScan(Append(Here(t), e))
Descends(t, e) ==
  IsDir(Here(t), e) /\ stack[t][1].depth > 1 /\ CanScan(Append(Here(t), e))

SearchDescends(t) ==
  /\ At(t, "search")
  /\ \E e \in Given(t) :
       /\ Descends(t, e)
       /\ stack' = [Seen(t, e) EXCEPT ![t] =
            <<Frame(Append(Here(t), e), stack[t][1].depth - 1)>> \o @]
  /\ fds' = [fds EXCEPT ![t] = @ + 1]
  /\ Goto(t, "search") /\ UNCHANGED <<tree, buf>>

Passes(t, e) == IF IsDir(Here(t), e) THEN ~Descends(t, e)
                ELSE req[t].valid /\ e \notin req[t].hits

SearchPasses(t) ==
  /\ At(t, "search")
  /\ \E e \in Given(t) : Passes(t, e) /\ stack' = Seen(t, e)
  /\ Goto(t, "search") /\ UNCHANGED <<tree, buf, fds>>

BugCloses(t) == 1
BugClosesTwice(t) == Len(stack[t]) + 1
Closes(t) == Len(stack[t])

\* Every frame closes its directory and returns true.
SearchFinds(t) ==
  /\ At(t, "search") /\ req[t].valid
  /\ \E e \in Given(t) \cap req[t].hits :
       ~IsDir(Here(t), e) /\ Return(t, True, Append(Here(t), e))
  /\ fds' = [fds EXCEPT ![t] = @ - Closes(t)]
  /\ stack' = [stack EXCEPT ![t] = <<>>]
  /\ UNCHANGED <<tree, buf>>

\* The text is no regular expression; the directories stay open.
ScanThrows(t) ==
  /\ At(t, "search") \/ At(t, "list")
  /\ ~req[t].valid
  /\ \E e \in Given(t) : IF req[t].op = "search" THEN ~IsDir(Here(t), e)
                         ELSE IsListed(req[t], Here(t), e)
  /\ stack' = [stack EXCEPT ![t] = <<>>]
  /\ Return(t, Throws, <<>>) /\ UNCHANGED <<tree, buf, fds>>

ListEntry(t) ==
  /\ At(t, "list")
  /\ \E e \in Given(t) : LET listed == IsListed(req[t], Here(t), e) IN
       /\ req[t].valid \/ ~listed
       /\ buf' = IF listed /\ e \in req[t].hits THEN [buf EXCEPT ![t] = Append(@, e)] ELSE buf
       /\ stack' = Seen(t, e)
  /\ Goto(t, "list") /\ UNCHANGED <<tree, fds>>

ScanEnds(t) ==
  /\ At(t, "search") \/ At(t, "list")
  /\ Given(t) \cap (stack[t][1].saw \cup Dots) = {}
  /\ fds' = [fds EXCEPT ![t] = @ - 1]
  /\ stack' = [stack EXCEPT ![t] = Tail(@)]
  /\ IF Len(stack[t]) > 1 THEN Goto(t, pc[t]) ELSE Return(t, False, buf[t])
  /\ UNCHANGED <<tree, buf>>

Terminated ==
  /\ ~Running \/ (calls = MaxCalls /\ \A t \in Thread : ~Active(t))
  /\ UNCHANGED vars

Next ==
  \/ \E t \in Thread :
       \/ Call(t) \/ Access(t) \/ Mkdir(t) \/ Stat(t) \/ Create(t)
       \/ OpenForWrite(t) \/ WriteBlock(t) \/ WriteReturns(t) \/ OpenForRead(t) \/ ReadReturns(t)
       \/ OpenDir(t) \/ SearchDescends(t) \/ SearchPasses(t) \/ SearchFinds(t) \/ ScanThrows(t)
       \/ ListEntry(t) \/ ScanEnds(t)
  \/ Terminated

Spec == Init /\ [][Next]_vars
-----------------------------------------------------------------------------
Step == {"idle", "returned", "overflow", "access", "mkdir", "stat", "create", "openw",
         "write", "openr", "read", "opendir", "search", "list"}

\* The type of every variable; every place there is lies in a directory, and a scan is
\* nowhere deeper than it was asked to go.
TypeOK ==
  /\ tree \in [Place -> Node] /\ since \in [Thread -> [Place -> Node]]
  /\ \A p \in Place \ {<<>>} : tree[p].kind # "none" => tree[Front(p)].kind = "dir"
  /\ pc \in [Thread -> Step] /\ req \in [Thread -> Request]
  /\ \A t \in Thread : /\ req[t].op = "mkdirs" => Len(stack[t]) <= MaxDepth
                       /\ pc[t] \in {"search", "list"} => Len(stack[t]) <= req[t].depth
  /\ buf \in [Thread -> Seq(STRING)] /\ fds \in [Thread -> Nat]
  /\ \A t \in Thread : ret[t].code \in Int /\ ret[t].out \in Seq(STRING)
  /\ calls \in 0 .. MaxCalls /\ alone \in [Thread -> BOOLEAN]

Target(t) == Names(req[t].path)
Returned(t, op) == pc[t] = "returned" /\ req[t].op = op
IsFile(node) == node.kind \notin {"none", "dir"}

\* MkdirsByPath calls mkdir only on a path whose parent is there.
ParentReady ==
  \A t \in Thread : pc[t] = "mkdir" => tree[Front(Names(Head(stack[t])))].kind # "none"

\* No name of the path is followed by an empty one or by a dot before the next name.
Plain(p) == \A i \in 1 .. Len(p) - 1 :
  p[i] = "/" /\ p[i + 1] \in {"/", "."} => Names(SubSeq(p, 1, i)) \in {<<>>, Names(p)}

\* Nothing on the way to n forbids a directory there.
FreeWay(n) == \A k \in 1 .. Len(n) :
  SubSeq(n, 1, k) \notin Denied /\ ~IsFile(tree[SubSeq(n, 1, k)])

\* What MkdirsByPath returned 0 for is there.  And although a thread that loses the
\* race for one directory gives up with -1, a path that both of two threads were asked
\* to make is there when both have returned, unless something on it forbids it.  With a
\* third thread that makes a part of the path both may lose; and on a path that is not
\* plain a call loses to itself, for it makes a directory twice.
MkdirsTells ==
  \A t, u \in Thread : Returned(t, "mkdirs") =>
    /\ ret[t].code = 0 => tree[Target(t)].kind # "none"
    /\ t # u /\ Thread = {t, u} /\ Returned(u, "mkdirs") /\ Target(u) = Target(t)
       /\ Plain(req[t].path) /\ Plain(req[u].path) /\ FreeWay(Target(t)) =>
         tree[Target(t)].kind = "dir"

\* The file q lies at most depth levels below n, in directories that can be opened.
Reachable(at, n, depth, q) ==
  /\ IsPrefix(n, q) /\ Len(q) - Len(n) \in 1 .. depth /\ IsFile(at[q])
  /\ \A k \in Len(n) .. Len(q) - 1 : SubSeq(q, 1, k) \notin Denied

\* SearchRecursively returns true with a file that is there, matches and is not too
\* deep, and false only if no such file was there when it was called, whatever is
\* added while it walks.
SearchTells ==
  \A t \in Thread : Returned(t, "search") =>
    LET Match(at, q) == Reachable(at, Target(t), req[t].depth, q) /\ Last(q) \in req[t].hits IN
    /\ ret[t].code = True => ret[t].out \in Place /\ Match(tree, ret[t].out)
    /\ ret[t].code = False => \A q \in Place \ {<<>>} : ~Match(since[t], q)

\* ListInDir gives every matching entry of the type that was there when it was called:
\* the directories and no regular file, or the regular files and no directory.
ListTells ==
  \A t \in Thread : Returned(t, "list") /\ ret[t].code = False =>
    \A q \in Place \ {<<>>} :
      Front(q) = Target(t) /\ Front(q) \notin Denied /\ since[t][q].kind \in {"dir", "reg"} =>
        (Contains(ret[t].out, Last(q)) <=>
           Last(q) \in req[t].hits /\ (since[t][q].kind = "dir" <=> req[t].type = "dir"))

\* A call that does not throw closes every directory it opened.
HandlesClosed ==
  \A t \in Thread : pc[t] = "returned" /\ ret[t].code # Throws => fds[t] = 0

\* GetNameWithoutSuffix and GetSuffix agree about where to cut any name, the paths that the
\* threads pass to the other methods among them: no character is lost between the two, none
\* is in both, and only a path that ends in a slash has no name.
PathsSplit == NamesSplit /\ \A t \in Thread : Splits(req[t].path)

\* The text that a WriteTo under way has written.
Written(u) == SubSeq(req[u].text, 1, Len(req[u].text) - Len(buf[u]))

\* Of a call on a regular file that nobody else creates or writes meanwhile: WriteTo
\* leaves exactly its text and returns its length; ReadFrom returns the length of the
\* text, and gets exactly the text, or the JSON value that it begins with; CreateEmpty
\* makes a file only where there was none.
UndisturbedTells(t) ==
  LET f == tree'[Target(t)] IN
  /\ req[t].op = "write" => f.text = req[t].text /\ ret'[t].code = Len(f.text)
  /\ req[t].op = "read" /\ f.kind = "reg" =>
       /\ IF req[t].json THEN Begins(ret'[t].out, f.text) ELSE ret'[t].out = f.text
       /\ ret'[t].code = Len(f.text)
  /\ req[t].op = "create" => since[t][Target(t)].kind = "none"

\* When ReadFrom returns a string while u writes the file, it has what u has written so
\* far, as much as its buffer holds, and NUL from there on; nothing of the old text.
OverlappedTells(t, u) ==
  \A k \in DOMAIN ret'[t].out :
    ret'[t].out[k] = IF k <= Len(Written(u)) THEN Written(u)[k] ELSE "nul"

\* The two together are what CreateEmpty, WriteTo and ReadFrom tell when they do not fail.
FilesTell == [][\A t \in Thread :
  pc[t] \in {"create", "write", "read"} /\ pc'[t] = "returned" /\ ret'[t].code >= 0 =>
    /\ alone[t] => UndisturbedTells(t)
    /\ pc[t] = "read" /\ ~req[t].json =>
         \A u \in Thread : pc[u] = "write" /\ alone[u] /\ Target(u) = Target(t) =>
           OverlappedTells(t, u)]_vars

\* file_.h:272: "If any of the directories in the path do not exist, they will be
\* created."  MkdirsByPath never exhausts the stack.
MkdirsComesBack == Running

\* file_.h:39: CreateEmpty "creates a new file": of two calls for one name at most one
\* returns 0.
OneCreator ==
  \A t, u \in Thread : t # u /\ Returned(t, "create") /\ Returned(u, "create")
                     /\ Target(t) = Target(u) => ~(ret[t].code = 0 /\ ret[u].code = 0)
=============================================================================
