-------------------------- MODULE FileOperateProofs --------------------------
(***************************************************************************)
(* Proofs about FileOperate for any threads, any tree, any calls and any   *)
(* number of them.                                                         *)
(***************************************************************************)
EXTENDS FileOperate, FileNameProofs, SequenceTheorems, WellFoundedInduction, TLAPS

(***************************************************************************)
(* Sequences and induction, from Least of FileNameProofs.                  *)
(***************************************************************************)
LEMMA AppendIs ==
  ASSUME NEW S, NEW s \in Seq(S), NEW e \in S
  PROVE  /\ Append(s, e) \in Seq(S) /\ Append(s, e) # <<>>
         /\ Front(Append(s, e)) = s /\ Last(Append(s, e)) = e
BY DEF Front, Last

LEMMA FrontAndLast ==
  ASSUME NEW S, NEW s \in Seq(S), s # <<>>
  PROVE  /\ Front(s) \in Seq(S) /\ Last(s) \in S /\ s = Append(Front(s), Last(s))
         /\ Len(s) \in Nat \ {0} /\ Len(Front(s)) = Len(s) - 1 /\ Front(s) = SubSeq(s, 1, Len(s) - 1)
<1>1. Len(s) \in Nat /\ Len(s) # 0
  BY EmptySeq
<1>2. Front(s) = SubSeq(s, 1, Len(s) - 1) /\ Last(s) = s[Len(s)]
  BY DEF Front, Last
<1> DEFINE m == Len(s) - 1
<1>m. m \in Nat /\ m <= Len(s) /\ Len(s) \in 1 .. Len(s)
  BY <1>1
<1>3. SubSeq(s, 1, m) \in Seq(S) /\ Len(SubSeq(s, 1, m)) = m /\ s[Len(s)] \in S
  <2>1. \A i \in 1 .. m : s[i] \in S
    BY <1>m
  <2>2. SubSeq(s, 1, m) \in Seq(S) /\ Len(SubSeq(s, 1, m)) = IF 1 <= m THEN m - 1 + 1 ELSE 0
    BY <1>m, <2>1, SubSeqProperties
  <2>3. s[Len(s)] \in S
    BY <1>m
  <2> HIDE DEF m
  <2>4. (IF 1 <= m THEN m - 1 + 1 ELSE 0) = m
    BY <1>m
  <2> QED  BY <2>2, <2>3, <2>4
<1>4. s = Append(Front(s), Last(s))
  BY <1>1, <1>2
<1> QED  BY <1>1, <1>2, <1>3, <1>4

\* Induction, as the absence of a least counterexample.
LEMMA Induction ==
  ASSUME NEW T \in SUBSET Nat, 0 \notin T, \A n \in T : n # 0 => n - 1 \in T
  PROVE  T = {}
<1>1. SUFFICES ASSUME T # {} PROVE FALSE
  OBVIOUS
<1>2. PICK n \in T : \A y \in T : n <= y
  BY <1>1, Least
<1> QED  BY <1>2

(***************************************************************************)
(* The place that a path names, and its parent.                            *)
(***************************************************************************)
Next1(x, names) == IF x \in {"/", "."} THEN names ELSE Append(names, x)
NextName(p, i, f) == IF i = 0 THEN <<>> ELSE Next1(p[i], f[i - 1])

LEMMA NamesExist ==
  ASSUME NEW p, Len(p) \in Nat
  PROVE  \E f : f = [i \in 0 .. Len(p) |-> NextName(p, i, f)]
<1> DEFINE Upto(n) == \E f : f = [i \in 0 .. n |-> NextName(p, i, f)]
           T == {n \in Nat : ~Upto(n)}
<1>1. 0 \notin T
  <2> DEFINE f == [i \in 0 .. 0 |-> <<>>]
  <2>1. f = [i \in 0 .. 0 |-> NextName(p, i, f)]
    BY DEF NextName
  <2> QED  BY <2>1
<1>2. ASSUME NEW n \in T, n # 0, n - 1 \notin T PROVE FALSE
  <2>1. n \in Nat /\ n - 1 \in Nat
    BY <1>2
  <2>2. PICK f : f = [i \in 0 .. n - 1 |-> NextName(p, i, f)]
    BY <1>2, <2>1
  <2> DEFINE g == [i \in 0 .. n |-> NextName(p, i, f)]
  <2>3. \A i \in 0 .. n - 1 : g[i] = f[i]
    BY <2>1, <2>2
  <2>4. ASSUME NEW i \in 0 .. n PROVE NextName(p, i, g) = NextName(p, i, f)
    <3> HIDE DEF g
    <3>1. i = 0 \/ i - 1 \in 0 .. n - 1
      BY <2>1
    <3>2. i = 0 \/ g[i - 1] = f[i - 1]
      BY <2>3, <3>1
    <3> QED  BY <3>2 DEF NextName
  <2>5. g = [i \in 0 .. n |-> NextName(p, i, g)]
    BY <2>4
  <2> QED  BY <1>2, <2>5
<1>3. T \in SUBSET Nat
  OBVIOUS
<1> HIDE DEF T
<1>4. T = {}
  BY <1>1, <1>2, <1>3, Induction
<1> QED  BY <1>4 DEF T

\* The names of all the beginnings of a path.
Beginnings(p, f) ==
  /\ f[0] = <<>> /\ \A i \in 1 .. Len(p) : f[i] = Next1(p[i], f[i - 1])
  /\ \A i \in 0 .. Len(p) : f[i] \in Seq(STRING)

LEMMA NamesAre ==
  ASSUME NEW p \in Seq(STRING)
  PROVE  \E f : Names(p) = f[Len(p)] /\ Beginnings(p, f)
<1> DEFINE f == CHOOSE f : f = [i \in 0 .. Len(p) |-> NextName(p, i, f)]
<1>0. Len(p) \in Nat
  OBVIOUS
<1>1. Names(p) = f[Len(p)]
  BY DEF Names, NextName, Next1
<1>2. f = [i \in 0 .. Len(p) |-> NextName(p, i, f)]
  BY <1>0, NamesExist
<1> HIDE DEF f
<1>3. \A i \in 0 .. Len(p) : f[i] = NextName(p, i, f)
  BY <1>2
<1>4. f[0] = <<>> /\ \A i \in 1 .. Len(p) : f[i] = Next1(p[i], f[i - 1])
  BY <1>0, <1>3 DEF NextName
<1> DEFINE T == {i \in 0 .. Len(p) : f[i] \notin Seq(STRING)}
<1>5. T \in SUBSET Nat /\ 0 \notin T
  <2>1. f[0] \in Seq(STRING)
    BY <1>4
  <2> QED  BY <1>0, <2>1
<1>6. ASSUME NEW n \in T, n # 0, n - 1 \notin T PROVE FALSE
  <2>1. n \in 1 .. Len(p) /\ n - 1 \in 0 .. Len(p)
    BY <1>0, <1>6
  <2>2. f[n - 1] \in Seq(STRING)
    BY <1>6, <2>1
  <2>4. p[n] \in STRING
    BY <2>1
  <2>5. f[n] = Next1(p[n], f[n - 1])
    BY <1>4, <2>1
  <2>3. f[n] \in Seq(STRING)
    <3>1. Append(f[n - 1], p[n]) \in Seq(STRING)
      BY <2>2, <2>4, AppendIs
    <3> QED  BY <2>2, <2>5, <3>1, Zenon DEF Next1
  <2> QED  BY <1>6, <2>3
<1> HIDE DEF T
<1>7. T = {}
  BY <1>5, <1>6, Induction
<1> QED  BY <1>1, <1>4, <1>7 DEF T, Beginnings

LEMMA NamesOfPrefix ==
  ASSUME NEW p \in Seq(STRING), NEW k \in 0 .. Len(p), NEW f, Beginnings(p, f)
  PROVE  Names(SubSeq(p, 1, k)) = f[k]
<1> DEFINE q == SubSeq(p, 1, k)
<1>1. q \in Seq(STRING) /\ Len(q) = k /\ k \in Nat /\ \A i \in 1 .. k : q[i] = p[i]
  OBVIOUS
<1> HIDE DEF q
<1>2. PICK g : Names(q) = g[k] /\ Beginnings(q, g)
  BY <1>1, NamesAre
<1>3. f[0] = g[0]
  BY <1>2 DEF Beginnings
<1> DEFINE T == {i \in 0 .. k : f[i] # g[i]}
<1>4. T \in SUBSET Nat /\ 0 \notin T
  BY <1>1, <1>3
<1>5. ASSUME NEW n \in T, n # 0, n - 1 \notin T PROVE FALSE
  <2>1. n \in 1 .. k /\ n \in 1 .. Len(p) /\ n - 1 \in 0 .. k
    BY <1>1, <1>5
  <2>2. f[n - 1] = g[n - 1] /\ p[n] = q[n]
    BY <1>1, <1>5, <2>1
  <2>3. f[n] = Next1(p[n], f[n - 1]) /\ g[n] = Next1(q[n], g[n - 1])
    BY <1>1, <1>2, <2>1 DEF Beginnings
  <2> QED  BY <1>5, <2>2, <2>3
<1> HIDE DEF T
<1>6. T = {}
  BY <1>4, <1>5, Induction
<1>7. f[k] = g[k]
  BY <1>1, <1>6 DEF T
<1> QED  BY <1>2, <1>7 DEF q

LEMMA LastSlash ==
  ASSUME NEW p \in Seq(STRING), Contains(p, "/")
  PROVE  \E i \in 1 .. Len(p) : /\ p[i] = "/" /\ Up(p) = SubSeq(p, 1, i - 1)
                               /\ \A j \in i + 1 .. Len(p) : p[j] # "/"
<1> DEFINE I == {j \in 1 .. Len(p) : p[j] = "/"}
           T == {n \in Nat : \E j \in I : n = Len(p) - j}
<1>0. Len(p) \in Nat
  OBVIOUS
<1>1. PICK j \in I : TRUE
  BY DEF Contains
<1>2. T \in SUBSET Nat /\ Len(p) - j \in T
  BY <1>0
<1>3. PICK n \in T : \A m \in T : n <= m
  BY <1>2, Least
<1>4. PICK i \in I : n = Len(p) - i
  OBVIOUS
<1>5. \A k \in I : i >= k
  <2>1. SUFFICES ASSUME NEW k \in I PROVE i >= k
    OBVIOUS
  <2>2. Len(p) - k \in T
    BY <1>0
  <2>3. n <= Len(p) - k /\ i \in 1 .. Len(p) /\ k \in 1 .. Len(p)
    BY <1>3, <2>2
  <2> QED  BY <1>0, <1>4, <2>3
<1>6. Max(I) \in I /\ \A k \in I : Max(I) >= k
  BY <1>5 DEF Max
<1>7. SelectLastInSeq(p, LAMBDA x : x = "/") = Max(I)
  BY <1>1 DEF SelectLastInSeq
<1>8. Up(p) = SubSeq(p, 1, Max(I) - 1)
  BY <1>7 DEF Up
<1> DEFINE m == Max(I)
<1>9. m \in 1 .. Len(p) /\ p[m] = "/"
  BY <1>6
<1>10. \A k \in m + 1 .. Len(p) : p[k] # "/"
  <2>1. SUFFICES ASSUME NEW k \in m + 1 .. Len(p), p[k] = "/" PROVE FALSE
    OBVIOUS
  <2>2. k \in I
    BY <1>0, <1>9, <2>1
  <2>3. m >= k
    BY <1>6, <2>2
  <2> HIDE DEF m
  <2> QED  BY <1>9, <2>3
<1> HIDE DEF m, I
<1> QED  BY <1>8, <1>9, <1>10 DEF m

\* The parent of a path is what the path names, or the directory it is in.
LEMMA ParentIs ==
  ASSUME NEW p \in Path
  PROVE  /\ ParentText(p) \in Path
         /\ \/ Names(ParentText(p)) = Names(p)
            \/ Names(p) # <<>> /\ Names(ParentText(p)) = Front(Names(p))
<1>1. p \in Seq(STRING) /\ Names(p) \in Place
      /\ \A i \in 1 .. Len(p) - 1 : p[i] = "/" \/ p[i + 1] = "/"
  BY DEF Path
<1>2. CASE ~Contains(p, "/")
  BY <1>2 DEF ParentText
<1>3. CASE Contains(p, "/")
  <2>1. PICK i \in 1 .. Len(p) : /\ p[i] = "/" /\ Up(p) = SubSeq(p, 1, i - 1)
                                 /\ \A j \in i + 1 .. Len(p) : p[j] # "/"
    BY <1>1, <1>3, LastSlash
  <2>2. ParentText(p) = SubSeq(p, 1, i - 1)
    BY <1>3, <2>1 DEF ParentText
  <2>3. PICK f : Names(p) = f[Len(p)] /\ Beginnings(p, f)
    BY <1>1, NamesAre
  <2>4. i - 1 \in 0 .. Len(p) /\ i \in 0 .. Len(p) /\ Len(p) \in Nat
    BY <1>1
  <2>5. Names(ParentText(p)) = f[i - 1]
    BY <1>1, <2>2, <2>3, <2>4, NamesOfPrefix
  <2>6. f[i] = f[i - 1]
    BY <2>1, <2>3 DEF Beginnings, Next1
  <2>7. Len(p) = i \/ Len(p) = i + 1
    <3>1. SUFFICES ASSUME i + 2 <= Len(p) PROVE FALSE
      BY <2>4
    <3>2. i + 1 \in 1 .. Len(p) - 1 /\ i + 1 \in i + 1 .. Len(p) /\ i + 1 + 1 \in i + 1 .. Len(p)
      BY <2>4, <3>1
    <3> QED  BY <1>1, <2>1, <3>2
  <2>8. ASSUME Len(p) = i
        PROVE  \/ Names(ParentText(p)) = Names(p)
               \/ Names(p) # <<>> /\ Names(ParentText(p)) = Front(Names(p))
    <3>1. Names(ParentText(p)) = Names(p)
      BY <2>3, <2>5, <2>6, <2>8
    <3> QED  BY <1>1, <3>1
  <2>9. ASSUME Len(p) = i + 1
        PROVE  \/ Names(ParentText(p)) = Names(p)
               \/ Names(p) # <<>> /\ Names(ParentText(p)) = Front(Names(p))
    <3>1. Names(p) = Next1(p[i + 1], f[i])
      <4>1. i + 1 \in 1 .. Len(p) /\ i + 1 - 1 = i
        BY <2>4, <2>9
      <4> QED  BY <2>3, <2>9, <4>1 DEF Beginnings
    <3>2. f[i] \in Seq(STRING) /\ p[i + 1] \in STRING
      BY <1>1, <2>3, <2>4, <2>9 DEF Beginnings
    <3>3. \/ Names(p) = f[i]
          \/ Names(p) # <<>> /\ Front(Names(p)) = f[i]
      BY <3>1, <3>2, AppendIs DEF Next1
    <3> QED  BY <2>5, <2>6, <3>3
  <2>10. SubSeq(p, 1, i - 1) \in Seq(STRING) /\ Len(SubSeq(p, 1, i - 1)) = i - 1
         /\ \A k \in 1 .. i - 1 : SubSeq(p, 1, i - 1)[k] = p[k]
    BY <1>1, <2>4
  <2> DEFINE q == SubSeq(p, 1, i - 1)
  <2>11. Names(q) = Names(p) \/ (Names(p) # <<>> /\ Names(q) = Front(Names(p)))
    BY <2>2, <2>7, <2>8, <2>9
  <2>12. Names(q) \in Place
    BY <1>1, <2>11, FileOperateAssumption
  <2>13. \A k \in 1 .. Len(q) - 1 : q[k] = "/" \/ q[k + 1] = "/"
    <3>1. SUFFICES ASSUME NEW k \in 1 .. i - 1 - 1 PROVE q[k] = "/" \/ q[k + 1] = "/"
      BY <2>10
    <3>2. k \in 1 .. Len(p) - 1 /\ k \in 1 .. i - 1 /\ k + 1 \in 1 .. i - 1
      BY <2>4
    <3> HIDE DEF q
    <3>3. q[k] = p[k] /\ q[k + 1] = p[k + 1]
      BY <2>10, <3>2 DEF q
    <3> QED  BY <1>1, <3>2, <3>3
  <2> HIDE DEF q
  <2>14. q \in Seq(STRING)
    BY <2>10 DEF q
  <2>15. q \in Path
    BY <2>12, <2>13, <2>14 DEF Path
  <2> QED  BY <2>2, <2>11, <2>15 DEF q
<1> QED  BY <1>2, <1>3

(***************************************************************************)
(* The invariant.  A tree keeps what it has; what a thread knows of it     *)
(* from before, the paths of MkdirsByPath, the open file, the directories  *)
(* being read, therefore stays true whatever the others do.                *)
(***************************************************************************)
Tree == {a \in [Place -> Node] :
  a[<<>>].kind = "dir" /\ \A p \in Place \ {<<>>} : a[p].kind # "none" => a[Front(p)].kind = "dir"}

Grown(a, b) == \A p \in Place : a[p].kind # "none" => b[p].kind = a[p].kind

StepsOf == [mkdirs |-> {"access", "mkdir", "overflow"}, create |-> {"stat", "create"},
            write |-> {"openw", "write"}, read |-> {"openr", "read"},
            search |-> {"opendir", "search"}, list |-> {"opendir", "list"}]

Shapes ==
  /\ tree \in Tree /\ since \in [Thread -> Tree]
  /\ pc \in [Thread -> Step] /\ req \in [Thread -> Request]
  /\ stack = [t \in Thread |-> stack[t]] /\ buf \in [Thread -> Seq(STRING)]
  /\ fds \in [Thread -> Nat] /\ ret \in [Thread -> [code : Int, out : Seq(STRING)]]
  /\ calls \in 0 .. MaxCalls /\ alone \in [Thread -> BOOLEAN]
  /\ \A t \in Thread : pc[t] \in StepsOf[req[t].op] \cup {"idle", "returned"}

\* A scan has one handle for each directory on its stack.
Handles(t) ==
  IF pc[t] \in {"search", "list"} THEN fds[t] = Len(stack[t])
  ELSE fds[t] = 0 \/ (pc[t] = "returned" /\ ret[t].code = Throws)

\* The frames of MkdirsByPath, from the path of the call upward, and the frame whose
\* mkdir is next: the one above it has made, or found, its directory.
Ready(t) == tree[Front(Names(stack[t][1]))].kind # "none"

Making(t) ==
  req[t].op = "mkdirs" /\ pc[t] # "idle" =>
    /\ stack[t] \in Seq(Path) /\ Len(stack[t]) \in 1 .. MaxDepth
    /\ stack[t][Len(stack[t])] = req[t].path
    /\ \A i \in 1 .. Len(stack[t]) - 1 : stack[t][i] = ParentText(stack[t][i + 1])
    /\ pc[t] = "mkdir" => Ready(t)
    /\ pc[t] = "returned" /\ ret[t].code = 0 => tree[Target(t)].kind # "none"

\* The file that a call has open, and what the call, when alone, has done to it.
Using(t) ==
  LET file == tree[Target(t)]
      done == Len(req[t].text) - Len(buf[t]) IN
  /\ pc[t] = "create" => req[t].path = <<>> \/ since[t][Target(t)].kind = "none"
  /\ pc[t] = "write" =>
       /\ file.kind = "reg"
       /\ done >= 0 /\ buf[t] = SubSeq(req[t].text, done + 1, Len(req[t].text))
       /\ alone[t] => file.text = SubSeq(req[t].text, 1, done)
  /\ pc[t] = "read" => file.kind # "none"
  /\ pc[t] = "read" /\ file.kind = "reg" /\ alone[t] =>
       IF req[t].json THEN Begins(buf[t], file.text) ELSE Len(buf[t]) = Len(file.text)

\* While two calls are under way, neither writes the file of one that is alone with it.
Apart ==
  \A t, u \in Thread : t # u /\ alone[t] /\ Active(t) /\ Active(u) => ~Clash(req[u], req[t])

(***************************************************************************)
(* A scan.  h directories below the target lies an open one that can be    *)
(* opened, as can all that lead to it.  Whatever matched when the call     *)
(* began is in one of them under an entry that is still to come.           *)
(***************************************************************************)
OpenAt(t, f, h) ==
  /\ f.at \in Place /\ tree[f.at].kind = "dir"
  /\ Len(f.at) = Len(Target(t)) + h /\ f.depth = req[t].depth - h /\ f.depth >= 1
  /\ IsPrefix(Target(t), f.at)
  /\ \A k \in Len(Target(t)) .. Len(f.at) : SubSeq(f.at, 1, k) \notin Denied
  /\ f.saw \subseteq Below(f.at)

Folder == [at : Place, saw : SUBSET STRING, seen : SUBSET (STRING \cup Dots), depth : Int]

Under(f, q) ==
  IsPrefix(f.at, q) /\ Len(q) > Len(f.at) /\ q[Len(f.at) + 1] \in f.saw \ f.seen

Matches(t, at, q) == Reachable(at, Target(t), req[t].depth, q) /\ Last(q) \in req[t].hits

Listed(t, q, out) ==
  Contains(out, Last(q)) <=>
    Last(q) \in req[t].hits /\ (since[t][q].kind = "dir" <=> req[t].type = "dir")

Asked(t, q) ==
  Front(q) = Target(t) /\ Front(q) \notin Denied /\ since[t][q].kind \in {"dir", "reg"}

Scanning(t) ==
  LET s == stack[t] IN
  /\ pc[t] = "opendir" => buf[t] = <<>>
  /\ pc[t] \in {"search", "list"} =>
       /\ s \in Seq(Folder) /\ s # <<>>
       /\ \A i \in 1 .. Len(s) : OpenAt(t, s[i], Len(s) - i)
  /\ pc[t] = "search" =>
       \A q \in Place \ {<<>>} : Matches(t, since[t], q) => \E i \in 1 .. Len(s) : Under(s[i], q)
  /\ pc[t] = "list" =>
       \A q \in Place \ {<<>>} : Asked(t, q) =>
         /\ Last(q) \in s[1].saw
         /\ IF Last(q) \in s[1].seen THEN Listed(t, q, buf[t]) ELSE ~Contains(buf[t], Last(q))

Told(t) ==
  /\ Returned(t, "search") =>
       /\ ret[t].code = True => ret[t].out \in Place \ {<<>>} /\ Matches(t, tree, ret[t].out)
       /\ ret[t].code = False => \A q \in Place \ {<<>>} : ~Matches(t, since[t], q)
  /\ Returned(t, "list") /\ ret[t].code = False =>
       \A q \in Place \ {<<>>} : Asked(t, q) => Listed(t, q, ret[t].out)

Own(t) ==
  /\ Grown(since[t], tree) /\ Handles(t) /\ Making(t) /\ Using(t) /\ Scanning(t) /\ Told(t)
  /\ pc[t] = "idle" => stack[t] = <<>>

Inv == Shapes /\ Apart /\ \A t \in Thread : Own(t)

(***************************************************************************)
(* Trees.                                                                  *)
(***************************************************************************)
LEMMA PlaceIs ==
  ASSUME NEW p \in Place
  PROVE  /\ p \in Seq(STRING) /\ Front(p) \in Place
         /\ p # <<>> => Front(p) # p /\ p = Append(Front(p), Last(p)) /\ Last(p) \in STRING
                       /\ Len(Front(p)) = Len(p) - 1 /\ Last(p) \notin {".", "..", "/"}
<1>1. CASE p = <<>>
  <2>1. Front(p) = <<>>
    BY <1>1 DEF Front
  <2>2. <<>> \in Seq(STRING)
    OBVIOUS
  <2> QED  BY <1>1, <2>1, <2>2
<1>2. CASE p # <<>>
  <2>1. p \in Seq(STRING) /\ Front(p) \in Place /\ Last(p) \notin {".", "..", "/"}
    BY <1>2, FileOperateAssumption
  <2>2. /\ p = Append(Front(p), Last(p)) /\ Len(Front(p)) = Len(p) - 1 /\ Last(p) \in STRING
        /\ Len(p) \in Nat \ {0}
    BY <1>2, <2>1, FrontAndLast
  <2>3. Front(p) # p
    BY <2>2
  <2> QED  BY <2>1, <2>2, <2>3
<1> QED  BY <1>1, <1>2

LEMMA GrownMore ==
  ASSUME NEW a, NEW b, NEW c, Grown(a, b), Grown(b, c)
  PROVE  Grown(a, c)
BY DEF Grown

LEMMA NodeChanges ==
  ASSUME NEW a \in Tree, NEW n \in Place, NEW node \in Node, node.kind = a[n].kind
  PROVE  [a EXCEPT ![n] = node] \in Tree /\ Grown(a, [a EXCEPT ![n] = node])
<1> DEFINE b == [a EXCEPT ![n] = node]
<1>1. b \in [Place -> Node] /\ \A p \in Place : b[p].kind = a[p].kind
  BY DEF Tree
<1> HIDE DEF b
<1>2. Grown(a, b)
  BY <1>1 DEF Grown
<1>3. b \in Tree
  BY <1>1, FileOperateAssumption DEF Tree
<1> QED  BY <1>2, <1>3 DEF b

LEMMA NodeAppears ==
  ASSUME NEW a \in Tree, NEW n \in Place, a[n].kind = "none", a[Front(n)].kind = "dir",
         NEW node \in Node, node.kind # "none"
  PROVE  [a EXCEPT ![n] = node] \in Tree /\ Grown(a, [a EXCEPT ![n] = node])
<1> DEFINE b == [a EXCEPT ![n] = node]
<1>1. b \in [Place -> Node] /\ b[n] = node /\ \A p \in Place : p # n => b[p] = a[p]
  BY DEF Tree
<1> HIDE DEF b
<1>2. Grown(a, b)
  BY <1>1 DEF Grown
<1>3. n # <<>> /\ Front(n) # n /\ Front(n) \in Place
  BY PlaceIs DEF Tree
<1>4. b[<<>>].kind = "dir"
  BY <1>1, <1>3, FileOperateAssumption DEF Tree
<1>5. \A p \in Place \ {<<>>} : b[p].kind # "none" => b[Front(p)].kind = "dir"
  <2>1. SUFFICES ASSUME NEW p \in Place \ {<<>>}, b[p].kind # "none" PROVE b[Front(p)].kind = "dir"
    OBVIOUS
  <2>2. CASE p = n
    BY <1>1, <1>3, <2>2
  <2>3. CASE p # n
    <3>1. a[Front(p)].kind = "dir" /\ Front(p) \in Place
      BY <1>1, <2>1, <2>3, PlaceIs DEF Tree
    <3> QED  BY <1>1, <3>1
  <2> QED  BY <2>2, <2>3
<1> QED  BY <1>1, <1>2, <1>4, <1>5 DEF Tree, b

(***************************************************************************)
(* What a thread knows stays true when another one steps: the tree grows,  *)
(* and the file of a call that is alone with it keeps its text.            *)
(***************************************************************************)
Same(u) ==
  /\ pc'[u] = pc[u] /\ req'[u] = req[u] /\ stack'[u] = stack[u] /\ buf'[u] = buf[u]
  /\ fds'[u] = fds[u] /\ ret'[u] = ret[u] /\ since'[u] = since[u]
  /\ alone'[u] => alone[u]

Kept(u) ==
  alone[u] /\ Active(u) /\ tree[Target(u)].kind = "reg" => tree'[Target(u)].text = tree[Target(u)].text

LEMMA TargetIs ==
  ASSUME Shapes, NEW t \in Thread
  PROVE  Target(t) \in Place /\ req[t].path \in Path /\ req[t] \in Request
BY RequestAssumption DEF Shapes, Target, Path

LEMMA OthersKeep ==
  ASSUME Shapes, NEW u \in Thread, Own(u), Same(u), Kept(u), Grown(tree, tree')
  PROVE  Own(u)'
<1>1. Grown(since[u], tree)' /\ Target(u)' = Target(u) /\ Target(u) \in Place
  BY GrownMore, TargetIs DEF Own, Same, Target, Grown
<1>2. Handles(u)'
  BY DEF Own, Same, Handles
<1>3. Making(u)'
  <2>1. SUFFICES ASSUME req[u].op = "mkdirs", pc[u] # "idle"
                 PROVE  /\ pc[u] = "mkdir" => Ready(u)'
                        /\ pc[u] = "returned" /\ ret[u].code = 0 => tree'[Target(u)].kind # "none"
    BY <1>1 DEF Own, Same, Making
  <2>2. ASSUME pc[u] = "mkdir" PROVE Ready(u)'
    <3>1. stack[u] \in Seq(Path) /\ Len(stack[u]) >= 1 /\ Ready(u)
      BY <2>1, <2>2, FileOperateAssumption DEF Own, Making
    <3>2. Front(Names(stack[u][1])) \in Place
      BY <3>1, PlaceIs DEF Path
    <3> QED  BY <3>1, <3>2 DEF Ready, Same, Grown
  <2> QED  BY <1>1, <2>1, <2>2 DEF Own, Making, Grown
<1>4. Using(u)'
  <2>1. /\ pc[u] = "write" => tree'[Target(u)].kind = "reg"
        /\ pc[u] = "read" => tree[Target(u)].kind # "none" /\ tree'[Target(u)].kind = tree[Target(u)].kind
    BY <1>1 DEF Own, Using, Grown
  <2>2. pc[u] \in {"write", "read"} /\ alone[u] /\ tree[Target(u)].kind = "reg" =>
          tree'[Target(u)].text = tree[Target(u)].text
    BY DEF Own, Using, Kept, Active
  <2> QED  BY <1>1, <2>1, <2>2 DEF Own, Using, Same
<1>5. Scanning(u)'
  <2>1. ASSUME NEW f \in Folder, NEW h, OpenAt(u, f, h) PROVE OpenAt(u, f, h)'
    <3>1. Below(f.at) \subseteq Below(f.at)'
      BY DEF Below, Grown
    <3> QED  BY <1>1, <2>1, <3>1 DEF OpenAt, Same, Grown
  <2>2. ASSUME pc[u] \in {"search", "list"}, NEW i \in 1 .. Len(stack[u])
        PROVE  OpenAt(u, stack[u][i], Len(stack[u]) - i)'
    <3>1. stack[u] \in Seq(Folder) /\ OpenAt(u, stack[u][i], Len(stack[u]) - i)
      BY <2>2 DEF Own, Scanning
    <3>2. stack[u][i] \in Folder
      BY <3>1
    <3>3. ASSUME NEW f, f = stack[u][i], NEW h, h = Len(stack[u]) - i PROVE OpenAt(u, f, h)'
      BY <2>1, <3>1, <3>2, <3>3
    <3> QED  BY <3>3 DEF Same, OpenAt
  <2> QED  BY <1>1, <2>2 DEF Own, Scanning, Same, Matches, Asked, Listed
<1>6. Told(u)'
  <2>1. \A q \in Place : Matches(u, tree, q) => Matches(u, tree, q)'
    BY <1>1 DEF Matches, Reachable, IsFile, Same, Grown
  <2>2. Returned(u, "search")' = Returned(u, "search") /\ Returned(u, "list")' = Returned(u, "list")
    BY DEF Same, Returned
  <2>3. \A q : Matches(u, since[u], q)' = Matches(u, since[u], q) /\ Asked(u, q)' = Asked(u, q)
               /\ Listed(u, q, ret[u].out)' = Listed(u, q, ret[u].out)
    BY <1>1 DEF Same, Matches, Asked, Listed
  <2> QED  BY <2>1, <2>2, <2>3 DEF Own, Told, Same
<1>7. pc'[u] = "idle" => stack'[u] = <<>>
  BY DEF Own, Same
<1> QED  BY <1>1, <1>2, <1>3, <1>4, <1>5, <1>6, <1>7 DEF Own

(***************************************************************************)
(* One step of a call that is under way.                                   *)
(***************************************************************************)
Steps(t) ==
  /\ pc' \in [Thread -> Step] /\ pc'[t] \in StepsOf[req[t].op] \cup {"returned"}
  /\ stack' = [stack EXCEPT ![t] = stack'[t]]
  /\ buf' \in [Thread -> Seq(STRING)] /\ fds' \in [Thread -> Nat]
  /\ ret' \in [Thread -> [code : Int, out : Seq(STRING)]]
  /\ \A u \in Thread \ {t} : pc'[u] = pc[u] /\ buf'[u] = buf[u] /\ fds'[u] = fds[u] /\ ret'[u] = ret[u]
  /\ UNCHANGED <<req, calls, since, alone>>

LEMMA OneSteps ==
  ASSUME Inv, NEW t \in Thread, Active(t), Steps(t), tree' \in Tree, Grown(tree, tree'),
         \A u \in Thread \ {t} : Kept(u),
         Handles(t)', Making(t)', Using(t)', Scanning(t)', Told(t)'
  PROVE  Inv'
<1>1. stack = [u \in Thread |-> stack[u]]
  BY DEF Inv, Shapes
<1>2. stack' = [u \in Thread |-> stack'[u]] /\ \A u \in Thread \ {t} : stack'[u] = stack[u]
  BY <1>1 DEF Steps
<1>3. Shapes'
  BY <1>2 DEF Inv, Shapes, Steps
<1>4. \A u \in Thread \ {t} : Own(u)'
  <2>1. SUFFICES ASSUME NEW u \in Thread \ {t} PROVE Own(u)'
    OBVIOUS
  <2>2. Same(u)
    BY <1>2 DEF Steps, Same
  <2>3. Shapes /\ Own(u) /\ Kept(u)
    BY DEF Inv
  <2> QED  BY <2>2, <2>3, OthersKeep
<1>5. Own(t)'
  <2>1. Grown(since[t], tree)'
    BY GrownMore DEF Inv, Own, Steps, Grown
  <2>2. pc'[t] # "idle"
    <3>1. req[t].op \in {"mkdirs", "create", "write", "read", "search", "list"}
      BY RequestAssumption DEF Inv, Shapes
    <3>2. pc'[t] \in StepsOf[req[t].op] \cup {"returned"}
      BY DEF Steps
    <3> QED  BY <3>1, <3>2 DEF StepsOf
  <2> QED  BY <2>1, <2>2 DEF Own
<1>6. Apart'
  <2>1. SUFFICES ASSUME NEW u \in Thread, NEW v \in Thread, u # v, alone[u], Active(u)', Active(v)'
                 PROVE  ~Clash(req[v], req[u])
    BY DEF Apart, Steps, Clash
  <2>2. Active(u) /\ Active(v)
    BY <2>1 DEF Steps, Active
  <2> QED  BY <2>1, <2>2 DEF Inv, Apart
<1> QED  BY <1>3, <1>4, <1>5, <1>6 DEF Inv

\* The operation of the call that a thread is in, from the step it takes next.
LEMMA OpIs ==
  ASSUME Shapes, NEW t \in Thread
  PROVE  /\ pc[t] \in {"access", "mkdir", "overflow"} => req[t].op = "mkdirs"
         /\ pc[t] \in {"stat", "create"} => req[t].op = "create"
         /\ pc[t] \in {"openw", "write"} => req[t].op = "write"
         /\ pc[t] \in {"openr", "read"} => req[t].op = "read"
         /\ pc[t] = "opendir" => req[t].op \in {"search", "list"}
         /\ pc[t] = "search" => req[t].op = "search"
         /\ pc[t] = "list" => req[t].op = "list"
<1>1. req[t] \in Request /\ pc[t] \in StepsOf[req[t].op] \cup {"idle", "returned"}
  BY DEF Shapes
<1>2. req[t].op \in {"mkdirs", "create", "write", "read", "search", "list"}
  BY <1>1, RequestAssumption
<1> QED  BY <1>1, <1>2 DEF StepsOf

\* Only the call of t has changed.
Only(t) ==
  /\ stack' = [stack EXCEPT ![t] = stack'[t]] /\ fds' = [fds EXCEPT ![t] = fds'[t]] /\ fds'[t] \in Nat
  /\ buf' = [buf EXCEPT ![t] = buf'[t]] /\ buf'[t] \in Seq(STRING)

LEMMA GotoSteps ==
  ASSUME Shapes, NEW t \in Thread, NEW l \in Step, l \in StepsOf[req[t].op], Goto(t, l), Only(t)
  PROVE  Steps(t) /\ pc'[t] = l /\ ret'[t] = ret[t]
BY DEF Shapes, Goto, Only, Steps, ghost

LEMMA ReturnSteps ==
  ASSUME Shapes, NEW t \in Thread, NEW code \in Int, NEW out \in Seq(STRING), Return(t, code, out),
         Only(t)
  PROVE  Steps(t) /\ pc'[t] = "returned" /\ ret'[t] = [code |-> code, out |-> out]
BY DEF Shapes, Return, Only, Steps, ghost, Step

\* What an action writes to the variables of its call.
LEMMA Writing ==
  ASSUME Shapes, NEW t \in Thread
  PROVE  /\ UNCHANGED stack => /\ stack'[t] = stack[t] /\ stack' = [stack EXCEPT ![t] = stack'[t]]
         /\ UNCHANGED buf => /\ buf'[t] = buf[t] /\ buf' = [buf EXCEPT ![t] = buf'[t]]
                             /\ buf'[t] \in Seq(STRING)
         /\ UNCHANGED fds => /\ fds'[t] = fds[t] /\ fds' = [fds EXCEPT ![t] = fds'[t]]
                             /\ fds'[t] \in Nat
         /\ \A s : stack' = [stack EXCEPT ![t] = s] =>
              stack'[t] = s /\ stack' = [stack EXCEPT ![t] = stack'[t]]
         /\ \A s : buf' = [buf EXCEPT ![t] = s] =>
              buf'[t] = s /\ buf' = [buf EXCEPT ![t] = buf'[t]]
         /\ \A h : fds' = [fds EXCEPT ![t] = h] =>
              fds'[t] = h /\ fds' = [fds EXCEPT ![t] = fds'[t]]
<1>1. stack = [u \in Thread |-> stack[u]]
  BY DEF Shapes
<1>2. [stack EXCEPT ![t] = stack[t]] = [u \in Thread |-> stack[u]]
  BY <1>1
<1>3. UNCHANGED stack => /\ stack'[t] = stack[t] /\ stack' = [stack EXCEPT ![t] = stack'[t]]
  BY <1>1, <1>2
<1>4. ASSUME NEW s, stack' = [stack EXCEPT ![t] = s]
      PROVE  stack'[t] = s /\ stack' = [stack EXCEPT ![t] = stack'[t]]
  <2>1. t \in DOMAIN stack
    BY <1>1
  <2>2. stack'[t] = s
    BY <1>4, <2>1
  <2> QED  BY <1>4, <2>2
<1>5. /\ UNCHANGED buf => /\ buf'[t] = buf[t] /\ buf' = [buf EXCEPT ![t] = buf'[t]]
                          /\ buf'[t] \in Seq(STRING)
      /\ UNCHANGED fds => /\ fds'[t] = fds[t] /\ fds' = [fds EXCEPT ![t] = fds'[t]]
                          /\ fds'[t] \in Nat
  BY DEF Shapes
<1>6. ASSUME NEW s, buf' = [buf EXCEPT ![t] = s]
      PROVE  buf'[t] = s /\ buf' = [buf EXCEPT ![t] = buf'[t]]
  BY <1>6 DEF Shapes
<1>7. ASSUME NEW h, fds' = [fds EXCEPT ![t] = h]
      PROVE  fds'[t] = h /\ fds' = [fds EXCEPT ![t] = fds'[t]]
  BY <1>7 DEF Shapes
<1> QED  BY <1>3, <1>4, <1>5, <1>6, <1>7

\* The same when buf and fds, or everything but ret, stay as they are.
LEMMA StaysGoto ==
  ASSUME Shapes, NEW t \in Thread, NEW l \in Step, l \in StepsOf[req[t].op], Goto(t, l),
         stack' = [stack EXCEPT ![t] = stack'[t]], UNCHANGED <<buf, fds>>
  PROVE  Steps(t) /\ pc'[t] = l /\ buf'[t] = buf[t] /\ fds'[t] = fds[t]
<1>1. Only(t) /\ buf'[t] = buf[t] /\ fds'[t] = fds[t]
  BY Writing DEF Only
<1> QED  BY <1>1, GotoSteps

LEMMA StaysReturn ==
  ASSUME Shapes, NEW t \in Thread, NEW code \in Int, NEW out \in Seq(STRING), Return(t, code, out),
         UNCHANGED local
  PROVE  /\ Steps(t) /\ pc'[t] = "returned" /\ stack'[t] = stack[t] /\ buf'[t] = buf[t]
         /\ fds'[t] = fds[t] /\ ret'[t] = [code |-> code, out |-> out]
<1>1. UNCHANGED <<stack, buf, fds>>
  BY DEF local
<1>2. Only(t) /\ stack'[t] = stack[t] /\ buf'[t] = buf[t] /\ fds'[t] = fds[t]
  BY <1>1, Writing DEF Only
<1> QED  BY <1>2, ReturnSteps

LEMMA TreeStays ==
  ASSUME Shapes, UNCHANGED tree
  PROVE  tree' \in Tree /\ Grown(tree, tree') /\ \A u \in Thread : Kept(u)
BY DEF Shapes, Grown, Kept

(***************************************************************************)
(* MkdirsByPath.                                                           *)
(***************************************************************************)
LEMMA MakingOnly ==
  ASSUME NEW t \in Thread, Steps(t), req[t].op = "mkdirs",
         pc'[t] \in {"access", "mkdir", "overflow", "returned"}, fds'[t] = 0
  PROVE  Handles(t)' /\ Using(t)' /\ Scanning(t)' /\ Told(t)'
BY DEF Steps, Handles, Using, Scanning, Told, Returned

LEMMA MakingIs ==
  ASSUME Inv, NEW t \in Thread, pc[t] \in {"access", "mkdir"}
  PROVE  /\ Shapes /\ Active(t) /\ req[t].op = "mkdirs" /\ fds[t] = 0
         /\ stack[t] \in Seq(Path) /\ Len(stack[t]) \in 1 .. MaxDepth
         /\ stack[t][Len(stack[t])] = req[t].path /\ stack[t][1] \in Path
         /\ \A i \in 1 .. Len(stack[t]) - 1 : stack[t][i] = ParentText(stack[t][i + 1])
         /\ pc[t] = "mkdir" => Ready(t)
         /\ Head(stack[t]) = stack[t][1] /\ Names(stack[t][1]) \in Place
<1>1. Shapes /\ Own(t)
  BY DEF Inv
<1>2. req[t].op = "mkdirs"
  BY <1>1, OpIs
<1>3. /\ stack[t] \in Seq(Path) /\ Len(stack[t]) \in 1 .. MaxDepth
      /\ stack[t][Len(stack[t])] = req[t].path
      /\ \A i \in 1 .. Len(stack[t]) - 1 : stack[t][i] = ParentText(stack[t][i + 1])
      /\ pc[t] = "mkdir" => Ready(t)
  BY <1>1, <1>2 DEF Own, Making
<1>4. stack[t][1] \in Path /\ Head(stack[t]) = stack[t][1]
  BY <1>3, FileOperateAssumption
<1>5. fds[t] = 0 /\ Active(t)
  BY <1>1 DEF Own, Handles, Active
<1> QED  BY <1>1, <1>2, <1>3, <1>4, <1>5 DEF Path

\* The frame below one whose directory is there has a parent to make its own in.
LEMMA NextFrame ==
  ASSUME Inv, NEW t \in Thread, pc[t] \in {"access", "mkdir"}, Len(stack[t]) # 1,
         tree' \in Tree, tree'[Names(stack[t][1])].kind # "none"
  PROVE  tree'[Front(Names(Tail(stack[t])[1]))].kind # "none"
<1>1. /\ stack[t] \in Seq(Path) /\ Len(stack[t]) \in Nat /\ Len(stack[t]) >= 2
      /\ \A i \in 1 .. Len(stack[t]) - 1 : stack[t][i] = ParentText(stack[t][i + 1])
  <2>1. Len(stack[t]) \in 1 .. MaxDepth /\ MaxDepth \in Nat
    BY MakingIs, FileOperateAssumption
  <2>2. stack[t] \in Seq(Path) /\ \A i \in 1 .. Len(stack[t]) - 1 : stack[t][i] = ParentText(stack[t][i + 1])
    BY MakingIs
  <2> DEFINE m == Len(stack[t])
  <2>3. m \in Nat /\ m >= 2
    <3>1. m \in 1 .. MaxDepth /\ m # 1 /\ MaxDepth \in Nat
      BY <2>1
    <3> HIDE DEF m
    <3> QED  BY <3>1
  <2> QED  BY <2>2, <2>3
<1> DEFINE p == stack[t][1]
           q == stack[t][2]
<1>2. p \in Path /\ q \in Path /\ p = ParentText(q) /\ Tail(stack[t])[1] = q
  BY <1>1
<1> HIDE DEF p, q
<1>3. Names(p) = Names(q) \/ Names(p) = Front(Names(q))
  BY <1>2, ParentIs
<1>4. Names(q) \in Place
  BY <1>2 DEF Path
<1>5. tree'[Names(p)].kind # "none"
  BY DEF p
<1>6. CASE Names(p) = Front(Names(q))
  BY <1>2, <1>5, <1>6
<1>7. CASE Names(p) = Names(q)
  <2>1. CASE Names(q) = <<>>
    <3>1. Front(Names(q)) = <<>>
      BY <2>1 DEF Front
    <3> QED  BY <1>2, <1>5, <1>7, <2>1, <3>1
  <2>2. CASE Names(q) # <<>>
    <3>1. tree'[Front(Names(q))].kind = "dir"
      BY <1>4, <1>5, <1>7, <2>2 DEF Tree
    <3> QED  BY <1>2, <3>1
  <2> QED  BY <2>1, <2>2
<1> QED  BY <1>3, <1>6, <1>7

LEMMA FrameReturns0Step ==
  ASSUME Inv, NEW t \in Thread, pc[t] \in {"access", "mkdir"}, FrameReturns0(t), UNCHANGED <<buf, fds>>,
         tree' \in Tree, Grown(tree, tree'), \A u \in Thread \ {t} : Kept(u),
         tree'[Names(stack[t][1])].kind # "none"
  PROVE  Inv'
<1>1. /\ Shapes /\ Active(t) /\ req[t].op = "mkdirs" /\ fds[t] = 0
      /\ stack[t] \in Seq(Path) /\ Len(stack[t]) \in 1 .. MaxDepth
      /\ stack[t][Len(stack[t])] = req[t].path
      /\ \A i \in 1 .. Len(stack[t]) - 1 : stack[t][i] = ParentText(stack[t][i + 1])
  BY MakingIs
<1>2. MaxDepth \in Nat
  BY FileOperateAssumption
<1>3. CASE Len(stack[t]) = 1
  <2>1. Return(t, 0, <<>>) /\ UNCHANGED stack
    BY <1>3 DEF FrameReturns0
  <2>2. Steps(t) /\ pc'[t] = "returned" /\ stack'[t] = stack[t] /\ fds'[t] = 0
    <3>1. UNCHANGED local /\ 0 \in Int /\ <<>> \in Seq(STRING)
      BY <2>1 DEF local
    <3> QED  BY <1>1, <2>1, <3>1, StaysReturn
  <2>3. Handles(t)' /\ Using(t)' /\ Scanning(t)' /\ Told(t)'
    BY <1>1, <2>2, MakingOnly
  <2>4. Target(t)' = Names(stack[t][1]) /\ req'[t] = req[t]
    BY <1>1, <1>3, <2>2 DEF Target, Steps
  <2>5. Making(t)'
    BY <1>1, <2>2, <2>4 DEF Making
  <2> QED  BY <1>1, <2>2, <2>3, <2>5, OneSteps
<1>4. CASE Len(stack[t]) # 1
  <2>1. Goto(t, "mkdir") /\ stack' = [stack EXCEPT ![t] = Tail(stack[t])]
    BY <1>4 DEF FrameReturns0
  <2>2. "mkdir" \in Step /\ "mkdir" \in StepsOf[req[t].op]
    BY <1>1 DEF Step, StepsOf
  <2>3. Steps(t) /\ pc'[t] = "mkdir" /\ stack'[t] = Tail(stack[t]) /\ fds'[t] = 0
    <3>1. stack'[t] = Tail(stack[t]) /\ stack' = [stack EXCEPT ![t] = stack'[t]]
      BY <1>1, <2>1, Writing
    <3> QED  BY <1>1, <2>1, <2>2, <3>1, StaysGoto
  <2>4. Handles(t)' /\ Using(t)' /\ Scanning(t)' /\ Told(t)'
    BY <1>1, <2>3, MakingOnly
  <2>5. tree'[Front(Names(stack'[t][1]))].kind # "none"
    BY <1>4, <2>3, NextFrame
  <2> DEFINE s == Tail(stack[t])
  <2>6. /\ s \in Seq(Path) /\ Len(s) \in 1 .. MaxDepth /\ s[Len(s)] = req[t].path
        /\ \A i \in 1 .. Len(s) - 1 : s[i] = ParentText(s[i + 1])
    <3>1. s \in Seq(Path) /\ Len(s) = Len(stack[t]) - 1 /\ Len(stack[t]) \in 2 .. MaxDepth
          /\ \A i \in 1 .. Len(s) : s[i] = stack[t][i + 1]
      <4> DEFINE m == Len(stack[t])
      <4>1. m \in 2 .. MaxDepth
        <5>1. m \in 1 .. MaxDepth /\ m # 1
          BY <1>1, <1>4
        <5> HIDE DEF m
        <5> QED  BY <5>1, <1>2
      <4>2. stack[t] # <<>>
        BY <4>1
      <4>3. s \in Seq(Path) /\ Len(s) = Len(stack[t]) - 1
        BY <1>1, <4>2
      <4>4. \A i \in 1 .. Len(s) : s[i] = stack[t][i + 1]
        BY <1>1, <4>2
      <4> QED  BY <4>1, <4>3, <4>4
    <3> HIDE DEF s
    <3>2. \A i \in 1 .. Len(s) - 1 : i \in 1 .. Len(s) /\ i + 1 \in 1 .. Len(s) /\ i + 1 \in 1 .. Len(stack[t]) - 1
      BY <1>2, <3>1
    <3>3. \A i \in 1 .. Len(s) - 1 : s[i] = stack[t][i + 1] /\ s[i + 1] = stack[t][i + 1 + 1]
      BY <3>1, <3>2
    <3>4. s[Len(s)] = req[t].path /\ Len(s) \in 1 .. MaxDepth
      <4>1. Len(s) \in 1 .. Len(s) /\ Len(s) + 1 = Len(stack[t])
        BY <1>2, <3>1
      <4>2. s[Len(s)] = stack[t][Len(s) + 1] /\ Len(s) \in 1 .. MaxDepth
        BY <1>2, <3>1, <4>1
      <4> QED  BY <1>1, <4>1, <4>2
    <3> QED  BY <1>1, <3>1, <3>2, <3>3, <3>4
  <2> HIDE DEF s
  <2>7. Making(t)'
    BY <2>3, <2>5, <2>6 DEF Making, Ready, Steps, s
  <2> QED  BY <1>1, <2>3, <2>4, <2>7, OneSteps
<1> QED  BY <1>3, <1>4

LEMMA AccessStep ==
  ASSUME Inv, NEW t \in Thread, Access(t)
  PROVE  Inv'
<1> DEFINE p == Head(stack[t])
<1>1. pc[t] = "access" /\ UNCHANGED <<tree, buf, fds>>
  BY DEF Access, At
<1>2. /\ Shapes /\ Active(t) /\ req[t].op = "mkdirs" /\ fds[t] = 0
      /\ stack[t] \in Seq(Path) /\ Len(stack[t]) \in 1 .. MaxDepth /\ stack[t][1] \in Path
      /\ stack[t][Len(stack[t])] = req[t].path /\ p = stack[t][1]
      /\ \A i \in 1 .. Len(stack[t]) - 1 : stack[t][i] = ParentText(stack[t][i + 1])
  BY <1>1, MakingIs
<1>3. tree' \in Tree /\ Grown(tree, tree') /\ \A u \in Thread : Kept(u)
  BY <1>1, <1>2, TreeStays
<1> HIDE DEF p
<1>4. CASE Exists(p) /\ FrameReturns0(t)
  <2>1. tree'[Names(stack[t][1])].kind # "none"
    BY <1>1, <1>2, <1>4 DEF Exists
  <2> QED  BY <1>1, <1>3, <1>4, <2>1, FrameReturns0Step
<1>5. CASE /\ Len(stack[t]) < MaxDepth
           /\ Goto(t, "access") /\ stack' = [stack EXCEPT ![t] = <<ParentText(p)>> \o stack[t]]
  <2>1. "access" \in Step /\ "access" \in StepsOf[req[t].op]
    BY <1>2 DEF Step, StepsOf
  <2>2. Steps(t) /\ pc'[t] = "access" /\ stack'[t] = <<ParentText(p)>> \o stack[t] /\ fds'[t] = 0
    <3>1. stack'[t] = <<ParentText(p)>> \o stack[t] /\ stack' = [stack EXCEPT ![t] = stack'[t]]
      BY <1>2, <1>5, Writing
    <3> QED  BY <1>1, <1>2, <1>5, <2>1, <3>1, StaysGoto
  <2>3. Handles(t)' /\ Using(t)' /\ Scanning(t)' /\ Told(t)'
    BY <1>2, <2>2, MakingOnly
  <2> DEFINE above == ParentText(p)
             s == <<above>> \o stack[t]
  <2>4. above \in Path
    BY <1>2, ParentIs
  <2>5. above = ParentText(stack[t][1]) /\ MaxDepth \in Nat
    BY <1>2, FileOperateAssumption
  <2> HIDE DEF above
  <2>6. /\ s \in Seq(Path) /\ Len(s) = Len(stack[t]) + 1 /\ s[1] = above
        /\ \A i \in 2 .. Len(s) : s[i] = stack[t][i - 1]
    BY <1>2, <2>4
  <2>7. Len(s) \in 1 .. MaxDepth /\ s[Len(s)] = req[t].path
    BY <1>2, <1>5, <2>5, <2>6
  <2>8. ASSUME NEW i \in 1 .. Len(s) - 1 PROVE s[i] = ParentText(s[i + 1])
    <3> HIDE DEF s
    <3>0. Len(stack[t]) \in Nat
      BY <1>2
    <3>1. CASE i = 1
      <4>1. s[2] = stack[t][1]
        BY <1>2, <2>6, <3>0
      <4> QED  BY <2>5, <2>6, <3>1, <4>1
    <3>2. CASE i # 1
      <4>1. i \in 2 .. Len(s) /\ i + 1 \in 2 .. Len(s) /\ i + 1 - 1 = i /\ i - 1 \in 1 .. Len(stack[t]) - 1
            /\ i - 1 + 1 = i
        BY <2>6, <3>0, <3>2
      <4>2. s[i] = stack[t][i - 1] /\ s[i + 1] = stack[t][i]
        BY <2>6, <4>1
      <4>3. stack[t][i - 1] = ParentText(stack[t][i])
        BY <1>2, <4>1
      <4> QED  BY <4>2, <4>3
    <3> QED  BY <3>1, <3>2
  <2> HIDE DEF s
  <2>9. Making(t)'
    BY <2>2, <2>6, <2>7, <2>8 DEF Making, Steps, s, above
  <2> QED  BY <1>2, <1>3, <2>2, <2>3, <2>9, OneSteps
<1>6. CASE Goto(t, "overflow") /\ UNCHANGED stack
  <2>1. "overflow" \in Step /\ "overflow" \in StepsOf[req[t].op]
    BY <1>2 DEF Step, StepsOf
  <2>2. Steps(t) /\ pc'[t] = "overflow" /\ stack'[t] = stack[t] /\ fds'[t] = 0
    <3>1. stack'[t] = stack[t] /\ stack' = [stack EXCEPT ![t] = stack'[t]]
      BY <1>2, <1>6, Writing
    <3> QED  BY <1>1, <1>2, <1>6, <2>1, <3>1, StaysGoto
  <2>3. Handles(t)' /\ Using(t)' /\ Scanning(t)' /\ Told(t)'
    BY <1>2, <2>2, MakingOnly
  <2>4. Making(t)'
    BY <1>2, <2>2 DEF Making, Steps
  <2> QED  BY <1>2, <1>3, <2>2, <2>3, <2>4, OneSteps
<1> QED  BY <1>4, <1>5, <1>6 DEF Access, p

LEMMA MkdirStep ==
  ASSUME Inv, NEW t \in Thread, Mkdir(t)
  PROVE  Inv'
<1> DEFINE n == Names(stack[t][1])
<1>1. pc[t] = "mkdir" /\ UNCHANGED <<buf, fds>>
  BY DEF Mkdir, At
<1>2. /\ Shapes /\ Active(t) /\ req[t].op = "mkdirs" /\ fds[t] = 0
      /\ stack[t] \in Seq(Path) /\ Len(stack[t]) \in 1 .. MaxDepth
      /\ stack[t][Len(stack[t])] = req[t].path /\ Head(stack[t]) = stack[t][1] /\ n \in Place
      /\ \A i \in 1 .. Len(stack[t]) - 1 : stack[t][i] = ParentText(stack[t][i + 1])
  BY <1>1, MakingIs
<1> HIDE DEF n
<1>3. CASE /\ Creatable(n) /\ FrameReturns0(t)
           /\ tree' = [tree EXCEPT ![n] = [kind |-> "dir", text |-> <<>>]]
  <2>1. [kind |-> "dir", text |-> <<>>] \in Node
    BY DEF Node, Kind
  <2>2. tree' \in Tree /\ Grown(tree, tree')
    BY <1>2, <1>3, <2>1, NodeAppears DEF Shapes, Creatable
  <2>3. tree'[n].kind = "dir" /\ \A m \in Place : m # n => tree'[m] = tree[m]
    BY <1>2, <1>3 DEF Shapes, Tree
  <2>4. \A u \in Thread : Kept(u)
    <3>1. SUFFICES ASSUME NEW u \in Thread, tree[Target(u)].kind = "reg"
                   PROVE  tree'[Target(u)].text = tree[Target(u)].text
      BY DEF Kept
    <3>2. Target(u) # n /\ Target(u) \in Place
      BY <1>2, <1>3, <3>1, TargetIs DEF Creatable
    <3> QED  BY <2>3, <3>2
  <2> QED  BY <1>1, <1>3, <2>2, <2>3, <2>4, FrameReturns0Step DEF n
<1>4. CASE Return(t, Fail, <<>>) /\ UNCHANGED <<tree, stack>>
  <2>1. Fail \in Int /\ Fail # 0 /\ <<>> \in Seq(STRING) /\ UNCHANGED local
    BY <1>1, <1>4 DEF Fail, local
  <2>2. /\ Steps(t) /\ pc'[t] = "returned" /\ stack'[t] = stack[t] /\ fds'[t] = 0
        /\ ret'[t] = [code |-> Fail, out |-> <<>>]
    BY <1>2, <1>4, <2>1, StaysReturn
  <2>3. Handles(t)' /\ Using(t)' /\ Scanning(t)' /\ Told(t)'
    BY <1>2, <2>2, MakingOnly
  <2>4. Making(t)'
    BY <1>2, <2>1, <2>2 DEF Making, Steps
  <2>5. tree' \in Tree /\ Grown(tree, tree') /\ \A u \in Thread : Kept(u)
    BY <1>2, <1>4, TreeStays
  <2> QED  BY <1>2, <2>2, <2>3, <2>4, <2>5, OneSteps
<1> QED  BY <1>2, <1>3, <1>4 DEF Mkdir, n

(***************************************************************************)
(* CreateEmpty, WriteTo and ReadFrom.                                      *)
(***************************************************************************)
LEMMA UsingOnly ==
  ASSUME NEW t \in Thread, Steps(t), req[t].op \in {"create", "write", "read"},
         pc'[t] \in {"create", "write", "read", "returned"}, fds'[t] = 0
  PROVE  Handles(t)' /\ Making(t)' /\ Scanning(t)' /\ Told(t)' /\ (pc'[t] = "returned" => Using(t)')
BY DEF Steps, Handles, Making, Using, Scanning, Told, Returned

LEMMA UsingIs ==
  ASSUME Inv, NEW t \in Thread, pc[t] \in {"stat", "create", "openw", "write", "openr", "read"}
  PROVE  /\ Shapes /\ Active(t) /\ Using(t) /\ fds[t] = 0 /\ Grown(since[t], tree) /\ since[t] \in Tree
         /\ Target(t) = Names(req[t].path) /\ Target(t) \in Place /\ req[t] \in Request
         /\ req[t].op \in {"create", "write", "read"} /\ tree \in Tree
         /\ pc[t] \in {"stat", "create"} => req[t].op = "create"
         /\ pc[t] \in {"openw", "write"} => req[t].op = "write" /\ req[t].text \in Seq(STRING)
         /\ pc[t] \in {"openr", "read"} => req[t].op = "read" /\ req[t].json \in BOOLEAN
         /\ buf[t] \in Seq(STRING)
<1>1. Shapes /\ Own(t)
  BY DEF Inv
<1>2. /\ Target(t) \in Place /\ req[t] \in Request
      /\ pc[t] \in {"stat", "create"} => req[t].op = "create"
      /\ pc[t] \in {"openw", "write"} => req[t].op = "write"
      /\ pc[t] \in {"openr", "read"} => req[t].op = "read"
  BY <1>1, OpIs, TargetIs
<1>3. Using(t) /\ fds[t] = 0 /\ Grown(since[t], tree) /\ Active(t)
  BY <1>1 DEF Own, Handles, Active
<1> QED  BY <1>1, <1>2, <1>3, RequestAssumption DEF Target, Shapes

\* A call writes only its own file, which is not that of one that is alone with it.
LEMMA WriteKeeps ==
  ASSUME Inv, NEW t \in Thread, Active(t), Writes(req[t]),
         \A m \in Place : m # Target(t) => tree'[m] = tree[m]
  PROVE  \A u \in Thread \ {t} : Kept(u)
<1>1. SUFFICES ASSUME NEW u \in Thread \ {t}, alone[u], Active(u)
               PROVE  tree'[Target(u)] = tree[Target(u)]
  BY DEF Kept
<1>2. ~Clash(req[t], req[u])
  BY <1>1 DEF Inv, Apart
<1>3. Target(u) \in Place
  BY TargetIs DEF Inv
<1> QED  BY <1>2, <1>3 DEF Clash, Target

LEMMA Truncates ==
  ASSUME Shapes, NEW n \in Place, Opens(n), Truncated(n)
  PROVE  /\ tree' \in Tree /\ Grown(tree, tree') /\ tree'[n] = [kind |-> "reg", text |-> <<>>]
         /\ \A m \in Place : m # n => tree'[m] = tree[m]
<1> DEFINE node == [kind |-> "reg", text |-> <<>>]
<1>1. node \in Node /\ node.kind = "reg"
  BY DEF Node, Kind
<1>2. tree' = [tree EXCEPT ![n] = node] /\ tree \in Tree
  BY DEF Shapes, Truncated
<1>3. tree'[n] = node /\ \A m \in Place : m # n => tree'[m] = tree[m]
  BY <1>2 DEF Tree
<1> HIDE DEF node
<1>4. CASE tree[n].kind = "reg"
  <2>1. node.kind = tree[n].kind
    BY <1>1, <1>4
  <2>2. [tree EXCEPT ![n] = node] \in Tree /\ Grown(tree, [tree EXCEPT ![n] = node])
    BY <1>1, <1>2, <2>1, NodeChanges
  <2> QED  BY <1>2, <1>3, <2>2 DEF node
<1>5. CASE Creatable(n)
  <2>1. tree[n].kind = "none" /\ tree[Front(n)].kind = "dir" /\ node.kind # "none"
    BY <1>1, <1>5 DEF Creatable
  <2>2. [tree EXCEPT ![n] = node] \in Tree /\ Grown(tree, [tree EXCEPT ![n] = node])
    BY <1>1, <1>2, <2>1, NodeAppears
  <2> QED  BY <1>2, <1>3, <2>2 DEF node
<1> QED  BY <1>4, <1>5 DEF Opens

\* A call that has written d of its blocks.
LEMMA StillWrites ==
  ASSUME NEW t \in Thread, Steps(t), pc'[t] = "write", NEW d \in Nat,
         Len(req[t].text) - Len(buf'[t]) = d, buf'[t] = SubSeq(req[t].text, d + 1, Len(req[t].text)),
         tree'[Target(t)].kind = "reg",
         alone[t] => tree'[Target(t)].text = SubSeq(req[t].text, 1, d)
  PROVE  Using(t)'
<1> DEFINE e == Len(req'[t].text) - Len(buf'[t])
<1>1. req'[t] = req[t] /\ Target(t)' = Target(t) /\ alone'[t] = alone[t]
  BY DEF Steps, Target
<1>2. e = d
  BY <1>1
<1> HIDE DEF e
<1>3. /\ e >= 0 /\ buf'[t] = SubSeq(req'[t].text, e + 1, Len(req'[t].text))
      /\ alone'[t] => tree'[Target(t)'].text = SubSeq(req'[t].text, 1, e)
  BY <1>1, <1>2
<1>4. pc'[t] # "create" /\ pc'[t] # "read" /\ tree'[Target(t)'].kind = "reg"
  BY <1>1
<1> QED  BY <1>3, <1>4 DEF Using, e

LEMMA StatStep ==
  ASSUME Inv, NEW t \in Thread, Stat(t)
  PROVE  Inv'
<1>1. pc[t] = "stat" /\ UNCHANGED tree /\ UNCHANGED local
  BY DEF Stat, At
<1>2. /\ Shapes /\ Active(t) /\ fds[t] = 0 /\ Grown(since[t], tree) /\ req[t].op = "create"
      /\ Target(t) = Names(req[t].path) /\ Target(t) \in Place
  BY <1>1, UsingIs
<1>3. tree' \in Tree /\ Grown(tree, tree') /\ \A u \in Thread : Kept(u)
  BY <1>1, <1>2, TreeStays
<1>4. CASE Return(t, Fail, <<>>)
  <2>1. Fail \in Int /\ <<>> \in Seq(STRING)
    BY DEF Fail
  <2>2. Steps(t) /\ pc'[t] = "returned" /\ fds'[t] = 0
    BY <1>1, <1>2, <1>4, <2>1, StaysReturn
  <2>3. Handles(t)' /\ Making(t)' /\ Scanning(t)' /\ Told(t)' /\ Using(t)'
    BY <1>2, <2>2, UsingOnly
  <2> QED  BY <1>2, <1>3, <2>2, <2>3, OneSteps
<1>5. CASE ~Exists(req[t].path) /\ Goto(t, "create")
  <2>1. "create" \in Step /\ "create" \in StepsOf[req[t].op]
    BY <1>2 DEF Step, StepsOf
  <2>2. UNCHANGED <<stack, buf, fds>>
    BY <1>1 DEF local
  <2>3. Steps(t) /\ pc'[t] = "create" /\ fds'[t] = 0
    <3>1. stack' = [stack EXCEPT ![t] = stack'[t]]
      BY <1>2, <2>2, Writing
    <3> QED  BY <1>2, <1>5, <2>1, <2>2, <3>1, StaysGoto
  <2>4. Handles(t)' /\ Making(t)' /\ Scanning(t)' /\ Told(t)'
    BY <1>2, <2>3, UsingOnly
  <2>5. req[t].path = <<>> \/ since[t][Target(t)].kind = "none"
    BY <1>2, <1>5 DEF Exists, Grown
  <2>6. Using(t)'
    BY <2>3, <2>5 DEF Using, Steps, Target
  <2> QED  BY <1>2, <1>3, <2>3, <2>4, <2>6, OneSteps
<1> QED  BY <1>4, <1>5 DEF Stat

LEMMA CreateStep ==
  ASSUME Inv, NEW t \in Thread, Create(t)
  PROVE  Inv'
<1>1. pc[t] = "create" /\ UNCHANGED local
  BY DEF Create, At
<1>2. /\ Shapes /\ Active(t) /\ fds[t] = 0 /\ req[t].op = "create"
      /\ Target(t) = Names(req[t].path) /\ Target(t) \in Place
  BY <1>1, UsingIs
<1>3. ASSUME NEW code \in Int, Return(t, code, <<>>), tree' \in Tree, Grown(tree, tree'),
             \A u \in Thread \ {t} : Kept(u)
      PROVE  Inv'
  <2>1. <<>> \in Seq(STRING)
    OBVIOUS
  <2>2. Steps(t) /\ pc'[t] = "returned" /\ fds'[t] = 0
    BY <1>1, <1>2, <1>3, <2>1, StaysReturn
  <2>3. Handles(t)' /\ Making(t)' /\ Scanning(t)' /\ Told(t)' /\ Using(t)'
    BY <1>2, <2>2, UsingOnly
  <2> QED  BY <1>2, <1>3, <2>2, <2>3, OneSteps
<1>4. CASE Opens(Target(t)) /\ Truncated(Target(t)) /\ Return(t, 0, <<>>)
  <2>1. tree' \in Tree /\ Grown(tree, tree') /\ \A m \in Place : m # Target(t) => tree'[m] = tree[m]
    BY <1>2, <1>4, Truncates
  <2>2. Writes(req[t])
    BY <1>2 DEF Writes
  <2>3. \A u \in Thread \ {t} : Kept(u)
    BY <1>2, <2>1, <2>2, WriteKeeps
  <2> QED  BY <1>3, <1>4, <2>1, <2>3
<1>5. CASE UNCHANGED tree /\ Return(t, Fail, <<>>)
  <2>1. tree' \in Tree /\ Grown(tree, tree') /\ \A u \in Thread : Kept(u)
    BY <1>2, <1>5, TreeStays
  <2>2. Fail \in Int
    BY DEF Fail
  <2> QED  BY <1>3, <1>5, <2>1, <2>2
<1> QED  BY <1>2, <1>4, <1>5 DEF Create

LEMMA OpenForWriteStep ==
  ASSUME Inv, NEW t \in Thread, OpenForWrite(t)
  PROVE  Inv'
<1>1. pc[t] = "openw" /\ UNCHANGED <<stack, fds>> /\ buf' = [buf EXCEPT ![t] = req[t].text]
  BY DEF OpenForWrite, At
<1>2. /\ Shapes /\ Active(t) /\ fds[t] = 0 /\ req[t].op = "write" /\ req[t].text \in Seq(STRING)
      /\ Target(t) = Names(req[t].path) /\ Target(t) \in Place
  BY <1>1, UsingIs
<1>3. Only(t) /\ buf'[t] = req[t].text /\ fds'[t] = 0
  BY <1>1, <1>2, Writing DEF Only
<1>4. CASE Opens(Target(t)) /\ Truncated(Target(t)) /\ Goto(t, "write")
  <2>1. "write" \in Step /\ "write" \in StepsOf[req[t].op]
    BY <1>2 DEF Step, StepsOf
  <2>2. Steps(t) /\ pc'[t] = "write"
    BY <1>2, <1>3, <1>4, <2>1, GotoSteps
  <2>3. /\ tree' \in Tree /\ Grown(tree, tree') /\ tree'[Target(t)] = [kind |-> "reg", text |-> <<>>]
        /\ \A m \in Place : m # Target(t) => tree'[m] = tree[m]
    BY <1>2, <1>4, Truncates
  <2>4. Handles(t)' /\ Making(t)' /\ Scanning(t)' /\ Told(t)'
    BY <1>2, <1>3, <2>2, UsingOnly
  <2>5. Using(t)'
    <3> DEFINE T == req[t].text
    <3>2. SubSeq(T, 1, Len(T)) = T /\ SubSeq(T, 1, 0) = <<>> /\ Len(T) \in Nat
      BY <1>2
    <3> HIDE DEF T
    <3> DEFINE z == 0
    <3>3. z \in Nat /\ Len(T) - Len(buf'[t]) = z /\ buf'[t] = SubSeq(T, z + 1, Len(T))
      BY <1>3, <3>2 DEF T
    <3>4. tree'[Target(t)].kind = "reg" /\ tree'[Target(t)].text = SubSeq(T, 1, z)
      BY <2>3, <3>2
    <3> HIDE DEF z
    <3> QED  BY <2>2, <3>3, <3>4, StillWrites DEF T
  <2>6. \A u \in Thread \ {t} : Kept(u)
    <3>1. Writes(req[t])
      BY <1>2 DEF Writes
    <3> QED  BY <1>2, <2>3, <3>1, WriteKeeps
  <2> QED  BY <1>2, <2>2, <2>3, <2>4, <2>5, <2>6, OneSteps
<1>5. CASE UNCHANGED tree /\ Return(t, Fail, <<>>)
  <2>1. tree' \in Tree /\ Grown(tree, tree') /\ \A u \in Thread : Kept(u)
    BY <1>2, <1>5, TreeStays
  <2>2. Fail \in Int /\ <<>> \in Seq(STRING)
    BY DEF Fail
  <2>3. Steps(t) /\ pc'[t] = "returned"
    BY <1>2, <1>3, <1>5, <2>2, ReturnSteps
  <2>4. Handles(t)' /\ Making(t)' /\ Scanning(t)' /\ Told(t)' /\ Using(t)'
    BY <1>2, <1>3, <2>3, UsingOnly
  <2> QED  BY <1>2, <2>1, <2>3, <2>4, OneSteps
<1> QED  BY <1>2, <1>4, <1>5 DEF OpenForWrite

\* The next block of a text T of which d blocks are written.
LEMMA PutNext ==
  ASSUME NEW T \in Seq(STRING), NEW d \in Nat, d < Len(T)
  PROVE  LET b == SubSeq(T, d + 1, Len(T)) IN
         /\ Head(b) = T[d + 1] /\ Tail(b) = SubSeq(T, d + 2, Len(T)) /\ Len(Tail(b)) = Len(T) - (d + 1)
         /\ PutAt(SubSeq(T, 1, d), d + 1, T[d + 1]) = SubSeq(T, 1, d + 1)
<1> DEFINE b == SubSeq(T, d + 1, Len(T))
           w == SubSeq(T, 1, d)
           v == SubSeq(T, 1, d + 1)
<1>0. Len(T) \in Nat /\ d + 1 \in 1 .. Len(T)
  OBVIOUS
<1>1. /\ b \in Seq(STRING) /\ Len(b) = Len(T) - d /\ b # <<>>
      /\ \A k \in 1 .. Len(b) : b[k] = T[d + k]
  <2>1. b \in Seq(STRING) /\ Len(b) = Len(T) - d
    BY <1>0
  <2>2. \A k \in 1 .. Len(T) - d : b[k] = T[d + k]
    BY <1>0
  <2>3. Len(b) \in Nat \ {0}
    BY <2>1, <1>0
  <2> HIDE DEF b
  <2>4. b # <<>>
    BY <2>3
  <2>5. \A k \in 1 .. Len(b) : b[k] = T[d + k]
    BY <2>1, <2>2
  <2> QED  BY <2>1, <2>4, <2>5
<1>2. Head(b) = T[d + 1]
  <2>1. Head(b) = b[1] /\ 1 \in 1 .. Len(b)
    BY <1>0, <1>1
  <2> QED  BY <1>1, <2>1
<1>3. Tail(b) = SubSeq(T, d + 2, Len(T)) /\ Len(Tail(b)) = Len(T) - (d + 1)
  <2> DEFINE c == Tail(b)
             x == SubSeq(T, d + 2, Len(T))
             m == Len(T) - (d + 1)
  <2>1. m \in Nat
    BY <1>0
  <2>2. c \in Seq(STRING) /\ Len(c) = m /\ \A k \in 1 .. m : c[k] = b[k + 1] /\ k + 1 \in 1 .. Len(b)
    <3> HIDE DEF b
    <3>1. c \in Seq(STRING) /\ Len(c) = Len(b) - 1 /\ \A k \in 1 .. Len(c) : c[k] = b[k + 1]
      BY <1>1, HeadTailProperties
    <3> HIDE DEF c, b
    <3>2. Len(c) = m
      BY <1>0, <1>1, <3>1
    <3> QED  BY <1>0, <1>1, <3>1, <3>2
  <2>3. x \in Seq(STRING) /\ Len(x) = m /\ \A k \in 1 .. m : x[k] = T[d + 1 + k]
    <3>1. x \in Seq(STRING) /\ Len(x) = m
      BY <1>0
    <3>2. \A k \in 1 .. m : x[k] = T[d + 1 + k]
      BY <1>0
    <3> QED  BY <3>1, <3>2
  <2>4. \A k \in 1 .. m : c[k] = x[k]
    <3> HIDE DEF c, x, b
    <3>1. SUFFICES ASSUME NEW k \in 1 .. m PROVE c[k] = x[k]
      OBVIOUS
    <3>2. c[k] = T[d + (k + 1)] /\ d + (k + 1) = d + 1 + k
      BY <1>0, <1>1, <2>2
    <3> QED  BY <2>3, <3>2
  <2> HIDE DEF c, x, m, b
  <2>5. c = x
    BY <2>1, <2>2, <2>3, <2>4, SeqEqual
  <2> QED  BY <2>2, <2>5 DEF c, x, m
<1>4. w \in Seq(STRING) /\ Len(w) = d /\ \A k \in 1 .. d : w[k] = T[k]
  BY <1>0
<1>5. v = [k \in 1 .. d + 1 |-> T[k]]
  BY <1>0
<1> HIDE DEF b, w, v
<1>6. PutAt(w, d + 1, T[d + 1]) = v
  <2>1. (IF d + 1 > Len(w) THEN d + 1 ELSE Len(w)) = d + 1
    BY <1>4
  <2>2. PutAt(w, d + 1, T[d + 1])
        = [k \in 1 .. d + 1 |-> IF k = d + 1 THEN T[d + 1] ELSE IF k <= Len(w) THEN w[k] ELSE "nul"]
    BY <2>1 DEF PutAt
  <2>3. \A k \in 1 .. d + 1 :
          (IF k = d + 1 THEN T[d + 1] ELSE IF k <= Len(w) THEN w[k] ELSE "nul") = T[k]
    BY <1>4
  <2> QED  BY <1>5, <2>2, <2>3
<1> QED  BY <1>2, <1>3, <1>6 DEF b, w, v

LEMMA PutIs ==
  ASSUME NEW text \in Seq(STRING), NEW i \in Nat \ {0}, NEW block \in STRING
  PROVE  PutAt(text, i, block) \in Seq(STRING)
<1> DEFINE m == IF i > Len(text) THEN i ELSE Len(text)
<1>1. m \in Nat /\ Len(text) \in Nat
  OBVIOUS
<1>2. \A k \in 1 .. m : (IF k = i THEN block ELSE IF k <= Len(text) THEN text[k] ELSE "nul") \in STRING
  <2>1. ASSUME NEW k \in 1 .. m, k <= Len(text) PROVE text[k] \in STRING
    <3>1. k \in 1 .. Len(text)
      BY <1>1, <2>1
    <3> QED  BY <3>1
  <2>2. "nul" \in STRING
    BY FileOperateAssumption
  <2>3. SUFFICES ASSUME NEW k \in 1 .. m
                 PROVE  (IF k = i THEN block ELSE IF k <= Len(text) THEN text[k] ELSE "nul") \in STRING
    OBVIOUS
  <2>4. CASE k = i
    BY <2>4
  <2>5. CASE k # i /\ k <= Len(text)
    BY <2>1, <2>5
  <2>6. CASE k # i /\ ~(k <= Len(text))
    BY <2>2, <2>6
  <2> QED  BY <2>4, <2>5, <2>6
<1> HIDE DEF m
<1>3. [k \in 1 .. m |-> IF k = i THEN block ELSE IF k <= Len(text) THEN text[k] ELSE "nul"] \in Seq(STRING)
  BY <1>1, <1>2
<1> QED  BY <1>3 DEF PutAt, m

LEMMA WriteBlockStep ==
  ASSUME Inv, NEW t \in Thread, WriteBlock(t)
  PROVE  Inv'
<1> DEFINE T == req[t].text
           d == Len(T) - Len(buf[t])
           n == Target(t)
           text == PutAt(tree[n].text, d + 1, Head(buf[t]))
<1>1. /\ pc[t] = "write" /\ buf[t] # <<>> /\ UNCHANGED <<stack, fds>> /\ Goto(t, "write")
      /\ buf' = [buf EXCEPT ![t] = Tail(buf[t])]
  BY DEF WriteBlock, At
<1>2. /\ Shapes /\ Active(t) /\ Using(t) /\ fds[t] = 0 /\ req[t].op = "write" /\ T \in Seq(STRING)
      /\ n = Names(req[t].path) /\ n \in Place /\ tree \in Tree /\ buf[t] \in Seq(STRING)
  BY <1>1, UsingIs
<1>3. /\ d >= 0 /\ buf[t] = SubSeq(T, d + 1, Len(T)) /\ tree[n].kind = "reg"
      /\ alone[t] => tree[n].text = SubSeq(T, 1, d)
  BY <1>1, <1>2 DEF Using
<1>4. d \in Nat /\ d < Len(T) /\ Len(buf[t]) \in Nat \ {0}
  <2>1. Len(T) \in Nat /\ Len(buf[t]) \in Nat /\ Len(buf[t]) # 0
    BY <1>1, <1>2, EmptySeq
  <2> DEFINE a == Len(T)
             c == Len(buf[t])
  <2>2. a \in Nat /\ c \in Nat \ {0} /\ a - c >= 0
    BY <1>3, <2>1
  <2> HIDE DEF a, c
  <2>3. a - c \in Nat /\ a - c < a
    BY <2>2
  <2> QED  BY <2>2, <2>3 DEF a, c
<1>5. tree' = [tree EXCEPT ![n] = [tree[n] EXCEPT !.text = text]]
  BY <1>2 DEF WriteBlock
<1> HIDE DEF d, n, T
<1>6. /\ Head(buf[t]) = T[d + 1] /\ Tail(buf[t]) = SubSeq(T, d + 2, Len(T))
      /\ Len(Tail(buf[t])) = Len(T) - (d + 1) /\ Tail(buf[t]) \in Seq(STRING) /\ Head(buf[t]) \in STRING
      /\ PutAt(SubSeq(T, 1, d), d + 1, T[d + 1]) = SubSeq(T, 1, d + 1)
  <2>1. Tail(buf[t]) \in Seq(STRING) /\ Head(buf[t]) \in STRING
    <3> DEFINE b == buf[t]
    <3>1. b \in Seq(STRING) /\ b # <<>>
      BY <1>1, <1>2
    <3> HIDE DEF b
    <3>2. Tail(b) \in Seq(STRING) /\ Head(b) \in STRING
      BY <3>1, HeadTailProperties
    <3> QED  BY <3>2 DEF b
  <2> QED  BY <1>2, <1>3, <1>4, <2>1, PutNext
<1>7. tree[n] \in Node /\ tree[n].text \in Seq(STRING)
  BY <1>2 DEF Tree, Node
<1>8. text \in Seq(STRING) /\ (alone[t] => text = SubSeq(T, 1, d + 1))
  <2>1. d + 1 \in Nat \ {0}
    BY <1>4
  <2> QED  BY <1>3, <1>6, <1>7, <2>1, PutIs
<1> HIDE DEF text
<1>9. /\ tree' \in Tree /\ Grown(tree, tree') /\ tree'[n].kind = "reg" /\ tree'[n].text = text
      /\ \A m \in Place : m # n => tree'[m] = tree[m]
  <2> DEFINE node == [tree[n] EXCEPT !.text = text]
  <2>1. node \in Node /\ node.kind = tree[n].kind /\ node.text = text
    BY <1>7, <1>8 DEF Node
  <2>2. tree' = [tree EXCEPT ![n] = node]
    BY <1>5
  <2> HIDE DEF node
  <2>3. tree' \in Tree /\ Grown(tree, tree')
    BY <1>2, <2>1, <2>2, NodeChanges
  <2>4. tree'[n] = node /\ \A m \in Place : m # n => tree'[m] = tree[m]
    BY <1>2, <2>2 DEF Tree
  <2> QED  BY <1>3, <2>1, <2>3, <2>4
<1>10. Steps(t) /\ pc'[t] = "write" /\ buf'[t] = Tail(buf[t]) /\ fds'[t] = 0
  <2>1. "write" \in Step /\ "write" \in StepsOf[req[t].op]
    BY <1>2 DEF Step, StepsOf
  <2>2. Only(t) /\ buf'[t] = Tail(buf[t]) /\ fds'[t] = 0
    <3> DEFINE b == Tail(buf[t])
    <3>1. b \in Seq(STRING) /\ buf' = [buf EXCEPT ![t] = b]
      BY <1>1, <1>6
    <3> HIDE DEF b
    <3>2. Only(t) /\ buf'[t] = b /\ fds'[t] = 0
      BY <1>1, <1>2, <3>1, Writing DEF Only
    <3> QED  BY <3>2 DEF b
  <2> QED  BY <1>1, <1>2, <2>1, <2>2, GotoSteps
<1>11. Handles(t)' /\ Making(t)' /\ Scanning(t)' /\ Told(t)'
  BY <1>2, <1>10, UsingOnly
<1>12. Using(t)'
  <2> DEFINE e == d + 1
  <2>1. e \in Nat /\ d + 2 = e + 1
    BY <1>4
  <2>2. Len(T) - Len(buf'[t]) = e /\ buf'[t] = SubSeq(T, e + 1, Len(T))
    <3>1. Len(buf'[t]) = Len(T) - e /\ Len(T) \in Nat
      BY <1>2, <1>6, <1>10
    <3> HIDE DEF e
    <3>2. Len(T) - Len(buf'[t]) = e
      BY <2>1, <3>1
    <3> QED  BY <1>6, <1>10, <2>1, <3>2
  <2>3. tree'[n].kind = "reg" /\ (alone[t] => tree'[n].text = SubSeq(T, 1, e))
    BY <1>8, <1>9
  <2> HIDE DEF e
  <2> QED  BY <1>10, <2>1, <2>2, <2>3, StillWrites DEF T, n
<1>13. \A u \in Thread \ {t} : Kept(u)
  <2>1. Writes(req[t])
    BY <1>2 DEF Writes
  <2> QED  BY <1>2, <1>9, <2>1, WriteKeeps DEF n
<1> QED  BY <1>2, <1>9, <1>10, <1>11, <1>12, <1>13, OneSteps

LEMMA WriteReturnsStep ==
  ASSUME Inv, NEW t \in Thread, WriteReturns(t)
  PROVE  /\ Inv'
         /\ alone[t] => /\ tree'[Target(t)].text = req[t].text
                        /\ ret'[t].code = Len(tree'[Target(t)].text)
<1> DEFINE text == tree[Target(t)].text
<1>1. pc[t] = "write" /\ buf[t] = <<>> /\ UNCHANGED tree /\ UNCHANGED local
  BY DEF WriteReturns, At
<1>2. /\ Shapes /\ Active(t) /\ Using(t) /\ fds[t] = 0 /\ req[t].op = "write"
      /\ req[t].text \in Seq(STRING)
      /\ Target(t) = Names(req[t].path) /\ Target(t) \in Place /\ tree \in Tree
  BY <1>1, UsingIs
<1>3. Return(t, Len(text), <<>>)
  BY <1>2 DEF WriteReturns
<1>4. Len(text) \in Int /\ <<>> \in Seq(STRING)
  BY <1>2 DEF Tree, Node
<1>5. Steps(t) /\ pc'[t] = "returned" /\ fds'[t] = 0 /\ ret'[t] = [code |-> Len(text), out |-> <<>>]
  BY <1>1, <1>2, <1>3, <1>4, StaysReturn
<1>6. Handles(t)' /\ Making(t)' /\ Scanning(t)' /\ Told(t)' /\ Using(t)'
  BY <1>2, <1>5, UsingOnly
<1>7. tree' \in Tree /\ Grown(tree, tree') /\ \A u \in Thread : Kept(u)
  BY <1>1, <1>2, TreeStays
<1>8. alone[t] => text = req[t].text
  <2> DEFINE T == req[t].text
  <2>1. Len(T) \in Nat /\ Len(T) - 0 = Len(T) /\ Len(buf[t]) = 0 /\ SubSeq(T, 1, Len(T)) = T
    BY <1>1, <1>2
  <2> QED  BY <1>1, <1>2, <2>1 DEF Using
<1> QED  BY <1>1, <1>2, <1>5, <1>6, <1>7, <1>8, OneSteps

\* A sequence of n blocks that starts as text does, and is text if that has n.
LEMMA GotIs ==
  ASSUME NEW text \in Seq(STRING), NEW n \in Nat
  PROVE  LET got == [k \in 1 .. n |-> IF k <= Len(text) THEN text[k] ELSE "nul"] IN
         got \in Seq(STRING) /\ Len(got) = n /\ (n = Len(text) => got = text)
<1> DEFINE Block(k) == IF k <= Len(text) THEN text[k] ELSE "nul"
           got == [k \in 1 .. n |-> Block(k)]
<1>1. ASSUME NEW k \in 1 .. n PROVE Block(k) \in STRING
  <2>1. CASE k <= Len(text)
    <3>1. k \in 1 .. Len(text)
      BY <2>1
    <3> QED  BY <2>1, <3>1
  <2>2. CASE ~(k <= Len(text))
    <3>1. "nul" \in STRING
      BY FileOperateAssumption
    <3> QED  BY <2>2, <3>1
  <2> QED  BY <2>1, <2>2
<1>2. n = Len(text) => \A k \in 1 .. n : Block(k) = text[k]
  OBVIOUS
<1> HIDE DEF Block
<1>3. got \in Seq(STRING) /\ Len(got) = n /\ \A k \in 1 .. n : got[k] = Block(k)
  BY <1>1
<1> HIDE DEF got
<1>4. n = Len(text) => got = text
  BY <1>2, <1>3, SeqEqual
<1> QED  BY <1>3, <1>4 DEF got, Block

LEMMA OpenForReadStep ==
  ASSUME Inv, NEW t \in Thread, OpenForRead(t)
  PROVE  Inv'
<1> DEFINE f == tree[Target(t)]
<1>1. pc[t] = "openr" /\ UNCHANGED tree /\ UNCHANGED <<stack, fds>>
  BY DEF OpenForRead, At
<1>2. /\ Shapes /\ Active(t) /\ fds[t] = 0 /\ req[t].op = "read" /\ req[t].json \in BOOLEAN
      /\ Target(t) = Names(req[t].path) /\ Target(t) \in Place /\ tree \in Tree
  BY <1>1, UsingIs
<1>3. tree' \in Tree /\ Grown(tree, tree') /\ \A u \in Thread : Kept(u)
  BY <1>1, <1>2, TreeStays
<1>4. ASSUME NEW code \in Int, Return(t, code, <<>>), UNCHANGED buf PROVE Inv'
  <2>1. <<>> \in Seq(STRING) /\ UNCHANGED local
    BY <1>1, <1>4 DEF local
  <2>2. Steps(t) /\ pc'[t] = "returned" /\ fds'[t] = 0
    BY <1>2, <1>4, <2>1, StaysReturn
  <2>3. Handles(t)' /\ Making(t)' /\ Scanning(t)' /\ Told(t)' /\ Using(t)'
    BY <1>2, <2>2, UsingOnly
  <2> QED  BY <1>2, <1>3, <2>2, <2>3, OneSteps
<1>5. ASSUME NEW b \in Seq(STRING), buf' = [buf EXCEPT ![t] = b], Goto(t, "read"), f.kind # "none",
             f.kind = "reg" => IF req[t].json THEN Begins(b, f.text) ELSE Len(b) = Len(f.text)
      PROVE  Inv'
  <2>1. "read" \in Step /\ "read" \in StepsOf[req[t].op]
    BY <1>2 DEF Step, StepsOf
  <2>2. Only(t) /\ buf'[t] = b /\ fds'[t] = 0
    <3>1. UNCHANGED stack /\ UNCHANGED fds
      BY <1>1
    <3>2. stack' = [stack EXCEPT ![t] = stack'[t]] /\ fds' = [fds EXCEPT ![t] = fds'[t]] /\ fds'[t] = fds[t]
      BY <1>2, <3>1, Writing
    <3>3. buf'[t] = b /\ buf' = [buf EXCEPT ![t] = buf'[t]]
      BY <1>2, <1>5, Writing
    <3> QED  BY <1>2, <1>5, <3>2, <3>3 DEF Only
  <2>3. Steps(t) /\ pc'[t] = "read"
    BY <1>2, <1>5, <2>1, <2>2, GotoSteps
  <2>4. Handles(t)' /\ Making(t)' /\ Scanning(t)' /\ Told(t)'
    BY <1>2, <2>2, <2>3, UsingOnly
  <2>5. req'[t] = req[t] /\ Target(t)' = Target(t)
    BY <2>3 DEF Steps, Target
  <2>6. Using(t)'
    BY <1>1, <1>5, <2>2, <2>3, <2>5 DEF Using
  <2> QED  BY <1>2, <1>3, <2>3, <2>4, <2>6, OneSteps
<1>6. f.text \in Seq(STRING)
  BY <1>2 DEF Tree, Node
<1>7. CASE Return(t, Fail, <<>>) /\ UNCHANGED buf
  <2>1. Fail \in Int
    BY DEF Fail
  <2> QED  BY <1>4, <1>7, <2>1
<1>0. Readable(t) => f.kind # "none"
  BY <1>2 DEF Readable
<1>8. ASSUME f.kind # "none", ~req[t].json, Goto(t, "read"),
             NEW size \in IF f.kind = "reg" THEN {Len(f.text)} ELSE {0, 1},
             buf' = [buf EXCEPT ![t] = [k \in 1 .. size |-> "nul"]]
      PROVE  Inv'
  <2> DEFINE b == [k \in 1 .. size |-> "nul"]
  <2>1. size \in Nat /\ (f.kind = "reg" => size = Len(f.text))
    BY <1>6, <1>8
  <2>2. b \in Seq(STRING) /\ Len(b) = size
    BY <2>1, FileOperateAssumption
  <2> HIDE DEF b
  <2> QED  BY <1>5, <1>8, <2>1, <2>2 DEF b
<1>9. ASSUME f.kind # "none", req[t].json, Goto(t, "read"), NEW v \in Json, Begins(v, f.text),
             buf' = [buf EXCEPT ![t] = v]
      PROVE  Inv'
  <2>1. v \in Seq(STRING)
    BY FileOperateAssumption
  <2> QED  BY <1>5, <1>9, <2>1
<1>10. CASE Return(t, Throws, <<>>) /\ UNCHANGED buf
  <2>1. Throws \in Int
    BY DEF Throws
  <2> QED  BY <1>4, <1>10, <2>1
<1>11. \/ Return(t, Fail, <<>>) /\ UNCHANGED buf
       \/ /\ Readable(t) /\ ~req[t].json
          /\ \E size \in IF f.kind = "reg" THEN {Len(f.text)} ELSE {0, 1} :
               buf' = [buf EXCEPT ![t] = [k \in 1 .. size |-> "nul"]]
          /\ Goto(t, "read")
       \/ /\ Readable(t) /\ req[t].json
          /\ \E v \in Json : Begins(v, f.text) /\ buf' = [buf EXCEPT ![t] = v]
          /\ Goto(t, "read")
       \/ Return(t, Throws, <<>>) /\ UNCHANGED buf
  BY <1>2 DEF OpenForRead
<1> QED  BY <1>0, <1>7, <1>8, <1>9, <1>10, <1>11

LEMMA ReadReturnsStep ==
  ASSUME Inv, NEW t \in Thread, ReadReturns(t)
  PROVE  /\ Inv'
         /\ alone[t] => UndisturbedTells(t)
         /\ \A u \in Thread :
              ~req[t].json /\ pc[u] = "write" /\ alone[u] /\ Target(u) = Target(t) => OverlappedTells(t, u)
<1> DEFINE text == tree[Target(t)].text
           n == Len(buf[t])
           got == [k \in 1 .. n |-> IF k <= Len(text) THEN text[k] ELSE "nul"]
           code == IF req[t].json THEN Len(text) ELSE Len(got)
           out == IF req[t].json THEN buf[t] ELSE got
<1>1. pc[t] = "read" /\ UNCHANGED tree /\ UNCHANGED local
  BY DEF ReadReturns, At
<1>2. /\ Shapes /\ Active(t) /\ Using(t) /\ fds[t] = 0 /\ req[t].op = "read" /\ req[t].json \in BOOLEAN
      /\ Target(t) = Names(req[t].path) /\ Target(t) \in Place /\ tree \in Tree
      /\ buf[t] \in Seq(STRING)
  BY <1>1, UsingIs
<1>3. text \in Seq(STRING) /\ n \in Nat /\ DOMAIN buf[t] = 1 .. n
  BY <1>2 DEF Tree, Node
<1>4. alone[t] /\ tree[Target(t)].kind = "reg" =>
        IF req[t].json THEN Begins(buf[t], text) ELSE n = Len(text)
  BY <1>1, <1>2 DEF Using
<1>5. IF req[t].json THEN Return(t, Len(text), buf[t]) ELSE Return(t, Len(got), got)
  BY <1>2, <1>3 DEF ReadReturns
<1>13. ASSUME NEW u \in Thread, pc[u] = "write", alone[u], Target(u) = Target(t)
       PROVE  text = Written(u)
  <2>1. Using(u)
    BY <1>13, UsingIs
  <2> QED  BY <1>13, <2>1 DEF Using, Written
<1> HIDE DEF text, n
<1>6. got \in Seq(STRING) /\ Len(got) = n /\ (n = Len(text) => got = text)
      /\ \A k \in DOMAIN got : got[k] = IF k <= Len(text) THEN text[k] ELSE "nul"
  BY <1>3, GotIs
<1> HIDE DEF got
<1>7. code \in Int /\ out \in Seq(STRING) /\ Return(t, code, out)
  <2>1. Len(text) \in Int /\ Len(got) \in Int
    BY <1>3, <1>6
  <2> QED  BY <1>2, <1>5, <1>6, <2>1
<1>8. /\ alone[t] /\ tree[Target(t)].kind = "reg" =>
           (IF req[t].json THEN Begins(out, text) ELSE out = text) /\ code = Len(text)
      /\ ~req[t].json => \A k \in DOMAIN out : out[k] = IF k <= Len(text) THEN text[k] ELSE "nul"
  BY <1>4, <1>6
<1> HIDE DEF code, out
<1>9. Steps(t) /\ pc'[t] = "returned" /\ fds'[t] = 0 /\ ret'[t] = [code |-> code, out |-> out]
  BY <1>1, <1>2, <1>7, StaysReturn
<1>10. Handles(t)' /\ Making(t)' /\ Scanning(t)' /\ Told(t)' /\ Using(t)'
  BY <1>2, <1>9, UsingOnly
<1>11. tree' \in Tree /\ Grown(tree, tree') /\ \A u \in Thread : Kept(u)
  BY <1>1, <1>2, TreeStays
<1>12. Inv'
  BY <1>2, <1>9, <1>10, <1>11, OneSteps
<1>14. alone[t] => UndisturbedTells(t)
  BY <1>1, <1>2, <1>8, <1>9 DEF text, UndisturbedTells
<1>15. ASSUME NEW u \in Thread, ~req[t].json, pc[u] = "write", alone[u], Target(u) = Target(t)
       PROVE  OverlappedTells(t, u)
  BY <1>8, <1>9, <1>13, <1>15 DEF OverlappedTells
<1> QED  BY <1>12, <1>14, <1>15

(***************************************************************************)
(* SearchRecursively and ListInDir: the places on the way to one.          *)
(***************************************************************************)
LEMMA Shorter ==
  ASSUME NEW q \in Seq(STRING), NEW k \in 0 .. Len(q)
  PROVE  /\ SubSeq(q, 1, k) \in Seq(STRING) /\ Len(SubSeq(q, 1, k)) = k
         /\ \A j \in 0 .. k : SubSeq(SubSeq(q, 1, k), 1, j) = SubSeq(q, 1, j)
         /\ k # 0 => /\ Front(SubSeq(q, 1, k)) = SubSeq(q, 1, k - 1) /\ Last(SubSeq(q, 1, k)) = q[k]
                     /\ SubSeq(q, 1, k) # <<>> /\ SubSeq(q, 1, k) = Append(SubSeq(q, 1, k - 1), q[k])
<1> DEFINE p == SubSeq(q, 1, k)
<1>1. p \in Seq(STRING) /\ Len(p) = k /\ k \in Nat /\ \A i \in 1 .. k : p[i] = q[i]
  OBVIOUS
<1>2. ASSUME NEW j \in 0 .. k PROVE SubSeq(p, 1, j) = SubSeq(q, 1, j)
  <2>1. /\ SubSeq(p, 1, j) = [i \in 1 .. j |-> p[i]] /\ SubSeq(q, 1, j) = [i \in 1 .. j |-> q[i]]
        /\ \A i \in 1 .. j : p[i] = q[i]
    BY <1>1
  <2> QED  BY <2>1
<1>3. ASSUME k # 0
      PROVE  Front(p) = SubSeq(q, 1, k - 1) /\ Last(p) = q[k] /\ p # <<>> /\ p = Append(SubSeq(q, 1, k - 1), q[k])
  <2>1. k - 1 \in 0 .. k /\ k \in 1 .. k
    BY <1>1, <1>3
  <2>2. Last(p) = q[k]
    BY <1>1, <2>1 DEF Last
  <2>3. p # <<>>
    BY <1>1, <1>3
  <2>4. Front(p) = SubSeq(p, 1, k - 1)
    BY <1>1 DEF Front
  <2>5. Front(p) = SubSeq(q, 1, k - 1)
    BY <1>2, <2>1, <2>4
  <2> HIDE DEF p
  <2>6. p = Append(Front(p), Last(p))
    BY <1>1, <2>3, FrontAndLast
  <2> QED  BY <2>2, <2>3, <2>5, <2>6
<1> HIDE DEF p
<1> QED  BY <1>1, <1>2, <1>3 DEF p

LEMMA PrefixIs ==
  ASSUME NEW p \in Seq(STRING), NEW q \in Seq(STRING)
  PROVE  IsPrefix(p, q) <=> Len(p) <= Len(q) /\ p = SubSeq(q, 1, Len(p))
BY DEF IsPrefix

\* Everything on the way to a place is a place, and a directory if there is something
\* at its end.
LEMMA Ancestors ==
  ASSUME NEW a \in Tree, NEW q \in Place, NEW k \in 0 .. Len(q)
  PROVE  /\ SubSeq(q, 1, k) \in Place
         /\ a[q].kind # "none" => a[SubSeq(q, 1, k)].kind # "none"
         /\ a[q].kind # "none" /\ k < Len(q) => a[SubSeq(q, 1, k)].kind = "dir"
<1> DEFINE Way(j) == SubSeq(q, 1, j)
           Fine(j) == /\ Way(j) \in Place
                      /\ a[q].kind # "none" => a[Way(j)].kind # "none"
                      /\ a[q].kind # "none" /\ j < Len(q) => a[Way(j)].kind = "dir"
           T == {n \in 0 .. Len(q) : ~Fine(Len(q) - n)}
<1>1. q \in Seq(STRING) /\ Len(q) \in Nat
  BY PlaceIs
<1>2. T \in SUBSET Nat
  OBVIOUS
<1>3. 0 \notin T
  <2>1. Len(q) - 0 = Len(q) /\ Way(Len(q)) = q
    BY <1>1
  <2> HIDE DEF Way
  <2> QED  BY <1>1, <2>1
<1>4. ASSUME NEW n \in T, n # 0, n - 1 \notin T PROVE FALSE
  <2> DEFINE j == Len(q) - n
  <2>1. j \in 0 .. Len(q) /\ j + 1 \in 0 .. Len(q) /\ j + 1 # 0 /\ j + 1 - 1 = j /\ Len(q) - (n - 1) = j + 1
        /\ n - 1 \in 0 .. Len(q) /\ j < Len(q)
    BY <1>1, <1>4
  <2>2. Fine(j + 1)
    BY <1>4, <2>1
  <2>3. Way(j) = Front(Way(j + 1)) /\ Way(j + 1) # <<>>
    <3> DEFINE m == j + 1
    <3>1. m \in 0 .. Len(q) /\ m # 0 /\ m - 1 = j
      BY <2>1
    <3> HIDE DEF m, j
    <3>2. Front(Way(m)) = Way(m - 1) /\ Way(m) # <<>>
      BY <1>1, <3>1, Shorter
    <3> QED  BY <3>1, <3>2 DEF m
  <2> HIDE DEF j
  <2> HIDE DEF Way
  <2>4. Way(j) \in Place
    BY <2>2, <2>3, PlaceIs
  <2>5. a[q].kind # "none" => a[Way(j)].kind = "dir"
    BY <2>2, <2>3, <2>4 DEF Tree
  <2>6. Fine(j)
    BY <2>4, <2>5
  <2> QED  BY <1>4, <2>6 DEF j
<1> HIDE DEF T
<1>5. T = {}
  BY <1>2, <1>3, <1>4, Induction
<1>6. Len(q) - k \in 0 .. Len(q) /\ Len(q) - (Len(q) - k) = k
  BY <1>1
<1> DEFINE n == Len(q) - k
<1>7. n \in 0 .. Len(q) /\ Len(q) - n = k
  BY <1>6
<1> HIDE DEF n, Fine
<1>8. Fine(k)
  BY <1>5, <1>7 DEF T
<1> QED  BY <1>8 DEF Fine

\* The next place on the way from n to q, which is there.
LEMMA OnTheWay ==
  ASSUME tree \in Tree, NEW n \in Place, NEW q \in Place, IsPrefix(n, q), Len(n) < Len(q),
         tree[q].kind # "none"
  PROVE  LET e == q[Len(n) + 1]
             p == Append(n, e) IN
         /\ p \in Place \ {<<>>} /\ p = SubSeq(q, 1, Len(n) + 1) /\ Len(p) = Len(n) + 1 /\ IsPrefix(p, q)
         /\ n = SubSeq(q, 1, Len(n)) /\ tree[n].kind = "dir" /\ tree[p].kind # "none"
         /\ Len(p) < Len(q) => tree[p].kind = "dir"
         /\ Len(p) = Len(q) => p = q
         /\ e \in Below(n) /\ Last(p) = e /\ Front(p) = n
<1> DEFINE k == Len(n)
           m == k + 1
           e == q[m]
           p == SubSeq(q, 1, m)
<1>1. n \in Seq(STRING) /\ q \in Seq(STRING) /\ k \in Nat /\ Len(q) \in Nat
  BY PlaceIs
<1>2. n = SubSeq(q, 1, k)
  BY <1>1, PrefixIs
<1>3. k \in 0 .. Len(q) /\ m \in 0 .. Len(q) /\ m # 0 /\ m - 1 = k /\ k < Len(q)
  BY <1>1
<1>4. tree[n].kind = "dir"
  <2> HIDE DEF k
  <2> QED  BY <1>2, <1>3, Ancestors
<1> HIDE DEF m
<1>5. /\ p \in Seq(STRING) /\ Len(p) = m /\ Front(p) = n /\ Last(p) = e /\ p # <<>> /\ p = Append(n, e)
  <2> DEFINE j == m - 1
  <2>1. SubSeq(q, 1, j) = n
    BY <1>2, <1>3
  <2>2. /\ p \in Seq(STRING) /\ Len(p) = m /\ Front(p) = SubSeq(q, 1, j) /\ Last(p) = q[m] /\ p # <<>>
        /\ p = Append(SubSeq(q, 1, j), q[m])
    BY <1>1, <1>3, Shorter
  <2> HIDE DEF j, p
  <2> QED  BY <2>1, <2>2
<1>6. p \in Place /\ tree[p].kind # "none" /\ (m < Len(q) => tree[p].kind = "dir")
  BY <1>3, Ancestors
<1>7. m = Len(q) => p = q
  BY <1>1
<1> HIDE DEF p
<1>8. IsPrefix(p, q)
  <2>1. Len(p) <= Len(q) /\ p = SubSeq(q, 1, Len(p))
    BY <1>1, <1>3, <1>5 DEF p
  <2> QED  BY <1>1, <1>5, <2>1, PrefixIs
<1>9. e \in Below(n)
  BY <1>5, <1>6 DEF Below
<1> HIDE DEF e
<1>10. e = q[Len(n) + 1] /\ p = SubSeq(q, 1, Len(n) + 1) /\ m = Len(n) + 1
  BY DEF e, m, p
<1> QED  BY <1>2, <1>4, <1>5, <1>6, <1>7, <1>8, <1>9, <1>10

\* What an entry of a directory stands for.
LEMMA EntryIs ==
  ASSUME tree \in Tree, NEW n \in Place, NEW e \in Below(n)
  PROVE  LET p == Append(n, e) IN
         /\ p \in Place \ {<<>>} /\ Front(p) = n /\ Last(p) = e /\ e \in STRING /\ e \notin Dots
         /\ tree[p].kind # "none" /\ (IsDir(n, e) <=> tree[p].kind = "dir")
         /\ n \in Seq(STRING) /\ p \in Seq(STRING) /\ Len(p) = Len(n) + 1 /\ Len(n) \in Nat
<1>1. PICK p \in Place \ {<<>>} : Front(p) = n /\ tree[p].kind # "none" /\ Last(p) = e
  BY DEF Below
<1>2. /\ p = Append(n, e) /\ e \in STRING /\ e \notin {".", ".."} /\ p \in Seq(STRING) /\ n \in Seq(STRING)
      /\ Len(n) = Len(p) - 1 /\ Len(p) \in Nat /\ Len(n) \in Nat
  BY <1>1, PlaceIs
<1>3. Len(p) = Len(n) + 1
  BY <1>2
<1> QED  BY <1>1, <1>2, <1>3 DEF IsDir, Dots

(***************************************************************************)
(* A scan goes on, or returns.                                             *)
(***************************************************************************)
LEMMA ScanStays ==
  ASSUME NEW t \in Thread, Steps(t), UNCHANGED tree
  PROVE  /\ \A f, h : OpenAt(t, f, h)' <=> OpenAt(t, f, h)
         /\ \A q : Matches(t, since[t], q)' <=> Matches(t, since[t], q)
         /\ \A q : Matches(t, tree, q)' <=> Matches(t, tree, q)
         /\ \A q : Asked(t, q)' <=> Asked(t, q)
         /\ \A q, out : Listed(t, q, out)' <=> Listed(t, q, out)
<1>1. req'[t] = req[t] /\ Target(t)' = Target(t) /\ since'[t] = since[t] /\ tree' = tree
  BY DEF Steps, Target
<1>2. ASSUME NEW f, NEW h PROVE OpenAt(t, f, h)' <=> OpenAt(t, f, h)
  <2>1. Below(f.at)' = Below(f.at)
    BY <1>1 DEF Below
  <2> QED  BY <1>1, <2>1 DEF OpenAt
<1>3. ASSUME NEW q PROVE Matches(t, since[t], q)' <=> Matches(t, since[t], q)
  BY <1>1 DEF Matches
<1>4. ASSUME NEW q PROVE Matches(t, tree, q)' <=> Matches(t, tree, q)
  BY <1>1 DEF Matches
<1>5. ASSUME NEW q PROVE Asked(t, q)' <=> Asked(t, q)
  BY <1>1 DEF Asked
<1>6. ASSUME NEW q, NEW out PROVE Listed(t, q, out)' <=> Listed(t, q, out)
  BY <1>1 DEF Listed
<1> QED  BY <1>2, <1>3, <1>4, <1>5, <1>6

LEMMA OpenStays ==
  ASSUME NEW t \in Thread, Steps(t), UNCHANGED tree, NEW i,
         OpenAt(t, stack'[t][i], Len(stack'[t]) - i)
  PROVE  OpenAt(t, stack[t][i], Len(stack[t]) - i)'
<1>1. ASSUME NEW f, f = stack'[t][i], NEW h, h = Len(stack'[t]) - i PROVE OpenAt(t, f, h)'
  BY <1>1, ScanStays
<1> QED  BY <1>1 DEF OpenAt

LEMMA SearchGoesOn ==
  ASSUME Inv, NEW t \in Thread, Active(t), Steps(t), UNCHANGED tree, req[t].op = "search", pc'[t] = "search",
         stack'[t] \in Seq(Folder), stack'[t] # <<>>, fds'[t] = Len(stack'[t]),
         \A i \in 1 .. Len(stack'[t]) : OpenAt(t, stack'[t][i], Len(stack'[t]) - i),
         \A q \in Place \ {<<>>} :
           Matches(t, since[t], q) => \E i \in 1 .. Len(stack'[t]) : Under(stack'[t][i], q)
  PROVE  Inv'
<1>1. tree' \in Tree /\ Grown(tree, tree') /\ \A u \in Thread : Kept(u)
  BY TreeStays DEF Inv
<1>2. req'[t] = req[t]
  BY DEF Steps
<1>3. Handles(t)' /\ Making(t)' /\ Using(t)' /\ Told(t)'
  BY <1>2 DEF Handles, Making, Using, Told, Returned
<1>4. Scanning(t)'
  <2>1. ASSUME NEW i \in 1 .. Len(stack'[t]) PROVE OpenAt(t, stack[t][i], Len(stack[t]) - i)'
    BY OpenStays
  <2>2. \A q \in Place \ {<<>>} :
           Matches(t, since[t], q)' => \E i \in 1 .. Len(stack'[t]) : Under(stack'[t][i], q)
    BY ScanStays
  <2> QED  BY <2>1, <2>2 DEF Scanning
<1> QED  BY <1>1, <1>3, <1>4, OneSteps

LEMMA ListGoesOn ==
  ASSUME Inv, NEW t \in Thread, Active(t), Steps(t), UNCHANGED tree, req[t].op = "list", pc'[t] = "list",
         stack'[t] \in Seq(Folder), stack'[t] # <<>>, fds'[t] = Len(stack'[t]),
         \A i \in 1 .. Len(stack'[t]) : OpenAt(t, stack'[t][i], Len(stack'[t]) - i),
         \A q \in Place \ {<<>>} : Asked(t, q) =>
           /\ Last(q) \in stack'[t][1].saw
           /\ IF Last(q) \in stack'[t][1].seen THEN Listed(t, q, buf'[t])
              ELSE ~Contains(buf'[t], Last(q))
  PROVE  Inv'
<1>1. tree' \in Tree /\ Grown(tree, tree') /\ \A u \in Thread : Kept(u)
  BY TreeStays DEF Inv
<1>2. req'[t] = req[t]
  BY DEF Steps
<1>3. Handles(t)' /\ Making(t)' /\ Using(t)' /\ Told(t)'
  BY <1>2 DEF Handles, Making, Using, Told, Returned
<1>4. Scanning(t)'
  <2>1. ASSUME NEW i \in 1 .. Len(stack'[t]) PROVE OpenAt(t, stack[t][i], Len(stack[t]) - i)'
    BY OpenStays
  <2>2. \A q \in Place \ {<<>>} : Asked(t, q)' =>
           /\ Last(q) \in stack'[t][1].saw
           /\ IF Last(q) \in stack'[t][1].seen THEN Listed(t, q, buf[t])'
              ELSE ~Contains(buf'[t], Last(q))
    <3>1. SUFFICES ASSUME NEW q \in Place \ {<<>>}, Asked(t, q)'
                   PROVE  /\ Last(q) \in stack'[t][1].saw
                          /\ IF Last(q) \in stack'[t][1].seen THEN Listed(t, q, buf[t])'
                             ELSE ~Contains(buf'[t], Last(q))
      OBVIOUS
    <3>2. Asked(t, q)
      BY <3>1, ScanStays
    <3>3. Listed(t, q, buf'[t]) => Listed(t, q, buf[t])'
      BY <1>2 DEF Listed, Steps
    <3> QED  BY <3>2, <3>3
  <2> QED  BY <2>1, <2>2 DEF Scanning
<1> QED  BY <1>1, <1>3, <1>4, OneSteps

LEMMA ScanReturns ==
  ASSUME Inv, NEW t \in Thread, Active(t), Steps(t), UNCHANGED tree, req[t].op \in {"search", "list"},
         pc'[t] = "returned", fds'[t] = 0 \/ ret'[t].code = Throws,
         req[t].op = "search" /\ ret'[t].code = True =>
           ret'[t].out \in Place \ {<<>>} /\ Matches(t, tree, ret'[t].out),
         req[t].op = "search" /\ ret'[t].code = False => \A q \in Place \ {<<>>} : ~Matches(t, since[t], q),
         req[t].op = "list" /\ ret'[t].code = False =>
           \A q \in Place \ {<<>>} : Asked(t, q) => Listed(t, q, ret'[t].out)
  PROVE  Inv'
<1>1. tree' \in Tree /\ Grown(tree, tree') /\ \A u \in Thread : Kept(u)
  BY TreeStays DEF Inv
<1>2. req'[t] = req[t] /\ since'[t] = since[t] /\ Target(t)' = Target(t)
  BY DEF Steps, Target
<1>3. Handles(t)' /\ Making(t)' /\ Using(t)' /\ Scanning(t)'
  BY <1>2 DEF Handles, Making, Using, Scanning
<1>4. Told(t)'
  <2>1. Matches(t, tree, ret'[t].out) => Matches(t, tree, ret[t].out)'
    BY <1>2 DEF Matches
  <2>2. \A q : Matches(t, since[t], q)' <=> Matches(t, since[t], q)
    BY ScanStays
  <2>3. \A q : Asked(t, q)' => Asked(t, q)
    BY ScanStays
  <2>4. \A q : Listed(t, q, ret'[t].out) => Listed(t, q, ret[t].out)'
    BY <1>2 DEF Listed
  <2> QED  BY <1>2, <2>1, <2>2, <2>3, <2>4 DEF Told, Returned
<1> QED  BY <1>1, <1>3, <1>4, OneSteps

\* What matched, or was asked for, lies behind an entry of the target.
LEMMA MatchIs ==
  ASSUME Inv, NEW t \in Thread, NEW q \in Place \ {<<>>}, Matches(t, since[t], q)
  PROVE  /\ IsPrefix(Target(t), q) /\ Len(Target(t)) < Len(q) /\ Len(q) - Len(Target(t)) <= req[t].depth
         /\ tree[q].kind # "none" /\ tree[q].kind # "dir" /\ Last(q) \in req[t].hits
         /\ \A k \in Len(Target(t)) .. Len(q) - 1 : SubSeq(q, 1, k) \notin Denied
         /\ Target(t) \in Place /\ Len(Target(t)) \in Nat /\ Len(q) \in Nat /\ q \in Seq(STRING)
<1>1. Target(t) \in Place /\ Grown(since[t], tree)
  BY TargetIs DEF Inv, Own
<1>2. Len(Target(t)) \in Nat /\ Len(q) \in Nat /\ q \in Seq(STRING)
  BY <1>1, PlaceIs
<1>3. /\ IsPrefix(Target(t), q) /\ Len(q) - Len(Target(t)) \in 1 .. req[t].depth /\ IsFile(since[t][q])
      /\ \A k \in Len(Target(t)) .. Len(q) - 1 : SubSeq(q, 1, k) \notin Denied /\ Last(q) \in req[t].hits
  BY <1>2 DEF Matches, Reachable
<1>4. tree[q].kind # "none" /\ tree[q].kind # "dir"
  BY <1>1, <1>3 DEF IsFile, Grown
<1>5. Len(Target(t)) < Len(q) /\ Len(q) - Len(Target(t)) <= req[t].depth /\ Last(q) \in req[t].hits
  BY <1>2, <1>3 DEF Matches
<1> QED  BY <1>1, <1>2, <1>3, <1>4, <1>5

LEMMA AskedIs ==
  ASSUME Inv, NEW t \in Thread, NEW q \in Place \ {<<>>}, Asked(t, q)
  PROVE  /\ Target(t) \in Place /\ q = Append(Target(t), Last(q)) /\ Last(q) \in Below(Target(t))
         /\ tree[q].kind = since[t][q].kind /\ since[t][q].kind \in {"dir", "reg"}
         /\ tree[Target(t)].kind = "dir" /\ Target(t) \notin Denied
<1>1. Target(t) \in Place /\ Grown(since[t], tree) /\ tree \in Tree
  BY TargetIs DEF Inv, Own, Shapes
<1>2. Front(q) = Target(t) /\ Target(t) \notin Denied /\ since[t][q].kind \in {"dir", "reg"}
  BY DEF Asked
<1>3. tree[q].kind = since[t][q].kind
  BY <1>1, <1>2 DEF Grown
<1>4. tree[Target(t)].kind = "dir"
  BY <1>1, <1>2, <1>3 DEF Tree
<1>5. Last(q) \in Below(Target(t))
  BY <1>2, <1>3 DEF Below
<1>6. q = Append(Target(t), Last(q))
  BY <1>2, PlaceIs
<1> QED  BY <1>1, <1>2, <1>3, <1>4, <1>5, <1>6

\* A directory just opened.
LEMMA OpenedIs ==
  ASSUME tree \in Tree, NEW t \in Thread, NEW n \in Place, NEW h \in Nat, NEW d \in Int,
         CanScan(n), Len(n) = Len(Target(t)) + h, d = req[t].depth - h, d >= 1, IsPrefix(Target(t), n),
         \A k \in Len(Target(t)) .. Len(n) - 1 : SubSeq(n, 1, k) \notin Denied
  PROVE  Frame(n, d) \in Folder /\ OpenAt(t, Frame(n, d), h)
<1>1. Below(n) \subseteq STRING
  BY EntryIs
<1>2. Frame(n, d) \in Folder
  BY <1>1 DEF Frame, Folder
<1>3. n \in Seq(STRING) /\ SubSeq(n, 1, Len(n)) = n /\ Len(n) \in Nat
  <2>1. n \in Seq(STRING)
    BY PlaceIs
  <2> QED  BY <2>1
<1>4. ASSUME NEW k \in Len(Target(t)) .. Len(n) PROVE SubSeq(n, 1, k) \notin Denied
  <2>1. CASE k = Len(n)
    BY <1>3, <2>1 DEF CanScan
  <2>2. CASE k # Len(n)
    <3>1. k \in Len(Target(t)) .. Len(n) - 1
      BY <1>3, <2>2
    <3> QED  BY <3>1
  <2> QED  BY <2>1, <2>2
<1> QED  BY <1>2, <1>4 DEF OpenAt, Frame, CanScan

LEMMA ScanIs ==
  ASSUME Inv, NEW t \in Thread, pc[t] \in {"opendir", "search", "list"}
  PROVE  /\ Shapes /\ Active(t) /\ Scanning(t) /\ tree \in Tree /\ Target(t) \in Place
         /\ Target(t) = Names(req[t].path) /\ req[t].op \in {"search", "list"}
         /\ pc[t] = "search" => req[t].op = "search"
         /\ pc[t] = "list" => req[t].op = "list"
         /\ req[t].depth \in Int /\ req[t].hits \subseteq STRING /\ req[t].valid \in BOOLEAN
         /\ req[t].op = "list" => req[t].depth = 1
         /\ pc[t] = "opendir" => fds[t] = 0 /\ buf[t] = <<>>
         /\ pc[t] # "opendir" => fds[t] = Len(stack[t])
         /\ buf[t] \in Seq(STRING) /\ Target(t) \in Seq(STRING)
         /\ Len(Target(t)) \in Nat
<1>1. Shapes /\ Own(t)
  BY DEF Inv
<1>2. Target(t) \in Place /\ req[t] \in Request
  BY <1>1, TargetIs
<1>3. /\ req[t].op \in {"search", "list"}
      /\ pc[t] = "search" => req[t].op = "search"
      /\ pc[t] = "list" => req[t].op = "list"
  BY <1>1, OpIs
<1>4. /\ pc[t] = "opendir" => fds[t] = 0 /\ buf[t] = <<>>
      /\ pc[t] # "opendir" => fds[t] = Len(stack[t])
      /\ Active(t) /\ Scanning(t)
  BY <1>1 DEF Own, Handles, Scanning, Active
<1>5. tree \in Tree /\ buf[t] \in Seq(STRING)
  BY <1>1 DEF Shapes
<1>6. Target(t) \in Seq(STRING) /\ Len(Target(t)) \in Nat
  BY <1>2, PlaceIs
<1> QED  BY <1>1, <1>2, <1>3, <1>4, <1>5, <1>6, RequestAssumption DEF Target

LEMMA OpenDirStep ==
  ASSUME Inv, NEW t \in Thread, OpenDir(t)
  PROVE  Inv'
<1> DEFINE n == Target(t)
           d == req[t].depth
<1>1. pc[t] = "opendir" /\ UNCHANGED tree /\ UNCHANGED buf
  BY DEF OpenDir, At
<1>2. /\ Shapes /\ Active(t) /\ tree \in Tree /\ n \in Place /\ n = Names(req[t].path)
      /\ req[t].op \in {"search", "list"} /\ d \in Int /\ (req[t].op = "list" => d = 1)
      /\ fds[t] = 0 /\ buf[t] = <<>> /\ n \in Seq(STRING) /\ Len(n) \in Nat
  BY <1>1, ScanIs
<1>3. ASSUME d > 0, CanScan(n), Goto(t, req[t].op), stack' = [stack EXCEPT ![t] = <<Frame(n, d)>>],
             fds' = [fds EXCEPT ![t] = fds[t] + 1]
      PROVE  Inv'
  <2> DEFINE f == Frame(n, d)
  <2>1. f \in Folder /\ OpenAt(t, f, 0)
    <3>1. /\ d - 0 = d /\ d >= 1 /\ Len(n) + 0 = Len(n) /\ IsPrefix(n, n)
          /\ \A k \in Len(n) .. Len(n) - 1 : SubSeq(n, 1, k) \notin Denied
      BY <1>2, <1>3 DEF IsPrefix
    <3>2. d = d - 0 /\ Len(n) = Len(n) + 0 /\ 0 \in Nat
      BY <3>1
    <3> QED  BY <1>2, <1>3, <3>1, <3>2, OpenedIs
  <2>2. f.at = n /\ f.saw = Below(n) /\ f.seen = {}
    BY DEF Frame
  <2>3. req[t].op \in Step /\ req[t].op \in StepsOf[req[t].op]
    BY <1>2 DEF Step, StepsOf
  <2> HIDE DEF f
  <2>4. Only(t) /\ stack'[t] = <<f>> /\ buf'[t] = <<>> /\ fds'[t] = 1
    <3>1. fds' = [fds EXCEPT ![t] = 1]
      BY <1>2, <1>3
    <3>2. stack' = [stack EXCEPT ![t] = <<f>>]
      BY <1>3 DEF f
    <3>3. stack'[t] = <<f>> /\ stack' = [stack EXCEPT ![t] = stack'[t]]
      BY <1>2, <3>2, Writing
    <3>4. fds'[t] = 1 /\ fds' = [fds EXCEPT ![t] = fds'[t]]
      BY <1>2, <3>1, Writing
    <3>5. buf'[t] = buf[t] /\ buf' = [buf EXCEPT ![t] = buf'[t]] /\ buf'[t] \in Seq(STRING)
      BY <1>1, <1>2, Writing
    <3> QED  BY <1>2, <3>3, <3>4, <3>5 DEF Only
  <2>5. Steps(t) /\ pc'[t] = req[t].op
    BY <1>2, <1>3, <2>3, <2>4, GotoSteps
  <2>6. /\ stack'[t] \in Seq(Folder) /\ stack'[t] # <<>> /\ fds'[t] = Len(stack'[t])
        /\ \A i \in 1 .. Len(stack'[t]) : OpenAt(t, stack'[t][i], Len(stack'[t]) - i)
        /\ Len(stack'[t]) = 1 /\ stack'[t][1] = f
    <3>1. /\ <<f>> \in Seq(Folder) /\ <<f>> # <<>> /\ Len(<<f>>) = 1 /\ <<f>>[1] = f
      BY <2>1
    <3>2. \A i \in 1 .. 1 : OpenAt(t, <<f>>[i], 1 - i)
      <4>1. SUFFICES ASSUME NEW i, i = 1 PROVE OpenAt(t, <<f>>[i], 1 - i)
        OBVIOUS
      <4>2. 1 - i = 0 /\ <<f>>[i] = f
        BY <4>1
      <4> QED  BY <2>1, <4>2
    <3> QED  BY <2>4, <3>1, <3>2
  <2>7. CASE req[t].op = "search"
    <3>1. ASSUME NEW q \in Place \ {<<>>}, Matches(t, since[t], q)
          PROVE  \E i \in 1 .. Len(stack'[t]) : Under(stack'[t][i], q)
      <4>1. IsPrefix(n, q) /\ Len(n) < Len(q) /\ tree[q].kind # "none"
        BY <3>1, MatchIs
      <4>2. q[Len(n) + 1] \in Below(n)
        BY <1>2, <4>1, OnTheWay
      <4>3. Under(f, q)
        BY <1>2, <2>2, <4>1, <4>2 DEF Under
      <4> QED  BY <2>6, <4>3
    <3> QED  BY <1>1, <1>2, <2>5, <2>6, <2>7, <3>1, SearchGoesOn
  <2>8. CASE req[t].op = "list"
    <3>1. ASSUME NEW q \in Place \ {<<>>}, Asked(t, q)
          PROVE  /\ Last(q) \in stack'[t][1].saw
                 /\ IF Last(q) \in stack'[t][1].seen THEN Listed(t, q, buf'[t])
                    ELSE ~Contains(buf'[t], Last(q))
      <4>1. Last(q) \in Below(n)
        BY <3>1, AskedIs
      <4>2. ~Contains(<<>>, Last(q))
        BY DEF Contains
      <4> QED  BY <2>2, <2>4, <2>6, <4>1, <4>2
    <3> QED  BY <1>1, <1>2, <2>5, <2>6, <2>8, <3>1, ListGoesOn
  <2> QED  BY <1>2, <2>7, <2>8
<1>4. ASSUME ~(d > 0 /\ CanScan(n)), Return(t, False, <<>>), UNCHANGED <<stack, fds>> PROVE Inv'
  <2>1. UNCHANGED local /\ False \in Int /\ <<>> \in Seq(STRING)
    BY <1>1, <1>4 DEF local, False
  <2>2. /\ Steps(t) /\ pc'[t] = "returned" /\ fds'[t] = 0
        /\ ret'[t] = [code |-> False, out |-> <<>>]
    BY <1>2, <1>4, <2>1, StaysReturn
  <2>3. ret'[t].code # True
    BY <2>2 DEF True, False
  <2>4. ASSUME NEW q \in Place \ {<<>>}, Matches(t, since[t], q) PROVE FALSE
    <3>1. /\ IsPrefix(n, q) /\ Len(n) < Len(q) /\ Len(q) - Len(n) <= d /\ tree[q].kind # "none"
          /\ \A k \in Len(n) .. Len(q) - 1 : SubSeq(q, 1, k) \notin Denied /\ Len(q) \in Nat
      BY <2>4, MatchIs
    <3>2. n = SubSeq(q, 1, Len(n)) /\ tree[n].kind = "dir" /\ Len(q) \in Nat
      BY <1>2, <2>4, <3>1, MatchIs, OnTheWay
    <3>3. Len(n) \in Len(n) .. Len(q) - 1
      BY <1>2, <3>1, <3>2
    <3>4. n \notin Denied
      BY <3>1, <3>2, <3>3
    <3>5. d > 0
      BY <1>2, <3>1, <3>2
    <3> QED  BY <1>4, <3>2, <3>4, <3>5 DEF CanScan
  <2>5. req[t].op = "list" => \A q \in Place \ {<<>>} : ~Asked(t, q)
    <3>1. SUFFICES ASSUME req[t].op = "list", NEW q \in Place \ {<<>>}, Asked(t, q) PROVE FALSE
      OBVIOUS
    <3>2. tree[n].kind = "dir" /\ n \notin Denied
      BY <3>1, AskedIs
    <3> QED  BY <1>2, <1>4, <3>1, <3>2 DEF CanScan
  <2> QED  BY <1>1, <1>2, <2>2, <2>3, <2>4, <2>5, ScanReturns
<1> QED  BY <1>2, <1>3, <1>4 DEF OpenDir

\* The stack of a search or of a list, and the directory it is in.
LEMMA StackIs ==
  ASSUME Inv, NEW t \in Thread, pc[t] \in {"search", "list"}
  PROVE  /\ stack[t] \in Seq(Folder) /\ stack[t] # <<>> /\ Len(stack[t]) \in Nat \ {0}
         /\ \A i \in 1 .. Len(stack[t]) : OpenAt(t, stack[t][i], Len(stack[t]) - i)
         /\ Here(t) = stack[t][1].at /\ Here(t) \in Place /\ stack[t][1] \in Folder
         /\ Here(t) \in Seq(STRING) /\ Len(Here(t)) \in Nat
         /\ Len(Here(t)) = Len(Target(t)) + Len(stack[t]) - 1 /\ IsPrefix(Target(t), Here(t))
         /\ stack[t][1].depth = req[t].depth - (Len(stack[t]) - 1) /\ stack[t][1].depth >= 1
         /\ \A k \in Len(Target(t)) .. Len(Here(t)) : SubSeq(Here(t), 1, k) \notin Denied
         /\ stack[t][1].saw \subseteq Below(Here(t)) /\ Len(stack[t]) <= req[t].depth
<1>1. /\ stack[t] \in Seq(Folder) /\ stack[t] # <<>>
      /\ \A i \in 1 .. Len(stack[t]) : OpenAt(t, stack[t][i], Len(stack[t]) - i)
  BY DEF Inv, Own, Scanning
<1> DEFINE m == Len(stack[t])
           f == stack[t][1]
<1>2. m \in Nat \ {0}
  BY <1>1, EmptySeq
<1>3. 1 \in 1 .. m
  BY <1>2
<1>4. f \in Folder /\ OpenAt(t, f, m - 1)
  BY <1>1, <1>3
<1>5. f.at = Here(t)
  BY DEF Here
<1> HIDE DEF m, f
<1>6. /\ Here(t) \in Place /\ Len(Here(t)) = Len(Target(t)) + (m - 1) /\ IsPrefix(Target(t), Here(t))
      /\ f.depth = req[t].depth - (m - 1) /\ f.depth >= 1
      /\ \A k \in Len(Target(t)) .. Len(Here(t)) : SubSeq(Here(t), 1, k) \notin Denied
      /\ f.saw \subseteq Below(Here(t))
  BY <1>4, <1>5 DEF OpenAt
<1>7. /\ Here(t) \in Seq(STRING) /\ Len(Here(t)) \in Nat /\ req[t].depth \in Int /\ Len(Target(t)) \in Nat
  BY <1>6, PlaceIs, ScanIs
<1>8. m <= req[t].depth /\ Len(Here(t)) = Len(Target(t)) + m - 1
  BY <1>2, <1>6, <1>7
<1> QED  BY <1>1, <1>2, <1>4, <1>5, <1>6, <1>7, <1>8 DEF m, f

\* An entry is marked as read.
LEMMA SeenIs ==
  ASSUME Shapes, NEW t \in Thread, stack[t] \in Seq(Folder), stack[t] # <<>>, NEW e \in STRING \cup Dots
  PROVE  LET s == Seen(t, e)[t] IN
         /\ s \in Seq(Folder) /\ Len(s) = Len(stack[t]) /\ Len(s) \in Nat \ {0}
         /\ \A i \in 2 .. Len(s) : s[i] = stack[t][i]
         /\ s[1].at = stack[t][1].at /\ s[1].saw = stack[t][1].saw /\ s[1].depth = stack[t][1].depth
         /\ s[1].seen = stack[t][1].seen \cup {e}
         /\ Seen(t, e) = [stack EXCEPT ![t] = s]
<1> DEFINE m == Len(stack[t])
           f == stack[t][1]
           g == [f EXCEPT !.seen = f.seen \cup {e}]
           s == [stack[t] EXCEPT ![1] = g]
<1>1. m \in Nat \ {0} /\ 1 \in 1 .. m
  BY EmptySeq
<1>2. f \in Folder
  BY <1>1
<1>3. g \in Folder /\ g.at = f.at /\ g.saw = f.saw /\ g.depth = f.depth /\ g.seen = f.seen \cup {e}
  BY <1>2 DEF Folder
<1>4. t \in DOMAIN stack
  BY DEF Shapes
<1>5. Seen(t, e) = [stack EXCEPT ![t] = s]
  BY DEF Seen
<1>6. Seen(t, e)[t] = s
  BY <1>4, <1>5
<1> HIDE DEF g
<1>7. s \in Seq(Folder) /\ Len(s) = m /\ s[1] = g /\ \A i \in 2 .. m : s[i] = stack[t][i]
  BY <1>1, <1>3
<1> HIDE DEF s, m, f
<1>8. Seen(t, e) = [stack EXCEPT ![t] = Seen(t, e)[t]]
  BY <1>5, <1>6
<1> QED  BY <1>1, <1>3, <1>6, <1>7, <1>8 DEF m, f

\* Opening goes on at the same places when entries have been read.
LEMMA OpenSeen ==
  ASSUME NEW t \in Thread, NEW f, NEW g, NEW h, g.at = f.at, g.saw = f.saw, g.depth = f.depth, OpenAt(t, f, h)
  PROVE  OpenAt(t, g, h)
BY DEF OpenAt

\* What is still to be found behind the entry e of the directory being read: the search
\* goes down there if e is a directory, and e is a name it looks for if not.
LEMMA Behind ==
  ASSUME Inv, NEW t \in Thread, pc[t] = "search", NEW q \in Place \ {<<>>}, Matches(t, since[t], q),
         Under(stack[t][1], q), NEW e, e = q[Len(Here(t)) + 1]
  PROVE  LET p == Append(Here(t), e) IN
         /\ e \in Below(Here(t)) /\ IsPrefix(p, q)
         /\ IF IsDir(Here(t), e) THEN Descends(t, e) /\ Len(p) < Len(q) /\ q[Len(p) + 1] \in Below(p)
            ELSE e \in req[t].hits
<1> DEFINE n == Here(t)
           p == Append(n, e)
           T == Target(t)
           m == Len(stack[t])
<1>1. /\ tree \in Tree /\ req[t].depth \in Int /\ Len(T) \in Nat
  BY ScanIs
<1>2. /\ n \in Place /\ n \in Seq(STRING) /\ Len(n) \in Nat /\ n = stack[t][1].at /\ m \in Nat \ {0}
      /\ Len(n) = Len(T) + m - 1 /\ stack[t][1].depth = req[t].depth - (m - 1)
  BY StackIs
<1>3. /\ Len(q) - Len(T) <= req[t].depth /\ tree[q].kind # "none" /\ tree[q].kind # "dir"
      /\ Last(q) \in req[t].hits /\ Len(q) \in Nat /\ q \in Seq(STRING)
      /\ \A k \in Len(T) .. Len(q) - 1 : SubSeq(q, 1, k) \notin Denied
  BY MatchIs
<1>4. IsPrefix(n, q) /\ Len(n) < Len(q)
  BY <1>2, <1>3 DEF Under
<1>5. /\ p \in Place \ {<<>>} /\ p = SubSeq(q, 1, Len(n) + 1) /\ Len(p) = Len(n) + 1 /\ IsPrefix(p, q)
      /\ tree[p].kind # "none"
      /\ Len(p) < Len(q) => tree[p].kind = "dir"
      /\ Len(p) = Len(q) => p = q
      /\ e \in Below(n) /\ Last(p) = e
  <2> DEFINE x == q[Len(n) + 1]
             y == Append(n, x)
  <2>1. /\ y \in Place \ {<<>>} /\ y = SubSeq(q, 1, Len(n) + 1) /\ Len(y) = Len(n) + 1 /\ IsPrefix(y, q)
        /\ tree[y].kind # "none"
        /\ Len(y) < Len(q) => tree[y].kind = "dir"
        /\ Len(y) = Len(q) => y = q
        /\ x \in Below(n) /\ Last(y) = x
    <3> HIDE DEF n
    <3> QED  BY <1>1, <1>2, <1>3, <1>4, OnTheWay
  <2>2. x = e /\ y = p
    OBVIOUS
  <2> HIDE DEF x, y, n, p
  <2> QED  BY <2>1, <2>2
<1>6. IsDir(n, e) <=> tree[p].kind = "dir"
  BY <1>1, <1>2, <1>5, EntryIs
<1> HIDE DEF n, p, T, m
<1>7. Len(p) < Len(q) \/ p = q
  BY <1>2, <1>3, <1>4, <1>5
<1>8. CASE IsDir(n, e)
  <2>1. Len(p) < Len(q)
    BY <1>3, <1>6, <1>7, <1>8
  <2>2. q[Len(p) + 1] \in Below(p)
    BY <1>1, <1>3, <1>5, <2>1, OnTheWay
  <2>3. Len(n) + 1 \in Len(T) .. Len(q) - 1
    BY <1>1, <1>2, <1>3, <1>5, <2>1
  <2>4. p \notin Denied
    BY <1>3, <1>5, <2>3
  <2>5. stack[t][1].depth > 1
    BY <1>1, <1>2, <1>3, <1>5, <2>1
  <2>6. Descends(t, e)
    BY <1>6, <1>8, <2>4, <2>5 DEF Descends, CanScan, n, p
  <2> QED  BY <1>5, <1>8, <2>1, <2>2, <2>6 DEF n, p
<1>9. CASE ~IsDir(n, e)
  <2>1. p = q
    BY <1>5, <1>6, <1>7, <1>9
  <2> QED  BY <1>3, <1>5, <1>9, <2>1 DEF n, p
<1> QED  BY <1>8, <1>9

LEMMA SearchPassesStep ==
  ASSUME Inv, NEW t \in Thread, SearchPasses(t)
  PROVE  Inv'
<1>1. pc[t] = "search" /\ UNCHANGED tree /\ UNCHANGED <<buf, fds>> /\ Goto(t, "search")
  BY DEF SearchPasses, At
<1>2. PICK e \in Given(t) : Passes(t, e) /\ stack' = Seen(t, e)
  BY DEF SearchPasses
<1>3. /\ Shapes /\ Active(t) /\ Scanning(t) /\ tree \in Tree /\ req[t].op = "search"
      /\ fds[t] = Len(stack[t])
  BY <1>1, ScanIs
<1>4. /\ stack[t] \in Seq(Folder) /\ stack[t] # <<>> /\ Len(stack[t]) \in Nat \ {0}
      /\ \A i \in 1 .. Len(stack[t]) : OpenAt(t, stack[t][i], Len(stack[t]) - i)
      /\ Here(t) = stack[t][1].at /\ Here(t) \in Place
  BY <1>1, StackIs
<1>5. e \in Below(Here(t)) /\ e \notin stack[t][1].seen
  BY <1>2, <1>3 DEF Given
<1>6. e \in STRING \cup Dots
  BY <1>3, <1>4, <1>5, EntryIs
<1> DEFINE s == Seen(t, e)[t]
<1>7. /\ s \in Seq(Folder) /\ Len(s) = Len(stack[t]) /\ Len(s) \in Nat \ {0}
      /\ \A i \in 2 .. Len(s) : s[i] = stack[t][i]
      /\ s[1].at = stack[t][1].at /\ s[1].saw = stack[t][1].saw /\ s[1].depth = stack[t][1].depth
      /\ s[1].seen = stack[t][1].seen \cup {e}
      /\ Seen(t, e) = [stack EXCEPT ![t] = s]
  BY <1>3, <1>4, <1>6, SeenIs
<1> HIDE DEF s
<1>8. stack' = [stack EXCEPT ![t] = s] /\ s # <<>>
  BY <1>2, <1>7
<1>9. stack'[t] = s /\ stack' = [stack EXCEPT ![t] = stack'[t]]
  BY <1>3, <1>8, Writing
<1>10. Steps(t) /\ pc'[t] = "search" /\ fds'[t] = Len(s)
  <2>1. "search" \in Step /\ "search" \in StepsOf[req[t].op]
    BY <1>3 DEF Step, StepsOf
  <2> QED  BY <1>1, <1>3, <1>7, <1>9, <2>1, StaysGoto
<1>11. ASSUME NEW i \in 1 .. Len(s) PROVE OpenAt(t, s[i], Len(s) - i)
  <2>1. OpenAt(t, stack[t][i], Len(s) - i)
    BY <1>4, <1>7
  <2>2. CASE i = 1
    BY <1>7, <2>1, <2>2, OpenSeen
  <2>3. CASE i # 1
    <3>1. i \in 2 .. Len(s)
      BY <1>7, <2>3
    <3> QED  BY <1>7, <2>1, <3>1
  <2> QED  BY <2>2, <2>3
<1>12. ASSUME NEW q \in Place \ {<<>>}, Matches(t, since[t], q)
       PROVE  \E i \in 1 .. Len(s) : Under(s[i], q)
  <2>1. PICK i \in 1 .. Len(stack[t]) : Under(stack[t][i], q)
    BY <1>1, <1>3, <1>12 DEF Scanning
  <2>2. CASE i = 1
    <3>1. q[Len(Here(t)) + 1] # e
      <4>1. SUFFICES ASSUME e = q[Len(Here(t)) + 1] PROVE FALSE
        OBVIOUS
      <4>2. IF IsDir(Here(t), e) THEN Descends(t, e) ELSE e \in req[t].hits
        BY <1>1, <1>12, <2>1, <2>2, <4>1, Behind
      <4> QED  BY <1>2, <4>2 DEF Passes
    <3>2. Under(s[1], q)
      BY <1>4, <1>7, <2>1, <2>2, <3>1 DEF Under
    <3> QED  BY <1>7, <3>2
  <2>3. CASE i # 1
    <3>1. i \in 2 .. Len(s)
      BY <1>4, <1>7, <2>3
    <3> QED  BY <1>7, <2>1, <3>1
  <2> QED  BY <2>2, <2>3
<1> QED  BY <1>1, <1>3, <1>7, <1>8, <1>9, <1>10, <1>11, <1>12, SearchGoesOn

LEMMA SearchDescendsStep ==
  ASSUME Inv, NEW t \in Thread, SearchDescends(t)
  PROVE  Inv'
<1>1. /\ pc[t] = "search" /\ UNCHANGED tree /\ UNCHANGED buf /\ Goto(t, "search")
      /\ fds' = [fds EXCEPT ![t] = fds[t] + 1]
  BY DEF SearchDescends, At
<1>2. PICK e \in Given(t) :
        /\ Descends(t, e)
        /\ stack' = [Seen(t, e) EXCEPT ![t] =
             <<Frame(Append(Here(t), e), stack[t][1].depth - 1)>> \o Seen(t, e)[t]]
  BY DEF SearchDescends
<1>3. /\ Shapes /\ Active(t) /\ Scanning(t) /\ tree \in Tree /\ req[t].op = "search"
      /\ fds[t] = Len(stack[t]) /\ req[t].depth \in Int /\ Target(t) \in Seq(STRING) /\ Len(Target(t)) \in Nat
  BY <1>1, ScanIs
<1> DEFINE T == Target(t)
           n == Here(t)
           m == Len(stack[t])
           d == stack[t][1].depth
           p == Append(n, e)
           f == Frame(p, d - 1)
<1>4. /\ stack[t] \in Seq(Folder) /\ stack[t] # <<>> /\ m \in Nat \ {0}
      /\ \A i \in 1 .. m : OpenAt(t, stack[t][i], m - i)
      /\ n = stack[t][1].at /\ n \in Place /\ n \in Seq(STRING) /\ Len(n) \in Nat
      /\ Len(n) = Len(T) + m - 1 /\ IsPrefix(T, n) /\ d = req[t].depth - (m - 1)
      /\ \A k \in Len(T) .. Len(n) : SubSeq(n, 1, k) \notin Denied
  BY <1>1, StackIs
<1>5. e \in Below(n) /\ e \notin stack[t][1].seen
  BY <1>2, <1>3 DEF Given
<1>6. /\ e \in STRING \cup Dots /\ p \in Place /\ p \in Seq(STRING) /\ Len(p) = Len(n) + 1 /\ Front(p) = n
  BY <1>3, <1>4, <1>5, EntryIs
<1>7. IsDir(n, e) /\ d > 1 /\ CanScan(p)
  BY <1>2 DEF Descends
<1> DEFINE s == Seen(t, e)[t]
           v == <<f>> \o s
<1>8. /\ s \in Seq(Folder) /\ Len(s) = m /\ \A i \in 2 .. Len(s) : s[i] = stack[t][i]
      /\ s[1].at = stack[t][1].at /\ s[1].saw = stack[t][1].saw /\ s[1].depth = stack[t][1].depth
      /\ s[1].seen = stack[t][1].seen \cup {e}
      /\ Seen(t, e) = [stack EXCEPT ![t] = s]
  BY <1>3, <1>4, <1>6, SeenIs
<1> HIDE DEF T, n, d, p, s
<1>9. f \in Folder /\ OpenAt(t, f, m) /\ f.at = p /\ f.saw = Below(p) /\ f.seen = {}
  <2>1. n = SubSeq(p, 1, Len(n)) /\ Len(n) \in 0 .. Len(p)
    <3>1. p = Append(n, e) /\ e \in STRING \cup Dots
      BY <1>6 DEF p
    <3> QED  BY <1>4, <1>6 DEF Front
  <2>2. \A k \in Len(T) .. Len(p) - 1 : SubSeq(p, 1, k) \notin Denied
    <3>1. SUFFICES ASSUME NEW k \in Len(T) .. Len(p) - 1 PROVE SubSeq(p, 1, k) \notin Denied
      OBVIOUS
    <3>2. k \in Len(T) .. Len(n) /\ k \in 0 .. Len(n)
      BY <1>3, <1>4, <1>6 DEF T
    <3>3. SubSeq(n, 1, k) = SubSeq(p, 1, k)
      BY <1>6, <2>1, <3>2, Shorter
    <3> QED  BY <1>4, <3>2, <3>3
  <2>3. IsPrefix(T, p)
    <3>1. Len(T) \in Nat /\ T \in Seq(STRING) /\ Len(T) <= Len(n) /\ T = SubSeq(n, 1, Len(T))
      BY <1>3, <1>4, PrefixIs DEF T
    <3>2. Len(T) \in 0 .. Len(n) /\ Len(T) <= Len(p)
      BY <1>4, <1>6, <3>1
    <3>3. SubSeq(n, 1, Len(T)) = SubSeq(p, 1, Len(T))
      BY <1>6, <2>1, <3>2, Shorter
    <3> QED  BY <1>6, <3>1, <3>2, <3>3, PrefixIs
  <2>4. /\ Len(p) = Len(T) + m /\ d - 1 = req[t].depth - m /\ d - 1 >= 1 /\ d - 1 \in Int
    BY <1>3, <1>4, <1>6, <1>7 DEF T
  <2> DEFINE c == d - 1
  <2>5. f = Frame(p, c) /\ Len(p) = Len(T) + m /\ c = req[t].depth - m /\ c >= 1 /\ c \in Int /\ m \in Nat
    BY <1>4, <2>4
  <2> HIDE DEF c, f, m
  <2>6. f \in Folder /\ OpenAt(t, f, m)
    BY <1>3, <1>6, <1>7, <2>2, <2>3, <2>5, OpenedIs DEF T
  <2> QED  BY <2>5, <2>6 DEF Frame
<1> HIDE DEF f
<1>10. stack' = [stack EXCEPT ![t] = v]
  <2>1. stack' = [Seen(t, e) EXCEPT ![t] = v]
    BY <1>2 DEF s, f, p, n, d
  <2>2. Seen(t, e) = [stack EXCEPT ![t] = s]
    BY <1>8
  <2> HIDE DEF v
  <2> QED  BY <2>1, <2>2
<1>11. /\ v \in Seq(Folder) /\ Len(v) = m + 1 /\ v # <<>> /\ v[1] = f
       /\ \A i \in 2 .. m + 1 : v[i] = s[i - 1]
  BY <1>4, <1>8, <1>9
<1> HIDE DEF v
<1>12. stack'[t] = v /\ stack' = [stack EXCEPT ![t] = stack'[t]]
  BY <1>3, <1>10, Writing
<1>13. Steps(t) /\ pc'[t] = "search" /\ fds'[t] = Len(v)
  <2>1. "search" \in Step /\ "search" \in StepsOf[req[t].op]
    BY <1>3 DEF Step, StepsOf
  <2>2. fds'[t] = m + 1 /\ fds' = [fds EXCEPT ![t] = fds'[t]] /\ fds'[t] \in Nat
    <3> DEFINE h == fds[t] + 1
    <3>1. h \in Nat /\ h = m + 1 /\ fds' = [fds EXCEPT ![t] = h]
      BY <1>1, <1>3, <1>4
    <3> HIDE DEF h
    <3>2. fds'[t] = h /\ fds' = [fds EXCEPT ![t] = fds'[t]]
      BY <1>3, <3>1, Writing
    <3> QED  BY <3>1, <3>2
  <2>3. buf' = [buf EXCEPT ![t] = buf'[t]] /\ buf'[t] \in Seq(STRING)
    BY <1>1, <1>3, Writing
  <2>4. Only(t)
    BY <1>12, <2>2, <2>3 DEF Only
  <2> QED  BY <1>1, <1>3, <1>11, <2>1, <2>2, <2>4, GotoSteps
<1>14. ASSUME NEW i \in 1 .. Len(v) PROVE OpenAt(t, v[i], Len(v) - i)
  <2>1. CASE i = 1
    <3>1. Len(v) - i = m /\ v[i] = f
      BY <1>4, <1>11, <2>1
    <3> QED  BY <1>9, <3>1
  <2>2. CASE i # 1
    <3> DEFINE j == i - 1
    <3>1. j \in 1 .. m /\ i \in 2 .. m + 1 /\ Len(v) - i = m - j
      BY <1>4, <1>11, <2>2
    <3>2. v[i] = s[j] /\ OpenAt(t, stack[t][j], m - j)
      BY <1>4, <1>11, <3>1
    <3> HIDE DEF j
    <3>3. CASE j = 1
      BY <1>8, <3>1, <3>2, <3>3, OpenSeen
    <3>4. CASE j # 1
      <4>1. j \in 2 .. Len(s)
        BY <1>4, <1>8, <3>1, <3>4
      <4> QED  BY <1>8, <3>1, <3>2, <4>1
    <3> QED  BY <3>3, <3>4
  <2> QED  BY <2>1, <2>2
<1>15. ASSUME NEW q \in Place \ {<<>>}, Matches(t, since[t], q)
       PROVE  \E i \in 1 .. Len(v) : Under(v[i], q)
  <2>1. PICK i \in 1 .. m : Under(stack[t][i], q)
    BY <1>1, <1>3, <1>15 DEF Scanning
  <2> DEFINE j == i + 1
  <2>2. j \in 2 .. m + 1 /\ j \in 1 .. Len(v) /\ 1 \in 1 .. Len(v) /\ j - 1 = i
    BY <1>4, <1>11
  <2>3. v[j] = s[i]
    BY <1>11, <2>2
  <2> HIDE DEF j
  <2>4. CASE i = 1 /\ q[Len(n) + 1] = e
    <3>1. IsPrefix(p, q) /\ Len(p) < Len(q) /\ q[Len(p) + 1] \in Below(p)
      BY <1>1, <1>7, <1>15, <2>1, <2>4, Behind DEF n, p
    <3>2. Under(f, q)
      BY <1>6, <1>9, <3>1 DEF Under
    <3> QED  BY <1>11, <2>2, <3>2
  <2>5. CASE i = 1 /\ q[Len(n) + 1] # e
    <3>1. Under(s[1], q)
      BY <1>4, <1>8, <2>1, <2>5 DEF Under
    <3> QED  BY <2>2, <2>3, <2>5, <3>1
  <2>6. CASE i # 1
    <3>1. i \in 2 .. Len(s)
      BY <1>4, <1>8, <2>6
    <3> QED  BY <1>8, <2>1, <2>2, <2>3, <3>1
  <2> QED  BY <2>4, <2>5, <2>6
<1> QED  BY <1>1, <1>3, <1>11, <1>12, <1>13, <1>14, <1>15, SearchGoesOn

LEMMA SearchFindsStep ==
  ASSUME Inv, NEW t \in Thread, SearchFinds(t)
  PROVE  Inv'
<1> DEFINE n == Here(t)
           T == Target(t)
           m == Len(stack[t])
<1>1. /\ pc[t] = "search" /\ UNCHANGED tree /\ UNCHANGED buf
      /\ fds' = [fds EXCEPT ![t] = fds[t] - m] /\ stack' = [stack EXCEPT ![t] = <<>>]
  BY DEF SearchFinds, At, Closes
<1>2. PICK e \in Given(t) \cap req[t].hits : ~IsDir(n, e) /\ Return(t, True, Append(n, e))
  BY DEF SearchFinds
<1>3. /\ Shapes /\ Active(t) /\ tree \in Tree /\ req[t].op = "search" /\ fds[t] = m
      /\ req[t].depth \in Int /\ T \in Seq(STRING) /\ Len(T) \in Nat
  BY <1>1, ScanIs
<1>4. /\ n \in Place /\ n \in Seq(STRING) /\ Len(n) \in Nat /\ m \in Nat \ {0} /\ m <= req[t].depth
      /\ Len(n) = Len(T) + m - 1 /\ IsPrefix(T, n)
      /\ \A k \in Len(T) .. Len(n) : SubSeq(n, 1, k) \notin Denied
  BY <1>1, StackIs
<1> DEFINE p == Append(n, e)
<1>5. e \in Below(n) /\ e \in req[t].hits
  BY <1>2, <1>3 DEF Given
<1>6. /\ p \in Place \ {<<>>} /\ p \in Seq(STRING) /\ Len(p) = Len(n) + 1 /\ Last(p) = e /\ e \in STRING
      /\ tree[p].kind # "none" /\ tree[p].kind # "dir"
  BY <1>2, <1>3, <1>4, <1>5, EntryIs
<1> HIDE DEF n, T, m
<1>7. Matches(t, tree, p)
  <2>1. n = SubSeq(p, 1, Len(n)) /\ Len(n) \in 0 .. Len(p)
    BY <1>4, <1>6
  <2> HIDE DEF p
  <2>2. \A k \in Len(T) .. Len(p) - 1 : SubSeq(p, 1, k) \notin Denied
    <3>1. SUFFICES ASSUME NEW k \in Len(T) .. Len(p) - 1 PROVE SubSeq(p, 1, k) \notin Denied
      OBVIOUS
    <3>2. k \in Len(T) .. Len(n) /\ k \in 0 .. Len(n)
      BY <1>3, <1>4, <1>6
    <3>3. SubSeq(n, 1, k) = SubSeq(p, 1, k)
      BY <1>6, <2>1, <3>2, Shorter
    <3> QED  BY <1>4, <3>2, <3>3
  <2>3. IsPrefix(T, p)
    <3>1. Len(T) <= Len(n) /\ T = SubSeq(n, 1, Len(T))
      BY <1>3, <1>4, PrefixIs
    <3>2. Len(T) \in 0 .. Len(n) /\ Len(T) <= Len(p)
      BY <1>3, <1>4, <1>6, <3>1
    <3>3. SubSeq(n, 1, Len(T)) = SubSeq(p, 1, Len(T))
      BY <1>6, <2>1, <3>2, Shorter
    <3> QED  BY <1>3, <1>6, <3>1, <3>2, <3>3, PrefixIs
  <2>4. Len(p) - Len(T) \in 1 .. req[t].depth
    BY <1>3, <1>4, <1>6
  <2> QED  BY <1>5, <1>6, <2>2, <2>3, <2>4 DEF Matches, Reachable, IsFile, T
<1>8. Only(t) /\ fds'[t] = 0
  <2>1. fds' = [fds EXCEPT ![t] = 0]
    BY <1>1, <1>3, <1>4
  <2>2. fds'[t] = 0 /\ fds' = [fds EXCEPT ![t] = fds'[t]]
    BY <1>3, <2>1, Writing
  <2>3. stack' = [stack EXCEPT ![t] = stack'[t]]
    BY <1>1, <1>3, Writing
  <2>4. buf' = [buf EXCEPT ![t] = buf'[t]] /\ buf'[t] \in Seq(STRING)
    BY <1>1, <1>3, Writing
  <2> QED  BY <2>2, <2>3, <2>4 DEF Only
<1>9. Steps(t) /\ pc'[t] = "returned" /\ ret'[t] = [code |-> True, out |-> p]
  <2>1. True \in Int
    BY DEF True
  <2> QED  BY <1>2, <1>3, <1>6, <1>8, <2>1, ReturnSteps
<1>10. ret'[t].code # False /\ ret'[t].out = p
  BY <1>9 DEF True, False
<1> HIDE DEF p
<1> QED  BY <1>1, <1>3, <1>6, <1>7, <1>8, <1>9, <1>10, ScanReturns

LEMMA ScanThrowsStep ==
  ASSUME Inv, NEW t \in Thread, ScanThrows(t)
  PROVE  Inv'
<1>1. /\ pc[t] \in {"search", "list"} /\ UNCHANGED tree /\ UNCHANGED <<buf, fds>>
      /\ stack' = [stack EXCEPT ![t] = <<>>] /\ Return(t, Throws, <<>>)
  BY DEF ScanThrows, At
<1>2. Shapes /\ Active(t) /\ req[t].op \in {"search", "list"}
  BY <1>1, ScanIs
<1>3. Throws \in Int /\ Throws # True /\ Throws # False /\ <<>> \in Seq(STRING)
  BY DEF Throws, True, False
<1>4. Only(t)
  BY <1>1, <1>2, Writing DEF Only
<1>5. Steps(t) /\ pc'[t] = "returned" /\ ret'[t] = [code |-> Throws, out |-> <<>>]
  BY <1>1, <1>2, <1>3, <1>4, ReturnSteps
<1> QED  BY <1>1, <1>2, <1>3, <1>5, ScanReturns

\* A list stays in its target.
LEMMA ListIs ==
  ASSUME Inv, NEW t \in Thread, pc[t] = "list"
  PROVE  Here(t) = Target(t) /\ Len(stack[t]) = 1
<1>1. req[t].depth = 1 /\ Target(t) \in Seq(STRING) /\ Len(Target(t)) \in Nat
  BY ScanIs
<1>2. /\ Len(stack[t]) \in Nat \ {0} /\ Len(stack[t]) <= req[t].depth /\ Here(t) \in Seq(STRING)
      /\ Len(Here(t)) = Len(Target(t)) + Len(stack[t]) - 1 /\ IsPrefix(Target(t), Here(t))
  BY StackIs
<1>3. Len(stack[t]) = 1
  <2> DEFINE m == Len(stack[t])
  <2>1. m \in Nat \ {0} /\ m <= 1
    BY <1>1, <1>2
  <2> HIDE DEF m
  <2>2. m = 1
    BY <2>1
  <2> QED  BY <2>2 DEF m
<1>4. Len(Here(t)) = Len(Target(t))
  BY <1>1, <1>2, <1>3
<1>5. Target(t) = SubSeq(Here(t), 1, Len(Target(t)))
  BY <1>1, <1>2, PrefixIs
<1>6. SubSeq(Here(t), 1, Len(Here(t))) = Here(t)
  BY <1>2
<1> QED  BY <1>3, <1>4, <1>5, <1>6

LEMMA ContainsMore ==
  ASSUME NEW s \in Seq(STRING), NEW e \in STRING
  PROVE  \A x : Contains(Append(s, e), x) <=> Contains(s, x) \/ x = e
<1> DEFINE v == Append(s, e)
           m == Len(s)
<1>1. m \in Nat /\ Len(v) = m + 1 /\ v[m + 1] = e /\ \A i \in 1 .. m : v[i] = s[i]
  OBVIOUS
<1> HIDE DEF v
<1>2. SUFFICES ASSUME NEW x PROVE Contains(v, x) <=> Contains(s, x) \/ x = e
  BY DEF v
<1>3. ASSUME Contains(v, x) PROVE Contains(s, x) \/ x = e
  <2>1. PICK i \in 1 .. Len(v) : v[i] = x
    BY <1>3 DEF Contains
  <2>2. i \in 1 .. m \/ i = m + 1
    BY <1>1
  <2> QED  BY <1>1, <2>1, <2>2 DEF Contains
<1>4. ASSUME Contains(s, x) PROVE Contains(v, x)
  <2>1. PICK i \in 1 .. m : s[i] = x
    BY <1>4 DEF Contains
  <2>2. i \in 1 .. Len(v) /\ v[i] = x
    BY <1>1, <2>1
  <2> QED  BY <2>2 DEF Contains
<1>5. ASSUME x = e PROVE Contains(v, x)
  <2>1. m + 1 \in 1 .. Len(v)
    BY <1>1
  <2> QED  BY <1>1, <1>5, <2>1 DEF Contains
<1> QED  BY <1>3, <1>4, <1>5

\* d_type tells the directories from the regular files.
LEMMA ListedIs ==
  ASSUME Inv, NEW t \in Thread, NEW q \in Place \ {<<>>}, Asked(t, q)
  PROVE  IsListed(req[t], Target(t), Last(q)) <=> (since[t][q].kind = "dir" <=> req[t].type = "dir")
<1>1. /\ Target(t) \in Place /\ q = Append(Target(t), Last(q)) /\ Last(q) \in Below(Target(t))
      /\ tree[q].kind = since[t][q].kind /\ since[t][q].kind \in {"dir", "reg"} /\ tree \in Tree
  BY AskedIs DEF Inv, Shapes
<1>2. IsDir(Target(t), Last(q)) <=> tree[q].kind = "dir"
  BY <1>1, EntryIs
<1>3. DType(Target(t), Last(q)) = IF since[t][q].kind = "dir" THEN {4} ELSE {8}
  BY <1>1, <1>2 DEF DType
<1>4. CASE since[t][q].kind = "dir"
  BY <1>3, <1>4 DEF IsListed
<1>5. CASE since[t][q].kind # "dir"
  BY <1>3, <1>5 DEF IsListed
<1> QED  BY <1>4, <1>5

LEMMA ListEntryStep ==
  ASSUME Inv, NEW t \in Thread, ListEntry(t)
  PROVE  Inv'
<1> DEFINE Hit(e) == IsListed(req[t], Here(t), e) /\ e \in req[t].hits
<1>1. pc[t] = "list" /\ UNCHANGED tree /\ UNCHANGED fds /\ Goto(t, "list")
  BY DEF ListEntry, At
<1>2. PICK e \in Given(t) :
        /\ buf' = IF Hit(e) THEN [buf EXCEPT ![t] = Append(buf[t], e)] ELSE buf
        /\ stack' = Seen(t, e)
  BY DEF ListEntry
<1>3. /\ Shapes /\ Active(t) /\ Scanning(t) /\ tree \in Tree /\ req[t].op = "list"
      /\ fds[t] = Len(stack[t]) /\ req[t].hits \subseteq STRING /\ buf[t] \in Seq(STRING)
  BY <1>1, ScanIs
<1>4. /\ stack[t] \in Seq(Folder) /\ stack[t] # <<>> /\ Len(stack[t]) = 1
      /\ \A i \in 1 .. Len(stack[t]) : OpenAt(t, stack[t][i], Len(stack[t]) - i)
      /\ Here(t) = Target(t) /\ Here(t) \in Place
  BY <1>1, StackIs, ListIs
<1>5. e \in STRING \cup Dots /\ e \notin stack[t][1].seen
  <2>1. e \in Below(Here(t)) \/ e \in Dots
    BY <1>2, <1>3 DEF Given
  <2>2. e \notin stack[t][1].seen
    BY <1>2 DEF Given
  <2>3. Below(Here(t)) \subseteq STRING
    BY <1>3, <1>4, EntryIs
  <2> QED  BY <2>1, <2>2, <2>3
<1> DEFINE s == Seen(t, e)[t]
<1>6. /\ s \in Seq(Folder) /\ Len(s) = Len(stack[t])
      /\ s[1].at = stack[t][1].at /\ s[1].saw = stack[t][1].saw /\ s[1].depth = stack[t][1].depth
      /\ s[1].seen = stack[t][1].seen \cup {e}
      /\ Seen(t, e) = [stack EXCEPT ![t] = s]
  BY <1>3, <1>4, <1>5, SeenIs
<1> HIDE DEF s
<1>7. stack' = [stack EXCEPT ![t] = s] /\ s # <<>>
  BY <1>2, <1>4, <1>6
<1>8. stack'[t] = s /\ stack' = [stack EXCEPT ![t] = stack'[t]]
  BY <1>3, <1>7, Writing
<1> DEFINE b == IF Hit(e) THEN Append(buf[t], e) ELSE buf[t]
<1>9. b \in Seq(STRING) /\ \A x : Contains(b, x) <=> Contains(buf[t], x) \/ (Hit(e) /\ x = e)
  <2>1. CASE Hit(e)
    <3>1. e \in STRING
      BY <1>3, <2>1
    <3>2. Append(buf[t], e) \in Seq(STRING)
      BY <1>3, <3>1, AppendIs
    <3> HIDE DEF Hit
    <3> QED  BY <1>3, <2>1, <3>1, <3>2, ContainsMore
  <2>2. CASE ~Hit(e)
    BY <1>3, <2>2
  <2> QED  BY <2>1, <2>2
<1>10. buf'[t] = b /\ buf' = [buf EXCEPT ![t] = buf'[t]]
  <2> HIDE DEF Hit
  <2>1. CASE Hit(e)
    <3>1. buf' = [buf EXCEPT ![t] = Append(buf[t], e)]
      BY <1>2, <2>1
    <3> QED  BY <1>3, <2>1, <3>1, Writing
  <2>2. CASE ~Hit(e)
    <3>1. UNCHANGED buf
      BY <1>2, <2>2
    <3> QED  BY <1>3, <2>2, <3>1, Writing
  <2> QED  BY <2>1, <2>2
<1> HIDE DEF b
<1>11. Only(t) /\ fds'[t] = Len(s)
  <2>1. fds'[t] = fds[t] /\ fds' = [fds EXCEPT ![t] = fds'[t]] /\ fds'[t] \in Nat
    BY <1>1, <1>3, Writing
  <2> QED  BY <1>3, <1>6, <1>8, <1>9, <1>10, <2>1 DEF Only
<1>12. Steps(t) /\ pc'[t] = "list"
  <2>1. "list" \in Step /\ "list" \in StepsOf[req[t].op]
    BY <1>3 DEF Step, StepsOf
  <2> QED  BY <1>1, <1>3, <1>11, <2>1, GotoSteps
<1>13. ASSUME NEW i \in 1 .. Len(s) PROVE OpenAt(t, s[i], Len(s) - i)
  <2>1. i = 1
    BY <1>4, <1>6
  <2>2. OpenAt(t, stack[t][i], Len(s) - i)
    BY <1>4, <1>6
  <2> QED  BY <1>6, <2>1, <2>2, OpenSeen
<1>14. ASSUME NEW q \in Place \ {<<>>}, Asked(t, q)
       PROVE  /\ Last(q) \in s[1].saw
              /\ IF Last(q) \in s[1].seen THEN Listed(t, q, b) ELSE ~Contains(b, Last(q))
  <2>1. /\ Last(q) \in stack[t][1].saw
        /\ IF Last(q) \in stack[t][1].seen THEN Listed(t, q, buf[t]) ELSE ~Contains(buf[t], Last(q))
    BY <1>1, <1>14 DEF Inv, Own, Scanning
  <2>2. CASE Last(q) = e
    <3>1. ~Contains(buf[t], Last(q))
      BY <1>5, <2>1, <2>2
    <3>2. Contains(b, Last(q)) <=> Hit(e)
      BY <1>9, <2>2, <3>1
    <3>3. Hit(e) <=> Last(q) \in req[t].hits /\ (since[t][q].kind = "dir" <=> req[t].type = "dir")
      BY <1>4, <1>14, <2>2, ListedIs
    <3> HIDE DEF Hit
    <3>4. Listed(t, q, b)
      BY <3>2, <3>3 DEF Listed
    <3> QED  BY <1>6, <2>1, <2>2, <3>4
  <2>3. CASE Last(q) # e
    <3>1. Contains(b, Last(q)) <=> Contains(buf[t], Last(q))
      BY <1>9, <2>3
    <3>2. Last(q) \in s[1].seen <=> Last(q) \in stack[t][1].seen
      BY <1>6, <2>3
    <3>3. Listed(t, q, buf[t]) => Listed(t, q, b)
      BY <3>1 DEF Listed
    <3> QED  BY <1>6, <2>1, <3>1, <3>2, <3>3
  <2> QED  BY <2>2, <2>3
<1> QED  BY <1>1, <1>3, <1>6, <1>7, <1>8, <1>10, <1>11, <1>12, <1>13, <1>14, ListGoesOn

LEMMA ScanEndsStep ==
  ASSUME Inv, NEW t \in Thread, ScanEnds(t)
  PROVE  Inv'
<1> DEFINE m == Len(stack[t])
           s == Tail(stack[t])
<1>1. /\ pc[t] \in {"search", "list"} /\ UNCHANGED tree /\ UNCHANGED buf
      /\ Given(t) \cap (stack[t][1].saw \cup Dots) = {}
      /\ fds' = [fds EXCEPT ![t] = fds[t] - 1] /\ stack' = [stack EXCEPT ![t] = s]
      /\ IF m > 1 THEN Goto(t, pc[t]) ELSE Return(t, False, buf[t])
  BY DEF ScanEnds, At
<1>2. /\ Shapes /\ Active(t) /\ Scanning(t) /\ tree \in Tree /\ fds[t] = m /\ buf[t] \in Seq(STRING)
      /\ pc[t] = "search" => req[t].op = "search"
      /\ pc[t] = "list" => req[t].op = "list"
  BY <1>1, ScanIs
<1>3. /\ stack[t] \in Seq(Folder) /\ stack[t] # <<>> /\ m \in Nat \ {0}
      /\ \A i \in 1 .. m : OpenAt(t, stack[t][i], m - i)
      /\ Here(t) = stack[t][1].at /\ stack[t][1].saw \subseteq Below(Here(t))
  BY <1>1, StackIs
<1>4. stack[t][1].saw \subseteq stack[t][1].seen
  BY <1>1, <1>3 DEF Given
<1>5. /\ s \in Seq(Folder) /\ Len(s) = m - 1 /\ \A i \in 1 .. m - 1 : s[i] = stack[t][i + 1]
  <2>1. s \in Seq(Folder) /\ Len(s) = m - 1 /\ \A i \in 1 .. Len(s) : s[i] = stack[t][i + 1]
    BY <1>3, HeadTailProperties
  <2> QED  BY <2>1
<1> HIDE DEF s
<1>6. Only(t) /\ fds'[t] = m - 1 /\ stack'[t] = s
  <2> DEFINE h == m - 1
  <2>1. h \in Nat /\ fds' = [fds EXCEPT ![t] = h]
    BY <1>1, <1>2, <1>3
  <2> HIDE DEF h
  <2>2. fds'[t] = h /\ fds' = [fds EXCEPT ![t] = fds'[t]]
    BY <1>2, <2>1, Writing
  <2>3. stack'[t] = s /\ stack' = [stack EXCEPT ![t] = stack'[t]]
    BY <1>1, <1>2, Writing
  <2>4. buf' = [buf EXCEPT ![t] = buf'[t]] /\ buf'[t] \in Seq(STRING)
    BY <1>1, <1>2, Writing
  <2>5. Only(t)
    BY <2>1, <2>2, <2>3, <2>4 DEF Only
  <2> QED  BY <2>2, <2>3, <2>5 DEF h
<1> HIDE DEF m
<1>7. ASSUME m > 1 PROVE Inv'
  <2>1. pc[t] = "search"
    <3>1. pc[t] = "list" => m = 1
      BY ListIs DEF m
    <3> QED  BY <1>1, <1>7, <3>1
  <2>2. Steps(t) /\ pc'[t] = "search"
    <3>1. "search" \in Step /\ "search" \in StepsOf[req[t].op] /\ Goto(t, "search")
      BY <1>1, <1>2, <1>7, <2>1 DEF Step, StepsOf
    <3> QED  BY <1>2, <1>6, <3>1, GotoSteps
  <2>3. s # <<>> /\ fds'[t] = Len(s)
    BY <1>3, <1>5, <1>6, <1>7
  <2>4. ASSUME NEW i \in 1 .. Len(s) PROVE OpenAt(t, s[i], Len(s) - i)
    <3> DEFINE j == i + 1
    <3>1. i \in 1 .. m - 1 /\ j \in 1 .. m /\ Len(s) - i = m - j
      BY <1>3, <1>5
    <3>2. s[i] = stack[t][j]
      BY <1>5, <3>1
    <3> HIDE DEF j
    <3> QED  BY <1>3, <3>1, <3>2
  <2>5. ASSUME NEW q \in Place \ {<<>>}, Matches(t, since[t], q)
        PROVE  \E i \in 1 .. Len(s) : Under(s[i], q)
    <3>1. PICK j \in 1 .. m : Under(stack[t][j], q)
      BY <1>2, <2>1, <2>5 DEF Scanning, m
    <3>2. j # 1
      BY <1>4, <3>1 DEF Under
    <3> DEFINE i == j - 1
    <3>3. i \in 1 .. m - 1 /\ i + 1 = j /\ i \in 1 .. Len(s)
      BY <1>3, <1>5, <3>2
    <3>4. s[i] = stack[t][i + 1]
      BY <1>5, <3>3
    <3> HIDE DEF i
    <3> QED  BY <3>1, <3>3, <3>4
  <2> QED  BY <1>1, <1>2, <1>5, <1>6, <2>1, <2>2, <2>3, <2>4, <2>5, SearchGoesOn
<1>8. ASSUME ~(m > 1) PROVE Inv'
  <2>1. m = 1 /\ Return(t, False, buf[t])
    BY <1>1, <1>3, <1>8
  <2>2. False \in Int /\ False # True
    BY DEF True, False
  <2>3. Steps(t) /\ pc'[t] = "returned" /\ ret'[t] = [code |-> False, out |-> buf[t]]
    BY <1>2, <1>6, <2>1, <2>2, ReturnSteps
  <2>4. ret'[t].code # True /\ ret'[t].out = buf[t] /\ fds'[t] = 0
    BY <1>6, <2>1, <2>2, <2>3
  <2>5. req[t].op = "search" => \A q \in Place \ {<<>>} : ~Matches(t, since[t], q)
    <3>1. SUFFICES ASSUME req[t].op = "search", NEW q \in Place \ {<<>>}, Matches(t, since[t], q) PROVE FALSE
      OBVIOUS
    <3>2. PICK j \in 1 .. m : Under(stack[t][j], q)
      BY <1>1, <1>2, <3>1 DEF Scanning, m
    <3>3. j = 1
      BY <2>1
    <3> QED  BY <1>4, <3>2, <3>3 DEF Under
  <2>6. req[t].op = "list" => \A q \in Place \ {<<>>} : Asked(t, q) => Listed(t, q, buf[t])
    <3>1. SUFFICES ASSUME req[t].op = "list", NEW q \in Place \ {<<>>}, Asked(t, q) PROVE Listed(t, q, buf[t])
      OBVIOUS
    <3>2. /\ Last(q) \in stack[t][1].saw
          /\ IF Last(q) \in stack[t][1].seen THEN Listed(t, q, buf[t]) ELSE ~Contains(buf[t], Last(q))
      BY <1>1, <1>2, <3>1 DEF Inv, Own, Scanning
    <3> QED  BY <1>4, <3>2
  <2>7. req[t].op \in {"search", "list"}
    BY <1>1, <1>2
  <2> QED  BY <1>1, <1>2, <2>3, <2>4, <2>5, <2>6, <2>7, ScanReturns
<1> QED  BY <1>7, <1>8

(***************************************************************************)
(* A call begins; nothing happens; the first state.                        *)
(***************************************************************************)
LEMMA CallStep ==
  ASSUME Inv, NEW t \in Thread, Call(t)
  PROVE  Inv'
<1>1. PICK r \in Request :
        /\ req' = [req EXCEPT ![t] = r]
        /\ pc' = [pc EXCEPT ![t] = First[r.op]]
        /\ stack' = [stack EXCEPT ![t] = IF r.op = "mkdirs" THEN <<r.path>> ELSE <<>>]
        /\ alone' = [u \in Thread |->
             IF u = t THEN \A v \in Thread \ {t} : ~(Active(v) /\ Clash(req[v], r))
             ELSE alone[u] /\ ~Clash(r, req[u])]
  BY DEF Call
<1>2. /\ calls < MaxCalls /\ calls' = calls + 1 /\ since' = [since EXCEPT ![t] = tree]
      /\ buf' = [buf EXCEPT ![t] = <<>>] /\ fds' = [fds EXCEPT ![t] = 0] /\ UNCHANGED <<tree, ret>>
  BY DEF Call
<1>3. Shapes
  BY DEF Inv
<1> DEFINE first == First[r.op]
<1>4. r.op \in {"mkdirs", "create", "write", "read", "search", "list"} /\ r.path \in Path
  BY RequestAssumption
<1>5. /\ first \in Step /\ first \in StepsOf[r.op] /\ first \notin {"search", "list", "create", "write", "read"}
      /\ first \notin {"idle", "returned"} /\ (r.op = "mkdirs" => first = "access")
  BY <1>4 DEF First, StepsOf, Step
<1> HIDE DEF first
<1>6. /\ req'[t] = r /\ pc'[t] = first /\ since'[t] = tree /\ buf'[t] = <<>> /\ fds'[t] = 0
      /\ r.op = "mkdirs" => stack'[t] = <<r.path>>
  <2>1. t \in DOMAIN stack
    BY <1>3 DEF Shapes
  <2> QED  BY <1>1, <1>2, <1>3, <2>1 DEF Shapes, first
<1>7. \A u \in Thread \ {t} :
        /\ req'[u] = req[u] /\ pc'[u] = pc[u] /\ since'[u] = since[u] /\ buf'[u] = buf[u] /\ fds'[u] = fds[u]
        /\ stack'[u] = stack[u] /\ ret'[u] = ret[u] /\ (alone'[u] => alone[u] /\ ~Clash(r, req[u]))
  <2>1. stack = [u \in Thread |-> stack[u]]
    BY <1>3 DEF Shapes
  <2>2. \A u \in Thread \ {t} : stack'[u] = stack[u]
    BY <1>1, <2>1
  <2>3. \A u \in Thread \ {t} : alone'[u] => alone[u] /\ ~Clash(r, req[u])
    BY <1>1
  <2> QED  BY <1>1, <1>2, <1>3, <2>2, <2>3 DEF Shapes
<1>8. Shapes'
  <2>1. stack' = [u \in Thread |-> stack'[u]]
    <3>1. stack = [u \in Thread |-> stack[u]]
      BY <1>3 DEF Shapes
    <3> QED  BY <1>1, <3>1
  <2>2. alone' \in [Thread -> BOOLEAN]
    <3>1. \A u \in Thread : (IF u = t THEN \A v \in Thread \ {t} : ~(Active(v) /\ Clash(req[v], r))
                             ELSE alone[u] /\ ~Clash(r, req[u])) \in BOOLEAN
      OBVIOUS
    <3> QED  BY <1>1, <3>1
  <2>3. calls' \in 0 .. MaxCalls
    BY <1>2, <1>3, FileOperateAssumption DEF Shapes
  <2>4. pc' \in [Thread -> Step] /\ req' \in [Thread -> Request] /\ since' \in [Thread -> Tree]
        /\ buf' \in [Thread -> Seq(STRING)] /\ fds' \in [Thread -> Nat]
    <3>1. <<>> \in Seq(STRING) /\ 0 \in Nat
      OBVIOUS
    <3> QED  BY <1>1, <1>2, <1>3, <1>5, <3>1 DEF Shapes, first
  <2>5. \A u \in Thread : pc'[u] \in StepsOf[req'[u].op] \cup {"idle", "returned"}
    <3>1. \A u \in Thread \ {t} : pc'[u] \in StepsOf[req'[u].op] \cup {"idle", "returned"}
      BY <1>3, <1>7 DEF Shapes
    <3>2. pc'[t] \in StepsOf[req'[t].op] \cup {"idle", "returned"}
      BY <1>5, <1>6
    <3> QED  BY <3>1, <3>2
  <2> QED  BY <1>2, <1>3, <2>1, <2>2, <2>3, <2>4, <2>5 DEF Shapes
<1>9. ASSUME NEW u \in Thread \ {t} PROVE Own(u)'
  <2>1. Same(u) /\ Kept(u) /\ Grown(tree, tree')
    BY <1>2, <1>7 DEF Same, Kept, Grown
  <2> QED  BY <1>3, <2>1, OthersKeep DEF Inv
<1>10. Own(t)'
  <2>1. Grown(since[t], tree)'
    BY <1>2, <1>6 DEF Grown
  <2>2. Handles(t)' /\ Using(t)' /\ Scanning(t)' /\ Told(t)'
    BY <1>5, <1>6 DEF Handles, Using, Scanning, Told, Returned
  <2>3. Making(t)'
    <3>1. SUFFICES ASSUME r.op = "mkdirs" PROVE Making(t)'
      BY <1>6 DEF Making
    <3> DEFINE s == <<r.path>>
    <3>2. /\ s \in Seq(Path) /\ Len(s) \in 1 .. MaxDepth /\ s[Len(s)] = r.path /\ Len(s) = 1
      BY <1>4, FileOperateAssumption
    <3>3. \A i \in 1 .. Len(s) - 1 : s[i] = ParentText(s[i + 1])
      BY <3>2
    <3>4. stack'[t] = s /\ pc'[t] = "access" /\ req'[t].path = r.path
      BY <1>5, <1>6, <3>1
    <3> HIDE DEF s
    <3> QED  BY <3>2, <3>3, <3>4 DEF Making
  <2>4. pc'[t] # "idle"
    BY <1>5, <1>6
  <2> QED  BY <2>1, <2>2, <2>3, <2>4 DEF Own
<1>11. Apart'
  <2>1. SUFFICES ASSUME NEW u \in Thread, NEW v \in Thread, u # v, alone'[u], Active(u)', Active(v)'
                 PROVE  ~Clash(req'[v], req'[u])
    BY DEF Apart, Clash
  <2>2. \A w \in Thread \ {t} : Active(w)' => Active(w)
    BY <1>7 DEF Active
  <2>3. CASE u = t
    <3>1. \A w \in Thread \ {t} : ~(Active(w) /\ Clash(req[w], r))
      BY <1>1, <2>1, <2>3
    <3> QED  BY <1>6, <1>7, <2>1, <2>2, <2>3, <3>1
  <2>4. CASE v = t
    BY <1>6, <1>7, <2>1, <2>4
  <2>5. CASE u # t /\ v # t
    BY <1>7, <2>1, <2>2, <2>5 DEF Inv, Apart
  <2> QED  BY <2>3, <2>4, <2>5
<1> QED  BY <1>8, <1>9, <1>10, <1>11 DEF Inv

LEMMA Stutters ==
  ASSUME Inv, UNCHANGED vars
  PROVE  Inv'
<1>1. /\ tree' = tree /\ pc' = pc /\ req' = req /\ stack' = stack /\ buf' = buf /\ fds' = fds /\ ret' = ret
      /\ calls' = calls /\ since' = since /\ alone' = alone
  BY DEF vars, local, ghost
<1>2. Shapes'
  BY <1>1 DEF Inv, Shapes
<1>3. Apart'
  BY <1>1 DEF Inv, Apart, Active, Clash
<1>4. ASSUME NEW u \in Thread PROVE Own(u)'
  <2>1. Same(u) /\ Kept(u) /\ Grown(tree, tree')
    BY <1>1 DEF Same, Kept, Grown
  <2> QED  BY <2>1, OthersKeep DEF Inv
<1> QED  BY <1>2, <1>3, <1>4 DEF Inv

LEMMA Initial ==
  ASSUME Init
  PROVE  Inv
<1>1. /\ tree = Initially /\ since = [t \in Thread |-> Initially] /\ alone = [t \in Thread |-> FALSE]
      /\ pc = [t \in Thread |-> "idle"] /\ calls = 0 /\ req = [t \in Thread |-> CHOOSE r \in Request : TRUE]
      /\ stack = [t \in Thread |-> <<>>] /\ buf = [t \in Thread |-> <<>>] /\ fds = [t \in Thread |-> 0]
      /\ ret = [t \in Thread |-> [code |-> 0, out |-> <<>>]]
  BY DEF Init
<1>2. Initially \in Tree
  BY FileOperateAssumption DEF Tree
<1>3. (CHOOSE r \in Request : TRUE) \in Request
  BY RequestAssumption
<1>4. <<>> \in Seq(STRING) /\ "idle" \in Step /\ calls \in 0 .. MaxCalls
  BY <1>1, FileOperateAssumption DEF Step
<1>5. [code |-> 0, out |-> <<>>] \in [code : Int, out : Seq(STRING)]
  BY <1>4
<1>6. stack = [t \in Thread |-> stack[t]]
  BY <1>1
<1>7. Shapes
  BY <1>1, <1>2, <1>3, <1>4, <1>5, <1>6 DEF Shapes
<1>8. Apart
  BY <1>1 DEF Apart, Active
<1>9. ASSUME NEW t \in Thread PROVE Own(t)
  <2>1. Handles(t) /\ Making(t) /\ Using(t) /\ Scanning(t) /\ Told(t) /\ stack[t] = <<>>
    BY <1>1 DEF Handles, Making, Using, Scanning, Told, Returned
  <2>2. Grown(since[t], tree)
    BY <1>1 DEF Grown
  <2> QED  BY <2>1, <2>2 DEF Own
<1> QED  BY <1>7, <1>8, <1>9 DEF Inv

LEMMA Inductive ==
  ASSUME Inv, [Next]_vars
  PROVE  Inv'
<1>1. CASE \E t \in Thread :
       \/ Call(t) \/ Access(t) \/ Mkdir(t) \/ Stat(t) \/ Create(t)
       \/ OpenForWrite(t) \/ WriteBlock(t) \/ WriteReturns(t) \/ OpenForRead(t) \/ ReadReturns(t)
       \/ OpenDir(t) \/ SearchDescends(t) \/ SearchPasses(t) \/ SearchFinds(t) \/ ScanThrows(t)
       \/ ListEntry(t) \/ ScanEnds(t)
  BY <1>1, CallStep, AccessStep, MkdirStep, StatStep, CreateStep, OpenForWriteStep, WriteBlockStep,
     WriteReturnsStep, OpenForReadStep, ReadReturnsStep, OpenDirStep, SearchDescendsStep, SearchPassesStep,
     SearchFindsStep, ScanThrowsStep, ListEntryStep, ScanEndsStep
<1>2. CASE Terminated \/ UNCHANGED vars
  BY <1>2, Stutters DEF Terminated
<1> QED  BY <1>1, <1>2 DEF Next

LEMMA Invariant == Spec => []Inv
<1>1. Init => Inv
  BY Initial
<1>2. Inv /\ [Next]_vars => Inv'
  BY Inductive
<1> QED  BY <1>1, <1>2, PTL DEF Spec

(***************************************************************************)
(* What the invariant says.                                                *)
(***************************************************************************)
LEMMA Typed ==
  ASSUME Inv
  PROVE  TypeOK
<1>1. Shapes
  BY DEF Inv
<1>2. ASSUME NEW t \in Thread, req[t].op = "mkdirs" PROVE Len(stack[t]) <= MaxDepth
  <2>1. CASE pc[t] = "idle"
    <3>1. Len(stack[t]) = 0 /\ MaxDepth \in Nat
      BY <2>1, FileOperateAssumption DEF Inv, Own
    <3> QED  BY <3>1
  <2>2. CASE pc[t] # "idle"
    <3>1. Len(stack[t]) \in 1 .. MaxDepth
      BY <1>2, <2>2 DEF Inv, Own, Making
    <3> QED  BY <3>1, FileOperateAssumption
  <2> QED  BY <2>1, <2>2
<1>3. ASSUME NEW t \in Thread, pc[t] \in {"search", "list"} PROVE Len(stack[t]) <= req[t].depth
  BY <1>3, StackIs
<1>4. tree \in [Place -> Node] /\ since \in [Thread -> [Place -> Node]]
      /\ \A p \in Place \ {<<>>} : tree[p].kind # "none" => tree[Front(p)].kind = "dir"
  BY <1>1 DEF Shapes, Tree
<1>5. \A t \in Thread : ret[t].code \in Int /\ ret[t].out \in Seq(STRING)
  BY <1>1 DEF Shapes
<1> QED  BY <1>1, <1>2, <1>3, <1>4, <1>5 DEF Shapes, TypeOK

\* TypeOK: among other things nothing is ever created outside of a directory, and
\* SearchRecursively opens no directory deeper than it was asked to.
THEOREM TypeCorrect == Spec => []TypeOK
BY Invariant, Typed, PTL

LEMMA Parents ==
  ASSUME Inv
  PROVE  ParentReady
<1>1. ASSUME NEW t \in Thread, pc[t] = "mkdir"
      PROVE  tree[Front(Names(Head(stack[t])))].kind # "none"
  <2>1. Ready(t) /\ Head(stack[t]) = stack[t][1]
    BY <1>1, MakingIs
  <2> QED  BY <2>1 DEF Ready
<1> QED  BY <1>1 DEF ParentReady

\* ParentReady: when MkdirsByPath (file_.h:278) calls mkdir for a path, what the path
\* lies in is there, whatever the path looks like and whoever else makes directories.
THEOREM ParentsFirst == Spec => []ParentReady
BY Invariant, Parents, PTL

\* What MkdirsByPath returned 0 for is there.
MkdirsMade ==
  \A t \in Thread : Returned(t, "mkdirs") /\ ret[t].code = 0 => tree[Target(t)].kind # "none"

LEMMA Made ==
  ASSUME Inv
  PROVE  MkdirsMade
BY DEF Inv, Own, Making, MkdirsMade, Returned

LEMMA Closed ==
  ASSUME Inv
  PROVE  HandlesClosed
BY DEF Inv, Own, Handles, HandlesClosed

\* HandlesClosed: SearchRecursively and ListInDir close every directory they have opened,
\* on each of their ways out but the exception of std::regex.
THEOREM NoneLeftOpen == Spec => []HandlesClosed
BY Invariant, Closed, PTL

LEMMA Searched ==
  ASSUME Inv
  PROVE  SearchTells
<1>1. ASSUME NEW t \in Thread, Returned(t, "search")
      PROVE  /\ ret[t].code = True => ret[t].out \in Place /\ Matches(t, tree, ret[t].out)
             /\ ret[t].code = False => \A q \in Place \ {<<>>} : ~Matches(t, since[t], q)
  BY <1>1 DEF Inv, Own, Told
<1> QED  BY <1>1 DEF SearchTells, Matches

\* SearchTells: in a tree of any depth to which others add, SearchRecursively (file_.h:156)
\* gives only files that match, and misses none that was there when it was called.
THEOREM SearchIsRight == Spec => []SearchTells
BY Invariant, Searched, PTL

LEMMA ListsAll ==
  ASSUME Inv
  PROVE  ListTells
<1>1. ASSUME NEW t \in Thread, Returned(t, "list"), ret[t].code = False,
             NEW q \in Place \ {<<>>}, Asked(t, q)
      PROVE  Listed(t, q, ret[t].out)
  BY <1>1 DEF Inv, Own, Told
<1> QED  BY <1>1 DEF ListTells, Asked, Listed

\* ListTells: ListInDir (file_.h:218) gives just the entries that match and have the type,
\* of those that were there when it was called.
THEOREM ListIsRight == Spec => []ListTells
BY Invariant, ListsAll, PTL

(***************************************************************************)
(* The calls that are alone with their file.                               *)
(***************************************************************************)
LEMMA CreateTells ==
  ASSUME Inv, NEW t \in Thread, Create(t), ret'[t].code >= 0
  PROVE  since[t][Target(t)].kind = "none"
<1> DEFINE n == Target(t)
<1>1. pc[t] = "create"
  BY DEF Create, At
<1>2. /\ Shapes /\ Using(t) /\ n = Names(req[t].path) /\ n \in Place /\ tree \in Tree
  BY <1>1, UsingIs
<1>3. Opens(n)
  <2>1. SUFFICES ASSUME ~Opens(n) PROVE FALSE
    OBVIOUS
  <2>2. Return(t, Fail, <<>>)
    BY <1>2, <2>1 DEF Create
  <2>3. ret'[t].code = Fail
    BY <1>2, <2>2 DEF Return, Shapes
  <2> QED  BY <2>3 DEF Fail
<1>4. n # <<>>
  BY <1>2, <1>3 DEF Opens, Creatable, Tree
<1>5. req[t].path # <<>>
  <2>1. <<>> \in Seq(STRING) /\ Len(<<>>) = 0
    OBVIOUS
  <2>2. Names(<<>>) = <<>>
    BY <2>1, NamesAre DEF Beginnings
  <2> QED  BY <1>2, <1>4, <2>2
<1> QED  BY <1>1, <1>2, <1>5 DEF Using

\* A call that is under way returns by a step of its own.
LEMMA OwnStep ==
  ASSUME Inv, NEW t \in Thread, NEW u \in Thread, u # t,
       \/ Call(u) \/ Access(u) \/ Mkdir(u) \/ Stat(u) \/ Create(u)
       \/ OpenForWrite(u) \/ WriteBlock(u) \/ WriteReturns(u) \/ OpenForRead(u) \/ ReadReturns(u)
       \/ OpenDir(u) \/ SearchDescends(u) \/ SearchPasses(u) \/ SearchFinds(u) \/ ScanThrows(u)
       \/ ListEntry(u) \/ ScanEnds(u)
  PROVE  pc'[t] = pc[t]
<1>1. pc \in [Thread -> Step]
  BY DEF Inv, Shapes
<1>2. \A l : pc' = [pc EXCEPT ![u] = l] => pc'[t] = pc[t]
  BY <1>1
<1>3. \A l : Goto(u, l) => pc'[t] = pc[t]
  BY <1>2 DEF Goto
<1>4. \A c, o : Return(u, c, o) => pc'[t] = pc[t]
  BY <1>2 DEF Return
<1>5. CASE Call(u)
  BY <1>2, <1>5 DEF Call
<1>6. FrameReturns0(u) => pc'[t] = pc[t]
  BY <1>3, <1>4 DEF FrameReturns0
<1>7. CASE Access(u)
  BY <1>3, <1>6, <1>7 DEF Access
<1>8. CASE Mkdir(u)
  BY <1>4, <1>6, <1>8 DEF Mkdir
<1>9. CASE Stat(u) \/ Create(u) \/ OpenForWrite(u) \/ WriteBlock(u) \/ WriteReturns(u)
  BY <1>3, <1>4, <1>9 DEF Stat, Create, OpenForWrite, WriteBlock, WriteReturns
<1>10. CASE OpenForRead(u)
  BY <1>3, <1>4, <1>10 DEF OpenForRead
<1>11. CASE ReadReturns(u)
  BY <1>4, <1>11 DEF ReadReturns
<1>12. CASE OpenDir(u) \/ SearchDescends(u) \/ SearchPasses(u) \/ SearchFinds(u)
  BY <1>3, <1>4, <1>12 DEF OpenDir, SearchDescends, SearchPasses, SearchFinds
<1>13. CASE ScanThrows(u) \/ ListEntry(u) \/ ScanEnds(u)
  BY <1>3, <1>4, <1>13 DEF ScanThrows, ListEntry, ScanEnds
<1> QED  BY <1>5, <1>7, <1>8, <1>9, <1>10, <1>11, <1>12, <1>13

LEMMA FileTells ==
  ASSUME Inv, [Next]_vars, NEW t \in Thread, pc[t] \in {"create", "write", "read"},
         pc'[t] = "returned", ret'[t].code >= 0
  PROVE  /\ alone[t] => UndisturbedTells(t)
         /\ pc[t] = "read" /\ ~req[t].json =>
              \A u \in Thread : pc[u] = "write" /\ alone[u] /\ Target(u) = Target(t) =>
                OverlappedTells(t, u)
<1>1. /\ pc[t] = "create" => req[t].op = "create"
      /\ pc[t] = "write" => req[t].op = "write"
      /\ pc[t] = "read" => req[t].op = "read"
  BY UsingIs
<1>2. ~(Terminated \/ UNCHANGED vars)
  BY DEF Terminated, vars
<1>3. PICK u \in Thread :
       \/ Call(u) \/ Access(u) \/ Mkdir(u) \/ Stat(u) \/ Create(u)
       \/ OpenForWrite(u) \/ WriteBlock(u) \/ WriteReturns(u) \/ OpenForRead(u) \/ ReadReturns(u)
       \/ OpenDir(u) \/ SearchDescends(u) \/ SearchPasses(u) \/ SearchFinds(u) \/ ScanThrows(u)
       \/ ListEntry(u) \/ ScanEnds(u)
  BY <1>2 DEF Next
<1>4. u = t
  BY <1>3, OwnStep
<1>5. ~Call(t)
  BY DEF Call, Active
<1>6. ~(Access(t) \/ Mkdir(t) \/ Stat(t) \/ OpenForWrite(t) \/ OpenForRead(t) \/ OpenDir(t))
  BY DEF Access, Mkdir, Stat, OpenForWrite, OpenForRead, OpenDir, At
<1>7. ~(SearchDescends(t) \/ SearchPasses(t) \/ SearchFinds(t) \/ ScanThrows(t) \/ ListEntry(t) \/ ScanEnds(t))
  BY DEF SearchDescends, SearchPasses, SearchFinds, ScanThrows, ListEntry, ScanEnds, At
<1>8. ~WriteBlock(t)
  <2>1. WriteBlock(t) => pc'[t] = "write"
    BY DEF WriteBlock, Goto, Inv, Shapes
  <2> QED  BY <2>1
<1>9. CASE Create(t)
  <2>1. pc[t] = "create"
    BY <1>9 DEF Create, At
  <2> QED  BY <1>1, <1>9, <2>1, CreateTells DEF UndisturbedTells
<1>10. CASE WriteReturns(t)
  <2>1. pc[t] = "write"
    BY <1>10 DEF WriteReturns, At
  <2> QED  BY <1>1, <1>10, <2>1, WriteReturnsStep DEF UndisturbedTells
<1>11. CASE ReadReturns(t)
  <2>1. pc[t] = "read"
    BY <1>11 DEF ReadReturns, At
  <2> QED  BY <1>1, <1>11, <2>1, ReadReturnsStep
<1> QED  BY <1>3, <1>4, <1>5, <1>6, <1>7, <1>8, <1>9, <1>10, <1>11

\* FilesTell: as long as nobody else creates or writes its file, WriteTo (file_.h:304)
\* leaves just its text, ReadFrom gets just the text or the JSON value it begins with, and
\* CreateEmpty replaces nothing; a string read while one WriteTo is under way is what that
\* has written so far, and NUL.
THEOREM FilesAreRight == Spec => FilesTell
<1> DEFINE A == \A t \in Thread :
                  pc[t] \in {"create", "write", "read"} /\ pc'[t] = "returned" /\ ret'[t].code >= 0 =>
                    /\ alone[t] => UndisturbedTells(t)
                    /\ pc[t] = "read" /\ ~req[t].json =>
                         \A u \in Thread : pc[u] = "write" /\ alone[u] /\ Target(u) = Target(t) =>
                           OverlappedTells(t, u)
<1>1. Inv /\ [Next]_vars => [A]_vars
  BY FileTells
<1> HIDE DEF A
<1>2. Spec => [][A]_vars
  BY <1>1, Invariant, PTL DEF Spec
<1> QED  BY <1>2 DEF FilesTell, A

(***************************************************************************)
(* Two threads that make one path.  The frames of MkdirsByPath are         *)
(* beginnings of the path, and on a plain path no two of them that have    *)
(* still something to make have one name.                                  *)
(***************************************************************************)
CutOf(path, p) ==
  \E k \in 0 .. Len(path) : p = SubSeq(path, 1, k) /\ (k = Len(path) \/ path[k + 1] = "/")

LEMMA CutAgain ==
  ASSUME NEW path \in Seq(STRING), NEW p \in Seq(STRING), CutOf(path, p)
  PROVE  CutOf(path, ParentText(p))
<1>1. CASE ~Contains(p, "/")
  BY <1>1 DEF ParentText
<1>2. CASE Contains(p, "/")
  <2>1. PICK i \in 1 .. Len(p) : p[i] = "/" /\ Up(p) = SubSeq(p, 1, i - 1)
    BY <1>2, LastSlash
  <2>2. PICK k \in 0 .. Len(path) : p = SubSeq(path, 1, k)
    BY DEF CutOf
  <2>3. Len(p) = k /\ Len(path) \in Nat /\ i \in 1 .. k
    BY <2>1, <2>2
  <2>4. ParentText(p) = SubSeq(path, 1, i - 1) /\ path[i] = "/"
    <3>1. p[i] = path[i] /\ SubSeq(p, 1, i - 1) = SubSeq(path, 1, i - 1)
      BY <2>2, <2>3
    <3> QED  BY <1>2, <2>1, <3>1 DEF ParentText
  <2>5. i - 1 \in 0 .. Len(path) /\ i - 1 + 1 = i
    BY <2>3
  <2> QED  BY <2>4, <2>5 DEF CutOf
<1> QED  BY <1>1, <1>2

LEMMA FramesCut ==
  ASSUME NEW s \in Seq(Path), \A i \in 1 .. Len(s) - 1 : s[i] = ParentText(s[i + 1]),
         NEW i \in 1 .. Len(s)
  PROVE  CutOf(s[Len(s)], s[i])
<1> DEFINE path == s[Len(s)]
           T == {d \in Nat : d < Len(s) /\ ~CutOf(path, s[Len(s) - d])}
<1>1. Len(s) \in Nat \ {0} /\ Len(s) \in 1 .. Len(s) /\ \A j \in 1 .. Len(s) : s[j] \in Seq(STRING)
  BY DEF Path
<1>2. 0 \notin T
  <2>1. path = SubSeq(path, 1, Len(path)) /\ Len(path) \in 0 .. Len(path) /\ path \in Seq(STRING)
    BY <1>1
  <2>2. CutOf(path, path)
    BY <2>1 DEF CutOf
  <2> QED  BY <1>1, <2>2
<1>3. ASSUME NEW d \in T, d # 0, d - 1 \notin T PROVE FALSE
  <2>1. Len(s) - d \in 1 .. Len(s) - 1 /\ Len(s) - (d - 1) = Len(s) - d + 1
        /\ Len(s) - d + 1 \in 1 .. Len(s) /\ d - 1 \in Nat /\ d - 1 < Len(s)
    BY <1>1, <1>3
  <2>2. CutOf(path, s[Len(s) - d + 1])
    BY <1>3, <2>1
  <2>3. s[Len(s) - d] = ParentText(s[Len(s) - d + 1])
    BY <2>1
  <2>4. CutOf(path, s[Len(s) - d])
    BY <1>1, <2>1, <2>2, <2>3, CutAgain
  <2> QED  BY <1>3, <2>4
<1>4. T \in SUBSET Nat
  OBVIOUS
<1> HIDE DEF T, path
<1>5. T = {}
  BY <1>2, <1>3, <1>4, Induction
<1>6. Len(s) - i \in Nat /\ Len(s) - i < Len(s) /\ Len(s) - (Len(s) - i) = i
  BY <1>1
<1> QED  BY <1>5, <1>6 DEF T, path

LEMMA CutTwice ==
  ASSUME NEW r \in Seq(STRING), NEW m \in 0 .. Len(r), NEW k \in 0 .. m
  PROVE  SubSeq(SubSeq(r, 1, m), 1, k) = SubSeq(r, 1, k)
OBVIOUS

LEMMA FramesGrow ==
  ASSUME NEW s \in Seq(Path), \A i \in 1 .. Len(s) - 1 : s[i] = ParentText(s[i + 1]),
         NEW i \in 1 .. Len(s), NEW j \in i .. Len(s)
  PROVE  IsPrefix(Names(s[i]), Names(s[j]))
<1> DEFINE T == {m \in Nat : i + m <= Len(s) /\ ~IsPrefix(Names(s[i]), Names(s[i + m]))}
<1>1. /\ Len(s) \in Nat
      /\ \A k \in 1 .. Len(s) : s[k] \in Path /\ Names(s[k]) \in Place /\ Names(s[k]) \in Seq(STRING)
  BY PlaceIs DEF Path
<1>2. 0 \notin T
  <2>1. Names(s[i]) = SubSeq(Names(s[i]), 1, Len(Names(s[i]))) /\ Len(Names(s[i])) \in Nat
    BY <1>1
  <2>2. IsPrefix(Names(s[i]), Names(s[i]))
    BY <1>1, <2>1, PrefixIs
  <2> QED  BY <2>2
<1>3. ASSUME NEW m \in T, m # 0, m - 1 \notin T PROVE FALSE
  <2> DEFINE p == Names(s[i])
             q == Names(s[i + m - 1])
             r == Names(s[i + m])
  <2>1. /\ i + m - 1 \in 1 .. Len(s) - 1 /\ i + m \in 1 .. Len(s) /\ i + m - 1 + 1 = i + m
        /\ i + m - 1 \in 1 .. Len(s) /\ i + (m - 1) = i + m - 1 /\ m - 1 \in Nat
    BY <1>1, <1>3
  <2>2. IsPrefix(p, q) /\ ~IsPrefix(p, r)
    BY <1>3, <2>1
  <2>3. s[i + m - 1] = ParentText(s[i + m])
    BY <2>1
  <2>4. q = r \/ (r # <<>> /\ q = Front(r))
    BY <1>1, <2>1, <2>3, ParentIs
  <2>5. p \in Seq(STRING) /\ q \in Seq(STRING) /\ r \in Seq(STRING)
    BY <1>1, <2>1
  <2> HIDE DEF p, q, r
  <2>6. r # <<>> /\ q = SubSeq(r, 1, Len(r) - 1) /\ Len(q) = Len(r) - 1 /\ Len(r) \in Nat
    BY <2>2, <2>4, <2>5, FrontAndLast
  <2>7. Len(p) <= Len(q) /\ p = SubSeq(q, 1, Len(p)) /\ Len(p) \in Nat
    BY <2>2, <2>5, PrefixIs
  <2>8. Len(p) <= Len(r) /\ p = SubSeq(r, 1, Len(p))
    <3> DEFINE x == Len(r) - 1
               y == Len(p)
    <3>1. x \in 0 .. Len(r) /\ y \in 0 .. x /\ y <= Len(r)
      BY <2>6, <2>7
    <3>2. q = SubSeq(r, 1, x) /\ p = SubSeq(q, 1, y)
      BY <2>6, <2>7
    <3> HIDE DEF x, y
    <3>3. p = SubSeq(r, 1, y)
      BY <2>5, <3>1, <3>2, CutTwice
    <3> QED  BY <3>1, <3>3 DEF y
  <2>9. IsPrefix(p, r)
    BY <2>5, <2>8, PrefixIs
  <2> QED  BY <2>2, <2>9
<1>4. T \in SUBSET Nat
  OBVIOUS
<1> HIDE DEF T
<1>5. T = {}
  BY <1>2, <1>3, <1>4, Induction
<1>6. j - i \in Nat /\ i + (j - i) = j /\ j <= Len(s)
  BY <1>1
<1> QED  BY <1>5, <1>6 DEF T

LEMMA NamedOnce ==
  ASSUME NEW path \in Path, Plain(path), NEW p \in Path, CutOf(path, p), Contains(p, "/"),
         Names(ParentText(p)) = Names(p)
  PROVE  Names(p) \in {<<>>, Names(path)}
<1>1. path \in Seq(STRING) /\ p \in Seq(STRING) /\ Len(path) \in Nat
      /\ \A j \in 1 .. Len(p) - 1 : p[j] = "/" \/ p[j + 1] = "/"
  BY DEF Path
<1>2. PICK k \in 0 .. Len(path) : p = SubSeq(path, 1, k) /\ (k = Len(path) \/ path[k + 1] = "/")
  BY DEF CutOf
<1>3. PICK i \in 1 .. Len(p) : /\ p[i] = "/" /\ Up(p) = SubSeq(p, 1, i - 1)
                               /\ \A j \in i + 1 .. Len(p) : p[j] # "/"
  BY <1>1, LastSlash
<1>4. PICK f : Names(path) = f[Len(path)] /\ Beginnings(path, f)
  BY <1>1, NamesAre
<1>5. Len(p) = k /\ i \in 1 .. k /\ \A j \in 1 .. k : p[j] = path[j]
  BY <1>1, <1>2, <1>3
<1>6. Names(p) = f[k]
  BY <1>1, <1>2, <1>4, NamesOfPrefix
<1>7. Names(SubSeq(path, 1, i)) = f[i] /\ Names(SubSeq(path, 1, i - 1)) = f[i - 1]
  <2>1. i \in 0 .. Len(path) /\ i - 1 \in 0 .. Len(path)
    BY <1>5
  <2> QED  BY <1>1, <1>4, <2>1, NamesOfPrefix
<1>8. f[i] = f[i - 1]
  <2>1. i \in 1 .. Len(path) /\ path[i] = "/"
    BY <1>3, <1>5
  <2> QED  BY <1>4, <2>1 DEF Beginnings, Next1
<1>9. ParentText(p) = SubSeq(path, 1, i - 1)
  <2>1. SubSeq(p, 1, i - 1) = SubSeq(path, 1, i - 1)
    BY <1>1, <1>2, <1>5
  <2> QED  BY <1>3, <2>1 DEF ParentText
<1>10. f[k] = f[i]
  BY <1>6, <1>7, <1>8, <1>9
<1>11. CASE i = k /\ k = Len(path)
  BY <1>4, <1>6, <1>11
<1>12. CASE i = k /\ k # Len(path)
  <2>1. k \in 1 .. Len(path) - 1 /\ path[k] = "/" /\ path[k + 1] = "/"
    BY <1>1, <1>2, <1>3, <1>5, <1>12
  <2>2. Names(SubSeq(path, 1, k)) \in {<<>>, Names(path)}
    BY <2>1 DEF Plain
  <2> QED  BY <1>2, <2>2
<1>13. CASE i # k
  <2>1. k = i + 1
    <3>1. SUFFICES ASSUME i + 2 <= k PROVE FALSE
      BY <1>5, <1>13
    <3>2. i + 1 \in 1 .. Len(p) - 1 /\ i + 1 \in i + 1 .. Len(p) /\ i + 1 + 1 \in i + 1 .. Len(p)
      BY <1>5, <3>1
    <3> QED  BY <1>1, <1>3, <3>2
  <2>2. /\ path[i] = "/" /\ i \in 1 .. Len(path) - 1 /\ i + 1 \in 1 .. Len(path) /\ i + 1 - 1 = i
        /\ i \in 0 .. Len(path)
    BY <1>3, <1>5, <2>1
  <2>3. f[i + 1] = Next1(path[i + 1], f[i]) /\ f[i] \in Seq(STRING) /\ path[i + 1] \in STRING
    BY <1>1, <1>4, <2>2 DEF Beginnings
  <2>4. path[i + 1] \in {"/", "."}
    <3>1. SUFFICES ASSUME path[i + 1] \notin {"/", "."} PROVE FALSE
      OBVIOUS
    <3>2. f[i] = Append(f[i], path[i + 1])
      BY <1>10, <2>1, <2>3, <3>1 DEF Next1
    <3>3. Len(Append(f[i], path[i + 1])) = Len(f[i]) + 1 /\ Len(f[i]) \in Nat
      BY <2>3
    <3> QED  BY <3>2, <3>3
  <2>5. Names(SubSeq(path, 1, i)) \in {<<>>, Names(path)}
    BY <2>2, <2>4 DEF Plain
  <2> QED  BY <1>6, <1>7, <1>10, <2>5
<1> QED  BY <1>11, <1>12, <1>13
(***************************************************************************)
(* A call is lost when it has returned -1, or has still to make something  *)
(* that is there by now.  Whoever makes a directory on a plain path is not *)
(* lost, for everything below that directory is still missing; so of two   *)
(* calls for one path that nothing forbids, one is not.                    *)
(***************************************************************************)
Found(t) == pc[t] = "mkdir" => Exists(ParentText(stack[t][1]))

Lost(t) ==
  \/ pc[t] = "returned" /\ ret[t].code # 0
  \/ \E i \in 1 .. Len(stack[t]) :
       (pc[t] = "mkdir" \/ (pc[t] = "access" /\ i # 1)) /\ Exists(stack[t][i])

Contest(t) ==
  /\ req[t].op = "mkdirs" /\ Plain(req[t].path)
  /\ FreeWay(Target(t)) /\ tree[Target(t)].kind # "dir"

Winner(t, u) ==
  t # u /\ Thread = {t, u} /\ Target(u) = Target(t) /\ Contest(t) /\ Contest(u) =>
    ~(Lost(t) /\ Lost(u))

Race == (\A t \in Thread : Found(t)) /\ (\A t, u \in Thread : Winner(t, u))

LEMMA StillMissing ==
  ASSUME Inv, NEW t \in Thread, pc[t] = "mkdir", Found(t), Plain(req[t].path),
         Creatable(Names(stack[t][1])), tree'[Target(t)].kind # "dir",
         tree' = [tree EXCEPT ![Names(stack[t][1])] = [kind |-> "dir", text |-> <<>>]],
         NEW i \in 2 .. Len(stack[t])
  PROVE  ~(stack[t][i] # <<>> /\ tree'[Names(stack[t][i])].kind # "none")
<1> DEFINE s == stack[t]
           path == req[t].path
           n == Names(s[1])
           q == Names(s[i])
<1>1. /\ s \in Seq(Path) /\ Len(s) \in Nat /\ s[Len(s)] = path /\ path \in Path
      /\ \A j \in 1 .. Len(s) - 1 : s[j] = ParentText(s[j + 1])
  BY MakingIs, TargetIs
<1> HIDE DEF s
<1>2. /\ 1 \in 1 .. Len(s) /\ 2 \in 1 .. Len(s) /\ 1 \in 1 .. Len(s) - 1 /\ i \in 1 .. Len(s)
      /\ 2 \in 1 .. Len(s) /\ i \in 2 .. Len(s)
  BY <1>1 DEF s
<1>3. /\ s[1] \in Path /\ s[2] \in Path /\ s[i] \in Path /\ s[1] = ParentText(s[2])
  BY <1>1, <1>2
<1>4. n \in Place /\ q \in Place /\ n \in Seq(STRING) /\ q \in Seq(STRING)
      /\ Names(s[2]) \in Seq(STRING)
  BY <1>3, PlaceIs DEF Path
<1>5. tree \in Tree /\ tree[n].kind = "none" /\ tree'[n].kind = "dir"
      /\ \A p \in Place : p # n => tree'[p] = tree[p]
  BY <1>4 DEF Inv, Shapes, Tree, Creatable, s
<1>6. IsPrefix(n, q) /\ IsPrefix(n, Names(s[2])) /\ IsPrefix(Names(s[2]), q)
  BY <1>1, <1>2, FramesGrow
<1>7. n # q
  <2>1. SUFFICES ASSUME n = q PROVE FALSE
    OBVIOUS
  <2>2. Names(s[2]) = n
    <3> DEFINE m == Names(s[2])
    <3>1. m \in Seq(STRING) /\ IsPrefix(n, m) /\ IsPrefix(m, n)
      BY <1>4, <1>6, <2>1
    <3> HIDE DEF m, n
    <3>2. Len(n) <= Len(m) /\ n = SubSeq(m, 1, Len(n)) /\ Len(m) <= Len(n)
      BY <1>4, <3>1, PrefixIs
    <3>3. Len(n) = Len(m) /\ SubSeq(m, 1, Len(m)) = m
      BY <1>4, <3>1, <3>2
    <3> QED  BY <3>2, <3>3 DEF m
  <2>3. CASE Contains(s[2], "/")
    <3>1. CutOf(path, s[2])
      BY <1>1, <1>2, FramesCut
    <3>2. Names(s[2]) \in {<<>>, Names(path)}
      BY <1>1, <1>3, <2>2, <2>3, <3>1, NamedOnce
    <3>3. n # <<>>
      BY <1>5 DEF Tree
    <3>4. n # Names(path)
      BY <1>5 DEF Target
    <3> QED  BY <2>2, <3>2, <3>3, <3>4
  <2>4. CASE ~Contains(s[2], "/")
    <3>1. s[1] = s[2] /\ ParentText(s[1]) = s[1]
      BY <1>3, <2>4 DEF ParentText
    <3>2. Exists(s[1])
      BY <3>1 DEF Found, s
    <3> QED  BY <1>5, <3>2 DEF Exists
  <2> QED  BY <2>3, <2>4
<1>8. tree[q].kind = "none"
  <2>1. SUFFICES ASSUME tree[q].kind # "none" PROVE FALSE
    OBVIOUS
  <2> HIDE DEF n, q
  <2> DEFINE k == Len(n)
  <2>2. k \in 0 .. Len(q) /\ n = SubSeq(q, 1, k)
    BY <1>4, <1>6, PrefixIs
  <2> HIDE DEF k
  <2>3. tree[SubSeq(q, 1, k)].kind # "none"
    BY <1>4, <1>5, <2>1, <2>2, Ancestors
  <2> QED  BY <1>5, <2>2, <2>3
<1> QED  BY <1>4, <1>5, <1>7, <1>8 DEF s

\* A call that fails at a directory was lost before: nothing but that it is there by now
\* keeps it from being made.
LEMMA FailsLost ==
  ASSUME Inv, NEW t \in Thread, pc[t] = "mkdir", Found(t), Contest(t),
         ~Creatable(Names(stack[t][1]))
  PROVE  Lost(t)
<1> DEFINE s == stack[t]
           n == Names(s[1])
           q == Target(t)
<1>1. /\ s \in Seq(Path) /\ Len(s) \in Nat /\ s[Len(s)] = req[t].path /\ Len(s) >= 1
      /\ \A j \in 1 .. Len(s) - 1 : s[j] = ParentText(s[j + 1])
      /\ Ready(t) /\ q \in Place /\ tree \in Tree
  <2>1. Len(s) \in 1 .. MaxDepth /\ MaxDepth \in Nat
    BY MakingIs, FileOperateAssumption
  <2>2. Len(s) \in Nat /\ Len(s) >= 1
    <3> HIDE DEF s
    <3> QED  BY <2>1
  <2> QED  BY <2>2, MakingIs, TargetIs DEF Inv, Shapes
<1> HIDE DEF s
<1>2. 1 \in 1 .. Len(s) /\ Len(s) \in 1 .. Len(s)
  BY <1>1
<1>3. s[1] \in Path /\ n \in Place /\ n \in Seq(STRING) /\ q \in Seq(STRING) /\ Front(n) \in Place
  <2>1. s[1] \in Path
    BY <1>1, <1>2
  <2>2. n \in Place /\ q \in Place
    BY <1>1, <2>1 DEF Path
  <2> HIDE DEF n, q
  <2> QED  BY <2>1, <2>2, PlaceIs
<1>4. s[1] # <<>>
  <2>1. SUFFICES ASSUME s[1] = <<>> PROVE FALSE
    OBVIOUS
  <2>2. ~Contains(<<>>, "/")
    BY DEF Contains
  <2>3. ParentText(<<>>) = <<>>
    BY <2>2 DEF ParentText
  <2> QED  BY <2>1, <2>3 DEF Found, Exists, s
<1>5. tree[n].kind # "none"
  <2>1. SUFFICES ASSUME tree[n].kind = "none" PROVE FALSE
    OBVIOUS
  <2>2. n # <<>>
    BY <1>1, <2>1 DEF Tree
  <2>3. IsPrefix(n, Names(s[Len(s)]))
    BY <1>1, <1>2, FramesGrow
  <2>4. Len(n) \in 1 .. Len(q) /\ n = SubSeq(q, 1, Len(n))
    <3>1. IsPrefix(n, q)
      BY <1>1, <2>3 DEF Target
    <3> HIDE DEF n, q
    <3>2. Len(n) <= Len(q) /\ n = SubSeq(q, 1, Len(n))
      BY <1>3, <3>1, PrefixIs
    <3>3. Len(n) \in Nat \ {0}
      BY <1>3, <2>2, FrontAndLast
    <3> QED  BY <1>3, <3>2, <3>3
  <2>5. n \notin Denied
    BY <2>4 DEF Contest, FreeWay
  <2>6. tree[Front(n)].kind = "dir"
    <3>1. tree[Front(n)].kind # "none"
      BY <1>1 DEF Ready, s
    <3>2. CASE Front(n) = <<>>
      BY <1>1, <3>2 DEF Tree
    <3>3. CASE Front(n) # <<>>
      <4> DEFINE x == Len(n)
                 y == x - 1
      <4>1. Front(n) = SubSeq(n, 1, y) /\ Len(Front(n)) = y /\ x \in 1 .. Len(q)
        BY <1>3, <2>2, <2>4, FrontAndLast
      <4>2. Len(Front(n)) \in Nat \ {0}
        BY <1>3, <2>2, <3>3, FrontAndLast
      <4>3. y \in 1 .. Len(q) /\ x \in 0 .. Len(q) /\ y \in 0 .. x
        BY <1>3, <4>1, <4>2
      <4>4. n = SubSeq(q, 1, x)
        BY <2>4
      <4> HIDE DEF x, y, n, q
      <4>5. Front(n) = SubSeq(q, 1, y)
        BY <1>3, <4>1, <4>3, <4>4, CutTwice
      <4>6. ~IsFile(tree[SubSeq(q, 1, y)])
        BY <4>3 DEF Contest, FreeWay, q
      <4> QED  BY <3>1, <4>5, <4>6 DEF IsFile
    <3> QED  BY <3>2, <3>3
  <2> QED  BY <2>1, <2>5, <2>6 DEF Creatable, s
<1>6. Exists(s[1])
  BY <1>4, <1>5 DEF Exists
<1> QED  BY <1>2, <1>6 DEF Lost, s

\* No call takes anything away, or changes what it is.
LEMMA Grows ==
  ASSUME Inv, [Next]_vars
  PROVE  Grown(tree, tree')
<1>1. tree \in Tree /\ tree \in [Place -> Node]
  BY DEF Inv, Shapes, Tree
<1>2. tree' = tree => Grown(tree, tree')
  BY DEF Grown
<1>3. ASSUME NEW n \in Place, NEW node, tree' = [tree EXCEPT ![n] = node],
             tree[n].kind \in {"none", node.kind}
      PROVE  Grown(tree, tree')
  <2>1. tree'[n] = node /\ \A p \in Place : p # n => tree'[p] = tree[p]
    BY <1>1, <1>3
  <2> QED  BY <1>3, <2>1 DEF Grown
<1>4. ASSUME NEW t \in Thread, Mkdir(t) PROVE Grown(tree, tree')
  <2>1. Names(Head(stack[t])) \in Place
    BY <1>4, MakingIs DEF Mkdir, At
  <2> QED  BY <1>2, <1>3, <1>4, <2>1 DEF Mkdir, Creatable
<1>5. ASSUME NEW t \in Thread, Create(t) \/ OpenForWrite(t) PROVE Grown(tree, tree')
  <2> DEFINE n == Names(req[t].path)
  <2>1. n \in Place
    BY <1>5, UsingIs DEF Create, OpenForWrite, At
  <2>2. tree' = tree \/ (Opens(n) /\ tree' = [tree EXCEPT ![n] = [kind |-> "reg", text |-> <<>>]])
    BY <1>5 DEF Create, OpenForWrite, Truncated
  <2> HIDE DEF n
  <2> QED  BY <1>2, <1>3, <2>1, <2>2 DEF Opens, Creatable
<1>6. ASSUME NEW t \in Thread, WriteBlock(t) PROVE Grown(tree, tree')
  <2> DEFINE n == Names(req[t].path)
  <2>1. n \in Place
    BY <1>6, UsingIs DEF WriteBlock, At
  <2>2. PICK x : tree' = [tree EXCEPT ![n].text = x]
    BY <1>6 DEF WriteBlock
  <2> HIDE DEF n
  <2>3. tree[n] \in Node
    BY <1>1, <2>1
  <2>4. \A p \in Place : tree'[p].kind = tree[p].kind
    BY <1>1, <2>1, <2>2, <2>3 DEF Node
  <2> QED  BY <2>4 DEF Grown
<1>7. ASSUME NEW t \in Thread,
             \/ Call(t) \/ Access(t) \/ Stat(t) \/ WriteReturns(t) \/ OpenForRead(t) \/ ReadReturns(t)
             \/ OpenDir(t) \/ SearchDescends(t) \/ SearchPasses(t) \/ SearchFinds(t) \/ ScanThrows(t)
             \/ ListEntry(t) \/ ScanEnds(t)
      PROVE  tree' = tree
  BY <1>7 DEF Call, Access, Stat, WriteReturns, OpenForRead, ReadReturns, OpenDir, SearchDescends,
              SearchPasses, SearchFinds, ScanThrows, ListEntry, ScanEnds
<1>8. CASE Terminated \/ UNCHANGED vars
  BY <1>2, <1>8 DEF Terminated, vars
<1> QED  BY <1>2, <1>4, <1>5, <1>6, <1>7, <1>8 DEF Next

\* A step of one thread leaves the call of another as it is.
Untouched(u) == pc'[u] = pc[u] /\ stack'[u] = stack[u] /\ req'[u] = req[u] /\ ret'[u] = ret[u]

LEMMA OthersWait ==
  ASSUME Inv, NEW t \in Thread, NEW u \in Thread, u # t,
       \/ Call(u) \/ Access(u) \/ Mkdir(u) \/ Stat(u) \/ Create(u)
       \/ OpenForWrite(u) \/ WriteBlock(u) \/ WriteReturns(u) \/ OpenForRead(u) \/ ReadReturns(u)
       \/ OpenDir(u) \/ SearchDescends(u) \/ SearchPasses(u) \/ SearchFinds(u) \/ ScanThrows(u)
       \/ ListEntry(u) \/ ScanEnds(u)
  PROVE  Untouched(t)
<1>1. /\ stack = [w \in Thread |-> stack[w]] /\ req \in [Thread -> Request]
      /\ ret \in [Thread -> [code : Int, out : Seq(STRING)]]
  BY DEF Inv, Shapes
<1>2. pc'[t] = pc[t]
  BY OwnStep
<1>3. \A s : stack' = [stack EXCEPT ![u] = s] => stack'[t] = stack[t]
  <2>1. ASSUME NEW s, stack' = [stack EXCEPT ![u] = s] PROVE stack'[t] = stack[t]
    BY <1>1, <2>1
  <2> QED  BY <2>1
<1>4. \A l : Goto(u, l) => req'[t] = req[t] /\ ret'[t] = ret[t]
  BY DEF Goto
<1>5. \A c, o : Return(u, c, o) => req'[t] = req[t] /\ ret'[t] = ret[t]
  BY <1>1 DEF Return
<1>6. CASE Call(u)
  <2>1. stack'[t] = stack[t]
    BY <1>3, <1>6 DEF Call
  <2>2. req'[t] = req[t] /\ ret'[t] = ret[t]
    BY <1>1, <1>6 DEF Call
  <2> QED  BY <1>2, <2>1, <2>2 DEF Untouched
<1>7. FrameReturns0(u) => stack'[t] = stack[t] /\ req'[t] = req[t] /\ ret'[t] = ret[t]
  BY <1>3, <1>4, <1>5 DEF FrameReturns0
<1>8. CASE Access(u)
  BY <1>2, <1>3, <1>4, <1>7, <1>8 DEF Access, Untouched
<1>9. CASE Mkdir(u)
  BY <1>2, <1>5, <1>7, <1>9 DEF Mkdir, Untouched
<1>10. CASE Stat(u) \/ Create(u) \/ OpenForWrite(u) \/ WriteBlock(u) \/ WriteReturns(u)
  BY <1>2, <1>4, <1>5, <1>10 DEF Stat, Create, OpenForWrite, WriteBlock, WriteReturns, Untouched, local
<1>11. CASE OpenForRead(u)
  BY <1>2, <1>4, <1>5, <1>11 DEF OpenForRead, Untouched
<1>12. CASE ReadReturns(u)
  BY <1>2, <1>5, <1>12 DEF ReadReturns, Untouched, local
<1>13. CASE OpenDir(u)
  BY <1>2, <1>3, <1>4, <1>5, <1>13 DEF OpenDir, Untouched
<1>14. \A e : stack' = Seen(u, e) => stack'[t] = stack[t]
  BY <1>1 DEF Seen
<1>15. CASE SearchDescends(u)
  <2>1. PICK e, s : stack' = [Seen(u, e) EXCEPT ![u] = s]
    BY <1>15 DEF SearchDescends
  <2>2. stack'[t] = stack[t]
    BY <1>1, <2>1 DEF Seen
  <2> QED  BY <1>2, <1>4, <1>15, <2>2 DEF SearchDescends, Untouched
<1>16. CASE SearchPasses(u) \/ ListEntry(u)
  BY <1>2, <1>4, <1>14, <1>16 DEF SearchPasses, ListEntry, Untouched
<1>17. CASE SearchFinds(u) \/ ScanThrows(u) \/ ScanEnds(u)
  BY <1>2, <1>3, <1>4, <1>5, <1>17 DEF SearchFinds, ScanThrows, ScanEnds, Untouched
<1> QED  BY <1>6, <1>8, <1>9, <1>10, <1>11, <1>12, <1>13, <1>15, <1>16, <1>17

LEMMA RaceKept ==
  ASSUME Inv, Inv', Race, NEW t \in Thread, \A u \in Thread \ {t} : Untouched(u), Grown(tree, tree'),
         \/ req'[t].op # "mkdirs"
         \/ Found(t)' /\ (Contest(t)' => ~Lost(t)')
         \/ Found(t)' /\ tree' = tree /\ req'[t] = req[t] /\ (Contest(t) /\ Lost(t)' => Lost(t))
  PROVE  Race'
<1>1. Found(t)'
  <2>1. SUFFICES ASSUME req'[t].op # "mkdirs" PROVE pc'[t] # "mkdir"
    BY DEF Found
  <2>2. req'[t] \in Request /\ pc'[t] \in StepsOf[req'[t].op] \cup {"idle", "returned"}
    BY DEF Inv, Shapes
  <2>3. req'[t].op \in {"create", "write", "read", "search", "list"}
    BY <2>1, <2>2, RequestAssumption
  <2> QED  BY <2>2, <2>3 DEF StepsOf
<1>2. ASSUME NEW u \in Thread \ {t} PROVE Found(u)'
  <2>1. SUFFICES ASSUME pc[u] = "mkdir" PROVE Exists(ParentText(stack[u][1]))'
    BY DEF Untouched, Found
  <2> DEFINE p == ParentText(stack[u][1])
  <2>2. Exists(p) /\ stack[u][1] \in Path
    BY <2>1, MakingIs DEF Race, Found
  <2>3. Names(p) \in Place
    BY <2>2, ParentIs DEF Path
  <2>4. ParentText(stack[u][1])' = p
    BY DEF Untouched
  <2> HIDE DEF p
  <2> QED  BY <2>2, <2>3, <2>4 DEF Exists, Grown
<1>3. ASSUME NEW u \in Thread, NEW w \in Thread, u # w, Thread = {u, w}, Target(w)' = Target(u)',
             Contest(u)', Contest(w)', Lost(u)', Lost(w)'
      PROVE  FALSE
  <2>1. PICK v \in Thread : v # t /\ Thread = {t, v}
    BY <1>3
  <2>2. Contest(t)' /\ Contest(v)' /\ Lost(t)' /\ Lost(v)' /\ Target(v)' = Target(t)'
    BY <1>3, <2>1
  <2>3. tree' = tree /\ req'[t] = req[t] /\ (Contest(t) /\ Lost(t)' => Lost(t))
    BY <2>2 DEF Contest
  <2>4. Untouched(v)
    BY <2>1
  <2>5. Target(t)' = Target(t) /\ Target(v)' = Target(v)
    BY <2>3, <2>4 DEF Target, Untouched
  <2>6. Contest(t) /\ Contest(v)
    BY <2>2, <2>3, <2>4, <2>5 DEF Contest, FreeWay, Untouched
  <2>7. Lost(v)
    BY <2>2, <2>3, <2>4 DEF Lost, Exists, Untouched
  <2> QED  BY <2>1, <2>2, <2>3, <2>5, <2>6, <2>7 DEF Race, Winner
<1>4. \A u \in Thread, w \in Thread : Winner(u, w)'
  BY <1>3 DEF Winner
<1> QED  BY <1>1, <1>2, <1>4 DEF Race

LEMMA CallRace ==
  ASSUME Inv, Inv', Race, NEW t \in Thread, Call(t), \A u \in Thread \ {t} : Untouched(u),
         Grown(tree, tree')
  PROVE  Race'
<1>1. PICK r \in Request :
        /\ req' = [req EXCEPT ![t] = r] /\ pc' = [pc EXCEPT ![t] = First[r.op]]
        /\ stack' = [stack EXCEPT ![t] = IF r.op = "mkdirs" THEN <<r.path>> ELSE <<>>]
  BY DEF Call
<1>2. req'[t] = r
  BY <1>1 DEF Inv, Shapes
<1>3. CASE r.op # "mkdirs"
  BY <1>2, <1>3, RaceKept
<1>4. CASE r.op = "mkdirs"
  <2>1. pc'[t] = "access"
    BY <1>1, <1>4 DEF First, Inv, Shapes
  <2>2. stack'[t] = <<r.path>>
    <3>1. stack = [u \in Thread |-> stack[u]]
      BY DEF Inv, Shapes
    <3> QED  BY <1>1, <1>4, <3>1
  <2>3. \A i \in 1 .. Len(stack'[t]) : i = 1
    BY <2>2
  <2>4. Found(t)' /\ ~Lost(t)'
    BY <2>1, <2>3 DEF Found, Lost
  <2> QED  BY <2>4, RaceKept
<1> QED  BY <1>3, <1>4

\* A frame returns 0: its call is over, or the frame below it is next.
LEMMA FrameRace ==
  ASSUME Inv, NEW t \in Thread, pc[t] \in {"access", "mkdir"}, FrameReturns0(t),
         stack[t][1] # <<>>, tree'[Names(stack[t][1])].kind # "none"
  PROVE  /\ Found(t)' /\ req'[t] = req[t]
         /\ Lost(t)' => pc'[t] = "mkdir"
                        /\ \E i \in 2 .. Len(stack[t]) :
                             stack[t][i] # <<>> /\ tree'[Names(stack[t][i])].kind # "none"
<1>1. /\ stack[t] \in Seq(Path) /\ Len(stack[t]) \in 1 .. MaxDepth /\ MaxDepth \in Nat
      /\ \A i \in 1 .. Len(stack[t]) - 1 : stack[t][i] = ParentText(stack[t][i + 1])
  BY MakingIs, FileOperateAssumption
<1>2. CASE Len(stack[t]) = 1
  <2>1. /\ pc'[t] = "returned" /\ req'[t] = req[t] /\ ret'[t] = [code |-> 0, out |-> <<>>]
    BY <1>2 DEF FrameReturns0, Return, Inv, Shapes
  <2> QED  BY <2>1 DEF Found, Lost
<1>3. CASE Len(stack[t]) # 1
  <2> DEFINE s == stack[t]
             m == Len(s)
  <2>1. pc'[t] = "mkdir" /\ req'[t] = req[t]
    BY <1>3 DEF FrameReturns0, Goto, Inv, Shapes
  <2>2. stack'[t] = Tail(s)
    <3>1. stack' = [stack EXCEPT ![t] = Tail(s)] /\ stack = [u \in Thread |-> stack[u]]
      BY <1>3 DEF FrameReturns0, Inv, Shapes
    <3> QED  BY <3>1
  <2>3. m \in 2 .. MaxDepth /\ m \in Nat
    <3>1. m \in 1 .. MaxDepth /\ m # 1
      BY <1>1, <1>3
    <3> HIDE DEF m
    <3> QED  BY <1>1, <3>1
  <2>4. s # <<>> /\ Len(Tail(s)) = m - 1 /\ \A i \in 1 .. m - 1 : Tail(s)[i] = s[i + 1]
    <3>1. s # <<>>
      BY <2>3
    <3> QED  BY <1>1, <3>1
  <2>5. s[1] = ParentText(Tail(s)[1])
    BY <1>1, <2>3, <2>4
  <2>6. Found(t)'
    BY <2>2, <2>5 DEF Found, Exists
  <2>7. ASSUME Lost(t)'
        PROVE  \E i \in 2 .. m : s[i] # <<>> /\ tree'[Names(s[i])].kind # "none"
    <3>1. PICK j \in 1 .. Len(Tail(s)) : Tail(s)[j] # <<>> /\ tree'[Names(Tail(s)[j])].kind # "none"
      BY <2>1, <2>2, <2>7 DEF Lost, Exists
    <3>2. j + 1 \in 2 .. m /\ Tail(s)[j] = s[j + 1]
      <4> HIDE DEF m
      <4> QED  BY <2>3, <2>4, <3>1
    <3> QED  BY <3>1, <3>2
  <2> QED  BY <2>1, <2>6, <2>7
<1> QED  BY <1>2, <1>3

LEMMA AccessRace ==
  ASSUME Inv, Inv', Race, NEW t \in Thread, Access(t), \A u \in Thread \ {t} : Untouched(u),
         Grown(tree, tree')
  PROVE  Race'
<1> DEFINE s == stack[t]
<1>1. pc[t] = "access" /\ tree' = tree
  BY DEF Access, At
<1>2. s \in Seq(Path) /\ Len(s) \in Nat \ {0} /\ Head(s) = s[1] /\ Shapes
  <2>1. s \in Seq(Path) /\ Len(s) \in 1 .. MaxDepth /\ MaxDepth \in Nat /\ Head(s) = s[1] /\ Shapes
    BY <1>1, MakingIs, FileOperateAssumption
  <2> HIDE DEF s
  <2> QED  BY <2>1
<1>3. CASE Exists(Head(s)) /\ FrameReturns0(t)
  <2>1. s[1] # <<>> /\ tree'[Names(s[1])].kind # "none"
    BY <1>1, <1>2, <1>3 DEF Exists
  <2>2. /\ Found(t)' /\ req'[t] = req[t]
        /\ Lost(t)' => \E i \in 2 .. Len(s) : s[i] # <<>> /\ tree'[Names(s[i])].kind # "none"
    BY <1>1, <1>3, <2>1, FrameRace
  <2>3. ASSUME Lost(t)' PROVE Lost(t)
    <3>1. PICK i \in 2 .. Len(s) : Exists(s[i])
      BY <1>1, <2>2, <2>3 DEF Exists
    <3>2. i \in 1 .. Len(s) /\ i # 1
      BY <1>2
    <3> QED  BY <1>1, <3>1, <3>2 DEF Lost
  <2> QED  BY <1>1, <2>2, <2>3, RaceKept
<1>4. CASE ~Exists(Head(s)) /\ Goto(t, "access") /\ stack' = [stack EXCEPT ![t] = <<ParentText(Head(s))>> \o s]
  <2> DEFINE p == ParentText(Head(s))
  <2>1. pc'[t] = "access" /\ req'[t] = req[t]
    BY <1>2, <1>4 DEF Goto, Shapes
  <2>2. stack'[t] = <<p>> \o s
    <3>1. stack = [u \in Thread |-> stack[u]]
      BY <1>2 DEF Shapes
    <3> QED  BY <1>4, <3>1
  <2>3. p \in Path
    BY <1>2, ParentIs
  <2>4. Found(t)'
    BY <2>1 DEF Found
  <2>5. ASSUME Lost(t)' PROVE Lost(t)
    <3> HIDE DEF p
    <3>1. PICK i \in 1 .. Len(<<p>> \o s) : i # 1 /\ Exists((<<p>> \o s)[i])
      BY <1>1, <2>1, <2>2, <2>5 DEF Lost, Exists
    <3> HIDE DEF s
    <3>2. Len(<<p>> \o s) = Len(s) + 1 /\ \A j \in 1 .. Len(s) : (<<p>> \o s)[j + 1] = s[j]
      BY <1>2, <2>3
    <3>3. i - 1 \in 1 .. Len(s) /\ i - 1 + 1 = i
      BY <1>2, <3>1, <3>2
    <3>4. Exists(s[i - 1])
      BY <3>1, <3>2, <3>3
    <3>5. i - 1 # 1
      BY <1>2, <1>4, <3>4
    <3> QED  BY <1>1, <3>3, <3>4, <3>5 DEF Lost, s
  <2> QED  BY <1>1, <2>1, <2>4, <2>5, RaceKept
<1>5. CASE Goto(t, "overflow")
  <2>1. pc'[t] = "overflow"
    BY <1>2, <1>5 DEF Goto, Shapes
  <2>2. Found(t)' /\ ~Lost(t)'
    BY <2>1 DEF Found, Lost
  <2> QED  BY <2>2, RaceKept
<1> QED  BY <1>3, <1>4, <1>5 DEF Access

LEMMA MkdirRace ==
  ASSUME Inv, Inv', Race, NEW t \in Thread, Mkdir(t), \A u \in Thread \ {t} : Untouched(u),
         Grown(tree, tree')
  PROVE  Race'
<1> DEFINE n == Names(stack[t][1])
<1>1. pc[t] = "mkdir" /\ Found(t)
  BY DEF Mkdir, At, Race
<1>2. Head(stack[t]) = stack[t][1] /\ n \in Place /\ Shapes /\ stack[t][1] \in Path
  BY <1>1, MakingIs
<1>3. CASE /\ Creatable(n) /\ FrameReturns0(t)
           /\ tree' = [tree EXCEPT ![n] = [kind |-> "dir", text |-> <<>>]]
  <2>1. tree'[n].kind # "none"
    BY <1>2, <1>3 DEF Shapes, Tree
  <2>2. stack[t][1] # <<>>
    <3>1. SUFFICES ASSUME stack[t][1] = <<>> PROVE FALSE
      OBVIOUS
    <3>2. ~Contains(<<>>, "/")
      BY DEF Contains
    <3>3. ParentText(<<>>) = <<>>
      BY <3>2 DEF ParentText
    <3> QED  BY <1>1, <3>1, <3>3 DEF Found, Exists
  <2>3. /\ Found(t)' /\ req'[t] = req[t]
        /\ Lost(t)' => \E i \in 2 .. Len(stack[t]) :
                         stack[t][i] # <<>> /\ tree'[Names(stack[t][i])].kind # "none"
    BY <1>1, <1>3, <2>1, <2>2, FrameRace
  <2>4. ASSUME Contest(t)' PROVE ~Lost(t)'
    <3>1. Plain(req[t].path) /\ tree'[Target(t)].kind # "dir"
      BY <2>3, <2>4 DEF Contest, Target
    <3> QED  BY <1>1, <1>3, <2>3, <3>1, StillMissing
  <2> QED  BY <2>3, <2>4, RaceKept
<1>4. CASE ~Creatable(n) /\ Return(t, Fail, <<>>) /\ UNCHANGED tree
  <2>1. pc'[t] = "returned" /\ req'[t] = req[t] /\ tree' = tree
    BY <1>2, <1>4 DEF Return, Shapes
  <2>2. Contest(t) => Lost(t)
    BY <1>1, <1>4, FailsLost
  <2>3. Found(t)'
    BY <2>1 DEF Found
  <2> QED  BY <2>1, <2>2, <2>3, RaceKept
<1> QED  BY <1>2, <1>3, <1>4 DEF Mkdir

LEMMA RaceInductive ==
  ASSUME Inv, Inv', Race, [Next]_vars
  PROVE  Race'
<1>1. CASE Terminated \/ UNCHANGED vars
  <2>1. /\ tree' = tree /\ pc' = pc /\ req' = req /\ stack' = stack /\ ret' = ret
    BY <1>1 DEF Terminated, vars, local
  <2>2. \A t \in Thread : Found(t)'
    BY <2>1 DEF Race, Found, Exists
  <2>3. \A t \in Thread : Target(t)' = Target(t) /\ Contest(t)' = Contest(t) /\ Lost(t)' = Lost(t)
    BY <2>1 DEF Target, Contest, FreeWay, Lost, Exists
  <2>4. \A t, u \in Thread : Winner(t, u)'
    BY <2>3 DEF Race, Winner
  <2> QED  BY <2>2, <2>4 DEF Race
<1>2. ASSUME ~(Terminated \/ UNCHANGED vars) PROVE Race'
  <2>1. PICK t \in Thread :
         \/ Call(t) \/ Access(t) \/ Mkdir(t) \/ Stat(t) \/ Create(t)
         \/ OpenForWrite(t) \/ WriteBlock(t) \/ WriteReturns(t) \/ OpenForRead(t) \/ ReadReturns(t)
         \/ OpenDir(t) \/ SearchDescends(t) \/ SearchPasses(t) \/ SearchFinds(t) \/ ScanThrows(t)
         \/ ListEntry(t) \/ ScanEnds(t)
    BY <1>2 DEF Next
  <2>2. Grown(tree, tree') /\ \A u \in Thread \ {t} : Untouched(u)
    BY <2>1, Grows, OthersWait
  <2>3. CASE Call(t) \/ Access(t) \/ Mkdir(t)
    BY <2>2, <2>3, CallRace, AccessRace, MkdirRace
  <2>4. ASSUME ~(Call(t) \/ Access(t) \/ Mkdir(t)) PROVE Race'
    <3>1. pc[t] \in {"stat", "create", "openw", "write", "openr", "read", "opendir", "search", "list"}
      BY <2>1, <2>4 DEF Stat, Create, OpenForWrite, WriteBlock, WriteReturns, OpenForRead, ReadReturns,
           OpenDir, SearchDescends, SearchPasses, SearchFinds, ScanThrows, ListEntry, ScanEnds, At
    <3>2. req[t].op # "mkdirs"
      BY <3>1, OpIs DEF Inv
    <3>3. \A l : Goto(t, l) => req' = req
      BY DEF Goto
    <3>4. \A c, o : Return(t, c, o) => req' = req
      BY DEF Return
    <3>5. req' = req
      BY <2>1, <2>4, <3>3, <3>4 DEF Stat, Create, OpenForWrite, WriteBlock, WriteReturns, OpenForRead,
           ReadReturns, OpenDir, SearchDescends, SearchPasses, SearchFinds, ScanThrows, ListEntry, ScanEnds
    <3> QED  BY <2>2, <3>2, <3>5, RaceKept
  <2> QED  BY <2>3, <2>4
<1> QED  BY <1>1, <1>2

LEMMA RaceInitial ==
  ASSUME Init
  PROVE  Race
<1>1. \A t \in Thread : pc[t] = "idle"
  BY DEF Init
<1>2. \A t \in Thread : Found(t) /\ ~Lost(t)
  BY <1>1 DEF Found, Lost
<1> QED  BY <1>2 DEF Race, Winner

LEMMA RaceAlways == Spec => []Race
<1>1. Init => Race
  BY RaceInitial
<1>2. Inv /\ Inv' /\ Race /\ [Next]_vars => Race'
  BY RaceInductive
<1> QED  BY <1>1, <1>2, Invariant, PTL DEF Spec

LEMMA BothTold ==
  ASSUME Inv, Race
  PROVE  MkdirsTells
<1>1. SUFFICES ASSUME NEW t \in Thread, NEW u \in Thread, Returned(t, "mkdirs")
               PROVE  /\ ret[t].code = 0 => tree[Target(t)].kind # "none"
                      /\ t # u /\ Thread = {t, u} /\ Returned(u, "mkdirs") /\ Target(u) = Target(t)
                         /\ Plain(req[t].path) /\ Plain(req[u].path) /\ FreeWay(Target(t)) =>
                           tree[Target(t)].kind = "dir"
  BY DEF MkdirsTells
<1>2. \A v \in Thread : Returned(v, "mkdirs") /\ ret[v].code = 0 => tree[Target(v)].kind # "none"
  BY Made DEF MkdirsMade
<1>3. ASSUME t # u, Thread = {t, u}, Returned(u, "mkdirs"), Target(u) = Target(t),
             Plain(req[t].path), Plain(req[u].path), FreeWay(Target(t)), tree[Target(t)].kind # "dir"
      PROVE  FALSE
  <2>1. Contest(t) /\ Contest(u)
    BY <1>1, <1>3 DEF Contest, Returned
  <2>2. ~Lost(t) \/ ~Lost(u)
    BY <1>3, <2>1 DEF Race, Winner
  <2>3. ret[t].code = 0 \/ ret[u].code = 0
    BY <1>1, <1>3, <2>2 DEF Lost, Returned
  <2>4. tree[Target(t)].kind # "none"
    BY <1>1, <1>2, <1>3, <2>3
  <2> DEFINE n == Target(t)
  <2>5. n \in Place /\ n \in Seq(STRING) /\ tree \in Tree
    BY TargetIs, PlaceIs DEF Inv, Shapes
  <2>6. n # <<>>
    BY <1>3, <2>5 DEF Tree
  <2>7. ~IsFile(tree[n])
    <3>1. ~IsFile(tree[SubSeq(n, 1, Len(n))]) \/ Len(n) \notin 1 .. Len(n)
      BY <1>3 DEF FreeWay
    <3> HIDE DEF n
    <3>2. SubSeq(n, 1, Len(n)) = n /\ Len(n) \in 1 .. Len(n)
      BY <2>5, <2>6
    <3> QED  BY <3>1, <3>2
  <2> QED  BY <1>3, <2>4, <2>7 DEF IsFile
<1> QED  BY <1>1, <1>2, <1>3

\* MkdirsTells: although MkdirsByPath (file_.h:278) returns -1 when another thread makes
\* one of its directories first, two threads that make one path cannot both fail and leave
\* it unmade, wherever each of them finds the other one's directories.
THEOREM MkdirsAreTold == Spec => []MkdirsTells
BY Invariant, RaceAlways, BothTold, PTL

\* PathsSplit: GetNameWithoutSuffix and GetSuffix (file_.h:188, 212) cut every name, and the
\* path of every call that is made, at the same character.
THEOREM PathsAlwaysSplit == Spec => []PathsSplit
<1>1. Inv => PathsSplit
  <2> SUFFICES ASSUME Inv, NEW t \in Thread PROVE Splits(req[t].path)
    BY NamesAlwaysSplit DEF PathsSplit
  <2>1. req[t].path \in Path
    BY RequestAssumption DEF Inv, Shapes
  <2> QED  BY <2>1, NameSplits DEF Path
<1> QED  BY <1>1, Invariant, PTL
=============================================================================
