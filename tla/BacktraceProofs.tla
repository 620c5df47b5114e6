--------------------------- MODULE BacktraceProofs ---------------------------
(***************************************************************************)
(* Proofs about Backtrace for any threads, any number of calls and signals,*)
(* and dumps of any length.                                                *)
(***************************************************************************)
EXTENDS Backtrace, SequenceTheorems, TLAPS

Lock == {"heap", "localtime"}
CallAt == {"alloc", "heap", "localtime", "date", "put date", "put time", "rest"}
DumpAt == {"head", "symbols", "frames", "tail", "maps", "default", "raise"}
Stamps == [date : 0 .. MaxClock, time : 0 .. Day - 1]
Calls == [op : {"log", "fmt"}, now : 0 .. MaxClock, at : CallAt, stamp : Stamps]
Dumping == [op : {"dump"}, held : SUBSET Lock, left : Nat, at : DumpAt]
Frames == Calls \cup Dumping

(***************************************************************************)
(* Frames.                                                                 *)
(***************************************************************************)
LEMMA StampRange ==
  ASSUME NEW n \in 0 .. MaxClock
  PROVE  Stamp(n) \in Stamps
<1>1. n \in Nat /\ MaxClock \in Nat /\ Day \in Nat \ {0} /\ n <= MaxClock
  BY LoggerAssumption
<1>2. n % Day \in 0 .. Day - 1
  BY <1>1
<1>3. n \div Day \in 0 .. MaxClock
  BY <1>1
<1> QED  BY <1>2, <1>3 DEF Stamp, Stamps

LEMMA FrameIsCall ==
  ASSUME NEW op \in {"log", "fmt"}
  PROVE  /\ Frame(op) \in Calls /\ Frame(op).op = op /\ Frame(op).at = "alloc"
<1>1. 0 \in 0 .. MaxClock
  BY LoggerAssumption
<1> QED  BY <1>1, StampRange DEF Frame, Calls, CallAt

LEMMA Kinds ==
  /\ \A f \in Frames : Dumps(f) <=> f \in Dumping
  /\ \A f \in Frames : ~Dumps(f) <=> f \in Calls
  /\ \A f \in Calls : f.op \in {"log", "fmt"} /\ f.at \in CallAt
  /\ \A f \in Dumping : f.op = "dump" /\ f.at \in DumpAt /\ f.left \in Nat /\ f.held \in SUBSET Lock
BY DEF Frames, Calls, Dumping, Dumps

LEMMA Places ==
  /\ \A x \in DumpAt : x \notin CallAt
  /\ \A l \in Lock : Section[l] \in CallAt
  /\ Section["heap"] = "heap" /\ Section["localtime"] = "date" /\ Lock = {"heap", "localtime"}
BY DEF DumpAt, CallAt, Lock, Section

(***************************************************************************)
(* Changes of a stack.                                                     *)
(***************************************************************************)
LEMMA NewTop ==
  ASSUME NEW s \in Seq(Frames), s # <<>>, NEW f \in Frames
  PROVE  LET new == [s EXCEPT ![1] = f] IN
         /\ new \in Seq(Frames) /\ DOMAIN new = DOMAIN s /\ 1 \in DOMAIN s
         /\ new # <<>> /\ new[1] = f /\ \A i \in DOMAIN s : i # 1 => new[i] = s[i]
<1>1. 1 \in DOMAIN s
  BY EmptySeq
<1>2. [s EXCEPT ![1] = f] \in Seq(Frames)
  BY <1>1, ExceptSeq
<1>3. DOMAIN [s EXCEPT ![1] = f] = DOMAIN s
  OBVIOUS
<1> QED  BY <1>1, <1>2, <1>3

LEMMA Pushed ==
  ASSUME NEW s \in Seq(Frames), NEW f \in Frames
  PROVE  LET new == <<f>> \o s IN
         /\ new \in Seq(Frames) /\ new # <<>> /\ new[1] = f
         /\ \A i \in DOMAIN new : i = 1 \/ (i - 1 \in DOMAIN s /\ new[i] = s[i - 1])
         /\ \A i \in DOMAIN s : i + 1 \in DOMAIN new /\ new[i + 1] = s[i] /\ i + 1 # 1
         /\ 1 \in DOMAIN new
OBVIOUS

LEMMA Popped ==
  ASSUME NEW s \in Seq(Frames), s # <<>>
  PROVE  LET new == Tail(s) IN
         /\ new \in Seq(Frames)
         /\ \A i \in DOMAIN new : i + 1 \in DOMAIN s /\ new[i] = s[i + 1] /\ i + 1 # 1
         /\ \A i \in DOMAIN s : i = 1 \/ (i - 1 \in DOMAIN new /\ new[i - 1] = s[i])
         /\ 1 \in DOMAIN s
<1>1. Len(s) \in Nat /\ Len(s) > 0 /\ DOMAIN s = 1 .. Len(s)
  BY EmptySeq
<1> QED  BY <1>1

(***************************************************************************)
(* One thread: its handler runs at most once at a time, below at most one  *)
(* call of LOG, which it does not make when it raises, and the thread      *)
(* holds exactly the locks whose sections are on its stack, each once.     *)
(***************************************************************************)
Nested(s) ==
  \A i \in DOMAIN s : Dumps(s[i]) => i = 1 \/ (i = 2 /\ s[1].op = "log" /\ s[i].at # "raise")
Inside(s, l) == \E i \in DOMAIN s : s[i].at = Section[l]
Once(s, l) == \A i, j \in DOMAIN s : s[i].at = Section[l] /\ s[j].at = Section[l] => i = j
Free(f) == \A l \in Lock : f.at # Section[l]

Sound(t, s, lk) ==
  /\ s \in Seq(Frames) /\ Nested(s)
  /\ \A l \in Lock : (lk[l] = t <=> Inside(s, l)) /\ Once(s, l)

LEMMA DumpsAreFree == \A f \in Dumping : Free(f)
BY Kinds, Places DEF Free

LEMMA TopChanges ==
  ASSUME NEW t, NEW s, NEW lk, Sound(t, s, lk), s # <<>>,
         NEW f \in Frames, f.op = s[1].op, Free(s[1]), Free(f)
  PROVE  Sound(t, [s EXCEPT ![1] = f], lk)
<1> DEFINE new == [s EXCEPT ![1] = f]
<1>1. new \in Seq(Frames) /\ DOMAIN new = DOMAIN s /\ new[1] = f
      /\ \A i \in DOMAIN s : i # 1 => new[i] = s[i]
  BY NewTop DEF Sound
<1> HIDE DEF new
<1>2. Nested(new)
  BY <1>1, NewTop DEF Sound, Nested, Dumps
<1>3. \A i \in DOMAIN s : \A l \in Lock : new[i].at = Section[l] <=> s[i].at = Section[l]
  BY <1>1 DEF Free
<1> QED  BY <1>1, <1>2, <1>3 DEF Sound, Inside, Once, new

LEMMA TopEnters ==
  ASSUME NEW t \in Thread, NEW s, NEW lk \in [Lock -> Thread \cup {"free"}], Sound(t, s, lk), s # <<>>,
         NEW l \in Lock, lk[l] = "free",
         NEW f \in Frames, f.op = s[1].op, Free(s[1]), f.at = Section[l]
  PROVE  Sound(t, [s EXCEPT ![1] = f], [lk EXCEPT ![l] = t])
<1> DEFINE new == [s EXCEPT ![1] = f]
<1>1. new \in Seq(Frames) /\ DOMAIN new = DOMAIN s /\ new[1] = f /\ 1 \in DOMAIN s
      /\ \A i \in DOMAIN s : i # 1 => new[i] = s[i]
  BY NewTop DEF Sound
<1> HIDE DEF new
<1>2. Nested(new)
  BY <1>1 DEF Sound, Nested, Dumps
<1>3. lk[l] # t /\ ~Inside(s, l)
  BY LoggerAssumption DEF Sound
<1>4. Inside(new, l) /\ Once(new, l)
  BY <1>1, <1>3 DEF Inside, Once
<1>5. \A k \in Lock \ {l} : (Inside(new, k) <=> Inside(s, k)) /\ Once(new, k)
  <2>1. SUFFICES ASSUME NEW k \in Lock \ {l}
                 PROVE  (Inside(new, k) <=> Inside(s, k)) /\ Once(new, k)
    OBVIOUS
  <2>2. \A i \in DOMAIN s : new[i].at = Section[k] <=> s[i].at = Section[k]
    BY <1>1, Places DEF Free
  <2> QED  BY <1>1, <2>2 DEF Inside, Once, Sound
<1> QED  BY <1>1, <1>2, <1>4, <1>5 DEF Sound, new

LEMMA TopHolds ==
  ASSUME NEW t, NEW s, NEW lk, Sound(t, s, lk), s # <<>>, NEW l \in Lock, s[1].at = Section[l]
  PROVE  lk[l] = t
<1>1. 1 \in DOMAIN s
  BY EmptySeq DEF Sound
<1> QED  BY <1>1 DEF Sound, Inside

LEMMA TopLeaves ==
  ASSUME NEW t \in Thread, NEW s, NEW lk \in [Lock -> Thread \cup {"free"}], Sound(t, s, lk), s # <<>>,
         NEW l \in Lock, s[1].at = Section[l],
         NEW f \in Frames, f.op = s[1].op, Free(f)
  PROVE  Sound(t, [s EXCEPT ![1] = f], [lk EXCEPT ![l] = "free"])
<1> DEFINE new == [s EXCEPT ![1] = f]
<1>1. new \in Seq(Frames) /\ DOMAIN new = DOMAIN s /\ new[1] = f /\ 1 \in DOMAIN s
      /\ \A i \in DOMAIN s : i # 1 => new[i] = s[i]
  BY NewTop DEF Sound
<1> HIDE DEF new
<1>2. Nested(new)
  BY <1>1 DEF Sound, Nested, Dumps
<1>3. lk[l] = t
  BY <1>1 DEF Sound, Inside
<1>4. ~Inside(new, l) /\ Once(new, l)
  BY <1>1 DEF Inside, Once, Sound, Free
<1>5. \A k \in Lock \ {l} : (Inside(new, k) <=> Inside(s, k)) /\ Once(new, k)
  <2>1. SUFFICES ASSUME NEW k \in Lock \ {l}
                 PROVE  (Inside(new, k) <=> Inside(s, k)) /\ Once(new, k)
    OBVIOUS
  <2>2. \A i \in DOMAIN s : new[i].at = Section[k] <=> s[i].at = Section[k]
    BY <1>1, Places DEF Free
  <2> QED  BY <1>1, <2>2 DEF Inside, Once, Sound
<1>6. t # "free"
  BY LoggerAssumption
<1> QED  BY <1>1, <1>2, <1>3, <1>4, <1>5, <1>6 DEF Sound, new

LEMMA DumpPushed ==
  ASSUME NEW t, NEW s, NEW lk, Sound(t, s, lk), NEW f \in Dumping, \A i \in DOMAIN s : ~Dumps(s[i])
  PROVE  Sound(t, <<f>> \o s, lk)
<1> DEFINE new == <<f>> \o s
<1>1. /\ new \in Seq(Frames) /\ new # <<>> /\ new[1] = f
      /\ \A i \in DOMAIN new : i = 1 \/ (i - 1 \in DOMAIN s /\ new[i] = s[i - 1])
      /\ \A i \in DOMAIN s : i + 1 \in DOMAIN new /\ new[i + 1] = s[i] /\ i + 1 # 1
      /\ 1 \in DOMAIN new
  BY Pushed DEF Sound, Frames
<1>d. DOMAIN new \subseteq Int
  BY <1>1
<1> HIDE DEF new
<1>2. Nested(new)
  BY <1>1 DEF Nested
<1>3. Free(f)
  BY DumpsAreFree
<1>4. \A l \in Lock : (Inside(new, l) <=> Inside(s, l)) /\ Once(new, l)
  <2>1. SUFFICES ASSUME NEW l \in Lock
                 PROVE  (Inside(new, l) <=> Inside(s, l)) /\ Once(new, l)
    OBVIOUS
  <2>2. \A i \in DOMAIN new : new[i].at = Section[l] => i - 1 \in DOMAIN s /\ s[i - 1].at = Section[l]
    BY <1>1, <1>3 DEF Free
  <2>3. Inside(new, l) <=> Inside(s, l)
    BY <1>1, <2>2 DEF Inside
  <2>4. Once(s, l)
    BY DEF Sound
  <2>5. Once(new, l)
    <3>1. SUFFICES ASSUME NEW i \in DOMAIN new, NEW j \in DOMAIN new,
                          new[i].at = Section[l], new[j].at = Section[l]
                   PROVE  i = j
      BY DEF Once
    <3>2. i - 1 = j - 1
      BY <2>2, <2>4, <3>1 DEF Once
    <3> QED  BY <1>d, <3>2
  <2> QED  BY <2>3, <2>5
<1> QED  BY <1>1, <1>2, <1>4 DEF Sound, new

LEMMA TopReturns ==
  ASSUME NEW t, NEW s, NEW lk, Sound(t, s, lk), s # <<>>, Free(s[1])
  PROVE  Sound(t, Tail(s), lk)
<1> DEFINE new == Tail(s)
<1>1. /\ new \in Seq(Frames) /\ s \in Seq(Frames)
      /\ \A i \in DOMAIN new : i + 1 \in DOMAIN s /\ new[i] = s[i + 1] /\ i + 1 # 1
      /\ \A i \in DOMAIN s : i = 1 \/ (i - 1 \in DOMAIN new /\ new[i - 1] = s[i])
  BY Popped DEF Sound
<1>d. DOMAIN new \subseteq Int
  BY <1>1
<1> HIDE DEF new
<1>2. Nested(new)
  <2>1. SUFFICES ASSUME NEW i \in DOMAIN new, Dumps(new[i]) PROVE i = 1
    BY DEF Nested
  <2>2. i + 1 = 2
    BY <1>1, <2>1 DEF Sound, Nested
  <2> QED  BY <1>d, <2>2
<1>4. \A l \in Lock : (Inside(new, l) <=> Inside(s, l)) /\ Once(new, l)
  <2>1. SUFFICES ASSUME NEW l \in Lock
                 PROVE  (Inside(new, l) <=> Inside(s, l)) /\ Once(new, l)
    OBVIOUS
  <2>3. Inside(new, l) <=> Inside(s, l)
    BY <1>1 DEF Inside, Free
  <2>4. Once(s, l)
    BY DEF Sound
  <2>5. Once(new, l)
    <3>1. SUFFICES ASSUME NEW i \in DOMAIN new, NEW j \in DOMAIN new,
                          new[i].at = Section[l], new[j].at = Section[l]
                   PROVE  i = j
      BY DEF Once
    <3>2. i + 1 = j + 1
      BY <1>1, <2>4, <3>1 DEF Once
    <3> QED  BY <1>d, <3>2
  <2> QED  BY <2>3, <2>5
<1> QED  BY <1>1, <1>2, <1>4 DEF Sound, new

\* The handler calls LOG.
LEMMA LogPushed ==
  ASSUME NEW t, NEW s, NEW lk, Sound(t, s, lk), s # <<>>, s[1] \in Dumping, NEW d \in Dumping,
         d.at # "raise"
  PROVE  Sound(t, <<Frame("log"), d>> \o Tail(s), lk)
<1> DEFINE g == Frame("log")
           rest == Tail(s)
           new == <<g, d>> \o rest
<1>1. g \in Frames /\ d \in Frames /\ g.op = "log" /\ Free(g) /\ Free(d) /\ Free(s[1]) /\ g \in Calls
  BY FrameIsCall, DumpsAreFree, Places DEF Frames, Free, Section
<1>2. Sound(t, rest, lk)
  BY <1>1, TopReturns
<1>3. \A i \in DOMAIN rest : ~Dumps(rest[i])
  <2>1. SUFFICES ASSUME NEW i \in DOMAIN rest, Dumps(rest[i]) PROVE FALSE
    OBVIOUS
  <2>2. i + 1 \in DOMAIN s /\ rest[i] = s[i + 1] /\ i + 1 # 1
    BY Popped DEF Sound
  <2>3. s[1].op = "log"
    BY <2>1, <2>2 DEF Sound, Nested
  <2> QED  BY <2>3, Kinds
<1> DEFINE low == <<d>> \o rest
<1>4. Sound(t, low, lk)
  BY <1>2, <1>3, DumpPushed
<1>5. new = <<g>> \o low
  <2>1. rest \in Seq(Frames)
    BY <1>2 DEF Sound
  <2> HIDE DEF rest, g
  <2> QED  BY <1>1, <2>1
<1>6. low \in Seq(Frames) /\ low[1] = d /\ \A i \in DOMAIN low : i = 1 \/ ~Dumps(low[i])
  <2>1. rest \in Seq(Frames)
    BY <1>2 DEF Sound
  <2> QED  BY <1>1, <1>3, <2>1, Pushed
<1> HIDE DEF g, rest, new, low
<1>7. /\ new \in Seq(Frames) /\ new # <<>> /\ new[1] = g
      /\ \A i \in DOMAIN new : i = 1 \/ (i - 1 \in DOMAIN low /\ new[i] = low[i - 1])
      /\ \A i \in DOMAIN low : i + 1 \in DOMAIN new /\ new[i + 1] = low[i] /\ i + 1 # 1
  BY <1>1, <1>5, <1>6, Pushed
<1>d. DOMAIN new \subseteq Int
  BY <1>7
<1>8. Nested(new)
  <2>1. SUFFICES ASSUME NEW i \in DOMAIN new, Dumps(new[i]), i # 1
                 PROVE  i = 2 /\ new[i].at # "raise"
    BY <1>1, <1>7 DEF Nested
  <2>2. i - 1 = 1 /\ new[i] = d
    BY <1>6, <1>7, <2>1
  <2> QED  BY <1>d, <2>2
<1>9. \A l \in Lock : (Inside(new, l) <=> Inside(low, l)) /\ Once(new, l)
  <2>1. SUFFICES ASSUME NEW l \in Lock
                 PROVE  (Inside(new, l) <=> Inside(low, l)) /\ Once(new, l)
    OBVIOUS
  <2>2. \A i \in DOMAIN new : new[i].at = Section[l] => i - 1 \in DOMAIN low /\ low[i - 1].at = Section[l]
    BY <1>1, <1>7 DEF Free
  <2>3. Inside(new, l) <=> Inside(low, l)
    BY <1>7, <2>2 DEF Inside
  <2>4. Once(low, l)
    BY <1>4 DEF Sound
  <2>5. Once(new, l)
    <3>1. SUFFICES ASSUME NEW i \in DOMAIN new, NEW j \in DOMAIN new,
                          new[i].at = Section[l], new[j].at = Section[l]
                   PROVE  i = j
      BY DEF Once
    <3>2. i - 1 = j - 1
      BY <2>2, <2>4, <3>1 DEF Once
    <3> QED  BY <1>d, <3>2
  <2> QED  BY <2>3, <2>5
<1> QED  BY <1>4, <1>7, <1>8, <1>9 DEF Sound, new, g, rest, low

(***************************************************************************)
(* The invariant.  A signal is reset by a thread that goes on to raise it, *)
(* and by no other; the lines of a dump past its head are flushed when the *)
(* handler runs, for LOG ends with std::endl.                              *)
(***************************************************************************)
Locks == [Lock -> Thread \cup {"free"}]

Typed ==
  /\ clock \in 0 .. MaxClock /\ tm \in Stamps /\ lock \in Locks
  /\ stack \in [Thread -> Seq(Frames)]
  /\ calls \in 0 .. MaxCalls /\ cout \subseteq Thread
  /\ disposition \in {"SignalHandler", "SIG_DFL"}
  /\ process \in {"up", "killed", "unhandled", "failed"}

All == \A t \in Thread : Sound(t, stack[t], lock)

Clean ==
  \A t \in Thread :
    stack[t] # <<>> /\ Dumps(stack[t][1]) /\ stack[t][1].at # "head" => t \notin cout

Reset ==
  /\ process \in {"up", "killed"} =>
       (disposition = "SIG_DFL" <=> \E t \in Thread : Handler(t, "raise"))
  /\ process = "killed" => disposition = "SIG_DFL"

Inv == Typed /\ All /\ Clean /\ Reset

\* What the handler may not show next: that it raises, or that its thread has a line unflushed.
Quiet(t, s, out) ==
  s # <<>> /\ Dumps(s[1]) => s[1].at # "raise" /\ (s[1].at # "head" => t \notin out)

LEMMA OthersKeep ==
  ASSUME NEW t \in Thread, NEW u \in Thread, u # t, NEW s, NEW lk, Sound(u, s, lk),
         NEW new, \A l \in Lock : new[l] = lk[l] \/ {new[l], lk[l]} \subseteq {t, "free"}
  PROVE  Sound(u, s, new)
BY LoggerAssumption DEF Sound

LEMMA OneMoves ==
  ASSUME Inv, process = "up", NEW t \in Thread, NEW s, stack' = [stack EXCEPT ![t] = s],
         lock' \in Locks, Sound(t, s, lock'),
         \A l \in Lock : lock'[l] = lock[l] \/ {lock'[l], lock[l]} \subseteq {t, "free"},
         clock' \in 0 .. MaxClock, tm' \in Stamps, calls' \in 0 .. MaxCalls,
         cout' \subseteq cout \cup {t}, UNCHANGED <<disposition, process>>,
         ~Handler(t, "raise"), Quiet(t, s, cout')
  PROVE  Inv'
<1>1. stack' \in [Thread -> Seq(Frames)] /\ stack'[t] = s /\ \A u \in Thread \ {t} : stack'[u] = stack[u]
  BY DEF Inv, Typed, Sound
<1>2. Typed'
  BY <1>1 DEF Inv, Typed
<1>3. All'
  <2>1. SUFFICES ASSUME NEW u \in Thread, u # t PROVE Sound(u, stack'[u], lock')
    BY <1>1 DEF All
  <2> QED  BY <1>1, <2>1, OthersKeep DEF Inv, All
<1>4. Clean'
  <2>1. SUFFICES ASSUME NEW u \in Thread,
                        stack'[u] # <<>> /\ Dumps(stack'[u][1]) /\ stack'[u][1].at # "head"
                 PROVE  u \notin cout'
    BY DEF Clean, Dumps
  <2>2. CASE u = t
    BY <1>1, <2>1, <2>2 DEF Quiet
  <2>3. CASE u # t
    BY <1>1, <2>1, <2>3 DEF Inv, Clean
  <2> QED  BY <2>2, <2>3
<1>5. Reset'
  <2>1. \A u \in Thread : Handler(u, "raise")' <=> Handler(u, "raise")
    BY <1>1 DEF Handler, At, Quiet, Dumps
  <2>2. disposition = "SIG_DFL" <=> \E u \in Thread : Handler(u, "raise")
    BY DEF Inv, Reset
  <2> QED  BY <2>1, <2>2 DEF Reset
<1> QED  BY <1>2, <1>3, <1>4, <1>5 DEF Inv

LEMMA Top ==
  ASSUME Inv, NEW t \in Thread, stack[t] # <<>>
  PROVE  /\ Sound(t, stack[t], lock) /\ stack[t][1] \in Frames /\ 1 \in DOMAIN stack[t]
         /\ stack[t][1].at \in CallAt => stack[t][1] \in Calls
<1>1. Sound(t, stack[t], lock)
  BY DEF Inv, All
<1>2. 1 \in DOMAIN stack[t]
  BY <1>1, EmptySeq DEF Sound
<1>3. stack[t][1] \in Frames
  BY <1>1, <1>2 DEF Sound
<1> QED  BY <1>1, <1>2, <1>3, Kinds, Places

(***************************************************************************)
(* Steps of LOG and GetFmtTime.                                            *)
(***************************************************************************)
LEMMA CallMoves ==
  ASSUME NEW f \in Calls, NEW l \in CallAt
  PROVE  LET g == [f EXCEPT !.at = l] IN
         g \in Calls /\ g \in Frames /\ g.op = f.op /\ g.at = l /\ ~Dumps(g) /\ ~Dumps(f)
BY DEF Calls, Frames, Dumps

LEMMA StampMoves ==
  ASSUME NEW f \in Calls, NEW l \in CallAt, NEW st \in Stamps
  PROVE  LET g == [f EXCEPT !.at = l, !.stamp = st] IN g \in Calls /\ g.op = f.op /\ g.at = l
BY DEF Calls

LEMMA FieldMoves ==
  ASSUME NEW r \in Stamps, NEW s \in Stamps, NEW field \in {"date", "time"}
  PROVE  [r EXCEPT ![field] = s[field]] \in Stamps
BY DEF Stamps

LEMMA TopStep ==
  ASSUME Inv, process = "up", NEW t \in Thread, stack[t] # <<>>, stack[t][1] \in Calls,
         NEW g \in Calls, g.op = stack[t][1].op,
         stack' = [stack EXCEPT ![t] = [stack[t] EXCEPT ![1] = g]],
         UNCHANGED <<clock, calls>>, tm' \in Stamps,
         cout' \subseteq cout \cup {t}, UNCHANGED <<disposition, process>>,
         \/ UNCHANGED lock /\ Free(stack[t][1]) /\ Free(g)
         \/ \E l \in Lock : /\ lock[l] = "free" /\ lock' = [lock EXCEPT ![l] = t]
                            /\ Free(stack[t][1]) /\ g.at = Section[l]
         \/ \E l \in Lock : /\ lock' = [lock EXCEPT ![l] = "free"]
                            /\ stack[t][1].at = Section[l] /\ Free(g)
  PROVE  Inv'
<1> DEFINE s == [stack[t] EXCEPT ![1] = g]
<1>1. Sound(t, stack[t], lock) /\ g \in Frames /\ lock \in Locks
  BY Top DEF Frames, Inv, Typed
<1>2. s # <<>> /\ s[1] = g /\ ~Dumps(g) /\ ~Dumps(stack[t][1])
  BY <1>1, NewTop, Kinds DEF Sound, Frames
<1>3. /\ Sound(t, s, lock') /\ lock' \in Locks
      /\ \A l \in Lock : lock'[l] = lock[l] \/ {lock'[l], lock[l]} \subseteq {t, "free"}
  <2>1. CASE UNCHANGED lock /\ Free(stack[t][1]) /\ Free(g)
    BY <1>1, <2>1, TopChanges
  <2>2. ASSUME NEW l \in Lock, lock[l] = "free", lock' = [lock EXCEPT ![l] = t],
               Free(stack[t][1]), g.at = Section[l]
        PROVE  /\ Sound(t, s, lock') /\ lock' \in Locks
               /\ \A k \in Lock : lock'[k] = lock[k] \/ {lock'[k], lock[k]} \subseteq {t, "free"}
    BY <1>1, <2>2, TopEnters DEF Locks
  <2>3. ASSUME NEW l \in Lock, lock' = [lock EXCEPT ![l] = "free"],
               stack[t][1].at = Section[l], Free(g)
        PROVE  /\ Sound(t, s, lock') /\ lock' \in Locks
               /\ \A k \in Lock : lock'[k] = lock[k] \/ {lock'[k], lock[k]} \subseteq {t, "free"}
    <3>1. Sound(t, s, [lock EXCEPT ![l] = "free"])
      BY <1>1, <2>3, TopLeaves DEF Locks
    <3>2. lock[l] = t
      BY <1>1, <2>3, TopHolds
    <3> QED  BY <1>1, <2>3, <3>1, <3>2 DEF Locks
  <2> QED  BY <2>1, <2>2, <2>3
<1> HIDE DEF s
<1> QED  BY <1>2, <1>3, OneMoves DEF Quiet, Handler, Inv, Typed, s

\* A step of a call, by the label it starts from.
LEMMA CallTop ==
  ASSUME Inv, NEW t \in Thread, NEW l \in CallAt, At(t, l)
  PROVE  stack[t] # <<>> /\ stack[t][1] \in Calls /\ stack[t][1].at = l
BY Top DEF At

LEMMA GotoIs ==
  ASSUME Inv, NEW t \in Thread, stack[t] # <<>>, NEW l
  PROVE  [stack EXCEPT ![t][1].at = l]
           = [stack EXCEPT ![t] = [stack[t] EXCEPT ![1] = [stack[t][1] EXCEPT !.at = l]]]
OBVIOUS

LEMMA MallocStep ==
  ASSUME Inv, process = "up", NEW t \in Thread, Malloc(t), UNCHANGED <<disposition, process>>
  PROVE  Inv'
<1> DEFINE f == stack[t][1]
           g == [f EXCEPT !.at = "heap"]
<1>1. stack[t] # <<>> /\ f \in Calls /\ f.at = "alloc"
  BY CallTop DEF Malloc, CallAt
<1>2. g \in Calls /\ g.op = f.op /\ g.at = "heap"
  BY <1>1, CallMoves DEF CallAt
<1>3. stack' = [stack EXCEPT ![t] = [stack[t] EXCEPT ![1] = g]]
  BY <1>1, GotoIs DEF Malloc, Goto
<1>4. /\ lock["heap"] = "free" /\ lock' = [lock EXCEPT !["heap"] = t]
      /\ UNCHANGED <<clock, tm, cout, calls>>
  BY DEF Malloc, Acquire, Goto
<1>5. Free(f) /\ g.at = Section["heap"] /\ "heap" \in Lock
  BY <1>1, <1>2, Places DEF Free, Section
<1> HIDE DEF f, g
<1>6. tm' \in Stamps /\ cout' \subseteq cout \cup {t}
  BY <1>4 DEF Inv, Typed
<1> QED  BY <1>1, <1>2, <1>3, <1>4, <1>5, <1>6, TopStep DEF f

LEMMA NowStep ==
  ASSUME Inv, process = "up", NEW t \in Thread, Now(t), UNCHANGED <<disposition, process>>
  PROVE  Inv'
<1> DEFINE f == stack[t][1]
           g == [f EXCEPT !.at = "localtime", !.now = clock]
<1>1. stack[t] # <<>> /\ f \in Calls /\ f.at = "heap"
  BY CallTop DEF Now, CallAt
<1>2. g \in Calls /\ g.op = f.op /\ g.at = "localtime"
  BY <1>1 DEF Inv, Typed, Calls, CallAt
<1>3. stack' = [stack EXCEPT ![t] = [stack[t] EXCEPT ![1] = g]]
  BY DEF Now
<1>4. /\ lock' = [lock EXCEPT !["heap"] = "free"]
      /\ UNCHANGED <<clock, tm, cout, calls>>
  BY DEF Now, Release, Released
<1>5. Free(g) /\ f.at = Section["heap"] /\ "heap" \in Lock
  BY <1>1, <1>2, Places DEF Free, Section
<1> HIDE DEF f, g
<1>6. tm' \in Stamps /\ cout' \subseteq cout \cup {t}
  BY <1>4 DEF Inv, Typed
<1> QED  BY <1>1, <1>2, <1>3, <1>4, <1>5, <1>6, TopStep DEF f

LEMMA LocaltimeStep ==
  ASSUME Inv, process = "up", NEW t \in Thread, Localtime(t), UNCHANGED <<disposition, process>>
  PROVE  Inv'
<1> DEFINE f == stack[t][1]
           g == [f EXCEPT !.at = "date"]
<1>1. stack[t] # <<>> /\ f \in Calls /\ f.at = "localtime"
  BY CallTop DEF Localtime, CallAt
<1>2. g \in Calls /\ g.op = f.op /\ g.at = "date"
  BY <1>1, CallMoves DEF CallAt
<1>3. stack' = [stack EXCEPT ![t] = [stack[t] EXCEPT ![1] = g]]
  BY <1>1, GotoIs DEF Localtime, Goto
<1>4. /\ lock["localtime"] = "free" /\ lock' = [lock EXCEPT !["localtime"] = t]
      /\ tm' = [tm EXCEPT !.time = Stamp(f.now).time] /\ UNCHANGED <<clock, cout, calls>>
  BY DEF Localtime, Acquire, Goto
<1>5. Free(f) /\ g.at = Section["localtime"] /\ "localtime" \in Lock
  BY <1>1, <1>2, Places DEF Free, Section
<1>6. tm' \in Stamps /\ cout' \subseteq cout \cup {t}
  <2>1. f.now \in 0 .. MaxClock /\ tm \in Stamps
    BY <1>1 DEF Calls, Inv, Typed
  <2>2. Stamp(f.now) \in Stamps
    BY <2>1, StampRange
  <2> QED  BY <1>4, <2>1, <2>2 DEF Stamps
<1> HIDE DEF f, g
<1> QED  BY <1>1, <1>2, <1>3, <1>4, <1>5, <1>6, TopStep DEF f

LEMMA LocaltimeReturnsStep ==
  ASSUME Inv, process = "up", NEW t \in Thread, LocaltimeReturns(t), UNCHANGED <<disposition, process>>
  PROVE  Inv'
<1> DEFINE f == stack[t][1]
           g == [f EXCEPT !.at = "put date"]
<1>1. stack[t] # <<>> /\ f \in Calls /\ f.at = "date"
  BY CallTop DEF LocaltimeReturns, CallAt
<1>2. g \in Calls /\ g.op = f.op /\ g.at = "put date"
  BY <1>1, CallMoves DEF CallAt
<1>3. stack' = [stack EXCEPT ![t] = [stack[t] EXCEPT ![1] = g]]
  BY <1>1, GotoIs DEF LocaltimeReturns, Goto
<1>4. /\ lock' = [lock EXCEPT !["localtime"] = "free"]
      /\ tm' = [tm EXCEPT !.date = Stamp(f.now).date] /\ UNCHANGED <<clock, cout, calls>>
  BY DEF LocaltimeReturns, Release, Released, Goto
<1>5. Free(g) /\ f.at = Section["localtime"] /\ "localtime" \in Lock
  BY <1>1, <1>2, Places DEF Free, Section
<1>6. tm' \in Stamps /\ cout' \subseteq cout \cup {t}
  <2>1. f.now \in 0 .. MaxClock /\ tm \in Stamps
    BY <1>1 DEF Calls, Inv, Typed
  <2>2. Stamp(f.now) \in Stamps
    BY <2>1, StampRange
  <2> QED  BY <1>4, <2>1, <2>2 DEF Stamps
<1> HIDE DEF f, g
<1> QED  BY <1>1, <1>2, <1>3, <1>4, <1>5, <1>6, TopStep DEF f

LEMMA PutIs ==
  ASSUME Inv, NEW t \in Thread, NEW field \in {"date", "time"}, NEW to \in CallAt,
         stack[t] # <<>>, stack[t][1] \in Calls, Put(t, field, to)
  PROVE  \E g \in Calls : /\ g.op = stack[t][1].op /\ g.at = to
                         /\ stack' = [stack EXCEPT ![t] = [stack[t] EXCEPT ![1] = g]]
<1> DEFINE f == stack[t][1]
           st == [f.stamp EXCEPT ![field] = tm[field]]
           g == [f EXCEPT !.at = to, !.stamp = st]
<1>1. f.stamp \in Stamps /\ tm \in Stamps
  BY DEF Calls, Inv, Typed
<1>2. st \in Stamps
  BY <1>1, FieldMoves
<1>0. /\ t \in DOMAIN stack /\ 1 \in DOMAIN stack[t] /\ DOMAIN f = {"op", "now", "at", "stamp"}
  BY Top DEF Inv, Typed, Calls
<1>3. stack' = [stack EXCEPT ![t] = [stack[t] EXCEPT ![1] = g]]
  <2>1. stack' = [stack EXCEPT ![t][1] = [@ EXCEPT !.at = to, !.stamp[field] = tm[field]]]
    BY <1>0 DEF Put
  <2>2. [f EXCEPT !.at = to, !.stamp[field] = tm[field]] = g
    OBVIOUS
  <2> QED  BY <2>1, <2>2
<1> HIDE DEF st
<1>4. g \in Calls /\ g.op = f.op /\ g.at = to
  BY <1>2, StampMoves
<1> HIDE DEF g
<1> QED  BY <1>3, <1>4

LEMMA PutStep ==
  ASSUME Inv, process = "up", NEW t \in Thread, PutDate(t) \/ PutTime(t) \/ PutLine(t),
         UNCHANGED <<disposition, process>>
  PROVE  Inv'
<1> DEFINE f == stack[t][1]
<1>1. stack[t] # <<>> /\ f \in Calls /\ f.at \in {"put date", "put time"}
  BY CallTop DEF PutDate, PutTime, PutLine, CallAt
<1>2. PICK g : /\ g \in Calls /\ g.op = f.op /\ g.at \in {"put time", "rest"}
               /\ stack' = [stack EXCEPT ![t] = [stack[t] EXCEPT ![1] = g]]
  <2>1. CASE PutDate(t)
    <3>1. Put(t, "date", "put time") /\ "put time" \in CallAt
      BY <2>1 DEF PutDate, CallAt
    <3>2. PICK g \in Calls : /\ g.op = f.op /\ g.at = "put time"
                             /\ stack' = [stack EXCEPT ![t] = [stack[t] EXCEPT ![1] = g]]
      BY <1>1, <3>1, PutIs
    <3> QED  BY <3>2
  <2>2. CASE PutTime(t)
    <3>1. Put(t, "time", "rest") /\ "rest" \in CallAt
      BY <2>2 DEF PutTime, CallAt
    <3>2. PICK g \in Calls : /\ g.op = f.op /\ g.at = "rest"
                             /\ stack' = [stack EXCEPT ![t] = [stack[t] EXCEPT ![1] = g]]
      BY <1>1, <3>1, PutIs
    <3> QED  BY <3>2
  <2>3. CASE PutLine(t)
    <3> DEFINE g == [f EXCEPT !.at = "rest"]
    <3>1. g \in Calls /\ g.op = f.op /\ g.at = "rest"
      BY <1>1, CallMoves DEF CallAt
    <3>2. stack' = [stack EXCEPT ![t] = [stack[t] EXCEPT ![1] = g]]
      BY <2>3, <1>1, GotoIs DEF PutLine, Goto
    <3> QED  BY <3>1, <3>2
  <2> QED  BY <2>1, <2>2, <2>3
<1>3. UNCHANGED <<clock, tm, calls, lock>> /\ cout' \subseteq cout \cup {t}
  BY DEF PutDate, PutTime, PutLine, Put, Goto
<1>4. Free(f) /\ Free(g)
  BY <1>1, <1>2, Places DEF Free, Section
<1> HIDE DEF f
<1>5. tm' \in Stamps
  BY <1>3 DEF Inv, Typed
<1> QED  BY <1>1, <1>2, <1>3, <1>4, <1>5, TopStep DEF f

LEMMA ReturnStep ==
  ASSUME Inv, process = "up", NEW t \in Thread, LogReturns(t) \/ FmtReturns(t),
         UNCHANGED <<disposition, process>>
  PROVE  Inv'
<1> DEFINE f == stack[t][1]
           s == Tail(stack[t])
<1>1. stack[t] # <<>> /\ f \in Calls /\ f.at = "rest" /\ Sound(t, stack[t], lock)
  BY CallTop, Top DEF LogReturns, FmtReturns, CallAt
<1>2. Free(f)
  BY <1>1, Places DEF Free, Section
<1>3. Sound(t, s, lock)
  BY <1>1, <1>2, TopReturns
<1>4. /\ stack' = [stack EXCEPT ![t] = s] /\ UNCHANGED <<clock, tm, lock, calls>>
      /\ cout' \subseteq cout
      /\ f.op = "log" => t \notin cout'
  BY DEF LogReturns, FmtReturns, Return, Flushed
<1>5. Quiet(t, s, cout')
  <2>1. SUFFICES ASSUME s # <<>>, Dumps(s[1]) PROVE s[1].at # "raise" /\ t \notin cout'
    BY DEF Quiet
  <2>2. 2 \in DOMAIN stack[t] /\ s[1] = stack[t][2]
    <3>1. s \in Seq(Frames) /\ stack[t] \in Seq(Frames)
      BY <1>1, <1>3 DEF Sound
    <3>2. 1 \in DOMAIN s
      BY <2>1, <3>1, EmptySeq
    <3> QED  BY <1>1, <3>1, <3>2, Popped
  <2>3. f.op = "log" /\ s[1].at # "raise"
    <3>1. Dumps(stack[t][2]) /\ Nested(stack[t])
      BY <1>1, <2>1, <2>2 DEF Sound
    <3> HIDE DEF s
    <3> QED  BY <2>2, <3>1 DEF Nested
  <2> QED  BY <1>4, <2>3
<1>6. ~Handler(t, "raise")
  BY <1>1 DEF Handler, At
<1> HIDE DEF f, s
<1>7. /\ lock' \in Locks /\ clock' \in 0 .. MaxClock /\ tm' \in Stamps /\ calls' \in 0 .. MaxCalls
      /\ \A l \in Lock : lock'[l] = lock[l]
  BY <1>4 DEF Inv, Typed
<1> QED  BY <1>3, <1>4, <1>5, <1>6, <1>7, OneMoves

LEMMA LoggerSteps ==
  ASSUME Inv, process = "up", NEW t \in Thread, LoggerStep(t), UNCHANGED <<disposition, process>>
  PROVE  Inv'
BY MallocStep, NowStep, LocaltimeStep, LocaltimeReturnsStep, PutStep, ReturnStep DEF LoggerStep

LEMMA CallStep ==
  ASSUME Inv, process = "up", NEW t \in Thread, Call(t), UNCHANGED <<disposition, process>>
  PROVE  Inv'
<1>1. PICK op \in {"log", "fmt"} : stack' = [stack EXCEPT ![t] = <<Frame(op)>>]
  BY DEF Call
<1>2. /\ stack[t] = <<>> /\ calls < MaxCalls /\ calls' = calls + 1
      /\ UNCHANGED <<clock, tm, lock, cout>>
  BY DEF Call
<1> DEFINE g == Frame(op)
           s == <<g>>
<1>3. g \in Calls /\ g \in Frames /\ g.at = "alloc" /\ ~Dumps(g)
  BY FrameIsCall, Kinds DEF Frames
<1>4. Free(g)
  BY <1>3, Places DEF Free, Section
<1> HIDE DEF g
<1>5. s \in Seq(Frames) /\ DOMAIN s = {1} /\ s[1] = g /\ s # <<>>
  BY <1>3
<1>6. \A l \in Lock : lock[l] # t
  BY <1>2 DEF Inv, All, Sound, Inside
<1>7. Sound(t, s, lock')
  BY <1>2, <1>3, <1>4, <1>5, <1>6 DEF Sound, Nested, Inside, Once, Free
<1>8. Quiet(t, s, cout') /\ ~Handler(t, "raise")
  BY <1>2, <1>3, <1>5 DEF Quiet, Handler, At
<1> HIDE DEF s
<1>9. /\ lock' \in Locks /\ clock' \in 0 .. MaxClock /\ tm' \in Stamps /\ calls' \in 0 .. MaxCalls
      /\ \A l \in Lock : lock'[l] = lock[l]
  BY <1>2, LoggerAssumption DEF Inv, Typed
<1> QED  BY <1>1, <1>2, <1>7, <1>8, <1>9, OneMoves DEF s, g

LEMMA TickStep ==
  ASSUME Inv, Tick, UNCHANGED <<disposition, process>>
  PROVE  Inv'
<1>1. /\ clock < MaxClock /\ clock' = clock + 1
      /\ UNCHANGED <<tm, lock, stack, calls, cout, disposition, process>>
  BY DEF Tick, local
<1>2. clock' \in 0 .. MaxClock
  BY <1>1, LoggerAssumption DEF Inv, Typed
<1>3. Typed'
  BY <1>1, <1>2 DEF Inv, Typed
<1>4. All' /\ Clean' /\ Reset'
  BY <1>1 DEF Inv, All, Sound, Clean, Reset, Handler, At, Dumps
<1> QED  BY <1>3, <1>4 DEF Inv

(***************************************************************************)
(* Steps of the signal and its handler.                                    *)
(***************************************************************************)
LEMMA HandlerTop ==
  ASSUME Inv, NEW t \in Thread, NEW l, Handler(t, l)
  PROVE  /\ stack[t] # <<>> /\ stack[t][1] \in Dumping /\ stack[t][1].at = l
         /\ Sound(t, stack[t], lock)
BY Top, Kinds DEF Handler, At

LEMMA CatchStep ==
  ASSUME Inv, process = "up", NEW t \in Thread, Catch(t)
  PROVE  Inv'
<1> DEFINE f == Begin(t)
           s == <<f>> \o stack[t]
<1>1. /\ stack' = [stack EXCEPT ![t] = s] /\ UNCHANGED <<clock, tm, lock, calls, cout>>
      /\ UNCHANGED <<disposition, process>> /\ ~InHandler(t)
  BY DEF Catch, Caught
<1>2. f \in Dumping /\ f.at = "head" /\ f \in Frames
  <2>1. Holds(t) \in SUBSET Lock
    BY DEF Inv, Typed, Locks, Holds
  <2> QED  BY <2>1, BacktraceAssumption DEF Begin, Dumping, DumpAt, Frames
<1> HIDE DEF f
<1>3. \A i \in DOMAIN stack[t] : ~Dumps(stack[t][i])
  BY <1>1 DEF InHandler
<1>4. Sound(t, stack[t], lock)
  BY DEF Inv, All
<1>5. Sound(t, s, lock)
  BY <1>2, <1>3, <1>4, DumpPushed
<1>6. s[1] = f
  BY <1>2, <1>4, Pushed DEF Sound
<1>7. Quiet(t, s, cout') /\ ~Handler(t, "raise")
  <2>1. ASSUME Handler(t, "raise") PROVE FALSE
    <3>1. 1 \in DOMAIN stack[t] /\ Dumps(stack[t][1])
      BY <2>1, Top DEF Handler, At
    <3> QED  BY <1>3, <3>1
  <2> QED  BY <1>2, <1>6, <2>1 DEF Quiet
<1> HIDE DEF s
<1>8. /\ lock' \in Locks /\ clock' \in 0 .. MaxClock /\ tm' \in Stamps /\ calls' \in 0 .. MaxCalls
      /\ cout' \subseteq cout \cup {t}
      /\ \A l \in Lock : lock'[l] = lock[l]
  BY <1>1 DEF Inv, Typed
<1> QED  BY <1>1, <1>5, <1>7, <1>8, OneMoves

LEMMA LogLineStep ==
  ASSUME Inv, process = "up", NEW t \in Thread, LogLine(t)
  PROVE  Inv'
<1> DEFINE f == stack[t][1]
           d == IF f.left > 1 THEN [f EXCEPT !.left = @ - 1]
                ELSE [f EXCEPT !.at = After[f.at],
                               !.left = IF f.at = "frames" THEN TailLines ELSE 0]
           s == <<Frame("log"), d>> \o Tail(stack[t])
<1>1. PICK l \in {"head", "frames", "tail"} : Handler(t, l)
  BY DEF LogLine, After
<1>2. stack[t] # <<>> /\ f \in Dumping /\ f.at = l /\ Sound(t, stack[t], lock)
  BY <1>1, HandlerTop
<1>3. /\ stack' = [stack EXCEPT ![t] = s] /\ UNCHANGED <<clock, tm, lock, calls, cout>>
      /\ UNCHANGED <<disposition, process>>
  BY DEF LogLine
<1>4. d \in Dumping /\ d.at # "raise"
  <2>1. TailLines \in Nat
    BY BacktraceAssumption
  <2>2. CASE f.left > 1
    <3>1. f.left - 1 \in Nat
      BY <1>2, <2>2 DEF Dumping
    <3> QED  BY <1>2, <2>2, <3>1 DEF Dumping
  <2>3. CASE ~(f.left > 1)
    <3>1. After[f.at] \in DumpAt /\ After[f.at] # "raise"
      BY <1>2 DEF After, DumpAt
    <3> QED  BY <1>2, <2>1, <2>3, <3>1 DEF Dumping
  <2> QED  BY <2>2, <2>3
<1> HIDE DEF d
<1>5. Sound(t, s, lock)
  BY <1>2, <1>4, LogPushed
<1>6. s[1] = Frame("log") /\ ~Dumps(s[1])
  <2>1. Frame("log") \in Calls /\ Tail(stack[t]) \in Seq(Frames)
    BY <1>2, FrameIsCall, Popped DEF Sound
  <2> QED  BY <2>1, Kinds DEF Frames
<1>7. Quiet(t, s, cout') /\ ~Handler(t, "raise")
  BY <1>2, <1>6 DEF Quiet, Handler, At
<1> HIDE DEF s
<1>8. /\ lock' \in Locks /\ clock' \in 0 .. MaxClock /\ tm' \in Stamps /\ calls' \in 0 .. MaxCalls
      /\ cout' \subseteq cout \cup {t}
      /\ \A k \in Lock : lock'[k] = lock[k]
  BY <1>3 DEF Inv, Typed
<1> QED  BY <1>3, <1>5, <1>7, <1>8, OneMoves

\* The handler goes on to its next call.
LEMMA ContinueIs ==
  ASSUME Inv, NEW t \in Thread, NEW l, Handler(t, l), NEW to \in DumpAt, NEW n \in Nat,
         Continue(t, to, n)
  PROVE  \E g \in Dumping :
           /\ g.at = to /\ g.op = stack[t][1].op
           /\ stack' = [stack EXCEPT ![t] = [stack[t] EXCEPT ![1] = g]]
           /\ Sound(t, [stack[t] EXCEPT ![1] = g], lock) /\ [stack[t] EXCEPT ![1] = g][1] = g
<1> DEFINE f == stack[t][1]
           g == [f EXCEPT !.at = to, !.left = n]
<1>1. stack[t] # <<>> /\ f \in Dumping /\ f.at = l /\ Sound(t, stack[t], lock)
  BY HandlerTop
<1>2. g \in Dumping /\ g \in Frames /\ g.at = to /\ g.op = f.op
  BY <1>1 DEF Dumping, Frames
<1>3. stack' = [stack EXCEPT ![t] = [stack[t] EXCEPT ![1] = g]]
  BY DEF Continue
<1> HIDE DEF g
<1>4. Free(f) /\ Free(g)
  BY <1>1, <1>2, DumpsAreFree
<1>5. Sound(t, [stack[t] EXCEPT ![1] = g], lock)
  BY <1>1, <1>2, <1>4, TopChanges
<1>6. [stack[t] EXCEPT ![1] = g][1] = g
  BY <1>1, <1>2, NewTop DEF Sound
<1> QED  BY <1>2, <1>3, <1>5, <1>6

LEMMA ContinueStep ==
  ASSUME Inv, process = "up", NEW t \in Thread, Symbols(t) \/ Maps(t)
  PROVE  Inv'
<1>1. PICK l \in {"symbols", "maps"}, to \in {"frames", "default"}, n \in Nat :
        Handler(t, l) /\ Continue(t, to, n)
  BY BacktraceAssumption DEF Symbols, Maps
<1>2. /\ UNCHANGED <<clock, tm, lock, calls, cout>> /\ UNCHANGED <<disposition, process>>
  BY DEF Symbols, Maps, Continue
<1>3. to \in DumpAt
  BY DEF DumpAt
<1>4. PICK g \in Dumping :
           /\ g.at = to /\ g.op = stack[t][1].op
           /\ stack' = [stack EXCEPT ![t] = [stack[t] EXCEPT ![1] = g]]
           /\ Sound(t, [stack[t] EXCEPT ![1] = g], lock) /\ [stack[t] EXCEPT ![1] = g][1] = g
  BY <1>1, <1>3, ContinueIs
<1>5. t \notin cout /\ ~Handler(t, "raise")
  BY <1>1 DEF Handler, At, Inv, Clean
<1> DEFINE s == [stack[t] EXCEPT ![1] = g]
<1>6. Quiet(t, s, cout')
  BY <1>2, <1>4, <1>5 DEF Quiet
<1> HIDE DEF s
<1>7. /\ lock' \in Locks /\ clock' \in 0 .. MaxClock /\ tm' \in Stamps /\ calls' \in 0 .. MaxCalls
      /\ cout' \subseteq cout \cup {t}
      /\ \A k \in Lock : lock'[k] = lock[k]
  BY <1>2 DEF Inv, Typed
<1> QED  BY <1>2, <1>4, <1>5, <1>6, <1>7, OneMoves DEF s

LEMMA ResetSignalStep ==
  ASSUME Inv, process = "up", NEW t \in Thread, ResetSignal(t)
  PROVE  Inv'
<1>1. /\ Handler(t, "default") /\ Continue(t, "raise", 0) /\ disposition' = "SIG_DFL"
      /\ UNCHANGED <<clock, tm, lock, calls, cout, process>>
  BY DEF ResetSignal, Default, Continue
<1>2. PICK g \in Dumping :
           /\ g.at = "raise" /\ g.op = stack[t][1].op
           /\ stack' = [stack EXCEPT ![t] = [stack[t] EXCEPT ![1] = g]]
           /\ Sound(t, [stack[t] EXCEPT ![1] = g], lock) /\ [stack[t] EXCEPT ![1] = g][1] = g
  BY <1>1, ContinueIs DEF DumpAt
<1> DEFINE s == [stack[t] EXCEPT ![1] = g]
<1>3. s # <<>> /\ t \notin cout /\ Dumps(g)
  BY <1>1, <1>2, HandlerTop, NewTop, Kinds DEF Handler, At, Inv, Clean, Sound, Frames
<1> HIDE DEF s
<1>4. stack' \in [Thread -> Seq(Frames)] /\ stack'[t] = s /\ \A u \in Thread \ {t} : stack'[u] = stack[u]
  BY <1>2 DEF Inv, Typed, Sound, s
<1>5. Typed'
  BY <1>1, <1>4 DEF Inv, Typed
<1>6. All'
  BY <1>1, <1>2, <1>4 DEF Inv, All, s
<1>7. Clean'
  BY <1>1, <1>3, <1>4 DEF Inv, Clean, Dumps
<1>8. Reset'
  <2>1. Handler(t, "raise")'
    BY <1>2, <1>3, <1>4 DEF Handler, At, Dumps, s
  <2> QED  BY <1>1, <2>1 DEF Reset
<1> QED  BY <1>5, <1>6, <1>7, <1>8 DEF Inv

\* Nobody raises before the disposition is reset: it always kills.
LEMMA RaiseStep ==
  ASSUME Inv, process = "up", NEW t \in Thread, Raise(t)
  PROVE  Inv'
<1>1. disposition = "SIG_DFL"
  BY DEF Raise, Inv, Reset
<1>2. process' = "killed" /\ UNCHANGED <<stack, calls, clock, tm, lock, cout, disposition>>
  BY <1>1 DEF Raise, local
<1>3. Typed' /\ All' /\ Clean'
  BY <1>2 DEF Inv, Typed, All, Clean, Sound, Dumps
<1>4. \E u \in Thread : Handler(u, "raise")'
  BY <1>2 DEF Raise, Handler, At, Dumps
<1>5. Reset'
  BY <1>1, <1>2, <1>4 DEF Reset
<1> QED  BY <1>3, <1>5 DEF Inv

LEMMA DefaultActionStep ==
  ASSUME Inv, process = "up", NEW t \in Thread, DefaultAction(t)
  PROVE  Inv'
<1>1. disposition = "SIG_DFL" /\ process' = "killed"
      /\ UNCHANGED <<stack, calls, clock, tm, lock, cout, disposition>>
  BY DEF DefaultAction, logger, local
<1>2. Typed' /\ All' /\ Clean'
  BY <1>1 DEF Inv, Typed, All, Clean, Sound, Dumps
<1>3. \E u \in Thread : Handler(u, "raise")
  BY <1>1 DEF Inv, Reset
<1>4. Reset'
  BY <1>1, <1>3 DEF Reset, Handler, At, Dumps
<1> QED  BY <1>2, <1>4 DEF Inv

LEMMA EndsStep ==
  ASSUME Inv, NEW how \in {"unhandled", "failed"}, Ends(how)
  PROVE  Inv'
<1>1. /\ process' = how /\ cout' = {} /\ UNCHANGED <<clock, tm, calls, disposition>>
      /\ stack' = [t \in Thread |-> <<>>] /\ lock' = [l \in Lock |-> "free"]
  BY DEF Ends, Inv, Typed, Locks
<1>2. Typed'
  BY <1>1 DEF Inv, Typed, Locks
<1>3. All'
  BY <1>1, LoggerAssumption DEF All, Sound, Nested, Inside, Once
<1>4. Clean' /\ Reset'
  BY <1>1 DEF Clean, Reset
<1> QED  BY <1>2, <1>3, <1>4 DEF Inv

LEMMA Initially == Init => Inv
<1>1. SUFFICES ASSUME Init PROVE Inv
  OBVIOUS
<1>2. /\ clock = 0 /\ tm = Stamp(0) /\ calls = 0 /\ cout = {}
      /\ stack = [t \in Thread |-> <<>>] /\ lock = [l \in Lock |-> "free"]
      /\ disposition = "SignalHandler" /\ process = "up"
  BY <1>1 DEF Init, LoggerInit, Lock
<1>3. 0 \in 0 .. MaxClock /\ 0 \in 0 .. MaxCalls
  BY LoggerAssumption
<1>4. Typed
  <2>1. tm \in Stamps
    BY <1>2, <1>3, StampRange
  <2> QED  BY <1>2, <1>3, <2>1 DEF Typed, Locks
<1>5. All
  <2>1. SUFFICES ASSUME NEW t \in Thread PROVE Sound(t, stack[t], lock)
    BY DEF All
  <2>2. stack[t] = <<>> /\ t # "free" /\ \A l \in Lock : lock[l] = "free"
    BY <1>2, LoggerAssumption
  <2> QED  BY <2>2 DEF Sound, Nested, Inside, Once
<1>6. Clean /\ Reset
  BY <1>2 DEF Clean, Reset, Handler, At
<1> QED  BY <1>4, <1>5, <1>6 DEF Inv

LEMMA Stays == Inv /\ [Next]_vars => Inv'
<1>1. SUFFICES ASSUME Inv, [Next]_vars PROVE Inv'
  OBVIOUS
<1>2. CASE UNCHANGED vars
  <2>1. UNCHANGED <<clock, tm, lock, stack, calls, cout, disposition, process>>
    BY <1>2 DEF vars, logger, local
  <2> QED  BY <1>1, <2>1 DEF Inv, Typed, All, Clean, Reset, Sound, Handler, At, Dumps
<1>3. ASSUME NEW t \in Thread, Run(t) PROVE Inv'
  <2>1. CASE LoggerStep(t) /\ UNCHANGED <<disposition, process>>
    BY <1>1, <1>3, <2>1, LoggerSteps DEF Run
  <2>2. CASE HandlerStep(t)
    BY <1>1, <1>3, <2>2, LogLineStep, ContinueStep, ResetSignalStep, RaiseStep, EndsStep
       DEF Run, HandlerStep, SymbolsFail
  <2> QED  BY <1>3, <2>1, <2>2 DEF Run
<1>4. CASE /\ process = "up"
           /\ (Tick \/ \E t \in Thread : Call(t)) /\ UNCHANGED <<disposition, process>>
  BY <1>1, <1>4, TickStep, CallStep
<1>5. CASE process = "up" /\ \E t \in Thread : Catch(t) \/ DefaultAction(t)
  BY <1>1, <1>5, CatchStep, DefaultActionStep
<1>6. CASE Unhandled
  BY <1>1, <1>6, EndsStep DEF Unhandled
<1> QED  BY <1>1, <1>2, <1>3, <1>4, <1>5, <1>6 DEF Next

LEMMA Invariant == Spec => []Inv
<1> QED  BY Initially, Stays, PTL DEF Spec

(***************************************************************************)
(* Whatever call a signal interrupts, a thread holds the locks of malloc   *)
(* and localtime exactly while a call on its stack is between taking and   *)
(* giving them back: the allocations and the call of localtime of          *)
(* logger_.h:159, under the handler of backtrace_.h:20.                    *)
(***************************************************************************)
THEOREM TypeCorrect == Spec => []TypeOK
<1>1. Inv => TypeOK
  <2>1. SUFFICES ASSUME Inv PROVE TypeOK
    OBVIOUS
  <2>2. DOMAIN lock = Lock
    BY <2>1 DEF Inv, Typed, Locks
  <2>3. CallFrame = Calls /\ DumpFrame = Dumping
    BY <2>2 DEF CallFrame, Calls, CallAt, Stamps, DumpFrame, Dumping, DumpAt
  <2>4. /\ clock \in 0 .. MaxClock
        /\ tm \in [date : 0 .. MaxClock, time : 0 .. Day - 1]
        /\ lock \in [{"heap", "localtime"} -> Thread \cup {"free"}]
        /\ stack \in [Thread -> Seq(CallFrame \cup DumpFrame)]
        /\ calls \in 0 .. MaxCalls /\ cout \subseteq Thread
        /\ disposition \in {"SignalHandler", "SIG_DFL"}
        /\ process \in {"up", "killed", "unhandled", "failed"}
    BY <2>1, <2>3 DEF Inv, Typed, Frames, Stamps, Locks, Lock
  <2>5. \A t \in Thread : \A l \in DOMAIN lock :
          lock[l] = t <=> \E i \in DOMAIN stack[t] : stack[t][i].at = Section[l]
    BY <2>1, <2>2 DEF Inv, All, Sound, Inside
  <2> QED  BY <2>4, <2>5 DEF TypeOK
<1> QED  BY <1>1, Invariant, PTL

(***************************************************************************)
(* When SIGSEGV kills the process, some thread has written and flushed a   *)
(* whole dump, and the maps of the process (backtrace_.h:67) never         *)
(* overtake a line of the dump they belong to.                             *)
(***************************************************************************)
THEOREM KilledWithDump == Spec => []DumpSurvives
<1>1. Inv => DumpSurvives
  <2>1. SUFFICES ASSUME Inv PROVE DumpSurvives
    OBVIOUS
  <2>2. \A t \in Thread : Handler(t, "raise") \/ Handler(t, "maps") => t \notin cout
    BY <2>1 DEF Inv, Clean, Handler, At
  <2>3. process = "killed" => \E t \in Thread : Handler(t, "raise")
    BY <2>1 DEF Inv, Reset
  <2> QED  BY <2>2, <2>3 DEF DumpSurvives
<1> QED  BY <1>1, Invariant, PTL

(***************************************************************************)
(* Waiting for a lock.  Only a signal separates two calls of a thread; its *)
(* handler knows which sections it interrupted, and has not written a line *)
(* of its dump if there is one.                                            *)
(***************************************************************************)
Before == [heap |-> {"alloc"}, localtime |-> {"alloc", "heap", "localtime"}]

Layered(s) ==
  /\ \A j \in DOMAIN s : j > 1 /\ ~Dumps(s[j]) => Dumps(s[j - 1])
  /\ \A i \in DOMAIN s : Dumps(s[i]) => \A l \in Lock :
       l \in s[i].held <=> \E j \in DOMAIN s : j > i /\ s[j].at = Section[l]
  /\ \A i \in DOMAIN s : Dumps(s[i]) => \A l \in s[i].held :
       IF i = 1 THEN s[1].at = "head" /\ s[1].left = HeadLines ELSE s[1].at \in Before[l]

Taken(s, l) == \E i \in DOMAIN s : Dumps(s[i]) /\ l \in s[i].held

Kept == \A t \in Thread : Layered(stack[t])
Lasts == \A t \in Thread : \A l \in Lock : Taken(stack[t], l) => Taken(stack'[t], l)

\* What a step makes of a stack.
Follows(s, new) == Layered(new) /\ \A l \in Lock : Taken(s, l) => Taken(new, l)

LEMMA CallChanges ==
  ASSUME NEW s \in Seq(Frames), s # <<>>, Layered(s), s[1] \in Calls,
         NEW f \in Calls, \A l \in Lock : Taken(s, l) => f.at \in Before[l]
  PROVE  Follows(s, [s EXCEPT ![1] = f])
<1> DEFINE new == [s EXCEPT ![1] = f]
<1>1. /\ DOMAIN new = DOMAIN s /\ new[1] = f /\ 1 \in DOMAIN s /\ DOMAIN s \subseteq Int
      /\ \A i \in DOMAIN s : i # 1 => new[i] = s[i]
  BY NewTop DEF Frames
<1>2. ~Dumps(s[1]) /\ ~Dumps(new[1])
  BY <1>1, Kinds DEF Frames
<1> HIDE DEF new
<1>3. \A i \in DOMAIN s : Dumps(new[i]) <=> Dumps(s[i])
  BY <1>1, <1>2
<1>4. \A j \in DOMAIN new : j > 1 /\ ~Dumps(new[j]) => Dumps(new[j - 1])
  <2>1. SUFFICES ASSUME NEW j \in DOMAIN s, j > 1, ~Dumps(s[j]) PROVE Dumps(new[j - 1])
    BY <1>1, <1>3
  <2>2. Dumps(s[j - 1])
    BY <2>1 DEF Layered
  <2>3. j - 1 \in DOMAIN s
    BY <1>1, <2>1
  <2> QED  BY <1>3, <2>2, <2>3
<1>5. \A i \in DOMAIN new : Dumps(new[i]) => \A l \in Lock :
        l \in new[i].held <=> \E j \in DOMAIN new : j > i /\ new[j].at = Section[l]
  <2>1. SUFFICES ASSUME NEW i \in DOMAIN s, Dumps(s[i]), NEW l \in Lock
                 PROVE  l \in new[i].held <=> \E j \in DOMAIN s : j > i /\ new[j].at = Section[l]
    BY <1>1, <1>3
  <2>2. i # 1 /\ i >= 1 /\ new[i] = s[i]
    BY <1>1, <1>2, <2>1
  <2>3. \A j \in DOMAIN s : j > i => new[j] = s[j]
    BY <1>1, <2>2
  <2> QED  BY <2>1, <2>2, <2>3 DEF Layered
<1>6. \A l \in Lock : Taken(s, l) <=> Taken(new, l)
  BY <1>1, <1>2, <1>3 DEF Taken
<1>7. \A i \in DOMAIN new : Dumps(new[i]) => \A l \in new[i].held :
        IF i = 1 THEN new[1].at = "head" /\ new[1].left = HeadLines ELSE new[1].at \in Before[l]
  <2>1. SUFFICES ASSUME NEW i \in DOMAIN s, Dumps(s[i]), NEW l \in s[i].held
                 PROVE  i # 1 /\ f.at \in Before[l]
    BY <1>1, <1>2, <1>3
  <2>2. l \in Lock
    BY <2>1, Kinds
  <2> QED  BY <1>2, <2>1, <2>2 DEF Taken
<1> QED  BY <1>4, <1>5, <1>6, <1>7 DEF Layered, Follows, new

LEMMA DumpChanges ==
  ASSUME NEW s \in Seq(Frames), s # <<>>, Layered(s), Nested(s), s[1] \in Dumping, s[1].at # "head",
         NEW f \in Dumping, f.held = s[1].held
  PROVE  Follows(s, [s EXCEPT ![1] = f])
<1> DEFINE new == [s EXCEPT ![1] = f]
<1>1. /\ DOMAIN new = DOMAIN s /\ new[1] = f /\ 1 \in DOMAIN s /\ DOMAIN s \subseteq Int
      /\ \A i \in DOMAIN s : i # 1 => new[i] = s[i]
  BY NewTop DEF Frames
<1>2. Dumps(s[1]) /\ Dumps(new[1]) /\ s[1].op # "log"
  BY <1>1, Kinds DEF Frames
<1> HIDE DEF new
<1>3. \A i \in DOMAIN s : (Dumps(new[i]) <=> Dumps(s[i])) /\ (Dumps(s[i]) <=> i = 1)
  BY <1>1, <1>2 DEF Nested
<1>4. \A j \in DOMAIN new : j > 1 /\ ~Dumps(new[j]) => Dumps(new[j - 1])
  <2>1. SUFFICES ASSUME NEW j \in DOMAIN s, j > 1, ~Dumps(s[j]) PROVE Dumps(new[j - 1])
    BY <1>1, <1>3
  <2>2. Dumps(s[j - 1])
    BY <2>1 DEF Layered
  <2>3. j - 1 \in DOMAIN s
    BY <1>1, <2>1
  <2> QED  BY <1>3, <2>2, <2>3
<1>5. \A l \in Lock : l \in f.held <=> \E j \in DOMAIN new : j > 1 /\ new[j].at = Section[l]
  BY <1>1, <1>2 DEF Layered
<1>6. \A l \in Lock : Taken(s, l) => Taken(new, l)
  BY <1>1, <1>2, <1>3 DEF Taken
<1>7. f.held = {}
  <2>1. \A l \in s[1].held : s[1].at = "head"
    BY <1>1, <1>2 DEF Layered
  <2> QED  BY <2>1
<1>8. \A i \in DOMAIN new : Dumps(new[i]) => i = 1 /\ new[i] = f
  BY <1>1, <1>3
<1>9. Layered(new)
  BY <1>4, <1>5, <1>7, <1>8 DEF Layered
<1> QED  BY <1>6, <1>9 DEF Follows, new

LEMMA CallReturns ==
  ASSUME NEW s \in Seq(Frames), s # <<>>, Layered(s), Nested(s), s[1] \in Calls, s[1].at = "rest"
  PROVE  Follows(s, Tail(s))
<1> DEFINE new == Tail(s)
<1>1. /\ new \in Seq(Frames)
      /\ \A i \in DOMAIN new : i + 1 \in DOMAIN s /\ new[i] = s[i + 1] /\ i + 1 # 1
      /\ \A i \in DOMAIN s : i = 1 \/ (i - 1 \in DOMAIN new /\ new[i - 1] = s[i])
      /\ 1 \in DOMAIN s
  BY Popped
<1>d. /\ DOMAIN new = 1 .. Len(new) /\ Len(new) \in Nat
      /\ DOMAIN new \subseteq Nat \ {0} /\ DOMAIN s \subseteq Nat \ {0}
  BY <1>1
<1> HIDE DEF new
<1>2. ~Dumps(s[1])
  BY Kinds DEF Frames
<1>3. \A i \in DOMAIN s : Dumps(s[i]) => s[i].held = {}
  <2>1. SUFFICES ASSUME NEW i \in DOMAIN s, Dumps(s[i]), NEW l \in s[i].held PROVE FALSE
    OBVIOUS
  <2>2. l \in Lock
    BY <2>1, Kinds
  <2>3. s[1].at \in Before[l]
    BY <1>2, <2>1 DEF Layered
  <2> QED  BY <2>2, <2>3 DEF Before, Lock
<1>4. \A j \in DOMAIN new : j > 1 /\ ~Dumps(new[j]) => Dumps(new[j - 1])
  <2>1. SUFFICES ASSUME NEW j \in DOMAIN new, j > 1, ~Dumps(new[j]) PROVE Dumps(new[j - 1])
    OBVIOUS
  <2>2. j \in Nat /\ j <= Len(new) /\ Len(new) \in Nat /\ j > 1
    BY <1>d, <2>1
  <2>3. j - 1 \in 1 .. Len(new)
    BY <2>2
  <2>4. j + 1 > 1 /\ (j + 1) - 1 = j /\ j - 1 \in DOMAIN new /\ (j - 1) + 1 = j
    BY <1>d, <2>2, <2>3
  <2>5. Dumps(s[j])
    BY <1>1, <2>1, <2>4 DEF Layered
  <2> QED  BY <1>1, <2>4, <2>5
<1>5. \A i \in DOMAIN new : Dumps(new[i]) => new[i].held = {}
  BY <1>1, <1>3
<1>6. \A i \in DOMAIN new : Dumps(new[i]) => \A l \in Lock :
        ~\E j \in DOMAIN new : j > i /\ new[j].at = Section[l]
  <2>1. SUFFICES ASSUME NEW i \in DOMAIN new, Dumps(new[i]), NEW l \in Lock,
                        NEW j \in DOMAIN new, j > i, new[j].at = Section[l]
                 PROVE  FALSE
    OBVIOUS
  <2>2. j + 1 > i + 1
    BY <1>d, <2>1
  <2>3. /\ i + 1 \in DOMAIN s /\ Dumps(s[i + 1]) /\ s[i + 1].held = {}
        /\ j + 1 \in DOMAIN s /\ s[j + 1].at = Section[l]
    BY <1>1, <1>3, <2>1
  <2> QED  BY <2>1, <2>2, <2>3 DEF Layered
<1>7. \A l \in Lock : ~Taken(s, l)
  BY <1>3 DEF Taken
<1> QED  BY <1>4, <1>5, <1>6, <1>7 DEF Layered, Follows, new

LEMMA HandlerLogs ==
  ASSUME NEW s \in Seq(Frames), s # <<>>, Layered(s), Nested(s), s[1] \in Dumping,
         NEW d \in Dumping, d.held = s[1].held
  PROVE  Follows(s, <<Frame("log"), d>> \o Tail(s))
<1> DEFINE g == Frame("log")
           new == <<g, d>> \o Tail(s)
<1>0. g \in Frames /\ g.at = "alloc" /\ ~Dumps(g) /\ Dumps(d) /\ Dumps(s[1]) /\ s[1].op # "log"
  BY FrameIsCall, Kinds DEF Frames
<1> HIDE DEF g
<1>1. Len(s) \in Nat /\ Len(s) > 0 /\ DOMAIN s = 1 .. Len(s)
  BY EmptySeq
<1>2. /\ DOMAIN new = 1 .. Len(s) + 1 /\ new[1] = g /\ new[2] = d
      /\ \A j \in 3 .. Len(s) + 1 : new[j] = s[j - 1]
  BY <1>0, <1>1
<1> HIDE DEF new
<1>3. \A i \in DOMAIN s : Dumps(s[i]) <=> i = 1
  BY <1>0, <1>1 DEF Nested
<1>4. Len(s) <= 2
  <2>1. SUFFICES ASSUME Len(s) > 2 PROVE FALSE
    BY <1>1
  <2>2. 3 \in DOMAIN s /\ 2 \in DOMAIN s /\ 3 > 1 /\ 3 - 1 = 2
    BY <1>1, <2>1
  <2> QED  BY <1>3, <2>2 DEF Layered
<1>5. DOMAIN new \subseteq {1, 2, 3} /\ 2 \in DOMAIN new
  BY <1>1, <1>2, <1>4
<1>6. \A i \in DOMAIN new : Dumps(new[i]) <=> i = 2
  <2>1. 3 \in DOMAIN new => 2 \in DOMAIN s /\ new[3] = s[2]
    BY <1>1, <1>2
  <2> QED  BY <1>0, <1>2, <1>3, <1>5, <2>1
<1>7. \A j \in DOMAIN new : j > 1 /\ ~Dumps(new[j]) => Dumps(new[j - 1])
  <2>1. \A j \in {1, 2, 3} : j > 1 /\ j # 2 => j - 1 = 2
    OBVIOUS
  <2> QED  BY <1>5, <1>6, <2>1
<1>8. \A l \in Lock : l \in d.held <=> \E j \in DOMAIN new : j > 2 /\ new[j].at = Section[l]
  <2>1. SUFFICES ASSUME NEW l \in Lock
                 PROVE  l \in d.held <=> \E j \in DOMAIN new : j > 2 /\ new[j].at = Section[l]
    OBVIOUS
  <2>2. l \in d.held <=> \E j \in DOMAIN s : j > 1 /\ s[j].at = Section[l]
    BY <1>0, <1>1 DEF Layered
  <2>3. ASSUME NEW j \in DOMAIN s, j > 1
        PROVE  j + 1 \in DOMAIN new /\ j + 1 > 2 /\ new[j + 1] = s[j]
    <3>1. j + 1 \in 3 .. Len(s) + 1 /\ (j + 1) - 1 = j
      BY <1>1, <2>3
    <3> QED  BY <1>1, <1>2, <3>1
  <2>4. ASSUME NEW j \in DOMAIN new, j > 2
        PROVE  j - 1 \in DOMAIN s /\ j - 1 > 1 /\ new[j] = s[j - 1]
    BY <1>1, <1>2, <2>4
  <2> QED  BY <2>2, <2>3, <2>4
<1>9. \A l \in Lock : l \in d.held => new[1].at \in Before[l]
  BY <1>0, <1>2 DEF Before, Lock
<1>10. \A l \in Lock : Taken(s, l) => Taken(new, l)
  BY <1>2, <1>3, <1>5, <1>6 DEF Taken
<1>11. \A i \in DOMAIN new : Dumps(new[i]) => i = 2 /\ new[i] = d
  BY <1>2, <1>6
<1>12. \A l \in d.held : l \in Lock
  BY Kinds
<1>13. Layered(new)
  BY <1>7, <1>8, <1>9, <1>11, <1>12 DEF Layered
<1> QED  BY <1>10, <1>13 DEF Follows, new, g

LEMMA Interrupts ==
  ASSUME NEW t, NEW s, NEW lk, Sound(t, s, lk), Layered(s), \A i \in DOMAIN s : ~Dumps(s[i]),
         NEW f \in Dumping, f.at = "head", f.left = HeadLines, \A l \in Lock : l \in f.held <=> lk[l] = t
  PROVE  Follows(s, <<f>> \o s)
<1> DEFINE new == <<f>> \o s
<1>1. /\ new \in Seq(Frames) /\ new[1] = f
      /\ \A i \in DOMAIN new : i = 1 \/ (i - 1 \in DOMAIN s /\ new[i] = s[i - 1])
      /\ \A i \in DOMAIN s : i + 1 \in DOMAIN new /\ new[i + 1] = s[i] /\ i + 1 # 1
      /\ 1 \in DOMAIN new
  BY Pushed DEF Sound, Frames
<1>d. DOMAIN new \subseteq Nat \ {0} /\ DOMAIN s \subseteq Nat \ {0} /\ DOMAIN s = 1 .. Len(s) /\ Len(s) \in Nat
  BY <1>1 DEF Sound
<1> HIDE DEF new
<1>2. \A i \in DOMAIN new : Dumps(new[i]) <=> i = 1
  BY <1>1, Kinds DEF Frames
<1>3. \A j \in DOMAIN s : j = 1
  <2>1. SUFFICES ASSUME NEW j \in DOMAIN s, j > 1 PROVE FALSE
    BY <1>d
  <2>2. j - 1 \in DOMAIN s
    BY <1>d, <2>1
  <2> QED  BY <2>1, <2>2 DEF Layered
<1>4. \A j \in DOMAIN new : j > 1 /\ ~Dumps(new[j]) => Dumps(new[j - 1])
  <2>1. \A j \in DOMAIN new : j > 1 => j - 1 = 1
    BY <1>1, <1>3, <1>d
  <2> QED  BY <1>1, <1>2, <2>1
<1>5. \A l \in Lock : l \in f.held <=> \E j \in DOMAIN new : j > 1 /\ new[j].at = Section[l]
  <2>1. SUFFICES ASSUME NEW l \in Lock
                 PROVE  l \in f.held <=> \E j \in DOMAIN new : j > 1 /\ new[j].at = Section[l]
    OBVIOUS
  <2>2. l \in f.held <=> \E j \in DOMAIN s : s[j].at = Section[l]
    BY DEF Sound, Inside
  <2>3. \A j \in DOMAIN s : j + 1 > 1
    BY <1>d
  <2>4. \A j \in DOMAIN new : j > 1 => j # 1
    BY <1>d
  <2> QED  BY <1>1, <2>2, <2>3, <2>4
<1>6. \A l \in Lock : ~Taken(s, l)
  BY DEF Taken
<1> QED  BY <1>1, <1>2, <1>4, <1>5, <1>6 DEF Layered, Follows, new

LEMMA StackFollows ==
  ASSUME Inv, Kept, NEW t \in Thread, NEW s, stack' = [stack EXCEPT ![t] = s], Follows(stack[t], s)
  PROVE  Kept' /\ Lasts
<1>1. stack'[t] = s /\ \A u \in Thread \ {t} : stack'[u] = stack[u]
  BY DEF Inv, Typed
<1>2. \A u \in Thread : Follows(stack[u], stack'[u])
  BY <1>1 DEF Kept, Follows
<1>3. \A u \in Thread : Layered(stack'[u])
  BY <1>2 DEF Follows
<1> QED  BY <1>2, <1>3 DEF Kept, Lasts, Follows, Layered, Dumps

LEMMA SameStacks ==
  ASSUME Kept, UNCHANGED stack
  PROVE  Kept' /\ Lasts
BY DEF Kept, Lasts, Layered, Taken, Dumps

\* What a call does with the locks that its handler may have interrupted.
LEMMA CallSteps ==
  ASSUME Inv, NEW t \in Thread,
         \/ Malloc(t) \/ Now(t) \/ Localtime(t) \/ LocaltimeReturns(t)
         \/ PutDate(t) \/ PutTime(t) \/ PutLine(t)
  PROVE  /\ stack[t] # <<>> /\ stack[t][1] \in Calls
         /\ \E g \in Calls :
              /\ stack' = [stack EXCEPT ![t] = [stack[t] EXCEPT ![1] = g]]
              /\ \/ stack[t][1].at = "alloc" /\ lock["heap"] = "free" /\ g.at = "heap"
                 \/ stack[t][1].at = "heap" /\ g.at = "localtime"
                 \/ stack[t][1].at = "localtime" /\ lock["localtime"] = "free"
                 \/ stack[t][1].at \notin {"alloc", "heap", "localtime"}
<1> DEFINE f == stack[t][1]
           Becomes(g) == stack' = [stack EXCEPT ![t] = [stack[t] EXCEPT ![1] = g]]
<1>1. /\ stack[t] # <<>> /\ f \in Calls
      /\ f.at \in {"alloc", "heap", "localtime", "date", "put date", "put time"}
  BY CallTop DEF Malloc, Now, Localtime, LocaltimeReturns, PutDate, PutTime, PutLine, CallAt
<1>2. CASE Malloc(t)
  <2> DEFINE g == [f EXCEPT !.at = "heap"]
  <2>1. g \in Calls /\ g.at = "heap"
    BY <1>1, CallMoves DEF CallAt
  <2>2. Becomes(g) /\ f.at = "alloc" /\ lock["heap"] = "free"
    BY <1>1, <1>2, GotoIs DEF Malloc, Goto, Acquire, At
  <2> QED  BY <1>1, <2>1, <2>2
<1>3. CASE Now(t)
  <2> DEFINE g == [f EXCEPT !.at = "localtime", !.now = clock]
  <2>1. g \in Calls /\ g.at = "localtime"
    BY <1>1 DEF Inv, Typed, Calls, CallAt
  <2>2. Becomes(g) /\ f.at = "heap"
    BY <1>3 DEF Now, At
  <2> QED  BY <1>1, <2>1, <2>2
<1>4. CASE Localtime(t)
  <2> DEFINE g == [f EXCEPT !.at = "date"]
  <2>1. g \in Calls
    BY <1>1, CallMoves DEF CallAt
  <2>2. Becomes(g) /\ f.at = "localtime" /\ lock["localtime"] = "free"
    BY <1>1, <1>4, GotoIs DEF Localtime, Goto, Acquire, At
  <2> QED  BY <1>1, <2>1, <2>2
<1>5. CASE LocaltimeReturns(t)
  <2> DEFINE g == [f EXCEPT !.at = "put date"]
  <2>1. g \in Calls
    BY <1>1, CallMoves DEF CallAt
  <2>2. Becomes(g) /\ f.at = "date"
    BY <1>1, <1>5, GotoIs DEF LocaltimeReturns, Goto, At
  <2> QED  BY <1>1, <2>1, <2>2
<1>6. CASE PutLine(t)
  <2> DEFINE g == [f EXCEPT !.at = "rest"]
  <2>1. g \in Calls
    BY <1>1, CallMoves DEF CallAt
  <2>2. Becomes(g) /\ f.at = "put date"
    BY <1>1, <1>6, GotoIs DEF PutLine, Goto, At
  <2> QED  BY <1>1, <2>1, <2>2
<1>7. CASE PutDate(t)
  <2>1. Put(t, "date", "put time") /\ f.at = "put date" /\ "put time" \in CallAt
    BY <1>7 DEF PutDate, At, CallAt
  <2>2. PICK g \in Calls : Becomes(g)
    BY <1>1, <2>1, PutIs
  <2> QED  BY <1>1, <2>1, <2>2
<1>8. CASE PutTime(t)
  <2>1. Put(t, "time", "rest") /\ f.at = "put time" /\ "rest" \in CallAt
    BY <1>8 DEF PutTime, At, CallAt
  <2>2. PICK g \in Calls : Becomes(g)
    BY <1>1, <2>1, PutIs
  <2> QED  BY <1>1, <2>1, <2>2
<1> QED  BY <1>2, <1>3, <1>4, <1>5, <1>6, <1>7, <1>8

\* A lock that the handler interrupted is the thread's own: nobody gets past it.
LEMMA TakenIsHeld ==
  ASSUME Inv, Kept, NEW t \in Thread, NEW l \in Lock, Taken(stack[t], l)
  PROVE  lock[l] = t
<1>1. Sound(t, stack[t], lock) /\ Layered(stack[t])
  BY DEF Inv, All, Kept
<1>2. PICK i \in DOMAIN stack[t] : Dumps(stack[t][i]) /\ l \in stack[t][i].held
  BY DEF Taken
<1>3. Inside(stack[t], l)
  BY <1>1, <1>2 DEF Layered, Inside
<1> QED  BY <1>1, <1>3 DEF Sound

LEMMA TakenWaits ==
  ASSUME Inv, Kept, NEW t \in Thread, stack[t][1] \in Calls, NEW l \in Lock, Taken(stack[t], l)
  PROVE  stack[t][1].at \in Before[l]
<1>1. PICK i \in DOMAIN stack[t] : Dumps(stack[t][i]) /\ l \in stack[t][i].held
  BY DEF Taken
<1>2. i # 1
  BY <1>1, Kinds DEF Frames
<1> QED  BY <1>1, <1>2 DEF Kept, Layered

LEMMA CallsKeep ==
  ASSUME Inv, Kept, NEW t \in Thread, LoggerStep(t)
  PROVE  Kept' /\ Lasts
<1>1. CASE LogReturns(t) \/ FmtReturns(t)
  <2>1. stack[t] # <<>> /\ stack[t][1] \in Calls /\ stack[t][1].at = "rest"
    BY <1>1, CallTop DEF LogReturns, FmtReturns, CallAt
  <2>2. stack' = [stack EXCEPT ![t] = Tail(stack[t])]
    BY <1>1 DEF LogReturns, FmtReturns, Return
  <2>3. stack[t] \in Seq(Frames) /\ Nested(stack[t]) /\ Layered(stack[t])
    BY DEF Inv, All, Sound, Kept
  <2>4. Follows(stack[t], Tail(stack[t]))
    BY <2>1, <2>3, CallReturns
  <2> QED  BY <2>2, <2>4, StackFollows
<1>2. CASE ~(LogReturns(t) \/ FmtReturns(t))
  <2> DEFINE f == stack[t][1]
  <2>1. /\ stack[t] # <<>> /\ f \in Calls
        /\ \E g \in Calls :
              /\ stack' = [stack EXCEPT ![t] = [stack[t] EXCEPT ![1] = g]]
              /\ \/ f.at = "alloc" /\ lock["heap"] = "free" /\ g.at = "heap"
                 \/ f.at = "heap" /\ g.at = "localtime"
                 \/ f.at = "localtime" /\ lock["localtime"] = "free"
                 \/ f.at \notin {"alloc", "heap", "localtime"}
    BY <1>2, CallSteps DEF LoggerStep
  <2>2. PICK g \in Calls :
              /\ stack' = [stack EXCEPT ![t] = [stack[t] EXCEPT ![1] = g]]
              /\ \/ f.at = "alloc" /\ lock["heap"] = "free" /\ g.at = "heap"
                 \/ f.at = "heap" /\ g.at = "localtime"
                 \/ f.at = "localtime" /\ lock["localtime"] = "free"
                 \/ f.at \notin {"alloc", "heap", "localtime"}
    BY <2>1
  <2>3. ASSUME NEW l \in Lock, Taken(stack[t], l) PROVE g.at \in Before[l]
    <3>1. f.at \in Before[l] /\ lock[l] = t /\ t # "free"
      BY <2>1, <2>3, TakenWaits, TakenIsHeld, LoggerAssumption
    <3> QED  BY <2>2, <3>1 DEF Before, Lock
  <2>4. stack[t] \in Seq(Frames) /\ Layered(stack[t])
    BY DEF Inv, All, Sound, Kept
  <2>5. Follows(stack[t], [stack[t] EXCEPT ![1] = g])
    BY <2>1, <2>3, <2>4, CallChanges
  <2> QED  BY <2>2, <2>5, StackFollows
<1> QED  BY <1>1, <1>2

LEMMA HandlerKeeps ==
  ASSUME Inv, Kept, process = "up", NEW t \in Thread, HandlerStep(t), process' # "failed"
  PROVE  Kept' /\ Lasts
<1> DEFINE s == stack[t]
<1>1. s \in Seq(Frames) /\ Nested(s) /\ Layered(s)
  BY DEF Inv, All, Sound, Kept
<1>2. CASE LogLine(t)
  <2> DEFINE f == s[1]
             d == IF f.left > 1 THEN [f EXCEPT !.left = @ - 1]
                  ELSE [f EXCEPT !.at = After[f.at],
                                 !.left = IF f.at = "frames" THEN TailLines ELSE 0]
  <2>1. PICK l \in {"head", "frames", "tail"} : Handler(t, l)
    BY <1>2 DEF LogLine, After
  <2>2. s # <<>> /\ f \in Dumping /\ f.at = l
    BY <2>1, HandlerTop
  <2>3. stack' = [stack EXCEPT ![t] = <<Frame("log"), d>> \o Tail(s)]
    BY <1>2 DEF LogLine
  <2>4. d \in Dumping /\ d.held = f.held
    <3>1. CASE f.left > 1
      <4>1. f.left - 1 \in Nat
        BY <2>2, <3>1 DEF Dumping
      <4> QED  BY <2>2, <3>1, <4>1 DEF Dumping
    <3>2. CASE ~(f.left > 1)
      <4>1. After[f.at] \in DumpAt /\ TailLines \in Nat
        BY <2>2, BacktraceAssumption DEF After, DumpAt
      <4> QED  BY <2>2, <3>2, <4>1 DEF Dumping
    <3> QED  BY <3>1, <3>2
  <2> HIDE DEF d
  <2>5. Follows(s, <<Frame("log"), d>> \o Tail(s))
    BY <1>1, <2>2, <2>4, HandlerLogs
  <2> QED  BY <2>3, <2>5, StackFollows
<1>3. ASSUME NEW l \in DumpAt \ {"head"}, Handler(t, l), NEW to \in DumpAt, NEW n \in Nat, Continue(t, to, n)
      PROVE  Kept' /\ Lasts
  <2> DEFINE g == [s[1] EXCEPT !.at = to, !.left = n]
  <2>1. s # <<>> /\ s[1] \in Dumping /\ s[1].at # "head"
    BY <1>3, HandlerTop
  <2>2. g \in Dumping /\ g.held = s[1].held
    BY <2>1 DEF Dumping
  <2>3. stack' = [stack EXCEPT ![t] = [s EXCEPT ![1] = g]]
    BY <1>3 DEF Continue
  <2> HIDE DEF g
  <2>4. Follows(s, [s EXCEPT ![1] = g])
    BY <1>1, <2>1, <2>2, DumpChanges
  <2> QED  BY <2>3, <2>4, StackFollows
<1>4. CASE Symbols(t)
  <2>1. PICK n \in 1 .. MaxFrames : Handler(t, "symbols") /\ Continue(t, "frames", n)
    BY <1>4 DEF Symbols
  <2>2. n \in Nat
    BY BacktraceAssumption
  <2> QED  BY <1>3, <2>1, <2>2 DEF DumpAt
<1>5. CASE Maps(t)
  BY <1>3, <1>5 DEF Maps, DumpAt
<1>6. CASE ResetSignal(t)
  BY <1>3, <1>6 DEF ResetSignal, DumpAt
<1>7. CASE Raise(t)
  <2>1. disposition = "SIG_DFL"
    BY <1>7 DEF Raise, Inv, Reset
  <2> QED  BY <1>7, <2>1, SameStacks DEF Raise, local
<1>8. ~SymbolsFail(t)
  BY DEF SymbolsFail, Ends
<1> QED  BY <1>2, <1>4, <1>5, <1>6, <1>7, <1>8 DEF HandlerStep

LEMMA CallKeeps ==
  ASSUME Inv, Kept, NEW t \in Thread, Call(t)
  PROVE  Kept' /\ Lasts
<1>1. PICK op \in {"log", "fmt"} : stack' = [stack EXCEPT ![t] = <<Frame(op)>>]
  BY DEF Call
<1> DEFINE g == Frame(op)
           s == <<g>>
<1>2. stack[t] = <<>> /\ ~Dumps(g)
  BY FrameIsCall, Kinds DEF Call, Frames
<1> HIDE DEF g
<1>3. DOMAIN s = {1} /\ s[1] = g
  OBVIOUS
<1>4. \A l \in Lock : ~Taken(stack[t], l)
  BY <1>2 DEF Taken
<1> HIDE DEF s
<1>5. Follows(stack[t], s)
  BY <1>2, <1>3, <1>4 DEF Follows, Layered
<1> QED  BY <1>1, <1>5, StackFollows DEF s, g

LEMMA CatchKeeps ==
  ASSUME Inv, Kept, NEW t \in Thread, Catch(t)
  PROVE  Kept' /\ Lasts
<1> DEFINE f == Begin(t)
<1>1. stack' = [stack EXCEPT ![t] = <<f>> \o stack[t]] /\ \A i \in DOMAIN stack[t] : ~Dumps(stack[t][i])
  BY DEF Catch, InHandler
<1>2. /\ f \in Dumping /\ f.at = "head" /\ f.left = HeadLines
      /\ \A l \in Lock : l \in f.held <=> lock[l] = t
  <2>1. DOMAIN lock = Lock
    BY DEF Inv, Typed, Locks
  <2> QED  BY <2>1, BacktraceAssumption DEF Begin, Dumping, DumpAt, Holds
<1> HIDE DEF f
<1>3. Sound(t, stack[t], lock) /\ Layered(stack[t])
  BY DEF Inv, All, Kept
<1>4. Follows(stack[t], <<f>> \o stack[t])
  BY <1>1, <1>2, <1>3, Interrupts
<1> QED  BY <1>1, <1>4, StackFollows

LEMMA StepKeeps ==
  ASSUME Inv, Kept, [Next]_vars
  PROVE  Kept' /\ (Lasts \/ process' # "up")
<1>1. CASE UNCHANGED vars
  BY <1>1, SameStacks DEF vars, logger, local
<1>2. ASSUME NEW how \in {"unhandled", "failed"}, Ends(how) PROVE Kept' /\ process' # "up"
  BY <1>2 DEF Ends, Kept, Layered
<1>3. ASSUME NEW t \in Thread, Run(t) PROVE Kept' /\ (Lasts \/ process' # "up")
  <2>1. CASE LoggerStep(t)
    BY <2>1, CallsKeep
  <2>2. CASE HandlerStep(t) /\ process' # "failed"
    BY <1>3, <2>2, HandlerKeeps DEF Run
  <2>3. CASE HandlerStep(t) /\ process' = "failed"
    <3>1. SymbolsFail(t)
      BY <1>3, <2>3 DEF Run, HandlerStep, LogLine, Symbols, Maps, ResetSignal, Raise
    <3> QED  BY <1>2, <3>1 DEF SymbolsFail
  <2> QED  BY <1>3, <2>1, <2>2, <2>3 DEF Run
<1>4. CASE Tick
  BY <1>4, SameStacks DEF Tick, local
<1>5. CASE \E t \in Thread : Call(t) \/ Catch(t)
  BY <1>5, CallKeeps, CatchKeeps
<1>6. CASE \E t \in Thread : DefaultAction(t)
  BY <1>6, SameStacks DEF DefaultAction, logger, local
<1>7. CASE Unhandled
  BY <1>2, <1>7 DEF Unhandled
<1> QED  BY <1>1, <1>3, <1>4, <1>5, <1>6, <1>7 DEF Next

LEMMA AlwaysKept == Spec => []Kept
<1>1. Init => Kept
  <2>1. SUFFICES ASSUME Init, NEW t \in Thread PROVE Layered(stack[t])
    BY DEF Kept
  <2>2. stack[t] = <<>>
    BY <2>1 DEF Init, LoggerInit
  <2> QED  BY <2>2 DEF Layered
<1>2. Inv /\ Kept /\ [Next]_vars => Kept'
  BY StepKeeps
<1> QED  BY <1>1, <1>2, Invariant, PTL DEF Spec

\* The lock that the next step of a thread takes.
Waits(t, l) ==
  \/ l = "heap" /\ (At(t, "alloc") \/ Handler(t, "symbols"))
  \/ l = "localtime" /\ At(t, "localtime")

\* As long as no handler interrupted malloc or localtime, whoever waits for a lock waits
\* for another thread that has only to leave its section, for which it needs no lock:
\* the allocation and the localtime of a line of the log (logger_.h:159), of GetFmtTime
\* (datetime_.h:123) and of the dump (backtrace_.h:27) never wait in a circle.
NoDeadlock ==
  ~Reentered => \A t \in Thread : \A l \in Lock : Waits(t, l) =>
    lock[l] = "free" \/ \E u \in Thread \ {t} : lock[l] = u /\ At(u, Section[l])

(***************************************************************************)
(* The safety half of EndsOrDies for any number of threads: nobody waits   *)
(* for a thread that waits, unless a signal interrupted a section.         *)
(***************************************************************************)
THEOREM NobodyWaitsForAWaiter == Spec => []NoDeadlock
<1>1. Inv /\ Kept => NoDeadlock
  <2>1. SUFFICES ASSUME Inv, Kept, ~Reentered, NEW t \in Thread, NEW l \in Lock, Waits(t, l), lock[l] # "free"
                 PROVE  \E u \in Thread \ {t} : lock[l] = u /\ At(u, Section[l])
    BY DEF NoDeadlock
  <2>2. PICK u \in Thread : lock[l] = u
    BY <2>1 DEF Inv, Typed, Locks
  <2> DEFINE s == stack[u]
  <2>3. Sound(u, s, lock) /\ Layered(s)
    BY <2>1 DEF Inv, All, Kept
  <2>4. PICK i \in DOMAIN s : s[i].at = Section[l]
    BY <2>2, <2>3 DEF Sound, Inside
  <2>5. \A j \in DOMAIN s : Dumps(s[j]) => l \notin s[j].held
    BY <2>1 DEF Reentered
  <2>6. ~Dumps(s[i])
    BY <2>3, <2>4, Kinds, Places DEF Sound
  <2>7. DOMAIN s = 1 .. Len(s) /\ Len(s) \in Nat
    BY <2>3 DEF Sound
  <2>8. i = 1
    <3>1. SUFFICES ASSUME i # 1 PROVE FALSE
      OBVIOUS
    <3>2. i > 1 /\ i - 1 \in DOMAIN s /\ i > i - 1
      BY <2>7, <3>1
    <3>3. Dumps(s[i - 1])
      BY <2>3, <2>6, <3>2 DEF Layered
    <3>4. l \in s[i - 1].held
      BY <2>3, <2>4, <3>2, <3>3 DEF Layered
    <3> QED  BY <2>5, <3>2, <3>3, <3>4
  <2>9. At(u, Section[l])
    BY <2>4, <2>7, <2>8 DEF At
  <2>10. u # t
    <3>1. s[1].at = Section[l] /\ ~Dumps(s[1])
      BY <2>4, <2>6, <2>8
    <3> QED  BY <2>1, <3>1 DEF Waits, At, Handler, Section, Lock
  <2> QED  BY <2>2, <2>9, <2>10
<1> QED  BY <1>1, Invariant, AlwaysKept, PTL

\* A signal that interrupts malloc or localtime: the lock stays with the thread whose
\* handler runs, and the handler has not written the first line of its dump, for the
\* LOG that writes it (backtrace_.h:21) stands before the lock it would have to take.
DumpWaits ==
  \A t \in Thread : \A l \in Lock : Taken(stack[t], l) =>
    /\ lock[l] = t
    /\ \/ Handler(t, "head") /\ stack[t][1].left = HeadLines
       \/ stack[t][1].op = "log" /\ stack[t][1].at \in Before[l]

(***************************************************************************)
(* The exception of EndsOrDies is no weaker than the code makes it: such a *)
(* dump never gets a line out ...                                          *)
(***************************************************************************)
THEOREM DumpNeverStarts == Spec => []DumpWaits
<1>1. Inv /\ Kept => DumpWaits
  <2>1. SUFFICES ASSUME Inv, Kept, NEW t \in Thread, NEW l \in Lock, Taken(stack[t], l)
                 PROVE  \/ Handler(t, "head") /\ stack[t][1].left = HeadLines
                        \/ stack[t][1].op = "log" /\ stack[t][1].at \in Before[l]
    BY TakenIsHeld DEF DumpWaits
  <2>2. PICK i \in DOMAIN stack[t] : Dumps(stack[t][i]) /\ l \in stack[t][i].held
    BY <2>1 DEF Taken
  <2>3. Layered(stack[t]) /\ Nested(stack[t])
    BY <2>1 DEF Inv, All, Sound, Kept
  <2>4. CASE i = 1
    BY <2>2, <2>3, <2>4 DEF Layered, Handler, At
  <2>5. CASE i # 1
    BY <2>2, <2>3, <2>5 DEF Layered, Nested
  <2> QED  BY <2>4, <2>5
<1> QED  BY <1>1, Invariant, AlwaysKept, PTL

(***************************************************************************)
(* ... and no step of any thread ends that state while the process is up:  *)
(* the lock is lost to every thread that logs, formats or allocates.       *)
(***************************************************************************)
THEOREM LockIsLost == Spec => [][Lasts \/ process' # "up"]_vars
<1>1. Inv /\ Kept /\ [Next]_vars => [Lasts \/ process' # "up"]_vars
  BY StepKeeps
<1> QED  BY <1>1, Invariant, AlwaysKept, PTL DEF Spec
=============================================================================
