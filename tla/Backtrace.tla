------------------------------ MODULE Backtrace ------------------------------
(***************************************************************************)
(* Class Backtrace of include/commutils/backtrace_.h on top of Logger: the *)
(* handler of SIGSEGV logs a dump of the stack, line by line with LOG,     *)
(* while the thread it interrupts and all others are wherever they are.    *)
(*                                                                         *)
(* External: signal(2) blocks the signal in the thread while its handler   *)
(* runs; raise leaves it pending until the handler returns.  The handler   *)
(* is there when the threads start, for a static initializer installs it.  *)
(***************************************************************************)
EXTENDS Logger

CONSTANTS
  HeadLines,  \* lines before the symbols are looked up (3 in the code)
  TailLines,  \* lines after the stack (2 in the code)
  MaxFrames   \* BACKTRACE_STACK_MAX_SIZE

ASSUME BacktraceAssumption ==
  HeadLines \in Nat \ {0} /\ TailLines \in Nat \ {0} /\ MaxFrames \in Nat \ {0}

VARIABLES
  disposition,  \* of SIGSEGV: "SignalHandler", "SIG_DFL"
  process       \* "up", "killed" by SIGSEGV, "unhandled" (no handler could run),
                \* "failed" (exit(EXIT_FAILURE))

vars == <<logger, disposition, process>>

Init == LoggerInit /\ disposition = "SignalHandler" /\ process = "up"

Dumps(f) == f.op = "dump"
InHandler(t) == \E i \in DOMAIN stack[t] : Dumps(stack[t][i])
Holds(t) == {l \in DOMAIN lock : lock[l] = t}

\* The first part of the dump.
Begin(t) == [op |-> "dump", at |-> "head", left |-> HeadLines, held |-> Holds(t)]

(***************************************************************************)
(* SIGSEGV reaches a thread: a fault of the program's code or of malloc on *)
(* a damaged heap, or kill(2) at any moment.                               *)
(***************************************************************************)
BugCaught == "SIG_DFL"
Caught == disposition

Catch(t) ==
  /\ disposition = "SignalHandler" /\ ~InHandler(t)
  /\ stack' = [stack EXCEPT ![t] = <<Begin(t)>> \o @]
  /\ disposition' = Caught
  /\ UNCHANGED <<clock, tm, lock, calls, cout, process>>

DefaultAction(t) ==
  /\ disposition = "SIG_DFL" /\ ~InHandler(t)
  /\ process' = "killed" /\ UNCHANGED <<logger, disposition>>

\* The process ends with all its threads.
Ends(how) ==
  /\ process' = how
  /\ stack' = [t \in Thread |-> <<>>] /\ lock' = [l \in DOMAIN lock |-> "free"]
  /\ cout' = {}
  /\ UNCHANGED <<clock, tm, calls, disposition>>

\* A fault inside the handler, or one that leaves no stack for it to run on.
Unhandled == Ends("unhandled")

(***************************************************************************)
(* SignalHandler.                                                          *)
(***************************************************************************)
Handler(t, l) == At(t, l) /\ Dumps(stack[t][1])
Continue(t, l, n) ==
  stack' = [stack EXCEPT ![t][1].at = l, ![t][1].left = n] /\ UNCHANGED calls

After == [head |-> "symbols", frames |-> "tail", tail |-> "maps"]

\* One LOG(FATAL); the dump goes on where it stands when the line is out.
LogLine(t) ==
  /\ \E l \in DOMAIN After : Handler(t, l)
  /\ LET f == stack[t][1] IN
       stack' = [stack EXCEPT ![t] = <<Frame("log"),
         IF f.left > 1 THEN [f EXCEPT !.left = @ - 1]
         ELSE [f EXCEPT !.at = After[f.at],
                        !.left = IF f.at = "frames" THEN TailLines ELSE 0]>> \o Tail(@)]
  /\ UNCHANGED <<clock, tm, lock, calls, cout, disposition, process>>

\* backtrace_symbols allocates.
Symbols(t) ==
  /\ Handler(t, "symbols") /\ lock["heap"] = "free"
  /\ \E n \in 1 .. MaxFrames : Continue(t, "frames", n)
  /\ UNCHANGED <<clock, tm, lock, cout, disposition, process>>

SymbolsFail(t) ==
  /\ Handler(t, "symbols") /\ lock["heap"] = "free"
  /\ Ends("failed")

\* The maps of the process, to the descriptor of stdout; putting the line together allocates.
Maps(t) ==
  /\ Handler(t, "maps") /\ lock["heap"] = "free"
  /\ Continue(t, "default", 0)
  /\ UNCHANGED <<clock, tm, lock, cout, disposition, process>>

BugDefault == disposition
Default == "SIG_DFL"

\* std::cerr << "catch signal"; signal(signo, SIG_DFL).
ResetSignal(t) ==
  /\ Handler(t, "default") /\ Continue(t, "raise", 0)
  /\ disposition' = Default
  /\ UNCHANGED <<clock, tm, lock, cout, process>>

\* raise(signo) takes effect when the handler returns, before the thread goes on.
Raise(t) ==
  /\ Handler(t, "raise")
  /\ IF disposition = "SIG_DFL" THEN process' = "killed" /\ UNCHANGED local
     ELSE Continue(t, "head", HeadLines) /\ UNCHANGED process
  /\ UNCHANGED <<clock, tm, lock, cout, disposition>>

HandlerStep(t) ==
  LogLine(t) \/ Symbols(t) \/ SymbolsFail(t) \/ Maps(t) \/ ResetSignal(t) \/ Raise(t)

Run(t) ==
  /\ process = "up"
  /\ HandlerStep(t) \/ (LoggerStep(t) /\ UNCHANGED <<disposition, process>>)

Next ==
  \/ \E t \in Thread : Run(t)
  \/ /\ process = "up"
     /\ \/ (Tick \/ \E t \in Thread : Call(t)) /\ UNCHANGED <<disposition, process>>
        \/ \E t \in Thread : Catch(t) \/ DefaultAction(t)
        \/ Unhandled

Spec == Init /\ [][Next]_vars

\* Threads are scheduled, and get a lock that is free again and again at last.
FairSpec == Spec /\ \A t \in Thread : SF_vars(Run(t))
-----------------------------------------------------------------------------
CallFrame ==
  [op : {"log", "fmt"}, now : 0 .. MaxClock,
   at : {"alloc", "heap", "localtime", "date", "put date", "put time", "rest"},
   stamp : [date : 0 .. MaxClock, time : 0 .. Day - 1]]
DumpFrame ==
  [op : {"dump"}, held : SUBSET DOMAIN lock, left : Nat,
   at : {"head", "symbols", "frames", "tail", "maps", "default", "raise"}]

\* The type of every variable.  A thread holds a lock exactly while one of the calls on
\* its stack, interrupted or not, is in the section of that lock.
TypeOK ==
  /\ clock \in 0 .. MaxClock
  /\ tm \in [date : 0 .. MaxClock, time : 0 .. Day - 1]
  /\ lock \in [{"heap", "localtime"} -> Thread \cup {"free"}]
  /\ stack \in [Thread -> Seq(CallFrame \cup DumpFrame)]
  /\ calls \in 0 .. MaxCalls /\ cout \subseteq Thread
  /\ disposition \in {"SignalHandler", "SIG_DFL"}
  /\ process \in {"up", "killed", "unhandled", "failed"}
  /\ \A t \in Thread : \A l \in DOMAIN lock :
       lock[l] = t <=> \E i \in DOMAIN stack[t] : stack[t][i].at = Section[l]

\* However many threads catch the signal at once: when it kills the process, one whole
\* dump is out, and nothing of it is left in a buffer that dies with the process; nor
\* do the maps, which do not go through that buffer, overtake a line of their dump.
DumpSurvives ==
  /\ process = "killed" => \E t \in Thread : Handler(t, "raise") /\ t \notin cout
  /\ \A t \in Thread : Handler(t, "maps") => t \notin cout

\* A thread was interrupted inside malloc or localtime, whose locks its handler needs.
Reentered == \E t \in Thread : \E i \in DOMAIN stack[t] :
  Dumps(stack[t][i]) /\ stack[t][i].held # {}

\* A thread that logs or formats the time gets through it, and one that dumps, which
\* comes back from its handler only by dying (test_backtrace.cc:6 expects the process to
\* be killed by the signal), brings the process down: neither waits for a lock for ever,
\* unless a thread was interrupted inside malloc or localtime.
EndsOrDies ==
  \A t \in Thread : stack[t] # <<>> ~> stack[t] = <<>> \/ process # "up" \/ Reentered
=============================================================================
