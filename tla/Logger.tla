------------------------------- MODULE Logger -------------------------------
(***************************************************************************)
(* LOG(level) << ... and LOG_INFO(...) of include/commutils/logger_.h (the *)
(* branch without spdlog, the only one a build selects) and                *)
(* DateTime::GetFmtTime, called by any thread.  Both format the buffer     *)
(* that localtime shares among all threads, and a line of the log goes to  *)
(* std::cout in many writes, the last of which flushes.                    *)
(*                                                                         *)
(* External are malloc and localtime with their locks, std::put_time, and  *)
(* stdout's buffer, which is taken to keep what it has until it is flushed *)
(* (stdio may write it out before), and whose own lock is recursive and is *)
(* not held between two writes.  Which lines mix is not recorded: nothing  *)
(* in the code orders the writes of two threads.                           *)
(* The allocations of a call are taken as one, before it reads the clock.  *)
(***************************************************************************)
EXTENDS Naturals, Sequences

CONSTANTS
  Thread,
  Day,       \* ticks of the clock that have the same date
  MaxClock,  \* bound: ticks of the clock
  MaxCalls   \* bound: calls of all threads

ASSUME LoggerAssumption ==
  /\ Day \in Nat \ {0} /\ MaxClock \in Nat /\ MaxCalls \in Nat
  /\ "free" \notin Thread

VARIABLES
  clock,  \* system_clock
  tm,     \* the buffer of localtime: the fields of the date, those of the time of day
  lock,   \* of "heap" and "localtime": the thread that holds it, or "free"
  stack,  \* the calls a thread is in, innermost first
  cout,   \* the threads that have written something that is not flushed
  calls

local == <<stack, calls>>
logger == <<clock, tm, lock, local, cout>>

Stamp(n) == [date |-> n \div Day, time |-> n % Day]
Frame(op) == [op |-> op, at |-> "alloc", now |-> 0, stamp |-> Stamp(0)]

LoggerInit ==
  /\ clock = 0 /\ tm = Stamp(0)
  /\ lock = [l \in {"heap", "localtime"} |-> "free"]
  /\ stack = [t \in Thread |-> <<>>] /\ cout = {}
  /\ calls = 0

Tick ==
  /\ clock < MaxClock /\ clock' = clock + 1
  /\ UNCHANGED <<tm, lock, local, cout>>

Call(t) ==
  /\ stack[t] = <<>> /\ calls < MaxCalls
  /\ \E op \in {"log", "fmt"} : stack' = [stack EXCEPT ![t] = <<Frame(op)>>]
  /\ calls' = calls + 1
  /\ UNCHANGED <<clock, tm, lock, cout>>

At(t, l) == stack[t] # <<>> /\ stack[t][1].at = l
Goto(t, l) == stack' = [stack EXCEPT ![t][1].at = l] /\ UNCHANGED calls
Return(t) == stack' = [stack EXCEPT ![t] = Tail(@)] /\ UNCHANGED calls

BugReleased(t) == t
Released(t) == "free"

Acquire(t, l) == lock[l] = "free" /\ lock' = [lock EXCEPT ![l] = t]
Release(t, l) == lock' = [lock EXCEPT ![l] = Released(t)]

\* Strings, the stream and the map of colours are allocated.
Malloc(t) ==
  /\ At(t, "alloc") /\ Acquire(t, "heap") /\ Goto(t, "heap")
  /\ UNCHANGED <<clock, tm, cout>>

Now(t) ==
  /\ At(t, "heap") /\ Release(t, "heap")
  /\ stack' = [stack EXCEPT ![t][1].at = "localtime", ![t][1].now = clock]
  /\ UNCHANGED <<clock, tm, calls, cout>>

\* localtime fills the time of day, then the date, and gives its lock back.
Localtime(t) ==
  /\ At(t, "localtime") /\ Acquire(t, "localtime") /\ Goto(t, "date")
  /\ tm' = [tm EXCEPT !.time = Stamp(stack[t][1].now).time]
  /\ UNCHANGED <<clock, cout>>

LocaltimeReturns(t) ==
  /\ At(t, "date") /\ Release(t, "localtime") /\ Goto(t, "put date")
  /\ tm' = [tm EXCEPT !.date = Stamp(stack[t][1].now).date]
  /\ UNCHANGED <<clock, cout>>

\* put_time reads the buffer for each conversion; GetFmtTime formats to a string ...
Put(t, field, to) ==
  /\ stack[t][1].op = "fmt"
  /\ stack' = [stack EXCEPT ![t][1].at = to, ![t][1].stamp[field] = tm[field]]
  /\ UNCHANGED <<clock, tm, lock, cout, calls>>

PutDate(t) == At(t, "put date") /\ Put(t, "date", "put time")
PutTime(t) == At(t, "put time") /\ Put(t, "time", "rest")

\* ... and a line of the log begins to go to cout.
PutLine(t) ==
  /\ At(t, "put date") /\ stack[t][1].op = "log" /\ Goto(t, "rest")
  /\ cout' = cout \cup {t}
  /\ UNCHANGED <<clock, tm, lock>>

BugFlushed == cout
Flushed == {}

\* The rest of the line and std::endl.
LogReturns(t) ==
  /\ At(t, "rest") /\ stack[t][1].op = "log"
  /\ cout' = Flushed /\ Return(t)
  /\ UNCHANGED <<clock, tm, lock>>

FmtReturns(t) ==
  /\ At(t, "rest") /\ stack[t][1].op = "fmt"
  /\ Return(t)
  /\ UNCHANGED <<clock, tm, lock, cout>>

LoggerStep(t) ==
  \/ Malloc(t) \/ Now(t) \/ Localtime(t) \/ LocaltimeReturns(t)
  \/ PutDate(t) \/ PutTime(t) \/ PutLine(t) \/ LogReturns(t) \/ FmtReturns(t)

LoggerNext == Tick \/ \E t \in Thread : Call(t) \/ LoggerStep(t)

LoggerSpec == LoggerInit /\ [][LoggerNext]_logger
-----------------------------------------------------------------------------
Section == [heap |-> "heap", localtime |-> "date"]

\* datetime_.h:114: GetFmtTime "Returns the formatted current time", one the clock had
\* between its call and its return.
FmtTimeIsCurrent ==
  \A t \in Thread : At(t, "rest") /\ stack[t][1].op = "fmt" =>
    \E n \in stack[t][1].now .. clock : stack[t][1].stamp = Stamp(n)
=============================================================================
