------------------------------- MODULE Tracer -------------------------------
(***************************************************************************)
(* Class Tracer of include/commutils/tracer_.h: threads stamp begin/end    *)
(* events into a lock-free queue, one report thread pairs each "E" event   *)
(* with its begin and writes a JSON file, stop() or the destructor of the  *)
(* function-static instance ends the recording.                            *)
(*                                                                         *)
(* External code, modelled as tracer_.h uses it: the moodycamel queue is   *)
(* one FIFO per producer thread, and a dequeue takes the head of any of    *)
(* them; the threads and main are those of test/test_tracer.cc, which      *)
(* joins its threads before it returns.  Operators named Bug... are wrong  *)
(* variants of the definition that follows them; no specification uses     *)
(* them.                                                                   *)
(***************************************************************************)
EXTENDS Integers, Sequences

CONSTANTS
  Thread,      \* thread ids, each the sequence of its decimal digits
  Tag,         \* event names, each a sequence of characters
  Phase,       \* values of the argument phase, "E" for an end event
  Args,        \* values of the argument custom_args ...
  ObjectArgs,  \* ... and those of them that are JSON objects
  ClockHalf,   \* the clock sum of line 160 is held in [-ClockHalf, ClockHalf)
  Boot,        \* the monotonic clock when the program starts
  MaxClock,    \* bound: the last tick of the clock
  MaxCalls     \* bound: calls of begin/end per thread

ASSUME TracerAssumption ==
  /\ Thread \subseteq Seq(STRING) /\ Tag \subseteq Seq(STRING)
  /\ ClockHalf \in Nat \ {0}
  /\ Boot \in Nat /\ MaxClock \in Nat /\ MaxCalls \in Nat

VARIABLES
  instance,            \* the static Tracer: "none", "live", "dtor", "destroyed";
                       \* "crashed" when the whole process has been killed
  stop_, begin_wall_offset_,
  event_queue_,        \* event_queue_[t]: the sub-queue of producer t
  event_map_,          \* Key -> the latest event of it that is not an "E"
  event_cnt_,
  of_trace_file_,      \* the tokens written: "head", "event", "sep", "tail"
  entries,             \* the payload of the "event" tokens: event and its begin
  clock,
  pc,                  \* client t: "idle", "entered", "stamped", "exited"
  inflight,            \* <<e>> between the stamp of e and its enqueue
  calls,
  rpc                  \* report(): "none", "open", "loop", "body", "done"

client == <<pc, inflight, calls>>
file == <<of_trace_file_, entries, event_cnt_>>
static == <<instance, begin_wall_offset_, clock>>
vars == <<static, stop_, client, event_queue_, event_map_, file, rpc>>

Event == [tid : Thread, name : Tag, ph : Phase, ts : 0 .. 2 * ClockHalf - 1, args : Args]

\* std::to_string(e.tid) + e.name: nothing separates the digits from the name.
BugKey(e) == e.name
Key(e) == e.tid \o e.name

\* tv_sec * 1000000000 + tv_nsec in two's complement of the width of tv_sec.
Nsec(c) == ((c + ClockHalf) % (2 * ClockHalf)) - ClockHalf

Init ==
  /\ instance = "none" /\ stop_ = TRUE /\ begin_wall_offset_ = 0
  /\ event_queue_ = [t \in Thread |-> <<>>]
  /\ event_map_ = [k \in {} |-> <<>>]
  /\ event_cnt_ = 0 /\ of_trace_file_ = <<>> /\ entries = <<>>
  /\ clock = Boot
  /\ pc = [t \in Thread |-> "idle"]
  /\ inflight = [t \in Thread |-> <<>>]
  /\ calls = [t \in Thread |-> 0]
  /\ rpc = "none"

(***************************************************************************)
(* The clients: instance(), begin() / end() = event_stamp(), stop().       *)
(***************************************************************************)
Tick ==
  /\ instance \in {"none", "live", "dtor"}
  /\ clock < MaxClock
  /\ clock' = clock + 1
  /\ UNCHANGED <<instance, begin_wall_offset_, stop_, client, event_queue_, event_map_,
                 file, rpc>>

\* The first call of instance() constructs; concurrent ones wait for it.
Construct(t) ==
  /\ instance = "none" /\ pc[t] = "idle"
  /\ instance' = "live" /\ stop_' = FALSE /\ rpc' = "open"
  /\ begin_wall_offset_' = Nsec(clock)
  /\ UNCHANGED <<clock, client, event_queue_, event_map_, file>>

ClientStep(t, from, to) ==
  /\ pc[t] = from
  /\ pc' = [pc EXCEPT ![t] = to]
  /\ UNCHANGED <<static, event_map_, file, rpc>>

\* The test of stop_ at the top of event_stamp: a stopped tracer ignores the call.
Call(t) ==
  /\ instance = "live" /\ calls[t] < MaxCalls
  /\ calls' = [calls EXCEPT ![t] = @ + 1]
  /\ ClientStep(t, "idle", IF stop_ THEN "idle" ELSE "entered")
  /\ UNCHANGED <<stop_, inflight, event_queue_>>

RusageFails(t) ==
  /\ ClientStep(t, "entered", "idle")
  /\ stop_' = TRUE
  /\ UNCHANGED <<inflight, calls, event_queue_>>

BugCutOff == FALSE
CutOff == Nsec(clock) < begin_wall_offset_

BeforeCutoff(t) ==
  /\ ClientStep(t, "entered", "idle")
  /\ CutOff
  /\ UNCHANGED <<stop_, inflight, calls, event_queue_>>

TakeStamp(t) ==
  /\ ClientStep(t, "entered", "stamped")
  /\ ~CutOff
  /\ \E n \in Tag, p \in Phase, a \in Args :
       LET e == [tid |-> t, name |-> n, ph |-> p, args |-> a,
                 ts |-> Nsec(clock) - begin_wall_offset_]
       IN inflight' = [inflight EXCEPT ![t] = <<e>>]
  /\ UNCHANGED <<stop_, calls, event_queue_>>

BugQueued(q, e) == e \o q
Queued(q, e) == q \o e

\* Not guarded by stop_: an event stamped before stop() is queued after it.
Enqueue(t) ==
  /\ ClientStep(t, "stamped", "idle")
  /\ event_queue_' = [event_queue_ EXCEPT ![t] = Queued(@, inflight[t])]
  /\ inflight' = [inflight EXCEPT ![t] = <<>>]
  /\ UNCHANGED <<stop_, calls>>

Stop ==
  /\ instance = "live" /\ ~stop_
  /\ stop_' = TRUE
  /\ UNCHANGED <<static, client, event_queue_, event_map_, file, rpc>>

Exit(t) == ClientStep(t, "idle", "exited") /\ UNCHANGED <<stop_, inflight, calls, event_queue_>>

(***************************************************************************)
(* The report thread.  "body" is one pass of the loop from try_dequeue on; *)
(* from the dequeue to the write it touches only what no other thread      *)
(* reads, so a pass is one step.                                           *)
(***************************************************************************)
ReportStep(from, to) ==
  /\ rpc = from /\ rpc' = to
  /\ UNCHANGED <<begin_wall_offset_, clock, inflight, calls>>

OpenFile ==
  /\ ReportStep("open", "loop")
  /\ of_trace_file_' = <<"head">>
  /\ UNCHANGED <<instance, stop_, pc, event_queue_, event_map_, entries, event_cnt_>>

BugOpenFails ==
  ReportStep("open", "done") /\ UNCHANGED <<instance, stop_, pc, event_queue_, event_map_, file>>
OpenFails ==
  /\ ReportStep("open", "done")
  /\ stop_' = TRUE
  /\ UNCHANGED <<instance, pc, event_queue_, event_map_, file>>

\* while (!stop_)
LoopAgain ==
  /\ ReportStep("loop", "body")
  /\ ~stop_
  /\ UNCHANGED <<instance, stop_, pc, event_queue_, event_map_, file>>

LoopEnds ==
  /\ ReportStep("loop", "done")
  /\ stop_
  /\ of_trace_file_' = Append(of_trace_file_, "tail")
  /\ UNCHANGED <<instance, stop_, pc, event_queue_, event_map_, entries, event_cnt_>>

NothingQueued ==
  /\ ReportStep("body", "loop")
  /\ \A t \in Thread : event_queue_[t] = <<>>
  /\ UNCHANGED <<instance, stop_, pc, event_queue_, event_map_, file>>

Dequeue(t) ==
  /\ event_queue_[t] # <<>>
  /\ event_queue_' = [event_queue_ EXCEPT ![t] = Tail(@)]

BugSeparated == Append(of_trace_file_, "sep")
Separated == IF event_cnt_ # 0 THEN Append(of_trace_file_, "sep") ELSE of_trace_file_

\* The event is written with the figures of event begin, and counted.
Write(e, begin) ==
  /\ of_trace_file_' = Append(Separated, "event")
  /\ entries' = Append(entries, [ev |-> e, from |-> begin])
  /\ event_cnt_' = event_cnt_ + 1
  /\ UNCHANGED <<instance, stop_, pc>>

BugRemember(e) == [k \in DOMAIN event_map_ \cup {Key(e)} |->
                    IF k \in DOMAIN event_map_ THEN event_map_[k] ELSE e]
\* event_map_[key] = e: overwritten by the next begin of the key, never erased.
Remember(e) == [k \in DOMAIN event_map_ \cup {Key(e)} |->
                 IF k = Key(e) THEN e ELSE event_map_[k]]

ReportBegin(t) ==
  /\ ReportStep("body", "loop") /\ Dequeue(t)
  /\ LET e == Head(event_queue_[t]) IN
       /\ e.ph # "E"
       /\ event_map_' = Remember(e)
       /\ Write(e, e)

Matched(e) == e.ph = "E" /\ Key(e) \in DOMAIN event_map_

ReportEnd(t) ==
  /\ ReportStep("body", "loop") /\ Dequeue(t)
  /\ LET e == Head(event_queue_[t]) IN
       /\ Matched(e)
       /\ e.args \in ObjectArgs
       /\ Write(e, event_map_[Key(e)])
  /\ UNCHANGED event_map_

BugAfterUnmatched == "done"
AfterUnmatched == "loop"
\* "not found begin event!" and continue: the event is dropped.
ReportUnmatched(t) ==
  /\ ReportStep("body", AfterUnmatched) /\ Dequeue(t)
  /\ LET e == Head(event_queue_[t]) IN e.ph = "E" /\ ~Matched(e)
  /\ UNCHANGED <<instance, stop_, pc, event_map_, file>>

\* 100 * cpudur / walldur with walldur = 0 traps (or yields a number, which is
\* ReportEnd); e.args["preempted"] throws on arguments that are no object, and
\* nobody catches.  Either way the process and its threads are gone.
ReportCrashes(t) ==
  /\ ReportStep("body", "done") /\ event_queue_[t] # <<>>
  /\ LET e == Head(event_queue_[t]) IN
       /\ Matched(e)
       /\ e.args \notin ObjectArgs \/ event_map_[Key(e)].ts = e.ts
  /\ instance' = "crashed"
  /\ pc' = [c \in Thread |-> "exited"]
  /\ UNCHANGED <<stop_, event_queue_, event_map_, file>>

(***************************************************************************)
(* main returns after joining its threads: the static destructor runs.     *)
(***************************************************************************)
BugMainReturns ==
  /\ instance = "live" /\ \A t \in Thread : pc[t] = "exited"
  /\ instance' = "dtor"
  /\ UNCHANGED <<stop_, begin_wall_offset_, clock, client, event_queue_, event_map_, file, rpc>>
MainReturns ==
  /\ instance = "live" /\ \A t \in Thread : pc[t] = "exited"
  /\ instance' = "dtor" /\ stop_' = TRUE
  /\ UNCHANGED <<begin_wall_offset_, clock, client, event_queue_, event_map_, file, rpc>>

BugReportJoined == TRUE
ReportJoined == rpc = "done"
DtorJoins ==
  /\ instance = "dtor" /\ ReportJoined
  /\ instance' = "destroyed"
  /\ UNCHANGED <<stop_, begin_wall_offset_, clock, client, event_queue_, event_map_, file, rpc>>

\* The process may end with its instance destroyed, never made, or crashed.
Terminated ==
  /\ instance \in {"none", "destroyed", "crashed"}
  /\ \A t \in Thread : pc[t] = "exited"
  /\ UNCHANGED vars

Client(t) == \/ Construct(t) \/ Call(t) \/ RusageFails(t) \/ BeforeCutoff(t)
             \/ TakeStamp(t) \/ Enqueue(t) \/ Exit(t)

Report ==
  \/ OpenFile \/ OpenFails \/ LoopAgain \/ LoopEnds \/ NothingQueued
  \/ \E t \in Thread : ReportBegin(t) \/ ReportEnd(t) \/ ReportUnmatched(t) \/ ReportCrashes(t)

Next ==
  \/ \E t \in Thread : Client(t)
  \/ Report \/ Tick \/ Stop \/ MainReturns \/ DtorJoins \/ Terminated

Spec == Init /\ [][Next]_vars

\* The scheduler runs the report thread and the joining main thread.
FairSpec == Spec /\ WF_vars(Report) /\ WF_vars(DtorJoins)
-----------------------------------------------------------------------------
Token == {"head", "sep", "event", "tail"}

TypeOK ==
  /\ instance \in {"none", "live", "dtor", "destroyed", "crashed"}
  /\ stop_ \in BOOLEAN /\ clock \in Nat
  /\ begin_wall_offset_ \in -ClockHalf .. ClockHalf - 1
  /\ event_queue_ \in [Thread -> Seq(Event)]
  /\ \A k \in DOMAIN event_map_ : event_map_[k] \in Event
  /\ event_cnt_ \in Nat
  /\ of_trace_file_ \in Seq(Token)
  /\ entries \in Seq([ev : Event, from : Event])
  /\ pc \in [Thread -> {"idle", "entered", "stamped", "exited"}]
  /\ inflight \in [Thread -> Seq(Event)]
  /\ calls \in [Thread -> 0..MaxCalls]
  /\ rpc \in {"none", "open", "loop", "body", "done"}

Follows == {<<"head", "event">>, <<"head", "tail">>, <<"event", "sep">>,
            <<"event", "tail">>, <<"sep", "event">>}
WellFormed(s) ==
  /\ s # <<>> => s[1] = "head"
  /\ \A i \in 1 .. Len(s) - 1 : <<s[i], s[i + 1]>> \in Follows

\* The file is a prefix of one JSON document at every moment: the head comes first
\* and nothing else does, events are separated by one comma, nothing follows the
\* tail.  (The commas depend on event_cnt_, which "continue" must not touch.)
JsonPrefix == WellFormed(of_trace_file_)

\* Once the static Tracer is destroyed its file is a complete document, whatever
\* stop(), a failing getrusage or a racing report thread did, or was never opened.
CompleteAfterDestruction ==
  instance = "destroyed" =>
    of_trace_file_ = <<>> \/ of_trace_file_[Len(of_trace_file_)] = "tail"

\* The events of t that are queued, and the one its current call may still queue.
Pending(t) == Len(event_queue_[t]) + (IF pc[t] \in {"entered", "stamped"} THEN 1 ELSE 0)

\* When the report thread has left, no thread goes on filling a queue that nobody
\* empties: a call that is already past the test of stop_ may still queue its one
\* event, no other call gets that far.
NoRecordingUnread == [][rpc = "done" => \A t \in Thread : Pending(t)' <= Pending(t)]_vars

\* Two pairs (tid, name) of this instance never give the same key.
KeysDistinct ==
  \A t, u \in Thread, m, n \in Tag : t \o m = u \o n => t = u /\ m = n

\* Entry i begins the span that e ends.
IsBegin(i, e) == /\ entries[i].ev.ph # "E"
                 /\ entries[i].ev.tid = e.tid
                 /\ entries[i].ev.name = e.name

\* What line 118 reports as missing when it is missing: an "E" event is written with
\* the figures of the latest begin event before it in the file that has its own thread
\* and its own name, any other event with its own figures.
OwnBegin ==
  \A i \in DOMAIN entries :
    LET e == entries[i].ev IN
      \/ e.ph # "E" /\ entries[i].from = e
      \/ /\ e.ph = "E"
         /\ \E j \in 1 .. i - 1 :
              /\ IsBegin(j, e) /\ entries[i].from = entries[j].ev
              /\ \A k \in j + 1 .. i - 1 : ~IsBegin(k, e)

\* The events of one thread are in the file in the order of their time stamps.
ThreadOrder ==
  \A i, j \in DOMAIN entries :
    i < j /\ entries[i].ev.tid = entries[j].ev.tid => entries[i].ev.ts <= entries[j].ev.ts

\* The detailed tracer implements its promise.
Promise == INSTANCE TraceLog WITH pending <- event_queue_, closed <- (rpc = "done")
KeepsPromise == Promise!Spec

\* Once recording is on and nobody stops it, queued events do not stay queued.
Drained ==
  \A t \in Thread :
    event_queue_[t] # <<>> ~> event_queue_[t] = <<>> \/ stop_ \/ instance = "crashed"

\* The destructor gets through its join.
DtorReturns == instance = "dtor" ~> instance \in {"destroyed", "crashed"}
=============================================================================
