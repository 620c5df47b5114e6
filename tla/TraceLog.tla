------------------------------ MODULE TraceLog ------------------------------
(***************************************************************************)
(* What class Tracer promises the threads that call begin() and end(): the *)
(* events of one thread reach the trace file in the order the thread       *)
(* recorded them, each at most once and none out of thin air; an "E" event *)
(* is written together with the figures of the LAST begin event that the   *)
(* same thread wrote under the same name; an "E" event with no such begin  *)
(* event is left out; and nothing is written after the file is closed.     *)
(* Nothing is promised about the order of different threads, nor that what *)
(* is still pending when the file closes is ever written.                  *)
(***************************************************************************)
EXTENDS Naturals, Sequences

CONSTANTS Thread,   \* the threads that record events
          Event     \* what they record: records with fields tid, name, ph, ...

VARIABLES pending,  \* pending[t]: recorded by t and not yet written
          entries,  \* the events of the file, each with the begin it refers to
          closed    \* whether the file is closed

vars == <<pending, entries, closed>>

Init ==
  /\ pending = [t \in Thread |-> <<>>]
  /\ entries = <<>>
  /\ closed = FALSE

\* i is the last entry that begins the span which event e ends.
IsLastBegin(i, e) ==
  LET Begins(j) == /\ entries[j].ev.ph # "E"
                   /\ entries[j].ev.tid = e.tid
                   /\ entries[j].ev.name = e.name
  IN Begins(i) /\ \A j \in DOMAIN entries : j > i => ~Begins(j)

Record(t) ==
  /\ \E e \in Event : e.tid = t /\ pending' = [pending EXCEPT ![t] = Append(@, e)]
  /\ UNCHANGED <<entries, closed>>

Take(t) ==
  /\ ~closed
  /\ pending[t] # <<>>
  /\ pending' = [pending EXCEPT ![t] = Tail(@)]
  /\ UNCHANGED closed

\* An event that opens a span (or marks an instant) refers to itself.
WriteBegin(t) ==
  /\ Take(t)
  /\ LET e == Head(pending[t]) IN
       /\ e.ph # "E"
       /\ entries' = Append(entries, [ev |-> e, from |-> e])

WriteEnd(t) ==
  /\ Take(t)
  /\ LET e == Head(pending[t]) IN
       /\ e.ph = "E"
       /\ \E i \in DOMAIN entries :
            /\ IsLastBegin(i, e)
            /\ entries' = Append(entries, [ev |-> e, from |-> entries[i].ev])

LeaveOut(t) ==
  /\ Take(t)
  /\ LET e == Head(pending[t]) IN
       /\ e.ph = "E"
       /\ \A i \in DOMAIN entries : ~IsLastBegin(i, e)
  /\ UNCHANGED entries

Close == ~closed /\ closed' = TRUE /\ UNCHANGED <<pending, entries>>

Next ==
  \/ \E t \in Thread : Record(t) \/ WriteBegin(t) \/ WriteEnd(t) \/ LeaveOut(t)
  \/ Close

Spec == Init /\ [][Next]_vars
=============================================================================
