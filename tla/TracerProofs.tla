---------------------------- MODULE TracerProofs ----------------------------
(***************************************************************************)
(* Proofs about Tracer for every set of threads and names, every clock     *)
(* width and every bound.                                                  *)
(***************************************************************************)
EXTENDS Tracer, SequenceTheorems, TLAPS

(***************************************************************************)
(* The wrapped clock sum stays in its width, and is exact while it fits.   *)
(***************************************************************************)
LEMMA NsecRange ==
  ASSUME NEW c \in Nat
  PROVE  Nsec(c) \in -ClockHalf .. ClockHalf - 1
BY TracerAssumption DEF Nsec

LEMMA NsecExact ==
  ASSUME NEW c \in Nat, c < ClockHalf
  PROVE  Nsec(c) = c
<1>1. c + ClockHalf \in 0 .. 2 * ClockHalf - 1
  BY TracerAssumption
<1>2. (c + ClockHalf) % (2 * ClockHalf) = c + ClockHalf
  BY <1>1, TracerAssumption
<1> QED  BY <1>2, TracerAssumption DEF Nsec

(***************************************************************************)
(* Every time stamp is in the range of its field, no clock sum before the  *)
(* cut-off gets one (lines 163-171), and all the rest is of its type.      *)
(***************************************************************************)
LEMMA TypeInit == Init => TypeOK
<1> SUFFICES ASSUME Init PROVE TypeOK
  OBVIOUS
<1> QED  BY TracerAssumption DEF Init, TypeOK

LEMMA TypeStep == TypeOK /\ [Next]_vars => TypeOK'
<1> SUFFICES ASSUME TypeOK, [Next]_vars PROVE TypeOK'
  OBVIOUS
<1> USE DEF TypeOK, client, file, static, ClientStep, ReportStep
<1>1. ASSUME NEW t \in Thread, Construct(t) PROVE TypeOK'
  BY <1>1, NsecRange DEF Construct
<1>2. ASSUME NEW t \in Thread, Call(t) PROVE TypeOK'
  BY <1>2, TracerAssumption DEF Call
<1>3. ASSUME NEW t \in Thread, RusageFails(t) \/ BeforeCutoff(t) \/ Exit(t) PROVE TypeOK'
  BY <1>3 DEF RusageFails, BeforeCutoff, Exit
<1>4. ASSUME NEW t \in Thread, TakeStamp(t) PROVE TypeOK'
  <2>1. PICK n \in Tag, p \in Phase, a \in Args :
          inflight' = [inflight EXCEPT ![t] =
            <<[tid |-> t, name |-> n, ph |-> p, args |-> a,
               ts |-> Nsec(clock) - begin_wall_offset_]>>]
    BY <1>4 DEF TakeStamp
  <2>2. Nsec(clock) - begin_wall_offset_ \in 0 .. 2 * ClockHalf - 1
    <3>1. Nsec(clock) \in -ClockHalf .. ClockHalf - 1
      BY NsecRange
    <3>2. Nsec(clock) >= begin_wall_offset_
      BY <1>4, <3>1, TracerAssumption DEF TakeStamp, CutOff
    <3> QED  BY <3>1, <3>2, TracerAssumption
  <2>3. [tid |-> t, name |-> n, ph |-> p, args |-> a,
         ts |-> Nsec(clock) - begin_wall_offset_] \in Event
    BY <2>2 DEF Event
  <2>4. inflight' \in [Thread -> Seq(Event)]
    BY <2>1, <2>3
  <2> QED  BY <1>4, <2>4 DEF TakeStamp
<1>5. ASSUME NEW t \in Thread, Enqueue(t) PROVE TypeOK'
  <2>1. Queued(event_queue_[t], inflight[t]) \in Seq(Event)
    BY ConcatProperties DEF Queued
  <2>2. /\ event_queue_' \in [Thread -> Seq(Event)]
        /\ inflight' \in [Thread -> Seq(Event)]
    BY <1>5, <2>1 DEF Enqueue
  <2> QED  BY <1>5, <2>2 DEF Enqueue
<1>6. CASE OpenFile
  <2>1. <<"head">> \in Seq(Token)
    BY DEF Token
  <2> QED  BY <1>6, <2>1 DEF OpenFile
<1>7. CASE OpenFails \/ LoopAgain \/ NothingQueued
  BY <1>7 DEF OpenFails, LoopAgain, NothingQueued
<1>8. CASE LoopEnds
  BY <1>8, AppendProperties DEF LoopEnds, Token
<1>9. ASSUME NEW e \in Event, NEW b \in Event, Write(e, b)
      PROVE /\ entries' \in Seq([ev : Event, from : Event])
            /\ of_trace_file_' \in Seq(Token)
            /\ event_cnt_' \in Nat
  <2>1. Separated \in Seq(Token)
    BY AppendProperties DEF Separated, Token
  <2>2. of_trace_file_' \in Seq(Token)
    BY <1>9, <2>1, AppendProperties DEF Write, Token
  <2>3. [ev |-> e, from |-> b] \in [ev : Event, from : Event]
    OBVIOUS
  <2>4. entries' \in Seq([ev : Event, from : Event])
    BY <1>9, <2>3, AppendProperties DEF Write
  <2> QED  BY <1>9, <2>2, <2>4 DEF Write
<1>10. ASSUME NEW t \in Thread, Dequeue(t)
      PROVE /\ Head(event_queue_[t]) \in Event
            /\ event_queue_' \in [Thread -> Seq(Event)]
  BY <1>10 DEF Dequeue
<1>11. ASSUME NEW t \in Thread, ReportBegin(t) PROVE TypeOK'
  <2> DEFINE e == Head(event_queue_[t])
  <2>1. e \in Event /\ event_queue_' \in [Thread -> Seq(Event)]
    BY <1>10, <1>11 DEF ReportBegin
  <2>2. \A k \in DOMAIN event_map_' : event_map_'[k] \in Event
    BY <1>11, <2>1 DEF ReportBegin, Remember
  <2> QED  BY <1>9, <1>11, <2>1, <2>2 DEF ReportBegin, Write
<1>12. ASSUME NEW t \in Thread, ReportEnd(t) PROVE TypeOK'
  <2> DEFINE e == Head(event_queue_[t])
  <2>1. e \in Event /\ event_queue_' \in [Thread -> Seq(Event)]
    BY <1>10, <1>12 DEF ReportEnd
  <2>2. event_map_[Key(e)] \in Event
    BY <1>12 DEF ReportEnd, Matched
  <2> QED  BY <1>9, <1>12, <2>1, <2>2 DEF ReportEnd, Write
<1>13. ASSUME NEW t \in Thread, ReportUnmatched(t) \/ ReportCrashes(t) PROVE TypeOK'
  <2>1. CASE ReportUnmatched(t)
    BY <1>10, <2>1 DEF ReportUnmatched, AfterUnmatched
  <2>2. CASE ReportCrashes(t)
    BY <2>2 DEF ReportCrashes
  <2> QED  BY <1>13, <2>1, <2>2
<1>14. CASE Tick
  BY <1>14 DEF Tick
<1>15. CASE Stop \/ MainReturns \/ DtorJoins
  BY <1>15 DEF Stop, MainReturns, DtorJoins
<1>16. CASE Terminated \/ UNCHANGED vars
  BY <1>16 DEF Terminated, vars
<1> QED
  BY <1>1, <1>2, <1>3, <1>4, <1>5, <1>6, <1>7, <1>8, <1>11, <1>12, <1>13, <1>14, <1>15, <1>16
     DEF Next, Client, Report

\* Type correctness, and with it the range of every time stamp.
THEOREM TypeCorrect == Spec => []TypeOK
BY TypeInit, TypeStep, PTL DEF Spec

(***************************************************************************)
(* The file.  Its last token tells whether the next event needs a comma:   *)
(* event_cnt_ counts exactly the events written, so the two agree.  The    *)
(* life of the instance, of the report thread and of stop_ go together.    *)
(***************************************************************************)
Last(s) == s[Len(s)]

FileInv ==
  /\ JsonPrefix
  /\ instance = "none" => rpc = "none"
  /\ instance \in {"destroyed", "crashed"} => rpc = "done"
  /\ rpc \in {"none", "open"} => of_trace_file_ = <<>> /\ event_cnt_ = 0
  /\ rpc \in {"loop", "body"} =>
       /\ of_trace_file_ # <<>>
       /\ Last(of_trace_file_) = IF event_cnt_ = 0 THEN "head" ELSE "event"
  /\ rpc = "done" /\ instance # "crashed" =>
       stop_ /\ (of_trace_file_ = <<>> \/ Last(of_trace_file_) = "tail")

\* A token that may follow the last one extends a well-formed file.
LEMMA WellFormedAppend ==
  ASSUME NEW s \in Seq(Token), NEW x \in Token, s # <<>>,
         WellFormed(s), <<Last(s), x>> \in Follows
  PROVE  /\ Append(s, x) \in Seq(Token)
         /\ WellFormed(Append(s, x))
         /\ Append(s, x) # <<>>
         /\ Last(Append(s, x)) = x
<1>1. /\ Append(s, x) \in Seq(Token)
      /\ Append(s, x) # <<>>
      /\ Len(Append(s, x)) = Len(s) + 1
      /\ \A i \in 1 .. Len(s) : Append(s, x)[i] = s[i]
      /\ Append(s, x)[Len(s) + 1] = x
  BY AppendProperties
<1>2. Len(s) \in Nat /\ Len(s) >= 1
  OBVIOUS
<1>3. ASSUME NEW i \in 1 .. Len(Append(s, x)) - 1
      PROVE  <<Append(s, x)[i], Append(s, x)[i + 1]>> \in Follows
  <2>1. CASE i < Len(s)
    <3>1. /\ i \in 1 .. Len(s) - 1 /\ i \in 1 .. Len(s) /\ i + 1 \in 1 .. Len(s)
      BY <1>1, <1>2, <2>1
    <3>2. <<s[i], s[i + 1]>> \in Follows
      BY <3>1 DEF WellFormed
    <3> QED  BY <1>1, <3>1, <3>2
  <2>2. CASE i = Len(s)
    BY <1>1, <1>2, <2>2 DEF Last
  <2> QED  BY <1>1, <1>2, <2>1, <2>2
<1>4. Append(s, x)[1] = "head"
  BY <1>1, <1>2 DEF WellFormed
<1> QED  BY <1>1, <1>3, <1>4 DEF WellFormed, Last

LEMMA FileInit == Init => FileInv
BY DEF Init, FileInv, JsonPrefix, WellFormed

LEMMA FileStep == TypeOK /\ FileInv /\ [Next]_vars => FileInv'
<1> SUFFICES ASSUME TypeOK, FileInv, [Next]_vars PROVE FileInv'
  OBVIOUS
<1> USE DEF FileInv, JsonPrefix, client, file, static, ClientStep, ReportStep
<1>1. ASSUME NEW t \in Thread, Construct(t) PROVE FileInv'
  BY <1>1 DEF Construct
<1>2. ASSUME NEW t \in Thread, \/ Call(t) \/ RusageFails(t) \/ BeforeCutoff(t)
                               \/ TakeStamp(t) \/ Enqueue(t) \/ Exit(t)
      PROVE  FileInv'
  BY <1>2 DEF Call, RusageFails, BeforeCutoff, TakeStamp, Enqueue, Exit
<1>3. CASE OpenFile
  <2>1. WellFormed(<<"head">>) /\ Last(<<"head">>) = "head" /\ <<"head">> # <<>>
    BY DEF WellFormed, Last
  <2>2. /\ rpc = "open" /\ rpc' = "loop" /\ instance' = instance
        /\ of_trace_file_' = <<"head">>
    BY <1>3 DEF OpenFile
  <2>3. event_cnt_' = 0
    BY <1>3 DEF OpenFile
  <2> QED  BY <2>1, <2>2, <2>3
<1>4. CASE OpenFails \/ LoopAgain \/ NothingQueued
  BY <1>4 DEF OpenFails, LoopAgain, NothingQueued
<1>5. CASE LoopEnds
  <2>1. /\ of_trace_file_ \in Seq(Token) /\ of_trace_file_ # <<>> /\ "tail" \in Token
        /\ <<Last(of_trace_file_), "tail">> \in Follows
    BY <1>5 DEF LoopEnds, TypeOK, Token, Follows
  <2> QED  BY <1>5, <2>1, WellFormedAppend DEF LoopEnds
<1>6. ASSUME rpc = "body", NEW e, NEW b, Write(e, b)
      PROVE  /\ WellFormed(of_trace_file_') /\ of_trace_file_' # <<>>
             /\ Last(of_trace_file_') = "event" /\ event_cnt_' # 0
  <2>1. /\ of_trace_file_ \in Seq(Token) /\ of_trace_file_ # <<>> /\ event_cnt_ \in Nat
        /\ "sep" \in Token /\ "event" \in Token
    BY <1>6 DEF TypeOK, Token
  <2>2. /\ Separated \in Seq(Token) /\ Separated # <<>> /\ WellFormed(Separated)
        /\ <<Last(Separated), "event">> \in Follows
    <3>1. CASE event_cnt_ = 0
      BY <1>6, <2>1, <3>1 DEF Separated, Follows
    <3>2. CASE event_cnt_ # 0
      <4>1. <<Last(of_trace_file_), "sep">> \in Follows
        BY <1>6, <3>2 DEF Follows
      <4> QED  BY <2>1, <3>2, <4>1, WellFormedAppend DEF Separated, Follows
    <3> QED  BY <3>1, <3>2
  <2> QED  BY <1>6, <2>1, <2>2, WellFormedAppend DEF Write
<1>7. ASSUME NEW t \in Thread, ReportBegin(t) \/ ReportEnd(t) PROVE FileInv'
  <2>1. /\ rpc = "body" /\ rpc' = "loop" /\ UNCHANGED <<instance, stop_>>
        /\ \E e, b : Write(e, b)
    <3>1. CASE ReportBegin(t)
      BY <3>1 DEF ReportBegin, Write
    <3>2. CASE ReportEnd(t)
      BY <3>2 DEF ReportEnd, Write
    <3> QED  BY <1>7, <3>1, <3>2
  <2>2. /\ WellFormed(of_trace_file_') /\ of_trace_file_' # <<>>
        /\ Last(of_trace_file_') = "event" /\ event_cnt_' # 0
    BY <1>6, <2>1
  <2> QED  BY <2>1, <2>2 DEF Last
<1>8. ASSUME NEW t \in Thread, ReportUnmatched(t) \/ ReportCrashes(t) PROVE FileInv'
  BY <1>8 DEF ReportUnmatched, ReportCrashes, AfterUnmatched
<1>9. CASE Tick \/ Stop
  BY <1>9 DEF Tick, Stop
<1>10. CASE MainReturns \/ DtorJoins
  BY <1>10 DEF MainReturns, DtorJoins, ReportJoined
<1>11. CASE Terminated \/ UNCHANGED vars
  BY <1>11 DEF Terminated, vars
<1> QED
  BY <1>1, <1>2, <1>3, <1>4, <1>5, <1>7, <1>8, <1>9, <1>10, <1>11
     DEF Next, Client, Report

LEMMA FileInvariant == Spec => []FileInv
BY TypeInit, TypeStep, FileInit, FileStep, PTL DEF Spec

\* The file is a prefix of a JSON document at every moment (report, lines 97-138).
THEOREM AlwaysJson == Spec => []JsonPrefix
BY FileInvariant, PTL DEF FileInv

\* After ~Tracer (lines 77-86) the file is complete or was never opened.
THEOREM DestroyedIsComplete == Spec => []CompleteAfterDestruction
<1>1. FileInv => CompleteAfterDestruction
  BY DEF FileInv, CompleteAfterDestruction, Last
<1> QED  BY <1>1, FileInvariant, PTL

\* A call that has its stamp has one event to queue.
StampInv == \A t \in Thread : pc[t] = "stamped" => Len(inflight[t]) = 1

LEMMA JoinedLength ==
  ASSUME NEW S, NEW q \in Seq(S), NEW e \in Seq(S)
  PROVE  Len(q \o e) = Len(q) + Len(e)
OBVIOUS

LEMMA StampStep == TypeOK /\ StampInv /\ [Next]_vars => StampInv'
<1> SUFFICES ASSUME TypeOK, StampInv, [Next]_vars PROVE StampInv'
  OBVIOUS
<1> USE DEF StampInv, TypeOK, client, file, static, ClientStep, ReportStep
<1>1. ASSUME NEW t \in Thread, Construct(t) \/ Call(t) \/ RusageFails(t) \/ BeforeCutoff(t)
                               \/ Enqueue(t) \/ Exit(t)
      PROVE  StampInv'
  BY <1>1 DEF Construct, Call, RusageFails, BeforeCutoff, Enqueue, Exit
<1>2. ASSUME NEW t \in Thread, TakeStamp(t) PROVE StampInv'
  <2>1. PICK e : inflight' = [inflight EXCEPT ![t] = <<e>>]
    BY <1>2 DEF TakeStamp
  <2>2. pc' = [pc EXCEPT ![t] = "stamped"]
    BY <1>2 DEF TakeStamp
  <2>3. Len(<<e>>) = 1
    OBVIOUS
  <2> QED  BY <2>1, <2>2, <2>3
<1>3. CASE Report
  <2>1. inflight' = inflight /\ (pc' = pc \/ pc' = [c \in Thread |-> "exited"])
    BY <1>3 DEF Report, OpenFile, OpenFails, LoopAgain, LoopEnds, NothingQueued, ReportBegin,
                ReportEnd, ReportUnmatched, ReportCrashes, Write
  <2> QED  BY <2>1
<1>4. CASE Tick \/ Stop \/ MainReturns \/ DtorJoins \/ Terminated \/ UNCHANGED vars
  BY <1>4 DEF Tick, Stop, MainReturns, DtorJoins, Terminated, vars
<1> QED  BY <1>1, <1>2, <1>3, <1>4 DEF Next, Client

\* When report() has returned, what a thread has queued or is about to queue grows no
\* more: only a call already past line 145 still queues its event (lines 91-96, 138).
THEOREM ReaderGoneMeansStopped == Spec => NoRecordingUnread
<1>1. TypeOK /\ FileInv /\ StampInv /\ [Next]_vars =>
        [rpc = "done" => \A t \in Thread : Pending(t)' <= Pending(t)]_vars
  <2> SUFFICES ASSUME TypeOK, FileInv, StampInv, [Next]_vars, rpc = "done", NEW t \in Thread
               PROVE  Pending(t)' <= Pending(t)
    OBVIOUS
  <2> USE DEF Pending, client, file, static, ClientStep, ReportStep
  <2>1. event_queue_[t] \in Seq(Event) /\ Len(event_queue_[t]) \in Nat
    BY DEF TypeOK
  <2>2. instance # "crashed" => stop_
    BY DEF FileInv
  <2>3. ASSUME event_queue_' = event_queue_,
               \A u \in Thread : pc'[u] \in {"entered", "stamped"} => pc[u] \in {"entered", "stamped"}
        PROVE  Pending(t)' <= Pending(t)
    BY <2>1, <2>3
  <2>4. ASSUME NEW u \in Thread, Enqueue(u) PROVE Pending(t)' <= Pending(t)
    <3>1. CASE u = t
      <4>1. event_queue_'[t] = event_queue_[t] \o inflight[t] /\ pc'[t] = "idle"
        BY <2>4, <3>1 DEF Enqueue, Queued, TypeOK
      <4>2. inflight[t] \in Seq(Event) /\ Len(inflight[t]) = 1 /\ pc[t] = "stamped"
        BY <2>4, <3>1 DEF Enqueue, StampInv, TypeOK
      <4>3. Len(event_queue_'[t]) = Len(event_queue_[t]) + 1
        <5>1. Len(event_queue_[t] \o inflight[t]) = Len(event_queue_[t]) + Len(inflight[t])
          BY <2>1, <4>2, JoinedLength
        <5> QED  BY <2>1, <4>1, <4>2, <5>1
      <4> QED  BY <2>1, <4>1, <4>2, <4>3
    <3>2. CASE u # t
      <4>1. event_queue_'[t] = event_queue_[t] /\ pc'[t] = pc[t]
        BY <2>4, <3>2 DEF Enqueue, TypeOK
      <4> QED  BY <2>1, <4>1
    <3> QED  BY <3>1, <3>2
  <2>5. ASSUME NEW u \in Thread, \/ Construct(u) \/ Call(u) \/ RusageFails(u)
                                 \/ BeforeCutoff(u) \/ TakeStamp(u) \/ Exit(u)
        PROVE  Pending(t)' <= Pending(t)
    <3>1. event_queue_' = event_queue_
      BY <2>5 DEF Construct, Call, RusageFails, BeforeCutoff, TakeStamp, Exit
    <3>2. \A w \in Thread : pc'[w] \in {"entered", "stamped"} => pc[w] \in {"entered", "stamped"}
      BY <2>2, <2>5 DEF Construct, Call, RusageFails, BeforeCutoff, TakeStamp, Exit, TypeOK
    <3> QED  BY <2>3, <3>1, <3>2
  <2>6. ~Report
    BY DEF Report, OpenFile, OpenFails, LoopAgain, LoopEnds, NothingQueued, ReportBegin,
           ReportEnd, ReportUnmatched, ReportCrashes
  <2>7. CASE Tick \/ Stop \/ MainReturns \/ DtorJoins \/ Terminated \/ UNCHANGED vars
    BY <2>3, <2>7 DEF Tick, Stop, MainReturns, DtorJoins, Terminated, vars
  <2> QED  BY <2>4, <2>5, <2>6, <2>7 DEF Next, Client
<1>2. Init => StampInv
  BY DEF Init, StampInv
<1> QED
  BY <1>1, <1>2, TypeInit, TypeStep, FileInit, FileStep, StampStep, PTL
     DEF Spec, NoRecordingUnread

(***************************************************************************)
(* The end of the recording.  The report thread looks at stop_ once a      *)
(* pass, so what it has still to do is the pass it is in and the tail.     *)
(***************************************************************************)
StepsLeft == CASE rpc \in {"open", "body"} -> 2 [] rpc = "loop" -> 1 [] OTHER -> 0

Started == instance # "none" => rpc # "none"

LEMMA StartedStep == Started /\ [Next]_vars => Started'
<1> SUFFICES ASSUME Started, [Next]_vars PROVE Started'
  OBVIOUS
<1> USE DEF Started, client, file, static, ClientStep, ReportStep
<1>1. ASSUME NEW t \in Thread, Client(t) PROVE Started'
  BY <1>1 DEF Client, Construct, Call, RusageFails, BeforeCutoff, TakeStamp, Enqueue, Exit
<1>2. CASE Report
  BY <1>2 DEF Report, OpenFile, OpenFails, LoopAgain, LoopEnds, NothingQueued, ReportBegin,
              ReportEnd, ReportUnmatched, ReportCrashes, AfterUnmatched
<1>3. CASE Tick \/ Stop \/ MainReturns \/ DtorJoins \/ Terminated \/ UNCHANGED vars
  BY <1>3 DEF Tick, Stop, MainReturns, DtorJoins, Terminated, vars
<1> QED  BY <1>1, <1>2, <1>3 DEF Next

\* Every step of the report thread brings it nearer its end when recording is stopped.
LEMMA ReportGoesOn ==
  ASSUME stop_, Report
  PROVE  /\ stop_' /\ instance' \in {instance, "crashed"}
         /\ StepsLeft' \in 0 .. 2 /\ StepsLeft' < StepsLeft
<1> USE DEF ReportStep
<1>1. /\ stop_' /\ instance' \in {instance, "crashed"}
      /\ \/ rpc \in {"open", "body"} /\ rpc' \in {"loop", "done"}
         \/ rpc = "loop" /\ rpc' = "done"
  <2>1. CASE OpenFile \/ OpenFails
    BY <2>1 DEF OpenFile, OpenFails
  <2>2. CASE LoopAgain \/ LoopEnds \/ NothingQueued
    BY <2>2 DEF LoopAgain, LoopEnds, NothingQueued
  <2>3. ASSUME NEW t \in Thread, ReportBegin(t) PROVE <1>1!:
    BY <2>3 DEF ReportBegin, Write
  <2>4. ASSUME NEW t \in Thread, ReportEnd(t) PROVE <1>1!:
    BY <2>4 DEF ReportEnd, Write
  <2>5. ASSUME NEW t \in Thread, ReportUnmatched(t) \/ ReportCrashes(t) PROVE <1>1!:
    BY <2>5 DEF ReportUnmatched, ReportCrashes, AfterUnmatched
  <2> QED  BY <2>1, <2>2, <2>3, <2>4, <2>5 DEF Report
<1> QED  BY <1>1 DEF StepsLeft

\* Recording that has been stopped is never taken up again, and from then on the report
\* thread has at most two steps to take, however much is queued and whatever the clients
\* still queue: so long the destructor (lines 77-86) has to wait in its join.
StoppedIsNearDone ==
  [][instance # "none" /\ stop_ =>
       /\ stop_' /\ instance' # "none"
       /\ StepsLeft \in 0 .. 2 /\ (StepsLeft = 0 <=> rpc = "done")
       /\ StepsLeft' <= StepsLeft
       /\ Report => StepsLeft' < StepsLeft]_vars

\* The safety half of DtorReturns (lines 77-86, 103-138).
THEOREM JoinIsShort == Spec => StoppedIsNearDone
<1>1. Init => Started
  BY DEF Init, Started
<1>2. TypeOK /\ Started /\ [Next]_vars =>
        [instance # "none" /\ stop_ =>
           /\ stop_' /\ instance' # "none"
           /\ StepsLeft \in 0 .. 2 /\ (StepsLeft = 0 <=> rpc = "done")
           /\ StepsLeft' <= StepsLeft
           /\ Report => StepsLeft' < StepsLeft]_vars
  <2> SUFFICES ASSUME TypeOK, Started, [Next]_vars, instance # "none", stop_
               PROVE  /\ stop_' /\ instance' # "none"
                      /\ StepsLeft \in 0 .. 2 /\ (StepsLeft = 0 <=> rpc = "done")
                      /\ StepsLeft' <= StepsLeft
                      /\ Report => StepsLeft' < StepsLeft
    OBVIOUS
  <2>1. StepsLeft \in 0 .. 2 /\ (StepsLeft = 0 <=> rpc = "done")
    BY DEF TypeOK, Started, StepsLeft
  <2>2. CASE Report
    <3>1. StepsLeft' \in 0 .. 2 /\ StepsLeft' < StepsLeft
      BY <2>2, ReportGoesOn
    <3>2. stop_' /\ instance' # "none"
      BY <2>2, ReportGoesOn
    <3>3. StepsLeft' <= StepsLeft
      BY <2>1, <3>1
    <3> QED  BY <2>1, <3>1, <3>2, <3>3
  <2>3. CASE ~Report
    <3>1. stop_' /\ instance' # "none" /\ rpc' = rpc
      <4> USE DEF client, file, static, ClientStep
      <4>1. ASSUME NEW t \in Thread, Client(t) PROVE <3>1!:
        BY <4>1 DEF Client, Construct, Call, RusageFails, BeforeCutoff, TakeStamp, Enqueue, Exit
      <4>2. CASE Tick \/ Stop \/ MainReturns \/ DtorJoins \/ Terminated \/ UNCHANGED vars
        BY <4>2 DEF Tick, Stop, MainReturns, DtorJoins, Terminated, vars
      <4> QED  BY <2>3, <4>1, <4>2 DEF Next
    <3>2. StepsLeft' = StepsLeft
      BY <3>1 DEF StepsLeft
    <3> QED  BY <2>1, <2>3, <3>1, <3>2
  <2> QED  BY <2>2, <2>3
<1> QED  BY <1>1, <1>2, TypeInit, TypeStep, StartedStep, PTL DEF Spec, StoppedIsNearDone
=============================================================================
