-------------------------- MODULE TracerRefinement --------------------------
(***************************************************************************)
(* Proofs that Tracer keeps its promise: TraceLog is implemented when keys *)
(* identify their thread and name, and the events of a thread are written  *)
(* in the order of their stamps while the clock sum does not wrap.         *)
(***************************************************************************)
EXTENDS TracerProofs

(***************************************************************************)
(* What is in the sub-queue of a thread, or on its way there, is that      *)
(* thread's own.                                                           *)
(***************************************************************************)
QueueInv ==
  \A t \in Thread :
    /\ \A i \in DOMAIN event_queue_[t] : event_queue_[t][i].tid = t
    /\ pc[t] = "stamped" => \E e \in Event : e.tid = t /\ inflight[t] = <<e>>

LEMMA QueueInit == Init => QueueInv
<1> SUFFICES ASSUME Init PROVE QueueInv
  OBVIOUS
<1>1. ASSUME NEW t \in Thread PROVE DOMAIN event_queue_[t] = {} /\ pc[t] # "stamped"
  BY DEF Init
<1> QED  BY <1>1 DEF QueueInv

\* Head and tail of a non-empty queue, as used by every step of the report thread.
LEMMA DequeueFacts ==
  ASSUME TypeOK, NEW t \in Thread, Dequeue(t)
  PROVE  /\ event_queue_[t] # <<>>
         /\ Head(event_queue_[t]) \in Event
         /\ Head(event_queue_[t]) = event_queue_[t][1]
         /\ 1 \in DOMAIN event_queue_[t]
         /\ \A u \in Thread \ {t} : event_queue_'[u] = event_queue_[u]
         /\ event_queue_'[t] = Tail(event_queue_[t])
         /\ \A i \in DOMAIN event_queue_'[t] :
              /\ i + 1 \in DOMAIN event_queue_[t]
              /\ event_queue_'[t][i] = event_queue_[t][i + 1]
<1>1. event_queue_[t] \in Seq(Event) /\ event_queue_[t] # <<>>
  BY DEF TypeOK, Dequeue
<1>2. /\ event_queue_'[t] = Tail(event_queue_[t])
      /\ \A u \in Thread \ {t} : event_queue_'[u] = event_queue_[u]
  BY DEF TypeOK, Dequeue
<1>3. /\ Head(event_queue_[t]) \in Event
      /\ Tail(event_queue_[t]) \in Seq(Event)
      /\ Len(Tail(event_queue_[t])) = Len(event_queue_[t]) - 1
      /\ \A i \in 1 .. Len(Tail(event_queue_[t])) :
           Tail(event_queue_[t])[i] = event_queue_[t][i + 1]
  BY <1>1, HeadTailProperties
<1>4. Len(event_queue_[t]) \in Nat /\ Len(event_queue_[t]) >= 1
  BY <1>1
<1>5. DOMAIN event_queue_[t] = 1 .. Len(event_queue_[t])
  BY <1>1
<1>6. DOMAIN Tail(event_queue_[t]) = 1 .. Len(event_queue_[t]) - 1
  BY <1>3
<1>7. Head(event_queue_[t]) = event_queue_[t][1]
  BY <1>1
<1> QED  BY <1>1, <1>2, <1>3, <1>4, <1>5, <1>6, <1>7

\* The report thread dequeues, or leaves the queues alone.
LEMMA ReportQueues ==
  ASSUME NEW t \in Thread,
         ReportBegin(t) \/ ReportEnd(t) \/ ReportUnmatched(t)
  PROVE  Dequeue(t) /\ UNCHANGED <<pc, inflight, instance, begin_wall_offset_, clock>>
<1>1. CASE ReportBegin(t)
  BY <1>1 DEF ReportBegin, ReportStep, Write
<1>2. CASE ReportEnd(t)
  BY <1>2 DEF ReportEnd, ReportStep, Write
<1>3. CASE ReportUnmatched(t)
  BY <1>3 DEF ReportUnmatched, ReportStep
<1> QED  BY <1>1, <1>2, <1>3

\* Enqueue appends the stamped event.
LEMMA EnqueueFacts ==
  ASSUME TypeOK, QueueInv, NEW t \in Thread, Enqueue(t)
  PROVE  \E e \in Event :
           /\ e.tid = t /\ inflight[t] = <<e>>
           /\ event_queue_' = [event_queue_ EXCEPT ![t] = Append(@, e)]
           /\ \A u \in Thread \ {t} : event_queue_'[u] = event_queue_[u]
           /\ \A i \in DOMAIN event_queue_'[t] :
                \/ i \in DOMAIN event_queue_[t] /\ event_queue_'[t][i] = event_queue_[t][i]
                \/ i = Len(event_queue_[t]) + 1 /\ event_queue_'[t][i] = e
<1>1. PICK e \in Event : e.tid = t /\ inflight[t] = <<e>>
  BY DEF QueueInv, Enqueue, ClientStep
<1>2. event_queue_[t] \in Seq(Event)
  BY DEF TypeOK
<1>3. event_queue_[t] \o <<e>> = Append(event_queue_[t], e)
  BY <1>2, AppendIsConcat
<1>4. event_queue_' = [event_queue_ EXCEPT ![t] = Append(@, e)]
  BY <1>1, <1>3 DEF Enqueue, Queued, TypeOK
<1>5. event_queue_'[t] = Append(event_queue_[t], e)
  BY <1>4 DEF TypeOK
<1>6. /\ Append(event_queue_[t], e) \in Seq(Event)
      /\ Len(Append(event_queue_[t], e)) = Len(event_queue_[t]) + 1
      /\ \A i \in 1 .. Len(event_queue_[t]) :
           Append(event_queue_[t], e)[i] = event_queue_[t][i]
      /\ Append(event_queue_[t], e)[Len(event_queue_[t]) + 1] = e
  BY <1>2, AppendProperties
<1>7. ASSUME NEW i \in DOMAIN event_queue_'[t]
      PROVE  \/ i \in DOMAIN event_queue_[t] /\ event_queue_'[t][i] = event_queue_[t][i]
             \/ i = Len(event_queue_[t]) + 1 /\ event_queue_'[t][i] = e
  <2>1. i \in 1 .. Len(event_queue_[t]) + 1
    BY <1>5, <1>6
  <2>2. DOMAIN event_queue_[t] = 1 .. Len(event_queue_[t]) /\ Len(event_queue_[t]) \in Nat
    BY <1>2
  <2> QED  BY <1>5, <1>6, <2>1, <2>2
<1>8. \A u \in Thread \ {t} : event_queue_'[u] = event_queue_[u]
  BY <1>4 DEF TypeOK
<1> QED  BY <1>1, <1>4, <1>7, <1>8

LEMMA QueueStep == TypeOK /\ QueueInv /\ [Next]_vars => QueueInv'
<1> SUFFICES ASSUME TypeOK, QueueInv, [Next]_vars PROVE QueueInv'
  OBVIOUS
<1> USE DEF client, file, static, ClientStep, ReportStep
<1>1. ASSUME NEW t \in Thread, Construct(t) PROVE QueueInv'
  BY <1>1 DEF Construct, QueueInv
<1>2. ASSUME NEW t \in Thread,
             Call(t) \/ RusageFails(t) \/ BeforeCutoff(t) \/ Exit(t)
      PROVE  QueueInv'
  BY <1>2 DEF Call, RusageFails, BeforeCutoff, Exit, QueueInv, TypeOK
<1>3. ASSUME NEW t \in Thread, TakeStamp(t) PROVE QueueInv'
  <2>1. PICK n \in Tag, p \in Phase, a \in Args :
          inflight' = [inflight EXCEPT ![t] =
            <<[tid |-> t, name |-> n, ph |-> p, args |-> a,
               ts |-> Nsec(clock) - begin_wall_offset_]>>]
    BY <1>3 DEF TakeStamp
  <2>2. Nsec(clock) - begin_wall_offset_ \in 0 .. 2 * ClockHalf - 1
    <3>1. Nsec(clock) \in -ClockHalf .. ClockHalf - 1
      BY NsecRange DEF TypeOK
    <3>2. Nsec(clock) >= begin_wall_offset_
      BY <1>3, <3>1, TracerAssumption DEF TakeStamp, CutOff, TypeOK
    <3> QED  BY <3>1, <3>2, TracerAssumption DEF TypeOK
  <2>3. \E e \in Event : e.tid = t /\ inflight'[t] = <<e>>
    BY <2>1, <2>2 DEF Event, TypeOK
  <2> QED  BY <1>3, <2>1, <2>3 DEF TakeStamp, QueueInv, TypeOK
<1>4. ASSUME NEW t \in Thread, Enqueue(t) PROVE QueueInv'
  <2>1. \A i \in DOMAIN event_queue_'[t] : event_queue_'[t][i].tid = t
    BY <1>4, EnqueueFacts DEF QueueInv
  <2> QED  BY <1>4, <2>1, EnqueueFacts DEF Enqueue, QueueInv, TypeOK
<1>5. CASE OpenFile \/ OpenFails \/ LoopAgain \/ LoopEnds \/ NothingQueued
  BY <1>5 DEF OpenFile, OpenFails, LoopAgain, LoopEnds, NothingQueued, QueueInv
<1>6. ASSUME NEW t \in Thread,
             ReportBegin(t) \/ ReportEnd(t) \/ ReportUnmatched(t)
      PROVE  QueueInv'
  BY <1>6, ReportQueues, DequeueFacts DEF QueueInv
<1>7. ASSUME NEW t \in Thread, ReportCrashes(t) PROVE QueueInv'
  BY <1>7 DEF ReportCrashes, QueueInv
<1>8. CASE Tick \/ Stop \/ MainReturns \/ DtorJoins
  BY <1>8 DEF Tick, Stop, MainReturns, DtorJoins, QueueInv
<1>9. CASE Terminated \/ UNCHANGED vars
  BY <1>9 DEF Terminated, vars, QueueInv
<1> QED
  BY <1>1, <1>2, <1>3, <1>4, <1>5, <1>6, <1>7, <1>8, <1>9 DEF Next, Client, Report

(***************************************************************************)
(* Pairing.  event_map_ holds, under each key, the last begin event that   *)
(* the file has of it; with distinct keys that is the last begin event of  *)
(* the same thread and name.                                               *)
(***************************************************************************)
MapInv ==
  /\ \A k \in DOMAIN event_map_ :
       /\ Key(event_map_[k]) = k /\ event_map_[k].ph # "E"
       /\ \E i \in DOMAIN entries :
            /\ entries[i].ev = event_map_[k]
            /\ \A j \in DOMAIN entries : j > i => ~IsBegin(j, event_map_[k])
  /\ \A i \in DOMAIN entries :
       entries[i].ev.ph # "E" => Key(entries[i].ev) \in DOMAIN event_map_
  /\ OwnBegin

\* Under distinct keys a key stands for one thread and one name.
LEMMA KeyIdentifies ==
  ASSUME KeysDistinct, NEW d \in Event, NEW e \in Event
  PROVE  Key(d) = Key(e) <=> d.tid = e.tid /\ d.name = e.name
BY DEF KeysDistinct, Key, Event

LEMMA MapInit == Init => MapInv
<1> SUFFICES ASSUME Init PROVE MapInv
  OBVIOUS
<1>1. DOMAIN event_map_ = {} /\ DOMAIN entries = {}
  BY DEF Init
<1> QED  BY <1>1 DEF MapInv, OwnBegin

\* What Write appends to entries.
LEMMA WriteFacts ==
  ASSUME TypeOK, NEW e \in Event, NEW b \in Event, Write(e, b)
  PROVE  /\ entries' = Append(entries, [ev |-> e, from |-> b])
         /\ Len(entries) \in Nat
         /\ DOMAIN entries = 1 .. Len(entries)
         /\ DOMAIN entries' = 1 .. Len(entries) + 1
         /\ \A i \in DOMAIN entries : entries'[i] = entries[i] /\ entries[i].ev \in Event
         /\ entries'[Len(entries) + 1] = [ev |-> e, from |-> b]
<1>1. entries \in Seq([ev : Event, from : Event])
  BY DEF TypeOK
<1>2. [ev |-> e, from |-> b] \in [ev : Event, from : Event]
  OBVIOUS
<1>3. entries' = Append(entries, [ev |-> e, from |-> b])
  BY DEF Write
<1>4. Len(entries) \in Nat /\ DOMAIN entries = 1 .. Len(entries)
  BY <1>1
<1>5. /\ entries' \in Seq([ev : Event, from : Event])
      /\ Len(entries') = Len(entries) + 1
      /\ \A i \in 1 .. Len(entries) : entries'[i] = entries[i]
      /\ entries'[Len(entries) + 1] = [ev |-> e, from |-> b]
  BY <1>1, <1>2, <1>3, AppendProperties
<1>6. DOMAIN entries' = 1 .. Len(entries) + 1
  BY <1>5
<1>7. ASSUME NEW i \in 1 .. Len(entries) PROVE entries[i].ev \in Event
  <2>1. entries[i] \in [ev : Event, from : Event]
    BY <1>1, ElementOfSeq
  <2> QED  BY <2>1
<1>8. \A i \in DOMAIN entries : entries'[i] = entries[i] /\ entries[i].ev \in Event
  BY <1>4, <1>5, <1>7
<1> QED  BY <1>3, <1>4, <1>5, <1>6, <1>8

\* An entry with its own figures, or those of the latest begin, keeps OwnBegin.
LEMMA OwnBeginGrows ==
  ASSUME OwnBegin, Len(entries) \in Nat, DOMAIN entries = 1 .. Len(entries),
         DOMAIN entries' = 1 .. Len(entries) + 1,
         \A i \in DOMAIN entries : entries'[i] = entries[i],
         NEW e, NEW b, entries'[Len(entries) + 1] = [ev |-> e, from |-> b],
         \/ e.ph # "E" /\ b = e
         \/ /\ e.ph = "E"
            /\ \E j \in 1 .. Len(entries) :
                 /\ IsBegin(j, e) /\ b = entries[j].ev
                 /\ \A k \in j + 1 .. Len(entries) : ~IsBegin(k, e)
  PROVE  OwnBegin'
<1>1. ASSUME NEW j \in 1 .. Len(entries), NEW d PROVE IsBegin(j, d)' <=> IsBegin(j, d)
  BY DEF IsBegin
<1>2. ASSUME NEW i \in DOMAIN entries'
      PROVE  \/ entries'[i].ev.ph # "E" /\ entries'[i].from = entries'[i].ev
             \/ /\ entries'[i].ev.ph = "E"
                /\ \E j \in 1 .. i - 1 :
                     /\ IsBegin(j, entries[i].ev)' /\ entries'[i].from = entries'[j].ev
                     /\ \A k \in j + 1 .. i - 1 : ~IsBegin(k, entries[i].ev)'
  <2>1. CASE i \in DOMAIN entries
    <3>1. entries'[i] = entries[i] /\ i \in 1 .. Len(entries)
      BY <2>1
    <3>2. CASE entries[i].ev.ph # "E"
      BY <2>1, <3>1, <3>2 DEF OwnBegin
    <3>3. CASE entries[i].ev.ph = "E"
      <4>1. PICK j \in 1 .. i - 1 :
              /\ IsBegin(j, entries[i].ev) /\ entries[i].from = entries[j].ev
              /\ \A k \in j + 1 .. i - 1 : ~IsBegin(k, entries[i].ev)
        BY <2>1, <3>3 DEF OwnBegin
      <4>2. j \in DOMAIN entries /\ \A k \in j + 1 .. i - 1 : k \in DOMAIN entries
        BY <3>1
      <4>3. IsBegin(j, entries[i].ev)'
        BY <3>1, <4>1, <4>2 DEF IsBegin
      <4>4. \A k \in j + 1 .. i - 1 : ~IsBegin(k, entries[i].ev)'
        BY <3>1, <4>1, <4>2 DEF IsBegin
      <4> QED  BY <3>1, <3>3, <4>1, <4>2, <4>3, <4>4
    <3> QED  BY <3>2, <3>3
  <2>2. CASE i = Len(entries) + 1
    <3>1. entries'[i].ev = e /\ entries'[i].from = b
      BY <2>2
    <3>2. CASE e.ph # "E"
      BY <3>1, <3>2
    <3>3. CASE e.ph = "E"
      <4>1. PICK j \in 1 .. Len(entries) :
              /\ IsBegin(j, e) /\ b = entries[j].ev
              /\ \A k \in j + 1 .. Len(entries) : ~IsBegin(k, e)
        BY <3>3
      <4>2. i - 1 = Len(entries)
        BY <2>2
      <4>3. IsBegin(j, entries[i].ev)'
        BY <3>1, <4>1 DEF IsBegin
      <4>4. \A k \in j + 1 .. i - 1 : k \in DOMAIN entries /\ ~IsBegin(k, entries[i].ev)'
        BY <3>1, <4>1, <4>2 DEF IsBegin
      <4> QED  BY <3>1, <3>3, <4>1, <4>2, <4>3, <4>4
    <3> QED  BY <3>2, <3>3
  <2> QED  BY <2>1, <2>2
<1> QED  BY <1>2 DEF OwnBegin, IsBegin

LEMMA MapStep == KeysDistinct /\ TypeOK /\ MapInv /\ [Next]_vars => MapInv'
<1> SUFFICES ASSUME KeysDistinct, TypeOK, MapInv, [Next]_vars PROVE MapInv'
  OBVIOUS
<1>1. CASE UNCHANGED <<event_map_, entries>>
  <2>1. event_map_' = event_map_ /\ entries' = entries
    BY <1>1
  <2>2. \A i, k : k \in DOMAIN event_map_ =>
                 (IsBegin(i, event_map_[k])' <=> IsBegin(i, event_map_[k]))
    BY <2>1 DEF IsBegin
  <2>3. OwnBegin'
    BY <2>1 DEF MapInv, OwnBegin, IsBegin
  <2> QED  BY <2>1, <2>2, <2>3 DEF MapInv
<1>2. ASSUME NEW t \in Thread, ReportBegin(t) PROVE MapInv'
  <2> DEFINE e == Head(event_queue_[t])
             n == Len(entries) + 1
  <2>1. e \in Event /\ e.ph # "E" /\ Write(e, e)
    BY <1>2, DequeueFacts DEF ReportBegin
  <2>2. /\ DOMAIN event_map_' = DOMAIN event_map_ \cup {Key(e)}
        /\ event_map_'[Key(e)] = e
        /\ \A k \in DOMAIN event_map_ : k # Key(e) => event_map_'[k] = event_map_[k]
    BY <1>2 DEF ReportBegin, Remember
  <2> HIDE DEF e
  <2>3. /\ Len(entries) \in Nat
        /\ DOMAIN entries = 1 .. Len(entries)
        /\ DOMAIN entries' = 1 .. n
        /\ \A i \in DOMAIN entries : entries'[i] = entries[i] /\ entries[i].ev \in Event
        /\ entries'[n] = [ev |-> e, from |-> e]
    BY <2>1, WriteFacts
  <2>4. ASSUME NEW k \in DOMAIN event_map_'
        PROVE  /\ Key(event_map_'[k]) = k /\ event_map_'[k].ph # "E"
               /\ \E i \in DOMAIN entries' :
                    /\ entries'[i].ev = event_map_'[k]
                    /\ \A j \in DOMAIN entries' : j > i => ~IsBegin(j, event_map_[k])'
    <3>1. CASE k = Key(e)
      BY <2>1, <2>2, <2>3, <3>1
    <3>2. CASE k # Key(e)
      <4>1. /\ k \in DOMAIN event_map_ /\ event_map_'[k] = event_map_[k]
            /\ event_map_[k] \in Event
        BY <2>2, <3>2 DEF TypeOK
      <4>2. PICK i \in DOMAIN entries :
              /\ entries[i].ev = event_map_[k]
              /\ \A j \in DOMAIN entries : j > i => ~IsBegin(j, event_map_[k])
        BY <4>1 DEF MapInv
      <4>3. Key(event_map_[k]) # Key(e)
        BY <3>2, <4>1 DEF MapInv
      <4>4. ~(event_map_[k].tid = e.tid /\ event_map_[k].name = e.name)
        BY <2>1, <4>1, <4>3, KeyIdentifies
      <4>5. \A j \in DOMAIN entries' : j > i => ~IsBegin(j, event_map_[k])'
        BY <2>3, <4>1, <4>2, <4>4 DEF IsBegin
      <4> QED  BY <2>3, <4>1, <4>2, <4>5 DEF MapInv
    <3> QED  BY <3>1, <3>2
  <2>5. ASSUME NEW i \in DOMAIN entries', entries'[i].ev.ph # "E"
        PROVE  Key(entries'[i].ev) \in DOMAIN event_map_'
    BY <2>2, <2>3, <2>5 DEF MapInv
  <2>6. OwnBegin'
    BY <2>1, <2>3, OwnBeginGrows DEF MapInv
  <2> QED  BY <2>4, <2>5, <2>6 DEF MapInv
<1>3. ASSUME NEW t \in Thread, ReportEnd(t) PROVE MapInv'
  <2> DEFINE e == Head(event_queue_[t])
             n == Len(entries) + 1
             b == event_map_[Key(e)]
  <2>1. /\ e \in Event /\ e.ph = "E" /\ Write(e, b) /\ event_map_' = event_map_
        /\ Key(e) \in DOMAIN event_map_
    BY <1>3, DequeueFacts DEF ReportEnd, Matched
  <2>2. b \in Event /\ b.tid = e.tid /\ b.name = e.name /\ b.ph # "E"
    BY <2>1, KeyIdentifies DEF MapInv, TypeOK
  <2> HIDE DEF e, b
  <2>3. /\ Len(entries) \in Nat
        /\ DOMAIN entries = 1 .. Len(entries)
        /\ DOMAIN entries' = 1 .. n
        /\ \A i \in DOMAIN entries : entries'[i] = entries[i]
        /\ entries'[n] = [ev |-> e, from |-> b]
    BY <2>1, <2>2, WriteFacts
  <2>4. ASSUME NEW k \in DOMAIN event_map_
        PROVE  /\ Key(event_map_[k]) = k /\ event_map_[k].ph # "E"
               /\ \E i \in DOMAIN entries' :
                    /\ entries'[i].ev = event_map_[k]
                    /\ \A j \in DOMAIN entries' : j > i => ~IsBegin(j, event_map_[k])'
    <3>1. PICK i \in DOMAIN entries :
            /\ entries[i].ev = event_map_[k]
            /\ \A j \in DOMAIN entries : j > i => ~IsBegin(j, event_map_[k])
      BY DEF MapInv
    <3>2. \A j \in DOMAIN entries' : j > i => ~IsBegin(j, event_map_[k])'
      BY <2>1, <2>3, <3>1 DEF IsBegin
    <3> QED  BY <2>3, <3>1, <3>2 DEF MapInv
  <2>5. ASSUME NEW i \in DOMAIN entries', entries'[i].ev.ph # "E"
        PROVE  Key(entries'[i].ev) \in DOMAIN event_map_
    BY <2>1, <2>3, <2>5 DEF MapInv
  <2>6. OwnBegin'
    <3>1. PICK j \in DOMAIN entries :
            /\ entries[j].ev = b
            /\ \A k \in DOMAIN entries : k > j => ~IsBegin(k, b)
      BY <2>1 DEF MapInv, b
    <3>2. IsBegin(j, e) /\ \A k \in j + 1 .. n - 1 : ~IsBegin(k, e)
      BY <2>2, <2>3, <3>1 DEF IsBegin
    <3> QED  BY <2>1, <2>3, <3>1, <3>2, OwnBeginGrows DEF MapInv
  <2> QED  BY <2>1, <2>4, <2>5, <2>6 DEF MapInv
<1>4. \/ UNCHANGED <<event_map_, entries>>
      \/ \E t \in Thread : ReportBegin(t) \/ ReportEnd(t)
  BY DEF Next, Client, Report, client, file, static, vars, ClientStep, ReportStep,
         Construct, Call, RusageFails, BeforeCutoff, TakeStamp, Enqueue, Exit,
         OpenFile, OpenFails, LoopAgain, LoopEnds, NothingQueued, ReportUnmatched,
         ReportCrashes, Tick, Stop, MainReturns, DtorJoins, Terminated
<1> QED  BY <1>1, <1>2, <1>3, <1>4

LEMMA MapInvariant == KeysDistinct => (Spec => [](TypeOK /\ MapInv))
<1> SUFFICES ASSUME KeysDistinct PROVE Spec => [](TypeOK /\ MapInv)
  OBVIOUS
<1>1. TypeOK /\ MapInv /\ [Next]_vars => MapInv'
  BY MapStep
<1> QED  BY <1>1, TypeInit, TypeStep, MapInit, PTL DEF Spec

\* Every "E" event of the file carries the figures of the latest begin event of its own
\* thread and name before it (lines 105-121), if no two threads and names share a key.
THEOREM EndsOwnSpan == KeysDistinct => (Spec => []OwnBegin)
BY MapInvariant, PTL DEF MapInv

(***************************************************************************)
(* Refinement.  The abstract pending[t] is the sub-queue of t, the file is *)
(* closed when report() has returned.                                      *)
(***************************************************************************)
LEMMA PromiseInit == Init => Promise!Init
BY DEF Init, Promise!Init

\* Both pairings name the same begin event.
LEMMA SameBegin ==
  ASSUME KeysDistinct, TypeOK, MapInv, NEW e \in Event
  PROVE  /\ Key(e) \in DOMAIN event_map_ =>
              \E i \in DOMAIN entries : /\ Promise!IsLastBegin(i, e)
                                       /\ entries[i].ev = event_map_[Key(e)]
         /\ Key(e) \notin DOMAIN event_map_ =>
              \A i \in DOMAIN entries : ~Promise!IsLastBegin(i, e)
<1> DEFINE b == event_map_[Key(e)]
<1>1. ASSUME Key(e) \in DOMAIN event_map_
      PROVE  \E i \in DOMAIN entries : Promise!IsLastBegin(i, e) /\ entries[i].ev = b
  <2>1. b \in Event /\ Key(b) = Key(e) /\ b.ph # "E"
    BY <1>1 DEF MapInv, TypeOK
  <2>2. b.tid = e.tid /\ b.name = e.name
    BY <2>1, KeyIdentifies
  <2>3. PICK i \in DOMAIN entries :
          /\ entries[i].ev = b
          /\ \A j \in DOMAIN entries : j > i => ~IsBegin(j, b)
    BY <1>1 DEF MapInv
  <2>4. Promise!IsLastBegin(i, e)
    BY <2>1, <2>2, <2>3 DEF Promise!IsLastBegin, IsBegin
  <2> QED  BY <2>3, <2>4
<1>2. ASSUME Key(e) \notin DOMAIN event_map_, NEW i \in DOMAIN entries,
             Promise!IsLastBegin(i, e)
      PROVE  FALSE
  <2>1. /\ entries[i].ev.ph # "E"
        /\ entries[i].ev.tid = e.tid /\ entries[i].ev.name = e.name
    BY <1>2 DEF Promise!IsLastBegin
  <2>2. Key(entries[i].ev) \in DOMAIN event_map_
    BY <2>1 DEF MapInv
  <2> QED  BY <1>2, <2>1, <2>2 DEF Key
<1> QED  BY <1>1, <1>2

LEMMA PromiseStep ==
  ASSUME KeysDistinct, TypeOK, FileInv, QueueInv, MapInv, [Next]_vars
  PROVE  [Promise!Next]_(Promise!vars)
<1> USE DEF client, file, static, ClientStep, ReportStep
<1>1. ASSUME UNCHANGED <<event_queue_, entries>>, (rpc' = "done") <=> (rpc = "done")
      PROVE  UNCHANGED Promise!vars
  BY <1>1 DEF Promise!vars
<1>2. ASSUME UNCHANGED <<event_queue_, entries>>, rpc # "done", rpc' = "done"
      PROVE  Promise!Next
  BY <1>2 DEF Promise!Next, Promise!Close
<1>3. ASSUME NEW t \in Thread, Construct(t) PROVE UNCHANGED Promise!vars
  BY <1>1, <1>3 DEF Construct, FileInv
<1>4. ASSUME NEW t \in Thread, \/ Call(t) \/ RusageFails(t) \/ BeforeCutoff(t)
                               \/ TakeStamp(t) \/ Exit(t)
      PROVE  UNCHANGED Promise!vars
  BY <1>1, <1>4 DEF Call, RusageFails, BeforeCutoff, TakeStamp, Exit
<1>5. ASSUME NEW t \in Thread, Enqueue(t) PROVE Promise!Next
  <2>1. \E e \in Event : e.tid = t /\ event_queue_' = [event_queue_ EXCEPT ![t] = Append(@, e)]
    BY <1>5, EnqueueFacts
  <2>2. entries' = entries /\ rpc' = rpc
    BY <1>5 DEF Enqueue
  <2>3. Promise!Record(t)
    BY <2>1, <2>2 DEF Promise!Record
  <2> QED  BY <2>3 DEF Promise!Next
<1>6. CASE OpenFile \/ LoopAgain \/ NothingQueued
  BY <1>1, <1>6 DEF OpenFile, LoopAgain, NothingQueued
<1>7. CASE OpenFails \/ LoopEnds
  BY <1>2, <1>7 DEF OpenFails, LoopEnds
<1>8. ASSUME NEW t \in Thread, ReportCrashes(t) PROVE Promise!Next
  BY <1>2, <1>8 DEF ReportCrashes
<1>9. ASSUME NEW t \in Thread,
             ReportBegin(t) \/ ReportEnd(t) \/ ReportUnmatched(t)
      PROVE  /\ Promise!Take(t)
             /\ Head(event_queue_[t]) \in Event
  <2>1. Dequeue(t)
    BY <1>9, ReportQueues
  <2>2. rpc = "body" /\ rpc' = "loop"
    <3>1. CASE ReportBegin(t)
      BY <3>1 DEF ReportBegin
    <3>2. CASE ReportEnd(t)
      BY <3>2 DEF ReportEnd
    <3>3. CASE ReportUnmatched(t)
      BY <3>3 DEF ReportUnmatched, AfterUnmatched
    <3> QED  BY <1>9, <3>1, <3>2, <3>3
  <2>3. Promise!Take(t)
    BY <2>1, <2>2 DEF Promise!Take, Dequeue
  <2> QED  BY <2>1, <2>3, DequeueFacts
<1>10. ASSUME NEW t \in Thread, ReportBegin(t) PROVE Promise!Next
  <2>1. Promise!WriteBegin(t)
    BY <1>9, <1>10 DEF ReportBegin, Write, Promise!WriteBegin
  <2> QED  BY <2>1 DEF Promise!Next
<1>11. ASSUME NEW t \in Thread, ReportEnd(t) PROVE Promise!Next
  <2> DEFINE e == Head(event_queue_[t])
  <2>1. /\ e \in Event /\ e.ph = "E" /\ Key(e) \in DOMAIN event_map_
        /\ entries' = Append(entries, [ev |-> e, from |-> event_map_[Key(e)]])
    BY <1>9, <1>11 DEF ReportEnd, Matched, Write
  <2>2. \E i \in DOMAIN entries : /\ Promise!IsLastBegin(i, e)
                                  /\ entries[i].ev = event_map_[Key(e)]
    BY <2>1, SameBegin
  <2>3. Promise!WriteEnd(t)
    BY <1>9, <1>11, <2>1, <2>2 DEF Promise!WriteEnd
  <2> QED  BY <2>3 DEF Promise!Next
<1>12. ASSUME NEW t \in Thread, ReportUnmatched(t) PROVE Promise!Next
  <2> DEFINE e == Head(event_queue_[t])
  <2>1. /\ e \in Event /\ e.ph = "E" /\ Key(e) \notin DOMAIN event_map_
        /\ entries' = entries
    BY <1>9, <1>12 DEF ReportUnmatched, Matched
  <2>2. \A i \in DOMAIN entries : ~Promise!IsLastBegin(i, e)
    BY <2>1, SameBegin
  <2>3. Promise!LeaveOut(t)
    BY <1>9, <1>12, <2>1, <2>2 DEF Promise!LeaveOut
  <2> QED  BY <2>3 DEF Promise!Next
<1>13. CASE Tick \/ Stop \/ MainReturns \/ DtorJoins
  BY <1>1, <1>13 DEF Tick, Stop, MainReturns, DtorJoins
<1>14. CASE Terminated \/ UNCHANGED vars
  BY <1>1, <1>14 DEF Terminated, vars
<1> QED
  BY <1>3, <1>4, <1>5, <1>6, <1>7, <1>8, <1>10, <1>11, <1>12, <1>13, <1>14
     DEF Next, Client, Report

\* The tracer keeps its promise: each event of a thread is written at most once and
\* in order, each "E" with the last begin of its thread and name, nothing after the
\* close (lines 88-141), if no two threads and names share a key.
THEOREM Implements == KeysDistinct => (Spec => KeepsPromise)
<1> SUFFICES ASSUME KeysDistinct PROVE Spec => KeepsPromise
  OBVIOUS
<1>1. TypeOK /\ MapInv /\ [Next]_vars => MapInv'
  BY MapStep
<1>2. TypeOK /\ FileInv /\ QueueInv /\ MapInv /\ [Next]_vars => [Promise!Next]_(Promise!vars)
  BY PromiseStep
<1> QED
  BY <1>1, <1>2, TypeInit, TypeStep, FileInit, FileStep, QueueInit, QueueStep,
     MapInit, PromiseInit, PTL DEF Spec, KeepsPromise, Promise!Spec
=============================================================================
