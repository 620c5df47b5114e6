----------------------------- MODULE TracerOrder -----------------------------
(***************************************************************************)
(* Proof that the events of a thread are written in the order of their     *)
(* time stamps, while the clock sum of lines 160-161 does not wrap.        *)
(***************************************************************************)
EXTENDS TracerRefinement

NoWrap == Boot < ClockHalf /\ MaxClock < ClockHalf

\* The stamp that bounds all earlier ones of thread t: the one it holds, or now.
LastStamp(t) ==
  IF pc[t] = "stamped" THEN inflight[t][1].ts ELSE clock - begin_wall_offset_

\* One line through the file, the queue and the hands of thread t.
OrderOf(t) ==
  /\ LastStamp(t) \in Int /\ LastStamp(t) <= clock - begin_wall_offset_
  /\ \A i \in DOMAIN event_queue_[t] : event_queue_[t][i].ts <= LastStamp(t)
  /\ \A i, j \in DOMAIN event_queue_[t] :
       i < j => event_queue_[t][i].ts <= event_queue_[t][j].ts
  /\ \A i \in DOMAIN entries :
       entries[i].ev.tid = t =>
         /\ entries[i].ev.ts <= LastStamp(t)
         /\ \A j \in DOMAIN event_queue_[t] : entries[i].ev.ts <= event_queue_[t][j].ts

OrderInv ==
  /\ clock < ClockHalf
  /\ instance = "none" =>
       /\ DOMAIN entries = {}
       /\ \A t \in Thread : DOMAIN event_queue_[t] = {} /\ pc[t] \in {"idle", "exited"}
  /\ \A t \in Thread : OrderOf(t)
  /\ ThreadOrder

LEMMA OrderInit == NoWrap /\ Init => OrderInv
<1> SUFFICES ASSUME NoWrap, Init PROVE OrderInv
  OBVIOUS
<1>1. DOMAIN entries = {} /\ clock = Boot /\ begin_wall_offset_ = 0
  BY DEF Init
<1>2. ASSUME NEW t \in Thread
      PROVE  DOMAIN event_queue_[t] = {} /\ pc[t] = "idle"
  BY DEF Init
<1>3. ASSUME NEW t \in Thread PROVE OrderOf(t)
  BY <1>1, <1>2, TracerAssumption DEF OrderOf, LastStamp
<1> QED  BY <1>1, <1>2, <1>3 DEF OrderInv, ThreadOrder, NoWrap

\* Integer stamps, as every comparison below needs them.
LEMMA Stamps ==
  ASSUME TypeOK
  PROVE  /\ \A t \in Thread : \A i \in DOMAIN event_queue_[t] : event_queue_[t][i].ts \in Nat
         /\ \A i \in DOMAIN entries : entries[i].ev.ts \in Nat /\ entries[i].ev.tid \in Thread
         /\ clock \in Nat /\ begin_wall_offset_ \in Int
<1>1. ASSUME NEW t \in Thread, NEW i \in DOMAIN event_queue_[t]
      PROVE  event_queue_[t][i].ts \in Nat
  <2>1. event_queue_[t] \in Seq(Event)
    BY DEF TypeOK
  <2>2. i \in 1 .. Len(event_queue_[t])
    BY <2>1
  <2>3. event_queue_[t][i] \in Event
    BY <2>1, <2>2, ElementOfSeq
  <2> QED  BY <2>3, TracerAssumption DEF Event
<1>2. ASSUME NEW i \in DOMAIN entries
      PROVE  entries[i].ev.ts \in Nat /\ entries[i].ev.tid \in Thread
  <2>1. entries \in Seq([ev : Event, from : Event])
    BY DEF TypeOK
  <2>2. i \in 1 .. Len(entries)
    BY <2>1
  <2>3. entries[i] \in [ev : Event, from : Event]
    BY <2>1, <2>2, ElementOfSeq
  <2>4. entries[i].ev \in Event
    BY <2>3
  <2> QED  BY <2>4, TracerAssumption DEF Event
<1> QED  BY <1>1, <1>2, TracerAssumption DEF TypeOK

\* A step that leaves file and queues alone only has to keep the last stamps growing.
LEMMA OrderFrame ==
  ASSUME TypeOK, TypeOK', OrderInv, UNCHANGED <<entries, event_queue_>>,
         clock' < ClockHalf, instance' # "none" \/ UNCHANGED <<instance, pc>>,
         \A t \in Thread : /\ LastStamp(t)' \in Int
                           /\ LastStamp(t) <= LastStamp(t)'
                           /\ LastStamp(t)' <= (clock - begin_wall_offset_)'
  PROVE  OrderInv'
<1>1. ASSUME NEW t \in Thread PROVE OrderOf(t)'
  BY Stamps DEF OrderInv, OrderOf
<1>2. ThreadOrder'
  BY DEF OrderInv, ThreadOrder
<1> QED  BY <1>1, <1>2 DEF OrderInv

\* Taking events out of a queue in front and writing the first of them keeps order.
LEMMA OrderReport ==
  ASSUME TypeOK, QueueInv, OrderInv, NEW t \in Thread,
         ReportBegin(t) \/ ReportEnd(t) \/ ReportUnmatched(t),
         instance # "none",
         \/ entries' = entries
         \/ \E b \in Event : Write(Head(event_queue_[t]), b)
  PROVE  OrderInv'
<1> DEFINE e == Head(event_queue_[t])
<1>1. Dequeue(t) /\ UNCHANGED <<pc, inflight, instance, begin_wall_offset_, clock>>
  BY ReportQueues
<1>2. \A u \in Thread : LastStamp(u)' = LastStamp(u)
  BY <1>1 DEF LastStamp
<1>3. /\ e \in Event /\ e = event_queue_[t][1] /\ 1 \in DOMAIN event_queue_[t]
      /\ \A u \in Thread \ {t} : event_queue_'[u] = event_queue_[u]
      /\ \A i \in DOMAIN event_queue_'[t] :
           /\ i + 1 \in DOMAIN event_queue_[t]
           /\ event_queue_'[t][i] = event_queue_[t][i + 1]
  BY <1>1, DequeueFacts
<1>4. /\ DOMAIN event_queue_[t] \subseteq Nat \ {0}
      /\ DOMAIN event_queue_'[t] \subseteq Nat \ {0}
  BY <1>1 DEF TypeOK, Dequeue
<1>5. e.tid = t
  BY <1>3 DEF QueueInv
<1> HIDE DEF e
\* Every entry is an old one, or a new last one, which is e.
<1>6. /\ \A i \in DOMAIN entries' :
           \/ i \in DOMAIN entries /\ entries'[i] = entries[i]
           \/ i \notin DOMAIN entries /\ entries'[i].ev = e
      /\ \A i, j \in DOMAIN entries' : i < j => i \in DOMAIN entries
  <2>1. CASE entries' = entries
    BY <2>1
  <2>2. CASE \E b \in Event : Write(e, b)
    <3>1. PICK b \in Event : Write(e, b)
      BY <2>2
    <3>2. /\ Len(entries) \in Nat /\ DOMAIN entries = 1 .. Len(entries)
          /\ DOMAIN entries' = 1 .. Len(entries) + 1
          /\ \A i \in DOMAIN entries : entries'[i] = entries[i]
          /\ entries'[Len(entries) + 1] = [ev |-> e, from |-> b]
      BY <1>3, <3>1, WriteFacts
    <3> QED  BY <3>2
  <2> QED  BY <2>1, <2>2 DEF e
<1>7. ASSUME NEW u \in Thread, u # t PROVE OrderOf(u)'
  BY <1>1, <1>2, <1>3, <1>5, <1>6, <1>7, Stamps DEF OrderInv, OrderOf
<1>8. OrderOf(t)'
  <2>1. OrderOf(t)
    BY DEF OrderInv
  <2>2. ASSUME NEW i \in DOMAIN event_queue_'[t], NEW j \in DOMAIN event_queue_'[t], i < j
        PROVE  event_queue_'[t][i].ts <= event_queue_'[t][j].ts
    BY <1>3, <1>4, <2>1, <2>2 DEF OrderOf
  <2>3. ASSUME NEW j \in DOMAIN event_queue_'[t] PROVE e.ts <= event_queue_'[t][j].ts
    BY <1>3, <1>4, <2>1 DEF OrderOf
  <2>4. e.ts <= LastStamp(t)
    BY <1>3, <2>1 DEF OrderOf
  <2>5. ASSUME NEW i \in DOMAIN entries', entries'[i].ev.tid = t
        PROVE  /\ entries'[i].ev.ts <= LastStamp(t)
               /\ \A j \in DOMAIN event_queue_'[t] : entries'[i].ev.ts <= event_queue_'[t][j].ts
    BY <1>3, <1>6, <2>1, <2>3, <2>4, <2>5 DEF OrderOf
  <2>6. \A i \in DOMAIN event_queue_'[t] : event_queue_'[t][i].ts <= LastStamp(t)
    BY <1>3, <2>1 DEF OrderOf
  <2> QED  BY <1>1, <1>2, <2>1, <2>2, <2>5, <2>6 DEF OrderOf
<1>9. ThreadOrder'
  <2> SUFFICES ASSUME NEW i \in DOMAIN entries', NEW j \in DOMAIN entries', i < j,
                      entries'[i].ev.tid = entries'[j].ev.tid
               PROVE  entries'[i].ev.ts <= entries'[j].ev.ts
    BY DEF ThreadOrder
  <2>1. i \in DOMAIN entries /\ entries'[i] = entries[i]
    BY <1>6
  <2>2. CASE j \in DOMAIN entries
    BY <1>6, <2>1, <2>2 DEF OrderInv, ThreadOrder
  <2>3. CASE j \notin DOMAIN entries
    BY <1>3, <1>5, <1>6, <2>1, <2>3 DEF OrderInv, OrderOf
  <2> QED  BY <2>2, <2>3
<1> QED  BY <1>1, <1>7, <1>8, <1>9 DEF OrderInv

LEMMA OrderStep ==
  NoWrap /\ TypeOK /\ TypeOK' /\ FileInv /\ QueueInv /\ OrderInv /\ [Next]_vars => OrderInv'
<1> SUFFICES ASSUME NoWrap, TypeOK, TypeOK', FileInv, QueueInv, OrderInv, [Next]_vars
             PROVE  OrderInv'
  OBVIOUS
<1> USE DEF client, file, static, ClientStep, ReportStep
<1>1. /\ clock \in Nat /\ begin_wall_offset_ \in Int /\ clock < ClockHalf
      /\ Nsec(clock) = clock
      /\ \A u \in Thread : /\ LastStamp(u) \in Int
                           /\ LastStamp(u) <= clock - begin_wall_offset_
  BY Stamps, NsecExact DEF OrderInv, OrderOf
<1>2. ASSUME NEW t \in Thread, Construct(t) PROVE OrderInv'
  <2>1. /\ DOMAIN entries' = {} /\ clock' = clock /\ begin_wall_offset_' = clock
        /\ instance' # "none"
        /\ \A u \in Thread : DOMAIN event_queue_'[u] = {} /\ pc'[u] # "stamped"
    BY <1>1, <1>2 DEF Construct, OrderInv
  <2>2. ASSUME NEW u \in Thread PROVE OrderOf(u)'
    BY <1>1, <2>1 DEF OrderOf, LastStamp
  <2> QED  BY <1>1, <2>1, <2>2 DEF OrderInv, ThreadOrder
<1>3. ASSUME NEW t \in Thread,
             Call(t) \/ RusageFails(t) \/ BeforeCutoff(t) \/ Exit(t)
      PROVE  OrderInv'
  <2>1. /\ UNCHANGED <<entries, event_queue_, instance, clock, begin_wall_offset_, inflight>>
        /\ \A u \in Thread : pc'[u] = "stamped" <=> pc[u] = "stamped"
        /\ pc' # pc => instance # "none" \/ pc'[t] = "exited"
    BY <1>3 DEF Call, RusageFails, BeforeCutoff, Exit, TypeOK, OrderInv
  <2>2. \A u \in Thread : LastStamp(u)' = LastStamp(u)
    BY <2>1 DEF LastStamp
  <2>3. ASSUME NEW u \in Thread PROVE OrderOf(u)'
    BY <2>1, <2>2 DEF OrderInv, OrderOf
  <2>4. ASSUME instance = "none", NEW u \in Thread PROVE pc'[u] \in {"idle", "exited"}
    BY <1>3, <2>1, <2>4 DEF Call, RusageFails, BeforeCutoff, Exit, TypeOK, OrderInv
  <2> QED  BY <1>1, <2>1, <2>3, <2>4 DEF OrderInv, ThreadOrder
<1>4. ASSUME NEW t \in Thread, TakeStamp(t) PROVE OrderInv'
  <2>1. /\ UNCHANGED <<entries, event_queue_, instance, clock, begin_wall_offset_>>
        /\ instance # "none" /\ pc[t] = "entered"
    BY <1>4 DEF TakeStamp, OrderInv
  <2>2. \A u \in Thread \ {t} : pc'[u] = pc[u] /\ inflight'[u] = inflight[u]
    BY <1>4 DEF TakeStamp, TypeOK
  <2>3. inflight'[t][1].ts = clock - begin_wall_offset_
    BY <1>1, <1>4 DEF TakeStamp, TypeOK
  <2>4. \A u \in Thread : LastStamp(u)' = LastStamp(u)
    BY <1>4, <2>1, <2>2, <2>3 DEF LastStamp, TakeStamp, TypeOK
  <2> QED  BY <1>1, <2>1, <2>4, OrderFrame
<1>5. ASSUME NEW t \in Thread, Enqueue(t) PROVE OrderInv'
  <2>1. PICK e \in Event :
          /\ e.tid = t /\ inflight[t] = <<e>>
          /\ \A u \in Thread \ {t} : event_queue_'[u] = event_queue_[u]
          /\ \A i \in DOMAIN event_queue_'[t] :
               \/ i \in DOMAIN event_queue_[t] /\ event_queue_'[t][i] = event_queue_[t][i]
               \/ i = Len(event_queue_[t]) + 1 /\ event_queue_'[t][i] = e
    BY <1>5, EnqueueFacts
  <2>2. /\ UNCHANGED <<entries, instance, clock, begin_wall_offset_>>
        /\ instance # "none" /\ pc[t] = "stamped" /\ pc'[t] = "idle"
        /\ \A u \in Thread \ {t} : pc'[u] = pc[u] /\ inflight'[u] = inflight[u]
    BY <1>5 DEF Enqueue, TypeOK, OrderInv
  <2>3. LastStamp(t) = e.ts /\ LastStamp(t)' = clock - begin_wall_offset_
    BY <2>1, <2>2 DEF LastStamp
  <2>4. Len(event_queue_[t]) \in Nat /\ DOMAIN event_queue_[t] = 1 .. Len(event_queue_[t])
    BY DEF TypeOK
  <2>5. OrderOf(t)
    BY DEF OrderInv
  <2>6. OrderOf(t)'
    <3>1. /\ e.ts \in Int /\ e.ts <= LastStamp(t)'
          /\ \A i \in DOMAIN event_queue_[t] : event_queue_[t][i].ts <= e.ts
      BY <1>1, <2>3, <2>5 DEF OrderOf
    <3>2. ASSUME NEW i \in DOMAIN event_queue_'[t]
          PROVE  event_queue_'[t][i].ts <= LastStamp(t)'
      BY <1>1, <2>1, <2>3, <3>1, Stamps
    <3>3. ASSUME NEW i \in DOMAIN event_queue_'[t], NEW j \in DOMAIN event_queue_'[t], i < j
          PROVE  event_queue_'[t][i].ts <= event_queue_'[t][j].ts
      <4>1. i \in DOMAIN event_queue_[t] /\ event_queue_'[t][i] = event_queue_[t][i]
        BY <2>1, <2>4, <3>3
      <4> QED  BY <2>1, <2>5, <3>1, <3>3, <4>1 DEF OrderOf
    <3>4. ASSUME NEW i \in DOMAIN entries, entries[i].ev.tid = t
          PROVE  /\ entries[i].ev.ts <= LastStamp(t)'
                 /\ \A j \in DOMAIN event_queue_'[t] : entries[i].ev.ts <= event_queue_'[t][j].ts
      <4>1. /\ entries[i].ev.ts \in Nat /\ entries[i].ev.ts <= e.ts
            /\ \A j \in DOMAIN event_queue_[t] : entries[i].ev.ts <= event_queue_[t][j].ts
        BY <2>3, <2>5, <3>4, Stamps DEF OrderOf
      <4> QED  BY <1>1, <2>1, <2>3, <3>1, <4>1
    <3>5. LastStamp(t)' \in Int /\ LastStamp(t)' <= (clock - begin_wall_offset_)'
      BY <1>1, <2>2, <2>3
    <3> QED  BY <2>2, <3>2, <3>3, <3>4, <3>5 DEF OrderOf
  <2>7. ASSUME NEW u \in Thread, u # t PROVE OrderOf(u)'
    BY <2>1, <2>2, <2>7 DEF OrderInv, OrderOf, LastStamp
  <2> QED  BY <1>1, <2>2, <2>6, <2>7 DEF OrderInv, ThreadOrder
<1>6. CASE OpenFile \/ OpenFails \/ LoopAgain \/ LoopEnds \/ NothingQueued \/ Stop
  <2>1. UNCHANGED <<entries, event_queue_, instance, clock, begin_wall_offset_, pc, inflight>>
    BY <1>6 DEF OpenFile, OpenFails, LoopAgain, LoopEnds, NothingQueued, Stop
  <2>2. \A u \in Thread : LastStamp(u)' = LastStamp(u)
    BY <2>1 DEF LastStamp
  <2> QED  BY <1>1, <2>1, <2>2, OrderFrame
<1>7. ASSUME NEW t \in Thread, ReportBegin(t) \/ ReportEnd(t) \/ ReportUnmatched(t)
      PROVE  OrderInv'
  <2>1. instance # "none" /\ Dequeue(t)
    BY <1>7, ReportQueues DEF FileInv, ReportBegin, ReportEnd, ReportUnmatched
  <2>2. \/ entries' = entries
        \/ \E b \in Event : Write(Head(event_queue_[t]), b)
    <3>1. Head(event_queue_[t]) \in Event
      BY <2>1, DequeueFacts
    <3>2. CASE ReportBegin(t)
      BY <3>1, <3>2 DEF ReportBegin
    <3>3. CASE ReportEnd(t)
      BY <3>3 DEF ReportEnd, Matched, TypeOK
    <3>4. CASE ReportUnmatched(t)
      BY <3>4 DEF ReportUnmatched
    <3> QED  BY <1>7, <3>2, <3>3, <3>4
  <2> QED  BY <1>7, <2>1, <2>2, OrderReport
<1>8. ASSUME NEW t \in Thread, ReportCrashes(t) PROVE OrderInv'
  <2>1. /\ UNCHANGED <<entries, event_queue_, clock, begin_wall_offset_>>
        /\ instance' # "none" /\ \A u \in Thread : pc'[u] = "exited"
    BY <1>8 DEF ReportCrashes
  <2>2. \A u \in Thread : LastStamp(u)' = clock - begin_wall_offset_
    BY <2>1 DEF LastStamp
  <2> QED  BY <1>1, <2>1, <2>2, OrderFrame
<1>9. CASE Tick
  <2>1. /\ UNCHANGED <<entries, event_queue_, instance, begin_wall_offset_, pc, inflight>>
        /\ clock' = clock + 1 /\ clock' < ClockHalf
    BY <1>1, <1>9, TracerAssumption DEF Tick, NoWrap
  <2>2. \A u \in Thread : /\ LastStamp(u) <= LastStamp(u)' /\ LastStamp(u)' \in Int
                          /\ LastStamp(u)' <= (clock - begin_wall_offset_)'
    BY <1>1, <2>1 DEF LastStamp
  <2> QED  BY <1>1, <2>1, <2>2, OrderFrame
<1>10. CASE MainReturns \/ DtorJoins \/ Terminated \/ UNCHANGED vars
  <2>1. /\ UNCHANGED <<entries, event_queue_, clock, begin_wall_offset_, pc, inflight>>
        /\ instance' # "none" \/ instance' = instance
    <3>1. CASE MainReturns
      BY <3>1 DEF MainReturns
    <3>2. CASE DtorJoins
      BY <3>2 DEF DtorJoins
    <3>3. CASE Terminated \/ UNCHANGED vars
      BY <3>3 DEF Terminated, vars
    <3> QED  BY <1>10, <3>1, <3>2, <3>3
  <2>2. \A u \in Thread : LastStamp(u)' = LastStamp(u)
    BY <2>1 DEF LastStamp
  <2> QED  BY <1>1, <2>1, <2>2, OrderFrame
<1> QED
  BY <1>2, <1>3, <1>4, <1>5, <1>6, <1>7, <1>8, <1>9, <1>10 DEF Next, Client, Report

\* The events of a thread stand in the file in the order of their stamps (lines
\* 143-180), unless the clock sum wraps.
THEOREM WrittenInOrder == NoWrap => (Spec => []ThreadOrder)
<1> SUFFICES ASSUME NoWrap PROVE Spec => []ThreadOrder
  OBVIOUS
<1>1. Init => OrderInv
  BY OrderInit
<1>2. TypeOK /\ TypeOK' /\ FileInv /\ QueueInv /\ OrderInv /\ [Next]_vars => OrderInv'
  BY OrderStep
<1>3. OrderInv => ThreadOrder
  BY DEF OrderInv
<1> QED
  BY <1>1, <1>2, <1>3, TypeInit, TypeStep, FileInit, FileStep, QueueInit, QueueStep, PTL
     DEF Spec
=============================================================================
