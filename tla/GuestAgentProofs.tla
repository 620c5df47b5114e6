-------------------------- MODULE GuestAgentProofs --------------------------
(***************************************************************************)
(* Proofs about GuestAgent for any threads, files and configurations, any  *)
(* number of calls and any length of the files.                            *)
(***************************************************************************)
EXTENDS GuestAgent, SequenceTheorems, TLAPS

(***************************************************************************)
(* Texts: a header, and groups below it.                                   *)
(***************************************************************************)
Line == {"header", "border", "row", "oddrow", "hello", "torn"}

LEMMA TextIsLines == Text = Seq(Line)
BY DEF Text, Line

LEMMA HeaderLines ==
  ASSUME NEW i \in Info
  PROVE  /\ Len(HeaderOf(i)) = IF i.csv THEN 1 ELSE 3
         /\ \A n \in 1 .. Len(HeaderOf(i)) : HeaderOf(i)[n] \in Line
BY DEF HeaderOf, Line

LEMMA AppendLine ==
  ASSUME NEW text \in Text, NEW l \in Line
  PROVE  /\ Append(text, l) \in Text
         /\ Len(Append(text, l)) = Len(text) + 1
         /\ Append(text, l)[Len(text) + 1] = l
         /\ \A k \in 1 .. Len(text) : Append(text, l)[k] = text[k]
         /\ SubSeq(Append(text, l), 1, Len(text)) = text
<1> USE TextIsLines
<1>1. Append(text, l) \in Seq(Line) /\ Len(Append(text, l)) = Len(text) + 1
      /\ Append(text, l)[Len(text) + 1] = l /\ \A k \in 1 .. Len(text) : Append(text, l)[k] = text[k]
  BY AppendProperties
<1>2. SubSeq(Append(text, l), 1, Len(text)) = text
  BY <1>1, SeqEqual
<1> QED  BY <1>1, <1>2

LEMMA AllOfIt ==
  ASSUME NEW text \in Text
  PROVE  Len(text) \in Nat /\ SubSeq(text, 1, Len(text)) = text
BY TextIsLines, LenProperties, SubSeqFull

LEMMA PrefixOfItself ==
  ASSUME NEW text \in Text
  PROVE  IsPrefix(<<>>, text) /\ IsPrefix(text, text)
BY TextIsLines DEF IsPrefix

LEMMA PrefixOfLonger ==
  ASSUME NEW part \in Text, NEW text \in Text, IsPrefix(part, text), NEW l \in Line
  PROVE  IsPrefix(part, Append(text, l))
<1>1. Len(part) \in Nat /\ Len(text) \in Nat /\ Len(part) <= Len(text)
  BY TextIsLines DEF IsPrefix
<1>2. SubSeq(part, 1, Len(part)) = SubSeq(text, 1, Len(part))
  BY DEF IsPrefix
<1>3. SubSeq(text, 1, Len(part)) = SubSeq(Append(text, l), 1, Len(part))
  BY <1>1, TextIsLines
<1>4. Len(part) <= Len(Append(text, l))
  BY <1>1, AppendLine
<1> QED  BY <1>2, <1>3, <1>4 DEF IsPrefix

\* What the file holds while the header is written, after a group, and between a row of
\* a table and its border.
Begun(text) ==
  /\ Len(text) < Len(HeaderOf(info))
  /\ \A k \in 1 .. Len(text) : text[k] = HeaderOf(info)[k]
Complete(text) == Len(text) >= Len(HeaderOf(info)) /\ Whole(text, info)
Half(text) ==
  /\ ~info.csv /\ Len(text) > 0 /\ text[Len(text)] \in Row
  /\ Complete(SubSeq(text, 1, Len(text) - 1))

LEMMA BegunIsWhole ==
  ASSUME info \in Info, NEW text \in Text, Begun(text)
  PROVE  Whole(text, info)
<1>1. Len(text) \in Nat /\ Len(HeaderOf(info)) \in Nat
  BY AllOfIt, HeaderLines
<1> QED  BY <1>1 DEF Begun, Whole

LEMMA HeaderGrows ==
  ASSUME info \in Info, NEW text \in Text, Begun(text)
  PROVE  LET n == Len(text) + 1
             new == Append(text, HeaderOf(info)[n])
         IN /\ HeaderOf(info)[n] \in Line
            /\ n = Len(HeaderOf(info)) => Complete(new)
            /\ n # Len(HeaderOf(info)) => Begun(new)
<1> DEFINE n == Len(text) + 1
           new == Append(text, HeaderOf(info)[n])
<1>1. Len(text) \in Nat /\ Len(HeaderOf(info)) \in Nat /\ n \in 1 .. Len(HeaderOf(info))
  BY AllOfIt, HeaderLines DEF Begun
<1>2. HeaderOf(info)[n] \in Line
  BY <1>1, HeaderLines
<1>3. Len(new) = n /\ new[n] = HeaderOf(info)[n] /\ \A k \in 1 .. Len(text) : new[k] = text[k]
  BY <1>2, AppendLine
<1>4. \A k \in 1 .. n : new[k] = HeaderOf(info)[k]
  BY <1>1, <1>3 DEF Begun
<1> HIDE DEF n, new
<1>5. n = Len(HeaderOf(info)) => Complete(new)
  BY <1>1, <1>3, <1>4 DEF Complete, Whole
<1>6. n # Len(HeaderOf(info)) => Begun(new)
  BY <1>1, <1>3, <1>4 DEF Begun
<1> QED  BY <1>2, <1>5, <1>6 DEF n, new

LEMMA RowOfCsv ==
  ASSUME info \in Info, info.csv, NEW text \in Text, Complete(text), NEW l \in Row
  PROVE  Complete(Append(text, l))
<1> DEFINE new == Append(text, l)
<1>1. l \in Line /\ Len(text) \in Nat /\ Len(HeaderOf(info)) = 1
  BY AllOfIt, HeaderLines DEF Row, Line
<1>2. Len(new) = Len(text) + 1 /\ new[Len(text) + 1] = l /\ \A k \in 1 .. Len(text) : new[k] = text[k]
  BY <1>1, AppendLine
<1> HIDE DEF new
<1> QED  BY <1>1, <1>2 DEF Complete, Whole, new

LEMMA RowOfTable ==
  ASSUME info \in Info, ~info.csv, NEW text \in Text, Complete(text), NEW l \in Row
  PROVE  Half(Append(text, l))
<1>1. l \in Line /\ Len(text) \in Nat
  BY AllOfIt DEF Row, Line
<1> DEFINE new == Append(text, l)
           m == Len(text)
<1>2. Len(new) = m + 1 /\ new[m + 1] = l /\ SubSeq(new, 1, m) = text
  BY <1>1, AppendLine
<1>3. (m + 1) - 1 = m /\ m + 1 > 0
  BY <1>1
<1> HIDE DEF new, m
<1>4. SubSeq(new, 1, Len(new) - 1) = text /\ Len(new) > 0 /\ new[Len(new)] = l
  BY <1>2, <1>3
<1> QED  BY <1>4 DEF Half, new

LEMMA BorderOfTable ==
  ASSUME info \in Info, NEW text \in Text, Half(text)
  PROVE  Complete(Append(text, "border"))
<1> DEFINE m == Len(text) - 1
           old == SubSeq(text, 1, m)
           new == Append(text, "border")
<1>1. m \in Nat /\ Len(text) = m + 1 /\ Len(HeaderOf(info)) = 3
  BY AllOfIt, HeaderLines DEF Half
<1>2. Len(old) = m /\ \A k \in 1 .. m : old[k] = text[k]
  BY <1>1, TextIsLines
<1>3. Len(new) = m + 2 /\ new[m + 2] = "border" /\ \A k \in 1 .. m + 1 : new[k] = text[k]
  BY <1>1, AppendLine DEF Line
<1>4. m >= 3 /\ Whole(old, info) /\ text[m + 1] \in Row /\ ~info.csv
  BY <1>1, <1>2 DEF Half, Complete
<1> HIDE DEF m, old, new
<1>5. (m > 3 => (m - 3) % 2 = 0)
  BY <1>1, <1>2, <1>4 DEF Whole
<1>6. (m - 3) % 2 = 0
  BY <1>1, <1>4, <1>5
<1>7. ((m + 1) - 3) % 2 = 1 /\ ((m + 2) - 3) % 2 = 0
  BY <1>1, <1>4, <1>6
<1>8. \A k \in 1 .. m : IF k <= 3 THEN new[k] = HeaderOf(info)[k]
                        ELSE IF (k - 3) % 2 = 1 THEN new[k] \in Row ELSE new[k] = "border"
  BY <1>1, <1>2, <1>3, <1>4 DEF Whole
<1>9. Whole(new, info)
  BY <1>1, <1>3, <1>4, <1>7, <1>8 DEF Whole
<1> QED  BY <1>1, <1>3, <1>4, <1>9 DEF Complete, m, old, new

\* All but the last n lines are whole.
WholeBut(text, n) == n <= Len(text) /\ Whole(SubSeq(text, 1, Len(text) - n), info)

LEMMA WholeButLast ==
  ASSUME info \in Info, NEW text \in Text
  PROVE  /\ Whole(text, info) => WholeBut(text, 0) /\ WholeBut(Append(text, "torn"), 1)
         /\ Half(text) => WholeBut(text, 1) /\ WholeBut(Append(text, "torn"), 2)
<1> DEFINE new == Append(text, "torn")
           m == Len(text)
<1>1. m \in Nat /\ SubSeq(text, 1, m) = text
  BY AllOfIt
<1>2. Len(new) = m + 1 /\ SubSeq(new, 1, m) = text
  BY AppendLine DEF Line
<1>3. m > 0 => SubSeq(new, 1, m - 1) = SubSeq(text, 1, m - 1)
  BY <1>1, TextIsLines
<1>4. m - 0 = m /\ (m + 1) - 1 = m /\ (m + 1) - 2 = m - 1 /\ 0 <= m /\ 1 <= m + 1
      /\ (m > 0 => 1 <= m /\ 2 <= m + 1)
  BY <1>1
<1> HIDE DEF new, m
<1>5. Whole(text, info) => WholeBut(text, 0) /\ WholeBut(new, 1)
  BY <1>1, <1>2, <1>4 DEF WholeBut, m
<1>6. Half(text) => m > 0 /\ Whole(SubSeq(text, 1, m - 1), info)
  BY DEF Half, Complete, m
<1>7. Half(text) => WholeBut(text, 1) /\ WholeBut(new, 2)
  BY <1>2, <1>3, <1>4, <1>6 DEF WholeBut, m
<1> QED  BY <1>5, <1>7 DEF new

(***************************************************************************)
(* Types, who has the static and the lock, and what is set up when.        *)
(***************************************************************************)
Stage == {"none", "header", "lock", "row", "border", "unlock", "sleep", "ownopen", "own"}
Place == {"idle", "calling", "ready", "waiting", "reading", "done"}

Shapes ==
  /\ guard \in {"none", "built"} \cup Caller
  /\ external_info_ \in Seq(Info) /\ Len(external_info_) <= 1
  /\ ofs_open \in BOOLEAN
  /\ disk \in [File -> Text] /\ got \in [Caller -> Text]
  /\ file_lock_ \in {"free", "daemon"} \cup Caller
  /\ daemon \in Stage
  /\ wake \in Nat /\ now \in 0 .. MaxNow
  /\ pc \in [Caller -> Place]
  /\ arg \in [Caller -> Seq(Info)] /\ calls \in [Caller -> 0 .. MaxCalls]
  /\ process \in {"up", "closed", "exited"}

Locks ==
  /\ file_lock_ = "daemon" <=> daemon \in {"row", "border", "unlock"}
  /\ \A c \in Caller : /\ file_lock_ = c <=> pc[c] = "reading"
                       /\ guard = c => pc[c] = "calling"

Small == \A f \in File : Len(disk[f]) <= MaxLines

LEMMA TypeParts == TypeOK <=> Shapes /\ Locks /\ Small
BY Zenon DEF TypeOK, Shapes, Locks, Small, Stage, Place

\* The constructor fixes the configuration, then starts the daemon; nothing is read before.
Setup ==
  /\ \A c \in Caller : /\ pc[c] = "calling" => Len(arg[c]) = 1
                       /\ guard = c => external_info_ = arg[c]
                       /\ pc[c] \in {"ready", "waiting", "reading"} \/ got[c] # <<>> => guard = "built"
  /\ guard = "built" => Len(external_info_) = 1 /\ (daemon \in {"ownopen", "own"} <=> info.fun)
  /\ daemon = "none" <=> guard # "built"
  /\ process # "up" => \A c \in Caller : pc[c] = "done"
  /\ process = "up" => (ofs_open <=> daemon \notin {"none", "ownopen", "own"})
  /\ process = "closed" => ~ofs_open
  /\ guard # "built" \/ daemon = "ownopen" => \A f \in File : disk[f] = <<>>

\* What a constructor or an own daemon opens is still empty.
LEMMA OpensEmpty ==
  ASSUME Shapes, Setup, guard # "built" \/ daemon = "ownopen", NEW name
  PROVE  Truncated(name) = disk
BY DEF Shapes, Setup, Truncated

LEMMA CtorKeepsDisk ==
  ASSUME Shapes, Setup, NEW c \in Caller, Ctor(c)
  PROVE  disk' = disk
<1>1. guard # "built"
  BY GuestAgentAssumption DEF Ctor, CtorOpens, CtorThrows, CtorOwnDaemon
<1>2. \A name : Truncated(name) = disk
  BY <1>1, OpensEmpty
<1> QED  BY <1>2 DEF Ctor, CtorOpens, CtorThrows, CtorOwnDaemon

LEMMA OwnKeepsDisk ==
  ASSUME Shapes, Setup, OwnOpens
  PROVE  disk' = disk
<1>1. \A name : Truncated(name) = disk
  BY OpensEmpty DEF OwnOpens, DaemonStep
<1> QED  BY <1>1 DEF OwnOpens

LEMMA Names ==
  \A c \in Caller : c # "none" /\ c # "built" /\ c # "free" /\ c # "daemon"
BY GuestAgentAssumption

LEMMA Bounds == MaxNow \in Nat /\ MaxCalls \in Nat /\ MaxLines \in Nat /\ MaxLines >= 3
<1>1. MaxNow \in Nat /\ MaxCalls \in Nat /\ MaxLines \in Nat \ 0 .. 2
  BY Zenon, GuestAgentAssumption
<1> QED  BY <1>1

LEMMA InfoIsSet ==
  ASSUME Shapes, Len(external_info_) = 1
  PROVE  info \in Info
<1>1. external_info_ \in Seq(Info)
  BY DEF Shapes
<1> QED  BY <1>1 DEF info

LEMMA ArgIsSet ==
  ASSUME Shapes, NEW c \in Caller, Len(arg[c]) = 1
  PROVE  arg[c][1] \in Info
<1>1. arg[c] \in Seq(Info)
  BY DEF Shapes
<1> QED  BY <1>1

LEMMA InfoFields ==
  \A i \in Info : /\ i.agent_file_ \in File \cup {""} /\ i.csv \in BOOLEAN /\ i.fun \in BOOLEAN
                  /\ i.interval_ \in Nat
BY Zenon, GuestAgentAssumption

LEMMA Beginning == Init => Shapes /\ Locks /\ Small /\ Setup
<1> SUFFICES ASSUME Init PROVE Shapes /\ Locks /\ Small /\ Setup
  OBVIOUS
<1>1. <<>> \in Text /\ Len(<<>>) = 0
  BY TextIsLines
<1>2. Shapes
  <2>1. 0 \in 0 .. MaxNow /\ 0 \in 0 .. MaxCalls
    BY Bounds
  <2>2. <<>> \in Seq(Info) /\ Len(<<>>) <= 1
    OBVIOUS
  <2> QED  BY <1>1, <2>1, <2>2 DEF Init, Shapes, Stage, Place
<1>3. Locks /\ Setup
  BY Names DEF Init, Locks, Setup
<1>4. Small
  BY <1>1, Bounds DEF Init, Small
<1> QED  BY <1>2, <1>3, <1>4

\* A step of one thread, and one of the rest of the program.
Calls(c) ==
  \/ Call(c) \/ BeginCtor(c) \/ Ctor(c) \/ GetBuilt(c) \/ Finish(c)
  \/ ReadAgentFile(c) \/ LockForRead(c) \/ Read(c)
Others == Daemon \/ TopCrashes \/ OwnThrows \/ Second \/ Close \/ Exit

LEMMA Steps == [Next]_vars => (\E c \in Caller : Calls(c)) \/ Others \/ UNCHANGED vars
BY DEF Next, Calls, Others, Terminated

(***************************************************************************)
(* The file of the instance, as long as the process is up.                 *)
(***************************************************************************)
Grown(text) ==
  IF daemon = "header" THEN Begun(text) ELSE IF daemon = "border" THEN Half(text) ELSE Complete(text)

OwnFile == guard = "built" /\ ~info.fun /\ info.agent_file_ \in File

Written == OwnFile /\ process = "up" => Grown(disk[info.agent_file_])

\* What one step may do to the files: append a line to the one of the instance.
Wrote(l) ==
  /\ guard = "built" /\ guard' = "built" /\ UNCHANGED external_info_
  /\ info.agent_file_ \in File
  /\ disk' = [disk EXCEPT ![info.agent_file_] = Append(@, l)]

LEMMA HeaderStep ==
  ASSUME Shapes, Setup, Written, HeaderLine
  PROVE  /\ UNCHANGED <<guard, external_info_, process>>
         /\ \/ UNCHANGED disk /\ daemon' = "lock" /\ (process = "up" => info.agent_file_ \notin File)
            \/ /\ process = "up" /\ OwnFile /\ Begun(disk[info.agent_file_])
               /\ LET n == Len(disk[info.agent_file_]) + 1 IN
                    /\ HeaderOf(info)[n] \in Line /\ Wrote(HeaderOf(info)[n])
                    /\ daemon' = IF n = Len(HeaderOf(info)) THEN "lock" ELSE "header"
<1>1. guard = "built" /\ info \in Info /\ ~info.fun /\ (process = "up" => ofs_open)
  BY InfoIsSet, InfoFields DEF HeaderLine, Setup
<1>2. UNCHANGED <<guard, external_info_, process>> /\ daemon = "header" /\ process # "exited"
  BY DEF HeaderLine, static
<1>3. CASE info.agent_file_ \notin File \/ ~ofs_open
  BY <1>1, <1>2, <1>3 DEF HeaderLine
<1>4. CASE info.agent_file_ \in File /\ ofs_open
  <2> DEFINE n == Len(disk[info.agent_file_]) + 1
  <2>1. Put(HeaderOf(info)[n]) /\ daemon' = IF n = Len(HeaderOf(info)) THEN "lock" ELSE "header"
    BY <1>4 DEF HeaderLine
  <2>2. Wrote(HeaderOf(info)[n])
    BY <2>1, <1>1, <1>2, <1>4 DEF Put, Wrote
  <2>3. process = "up" /\ OwnFile
    BY <1>1, <1>2, <1>4 DEF Setup, Shapes, OwnFile
  <2>4. Begun(disk[info.agent_file_]) /\ disk[info.agent_file_] \in Text
    BY <1>2, <1>4, <2>3 DEF Written, Grown, Shapes
  <2>5. HeaderOf(info)[n] \in Line
    BY <1>1, <2>4, HeaderGrows
  <2> QED  BY <1>2, <2>1, <2>2, <2>3, <2>4, <2>5
<1> QED  BY <1>3, <1>4

LEMMA DiskStep ==
  ASSUME Shapes, Locks, Setup, Written, [Next]_vars
  PROVE  UNCHANGED disk \/ \E l \in Line : Wrote(l)
<1>b. daemon # "none" => guard = "built"
  BY DEF Setup
<1>1. ASSUME NEW c \in Caller, Calls(c) PROVE UNCHANGED disk
  <2>1. CASE Ctor(c)
    BY <2>1, CtorKeepsDisk
  <2>2. CASE ~Ctor(c)
    BY <1>1, <2>2 DEF Calls, Call, BeginCtor, GetBuilt, Finish,
       ReadAgentFile, LockForRead, Read, ReadFile, ReadFails, Return
  <2> QED  BY <2>1, <2>2
<1>2. ASSUME NEW l \in Line, guard = "built", UNCHANGED static, Put(l)
      PROVE  UNCHANGED disk \/ Wrote(l)
  BY <1>2 DEF Put, Wrote, static
<1>3. CASE HeaderLine
  BY <1>3, HeaderStep
<1>4. CASE RowLine
  <2>1. guard = "built" /\ Figures \in Line /\ UNCHANGED static
    BY <1>4, <1>b DEF RowLine, DaemonStep, Figures, Line
  <2> QED  BY <1>2, <1>4, <2>1 DEF RowLine
<1>5. CASE BorderLine
  <2>1. guard = "built" /\ "border" \in Line /\ UNCHANGED static
    BY <1>5, <1>b DEF BorderLine, DaemonStep, Line
  <2> QED  BY <1>2, <1>5, <2>1 DEF BorderLine
<1>6. CASE OwnLine
  <2>1. guard = "built" /\ "hello" \in Line
    BY <1>6, <1>b DEF OwnLine, Line
  <2> QED  BY <1>6, <2>1 DEF OwnLine, Wrote, static
<1>7. CASE Close
  <2>1. UNCHANGED disk \/ (guard = "built" /\ UNCHANGED static /\ Put("torn"))
    BY <1>7, <1>b DEF Close
  <2>2. "torn" \in Line
    BY DEF Line
  <2> QED  BY <1>2, <2>1, <2>2
<1>8. CASE DaemonLock \/ Unlock \/ WakeUp \/ TopCrashes \/ OwnThrows \/ Second \/ Exit \/ UNCHANGED vars
  BY <1>8 DEF DaemonLock, Unlock, WakeUp, TopCrashes, OwnThrows, Die, Second, Exit, vars
<1>9. CASE OwnOpens
  BY <1>9, OwnKeepsDisk
<1> QED
  BY Steps, <1>1, <1>3, <1>4, <1>5, <1>6, <1>7, <1>8, <1>9 DEF Others, Daemon

LEMMA DiskStaysText ==
  ASSUME Shapes, UNCHANGED disk \/ \E l \in Line : Wrote(l)
  PROVE  disk' \in [File -> Text]
<1>1. disk \in [File -> Text] /\ <<>> \in Text
  BY TextIsLines DEF Shapes
<1>3. ASSUME NEW l \in Line, Wrote(l) PROVE disk' \in [File -> Text]
  <2>1. \A f \in File : Append(disk[f], l) \in Text
    BY <1>1, AppendLine
  <2> QED  BY <1>1, <1>3, <2>1 DEF Wrote
<1> QED  BY <1>1, <1>3

LEMMA ShapesStep == Shapes /\ Locks /\ Setup /\ Written /\ [Next]_vars => Shapes'
<1> SUFFICES ASSUME Shapes, Locks, Setup, Written, [Next]_vars PROVE Shapes'
  OBVIOUS
<1>d. disk' \in [File -> Text]
  BY DiskStep, DiskStaysText
<1>1. ASSUME NEW c \in Caller, Call(c) PROVE Shapes'
  <2>1. PICK i \in Info : arg' = [arg EXCEPT ![c] = <<i>>]
    BY <1>1 DEF Call
  <2>2. arg' \in [Caller -> Seq(Info)]
    BY <2>1 DEF Shapes
  <2>3. calls' \in [Caller -> 0 .. MaxCalls]
    <3>1. calls[c] \in 0 .. MaxCalls /\ calls[c] < MaxCalls /\ MaxCalls \in Nat
      BY <1>1, Bounds DEF Call, Shapes
    <3>2. calls[c] + 1 \in 0 .. MaxCalls
      BY <3>1
    <3> QED  BY <1>1, <3>2 DEF Call, Shapes
  <2>4. pc' \in [Caller -> Place]
    BY <1>1 DEF Call, Shapes, Place
  <2> QED  BY <1>1, <1>d, <2>2, <2>3, <2>4 DEF Call, static, Shapes
<1>2. ASSUME NEW c \in Caller, BeginCtor(c) PROVE Shapes'
  <2>1. Len(arg[c]) = 1 /\ arg[c] \in Seq(Info)
    BY <1>2 DEF BeginCtor, Setup, Shapes
  <2> QED  BY <1>2, <1>d, <2>1 DEF BeginCtor, caller, Shapes
<1>3. ASSUME NEW c \in Caller, NEW to \in Place, Leave(c, to)
      PROVE  /\ pc' \in [Caller -> Place] /\ arg' \in [Caller -> Seq(Info)]
             /\ UNCHANGED <<got, calls>>
  BY <1>3 DEF Leave, Shapes
<1>4. ASSUME NEW c \in Caller, Ctor(c) \/ GetBuilt(c) PROVE Shapes'
  <2>1. \E to \in Place : Leave(c, to)
    BY <1>4 DEF Ctor, CtorOpens, CtorThrows, CtorOwnDaemon, GetBuilt, Place
  <2>2. /\ guard' \in {"none", "built"} \cup Caller /\ daemon' \in Stage /\ ofs_open' \in BOOLEAN
        /\ UNCHANGED <<external_info_, file_lock_, wake, now, process>>
    BY <1>4 DEF Ctor, CtorOpens, CtorThrows, CtorOwnDaemon, GetBuilt, AfterThrow, static, Shapes, Stage
  <2> QED  BY <1>3, <1>d, <2>1, <2>2 DEF Shapes
<1>5. ASSUME NEW c \in Caller, ReadAgentFile(c) PROVE Shapes'
  <2>3. calls' \in [Caller -> 0 .. MaxCalls]
    <3>1. calls[c] \in 0 .. MaxCalls /\ calls[c] < MaxCalls /\ MaxCalls \in Nat
      BY <1>5, Bounds DEF ReadAgentFile, Shapes
    <3>2. calls[c] + 1 \in 0 .. MaxCalls
      BY <3>1
    <3> QED  BY <1>5, <3>2 DEF ReadAgentFile, Shapes
  <2>4. pc' \in [Caller -> Place]
    BY <1>5 DEF ReadAgentFile, Shapes, Place
  <2> QED  BY <1>5, <1>d, <2>3, <2>4 DEF ReadAgentFile, static, Shapes
<1>6. ASSUME NEW c \in Caller, LockForRead(c) \/ Finish(c) PROVE Shapes'
  <2>1. pc' \in [Caller -> Place] /\ file_lock_' \in {"free", "daemon"} \cup Caller
    BY <1>6 DEF LockForRead, Finish, Shapes, Place
  <2> QED  BY <1>6, <1>d, <2>1 DEF LockForRead, Finish, static, Shapes
<1>7. ASSUME NEW c \in Caller, NEW text \in Text, Return(c, text) PROVE Shapes'
  <2>1. pc' \in [Caller -> Place] /\ got' \in [Caller -> Text]
    BY <1>7 DEF Return, Shapes, Place
  <2> QED  BY <1>7, <1>d, <2>1 DEF Return, static, Shapes
<1>8. ASSUME NEW c \in Caller, Read(c) PROVE Shapes'
  <2>1. <<>> \in Text /\ \A f \in File : disk[f] \in Text
    BY TextIsLines DEF Shapes
  <2>2. CASE ReadFile(c)
    BY <1>7, <2>1, <2>2 DEF ReadFile
  <2>3. CASE ReadFails(c)
    BY <1>7, <2>1, <2>3 DEF ReadFails
  <2> QED  BY <1>8, <2>2, <2>3 DEF Read
<1>9. CASE HeaderLine \/ OwnLine
  BY <1>9, <1>d DEF HeaderLine, OwnLine, static, caller, Shapes, Stage
<1>10. CASE DaemonLock \/ RowLine \/ BorderLine \/ WakeUp \/ OwnOpens
  BY <1>10, <1>d DEF DaemonLock, OwnOpens, RowLine, BorderLine, WakeUp, DaemonStep, AfterRow, static, caller,
     Shapes, Stage
<1>11. CASE Unlock
  <2>1. info.interval_ \in Nat
    BY <1>11, InfoIsSet, InfoFields DEF Unlock, DaemonStep, Setup
  <2>2. wake' \in Nat
    BY <1>11, <2>1, Bounds DEF Unlock, DaemonStep, Shapes
  <2> QED  BY <1>11, <1>d, <2>2 DEF Unlock, Unlocked, DaemonStep, static, caller, Shapes, Stage
<1>12. CASE TopCrashes \/ OwnThrows
  <2>1. pc' \in [Caller -> Place]
    BY <1>12 DEF TopCrashes, OwnThrows, Die, Place
  <2>2. arg' \in [Caller -> Seq(Info)]
    <3>1. arg' = [c \in Caller |-> <<>>]
      BY <1>12 DEF TopCrashes, OwnThrows, Die
    <3>2. <<>> \in Seq(Info)
      OBVIOUS
    <3> QED  BY <3>1, <3>2
  <2>3. file_lock_' \in {"free", "daemon"} \cup Caller
    BY <1>12 DEF TopCrashes, OwnThrows, Shapes
  <2> QED  BY <1>12, <1>d, <2>1, <2>2, <2>3 DEF TopCrashes, OwnThrows, Die, static, Shapes
<1>13. CASE Second
  <2>1. now' \in 0 .. MaxNow
    <3>1. now \in 0 .. MaxNow /\ now < MaxNow /\ MaxNow \in Nat
      BY <1>13, Bounds DEF Second, Shapes
    <3> QED  BY <1>13, <3>1 DEF Second
  <2> QED  BY <1>13, <1>d, <2>1 DEF Second, static, caller, Shapes
<1>14. CASE Close \/ Exit \/ UNCHANGED vars
  BY <1>14, <1>d DEF Close, Exit, vars, static, caller, Shapes
<1> QED
  BY Steps, <1>1, <1>2, <1>4, <1>5, <1>6, <1>8, <1>9, <1>10, <1>11, <1>12, <1>13, <1>14
  DEF Calls, Others, Daemon

LEMMA BuiltStays ==
  ASSUME [Next]_vars, guard = "built"
  PROVE  guard' = "built" /\ UNCHANGED external_info_
<1>1. ASSUME NEW c \in Caller, Calls(c) PROVE UNCHANGED static
  <2>1. ~BeginCtor(c) /\ ~Ctor(c)
    BY Names DEF BeginCtor, MayBuild, Ctor, CtorOpens, CtorThrows, CtorOwnDaemon
  <2> QED  BY <1>1, <2>1 DEF Calls, Call, GetBuilt, Finish, ReadAgentFile, LockForRead, Read,
    ReadFile, ReadFails, Return
<1>2. ASSUME Others PROVE UNCHANGED static
  BY <1>2 DEF Others, Daemon, HeaderLine, DaemonLock, RowLine, BorderLine, Unlock, WakeUp, OwnOpens, OwnLine,
     DaemonStep, TopCrashes, OwnThrows, Die, Second, Close, Exit
<1> QED  BY Steps, <1>1, <1>2 DEF static, vars

LEMMA LocksStep == Shapes /\ Locks /\ Setup /\ [Next]_vars => Locks'
<1> SUFFICES ASSUME Shapes, Locks, Setup, [Next]_vars PROVE Locks'
  OBVIOUS
<1>p. pc \in [Caller -> Place] /\ file_lock_ \in {"free", "daemon"} \cup Caller
      /\ guard \in {"none", "built"} \cup Caller
  BY DEF Shapes
<1> USE DEF Locks
<1>1. ASSUME NEW c \in Caller, Call(c) \/ GetBuilt(c) \/ Finish(c) \/ ReadAgentFile(c) PROVE Locks'
  <2>1. pc[c] # "reading" /\ pc'[c] # "reading" /\ guard # c
        /\ (\A b \in Caller \ {c} : pc'[b] = pc[b]) /\ UNCHANGED <<guard, file_lock_, daemon>>
    BY <1>1, <1>p, Names DEF Call, GetBuilt, Leave, Finish, ReadAgentFile, static
  <2> QED  BY <2>1
<1>2. ASSUME NEW c \in Caller, BeginCtor(c) PROVE Locks'
  BY <1>2, Names DEF BeginCtor, caller
<1>3. ASSUME NEW c \in Caller, Ctor(c) PROVE Locks'
  <2>1. pc[c] = "calling" /\ pc'[c] \notin {"reading", "calling"} /\ guard' \in {"none", "built"}
        /\ (\A b \in Caller \ {c} : pc'[b] = pc[b]) /\ UNCHANGED file_lock_
    BY <1>3, <1>p DEF Ctor, CtorOpens, CtorThrows, CtorOwnDaemon, Leave, AfterThrow
  <2>2. daemon' \notin {"row", "border", "unlock"} /\ daemon \notin {"row", "border", "unlock"}
    <3>1. guard = c
      BY <1>3 DEF Ctor, CtorOpens, CtorThrows, CtorOwnDaemon
    <3>2. daemon = "none"
      BY <3>1, Names DEF Setup
    <3> QED  BY <1>3, <3>2 DEF Ctor, CtorOpens, CtorThrows, CtorOwnDaemon
  <2> QED  BY <2>1, <2>2, Names
<1>4. ASSUME NEW c \in Caller, LockForRead(c) PROVE Locks'
  <2>1. file_lock_ = "free" /\ file_lock_' = c /\ pc[c] = "waiting" /\ pc' = [pc EXCEPT ![c] = "reading"]
        /\ UNCHANGED <<guard, daemon>>
    BY <1>4 DEF LockForRead, LockFree, static
  <2> QED  BY <2>1, <1>p, Names
<1>5. ASSUME NEW c \in Caller, Read(c) PROVE Locks'
  <2>1. file_lock_' = "free" /\ pc[c] = "reading" /\ pc' = [pc EXCEPT ![c] = "ready"]
        /\ UNCHANGED <<guard, daemon>>
    BY <1>5 DEF Read, ReadFile, ReadFails, Return, static
  <2> QED  BY <2>1, <1>p, Names
<1>6. CASE DaemonLock
  <2>1. daemon = "lock" /\ daemon' = "row" /\ file_lock_ = "free" /\ file_lock_' = "daemon"
        /\ UNCHANGED <<guard, pc>>
    BY <1>6 DEF DaemonLock, DaemonStep, static, caller
  <2> QED  BY <2>1, Names
<1>7. CASE RowLine \/ BorderLine \/ WakeUp \/ HeaderLine \/ OwnOpens \/ OwnLine
  <2>1. UNCHANGED <<guard, pc, file_lock_>>
        /\ (daemon' \in {"row", "border", "unlock"} <=> daemon \in {"row", "border", "unlock"})
    BY <1>7 DEF RowLine, BorderLine, WakeUp, HeaderLine, OwnOpens, OwnLine, AfterRow, DaemonStep, static, caller
  <2> QED  BY <2>1
<1>8. CASE Unlock
  <2>1. daemon = "unlock" /\ daemon' = "sleep" /\ file_lock_' = "free" /\ UNCHANGED <<guard, pc>>
    BY <1>8 DEF Unlock, Unlocked, DaemonStep, static, caller
  <2> QED  BY <2>1, Names
<1>9. CASE TopCrashes
  <2>1. daemon = "row" /\ UNCHANGED <<daemon, guard, file_lock_>> /\ pc' = [c \in Caller |-> "done"]
        /\ guard = "built"
    BY <1>9 DEF TopCrashes, Die, static, Setup
  <2> QED  BY <2>1, Names
<1>11. CASE OwnThrows
  <2>1. daemon = "ownopen" /\ UNCHANGED <<daemon, guard>> /\ pc' = [c \in Caller |-> "done"]
        /\ guard = "built" /\ file_lock_' = "free"
    BY <1>11 DEF OwnThrows, Die, static, Setup
  <2> QED  BY <2>1, Names
<1>10. CASE Second \/ Close \/ Exit \/ UNCHANGED vars
  BY <1>10 DEF Second, Close, Exit, vars, static, caller
<1> QED
  BY Steps, <1>1, <1>2, <1>3, <1>4, <1>5, <1>6, <1>7, <1>8, <1>9, <1>10, <1>11 DEF Calls, Others, Daemon

LEMMA SetupStep == Shapes /\ Locks /\ Setup /\ [Next]_vars => Setup'
<1> SUFFICES ASSUME Shapes, Locks, Setup, [Next]_vars PROVE Setup'
  OBVIOUS
<1>p. pc \in [Caller -> Place] /\ arg \in [Caller -> Seq(Info)] /\ got \in [Caller -> Text]
      /\ process \in {"up", "closed", "exited"}
  BY DEF Shapes
<1>b. guard = "built" => guard' = "built" /\ UNCHANGED external_info_
  BY BuiltStays
<1>1. ASSUME NEW c \in Caller, Call(c) \/ Finish(c) \/ ReadAgentFile(c) \/ LockForRead(c) \/ Read(c)
      PROVE  Setup'
  <2>1. UNCHANGED <<guard, external_info_, daemon, ofs_open, process, disk>> /\ pc[c] # "done"
        /\ pc[c] # "calling"
    BY <1>1 DEF Call, Finish, ReadAgentFile, LockForRead, Read, ReadFile, ReadFails, Return, static
  <2>2. process = "up"
    BY <2>1, <1>p DEF Setup
  <2>3. /\ \A b \in Caller \ {c} : pc'[b] = pc[b] /\ arg'[b] = arg[b] /\ got'[b] = got[b]
        /\ pc'[c] = "calling" => Len(arg'[c]) = 1
        /\ pc'[c] \in {"ready", "waiting", "reading"} => pc[c] \in {"ready", "waiting", "reading"}
        /\ got'[c] # <<>> => got[c] # <<>> \/ pc[c] = "reading"
    BY <1>1, <1>p DEF Call, Finish, ReadAgentFile, LockForRead, Read, ReadFile, ReadFails, Return
  <2>4. guard # c
    BY <2>1 DEF Locks
  <2> QED  BY <2>1, <2>2, <2>3, <2>4 DEF Setup, info
<1>2. ASSUME NEW c \in Caller, BeginCtor(c) PROVE Setup'
  <2>1. guard = "none" /\ guard' = c /\ external_info_' = arg[c] /\ pc[c] = "calling"
        /\ UNCHANGED <<pc, arg, got, daemon, ofs_open, process, disk>>
    BY <1>2 DEF BeginCtor, MayBuild, caller
  <2> QED  BY <2>1, Names DEF Setup
<1>3. ASSUME NEW c \in Caller, Ctor(c) \/ GetBuilt(c) PROVE Setup'
  <2>1. pc[c] = "calling" /\ pc'[c] \in {"ready", "idle"}
        /\ (\A b \in Caller \ {c} : pc'[b] = pc[b] /\ arg'[b] = arg[b])
        /\ UNCHANGED <<external_info_, process, got>>
    BY <1>3, <1>p DEF Ctor, CtorOpens, CtorThrows, CtorOwnDaemon, GetBuilt, Leave, static
  <2>d. disk' = disk
    BY <1>3, CtorKeepsDisk DEF GetBuilt
  <2>2. process = "up"
    BY <2>1, <1>p DEF Setup
  <2>3. CASE GetBuilt(c)
    <3>1. UNCHANGED <<daemon, guard, ofs_open>> /\ guard = "built"
      BY <2>3 DEF GetBuilt, static
    <3> QED  BY <2>1, <2>2, <2>d, <3>1, Names DEF Setup, info
  <2>4. CASE Ctor(c)
    <3>1. guard = c /\ external_info_ = arg[c] /\ Len(arg[c]) = 1 /\ daemon = "none" /\ ~ofs_open
      BY <2>4, <2>1, <2>2, Names DEF Ctor, CtorOpens, CtorThrows, CtorOwnDaemon, Setup
    <3>2. arg[c][1].fun \in BOOLEAN
      BY <3>1, ArgIsSet, InfoFields
    <3>3. \/ guard' = "built" /\ pc'[c] = "ready" /\ ofs_open' = TRUE /\ daemon' = "header" /\ ~arg[c][1].fun
          \/ guard' = "built" /\ pc'[c] = "ready" /\ ofs_open' = FALSE /\ daemon' = "ownopen" /\ arg[c][1].fun
          \/ guard' = "none" /\ pc'[c] = "idle" /\ ofs_open' = FALSE /\ daemon' = "none"
      BY <2>4, <3>1, <1>p DEF Ctor, CtorOpens, CtorThrows, CtorOwnDaemon, Leave, AfterThrow
    <3>4. \A b \in Caller : got[b] = <<>> /\ pc[b] \notin {"ready", "waiting", "reading"}
      BY <3>1, Names DEF Setup
    <3>5. guard' = "built" => Len(external_info_') = 1 /\ info' = arg[c][1]
      BY <2>1, <3>1 DEF info
    <3>6. \A f \in File : disk'[f] = <<>>
      BY <2>d, <3>1, Names DEF Setup
    <3> QED  BY <2>1, <2>2, <3>1, <3>3, <3>4, <3>5, <3>6, Names DEF Setup
  <2> QED  BY <1>3, <2>3, <2>4
<1>4. CASE Daemon
  <2>1. UNCHANGED <<guard, external_info_, ofs_open, pc, arg, got, process>>
    BY <1>4 DEF Daemon, HeaderLine, DaemonLock, RowLine, BorderLine, Unlock, WakeUp, OwnOpens, OwnLine,
       DaemonStep, static, caller
  <2>2. /\ daemon # "none" /\ daemon' \notin {"none", "ownopen"}
        /\ daemon' = "own" <=> daemon \in {"ownopen", "own"}
    BY <1>4 DEF Daemon, HeaderLine, DaemonLock, RowLine, BorderLine, AfterRow, Unlock, WakeUp,
       OwnOpens, OwnLine, DaemonStep
  <2> QED  BY <2>1, <2>2 DEF Setup, info
<1>5. CASE TopCrashes \/ OwnThrows
  <2>1. UNCHANGED <<guard, external_info_, ofs_open, daemon, got, disk>> /\ process' = "exited"
        /\ pc' = [c \in Caller |-> "done"] /\ guard = "built"
    BY <1>5 DEF TopCrashes, OwnThrows, Die, static, Setup
  <2> QED  BY <2>1, Names DEF Setup, info
<1>6. CASE Close
  <2>1. UNCHANGED <<guard, external_info_, daemon, pc, arg, got>> /\ process' = "closed" /\ ~ofs_open'
        /\ (disk' = disk \/ daemon \in {"header", "row", "border"})
        /\ \A c \in Caller : pc[c] = "done"
    BY <1>6 DEF Close, static, caller
  <2>2. guard # "built" \/ daemon = "ownopen" => disk' = disk
    BY <2>1 DEF Setup
  <2> QED  BY <2>1, <2>2 DEF Setup, info
<1>7. CASE Second \/ Exit \/ UNCHANGED vars
  BY <1>7 DEF Second, Exit, vars, static, caller, Setup, info
<1> QED
  BY Steps, <1>1, <1>2, <1>3, <1>4, <1>5, <1>6, <1>7 DEF Calls, Others

(***************************************************************************)
(* What is in the files: their length, whole groups while the daemon is    *)
(* between two of them, and what the destructor left.                      *)
(***************************************************************************)
Room ==
  process = "up" => \A f \in File : /\ daemon = "row" => Len(disk[f]) + 2 <= MaxLines
                                    /\ daemon = "border" => Len(disk[f]) + 1 <= MaxLines

Closed == OwnFile /\ process # "up" => \E n \in 0 .. 2 : WholeBut(disk[info.agent_file_], n)

Files == Small /\ Room /\ Written /\ Closed

\* Steps that leave the file of the instance and the daemon's position alone.
LEMMA FilesStay ==
  ASSUME Shapes, Setup, Files, UNCHANGED <<disk, daemon>>,
         UNCHANGED <<guard, external_info_>> \/ guard' # "built",
         process' = process \/ (process' # "up" /\ (process = "up" => daemon # "border"))
  PROVE  Files'
<1>1. Small' /\ Room'
  BY DEF Files, Small, Room, Shapes
<1>2. Written'
  BY DEF Files, Written, OwnFile, Grown, Begun, Half, Complete, info, Shapes
<1>3. Closed'
  <2>1. SUFFICES ASSUME OwnFile', process' # "up"
                 PROVE  \E n \in 0 .. 2 : WholeBut(disk[info.agent_file_], n)
    BY DEF Closed, WholeBut, OwnFile, info
  <2>2. OwnFile /\ info \in Info
    BY <2>1, InfoIsSet DEF OwnFile, info, Setup
  <2>3. CASE process = "up"
    <3> DEFINE text == disk[info.agent_file_]
    <3>1. text \in Text /\ daemon # "border" /\ Grown(text)
      BY <2>1, <2>2, <2>3 DEF Files, Written, OwnFile, Shapes
    <3>2. Whole(text, info)
      BY <3>1, <2>2, BegunIsWhole DEF Grown, Complete
    <3> QED  BY <2>2, <3>1, <3>2, WholeButLast
  <2>4. CASE process # "up"
    BY <2>2, <2>4 DEF Files, Closed
  <2> QED  BY <2>3, <2>4
<1> QED  BY <1>1, <1>2, <1>3 DEF Files

\* A line is appended and the process stays up.
LEMMA FilesGrow ==
  ASSUME Shapes, Setup, Files, process = "up", process' = "up", NEW l \in Line, Wrote(l),
         LET text == disk[info.agent_file_] IN
           /\ Len(text) + 1 <= MaxLines
           /\ ~info.fun => IF daemon' = "header" THEN Begun(Append(text, l))
                           ELSE IF daemon' = "border" THEN Half(Append(text, l))
                           ELSE Complete(Append(text, l)),
         daemon' # "row",
         daemon' = "border" => daemon = "row"
  PROVE  Files'
<1> DEFINE text == disk[info.agent_file_]
<1>1. info.agent_file_ \in File /\ text \in Text /\ disk'[info.agent_file_] = Append(text, l) /\ info' = info
      /\ \A f \in File \ {info.agent_file_} : disk'[f] = disk[f]
  BY DEF Wrote, Shapes, info
<1>2. Len(Append(text, l)) = Len(text) + 1 /\ Len(text) \in Nat
  BY <1>1, AppendLine, AllOfIt
<1>3. Small'
  BY <1>1, <1>2 DEF Files, Small
<1>4. Room'
  <2>1. SUFFICES ASSUME NEW f \in File, daemon' = "border" PROVE Len(disk'[f]) + 1 <= MaxLines
    BY DEF Room
  <2>2. Len(disk[f]) \in Nat /\ Len(disk[f]) + 2 <= MaxLines
    BY <2>1, AllOfIt DEF Files, Room, Shapes
  <2> QED  BY <2>2, <1>1, <1>2, Bounds
<1>5. Written'
  <2>1. SUFFICES ASSUME ~info.fun PROVE Grown(disk[info.agent_file_])'
    BY <1>1 DEF Written, OwnFile
  <2> QED  BY <2>1, <1>1 DEF Grown, Begun, Half, Complete
<1>6. Closed'
  BY DEF Closed
<1> QED  BY <1>3, <1>4, <1>5, <1>6 DEF Files

LEMMA CallersKeepFiles ==
  ASSUME Shapes, Locks, Setup, Files, NEW c \in Caller, Calls(c)
  PROVE  Files'
<1>1. CASE Call(c) \/ GetBuilt(c) \/ Finish(c) \/ ReadAgentFile(c) \/ LockForRead(c) \/ Read(c)
  <2>1. UNCHANGED <<disk, daemon>> /\ UNCHANGED <<guard, external_info_>> /\ process' = process
    BY <1>1 DEF Call, GetBuilt, Finish, ReadAgentFile, LockForRead, Read, ReadFile, ReadFails, Return, static
  <2> QED  BY <2>1, FilesStay
<1>2. CASE BeginCtor(c) \/ CtorThrows(c)
  <2>1. UNCHANGED <<disk, daemon>> /\ guard' # "built" /\ process' = process
    BY <1>2, Names, CtorKeepsDisk DEF Ctor, BeginCtor, CtorThrows, AfterThrow
  <2> QED  BY <2>1, FilesStay
<1>3. CASE CtorOwnDaemon(c)
  <2>1. UNCHANGED <<disk, process>> /\ daemon' = "ownopen" /\ external_info_' = external_info_
        /\ external_info_ = arg[c] /\ arg[c][1].fun
    BY <1>3 DEF CtorOwnDaemon, Setup
  <2>2. Written' /\ Closed'
    BY <2>1 DEF Written, Closed, OwnFile, info
  <2>3. Small' /\ Room'
    BY <2>1 DEF Files, Small, Room
  <2> QED  BY <2>2, <2>3 DEF Files
<1>4. CASE CtorOpens(c)
  <2>1. UNCHANGED process /\ daemon' = "header" /\ external_info_' = external_info_
        /\ external_info_ = arg[c] /\ pc[c] = "calling"
        /\ disk' = disk /\ guard # "built"
    BY <1>4, CtorKeepsDisk, Names DEF Ctor, CtorOpens, Setup
  <2>2. process = "up" /\ info \in Info
    BY <2>1, InfoIsSet DEF Setup
  <2>3. Small' /\ Room'
    BY <2>1 DEF Files, Small, Room
  <2>4. Written'
    <3>1. Begun(<<>>)
      BY <2>2, HeaderLines DEF Begun
    <3>2. info' = info
      BY <2>1 DEF info
    <3>3. OwnFile' => disk'[info.agent_file_] = <<>>
      BY <2>1, <3>2 DEF OwnFile, Setup
    <3> QED  BY <2>1, <3>1, <3>2, <3>3 DEF Written, Grown, Begun
  <2>5. Closed'
    BY <2>1, <2>2 DEF Closed
  <2> QED  BY <2>3, <2>4, <2>5 DEF Files
<1> QED  BY <1>1, <1>2, <1>3, <1>4 DEF Calls, Ctor

LEMMA DaemonKeepsFiles ==
  ASSUME Shapes, Locks, Setup, Files, Daemon
  PROVE  Files'
<1>b. guard = "built" /\ info \in Info /\ info.fun \in BOOLEAN /\ (daemon \in {"ownopen", "own"} <=> info.fun)
  <2>1. daemon # "none"
    BY DEF Daemon, HeaderLine, DaemonLock, RowLine, BorderLine, Unlock, WakeUp, OwnOpens, OwnLine,
           DaemonStep
  <2> QED  BY <2>1, InfoIsSet, InfoFields DEF Setup
<1>s. UNCHANGED <<guard, external_info_, process, ofs_open>> /\ process # "exited"
  BY DEF Daemon, HeaderLine, DaemonLock, RowLine, BorderLine, Unlock, WakeUp, OwnOpens, OwnLine,
         DaemonStep, static
<1>p. process = "up" \/ ~ofs_open
  BY <1>s DEF Shapes, Setup
<1>t. \A f \in File : disk[f] \in Text /\ Len(disk[f]) \in Nat
  BY AllOfIt DEF Shapes
<1>w. process = "up" /\ ~info.fun /\ info.agent_file_ \in File => Grown(disk[info.agent_file_])
  BY <1>b DEF Files, Written, OwnFile
\* The daemon goes on; the file is what it was.
<1>1. ASSUME UNCHANGED disk,
             process = "up" /\ ~info.fun /\ info.agent_file_ \in File => Grown(disk[info.agent_file_])',
             Room'
      PROVE  Files'
  BY <1>1, <1>s DEF Files, Small, Written, Closed, OwnFile, WholeBut, info
<1>2. CASE HeaderLine
  <2>1. CASE UNCHANGED disk /\ daemon' = "lock" /\ (process = "up" => info.agent_file_ \notin File)
    BY <1>1, <2>1 DEF Room
  <2>2. CASE ~(UNCHANGED disk /\ daemon' = "lock" /\ (process = "up" => info.agent_file_ \notin File))
    <3> DEFINE text == disk[info.agent_file_]
               n == Len(text) + 1
    <3>1. /\ process = "up" /\ OwnFile /\ Begun(text) /\ HeaderOf(info)[n] \in Line
          /\ Wrote(HeaderOf(info)[n])
          /\ daemon' = IF n = Len(HeaderOf(info)) THEN "lock" ELSE "header"
      BY <1>2, <2>2, HeaderStep DEF Files
    <3>2. text \in Text /\ Len(text) \in Nat
      BY <1>t, <3>1 DEF OwnFile
    <3>3. IF daemon' = "header" THEN Begun(Append(text, HeaderOf(info)[n]))
          ELSE Complete(Append(text, HeaderOf(info)[n]))
      BY <1>b, <3>1, <3>2, HeaderGrows
    <3>4. Len(text) + 1 <= MaxLines
      BY <1>b, <3>1, <3>2, HeaderLines, Bounds DEF Begun
    <3>5. daemon' # "row" /\ daemon' # "border" /\ process' = "up"
      BY <3>1, <1>s
    <3> HIDE DEF text, n
    <3> QED  BY <3>1, <3>3, <3>4, <3>5, FilesGrow DEF text
  <2> QED  BY <2>1, <2>2
<1>3. CASE DaemonLock
  <2>1. UNCHANGED disk /\ daemon = "lock" /\ daemon' = "row" /\ \A f \in File : Len(disk[f]) + 2 <= MaxLines
    BY <1>3 DEF DaemonLock, DaemonStep
  <2>2. Room'
    BY <2>1 DEF Room
  <2> QED  BY <2>1, <2>2, <1>1, <1>w, <1>s DEF Grown, Complete, info
<1>4. CASE Unlock \/ WakeUp
  <2>1. UNCHANGED disk /\ daemon \notin {"header", "border"} /\ daemon' \in {"sleep", "lock"}
    BY <1>4 DEF Unlock, WakeUp, DaemonStep
  <2>2. Room'
    BY <2>1 DEF Room
  <2> QED  BY <2>1, <2>2, <1>1, <1>w, <1>s DEF Grown, Complete, info
<1>5. ASSUME NEW l \in Line, Put(l), process = "up", info.agent_file_ \in File, daemon \notin {"none", "ownopen", "own"}
      PROVE  Wrote(l)
  BY <1>5, <1>b, <1>s DEF Put, Wrote, Setup
<1>6. ASSUME NEW l, Put(l), process # "up" \/ info.agent_file_ \notin File
      PROVE  UNCHANGED disk
  BY <1>6, <1>p DEF Put
<1>7. CASE RowLine
  <2>1. daemon = "row" /\ Figures \in Line /\ Figures \in Row /\ Put(Figures)
        /\ daemon' = IF info.csv THEN "unlock" ELSE "border"
    BY <1>7 DEF RowLine, DaemonStep, AfterRow, Figures, Line, Row
  <2>2. CASE process = "up" /\ info.agent_file_ \in File
    <3> DEFINE text == disk[info.agent_file_]
    <3>1. Wrote(Figures) /\ Len(text) + 2 <= MaxLines /\ Len(text) \in Nat /\ text \in Text
      BY <1>5, <1>t, <2>1, <2>2 DEF Files, Room
    <3>2. Complete(text)
      BY <2>1, <2>2, <1>b, <1>w DEF Grown
    <3>3. IF daemon' = "border" THEN Half(Append(text, Figures)) ELSE Complete(Append(text, Figures))
      BY <1>b, <2>1, <3>1, <3>2, RowOfCsv, RowOfTable
    <3>4. Len(text) + 1 <= MaxLines /\ daemon' # "row" /\ daemon' # "header" /\ process' = "up"
      BY <1>s, <2>1, <2>2, <3>1, Bounds
    <3> HIDE DEF text
    <3> QED  BY <2>1, <2>2, <3>1, <3>3, <3>4, FilesGrow DEF text
  <2>3. CASE process # "up"
    BY <1>1, <1>6, <1>s, <2>1, <2>3 DEF Room
  <2>4. CASE process = "up" /\ info.agent_file_ \notin File
    <3>1. UNCHANGED disk
      BY <1>6, <2>1, <2>4
    <3>2. Room'
      <4>1. SUFFICES ASSUME NEW f \in File PROVE Len(disk[f]) + 1 <= MaxLines
        BY <2>1, <3>1 DEF Room
      <4>2. Len(disk[f]) + 2 <= MaxLines /\ Len(disk[f]) \in Nat
        BY <1>t, <2>1, <2>4 DEF Files, Room
      <4> QED  BY <4>2, Bounds
    <3> QED  BY <1>1, <2>4, <3>1, <3>2
  <2> QED  BY <2>2, <2>3, <2>4
<1>8. CASE BorderLine
  <2>1. daemon = "border" /\ "border" \in Line /\ Put("border") /\ daemon' = "unlock"
    BY <1>8 DEF BorderLine, DaemonStep, Line
  <2>2. CASE process = "up" /\ info.agent_file_ \in File
    <3> DEFINE text == disk[info.agent_file_]
    <3>1. Wrote("border") /\ Len(text) + 1 <= MaxLines /\ text \in Text
      BY <1>5, <1>t, <2>1, <2>2 DEF Files, Room
    <3>2. Half(text)
      BY <2>1, <2>2, <1>b, <1>w DEF Grown
    <3>3. Complete(Append(text, "border"))
      BY <1>b, <3>1, <3>2, BorderOfTable
    <3> QED  BY <1>s, <2>1, <2>2, <3>1, <3>3, FilesGrow
  <2>3. CASE process # "up" \/ info.agent_file_ \notin File
    BY <1>1, <1>6, <1>s, <2>1, <2>3 DEF Room
  <2> QED  BY <2>2, <2>3
<1>9. CASE OwnLine
  <2>1. daemon = "own" /\ daemon' = daemon /\ info.fun /\ info.agent_file_ \in File
        /\ Len(disk[info.agent_file_]) < MaxLines
        /\ disk' = [disk EXCEPT ![info.agent_file_] = Append(@, "hello")]
    BY <1>9, <1>b DEF OwnLine
  <2>2. Len(Append(disk[info.agent_file_], "hello")) = Len(disk[info.agent_file_]) + 1
    BY <1>t, <2>1, AppendLine DEF Line
  <2>3. Small'
    <3>1. Len(disk[info.agent_file_]) + 1 <= MaxLines
      BY <1>t, <2>1, Bounds
    <3> QED  BY <2>1, <2>2, <3>1, <1>t DEF Files, Small, Shapes
  <2>4. Room' /\ Written' /\ Closed'
    BY <1>s, <2>1 DEF Room, Written, Closed, OwnFile, info
  <2> QED  BY <2>3, <2>4 DEF Files
<1>10. CASE OwnOpens
  <2>1. disk' = disk /\ daemon = "ownopen" /\ daemon' = "own" /\ info.fun
    BY <1>10, <1>b, OwnKeepsDisk DEF OwnOpens, DaemonStep
  <2>2. Room'
    BY <2>1 DEF Room
  <2> QED  BY <1>1, <2>1, <2>2
<1> QED  BY <1>2, <1>3, <1>4, <1>7, <1>8, <1>9, <1>10 DEF Daemon

\* The destructor may tear the line that is being written (lines 71-76).
LEMMA CloseKeepsFiles ==
  ASSUME Shapes, Locks, Setup, Files, Close
  PROVE  Files'
<1>1. process = "up" /\ process' = "closed" /\ UNCHANGED <<daemon, guard, external_info_>>
      /\ (UNCHANGED disk \/ (daemon \in {"header", "row", "border"} /\ Put("torn")))
  BY DEF Close, static
<1>t. \A f \in File : disk[f] \in Text /\ Len(disk[f]) \in Nat
  BY AllOfIt DEF Shapes
<1>2. Room' /\ Written'
  BY <1>1 DEF Room, Written
<1>3. ASSUME OwnFile PROVE info \in Info /\ Grown(disk[info.agent_file_])
  BY <1>1, <1>3, InfoIsSet DEF Setup, OwnFile, Files, Written
<1>4. ASSUME OwnFile
      PROVE  LET text == disk[info.agent_file_] IN
               /\ \E n \in 0 .. 2 : WholeBut(text, n)
               /\ \E n \in 0 .. 2 : WholeBut(Append(text, "torn"), n)
  <2> DEFINE text == disk[info.agent_file_]
  <2>1. text \in Text /\ info \in Info /\ Grown(text)
    BY <1>3, <1>4, <1>t DEF OwnFile
  <2>2. Whole(text, info) \/ Half(text)
    BY <2>1, BegunIsWhole DEF Grown, Complete
  <2> HIDE DEF text
  <2>3. (\E n \in 0 .. 2 : WholeBut(text, n)) /\ \E n \in 0 .. 2 : WholeBut(Append(text, "torn"), n)
    BY <2>1, <2>2, WholeButLast
  <2> QED  BY <2>3 DEF text
<1>5. CASE UNCHANGED disk
  BY <1>1, <1>2, <1>4, <1>5 DEF Files, Small, Closed, OwnFile, WholeBut, info
<1>6. CASE ~UNCHANGED disk
  <2>1. daemon \in {"header", "row", "border"} /\ Put("torn") /\ info.agent_file_ \in File /\ ofs_open
    BY <1>1, <1>6 DEF Put
  <2>2. disk' = [disk EXCEPT ![info.agent_file_] = Append(@, "torn")]
    BY <2>1 DEF Put
  <2>3. OwnFile
    BY <2>1, InfoIsSet, InfoFields DEF OwnFile, Setup
  <2>4. Closed'
    <3>1. disk'[info.agent_file_] = Append(disk[info.agent_file_], "torn") /\ info' = info
      BY <2>1, <2>2, <1>1 DEF Shapes, info
    <3> QED  BY <1>4, <2>3, <3>1 DEF Closed, WholeBut
  <2>5. Len(disk[info.agent_file_]) + 1 <= MaxLines
    <3> DEFINE text == disk[info.agent_file_]
    <3>1. text \in Text /\ Len(text) \in Nat /\ info \in Info /\ Grown(text)
      BY <1>3, <1>t, <2>1, <2>3
    <3>2. CASE daemon = "header"
      BY <3>1, <3>2, HeaderLines, Bounds DEF Grown, Begun
    <3>3. CASE daemon \in {"row", "border"}
      BY <1>1, <2>1, <3>1, <3>3, Bounds DEF Files, Room
    <3> QED  BY <2>1, <3>2, <3>3
  <2>6. Small'
    BY <1>t, <2>1, <2>2, <2>5, AppendLine DEF Files, Small, Shapes, Line
  <2> QED  BY <1>2, <2>4, <2>6 DEF Files
<1> QED  BY <1>5, <1>6

LEMMA FilesStep == Shapes /\ Locks /\ Setup /\ Files /\ [Next]_vars => Files'
<1> SUFFICES ASSUME Shapes, Locks, Setup, Files, [Next]_vars PROVE Files'
  OBVIOUS
<1>1. CASE TopCrashes \/ OwnThrows
  <2>1. UNCHANGED <<disk, daemon>> /\ UNCHANGED <<guard, external_info_>> /\ process' # "up"
        /\ daemon # "border"
    BY <1>1 DEF TopCrashes, OwnThrows, Die, static
  <2> QED  BY <2>1, FilesStay
<1>2. CASE Second \/ Exit \/ UNCHANGED vars
  <2>1. UNCHANGED <<disk, daemon>> /\ UNCHANGED <<guard, external_info_>>
        /\ (process' = process \/ (process' # "up" /\ process # "up"))
    BY <1>2 DEF Second, Exit, vars, static
  <2> QED  BY <2>1, FilesStay
<1> QED
  BY Steps, CallersKeepFiles, DaemonKeepsFiles, CloseKeepsFiles, <1>1, <1>2 DEF Others

(***************************************************************************)
(* What the threads have read.                                             *)
(***************************************************************************)
Snapshots ==
  \A c \in Caller : got[c] # <<>> =>
    /\ info.agent_file_ \in File /\ IsPrefix(got[c], disk[info.agent_file_])
    /\ info.fun \/ Whole(got[c], info)

\* A reader has the lock, so the daemon is not inside a group.
LEMMA ReadsWhole ==
  ASSUME Shapes, Locks, Setup, Files, NEW c \in Caller, pc[c] = "reading", info.agent_file_ \in File
  PROVE  guard = "built" /\ (info.fun \/ Whole(disk[info.agent_file_], info))
<1>1. process = "up" /\ guard = "built" /\ info \in Info
  BY InfoIsSet DEF Setup, Shapes
<1>2. daemon \notin {"row", "border", "unlock"}
  BY Names DEF Locks
<1>3. CASE ~info.fun
  <2>1. Grown(disk[info.agent_file_]) /\ disk[info.agent_file_] \in Text
    BY <1>1, <1>3 DEF Files, Written, OwnFile, Shapes
  <2> QED  BY <1>1, <1>2, <2>1, BegunIsWhole DEF Grown, Complete
<1> QED  BY <1>1, <1>3

LEMMA GotStep ==
  ASSUME Shapes, [Next]_vars, NEW c \in Caller, got'[c] # got[c], got'[c] # <<>>
  PROVE  /\ pc[c] = "reading" /\ info.agent_file_ \in File
         /\ got'[c] = disk[info.agent_file_] /\ UNCHANGED <<disk, guard, external_info_>>
<1>g. got \in [Caller -> Text]
  BY DEF Shapes
<1>1. ~Others /\ ~UNCHANGED vars
  BY DEF Others, Daemon, HeaderLine, DaemonLock, RowLine, BorderLine, Unlock, WakeUp, OwnOpens, OwnLine,
     DaemonStep, TopCrashes, OwnThrows, Die, Second, Close, Exit, vars, caller
<1>2. PICK b \in Caller : Calls(b)
  BY <1>1, Steps
<1>3. Read(b)
  BY <1>2 DEF Calls, Call, BeginCtor, Ctor, CtorOpens, CtorThrows, CtorOwnDaemon, GetBuilt, Leave,
     Finish, ReadAgentFile, LockForRead, caller
<1>4. \/ b = c /\ ReadFile(b)
      \/ got' = [got EXCEPT ![b] = <<>>]
      \/ b # c /\ \E text : got' = [got EXCEPT ![b] = text]
  BY <1>3 DEF Read, ReadFile, ReadFails, Return
<1>5. b = c /\ ReadFile(b)
  BY <1>4, <1>g
<1> QED  BY <1>5, <1>g DEF ReadFile, Return, static

LEMMA SnapshotsStep == Shapes /\ Locks /\ Setup /\ Files /\ Snapshots /\ [Next]_vars => Snapshots'
<1> SUFFICES ASSUME Shapes, Locks, Setup, Files, Snapshots, [Next]_vars,
                    NEW c \in Caller, got'[c] # <<>>
             PROVE  /\ info'.agent_file_ \in File /\ IsPrefix(got'[c], disk'[info'.agent_file_])
                    /\ info'.fun \/ Whole(got'[c], info')
  BY DEF Snapshots, Whole, HeaderOf
<1>1. CASE got'[c] # got[c]
  <2>1. /\ pc[c] = "reading" /\ info.agent_file_ \in File
        /\ got'[c] = disk[info.agent_file_] /\ UNCHANGED <<disk, guard, external_info_>>
    BY <1>1, GotStep
  <2>2. info.fun \/ Whole(disk[info.agent_file_], info)
    BY <2>1, ReadsWhole
  <2>3. disk[info.agent_file_] \in Text
    BY <2>1 DEF Shapes
  <2> QED  BY <2>1, <2>2, <2>3, PrefixOfItself DEF info
<1>2. CASE got'[c] = got[c]
  <2>1. guard = "built" /\ info' = info
    BY <1>2, BuiltStays DEF Setup, info
  <2>2. /\ info.agent_file_ \in File /\ IsPrefix(got[c], disk[info.agent_file_])
        /\ info.fun \/ Whole(got[c], info)
    BY <1>2 DEF Snapshots
  <2>3. got[c] \in Text /\ disk[info.agent_file_] \in Text
    BY <2>2 DEF Shapes
  <2>4. IsPrefix(got[c], disk'[info.agent_file_])
    <3>1. CASE UNCHANGED disk
      BY <2>2, <3>1
    <3>3. ASSUME NEW l \in Line, Wrote(l) PROVE IsPrefix(got[c], disk'[info.agent_file_])
      <4>1. disk'[info.agent_file_] = Append(disk[info.agent_file_], l)
        BY <3>3 DEF Wrote, Shapes
      <4> QED  BY <4>1, <2>2, <2>3, PrefixOfLonger
    <3> QED  BY <3>1, <3>3, DiskStep DEF Files
  <2> QED  BY <1>2, <2>1, <2>2, <2>4
<1> QED  BY <1>1, <1>2

(***************************************************************************)
(* The invariant, and what it says of every behaviour.                     *)
(***************************************************************************)
Inv == Shapes /\ Locks /\ Setup /\ Files /\ Snapshots

LEMMA InvInit == Init => Inv
<1> SUFFICES ASSUME Init PROVE Files /\ Snapshots
  BY Beginning DEF Inv
<1>1. Room /\ Written /\ Closed /\ Snapshots
  BY DEF Init, Room, Written, Closed, OwnFile, Snapshots
<1> QED  BY <1>1, Beginning DEF Files

LEMMA InvStep == Inv /\ [Next]_vars => Inv'
BY ShapesStep, LocksStep, SetupStep, FilesStep, SnapshotsStep DEF Inv, Files

LEMMA Invariance == Spec => []Inv
BY InvInit, InvStep, PTL DEF Spec

\* Every variable keeps its type, the file lock and the guard of the static name a thread
\* exactly while it is in the section they protect, and no file outgrows the bound (all of
\* guest_agent_.h).
THEOREM TypeCorrect == Spec => []TypeOK
<1>1. Inv => TypeOK
  BY TypeParts DEF Inv, Files
<1> QED  BY <1>1, Invariance, PTL

\* What ReadAgentFile returns (lines 288-302) never ends inside a group of rows, although
\* the daemon writes the header without the lock.
THEOREM ReadsAreWhole == Spec => []SnapshotWhole
<1>1. Inv => SnapshotWhole
  BY DEF Inv, Snapshots, SnapshotWhole
<1> QED  BY <1>1, Invariance, PTL

\* The destructor and the daemon it does not wait for (lines 68 and 71-76) leave at most the last
\* group of the file incomplete.
THEOREM AtMostOneTorn == Spec => []OnlyLastGroupTorn
<1>1. Inv => OnlyLastGroupTorn
  <2> SUFFICES ASSUME Inv, OwnFile
               PROVE  \E n \in 0 .. 2 : WholeBut(disk[info.agent_file_], n)
    BY DEF OnlyLastGroupTorn, OwnFile, WholeBut
  <2>1. CASE process # "up"
    BY <2>1 DEF Inv, Files, Closed
  <2>2. CASE process = "up"
    <3> DEFINE text == disk[info.agent_file_]
    <3>1. text \in Text /\ Grown(text) /\ info \in Info
      BY <2>2, InfoIsSet DEF Inv, Setup, Files, Written, OwnFile, Shapes
    <3>2. Whole(text, info) \/ Half(text)
      BY <3>1, BegunIsWhole DEF Grown, Complete
    <3> QED  BY <3>1, <3>2, WholeButLast
  <2> QED  BY <2>1, <2>2
<1> QED  BY <1>1, Invariance, PTL

\* Until ~GuestAgent closes it, the stream is open exactly when its daemon has been started;
\* then it is closed for good, whatever the daemon goes on writing (lines 41-76).
THEOREM StreamIsOpen == Spec => []DaemonHasStream
<1>1. Inv => DaemonHasStream
  BY DEF Inv, Setup, DaemonHasStream
<1> QED  BY <1>1, Invariance, PTL

\* The file of the instance only grows, and a thread that reads it again gets more of it, or
\* the "" of a file that cannot be opened (lines 282-302).
THEOREM ReadsGrow == Spec => SnapshotsGrow
<1>1. ASSUME Inv, [Next]_vars, NEW f \in File, guard = "built"
      PROVE  IsPrefix(disk[f], disk'[f])
  <2>1. disk[f] \in Text
    BY <1>1 DEF Inv, Shapes
  <2>2. CASE disk' = disk
    BY <2>1, <2>2, PrefixOfItself
  <2>3. ASSUME NEW l \in Line, Wrote(l) PROVE IsPrefix(disk[f], disk'[f])
    <3>1. disk'[f] = disk[f] \/ disk'[f] = Append(disk[f], l)
      BY <1>1, <2>3 DEF Wrote, Inv, Shapes
    <3>2. IsPrefix(disk[f], disk[f])
      BY <2>1, PrefixOfItself
    <3> QED  BY <2>1, <3>1, <3>2, PrefixOfLonger
  <2> QED  BY <1>1, <2>2, <2>3, DiskStep DEF Inv, Files
<1>2. ASSUME Inv, [Next]_vars, NEW c \in Caller, got'[c] # <<>>
      PROVE  IsPrefix(got[c], got'[c])
  <2> USE <1>2
  <2>t. got[c] \in Text
    BY DEF Inv, Shapes
  <2>1. CASE got'[c] = got[c]
    BY <2>1, <2>t, PrefixOfItself
  <2>2. CASE got'[c] # got[c]
    <3>1. info.agent_file_ \in File /\ got'[c] = disk[info.agent_file_]
      BY <2>2, GotStep DEF Inv
    <3>2. disk[info.agent_file_] \in Text
      BY <3>1 DEF Inv, Shapes
    <3>3. CASE got[c] = <<>>
      BY <3>1, <3>2, <3>3, PrefixOfItself
    <3>4. CASE got[c] # <<>>
      BY <3>1, <3>4 DEF Inv, Snapshots
    <3> QED  BY <3>3, <3>4
  <2> QED  BY <2>1, <2>2
<1>3. Inv /\ [Next]_vars => [/\ \A c \in Caller : got'[c] = <<>> \/ IsPrefix(got[c], got'[c])
                            /\ \A f \in File : guard = "built" => IsPrefix(disk[f], disk'[f])]_vars
  BY <1>1, <1>2
<1> QED  BY <1>3, Invariance, PTL DEF Spec, SnapshotsGrow

\* The first constructor that succeeds fixes the configuration for good (lines 282-286).
THEOREM FirstOneWins == Spec => FirstWins
<1>1. [Next]_vars => [guard = "built" => guard' = "built" /\ UNCHANGED external_info_]_vars
  BY BuiltStays
<1> QED  BY <1>1, PTL DEF Spec, FirstWins

(***************************************************************************)
(* The section of file_lock_.  What its holder has still to do is a        *)
(* number: a row, its border, the unlock; a reader has one step.           *)
(***************************************************************************)
SectionLeft ==
  CASE daemon = "row" -> 3 [] daemon = "border" -> 2
    [] file_lock_ = "free" -> 0 [] OTHER -> 1

\* The lock changes hands through "free" only, and nobody but its holder decides how long it
\* is kept: each step of the holder brings it nearer the unlock, and nothing that the other
\* threads, the destructor or the clock do makes the way longer.
SectionEnds ==
  [][file_lock_ # "free" =>
       /\ file_lock_' \in {file_lock_, "free"}
       /\ SectionLeft \in 1 .. 3 /\ SectionLeft' <= SectionLeft
       /\ file_lock_ = "daemon" /\ Daemon => SectionLeft' < SectionLeft
       /\ \A c \in Caller : file_lock_ = c /\ Read(c) => SectionLeft' < SectionLeft]_vars

LEMMA DaemonLeaves ==
  ASSUME Inv, file_lock_ = "daemon", Daemon
  PROVE  file_lock_' \in {"daemon", "free"} /\ SectionLeft' \in 0 .. 2 /\ SectionLeft' < SectionLeft
<1>l. daemon \in {"row", "border", "unlock"}
  BY DEF Inv, Locks
<1> USE DEF DaemonStep, static, caller
<1>1. CASE RowLine
  <2>1. daemon = "row" /\ daemon' \in {"border", "unlock"} /\ file_lock_' = "daemon"
    BY <1>1 DEF RowLine, AfterRow
  <2> QED  BY <2>1 DEF SectionLeft
<1>2. CASE BorderLine
  BY <1>2 DEF BorderLine, SectionLeft
<1>3. CASE Unlock
  BY <1>3 DEF Unlock, Unlocked, SectionLeft
<1>4. ~HeaderLine /\ ~DaemonLock /\ ~WakeUp /\ ~OwnOpens /\ ~OwnLine
  BY <1>l DEF HeaderLine, DaemonLock, WakeUp, OwnOpens, OwnLine
<1> QED  BY <1>1, <1>2, <1>3, <1>4 DEF Daemon

LEMMA ReaderLeaves ==
  ASSUME Inv, NEW c \in Caller, Read(c)
  PROVE  file_lock_' = "free" /\ SectionLeft' = 0 /\ SectionLeft = 1
<1>1. file_lock_ = c /\ file_lock_' = "free" /\ daemon' = daemon
  BY DEF Inv, Locks, Read, ReadFile, ReadFails, Return
<1>2. daemon \notin {"row", "border"}
  BY <1>1, Names DEF Inv, Locks
<1> QED  BY <1>1, <1>2, Names DEF SectionLeft

\* Nobody else takes the lock from its holder, or lengthens its way.
LEMMA OthersWait ==
  ASSUME Inv, file_lock_ # "free", [Next]_vars,
         ~(file_lock_ = "daemon" /\ Daemon), \A c \in Caller : ~Read(c), ~OwnThrows
  PROVE  file_lock_' = file_lock_ /\ SectionLeft' = SectionLeft
<1>l. Locks /\ Setup
  BY DEF Inv
<1>s. SUFFICES /\ file_lock_' = file_lock_
               /\ daemon' = daemon \/ {daemon, daemon'} \cap {"row", "border"} = {}
  BY DEF SectionLeft
<1> USE DEF static, caller
<1>1. ASSUME NEW c \in Caller, Call(c) \/ BeginCtor(c) \/ GetBuilt(c) \/ Finish(c) \/ ReadAgentFile(c)
      PROVE  file_lock_' = file_lock_ /\ daemon' = daemon
  BY <1>1 DEF Call, BeginCtor, GetBuilt, Leave, Finish, ReadAgentFile
<1>2. ASSUME NEW c \in Caller, Ctor(c)
      PROVE  file_lock_' = file_lock_ /\ (daemon' = daemon \/ (daemon = "none" /\ daemon' \in {"header", "ownopen"}))
  <2>1. guard = c /\ guard # "built"
    BY <1>2, Names DEF Ctor, CtorOpens, CtorThrows, CtorOwnDaemon
  <2>2. daemon = "none"
    BY <1>l, <2>1 DEF Setup
  <2>3. CASE CtorOpens(c)
    BY <2>2, <2>3 DEF CtorOpens
  <2>4. CASE CtorThrows(c)
    BY <2>4 DEF CtorThrows
  <2>5. CASE CtorOwnDaemon(c)
    BY <2>2, <2>5 DEF CtorOwnDaemon
  <2> QED  BY <1>2, <2>3, <2>4, <2>5 DEF Ctor
<1>3. ASSUME NEW c \in Caller, LockForRead(c) PROVE FALSE
  BY <1>3 DEF LockForRead, LockFree
<1>4. CASE Daemon
  <2>1. daemon \notin {"row", "border", "unlock"}
    BY <1>4, <1>l DEF Locks
  <2>2. CASE HeaderLine \/ OwnLine
    BY <2>1, <2>2 DEF HeaderLine, OwnLine
  <2>3. CASE WakeUp \/ OwnOpens
    BY <2>3 DEF WakeUp, OwnOpens, DaemonStep
  <2>4. ~DaemonLock /\ ~RowLine /\ ~BorderLine /\ ~Unlock
    BY <2>1 DEF DaemonLock, RowLine, BorderLine, Unlock, DaemonStep
  <2> QED  BY <1>4, <2>2, <2>3, <2>4 DEF Daemon
<1>5. CASE TopCrashes \/ Second \/ Close \/ Exit \/ UNCHANGED vars
  BY <1>5 DEF TopCrashes, Die, Second, Close, Exit, vars
<1> QED  BY <1>1, <1>2, <1>3, <1>4, <1>5, Steps DEF Calls, Others

\* Who waits for file_lock_ waits for at most three steps of the thread that has it (lines
\* 247-266 and 289-301): the safety half of ReaderServed.
THEOREM SectionIsShort == Spec => SectionEnds
<1>1. Inv /\ [Next]_vars =>
        [file_lock_ # "free" =>
           /\ file_lock_' \in {file_lock_, "free"}
           /\ SectionLeft \in 1 .. 3 /\ SectionLeft' <= SectionLeft
           /\ file_lock_ = "daemon" /\ Daemon => SectionLeft' < SectionLeft
           /\ \A c \in Caller : file_lock_ = c /\ Read(c) => SectionLeft' < SectionLeft]_vars
  <2> SUFFICES ASSUME Inv, [Next]_vars, file_lock_ # "free"
               PROVE  /\ file_lock_' \in {file_lock_, "free"}
                      /\ SectionLeft \in 1 .. 3 /\ SectionLeft' <= SectionLeft
                      /\ file_lock_ = "daemon" /\ Daemon => SectionLeft' < SectionLeft
                      /\ \A c \in Caller : file_lock_ = c /\ Read(c) => SectionLeft' < SectionLeft
    OBVIOUS
  <2>1. SectionLeft \in 1 .. 3
    BY DEF SectionLeft
  <2>2. ASSUME NEW c \in Caller, Read(c) PROVE SectionLeft' < SectionLeft
    BY <2>2, ReaderLeaves
  <2>3. ASSUME file_lock_ = "daemon", Daemon PROVE SectionLeft' < SectionLeft
    BY <2>3, DaemonLeaves
  <2>4. file_lock_' \in {file_lock_, "free"} /\ SectionLeft' <= SectionLeft
    <3>1. CASE file_lock_ = "daemon" /\ Daemon
      <4>1. file_lock_' \in {"daemon", "free"} /\ SectionLeft' \in 0 .. 2 /\ SectionLeft' < SectionLeft
        BY <3>1, DaemonLeaves
      <4> QED  BY <2>1, <3>1, <4>1
    <3>2. ASSUME NEW c \in Caller, Read(c) PROVE <2>4!:
      <4>1. file_lock_' = "free" /\ SectionLeft' = 0 /\ SectionLeft = 1
        BY <3>2, ReaderLeaves
      <4> QED  BY <4>1
    <3>4. CASE OwnThrows
      <4>1. file_lock_' = "free" /\ daemon' = "ownopen"
        BY <3>4 DEF OwnThrows, Die
      <4>2. SectionLeft' = 0
        BY <4>1 DEF SectionLeft
      <4> QED  BY <2>1, <4>1, <4>2
    <3>3. CASE ~(file_lock_ = "daemon" /\ Daemon) /\ (\A c \in Caller : ~Read(c)) /\ ~OwnThrows
      <4>1. file_lock_' = file_lock_ /\ SectionLeft' = SectionLeft
        BY <3>3, OthersWait
      <4> QED  BY <2>1, <4>1
    <3> QED  BY <3>1, <3>2, <3>3, <3>4
  <2> QED  BY <2>1, <2>2, <2>3, <2>4
<1> QED  BY <1>1, Invariance, PTL DEF Spec, SectionEnds

(***************************************************************************)
(* GuestAgent implements AgentLog: what is published of a file that is     *)
(* being written, and the step of AgentLog that each step is.              *)
(***************************************************************************)
LEMMA PartIs ==
  ASSUME NEW text \in Text, NEW n \in 0 .. Len(text),
         Whole(SubSeq(text, 1, Len(text) - n), info),
         \A m \in 0 .. n - 1 : ~Whole(SubSeq(text, 1, Len(text) - m), info)
  PROVE  WholePart(text, info) = SubSeq(text, 1, Len(text) - n)
<1> DEFINE Ends(k) == Whole(SubSeq(text, 1, Len(text) - k), info)
           Least(k) == k \in 0 .. Len(text) /\ Ends(k) /\ \A m \in 0 .. k - 1 : ~Ends(m)
           k0 == CHOOSE k \in 0 .. Len(text) : Ends(k) /\ \A m \in 0 .. k - 1 : ~Ends(m)
<1>1. Len(text) \in Nat
  BY AllOfIt
<1>2. Least(n)
  OBVIOUS
<1>3. Least(k0)
  BY <1>2
<1>4. WholePart(text, info) = SubSeq(text, 1, Len(text) - k0)
  BY DEF WholePart
<1> HIDE DEF Ends, k0
<1>5. k0 = n
  BY <1>1, <1>2, <1>3
<1> QED  BY <1>4, <1>5

LEMMA PartOfWhole ==
  ASSUME NEW text \in Text, Whole(text, info)
  PROVE  WholePart(text, info) = text
<1>1. Len(text) \in Nat /\ SubSeq(text, 1, Len(text)) = text /\ Len(text) - 0 = Len(text)
  BY AllOfIt
<1>2. 0 \in 0 .. Len(text) /\ 0 .. 0 - 1 = {}
  BY <1>1
<1> QED  BY <1>1, <1>2, PartIs

LEMMA TornIsNotWhole ==
  ASSUME info \in Info, NEW text \in Text, NEW k \in 1 .. Len(text), text[k] = "torn"
  PROVE  ~Whole(text, info)
<1>1. \A n \in 1 .. Len(HeaderOf(info)) : HeaderOf(info)[n] # "torn"
  BY DEF HeaderOf
<1>2. k \in Nat /\ k >= 1 /\ Len(HeaderOf(info)) \in Nat
  BY HeaderLines, AllOfIt
<1>3. k <= Len(HeaderOf(info)) => text[k] # HeaderOf(info)[k]
  BY <1>1, <1>2
<1> QED  BY <1>3 DEF Whole, Row

LEMMA HalfIsNotWhole ==
  ASSUME info \in Info, NEW text \in Text, Half(text)
  PROVE  ~Whole(text, info)
<1> DEFINE m == Len(text) - 1
           old == SubSeq(text, 1, m)
<1>1. m \in Nat /\ Len(text) = m + 1 /\ Len(HeaderOf(info)) = 3 /\ ~info.csv
  BY AllOfIt, HeaderLines DEF Half
<1>2. Len(old) = m
  BY <1>1, TextIsLines
<1>3. m >= 3 /\ Whole(old, info)
  BY <1>1, <1>2 DEF Half, Complete
<1> HIDE DEF m, old
<1>4. m > 3 => (m - 3) % 2 = 0
  BY <1>1, <1>2, <1>3 DEF Whole
<1>5. ((m + 1) - 3) % 2 # 0
  BY <1>1, <1>3, <1>4
<1>6. Whole(text, info) => ((m + 1) - 3) % 2 = 0
  BY <1>1, <1>3 DEF Whole
<1> QED  BY <1>5, <1>6

LEMMA PartOfHalf ==
  ASSUME info \in Info, NEW text \in Text, Half(text)
  PROVE  WholePart(text, info) = SubSeq(text, 1, Len(text) - 1)
<1>1. Len(text) \in Nat /\ Len(text) > 0 /\ Whole(SubSeq(text, 1, Len(text) - 1), info)
  BY AllOfIt DEF Half, Complete
<1>2. ~Whole(SubSeq(text, 1, Len(text) - 0), info)
  <2>1. Len(text) - 0 = Len(text) /\ SubSeq(text, 1, Len(text)) = text
    BY <1>1, AllOfIt
  <2> QED  BY <2>1, HalfIsNotWhole
<1>3. 1 \in 0 .. Len(text) /\ 0 .. 1 - 1 = {0}
  BY <1>1
<1> QED  BY <1>1, <1>2, <1>3, PartIs

\* The line that the destructor cuts off is not published.
LEMMA PartOfTorn ==
  ASSUME info \in Info, NEW text \in Text, Whole(text, info) \/ Half(text)
  PROVE  WholePart(Append(text, "torn"), info) = WholePart(text, info)
<1> DEFINE new == Append(text, "torn")
           m == Len(text)
<1>1. m \in Nat /\ SubSeq(text, 1, m) = text
  BY AllOfIt
<1>2. new \in Text /\ Len(new) = m + 1 /\ new[m + 1] = "torn" /\ SubSeq(new, 1, m) = text
  BY AppendLine DEF Line
<1>3. m > 0 => SubSeq(new, 1, m - 1) = SubSeq(text, 1, m - 1)
  BY <1>1, TextIsLines
<1> HIDE DEF new, m
<1>4. m + 1 \in 1 .. Len(new) /\ Len(new) - 0 = m + 1 /\ Len(new) - 1 = m /\ Len(new) - 2 = m - 1
  BY <1>1, <1>2
<1>5. ~Whole(SubSeq(new, 1, Len(new) - 0), info)
  <2>1. ~Whole(new, info)
    BY <1>2, <1>4, TornIsNotWhole
  <2>2. SubSeq(new, 1, Len(new)) = new
    BY <1>2, AllOfIt
  <2> QED  BY <1>2, <1>4, <2>1, <2>2
<1>6. CASE Whole(text, info)
  <2>1. Whole(SubSeq(new, 1, Len(new) - 1), info)
    BY <1>2, <1>4, <1>6
  <2>2. \A k \in 0 .. 1 - 1 : ~Whole(SubSeq(new, 1, Len(new) - k), info)
    BY <1>5
  <2>3. 1 \in 0 .. Len(new)
    BY <1>1, <1>2
  <2>4. WholePart(new, info) = SubSeq(new, 1, Len(new) - 1)
    BY <1>2, <2>1, <2>2, <2>3, PartIs
  <2> QED  BY <1>2, <1>4, <2>4, <1>6, PartOfWhole DEF new
<1>7. CASE Half(text)
  <2>1. m > 0 /\ Whole(SubSeq(text, 1, m - 1), info) /\ ~Whole(text, info)
    BY <1>7, HalfIsNotWhole DEF Half, Complete, m
  <2>2. Whole(SubSeq(new, 1, Len(new) - 2), info)
    BY <1>3, <1>4, <2>1
  <2>3. ~Whole(SubSeq(new, 1, Len(new) - 1), info)
    BY <1>2, <1>4, <2>1
  <2>4. \A k \in 0 .. 2 - 1 : ~Whole(SubSeq(new, 1, Len(new) - k), info)
    <3>1. \A k \in 0 .. 2 - 1 : k = 0 \/ k = 1
      OBVIOUS
    <3> QED  BY <1>5, <2>3, <3>1
  <2>5. 2 \in 0 .. Len(new)
    BY <1>1, <1>2, <2>1
  <2>6. WholePart(new, info) = SubSeq(new, 1, Len(new) - 2)
    BY <1>2, <2>2, <2>4, <2>5, PartIs
  <2> QED  BY <1>3, <1>4, <2>1, <2>6, <1>7, PartOfHalf DEF new, m
<1> QED  BY <1>6, <1>7

\* AgentLog's setting and open, as Promise maps them.
Settled == IF guard = "built" THEN external_info_ ELSE <<>>
Usable == IF guard = "built" /\ info.fun THEN process # "exited" ELSE process = "up"

LEMMA PublishedNext ==
  Published' = IF guard' # "built" \/ info'.agent_file_ \notin File THEN <<>>
               ELSE IF info'.fun THEN disk'[info'.agent_file_]
               ELSE WholePart(disk'[info'.agent_file_], info')
BY DEF Published, WholePart, Whole, HeaderOf

LEMMA PublishedWhole ==
  ASSUME Shapes, OwnFile, info \in Info, Whole(disk[info.agent_file_], info)
  PROVE  Published = disk[info.agent_file_]
<1>1. disk[info.agent_file_] \in Text
  BY DEF Shapes, OwnFile
<1> QED  BY <1>1, PartOfWhole DEF Published, OwnFile

\* A step that neither starts the agent nor writes, reads or closes the file.
Unmoved ==
  /\ UNCHANGED <<disk, got, process>>
  /\ guard = "built" => guard' = "built" /\ UNCHANGED external_info_
  /\ guard # "built" => guard' # "built"

LEMMA UnmovedIsStutter == Unmoved => UNCHANGED Promise!vars
<1> SUFFICES ASSUME Unmoved PROVE UNCHANGED <<Settled, Published, got, Usable>>
  BY DEF Promise!vars, Settled, Usable
<1>1. guard = "built" => info' = info
  BY DEF Unmoved, info
<1>2. Published' = Published
  BY <1>1, PublishedNext DEF Published, Unmoved
<1>3. Usable' = Usable /\ Settled' = Settled
  BY <1>1 DEF Usable, Settled, Unmoved
<1> QED  BY <1>2, <1>3 DEF Unmoved

LEMMA OneIsSome == \A s : Len(s) = 1 => s # <<>>
OBVIOUS

\* Steps of AgentLog, in the variables of GuestAgent.
LEMMA SettleIs ==
  ASSUME guard # "built", guard' = "built", process = "up", Usable', UNCHANGED <<external_info_, got>>,
         NEW i \in Info, external_info_ = <<i>>, Published' = <<>>
  PROVE  Promise!Settle
<1>1. Published = <<>>
  BY DEF Published
<1>2. Usable' = TRUE /\ Usable = TRUE
  BY DEF Usable
<1>3. Settled = <<>> /\ Settled' = <<i>>
  BY DEF Settled
<1> QED  BY <1>1, <1>2, <1>3 DEF Promise!Settle, Settled, Usable

LEMMA ReadIs ==
  ASSUME guard = "built", process = "up", Len(external_info_) = 1, NEW c \in Caller,
         UNCHANGED <<guard, external_info_, disk, process>>
  PROVE  /\ got' = [got EXCEPT ![c] = Published] => Promise!Read(c)
         /\ got' = [got EXCEPT ![c] = <<>>] => Promise!ReadFails(c)
<1>1. info' = info
  BY DEF info
<1>2. Published' = Published
  BY <1>1, PublishedNext DEF Published
<1>3. Usable = TRUE /\ Usable' = TRUE /\ Settled' = Settled /\ Settled # <<>>
  BY <1>1 DEF Usable, Settled
<1> QED  BY <1>2, <1>3 DEF Promise!Read, Promise!ReadFails, Promise!Active, Settled, Usable

LEMMA CloseIs ==
  ASSUME Usable, ~Usable', UNCHANGED <<guard, external_info_, got>>, Published' = Published
  PROVE  Promise!Close
<1>1. Usable \in BOOLEAN /\ Usable' \in BOOLEAN
  BY DEF Usable
<1>2. Settled' = Settled
  BY DEF Settled
<1> QED  BY <1>1, <1>2 DEF Promise!Close, Settled, Usable

LEMMA PublishIs ==
  ASSUME guard = "built", info \in Info, Len(external_info_) = 1, Usable, Usable',
         UNCHANGED <<guard, external_info_, got>>,
         \/ /\ ~info.fun /\ Len(Published) < Len(HeaderOf(info))
            /\ Published' = Append(Published, HeaderOf(info)[Len(Published) + 1])
         \/ /\ info.fun \/ Len(Published) >= Len(HeaderOf(info))
            /\ Len(Published) \in Nat
            /\ \E g \in GroupOf(info) : Published' = Published \o g
  PROVE  Promise!PublishHeader \/ Promise!PublishGroup
<1> DEFINE Header == [i \in Info |-> IF i.fun THEN <<>> ELSE HeaderOf(i)]
           Group == [i \in Info |-> GroupOf(i)]
<1>1. Settled[1] = info /\ Settled # <<>> /\ Settled' = Settled
  <2>1. Settled = external_info_ /\ Settled' = external_info_
    BY DEF Settled
  <2>2. external_info_ # <<>>
    BY OneIsSome
  <2> QED  BY <2>1, <2>2 DEF info
<1>2. Usable = TRUE /\ Usable' = Usable
  BY DEF Usable
<1>3. Header[Settled[1]] = (IF info.fun THEN <<>> ELSE HeaderOf(info)) /\ Group[Settled[1]] = GroupOf(info)
  BY <1>1
<1>4. CASE /\ ~info.fun /\ Len(Published) < Len(HeaderOf(info))
           /\ Published' = Append(Published, HeaderOf(info)[Len(Published) + 1])
  <2>1. Promise!PublishHeader
    BY <1>1, <1>2, <1>3, <1>4 DEF Promise!PublishHeader, Promise!Active, Settled, Usable
  <2> QED  BY <2>1
<1>5. CASE /\ info.fun \/ Len(Published) >= Len(HeaderOf(info))
           /\ Len(Published) \in Nat
           /\ \E g \in GroupOf(info) : Published' = Published \o g
  <2>1. Len(Published) >= Len(Header[Settled[1]])
    BY <1>3, <1>5
  <2>2. Promise!PublishGroup
    BY <1>1, <1>2, <1>3, <1>5, <2>1 DEF Promise!PublishGroup, Promise!Active, Settled, Usable
  <2> QED  BY <2>2
<1> QED  BY <1>4, <1>5

\* The facts of the invariant about an instance that is there.
LEMMA OfInstance ==
  ASSUME Inv, guard = "built"
  PROVE  /\ info \in Info /\ Len(external_info_) = 1 /\ (daemon \in {"ownopen", "own"} <=> info.fun) /\ daemon # "none"
         /\ info.fun \in BOOLEAN /\ info.csv \in BOOLEAN
         /\ info.agent_file_ \in File => disk[info.agent_file_] \in Text
         /\ info.agent_file_ \in File /\ ~info.fun => OwnFile
BY InfoIsSet, InfoFields DEF Inv, Setup, Shapes, OwnFile

LEMMA CtorRefines ==
  ASSUME Inv, NEW c \in Caller, CtorOpens(c) \/ CtorOwnDaemon(c)
  PROVE  Promise!Settle
<1>1. /\ pc[c] = "calling" /\ guard = c /\ guard' = "built" /\ UNCHANGED <<external_info_, process, got>>
      /\ external_info_ = arg[c] /\ Len(arg[c]) = 1
      /\ arg[c][1].fun <=> CtorOwnDaemon(c)
  BY DEF CtorOpens, CtorOwnDaemon, Leave, Inv, Setup
<1>2. guard # "built" /\ process = "up"
  BY <1>1, Names DEF Inv, Setup, Shapes
<1>3. info \in Info /\ info' = info /\ external_info_ = <<info>>
  <2>1. external_info_ \in Seq(Info) /\ Len(external_info_) = 1
    BY <1>1 DEF Inv, Shapes
  <2> QED  BY <1>1, <2>1 DEF info
<1>4. info.agent_file_ \in File => disk'[info.agent_file_] = <<>>
  <2>1. \A f \in File : disk[f] = <<>>
    BY <1>2 DEF Inv, Setup
  <2>2. disk' = disk
    BY CtorKeepsDisk DEF Inv, Ctor
  <2> QED  BY <2>1, <2>2
<1>5. WholePart(<<>>, info) = <<>>
  <2>1. <<>> \in Text /\ Len(<<>>) = 0 /\ Len(HeaderOf(info)) \in {1, 3}
    BY <1>3, HeaderLines, TextIsLines
  <2>2. Whole(<<>>, info)
    BY <2>1 DEF Whole
  <2> QED  BY <2>1, <2>2, PartOfWhole
<1>6. Published' = <<>>
  BY <1>3, <1>4, <1>5, PublishedNext
<1>7. Usable'
  BY <1>1, <1>2 DEF Usable
<1> QED  BY <1>1, <1>2, <1>3, <1>6, <1>7, SettleIs

LEMMA ReadFileRefines ==
  ASSUME Inv, NEW c \in Caller, ReadFile(c)
  PROVE  Promise!Read(c)
<1>1. /\ pc[c] = "reading" /\ info.agent_file_ \in File
      /\ got' = [got EXCEPT ![c] = disk[info.agent_file_]]
      /\ UNCHANGED <<guard, external_info_, disk, process>>
  BY DEF ReadFile, Return, static
<1>2. guard = "built" /\ (info.fun \/ Whole(disk[info.agent_file_], info))
  BY <1>1, ReadsWhole DEF Inv
<1>3. process = "up"
  BY <1>1 DEF Inv, Setup, Shapes
<1>4. Published = disk[info.agent_file_]
  <2>1. CASE info.fun
    BY <1>1, <1>2, <2>1 DEF Published
  <2>2. CASE ~info.fun
    BY <1>1, <1>2, <2>2, OfInstance, PublishedWhole DEF Inv
  <2> QED  BY <2>1, <2>2
<1> QED  BY <1>1, <1>2, <1>3, <1>4, OfInstance, ReadIs

LEMMA CallsRefine ==
  ASSUME Inv, NEW c \in Caller, Calls(c)
  PROVE  [Promise!Next]_(Promise!vars)
<1>1. CASE CtorOpens(c) \/ CtorOwnDaemon(c)
  BY <1>1, CtorRefines DEF Promise!Next
<1>2. CASE ReadFile(c)
  BY <1>2, ReadFileRefines DEF Promise!Next
<1>3. CASE ReadFails(c)
  <2>1. pc[c] = "reading" /\ got' = [got EXCEPT ![c] = <<>>]
        /\ UNCHANGED <<guard, external_info_, disk, process>>
    BY <1>3 DEF ReadFails, Return, static
  <2>2. guard = "built" /\ process = "up" /\ Len(external_info_) = 1
    BY <2>1 DEF Inv, Setup, Shapes
  <2>3. Promise!ReadFails(c)
    BY <2>1, <2>2, ReadIs
  <2> QED  BY <2>3 DEF Promise!Next
<1>4. CASE \/ Call(c) \/ BeginCtor(c) \/ CtorThrows(c) \/ GetBuilt(c) \/ Finish(c)
           \/ ReadAgentFile(c) \/ LockForRead(c)
  <2>d. disk' = disk
    BY <1>4, CtorKeepsDisk DEF Inv, Ctor, Call, BeginCtor, GetBuilt, Finish, ReadAgentFile, LockForRead
  <2>1. Unmoved
    BY <1>4, <2>d, Names DEF Call, BeginCtor, MayBuild, CtorThrows, AfterThrow, GetBuilt, Leave, Finish,
       ReadAgentFile, LockForRead, caller, static, Unmoved
  <2> QED  BY <2>1, UnmovedIsStutter
<1> QED  BY <1>1, <1>2, <1>3, <1>4 DEF Calls, Ctor, Read

\* A line of the instance's file: what was published before it, and after.
LEMMA LinePublished ==
  ASSUME Inv, guard = "built", info.agent_file_ \in File, NEW l \in Line, Wrote(l)
  PROVE  /\ info' = info /\ guard' = "built" /\ UNCHANGED external_info_
         /\ Published = IF info.fun THEN disk[info.agent_file_] ELSE WholePart(disk[info.agent_file_], info)
         /\ Published' = IF info.fun THEN Append(disk[info.agent_file_], l)
                         ELSE WholePart(Append(disk[info.agent_file_], l), info)
<1>1. /\ info' = info /\ guard' = "built" /\ UNCHANGED external_info_
      /\ disk'[info.agent_file_] = Append(disk[info.agent_file_], l)
  BY DEF Wrote, Inv, Shapes, info
<1> QED  BY <1>1, PublishedNext DEF Published

\* Nothing is written once the stream is closed, or when there is no file.
LEMMA PutNothing ==
  ASSUME Inv, NEW l, Put(l), process # "up" \/ info.agent_file_ \notin File, process # "exited"
  PROVE  UNCHANGED disk
BY DEF Put, Inv, Setup, Shapes

LEMMA PutWrites ==
  ASSUME Inv, NEW l, Put(l), process = "up", info.agent_file_ \in File, daemon \notin {"none", "ownopen", "own"},
         UNCHANGED static
  PROVE  Wrote(l)
BY DEF Put, Wrote, static, Inv, Setup, Shapes

LEMMA HeaderRefines ==
  ASSUME Inv, HeaderLine
  PROVE  [Promise!Next]_(Promise!vars)
<1>u. daemon = "header" /\ guard = "built" /\ ~info.fun /\ UNCHANGED <<got, process>>
  BY OfInstance DEF HeaderLine, caller, Inv, Setup
<1>1. CASE UNCHANGED disk
  <2>1. Unmoved
    BY <1>u, <1>1 DEF HeaderLine, static, Unmoved
  <2> QED  BY <2>1, UnmovedIsStutter
<1>2. CASE ~UNCHANGED disk
  <2> DEFINE text == disk[info.agent_file_]
             n == Len(text) + 1
             new == Append(text, HeaderOf(info)[n])
  <2>1. /\ process = "up" /\ OwnFile /\ Begun(text)
        /\ HeaderOf(info)[n] \in Line /\ Wrote(HeaderOf(info)[n])
    BY <1>2, HeaderStep DEF Inv, Files
  <2>2. text \in Text /\ info \in Info /\ info.agent_file_ \in File
    BY <1>u, <2>1, OfInstance DEF OwnFile
  <2>3. Whole(text, info) /\ Whole(new, info) /\ new \in Text
    BY <2>1, <2>2, AppendLine, BegunIsWhole, HeaderGrows DEF Complete
  <2>4. Published = text /\ Published' = new /\ UNCHANGED <<guard, external_info_>> /\ info' = info
    BY <1>u, <2>1, <2>2, <2>3, LinePublished, PartOfWhole
  <2>5. Len(Published) < Len(HeaderOf(info))
    BY <2>1, <2>4 DEF Begun
  <2>6. Usable /\ Usable'
    BY <1>u, <2>1, <2>4 DEF Usable
  <2>7. Published' = Append(Published, HeaderOf(info)[Len(Published) + 1])
    BY <2>4
  <2> HIDE DEF text, n, new
  <2> QED  BY <1>u, <2>2, <2>4, <2>5, <2>6, <2>7, OfInstance, PublishIs DEF Promise!Next
<1> QED  BY <1>1, <1>2

LEMMA Joined ==
  ASSUME NEW text \in Text, NEW l \in Line
  PROVE  Append(text, l) = text \o <<l>>
BY TextIsLines

LEMMA RowRefines ==
  ASSUME Inv, RowLine
  PROVE  [Promise!Next]_(Promise!vars)
<1>u. /\ daemon = "row" /\ guard = "built" /\ ~info.fun /\ UNCHANGED <<got, process, static>>
      /\ Figures \in Line /\ Figures \in Row /\ Put(Figures) /\ process # "exited" /\ info \in Info
  BY OfInstance DEF RowLine, DaemonStep, Figures, Line, Row, caller, Inv, Setup
<1>1. CASE process # "up" \/ info.agent_file_ \notin File
  <2>1. Unmoved
    BY <1>u, <1>1, PutNothing DEF static, Unmoved
  <2> QED  BY <2>1, UnmovedIsStutter
<1>2. CASE process = "up" /\ info.agent_file_ \in File
  <2> DEFINE text == disk[info.agent_file_]
             new == Append(text, Figures)
  <2>1. Wrote(Figures) /\ text \in Text /\ OwnFile
    BY <1>u, <1>2, PutWrites, OfInstance
  <2>2. Complete(text) /\ Len(text) \in Nat
    BY <1>u, <1>2, <2>1, AllOfIt DEF Inv, Files, Written, Grown
  <2>3. WholePart(text, info) = text /\ new \in Text /\ new = text \o <<Figures>>
    BY <1>u, <2>1, <2>2, PartOfWhole, AppendLine, Joined DEF Complete
  <2>4. /\ Published = text /\ Published' = WholePart(new, info)
        /\ UNCHANGED <<guard, external_info_>> /\ info' = info
    BY <1>u, <1>2, <2>1, <2>3, LinePublished
  <2>5. Usable /\ Usable'
    BY <1>u, <1>2, <2>4 DEF Usable
  <2>6. CASE info.csv
    <3>1. Published' = new
      BY <1>u, <2>1, <2>2, <2>3, <2>4, <2>6, RowOfCsv, PartOfWhole DEF Complete
    <3>2. \E g \in GroupOf(info) : Published' = Published \o g
      BY <1>u, <2>3, <2>4, <2>6, <3>1 DEF GroupOf
    <3>3. Len(Published) \in Nat /\ Len(Published) >= Len(HeaderOf(info))
      BY <2>2, <2>4 DEF Complete
    <3> HIDE DEF text, new
    <3> QED  BY <1>u, <2>4, <2>5, <3>2, <3>3, OfInstance, PublishIs DEF Promise!Next
  <2>7. CASE ~info.csv
    <3>1. WholePart(new, info) = SubSeq(new, 1, Len(new) - 1)
      BY <1>u, <2>1, <2>2, <2>3, <2>7, RowOfTable, PartOfHalf
    <3>2. Len(new) - 1 = Len(text) /\ SubSeq(new, 1, Len(text)) = text
      BY <1>u, <2>1, <2>2, AppendLine
    <3>3. Published' = Published
      BY <2>4, <3>1, <3>2
    <3>4. Settled' = Settled /\ Usable' = Usable
      BY <1>u, <2>4 DEF Settled, Usable
    <3> QED  BY <1>u, <3>3, <3>4 DEF Promise!vars, Settled, Usable
  <2> QED  BY <2>6, <2>7
<1> QED  BY <1>1, <1>2

LEMMA BorderRefines ==
  ASSUME Inv, BorderLine
  PROVE  [Promise!Next]_(Promise!vars)
<1>u. /\ daemon = "border" /\ guard = "built" /\ ~info.fun /\ UNCHANGED <<got, process, static>>
      /\ Put("border") /\ process # "exited" /\ info \in Info /\ "border" \in Line
  BY OfInstance DEF BorderLine, DaemonStep, Line, caller, Inv, Setup
<1>1. CASE process # "up" \/ info.agent_file_ \notin File
  <2>1. Unmoved
    BY <1>u, <1>1, PutNothing DEF static, Unmoved
  <2> QED  BY <2>1, UnmovedIsStutter
<1>2. CASE process = "up" /\ info.agent_file_ \in File
  <2> DEFINE text == disk[info.agent_file_]
             m == Len(text) - 1
             old == SubSeq(text, 1, m)
             new == Append(text, "border")
  <2>1. Wrote("border") /\ text \in Text /\ OwnFile
    BY <1>u, <1>2, PutWrites, OfInstance
  <2>2. Half(text) /\ m \in Nat /\ Len(text) = m + 1
    BY <1>u, <1>2, <2>1, AllOfIt DEF Inv, Files, Written, Grown, Half
  <2>3. old \in Text /\ Len(old) = m /\ Len(old) >= Len(HeaderOf(info)) /\ ~info.csv /\ text[m + 1] \in Row
    BY <2>1, <2>2, TextIsLines DEF Half, Complete
  <2>4. new \in Text /\ WholePart(new, info) = new /\ WholePart(text, info) = old
    BY <1>u, <2>1, <2>2, BorderOfTable, AppendLine, PartOfWhole, PartOfHalf DEF Complete
  <2>5. new = old \o <<text[m + 1], "border">>
    BY <2>1, <2>2, <2>3, <1>u, TextIsLines
  <2>6. /\ Published = old /\ Published' = new
        /\ UNCHANGED <<guard, external_info_>> /\ info' = info
    BY <1>u, <1>2, <2>1, <2>4, LinePublished
  <2>7. Usable /\ Usable'
    BY <1>u, <1>2, <2>6 DEF Usable
  <2>8. \E g \in GroupOf(info) : Published' = Published \o g
    BY <1>u, <2>3, <2>5, <2>6 DEF GroupOf
  <2>9. Len(Published) \in Nat /\ Len(Published) >= Len(HeaderOf(info))
    BY <2>2, <2>3, <2>6
  <2> HIDE DEF text, m, old, new
  <2> QED  BY <1>u, <2>6, <2>7, <2>8, <2>9, OfInstance, PublishIs DEF Promise!Next
<1> QED  BY <1>1, <1>2

LEMMA OwnLineRefines ==
  ASSUME Inv, OwnLine
  PROVE  [Promise!Next]_(Promise!vars)
<1> DEFINE text == disk[info.agent_file_]
           new == Append(text, "hello")
<1>1. /\ daemon = "own" /\ guard = "built" /\ info.fun /\ UNCHANGED <<got, process, static>>
      /\ info.agent_file_ \in File /\ process # "exited" /\ info \in Info /\ "hello" \in Line
  BY OfInstance DEF OwnLine, Line, caller, Inv, Setup
<1>2. Wrote("hello") /\ text \in Text
  BY <1>1, OfInstance DEF OwnLine, Wrote, static
<1>3. new = text \o <<"hello">> /\ Len(text) \in Nat
  BY <1>1, <1>2, Joined, AllOfIt
<1>4. Published = text /\ Published' = new /\ UNCHANGED <<guard, external_info_>> /\ info' = info
  BY <1>1, <1>2, LinePublished
<1>5. Usable /\ Usable'
  BY <1>1, <1>4 DEF Usable
<1>6. \E g \in GroupOf(info) : Published' = Published \o g
  BY <1>1, <1>3, <1>4 DEF GroupOf
<1>7. Len(Published) \in Nat
  BY <1>3, <1>4
<1> HIDE DEF text, new
<1> QED  BY <1>1, <1>4, <1>5, <1>6, <1>7, OfInstance, PublishIs DEF Promise!Next

\* The line that the destructor tears belongs to no published group.
LEMMA ClosePublishes ==
  ASSUME Inv, Close
  PROVE  Published' = Published
<1>1. process = "up" /\ UNCHANGED <<guard, external_info_, daemon>> /\ info' = info
      /\ (UNCHANGED disk \/ (daemon \in {"header", "row", "border"} /\ Put("torn")))
  BY DEF Close, static, info
<1>2. CASE UNCHANGED disk
  BY <1>1, <1>2, PublishedNext DEF Published
<1>3. CASE ~UNCHANGED disk
  <2> DEFINE text == disk[info.agent_file_]
  <2>1. daemon \in {"header", "row", "border"} /\ info.agent_file_ \in File
        /\ disk' = [disk EXCEPT ![info.agent_file_] = Append(@, "torn")]
    BY <1>1, <1>3 DEF Put
  <2>2. guard = "built" /\ ~info.fun /\ info \in Info /\ text \in Text /\ OwnFile
    BY <2>1, OfInstance DEF Inv, Setup
  <2>3. Grown(text)
    BY <1>1, <2>2 DEF Inv, Files, Written
  <2>4. Whole(text, info) \/ Half(text)
    BY <2>2, <2>3, BegunIsWhole DEF Grown, Complete
  <2>5. disk'[info.agent_file_] = Append(text, "torn")
    BY <2>1 DEF Inv, Shapes
  <2>6. WholePart(Append(text, "torn"), info) = WholePart(text, info)
    BY <2>2, <2>4, PartOfTorn
  <2> QED  BY <1>1, <2>1, <2>2, <2>5, <2>6, PublishedNext DEF Published
<1> QED  BY <1>2, <1>3

LEMMA EndRefines ==
  ASSUME Inv, Close \/ TopCrashes \/ OwnThrows \/ Exit
  PROVE  [Promise!Next]_(Promise!vars)
<1>1. UNCHANGED <<guard, external_info_, got>> /\ info' = info /\ Published' = Published
  <2>1. CASE Close
    BY <2>1, ClosePublishes DEF Close, static, caller, info
  <2>2. CASE TopCrashes \/ OwnThrows \/ Exit
    <3>1. UNCHANGED <<guard, external_info_, got, disk>> /\ info' = info
      BY <2>2 DEF TopCrashes, OwnThrows, Die, Exit, static, caller, info
    <3> QED  BY <3>1, PublishedNext DEF Published
  <2> QED  BY <2>1, <2>2
<1>2. Usable' => Usable
  BY <1>1 DEF Usable, Close, TopCrashes, OwnThrows, Die, Exit, Inv, Shapes
<1>3. CASE Usable /\ ~Usable'
  BY <1>1, <1>3, CloseIs DEF Promise!Next
<1>4. CASE Usable <=> Usable'
  <2>1. Usable' = Usable /\ Settled' = Settled
    BY <1>1, <1>4 DEF Usable, Settled
  <2> QED  BY <1>1, <2>1 DEF Promise!vars, Settled, Usable
<1> QED  BY <1>2, <1>3, <1>4

LEMMA RestRefines ==
  ASSUME Inv, DaemonLock \/ Unlock \/ WakeUp \/ OwnOpens \/ Second \/ UNCHANGED vars
  PROVE  [Promise!Next]_(Promise!vars)
<1>2. OwnOpens => Unmoved
  BY OwnKeepsDisk DEF Inv, OwnOpens, DaemonStep, static, caller, Unmoved
<1>1. Unmoved
  BY <1>2 DEF DaemonLock, Unlock, WakeUp, DaemonStep, Second, static, caller, vars, Unmoved
<1> QED  BY <1>1, UnmovedIsStutter

LEMMA StepRefines ==
  ASSUME Inv, [Next]_vars
  PROVE  [Promise!Next]_(Promise!vars)
BY Steps, CallsRefine, HeaderRefines, RowRefines, BorderRefines, OwnLineRefines, EndRefines,
   RestRefines DEF Others, Daemon

LEMMA InitRefines == Init => Promise!Init
<1> SUFFICES ASSUME Init PROVE Settled = <<>> /\ Published = <<>> /\ Usable
  BY DEF Init, Promise!Init, Settled, Usable
<1> QED  BY DEF Init, Settled, Published, Usable

\* The agent keeps the promise of AgentLog (lines 36-302): one file with the configuration
\* that came first, to which whole groups are published, and of which every thread that
\* reads it gets all that is published at that moment and nothing else.
THEOREM Implements == Spec => KeepsPromise
<1>2. Inv /\ [Next]_vars => [Promise!Next]_(Promise!vars)
  BY StepRefines
<1> QED
  BY InitRefines, Invariance, <1>2, PTL DEF Spec, KeepsPromise, Promise!Spec
=============================================================================
