----------------------------- MODULE GuestAgent -----------------------------
(***************************************************************************)
(* Class GuestAgent of include/commutils/guest_agent_.h: a function-static *)
(* instance whose detached daemon thread appends usage rows to a file,     *)
(* which any thread reads back with ReadAgentFile, and which the static    *)
(* destructor closes without stopping the daemon.                          *)
(*                                                                         *)
(* A line is written with one flush (std::endl), so a step writes a line.  *)
(* Lines are "header", "border", "row", "oddrow" (its cpu usage computed   *)
(* as inf or nan), "hello" (of a user's own daemon), and "torn".           *)
(* The threads that call in are those of the program using the library;    *)
(* main waits for them before it returns.  Operators named Bug... are      *)
(* wrong variants of the next definition, which no specification uses.     *)
(***************************************************************************)
EXTENDS Naturals, Sequences, SequencesExt

CONSTANTS
  Caller,    \* threads that call GetGuestAgentInstance and ReadAgentFile
  File,      \* names of agent files other than ""
  Info,      \* the GuestAgentExternalInfo records they pass: agent_file_,
             \* csv (its suffix), fun (own daemon), interval_, cpu_method_
  MaxNow,    \* bound: seconds since the process started
  MaxLines,  \* bound: lines per file
  MaxCalls   \* bound: calls per thread

ASSUME GuestAgentAssumption ==
  /\ \A i \in Info : /\ i.agent_file_ \in File \cup {""}
                     /\ i.agent_file_ = "" => ~i.csv
                     /\ i.csv \in BOOLEAN /\ i.fun \in BOOLEAN
                     /\ i.interval_ \in Nat /\ i.cpu_method_ \in {"top", "stat"}
  /\ MaxNow \in Nat /\ MaxCalls \in Nat /\ MaxLines \in Nat \ 0 .. 2
  /\ {"none", "built", "free", "daemon"} \cap Caller = {}

VARIABLES
  guard,           \* of the static: "none", the thread in the constructor, "built"
  external_info_,  \* <<info>> of the constructor that ran last
  ofs_open,        \* ofs_agent_file_.is_open()
  disk,            \* the lines of every file
  file_lock_,      \* "free", "daemon" or the thread in ReadAgentFile
  daemon,          \* "none", "header", "lock", "row", "border", "unlock", "sleep", "ownopen", "own"
  wake,            \* when the sleeping daemon wakes up
  now,             \* whole seconds since the process started
  pc,              \* "idle", "calling", "ready", "waiting", "reading", "done"
  arg,             \* <<info>> a thread is calling GetGuestAgentInstance with
  got,             \* the last text a thread got from ReadAgentFile
  calls,
  process          \* "up", "closed" (the destructor has run), "exited"

static == <<guard, external_info_>>
caller == <<pc, arg, got, calls>>
vars == <<static, ofs_open, disk, file_lock_, daemon, wake, now, caller, process>>

info == external_info_[1]
HeaderOf(i) == IF i.csv THEN <<"header">> ELSE <<"border", "header", "border">>

Init ==
  /\ guard = "none" /\ external_info_ = <<>>
  /\ ofs_open = FALSE /\ disk = [f \in File |-> <<>>]
  /\ file_lock_ = "free" /\ daemon = "none" /\ wake = 0 /\ now = 0
  /\ pc = [c \in Caller |-> "idle"] /\ arg = [c \in Caller |-> <<>>]
  /\ got = [c \in Caller |-> <<>>] /\ calls = [c \in Caller |-> 0]
  /\ process = "up"

Second == /\ now < MaxNow /\ process # "exited"
          /\ now' = now + 1
          /\ UNCHANGED <<static, ofs_open, disk, file_lock_, daemon, wake, caller, process>>

(***************************************************************************)
(* GetGuestAgentInstance: the guard of the static lets one thread run the  *)
(* constructor; when it throws the next call tries again.                  *)
(***************************************************************************)
Call(c) ==
  /\ pc[c] = "idle" /\ calls[c] < MaxCalls
  /\ calls' = [calls EXCEPT ![c] = @ + 1]
  /\ \E i \in Info : arg' = [arg EXCEPT ![c] = <<i>>]
  /\ pc' = [pc EXCEPT ![c] = "calling"]
  /\ UNCHANGED <<static, ofs_open, disk, file_lock_, daemon, wake, now, got, process>>

BugMayBuild == TRUE
MayBuild == guard = "none"

BeginCtor(c) ==
  /\ pc[c] = "calling" /\ MayBuild
  /\ guard' = c
  /\ external_info_' = arg[c]
  /\ UNCHANGED <<ofs_open, disk, file_lock_, daemon, wake, now, caller, process>>

Leave(c, to) ==
  /\ pc' = [pc EXCEPT ![c] = to] /\ arg' = [arg EXCEPT ![c] = <<>>]
  /\ UNCHANGED <<got, calls>>

\* open() truncates.
Truncated(name) == [f \in File |-> IF f = name THEN <<>> ELSE disk[f]]

\* The file is open, the daemon thread is started, the instance is there.
CtorOpens(c) ==
  /\ pc[c] = "calling" /\ guard = c /\ ~arg[c][1].fun
  /\ guard' = "built" /\ ofs_open' = TRUE /\ daemon' = "header"
  /\ disk' = Truncated(arg[c][1].agent_file_)
  /\ Leave(c, "ready")
  /\ UNCHANGED <<external_info_, file_lock_, wake, now, process>>

BugCtorThrows(c) ==
  /\ pc[c] = "calling" /\ guard = c /\ ~arg[c][1].fun
  /\ guard' = "built" /\ daemon' = "header" /\ Leave(c, "ready")
  /\ UNCHANGED <<external_info_, ofs_open, disk, file_lock_, wake, now, process>>

BugAfterThrow == guard
AfterThrow == "none"

\* The file cannot be opened, or (the file being open and empty by then) the thread cannot
\* be started: the exception leaves the static unbuilt.
CtorThrows(c) ==
  /\ pc[c] = "calling" /\ guard = c
  /\ disk' \in {disk} \cup {Truncated(i.agent_file_) : i \in {i \in {arg[c][1]} : ~i.fun}}
  /\ guard' = AfterThrow /\ Leave(c, "idle")
  /\ UNCHANGED <<external_info_, ofs_open, file_lock_, daemon, wake, now, process>>

CtorOwnDaemon(c) ==
  /\ pc[c] = "calling" /\ guard = c /\ arg[c][1].fun
  /\ guard' = "built" /\ daemon' = "ownopen" /\ Leave(c, "ready")
  /\ UNCHANGED <<external_info_, ofs_open, disk, file_lock_, wake, now, process>>

\* The static is built: the argument of this call is not looked at.
GetBuilt(c) ==
  /\ pc[c] = "calling" /\ guard = "built"
  /\ Leave(c, "ready")
  /\ UNCHANGED <<static, ofs_open, disk, file_lock_, daemon, wake, now, process>>

(***************************************************************************)
(* ReadAgentFile.                                                          *)
(***************************************************************************)
BugLockFree == TRUE
LockFree == file_lock_ = "free"

ReadAgentFile(c) ==
  /\ pc[c] = "ready" /\ calls[c] < MaxCalls
  /\ calls' = [calls EXCEPT ![c] = @ + 1]
  /\ pc' = [pc EXCEPT ![c] = "waiting"]
  /\ UNCHANGED <<static, ofs_open, disk, file_lock_, daemon, wake, now, arg, got, process>>

LockForRead(c) ==
  /\ pc[c] = "waiting" /\ LockFree
  /\ file_lock_' = c
  /\ pc' = [pc EXCEPT ![c] = "reading"]
  /\ UNCHANGED <<static, ofs_open, disk, daemon, wake, now, arg, got, calls, process>>

Return(c, text) ==
  /\ pc[c] = "reading"
  /\ pc' = [pc EXCEPT ![c] = "ready"]
  /\ got' = [got EXCEPT ![c] = text]
  /\ file_lock_' = "free"
  /\ UNCHANGED <<static, ofs_open, disk, daemon, wake, now, arg, calls, process>>

ReadFile(c) ==
  pc[c] = "reading" /\ info.agent_file_ \in File /\ Return(c, disk[info.agent_file_])

\* open fails (always for the empty name) and "" is returned.
ReadFails(c) == Return(c, <<>>)

Finish(c) ==
  /\ pc[c] \in {"idle", "ready"}
  /\ pc' = [pc EXCEPT ![c] = "done"]
  /\ UNCHANGED <<static, ofs_open, disk, file_lock_, daemon, wake, now, arg, got, calls,
                 process>>

(***************************************************************************)
(* Run, the daemon thread.                                                 *)
(***************************************************************************)
\* A line goes to the file while the stream is open ("" is /dev/null).
Put(line) ==
  disk' = IF ofs_open /\ info.agent_file_ \in File
          THEN [disk EXCEPT ![info.agent_file_] = Append(@, line)] ELSE disk

\* The header, without the lock.  The lines of a file that is not there, or has been
\* closed, are not counted.
HeaderLine ==
  /\ daemon = "header" /\ process # "exited"
  /\ IF info.agent_file_ \notin File \/ ~ofs_open
     THEN daemon' = "lock" /\ UNCHANGED disk
     ELSE LET n == Len(disk[info.agent_file_]) + 1 IN
          /\ Put(HeaderOf(info)[n])
          /\ daemon' = IF n = Len(HeaderOf(info)) THEN "lock" ELSE "header"
  /\ UNCHANGED <<static, ofs_open, file_lock_, wake, now, caller, process>>

DaemonStep(from, to) ==
  /\ daemon = from /\ daemon' = to /\ process # "exited"
  /\ UNCHANGED <<static, ofs_open, now, caller, process>>

DaemonLock ==
  /\ DaemonStep("lock", "row")
  /\ file_lock_ = "free" /\ file_lock_' = "daemon"
  /\ \A f \in File : Len(disk[f]) + 2 <= MaxLines
  /\ UNCHANGED <<disk, wake>>

\* A row with its figures.  By "stat", cpu usage is 100 * (total_time / Hertz) / seconds,
\* with seconds = 0 in the first second of the process.  By "top", it is the word under
\* "%CPU" in the line that holds the process id, or "0.00" without such a line.  A figure
\* whose file in /proc cannot be opened is empty.
Figures == IF info.cpu_method_ = "stat" /\ now = 0 THEN "oddrow" ELSE "row"

BugAfterRow == "unlock"
AfterRow == IF info.csv THEN "unlock" ELSE "border"

RowLine ==
  /\ DaemonStep("row", AfterRow)
  /\ Put(Figures)
  /\ UNCHANGED <<file_lock_, wake>>

BorderLine ==
  /\ DaemonStep("border", "unlock")
  /\ Put("border")
  /\ UNCHANGED <<file_lock_, wake>>

Die ==
  /\ process # "exited" /\ process' = "exited"
  /\ pc' = [c \in Caller |-> "done"] /\ arg' = [c \in Caller |-> <<>>]
  /\ UNCHANGED <<static, ofs_open, disk, daemon, wake, now, got, calls>>

\* The line that holds the process id need not be the one of the process: when it has
\* fewer words than the column's number, tokens[slot] is out of range, and may kill the
\* process instead of giving a row.
TopCrashes == daemon = "row" /\ info.cpu_method_ = "top" /\ Die /\ UNCHANGED file_lock_

BugUnlocked == file_lock_
Unlocked == "free"

Unlock ==
  /\ DaemonStep("unlock", "sleep")
  /\ file_lock_' = Unlocked
  /\ wake' = now + info.interval_
  /\ UNCHANGED disk

WakeUp ==
  /\ DaemonStep("sleep", "lock")
  /\ now >= wake
  /\ UNCHANGED <<file_lock_, disk, wake>>

\* A daemon of the program's own, the one of test_guest_agent_external_daemon_func.cc: it
\* knows the file, which it opens itself, but not the lock.
OwnOpens ==
  /\ DaemonStep("ownopen", "own")
  /\ disk' = Truncated(info.agent_file_)
  /\ UNCHANGED <<file_lock_, wake>>

\* It throws when it cannot open the file, and nobody catches that.
OwnThrows == daemon = "ownopen" /\ Die /\ file_lock_' = "free"

OwnLine ==
  /\ daemon = "own" /\ info.agent_file_ \in File /\ process # "exited"
  /\ Len(disk[info.agent_file_]) < MaxLines
  /\ disk' = [disk EXCEPT ![info.agent_file_] = Append(@, "hello")]
  /\ UNCHANGED <<static, ofs_open, file_lock_, daemon, wake, now, caller, process>>

(***************************************************************************)
(* main returns: ~GuestAgent closes the stream, no lock, no join.  Closing *)
(* races with a line being formatted: the line comes whole before the      *)
(* close, not at all, or as a prefix.                                      *)
(***************************************************************************)
Close ==
  /\ process = "up" /\ \A c \in Caller : pc[c] = "done"
  /\ process' = "closed"
  /\ ofs_open' = FALSE
  /\ \/ UNCHANGED disk
     \/ daemon \in {"header", "row", "border"} /\ Put("torn")
  /\ UNCHANGED <<static, file_lock_, daemon, wake, now, caller>>

Exit == /\ process = "closed" /\ process' = "exited"
        /\ UNCHANGED <<static, ofs_open, disk, file_lock_, daemon, wake, now, caller>>

Terminated == process = "exited" /\ UNCHANGED vars

Ctor(c) == CtorOpens(c) \/ CtorThrows(c) \/ CtorOwnDaemon(c)
Read(c) == ReadFile(c) \/ ReadFails(c)
Daemon == HeaderLine \/ DaemonLock \/ RowLine \/ BorderLine \/ Unlock \/ WakeUp
          \/ OwnOpens \/ OwnLine

Next ==
  \/ \E c \in Caller : \/ Call(c) \/ BeginCtor(c) \/ Ctor(c) \/ GetBuilt(c) \/ Finish(c)
                       \/ ReadAgentFile(c) \/ LockForRead(c) \/ Read(c)
  \/ Daemon \/ TopCrashes \/ OwnThrows \/ Second \/ Close \/ Exit \/ Terminated

Spec == Init /\ [][Next]_vars

\* The threads make progress.  The lock is not fair, but the daemon sleeps for
\* interval_ seconds without it, long enough for a reader that waits to get it.
FairSpec ==
  /\ Spec /\ WF_vars(Daemon)
  /\ \A c \in Caller : /\ WF_vars(BeginCtor(c) \/ Ctor(c) \/ GetBuilt(c))
                       /\ WF_vars(Read(c)) /\ SF_vars(LockForRead(c))
-----------------------------------------------------------------------------
Text == Seq({"header", "border", "row", "oddrow", "hello", "torn"})

\* The type of every variable; the guard of the static and the file lock name a thread
\* exactly while it is in the constructor, or in the section the lock protects.
TypeOK ==
  /\ guard \in {"none", "built"} \cup Caller
  /\ external_info_ \in Seq(Info) /\ Len(external_info_) <= 1
  /\ ofs_open \in BOOLEAN
  /\ disk \in [File -> Text] /\ got \in [Caller -> Text]
  /\ \A f \in File : Len(disk[f]) <= MaxLines
  /\ file_lock_ \in {"free", "daemon"} \cup Caller
  /\ daemon \in {"none", "header", "lock", "row", "border", "unlock", "sleep", "ownopen",
                "own"}
  /\ wake \in Nat /\ now \in 0 .. MaxNow
  /\ pc \in [Caller -> {"idle", "calling", "ready", "waiting", "reading", "done"}]
  /\ arg \in [Caller -> Seq(Info)] /\ calls \in [Caller -> 0 .. MaxCalls]
  /\ process \in {"up", "closed", "exited"}
  /\ file_lock_ = "daemon" <=> daemon \in {"row", "border", "unlock"}
  /\ \A c \in Caller : /\ file_lock_ = c <=> pc[c] = "reading"
                       /\ guard = c => pc[c] = "calling"

Row == {"row", "oddrow"}

\* text is a part of the header, or the header and whole groups of rows: in a table
\* every row has its border below it.
Whole(text, i) ==
  LET h == Len(HeaderOf(i))
      Line(k) == IF i.csv \/ (k - h) % 2 = 1 THEN text[k] \in Row ELSE text[k] = "border"
  IN /\ \A k \in 1 .. Len(text) : IF k <= h THEN text[k] = HeaderOf(i)[k] ELSE Line(k)
     /\ Len(text) > h => i.csv \/ (Len(text) - h) % 2 = 0

\* What ReadAgentFile returns never ends inside a group, although the header is
\* written without the lock and the file is read at any moment.
SnapshotWhole ==
  \A c \in Caller :
    got[c] # <<>> => info.fun \/ Whole(got[c], info)

\* A thread sees the file grow: a text it gets continues the one it got before, or is the ""
\* of a file that cannot be opened, after which the next one is no shorter than any earlier
\* one either, since the file itself only grows: no later call of GetGuestAgentInstance, and
\* no own daemon, opens it anew when something has been written.
SnapshotsGrow ==
  [][/\ \A c \in Caller : got'[c] = <<>> \/ IsPrefix(got[c], got'[c])
     /\ \A f \in File : guard = "built" => IsPrefix(disk[f], disk'[f])]_vars

\* Whatever the destructor and the daemon it does not wait for do to each other, at
\* most the last group of the file is incomplete.
OnlyLastGroupTorn ==
  guard = "built" /\ ~info.fun /\ info.agent_file_ \in File =>
    LET text == disk[info.agent_file_] IN
      \E n \in 0 .. 2 : n <= Len(text) /\ Whole(SubSeq(text, 1, Len(text) - n), info)

\* The first constructor that succeeds fixes file, interval and method for good.
FirstWins == [][guard = "built" => guard' = "built" /\ UNCHANGED external_info_]_vars

\* Until the destructor closes it, the stream is open exactly when the daemon that writes to
\* it has been started; afterwards it is closed, and what the daemon, which nobody stops,
\* still writes is lost.
DaemonHasStream ==
  /\ process = "up" => (ofs_open <=> daemon \notin {"none", "ownopen", "own"})
  /\ process = "closed" => ~ofs_open

\* text without the fewest last lines whose loss leaves whole groups: those of a group that
\* is being written, or that the destructor has cut off.
WholePart(text, i) ==
  LET Kept(n) == SubSeq(text, 1, Len(text) - n)
  IN Kept(CHOOSE n \in 0 .. Len(text) :
            Whole(Kept(n), i) /\ \A m \in 0 .. n - 1 : ~Whole(Kept(m), i))

\* What is published of the file of the instance; of a program's own daemon every line is.
Published ==
  IF guard # "built" \/ info.agent_file_ \notin File THEN <<>>
  ELSE IF info.fun THEN disk[info.agent_file_] ELSE WholePart(disk[info.agent_file_], info)

GroupOf(i) ==
  IF i.fun THEN {<<"hello">>}
  ELSE IF i.csv THEN {<<r>> : r \in Row} ELSE {<<r, "border">> : r \in Row}

Promise == INSTANCE AgentLog WITH
  Reader <- Caller, Setting <- Info,
  Header <- [i \in Info |-> IF i.fun THEN <<>> ELSE HeaderOf(i)],
  Group <- [i \in Info |-> GroupOf(i)],
  setting <- IF guard = "built" THEN external_info_ ELSE <<>>,
  log <- Published,
  seen <- got,
  open <- IF guard = "built" /\ info.fun THEN process # "exited" ELSE process = "up"

\* GetGuestAgentInstance, ReadAgentFile, the daemon and the destructor together keep the
\* promise of AgentLog: there is one file, with the configuration that came first; whole
\* groups of lines are published in it; and a thread that reads it gets all of what is
\* published at that moment, and no more.
KeepsPromise == Promise!Spec

\* A reader that wants the lock gets it, however often the daemon takes it, and a
\* thread calling GetGuestAgentInstance gets the instance or the exception, unless the
\* process dies.
ReaderServed ==
  \A c \in Caller : pc[c] = "waiting" ~> pc[c] = "ready" \/ process = "exited"
CallerServed ==
  \A c \in Caller : pc[c] = "calling" ~> pc[c] # "calling" \/ process = "exited"

\* test_guest_agent_csv.cc:21-29: the usage that is computed for a row is a decimal number.
UsageIsNumber == \A f \in File : \A k \in DOMAIN disk[f] : disk[f][k] # "oddrow"
=============================================================================
