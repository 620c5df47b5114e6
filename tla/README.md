# CommUtils in TLA+

CommUtils is a header-only C++ library for Linux: a trace recorder, an agent that logs the
resource usage of its own process, file helpers, a logger, a stack dumper, clock helpers, and
the scripts that fetch its dependencies. The modules here are written from `src/include/commutils`
and `src/scripts` and checked with TLC. Every safety property of every component is also proved with TLAPS, for any
number of threads, files, calls and lines, under the conditions that Proofs names for some of them; what is
only checked is liveness.

## Inventory

| Component | State | Operations | Hard behaviour | Correct when |
|---|---|---|---|---|
| `Tracer` (tracer_.h) | lock-free queue, map of begin events, `stop_`, counter and stream of the trace file, offset and cut-off of the clock | `instance`, `begin`, `end`, `stop`, report thread, static destructor | many producers against one consumer and the stop flag; a client may be delayed between its test of `stop_` and its enqueue; join in the destructor; arithmetic on time stamps | the file is one JSON document, pairs each end with its own begin, keeps each thread's order, writes only what was recorded; the destructor returns |
| `GuestAgent` (guest_agent_.h) | function-static instance, its arguments, stream, file, `file_lock_` | `GetGuestAgentInstance`, daemon thread, `ReadAgentFile`, static destructor | racing constructors that may throw; header written without the lock; detached daemon against the destructor | a reader sees whole groups and a growing file; one instance for good; readers are served |
| `FileOperate` (file_.h) | none of its own; the file tree | `IsExist`, `CreateEmpty`, `WriteTo`, `ReadFrom` (text, json), `MkdirsByPath`, `SearchRecursively`, `ListInDir`, `GetSuffix`, `GetNameWithoutSuffix` | every method is several system calls, with other threads in between; recursion on paths; open directories | what a call reports is true of the tree; undisturbed calls do what their comments say; directories are closed |
| `Logger` (logger_.h) | `std::cout`, the buffer of `localtime` | `LOG(level) << ...`, `LOG_INFO(...)` | threads share the buffer, and need the locks of malloc and of `localtime`; a line is many writes, flushed at its end | a line ends in the file, not in a buffer; a thread that logs gets through |
| `Backtrace` (backtrace_.h) | the disposition of SIGSEGV | the static initializer, the handler | the handler logs while its own thread or others hold the locks it needs; two threads fault at once | a whole dump is out before the process dies; the process dies |
| `DateTime` (datetime_.h) | the buffer of `localtime` | `GetFmtTime`; clock readings and a sleep | the buffer is shared | `GetFmtTime` returns a time of during the call; the rest is stateless and not modelled |
| `SysUtils` (sys_utils_.h) | none | byte order | – | not modelled: stateless |
| `downloadDependency.sh` | the folders of the requirements | clean-up, checkout with retries, roll back | failing and killed checkouts, folders inside folders and per platform, overlapping runs, clean-ups in between | a run that exits with 0 leaves every folder complete; nothing complete is lost; nothing half-done stays; a run ends |
| `build_pre.py`, `build_post.py`, CMake files | – | – | – | not modelled: unreachable (line 141 exits), sequential, or not executable |

Interactions: Tracer, GuestAgent and FileOperate log through Logger; GuestAgent calls
`FileOperate::GetSuffix` once, in its constructor; Tracer and GuestAgent read the clocks of
DateTime or the system. The scripts meet the library only in what is on disk before it is built. No component calls another one's operation that changes state, so the
components are modelled on their own and what they take from each other is a value (the csv flag,
a clock). The exception is Backtrace, whose handler calls Logger in the middle of anything, Logger
included: `Backtrace` is composed of both. Logger's output is not looked at by anyone and is left out
of the other models.

External code, modelled from its use in `src/`: the moodycamel queue (one FIFO per producer, a
dequeue takes the head of any of them), the JSON library (adding a key to something that is not an
object throws; reading takes the value that a text begins with, whatever follows it), `top` and `/proc`, the file system (one system call is one step; only what the
methods do happens to it), malloc and `localtime` with a lock each, the buffer of stdout, signals
(blocked while their handler runs), `svn` and `rm`.

## Modules

| Module | What it is |
|---|---|
| `TraceLog` | what the tracer promises: events are recorded per thread, written in the order of their thread, an end with its own last begin; nothing after the log is closed |
| `Tracer` | tracer_.h in detail. `instance` is the life of the static, `pc`/`inflight` a client inside `event_stamp`, `rpc` the report thread; `of_trace_file_` holds the tokens written and `entries` their payload |
| `MCTracer` | threads and names for TLC |
| `TracerProofs`, `TracerRefinement`, `TracerOrder` | the theorems about `Tracer` |
| `AgentLog` | what the agent promises: the first setting stays; its log gets a header, then whole groups of lines; a reader gets all that is published and nothing else; nothing after the log is closed |
| `GuestAgent`, `MCGuestAgent`, `GuestAgentProofs` | guest_agent_.h: `guard` is the guard of the static, `disk` the lines of the files, `daemon` the daemon's position in `Run`, `got` what each thread last read; the theorems about it |
| `Logger` | logger_.h without spdlog, and `GetFmtTime`: `stack` is the calls a thread is in, innermost first, `lock` the holders of the locks of malloc and `localtime`, `tm` the shared buffer, `cout` who has written what is not flushed |
| `Backtrace` | backtrace_.h on top of `Logger`: a caught signal puts a frame of the handler on `stack`; `disposition` is what SIGSEGV does, `process` how the process ended |
| `BacktraceProofs` | the theorems about `Backtrace`, and with it `Logger` |
| `DownloadDependency`, `MCDownloadDependency` | downloadDependency.sh: `folder` is what lies in each target folder, `pc`/`at`/`retry_cnt` a run's position in the script |
| `DownloadProofs` | the theorems about `DownloadDependency` |
| `FileName`, `FileNameProofs` | `GetNameWithoutSuffix` and `GetSuffix` of file_.h as operators on sequences of characters, and the theorem about them |
| `FileOperate`, `MCFileOperate` | file_.h, on top of `FileName`: `tree` is the file tree, `stack` the recursion of MkdirsByPath or the open directories of a scan, `since`/`alone` history for the properties |
| `FileOperateProofs` | the theorems about `FileOperate` |

Operators named `Bug...` are wrong variants of the definition that follows them, kept to show that
the properties notice such a mistake; no specification uses them.

### Tracer

A call of `begin`/`end` is three steps: the test of `stop_` (`Call`), the time stamp (`TakeStamp`,
or `BeforeCutoff`, `RusageFails`), and the enqueue. The report thread opens the file (`OpenFile`,
`OpenFails`), tests `stop_` (`LoopAgain`, `LoopEnds`), finds nothing (`NothingQueued`), or takes an
event and handles it in one step: nobody else reads the map, the counter or the file.
`ReportCrashes` is the division by a duration of zero and the exception for arguments that are not
an object; either kills the process. `MainReturns` and `DtorJoins` are the static destructor.
A call that has passed the test of `stop_` queues its event even when the report thread has gone
(line 178); `NoRecordingUnread` therefore compares what each thread has queued or under way (`Pending`)
before and after a step, and says that no further call joins. An end is paired with the latest begin of its thread and name (`OwnBegin`),
which an earlier end may have used before.

### GuestAgent

Each line is written with `std::endl`, hence one step. The constructor is two steps (members, then
file and thread), so that threads can race with it. It throws (`CtorThrows`) when the file cannot be
opened, or when the thread cannot be started, and then has emptied the file. A failed open makes
`ReadAgentFile` return an empty text (`ReadFails`), which is not one of the snapshots that grow. A daemon of the program's own
is that of test_guest_agent_external_daemon_func.cc: it opens, and empties, the file itself (`OwnOpens`), or
throws, which ends the process (`OwnThrows`), and knows no lock. `Close` is the destructor, which neither takes
the lock nor waits: the line the daemon is formatting may be torn, and what the daemon writes after it goes to a
closed stream and is lost (`DaemonHasStream` says that the stream is open up to there, and only there). Threads of the program are
joined by main, the daemon is not. The figures of a row are abstracted, except that a usage computed
in the first second is no number (`Figures`) and that a line of `top` that is too short may kill the
process (`TopCrashes`).

`AgentLog` is what all this amounts to for the threads that read the file. The mapping (`Promise`) takes
for its log the published part of the file, `Published`: from the file as it is on disk, lines are taken away
at the end until the rest is the header or a part of it, or the header and whole groups (`WholePart`). So a row whose
border is missing is not in the log yet, and a line that the destructor tears never will be. The log
is open until the process is up no more; that of a program's own daemon, which the destructor does not
close, until main has returned.

### FileOperate

`Call` begins a method with arguments from the set `Request`; every following action is one system
call and the code up to the next one. Contents are sequences of blocks, a block being what reaches
one write(2). `Json` is the set of texts that are one JSON value: the json `ReadFrom` takes the longest of
them that the file begins with, as `>>` does (line 149), accepts whatever follows, and throws if there is none. A directory opens for reading: the
json variant throws then, the string variant throws or returns NULs, depending on what size the file system
gives a directory (0 and 1 stand for all that do not make `resize` throw). The file system is taken to tell the type of
each entry (`d_type` is never unknown). `readdir` gives the entries in any order, and those added after `opendir` or not. A path is a sequence
of names, dots and slashes with a slash between any two that are no slashes (`Path`); empty names, dots
and slashes at the end occur, and `Names` is the place such a path leads to. A path is plain (`Plain`) if
its empty names and dots stand before its first name or after its last.

`GetNameWithoutSuffix` and `GetSuffix` change nothing and are operators (`FileName`). The paths of
the calls are names like any other, so the instance that checks the methods checks them too.

### Logger and Backtrace

A call is cut where another thread can get in: it allocates (`Malloc`, `Now`; all its allocations are
taken as one, before the clock is read), `localtime` fills the shared buffer under its lock
(`Localtime`, `LocaltimeReturns`), and `put_time` reads that buffer with no lock held, a field at a
time (`PutDate`, `PutTime`), or puts it out as the beginning of the line (`PutLine`). `std::endl`
flushes (`LogReturns`). `~Logger` and `Logger_fmt` do the same, hence one operation `log`; `fmt` is
`GetFmtTime`. What the lines say is left out.

`Catch` interrupts a thread wherever it is and puts the handler on its stack; each `LOG` of the handler
puts a call of Logger on top of that (`LogLine`), which needs the same locks as any other.
`Symbols` allocates, or fails and exits (`SymbolsFail`; the destructors that `exit` runs are not
followed). `Maps`, `ResetSignal` and `Raise` are the end of the handler. A fault inside the handler, on a
stack that is full, or while the signal is blocked, kills at once (`Unhandled`). What lies between two
`LOG`s of the handler allocates too: `Symbols`, and `Maps`, which builds the text of /proc/self/maps, go on only while the lock of malloc is free.

### DownloadDependency

`Start` parses the options: the script stops with its usage, asks whether to clean up (`Answer`,
`Clean`), or goes on to the loop over the requirements: the test for the folder (`AlreadyExists`,
`IsAbsent`), `mkdir -p` (`Mkdir`), each `svn co` (`CheckoutSucceeds`, `CheckoutFails`), and what follows
a failure (`Retry`, `RollBack`). `Kill` is a signal or a lost machine at any of these points, in the
middle of an `rm -rf` too. Names of requirements are paths, since `mkdir -p` and `rm -rf` touch the
folders around and below, and the folder of a library ends in the platform. The look-up is that of the
code: awk finds every row of the file whose name contains the text, those without a url (`OtherRows`) included, and a checkout
with two urls, or a url and another word, cannot succeed. The
counter is modelled as the shell computes it: `+=1` appends a digit and `-lt` reads octal. The list of
requirements is a constant, for doc/requirements.md is not in the repository.

## Runs

| Run | Configuration | What it shows |
|---|---|---|
| `tracer` | 2 threads × 2 calls of one name, clock 0..1, fairness | `JsonPrefix`, `CompleteAfterDestruction`, `NoRecordingUnread`, `OwnBegin`, `ThreadOrder`, `KeepsPromise` (the tracer implements `TraceLog`), and that the queue drains and the destructor returns (`Drained`, `DtorReturns`) |
| `tracer_narrow` | 1 thread × 3 calls, 2 names, sum that wraps | `TypeOK` (time stamps in range behind the cut-off), `KeepsPromise` with repeated begins and bad arguments |
| `tracer_keys` | threads 1 and 12, names a and 2a | violation: an end is paired with another thread's begin |
| `guest_agent` | 2 threads × 3 calls, csv, table, unnamed, own daemon, fairness | `SnapshotWhole`, `SnapshotsGrow`, `OnlyLastGroupTorn`, `DaemonHasStream`, `KeepsPromise` (the agent implements `AgentLog`), and that callers and readers are served (`CallerServed`, `ReaderServed`) |
| `guest_agent_stat` | method `stat` | violation: a usage that is no number |
| `file_operate` | 2 threads, 3 calls in all out of 16 | `ParentReady`, `MkdirsTells`, `SearchTells`, `ListTells`, `HandlesClosed`, `FilesTell`, `PathsSplit` (all names of at most 5 characters out of a letter, the dot and the slash) |
| `file_mkdirs` | relative path | violation: recursion without end |
| `file_create` | 2 creators | violation: both get 0 |
| `download` | 3 runs for 2 platforms, 2 requirements of which one lies in the other and contains its name, a heading without a url, fairness | `ExitsTell`, `NothingHalf`, `KeepsComplete`, `Ends` |
| `backtrace` | 2 threads, 1 call of the program and any number of signals, clock 0..1, fairness | `DumpSurvives`, `EndsOrDies` |
| `fmt_time` | 2 threads, 2 calls, clock 0..3 with midnight at 2 | violation: a time of day the clock did not have during the call |
| `download_retry` | 2 runs, 2 folders, a row without a url that holds a requirement's name | violation: the script gives up after 2 retries, not 3 |

### Bounds, and why they are enough

Tracer: two threads are what the queue's lack of order between producers needs; two calls per
thread make a begin and its end, or an end before its begin; the third call of `tracer_narrow`
repeats a begin. A clock of two ticks gives a duration of zero and one that is not; it has four where
arithmetic matters, in `tracer_narrow`. `ClockHalf = 2` puts the wrap inside the clock's range. GuestAgent: two threads race for the static and for the
lock; seven lines are the header of a table and two groups. FileOperate: three calls are two that
overlap and one before or after them; the tree has a directory that cannot be opened, a special
file, and a missing path of two directories; `MaxDepth` is more than the frames of any path that
does reach an existing one. Five characters are room for a slash, a leading dot and two more dots.
DownloadDependency: the third run finds what two that overlapped have left, or cleans up after them;
the requirement `b/lib` comes before `b`, whose folder it makes and in whose look-up it is found, and
has two folders; `MaxTries` is beyond the last retry. Backtrace: a dump has one line in each of its parts
instead of 3, up to 16 and 2 (`HeadLines`, `MaxFrames`, `TailLines`), for nothing is decided between two
lines of one part; one call of the program can be interrupted anywhere while both threads may fault, and
a handler that runs makes calls without bound. Two threads are a holder of a lock and one that waits.

### Fairness

`Tracer!FairSpec`: weak fairness of the report thread and of main once it is in the destructor;
both are threads that are never blocked except on each other. Clients get none.
`GuestAgent!FairSpec`: weak fairness of the daemon and of the threads inside a call; strong
fairness of taking `file_lock_`, because a mutex is free infinitely often while the daemon sleeps
for whole seconds and a waiting thread is woken within them. It is not justified for an interval
of 0, which no configuration here uses.
`DownloadDependency!FairSpec`: weak fairness of every run that was started; the shell goes on to its
next command, and `svn` is taken to come to an end. Nothing forces a run to start, to be killed, or
somebody to answer the question.
`Backtrace!FairSpec`: strong fairness of every thread's own steps: a thread is scheduled, and a lock
that is free again and again is got at last. Calls, signals and the clock have none.
`CHECK_DEADLOCK FALSE` in `backtrace`: a thread that was interrupted inside malloc or `localtime` stops
for good, which is what the code does; in `fmt_time`, for the calls are bounded.

## Proofs

All proofs hold for every value of the constants that satisfies the assumptions of the modules
(`TracerAssumption`, `GuestAgentAssumption`, `LoggerAssumption`, `BacktraceAssumption`,
`FileOperateAssumption`, `RequestAssumption`, `FileNameAssumption`, `DownloadAssumption`), which TLC
evaluates in the runs. They say what the constants are: trees are trees, requests are calls of the
methods with arguments of their types, names of threads are not those of states. One conjunct of
`FileOperateAssumption`, that "nul" is a string, is true of any string and unknown to the provers.

* `TracerProofs`: `TypeCorrect` by induction over the actions; its only arithmetic is
  `NsecRange`/`NsecExact` and the cut-off, which keeps `wall_nsec - offset` non-negative.
  `AlwaysJson`, `DestroyedIsComplete` and `ReaderGoneMeansStopped`, the latter with `StampInv` (a call that has taken
  its stamp has one event to queue), follow from one inductive invariant, `FileInv`: where the report thread is determines the last token of the file, and
  `event_cnt_` is zero exactly while only the head is written. `JsonPrefix` alone is not inductive:
  it does not say that a written event implies a non-zero counter, nor that the tail implies a
  thread that is done. `JoinIsShort` is the safety half of `DtorReturns`: once recording is stopped it stays so, and
  the report thread, which looks at `stop_` once a pass, has at most two steps to take (`StepsLeft`), although
  threads that were past the test of `stop_` go on filling the queue.
* `TracerRefinement`: under `KeysDistinct` (no two pairs of thread and name give one key),
  `EndsOwnSpan` and `Implements`. The invariant `QueueInv` says that a sub-queue holds its own
  thread's events; `MapInv` that an entry of `event_map_` is the latest begin with its key among
  the events written. Together they turn a look-up in the map into "the last begin of this thread
  and name", which is what `TraceLog` demands. `KeysDistinct` is needed: `tracer_keys` is the
  counterexample without it.
* `TracerOrder`: under `NoWrap` (the clock sum stays in range) `WrittenInOrder`: file, sub-queue,
  the event in flight and the clock form one ordered chain per thread.

* `FileNameProofs`: `NamesAlwaysSplit`, for names of any length, and from the same lemma, `NameSplits`,
  `PathsAlwaysSplit` of `FileOperateProofs`, for the paths that the calls of a run are given. `rfind` and `find` are a greatest and a
  least index; that there is one is not obvious to the provers, and induction over data is closed to
  them, but the well-foundedness of the naturals is a fact of the library: `Least` takes a minimal
  element of a set of naturals, `Greatest` counts from the other end. `FindDotFinds`, `BaseHasNoSlash`
  and `RestIsString` say what is found, `Joined` and `Cut` that cutting a sequence and putting it
  together again are inverse; the theorem then has two cases, a name with and without a dot.
* `DownloadProofs`: `TypeCorrect` rests on `Matches`, which says that the failed checkouts of an iteration
  determine the counter: 0, then 1, then 9, so that the third failure is the last. `CompleteStays`
  needs `Quiet`: a run nothing disturbs works alone, and nothing complete is in or below the folder
  it works on, so its `rm -rf` takes nothing finished. `NothingStaysHalf` and `ExitIsTold` need `Order`
  besides: what comes before a run's position is complete, and only a folder in work may be half there.
  Its difficult step is `mkdir -p`, which makes folders that other requirements ask for. Under
  `PlatformsApart` (no folder lies in one of another platform) such a folder is one of the same run,
  so it is either before the position, hence there already, or after it, the exception the properties
  name (`AroundTarget`). `RunsAreFinite` is the safety half of `Ends`: `Left` counts what a run has still to do,
  nine for each requirement to come and, of the three checkouts of its own iteration, the commands that `retry_cnt` leaves.
  Each step of the run makes it smaller, and no other run can make it larger, because all of it is local to the shell:
  two runs that remove each other's folders cannot keep each other busy. `Matches` is needed here too, since
  a counter that stood still would allow retries without end.

* `GuestAgentProofs`: one invariant, `Inv`, in five parts. `Shapes` are the types, `Locks` that
  `file_lock_` is held by exactly who is between its lock and its unlock, `Setup` where the one
  constructor and the daemon can be, and that no file holds a line before a daemon writes. `Files` says what the file is at each of the daemon's steps: a
  beginning of the header (`Begun`), a group of a table without its border (`Half`), and otherwise whole groups
  (`Complete`); once the destructor has closed it, all but its last one or two lines are whole (`Closed`).
  The properties are weaker than that and not inductive: they do not know how far a group has come when the
  destructor tears a line. `Snapshots` says that what a caller has read is whole and a
  beginning of the file as it is now: a reader has the lock, so the daemon is not inside a group
  (`ReadsAreWhole`), and the file only gets longer (`ReadsGrow`). `FirstOneWins` holds since "built" is
  never left and only constructors, which are over then, write the settings.
  `SectionIsShort` is the safety half of `ReaderServed`: who waits for the lock waits for at most three steps of the
  thread that has it (`SectionLeft`), and neither a reader, the clock nor the destructor makes them more. That the
  daemon does not take the lock again each time is not in it: this is the strong fairness of `FairSpec`.
* `Implements`, in the same module, is the refinement. `PartIs` says what `WholePart` of a text is once
  a whole part is known that one more or two more lines do not make longer; the invariant knows that part for every
  position of the daemon (`Files`), and `PartOfTorn` for a line that is torn. A step of the daemon then
  either completes a group, which is `PublishGroup`, or leaves the published part as it was, which is
  a stutter; the header is published line by line. A read maps to `Read` because the reader has the
  lock: no row is without its border then, and what is published is the whole file.
* `BacktraceProofs`: `Sound` says of every thread that a handler is its innermost frame or is just inside a
  call of `LOG`, which it does not make any more when it raises (`Nested`); that the thread holds a lock
  exactly if a frame of it is in that lock's section (`Inside`); and that no two are (`Once`). This makes the
  release of a lock right: a handler that has interrupted a call inside malloc waits for its own thread
  and never gets into that section. `KilledWithDump` needs `Reset` besides (SIG_DFL is in
  force exactly if some handler is at its `raise`) and `Clean` (a handler that is past its first lines nothing unflushed), since the thread that the signal kills need not be the one whose dump is out.
* The safety half of `EndsOrDies` is proved in the same module, from `Layered`: calls of one thread are separated by
  a handler, the `held` of a handler is exactly the locks whose sections it interrupted, and while there are any it
  has not written a line. `NobodyWaitsForAWaiter`: unless a section was interrupted, whoever waits for a lock waits for a
  thread that stands in the section itself, from where it needs nothing to go on, so no circle of waiting threads forms
  among any number of them. What is left for TLC is that a thread which can go on is scheduled at last. `DumpNeverStarts` and
  `LockIsLost` say that the exception `Reentered` is not too wide: a handler that interrupted
  malloc or `localtime` never gets a line of its dump out, and the lock is lost for as long as the process is up.
* `FileOperateProofs`: the methods only ever add to the tree (`Grown`), and so whatever a thread knows of it
  stays true when another one steps (`OthersKeep`): this reduces each of the 17 actions to the thread that
  takes it. Of that thread `Own` says what its frames mean. For MkdirsByPath they form a chain of
  `ParentText` up from the path of the call (`Making`); `ParentIs` says that a parent names the same place or the
  one around it, so the frame that runs `mkdir` has its directory above it (`ParentsFirst`). For a scan
  (`Scanning`) the frames are open directories below the target, one handle each (`NoneLeftOpen`), and
  every file that matched when the call began lies behind an entry still to come of one of them, until the
  stack is empty and `False` is right (`SearchIsRight`); `Descends` preserves this because a directory's entries
  at `opendir` include everything that was there before. `ListIsRight` is the same for one directory, entry
  by entry. `Apart` says that a call that is `alone` has no rival under way, so that the file is what
  the call has made of it (`Using`, `FilesAreRight`); the same invariant, of the writer, gives what a string read gets
  while one `WriteTo` is under way, which is not alone: the buffer was sized before, the blocks come from what the writer has put there since. `TypeCorrect` includes that no scan goes deeper than asked.
  Names of paths are a recursive function, and induction over it is the absence of a least counterexample
  (`Least`, `Induction`), as is that everything on the way to a place is a place (`Ancestors`).
* `MkdirsAreTold` has an invariant of its own, `Race`. A call is `Lost` if it has returned -1, or if a frame it
  has still to make is there by now. Of two calls that contest one path, one is not lost: whoever makes a
  directory has nothing below it there yet (`StillMissing`, which needs that no two frames of a plain path
  have the same name, `NamedOnce`), a call that fails was lost before (`FailsLost`), and every other
  step changes nothing for either. The attempt to prove the property as it first stood showed that it was
  false, and TLC confirmed both counterexamples: a third thread that makes a part of the path can
  make both lose, and `MkdirsByPath("./a//b")` loses to itself, for it makes `a` and then tries `a/`. Both
  conditions are now in the property (`Thread = {t, u}`, `Plain`).

Model-checked only: liveness (`Drained`, `DtorReturns`, `CallerServed`, `ReaderServed`, `Ends`, `EndsOrDies`),
which is out of the provers' reach, and the six violations, which are single behaviours. Of four of the six the
safety half is proved (`JoinIsShort`, `SectionIsShort`, `RunsAreFinite`, `NobodyWaitsForAWaiter`): how much is left to be
done and that it only gets less, or that no circle of waiting threads forms. What TLC adds is that the next
step can be taken and, under fairness, is.

## Disagreements between code and documentation

* tracer_.h:106: the key joins thread id and name without a separator (`tracer_keys`).
* guest_agent_.h:145: `inf%` or `nan%` in the first second of the process (`guest_agent_stat`).
* file_.h:283: `MkdirsByPath("a/b")` never returns when `a` is missing (`file_mkdirs`).
* file_.h:46: `CreateEmpty` is not exclusive (`file_create`).
* downloadDependency.sh:185: `retry_cnt+=1` appends to a string, `0`, `01`, `011`, which `-lt` reads
  in octal, so 2 retries are made where the comment on line 182 says 3 (`download_retry`).
* datetime_.h:123: `GetFmtTime` formats a buffer that other threads overwrite, so that it returns
  a time that is none of the current ones (`fmt_time`). GuestAgent's daemon calls it for every row
  (guest_agent_.h:249), and every line of the log has the same weakness (logger_.h:159, 202).
* Seen but not the subject of a run: `WriteTo` ignores its open mode (line 298 against 304);
  `MkdirsByPath` returns -1 for a path that ends in a slash although it made the directory (the
  model has it, request `ab_`); sockets and block devices are listed as directories (line 250);
  `MkdirsByPath("./a//b")` makes `a`, then fails at `a/`, and returns -1 with `b` missing (line 283; the
  request `a__b`); `ReadFrom` throws where its comment promises -1 (line 149); `GetSuffix` cuts at the first dot, so that
  `v1.2.csv` is no csv file to the agent (line 219, guest_agent_.h:58); a process that faults inside
  malloc or `localtime` hangs in its handler, although test_backtrace.cc expects it to die
  (`EndsOrDies` excepts exactly this); a requirement whose name is part of another one's can not be
  checked out (downloadDependency.sh:162); `is_little_endian` returns the
  opposite of its name and of the comment above it; `GetSTime` reads the steady clock although its
  comment says time since the epoch.

What `DownloadDependency` cannot promise, because the code does not: after a killed run a partial
folder passes for a finished one, until a clean-up; a run that overlaps another takes the folder
being fetched for a finished one, and may lose what it fetched inside it; and a requirement that
comes in the list after one whose folder lies inside its own is never fetched. `ExitsTell`,
`NothingHalf` and `KeepsComplete` name these conditions.

## Not modelled

`SysUtils`, the clock readings and the sleep of `DateTime` keep no state and decide nothing.
`commutils.h` includes the other headers. datetime_.h:1-106 stands in for a function of the library,
logger_.h:3-109 is a branch that no build of the repository selects. build_pre.py leaves at line 141
before it downloads anything, build_post.py rewrites one file in a row, and the CMake files are a
description. GuestAgent's usage after the machine was suspended (the two clocks of
guest_agent_.h:144 drift apart) and the mixing of two threads' lines on `std::cout` are not followed.

## Plan

Done: all components that keep state, the proofs of every safety property that a run checks, the two
refinements (`Tracer` of `TraceLog`, `GuestAgent` of `AgentLog`), and the safety half of `DtorReturns`, `ReaderServed`,
`Ends` and `EndsOrDies`. Open: the safety half of `Drained`, and an abstract specification of `FileOperate`, of whose methods few take effect in
one step.
