------------------------- MODULE DownloadDependency -------------------------
(***************************************************************************)
(* scripts/downloadDependency.sh: a run checks out every requirement whose *)
(* folder is not there, or, with -c, removes all folders.  Runs follow or  *)
(* overlap each other and may be killed at any moment.  A requirement is a *)
(* path, the sequence of its names, so that the folder of one may lie in   *)
(* the folder of another; no name is a part of another name.               *)
(*                                                                         *)
(* External: doc/requirements.md, which is not in the repository, and svn, *)
(* which completes the folder of one url, or fails and leaves none or a    *)
(* part of it.  fn_compile is not called.  Operators named Bug... are      *)
(* wrong variants of the next definition.                                  *)
(***************************************************************************)
EXTENDS Naturals, Sequences, FiniteSets, SequencesExt

CONSTANTS
  Run,        \* runs of the script
  Require,    \* download_require_array, in order: the names in the rows with a url
  OtherRows,  \* the names in the rows with some other word in the place of the url
  PlatformOf, \* platform and sdk a run is started with
  MaxTries    \* bound: up to where tries counts

ASSUME DownloadAssumption ==
  /\ Require \in Seq(Seq(STRING)) /\ OtherRows \in Seq(Seq(STRING))
  /\ PlatformOf \in [Run -> Seq(STRING)]
  /\ MaxTries \in Nat /\ MaxTries > 3

VARIABLES
  folder,     \* Folder -> "absent", "empty" (a directory), "partial", "complete"
  pc,         \* "idle", "loop", "mkdir", "svn", "failed", "exit 0", "exit 255", "killed";
              \* "ask", "clean", "cleaned", "kept" with -c; "usage"
  at,         \* index in Require of the iteration
  retry_cnt,
  tries,      \* history: failed checkouts of this iteration
  disturbed   \* history: a run was killed, or two runs overlapped, since a whole clean-up

vars == <<folder, pc, at, retry_cnt, tries, disturbed>>

\* Libraries have a folder for each platform.
FolderOf(q, r) == IF \E i \in DOMAIN q : q[i] = "lib" THEN q \o PlatformOf[r] ELSE q
Folder == {FolderOf(q, r) : q \in ToSet(Require), r \in Run}

\* No folder lies in a folder that is of another platform.
ASSUME PlatformsApart ==
  \A p, q \in ToSet(Require) : \A r, s \in Run :
    IsStrictPrefix(FolderOf(p, s), FolderOf(q, r)) => FolderOf(p, s) = FolderOf(p, r)

\* awk gives svn that column of every row that has the text of q in its name.
Rows(q) ==
  LET row == Require \o OtherRows IN {i \in DOMAIN row : q \in SubSeqs(row[i])}

Active(r) == pc[r] \in {"loop", "mkdir", "svn", "failed", "ask", "clean"}
Target(r) == FolderOf(Require[at[r]], r)
Alone(r) == \A q \in Run \ {r} : ~Active(q)

Init ==
  /\ folder = [f \in Folder |-> "absent"]
  /\ pc = [r \in Run |-> "idle"] /\ at = [r \in Run |-> 1]
  /\ retry_cnt = [r \in Run |-> 0] /\ tries = [r \in Run |-> 0]
  /\ disturbed = FALSE

\* fn_ParseArgs ends with the usage, asks whether to clean up, or returns.
Start(r) ==
  /\ pc[r] = "idle"
  /\ \E to \in {"loop", "ask", "usage"} : pc' = [pc EXCEPT ![r] = to]
  /\ disturbed' = (disturbed \/ ~Alone(r))
  /\ UNCHANGED <<folder, at, retry_cnt, tries>>

Answer(r) ==
  /\ pc[r] = "ask"
  /\ \E to \in {"clean", "kept"} : pc' = [pc EXCEPT ![r] = to]
  /\ UNCHANGED <<folder, at, retry_cnt, tries, disturbed>>

BugCleaned == folder
Cleaned == [f \in Folder |-> "absent"]

Clean(r) ==
  /\ pc[r] = "clean" /\ pc' = [pc EXCEPT ![r] = "cleaned"]
  /\ folder' = Cleaned
  /\ disturbed' = (disturbed /\ ~Alone(r))
  /\ UNCHANGED <<at, retry_cnt, tries>>

\* The locals of a shell that has ended are gone.
Gone(r, how) ==
  /\ pc' = [pc EXCEPT ![r] = how]
  /\ at' = [at EXCEPT ![r] = 1] /\ retry_cnt' = [retry_cnt EXCEPT ![r] = 0]

InLoop(r) == pc[r] = "loop" /\ at[r] <= Len(Require)

\* A directory of that name is taken for a finished checkout.
BugMustFetch(f) == TRUE
MustFetch(f) == folder[f] = "absent"

AlreadyExists(r) ==
  /\ InLoop(r) /\ ~MustFetch(Target(r))
  /\ at' = [at EXCEPT ![r] = @ + 1]
  /\ UNCHANGED <<folder, pc, retry_cnt, tries, disturbed>>

\* mkdir -p f, which svn does as well.
Made(f) ==
  [g \in Folder |-> IF IsPrefix(g, f) /\ folder[g] = "absent" THEN "empty" ELSE folder[g]]

IsAbsent(r) ==
  /\ InLoop(r) /\ MustFetch(Target(r))
  /\ pc' = [pc EXCEPT ![r] = "mkdir"]
  /\ UNCHANGED <<folder, at, retry_cnt, tries, disturbed>>

Mkdir(r) ==
  /\ pc[r] = "mkdir"
  /\ folder' = Made(Target(r))
  /\ retry_cnt' = [retry_cnt EXCEPT ![r] = 0]
  /\ pc' = [pc EXCEPT ![r] = "svn"]
  /\ UNCHANGED <<at, tries, disturbed>>

Fetched(r, as) == folder' = [Made(Target(r)) EXCEPT ![Target(r)] = as]

Checkout(r) ==
  /\ pc[r] = "svn" /\ UNCHANGED <<retry_cnt, disturbed>>

CheckoutSucceeds(r) ==
  /\ Checkout(r) /\ Cardinality(Rows(Require[at[r]])) = 1
  /\ Fetched(r, "complete")
  /\ pc' = [pc EXCEPT ![r] = "loop"] /\ at' = [at EXCEPT ![r] = @ + 1]
  /\ tries' = [tries EXCEPT ![r] = 0]

CheckoutFails(r) ==
  /\ Checkout(r)
  /\ UNCHANGED folder \/ Fetched(r, "partial")
  /\ pc' = [pc EXCEPT ![r] = "failed"] /\ UNCHANGED at
  /\ tries' = [tries EXCEPT ![r] = IF @ < MaxTries THEN @ + 1 ELSE @]

\* rm -rf takes what lies below with it.
Removed(f) == [g \in Folder |-> IF IsPrefix(f, g) THEN "absent" ELSE folder[g]]

\* retry_cnt+=1 appends the character 1: "0", "01", "011", ...; -lt reads it as an
\* octal number.
BugPlusOne(n) == n
PlusOne(n) == 8 * n + 1

Retry(r) ==
  /\ pc[r] = "failed" /\ retry_cnt[r] < 3
  /\ retry_cnt' = [retry_cnt EXCEPT ![r] = PlusOne(@)]
  /\ folder' = Removed(Target(r))
  /\ pc' = [pc EXCEPT ![r] = "svn"]
  /\ UNCHANGED <<at, tries, disturbed>>

BugRolledBack(f) == folder
RolledBack(f) == Removed(f)

RollBack(r) ==
  /\ pc[r] = "failed" /\ retry_cnt[r] >= 3
  /\ folder' = RolledBack(Target(r))
  /\ Gone(r, "exit 255")
  /\ UNCHANGED <<tries, disturbed>>

Finish(r) ==
  /\ pc[r] = "loop" /\ at[r] > Len(Require)
  /\ Gone(r, "exit 0")
  /\ UNCHANGED <<folder, tries, disturbed>>

\* What an interrupted rm -rf of the folders below f leaves.
Torn(f) ==
  {g \in [Folder -> {"absent", "empty", "partial", "complete"}] :
    /\ \A h \in Folder :
         IF IsPrefix(f, h) /\ folder[h] # "absent" THEN g[h] \in {folder[h], "partial", "absent"}
         ELSE g[h] = folder[h]
    /\ \A h, i \in Folder : IsPrefix(h, i) /\ g[i] # "absent" => g[h] # "absent"}

\* A signal, or the build machine, ends the run, perhaps in the middle of a command.
Kill(r) ==
  /\ Active(r)
  /\ \/ UNCHANGED folder
     \/ pc[r] = "svn" /\ Fetched(r, "partial")
     \/ pc[r] = "failed" /\ folder' \in Torn(Target(r))
     \/ pc[r] = "clean" /\ folder' \in Torn(<<>>)
  /\ Gone(r, "killed") /\ disturbed' = TRUE
  /\ tries' = [tries EXCEPT ![r] = 0]

Terminated == (\A r \in Run : pc[r] # "idle" /\ ~Active(r)) /\ UNCHANGED vars

Step(r) ==
  \/ AlreadyExists(r) \/ IsAbsent(r) \/ Mkdir(r) \/ CheckoutSucceeds(r) \/ CheckoutFails(r)
  \/ Retry(r) \/ RollBack(r) \/ Finish(r) \/ Clean(r)

Next == (\E r \in Run : Start(r) \/ Answer(r) \/ Step(r) \/ Kill(r)) \/ Terminated

Spec == Init /\ [][Next]_vars

\* A shell that runs comes to its next command, and svn comes to an end.
FairSpec == Spec /\ \A r \in Run : WF_vars(Step(r))
-----------------------------------------------------------------------------
\* The type of every variable; a folder lies in folders that are there.
TypeOK ==
  /\ folder \in [Folder -> {"absent", "empty", "partial", "complete"}]
  /\ \A f, g \in Folder : IsPrefix(f, g) /\ folder[g] # "absent" => folder[f] # "absent"
  /\ pc \in [Run -> {"idle", "loop", "mkdir", "svn", "failed", "exit 0", "exit 255", "killed",
                     "ask", "clean", "cleaned", "kept", "usage"}]
  /\ at \in [Run -> 1 .. Len(Require) + 1]
  /\ retry_cnt \in [Run -> {0, 1, 9}] /\ tries \in [Run -> 0 .. 3]
  /\ disturbed \in BOOLEAN

\* A folder inside f comes first, and makes f exist before its turn.
Forestalled(f) ==
  \E r \in Run : \E i, j \in DOMAIN Require :
    i < j /\ f = FolderOf(Require[j], r) /\ IsStrictPrefix(f, FolderOf(Require[i], r))

\* Unless a run was killed or ran at the same time as another one: a run that gets
\* through exits with 0 only when all its requirements are complete, except one that
\* holds the folder of an earlier one.
ExitsTell ==
  [][~disturbed' => \A r \in Run : pc[r] # "exit 0" /\ pc'[r] = "exit 0" =>
       \A q \in ToSet(Require) :
         folder'[FolderOf(q, r)] = "complete" \/ Forestalled(FolderOf(q, r))]_vars

\* And once no run is active no folder is half there, so that the next run repairs what a
\* failed run left undone.  After a kill or an overlap it takes a clean-up (-c) to get there.
NothingHalf ==
  ~disturbed /\ (\A r \in Run : ~Active(r)) =>
    \A f \in Folder : folder[f] \in {"absent", "complete"} \/ Forestalled(f)

\* As long as one run follows the other, a complete folder is only lost to a clean-up that
\* someone agreed to, whatever fails.  (A run that overlaps may find the folder that another
\* one is fetching, complete one that lies in it, and lose it to the other one's rm -rf.)
KeepsComplete ==
  [][~disturbed' => \A f \in Folder : folder[f] = "complete" =>
       folder'[f] = "complete" \/ \E r \in Run : pc[r] = "clean" /\ pc'[r] = "cleaned"]_vars

\* Every run that is not killed comes to an end, unless it waits for an answer.
Ends == \A r \in Run : Active(r) ~> ~Active(r) \/ pc[r] = "ask"

\* downloadDependency.sh:182: a failed checkout is retried 3 times before the script
\* gives up.
RetriesThreeTimes == \A r \in Run : pc[r] = "exit 255" => tries[r] = 1 + 3
=============================================================================
