--------------------------- MODULE DownloadProofs ---------------------------
(***************************************************************************)
(* Proofs about DownloadDependency for any number of runs, any list of     *)
(* requirements and any platforms.                                         *)
(***************************************************************************)
EXTENDS DownloadDependency, SequenceTheorems, TLAPS

(***************************************************************************)
(* Folders and what lies in them.                                          *)
(***************************************************************************)
LEMMA FolderIsPath ==
  ASSUME NEW r \in Run, NEW i \in DOMAIN Require
  PROVE  FolderOf(Require[i], r) \in Folder
<1>1. Require[i] \in ToSet(Require)
  BY DEF ToSet
<1> QED  BY <1>1 DEF Folder

LEMMA FoldersAreSeqs == Folder \subseteq Seq(STRING)
<1> SUFFICES ASSUME NEW q \in ToSet(Require), NEW r \in Run
             PROVE  FolderOf(q, r) \in Seq(STRING)
  BY DEF Folder
<1>1. q \in Seq(STRING) /\ PlatformOf[r] \in Seq(STRING)
  BY DownloadAssumption DEF ToSet
<1>2. q \o PlatformOf[r] \in Seq(STRING)
  BY <1>1, ConcatProperties
<1> QED  BY <1>1, <1>2 DEF FolderOf

LEMMA PrefixReflexive ==
  ASSUME NEW f \in Seq(STRING) PROVE IsPrefix(f, f)
BY DEF IsPrefix

LEMMA PrefixTransitive ==
  ASSUME NEW f \in Seq(STRING), NEW g \in Seq(STRING), NEW h \in Seq(STRING),
         IsPrefix(f, g), IsPrefix(g, h)
  PROVE  IsPrefix(f, h)
<1>1. Len(f) <= Len(g) /\ Len(g) <= Len(h) /\ Len(f) <= Len(h)
  BY DEF IsPrefix
<1>2. \A i \in 1 .. Len(f) : f[i] = SubSeq(g, 1, Len(f))[i]
  BY DEF IsPrefix
<1>3. \A i \in 1 .. Len(g) : g[i] = SubSeq(h, 1, Len(g))[i]
  BY DEF IsPrefix
<1>4. \A i \in 1 .. Len(f) : f[i] = h[i]
  BY <1>1, <1>2, <1>3
<1>5. SubSeq(f, 1, Len(f)) = SubSeq(h, 1, Len(f))
  BY <1>1, <1>4
<1> QED  BY <1>1, <1>5 DEF IsPrefix

LEMMA PrefixAntisymmetric ==
  ASSUME NEW f \in Seq(STRING), NEW g \in Seq(STRING), IsPrefix(f, g), IsPrefix(g, f)
  PROVE  f = g
<1>1. Len(f) = Len(g)
  BY DEF IsPrefix
<1>2. \A i \in 1 .. Len(f) : f[i] = SubSeq(g, 1, Len(f))[i]
  BY DEF IsPrefix
<1> QED  BY <1>1, <1>2, SeqEqual

\* The three facts, as the proofs below use them.
LEMMA Nested ==
  /\ \A f \in Folder : IsPrefix(f, f)
  /\ \A f, g \in Folder : IsPrefix(f, g) /\ IsPrefix(g, f) => f = g
  /\ \A f, g, h \in Folder : IsPrefix(f, g) /\ IsPrefix(g, h) => IsPrefix(f, h)
BY FoldersAreSeqs, PrefixReflexive, PrefixAntisymmetric, PrefixTransitive

(***************************************************************************)
(* What mkdir -p, svn and rm -rf do to the folders.                        *)
(***************************************************************************)
Tree == [Folder -> {"absent", "empty", "partial", "complete"}]

Closed(t) == \A f, g \in Folder : IsPrefix(f, g) /\ t[g] # "absent" => t[f] # "absent"

LEMMA MadeIsTree ==
  ASSUME folder \in Tree, Closed(folder), NEW f \in Folder
  PROVE  /\ Made(f) \in Tree /\ Closed(Made(f))
         /\ Made(f)[f] # "absent"
BY Nested DEF Tree, Closed, Made

LEMMA FetchedIsTree ==
  ASSUME folder \in Tree, Closed(folder), NEW f \in Folder, NEW s \in {"partial", "complete"}
  PROVE  LET t == [Made(f) EXCEPT ![f] = s] IN t \in Tree /\ Closed(t)
<1> DEFINE t == [Made(f) EXCEPT ![f] = s]
<1>1. Made(f) \in Tree /\ Closed(Made(f)) /\ Made(f)[f] # "absent"
  BY MadeIsTree
<1>2. t \in Tree
  BY <1>1 DEF Tree
<1>3. \A g \in Folder : t[g] = "absent" <=> Made(f)[g] = "absent"
  BY <1>1 DEF Tree
<1>4. Closed(t)
  BY <1>1, <1>3 DEF Closed
<1> QED  BY <1>2, <1>4

LEMMA RemovedIsTree ==
  ASSUME folder \in Tree, Closed(folder), NEW f \in Folder
  PROVE  Removed(f) \in Tree /\ Closed(Removed(f))
BY Nested DEF Tree, Closed, Removed

LEMMA TornIsTree ==
  ASSUME folder \in Tree, NEW f, NEW t \in Torn(f)
  PROVE  t \in Tree /\ Closed(t)
BY DEF Tree, Closed, Torn

(***************************************************************************)
(* Types.  How many checkouts of an iteration have failed determines the   *)
(* counter, which is therefore one of 0, 1 and 9.                          *)
(***************************************************************************)
Matches(p, n, k, i) ==
  /\ p \notin {"svn", "failed", "exit 255"} => k = 0
  /\ p = "svn" => (n = 0 /\ k = 0) \/ (n = 1 /\ k = 1) \/ (n = 9 /\ k = 2)
  /\ p = "failed" => (n = 0 /\ k = 1) \/ (n = 1 /\ k = 2) \/ (n = 9 /\ k = 3)
  /\ p = "exit 255" => k = 3
  /\ p \in {"mkdir", "svn", "failed"} => i \in DOMAIN Require

TriesMatch(r) == Matches(pc[r], retry_cnt[r], tries[r], at[r])

TypeInv == TypeOK /\ \A r \in Run : TriesMatch(r)

Place == {"idle", "loop", "mkdir", "svn", "failed", "exit 0", "exit 255", "killed",
          "ask", "clean", "cleaned", "kept", "usage"}

Iteration == 1 .. Len(Require) + 1

LEMMA Iterations ==
  /\ 1 \in Iteration
  /\ \A i \in Iteration : i \in Nat /\ (i <= Len(Require) => i \in DOMAIN Require)
  /\ \A i \in DOMAIN Require : i + 1 \in Iteration
BY DownloadAssumption DEF Iteration

Counters ==
  /\ pc \in [Run -> Place] /\ at \in [Run -> Iteration]
  /\ retry_cnt \in [Run -> {0, 1, 9}] /\ tries \in [Run -> 0 .. 3]

LEMMA TypeParts == TypeOK <=> folder \in Tree /\ Closed(folder) /\ Counters /\ disturbed \in BOOLEAN
BY Zenon DEF TypeOK, Tree, Closed, Counters, Place, Iteration

LEMMA TypeInit == Init => TypeInv
<1> SUFFICES ASSUME Init PROVE TypeInv
  OBVIOUS
<1>1. folder \in Tree /\ Closed(folder)
  BY DEF Init, Tree, Closed
<1>2. Counters
  BY Iterations DEF Init, Counters, Place
<1>3. disturbed \in BOOLEAN
  BY DEF Init
<1>4. \A r \in Run : TriesMatch(r)
  BY DEF Init, TriesMatch, Matches
<1> QED  BY <1>1, <1>2, <1>3, <1>4, TypeParts DEF TypeInv

\* The folder that an iteration is about.
LEMMA TargetIsFolder ==
  ASSUME TypeInv, NEW r \in Run, pc[r] \in {"mkdir", "svn", "failed"} \/ InLoop(r)
  PROVE  at[r] \in DOMAIN Require /\ Target(r) \in Folder
<1>1. at[r] \in DOMAIN Require
  BY TypeParts, Iterations DEF TypeInv, TriesMatch, Matches, InLoop, Counters
<1> QED  BY <1>1, FolderIsPath DEF Target

LEMMA FoldersStep == TypeInv /\ [Next]_vars => folder' \in Tree /\ Closed(folder)'
<1> SUFFICES ASSUME TypeInv, [Next]_vars PROVE folder' \in Tree /\ Closed(folder)'
  OBVIOUS
<1>t. folder \in Tree /\ Closed(folder)
  BY TypeParts DEF TypeInv
<1>1. CASE UNCHANGED folder
  BY <1>1, <1>t DEF Closed
<1>2. ASSUME NEW r \in Run, Mkdir(r) PROVE folder' \in Tree /\ Closed(folder)'
  BY <1>2, <1>t, TargetIsFolder, MadeIsTree DEF Mkdir, Closed
<1>3. ASSUME NEW r \in Run, NEW s \in {"partial", "complete"}, pc[r] = "svn", Fetched(r, s)
      PROVE  folder' \in Tree /\ Closed(folder)'
  BY <1>3, <1>t, TargetIsFolder, FetchedIsTree DEF Fetched, Closed
<1>4. ASSUME NEW r \in Run, pc[r] = "failed", folder' = Removed(Target(r))
      PROVE  folder' \in Tree /\ Closed(folder)'
  BY <1>4, <1>t, TargetIsFolder, RemovedIsTree DEF Closed
<1>5. ASSUME NEW r \in Run, Clean(r) PROVE folder' \in Tree /\ Closed(folder)'
  BY <1>5 DEF Clean, Cleaned, Tree, Closed
<1>6. ASSUME NEW f, folder' \in Torn(f) PROVE folder' \in Tree /\ Closed(folder)'
  BY <1>6, <1>t, TornIsTree DEF Closed
<1>7. ASSUME NEW r \in Run, Kill(r) PROVE folder' \in Tree /\ Closed(folder)'
  BY <1>1, <1>3, <1>6, <1>7 DEF Kill
<1>8. ASSUME NEW r \in Run, Step(r) PROVE folder' \in Tree /\ Closed(folder)'
  BY <1>1, <1>2, <1>3, <1>4, <1>5, <1>8 DEF Step, AlreadyExists, IsAbsent, CheckoutSucceeds,
     CheckoutFails, Checkout, Retry, RollBack, RolledBack, Finish
<1> QED
  BY <1>1, <1>7, <1>8 DEF Next, Start, Answer, Terminated, vars

LEMMA Places ==
  {"loop", "ask", "usage", "clean", "kept", "mkdir", "svn", "failed", "cleaned", "exit 0", "exit 255",
   "killed"} \subseteq Place
BY DEF Place

\* A step of one run leaves the others where they are.
Others(r) ==
  \A q \in Run \ {r} : pc'[q] = pc[q] /\ at'[q] = at[q]
                         /\ retry_cnt'[q] = retry_cnt[q] /\ tries'[q] = tries[q]

\* A failed checkout, and the decision to try again (lines 183-191).
LEMMA AfterFailure ==
  ASSUME NEW n, NEW i, NEW k \in 0 .. 3, Matches("svn", n, k, i)
  PROVE  Matches("failed", n, k + 1, i) /\ k \in 0 .. 2
BY DEF Matches

LEMMA AfterRetry ==
  ASSUME NEW n \in {0, 1, 9}, NEW i, NEW k \in 0 .. 3, Matches("failed", n, k, i)
  PROVE  n < 3 => Matches("svn", PlusOne(n), k, i) /\ PlusOne(n) \in {0, 1, 9}
BY DEF Matches, PlusOne

LEMMA GivesUp ==
  ASSUME NEW n \in {0, 1, 9}, NEW i, NEW k \in 0 .. 3, Matches("failed", n, k, i), n >= 3
  PROVE  k = 3
BY DEF Matches

LEMMA OthersStay ==
  ASSUME Counters, NEW r \in Run, Start(r) \/ Answer(r) \/ Step(r) \/ Kill(r)
  PROVE  Others(r)
<1> USE DEF Others, Counters
<1>1. CASE Start(r)  BY <1>1 DEF Start
<1>2. CASE Answer(r)  BY <1>2 DEF Answer
<1>3. CASE AlreadyExists(r)  BY <1>3 DEF AlreadyExists
<1>4. CASE IsAbsent(r)  BY <1>4 DEF IsAbsent
<1>5. CASE Mkdir(r)  BY <1>5 DEF Mkdir
<1>6. CASE CheckoutSucceeds(r)  BY <1>6 DEF CheckoutSucceeds, Checkout
<1>7. CASE CheckoutFails(r)  BY <1>7 DEF CheckoutFails, Checkout
<1>8. CASE Retry(r)  BY <1>8 DEF Retry
<1>9. CASE RollBack(r)  BY <1>9 DEF RollBack, Gone
<1>10. CASE Finish(r)  BY <1>10 DEF Finish, Gone
<1>11. CASE Clean(r)  BY <1>11 DEF Clean
<1>12. CASE Kill(r)  BY <1>12 DEF Kill, Gone
<1> QED
  BY <1>1, <1>2, <1>3, <1>4, <1>5, <1>6, <1>7, <1>8, <1>9, <1>10, <1>11, <1>12 DEF Step

LEMMA CountersStay ==
  ASSUME Counters, NEW r \in Run, TriesMatch(r), Start(r) \/ Answer(r) \/ Step(r) \/ Kill(r)
  PROVE  Counters'
<1>r. retry_cnt[r] \in {0, 1, 9} /\ tries[r] \in 0 .. 3 /\ at[r] \in Iteration
  BY DEF Counters
<1> USE DEF Counters
<1>1. CASE Start(r)
  <2>1. PICK p \in {"loop", "ask", "usage"} : pc' = [pc EXCEPT ![r] = p]
    BY <1>1 DEF Start
  <2> QED  BY <1>1, <2>1, Places, Iterations DEF Start
<1>2. CASE Answer(r)
  <2>1. PICK p \in {"clean", "kept"} : pc' = [pc EXCEPT ![r] = p]
    BY <1>2 DEF Answer
  <2> QED  BY <1>2, <2>1, Places, Iterations DEF Answer
<1>3. CASE AlreadyExists(r)  BY <1>3, Places, Iterations DEF AlreadyExists, InLoop
<1>4. CASE IsAbsent(r)  BY <1>4, Places, Iterations DEF IsAbsent
<1>5. CASE Mkdir(r)  BY <1>5, Places, Iterations DEF Mkdir
<1>6. CASE CheckoutSucceeds(r)
  <2>1. at[r] + 1 \in Iteration
    BY <1>6, Iterations DEF CheckoutSucceeds, Checkout, TriesMatch, Matches
  <2>2. pc' \in [Run -> Place] /\ at' \in [Run -> Iteration]
    BY <1>6, <2>1, Places, Iterations DEF CheckoutSucceeds
  <2>3. retry_cnt' = retry_cnt /\ tries' = [tries EXCEPT ![r] = 0]
    BY <1>6 DEF CheckoutSucceeds, Checkout
  <2>4. retry_cnt' \in [Run -> {0, 1, 9}]
    BY <2>3
  <2>5. tries' \in [Run -> 0 .. 3]
    BY <2>3
  <2> QED  BY <2>2, <2>4, <2>5
<1>7. CASE CheckoutFails(r)
  <2>m. Matches("svn", retry_cnt[r], tries[r], at[r])
    BY <1>7 DEF CheckoutFails, Checkout, TriesMatch
  <2>n. tries[r] \in 0 .. 2
    BY <1>r, <2>m, AfterFailure
  <2>1. tries[r] \in 0 .. 2 /\ tries[r] < MaxTries
    BY <2>n, DownloadAssumption
  <2>2. pc' \in [Run -> Place] /\ at' \in [Run -> Iteration]
    BY <1>7, Places, Iterations DEF CheckoutFails
  <2>3. retry_cnt' = retry_cnt /\ tries' = [tries EXCEPT ![r] = @ + 1]
    BY <1>7, <2>1 DEF CheckoutFails, Checkout
  <2>4. retry_cnt' \in [Run -> {0, 1, 9}]
    BY <2>3
  <2>5. tries' \in [Run -> 0 .. 3]
    BY <2>3, <2>1
  <2> QED  BY <2>2, <2>4, <2>5
<1>8. CASE Retry(r)
  <2>1. PlusOne(retry_cnt[r]) \in {0, 1, 9}
    BY <1>8, <1>r, AfterRetry DEF Retry, TriesMatch
  <2>2. pc' \in [Run -> Place] /\ at' \in [Run -> Iteration]
    BY <1>8, Places DEF Retry
  <2>3. retry_cnt' = [retry_cnt EXCEPT ![r] = PlusOne(retry_cnt[r])] /\ tries' = tries
    BY <1>8 DEF Retry
  <2>4. retry_cnt' \in [Run -> {0, 1, 9}]
    BY <2>1, <2>3
  <2> QED  BY <2>2, <2>3, <2>4
<1>9. CASE RollBack(r)  BY <1>9, Places, Iterations DEF RollBack, Gone
<1>10. CASE Finish(r)  BY <1>10, Places, Iterations DEF Finish, Gone
<1>11. CASE Clean(r)  BY <1>11, Places, Iterations DEF Clean
<1>12. CASE Kill(r)
  <2>1. pc' \in [Run -> Place] /\ at' \in [Run -> Iteration]
    BY <1>12, Places, Iterations DEF Kill, Gone
  <2>2. retry_cnt' = [retry_cnt EXCEPT ![r] = 0] /\ tries' = [tries EXCEPT ![r] = 0]
    BY <1>12 DEF Kill, Gone
  <2>4. retry_cnt' \in [Run -> {0, 1, 9}]
    BY <2>2
  <2>5. tries' \in [Run -> 0 .. 3]
    BY <2>2
  <2> QED  BY <2>1, <2>4, <2>5
<1> QED
  BY <1>1, <1>2, <1>3, <1>4, <1>5, <1>6, <1>7, <1>8, <1>9, <1>10, <1>11, <1>12 DEF Step

LEMMA MatchStays ==
  ASSUME Counters, NEW r \in Run, TriesMatch(r), Start(r) \/ Answer(r) \/ Step(r) \/ Kill(r)
  PROVE  TriesMatch(r)'
<1>r. retry_cnt[r] \in {0, 1, 9} /\ tries[r] \in 0 .. 3 /\ at[r] \in Iteration
      /\ Matches(pc[r], retry_cnt[r], tries[r], at[r])
  BY DEF Counters, TriesMatch
<1>s. SUFFICES Matches(pc'[r], retry_cnt'[r], tries'[r], at'[r])
  BY DEF TriesMatch
<1> USE DEF Counters
<1>1. CASE Start(r) \/ Answer(r)
  BY <1>1, <1>r DEF Start, Answer, Matches
<1>2. CASE AlreadyExists(r)
  BY <1>2, <1>r DEF AlreadyExists, InLoop, Matches
<1>3. CASE IsAbsent(r)
  BY <1>3, <1>r, Iterations DEF IsAbsent, InLoop, Matches
<1>4. CASE Mkdir(r)
  BY <1>4, <1>r DEF Mkdir, Matches
<1>5. CASE CheckoutSucceeds(r)
  BY <1>5, <1>r DEF CheckoutSucceeds, Checkout, Matches
<1>6. CASE CheckoutFails(r)
  <2>1. tries[r] \in 0 .. 2 /\ tries[r] < MaxTries
    BY <1>6, <1>r, AfterFailure, DownloadAssumption DEF CheckoutFails, Checkout
  <2>2. pc'[r] = "failed" /\ retry_cnt'[r] = retry_cnt[r] /\ at'[r] = at[r] /\ tries'[r] = tries[r] + 1
    BY <1>6, <2>1 DEF CheckoutFails, Checkout
  <2> QED  BY <1>6, <1>r, <2>2, AfterFailure DEF CheckoutFails, Checkout
<1>7. CASE Retry(r)
  <2>1. pc'[r] = "svn" /\ retry_cnt'[r] = PlusOne(retry_cnt[r]) /\ at'[r] = at[r] /\ tries'[r] = tries[r]
    BY <1>7 DEF Retry
  <2> QED  BY <1>7, <1>r, <2>1, AfterRetry DEF Retry
<1>8. CASE RollBack(r)
  <2>1. pc'[r] = "exit 255" /\ tries'[r] = tries[r]
    BY <1>8 DEF RollBack, Gone
  <2>2. tries[r] = 3
    BY <1>8, <1>r, GivesUp DEF RollBack
  <2> QED  BY <2>1, <2>2 DEF Matches
<1>9. CASE Finish(r) \/ Clean(r) \/ Kill(r)
  BY <1>9, <1>r DEF Finish, Clean, Kill, Gone, Matches
<1> QED
  BY <1>1, <1>2, <1>3, <1>4, <1>5, <1>6, <1>7, <1>8, <1>9 DEF Step

LEMMA CountersStep ==
  TypeInv /\ [Next]_vars => Counters' /\ \A q \in Run : TriesMatch(q)'
<1> SUFFICES ASSUME TypeInv, [Next]_vars
             PROVE  Counters' /\ \A q \in Run : TriesMatch(q)'
  OBVIOUS
<1>1. Counters /\ \A q \in Run : TriesMatch(q)
  BY TypeParts DEF TypeInv
<1>2. CASE \E r \in Run : Start(r) \/ Answer(r) \/ Step(r) \/ Kill(r)
  <2>1. PICK r \in Run : Start(r) \/ Answer(r) \/ Step(r) \/ Kill(r)
    BY <1>2
  <2>2. Counters' /\ TriesMatch(r)' /\ Others(r)
    BY <1>1, <2>1, CountersStay, MatchStays, OthersStay
  <2>3. \A q \in Run \ {r} : TriesMatch(q)'
    BY <1>1, <2>2 DEF Others, TriesMatch
  <2> QED  BY <2>2, <2>3
<1>3. CASE UNCHANGED vars
  BY <1>3, <1>1 DEF vars, Counters, TriesMatch
<1> QED  BY <1>2, <1>3 DEF Next, Terminated

LEMMA TypeStep == TypeInv /\ [Next]_vars => TypeInv'
<1> SUFFICES ASSUME TypeInv, [Next]_vars PROVE TypeInv'
  OBVIOUS
<1>1. disturbed \in BOOLEAN
  BY TypeParts DEF TypeInv
<1>2. disturbed' \in BOOLEAN
  BY <1>1 DEF Next, Step, Terminated, vars, Start, Answer, Kill, AlreadyExists, IsAbsent, Mkdir,
     CheckoutSucceeds, CheckoutFails, Checkout, Retry, RollBack, Finish, Clean
<1>3. folder' \in Tree /\ Closed(folder)' /\ Counters' /\ \A q \in Run : TriesMatch(q)'
  BY FoldersStep, CountersStep
<1>4. TypeOK'
  BY <1>2, <1>3 DEF TypeOK, Tree, Closed, Counters, Place, Iteration
<1> QED  BY <1>3, <1>4 DEF TypeInv

\* Every variable keeps its type, a folder lies in folders that are there, and no
\* iteration makes more than three checkouts (lines 176-196).
THEOREM TypeCorrect == Spec => []TypeOK
<1>1. TypeInv => TypeOK
  BY DEF TypeInv
<1> QED  BY <1>1, TypeInit, TypeStep, PTL DEF Spec

(***************************************************************************)
(* A run that nothing disturbs works alone, and what lies in the folder it *)
(* works on or below is never complete: rm -rf takes nothing finished.     *)
(***************************************************************************)
Work(r) ==
  /\ pc[r] = "mkdir" => folder[Target(r)] = "absent"
  /\ pc[r] \in {"svn", "failed"} =>
       /\ folder[Target(r)] # "complete"
       /\ \A g \in Folder : IsPrefix(Target(r), g) /\ g # Target(r) => folder[g] = "absent"

Quiet ==
  ~disturbed =>
    /\ \A q, r \in Run : Active(q) /\ Active(r) => q = r
    /\ \A r \in Run : Work(r)

LEMMA QuietInit == Init => Quiet
BY DEF Init, Quiet, Work, Active

\* A step that nothing disturbs, but a clean-up: no other run is active before or after.
LEMMA AloneStays ==
  ASSUME TypeInv, Quiet, ~disturbed', NEW r \in Run,
         Start(r) \/ Answer(r) \/ Step(r) \/ Kill(r), ~Clean(r)
  PROVE  /\ ~disturbed
         /\ \A q \in Run \ {r} : ~Active(q) /\ ~Active(q)'
<1>1. Others(r)
  BY OthersStay, TypeParts DEF TypeInv
<1>2. CASE Start(r)
  <2>1. ~disturbed /\ \A q \in Run \ {r} : ~Active(q)
    BY <1>2 DEF Start, Alone
  <2> QED  BY <2>1, <1>1 DEF Others, Active
<1>3. CASE ~Start(r)
  <2>k. ~Kill(r)
    BY DEF Kill
  <2>a. disturbed' = disturbed
    BY <1>3, <2>k DEF Answer, Step, AlreadyExists, IsAbsent, Mkdir, CheckoutSucceeds,
       CheckoutFails, Checkout, Retry, RollBack, Finish
  <2>b. pc[r] \in {"ask", "loop", "mkdir", "svn", "failed"}
    BY <1>3, <2>k DEF Answer, Step, AlreadyExists, IsAbsent, InLoop, Mkdir, CheckoutSucceeds,
       CheckoutFails, Checkout, Retry, RollBack, Finish
  <2>1. ~disturbed /\ Active(r)
    BY <2>a, <2>b DEF Active
  <2>2. \A q \in Run \ {r} : ~Active(q)
    BY <2>1 DEF Quiet
  <2> QED  BY <2>1, <2>2, <1>1 DEF Others, Active
<1> QED  BY <1>2, <1>3

LEMMA TargetStays ==
  ASSUME NEW r \in Run, at'[r] = at[r]
  PROVE  Target(r)' = Target(r)
BY DEF Target

LEMMA WorkStays ==
  ASSUME TypeInv, Quiet, ~disturbed, NEW r \in Run,
         Start(r) \/ Answer(r) \/ Step(r), ~Clean(r)
  PROVE  Work(r)'
<1>t. folder \in Tree /\ Closed(folder) /\ Counters
  BY TypeParts DEF TypeInv
<1>w. Work(r)
  BY DEF Quiet
<1>f. pc[r] \in {"mkdir", "svn", "failed"} \/ InLoop(r) => Target(r) \in Folder
  BY TargetIsFolder
<1> USE DEF Counters
<1>1. CASE Start(r) \/ Answer(r) \/ AlreadyExists(r) \/ Finish(r) \/ RollBack(r)
  <2>1. pc'[r] \notin {"mkdir", "svn", "failed"}
    BY <1>1, <1>t DEF Start, Answer, AlreadyExists, InLoop, Finish, RollBack, Gone
  <2> QED  BY <2>1 DEF Work
<1>2. CASE IsAbsent(r)
  <2>1. pc'[r] = "mkdir" /\ at'[r] = at[r] /\ folder'[Target(r)] = "absent"
    BY <1>2, <1>t DEF IsAbsent, MustFetch
  <2> QED  BY <2>1, TargetStays DEF Work
<1>3. CASE Mkdir(r)
  <2> DEFINE T == Target(r)
  <2>1. pc[r] = "mkdir" /\ pc'[r] = "svn" /\ at'[r] = at[r] /\ folder' = Made(T)
    BY <1>3, <1>t DEF Mkdir
  <2>2. T \in Folder /\ folder[T] = "absent"
    BY <2>1, <1>f, <1>w DEF Work
  <2>3. folder'[T] # "complete"
    BY <2>1, <2>2, <1>t DEF Made
  <2>4. \A g \in Folder : IsPrefix(T, g) /\ g # T => folder'[g] = "absent"
    BY <2>1, <2>2, <1>t, Nested DEF Made, Closed, Tree
  <2> QED  BY <2>1, <2>3, <2>4, TargetStays DEF Work
<1>4. CASE CheckoutSucceeds(r)
  <2>1. pc'[r] = "loop"
    BY <1>4, <1>t DEF CheckoutSucceeds
  <2> QED  BY <2>1 DEF Work
<1>5. CASE CheckoutFails(r)
  <2> DEFINE T == Target(r)
  <2>1. pc[r] = "svn" /\ pc'[r] = "failed" /\ at'[r] = at[r]
        /\ (folder' = folder \/ folder' = [Made(T) EXCEPT ![T] = "partial"])
    BY <1>5, <1>t DEF CheckoutFails, Checkout, Fetched
  <2>2. T \in Folder
    BY <2>1, <1>f
  <2>3. folder[T] # "complete" /\ \A g \in Folder : IsPrefix(T, g) /\ g # T => folder[g] = "absent"
    BY <2>1, <1>w DEF Work
  <2>4. folder'[T] # "complete" /\ \A g \in Folder : IsPrefix(T, g) /\ g # T => folder'[g] = "absent"
    BY <2>1, <2>2, <2>3, <1>t, Nested DEF Made, Tree
  <2> QED  BY <2>1, <2>4, TargetStays DEF Work
<1>6. CASE Retry(r)
  <2> DEFINE T == Target(r)
  <2>1. pc[r] = "failed" /\ pc'[r] = "svn" /\ at'[r] = at[r] /\ folder' = Removed(T)
    BY <1>6, <1>t DEF Retry
  <2>2. T \in Folder
    BY <2>1, <1>f
  <2>3. \A g \in Folder : IsPrefix(T, g) => folder'[g] = "absent"
    BY <2>1, <2>2 DEF Removed
  <2> QED  BY <2>1, <2>2, <2>3, Nested, TargetStays DEF Work
<1> QED  BY <1>1, <1>2, <1>3, <1>4, <1>5, <1>6 DEF Step

LEMMA QuietStep == TypeInv /\ Quiet /\ [Next]_vars => Quiet'
<1> SUFFICES ASSUME TypeInv, Quiet, [Next]_vars, ~disturbed'
             PROVE  /\ \A q, r \in Run : Active(q)' /\ Active(r)' => q = r
                    /\ \A r \in Run : Work(r)'
  BY DEF Quiet
<1>1. CASE UNCHANGED vars
  BY <1>1 DEF vars, Quiet, Work, Active, Target
<1>2. ASSUME NEW r \in Run, Start(r) \/ Answer(r) \/ Step(r), ~Clean(r)
      PROVE  /\ \A p, q \in Run : Active(p)' /\ Active(q)' => p = q
             /\ \A q \in Run : Work(q)'
  <2>1. ~disturbed /\ \A q \in Run \ {r} : ~Active(q)'
    BY <1>2, AloneStays
  <2>2. Work(r)'
    BY <1>2, <2>1, WorkStays
  <2>3. \A q \in Run \ {r} : Work(q)'
    BY <2>1 DEF Work, Active
  <2> QED  BY <2>1, <2>2, <2>3
<1>3. ASSUME NEW r \in Run, Clean(r)
      PROVE  /\ \A p, q \in Run : Active(p)' /\ Active(q)' => p = q
             /\ \A q \in Run : Work(q)'
  <2>1. Others(r) /\ pc'[r] = "cleaned"
    BY <1>3, OthersStay, TypeParts DEF TypeInv, Clean, Step, Counters
  <2>2. \A q \in Run \ {r} : ~Active(q)
    BY <1>3 DEF Clean, Alone, Quiet, Active
  <2>3. \A q \in Run : ~Active(q)'
    BY <2>1, <2>2 DEF Others, Active
  <2> QED  BY <2>3 DEF Work, Active
<1>4. ASSUME NEW r \in Run, Kill(r) PROVE FALSE
  BY <1>4 DEF Kill
<1> QED  BY <1>1, <1>2, <1>3, <1>4 DEF Next, Terminated

\* Such a step takes nothing that is complete.
LEMMA CompleteKept ==
  ASSUME TypeInv, Quiet, ~disturbed', NEW r \in Run, Start(r) \/ Answer(r) \/ Step(r), ~Clean(r),
         NEW f \in Folder, folder[f] = "complete"
  PROVE  folder'[f] = "complete"
<1> DEFINE T == Target(r)
<1>t. folder \in Tree /\ ~disturbed /\ Work(r)
  BY TypeParts, AloneStays DEF TypeInv, Quiet
<1>1. CASE UNCHANGED folder
  BY <1>1
<1>2. CASE ~UNCHANGED folder
  <2>1. pc[r] \in {"mkdir", "svn", "failed"} /\
        (\/ pc[r] \in {"mkdir", "svn"} /\ folder' = Made(T)
         \/ pc[r] = "svn" /\ \E s \in {"partial", "complete"} : folder' = [Made(T) EXCEPT ![T] = s]
         \/ pc[r] = "failed" /\ folder' = Removed(T))
    BY <1>2 DEF Start, Answer, Step, AlreadyExists, IsAbsent, Mkdir, CheckoutSucceeds,
       CheckoutFails, Checkout, Fetched, Retry, RollBack, RolledBack, Finish
  <2>2. T \in Folder
    BY <2>1, TargetIsFolder
  <2>3. CASE folder' = Made(T)
    BY <2>3, <1>t DEF Made
  <2>4. CASE pc[r] = "svn" /\ \E s \in {"partial", "complete"} : folder' = [Made(T) EXCEPT ![T] = s]
    BY <2>4, <1>t, <2>2 DEF Made, Work
  <2>5. CASE pc[r] = "failed" /\ folder' = Removed(T)
    BY <2>5, <1>t, <2>2 DEF Removed, Work
  <2> QED  BY <2>1, <2>3, <2>4, <2>5
<1> QED  BY <1>1, <1>2

\* As long as one run follows the other, what is complete is lost to nothing but an
\* agreed clean-up (line 62), whatever checkouts fail.
THEOREM CompleteStays == Spec => KeepsComplete
<1>1. TypeInv /\ Quiet /\ [Next]_vars =>
        [~disturbed' => \A f \in Folder : folder[f] = "complete" =>
           folder'[f] = "complete" \/ \E r \in Run : pc[r] = "clean" /\ pc'[r] = "cleaned"]_vars
  <2> SUFFICES ASSUME TypeInv, Quiet, [Next]_vars, ~disturbed',
                      NEW f \in Folder, folder[f] = "complete",
                      ~ \E r \in Run : pc[r] = "clean" /\ pc'[r] = "cleaned"
               PROVE  folder'[f] = "complete"
    OBVIOUS
  <2>1. ASSUME NEW r \in Run PROVE ~Clean(r) /\ ~Kill(r)
    BY TypeParts DEF TypeInv, Clean, Kill, Counters
  <2> QED  BY <2>1, CompleteKept DEF Next, Terminated, vars
<1> QED  BY <1>1, TypeInit, TypeStep, QuietInit, QuietStep, PTL DEF Spec, KeepsComplete

(***************************************************************************)
(* Requirements are served in order: what lies before a run's position is  *)
(* complete, and only the folder in work may be half there.  A folder that *)
(* an earlier requirement made for its own path is the exception.          *)
(***************************************************************************)
Fine(f) == folder[f] = "complete" \/ Forestalled(f)

FromTheStart == \A r \in Run : pc[r] \notin {"loop", "mkdir", "svn", "failed"} => at[r] = 1

OnlyTargets ==
  \A f \in Folder :
    folder[f] = "absent" \/ Fine(f) \/ \E r \in Run : pc[r] \in {"svn", "failed"} /\ f = Target(r)

Served(r) == \A i \in DOMAIN Require : i < at[r] => Fine(FolderOf(Require[i], r))

Order == FromTheStart /\ (~disturbed => OnlyTargets /\ \A r \in Run : Served(r))

LEMMA OrderInit == Init => Order
BY Iterations DEF Init, Order, FromTheStart, OnlyTargets, Served

\* The folders that mkdir -p makes around its target are not waited for any more.
LEMMA AroundTarget ==
  ASSUME NEW r \in Run, at[r] \in DOMAIN Require, Served(r), NEW g \in Folder, folder[g] = "absent",
         IsPrefix(g, Target(r)), g # Target(r)
  PROVE  Forestalled(g)
<1>1. PICK q \in ToSet(Require), s \in Run : g = FolderOf(q, s)
  BY DEF Folder
<1>2. PICK j \in DOMAIN Require : q = Require[j]
  BY DEF ToSet
<1>3. Require[at[r]] \in ToSet(Require)
  BY DEF ToSet
<1>4. IsStrictPrefix(g, Target(r))
  BY DEF IsStrictPrefix
<1>5. g = FolderOf(Require[j], r)
  BY <1>1, <1>2, <1>3, <1>4, PlatformsApart DEF Target
<1>6. j \in Int /\ at[r] \in Int
  BY DownloadAssumption
<1>7. CASE j < at[r]
  BY <1>5, <1>7 DEF Served, Fine
<1>8. CASE j > at[r]
  BY <1>4, <1>5, <1>6, <1>8 DEF Forestalled, Target
<1>9. j # at[r]
  BY <1>5 DEF Target
<1> QED  BY <1>6, <1>7, <1>8, <1>9

LEMMA FromTheStartStep ==
  ASSUME TypeInv, FromTheStart, NEW r \in Run, Start(r) \/ Answer(r) \/ Step(r) \/ Kill(r)
  PROVE  FromTheStart'
<1>1. Others(r) /\ Counters
  BY OthersStay, TypeParts DEF TypeInv
<1>2. pc'[r] \in {"loop", "mkdir", "svn", "failed"} \/ at'[r] = 1
  <2>1. CASE Start(r) \/ Answer(r) \/ Clean(r)
    BY <2>1, <1>1 DEF Start, Answer, Clean, FromTheStart, Counters
  <2>2. CASE Finish(r) \/ RollBack(r) \/ Kill(r)
    BY <2>2, <1>1 DEF Finish, RollBack, Kill, Gone, Counters
  <2>3. CASE AlreadyExists(r) \/ IsAbsent(r) \/ Mkdir(r) \/ Retry(r)
    BY <2>3, <1>1 DEF AlreadyExists, InLoop, IsAbsent, Mkdir, Retry, Counters
  <2>4. CASE CheckoutSucceeds(r) \/ CheckoutFails(r)
    BY <2>4, <1>1 DEF CheckoutSucceeds, CheckoutFails, Counters
  <2> QED  BY <2>1, <2>2, <2>3, <2>4 DEF Step
<1> QED  BY <1>1, <1>2 DEF Others, FromTheStart

\* One step of a run that works alone, by what it does to the folders and to its position.
LEMMA OrderKept ==
  ASSUME TypeInv, Quiet, Order, ~disturbed', NEW r \in Run, Start(r) \/ Answer(r) \/ Step(r), ~Clean(r)
  PROVE  OnlyTargets' /\ \A q \in Run : Served(q)'
<1> DEFINE T == Target(r)
           done == folder'[T] = "complete" \/ Forestalled(T)
<1>t. folder \in Tree /\ Counters
  BY TypeParts DEF TypeInv
<1>a. ~disturbed /\ Others(r) /\ \A q \in Run \ {r} : pc[q] \notin {"svn", "failed"}
  BY AloneStays, OthersStay, <1>t DEF Active
<1>o. OnlyTargets /\ Work(r) /\ \A q \in Run : Served(q)
  BY <1>a DEF Order, Quiet
<1>f. \A f \in Folder : Fine(f) => Fine(f)'
  BY CompleteKept DEF Fine
<1>h. \A f \in Folder : folder[f] = "absent" \/ Fine(f) \/ (pc[r] \in {"svn", "failed"} /\ f = T)
  BY <1>a, <1>o DEF OnlyTargets
<1>p. pc[r] \in {"mkdir", "svn", "failed"} \/ InLoop(r) => at[r] \in DOMAIN Require /\ T \in Folder
  BY TargetIsFolder
<1>m. ASSUME pc[r] \in {"mkdir", "svn"}, NEW g \in Folder, g # T
      PROVE  Made(T)[g] = "absent" \/ Fine(g)
  <2>1. CASE folder[g] # "absent"
    BY <1>h, <1>m, <2>1
  <2>2. CASE folder[g] = "absent" /\ IsPrefix(g, T)
    BY <1>o, <1>p, <1>m, <2>2, AroundTarget DEF Fine
  <2>3. CASE folder[g] = "absent" /\ ~IsPrefix(g, T)
    BY <1>m, <2>3 DEF Made
  <2> QED  BY <2>1, <2>2, <2>3
<1>s. SUFFICES /\ \A g \in Folder : folder'[g] = "absent" \/ Fine(g)'
                                    \/ (pc'[r] \in {"svn", "failed"} /\ g = Target(r)')
               /\ at'[r] = at[r] \/ at'[r] = 1 \/ (at'[r] = at[r] + 1 /\ at[r] \in DOMAIN Require /\ done)
  <2>1. OnlyTargets'
    BY <1>s DEF OnlyTargets
  <2>2. ASSUME NEW q \in Run \ {r} PROVE Served(q)'
    BY <1>a, <1>o, <1>f, FolderIsPath DEF Others, Served
  <2>3. ASSUME NEW i \in DOMAIN Require, i < at'[r] PROVE Fine(FolderOf(Require[i], r))'
    <3>1. i \in Nat \ {0} /\ at[r] \in Nat
      BY <1>t, DownloadAssumption, Iterations DEF Counters
    <3>2. i < at[r] \/ (i = at[r] /\ done)
      BY <1>s, <2>3, <3>1
    <3>3. CASE i < at[r]
      BY <3>3, <1>o, <1>f, FolderIsPath DEF Served
    <3>4. CASE i = at[r] /\ done
      BY <3>4 DEF Target, Fine
    <3> QED  BY <3>2, <3>3, <3>4
  <2> QED  BY <2>1, <2>2, <2>3 DEF Served
<1> USE DEF Counters
<1>1. CASE Start(r) \/ Answer(r) \/ IsAbsent(r)
  BY <1>1, <1>h DEF Start, Answer, IsAbsent, InLoop, Fine
<1>2. CASE AlreadyExists(r)
  <2>1. pc[r] = "loop" /\ at'[r] = at[r] + 1 /\ folder' = folder /\ folder[T] # "absent"
    BY <1>2, <1>t DEF AlreadyExists, InLoop, MustFetch
  <2>2. at[r] \in DOMAIN Require /\ T \in Folder
    BY <1>2, <1>p DEF AlreadyExists
  <2>3. Fine(T)
    BY <2>1, <2>2, <1>h
  <2>4. done
    BY <2>1, <2>3 DEF Fine
  <2>5. \A g \in Folder : folder'[g] = "absent" \/ Fine(g)'
    BY <2>1, <1>h, <1>f
  <2> QED  BY <2>1, <2>2, <2>4, <2>5
<1>3. CASE Mkdir(r)
  <2>1. pc[r] = "mkdir" /\ pc'[r] = "svn" /\ at'[r] = at[r] /\ folder' = Made(T)
    BY <1>3, <1>t DEF Mkdir
  <2> QED  BY <2>1, <1>m, <1>f, TargetStays
<1>4. CASE CheckoutSucceeds(r)
  <2>1. pc[r] = "svn" /\ at'[r] = at[r] + 1 /\ folder' = [Made(T) EXCEPT ![T] = "complete"]
    BY <1>4, <1>t DEF CheckoutSucceeds, Checkout, Fetched
  <2>2. done
    BY <2>1, <1>p DEF Made
  <2>3. \A g \in Folder : g # T => folder'[g] = Made(T)[g]
    BY <2>1 DEF Made
  <2>4. ASSUME NEW g \in Folder PROVE folder'[g] = "absent" \/ Fine(g)'
    <3>1. CASE g = T
      BY <3>1, <2>2 DEF Fine
    <3>2. CASE g # T
      BY <3>2, <2>1, <2>3, <1>m, <1>f
    <3> QED  BY <3>1, <3>2
  <2> QED  BY <2>1, <2>2, <2>4, <1>p
<1>5. CASE CheckoutFails(r)
  <2>1. pc[r] = "svn" /\ pc'[r] = "failed" /\ at'[r] = at[r]
        /\ (folder' = folder \/ folder' = [Made(T) EXCEPT ![T] = "partial"])
    BY <1>5, <1>t DEF CheckoutFails, Checkout, Fetched
  <2>2. \A g \in Folder : g # T => folder'[g] = "absent" \/ Fine(g)'
    BY <2>1, <1>m, <1>f, <1>h DEF Made
  <2> QED  BY <2>1, <2>2, TargetStays
<1>6. CASE Retry(r) \/ RollBack(r)
  <2>1. pc[r] = "failed" /\ at'[r] \in {at[r], 1} /\ folder' = Removed(T)
    BY <1>6, <1>t DEF Retry, RollBack, RolledBack, Gone
  <2>2. \A g \in Folder : folder'[g] = "absent" \/ (folder'[g] = folder[g] /\ g # T)
    BY <2>1, <1>p, Nested DEF Removed
  <2> QED  BY <2>1, <2>2, <1>f, <1>h
<1>7. CASE Finish(r)
  BY <1>7, <1>t, <1>h DEF Finish, Gone, Fine
<1> QED  BY <1>1, <1>2, <1>3, <1>4, <1>5, <1>6, <1>7 DEF Step

LEMMA OrderStep == TypeInv /\ Quiet /\ Order /\ [Next]_vars => Order'
<1> SUFFICES ASSUME TypeInv, Quiet, Order, [Next]_vars PROVE Order'
  OBVIOUS
<1>1. CASE UNCHANGED vars
  BY <1>1 DEF vars, Order, FromTheStart, OnlyTargets, Served, Fine, Target
<1>2. ASSUME NEW r \in Run, Start(r) \/ Answer(r) \/ Step(r) \/ Kill(r) PROVE Order'
  <2>1. FromTheStart'
    BY <1>2, FromTheStartStep DEF Order
  <2>2. ASSUME ~disturbed', ~Clean(r) PROVE OnlyTargets' /\ \A q \in Run : Served(q)'
    <3>1. ~Kill(r)
      BY <2>2 DEF Kill
    <3> QED  BY <1>2, <2>2, <3>1, OrderKept
  <2>3. ASSUME ~disturbed', Clean(r) PROVE OnlyTargets' /\ \A q \in Run : Served(q)'
    <3>1. at' = at /\ pc[r] = "clean" /\ \A f \in Folder : folder'[f] = "absent"
      BY <2>3 DEF Clean, Cleaned
    <3>2. \A q \in Run \ {r} : ~Active(q)
      BY <2>3 DEF Clean, Alone, Quiet, Active
    <3>3. \A q \in Run : at'[q] = 1
      BY <3>1, <3>2 DEF Order, FromTheStart, Active
    <3> QED  BY <3>1, <3>3, DownloadAssumption DEF OnlyTargets, Served
  <2> QED  BY <2>1, <2>2, <2>3 DEF Order
<1> QED  BY <1>1, <1>2 DEF Next, Terminated

\* Once no run is active, nothing is half there, unless a run was killed or overlapped
\* another one since the last clean-up (lines 176-196).
THEOREM NothingStaysHalf == Spec => []NothingHalf
<1>1. Order => NothingHalf
  BY DEF Order, OnlyTargets, Fine, NothingHalf, Active
<1> QED  BY <1>1, TypeInit, TypeStep, QuietInit, QuietStep, OrderInit, OrderStep, PTL DEF Spec

LEMMA PastTheEnd ==
  ASSUME NEW n \in Iteration, n > Len(Require), NEW i \in DOMAIN Require
  PROVE  i < n
<1>1. Len(Require) \in Nat /\ DOMAIN Require = 1 .. Len(Require)
  BY DownloadAssumption, LenProperties
<1>2. n \in Nat
  BY Iterations
<1> HIDE DEF Iteration
<1> QED  BY <1>1, <1>2

\* Exit code 0 tells that the requirements are there (lines 155-199), in the same runs.
THEOREM ExitIsTold == Spec => ExitsTell
<1>1. TypeInv /\ Order /\ [Next]_vars =>
        [~disturbed' => \A r \in Run : pc[r] # "exit 0" /\ pc'[r] = "exit 0" =>
           \A q \in ToSet(Require) :
             folder'[FolderOf(q, r)] = "complete" \/ Forestalled(FolderOf(q, r))]_vars
  <2> SUFFICES ASSUME TypeInv, Order, [Next]_vars, ~disturbed', NEW r \in Run,
                      pc[r] # "exit 0", pc'[r] = "exit 0", NEW q \in ToSet(Require)
               PROVE  folder'[FolderOf(q, r)] = "complete" \/ Forestalled(FolderOf(q, r))
    OBVIOUS
  <2>t. Counters
    BY TypeParts DEF TypeInv
  <2>1. PICK s \in Run : Start(s) \/ Answer(s) \/ Step(s) \/ Kill(s)
    BY DEF Next, Terminated, vars
  <2>2. s = r
    BY <2>1, <2>t, OthersStay DEF Others
  <2>3. Finish(r)
    <3>1. ~Start(r) /\ ~Answer(r) /\ ~Kill(r) /\ ~AlreadyExists(r) /\ ~IsAbsent(r) /\ ~Mkdir(r)
      BY <2>t DEF Counters, Start, Answer, Kill, Gone, AlreadyExists, IsAbsent, Mkdir
    <3>2. ~CheckoutSucceeds(r) /\ ~CheckoutFails(r) /\ ~Retry(r) /\ ~RollBack(r) /\ ~Clean(r)
      BY <2>t DEF Counters, CheckoutSucceeds, CheckoutFails, Retry, RollBack, Gone, Clean
    <3> QED  BY <2>1, <2>2, <3>1, <3>2 DEF Step
  <2>4. folder' = folder /\ ~disturbed /\ at[r] > Len(Require)
    BY <2>3 DEF Finish
  <2>5. PICK i \in DOMAIN Require : q = Require[i]
    BY DEF ToSet
  <2>6. i < at[r]
    BY <2>t, <2>4, PastTheEnd DEF Counters
  <2> QED  BY <2>4, <2>5, <2>6 DEF Order, Served, Fine
<1> QED
  BY <1>1, TypeInit, TypeStep, QuietInit, QuietStep, OrderInit, OrderStep, PTL DEF Spec, ExitsTell

(***************************************************************************)
(* A run ends.  What it has still to do is a number: nine for each         *)
(* requirement to come, and in its iteration the commands that are left of *)
(* three checkouts, which the counter tells.                               *)
(***************************************************************************)
InIteration(p) == p \in {"loop", "mkdir", "svn", "failed"}

Checkouts(n) == IF n = 0 THEN 3 ELSE IF n = 1 THEN 2 ELSE 1
Commands(p, n) ==
  CASE p = "loop" -> 8
    [] p = "mkdir" -> 7
    [] p = "svn" -> 2 * Checkouts(n)
    [] OTHER -> 2 * Checkouts(n) - 1

LeftOf(p, n, i) ==
  IF InIteration(p) THEN 9 * (Len(Require) + 1 - i) + Commands(p, n)
  ELSE IF p = "clean" THEN 1 ELSE 0
Left(r) == LeftOf(pc[r], retry_cnt[r], at[r])

LEMMA CommandsRange ==
  ASSUME NEW p, NEW n \in {0, 1, 9}
  PROVE  /\ Commands(p, n) \in 1 .. 8
         /\ Commands("loop", n) = 8 /\ Commands("mkdir", n) = 7
         /\ Commands("svn", 0) = 6 /\ Commands("svn", 1) = 4 /\ Commands("svn", 9) = 2
         /\ Commands("failed", 0) = 5 /\ Commands("failed", 1) = 3 /\ Commands("failed", 9) = 1
<1>1. Checkouts(n) \in 1 .. 3 /\ Checkouts(0) = 3 /\ Checkouts(1) = 2 /\ Checkouts(9) = 1
  BY DEF Checkouts
<1> QED  BY <1>1 DEF Commands

LEMMA LeftIsNat ==
  ASSUME NEW p, NEW n \in {0, 1, 9}, NEW i \in Iteration
  PROVE  /\ LeftOf(p, n, i) \in Nat
         /\ InIteration(p) \/ p = "clean" => LeftOf(p, n, i) > 0
         /\ ~InIteration(p) /\ p # "clean" => LeftOf(p, n, i) = 0
<1>1. Len(Require) \in Nat /\ i \in Nat /\ i <= Len(Require) + 1
  BY DownloadAssumption DEF Iteration
<1>2. Commands(p, n) \in Nat /\ Commands(p, n) > 0
  BY CommandsRange
<1>3. 9 * (Len(Require) + 1 - i) \in Nat
  BY <1>1
<1> HIDE DEF InIteration
<1> QED  BY <1>2, <1>3 DEF LeftOf

\* The next requirement costs more than what an iteration leaves undone.
LEMMA NextIsLess ==
  ASSUME NEW p, InIteration(p), NEW n \in {0, 1, 9}, NEW m \in {0, 1, 9}, NEW i \in DOMAIN Require
  PROVE  LeftOf("loop", m, i + 1) < LeftOf(p, n, i)
<1>1. Len(Require) \in Nat /\ i \in Nat
  BY DownloadAssumption
<1>2. Commands(p, n) \in 1 .. 8 /\ Commands("loop", m) = 8
  BY CommandsRange
<1>3. 9 * (Len(Require) + 1 - (i + 1)) = 9 * (Len(Require) + 1 - i) - 9
  BY <1>1
<1>4. 9 * (Len(Require) + 1 - i) \in Int
  BY <1>1
<1>5. LeftOf("loop", m, i + 1) = 9 * (Len(Require) + 1 - (i + 1)) + 8
  BY <1>2 DEF LeftOf, InIteration
<1>6. LeftOf(p, n, i) = 9 * (Len(Require) + 1 - i) + Commands(p, n)
  BY DEF LeftOf
<1>7. \A x \in Int, y \in 1 .. 8 : x - 9 + 8 < x + y
  OBVIOUS
<1>8. 9 * (Len(Require) + 1 - i) - 9 + 8 < 9 * (Len(Require) + 1 - i) + Commands(p, n)
  BY <1>2, <1>4, <1>7
<1> QED  BY <1>3, <1>5, <1>6, <1>8

LEMMA SameIteration ==
  ASSUME NEW p, InIteration(p), NEW q, InIteration(q), NEW n \in {0, 1, 9}, NEW m \in {0, 1, 9},
         NEW i \in Iteration, Commands(q, m) < Commands(p, n)
  PROVE  LeftOf(q, m, i) < LeftOf(p, n, i)
<1>1. 9 * (Len(Require) + 1 - i) \in Int
  BY DownloadAssumption DEF Iteration
<1>2. Commands(p, n) \in Int /\ Commands(q, m) \in Int
  BY CommandsRange
<1>3. /\ LeftOf(q, m, i) = 9 * (Len(Require) + 1 - i) + Commands(q, m)
      /\ LeftOf(p, n, i) = 9 * (Len(Require) + 1 - i) + Commands(p, n)
  BY DEF LeftOf
<1> HIDE DEF InIteration
<1> QED  BY <1>1, <1>2, <1>3

LEMMA StepShortens ==
  ASSUME TypeInv, NEW r \in Run, Step(r)
  PROVE  Left(r)' < Left(r)
<1>r. /\ retry_cnt[r] \in {0, 1, 9} /\ tries[r] \in 0 .. 3 /\ at[r] \in Iteration
      /\ Matches(pc[r], retry_cnt[r], tries[r], at[r]) /\ Counters
  BY TypeParts DEF TypeInv, Counters, TriesMatch
<1>s. SUFFICES LeftOf(pc'[r], retry_cnt'[r], at'[r]) < LeftOf(pc[r], retry_cnt[r], at[r])
  BY DEF Left, LeftOf, Commands, Checkouts, InIteration
<1>1. CASE AlreadyExists(r)
  <2>1. pc'[r] = "loop" /\ pc[r] = "loop" /\ at'[r] = at[r] + 1 /\ retry_cnt'[r] = retry_cnt[r]
    BY <1>1, <1>r DEF AlreadyExists, InLoop, Counters
  <2>2. at[r] \in DOMAIN Require
    BY <1>1, <1>r, Iterations DEF AlreadyExists, InLoop
  <2> QED  BY <1>r, <2>1, <2>2, NextIsLess DEF InIteration
<1>2. CASE CheckoutSucceeds(r)
  <2>1. pc'[r] = "loop" /\ pc[r] = "svn" /\ at'[r] = at[r] + 1 /\ retry_cnt'[r] = retry_cnt[r]
    BY <1>2, <1>r DEF CheckoutSucceeds, Checkout, Counters
  <2>2. at[r] \in DOMAIN Require
    BY <1>r, <2>1 DEF Matches
  <2> QED  BY <1>r, <2>1, <2>2, NextIsLess DEF InIteration
<1>3. CASE IsAbsent(r)
  <2>1. pc[r] = "loop" /\ pc'[r] = "mkdir" /\ at'[r] = at[r] /\ retry_cnt'[r] = retry_cnt[r]
    BY <1>3, <1>r DEF IsAbsent, InLoop, Counters
  <2>2. Commands("mkdir", retry_cnt[r]) < Commands("loop", retry_cnt[r])
    BY <1>r, CommandsRange
  <2> QED  BY <1>r, <2>1, <2>2, SameIteration DEF InIteration
<1>4. CASE Mkdir(r)
  <2>1. pc[r] = "mkdir" /\ pc'[r] = "svn" /\ at'[r] = at[r] /\ retry_cnt'[r] = 0
    BY <1>4, <1>r DEF Mkdir, Counters
  <2>2. Commands("svn", 0) < Commands("mkdir", retry_cnt[r])
    BY <1>r, CommandsRange
  <2> QED  BY <1>r, <2>1, <2>2, SameIteration DEF InIteration
<1>5. CASE CheckoutFails(r)
  <2>1. pc[r] = "svn" /\ pc'[r] = "failed" /\ at'[r] = at[r] /\ retry_cnt'[r] = retry_cnt[r]
    BY <1>5, <1>r DEF CheckoutFails, Checkout, Counters
  <2>2. Commands("failed", retry_cnt[r]) < Commands("svn", retry_cnt[r])
    BY <1>r, CommandsRange
  <2> QED  BY <1>r, <2>1, <2>2, SameIteration DEF InIteration
<1>6. CASE Retry(r)
  <2>1. /\ pc[r] = "failed" /\ pc'[r] = "svn" /\ at'[r] = at[r]
        /\ retry_cnt[r] < 3 /\ retry_cnt'[r] = PlusOne(retry_cnt[r])
    BY <1>6, <1>r DEF Retry, Counters
  <2>2. PlusOne(retry_cnt[r]) \in {0, 1, 9} /\ PlusOne(0) = 1 /\ PlusOne(1) = 9
    BY <1>r, <2>1 DEF PlusOne
  <2>3. Commands("svn", PlusOne(retry_cnt[r])) < Commands("failed", retry_cnt[r])
    BY <1>r, <2>1, <2>2, CommandsRange
  <2> QED  BY <1>r, <2>1, <2>2, <2>3, SameIteration DEF InIteration
<1>7. CASE RollBack(r) \/ Finish(r) \/ Clean(r)
  <2>1. /\ InIteration(pc[r]) \/ pc[r] = "clean"
        /\ pc'[r] \in {"exit 0", "exit 255", "cleaned"}
        /\ at'[r] \in Iteration /\ retry_cnt'[r] \in {0, 1, 9}
    BY <1>7, <1>r, Iterations DEF RollBack, Finish, Clean, Gone, Counters, InIteration
  <2>2. LeftOf(pc'[r], retry_cnt'[r], at'[r]) = 0
    BY <2>1, LeftIsNat DEF InIteration
  <2> QED  BY <1>r, <2>1, <2>2, LeftIsNat
<1> QED  BY <1>1, <1>2, <1>3, <1>4, <1>5, <1>6, <1>7 DEF Step

\* A run that is in its loop, or cleans up, takes no more steps than Left says when it
\* comes there (nine for each requirement, and eight): each of its steps makes the number
\* smaller, nothing that another run does makes it larger, and it is 0 only when the run
\* has ended.
EachStepCounts ==
  [][\A r \in Run : Active(r) /\ pc[r] # "ask" =>
       /\ Left(r) \in Nat \ {0}
       /\ Left(r)' <= Left(r)
       /\ Step(r) => Left(r)' < Left(r)]_vars

\* The number of commands of a run (lines 133-199) is bounded by the list of requirements,
\* whatever fails and whatever runs besides it: the safety half of Ends.
THEOREM RunsAreFinite == Spec => EachStepCounts
<1>1. TypeInv /\ TypeInv' /\ [Next]_vars =>
        [\A r \in Run : Active(r) /\ pc[r] # "ask" =>
           /\ Left(r) \in Nat \ {0}
           /\ Left(r)' <= Left(r)
           /\ Step(r) => Left(r)' < Left(r)]_vars
  <2> SUFFICES ASSUME TypeInv, TypeInv', [Next]_vars, NEW r \in Run, Active(r), pc[r] # "ask"
               PROVE  /\ Left(r) \in Nat \ {0}
                      /\ Left(r)' <= Left(r)
                      /\ Step(r) => Left(r)' < Left(r)
    OBVIOUS
  <2>1. Counters /\ Counters'
    BY TypeParts DEF TypeInv, TypeOK, Counters, Place, Iteration
  <2>2. Left(r) \in Nat \ {0}
    <3>1. InIteration(pc[r]) \/ pc[r] = "clean"
      BY DEF Active, InIteration
    <3>2. retry_cnt[r] \in {0, 1, 9} /\ at[r] \in Iteration
      BY <2>1 DEF Counters
    <3>3. Left(r) \in Nat /\ Left(r) > 0
      BY <3>1, <3>2, LeftIsNat DEF Left
    <3> QED  BY <3>3
  <2>3. Left(r)' = LeftOf(pc'[r], retry_cnt'[r], at'[r])
    BY DEF Left, LeftOf, Commands, Checkouts, InIteration
  <2>4. Left(r)' \in Nat
    <3>1. retry_cnt'[r] \in {0, 1, 9} /\ at'[r] \in Iteration
      BY <2>1 DEF Counters
    <3>2. LeftOf(pc'[r], retry_cnt'[r], at'[r]) \in Nat
      BY <3>1, LeftIsNat
    <3> QED  BY <2>3, <3>2
  <2>5. CASE Step(r)
    BY <2>2, <2>4, <2>5, StepShortens
  <2>6. CASE Kill(r)
    <3>1. pc'[r] = "killed"
      BY <2>1, <2>6 DEF Kill, Gone, Counters
    <3>2. Left(r)' = 0
      BY <2>1, <2>3, <3>1, LeftIsNat DEF InIteration, Counters
    <3>3. ~Step(r)
      <4>1. ~AlreadyExists(r) /\ ~IsAbsent(r) /\ ~Mkdir(r) /\ ~CheckoutSucceeds(r) /\ ~CheckoutFails(r)
        BY <2>1, <3>1 DEF Counters, AlreadyExists, InLoop, IsAbsent, Mkdir, CheckoutSucceeds, CheckoutFails
      <4>2. ~Retry(r) /\ ~RollBack(r) /\ ~Finish(r) /\ ~Clean(r)
        BY <2>1, <3>1 DEF Counters, Retry, RollBack, Finish, Gone, Clean
      <4> QED  BY <4>1, <4>2 DEF Step
    <3> QED  BY <2>2, <3>2, <3>3
  <2>7. CASE ~Step(r) /\ ~Kill(r)
    <3>1. ~Start(r) /\ ~Answer(r)
      BY DEF Start, Answer, Active
    <3>2. pc'[r] = pc[r] /\ retry_cnt'[r] = retry_cnt[r] /\ at'[r] = at[r]
      <4>1. CASE \E s \in Run : Start(s) \/ Answer(s) \/ Step(s) \/ Kill(s)
        BY <2>1, <2>7, <3>1, <4>1, OthersStay DEF Others
      <4>2. CASE UNCHANGED vars
        BY <4>2 DEF vars
      <4> QED  BY <4>1, <4>2 DEF Next, Terminated
    <3> QED  BY <2>2, <2>3, <2>7, <3>2 DEF Left
  <2> QED  BY <2>5, <2>6, <2>7
<1> QED  BY <1>1, TypeInit, TypeStep, PTL DEF Spec, EachStepCounts
=============================================================================
