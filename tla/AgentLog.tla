------------------------------ MODULE AgentLog ------------------------------
(***************************************************************************)
(* What class GuestAgent promises the threads that read its file back.     *)
(* The first setting that takes effect stays.  From then on there is one   *)
(* log: first the lines of its header, one by one, then whole groups of    *)
(* lines, each of a kind that the setting allows.  A thread that reads the *)
(* log gets all that is in it at that moment, and nothing that is not (yet *)
(* or ever) in it: no part of a group, no line of an earlier file.  Once   *)
(* the log is closed nothing is added and nobody reads.                    *)
(* Nothing is promised about a group that is not finished when the log is  *)
(* closed, nor that a reader ever succeeds.                                *)
(***************************************************************************)
EXTENDS Naturals, Sequences

CONSTANTS Reader,   \* the threads that read
          Setting,  \* what the agent may be told
          Header,   \* Header[s]: the lines the log of setting s begins with
          Group     \* Group[s]: the groups of lines that may follow

VARIABLES setting,  \* <<s>> once s has taken effect
          log,      \* the lines that are published
          seen,     \* what each reader has read last
          open

vars == <<setting, log, seen, open>>

Init ==
  /\ setting = <<>>
  /\ log = <<>>
  /\ seen = [r \in Reader |-> <<>>]
  /\ open = TRUE

Settle ==
  /\ open /\ setting = <<>>
  /\ \E s \in Setting : setting' = <<s>>
  /\ UNCHANGED <<log, seen, open>>

\* Somebody may use the log.
Active == open /\ setting # <<>>

PublishHeader ==
  /\ Active
  /\ LET h == Header[setting[1]] IN
       Len(log) < Len(h) /\ log' = Append(log, h[Len(log) + 1])
  /\ UNCHANGED <<setting, seen, open>>

PublishGroup ==
  /\ Active
  /\ Len(log) >= Len(Header[setting[1]])
  /\ \E g \in Group[setting[1]] : log' = log \o g
  /\ UNCHANGED <<setting, seen, open>>

Read(r) ==
  /\ Active
  /\ seen' = [seen EXCEPT ![r] = log]
  /\ UNCHANGED <<setting, log, open>>

\* A reader may get nothing instead.
ReadFails(r) ==
  /\ Active
  /\ seen' = [seen EXCEPT ![r] = <<>>]
  /\ UNCHANGED <<setting, log, open>>

Close == open /\ open' = FALSE /\ UNCHANGED <<setting, log, seen>>

Next == Settle \/ PublishHeader \/ PublishGroup \/ (\E r \in Reader : Read(r) \/ ReadFails(r)) \/ Close

Spec == Init /\ [][Next]_vars
=============================================================================
