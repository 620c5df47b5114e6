---------------------------- MODULE MCGuestAgent ----------------------------
(* The GuestAgentExternalInfo records of the instances that TLC checks. *)
EXTENDS GuestAgent

csv == [agent_file_ |-> "a.csv", csv |-> TRUE, fun |-> FALSE,
        interval_ |-> 1, cpu_method_ |-> "top"]
table == [csv EXCEPT !.agent_file_ = "b.table", !.csv = FALSE]
unnamed == [table EXCEPT !.agent_file_ = ""]
own == [table EXCEPT !.fun = TRUE]
stat == [csv EXCEPT !.cpu_method_ = "stat"]

CsvFile == {"a.csv"}
BothFiles == {"a.csv", "b.table"}
AllInfo == {csv, table, unnamed, own}
StatInfo == {stat}
=============================================================================
