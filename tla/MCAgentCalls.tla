---------------------------- MODULE MCAgentCalls ----------------------------
(* Two reviewed writes and a read, over a task of two statuses.            *)
EXTENDS AgentCalls, TLC

Note == [tool |-> "create_note", from |-> None, to |-> None]
Start == [tool |-> "update_task_status", from |-> "todo", to |-> "done"]
Read == [tool |-> "query", from |-> None, to |-> None]

Everything == {Note, Start, Read}
OnlyNote == {Note}
=============================================================================
