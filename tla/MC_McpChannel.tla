--------------------------- MODULE MC_McpChannel ---------------------------
(* Model-checking instance of McpChannel: one socket server thread and   *)
(* the TAExitHandler thread, both sending the same MCP command, so that a *)
(* response left in the slot by one transaction carries the identifier   *)
(* the next one checks for.  On a reused MCI the main thread sweeps one  *)
(* session id (the code sweeps 2..19; one close already meets the SWd's  *)
(* leftover notification) and may then send LOAD_TOKEN.  MaxTxns = 1     *)
(* bounds the transactions the handlers begin after start-up; both       *)
(* handlers still contend for mutex_mcp, and with MaxSpurious = 1 and     *)
(* RetryCount = 2 a wait can be woken early, time out and retry.  Two    *)
(* handler transactions take the run to almost five minutes.             *)
EXTENDS McpChannel

MC_Servers == {"socket"}
MC_Cmds == {CloseCmd}
=============================================================================
