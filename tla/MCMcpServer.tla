----------------------------- MODULE MCMcpServer -----------------------------
(* A server started in one workspace and asked about two.                    *)
EXTENDS McpServer

CONSTANTS root, other, id

MCWorkspace == {root, other}
MCId == {id}
=============================================================================
