-------------------------- MODULE MCServerManager --------------------------
(* The server manager with the bounds of the .cfg files.                    *)
EXTENDS ServerManager
=============================================================================
