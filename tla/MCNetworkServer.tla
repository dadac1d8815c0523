-------------------------- MODULE MCNetworkServer --------------------------
(* The network server with the bounds of the .cfg files.                    *)
EXTENDS NetworkServer
=============================================================================
