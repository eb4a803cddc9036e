---------------------------- MODULE MCRpcServer ----------------------------
(* Model checking of RpcServer: requests of each kind, more than there are *)
(* slots, and as many queries as slots.                                    *)
EXTENDS RpcServer, TLC

CONSTANTS Blank, Queries, Shutdown

MCKind ==
    [r \in Requests |-> CASE r = Blank -> "blank"
                          [] r \in Queries -> "query"
                          [] r = Shutdown -> "shutdown"
                          [] OTHER -> "prompt"]

=============================================================================
