----------------------------- MODULE MCClientTx -----------------------------
(* One call of $transaction, of either kind: calls have nothing in common   *)
(* but the connection, which may be lost and made again.                    *)
EXTENDS ClientTx

CONSTANTS c1
MCCalls == {c1}
=============================================================================
