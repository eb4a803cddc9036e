---------------------------- MODULE MCPagination ----------------------------
(* Three rows, two ranks, two children; pages of one row, two rows and the default. *)
EXTENDS Pagination

\* Bound: paginate is walked by id, the order its property speaks of; cursorPaginate by id
\* and by rank.
MCInit == Init /\ (walk.kind = "offset" => walk.field = "id")

MCSpec == MCInit /\ [][Next]_vars
=============================================================================
