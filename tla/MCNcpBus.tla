------------------------------ MODULE MCNcpBus ------------------------------
(* NcpBus with nefor-tui (t) and one other peer (a).  The peers' names are *)
(* used in routing, so the two are not interchangeable.                    *)
EXTENDS NcpBus
CONSTANTS t, a
=============================================================================
