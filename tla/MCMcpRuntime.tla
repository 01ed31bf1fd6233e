----------------------------- MODULE MCMcpRuntime -----------------------------
(* Values for model-checking McpRuntime.tla.                                  *)
EXTENDS McpRuntime, TLC

CONSTANTS k1, k2, k3, d1, c1

Ops(a, b, c) == k1 :> a @@ k2 :> b @@ k3 :> c

\* A discovery and a tool call over a connection that may be closed; a
\* discovery over connections that may replace each other; three callers of
\* the manager.
MCSetups ==
  {[op |-> Ops("connect", "disconnect", "none"), uses |-> {d1, c1}],
   [op |-> Ops("connect", "connect", "none"), uses |-> {d1}],
   [op |-> Ops("connect", "connect", "disconnect"), uses |-> {}],
   [op |-> Ops("connect", "force", "disconnect"), uses |-> {}]}

MCNoList == [from |-> NoConn, list |-> 0]
=============================================================================
