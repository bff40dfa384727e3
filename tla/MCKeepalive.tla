---------------------------- MODULE MCKeepalive ----------------------------
(* KeepaliveSocket on small instances: what the server and the network may  *)
(* do in each of the runs.                                                  *)
EXTENDS KeepaliveSocket

(* A server that answers at once, until it closes or dies. *)
PromptFaults == {"idleclose", "crash", "refuse", "eagain"}

(* A server that may also be silent for longer than the poll timeout. *)
StallFaults == {"idleclose", "crash", "stall"}

(* A server whose keep-alive timeout is its only fault. *)
IdleFaults == {"idleclose"}

BothMethods == {"GET", "HEAD"}
OnlyGet == {"GET"}
=============================================================================
