--------------------------- MODULE MCIaxTransport ---------------------------
(* Bounds for model-checking IaxTransport *)
EXTENDS IaxTransport

CONSTANTS a, b          \* the caller and the called side
CONSTANTS SendA, SendB  \* how many frames each of them sends

MCPeers == {a, b}
MCMaxSend == [p \in {a, b} |-> IF p = a THEN SendA ELSE SendB]
=============================================================================
