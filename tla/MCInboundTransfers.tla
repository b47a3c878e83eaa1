------------------------- MODULE MCInboundTransfers -------------------------
(* InboundTransfers for TLC.  One download that expects one block.          *)
EXTENDS InboundTransfers

CONSTANTS t1, c1

MCExpected == [t \in Transfers |-> 1]
MCShard == [t \in Transfers |-> 1]
=============================================================================
