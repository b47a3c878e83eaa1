--------------------------- MODULE MCFileTransfer ---------------------------
(* A session with one queued download (t1) and one transfer that the other  *)
(* application sends of its own accord (t2), both of two blocks, in one     *)
(* shard of the table.  A growing file gains the block "grown".              *)
EXTENDS FileTransfer

CONSTANTS t1, t2, a, b, grown

MCSource == [t \in Transfers |-> <<a, b>>]
MCExpected == [t \in Transfers |-> 2]
MCShard == [t \in Transfers |-> 1]
=============================================================================
