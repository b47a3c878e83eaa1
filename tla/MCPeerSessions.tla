--------------------------- MODULE MCPeerSessions ---------------------------
(* PeerSessions for TLC: two sessions of any three are made, two of which come with
   the same ID; one of these may hang.  The listener, a monitor and an API call. *)
EXTENDS PeerSessions
CONSTANTS s1, s2, s3, i1, i2
MCSessionId == [s \in Sessions |-> IF s = s3 THEN i2 ELSE i1]
=============================================================================
