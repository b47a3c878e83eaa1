--------------------------- MODULE MCDownloadFiles --------------------------
(* Two downloads of two blocks each, which have one destination. *)
EXTENDS DownloadFiles

CONSTANTS d1, d2, here, music

MCTarget == [d \in Downloads |-> here]
MCLabelOf == [p \in Paths |-> {music}]
=============================================================================
