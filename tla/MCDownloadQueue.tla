-------------------------- MODULE MCDownloadQueue ---------------------------
(* Two downloads: of a queue that polls for ever, with every failure and Clear, and
   of one that exits when it is empty, with a call of WaitForEmpty, a call that the
   database may refuse and a crash. *)
EXTENDS DownloadQueue
CONSTANTS d1, d2
Nothing == [db |-> 0, crash |-> 0, hung |-> 0, clears |-> 0, waits |-> 0]
MCMayAdd == [exit \in BOOLEAN |-> Downloads]
MCBudget == [exit \in BOOLEAN |->
               IF exit THEN [Nothing EXCEPT !.db = 1, !.crash = 1, !.waits = 1]
               ELSE [Nothing EXCEPT !.db = 1, !.crash = 1, !.hung = 1, !.clears = 1]]
=============================================================================
