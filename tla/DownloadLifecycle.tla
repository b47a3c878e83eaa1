------------------------- MODULE DownloadLifecycle --------------------------
(***************************************************************************)
(* The states a queued download moves through, as the comment of           *)
(* queued_download.go:21-33 tells them: idle in the queue, then under way, *)
(* then completed or failed, never back, and started at most once.  (One   *)
(* that has failed may be left "downloading": DownloadFiles.)  Clear may   *)
(* delete a download at any time; a deleted download does not come back.   *)
(* DownloadQueue implements this module.                                   *)
(***************************************************************************)
EXTENDS Naturals

CONSTANT Downloads

VARIABLES
    row,          \* the status column of each download
    attempts      \* how often each was started

lifeVars == <<row, attempts>>

Init ==
    /\ row = [d \in Downloads |-> "absent"]
    /\ attempts = [d \in Downloads |-> 0]

Becomes(d, from, to) ==
    /\ row[d] = from
    /\ row' = [row EXCEPT ![d] = to]
    /\ UNCHANGED attempts

Add(d)    == Becomes(d, "absent", "idle")
Claim(d)  == Becomes(d, "idle", "pending")
Finish(d) == \E s \in {"downloading", "completed", "failed"} : Becomes(d, "pending", s)

Begin(d) ==
    /\ row[d] # "idle" /\ attempts[d] = 0
    /\ attempts' = [attempts EXCEPT ![d] = 1]
    /\ UNCHANGED row

Delete(D) ==
    /\ D # {} /\ \A d \in D : row[d] # "absent"
    /\ row' = [d \in Downloads |-> IF d \in D THEN "deleted" ELSE row[d]]
    /\ UNCHANGED attempts

Next ==
    \/ \E d \in Downloads : Add(d) \/ Claim(d) \/ Begin(d) \/ Finish(d)
    \/ \E D \in SUBSET Downloads : Delete(D)

Spec == Init /\ [][Next]_lifeVars
=============================================================================
