--------------------------- MODULE MessageChannel ---------------------------
(***************************************************************************)
(* What the encryption layer gives to the rest of a session: whole         *)
(* messages, in the order in which their senders took the lock of the      *)
(* encrypter, until the receiving end gives the session up or hangs        *)
(* (peer/remote_peer.go:229-275).  SecureChannel implements this module.   *)
(***************************************************************************)
EXTENDS Naturals, Sequences

CONSTANT Messages

VARIABLES sent, delivered, open

vars == <<sent, delivered, open>>

Init ==
    /\ sent = <<>>
    /\ delivered = <<>>
    /\ open = TRUE

Send(m) ==
    /\ sent' = Append(sent, m)
    /\ UNCHANGED <<delivered, open>>

Deliver ==
    /\ open
    /\ Len(delivered) < Len(sent)
    /\ delivered' = Append(delivered, sent[Len(delivered) + 1])
    /\ UNCHANGED <<sent, open>>

GiveUp ==
    /\ open
    /\ open' = FALSE
    /\ UNCHANGED <<sent, delivered>>

Next == (\E m \in Messages : Send(m)) \/ Deliver \/ GiveUp

\* What was sent does not stay on its way for ever.
Fairness == WF_vars(Len(delivered) < Len(sent) /\ (Deliver \/ GiveUp))

Spec == Init /\ [][Next]_vars /\ Fairness
=============================================================================
