-------------------------- MODULE MCSecureChannel ---------------------------
EXTENDS SecureChannel, TLC

CONSTANTS m1, m2, m3

\* One message whose length fits the first byte of the prefix, one that needs
\* both, one whose first byte is zero.
MCSize == (m1 :> 3) @@ (m2 :> 5) @@ (m3 :> 4)
=============================================================================
