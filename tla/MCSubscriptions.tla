------------------------- MODULE MCSubscriptions -------------------------
(* alice has one session, bob two, which therefore have one name.  The directory d
   holds the file a. *)
EXTENDS Subscriptions, TLC
CONSTANTS s1, s2, s3, alice, bob, friends, byName, byGroup, anyone, a, d, music
MCPeerOf == [s \in Sessions |-> IF s = s1 THEN alice ELSE bob]
MCNameOf == alice :> "al" @@ bob :> "bo"
MCGroupsOf == alice :> {friends} @@ bob :> {friends}
MCSourceGroup == byName :> "bo" @@ byGroup :> friends @@ anyone :> Everyone
MCTargetPath == byName :> music @@ byGroup :> music @@ anyone :> music
MCContents == a :> {} @@ d :> {a}
MCOffers == [p \in Peers |-> [sub \in Subs |-> IF p = alice THEN {a, d} ELSE {a}]]
=============================================================================
