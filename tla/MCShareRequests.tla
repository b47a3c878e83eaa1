-------------------------- MODULE MCShareRequests --------------------------
(* One peer with two sessions, one request of any kind; a call that saves the share
   photos, open to the peer, and one that saves films, closed to it, with one path; a
   call that closes photos without giving a path; a directory, of that path or of the
   one above it, that the user saves. *)
EXTENDS ShareRequests, TLC
CONSTANTS s1, s2, alice, friends, photos, films, x1, x2, x3, c1, f1, d1
MCPeerOf == [s \in Sessions |-> alice]
MCNameOf == [p \in Peers |-> "al"]
MCGroupsOf == [p \in Peers |-> {friends}]
FriendsOnly == [blocklist |-> {Wildcard}, allowlist |-> {friends}]
NotAlice == [blocklist |-> {Wildcard, "al"}, allowlist |-> {friends}]
MCLists == {FriendsOnly, NotAlice}
Row(lists) == [lists |-> lists, label |-> NoLabel, path |-> NoPath]
MCInitially == {films :> Row(NotAlice) @@ photos :> row : row \in {Row(NotAlice), NoShare}}
MCPaths == {"home", "home/pics"}
MCAbove == "home" :> {"home"} @@ "home/pics" :> MCPaths
MCSaveOf == x1 :> [share |-> photos, lists |-> FriendsOnly, path |-> "home/pics"]
         @@ x2 :> [share |-> films, lists |-> NotAlice, path |-> "home/pics"]
         @@ x3 :> [share |-> photos, lists |-> NotAlice, path |-> NoPath]
MCInputs == [session : {s1}, claims : {s2}, kind : Kinds, share : {photos}, entry : {f1}]
       \cup [session : {Local}, claims : {NoSession}, kind : {"all"}, share : {photos}, entry : {f1}]
MCParent == f1 :> d1 @@ d1 :> Root
=============================================================================
