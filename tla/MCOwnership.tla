----------------------------- MODULE MCOwnership -----------------------------
(* A server mount with the private directory, which has a directory of its own,
   and a file with the set-ID bit; a mount of saves with a file; a directory and
   a file to put somewhere, and a file of another file system. *)
EXTENDS Ownership

CONSTANTS server, data, private, home, game, save, spareDir, spareFile, foreign

MCRoot == <<server, data>>
MCKind == [i \in Inode |-> IF i \in {server, data, private, home, spareDir} THEN "dir" ELSE "file"]
MCMountOf == [i \in Inode |-> IF i \in {data, save} THEN 2 ELSE 1]
MCRank == [n \in Name |-> CASE n = "state" -> 1 [] n = "x" -> 2 [] OTHER -> 0]
NoEntries == [n \in Name |-> None]
MCEntries ==
  [d \in Dirs |->
     CASE d = server -> [NoEntries EXCEPT !["state"] = private, !["x"] = game]
       [] d = data -> [NoEntries EXCEPT !["x"] = save]
       [] d = private -> [NoEntries EXCEPT !["home"] = home]
       [] OTHER -> NoEntries]
MCOwner == [i \in Inode |-> IF i \in {game, save, foreign} THEN 0 ELSE 1000]
(* Others close an entry to everyone. *)
MCGiven == {[owner |-> FALSE, wide |-> FALSE, setid |-> FALSE]}
MCMode == [i \in Inode |-> [owner |-> i # save, wide |-> i # private, setid |-> i = game]]

=============================================================================
