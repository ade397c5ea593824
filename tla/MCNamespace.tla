----------------------------- MODULE MCNamespace -----------------------------
(* Namespace for TLC: a root with a file "x" (2) and a directory "y" (3), a  *)
(* bucket name, and one recycled inode number (4).                           *)
EXTENDS Namespace

MCSlots == {<<1, "x">>, <<1, "y">>, <<3, "x">>, <<0, "b">>}

File(n) == [type |-> "file", nlink |-> n, born |-> None]
Dir(n) == [type |-> "dir", nlink |-> n, born |-> None]

MCSeed ==
    [rows |-> [i \in Ids |-> CASE i = 1 -> Dir(3) [] i = 2 -> File(1)
                               [] i = 3 -> Dir(2) [] OTHER -> None],
     ents |-> [s \in MCSlots |->
                 CASE s = <<1, "x">> -> [id |-> 2, type |-> "file"]
                   [] s = <<1, "y">> -> [id |-> 3, type |-> "dir"]
                   [] OTHER -> None],
     objs |-> 1]

Perms == Permutations(Requests)

\* Explore no further than the first entry that rests on a stale read.
UntilStale == Stale = {}
================================================================================
