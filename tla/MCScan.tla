------------------------------- MODULE MCScan -------------------------------
(* A library of three directories: two parts of one book in box/a, a book in *)
(* box/b, and nothing in the root itself.                                   *)
EXTENDS Scan, TLC

CONSTANTS c1, c2, s1, s2

Lib == <<"home", "lib">>
Box == <<"home", "lib", "box">>
BoxA == <<"home", "lib", "box", "a">>
BoxB == <<"home", "lib", "box", "b">>
FileAt(d, n, x) == [dir |-> d, name |-> n, ext |-> x]
MCPaths == {FileAt(BoxA, "1", "mp3"), FileAt(BoxA, "2", "mp3"), FileAt(BoxB, "3", "m4b")}
MCIgnored == {}
MCLibrary == Lib
MCRoots == {Lib}
MCDirOrder == <<Lib, BoxA, BoxB>>
MCSymmetry == Permutations(Contents) \cup Permutations(Scanners)
=============================================================================
