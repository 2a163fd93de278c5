------------------------- MODULE MCEntryIsolation -------------------------
(***************************************************************************)
(* Instances of EntryIsolation for TLC.                                    *)
(***************************************************************************)
EXTENDS EntryIsolation

CONSTANTS root, directory, child, file, folderBrought

\* A folder with one file in it.
FolderAndChild == {directory, child}
ChildFirst == <<child, directory>>
InFolder == [e \in FolderAndChild |-> IF e = child THEN directory ELSE root]

\* A file alone.
OneFile == {child}
JustTheFile == <<child>>
InRoot == [e \in OneFile |-> root]
=============================================================================
