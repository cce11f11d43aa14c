------------------------ MODULE MCFilesystemOperator ------------------------
(* Instances of FilesystemOperator for TLC: one or two SLO files, and one or   *)
(* two valid contents, which differ in the target and not in the labels, so    *)
(* that they have the same key.                                               *)
EXTENDS FilesystemOperator

CONSTANTS a, b, v1, v2

Key(f) == <<f, 1>>

MCKeysOf == [f \in Files |-> [c \in Parses |-> {Key(f)}]]

MCKeys == {EmptyKey} \cup {Key(f) : f \in Files}

=============================================================================
