---------------------------- MODULE MCShareCore ----------------------------
(***************************************************************************)
(* Values for model checking ShareCore.                                    *)
(***************************************************************************)
EXTENDS ShareCore

CONSTANTS a, splits   \* the names in use

\* "/", "/splits", "/a" and "/a/a".
FlatPaths == {<<>>, <<splits>>, <<a>>}
DeepPaths == FlatPaths \cup {<<a, a>>}

\* Values of Kinds and of Durable.
OnlyDirectories == {FALSE}
NotYetWritten == {FALSE}
AlwaysWritten == {TRUE}
Either == BOOLEAN

\* Threads differ by their name only, and recovery reads their files in any order.
ThreadSymmetry == Permutations(Threads)

=============================================================================
