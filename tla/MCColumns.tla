------------------------------ MODULE MCColumns ------------------------------
(***************************************************************************)
(* ShareCore with its model values, and the widths of its columns.         *)
(***************************************************************************)
EXTENDS MCShareCore, Columns

=============================================================================
