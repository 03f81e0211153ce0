---------------------------- MODULE IndexSource -----------------------------
(***************************************************************************)
(* What the operations of ShareCoreInner take the table "Counters" for:    *)
(* a source of indexes that gives each one out at most once, in order.     *)
(* An index may get lost, when the process dies before it can be used.     *)
(***************************************************************************)
EXTENDS Naturals

VARIABLES next,    \* the index to come
          given    \* the indexes given out

Init == next = 1 /\ given = {}

Take == given' = given \cup {next} /\ next' = next + 1

Lose == next' = next + 1 /\ UNCHANGED given

Spec == Init /\ [][Take \/ Lose]_<<next, given>>

=============================================================================
