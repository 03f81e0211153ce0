--------------------------- MODULE ShareStatements --------------------------
(***************************************************************************)
(* The SQLite connection of a share (app/database.h) when statements fail: *)
(* the transaction around a counter (app/core.cxx) may be left open, and a *)
(* prepared statement whose sqlite3_step failed is not reset.  Everything  *)
(* that runs while a transaction is open is only seen by this connection.  *)
(*                                                                         *)
(* An operation of the core takes an index in four statements, BEGIN,      *)
(* SELECT, UPDATE and COMMIT, and then runs the statement of its callback; *)
(* Delete only does the latter.  Mutex is held throughout.  What a row     *)
(* holds, "Ancestry" and the replays are ShareCore's.                      *)
(***************************************************************************)
EXTENDS Naturals

CONSTANTS Updates,     \* the statements that store a row under a new index
          Files,       \* files that can be deleted
          MaxIndex     \* bound on the counter

ASSUME IndexAssumption == MaxIndex \in Nat

VARIABLES
  stored,     \* the database on disk
  view,       \* the database as the connection sees it
  opened,     \* is there a BEGIN without its COMMIT?
  bound,      \* the arguments each prepared statement was given last
  unreset,    \* statements that failed and were not reset
  pc,         \* "down", "idle" (Mutex is free), or the operation's next statement
  index,      \* ChangeIndex or FileIndex of the operation
  given,      \* history: the indexes that operations got hold of
  returned    \* history: the indexes of operations that returned OK

vars == <<stored, view, opened, bound, unreset, pc, index, given, returned>>

\* The counter, the indexes under which rows were stored, the files deleted.
Database == [counter: Nat, rows: SUBSET Nat, deleted: SUBSET Files]

DeleteFile == "DeleteFile"
Statements == Updates \cup {DeleteFile}
ASSUME UpdatesAssumption == DeleteFile \notin Updates

\* Nothing was bound yet.
Unbound == 0

Empty == [counter |-> 1, rows |-> {}, deleted |-> {}]

Init ==
  /\ stored = Empty /\ view = Empty /\ opened = FALSE
  /\ bound = [s \in Statements |-> Unbound] /\ unreset = {}
  /\ pc = "idle" /\ index = 0
  /\ given = {} /\ returned = {}

-----------------------------------------------------------------------------
\* sqlite3_step with SQLITE_DONE: outside a transaction it commits by itself.
Succeeds(new) ==
  /\ view' = new
  /\ stored' = IF opened THEN stored ELSE new

\* Any other result: the statement has no effect, and some errors roll the
\* transaction back.
Fails ==
  \/ UNCHANGED <<stored, view, opened>>
  \/ view' = stored /\ opened' = FALSE /\ UNCHANGED stored

\* The exception leaves the operation and its guard gives Mutex back.
Throw == pc' = "idle" /\ UNCHANGED <<index, given, returned>>

\* Mutant: a BEGIN that fails is passed over.
BeginIgnored ==
  /\ pc = "idle"
  /\ view.counter < MaxIndex
  /\ opened' = TRUE
  /\ pc' = "get"
  /\ UNCHANGED <<stored, view, bound, unreset, index, given, returned>>

\* SQLite refuses a BEGIN inside a transaction.  (A statement without arguments
\* is reset by its next step.)
Begin ==
  /\ pc = "idle"
  /\ view.counter < MaxIndex
  /\ \/ ~opened /\ opened' = TRUE /\ pc' = "get"
        /\ UNCHANGED <<stored, view, index, given, returned>>
     \/ Fails /\ Throw
  /\ UNCHANGED <<bound, unreset>>

GetIndex ==
  /\ pc = "get"
  /\ \/ index' = view.counter /\ pc' = "increment"
        /\ UNCHANGED <<stored, view, opened, given, returned>>
     \/ Fails /\ Throw
  /\ UNCHANGED <<bound, unreset>>

IncrementIndex ==
  /\ pc = "increment"
  /\ \/ Succeeds([view EXCEPT !.counter = @ + 1]) /\ pc' = "commit"
        /\ UNCHANGED <<opened, index, given, returned>>
     \/ Fails /\ Throw
  /\ UNCHANGED <<bound, unreset>>

\* Mutant: the index is used whether COMMIT succeeds or not.
EndUnchecked ==
  /\ pc = "commit"
  /\ \/ stored' = view /\ opened' = FALSE /\ UNCHANGED view
     \/ Fails
  /\ given' = given \cup {index}
  /\ pc' = "row"
  /\ UNCHANGED <<bound, unreset, index, returned>>

End ==
  /\ pc = "commit"
  /\ \/ stored' = view /\ opened' = FALSE /\ given' = given \cup {index} /\ pc' = "row"
        /\ UNCHANGED <<view, index, returned>>
     \/ Fails /\ Throw
  /\ UNCHANGED <<bound, unreset>>
\* Mutant: nobody looks whether an argument was bound.
CanBindUnchecked(s) == TRUE

\* SQLite refuses arguments for a statement that was not reset, and the first
\* argument of each one, a NodeID, has its result checked: Execute throws.
CanBind(s) == s \notin unreset

Bind(s, argument) ==
  bound' = IF s \in unreset THEN bound ELSE [bound EXCEPT ![s] = argument]

\* Execute throws before sqlite3_step, or after it, without sqlite3_reset.
ExecuteFails(s, argument) ==
  /\ \/ ~CanBind(s) /\ UNCHANGED <<stored, view, opened, bound>>
     \/ CanBind(s) /\ Bind(s, argument) /\ Fails
  /\ unreset' = unreset \cup {s}
  /\ Throw

\* A callback's INSERT or UPDATE; the operation returns OK.
StoreRow(s) ==
  /\ pc = "row"
  /\ \/ /\ CanBind(s) /\ Bind(s, index)
        /\ Succeeds([view EXCEPT !.rows = @ \cup {bound'[s]}])
        /\ unreset' = unreset \ {s}
        /\ returned' = returned \cup {index}
        /\ pc' = "idle"
        /\ UNCHANGED <<opened, index, given>>
     \/ ExecuteFails(s, index)

\* Delete takes no index, so it does not notice that a transaction is open.
Delete(file) ==
  /\ pc = "idle"
  /\ file \notin view.deleted
  /\ \/ /\ CanBind(DeleteFile) /\ Bind(DeleteFile, file)
        /\ Succeeds([view EXCEPT !.deleted = @ \cup {bound'[DeleteFile]}])
        /\ unreset' = unreset \ {DeleteFile}
        /\ UNCHANGED <<opened, pc, index, given, returned>>
     \/ ExecuteFails(DeleteFile, file)

-----------------------------------------------------------------------------
\* The process ends or dies, at COMMIT before or after it has reached the disk.
Halt ==
  /\ pc # "down"
  /\ stored' \in {stored} \cup (IF pc = "commit" THEN {view} ELSE {})
  /\ view' = stored' /\ opened' = FALSE
  /\ bound' = [s \in Statements |-> Unbound] /\ unreset' = {}
  /\ pc' = "down"
  /\ UNCHANGED <<index, given, returned>>

Start == pc = "down" /\ pc' = "idle" /\ UNCHANGED <<stored, view, opened, bound, unreset, index, given, returned>>

Next ==
  \/ Begin \/ GetIndex \/ IncrementIndex \/ End
  \/ \E s \in Updates : StoreRow(s)
  \/ \E file \in Files : Delete(file)
  \/ Halt \/ Start

Spec == Init /\ [][Next]_vars

-----------------------------------------------------------------------------
\* Every variable has its type, and a transaction is open while an index is taken
\* but never when it is used.
TypeOK ==
  /\ stored \in Database /\ view \in Database
  /\ opened \in BOOLEAN
  /\ bound \in [Statements -> Nat \cup Files]
  /\ unreset \subseteq Statements
  /\ pc \in {"down", "idle", "get", "increment", "commit", "row"}
  /\ pc \in {"get", "increment", "commit"} => opened
  /\ pc \in {"row", "down"} => ~opened
  /\ index \in Nat
  /\ given \subseteq Nat /\ returned \subseteq Nat

\* An operation that took an index and returned OK has its row on disk, under
\* that index: no transaction was open under it, for then its BEGIN would have
\* failed, and its statement did not run with the arguments of an earlier call.
UpdatesAreStored == returned \subseteq stored.rows

\* So what a transaction left open can lose is an index nobody has, and deletions,
\* also those whose operation returned OK since.
OnlyDeletionsAreAtRisk ==
  /\ view.rows = stored.rows
  /\ \A i \in given : i < stored.counter
  /\ ~opened => view = stored

\* Whatever fails, "Counters" is a source of indexes for one use.
Source == INSTANCE IndexSource WITH next <- stored.counter, given <- given
ImplementsIndexSource == Source!Spec

=============================================================================
