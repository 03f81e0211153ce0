--------------------------- MODULE ShareDatabase ---------------------------
(***************************************************************************)
(* The tables of a share's SQLite database and the prepared statements of  *)
(* CoreDatabase (app/core.cxx), as operators on the tables' values.        *)
(*                                                                         *)
(* A table is the set of its rows.  A statement that changes a table maps  *)
(* its value to the new one; a SELECT returns the rows it matches, and     *)
(* "LIMIT 1" without ORDER BY is left to the caller as a choice among      *)
(* them.  Every NodeID the program makes has Instance HostInstanceIndex =  *)
(* 0, so a NodeID is its Index.  The column IsSplit is 0 in every row the  *)
(* statements insert and no statement updates it, so it is left out; of    *)
(* SharePermissions only CanWrite takes part in a decision.                *)
(***************************************************************************)
EXTENDS Naturals

CONSTANTS Names,      \* file names a client may use
          SplitDir,   \* the name "splits", reserved in the root only
          RootName,   \* the empty name of the root row
          Times       \* modification times

ASSUME NamesAssumption == SplitDir \in Names /\ RootName \notin Names
ASSUME TimesAssumption == Times # {}

\* NullIndex: the Index of the root's NodeID and of the change of a new file.
Null == 0

\* A row of "Files", which is also the ShareFile handed to the callers.
ShareFile == [id: Nat, change: Nat, parent: Nat, name: Names \cup {RootName},
              isFile: BOOLEAN, canWrite: BOOLEAN, modified: Times]

\* A row of "Ancestry": a change and the change it replaced.
Change == [id: Nat, parent: Nat]

SomeTime == CHOOSE time \in Times : TRUE

\* The row a new share starts with.
RootRow == [id |-> Null, change |-> Null, parent |-> Null, name |-> RootName,
            isFile |-> FALSE, canWrite |-> TRUE, modified |-> SomeTime]

\* The pseudo file /splits: not a row, but its NodeIDs are those of the root.
SplitFile == [RootRow EXCEPT !.name = SplitDir]

-----------------------------------------------------------------------------
(***************************************************************************)
(* Statements on "Files".  The WHERE clause of every UPDATE and DELETE     *)
(* names both the file and the change its caller read, so a statement      *)
(* whose caller holds an outdated change matches nothing.                  *)
(***************************************************************************)

GetFile(files, parent, name) == {r \in files : r.parent = parent /\ r.name = name}

\* Mutant: WHERE names the file only.
IsCurrentByFile(r, file) == r.id = file.id

IsCurrent(r, file) == r.id = file.id /\ r.change = file.change

\* Mutant: INSERT OR REPLACE.
CreateRowReplacing(files, new) == {r \in files : r.id # new.id} \cup {new}

\* INSERT OR IGNORE: the primary key is the file's NodeID.
CreateRow(files, new) ==
  IF \E r \in files : r.id = new.id THEN files ELSE files \cup {new}

DeleteRow(files, file) == {r \in files : ~IsCurrent(r, file)}

\* Mutant: the two changes are bound in the wrong order.
SetRowPermissionsSwapped(files, file, new) ==
  {IF IsCurrent(r, new)
   THEN [r EXCEPT !.change = file.change, !.canWrite = new.canWrite]
   ELSE r : r \in files}

SetRowPermissions(files, file, new) ==
  {IF IsCurrent(r, file)
   THEN [r EXCEPT !.change = new.change, !.canWrite = new.canWrite]
   ELSE r : r \in files}

SetRowTimestamp(files, file, new) ==
  {IF IsCurrent(r, file)
   THEN [r EXCEPT !.change = new.change, !.modified = new.modified]
   ELSE r : r \in files}

\* Mutant: the arguments for Parent and Name are bound in the wrong order.
MoveRowSwapped(files, file, new) ==
  {IF IsCurrent(r, file)
   THEN [r EXCEPT !.change = new.change, !.parent = new.name, !.name = new.parent]
   ELSE r : r \in files}

MoveRow(files, file, new) ==
  {IF IsCurrent(r, file)
   THEN [r EXCEPT !.change = new.change, !.parent = new.parent, !.name = new.name]
   ELSE r : r \in files}

\* Mutant: the two changes are swapped.
CreateChangeSwapped(ancestry, new, old) ==
  IF \E c \in ancestry : c.id = old
  THEN ancestry
  ELSE ancestry \cup {[id |-> old, parent |-> new]}

\* INSERT OR IGNORE INTO "Ancestry".
CreateChange(ancestry, new, old) ==
  IF \E c \in ancestry : c.id = new
  THEN ancestry
  ELSE ancestry \cup {[id |-> new, parent |-> old]}

=============================================================================
