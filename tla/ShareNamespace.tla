--------------------------- MODULE ShareNamespace --------------------------
(***************************************************************************)
(* Paths, and what the operations of ShareCoreInner (app/core.cxx) decide  *)
(* from a path and the table "Files" before they change anything.          *)
(*                                                                         *)
(* A path is the sequence of its components, <<>> being "/".  An operator  *)
(* returns the SET of results the code may get: two rows can have the same *)
(* parent and name, and then the one that "LIMIT 1" yields is open.        *)
(***************************************************************************)
EXTENDS ShareDatabase, SequencesExt

\* ActionResult: an ActionError, or OK with the file.
Error(code) == [code |-> code]
Found(file) == [code |-> "OK", file |-> file]

IsRootPath(path) == path = <<>>
IsSplitPath(path) == path # <<>> /\ Head(path) = SplitDir

\* One step down from the directory a lookup has reached.
Lookup(files, result, name) ==
  IF result.code # "OK" THEN {result}
  ELSE LET rows == GetFile(files, result.file.id, name)
       IN  IF rows = {} THEN {Error("Missing")} ELSE {Found(r) : r \in rows}

\* A component that is not the last one has to be a directory.
AsDirectory(result) ==
  IF result.code = "OK" /\ result.file.isFile THEN Error("Invalid") ELSE result

GetRoot(files) == {Found(r) : r \in GetFile(files, Null, RootName)}

\* What the first n components of the path lead to.
Reached(files, path) ==
  LET results[n \in Nat] ==
        IF n = 0 THEN GetRoot(files)
        ELSE {AsDirectory(r) : r \in UNION {Lookup(files, d, path[n]) : d \in results[n - 1]}}
  IN  results

\* The directory that holds the last component of the path.
Walk(files, path) == Reached(files, path)[Len(path) - 1]

\* No file is ever split, so below /splits everything is missing.
GetInternal(files, path) ==
  IF IsRootPath(path) THEN GetRoot(files)
  ELSE IF IsSplitPath(path)
  THEN {IF Len(path) = 1 THEN Found(SplitFile) ELSE Error("Missing")}
  ELSE UNION {Lookup(files, d, Last(path)) : d \in Walk(files, path)}

-----------------------------------------------------------------------------
\* Mutant: nobody looks whether the name is taken.
CreateResultsUnchecked(files, path) ==
  LET Checked(parent) ==
        IF IsSplitPath(path) THEN Error("Illegal")
        ELSE IF parent.code # "OK" THEN Error("Missing")
        ELSE IF parent.file.isFile THEN Error("Invalid")
        ELSE parent
  IN  {Checked(parent) : parent \in GetInternal(files, Front(path))}

\* CreateDirectory: OK comes with the directory the new file goes into.
CreateResults(files, path) ==
  LET Checked(parent) ==
        IF IsSplitPath(path) THEN Error("Illegal")
        ELSE IF parent.code # "OK" THEN Error("Missing")
        ELSE IF parent.file.isFile THEN Error("Invalid")
        ELSE IF GetFile(files, parent.file.id, Last(path)) # {} THEN Error("Exists")
        ELSE parent
  IN  {Checked(parent) : parent \in GetInternal(files, Front(path))}

\* Mutant: the pseudo file can be deleted.
DeleteResultsUnchecked(files, path) ==
  IF IsRootPath(path) THEN {Error("Illegal")} ELSE GetInternal(files, path)

\* Delete: the root and everything under /splits are refused.
DeleteResults(files, path) ==
  IF IsRootPath(path) THEN {Error("Illegal")}
  ELSE {IF r.code = "OK" /\ IsSplitPath(path) THEN Error("Illegal") ELSE r :
          r \in GetInternal(files, path)}

MoveIsLegal(from, to) ==
  ~IsRootPath(from) /\ ~IsSplitPath(from) /\ ~IsSplitPath(to)

(***************************************************************************)
(* Where Move puts a file: the result for the target (or, when the target  *)
(* is missing, for its parent directory) and the name there.  A target     *)
(* that is a directory takes the file in under the name it has.  The       *)
(* parent is looked up again, in the same tables, so the rows on its path  *)
(* are those that the lookup of the target has found.                      *)
(***************************************************************************)
Destinations(files, from, to) ==
  LET NameAt(target) == IF target.code = "OK" /\ ~target.file.isFile
                        THEN Last(from) ELSE Last(to)
      Parents == IF IsRootPath(to) THEN {}
                 ELSE {p \in Walk(files, to) : Error("Missing") \in Lookup(files, p, Last(to))}
  IN  {[target |-> t, name |-> NameAt(t)] :
         t \in {t \in GetInternal(files, to) : t.code \in {"OK", "Invalid"}}}
      \cup {[target |-> p, name |-> Last(to)] : p \in Parents}

=============================================================================
