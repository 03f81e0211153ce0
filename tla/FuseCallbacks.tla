---------------------------- MODULE FuseCallbacks ---------------------------
(***************************************************************************)
(* The FUSE callbacks of app/fusemain.cxx that turn a result of the core   *)
(* into an errno.  Each one is a switch over ActionError: a record with    *)
(* the value it returns for each code it names.  The default of a switch   *)
(* is assert(false), so a code outside the record's domain ends a debug    *)
(* build; a release build returns ELOOP or, where nothing follows the      *)
(* assertion, success.                                                     *)
(*                                                                         *)
(* The codes an operation may return are a function of the tables, so the  *)
(* properties are about every state in which an operation can start.       *)
(***************************************************************************)
EXTENDS MCShareCore

Codes(results) == {r.code : r \in results}

\* SetPermissions and SetTimestamp.
ChangeAttributeCodes(path) == Codes(GetInternal(Files, path))

DeleteCodes(path) == Codes(DeleteResults(Files, path))

MoveCodes(from, to) ==
  LET sources == Codes(GetInternal(Files, from))
      TargetCode(target) == IF target.code = "OK" /\ ~target.file.canWrite
                            THEN "Restricted" ELSE target.code
  IN  IF ~MoveIsLegal(from, to) THEN {"Illegal"}
      ELSE (sources \ {"OK"}) \cup
           {TargetCode(d.target) : d \in {d \in Destinations(Files, from, to) : "OK" \in sources}}

\* CreateDirectory.
CreateCodes(path) == Codes(CreateResults(Files, path))

\* OpenDirectory wants a file.
OpenDirectoryCodes(path) ==
  LET Checked(r) == IF r.code = "OK" /\ ~r.file.isFile THEN "Invalid" ELSE r.code
  IN  {Checked(r) : r \in GetInternal(Files, path)}

-----------------------------------------------------------------------------
\* Mutant: a path through a file is forgotten.
ChangeSwitchShort == [OK |-> "0", Missing |-> "ENOENT"]

\* chmod and utimens.
ChangeSwitch == [OK |-> "0", Invalid |-> "ENOTDIR", Missing |-> "ENOENT"]

RenameSwitch == [OK |-> "0", Invalid |-> "ENOTDIR", Missing |-> "ENOENT",
                 Restricted |-> "EACCES"]

\* The assertion on the result and the check of the flags come after "OK".
OpendirSwitch == [OK |-> "0", Invalid |-> "ENOTDIR", Missing |-> "ENOENT"]

RmdirSwitch == [Invalid |-> "ENOTDIR", Missing |-> "ENOENT"]

MkdirSwitch == [OK |-> "0", Unknown |-> "EEXIST"]

-----------------------------------------------------------------------------
\* The codes that get to the default of a switch, its assertion.
Unhandled(switch, codes) == codes \ DOMAIN switch

\* Mutex is free, so an operation may look its path up.
CanStart == pc = "idle"

\* Whatever the threads, crashes and recovery have made of the tables, these are
\* all the results of the core that fail an assertion of a callback
\* (fusemain.cxx:157, 169, 181, 199, 212, 261):
\*   - chmod, utimens and opendir, on any path: none;
\*   - rename: Illegal, exactly if it is from the root or one of the paths is in
\*     /splits, and then nothing else is returned;
\*   - rmdir: OK, its success, and Illegal, exactly for the root and /splits;
\*   - mkdir: every error, as the only one it has a case for is never returned.
\* (The kernel does not ask for "/" to be made, removed or renamed.)
OnlyKnownAssertions ==
  CanStart =>
    /\ \A path \in Paths :
         /\ Unhandled(ChangeSwitch, ChangeAttributeCodes(path)) = {}
         /\ Unhandled(OpendirSwitch, OpenDirectoryCodes(path)) = {}
         /\ Unhandled(RmdirSwitch, DeleteCodes(path)) \ {"OK"} =
              IF IsRootPath(path) \/ path = <<SplitDir>> THEN {"Illegal"} ELSE {}
         /\ ~IsRootPath(path) =>
              Unhandled(MkdirSwitch, CreateCodes(path)) = CreateCodes(path) \ {"OK"}
    /\ \A from, to \in Paths :
         Unhandled(RenameSwitch, MoveCodes(from, to)) =
           IF MoveIsLegal(from, to) THEN {} ELSE {"Illegal"}

=============================================================================
