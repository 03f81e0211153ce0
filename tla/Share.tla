------------------------------- MODULE Share -------------------------------
(***************************************************************************)
(* What a share is for its clients: a tree of files in which every         *)
(* operation of ShareCoreInner happens at once or not at all.  There are   *)
(* no messages, changes, crashes or replays here.                          *)
(***************************************************************************)
EXTENDS Naturals

CONSTANTS Indexes, Names, RootName, Times

VARIABLES tree,   \* the files
          used    \* the ids that files have or had

SomeTime == CHOOSE time \in Times : TRUE

Root == [id |-> 0, parent |-> 0, name |-> RootName,
         isFile |-> FALSE, canWrite |-> TRUE, modified |-> SomeTime]

Init == tree = {Root} /\ used = {Root.id}

Ordinary(file) == file.name # RootName

In(directory) == {f \in tree : f.parent = directory.id}

\* A set with the root that has what is in the directories it has.
Closed(set) == \A f \in tree : ~Ordinary(f) \/ (\E d \in set : ~d.isFile /\ f \in In(d)) => f \in set

\* What a path leads to; the root is a directory in itself.
Reachable == {f \in tree : \A set \in SUBSET tree : Closed(set) => f \in set}

Directories == {d \in Reachable : ~d.isFile}

Free(name, directory) == \A f \in In(directory) : f.name # name

Create(id) ==
  /\ id \notin used
  /\ used' = used \cup {id}
  /\ \E directory \in Directories, name \in Names, isFile, canWrite \in BOOLEAN, time \in Times :
       /\ Free(name, directory)
       /\ tree' = tree \cup {[id |-> id, parent |-> directory.id, name |-> name,
                              isFile |-> isFile, canWrite |-> canWrite, modified |-> time]}

Become(file, new) ==
  /\ UNCHANGED used
  /\ tree' = (tree \ {file}) \cup {new}

SetPermissions(file, canWrite) == Become(file, [file EXCEPT !.canWrite = canWrite])

SetTimestamp(file, time) == Become(file, [file EXCEPT !.modified = time])

\* What is in a directory gets out of reach with it, and nothing touches it again.
Delete(file) ==
  /\ Ordinary(file)
  /\ tree' = tree \ {file}
  /\ UNCHANGED used

\* To a free name, over a file, which another step will delete, or, whether it is
\* free there or not, under its own name.  A directory moved below itself is out of
\* reach as well.
Move(file, directory, name) ==
  /\ Ordinary(file)
  /\ \/ directory.canWrite /\ (name = file.name \/ Free(name, directory))
     \/ \E target \in In(directory) : target.name = name /\ target.isFile /\ target.canWrite
  /\ Become(file, [file EXCEPT !.parent = directory.id, !.name = name])

Next ==
  \/ \E file \in Reachable :
       \/ \E canWrite \in BOOLEAN : SetPermissions(file, canWrite)
       \/ \E time \in Times : SetTimestamp(file, time)
       \/ Delete(file)
       \/ \E directory \in Directories, name \in Names : Move(file, directory, name)
  \/ \E id \in Indexes : Create(id)

Spec == Init /\ [][Next]_<<tree, used>>

=============================================================================
