-------------------------- MODULE ShareCoreHistory --------------------------
(***************************************************************************)
(* ShareCore with a history, as its threads use it through the callbacks.  *)
(* Recovery replays what it finds in the order of the directory, so with   *)
(* several threads a replay may meet tables that others have changed since *)
(* (fuse_main serves callbacks from several threads unless it is told      *)
(* not to).  The history tells what a replay can be held to then.          *)
(***************************************************************************)
EXTENDS FuseCallbacks

VARIABLES
  removed,    \* the indexes of the files whose row was deleted
  disputed,   \* those deleted by one thread while the transaction file of
              \* another one still had the message that created them
  returned,   \* the threads whose file has the message of a call that returned
  overtaken   \* the threads whose file is older than a change of "Files" by
              \* another thread

history == <<removed, disputed, returned, overtaken>>

Ids(files) == {r.id : r \in files}

HistoryInit == Init /\ removed = {} /\ disputed = {} /\ returned = {} /\ overtaken = {}

Others == {t \in Threads : \A c \in call : c.thread # t}

Creates(m, id) == m.op = "Create" /\ m.new.id = id

\* The threads that, in this step, start a transaction file anew, and those whose
\* call gets to the end of Act.
Opening == {c.thread : c \in {c \in call : pc = "open" /\ pc' = "row"}}
Returning == {c.thread : c \in {c \in call : ~c.replay /\ pc = "close" /\ pc' = "idle"}}

HistoryNext ==
  /\ Next
  /\ LET gone == Ids(Files) \ Ids(Files')
     IN  /\ removed' = removed \cup gone
         /\ disputed' = disputed \cup
              {id \in gone : \E t \in Others : \E m \in transactions[t] : Creates(m, id)}
  /\ returned' = (returned \ Opening) \cup Returning
  /\ overtaken' = (overtaken \ Opening) \cup (IF Files' = Files THEN {} ELSE Others)

HistorySpec == HistoryInit /\ [][HistoryNext]_<<vars, history>>

\* A deleted file does not come back: not by a crash in the middle of the deletion,
\* and not by a message left in a transaction file, but for one: that of its
\* creation, which another thread than the one that deletes it has left there.
DeletedStaysDeleted == Ids(Files) \cap removed \subseteq disputed

\* The message that a returned call leaves behind is harmless: whatever failed or
\* crashed since, and whatever other threads did, replaying it changes neither
\* table, unless its file's deletion is disputed.
ReturnedReplayIsNoOp ==
  [][(\E c \in call : c.replay /\ c.thread \in returned /\ c.msg.new.id \notin disputed)
       => UNCHANGED <<Files, Ancestry>>]_vars

-----------------------------------------------------------------------------
\* What a client sees of a row.
Entry(r) == [id |-> r.id, parent |-> r.parent, name |-> r.name,
             isFile |-> r.isFile, canWrite |-> r.canWrite, modified |-> r.modified]

Tree == {Entry(r) : r \in Files}

\* The indexes that files have or had.
Used == Ids(Files) \cup removed

Served == INSTANCE Share WITH Indexes <- 0 .. MaxFile, tree <- Tree, used <- Used

\* The core is the share that its clients expect: exceptions, crashes and replays
\* included, every change of the tables is one whole operation on the tree as it is
\* then, or the rest of one.  In particular a new file's name is new in its
\* directory, which no key of the table sees to (core.cxx:55-69), and no file comes
\* back.  The exception is the replay of a message that was overtaken: it does
\* what was right before another thread changed the tree.  (One thread alone
\* overtakes nobody, so there this is plain refinement.)
ImplementsShare ==
  /\ Served!Init
  /\ [][(\E c \in call : c.replay /\ c.thread \in overtaken)
          \/ [Served!Next]_<<Tree, Used>>]_<<vars, history>>

=============================================================================
