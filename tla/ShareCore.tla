----------------------------- MODULE ShareCore -----------------------------
(***************************************************************************)
(* ShareCoreInner (app/core.cxx) with its Transactor (app/transaction.h):  *)
(* threads call the operations of an open share; each one looks a path up, *)
(* takes a fresh index from the counters, writes its message to the        *)
(* thread's transaction file and runs the transaction's callback, which    *)
(* changes the database and then the backing file in separate durable      *)
(* steps.  The process may die between any two of them, a callback may     *)
(* throw, and the next start replays the transaction files it finds.       *)
(*                                                                         *)
(* The operations hold Mutex from the lookup to the end of the transaction *)
(* so one transaction runs at a time: Mutex is held exactly when pc names  *)
(* a stage of it.  An optional value is a set of at most one element.      *)
(* Operations that return an error change nothing and have no action,      *)
(* except for Move, which takes a change index before it looks.            *)
(***************************************************************************)
EXTENDS ShareNamespace

CONSTANTS Threads,     \* threads that call the core
          Paths,       \* paths they use
          Calls,       \* operations they use
          Kinds,       \* values of IsFile given to CTV1Create
          Durable,     \* may a message be on disk before its callback starts?
          Faults,      \* subset of {"crash", "throw"}
          MaxFile,     \* bound on the counter of file indexes
          MaxChange    \* bound on the counter of change indexes

Updates == {"SetPermissions", "SetTimestamp", "Move"}
Operations == Updates \cup {"Create", "Delete"}

ASSUME PathsAssumption == Paths \subseteq Seq(Names)
ASSUME CallsAssumption == Calls \subseteq Operations
ASSUME KindsAssumption == Kinds \subseteq BOOLEAN
ASSUME BoundsAssumption == MaxFile \in Nat /\ MaxChange \in Nat

VARIABLES
  Files, Ancestry,             \* tables
  FileCounter, ChangeCounter,  \* the row of "Counters"
  backing,       \* names of the files in FilePath
  transactions,  \* the message that can be read in each thread's transaction file
  pc,            \* stage of the process and of the transaction under Mutex
  call,          \* the transaction under way
  deleteAfter    \* a Move that has released Mutex and still has to delete its target

vars == <<Files, Ancestry, FileCounter, ChangeCounter, backing,
          transactions, pc, call, deleteAfter>>
database == <<Files, Ancestry, FileCounter, ChangeCounter>>

(***************************************************************************)
(* A message of CoreTransactorProtocol: the file it is about, as the       *)
(* caller read it, and that file with the new values of its columns.  The  *)
(* file of a Create is the row to insert.                                  *)
(***************************************************************************)
Message == [op: Operations, file: ShareFile, new: ShareFile]

Call == [thread: Threads, msg: Message, replay: BOOLEAN]

Stages == {"open", "row", "ancestry", "file", "close"}

NothingToDelete == [t \in Threads |-> {}]

\* GetInternalFilename.
InternalFilename(file) == <<file.id, file.change>>

Init ==
  /\ Files = {RootRow}
  /\ Ancestry = {}
  /\ FileCounter = Null + 1
  /\ ChangeCounter = Null + 1
  /\ backing = {}
  /\ transactions = [t \in Threads |-> {}]
  /\ pc = "idle"
  /\ call = {}
  /\ deleteAfter = NothingToDelete

-----------------------------------------------------------------------------
(***************************************************************************)
(* The operations, up to the call of Transact.                             *)
(***************************************************************************)

\* What a lookup may return.
Entries == Files \cup {SplitFile}

\* t may lock Mutex and is not between the two halves of a Move.
Ready(t) == pc = "idle" /\ deleteAfter[t] = {}

Transact(t, op, file, new) ==
  /\ pc' = "open"
  /\ call' = {[thread |-> t, msg |-> [op |-> op, file |-> file, new |-> new],
               replay |-> FALSE]}

\* Mutant: GetFileIndex without IncrementFileIndex.
TakeFileIndexAgain ==
  /\ FileCounter < MaxFile
  /\ UNCHANGED <<FileCounter, ChangeCounter>>

TakeFileIndex ==
  /\ FileCounter < MaxFile
  /\ FileCounter' = FileCounter + 1
  /\ UNCHANGED ChangeCounter

\* Mutant: GetChangeIndex without IncrementChangeIndex.
TakeChangeIndexAgain ==
  /\ ChangeCounter < MaxChange
  /\ UNCHANGED <<FileCounter, ChangeCounter>>

TakeChangeIndex ==
  /\ ChangeCounter < MaxChange
  /\ ChangeCounter' = ChangeCounter + 1
  /\ UNCHANGED FileCounter

\* CreateDirectory.  The core only makes directories; with TRUE in Kinds
\* this is the CreateFile that core.h declares in a comment.
CreateDirectory(t, path, isFile, canWrite) ==
  /\ Ready(t)
  /\ ~IsRootPath(path)
  /\ TakeFileIndex
  /\ \E parent \in Files :
       /\ Found(parent) \in CreateResults(Files, path)
       /\ LET new == [id |-> FileCounter, change |-> Null, parent |-> parent.id,
                      name |-> Last(path), isFile |-> isFile,
                      canWrite |-> canWrite, modified |-> SomeTime]
          IN  Transact(t, "Create", new, new)
  /\ UNCHANGED <<Files, Ancestry, backing, transactions, deleteAfter>>

\* The two operations that only change an attribute accept any path,
\* "/" and "/splits" included.
Located(path) == {file \in Entries : Found(file) \in GetInternal(Files, path)}

ChangeAttribute(t, op, file, new) ==
  /\ Ready(t)
  /\ TakeChangeIndex
  /\ Transact(t, op, file, new)
  /\ UNCHANGED <<Files, Ancestry, backing, transactions, deleteAfter>>

SetPermissions(t, path, canWrite) ==
  \E file \in Located(path) :
    ChangeAttribute(t, "SetPermissions", file,
                    [file EXCEPT !.change = ChangeCounter, !.canWrite = canWrite])

SetTimestamp(t, path, time) ==
  \E file \in Located(path) :
    ChangeAttribute(t, "SetTimestamp", file,
                    [file EXCEPT !.change = ChangeCounter, !.modified = time])

BeginDelete(t, path) ==
  \E file \in Entries :
    /\ Found(file) \in DeleteResults(Files, path)
    /\ Transact(t, "Delete", file, file)

Delete(t, path) ==
  /\ Ready(t)
  /\ BeginDelete(t, path)
  /\ UNCHANGED <<database, backing, transactions, deleteAfter>>

\* Move onto a file leaves two rows of one name; the target is deleted
\* by its path after Mutex has been released and taken again.
Move(t, from, to) ==
  /\ Ready(t)
  /\ MoveIsLegal(from, to)
  /\ TakeChangeIndex
  /\ \E file \in Files, target \in Files, name \in Names :
       /\ Found(file) \in GetInternal(Files, from)
       /\ [target |-> Found(target), name |-> name] \in Destinations(Files, from, to)
       /\ target.canWrite
       /\ LET parent == IF target.isFile THEN target.parent ELSE target.id
          IN  Transact(t, "Move", file, [file EXCEPT !.change = ChangeCounter,
                                                     !.parent = parent,
                                                     !.name = name])
       /\ deleteAfter' = [deleteAfter EXCEPT ![t] = IF target.isFile THEN {to} ELSE {}]
  /\ UNCHANGED <<Files, Ancestry, backing, transactions>>

\* Move returns Missing, Invalid or Restricted: the change index is spent.
MoveRefused(t, from, to) ==
  /\ Ready(t)
  /\ MoveIsLegal(from, to)
  /\ TakeChangeIndex
  /\ \/ \E r \in GetInternal(Files, from) : r.code # "OK"
     \/ \E d \in Destinations(Files, from, to) :
          IF d.target.code = "OK" THEN ~d.target.file.canWrite ELSE TRUE
  /\ UNCHANGED <<Files, Ancestry, backing, transactions, pc, call, deleteAfter>>

\* The second half of a Move: Delete(To), whose result is not looked at.
DeleteMoveTarget(t) ==
  /\ pc = "idle"
  /\ \E path \in deleteAfter[t] :
       \/ BeginDelete(t, path)
       \/ /\ \E r \in DeleteResults(Files, path) : r.code # "OK"
          /\ UNCHANGED <<pc, call>>
  /\ deleteAfter' = [deleteAfter EXCEPT ![t] = {}]
  /\ UNCHANGED <<database, backing, transactions>>

-----------------------------------------------------------------------------
(***************************************************************************)
(* Transactor::Act and the callbacks.  A replay goes through the stages    *)
(* "row" to "close" as well.                                               *)
(***************************************************************************)

\* Mutant: the message is only written once the callback is done.
OpenRecordLate ==
  /\ pc = "open"
  /\ \E c \in call : transactions' = [transactions EXCEPT ![c.thread] = {}]
  /\ pc' = "row"
  /\ UNCHANGED <<database, backing, call, deleteAfter>>

\* Mutant: the file is opened without truncation.
OpenRecordKept ==
  /\ pc = "open"
  /\ \E c \in call, written \in Durable :
       transactions' = IF written THEN [transactions EXCEPT ![c.thread] = {c.msg}]
                       ELSE transactions
  /\ pc' = "row"
  /\ UNCHANGED <<database, backing, call, deleteAfter>>

\* Opening the thread's file empties it.  The message then sits in the
\* stream's buffer, or is on disk if it was too large for that.
OpenRecord ==
  /\ pc = "open"
  /\ \E c \in call, written \in Durable :
       transactions' = [transactions EXCEPT ![c.thread] = IF written THEN {c.msg} ELSE {}]
  /\ pc' = "row"
  /\ UNCHANGED <<database, backing, call, deleteAfter>>

\* The statement on "Files", committed on its own.
ApplyRow ==
  /\ pc = "row"
  /\ \E c \in call :
       LET m == c.msg IN
       \/ /\ m.op = "Create"
          /\ \E time \in Times :
               Files' = CreateRow(Files, [m.file EXCEPT !.modified = time])
          /\ pc' = "file"
       \/ /\ m.op = "Delete"
          /\ Files' = DeleteRow(Files, m.file)
          /\ pc' = "file"
       \/ /\ m.op = "SetPermissions"
          /\ Files' = SetRowPermissions(Files, m.file, m.new)
          /\ pc' = "ancestry"
       \/ /\ m.op = "SetTimestamp"
          /\ Files' = SetRowTimestamp(Files, m.file, m.new)
          /\ pc' = "ancestry"
       \/ /\ m.op = "Move"
          /\ Files' = MoveRow(Files, m.file, m.new)
          /\ pc' = "ancestry"
  /\ UNCHANGED <<Ancestry, FileCounter, ChangeCounter, backing, transactions, call, deleteAfter>>

\* The callbacks that changed a row record which change it replaced.
ApplyAncestry ==
  /\ pc = "ancestry"
  /\ \E c \in call :
       Ancestry' = CreateChange(Ancestry, c.msg.new.change, c.msg.file.change)
  /\ pc' = "file"
  /\ UNCHANGED <<Files, FileCounter, ChangeCounter, backing, transactions, call, deleteAfter>>

\* bfs::rename throws when its source does not exist.
RenameFails(m) ==
  m.op \in Updates /\ m.file.isFile /\ InternalFilename(m.file) \notin backing

\* What the callback does to the backing file; directories have none.
Backed(m) ==
  IF ~m.file.isFile THEN backing
  ELSE IF m.op = "Create" THEN backing \cup {InternalFilename(m.file)}
  ELSE IF m.op = "Delete" THEN backing \ {InternalFilename(m.file)}
  ELSE (backing \ {InternalFilename(m.file)}) \cup {InternalFilename(m.new)}

ApplyFile ==
  /\ pc = "file"
  /\ \E c \in call : ~RenameFails(c.msg) /\ backing' = Backed(c.msg)
  /\ pc' = "close"
  /\ UNCHANGED <<database, transactions, call, deleteAfter>>

\* Mutant: recovery does not remove the file it has replayed.
CloseKept ==
  /\ pc = "close"
  /\ \E c \in call :
       /\ transactions' = [transactions EXCEPT ![c.thread] = {c.msg}]
       /\ pc' = IF c.replay THEN "recover" ELSE "idle"
  /\ call' = {}
  /\ UNCHANGED <<database, backing, deleteAfter>>

\* The end of Act: bfs::remove is given a path below the transaction file,
\* which does not exist, so the file stays and closing it writes it out.
\* Recovery, in contrast, removes the file it has read.
Close ==
  /\ pc = "close"
  /\ \E c \in call :
       /\ transactions' = [transactions EXCEPT ![c.thread] = IF c.replay THEN {} ELSE {c.msg}]
       /\ pc' = IF c.replay THEN "recover" ELSE "idle"
  /\ call' = {}
  /\ UNCHANGED <<database, backing, deleteAfter>>

\* Mutant: recovery catches the exception and goes on with the same files.
ThrowRetried ==
  /\ pc \in {"row", "ancestry", "file"}
  /\ \E c \in call :
       /\ "throw" \in Faults \/ (pc = "file" /\ RenameFails(c.msg))
       /\ transactions' = IF c.replay THEN transactions
                          ELSE [transactions EXCEPT ![c.thread] = {c.msg}]
       /\ pc' = IF c.replay THEN "recover" ELSE "idle"
       /\ deleteAfter' = [deleteAfter EXCEPT ![c.thread] = {}]
  /\ call' = {}
  /\ UNCHANGED <<database, backing>>

\* A callback throws.  In Act the exception closes the file, which writes it
\* out, and reaches the caller; in recovery it ends the process.
Throw ==
  /\ pc \in {"row", "ancestry", "file"}
  /\ \E c \in call :
       /\ "throw" \in Faults \/ (pc = "file" /\ RenameFails(c.msg))
       /\ transactions' = IF c.replay THEN transactions
                          ELSE [transactions EXCEPT ![c.thread] = {c.msg}]
       /\ pc' = IF c.replay THEN "down" ELSE "idle"
       /\ deleteAfter' = [deleteAfter EXCEPT ![c.thread] = {}]
  /\ call' = {}
  /\ UNCHANGED <<database, backing>>

\* Act cannot open the transaction file.
OpenFails ==
  /\ pc = "open"
  /\ "throw" \in Faults
  /\ \E c \in call : deleteAfter' = [deleteAfter EXCEPT ![c.thread] = {}]
  /\ pc' = "idle"
  /\ call' = {}
  /\ UNCHANGED <<database, backing, transactions>>

-----------------------------------------------------------------------------
(***************************************************************************)
(* The life of the process.                                                *)
(***************************************************************************)

Halt ==
  /\ pc' = "down"
  /\ call' = {}
  /\ deleteAfter' = NothingToDelete
  /\ UNCHANGED <<database, backing, transactions>>

Stop == pc = "idle" /\ deleteAfter = NothingToDelete /\ Halt

\* Everything in memory is lost, a buffered message included.
Crash == "crash" \in Faults /\ pc # "down" /\ Halt

Start ==
  /\ pc = "down"
  /\ pc' = "recover"
  /\ UNCHANGED <<database, backing, transactions, call, deleteAfter>>

\* Mutant: recovery removes the file before it calls the callback.
ReplayRemoved(t) ==
  /\ pc = "recover"
  /\ \E m \in transactions[t] : call' = {[thread |-> t, msg |-> m, replay |-> TRUE]}
  /\ pc' = "row"
  /\ transactions' = [transactions EXCEPT ![t] = {}]
  /\ UNCHANGED <<database, backing, deleteAfter>>

\* The constructor of Transactor takes the files in the directory's order.
Replay(t) ==
  /\ pc = "recover"
  /\ \E m \in transactions[t] : call' = {[thread |-> t, msg |-> m, replay |-> TRUE]}
  /\ pc' = "row"
  /\ UNCHANGED <<database, backing, transactions, deleteAfter>>

\* A message with a ShareFile holds the bytes of a std::string of the process
\* that wrote it; reading it back may end the process.
ReplayDies(t) ==
  /\ pc = "recover"
  /\ \E m \in transactions[t] : m.op # "Create"
  /\ Halt

Recovered ==
  /\ pc = "recover"
  /\ \A t \in Threads : transactions[t] = {}
  /\ pc' = "idle"
  /\ UNCHANGED <<database, backing, transactions, call, deleteAfter>>

-----------------------------------------------------------------------------
Operation(t) ==
  \/ \E path \in Paths :
       \/ /\ "Create" \in Calls
          /\ \E isFile \in Kinds, canWrite \in BOOLEAN : CreateDirectory(t, path, isFile, canWrite)
       \/ /\ "SetPermissions" \in Calls
          /\ \E canWrite \in BOOLEAN : SetPermissions(t, path, canWrite)
       \/ /\ "SetTimestamp" \in Calls
          /\ \E time \in Times : SetTimestamp(t, path, time)
       \/ "Delete" \in Calls /\ Delete(t, path)
  \/ /\ "Move" \in Calls
     /\ \E from, to \in Paths : Move(t, from, to) \/ MoveRefused(t, from, to)
  \/ DeleteMoveTarget(t)

\* The thread that holds Mutex, or recovery, goes on.
Advance == OpenRecord \/ ApplyRow \/ ApplyAncestry \/ ApplyFile \/ Close \/ Throw

Recover == Recovered \/ \E t \in Threads : Replay(t) \/ ReplayDies(t)

Next ==
  \/ \E t \in Threads : Operation(t)
  \/ Advance \/ OpenFails
  \/ Stop \/ Crash \/ Start \/ Recover

Spec == Init /\ [][Next]_vars

\* A thread that runs keeps running: transactions and recovery go on.
FairSpec == Spec /\ WF_vars(Advance) /\ WF_vars(Recover)

-----------------------------------------------------------------------------
(***************************************************************************)
(* Properties.                                                             *)
(***************************************************************************)

\* The messages that the process works on or that a restart would replay.
InPlay == {c.msg : c \in call} \cup UNION {transactions[t] : t \in Threads}

AtMostOne(S) == \A x, y \in S : x = y

\* Every variable has its type; Mutex is held exactly while a transaction runs.
TypeOK ==
  /\ Files \subseteq ShareFile
  /\ Ancestry \subseteq Change
  /\ FileCounter \in Nat
  /\ ChangeCounter \in Nat
  /\ backing \subseteq Nat \X Nat
  /\ transactions \in [Threads -> SUBSET Message]
  /\ \A t \in Threads : AtMostOne(transactions[t])
  /\ pc \in {"down", "recover", "idle"} \cup Stages
  /\ call \subseteq Call
  /\ AtMostOne(call)
  /\ call # {} <=> pc \in Stages
  /\ deleteAfter \in [Threads -> SUBSET Paths]

\* An index taken from a counter is never given out again: everything that
\* is stored, and everything a replay may store, is below the counters, however
\* the process ended.  (The counters are committed before the transaction.)
IndexesAreFresh ==
  /\ \A r \in Files : r.id < FileCounter /\ r.change < ChangeCounter
  /\ \A c \in Ancestry : c.id < ChangeCounter
  /\ \A m \in InPlay : /\ m.new.id < FileCounter
                        /\ m.new.change < ChangeCounter

\* A change belongs to one file: no two files, stored or about to be, carry the
\* same change, or their histories in "Ancestry" would be mixed.
ChangeOfOneFile ==
  \A r, s \in Files \cup {m.new : m \in InPlay} :
    r.change = s.change /\ r.change # Null => r.id = s.id

\* A file's history ends: a change replaced one older change, so following
\* GetPrecedingChange from any change reaches Null.
HistoryIsWellFounded ==
  \A c \in Ancestry : /\ c.parent < c.id
                      /\ \A d \in Ancestry : c.id = d.id => c = d

\* GetInternal asserts that the root row is found: no call, through any path,
\* removes, renames or moves it, and no other row takes its place.
RootIsThere ==
  /\ Cardinality(GetRoot(Files)) = 1
  /\ \A r \in GetRoot(Files) : r.file.id = Null /\ ~r.file.isFile

\* The message that is executed, if it does op to the file.
Doing(op, id) == {m \in {c.msg : c \in call} : m.op = op /\ m.file.id = id}

\* What operations, and replays in any order, may do to a row.  It stays, or moves
\* to a later change; it goes in a Delete that has read it at the change it has; it
\* comes at the first change, in a Create of its own.  So an outdated message does
\* not touch what another thread did to a row since, except that one of Create
\* brings back a row that was deleted (DeletedStaysDeleted says whose).
RowsMoveForward ==
  [][/\ \A r \in Files :
          \/ \E s \in Files' : s.id = r.id
          \/ \E m \in Doing("Delete", r.id) : m.file.change = r.change
     /\ \A s \in Files' :
          \/ s.change = Null /\ Doing("Create", s.id) # {}
          \/ \E r \in Files : r.id = s.id
     /\ \A r \in Files, s \in Files' :
          r.id = s.id => \/ s = r
                         \/ r.change < s.change /\ r.isFile = s.isFile]_vars

\* What a transaction is for.  A lookup of /splits finds no row of its own, so
\* changing its attributes has no effect there.
Effect(m) ==
  \/ m.op = "Create" /\ \E time \in Times : [m.new EXCEPT !.modified = time] \in Files
  \/ m.op = "Delete" /\ \A r \in Files : r.id # m.file.id
  \/ m.op \in Updates /\ (m.new \in Files \/ m.file = SplitFile)

\* An operation that is about to return OK has taken effect: the statement in
\* its callback, which silently does nothing when its row is outdated or its
\* index taken, met what the lookup had found.
OKMeansDone == pc = "close" => \A c \in call : c.replay \/ Effect(c.msg)

\* When a message is on disk before its callback starts, recovery completes
\* what a crash interrupted: an open share has the backing file of every row.
RowsAreBacked ==
  pc = "idle" => \A r \in Files : r.isFile => InternalFilename(r) \in backing

\* Under the same condition, the change of every row is found in "Ancestry",
\* as GetPrecedingChange asserts.
ChangesAreRecorded ==
  pc = "idle" =>
    \A r \in Files : r.change # Null => \E c \in Ancestry : c.id = r.change

\* The row is as the message wants it, but its change has no record or its
\* backing file not the name.
Incomplete(m) ==
  \E r \in Files :
    /\ r.id = m.new.id /\ r.change = m.new.change
    /\ \/ r.change # Null /\ \A c \in Ancestry : c.id # r.change
       \/ r.isFile /\ InternalFilename(r) \notin backing

\* What a crash or an exception left incomplete, and has its message on disk,
\* keeps it until it is completed, or until the same thread starts its next
\* call, which overwrites the message (transaction.h:45).
IncompleteIsKept ==
  [][\A t \in Threads : \A m \in transactions[t] :
       Incomplete(m)' => \/ m \in transactions'[t]
                         \/ pc = "open" /\ \E c \in call : c.thread = t]_vars

\* Every operation gives Mutex back and every recovery comes to an end.
Settles == pc \notin {"idle", "down"} ~> pc \in {"idle", "down"}

=============================================================================
