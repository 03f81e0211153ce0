--------------------------- MODULE ShareCoreProofs ---------------------------
(***************************************************************************)
(* Proofs about ShareCore, for all values of its constants: the tables in  *)
(* any state, what is left of interrupted transactions, and the way of the *)
(* rows' identities through the columns of the database.                   *)
(***************************************************************************)
EXTENDS Columns, ShareCoreJournal, FiniteSetTheorems, TLAPS

-----------------------------------------------------------------------------
(***************************************************************************)
(* The rows and the statements.                                            *)
(***************************************************************************)

\* The row a share starts with, and the pseudo file /splits, are files.
LEMMA PseudoFileTypes == RootRow \in ShareFile /\ SplitFile \in ShareFile
<1>1. SomeTime \in Times
  BY TimesAssumption DEF SomeTime
<1> QED
  BY <1>1, NamesAssumption DEF RootRow, SplitFile, ShareFile, Null

\* The statements on "Files" map tables to tables.
LEMMA StatementTypes ==
  ASSUME NEW files \in SUBSET ShareFile, NEW file \in ShareFile, NEW new \in ShareFile
  PROVE  /\ CreateRow(files, new) \subseteq ShareFile
         /\ DeleteRow(files, file) \subseteq ShareFile
         /\ SetRowPermissions(files, file, new) \subseteq ShareFile
         /\ SetRowTimestamp(files, file, new) \subseteq ShareFile
         /\ MoveRow(files, file, new) \subseteq ShareFile
<1>1. CreateRow(files, new) \subseteq ShareFile
  BY DEF CreateRow
<1>2. DeleteRow(files, file) \subseteq ShareFile
  BY DEF DeleteRow
<1>3. SetRowPermissions(files, file, new) \subseteq ShareFile
  <2>1. \A r \in ShareFile :
          [r EXCEPT !.change = new.change, !.canWrite = new.canWrite] \in ShareFile
    BY DEF ShareFile
  <2> QED
    BY <2>1 DEF SetRowPermissions
<1>4. SetRowTimestamp(files, file, new) \subseteq ShareFile
  <2>1. \A r \in ShareFile :
          [r EXCEPT !.change = new.change, !.modified = new.modified] \in ShareFile
    BY DEF ShareFile
  <2> QED
    BY <2>1 DEF SetRowTimestamp
<1>5. MoveRow(files, file, new) \subseteq ShareFile
  <2>1. \A r \in ShareFile :
          [r EXCEPT !.change = new.change, !.parent = new.parent, !.name = new.name]
            \in ShareFile
    BY DEF ShareFile
  <2> QED
    BY <2>1 DEF MoveRow
<1> QED
  BY <1>1, <1>2, <1>3, <1>4, <1>5

\* The last component of a path that is not the root is a name.
LEMMA LastName ==
  ASSUME NEW path \in Paths, ~IsRootPath(path)
  PROVE  Last(path) \in Names
<1>1. path \in Seq(Names) /\ path # <<>>
  BY PathsAssumption DEF IsRootPath
<1>2. Len(path) \in 1 .. Len(path)
  BY <1>1
<1> QED
  BY <1>1, <1>2 DEF Last

-----------------------------------------------------------------------------
(***************************************************************************)
(* Type correctness.                                                       *)
(***************************************************************************)

\* Transact starts one well-formed transaction.
LEMMA TransactTypes ==
  ASSUME NEW t \in Threads, NEW op \in Operations,
         NEW file \in ShareFile, NEW new \in ShareFile,
         Transact(t, op, file, new)
  PROVE  /\ pc' \in Stages
         /\ call' \subseteq Call
         /\ AtMostOne(call)'
         /\ call' # {}
<1>1. [op |-> op, file |-> file, new |-> new] \in Message
  BY DEF Message
<1> QED
  BY <1>1 DEF Transact, Stages, Call, AtMostOne

\* A successful Delete is a transaction about a file of the table.
LEMMA BeginDeleteTypes ==
  ASSUME TypeOK, NEW t \in Threads, NEW path, BeginDelete(t, path)
  PROVE  /\ pc' \in Stages
         /\ call' \subseteq Call
         /\ AtMostOne(call)'
         /\ call' # {}
<1>1. PICK file \in Entries : Transact(t, "Delete", file, file)
  BY DEF BeginDelete
<1>2. file \in ShareFile
  BY PseudoFileTypes DEF TypeOK, Entries
<1> QED
  BY <1>1, <1>2, TransactTypes DEF Operations

\* The state a share starts in is well typed.
LEMMA InitTypes == Init => TypeOK
<1> SUFFICES ASSUME Init PROVE TypeOK
  OBVIOUS
<1>1. Files \subseteq ShareFile
  BY PseudoFileTypes DEF Init
<1>2. FileCounter \in Nat /\ ChangeCounter \in Nat
  BY DEF Init, Null
<1>3. transactions \in [Threads -> SUBSET Message] /\ \A t \in Threads : AtMostOne(transactions[t])
  BY DEF Init, AtMostOne
<1>4. deleteAfter \in [Threads -> SUBSET Paths]
  BY DEF Init, NothingToDelete
<1> QED
  BY <1>1, <1>2, <1>3, <1>4 DEF Init, TypeOK, AtMostOne, Stages

\* A call of an operation keeps the types.
LEMMA OperationTypes ==
  ASSUME TypeOK, NEW t \in Threads, Operation(t)
  PROVE  TypeOK'
<1> USE DEF TypeOK
<1>1. ASSUME NEW path \in Paths, NEW isFile \in Kinds, NEW canWrite \in BOOLEAN,
             CreateDirectory(t, path, isFile, canWrite)
      PROVE  TypeOK'
  <2>1. PICK parent \in Files :
          Transact(t, "Create",
                   [id |-> FileCounter, change |-> Null, parent |-> parent.id,
                    name |-> Last(path), isFile |-> isFile,
                    canWrite |-> canWrite, modified |-> SomeTime],
                   [id |-> FileCounter, change |-> Null, parent |-> parent.id,
                    name |-> Last(path), isFile |-> isFile,
                    canWrite |-> canWrite, modified |-> SomeTime])
    BY <1>1 DEF CreateDirectory
  <2>2. [id |-> FileCounter, change |-> Null, parent |-> parent.id,
         name |-> Last(path), isFile |-> isFile,
         canWrite |-> canWrite, modified |-> SomeTime] \in ShareFile
    <3>1. Last(path) \in Names
      BY <1>1, LastName DEF CreateDirectory
    <3>2. SomeTime \in Times
      BY TimesAssumption DEF SomeTime
    <3>3. isFile \in BOOLEAN
      BY KindsAssumption
    <3> QED
      BY <3>1, <3>2, <3>3 DEF ShareFile, Null
  <2>3. /\ pc' \in Stages /\ call' \subseteq Call
        /\ AtMostOne(call)' /\ call' # {}
    BY <2>1, <2>2, TransactTypes DEF Operations
  <2> QED
    BY <1>1, <2>3 DEF CreateDirectory, TakeFileIndex
<1>2. ASSUME NEW path \in Paths, NEW op \in Operations, NEW file \in Located(path),
             NEW new \in ShareFile, ChangeAttribute(t, op, file, new)
      PROVE  TypeOK'
  <2>1. file \in ShareFile
    BY PseudoFileTypes DEF Located, Entries
  <2>2. /\ pc' \in Stages /\ call' \subseteq Call
        /\ AtMostOne(call)' /\ call' # {}
    BY <1>2, <2>1, TransactTypes DEF ChangeAttribute
  <2> QED
    BY <1>2, <2>2 DEF ChangeAttribute, TakeChangeIndex
<1>3. ASSUME NEW path \in Paths, NEW canWrite \in BOOLEAN, SetPermissions(t, path, canWrite)
      PROVE  TypeOK'
  <2>1. \A file \in Located(path) :
          [file EXCEPT !.change = ChangeCounter, !.canWrite = canWrite] \in ShareFile
    BY PseudoFileTypes DEF Located, Entries, ShareFile
  <2> QED
    BY <1>2, <1>3, <2>1 DEF SetPermissions, Operations, Updates
<1>4. ASSUME NEW path \in Paths, NEW time \in Times, SetTimestamp(t, path, time)
      PROVE  TypeOK'
  <2>1. \A file \in Located(path) :
          [file EXCEPT !.change = ChangeCounter, !.modified = time] \in ShareFile
    BY PseudoFileTypes DEF Located, Entries, ShareFile
  <2> QED
    BY <1>2, <1>4, <2>1 DEF SetTimestamp, Operations, Updates
<1>5. ASSUME NEW path \in Paths, Delete(t, path)
      PROVE  TypeOK'
  BY <1>5, BeginDeleteTypes DEF Delete, database
<1>6. ASSUME NEW from \in Paths, NEW to \in Paths, Move(t, from, to)
      PROVE  TypeOK'
  <2>1. PICK file \in Files, target \in Files, name \in Names :
          /\ Transact(t, "Move", file,
                      [file EXCEPT !.change = ChangeCounter,
                                   !.parent = IF target.isFile THEN target.parent ELSE target.id,
                                   !.name = name])
          /\ deleteAfter' = [deleteAfter EXCEPT ![t] = IF target.isFile THEN {to} ELSE {}]
    BY <1>6 DEF Move
  <2>2. [file EXCEPT !.change = ChangeCounter,
                     !.parent = IF target.isFile THEN target.parent ELSE target.id,
                     !.name = name] \in ShareFile
    BY DEF ShareFile
  <2>3. /\ pc' \in Stages /\ call' \subseteq Call
        /\ AtMostOne(call)' /\ call' # {}
    BY <2>1, <2>2, TransactTypes DEF Operations, Updates
  <2>4. deleteAfter' \in [Threads -> SUBSET Paths]
    BY <2>1
  <2> QED
    BY <1>6, <2>3, <2>4 DEF Move, TakeChangeIndex
<1>7. ASSUME NEW from \in Paths, NEW to \in Paths, MoveRefused(t, from, to)
      PROVE  TypeOK'
  BY <1>7 DEF MoveRefused, TakeChangeIndex, AtMostOne
<1>8. ASSUME DeleteMoveTarget(t)
      PROVE  TypeOK'
  <2>1. deleteAfter' \in [Threads -> SUBSET Paths]
    BY <1>8 DEF DeleteMoveTarget
  <2>2. CASE \E path \in deleteAfter[t] : BeginDelete(t, path)
    BY <1>8, <2>1, <2>2, BeginDeleteTypes DEF DeleteMoveTarget, database
  <2>3. CASE UNCHANGED <<pc, call>>
    BY <1>8, <2>1, <2>3 DEF DeleteMoveTarget, database, AtMostOne
  <2> QED
    BY <1>8, <2>2, <2>3 DEF DeleteMoveTarget
<1> QED
  BY <1>1, <1>3, <1>4, <1>5, <1>6, <1>7, <1>8 DEF Operation

\* A step of the transaction under way keeps the types.
LEMMA AdvanceTypes == TypeOK /\ Advance => TypeOK'
<1> SUFFICES ASSUME TypeOK, Advance PROVE TypeOK'
  OBVIOUS
<1> USE DEF TypeOK
<1>1. CASE OpenRecord
  <2>1. PICK c \in call, written \in Durable :
          transactions' = [transactions EXCEPT ![c.thread] = IF written THEN {c.msg} ELSE {}]
    BY <1>1 DEF OpenRecord
  <2>2. c.thread \in Threads /\ c.msg \in Message
    BY DEF Call
  <2>3. /\ transactions' \in [Threads -> SUBSET Message]
        /\ \A t \in Threads : AtMostOne(transactions'[t])
    BY <2>1, <2>2 DEF AtMostOne
  <2> QED
    BY <1>1, <2>3 DEF OpenRecord, database, Stages, AtMostOne
<1>2. CASE ApplyRow
  <2>1. PICK c \in call :
          \/ \E time \in Times : Files' = CreateRow(Files, [c.msg.file EXCEPT !.modified = time])
          \/ Files' = DeleteRow(Files, c.msg.file)
          \/ Files' = SetRowPermissions(Files, c.msg.file, c.msg.new)
          \/ Files' = SetRowTimestamp(Files, c.msg.file, c.msg.new)
          \/ Files' = MoveRow(Files, c.msg.file, c.msg.new)
    BY <1>2 DEF ApplyRow
  <2>2. c.msg.file \in ShareFile /\ c.msg.new \in ShareFile
    BY DEF Call, Message
  <2>3. \A time \in Times : [c.msg.file EXCEPT !.modified = time] \in ShareFile
    BY <2>2 DEF ShareFile
  <2>4. Files' \subseteq ShareFile
    <3>1. ASSUME NEW new \in ShareFile
          PROVE  /\ CreateRow(Files, new) \subseteq ShareFile
                 /\ DeleteRow(Files, c.msg.file) \subseteq ShareFile
                 /\ SetRowPermissions(Files, c.msg.file, new) \subseteq ShareFile
                 /\ SetRowTimestamp(Files, c.msg.file, new) \subseteq ShareFile
                 /\ MoveRow(Files, c.msg.file, new) \subseteq ShareFile
      BY <2>2, StatementTypes
    <3> QED
      BY <2>1, <2>2, <2>3, <3>1
  <2>5. pc' \in Stages
    BY <1>2 DEF ApplyRow, Stages
  <2> QED
    BY <1>2, <2>4, <2>5 DEF ApplyRow, AtMostOne, Stages
<1>3. CASE ApplyAncestry
  <2>1. PICK c \in call : Ancestry' = CreateChange(Ancestry, c.msg.new.change, c.msg.file.change)
    BY <1>3 DEF ApplyAncestry
  <2>2. c.msg.new.change \in Nat /\ c.msg.file.change \in Nat
    BY DEF Call, Message, ShareFile
  <2>3. Ancestry' \subseteq Change
    BY <2>1, <2>2 DEF CreateChange, Change
  <2> QED
    BY <1>3, <2>3 DEF ApplyAncestry, AtMostOne, Stages
<1>4. CASE ApplyFile
  <2>1. PICK c \in call : backing' = Backed(c.msg)
    BY <1>4 DEF ApplyFile
  <2>2. /\ InternalFilename(c.msg.file) \in Nat \X Nat
        /\ InternalFilename(c.msg.new) \in Nat \X Nat
    BY DEF Call, Message, ShareFile, InternalFilename
  <2>3. backing' \subseteq Nat \X Nat
    BY <2>1, <2>2 DEF Backed
  <2> QED
    BY <1>4, <2>3 DEF ApplyFile, database, AtMostOne, Stages
<1>5. CASE Close
  <2>1. PICK c \in call :
          /\ transactions' = [transactions EXCEPT ![c.thread] = IF c.replay THEN {} ELSE {c.msg}]
          /\ pc' = IF c.replay THEN "recover" ELSE "idle"
    BY <1>5 DEF Close
  <2>2. c.thread \in Threads /\ c.msg \in Message
    BY DEF Call
  <2>3. /\ transactions' \in [Threads -> SUBSET Message]
        /\ \A t \in Threads : AtMostOne(transactions'[t])
    BY <2>1, <2>2 DEF AtMostOne
  <2> QED
    BY <1>5, <2>1, <2>3 DEF Close, database, Stages, AtMostOne
<1>6. CASE Throw
  <2>1. PICK c \in call :
          /\ transactions' = IF c.replay THEN transactions
                             ELSE [transactions EXCEPT ![c.thread] = {c.msg}]
          /\ pc' = IF c.replay THEN "down" ELSE "idle"
          /\ deleteAfter' = [deleteAfter EXCEPT ![c.thread] = {}]
    BY <1>6 DEF Throw
  <2>2. c.thread \in Threads /\ c.msg \in Message
    BY DEF Call
  <2>3. /\ transactions' \in [Threads -> SUBSET Message]
        /\ \A t \in Threads : AtMostOne(transactions'[t])
    BY <2>1, <2>2 DEF AtMostOne
  <2>4. deleteAfter' \in [Threads -> SUBSET Paths]
    BY <2>1
  <2> QED
    BY <1>6, <2>1, <2>3, <2>4 DEF Throw, database, Stages, AtMostOne
<1> QED
  BY <1>1, <1>2, <1>3, <1>4, <1>5, <1>6 DEF Advance

\* The steps of the process and of recovery keep the types.
LEMMA ProcessTypes ==
  TypeOK /\ (OpenFails \/ Stop \/ Crash \/ Start \/ Recover) => TypeOK'
<1> SUFFICES ASSUME TypeOK, OpenFails \/ Stop \/ Crash \/ Start \/ Recover
             PROVE  TypeOK'
  OBVIOUS
<1> USE DEF TypeOK
<1>1. CASE OpenFails
  <2>1. deleteAfter' \in [Threads -> SUBSET Paths]
    BY <1>1 DEF OpenFails, Call
  <2> QED
    BY <1>1, <2>1 DEF OpenFails, database, Stages, AtMostOne
<1>2. CASE Halt
  BY <1>2 DEF Halt, NothingToDelete, database, Stages, AtMostOne
<1>3. CASE Start \/ Recovered
  BY <1>3 DEF Start, Recovered, database, Stages, AtMostOne
<1>4. ASSUME NEW t \in Threads, Replay(t)
      PROVE  TypeOK'
  <2>1. PICK m \in transactions[t] : call' = {[thread |-> t, msg |-> m, replay |-> TRUE]}
    BY <1>4 DEF Replay
  <2>2. m \in Message
    OBVIOUS
  <2>3. call' \subseteq Call /\ AtMostOne(call)' /\ call' # {}
    BY <2>1, <2>2 DEF Call, AtMostOne
  <2> QED
    BY <1>4, <2>3 DEF Replay, database, Stages
<1> QED
  BY <1>1, <1>2, <1>3, <1>4 DEF Stop, Crash, Recover, ReplayDies

\* Every step of the share keeps the types.
LEMMA NextTypes == TypeOK /\ [Next]_vars => TypeOK'
<1> SUFFICES ASSUME TypeOK, [Next]_vars PROVE TypeOK'
  OBVIOUS
<1>1. CASE UNCHANGED vars
  BY <1>1 DEF vars, TypeOK, AtMostOne
<1>2. CASE Next
  BY <1>2, OperationTypes, AdvanceTypes, ProcessTypes DEF Next
<1> QED
  BY <1>1, <1>2

\* Type correctness of ShareCore: whatever the threads call, however the process
\* ends and whatever recovery replays, the variables keep their types and Mutex
\* is held exactly while one transaction runs.
THEOREM TypeCorrect == Spec => []TypeOK
BY InitTypes, NextTypes, PTL DEF Spec

-----------------------------------------------------------------------------
(***************************************************************************)
(* The inductive invariant.  The properties of the tables depend on what   *)
(* replays may still apply, so it says of every message in play what the   *)
(* operation that made it guaranteed.                                      *)
(***************************************************************************)

PrimaryKey == \A r, s \in Files : r.id = s.id => r = s

CountersStarted == FileCounter > Null /\ ChangeCounter > Null

\* What an operation guarantees about its message, apart from the indexes.
Sound(m) ==
  /\ m.new.id = m.file.id /\ m.new.isFile = m.file.isFile
  /\ m.op = "Create" => m.file.id # Null /\ m.file.change = Null /\ m.file.name \in Names
  /\ m.op = "Create" => m.new = m.file
  /\ m.op = "Delete" => m.file.id # Null /\ m.new = m.file
  /\ m.op = "Move" => m.file.id # Null /\ m.new.name \in Names
  /\ m.op \in Updates => m.file.change < m.new.change

MessagesAreSound == \A m \in InPlay : Sound(m)

\* The row with the root's identity has the root's name and place, and is the
\* only one with that name.
RootRowStays ==
  /\ \E r \in Files : /\ r.id = Null /\ r.parent = Null
                      /\ r.name = RootName /\ ~r.isFile
  /\ \A r \in Files : r.name = RootName => r.id = Null

\* Only the callbacks that make a change reach its record in "Ancestry".
StageMatches == pc = "ancestry" => \A c \in call : c.msg.op \in Updates

IInv ==
  /\ TypeOK
  /\ StageMatches
  /\ PrimaryKey
  /\ CountersStarted
  /\ IndexesAreFresh
  /\ MessagesAreSound
  /\ ChangeOfOneFile
  /\ HistoryIsWellFounded
  /\ RootRowStays

-----------------------------------------------------------------------------
\* What a lookup below the root finds is a row with the name it was asked for.
LEMMA FoundByName ==
  ASSUME NEW path, NEW files, NEW file,
         ~IsRootPath(path), ~IsSplitPath(path),
         Found(file) \in GetInternal(files, path)
  PROVE  file \in files /\ file.name = Last(path)
<1>1. PICK d \in Walk(files, path) : Found(file) \in Lookup(files, d, Last(path))
  BY DEF GetInternal
<1>2. Found(file).code = "OK"
  BY DEF Found
<1>3. d.code = "OK"
  BY <1>1, <1>2 DEF Lookup
<1>4. PICK r \in GetFile(files, d.file.id, Last(path)) : Found(file) = Found(r)
  BY <1>1, <1>2, <1>3 DEF Lookup, Error
<1>5. r = file
  BY <1>4 DEF Found
<1> QED
  BY <1>4, <1>5 DEF GetFile

\* Delete only accepts rows with a client's name, which the root has not.
LEMMA DeletedByName ==
  ASSUME NEW path \in Paths, NEW files, NEW file,
         Found(file) \in DeleteResults(files, path)
  PROVE  file \in files /\ file.name \in Names
<1>1. Found(file).code = "OK"
  BY DEF Found
<1>2. ~IsRootPath(path)
  BY <1>1 DEF DeleteResults, Error
<1>3. PICK r \in GetInternal(files, path) :
        Found(file) = IF r.code = "OK" /\ IsSplitPath(path) THEN Error("Illegal") ELSE r
  BY <1>2 DEF DeleteResults
<1>4. ~(r.code = "OK" /\ IsSplitPath(path)) /\ Found(file) = r
  BY <1>1, <1>3 DEF Error
<1>5. ~IsSplitPath(path) /\ Found(file) \in GetInternal(files, path)
  BY <1>1, <1>3, <1>4
<1> QED
  BY <1>2, <1>5, FoundByName, LastName

\* A row with a client's name is not the root.
LEMMA NamedIsNotRoot ==
  ASSUME IInv, NEW file \in Files, file.name \in Names
  PROVE  file.id # Null
<1>1. PICK r \in Files : r.id = Null /\ r.name = RootName
  BY DEF IInv, RootRowStays
<1> QED
  BY <1>1, NamesAssumption DEF IInv, PrimaryKey

\* The invariant holds when a share has just been created.
LEMMA InitInvariant == Init => IInv
<1> SUFFICES ASSUME Init PROVE IInv
  OBVIOUS
<1>1. Files = {RootRow} /\ Ancestry = {} /\ FileCounter = 1 /\ ChangeCounter = 1 /\ pc = "idle"
  BY DEF Init, Null
<1>2. InPlay = {}
  BY DEF Init, InPlay
<1>3. /\ RootRow.id = 0 /\ RootRow.change = 0 /\ RootRow.parent = 0
      /\ RootRow.name = RootName /\ ~RootRow.isFile
  BY DEF RootRow, Null
<1>4. PrimaryKey /\ CountersStarted /\ IndexesAreFresh
  BY <1>1, <1>2, <1>3 DEF PrimaryKey, CountersStarted, IndexesAreFresh, Null
<1>5. MessagesAreSound /\ ChangeOfOneFile /\ HistoryIsWellFounded /\ StageMatches
  BY <1>1, <1>2 DEF MessagesAreSound, ChangeOfOneFile, HistoryIsWellFounded, StageMatches
<1>6. RootRowStays
  BY <1>1, <1>3 DEF RootRowStays, Null
<1> QED
  BY <1>4, <1>5, <1>6, InitTypes DEF IInv

\* A step that leaves the tables alone, brings no new message and does not take
\* an index back keeps the invariant.
LEMMA QuietStep ==
  ASSUME IInv, TypeOK', StageMatches',
         Files' = Files, Ancestry' = Ancestry,
         FileCounter' >= FileCounter, ChangeCounter' >= ChangeCounter,
         InPlay' \subseteq InPlay
  PROVE  IInv'
<1> USE DEF IInv
<1>1. PrimaryKey' /\ RootRowStays'
  BY DEF PrimaryKey, RootRowStays
<1>2. CountersStarted'
  BY DEF CountersStarted, TypeOK, Null
<1>3. IndexesAreFresh'
  <2>1. \A m \in InPlay : m.new \in ShareFile
    BY DEF TypeOK, InPlay, Call, Message
  <2> QED
    BY <2>1 DEF IndexesAreFresh, TypeOK, ShareFile, Change
<1>4. MessagesAreSound'
  BY DEF MessagesAreSound, Sound
<1>5. ChangeOfOneFile'
  BY DEF ChangeOfOneFile
<1>6. HistoryIsWellFounded'
  BY DEF HistoryIsWellFounded
<1> QED
  BY <1>1, <1>2, <1>3, <1>4, <1>5, <1>6

\* So does the start of a transaction with a sound message, whose change is either
\* fresh or that of a row of the same file.
LEMMA BeginStep ==
  ASSUME IInv, TypeOK', NEW t \in Threads, NEW op \in Operations,
         NEW file \in ShareFile, NEW new \in ShareFile,
         Transact(t, op, file, new),
         Files' = Files, Ancestry' = Ancestry, transactions' = transactions,
         FileCounter' >= FileCounter, ChangeCounter' >= ChangeCounter,
         new.id < FileCounter', new.change < ChangeCounter',
         Sound([op |-> op, file |-> file, new |-> new]),
         new.change >= ChangeCounter \/ new.change = Null \/ new \in Files
  PROVE  IInv'
<1> USE DEF IInv
<1> DEFINE m == [op |-> op, file |-> file, new |-> new]
<1>1. InPlay' \subseteq InPlay \cup {m}
  BY DEF InPlay, Transact
<1>2. \A n \in InPlay : n \in Message
  BY DEF TypeOK, InPlay, Call
<1>3. m.new = new
  OBVIOUS
<1> HIDE DEF m
<1>4. PrimaryKey' /\ RootRowStays' /\ HistoryIsWellFounded'
  BY DEF PrimaryKey, RootRowStays, HistoryIsWellFounded
<1>5. CountersStarted'
  BY DEF CountersStarted, TypeOK, Null
<1>6. IndexesAreFresh'
  <2>1. \A n \in InPlay : n.new \in ShareFile
    BY <1>2 DEF Message
  <2>2. \A n \in InPlay' : n.new.id < FileCounter' /\ n.new.change < ChangeCounter'
    BY <1>1, <1>3, <2>1 DEF IndexesAreFresh, TypeOK, ShareFile
  <2> QED
    BY <2>2 DEF IndexesAreFresh, TypeOK, ShareFile, Change
<1>7. MessagesAreSound'
  BY <1>1 DEF MessagesAreSound, Sound, m
<1>8. ChangeOfOneFile'
  <2> DEFINE Versions == Files \cup {n.new : n \in InPlay}
  <2>1. \A r \in Versions : r \in ShareFile /\ r.change < ChangeCounter
    BY <1>2 DEF IndexesAreFresh, TypeOK, Message
  <2>2. \A r \in Versions : r.change = new.change /\ r.change # Null => r.id = new.id
    BY <2>1 DEF ChangeOfOneFile, ShareFile, TypeOK
  <2>3. \A r \in (Files \cup {n.new : n \in InPlay})' : r \in Versions \/ r = new
    BY <1>1, <1>3
  <2>4. \A r, s \in Versions : r.change = s.change /\ r.change # Null => r.id = s.id
    BY DEF ChangeOfOneFile
  <2> QED
    BY <2>2, <2>3, <2>4 DEF ChangeOfOneFile
<1>9. StageMatches'
  BY DEF StageMatches, Transact
<1> QED
  BY <1>4, <1>5, <1>6, <1>7, <1>8, <1>9

-----------------------------------------------------------------------------
(***************************************************************************)
(* The step that changes "Files".                                          *)
(***************************************************************************)

\* s is what an UPDATE for message m makes of row r.
Version(r, s, m) ==
  \/ s = r
  \/ /\ IsCurrent(r, m.file)
     /\ s.id = r.id /\ s.isFile = r.isFile /\ s.change = m.new.change
     /\ IF m.op = "Move" THEN s.name = m.new.name
        ELSE s.name = r.name /\ s.parent = r.parent

UpdatedTable(files, m) ==
  CASE m.op = "SetPermissions" -> SetRowPermissions(files, m.file, m.new)
    [] m.op = "SetTimestamp" -> SetRowTimestamp(files, m.file, m.new)
    [] m.op = "Move" -> MoveRow(files, m.file, m.new)

Updated(r, m) ==
  IF ~IsCurrent(r, m.file) THEN r
  ELSE CASE m.op = "SetPermissions" ->
              [r EXCEPT !.change = m.new.change, !.canWrite = m.new.canWrite]
         [] m.op = "SetTimestamp" ->
              [r EXCEPT !.change = m.new.change, !.modified = m.new.modified]
         [] m.op = "Move" ->
              [r EXCEPT !.change = m.new.change, !.parent = m.new.parent,
                        !.name = m.new.name]

\* An UPDATE makes one version of every row and nothing else.
LEMMA UpdatedRows ==
  ASSUME NEW files \in SUBSET ShareFile, NEW m \in Message, m.op \in Updates
  PROVE  /\ UpdatedTable(files, m) = {Updated(r, m) : r \in files}
         /\ \A r \in files : Version(r, Updated(r, m), m)
<1>1. UpdatedTable(files, m) = {Updated(r, m) : r \in files}
  <2>1. CASE m.op = "SetPermissions"
    BY <2>1 DEF Updated, UpdatedTable, SetRowPermissions
  <2>2. CASE m.op = "SetTimestamp"
    BY <2>2 DEF Updated, UpdatedTable, SetRowTimestamp
  <2>3. CASE m.op = "Move"
    BY <2>3 DEF Updated, UpdatedTable, MoveRow
  <2> QED
    BY <2>1, <2>2, <2>3 DEF Updates
<1>2. \A r \in files : Version(r, Updated(r, m), m)
  BY DEF Updated, Version, ShareFile, Updates
<1> QED
  BY <1>1, <1>2

\* ApplyRow by the kind of its message.
LEMMA AppliedRow ==
  ASSUME TypeOK, ApplyRow
  PROVE  \E c \in call :
           \/ /\ c.msg.op = "Create"
              /\ \E time \in Times : Files' = CreateRow(Files, [c.msg.file EXCEPT !.modified = time])
           \/ c.msg.op = "Delete" /\ Files' = DeleteRow(Files, c.msg.file)
           \/ c.msg.op \in Updates /\ Files' = UpdatedTable(Files, c.msg)
BY DEF ApplyRow, UpdatedTable, Updates

\* What RowsMoveForward says of a step.
Forward ==
  /\ \A r \in Files :
       \/ \E s \in Files' : s.id = r.id
       \/ \E m \in Doing("Delete", r.id) : m.file.change = r.change
  /\ \A s \in Files' :
       \/ s.change = Null /\ Doing("Create", s.id) # {}
       \/ \E r \in Files : r.id = s.id
  /\ \A r \in Files, s \in Files' :
       r.id = s.id => \/ s = r
                      \/ r.change < s.change /\ r.isFile = s.isFile

\* A row only changes by moving to a later change, goes when it is deleted as it is,
\* and comes when it is created.
LEMMA ApplyRowForward ==
  ASSUME IInv, ApplyRow
  PROVE  Forward
<1> USE DEF IInv
<1>1. PICK c \in call :
           \/ /\ c.msg.op = "Create"
              /\ \E time \in Times : Files' = CreateRow(Files, [c.msg.file EXCEPT !.modified = time])
           \/ c.msg.op = "Delete" /\ Files' = DeleteRow(Files, c.msg.file)
           \/ c.msg.op \in Updates /\ Files' = UpdatedTable(Files, c.msg)
  BY AppliedRow
<1>2. c.msg \in Message /\ Sound(c.msg)
  BY DEF TypeOK, Call, MessagesAreSound, InPlay
<1>3. c.msg \in Doing(c.msg.op, c.msg.file.id)
  BY DEF Doing
<1>4. CASE c.msg.op = "Create"
  <2>1. PICK time \in Times : Files' = CreateRow(Files, [c.msg.file EXCEPT !.modified = time])
    BY <1>1, <1>4 DEF Updates
  <2> DEFINE new == [c.msg.file EXCEPT !.modified = time]
  <2>2. new.id = c.msg.file.id /\ new.change = Null
    BY <1>2, <1>4 DEF Message, ShareFile, Sound
  <2>3. Files' = CreateRow(Files, new)
    BY <2>1
  <2> HIDE DEF new
  <2>4. Files \subseteq Files' /\ \A s \in Files' : s \in Files \/ (s = new /\ \A r \in Files : r.id # s.id)
    BY <2>3 DEF CreateRow
  <2> QED
    BY <1>3, <1>4, <2>2, <2>4 DEF Forward, PrimaryKey
<1>5. CASE c.msg.op = "Delete"
  <2>1. Files' = {r \in Files : ~IsCurrent(r, c.msg.file)}
    BY <1>1, <1>5 DEF DeleteRow, Updates
  <2>2. \A r \in Files : r \in Files' \/ \E m \in Doing("Delete", r.id) : m.file.change = r.change
    BY <1>3, <1>5, <2>1 DEF IsCurrent
  <2> QED
    BY <2>1, <2>2 DEF Forward, PrimaryKey
<1>6. CASE c.msg.op \in Updates
  <2>1. Files' = UpdatedTable(Files, c.msg)
    BY <1>1, <1>6 DEF Updates
  <2>2. /\ \A s \in Files' : \E r \in Files : Version(r, s, c.msg)
        /\ \A r \in Files : \E s \in Files' : Version(r, s, c.msg)
    BY <1>2, <1>6, <2>1, UpdatedRows DEF TypeOK
  <2>3. \A r \in Files, s \in Files' : r.id = s.id => Version(r, s, c.msg)
    BY <2>2 DEF PrimaryKey, Version
  <2>4. \A r \in Files, s \in Files' :
          r.id = s.id => s = r \/ (r.change < s.change /\ r.isFile = s.isFile)
    BY <1>2, <1>6, <2>3 DEF Version, Sound, IsCurrent
  <2>5. \A r, s : Version(r, s, c.msg) => s.id = r.id
    BY DEF Version
  <2>6. /\ \A s \in Files' : \E r \in Files : r.id = s.id
        /\ \A r \in Files : \E s \in Files' : s.id = r.id
    BY <2>2, <2>5
  <2> QED
    BY <2>4, <2>6 DEF Forward
<1> QED
  BY <1>1, <1>4, <1>5, <1>6

\* The step that changes "Files" keeps the invariant.
LEMMA ApplyRowStep ==
  ASSUME IInv, ApplyRow
  PROVE  IInv'
<1> USE DEF IInv
<1>1. PICK c \in call :
           \/ /\ c.msg.op = "Create"
              /\ \E time \in Times : Files' = CreateRow(Files, [c.msg.file EXCEPT !.modified = time])
           \/ c.msg.op = "Delete" /\ Files' = DeleteRow(Files, c.msg.file)
           \/ c.msg.op \in Updates /\ Files' = UpdatedTable(Files, c.msg)
  BY AppliedRow
<1>2. c.msg \in Message /\ Sound(c.msg) /\ c.msg \in InPlay
  BY DEF TypeOK, Call, MessagesAreSound, InPlay
<1>3. InPlay' = InPlay
  BY DEF ApplyRow, InPlay
<1>4. TypeOK'
  BY AdvanceTypes DEF Advance
\* Where the rows of the new table come from.
<1>5. \A s \in Files' : \/ s \in Files
                        \/ \E r \in Files : Version(r, s, c.msg) /\ c.msg.op \in Updates
                        \/ /\ c.msg.op = "Create"
                           /\ s.id = c.msg.new.id /\ s.change = Null
                           /\ s.name \in Names
                           /\ \A r \in Files : r.id # s.id
  <2>1. CASE c.msg.op = "Create"
    <3>1. \A time \in Times : LET s == [c.msg.file EXCEPT !.modified = time]
                              IN  s.id = c.msg.new.id /\ s.change = Null /\ s.name \in Names
      BY <1>2, <2>1 DEF Sound, Message, ShareFile
    <3> QED
      BY <1>1, <2>1, <3>1 DEF CreateRow, Updates
  <2>2. CASE c.msg.op = "Delete"
    BY <1>1, <2>2 DEF DeleteRow, Updates
  <2>3. CASE c.msg.op \in Updates
    BY <1>1, <1>2, <2>3, UpdatedRows DEF TypeOK, Updates
  <2> QED
    BY <1>1, <2>1, <2>2, <2>3
<1>6. PrimaryKey'
  <2>1. CASE c.msg.op = "Create"
    BY <1>1, <2>1 DEF CreateRow, PrimaryKey, Updates
  <2>2. CASE c.msg.op = "Delete"
    BY <1>1, <2>2 DEF DeleteRow, PrimaryKey, Updates
  <2>3. CASE c.msg.op \in Updates
    <3>1. /\ Files' = {Updated(r, c.msg) : r \in Files}
          /\ \A r \in Files : Updated(r, c.msg).id = r.id
      BY <1>1, <1>2, <2>3, UpdatedRows DEF Updates, TypeOK, Version
    <3> QED
      BY <3>1 DEF PrimaryKey
  <2> QED
    BY <1>1, <2>1, <2>2, <2>3
<1>7. CountersStarted' /\ HistoryIsWellFounded' /\ MessagesAreSound'
  BY <1>3 DEF CountersStarted, HistoryIsWellFounded, MessagesAreSound, Sound, ApplyRow
<1>8. IndexesAreFresh'
  <2>1. \A s \in Files' : s.id < FileCounter /\ s.change < ChangeCounter
    BY <1>2, <1>5 DEF Version, IndexesAreFresh, CountersStarted
  <2> QED
    BY <1>3, <2>1 DEF ApplyRow, IndexesAreFresh
<1>9. ChangeOfOneFile'
  <2> DEFINE Versions == Files \cup {m.new : m \in InPlay}
  <2>1. \A s \in Files' : s.change = Null \/ \E r \in Versions : r.id = s.id /\ r.change = s.change
    <3>1. \A s \in Files', r \in Files :
            Version(r, s, c.msg) => s = r \/ (s.id = c.msg.new.id /\ s.change = c.msg.new.change)
      BY <1>2 DEF Version, IsCurrent, Sound
    <3> QED
      BY <1>2, <1>5, <3>1
  <2>2. \A r, s \in Versions : r.change = s.change /\ r.change # Null => r.id = s.id
    BY DEF ChangeOfOneFile
  <2> QED
    BY <1>3, <2>1, <2>2 DEF ChangeOfOneFile
<1>10. RootRowStays'
  <2>1. \A s \in Files' : s.name = RootName => s.id = Null
    BY <1>2, <1>5, NamesAssumption DEF Version, Sound, RootRowStays
  <2>2. PICK r \in Files : r.id = Null /\ r.parent = Null /\ r.name = RootName /\ ~r.isFile
    BY DEF RootRowStays
  <2>3. \E s \in Files' : s.id = Null /\ s.parent = Null /\ s.name = RootName /\ ~s.isFile
    <3>1. CASE c.msg.op = "Create"
      BY <1>1, <2>2, <3>1 DEF CreateRow, Updates
    <3>2. CASE c.msg.op = "Delete"
      BY <1>1, <1>2, <2>2, <3>2 DEF DeleteRow, IsCurrent, Sound, Updates
    <3>3. CASE c.msg.op \in Updates
      <4>1. PICK s \in Files' : Version(r, s, c.msg)
        BY <1>1, <1>2, <3>3, UpdatedRows DEF TypeOK, Updates
      <4> QED
        BY <1>2, <2>2, <4>1 DEF Version, Sound, IsCurrent
    <3> QED
      BY <1>1, <3>1, <3>2, <3>3
  <2> QED
    BY <2>1, <2>3 DEF RootRowStays
<1>11. StageMatches'
  <2>1. pc' = "ancestry" => \A d \in call : d.msg.op \in Updates
    BY DEF ApplyRow, Updates, TypeOK, AtMostOne
  <2> QED
    BY <2>1 DEF StageMatches, ApplyRow
<1> QED
  BY <1>4, <1>6, <1>7, <1>8, <1>9, <1>10, <1>11

-----------------------------------------------------------------------------
(***************************************************************************)
(* The other steps.                                                        *)
(***************************************************************************)

\* Recording a change keeps the invariant: it is newer than what it replaced.
LEMMA ApplyAncestryStep ==
  ASSUME IInv, ApplyAncestry
  PROVE  IInv'
<1> USE DEF IInv
<1>1. PICK c \in call : Ancestry' = CreateChange(Ancestry, c.msg.new.change, c.msg.file.change)
  BY DEF ApplyAncestry
<1>2. c.msg \in InPlay /\ Sound(c.msg) /\ c.msg.op \in Updates
  BY DEF InPlay, MessagesAreSound, StageMatches, ApplyAncestry
<1>3. TypeOK'
  BY AdvanceTypes DEF Advance
<1>4. InPlay' = InPlay
  BY DEF ApplyAncestry, InPlay
<1>5. HistoryIsWellFounded'
  BY <1>1, <1>2 DEF HistoryIsWellFounded, CreateChange, Sound
<1>6. \A d \in Ancestry' : d.id < ChangeCounter
  BY <1>1, <1>2 DEF IndexesAreFresh, CreateChange
<1>7. IndexesAreFresh'
  BY <1>4, <1>6 DEF ApplyAncestry, IndexesAreFresh
<1>8. PrimaryKey' /\ CountersStarted' /\ RootRowStays' /\ StageMatches'
  BY DEF ApplyAncestry, PrimaryKey, CountersStarted, RootRowStays, StageMatches
<1>9. MessagesAreSound' /\ ChangeOfOneFile'
  BY <1>4 DEF ApplyAncestry, MessagesAreSound, Sound, ChangeOfOneFile
<1> QED
  BY <1>3, <1>5, <1>7, <1>8, <1>9

\* A call of an operation keeps the invariant and leaves the tables alone.
LEMMA OperationStep ==
  ASSUME IInv, NEW t \in Threads, Operation(t)
  PROVE  IInv' /\ Files' = Files
<1>1. TypeOK /\ TypeOK'
  BY OperationTypes DEF IInv
<1>2. FileCounter \in Nat /\ ChangeCounter \in Nat /\ FileCounter > 0 /\ ChangeCounter > 0
  BY <1>1 DEF TypeOK, IInv, CountersStarted, Null
<1>3. /\ Files \subseteq ShareFile
      /\ \A r \in Files : r.id < FileCounter /\ r.change < ChangeCounter
  BY <1>1 DEF TypeOK, IInv, IndexesAreFresh
<1>4. ASSUME NEW path \in Paths, NEW isFile \in Kinds, NEW canWrite \in BOOLEAN,
             CreateDirectory(t, path, isFile, canWrite)
      PROVE  IInv' /\ Files' = Files
  <2>1. PICK parent \in Files :
          Transact(t, "Create",
                   [id |-> FileCounter, change |-> Null, parent |-> parent.id,
                    name |-> Last(path), isFile |-> isFile,
                    canWrite |-> canWrite, modified |-> SomeTime],
                   [id |-> FileCounter, change |-> Null, parent |-> parent.id,
                    name |-> Last(path), isFile |-> isFile,
                    canWrite |-> canWrite, modified |-> SomeTime])
    BY <1>4 DEF CreateDirectory
  <2> DEFINE new == [id |-> FileCounter, change |-> Null, parent |-> parent.id,
                     name |-> Last(path), isFile |-> isFile,
                     canWrite |-> canWrite, modified |-> SomeTime]
  <2>2. Last(path) \in Names
    BY <1>4, LastName DEF CreateDirectory
  <2>3. new \in ShareFile
    <3>1. SomeTime \in Times /\ isFile \in BOOLEAN
      BY TimesAssumption, KindsAssumption DEF SomeTime
    <3> QED
      BY <1>2, <1>3, <2>2, <3>1 DEF ShareFile, Null
  <2>4. Sound([op |-> "Create", file |-> new, new |-> new])
    BY <1>2, <2>2 DEF Sound, Updates, Null
  <2>5. /\ FileCounter' = FileCounter + 1 /\ ChangeCounter' = ChangeCounter
        /\ UNCHANGED <<Files, Ancestry, transactions>>
    BY <1>4 DEF CreateDirectory, TakeFileIndex
  <2>6. new.id < FileCounter' /\ new.change < ChangeCounter' /\ new.change = Null
    BY <1>2, <2>5 DEF Null
  <2>7. Transact(t, "Create", new, new)
    BY <2>1
  <2> HIDE DEF new
  <2>8. FileCounter' >= FileCounter /\ ChangeCounter' >= ChangeCounter
    BY <1>2, <2>5
  <2> QED
    BY <1>1, <2>3, <2>4, <2>5, <2>6, <2>7, <2>8, BeginStep DEF Operations
<1>5. ASSUME NEW op \in Updates, NEW file \in ShareFile, NEW new \in ShareFile,
             TakeChangeIndex, Transact(t, op, file, new),
             UNCHANGED <<Files, Ancestry, transactions>>,
             file.id < FileCounter, file.change < ChangeCounter,
             new.id = file.id, new.isFile = file.isFile, new.change = ChangeCounter,
             op = "Move" => file.id # Null /\ new.name \in Names
      PROVE  IInv' /\ Files' = Files
  <2>1. Sound([op |-> op, file |-> file, new |-> new])
    BY <1>5 DEF Sound, Updates
  <2>2. /\ FileCounter' >= FileCounter /\ ChangeCounter' >= ChangeCounter
        /\ new.id < FileCounter' /\ new.change < ChangeCounter' /\ new.change >= ChangeCounter
    BY <1>2, <1>5 DEF TakeChangeIndex
  <2> QED
    BY <1>1, <1>5, <2>1, <2>2, BeginStep DEF Operations
<1>6. ASSUME NEW path \in Paths, NEW file \in Located(path)
      PROVE  file \in ShareFile /\ file.id < FileCounter /\ file.change < ChangeCounter
  <2>1. SplitFile.id = 0 /\ SplitFile.change = 0
    BY DEF SplitFile, RootRow, Null
  <2> QED
    BY <1>2, <1>3, <2>1, PseudoFileTypes DEF Located, Entries
<1>7. ASSUME NEW path \in Paths, NEW canWrite \in BOOLEAN, SetPermissions(t, path, canWrite)
      PROVE  IInv' /\ Files' = Files
  <2>1. PICK file \in Located(path) :
          ChangeAttribute(t, "SetPermissions", file,
                          [file EXCEPT !.change = ChangeCounter, !.canWrite = canWrite])
    BY <1>7 DEF SetPermissions
  <2> DEFINE new == [file EXCEPT !.change = ChangeCounter, !.canWrite = canWrite]
  <2>2. /\ new \in ShareFile /\ new.id = file.id /\ new.isFile = file.isFile
        /\ new.change = ChangeCounter
    BY <1>2, <1>6 DEF ShareFile
  <2>3. /\ Transact(t, "SetPermissions", file, new) /\ TakeChangeIndex
        /\ UNCHANGED <<Files, Ancestry, transactions>>
    BY <2>1 DEF ChangeAttribute
  <2> HIDE DEF new
  <2> QED
    BY <1>5, <1>6, <2>2, <2>3 DEF Updates
<1>8. ASSUME NEW path \in Paths, NEW time \in Times, SetTimestamp(t, path, time)
      PROVE  IInv' /\ Files' = Files
  <2>1. PICK file \in Located(path) :
          ChangeAttribute(t, "SetTimestamp", file,
                          [file EXCEPT !.change = ChangeCounter, !.modified = time])
    BY <1>8 DEF SetTimestamp
  <2> DEFINE new == [file EXCEPT !.change = ChangeCounter, !.modified = time]
  <2>2. /\ new \in ShareFile /\ new.id = file.id /\ new.isFile = file.isFile
        /\ new.change = ChangeCounter
    BY <1>2, <1>6 DEF ShareFile
  <2>3. /\ Transact(t, "SetTimestamp", file, new) /\ TakeChangeIndex
        /\ UNCHANGED <<Files, Ancestry, transactions>>
    BY <2>1 DEF ChangeAttribute
  <2> HIDE DEF new
  <2> QED
    BY <1>5, <1>6, <2>2, <2>3 DEF Updates
<1>9. ASSUME NEW from \in Paths, NEW to \in Paths, Move(t, from, to)
      PROVE  IInv' /\ Files' = Files
  <2>1. PICK file \in Files, target \in Files, name \in Names :
          /\ Found(file) \in GetInternal(Files, from)
          /\ Transact(t, "Move", file,
                      [file EXCEPT !.change = ChangeCounter,
                                   !.parent = IF target.isFile THEN target.parent ELSE target.id,
                                   !.name = name])
    BY <1>9 DEF Move
  <2> DEFINE new == [file EXCEPT !.change = ChangeCounter,
                                 !.parent = IF target.isFile THEN target.parent ELSE target.id,
                                 !.name = name]
  <2>2. /\ new \in ShareFile /\ new.id = file.id /\ new.isFile = file.isFile
        /\ new.change = ChangeCounter /\ new.name = name
    BY <1>2, <1>3 DEF ShareFile
  <2>3. /\ Transact(t, "Move", file, new) /\ TakeChangeIndex
        /\ UNCHANGED <<Files, Ancestry, transactions>>
    BY <1>9, <2>1 DEF Move
  <2> HIDE DEF new
  <2>4. ~IsRootPath(from) /\ ~IsSplitPath(from)
    BY <1>9 DEF Move, MoveIsLegal
  <2>5. file.id # Null
    BY <2>1, <2>4, FoundByName, LastName, NamedIsNotRoot
  <2> QED
    BY <1>3, <1>5, <2>2, <2>3, <2>5 DEF Updates
<1>10. ASSUME NEW path \in Paths, BeginDelete(t, path),
              UNCHANGED <<Files, Ancestry, FileCounter, ChangeCounter, transactions>>
       PROVE  IInv' /\ Files' = Files
  <2>1. PICK file \in Entries : /\ Found(file) \in DeleteResults(Files, path)
                               /\ Transact(t, "Delete", file, file)
    BY <1>10 DEF BeginDelete
  <2>2. file \in Files /\ file.id # Null
    BY <2>1, DeletedByName, NamedIsNotRoot
  <2>3. Sound([op |-> "Delete", file |-> file, new |-> file])
    BY <2>2 DEF Sound, Updates
  <2>4. FileCounter' >= FileCounter /\ ChangeCounter' >= ChangeCounter
    BY <1>2, <1>10
  <2> QED
    BY <1>1, <1>3, <1>10, <2>1, <2>2, <2>3, <2>4, BeginStep DEF Operations
<1>11. ASSUME NEW path \in Paths, Delete(t, path)
       PROVE  IInv' /\ Files' = Files
  BY <1>10, <1>11 DEF Delete, database
<1>12. ASSUME UNCHANGED <<Files, Ancestry, transactions, pc, call>>,
              FileCounter' >= FileCounter, ChangeCounter' >= ChangeCounter
       PROVE  IInv' /\ Files' = Files
  <2>1. InPlay' \subseteq InPlay /\ StageMatches'
    BY <1>12 DEF InPlay, StageMatches, IInv
  <2> QED
    BY <1>1, <1>12, <2>1, QuietStep
<1>13. ASSUME NEW from \in Paths, NEW to \in Paths, MoveRefused(t, from, to)
       PROVE  IInv' /\ Files' = Files
  BY <1>2, <1>12, <1>13 DEF MoveRefused, TakeChangeIndex
<1>14. ASSUME DeleteMoveTarget(t)
       PROVE  IInv' /\ Files' = Files
  <2>1. deleteAfter[t] \subseteq Paths
    BY <1>1 DEF TypeOK
  <2> QED
    BY <1>2, <1>10, <1>12, <1>14, <2>1 DEF DeleteMoveTarget, database
<1> QED
  BY <1>4, <1>7, <1>8, <1>9, <1>11, <1>13, <1>14 DEF Operation

\* The steps that only work on files, or on the process, leave the tables alone:
\* they store the message under way or an older one, and forget others.
LEMMA OtherFrame ==
  ASSUME TypeOK,
         OpenRecord \/ ApplyFile \/ Close \/ Throw \/ OpenFails \/ Stop \/ Crash \/ Start \/ Recover
  PROVE  /\ Files' = Files /\ UNCHANGED <<Ancestry, FileCounter, ChangeCounter>>
         /\ InPlay' \subseteq InPlay
         /\ pc' # "ancestry"
<1>1. Files' = Files /\ UNCHANGED <<Ancestry, FileCounter, ChangeCounter>>
  BY DEF OpenRecord, ApplyFile, Close, Throw, OpenFails, Stop, Crash, Start, Recover,
         Halt, Replay, ReplayDies, Recovered, database
<1>2. pc' # "ancestry"
  BY DEF OpenRecord, ApplyFile, Close, Throw, OpenFails, Stop, Crash, Start, Recover,
         Halt, Replay, ReplayDies, Recovered
<1>3. \A t \in Threads : transactions[t] \subseteq InPlay
  BY DEF InPlay
<1>4. \A c \in call : c.msg \in InPlay /\ c.thread \in Threads
  BY DEF InPlay, TypeOK, Call
<1>5. \A t \in Threads : transactions'[t] \subseteq InPlay
  <2>1. CASE OpenRecord
    BY <1>3, <1>4, <2>1 DEF OpenRecord, TypeOK
  <2>2. CASE Close
    BY <1>3, <1>4, <2>2 DEF Close, TypeOK
  <2>3. CASE Throw
    BY <1>3, <1>4, <2>3 DEF Throw, TypeOK
  <2>4. CASE ApplyFile \/ OpenFails \/ Stop \/ Crash \/ Start \/ Recover
    BY <1>3, <2>4 DEF ApplyFile, OpenFails, Stop, Crash, Start, Recover,
                      Halt, Replay, ReplayDies, Recovered
  <2> QED
    BY <2>1, <2>2, <2>3, <2>4
<1>6. \A c \in call' : c.msg \in InPlay
  BY <1>3, <1>4 DEF OpenRecord, ApplyFile, Close, Throw, OpenFails, Stop, Crash, Start, Recover,
         Halt, Replay, ReplayDies, Recovered
<1>7. InPlay' \subseteq InPlay
  BY <1>5, <1>6 DEF InPlay
<1> QED
  BY <1>1, <1>2, <1>7

\* So they keep the invariant.
LEMMA OtherSteps ==
  ASSUME IInv,
         OpenRecord \/ ApplyFile \/ Close \/ Throw \/ OpenFails \/ Stop \/ Crash \/ Start \/ Recover
  PROVE  IInv' /\ Files' = Files
<1>1. TypeOK /\ TypeOK'
  BY AdvanceTypes, ProcessTypes DEF IInv, Advance
<1>2. /\ Files' = Files /\ UNCHANGED <<Ancestry, FileCounter, ChangeCounter>>
      /\ InPlay' \subseteq InPlay
      /\ pc' # "ancestry"
  BY <1>1, OtherFrame
<1>3. StageMatches'
  BY <1>2 DEF StageMatches
<1>4. FileCounter' >= FileCounter /\ ChangeCounter' >= ChangeCounter
  BY <1>1, <1>2 DEF TypeOK
<1> QED
  BY <1>1, <1>2, <1>3, <1>4, QuietStep

\* Every step keeps the invariant.
LEMMA NextInvariant == IInv /\ [Next]_vars => IInv'
<1> SUFFICES ASSUME IInv, [Next]_vars PROVE IInv'
  OBVIOUS
<1>1. CASE UNCHANGED vars
  <2>1. InPlay' = InPlay /\ StageMatches' /\ TypeOK'
    BY <1>1, NextTypes DEF vars, InPlay, StageMatches, IInv
  <2>2. FileCounter' >= FileCounter /\ ChangeCounter' >= ChangeCounter
    BY <1>1 DEF vars, IInv, TypeOK
  <2> QED
    BY <1>1, <2>1, <2>2, QuietStep DEF vars
<1>2. CASE Next
  BY <1>2, OperationStep, ApplyRowStep, ApplyAncestryStep, OtherSteps DEF Next, Advance
<1> QED
  BY <1>1, <1>2

\* The inductive invariant holds in every state of every behaviour.
THEOREM Invariant == Spec => []IInv
BY InitInvariant, NextInvariant, PTL DEF Spec

-----------------------------------------------------------------------------
(***************************************************************************)
(* The properties.                                                         *)
(***************************************************************************)

\* No index is given out twice, by any number of threads, through any sequence of
\* crashes, failures and replays.
THEOREM FreshIndexes == Spec => []IndexesAreFresh
BY Invariant, PTL DEF IInv

\* No two files, stored or about to be, carry the same change.
THEOREM OneFilePerChange == Spec => []ChangeOfOneFile
BY Invariant, PTL DEF IInv

\* The history of a file ends and is a single line.
THEOREM WellFoundedHistory == Spec => []HistoryIsWellFounded
BY Invariant, PTL DEF IInv

\* No call and no replay takes the root directory away, so the assertion of
\* GetInternal that it finds the root's row holds in every open share.
THEOREM RootRemains == Spec => []RootIsThere
<1>1. IInv => RootIsThere
  <2> SUFFICES ASSUME IInv PROVE RootIsThere
    OBVIOUS
  <2>1. PICK r \in Files : r.id = Null /\ r.parent = Null /\ r.name = RootName /\ ~r.isFile
    BY DEF IInv, RootRowStays
  <2>2. GetFile(Files, Null, RootName) = {r}
    BY <2>1 DEF GetFile, IInv, RootRowStays, PrimaryKey
  <2>3. GetRoot(Files) = {Found(r)}
    BY <2>2 DEF GetRoot
  <2>4. Cardinality(GetRoot(Files)) = 1
    BY <2>3, FS_Singleton
  <2>5. Found(r).file = r
    BY DEF Found
  <2> QED
    BY <2>1, <2>3, <2>4, <2>5 DEF RootIsThere
<1> QED
  BY <1>1, Invariant, PTL

\* A row only changes by moving to a later change, goes in a Delete that has read
\* it as it is, and comes at its first change, in operations and in replays.
THEOREM OnlyForward == Spec => RowsMoveForward
<1>1. IInv /\ [Next]_vars => [Forward]_vars
  <2> SUFFICES ASSUME IInv, Next PROVE Forward
    OBVIOUS
  <2>1. ApplyRow \/ Files' = Files
    BY OperationStep, OtherSteps DEF Next, Advance, ApplyAncestry
  <2>2. Files' = Files => Forward
    BY DEF Forward, IInv, PrimaryKey
  <2> QED
    BY <2>1, <2>2, ApplyRowForward
<1> QED
  BY <1>1, Invariant, PTL DEF Spec, RowsMoveForward, Forward

-----------------------------------------------------------------------------
(***************************************************************************)
(* An operation that returns OK has taken effect.  Its statement meets     *)
(* what its lookup found because nothing changes "Files" in between: the   *)
(* thread holds Mutex.                                                     *)
(***************************************************************************)

\* The statement of the message will do what it is for.
Applicable(m) ==
  /\ m.op = "Create" => (\A r \in Files : r.id # m.file.id) /\ m.new = m.file
  /\ m.op = "Delete" => m.file \in Files
  /\ m.op \in Updates => /\ m.file \in Files \/ m.file = SplitFile
                         /\ m.new = Updated(m.file, m)

LookupsHold ==
  \A c \in call : \/ c.replay
                  \/ IF pc \in {"open", "row"} THEN Applicable(c.msg) ELSE Effect(c.msg)

\* A call that starts with an applicable message.
LEMMA BeginHolds ==
  ASSUME NEW t \in Threads, NEW op, NEW file, NEW new,
         Transact(t, op, file, new), Files' = Files,
         Applicable([op |-> op, file |-> file, new |-> new])
  PROVE  LookupsHold'
<1> DEFINE m == [op |-> op, file |-> file, new |-> new]
<1>1. Applicable(m)'
  BY DEF Applicable
<1>2. pc' = "open" /\ \A c \in call' : c.msg = m
  BY DEF Transact
<1> HIDE DEF m
<1> QED
  BY <1>1, <1>2 DEF LookupsHold

\* The message an operation makes is applicable.
LEMMA OperationHolds ==
  ASSUME IInv, LookupsHold, NEW t \in Threads, Operation(t)
  PROVE  LookupsHold'
<1>1. Files' = Files
  BY OperationStep
<1>2. TypeOK /\ IndexesAreFresh
  BY DEF IInv
<1>3. ASSUME NEW path \in Paths, NEW isFile \in Kinds, NEW canWrite \in BOOLEAN,
             CreateDirectory(t, path, isFile, canWrite)
      PROVE  LookupsHold'
  <2>1. PICK parent \in Files :
          Transact(t, "Create",
                   [id |-> FileCounter, change |-> Null, parent |-> parent.id,
                    name |-> Last(path), isFile |-> isFile,
                    canWrite |-> canWrite, modified |-> SomeTime],
                   [id |-> FileCounter, change |-> Null, parent |-> parent.id,
                    name |-> Last(path), isFile |-> isFile,
                    canWrite |-> canWrite, modified |-> SomeTime])
    BY <1>3 DEF CreateDirectory
  <2> DEFINE new == [id |-> FileCounter, change |-> Null, parent |-> parent.id,
                     name |-> Last(path), isFile |-> isFile,
                     canWrite |-> canWrite, modified |-> SomeTime]
  <2>2. Transact(t, "Create", new, new) /\ new.id = FileCounter
    BY <2>1
  <2> HIDE DEF new
  <2>3. \A r \in Files : r.id # new.id
    BY <1>2, <2>2 DEF TypeOK, IndexesAreFresh, ShareFile
  <2>4. Applicable([op |-> "Create", file |-> new, new |-> new])
    BY <2>3 DEF Applicable, Updates
  <2> QED
    BY <1>1, <2>2, <2>4, BeginHolds
<1>4. ASSUME NEW op \in Updates, NEW file \in Entries, NEW new,
             Transact(t, op, file, new),
             new = Updated(file, [op |-> op, file |-> file, new |-> new])
      PROVE  LookupsHold'
  <2>1. Applicable([op |-> op, file |-> file, new |-> new])
    BY <1>4 DEF Applicable, Updates, Entries
  <2> QED
    BY <1>1, <1>4, <2>1, BeginHolds
<1>5. \A file \in Entries : file \in ShareFile /\ IsCurrent(file, file)
  BY <1>2, PseudoFileTypes DEF TypeOK, Entries, IsCurrent
<1>6. ASSUME NEW path \in Paths, NEW canWrite \in BOOLEAN, SetPermissions(t, path, canWrite)
      PROVE  LookupsHold'
  <2>1. PICK file \in Entries :
          Transact(t, "SetPermissions", file,
                   [file EXCEPT !.change = ChangeCounter, !.canWrite = canWrite])
    BY <1>6 DEF SetPermissions, Located, ChangeAttribute
  <2> DEFINE new == [file EXCEPT !.change = ChangeCounter, !.canWrite = canWrite]
  <2>2. new = Updated(file, [op |-> "SetPermissions", file |-> file, new |-> new])
    BY <1>5 DEF Updated, ShareFile
  <2> HIDE DEF new
  <2> QED
    BY <1>4, <2>1, <2>2 DEF Updates, new
<1>7. ASSUME NEW path \in Paths, NEW time \in Times, SetTimestamp(t, path, time)
      PROVE  LookupsHold'
  <2>1. PICK file \in Entries :
          Transact(t, "SetTimestamp", file,
                   [file EXCEPT !.change = ChangeCounter, !.modified = time])
    BY <1>7 DEF SetTimestamp, Located, ChangeAttribute
  <2> DEFINE new == [file EXCEPT !.change = ChangeCounter, !.modified = time]
  <2>2. new = Updated(file, [op |-> "SetTimestamp", file |-> file, new |-> new])
    BY <1>5 DEF Updated, ShareFile
  <2> HIDE DEF new
  <2> QED
    BY <1>4, <2>1, <2>2 DEF Updates, new
<1>8. ASSUME NEW from \in Paths, NEW to \in Paths, Move(t, from, to)
      PROVE  LookupsHold'
  <2>1. PICK file \in Files, target \in Files, name \in Names :
          Transact(t, "Move", file,
                   [file EXCEPT !.change = ChangeCounter,
                                !.parent = IF target.isFile THEN target.parent ELSE target.id,
                                !.name = name])
    BY <1>8 DEF Move
  <2> DEFINE new == [file EXCEPT !.change = ChangeCounter,
                                 !.parent = IF target.isFile THEN target.parent ELSE target.id,
                                 !.name = name]
  <2>2. file \in Entries
    BY DEF Entries
  <2>3. new = Updated(file, [op |-> "Move", file |-> file, new |-> new])
    BY <1>5, <2>2 DEF Updated, ShareFile
  <2>4. Transact(t, "Move", file, new)
    BY <2>1
  <2> HIDE DEF new
  <2> QED
    BY <1>4, <2>2, <2>3, <2>4 DEF Updates
<1>9. ASSUME NEW path \in Paths, BeginDelete(t, path)
      PROVE  LookupsHold'
  <2>1. PICK file \in Entries : /\ Found(file) \in DeleteResults(Files, path)
                               /\ Transact(t, "Delete", file, file)
    BY <1>9 DEF BeginDelete
  <2>2. Applicable([op |-> "Delete", file |-> file, new |-> file])
    BY <2>1, DeletedByName DEF Applicable, Updates
  <2> QED
    BY <1>1, <2>1, <2>2, BeginHolds
<1>10. ASSUME UNCHANGED <<pc, call>> PROVE LookupsHold'
  BY <1>1, <1>10 DEF LookupsHold, Applicable, Effect
<1>11. deleteAfter[t] \subseteq Paths
  BY <1>2 DEF TypeOK
<1> QED
  BY <1>3, <1>6, <1>7, <1>8, <1>9, <1>10, <1>11
     DEF Operation, Delete, MoveRefused, DeleteMoveTarget

\* The statement on "Files" has the effect of an applicable message.
LEMMA ApplyRowHolds ==
  ASSUME IInv, LookupsHold, ApplyRow
  PROVE  LookupsHold'
<1>1. PICK c \in call :
           \/ /\ c.msg.op = "Create"
              /\ \E time \in Times : Files' = CreateRow(Files, [c.msg.file EXCEPT !.modified = time])
           \/ c.msg.op = "Delete" /\ Files' = DeleteRow(Files, c.msg.file)
           \/ c.msg.op \in Updates /\ Files' = UpdatedTable(Files, c.msg)
  BY AppliedRow DEF IInv
<1>2. /\ c.msg \in Message /\ pc = "row" /\ call' = call /\ \A d \in call : d = c
      /\ pc' \in {"ancestry", "file"}
  BY DEF IInv, TypeOK, Call, AtMostOne, ApplyRow
<1>3. ASSUME ~c.replay PROVE Effect(c.msg)'
  <2>1. Applicable(c.msg)
    BY <1>2, <1>3 DEF LookupsHold
  <2>2. CASE c.msg.op = "Create"
    <3>1. PICK time \in Times : Files' = CreateRow(Files, [c.msg.file EXCEPT !.modified = time])
      BY <1>1, <2>2 DEF Updates
    <3>2. [c.msg.file EXCEPT !.modified = time].id = c.msg.file.id
      BY <1>2 DEF Message, ShareFile
    <3>3. [c.msg.new EXCEPT !.modified = time] \in Files'
      BY <2>1, <2>2, <3>1, <3>2 DEF Applicable, CreateRow
    <3> QED
      BY <2>2, <3>3 DEF Effect
  <2>3. CASE c.msg.op = "Delete"
    BY <1>1, <2>1, <2>3 DEF Applicable, Effect, Updates, DeleteRow, IsCurrent, IInv, PrimaryKey
  <2>4. CASE c.msg.op \in Updates
    <3>1. Files' = {Updated(r, c.msg) : r \in Files}
      BY <1>1, <1>2, <2>4, UpdatedRows DEF Updates, IInv, TypeOK
    <3>2. c.msg.new \in Files' \/ c.msg.file = SplitFile
      BY <2>1, <2>4, <3>1 DEF Applicable
    <3> QED
      BY <2>4, <3>2 DEF Effect
  <2> QED
    BY <1>2, <2>2, <2>3, <2>4 DEF Message, Operations
<1> QED
  BY <1>2, <1>3 DEF LookupsHold

\* Every step keeps what the lookups found, or what came of it.
LEMMA NextHolds == IInv /\ LookupsHold /\ [Next]_vars => LookupsHold'
<1> SUFFICES ASSUME IInv, LookupsHold, [Next]_vars PROVE LookupsHold'
  OBVIOUS
<1>1. CASE UNCHANGED vars
  BY <1>1 DEF vars, LookupsHold, Applicable, Effect
<1>2. CASE OpenRecord
  BY <1>2 DEF OpenRecord, database, LookupsHold, Applicable, Effect
<1>3. CASE ApplyAncestry
  BY <1>3 DEF ApplyAncestry, LookupsHold, Applicable, Effect
<1>4. CASE ApplyFile
  BY <1>4 DEF ApplyFile, database, LookupsHold, Applicable, Effect
<1>5. CASE Close \/ Throw \/ OpenFails \/ Stop \/ Crash
  BY <1>5 DEF Close, Throw, OpenFails, Stop, Crash, Halt, LookupsHold
<1>6. CASE Start \/ Recover
  <2>1. \A c \in call' : c.replay
    BY <1>6 DEF Start, Recover, Recovered, Replay, ReplayDies, Halt, IInv, TypeOK, Stages
  <2> QED
    BY <2>1 DEF LookupsHold
<1> QED
  BY <1>1, <1>2, <1>3, <1>4, <1>5, <1>6, OperationHolds, ApplyRowHolds DEF Next, Advance

\* An operation returns OK only when its row is there, in the version it asked
\* for, or, after Delete, gone.
THEOREM Effective == Spec => []OKMeansDone
<1>1. Init => LookupsHold
  BY DEF Init, LookupsHold
<1>2. LookupsHold => OKMeansDone
  BY DEF LookupsHold, OKMeansDone
<1> QED
  BY <1>1, <1>2, Invariant, NextHolds, PTL DEF Spec

-----------------------------------------------------------------------------
(***************************************************************************)
(* Crashes, exceptions and recovery: what is left of an interrupted        *)
(* transaction, that its message is kept, that recovery completes it, and  *)
(* that the transaction files are used as Transactor says.                 *)
(***************************************************************************)

\* The message made r what it is, or would.
IsAbout(m, r) == m.new.id = r.id /\ m.new.change = r.change

Recorded(r) == r.change # Null => \E c \in Ancestry : c.id = r.change

Stored(r) == r.isFile => InternalFilename(r) \in backing

Whole(r) == Recorded(r) /\ Stored(r)

(***************************************************************************)
(* How far the transaction under way has come.  This holds whatever the    *)
(* faults are.                                                             *)
(***************************************************************************)

\* A file stays a file and a directory a directory.
KindsAgree ==
  \A r, s \in Files \cup {m.new : m \in InPlay} : r.id = s.id => r.isFile = s.isFile

\* After its statement on "Files", no row is in the version the message replaces
\* or deletes.
Outdated ==
  pc \in {"ancestry", "file", "close"} =>
    \A c \in call : c.msg.op # "Create" => \A r \in Files : ~IsCurrent(r, c.msg.file)

RecordMade ==
  pc \in {"file", "close"} =>
    \A c \in call : c.msg.op \in Updates => \E d \in Ancestry : d.id = c.msg.new.change

FileMade ==
  pc = "close" => \A c \in call : \A r \in Files : IsAbout(c.msg, r) => Stored(r)

\* What the thread's transaction file can hold while its message is worked on.
OwnRecord ==
  \A c \in call :
    IF pc = "open" THEN ~c.replay
    ELSE IF c.replay THEN c.msg \in transactions[c.thread]
    ELSE transactions[c.thread] \subseteq {c.msg}

CountersBounded == FileCounter <= MaxFile + 1 /\ ChangeCounter <= MaxChange + 1

Progress ==
  /\ KindsAgree /\ Outdated /\ RecordMade /\ FileMade /\ OwnRecord
  /\ CountersBounded

-----------------------------------------------------------------------------
\* There is one transaction under way, and its message is well typed and sound.
LEMMA TheCall ==
  ASSUME IInv, NEW c \in call
  PROVE  /\ call = {c} /\ c.thread \in Threads /\ c.replay \in BOOLEAN
         /\ c.msg \in Message /\ c.msg \in InPlay /\ Sound(c.msg)
         /\ pc \in Stages
<1>1. call = {c}
  BY DEF IInv, TypeOK, AtMostOne
<1>2. c.thread \in Threads /\ c.replay \in BOOLEAN /\ c.msg \in Message
  BY DEF IInv, TypeOK, Call
<1>3. c.msg \in InPlay /\ Sound(c.msg)
  BY DEF InPlay, IInv, MessagesAreSound
<1>4. pc \in Stages
  BY DEF IInv, TypeOK
<1> QED
  BY <1>1, <1>2, <1>3, <1>4

\* What a lookup returns is well typed.
LEMMA EntryTypes ==
  ASSUME IInv, NEW file \in Entries
  PROVE  file \in ShareFile
BY PseudoFileTypes DEF IInv, TypeOK, Entries

\* The message of a transaction that an operation starts.
Begins(t, m) ==
  /\ pc' = "open"
  /\ call' = {[thread |-> t, msg |-> m, replay |-> FALSE]}
  /\ IF m.op = "Create" THEN m.file.id = FileCounter ELSE m.file \in Entries
  /\ m.op \in Updates => m.new.change = ChangeCounter

\* A call of an operation changes neither the tables nor the files: at most it
\* takes an index and starts a transaction.
LEMMA OperationFrame ==
  ASSUME IInv, NEW t \in Threads, Operation(t)
  PROVE  /\ pc = "idle" /\ call = {}
         /\ UNCHANGED <<Files, Ancestry, backing, transactions>>
         /\ FileCounter' = FileCounter \/ FileCounter' \in (FileCounter + 1) .. MaxFile
         /\ ChangeCounter' = ChangeCounter \/ ChangeCounter' \in (ChangeCounter + 1) .. MaxChange
         /\ UNCHANGED <<pc, call>> \/ \E m : Begins(t, m)
<1>1. FileCounter \in Nat /\ ChangeCounter \in Nat /\ (pc = "idle" => call = {})
  BY DEF IInv, TypeOK, Stages
<1>2. MaxFile \in Nat /\ MaxChange \in Nat
  BY BoundsAssumption
<1>3. ASSUME NEW op, NEW file, NEW new, Transact(t, op, file, new),
             IF op = "Create" THEN file.id = FileCounter ELSE file \in Entries,
             op \in Updates => new.change = ChangeCounter
      PROVE  \E m : Begins(t, m)
  <2> DEFINE m == [op |-> op, file |-> file, new |-> new]
  <2>1. Begins(t, m)
    BY <1>3 DEF Begins, Transact
  <2> QED
    BY <2>1
<1>4. ASSUME NEW path \in Paths, NEW isFile \in Kinds, NEW canWrite \in BOOLEAN,
             CreateDirectory(t, path, isFile, canWrite)
      PROVE  /\ pc = "idle" /\ UNCHANGED <<Files, Ancestry, backing, transactions, ChangeCounter>>
             /\ FileCounter' \in (FileCounter + 1) .. MaxFile
             /\ \E m : Begins(t, m)
  <2>1. PICK parent \in Files :
          Transact(t, "Create",
                   [id |-> FileCounter, change |-> Null, parent |-> parent.id,
                    name |-> Last(path), isFile |-> isFile,
                    canWrite |-> canWrite, modified |-> SomeTime],
                   [id |-> FileCounter, change |-> Null, parent |-> parent.id,
                    name |-> Last(path), isFile |-> isFile,
                    canWrite |-> canWrite, modified |-> SomeTime])
    BY <1>4 DEF CreateDirectory
  <2>2. \E m : Begins(t, m)
    BY <1>3, <2>1 DEF Updates
  <2> QED
    BY <1>1, <1>2, <1>4, <2>2 DEF CreateDirectory, TakeFileIndex, Ready
<1>5. ASSUME NEW op \in Updates, NEW file \in Entries, NEW new, TakeChangeIndex,
             Transact(t, op, file, new), new.change = ChangeCounter
      PROVE  /\ UNCHANGED FileCounter /\ ChangeCounter' \in (ChangeCounter + 1) .. MaxChange
             /\ \E m : Begins(t, m)
  <2>1. \E m : Begins(t, m)
    BY <1>3, <1>5 DEF Updates
  <2> QED
    BY <1>1, <1>2, <1>5, <2>1 DEF TakeChangeIndex
<1>6. ASSUME NEW path \in Paths, NEW op \in Updates, NEW file \in Located(path), NEW new,
             ChangeAttribute(t, op, file, new), new.change = ChangeCounter
      PROVE  /\ pc = "idle" /\ UNCHANGED <<Files, Ancestry, backing, transactions, FileCounter>>
             /\ ChangeCounter' \in (ChangeCounter + 1) .. MaxChange
             /\ \E m : Begins(t, m)
  BY <1>5, <1>6 DEF ChangeAttribute, Located, Ready
<1>7. ASSUME NEW path \in Paths, NEW canWrite \in BOOLEAN, SetPermissions(t, path, canWrite)
      PROVE  /\ pc = "idle" /\ UNCHANGED <<Files, Ancestry, backing, transactions, FileCounter>>
             /\ ChangeCounter' \in (ChangeCounter + 1) .. MaxChange
             /\ \E m : Begins(t, m)
  <2>1. PICK file \in Located(path) :
          ChangeAttribute(t, "SetPermissions", file,
                          [file EXCEPT !.change = ChangeCounter, !.canWrite = canWrite])
    BY <1>7 DEF SetPermissions
  <2>2. [file EXCEPT !.change = ChangeCounter, !.canWrite = canWrite].change = ChangeCounter
    BY EntryTypes DEF Located, ShareFile
  <2> QED
    BY <1>6, <2>1, <2>2 DEF Updates
<1>8. ASSUME NEW path \in Paths, NEW time \in Times, SetTimestamp(t, path, time)
      PROVE  /\ pc = "idle" /\ UNCHANGED <<Files, Ancestry, backing, transactions, FileCounter>>
             /\ ChangeCounter' \in (ChangeCounter + 1) .. MaxChange
             /\ \E m : Begins(t, m)
  <2>1. PICK file \in Located(path) :
          ChangeAttribute(t, "SetTimestamp", file,
                          [file EXCEPT !.change = ChangeCounter, !.modified = time])
    BY <1>8 DEF SetTimestamp
  <2>2. [file EXCEPT !.change = ChangeCounter, !.modified = time].change = ChangeCounter
    BY EntryTypes DEF Located, ShareFile
  <2> QED
    BY <1>6, <2>1, <2>2 DEF Updates
<1>9. ASSUME NEW from \in Paths, NEW to \in Paths, Move(t, from, to)
      PROVE  /\ pc = "idle" /\ UNCHANGED <<Files, Ancestry, backing, transactions, FileCounter>>
             /\ ChangeCounter' \in (ChangeCounter + 1) .. MaxChange
             /\ \E m : Begins(t, m)
  <2>1. PICK file \in Files, target \in Files, name \in Names :
          Transact(t, "Move", file,
                   [file EXCEPT !.change = ChangeCounter,
                                !.parent = IF target.isFile THEN target.parent ELSE target.id,
                                !.name = name])
    BY <1>9 DEF Move
  <2>2. file \in Entries /\ TakeChangeIndex
    BY <1>9 DEF Entries, Move
  <2>3. [file EXCEPT !.change = ChangeCounter,
                     !.parent = IF target.isFile THEN target.parent ELSE target.id,
                     !.name = name].change = ChangeCounter
    BY <2>2, EntryTypes DEF ShareFile
  <2> QED
    BY <1>5, <1>9, <2>1, <2>2, <2>3 DEF Move, Ready, Updates
<1>10. ASSUME NEW path \in Paths, BeginDelete(t, path)
       PROVE  \E m : Begins(t, m)
  BY <1>3, <1>10 DEF BeginDelete, Updates
<1>11. ASSUME NEW path \in Paths, Delete(t, path)
       PROVE  /\ pc = "idle" /\ UNCHANGED <<database, backing, transactions>>
              /\ \E m : Begins(t, m)
  BY <1>10, <1>11 DEF Delete, Ready
<1>12. ASSUME NEW from \in Paths, NEW to \in Paths, MoveRefused(t, from, to)
       PROVE  /\ pc = "idle"
              /\ UNCHANGED <<Files, Ancestry, backing, transactions, FileCounter, pc, call>>
              /\ ChangeCounter' \in (ChangeCounter + 1) .. MaxChange
  BY <1>1, <1>2, <1>12 DEF MoveRefused, Ready, TakeChangeIndex
<1>13. ASSUME DeleteMoveTarget(t)
       PROVE  /\ pc = "idle" /\ UNCHANGED <<database, backing, transactions>>
              /\ UNCHANGED <<pc, call>> \/ \E m : Begins(t, m)
  <2>1. deleteAfter[t] \subseteq Paths
    BY DEF IInv, TypeOK
  <2> QED
    BY <1>10, <1>13, <2>1 DEF DeleteMoveTarget
<1> QED
  BY <1>1, <1>4, <1>7, <1>8, <1>9, <1>11, <1>12, <1>13 DEF Operation, database

-----------------------------------------------------------------------------
\* Where the rows come from that the statement of message m leaves.
LEMMA RowOrigin ==
  ASSUME IInv, ApplyRow, NEW c \in call
  PROVE  /\ \A s \in Files' :
              \/ s \in Files
              \/ /\ c.msg.op \in Updates
                 /\ \E r \in Files : IsCurrent(r, c.msg.file) /\ s = Updated(r, c.msg)
              \/ /\ c.msg.op = "Create" /\ \A r \in Files : r.id # s.id
                 /\ \E time \in Times : s = [c.msg.file EXCEPT !.modified = time]
         /\ c.msg.op # "Create" => \A s \in Files' : ~IsCurrent(s, c.msg.file)
         /\ \A s \in Files' : s \in Files \/ IsAbout(c.msg, s)
         /\ \A s \in Files' : s \in Files \/ s.isFile = c.msg.new.isFile \/
                              \E r \in Files : r.id = s.id /\ r.isFile = s.isFile
<1>1. /\ call = {c} /\ c.msg \in Message /\ Sound(c.msg)
  BY TheCall
<1>2. \/ /\ c.msg.op = "Create"
         /\ \E time \in Times : Files' = CreateRow(Files, [c.msg.file EXCEPT !.modified = time])
      \/ c.msg.op = "Delete" /\ Files' = DeleteRow(Files, c.msg.file)
      \/ c.msg.op \in Updates /\ Files' = UpdatedTable(Files, c.msg)
  BY <1>1, AppliedRow DEF IInv
<1>3. CASE c.msg.op = "Create"
  <2>1. PICK time \in Times : Files' = CreateRow(Files, [c.msg.file EXCEPT !.modified = time])
    BY <1>2, <1>3 DEF Updates
  <2> DEFINE new == [c.msg.file EXCEPT !.modified = time]
  <2>2. /\ new.id = c.msg.new.id /\ new.change = c.msg.new.change
        /\ new.isFile = c.msg.new.isFile
    BY <1>1, <1>3 DEF Sound, Message, ShareFile
  <2>3. \A s \in Files' : s \in Files \/ (s = new /\ \A r \in Files : r.id # new.id)
    BY <2>1 DEF CreateRow
  <2>4. \A s \in Files' :
          s \in Files \/ ((\A r \in Files : r.id # s.id)
                          /\ \E u \in Times : s = [c.msg.file EXCEPT !.modified = u])
    BY <2>3
  <2> HIDE DEF new
  <2> QED
    BY <1>3, <2>2, <2>3, <2>4 DEF IsAbout
<1>4. CASE c.msg.op = "Delete"
  BY <1>2, <1>4 DEF DeleteRow, Updates
<1>5. CASE c.msg.op \in Updates
  <2>1. /\ Files' = {Updated(r, c.msg) : r \in Files}
        /\ \A r \in Files : Version(r, Updated(r, c.msg), c.msg)
    BY <1>1, <1>2, <1>5, UpdatedRows DEF IInv, TypeOK, Updates
  <2>2. \A r \in Files : \/ ~IsCurrent(r, c.msg.file) /\ Updated(r, c.msg) = r
                         \/ /\ IsCurrent(r, c.msg.file)
                            /\ Updated(r, c.msg).id = r.id
                            /\ Updated(r, c.msg).isFile = r.isFile
                            /\ Updated(r, c.msg).change = c.msg.new.change
    <3>1. \A r \in Files : r \in ShareFile
      BY DEF IInv, TypeOK
    <3> QED
      BY <1>5, <3>1 DEF Updated, Updates, ShareFile
  <2>3. c.msg.new.change # c.msg.file.change /\ c.msg.new.id = c.msg.file.id
    BY <1>1, <1>5 DEF Sound, Message, ShareFile
  <2>4. ASSUME NEW s \in Files'
        PROVE  \/ s \in Files /\ ~IsCurrent(s, c.msg.file)
               \/ \E r \in Files : /\ IsCurrent(r, c.msg.file) /\ s = Updated(r, c.msg)
                                   /\ s.id = r.id /\ s.isFile = r.isFile
                                   /\ s.change = c.msg.new.change
    BY <2>1, <2>2
  <2>5. \A s \in Files' : ~IsCurrent(s, c.msg.file)
    BY <2>3, <2>4 DEF IsCurrent
  <2>6. \A s \in Files' : s \in Files \/ IsAbout(c.msg, s)
    BY <2>3, <2>4 DEF IsCurrent, IsAbout
  <2> QED
    BY <1>5, <2>4, <2>5, <2>6
<1> QED
  BY <1>2, <1>3, <1>4, <1>5

-----------------------------------------------------------------------------
(***************************************************************************)
(* Progress is an invariant.                                               *)
(***************************************************************************)

\* No step makes a file of a directory.
LEMMA KindsNext ==
  ASSUME IInv, KindsAgree, IInv', [Next]_vars
  PROVE  KindsAgree'
<1> DEFINE Versions == Files \cup {m.new : m \in InPlay}
<1>1. \A r, s \in Versions : r.id = s.id => r.isFile = s.isFile
  BY DEF KindsAgree
<1>2. Files \subseteq Versions /\ \A m \in InPlay : m.new \in Versions
  OBVIOUS
<1>3. \A s \in Versions' : s \in Files' \/ \E m \in InPlay' : s = m.new
  OBVIOUS
<1>4. \A r \in Versions : r \in ShareFile /\ r.id < FileCounter
  <2>1. \A m \in InPlay : m.new \in ShareFile /\ m.new.id < FileCounter
    BY DEF IInv, TypeOK, IndexesAreFresh, InPlay, Call, Message
  <2>2. \A r \in Files : r \in ShareFile /\ r.id < FileCounter
    BY DEF IInv, TypeOK, IndexesAreFresh
  <2> QED
    BY <2>1, <2>2
<1>5. SUFFICES \A s \in Versions' : s \in Versions
                  \/ (\E r \in Versions : s.id = r.id /\ s.isFile = r.isFile)
                  \/ ((\A r \in Versions : r.id # s.id)
                         /\ \A u \in Versions' : u \in Versions \/ u = s)
  BY <1>1 DEF KindsAgree
<1> HIDE DEF Versions
<1>6. CASE ApplyRow
  <2>1. InPlay' = InPlay
    BY <1>6 DEF ApplyRow, InPlay
  <2>2. PICK c \in call : TRUE
    BY <1>6 DEF ApplyRow
  <2>3. c.msg \in InPlay /\ c.msg.new \in Versions
    BY <1>2, TheCall
  <2>4. \A s \in Files' : \/ s \in Files
                          \/ s.id = c.msg.new.id /\ s.isFile = c.msg.new.isFile
                          \/ \E r \in Files : r.id = s.id /\ r.isFile = s.isFile
    <3>1. \A s \in Files' : s \in Files \/ IsAbout(c.msg, s)
      BY <1>6, RowOrigin
    <3>2. \A s \in Files' : s \in Files \/ s.isFile = c.msg.new.isFile \/
                              \E r \in Files : r.id = s.id /\ r.isFile = s.isFile
      BY <1>6, RowOrigin
    <3> QED
      BY <3>1, <3>2 DEF IsAbout
  <2> QED
    BY <1>2, <1>3, <2>1, <2>3, <2>4
<1>7. ASSUME NEW t \in Threads, Operation(t)
      PROVE  \A s \in Versions' : s \in Versions
                  \/ (\E r \in Versions : s.id = r.id /\ s.isFile = r.isFile)
                  \/ ((\A r \in Versions : r.id # s.id)
                         /\ \A u \in Versions' : u \in Versions \/ u = s)
  <2>1. /\ UNCHANGED <<Files, transactions>>
        /\ UNCHANGED <<pc, call>> \/ \E m : Begins(t, m)
    BY <1>7, OperationFrame
  <2>2. CASE UNCHANGED <<pc, call>>
    BY <1>2, <1>3, <2>1, <2>2 DEF InPlay
  <2>3. ASSUME NEW m, Begins(t, m)
        PROVE  \A s \in Versions' : s \in Versions
                  \/ (\E r \in Versions : s.id = r.id /\ s.isFile = r.isFile)
                  \/ ((\A r \in Versions : r.id # s.id)
                         /\ \A u \in Versions' : u \in Versions \/ u = s)
    <3>1. InPlay' \subseteq InPlay \cup {m} /\ m \in InPlay'
      BY <2>1, <2>3 DEF InPlay, Begins
    <3>2. Sound(m)
      BY <3>1 DEF IInv, MessagesAreSound, Sound
    <3>3. \A s \in Versions' : s \in Versions \/ s = m.new
      BY <1>2, <1>3, <2>1, <3>1
    <3>4. CASE m.op = "Create"
      <4>1. m.new.id = FileCounter
        BY <2>3, <3>2, <3>4 DEF Begins, Sound
      <4>2. \A r \in Versions : r.id # FileCounter
        BY <1>4 DEF IInv, TypeOK, ShareFile
      <4> QED
        BY <3>3, <4>1, <4>2
    <3>5. CASE m.op # "Create"
      <4>1. m.new.id = m.file.id /\ m.new.isFile = m.file.isFile /\ m.file \in Entries
        BY <2>3, <3>2, <3>5 DEF Begins, Sound
      <4>2. PICK r \in Files : r.id = Null /\ ~r.isFile
        BY DEF IInv, RootRowStays
      <4>3. SplitFile.id = Null /\ SplitFile.isFile = FALSE
        BY DEF SplitFile, RootRow
      <4>4. r.isFile = FALSE
        BY <4>2 DEF IInv, TypeOK, ShareFile
      <4>5. \E u \in Files : u.id = m.new.id /\ u.isFile = m.new.isFile
        BY <4>1, <4>2, <4>3, <4>4 DEF Entries
      <4> QED
        BY <1>2, <3>3, <4>5
    <3> QED
      BY <3>4, <3>5
  <2> QED
    BY <2>1, <2>2, <2>3
<1>8. CASE ApplyAncestry \/ UNCHANGED vars
  BY <1>2, <1>3, <1>8 DEF ApplyAncestry, vars, InPlay
<1>9. CASE OpenRecord \/ ApplyFile \/ Close \/ Throw \/ OpenFails \/ Stop \/ Crash \/ Start \/ Recover
  <2>1. Files' = Files /\ InPlay' \subseteq InPlay
    BY <1>9, OtherFrame DEF IInv
  <2> QED
    BY <1>2, <1>3, <2>1
<1> QED
  BY <1>6, <1>7, <1>8, <1>9 DEF Next, Advance

\* What the step on the backing file leaves of the rows: those it leaves alone keep
\* their file, and the one the message is about has its own.
LEMMA ApplyFileStores ==
  ASSUME IInv, Progress, ApplyFile, NEW c \in call, NEW r \in Files
  PROVE  /\ IsAbout(c.msg, r) => Stored(r)'
         /\ Stored(r) => Stored(r)'
<1>1. pc = "file" /\ Files' = Files
  BY DEF ApplyFile, database
<1>2. call = {c} /\ c.msg \in Message /\ c.msg \in InPlay /\ Sound(c.msg)
  BY TheCall
<1>3. backing' = Backed(c.msg)
  BY <1>2 DEF ApplyFile
<1>4. c.msg.op # "Create" => ~IsCurrent(r, c.msg.file)
  BY <1>1 DEF Progress, Outdated
<1>5. ASSUME IsAbout(c.msg, r) PROVE Stored(r)'
  <2>1. r.isFile = c.msg.new.isFile /\ c.msg.new.isFile = c.msg.file.isFile
    BY <1>2, <1>5 DEF Progress, KindsAgree, IsAbout, Sound
  <2>2. c.msg.op # "Delete"
    BY <1>2, <1>4, <1>5 DEF IsAbout, IsCurrent, Sound
  <2>3. InternalFilename(r) = InternalFilename(c.msg.new)
    BY <1>5 DEF IsAbout, InternalFilename
  <2>4. c.msg.op = "Create" => c.msg.new = c.msg.file
    BY <1>2 DEF Sound
  <2> QED
    BY <1>3, <2>1, <2>2, <2>3, <2>4 DEF Backed, Stored
<1>6. ASSUME Stored(r) PROVE Stored(r)'
  <2>1. c.msg.op # "Create" => InternalFilename(r) # InternalFilename(c.msg.file)
    BY <1>4 DEF IsCurrent, InternalFilename
  <2> QED
    BY <1>3, <1>6, <2>1 DEF Backed, Stored
<1> QED
  BY <1>5, <1>6

\* A transaction that is about to close is complete: the rows its message is about
\* have a record of their change and their backing file.
LEMMA ClosedIsWhole ==
  ASSUME IInv, Progress, pc \in {"file", "close"}, NEW c \in call, NEW r \in Files,
         IsAbout(c.msg, r)
  PROVE  Recorded(r) /\ (pc = "close" => Stored(r))
<1>1. c.msg \in Message /\ Sound(c.msg)
  BY TheCall
<1>2. ASSUME c.msg.op \in Updates PROVE Recorded(r)
  BY <1>2 DEF Progress, RecordMade, IsAbout, Recorded
<1>3. ASSUME c.msg.op = "Create" PROVE Recorded(r)
  BY <1>1, <1>3 DEF Sound, IsAbout, Recorded
<1>4. c.msg.op # "Delete"
  BY <1>1 DEF Progress, Outdated, Sound, IsAbout, IsCurrent
<1>5. Recorded(r)
  BY <1>1, <1>2, <1>3, <1>4 DEF Message, Operations
<1> QED
  BY <1>5 DEF Progress, FileMade

\* Progress holds in a new share.
LEMMA ProgressInit == Init => Progress
<1> SUFFICES ASSUME Init PROVE Progress
  OBVIOUS
<1>1. InPlay = {} /\ call = {} /\ pc = "idle" /\ Files = {RootRow}
  BY DEF Init, InPlay
<1>2. CountersBounded
  BY BoundsAssumption DEF Init, CountersBounded, Null
<1> QED
  BY <1>1, <1>2 DEF Progress, KindsAgree, Outdated, RecordMade, FileMade, OwnRecord

\* Every step keeps it.
LEMMA ProgressNext == IInv /\ Progress /\ [Next]_vars => Progress'
<1> SUFFICES ASSUME IInv, Progress, [Next]_vars PROVE Progress'
  OBVIOUS
<1>1. KindsAgree'
  BY NextInvariant, KindsNext DEF Progress
<1>2. CASE UNCHANGED vars
  BY <1>1, <1>2 DEF vars, Progress, Outdated, RecordMade, FileMade, Stored, OwnRecord, CountersBounded
<1>3. ASSUME NEW t \in Threads, Operation(t)
      PROVE  Progress'
  <2>1. /\ pc = "idle" /\ call = {}
        /\ UNCHANGED <<pc, call>> \/ \E m : Begins(t, m)
        /\ FileCounter' = FileCounter \/ FileCounter' <= MaxFile
        /\ ChangeCounter' = ChangeCounter \/ ChangeCounter' <= MaxChange
    BY <1>3, OperationFrame
  <2>2. CountersBounded'
    <3>1. FileCounter' \in Nat /\ ChangeCounter' \in Nat
      BY NextInvariant DEF IInv, TypeOK
    <3> QED
      BY <2>1, <3>1, BoundsAssumption DEF CountersBounded, Progress
  <2>3. pc' \in {"idle", "open"} /\ \A c \in call' : pc' = "open" /\ ~c.replay
    BY <2>1 DEF Begins
  <2> QED
    BY <1>1, <2>2, <2>3 DEF Progress, Outdated, RecordMade, FileMade, OwnRecord
<1>4. CASE ApplyRow
  <2>1. PICK c \in call : TRUE
    BY <1>4 DEF ApplyRow
  <2>2. call = {c} /\ call' = call /\ UNCHANGED <<transactions, FileCounter, ChangeCounter>>
    BY <1>4, <2>1, TheCall DEF ApplyRow
  <2>3. pc = "row" /\ pc' \in {"ancestry", "file"} /\ (pc' = "file" => c.msg.op \in {"Create", "Delete"})
    BY <1>4, <2>2 DEF ApplyRow
  <2>4. Outdated' /\ RecordMade' /\ FileMade'
    <3>1. c.msg.op # "Create" => \A s \in Files' : ~IsCurrent(s, c.msg.file)
      BY <1>4, <2>1, RowOrigin
    <3> QED
      BY <2>2, <2>3, <3>1 DEF Outdated, RecordMade, FileMade, Updates
  <2>5. OwnRecord' /\ CountersBounded'
    BY <2>2, <2>3 DEF Progress, OwnRecord, CountersBounded
  <2> QED
    BY <1>1, <2>4, <2>5 DEF Progress
<1>5. CASE ApplyAncestry
  <2>1. PICK c \in call : Ancestry' = CreateChange(Ancestry, c.msg.new.change, c.msg.file.change)
    BY <1>5 DEF ApplyAncestry
  <2>2. call = {c} /\ call' = call /\ UNCHANGED <<Files, transactions, FileCounter, ChangeCounter>>
    BY <1>5, TheCall DEF ApplyAncestry
  <2>3. \E d \in Ancestry' : d.id = c.msg.new.change
    <3>1. ASSUME NEW new, NEW old PROVE \E d \in CreateChange(Ancestry, new, old) : d.id = new
      <4>1. [id |-> new, parent |-> old].id = new
        OBVIOUS
      <4> QED
        BY <4>1 DEF CreateChange
    <3> QED
      BY <2>1, <3>1
  <2>4. pc = "ancestry" /\ pc' = "file"
    BY <1>5 DEF ApplyAncestry
  <2>5. Outdated' /\ FileMade' /\ OwnRecord' /\ CountersBounded'
    BY <2>2, <2>4 DEF Progress, Outdated, FileMade, OwnRecord, CountersBounded
  <2>6. RecordMade'
    BY <2>2, <2>3 DEF RecordMade
  <2> QED
    BY <1>1, <2>5, <2>6 DEF Progress
<1>6. CASE ApplyFile
  <2>1. UNCHANGED <<database, transactions, call>> /\ pc = "file" /\ pc' = "close"
    BY <1>6 DEF ApplyFile
  <2>2. Outdated' /\ RecordMade' /\ OwnRecord' /\ CountersBounded'
    BY <2>1 DEF Progress, Outdated, RecordMade, OwnRecord, CountersBounded, database
  <2>3. FileMade'
    BY <1>6, <2>1, ApplyFileStores DEF FileMade, IsAbout, database
  <2> QED
    BY <1>1, <2>2, <2>3 DEF Progress
<1>7. CASE OpenRecord
  <2>1. PICK c \in call, written \in Durable :
          transactions' = [transactions EXCEPT ![c.thread] = IF written THEN {c.msg} ELSE {}]
    BY <1>7 DEF OpenRecord
  <2>2. call' = {c} /\ c.thread \in Threads /\ ~c.replay /\ pc = "open" /\ pc' = "row"
    BY <1>7, <2>1, TheCall DEF OpenRecord, Progress, OwnRecord
  <2>3. transactions'[c.thread] \subseteq {c.msg}
    BY <2>1, <2>2 DEF IInv, TypeOK
  <2>4. OwnRecord'
    BY <2>2, <2>3 DEF OwnRecord
  <2>5. Outdated' /\ RecordMade' /\ FileMade' /\ CountersBounded'
    BY <1>7, <2>2 DEF OpenRecord, database, Progress, Outdated, RecordMade, FileMade, CountersBounded
  <2> QED
    BY <1>1, <2>4, <2>5 DEF Progress
<1>8. CASE Close \/ Throw \/ OpenFails \/ Stop \/ Crash \/ Start \/ Recover
  <2>1. /\ pc' \notin {"open", "ancestry", "file", "close"}
        /\ \A c \in call' : /\ c.replay
                            /\ transactions' = transactions /\ c.msg \in transactions[c.thread]
    <3>1. CASE Close \/ Throw \/ OpenFails \/ Stop \/ Crash
      BY <1>8, <3>1 DEF Close, Throw, OpenFails, Stop, Crash, Halt
    <3>2. CASE Start \/ Recovered \/ \E t \in Threads : ReplayDies(t)
      BY <3>2 DEF Start, Recovered, ReplayDies, Halt, IInv, TypeOK, Stages
    <3>3. ASSUME NEW t \in Threads, Replay(t)
          PROVE  /\ pc' \notin {"open", "ancestry", "file", "close"}
                 /\ \A c \in call' : /\ c.replay
                                     /\ transactions' = transactions /\ c.msg \in transactions[c.thread]
      BY <3>3 DEF Replay
    <3> QED
      BY <1>8, <3>1, <3>2, <3>3 DEF Recover
  <2>2. UNCHANGED <<FileCounter, ChangeCounter>>
    BY <1>8, OtherFrame DEF IInv
  <2> QED
    BY <1>1, <2>1, <2>2 DEF Progress, Outdated, RecordMade, FileMade, OwnRecord, CountersBounded
<1> QED
  BY <1>2, <1>3, <1>4, <1>5, <1>6, <1>7, <1>8 DEF Next, Advance

\* What a transaction has done at each stage, whatever the faults.
THEOREM ProgressInvariant == Spec => []Progress
BY ProgressInit, ProgressNext, Invariant, PTL DEF Spec

-----------------------------------------------------------------------------
(***************************************************************************)
(* What is incomplete keeps its message.                                   *)
(***************************************************************************)

\* Incomplete in the words of this module.
LEMMA IncompleteRow ==
  ASSUME NEW m, Incomplete(m)
  PROVE  \E r \in Files : IsAbout(m, r) /\ ~Whole(r)
<1>1. PICK r \in Files :
        /\ r.id = m.new.id /\ r.change = m.new.change
        /\ \/ r.change # Null /\ \A d \in Ancestry : d.id # r.change
           \/ r.isFile /\ InternalFilename(r) \notin backing
  BY DEF Incomplete
<1> QED
  BY <1>1 DEF IsAbout, Whole, Recorded, Stored

\* The only steps that take a message from a file are the start of the thread's
\* next call and the end of a transaction with the same message.
LEMMA TakenMessage ==
  ASSUME IInv, Progress, Next, NEW t \in Threads, NEW m \in transactions[t],
         m \notin transactions'[t]
  PROVE  \/ pc = "open" /\ \E c \in call : c.thread = t
         \/ /\ pc = "close" /\ UNCHANGED <<database, backing>>
            /\ \E c \in call : c.msg = m
<1>1. \A s \in Threads : AtMostOne(transactions[s])
  BY DEF IInv, TypeOK
<1>2. transactions \in [Threads -> SUBSET Message]
  BY DEF IInv, TypeOK
<1>3. CASE OpenRecord
  <2>1. PICK c \in call, written \in Durable :
          transactions' = [transactions EXCEPT ![c.thread] = IF written THEN {c.msg} ELSE {}]
    BY <1>3 DEF OpenRecord
  <2>2. c.thread = t
    BY <1>2, <2>1, TheCall
  <2> QED
    BY <1>3, <2>2 DEF OpenRecord
<1>4. CASE Close
  <2>1. PICK c \in call :
          transactions' = [transactions EXCEPT ![c.thread] = IF c.replay THEN {} ELSE {c.msg}]
    BY <1>4 DEF Close
  <2>2. c.thread = t
    BY <1>2, <2>1, TheCall
  <2>3. pc = "close" /\ UNCHANGED <<database, backing>>
    BY <1>4 DEF Close
  <2>4. c.msg \in transactions[t] \/ transactions[t] \subseteq {c.msg}
    BY <2>2, <2>3 DEF Progress, OwnRecord
  <2>5. c.msg = m
    BY <1>1, <2>4 DEF AtMostOne
  <2> QED
    BY <2>3, <2>5
<1>5. CASE Throw
  <2>1. PICK c \in call : transactions' = IF c.replay THEN transactions
                                          ELSE [transactions EXCEPT ![c.thread] = {c.msg}]
    BY <1>5 DEF Throw
  <2>2. c.thread = t /\ ~c.replay /\ transactions'[t] = {c.msg}
    BY <1>2, <2>1, TheCall
  <2>3. transactions[t] \subseteq {c.msg}
    BY <1>5, <2>2 DEF Throw, Progress, OwnRecord
  <2> QED
    BY <2>2, <2>3
<1>6. ASSUME NEW s \in Threads, Operation(s) PROVE FALSE
  BY <1>6, OperationFrame
<1>7. CASE ApplyRow \/ ApplyAncestry \/ ApplyFile \/ OpenFails \/ Stop \/ Crash \/ Start \/ Recover
  BY <1>7 DEF ApplyRow, ApplyAncestry, ApplyFile, OpenFails, Stop, Crash, Start, Recover,
              Halt, Replay, ReplayDies, Recovered
<1> QED
  BY <1>3, <1>4, <1>5, <1>6, <1>7 DEF Next, Advance

\* What a crash or an exception has left incomplete, with its message on disk, keeps
\* the message until a replay has completed it or its thread starts another call.
THEOREM KeptUntilComplete == Spec => IncompleteIsKept
<1>1. IInv /\ Progress /\ [Next]_vars =>
        [\A t \in Threads : \A m \in transactions[t] :
           Incomplete(m)' => \/ m \in transactions'[t]
                             \/ pc = "open" /\ \E c \in call : c.thread = t]_vars
  <2> SUFFICES ASSUME IInv, Progress, Next,
                      NEW t \in Threads, NEW m \in transactions[t], Incomplete(m)',
                      m \notin transactions'[t],
                      ~(pc = "open" /\ \E c \in call : c.thread = t)
               PROVE  FALSE
    OBVIOUS
  <2>1. /\ pc = "close" /\ UNCHANGED <<database, backing>>
        /\ \E c \in call : c.msg = m
    BY TakenMessage
  <2>2. Incomplete(m)
    BY <2>1 DEF Incomplete, database
  <2>3. PICK r \in Files : IsAbout(m, r) /\ ~Whole(r)
    BY <2>2, IncompleteRow
  <2>4. PICK c \in call : c.msg = m
    BY <2>1
  <2> QED
    BY <2>1, <2>3, <2>4, ClosedIsWhole DEF Whole
<1> QED
  BY <1>1, Invariant, ProgressInvariant, PTL DEF Spec, IncompleteIsKept

-----------------------------------------------------------------------------
(***************************************************************************)
(* Recovery completes what was interrupted.  A call can leave its row      *)
(* half-changed for good in two ways, whatever the sizes of messages and   *)
(* the causes of failures: Abandons says which.  A file whose calls do not *)
(* end like this is whole whenever the share is open, whatever becomes of  *)
(* the calls on other files.                                               *)
(***************************************************************************)

\* In this step a call is left after its statement on the file's row, by an exception
\* (other than that its backing file has gone), or by the end of the process with
\* the message still in the buffer of the stream.
Abandons(id) ==
  \E c \in call, r \in Files :
    /\ r.id = id /\ IsAbout(c.msg, r)
    /\ pc \in {"ancestry", "file"} /\ ~c.replay
    /\ call' = {}
    /\ IF pc' = "down" THEN c.msg \notin transactions[c.thread]
       ELSE ~(pc = "file" /\ RenameFails(c.msg))

Recovering == pc \in {"down", "recover"} \/ \E c \in call : c.replay

\* The transaction under way is going to complete the row.
InHand(r) == pc \in {"ancestry", "file"} /\ \E c \in call : IsAbout(c.msg, r)

\* A message that is still to be replayed is going to.
Elsewhere(r) ==
  \E t \in Threads : /\ pc \in {"ancestry", "file", "close"} => \A c \in call : c.thread # t
                     /\ \E m \in transactions[t] : IsAbout(m, r)

Recoverable(id) ==
  \A r \in Files : r.id = id => Whole(r) \/ InHand(r) \/ (Recovering /\ Elsewhere(r))

\* An operation's bfs::rename finds its source.
SourceStored(id) ==
  pc \in {"ancestry", "file"} =>
    \A c \in call : c.msg.file.id = id /\ ~c.replay /\ c.msg.op \in Updates /\ c.msg.file.isFile
                      => InternalFilename(c.msg.file) \in backing

Completion(id) == Recoverable(id) /\ SourceStored(id)

\* A new share is complete.
LEMMA CompletionInit ==
  ASSUME NEW id, Init
  PROVE  Completion(id)
<1>1. call = {} /\ pc = "idle" /\ Files = {RootRow}
  BY DEF Init
<1>2. Whole(RootRow)
  BY DEF RootRow, Whole, Recorded, Stored
<1> QED
  BY <1>1, <1>2 DEF Completion, Recoverable, SourceStored

\* When no transaction is past its first statement, a row is either whole or the
\* business of a replay; in an open share it is whole.
LEMMA WholeOrElsewhere ==
  ASSUME NEW id, IInv, Completion(id), pc \notin {"ancestry", "file"},
         NEW r \in Files, r.id = id
  PROVE  /\ Whole(r) \/ (Recovering /\ Elsewhere(r))
         /\ pc = "idle" => Whole(r)
         /\ (\A c \in call : ~c.replay) /\ pc \notin {"down", "recover"} => Whole(r)
<1>1. pc = "idle" => call = {}
  BY DEF IInv, TypeOK, Stages
<1> QED
  BY <1>1 DEF Completion, Recoverable, InHand, Recovering

\* The statement on "Files": a row it leaves alone stays as it was, and the one it
\* made is in hand.  A row that waited for this very replay is in hand too.
LEMMA ApplyRowCompletes ==
  ASSUME NEW id, IInv, Progress, LookupsHold, Completion(id), ApplyRow
  PROVE  Completion(id)'
<1>1. PICK c \in call : TRUE
  BY DEF ApplyRow
<1>2. /\ call = {c} /\ c.thread \in Threads /\ c.replay \in BOOLEAN
      /\ c.msg \in Message /\ Sound(c.msg)
  BY TheCall
<1>3. /\ pc = "row" /\ pc' \in {"ancestry", "file"}
      /\ UNCHANGED <<Ancestry, backing, transactions, call>>
  BY DEF ApplyRow
<1>4. \A s \in Files : Whole(s) => Whole(s)'
  BY <1>3 DEF Whole, Recorded, Stored
<1>5. Recoverable(id)'
  <2>1. SUFFICES ASSUME NEW s \in Files', s.id = id
                 PROVE  (Whole(s) \/ InHand(s) \/ (Recovering /\ Elsewhere(s)))'
    BY DEF Recoverable
  <2>2. CASE IsAbout(c.msg, s)
    BY <1>2, <1>3, <2>2 DEF InHand, IsAbout
  <2>3. CASE ~IsAbout(c.msg, s)
    <3>1. s \in Files
      BY <2>3, RowOrigin
    <3>2. CASE Whole(s)
      BY <1>4, <3>1, <3>2
    <3>3. CASE Recovering /\ Elsewhere(s)
      <4>1. PICK t \in Threads : \E m \in transactions[t] : IsAbout(m, s)
        BY <3>3 DEF Elsewhere
      <4>2. PICK m \in transactions[t] : IsAbout(m, s)
        BY <4>1
      <4>3. c.replay /\ c.msg \in transactions[c.thread]
        BY <1>2, <1>3, <3>3 DEF Recovering, Progress, OwnRecord
      <4>4. t # c.thread
        BY <1>2, <2>3, <4>2, <4>3 DEF IInv, TypeOK, AtMostOne
      <4> QED
        BY <1>2, <1>3, <4>2, <4>3, <4>4 DEF Recovering, Elsewhere, IsAbout
    <3> QED
      BY <1>3, <2>1, <3>1, <3>2, <3>3, WholeOrElsewhere
  <2> QED
    BY <2>2, <2>3
<1>6. SourceStored(id)'
  <2>1. SUFFICES ASSUME c.msg.file.id = id, ~c.replay, c.msg.op \in Updates, c.msg.file.isFile
                 PROVE  InternalFilename(c.msg.file) \in backing
    BY <1>2, <1>3 DEF SourceStored, InternalFilename
  <2>2. c.msg.file \in Files \/ c.msg.file = SplitFile
    BY <1>2, <1>3, <2>1 DEF LookupsHold, Applicable
  <2>3. c.msg.file # SplitFile
    BY <2>1 DEF SplitFile, RootRow
  <2> QED
    BY <1>2, <1>3, <2>1, <2>2, <2>3, WholeOrElsewhere DEF Whole, Stored
<1> QED
  BY <1>5, <1>6 DEF Completion

\* The step on the backing file: the row in hand is whole after it.
LEMMA ApplyFileCompletes ==
  ASSUME NEW id, IInv, Progress, Completion(id), ApplyFile
  PROVE  Completion(id)'
<1>1. /\ pc = "file" /\ pc' = "close"
      /\ UNCHANGED <<database, transactions, call>>
  BY DEF ApplyFile
<1>2. Recoverable(id)'
  <2>1. SUFFICES ASSUME NEW r \in Files, r.id = id
                 PROVE  (Whole(r) \/ InHand(r) \/ (Recovering /\ Elsewhere(r)))'
    BY <1>1 DEF Recoverable, database
  <2>2. PICK c \in call : TRUE
    BY DEF ApplyFile
  <2>3. CASE Whole(r)
    <3>1. Stored(r)'
      BY <2>2, <2>3, ApplyFileStores DEF Whole
    <3> QED
      BY <1>1, <2>3, <3>1 DEF Whole, Recorded, database
  <2>4. CASE InHand(r)
    <3>1. PICK d \in call : IsAbout(d.msg, r)
      BY <2>4 DEF InHand
    <3>2. Stored(r)'
      BY <3>1, ApplyFileStores
    <3>3. Recorded(r)
      BY <1>1, <3>1, ClosedIsWhole
    <3> QED
      BY <1>1, <3>2, <3>3 DEF Whole, Recorded, database
  <2>5. CASE Recovering /\ Elsewhere(r)
    BY <1>1, <2>5 DEF Recovering, Elsewhere, IsAbout
  <2> QED
    BY <2>1, <2>3, <2>4, <2>5 DEF Completion, Recoverable
<1>3. SourceStored(id)'
  BY <1>1 DEF SourceStored, Completion
<1> QED
  BY <1>2, <1>3 DEF Completion

\* The end of a transaction: an operation's leaves an open share whole, a replay's
\* takes a message away that nothing depends on.
LEMMA CloseCompletes ==
  ASSUME NEW id, IInv, Progress, Completion(id), Close
  PROVE  Completion(id)'
<1>1. PICK c \in call :
        /\ transactions' = [transactions EXCEPT ![c.thread] = IF c.replay THEN {} ELSE {c.msg}]
        /\ pc' = IF c.replay THEN "recover" ELSE "idle"
  BY DEF Close
<1>2. call = {c} /\ c.thread \in Threads /\ c.replay \in BOOLEAN
  BY TheCall
<1>3. pc = "close" /\ call' = {} /\ UNCHANGED <<database, backing>>
  BY DEF Close
<1>4. \A r \in Files : Whole(r) => Whole(r)'
  BY <1>3 DEF Whole, Recorded, Stored, database
<1>5. Recoverable(id)'
  <2>1. SUFFICES ASSUME NEW r \in Files, r.id = id
                 PROVE  (Whole(r) \/ InHand(r) \/ (Recovering /\ Elsewhere(r)))'
    BY <1>3 DEF Recoverable, database
  <2>2. CASE Whole(r)
    BY <1>4, <2>2
  <2>3. CASE Recovering /\ Elsewhere(r)
    <3>1. PICK t \in Threads : t # c.thread /\ \E m \in transactions[t] : IsAbout(m, r)
      BY <1>2, <1>3, <2>3 DEF Elsewhere
    <3>2. transactions'[t] = transactions[t]
      BY <1>1, <1>2, <3>1 DEF IInv, TypeOK
    <3>3. pc' = "recover"
      BY <1>1, <1>2, <1>3, <2>3 DEF Recovering
    <3> QED
      BY <1>3, <3>1, <3>2, <3>3 DEF Recovering, Elsewhere, IsAbout
  <2> QED
    BY <1>3, <2>1, <2>2, <2>3, WholeOrElsewhere
<1>6. SourceStored(id)'
  BY <1>3 DEF SourceStored
<1> QED
  BY <1>5, <1>6 DEF Completion

\* The process ends: what was in hand, and was not abandoned, is now for a replay.
LEMMA HaltCompletes ==
  ASSUME NEW id, IInv, Progress, Completion(id), Halt, ~Abandons(id)
  PROVE  Completion(id)'
<1>1. pc' = "down" /\ call' = {} /\ UNCHANGED <<database, backing, transactions>>
  BY DEF Halt
<1>2. Recoverable(id)'
  <2>1. SUFFICES ASSUME NEW r \in Files, r.id = id
                 PROVE  Whole(r)' \/ Elsewhere(r)'
    BY <1>1 DEF Recoverable, Recovering, database
  <2>2. CASE Whole(r)
    BY <1>1, <2>2 DEF Whole, Recorded, Stored, database
  <2>3. CASE InHand(r)
    <3>1. PICK c \in call : IsAbout(c.msg, r)
      BY <2>3 DEF InHand
    <3>2. pc \in {"ancestry", "file"}
      BY <2>3 DEF InHand
    <3>3. c.msg \in transactions[c.thread]
      <4>1. CASE c.replay
        BY <3>2, <4>1 DEF Progress, OwnRecord
      <4>2. CASE ~c.replay
        BY <1>1, <2>1, <3>1, <3>2, <4>2 DEF Abandons
      <4> QED
        BY <4>1, <4>2
    <3> QED
      BY <1>1, <3>1, <3>3, TheCall DEF Elsewhere, IsAbout
  <2>4. CASE Elsewhere(r)
    BY <1>1, <2>4 DEF Elsewhere, IsAbout
  <2> QED
    BY <2>1, <2>2, <2>3, <2>4 DEF Completion, Recoverable
<1>3. SourceStored(id)'
  BY <1>1 DEF SourceStored
<1> QED
  BY <1>2, <1>3 DEF Completion

\* An exception.  One in a replay ends the process with its message on disk.  One in
\* a call on another file leaves this one's rows as they are, and one in a call on this
\* file that has not abandoned it comes before there is a new row: a call's
\* bfs::rename does not fail, as its file was whole.
LEMMA ThrowCompletes ==
  ASSUME NEW id, IInv, Progress, Completion(id), Throw, ~Abandons(id)
  PROVE  Completion(id)'
<1>1. PICK c \in call :
        /\ transactions' = IF c.replay THEN transactions
                           ELSE [transactions EXCEPT ![c.thread] = {c.msg}]
        /\ pc' = IF c.replay THEN "down" ELSE "idle"
  BY DEF Throw
<1>2. /\ call = {c} /\ c.thread \in Threads /\ c.replay \in BOOLEAN
      /\ c.msg \in Message /\ Sound(c.msg)
  BY TheCall
<1>3. /\ pc \in {"row", "ancestry", "file"} /\ call' = {} /\ UNCHANGED <<database, backing>>
  BY DEF Throw
<1>4. \A r \in Files : Whole(r) => Whole(r)'
  BY <1>3 DEF Whole, Recorded, Stored, database
<1>5. CASE c.replay
  <2>1. pc' = "down" /\ UNCHANGED transactions
    BY <1>1, <1>5
  <2>2. c.msg \in transactions[c.thread]
    BY <1>3, <1>5 DEF Progress, OwnRecord
  <2>3. ASSUME NEW r \in Files, r.id = id PROVE Whole(r)' \/ Elsewhere(r)'
    <3>1. CASE InHand(r)
      BY <1>2, <2>1, <2>2, <3>1 DEF InHand, Elsewhere, IsAbout
    <3>2. CASE Elsewhere(r)
      BY <2>1, <3>2 DEF Elsewhere, IsAbout
    <3> QED
      BY <1>4, <2>3, <3>1, <3>2 DEF Completion, Recoverable
  <2> QED
    BY <1>3, <2>1, <2>3 DEF Completion, Recoverable, Recovering, SourceStored, database
<1>6. CASE ~c.replay
  <2>1. pc' = "idle"
    BY <1>1, <1>6
  <2>2. ASSUME NEW r \in Files, r.id = id, InHand(r) PROVE FALSE
    <3>1. IsAbout(c.msg, r) /\ pc \in {"ancestry", "file"}
      BY <1>2, <2>2 DEF InHand
    <3>2. pc = "file" /\ RenameFails(c.msg)
      BY <1>3, <1>6, <2>1, <2>2, <3>1 DEF Abandons
    <3>3. c.msg.file.id = id
      BY <1>2, <2>2, <3>1 DEF IsAbout, Sound
    <3> QED
      BY <1>6, <3>1, <3>2, <3>3 DEF Completion, SourceStored, RenameFails
  <2>3. ~Recovering
    BY <1>2, <1>3, <1>6 DEF Recovering
  <2>4. \A r \in Files : r.id = id => Whole(r)
    BY <2>2, <2>3 DEF Completion, Recoverable
  <2> QED
    BY <1>3, <1>4, <2>1, <2>4 DEF Completion, Recoverable, SourceStored, database
<1> QED
  BY <1>2, <1>5, <1>6

\* Emptying the thread's file takes nothing away that is still needed: an operation
\* only starts in a share where recovery is over.
LEMMA OpenRecordCompletes ==
  ASSUME NEW id, IInv, Progress, Completion(id), OpenRecord \/ OpenFails
  PROVE  Completion(id)'
<1>1. pc = "open" /\ \A c \in call : ~c.replay
  BY TheCall DEF OpenRecord, OpenFails, Progress, OwnRecord
<1>2. pc' \in {"row", "idle"} /\ UNCHANGED <<database, backing>>
  BY DEF OpenRecord, OpenFails
<1>3. \A r \in Files : r.id = id => Whole(r)
  BY <1>1, WholeOrElsewhere
<1> QED
  BY <1>2, <1>3 DEF Completion, Recoverable, SourceStored, Whole, Recorded, Stored, database

\* A record of a change takes nothing from the rows.
LEMMA ApplyAncestryCompletes ==
  ASSUME NEW id, IInv, Progress, Completion(id), ApplyAncestry
  PROVE  Completion(id)'
<1>1. /\ pc = "ancestry" /\ pc' = "file"
      /\ UNCHANGED <<Files, backing, transactions, call>>
  BY DEF ApplyAncestry
<1>2. Ancestry \subseteq Ancestry'
  BY DEF ApplyAncestry, CreateChange
<1>3. \A r \in Files : Whole(r) => Whole(r)'
  BY <1>1, <1>2 DEF Whole, Recorded, Stored
<1>4. Recoverable(id)'
  BY <1>1, <1>3 DEF Completion, Recoverable, InHand, Recovering, Elsewhere, IsAbout
<1>5. SourceStored(id)'
  BY <1>1 DEF Completion, SourceStored, InternalFilename
<1> QED
  BY <1>4, <1>5 DEF Completion

\* An operation starts in a share that is whole, and leaves it so.
LEMMA OperationCompletes ==
  ASSUME NEW id, IInv, Completion(id), NEW t \in Threads, Operation(t)
  PROVE  Completion(id)'
<1>1. /\ pc = "idle" /\ call = {}
      /\ UNCHANGED <<Files, Ancestry, backing, transactions>>
      /\ UNCHANGED <<pc, call>> \/ \E m : Begins(t, m)
  BY OperationFrame
<1>2. \A r \in Files : r.id = id => Whole(r)
  BY <1>1, WholeOrElsewhere
<1>3. pc' \in {"idle", "open"} /\ (call' # {} => pc' = "open")
  BY <1>1 DEF Begins
<1> QED
  BY <1>1, <1>2, <1>3 DEF Completion, Recoverable, SourceStored, Whole, Recorded, Stored

\* A start, the choice of a message to replay, and the end of the recovery, after
\* which there is no message and every row is whole.
LEMMA RecoverCompletes ==
  ASSUME NEW id, IInv, Progress, Completion(id),
         Start \/ Recovered \/ \E t \in Threads : Replay(t)
  PROVE  Completion(id)'
<1>1. /\ pc \in {"down", "recover"} /\ UNCHANGED <<database, backing, transactions>>
  BY DEF Start, Recovered, Replay
<1>2. \A r \in Files : r.id = id => Whole(r) \/ Elsewhere(r)
  BY <1>1, WholeOrElsewhere
<1>3. \A r \in Files : Whole(r) => Whole(r)'
  BY <1>1 DEF Whole, Recorded, Stored, database
<1>4. call = {}
  BY <1>1 DEF IInv, TypeOK, Stages
<1>5. CASE Start
  <2>1. pc' = "recover" /\ call' = {}
    BY <1>4, <1>5 DEF Start
  <2>2. \A r \in Files : Elsewhere(r) => Elsewhere(r)'
    BY <1>1, <2>1 DEF Elsewhere, IsAbout
  <2> QED
    BY <1>1, <1>2, <1>3, <2>1, <2>2
       DEF Completion, Recoverable, Recovering, SourceStored, database
<1>6. CASE Recovered
  <2>1. \A r \in Files : ~Elsewhere(r)
    BY <1>6 DEF Recovered, Elsewhere
  <2>2. pc' = "idle" /\ call' = {}
    BY <1>4, <1>6 DEF Recovered
  <2> QED
    BY <1>1, <1>2, <1>3, <2>1, <2>2
       DEF Completion, Recoverable, SourceStored, database
<1>7. ASSUME NEW t \in Threads, Replay(t) PROVE Completion(id)'
  <2>1. PICK m \in transactions[t] : call' = {[thread |-> t, msg |-> m, replay |-> TRUE]}
    BY <1>7 DEF Replay
  <2>2. pc' = "row" /\ \A c \in call' : c.replay
    BY <1>7, <2>1 DEF Replay
  <2>3. \A r \in Files : Elsewhere(r) => Elsewhere(r)'
    BY <1>1, <2>2 DEF Elsewhere, IsAbout
  <2> QED
    BY <1>1, <1>2, <1>3, <2>1, <2>2, <2>3
       DEF Completion, Recoverable, Recovering, SourceStored, database
<1> QED
  BY <1>5, <1>6, <1>7

\* Every step that does not abandon the file keeps its rows recoverable.
LEMMA CompletionNext ==
  ASSUME NEW id, IInv, Progress, LookupsHold, Completion(id), [Next]_vars, ~Abandons(id)
  PROVE  Completion(id)'
<1>1. CASE UNCHANGED vars
  BY <1>1 DEF vars, Completion, Recoverable, InHand, Recovering, Elsewhere, IsAbout,
              Whole, Recorded, Stored, SourceStored
<1>2. CASE Stop \/ Crash \/ \E t \in Threads : ReplayDies(t)
  BY <1>2, HaltCompletes DEF Stop, Crash, ReplayDies
<1> QED
  BY <1>1, <1>2, OperationCompletes, OpenRecordCompletes, ApplyRowCompletes,
     ApplyAncestryCompletes, ApplyFileCompletes, CloseCompletes, ThrowCompletes, RecoverCompletes
     DEF Next, Advance, Recover

\* What the lookups found holds until the transaction is done.
LEMMA LookupsInvariant == Spec => []LookupsHold
<1>1. Init => LookupsHold
  BY DEF Init, LookupsHold
<1> QED
  BY <1>1, Invariant, NextHolds, PTL DEF Spec

\* The rows of a file that is never abandoned are at any time whole, in the hands of
\* the transaction under way, or the business of a message that recovery will replay.
THEOREM RowsAreRecoverable ==
  ASSUME NEW id
  PROVE  Spec /\ [][~Abandons(id)]_vars => []Completion(id)
<1>1. Init => Completion(id)
  BY CompletionInit
<1>2. IInv /\ Progress /\ LookupsHold /\ Completion(id) /\ [Next]_vars /\ [~Abandons(id)]_vars
        => Completion(id)'
  <2> SUFFICES ASSUME IInv, Progress, LookupsHold, Completion(id), [Next]_vars, [~Abandons(id)]_vars
               PROVE  Completion(id)'
    OBVIOUS
  <2>1. CASE UNCHANGED vars
    BY <2>1 DEF vars, Completion, Recoverable, InHand, Recovering, Elsewhere, IsAbout,
                Whole, Recorded, Stored, SourceStored
  <2> QED
    BY <2>1, CompletionNext
<1> QED
  BY <1>1, <1>2, Invariant, ProgressInvariant, LookupsInvariant, PTL DEF Spec

\* An open share has the backing file and the record of every row of a file that no
\* call has abandoned: whatever the sizes of messages, however many crashes and
\* failed recoveries, and whatever was left of the calls on other files.
THEOREM FilesAreRecovered ==
  ASSUME NEW id
  PROVE  Spec /\ [][~Abandons(id)]_vars
           => [](pc = "idle" => \A r \in Files : r.id = id => Recorded(r) /\ Stored(r))
<1>1. IInv /\ Completion(id)
        => (pc = "idle" => \A r \in Files : r.id = id => Recorded(r) /\ Stored(r))
  BY WholeOrElsewhere DEF Whole
<1> QED
  BY <1>1, Invariant, RowsAreRecoverable, PTL

\* The same for all files: a behaviour in which no call abandons any.
NoneAbandoned == [][\A id \in Nat : ~Abandons(id)]_vars

LEMMA AllRecoverable == Spec /\ NoneAbandoned => [](\A id \in Nat : Completion(id))
<1>1. Init => \A id \in Nat : Completion(id)
  BY CompletionInit
<1>2. IInv /\ Progress /\ LookupsHold /\ (\A id \in Nat : Completion(id))
        /\ [Next]_vars /\ [\A id \in Nat : ~Abandons(id)]_vars
          => (\A id \in Nat : Completion(id))'
  <2> SUFFICES ASSUME IInv, Progress, LookupsHold, \A id \in Nat : Completion(id),
                      [Next]_vars, [\A id \in Nat : ~Abandons(id)]_vars, NEW id \in Nat
               PROVE  Completion(id)'
    OBVIOUS
  <2>1. CASE UNCHANGED vars
    BY <2>1 DEF vars, Completion, Recoverable, InHand, Recovering, Elsewhere, IsAbout,
                Whole, Recorded, Stored, SourceStored
  <2> QED
    BY <2>1, CompletionNext
<1> QED
  BY <1>1, <1>2, Invariant, ProgressInvariant, LookupsInvariant, PTL DEF Spec, NoneAbandoned

\* So the share as a whole is consistent whenever it is open, as long as no call has
\* abandoned a file: every row has its backing file ...
THEOREM BackedAfterRecovery == Spec /\ NoneAbandoned => []RowsAreBacked
<1>1. IInv /\ (\A id \in Nat : Completion(id)) => RowsAreBacked
  <2> SUFFICES ASSUME IInv, \A id \in Nat : Completion(id), pc = "idle", NEW r \in Files
               PROVE  Whole(r)
    BY DEF RowsAreBacked, Whole, Stored
  <2>1. r.id \in Nat
    BY DEF IInv, TypeOK, ShareFile
  <2> QED
    BY <2>1, WholeOrElsewhere
<1> QED
  BY <1>1, Invariant, AllRecoverable, PTL

\* ... and GetPrecedingChange finds the change of every row.
THEOREM RecordedAfterRecovery == Spec /\ NoneAbandoned => []ChangesAreRecorded
<1>1. IInv /\ (\A id \in Nat : Completion(id)) => ChangesAreRecorded
  <2> SUFFICES ASSUME IInv, \A id \in Nat : Completion(id), pc = "idle", NEW r \in Files
               PROVE  Whole(r)
    BY DEF ChangesAreRecorded, Whole, Recorded
  <2>1. r.id \in Nat
    BY DEF IInv, TypeOK, ShareFile
  <2> QED
    BY <2>1, WholeOrElsewhere
<1> QED
  BY <1>1, Invariant, AllRecoverable, PTL

-----------------------------------------------------------------------------
(***************************************************************************)
(* The transaction files refine Transactor.                                *)
(***************************************************************************)

\* The files and the messages of Act, as the refinement mapping gives them.
JournalFiles == [t \in Threads |-> {Identity(m) : m \in transactions[t]}]
JournalActing == [t \in Threads |-> Acting(t)]

\* What the mapping makes of a transaction, and of no transaction.
LEMMA MappedCall ==
  ASSUME IInv
  PROVE  /\ call = {} => Replaying = {} /\ Removing = {} /\ JournalActing = Journal!Idle
         /\ \A c \in call :
              /\ Replaying = IF c.replay /\ pc # "close" THEN {c.thread} ELSE {}
              /\ Removing = IF c.replay /\ pc = "close" THEN {c.thread} ELSE {}
              /\ c.replay \/ pc = "open" => JournalActing = Journal!Idle
              /\ ~c.replay /\ pc # "open" =>
                   JournalActing = [Journal!Idle EXCEPT ![c.thread] = {Identity(c.msg)}]
<1>1. ASSUME call = {} PROVE Replaying = {} /\ Removing = {} /\ JournalActing = Journal!Idle
  BY <1>1 DEF Replaying, Removing, Acting, JournalActing, Journal!Idle
<1>2. ASSUME NEW c \in call
      PROVE  /\ Replaying = IF c.replay /\ pc # "close" THEN {c.thread} ELSE {}
             /\ Removing = IF c.replay /\ pc = "close" THEN {c.thread} ELSE {}
             /\ c.replay \/ pc = "open" => JournalActing = Journal!Idle
             /\ ~c.replay /\ pc # "open" =>
                  JournalActing = [Journal!Idle EXCEPT ![c.thread] = {Identity(c.msg)}]
  <2>1. call = {c}
    BY TheCall
  <2>2. /\ Replaying = IF c.replay /\ pc # "close" THEN {c.thread} ELSE {}
        /\ Removing = IF c.replay /\ pc = "close" THEN {c.thread} ELSE {}
    BY <2>1 DEF Replaying, Removing
  <2> QED
    BY <2>1, <2>2 DEF Acting, JournalActing, Journal!Idle
<1> QED
  BY <1>1, <1>2

\* A message of the core is one of the journal's.
LEMMA IdentityTypes ==
  ASSUME IInv, Progress, NEW c \in call
  PROVE  Identity(c.msg) \in Identities
<1>1. c.msg \in Message /\ c.msg \in InPlay /\ Sound(c.msg)
  BY TheCall
<1>2. c.msg.new.id < FileCounter /\ c.msg.new.change < ChangeCounter
  BY <1>1 DEF IInv, IndexesAreFresh
<1>3. FileCounter \in Nat /\ ChangeCounter \in Nat
  BY DEF IInv, TypeOK
<1>4. /\ c.msg.op \in Operations
      /\ c.msg.new.id \in Nat /\ c.msg.new.change \in Nat
      /\ c.msg.file.id = c.msg.new.id
  BY <1>1 DEF Message, ShareFile, Sound
<1>5. c.msg.new.id \in 0 .. MaxFile /\ c.msg.new.change \in 0 .. MaxChange
  BY <1>2, <1>3, <1>4, BoundsAssumption DEF Progress, CountersBounded
<1> QED
  BY <1>4, <1>5 DEF Identity, Identities

\* A new share has an empty journal.
LEMMA JournalStarts == Init => Journal!Init
<1> SUFFICES ASSUME Init PROVE Journal!Init
  OBVIOUS
<1>1. call = {} /\ pc = "idle" /\ \A t \in Threads : transactions[t] = {}
  BY DEF Init
<1>2. Replaying = {} /\ Removing = {} /\ \A t \in Threads : Acting(t) = {}
  BY <1>1 DEF Replaying, Removing, Acting
<1> QED
  BY <1>1, <1>2 DEF Journal!Init, Journal!Idle, Process

\* A step between two states with the same files, messages and process stutters.
LEMMA JournalStutters ==
  ASSUME UNCHANGED <<Process, JournalFiles, JournalActing, Replaying, Removing>>
  PROVE  UNCHANGED Journal!vars
BY DEF Journal!vars, JournalFiles, JournalActing

\* A change of one thread's transaction file is one of its file in the journal.
LEMMA MappedFile ==
  ASSUME IInv, NEW t \in Threads, NEW written,
         transactions' = [transactions EXCEPT ![t] = written]
  PROVE  JournalFiles' = [JournalFiles EXCEPT ![t] = {Identity(m) : m \in written}]
BY DEF JournalFiles, IInv, TypeOK

\* OpenRecord is Act.
LEMMA OpenRecordActs ==
  ASSUME IInv, Progress, OpenRecord
  PROVE  Journal!Next
<1>1. PICK c \in call, written \in Durable :
        transactions' = [transactions EXCEPT ![c.thread] = IF written THEN {c.msg} ELSE {}]
  BY DEF OpenRecord
<1>2. call = {c} /\ c.thread \in Threads /\ ~c.replay
  BY TheCall DEF OpenRecord, Progress, OwnRecord
<1>3. pc = "open" /\ pc' = "row" /\ call' = call
  BY DEF OpenRecord
<1>4. Replaying = {} /\ Removing = {} /\ Replaying' = {} /\ Removing' = {}
  BY <1>2, <1>3 DEF Replaying, Removing
<1>5. Process = "up" /\ Process' = "up"
  BY <1>3, <1>4 DEF Process
<1>6. JournalActing = Journal!Idle
  BY <1>2, <1>3, MappedCall
<1>7. JournalActing' = [JournalActing EXCEPT ![c.thread] = {Identity(c.msg)}]
  BY <1>2, <1>3, <1>6 DEF JournalActing, Acting, Journal!Idle
<1>8. JournalActing[c.thread] = {}
  BY <1>2, <1>6 DEF Journal!Idle
<1>9. JournalFiles' = [JournalFiles EXCEPT ![c.thread] = IF written THEN {Identity(c.msg)} ELSE {}]
  <2>1. {Identity(m) : m \in IF written THEN {c.msg} ELSE {}} = IF written THEN {Identity(c.msg)} ELSE {}
    OBVIOUS
  <2> QED
    BY <1>1, <1>2, <2>1, MappedFile
<1>10. Journal!Act(c.thread, Identity(c.msg))
  BY <1>4, <1>5, <1>7, <1>8, <1>9 DEF Journal!Act, JournalActing, JournalFiles
<1> QED
  BY <1>2, <1>10, IdentityTypes DEF Journal!Next

\* The end of a transaction is Return, or the removal of the file after a replay.
LEMMA CloseReturns ==
  ASSUME IInv, Progress, Close
  PROVE  Journal!Next
<1>1. PICK c \in call :
        /\ transactions' = [transactions EXCEPT ![c.thread] = IF c.replay THEN {} ELSE {c.msg}]
        /\ pc' = IF c.replay THEN "recover" ELSE "idle"
  BY DEF Close
<1>2. call = {c} /\ c.thread \in Threads /\ c.replay \in BOOLEAN
  BY TheCall
<1>3. pc = "close" /\ call' = {}
  BY DEF Close
<1>4. Replaying' = {} /\ Removing' = {} /\ JournalActing' = Journal!Idle
  BY <1>3 DEF Replaying, Removing, JournalActing, Acting, Journal!Idle
<1>5. CASE c.replay
  <2>1. Replaying = {} /\ Removing = {c.thread} /\ JournalActing = Journal!Idle
    BY <1>2, <1>3, <1>5, MappedCall
  <2>2. Process = "recovering" /\ Process' = "recovering"
    BY <1>1, <1>3, <1>5, <2>1 DEF Process
  <2>3. JournalFiles' = [JournalFiles EXCEPT ![c.thread] = {}]
    <3>1. transactions' = [transactions EXCEPT ![c.thread] = {}]
      BY <1>1, <1>5
    <3>2. {Identity(m) : m \in {}} = {}
      OBVIOUS
    <3> QED
      BY <1>2, <3>1, <3>2, MappedFile
  <2>4. Journal!Remove(c.thread)
    BY <1>4, <2>1, <2>2, <2>3 DEF Journal!Remove, JournalActing, JournalFiles
  <2> QED
    BY <1>2, <2>4 DEF Journal!Next
<1>6. CASE ~c.replay
  <2>1. /\ Replaying = {} /\ Removing = {}
        /\ JournalActing = [Journal!Idle EXCEPT ![c.thread] = {Identity(c.msg)}]
    BY <1>2, <1>3, <1>6, MappedCall
  <2>2. Process = "up" /\ Process' = "up"
    BY <1>1, <1>3, <1>4, <1>6, <2>1 DEF Process
  <2>3. JournalFiles' = [JournalFiles EXCEPT ![c.thread] = {Identity(c.msg)}]
    <3>1. transactions' = [transactions EXCEPT ![c.thread] = {c.msg}]
      BY <1>1, <1>6
    <3>2. {Identity(m) : m \in {c.msg}} = {Identity(c.msg)}
      OBVIOUS
    <3> QED
      BY <1>2, <3>1, <3>2, MappedFile
  <2>4. /\ JournalActing[c.thread] = {Identity(c.msg)}
        /\ JournalActing' = [JournalActing EXCEPT ![c.thread] = {}]
    BY <1>2, <1>4, <2>1 DEF Journal!Idle
  <2>5. Journal!Leave(c.thread)
    BY <1>4, <2>1, <2>2, <2>3, <2>4 DEF Journal!Leave, JournalActing, JournalFiles
  <2> QED
    BY <1>2, <2>5 DEF Journal!Next, Journal!Return
<1> QED
  BY <1>5, <1>6

\* The process ends.
LEMMA HaltEnds ==
  ASSUME IInv, pc # "down", Halt
  PROVE  Journal!Next
<1>1. pc' = "down" /\ call' = {} /\ transactions' = transactions
  BY DEF Halt
<1>2. Process # "down" /\ Process' = "down"
  BY <1>1 DEF Process
<1>3. Replaying' = {} /\ Removing' = {} /\ JournalActing' = Journal!Idle
  BY <1>1 DEF Replaying, Removing, JournalActing, Acting, Journal!Idle
<1>4. JournalFiles' = JournalFiles
  BY <1>1 DEF JournalFiles
<1>5. Journal!End
  BY <1>2, <1>3, <1>4 DEF Journal!End, JournalActing, JournalFiles
<1> QED
  BY <1>5 DEF Journal!Next

\* An exception leaves Act, or the constructor of Transactor.
LEMMA ThrowThrows ==
  ASSUME IInv, Progress, Throw
  PROVE  Journal!Next
<1>1. PICK c \in call :
        /\ transactions' = IF c.replay THEN transactions
                           ELSE [transactions EXCEPT ![c.thread] = {c.msg}]
        /\ pc' = IF c.replay THEN "down" ELSE "idle"
  BY DEF Throw
<1>2. call = {c} /\ c.thread \in Threads /\ c.replay \in BOOLEAN
  BY TheCall
<1>3. pc \in {"row", "ancestry", "file"} /\ call' = {}
  BY DEF Throw
<1>4. Replaying' = {} /\ Removing' = {} /\ JournalActing' = Journal!Idle
  BY <1>3 DEF Replaying, Removing, JournalActing, Acting, Journal!Idle
<1>5. CASE c.replay
  <2>1. Replaying = {c.thread}
    BY <1>2, <1>3, <1>5, MappedCall
  <2>2. Process # "down" /\ Process' = "down"
    BY <1>1, <1>3, <1>5 DEF Process
  <2>3. JournalFiles' = JournalFiles
    BY <1>1, <1>5 DEF JournalFiles
  <2>4. Journal!RecoveryThrows(c.thread)
    BY <1>4, <2>1, <2>2, <2>3 DEF Journal!RecoveryThrows, Journal!End, JournalActing, JournalFiles
  <2> QED
    BY <1>2, <2>4 DEF Journal!Next
<1>6. CASE ~c.replay
  <2>1. /\ Replaying = {} /\ Removing = {}
        /\ JournalActing = [Journal!Idle EXCEPT ![c.thread] = {Identity(c.msg)}]
    BY <1>2, <1>3, <1>6, MappedCall
  <2>2. Process = "up" /\ Process' = "up"
    BY <1>1, <1>3, <1>4, <1>6, <2>1 DEF Process
  <2>3. JournalFiles' = [JournalFiles EXCEPT ![c.thread] = {Identity(c.msg)}]
    <3>1. transactions' = [transactions EXCEPT ![c.thread] = {c.msg}]
      BY <1>1, <1>6
    <3>2. {Identity(m) : m \in {c.msg}} = {Identity(c.msg)}
      OBVIOUS
    <3> QED
      BY <1>2, <3>1, <3>2, MappedFile
  <2>4. /\ JournalActing[c.thread] = {Identity(c.msg)}
        /\ JournalActing' = [JournalActing EXCEPT ![c.thread] = {}]
    BY <1>2, <1>4, <2>1 DEF Journal!Idle
  <2>5. Journal!Leave(c.thread)
    BY <1>4, <2>1, <2>2, <2>3, <2>4 DEF Journal!Leave, JournalActing, JournalFiles
  <2> QED
    BY <1>2, <2>5 DEF Journal!Next, Journal!Throw
<1> QED
  BY <1>5, <1>6

\* The start and the steps of recovery between two transactions.
LEMMA RecoverSteps ==
  ASSUME IInv, Start \/ Recovered \/ \E t \in Threads : Replay(t)
  PROVE  Journal!Next
<1>1. pc \in {"down", "recover"} /\ transactions' = transactions /\ call = {}
  BY DEF Start, Recovered, Replay, IInv, TypeOK, Stages
<1>2. /\ Replaying = {} /\ Removing = {}
      /\ JournalActing = Journal!Idle /\ JournalFiles' = JournalFiles
  BY <1>1, MappedCall DEF JournalFiles
<1>3. CASE Start
  <2>1. call' = {} /\ pc = "down" /\ pc' = "recover"
    BY <1>1, <1>3 DEF Start
  <2>2. Replaying' = {} /\ Removing' = {} /\ JournalActing' = Journal!Idle
    BY <2>1 DEF Replaying, Removing, JournalActing, Acting, Journal!Idle
  <2>3. Process = "down" /\ Process' = "recovering"
    BY <2>1 DEF Process
  <2>4. Journal!Start
    BY <1>2, <2>2, <2>3 DEF Journal!Start, JournalActing, JournalFiles
  <2> QED
    BY <2>4 DEF Journal!Next
<1>4. CASE Recovered
  <2>1. call' = {} /\ pc = "recover" /\ pc' = "idle" /\ \A t \in Threads : transactions[t] = {}
    BY <1>1, <1>4 DEF Recovered
  <2>2. Replaying' = {} /\ Removing' = {} /\ JournalActing' = Journal!Idle
    BY <2>1 DEF Replaying, Removing, JournalActing, Acting, Journal!Idle
  <2>3. Process = "recovering" /\ Process' = "up"
    BY <2>1, <2>2 DEF Process
  <2>4. JournalFiles = Journal!Idle
    BY <2>1 DEF JournalFiles, Journal!Idle
  <2>5. Journal!Recovered
    BY <1>2, <2>2, <2>3, <2>4 DEF Journal!Recovered, JournalActing, JournalFiles
  <2> QED
    BY <2>5 DEF Journal!Next
<1>5. ASSUME NEW t \in Threads, Replay(t) PROVE Journal!Next
  <2>1. PICK m \in transactions[t] : call' = {[thread |-> t, msg |-> m, replay |-> TRUE]}
    BY <1>5 DEF Replay
  <2>2. pc = "recover" /\ pc' = "row"
    BY <1>5 DEF Replay
  <2>3. Replaying' = {t} /\ Removing' = {} /\ JournalActing' = Journal!Idle
    <3> DEFINE d == [thread |-> t, msg |-> m, replay |-> TRUE]
    <3>1. call' = {d} /\ d.thread = t /\ d.replay
      BY <2>1
    <3> HIDE DEF d
    <3> QED
      BY <2>2, <3>1 DEF Replaying, Removing, JournalActing, Acting, Journal!Idle
  <2>4. Process = "recovering" /\ Process' = "recovering"
    BY <2>2, <2>3 DEF Process
  <2>5. JournalFiles[t] # {}
    BY <2>1 DEF JournalFiles
  <2>6. Journal!Replay(t)
    BY <1>2, <2>3, <2>4, <2>5 DEF Journal!Replay, JournalActing, JournalFiles
  <2> QED
    BY <2>6 DEF Journal!Next
<1> QED
  BY <1>3, <1>4, <1>5

\* The last step of a callback is the return of its replay.
LEMMA ApplyFileReturns ==
  ASSUME IInv, NEW c \in call, c.replay, ApplyFile
  PROVE  Journal!Next
<1>1. call = {c} /\ call' = call /\ c.thread \in Threads
  BY TheCall DEF ApplyFile
<1>2. pc = "file" /\ pc' = "close" /\ transactions' = transactions
  BY DEF ApplyFile
<1>3. Replaying = {c.thread} /\ Removing = {} /\ JournalActing = Journal!Idle
  BY <1>2, MappedCall
<1>4. Replaying' = {} /\ Removing' = {c.thread}
  BY <1>1, <1>2 DEF Replaying, Removing
<1>5. JournalActing' = Journal!Idle
  BY <1>1, <1>2 DEF JournalActing, Acting, Journal!Idle
<1>6. Process = "recovering" /\ Process' = "recovering"
  BY <1>2, <1>3, <1>4 DEF Process
<1>7. Journal!ReplayReturns(c.thread)
  BY <1>2, <1>3, <1>4, <1>5, <1>6 DEF Journal!ReplayReturns, JournalActing, JournalFiles
<1> QED
  BY <1>1, <1>7 DEF Journal!Next

\* The other steps leave the journal as it is.
LEMMA QuietJournal ==
  ASSUME IInv, Progress,
         \/ ApplyRow \/ ApplyAncestry \/ OpenFails \/ UNCHANGED vars
         \/ ApplyFile /\ \A c \in call : ~c.replay
         \/ \E t \in Threads : Operation(t)
  PROVE  UNCHANGED Journal!vars
<1>1. CASE \/ ApplyRow \/ ApplyAncestry
           \/ ApplyFile /\ \A c \in call : ~c.replay
  <2>1. /\ UNCHANGED <<transactions, call>>
        /\ pc \notin {"open", "down", "recover"} /\ pc' \notin {"open", "down", "recover"}
        /\ pc # "close"
        /\ pc' # "close" \/ \A c \in call : ~c.replay
    BY <1>1 DEF ApplyRow, ApplyAncestry, ApplyFile
  <2>2. UNCHANGED <<JournalFiles, Replaying, Removing>>
    BY <2>1 DEF JournalFiles, Replaying, Removing
  <2>3. UNCHANGED <<Process, JournalActing>>
    BY <2>1, <2>2 DEF Process, JournalActing, Acting
  <2> QED
    BY <2>2, <2>3, JournalStutters
<1>2. CASE UNCHANGED vars
  <2>1. UNCHANGED <<transactions, call, pc>>
    BY <1>2 DEF vars
  <2> QED
    BY <2>1, JournalStutters DEF Process, JournalFiles, JournalActing, Acting, Replaying, Removing
<1>3. ASSUME pc \in {"open", "idle"}, pc' \in {"open", "idle"}, transactions' = transactions,
             \A c \in call \cup call' : ~c.replay,
             call = {} \/ pc = "open", call' = {} \/ pc' = "open"
      PROVE  UNCHANGED Journal!vars
  <2>1. Replaying = {} /\ Removing = {} /\ Replaying' = {} /\ Removing' = {}
    BY <1>3 DEF Replaying, Removing
  <2>2. Process = "up" /\ Process' = "up"
    BY <1>3, <2>1 DEF Process
  <2>3. JournalActing = Journal!Idle /\ JournalActing' = Journal!Idle
    BY <1>3 DEF JournalActing, Acting, Journal!Idle
  <2>4. JournalFiles' = JournalFiles
    BY <1>3 DEF JournalFiles
  <2> QED
    BY <2>1, <2>2, <2>3, <2>4, JournalStutters
<1>4. ASSUME NEW t \in Threads, Operation(t) PROVE UNCHANGED Journal!vars
  <2>1. /\ pc = "idle" /\ call = {} /\ transactions' = transactions
        /\ UNCHANGED <<pc, call>> \/ \E m : Begins(t, m)
    BY <1>4, OperationFrame
  <2> QED
    BY <1>3, <2>1 DEF Begins
<1>5. CASE OpenFails
  BY <1>3, <1>5 DEF OpenFails, Progress, OwnRecord
<1> QED
  BY <1>1, <1>2, <1>4, <1>5

\* Every step of the core is a step of the journal, or none.
LEMMA JournalNext ==
  IInv /\ Progress /\ [Next]_vars => [Journal!Next]_(Journal!vars)
<1> SUFFICES ASSUME IInv, Progress, [Next]_vars PROVE Journal!Next \/ UNCHANGED Journal!vars
  OBVIOUS
<1>1. CASE Stop \/ Crash \/ \E t \in Threads : ReplayDies(t)
  <2>1. pc # "down" /\ Halt
    BY <1>1 DEF Stop, Crash, ReplayDies
  <2> QED
    BY <2>1, HaltEnds
<1>2. CASE ApplyFile
  BY <1>2, ApplyFileReturns, QuietJournal
<1> QED
  BY <1>1, <1>2, OpenRecordActs, CloseReturns, ThrowThrows, RecoverSteps, QuietJournal
     DEF Next, Advance, Recover

\* The core uses its transaction files as Transactor says, whatever the operations,
\* the faults and the crashes are.
THEOREM RefinesTransactor == Spec => ImplementsTransactor
BY JournalStarts, JournalNext, Invariant, ProgressInvariant, PTL
   DEF Spec, ImplementsTransactor, Journal!Spec

-----------------------------------------------------------------------------
(***************************************************************************)
(* Which rows a lookup identifies.  The first proofs are arithmetic.  The  *)
(* last one rests on the invariant: indexes are below the counters, and a  *)
(* row is told by its index.                                               *)
(***************************************************************************)

UUIDs == 0 .. Wide - 1

\* A NodeID is bound without loss: different ones differ in their columns.
LEMMA BindInjective ==
  ASSUME NEW i \in UUIDs, NEW j \in UUIDs, Bind(i) = Bind(j)
  PROVE  i = j
BY WideAssumption DEF UUIDs, Bind, Signed

\* What is read back is a UUID, and one that an int can have.
LEMMA UnbindFits ==
  ASSUME NEW stored \in Int
  PROVE  Unbind(stored) \in UUIDs /\ Fits(Unbind(stored))
<1>1. stored % (2 * Half) \in 0 .. 2 * Half - 1
  BY HalfAssumption
<1>2. ColumnInt(stored) \in -Half .. Half - 1
  BY <1>1, HalfAssumption DEF ColumnInt, Signed
<1>3. ASSUME NEW z \in -Half .. Half - 1
      PROVE  z % Wide = IF z < 0 THEN z + Wide ELSE z
  BY HalfAssumption, WideAssumption
<1>4. ASSUME NEW z \in -Half .. Half - 1
      PROVE  z % Wide \in UUIDs /\ Fits(z % Wide)
  BY <1>3, HalfAssumption, WideAssumption DEF UUIDs, Fits
<1> QED
  BY <1>2, <1>4 DEF Unbind

\* An index that fits is read as it was bound.
LEMMA FittingIsRead ==
  ASSUME NEW index \in UUIDs, Fits(index)
  PROVE  Unbind(Bind(index)) = index
<1>1. CASE index < Half
  <2>1. Bind(index) = index /\ index % (2 * Half) = index /\ index % Wide = index
    BY <1>1, HalfAssumption, WideAssumption DEF UUIDs, Bind, Signed
  <2> QED
    BY <1>1, <2>1, HalfAssumption DEF UUIDs, Unbind, ColumnInt, Signed
<1>2. CASE index >= Wide - Half
  <2>1. Bind(index) = index - Wide
    BY <1>2, HalfAssumption, WideAssumption DEF UUIDs, Bind, Signed
  <2>2. (index - Wide) % (2 * Half) = index - Wide + 2 * Half
    BY <1>2, HalfAssumption, WideAssumption DEF UUIDs
  <2>3. ColumnInt(index - Wide) = index - Wide
    BY <1>2, <2>2, HalfAssumption, WideAssumption DEF UUIDs, ColumnInt, Signed
  <2>4. (index - Wide) % Wide = index
    BY <1>2, HalfAssumption, WideAssumption DEF UUIDs
  <2> QED
    BY <2>1, <2>3, <2>4 DEF Unbind
<1> QED
  BY <1>1, <1>2 DEF Fits

\* A NodeID is read as it was bound (core.h:151-170) exactly when it is below 2^31
\* or among the last 2^31 values: both bounds are sharp.
THEOREM Exact == RoundTrip
<1> SUFFICES ASSUME NEW index \in UUIDs
             PROVE  Unbind(Bind(index)) = index <=> Fits(index)
  BY DEF RoundTrip, UUIDs
<1>1. Bind(index) \in Int
  BY WideAssumption DEF UUIDs, Bind, Signed
<1> QED
  BY <1>1, UnbindFits, FittingIsRead

\* The counters stay within their bounds, whatever is called and whatever fails, so
\* what a lookup reads from a row, in any reachable state, matches that row alone
\* if both its indexes fit an int, and does not match it otherwise.
THEOREM RowsAreFound == Spec => []IdentityIsRead
<1>1. IInv /\ Progress => IdentityIsRead
  <2> SUFFICES ASSUME IInv, Progress, NEW row \in Files
               PROVE  LET matched == Matching(Unbind(Bind(row.id)), Unbind(Bind(row.change)))
                      IN  IF Fits(row.id) /\ Fits(row.change) THEN matched = {row}
                          ELSE row \notin matched
    BY DEF IdentityIsRead
  <2>1. ASSUME NEW r \in Files PROVE r.id \in UUIDs /\ r.change \in UUIDs
    <3>1. r.id \in Nat /\ r.change \in Nat /\ FileCounter \in Nat /\ ChangeCounter \in Nat
      BY DEF IInv, TypeOK, ShareFile
    <3>2. r.id < FileCounter /\ r.change < ChangeCounter
      BY DEF IInv, IndexesAreFresh
    <3>3. FileCounter <= Wide /\ ChangeCounter <= Wide
      BY <3>1, HalfAssumption, WideAssumption, BoundsAssumption, CountersAssumption
         DEF Progress, CountersBounded
    <3> QED
      BY <3>1, <3>2, <3>3, WideAssumption DEF UUIDs
  <2>2. CASE Fits(row.id) /\ Fits(row.change)
    <3>1. Unbind(Bind(row.id)) = row.id /\ Unbind(Bind(row.change)) = row.change
      BY <2>1, <2>2, FittingIsRead
    <3>2. \A r \in Files : Bind(r.id) = Bind(row.id) => r.id = row.id
      BY <2>1, BindInjective
    <3>3. \A r \in Files : r.id = row.id => r = row
      BY DEF IInv, PrimaryKey
    <3>4. Matching(row.id, row.change) = {row}
      BY <3>2, <3>3 DEF Matching
    <3> QED
      BY <2>2, <3>1, <3>4
  <2>3. ASSUME NEW index \in UUIDs, ~Fits(index) PROVE Bind(Unbind(Bind(index))) # Bind(index)
    <3>1. Bind(index) \in Int
      BY WideAssumption DEF UUIDs, Bind, Signed
    <3>2. Unbind(Bind(index)) \in UUIDs /\ Unbind(Bind(index)) # index
      BY <2>3, <3>1, UnbindFits
    <3> QED
      BY <3>2, BindInjective
  <2>4. CASE ~(Fits(row.id) /\ Fits(row.change))
    BY <2>1, <2>3, <2>4 DEF Matching
  <2> QED
    BY <2>2, <2>4
<1> QED
  BY <1>1, Invariant, ProgressInvariant, PTL

=============================================================================
