------------------------ MODULE ShareCoreHistoryProofs ------------------------
(***************************************************************************)
(* Proofs about the core with a history, for any number of threads: which  *)
(* deleted files come back, whose messages are harmless, and which steps   *)
(* are steps of the share that its clients expect.                         *)
(***************************************************************************)
EXTENDS ShareCoreProofs, ShareCoreHistory, NaturalsInduction

\* Replaying the message changes nothing: its file has been created, or is past the
\* version that the message is about.
Settled(m) ==
  /\ m.op = "Create" => \E r \in Files : r.id = m.new.id
  /\ m.op # "Create" => \A r \in Files : r.id = m.file.id => m.file.change < r.change
  /\ m.op \in Updates => \E d \in Ancestry : d.id = m.new.change

\* The row of a Create is there once its statement has run.
CreateKnown ==
  pc \in {"ancestry", "file", "close"} =>
    \A c \in call : c.msg.op = "Create" => \E r \in Files : r.id = c.msg.new.id

\* A message is about a file that there is or was.
FilesKnown == \A m \in InPlay : m.op # "Create" => m.new.id \in Used

\* An index that was removed is not to be had again, and no message but a disputed
\* one brings it back.
RemovedIsPast ==
  /\ \A id \in removed : id \in Nat /\ id < FileCounter
  /\ \A r \in Files : r.id \in removed => r.id \in disputed
  /\ \A m \in InPlay : m.op = "Create" /\ m.new.id \in removed => m.new.id \in disputed

ReturnedIsSettled ==
  \A t \in returned :
    t \in Threads /\ \A m \in transactions[t] : m.new.id \in disputed \/ Settled(m)

\* A call whose transaction file is its own already has not returned.
LiveIsNotReturned ==
  \A c \in call : ~c.replay /\ pc # "open" => c.thread \notin returned

HistoryInv ==
  CreateKnown /\ FilesKnown /\ RemovedIsPast /\ ReturnedIsSettled /\ LiveIsNotReturned

\* All that the steps of a share with a history rest on.
Base == IInv /\ Progress /\ LookupsHold

-----------------------------------------------------------------------------
\* A new share has removed nothing.
LEMMA HistoryStarts == HistoryInit => HistoryInv
BY DEF HistoryInit, Init, HistoryInv, CreateKnown, FilesKnown, RemovedIsPast,
       ReturnedIsSettled, LiveIsNotReturned, InPlay

\* Past "open", the transaction file of the thread at work has its message at most.
LEMMA OwnMessage ==
  ASSUME IInv, Progress, pc # "open", NEW c \in call
  PROVE  transactions[c.thread] \subseteq {c.msg}
BY DEF Progress, OwnRecord, IInv, TypeOK, AtMostOne, Call

\* Where the messages come from that are in the transaction files after a step: the
\* file is left as it was, or it gets the message of its thread's call.
LEMMA RecordStep ==
  ASSUME IInv, Progress, Next, NEW t \in Threads, NEW m \in transactions'[t]
  PROVE  \/ m \in transactions[t] /\ t \notin Opening
         \/ \E c \in call : /\ ~c.replay /\ c.thread = t /\ m = c.msg
                            /\ pc # "open" \/ t \in Opening
<1>1. transactions \in [Threads -> SUBSET Message]
  BY DEF IInv, TypeOK
<1>2. CASE OpenRecord
  <2>1. PICK c \in call, written \in Durable :
          transactions' = [transactions EXCEPT ![c.thread] = IF written THEN {c.msg} ELSE {}]
    BY <1>2 DEF OpenRecord
  <2>2. call = {c} /\ c.thread \in Threads /\ pc = "open" /\ pc' = "row"
    BY <1>2, TheCall DEF OpenRecord
  <2>3. ~c.replay /\ Opening = {c.thread}
    BY <2>2 DEF Opening, Progress, OwnRecord
  <2>4. CASE t = c.thread
    BY <1>1, <2>1, <2>2, <2>3, <2>4
  <2>5. CASE t # c.thread
    BY <1>1, <2>1, <2>2, <2>3, <2>5
  <2> QED
    BY <2>4, <2>5
<1>3. ASSUME Close \/ Throw
      PROVE  m \in transactions[t] \/ \E c \in call : ~c.replay /\ c.thread = t /\ m = c.msg
  <2>1. PICK c \in call :
          \/ transactions' = transactions
          \/ c.replay /\ transactions' = [transactions EXCEPT ![c.thread] = {}]
          \/ ~c.replay /\ transactions' = [transactions EXCEPT ![c.thread] = {c.msg}]
    BY <1>3 DEF Close, Throw
  <2>2. c.thread \in Threads
    BY <2>1, TheCall
  <2> QED
    BY <1>1, <2>1, <2>2
<1>4. ASSUME ~OpenRecord PROVE Opening = {}
  <2>1. ASSUME NEW u \in Threads, Operation(u) PROVE Opening = {}
    BY <2>1, OperationFrame DEF Opening
  <2> QED
    BY <1>4, <2>1
       DEF Next, Advance, ApplyRow, ApplyAncestry, ApplyFile, Close, Throw, OpenFails,
           Stop, Crash, Halt, Start, Recover, Recovered, Replay, ReplayDies, Opening
<1>5. CASE Close \/ Throw
  <2>1. pc # "open" /\ ~OpenRecord
    BY <1>5 DEF Close, Throw, OpenRecord
  <2> QED
    BY <1>3, <1>4, <1>5, <2>1
<1>6. ASSUME NEW u \in Threads, Operation(u) PROVE transactions' = transactions /\ ~OpenRecord
  BY <1>6, OperationFrame DEF OpenRecord
<1>7. CASE ApplyRow \/ ApplyAncestry \/ ApplyFile \/ OpenFails \/ Stop \/ Crash \/ Start \/ Recover
  <2>1. transactions' = transactions
    BY <1>7 DEF ApplyRow, ApplyAncestry, ApplyFile, OpenFails, Stop, Crash, Halt, Start,
                Recover, Recovered, Replay, ReplayDies
  <2>2. CASE OpenRecord
    BY <1>2, <2>2
  <2> QED
    BY <1>4, <2>1, <2>2
<1> QED
  BY <1>2, <1>4, <1>5, <1>6, <1>7 DEF Next, Advance

\* The statement of a settled message changes no row, and no record is made of it.
LEMMA SettledIsNoOp ==
  ASSUME IInv, NEW c \in call, Settled(c.msg)
  PROVE  /\ ApplyRow => Files' = Files
         /\ ApplyAncestry => Ancestry' = Ancestry
<1>1. call = {c} /\ c.msg \in Message /\ Sound(c.msg)
  BY TheCall
<1>0. c.msg.op # "Create" => \A r \in Files : ~IsCurrent(r, c.msg.file)
  BY <1>1 DEF Settled, IsCurrent, Message, ShareFile
<1>2. ASSUME ApplyRow PROVE Files' = Files
  <2>1. \/ /\ c.msg.op = "Create"
           /\ \E time \in Times : Files' = CreateRow(Files, [c.msg.file EXCEPT !.modified = time])
        \/ c.msg.op = "Delete" /\ Files' = DeleteRow(Files, c.msg.file)
        \/ c.msg.op \in Updates /\ Files' = UpdatedTable(Files, c.msg)
    BY <1>1, <1>2, AppliedRow DEF IInv
  <2>2. CASE c.msg.op = "Create"
    <3>1. PICK time \in Times : Files' = CreateRow(Files, [c.msg.file EXCEPT !.modified = time])
      BY <2>1, <2>2 DEF Updates
    <3>2. [c.msg.file EXCEPT !.modified = time].id = c.msg.new.id
      BY <1>1, <2>2 DEF Message, ShareFile, Sound
    <3> QED
      BY <2>2, <3>1, <3>2 DEF Settled, CreateRow
  <2>3. CASE c.msg.op = "Delete"
    BY <2>1, <2>3, <1>0 DEF DeleteRow, Updates
  <2>4. CASE c.msg.op \in Updates
    <3>1. Files' = {Updated(r, c.msg) : r \in Files}
      BY <1>1, <2>1, <2>4, UpdatedRows DEF IInv, TypeOK, Updates
    <3>2. \A r \in Files : Updated(r, c.msg) = r
      BY <1>0, <2>4 DEF Updated, Updates
    <3> QED
      BY <3>1, <3>2
  <2> QED
    BY <1>1, <2>2, <2>3, <2>4 DEF Message, Operations
<1>3. ASSUME ApplyAncestry PROVE Ancestry' = Ancestry
  <2>1. c.msg.op \in Updates
    BY <1>3 DEF ApplyAncestry, IInv, StageMatches
  <2> QED
    BY <1>1, <1>3, <2>1 DEF ApplyAncestry, CreateChange, Settled
<1> QED
  BY <1>2, <1>3

\* The replay of the message of a returned call is that of a settled message, unless
\* it is disputed.
LEMMA ReturnedReplay ==
  ASSUME IInv, Progress, HistoryInv, NEW c \in call, c.replay, c.thread \in returned,
         c.msg.new.id \notin disputed
  PROVE  Settled(c.msg)
BY DEF Progress, OwnRecord, HistoryInv, ReturnedIsSettled

-----------------------------------------------------------------------------
(***************************************************************************)
(* HistoryInv is an invariant.                                             *)
(***************************************************************************)

\* Only ApplyRow changes "Files", only ApplyAncestry "Ancestry", and only an
\* operation brings a new message into play.
LEMMA StepFrame ==
  ASSUME IInv, [Next]_vars
  PROVE  /\ FileCounter' >= FileCounter
         /\ Ancestry \subseteq Ancestry'
         /\ ApplyRow \/ Files' = Files
         /\ ApplyRow \/ ApplyAncestry \/ UNCHANGED <<Files, Ancestry>>
         /\ \/ InPlay' \subseteq InPlay
            \/ /\ UNCHANGED <<Files, transactions>>
               /\ \E t \in Threads : \E m : Begins(t, m) /\ InPlay' = InPlay \cup {m}
<1>1. FileCounter \in Nat
  BY DEF IInv, TypeOK
<1>2. CASE UNCHANGED vars
  BY <1>1, <1>2 DEF vars, InPlay
<1>3. CASE ApplyRow \/ ApplyAncestry
  <2>1. Ancestry \subseteq Ancestry'
    BY <1>3 DEF ApplyRow, ApplyAncestry, CreateChange
  <2>2. InPlay' = InPlay /\ FileCounter' = FileCounter
    BY <1>3 DEF ApplyRow, ApplyAncestry, InPlay
  <2> QED
    BY <1>1, <1>3, <2>1, <2>2 DEF ApplyAncestry
<1>4. ASSUME NEW t \in Threads, Operation(t)
      PROVE  /\ FileCounter' >= FileCounter
             /\ UNCHANGED <<Files, Ancestry, transactions>>
             /\ \/ InPlay' \subseteq InPlay
                \/ \E m : Begins(t, m) /\ InPlay' = InPlay \cup {m}
  <2>1. /\ call = {} /\ UNCHANGED <<Files, Ancestry, transactions>>
        /\ FileCounter' = FileCounter \/ FileCounter' \in (FileCounter + 1) .. MaxFile
        /\ UNCHANGED <<pc, call>> \/ \E m : Begins(t, m)
    BY <1>4, OperationFrame
  <2>2. CASE UNCHANGED <<pc, call>>
    BY <1>1, <2>1, <2>2 DEF InPlay
  <2>3. CASE \E m : Begins(t, m)
    <3>1. PICK m : Begins(t, m)
      BY <2>3
    <3>2. {c.msg : c \in call'} = {m} /\ {c.msg : c \in call} = {}
      BY <2>1, <3>1 DEF Begins
    <3>3. InPlay' = InPlay \cup {m}
      BY <2>1, <3>2 DEF InPlay
    <3> QED
      BY <1>1, <2>1, <3>1, <3>3
  <2> QED
    BY <2>1, <2>2, <2>3
<1>5. CASE OpenRecord \/ ApplyFile \/ Close \/ Throw \/ OpenFails \/ Stop \/ Crash \/ Start \/ Recover
  BY <1>1, <1>5, OtherFrame DEF IInv
<1> QED
  BY <1>2, <1>3, <1>4, <1>5 DEF Next, Advance

\* The statement of a Create leaves a row with its index, whether it made it or not.
LEMMA CreateKnownNext ==
  ASSUME IInv, CreateKnown, [Next]_vars
  PROVE  CreateKnown'
<1>1. CASE ApplyRow
  <2>1. PICK c \in call : TRUE
    BY <1>1 DEF ApplyRow
  <2>2. call = {c} /\ call' = call /\ c.msg \in Message /\ Sound(c.msg)
    BY <1>1, TheCall DEF ApplyRow
  <2>3. ASSUME c.msg.op = "Create" PROVE \E r \in Files' : r.id = c.msg.new.id
    <3>1. PICK time \in Times : Files' = CreateRow(Files, [c.msg.file EXCEPT !.modified = time])
      BY <1>1, <2>2, <2>3, AppliedRow DEF IInv, Updates
    <3>2. [c.msg.file EXCEPT !.modified = time].id = c.msg.new.id
      BY <2>2, <2>3 DEF Message, ShareFile, Sound
    <3> QED
      BY <3>1, <3>2 DEF CreateRow
  <2> QED
    BY <2>2, <2>3 DEF CreateKnown
<1>2. CASE ApplyAncestry \/ ApplyFile \/ UNCHANGED vars
  <2>1. UNCHANGED <<Files, call>> /\ (pc' \in {"ancestry", "file", "close"} => pc \in {"ancestry", "file", "close"})
    BY <1>2 DEF ApplyAncestry, ApplyFile, database, vars
  <2> QED
    BY <2>1 DEF CreateKnown
<1>3. ASSUME NEW t \in Threads, Operation(t) PROVE CreateKnown'
  BY <1>3, OperationFrame DEF Begins, CreateKnown
<1>4. CASE OpenRecord \/ Close \/ Throw \/ OpenFails \/ Stop \/ Crash \/ Start \/ Recover
  <2>1. pc' \notin {"ancestry", "file", "close"}
    BY <1>4 DEF OpenRecord, Close, Throw, OpenFails, Stop, Crash, Halt, Start, Recover,
                Recovered, Replay, ReplayDies
  <2> QED
    BY <2>1 DEF CreateKnown
<1> QED
  BY <1>1, <1>2, <1>3, <1>4 DEF Next, Advance

\* What a step does to the history of the deletions.
LEMMA HistoryFrame ==
  ASSUME HistoryNext
  PROVE  /\ Next
         /\ removed' = removed \cup (Ids(Files) \ Ids(Files'))
         /\ disputed \subseteq disputed'
         /\ \A id \in Ids(Files) \ Ids(Files'), t \in Others :
              (\E m \in transactions[t] : Creates(m, id)) => id \in disputed'
         /\ Used \subseteq Used'
<1>1. /\ Next
      /\ removed' = removed \cup (Ids(Files) \ Ids(Files'))
      /\ disputed' = disputed \cup
           {id \in Ids(Files) \ Ids(Files') : \E t \in Others : \E m \in transactions[t] : Creates(m, id)}
  BY DEF HistoryNext
<1> QED
  BY <1>1 DEF Used, Ids

\* No step lets go of a file that a message is about.
LEMMA FilesKnownNext ==
  ASSUME IInv, IInv', FilesKnown, HistoryNext
  PROVE  FilesKnown'
<1>1. Used \subseteq Used' /\ [Next]_vars
  BY HistoryFrame
<1>2. CASE InPlay' \subseteq InPlay
  BY <1>1, <1>2 DEF FilesKnown
<1>3. ASSUME NEW t \in Threads, NEW m, Begins(t, m), InPlay' = InPlay \cup {m}, m.op # "Create"
      PROVE  m.new.id \in Used
  <2>1. Sound(m)
    BY <1>3 DEF IInv, MessagesAreSound, Sound
  <2>2. m.file \in Files \/ m.file.id = Null
    BY <1>3 DEF Begins, Entries, SplitFile, RootRow
  <2>3. \E r \in Files : r.id = Null
    BY DEF IInv, RootRowStays
  <2> QED
    BY <2>1, <2>2, <2>3 DEF Sound, Used, Ids
<1> QED
  BY <1>1, <1>2, <1>3, StepFrame DEF FilesKnown

\* A statement takes a row away from the messages of its creation, or it is disputed.
LEMMA RemovedNext ==
  ASSUME Base, HistoryInv, HistoryNext, IInv'
  PROVE  RemovedIsPast'
<1>1. /\ IInv /\ Progress /\ RemovedIsPast /\ [Next]_vars
      /\ removed' = removed \cup (Ids(Files) \ Ids(Files'))
      /\ disputed \subseteq disputed'
  BY HistoryFrame DEF Base, HistoryInv
<1>2. /\ FileCounter \in Nat /\ FileCounter' \in Nat /\ FileCounter' >= FileCounter
      /\ \A r \in Files : r.id \in Nat /\ r.id < FileCounter
  BY <1>1, StepFrame DEF IInv, TypeOK, IndexesAreFresh, ShareFile
<1>3. \A id \in removed' : id \in Nat /\ id < FileCounter'
  BY <1>1, <1>2 DEF RemovedIsPast, Ids
<1>4. ASSUME Files' = Files
      PROVE  RemovedIsPast'
  <2>1. removed' = removed
    BY <1>1, <1>4
  <2>2. ASSUME NEW m \in InPlay', m.op = "Create", m.new.id \in removed
        PROVE  m.new.id \in disputed
    <3>1. CASE InPlay' \subseteq InPlay
      BY <1>1, <2>2, <3>1 DEF RemovedIsPast
    <3>2. ASSUME NEW t \in Threads, NEW n, Begins(t, n), InPlay' = InPlay \cup {n}
          PROVE  m.new.id \in disputed
      <4>1. CASE m = n
        <5>1. Sound(m)
          BY <3>2, <4>1 DEF IInv, MessagesAreSound, Sound
        <5> QED
          BY <1>1, <1>2, <2>2, <3>2, <4>1, <5>1 DEF Begins, Sound, RemovedIsPast
      <4>2. CASE m \in InPlay
        BY <1>1, <2>2, <4>2 DEF RemovedIsPast
      <4> QED
        BY <3>2, <4>1, <4>2
    <3> QED
      BY <1>1, <3>1, <3>2, StepFrame
  <2> QED
    BY <1>1, <1>3, <1>4, <2>1, <2>2 DEF RemovedIsPast
<1>5. CASE ApplyRow
  <2>1. PICK c \in call : TRUE
    BY <1>5 DEF ApplyRow
  <2>2. InPlay' = InPlay /\ pc = "row"
    BY <1>5 DEF ApplyRow, InPlay
  <2>3. call = {c} /\ c.msg \in InPlay /\ Sound(c.msg) /\ c.msg \in Message
    BY <1>1, <2>1, TheCall
  <2>4. ASSUME NEW s \in Files', s.id \in removed PROVE s.id \in disputed
    <3>1. CASE s \in Files
      BY <1>1, <2>4, <3>1 DEF RemovedIsPast
    <3>2. CASE c.msg.op \in Updates /\ \E r \in Files : IsCurrent(r, c.msg.file) /\ s = Updated(r, c.msg)
      <4>1. PICK r \in Files : IsCurrent(r, c.msg.file) /\ s = Updated(r, c.msg)
        BY <3>2
      <4>2. s.id = r.id
        BY <1>1, <2>3, <3>2, <4>1, UpdatedRows DEF Version, IInv, TypeOK
      <4> QED
        BY <1>1, <2>4, <4>2 DEF RemovedIsPast
    <3>3. CASE c.msg.op = "Create" /\ s \notin Files
      <4>1. IsAbout(c.msg, s)
        BY <1>1, <1>5, <2>1, <3>3, RowOrigin
      <4> QED
        BY <1>1, <2>3, <2>4, <3>3, <4>1 DEF IsAbout, RemovedIsPast
    <3> QED
      BY <1>1, <1>5, <2>1, <3>1, <3>2, <3>3, RowOrigin
  <2>5. \A s \in Files' : s.id \in removed' => s.id \in disputed'
    BY <1>1, <2>4 DEF Ids
  <2>6. ASSUME NEW m \in InPlay, m.op = "Create", m.new.id \in Ids(Files) \ Ids(Files')
        PROVE  m.new.id \in disputed'
    <3>1. CASE m = c.msg
      <4>1. Files \subseteq Files'
        BY <1>1, <1>5, <2>3, <2>6, <3>1, AppliedRow DEF IInv, Updates, CreateRow
      <4> QED
        BY <2>6, <4>1 DEF Ids
    <3>2. CASE m # c.msg
      <4>1. PICK t \in Threads : m \in transactions[t]
        BY <2>3, <3>2 DEF InPlay
      <4>2. t # c.thread
        BY <1>1, <2>2, <3>2, <4>1, OwnMessage
      <4>3. t \in Others /\ Creates(m, m.new.id)
        BY <2>3, <2>6, <4>2 DEF Others, Creates
      <4> QED
        BY <2>6, <4>1, <4>3, HistoryFrame
    <3> QED
      BY <3>1, <3>2
  <2> QED
    BY <1>1, <1>3, <2>2, <2>5, <2>6 DEF RemovedIsPast
<1> QED
  BY <1>1, <1>4, <1>5, StepFrame

\* What is settled stays so as long as the rows do.
LEMMA SettledStays ==
  ASSUME Files' = Files, Ancestry \subseteq Ancestry', NEW m, Settled(m)
  PROVE  Settled(m)'
BY DEF Settled

\* A settled message stays so, whatever the threads do, unless a deletion of its file
\* is disputed: no other thread's statement takes the row of a Create away, and none
\* brings back what a message has dealt with.
LEMMA SettledNext ==
  ASSUME Base, HistoryInv, HistoryNext, NEW t \in Threads, NEW m \in transactions[t],
         Settled(m), m.new.id \notin disputed'
  PROVE  Settled(m)'
<1>1. /\ IInv /\ Progress /\ RemovedIsPast /\ FilesKnown /\ [Next]_vars
      /\ removed' = removed \cup (Ids(Files) \ Ids(Files'))
      /\ m.new.id \notin disputed
  BY HistoryFrame DEF Base, HistoryInv
<1>2. Ancestry \subseteq Ancestry' /\ (ApplyRow \/ Files' = Files)
  BY <1>1, StepFrame
<1>3. CASE Files' = Files
  BY <1>2, <1>3, SettledStays
<1>4. CASE ApplyRow
  <2>1. PICK c \in call : TRUE
    BY <1>4 DEF ApplyRow
  <2>2. call = {c} /\ c.msg \in InPlay /\ Sound(c.msg) /\ pc = "row"
    BY <1>1, <1>4, <2>1, TheCall DEF ApplyRow
  <2>3. m \in InPlay /\ Sound(m) /\ m \in Message
    BY <1>1 DEF InPlay, IInv, MessagesAreSound, TypeOK
  <2>4. Forward
    BY <1>1, <1>4, ApplyRowForward
  <2>5. ASSUME m.op = "Create" PROVE \E s \in Files' : s.id = m.new.id
    <3>1. PICK r \in Files : r.id = m.new.id
      BY <2>5 DEF Settled
    <3>2. SUFFICES ASSUME \A s \in Files' : s.id # r.id PROVE FALSE
      BY <3>1
    <3>3. c.msg.op = "Delete"
      BY <2>2, <2>4, <3>2 DEF Forward, Doing
    <3>4. t # c.thread
      BY <1>1, <2>2, <2>5, <3>3, OwnMessage
    <3>5. t \in Others /\ Creates(m, r.id) /\ r.id \in Ids(Files) \ Ids(Files')
      BY <2>2, <2>5, <3>1, <3>2, <3>4 DEF Others, Creates, Ids
    <3> QED
      BY <3>1, <3>5, HistoryFrame
  <2>6. ASSUME m.op # "Create", NEW s \in Files', s.id = m.file.id PROVE m.file.change < s.change
    <3>1. ASSUME \A r \in Files : r.id # s.id PROVE FALSE
      <4>1. c.msg.op = "Create" /\ c.msg.new.id = s.id
        BY <2>2, <2>4, <3>1 DEF Forward, Doing, Sound
      <4>2. m.new.id = s.id /\ m.new.id \in removed
        BY <1>1, <2>3, <2>6, <3>1 DEF Sound, FilesKnown, Used, Ids
      <4> QED
        BY <1>1, <2>2, <4>1, <4>2 DEF RemovedIsPast
    <3>2. PICK r \in Files : r.id = s.id
      BY <3>1
    <3>3. m.file.change < r.change /\ (s = r \/ r.change < s.change)
      BY <2>4, <2>6, <3>2 DEF Settled, Forward
    <3>4. (r.change \in Nat /\ s.change \in Nat) \/ s = r
      <4>1. TypeOK /\ TypeOK'
        BY <1>1, NextTypes DEF IInv
      <4> QED
        BY <3>2, <4>1 DEF TypeOK, ShareFile
    <3>5. m.file.change \in Nat
      BY <2>3 DEF Message, ShareFile
    <3> QED
      BY <3>3, <3>4, <3>5
  <2> QED
    BY <1>2, <2>5, <2>6 DEF Settled
<1> QED
  BY <1>2, <1>3, <1>4

\* The call that returns in this step has left a settled message behind.
LEMMA ReturningIsSettled ==
  ASSUME Base, HistoryInv, Next, NEW t \in Returning
  PROVE  t \in Threads /\ call' = {} /\ \A m \in transactions'[t] : Settled(m)'
<1> USE DEF Base
<1>1. PICK c \in call : c.thread = t /\ ~c.replay /\ pc = "close" /\ pc' = "idle"
  BY DEF Returning
<1>2. call = {c} /\ c.thread \in Threads /\ Sound(c.msg) /\ c.msg \in Message
  BY TheCall
<1>3. Close
  BY <1>1, OperationFrame
     DEF Next, Advance, OpenRecord, ApplyRow, ApplyAncestry, ApplyFile, Throw, OpenFails, Stop,
         Crash, Halt, Start, Recover, Recovered, Replay, ReplayDies
<1>4. transactions'[t] = {c.msg} /\ call' = {} /\ UNCHANGED <<Files, Ancestry>>
  BY <1>1, <1>2, <1>3 DEF Close, database, IInv, TypeOK
<1>5. c.msg.op = "Create" => \E r \in Files : r.id = c.msg.new.id
  BY <1>1 DEF HistoryInv, CreateKnown
<1>6. c.msg.op \in Updates => \E d \in Ancestry : d.id = c.msg.new.change
  BY <1>1 DEF Progress, RecordMade
<1>7. Effect(c.msg)
  BY <1>1 DEF LookupsHold
<1>8. ASSUME NEW r \in Files, c.msg.op # "Create", r.id = c.msg.file.id
      PROVE  c.msg.file.change < r.change
  <2>1. c.msg.op \in Updates /\ (c.msg.new \in Files \/ c.msg.file = SplitFile)
    BY <1>2, <1>7, <1>8 DEF Effect, Message, Operations
  <2>2. CASE c.msg.new \in Files
    <3>1. r = c.msg.new
      BY <1>2, <1>8, <2>2 DEF IInv, PrimaryKey, Sound
    <3> QED
      BY <1>2, <2>1, <3>1 DEF Sound
  <2>3. CASE c.msg.file = SplitFile
    <3>1. c.msg.file.change = Null /\ Null = 0
      BY <2>3 DEF SplitFile, RootRow, Null
    <3>2. ~IsCurrent(r, c.msg.file)
      BY <1>1, <1>8 DEF Progress, Outdated
    <3>3. r.change \in Nat
      BY DEF IInv, TypeOK, ShareFile
    <3> QED
      BY <1>8, <3>1, <3>2, <3>3 DEF IsCurrent
  <2> QED
    BY <2>1, <2>2, <2>3
<1>9. Settled(c.msg)
  BY <1>5, <1>6, <1>8 DEF Settled
<1> QED
  BY <1>1, <1>2, <1>4, <1>9, SettledStays

\* The other messages of "returned" are in files that the step leaves alone.
LEMMA ReturnedNext ==
  ASSUME Base, HistoryInv, HistoryNext
  PROVE  ReturnedIsSettled'
<1>1. /\ IInv /\ Progress /\ Next /\ returned' = (returned \ Opening) \cup Returning
      /\ ReturnedIsSettled /\ LiveIsNotReturned /\ disputed \subseteq disputed'
  BY HistoryFrame DEF Base, HistoryInv, HistoryNext
<1>2. ASSUME NEW t \in returned \ Opening
      PROVE  t \in Threads /\ \A m \in transactions'[t] : m.new.id \in disputed' \/ Settled(m)'
  <2>1. t \in Threads /\ \A m \in transactions[t] : m.new.id \in disputed \/ Settled(m)
    BY <1>1 DEF ReturnedIsSettled
  <2>2. \A m \in transactions'[t] : m \in transactions[t]
    BY <1>1, <1>2, <2>1, RecordStep DEF LiveIsNotReturned
  <2> QED
    BY <1>1, <2>1, <2>2, SettledNext
<1>3. ASSUME NEW t \in Returning
      PROVE  t \in Threads /\ \A m \in transactions'[t] : Settled(m)'
  BY <1>1, ReturningIsSettled
<1> QED
  BY <1>1, <1>2, <1>3 DEF ReturnedIsSettled

\* A call that opens its transaction file is out of "returned", until it returns.
LEMMA LiveNext ==
  ASSUME Base, HistoryInv, HistoryNext
  PROVE  LiveIsNotReturned'
<1>1. /\ IInv /\ Progress /\ Next /\ returned' = (returned \ Opening) \cup Returning
      /\ LiveIsNotReturned
  BY HistoryFrame DEF Base, HistoryInv, HistoryNext
<1>2. SUFFICES ASSUME NEW c \in call', ~c.replay, pc' # "open"
               PROVE  c.thread \notin returned'
  BY DEF LiveIsNotReturned
<1>3. CASE OpenRecord
  <2>1. call' = call /\ pc = "open" /\ pc' = "row"
    BY <1>3 DEF OpenRecord
  <2>2. c.thread \in Opening /\ Returning = {}
    BY <1>2, <2>1 DEF Opening, Returning
  <2> QED
    BY <1>1, <2>2
<1>4. CASE ApplyRow \/ ApplyAncestry \/ ApplyFile
  <2>1. call' = call /\ pc # "open" /\ pc' # "idle"
    BY <1>4 DEF ApplyRow, ApplyAncestry, ApplyFile
  <2>2. Returning = {}
    BY <2>1 DEF Returning
  <2> QED
    BY <1>1, <1>2, <2>1, <2>2 DEF LiveIsNotReturned
<1>5. ASSUME NEW t \in Threads, Operation(t) PROVE FALSE
  BY <1>1, <1>2, <1>5, OperationFrame DEF Begins
<1>6. CASE Close \/ Throw \/ OpenFails \/ Stop \/ Crash \/ Start \/ Recover
  <2>1. \A d \in call' : d.replay \/ (d \in call /\ pc \notin Stages)
    BY <1>6 DEF Close, Throw, OpenFails, Stop, Crash, Halt, Start, Recover, Recovered,
                Replay, ReplayDies, Stages
  <2> QED
    BY <1>1, <1>2, <2>1, TheCall
<1> QED
  BY <1>1, <1>3, <1>4, <1>5, <1>6 DEF Next, Advance

\* A specification with a history is one of the core.
LEMMA HistoryIsCore == HistorySpec => Spec
<1>1. HistoryInit => Init
  BY DEF HistoryInit
<1>2. [HistoryNext]_<<vars, history>> => [Next]_vars
  BY DEF HistoryNext
<1> QED
  BY <1>1, <1>2, PTL DEF HistorySpec, Spec

\* For any threads, HistoryInv is an invariant: a removed index is past, and the
\* messages of returned calls are settled, unless the deletion is disputed.
THEOREM HistoryInvariant == HistorySpec => []HistoryInv
<1>1. Base /\ Base' /\ HistoryInv /\ [HistoryNext]_<<vars, history>> => HistoryInv'
  <2> SUFFICES ASSUME Base, Base', HistoryInv, [HistoryNext]_<<vars, history>>
               PROVE  HistoryInv'
    OBVIOUS
  <2>1. CASE HistoryNext
    BY <2>1, CreateKnownNext, FilesKnownNext, RemovedNext, ReturnedNext, LiveNext, HistoryFrame
       DEF Base, HistoryInv
  <2>2. CASE UNCHANGED <<vars, history>>
    BY <2>2 DEF vars, history, HistoryInv, CreateKnown, FilesKnown, RemovedIsPast,
                ReturnedIsSettled, Settled, LiveIsNotReturned, InPlay, Used, Ids
  <2> QED
    BY <2>1, <2>2
<1>2. Spec => []Base
  BY Invariant, ProgressInvariant, LookupsInvariant, PTL DEF Base
<1> QED
  BY <1>1, <1>2, HistoryStarts, HistoryIsCore, PTL DEF HistorySpec

\* For any threads, whatever crashes, throws and is replayed, a deleted file comes
\* back only by the message of its creation, left by another thread than the one
\* that deleted it.
THEOREM NoFileComesBack == HistorySpec => []DeletedStaysDeleted
<1>1. HistoryInv => DeletedStaysDeleted
  BY DEF HistoryInv, RemovedIsPast, DeletedStaysDeleted, Ids
<1> QED
  BY <1>1, HistoryInvariant, PTL

\* For any threads, to replay the message of a call that has returned changes neither
\* table, unless a deletion of its file is disputed.
THEOREM ReturnedIsHarmless == HistorySpec => ReturnedReplayIsNoOp
<1>1. IInv /\ Progress /\ HistoryInv /\ [Next]_vars =>
        [(\E c \in call : c.replay /\ c.thread \in returned /\ c.msg.new.id \notin disputed)
           => UNCHANGED <<Files, Ancestry>>]_vars
  <2> SUFFICES ASSUME IInv, Progress, HistoryInv, Next,
                      NEW c \in call, c.replay, c.thread \in returned, c.msg.new.id \notin disputed
               PROVE  UNCHANGED <<Files, Ancestry>>
    OBVIOUS
  <2>1. Settled(c.msg)
    BY ReturnedReplay
  <2> QED
    BY <2>1, SettledIsNoOp, StepFrame DEF ApplyRow, ApplyAncestry
<1> QED
  BY <1>1, Invariant, ProgressInvariant, HistoryIsCore, HistoryInvariant, PTL
     DEF Spec, ReturnedReplayIsNoOp

-----------------------------------------------------------------------------
(***************************************************************************)
(* What a path leads to.  The lookups go down a path component by          *)
(* component; the proofs about them go by the least component at which     *)
(* something could be wrong.                                               *)
(***************************************************************************)

\* A set of naturals that is not empty has a least element.
LEMMA LeastNatural ==
  ASSUME NEW S \in SUBSET Nat, S # {}
  PROVE  \E n \in S : \A k \in S : n <= k
<1> DEFINE R == OpToRel(<, Nat)
<1>1. IsWellFoundedOn(R, Nat)
  BY NatLessThanWellFounded
<1>2. \A i, j \in Nat : <<i, j>> \in R <=> i < j
  BY DEF OpToRel
<1> HIDE DEF R
<1>3. PICK n \in S : \A k \in S : <<k, n>> \notin R
  BY <1>1, WFMin
<1>4. ASSUME NEW k \in S PROVE n <= k
  <2>1. ~(k < n)
    BY <1>2, <1>3
  <2> QED
    BY <2>1
<1> QED
  BY <1>4

\* The values of a recursion up to n.
Begun(g, n, first, step) ==
  /\ g[0] = first
  /\ \A k \in 1 .. n : g[k] = step[k][g[k - 1]]

\* f starts with first and goes on by step.
Recursion(f, V, first, step) ==
  /\ f \in [Nat -> V]
  /\ f[0] = first
  /\ \A n \in Nat : n # 0 => f[n] = step[n][f[n - 1]]

\* There is a function with a given first value that steps as it is told.
LEMMA RecursiveFunction ==
  ASSUME NEW V, NEW first \in V, NEW step \in [Nat -> [V -> V]]
  PROVE  \E f : Recursion(f, V, first, step)
<1> DEFINE begun(n) == {g \in [0 .. n -> V] : Begun(g, n, first, step)}
           none == {n \in Nat : begun(n) = {}}
<1>1. \A n \in Nat : begun(n) # {}
  <2>1. SUFFICES ASSUME none # {} PROVE FALSE
    OBVIOUS
  <2>2. PICK n \in none : \A k \in none : n <= k
    BY <2>1, LeastNatural
  <2>3. n \in Nat /\ \A g \in [0 .. n -> V] : ~Begun(g, n, first, step)
    OBVIOUS
  <2>4. CASE n = 0
    <3> DEFINE h == [k \in 0 .. n |-> first]
    <3>1. h \in [0 .. n -> V] /\ h[0] = first
      BY <2>4
    <3>2. Begun(h, n, first, step)
      BY <2>4, <3>1 DEF Begun
    <3> QED
      BY <2>3, <3>1, <3>2
  <2>5. CASE n # 0
    <3>1. n - 1 \in Nat /\ n - 1 \notin none
      BY <2>2, <2>3, <2>5
    <3>2. PICK g \in [0 .. n - 1 -> V] : Begun(g, n - 1, first, step)
      BY <3>1
    <3> DEFINE h == [k \in 0 .. n |-> IF k = n THEN step[n][g[n - 1]] ELSE g[k]]
    <3>3. g[n - 1] \in V /\ step[n][g[n - 1]] \in V
      BY <2>3, <3>1, <3>2
    <3>4. h \in [0 .. n -> V]
      BY <2>3, <3>2, <3>3
    <3>5. h[0] = first
      BY <2>3, <2>5, <3>2 DEF Begun
    <3>6. ASSUME NEW k \in 1 .. n PROVE h[k] = step[k][h[k - 1]]
      <4>1. CASE k = n
        BY <2>3, <4>1
      <4>2. CASE k # n
        BY <2>3, <3>2, <4>2 DEF Begun
      <4> QED
        BY <4>1, <4>2
    <3>7. Begun(h, n, first, step)
      BY <3>5, <3>6 DEF Begun
    <3> QED
      BY <2>3, <3>4, <3>7
  <2> QED
    BY <2>4, <2>5
<1>2. ASSUME NEW m \in Nat, NEW n \in Nat, NEW g, NEW h,
             Begun(g, m, first, step), Begun(h, n, first, step),
             NEW k \in Nat, k <= m, k <= n
      PROVE  g[k] = h[k]
  <2> DEFINE differ == {i \in Nat : i <= m /\ i <= n /\ g[i] # h[i]}
  <2>1. SUFFICES ASSUME differ # {} PROVE FALSE
    BY <1>2
  <2>2. PICK i \in differ : \A j \in differ : i <= j
    BY <2>1, LeastNatural
  <2>3. CASE i = 0
    BY <1>2, <2>2, <2>3 DEF Begun
  <2>4. CASE i # 0
    <3>1. i - 1 \in Nat /\ i - 1 \notin differ /\ i \in 1 .. m /\ i \in 1 .. n
      BY <2>2, <2>4
    <3>2. g[i - 1] = h[i - 1]
      BY <2>2, <3>1
    <3>3. g[i] = step[i][g[i - 1]] /\ h[i] = step[i][h[i - 1]]
      BY <1>2, <3>1 DEF Begun
    <3> QED
      BY <2>2, <3>2, <3>3
  <2> QED
    BY <2>3, <2>4
<1> DEFINE part(n) == CHOOSE g : g \in begun(n)
<1>3. \A n \in Nat : part(n) \in [0 .. n -> V] /\ Begun(part(n), n, first, step)
  <2>1. ASSUME NEW n \in Nat PROVE part(n) \in begun(n)
    BY <1>1, <2>1
  <2> QED
    BY <2>1
<1> HIDE DEF part
<1> DEFINE f == [n \in Nat |-> part(n)[n]]
<1>4. f \in [Nat -> V]
  <2>1. ASSUME NEW n \in Nat PROVE part(n)[n] \in V
    BY <1>3
  <2> QED
    BY <2>1
<1>5. f[0] = first
  BY <1>3 DEF Begun
<1>6. ASSUME NEW n \in Nat, n # 0 PROVE f[n] = step[n][f[n - 1]]
  <2>1. n - 1 \in Nat /\ n \in 1 .. n
    BY <1>6
  <2>2. f[n] = part(n)[n] /\ f[n - 1] = part(n - 1)[n - 1]
    BY <2>1
  <2>3. part(n)[n] = step[n][part(n)[n - 1]]
    BY <1>3, <2>1 DEF Begun
  <2>4. part(n)[n - 1] = part(n - 1)[n - 1]
    BY <1>2, <1>3, <2>1
  <2> QED
    BY <2>2, <2>3, <2>4
<1>7. Recursion(f, V, first, step)
  BY <1>4, <1>5, <1>6 DEF Recursion
<1> QED
  BY <1>7

-----------------------------------------------------------------------------
\* What a lookup may come to.
Outcomes(files) == {Found(r) : r \in files} \cup {Error("Missing"), Error("Invalid")}

\* A step of a lookup leads from outcomes to outcomes; what it finds is below a
\* directory that it has found before.
LEMMA LookupOutcomes ==
  ASSUME NEW files, NEW d \in Outcomes(files), NEW name
  PROVE  /\ AsDirectory(d) \in Outcomes(files)
         /\ Lookup(files, d, name) \subseteq Outcomes(files)
<1>1. AsDirectory(d) \in Outcomes(files)
  BY DEF AsDirectory, Outcomes
<1>2. CASE d.code # "OK"
  BY <1>1, <1>2 DEF Lookup
<1>3. CASE d.code = "OK"
  <2>1. \A r \in GetFile(files, d.file.id, name) : r \in files
    BY DEF GetFile
  <2> QED
    BY <1>1, <1>3, <2>1 DEF Lookup, Outcomes
<1> QED
  BY <1>1, <1>2, <1>3

\* Reached goes on by one component of the path at a time.
LEMMA ReachedSteps ==
  ASSUME NEW files, NEW path
  PROVE  /\ Reached(files, path) \in [Nat -> SUBSET Outcomes(files)]
         /\ Reached(files, path)[0] = GetRoot(files)
         /\ \A n \in Nat : n # 0 =>
              Reached(files, path)[n] =
                {AsDirectory(r) : r \in UNION {Lookup(files, d, path[n]) :
                                                 d \in Reached(files, path)[n - 1]}}
<1> DEFINE V == SUBSET Outcomes(files)
           After(n, results) ==
             {AsDirectory(r) : r \in UNION {Lookup(files, d, path[n]) : d \in results}}
           step == [n \in Nat |-> [results \in V |-> After(n, results)]]
           Steps(f) == f = [n \in Nat |-> IF n = 0 THEN GetRoot(files) ELSE After(n, f[n - 1])]
<1>1. GetRoot(files) \in V
  BY DEF GetRoot, GetFile, Outcomes
<1>2. ASSUME NEW n \in Nat, NEW results \in V PROVE After(n, results) \in V
  BY LookupOutcomes
<1>3. step \in [Nat -> [V -> V]]
  BY <1>2
<1>4. \A n \in Nat, results \in V : step[n][results] = After(n, results)
  OBVIOUS
<1> HIDE DEF step, V, After
<1>5. PICK f : Recursion(f, V, GetRoot(files), step)
  BY <1>1, <1>3, RecursiveFunction
<1>6. f[0] = GetRoot(files) /\ \A n \in Nat : n # 0 => f[n] = After(n, f[n - 1])
  BY <1>4, <1>5 DEF Recursion
<1>7. Steps(f)
  <2>1. f = [n \in Nat |-> f[n]]
    BY <1>5 DEF Recursion
  <2> QED
    BY <1>6, <2>1
<1>8. Reached(files, path) = CHOOSE g : Steps(g)
  BY Zenon DEF Reached, After
<1> HIDE DEF Steps
<1>9. Steps(Reached(files, path))
  BY <1>7, <1>8, Zenon
<1> DEFINE g == Reached(files, path)
<1>10. g = [n \in Nat |-> IF n = 0 THEN GetRoot(files) ELSE After(n, g[n - 1])]
  BY <1>9 DEF Steps
<1> HIDE DEF g
<1>11. g[0] = GetRoot(files) /\ \A n \in Nat : n # 0 => g[n] = After(n, g[n - 1])
  BY <1>10
<1>12. g \in [Nat -> V]
  <2> DEFINE bad == {n \in Nat : g[n] \notin V}
  <2>1. ASSUME bad # {} PROVE FALSE
    <3>1. PICK n \in bad : \A k \in bad : n <= k
      BY <2>1, LeastNatural
    <3>2. CASE n = 0
      BY <1>1, <1>11, <3>1, <3>2
    <3>3. CASE n # 0
      <4>1. n - 1 \in Nat /\ g[n - 1] \in V
        BY <3>1, <3>3
      <4> QED
        BY <1>2, <1>11, <3>1, <3>3, <4>1
    <3> QED
      BY <3>2, <3>3
  <2> QED
    BY <1>10, <2>1
<1> QED
  BY <1>11, <1>12 DEF g, V, After

-----------------------------------------------------------------------------
(***************************************************************************)
(* What a callback of FUSE gets from the core.                             *)
(***************************************************************************)

\* The codes of a lookup.
LookupCodes == {"OK", "Missing", "Invalid"}

\* What a result says.
LEMMA ResultFields ==
  /\ \A file : Found(file).code = "OK" /\ Found(file).file = file
  /\ \A code : Error(code).code = code
BY DEF Found, Error

\* An outcome has one of these codes.
LEMMA OutcomeCodes ==
  ASSUME NEW files, NEW r \in Outcomes(files)
  PROVE  r.code \in LookupCodes
<1>1. CASE \E file \in files : r = Found(file)
  BY <1>1, ResultFields DEF LookupCodes
<1>2. CASE r = Error("Missing") \/ r = Error("Invalid")
  BY <1>2, ResultFields DEF LookupCodes
<1> QED
  BY <1>1, <1>2 DEF Outcomes

\* What a path that is neither the root's nor below /splits leads to, and the
\* directory it is in, are outcomes.
LEMMA OrdinaryOutcomes ==
  ASSUME NEW files, NEW path \in Seq(Names), ~IsRootPath(path), ~IsSplitPath(path)
  PROVE  /\ Walk(files, path) \subseteq Outcomes(files)
         /\ GetInternal(files, path) \subseteq Outcomes(files)
<1>1. Len(path) - 1 \in Nat
  BY DEF IsRootPath
<1>2. Walk(files, path) \subseteq Outcomes(files)
  BY <1>1, ReachedSteps DEF Walk
<1>3. GetInternal(files, path) \subseteq Outcomes(files)
  BY <1>2, LookupOutcomes DEF GetInternal
<1> QED
  BY <1>2, <1>3

\* Whatever the path, GetInternal returns one of the three codes.
LEMMA InternalCodes ==
  ASSUME NEW files, NEW path \in Paths, NEW r \in GetInternal(files, path)
  PROVE  r.code \in LookupCodes
<1>1. CASE IsRootPath(path)
  <2>1. r \in Outcomes(files)
    BY <1>1 DEF GetInternal, GetRoot, GetFile, Outcomes
  <2> QED
    BY <2>1, OutcomeCodes
<1>2. CASE ~IsRootPath(path) /\ IsSplitPath(path)
  <2>1. r = Found(SplitFile) \/ r = Error("Missing")
    BY <1>2 DEF GetInternal
  <2> QED
    BY <2>1, ResultFields DEF LookupCodes
<1>3. CASE ~IsRootPath(path) /\ ~IsSplitPath(path)
  BY <1>3, OrdinaryOutcomes, OutcomeCodes, PathsAssumption
<1> QED
  BY <1>1, <1>2, <1>3

\* What the switches name.
LEMMA SwitchCases ==
  /\ DOMAIN ChangeSwitch = {"OK", "Invalid", "Missing"}
  /\ DOMAIN OpendirSwitch = {"OK", "Invalid", "Missing"}
  /\ DOMAIN RenameSwitch = {"OK", "Invalid", "Missing", "Restricted"}
  /\ DOMAIN RmdirSwitch = {"Invalid", "Missing"}
  /\ DOMAIN MkdirSwitch = {"OK", "Unknown"}
BY DEF ChangeSwitch, OpendirSwitch, RenameSwitch, RmdirSwitch, MkdirSwitch

\* Whatever the path, chmod, utimens and opendir get the codes of a lookup.
LEMMA LookupCallbacks ==
  ASSUME NEW path \in Paths
  PROVE  /\ Unhandled(ChangeSwitch, ChangeAttributeCodes(path)) = {}
         /\ Unhandled(OpendirSwitch, OpenDirectoryCodes(path)) = {}
<1>1. ChangeAttributeCodes(path) \subseteq LookupCodes
  BY InternalCodes, Zenon DEF ChangeAttributeCodes, Codes
<1>2. OpenDirectoryCodes(path) \subseteq LookupCodes
  <2>1. "Invalid" \in LookupCodes
    BY DEF LookupCodes
  <2> QED
    BY <2>1, InternalCodes, Zenon DEF OpenDirectoryCodes
<1> QED
  BY <1>1, <1>2, SwitchCases DEF Unhandled, LookupCodes

\* What rmdir gets: besides its success, Illegal for the root and for /splits, and
\* else the codes of a lookup that failed.
LEMMA RmdirCallback ==
  ASSUME NEW path \in Paths
  PROVE  Unhandled(RmdirSwitch, DeleteCodes(path)) \ {"OK"} =
           IF IsRootPath(path) \/ path = <<SplitDir>> THEN {"Illegal"} ELSE {}
<1>1. path \in Seq(Names)
  BY PathsAssumption
<1>2. CASE IsRootPath(path)
  <2>1. DeleteCodes(path) = {"Illegal"}
    BY <1>2, ResultFields DEF DeleteCodes, Codes, DeleteResults
  <2> QED
    BY <1>2, <2>1, SwitchCases DEF Unhandled
<1>3. CASE ~IsRootPath(path) /\ IsSplitPath(path) /\ Len(path) = 1
  <2>1. path = <<SplitDir>>
    BY <1>1, <1>3 DEF IsSplitPath
  <2>2. DeleteResults(Files, path) = {Error("Illegal")}
    BY <1>3, ResultFields DEF DeleteResults, GetInternal
  <2>3. DeleteCodes(path) = {"Illegal"}
    BY <2>2, ResultFields DEF DeleteCodes, Codes
  <2> QED
    BY <2>1, <2>3, SwitchCases DEF Unhandled
<1>4. CASE ~IsRootPath(path) /\ IsSplitPath(path) /\ Len(path) # 1
  <2>1. path # <<SplitDir>>
    BY <1>4
  <2>2. GetInternal(Files, path) = {Error("Missing")}
    BY <1>4 DEF GetInternal
  <2>3. DeleteResults(Files, path) = {Error("Missing")}
    BY <1>4, <2>2, ResultFields DEF DeleteResults
  <2>4. DeleteCodes(path) = {"Missing"}
    BY <2>3, ResultFields DEF DeleteCodes, Codes
  <2> QED
    BY <1>4, <2>1, <2>4, SwitchCases DEF Unhandled
<1>5. CASE ~IsRootPath(path) /\ ~IsSplitPath(path)
  <2>1. path # <<SplitDir>>
    BY <1>5 DEF IsSplitPath
  <2>2. DeleteResults(Files, path) = GetInternal(Files, path)
    BY <1>5, Zenon DEF DeleteResults
  <2>3. DeleteCodes(path) \subseteq LookupCodes
    BY <2>2, InternalCodes, Zenon DEF DeleteCodes, Codes
  <2> QED
    BY <1>5, <2>1, <2>3, SwitchCases DEF Unhandled, LookupCodes
<1> QED
  BY <1>2, <1>3, <1>4, <1>5

\* CreateDirectory has errors, but none that mkdir has a case for.
LEMMA MkdirCallback ==
  ASSUME NEW path \in Paths
  PROVE  Unhandled(MkdirSwitch, CreateCodes(path)) = CreateCodes(path) \ {"OK"}
<1>1. \A r \in CreateResults(Files, path) :
        \/ r.code = "OK"
        \/ \E code \in {"Illegal", "Missing", "Invalid", "Exists"} : r = Error(code)
  BY DEF CreateResults
<1>2. CreateCodes(path) \subseteq {"OK", "Illegal", "Missing", "Invalid", "Exists"}
  BY <1>1, ResultFields DEF CreateCodes, Codes
<1> QED
  BY <1>2, SwitchCases DEF Unhandled

\* A rename that is refused is Illegal, and one that is not is never so.
LEMMA RenameCallback ==
  ASSUME NEW from \in Paths, NEW to \in Paths
  PROVE  Unhandled(RenameSwitch, MoveCodes(from, to)) =
           IF MoveIsLegal(from, to) THEN {} ELSE {"Illegal"}
<1>1. CASE ~MoveIsLegal(from, to)
  BY <1>1, SwitchCases DEF MoveCodes, Unhandled
<1>2. CASE MoveIsLegal(from, to)
  <2>1. ASSUME NEW d \in Destinations(Files, from, to) PROVE d.target.code \in LookupCodes
    <3>1. PICK t, n : /\ d = [target |-> t, name |-> n]
                      /\ \/ t \in GetInternal(Files, to)
                         \/ ~IsRootPath(to) /\ t \in Walk(Files, to)
      BY Zenon DEF Destinations
    <3>2. to \in Seq(Names) /\ ~IsSplitPath(to)
      BY <1>2, PathsAssumption DEF MoveIsLegal
    <3> QED
      BY <3>1, <3>2, InternalCodes, OrdinaryOutcomes, OutcomeCodes
  <2>2. Codes(GetInternal(Files, from)) \subseteq LookupCodes
    BY InternalCodes DEF Codes
  <2>3. MoveCodes(from, to) \subseteq LookupCodes \cup {"Restricted"}
    BY <1>2, <2>1, <2>2, Zenon DEF MoveCodes
  <2> QED
    BY <1>2, <2>3, SwitchCases DEF Unhandled, LookupCodes
<1> QED
  BY <1>1, <1>2

\* Whatever has become of the tables, and for paths of any depth, the assertions of
\* the callbacks fail for the results that OnlyKnownAssertions lists, and no other.
THEOREM KnownAssertions == Spec => []OnlyKnownAssertions
<1>1. OnlyKnownAssertions
  BY LookupCallbacks, RmdirCallback, MkdirCallback, RenameCallback, Zenon
     DEF OnlyKnownAssertions
<1> QED
  BY <1>1, PTL

-----------------------------------------------------------------------------
(***************************************************************************)
(* The core is the share that its clients expect.  First, what a path      *)
(* leads to is what the clients can reach.                                 *)
(***************************************************************************)

\* Whether the clients can get to a row.
InReach(r) == Entry(r) \in Served!Reachable

\* A row has the columns that its clients see.
LEMMA EntryFields ==
  ASSUME NEW r
  PROVE  /\ Entry(r).id = r.id /\ Entry(r).parent = r.parent /\ Entry(r).name = r.name
         /\ Entry(r).isFile = r.isFile /\ Entry(r).canWrite = r.canWrite
         /\ Entry(r).modified = r.modified
BY DEF Entry

\* A row that every closed set has can be reached.
LEMMA ReachedRow ==
  ASSUME NEW r \in Files, \A set \in SUBSET Tree : Served!Closed(set) => Entry(r) \in set
  PROVE  InReach(r)
BY DEF InReach, Tree, Served!Reachable

\* A closed set has the root, and what is in its directories.
LEMMA ClosedRows ==
  ASSUME NEW set, Served!Closed(set), NEW r \in Files,
         r.name = RootName \/ \E d \in Files : Entry(d) \in set /\ ~d.isFile /\ r.parent = d.id
  PROVE  Entry(r) \in set
<1>1. Entry(r) \in {Entry(s) : s \in Files}
  OBVIOUS
<1>2. CASE r.name = RootName
  BY <1>1, <1>2, EntryFields DEF Served!Closed, Served!Ordinary, Tree
<1>3. CASE \E d \in Files : Entry(d) \in set /\ ~d.isFile /\ r.parent = d.id
  <2>1. PICK d \in Files : Entry(d) \in set /\ ~d.isFile /\ r.parent = d.id
    BY <1>3
  <2>2. ~Entry(d).isFile /\ Entry(r).parent = Entry(d).id
    BY <2>1, EntryFields
  <2> QED
    BY <1>1, <2>1, <2>2 DEF Served!Closed, Served!In, Tree
<1> QED
  BY <1>2, <1>3

\* The row of the root is no file, and it can be reached.
LEMMA RootInReach ==
  ASSUME IInv, NEW r \in Files, r.id = Null \/ r.name = RootName
  PROVE  ~r.isFile /\ r.name = RootName /\ InReach(r)
<1>1. ~r.isFile /\ r.name = RootName
  BY DEF IInv, RootRowStays, PrimaryKey
<1> QED
  BY <1>1, ReachedRow, ClosedRows

\* What one step of a lookup finds is in the directory it has come from.
LEMMA FoundIn ==
  ASSUME NEW files, NEW d \in Outcomes(files), NEW name, NEW r,
         Found(r) \in Lookup(files, d, name)
  PROVE  \E e \in files : d = Found(e) /\ r \in files /\ r.parent = e.id /\ r.name = name
<1>1. d.code = "OK"
  BY ResultFields DEF Lookup
<1>2. PICK e \in files : d = Found(e)
  BY <1>1, ResultFields DEF Outcomes
<1>3. PICK q \in GetFile(files, e.id, name) : Found(r) = Found(q)
  BY <1>1, <1>2, ResultFields DEF Lookup
<1>4. r = q
  BY <1>3, ResultFields
<1> QED
  BY <1>2, <1>3, <1>4 DEF GetFile

\* A directory found on the way is one, and comes from another one.
LEMMA ReachedFrom ==
  ASSUME IInv, NEW path, NEW n \in Nat, NEW r, Found(r) \in Reached(Files, path)[n]
  PROVE  /\ r \in Files /\ ~r.isFile
         /\ IF n = 0 THEN r.name = RootName
            ELSE \E d \in Files : Found(d) \in Reached(Files, path)[n - 1] /\ r.parent = d.id
<1>1. CASE n = 0
  <2>1. Found(r) \in GetRoot(Files)
    BY <1>1, ReachedSteps
  <2>2. PICK q \in GetFile(Files, Null, RootName) : Found(r) = Found(q)
    BY <2>1 DEF GetRoot
  <2>3. r = q
    BY <2>2, ResultFields
  <2>4. r \in Files /\ r.name = RootName
    BY <2>2, <2>3 DEF GetFile
  <2> QED
    BY <1>1, <2>4, RootInReach
<1>2. CASE n # 0
  <2>1. /\ n - 1 \in Nat
        /\ Reached(Files, path)[n] =
             {AsDirectory(q) : q \in UNION {Lookup(Files, d, path[n]) :
                                              d \in Reached(Files, path)[n - 1]}}
        /\ Reached(Files, path)[n - 1] \subseteq Outcomes(Files)
    BY <1>2, ReachedSteps
  <2>2. PICK d \in Reached(Files, path)[n - 1] :
          \E q \in Lookup(Files, d, path[n]) : Found(r) = AsDirectory(q)
    BY <2>1
  <2>3. PICK q \in Lookup(Files, d, path[n]) : Found(r) = AsDirectory(q)
    BY <2>2
  <2>4. ~(q.code = "OK" /\ q.file.isFile) /\ q = Found(r)
    BY <2>3, ResultFields DEF AsDirectory
  <2>5. ~r.isFile
    BY <2>4, ResultFields
  <2>6. PICK e \in Files : d = Found(e) /\ r \in Files /\ r.parent = e.id
    BY <2>1, <2>3, <2>4, FoundIn
  <2> QED
    BY <1>2, <2>5, <2>6
<1> QED
  BY <1>1, <1>2

\* Every directory on the way to a file can be reached.
LEMMA ReachedInReach ==
  ASSUME IInv, NEW path, NEW n \in Nat, NEW r, Found(r) \in Reached(Files, path)[n]
  PROVE  r \in Files /\ ~r.isFile /\ InReach(r)
<1>1. ASSUME NEW set, Served!Closed(set)
      PROVE  Entry(r) \in set
  <2> DEFINE bad == {k \in Nat : \E q : Found(q) \in Reached(Files, path)[k] /\ Entry(q) \notin set}
  <2>1. ASSUME bad # {} PROVE FALSE
    <3>1. PICK k \in bad : \A i \in bad : k <= i
      BY <2>1, LeastNatural
    <3>2. PICK q : Found(q) \in Reached(Files, path)[k] /\ Entry(q) \notin set
      BY <3>1
    <3>3. CASE k = 0
      BY <1>1, <3>1, <3>2, <3>3, ReachedFrom, ClosedRows
    <3>4. CASE k # 0
      <4>1. PICK d \in Files : Found(d) \in Reached(Files, path)[k - 1] /\ q.parent = d.id
        BY <3>1, <3>2, <3>4, ReachedFrom
      <4>2. k - 1 \in Nat /\ k - 1 \notin bad
        BY <3>1, <3>4
      <4>3. Entry(d) \in set /\ ~d.isFile /\ q \in Files
        BY <3>1, <3>2, <4>1, <4>2, ReachedFrom
      <4> QED
        BY <1>1, <3>2, <4>1, <4>3, ClosedRows
    <3> QED
      BY <3>3, <3>4
  <2> QED
    BY <2>1
<1> QED
  BY <1>1, ReachedFrom, ReachedRow

\* What a path outside /splits leads to can be reached, and is in a directory that
\* can be reached.
LEMMA FoundInReach ==
  ASSUME IInv, NEW path \in Seq(Names), ~IsSplitPath(path), NEW r,
         Found(r) \in GetInternal(Files, path)
  PROVE  /\ r \in Files /\ InReach(r)
         /\ IsRootPath(path) => ~r.isFile
         /\ ~IsRootPath(path) =>
              /\ r.name = Last(path)
              /\ \E d \in Files : ~d.isFile /\ InReach(d) /\ r.parent = d.id
<1>1. CASE IsRootPath(path)
  <2>1. Found(r) \in Reached(Files, path)[0]
    BY <1>1, ReachedSteps DEF GetInternal
  <2> QED
    BY <1>1, <2>1, ReachedInReach
<1>2. CASE ~IsRootPath(path)
  <2>1. PICK d \in Walk(Files, path) : Found(r) \in Lookup(Files, d, Last(path))
    BY <1>2 DEF GetInternal
  <2>2. d \in Outcomes(Files)
    BY <1>2, <2>1, OrdinaryOutcomes
  <2>3. PICK e \in Files : d = Found(e) /\ r \in Files /\ r.parent = e.id /\ r.name = Last(path)
    BY <2>1, <2>2, FoundIn
  <2>4. Len(path) - 1 \in Nat
    BY <1>2 DEF IsRootPath
  <2>5. ~e.isFile /\ InReach(e)
    BY <2>1, <2>3, <2>4, ReachedInReach DEF Walk
  <2>6. ASSUME NEW set \in SUBSET Tree, Served!Closed(set) PROVE Entry(e) \in set
    BY <2>5, <2>6 DEF InReach, Served!Reachable, Tree
  <2>7. InReach(r)
    BY <2>3, <2>5, <2>6, ClosedRows, ReachedRow
  <2> QED
    BY <1>2, <2>3, <2>5, <2>7
<1> QED
  BY <1>1, <1>2

-----------------------------------------------------------------------------
(***************************************************************************)
(* Every message that is not overtaken is for a step that the clients      *)
(* expect, as long as its statement still finds its row.                   *)
(***************************************************************************)

\* d is a directory that the clients can reach.
Directory(d) == d \in Files /\ ~d.isFile /\ InReach(d)

\* No row in directory d has the name.
NameIsFree(name, d) == \A r \in Files : r.parent = d.id => r.name # name

\* The INSERT finds its index taken, or a new index and a free name.
LegalCreate(m) ==
  \/ \E r \in Files : r.id = m.new.id
  \/ /\ m.new.id \in 0 .. MaxFile /\ m.new.id \notin removed
     /\ \E d : /\ Directory(d) /\ m.new.parent = d.id
               /\ m.new.name \in Names /\ NameIsFree(m.new.name, d)

\* Where a Move of row r puts it.
LegalTarget(m, r) ==
  \E d : /\ Directory(d) /\ m.new.parent = d.id
         /\ m.new.name \in Names
         /\ \/ d.canWrite /\ (m.new.name = r.name \/ NameIsFree(m.new.name, d))
            \/ \E target \in Files : /\ target.parent = d.id /\ target.name = m.new.name
                                     /\ target.isFile /\ target.canWrite

Legal(m) ==
  /\ m.op = "Create" => LegalCreate(m)
  /\ m.op # "Create" =>
       \A r \in Files : IsCurrent(r, m.file) =>
         /\ InReach(r)
         /\ m.op \in {"Delete", "Move"} => r.name # RootName
         /\ m.op = "Move" => LegalTarget(m, r)

Legality ==
  /\ \A c \in call : c.replay \/ Legal(c.msg)
  /\ \A t \in Threads \ overtaken : \A m \in transactions[t] : Legal(m)

\* What is legal stays so as long as the rows do.
LEMMA LegalStays ==
  ASSUME Files' = Files, removed' = removed, NEW m, Legal(m)
  PROVE  Legal(m)'
<1>1. \A r : InReach(r)' <=> InReach(r)
  BY DEF InReach, Served!Reachable, Served!Closed, Served!In, Served!Ordinary, Tree
<1>2. \A d : Directory(d)' <=> Directory(d)
  BY <1>1 DEF Directory
<1>3. \A name, d : NameIsFree(name, d)' <=> NameIsFree(name, d)
  BY DEF NameIsFree
<1>4. LegalCreate(m) => LegalCreate(m)'
  BY <1>2, <1>3 DEF LegalCreate
<1>5. \A r : LegalTarget(m, r) => LegalTarget(m, r)'
  BY <1>2, <1>3 DEF LegalTarget
<1> QED
  BY <1>1, <1>4, <1>5 DEF Legal

\* A call that finds its file by a path outside /splits has found the row that its
\* statement finds.
LEMMA CurrentRow ==
  ASSUME IInv, NEW file \in Files, NEW r \in Files, IsCurrent(r, file)
  PROVE  r = file
BY DEF IInv, PrimaryKey, IsCurrent

\* CreateDirectory goes into a directory that it has found, which has no file of
\* that name.
LEMMA CreateIsLegal ==
  ASSUME IInv, NEW path \in Paths, ~IsRootPath(path), NEW parent \in Files,
         Found(parent) \in CreateResults(Files, path)
  PROVE  Directory(parent) /\ NameIsFree(Last(path), parent)
<1> DEFINE front == Front(path)
<1>1. path \in Seq(Names) /\ path # <<>>
  BY PathsAssumption DEF IsRootPath
<1>2. front \in Seq(Names) /\ (front # <<>> => Head(front) = Head(path))
  BY <1>1 DEF Front
<1>3. PICK q \in GetInternal(Files, front) :
        Found(parent) = IF IsSplitPath(path) THEN Error("Illegal")
                        ELSE IF q.code # "OK" THEN Error("Missing")
                        ELSE IF q.file.isFile THEN Error("Invalid")
                        ELSE IF GetFile(Files, q.file.id, Last(path)) # {} THEN Error("Exists")
                        ELSE q
  BY Zenon DEF CreateResults
<1>4. /\ ~IsSplitPath(path) /\ q = Found(parent) /\ ~q.file.isFile
      /\ GetFile(Files, q.file.id, Last(path)) = {}
  <2>1. \A code \in {"Illegal", "Missing", "Invalid", "Exists"} : Found(parent) # Error(code)
    BY ResultFields
  <2> QED
    BY <1>3, <2>1, Zenon
<1>5. ~parent.isFile /\ GetFile(Files, parent.id, Last(path)) = {}
  BY <1>4, ResultFields
<1>6. ~IsSplitPath(front)
  BY <1>1, <1>2, <1>4 DEF IsSplitPath
<1> HIDE DEF front
<1>7. InReach(parent)
  BY <1>2, <1>3, <1>4, <1>6, FoundInReach
<1> QED
  BY <1>5, <1>7 DEF Directory, NameIsFree, GetFile

\* A Move goes to a name in a directory that it has found: a free one, the file's
\* own, or that of a file which may be overwritten.
LEMMA DestinationIsLegal ==
  ASSUME IInv, NEW from \in Paths, NEW to \in Paths, MoveIsLegal(from, to),
         NEW file \in Files, file.name = Last(from), NEW target \in Files, NEW name,
         [target |-> Found(target), name |-> name] \in Destinations(Files, from, to),
         target.canWrite, NEW m, m.new.name = name, name \in Names,
         m.new.parent = IF target.isFile THEN target.parent ELSE target.id
  PROVE  LegalTarget(m, file)
<1>1. from \in Seq(Names) /\ to \in Seq(Names) /\ ~IsSplitPath(to)
  BY PathsAssumption DEF MoveIsLegal
<1>2. \/ /\ Found(target) \in GetInternal(Files, to)
         /\ name = IF Found(target).code = "OK" /\ ~Found(target).file.isFile
                   THEN Last(from) ELSE Last(to)
      \/ /\ ~IsRootPath(to) /\ name = Last(to) /\ Found(target) \in Walk(Files, to)
         /\ Error("Missing") \in Lookup(Files, Found(target), Last(to))
  <2>1. PICK t, n : /\ [target |-> Found(target), name |-> name] = [target |-> t, name |-> n]
                    /\ \/ /\ t \in GetInternal(Files, to)
                          /\ n = IF t.code = "OK" /\ ~t.file.isFile THEN Last(from) ELSE Last(to)
                       \/ /\ ~IsRootPath(to) /\ n = Last(to) /\ t \in Walk(Files, to)
                          /\ Error("Missing") \in Lookup(Files, t, Last(to))
    BY Zenon DEF Destinations
  <2>2. t = Found(target) /\ n = name
    BY <2>1
  <2> QED
    BY <2>1, <2>2, Zenon
<1>3. CASE /\ Found(target) \in GetInternal(Files, to) /\ ~target.isFile /\ name = Last(from)
  <2>1. Directory(target)
    BY <1>1, <1>3, FoundInReach DEF Directory
  <2> QED
    BY <1>3, <2>1 DEF LegalTarget
<1>4. CASE /\ Found(target) \in GetInternal(Files, to) /\ target.isFile /\ name = Last(to)
  <2>1. ~IsRootPath(to)
    BY <1>1, <1>4, FoundInReach
  <2>2. target.name = Last(to) /\ \E d \in Files : ~d.isFile /\ InReach(d) /\ target.parent = d.id
    BY <1>1, <1>4, <2>1, FoundInReach
  <2> QED
    BY <1>4, <2>2 DEF LegalTarget, Directory
<1>5. CASE /\ ~IsRootPath(to) /\ name = Last(to) /\ Found(target) \in Walk(Files, to)
           /\ Error("Missing") \in Lookup(Files, Found(target), Last(to))
  <2>1. Len(to) - 1 \in Nat
    BY <1>1, <1>5 DEF IsRootPath
  <2>2. Directory(target)
    BY <1>5, <2>1, ReachedInReach DEF Walk, Directory
  <2>3. GetFile(Files, target.id, Last(to)) = {}
    <3>1. Found(target).code = "OK" /\ Found(target).file = target
          /\ \A q : Found(q) # Error("Missing")
      BY ResultFields
    <3> QED
      BY <1>5, <3>1, Zenon DEF Lookup
  <2>4. NameIsFree(name, target)
    BY <1>5, <2>3 DEF NameIsFree, GetFile
  <2> QED
    BY <2>2, <2>4 DEF LegalTarget, Directory
<1> QED
  BY <1>2, <1>3, <1>4, <1>5, ResultFields

\* The transaction that a call of an operation starts has a legal message.
LEMMA OperationIsLegal ==
  ASSUME IInv, RemovedIsPast, NEW t \in Threads, Operation(t)
  PROVE  UNCHANGED <<pc, call>> \/ \A c \in call' : Legal(c.msg)
<1>1. TypeOK /\ IndexesAreFresh /\ RootName \notin Names
  BY NamesAssumption DEF IInv
<1>2. ASSUME NEW op, NEW file, NEW new, Transact(t, op, file, new),
             Legal([op |-> op, file |-> file, new |-> new])
      PROVE  \A c \in call' : Legal(c.msg)
  BY <1>2 DEF Transact
<1>3. ASSUME NEW path \in Paths, NEW isFile \in Kinds, NEW canWrite \in BOOLEAN,
             CreateDirectory(t, path, isFile, canWrite)
      PROVE  \A c \in call' : Legal(c.msg)
  <2>1. PICK parent \in Files :
          /\ Found(parent) \in CreateResults(Files, path)
          /\ Transact(t, "Create",
                   [id |-> FileCounter, change |-> Null, parent |-> parent.id,
                    name |-> Last(path), isFile |-> isFile,
                    canWrite |-> canWrite, modified |-> SomeTime],
                   [id |-> FileCounter, change |-> Null, parent |-> parent.id,
                    name |-> Last(path), isFile |-> isFile,
                    canWrite |-> canWrite, modified |-> SomeTime])
    BY <1>3 DEF CreateDirectory
  <2> DEFINE new == [id |-> FileCounter, change |-> Null, parent |-> parent.id,
                     name |-> Last(path), isFile |-> isFile,
                     canWrite |-> canWrite, modified |-> SomeTime]
             m == [op |-> "Create", file |-> new, new |-> new]
  <2>2. /\ m.op = "Create" /\ m.new.id = FileCounter
        /\ m.new.parent = parent.id /\ m.new.name = Last(path)
    OBVIOUS
  <2>3. FileCounter \in 0 .. MaxFile /\ FileCounter \notin removed /\ ~IsRootPath(path)
    BY <1>1, <1>3, BoundsAssumption DEF CreateDirectory, TakeFileIndex, TypeOK, RemovedIsPast
  <2>4. Directory(parent) /\ NameIsFree(Last(path), parent) /\ Last(path) \in Names
    BY <2>1, <2>3, CreateIsLegal, LastName
  <2> HIDE DEF m
  <2>5. Legal(m)
    BY <2>2, <2>3, <2>4 DEF Legal, LegalCreate
  <2> QED
    BY <1>2, <2>1, <2>5 DEF m
<1>4. ASSUME NEW path \in Paths, NEW op \in {"SetPermissions", "SetTimestamp"}, NEW new,
             NEW file \in Located(path), Transact(t, op, file, new)
      PROVE  \A c \in call' : Legal(c.msg)
  <2>1. \A r \in Files : IsCurrent(r, file) => InReach(r)
    <3>1. CASE IsSplitPath(path)
      <4>1. ~IsRootPath(path)
        BY <3>1 DEF IsSplitPath, IsRootPath
      <4>2. Found(file) = Found(SplitFile) \/ Found(file) = Error("Missing")
        BY <3>1, <4>1 DEF Located, GetInternal
      <4>3. file = SplitFile
        BY <4>2, ResultFields
      <4>4. file.id = Null
        BY <4>3 DEF SplitFile, RootRow
      <4> QED
        BY <4>4, RootInReach DEF IsCurrent
    <3>2. CASE ~IsSplitPath(path)
      <4>1. file \in Files /\ InReach(file)
        BY <3>2, FoundInReach, PathsAssumption DEF Located
      <4> QED
        BY <4>1, CurrentRow
    <3> QED
      BY <3>1, <3>2
  <2>2. Legal([op |-> op, file |-> file, new |-> new])
    BY <2>1 DEF Legal
  <2> QED
    BY <1>2, <1>4, <2>2
<1>5. ASSUME NEW path \in Paths, BeginDelete(t, path)
      PROVE  \A c \in call' : Legal(c.msg)
  <2>1. PICK file \in Entries : /\ Found(file) \in DeleteResults(Files, path)
                                /\ Transact(t, "Delete", file, file)
    BY <1>5 DEF BeginDelete
  <2>2. file \in Files /\ file.name \in Names
    BY <2>1, DeletedByName
  <2>3. ~IsRootPath(path)
    BY <2>1, ResultFields DEF DeleteResults
  <2>4. PICK q \in GetInternal(Files, path) :
          Found(file) = IF q.code = "OK" /\ IsSplitPath(path) THEN Error("Illegal") ELSE q
    BY <2>1, <2>3, Zenon DEF DeleteResults
  <2>5. ~IsSplitPath(path) /\ Found(file) \in GetInternal(Files, path)
    BY <2>4, ResultFields
  <2>6. InReach(file)
    BY <2>5, FoundInReach, PathsAssumption
  <2>7. Legal([op |-> "Delete", file |-> file, new |-> file])
    BY <1>1, <2>2, <2>6, CurrentRow DEF Legal
  <2> QED
    BY <1>2, <2>1, <2>7
<1>6. ASSUME NEW from \in Paths, NEW to \in Paths, Move(t, from, to)
      PROVE  \A c \in call' : Legal(c.msg)
  <2>1. PICK file \in Files, target \in Files, name \in Names :
          /\ Found(file) \in GetInternal(Files, from)
          /\ [target |-> Found(target), name |-> name] \in Destinations(Files, from, to)
          /\ target.canWrite
          /\ Transact(t, "Move", file,
                      [file EXCEPT !.change = ChangeCounter,
                                   !.parent = IF target.isFile THEN target.parent ELSE target.id,
                                   !.name = name])
    BY <1>6 DEF Move
  <2> DEFINE new == [file EXCEPT !.change = ChangeCounter,
                                 !.parent = IF target.isFile THEN target.parent ELSE target.id,
                                 !.name = name]
             m == [op |-> "Move", file |-> file, new |-> new]
  <2>2. /\ MoveIsLegal(from, to) /\ ~IsRootPath(from) /\ ~IsSplitPath(from)
        /\ from \in Seq(Names)
    BY <1>6, PathsAssumption DEF Move, MoveIsLegal
  <2>3. InReach(file) /\ file.name = Last(from) /\ Last(from) \in Names
    BY <2>1, <2>2, FoundInReach, LastName
  <2>4. file \in ShareFile
    BY <1>1 DEF TypeOK
  <2>5. /\ m.op = "Move" /\ m.file = file /\ m.new.name = name
        /\ m.new.parent = IF target.isFile THEN target.parent ELSE target.id
    BY <2>4 DEF ShareFile
  <2>6. Transact(t, "Move", file, new)
    BY <2>1
  <2> HIDE DEF m, new
  <2>7. LegalTarget(m, file)
    BY <2>1, <2>2, <2>3, <2>5, DestinationIsLegal
  <2>8. Legal(m)
    BY <1>1, <2>3, <2>5, <2>7, CurrentRow DEF Legal
  <2> QED
    BY <1>2, <2>6, <2>8 DEF m
<1>7. deleteAfter[t] \subseteq Paths
  BY <1>1 DEF TypeOK
<1> QED
  BY <1>3, <1>4, <1>5, <1>6, <1>7
     DEF Operation, SetPermissions, SetTimestamp, ChangeAttribute, Delete, MoveRefused,
         DeleteMoveTarget

\* The statement of a message leaves it nothing more to do.
LEMMA AppliedIsLegal ==
  ASSUME IInv, ApplyRow, NEW c \in call
  PROVE  Legal(c.msg)'
<1>1. Sound(c.msg) /\ c.msg \in Message /\ call = {c}
  BY TheCall
<1>2. ASSUME c.msg.op = "Create" PROVE \E r \in Files' : r.id = c.msg.new.id
  <2>1. PICK time \in Times : Files' = CreateRow(Files, [c.msg.file EXCEPT !.modified = time])
    BY <1>1, <1>2, AppliedRow DEF IInv, Updates
  <2>2. [c.msg.file EXCEPT !.modified = time].id = c.msg.new.id
    BY <1>1, <1>2 DEF Message, ShareFile, Sound
  <2> QED
    BY <2>1, <2>2 DEF CreateRow
<1>3. c.msg.op # "Create" => \A r \in Files' : ~IsCurrent(r, c.msg.file)
  BY RowOrigin
<1> QED
  BY <1>2, <1>3 DEF Legal, LegalCreate

\* What is not overtaken stays legal: the rows only change in the statement of its
\* own thread's message, which then finds nothing.
LEMMA LegalityNext ==
  ASSUME Base, HistoryInv, Legality, HistoryNext
  PROVE  Legality'
<1>1. /\ IInv /\ Progress /\ RemovedIsPast /\ [Next]_vars /\ Next
      /\ removed' = removed \cup (Ids(Files) \ Ids(Files'))
      /\ overtaken' = (overtaken \ Opening) \cup (IF Files' = Files THEN {} ELSE Others)
  BY HistoryFrame DEF Base, HistoryInv, HistoryNext
<1>2. CASE Files' = Files
  <2>1. removed' = removed
    BY <1>1, <1>2
  <2>2. \A m : Legal(m) => Legal(m)'
    BY <1>2, <2>1, LegalStays
  <2>3. ASSUME NEW c \in call', ~c.replay PROVE Legal(c.msg)'
    <3>1. CASE c \in call
      BY <2>2, <2>3, <3>1 DEF Legality
    <3>2. ASSUME NEW t \in Threads, Operation(t), c \notin call PROVE Legal(c.msg)
      BY <1>1, <2>3, <3>2, OperationIsLegal
    <3>3. ASSUME c \notin call, OpenRecord \/ ApplyRow \/ ApplyAncestry \/ ApplyFile \/ Close
                                \/ Throw \/ OpenFails \/ Stop \/ Crash \/ Start \/ Recover
          PROVE  FALSE
      BY <2>3, <3>3 DEF OpenRecord, ApplyRow, ApplyAncestry, ApplyFile, Close, Throw, OpenFails,
                        Stop, Crash, Halt, Start, Recover, Recovered, Replay, ReplayDies
    <3> QED
      BY <1>1, <2>2, <3>1, <3>2, <3>3 DEF Next, Advance
  <2>4. ASSUME NEW t \in Threads \ overtaken', NEW m \in transactions'[t] PROVE Legal(m)'
    <3>1. t \notin overtaken \/ t \in Opening
      BY <1>1, <2>4
    <3>2. CASE m \in transactions[t] /\ t \notin Opening
      BY <2>2, <3>1, <3>2 DEF Legality
    <3>3. CASE \E c \in call : ~c.replay /\ c.thread = t /\ m = c.msg
      BY <2>2, <3>3 DEF Legality
    <3> QED
      BY <1>1, <3>2, <3>3, RecordStep
  <2> QED
    BY <2>3, <2>4 DEF Legality
<1>3. CASE ApplyRow /\ Files' # Files
  <2>1. PICK c \in call : TRUE
    BY <1>3 DEF ApplyRow
  <2>2. /\ call = {c} /\ call' = call /\ transactions' = transactions /\ pc # "open"
        /\ Legal(c.msg)'
    BY <1>1, <1>3, <2>1, TheCall, AppliedIsLegal DEF ApplyRow
  <2>3. ASSUME NEW t \in Threads \ overtaken', NEW m \in transactions[t] PROVE m = c.msg
    <3>1. t = c.thread
      BY <1>1, <1>3, <2>2, <2>3 DEF Others
    <3> QED
      BY <1>1, <2>2, <3>1, OwnMessage
  <2> QED
    BY <2>2, <2>3 DEF Legality
<1> QED
  BY <1>1, <1>2, <1>3, StepFrame

-----------------------------------------------------------------------------
(***************************************************************************)
(* The statement of a legal message is a step of the share, and nothing    *)
(* else is seen by its clients.                                            *)
(***************************************************************************)

\* Two rows that look the same are the same.
LEMMA EntryIsKey ==
  ASSUME IInv, NEW r \in Files, NEW s \in Files, Entry(r) = Entry(s)
  PROVE  r = s
<1>1. r.id = s.id
  BY EntryFields
<1> QED
  BY <1>1 DEF IInv, PrimaryKey

\* A directory of the core is one of the share.
LEMMA ServedDirectory ==
  ASSUME NEW d, Directory(d)
  PROVE  /\ Entry(d) \in Served!Directories
         /\ \A name : NameIsFree(name, d) => Served!Free(name, Entry(d))
<1>1. Entry(d) \in Served!Directories
  BY EntryFields DEF Directory, InReach, Served!Directories
<1>2. \A f \in Served!In(Entry(d)) : \E r \in Files : f = Entry(r) /\ r.parent = d.id
  BY EntryFields DEF Served!In, Tree
<1>3. ASSUME NEW name, NameIsFree(name, d) PROVE Served!Free(name, Entry(d))
  BY <1>2, <1>3, EntryFields DEF NameIsFree, Served!Free
<1> QED
  BY <1>1, <1>3

\* A new row is a new file.
LEMMA CreateIsServed ==
  ASSUME IInv, NEW m \in Message, m.op = "Create", m \in InPlay, LegalCreate(m),
         NEW time \in Times, Files' = CreateRow(Files, [m.file EXCEPT !.modified = time]),
         removed' = removed \cup (Ids(Files) \ Ids(Files'))
  PROVE  Served!Next \/ UNCHANGED <<Tree, Used>>
<1> DEFINE new == [m.file EXCEPT !.modified = time]
<1>1. Sound(m) /\ m.file \in ShareFile /\ m.new = m.file
  BY DEF IInv, MessagesAreSound, Sound, Message
<1>2. /\ new.id = m.new.id /\ new.parent = m.new.parent /\ new.name = m.new.name
      /\ new.isFile \in BOOLEAN /\ new.canWrite \in BOOLEAN /\ new.modified = time
  BY <1>1 DEF ShareFile
<1> HIDE DEF new
<1>3. CASE \E r \in Files : r.id = new.id
  <2>1. Files' = Files
    BY <1>3 DEF CreateRow, new
  <2> QED
    BY <2>1 DEF Tree, Used, Ids
<1>4. CASE \A r \in Files : r.id # new.id
  <2>1. Files' = Files \cup {new}
    BY <1>4 DEF CreateRow, new
  <2>2. removed' = removed /\ new.id \notin Used
    BY <1>2, <1>4, <2>1 DEF Ids, Used, LegalCreate
  <2>3. Tree' = Tree \cup {Entry(new)} /\ Used' = Used \cup {new.id}
    BY <2>1, <2>2 DEF Tree, Used, Ids
  <2>4. PICK d : /\ Directory(d) /\ new.parent = d.id
                 /\ new.name \in Names /\ NameIsFree(new.name, d)
    BY <1>2, <1>4 DEF LegalCreate
  <2>5. Entry(new) = [id |-> new.id, parent |-> Entry(d).id, name |-> new.name,
                      isFile |-> new.isFile, canWrite |-> new.canWrite, modified |-> time]
    BY <1>2, <2>4, EntryFields DEF Entry
  <2>6. \E directory \in Served!Directories, name \in Names, isFile, canWrite \in BOOLEAN,
           modified \in Times :
             /\ Served!Free(name, directory)
             /\ Entry(new) = [id |-> new.id, parent |-> directory.id, name |-> name,
                              isFile |-> isFile, canWrite |-> canWrite, modified |-> modified]
    BY <1>2, <2>4, <2>5, ServedDirectory
  <2>7. Served!Create(new.id)
    <3>1. PICK directory \in Served!Directories, name \in Names, isFile \in BOOLEAN,
               canWrite \in BOOLEAN, modified \in Times :
             /\ Served!Free(name, directory)
             /\ Entry(new) = [id |-> new.id, parent |-> directory.id, name |-> name,
                              isFile |-> isFile, canWrite |-> canWrite, modified |-> modified]
      BY <2>6
    <3>2. Tree' = Tree \cup {[id |-> new.id, parent |-> directory.id, name |-> name,
                              isFile |-> isFile, canWrite |-> canWrite, modified |-> modified]}
      BY <2>3, <3>1
    <3> QED
      BY <2>2, <2>3, <3>1, <3>2 DEF Served!Create, Tree, Used
  <2>8. new.id \in 0 .. MaxFile
    BY <1>2, <1>4 DEF LegalCreate
  <2> QED
    BY <2>7, <2>8 DEF Served!Next
<1> QED
  BY <1>3, <1>4

\* A deleted row is a deleted file.
LEMMA DeleteIsServed ==
  ASSUME IInv, NEW m, m.op = "Delete", Legal(m), Files' = DeleteRow(Files, m.file),
         removed' = removed \cup (Ids(Files) \ Ids(Files'))
  PROVE  Served!Next \/ UNCHANGED <<Tree, Used>>
<1>1. Files' = {r \in Files : ~IsCurrent(r, m.file)}
  BY DEF DeleteRow
<1>2. CASE \A r \in Files : ~IsCurrent(r, m.file)
  <2>1. Files' = Files
    BY <1>1, <1>2
  <2> QED
    BY <2>1 DEF Tree, Used, Ids
<1>3. CASE \E r \in Files : IsCurrent(r, m.file)
  <2>1. PICK r \in Files : IsCurrent(r, m.file)
    BY <1>3
  <2>2. \A s \in Files : IsCurrent(s, m.file) <=> s = r
    BY <2>1 DEF IsCurrent, IInv, PrimaryKey
  <2>3. Tree' = Tree \ {Entry(r)}
    BY <1>1, <2>2, EntryIsKey DEF Tree
  <2>4. Used' = Used
    BY <1>1 DEF Used, Ids
  <2>5. InReach(r) /\ r.name # RootName
    BY <2>1 DEF Legal
  <2>6. Served!Delete(Entry(r))
    BY <2>3, <2>4, <2>5, EntryFields DEF Served!Delete, Served!Ordinary, Tree, Used
  <2> QED
    BY <2>5, <2>6 DEF InReach, Served!Next
<1> QED
  BY <1>2, <1>3

\* What the clients see of an update.
LEMMA UpdatedEntry ==
  ASSUME NEW r \in ShareFile, NEW m, m.new \in ShareFile, IsCurrent(r, m.file)
  PROVE  /\ m.op = "SetPermissions" =>
              Entry(Updated(r, m)) = [Entry(r) EXCEPT !.canWrite = m.new.canWrite]
         /\ m.op = "SetTimestamp" =>
              Entry(Updated(r, m)) = [Entry(r) EXCEPT !.modified = m.new.modified]
         /\ m.op = "Move" =>
              Entry(Updated(r, m)) = [Entry(r) EXCEPT !.parent = m.new.parent, !.name = m.new.name]
<1> DEFINE u == Updated(r, m)
<1>1. ASSUME m.op = "SetPermissions"
      PROVE  /\ u.id = r.id /\ u.parent = r.parent /\ u.name = r.name /\ u.isFile = r.isFile
             /\ u.canWrite = m.new.canWrite /\ u.modified = r.modified
  BY <1>1 DEF Updated, ShareFile
<1>2. ASSUME m.op = "SetTimestamp"
      PROVE  /\ u.id = r.id /\ u.parent = r.parent /\ u.name = r.name /\ u.isFile = r.isFile
             /\ u.canWrite = r.canWrite /\ u.modified = m.new.modified
  BY <1>2 DEF Updated, ShareFile
<1>3. ASSUME m.op = "Move"
      PROVE  /\ u.id = r.id /\ u.parent = m.new.parent /\ u.name = m.new.name
             /\ u.isFile = r.isFile /\ u.canWrite = r.canWrite /\ u.modified = r.modified
  BY <1>3 DEF Updated, ShareFile
<1> HIDE DEF u
<1>4. ASSUME m.op = "SetPermissions"
      PROVE  Entry(u) = [Entry(r) EXCEPT !.canWrite = m.new.canWrite]
  BY <1>1, <1>4 DEF Entry
<1>5. ASSUME m.op = "SetTimestamp"
      PROVE  Entry(u) = [Entry(r) EXCEPT !.modified = m.new.modified]
  BY <1>2, <1>5 DEF Entry
<1>6. ASSUME m.op = "Move"
      PROVE  Entry(u) = [Entry(r) EXCEPT !.parent = m.new.parent, !.name = m.new.name]
  <2> DEFINE EntryType == [id : Nat, parent : Nat, name : Names \cup {RootName},
                           isFile : BOOLEAN, canWrite : BOOLEAN, modified : Times]
             e == Entry(r)
             f == [e EXCEPT !.parent = m.new.parent, !.name = m.new.name]
  <2>1. e \in EntryType /\ Entry(u) \in EntryType
    BY <1>3, <1>6 DEF Entry, ShareFile
  <2>2. m.new.parent \in Nat /\ m.new.name \in Names \cup {RootName}
    BY DEF ShareFile
  <2> HIDE DEF e
  <2>3. /\ f \in EntryType
        /\ f.id = e.id /\ f.parent = m.new.parent /\ f.name = m.new.name
        /\ f.isFile = e.isFile /\ f.canWrite = e.canWrite /\ f.modified = e.modified
    BY <2>1, <2>2
  <2>4. Entry(u).id = e.id /\ Entry(u).parent = m.new.parent /\ Entry(u).name = m.new.name
        /\ Entry(u).isFile = e.isFile /\ Entry(u).canWrite = e.canWrite
        /\ Entry(u).modified = e.modified
    BY <1>3, <1>6, EntryFields DEF e
  <2> HIDE DEF f
  <2>5. Entry(u) = f
    BY <2>1, <2>3, <2>4
  <2> QED
    BY <2>5 DEF e, f
<1> QED
  BY <1>4, <1>5, <1>6, Zenon DEF u

\* An update of a row is a step of its file.
LEMMA UpdateIsServed ==
  ASSUME IInv, NEW m \in Message, m.op \in Updates, Legal(m), Files' = UpdatedTable(Files, m),
         removed' = removed \cup (Ids(Files) \ Ids(Files'))
  PROVE  Served!Next \/ UNCHANGED <<Tree, Used>>
<1>1. /\ Files' = {Updated(r, m) : r \in Files}
      /\ \A r \in Files : Updated(r, m).id = r.id
  BY UpdatedRows DEF IInv, TypeOK, Version
<1>2. Used' = Used
  BY <1>1 DEF Used, Ids
<1>3. CASE \A r \in Files : ~IsCurrent(r, m.file)
  <2>1. Files' = Files
    BY <1>1, <1>3 DEF Updated
  <2> QED
    BY <1>2, <2>1 DEF Tree
<1>4. CASE \E r \in Files : IsCurrent(r, m.file)
  <2>1. PICK r \in Files : IsCurrent(r, m.file)
    BY <1>4
  <2>2. \A s \in Files : IsCurrent(s, m.file) <=> s = r
    BY <2>1 DEF IsCurrent, IInv, PrimaryKey
  <2>3. Files' = (Files \ {r}) \cup {Updated(r, m)}
    BY <1>1, <2>2 DEF Updated
  <2>4. Tree' = (Tree \ {Entry(r)}) \cup {Entry(Updated(r, m))}
    BY <2>3, EntryIsKey DEF Tree
  <2>5. InReach(r) /\ r \in ShareFile /\ m.new \in ShareFile
    BY <2>1 DEF Legal, IInv, TypeOK, Message, Updates
  <2>6. \A new : Entry(Updated(r, m)) = new => Served!Become(Entry(r), new)
    BY <1>2, <2>4 DEF Served!Become, Tree, Used
  <2>7. CASE m.op = "SetPermissions"
    <3>1. Entry(Updated(r, m)) = [Entry(r) EXCEPT !.canWrite = m.new.canWrite]
      BY <2>1, <2>5, <2>7, UpdatedEntry
    <3>2. m.new.canWrite \in BOOLEAN
      BY <2>5 DEF ShareFile
    <3> QED
      BY <2>5, <2>6, <3>1, <3>2 DEF InReach, Served!SetPermissions, Served!Next
  <2>8. CASE m.op = "SetTimestamp"
    <3>1. Entry(Updated(r, m)) = [Entry(r) EXCEPT !.modified = m.new.modified]
      BY <2>1, <2>5, <2>8, UpdatedEntry
    <3>2. m.new.modified \in Times
      BY <2>5 DEF ShareFile
    <3> QED
      BY <2>5, <2>6, <3>1, <3>2 DEF InReach, Served!SetTimestamp, Served!Next
  <2>9. CASE m.op = "Move"
    <3>1. r.name # RootName /\ LegalTarget(m, r)
      BY <2>1, <2>9 DEF Legal
    <3>2. PICK d : /\ Directory(d) /\ m.new.parent = d.id
                   /\ m.new.name \in Names
                   /\ \/ d.canWrite /\ (m.new.name = r.name \/ NameIsFree(m.new.name, d))
                      \/ \E target \in Files : /\ target.parent = d.id /\ target.name = m.new.name
                                               /\ target.isFile /\ target.canWrite
      BY <3>1 DEF LegalTarget
    <3>3. Entry(Updated(r, m)) = [Entry(r) EXCEPT !.parent = Entry(d).id, !.name = m.new.name]
      <4>1. Entry(d).id = m.new.parent
        BY <3>2, EntryFields
      <4>2. Entry(Updated(r, m)) = [Entry(r) EXCEPT !.parent = m.new.parent, !.name = m.new.name]
        BY <2>1, <2>5, <2>9, UpdatedEntry
      <4> QED
        BY <4>1, <4>2, Zenon
    <3>4. \/ Entry(d).canWrite /\ (m.new.name = Entry(r).name \/ Served!Free(m.new.name, Entry(d)))
          \/ \E target \in Served!In(Entry(d)) :
               target.name = m.new.name /\ target.isFile /\ target.canWrite
      <4>1. CASE d.canWrite /\ (m.new.name = r.name \/ NameIsFree(m.new.name, d))
        BY <3>2, <4>1, EntryFields, ServedDirectory
      <4>2. ASSUME NEW target \in Files, target.parent = d.id, target.name = m.new.name,
                   target.isFile, target.canWrite
            PROVE  \E f \in Served!In(Entry(d)) :
                     f.name = m.new.name /\ f.isFile /\ f.canWrite
        <5>1. Entry(target) \in Served!In(Entry(d))
          BY <4>2, EntryFields DEF Served!In, Tree
        <5> QED
          BY <4>2, <5>1, EntryFields
      <4> QED
        BY <3>2, <4>1, <4>2
    <3>5. Served!Move(Entry(r), Entry(d), m.new.name)
      BY <2>6, <3>1, <3>3, <3>4, EntryFields DEF Served!Move, Served!Ordinary
    <3> QED
      BY <2>5, <3>2, <3>5, ServedDirectory DEF InReach, Served!Next
  <2> QED
    BY <2>7, <2>8, <2>9 DEF Updates
<1> QED
  BY <1>3, <1>4

\* Every step of the core is one of the share, or is not seen by its clients, but for
\* the replay of what was overtaken.
LEMMA ServedNext ==
  ASSUME Base, HistoryInv, Legality, HistoryNext,
         \A c \in call : c.replay => c.thread \notin overtaken
  PROVE  Served!Next \/ UNCHANGED <<Tree, Used>>
<1>1. /\ IInv /\ Progress /\ [Next]_vars
      /\ removed' = removed \cup (Ids(Files) \ Ids(Files'))
  BY HistoryFrame DEF Base
<1>2. CASE Files' = Files
  BY <1>1, <1>2 DEF Tree, Used, Ids
<1>3. CASE ApplyRow
  <2>1. PICK c \in call :
           \/ /\ c.msg.op = "Create"
              /\ \E time \in Times : Files' = CreateRow(Files, [c.msg.file EXCEPT !.modified = time])
           \/ c.msg.op = "Delete" /\ Files' = DeleteRow(Files, c.msg.file)
           \/ c.msg.op \in Updates /\ Files' = UpdatedTable(Files, c.msg)
    BY <1>1, <1>3, AppliedRow DEF IInv
  <2>2. c.msg \in InPlay /\ c.msg \in Message /\ c.thread \in Threads /\ pc # "open"
    BY <1>1, <1>3, TheCall DEF ApplyRow
  <2>3. Legal(c.msg)
    <3>1. CASE c.replay
      BY <1>1, <2>2, <3>1 DEF Progress, OwnRecord, Legality
    <3>2. CASE ~c.replay
      BY <3>2 DEF Legality
    <3> QED
      BY <3>1, <3>2
  <2>4. c.msg.op = "Create" => LegalCreate(c.msg)
    BY <2>3 DEF Legal
  <2> QED
    BY <1>1, <2>1, <2>2, <2>3, <2>4, CreateIsServed, DeleteIsServed, UpdateIsServed
<1> QED
  BY <1>1, <1>2, <1>3, StepFrame

\* The new share is the one that its clients expect.
LEMMA ServedStarts == HistoryInit => Served!Init
<1> SUFFICES ASSUME HistoryInit PROVE Served!Init
  OBVIOUS
<1>1. Files = {RootRow} /\ removed = {}
  BY DEF HistoryInit, Init
<1>2. Entry(RootRow) = Served!Root /\ RootRow.id = Served!Root.id
  BY DEF Entry, RootRow, Null, SomeTime, Served!Root, Served!SomeTime
<1> QED
  BY <1>1, <1>2 DEF Served!Init, Tree, Used, Ids

\* Every message that is not overtaken is legal at all times.
LEMMA LegalityInvariant == HistorySpec => []Legality
<1>1. HistoryInit => Legality
  BY DEF HistoryInit, Init, Legality
<1>2. Base /\ HistoryInv /\ Legality /\ [HistoryNext]_<<vars, history>> => Legality'
  <2> SUFFICES ASSUME Base, HistoryInv, Legality, [HistoryNext]_<<vars, history>>
               PROVE  Legality'
    OBVIOUS
  <2>1. CASE HistoryNext
    BY <2>1, LegalityNext
  <2>2. CASE UNCHANGED <<vars, history>>
    <3>1. /\ Files' = Files /\ removed' = removed /\ overtaken' = overtaken
          /\ call' = call /\ transactions' = transactions
      BY <2>2 DEF vars, history
    <3> QED
      BY <3>1, LegalStays DEF Legality
  <2> QED
    BY <2>1, <2>2
<1>3. Spec => []Base
  BY Invariant, ProgressInvariant, LookupsInvariant, PTL DEF Base
<1> QED
  BY <1>1, <1>2, <1>3, HistoryIsCore, HistoryInvariant, PTL DEF HistorySpec

\* For any threads, the core is the share that its clients expect: whatever crashes,
\* throws and is replayed, its tables change by whole operations on the tree as it
\* is then, but for the replay of a message that another thread has overtaken.
THEOREM RefinesShare == HistorySpec => ImplementsShare
<1>1. Base /\ HistoryInv /\ Legality /\ [HistoryNext]_<<vars, history>> =>
        [(\E c \in call : c.replay /\ c.thread \in overtaken)
           \/ [Served!Next]_<<Tree, Used>>]_<<vars, history>>
  BY ServedNext
<1>2. Spec => []Base
  BY Invariant, ProgressInvariant, LookupsInvariant, PTL DEF Base
<1> QED
  BY <1>1, <1>2, ServedStarts, HistoryIsCore, HistoryInvariant, LegalityInvariant, PTL
     DEF HistorySpec, ImplementsShare

\* One thread alone overtakes nobody.
LEMMA NobodyOvertaken ==
  ASSUME AtMostOne(Threads)
  PROVE  HistorySpec => [](overtaken = {})
<1>1. HistoryInit => overtaken = {}
  BY DEF HistoryInit
<1>2. IInv /\ overtaken = {} /\ [HistoryNext]_<<vars, history>> => (overtaken = {})'
  <2> SUFFICES ASSUME IInv, overtaken = {}, [HistoryNext]_<<vars, history>>
               PROVE  overtaken' = {}
    OBVIOUS
  <2>1. CASE UNCHANGED <<vars, history>>
    BY <2>1 DEF history
  <2>2. CASE HistoryNext
    <3>1. /\ [Next]_vars
          /\ overtaken' = (overtaken \ Opening) \cup (IF Files' = Files THEN {} ELSE Others)
      BY <2>2 DEF HistoryNext
    <3>2. ASSUME ApplyRow PROVE Others = {}
      <4>1. PICK c \in call : TRUE
        BY <3>2 DEF ApplyRow
      <4>2. \A t \in Threads : t = c.thread
        BY <4>1, TheCall DEF AtMostOne
      <4> QED
        BY <4>1, <4>2 DEF Others
    <3> QED
      BY <3>1, <3>2, StepFrame
  <2> QED
    BY <2>1, <2>2
<1>3. Spec => []IInv
  BY Invariant
<1> QED
  BY <1>1, <1>2, <1>3, HistoryIsCore, PTL DEF HistorySpec

\* So for one thread the core implements the share that its clients expect.
THEOREM OneClient ==
  ASSUME AtMostOne(Threads)
  PROVE  HistorySpec => Served!Spec
<1>1. overtaken = {} /\ Base /\ HistoryInv /\ Legality /\ [HistoryNext]_<<vars, history>>
        => [Served!Next]_<<Tree, Used>>
  <2> SUFFICES ASSUME overtaken = {}, Base, HistoryInv, Legality,
                      [HistoryNext]_<<vars, history>>
               PROVE  [Served!Next]_<<Tree, Used>>
    OBVIOUS
  <2>1. CASE HistoryNext
    BY <2>1, ServedNext
  <2>2. CASE UNCHANGED <<vars, history>>
    BY <2>2 DEF vars, history, Tree, Used, Ids
  <2> QED
    BY <2>1, <2>2
<1>2. Spec => []Base
  BY Invariant, ProgressInvariant, LookupsInvariant, PTL DEF Base
<1> QED
  BY <1>1, <1>2, NobodyOvertaken, ServedStarts, HistoryIsCore, HistoryInvariant,
     LegalityInvariant, PTL DEF HistorySpec, Served!Spec
=============================================================================
