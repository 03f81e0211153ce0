--------------------------- MODULE TransactorProofs ---------------------------
(***************************************************************************)
(* Proofs about the transaction journal, for any threads and messages, and *)
(* whether or not a message is on disk before its callback starts.         *)
(***************************************************************************)
EXTENDS TransactorHistory, TLAPS

JournalTypes ==
  /\ process \in {"up", "down", "recovering"}
  /\ files \in [Threads -> SUBSET Messages]
  /\ acting \in [Threads -> SUBSET Messages]
  /\ failed \in [Threads -> SUBSET Messages]
  /\ replaying \subseteq Threads
  /\ removing \subseteq Threads

\* Threads only act in a process that is up, recovery is over by then.
ActingIsUp ==
  /\ process # "up" => \A t \in Threads : acting[t] = {}
  /\ replaying # {} \/ removing # {} => process = "recovering"

\* A thread that acts has overwritten what it owed.
FailedIsOwed == \A t \in Threads : acting[t] # {} => failed[t] = {}

\* Recovery goes from file to file, and owes nothing once a replay has returned.
OneAtATime ==
  /\ replaying # {} => removing = {}
  /\ \A t \in removing : removing = {t} /\ failed[t] = {}

\* The messages of a thread that are in its file, or may get there.
Held(t) == files[t] \cup acting[t]

\* Every message held has been given to Act once, and by one thread.  If a replay
\* of it has returned, its file is about to be removed, or that was interrupted.
HeldOnce ==
  /\ replayed \subseteq used
  /\ \A t \in Threads : Held(t) \subseteq used
  /\ \A t \in Threads : t \notin removing => Held(t) \cap replayed \subseteq interrupted
  /\ \A s, t \in Threads : s # t => Held(s) \cap Held(t) = {}

JournalInv ==
  JournalTypes /\ ActingIsUp /\ FailedIsOwed /\ FailedIsKept /\ OneAtATime /\ HeldOnce

-----------------------------------------------------------------------------
\* A journal that nobody has used yet.
LEMMA JournalInit == HistoryInit => JournalInv
BY DEF HistoryInit, Init, Idle, JournalInv, JournalTypes, ActingIsUp, FailedIsOwed,
       FailedIsKept, OneAtATime, HeldOnce, Held

\* The start of Act: the file is emptied or holds the new message.
LEMMA ActKeeps ==
  ASSUME JournalInv, NEW t \in Threads, NEW message \in Messages \ used,
         Act(t, message), used' = used \cup {message},
         failed' = [failed EXCEPT ![t] = {}], UNCHANGED <<replayed, interrupted>>
  PROVE  JournalInv'
<1> USE DEF JournalInv
<1>1. PICK kept \in SUBSET {message} : files' = [files EXCEPT ![t] = kept]
  BY DEF Act
<1>2. JournalTypes'
  BY <1>1 DEF JournalTypes, Act
<1>3. ActingIsUp' /\ FailedIsOwed' /\ FailedIsKept' /\ OneAtATime'
  BY <1>1 DEF JournalTypes, Act, ActingIsUp, FailedIsOwed, FailedIsKept, OneAtATime
<1>4. /\ Held(t)' \subseteq {message}
      /\ \A s \in Threads : s # t => Held(s)' = Held(s)
  BY <1>1 DEF JournalTypes, Act, Held
<1>5. HeldOnce'
  BY <1>4 DEF HeldOnce, Act
<1> QED
  BY <1>2, <1>3, <1>5

\* The end of Act, whether the callback has returned or thrown: the message is in
\* the file.
LEMMA LeaveKeeps ==
  ASSUME JournalInv, NEW t \in Threads, Leave(t),
         failed' = failed \/ failed' = [failed EXCEPT ![t] = acting[t]],
         UNCHANGED <<used, replayed, interrupted>>
  PROVE  JournalInv'
<1> USE DEF JournalInv
<1>1. JournalTypes'
  BY DEF JournalTypes, Leave
<1>2. ActingIsUp' /\ FailedIsOwed' /\ FailedIsKept' /\ OneAtATime'
  BY DEF JournalTypes, Leave, ActingIsUp, FailedIsOwed, FailedIsKept, OneAtATime
<1>3. \A s \in Threads : Held(s)' \subseteq Held(s)
  BY DEF JournalTypes, Leave, Held
<1>4. HeldOnce'
  BY <1>3 DEF HeldOnce, Leave
<1> QED
  BY <1>1, <1>2, <1>4

\* The end of a replay: the file is the one to be removed now.
LEMMA ReplayReturnsKeeps ==
  ASSUME JournalInv, NEW t \in Threads, ReplayReturns(t),
         replayed' = replayed \cup files[t], interrupted' = interrupted \ files[t],
         failed' = [failed EXCEPT ![t] = {}], used' = used
  PROVE  JournalInv'
<1> USE DEF JournalInv
<1>1. JournalTypes'
  BY DEF JournalTypes, ReplayReturns
<1>2. \A s \in Threads : acting[s] = {}
  BY DEF ReplayReturns, ActingIsUp
<1>3. ActingIsUp' /\ FailedIsOwed' /\ FailedIsKept' /\ OneAtATime'
  BY <1>2 DEF JournalTypes, ReplayReturns, ActingIsUp, FailedIsOwed, FailedIsKept, OneAtATime
<1>4. /\ \A s \in Threads : Held(s)' = Held(s)
      /\ Held(t) = files[t]
  BY <1>2 DEF ReplayReturns, Held
<1>5. removing' = {t} /\ \A s \in Threads : s # t => s \notin removing
  BY DEF ReplayReturns, ActingIsUp, OneAtATime
<1>6. HeldOnce'
  BY <1>4, <1>5 DEF HeldOnce
<1> QED
  BY <1>1, <1>3, <1>6

\* The message leaves the file and no thread holds it.
LEMMA RemoveKeeps ==
  ASSUME JournalInv, NEW t \in Threads, Remove(t), UNCHANGED history
  PROVE  JournalInv'
<1> USE DEF JournalInv, history
<1>1. JournalTypes'
  BY DEF JournalTypes, Remove
<1>2. \A s \in Threads : acting[s] = {}
  BY DEF Remove, ActingIsUp
<1>3. ActingIsUp' /\ FailedIsOwed' /\ FailedIsKept' /\ OneAtATime'
  BY <1>2 DEF JournalTypes, Remove, ActingIsUp, FailedIsOwed, FailedIsKept, OneAtATime
<1>4. /\ Held(t)' = {}
      /\ \A s \in Threads : s # t => Held(s)' = Held(s)
  BY <1>2 DEF JournalTypes, Remove, Held
<1>5. HeldOnce'
  BY <1>4 DEF HeldOnce, OneAtATime, Remove
<1> QED
  BY <1>1, <1>3, <1>5

\* Steps that leave the files alone and at most end what threads are doing.
LEMMA QuietKeeps ==
  ASSUME JournalInv, UNCHANGED <<files, used, replayed, failed>>,
         interrupted \subseteq interrupted',
         \A t \in removing : t \in removing' \/ files[t] \subseteq interrupted',
         acting' = acting \/ acting' = Idle, JournalTypes', ActingIsUp', OneAtATime'
  PROVE  JournalInv'
<1> USE DEF JournalInv
<1>1. \A t \in Threads : acting'[t] \subseteq acting[t]
  BY DEF Idle
<1>2. FailedIsOwed' /\ FailedIsKept'
  BY <1>1 DEF FailedIsOwed, FailedIsKept
<1>3. \A t \in Threads : Held(t)' \subseteq Held(t)
  BY <1>1 DEF Held
<1>4. \A t \in Threads : t \in removing => Held(t)' = files[t]
  BY <1>1 DEF Held, ActingIsUp
<1>5. HeldOnce'
  BY <1>3, <1>4 DEF HeldOnce
<1> QED
  BY <1>2, <1>5

\* Every step of the journal keeps the invariant.
LEMMA JournalNext == JournalInv /\ [HistoryNext]_<<vars, history>> => JournalInv'
<1> SUFFICES ASSUME JournalInv, [HistoryNext]_<<vars, history>> PROVE JournalInv'
  OBVIOUS
<1>1. CASE UNCHANGED <<vars, history>>
  <2>1. JournalTypes' /\ ActingIsUp' /\ OneAtATime'
    BY <1>1 DEF vars, history, JournalInv, JournalTypes, ActingIsUp, OneAtATime
  <2> QED
    BY <1>1, <2>1, QuietKeeps DEF vars, history
<1>2. ASSUME Start \/ Recovered \/ \E t \in Threads : Replay(t), UNCHANGED history
      PROVE  JournalInv'
  <2>1. UNCHANGED <<files, acting, removing>>
    BY <1>2 DEF Start, Recovered, Replay
  <2>2. JournalTypes'
    BY <1>2, <2>1 DEF Start, Recovered, Replay, history, JournalInv, JournalTypes
  <2>3. ActingIsUp' /\ OneAtATime'
    BY <1>2, <2>1 DEF Start, Recovered, Replay, history, JournalInv, ActingIsUp, OneAtATime
  <2> QED
    BY <1>2, <2>1, <2>2, <2>3, QuietKeeps DEF history
<1>3. ASSUME End, Interrupt PROVE JournalInv'
  <2>1. JournalTypes'
    BY <1>3 DEF End, Interrupt, Idle, JournalInv, JournalTypes
  <2>2. ActingIsUp' /\ OneAtATime'
    BY <1>3 DEF End, Idle, ActingIsUp, OneAtATime
  <2> QED
    BY <1>3, <2>1, <2>2, QuietKeeps DEF End, Interrupt
<1>4. ASSUME NEW t \in Threads, Remember(t) PROVE JournalInv'
  <2>1. CASE RecoveryThrows(t) /\ Interrupt
    BY <1>3, <2>1 DEF RecoveryThrows
  <2>2. CASE Replay(t) /\ UNCHANGED history
    BY <1>2, <2>2
  <2> QED
    BY <1>4, <2>1, <2>2, ActKeeps, LeaveKeeps, ReplayReturnsKeeps, RemoveKeeps
       DEF Remember, Return, Throw
<1> QED
  BY <1>1, <1>2, <1>3, <1>4 DEF HistoryNext

\* Whatever the threads do, and however often the process ends, a callback that
\* threw is not forgotten: its message is in its thread's file until a replay of
\* it succeeds or the thread acts again.
THEOREM FailuresAreKept == HistorySpec => []FailedIsKept
<1>1. JournalInv => FailedIsKept
  BY DEF JournalInv
<1> QED
  BY <1>1, JournalInit, JournalNext, PTL DEF HistorySpec

\* Recovery replays a message whose replay has returned, in this start or in an
\* earlier one, only when the process ended after the last of these returns and
\* before the file was removed.
THEOREM NoSecondReplay == HistorySpec => []ReplayedOnce
<1>1. JournalInv => ReplayedOnce
  BY DEF JournalInv, JournalTypes, OneAtATime, HeldOnce, Held, ReplayedOnce
<1> QED
  BY <1>1, JournalInit, JournalNext, PTL DEF HistorySpec

-----------------------------------------------------------------------------
(***************************************************************************)
(* Recovery comes to an end unless something ends the process.             *)
(***************************************************************************)

\* What is being replayed, or was just now, is in its file.
ReplayedIsThere == \A t \in replaying \cup removing : files[t] # {}

\* A step of a recovery ends it, begins a replay, or brings one nearer to its end:
\* the callback returns, or the message is removed for good.
Advances ==
  \/ process' # "recovering"
  \/ /\ replaying \cup removing = {}
     /\ replaying' # {} /\ UNCHANGED <<files, removing>>
  \/ \E t \in replaying : replaying' = {} /\ removing' = {t} /\ UNCHANGED files
  \/ \E t \in removing :
       /\ files[t] # {} /\ files' = [files EXCEPT ![t] = {}]
       /\ removing' = {} /\ UNCHANGED replaying

RecoveryAdvances == [][process = "recovering" => Advances]_<<vars, history>>

\* Nothing is added to the files while they are replayed, so the replays that a
\* start has before it become fewer with each that is removed: the constructor's
\* loop (transaction.h:26) is over after one replay per file, unless it throws or
\* the process ends.
THEOREM RecoveryShrinks == HistorySpec => RecoveryAdvances
<1>1. HistoryInit => ReplayedIsThere
  BY DEF HistoryInit, Init, ReplayedIsThere
<1>2. JournalInv /\ ReplayedIsThere /\ [HistoryNext]_<<vars, history>> => ReplayedIsThere'
  <2> SUFFICES ASSUME JournalInv, ReplayedIsThere, [HistoryNext]_<<vars, history>>,
                      NEW t \in replaying' \cup removing'
               PROVE  files'[t] # {}
    BY DEF ReplayedIsThere
  <2>1. CASE UNCHANGED <<vars, history>>
    BY <2>1 DEF vars, ReplayedIsThere
  <2>2. CASE End \/ Start \/ Recovered \/ \E s \in Threads : RecoveryThrows(s) \/ ReplayReturns(s)
    BY <2>2 DEF End, Start, Recovered, RecoveryThrows, ReplayReturns, ReplayedIsThere
  <2>3. ASSUME NEW s \in Threads, Replay(s) PROVE files'[t] # {}
    BY <2>3 DEF Replay
  <2>4. ASSUME NEW s \in Threads, Remove(s) PROVE files'[t] # {}
    BY <2>4 DEF Remove, JournalInv, OneAtATime
  <2>5. ASSUME NEW s \in Threads,
               Return(s) \/ Throw(s) \/ \E message \in Messages : Act(s, message)
        PROVE  FALSE
    BY <2>5 DEF Return, Throw, Leave, Act, JournalInv, ActingIsUp
  <2> QED
    BY <2>1, <2>2, <2>3, <2>4, <2>5 DEF HistoryNext, Remember
<1>3. JournalInv /\ ReplayedIsThere /\ [HistoryNext]_<<vars, history>> =>
        [process = "recovering" => Advances]_<<vars, history>>
  <2> SUFFICES ASSUME JournalInv, ReplayedIsThere, HistoryNext,
                      process = "recovering", process' = "recovering"
               PROVE  Advances
    BY DEF Advances
  <2>1. ~End /\ ~Start /\ ~Recovered /\ \A t \in Threads : ~RecoveryThrows(t)
    BY DEF End, Start, Recovered, RecoveryThrows
  <2>2. PICK t \in Threads : Remember(t)
    BY <2>1 DEF HistoryNext
  <2>3. CASE Replay(t)
    BY <2>3 DEF Replay, Advances
  <2>4. CASE ReplayReturns(t)
    BY <2>4 DEF ReplayReturns, Advances
  <2>5. CASE Remove(t)
    BY <2>5 DEF Remove, ReplayedIsThere, Advances
  <2>6. ~Return(t) /\ ~Throw(t) /\ \A message \in Messages : ~Act(t, message)
    BY DEF Return, Throw, Leave, Act, JournalInv, ActingIsUp
  <2> QED
    BY <2>1, <2>2, <2>3, <2>4, <2>5, <2>6 DEF Remember
<1> QED
  BY <1>1, <1>2, <1>3, JournalInit, JournalNext, PTL DEF HistorySpec, RecoveryAdvances

=============================================================================
