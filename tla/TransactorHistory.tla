-------------------------- MODULE TransactorHistory --------------------------
(***************************************************************************)
(* Transactor with the history of its callbacks.  A message stands for one *)
(* call of Act, so a thread acts on a message once.                        *)
(***************************************************************************)
EXTENDS Transactor

VARIABLES used,         \* messages given to Act
          returned,     \* messages whose callback has returned
          replayed,     \* those whose callback has returned in a replay
          interrupted,  \* those of them whose file the process did not get to
                        \* remove after the last return
          failed        \* what a replay owes to each thread: the message of
                        \* its last Act, if the callback threw

history == <<used, returned, replayed, interrupted, failed>>

HistoryInit ==
  /\ Init
  /\ used = {} /\ returned = {} /\ replayed = {} /\ interrupted = {}
  /\ failed = Idle

\* The process ends, and does not remove what it was about to remove.
Interrupt ==
  /\ interrupted' = interrupted \cup UNION {files[t] : t \in removing}
  /\ UNCHANGED <<used, returned, replayed, failed>>

Remember(t) ==
  \/ \E message \in Messages \ used :
       /\ Act(t, message)
       /\ used' = used \cup {message}
       /\ failed' = [failed EXCEPT ![t] = {}]
       /\ UNCHANGED <<returned, replayed, interrupted>>
  \/ /\ Return(t)
     /\ returned' = returned \cup acting[t]
     /\ UNCHANGED <<used, replayed, interrupted, failed>>
  \/ /\ Throw(t)
     /\ failed' = [failed EXCEPT ![t] = acting[t]]
     /\ UNCHANGED <<used, returned, replayed, interrupted>>
  \/ /\ ReplayReturns(t)
     /\ returned' = returned \cup files[t]
     /\ replayed' = replayed \cup files[t]
     /\ interrupted' = interrupted \ files[t]
     /\ failed' = [failed EXCEPT ![t] = {}]
     /\ UNCHANGED used
  \/ (Replay(t) \/ Remove(t)) /\ UNCHANGED history
  \/ RecoveryThrows(t) /\ Interrupt

HistoryNext ==
  \/ \E t \in Threads : Remember(t)
  \/ End /\ Interrupt
  \/ (Start \/ Recovered) /\ UNCHANGED history

HistorySpec == HistoryInit /\ [][HistoryNext]_<<vars, history>>

-----------------------------------------------------------------------------
\* The message of a callback that threw is on disk until a replay of it
\* succeeds or its thread acts again: through crashes, failed recoveries and
\* whatever the other threads do (the last call of test/transaction.cxx).
FailedIsKept == \A t \in Threads : failed[t] \subseteq files[t]

\* A message whose replay has returned is replayed again in one case only: the
\* process ended between that return (transaction.h:32) and the removal of the
\* file (transaction.h:37), and again between the two for every further replay.
ReplayedOnce == \A t \in replaying : files[t] \cap replayed \subseteq interrupted

\* What test/transaction.cxx:93 expects: a restart calls the callback of what
\* failed, and not again of what has returned.
CompletedIsNotReplayed == \A t \in replaying : files[t] \cap returned = {}

=============================================================================
