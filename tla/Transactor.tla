----------------------------- MODULE Transactor -----------------------------
(***************************************************************************)
(* The transaction journal of app/transaction.h, whatever the messages and *)
(* the callbacks are.  Act writes the message to a file named after the    *)
(* thread, calls the message's callback and means to remove the file; the  *)
(* constructor replays the messages in the files it finds, and removes     *)
(* each file after that.  Threads may act at the same time.                *)
(*                                                                         *)
(* The callback itself is not described: it returns or throws.  A file is  *)
(* modelled by the complete message that can be read from it, if any.      *)
(***************************************************************************)

CONSTANTS Threads, Messages,
          Durable   \* may a message be on disk before its callback starts?

ASSUME DurableAssumption == Durable \subseteq BOOLEAN

VARIABLES process,     \* "up", "down" or "recovering"
          files,       \* the message in each thread's file
          acting,      \* the message each thread is acting on
          replaying,   \* the thread whose message recovery is replaying
          removing     \* the thread whose replay has returned, with its file
                       \* still to be removed

vars == <<process, files, acting, replaying, removing>>

Idle == [t \in Threads |-> {}]

Init ==
  /\ process = "up"
  /\ files = Idle
  /\ acting = Idle
  /\ replaying = {}
  /\ removing = {}

\* Act, up to the call of the callback: opening the file truncates it, and
\* what is written stays in the stream's buffer if there is room.
Act(t, message) ==
  /\ process = "up"
  /\ acting[t] = {}
  /\ acting' = [acting EXCEPT ![t] = {message}]
  /\ \E written \in Durable :
       files' = [files EXCEPT ![t] = IF written THEN {message} ELSE {}]
  /\ UNCHANGED <<process, replaying, removing>>

\* The rest of Act.  The path given to bfs::remove lies below the thread's
\* file, so nothing is removed, and the destructor of the stream writes the
\* message out: after a callback that returned as after one that threw.
Leave(t) ==
  /\ acting[t] # {}
  /\ files' = [files EXCEPT ![t] = acting[t]]
  /\ acting' = [acting EXCEPT ![t] = {}]
  /\ UNCHANGED <<process, replaying, removing>>

Return(t) == Leave(t)

\* Mutant: the file is removed on the way out, whatever the callback did.
ThrowRemoves(t) ==
  /\ acting[t] # {}
  /\ files' = [files EXCEPT ![t] = {}]
  /\ acting' = [acting EXCEPT ![t] = {}]
  /\ UNCHANGED <<process, replaying, removing>>

Throw(t) == Leave(t)

\* The process ends, in good order or by a crash; buffers are lost.
End ==
  /\ process # "down"
  /\ process' = "down"
  /\ acting' = Idle
  /\ replaying' = {}
  /\ removing' = {}
  /\ UNCHANGED files

Start ==
  /\ process = "down"
  /\ process' = "recovering"
  /\ UNCHANGED <<files, acting, replaying, removing>>

Replay(t) ==
  /\ process = "recovering"
  /\ replaying = {} /\ removing = {}
  /\ files[t] # {}
  /\ replaying' = {t}
  /\ UNCHANGED <<process, files, acting, removing>>

\* The callback has returned; the file is still there and will be closed first.
ReplayReturns(t) ==
  /\ t \in replaying
  /\ replaying' = {}
  /\ removing' = {t}
  /\ UNCHANGED <<process, files, acting>>

\* Mutant: recovery leaves the file where it is until the next start.
RemoveKept(t) ==
  /\ t \in removing
  /\ process' = "up"
  /\ removing' = {}
  /\ UNCHANGED <<files, acting, replaying>>

Remove(t) ==
  /\ t \in removing
  /\ files' = [files EXCEPT ![t] = {}]
  /\ removing' = {}
  /\ UNCHANGED <<process, acting, replaying>>

\* An exception, of the callback or of bfs::remove, leaves the constructor:
\* there is no Transactor.
RecoveryThrows(t) == t \in replaying \cup removing /\ End

Recovered ==
  /\ process = "recovering"
  /\ replaying = {} /\ removing = {}
  /\ files = Idle
  /\ process' = "up"
  /\ UNCHANGED <<files, acting, replaying, removing>>

Next ==
  \/ \E t \in Threads :
       \/ \E message \in Messages : Act(t, message)
       \/ Return(t) \/ Throw(t)
       \/ Replay(t) \/ ReplayReturns(t) \/ Remove(t) \/ RecoveryThrows(t)
  \/ End \/ Start \/ Recovered

Spec == Init /\ [][Next]_vars

=============================================================================
