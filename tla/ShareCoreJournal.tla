-------------------------- MODULE ShareCoreJournal --------------------------
(***************************************************************************)
(* ShareCore uses its transaction files as the Transactor says.  A message *)
(* is told by its operation, the file and the change the operation makes.  *)
(***************************************************************************)
EXTENDS MCShareCore

Identity(m) == <<m.op, m.file.id, m.new.change>>

Identities == Operations \X (0 .. MaxFile) \X (0 .. MaxChange)

\* The thread whose message is being replayed.
Replaying == {c.thread : c \in {c \in call : c.replay /\ pc # "close"}}

\* The thread whose replay has returned, before its file is removed.
Removing == {c.thread : c \in {c \in call : c.replay /\ pc = "close"}}

Process ==
  IF pc = "down" THEN "down"
  ELSE IF pc = "recover" \/ Replaying \cup Removing # {} THEN "recovering"
  ELSE "up"

\* Before "row" a message has not reached Act's file yet.
Acting(t) ==
  {Identity(c.msg) : c \in {c \in call : c.thread = t /\ ~c.replay /\ pc # "open"}}

Journal == INSTANCE Transactor WITH
  Messages  <- Identities,
  process   <- Process,
  files     <- [t \in Threads |-> {Identity(m) : m \in transactions[t]}],
  acting    <- [t \in Threads |-> Acting(t)],
  replaying <- Replaying,
  removing  <- Removing

\* Whatever the core does, its transaction files change as Transactor allows:
\* one message per thread and file, written at the latest when Act is left,
\* kept through crashes and removed only after a successful replay.
ImplementsTransactor == Journal!Spec

=============================================================================
