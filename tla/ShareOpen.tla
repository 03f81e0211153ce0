------------------------------ MODULE ShareOpen ------------------------------
(***************************************************************************)
(* The constructor of ShareCoreInner (app/core.cxx) up to the recovery of  *)
(* transactions: a share whose directory does not exist is created, piece  *)
(* by piece, and any other directory is taken for a share and read back.   *)
(* Nothing marks a creation as finished, so after a crash or a failure in  *)
(* the middle the next start finds whatever pieces there are.              *)
(*                                                                         *)
(* The NAME comes from the command line (main in app/fusemain.cxx), or is  *)
(* the argument of a caller that makes a ShareCore itself, as              *)
(* test/core1.cxx does.                                                    *)
(***************************************************************************)
EXTENDS Sequences, FiniteSets, Naturals

CONSTANTS ValidNames, InvalidNames,   \* values of NAME
          IDs,                        \* values of the random InstanceID
          Callers,                    \* subset of {"main", "test"}
          Faults                      \* subset of {"crash", "throw", "unwritten"}

\* No NAME on the command line; the constructor's default is the empty string.
NoName == "no name"

ASSUME NamesAssumption == NoName \notin ValidNames \cup InvalidNames
ASSUME IDsAssumption == IDs # {}

Identity == [name: ValidNames \cup InvalidNames \cup {NoName}, id: IDs]

\* Mutant: the static file is written when the tables are there.
CreationStaticLate ==
  <<"root", "log", "app", "files", "transactions", "readme",
    "Stats", "version", "Instances", "FilenameIndex", "instance",
    "Counters", "counters", "Files", "ParentIndex", "Ancestry",
    "static", "static data", "root row">>

\* The pieces in the order in which they are made, each one durable: directories
\* and files, then the tables (capitals) and their first rows.  What is written
\* to the static file reaches the disk when the stream is closed.
Creation ==
  <<"root", "log", "app", "files", "transactions", "static", "static data", "readme",
    "Stats", "version", "Instances", "FilenameIndex", "instance",
    "Counters", "counters", "Files", "ParentIndex", "Ancestry", "root row">>

Pieces == {Creation[i] : i \in DOMAIN Creation}

\* What is left of the static data when only a part of it could be written.
Torn == "part of static data"

VARIABLES disk,       \* the pieces that exist
          other,      \* is there something else than a directory at Root?
          static,     \* the identity in the static file, if there is one
          instance,   \* the identity in the table "Instances", if there is one
          process,    \* stage of the process
          step,       \* the next piece, when it creates the share
          self        \* InstanceName and InstanceID

vars == <<disk, other, static, instance, process, step, self>>

\* Root does not exist, or is an empty directory, or is not a directory.
Init ==
  /\ disk \in {{}, {"root"}}
  /\ other \in BOOLEAN
  /\ other => disk = {}
  /\ static = {} /\ instance = {}
  /\ process = "down"
  /\ step = 1
  /\ self = {}

Become(stage) == process' = stage

\* main checks argc for one argument fewer than it reads: without NAME it makes
\* a string of the null pointer that ends argv.
Start(caller, name) ==
  /\ process = "down"
  /\ \/ /\ caller = "main" /\ name = NoName
        /\ Become("terminated")
        /\ UNCHANGED self
     \/ /\ caller = "test" \/ name # NoName
        /\ \E id \in IDs : self' = {[name |-> name, id |-> id]}
        /\ Become("starting")
  /\ UNCHANGED <<disk, other, static, instance, step>>

\* Root does not exist.
BeginCreation ==
  /\ process = "starting"
  /\ ~other /\ "root" \notin disk
  /\ \E me \in self : Become(IF me.name \in ValidNames THEN "creating" ELSE "failed")
  /\ step' = 1
  /\ UNCHANGED <<disk, other, static, instance, self>>

Create ==
  /\ process = "creating"
  /\ disk' = disk \cup {Creation[step]}
  /\ static' = IF Creation[step] = "static data" THEN self ELSE static
  /\ instance' = IF Creation[step] = "instance" THEN self ELSE instance
  /\ step' = step + 1
  /\ Become(IF step = Len(Creation) THEN "recovering" ELSE "creating")
  /\ UNCHANGED <<other, self>>

\* The static data cannot be written, or not all of it.  Nobody looks at the
\* stream, so the creation goes on.
CreateUnwritten ==
  /\ "unwritten" \in Faults
  /\ process = "creating"
  /\ Creation[step] = "static data"
  /\ disk' \in {disk, disk \cup {Torn}}
  /\ step' = step + 1
  /\ UNCHANGED <<other, static, instance, process, self>>

RefuseOther ==
  /\ process = "starting"
  /\ other
  /\ Become("failed")
  /\ UNCHANGED <<disk, other, static, instance, step, self>>

\* Preparing the statements needs their tables, reading the version its row.
DatabaseIsRead ==
  {"Counters", "Instances", "Files", "Ancestry", "Stats", "version"} \subseteq disk

\* Mutant: NAME wins over what was stored.
RestoreRenamed ==
  /\ process = "starting"
  /\ "root" \in disk
  /\ disk' = disk \cup {"log"}
  /\ Become(IF DatabaseIsRead THEN "recovering" ELSE "failed")
  /\ UNCHANGED <<other, static, instance, step, self>>

\* Root is a directory.  A static file that is missing or empty counts as read:
\* Reader::Read returns true, and InstanceName stays what it was, while
\* InstanceID was never set.  Of one with a part of the message it returns false.
Restore ==
  /\ process = "starting"
  /\ "root" \in disk
  /\ disk' = disk \cup {"log"}
  /\ self' = IF static = {} THEN self ELSE static
  /\ Become(IF DatabaseIsRead /\ Torn \notin disk THEN "recovering" ELSE "failed")
  /\ UNCHANGED <<other, static, instance, step>>

\* The constructor of Transactor lists the directory; see ShareCore for the rest.
Recover ==
  /\ process = "recovering"
  /\ Become(IF "transactions" \in disk THEN "open" ELSE "failed")
  /\ UNCHANGED <<disk, other, static, instance, step, self>>

\* Any step of the constructor throws: creating or opening a file, a statement of
\* the database, listing a directory, a replay.  init reports the error and exits.
\* Of a directory, the log is opened before anything else can go wrong.
Fail ==
  /\ "throw" \in Faults
  /\ process \in {"starting", "creating", "recovering"}
  /\ disk' \in {disk} \cup (IF process = "starting" /\ "root" \in disk THEN {disk \cup {"log"}} ELSE {})
  /\ Become("failed")
  /\ UNCHANGED <<other, static, instance, step, self>>

\* Mutant: the identity outlives the process.
HaltKeepsSelf == Become("down") /\ UNCHANGED <<disk, other, static, instance, step, self>>

Halt == Become("down") /\ self' = {} /\ UNCHANGED <<disk, other, static, instance, step>>

Exit == process \in {"open", "failed", "terminated"} /\ Halt

Crash == "crash" \in Faults /\ process # "down" /\ Halt

Next ==
  \/ \E caller \in Callers, name \in ValidNames \cup InvalidNames \cup {NoName} :
       Start(caller, name)
  \/ BeginCreation \/ Create \/ CreateUnwritten \/ RefuseOther \/ Restore \/ Recover
  \/ Fail \/ Exit \/ Crash

Spec == Init /\ [][Next]_vars

-----------------------------------------------------------------------------
\* Every variable has its type, and an identity only while the share is in use.
TypeOK ==
  /\ disk \subseteq Pieces \cup {Torn}
  /\ other \in BOOLEAN
  /\ static \subseteq Identity /\ instance \subseteq Identity /\ self \subseteq Identity
  /\ process \in {"down", "starting", "creating", "recovering", "open", "failed", "terminated"}
  /\ self = {} <=> process \in {"down", "terminated"}
  /\ step \in 1 .. Len(Creation) + 1

\* A share that opens is whole but for two pieces: its root row, whose insertion
\* comes after everything that a restart checks, and its static data.  A directory
\* that only looks like a share, and other remains of a creation, are reported as
\* failures.
OpenIsWhole == process = "open" => Pieces \ {"root row", "static data"} \subseteq disk

\* An open share whose static data was written has the identity it was created
\* with, whatever NAME it is started with; the static file and the table agree.
IdentityIsKept ==
  process = "open" /\ "static data" \in disk => self = static /\ self = instance

=============================================================================
