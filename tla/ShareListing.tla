---------------------------- MODULE ShareListing ----------------------------
(***************************************************************************)
(* A directory is listed through opendir, readdir and releasedir           *)
(* (app/fusemain.cxx) while others change it.  readdir asks GetDirectory   *)
(* (app/core.cxx) for blocks of rows by their offset, and Mutex is free    *)
(* between two blocks; the kernel asks readdir for one buffer at a time    *)
(* and goes on from the offset that came with the last entry it took.      *)
(*                                                                         *)
(* The module starts where a handle of a directory is there.  An entry is  *)
(* a row below that directory, and its number the place that ParentIndex   *)
(* gives to its name: GetFiles has no ORDER BY and returns the rows in the *)
(* order of the index it uses.                                             *)
(***************************************************************************)
EXTENDS Integers, SequencesExt

CONSTANTS MaxEntry,     \* number of names that rows may have
          BlockCount,   \* rows in a block
          Capacity      \* entries in a buffer of the kernel

\* A page holds several entries with names of any length.
ASSUME SizesAssumption == MaxEntry \in Nat /\ BlockCount \in Nat \ {0} /\ Capacity \in Nat \ {0, 1}

Entries == 1 .. MaxEntry
Never == MaxEntry + 1

VARIABLES dir,        \* the rows of the directory
          stage,      \* of the listing
          offset,     \* readdir's variable
          buffer,     \* entries the filler took, each with its offset
          received,   \* history: entries the client has received,
          twice,      \*   those it has received again,
          resumed,    \*   and those a buffer ended with
          stayed,     \* history: entries there since the directory was opened,
          came, went  \*   the first of those that came and of those that went

listing == <<stage, offset, buffer, received, twice, resumed>>
vars == <<dir, listing, stayed, came, went>>

Init ==
  /\ dir \in SUBSET Entries
  /\ stage = "closed" /\ offset = 0 /\ buffer = <<>>
  /\ received = {} /\ twice = {} /\ resumed = {}
  /\ stayed = {} /\ came = Never /\ went = Never

-----------------------------------------------------------------------------
\* opendir, and readdir's first call.
Open ==
  /\ stage \in {"closed", "ended"}
  /\ stage' = "reading" /\ offset' = 0 /\ buffer' = <<>>
  /\ received' = {} /\ twice' = {} /\ resumed' = {}
  /\ stayed' = dir /\ came' = Never /\ went' = Never
  /\ UNCHANGED dir

\* The row that has i others before it.
Row(i) == CHOOSE e \in dir : Cardinality({d \in dir : d < e}) = i

First(e, f) == IF e < f THEN e ELSE f

\* Mutant: the arguments of LIMIT are bound in the wrong order.
GetDirectorySwapped(from, count) ==
  [i \in 1 .. First(from, Cardinality(dir) - count) |-> Row(count + i - 1)]

\* LIMIT from, count.
GetDirectory(from, count) ==
  [i \in 1 .. First(count, Cardinality(dir) - from) |-> Row(from + i - 1)]

\* Mutant: an entry comes with the offset of the first one of its block.
OffsetOfBlock(i) == offset

\* The offset given to the filler with the i-th entry of a block: its own.
OffsetOf(i) == offset + i - 1

\* Mutant: the offset moves on over the entry that follows the block.
NextBlockPast == offset + BlockCount + 1

NextBlock == offset + BlockCount

\* The loop ends when the filler has refused an entry or the block is short.
LastBlock(block, taken) == taken < Len(block) \/ Len(block) < BlockCount

\* One round of readdir's loop; the block is a copy, so filling needs no Mutex.
ReadBlock ==
  /\ stage = "reading"
  /\ LET block == GetDirectory(offset, BlockCount)
         room == Capacity - Len(buffer)
         taken == First(Len(block), room)
     IN  /\ buffer' = buffer \o [i \in 1 .. taken |-> [entry |-> block[i], offset |-> OffsetOf(i)]]
         /\ IF LastBlock(block, taken)
            THEN stage' = "replying" /\ UNCHANGED offset
            ELSE offset' = NextBlock /\ UNCHANGED stage
  /\ UNCHANGED <<dir, received, twice, resumed, stayed, came, went>>

\* The kernel hands a buffer on and asks for the next one, until it gets an empty
\* one.  An entry with offset 0 is taken for a listing without offsets: alone,
\* it is the whole of it.
Reply ==
  /\ stage = "replying"
  /\ LET Entry(i) == buffer[i].entry
         places == DOMAIN buffer
     IN  /\ received' = received \cup {Entry(i) : i \in places}
         /\ twice' = twice \cup {Entry(i) : i \in {i \in places :
                       Entry(i) \in received \/ \E j \in places : j < i /\ Entry(j) = Entry(i)}}
  /\ IF buffer = <<>> \/ Last(buffer).offset = 0
     THEN stage' = "ended" /\ UNCHANGED <<offset, resumed>>
     ELSE /\ stage' = "reading"
          /\ offset' = Last(buffer).offset
          /\ resumed' = resumed \cup {Last(buffer).entry}
  /\ buffer' = <<>>
  /\ UNCHANGED <<dir, stayed, came, went>>

\* The client closes the directory before it has seen the end.
Release ==
  /\ stage = "reading" /\ buffer = <<>>
  /\ stage' = "closed"
  /\ UNCHANGED <<dir, offset, buffer, received, twice, resumed, stayed, came, went>>

-----------------------------------------------------------------------------
\* The rows change as the statements of other threads make them: CreateFile,
\* DeleteFile, and MoveFile, which may be from, to or inside the directory.
CreateEntry(e) ==
  /\ e \notin dir
  /\ dir' = dir \cup {e}
  /\ came' = First(came, e)
  /\ UNCHANGED <<listing, stayed, went>>

DeleteEntry(e) ==
  /\ e \in dir
  /\ dir' = dir \ {e}
  /\ went' = First(went, e) /\ stayed' = stayed \ {e}
  /\ UNCHANGED <<listing, came>>

MoveEntry(e, f) ==
  /\ e \in dir /\ f \notin dir
  /\ dir' = (dir \ {e}) \cup {f}
  /\ went' = First(went, e) /\ stayed' = stayed \ {e}
  /\ came' = First(came, f)
  /\ UNCHANGED listing

Read == ReadBlock \/ Reply

Next ==
  \/ Open \/ Read \/ Release
  \/ \E e \in Entries : CreateEntry(e) \/ DeleteEntry(e) \/ \E f \in Entries : MoveEntry(e, f)

Spec == Init /\ [][Next]_vars

\* The thread of the callback runs on, and a client that has not closed the
\* directory asks for what is left.
FairSpec == Spec /\ WF_vars(Read)

-----------------------------------------------------------------------------
Seen == received \cup {buffer[i].entry : i \in DOMAIN buffer}

\* The blocks and buffers leave no hole of their own: an entry that was there
\* all the time and is missing before one that was seen has moved up because
\* an entry before it went between two blocks.
SkippedOnlyByRemoval ==
  \A e \in stayed \ Seen : (\E f \in Seen : e < f) => went < e

\* And they repeat nothing but the entry a buffer ended with, whose own offset is
\* where the next one begins: any other has moved down because one came before it.
RepeatedOnlyByInsertion == \A e \in twice \ resumed : came < e

\* What the reader must get in the end: while nothing goes and the directory is
\* not closed, every entry that was there from the start.
EntriesAreListed ==
  \A e \in Entries : (stage = "reading" /\ e \in stayed)
                       ~> (e \in received \/ went < Never \/ stage = "closed")

=============================================================================
