# A TLA+ verification of sonch

sonch mounts a *share* (a directory with a SQLite database, backing files and
a journal) as a FUSE file system.  The share is made to be synchronised
between instances one day: every modification of a file is a *change* with an
identity of its own, and the table `Ancestry` records which change replaced
which.  At this commit the program handles directories only; `CreateFile` is
declared in a comment (`src/app/core.h:250`), and the branches for files are
in every callback.

The project models the part that makes the program more than glue: a set of
operations on a tree of files, each made durable by a *journal of one message
per thread* that is replayed after a crash, over tables whose statements are
committed one by one.

Paths in the text are relative to the repository; `core.cxx` stands for
`src/app/core.cxx`, and so on.

## 1. Inventory

| Component | State | Operations | Where |
|---|---|---|---|
| `ShareCoreInner` | `Mutex`, the database, the transactor | `Get`, `CreateDirectory`, `OpenDirectory`, `GetDirectory`, `SetPermissions`, `SetTimestamp`, `Delete`, `Move`, `GetPrecedingChange` | `core.cxx:327-561` |
| `CoreDatabase` | tables `Files`, `Ancestry`, `Counters`, `Stats`, `Instances` | prepared statements, each committed on its own except the two around a counter | `core.cxx:7-136` |
| `Transactor` | one file per thread in `transactions/` | `Act`, recovery in the constructor | `transaction.h` |
| Transaction callbacks | none of their own | `Create`, `SetPermissions`, `SetTimestamp`, `Delete`, `Move`: a row, then `Ancestry`, then the backing file | `core.cxx:252-313` |
| Backing files | `files/<id>-<change>` | created, renamed, removed by the callbacks | `core.cxx:133`, `252-313` |
| Opening a share | the directory hierarchy, `static`, the database | creation, or reading back; then recovery | `core.cxx:138-250` |
| FUSE callbacks | `static Core`, directory handles in `fi->fh` | `getattr`, `access`, `rename`, `chmod`, `utimens`, `mkdir`, `opendir`, `readdir`, `releasedir`, `rmdir` | `fusemain.cxx` |
| `MoatT` | a lock on the core's `Mutex` while its bridge lives | `->`, `Cross` | `moat.h` |
| Protocol | none | `Message::Write`, `Reader::Read`, the codecs of the columns | `protocol.h`, `core.h:85-142` |
| SQLite wrapper | a connection and statements | `Prepare`, `Execute`, `Bind`, `Unbind` | `database.h`, `core.h:144-182` |
| Logs, errors, casts | output only | | `log.h`, `error.h`, `cast.h` |

**How they interact.**  FUSE calls the callbacks from several threads.  A
callback reaches the core through `ShareCore = MoatT<ShareCoreInner>`.  An
operation of the core takes `Mutex`, looks a path up with `GetFile` statements,
takes an index from `Counters` (between `BEGIN` and `COMMIT`), and hands a
message to the transactor.  `Transactor::Act` opens the calling thread's
transaction file, which empties it, writes the message into the stream, calls
the message's callback in the same thread and then means to remove the file.
The callback changes the database and the backing file.  When the process
starts again, `Transactor`'s constructor reads every file in `transactions/`
and calls the callbacks of the messages in it, before any operation can run.

**What is hard in it.**

- *Crashes.*  A callback makes up to three durable steps.  Nothing rolls one
  back; a replay has to complete the rest.  Whether there is anything to replay
  depends on whether the stream's buffer has reached the disk.
- *Replays of what is done.*  The file of a completed transaction is not
  removed (`transaction.h:50` names a path below it), so each thread's last
  message is replayed at the next start whether it is needed or not, in the
  order of the directory.  Statements must be harmless when they are outdated:
  `INSERT OR IGNORE`, and the change in every `WHERE`.
- *Exceptions.*  A callback that throws leaves the share half-changed, with its
  message on disk; in a replay it ends the process.
- *Interleaving.*  `Move` onto a file releases `Mutex` and takes it again to
  delete its target by path.
- *Duplicates.*  No key makes names unique; lookups take any match.
- *Failing statements.*  Every statement may fail.  A transaction around a counter is
  then left open, and a prepared statement is not reset; what runs next does so on top of
  that.
- *Listings.*  A directory is read in blocks by offset, the kernel asks for one buffer at
  a time, and rows come and go in between.

**What makes each component correct.**

- *Core and callbacks:* indexes are never reused; a change belongs to one file;
  the history of a file is a line that ends; the root row is always there; a row
  only moves to later changes, in any order of replays; names are unique;
  a deleted file stays deleted; an open share is consistent (every row has its
  backing file and its change its record); `Mutex` is always given back; to its
  clients, every operation happens at once or not at all.
- *Statements:* what returned OK is on disk; an index is given out once.
- *Journal:* what failed is kept until it has been replayed; what has been
  replayed is not replayed again; what returned is not replayed at all.
- *Opening:* a share that opens is complete, or the failure is reported.
- *FUSE callbacks:* no assertion can fail; every result of the core has an
  errno; a listing returns every entry that stays.
- *Protocol and columns:* reading gives back what was written.

## 2. Modules

| Module | Models |
|---|---|
| `ShareDatabase` | the tables `Files` and `Ancestry` and the statements that change them, as operators on the tables' values |
| `ShareNamespace` | paths, `GetInternal`, and what `CreateDirectory`, `Delete` and `Move` decide before they change anything |
| `ShareCore` | the open share: operations, `Act`, the callbacks step by step, crash, start, recovery; the properties |
| `MCShareCore` | values for TLC: names, paths, sets of kinds |
| `FuseCallbacks` | the results that each operation may return in a state of `ShareCore`, and the errno or assertion that the callbacks make of them |
| `Share` | what clients expect of a share: a tree on which every operation is one step |
| `ShareCoreHistory` | `FuseCallbacks` with a history: which files were deleted, and which transaction files are those of calls that returned, or older than what another thread did since; the refinement mapping to `Share` |
| `Columns`, `MCColumns` | the way of a `NodeID` through the columns of the database, over the rows of `ShareCore` |
| `Transactor` | the journal alone, for any messages and callbacks, with threads that act at the same time |
| `TransactorHistory` | `Transactor` with the history of its callbacks, and the journal's properties |
| `ShareCoreJournal` | the refinement mapping from `ShareCore` to `Transactor` |
| `ShareCoreProofs` | the theorems about `ShareCore`: in any state, about crashes, exceptions and recovery, its refinement of `Transactor`; and those about `Columns` |
| `ShareCoreHistoryProofs` | the theorems about what replays do to what clients see, the refinement of `Share`, and the codes that the callbacks get |
| `TransactorProofs` | the theorems about the journal alone |
| `IndexSource` | what the table `Counters` is for: indexes for one use |
| `ShareStatements` | the SQLite connection when statements fail: the transaction around a counter, bindings, resets |
| `ShareStatementsProofs` | the theorems about `ShareStatements` |
| `ShareListing` | `GetDirectory`, `readdir` and the kernel's buffers, over rows that change |
| `ShareListingProofs` | the theorems about `ShareListing` |
| `Moat` | `Mutex` alone: the operations' guards, the probe in `Get`, the bridges |
| `MoatProofs` | the theorems about `Moat` |
| `ShareOpen` | the constructor of `ShareCoreInner` before recovery: creation piece by piece, reading back, `main`'s NAME |
| `ShareOpenProofs` | the theorems about `ShareOpen` |
| `Protocol` | sizes, framing and reading of a message |
| `ProtocolProofs` | the theorems about `Protocol` |

`ShareCore` extends `ShareNamespace`, which extends `ShareDatabase`.
`Transactor` is independent of them: it is the abstract specification that
`ShareCore` is shown to implement; so are `Share`, for the core as its clients see it, and
`IndexSource`, for the statements around a counter.  `FuseCallbacks` and
`Columns` extend `ShareCore`, because a callback's reply and what is read from a column
are functions of the tables in the states that the core reaches.  `Moat`,
`ShareStatements`, `ShareOpen` and `Protocol` are about mechanisms below `ShareCore` and
stand alone; each gives `ShareCore` what it takes for granted: an operation's lookups and
counter statements are alone (`Moat`), its index is new and its statement's effect durable
(`ShareStatements`, which shows for which statements it is not), the root row is there when the
share opens (`ShareOpen`, which says when it is not), a message is read whole or
not at all (`Protocol`).  `ShareListing` stands alone as well: a listing depends on nothing
but the rows of one directory.

### State and actions of `ShareCore`

| Variable | Code |
|---|---|
| `Files`, `Ancestry` | the tables; a table is the set of its rows |
| `FileCounter`, `ChangeCounter` | the row of `Counters` |
| `backing` | the names of the files in `FilePath` |
| `transactions[t]` | the message that can be read from the transaction file of thread `t`: `{}` when there is no file, it is empty, or what was written is still in the stream's buffer |
| `pc` | `"down"`, `"recover"`, `"idle"` (up, `Mutex` free), or the stage of the transaction that runs under `Mutex` |
| `call` | the transaction under way: thread, message, live or replayed |
| `deleteAfter[t]` | `t` is in a `Move` between the release of `Mutex` (`core.cxx:478`) and `Delete(To)` |

An operation is one action up to the call of `Transact`: lookup, checks and the
two counter statements all happen under `Mutex`, and only the counter's
increment is durable.  A crash before the increment's `COMMIT` is a crash
before the action; one after it is a crash in stage `"open"`.  From there on
each durable effect is an action: `OpenRecord` (the thread's file is emptied),
`ApplyRow`, `ApplyAncestry`, `ApplyFile`, `Close` (the stream's destructor
writes the message out), and `Throw` can replace any step of the callback.
`Crash` is possible in every state of a running process.  `Start`, `Replay(t)`
and `Recovered` are the constructor of `Transactor`; a replay runs through the
same stages as a live call.

Choices that need a word:

- *Data left out.*  A `NodeID` is its `Index`: every one that the program makes
  has `Instance` 0.  `IsSplit` is 0 in every row.  Of the permissions only
  `CanWrite` takes part in a decision.
- *`LIMIT 1` without `ORDER BY`.*  When two rows have the same parent and name
  the one found is a choice, so `GetInternal` returns the set of possible
  results.
- *`Kinds`.*  `{FALSE}` is what this commit's operations create.  `TRUE` adds
  the files that `Create`'s message and callback already provide for; with it
  the models exercise the `IsFile` branches of every callback.
- *`Durable`.*  A message smaller than the stream's buffer stays in it until
  the stream is closed; a larger one goes to the file at once.  `{FALSE}` are
  messages of the first sort, `{TRUE}` of the second, `BOOLEAN` both.
- *The path of `bfs::remove`.*  `Act` removes `ThreadPath / id`, below the file
  itself; that does not exist, so a live call's file stays.
- *`ReplayDies`.*  `ShareFile` is written with `memcpy`, its `std::string`
  included.  Reading it in another process is undefined; the model lets the
  replay either work or end the process.
- *Threads and their files.*  Files that recovery finds carry the thread ids of
  the previous process; the model uses the same set of names, which is the case
  with the most overlap.
- *Records that cannot be written.*  Nobody looks whether `Out.write` and the closing of the
  stream worked (`transaction.h:48`).  While the callback runs that looks like a message in
  the buffer, which is modelled; that the file is still without the message after the call, or has a part
  of it, is not (`Protocol` says what recovery makes of a part).
- *Excluded.*  `CreateDirectory("/")`: its parent path is empty and the
  path check stops the program.  Statements that leave a transaction open or are not
  reset when they fail are `ShareStatements`'s; in `ShareCore` a failing one is `Throw`.

`Transactor`'s variables are the process, the message readable in each thread's
file, the message each thread acts on, the file recovery is replaying and the one it is about
to remove; its actions are `Act`, `Return`, `Throw`, `End`, `Start`, `Replay`,
`ReplayReturns` (the callback has returned, `transaction.h:32`), `Remove` (`transaction.h:37`),
`RecoveryThrows` (either of them throws), `Recovered`.  `End` can come between any two of them.  In `ShareCore`
stage `"close"` of a replay is that moment, and a `bfs::remove` that throws leaves the state that a
crash there leaves.

`ShareCoreHistory` adds to the steps of `ShareCore` what a replay can be held to afterwards.
`removed` are the ids of rows that a step took away, `disputed` those of them that another thread's
transaction file still had the `Create` of, `returned` the threads whose file has the
message of a call that returned, `overtaken` those whose file is older than a change that another thread
made to `Files`.  A thread is in none of the last two from the moment it opens its
file for a new call.

### The smaller modules

- *`Share`.*  `tree` is the table `Files` without the column for changes, `used` the ids that
  were ever in it.  It has no paths: an operation is on a file or directory that is
  reachable from the root.  It says what the code does where that is not what one would
  wish: a directory is deleted with files in it, moved below itself, or given a second entry of
  a name by a move; `Move` onto a file is two operations.
- *`ShareStatements`.*  `stored` is the database on disk, `view` what the connection sees of
  it, `opened` whether a `BEGIN` has no `COMMIT` yet.  A row is the index under which it is stored.
  `BEGIN`, the two counter statements and `COMMIT` are four actions, the callback's statement
  the fifth (`StoreRow`); each may fail with no effect, or with a rollback of
  the transaction, as SQLite does for some errors.  `unreset` are the statements that threw
  between `sqlite3_step` and `sqlite3_reset`: SQLite then refuses to bind their arguments.
  The first argument of every one of them is a `NodeID`, whose binding is checked
  (`core.h:155`), so they fail again, until the next start.  A lookup whose statement is not reset
  fails in the same way and changes nothing, and is left out.
- *`ShareListing`.*  An entry is its place in the order of `ParentIndex`, which is the order in
  which `GetFiles` finds rows.  `buffer` is what the filler has taken, each entry with its offset; the
  kernel asks again from the last one's.  `stayed`, `came` and `went` record what others did to the
  directory since it was opened.  The module starts from an open handle, though
  `OpenDirectory` gives out none for a directory (finding 8): it is about the loop as it is
  written and as `test/core1.cxx` uses `GetDirectory`.
- *`Moat`.*  One thread goes through `idle`, `cross` (waiting for its bridge),
  `enter`, `probed` (between `try_lock` and `unlock` in a debug build's `Get`),
  `lock` (waiting for the operation's guard), `inside`, `leave`; `failed` is an
  assertion of `core.cxx:340` that threw.  `way` tells how the core is called: through bridges, as
  `main` does, or directly.  No code of this commit does the latter: `test/core1.cxx` writes its calls like
  that (`Core.Get`), but on a `ShareCore`, which is the `MoatT` and has no such
  members.  What direct calls show is that the core's own guards work without the moat.  The move constructor of a bridge (`moat.h:21`) moves a
  `std::lock_guard`, which the standard library does not allow; the model gives
  the bridge the one lock that it is written to hold.
- *`ShareOpen`.*  `disk` is the set of pieces that exist, in the order of the
  code: directories and files, then tables with their first rows, each statement
  committed on its own.  `static` and `instance` are the identities stored in the
  static file and in `Instances`, `self` the one in memory.  `CreateUnwritten` is a write of
  the static data that fails, wholly or in part, with nobody looking at the stream (`core.cxx:200`).
  `Fail` is an exception anywhere in the constructor, in a creation as in a restart; a start without NAME
  ends in `"terminated"` before the constructor is reached (finding 12).
- *`Protocol`.*  A message is a type and the sequence of its fields, a field its
  kind and its size, or the sizes of its strings when it is a list; bytes are only
  counted.  A reader has a table of the types it knows (`Known`); a file may have
  been left by a version of the program that knows others.  `ReadList` goes on after an
  element that cannot be read, as the code does; that the body of a message is
  there before any field is read is what keeps such an element from being delivered.  `status` says how the message ended:
  `"refused"` (the size check of `Message::Write`), `"overrun"` (written past the
  end of the buffer), `"ignored"` (no whole header: `Read` returns true),
  `"rejected"`, `"delivered"`.  A message that is cut is what `Transactor`
  leaves after a machine stops in the middle of a write.
- *`Columns`.*  Values are numbers modulo `Wide` (2^64); a column stores
  the signed value, and `sqlite3_column_int` keeps it modulo `2 * Half`
  (2^32), signed again.  It has no state: what a lookup reads is a function of `Files`.  A
  value `Fits` when an int can hold it.
- *`FuseCallbacks`.*  A switch is a function from the codes it names; the codes it
  does not name, `Unhandled`, get to the assertion in its `default`.

## 3. What is model-checked

| Run | Module | Question and answer |
|---|---|---|
| `two_threads` | `MCColumns` | Do the tables stay sound when two threads work, callbacks throw, the process crashes with messages in its buffers and replays what it finds in any order?  Yes: `TypeOK`, `IndexesAreFresh`, `ChangeOfOneFile`, `HistoryIsWellFounded`, `RootIsThere`; no message does more to a row than to move it forward, delete it as it was read, or create it: `RowsMoveForward`; a live call that returns has had its effect: `OKMeansDone`; and what is read from a row matches that row, and no other, as long as its indexes fit an int, and never when they do not: `IdentityIsRead` |
| `recovery` | `MCShareCore` | If every message is on disk before its callback starts, does recovery complete what any crash interrupted, for files too?  Yes: `RowsAreBacked`, `ChangesAreRecorded` |
| `lost_record` | `MCShareCore` | And with the message in the buffer, as short messages are?  No: a counterexample to `ChangesAreRecorded` |
| `history` | `ShareCoreHistory` | Is the core the share that its clients expect, after any crash or exception?  Every change of the tables is one whole operation on them or a stutter, except in the replay of a message that another thread has overtaken: `ImplementsShare`.  What can replays spoil?  A deleted file comes back only by a `Create` that another thread has left (`DeletedStaysDeleted`), and no other message of a call that returned changes anything (`ReturnedReplayIsNoOp`).  And do the callbacks handle what the core returns?  All but the results that `OnlyKnownAssertions` lists (finding 7) |
| `progress` | `ShareCoreJournal` | Does every operation give `Mutex` back, and every recovery end?  Yes: `Settles`.  Does the core use its transaction files as the journal's specification says?  Yes: `ImplementsTransactor`.  Is what was left incomplete forgotten?  Only when the same thread starts another call: `IncompleteIsKept` |
| `journal` | `TransactorHistory` | Does the journal keep what failed?  Yes: `FailedIsKept`.  Is a successful replay final?  Unless the process ends before the file is removed: `ReplayedOnce` |
| `completed_replayed` | `TransactorHistory` | Is a transaction that returned left alone?  No: a counterexample to `CompletedIsNotReplayed` |
| `mutex` | `Moat` | Is whoever looks at the tables alone, is a thread with a bridge alone in the core, and does every direct call end?  Yes: `LookupsAreExclusive`, `BridgesAreExclusive`, `DirectCallsReturn` |
| `open_share` | `ShareOpen` | After crashes, failures and unnoticed write errors anywhere in creations and restarts, is a share that opens whole, with the identity it was created with?  Yes, but for its root row and its static data: `TypeOK`, `OpenIsWhole`, `IdentityIsKept` |
| `messages` | `Protocol` | Is a message read as it was written, and one that was cut not at all?  Yes: `DeliveredWhole`, `WholeIsDelivered`; and the buffer is only too small for strings of the two largest sizes: `OverrunIsLong` |
| `statements` | `ShareStatements` | If any statement may fail, are indexes still given out once, and is what returned OK on disk?  Yes, for operations that take an index: `TypeOK`, `ImplementsIndexSource`, `UpdatesAreStored`.  What can a transaction that was left open lose?  Only deletions: `OnlyDeletionsAreAtRisk` |
| `listing` | `ShareListing` | Which entries can a listing miss or repeat while others change the directory?  Those that an entry before them made move by going or coming, and the last one of each buffer: `SkippedOnlyByRemoval`, `RepeatedOnlyByInsertion`.  Is every entry listed in the end, if none goes?  Yes: `EntriesAreListed` |

**Bounds.**  `MaxFile` and `MaxChange` bound the counters: at most `MaxFile - 1`
creations and `MaxChange - 1` changes in a behaviour.  In `two_threads` and `recovery`
these are two and two, which is enough for one file to be created, changed, changed again by
another thread and deleted, with the old messages still to be replayed, which
is the shape of every hazard of the list; a crash, a restart and a needless
replay can come between any two of them, and as often as the state space
allows.  `FlatPaths` has the root, `/splits` and one name; `DeepPaths` adds a
directory in a directory, so that parents can be moved and removed under their
children.  One ordinary name is enough for a conflict of names; `splits` is
special in the root only, so it also serves as the second ordinary name below.
Two threads give two transaction files, the least for replays in the wrong
order.  `two_threads` and `recovery` use the symmetry of the threads: no
property and no constant tells them apart.

`two_threads` uses directories and buffered messages, `recovery` files and directories with
written messages: each pairs the setting with the properties it threatens.  `progress` has
both kinds of files and of messages, and two threads, with one creation and one change.

`history` has two threads, nested paths, both kinds of files, two creations and one change.  Its
operations are `CreateDirectory`, `Delete` and `Move`; `SetPermissions` and
`SetTimestamp`, whose messages take the same way as a `Move`'s, are in the theorems only.  Its messages are
buffered: where an exception has closed the file and a crash follows, it holds what a message on
disk would have left there.  It has one modification time, so a replayed creation cannot be told from
the first by that.

`Moat` has three threads, so that two can wait while one is inside, and enough
calls for a thread to come back to a mutex that others wait for.  `ShareOpen`
is finite as it stands; two names and two identities are the least that can be
confused.  `Protocol` counts values of `SizeType` up to 12 instead of 65536:
the header, the prefix and the integers keep sizes that do and do not fit, and three fields,
integers, strings, arrays and lists of up to two elements, reach sums below, at and above the limit, and a wrapped offset.  Its
strings go up to the larger of the two sizes that are measured wrongly (finding 4).  `two_threads` has 2 for 2^31 and
8 for 2^64: the first indexes that are given out fit, the next do not, and both are in the
tables at the same time.

`statements` has two statements that store rows, so that one can be left unreset while the
other works, and a counter long enough for an operation to fail, be followed by another and be
repeated; the theorems have no bound.  `listing` has four entries, blocks of two for
`BlockCount` = 100 and buffers of three: a listing takes several
buffers, a buffer more than one block, and seams of the two fall together and apart.

Deadlock is checked except in `mutex`, where calls through a bridge do stop for good
(finding 6).

**Fairness.**  `FairSpec` assumes weak fairness of `Advance` (the thread that
holds `Mutex` goes on) and of `Recover` (so does the thread that runs the
constructor).  That is what an operating system's scheduler provides, and
neither action waits for anyone.  Nothing is assumed about calls, restarts or
the order in which threads take `Mutex`.  `Settles` says that every
stage ends; it does not say that a restart succeeds, which is false (see the
rename below).

`Moat`'s `FairSpec` assumes weak fairness of every step of a thread in a call.  A
`std::mutex` promises no order among those that wait, and weak fairness gives
none; `DirectCallsReturn` holds because each thread makes a bounded number of calls
(`MaxCalls`), so nobody can be overtaken for ever.

`ShareListing`'s `FairSpec` assumes weak fairness of `Read`: the thread that runs `readdir`
goes on, and a client that keeps a directory open asks for what is left.  `EntriesAreListed`
leaves out clients that close it early, and says nothing about the end of a listing, which does
not come (finding 9).

**Limits of what holds.**  Recovery replays messages in the order of the directory, and
`fuse_main` without `-s` serves callbacks from several threads.  So a completed creation may be replayed after
another thread's completed deletion, and the directory is back (finding 1); and what a message did
rightly when its call was made, it may do again when another thread's calls have made it wrong, such as
giving a directory a second entry of a name.  The properties of run `history` say exactly when:
`disputed` and `overtaken` are the exceptions, and both are empty as long as one thread makes all the calls.
Recovery completes what a crash interrupts only if the message was on disk (runs `recovery`, `lost_record`).

## 4. What is proved

`ShareCoreProofs` proves, for every set of threads, paths, names and times, any
`Calls`, `Kinds`, `Durable` and `Faults`, and any bounds:

| Theorem | States |
|---|---|
| `TypeCorrect` | `Spec => []TypeOK`: the types, and that `Mutex` is held exactly while one transaction runs |
| `Invariant` | `Spec => []IInv`, the inductive invariant |
| `FreshIndexes` | `Spec => []IndexesAreFresh` |
| `OneFilePerChange` | `Spec => []ChangeOfOneFile` |
| `WellFoundedHistory` | `Spec => []HistoryIsWellFounded` |
| `RootRemains` | `Spec => []RootIsThere` |
| `OnlyForward` | `Spec => RowsMoveForward` |
| `Effective` | `Spec => []OKMeansDone` |

The assumptions are the modules' own: the paths are sequences of names, the
root's name is no client's name, `splits` is a name, there is at least one time, the bounds
are numbers.

**The argument.**  None of the properties is inductive.  A replay may apply any
message that some thread left behind at any earlier time, so what a statement
can do depends on what the operation guaranteed when it made the message.
`IInv` therefore adds, for every message in play (`MessagesAreSound`): it
describes one file before and after; a creation is of a fresh, ordinary file;
a deletion or a move is never of the root; an update leads from an older
to a newer change.  `PrimaryKey` (one row per file), `CountersStarted` and
`StageMatches` (only the callbacks that make a change reach `Ancestry`) complete
it.  `RootRowStays` replaces `RootIsThere` by a form that speaks about all
rows: no row but the root's has the root's name, because names given by
clients are never empty.

The step that needs the most is `ApplyRow` (`ApplyRowStep`): an UPDATE makes
a new version of the one row that is still at the change the caller read
(`UpdatedRows`, `Version`), so the row's old and new change are ordered by
`MessagesAreSound`, and the new change belongs to the same file by
`ChangeOfOneFile`.  The other lemmas follow the structure of `Next`:
`OperationStep` for the calls (all by `BeginStep`: a fresh index keeps the
invariant), `ApplyAncestryStep`, `OtherSteps` (all by `QuietStep`: nothing is
added to tables or messages).  `OnlyForward` follows from `ApplyRowForward`,
since no other action changes `Files`: a row goes only by a deletion that read it as it is,
and comes only by its own creation.

`Effective` rests on the guarantee that a live call has and a replay has not:
since its lookup `Mutex` was not released, so the row it found is still at the
change it found.

About `Columns`, also in `ShareCoreProofs`, for the same and `Wide >= 4 * Half`:

| Theorem | States |
|---|---|
| `Exact` | `RoundTrip`: a value is read as it was bound if and only if it fits an `int` |
| `RowsAreFound` | `Spec => []IdentityIsRead`, for counters of any size: a row is matched by what was read from it, and by that alone, if its two indexes fit, and never if they do not |

The first is arithmetic (`UnbindFits`, `FittingIsRead`).  The second needs that binding is
injective (`BindInjective`), and from the invariants of `ShareCore` that what is stored is below the
counters (`IndexesAreFresh`), that these are below `Wide` (`CountersBounded`), and `PrimaryKey`.
The bound of the counters is the width of the column and not an assumption about the program.

About recovery, also in `ShareCoreProofs`, for the same constants:

| Theorem | States |
|---|---|
| `ProgressInvariant` | `Spec => []Progress`: what each stage has done by the time the next one starts |
| `KeptUntilComplete` | `Spec => IncompleteIsKept` |
| `RowsAreRecoverable` | `Completion` of a file, as long as no call abandons it: the inductive invariant of the next three |
| `FilesAreRecovered` | so whenever the share is open its change is recorded and its backing file is there |
| `BackedAfterRecovery` | `Spec /\ NoneAbandoned => []RowsAreBacked` |
| `RecordedAfterRecovery` | `Spec /\ NoneAbandoned => []ChangesAreRecorded` |
| `RefinesTransactor` | `Spec => ImplementsTransactor` |

None of them assumes anything about the constants: messages may be in the buffer or on disk, and callbacks may throw.
What they say is which step does the harm.  A call abandons a file (`Abandons`) when it is left between
its statement and its end in one of two ways: the process ends and the message is still in the buffer, or
the callback throws.  Both leave an open share with an incomplete row: the first after the next start (run
`lost_record`, finding 2), the second until then, or for good if its thread makes another call first
(`IncompleteIsKept`).  Everything else is recovered: crashes with the message on disk, crashes and
exceptions in a recovery, and whatever becomes of the calls on other files, since the condition
is one file's.  That a rename finds its source gone is not among the ways:
a file that nobody abandoned is where its row says when an operation reads it (`SourceStored`).

**The argument.**  `Progress` follows a transaction through its stages: after its
statement no row is in the version that its message replaces (`Outdated`), then the record is
there (`RecordMade`), then the backing file is (`FileMade`), and all the while the thread's
file holds that message or nothing (`OwnRecord`).  So a transaction that reaches `Close` has
made its row whole (`ClosedIsWhole`), and only one that does not can leave an incomplete row
behind, with its message in the file.  `Completion` says where the work on each row is: the
row is whole, or in the hands of the transaction under way, or the process is down or recovering
and the message that made the row is in a file that is still to be replayed (`Elsewhere`).
When recovery is over there are no such files left, so every row is whole.  Replays come in any
order, so a step must not undo what another message has completed: a row that a statement
changes is in hand until its record and its file are made (`ApplyRowCompletes`), and the file
that a rename takes away or a deletion removes belongs to a version that no row is in any
more (`ApplyFileStores`, from `Outdated`).

`RefinesTransactor` maps each stage to what the journal's thread is doing.  Its steps are
`OpenRecordActs`, `CloseReturns`, `ThrowThrows`, `HaltEnds` and `RecoverSteps`; all
others stutter (`QuietJournal`).  `Transactor` asks nothing of its callers: a message may be given
to `Act` again, and a `Delete` is, when it is repeated on a row that a failed one left.
`TransactorHistory` has a message for every call of `Act` instead, so there two such deletions are two.

`TransactorProofs`, for any threads and messages:

| Theorem | States |
|---|---|
| `FailuresAreKept` | `HistorySpec => []FailedIsKept` |
| `NoSecondReplay` | `HistorySpec => []ReplayedOnce`: what a replay returned from is replayed again only if the process ended before the file was removed |
| `RecoveryShrinks` | `HistorySpec => RecoveryAdvances`: a step of a recovery ends it, begins a replay, or removes a message for good |

The invariant is that a message is in one thread's hands or file only, and has been given to
`Act` before, and if a replay has returned from it, its file is about to be removed or the
process ended at that point (`HeldOnce`).

`ShareOpenProofs`, for any names, identities, callers and faults:

| Theorem | States |
|---|---|
| `OpenTypes` | `Spec => []TypeOK` |
| `OpenInvariant` | `Spec => []OpenInv`, the inductive invariant |
| `OpenedWhole` | `Spec => []OpenIsWhole` |
| `KeptIdentity` | `Spec => []IdentityIsKept` |

`OpenInv` says that what is on disk is a first part of `Creation`, with one exception:
the static data, whose write is not checked (`InOrder`, `Made`).  Because of `InOrder`, the
statements that are prepared when a share is read back stand for the tables and rows before
them, and the identity that is stored twice is the same both times (`StoredOnce`).

`ShareCoreHistoryProofs`, for the same constants as `ShareCoreProofs`:

| Theorem | States |
|---|---|
| `KnownAssertions` | `Spec => []OnlyKnownAssertions`, for paths of any depth |
| `HistoryInvariant` | `HistorySpec => []HistoryInv` |
| `NoFileComesBack` | `HistorySpec => []DeletedStaysDeleted` |
| `ReturnedIsHarmless` | `HistorySpec => ReturnedReplayIsNoOp` |
| `RefinesShare` | `HistorySpec => ImplementsShare` |

All of them are for any number of threads.  A deletion is *disputed* if it takes a row
away while the transaction file of another thread still has the message that created it, and a
thread is *overtaken* if another one has changed `Files` since it wrote its file.  `HistoryInv` says that a
removed index is past, and that no message in play brings it back unless its deletion is disputed
(`RemovedIsPast`); that every message is about a file that there is or was (`FilesKnown`, `CreateKnown`);
and that the message of a call that returned is settled, or disputed: its row is there or has moved on, and its
record is made (`ReturnedIsSettled`).  It is inductive because a deletion that is not disputed leaves no
message of its creation behind: the deleting thread's own file has been overwritten by then.

`RefinesShare` needs the invariant `Legality`: the message in play is for a step that
`Share` allows, as long as its statement still finds its row, and so is the message in the file of
every thread that has not been overtaken.  It holds when an operation makes
the message, which is where the checks of `CreateDirectory`, `Delete` and `Move` and the walk along
the path come in, and until the thread is overtaken nothing changes the tables between then and the
statement, not even a crash and a replay.  A single thread is never overtaken (`NobodyOvertaken`), so for one
the exception in `ImplementsShare` falls away: that is the corollary `OneClient`.  That a walk ends in a row that `Share` counts as reachable
(`FoundInReach`) is an induction over the path.  The theorems of the library that state
induction take an operator as a parameter and cannot be used here, so `LeastNatural` (a set of numbers
that is not empty has a least element) takes their place, and `RecursiveFunction` shows
from it that `Reached`, the function that follows a path, is what its recursive definition says.
`KnownAssertions` needs what a walk can return, path by path, and no invariant: the callbacks'
results depend on the tables only through it.

`MoatProofs`, for any threads, any number of calls, with and without bridges and
probes:

| Theorem | States |
|---|---|
| `Exclusive` | `Spec => []LookupsAreExclusive` |
| `OneBridge` | `Spec => []BridgesAreExclusive` |
| `NothingLeaks` | `Spec => []OwnersHold`: the owner of `Mutex` is at a place from which the code unlocks it |
| `NothingRuns` | `Spec => []BridgedCallsStop`: with bridges, no thread ever gets past an operation's guard |

The invariant is that a thread owns `Mutex` exactly when it is at a place where it holds it
(`HoldersOwn`, `OwnersHold`); which places these are depends on `way` (`Holds`).  With
bridges they are the places before the operation's own guard, so that guard is never passed,
and this has to be part of the invariant: a thread that finished an operation would
free the mutex under the bridge.  The lemmas `Releasing`, `Owning` and `Passing` are the three things
a step can do to `Mutex`.

`ShareStatementsProofs`, for any statements and files and any bound of the counter:

| Theorem | States |
|---|---|
| `StatementsTyped` | `Spec => []TypeOK`: the types, and that an index is used outside the transaction it was taken in |
| `StoredUpdates` | `Spec => []UpdatesAreStored` |
| `DeletionsAtRisk` | `Spec => []OnlyDeletionsAreAtRisk` |
| `CountersAreSource` | `Spec => ImplementsIndexSource` |

The three invariants need each other and one more (`TransactionMatches`): between
`BEGIN` and `COMMIT` the connection sees what is stored, but for the counter.  It holds because
`BEGIN` fails on an open transaction; were it passed over, the counter could be read from
one that is lost later.  Every action has a lemma, and the ways in which they fail share one
(`FailsStep`); the step simulation (`SourceStep`) is part of each.

`ShareListingProofs`, for any number of names, any sizes of blocks, and buffers of two entries or more:

| Theorem | States |
|---|---|
| `ListingInvariant` | `Spec => []ListingInv`, the inductive invariant |
| `NoHoles` | `Spec => []SkippedOnlyByRemoval` |
| `NoRepetitions` | `Spec => []RepeatedOnlyByInsertion` |

The invariant is about the place of an entry, which is the number of rows before it (`Rank`).  As long
as nothing before it has gone, an entry that was not seen has its place at or behind the offset that
is read next, and behind the offset of everything in the buffer, which may become the one
that is read next (`UnseenAreAhead`).  As long as nothing before it has come, an entry that was
received is before that (`ReceivedAreBehind`), but for the one the last buffer ended
with.  `RowAt` is the lemma that a `LIMIT` rests on: there is a row in every place.  Changes
of others are one lemma (`ChangeKeeps`): a place moves up only when a row before it goes, and down only
when one comes.

`ProtocolProofs`, for any width of the sizes (`Limit`, above the size of the header), any sizes
of integers and strings, and any number of fields and elements:

| Theorem | States |
|---|---|
| `MessagesInOrder` | `Spec => [](TypeOK /\ ReadInOrder)`: where the reader is in a message |
| `MessagesWhole` | `Spec => []DeliveredWhole` |
| `WholeMessagesDelivered` | `Spec => []WholeIsDelivered` |
| `OverrunByLongString` | `Spec => []OverrunIsLong` |

A field is never measured larger than what is written for it (`MeasuredField`, and for the sums
`MeasuredMessage`), so a message that neither is refused nor leaves its buffer was measured
exactly, and its size fits into 16 bits (`WrittenExactly`).  The reader's offset is the sum over
the fields it has read (`ReadInOrder`).  Such sums only grow (`TotalsGrow`), so the next field is
always there, the offset does not wrap on the way to it (`NextField`), and an
element of a list that nobody checks can be read as well (`ElementsRead`).  The
sums and the loop over a list are recursive functions over the indexes; `FiniteRecursion` shows from
`LeastNatural` that there is a function that steps as they do, and `TotalsSteps` and
`ElementsSteps` that it is the one defined.

**Only model-checked:** `Settles`, `DirectCallsReturn` and `EntriesAreListed`, which are liveness
properties under fairness and out of the prover's reach.  What two of them need besides fairness is
proved: whoever owns `Mutex` is at a place from which it is freed (`NothingLeaks`), and the replays
before a recovery become fewer (`RecoveryShrinks`).  All other properties of the passing runs are
theorems.

## 5. Findings

1. **A completed transaction is replayed** (`transaction.h:50`, run
   `completed_replayed`).  `Act` removes a path below the transaction file instead of the
   file.  `test/transaction.cxx:93` expects a restart to run only what failed, and passes
   because one thread's later call overwrites its earlier file.
2. **The message may not be on disk while its callback runs**
   (`transaction.h:48`, run `lost_record`).  A crash then leaves a row whose change has no
   record, against the assertion in `GetPrecedingChange` (`core.cxx:540-541`).  (Nothing
   calls that function yet, and its first line converts the change to `bool`, which has
   an assertion of its own that no change of this host meets: `core.h:55`.)

Seen while modelling, without a run of their own:

3. **A half-created share opens** (`core.cxx:123`) when only the root row is missing;
   every operation then fails an assertion and no start repairs it.  The same goes for a
   share whose static data could not be written: it opens under any NAME, with an `InstanceID` that
   was never set, or, if a part was written, never again.
4. **Strings of 65534 and 65535 bytes** (`protocol.h:59`) are measured modulo 2^16 and
   written over the end of the buffer.  Nothing else is (theorem `OverrunByLongString`).
5. **A transaction that is left open** (`core.cxx:357-360`) by a failing statement makes
   every operation that takes an index fail until the share is opened again, and what
   `Delete` does in the meantime returns OK and is undone by the restart, unless it is replayed
   from the transaction file.
6. **A call through a bridge never returns** (`moat.h:22`): the bridge and the
   operation lock the same mutex, so no such call gets to look at the tables (theorem
   `NothingRuns`).  `fusemain.cxx` makes all its calls this way.  A `Get`, which first tries to
   lock the mutex in a debug build, fails its assertion instead (`core.cxx:340`), as it does
   next to any operation of another thread.
7. **Assertions on results that do come** (`fusemain.cxx`): the switch of `rmdir` has no
   `OK` and no `Illegal`, which `Delete` returns for `/splits` (`:261`, `core.cxx:435` and `:439`); that of
   `mkdir` has none of the errors of `CreateDirectory`, since it expects `Unknown` where the core says
   `Exists` (`:198`); that of `rename` has no `Illegal`, for paths in `/splits` (`:157`).
   `OnlyKnownAssertions` says exactly for which paths, and that there are no others.
8. **No directory can be opened** (`core.cxx:372`): `OpenDirectory` refuses
   everything that is not a file; `test/core1.cxx:142-143` expects otherwise.
9. **A listing does not end** (`fusemain.cxx:241`) when the directory has two entries or
   more: the filler is given the offset of the entry itself, so the next buffer begins with the
   last entry of the one before, and never is empty.
10. **The root lists itself, and `/splits` the root** (`core.cxx:103`): the root row is its own
   child, and `SplitFile` has its identity and `IsSplit` not set; `test/core1.cxx:131-132` expects
   `/splits` to be empty.
11. **`chmod` of `/splits` changes the root** (`core.cxx:134`), as long as the root row is at
   its first change: the two have the same `NodeID`s.
12. **NAME is needed to mount a share again** (`fusemain.cxx:66`), although the usage
   calls it optional: `argv[3]` is read when `argc` is 3.
13. **The second half of a file's rename**, when it is replayed after it completed, throws
   because its source is gone, so the share never opens again (`core.cxx:278`; needs
   files, which this commit cannot create).

## 6. Plan

Written, in this order: `ShareDatabase`, `ShareNamespace`, `ShareCore`,
`Transactor` and its refinement, `ShareCoreProofs`, `FuseCallbacks`, `Moat`,
`ShareOpen`, `Protocol`, `Columns`, the proofs about `Moat` and `Columns`, `ShareListing`,
`ShareStatements` with `IndexSource` and their proofs, `Share` and its refinement, the proofs
about `Transactor`, `ShareOpen`, recovery, the refinements, `ShareListing` and `Protocol`.

What is left depends on the program: files, contents and split files get modules when
`CreateFile` and what follows it are written (section 7), and a second process when the
share has a lock for it.

## 7. Not modelled

- The contents of files and `GetRealPath`: nothing at this commit writes contents.
- The contents of `Stats` and `Instances`: `ShareOpen` only says that they are
  there and which identity was stored.
- Two processes that mount one share: each would have a `Mutex` of its own.
- Records that cannot be written, after the callback has returned (section 2).
- Lookup statements that fail and are not reset, which change no table, and failing
  statements in a replay, which end the process and its connection (`ShareCore`'s `Throw`).
- `getattr`, `access` and `statfs`, which only read.
- How the compiler builds a reader's table of message types, and vectors of vectors
  in messages: no message of the program or its tests has one.
- Split files: the lookups below `/splits` return `Missing` before anything else
  (`core.cxx:508`), and no row has `IsSplit` set.
- The rest of the SQLite wrapper (`database.h`) and of the dispatch: template glue.
- Logs, exceptions' texts, strong typedefs, build files.
