------------------------ MODULE ShareStatementsProofs -----------------------
(***************************************************************************)
(* Theorems about ShareStatements, for any statements, files and bound.    *)
(***************************************************************************)
EXTENDS ShareStatements, TLAPS

\* What the four statements around a counter have done so far.
TransactionMatches ==
  /\ pc \in {"get", "increment"} => view = stored
  /\ pc \in {"increment", "commit"} => index = stored.counter
  /\ pc = "commit" => view = [stored EXCEPT !.counter = @ + 1]

IInv == TypeOK /\ UpdatesAreStored /\ OnlyDeletionsAreAtRisk /\ TransactionMatches

\* A step for the abstract specification.
SourceStep == Source!Take \/ Source!Lose \/ UNCHANGED <<stored.counter, given>>

-----------------------------------------------------------------------------
LEMMA NothingBound == [s \in Statements |-> Unbound] \in [Statements -> Nat \cup Files]
PROOF BY DEF Unbound

\* A failing statement keeps what is stored; the operation is over.
LEMMA FailsStep ==
  ASSUME IInv, Fails, Throw, bound' \in [Statements -> Nat \cup Files],
         unreset' \subseteq Statements
  PROVE  IInv' /\ UNCHANGED <<stored.counter, given>>
PROOF
<1>1. stored' = stored /\ (view' = view \/ view' = stored) /\ opened' \in BOOLEAN
  BY DEF Fails, IInv, TypeOK
<1>2. (~opened' => view' = stored') /\ view'.rows = stored'.rows
  BY DEF Fails, IInv, OnlyDeletionsAreAtRisk
<1>3. TypeOK' BY <1>1 DEF IInv, TypeOK, Throw
<1>4. (UpdatesAreStored /\ OnlyDeletionsAreAtRisk)'
  BY <1>1, <1>2 DEF IInv, UpdatesAreStored, OnlyDeletionsAreAtRisk, Throw
<1>5. TransactionMatches' BY DEF TransactionMatches, Throw
<1> QED BY <1>1, <1>3, <1>4, <1>5 DEF IInv, Throw

LEMMA BeginStep == ASSUME IInv, Begin PROVE IInv' /\ SourceStep
PROOF
<1>1. CASE Fails /\ Throw
  <2>1. bound' \in [Statements -> Nat \cup Files] /\ unreset' \subseteq Statements
    BY DEF Begin, IInv, TypeOK
  <2> QED BY <1>1, <2>1, FailsStep DEF SourceStep
<1>2. CASE ~opened /\ opened' = TRUE /\ pc' = "get" /\ UNCHANGED <<stored, view, index, given, returned>>
  <2>1. view = stored BY <1>2 DEF IInv, OnlyDeletionsAreAtRisk
  <2>2. TypeOK' BY <1>2 DEF Begin, IInv, TypeOK
  <2>3. (UpdatesAreStored /\ OnlyDeletionsAreAtRisk /\ TransactionMatches)'
    BY <1>2, <2>1 DEF IInv, UpdatesAreStored, OnlyDeletionsAreAtRisk, TransactionMatches
  <2> QED BY <1>2, <2>2, <2>3 DEF IInv, SourceStep
<1> QED BY <1>1, <1>2 DEF Begin

LEMMA GetStep == ASSUME IInv, GetIndex PROVE IInv' /\ SourceStep
PROOF
<1>1. CASE Fails /\ Throw
  <2>1. bound' \in [Statements -> Nat \cup Files] /\ unreset' \subseteq Statements
    BY DEF GetIndex, IInv, TypeOK
  <2> QED BY <1>1, <2>1, FailsStep DEF SourceStep
<1>2. CASE index' = view.counter /\ pc' = "increment"
           /\ UNCHANGED <<stored, view, opened, given, returned>>
  <2>1. view = stored /\ opened BY DEF GetIndex, IInv, TypeOK, TransactionMatches
  <2>2. TypeOK' BY <1>2, <2>1 DEF GetIndex, IInv, TypeOK, Database
  <2>3. (UpdatesAreStored /\ OnlyDeletionsAreAtRisk /\ TransactionMatches)'
    BY <1>2, <2>1 DEF IInv, UpdatesAreStored, OnlyDeletionsAreAtRisk, TransactionMatches
  <2> QED BY <1>2, <2>2, <2>3 DEF IInv, SourceStep
<1> QED BY <1>1, <1>2 DEF GetIndex

LEMMA IncrementStep == ASSUME IInv, IncrementIndex PROVE IInv' /\ SourceStep
PROOF
<1>1. CASE Fails /\ Throw
  <2>1. bound' \in [Statements -> Nat \cup Files] /\ unreset' \subseteq Statements
    BY DEF IncrementIndex, IInv, TypeOK
  <2> QED BY <1>1, <2>1, FailsStep DEF SourceStep
<1>2. CASE Succeeds([view EXCEPT !.counter = @ + 1]) /\ pc' = "commit"
           /\ UNCHANGED <<opened, index, given, returned>>
  <2>1. view = stored /\ opened /\ index = stored.counter
    BY DEF IncrementIndex, IInv, TypeOK, TransactionMatches
  <2>2. stored' = stored /\ view' = [stored EXCEPT !.counter = @ + 1]
    BY <1>2, <2>1 DEF Succeeds
  <2>3. TypeOK' BY <1>2, <2>1, <2>2 DEF IncrementIndex, IInv, TypeOK, Database
  <2>4. view'.rows = stored'.rows BY <2>2 DEF IInv, TypeOK, Database
  <2>5. (UpdatesAreStored /\ OnlyDeletionsAreAtRisk /\ TransactionMatches)'
    BY <1>2, <2>1, <2>2, <2>4
    DEF IInv, UpdatesAreStored, OnlyDeletionsAreAtRisk, TransactionMatches
  <2> QED BY <1>2, <2>2, <2>3, <2>5 DEF IInv, SourceStep
<1> QED BY <1>1, <1>2 DEF IncrementIndex

LEMMA EndStep == ASSUME IInv, End PROVE IInv' /\ SourceStep
PROOF
<1>1. CASE Fails /\ Throw
  <2>1. bound' \in [Statements -> Nat \cup Files] /\ unreset' \subseteq Statements
    BY DEF End, IInv, TypeOK
  <2> QED BY <1>1, <2>1, FailsStep DEF SourceStep
<1>2. CASE stored' = view /\ opened' = FALSE /\ given' = given \cup {index} /\ pc' = "row"
           /\ UNCHANGED <<view, index, returned>>
  <2>1. index = stored.counter /\ view = [stored EXCEPT !.counter = @ + 1]
    BY DEF End, IInv, TransactionMatches
  <2>2. stored'.counter = stored.counter + 1 /\ stored'.rows = stored.rows
        /\ stored.counter \in Nat
    BY <1>2, <2>1 DEF IInv, TypeOK, Database
  <2>3. TypeOK' BY <1>2, <2>1 DEF End, IInv, TypeOK, Database
  <2>4. \A i \in given' : i < stored'.counter
    BY <1>2, <2>1, <2>2 DEF IInv, TypeOK, OnlyDeletionsAreAtRisk
  <2>5. (UpdatesAreStored /\ OnlyDeletionsAreAtRisk /\ TransactionMatches)'
    BY <1>2, <2>2, <2>4 DEF IInv, UpdatesAreStored, OnlyDeletionsAreAtRisk, TransactionMatches
  <2> QED BY <1>2, <2>1, <2>2, <2>3, <2>5 DEF IInv, SourceStep, Source!Take
<1> QED BY <1>1, <1>2 DEF End

-----------------------------------------------------------------------------
\* What was bound is what runs.
LEMMA Bindings ==
  ASSUME TypeOK, NEW s \in Statements, NEW argument \in Nat \cup Files,
         CanBind(s), Bind(s, argument)
  PROVE  bound' \in [Statements -> Nat \cup Files] /\ bound'[s] = argument
PROOF BY DEF TypeOK, CanBind, Bind

LEMMA ExecuteFailsStep ==
  ASSUME IInv, NEW s \in Statements, NEW argument \in Nat \cup Files, ExecuteFails(s, argument)
  PROVE  IInv' /\ SourceStep
PROOF
<1>1. Throw /\ unreset' \subseteq Statements BY DEF ExecuteFails, IInv, TypeOK
<1>2. CASE ~CanBind(s) /\ UNCHANGED <<stored, view, opened, bound>>
  <2>1. Fails /\ bound' \in [Statements -> Nat \cup Files] BY <1>2 DEF Fails, IInv, TypeOK
  <2> QED BY <1>1, <2>1, FailsStep DEF SourceStep
<1>3. CASE CanBind(s) /\ Bind(s, argument) /\ Fails
  <2>1. bound' \in [Statements -> Nat \cup Files] BY <1>3, Bindings DEF IInv
  <2> QED BY <1>1, <1>3, <2>1, FailsStep DEF SourceStep
<1> QED BY <1>2, <1>3 DEF ExecuteFails

LEMMA StoreRowStep == ASSUME IInv, NEW s \in Updates, StoreRow(s) PROVE IInv' /\ SourceStep
PROOF
<1>1. s \in Statements /\ index \in Nat \cup Files BY DEF Statements, IInv, TypeOK
<1>2. CASE ExecuteFails(s, index) BY <1>1, <1>2, ExecuteFailsStep
<1>3. CASE ~ExecuteFails(s, index)
  <2>1. /\ CanBind(s) /\ Bind(s, index)
        /\ Succeeds([view EXCEPT !.rows = @ \cup {bound'[s]}])
        /\ unreset' = unreset \ {s}
        /\ returned' = returned \cup {index}
        /\ pc' = "idle"
        /\ UNCHANGED <<opened, index, given>>
    BY <1>3 DEF StoreRow
  <2>2. bound' \in [Statements -> Nat \cup Files] /\ bound'[s] = index
    BY <1>1, <2>1, Bindings DEF IInv
  <2>3. ~opened /\ view = stored BY DEF StoreRow, IInv, TypeOK, OnlyDeletionsAreAtRisk
  <2>4. view' = [stored EXCEPT !.rows = @ \cup {index}] /\ stored' = view'
    BY <2>1, <2>2, <2>3 DEF Succeeds
  <2>5. stored'.rows = stored.rows \cup {index} /\ stored'.counter = stored.counter
    BY <2>4 DEF IInv, TypeOK, Database
  <2>6. TypeOK' BY <2>1, <2>2, <2>4 DEF IInv, TypeOK, Database
  <2>7. (UpdatesAreStored /\ OnlyDeletionsAreAtRisk /\ TransactionMatches)'
    BY <2>1, <2>4, <2>5 DEF IInv, UpdatesAreStored, OnlyDeletionsAreAtRisk, TransactionMatches
  <2> QED BY <2>1, <2>5, <2>6, <2>7 DEF IInv, SourceStep
<1> QED BY <1>2, <1>3

LEMMA DeleteStep == ASSUME IInv, NEW file \in Files, Delete(file) PROVE IInv' /\ SourceStep
PROOF
<1>1. DeleteFile \in Statements BY DEF Statements
<1>2. CASE ExecuteFails(DeleteFile, file) BY <1>1, <1>2, ExecuteFailsStep
<1>3. CASE ~ExecuteFails(DeleteFile, file)
  <2>1. /\ CanBind(DeleteFile) /\ Bind(DeleteFile, file)
        /\ Succeeds([view EXCEPT !.deleted = @ \cup {bound'[DeleteFile]}])
        /\ unreset' = unreset \ {DeleteFile}
        /\ pc = "idle"
        /\ UNCHANGED <<opened, pc, index, given, returned>>
    BY <1>3 DEF Delete
  <2>2. bound' \in [Statements -> Nat \cup Files] /\ bound'[DeleteFile] = file
    BY <1>1, <2>1, Bindings DEF IInv
  <2>3. view' = [view EXCEPT !.deleted = @ \cup {file}]
        /\ stored' = (IF opened THEN stored ELSE view')
    BY <2>1, <2>2 DEF Succeeds
  <2>4. view'.rows = view.rows /\ view'.counter = view.counter /\ view' \in Database
    BY <2>3 DEF IInv, TypeOK, Database
  <2>5. stored'.rows = stored.rows /\ stored'.counter = stored.counter /\ stored' \in Database
    BY <2>3, <2>4 DEF IInv, TypeOK, OnlyDeletionsAreAtRisk
  <2>6. TypeOK' BY <2>1, <2>2, <2>4, <2>5 DEF IInv, TypeOK
  <2>7. (UpdatesAreStored /\ OnlyDeletionsAreAtRisk /\ TransactionMatches)'
    BY <2>1, <2>3, <2>4, <2>5
    DEF IInv, UpdatesAreStored, OnlyDeletionsAreAtRisk, TransactionMatches
  <2> QED BY <2>1, <2>5, <2>6, <2>7 DEF IInv, SourceStep
<1> QED BY <1>2, <1>3

LEMMA HaltStep == ASSUME IInv, Halt PROVE IInv' /\ SourceStep
PROOF
<1>1. stored' = stored \/ (pc = "commit" /\ stored' = view)
  BY DEF Halt
<1>2. stored' \in Database /\ stored'.rows = stored.rows
      /\ (stored'.counter = stored.counter \/ stored'.counter = stored.counter + 1)
  BY <1>1 DEF IInv, TypeOK, TransactionMatches, Database
<1>3. TypeOK'
  <2>1. view' \in Database /\ bound' \in [Statements -> Nat \cup Files] /\ unreset' \subseteq Statements
    BY <1>2, NothingBound DEF Halt
  <2> QED BY <1>2, <2>1 DEF Halt, IInv, TypeOK
<1>4. \A i \in given : i < stored'.counter
  BY <1>2 DEF IInv, TypeOK, Database, OnlyDeletionsAreAtRisk
<1>5. (UpdatesAreStored /\ OnlyDeletionsAreAtRisk /\ TransactionMatches)'
  BY <1>2, <1>4 DEF Halt, IInv, UpdatesAreStored, OnlyDeletionsAreAtRisk, TransactionMatches
<1> QED BY <1>2, <1>3, <1>5 DEF IInv, Halt, SourceStep, Source!Lose

LEMMA StartStep == ASSUME IInv, Start PROVE IInv' /\ SourceStep
PROOF
<1>1. TypeOK' BY DEF Start, IInv, TypeOK
<1>2. (UpdatesAreStored /\ OnlyDeletionsAreAtRisk /\ TransactionMatches)'
  BY DEF Start, IInv, UpdatesAreStored, OnlyDeletionsAreAtRisk, TransactionMatches
<1> QED BY <1>1, <1>2 DEF IInv, Start, SourceStep

-----------------------------------------------------------------------------
LEMMA InitHolds == Init => IInv /\ Source!Init
PROOF
<1> SUFFICES ASSUME Init PROVE IInv /\ Source!Init OBVIOUS
<1>1. Empty \in Database /\ Empty.counter = 1 /\ Empty.rows = {} BY DEF Empty, Database
<1>2. TypeOK BY <1>1, NothingBound DEF Init, TypeOK
<1>3. UpdatesAreStored /\ OnlyDeletionsAreAtRisk /\ TransactionMatches
  BY DEF Init, UpdatesAreStored, OnlyDeletionsAreAtRisk, TransactionMatches
<1> QED BY <1>1, <1>2, <1>3 DEF IInv, Init, Source!Init

LEMMA NextHolds == IInv /\ [Next]_vars => IInv' /\ SourceStep
PROOF
<1> SUFFICES ASSUME IInv, [Next]_vars PROVE IInv' /\ SourceStep OBVIOUS
<1>1. CASE UNCHANGED vars
  BY <1>1 DEF vars, IInv, TypeOK, UpdatesAreStored, OnlyDeletionsAreAtRisk,
              TransactionMatches, SourceStep
<1>2. CASE Begin BY <1>2, BeginStep
<1>3. CASE GetIndex BY <1>3, GetStep
<1>4. CASE IncrementIndex BY <1>4, IncrementStep
<1>5. CASE End BY <1>5, EndStep
<1>6. CASE \E s \in Updates : StoreRow(s) BY <1>6, StoreRowStep
<1>7. CASE \E file \in Files : Delete(file) BY <1>7, DeleteStep
<1>8. CASE Halt BY <1>8, HaltStep
<1>9. CASE Start BY <1>9, StartStep
<1> QED BY <1>1, <1>2, <1>3, <1>4, <1>5, <1>6, <1>7, <1>8, <1>9 DEF Next

\* The inductive invariant: the three invariants of ShareStatements, and how far
\* the statements around a counter have come.
THEOREM StatementsInvariant == Spec => []IInv
PROOF BY InitHolds, NextHolds, PTL DEF Spec

\* Types, and that an index is used outside the transaction it was taken in.
THEOREM StatementsTyped == Spec => []TypeOK
PROOF BY StatementsInvariant, PTL DEF IInv

\* Whichever statements fail, an operation that took an index and returned OK
\* has its row on disk.
THEOREM StoredUpdates == Spec => []UpdatesAreStored
PROOF BY StatementsInvariant, PTL DEF IInv

\* Whichever statements fail, a transaction left open can only lose deletions.
THEOREM DeletionsAtRisk == Spec => []OnlyDeletionsAreAtRisk
PROOF BY StatementsInvariant, PTL DEF IInv

\* The statements around a counter implement a source of indexes for one use.
THEOREM CountersAreSource == Spec => ImplementsIndexSource
PROOF
<1>1. IInv /\ [Next]_vars => [Source!Take \/ Source!Lose]_<<stored.counter, given>>
  BY NextHolds DEF SourceStep
<1> QED BY <1>1, InitHolds, StatementsInvariant, PTL DEF Spec, ImplementsIndexSource, Source!Spec

=============================================================================
