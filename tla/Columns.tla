------------------------------- MODULE Columns -------------------------------
(***************************************************************************)
(* The Index of a NodeID on its way through a column (app/core.h): it is   *)
(* bound as a signed integer of 64 bits and read back with                 *)
(* sqlite3_column_int, which keeps the low 32.  ShareCore takes a row's    *)
(* identity as it was stored; this module says for which rows that is      *)
(* right.  It looks at the tables only: they get their large indexes from  *)
(* calls that read small ones, such as a new directory in the root.        *)
(***************************************************************************)
EXTENDS ShareCore

CONSTANTS Half,   \* 2^31: half the values of an int
          Wide    \* 2^64: the values of a UUID

ASSUME HalfAssumption == Half \in Nat \ {0}
ASSUME WideAssumption == Wide \in Nat /\ Wide >= 4 * Half
\* The counters are read with all their 64 bits (database.h:239).
ASSUME CountersAssumption == MaxFile < Wide /\ MaxChange < Wide

\* Two's complement, with n values.
Signed(v, n) == IF v < n \div 2 THEN v ELSE v - n

\* *reinterpret_cast<int64_t const *>(&Value.Index.Value)
Bind(index) == Signed(index, Wide)

\* sqlite3_column_int
ColumnInt(stored) == Signed(stored % (2 * Half), 2 * Half)

\* Mutant: Index is read from the column of Instance, which is 0 in every row.
UnbindInstance(stored) == 0

\* static_cast<UUID::Type> of an int
Unbind(stored) == ColumnInt(stored) % Wide

\* WHERE "IDIndex" = ? AND "ChangeIndex" = ?
Matching(id, change) ==
  {r \in Files : Bind(r.id) = Bind(id) /\ Bind(r.change) = Bind(change)}

-----------------------------------------------------------------------------
\* An int has this value, as a UUID.
Fits(index) == index < Half \/ index >= Wide - Half

\* The file and the change that a lookup reads (core.cxx:109-116) are those of the
\* row it found, so that a statement with them matches this row and no other, as
\* long as both fit an int.  From 2^31 on (core.h:166) they never are: the
\* statement misses the row, and may hit the one whose index has the same low bits.
IdentityIsRead ==
  \A r \in Files :
    LET matched == Matching(Unbind(Bind(r.id)), Unbind(Bind(r.change)))
    IN  IF Fits(r.id) /\ Fits(r.change) THEN matched = {r} ELSE r \notin matched

\* The indexes that come back as they were are those that fit.
RoundTrip == \A index \in 0 .. Wide - 1 : Unbind(Bind(index)) = index <=> Fits(index)

=============================================================================
