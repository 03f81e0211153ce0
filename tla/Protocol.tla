------------------------------ MODULE Protocol ------------------------------
(***************************************************************************)
(* Messages on disk (app/protocol.h): Message::Write measures the fields,  *)
(* allocates a buffer of that size and writes header and fields into it;   *)
(* Reader::Read reads them back from a stream that may have been cut.      *)
(* What is left of a field is its size in bytes.  Sizes are stored in 16   *)
(* bits, and so is the offset with which the fields are read.              *)
(*                                                                         *)
(* An assertion that fails in the reader (assert(false) next to each       *)
(* "return false") is the status "rejected".  The result for an element of a *)
(* list is not looked at: one that cannot be read stays an empty string.   *)
(***************************************************************************)
EXTENDS Naturals, SequencesExt

CONSTANTS Limit,        \* the number of values of SizeType and ArraySizeType
          IntSizes,     \* sizeof the integers and records in use
          StringSizes,  \* sizes of the strings in use
          MaxElements,  \* bound on the elements of a vector
          MaxFields,    \* bound on the fields of a message
          Types,        \* version and message ID of the messages
          Known         \* those in the reader's table

HeaderSize == 4
ArraySize == 2    \* ArraySizeType::Size

ASSUME LimitAssumption == Limit \in Nat /\ Limit > HeaderSize
ASSUME SizesAssumption == IntSizes \cup StringSizes \subseteq Nat
ASSUME MaxAssumption == MaxElements \in Nat /\ MaxFields \in Nat
ASSUME TypesAssumption == Known \subseteq Types

\* A vector is an array when its elements are numbers, a list when they are strings.
Field ==
  [kind: {"int"}, size: IntSizes] \cup [kind: {"string"}, size: StringSizes]
  \cup [kind: {"array"}, size: {n * int : n \in 0 .. MaxElements, int \in IntSizes}]
  \cup [kind: {"list"}, sizes: BoundedSeq(StringSizes, MaxElements)]

\* What the loops over elements and arguments add up: the sum of the first n.
Totals(f) ==
  LET total[n \in 0 .. Len(f)] == IF n = 0 THEN 0 ELSE total[n - 1] + f[n] IN total

\* Mutant: the bytes before a string are not counted.
GetStringSizeAlone(n) == n % Limit

\* ProtocolGetSize of a string, which is cast to SizeType.
GetStringSize(n) == (ArraySize + n) % Limit

\* ProtocolGetSize; all but strings are added up as size_t.
GetSize(field) ==
  CASE field.kind = "int"    -> field.size
    [] field.kind = "string" -> GetStringSize(field.size)
    [] field.kind = "array"  -> ArraySize + field.size
    [] field.kind = "list"   ->
         ArraySize + Totals([i \in DOMAIN field.sizes |-> GetStringSize(field.sizes[i])])
                       [Len(field.sizes)]

\* How far ProtocolWrite moves the pointer, in a list for each element.
ElementBytes(list) == [i \in DOMAIN list |-> ArraySize + list[i]]

BytesOf(field) ==
  CASE field.kind = "int"               -> field.size
    [] field.kind \in {"string", "array"} -> ArraySize + field.size
    [] field.kind = "list"              ->
         ArraySize + Totals(ElementBytes(field.sizes))[Len(field.sizes)]

\* Message::Size, and how far Message::Write gets.
Measured(message) == Totals([i \in DOMAIN message |-> GetSize(message[i])])[Len(message)]

Occupied(message) == Totals([i \in DOMAIN message |-> BytesOf(message[i])])[Len(message)]

VARIABLES type,     \* of the message
          fields,   \* the arguments of the message
          status,   \* of the message
          size,     \* the size in its header
          onDisk,   \* its bytes on disk
          offset,   \* of the reader in the body
          read      \* the fields it has read

vars == <<type, fields, status, size, onDisk, offset, read>>

Init ==
  /\ type \in Types
  /\ fields = <<>>
  /\ status = "composed"
  /\ size = 0 /\ onDisk = 0 /\ offset = 0
  /\ read = <<>>

AddField ==
  /\ status = "composed"
  /\ Len(fields) < MaxFields
  /\ \E field \in Field : fields' = Append(fields, field)
  /\ UNCHANGED <<type, status, size, onDisk, offset, read>>

\* Mutant: the comparison lets 2^16 through.
TooLargeByOne(required) == required > Limit

\* RequiredSize > std::numeric_limits<SizeType::Type>::max()
TooLarge(required) == required > Limit - 1

\* Message::Write, and the stream to the file.  A message that is too large is
\* refused, with an empty buffer; one whose fields need more than was measured is
\* written over the end of the buffer.
Write ==
  /\ status = "composed"
  /\ LET required == Measured(fields) IN
       IF TooLarge(required) THEN status' = "refused" /\ UNCHANGED <<size, onDisk>>
       ELSE /\ status' = IF Occupied(fields) > required THEN "overrun" ELSE "written"
            /\ size' = required % Limit
            /\ onDisk' = HeaderSize + required
  /\ UNCHANGED <<type, fields, offset, read>>

\* The machine stops before all of the file is on disk.
Cut ==
  /\ status = "written"
  /\ \E bytes \in 0 .. onDisk : onDisk' = bytes
  /\ UNCHANGED <<type, fields, status, size, offset, read>>

\* ReaderTupleElement::Read goes through the reader's table, to its end for a
\* message of another version of the program.
IsKnown == type \in Known

\* Mutant: nobody looks whether the body could be read.
OpenUnchecked ==
  /\ status = "written"
  /\ status' = IF onDisk < HeaderSize THEN "ignored"
               ELSE IF ~IsKnown THEN "rejected"
               ELSE "reading"
  /\ UNCHANGED <<type, fields, size, onDisk, offset, read>>

\* Reader::Read with the dispatch by version and message ID: without a whole
\* header there is no message, and Read returns true.
Open ==
  /\ status = "written"
  /\ status' = IF onDisk < HeaderSize THEN "ignored"
               ELSE IF onDisk < HeaderSize + size \/ ~IsKnown THEN "rejected"
               ELSE "reading"
  /\ UNCHANGED <<type, fields, size, onDisk, offset, read>>

\* Are there n bytes from the offset on?
Available(from, n) == from + n <= size

\* ProtocolRead of what has its size before it, from an offset on.
SizedAvailable(from, n) ==
  Available(from, ArraySize) /\ Available((from + ArraySize) % Limit, n)

PastSized(from, n) == (from + ArraySize + n) % Limit

\* The next field, an integer, a string or an array.  The fields' types are those
\* of the message that was written.
ReadField ==
  /\ status = "reading"
  /\ Len(read) < Len(fields)
  /\ LET field == fields[Len(read) + 1]
         isInt == field.kind = "int"
     IN  /\ field.kind # "list"
         /\ IF IF isInt THEN Available(offset, field.size) ELSE SizedAvailable(offset, field.size)
            THEN /\ offset' = IF isInt THEN (offset + field.size) % Limit
                              ELSE PastSized(offset, field.size)
                 /\ read' = Append(read, field)
                 /\ UNCHANGED status
            ELSE status' = "rejected" /\ UNCHANGED <<offset, read>>
  /\ UNCHANGED <<type, fields, size, onDisk>>

\* The next element of a list.  When only its size can be read, the offset has
\* moved past that.
ReadElement(list, n) ==
  IF SizedAvailable(list.offset, n)
  THEN [offset |-> PastSized(list.offset, n), sizes |-> Append(list.sizes, n)]
  ELSE [offset |-> IF Available(list.offset, ArraySize) THEN PastSized(list.offset, 0)
                   ELSE list.offset,
        sizes  |-> Append(list.sizes, 0)]

\* The loop of ProtocolRead over a list's elements, after the first n.
Elements(from, sizes) ==
  LET list[n \in 0 .. Len(sizes)] ==
        IF n = 0 THEN [offset |-> from, sizes |-> <<>>]
        ELSE ReadElement(list[n - 1], sizes[n])
  IN  list

\* The next field, a list.  Its length is compared with the bytes that are left.
ReadList ==
  /\ status = "reading"
  /\ Len(read) < Len(fields)
  /\ LET field == fields[Len(read) + 1] IN
       /\ field.kind = "list"
       /\ IF SizedAvailable(offset, Len(field.sizes))
          THEN LET list == Elements(PastSized(offset, 0), field.sizes)[Len(field.sizes)]
               IN  /\ offset' = list.offset
                   /\ read' = Append(read, [field EXCEPT !.sizes = list.sizes])
                   /\ UNCHANGED status
          ELSE status' = "rejected" /\ UNCHANGED <<offset, read>>
  /\ UNCHANGED <<type, fields, size, onDisk>>

\* The message's callback.
Deliver ==
  /\ status = "reading"
  /\ Len(read) = Len(fields)
  /\ status' = "delivered"
  /\ UNCHANGED <<type, fields, size, onDisk, offset, read>>

\* The next message.
NextMessage ==
  /\ status \in {"refused", "overrun", "ignored", "rejected", "delivered"}
  /\ type' \in Types
  /\ fields' = <<>> /\ read' = <<>>
  /\ status' = "composed"
  /\ size' = 0 /\ onDisk' = 0 /\ offset' = 0

Next ==
  \/ AddField \/ Write \/ Cut \/ Open \/ ReadField \/ ReadList \/ Deliver
  \/ NextMessage

Spec == Init /\ [][Next]_vars

-----------------------------------------------------------------------------
\* A message that is delivered is the one that was written, all of it, up to the
\* largest sizes; cut anywhere, it is not delivered.
DeliveredWhole ==
  status = "delivered" => /\ read = fields
                          /\ offset = size
                          /\ onDisk = HeaderSize + Occupied(fields)

\* A message that was written is only rejected when it was cut, or when the reader
\* does not have it in its table.
WholeIsDelivered ==
  status = "rejected" => ~IsKnown \/ onDisk < HeaderSize + Occupied(fields)

\* A string whose size, with the bytes before it, does not fit into SizeType.
IsLong(n) == ArraySize + n >= Limit

HasLong(field) ==
  \/ field.kind = "string" /\ IsLong(field.size)
  \/ field.kind = "list" /\ \E i \in 1 .. Len(field.sizes) : IsLong(field.sizes[i])

\* Message::Write writes over the end of its buffer for such strings only; the
\* assertion in ProtocolGetSize lets two of their sizes through.
OverrunIsLong ==
  status = "overrun" => \E i \in 1 .. Len(fields) : HasLong(fields[i])

=============================================================================
