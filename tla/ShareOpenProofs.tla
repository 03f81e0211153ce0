--------------------------- MODULE ShareOpenProofs ---------------------------
(***************************************************************************)
(* Proofs about the creation and reopening of a share, for any names,      *)
(* identities, callers and faults.                                         *)
(***************************************************************************)
EXTENDS ShareOpen, TLAPS

\* Which piece is made when.
LEMMA CreationOrder ==
  /\ Len(Creation) = 19 /\ DOMAIN Creation = 1 .. 19
  /\ Creation[1] = "root" /\ Creation[2] = "log" /\ Creation[3] = "app"
  /\ Creation[4] = "files" /\ Creation[5] = "transactions" /\ Creation[6] = "static"
  /\ Creation[7] = "static data" /\ Creation[8] = "readme" /\ Creation[9] = "Stats"
  /\ Creation[10] = "version" /\ Creation[11] = "Instances"
  /\ Creation[12] = "FilenameIndex" /\ Creation[13] = "instance"
  /\ Creation[14] = "Counters" /\ Creation[15] = "counters" /\ Creation[16] = "Files"
  /\ Creation[17] = "ParentIndex" /\ Creation[18] = "Ancestry"
  /\ Creation[19] = "root row"
BY DEF Creation

\* A piece is made once, and the remains of the static data are no piece.
LEMMA MadeOnce ==
  ASSUME NEW i \in 1 .. 19
  PROVE  /\ Creation[i] # Torn
         /\ Creation[i] = "root" => i = 1
         /\ Creation[i] = "log" => i = 2
         /\ Creation[i] = "app" => i = 3
         /\ Creation[i] = "files" => i = 4
         /\ Creation[i] = "transactions" => i = 5
         /\ Creation[i] = "static" => i = 6
         /\ Creation[i] = "static data" => i = 7
         /\ Creation[i] = "readme" => i = 8
         /\ Creation[i] = "Stats" => i = 9
         /\ Creation[i] = "version" => i = 10
         /\ Creation[i] = "Instances" => i = 11
         /\ Creation[i] = "FilenameIndex" => i = 12
         /\ Creation[i] = "instance" => i = 13
         /\ Creation[i] = "Counters" => i = 14
         /\ Creation[i] = "counters" => i = 15
         /\ Creation[i] = "Files" => i = 16
         /\ Creation[i] = "ParentIndex" => i = 17
         /\ Creation[i] = "Ancestry" => i = 18
         /\ Creation[i] = "root row" => i = 19
<1>1. \/ i = 1 \/ i = 2 \/ i = 3 \/ i = 4 \/ i = 5 \/ i = 6 \/ i = 7 \/ i = 8 \/ i = 9 \/ i = 10
      \/ i = 11 \/ i = 12 \/ i = 13 \/ i = 14 \/ i = 15 \/ i = 16 \/ i = 17 \/ i = 18 \/ i = 19
  OBVIOUS
<1> QED
  BY <1>1, CreationOrder, ZenonT(60) DEF Torn

\* The same without the names.
LEMMA Positions ==
  /\ Len(Creation) = 19
  /\ \A i, j \in 1 .. 19 : Creation[i] = Creation[j] => i = j
  /\ \A i \in 1 .. 19 : Creation[i] \in Pieces
  /\ \A p \in Pieces : \E i \in 1 .. 19 : p = Creation[i]
  /\ Torn \notin Pieces
<1>1. ASSUME NEW i \in 1 .. 19, NEW j \in 1 .. 19, Creation[i] = Creation[j] PROVE i = j
  <2>1. \/ i = 1 \/ i = 2 \/ i = 3 \/ i = 4 \/ i = 5 \/ i = 6 \/ i = 7 \/ i = 8 \/ i = 9 \/ i = 10
        \/ i = 11 \/ i = 12 \/ i = 13 \/ i = 14 \/ i = 15 \/ i = 16 \/ i = 17 \/ i = 18 \/ i = 19
    OBVIOUS
  <2>2. CASE i = 1
    BY <1>1, <2>2, CreationOrder, MadeOnce, ZenonT(60)
  <2>3. CASE i = 2
    BY <1>1, <2>3, CreationOrder, MadeOnce, ZenonT(60)
  <2>4. CASE i = 3
    BY <1>1, <2>4, CreationOrder, MadeOnce, ZenonT(60)
  <2>5. CASE i = 4
    BY <1>1, <2>5, CreationOrder, MadeOnce, ZenonT(60)
  <2>6. CASE i = 5
    BY <1>1, <2>6, CreationOrder, MadeOnce, ZenonT(60)
  <2>7. CASE i = 6
    BY <1>1, <2>7, CreationOrder, MadeOnce, ZenonT(60)
  <2>8. CASE i = 7
    BY <1>1, <2>8, CreationOrder, MadeOnce, ZenonT(60)
  <2>9. CASE i = 8
    BY <1>1, <2>9, CreationOrder, MadeOnce, ZenonT(60)
  <2>10. CASE i = 9
    BY <1>1, <2>10, CreationOrder, MadeOnce, ZenonT(60)
  <2>11. CASE i = 10
    BY <1>1, <2>11, CreationOrder, MadeOnce, ZenonT(60)
  <2>12. CASE i = 11
    BY <1>1, <2>12, CreationOrder, MadeOnce, ZenonT(60)
  <2>13. CASE i = 12
    BY <1>1, <2>13, CreationOrder, MadeOnce, ZenonT(60)
  <2>14. CASE i = 13
    BY <1>1, <2>14, CreationOrder, MadeOnce, ZenonT(60)
  <2>15. CASE i = 14
    BY <1>1, <2>15, CreationOrder, MadeOnce, ZenonT(60)
  <2>16. CASE i = 15
    BY <1>1, <2>16, CreationOrder, MadeOnce, ZenonT(60)
  <2>17. CASE i = 16
    BY <1>1, <2>17, CreationOrder, MadeOnce, ZenonT(60)
  <2>18. CASE i = 17
    BY <1>1, <2>18, CreationOrder, MadeOnce, ZenonT(60)
  <2>19. CASE i = 18
    BY <1>1, <2>19, CreationOrder, MadeOnce, ZenonT(60)
  <2>20. CASE i = 19
    BY <1>1, <2>20, CreationOrder, MadeOnce, ZenonT(60)
  <2> QED
    BY <2>1, <2>2, <2>3, <2>4, <2>5, <2>6, <2>7, <2>8, <2>9, <2>10, <2>11, <2>12,
       <2>13, <2>14, <2>15, <2>16, <2>17, <2>18, <2>19, <2>20
<1>2. Pieces = {Creation[i] : i \in 1 .. 19}
  BY CreationOrder DEF Pieces
<1>3. \A i \in 1 .. 19 : Creation[i] \in Pieces
  BY <1>2
<1>4. \A p \in Pieces : \E i \in 1 .. 19 : p = Creation[i]
  BY <1>2
<1>5. Torn \notin Pieces
  BY <1>4, MadeOnce
<1>6. Len(Creation) = 19
  BY CreationOrder
<1> QED
  BY <1>1, <1>3, <1>4, <1>5, <1>6

\* What the actions and properties say of named pieces, by position.
LEMMA NamedPieces ==
  /\ "root" = Creation[1] /\ "log" = Creation[2] /\ "transactions" = Creation[5]
  /\ "static data" = Creation[7] /\ "instance" = Creation[13] /\ "root row" = Creation[19]
  /\ DatabaseIsRead => Creation[18] \in disk
<1>1. DatabaseIsRead => Creation[18] \in disk
  BY CreationOrder DEF DatabaseIsRead
<1> QED
  BY <1>1, CreationOrder, ZenonT(60)

-----------------------------------------------------------------------------
(***************************************************************************)
(* The inductive invariant.  Piece 7 is the static data, piece 13 the row  *)
(* in "Instances".                                                         *)
(***************************************************************************)

\* The piece is on disk or, being the static data, could not be written.
Made(i) == Creation[i] \in disk \/ i = 7

\* Apart from the static data, the pieces on disk are the first ones of Creation:
\* a start that finds a directory adds nothing but the log, which is the second.
InOrder ==
  /\ \A i, j \in 1 .. 19 : j < i /\ Creation[i] \in disk => Made(j)
  /\ Torn \in disk => Creation[1] \in disk
  /\ process = "creating" => \A j \in 1 .. 19 : j < step => Made(j)

\* What recovery relies on.
ReadBack ==
  process \in {"recovering", "open"} => \A i \in 1 .. 18 : Made(i)

\* The identity is stored twice, by the process that creates the share.
StoredOnce ==
  /\ static # {} <=> Creation[7] \in disk
  /\ instance # {} <=> Creation[13] \in disk
  /\ static # {} /\ instance # {} => static = instance
  /\ process = "creating" => static \in {{}, self} /\ instance \in {{}, self}
  /\ process \in {"recovering", "open"} /\ static # {} => self = static

NotOther ==
  /\ other => disk = {}
  /\ process = "creating" => ~other /\ step \in 1 .. 19

OpenInv == TypeOK /\ InOrder /\ ReadBack /\ StoredOnce /\ NotOther

\* Nothing is at Root yet, or something that is not a share.
LEMMA OpenInit == Init => OpenInv
<1> SUFFICES ASSUME Init PROVE OpenInv
  OBVIOUS
<1>1. /\ disk \in {{}, {Creation[1]}} /\ other \in BOOLEAN /\ (other => disk = {})
      /\ static = {} /\ instance = {} /\ self = {} /\ process = "down" /\ step = 1
  <2>1. disk \in {{}, {Creation[1]}}
    BY NamedPieces DEF Init
  <2> QED
    BY <2>1 DEF Init
<1>2. TypeOK
  BY <1>1, Positions DEF TypeOK
<1>3. InOrder
  <2>1. \A i \in 1 .. 19 : Creation[i] \in disk => i = 1
    BY <1>1, Positions
  <2>2. Torn \notin disk
    BY <1>1, Positions
  <2> QED
    BY <1>1, <2>1, <2>2 DEF InOrder
<1>4. ReadBack /\ StoredOnce /\ NotOther
  <2>1. Creation[7] \notin disk /\ Creation[13] \notin disk
    BY <1>1, Positions
  <2> QED
    BY <1>1, <2>1 DEF ReadBack, StoredOnce, NotOther
<1> QED
  BY <1>2, <1>3, <1>4 DEF OpenInv

\* A directory that does not exist has nothing in it, so a creation starts from
\* nothing.
LEMMA BeginCreationKeeps ==
  ASSUME OpenInv, BeginCreation
  PROVE  OpenInv'
<1> USE DEF OpenInv
<1>1. Creation[1] \notin disk
  BY NamedPieces DEF BeginCreation
<1>2. /\ ~other /\ process = "starting" /\ step' = 1
      /\ UNCHANGED <<disk, other, static, instance, self>>
      /\ process' \in {"creating", "failed"}
  <2>1. self # {}
    BY DEF TypeOK, BeginCreation
  <2> QED
    BY <2>1 DEF BeginCreation, Become
<1>3. disk = {}
  <2>1. \A i \in 1 .. 19 : Creation[i] \notin disk
    BY <1>1 DEF InOrder, Made
  <2> QED
    BY <1>1, <2>1, Positions DEF TypeOK, InOrder
<1>4. TypeOK'
  BY <1>2, Positions DEF TypeOK
<1>5. InOrder' /\ ReadBack' /\ StoredOnce' /\ NotOther'
  BY <1>2, <1>3 DEF InOrder, Made, ReadBack, StoredOnce, NotOther
<1> QED
  BY <1>4, <1>5

\* Create, by the position of its piece.
LEMMA CreateStep ==
  ASSUME OpenInv, Create
  PROVE  /\ process = "creating" /\ step \in 1 .. 19 /\ step' = step + 1
         /\ disk' = disk \cup {Creation[step]}
         /\ static' = IF step = 7 THEN self ELSE static
         /\ instance' = IF step = 13 THEN self ELSE instance
         /\ process' = IF step = 19 THEN "recovering" ELSE "creating"
         /\ UNCHANGED <<other, self>>
<1>1. process = "creating" /\ step \in 1 .. 19
  BY DEF Create, OpenInv, NotOther
<1>2. (Creation[step] = "static data" <=> step = 7) /\ (Creation[step] = "instance" <=> step = 13)
  BY <1>1, CreationOrder, MadeOnce
<1>3. static' = (IF step = 7 THEN self ELSE static)
  BY <1>2 DEF Create
<1>4. instance' = (IF step = 13 THEN self ELSE instance)
  BY <1>2 DEF Create
<1>5. process' = (IF step = 19 THEN "recovering" ELSE "creating")
  BY Positions DEF Create, Become
<1>6. step' = step + 1 /\ disk' = disk \cup {Creation[step]} /\ UNCHANGED <<other, self>>
  BY DEF Create
<1> QED
  BY <1>1, <1>3, <1>4, <1>5, <1>6

\* One more piece.
LEMMA CreateKeeps ==
  ASSUME OpenInv, Create
  PROVE  OpenInv'
<1>1. /\ process = "creating" /\ step \in 1 .. 19 /\ step' = step + 1
      /\ disk' = disk \cup {Creation[step]}
      /\ static' = IF step = 7 THEN self ELSE static
      /\ instance' = IF step = 13 THEN self ELSE instance
      /\ process' = IF step = 19 THEN "recovering" ELSE "creating"
      /\ UNCHANGED <<other, self>>
  BY CreateStep
<1> USE DEF OpenInv
<1>2. ~other /\ self # {} /\ self \subseteq Identity
  BY <1>1 DEF NotOther, TypeOK
<1>3. TypeOK'
  BY <1>1, <1>2, Positions DEF TypeOK
<1>4. \A j \in 1 .. 19 : j < step => Made(j)
  BY <1>1 DEF InOrder
<1>5. \A j \in 1 .. 19 : j < step + 1 => Made(j)'
  BY <1>1, <1>4 DEF Made
<1>6. \A i \in 1 .. 19 : Creation[i] \in disk' <=> Creation[i] \in disk \/ i = step
  BY <1>1, Positions
<1>7. InOrder'
  <2>1. \A i, j \in 1 .. 19 : j < i /\ Creation[i] \in disk' => Made(j)'
    BY <1>1, <1>5, <1>6 DEF InOrder, Made
  <2>2. Torn \in disk' => Creation[1] \in disk'
    BY <1>1, Positions DEF InOrder
  <2> QED
    BY <1>1, <1>5, <2>1, <2>2 DEF InOrder
<1>8. ReadBack'
  BY <1>1, <1>5 DEF ReadBack
<1>9. StoredOnce'
  <2>1. /\ Creation[7] \in disk' <=> Creation[7] \in disk \/ 7 = step
        /\ Creation[13] \in disk' <=> Creation[13] \in disk \/ 13 = step
    BY <1>6
  <2> QED
    BY <1>1, <1>2, <2>1 DEF StoredOnce
<1>10. NotOther'
  BY <1>1, <1>2 DEF NotOther
<1> QED
  BY <1>3, <1>7, <1>8, <1>9, <1>10

\* The static data is not written, or torn, and the creation goes on.
LEMMA CreateUnwrittenKeeps ==
  ASSUME OpenInv, CreateUnwritten
  PROVE  OpenInv'
<1> USE DEF OpenInv
<1>1. process = "creating" /\ step \in 1 .. 19
  BY DEF CreateUnwritten, NotOther
<1>2. step = 7
  BY <1>1, MadeOnce DEF CreateUnwritten
<1>3. /\ step' = 8 /\ disk' \in {disk, disk \cup {Torn}}
      /\ UNCHANGED <<other, static, instance, process, self>>
  <2>1. /\ step' = step + 1 /\ disk' \in {disk, disk \cup {Torn}}
        /\ UNCHANGED <<other, static, instance, process, self>>
    BY DEF CreateUnwritten
  <2> QED
    BY <1>2, <2>1
<1>4. \A i \in 1 .. 19 : Creation[i] \in disk' <=> Creation[i] \in disk
  BY <1>3, Positions
<1>5. Creation[1] \in disk
  BY <1>1, <1>2 DEF InOrder, Made
<1>6. TypeOK'
  BY <1>1, <1>3, Positions DEF TypeOK
<1>7. \A j \in 1 .. 19 : j < 8 => Made(j)'
  BY <1>1, <1>2, <1>4 DEF InOrder, Made
<1>8. \A i, j \in 1 .. 19 : j < i /\ Creation[i] \in disk' => Made(j)'
  BY <1>4 DEF InOrder, Made
<1>9. InOrder'
  BY <1>3, <1>4, <1>5, <1>7, <1>8 DEF InOrder
<1>10. ReadBack' /\ NotOther'
  BY <1>1, <1>3 DEF ReadBack, NotOther
<1>11. StoredOnce'
  BY <1>3, <1>4 DEF StoredOnce
<1> QED
  BY <1>6, <1>9, <1>10, <1>11

\* A directory that is read back far enough to recover from has all tables, the
\* last of which is made after everything else but the root's row.
LEMMA RestoreKeeps ==
  ASSUME OpenInv, Restore
  PROVE  OpenInv'
<1> USE DEF OpenInv
<1>1. Creation[1] \in disk /\ disk' = disk \cup {Creation[2]}
  BY NamedPieces DEF Restore
<1>2. process' = "recovering" => Creation[18] \in disk
  BY NamedPieces DEF Restore, Become
<1>3. /\ process = "starting" /\ process' \in {"recovering", "failed"}
      /\ self' = IF static = {} THEN self ELSE static
      /\ UNCHANGED <<other, static, instance, step>>
  BY DEF Restore, Become
<1>4. TypeOK'
  BY <1>1, <1>3, Positions DEF TypeOK
<1>5. \A i \in 1 .. 19 : Creation[i] \in disk' <=> Creation[i] \in disk \/ i = 2
  BY <1>1, Positions
<1>6. InOrder'
  <2>1. \A i, j \in 1 .. 19 : j < i /\ Creation[i] \in disk' => Made(j)'
    BY <1>1, <1>5 DEF InOrder, Made
  <2> QED
    BY <1>1, <1>3, <2>1 DEF InOrder
<1>7. ReadBack'
  <2>1. Creation[18] \in disk => \A i \in 1 .. 18 : Made(i)
    BY DEF InOrder, Made
  <2> QED
    BY <1>1, <1>2, <1>3, <2>1 DEF ReadBack, Made
<1>8. NotOther'
  BY <1>1, <1>3 DEF NotOther
<1>9. StoredOnce'
  BY <1>3, <1>5 DEF StoredOnce
<1> QED
  BY <1>4, <1>6, <1>7, <1>8, <1>9

\* A start that fails adds nothing but the log.
LEMMA FailKeeps ==
  ASSUME OpenInv, Fail
  PROVE  OpenInv'
<1> USE DEF OpenInv
<1>1. /\ process \in {"starting", "creating", "recovering"} /\ process' = "failed"
      /\ UNCHANGED <<other, static, instance, step, self>>
  BY DEF Fail, Become
<1>2. disk' = disk \/ (Creation[1] \in disk /\ disk' = disk \cup {Creation[2]})
  BY NamedPieces DEF Fail
<1>3. \A i \in 1 .. 19 : Creation[i] \in disk' <=> Creation[i] \in disk \/ (i = 2 /\ disk' # disk)
  BY <1>2, Positions
<1>4. TypeOK'
  BY <1>1, <1>2, Positions DEF TypeOK
<1>5. InOrder'
  <2>1. \A i, j \in 1 .. 19 : j < i /\ Creation[i] \in disk' => Made(j)'
    BY <1>2, <1>3 DEF InOrder, Made
  <2>2. Torn \in disk' => Creation[1] \in disk'
    BY <1>2, Positions DEF InOrder
  <2> QED
    BY <1>1, <2>1, <2>2 DEF InOrder
<1>6. ReadBack' /\ NotOther'
  BY <1>1, <1>2 DEF ReadBack, NotOther
<1>7. StoredOnce'
  BY <1>1, <1>3 DEF StoredOnce
<1> QED
  BY <1>4, <1>5, <1>6, <1>7

\* Every step keeps the invariant.
LEMMA OpenNext == OpenInv /\ [Next]_vars => OpenInv'
<1> SUFFICES ASSUME OpenInv, [Next]_vars PROVE OpenInv'
  OBVIOUS
<1> USE DEF OpenInv
<1>1. ASSUME UNCHANGED <<disk, other, static, instance>>, TypeOK', step' = step,
             process' \in {"creating", "recovering", "open"} =>
               self' = self /\ (process' = process \/ (process' = "open" /\ process = "recovering"))
      PROVE  OpenInv'
  <2>1. InOrder'
    BY <1>1 DEF InOrder, Made
  <2>2. ReadBack' /\ StoredOnce' /\ NotOther'
    BY <1>1 DEF ReadBack, Made, StoredOnce, NotOther
  <2> QED
    BY <1>1, <2>1, <2>2
<1>2. CASE UNCHANGED vars
  <2>1. /\ UNCHANGED <<disk, other, static, instance>>
        /\ process' = process /\ step' = step /\ self' = self
    BY <1>2 DEF vars
  <2>2. TypeOK' /\ InOrder'
    BY <2>1 DEF TypeOK, InOrder, Made
  <2>3. ReadBack' /\ StoredOnce' /\ NotOther'
    BY <2>1 DEF ReadBack, Made, StoredOnce, NotOther
  <2> QED
    BY <2>2, <2>3
<1>3. CASE RefuseOther \/ Recover \/ Exit \/ Crash
  <2>1. /\ UNCHANGED <<disk, other, static, instance, step>>
        /\ \/ process = "starting" /\ process' = "failed" /\ self' = self
           \/ process = "recovering" /\ process' \in {"open", "failed"} /\ self' = self
           \/ process' = "down" /\ self' = {}
    BY <1>3 DEF RefuseOther, Recover, Exit, Crash, Halt, Become
  <2>2. TypeOK'
    BY <2>1 DEF TypeOK
  <2> QED
    BY <1>1, <2>1, <2>2
<1>4. ASSUME NEW caller \in Callers, NEW name \in ValidNames \cup InvalidNames \cup {NoName},
             Start(caller, name)
      PROVE  OpenInv'
  <2>1. \A id \in IDs : [name |-> name, id |-> id] \in Identity
    BY DEF Identity
  <2>2. /\ UNCHANGED <<disk, other, static, instance, step>> /\ process = "down"
        /\ \/ process' = "terminated" /\ self' = self
           \/ process' = "starting" /\ self' # {} /\ self' \subseteq Identity
    BY <1>4, <2>1 DEF Start, Become
  <2>3. TypeOK'
    BY <2>2 DEF TypeOK
  <2> QED
    BY <1>1, <2>2, <2>3
<1> QED
  BY <1>2, <1>3, <1>4, BeginCreationKeeps, CreateKeeps, CreateUnwrittenKeeps, RestoreKeeps, FailKeeps DEF Next

\* The invariant holds however starts, crashes and failures follow each other.
THEOREM OpenInvariant == Spec => []OpenInv
BY OpenInit, OpenNext, PTL DEF Spec

-----------------------------------------------------------------------------
\* The variables keep their types, and a process that is down has no identity.
THEOREM OpenTypes == Spec => []TypeOK
BY OpenInvariant, PTL DEF OpenInv

\* After whatever interrupted creations, a share that opens has every piece but
\* perhaps the static data and the row of its root.
THEOREM OpenedWhole == Spec => []OpenIsWhole
<1>1. OpenInv => OpenIsWhole
  <2> SUFFICES ASSUME OpenInv, process = "open", NEW p \in Pieces, p \notin disk
               PROVE  p = "root row" \/ p = "static data"
    BY DEF OpenIsWhole
  <2>1. PICK i \in 1 .. 19 : p = Creation[i]
    BY Positions
  <2>2. i = 7 \/ i = 19
    BY <2>1 DEF OpenInv, ReadBack, Made
  <2> QED
    BY <2>1, <2>2, NamedPieces
<1> QED
  BY <1>1, OpenInvariant, PTL

\* A share whose static data was written opens with the identity of the process
\* that created it, the same in the static file and in the table.
THEOREM KeptIdentity == Spec => []IdentityIsKept
<1>1. OpenInv => IdentityIsKept
  <2>1. OpenInv /\ process = "open" /\ Creation[7] \in disk => self = static /\ self = instance
    BY DEF OpenInv, ReadBack, Made, StoredOnce
  <2> QED
    BY <2>1, NamedPieces DEF IdentityIsKept
<1> QED
  BY <1>1, OpenInvariant, PTL

=============================================================================
