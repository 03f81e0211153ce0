----------------------------- MODULE MoatProofs -----------------------------
(***************************************************************************)
(* Mutual exclusion on Mutex, for any number of threads and calls, with    *)
(* and without bridges and probes.  The invariant is that a thread owns    *)
(* Mutex exactly when it is in one of the places where it holds it.  With  *)
(* bridges these are the places on the way to the operation's own guard,   *)
(* so no thread gets past that guard.                                      *)
(***************************************************************************)
EXTENDS Moat, TLAPS

Places == {"idle", "cross", "enter", "probed", "lock", "inside", "leave", "failed"}

Under == {"probed", "inside"}

Holds(place) == \/ Bridged /\ place \in {"enter", "lock", "leave"}
                \/ ~Bridged /\ place \in Under

HoldersOwn == \A t \in Threads : Holds(pc[t]) => mutex = {t}

\* Mutex is not left locked: its owner is on the way to a step that frees it.
OwnersHold == \A t \in mutex : t \in Threads /\ Holds(pc[t])

\* An operation called through a bridge never gets to look at the tables: it
\* waits for the bridge that it is called through.
BridgedCallsStop == Bridged => \A t \in Threads : pc[t] \notin Under

IInv ==
  /\ pc \in [Threads -> Places]
  /\ op \in [Threads -> Operations]
  /\ HoldersOwn
  /\ OwnersHold
  /\ BridgedCallsStop
  /\ \A t \in Threads : pc[t] = "cross" => Bridged

\* Outside of a call Mutex is not held.
LEMMA Free ==
  \A place \in {"idle", "cross", "failed"} : place \in Places /\ place \notin Under /\ ~Holds(place)
  BY DEF Places, Holds, Under

\* Who does not hold Mutex does not own it.
LEMMA Outside ==
  ASSUME IInv, NEW t \in Threads, ~Holds(pc[t])
  PROVE  mutex = mutex \ {t}
BY DEF IInv, OwnersHold

\* t goes to a place where it does not hold Mutex, and gives up what is its own.
LEMMA Releasing ==
  ASSUME IInv, NEW t \in Threads, NEW place \in Places,
         place \notin Under, ~Holds(place),
         Goto(t, place), place = "cross" => Bridged,
         mutex' = mutex \ {t},
         op' \in [Threads -> Operations]
  PROVE  IInv'
<1>1. pc' \in [Threads -> Places] /\ \A u \in Threads : pc'[u] = IF u = t THEN place ELSE pc[u]
  BY DEF IInv, Goto
<1>0. way' = way
  BY DEF Goto
<1>2. HoldersOwn'
  <2> SUFFICES ASSUME NEW u \in Threads, Holds(pc[u])' PROVE mutex' = {u}
    BY DEF HoldersOwn
  <2>1. u # t /\ Holds(pc[u])
    BY <1>0, <1>1 DEF Holds, Bridged
  <2>2. mutex = {u}
    BY <2>1 DEF IInv, HoldersOwn
  <2> QED
    BY <2>1, <2>2
<1>3. BridgedCallsStop'
  BY <1>0, <1>1 DEF IInv, BridgedCallsStop, Bridged, Under
<1>4. OwnersHold'
  BY <1>0, <1>1 DEF IInv, OwnersHold, Holds, Bridged
<1>5. \A u \in Threads : pc'[u] = "cross" => Bridged'
  BY <1>0, <1>1 DEF IInv, Bridged
<1> QED
  BY <1>1, <1>2, <1>3, <1>4, <1>5 DEF IInv

\* t owns Mutex after the step, and nobody else did before it.
LEMMA Owning ==
  ASSUME IInv, NEW t \in Threads, NEW place \in Places, Goto(t, place),
         mutex = {} \/ mutex = {t}, mutex' = {t}, Holds(place),
         op' \in [Threads -> Operations]
  PROVE  IInv'
<1>1. pc' \in [Threads -> Places] /\ \A u \in Threads : pc'[u] = IF u = t THEN place ELSE pc[u]
  BY DEF IInv, Goto
<1>0. way' = way
  BY DEF Goto
<1>2. HoldersOwn'
  <2> SUFFICES ASSUME NEW u \in Threads, Holds(pc[u])' PROVE mutex' = {u}
    BY DEF HoldersOwn
  <2>1. u # t => mutex = {u}
    BY <1>0, <1>1 DEF IInv, HoldersOwn, Holds, Bridged
  <2> QED
    BY <2>1
<1>3. BridgedCallsStop'
  BY <1>0, <1>1 DEF IInv, BridgedCallsStop, Bridged, Under, Holds
<1>4. OwnersHold'
  BY <1>0, <1>1 DEF OwnersHold, Holds, Bridged
<1>5. \A u \in Threads : pc'[u] = "cross" => Bridged'
  BY <1>0, <1>1 DEF IInv, Bridged, Holds, Under
<1> QED
  BY <1>1, <1>2, <1>3, <1>4, <1>5 DEF IInv

\* With a bridge t owns Mutex all along; without, it goes on without it.
LEMMA Passing ==
  ASSUME IInv, NEW t \in Threads, NEW place \in {"enter", "lock", "leave"}, Goto(t, place),
         Bridged => mutex = {t}, ~Bridged => ~Holds(pc[t]), UNCHANGED mutex,
         op' \in [Threads -> Operations]
  PROVE  IInv'
<1>1. CASE Bridged
  <2>1. place \in Places /\ Holds(place)
    BY <1>1 DEF Places, Holds
  <2> QED
    BY <1>1, <2>1, Owning
<1>2. CASE ~Bridged
  <2>1. place \in Places /\ place \notin Under /\ ~Holds(place) /\ place # "cross"
    BY <1>2 DEF Places, Holds, Under
  <2>2. mutex' = mutex \ {t}
    BY <1>2, Outside
  <2> QED
    BY <2>1, <2>2, Releasing
<1> QED
  BY <1>1, <1>2

LEMMA StepHolds == ASSUME IInv, NEW t \in Threads, Call(t) \/ Step(t) PROVE IInv'
<1>1. CASE Call(t)
  <2>1. op' \in [Threads -> Operations] /\ UNCHANGED mutex /\ ~Holds(pc[t])
    BY <1>1, Free DEF Call, IInv
  <2>2. CASE Bridged
    <3>1. Goto(t, "cross")
      BY <1>1, <2>2 DEF Call
    <3> QED
      BY <2>1, <2>2, <3>1, Outside, Releasing, Free
  <2>3. CASE ~Bridged
    <3>1. Goto(t, "enter")
      BY <1>1, <2>3 DEF Call
    <3> QED
      BY <2>1, <2>3, <3>1, Passing
  <2> QED
    BY <2>2, <2>3
<1>2. CASE Cross(t)
  <2>1. Goto(t, "enter") /\ mutex = {} /\ mutex' = {t} /\ op' \in [Threads -> Operations]
    BY <1>2 DEF Cross, Acquire, IInv
  <2>2. "enter" \in Places /\ Holds("enter")
    BY <1>2 DEF Cross, Acquire, IInv, Places, Holds
  <2> QED
    BY <2>1, <2>2, Owning
<1>3. CASE Refuse(t)
  <2>1. (Bridged => mutex = {t}) /\ (~Bridged => ~Holds(pc[t]))
    BY <1>3 DEF Refuse, IInv, HoldersOwn, Holds, Under
  <2>2. Goto(t, "leave") /\ UNCHANGED mutex /\ op' \in [Threads -> Operations]
    BY <1>3 DEF Refuse, IInv
  <2> QED
    BY <2>1, <2>2, Passing
<1>4. CASE Enter(t)
  <2>1. (Bridged => mutex = {t}) /\ (~Bridged => ~Holds(pc[t]))
    BY <1>4 DEF Enter, IInv, HoldersOwn, Holds, Under
  <2>2. Goto(t, "lock") /\ UNCHANGED mutex /\ op' \in [Threads -> Operations]
    BY <1>4 DEF Enter, IInv
  <2> QED
    BY <2>1, <2>2, Passing
<1>5. CASE Probe(t)
  <2>0. op' \in [Threads -> Operations]
    BY <1>5 DEF Probe, IInv
  <2>1. CASE mutex = {}
    <3>1. Goto(t, "probed") /\ mutex' = {t}
      BY <1>5, <2>1 DEF Probe
    <3>2. ~Bridged
      BY <1>5, <2>1 DEF Probe, Probes, IInv, HoldersOwn, Holds
    <3>3. "probed" \in Places /\ Holds("probed")
      BY <3>2 DEF Places, Holds, Under
    <3> QED
      BY <2>0, <2>1, <3>1, <3>2, <3>3, Owning
  <2>2. CASE mutex # {}
    <3>1. Goto(t, "failed") /\ mutex' = mutex \ {t}
      BY <1>5, <2>2 DEF Probe
    <3> QED
      BY <2>0, <3>1, Free, Releasing
  <2> QED
    BY <2>1, <2>2
<1>6. CASE Unprobe(t)
  <2>1. ~Bridged /\ mutex = {t}
    BY <1>6 DEF Unprobe, IInv, HoldersOwn, BridgedCallsStop, Holds, Under
  <2>2. Goto(t, "lock") /\ mutex' = mutex \ {t} /\ op' \in [Threads -> Operations]
    BY <1>6, <2>1 DEF Unprobe, IInv
  <2>3. "lock" \in Places /\ "lock" \notin Under /\ ~Holds("lock")
    BY <2>1 DEF Places, Holds, Under
  <2> QED
    BY <2>2, <2>3, Releasing
<1>7. CASE Lock(t)
  <2>1. Goto(t, "inside") /\ mutex = {} /\ mutex' = {t} /\ op' \in [Threads -> Operations]
    BY <1>7 DEF Lock, Acquire, IInv
  <2>2. ~Bridged
    BY <1>7, <2>1 DEF Lock, Acquire, IInv, HoldersOwn, Holds
  <2>3. "inside" \in Places /\ Holds("inside")
    BY <2>2 DEF Places, Holds, Under
  <2> QED
    BY <2>1, <2>2, <2>3, Owning
<1>8. CASE Finish(t)
  <2>1. ~Bridged /\ mutex = {t}
    BY <1>8 DEF Finish, IInv, HoldersOwn, BridgedCallsStop, Holds, Under
  <2>2. mutex' = mutex \ {t} /\ op' \in [Threads -> Operations]
    BY <1>8, <2>1 DEF Finish, IInv, Operations
  <2>3. Goto(t, "leave") \/ Goto(t, "lock")
    BY <1>8 DEF Finish
  <2>4. \A place \in {"leave", "lock"} : place \in Places /\ place \notin Under /\ ~Holds(place)
    BY <2>1 DEF Places, Holds, Under
  <2>5. CASE Goto(t, "leave")
    BY <2>2, <2>4, <2>5, Releasing
  <2>6. CASE Goto(t, "lock")
    BY <2>2, <2>4, <2>6, Releasing
  <2> QED
    BY <2>3, <2>5, <2>6
<1>9. CASE Leave(t)
  <2>1. (Bridged => mutex = {t}) /\ (~Bridged => ~Holds(pc[t]))
    BY <1>9 DEF Leave, IInv, HoldersOwn, Holds, Under
  <2>2. mutex' = mutex \ {t}
    BY <1>9, <2>1, Outside DEF Leave
  <2>3. Goto(t, "idle") /\ op' \in [Threads -> Operations]
    BY <1>9 DEF Leave, IInv
  <2> QED
    BY <2>2, <2>3, Free, Releasing
<1> QED
  BY <1>1, <1>2, <1>3, <1>4, <1>5, <1>6, <1>7, <1>8, <1>9 DEF Step

LEMMA Invariant == Spec => []IInv
<1>1. Init => IInv
  <2> SUFFICES ASSUME Init PROVE IInv
    OBVIOUS
  <2>1. "idle" \in Places /\ "Get" \in Operations
    BY DEF Places, Operations
  <2>2. pc \in [Threads -> Places] /\ op \in [Threads -> Operations]
    BY <2>1 DEF Init
  <2>3. \A t \in Threads : pc[t] \notin Under /\ ~Holds(pc[t])
    BY Free DEF Init
  <2> QED
    BY <2>2, <2>3 DEF Init, IInv, HoldersOwn, OwnersHold, BridgedCallsStop
<1>2. IInv /\ [Next]_vars => IInv'
  <2> SUFFICES ASSUME IInv, [Next]_vars PROVE IInv'
    OBVIOUS
  <2>1. CASE \E t \in Threads : Call(t) \/ Step(t)
    BY <2>1, StepHolds
  <2>2. CASE UNCHANGED vars
    BY <2>2 DEF vars, IInv, HoldersOwn, OwnersHold, BridgedCallsStop, Holds, Bridged
  <2> QED
    BY <2>1, <2>2 DEF Next, Done
<1> QED
  BY <1>1, <1>2, PTL DEF Spec

\* GetInternal's assertion that Mutex is held (core.cxx:494) is right, and by
\* its caller, whatever probes other threads make.
THEOREM Exclusive == Spec => []LookupsAreExclusive
<1>1. IInv => LookupsAreExclusive
  BY DEF IInv, HoldersOwn, BridgedCallsStop, Holds, Under, LookupsAreExclusive
<1> QED
  BY <1>1, Invariant, PTL

\* Between the construction of a bridge and its end no other thread is in a call
\* (moat.h:22).
THEOREM OneBridge == Spec => []BridgesAreExclusive
<1>1. IInv => BridgesAreExclusive
  BY DEF IInv, HoldersOwn, BridgedCallsStop, Holds, Under, BridgesAreExclusive
<1> QED
  BY <1>1, Invariant, PTL

\* Whoever owns Mutex is in a call and at a place from which the code unlocks it:
\* no way out of an operation, an assertion or a bridge leaves it locked.
THEOREM NothingLeaks == Spec => []OwnersHold
<1>1. IInv => OwnersHold
  BY DEF IInv
<1> QED
  BY <1>1, Invariant, PTL

\* No operation that is called through a bridge ever looks at the tables.
THEOREM NothingRuns == Spec => []BridgedCallsStop
<1>1. IInv => BridgedCallsStop
  BY DEF IInv
<1> QED
  BY <1>1, Invariant, PTL

=============================================================================
