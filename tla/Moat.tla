-------------------------------- MODULE Moat --------------------------------
(***************************************************************************)
(* ShareCoreInner::Mutex as the threads meet it: the guards in the         *)
(* operations (app/core.cxx), the second guard of a Move, the try_lock     *)
(* with which a debug build of Get begins, and the bridge of app/moat.h,   *)
(* through which app/fusemain.cxx calls the operations and which locks     *)
(* Mutex as well.  What an operation does under Mutex is in ShareCore.     *)
(*                                                                         *)
(* Mutex is a std::mutex: lock waits until nobody holds it, its owner      *)
(* included, and try_lock fails when anybody does.                         *)
(***************************************************************************)
EXTENDS Naturals

CONSTANTS Threads,
          Ways,       \* subset of {"bridge", "direct"}: how the program calls the core;
                      \* fusemain.cxx takes the bridge, test/core1.cxx is written
                      \* with direct calls (of a ShareCore, which has none)
          Debug,      \* is Get's #ifndef NDEBUG block compiled?
          MaxCalls    \* bound on the calls of each thread

ASSUME WaysAssumption == Ways \subseteq {"bridge", "direct"}
ASSUME DebugAssumption == Debug \in BOOLEAN
ASSUME MaxCallsAssumption == MaxCalls \in Nat

\* "Change" stands for every operation that locks Mutex first of all:
\* CreateDirectory, OpenDirectory, GetDirectory, SetPermissions, SetTimestamp.
Operations == {"Get", "Change", "Delete", "Move"}

VARIABLES way,     \* how this program calls the core
          mutex,   \* the owner of Mutex, if any
          pc,      \* where each thread is
          op,      \* the operation it is in
          calls    \* how many it has begun

vars == <<way, mutex, pc, op, calls>>

Init ==
  /\ way \in Ways
  /\ mutex = {}
  /\ pc = [t \in Threads |-> "idle"]
  /\ op = [t \in Threads |-> "Get"]
  /\ calls = [t \in Threads |-> 0]

Bridged == way = "bridge"

Goto(t, place) == pc' = [pc EXCEPT ![t] = place] /\ UNCHANGED way

Call(t) ==
  /\ pc[t] = "idle"
  /\ calls[t] < MaxCalls
  /\ \E operation \in Operations : op' = [op EXCEPT ![t] = operation]
  /\ calls' = [calls EXCEPT ![t] = @ + 1]
  /\ Goto(t, IF Bridged THEN "cross" ELSE "enter")
  /\ UNCHANGED mutex

Acquire(t, from, to) ==
  /\ pc[t] = from
  /\ mutex = {}
  /\ mutex' = {t}
  /\ Goto(t, to)
  /\ UNCHANGED <<op, calls>>

\* Mutant: the bridge that operator -> returns is moved from one that unlocks.
CrossMoved(t) ==
  /\ pc[t] = "cross"
  /\ mutex = {}
  /\ Goto(t, "enter")
  /\ UNCHANGED <<mutex, op, calls>>

\* BridgeT's constructor.
Cross(t) == Acquire(t, "cross", "enter")

\* Delete and Move look at their paths before they lock anything.
Refuse(t) ==
  /\ pc[t] = "enter"
  /\ op[t] \in {"Delete", "Move"}
  /\ Goto(t, "leave")
  /\ UNCHANGED <<mutex, op, calls>>

Enter(t) ==
  /\ pc[t] = "enter"
  /\ op[t] # "Get" \/ ~Debug
  /\ Goto(t, "lock")
  /\ UNCHANGED <<mutex, op, calls>>

Probes(t) == pc[t] = "enter" /\ op[t] = "Get" /\ Debug

\* Mutant: the result of try_lock is not looked at.
ProbeUnchecked(t) ==
  /\ Probes(t)
  /\ mutex' = IF mutex = {} THEN {t} ELSE mutex
  /\ Goto(t, "probed")
  /\ UNCHANGED <<op, calls>>

\* Assert(Mutex.try_lock()): an assertion that fails throws, which destroys
\* the bridge, and nobody catches it.
Probe(t) ==
  /\ Probes(t)
  /\ IF mutex = {} THEN mutex' = {t} /\ Goto(t, "probed")
                   ELSE mutex' = mutex \ {t} /\ Goto(t, "failed")
  /\ UNCHANGED <<op, calls>>

\* Mutex.unlock()
Unprobe(t) ==
  /\ pc[t] = "probed"
  /\ mutex' = {}
  /\ Goto(t, "lock")
  /\ UNCHANGED <<op, calls>>

Lock(t) == Acquire(t, "lock", "inside")

\* Mutant: a way out of an operation that does not unlock.
FinishLocked(t) ==
  /\ pc[t] = "inside"
  /\ Goto(t, "leave")
  /\ UNCHANGED <<mutex, op, calls>>

\* The guard goes out of scope, by a return or by an exception.  A Move onto
\* a file goes on with Delete(To).
Finish(t) ==
  /\ pc[t] = "inside"
  /\ mutex' = {}
  /\ \/ Goto(t, "leave") /\ UNCHANGED op
     \/ /\ op[t] = "Move"
        /\ op' = [op EXCEPT ![t] = "Delete"]
        /\ Goto(t, "lock")
  /\ UNCHANGED calls

\* The end of the call's expression destroys the bridge.
Leave(t) ==
  /\ pc[t] = "leave"
  /\ mutex' = IF Bridged THEN {} ELSE mutex
  /\ Goto(t, "idle")
  /\ UNCHANGED <<op, calls>>

Step(t) == Cross(t) \/ Refuse(t) \/ Enter(t) \/ Probe(t) \/ Unprobe(t)
           \/ Lock(t) \/ Finish(t) \/ Leave(t)

AllDone == \A t \in Threads : pc[t] = "failed" \/ (pc[t] = "idle" /\ calls[t] = MaxCalls)

\* The threads have made their calls.
Done == AllDone /\ UNCHANGED vars

Next == (\E t \in Threads : Call(t) \/ Step(t)) \/ Done

Spec == Init /\ [][Next]_vars

\* A thread in a call goes on as soon as it can.
FairSpec == Spec /\ \A t \in Threads : WF_vars(Step(t))

-----------------------------------------------------------------------------
\* GetInternal's Assert(!Mutex.try_lock()), and what it is there for: whoever
\* looks at the tables holds Mutex, so no two threads do, whatever probes come
\* in between.
LookupsAreExclusive == \A t \in Threads : pc[t] = "inside" => mutex = {t}

\* What a bridge is for: while a thread uses one, it is alone in the core.
BridgesAreExclusive ==
  Bridged => \A t \in Threads :
    pc[t] \in {"enter", "probed", "lock", "inside", "leave"} => mutex = {t}

\* Every direct call comes to its end and gives Mutex back, whatever the others
\* do.  (A call through a bridge waits for the mutex of its own bridge.)
DirectCallsReturn ==
  \A t \in Threads : way = "direct" /\ pc[t] = "enter" ~> pc[t] \in {"idle", "failed"}

=============================================================================
