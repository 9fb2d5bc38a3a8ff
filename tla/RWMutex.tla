------------------------------ MODULE RWMutex -------------------------------
(***************************************************************************)
(* What the handlers of the Go server (server/main.go) ask of its          *)
(* sync.RWMutex and may rely on, apart from what they do under it: they    *)
(* take it, for writing in handlePut and for reading in getClientInfo,     *)
(* give it back, and come again without end.                               *)
(*                                                                         *)
(* GoServer implements this module.  There the reports of a run are        *)
(* numbered, so that no behaviour has more than a few; here nothing is     *)
(* counted, and reports and views may keep coming for ever.                *)
(***************************************************************************)
CONSTANTS
    Threads,     \* the requests served at the same time
    NoThread     \* no writer

ASSUME NoThreadAssumption == NoThread \notin Threads

VARIABLES
    writer,   \* the goroutine that called Lock and has not unlocked
    readers,  \* the goroutines that hold the lock for reading
    rwait,    \* the goroutines whose RLock waits for the writer
    at        \* where each goroutine is

mutexVars == <<writer, readers, rwait, at>>

Places == {"out", "lock", "drain", "write", "rlock", "rwait", "read"}

TypeOK ==
    /\ writer \in Threads \union {NoThread}
    /\ readers \subseteq Threads
    /\ rwait \subseteq Threads
    /\ at \in [Threads -> Places]

Init ==
    /\ writer = NoThread
    /\ readers = {}
    /\ rwait = {}
    /\ at = [t \in Threads |-> "out"]

Move(t, place) == at' = [at EXCEPT ![t] = place]

-----------------------------------------------------------------------------
(* handlePut: mu.Lock() to mu.Unlock().                                    *)

CallLock(t) ==
    /\ at[t] = "out"
    /\ Move(t, "lock")
    /\ UNCHANGED <<writer, readers, rwait>>

(***************************************************************************)
(* The writers' own mutex, taken before the readers are looked at.         *)
(***************************************************************************)
Lock(t) ==
    /\ at[t] = "lock"
    /\ writer = NoThread
    /\ writer' = t
    /\ Move(t, "drain")
    /\ UNCHANGED <<readers, rwait>>

LockGranted(t) ==
    /\ at[t] = "drain"
    /\ readers = {}
    /\ Move(t, "write")
    /\ UNCHANGED <<writer, readers, rwait>>

\* Seeded fault: the readers that wait are left to the next Unlock.
Unlock_WakesNobody(t) ==
    /\ at[t] = "write"
    /\ writer' = NoThread
    /\ Move(t, "out")
    /\ UNCHANGED <<readers, rwait>>

(***************************************************************************)
(* All readers that wait get in before the next writer.                    *)
(***************************************************************************)
Unlock(t) ==
    /\ at[t] = "write"
    /\ writer' = NoThread
    /\ readers' = readers \union rwait
    /\ rwait' = {}
    /\ Move(t, "out")

-----------------------------------------------------------------------------
(* getClientInfo: mu.RLock() to mu.RUnlock().                              *)

CallRLock(t) ==
    /\ at[t] = "out"
    /\ Move(t, "rlock")
    /\ UNCHANGED <<writer, readers, rwait>>

\* Seeded fault: readers enter while a writer waits for others to leave.
RLock_Barging(t) ==
    /\ at[t] = "rlock"
    /\ writer # NoThread => at[writer] = "drain"
    /\ readers' = readers \union {t}
    /\ Move(t, "read")
    /\ UNCHANGED <<writer, rwait>>

(***************************************************************************)
(* A reader that finds a writer, inside or still waiting, waits for it.    *)
(***************************************************************************)
RLock(t) ==
    /\ at[t] = "rlock"
    /\ \/ /\ writer = NoThread
          /\ readers' = readers \union {t}
          /\ Move(t, "read")
          /\ UNCHANGED rwait
       \/ /\ writer # NoThread
          /\ rwait' = rwait \union {t}
          /\ Move(t, "rwait")
          /\ UNCHANGED readers
    /\ UNCHANGED writer

RLockGranted(t) ==
    /\ at[t] = "rwait"
    /\ t \in readers
    /\ Move(t, "read")
    /\ UNCHANGED <<writer, readers, rwait>>

RUnlock(t) ==
    /\ at[t] = "read"
    /\ readers' = readers \ {t}
    /\ Move(t, "out")
    /\ UNCHANGED <<writer, rwait>>

-----------------------------------------------------------------------------
(* The specification.                                                      *)

Call(t) == CallLock(t) \/ CallRLock(t)

Pass(t) ==
    \/ LockGranted(t) \/ Unlock(t)
    \/ RLock(t) \/ RLockGranted(t) \/ RUnlock(t)

Next == \E t \in Threads : Call(t) \/ Lock(t) \/ Pass(t)

Spec == Init /\ [][Next]_mutexVars

(***************************************************************************)
(* The runtime runs every goroutine that is not blocked, and none stays    *)
(* under the lock for ever.  The writers queue for a sync.Mutex, which     *)
(* hands itself to a waiter that has waited for a millisecond: strong      *)
(* fairness.  Nobody need call.                                            *)
(***************************************************************************)
FairSpec ==
    /\ Spec
    /\ \A t \in Threads : WF_mutexVars(Pass(t)) /\ SF_mutexVars(Lock(t))

-----------------------------------------------------------------------------
(* Properties.                                                             *)

(***************************************************************************)
(* While handlePut changes the map nobody else changes or reads it.        *)
(***************************************************************************)
WritersAreAlone ==
    /\ TypeOK
    /\ \A t \in Threads : at[t] = "write" =>
         \A u \in Threads \ {t} : at[u] \notin {"write", "read"}

(***************************************************************************)
(* Though reports and views keep coming without end, none waits for ever:  *)
(* neither a view behind reports, nor a report behind views or behind      *)
(* other reports.                                                          *)
(***************************************************************************)
EveryCallReturns ==
    \A t \in Threads : (at[t] \in {"lock", "rlock"}) ~> (at[t] \in {"write", "read"})
=============================================================================
