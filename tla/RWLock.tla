------------------------------- MODULE RWLock -------------------------------
(***************************************************************************)
(* GenericRWLockImpl of src/blocxx/GenericRWLockImpl.hpp: a recursive      *)
(* read/write lock whose readers may upgrade to writers.                   *)
(*                                                                         *)
(* Every stretch of a call between two waits holds m_guard and is one      *)
(* action.  A call that throws without having changed anything (a release  *)
(* of a lock that is not held, the DeadlockException of a second upgrade)  *)
(* is a stuttering step and has no action.                                 *)
(***************************************************************************)
EXTENDS Naturals, FiniteSets

CONSTANTS
    Ids,        \* lockers: RWLocker passes the calling thread's id
    MaxHeld     \* bound: how often an id nests its locks, for model checking

ASSUME LockAssumption == IsFiniteSet(Ids) /\ MaxHeld \in Nat \ {0}

VARIABLES
    m_canRead,      \* FALSE while a writer waits
    m_numReaders,   \* ids that only read and do not upgrade
    m_numWriters,   \* current writer + upgrading writer
    readCount,      \* LockerInfo::readCount, 0 for an id not in m_lockerInfo
    writeCount,     \* LockerInfo::writeCount
    pc,             \* the call each id is in
    asleep,         \* ids blocked in a condition variable
    patient         \* ids whose call has an infinite timeout

counters == <<m_canRead, m_numReaders, m_numWriters>>
counts   == <<readCount, writeCount>>
vars     == <<counters, counts, pc, asleep, patient>>

isReader(i) == readCount[i] > 0
isWriter(i) == writeCount[i] > 0
Holds(i)    == isReader(i) \/ isWriter(i)    \* i is in m_lockerInfo

\* The wait sets of m_waiting_readers and m_waiting_writers.
WaitingReaders == {i \in asleep : pc[i] = "read"}
WaitingWriters == {i \in asleep : pc[i] \in {"write", "upgrade"}}

Init ==
    /\ m_canRead = TRUE /\ m_numReaders = 0 /\ m_numWriters = 0
    /\ readCount = [i \in Ids |-> 0] /\ writeCount = [i \in Ids |-> 0]
    /\ pc = [i \in Ids |-> "idle"]
    /\ asleep = {} /\ patient = {}

\* Call p of id i blocks; the timeout is chosen when the call first waits.
Sleep(i, p) ==
    /\ pc' = [pc EXCEPT ![i] = p]
    /\ asleep' = asleep \cup {i}
    /\ patient' \in IF pc[i] = "idle" THEN {patient, patient \cup {i}} ELSE {patient}

Return(i) ==
    /\ pc' = [pc EXCEPT ![i] = "idle"]
    /\ patient' = patient \ {i}

\* Id i may look at the lock: it enters call p, or was woken in it.
Trying(i, p) == i \notin asleep /\ (pc[i] = p \/ (pc[i] = "idle" /\ ~Holds(i)))

TimesOut(i, p) == pc[i] = p /\ i \in asleep \ patient

(***************************************************************************)
(* acquireReadLock() and releaseReadLock()                                 *)
(***************************************************************************)
\* An id that has any lock only counts.
ReadAgain(i) ==
    /\ pc[i] = "idle" /\ Holds(i) /\ readCount[i] < MaxHeld
    /\ readCount' = [readCount EXCEPT ![i] = @ + 1]
    /\ UNCHANGED <<counters, writeCount, pc, asleep, patient>>

\* Variant: m_canRead alone is trusted to keep readers out.
EnterRead_TrustsFlag(i) ==
    /\ Trying(i, "read") /\ m_canRead
    /\ readCount' = [readCount EXCEPT ![i] = 1]
    /\ m_numReaders' = m_numReaders + 1
    /\ Return(i)
    /\ UNCHANGED <<m_canRead, m_numWriters, writeCount, asleep>>

EnterRead(i) ==
    /\ Trying(i, "read") /\ m_canRead /\ m_numWriters = 0
    /\ readCount' = [readCount EXCEPT ![i] = 1]
    /\ m_numReaders' = m_numReaders + 1
    /\ Return(i)
    /\ UNCHANGED <<m_canRead, m_numWriters, writeCount, asleep>>

SleepForRead(i) ==
    /\ Trying(i, "read") /\ (~m_canRead \/ m_numWriters > 0)
    /\ Sleep(i, "read")
    /\ UNCHANGED <<counters, counts>>

ReadTimesOut(i) ==
    /\ TimesOut(i, "read")
    /\ asleep' = asleep \ {i}
    /\ Return(i)
    /\ UNCHANGED <<counters, counts>>

\* Variant: the last reader wakes one writer only, not necessarily the upgrader.
ReleaseRead_NotifiesOne(i) ==
    /\ pc[i] = "idle" /\ isReader(i)
    /\ readCount' = [readCount EXCEPT ![i] = @ - 1]
    /\ IF readCount[i] = 1 /\ ~isWriter(i)
       THEN /\ m_numReaders' = m_numReaders - 1
            /\ IF m_numReaders = 1 /\ WaitingWriters # {}
               THEN \E j \in WaitingWriters : asleep' = asleep \ {j}
               ELSE UNCHANGED asleep
       ELSE UNCHANGED <<m_numReaders, asleep>>
    /\ UNCHANGED <<m_canRead, m_numWriters, writeCount, pc, patient>>

\* Variant: a writer that gives up its read lock is counted out as a reader.
ReleaseRead_CountsWriter(i) ==
    /\ pc[i] = "idle" /\ isReader(i)
    /\ readCount' = [readCount EXCEPT ![i] = @ - 1]
    /\ IF readCount[i] = 1
       THEN /\ m_numReaders' = m_numReaders - 1
            /\ asleep' = IF m_numReaders = 1 THEN asleep \ WaitingWriters ELSE asleep
       ELSE UNCHANGED <<m_numReaders, asleep>>
    /\ UNCHANGED <<m_canRead, m_numWriters, writeCount, pc, patient>>

\* The last reader to leave wakes all the writers that wait, the upgrading one too.
ReleaseRead(i) ==
    /\ pc[i] = "idle" /\ isReader(i)
    /\ readCount' = [readCount EXCEPT ![i] = @ - 1]
    /\ IF readCount[i] = 1 /\ ~isWriter(i)
       THEN /\ m_numReaders' = m_numReaders - 1
            /\ asleep' = IF m_numReaders = 1 THEN asleep \ WaitingWriters ELSE asleep
       ELSE UNCHANGED <<m_numReaders, asleep>>
    /\ UNCHANGED <<m_canRead, m_numWriters, writeCount, pc, patient>>

(***************************************************************************)
(* acquireWriteLock() of an id that has a lock                             *)
(***************************************************************************)
WriteAgain(i) ==
    /\ pc[i] = "idle" /\ isWriter(i) /\ writeCount[i] < MaxHeld
    /\ writeCount' = [writeCount EXCEPT ![i] = @ + 1]
    /\ UNCHANGED <<counters, readCount, pc, asleep, patient>>

\* A reader becomes a writer: refused while another id upgrades. The other
\* readers are waited for.
StartUpgrade(i) ==
    /\ pc[i] = "idle" /\ isReader(i) /\ ~isWriter(i)
    /\ m_numWriters # 1
    /\ m_numReaders' = m_numReaders - 1
    /\ m_numWriters' = m_numWriters + 1
    /\ IF m_numReaders = 1
       THEN /\ writeCount' = [writeCount EXCEPT ![i] = 1]
            /\ UNCHANGED <<m_canRead, pc, asleep, patient>>
       ELSE /\ m_canRead' = FALSE
            /\ Sleep(i, "upgrade")
            /\ UNCHANGED writeCount
    /\ UNCHANGED readCount

\* The loop of the upgrade after a wakeup.
RetryUpgrade(i) ==
    /\ pc[i] = "upgrade" /\ i \notin asleep
    /\ IF m_numReaders = 0
       THEN /\ writeCount' = [writeCount EXCEPT ![i] = 1]
            /\ Return(i)
            /\ UNCHANGED <<m_canRead, asleep>>
       ELSE /\ m_canRead' = FALSE
            /\ Sleep(i, "upgrade")
            /\ UNCHANGED writeCount
    /\ UNCHANGED <<m_numReaders, m_numWriters, readCount>>

\* Variant: the timeout does not make the id a reader again.
UpgradeTimesOut_ForgetsReader(i) ==
    /\ TimesOut(i, "upgrade")
    /\ m_numWriters' = m_numWriters - 1
    /\ m_canRead' = TRUE
    /\ asleep' = (asleep \ {i}) \ (IF m_numWriters = 1 THEN WaitingReaders ELSE {})
    /\ Return(i)
    /\ UNCHANGED <<m_numReaders, counts>>

UpgradeTimesOut(i) ==
    /\ TimesOut(i, "upgrade")
    /\ m_numReaders' = m_numReaders + 1
    /\ m_numWriters' = m_numWriters - 1
    /\ m_canRead' = TRUE
    /\ asleep' = (asleep \ {i}) \ (IF m_numWriters = 1 THEN WaitingReaders ELSE {})
    /\ Return(i)
    /\ UNCHANGED counts

(***************************************************************************)
(* acquireWriteLock() of an id without a lock, and releaseWriteLock()      *)
(***************************************************************************)
EnterWrite(i) ==
    /\ Trying(i, "write") /\ m_numReaders = 0 /\ m_numWriters = 0
    /\ writeCount' = [writeCount EXCEPT ![i] = 1]
    /\ m_numWriters' = m_numWriters + 1
    /\ m_canRead' = FALSE
    /\ Return(i)
    /\ UNCHANGED <<m_numReaders, readCount, asleep>>

SleepForWrite(i) ==
    /\ Trying(i, "write") /\ (m_numReaders # 0 \/ m_numWriters # 0)
    /\ m_canRead' = FALSE
    /\ Sleep(i, "write")
    /\ UNCHANGED <<m_numReaders, m_numWriters, counts>>

\* Variant: the readers that were held back are not woken.
WriteTimesOut_Silently(i) ==
    /\ TimesOut(i, "write")
    /\ m_canRead' = TRUE
    /\ asleep' = asleep \ {i}
    /\ Return(i)
    /\ UNCHANGED <<m_numReaders, m_numWriters, counts>>

\* Readers are let in again, even if another writer still waits.
WriteTimesOut(i) ==
    /\ TimesOut(i, "write")
    /\ m_canRead' = TRUE
    /\ asleep' = (asleep \ {i}) \ (IF m_numWriters = 0 THEN WaitingReaders ELSE {})
    /\ Return(i)
    /\ UNCHANGED <<m_numReaders, m_numWriters, counts>>

\* notifyOne() for the writers only if the id holds no read lock any more,
\* notifyAll() for the readers in any case.
ReleaseWrite(i) ==
    /\ pc[i] = "idle" /\ isWriter(i)
    /\ writeCount' = [writeCount EXCEPT ![i] = @ - 1]
    /\ IF writeCount[i] > 1
       THEN UNCHANGED <<counters, asleep>>
       ELSE /\ m_numWriters' = m_numWriters - 1
            /\ m_canRead' = TRUE
            /\ m_numReaders' = IF isReader(i) THEN m_numReaders + 1 ELSE m_numReaders
            /\ IF isReader(i) \/ WaitingWriters = {}
               THEN asleep' = asleep \ WaitingReaders
               ELSE \E j \in WaitingWriters : asleep' = asleep \ (WaitingReaders \cup {j})
    /\ UNCHANGED <<readCount, pc, patient>>

(***************************************************************************)
(* The specification                                                       *)
(***************************************************************************)
SpuriousWakeup(i) ==
    /\ i \in asleep
    /\ asleep' = asleep \ {i}
    /\ UNCHANGED <<counters, counts, pc, patient>>

Acquire(i) ==
    \/ ReadAgain(i) \/ EnterRead(i) \/ SleepForRead(i)
    \/ WriteAgain(i) \/ StartUpgrade(i) \/ EnterWrite(i) \/ SleepForWrite(i)

Release(i) == ReleaseRead(i) \/ ReleaseWrite(i)

TimeOut(i) == ReadTimesOut(i) \/ UpgradeTimesOut(i) \/ WriteTimesOut(i)

Next == \E i \in Ids :
    Acquire(i) \/ RetryUpgrade(i) \/ Release(i) \/ TimeOut(i) \/ SpuriousWakeup(i)

Spec == Init /\ [][Next]_vars

\* The steps that id i takes without calling anything new.
Proceed(i) ==
    \/ pc[i] = "read"  /\ (EnterRead(i) \/ SleepForRead(i))
    \/ pc[i] = "write" /\ (EnterWrite(i) \/ SleepForWrite(i))
    \/ RetryUpgrade(i) \/ TimeOut(i)

\* The scheduler runs every thread, and whoever holds a lock releases it in the end.
FairSpec == Spec /\ \A i \in Ids : WF_vars(Proceed(i)) /\ WF_vars(Release(i))

(***************************************************************************)
(* Properties                                                              *)
(***************************************************************************)
\* Every variable keeps its type; the unsigned counters do not wrap.
TypeOK ==
    /\ m_canRead \in BOOLEAN /\ m_numReaders \in Nat /\ m_numWriters \in Nat
    /\ readCount \in [Ids -> Nat] /\ writeCount \in [Ids -> Nat]
    /\ pc \in [Ids -> {"idle", "read", "write", "upgrade"}]
    /\ asleep \subseteq Ids /\ patient \subseteq Ids

\* A writer is alone: no other id has a read or a write lock, in spite of
\* recursion, of an upgrade that waits, and of timeouts that undo one.
LockIsExclusive == \A i, j \in Ids : isWriter(i) /\ i # j => ~Holds(j)

\* The ids that only read, and the writer together with the upgrading id.
Readers == {i \in Ids : isReader(i) /\ ~isWriter(i) /\ pc[i] # "upgrade"}
Writers == {i \in Ids : isWriter(i) \/ pc[i] = "upgrade"}

\* The counters on which every decision of the lock rests are exact, so that the
\* assertions of the code on m_numWriters hold.
CountersAreExact ==
    /\ m_numReaders = Cardinality(Readers)
    /\ m_numWriters = Cardinality(Writers) /\ m_numWriters <= 1

\* No wakeup is lost: an id sleeps only while something keeps it out or, for a
\* writer that was not the one notified, while another writer is awake; and
\* readers are kept out only on behalf of a writer.
WaitersArePending ==
    /\ WaitingReaders # {} => ~m_canRead \/ m_numWriters > 0
    /\ WaitingWriters # {} => \/ m_numReaders + m_numWriters > 0
                              \/ \E i \in Ids \ asleep : pc[i] = "write"
    /\ \A i \in WaitingWriters : pc[i] = "upgrade" => m_numReaders > 0
    /\ ~m_canRead => \E i \in Ids : isWriter(i) \/ pc[i] \in {"write", "upgrade"}

\* Where an id is in a call fits what it holds: only a reader upgrades, only an
\* id without a lock waits to enter, and nobody sleeps outside a call.
CallsFitLocks ==
    \A i \in Ids :
        /\ pc[i] \in {"read", "write"} => ~Holds(i)
        /\ pc[i] = "upgrade" => isReader(i) /\ ~isWriter(i)
        /\ i \in asleep => pc[i] # "idle"

\* The inductive invariant: exclusion follows from the counters, and the
\* counters stay exact because of exclusion.
LockInv ==
    TypeOK /\ CallsFitLocks /\ CountersAreExact /\ LockIsExclusive /\ WaitersArePending

\* No id that is in no call acquires anything.
NoNewCall ==
    \A i \in Ids : pc[i] = "idle" => /\ pc'[i] = "idle"
                                     /\ readCount'[i] <= readCount[i]
                                     /\ writeCount'[i] <= writeCount[i]

\* Every acquire returns, with the lock or by a timeout, once no new calls are
\* made: the ids that wait cannot wait for each other.
AcquiresReturn ==
    <>[][NoNewCall]_vars => \A i \in Ids : pc[i] # "idle" ~> pc[i] = "idle"
=============================================================================
