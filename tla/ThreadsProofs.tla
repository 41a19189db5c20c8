---------------------------- MODULE ThreadsProofs ----------------------------
(***************************************************************************)
(* Proofs about what synchronises threads: the read/write lock, for any    *)
(* number of ids and any depth of nesting, and, each under the name that   *)
(* MCThreads gives it, the queue, the barrier, the counter and the         *)
(* semaphore, for any set of threads, any size and any number of calls.    *)
(***************************************************************************)
EXTENDS MCThreads, FiniteSetTheorems, TLAPS

(***************************************************************************)
(* The counters                                                            *)
(***************************************************************************)
\* What the counters say about the sets they count.
LEMMA CountersCount ==
    ASSUME CountersAreExact
    PROVE  /\ IsFiniteSet(Readers) /\ IsFiniteSet(Writers)
           /\ m_numReaders \in Nat /\ m_numWriters \in Nat
           /\ m_numReaders = 0 <=> Readers = {}
           /\ m_numWriters = 0 <=> Writers = {}
           /\ \A i, j \in Writers : i = j
<1>1. IsFiniteSet(Readers) /\ IsFiniteSet(Writers)
  BY LockAssumption, FS_Subset DEF Readers, Writers
<1>2. /\ m_numReaders = 0 <=> Readers = {}
      /\ m_numWriters = 0 <=> Writers = {}
      /\ m_numReaders \in Nat /\ m_numWriters \in Nat
  BY <1>1, FS_EmptySet, FS_CardinalityType DEF CountersAreExact
<1>3. ASSUME NEW i \in Writers, NEW j \in Writers, i # j
      PROVE  FALSE
  <2>1. /\ IsFiniteSet(Writers \ {i})
        /\ Cardinality(Writers \ {i}) = Cardinality(Writers) - 1
    BY <1>1, FS_RemoveElement
  <2>2. Cardinality(Writers \ {i}) = 0
    BY <1>2, <2>1 DEF CountersAreExact
  <2>3. QED  BY <1>3, <2>1, <2>2, FS_EmptySet
<1>4. QED  BY <1>1, <1>2, <1>3

\* A step that moves at most one id in or out of a counted set, and counts it.
LEMMA CountersFollow ==
    ASSUME CountersAreExact, NEW i \in Ids,
           \/ Readers' = Readers /\ m_numReaders' = m_numReaders
           \/ i \notin Readers /\ Readers' = Readers \cup {i} /\ m_numReaders' = m_numReaders + 1
           \/ i \in Readers /\ Readers' = Readers \ {i} /\ m_numReaders' = m_numReaders - 1,
           \/ Writers' = Writers /\ m_numWriters' = m_numWriters
           \/ m_numWriters = 0 /\ Writers' = {i} /\ m_numWriters' = m_numWriters + 1
           \/ i \in Writers /\ Writers' = Writers \ {i} /\ m_numWriters' = m_numWriters - 1
    PROVE  /\ CountersAreExact'
           /\ m_numReaders' \in Nat /\ m_numWriters' \in Nat
<1>1. IsFiniteSet(Readers) /\ IsFiniteSet(Writers)
  BY CountersCount
<1>2. m_numReaders' = Cardinality(Readers')
  BY <1>1, FS_AddElement, FS_RemoveElement DEF CountersAreExact
<1>3. m_numWriters' = Cardinality(Writers') /\ m_numWriters' <= 1
  <2>1. m_numWriters \in Nat /\ m_numWriters = Cardinality(Writers) /\ m_numWriters <= 1
    BY <1>1, FS_CardinalityType DEF CountersAreExact
  <2>2. CASE Writers' = Writers /\ m_numWriters' = m_numWriters
    BY <2>1, <2>2
  <2>3. CASE m_numWriters = 0 /\ Writers' = {i} /\ m_numWriters' = m_numWriters + 1
    <3>1. Cardinality({i}) = 1
      BY FS_Singleton
    <3>2. QED  BY <2>3, <3>1
  <2>4. CASE i \in Writers /\ Writers' = Writers \ {i} /\ m_numWriters' = m_numWriters - 1
    <3>1. Cardinality(Writers \ {i}) = Cardinality(Writers) - 1
      BY <1>1, <2>4, FS_RemoveElement
    <3>2. QED  BY <2>1, <2>4, <3>1
  <2>5. QED  BY <2>2, <2>3, <2>4
<1>4. IsFiniteSet(Readers') /\ IsFiniteSet(Writers')
  BY LockAssumption, FS_Subset DEF Readers, Writers
<1>5. QED  BY <1>2, <1>3, <1>4, FS_CardinalityType DEF CountersAreExact

(***************************************************************************)
(* The steps: each of them preserves the invariant.                        *)
(***************************************************************************)
\* Another read lock of an id that holds a lock.
LEMMA ReadAgainStep ==
    ASSUME LockInv, NEW i \in Ids, ReadAgain(i)
    PROVE  LockInv'
<1>1. /\ Readers' = Readers
      /\ Writers' = Writers
  BY DEF LockInv, ReadAgain, TypeOK, Holds, isReader, isWriter, Readers, Writers
<1>2. CountersAreExact' /\ m_numReaders' \in Nat /\ m_numWriters' \in Nat
  BY <1>1, CountersFollow DEF LockInv, ReadAgain, counters
<1>3. TypeOK' /\ CallsFitLocks'
  BY DEF LockInv, ReadAgain, TypeOK, CallsFitLocks, Holds, isReader, isWriter, counters
<1>4. LockIsExclusive'
  BY DEF LockInv, LockIsExclusive, ReadAgain, Holds, isReader, isWriter
<1>5. WaitersArePending'
  BY DEF LockInv, WaitersArePending, WaitingReaders, WaitingWriters, ReadAgain, isWriter,
     counters
<1>6. QED  BY <1>2, <1>3, <1>4, <1>5 DEF LockInv

\* A new reader is counted in.
LEMMA EnterReadStep ==
    ASSUME LockInv, NEW i \in Ids, EnterRead(i)
    PROVE  LockInv'
<1>1. /\ i \notin Readers /\ Readers' = Readers \cup {i}
      /\ Writers' = Writers
  BY DEF LockInv, EnterRead, Trying, Return, TypeOK, CallsFitLocks, Holds, isReader, isWriter,
     Readers, Writers
<1>2. CountersAreExact' /\ m_numReaders' \in Nat /\ m_numWriters' \in Nat
  BY <1>1, CountersFollow DEF LockInv, EnterRead
<1>3. TypeOK' /\ CallsFitLocks'
  BY DEF LockInv, EnterRead, Trying, Return, TypeOK, CallsFitLocks, Holds, isReader, isWriter
<1>4. LockIsExclusive'
  BY <1>1, CountersCount DEF LockInv, LockIsExclusive, EnterRead, Writers
<1>5. WaitersArePending'
  BY CountersCount DEF LockInv, WaitersArePending, WaitingReaders, EnterRead, Return
<1>6. QED  BY <1>2, <1>3, <1>4, <1>5 DEF LockInv

\* A reader goes to sleep only for a writer that is still to release.
LEMMA SleepForReadStep ==
    ASSUME LockInv, NEW i \in Ids, SleepForRead(i)
    PROVE  LockInv'
<1>1. /\ Readers' = Readers
      /\ Writers' = Writers
  BY DEF SleepForRead, Trying, Sleep, isReader, isWriter, counts, Readers, Writers
<1>2. CountersAreExact' /\ m_numReaders' \in Nat /\ m_numWriters' \in Nat
  BY <1>1, CountersFollow DEF LockInv, SleepForRead, counters
<1>3. TypeOK' /\ CallsFitLocks'
  BY DEF LockInv, SleepForRead, Trying, Sleep, TypeOK, CallsFitLocks, Holds, isReader, isWriter,
     counters, counts
<1>4. LockIsExclusive'
  BY DEF LockInv, LockIsExclusive, SleepForRead, Holds, isReader, isWriter, counts
<1>5. WaitersArePending'
  BY DEF LockInv, WaitersArePending, WaitingWriters, SleepForRead, Trying, Sleep, isWriter,
     counters, counts
<1>6. QED  BY <1>2, <1>3, <1>4, <1>5 DEF LockInv

\* A reader gives up; nothing was counted for it.
LEMMA ReadTimesOutStep ==
    ASSUME LockInv, NEW i \in Ids, ReadTimesOut(i)
    PROVE  LockInv'
<1>1. /\ Readers' = Readers
      /\ Writers' = Writers
  BY DEF ReadTimesOut, TimesOut, Return, isReader, isWriter, counts, Readers, Writers
<1>2. CountersAreExact' /\ m_numReaders' \in Nat /\ m_numWriters' \in Nat
  BY <1>1, CountersFollow DEF LockInv, ReadTimesOut, counters
<1>3. TypeOK' /\ CallsFitLocks'
  BY DEF LockInv, ReadTimesOut, Return, TypeOK, CallsFitLocks, Holds, isReader, isWriter,
     counters, counts
<1>4. LockIsExclusive'
  BY DEF LockInv, LockIsExclusive, ReadTimesOut, Holds, isReader, isWriter, counts
<1>5. WaitersArePending'
  BY DEF LockInv, WaitersArePending, WaitingReaders, WaitingWriters, ReadTimesOut, TimesOut,
     Return, isWriter, counters, counts
<1>6. QED  BY <1>2, <1>3, <1>4, <1>5 DEF LockInv

\* Another write lock of the writer.
LEMMA WriteAgainStep ==
    ASSUME LockInv, NEW i \in Ids, WriteAgain(i)
    PROVE  LockInv'
<1>1. /\ Readers' = Readers
      /\ Writers' = Writers
  BY DEF LockInv, WriteAgain, TypeOK, isReader, isWriter, Readers, Writers
<1>2. CountersAreExact' /\ m_numReaders' \in Nat /\ m_numWriters' \in Nat
  BY <1>1, CountersFollow DEF LockInv, WriteAgain, counters
<1>3. TypeOK' /\ CallsFitLocks'
  BY DEF LockInv, WriteAgain, TypeOK, CallsFitLocks, Holds, isReader, isWriter, counters
<1>4. LockIsExclusive'
  BY DEF LockInv, LockIsExclusive, WriteAgain, Holds, isReader, isWriter
<1>5. WaitersArePending'
  BY DEF LockInv, WaitersArePending, WaitingReaders, WaitingWriters, WriteAgain, TypeOK,
     isWriter, counters
<1>6. QED  BY <1>2, <1>3, <1>4, <1>5 DEF LockInv

\* A reader claims the write lock: it gets it if it is the only reader.
LEMMA StartUpgradeStep ==
    ASSUME LockInv, NEW i \in Ids, StartUpgrade(i)
    PROVE  LockInv'
<1>1. m_numWriters = 0 /\ Writers = {}
  BY CountersCount DEF LockInv, CountersAreExact, StartUpgrade
<1>2. i \in Readers /\ m_numReaders \in Nat \ {0}
  BY CountersCount DEF LockInv, StartUpgrade, Readers
<1>3. CASE m_numReaders = 1
  <2>1. Readers' = Readers \ {i} /\ Writers' = {i}
    BY <1>1, <1>3 DEF LockInv, StartUpgrade, TypeOK, isReader, isWriter, Readers, Writers
  <2>2. CountersAreExact' /\ m_numReaders' \in Nat /\ m_numWriters' \in Nat
    BY <1>1, <1>2, <2>1, CountersFollow DEF LockInv, StartUpgrade
  <2>3. TypeOK' /\ CallsFitLocks'
    BY <1>3 DEF LockInv, StartUpgrade, TypeOK, CallsFitLocks, Holds, isReader, isWriter
  <2>4. Readers \ {i} = {}
    <3>1. Cardinality(Readers) = 1 /\ IsFiniteSet(Readers)
      BY <1>3, CountersCount DEF LockInv, CountersAreExact
    <3>2. IsFiniteSet(Readers \ {i}) /\ Cardinality(Readers \ {i}) = 0
      BY <1>2, <3>1, FS_RemoveElement
    <3>3. QED  BY <3>2, FS_EmptySet
  <2>5. LockIsExclusive'
    BY <2>1, <2>4 DEF LockIsExclusive, Holds, Readers, Writers
  <2>6. WaitersArePending'
    BY <1>1, <1>3 DEF LockInv, WaitersArePending, WaitingWriters, Writers, StartUpgrade, TypeOK
  <2>7. QED  BY <2>2, <2>3, <2>5, <2>6 DEF LockInv
<1>4. CASE m_numReaders # 1
  <2>1. Readers' = Readers \ {i} /\ Writers' = {i}
    BY <1>1 DEF LockInv, StartUpgrade, Sleep, TypeOK, isReader, isWriter, Readers, Writers
  <2>2. CountersAreExact' /\ m_numReaders' \in Nat /\ m_numWriters' \in Nat
    BY <1>1, <1>2, <2>1, CountersFollow DEF LockInv, StartUpgrade
  <2>3. TypeOK' /\ CallsFitLocks'
    <3>1. /\ pc' = [pc EXCEPT ![i] = "upgrade"] /\ asleep' = asleep \cup {i}
          /\ patient' \subseteq Ids /\ m_canRead' = FALSE
          /\ UNCHANGED <<readCount, writeCount>>
      BY <1>4 DEF LockInv, StartUpgrade, Sleep, TypeOK
    <3>2. TypeOK'
      BY <2>2, <3>1 DEF LockInv, TypeOK
    <3>3. CallsFitLocks'
      BY <3>1 DEF LockInv, StartUpgrade, TypeOK, CallsFitLocks, Holds, isReader, isWriter
    <3>4. QED  BY <3>2, <3>3
  <2>4. LockIsExclusive'
    BY <1>4 DEF LockInv, LockIsExclusive, StartUpgrade, Holds, isWriter
  <2>5. WaitersArePending'
    BY <1>4, <2>2 DEF LockInv, WaitersArePending, StartUpgrade, Sleep, TypeOK
  <2>6. QED  BY <2>2, <2>3, <2>4, <2>5 DEF LockInv
<1>5. QED  BY <1>3, <1>4

\* The upgrading id finds the other readers gone, or sleeps again.
LEMMA RetryUpgradeStep ==
    ASSUME LockInv, NEW i \in Ids, RetryUpgrade(i)
    PROVE  LockInv'
<1>1. /\ Readers' = Readers
      /\ Writers' = Writers
  BY DEF LockInv, RetryUpgrade, Sleep, Return, TypeOK, isReader, isWriter, Readers, Writers
<1>2. CountersAreExact' /\ m_numReaders' \in Nat /\ m_numWriters' \in Nat
  BY <1>1, CountersFollow DEF LockInv, RetryUpgrade
<1>3. TypeOK' /\ CallsFitLocks'
  <2>1. CASE m_numReaders = 0
    BY <2>1 DEF LockInv, RetryUpgrade, Return, TypeOK, CallsFitLocks, Holds, isReader, isWriter
  <2>2. CASE m_numReaders # 0
    BY <2>2 DEF LockInv, RetryUpgrade, Sleep, TypeOK, CallsFitLocks, Holds, isReader, isWriter
  <2>3. QED  BY <2>1, <2>2
<1>4. LockIsExclusive'
  BY <1>1, CountersCount DEF LockInv, LockIsExclusive, RetryUpgrade, Holds, isWriter, Readers,
     Writers
<1>5. WaitersArePending'
  BY DEF LockInv, WaitersArePending, WaitingReaders, WaitingWriters, RetryUpgrade, Sleep,
     Return, TypeOK, isWriter
<1>6. QED  BY <1>2, <1>3, <1>4, <1>5 DEF LockInv

\* The claim of an upgrade is undone.
LEMMA UpgradeTimesOutStep ==
    ASSUME LockInv, NEW i \in Ids, UpgradeTimesOut(i)
    PROVE  LockInv'
<1>1. /\ i \notin Readers /\ Readers' = Readers \cup {i}
      /\ i \in Writers /\ Writers' = Writers \ {i}
  BY DEF LockInv, UpgradeTimesOut, TimesOut, Return, TypeOK, CallsFitLocks, isReader, isWriter,
     counts, Readers, Writers
<1>2. CountersAreExact' /\ m_numReaders' \in Nat /\ m_numWriters' \in Nat
  BY <1>1, CountersFollow DEF LockInv, UpgradeTimesOut
<1>3. TypeOK' /\ CallsFitLocks'
  BY <1>2 DEF LockInv, UpgradeTimesOut, Return, TypeOK, CallsFitLocks, Holds, isReader,
     isWriter, counts
<1>4. LockIsExclusive'
  BY DEF LockInv, LockIsExclusive, UpgradeTimesOut, TimesOut, CallsFitLocks, Holds, isWriter,
     counts
<1>5. WaitersArePending'
  BY <1>2, CountersCount DEF LockInv, WaitersArePending, WaitingReaders, UpgradeTimesOut, Return
<1>6. QED  BY <1>2, <1>3, <1>4, <1>5 DEF LockInv

\* A writer enters a free lock.
LEMMA EnterWriteStep ==
    ASSUME LockInv, NEW i \in Ids, EnterWrite(i)
    PROVE  LockInv'
<1>1. /\ Readers' = Readers
      /\ Writers' = {i}
  BY CountersCount DEF LockInv, EnterWrite, Return, TypeOK, isReader, isWriter, Readers, Writers
<1>2. CountersAreExact' /\ m_numReaders' \in Nat /\ m_numWriters' \in Nat
  BY <1>1, CountersFollow DEF LockInv, EnterWrite
<1>3. TypeOK' /\ CallsFitLocks'
  BY <1>2 DEF LockInv, EnterWrite, Trying, Return, TypeOK, CallsFitLocks, Holds, isReader,
     isWriter
<1>4. LockIsExclusive'
  BY <1>1, CountersCount DEF LockInv, LockIsExclusive, EnterWrite, Holds, Readers, Writers
<1>5. WaitersArePending'
  BY DEF LockInv, WaitersArePending, WaitingWriters, EnterWrite, Return, TypeOK, isWriter
<1>6. QED  BY <1>2, <1>3, <1>4, <1>5 DEF LockInv

\* A writer goes to sleep only while somebody holds the lock.
LEMMA SleepForWriteStep ==
    ASSUME LockInv, NEW i \in Ids, SleepForWrite(i)
    PROVE  LockInv'
<1>1. /\ Readers' = Readers
      /\ Writers' = Writers
  BY DEF SleepForWrite, Trying, Sleep, isReader, isWriter, counts, Readers, Writers
<1>2. CountersAreExact' /\ m_numReaders' \in Nat /\ m_numWriters' \in Nat
  BY <1>1, CountersFollow DEF LockInv, SleepForWrite
<1>3. TypeOK' /\ CallsFitLocks'
  BY DEF LockInv, SleepForWrite, Trying, Sleep, TypeOK, CallsFitLocks, Holds, isReader,
     isWriter, counts
<1>4. LockIsExclusive'
  BY DEF LockInv, LockIsExclusive, SleepForWrite, Holds, isReader, isWriter, counts
<1>5. WaitersArePending'
  BY DEF LockInv, WaitersArePending, WaitingWriters, SleepForWrite, Sleep, TypeOK
<1>6. QED  BY <1>2, <1>3, <1>4, <1>5 DEF LockInv

\* A writer gives up and lets the readers in again that it held back.
LEMMA WriteTimesOutStep ==
    ASSUME LockInv, NEW i \in Ids, WriteTimesOut(i)
    PROVE  LockInv'
<1>1. /\ Readers' = Readers
      /\ Writers' = Writers
  BY DEF WriteTimesOut, TimesOut, Return, isReader, isWriter, counts, Readers, Writers
<1>2. CountersAreExact' /\ m_numReaders' \in Nat /\ m_numWriters' \in Nat
  BY <1>1, CountersFollow DEF LockInv, WriteTimesOut
<1>3. TypeOK' /\ CallsFitLocks'
  BY DEF LockInv, WriteTimesOut, Return, TypeOK, CallsFitLocks, Holds, isReader, isWriter,
     counts
<1>4. LockIsExclusive'
  BY DEF LockInv, LockIsExclusive, WriteTimesOut, Holds, isReader, isWriter, counts
<1>5. WaitersArePending'
  BY CountersCount DEF LockInv, WaitersArePending, WaitingReaders, WaitingWriters,
     WriteTimesOut, TimesOut, Return
<1>6. QED  BY <1>2, <1>3, <1>4, <1>5 DEF LockInv

\* A sleeper wakes for no reason.
LEMMA SpuriousWakeupStep ==
    ASSUME LockInv, NEW i \in Ids, SpuriousWakeup(i)
    PROVE  LockInv'
<1>1. /\ Readers' = Readers
      /\ Writers' = Writers
  BY DEF SpuriousWakeup, isReader, isWriter, counts, Readers, Writers
<1>2. CountersAreExact' /\ m_numReaders' \in Nat /\ m_numWriters' \in Nat
  BY <1>1, CountersFollow DEF LockInv, SpuriousWakeup, counters
<1>3. TypeOK' /\ CallsFitLocks'
  BY DEF LockInv, SpuriousWakeup, TypeOK, CallsFitLocks, Holds, isReader, isWriter, counters,
     counts
<1>4. LockIsExclusive'
  BY DEF LockInv, LockIsExclusive, SpuriousWakeup, Holds, isReader, isWriter, counts
<1>5. WaitersArePending'
  BY DEF LockInv, WaitersArePending, WaitingReaders, WaitingWriters, SpuriousWakeup, isWriter,
     counters, counts
<1>6. QED  BY <1>2, <1>3, <1>4, <1>5 DEF LockInv

\* A read lock is released; the last reader wakes every writer.
LEMMA ReleaseReadStep ==
    ASSUME LockInv, NEW i \in Ids, ReleaseRead(i)
    PROVE  LockInv'
<1>1. CASE readCount[i] = 1 /\ ~isWriter(i)
  <2>1. i \in Readers /\ Readers' = Readers \ {i} /\ Writers' = Writers
    BY <1>1 DEF LockInv, ReleaseRead, TypeOK, isReader, isWriter, Readers, Writers
  <2>2. m_numReaders' = m_numReaders - 1 /\ m_numWriters' = m_numWriters
    BY <1>1 DEF ReleaseRead
  <2>3. CountersAreExact' /\ m_numReaders' \in Nat /\ m_numWriters' \in Nat
    BY <2>1, <2>2, CountersFollow DEF LockInv
  <2>4. TypeOK' /\ CallsFitLocks'
    BY <2>3 DEF LockInv, ReleaseRead, TypeOK, CallsFitLocks, Holds, isReader, isWriter
  <2>5. LockIsExclusive'
    BY <1>1 DEF LockInv, LockIsExclusive, ReleaseRead, Holds, isWriter
  <2>6. WaitersArePending'
    BY <2>2, <2>3 DEF LockInv, WaitersArePending, WaitingReaders, WaitingWriters, ReleaseRead,
       TypeOK, isWriter
  <2>7. QED  BY <2>3, <2>4, <2>5, <2>6 DEF LockInv
<1>2. CASE ~(readCount[i] = 1 /\ ~isWriter(i))
  <2>1. Readers' = Readers /\ Writers' = Writers
    BY <1>2 DEF LockInv, ReleaseRead, TypeOK, isReader, isWriter, Readers, Writers
  <2>2. CountersAreExact' /\ m_numReaders' \in Nat /\ m_numWriters' \in Nat
    BY <1>2, <2>1, CountersFollow DEF LockInv, ReleaseRead
  <2>3. TypeOK' /\ CallsFitLocks'
    BY <2>2 DEF LockInv, ReleaseRead, TypeOK, CallsFitLocks, Holds, isReader, isWriter
  <2>4. LockIsExclusive'
    BY DEF LockInv, LockIsExclusive, ReleaseRead, Holds, isReader, isWriter
  <2>5. WaitersArePending'
    BY <1>2 DEF LockInv, WaitersArePending, WaitingReaders, WaitingWriters, ReleaseRead,
       isWriter
  <2>6. QED  BY <2>2, <2>3, <2>4, <2>5 DEF LockInv
<1>3. QED  BY <1>1, <1>2

\* A write lock is released; one writer is woken unless the id still reads.
LEMMA ReleaseWriteStep ==
    ASSUME LockInv, NEW i \in Ids, ReleaseWrite(i)
    PROVE  LockInv'
<1>1. /\ i \in Writers /\ i \notin Readers /\ Writers = {i}
      /\ m_numWriters = 1 /\ m_numReaders \in Nat
  BY CountersCount DEF LockInv, CountersAreExact, ReleaseWrite, Readers, Writers
<1>2. CASE writeCount[i] > 1
  <2>1. Readers' = Readers /\ Writers' = Writers
    BY <1>2 DEF LockInv, ReleaseWrite, TypeOK, isReader, isWriter, Readers, Writers
  <2>2. CountersAreExact' /\ m_numReaders' \in Nat /\ m_numWriters' \in Nat
    BY <1>2, <2>1, CountersFollow DEF LockInv, ReleaseWrite, counters
  <2>3. TypeOK' /\ CallsFitLocks'
    BY <1>2 DEF LockInv, ReleaseWrite, TypeOK, CallsFitLocks, Holds, isReader, isWriter,
       counters
  <2>4. LockIsExclusive'
    BY DEF LockInv, LockIsExclusive, ReleaseWrite, Holds, isReader, isWriter
  <2>5. WaitersArePending'
    BY <1>2 DEF LockInv, WaitersArePending, WaitingReaders, WaitingWriters, ReleaseWrite,
       TypeOK, isWriter, counters
  <2>6. QED  BY <2>2, <2>3, <2>4, <2>5 DEF LockInv
<1>3. CASE ~(writeCount[i] > 1)
  <2>1. /\ writeCount[i] = 1 /\ ~isWriter(i)'
        /\ m_numWriters' = 0 /\ m_canRead' = TRUE
        /\ asleep' \subseteq asleep /\ WaitingReaders' = {}
    BY <1>1, <1>3 DEF LockInv, ReleaseWrite, TypeOK, isWriter, WaitingReaders
  <2>2. /\ Writers' = Writers \ {i}
        /\ Readers' = IF isReader(i) THEN Readers \cup {i} ELSE Readers
    BY <2>1 DEF ReleaseWrite, isReader, isWriter, Readers, Writers
  <2>3. CountersAreExact' /\ m_numReaders' \in Nat /\ m_numWriters' \in Nat
    BY <1>1, <2>1, <2>2, CountersFollow DEF LockInv, ReleaseWrite
  <2>4. TypeOK' /\ CallsFitLocks'
    BY <2>1 DEF LockInv, ReleaseWrite, TypeOK, CallsFitLocks, Holds, isReader, isWriter
  <2>5. LockIsExclusive'
    BY <2>1 DEF LockInv, LockIsExclusive, ReleaseWrite, Holds, isWriter
  <2>6. WaitersArePending'
    <3>1. ASSUME NEW j \in WaitingWriters  PROVE pc[j] = "write"
      BY <1>1 DEF LockInv, ReleaseWrite, WaitingWriters, TypeOK, Writers
    <3>2. WaitingWriters' \subseteq WaitingWriters
      BY DEF ReleaseWrite, WaitingWriters
    <3>3. WaitingWriters' # {} => \/ m_numReaders' + m_numWriters' > 0
                                 \/ \E j \in Ids \ asleep' : pc'[j] = "write"
      <4>1. CASE isReader(i)
        BY <1>1, <2>1, <4>1 DEF ReleaseWrite
      <4>2. CASE WaitingWriters = {}
        BY <3>2, <4>2
      <4>3. CASE ~isReader(i) /\ WaitingWriters # {}
        BY <1>3, <3>1, <4>3 DEF LockInv, TypeOK, ReleaseWrite, WaitingWriters
      <4>4. QED  BY <4>1, <4>2, <4>3
    <3>4. \A j \in WaitingWriters' : pc'[j] # "upgrade"
      BY <3>1, <3>2 DEF ReleaseWrite
    <3>5. QED  BY <2>1, <3>3, <3>4 DEF WaitersArePending
  <2>7. QED  BY <2>3, <2>4, <2>5, <2>6 DEF LockInv
<1>4. QED  BY <1>2, <1>3

\* The invariant holds when the lock is built.
LEMMA InitLock == Init => LockInv
<1>1. ASSUME Init  PROVE Readers = {} /\ Writers = {}
  BY <1>1 DEF Init, Readers, Writers, isReader, isWriter
<1>2. Cardinality({}) = 0
  BY FS_EmptySet
<1>3. Init => TypeOK /\ CallsFitLocks /\ LockIsExclusive
  BY DEF Init, TypeOK, CallsFitLocks, LockIsExclusive, isWriter
<1>4. Init => CountersAreExact
  BY <1>1, <1>2 DEF Init, CountersAreExact
<1>5. Init => WaitersArePending
  BY DEF Init, WaitersArePending, WaitingReaders, WaitingWriters
<1>6. QED  BY <1>3, <1>4, <1>5 DEF LockInv

\* Every call, wakeup and timeout preserves it.
LEMMA NextLock == LockInv /\ [Next]_vars => LockInv'
<1>1. SUFFICES ASSUME LockInv, [Next]_vars
               PROVE  LockInv'
  OBVIOUS
<1>2. CASE UNCHANGED vars
  <2>1. CountersAreExact' /\ LockIsExclusive'
    BY <1>1, <1>2 DEF LockInv, CountersAreExact, Readers, Writers, LockIsExclusive, Holds,
       isReader, isWriter, vars, counters, counts
  <2>2. TypeOK' /\ CallsFitLocks'
    BY <1>1, <1>2 DEF LockInv, TypeOK, CallsFitLocks, Holds, isReader, isWriter, vars,
       counters, counts
  <2>3. WaitersArePending'
    BY <1>1, <1>2 DEF LockInv, WaitersArePending, WaitingReaders, WaitingWriters, isWriter,
       vars, counters, counts
  <2>4. QED  BY <2>1, <2>2, <2>3 DEF LockInv
<1>3. ASSUME NEW i \in Ids,
             Acquire(i) \/ RetryUpgrade(i) \/ Release(i) \/ TimeOut(i) \/ SpuriousWakeup(i)
      PROVE  LockInv'
  <2>1. CASE Acquire(i)
    BY <1>1, <2>1, ReadAgainStep, EnterReadStep, SleepForReadStep, WriteAgainStep,
       StartUpgradeStep, EnterWriteStep, SleepForWriteStep DEF Acquire
  <2>2. CASE Release(i)
    BY <1>1, <2>2, ReleaseReadStep, ReleaseWriteStep DEF Release
  <2>3. CASE TimeOut(i)
    BY <1>1, <2>3, ReadTimesOutStep, UpgradeTimesOutStep, WriteTimesOutStep DEF TimeOut
  <2>4. QED  BY <1>1, <1>3, <2>1, <2>2, <2>3, RetryUpgradeStep, SpuriousWakeupStep
<1>4. QED  BY <1>1, <1>2, <1>3 DEF Next

(***************************************************************************)
(* The theorems                                                            *)
(***************************************************************************)
\* The invariant holds initially and every step preserves it.
THEOREM LockInvariant == Spec => []LockInv
  BY InitLock, NextLock, PTL DEF Spec

\* A writer is alone, whatever recursion, upgrades and timeouts led to it.
THEOREM Exclusion == Spec => []LockIsExclusive
<1>1. LockInv => LockIsExclusive
  BY DEF LockInv
<1>2. QED  BY <1>1, LockInvariant, PTL

\* The unsigned counters never wrap, and the assertions on m_numWriters hold.
THEOREM Counters == Spec => [](TypeOK /\ CountersAreExact)
<1>1. LockInv => TypeOK /\ CountersAreExact
  BY DEF LockInv
<1>2. QED  BY <1>1, LockInvariant, PTL

\* No notification is missing and no one notified thread is the wrong one.
THEOREM NoLostWakeup == Spec => []WaitersArePending
<1>1. LockInv => WaitersArePending
  BY DEF LockInv
<1>2. QED  BY <1>1, LockInvariant, PTL

\* Each component counts sets as everybody does.
LEMMA SizesAreSizes ==
    ASSUME NEW S
    PROVE  /\ Queue!Cardinality(S) = Cardinality(S)
           /\ Barrier!Cardinality(S) = Cardinality(S)
           /\ Counter!Cardinality(S) = Cardinality(S)
<1>1. Queue!Cardinality(S) = Cardinality(S)
  BY DEF Queue!Cardinality, Cardinality
<1>2. Barrier!Cardinality(S) = Cardinality(S)
  BY DEF Barrier!Cardinality, Cardinality
<1>3. Counter!Cardinality(S) = Cardinality(S)
  BY DEF Counter!Cardinality, Cardinality
<1>4. QED  BY <1>1, <1>2, <1>3


(***************************************************************************)
(* The queue.  Every thread may push and pop: the counters of blocked      *)
(* calls never drift or wrap below zero, and the bound holds though        *)
(* notifyOne() may wake anybody and wakeups may be spurious.               *)
(***************************************************************************)
QueueAssumption == IsFiniteSet(ThreadSet) /\ MaxQueueSize \in Nat

\* The threads blocked in one of the calls, woken or not.
Blocked(call) == {t \in Queue!Threads : qpc[t] = call}

QueueInv == Queue!TypeOK /\ Queue!QueueWithinBound

\* The counters that a thread finds when it has left its own entry behind.
LEMMA OthersAreCounted ==
    ASSUME QueueAssumption, Queue!TypeOK, NEW t \in Queue!Threads
    PROVE  /\ Queue!OtherPushesBlocked(t) = Cardinality(Blocked("push") \ {t})
           /\ Queue!OtherPopsBlocked(t) = Cardinality(Blocked("pop") \ {t})
<1>1. /\ IsFiniteSet(Blocked("push")) /\ IsFiniteSet(Blocked("pop"))
      /\ m_pushesBlocked = Cardinality(Blocked("push"))
      /\ m_popsBlocked = Cardinality(Blocked("pop"))
  BY FS_Subset, SizesAreSizes DEF QueueAssumption, Queue!Threads, Queue!TypeOK, Blocked
<1>2. Queue!OtherPushesBlocked(t) = Cardinality(Blocked("push") \ {t})
  <2>1. CASE qpc[t] = "push"
    <3>1. t \in Blocked("push")
      BY <2>1 DEF Blocked
    <3>2. Cardinality(Blocked("push") \ {t}) = Cardinality(Blocked("push")) - 1
      BY <1>1, <3>1, FS_RemoveElement
    <3>3. QED  BY <1>1, <2>1, <3>2 DEF Queue!OtherPushesBlocked
  <2>2. CASE qpc[t] # "push"
    <3>1. Blocked("push") \ {t} = Blocked("push")
      BY <2>2 DEF Blocked
    <3>2. QED  BY <1>1, <2>2, <3>1 DEF Queue!OtherPushesBlocked
  <2>3. QED  BY <2>1, <2>2
<1>3. Queue!OtherPopsBlocked(t) = Cardinality(Blocked("pop") \ {t})
  <2>1. CASE qpc[t] = "pop"
    <3>1. t \in Blocked("pop")
      BY <2>1 DEF Blocked
    <3>2. Cardinality(Blocked("pop") \ {t}) = Cardinality(Blocked("pop")) - 1
      BY <1>1, <3>1, FS_RemoveElement
    <3>3. QED  BY <1>1, <2>1, <3>2 DEF Queue!OtherPopsBlocked
  <2>2. CASE qpc[t] # "pop"
    <3>1. Blocked("pop") \ {t} = Blocked("pop")
      BY <2>2 DEF Blocked
    <3>2. QED  BY <1>1, <2>2, <3>1 DEF Queue!OtherPopsBlocked
  <2>3. QED  BY <2>1, <2>2
<1>4. QED  BY <1>2, <1>3

\* A thread that goes to a wait, or leaves its call, is counted once or not at all.
LEMMA OneEntryEach ==
    ASSUME QueueAssumption, Queue!TypeOK, NEW t \in Queue!Threads,
           NEW x \in {"idle", "push", "pop"}, NEW call \in {"push", "pop"},
           qpc' = [qpc EXCEPT ![t] = x]
    PROVE  Cardinality(Blocked(call)') = IF x = call THEN Cardinality(Blocked(call) \ {t}) + 1
                                                     ELSE Cardinality(Blocked(call) \ {t})
<1>1. IsFiniteSet(Blocked(call) \ {t})
  BY FS_Subset DEF QueueAssumption, Queue!Threads, Blocked
<1>2. Blocked(call)' = IF x = call THEN (Blocked(call) \ {t}) \cup {t} ELSE Blocked(call) \ {t}
  BY SizesAreSizes DEF Queue!TypeOK, Blocked
<1>3. Cardinality((Blocked(call) \ {t}) \cup {t}) = Cardinality(Blocked(call) \ {t}) + 1
  BY <1>1, FS_AddElement
<1>4. QED  BY <1>2, <1>3

\* What a thread notifies is one of the sleepers.
LEMMA NotifiedAreSleepers ==
    ASSUME Queue!TypeOK,
           \/ Queue!NotifyOneIf(m_pushesBlocked > 0)
           \/ Queue!NotifyOneIf(m_popsBlocked > 0)
    PROVE  qAsleep' \subseteq Queue!Threads
  BY SizesAreSizes DEF Queue!TypeOK, Queue!NotifyOneIf

\* The push and the pop, of a thread that has just come or has been woken for it: in
\* both cases the size is compared under the lock that the operation keeps.
LEMMA StepIsSound ==
    ASSUME QueueAssumption, QueueInv, NEW t \in Queue!Threads, Queue!Step(t)
    PROVE  QueueInv'
<1> USE DEF QueueInv
<1>1. CASE Queue!BlockPush(t)
  <2>1. m_pushesBlocked' = Cardinality(Blocked("push")')
    BY <1>1, OthersAreCounted, OneEntryEach DEF Queue!BlockPush
  <2>2. t \in Queue!Threads /\ qpc[t] \in {"idle", "push"} /\ qpc' = [qpc EXCEPT ![t] = "push"]
    BY <1>1 DEF Queue!BlockPush, Queue!Pushing
  <2>3. m_popsBlocked' = Cardinality(Blocked("pop")')
    <3>1. Blocked("pop")' = Blocked("pop")
      BY <2>2, SizesAreSizes DEF Queue!TypeOK, Blocked
    <3>2. QED  BY <1>1, <3>1, SizesAreSizes DEF Queue!BlockPush, Queue!TypeOK, Blocked
  <2>4. QED  BY <1>1, <2>1, <2>2, <2>3, SizesAreSizes DEF Queue!BlockPush, Queue!TypeOK,
                Blocked, Queue!QueueWithinBound, Queue!Threads
<1>2. CASE Queue!PushBack(t)
  <2>1. qpc[t] \in {"idle", "push"} /\ qpc' = [qpc EXCEPT ![t] = "idle"]
    BY <1>2 DEF Queue!PushBack, Queue!Pushing, Queue!Return
  <2>2. m_pushesBlocked' = Cardinality(Blocked("push")')
    BY <1>2, <2>1, OthersAreCounted, OneEntryEach DEF Queue!PushBack
  <2>3. m_popsBlocked' = Cardinality(Blocked("pop")')
    <3>1. Blocked("pop")' = Blocked("pop")
      BY <2>1, SizesAreSizes DEF Queue!TypeOK, Blocked
    <3>2. QED  BY <1>2, <3>1, SizesAreSizes DEF Queue!PushBack, Queue!TypeOK, Blocked
  <2>4. qAsleep' \subseteq Queue!Threads /\ qPatient' \subseteq ThreadSet
    BY <1>2, NotifiedAreSleepers, SizesAreSizes DEF Queue!PushBack, Queue!TypeOK, Queue!Return
  <2>5. count' \in Nat /\ count' <= MaxQueueSize
    BY <1>2, SizesAreSizes DEF Queue!PushBack, Queue!TypeOK, Queue!QueueWithinBound,
       QueueAssumption, Queue!NotifyOneIf
  <2>6. QED  BY <1>2, <2>1, <2>2, <2>3, <2>4, <2>5, SizesAreSizes DEF Queue!PushBack,
                Queue!TypeOK, Blocked, Queue!QueueWithinBound
<1>3. CASE Queue!BlockPop(t)
  <2>1. qpc[t] \in {"idle", "pop"} /\ t \in ThreadSet /\ qpc' = [qpc EXCEPT ![t] = "pop"]
    BY <1>3 DEF Queue!BlockPop, Queue!Popping
  <2>2. m_popsBlocked' = Cardinality(Blocked("pop")')
    BY <1>3, <2>1, OthersAreCounted, OneEntryEach DEF Queue!BlockPop
  <2>3. m_pushesBlocked' = Cardinality(Blocked("push")')
    <3>1. Blocked("push")' = Blocked("push")
      BY <2>1, SizesAreSizes DEF Queue!TypeOK, Blocked
    <3>2. QED  BY <1>3, <3>1, SizesAreSizes DEF Queue!BlockPop, Queue!TypeOK, Blocked
  <2>4. qAsleep' \subseteq Queue!Threads /\ qPatient' \subseteq ThreadSet
    BY <1>3, <2>1, SizesAreSizes DEF Queue!BlockPop, Queue!TypeOK
  <2>5. QED  BY <1>3, <2>1, <2>2, <2>3, <2>4, SizesAreSizes DEF Queue!BlockPop, Queue!TypeOK,
                Blocked, Queue!QueueWithinBound
<1>4. CASE Queue!PopFront(t)
  <2>1. qpc[t] \in {"idle", "pop"} /\ qpc' = [qpc EXCEPT ![t] = "idle"]
    BY <1>4 DEF Queue!PopFront, Queue!Popping, Queue!Return
  <2>2. m_popsBlocked' = Cardinality(Blocked("pop")')
    BY <1>4, <2>1, OthersAreCounted, OneEntryEach DEF Queue!PopFront
  <2>3. m_pushesBlocked' = Cardinality(Blocked("push")')
    <3>1. Blocked("push")' = Blocked("push")
      BY <2>1, SizesAreSizes DEF Queue!TypeOK, Blocked
    <3>2. QED  BY <1>4, <3>1, SizesAreSizes DEF Queue!PopFront, Queue!TypeOK, Blocked
  <2>4. qAsleep' \subseteq Queue!Threads /\ qPatient' \subseteq ThreadSet
    BY <1>4, NotifiedAreSleepers, SizesAreSizes DEF Queue!PopFront, Queue!TypeOK, Queue!Return
  <2>5. count' \in Nat /\ count' <= MaxQueueSize
    BY <1>4, SizesAreSizes DEF Queue!PopFront, Queue!TypeOK, Queue!QueueWithinBound,
       QueueAssumption
  <2>6. QED  BY <1>4, <2>1, <2>2, <2>3, <2>4, <2>5, SizesAreSizes DEF Queue!PopFront,
                Queue!TypeOK, Blocked, Queue!QueueWithinBound
<1>5. CASE Queue!PopTimesOut(t)
  <2>1. qpc[t] = "pop" /\ qpc' = [qpc EXCEPT ![t] = "idle"]
    BY <1>5 DEF Queue!PopTimesOut, Queue!Return
  <2>2. m_popsBlocked' = Cardinality(Blocked("pop")')
    BY <1>5, <2>1, OthersAreCounted, OneEntryEach DEF Queue!PopTimesOut
  <2>3. m_pushesBlocked' = Cardinality(Blocked("push")')
    <3>1. Blocked("push")' = Blocked("push")
      BY <2>1, SizesAreSizes DEF Queue!TypeOK, Blocked
    <3>2. QED  BY <1>5, <3>1, SizesAreSizes DEF Queue!PopTimesOut, Queue!TypeOK, Blocked
  <2>4. QED  BY <1>5, <2>1, <2>2, <2>3, SizesAreSizes DEF Queue!PopTimesOut, Queue!Return,
                Queue!TypeOK, Blocked, Queue!QueueWithinBound
<1>6. QED  BY <1>1, <1>2, <1>3, <1>4, <1>5 DEF Queue!Step

\* Every step keeps the invariant; a shutdown and a spurious wakeup count nobody out.
LEMMA NextQueue ==
    ASSUME QueueAssumption, QueueInv, [Queue!Next]_queueVars
    PROVE  QueueInv'
<1>1. ASSUME NEW t \in Queue!Threads, Queue!Step(t)  PROVE QueueInv'
  BY <1>1, StepIsSound
<1>2. ASSUME NEW t \in Queue!Threads, Queue!SpuriousWakeup(t)  PROVE QueueInv'
  BY <1>2, SizesAreSizes DEF Queue!SpuriousWakeup, QueueInv, Queue!TypeOK,
     Queue!QueueWithinBound, Queue!Threads
<1>3. CASE Queue!Shutdown
  BY <1>3, SizesAreSizes DEF Queue!Shutdown, QueueInv, Queue!TypeOK, Queue!QueueWithinBound,
     Queue!Threads
<1>4. CASE UNCHANGED Queue!vars
  BY <1>4, SizesAreSizes DEF Queue!vars, QueueInv, Queue!TypeOK, Queue!QueueWithinBound,
     Queue!Threads, queueVars
<1>5. QED  BY <1>1, <1>2, <1>3, <1>4 DEF Queue!Next, queueVars, Queue!vars

\* The queue's invariant holds when the queue is built.
LEMMA InitQueue ==
    ASSUME QueueAssumption
    PROVE  Queue!Init => QueueInv
<1>1. SUFFICES ASSUME Queue!Init PROVE QueueInv
  OBVIOUS
<1>2. /\ {t \in Queue!Threads : qpc[t] = "push"} = {}
      /\ {t \in Queue!Threads : qpc[t] = "pop"} = {}
  BY <1>1 DEF Queue!Init
<1>3. m_pushesBlocked = Cardinality({t \in Queue!Threads : qpc[t] = "push"})
  BY <1>1, <1>2, FS_EmptySet DEF Queue!Init
<1>4. m_popsBlocked = Cardinality({t \in Queue!Threads : qpc[t] = "pop"})
  BY <1>1, <1>2, FS_EmptySet DEF Queue!Init
<1>5. /\ count = 0 /\ m_shutdown \in BOOLEAN /\ qAsleep = {} /\ qPatient = {}
      /\ qpc \in [Queue!Threads -> {"idle", "push", "pop"}]
  BY <1>1 DEF Queue!Init
<1>6. Queue!QueueWithinBound
  BY <1>5 DEF Queue!QueueWithinBound, QueueAssumption
<1>7. Queue!TypeOK
  BY <1>3, <1>4, <1>5, SizesAreSizes DEF Queue!TypeOK
<1>8. QED  BY <1>6, <1>7 DEF QueueInv

\* The counters of blocked calls, which the code keeps by hand on five ways out of a wait,
\* count the threads in a call exactly, and the queue never outgrows its bound.
THEOREM QueueIsCounted ==
    ASSUME QueueAssumption
    PROVE  Queue!Spec => [](Queue!TypeOK /\ QueueWithinBound)
<1>1. Queue!Init => QueueInv
  BY InitQueue
<1>2. QueueInv /\ [Queue!Next]_queueVars => QueueInv'
  BY NextQueue
<1>3. QED  BY <1>1, <1>2, PTL DEF Queue!Spec, QueueInv, QueueWithinBound, queueVars, Queue!vars

(***************************************************************************)
(* The barrier, used by as many threads as its threshold: the two          *)
(* SubBarriers keep the generations of waiters apart.                      *)
(***************************************************************************)
\* The SubBarrier that is not in use.
OtherBarrier == IF m_curSubBarrier = 1 THEN "m_subBarrier1" ELSE "m_subBarrier0"

\* Who has joined the generation under way.
Joined == {t \in ThreadSet : joined[t] = generation + 1}

\* A thread inside a SubBarrier is of the generation under way or of the one before, and
\* is in the SubBarrier of that generation.  That nobody is of an older one is why two
\* SubBarriers are enough; it takes as many threads as the threshold.
GenerationInv ==
    /\ Barrier!TypeOK
    /\ Barrier!CountsThisGeneration /\ Barrier!NobodyLeftBehind
    /\ \A t \in ThreadSet :
          /\ joined[t] \in {generation, generation + 1}
          /\ at[t] \in Barrier!SubBarriers =>
                at[t] = IF joined[t] = generation + 1 THEN Barrier!CurBarrier ELSE OtherBarrier
          /\ at[t] = "outside" => joined[t] = generation

\* The two SubBarriers take turns.
LEMMA TwoBarriers ==
    ASSUME Barrier!TypeOK
    PROVE  /\ Barrier!CurBarrier \in Barrier!SubBarriers /\ OtherBarrier \in Barrier!SubBarriers
           /\ Barrier!CurBarrier # OtherBarrier
           /\ \A b \in Barrier!SubBarriers : b = Barrier!CurBarrier \/ b = OtherBarrier
           /\ "outside" \notin Barrier!SubBarriers /\ "cancelled" \notin Barrier!SubBarriers
           /\ m_waitingCount[Barrier!CurBarrier] \in Nat
  BY DEF Barrier!TypeOK, Barrier!SubBarriers, Barrier!CurBarrier, OtherBarrier

\* A thread joins a generation that others still complete.
LEMMA JoinKeepsGenerations ==
    ASSUME IsFiniteSet(ThreadSet), GenerationInv, NEW t \in ThreadSet, Barrier!JoinGeneration(t)
    PROVE  GenerationInv'
<1>1. Barrier!TypeOK /\ at[t] = "outside" /\ joined[t] = generation /\ generation \in Nat
  BY DEF GenerationInv, Barrier!TypeOK, Barrier!JoinGeneration, Barrier!Enters
<1>2. /\ Barrier!CurBarrier' = Barrier!CurBarrier /\ OtherBarrier' = OtherBarrier
      /\ generation' = generation
      /\ joined' = [joined EXCEPT ![t] = generation + 1]
      /\ at' = [at EXCEPT ![t] = Barrier!CurBarrier]
      /\ m_waitingCount' = [m_waitingCount EXCEPT ![Barrier!CurBarrier] = @ + 1]
      /\ sleeping' = sleeping \cup {t}
  BY DEF Barrier!JoinGeneration, Barrier!Enters, Barrier!CurBarrier, OtherBarrier
<1>3. Barrier!TypeOK'
  BY <1>1, <1>2, TwoBarriers DEF Barrier!TypeOK, Barrier!JoinGeneration, Barrier!Enters
<1>4. Joined' = Joined \cup {t} /\ t \notin Joined
  BY <1>1, <1>2 DEF Barrier!TypeOK, Joined
<1>5. Cardinality(Joined') = Cardinality(Joined) + 1 /\ Cardinality(Joined) \in Nat
  <2>1. IsFiniteSet(Joined)
    BY FS_Subset DEF Joined
  <2>2. QED  BY <1>4, <2>1, FS_AddElement, FS_CardinalityType
<1>6. Barrier!CountsThisGeneration'
  <2>1. m_waitingCount[Barrier!CurBarrier] = Cardinality(Joined)
    BY SizesAreSizes DEF GenerationInv, Barrier!CountsThisGeneration, Joined
  <2>2. m_waitingCount'[Barrier!CurBarrier'] = Cardinality(Joined')
    BY <1>1, <1>2, <1>5, <2>1, TwoBarriers DEF Barrier!TypeOK
  <2>3. \A b \in Barrier!SubBarriers \ {Barrier!CurBarrier'} : m_waitingCount'[b] = 0
    BY <1>1, <1>2, TwoBarriers, SizesAreSizes DEF GenerationInv, Barrier!CountsThisGeneration,
       Barrier!TypeOK
  <2>4. QED  BY <2>2, <2>3, SizesAreSizes DEF Barrier!CountsThisGeneration, Joined
<1>7. \A u \in ThreadSet :
         /\ joined'[u] \in {generation', generation' + 1}
         /\ at'[u] \in Barrier!SubBarriers =>
               at'[u] = IF joined'[u] = generation' + 1 THEN Barrier!CurBarrier'
                                                            ELSE OtherBarrier'
         /\ at'[u] = "outside" => joined'[u] = generation'
  BY <1>1, <1>2, TwoBarriers DEF GenerationInv, Barrier!TypeOK
<1>8. Barrier!NobodyLeftBehind'
  <2>1. SUFFICES ASSUME NEW u \in ThreadSet, at'[u] \in Barrier!SubBarriers,
                        joined'[u] <= generation'
                 PROVE  u \notin sleeping' /\ m_waitingCount'[at'[u]] = 0
    BY DEF Barrier!NobodyLeftBehind
  <2>2. u # t /\ at'[u] = at[u] /\ joined[u] = generation
    BY <1>1, <1>2, <1>7, <2>1 DEF Barrier!TypeOK, GenerationInv
  <2>3. at[u] = OtherBarrier /\ u \notin sleeping /\ m_waitingCount[at[u]] = 0
    BY <1>1, <2>1, <2>2 DEF GenerationInv, Barrier!NobodyLeftBehind
  <2>4. QED  BY <1>1, <1>2, <2>2, <2>3, TwoBarriers DEF Barrier!TypeOK
<1>9. QED  BY <1>3, <1>6, <1>7, <1>8 DEF GenerationInv

\* The last thread completes the generation: everybody else has joined it.
LEMMA CompletionKeepsGenerations ==
    ASSUME IsFiniteSet(ThreadSet), GenerationInv,
           NEW t \in ThreadSet, Barrier!CompleteGeneration(t)
    PROVE  GenerationInv'
<1>1. Barrier!TypeOK /\ at[t] = "outside" /\ joined[t] = generation /\ generation \in Nat
  BY DEF GenerationInv, Barrier!TypeOK, Barrier!CompleteGeneration, Barrier!Enters
<1>2. /\ Barrier!CurBarrier' = OtherBarrier /\ OtherBarrier' = Barrier!CurBarrier
      /\ generation' = generation + 1
      /\ joined' = [joined EXCEPT ![t] = generation + 1]
      /\ at' = at
      /\ m_waitingCount' = [m_waitingCount EXCEPT ![Barrier!CurBarrier] = 0]
      /\ sleeping' = {u \in sleeping : at[u] # Barrier!CurBarrier}
  BY <1>1 DEF Barrier!CompleteGeneration, Barrier!Enters, Barrier!CurBarrier, OtherBarrier,
     Barrier!TypeOK
<1>3. Barrier!TypeOK'
  BY <1>1, <1>2, TwoBarriers DEF Barrier!TypeOK, Barrier!CompleteGeneration, Barrier!Enters
<1>4. \A u \in ThreadSet \ {t} : joined[u] = generation + 1
  <2>1. /\ IsFiniteSet(ThreadSet \ {t})
        /\ Cardinality(ThreadSet \ {t}) = Cardinality(ThreadSet) - 1
        /\ Cardinality(ThreadSet) \in Nat
    BY FS_RemoveElement, FS_CardinalityType
  <2>2. Joined \in SUBSET (ThreadSet \ {t})
    BY <1>1 DEF Joined
  <2>3. Cardinality(Joined) = Cardinality(ThreadSet) - 1
    <3>1. m_waitingCount[Barrier!CurBarrier] = Cardinality(Joined)
      BY SizesAreSizes DEF GenerationInv, Barrier!CountsThisGeneration, Joined
    <3>2. m_waitingCount[Barrier!CurBarrier] + 1 = Cardinality(ThreadSet)
      BY DEF Barrier!CompleteGeneration
    <3>3. QED  BY <1>1, <2>1, <3>1, <3>2, TwoBarriers
  <2>4. Joined = ThreadSet \ {t}
    BY <2>1, <2>2, <2>3, FS_Subset
  <2>5. QED  BY <2>4 DEF Joined
<1>5. \A u \in ThreadSet : joined'[u] = generation'
  BY <1>1, <1>2, <1>4 DEF Barrier!TypeOK
<1>6. Barrier!CountsThisGeneration'
  <2>1. {u \in ThreadSet : joined'[u] = generation' + 1} = {}
    BY <1>1, <1>2, <1>5
  <2>2. \A b \in Barrier!SubBarriers : m_waitingCount'[b] = 0
    BY <1>1, <1>2, TwoBarriers, SizesAreSizes DEF GenerationInv, Barrier!CountsThisGeneration,
       Barrier!TypeOK
  <2>3. QED  BY <1>1, <1>2, <2>1, <2>2, TwoBarriers, FS_EmptySet, SizesAreSizes
                DEF Barrier!CountsThisGeneration
<1>7. \A u \in ThreadSet : at[u] \in Barrier!SubBarriers => at[u] = Barrier!CurBarrier
  <2>1. SUFFICES ASSUME NEW u \in ThreadSet, at[u] \in Barrier!SubBarriers
                 PROVE  at[u] = Barrier!CurBarrier
    OBVIOUS
  <2>2. u # t
    BY <1>1, <2>1, TwoBarriers
  <2>3. QED  BY <1>4, <2>1, <2>2 DEF GenerationInv
<1>8. \A u \in ThreadSet :
         /\ joined'[u] \in {generation', generation' + 1}
         /\ at'[u] \in Barrier!SubBarriers =>
               at'[u] = IF joined'[u] = generation' + 1 THEN Barrier!CurBarrier'
                                                            ELSE OtherBarrier'
         /\ at'[u] = "outside" => joined'[u] = generation'
  BY <1>1, <1>2, <1>5, <1>7
<1>9. Barrier!NobodyLeftBehind'
  BY <1>1, <1>2, <1>7, TwoBarriers DEF Barrier!NobodyLeftBehind, Barrier!TypeOK
<1>10. QED  BY <1>3, <1>6, <1>8, <1>9 DEF GenerationInv

\* The other steps move one thread out of a SubBarrier, to sleep or to wake.
LEMMA InsideKeepsGenerations ==
    ASSUME IsFiniteSet(ThreadSet), GenerationInv, NEW t \in ThreadSet,
           Barrier!Proceed(t) \/ Barrier!CancelledAtBarrier(t) \/ Barrier!WakeSpuriously(t)
    PROVE  GenerationInv'
<1>1. /\ Barrier!TypeOK
      /\ UNCHANGED <<m_curSubBarrier, m_waitingCount, generation, calls, joined,
                     Barrier!CurBarrier, OtherBarrier>>
  BY DEF GenerationInv, Barrier!Proceed, Barrier!LeaveBarrier, Barrier!SleepAgain,
     Barrier!CancelledAtBarrier, Barrier!WakeSpuriously, Barrier!CurBarrier, OtherBarrier
<1>2. Barrier!TypeOK'
  BY <1>1, TwoBarriers DEF Barrier!TypeOK, Barrier!Proceed, Barrier!LeaveBarrier,
     Barrier!SleepAgain, Barrier!CancelledAtBarrier, Barrier!WakeSpuriously
<1>3. Barrier!CountsThisGeneration'
  BY <1>1, SizesAreSizes DEF GenerationInv, Barrier!CountsThisGeneration
<1>4. \A u \in ThreadSet \ {t} : at'[u] = at[u] /\ (u \in sleeping' <=> u \in sleeping)
  BY <1>1 DEF Barrier!TypeOK, Barrier!Proceed, Barrier!LeaveBarrier, Barrier!SleepAgain,
     Barrier!CancelledAtBarrier, Barrier!WakeSpuriously
<1>5. Barrier!LeaveBarrier(t) => joined[t] = generation
  <2>1. SUFFICES ASSUME Barrier!LeaveBarrier(t), joined[t] = generation + 1  PROVE FALSE
    BY DEF GenerationInv
  <2>2. m_waitingCount[Barrier!CurBarrier] = 0
    BY <2>1 DEF GenerationInv, Barrier!LeaveBarrier
  <2>3. IsFiniteSet(Joined) /\ Cardinality(Joined) = 0
    BY <2>2, FS_Subset, SizesAreSizes DEF GenerationInv, Barrier!CountsThisGeneration, Joined
  <2>4. QED  BY <2>1, <2>3, FS_EmptySet DEF Joined
<1>6. \A u \in ThreadSet :
         /\ joined'[u] \in {generation', generation' + 1}
         /\ at'[u] \in Barrier!SubBarriers =>
               at'[u] = IF joined'[u] = generation' + 1 THEN Barrier!CurBarrier'
                                                            ELSE OtherBarrier'
         /\ at'[u] = "outside" => joined'[u] = generation'
  <2>1. CASE Barrier!LeaveBarrier(t)
    BY <1>1, <1>4, <1>5, <2>1, TwoBarriers DEF GenerationInv, Barrier!TypeOK,
       Barrier!LeaveBarrier
  <2>2. CASE Barrier!SleepAgain(t) \/ Barrier!WakeSpuriously(t)
    BY <1>1, <2>2 DEF GenerationInv, Barrier!SleepAgain, Barrier!WakeSpuriously
  <2>3. CASE Barrier!CancelledAtBarrier(t)
    BY <1>1, <1>4, <2>3, TwoBarriers DEF GenerationInv, Barrier!TypeOK,
       Barrier!CancelledAtBarrier
  <2>4. QED  BY <2>1, <2>2, <2>3 DEF Barrier!Proceed
<1>7. Barrier!NobodyLeftBehind'
  <2>1. SUFFICES ASSUME NEW u \in ThreadSet, at'[u] \in Barrier!SubBarriers,
                        joined'[u] <= generation'
                 PROVE  u \notin sleeping' /\ m_waitingCount'[at'[u]] = 0
    BY DEF Barrier!NobodyLeftBehind
  <2>2. at'[u] = at[u]
    BY <1>1, <2>1, TwoBarriers DEF Barrier!TypeOK, Barrier!Proceed, Barrier!LeaveBarrier,
       Barrier!SleepAgain, Barrier!CancelledAtBarrier, Barrier!WakeSpuriously
  <2>3. u \notin sleeping /\ m_waitingCount[at[u]] = 0
    BY <1>1, <2>1, <2>2 DEF GenerationInv, Barrier!NobodyLeftBehind
  <2>4. ~Barrier!SleepAgain(u)
    BY <2>3 DEF Barrier!SleepAgain
  <2>5. u \notin sleeping'
    BY <1>4, <2>3, <2>4 DEF Barrier!Proceed, Barrier!LeaveBarrier, Barrier!SleepAgain,
       Barrier!CancelledAtBarrier, Barrier!WakeSpuriously
  <2>6. QED  BY <1>1, <2>2, <2>3, <2>5
<1>8. QED  BY <1>2, <1>3, <1>6, <1>7 DEF GenerationInv

\* At first everybody is outside.
LEMMA InitGenerations ==
    ASSUME IsFiniteSet(ThreadSet)
    PROVE  Barrier!Init => GenerationInv
<1>1. SUFFICES ASSUME Barrier!Init  PROVE GenerationInv
  OBVIOUS
<1>2. {t \in ThreadSet : joined[t] = generation + 1} = {}
  BY <1>1 DEF Barrier!Init
<1>3. Barrier!TypeOK /\ Barrier!CountsThisGeneration
  BY <1>1, <1>2, FS_EmptySet, SizesAreSizes DEF Barrier!Init, Barrier!TypeOK,
     Barrier!CountsThisGeneration, Barrier!SubBarriers, Barrier!CurBarrier
<1>4. Barrier!NobodyLeftBehind
  BY <1>1 DEF Barrier!Init, Barrier!NobodyLeftBehind, Barrier!SubBarriers
<1>5. QED  BY <1>1, <1>3, <1>4 DEF Barrier!Init, GenerationInv, Barrier!SubBarriers

\* Every step keeps the generations apart.
LEMMA NextGenerations ==
    ASSUME IsFiniteSet(ThreadSet)
    PROVE  GenerationInv /\ [Barrier!Next]_barrierVars => GenerationInv'
<1>1. SUFFICES ASSUME GenerationInv, [Barrier!Next]_barrierVars  PROVE GenerationInv'
  OBVIOUS
<1>2. CASE UNCHANGED Barrier!barrierVars
  BY <1>1, <1>2, SizesAreSizes DEF Barrier!barrierVars, GenerationInv, Barrier!TypeOK,
     Barrier!CountsThisGeneration, Barrier!NobodyLeftBehind, Barrier!CurBarrier, OtherBarrier,
     barrierVars
<1>3. ASSUME NEW t \in ThreadSet,
             \/ Barrier!Call(t) \/ Barrier!Proceed(t)
             \/ Barrier!CancelledAtBarrier(t) \/ Barrier!WakeSpuriously(t)
      PROVE  GenerationInv'
  <2>1. CASE Barrier!Call(t)
    BY <1>1, <2>1, JoinKeepsGenerations, CompletionKeepsGenerations DEF Barrier!Call
  <2>2. CASE Barrier!Proceed(t) \/ Barrier!CancelledAtBarrier(t) \/ Barrier!WakeSpuriously(t)
    BY <1>1, <2>2, InsideKeepsGenerations
  <2>3. QED  BY <1>3, <2>1, <2>2
<1>4. QED
  BY <1>1, <1>2, <1>3 DEF Barrier!Next, barrierVars, Barrier!barrierVars

\* A thread leaves a SubBarrier through LeaveBarrier() only, and then its generation is
\* complete.
LEMMA NobodyLeaves ==
    ASSUME IsFiniteSet(ThreadSet), GenerationInv, [Barrier!Next]_barrierVars, NEW t \in ThreadSet,
           at[t] \in Barrier!SubBarriers, at'[t] = "outside"
    PROVE  joined[t] <= generation
<1>1. SUFFICES ASSUME joined[t] = generation + 1  PROVE FALSE
  BY DEF GenerationInv, Barrier!TypeOK
<1>2. IsFiniteSet(Joined) /\ Cardinality(Joined) # 0
  BY <1>1, FS_Subset, FS_EmptySet DEF Joined
<1>3. m_waitingCount[at[t]] # 0
  BY <1>1, <1>2, SizesAreSizes DEF GenerationInv, Barrier!CountsThisGeneration, Joined
<1>4. Barrier!LeaveBarrier(t)
  <2>1. ASSUME NEW u \in ThreadSet,
               Barrier!JoinGeneration(u) \/ Barrier!CompleteGeneration(u)
        PROVE  FALSE
    BY <2>1, TwoBarriers DEF GenerationInv, Barrier!TypeOK, Barrier!JoinGeneration,
       Barrier!CompleteGeneration, Barrier!Enters
  <2>2. ASSUME NEW u \in ThreadSet,
               Barrier!SleepAgain(u) \/ Barrier!CancelledAtBarrier(u) \/ Barrier!WakeSpuriously(u)
        PROVE  FALSE
    BY <2>2, TwoBarriers DEF GenerationInv, Barrier!TypeOK, Barrier!SleepAgain,
       Barrier!CancelledAtBarrier, Barrier!WakeSpuriously
  <2>3. ASSUME NEW u \in ThreadSet, Barrier!LeaveBarrier(u)  PROVE Barrier!LeaveBarrier(t)
    BY <2>3, TwoBarriers DEF GenerationInv, Barrier!TypeOK, Barrier!LeaveBarrier
  <2>4. CASE UNCHANGED Barrier!barrierVars
    BY <2>4, TwoBarriers DEF GenerationInv, Barrier!barrierVars, barrierVars
  <2>5. QED  BY <2>1, <2>2, <2>3, <2>4 DEF Barrier!Next, Barrier!Call, Barrier!Proceed,
                barrierVars, Barrier!barrierVars
<1>5. QED  BY <1>3, <1>4 DEF Barrier!LeaveBarrier

\* A barrier used by as many threads as its threshold keeps their generations apart,
\* however many there are and however often they call: the SubBarrier in use counts
\* the generation under way exactly, nobody is left behind in a complete
\* one, and nobody leaves one that is not.
THEOREM GenerationsApart ==
    ASSUME IsFiniteSet(ThreadSet)
    PROVE  Barrier!Spec => BarrierKeepsGenerationsApart
<1>1. Barrier!Init => GenerationInv
  BY InitGenerations
<1>2. GenerationInv /\ [Barrier!Next]_barrierVars => GenerationInv'
  BY NextGenerations
<1>3. GenerationInv => Barrier!CountsThisGeneration /\ Barrier!NobodyLeftBehind
  BY DEF GenerationInv
<1>4. GenerationInv /\ [Barrier!Next]_barrierVars
         => [\A t \in ThreadSet : at[t] \in Barrier!SubBarriers /\ at'[t] = "outside"
                                   => joined[t] <= generation]_barrierVars
  BY NobodyLeaves
<1>5. QED
  BY <1>1, <1>2, <1>3, <1>4, PTL DEF Barrier!Spec, BarrierKeepsGenerationsApart,
     Barrier!BarrierKeepsGenerationsApart, Barrier!NobodyLeavesEarly, barrierVars,
     Barrier!barrierVars

(***************************************************************************)
(* The counter, whatever limits it is given.                               *)
(***************************************************************************)
\* Who has been admitted and has not left.
Admitted == {t \in ThreadSet : cpc[t] = "admitted"}

CounterInv == Counter!TypeOK /\ Counter!CountIsExact /\ Counter!NobodyOversleeps

CounterAssumption ==
    /\ IsFiniteSet(ThreadSet)
    /\ Limits \subseteq Int
    /\ CounterTimeouts \subseteq {"infinite", "relative", "absolute"}

\* Steps that admit nobody, let nobody go and put nobody to sleep leave the count exact.
LEMMA SameCount ==
    ASSUME Counter!CountIsExact, m_runCount' = m_runCount,
           \A t \in ThreadSet : cpc'[t] = "admitted" <=> cpc[t] = "admitted"
    PROVE  Counter!CountIsExact'
<1>1. Admitted' = Admitted
  BY DEF Admitted
<1>2. QED  BY <1>1, SizesAreSizes DEF Counter!CountIsExact, Admitted

\* A call begins.
LEMMA CallKeepsCount ==
    ASSUME CounterAssumption, CounterInv, NEW t \in ThreadSet, NEW timeout \in CounterTimeouts,
           Counter!CallIncThreadCount(t, timeout) \/ Counter!CallWaitForAll(t, timeout)
    PROVE  CounterInv'
<1>1. Counter!TypeOK'
  BY DEF CounterAssumption, CounterInv, Counter!TypeOK, Counter!CallIncThreadCount,
     Counter!CallWaitForAll
<1>2. Counter!CountIsExact'
  BY SameCount DEF CounterInv, Counter!TypeOK, Counter!CallIncThreadCount,
     Counter!CallWaitForAll
<1>3. Counter!NobodyOversleeps'
  BY DEF CounterInv, Counter!TypeOK, Counter!NobodyOversleeps, Counter!MustWait,
     Counter!CallIncThreadCount, Counter!CallWaitForAll
<1>4. QED  BY <1>1, <1>2, <1>3 DEF CounterInv

\* A thread falls asleep, wakes by chance, gives up, or finds that all are done.
LEMMA WaitKeepsCount ==
    ASSUME CounterInv, NEW t \in ThreadSet,
           \/ Counter!DozeOff(t) \/ Counter!WakeByChance(t) \/ Counter!MomentPasses(t)
           \/ Counter!CounterTimesOut(t) \/ Counter!AllAreDone(t)
    PROVE  CounterInv'
<1>1. cpc[t] \in {"inc", "waitForAll"}
  BY DEF CounterInv, Counter!TypeOK, Counter!DozeOff, Counter!WakeByChance,
     Counter!MomentPasses, Counter!CounterTimesOut, Counter!TimeIsOver, Counter!AllAreDone,
     Counter!MustWait
<1>2. Counter!TypeOK'
  BY <1>1 DEF CounterInv, Counter!TypeOK, Counter!DozeOff, Counter!WakeByChance,
     Counter!MomentPasses, Counter!CounterTimesOut, Counter!AllAreDone
<1>3. Counter!CountIsExact'
  BY <1>1, SameCount DEF CounterInv, Counter!TypeOK, Counter!DozeOff, Counter!WakeByChance,
     Counter!MomentPasses, Counter!CounterTimesOut, Counter!AllAreDone
<1>4. Counter!NobodyOversleeps'
  BY <1>1 DEF CounterInv, Counter!TypeOK, Counter!NobodyOversleeps, Counter!MustWait,
     Counter!DozeOff, Counter!WakeByChance, Counter!MomentPasses, Counter!CounterTimesOut,
     Counter!AllAreDone
<1>5. QED  BY <1>2, <1>3, <1>4 DEF CounterInv

\* Who sleeps for a place or for everybody to leave has one reason more.
LEMMA AdmitKeepsCount ==
    ASSUME CounterAssumption, CounterInv, NEW t \in ThreadSet, Counter!Admit(t)
    PROVE  CounterInv'
<1>1. Counter!TypeOK'
  BY DEF CounterInv, Counter!TypeOK, Counter!Admit
<1>2. Counter!CountIsExact'
  <2>1. Admitted' = Admitted \cup {t} /\ t \notin Admitted
    BY DEF Admitted, CounterInv, Counter!TypeOK, Counter!Admit
  <2>2. IsFiniteSet(Admitted)
    BY FS_Subset DEF CounterAssumption, Admitted
  <2>3. Cardinality(Admitted') = Cardinality(Admitted) + 1
    BY <2>1, <2>2, FS_AddElement
  <2>4. QED  BY <2>3, SizesAreSizes DEF CounterInv, Counter!CountIsExact, Admitted,
                Counter!Admit
<1>3. Counter!NobodyOversleeps'
  <2>1. /\ m_runCount \in Nat /\ m_runCount' = m_runCount + 1 /\ m_maxThreads \in Int
        /\ m_maxThreads' = m_maxThreads
    <3>1. IsFiniteSet(Admitted) /\ m_runCount = Cardinality(Admitted)
      BY FS_Subset, SizesAreSizes DEF CounterAssumption, CounterInv, Counter!CountIsExact,
         Admitted
    <3>2. QED
      BY <3>1, FS_CardinalityType DEF CounterAssumption, CounterInv, Counter!TypeOK,
         Counter!Admit
  <2>2. dozing' = dozing /\ \A u \in dozing : u # t /\ cpc'[u] = cpc[u]
    BY DEF CounterInv, Counter!TypeOK, Counter!Admit
  <2>3. \A u \in dozing : Counter!MustWait(u)
    BY DEF CounterInv, Counter!NobodyOversleeps
  <2>4. QED  BY <2>1, <2>2, <2>3 DEF Counter!NobodyOversleeps, Counter!MustWait
<1>4. QED  BY <1>1, <1>2, <1>3 DEF CounterInv

\* Who leaves, and who moves the limit, wakes everybody.
LEMMA NotifyKeepsCount ==
    ASSUME CounterAssumption, CounterInv,
           \/ \E t \in ThreadSet : Counter!DecThreadCount(t)
           \/ \E limit \in Limits : Counter!SetMax(limit)
    PROVE  CounterInv'
<1>1. Counter!NobodyOversleeps'
  BY DEF Counter!NobodyOversleeps, Counter!DecThreadCount, Counter!SetMax
<1>2. ASSUME NEW t \in ThreadSet, Counter!DecThreadCount(t)
      PROVE  Counter!TypeOK' /\ Counter!CountIsExact'
  <2>1. Counter!TypeOK'
    BY <1>2 DEF CounterInv, Counter!TypeOK, Counter!DecThreadCount
  <2>2. Admitted' = Admitted \ {t} /\ t \in Admitted
    BY <1>2 DEF Admitted, CounterInv, Counter!TypeOK, Counter!DecThreadCount
  <2>3. IsFiniteSet(Admitted)
    BY FS_Subset DEF CounterAssumption, Admitted
  <2>4. Cardinality(Admitted') = Cardinality(Admitted) - 1
    BY <2>2, <2>3, FS_RemoveElement
  <2>5. QED  BY <1>2, <2>1, <2>4, SizesAreSizes DEF CounterInv, Counter!CountIsExact, Admitted,
                Counter!DecThreadCount
<1>3. ASSUME NEW limit \in Limits, Counter!SetMax(limit)
      PROVE  Counter!TypeOK' /\ Counter!CountIsExact'
  BY <1>3, SameCount DEF CounterInv, Counter!TypeOK, Counter!SetMax
<1>4. QED  BY <1>1, <1>2, <1>3 DEF CounterInv

\* Before the first call nobody is counted.
LEMMA InitCounter ==
    ASSUME CounterAssumption
    PROVE  Counter!Init => CounterInv
<1>1. SUFFICES ASSUME Counter!Init  PROVE CounterInv
  OBVIOUS
<1>2. {t \in ThreadSet : cpc[t] = "admitted"} = {}
  BY <1>1 DEF Counter!Init
<1>3. QED
  BY <1>1, <1>2, FS_EmptySet, SizesAreSizes DEF Counter!Init, CounterInv, Counter!TypeOK,
     Counter!CountIsExact, Counter!NobodyOversleeps

\* Every step keeps the invariant.
LEMMA NextCounter ==
    ASSUME CounterAssumption
    PROVE  CounterInv /\ [Counter!Next]_counterVars => CounterInv'
<1>1. SUFFICES ASSUME CounterInv, [Counter!Next]_counterVars  PROVE CounterInv'
  OBVIOUS
<1>2. ASSUME NEW t \in ThreadSet, Counter!Proceed(t) \/ Counter!WakeByChance(t)  PROVE CounterInv'
  BY <1>1, <1>2, WaitKeepsCount, AdmitKeepsCount, NotifyKeepsCount DEF Counter!Proceed
<1>3. CASE UNCHANGED Counter!counterVars
  BY <1>1, <1>3, SizesAreSizes DEF Counter!counterVars, CounterInv, Counter!TypeOK,
     Counter!CountIsExact, Counter!NobodyOversleeps, Counter!MustWait, counterVars
<1>4. QED  BY <1>1, <1>2, <1>3, CallKeepsCount, NotifyKeepsCount DEF Counter!Next, counterVars,
              Counter!counterVars

\* The only step that raises the count is an admission below the limit.
LEMMA StepBelowLimit ==
    ASSUME CounterAssumption, CounterInv, [Counter!Next]_counterVars, m_runCount' > m_runCount
    PROVE  m_runCount' <= m_maxThreads
<1>1. m_runCount \in Int /\ m_maxThreads \in Int
  BY DEF CounterAssumption, CounterInv, Counter!TypeOK
<1>2. PICK t \in ThreadSet : Counter!Admit(t)
  BY <1>1 DEF Counter!Next, Counter!Proceed, Counter!DozeOff, Counter!WakeByChance,
     Counter!MomentPasses, Counter!CounterTimesOut, Counter!AllAreDone, Counter!DecThreadCount,
     Counter!CallIncThreadCount, Counter!CallWaitForAll, Counter!SetMax, Counter!counterVars,
     counterVars
<1>3. QED  BY <1>1, <1>2 DEF Counter!Admit, Counter!MustWait

\* The counter admits whom it should, whatever the timeouts, wakeups by chance and changes
\* of the limit, and nobody who could be admitted, or whose wait for all is over,
\* is left asleep.
THEOREM AdmitsRightly ==
    ASSUME CounterAssumption
    PROVE  Counter!Spec => CounterAdmitsRightly
<1>1. Counter!Init => CounterInv
  BY InitCounter
<1>2. CounterInv /\ [Counter!Next]_counterVars => CounterInv'
  BY NextCounter
<1>3. CounterInv => Counter!CountIsExact /\ Counter!NobodyOversleeps
  BY DEF CounterInv
<1>4. CounterInv /\ [Counter!Next]_counterVars
         => [m_runCount' > m_runCount => m_runCount' <= m_maxThreads]_counterVars
  BY StepBelowLimit
<1>5. QED
  BY <1>1, <1>2, <1>3, <1>4, PTL DEF Counter!Spec, CounterAdmitsRightly,
     Counter!CounterAdmitsRightly,
     Counter!AdmittedBelowLimit, counterVars, Counter!counterVars

(***************************************************************************)
(* The semaphore, for any initial count, negative ones included.           *)
(***************************************************************************)
SemaphoreInv == Sem!TypeOK /\ Sem!SignalsAreConserved

\* Before the first call nothing is signalled and nobody waits.
LEMMA InitSemaphore ==
    ASSUME InitCount \in Int
    PROVE  Sem!Init => SemaphoreInv
  BY DEF Sem!Init, SemaphoreInv, Sem!TypeOK, Sem!SignalsAreConserved

\* A thread parks only while there is nothing to take; a signal, which alone can change
\* that, leaves nobody parked; and only a success takes.
LEMMA NextSemaphore ==
    ASSUME InitCount \in Int
    PROVE  SemaphoreInv /\ [Sem!Next]_semaphoreVars => SemaphoreInv'
<1>1. SUFFICES ASSUME SemaphoreInv, [Sem!Next]_semaphoreVars  PROVE SemaphoreInv'
  OBVIOUS
<1>2. CASE Sem!Signal
  BY <1>1, <1>2 DEF Sem!Signal, SemaphoreInv, Sem!TypeOK, Sem!SignalsAreConserved
<1>3. ASSUME NEW t \in ThreadSet, Sem!CallWait(t)  PROVE SemaphoreInv'
  BY <1>1, <1>3 DEF Sem!CallWait, SemaphoreInv, Sem!TypeOK, Sem!SignalsAreConserved
<1>4. ASSUME NEW t \in ThreadSet, Sem!Park(t)  PROVE SemaphoreInv'
  BY <1>1, <1>4 DEF Sem!Park, SemaphoreInv, Sem!TypeOK, Sem!SignalsAreConserved
<1>5. ASSUME NEW t \in ThreadSet, Sem!Take(t)  PROVE SemaphoreInv'
  BY <1>1, <1>5 DEF Sem!Take, SemaphoreInv, Sem!TypeOK, Sem!SignalsAreConserved
<1>6. ASSUME NEW t \in ThreadSet, Sem!GiveUp(t)  PROVE SemaphoreInv'
  BY <1>1, <1>6 DEF Sem!GiveUp, SemaphoreInv, Sem!TypeOK, Sem!SignalsAreConserved
<1>7. ASSUME NEW t \in ThreadSet, Sem!TimerExpires(t) \/ Sem!WakeSpuriously(t)
      PROVE  SemaphoreInv'
  BY <1>1, <1>7 DEF Sem!TimerExpires, Sem!WakeSpuriously, SemaphoreInv, Sem!TypeOK,
     Sem!SignalsAreConserved
<1>8. CASE UNCHANGED Sem!semaphoreVars
  BY <1>1, <1>8 DEF Sem!semaphoreVars, SemaphoreInv, Sem!TypeOK, Sem!SignalsAreConserved,
     semaphoreVars
<1>9. QED  BY <1>1, <1>2, <1>3, <1>4, <1>5, <1>6, <1>7, <1>8 DEF Sem!Next, Sem!Proceed,
              semaphoreVars, Sem!semaphoreVars

\* Whatever races there are of signals with timeouts, the semaphore neither makes nor loses
\* a signal, and nobody is blocked while there is one to take.
THEOREM SignalsConserved ==
    ASSUME InitCount \in Int
    PROVE  Sem!Spec => []SignalsAreConserved
<1>1. SemaphoreInv => SignalsAreConserved
  BY DEF SemaphoreInv, SignalsAreConserved
<1>2. QED  BY <1>1, InitSemaphore, NextSemaphore, PTL DEF Sem!Spec, semaphoreVars,
              Sem!semaphoreVars
=============================================================================
