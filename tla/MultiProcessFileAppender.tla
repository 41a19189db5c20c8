---------------------- MODULE MultiProcessFileAppender ----------------------
(***************************************************************************)
(* MultiProcessFileAppender of src/blocxx/MultiProcessFileAppender.cpp:    *)
(* several processes append lines to one log file, which whoever fills it  *)
(* rotates into numbered backups.  A process may crash at any step and be  *)
(* started again; the operating system then drops its lock.                *)
(*                                                                         *)
(* A line is its number, and has size 1.  The directory maps the index of  *)
(* a backup, 0 for the log file itself, to an inode; a process goes on     *)
(* writing to the inode it has open, under whatever name.                  *)
(***************************************************************************)
EXTENDS Naturals, Sequences, FiniteSets

CONSTANTS
    Processes,
    ThreadsPerProcess,      \* threads of a process that share its appender
    MaxFileSize,            \* m_maxFileSize, in lines
    MaxBackupIndex,         \* m_maxBackupIndex
    MaxLines,               \* bound: lines written
    MaxCrashes,             \* bound: crashes
    None                    \* no inode, no process

VARIABLES
    contents,   \* the lines in each inode
    directory,  \* the inode under each name
    m_log,      \* the inode each process has open, None if it has none
    lockedBy,   \* the process that has the fcntl() lock on the ".lock" file
    apc,        \* where each thread is in doProcessLogMessage()
    size,       \* its local variable
    shift,      \* the name it renames next
    written,    \* lines written so far
    crashes

appenderVars == <<contents, directory, m_log, lockedBy, apc, size, shift, written, crashes>>

Threads == Processes \X (1..ThreadsPerProcess)
process(t) == t[1]
Names == 0..MaxBackupIndex
Inodes == 1..(MaxBackupIndex + 2 + Cardinality(Processes))

Init ==
    /\ contents = [i \in Inodes |-> <<>>]
    /\ directory = [n \in Names |-> None]
    /\ m_log = [p \in Processes |-> None] /\ lockedBy = None
    /\ apc = [t \in Threads |-> "idle"]
    /\ size = [t \in Threads |-> 0] /\ shift = [t \in Threads |-> 0]
    /\ written = 0 /\ crashes = 0

\* openForAppendOrCreateFile(m_filename), which gives process p the log file.
OpenLog(p) ==
    LET used  == {directory[n] : n \in Names} \cup {m_log[q] : q \in Processes}
        fresh == CHOOSE i \in Inodes \ used : TRUE
    IN  IF directory[0] # None
        THEN /\ m_log' = [m_log EXCEPT ![p] = directory[0]]
             /\ UNCHANGED <<contents, directory>>
        ELSE /\ directory' = [directory EXCEPT ![0] = fresh]
             /\ contents' = [contents EXCEPT ![fresh] = <<>>]
             /\ m_log' = [m_log EXCEPT ![p] = fresh]

OpenFails(p) ==
    /\ m_log' = [m_log EXCEPT ![p] = None]
    /\ UNCHANGED <<contents, directory>>

\* The FileLock is destroyed. The lock is the process's, not the thread's.
Return(t) ==
    /\ apc' = [apc EXCEPT ![t] = "idle"]
    /\ lockedBy' = None
    /\ size' = [size EXCEPT ![t] = 0] /\ shift' = [shift EXCEPT ![t] = 0]

Goto(t, pc) == apc' = [apc EXCEPT ![t] = pc]

\* A constructor, in a process that has just been started. It needs no lock.
Start(p) ==
    /\ m_log[p] = None /\ \A t \in Threads : process(t) = p => apc[t] = "idle"
    /\ OpenLog(p)
    /\ UNCHANGED <<lockedBy, apc, size, shift, written, crashes>>

(***************************************************************************)
(* doProcessLogMessage()                                                   *)
(***************************************************************************)
Log(t) ==
    /\ apc[t] = "idle" /\ m_log[process(t)] # None
    /\ written + Cardinality({u \in Threads : apc[u] # "idle"}) < MaxLines
    /\ Goto(t, "getLock")
    /\ UNCHANGED <<contents, directory, m_log, lockedBy, size, shift, written, crashes>>

GetLock(t) ==
    /\ apc[t] = "getLock" /\ lockedBy \in {None, process(t)}
    /\ lockedBy' = process(t)
    /\ Goto(t, "checkSize")
    /\ UNCHANGED <<contents, directory, m_log, size, shift, written, crashes>>

SizeOf(inode) == IF inode = None THEN 0 ELSE Len(contents[inode])

\* Variant: nobody looks whether another process has rotated the file.
CheckSize_Trusts(t) ==
    /\ apc[t] = "checkSize"
    /\ size' = [size EXCEPT ![t] = SizeOf(m_log[process(t)])]
    /\ Goto(t, "write")
    /\ UNCHANGED <<contents, directory, m_log, lockedBy, shift, written, crashes>>

\* A full log file has been rotated by another process: it is opened again. If
\* that fails, the process logs nothing any more.
CheckSize(t) ==
    LET p == process(t) IN
    /\ apc[t] = "checkSize"
    /\ \/ /\ SizeOf(m_log[p]) < MaxFileSize
          /\ size' = [size EXCEPT ![t] = SizeOf(m_log[p])]
          /\ Goto(t, "write")
          /\ UNCHANGED <<contents, directory, m_log, lockedBy, shift>>
       \/ /\ SizeOf(m_log[p]) >= MaxFileSize
          /\ OpenLog(p)
          /\ size' = [size EXCEPT ![t] = SizeOf(directory[0])]
          /\ Goto(t, "write")
          /\ UNCHANGED <<lockedBy, shift>>
       \/ /\ SizeOf(m_log[p]) >= MaxFileSize
          /\ OpenFails(p)
          /\ Return(t)
    /\ UNCHANGED <<written, crashes>>

\* The file is closed when the line has filled it.
Write(t) ==
    LET p == process(t)
        full == size[t] + 1 >= MaxFileSize
    IN  /\ apc[t] = "write"
        /\ IF m_log[p] = None
           THEN UNCHANGED <<contents, written>>
           ELSE /\ written' = written + 1
                /\ contents' = [contents EXCEPT ![m_log[p]] = Append(@, written + 1)]
        /\ IF full
           THEN /\ m_log' = [m_log EXCEPT ![p] = None]
                /\ Goto(t, IF MaxBackupIndex > 0 THEN "rename" ELSE "open")
                /\ shift' = [shift EXCEPT ![t] = MaxBackupIndex]
                /\ UNCHANGED <<lockedBy, size>>
           ELSE Return(t) /\ UNCHANGED m_log
        /\ UNCHANGED <<directory, crashes>>

\* Variant: the backups are renamed from the youngest to the oldest.
Rename_Upwards(t) ==
    LET k == IF shift[t] = MaxBackupIndex THEN 0 ELSE shift[t] IN
    /\ apc[t] = "rename"
    /\ directory' = [n \in Names |-> IF n = k THEN None
                                     ELSE IF n = k + 1 /\ directory[k] # None THEN directory[k]
                                     ELSE directory[n]]
    /\ IF k + 1 = MaxBackupIndex THEN Goto(t, "open") ELSE UNCHANGED apc
    /\ shift' = [shift EXCEPT ![t] = k + 1]
    /\ UNCHANGED <<contents, m_log, lockedBy, size, written, crashes>>

\* The oldest backup is removed, then every name is moved to the next one, if it
\* exists, the log file last. Only a failure of that last one is looked at.
Rename(t) ==
    LET k == shift[t] IN
    /\ apc[t] = "rename"
    /\ directory' = [n \in Names |-> IF n = k THEN None
                                     ELSE IF n = k + 1 /\ directory[k] # None THEN directory[k]
                                     ELSE directory[n]]
    /\ IF k > 0 THEN shift' = [shift EXCEPT ![t] = k - 1] /\ UNCHANGED <<apc, lockedBy, size>>
       ELSE IF directory[0] = None THEN Return(t)
       ELSE Goto(t, "open") /\ UNCHANGED <<lockedBy, size, shift>>
    /\ UNCHANGED <<contents, m_log, written, crashes>>

\* Variant: an error leaves the lock locked.
Open_KeepsLock(t) ==
    /\ apc[t] = "open"
    /\ \/ OpenLog(process(t)) /\ Return(t)
       \/ OpenFails(process(t)) /\ Goto(t, "idle") /\ UNCHANGED <<lockedBy, size, shift>>
    /\ UNCHANGED <<written, crashes>>

Open(t) ==
    /\ apc[t] = "open"
    /\ OpenLog(process(t)) \/ OpenFails(process(t))
    /\ Return(t)
    /\ UNCHANGED <<written, crashes>>

Proceed(t) == GetLock(t) \/ CheckSize(t) \/ Write(t) \/ Rename(t) \/ Open(t)

\* The process ends at any step, and with it its lock and its threads.
Crash(p) ==
    /\ crashes < MaxCrashes /\ crashes' = crashes + 1
    /\ m_log' = [m_log EXCEPT ![p] = None]
    /\ lockedBy' = IF lockedBy = p THEN None ELSE lockedBy
    /\ apc' = [t \in Threads |-> IF process(t) = p THEN "idle" ELSE apc[t]]
    /\ size' = [t \in Threads |-> IF process(t) = p THEN 0 ELSE size[t]]
    /\ shift' = [t \in Threads |-> IF process(t) = p THEN 0 ELSE shift[t]]
    /\ UNCHANGED <<contents, directory, written>>

Next ==
    \/ \E p \in Processes : Start(p) \/ Crash(p)
    \/ \E t \in Threads : Log(t) \/ Proceed(t)

Spec == Init /\ [][Next]_appenderVars

FairSpec == Spec /\ \A t \in Threads : WF_appenderVars(Proceed(t))

(***************************************************************************)
(* Properties                                                              *)
(***************************************************************************)
\* Every variable keeps its type.
TypeOK ==
    /\ contents \in [Inodes -> Seq(1..MaxLines)]
    /\ directory \in [Names -> Inodes \cup {None}]
    /\ m_log \in [Processes -> Inodes \cup {None}] /\ lockedBy \in Processes \cup {None}
    /\ apc \in [Threads -> {"idle", "getLock", "checkSize", "write", "rename", "open"}]
    /\ size \in [Threads -> Nat] /\ shift \in [Threads -> Names]
    /\ written \in 0..MaxLines /\ crashes \in 0..MaxCrashes

\* What the file of a name holds.
LinesUnder(n) == IF directory[n] = None THEN <<>> ELSE contents[directory[n]]

\* The file of name m is the next younger one than that of n, but for empty ones.
IsNext(m, n) ==
    /\ m < n /\ LinesUnder(m) # <<>>
    /\ \A k \in Names : m < k /\ k < n => LinesUnder(k) = <<>>

\* Read from the oldest backup to the log file, the lines are in the order in
\* which they were written and none but the oldest is missing: each is followed by
\* the next one, in the same file or in the next younger one, up to the last that was
\* written; not while the files are renamed, not after a crash in the middle of it, and
\* though the other processes have files open that go by other names in the meantime.
OnlyTheOldestAreLost ==
    \A n \in Names : LinesUnder(n) # <<>> =>
        LET here == LinesUnder(n)
            last == here[Len(here)]
        IN  /\ \A i \in 1..(Len(here) - 1) : here[i + 1] = here[i] + 1
            /\ \/ last = written /\ \A m \in Names : m < n => LinesUnder(m) = <<>>
               \/ \E m \in Names : IsNext(m, n) /\ LinesUnder(m)[1] = last + 1

\* A backup is full, and no file grows beyond the size at which it is rotated but
\* for one line each time a process crashed before it had rotated the file (the
\* limits that test/unit/LoggerTestCases.cpp asserts of every backup).
FilesAreRotatedInTime ==
    \A n \in Names : directory[n] # None =>
        /\ n > 0 => Len(contents[directory[n]]) >= MaxFileSize
        /\ MaxBackupIndex > 0 => Len(contents[directory[n]]) <= MaxFileSize + crashes

\* No thread logs anything more.
NoNewCall == \A t \in Threads : apc[t] = "idle" => apc'[t] = "idle"

\* The lock is never left locked, by an error or by a crash: whoever waits for it
\* gets it once no new lines are logged.
LoggingEnds ==
    <>[][NoNewCall]_appenderVars => \A t \in Threads : apc[t] # "idle" ~> apc[t] = "idle"
=============================================================================
