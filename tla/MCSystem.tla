------------------------------ MODULE MCSystem ------------------------------
(***************************************************************************)
(* What deals with processes, files, descriptors, time and memory, model-  *)
(* checked together: in each behaviour one component, the subject, moves   *)
(* and the others keep their initial state.                                *)
(***************************************************************************)
EXTENDS Integers, Sequences, FiniteSets, TLC

CONSTANTS
    Waits, KillPatience, MaxSleep, MaxPolite,                                   \* Proc
    InputSize, Capacity, MaxOutput, Limit, MaxBusy,                             \* IO
    NumObjects,                                                                 \* Engine, Polls
    Processes, MaxFileSize, MaxBackupIndex, MaxLines, MaxCrashes, None,         \* Log
    Second, Limits, LoopTimeout, MaxFuture, MaxWork, LastActivity,              \* Timer
    Refs, CowObjects, Values,                                                   \* Cow
    Resolution, MaxReading, MaxIds,                                             \* Ids
    BufSize, MaxBytes,                                                          \* Temp
    Servers, LockFiles,                                                         \* Uds
    Spawners, Daemonizers,                                                      \* Launch
    CodePoints, MaxLength                                                       \* Text

VARIABLES
    subject,
    child, yieldsTo, permitted, doomed, m_pid, terminated, ppc, destroying,     \* Proc
    waits, elapsed, polled, deadline, reaper, attempts, misdirected,
    inputs, availableDataLen, isOpen, inClosed, given, replied, xpc, found,     \* IO
    written, gathered, timeoutType, left, spent, toChild, pipe, childOpen,
    childWrites, wrote, received,
    m_table, m_stopFlag, ready, epc, selObjs, available, selected, cursor,      \* Engine, Polls
    wild,
    contents, directory, m_log, lockedBy, apc, size, shift, lines, crashes,     \* Log
    clock, caller, interface, timer, inner, tpc, wakeAt, early, expiry,         \* Timer
    verdict,
    content, useCount, m_pObj, tmp, rpc, wish, value,                           \* Cow
    systemClock, timeLast, uuidsThisTick, g_state, made,                        \* Ids
    m_buffer, getting, gptr, egptr, putting, pptr, m_tempFile, file, pos,       \* Temp
    m_readPos, m_writePos, m_isEOF, rewound, bytes, answer, released,
    pc, m_udsFile, lockFile, heldBy, socketFile,                                \* Uds
    spc, result, proc, writers, message, started,                               \* Launch
    text, starts, mode, m_buf, from, output, rval                               \* Text

Proc   == INSTANCE Process WITH DtorWaits <- <<0, 1, 2>>
IO     == INSTANCE Exec WITH Replies <- 0, TimeoutTypes <- {"infinite", "relative", "reset"}
Engine == INSTANCE SelectEngine WITH EventTypes <- {{"read", "write"}},
                                     Careful <- TRUE, UsesEpoll <- TRUE
Polls  == INSTANCE SelectEngine WITH EventTypes <- {{"read", "write"}},
                                     Careful <- TRUE, UsesEpoll <- FALSE
Log    == INSTANCE MultiProcessFileAppender WITH ThreadsPerProcess <- 1, written <- lines
Timer  == INSTANCE TimeoutTimer
Cow    == INSTANCE COWReference WITH Objects <- CowObjects, Null <- None
Ids    == INSTANCE UUID WITH clock <- systemClock, StepsBack <- FALSE
Temp   == INSTANCE TempFileBuffer WITH Eof <- -1, Careful <- TRUE, written <- bytes
Uds    == INSTANCE ServerSocketImpl WITH lockedBy <- heldBy, CloseRaces <- FALSE
Launch == INSTANCE Spawn WITH SecondForkFails <- FALSE
Text   == INSTANCE UTF8Utils

processVars  == <<child, yieldsTo, permitted, doomed, m_pid, terminated, ppc, destroying,
                  waits, elapsed, polled, deadline, reaper, attempts, misdirected>>
execVars     == <<inputs, availableDataLen, isOpen, inClosed, given, replied, xpc, found,
                  written, gathered, timeoutType, left, spent, toChild, pipe, childOpen,
                  childWrites, wrote, received>>
engineVars   == <<m_table, m_stopFlag, ready, epc, selObjs, available, selected, cursor, wild>>
appenderVars == <<contents, directory, m_log, lockedBy, apc, size, shift, lines, crashes>>
timerVars    == <<clock, caller, interface, timer, inner, tpc, wakeAt, early, expiry, verdict>>
cowVars      == <<content, useCount, m_pObj, tmp, rpc, wish, value>>

uuidVars     == <<systemClock, timeLast, uuidsThisTick, g_state, made>>
tempFileVars == <<m_buffer, getting, gptr, egptr, putting, pptr, m_tempFile, file, pos,
                  m_readPos, m_writePos, m_isEOF, rewound, bytes, answer, released>>
udsVars      == <<pc, m_udsFile, lockFile, heldBy, socketFile>>
spawnVars    == <<spc, result, proc, writers, message, started>>
utf8Vars     == <<text, starts, mode, m_buf, from, output, rval>>

allVars == <<subject, processVars, execVars, engineVars, appenderVars, timerVars, cowVars,
             uuidVars, tempFileVars, udsVars, spawnVars, utf8Vars>>

\* Components that do not move start in one state each.
MCInit ==
    /\ subject \in {"process", "exec", "engine", "polls", "log", "timer", "cow",
                    "ids", "temp", "uds", "launch", "text"}
    /\ Proc!Init /\ IO!Init /\ Engine!Init /\ Log!Init /\ Timer!Init /\ Cow!Init
    /\ Ids!Init /\ Temp!Init /\ Uds!Init /\ Launch!Init /\ Text!Init
    /\ subject # "process" => permitted /\ yieldsTo = {"SIGKILL"}
    /\ subject # "exec" => given = 1 /\ timeoutType = "infinite"
    /\ subject # "timer" => clock = 0

\* All but the subject x stand still.
Only(x) ==
    /\ subject = x /\ UNCHANGED subject
    /\ IF x = "process" THEN TRUE ELSE UNCHANGED processVars
    /\ IF x = "exec" THEN TRUE ELSE UNCHANGED execVars
    /\ IF x \in {"engine", "polls"} THEN TRUE ELSE UNCHANGED engineVars
    /\ IF x = "log" THEN TRUE ELSE UNCHANGED appenderVars
    /\ IF x = "timer" THEN TRUE ELSE UNCHANGED timerVars
    /\ IF x = "cow" THEN TRUE ELSE UNCHANGED cowVars
    /\ IF x = "ids" THEN TRUE ELSE UNCHANGED uuidVars
    /\ IF x = "temp" THEN TRUE ELSE UNCHANGED tempFileVars
    /\ IF x = "uds" THEN TRUE ELSE UNCHANGED udsVars
    /\ IF x = "launch" THEN TRUE ELSE UNCHANGED spawnVars
    /\ IF x = "text" THEN TRUE ELSE UNCHANGED utf8Vars

MCNext ==
    \/ Only("process") /\ Proc!Next
    \/ Only("exec") /\ IO!Next
    \/ Only("engine") /\ Engine!Next
    \/ Only("polls") /\ Polls!Next
    \/ Only("log") /\ Log!Next
    \/ Only("timer") /\ Timer!Next
    \/ Only("cow") /\ Cow!Next
    \/ Only("ids") /\ Ids!Next
    \/ Only("temp") /\ Temp!Next
    \/ Only("uds") /\ Uds!Next
    \/ Only("launch") /\ Launch!Next
    \/ Only("text") /\ Text!Next

\* The fairness that each component states for itself.
MCFairness ==
    /\ WF_processVars(subject = "process" /\ Proc!TimePasses)
    /\ WF_processVars(subject = "process" /\ Proc!ObjectProceeds)
    /\ WF_processVars(subject = "process" /\ (Proc!ReaperPolls \/ Proc!ReaperSignals))
    /\ WF_processVars(subject = "process" /\ doomed /\ Proc!ChildEnds)
    /\ WF_execVars(subject = "exec" /\ IO!ParentSteps)
    /\ WF_execVars(subject = "exec" /\ IO!TimePasses)
    /\ WF_engineVars(subject = "engine" /\ Engine!GoStep)
    /\ WF_engineVars(subject = "polls" /\ Polls!GoStep)
    /\ \A t \in Log!Threads : WF_appenderVars(subject = "log" /\ Log!Proceed(t))
    /\ \A s \in Spawners :
          WF_spawnVars(subject = "launch" /\ spc[s] # "idle" /\ Launch!Spawning(s))

MCSpec == MCInit /\ [][MCNext]_allVars /\ MCFairness

(***************************************************************************)
(* The properties of the components, under names of their own              *)
(***************************************************************************)
\* Every variable keeps its type.
ComponentTypesOK ==
    /\ Proc!TypeOK /\ IO!TypeOK /\ Engine!TypeOK
    /\ Log!TypeOK /\ Timer!TypeOK /\ Cow!TypeOK
    /\ Uds!TypeOK /\ Launch!TypeOK /\ Text!TypeOK

\* Process and ZombieReaper: no signal and no waitpid() names the pid of a child that
\* has been waited for, and the object knows what became of that child.
PidIsTheChilds == Proc!NeverMisdirected /\ Proc!StatusIsKnown

\* Process: each of waitCloseTerm()'s measures is taken only when the times of all
\* those before it are over.
MeasuresWaitTheirTurn == Proc!MeasuresWaitTheirTurn

\* Process and ZombieReaper: a destroyed Process leaves no zombie behind.
NoZombieStays == Proc!NoZombieStays

\* processInputOutput(): the bytes of the InputCallback reach the child, all of them,
\* once and in their order, unless it stops reading, and what the child has written is
\* handed on to the last byte.
StreamsAreWhole == IO!InputArrives /\ IO!OutputIsComplete

\* SelectEngine: every callback that select() asks for is called, and none through an
\* iterator that points at nothing, if callbacks only remove their own descriptor after
\* its last event.
CallbacksAreCalled == Engine!IteratorsArePointed /\ Engine!NothingIsSkipped

\* MultiProcessFileAppender: read from the oldest backup on, the lines are in the order
\* in which they were written and none but the oldest is missing, crashes included;
\* backups are full, and no file outgrows its limit by more than the crashes explain.
LogIsKept == Log!OnlyTheOldestAreLost /\ Log!FilesAreRotatedInTime

\* TimeoutTimer: nobody times out too early. Who begins to wait in time waits no longer
\* than the timeout, what its rounding adds, and in processInputOutput() the work that was
\* done since the rest was computed; who begins when it is over may wait without end.
TimesOutOnTime == Timer!TimesOutOnTime

\* COWReference: references behave like values, no thread holds a pointer to an object
\* that another one has deleted, and no object is leaked.
ReferencesActLikeValues == Cow!ReferencesActLikeValues

\* UUID: no identifier is made twice, as long as the system clock is not set back.
IdsAreUnique == Ids!IdsAreUnique

\* TempFileBuffer: the stream that goes to a file when its buffer is full is like one that
\* does not, for a careful caller.
TempFileIsStream == Temp!ImplementsStream

\* ServerSocketImpl: the name of a Unix domain socket leads to the server that is active,
\* and nothing a crashed server has left keeps the next one from binding it.
NameLeadsToServer == Uds!NameLeadsToServer

\* UTF8Utils: code points are found again in UTF-8, and String::toLowerCase() maps all of
\* them, if only the last one takes fewer bytes then.
TextIsConverted == Text!TextIsConverted

\* spawn(): a process that is returned has been started, an error means that it never
\* will be (except for a launch that times out, which leaves a daemonized child alone), and
\* no pipe is kept open by a process that is none of the call's business.
SpawnIsTruthful == Launch!SpawnIsTruthful

\* What is begun ends: waitCloseTerm() and the destructor of a Process, whatever the
\* child does; processInputOutput() when the child has ended, and with a timeout that
\* output resets in any case; a stopped engine, though more events are waiting, and one
\* that runs serves what becomes ready; the lock of the log file is never left locked;
\* and spawn(), whatever the processes it forks do.
CallsOfSystemEnd ==
    /\ Proc!CallsEnd
    /\ IO!ProcessingEnds
    /\ Engine!ReadyIsServed /\ Engine!StopEndsGo
    /\ Log!LoggingEnds
    /\ Launch!SpawnsEnd
=============================================================================
