-------------------------- MODULE ServerSocketImpl --------------------------
(***************************************************************************)
(* doListenUDS() and close() of src/blocxx/ServerSocketImpl.cpp: servers   *)
(* in different processes that use the same name for a Unix domain socket. *)
(* The name is guarded by a lock file beside it; the lock belongs to the   *)
(* file that was opened, which need not be the one that has the name now.  *)
(***************************************************************************)
EXTENDS FiniteSets

CONSTANTS
    Servers,        \* each a process with one ServerSocketImpl
    LockFiles,      \* identities of lock files; more than there are servers
    None,
    CloseRaces      \* a server may close while another one is in doListenUDS()

VARIABLES
    pc,             \* where a server is in its call
    m_udsFile,      \* the lock file it has open
    lockFile,       \* the lock file that has the name
    lockedBy,       \* who holds the lock of each lock file
    socketFile      \* whose socket has the name, or whose it was

udsVars == <<pc, m_udsFile, lockFile, lockedBy, socketFile>>

listening == {"opened", "locked", "cleared", "bound"}
closing == {"closed", "unlinked", "unlocked"}

TypeOK ==
    /\ pc \in [Servers -> {"idle", "active", "failed", "bindFailed"} \cup listening \cup closing]
    /\ m_udsFile \in [Servers -> LockFiles \cup {None}]
    /\ lockFile \in LockFiles \cup {None}
    /\ lockedBy \in [LockFiles -> Servers \cup {None}]
    /\ socketFile \in Servers \cup {None}

Init ==
    /\ pc = [p \in Servers |-> "idle"]
    /\ m_udsFile = [p \in Servers |-> None]
    /\ lockFile = None
    /\ lockedBy = [f \in LockFiles |-> None]
    /\ socketFile = None

Goto(p, step) == pc' = [pc EXCEPT ![p] = step]

Others(p) == Servers \ {p}

Unlock(p) == lockedBy' = [f \in LockFiles |-> IF lockedBy[f] = p THEN None ELSE lockedBy[f]]

(***************************************************************************)
(* doListenUDS()                                                           *)
(***************************************************************************)
\* openOrCreateFile() of the lock file.
OpenLockFile(p) ==
    /\ pc[p] = "idle"
    /\ CloseRaces \/ \A q \in Others(p) : pc[q] \notin closing
    /\ Goto(p, "opened")
    /\ lockFile' \in (IF lockFile # None THEN {lockFile}
                      ELSE {f \in LockFiles : \A q \in Servers : m_udsFile[q] # f})
    /\ m_udsFile' = [m_udsFile EXCEPT ![p] = lockFile']
    /\ UNCHANGED <<lockedBy, socketFile>>

\* Variant: a shared lock, which others get as well.
TryLock_Shared(p) ==
    /\ pc[p] = "opened"
    /\ Goto(p, "locked")
    /\ lockedBy' = [lockedBy EXCEPT ![m_udsFile[p]] = p]
    /\ UNCHANGED <<m_udsFile, lockFile, socketFile>>

TryLock(p) ==
    /\ pc[p] = "opened" /\ lockedBy[m_udsFile[p]] = None
    /\ Goto(p, "locked")
    /\ lockedBy' = [lockedBy EXCEPT ![m_udsFile[p]] = p]
    /\ UNCHANGED <<m_udsFile, lockFile, socketFile>>

\* "someone else has got it open"
TryLockFails(p) ==
    /\ pc[p] = "opened" /\ lockedBy[m_udsFile[p]] # None
    /\ Goto(p, "failed")
    /\ UNCHANGED <<m_udsFile, lockFile, lockedBy, socketFile>>

\* Variant: what a crashed server has left is not removed.
ClobberSocket_Not(p) ==
    /\ pc[p] = "locked"
    /\ Goto(p, "cleared")
    /\ UNCHANGED <<m_udsFile, lockFile, lockedBy, socketFile>>

\* exists() and removeFile()
ClobberSocket(p) ==
    /\ pc[p] = "locked"
    /\ Goto(p, "cleared")
    /\ socketFile' = None
    /\ UNCHANGED <<m_udsFile, lockFile, lockedBy>>

\* bind() fails if the name is taken.
Bind(p) ==
    /\ pc[p] = "cleared"
    /\ IF socketFile = None THEN socketFile' = p /\ Goto(p, "bound")
                            ELSE Goto(p, "bindFailed") /\ UNCHANGED socketFile
    /\ UNCHANGED <<m_udsFile, lockFile, lockedBy>>

Listen(p) ==
    /\ pc[p] = "bound"
    /\ Goto(p, "active")
    /\ UNCHANGED <<m_udsFile, lockFile, lockedBy, socketFile>>

\* chmod() or listen() fails; close() does nothing as the server is not active.
ListenFails(p) ==
    /\ pc[p] = "bound"
    /\ Goto(p, "failed")
    /\ UNCHANGED <<m_udsFile, lockFile, lockedBy, socketFile>>

\* After an exception the destructor of m_udsFile closes the lock file; a process that
\* ends in any other way does as much, and both leave the name where it is.
Vanish(p) ==
    /\ pc[p] # "idle"
    /\ Goto(p, "idle")
    /\ Unlock(p)
    /\ m_udsFile' = [m_udsFile EXCEPT ![p] = None]
    /\ UNCHANGED <<lockFile, socketFile>>

(***************************************************************************)
(* close()                                                                 *)
(***************************************************************************)
CloseSocket(p) ==
    /\ pc[p] = "active"
    /\ CloseRaces \/ \A q \in Others(p) : pc[q] \notin listening
    /\ Goto(p, "closed")
    /\ UNCHANGED <<m_udsFile, lockFile, lockedBy, socketFile>>

\* removeFile() of the name, which fails if it is not there.
RemoveSocket(p) ==
    /\ pc[p] = "closed"
    /\ Goto(p, IF socketFile # None THEN "unlinked" ELSE "failed")
    /\ socketFile' = None
    /\ UNCHANGED <<m_udsFile, lockFile, lockedBy>>

UnlockAndClose(p) ==
    /\ pc[p] = "unlinked"
    /\ Goto(p, "unlocked")
    /\ Unlock(p)
    /\ m_udsFile' = [m_udsFile EXCEPT ![p] = None]
    /\ UNCHANGED <<lockFile, socketFile>>

RemoveLockFile(p) ==
    /\ pc[p] = "unlocked"
    /\ Goto(p, IF lockFile # None THEN "idle" ELSE "failed")
    /\ lockFile' = None
    /\ UNCHANGED <<m_udsFile, lockedBy, socketFile>>

Next == \E p \in Servers :
    \/ OpenLockFile(p) \/ TryLock(p) \/ TryLockFails(p) \/ ClobberSocket(p)
    \/ Bind(p) \/ Listen(p) \/ ListenFails(p) \/ Vanish(p)
    \/ CloseSocket(p) \/ RemoveSocket(p) \/ UnlockAndClose(p) \/ RemoveLockFile(p)

Spec == Init /\ [][Next]_udsVars

(***************************************************************************)
(* Properties                                                              *)
(***************************************************************************)
\* Whoever connects to the name reaches the active server, and who got the lock can bind
\* ("We got the lock, so clobber the UDS if it's there so bind will succeed",
\* ServerSocketImpl.cpp), whichever servers have crashed before or fail to start beside
\* it.
NameLeadsToServer == \A p \in Servers :
    /\ pc[p] = "active" => socketFile = p
    /\ pc[p] # "bindFailed"
=============================================================================
