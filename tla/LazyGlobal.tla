----------------------------- MODULE LazyGlobal -----------------------------
(***************************************************************************)
(* callOnce() of src/blocxx/ThreadOnce.hpp (double-checked locking), with  *)
(* the two classes made of it: LazyGlobal, whose destructor deletes the    *)
(* object and resets the flag, and GlobalPtr, whose set() replaces it.     *)
(*                                                                         *)
(* The first look at the flag and the pointer that get() returns are read  *)
(* without the mutex.  What another thread sees of the two stores in       *)
(* between (the pointer, then the flag) is up to the machine: "pending"    *)
(* holds the stores that only their own thread sees so far, and unlocking  *)
(* the mutex makes all of them visible.                                    *)
(***************************************************************************)
EXTENDS Naturals, FiniteSets, Sequences, SequencesExt

CONSTANTS
    Threads,        \* the threads that call get()
    Class,          \* "LazyGlobal" or "GlobalPtr"
    StoresInOrder,  \* do other processors see two stores in the order they are made?
    MaxObjects      \* bound: objects ever created

VARIABLES
    flag,           \* OnceFlag::flag as other threads see it
    m_p,            \* the pointer as other threads see it; 0 is null
    pending,        \* stores of the lock's holder that are not visible yet
    holder,         \* the threads that hold OnceFlag::mtx, one at most
    gpc,            \* where each thread is in get()
    got,            \* what the last get() of each thread returned
    created,        \* objects created so far; they are numbered
    deleted         \* objects deleted

onceVars == <<flag, m_p, pending, holder, gpc, got, created, deleted>>

Init ==
    /\ flag = 0 /\ m_p = 0 /\ pending = <<>> /\ holder = {}
    /\ gpc = [t \in Threads |-> "idle"]
    /\ got = [t \in Threads |-> 0]
    /\ created = 0 /\ deleted = {}

CallGet(t) ==
    /\ gpc[t] = "idle"
    /\ gpc' = [gpc EXCEPT ![t] = "check"]
    /\ got' = [got EXCEPT ![t] = 0]
    /\ UNCHANGED <<flag, m_p, pending, holder, created, deleted>>

\* The look at the flag without the mutex.
FirstCheck(t) ==
    /\ gpc[t] = "check"
    /\ gpc' = [gpc EXCEPT ![t] = IF flag = 0 THEN "lock" ELSE "read"]
    /\ UNCHANGED <<flag, m_p, pending, holder, got, created, deleted>>

\* Variant: the flag is not looked at again under the mutex.
LockAndCheck_Once(t) ==
    /\ gpc[t] = "lock" /\ holder = {}
    /\ holder' = {t}
    /\ gpc' = [gpc EXCEPT ![t] = "create"]
    /\ UNCHANGED <<flag, m_p, pending, got, created, deleted>>

\* pthread_mutex_lock(), the second look, and for those who come too late unlock.
LockAndCheck(t) ==
    /\ gpc[t] = "lock" /\ holder = {}
    /\ IF flag = 0
       THEN holder' = {t} /\ gpc' = [gpc EXCEPT ![t] = "create"]
       ELSE gpc' = [gpc EXCEPT ![t] = "read"] /\ UNCHANGED holder
    /\ UNCHANGED <<flag, m_p, pending, got, created, deleted>>

\* InitPtr: m_p = FactoryT::create().
Create(t) ==
    /\ gpc[t] = "create" /\ created < MaxObjects
    /\ created' = created + 1
    /\ pending' = Append(pending, [var |-> "m_p", value |-> created'])
    /\ gpc' = [gpc EXCEPT ![t] = "setFlag"]
    /\ UNCHANGED <<flag, m_p, holder, got, deleted>>

\* Variant: a factory that throws leaves the mutex locked.
CreateThrows_KeepsLock(t) ==
    /\ gpc[t] = "create"
    /\ gpc' = [gpc EXCEPT ![t] = "idle"]
    /\ UNCHANGED <<flag, m_p, pending, holder, got, created, deleted>>

\* The factory throws: CallOnce_pthread_MutexLock unlocks, the flag stays 0 and
\* the caller gets the exception.
CreateThrows(t) ==
    /\ gpc[t] = "create"
    /\ holder' = {}
    /\ gpc' = [gpc EXCEPT ![t] = "idle"]
    /\ UNCHANGED <<flag, m_p, pending, got, created, deleted>>

SetFlag(t) ==
    /\ gpc[t] = "setFlag"
    /\ pending' = Append(pending, [var |-> "flag", value |-> 1])
    /\ gpc' = [gpc EXCEPT ![t] = "unlock"]
    /\ UNCHANGED <<flag, m_p, holder, got, created, deleted>>

\* A store of the holder reaches the other processors.
StoreBecomesVisible ==
    \E i \in 1..Len(pending) :
        /\ StoresInOrder => i = 1
        /\ flag' = IF pending[i].var = "flag" THEN pending[i].value ELSE flag
        /\ m_p' = IF pending[i].var = "m_p" THEN pending[i].value ELSE m_p
        /\ pending' = RemoveAt(pending, i)
        /\ UNCHANGED <<holder, gpc, got, created, deleted>>

Unlock(t) ==
    /\ gpc[t] = "unlock" /\ pending = <<>>
    /\ holder' = {}
    /\ gpc' = [gpc EXCEPT ![t] = "read"]
    /\ UNCHANGED <<flag, m_p, pending, got, created, deleted>>

\* return m_p, or *m_p, without the mutex.
ReadPtr(t) ==
    /\ gpc[t] = "read"
    /\ got' = [got EXCEPT ![t] = m_p]
    /\ gpc' = [gpc EXCEPT ![t] = "idle"]
    /\ UNCHANGED <<flag, m_p, pending, holder, created, deleted>>

NobodyInside == \A t \in Threads : gpc[t] = "idle"

\* Variant: the destructor does not reset the flag.
Destruct_KeepsFlag ==
    /\ Class = "LazyGlobal" /\ NobodyInside
    /\ deleted' = deleted \cup ({m_p} \ {0})
    /\ m_p' = 0
    /\ got' = [t \in Threads |-> 0]
    /\ UNCHANGED <<flag, pending, holder, gpc, created>>

\* ~LazyGlobal(), at the end of the program: no thread is in get(), and no thread
\* uses what an earlier one returned.
Destruct ==
    /\ Class = "LazyGlobal" /\ NobodyInside
    /\ deleted' = deleted \cup ({m_p} \ {0})
    /\ m_p' = 0 /\ flag' = 0
    /\ got' = [t \in Threads |-> 0]
    /\ UNCHANGED <<pending, holder, gpc, created>>

\* GlobalPtr::set(), which is not thread safe: it initialises the pointer if
\* nobody has, then replaces it. The caller owns the previous object.
Set ==
    /\ Class = "GlobalPtr" /\ NobodyInside /\ created + 1 - flag < MaxObjects
    /\ created' = created + 2 - flag
    /\ m_p' = created' /\ flag' = 1
    /\ deleted' = deleted \cup {IF flag = 1 THEN m_p ELSE created + 1}
    /\ got' = [t \in Threads |-> 0]
    /\ UNCHANGED <<pending, holder, gpc>>

GetStep(t) ==
    \/ FirstCheck(t) \/ LockAndCheck(t) \/ Create(t) \/ CreateThrows(t) \/ SetFlag(t)
    \/ Unlock(t) \/ ReadPtr(t)

Next ==
    \/ \E t \in Threads : CallGet(t) \/ GetStep(t)
    \/ StoreBecomesVisible \/ Destruct \/ Set

Spec == Init /\ [][Next]_onceVars

\* Runnable threads run, and stores become visible.
FairSpec ==
    Spec /\ WF_onceVars(StoreBecomesVisible) /\ \A t \in Threads : WF_onceVars(GetStep(t))

Stores == [var : {"m_p", "flag"}, value : 0..MaxObjects]

TypeOK ==
    /\ flag \in {0, 1} /\ m_p \in 0..MaxObjects
    /\ pending \in Seq(Stores) /\ Len(pending) <= 2
    /\ holder \subseteq Threads /\ Cardinality(holder) <= 1
    /\ gpc \in [Threads -> {"idle", "check", "lock", "create", "setFlag", "unlock", "read"}]
    /\ got \in [Threads -> 0..MaxObjects]
    /\ created \in 0..MaxObjects /\ deleted \subseteq 1..MaxObjects

\* However many threads race for the first get(), and however often the factory
\* threw before, one object exists: those created and not deleted are one.
OneObject == Cardinality(1..created \ deleted) <= 1

\* "All calls to get() are thread safe" (LazyGlobal.hpp, GlobalPtr.hpp): a thread
\* that leaves the flag's check behind reads a pointer to the live object.
GetsTheObject ==
    \A t \in Threads :
        /\ gpc[t] = "read" => m_p # 0
        /\ got[t] # 0 => got[t] = m_p /\ got[t] \notin deleted

\* No thread calls get().
NoNewGet == \A t \in Threads : gpc[t] = "idle" => gpc'[t] = "idle"

\* Once no new calls come, every get() has returned or thrown: nobody waits for
\* the mutex for ever, a factory that throws included.
GetsReturn ==
    <>[][NoNewGet]_onceVars => \A t \in Threads : gpc[t] # "idle" ~> gpc[t] = "idle"
=============================================================================
