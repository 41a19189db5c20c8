---------------------------- MODULE COWReference ----------------------------
(***************************************************************************)
(* Copy on write: COWReference with COWReferenceBase (the count is an      *)
(* object of its own), and COWIntrusiveReference with                      *)
(* COWIntrusiveCountableBase (the count is part of the object).  The same  *)
(* steps are taken in both, one class tests "more than one" where the      *)
(* other tests "exactly one".                                              *)
(*                                                                         *)
(* Each reference is used by a thread of its own; what the threads share   *)
(* are the objects and the counts.  An operation on a count is atomic and  *)
(* is one action, and so is the copy, the write or the deletion of an      *)
(* object, so that an operation of one thread can find anything between    *)
(* two steps of another.                                                   *)
(***************************************************************************)
EXTENDS Integers, FiniteSets

CONSTANTS
    Refs,           \* the references, each with its thread
    Objects,        \* what new objects and clones are allocated from
    Values,         \* what an object holds
    Null            \* the null pointer

VARIABLES
    content,        \* what each object holds; Null if it does not exist
    useCount,       \* the count that belongs to each object
    m_pObj,         \* the object that each reference points to
    tmp,            \* the clone that each thread has made
    rpc,            \* where each thread is in its operation
    wish,           \* the value that each thread is about to write
    value           \* history: what each reference was last assigned

cowVars == <<content, useCount, m_pObj, tmp, rpc, wish, value>>

Live(o) == content[o] # Null
Free == {o \in Objects : content[o] = Null}
Pointed(r) == rpc[r] = "idle" /\ m_pObj[r] # Null

Init ==
    /\ content = [o \in Objects |-> Null]
    /\ useCount = [o \in Objects |-> 0]
    /\ m_pObj = [r \in Refs |-> Null] /\ tmp = [r \in Refs |-> Null]
    /\ rpc = [r \in Refs |-> "idle"]
    /\ wish = [r \in Refs |-> Null]
    /\ value = [r \in Refs |-> Null]

\* COWReference(new T): a count of one.
Construct(r, v) ==
    /\ rpc[r] = "idle" /\ m_pObj[r] = Null
    /\ \E o \in Free :
          /\ content' = [content EXCEPT ![o] = v]
          /\ useCount' = [useCount EXCEPT ![o] = 1]
          /\ m_pObj' = [m_pObj EXCEPT ![r] = o]
    /\ value' = [value EXCEPT ![r] = v]
    /\ UNCHANGED <<tmp, rpc, wish>>

\* Copy construction from a reference that its own thread leaves alone meanwhile.
CopyFrom(r, s) ==
    /\ rpc[r] = "idle" /\ m_pObj[r] = Null
    /\ Pointed(s)
    /\ m_pObj' = [m_pObj EXCEPT ![r] = m_pObj[s]]
    /\ useCount' = [useCount EXCEPT ![m_pObj[s]] = @ + 1]
    /\ value' = [value EXCEPT ![r] = value[s]]
    /\ UNCHANGED <<content, tmp, rpc, wish>>

\* The destructor: decRef(), or COWIntrusiveReferenceRelease(),
DecRef(r) ==
    /\ Pointed(r)
    /\ useCount' = [useCount EXCEPT ![m_pObj[r]] = @ - 1]
    /\ IF useCount'[m_pObj[r]] = 0
       THEN rpc' = [rpc EXCEPT ![r] = "delete"] /\ UNCHANGED m_pObj
       ELSE m_pObj' = [m_pObj EXCEPT ![r] = Null] /\ UNCHANGED rpc
    /\ value' = [value EXCEPT ![r] = Null]
    /\ UNCHANGED <<content, tmp, wish>>

\* and the deletion by whom has taken the count to zero.
DeleteObject(r) ==
    /\ rpc[r] = "delete"
    /\ content' = [content EXCEPT ![m_pObj[r]] = Null]
    /\ m_pObj' = [m_pObj EXCEPT ![r] = Null]
    /\ rpc' = [rpc EXCEPT ![r] = "idle"]
    /\ UNCHANGED <<useCount, tmp, wish, value>>

\* Variant: the comparison is off by one.
LookAtCount_OffByOne(r, v) ==
    /\ Pointed(r)
    /\ wish' = [wish EXCEPT ![r] = v]
    /\ rpc' = [rpc EXCEPT ![r] = IF useCount[m_pObj[r]] <= 2 THEN "write" ELSE "clone"]
    /\ UNCHANGED <<content, useCount, m_pObj, tmp, value>>

\* Non-const operator->() or operator*(): getWriteLock() looks at the count,
LookAtCount(r, v) ==
    /\ Pointed(r)
    /\ wish' = [wish EXCEPT ![r] = v]
    /\ rpc' = [rpc EXCEPT ![r] = IF useCount[m_pObj[r]] = 1 THEN "write" ELSE "clone"]
    /\ UNCHANGED <<content, useCount, m_pObj, tmp, value>>

\* Variant: the count is given up first, and the object copied after that;
\* tmp stands for the old pointer in between.
CloneObject_AfterRelease(r) ==
    /\ rpc[r] = "clone"
    /\ \/ /\ tmp[r] = Null
          /\ useCount' = [useCount EXCEPT ![m_pObj[r]] = @ - 1]
          /\ tmp' = [tmp EXCEPT ![r] = m_pObj[r]]
          /\ UNCHANGED <<content, m_pObj, rpc>>
       \/ /\ tmp[r] = m_pObj[r]
          /\ \E o \in Free :
                /\ content' = [content EXCEPT ![o] = content[m_pObj[r]]]
                /\ useCount' = [useCount EXCEPT ![o] = 1]
                /\ m_pObj' = [m_pObj EXCEPT ![r] = o]
          /\ tmp' = [tmp EXCEPT ![r] = Null]
          /\ rpc' = [rpc EXCEPT ![r] = "write"]
    /\ UNCHANGED <<wish, value>>

\* makes a copy while its own count still keeps the object,
CloneObject(r) ==
    /\ rpc[r] = "clone"
    /\ \E o \in Free :
          /\ content' = [content EXCEPT ![o] = content[m_pObj[r]]]
          /\ tmp' = [tmp EXCEPT ![r] = o]
    /\ rpc' = [rpc EXCEPT ![r] = "release"]
    /\ UNCHANGED <<useCount, m_pObj, wish, value>>

\* (a copy constructor may throw, and nothing has changed yet)
CloneThrows(r) ==
    /\ rpc[r] = "clone"
    /\ rpc' = [rpc EXCEPT ![r] = "idle"] /\ wish' = [wish EXCEPT ![r] = Null]
    /\ UNCHANGED <<content, useCount, m_pObj, tmp, value>>

\* and gives up its count: the last one undoes that, the others take the clone.
ReleaseShared(r) ==
    /\ rpc[r] = "release"
    /\ IF useCount[m_pObj[r]] = 1
       THEN /\ useCount' = [useCount EXCEPT ![m_pObj[r]] = 0]
            /\ rpc' = [rpc EXCEPT ![r] = "undo"]
            /\ UNCHANGED <<m_pObj, tmp>>
       ELSE /\ useCount' = [useCount EXCEPT ![m_pObj[r]] = @ - 1, ![tmp[r]] = 1]
            /\ rpc' = [rpc EXCEPT ![r] = "write"]
            /\ m_pObj' = [m_pObj EXCEPT ![r] = tmp[r]]
            /\ tmp' = [tmp EXCEPT ![r] = Null]
    /\ UNCHANGED <<content, wish, value>>

\* Variant: the clone that turned out not to be needed is not deleted.
UndoRelease_Leaks(r) ==
    /\ rpc[r] = "undo"
    /\ useCount' = [useCount EXCEPT ![m_pObj[r]] = @ + 1]
    /\ tmp' = [tmp EXCEPT ![r] = Null]
    /\ rpc' = [rpc EXCEPT ![r] = "write"]
    /\ UNCHANGED <<content, m_pObj, wish, value>>

UndoRelease(r) ==
    /\ rpc[r] = "undo"
    /\ useCount' = [useCount EXCEPT ![m_pObj[r]] = @ + 1]
    /\ content' = [content EXCEPT ![tmp[r]] = Null]
    /\ tmp' = [tmp EXCEPT ![r] = Null]
    /\ rpc' = [rpc EXCEPT ![r] = "write"]
    /\ UNCHANGED <<m_pObj, wish, value>>

\* The caller writes through the pointer it got.
WriteThrough(r) ==
    /\ rpc[r] = "write"
    /\ content' = [content EXCEPT ![m_pObj[r]] = wish[r]]
    /\ value' = [value EXCEPT ![r] = wish[r]]
    /\ wish' = [wish EXCEPT ![r] = Null]
    /\ rpc' = [rpc EXCEPT ![r] = "idle"]
    /\ UNCHANGED <<useCount, m_pObj, tmp>>

\* swap(), which operator=() is made of with a copy and a destruction.
Swap(r, s) ==
    /\ rpc[r] = "idle" /\ rpc[s] = "idle"
    /\ m_pObj' = [m_pObj EXCEPT ![r] = m_pObj[s], ![s] = m_pObj[r]]
    /\ value' = [value EXCEPT ![r] = value[s], ![s] = value[r]]
    /\ UNCHANGED <<content, useCount, tmp, rpc, wish>>

Next ==
    \/ \E r \in Refs, v \in Values : Construct(r, v) \/ LookAtCount(r, v)
    \/ \E r, s \in Refs : CopyFrom(r, s) \/ Swap(r, s)
    \/ \E r \in Refs :
          \/ DecRef(r) \/ DeleteObject(r)
          \/ CloneObject(r) \/ CloneThrows(r) \/ ReleaseShared(r) \/ UndoRelease(r)
          \/ WriteThrough(r)

Spec == Init /\ [][Next]_cowVars

TypeOK ==
    /\ content \in [Objects -> Values \cup {Null}]
    /\ useCount \in [Objects -> Int]
    /\ m_pObj \in [Refs -> Objects \cup {Null}]
    /\ tmp \in [Refs -> Objects \cup {Null}]
    /\ rpc \in [Refs -> {"idle", "clone", "release", "undo", "write", "delete"}]
    /\ wish \in [Refs -> Values \cup {Null}]
    /\ value \in [Refs -> Values \cup {Null}]

\* No thread holds a pointer to an object that another one has deleted, in
\* particular none that is about to copy it.
NothingDangles ==
    \A r \in Refs : /\ m_pObj[r] # Null => Live(m_pObj[r])
                    /\ tmp[r] # Null => Live(tmp[r])

\* References behave like values: what is read through one is what was last
\* assigned to it, and no write through another one ever shows.
ValueSemantics ==
    \A r \in Refs :
        m_pObj[r] # Null /\ rpc[r] # "delete" => content[m_pObj[r]] = value[r]

\* Every object is still pointed to by somebody: none is leaked when threads
\* give up their counts at the same time, and no clone outlives its call.
NothingLeaks ==
    \A o \in Objects : Live(o) => \E r \in Refs : m_pObj[r] = o \/ tmp[r] = o

\* The three together.
ReferencesActLikeValues == NothingDangles /\ ValueSemantics /\ NothingLeaks
=============================================================================
