---------------------------- MODULE SystemProofs ----------------------------
(***************************************************************************)
(* Proofs about components that deal with processes, sockets, time and     *)
(* memory, under the names that MCSystem gives them, and about MCSystem    *)
(* itself: whatever component moves, each keeps its types and its promise. *)
(***************************************************************************)
EXTENDS DataProofs

(***************************************************************************)
(* COWReference: the references of different threads behave like values of *)
(* their own, without a lock.                                              *)
(***************************************************************************)
\* Objects and values are told from the null pointer.
COWAssumption ==
    /\ IsFiniteSet(Refs)
    /\ None \notin CowObjects /\ None \notin Values

\* The references that are counted: not those that have given up their count.
Holders(o) == {r \in Refs : m_pObj[r] = o /\ rpc[r] \notin {"delete", "undo"}}

CountsAreExact == \A o \in CowObjects : useCount[o] = Cardinality(Holders(o))

\* A thread that is about to write to an object, or to delete it, is the only one that
\* points to it.
WritersAreAlone ==
    \A r, s \in Refs :
        r # s /\ m_pObj[r] = m_pObj[s] /\ m_pObj[r] # None
            => rpc[r] \in {"idle", "clone", "release"}

\* A clone belongs to the thread that made it, and holds the value it was made from.
ClonesArePrivate ==
    /\ \A r \in Refs : tmp[r] # None <=> rpc[r] \in {"release", "undo"}
    /\ \A r \in Refs : tmp[r] # None => content[tmp[r]] = value[r]
    /\ \A r, s \in Refs : tmp[r] # None => m_pObj[s] # tmp[r] /\ (tmp[s] = tmp[r] => s = r)

\* An operation under way has an object and, unless it deletes, something to write.
OperationsAreSound ==
    \A r \in Refs : /\ rpc[r] # "idle" => m_pObj[r] # None
                    /\ rpc[r] \in {"clone", "release", "undo", "write"} => wish[r] \in Values

COWInv ==
    /\ Cow!TypeOK /\ Cow!NothingDangles /\ Cow!ValueSemantics /\ Cow!NothingLeaks
    /\ CountsAreExact /\ WritersAreAlone /\ ClonesArePrivate /\ OperationsAreSound

\* Facts about finite sets of references.
LEMMA HolderFacts ==
    ASSUME COWAssumption, NEW S \in SUBSET Refs
    PROVE  /\ IsFiniteSet(S) /\ Cardinality(S) \in Nat
           /\ Cardinality(S) = 0 <=> S = {}
           /\ \A r \in S : Cardinality(S) = 1 <=> S = {r}
           /\ \A r \in Refs \ S : Cardinality(S \cup {r}) = Cardinality(S) + 1
           /\ \A r \in S : Cardinality(S \ {r}) = Cardinality(S) - 1
<1>1. IsFiniteSet(S)
  BY FS_Subset DEF COWAssumption
<1>2. Cardinality(S) \in Nat /\ (Cardinality(S) = 0 <=> S = {})
  BY <1>1, FS_CardinalityType, FS_EmptySet
<1>3. \A r \in S : Cardinality(S \ {r}) = Cardinality(S) - 1
  BY <1>1, FS_RemoveElement
<1>4. \A r \in Refs \ S : Cardinality(S \cup {r}) = Cardinality(S) + 1
  BY <1>1, FS_AddElement
<1>5. \A r \in S : Cardinality(S) = 1 <=> S = {r}
  BY <1>1, FS_Singleton
<1>6. QED  BY <1>1, <1>2, <1>3, <1>4, <1>5

\* To exchange one element for another does not change how many there are.
LEMMA ExchangeKeepsCount ==
    ASSUME COWAssumption, NEW S \in SUBSET Refs, NEW r \in S, NEW s \in Refs \ S
    PROVE  Cardinality((S \ {r}) \cup {s}) = Cardinality(S)
<1>1. Cardinality(S \ {r}) = Cardinality(S) - 1 /\ Cardinality(S) \in Nat
  BY HolderFacts
<1>2. S \ {r} \in SUBSET Refs /\ s \in Refs \ (S \ {r})
  OBVIOUS
<1>3. Cardinality((S \ {r}) \cup {s}) = Cardinality(S \ {r}) + 1
  BY <1>2, HolderFacts
<1>4. QED  BY <1>1, <1>3

\* A count of one means that nobody else points to the object.
LEMMA CountOfOne ==
    ASSUME COWAssumption, COWInv, NEW r \in Refs, m_pObj[r] # None,
           rpc[r] \notin {"delete", "undo"}, useCount[m_pObj[r]] = 1
    PROVE  /\ Holders(m_pObj[r]) = {r}
           /\ \A s \in Refs \ {r} : m_pObj[s] # m_pObj[r]
<1>1. Holders(m_pObj[r]) = {r}
  <2>1. r \in Holders(m_pObj[r]) /\ Holders(m_pObj[r]) \in SUBSET Refs
    BY DEF Holders
  <2>2. m_pObj[r] \in CowObjects /\ Cardinality(Holders(m_pObj[r])) = 1
    BY DEF COWInv, Cow!TypeOK, CountsAreExact
  <2>3. QED  BY <2>1, <2>2, HolderFacts
<1>2. ASSUME NEW s \in Refs \ {r}, m_pObj[s] = m_pObj[r]  PROVE FALSE
  <2>1. rpc[s] \in {"idle", "clone", "release"}
    BY <1>2 DEF COWInv, WritersAreAlone
  <2>2. s \in Holders(m_pObj[r])
    BY <1>2, <2>1 DEF Holders
  <2>3. QED  BY <1>1, <1>2, <2>2
<1>3. QED  BY <1>1, <1>2

\* A count that is not one means that somebody else points to it.
LEMMA CountOfMore ==
    ASSUME COWAssumption, COWInv, NEW r \in Refs, m_pObj[r] # None,
           rpc[r] \notin {"delete", "undo"}, useCount[m_pObj[r]] # 1
    PROVE  \E s \in Refs \ {r} : m_pObj[s] = m_pObj[r]
<1>1. r \in Holders(m_pObj[r]) /\ Holders(m_pObj[r]) \in SUBSET Refs
  BY DEF Holders
<1>2. m_pObj[r] \in CowObjects /\ Cardinality(Holders(m_pObj[r])) # 1
  BY DEF COWInv, Cow!TypeOK, CountsAreExact
<1>3. Holders(m_pObj[r]) # {r}
  BY <1>1, <1>2, HolderFacts
<1>4. QED  BY <1>1, <1>3 DEF Holders

\* Nobody points to what does not exist.
LEMMA FreeIsUnused ==
    ASSUME COWAssumption, COWInv, NEW o \in Cow!Free
    PROVE  /\ o \in CowObjects /\ o # None /\ useCount[o] = 0
           /\ \A r \in Refs : m_pObj[r] # o /\ tmp[r] # o
<1>1. /\ o \in CowObjects /\ o # None
      /\ \A r \in Refs : m_pObj[r] # o /\ tmp[r] # o
  BY DEF Cow!Free, COWAssumption, COWInv, Cow!NothingDangles, Cow!Live
<1>2. Holders(o) = {}
  BY <1>1 DEF Holders
<1>3. QED  BY <1>1, <1>2, HolderFacts DEF COWInv, CountsAreExact

\* A step that moves no reference to or from an object keeps its holders.
LEMMA SameHolders ==
    ASSUME NEW o,
           \A r \in Refs : /\ m_pObj'[r] = o <=> m_pObj[r] = o
                           /\ m_pObj[r] = o => (rpc'[r] \in {"delete", "undo"}
                                                   <=> rpc[r] \in {"delete", "undo"})
    PROVE  Holders(o)' = Holders(o)
  BY DEF Holders

\* Counts stay exact when one object's count follows its holders and no other's change.
LEMMA OneCountMoves ==
    ASSUME COWInv, NEW o \in CowObjects, useCount'[o] = Cardinality(Holders(o)'),
           \A p \in CowObjects \ {o} : useCount'[p] = useCount[p] /\ Holders(p)' = Holders(p)
    PROVE  CountsAreExact'
  BY DEF COWInv, CountsAreExact

\* A new object has one holder.
LEMMA ConstructIsSound ==
    ASSUME COWAssumption, COWInv, NEW r \in Refs, NEW v \in Values, Cow!Construct(r, v)
    PROVE  COWInv'
<1>1. PICK o \in Cow!Free : /\ content' = [content EXCEPT ![o] = v]
                        /\ useCount' = [useCount EXCEPT ![o] = 1]
                        /\ m_pObj' = [m_pObj EXCEPT ![r] = o]
  BY DEF Cow!Construct
<1>2. /\ rpc[r] = "idle" /\ m_pObj[r] = None /\ tmp[r] = None
      /\ value' = [value EXCEPT ![r] = v] /\ UNCHANGED <<tmp, rpc, wish>>
  BY DEF Cow!Construct, COWInv, ClonesArePrivate
<1>3. /\ o \in CowObjects /\ o # None /\ useCount[o] = 0
      /\ \A s \in Refs : m_pObj[s] # o /\ tmp[s] # o
  BY FreeIsUnused
<1>4. Cow!TypeOK'
  BY <1>1, <1>2, <1>3 DEF COWInv, Cow!TypeOK
<1>5. Cow!NothingDangles' /\ Cow!ValueSemantics' /\ Cow!NothingLeaks'
  BY <1>1, <1>2, <1>3 DEF COWAssumption, COWInv, Cow!TypeOK, Cow!NothingDangles,
     Cow!ValueSemantics, Cow!NothingLeaks, Cow!Live
<1>6. CountsAreExact'
  <2>1. \A p \in CowObjects \ {o} : Holders(p)' = Holders(p)
    BY <1>1, <1>2 DEF COWAssumption, COWInv, Cow!TypeOK, Holders
  <2>2. Holders(o)' = {r}
    BY <1>1, <1>2, <1>3 DEF COWInv, Cow!TypeOK, Holders
  <2>3. Cardinality(Holders(o)') = 1
    BY <2>2, FS_Singleton
  <2>4. QED  BY <1>1, <1>3, <2>1, <2>3 DEF COWInv, Cow!TypeOK, CountsAreExact
<1>7. WritersAreAlone' /\ ClonesArePrivate' /\ OperationsAreSound'
  BY <1>1, <1>2, <1>3 DEF COWInv, Cow!TypeOK, WritersAreAlone, ClonesArePrivate,
     OperationsAreSound
<1>8. QED  BY <1>4, <1>5, <1>6, <1>7 DEF COWInv

\* A copy adds one holder.
LEMMA CopyFromIsSound ==
    ASSUME COWAssumption, COWInv, NEW r \in Refs, NEW s \in Refs, Cow!CopyFrom(r, s)
    PROVE  COWInv'
<1> DEFINE o == m_pObj[s]
<1>1. /\ rpc[r] = "idle" /\ m_pObj[r] = None /\ tmp[r] = None
      /\ rpc[s] = "idle" /\ o # None /\ o \in CowObjects /\ r # s
      /\ m_pObj' = [m_pObj EXCEPT ![r] = o]
      /\ useCount' = [useCount EXCEPT ![o] = @ + 1]
      /\ value' = [value EXCEPT ![r] = value[s]]
      /\ UNCHANGED <<content, tmp, rpc, wish>>
  BY DEF Cow!CopyFrom, Cow!Pointed, COWInv, Cow!TypeOK, ClonesArePrivate
<1>2. Cow!TypeOK'
  BY <1>1 DEF COWInv, Cow!TypeOK
<1>3. Cow!NothingDangles' /\ Cow!ValueSemantics' /\ Cow!NothingLeaks'
  <2>1. /\ m_pObj'[r] = m_pObj[s] /\ value'[r] = value[s]
        /\ \A u \in Refs \ {r} : m_pObj'[u] = m_pObj[u] /\ value'[u] = value[u]
    BY <1>1 DEF COWInv, Cow!TypeOK
  <2>2. Cow!NothingDangles'
    BY <1>1, <2>1 DEF COWInv, Cow!NothingDangles, Cow!Live
  <2>3. Cow!ValueSemantics'
    BY <1>1, <2>1 DEF COWInv, Cow!ValueSemantics
  <2>4. Cow!NothingLeaks'
    BY <1>1, <2>1 DEF COWInv, Cow!NothingLeaks, Cow!Live
  <2>5. QED  BY <2>2, <2>3, <2>4
<1>4. CountsAreExact'
  <2>1. \A p \in CowObjects \ {o} : Holders(p)' = Holders(p)
    BY <1>1 DEF COWAssumption, COWInv, Cow!TypeOK, Holders
  <2>2. Holders(o)' = Holders(o) \cup {r} /\ r \notin Holders(o)
    <3>1. \A u \in Refs : m_pObj'[u] = IF u = r THEN o ELSE m_pObj[u]
      BY <1>1 DEF COWInv, Cow!TypeOK
    <3>2. o # None /\ m_pObj[r] = None /\ rpc[r] = "idle" /\ rpc' = rpc
      BY <1>1
    <3>3. QED  BY <3>1, <3>2 DEF Holders
  <2>3. Cardinality(Holders(o)') = Cardinality(Holders(o)) + 1
    <3>1. Holders(o) \in SUBSET Refs /\ r \in Refs \ Holders(o)
      BY <2>2 DEF Holders
    <3>2. Cardinality(Holders(o) \cup {r}) = Cardinality(Holders(o)) + 1
      BY <3>1, HolderFacts
    <3>3. QED  BY <2>2, <3>2
  <2>4. /\ useCount'[o] = useCount[o] + 1
        /\ \A p \in CowObjects \ {o} : useCount'[p] = useCount[p]
    BY <1>1 DEF COWInv, Cow!TypeOK
  <2>5. \A p \in CowObjects : useCount[p] = Cardinality(Holders(p))
    BY DEF COWInv, CountsAreExact
  <2>6. \A p \in CowObjects : useCount'[p] = Cardinality(Holders(p)')
    BY <1>1, <2>1, <2>3, <2>4, <2>5
  <2>7. QED  BY <2>6 DEF CountsAreExact
<1>5. WritersAreAlone'
  BY <1>1 DEF COWInv, Cow!TypeOK, WritersAreAlone
<1>6. ClonesArePrivate' /\ OperationsAreSound'
  BY <1>1 DEF COWInv, Cow!TypeOK, ClonesArePrivate, OperationsAreSound
<1>7. QED  BY <1>2, <1>3, <1>4, <1>5, <1>6 DEF COWInv

\* The last count makes its thread the one that deletes.
LEMMA DecRefIsSound ==
    ASSUME COWAssumption, COWInv, NEW r \in Refs, Cow!DecRef(r)
    PROVE  COWInv'
<1>0. PICK o \in CowObjects : o = m_pObj[r]
  BY DEF Cow!DecRef, Cow!Pointed, COWInv, Cow!TypeOK
<1>1. /\ rpc[r] = "idle" /\ m_pObj[r] # None /\ tmp[r] = None
      /\ useCount' = [useCount EXCEPT ![o] = @ - 1] /\ useCount'[o] = useCount[o] - 1
      /\ value' = [value EXCEPT ![r] = None]
      /\ UNCHANGED <<content, tmp, wish>> /\ useCount[o] \in Int
      /\ \A p \in CowObjects \ {o} : useCount'[p] = useCount[p]
  BY <1>0 DEF Cow!DecRef, Cow!Pointed, COWInv, Cow!TypeOK, ClonesArePrivate
<1>2. Cow!TypeOK'
  BY <1>1 DEF COWInv, Cow!TypeOK, Cow!DecRef
<1>3. CASE useCount[o] = 1
  <2>1. rpc' = [rpc EXCEPT ![r] = "delete"] /\ m_pObj' = m_pObj
    BY <1>0, <1>1, <1>3 DEF Cow!DecRef
  <2>2. Holders(o) = {r} /\ \A s \in Refs \ {r} : m_pObj[s] # o
    BY <1>0, <1>1, <1>3, CountOfOne
  <2>3. CountsAreExact'
    <3>1. \A p \in CowObjects \ {o} : Holders(p)' = Holders(p)
      BY <1>0, <2>1 DEF COWInv, Cow!TypeOK, Holders
    <3>2. Holders(o)' = {}
      BY <2>1, <2>2 DEF COWInv, Cow!TypeOK, Holders
    <3>3. Cardinality(Holders(o)') = 0
      BY <3>2, FS_EmptySet
    <3>4. QED  BY <1>1, <1>3, <3>1, <3>3, OneCountMoves
  <2>4. Cow!NothingDangles' /\ Cow!ValueSemantics' /\ Cow!NothingLeaks'
    BY <1>0, <1>1, <2>1 DEF COWInv, Cow!TypeOK, Cow!NothingDangles, Cow!ValueSemantics,
       Cow!NothingLeaks, Cow!Live
  <2>5. WritersAreAlone' /\ ClonesArePrivate' /\ OperationsAreSound'
    BY <1>0, <1>1, <2>1, <2>2 DEF COWInv, Cow!TypeOK, WritersAreAlone, ClonesArePrivate,
       OperationsAreSound
  <2>6. QED  BY <1>2, <2>3, <2>4, <2>5 DEF COWInv
<1>4. CASE useCount[o] # 1
  <2>1. m_pObj' = [m_pObj EXCEPT ![r] = None] /\ rpc' = rpc
    BY <1>0, <1>1, <1>4 DEF Cow!DecRef
  <2>2. PICK s \in Refs \ {r} : m_pObj[s] = o
    BY <1>0, <1>1, <1>4, CountOfMore
  <2>3. CountsAreExact'
    <3>1. \A p \in CowObjects \ {o} : Holders(p)' = Holders(p)
      BY <1>0, <2>1 DEF COWAssumption, COWInv, Cow!TypeOK, Holders
    <3>2. Holders(o)' = Holders(o) \ {r} /\ r \in Holders(o)
      BY <1>0, <1>1, <2>1 DEF COWAssumption, COWInv, Cow!TypeOK, Holders
    <3>3. Cardinality(Holders(o)') = Cardinality(Holders(o)) - 1
      BY <3>2, HolderFacts DEF Holders
    <3>4. useCount[o] = Cardinality(Holders(o))
      BY DEF COWInv, CountsAreExact
    <3>5. QED  BY <1>1, <3>1, <3>3, <3>4, OneCountMoves
  <2>4. Cow!NothingDangles' /\ Cow!ValueSemantics'
    BY <1>1, <2>1 DEF COWInv, Cow!TypeOK, Cow!NothingDangles, Cow!ValueSemantics, Cow!Live
  <2>5. Cow!NothingLeaks'
    BY <1>0, <1>1, <2>1, <2>2 DEF COWInv, Cow!TypeOK, Cow!NothingLeaks, Cow!Live
  <2>6. WritersAreAlone' /\ ClonesArePrivate' /\ OperationsAreSound'
    BY <1>1, <2>1 DEF COWAssumption, COWInv, Cow!TypeOK, WritersAreAlone, ClonesArePrivate,
       OperationsAreSound
  <2>7. QED  BY <1>2, <2>3, <2>4, <2>5, <2>6 DEF COWInv
<1>5. QED  BY <1>3, <1>4

\* Nobody else points to what is deleted, and its count is zero already.
LEMMA DeleteObjectIsSound ==
    ASSUME COWAssumption, COWInv, NEW r \in Refs, Cow!DeleteObject(r)
    PROVE  COWInv'
<1>0. PICK o \in CowObjects : o = m_pObj[r]
  BY DEF Cow!DeleteObject, COWInv, Cow!TypeOK, OperationsAreSound
<1>1. /\ rpc[r] = "delete" /\ m_pObj[r] # None /\ tmp[r] = None
      /\ content' = [content EXCEPT ![o] = None]
      /\ m_pObj' = [m_pObj EXCEPT ![r] = None] /\ rpc' = [rpc EXCEPT ![r] = "idle"]
      /\ UNCHANGED <<useCount, tmp, wish, value>>
  BY <1>0 DEF Cow!DeleteObject, COWInv, ClonesArePrivate, OperationsAreSound
<1>2. \A s \in Refs : tmp[s] # o /\ (s # r => m_pObj[s] # o)
  BY <1>0, <1>1 DEF COWInv, WritersAreAlone, ClonesArePrivate
<1>3. Cow!TypeOK'
  BY <1>1 DEF COWInv, Cow!TypeOK
<1>4. Cow!NothingDangles' /\ Cow!ValueSemantics' /\ Cow!NothingLeaks'
  BY <1>0, <1>1, <1>2 DEF COWInv, Cow!TypeOK, Cow!NothingDangles, Cow!ValueSemantics,
     Cow!NothingLeaks, Cow!Live
<1>5. CountsAreExact'
  <2>1. \A p \in CowObjects : Holders(p)' = Holders(p)
    BY <1>0, <1>1 DEF COWAssumption, COWInv, Cow!TypeOK, Holders
  <2>2. QED  BY <1>1, <2>1 DEF COWInv, CountsAreExact
<1>6. WritersAreAlone' /\ ClonesArePrivate' /\ OperationsAreSound'
  BY <1>1, <1>2 DEF COWAssumption, COWInv, Cow!TypeOK, WritersAreAlone, ClonesArePrivate,
     OperationsAreSound
<1>7. QED  BY <1>3, <1>4, <1>5, <1>6 DEF COWInv

\* A thread that finds a count of one may write: nobody else can come to share the object.
LEMMA LookAtCountIsSound ==
    ASSUME COWAssumption, COWInv, NEW r \in Refs, NEW v \in Values, Cow!LookAtCount(r, v)
    PROVE  COWInv'
<1>1. /\ rpc[r] = "idle" /\ m_pObj[r] # None /\ tmp[r] = None
      /\ wish' = [wish EXCEPT ![r] = v] /\ UNCHANGED <<content, useCount, m_pObj, tmp, value>>
      /\ rpc' = [rpc EXCEPT ![r] = IF useCount[m_pObj[r]] = 1 THEN "write" ELSE "clone"]
  BY DEF Cow!LookAtCount, Cow!Pointed, COWInv, ClonesArePrivate
<1>2. Cow!TypeOK'
  BY <1>1 DEF COWInv, Cow!TypeOK
<1>3. Cow!NothingDangles' /\ Cow!ValueSemantics' /\ Cow!NothingLeaks'
  BY <1>1 DEF COWInv, Cow!TypeOK, Cow!NothingDangles, Cow!ValueSemantics, Cow!NothingLeaks,
     Cow!Live
<1>4. CountsAreExact'
  <2>1. \A p \in CowObjects : Holders(p)' = Holders(p)
    BY <1>1 DEF COWInv, Cow!TypeOK, Holders
  <2>2. QED  BY <1>1, <2>1 DEF COWInv, CountsAreExact
<1>5. WritersAreAlone'
  <2>1. useCount[m_pObj[r]] = 1 => \A s \in Refs \ {r} : m_pObj[s] # m_pObj[r]
    BY <1>1, CountOfOne
  <2>2. QED  BY <1>1, <2>1 DEF COWInv, Cow!TypeOK, WritersAreAlone
<1>6. ClonesArePrivate' /\ OperationsAreSound'
  BY <1>1 DEF COWInv, Cow!TypeOK, ClonesArePrivate, OperationsAreSound
<1>7. QED  BY <1>2, <1>3, <1>4, <1>5, <1>6 DEF COWInv

\* The clone is an object that nobody knows of, with the value it was made from.
LEMMA CloneObjectIsSound ==
    ASSUME COWAssumption, COWInv, NEW r \in Refs, Cow!CloneObject(r)
    PROVE  COWInv'
<1>1. PICK o \in Cow!Free : /\ content' = [content EXCEPT ![o] = content[m_pObj[r]]]
                        /\ tmp' = [tmp EXCEPT ![r] = o]
  BY DEF Cow!CloneObject
<1>2. /\ rpc[r] = "clone" /\ m_pObj[r] # None /\ tmp[r] = None /\ wish[r] \in Values
      /\ rpc' = [rpc EXCEPT ![r] = "release"] /\ UNCHANGED <<useCount, m_pObj, wish, value>>
  BY DEF Cow!CloneObject, COWInv, ClonesArePrivate, OperationsAreSound
<1>3. /\ o \in CowObjects /\ o # None /\ \A s \in Refs : m_pObj[s] # o /\ tmp[s] # o
      /\ m_pObj[r] \in CowObjects /\ content[m_pObj[r]] = value[r] /\ content[m_pObj[r]] # None
  BY <1>2, FreeIsUnused DEF COWInv, Cow!TypeOK, Cow!ValueSemantics, Cow!NothingDangles, Cow!Live
<1>4. Cow!TypeOK'
  BY <1>1, <1>2, <1>3 DEF COWInv, Cow!TypeOK
<1>5. Cow!NothingDangles' /\ Cow!ValueSemantics' /\ Cow!NothingLeaks'
  <2>1. /\ content'[o] = value[r] /\ value[r] # None
        /\ \A p \in CowObjects \ {o} : content'[p] = content[p]
        /\ tmp'[r] = o /\ \A s \in Refs \ {r} : tmp'[s] = tmp[s]
    BY <1>1, <1>3 DEF COWInv, Cow!TypeOK
  <2>2. Cow!NothingDangles'
    BY <1>2, <1>3, <2>1 DEF COWInv, Cow!TypeOK, Cow!NothingDangles, Cow!Live
  <2>3. Cow!ValueSemantics'
    BY <1>2, <1>3, <2>1 DEF COWInv, Cow!TypeOK, Cow!ValueSemantics
  <2>4. Cow!NothingLeaks'
    <3>1. ASSUME NEW p \in CowObjects, content'[p] # None
          PROVE  \E s \in Refs : m_pObj'[s] = p \/ tmp'[s] = p
      <4>1. CASE p = o
        BY <2>1, <4>1
      <4>2. CASE p # o
        <5>1. PICK s \in Refs : m_pObj[s] = p \/ tmp[s] = p
          BY <2>1, <3>1, <4>2 DEF COWInv, Cow!NothingLeaks, Cow!Live
        <5>2. p # None
          BY DEF COWAssumption
        <5>3. QED  BY <1>2, <2>1, <5>1, <5>2
      <4>3. QED  BY <4>1, <4>2
    <3>2. QED  BY <3>1 DEF Cow!NothingLeaks, Cow!Live
  <2>5. QED  BY <2>2, <2>3, <2>4
<1>6. CountsAreExact'
  <2>1. \A p \in CowObjects : Holders(p)' = Holders(p)
    BY <1>2 DEF COWInv, Cow!TypeOK, Holders
  <2>2. QED  BY <1>2, <2>1 DEF COWInv, CountsAreExact
<1>7. WritersAreAlone' /\ ClonesArePrivate' /\ OperationsAreSound'
  BY <1>1, <1>2, <1>3 DEF COWInv, Cow!TypeOK, WritersAreAlone, ClonesArePrivate,
     OperationsAreSound
<1>8. QED  BY <1>4, <1>5, <1>6, <1>7 DEF COWInv

\* A copy constructor that throws leaves everything as it was.
LEMMA CloneThrowsIsSound ==
    ASSUME COWAssumption, COWInv, NEW r \in Refs, Cow!CloneThrows(r)
    PROVE  COWInv'
<1>1. /\ rpc[r] = "clone" /\ tmp[r] = None
      /\ rpc' = [rpc EXCEPT ![r] = "idle"] /\ wish' = [wish EXCEPT ![r] = None]
      /\ UNCHANGED <<content, useCount, m_pObj, tmp, value>>
  BY DEF Cow!CloneThrows, COWInv, ClonesArePrivate
<1>2. Cow!TypeOK' /\ Cow!NothingDangles' /\ Cow!ValueSemantics' /\ Cow!NothingLeaks'
  BY <1>1 DEF COWInv, Cow!TypeOK, Cow!NothingDangles, Cow!ValueSemantics, Cow!NothingLeaks,
     Cow!Live
<1>3. CountsAreExact'
  <2>1. \A p \in CowObjects : Holders(p)' = Holders(p)
    BY <1>1 DEF COWInv, Cow!TypeOK, Holders
  <2>2. QED  BY <1>1, <2>1 DEF COWInv, CountsAreExact
<1>4. WritersAreAlone' /\ ClonesArePrivate' /\ OperationsAreSound'
  BY <1>1 DEF COWInv, Cow!TypeOK, WritersAreAlone, ClonesArePrivate, OperationsAreSound
<1>5. QED  BY <1>2, <1>3, <1>4 DEF COWInv

\* Whoever finds that the others have gone meanwhile undoes the release; whoever does not
\* leaves the object to them.
LEMMA ReleaseSharedIsSound ==
    ASSUME COWAssumption, COWInv, NEW r \in Refs, Cow!ReleaseShared(r)
    PROVE  COWInv'
<1>0. PICK o \in CowObjects : o = m_pObj[r]
  BY DEF Cow!ReleaseShared, COWInv, Cow!TypeOK, OperationsAreSound
<1>1. PICK c \in CowObjects : c = tmp[r]
  BY DEF Cow!ReleaseShared, COWInv, Cow!TypeOK, ClonesArePrivate
<1>2. /\ rpc[r] = "release" /\ o # None /\ c # None /\ o # c /\ wish[r] \in Values
      /\ UNCHANGED <<content, wish, value>> /\ useCount[o] \in Int /\ content[c] = value[r]
      /\ \A s \in Refs : m_pObj[s] # c /\ (tmp[s] = c => s = r)
  <2>1. o # None /\ c # None /\ useCount[o] \in Int
    BY DEF COWAssumption, COWInv, Cow!TypeOK
  <2>2. rpc[r] = "release" /\ UNCHANGED <<content, wish, value>>
    BY DEF Cow!ReleaseShared
  <2>3. wish[r] \in Values /\ content[c] = value[r]
    BY <1>1, <2>1, <2>2 DEF COWInv, ClonesArePrivate, OperationsAreSound
  <2>4. \A s \in Refs : m_pObj[s] # c /\ (tmp[s] = c => s = r)
    BY <1>1, <2>1 DEF COWInv, ClonesArePrivate
  <2>5. o # c
    BY <1>0, <2>4
  <2>6. QED  BY <2>1, <2>2, <2>3, <2>4, <2>5
<1>3. CASE useCount[o] = 1
  <2>1. /\ useCount' = [useCount EXCEPT ![o] = 0] /\ rpc' = [rpc EXCEPT ![r] = "undo"]
        /\ UNCHANGED <<m_pObj, tmp>>
    BY <1>0, <1>3 DEF Cow!ReleaseShared
  <2>2. Holders(o) = {r} /\ \A s \in Refs \ {r} : m_pObj[s] # o
    BY <1>0, <1>2, <1>3, CountOfOne
  <2>3. Cow!TypeOK' /\ Cow!NothingDangles' /\ Cow!ValueSemantics' /\ Cow!NothingLeaks'
    BY <1>2, <2>1 DEF COWInv, Cow!TypeOK, Cow!NothingDangles, Cow!ValueSemantics,
       Cow!NothingLeaks, Cow!Live
  <2>4. CountsAreExact'
    <3>1. \A p \in CowObjects \ {o} : useCount'[p] = useCount[p] /\ Holders(p)' = Holders(p)
      BY <1>0, <2>1 DEF COWInv, Cow!TypeOK, Holders
    <3>2. Holders(o)' = {}
      BY <2>1, <2>2 DEF COWInv, Cow!TypeOK, Holders
    <3>3. Cardinality(Holders(o)') = 0 /\ useCount'[o] = 0
      BY <2>1, <3>2, FS_EmptySet DEF COWInv, Cow!TypeOK
    <3>4. QED  BY <3>1, <3>3, OneCountMoves
  <2>5. WritersAreAlone' /\ ClonesArePrivate' /\ OperationsAreSound'
    BY <1>0, <1>1, <1>2, <2>1, <2>2 DEF COWInv, Cow!TypeOK, WritersAreAlone, ClonesArePrivate,
       OperationsAreSound
  <2>6. QED  BY <2>3, <2>4, <2>5 DEF COWInv
<1>4. CASE useCount[o] # 1
  <2>1. /\ useCount' = [useCount EXCEPT ![o] = @ - 1, ![c] = 1]
        /\ rpc' = [rpc EXCEPT ![r] = "write"] /\ m_pObj' = [m_pObj EXCEPT ![r] = c]
        /\ tmp' = [tmp EXCEPT ![r] = None]
    BY <1>0, <1>1, <1>4 DEF Cow!ReleaseShared
  <2>2. PICK s \in Refs \ {r} : m_pObj[s] = o
    BY <1>0, <1>2, <1>4, CountOfMore
  <2>3. Cow!TypeOK'
    BY <1>2, <2>1 DEF COWInv, Cow!TypeOK
  <2>4. Cow!NothingDangles' /\ Cow!ValueSemantics'
    BY <1>0, <1>1, <1>2, <2>1 DEF COWInv, Cow!TypeOK, Cow!NothingDangles, Cow!ValueSemantics,
       Cow!Live
  <2>5. Cow!NothingLeaks'
    BY <1>0, <1>1, <1>2, <2>1, <2>2 DEF COWInv, Cow!TypeOK, Cow!NothingLeaks, Cow!Live
  <2>6. CountsAreExact'
    <3>1. \A p \in CowObjects \ {o, c} : useCount'[p] = useCount[p] /\ Holders(p)' = Holders(p)
      BY <1>0, <2>1 DEF COWInv, Cow!TypeOK, Holders
    <3>2. Cardinality(Holders(o)') = useCount'[o]
      <4>1. Holders(o)' = Holders(o) \ {r} /\ r \in Holders(o)
        BY <1>0, <1>2, <2>1 DEF COWInv, Cow!TypeOK, Holders
      <4>2. Cardinality(Holders(o)') = Cardinality(Holders(o)) - 1
        BY <4>1, HolderFacts DEF Holders
      <4>3. useCount'[o] = useCount[o] - 1
        BY <1>2, <2>1 DEF COWInv, Cow!TypeOK
      <4>4. QED  BY <4>2, <4>3 DEF COWInv, CountsAreExact
    <3>3. Cardinality(Holders(c)') = useCount'[c]
      <4>1. Holders(c)' = {r}
        BY <1>2, <2>1 DEF COWInv, Cow!TypeOK, Holders
      <4>2. useCount'[c] = 1
        BY <1>2, <2>1 DEF COWInv, Cow!TypeOK
      <4>3. QED  BY <4>1, <4>2, FS_Singleton
    <3>4. QED  BY <3>1, <3>2, <3>3 DEF COWInv, CountsAreExact
  <2>7. WritersAreAlone' /\ ClonesArePrivate' /\ OperationsAreSound'
    BY <1>0, <1>1, <1>2, <2>1 DEF COWInv, Cow!TypeOK, WritersAreAlone, ClonesArePrivate,
       OperationsAreSound
  <2>8. QED  BY <2>3, <2>4, <2>5, <2>6, <2>7 DEF COWInv
<1>5. QED  BY <1>3, <1>4

\* Undoing the release takes the count back and deletes the clone.
LEMMA UndoReleaseIsSound ==
    ASSUME COWAssumption, COWInv, NEW r \in Refs, Cow!UndoRelease(r)
    PROVE  COWInv'
<1>0. PICK o \in CowObjects : o = m_pObj[r]
  BY DEF Cow!UndoRelease, COWInv, Cow!TypeOK, OperationsAreSound
<1>1. PICK c \in CowObjects : c = tmp[r]
  BY DEF Cow!UndoRelease, COWInv, Cow!TypeOK, ClonesArePrivate
<1>2. /\ rpc[r] = "undo" /\ o # None /\ c # None /\ o # c /\ useCount[o] \in Int
      /\ useCount' = [useCount EXCEPT ![o] = @ + 1]
      /\ content' = [content EXCEPT ![c] = None] /\ tmp' = [tmp EXCEPT ![r] = None]
      /\ rpc' = [rpc EXCEPT ![r] = "write"] /\ UNCHANGED <<m_pObj, wish, value>>
      /\ \A s \in Refs : m_pObj[s] # c /\ (tmp[s] = c => s = r)
      /\ \A s \in Refs \ {r} : m_pObj[s] # o
  BY <1>0, <1>1 DEF Cow!UndoRelease, COWInv, Cow!TypeOK, COWAssumption, ClonesArePrivate,
     OperationsAreSound, WritersAreAlone
<1>3. Cow!TypeOK'
  BY <1>2 DEF COWInv, Cow!TypeOK
<1>4. Cow!NothingDangles' /\ Cow!ValueSemantics' /\ Cow!NothingLeaks'
  BY <1>0, <1>1, <1>2 DEF COWInv, Cow!TypeOK, Cow!NothingDangles, Cow!ValueSemantics,
     Cow!NothingLeaks, Cow!Live
<1>5. CountsAreExact'
  <2>1. \A p \in CowObjects \ {o} : useCount'[p] = useCount[p] /\ Holders(p)' = Holders(p)
    BY <1>0, <1>2 DEF COWInv, Cow!TypeOK, Holders
  <2>2. Holders(o) = {} /\ Holders(o)' = {r}
    BY <1>0, <1>2 DEF COWInv, Cow!TypeOK, Holders
  <2>3. useCount[o] = 0 /\ Cardinality(Holders(o)') = 1
    BY <2>2, FS_EmptySet, FS_Singleton DEF COWInv, CountsAreExact
  <2>4. useCount'[o] = 1
    BY <1>2, <2>3 DEF COWInv, Cow!TypeOK
  <2>5. QED  BY <2>1, <2>3, <2>4, OneCountMoves
<1>6. WritersAreAlone' /\ ClonesArePrivate' /\ OperationsAreSound'
  BY <1>0, <1>1, <1>2 DEF COWInv, Cow!TypeOK, WritersAreAlone, ClonesArePrivate,
     OperationsAreSound
<1>7. QED  BY <1>3, <1>4, <1>5, <1>6 DEF COWInv

\* The write: nobody else can read the object, so no other reference changes its value.
LEMMA WriteThroughIsSound ==
    ASSUME COWAssumption, COWInv, NEW r \in Refs, Cow!WriteThrough(r)
    PROVE  COWInv'
<1>0. PICK o \in CowObjects : o = m_pObj[r]
  BY DEF Cow!WriteThrough, COWInv, Cow!TypeOK, OperationsAreSound
<1>1. /\ rpc[r] = "write" /\ o # None /\ tmp[r] = None /\ wish[r] \in Values
      /\ content' = [content EXCEPT ![o] = wish[r]]
      /\ value' = [value EXCEPT ![r] = wish[r]] /\ wish' = [wish EXCEPT ![r] = None]
      /\ rpc' = [rpc EXCEPT ![r] = "idle"] /\ UNCHANGED <<useCount, m_pObj, tmp>>
      /\ \A s \in Refs : tmp[s] # o
  BY <1>0 DEF Cow!WriteThrough, COWAssumption, COWInv, ClonesArePrivate, OperationsAreSound
<1>2. wish[r] # None /\ \A s \in Refs \ {r} : m_pObj[s] # o
  BY <1>0, <1>1 DEF COWAssumption, COWInv, WritersAreAlone
<1>3. Cow!TypeOK'
  BY <1>1 DEF COWInv, Cow!TypeOK
<1>4. Cow!NothingDangles' /\ Cow!ValueSemantics' /\ Cow!NothingLeaks'
  BY <1>0, <1>1, <1>2 DEF COWInv, Cow!TypeOK, Cow!NothingDangles, Cow!ValueSemantics,
     Cow!NothingLeaks, Cow!Live
<1>5. CountsAreExact'
  <2>1. \A p \in CowObjects : Holders(p)' = Holders(p)
    BY <1>1 DEF COWInv, Cow!TypeOK, Holders
  <2>2. QED  BY <1>1, <2>1 DEF COWInv, CountsAreExact
<1>6. WritersAreAlone' /\ OperationsAreSound'
  BY <1>0, <1>1, <1>2 DEF COWInv, Cow!TypeOK, WritersAreAlone, OperationsAreSound
<1>7. ClonesArePrivate'
  BY <1>0, <1>1 DEF COWInv, Cow!TypeOK, ClonesArePrivate
<1>8. QED  BY <1>3, <1>4, <1>5, <1>6, <1>7 DEF COWInv

\* swap() exchanges two holders, of the same object or of two.
LEMMA SwapIsSound ==
    ASSUME COWAssumption, COWInv, NEW r \in Refs, NEW s \in Refs, Cow!Swap(r, s)
    PROVE  COWInv'
<1>1. /\ rpc[r] = "idle" /\ rpc[s] = "idle" /\ tmp[r] = None /\ tmp[s] = None
      /\ m_pObj' = [m_pObj EXCEPT ![r] = m_pObj[s], ![s] = m_pObj[r]]
      /\ value' = [value EXCEPT ![r] = value[s], ![s] = value[r]]
      /\ UNCHANGED <<content, useCount, tmp, rpc, wish>>
  BY DEF Cow!Swap, COWInv, ClonesArePrivate
<1>2. /\ m_pObj'[r] = m_pObj[s] /\ m_pObj'[s] = m_pObj[r]
      /\ value'[r] = value[s] /\ value'[s] = value[r]
      /\ \A t \in Refs \ {r, s} : m_pObj'[t] = m_pObj[t] /\ value'[t] = value[t]
  BY <1>1 DEF COWInv, Cow!TypeOK
<1>a. ASSUME NEW u \in Refs
      PROVE  \E w \in Refs : /\ m_pObj'[u] = m_pObj[w] /\ value'[u] = value[w]
                             /\ rpc'[u] = rpc[w]
                             /\ w = u \/ (u \in {r, s} /\ w \in {r, s})
  <2>1. CASE u = r
    BY <1>1, <1>2, <2>1
  <2>2. CASE u = s
    BY <1>1, <1>2, <2>2
  <2>3. CASE u \notin {r, s}
    BY <1>1, <1>2, <2>3
  <2>4. QED  BY <2>1, <2>2, <2>3
<1>3. Cow!TypeOK'
  BY <1>1 DEF COWInv, Cow!TypeOK
<1>4. Cow!NothingDangles' /\ Cow!ValueSemantics' /\ Cow!NothingLeaks'
  <2>1. Cow!NothingDangles'
    <3>1. \A w \in Refs : m_pObj[w] # None => content'[m_pObj[w]] # None
      BY <1>1 DEF COWInv, Cow!NothingDangles, Cow!Live
    <3>2. \A w \in Refs : tmp'[w] # None => content'[tmp'[w]] # None
      BY <1>1 DEF COWInv, Cow!NothingDangles, Cow!Live
    <3>3. \A u \in Refs : m_pObj'[u] # None => content'[m_pObj'[u]] # None
      BY <1>a, <3>1
    <3>4. QED  BY <3>2, <3>3 DEF Cow!NothingDangles, Cow!Live
  <2>2. Cow!ValueSemantics'
    <3>1. ASSUME NEW u \in Refs, m_pObj'[u] # None, rpc'[u] # "delete"
          PROVE  content'[m_pObj'[u]] = value'[u]
      <4>1. PICK w \in Refs : /\ m_pObj'[u] = m_pObj[w] /\ value'[u] = value[w]
                              /\ rpc'[u] = rpc[w]
        BY <1>a
      <4>2. QED  BY <1>1, <3>1, <4>1 DEF COWInv, Cow!ValueSemantics
    <3>2. QED  BY <3>1 DEF Cow!ValueSemantics
  <2>3. Cow!NothingLeaks'
    <3>1. ASSUME NEW w \in Refs
          PROVE  \E u \in Refs : m_pObj'[u] = m_pObj[w]
      <4>1. CASE w = r
        BY <1>2, <4>1
      <4>2. CASE w = s
        BY <1>2, <4>2
      <4>3. CASE w \notin {r, s}
        BY <1>2, <4>3
      <4>4. QED  BY <4>1, <4>2, <4>3
    <3>2. ASSUME NEW p \in CowObjects, content'[p] # None
          PROVE  \E u \in Refs : m_pObj'[u] = p \/ tmp'[u] = p
      <4>1. PICK w \in Refs : m_pObj[w] = p \/ tmp[w] = p
        BY <1>1, <3>2 DEF COWInv, Cow!NothingLeaks, Cow!Live
      <4>2. CASE m_pObj[w] = p
        BY <3>1, <4>2
      <4>3. CASE tmp[w] = p
        BY <1>1, <4>3
      <4>4. QED  BY <4>1, <4>2, <4>3
    <3>3. QED  BY <3>2 DEF Cow!NothingLeaks, Cow!Live
  <2>4. QED  BY <2>1, <2>2, <2>3
<1>5. CountsAreExact'
  <2>1. ASSUME NEW p \in CowObjects  PROVE useCount'[p] = Cardinality(Holders(p)')
    <3>1. CASE m_pObj[r] = p /\ m_pObj[s] # p
      <4>1. /\ r \in Holders(p) /\ s \notin Holders(p) /\ Holders(p) \in SUBSET Refs
            /\ Holders(p)' = (Holders(p) \ {r}) \cup {s}
        BY <1>1, <1>2, <3>1 DEF Holders
      <4>2. QED  BY <1>1, <4>1, ExchangeKeepsCount DEF COWInv, CountsAreExact
    <3>2. CASE m_pObj[s] = p /\ m_pObj[r] # p
      <4>1. /\ s \in Holders(p) /\ r \notin Holders(p) /\ Holders(p) \in SUBSET Refs
            /\ Holders(p)' = (Holders(p) \ {s}) \cup {r}
        BY <1>1, <1>2, <3>2 DEF Holders
      <4>2. QED  BY <1>1, <4>1, ExchangeKeepsCount DEF COWInv, CountsAreExact
    <3>3. CASE m_pObj[r] = p <=> m_pObj[s] = p
      <4>1. Holders(p)' = Holders(p)
        BY <1>1, <1>2, <3>3 DEF Holders
      <4>2. QED  BY <1>1, <4>1 DEF COWInv, CountsAreExact
    <3>4. QED  BY <3>1, <3>2, <3>3
  <2>2. QED  BY <2>1 DEF CountsAreExact
<1>6. WritersAreAlone'
  <2>1. ASSUME NEW t \in Refs, NEW u \in Refs, t # u,
               m_pObj'[t] = m_pObj'[u], m_pObj'[t] # None
        PROVE  rpc'[t] \in {"idle", "clone", "release"}
    <3>1. CASE t \in {r, s}
      BY <1>1, <3>1
    <3>2. CASE t \notin {r, s}
      <4>1. PICK w \in Refs : m_pObj'[u] = m_pObj[w] /\ w # t
        BY <1>a, <2>1, <3>2
      <4>2. m_pObj'[t] = m_pObj[t] /\ rpc'[t] = rpc[t]
        BY <1>1, <1>2, <3>2
      <4>3. QED  BY <2>1, <4>1, <4>2 DEF COWInv, WritersAreAlone
    <3>3. QED  BY <3>1, <3>2
  <2>2. QED  BY <2>1 DEF WritersAreAlone
<1>7. ClonesArePrivate' /\ OperationsAreSound'
  <2>1. ASSUME NEW u \in Refs, tmp[u] # None
        PROVE  u \notin {r, s} /\ value'[u] = value[u]
    BY <1>1, <1>2, <2>1
  <2>2. ASSUME NEW t \in Refs, NEW u \in Refs, tmp[u] # None  PROVE m_pObj'[t] # tmp[u]
    BY <1>a, <2>2 DEF COWInv, ClonesArePrivate
  <2>3. ClonesArePrivate'
    <3>1. /\ \A t \in Refs : tmp'[t] # None <=> rpc'[t] \in {"release", "undo"}
          /\ \A t, u \in Refs : tmp'[t] # None /\ tmp'[u] = tmp'[t] => u = t
      BY <1>1 DEF COWInv, ClonesArePrivate
    <3>2. \A t \in Refs : tmp'[t] # None => content'[tmp'[t]] = value'[t]
      BY <1>1, <2>1 DEF COWInv, ClonesArePrivate
    <3>3. \A t, u \in Refs : tmp'[t] # None => m_pObj'[u] # tmp'[t]
      BY <1>1, <2>2
    <3>4. QED  BY <3>1, <3>2, <3>3 DEF ClonesArePrivate
  <2>4. ASSUME NEW u \in Refs, rpc'[u] # "idle"  PROVE m_pObj'[u] # None
    BY <1>1, <1>2, <2>4 DEF COWInv, OperationsAreSound
  <2>5. OperationsAreSound'
    BY <1>1, <2>4 DEF COWInv, OperationsAreSound
  <2>6. QED  BY <2>3, <2>5
<1>8. QED  BY <1>3, <1>4, <1>5, <1>6, <1>7 DEF COWInv

\* Without a reference there is no object.
LEMMA InitCOW ==
    ASSUME COWAssumption, Cow!Init
    PROVE  COWInv
<1>1. Cow!TypeOK /\ Cow!NothingDangles /\ Cow!ValueSemantics /\ Cow!NothingLeaks
  BY DEF COWAssumption, Cow!Init, Cow!TypeOK, Cow!NothingDangles, Cow!ValueSemantics,
     Cow!NothingLeaks, Cow!Live
<1>2. CountsAreExact
  <2>1. \A o \in CowObjects : Holders(o) = {} /\ useCount[o] = 0
    BY DEF COWAssumption, Cow!Init, Holders
  <2>2. QED  BY <2>1, FS_EmptySet DEF CountsAreExact
<1>3. WritersAreAlone /\ ClonesArePrivate /\ OperationsAreSound
  BY DEF Cow!Init, WritersAreAlone, ClonesArePrivate, OperationsAreSound
<1>4. QED  BY <1>1, <1>2, <1>3 DEF COWInv

\* Every step keeps the invariant.
LEMMA NextCOW ==
    ASSUME COWAssumption, COWInv, [Cow!Next]_cowVars
    PROVE  COWInv'
<1>1. ASSUME NEW r \in Refs, NEW v \in Values, Cow!Construct(r, v) \/ Cow!LookAtCount(r, v)
      PROVE COWInv'
  BY <1>1, ConstructIsSound, LookAtCountIsSound
<1>2. ASSUME NEW r \in Refs, NEW s \in Refs, Cow!CopyFrom(r, s) \/ Cow!Swap(r, s)
      PROVE COWInv'
  BY <1>2, CopyFromIsSound, SwapIsSound
<1>3. ASSUME NEW r \in Refs,
             \/ Cow!DecRef(r) \/ Cow!DeleteObject(r)
             \/ Cow!CloneObject(r) \/ Cow!CloneThrows(r)
             \/ Cow!ReleaseShared(r) \/ Cow!UndoRelease(r)
             \/ Cow!WriteThrough(r)
      PROVE COWInv'
  BY <1>3, DecRefIsSound, DeleteObjectIsSound, CloneObjectIsSound, CloneThrowsIsSound,
     ReleaseSharedIsSound, UndoReleaseIsSound, WriteThroughIsSound
<1>4. ASSUME UNCHANGED cowVars  PROVE COWInv'
  BY <1>4 DEF cowVars, COWInv, Cow!TypeOK, Cow!NothingDangles, Cow!ValueSemantics,
     Cow!NothingLeaks, Cow!Live, CountsAreExact, Holders, WritersAreAlone, ClonesArePrivate,
     OperationsAreSound, Cow!cowVars
<1>5. QED  BY <1>1, <1>2, <1>3, <1>4 DEF Cow!Next

\* References of different threads to shared objects never dangle, never show each other's
\* writes and never leak an object, though they only synchronise through the counts.
THEOREM ReferencesAreValues ==
    ASSUME COWAssumption
    PROVE  Cow!Spec => []ReferencesActLikeValues
<1>1. Cow!Init => COWInv
  BY InitCOW
<1>2. COWInv /\ [Cow!Next]_cowVars => COWInv'
  BY NextCOW
<1>3. COWInv => ReferencesActLikeValues
  BY DEF COWInv, ReferencesActLikeValues, Cow!ReferencesActLikeValues
<1>4. QED  BY <1>1, <1>2, <1>3, PTL DEF Cow!Spec, cowVars, Cow!cowVars

(***************************************************************************)
(* ServerSocketImpl                                                        *)
(***************************************************************************)
UdsAssumption == None \notin Servers /\ None \notin LockFiles

\* Where a server has the lock of its lock file and still has business with the name.
OwnsName(p) == pc[p] \in {"locked", "cleared", "bound", "active", "closed", "unlinked"}

\* Nobody listens while another one closes, which is what CloseRaces FALSE is about.
NobodyListensMeanwhile ==
    \A p, q \in Servers : pc[p] \in Uds!closing => pc[q] \notin Uds!listening

\* A server that owns the name has the lock of the file that has the name; so will one
\* that is about to try it, and one that is about to remove the file is the last.
LockFileIsShared ==
    \A p \in Servers :
        /\ pc[p] = "opened" \/ OwnsName(p) => m_udsFile[p] # None /\ m_udsFile[p] = lockFile
        /\ OwnsName(p) => heldBy[m_udsFile[p]] = p
        /\ pc[p] = "unlocked" => \A q \in Servers : ~OwnsName(q)

\* What has the name once it is cleared, and until it is removed.
SocketIsTheOwners ==
    \A p \in Servers :
        /\ pc[p] = "cleared" => socketFile = None
        /\ pc[p] \in {"bound", "active", "closed"} => socketFile = p
        /\ pc[p] # "bindFailed"

UdsInv ==
    /\ Uds!TypeOK
    /\ NobodyListensMeanwhile /\ LockFileIsShared /\ SocketIsTheOwners

\* What a step of one server leaves as it was for the others.
LEMMA OneServerMoves ==
    ASSUME UdsInv, NEW p \in Servers, NEW step, Uds!Goto(p, step)
    PROVE  /\ pc'[p] = step
           /\ \A q \in Servers \ {p} : pc'[q] = pc[q] /\ (OwnsName(q)' <=> OwnsName(q))
  BY DEF UdsInv, Uds!TypeOK, Uds!Goto, OwnsName

\* The lock belongs to one.
LEMMA OneOwner ==
    ASSUME UdsInv, NEW p \in Servers, NEW q \in Servers, OwnsName(p), OwnsName(q)
    PROVE  p = q
  BY DEF UdsInv, LockFileIsShared

\* A lock file is opened while nobody closes.
LEMMA OpeningKeepsUds ==
    ASSUME UdsAssumption, UdsInv, NEW p \in Servers, Uds!OpenLockFile(p)
    PROVE  UdsInv'
<1>1. /\ pc'[p] = "opened" /\ ~OwnsName(p) /\ ~OwnsName(p)'
      /\ \A q \in Servers \ {p} : pc'[q] = pc[q] /\ (OwnsName(q)' <=> OwnsName(q))
      /\ heldBy' = heldBy /\ socketFile' = socketFile
      /\ m_udsFile'[p] = lockFile' /\ \A q \in Servers \ {p} : m_udsFile'[q] = m_udsFile[q]
      /\ \A q \in Servers \ {p} : pc[q] \notin Uds!closing
  BY OneServerMoves DEF Uds!OpenLockFile, UdsInv, Uds!TypeOK, OwnsName, Uds!Goto, Uds!Others
<1>2. lockFile' \in LockFiles /\ lockFile' # None /\ (lockFile # None => lockFile' = lockFile)
  BY DEF UdsAssumption, UdsInv, Uds!TypeOK, Uds!OpenLockFile
<1>3. Uds!TypeOK'
  BY <1>2 DEF UdsInv, Uds!TypeOK, Uds!OpenLockFile, Uds!Goto, Uds!listening
<1>4. NobodyListensMeanwhile' /\ SocketIsTheOwners'
  BY <1>1 DEF UdsInv, NobodyListensMeanwhile, SocketIsTheOwners, Uds!closing, Uds!listening
<1>5. LockFileIsShared'
  BY <1>1, <1>2 DEF UdsInv, LockFileIsShared, Uds!closing
<1>6. QED  BY <1>3, <1>4, <1>5 DEF UdsInv

\* The lock is tried, got and used to take the name.
LEMMA TakingKeepsUds ==
    ASSUME UdsAssumption, UdsInv, NEW p \in Servers,
           \/ Uds!TryLock(p) \/ Uds!TryLockFails(p) \/ Uds!ClobberSocket(p)
           \/ Uds!Bind(p) \/ Uds!Listen(p) \/ Uds!ListenFails(p)
    PROVE  UdsInv'
<1>1. /\ m_udsFile' = m_udsFile /\ lockFile' = lockFile
      /\ \A q \in Servers \ {p} : pc'[q] = pc[q] /\ (OwnsName(q)' <=> OwnsName(q))
      /\ pc[p] \in Uds!listening
      /\ pc'[p] \in Uds!listening \cup {"active", "failed", "bindFailed"}
  BY DEF Uds!TryLock, Uds!TryLockFails, Uds!ClobberSocket, Uds!Bind, Uds!Listen, UdsInv,
     Uds!ListenFails, Uds!TypeOK, Uds!Goto, OwnsName, Uds!listening
<1>2. /\ \A q \in Servers : pc[q] \notin Uds!closing
      /\ pc'[p] \notin Uds!closing /\ pc'[p] # "opened"
  BY <1>1 DEF UdsInv, NobodyListensMeanwhile, Uds!closing, Uds!listening, Uds!TryLock,
     Uds!TryLockFails, Uds!ClobberSocket, Uds!Bind, Uds!Listen, Uds!ListenFails, Uds!Goto,
     Uds!TypeOK
<1>3. /\ OwnsName(p)' => heldBy'[m_udsFile[p]] = p
      /\ m_udsFile[p] # None /\ m_udsFile[p] = lockFile /\ m_udsFile[p] \in LockFiles
      /\ \A f \in LockFiles : heldBy[f] # None => heldBy'[f] = heldBy[f]
  BY <1>1 DEF UdsInv, LockFileIsShared, OwnsName, Uds!listening, Uds!TryLock, Uds!TryLockFails,
     Uds!ClobberSocket, Uds!Bind, Uds!Listen, Uds!ListenFails, Uds!Goto, Uds!TypeOK
<1>4. LockFileIsShared'
  BY <1>1, <1>2, <1>3 DEF UdsAssumption, UdsInv, LockFileIsShared, Uds!TypeOK, Uds!closing
<1>5. NobodyListensMeanwhile'
  BY <1>1, <1>2 DEF NobodyListensMeanwhile
<1>6. Uds!TypeOK'
  BY <1>1 DEF UdsInv, Uds!TypeOK, Uds!TryLock, Uds!TryLockFails, Uds!ClobberSocket, Uds!Bind,
     Uds!Listen, Uds!ListenFails, Uds!Goto, Uds!listening
<1>7. SocketIsTheOwners'
  <2>1. CASE UNCHANGED socketFile
    BY <1>1, <2>1 DEF UdsInv, SocketIsTheOwners, Uds!TryLock, Uds!TryLockFails,
       Uds!ClobberSocket, Uds!Bind, Uds!Listen, Uds!ListenFails, Uds!Goto, Uds!TypeOK
  <2>2. CASE ~UNCHANGED socketFile
    <3>1. OwnsName(p) /\ (Uds!ClobberSocket(p) \/ Uds!Bind(p))
      BY <2>2 DEF Uds!TryLock, Uds!TryLockFails, Uds!ClobberSocket, Uds!Bind, Uds!Listen,
         Uds!ListenFails, OwnsName
    <3>2. \A q \in Servers \ {p} : ~OwnsName(q)
      BY <3>1, OneOwner DEF OwnsName, Uds!Bind
    <3>3. \A q \in Servers \ {p} : pc'[q] \notin {"cleared", "bound", "active", "closed"}
      BY <1>1, <3>2 DEF OwnsName
    <3>4. QED
      BY <1>1, <3>1, <3>3 DEF UdsInv, SocketIsTheOwners, Uds!ClobberSocket, Uds!Bind, Uds!Goto,
         Uds!TypeOK
  <2>3. QED  BY <2>1, <2>2
<1>8. QED  BY <1>4, <1>5, <1>6, <1>7 DEF UdsInv

\* A server that is gone owns nothing, and leaves the name and the lock file behind.
LEMMA VanishingKeepsUds ==
    ASSUME UdsAssumption, UdsInv, NEW p \in Servers, Uds!Vanish(p)
    PROVE  UdsInv'
<1>1. /\ pc'[p] = "idle" /\ lockFile' = lockFile /\ socketFile' = socketFile
      /\ \A q \in Servers \ {p} : /\ pc'[q] = pc[q] /\ (OwnsName(q)' <=> OwnsName(q))
                                  /\ m_udsFile'[q] = m_udsFile[q]
      /\ \A f \in LockFiles : heldBy[f] # p => heldBy'[f] = heldBy[f]
  BY DEF UdsInv, Uds!Vanish, Uds!Unlock, Uds!Goto, Uds!TypeOK, OwnsName
<1>2. ~OwnsName(p)'
  BY <1>1 DEF OwnsName
<1>3. Uds!TypeOK'
  BY DEF UdsInv, Uds!TypeOK, Uds!Vanish, Uds!Goto, Uds!Unlock
<1>4. NobodyListensMeanwhile' /\ SocketIsTheOwners'
  BY <1>1 DEF UdsInv, NobodyListensMeanwhile, SocketIsTheOwners, Uds!closing, Uds!listening
<1>5. LockFileIsShared'
  BY <1>1, <1>2 DEF UdsInv, LockFileIsShared, Uds!TypeOK
<1>6. QED  BY <1>3, <1>4, <1>5 DEF UdsInv

\* close() removes first the name, then the lock file, while nobody listens.
LEMMA ClosingKeepsUds ==
    ASSUME UdsAssumption, UdsInv, NEW p \in Servers,
           \/ Uds!CloseSocket(p) \/ Uds!RemoveSocket(p)
           \/ Uds!UnlockAndClose(p) \/ Uds!RemoveLockFile(p)
    PROVE  UdsInv'
<1>1. /\ pc'[p] \in Uds!closing \cup {"idle", "failed"}
      /\ \A q \in Servers \ {p} : /\ pc'[q] = pc[q] /\ (OwnsName(q)' <=> OwnsName(q))
                                  /\ m_udsFile'[q] = m_udsFile[q]
      /\ \A f \in LockFiles : heldBy[f] # p => heldBy'[f] = heldBy[f]
  BY DEF UdsInv, Uds!CloseSocket, Uds!RemoveSocket, Uds!UnlockAndClose, Uds!RemoveLockFile,
     Uds!Unlock, Uds!Goto, Uds!TypeOK, Uds!closing, OwnsName
<1>2. \A q \in Servers : pc'[q] \notin Uds!listening
  <2>1. \A q \in Servers \ {p} : pc[q] \notin Uds!listening
    BY DEF UdsInv, NobodyListensMeanwhile, Uds!CloseSocket, Uds!RemoveSocket, Uds!Others,
       Uds!UnlockAndClose, Uds!RemoveLockFile, Uds!closing
  <2>2. QED  BY <1>1, <2>1 DEF Uds!closing, Uds!listening
<1>3. /\ \A q \in Servers \ {p} : ~OwnsName(q)
      /\ OwnsName(p)' => /\ OwnsName(p) /\ m_udsFile' = m_udsFile
                         /\ lockFile' = lockFile /\ heldBy' = heldBy
  <2>1. CASE OwnsName(p)
    BY <2>1, OneOwner DEF Uds!CloseSocket, Uds!RemoveSocket, Uds!UnlockAndClose, OwnsName,
       Uds!RemoveLockFile, UdsInv, Uds!TypeOK, Uds!Goto
  <2>2. CASE ~OwnsName(p)
    BY <2>2 DEF Uds!CloseSocket, Uds!RemoveSocket, Uds!UnlockAndClose, OwnsName,
       Uds!RemoveLockFile, UdsInv, LockFileIsShared, Uds!TypeOK, Uds!Goto
  <2>3. QED  BY <2>1, <2>2
<1>4. Uds!TypeOK'
  BY DEF UdsInv, Uds!TypeOK, Uds!CloseSocket, Uds!RemoveSocket, Uds!UnlockAndClose,
     Uds!RemoveLockFile, Uds!Unlock, Uds!Goto, Uds!closing
<1>5. NobodyListensMeanwhile'
  BY <1>2 DEF NobodyListensMeanwhile
<1>6. LockFileIsShared'
  <2>1. \A q \in Servers : pc'[q] # "opened"
    BY <1>2 DEF Uds!listening
  <2>2. \A q \in Servers : OwnsName(q)' => q = p /\ OwnsName(p)
    BY <1>1, <1>3
  <2>3. \A q \in Servers : OwnsName(q)' => m_udsFile'[q] # None /\ m_udsFile'[q] = lockFile'
    BY <1>3, <2>2 DEF UdsInv, LockFileIsShared
  <2>4. \A q \in Servers : OwnsName(q)' => heldBy'[m_udsFile'[q]] = q
    BY <1>3, <2>2 DEF UdsInv, LockFileIsShared
  <2>5. ASSUME NEW q \in Servers, pc'[q] = "unlocked", OwnsName(p)'  PROVE FALSE
    <3>1. q # p
      BY <2>5 DEF OwnsName
    <3>2. pc[q] = "unlocked" /\ OwnsName(p)
      BY <1>1, <1>3, <2>5, <3>1
    <3>3. QED  BY <3>2 DEF UdsInv, LockFileIsShared
  <2>6. QED  BY <2>1, <2>2, <2>3, <2>4, <2>5 DEF LockFileIsShared
<1>7. SocketIsTheOwners'
  <2>1. \A q \in Servers \ {p} : pc'[q] \notin {"cleared", "bound", "active", "closed"}
    BY <1>1, <1>3 DEF OwnsName
  <2>2. \A q \in Servers \ {p} : pc'[q] # "bindFailed"
    BY <1>1 DEF UdsInv, SocketIsTheOwners
  <2>3. pc'[p] = "closed" => pc[p] = "active" /\ socketFile' = socketFile
    BY DEF UdsInv, Uds!TypeOK, Uds!CloseSocket, Uds!RemoveSocket, Uds!UnlockAndClose,
       Uds!RemoveLockFile, Uds!Goto
  <2>4. QED  BY <1>1, <2>1, <2>2, <2>3 DEF UdsInv, SocketIsTheOwners, Uds!closing
<1>8. QED  BY <1>4, <1>5, <1>6, <1>7 DEF UdsInv

\* Servers that have not begun, and every step of one of them.
LEMMA UdsInvHolds ==
    ASSUME UdsAssumption
    PROVE  /\ Uds!Init => UdsInv
           /\ UdsInv /\ [Uds!Next]_udsVars => UdsInv'
<1>1. Uds!Init => UdsInv
  BY DEF Uds!Init, UdsInv, Uds!TypeOK, NobodyListensMeanwhile, LockFileIsShared, OwnsName,
     SocketIsTheOwners, Uds!closing, Uds!listening
<1>2. ASSUME UdsInv, UNCHANGED udsVars  PROVE UdsInv'
  BY <1>2 DEF udsVars, UdsInv, Uds!TypeOK, NobodyListensMeanwhile, LockFileIsShared, OwnsName,
     SocketIsTheOwners
<1>3. ASSUME UdsInv, Uds!Next  PROVE UdsInv'
  BY <1>3, UdsAssumption, OpeningKeepsUds, TakingKeepsUds, VanishingKeepsUds, ClosingKeepsUds
     DEF Uds!Next
<1>4. QED  BY <1>1, <1>2, <1>3

\* Whoever connects to the name of a Unix domain socket reaches the active server, however
\* many servers start, fail, crash and are closed, as long as none listens while another
\* one closes; and the one that has got the lock can always bind.
THEOREM NameLeadsToTheServer ==
    ASSUME UdsAssumption
    PROVE  Uds!Spec => []NameLeadsToServer
<1>1. UdsInv => NameLeadsToServer
  BY DEF UdsInv, SocketIsTheOwners, NameLeadsToServer, Uds!NameLeadsToServer
<1>2. QED  BY <1>1, UdsInvHolds, PTL DEF Uds!Spec, udsVars, Uds!udsVars

(***************************************************************************)
(* UUID                                                                    *)
(***************************************************************************)
\* No more identifiers are asked for than a step of the clock has units.
IdsAssumption == Resolution \in Nat \ {0} /\ MaxIds \in Nat /\ MaxIds <= Resolution

\* The clock is where the last identifier found it, or a whole step further.
ClockTakesSteps ==
    /\ systemClock \in Nat \ {0} /\ timeLast \in 0..systemClock
    /\ timeLast # 0 /\ timeLast # systemClock => timeLast + Resolution <= systemClock

\* No reading has to be told from another one by the clock sequence.
SequenceStaysZero == g_state = [timestamp |-> 0, clockSequence |-> 0]

\* Each timestamp is greater than the one before, and the generator will go on from the
\* last one.
TimestampsIncrease ==
    /\ made \in Seq(Nat \X {0}) /\ Len(made) <= MaxIds
    /\ uuidsThisTick \in 0..Len(made)
    /\ timeLast = 0 => made = <<>>
    /\ \A i \in 1..Len(made) : made[i][1] <= timeLast + uuidsThisTick
    /\ \A i, j \in 1..Len(made) : i < j => made[i][1] < made[j][1]

IdsInv == ClockTakesSteps /\ SequenceStaysZero /\ TimestampsIncrease

\* The identifier that is added has the greatest timestamp so far.
LEMMA MakingKeepsIds ==
    ASSUME IdsAssumption, IdsInv, Ids!MakeUUID
    PROVE  IdsInv'
<1>1. PICK n \in 0..MaxIds :
          /\ Ids!GetCurrentTime(timeLast', n) /\ uuidsThisTick' = n
          /\ g_state' = [timestamp |-> 0, clockSequence |-> 0]
          /\ made' = Append(made, <<timeLast' + n, 0>>)
  <2>1. g_state.timestamp = 0 /\ g_state.clockSequence = 0
    BY DEF IdsInv, SequenceStaysZero
  <2>2. ASSUME NEW n \in 0..MaxIds, Ids!GetCurrentTime(timeLast', n)
        PROVE  ~(timeLast' + n < 0)
    BY <2>2 DEF IdsAssumption, IdsInv, ClockTakesSteps, Ids!GetCurrentTime
  <2>3. PICK n \in 0..MaxIds :
            /\ Ids!GetCurrentTime(timeLast', n) /\ uuidsThisTick' = n
            /\ g_state' = [timestamp |-> 0,
                           clockSequence |-> IF timeLast' + n < 0 THEN 1 ELSE 0]
            /\ made' = Append(made, <<timeLast' + n, IF timeLast' + n < 0 THEN 1 ELSE 0>>)
    BY <2>1 DEF Ids!MakeUUID
  <2>4. QED  BY <2>2, <2>3
<1>2. /\ Len(made) \in Nat /\ Len(made) < MaxIds /\ systemClock' = systemClock
      /\ timeLast' = systemClock
  BY <1>1 DEF IdsInv, TimestampsIncrease, Ids!MakeUUID, Ids!GetCurrentTime
<1>3. n <= Len(made) + 1
  BY <1>1 DEF IdsInv, TimestampsIncrease, ClockTakesSteps, Ids!GetCurrentTime
<1>4. \A i \in 1..Len(made) : made[i][1] < timeLast' + n
  <2>1. ASSUME NEW i \in 1..Len(made)  PROVE made[i][1] < timeLast' + n
    <3>1. made[i][1] \in Nat /\ made[i][1] <= timeLast + uuidsThisTick /\ timeLast # 0
      BY DEF IdsInv, TimestampsIncrease
    <3>2. CASE timeLast = systemClock
      BY <1>1, <1>2, <3>1, <3>2 DEF IdsInv, TimestampsIncrease, ClockTakesSteps,
         Ids!GetCurrentTime
    <3>3. CASE timeLast # systemClock
      <4>1. timeLast + Resolution <= systemClock /\ uuidsThisTick < Resolution
        BY <1>2, <3>1, <3>3 DEF IdsAssumption, IdsInv, TimestampsIncrease, ClockTakesSteps
      <4>2. QED
        BY <1>2, <3>1, <4>1 DEF IdsAssumption, IdsInv, TimestampsIncrease, ClockTakesSteps
    <3>4. QED  BY <3>2, <3>3
  <2>2. QED  BY <2>1
<1>5. /\ made' \in Seq(Nat \X {0}) /\ Len(made') = Len(made) + 1
      /\ \A i \in 1..Len(made) : made'[i] = made[i]
      /\ made'[Len(made) + 1] = <<timeLast' + n, 0>>
  <2>1. <<timeLast' + n, 0>> \in Nat \X {0}
    BY <1>2 DEF IdsInv, ClockTakesSteps
  <2>2. made \in Seq(Nat \X {0})
    BY DEF IdsInv, TimestampsIncrease
  <2>3. QED  BY <1>1, <2>1, <2>2
<1>6. /\ \A i \in 1..Len(made') : made'[i][1] <= timeLast' + n
      /\ \A i, j \in 1..Len(made') : i < j => made'[i][1] < made'[j][1]
  <2>1. \A i \in 1..Len(made) : made[i][1] \in Nat
    BY DEF IdsInv, TimestampsIncrease
  <2>2. made'[Len(made) + 1][1] = timeLast' + n /\ timeLast' + n \in Nat
    BY <1>2, <1>5 DEF IdsInv, ClockTakesSteps
  <2>3. \A i \in 1..Len(made') : made'[i][1] <= timeLast' + n
    BY <1>2, <1>4, <1>5, <2>1, <2>2
  <2>4. ASSUME NEW i \in 1..Len(made'), NEW j \in 1..Len(made'), i < j
        PROVE  made'[i][1] < made'[j][1]
    <3>1. i \in 1..Len(made) /\ made'[i][1] = made[i][1]
      BY <1>2, <1>5, <2>4
    <3>2. CASE j \in 1..Len(made)
      BY <1>5, <2>4, <3>1, <3>2 DEF IdsInv, TimestampsIncrease
    <3>3. CASE j = Len(made) + 1
      BY <1>4, <2>2, <3>1, <3>3
    <3>4. QED  BY <1>2, <1>5, <3>2, <3>3
  <2>5. QED  BY <2>3, <2>4
<1>7. ClockTakesSteps'
  BY <1>2 DEF IdsInv, ClockTakesSteps
<1>8. SequenceStaysZero'
  BY <1>1 DEF SequenceStaysZero
<1>9. TimestampsIncrease'
  BY <1>1, <1>2, <1>3, <1>5, <1>6 DEF IdsAssumption, IdsInv, TimestampsIncrease,
     ClockTakesSteps
<1>10. QED  BY <1>7, <1>8, <1>9 DEF IdsInv

\* No identifier yet, and what threads and the clock do.
LEMMA IdsInvHolds ==
    ASSUME IdsAssumption
    PROVE  /\ Ids!Init => IdsInv
           /\ IdsInv /\ [Ids!Next]_uuidVars => IdsInv'
<1>1. Ids!Init => IdsInv
  BY DEF IdsAssumption, Ids!Init, IdsInv, ClockTakesSteps, SequenceStaysZero,
     TimestampsIncrease
<1>2. ASSUME IdsInv, UNCHANGED uuidVars  PROVE IdsInv'
  BY <1>2 DEF uuidVars, IdsInv, ClockTakesSteps, SequenceStaysZero, TimestampsIncrease
<1>3. ASSUME IdsInv, Ids!ClockAdvances  PROVE IdsInv'
  BY <1>3 DEF IdsAssumption, Ids!ClockAdvances, IdsInv, ClockTakesSteps, SequenceStaysZero,
     TimestampsIncrease
<1>4. ~Ids!ClockIsSetBack
  BY DEF Ids!ClockIsSetBack
<1>5. QED  BY <1>1, <1>2, <1>3, <1>4, MakingKeepsIds DEF Ids!Next

\* What the invariant says of two identifiers that are the same.
LEMMA IdsInvMeans == IdsInv => IdsAreUnique
<1>1. ASSUME IdsInv, NEW i \in 1..Len(made), NEW j \in 1..Len(made), made[i] = made[j]
      PROVE  i = j
  <2>1. made[i][1] \in Nat /\ made[j][1] \in Nat /\ made[i][1] = made[j][1]
    BY <1>1 DEF IdsInv, TimestampsIncrease
  <2>2. QED  BY <1>1, <2>1 DEF IdsInv, TimestampsIncrease
<1>2. QED  BY <1>1 DEF IdsAreUnique, Ids!IdsAreUnique

\* No identifier is made twice as long as the system clock is not set back, whatever its
\* resolution: the count of identifiers of one reading tells those apart, and the clock
\* sequence, which the generator never advances, is not needed.
THEOREM IdentifiersDiffer ==
    ASSUME IdsAssumption
    PROVE  Ids!Spec => []IdsAreUnique
  BY IdsInvHolds, IdsInvMeans, PTL DEF Ids!Spec, uuidVars, Ids!uuidVars

(***************************************************************************)
(* Process and ZombieReaper                                                *)
(***************************************************************************)
ProcAssumption ==
    /\ Waits \subseteq Nat /\ KillPatience \in Nat /\ MaxPolite \in Nat

\* Whoever has waited for the child knows: the object, or the reaper once that is gone.
ChildIsAccountedFor ==
    /\ terminated => child = "reaped"
    /\ child = "reaped" => terminated \/ reaper = "done"
    /\ reaper = "done" => child = "reaped"
    /\ reaper # "none" => ppc = "gone" /\ ~terminated
    /\ ppc \in Proc!Stages => ~terminated

\* The times of the measures before the current one are over.
TimesAreOver ==
    /\ ppc = "initial" => deadline = waits[1]
    /\ ppc = "close" => deadline = waits[2] /\ elapsed >= waits[1]
    /\ ppc = "term" => deadline = waits[3] /\ elapsed >= waits[1] /\ elapsed >= waits[2]

\* The timeouts that waitCloseTerm() may be called with.
WaitTimes == Waits \cup {<<0, 1, 2>>[i] : i \in 1..3}

\* What Proc!TypeOK says of the flags, one by one,
FlagsAreBoolean ==
    /\ permitted \in BOOLEAN /\ doomed \in BOOLEAN /\ m_pid \in BOOLEAN
    /\ terminated \in BOOLEAN /\ destroying \in BOOLEAN /\ misdirected \in BOOLEAN

\* and of the rest.
RestHasTypes ==
    /\ child \in {"running", "zombie", "reaped"}
    /\ yieldsTo \subseteq {"close", "SIGTERM", "SIGKILL"}
    /\ ppc \in {"idle", "gone"} \cup Proc!Stages
    /\ waits \in [1..3 -> WaitTimes]
    /\ elapsed \in Nat /\ polled \in 0..elapsed /\ deadline \in Nat
    /\ reaper \in {"none", "polls", "signals", "done"}
    /\ attempts \in 0..MaxPolite

ProcInv ==
    /\ RestHasTypes /\ FlagsAreBoolean /\ ~misdirected
    /\ ChildIsAccountedFor /\ TimesAreOver

\* The timeouts, and that a poll of a child that has not been waited for harms nobody.
LEMMA TimesAreNumbers ==
    ASSUME ProcAssumption, ProcInv
    PROVE  /\ waits[1] \in Nat /\ waits[2] \in Nat /\ waits[3] \in Nat
           /\ elapsed \in Nat /\ polled \in Nat /\ polled <= elapsed /\ deadline \in Nat
<1>1. \A i \in 1..3 : <<0, 1, 2>>[i] \in Nat
  BY SMT
<1>2. \A i \in 1..3 : waits[i] \in Nat
  BY <1>1 DEF ProcAssumption, ProcInv, RestHasTypes, WaitTimes
<1>3. QED  BY <1>2 DEF ProcInv, RestHasTypes

\* The child ends, time passes, and the object is released.
LEMMA EnvironmentKeepsProc ==
    ASSUME ProcAssumption, ProcInv,
           \/ Proc!ChildEnds \/ Proc!TimePasses \/ Proc!Release \/ Proc!DestructReleased
    PROVE  ProcInv'
<1>1. CASE Proc!ChildEnds
  BY <1>1 DEF ProcInv, RestHasTypes, FlagsAreBoolean, ChildIsAccountedFor, TimesAreOver,
     Proc!ChildEnds, Proc!call
<1>2. CASE Proc!TimePasses
  BY <1>2, TimesAreNumbers DEF ProcInv, RestHasTypes, FlagsAreBoolean, ChildIsAccountedFor,
     TimesAreOver, Proc!TimePasses, Proc!os
<1>3. CASE Proc!Release
  BY <1>3 DEF ProcInv, RestHasTypes, FlagsAreBoolean, ChildIsAccountedFor, TimesAreOver,
     Proc!Release, Proc!os, Proc!call
<1>4. CASE Proc!DestructReleased
  BY <1>4 DEF ProcInv, RestHasTypes, FlagsAreBoolean, ChildIsAccountedFor, TimesAreOver,
     Proc!DestructReleased, Proc!os, Proc!Stages
<1>5. QED  BY <1>1, <1>2, <1>3, <1>4

\* processStatus(), by itself and as the beginning of waitCloseTerm().
LEMMA StatusKeepsProc ==
    ASSUME ProcAssumption, ProcInv,
           \/ Proc!ProcessStatus
           \/ \E w \in [1..3 -> Waits] : Proc!CallWaitCloseTerm(w, FALSE)
           \/ Proc!CallWaitCloseTerm(<<0, 1, 2>>, TRUE)
    PROVE  ProcInv'
<1>1. CASE Proc!ProcessStatus
  BY <1>1 DEF ProcInv, RestHasTypes, FlagsAreBoolean, ChildIsAccountedFor, TimesAreOver,
     Proc!ProcessStatus, Proc!Waitpid, Proc!call, Proc!Stages
<1>2. ASSUME NEW w \in [1..3 -> WaitTimes],
             NEW dtor \in BOOLEAN, Proc!CallWaitCloseTerm(w, dtor)
      PROVE  ProcInv'
  <2>1. /\ child' = IF child = "zombie" THEN "reaped" ELSE child
        /\ ~misdirected' /\ misdirected' \in BOOLEAN /\ child # "reaped" /\ ~terminated
        /\ terminated' = (child = "zombie") /\ ppc = "idle"
        /\ ppc' = IF terminated' THEN IF dtor THEN "gone" ELSE "idle" ELSE "initial"
        /\ reaper = "none" /\ reaper' = "none" /\ waits' = w /\ deadline' = w[1]
        /\ elapsed' = 0 /\ polled' = 0 /\ destroying' = dtor
        /\ UNCHANGED <<yieldsTo, permitted, doomed, m_pid, attempts>>
    BY <1>2 DEF ProcInv, RestHasTypes, FlagsAreBoolean, ChildIsAccountedFor,
       Proc!CallWaitCloseTerm, Proc!Waitpid
  <2>2. \A i \in 1..3 : w[i] \in Nat
    <3>1. \A i \in 1..3 : <<0, 1, 2>>[i] \in Nat
      BY SMT
    <3>2. QED  BY <3>1 DEF ProcAssumption, WaitTimes
  <2>3. ChildIsAccountedFor' /\ TimesAreOver'
    BY <2>1 DEF ProcInv, RestHasTypes, FlagsAreBoolean, ChildIsAccountedFor, TimesAreOver,
       Proc!Stages
  <2>4. RestHasTypes' /\ FlagsAreBoolean'
    BY <2>1, <2>2 DEF ProcInv, RestHasTypes, FlagsAreBoolean, Proc!Stages
  <2>5. QED  BY <2>1, <2>3, <2>4 DEF ProcInv
<1>3. ASSUME NEW w \in [1..3 -> Waits]
      PROVE  w \in [1..3 -> WaitTimes]
  BY DEF WaitTimes
<1>4. <<0, 1, 2>> \in [1..3 -> WaitTimes]
  <2>1. <<0, 1, 2>> = [i \in 1..3 |-> <<0, 1, 2>>[i]]
    BY SMT
  <2>2. QED  BY <2>1 DEF WaitTimes
<1>5. QED  BY <1>1, <1>2, <1>3, <1>4

\* A poll within a measure, and the failure of one.
LEMMA PollingKeepsProc ==
    ASSUME ProcAssumption, ProcInv, Proc!Poll \/ Proc!KillFails \/ Proc!KillWasInVain
    PROVE  ProcInv'
<1>1. /\ ppc \in Proc!Stages /\ ~terminated /\ child # "reaped" /\ reaper = "none"
      /\ waits' = waits /\ elapsed' = elapsed /\ deadline' = deadline
  BY DEF ProcInv, ChildIsAccountedFor, Proc!Poll, Proc!KillFails, Proc!KillWasInVain,
     Proc!TimeIsUp, Proc!Stages
<1>2. CASE Proc!Poll
  <2>1. /\ child' = IF child = "zombie" THEN "reaped" ELSE child
        /\ ~misdirected' /\ misdirected' \in BOOLEAN /\ terminated' = (child = "zombie")
        /\ reaper' = "none"
        /\ ppc' = IF terminated' THEN IF destroying THEN "gone" ELSE "idle" ELSE ppc
    BY <1>1, <1>2 DEF ProcInv, RestHasTypes, FlagsAreBoolean, Proc!Poll, Proc!Waitpid,
       Proc!Return
  <2>2. ChildIsAccountedFor' /\ TimesAreOver'
    BY <1>1, <2>1 DEF ProcInv, RestHasTypes, FlagsAreBoolean, ChildIsAccountedFor, TimesAreOver,
       Proc!Stages
  <2>3. RestHasTypes' /\ FlagsAreBoolean'
    BY <1>1, <1>2, <2>1 DEF ProcInv, RestHasTypes, FlagsAreBoolean, Proc!Stages, Proc!Poll
  <2>4. QED  BY <2>1, <2>2, <2>3 DEF ProcInv
<1>3. CASE Proc!KillFails \/ Proc!KillWasInVain
  <2>1. /\ ~misdirected' /\ misdirected' \in BOOLEAN /\ terminated' \in BOOLEAN
        /\ child' \in {"running", "zombie", "reaped"} /\ (terminated' <=> child' = "reaped")
        /\ ppc' = IF destroying THEN "gone" ELSE "idle"
        /\ reaper' = IF destroying /\ ~terminated' THEN "polls" ELSE "none"
    <3>1. CASE Proc!KillFails
      BY <1>1, <3>1 DEF ProcInv, RestHasTypes, FlagsAreBoolean, Proc!KillFails, Proc!Waitpid,
         Proc!Return
    <3>2. CASE Proc!KillWasInVain
      BY <1>1, <3>2 DEF ProcInv, RestHasTypes, FlagsAreBoolean, Proc!KillWasInVain,
         Proc!Return, Proc!os
    <3>3. QED  BY <1>3, <3>1, <3>2
  <2>2. ChildIsAccountedFor' /\ TimesAreOver'
    BY <1>1, <2>1 DEF ChildIsAccountedFor, TimesAreOver, Proc!Stages
  <2>3. RestHasTypes' /\ FlagsAreBoolean'
    BY <1>1, <1>3, <2>1 DEF ProcInv, RestHasTypes, FlagsAreBoolean, Proc!Stages, Proc!KillFails,
       Proc!KillWasInVain, Proc!os
  <2>4. QED  BY <2>1, <2>2, <2>3 DEF ProcInv
<1>4. QED  BY <1>2, <1>3

\* A measure is taken when the time of the one before it is over.
LEMMA MeasuresKeepProc ==
    ASSUME ProcAssumption, ProcInv, Proc!CloseStreams \/ Proc!SendSIGTERM \/ Proc!SendSIGKILL
    PROVE  ProcInv'
<1>1. /\ ppc \in Proc!Stages /\ ~terminated /\ child # "reaped" /\ reaper = "none"
      /\ elapsed >= deadline /\ polled' = elapsed
      /\ UNCHANGED <<child, yieldsTo, permitted, m_pid, terminated, destroying, waits>>
      /\ UNCHANGED <<elapsed, reaper, attempts>>
  BY TimesAreNumbers DEF ProcInv, ChildIsAccountedFor, Proc!CloseStreams, Proc!SendSIGTERM,
     Proc!SendSIGKILL, Proc!TimeIsUp, Proc!Stages, Proc!Begin
<1>2. /\ ~misdirected' /\ misdirected' \in BOOLEAN /\ doomed' \in BOOLEAN
  <2>1. CASE Proc!CloseStreams
    BY <2>1 DEF ProcInv, FlagsAreBoolean, Proc!CloseStreams
  <2>2. ~(misdirected \/ child = "reaped")
    BY <1>1 DEF ProcInv
  <2>3. CASE Proc!SendSIGTERM
    BY <2>2, <2>3 DEF ProcInv, FlagsAreBoolean, Proc!SendSIGTERM, Proc!Signal
  <2>4. CASE Proc!SendSIGKILL
    BY <2>2, <2>4 DEF ProcInv, FlagsAreBoolean, Proc!SendSIGKILL, Proc!Signal
  <2>5. QED  BY <2>1, <2>3, <2>4
<1>3. TimesAreOver' /\ ppc' \in Proc!Stages /\ deadline' \in Nat
  BY <1>1, TimesAreNumbers DEF ProcAssumption, ProcInv, TimesAreOver, Proc!CloseStreams,
     Proc!SendSIGTERM, Proc!SendSIGKILL, Proc!TimeIsUp, Proc!Begin, Proc!Stages
<1>4. ChildIsAccountedFor'
  BY <1>1, <1>3 DEF ChildIsAccountedFor, Proc!Stages
<1>5. RestHasTypes' /\ FlagsAreBoolean'
  BY <1>1, <1>2, <1>3, TimesAreNumbers DEF ProcInv, RestHasTypes, FlagsAreBoolean
<1>6. QED  BY <1>2, <1>3, <1>4, <1>5 DEF ProcInv

\* The reaper stops at the poll that has reaped the child.
LEMMA ReaperKeepsProc ==
    ASSUME ProcAssumption, ProcInv, Proc!ReaperPolls \/ Proc!ReaperSignals
    PROVE  ProcInv'
<1>1. /\ ppc = "gone" /\ ~terminated /\ child # "reaped"
      /\ UNCHANGED <<yieldsTo, permitted, m_pid, terminated, Proc!call>>
  BY DEF ProcInv, ChildIsAccountedFor, Proc!ReaperPolls, Proc!ReaperSignals
<1>2. /\ ~misdirected' /\ misdirected' \in BOOLEAN /\ doomed' \in BOOLEAN
      /\ attempts' \in 0..MaxPolite
      /\ child' \in {"running", "zombie", "reaped"}
      /\ reaper' \in {"polls", "signals", "done"}
      /\ child' = "reaped" <=> reaper' = "done"
  BY <1>1 DEF ProcAssumption, ProcInv, RestHasTypes, FlagsAreBoolean, Proc!ReaperPolls,
     Proc!ReaperSignals, Proc!Waitpid, Proc!Signal
<1>3. ChildIsAccountedFor' /\ TimesAreOver'
  BY <1>1, <1>2 DEF ChildIsAccountedFor, TimesAreOver, Proc!call, Proc!Stages
<1>4. RestHasTypes' /\ FlagsAreBoolean'
  BY <1>1, <1>2 DEF ProcInv, RestHasTypes, FlagsAreBoolean, Proc!call
<1>5. QED  BY <1>2, <1>3, <1>4 DEF ProcInv

\* A child that has just been started, and every step.
LEMMA ProcInvHolds ==
    ASSUME ProcAssumption
    PROVE  /\ Proc!Init => ProcInv
           /\ ProcInv /\ [Proc!Next]_processVars => ProcInv'
<1>1. ASSUME Proc!Init  PROVE ProcInv
  <2>1. <<0, 0, 0>> \in [1..3 -> WaitTimes]
    <3>1. <<0, 0, 0>> = [i \in 1..3 |-> 0] /\ <<0, 1, 2>>[1] = 0
      BY SMT
    <3>2. 0 \in WaitTimes
      BY <3>1 DEF WaitTimes
    <3>3. QED  BY <3>1, <3>2
  <2>2. FlagsAreBoolean
    BY <1>1 DEF Proc!Init, FlagsAreBoolean
  <2>3. RestHasTypes
    BY <1>1, <2>1 DEF ProcAssumption, Proc!Init, RestHasTypes, Proc!Stages
  <2>4. QED
    BY <1>1, <2>2, <2>3 DEF Proc!Init, ProcInv, ChildIsAccountedFor, TimesAreOver, Proc!Stages
<1>2. ASSUME ProcInv, UNCHANGED processVars  PROVE ProcInv'
  BY <1>2 DEF processVars, ProcInv, RestHasTypes, FlagsAreBoolean, ChildIsAccountedFor,
     TimesAreOver
<1>3. ASSUME ProcInv, Proc!Next  PROVE ProcInv'
  BY <1>3, EnvironmentKeepsProc, StatusKeepsProc, PollingKeepsProc, MeasuresKeepProc,
     ReaperKeepsProc DEF Proc!Next, Proc!ObjectProceeds
<1>4. QED  BY <1>1, <1>2, <1>3

\* What the invariant says of the pid.
LEMMA ProcInvMeans == ProcInv => Proc!TypeOK /\ PidIsTheChilds
<1>1. FlagsAreBoolean
        => {permitted, doomed, m_pid, terminated, destroying, misdirected} \subseteq BOOLEAN
  BY DEF FlagsAreBoolean
<1>2. QED
  BY <1>1 DEF ProcInv, RestHasTypes, WaitTimes, ChildIsAccountedFor, PidIsTheChilds, Proc!TypeOK,
     Proc!NeverMisdirected, Proc!StatusIsKnown

\* What it says of the step to the next measure.
LEMMA MeasureIsDue ==
    ASSUME ProcAssumption, ProcInv, [Proc!Next]_processVars, NEW i \in 1..3,
           ppc' = <<"close", "term", "kill">>[i], ppc # ppc', NEW j \in 1..i
    PROVE  elapsed >= waits[j]
<1>1. CASE i = 1
  <2>1. ppc' = "close" /\ j = 1
    BY <1>1
  <2>2. Proc!CloseStreams
    BY <2>1 DEF Proc!Next, Proc!ChildEnds, Proc!TimePasses, Proc!ProcessStatus, Proc!Release,
       Proc!DestructReleased, Proc!CallWaitCloseTerm, Proc!ObjectProceeds, Proc!Poll,
       Proc!SendSIGTERM, Proc!SendSIGKILL, Proc!KillFails, Proc!KillWasInVain, Proc!Begin,
       Proc!ReaperPolls, Proc!ReaperSignals, Proc!Return, Proc!call, processVars
  <2>3. QED
    BY <2>1, <2>2, TimesAreNumbers DEF ProcInv, TimesAreOver, Proc!CloseStreams, Proc!TimeIsUp
<1>2. CASE i = 2
  <2>1. ppc' = "term" /\ j \in {1, 2}
    BY <1>2
  <2>2. Proc!SendSIGTERM
    BY <2>1 DEF Proc!Next, Proc!ChildEnds, Proc!TimePasses, Proc!ProcessStatus, Proc!Release,
       Proc!DestructReleased, Proc!CallWaitCloseTerm, Proc!ObjectProceeds, Proc!Poll,
       Proc!CloseStreams, Proc!SendSIGKILL, Proc!KillFails, Proc!KillWasInVain, Proc!Begin,
       Proc!ReaperPolls, Proc!ReaperSignals, Proc!Return, Proc!call, processVars
  <2>3. QED
    BY <2>1, <2>2, TimesAreNumbers DEF ProcInv, TimesAreOver, Proc!SendSIGTERM, Proc!TimeIsUp
<1>3. CASE i = 3
  <2>1. ppc' = "kill" /\ j \in {1, 2, 3}
    BY <1>3
  <2>2. Proc!SendSIGKILL
    BY <2>1 DEF Proc!Next, Proc!ChildEnds, Proc!TimePasses, Proc!ProcessStatus, Proc!Release,
       Proc!DestructReleased, Proc!CallWaitCloseTerm, Proc!ObjectProceeds, Proc!Poll,
       Proc!CloseStreams, Proc!SendSIGTERM, Proc!KillFails, Proc!KillWasInVain, Proc!Begin,
       Proc!ReaperPolls, Proc!ReaperSignals, Proc!Return, Proc!call, processVars
  <2>3. QED
    BY <2>1, <2>2, TimesAreNumbers DEF ProcInv, TimesAreOver, Proc!SendSIGKILL, Proc!TimeIsUp
<1>4. QED  BY <1>1, <1>2, <1>3

\* The two ways of writing down the variables.
LEMMA SameProc == [Proc!Next]_(Proc!processVars) <=> [Proc!Next]_processVars
  BY DEF Proc!processVars, Proc!os, Proc!call, processVars

\* No signal and no waitpid() names a pid that may belong to another process by now,
\* whoever gets to wait for the child, the object or the reaper that it leaves behind.
THEOREM PidStaysTheChilds ==
    ASSUME ProcAssumption
    PROVE  Proc!Spec => []PidIsTheChilds
  BY ProcInvHolds, ProcInvMeans, SameProc, PTL DEF Proc!Spec

\* waitCloseTerm() takes no measure before the times of all those before it are over,
\* though each is measured from the start of the call and polls may be late.
THEOREM MeasuresAreDue ==
    ASSUME ProcAssumption
    PROVE  Proc!Spec => MeasuresWaitTheirTurn
<1>1. ASSUME ProcInv, [Proc!Next]_processVars
      PROVE  [\A i \in 1..3 :
                 ppc' = <<"close", "term", "kill">>[i] /\ ppc # ppc'
                    => \A j \in 1..i : elapsed >= waits[j]]_(Proc!processVars)
  BY <1>1, MeasureIsDue
<1>2. QED
  BY <1>1, ProcInvHolds, SameProc, PTL DEF Proc!Spec, MeasuresWaitTheirTurn,
     Proc!MeasuresWaitTheirTurn

(***************************************************************************)
(* Spawn                                                                   *)
(***************************************************************************)
\* Where a child, and the daemonized child it forks, may be.
LineageInOrder ==
    \A s \in Spawners :
        /\ spc[s] \in {"idle", "piped"} => proc[Launch!Child(s)] = "none"
        /\ s \in Daemonizers /\ proc[Launch!Child(s)] \in {"none", "starting"}
              => proc[Launch!Daemon(s)] = "none"
        /\ s \in started => proc[Launch!Runs(s)] \in {"running", "ended"} /\ s \notin message
        /\ s \in message => proc[Launch!Runs(s)] \in {"running", "ended"}

\* As long as nobody knows whether the program was started, somebody who will say so has
\* the write end of the pipe.
SomebodyWillTell ==
    \A s \in Spawners :
        spc[s] \in {"forked", "reading"} /\ s \notin started \cup message
            => \/ proc[Launch!Child(s)] = "starting" /\ Launch!Child(s) \in writers[s]
               \/ /\ s \in Daemonizers /\ proc[Launch!Daemon(s)] = "starting"
                  /\ Launch!Daemon(s) \in writers[s]

\* Only processes that have not called exec yet have write ends open, and the parent for
\* no longer than it takes to fork.
WritersAreYoung ==
    \A s \in Spawners :
        /\ Launch!Parent \in writers[s] <=> spc[s] \in {"piped", "forked"}
        /\ \A p \in Launch!Forked : p \in writers[s] => proc[p] \in {"starting", "waiting"}

\* How the calls have ended.
ResultsFit ==
    \A s \in Spawners :
        /\ result[s] # "none" => spc[s] = "done"
        /\ result[s] = "process" => s \in started
        /\ result[s] = "childError" => s \in message
        /\ result[s] = "forkFailed" => proc[Launch!Child(s)] = "none"
        /\ result[s] = "timedOut" => proc[Launch!Child(s)] = "ended"

LaunchInv ==
    /\ Launch!TypeOK
    /\ LineageInOrder /\ SomebodyWillTell /\ WritersAreYoung /\ ResultsFit

\* Processes are told from each other, and from the parent.
LEMMA ProcessesDiffer ==
    /\ \A s \in Spawners : /\ Launch!Child(s) \in Launch!Forked
                           /\ Launch!Child(s) # Launch!Parent
    /\ \A s \in Daemonizers : /\ Launch!Daemon(s) \in Launch!Forked
                              /\ Launch!Daemon(s) # Launch!Parent
    /\ \A s \in Spawners, t \in Daemonizers : Launch!Child(s) # Launch!Daemon(t)
    /\ \A s, t \in Spawners : Launch!Child(s) = Launch!Child(t) => s = t
    /\ \A s, t \in Daemonizers : Launch!Daemon(s) = Launch!Daemon(t) => s = t
    /\ Launch!Parent \notin Launch!Forked
    /\ \A s \in Spawners : Launch!Runs(s) \in Launch!Forked
  BY DEF Launch!Child, Launch!Daemon, Launch!Parent, Launch!Forked, Launch!Runs

\* What the parent does alone, with its pipes and with what it reads.
LEMMA ParentKeepsLaunch ==
    ASSUME LaunchInv, NEW s \in Spawners,
           \/ Launch!CreatePipes(s) \/ Launch!ForkFails(s) \/ Launch!CloseChildEnds(s)
           \/ Launch!ReadError(s) \/ Launch!ReadEnd(s) \/ Launch!ReadTimesOut(s)
    PROVE  LaunchInv'
<1>1. /\ UNCHANGED <<proc, message, started>>
      /\ \A t \in Spawners \ {s} : /\ spc'[t] = spc[t] /\ result'[t] = result[t]
                                   /\ writers'[t] = writers[t]
      /\ \A p \in Launch!Forked : p \in writers'[s] => p \in writers[s]
      /\ spc'[s] \in {"forked", "reading"} =>
            /\ spc[s] \in {"forked", "reading"}
            /\ \A p \in Launch!Forked : p \in writers[s] => p \in writers'[s]
  BY ProcessesDiffer DEF LaunchInv, Launch!TypeOK, Launch!CreatePipes, Launch!ForkFails,
     Launch!CloseChildEnds, Launch!ReadError, Launch!ReadEnd, Launch!ReadTimesOut,
     Launch!Goto, Launch!Return
<1>2. Launch!TypeOK'
  BY DEF LaunchInv, Launch!TypeOK, Launch!CreatePipes, Launch!ForkFails,
     Launch!CloseChildEnds, Launch!ReadError, Launch!ReadEnd, Launch!ReadTimesOut,
     Launch!Goto, Launch!Return
<1>3. LineageInOrder'
  BY <1>1 DEF LaunchInv, LineageInOrder, Launch!TypeOK, Launch!CreatePipes, Launch!ForkFails,
     Launch!CloseChildEnds, Launch!ReadError, Launch!ReadEnd, Launch!ReadTimesOut,
     Launch!Goto, Launch!Return
<1>4. SomebodyWillTell'
  BY <1>1, ProcessesDiffer DEF LaunchInv, SomebodyWillTell
<1>5. WritersAreYoung'
  <2>1. Launch!Parent \in writers'[s] <=> spc'[s] \in {"piped", "forked"}
    BY DEF LaunchInv, WritersAreYoung, Launch!TypeOK, Launch!CreatePipes, Launch!ForkFails,
       Launch!CloseChildEnds, Launch!ReadError, Launch!ReadEnd, Launch!ReadTimesOut,
       Launch!Goto, Launch!Return
  <2>2. QED  BY <1>1, <2>1 DEF LaunchInv, WritersAreYoung
<1>6. ResultsFit'
  <2>1. /\ result'[s] # "none" => spc'[s] = "done"
        /\ result'[s] = "process" => s \in started
        /\ result'[s] = "childError" => s \in message
        /\ result'[s] = "forkFailed" => proc[Launch!Child(s)] = "none"
        /\ result'[s] = "timedOut" => proc[Launch!Child(s)] = "ended"
    <3>1. result[s] = "none"
      BY DEF LaunchInv, ResultsFit, Launch!CreatePipes, Launch!ForkFails,
         Launch!CloseChildEnds, Launch!ReadError, Launch!ReadEnd, Launch!ReadTimesOut,
         Launch!TypeOK
    <3>2. Launch!ReadEnd(s) => s \in started
      BY DEF LaunchInv, SomebodyWillTell, Launch!ReadEnd
    <3>3. Launch!ForkFails(s) => proc[Launch!Child(s)] = "none"
      BY DEF LaunchInv, LineageInOrder, Launch!ForkFails
    <3>4. QED
      BY <3>1, <3>2, <3>3 DEF LaunchInv, Launch!TypeOK, Launch!CreatePipes, Launch!ForkFails,
         Launch!CloseChildEnds, Launch!ReadError, Launch!ReadEnd, Launch!ReadTimesOut,
         Launch!Goto, Launch!Return
  <2>2. QED  BY <1>1, <2>1 DEF LaunchInv, ResultsFit
<1>7. QED  BY <1>2, <1>3, <1>4, <1>5, <1>6 DEF LaunchInv

\* A new child inherits the write end that its parent has for it.
LEMMA ForkKeepsLaunch ==
    ASSUME LaunchInv, NEW s \in Spawners, Launch!ForkChild(s)
    PROVE  LaunchInv'
<1>1. /\ UNCHANGED <<result, message, started>>
      /\ spc[s] = "piped" /\ spc'[s] = "forked"
      /\ \A t \in Spawners \ {s} : spc'[t] = spc[t]
      /\ proc[Launch!Child(s)] = "none" /\ proc'[Launch!Child(s)] = "starting"
      /\ \A p \in Launch!Forked \ {Launch!Child(s)} : proc'[p] = proc[p]
  BY ProcessesDiffer DEF LaunchInv, LineageInOrder, Launch!TypeOK, Launch!ForkChild,
     Launch!Goto, Launch!Becomes
<1>2. \A t \in Spawners :
          /\ writers[t] \subseteq writers'[t]
          /\ writers'[t] \subseteq writers[t] \cup {Launch!Child(s)}
          /\ Launch!Parent \in writers[t] => Launch!Child(s) \in writers'[t]
  BY DEF LaunchInv, Launch!TypeOK, Launch!ForkChild, Launch!Inherit
<1>3. Launch!TypeOK'
  BY ProcessesDiffer DEF LaunchInv, Launch!TypeOK, Launch!ForkChild, Launch!Goto,
     Launch!Becomes, Launch!Inherit
<1>4. LineageInOrder'
  <2>1. s \notin started \cup message
    BY <1>1 DEF LaunchInv, LineageInOrder, Launch!Runs
  <2>2. \A t \in Spawners \ {s} : /\ proc'[Launch!Child(t)] = proc[Launch!Child(t)]
                                  /\ proc'[Launch!Runs(t)] = proc[Launch!Runs(t)]
    BY <1>1, ProcessesDiffer DEF Launch!Runs
  <2>3. \A t \in Daemonizers : proc'[Launch!Daemon(t)] = proc[Launch!Daemon(t)]
    BY <1>1, ProcessesDiffer
  <2>4. QED  BY <1>1, <2>1, <2>2, <2>3 DEF LaunchInv, LineageInOrder
<1>5. SomebodyWillTell'
  <2>1. Launch!Child(s) \in writers'[s]
    BY <1>1, <1>2 DEF LaunchInv, WritersAreYoung
  <2>2. QED  BY <1>1, <1>2, <2>1, ProcessesDiffer DEF LaunchInv, SomebodyWillTell
<1>6. WritersAreYoung'
  BY <1>1, <1>2, ProcessesDiffer DEF LaunchInv, WritersAreYoung
<1>7. ResultsFit'
  BY <1>1, ProcessesDiffer DEF LaunchInv, ResultsFit
<1>8. QED  BY <1>3, <1>4, <1>5, <1>6, <1>7 DEF LaunchInv

\* So does a daemonized child from the child that forks it.
LEMMA ForkDaemonKeepsLaunch ==
    ASSUME LaunchInv, NEW s \in Spawners, Launch!ForkDaemon(s)
    PROVE  LaunchInv'
<1>1. /\ UNCHANGED <<spc, result, message, started>>
      /\ s \in Daemonizers /\ proc[Launch!Child(s)] = "starting"
      /\ proc[Launch!Daemon(s)] = "none"
      /\ proc'[Launch!Child(s)] = "waiting" /\ proc'[Launch!Daemon(s)] = "starting"
      /\ \A p \in Launch!Forked \ {Launch!Child(s), Launch!Daemon(s)} : proc'[p] = proc[p]
  BY ProcessesDiffer DEF LaunchInv, LineageInOrder, Launch!TypeOK, Launch!ForkDaemon
<1>2. \A t \in Spawners :
          /\ writers[t] \subseteq writers'[t]
          /\ writers'[t] \subseteq writers[t] \cup {Launch!Daemon(s)}
          /\ Launch!Child(s) \in writers[t] => Launch!Daemon(s) \in writers'[t]
  BY DEF LaunchInv, Launch!TypeOK, Launch!ForkDaemon, Launch!Inherit
<1>3. Launch!TypeOK'
  BY <1>1, ProcessesDiffer DEF LaunchInv, Launch!TypeOK, Launch!ForkDaemon, Launch!Inherit
<1>4. LineageInOrder'
  <2>1. s \notin started \cup message
    BY <1>1 DEF LaunchInv, LineageInOrder, Launch!Runs
  <2>2. \A t \in Spawners \ {s} : /\ proc'[Launch!Child(t)] = proc[Launch!Child(t)]
                                  /\ proc'[Launch!Runs(t)] = proc[Launch!Runs(t)]
    BY <1>1, ProcessesDiffer DEF Launch!Runs
  <2>3. \A t \in Daemonizers \ {s} : proc'[Launch!Daemon(t)] = proc[Launch!Daemon(t)]
    <3>1. ASSUME NEW t \in Daemonizers \ {s}  PROVE Launch!Daemon(t) # Launch!Daemon(s)
      BY <1>1, ProcessesDiffer
    <3>2. ASSUME NEW t \in Daemonizers \ {s}  PROVE Launch!Daemon(t) # Launch!Child(s)
      BY ProcessesDiffer
    <3>3. QED  BY <1>1, <3>1, <3>2, ProcessesDiffer
  <2>4. spc[s] \notin {"idle", "piped"}
    BY <1>1 DEF LaunchInv, LineageInOrder
  <2>5. QED  BY <1>1, <2>1, <2>2, <2>3, <2>4 DEF LaunchInv, LineageInOrder
<1>5. SomebodyWillTell'
  <2>1. ASSUME NEW t \in Spawners \ {s}, t \in Daemonizers
        PROVE  Launch!Daemon(t) # Launch!Daemon(s)
    BY <1>1, <2>1, ProcessesDiffer
  <2>2. ASSUME NEW t \in Spawners \ {s}
        PROVE  /\ proc'[Launch!Child(t)] = proc[Launch!Child(t)]
               /\ t \in Daemonizers => proc'[Launch!Daemon(t)] = proc[Launch!Daemon(t)]
    BY <1>1, <2>1, ProcessesDiffer
  <2>3. spc[s] \in {"forked", "reading"} /\ s \notin started \cup message
           => Launch!Daemon(s) \in writers'[s]
    BY <1>1, <1>2 DEF LaunchInv, SomebodyWillTell
  <2>4. QED  BY <1>1, <1>2, <2>2, <2>3 DEF LaunchInv, SomebodyWillTell
<1>6. WritersAreYoung'
  BY <1>1, <1>2, ProcessesDiffer DEF LaunchInv, WritersAreYoung
<1>7. ResultsFit'
  BY <1>1, ProcessesDiffer DEF LaunchInv, ResultsFit
<1>8. QED  BY <1>3, <1>4, <1>5, <1>6, <1>7 DEF LaunchInv

\* exec and the end of a process close what that process has, and no end that another one
\* still needs.
LEMMA ClosingKeepsLaunch ==
    ASSUME LaunchInv, NEW s \in Spawners,
           \/ Launch!KillChild(s) \/ Launch!IntermediateExits(s)
           \/ Launch!Exec(s) \/ Launch!StartupFails(s)
    PROVE  LaunchInv'
<1> DEFINE P == IF Launch!KillChild(s) \/ Launch!IntermediateExits(s)
                THEN Launch!Child(s) ELSE Launch!Runs(s)
<1>1. P \in Launch!Forked /\ P # Launch!Parent
  BY ProcessesDiffer
<1>2. /\ proc'[P] \in {"running", "ended"}
      /\ \A p \in Launch!Forked \ {P} : proc'[p] = proc[p]
      /\ \A t \in Spawners : writers'[t] = writers[t] \ {P}
  BY <1>1 DEF LaunchInv, Launch!TypeOK, Launch!KillChild, Launch!IntermediateExits,
     Launch!Exec, Launch!StartupFails, Launch!Becomes, Launch!CloseAllOf
<1>3. \A t \in Spawners :
          /\ spc'[t] = spc[t] \/ (t = s /\ spc[t] = "killing" /\ spc'[t] = "done")
          /\ t # s => /\ t \in started' <=> t \in started
                      /\ t \in message' <=> t \in message
                      /\ result'[t] = result[t]
          /\ t \in started => t \in started'
          /\ t \in message => t \in message'
  BY DEF LaunchInv, Launch!TypeOK, Launch!KillChild, Launch!IntermediateExits,
     Launch!Exec, Launch!StartupFails, Launch!Goto, Launch!Return
<1>4. ASSUME NEW t \in Spawners \ {s}
      PROVE  /\ Launch!Child(t) # P
             /\ t \in Daemonizers => Launch!Daemon(t) # P
             /\ Launch!Runs(t) # P
  <2>1. CASE P = Launch!Child(s)
    BY <1>4, <2>1, ProcessesDiffer DEF Launch!Runs
  <2>2. CASE P = Launch!Runs(s)
    BY <1>4, <2>2, ProcessesDiffer DEF Launch!Runs
  <2>3. QED  BY <2>1, <2>2
<1>5. Launch!TypeOK'
  BY ProcessesDiffer DEF LaunchInv, Launch!TypeOK, Launch!KillChild, Launch!IntermediateExits,
     Launch!Exec, Launch!StartupFails, Launch!Becomes, Launch!CloseAllOf, Launch!Goto,
     Launch!Return
<1>6. WritersAreYoung'
  BY <1>1, <1>2, <1>3 DEF LaunchInv, WritersAreYoung
<1>7. ASSUME NEW t \in Spawners \ {s}
      PROVE  /\ spc'[t] = spc[t] /\ result'[t] = result[t]
             /\ t \in started' <=> t \in started
             /\ t \in message' <=> t \in message
             /\ proc'[Launch!Child(t)] = proc[Launch!Child(t)]
             /\ t \in Daemonizers => proc'[Launch!Daemon(t)] = proc[Launch!Daemon(t)]
             /\ proc'[Launch!Runs(t)] = proc[Launch!Runs(t)]
  BY <1>2, <1>3, <1>4, ProcessesDiffer
<1>8. SomebodyWillTell'
  <2>1. ASSUME NEW t \in Spawners \ {s}, spc'[t] \in {"forked", "reading"},
               t \notin started' \cup message'
        PROVE  \/ proc'[Launch!Child(t)] = "starting" /\ Launch!Child(t) \in writers'[t]
               \/ /\ t \in Daemonizers /\ proc'[Launch!Daemon(t)] = "starting"
                  /\ Launch!Daemon(t) \in writers'[t]
    BY <1>2, <1>4, <1>7, <2>1 DEF LaunchInv, SomebodyWillTell
  <2>2. ASSUME spc'[s] \in {"forked", "reading"}, s \notin started' \cup message'
        PROVE  /\ s \in Daemonizers /\ proc'[Launch!Daemon(s)] = "starting"
               /\ Launch!Daemon(s) \in writers'[s]
    <3>1. spc'[s] = spc[s] /\ s \notin started \cup message
      BY <1>3, <2>2
    <3>2. Launch!IntermediateExits(s)
      BY <2>2, <3>1 DEF Launch!KillChild, Launch!Exec, Launch!StartupFails
    <3>3. P = Launch!Child(s) /\ proc[Launch!Child(s)] = "waiting"
      BY <3>2 DEF Launch!IntermediateExits
    <3>4. /\ s \in Daemonizers /\ proc[Launch!Daemon(s)] = "starting"
          /\ Launch!Daemon(s) \in writers[s]
      BY <2>2, <3>1, <3>3 DEF LaunchInv, SomebodyWillTell
    <3>5. QED  BY <1>2, <3>3, <3>4, ProcessesDiffer
  <2>3. QED  BY <2>1, <2>2 DEF SomebodyWillTell
<1>9. /\ spc'[s] \in {"idle", "piped"} => proc'[Launch!Child(s)] = "none"
      /\ s \in Daemonizers /\ proc'[Launch!Child(s)] \in {"none", "starting"}
            => proc'[Launch!Daemon(s)] = "none"
      /\ s \in started' => proc'[Launch!Runs(s)] \in {"running", "ended"} /\ s \notin message'
      /\ s \in message' => proc'[Launch!Runs(s)] \in {"running", "ended"}
      /\ result'[s] # "none" => spc'[s] = "done"
      /\ result'[s] = "process" => s \in started'
      /\ result'[s] = "childError" => s \in message'
      /\ result'[s] = "forkFailed" => proc'[Launch!Child(s)] = "none"
      /\ result'[s] = "timedOut" => proc'[Launch!Child(s)] = "ended"
  <2>1. CASE Launch!KillChild(s) \/ Launch!IntermediateExits(s)
    <3>1. /\ proc'[Launch!Child(s)] = "ended" /\ UNCHANGED <<started, message>>
          /\ s \in Daemonizers => proc'[Launch!Daemon(s)] = proc[Launch!Daemon(s)]
          /\ Launch!Runs(s) = Launch!Child(s) \/ proc'[Launch!Runs(s)] = proc[Launch!Runs(s)]
      BY <1>2, <2>1, ProcessesDiffer DEF LaunchInv, Launch!TypeOK, Launch!KillChild,
         Launch!IntermediateExits, Launch!Becomes
    <3>2. CASE Launch!KillChild(s)
      <4>1. spc'[s] = "done" /\ result'[s] = "timedOut"
        BY <3>2 DEF LaunchInv, Launch!TypeOK, Launch!KillChild, Launch!Return, Launch!Goto
      <4>2. QED  BY <3>1, <4>1 DEF LaunchInv, LineageInOrder
    <3>3. CASE Launch!IntermediateExits(s)
      <4>1. spc' = spc /\ result' = result /\ proc[Launch!Child(s)] = "waiting"
        BY <3>3 DEF Launch!IntermediateExits
      <4>2. QED  BY <3>1, <4>1 DEF LaunchInv, LineageInOrder, ResultsFit
    <3>4. QED  BY <2>1, <3>2, <3>3
  <2>2. CASE Launch!Exec(s) \/ Launch!StartupFails(s)
    <3>1. /\ proc[Launch!Runs(s)] = "starting"
          /\ proc'[Launch!Runs(s)] \in {"running", "ended"}
          /\ \A p \in Launch!Forked \ {Launch!Runs(s)} : proc'[p] = proc[p]
          /\ spc' = spc /\ result' = result
          /\ \/ started' = started \cup {s} /\ message' = message
             \/ message' = message \cup {s} /\ started' = started
      BY <2>2, ProcessesDiffer DEF LaunchInv, Launch!TypeOK, Launch!Exec,
         Launch!StartupFails, Launch!Becomes
    <3>2. s \notin started \cup message
      BY <3>1 DEF LaunchInv, LineageInOrder
    <3>3. CASE s \in Daemonizers
      <4>1. /\ Launch!Runs(s) = Launch!Daemon(s)
            /\ proc'[Launch!Child(s)] = proc[Launch!Child(s)]
        BY <3>1, <3>3, ProcessesDiffer DEF Launch!Runs
      <4>2. QED  BY <3>1, <3>2, <3>3, <4>1 DEF LaunchInv, LineageInOrder, ResultsFit
    <3>4. CASE s \notin Daemonizers
      <4>1. Launch!Runs(s) = Launch!Child(s)
        BY <3>4 DEF Launch!Runs
      <4>2. QED  BY <3>1, <3>2, <3>4, <4>1 DEF LaunchInv, LineageInOrder, ResultsFit
    <3>5. QED  BY <3>3, <3>4
  <2>3. QED  BY <2>1, <2>2
<1>10. LineageInOrder' /\ ResultsFit'
  BY <1>7, <1>9 DEF LaunchInv, LineageInOrder, ResultsFit
<1>11. QED  BY <1>5, <1>6, <1>8, <1>10 DEF LaunchInv

\* Nobody has called spawn() yet, and every step of a call and of what it forks.
LEMMA LaunchInvHolds ==
    /\ Launch!Init => LaunchInv
    /\ LaunchInv /\ [Launch!Next]_spawnVars => LaunchInv'
<1>1. ASSUME Launch!Init  PROVE LaunchInv
  <2>1. Launch!TypeOK
    BY <1>1 DEF Launch!Init, Launch!TypeOK
  <2>2. LineageInOrder
    BY <1>1, ProcessesDiffer DEF Launch!Init, LineageInOrder
  <2>3. SomebodyWillTell /\ WritersAreYoung /\ ResultsFit
    BY <1>1 DEF Launch!Init, SomebodyWillTell, WritersAreYoung, ResultsFit
  <2>4. QED  BY <2>1, <2>2, <2>3 DEF LaunchInv
<1>2. ASSUME LaunchInv, UNCHANGED spawnVars  PROVE LaunchInv'
  BY <1>2 DEF spawnVars, LaunchInv, Launch!TypeOK, LineageInOrder, SomebodyWillTell,
     WritersAreYoung, ResultsFit
<1>3. ASSUME NEW s \in Spawners  PROVE ~Launch!ForkDaemonFails(s)
  BY DEF Launch!ForkDaemonFails
<1>4. ASSUME LaunchInv, Launch!Next  PROVE LaunchInv'
  BY <1>3, <1>4, ParentKeepsLaunch, ForkKeepsLaunch, ForkDaemonKeepsLaunch,
     ClosingKeepsLaunch DEF Launch!Next, Launch!Spawning
<1>5. QED  BY <1>1, <1>2, <1>4

\* What the invariant says of the results and of the pipe.
LEMMA LaunchInvMeans == LaunchInv => Launch!TypeOK /\ SpawnIsTruthful
<1>1. SUFFICES ASSUME LaunchInv  PROVE Launch!TypeOK /\ SpawnIsTruthful
  OBVIOUS
<1>2. ASSUME NEW s \in Spawners
      PROVE  /\ result[s] = "process" => s \in started
             /\ result[s] = "childError" => s \notin started
             /\ result[s] = "forkFailed" => proc[Launch!Child(s)] = "none"
             /\ result[s] = "timedOut" => proc[Launch!Child(s)] = "ended"
  BY <1>1 DEF LaunchInv, ResultsFit, LineageInOrder
<1>3. Launch!ResultsAreTrue
  BY <1>1, <1>2 DEF LaunchInv, Launch!TypeOK, Launch!ResultsAreTrue
<1>4. Launch!NobodyKeepsThePipe
  BY <1>1 DEF LaunchInv, WritersAreYoung, Launch!TypeOK, Launch!NobodyKeepsThePipe
<1>5. QED  BY <1>1, <1>3, <1>4 DEF LaunchInv, SpawnIsTruthful, Launch!SpawnIsTruthful

\* spawn() returns a process only when its program has been started and an error only
\* when it never will be, whatever other threads fork in between and inherit (after a
\* timeout the child it forked is dead, a daemonized grandchild may be alive); and once all
\* of those have called exec, nobody keeps its pipe open.
THEOREM SpawnTellsTheTruth == Launch!Spec => []SpawnIsTruthful
  BY LaunchInvHolds, LaunchInvMeans, PTL DEF Launch!Spec, spawnVars, Launch!spawnVars

(***************************************************************************)
(* SelectEngine                                                            *)
(***************************************************************************)
EngineAssumption == NumObjects \in Nat

\* A round waits for what was registered when it began, and calls back only for what is
\* still registered.
RoundFitsTable ==
    /\ epc = "select" => selObjs = m_table
    /\ epc # "dispatch" => available = Engine!Nothing
    /\ \A o \in Engine!Objects : available[o] # {} => m_table[o] # {}

\* The descriptors that still have callbacks due.
Due == {o \in Engine!Objects : available[o] # {}}

\* The loop has done with all before the cursor, and does not end before the rest.
LoopMissesNothing ==
    /\ cursor >= 1
    /\ \A o \in Engine!Objects : o < cursor => available[o] = {}
    /\ epc = "dispatch" => Cardinality(Due) <= selected

EngineInv ==
    /\ Engine!TypeOK /\ ~wild
    /\ RoundFitsTable /\ LoopMissesNothing

\* The components count with the same operator.
LEMMA SameCardinality ==
    ASSUME NEW S
    PROVE  Engine!Cardinality(S) = Cardinality(S) /\ Polls!Cardinality(S) = Cardinality(S)
<1>1. Engine!Cardinality(S) = Cardinality(S)
  BY Zenon DEF Cardinality, Engine!Cardinality
<1>2. Polls!Cardinality(S) = Cardinality(S)
  BY Zenon DEF Cardinality, Polls!Cardinality
<1>3. QED  BY <1>1, <1>2

\* What is due can be counted.
LEMMA DueIsFinite ==
    ASSUME EngineAssumption
    PROVE  IsFiniteSet(Due) /\ Cardinality(Due) \in Nat
<1>1. IsFiniteSet(1..NumObjects)
  BY FS_Interval DEF EngineAssumption
<1>2. IsFiniteSet(Due)
  BY <1>1, FS_Subset DEF Due, Engine!Objects
<1>3. QED  BY <1>2, FS_CardinalityType

\* selectRWEpoll() and selectRWPoll() differ only in what they report.
LEMMA PollsIsLikeEngine ==
    ASSUME [Polls!Next]_engineVars
    PROVE  [Engine!Next]_engineVars \/ (Polls!Selected /\ UNCHANGED wild)
<1>1. CASE UNCHANGED engineVars
  BY <1>1
<1>2. CASE Polls!Go
  BY <1>2 DEF Engine!Next, Engine!Go, Polls!Go, Engine!roundVars, Polls!roundVars
<1>3. CASE Polls!GoStep
  <2>1. CASE Polls!StartRound
    BY <1>3, <2>1 DEF Polls!GoStep, Engine!Next, Engine!GoStep, Engine!StartRound,
       Polls!StartRound, Engine!Leave, Polls!Leave, Engine!Nothing, Polls!Nothing,
       Engine!Objects, Polls!Objects
  <2>2. CASE Polls!Selected
    BY <2>2 DEF Polls!Selected
  <2>3. CASE Polls!SkipObject
    BY <1>3, <2>3 DEF Polls!GoStep, Engine!Next, Engine!GoStep, Engine!SkipObject,
       Polls!SkipObject, Engine!AtNext, Polls!AtNext, Engine!Objects, Polls!Objects
  <2>4. CASE Polls!EndRound
    BY <1>3, <2>4 DEF Polls!GoStep, Engine!Next, Engine!GoStep, Engine!EndRound,
       Polls!EndRound, Engine!AtNext, Polls!AtNext, Engine!Nothing, Polls!Nothing,
       Engine!Objects, Polls!Objects
  <2>5. ASSUME NEW o \in Engine!Objects, NEW e \in Engine!Events, Polls!CallSelected(o, e)
        PROVE  Engine!CallSelected(o, e)
    <3>1. Polls!Callback(o) => Engine!Callback(o)
      BY SameCardinality DEF Engine!Callback, Polls!Callback, Engine!Added, Polls!Added,
         Engine!Removed, Polls!Removed, Engine!Objects, Polls!Objects
    <3>2. Polls!AtNext <=> Engine!AtNext
      BY DEF Engine!AtNext, Polls!AtNext, Engine!Objects, Polls!Objects
    <3>3. QED  BY <2>5, <3>1, <3>2 DEF Engine!CallSelected, Polls!CallSelected
  <2>6. QED
    BY <1>3, <2>1, <2>2, <2>3, <2>4, <2>5 DEF Polls!GoStep, Engine!Next, Engine!GoStep,
       Engine!Objects, Polls!Objects, Engine!Events, Polls!Events
<1>4. CASE Polls!SelectTimesOut
  BY <1>4 DEF Engine!Next, Engine!SelectTimesOut, Polls!SelectTimesOut, Engine!Leave,
     Polls!Leave, Engine!Nothing, Polls!Nothing, Engine!Objects, Polls!Objects,
     Engine!Reported, Polls!Reported
<1>5. ASSUME NEW o \in Engine!Objects,
             \/ Polls!AddSelectableObject(o) \/ Polls!RemoveSelectableObject(o)
             \/ Polls!BecomesReady(o)
      PROVE  \/ Engine!AddSelectableObject(o) \/ Engine!RemoveSelectableObject(o)
             \/ Engine!BecomesReady(o)
  BY <1>5 DEF Engine!AddSelectableObject, Polls!AddSelectableObject,
     Engine!RemoveSelectableObject, Polls!RemoveSelectableObject, Engine!BecomesReady,
     Polls!BecomesReady, Engine!Added, Polls!Added, Engine!Removed, Polls!Removed,
     Engine!Events, Polls!Events, Engine!roundVars, Polls!roundVars
<1>6. QED
  BY <1>1, <1>2, <1>3, <1>4, <1>5 DEF Polls!Next, Engine!Next, Engine!Objects, Polls!Objects

\* go() begins, a round begins, ends or throws, and the table changes outside of go().
LEMMA RoundKeepsEngine ==
    ASSUME EngineAssumption, EngineInv,
           \/ Engine!Go \/ Engine!StartRound \/ Engine!SelectTimesOut \/ Engine!SkipObject
           \/ Engine!EndRound
           \/ \E o \in Engine!Objects :
                 \/ Engine!AddSelectableObject(o) \/ Engine!RemoveSelectableObject(o)
                 \/ Engine!BecomesReady(o)
    PROVE  EngineInv'
<1>0. Engine!Nothing \in [Engine!Objects -> SUBSET Engine!Events]
  BY DEF Engine!Nothing
<1>1. CASE Engine!Go
  BY <1>1 DEF EngineInv, RoundFitsTable, LoopMissesNothing, Due, Engine!TypeOK, Engine!Go,
     Engine!roundVars
<1>2. CASE Engine!StartRound
  <2>1. CASE m_table = Engine!Nothing
    BY <1>0, <1>2, <2>1 DEF EngineInv, RoundFitsTable, LoopMissesNothing, Due, Engine!TypeOK,
       Engine!StartRound, Engine!Leave, Engine!Nothing
  <2>2. CASE m_table # Engine!Nothing
    BY <1>2, <2>2 DEF EngineInv, RoundFitsTable, LoopMissesNothing, Due, Engine!TypeOK,
       Engine!StartRound
  <2>3. QED  BY <2>1, <2>2
<1>3. CASE Engine!SelectTimesOut
  BY <1>0, <1>3 DEF EngineInv, RoundFitsTable, LoopMissesNothing, Due, Engine!TypeOK,
     Engine!SelectTimesOut, Engine!Leave, Engine!Nothing
<1>4. CASE Engine!SkipObject
  BY <1>4 DEF EngineInv, RoundFitsTable, LoopMissesNothing, Due, Engine!TypeOK,
     Engine!SkipObject, Engine!AtNext, Engine!Objects
<1>5. CASE Engine!EndRound
  BY <1>0, <1>5 DEF EngineInv, RoundFitsTable, LoopMissesNothing, Due, Engine!TypeOK,
     Engine!EndRound, Engine!Nothing
<1>6. ASSUME NEW o \in Engine!Objects,
             Engine!AddSelectableObject(o) \/ Engine!RemoveSelectableObject(o)
      PROVE  EngineInv'
  <2>1. /\ epc = "out" /\ epc' = epc /\ m_table' \in [Engine!Objects -> SUBSET Engine!Events]
        /\ UNCHANGED <<m_stopFlag, ready, selObjs, available, selected, cursor, wild>>
    BY <1>6 DEF EngineInv, Engine!TypeOK, Engine!AddSelectableObject, Engine!Added,
       Engine!RemoveSelectableObject, Engine!Removed, Engine!roundVars, Engine!Events
  <2>2. QED
    BY <2>1 DEF EngineInv, RoundFitsTable, LoopMissesNothing, Due, Engine!TypeOK,
       Engine!Nothing
<1>7. ASSUME NEW o \in Engine!Objects, Engine!BecomesReady(o)
      PROVE  EngineInv'
  <2>1. /\ ready' \in [Engine!Objects -> SUBSET (Engine!Events \cup {"hangup", "error"})]
        /\ UNCHANGED <<m_table, m_stopFlag, epc, selObjs, available, selected, cursor, wild>>
    BY <1>7 DEF EngineInv, Engine!TypeOK, Engine!BecomesReady, Engine!roundVars
  <2>2. QED
    BY <2>1 DEF EngineInv, RoundFitsTable, LoopMissesNothing, Due, Engine!TypeOK
<1>8. QED  BY <1>1, <1>2, <1>3, <1>4, <1>5, <1>6, <1>7

\* Both kinds of selectRW() find only what was waited for, of what they report.
LEMMA SelectKeepsEngine ==
    ASSUME EngineAssumption, EngineInv, Engine!Selected \/ Polls!Selected, UNCHANGED wild
    PROVE  EngineInv'
<1> DEFINE reported == {o \in Engine!Objects : Engine!Reported(o)}
<1>1. /\ epc = "select" /\ epc' = "dispatch" /\ cursor' = 1
      /\ selected' = Cardinality(reported)
      /\ UNCHANGED <<m_table, m_stopFlag, ready, selObjs, wild>>
      /\ available' \in [Engine!Objects -> SUBSET Engine!Events]
      /\ \A o \in Engine!Objects :
            /\ available'[o] \subseteq selObjs[o]
            /\ available'[o] # {} => Engine!Reported(o)
  <2>1. selObjs \in [Engine!Objects -> SUBSET Engine!Events]
    BY DEF EngineInv, Engine!TypeOK
  <2>2. CASE Engine!Selected
    <3>1. \A o \in Engine!Objects : /\ Engine!Found(o) \subseteq selObjs[o]
                                    /\ Engine!Found(o) # {} => Engine!Reported(o)
      BY DEF Engine!Found, Engine!Reported
    <3>2. available' = [o \in Engine!Objects |-> Engine!Found(o)]
      BY <2>2 DEF Engine!Selected
    <3>3. \A o \in Engine!Objects : Engine!Found(o) \in SUBSET Engine!Events
      BY <2>1, <3>1
    <3>4. available' \in [Engine!Objects -> SUBSET Engine!Events]
      BY <3>2, <3>3
    <3>5. selected' = Cardinality(reported)
      BY <2>2, SameCardinality DEF Engine!Selected
    <3>6. QED  BY <2>2, <3>1, <3>2, <3>4, <3>5 DEF Engine!Selected
  <2>3. CASE Polls!Selected
    <3>1. \A o \in Engine!Objects : /\ Polls!Found(o) \subseteq selObjs[o]
                                    /\ Polls!Found(o) # {} => Engine!Reported(o)
      BY DEF Polls!Found, Engine!Reported
    <3>2. \A o \in Engine!Objects : Polls!Reported(o) <=> Engine!Reported(o)
      BY DEF Polls!Reported, Engine!Reported
    <3>3. {o \in Polls!Objects : Polls!Reported(o)} = reported
      BY <3>2 DEF Polls!Objects, Engine!Objects
    <3>4. available' = [o \in Engine!Objects |-> Polls!Found(o)]
      BY <2>3 DEF Polls!Selected, Polls!Objects, Engine!Objects
    <3>5. \A o \in Engine!Objects : Polls!Found(o) \in SUBSET Engine!Events
      BY <2>1, <3>1
    <3>6. available' \in [Engine!Objects -> SUBSET Engine!Events]
      BY <3>4, <3>5
    <3>7. selected' = Cardinality(reported)
      BY <2>3, <3>3, SameCardinality DEF Polls!Selected
    <3>8. QED  BY <2>3, <3>1, <3>4, <3>6, <3>7 DEF Polls!Selected
  <2>4. QED  BY <2>2, <2>3
<1>2. IsFiniteSet(reported)
  <2>1. IsFiniteSet(1..NumObjects)
    BY FS_Interval DEF EngineAssumption
  <2>2. QED  BY <2>1, FS_Subset DEF Engine!Objects
<1>3. Cardinality(Due') <= Cardinality(reported) /\ Cardinality(reported) \in Nat
  <2>1. Due' \subseteq reported
    BY <1>1 DEF Due
  <2>2. QED  BY <2>1, <1>2, FS_Subset, FS_CardinalityType
<1>4. Engine!TypeOK' /\ ~wild'
  BY <1>1, <1>3 DEF EngineInv, Engine!TypeOK
<1>5. RoundFitsTable'
  BY <1>1 DEF EngineInv, RoundFitsTable
<1>6. LoopMissesNothing'
  BY <1>1, <1>3 DEF LoopMissesNothing, Engine!Objects
<1>7. QED  BY <1>4, <1>5, <1>6 DEF EngineInv

\* A callback leaves the descriptors alone that have callbacks due, and changes the table
\* only when the iterator is not needed any more.
LEMMA CallbackKeepsEngine ==
    ASSUME EngineAssumption, EngineInv,
           NEW o \in Engine!Objects, NEW e \in Engine!Events, Engine!CallSelected(o, e)
    PROVE  EngineInv'
<1>1. /\ epc = "dispatch" /\ epc' = epc /\ o = cursor /\ selected > 0
      /\ e \in available[o] /\ Engine!Callback(o)
      /\ ready' = [ready EXCEPT ![o] = @ \ {e}]
      /\ available' = [available EXCEPT ![o] = @ \ {e}]
      /\ selected' = IF available'[o] = {} THEN selected - 1 ELSE selected
      /\ cursor' = IF available'[o] = {} THEN cursor + 1 ELSE cursor
      /\ wild' = (m_table[o] = {} \/ (available'[o] # {} /\ m_table' # m_table))
      /\ selObjs' = selObjs
  BY DEF Engine!CallSelected, Engine!AtNext
<1>2. available'[o] = available[o] \ {e} /\ o \in Nat /\ o \in 1..NumObjects
  BY <1>1 DEF EngineInv, Engine!TypeOK, Engine!Objects, EngineAssumption
<1>3. /\ m_table' \in [Engine!Objects -> SUBSET Engine!Events] /\ m_stopFlag' \in BOOLEAN
      /\ \A p \in Engine!Objects : p # o /\ m_table[p] # {} => m_table'[p] # {}
      /\ m_table' # m_table => Cardinality(available[o]) = 1
  <2>1. m_table \in [Engine!Objects -> SUBSET Engine!Events] /\ m_stopFlag \in BOOLEAN
    BY DEF EngineInv, Engine!TypeOK
  <2>2. CASE UNCHANGED m_table /\ m_stopFlag' \in BOOLEAN
    BY <2>1, <2>2
  <2>3. CASE /\ Engine!Cardinality(available[o]) = 1 /\ UNCHANGED m_stopFlag
             /\ \E p \in Engine!Objects, events \in {{"read", "write"}} :
                   m_table' = Engine!Added(p, events)
    <3>1. PICK p \in Engine!Objects : m_table' = Engine!Added(p, {"read", "write"})
      BY <2>3
    <3>2. QED
      BY <2>1, <2>3, <3>1, SameCardinality DEF Engine!Added, Engine!Events
  <2>4. CASE /\ Engine!Cardinality(available[o]) = 1 /\ UNCHANGED m_stopFlag
             /\ m_table' = Engine!Removed(o)
    BY <2>1, <2>4, SameCardinality DEF Engine!Removed
  <2>5. QED
    <3>1. \/ UNCHANGED <<m_table, m_stopFlag>>
          \/ m_stopFlag' = TRUE /\ UNCHANGED m_table
          \/ /\ Engine!Cardinality(available[o]) = 1
             /\ \E p \in Engine!Objects, events \in {{"read", "write"}} :
                   m_table' = Engine!Added(p, events)
             /\ UNCHANGED m_stopFlag
          \/ /\ Engine!Cardinality(available[o]) = 1
             /\ \E p \in {o} : m_table' = Engine!Removed(p)
             /\ UNCHANGED m_stopFlag
      BY <1>1 DEF Engine!Callback
    <3>2. CASE UNCHANGED <<m_table, m_stopFlag>>
      BY <2>1, <2>2, <3>2
    <3>3. CASE m_stopFlag' = TRUE /\ UNCHANGED m_table
      BY <2>2, <3>3
    <3>4. QED  BY <2>3, <2>4, <3>1, <3>2, <3>3
<1>4. m_table' # m_table => available'[o] = {}
  <2>1. ASSUME Cardinality(available[o]) = 1
        PROVE  available[o] \subseteq {e}
    <3>1. IsFiniteSet(available[o])
      <4>1. IsFiniteSet(Engine!Events)
        <5>1. IsFiniteSet({"read"})
          BY FS_Singleton
        <5>2. Engine!Events = {"read"} \cup {"write"}
          BY DEF Engine!Events
        <5>3. QED  BY <5>1, <5>2, FS_AddElement
      <4>2. available[o] \subseteq Engine!Events
        BY DEF EngineInv, Engine!TypeOK
      <4>3. QED  BY <4>1, <4>2, FS_Subset
    <3>2. /\ IsFiniteSet(available[o] \ {e})
          /\ Cardinality(available[o] \ {e})
                = IF e \in available[o] THEN Cardinality(available[o]) - 1
                                        ELSE Cardinality(available[o])
      BY <3>1, FS_RemoveElement
    <3>3. available[o] \ {e} = {}
      BY <1>1, <2>1, <3>2, FS_EmptySet
    <3>4. QED  BY <3>3
  <2>2. QED  BY <1>2, <1>3, <2>1
<1>5. ~wild' /\ wild' \in BOOLEAN
  BY <1>1, <1>4 DEF EngineInv, RoundFitsTable
<1>6. /\ available' \in [Engine!Objects -> SUBSET Engine!Events]
      /\ ready' \in [Engine!Objects -> SUBSET (Engine!Events \cup {"hangup", "error"})]
      /\ \A p \in Engine!Objects : p # o => available'[p] = available[p]
  BY <1>1 DEF EngineInv, Engine!TypeOK
<1>7. Engine!TypeOK'
  BY <1>1, <1>3, <1>5, <1>6 DEF EngineInv, Engine!TypeOK
<1>8. RoundFitsTable'
  BY <1>1, <1>2, <1>3, <1>4, <1>6 DEF EngineInv, RoundFitsTable
<1>9. Cardinality(Due') <= selected'
  <2>0. Cardinality(Due) <= selected /\ selected \in Nat /\ Cardinality(Due) \in Nat
    BY <1>1, DueIsFinite DEF EngineInv, LoopMissesNothing, Engine!TypeOK
  <2>1. CASE available'[o] = {}
    <3>1. Due' = Due \ {o} /\ o \in Due
      BY <1>1, <1>6, <2>1 DEF Due
    <3>2. Cardinality(Due') = Cardinality(Due) - 1
      BY <3>1, DueIsFinite, FS_RemoveElement
    <3>3. QED  BY <1>1, <2>0, <2>1, <3>2
  <2>2. CASE available'[o] # {}
    <3>1. Due' = Due
      BY <1>1, <1>6, <2>2 DEF Due
    <3>2. QED  BY <1>1, <2>0, <2>2, <3>1
  <2>3. QED  BY <2>1, <2>2
<1>10. cursor' >= 1 /\ \A p \in Engine!Objects : p < cursor' => available'[p] = {}
  BY <1>1, <1>2, <1>6 DEF EngineInv, LoopMissesNothing, Engine!Objects
<1>11. QED  BY <1>5, <1>7, <1>8, <1>9, <1>10 DEF EngineInv, LoopMissesNothing

\* The invariant holds, for selectRWEpoll() and for selectRWPoll(),
LEMMA EngineInvHolds ==
    ASSUME EngineAssumption
    PROVE  /\ Engine!Init => EngineInv
           /\ EngineInv /\ [Engine!Next]_engineVars => EngineInv'
           /\ EngineInv /\ [Polls!Next]_engineVars => EngineInv'
<1>1. Engine!Init => EngineInv
  <2>1. /\ Engine!Nothing \in [Engine!Objects -> SUBSET Engine!Events]
        /\ Engine!Nothing
              \in [Engine!Objects -> SUBSET (Engine!Events \cup {"hangup", "error"})]
        /\ \A o \in Engine!Objects : Engine!Nothing[o] = {}
    BY DEF Engine!Nothing
  <2>2. SUFFICES ASSUME Engine!Init  PROVE EngineInv
    OBVIOUS
  <2>3. Engine!TypeOK /\ ~wild
    BY <2>1, <2>2 DEF Engine!Init, Engine!TypeOK
  <2>4. RoundFitsTable /\ LoopMissesNothing
    BY <2>1, <2>2 DEF Engine!Init, RoundFitsTable, LoopMissesNothing
  <2>5. QED  BY <2>3, <2>4 DEF EngineInv
<1>2. ASSUME EngineInv, [Engine!Next]_engineVars
      PROVE  EngineInv'
  <2>1. CASE UNCHANGED engineVars
    BY <1>2, <2>1 DEF engineVars, EngineInv, RoundFitsTable, LoopMissesNothing, Due,
       Engine!TypeOK
  <2>2. CASE Engine!Selected
    BY <1>2, <2>2, SelectKeepsEngine DEF Engine!Selected
  <2>3. CASE \E o \in Engine!Objects, e \in Engine!Events : Engine!CallSelected(o, e)
    BY <1>2, <2>3, CallbackKeepsEngine
  <2>4. CASE \/ Engine!Go \/ Engine!StartRound \/ Engine!SelectTimesOut
             \/ Engine!SkipObject \/ Engine!EndRound
             \/ \E o \in Engine!Objects :
                   \/ Engine!AddSelectableObject(o) \/ Engine!RemoveSelectableObject(o)
                   \/ Engine!BecomesReady(o)
    BY <1>2, <2>4, RoundKeepsEngine
  <2>5. QED  BY <1>2, <2>1, <2>2, <2>3, <2>4 DEF Engine!Next, Engine!GoStep
<1>3. ASSUME EngineInv, [Polls!Next]_engineVars
      PROVE  EngineInv'
  BY <1>2, <1>3, PollsIsLikeEngine, SelectKeepsEngine
<1>4. QED  BY <1>1, <1>2, <1>3

\* and is what the round promises: when the loop ends, nothing is due.
LEMMA EngineInvMeans ==
    ASSUME EngineAssumption, EngineInv
    PROVE  Engine!TypeOK /\ CallbacksAreCalled
<1>1. ASSUME epc = "dispatch", ~Engine!AtNext
      PROVE  \A o \in Engine!Objects : available[o] = {}
  <2>1. selected \in Nat /\ cursor \in Nat
    BY DEF EngineInv, Engine!TypeOK
  <2>2. CASE selected = 0
    <3>1. Cardinality(Due) = 0
      BY <1>1, <2>2, DueIsFinite DEF EngineInv, LoopMissesNothing
    <3>2. Due = {}
      BY <3>1, DueIsFinite, FS_EmptySet
    <3>3. QED  BY <3>2 DEF Due
  <2>3. CASE cursor \notin 1..NumObjects
    BY <2>1, <2>3 DEF EngineInv, LoopMissesNothing, EngineAssumption, Engine!Objects
  <2>4. QED  BY <1>1, <2>1, <2>2, <2>3 DEF Engine!AtNext, Engine!Objects
<1>2. QED
  BY <1>1 DEF EngineInv, CallbacksAreCalled, Engine!IteratorsArePointed,
     Engine!NothingIsSkipped

\* CallbacksAreCalled: SelectEngine::go() calls every callback that select() asks for, and
\* none through an iterator that points at nothing, for any number of descriptors, with
\* selectRWEpoll() and with selectRWPoll().
THEOREM CallbacksCalled ==
    ASSUME EngineAssumption
    PROVE  /\ Engine!Spec => []CallbacksAreCalled
           /\ Polls!Spec => []CallbacksAreCalled
<1>1. [Engine!Next]_(Engine!engineVars) => [Engine!Next]_engineVars
  BY DEF Engine!engineVars, Engine!roundVars, engineVars
<1>2. [Polls!Next]_(Polls!engineVars) => [Polls!Next]_engineVars
  BY DEF Polls!engineVars, Polls!roundVars, engineVars
<1>3. EngineInv => CallbacksAreCalled
  BY EngineInvMeans
<1>4. Engine!Init => EngineInv
  BY EngineInvHolds
<1>5. Polls!Init => EngineInv
  BY EngineInvHolds DEF Polls!Init, Engine!Init, Polls!Nothing, Engine!Nothing,
     Polls!Objects, Engine!Objects
<1>6. EngineInv /\ [Engine!Next]_engineVars => EngineInv'
  BY EngineInvHolds
<1>7. EngineInv /\ [Polls!Next]_engineVars => EngineInv'
  BY EngineInvHolds
<1>8. QED
  BY <1>1, <1>2, <1>3, <1>4, <1>5, <1>6, <1>7, PTL DEF Engine!Spec, Polls!Spec

(***************************************************************************)
(* processInputOutput()                                                    *)
(***************************************************************************)
ExecAssumption ==
    /\ InputSize \in Nat /\ Capacity \in Nat /\ MaxOutput \in Nat
    /\ Limit \in Int /\ MaxBusy \in Nat

\* What the child has been sent.
Arrived == received \o toChild

\* The buffer holds what follows what has arrived.
InputInOrder ==
    /\ received \in Seq(Nat) /\ toChild \in Seq(Nat)
    /\ availableDataLen = Len(inputs) /\ replied = 0
    /\ given = Len(Arrived) - written + Len(inputs)
    /\ \A i \in 1..Len(Arrived) : Arrived[i] = i
    /\ \A i \in 1..Len(inputs) : inputs[i] = given - Len(inputs) + i
    /\ xpc # "write" => written = 0
    /\ xpc = "write" => Len(inputs) > 0
    /\ inClosed /\ "in" \in childOpen => Len(inputs) = 0

\* Whatever the child has written is handed on or still in the pipe, and a stream is
\* closed only when nothing more can come.
OutputInOrder ==
    /\ \A s \in IO!Outputs :
          /\ wrote[s] = gathered[s] + pipe[s]
          /\ childWrites = s => wrote[s] < MaxOutput /\ s \in childOpen
          /\ s \in found => pipe[s] > 0 \/ s \notin childOpen
          /\ s \notin isOpen => pipe[s] = 0 /\ s \notin childOpen
    /\ "in" \in found => Len(inputs) > 0
    /\ xpc = "select" => found = {}
    /\ xpc = "done" => isOpen \cap IO!Outputs = {}

\* The types of what the input passes through,
InputTypes ==
    /\ inputs \in Seq(1..InputSize) /\ given \in 0..InputSize /\ written \in 0..Len(inputs)
    /\ Len(toChild) \in 0..Capacity /\ inClosed \in BOOLEAN

\* of what the output passes through,
OutputTypes ==
    /\ gathered \in [IO!Outputs -> 0..MaxOutput] /\ wrote \in [IO!Outputs -> 0..MaxOutput]
    /\ pipe \in [IO!Outputs -> 0..Capacity]
    /\ childOpen \subseteq {"in"} \cup IO!Outputs /\ childWrites \in {"none"} \cup IO!Outputs

\* and of what the loop keeps.
LoopTypes ==
    /\ isOpen \subseteq {"in"} \cup IO!Outputs /\ found \subseteq isOpen
    /\ xpc \in {"select", "handle", "write", "done", "timeout", "error"}
    /\ timeoutType \in {"infinite", "relative", "reset"}
    /\ left \in Int /\ spent \in 0..MaxBusy

ExecInv == InputTypes /\ OutputTypes /\ LoopTypes /\ InputInOrder /\ OutputInOrder

\* What a callback supplies follows what it has supplied before.
LEMMA BytesFollow ==
    ASSUME NEW m \in Nat, NEW n \in Nat
    PROVE  LET b == IO!Bytes(m + 1, m + n) IN
           /\ b \in Seq((m + 1)..(m + n)) /\ Len(b) = n
           /\ \A i \in 1..n : b[i] = m + i
<1> DEFINE b == IO!Bytes(m + 1, m + n)
<1>1. b = [i \in 1..n |-> m + i]
  <2>1. b = [i \in 1..(m + n - (m + 1) + 1) |-> m + 1 + i - 1]
    BY DEF IO!Bytes
  <2>2. m + n - (m + 1) + 1 = n
    OBVIOUS
  <2>3. \A i \in 1..n : m + 1 + i - 1 = m + i
    OBVIOUS
  <2>4. QED  BY <2>1, <2>2, <2>3
<1>2. \A i \in 1..n : m + i \in (m + 1)..(m + n)
  OBVIOUS
<1>3. QED  BY <1>1, <1>2

\* What is left of a buffer, and what a callback adds to it.
LEMMA RestAndMore ==
    ASSUME NEW s \in Seq(1..InputSize), NEW g \in 0..InputSize, NEW w \in 0..Len(s),
           NEW n \in 0..(InputSize - g), ExecAssumption,
           \A i \in 1..Len(s) : s[i] = g - Len(s) + i
    PROVE  LET t == SubSeq(s, w + 1, Len(s)) \o IO!Bytes(g + 1, g + n) IN
           /\ t \in Seq(1..InputSize) /\ Len(t) = Len(s) - w + n
           /\ \A i \in 1..Len(t) : t[i] = g + n - Len(t) + i
<1> DEFINE rest == SubSeq(s, w + 1, Len(s))
           more == IO!Bytes(g + 1, g + n)
           t    == rest \o more
<1>1. Len(s) \in Nat /\ g \in Nat /\ n \in Nat /\ w \in Nat /\ w <= Len(s)
      /\ InputSize \in Nat /\ g + n <= InputSize
  BY LenProperties DEF ExecAssumption
<1>2. /\ rest \in Seq(1..InputSize) /\ Len(rest) = Len(s) - w
      /\ \A i \in 1..(Len(s) - w) : rest[i] = s[w + i]
  BY <1>1
<1>3. /\ more \in Seq(1..InputSize) /\ Len(more) = n
      /\ \A i \in 1..n : more[i] = g + i
  <2>1. (g + 1)..(g + n) \subseteq 1..InputSize
    BY <1>1
  <2>2. QED  BY <1>1, <2>1, BytesFollow, SeqMonotonic
<1> HIDE DEF rest, more
<1>4. /\ t \in Seq(1..InputSize) /\ Len(t) = Len(rest) + Len(more)
      /\ \A i \in 1..Len(rest) + Len(more) :
            t[i] = IF i <= Len(rest) THEN rest[i] ELSE more[i - Len(rest)]
  <2>1. rest \in Seq(1..InputSize) /\ more \in Seq(1..InputSize)
    BY <1>2, <1>3
  <2>2. QED  BY <2>1, ConcatProperties
<1>5. Len(t) = Len(s) - w + n /\ Len(t) \in Nat /\ Len(rest) = Len(s) - w /\ Len(more) = n
  <2>1. Len(t) = Len(rest) + Len(more) /\ Len(rest) = Len(s) - w /\ Len(more) = n
    BY <1>2, <1>3, <1>4
  <2>2. QED  BY <1>1, <2>1
<1>6. ASSUME NEW i \in 1..Len(t)
      PROVE  t[i] = g + n - Len(t) + i
  <2>1. i \in Nat /\ i >= 1 /\ i <= Len(s) - w + n
    BY <1>5
  <2>2. t[i] = IF i <= Len(rest) THEN rest[i] ELSE more[i - Len(rest)]
    BY <1>4
  <2>3. CASE i <= Len(s) - w
    <3>1. w + i \in 1..Len(s) /\ i \in 1..(Len(s) - w) /\ i <= Len(rest)
      BY <1>1, <1>5, <2>1, <2>3
    <3>2. t[i] = g - Len(s) + (w + i)
      BY <1>2, <2>2, <3>1
    <3>3. QED  BY <1>1, <1>5, <2>1, <3>2
  <2>4. CASE ~(i <= Len(s) - w)
    <3>1. i - Len(rest) \in 1..n /\ ~(i <= Len(rest))
      BY <1>1, <1>5, <2>1, <2>4
    <3>2. t[i] = g + (i - Len(rest))
      BY <1>3, <2>2, <3>1
    <3>3. QED  BY <1>1, <1>5, <2>1, <3>2
  <2>5. QED  BY <2>3, <2>4
<1>7. QED  BY <1>4, <1>5, <1>6 DEF rest, more

\* Nothing is added to the buffer when a callback supplies no bytes.
LEMMA NothingAdded ==
    ASSUME NEW s \in Seq(1..InputSize), NEW g \in Nat
    PROVE  s \o IO!Bytes(g + 1, g + 0) = s
<1>1. IO!Bytes(g + 1, g + 0) \in Seq((g + 1)..(g + 0)) /\ Len(IO!Bytes(g + 1, g + 0)) = 0
  BY BytesFollow
<1>2. IO!Bytes(g + 1, g + 0) = << >>
  BY <1>1, EmptySeq
<1>3. QED  BY <1>2, ConcatEmptySeq

\* What was in the pipe and is taken out of it was sent all the same.
LEMMA PipeKeepsOrder ==
    ASSUME NEW a \in Seq(Nat), NEW b \in Seq(Nat), b # << >>
    PROVE  /\ Append(a, Head(b)) \o Tail(b) = a \o b
           /\ Append(a, Head(b)) \in Seq(Nat) /\ Tail(b) \in Seq(Nat)
           /\ Len(Tail(b)) = Len(b) - 1 /\ Len(b) > 0
<1>1. /\ Len(b) \in Nat /\ Len(b) > 0 /\ Len(a) \in Nat
      /\ Head(b) = b[1] /\ Head(b) \in Nat
      /\ Tail(b) \in Seq(Nat) /\ Len(Tail(b)) = Len(b) - 1
      /\ \A i \in 1..(Len(b) - 1) : Tail(b)[i] = b[i + 1]
  <2>1. Len(b) \in Nat /\ Len(b) > 0 /\ Len(a) \in Nat
    BY EmptySeq, LenProperties
  <2>2. Head(b) = b[1] /\ b[1] \in Nat
    BY <2>1, ElementOfSeq
  <2>3. QED  BY <2>1, <2>2, HeadTailProperties
<1>2. /\ Append(a, Head(b)) \in Seq(Nat) /\ Len(Append(a, Head(b))) = Len(a) + 1
      /\ \A i \in 1..Len(a) : Append(a, Head(b))[i] = a[i]
      /\ Append(a, Head(b))[Len(a) + 1] = Head(b)
  BY <1>1, AppendProperties
<1> DEFINE l == Append(a, Head(b)) \o Tail(b)
           r == a \o b
<1>3. /\ l \in Seq(Nat) /\ Len(l) = Len(a) + Len(b)
      /\ \A i \in 1..Len(l) : l[i] = IF i <= Len(a) + 1 THEN Append(a, Head(b))[i]
                                                        ELSE Tail(b)[i - (Len(a) + 1)]
  BY <1>1, <1>2, ConcatProperties
<1>4. /\ r \in Seq(Nat) /\ Len(r) = Len(a) + Len(b)
      /\ \A i \in 1..Len(r) : r[i] = IF i <= Len(a) THEN a[i] ELSE b[i - Len(a)]
  BY <1>1, ConcatProperties
<1> HIDE DEF l, r
<1>5. ASSUME NEW i \in 1..Len(l)
      PROVE  l[i] = r[i]
  <2>0. i \in Nat /\ i >= 1 /\ i <= Len(a) + Len(b) /\ i \in 1..Len(r)
    BY <1>1, <1>3, <1>4
  <2>1. l[i] = IF i <= Len(a) + 1 THEN Append(a, Head(b))[i] ELSE Tail(b)[i - (Len(a) + 1)]
    BY <1>3
  <2>2. r[i] = IF i <= Len(a) THEN a[i] ELSE b[i - Len(a)]
    BY <1>4, <2>0
  <2>3. CASE i <= Len(a)
    <3>1. i \in 1..Len(a) /\ i <= Len(a) + 1
      BY <1>1, <2>0, <2>3
    <3>2. QED  BY <1>2, <2>1, <2>2, <2>3, <3>1
  <2>4. CASE i = Len(a) + 1
    <3>1. ~(i <= Len(a)) /\ i <= Len(a) + 1 /\ i - Len(a) = 1
      BY <1>1, <2>4
    <3>2. QED  BY <1>1, <1>2, <2>1, <2>2, <2>4, <3>1
  <2>5. CASE i > Len(a) + 1
    <3>1. /\ i - (Len(a) + 1) \in 1..(Len(b) - 1) /\ i - (Len(a) + 1) + 1 = i - Len(a)
          /\ ~(i <= Len(a) + 1) /\ ~(i <= Len(a))
      BY <1>1, <2>0, <2>5
    <3>2. l[i] = Tail(b)[i - (Len(a) + 1)] /\ r[i] = b[i - Len(a)]
      BY <2>1, <2>2, <3>1
    <3>3. QED  BY <1>1, <3>1, <3>2
  <2>6. i <= Len(a) \/ i = Len(a) + 1 \/ i > Len(a) + 1
    <3>1. Len(a) \in Nat
      BY <1>1
    <3>2. QED  BY <2>0, <3>1
  <2>7. QED  BY <2>3, <2>4, <2>5, <2>6
<1>6. l = r
  BY <1>3, <1>4, <1>5, SeqEqual
<1>7. QED  BY <1>1, <1>2, <1>6 DEF l, r

\* The child reads, which leaves alone what has arrived, writes and closes its ends.
LEMMA ChildKeepsExec ==
    ASSUME ExecAssumption, ExecInv, IO!ChildSteps
    PROVE  ExecInv'
<1>1. CASE IO!ChildReads
  <2>1. /\ toChild # << >> /\ received' = Append(received, Head(toChild))
        /\ toChild' = Tail(toChild) /\ "in" \in childOpen
        /\ UNCHANGED <<inputs, availableDataLen, isOpen, inClosed, given, replied, xpc, found,
                       written, gathered, timeoutType, left, spent, pipe, childOpen,
                       childWrites, wrote>>
    BY <1>1 DEF IO!ChildReads, IO!parentVars
  <2>2. /\ Arrived' = Arrived /\ received' \in Seq(Nat) /\ toChild' \in Seq(Nat)
        /\ Len(toChild') = Len(toChild) - 1 /\ Len(toChild) > 0
    BY <2>1, PipeKeepsOrder DEF ExecInv, InputInOrder, Arrived
  <2>3. Len(toChild') \in 0..Capacity
    BY <2>2 DEF ExecInv, InputTypes, ExecAssumption
  <2>4. InputTypes' /\ InputInOrder'
    BY <2>1, <2>2, <2>3 DEF ExecInv, InputTypes, InputInOrder
  <2>5. OutputTypes' /\ LoopTypes' /\ OutputInOrder'
    BY <2>1 DEF ExecInv, OutputTypes, LoopTypes, OutputInOrder
  <2>6. QED  BY <2>4, <2>5 DEF ExecInv
<1>2. CASE IO!ChildWrites
  <2>1. PICK s \in IO!Outputs : childWrites = s
    BY <1>2 DEF IO!ChildWrites, ExecInv, OutputTypes
  <2>2. /\ pipe[s] < Capacity /\ childWrites' = "none"
        /\ pipe' = [pipe EXCEPT ![s] = @ + 1] /\ wrote' = [wrote EXCEPT ![s] = @ + 1]
        /\ UNCHANGED <<inputs, availableDataLen, isOpen, inClosed, given, replied, xpc, found,
                       written, gathered, timeoutType, left, spent, toChild, childOpen,
                       received>>
    BY <1>2, <2>1 DEF IO!ChildWrites, IO!parentVars
  <2>3. InputTypes' /\ LoopTypes' /\ InputInOrder'
    BY <2>2 DEF ExecInv, InputTypes, LoopTypes, InputInOrder, Arrived
  <2>4. OutputTypes'
    BY <2>1, <2>2 DEF ExecInv, OutputTypes, OutputInOrder, ExecAssumption
  <2>5. OutputInOrder'
    <3>1. \A q \in IO!Outputs : "none" # q
      BY DEF IO!Outputs
    <3>2. QED
      BY <2>1, <2>2, <3>1 DEF ExecInv, OutputTypes, OutputInOrder, ExecAssumption
  <2>6. QED  BY <2>3, <2>4, <2>5 DEF ExecInv
<1>3. ASSUME NEW s \in IO!Outputs, IO!ChildWantsToWrite(s)
      PROVE  ExecInv'
  BY <1>3 DEF IO!ChildWantsToWrite, IO!parentVars, ExecInv, InputTypes, OutputTypes, LoopTypes,
     InputInOrder, OutputInOrder, Arrived
<1>4. ASSUME NEW ends, IO!ChildCloses(ends)
      PROVE  ExecInv'
  <2>1. \A q \in IO!Outputs : "none" # q
    BY DEF IO!Outputs
  <2>2. QED
    BY <1>4, <2>1 DEF IO!ChildCloses, IO!parentVars, ExecInv, InputTypes, OutputTypes,
       LoopTypes, InputInOrder, OutputInOrder, Arrived
<1>5. QED  BY <1>1, <1>2, <1>3, <1>4 DEF IO!ChildSteps

\* A round begins and ends, and time passes.
LEMMA RoundKeepsExec ==
    ASSUME ExecAssumption, ExecInv,
           \/ IO!Selected \/ IO!SelectAsserts \/ IO!SelectTimesOut \/ IO!TimePasses
           \/ IO!BeginWrite \/ IO!WriteFails \/ IO!EndRound
    PROVE  ExecInv'
<1>1. UNCHANGED <<inputs, availableDataLen, inClosed, given, replied, gathered, timeoutType,
                  toChild, pipe, childOpen, childWrites, wrote, received>>
  BY DEF IO!Selected, IO!SelectAsserts, IO!SelectTimesOut, IO!TimePasses, IO!BeginWrite,
     IO!WriteFails, IO!EndRound, IO!childVars
<1>2. OutputTypes'
  BY <1>1 DEF ExecInv, OutputTypes
<1>3. CASE IO!Selected
  <2>1. /\ xpc = "select" /\ xpc' = "handle" /\ found' = IO!Ready
        /\ left' = (IF timeoutType = "reset" THEN Limit ELSE left - spent)
        /\ spent' = 0 /\ UNCHANGED <<isOpen, written>>
    BY <1>3 DEF IO!Selected
  <2>2. /\ IO!Ready \subseteq isOpen
        /\ \A s \in IO!Outputs : s \in IO!Ready => pipe[s] > 0 \/ s \notin childOpen
        /\ "in" \in IO!Ready => availableDataLen > 0
    BY DEF IO!Ready, IO!Outputs
  <2>3. InputTypes' /\ InputInOrder'
    BY <1>1, <2>1 DEF ExecInv, InputTypes, InputInOrder, Arrived
  <2>4. LoopTypes'
    BY <1>1, <2>1, <2>2 DEF ExecInv, LoopTypes, ExecAssumption
  <2>5. OutputInOrder'
    BY <1>1, <2>1, <2>2 DEF ExecInv, OutputInOrder, InputInOrder
  <2>6. QED  BY <1>2, <2>3, <2>4, <2>5 DEF ExecInv
<1>4. CASE IO!SelectAsserts \/ IO!SelectTimesOut
  BY <1>1, <1>2, <1>4 DEF IO!SelectAsserts, IO!SelectTimesOut, ExecInv, InputTypes, LoopTypes,
     InputInOrder, OutputInOrder, Arrived
<1>5. CASE IO!TimePasses
  <2>1. /\ left' \in Int /\ spent' \in 0..MaxBusy
        /\ UNCHANGED <<isOpen, xpc, found, written>>
    BY <1>5 DEF IO!TimePasses, ExecInv, LoopTypes, ExecAssumption
  <2>2. QED
    BY <1>1, <1>2, <2>1 DEF ExecInv, InputTypes, LoopTypes, InputInOrder, OutputInOrder,
       Arrived
<1>6. CASE IO!BeginWrite
  <2>1. /\ xpc = "handle" /\ xpc' = "write" /\ "in" \in found /\ written' = 0
        /\ UNCHANGED <<isOpen, found, left, spent>>
    BY <1>6 DEF IO!BeginWrite, IO!IsNext
  <2>2. InputTypes' /\ InputInOrder'
    <3>1. Len(inputs) \in Nat /\ Len(inputs) > 0 /\ written = 0
      BY <2>1, LenProperties DEF ExecInv, InputTypes, InputInOrder, OutputInOrder
    <3>2. QED  BY <1>1, <2>1, <3>1 DEF ExecInv, InputTypes, InputInOrder, Arrived
  <2>3. LoopTypes' /\ OutputInOrder'
    BY <1>1, <2>1 DEF ExecInv, LoopTypes, OutputInOrder
  <2>4. QED  BY <1>2, <2>2, <2>3 DEF ExecInv
<1>7. CASE IO!WriteFails
  <2>1. /\ xpc = "write" /\ xpc' = "handle" /\ written = 0 /\ found' = {}
        /\ isOpen' = isOpen \ {"in"} /\ UNCHANGED <<written, left, spent>>
    BY <1>7 DEF IO!WriteFails
  <2>2. \A q \in IO!Outputs : "in" # q
    BY DEF IO!Outputs
  <2>3. QED
    BY <1>1, <1>2, <2>1, <2>2 DEF ExecInv, InputTypes, LoopTypes, InputInOrder, OutputInOrder,
       Arrived
<1>8. CASE IO!EndRound
  BY <1>1, <1>2, <1>8 DEF IO!EndRound, ExecInv, InputTypes, LoopTypes, InputInOrder,
     OutputInOrder, Arrived
<1>9. QED  BY <1>3, <1>4, <1>5, <1>6, <1>7, <1>8

\* What the child has written is handed on, and its end is noticed.
LEMMA ReadKeepsExec ==
    ASSUME ExecAssumption, ExecInv, NEW s \in IO!Outputs, IO!Read(s) \/ IO!ReadEOF(s)
    PROVE  ExecInv'
<1>0. "in" # s /\ s \in found /\ xpc = "handle"
  BY DEF IO!Outputs, IO!Read, IO!ReadEOF, IO!IsNext
<1>1. CASE IO!Read(s)
  <2>1. /\ pipe[s] > 0 /\ gathered' = [gathered EXCEPT ![s] = @ + pipe[s]]
        /\ pipe' = [pipe EXCEPT ![s] = 0] /\ found' = found \ {s}
        /\ UNCHANGED <<availableDataLen, isOpen, inClosed, given, xpc, written, timeoutType,
                       left, spent, toChild, childOpen, childWrites, wrote, received>>
        /\ \E n \in 0..(IF "in" \in isOpen /\ ~inClosed THEN 0 - replied ELSE 0) :
              /\ inputs' = inputs \o IO!Bytes(given + replied + 1, given + replied + n)
              /\ replied' = replied + n
    BY <1>1 DEF IO!Read, IO!HandleData, IO!Supplied, IO!childVars
  <2>2. UNCHANGED <<inputs, replied>>
    <3>1. replied = 0 /\ inputs \in Seq(1..InputSize) /\ given \in Nat
      BY DEF ExecInv, InputInOrder, InputTypes, ExecAssumption
    <3>2. inputs' = inputs \o IO!Bytes(given + 1, given + 0) /\ replied' = 0
      BY <2>1, <3>1
    <3>3. QED  BY <3>1, <3>2, NothingAdded
  <2>3. InputTypes' /\ LoopTypes' /\ InputInOrder'
    BY <2>1, <2>2 DEF ExecInv, InputTypes, LoopTypes, InputInOrder, Arrived
  <2>4. OutputTypes'
    BY <2>1 DEF ExecInv, OutputTypes, OutputInOrder, ExecAssumption
  <2>5. OutputInOrder'
    BY <1>0, <2>1, <2>2 DEF ExecInv, OutputTypes, LoopTypes, OutputInOrder, ExecAssumption
  <2>6. QED  BY <2>3, <2>4, <2>5 DEF ExecInv
<1>2. CASE IO!ReadEOF(s)
  <2>1. /\ pipe[s] = 0 /\ isOpen' = isOpen \ {s} /\ found' = found \ {s}
        /\ UNCHANGED <<inputs, availableDataLen, inClosed, given, replied, xpc, written,
                       gathered, timeoutType, left, spent, toChild, pipe, childOpen,
                       childWrites, wrote, received>>
    BY <1>2 DEF IO!ReadEOF, IO!childVars
  <2>2. InputTypes' /\ OutputTypes' /\ LoopTypes' /\ InputInOrder'
    BY <2>1 DEF ExecInv, InputTypes, OutputTypes, LoopTypes, InputInOrder, Arrived
  <2>3. OutputInOrder'
    BY <1>0, <2>1 DEF ExecInv, OutputTypes, OutputInOrder
  <2>4. QED  BY <2>2, <2>3 DEF ExecInv
<1>3. QED  BY <1>1, <1>2

\* Concatenation of sequences of bytes is associative.
LEMMA NatConcatAssociative ==
    ASSUME NEW u \in Seq(Nat), NEW v \in Seq(Nat), NEW w \in Seq(Nat)
    PROVE  (u \o v) \o w = u \o (v \o w)
BY SMT

\* The next byte of the buffer goes into the pipe.
LEMMA WriteByteKeepsExec ==
    ASSUME ExecAssumption, ExecInv, IO!WriteByte
    PROVE  ExecInv'
<1>1. /\ xpc = "write" /\ written < availableDataLen /\ Len(toChild) < Capacity
      /\ toChild' = Append(toChild, inputs[Len(inputs) - availableDataLen + written + 1])
      /\ written' = written + 1
      /\ UNCHANGED <<inputs, availableDataLen, isOpen, inClosed, given, replied, xpc, found,
                     gathered, timeoutType, left, spent, pipe, childOpen, childWrites, wrote,
                     received>>
  BY DEF IO!WriteByte, IO!childVars
<1>2. /\ availableDataLen = Len(inputs) /\ Len(inputs) \in Nat /\ written \in Nat
      /\ written + 1 \in 1..Len(inputs) /\ given \in Nat
      /\ received \in Seq(Nat) /\ toChild \in Seq(Nat)
      /\ given = Len(Arrived) - written + Len(inputs)
      /\ Len(received) \in Nat /\ Len(toChild) \in Nat
      /\ Len(Arrived) = Len(received) + Len(toChild)
  BY <1>1, LenProperties, ConcatProperties DEF ExecInv, InputTypes, InputInOrder, Arrived,
     ExecAssumption
<1>3. inputs[written + 1] = Len(Arrived) + 1
  <2>1. inputs[written + 1] = given - Len(inputs) + (written + 1)
    BY <1>2 DEF ExecInv, InputInOrder
  <2>2. ASSUME NEW a \in Nat, NEW w \in Nat, NEW l \in Nat
        PROVE  (a - w + l) - l + (w + 1) = a + 1
    OBVIOUS
  <2>3. Len(Arrived) \in Nat /\ written \in Nat /\ Len(inputs) \in Nat
    BY <1>2
  <2>4. (Len(Arrived) - written + Len(inputs)) - Len(inputs) + (written + 1)
           = Len(Arrived) + 1
    BY <2>2, <2>3, Zenon
  <2>5. given = Len(Arrived) - written + Len(inputs)
    BY <1>2
  <2>6. QED  BY <2>1, <2>4, <2>5, Zenon
<1>4. toChild' = Append(toChild, Len(Arrived) + 1) /\ Len(Arrived) + 1 \in Nat
  <2>1. Len(inputs) - availableDataLen + written + 1 = written + 1
    BY <1>2
  <2>2. QED  BY <1>1, <1>2, <1>3, <2>1
<1>5. Arrived' = Append(Arrived, Len(Arrived) + 1) /\ Arrived \in Seq(Nat)
  <2>1. Arrived' = received \o Append(toChild, Len(Arrived) + 1)
    BY <1>1, <1>4 DEF Arrived
  <2>2. Arrived \in Seq(Nat)
    BY <1>2, ConcatProperties DEF Arrived
  <2>3. << Len(Arrived) + 1 >> \in Seq(Nat)
    BY <1>4
  <2>4. /\ Append(toChild, Len(Arrived) + 1) = toChild \o << Len(Arrived) + 1 >>
        /\ Append(Arrived, Len(Arrived) + 1) = Arrived \o << Len(Arrived) + 1 >>
    BY <1>2, <1>4, <2>2, AppendIsConcat
  <2>5. (received \o toChild) \o << Len(Arrived) + 1 >>
           = received \o (toChild \o << Len(Arrived) + 1 >>)
    <3>1. received \in Seq(Nat) /\ toChild \in Seq(Nat)
      BY <1>2
    <3>2. QED  BY <2>3, <3>1, NatConcatAssociative, Zenon
  <2>6. QED  BY <2>1, <2>2, <2>4, <2>5 DEF Arrived
<1>6. InputTypes' /\ LoopTypes' /\ OutputTypes'
  <2>1. toChild' \in Seq(Nat) /\ Len(toChild') = Len(toChild) + 1
    BY <1>2, <1>4, AppendProperties
  <2>2. Len(toChild') \in 0..Capacity
    <3>1. Len(toChild) < Capacity /\ Len(toChild) \in Nat /\ Capacity \in Nat
      BY <1>1, <1>2 DEF ExecAssumption
    <3>2. QED  BY <2>1, <3>1
  <2>3. LoopTypes'
    BY <1>1, <1>2 DEF ExecInv, InputTypes, LoopTypes
  <2>4. InputTypes'
    <3>1. written' \in 0..Len(inputs)
      BY <1>1, <1>2
    <3>2. InputTypes /\ inputs' = inputs /\ given' = given /\ inClosed' = inClosed
      BY <1>1 DEF ExecInv
    <3>3. QED  BY <2>2, <3>1, <3>2 DEF InputTypes
  <2>5. OutputTypes'
    BY <1>1 DEF ExecInv, OutputTypes
  <2>6. QED  BY <2>3, <2>4, <2>5
<1>7. InputInOrder'
  <2>1. /\ Len(Arrived') = Len(Arrived) + 1
        /\ \A i \in 1..Len(Arrived) : Arrived'[i] = Arrived[i]
        /\ Arrived'[Len(Arrived) + 1] = Len(Arrived) + 1
    BY <1>4, <1>5, AppendProperties
  <2>2. \A i \in 1..Len(Arrived') : Arrived'[i] = i
    <3>1. \A i \in 1..Len(Arrived) : Arrived[i] = i
      BY DEF ExecInv, InputInOrder
    <3>2. Len(Arrived) \in Nat
      BY <1>2
    <3>3. QED  BY <2>1, <3>1, <3>2
  <2>3. given' = Len(Arrived') - written' + Len(inputs')
    BY <1>1, <1>2, <2>1
  <2>4. toChild' \in Seq(Nat)
    BY <1>2, <1>4, AppendProperties
  <2>5. QED  BY <1>1, <2>2, <2>3, <2>4 DEF ExecInv, InputInOrder
<1>8. OutputInOrder'
  BY <1>1 DEF ExecInv, OutputInOrder
<1>9. QED  BY <1>6, <1>7, <1>8 DEF ExecInv

\* What was written leaves the buffer, and the InputCallback supplies more.
LEMMA WriteReturnsKeepsExec ==
    ASSUME ExecAssumption, ExecInv, IO!WriteReturns
    PROVE  ExecInv'
<1>1. PICK n \in 0..(InputSize - given) :
        /\ inputs' = SubSeq(inputs, written + 1, Len(inputs))
                        \o IO!Bytes(given + replied + 1, given + replied + n)
        /\ given' = given + n /\ (inClosed' => n = 0) /\ inClosed' \in BOOLEAN
  BY DEF IO!WriteReturns, IO!Supplied
<1>0. n \in Nat /\ n <= InputSize - given /\ InputSize \in Nat /\ given \in 0..InputSize
  BY DEF ExecInv, InputTypes, ExecAssumption
<1>2. /\ xpc = "write"
      /\ written = availableDataLen \/ "in" \notin childOpen
      /\ availableDataLen' = Len(inputs')
      /\ xpc' = "handle" /\ found' = {} /\ written' = 0
      /\ UNCHANGED <<isOpen, replied, gathered, timeoutType, left, spent, toChild, pipe,
                     childOpen, childWrites, wrote, received>>
  BY DEF IO!WriteReturns, IO!childVars
<1>3. /\ replied = 0 /\ availableDataLen = Len(inputs) /\ inputs \in Seq(1..InputSize)
      /\ Len(inputs) \in Nat /\ given \in 0..InputSize /\ given \in Nat
      /\ written \in 0..Len(inputs) /\ written \in Nat
      /\ given = Len(Arrived) - written + Len(inputs) /\ Len(Arrived) \in Nat
  BY LenProperties, ConcatProperties DEF ExecInv, InputTypes, InputInOrder, ExecAssumption,
     Arrived
<1>4. /\ inputs' \in Seq(1..InputSize)
      /\ \A i \in 1..Len(inputs') : inputs'[i] = given + n - Len(inputs') + i
      /\ Len(inputs') = Len(inputs) - written + n
  <2>1. inputs' = SubSeq(inputs, written + 1, Len(inputs)) \o IO!Bytes(given + 1, given + n)
    <3>1. given + replied + 1 = given + 1 /\ given + replied + n = given + n
      BY <1>0, <1>3
    <3>2. QED  BY <1>1, <3>1
  <2>2. \A i \in 1..Len(inputs) : inputs[i] = given - Len(inputs) + i
    BY DEF ExecInv, InputInOrder
  <2>3. n \in 0..(InputSize - given)
    BY <1>1
  <2>4. LET t == SubSeq(inputs, written + 1, Len(inputs)) \o IO!Bytes(given + 1, given + n) IN
        /\ t \in Seq(1..InputSize) /\ Len(t) = Len(inputs) - written + n
        /\ \A i \in 1..Len(t) : t[i] = given + n - Len(t) + i
    BY <1>3, <2>2, <2>3, RestAndMore
  <2>5. QED  BY <2>1, <2>4
<1>5. /\ Arrived' = Arrived /\ given' = given + n
      /\ (inClosed' => n = 0) /\ inClosed' \in BOOLEAN
  BY <1>1, <1>2 DEF Arrived
<1>6. Len(inputs') = Len(inputs) - written + n
  BY <1>4
<1>7. given' = Len(Arrived') - written' + Len(inputs') /\ given' \in 0..InputSize
  BY <1>0, <1>2, <1>3, <1>5, <1>6
<1>8. inClosed' /\ "in" \in childOpen' => Len(inputs') = 0
  BY <1>0, <1>2, <1>3, <1>5, <1>6
<1>9. InputTypes' /\ InputInOrder'
  <2>1. written' \in 0..Len(inputs')
    BY <1>0, <1>2, <1>3, <1>6
  <2>2. InputTypes'
    BY <1>2, <1>4, <1>5, <1>7, <2>1 DEF ExecInv, InputTypes
  <2>3. \A i \in 1..Len(inputs') : inputs'[i] = given' - Len(inputs') + i
    <3>1. given' = given + n
      BY <1>5
    <3>2. SUFFICES ASSUME NEW i \in 1..Len(inputs')
                   PROVE  inputs'[i] = given' - Len(inputs') + i
      OBVIOUS
    <3>3. inputs'[i] = given + n - Len(inputs') + i
      BY <1>4
    <3>4. Len(inputs') \in Nat /\ given \in Nat /\ n \in Nat
      BY <1>0, <1>3, <1>4, LenProperties
    <3>5. QED  BY <3>1, <3>3, <3>4
  <2>4. QED
    BY <1>2, <1>5, <1>7, <1>8, <2>2, <2>3 DEF ExecInv, InputInOrder
<1>10. OutputTypes' /\ LoopTypes' /\ OutputInOrder'
  BY <1>2 DEF ExecInv, OutputTypes, LoopTypes, OutputInOrder
<1>11. QED  BY <1>9, <1>10 DEF ExecInv

\* The invariant holds,
LEMMA ExecInvHolds ==
    ASSUME ExecAssumption
    PROVE  /\ IO!Init => ExecInv
           /\ ExecInv /\ [IO!Next]_execVars => ExecInv'
<1>1. ASSUME IO!Init
      PROVE  ExecInv
  <2>1. /\ given \in 1..InputSize /\ given \in Nat
        /\ inputs \in Seq(1..given) /\ Len(inputs) = given
        /\ \A i \in 1..given : inputs[i] = i
    <3>1. inputs = IO!Bytes(0 + 1, 0 + given) /\ given \in Nat /\ given \in 1..InputSize
      BY <1>1 DEF IO!Init, ExecAssumption
    <3>2. /\ inputs \in Seq((0 + 1)..(0 + given)) /\ Len(inputs) = given
          /\ \A i \in 1..given : inputs[i] = 0 + i
      BY <3>1, BytesFollow
    <3>3. QED  BY <3>1, <3>2
  <2>2. Arrived = << >> /\ Len(Arrived) = 0
    BY <1>1 DEF IO!Init, Arrived
  <2>3. inputs \in Seq(1..InputSize)
    <3>1. 1..given \subseteq 1..InputSize
      BY <2>1 DEF ExecAssumption
    <3>2. QED  BY <2>1, <3>1, SeqMonotonic
  <2>4. InputTypes /\ InputInOrder
    <3>1. given \in 0..InputSize /\ given = 0 - 0 + given /\ given - given = 0
      BY <2>1 DEF ExecAssumption
    <3>2. InputTypes
      <4>1. written = 0 /\ toChild = << >> /\ inClosed = FALSE
        BY <1>1 DEF IO!Init
      <4>2. Len(toChild) = 0
        BY <4>1
      <4>3. inClosed \in BOOLEAN
        BY <4>1
      <4>4. written \in 0..Len(inputs) /\ Len(toChild) \in 0..Capacity
        BY <2>1, <4>1, <4>2 DEF ExecAssumption
      <4>5. QED  BY <2>3, <3>1, <4>3, <4>4 DEF InputTypes
    <3>3. << >> \in Seq(Nat) /\ \A i \in 1..given : inputs[i] = given - given + i
      BY <2>1, EmptySeq
    <3>4. /\ received = << >> /\ toChild = << >> /\ availableDataLen = Len(inputs)
          /\ replied = 0 /\ written = 0 /\ xpc = "select" /\ inClosed = FALSE
          /\ given = Len(Arrived) - written + Len(inputs)
      BY <1>1, <2>1, <2>2, <3>1 DEF IO!Init
    <3>5. \A i \in 1..Len(Arrived) : Arrived[i] = i
      BY <2>2
    <3>6. QED  BY <2>1, <3>2, <3>3, <3>4, <3>5 DEF InputInOrder
  <2>5. OutputTypes /\ LoopTypes
    BY <1>1 DEF IO!Init, IO!Nothing, IO!Outputs, OutputTypes, LoopTypes, ExecAssumption
  <2>6. OutputInOrder
    <3>1. \A q \in IO!Outputs : "none" # q /\ IO!Nothing[q] = 0
      BY DEF IO!Outputs, IO!Nothing
    <3>2. QED  BY <1>1, <3>1 DEF IO!Init, OutputInOrder, IO!Outputs
  <2>7. QED  BY <2>4, <2>5, <2>6 DEF ExecInv
<1>2. ASSUME ExecInv, UNCHANGED execVars
      PROVE  ExecInv'
  BY <1>2 DEF execVars, ExecInv, InputTypes, OutputTypes, LoopTypes, InputInOrder,
     OutputInOrder, Arrived
<1>3. ASSUME ExecInv, IO!Next
      PROVE  ExecInv'
  BY <1>3, ChildKeepsExec, RoundKeepsExec, ReadKeepsExec, WriteByteKeepsExec,
     WriteReturnsKeepsExec DEF IO!Next, IO!ParentSteps
<1>4. QED  BY <1>1, <1>2, <1>3

\* and says that nothing is lost.
LEMMA ExecInvMeans ==
    ASSUME ExecAssumption, ExecInv
    PROVE  IO!TypeOK /\ StreamsAreWhole
<1>1. IO!TypeOK
  <2>1. /\ InputSize + 0 = InputSize /\ replied \in 0..0
        /\ availableDataLen \in 0..Len(inputs) /\ inputs \in Seq(1..InputSize)
    BY LenProperties DEF ExecInv, InputTypes, InputInOrder, ExecAssumption
  <2>2. QED
    BY <2>1 DEF ExecInv, InputTypes, OutputTypes, LoopTypes, IO!TypeOK
<1>2. IO!InputArrives
  <2>1. Arrived \in Seq(Nat) /\ Len(Arrived) \in Nat /\ DOMAIN Arrived = 1..Len(Arrived)
    BY ConcatProperties, LenProperties DEF ExecInv, InputInOrder, Arrived
  <2>2. \A i \in DOMAIN Arrived : Arrived[i] = i
    BY <2>1 DEF ExecInv, InputInOrder
  <2>3. inClosed /\ "in" \in childOpen => Len(Arrived) = given + replied
    <3>1. SUFFICES ASSUME inClosed, "in" \in childOpen
                   PROVE  Len(Arrived) = given + replied
      OBVIOUS
    <3>2. /\ Len(inputs) = 0 /\ written = 0 /\ replied = 0 /\ given \in Nat
          /\ given = Len(Arrived) - written + Len(inputs)
      BY <3>1 DEF ExecInv, InputInOrder, InputTypes, ExecAssumption
    <3>3. QED  BY <2>1, <3>2
  <2>4. QED  BY <2>2, <2>3 DEF IO!InputArrives, IO!Supplied, Arrived
<1>3. IO!OutputIsComplete
  <2>1. SUFFICES ASSUME xpc = "done"  PROVE gathered = wrote
    BY DEF IO!OutputIsComplete
  <2>2. \A s \in IO!Outputs : pipe[s] = 0
    BY <2>1 DEF ExecInv, OutputInOrder
  <2>3. \A s \in IO!Outputs : gathered[s] = wrote[s]
    BY <2>2 DEF ExecInv, OutputInOrder, OutputTypes, ExecAssumption
  <2>4. QED  BY <2>3 DEF ExecInv, OutputTypes
<1>4. QED  BY <1>1, <1>2, <1>3 DEF StreamsAreWhole

\* StreamsAreWhole: processInputOutput() sends the child the bytes of the InputCallback,
\* all of them, once and in their order, and hands on all that the child has written, for
\* any amount of input and output and any capacity of the pipes.
THEOREM StreamsStayWhole ==
    ASSUME ExecAssumption
    PROVE  IO!Spec => []StreamsAreWhole
<1>1. [IO!Next]_(IO!execVars) => [IO!Next]_execVars
  BY DEF IO!execVars, IO!parentVars, IO!childVars, execVars
<1>2. IO!Init => ExecInv
  BY ExecInvHolds
<1>3. ExecInv /\ [IO!Next]_execVars => ExecInv'
  BY ExecInvHolds
<1>4. ExecInv => StreamsAreWhole
  BY ExecInvMeans
<1>5. QED  BY <1>1, <1>2, <1>3, <1>4, PTL DEF IO!Spec

(***************************************************************************)
(* TimeoutTimer                                                            *)
(***************************************************************************)
\* The constants are numbers, and a second has a tick.
TimerAssumption ==
    /\ Second \in Nat \ {0} /\ Limits \subseteq Nat
    /\ LoopTimeout \in Nat /\ MaxFuture \in Nat /\ MaxWork \in Nat

\* When the timer of the inner call expires.
TimerEnd(t) == IF t.type = "E_ABSOLUTE" THEN t.ticks ELSE t.m_start + t.ticks
InnerEnd    == TimerEnd(inner)
LatestEnd   == InnerEnd + Timer!RoundingAdds

\* The timers measure the timeout: that of the inner call ends no earlier than it, and later
\* only by the work of the round in gatherOutput().
TimersInStep ==
    /\ timer.ticks \in Nat
    /\ tpc \in {"work", "loop", "wait"} =>
          /\ timer.m_loopTime <= clock
          /\ timer.type = "E_ABSOLUTE" \/ caller = "gatherOutput" => expiry = TimerEnd(timer)
    /\ tpc = "work" => clock <= timer.m_loopTime + MaxWork
    /\ tpc \in {"loop", "wait"} =>
          /\ expiry <= InnerEnd /\ InnerEnd <= expiry + Timer!WorkAdds
          /\ caller # "gatherOutput" => inner.ticks \in Nat
    /\ tpc = "loop" =>
          inner.m_loopTime = clock /\ (clock <= InnerEnd \/ clock = inner.m_start)

\* When a wait ends.
WaitEndsInTime ==
    tpc = "wait" =>
        /\ wakeAt = Timer!Never => clock > expiry
        /\ wakeAt # Timer!Never =>
              \/ clock <= LatestEnd /\ wakeAt <= LatestEnd
              \/ clock = inner.m_start /\ wakeAt <= clock
        /\ interface = "asTimespec" =>
              /\ wakeAt # Timer!Never
              /\ ~early => wakeAt >= expiry \/ clock >= expiry

VerdictIsRight ==
    /\ verdict = "timeout" => tpc = "done" /\ clock >= expiry
    /\ verdict = "error" => tpc = "done" /\ clock > expiry

TimerInv == Timer!TypeOK /\ TimersInStep /\ WaitEndsInTime /\ VerdictIsRight

\* Seconds and fractions.
LEMMA Fractions ==
    ASSUME NEW d \in Nat \ {0}, NEW a \in Nat
    PROVE  /\ a \div d \in Nat /\ a % d \in Nat /\ a % d < d
           /\ a = d * (a \div d) + (a % d)
<1> DEFINE q == a \div d
           r == a % d
<1>1. q \in Nat /\ r \in Nat /\ r < d
  BY SMT
<1>2. r = a - d * q
  BY SMT
<1> HIDE DEF q, r
<1>3. d * q \in Nat
  BY <1>1
<1>4. a = d * q + r
  BY <1>1, <1>2, <1>3
<1>5. QED  BY <1>1, <1>4 DEF q, r

\* A small part of a second is lost when what it is added to is cut down to seconds.
LEMMA SmallPartIsLost ==
    ASSUME NEW d \in Nat \ {0}, NEW a \in Nat, NEW h \in Nat, (a % d) + h < d
    PROVE  (a + h) \div d = a \div d
<1> DEFINE q == a \div d
           r == a % d
<1>1. q \in Nat /\ r \in Nat /\ a = d * q + r
  BY Fractions
<1>2. d * q \in Nat
  BY <1>1
<1>3. a + h < d * q + d /\ a + h >= d * q
  BY <1>1, <1>2
<1> HIDE DEF q, r
<1>4. (a + h) \div d = q
  BY <1>1, <1>3, SMT
<1>5. QED  BY <1>4 DEF q

\* Whole seconds are not touched by that.
LEMMA WholeSecondsStay ==
    ASSUME NEW d \in Nat \ {0}, NEW a \in Nat, NEW k \in Nat
    PROVE  (d * k + a) \div d = k + a \div d
  BY SMT

\* Seconds that are rounded and a fraction that is added to them: a second is too much if
\* the fraction is half of one or more.
LEMMA RoundingAddsASecond ==
    ASSUME TimerAssumption, NEW a \in Nat
    PROVE  LET u == (Second * Timer!RoundedSeconds(a)) + (a % Second)
           IN  u = a \/ (u = a + Second /\ 2 * (a % Second) >= Second)
<1> DEFINE h == Second \div 2
           q == a \div Second
           r == a % Second
<1>1. /\ Second \in Nat \ {0} /\ h \in Nat /\ 2 * h <= Second
      /\ q \in Nat /\ r \in Nat /\ r < Second /\ a = (Second * q) + r
  <2>1. Second \in Nat \ {0}
    BY DEF TimerAssumption
  <2>2. h \in Nat /\ 2 * h <= Second
    BY <2>1, SMT
  <2>3. QED  BY <2>1, <2>2, Fractions
<1>2. Timer!RoundedSeconds(a) = (a + h) \div Second
  BY DEF Timer!RoundedSeconds
<1>3. CASE r + h < Second
  <2>1. (a + h) \div Second = q
    BY <1>1, <1>3, SmallPartIsLost
  <2>2. QED  BY <1>1, <1>2, <2>1
<1>4. CASE r + h >= Second
  <2>1. (a + h) \div Second = q + 1
    <3>1. Second * q \in Nat /\ Second * (q + 1) = (Second * q) + Second
      <4> HIDE DEF h, q, r
      <4>1. QED  BY <1>1
    <3> DEFINE rest == (r + h) - Second
    <3>2. rest \in Nat /\ rest < Second /\ a + h = (Second * (q + 1)) + rest
      <4> HIDE DEF h, q, r
      <4>1. QED  BY <1>1, <1>4, <3>1
    <3> HIDE DEF h, q, r, rest
    <3>3. ((Second * (q + 1)) + rest) \div Second = (q + 1) + (rest \div Second)
      <4>1. Second \in Nat \ {0} /\ rest \in Nat /\ q + 1 \in Nat
        BY <1>1, <3>2
      <4>2. QED  BY <4>1, WholeSecondsStay, Zenon
    <3>4. rest \div Second = 0
      BY <1>1, <3>2, SMT
    <3>5. QED  BY <1>1, <3>2, <3>3, <3>4
  <2>2. Second * (q + 1) = (Second * q) + Second
    <3> HIDE DEF h, q, r
    <3>1. QED  BY <1>1
  <2>3. 2 * r >= Second
    <3> HIDE DEF h, q, r
    <3>1. QED  BY <1>1, <1>4
  <2>4. (Second * Timer!RoundedSeconds(a)) + r = a + Second
    <3>1. Timer!RoundedSeconds(a) = q + 1
      BY <1>2, <2>1
    <3> HIDE DEF h, q, r
    <3>2. Second * q \in Nat
      BY <1>1
    <3>3. QED  BY <1>1, <2>2, <3>1, <3>2
  <2>5. QED  BY <2>3, <2>4
<1>5. QED  BY <1>1, <1>3, <1>4

\* asTimespec() of an interval: seconds and fraction of the start and of the timeout, each
\* for itself, make up its end, or a second more.
LEMMA TimespecIsTheEnd ==
    ASSUME TimerAssumption, NEW m \in Nat, NEW l \in Nat
    PROVE  LET e == (Second * Timer!RoundedSeconds((Second * (m \div Second)) + l))
                        + (m % Second) + (l % Second)
           IN  e = m + l \/ (e = m + l + Second /\ 2 * (l % Second) >= Second)
<1> DEFINE h == Second \div 2
           s == m \div Second
           f == m % Second
           g == l % Second
           R == (l + h) \div Second
<1>1. /\ Second \in Nat \ {0} /\ h \in Nat /\ s \in Nat /\ f \in Nat /\ g \in Nat
      /\ m = (Second * s) + f /\ l + h \in Nat /\ R \in Nat
  <2>1. Second \in Nat \ {0}
    BY DEF TimerAssumption
  <2>2. h \in Nat
    BY <2>1, SMT
  <2>3. l + h \in Nat
    BY <2>2
  <2>4. QED  BY <2>1, <2>2, <2>3, Fractions
<1>2. Second * s \in Nat /\ Second * R \in Nat
  <2> HIDE DEF h, s, f, g, R
  <2>1. QED  BY <1>1
<1>3. Timer!RoundedSeconds((Second * s) + l) = s + R
  <2>1. Timer!RoundedSeconds((Second * s) + l) = ((Second * s) + l + h) \div Second
    BY DEF Timer!RoundedSeconds
  <2>2. (Second * s) + l + h = (Second * s) + (l + h)
    <3> HIDE DEF h, s, f, g, R
    <3>1. QED  BY <1>1, <1>2
  <2>3. ((Second * s) + (l + h)) \div Second = s + R
    BY <1>1, WholeSecondsStay
  <2>4. QED  BY <2>1, <2>2, <2>3
<1>4. (Second * R) + g = l \/ ((Second * R) + g = l + Second /\ 2 * g >= Second)
  BY RoundingAddsASecond DEF Timer!RoundedSeconds
<1>5. (Second * (s + R)) + f + g = m + ((Second * R) + g)
  <2> HIDE DEF h, s, f, g, R
  <2>1. Second * (s + R) = (Second * s) + (Second * R)
    BY <1>1
  <2>2. QED  BY <1>1, <1>2, <2>1
<1>6. (Second * R) + g \in Nat
  <2> HIDE DEF h, s, f, g, R
  <2>1. QED  BY <1>1, <1>2
<1>7. QED
  <2>1. (Second * Timer!RoundedSeconds((Second * s) + l)) + f + g = m + ((Second * R) + g)
    BY <1>3, <1>5
  <2>2. \/ m + ((Second * R) + g) = m + l
        \/ m + ((Second * R) + g) = m + l + Second /\ 2 * g >= Second
    <3> HIDE DEF h, s, f, g, R
    <3>1. QED  BY <1>1, <1>4
  <2>3. QED  BY <2>1, <2>2

\* What loop() and expired() do with a timer.
LEMMA ExpiredAtTheEnd ==
    ASSUME NEW t \in Timer!Timers, clock \in Nat
    PROVE  /\ Timer!loop(t) \in Timer!Timers
           /\ Timer!loop(t).type = t.type /\ Timer!loop(t).ticks = t.ticks
           /\ Timer!loop(t).m_start = t.m_start /\ Timer!loop(t).m_loopTime = clock
           /\ TimerEnd(Timer!loop(t)) = TimerEnd(t) /\ TimerEnd(t) \in Int
           /\ Timer!expired(Timer!loop(t)) <=> clock >= TimerEnd(t)
<1>1. /\ t.type \in Timer!Types /\ t.ticks \in Int /\ t.m_start \in Nat /\ t.m_loopTime \in Nat
  BY DEF Timer!Timers
<1>2. /\ Timer!loop(t) \in Timer!Timers
      /\ Timer!loop(t).type = t.type /\ Timer!loop(t).ticks = t.ticks
      /\ Timer!loop(t).m_start = t.m_start /\ Timer!loop(t).m_loopTime = clock
  BY DEF Timer!loop, Timer!Timers
<1>3. TimerEnd(Timer!loop(t)) = TimerEnd(t) /\ TimerEnd(t) \in Int
  BY <1>1, <1>2 DEF TimerEnd
<1>4. Timer!expired(Timer!loop(t)) <=> clock >= TimerEnd(t)
  BY <1>1, <1>2 DEF TimerEnd, Timer!expired
<1>5. QED  BY <1>2, <1>3, <1>4

\* What is left when a wait begins.
LEMMA RestOfInner ==
    ASSUME TimerAssumption, TimerInv, tpc = "loop"
    PROVE  /\ Timer!calcSeconds(inner) = InnerEnd - clock /\ InnerEnd \in Int
           /\ clock \in Nat /\ expiry \in Nat /\ expiry <= InnerEnd
           /\ clock <= InnerEnd \/ clock = inner.m_start
<1>1. inner \in Timer!Timers /\ clock \in Nat /\ expiry \in Nat
  BY DEF TimerInv, Timer!TypeOK
<1>2. inner.ticks \in Int /\ inner.m_start \in Nat /\ inner.m_loopTime \in Nat
  BY <1>1 DEF Timer!Timers
<1>3. /\ expiry <= InnerEnd /\ inner.m_loopTime = clock
      /\ clock <= InnerEnd \/ clock = inner.m_start
  BY DEF TimerInv, TimersInStep
<1>4. Timer!calcSeconds(inner) = InnerEnd - clock /\ InnerEnd \in Int
  BY <1>1, <1>2, <1>3 DEF InnerEnd, TimerEnd, Timer!calcSeconds
<1>5. QED  BY <1>1, <1>3, <1>4

\* The wait that begins: when it ends, and what stays as it is.
WaitBegins ==
    /\ tpc = "loop" /\ tpc' = "wait" /\ early' \in BOOLEAN
    /\ UNCHANGED <<clock, caller, interface, timer, inner, expiry, verdict>>

LEMMA WaitBeginsInTime ==
    ASSUME TimerAssumption, TimerInv, WaitBegins,
           \/ wakeAt' = Timer!Never /\ clock > expiry /\ interface # "asTimespec"
           \/ /\ wakeAt' \in Nat
              /\ \/ clock <= LatestEnd /\ wakeAt' <= LatestEnd
                 \/ clock = inner.m_start /\ wakeAt' <= clock
              /\ interface = "asTimespec" /\ ~early' => wakeAt' >= expiry \/ clock >= expiry
    PROVE  TimerInv'
<1>1. TimersInStep'
  BY DEF TimerInv, TimersInStep, WaitBegins, InnerEnd, Timer!WorkAdds
<1>2. LatestEnd' = LatestEnd
  BY DEF LatestEnd, InnerEnd, Timer!RoundingAdds, WaitBegins
<1>3. Timer!TypeOK'
  BY DEF TimerInv, Timer!TypeOK, WaitBegins
<1>4. WaitEndsInTime'
  BY <1>2 DEF WaitEndsInTime, WaitBegins, Timer!Never
<1>5. VerdictIsRight'
  BY DEF TimerInv, VerdictIsRight, WaitBegins
<1>6. QED  BY <1>1, <1>3, <1>4, <1>5 DEF TimerInv

\* The interfaces of select(), poll() and epoll_wait().
LEMMA SelectWaitsInTime ==
    ASSUME TimerAssumption, TimerInv, Timer!WaitForMilliseconds \/ Timer!WaitForTimeval
    PROVE  TimerInv'
<1>1. WaitBegins /\ tpc = "loop" /\ interface # "asTimespec"
  BY DEF Timer!WaitForMilliseconds, Timer!WaitForTimeval, Timer!callVars, WaitBegins, TimerInv,
     Timer!TypeOK
<1>2. /\ Timer!calcSeconds(inner) = InnerEnd - clock /\ InnerEnd \in Int
      /\ clock \in Nat /\ expiry \in Nat /\ expiry <= InnerEnd
      /\ clock <= InnerEnd \/ clock = inner.m_start
  BY <1>1, RestOfInner
<1>3. LoopTimeout \in Nat /\ Second \in Nat \ {0}
  BY DEF TimerAssumption
<1>4. CASE Timer!WaitForMilliseconds
  <2>1. /\ interface = "asIntMs"
        /\ wakeAt' = IF Timer!asIntMs(inner) < 0 THEN Timer!Never
                     ELSE clock + Timer!asIntMs(inner)
    BY <1>4 DEF Timer!WaitForMilliseconds
  <2>2. LatestEnd = InnerEnd
    BY <1>2, <2>1 DEF LatestEnd, Timer!RoundingAdds
  <2>3. /\ Timer!asIntMs(inner) \in Int /\ Timer!asIntMs(inner) <= InnerEnd - clock
        /\ Timer!asIntMs(inner) < 0 => InnerEnd - clock < 0
    BY <1>2, <1>3 DEF Timer!asIntMs, Timer!AtMost
  <2>4. CASE Timer!asIntMs(inner) < 0
    <3>1. wakeAt' = Timer!Never /\ clock > expiry
      BY <1>2, <2>1, <2>3, <2>4
    <3>2. QED  BY <1>1, <3>1, WaitBeginsInTime
  <2>5. CASE ~(Timer!asIntMs(inner) < 0)
    <3>1. wakeAt' \in Nat /\ clock <= LatestEnd /\ wakeAt' <= LatestEnd
      BY <1>2, <2>1, <2>2, <2>3, <2>5
    <3>2. QED  BY <1>1, <3>1, WaitBeginsInTime
  <2>6. QED  BY <2>4, <2>5
<1>5. CASE Timer!WaitForTimeval
  <2>1. /\ interface = "asTimeval" /\ ~Timer!NegativeTimeval(inner)
        /\ wakeAt' = clock + Timer!asTimeval(inner)
    BY <1>5 DEF Timer!WaitForTimeval
  <2>2. CASE InnerEnd - clock < 0
    <3>1. Timer!asTimeval(inner) = 0
      BY <1>2, <1>3, <2>2 DEF Timer!asTimeval, Timer!asTimevalUncapped, Timer!AtLeast,
         Timer!AtMost
    <3>2. clock = inner.m_start /\ wakeAt' = clock
      BY <1>2, <2>1, <2>2, <3>1
    <3>3. QED  BY <1>1, <1>2, <3>2, WaitBeginsInTime
  <2>3. CASE ~(InnerEnd - clock < 0)
    <3>1. InnerEnd - clock \in Nat /\ Timer!calcSeconds(inner) \in Nat
      BY <1>2, <2>3
    <3>2. PICK u \in Nat : /\ Timer!asTimevalUncapped(inner) = u
                           /\ clock + u <= LatestEnd
      <4>1. CASE inner.type = "E_ABSOLUTE"
        <5>1. Timer!asTimevalUncapped(inner) = InnerEnd - clock
          BY <1>2, <3>1, <4>1 DEF Timer!asTimevalUncapped, Timer!AtLeast
        <5>2. LatestEnd = InnerEnd
          BY <1>2, <4>1 DEF LatestEnd, Timer!RoundingAdds
        <5>3. QED  BY <1>2, <3>1, <5>1, <5>2
      <4>2. CASE inner.type # "E_ABSOLUTE"
        <5>1. LatestEnd = InnerEnd + Second
          BY <2>1, <4>2 DEF LatestEnd, Timer!RoundingAdds
        <5>2. Timer!asTimevalUncapped(inner)
                 = (Second * Timer!RoundedSeconds(InnerEnd - clock))
                      + ((InnerEnd - clock) % Second)
          BY <1>2, <3>1, <4>2 DEF Timer!asTimevalUncapped
        <5>3. \/ Timer!asTimevalUncapped(inner) = InnerEnd - clock
              \/ Timer!asTimevalUncapped(inner) = (InnerEnd - clock) + Second
          BY <3>1, <5>2, RoundingAddsASecond
        <5>4. QED  BY <1>2, <1>3, <3>1, <5>1, <5>3
      <4>3. QED  BY <4>1, <4>2
    <3>3. Timer!asTimeval(inner) \in Nat /\ Timer!asTimeval(inner) <= u
      BY <1>3, <3>2 DEF Timer!asTimeval, Timer!AtMost
    <3>4. LatestEnd \in Int
      BY <1>2, <1>3 DEF LatestEnd, Timer!RoundingAdds
    <3>5. wakeAt' \in Nat /\ clock <= LatestEnd /\ wakeAt' <= LatestEnd
      BY <1>2, <2>1, <3>2, <3>3, <3>4
    <3>6. QED  BY <1>1, <3>5, WaitBeginsInTime
  <2>4. QED  BY <2>2, <2>3
<1>6. QED  BY <1>4, <1>5

\* The interface of pthread_cond_timedwait().
LEMMA ConditionWaitsInTime ==
    ASSUME TimerAssumption, TimerInv, Timer!WaitForTimespec
    PROVE  TimerInv'
<1>1. /\ WaitBegins /\ tpc = "loop" /\ interface = "asTimespec" /\ caller = "timedWait"
      /\ wakeAt' = Timer!CheckedTime
      /\ early' = (Timer!CheckedTime # Timer!asTimespec(inner))
  BY DEF Timer!WaitForTimespec, Timer!callVars, WaitBegins, TimerInv, Timer!TypeOK
<1>2. /\ InnerEnd \in Int /\ clock \in Nat /\ expiry \in Nat /\ expiry <= InnerEnd
      /\ clock <= InnerEnd \/ clock = inner.m_start
  BY <1>1, RestOfInner
<1>3. /\ InnerEnd = expiry /\ inner.ticks \in Nat /\ inner.m_loopTime = clock
      /\ inner.m_start \in Nat
  <2>1. InnerEnd <= expiry + 0 /\ inner.ticks \in Nat /\ inner.m_loopTime = clock
    BY <1>1 DEF TimerInv, TimersInStep, Timer!WorkAdds
  <2>2. inner.m_start \in Nat
    BY DEF TimerInv, Timer!TypeOK, Timer!Timers
  <2>3. QED  BY <1>2, <2>1, <2>2
<1>4. /\ Timer!asTimespec(inner) \in Nat
      /\ \/ Timer!asTimespec(inner) <= LatestEnd /\ clock <= LatestEnd
         \/ clock = inner.m_start /\ Timer!asTimespec(inner) <= clock
      /\ Timer!asTimespec(inner) >= expiry \/ clock >= expiry
  <2>1. CASE inner.type = "E_ABSOLUTE"
    <3>1. InnerEnd = inner.ticks /\ LatestEnd = InnerEnd
      BY <1>2, <2>1 DEF InnerEnd, TimerEnd, LatestEnd, Timer!RoundingAdds
    <3>2. Timer!asTimespec(inner) = IF inner.ticks > clock THEN inner.ticks ELSE 0
      BY <1>3, <2>1 DEF Timer!asTimespec
    <3>3. QED  BY <1>2, <1>3, <3>1, <3>2
  <2>2. CASE inner.type # "E_ABSOLUTE"
    <3>1. InnerEnd = inner.m_start + inner.ticks
      BY <2>2 DEF InnerEnd, TimerEnd
    <3>2. \/ Timer!asTimespec(inner) = InnerEnd
          \/ /\ Timer!asTimespec(inner) = InnerEnd + Second
             /\ 2 * (inner.ticks % Second) >= Second
      BY <1>3, <2>2, <3>1, TimespecIsTheEnd DEF Timer!asTimespec
    <3>3. Second \in Nat
      BY DEF TimerAssumption
    <3>4. LatestEnd \in Int /\ LatestEnd >= Timer!asTimespec(inner) /\ LatestEnd >= InnerEnd
      BY <1>1, <1>2, <2>2, <3>2, <3>3 DEF LatestEnd, Timer!RoundingAdds
    <3>5. InnerEnd \in Nat /\ clock <= InnerEnd
      BY <1>2, <1>3, <3>1
    <3>6. QED  BY <1>2, <1>3, <3>2, <3>3, <3>4, <3>5
  <2>3. QED  BY <2>1, <2>2
<1>5. Timer!CheckedTime \in Nat /\ Timer!CheckedTime <= Timer!asTimespec(inner)
  <2>1. Second * (clock \div Second) \in Nat
    <3>1. Second \in Nat /\ clock \div Second \in Nat
      BY <1>2, Fractions DEF TimerAssumption
    <3>2. QED  BY <3>1
  <2>2. QED
    BY <1>4, <2>1 DEF Timer!CheckedTime, Timer!AtMost, TimerAssumption
<1>6. LatestEnd \in Int
  BY <1>2, <1>3 DEF LatestEnd, Timer!RoundingAdds, TimerAssumption
<1>7. \/ clock <= LatestEnd /\ wakeAt' <= LatestEnd
      \/ clock = inner.m_start /\ wakeAt' <= clock
  BY <1>1, <1>2, <1>4, <1>5, <1>6
<1>8. wakeAt' \in Nat /\ (~early' => wakeAt' >= expiry \/ clock >= expiry)
  BY <1>1, <1>4, <1>5
<1>9. QED  BY <1>1, <1>7, <1>8, WaitBeginsInTime

\* The call is over.
LEMMA DoneKeepsTimer ==
    ASSUME TimerInv, NEW v, Timer!Done(v), UNCHANGED <<clock, caller, interface, expiry>>,
           \/ v = "event"
           \/ v = "timeout" /\ clock >= expiry
           \/ v = "error" /\ clock > expiry
    PROVE  TimerInv'
<1>1. /\ tpc' = "done" /\ verdict' = v /\ timer' = Timer!NoTimer /\ inner' = Timer!NoTimer
      /\ wakeAt' = 0 /\ early' = FALSE
  BY DEF Timer!Done
<1>2. Timer!NoTimer \in Timer!Timers /\ Timer!NoTimer.ticks = 0
  BY DEF Timer!NoTimer, Timer!Timers, Timer!Types
<1>3. Timer!TypeOK'
  BY <1>1, <1>2 DEF TimerInv, Timer!TypeOK
<1>4. TimersInStep' /\ WaitEndsInTime' /\ VerdictIsRight'
  BY <1>1, <1>2 DEF TimersInStep, WaitEndsInTime, VerdictIsRight
<1>5. QED  BY <1>3, <1>4 DEF TimerInv

\* A round ends, and the caller goes on.
LEMMA RoundKeepsTimer ==
    ASSUME TimerAssumption, TimerInv, NEW t \in Timer!Timers, Timer!NextRound(t),
           tpc = "wait", UNCHANGED <<clock, caller, interface>>,
           t.ticks = timer.ticks, t.type = timer.type, t.m_loopTime = clock, expiry' \in Nat,
           t.type = "E_ABSOLUTE" \/ caller = "gatherOutput" => expiry' = TimerEnd(t)
    PROVE  TimerInv'
<1>1. /\ tpc' = "work" /\ timer' = t /\ inner' = Timer!NoTimer /\ wakeAt' = 0
      /\ UNCHANGED <<early, verdict>>
  BY DEF Timer!NextRound
<1>2. Timer!NoTimer \in Timer!Timers
  BY DEF Timer!NoTimer, Timer!Timers, Timer!Types
<1>3. Timer!TypeOK'
  BY <1>1, <1>2 DEF TimerInv, Timer!TypeOK
<1>4. clock \in Nat /\ MaxWork \in Nat
  BY DEF TimerInv, Timer!TypeOK, TimerAssumption
<1>5. TimersInStep'
  BY <1>1, <1>4 DEF TimerInv, TimersInStep, TimerEnd
<1>6. WaitEndsInTime' /\ VerdictIsRight'
  BY <1>1 DEF TimerInv, WaitEndsInTime, VerdictIsRight
<1>7. QED  BY <1>3, <1>5, <1>6 DEF TimerInv

\* The inner call begins with a timer that measures the timeout of the call.
LEMMA BeginningKeepsTimer ==
    ASSUME TimerAssumption, TimerInv, Timer!BeginWaiting
    PROVE  TimerInv'
<1>1. /\ tpc = "work" /\ tpc' = "loop"
      /\ UNCHANGED <<clock, caller, interface, timer, wakeAt, early, verdict>>
  BY DEF Timer!BeginWaiting, Timer!callVars
<1>2. /\ clock \in Nat /\ expiry \in Nat /\ MaxWork \in Nat /\ timer \in Timer!Timers
      /\ timer.type \in Timer!Types /\ timer.ticks \in Nat /\ timer.m_start \in Nat
      /\ timer.m_loopTime \in Nat /\ timer.m_loopTime <= clock
      /\ clock <= timer.m_loopTime + MaxWork
      /\ timer.type = "E_ABSOLUTE" \/ caller = "gatherOutput" => expiry = TimerEnd(timer)
  BY <1>1 DEF TimerInv, Timer!TypeOK, TimersInStep, TimerAssumption, Timer!Timers
<1>3. PICK type \in Timer!Types, ticks \in Int :
         /\ inner' = Timer!Started(type, ticks) /\ expiry' \in Nat
         /\ expiry' <= TimerEnd(Timer!Started(type, ticks))
         /\ caller = "gatherOutput" =>
               /\ expiry' = expiry
               /\ TimerEnd(Timer!Started(type, ticks)) <= expiry + MaxWork
         /\ caller # "gatherOutput" =>
               ticks \in Nat /\ TimerEnd(Timer!Started(type, ticks)) = expiry'
         /\ timer.type = "E_ABSOLUTE" => expiry' = expiry
  <2>1. CASE caller = "gatherOutput"
    <3>1. /\ inner' = Timer!Started("E_RELATIVE", Timer!calcSeconds(timer))
          /\ expiry' = expiry
      BY <2>1 DEF Timer!BeginWaiting
    <3>2. /\ Timer!calcSeconds(timer) = expiry - timer.m_loopTime
          /\ Timer!calcSeconds(timer) \in Int
      BY <1>2, <2>1 DEF Timer!calcSeconds, TimerEnd
    <3>3. TimerEnd(Timer!Started("E_RELATIVE", Timer!calcSeconds(timer)))
             = clock + (expiry - timer.m_loopTime)
      BY <1>2, <3>2 DEF TimerEnd, Timer!Started
    <3>4. "E_RELATIVE" \in Timer!Types
      BY DEF Timer!Types
    <3>5. QED  BY <1>2, <2>1, <3>1, <3>2, <3>3, <3>4
  <2>2. CASE caller # "gatherOutput"
    <3>1. /\ inner' = Timer!Started(timer.type, timer.ticks)
          /\ expiry' = IF timer.type = "E_ABSOLUTE" THEN expiry ELSE clock + timer.ticks
      BY <2>2 DEF Timer!BeginWaiting
    <3>2. TimerEnd(Timer!Started(timer.type, timer.ticks)) = expiry'
      BY <1>2, <3>1 DEF TimerEnd, Timer!Started
    <3>3. expiry' \in Nat
      BY <1>2, <3>1
    <3>4. QED  BY <1>2, <2>2, <3>1, <3>2, <3>3
  <2>3. QED  BY <2>1, <2>2
<1>4. /\ Timer!Started(type, ticks) \in Timer!Timers
      /\ inner'.ticks = ticks /\ inner'.m_start = clock /\ inner'.m_loopTime = clock
  BY <1>2, <1>3 DEF Timer!Started, Timer!Timers
<1>5. Timer!TypeOK'
  BY <1>1, <1>3, <1>4 DEF TimerInv, Timer!TypeOK
<1>6. InnerEnd' = TimerEnd(Timer!Started(type, ticks)) /\ InnerEnd' \in Int
  BY <1>2, <1>3 DEF InnerEnd, TimerEnd, Timer!Started
<1>7. expiry' <= InnerEnd' /\ InnerEnd' <= expiry' + Timer!WorkAdds'
  <2>1. Timer!WorkAdds' = IF caller = "gatherOutput" THEN MaxWork ELSE 0
    BY <1>1 DEF Timer!WorkAdds
  <2>2. QED  BY <1>2, <1>3, <1>6, <2>1
<1>8. TimersInStep'
  BY <1>1, <1>2, <1>3, <1>4, <1>7 DEF TimersInStep, TimerEnd
<1>9. WaitEndsInTime' /\ VerdictIsRight'
  BY <1>1 DEF TimerInv, WaitEndsInTime, VerdictIsRight
<1>10. QED  BY <1>5, <1>8, <1>9 DEF TimerInv

\* After a wait the loop of selectRW() goes on only before the end of its timeout, and returns
\* SELECT_TIMEOUT only after it.
LEMMA LoopKeepsTimer ==
    ASSUME TimerAssumption, TimerInv, Timer!LoopAgain \/ Timer!SelectTimesOut
    PROVE  TimerInv'
<1>1. /\ tpc = "wait" /\ UNCHANGED <<clock, caller, interface, expiry>>
      /\ clock \in Nat /\ expiry \in Nat /\ inner \in Timer!Timers /\ timer \in Timer!Timers
  BY DEF Timer!LoopAgain, Timer!SelectTimesOut, Timer!callVars, TimerInv, Timer!TypeOK
<1>2. /\ expiry <= InnerEnd /\ InnerEnd \in Int
      /\ timer.type = "E_ABSOLUTE" \/ caller = "gatherOutput" => expiry = TimerEnd(timer)
  BY <1>1, ExpiredAtTheEnd DEF TimerInv, TimersInStep, InnerEnd
<1>3. CASE Timer!LoopAgain
  <2>1. /\ tpc' = "loop" /\ inner' = Timer!loop(inner) /\ wakeAt' = 0
        /\ UNCHANGED <<timer, early, verdict>> /\ ~Timer!expired(Timer!loop(inner))
    BY <1>3 DEF Timer!LoopAgain
  <2>2. /\ inner' \in Timer!Timers /\ inner'.m_loopTime = clock /\ InnerEnd' = InnerEnd
        /\ inner'.ticks = inner.ticks /\ clock < InnerEnd
    BY <1>1, <1>2, <2>1, ExpiredAtTheEnd DEF InnerEnd, TimerEnd
  <2>3. Timer!TypeOK'
    BY <1>1, <2>1, <2>2 DEF TimerInv, Timer!TypeOK
  <2>4. TimersInStep'
    BY <1>1, <1>2, <2>1, <2>2 DEF TimerInv, TimersInStep, TimerEnd, Timer!WorkAdds
  <2>5. WaitEndsInTime' /\ VerdictIsRight'
    BY <1>1, <2>1 DEF TimerInv, WaitEndsInTime, VerdictIsRight
  <2>6. QED  BY <2>3, <2>4, <2>5 DEF TimerInv
<1>4. CASE Timer!SelectTimesOut
  <2>1. clock >= InnerEnd
    BY <1>1, <1>4, ExpiredAtTheEnd DEF Timer!SelectTimesOut, InnerEnd
  <2>2. CASE caller = "gatherOutput" /\ ~Timer!expired(Timer!loop(timer))
    <3>1. Timer!NextRound(Timer!loop(timer))
      BY <1>4, <2>2 DEF Timer!SelectTimesOut
    <3>2. /\ Timer!loop(timer) \in Timer!Timers
          /\ Timer!loop(timer).ticks = timer.ticks /\ Timer!loop(timer).type = timer.type
          /\ Timer!loop(timer).m_loopTime = clock
          /\ TimerEnd(Timer!loop(timer)) = TimerEnd(timer)
      BY <1>1, ExpiredAtTheEnd
    <3>3. QED  BY <1>1, <1>2, <3>1, <3>2, RoundKeepsTimer
  <2>3. CASE ~(caller = "gatherOutput" /\ ~Timer!expired(Timer!loop(timer)))
    <3>1. Timer!Done("timeout")
      BY <1>4, <2>3 DEF Timer!SelectTimesOut
    <3>2. clock >= expiry
      BY <1>1, <1>2, <2>1
    <3>3. QED  BY <1>1, <3>1, <3>2, DoneKeepsTimer
  <2>4. QED  BY <2>2, <2>3
<1>5. QED  BY <1>3, <1>4

\* resetOnLoop() moves the end of the timeout only if that is meant to be.
LEMMA ResetKeepsTimer ==
    ASSUME TimerAssumption, TimerInv, Timer!ResetOnLoop
    PROVE  TimerInv'
<1> DEFINE t == Timer!resetOnLoop(timer)
<1>1. /\ tpc = "wait" /\ Timer!NextRound(t) /\ UNCHANGED <<clock, caller, interface>>
      /\ expiry' = IF caller = "gatherOutput" /\ timer.type = "E_RELATIVE_WITH_RESET"
                   THEN clock + timer.ticks ELSE expiry
  BY DEF Timer!ResetOnLoop, Timer!callVars
<1>2. /\ clock \in Nat /\ expiry \in Nat /\ timer \in Timer!Timers /\ timer.ticks \in Nat
      /\ timer.type = "E_ABSOLUTE" \/ caller = "gatherOutput" => expiry = TimerEnd(timer)
  BY <1>1 DEF TimerInv, Timer!TypeOK, TimersInStep
<1>3. CASE timer.type # "E_RELATIVE_WITH_RESET"
  <2>1. t = Timer!loop(timer) /\ expiry' = expiry
    BY <1>1, <1>3 DEF Timer!resetOnLoop
  <2>2. /\ t \in Timer!Timers /\ t.ticks = timer.ticks /\ t.type = timer.type
        /\ t.m_loopTime = clock /\ TimerEnd(t) = TimerEnd(timer)
    BY <1>2, <2>1, ExpiredAtTheEnd
  <2> HIDE DEF t
  <2>3. QED  BY <1>1, <1>2, <2>1, <2>2, RoundKeepsTimer
<1>4. CASE timer.type = "E_RELATIVE_WITH_RESET"
  <2>1. t = [Timer!loop(timer) EXCEPT !.m_start = clock]
    BY <1>4 DEF Timer!resetOnLoop
  <2>2. /\ Timer!loop(timer) \in Timer!Timers /\ Timer!loop(timer).type = timer.type
        /\ Timer!loop(timer).ticks = timer.ticks /\ Timer!loop(timer).m_loopTime = clock
    BY <1>2, ExpiredAtTheEnd
  <2>3. /\ t \in Timer!Timers /\ t.ticks = timer.ticks /\ t.type = timer.type
        /\ t.m_loopTime = clock /\ t.m_start = clock
    BY <1>2, <2>1, <2>2 DEF Timer!Timers
  <2> HIDE DEF t
  <2>4. /\ expiry' \in Nat
        /\ t.type = "E_ABSOLUTE" \/ caller = "gatherOutput" => expiry' = TimerEnd(t)
    BY <1>1, <1>2, <1>4, <2>3 DEF TimerEnd
  <2>5. QED  BY <1>1, <2>3, <2>4, RoundKeepsTimer
<1>5. QED  BY <1>3, <1>4

\* The invariant holds.
LEMMA TimerInvHolds ==
    ASSUME TimerAssumption
    PROVE  /\ Timer!Init => TimerInv
           /\ TimerInv /\ [Timer!Next]_timerVars => TimerInv'
<1>1. ASSUME Timer!Init
      PROVE  TimerInv
  <2>1. clock \in Nat
    BY <1>1 DEF Timer!Init, TimerAssumption
  <2>2. Timer!NoTimer \in Timer!Timers /\ Timer!NoTimer.ticks = 0
    BY DEF Timer!NoTimer, Timer!Timers, Timer!Types
  <2>3. Timer!TypeOK
    BY <1>1, <2>1, <2>2 DEF Timer!Init, Timer!TypeOK
  <2>4. TimersInStep /\ WaitEndsInTime /\ VerdictIsRight
    BY <1>1, <2>2 DEF Timer!Init, TimersInStep, WaitEndsInTime, VerdictIsRight
  <2>5. QED  BY <2>3, <2>4 DEF TimerInv
<1>2. ASSUME TimerInv, UNCHANGED timerVars
      PROVE  TimerInv'
  BY <1>2 DEF timerVars, TimerInv, TimersInStep, WaitEndsInTime, VerdictIsRight, Timer!TypeOK,
     InnerEnd, LatestEnd, Timer!RoundingAdds, Timer!WorkAdds
<1>3. ASSUME TimerInv, NEW c \in {"selectRW", "gatherOutput", "go", "timedWait"},
             NEW i \in {"asIntMs", "asTimeval", "asTimespec"}, NEW type \in Timer!Types,
             NEW l \in Limits, Timer!Call(c, i, type, l)
      PROVE  TimerInv'
  <2>1. l \in Nat /\ clock \in Nat /\ MaxWork \in Nat
    BY <1>3 DEF TimerAssumption, TimerInv, Timer!TypeOK
  <2>2. PICK ticks \in Nat :
           /\ ticks = IF type = "E_ABSOLUTE" THEN clock + l ELSE l
           /\ timer' = Timer!Started(type, ticks)
    BY <1>3, <2>1 DEF Timer!Call
  <2>3. /\ timer' \in Timer!Timers /\ timer'.ticks = ticks /\ timer'.type = type
        /\ timer'.m_start = clock /\ timer'.m_loopTime = clock
    BY <2>1, <2>2 DEF Timer!Started, Timer!Timers
  <2>4. /\ tpc = "idle" /\ tpc' = "work" /\ caller' = c /\ interface' = i /\ expiry' = clock + l
        /\ ((c = "timedWait") <=> (i = "asTimespec"))
        /\ UNCHANGED <<clock, inner, wakeAt, early, verdict>>
    BY <1>3 DEF Timer!Call
  <2>5. Timer!TypeOK'
    BY <1>3, <2>1, <2>3, <2>4 DEF TimerInv, Timer!TypeOK
  <2>6. TimerEnd(timer)' = clock + l
    BY <2>1, <2>2, <2>3 DEF TimerEnd
  <2>7. TimersInStep'
    BY <2>1, <2>3, <2>4, <2>6 DEF TimersInStep
  <2>8. WaitEndsInTime' /\ VerdictIsRight'
    BY <1>3, <2>4 DEF TimerInv, WaitEndsInTime, VerdictIsRight
  <2>9. QED  BY <2>5, <2>7, <2>8 DEF TimerInv
<1>4. ASSUME TimerInv, Timer!Work \/ Timer!Tick
      PROVE  TimerInv'
  <2>1. /\ clock' = clock + 1 /\ clock \in Nat /\ expiry \in Nat
        /\ UNCHANGED <<caller, interface, timer, inner, tpc, wakeAt, early, expiry, verdict>>
        /\ timer.m_loopTime \in Nat /\ inner.m_start \in Nat /\ inner.ticks \in Int
    BY <1>4 DEF Timer!Work, Timer!Tick, Timer!callVars, TimerInv, Timer!TypeOK, Timer!Timers
  <2>2. \/ tpc = "work" /\ clock < timer.m_loopTime + MaxWork
        \/ tpc = "wait" /\ (wakeAt = Timer!Never \/ clock < wakeAt)
    BY <1>4 DEF Timer!Work, Timer!Tick
  <2>3. Timer!TypeOK'
    BY <1>4, <2>1 DEF TimerInv, Timer!TypeOK
  <2>4. InnerEnd' = InnerEnd /\ LatestEnd' = LatestEnd /\ Timer!WorkAdds' = Timer!WorkAdds
    BY <2>1 DEF InnerEnd, LatestEnd, Timer!RoundingAdds, Timer!WorkAdds
  <2>5. TimersInStep'
    <3>1. MaxWork \in Nat
      BY DEF TimerAssumption
    <3>2. QED  BY <1>4, <2>1, <2>2, <2>4, <3>1 DEF TimerInv, TimersInStep, TimerEnd
  <2>6. WaitEndsInTime'
    <3>1. LatestEnd \in Int
      BY <2>1 DEF LatestEnd, InnerEnd, TimerEnd, Timer!RoundingAdds, TimerAssumption, TimerInv,
         TimersInStep
    <3>2. wakeAt \in Nat \cup {Timer!Never}
      BY <1>4 DEF TimerInv, Timer!TypeOK
    <3>3. QED
      BY <1>4, <2>1, <2>2, <2>4, <3>1, <3>2 DEF TimerInv, WaitEndsInTime, Timer!Never
  <2>7. VerdictIsRight'
    BY <1>4, <2>1, <2>2 DEF TimerInv, VerdictIsRight
  <2>8. QED  BY <2>3, <2>5, <2>6, <2>7 DEF TimerInv
<1>5. ASSUME TimerInv, Timer!Event
      PROVE  TimerInv'
  BY <1>5, DoneKeepsTimer DEF Timer!Event, Timer!callVars
<1>6. ASSUME TimerInv, Timer!ConditionTimesOut
      PROVE  TimerInv'
  <2>1. /\ tpc = "wait" /\ interface = "asTimespec" /\ clock >= wakeAt
        /\ Timer!Done(IF early THEN "event" ELSE "timeout")
        /\ UNCHANGED <<clock, caller, interface, expiry>>
    BY <1>6 DEF Timer!ConditionTimesOut, Timer!callVars
  <2>2. ~early => clock >= expiry
    <3>1. /\ clock \in Nat /\ expiry \in Nat /\ wakeAt \in Nat
          /\ ~early => wakeAt >= expiry \/ clock >= expiry
      BY <1>6, <2>1 DEF TimerInv, WaitEndsInTime, Timer!TypeOK
    <3>2. QED  BY <2>1, <3>1
  <2>3. CASE early
    <3>1. Timer!Done("event")
      BY <2>1, <2>3
    <3>2. QED  BY <1>6, <2>1, <3>1, DoneKeepsTimer
  <2>4. CASE ~early
    <3>1. Timer!Done("timeout")
      BY <2>1, <2>4
    <3>2. QED  BY <1>6, <2>1, <2>2, <2>4, <3>1, DoneKeepsTimer
  <2>5. QED  BY <2>3, <2>4
<1>7. ASSUME TimerInv, Timer!SelectFails
      PROVE  TimerInv'
  <2>1. /\ tpc = "loop" /\ Timer!Done("error") /\ Timer!NegativeTimeval(inner)
        /\ UNCHANGED <<clock, caller, interface, expiry>>
    BY <1>7 DEF Timer!SelectFails, Timer!callVars
  <2>2. clock > expiry
    <3>1. /\ Timer!calcSeconds(inner) = InnerEnd - clock /\ InnerEnd \in Int
          /\ clock \in Nat /\ expiry \in Nat /\ expiry <= InnerEnd
      BY <1>7, <2>1, RestOfInner
    <3>2. QED  BY <2>1, <3>1 DEF Timer!NegativeTimeval
  <2>3. QED  BY <1>7, <2>1, <2>2, DoneKeepsTimer
<1>8. QED
  BY <1>1, <1>2, <1>3, <1>4, <1>5, <1>6, <1>7, BeginningKeepsTimer, SelectWaitsInTime,
     ConditionWaitsInTime, LoopKeepsTimer, ResetKeepsTimer DEF Timer!Next

\* What the invariant says of the wait is what was promised.
LEMMA TimerInvMeans == ASSUME TimerAssumption, TimerInv  PROVE TimesOutOnTime
<1>1. /\ clock \in Nat /\ expiry \in Nat /\ inner.ticks \in Int /\ inner.m_start \in Nat
      /\ Second \in Nat /\ MaxWork \in Nat
  BY DEF TimerInv, Timer!TypeOK, Timer!Timers, TimerAssumption
<1>2. ASSUME tpc = "wait", wakeAt # Timer!Never
      PROVE  clock <= expiry + Timer!RoundingAdds + Timer!WorkAdds \/ clock = inner.m_start
  <2>1. InnerEnd <= expiry + Timer!WorkAdds /\ InnerEnd \in Int
    BY <1>1, <1>2 DEF TimerInv, TimersInStep, InnerEnd, TimerEnd
  <2>2. Timer!RoundingAdds \in Nat /\ Timer!WorkAdds \in Nat
    BY <1>1 DEF Timer!RoundingAdds, Timer!WorkAdds
  <2>3. clock <= InnerEnd + Timer!RoundingAdds \/ clock = inner.m_start
    BY <1>2 DEF TimerInv, WaitEndsInTime, LatestEnd
  <2>4. QED  BY <1>1, <2>1, <2>2, <2>3
<1>3. /\ verdict = "timeout" => clock >= expiry
      /\ (tpc = "wait" /\ wakeAt = Timer!Never) \/ verdict = "error" => clock > expiry
  BY DEF TimerInv, VerdictIsRight, WaitEndsInTime
<1>4. QED  BY <1>2, <1>3 DEF TimesOutOnTime, Timer!TimesOutOnTime

\* TimesOutOnTime, for any timeouts, any resolution of the clock and any time that callers
\* take between their waits, however often a wait is interrupted, resumed and reset: nobody
\* times out before the timeout is over; who begins to wait in time does not wait longer than
\* the timeout, a second that rounding adds, and the work that gatherOutput() did since the
\* rest was computed; nobody else waits without end.
THEOREM WaitsEndOnTime ==
    ASSUME TimerAssumption
    PROVE  Timer!Spec => []TimesOutOnTime
<1>1. [Timer!Next]_(Timer!timerVars) => [Timer!Next]_timerVars
  BY DEF Timer!timerVars, timerVars
<1>2. Timer!Init => TimerInv
  BY TimerInvHolds
<1>3. TimerInv /\ [Timer!Next]_timerVars => TimerInv'
  BY TimerInvHolds
<1>4. TimerInv => TimesOutOnTime
  BY TimerInvMeans
<1>5. QED  BY <1>1, <1>2, <1>3, <1>4, PTL DEF Timer!Spec

(***************************************************************************)
(* All of them together                                                    *)
(***************************************************************************)
\* What the components need of their constants.
SystemAssumption ==
    /\ ProcAssumption /\ ExecAssumption /\ EngineAssumption /\ LogAssumption
    /\ TimerAssumption /\ COWAssumption /\ IdsAssumption /\ TempAssumption
    /\ UdsAssumption /\ TextAssumption

\* The invariants of the components side by side.
SystemInv ==
    /\ ProcInv /\ ExecInv /\ EngineInv /\ AppenderInv
    /\ TimerInv /\ COWInv /\ IdsInv /\ TempInv /\ UdsInv /\ LaunchInv /\ TextInv

\* Whoever the subject is, a step is one of that component and nothing to the others.
LEMMA OneSubjectMoves ==
    ASSUME [MCNext]_allVars
    PROVE  /\ [Proc!Next]_processVars
           /\ [IO!Next]_execVars
           /\ [Engine!Next]_engineVars \/ [Polls!Next]_engineVars
           /\ [Log!Next]_appenderVars
           /\ [Timer!Next]_timerVars
           /\ [Cow!Next]_cowVars
           /\ [Ids!Next]_uuidVars
           /\ [Temp!Next]_tempFileVars
           /\ [Uds!Next]_udsVars
           /\ [Launch!Next]_spawnVars
           /\ [Text!Next]_utf8Vars
<1>1. CASE UNCHANGED allVars
  BY <1>1 DEF allVars
<1>2. ASSUME NEW x \in {"process", "exec", "engine", "polls", "log", "timer", "cow", "ids",
                        "temp", "uds", "launch", "text"},
             Only(x)
      PROVE  /\ x # "process" => UNCHANGED processVars
             /\ x # "exec" => UNCHANGED execVars
             /\ x \notin {"engine", "polls"} => UNCHANGED engineVars
             /\ x # "log" => UNCHANGED appenderVars
             /\ x # "timer" => UNCHANGED timerVars
             /\ x # "cow" => UNCHANGED cowVars
             /\ x # "ids" => UNCHANGED uuidVars
             /\ x # "temp" => UNCHANGED tempFileVars
             /\ x # "uds" => UNCHANGED udsVars
             /\ x # "launch" => UNCHANGED spawnVars
             /\ x # "text" => UNCHANGED utf8Vars
  BY <1>2 DEF Only
<1>3. CASE MCNext
  <2>1. CASE Only("process") /\ Proc!Next
    BY <1>2, <2>1
  <2>2. CASE Only("exec") /\ IO!Next
    BY <1>2, <2>2
  <2>3. CASE Only("engine") /\ Engine!Next
    BY <1>2, <2>3
  <2>4. CASE Only("polls") /\ Polls!Next
    BY <1>2, <2>4
  <2>5. CASE Only("log") /\ Log!Next
    BY <1>2, <2>5
  <2>6. CASE Only("timer") /\ Timer!Next
    BY <1>2, <2>6
  <2>7. CASE Only("cow") /\ Cow!Next
    BY <1>2, <2>7
  <2>8. CASE Only("ids") /\ Ids!Next
    BY <1>2, <2>8
  <2>9. CASE Only("temp") /\ Temp!Next
    BY <1>2, <2>9
  <2>10. CASE Only("uds") /\ Uds!Next
    BY <1>2, <2>10
  <2>11. CASE Only("launch") /\ Launch!Next
    BY <1>2, <2>11
  <2>12. CASE Only("text") /\ Text!Next
    BY <1>2, <2>12
  <2>13. QED
    BY <1>3, <2>1, <2>2, <2>3, <2>4, <2>5, <2>6, <2>7, <2>8, <2>9, <2>10, <2>11, <2>12
       DEF MCNext
<1>4. QED  BY <1>1, <1>3

\* The invariants hold at the start and are kept, whoever moves.
LEMMA SystemInvHolds ==
    ASSUME SystemAssumption
    PROVE  /\ MCInit => SystemInv
           /\ SystemInv /\ [MCNext]_allVars => SystemInv'
<1>1. /\ ProcAssumption /\ ExecAssumption /\ EngineAssumption /\ LogAssumption
      /\ TimerAssumption /\ COWAssumption /\ IdsAssumption /\ TempAssumption
      /\ UdsAssumption /\ TextAssumption
  BY DEF SystemAssumption
<1>2. ASSUME MCInit  PROVE SystemInv
  <2>1. /\ Proc!Init /\ IO!Init /\ Engine!Init /\ Log!Init /\ Timer!Init /\ Cow!Init
        /\ Ids!Init /\ Temp!Init /\ Uds!Init /\ Launch!Init /\ Text!Init
    BY <1>2 DEF MCInit
  <2>2. ProcInv /\ ExecInv /\ EngineInv
    BY <1>1, <2>1, ProcInvHolds, ExecInvHolds, EngineInvHolds
  <2>3. AppenderInv /\ TimerInv /\ COWInv
    BY <1>1, <2>1, AppenderInvHolds, TimerInvHolds, InitCOW
  <2>4. IdsInv /\ TempInv /\ UdsInv /\ LaunchInv /\ TextInv
    BY <1>1, <2>1, IdsInvHolds, TempInvHolds, UdsInvHolds, LaunchInvHolds, TextInvHolds
  <2>5. QED  BY <2>2, <2>3, <2>4 DEF SystemInv
<1>3. ASSUME SystemInv, [MCNext]_allVars  PROVE SystemInv'
  <2>1. /\ ProcInv /\ ExecInv /\ EngineInv /\ AppenderInv
        /\ TimerInv /\ COWInv /\ IdsInv /\ TempInv /\ UdsInv /\ LaunchInv /\ TextInv
    BY <1>3 DEF SystemInv
  <2>2. ProcInv' /\ ExecInv' /\ EngineInv'
    BY <1>1, <1>3, <2>1, OneSubjectMoves, ProcInvHolds, ExecInvHolds, EngineInvHolds
  <2>3. AppenderInv' /\ TimerInv' /\ COWInv'
    BY <1>1, <1>3, <2>1, OneSubjectMoves, AppenderInvHolds, TimerInvHolds, NextCOW
  <2>4. IdsInv' /\ TempInv' /\ UdsInv' /\ LaunchInv' /\ TextInv'
    BY <1>1, <1>3, <2>1, OneSubjectMoves, IdsInvHolds, TempInvHolds, UdsInvHolds,
       LaunchInvHolds, TextInvHolds DEF utf8Vars, Text!utf8Vars
  <2>5. QED  BY <2>2, <2>3, <2>4 DEF SystemInv
<1>4. QED  BY <1>2, <1>3

\* In every behaviour each component keeps the types of its variables and its promise,
\* those included that the theorems above state for the component alone.
THEOREM SystemKeepsItsPromises ==
    ASSUME SystemAssumption
    PROVE  MCSpec => [](/\ ComponentTypesOK
                        /\ PidIsTheChilds /\ StreamsAreWhole /\ CallbacksAreCalled
                        /\ LogIsKept /\ TimesOutOnTime
                        /\ ReferencesActLikeValues /\ IdsAreUnique /\ NameLeadsToServer
                        /\ SpawnIsTruthful /\ TextIsConverted)
<1>1. SystemInv => /\ ComponentTypesOK
                   /\ PidIsTheChilds /\ StreamsAreWhole /\ CallbacksAreCalled
                   /\ LogIsKept /\ TimesOutOnTime
                   /\ ReferencesActLikeValues /\ IdsAreUnique /\ NameLeadsToServer
                   /\ SpawnIsTruthful /\ TextIsConverted
  <2>1. SUFFICES ASSUME SystemInv
                 PROVE  /\ ComponentTypesOK
                        /\ PidIsTheChilds /\ StreamsAreWhole /\ CallbacksAreCalled
                        /\ LogIsKept /\ TimesOutOnTime
                        /\ ReferencesActLikeValues /\ IdsAreUnique /\ NameLeadsToServer
                        /\ SpawnIsTruthful /\ TextIsConverted
    OBVIOUS
  <2>2. Proc!TypeOK /\ PidIsTheChilds /\ IO!TypeOK /\ StreamsAreWhole
    BY <2>1, ProcInvMeans, ExecInvMeans DEF SystemInv, SystemAssumption
  <2>3. Engine!TypeOK /\ CallbacksAreCalled /\ Log!TypeOK /\ LogIsKept
    BY <2>1, EngineInvMeans, AppenderInvMeans DEF SystemInv, SystemAssumption
  <2>4. Timer!TypeOK /\ TimesOutOnTime
    BY <2>1, TimerInvMeans DEF SystemInv, TimerInv, SystemAssumption
  <2>5. Cow!TypeOK /\ ReferencesActLikeValues
    BY <2>1 DEF SystemInv, COWInv, ReferencesActLikeValues, Cow!ReferencesActLikeValues
  <2>6. IdsAreUnique /\ Uds!TypeOK /\ NameLeadsToServer
    BY <2>1, IdsInvMeans DEF SystemInv, UdsInv, SocketIsTheOwners, NameLeadsToServer,
       Uds!NameLeadsToServer
  <2>7. Launch!TypeOK /\ SpawnIsTruthful
    BY <2>1, LaunchInvMeans DEF SystemInv
  <2>8. Text!TypeOK /\ TextIsConverted
    BY <2>1, TextInvMeans DEF SystemInv, SystemAssumption
  <2>9. QED  BY <2>2, <2>3, <2>4, <2>5, <2>6, <2>7, <2>8 DEF ComponentTypesOK
<1>2. QED  BY <1>1, SystemInvHolds, PTL DEF MCSpec

\* The measures of waitCloseTerm() wait their turn whatever else there is.
THEOREM MeasuresWaitInTheSystem ==
    ASSUME SystemAssumption
    PROVE  MCSpec => MeasuresWaitTheirTurn
<1>1. ASSUME SystemInv, [MCNext]_allVars
      PROVE  [\A i \in 1..3 :
                 ppc' = <<"close", "term", "kill">>[i] /\ ppc # ppc'
                    => \A j \in 1..i : elapsed >= waits[j]]_(Proc!processVars)
  <2>1. ProcInv /\ [Proc!Next]_processVars /\ ProcAssumption
    BY <1>1, OneSubjectMoves DEF SystemInv, SystemAssumption
  <2>2. QED  BY <2>1, MeasureIsDue
<1>2. QED
  BY <1>1, SystemInvHolds, PTL DEF MCSpec, MeasuresWaitTheirTurn, Proc!MeasuresWaitTheirTurn

\* The stream that goes to a file is like one in memory whatever else there is.
THEOREM TempFileImplementsStreamInTheSystem ==
    ASSUME SystemAssumption
    PROVE  MCSpec => TempFileIsStream
<1>1. MCInit => Temp!Stream!Init
  BY TempInvHolds DEF MCInit, SystemAssumption
<1>2. SystemInv /\ [MCNext]_allVars => [Temp!Stream!Next]_(Temp!Stream!streamVars)
  BY TempInvHolds, OneSubjectMoves DEF SystemInv, SystemAssumption
<1>3. QED
  BY <1>1, <1>2, SystemInvHolds, PTL
     DEF MCSpec, TempFileIsStream, Temp!ImplementsStream, Temp!Stream!Spec
=============================================================================
