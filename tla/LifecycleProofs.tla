--------------------------- MODULE LifecycleProofs ---------------------------
(***************************************************************************)
(* Proofs about LazyGlobal and GlobalPtr, Thread and WaitpidThreadFix,     *)
(* under the names that MCThreads gives them, and about MCThreads itself:  *)
(* whatever component moves, each keeps its types and its promise.         *)
(***************************************************************************)
EXTENDS ThreadsProofs, Sequences, SequenceTheorems

(***************************************************************************)
(* LazyGlobal and GlobalPtr                                                *)
(***************************************************************************)
\* Who is between the second look at the flag and the unlocking.
InsideOnce(t) == gpc[t] \in {"create", "setFlag", "unlock"}

\* Nothing lives, and nobody can see anything; or one object does, and everybody sees it.
NothingMade == flag = 0 /\ m_p = 0 /\ deleted = 1..created
LivesAlone(n) == n \in 1..created /\ deleted = (1..created) \ {n}
EverybodySees == flag = 1 /\ LivesAlone(m_p)

\* The two stores on their way, in the order in which they are made.
PtrStore  == [var |-> "m_p", value |-> created]
FlagStore == [var |-> "flag", value |-> 1]

\* What the holder of the mutex has done so far, and what of that others see.
OnceProgress ==
    /\ (\A t \in holder : gpc[t] \notin {"setFlag", "unlock"})
          => pending = <<>> /\ (NothingMade \/ EverybodySees)
    /\ \A t \in holder :
          /\ gpc[t] = "create" => NothingMade
          /\ gpc[t] = "setFlag" =>
                /\ flag = 0 /\ LivesAlone(created)
                /\ \/ pending = <<PtrStore>> /\ m_p = 0
                   \/ pending = <<>> /\ m_p = created
          /\ gpc[t] = "unlock" =>
                /\ LivesAlone(created)
                /\ \/ pending = <<PtrStore, FlagStore>> /\ m_p = 0 /\ flag = 0
                   \/ pending = <<FlagStore>> /\ m_p = created /\ flag = 0
                   \/ pending = <<>> /\ m_p = created /\ flag = 1

OnceInv ==
    /\ flag \in {0, 1} /\ created \in 0..MaxObjects
    /\ gpc \in [ThreadSet ->
                  {"idle", "check", "lock", "create", "setFlag", "unlock", "read"}]
    /\ got \in [ThreadSet -> 0..MaxObjects]
    /\ holder = {t \in ThreadSet : InsideOnce(t)}
    /\ \A t, u \in holder : t = u
    /\ OnceProgress
    /\ \A t \in ThreadSet : /\ gpc[t] = "read" => flag = 1
                            /\ got[t] # 0 => flag = 1 /\ got[t] = m_p

\* The cardinality that the two count with is that of everybody else.
LEMMA OnceSizes ==
    ASSUME NEW S
    PROVE  Lazy!Cardinality(S) = Cardinality(S) /\ Global!Cardinality(S) = Cardinality(S)
<1>1. Lazy!Cardinality(S) = Cardinality(S)
  BY DEF Lazy!Cardinality, Cardinality
<1>2. Global!Cardinality(S) = Cardinality(S)
  BY DEF Global!Cardinality, Cardinality
<1>3. QED  BY <1>1, <1>2

\* SetFlag() makes the second store after the first.
LEMMA SecondStore ==
    ASSUME NEW a, NEW b
    PROVE  Append(<<a>>, b) = <<a, b>>
<1> DEFINE s == Append(<<a>>, b)
           t == <<a, b>>
<1>1. /\ <<a>> \in Seq({a, b}) /\ Len(<<a>>) = 1
      /\ t \in Seq({a, b}) /\ Len(t) = 2 /\ t[1] = a /\ t[2] = b
  OBVIOUS
<1>2. s \in Seq({a, b}) /\ Len(s) = 2 /\ s[1] = a /\ s[2] = b
  BY <1>1, AppendProperties
<1>3. \A i \in 1..Len(s) : s[i] = t[i]
  BY <1>1, <1>2
<1> HIDE DEF s, t
<1>4. s = t
  BY <1>1, <1>2, <1>3, SeqEqual
<1>5. QED  BY <1>4 DEF s, t

\* Only the holder of the mutex is inside, and what it has stored is known.
LEMMA InsideAlone ==
    ASSUME OnceInv, NEW t \in ThreadSet, InsideOnce(t)
    PROVE  /\ holder = {t}
           /\ \A u \in ThreadSet : InsideOnce(u) => u = t
  BY DEF OnceInv

\* While nobody has made the object, no store is on its way.
LEMMA NothingPending ==
    ASSUME OnceInv, \A t \in ThreadSet : gpc[t] \notin {"setFlag", "unlock"}
    PROVE  pending = <<>> /\ (NothingMade \/ EverybodySees)
  BY DEF OnceInv, OnceProgress

\* The pointer that others see is null or an object.
LEMMA PtrIsANumber ==
    ASSUME OnceInv, MaxObjects \in Nat
    PROVE  m_p \in 0..MaxObjects
<1>1. CASE \A t \in holder : gpc[t] \notin {"setFlag", "unlock"}
  <2>1. NothingMade \/ EverybodySees
    BY <1>1 DEF OnceInv, OnceProgress
  <2>2. QED  BY <2>1 DEF OnceInv, NothingMade, EverybodySees, LivesAlone
<1>2. ASSUME NEW t \in holder, gpc[t] \in {"setFlag", "unlock"}  PROVE m_p \in {0, created}
  BY <1>2 DEF OnceInv, OnceProgress
<1>3. created \in 0..MaxObjects
  BY DEF OnceInv
<1>4. QED  BY <1>1, <1>2, <1>3

\* Steps outside the mutex, and the lock itself: what is made and seen stays as it is.
LEMMA OutsideKeepsOnce ==
    ASSUME OnceInv, MaxObjects \in Nat, NEW t \in ThreadSet,
           Lazy!CallGet(t) \/ Lazy!FirstCheck(t) \/ Lazy!ReadPtr(t)
    PROVE  OnceInv'
<1>1. /\ UNCHANGED <<flag, m_p, pending, holder, created, deleted>>
      /\ ~InsideOnce(t) /\ ~InsideOnce(t)'
      /\ \A u \in ThreadSet \ {t} : gpc'[u] = gpc[u] /\ got'[u] = got[u]
  BY DEF OnceInv, Lazy!CallGet, Lazy!FirstCheck, Lazy!ReadPtr, InsideOnce
<1>2. t \notin holder /\ holder' = {u \in ThreadSet : InsideOnce(u)'}
  BY <1>1 DEF OnceInv, InsideOnce
<1>3. OnceProgress'
  BY <1>1, <1>2 DEF OnceInv, OnceProgress, NothingMade, EverybodySees, LivesAlone, PtrStore,
     FlagStore
<1>4. m_p \in 0..MaxObjects
  BY PtrIsANumber
<1>5. gpc' \in [ThreadSet -> {"idle", "check", "lock", "create", "setFlag", "unlock", "read"}]
  BY DEF OnceInv, Lazy!CallGet, Lazy!FirstCheck, Lazy!ReadPtr
<1>6. /\ got' \in [ThreadSet -> 0..MaxObjects]
      /\ got'[t] # 0 => flag = 1 /\ got'[t] = m_p
      /\ gpc'[t] = "read" => flag = 1
  <2>1. CASE Lazy!CallGet(t)
    BY <2>1 DEF OnceInv, Lazy!CallGet
  <2>2. CASE Lazy!FirstCheck(t)
    BY <2>2 DEF OnceInv, Lazy!FirstCheck
  <2>3. CASE Lazy!ReadPtr(t)
    BY <1>4, <2>3 DEF OnceInv, Lazy!ReadPtr
  <2>4. QED  BY <2>1, <2>2, <2>3
<1>7. \A u \in ThreadSet : /\ gpc'[u] = "read" => flag' = 1
                          /\ got'[u] # 0 => flag' = 1 /\ got'[u] = m_p'
  BY <1>1, <1>6 DEF OnceInv
<1>8. QED  BY <1>1, <1>2, <1>3, <1>5, <1>6, <1>7 DEF OnceInv

\* The first to get the mutex finds nothing made; a later one, that there is an object.
LEMMA LockKeepsOnce ==
    ASSUME OnceInv, NEW t \in ThreadSet, Lazy!LockAndCheck(t)
    PROVE  OnceInv'
<1>1. /\ UNCHANGED <<flag, m_p, pending, got, created, deleted>>
      /\ holder = {} /\ gpc[t] = "lock" /\ gpc' = [gpc EXCEPT ![t] = gpc'[t]]
      /\ \/ flag = 0 /\ gpc'[t] = "create" /\ holder' = {t}
         \/ flag = 1 /\ gpc'[t] = "read" /\ holder' = {}
  BY DEF OnceInv, Lazy!LockAndCheck
<1>2. pending = <<>> /\ (NothingMade \/ EverybodySees)
  BY <1>1 DEF OnceInv, OnceProgress
<1>3. OnceProgress'
  BY <1>1, <1>2 DEF OnceProgress, NothingMade, EverybodySees, LivesAlone
<1>4. holder' = {u \in ThreadSet : InsideOnce(u)'}
  BY <1>1 DEF OnceInv, InsideOnce
<1>5. QED  BY <1>1, <1>3, <1>4 DEF OnceInv

\* The holder makes the object, or fails to; sets the flag; and unlocks.
LEMMA InsideKeepsOnce ==
    ASSUME OnceInv, MaxObjects \in Nat, NEW t \in ThreadSet,
           \/ Lazy!Create(t) \/ Lazy!CreateThrows(t)
           \/ Lazy!SetFlag(t) \/ Lazy!Unlock(t)
    PROVE  OnceInv'
<1>1. /\ InsideOnce(t) /\ holder = {t}
      /\ \A u \in ThreadSet : InsideOnce(u) => u = t
      /\ gpc' = [gpc EXCEPT ![t] = gpc'[t]] /\ got' = got
  BY InsideAlone DEF OnceInv, InsideOnce, Lazy!Create, Lazy!CreateThrows, Lazy!SetFlag,
     Lazy!Unlock
<1>2. CASE Lazy!Create(t)
  <2>1. /\ gpc[t] = "create" /\ gpc'[t] = "setFlag" /\ created' = created + 1
        /\ created < MaxObjects /\ UNCHANGED <<flag, m_p, holder, deleted>>
        /\ pending' = Append(pending, [var |-> "m_p", value |-> created'])
    BY <1>1, <1>2 DEF Lazy!Create, OnceInv
  <2>2. pending = <<>> /\ NothingMade /\ created \in Nat
    BY <1>1, <2>1 DEF OnceInv, OnceProgress
  <2>3. pending' = <<PtrStore'>>
    BY <2>1, <2>2 DEF PtrStore
  <2>4. LivesAlone(created)' /\ flag' = 0 /\ m_p' = 0
    BY <2>1, <2>2 DEF NothingMade, LivesAlone
  <2>5. OnceProgress'
    BY <1>1, <2>1, <2>3, <2>4 DEF OnceProgress
  <2>6. holder' = {u \in ThreadSet : InsideOnce(u)'}
    BY <1>1, <2>1 DEF OnceInv, InsideOnce
  <2>7. QED  BY <1>1, <2>1, <2>2, <2>5, <2>6 DEF OnceInv, NothingMade
<1>3. CASE Lazy!CreateThrows(t)
  <2>1. /\ gpc[t] = "create" /\ gpc'[t] = "idle" /\ holder' = {}
        /\ UNCHANGED <<flag, m_p, pending, created, deleted>>
    BY <1>1, <1>3 DEF Lazy!CreateThrows, OnceInv
  <2>2. pending = <<>> /\ NothingMade
    BY <1>1, <2>1 DEF OnceInv, OnceProgress
  <2>3. OnceProgress'
    BY <2>1, <2>2 DEF OnceProgress, NothingMade
  <2>4. holder' = {u \in ThreadSet : InsideOnce(u)'}
    BY <1>1, <2>1 DEF OnceInv, InsideOnce
  <2>5. QED  BY <1>1, <2>1, <2>3, <2>4 DEF OnceInv
<1>4. CASE Lazy!SetFlag(t)
  <2>1. /\ gpc[t] = "setFlag" /\ gpc'[t] = "unlock"
        /\ pending' = Append(pending, FlagStore)
        /\ UNCHANGED <<flag, m_p, holder, created, deleted>>
    BY <1>1, <1>4 DEF Lazy!SetFlag, FlagStore, OnceInv
  <2>2. /\ flag = 0 /\ LivesAlone(created)
        /\ \/ pending = <<PtrStore>> /\ m_p = 0
           \/ pending = <<>> /\ m_p = created
    BY <1>1, <2>1 DEF OnceInv, OnceProgress
  <2>3. \/ pending' = <<PtrStore, FlagStore>> /\ m_p = 0
        \/ pending' = <<FlagStore>> /\ m_p = created
    <3>1. /\ Append(<<PtrStore>>, FlagStore) = <<PtrStore, FlagStore>>
          /\ Append(<<>>, FlagStore) = <<FlagStore>>
      BY SecondStore
    <3>2. QED  BY <2>1, <2>2, <3>1
  <2>4. PtrStore' = PtrStore /\ FlagStore' = FlagStore /\ LivesAlone(created)'
    BY <2>1, <2>2 DEF PtrStore, FlagStore, LivesAlone
  <2>5. OnceProgress'
    BY <1>1, <2>1, <2>2, <2>3, <2>4 DEF OnceProgress
  <2>6. holder' = {u \in ThreadSet : InsideOnce(u)'}
    BY <1>1, <2>1 DEF OnceInv, InsideOnce
  <2>7. QED  BY <1>1, <2>1, <2>5, <2>6 DEF OnceInv
<1>5. CASE Lazy!Unlock(t)
  <2>1. /\ gpc[t] = "unlock" /\ gpc'[t] = "read" /\ holder' = {} /\ pending = <<>>
        /\ UNCHANGED <<flag, m_p, pending, created, deleted>>
    BY <1>1, <1>5 DEF Lazy!Unlock, OnceInv
  <2>2. EverybodySees
    <3>1. /\ LivesAlone(created)
          /\ pending = <<>> => m_p = created /\ flag = 1
      BY <1>1, <2>1 DEF OnceInv, OnceProgress
    <3>2. QED  BY <2>1, <3>1 DEF EverybodySees
  <2>3. OnceProgress' /\ flag' = 1
    BY <2>1, <2>2 DEF OnceProgress, EverybodySees, LivesAlone
  <2>4. holder' = {u \in ThreadSet : InsideOnce(u)'}
    BY <1>1, <2>1 DEF OnceInv, InsideOnce
  <2>5. QED  BY <1>1, <2>1, <2>3, <2>4 DEF OnceInv
<1>6. QED  BY <1>2, <1>3, <1>4, <1>5

\* The first of one or two stores has become visible.
LEMMA FirstStoreLeaves ==
    ASSUME NEW a, NEW b
    PROVE  Lazy!RemoveAt(<<a>>, 1) = <<>> /\ Lazy!RemoveAt(<<a, b>>, 1) = <<b>>
<1>1. ASSUME NEW s \in Seq({a, b}), s # <<>>  PROVE Lazy!RemoveAt(s, 1) = Tail(s)
  <2>1. Len(s) \in Nat \ {0}
    BY <1>1, EmptySeq
  <2>2. SubSeq(s, 1, 0) = <<>>
    BY <1>1, SubSeqEmpty
  <2>3. Tail(s) = SubSeq(s, 2, Len(s)) /\ Tail(s) \in Seq({a, b})
    BY <1>1, TailIsSubSeq, HeadTailProperties
  <2>4. <<>> \o Tail(s) = Tail(s)
    BY <2>3, ConcatEmptySeq
  <2>5. QED  BY <2>1, <2>2, <2>3, <2>4 DEF Lazy!RemoveAt
<1>2. <<a>> \in Seq({a, b}) /\ <<a>> # <<>> /\ <<a, b>> \in Seq({a, b}) /\ <<a, b>> # <<>>
  OBVIOUS
<1>3. Tail(<<a>>) = <<>> /\ Tail(<<a, b>>) = <<b>>
  OBVIOUS
<1>4. QED  BY <1>1, <1>2, <1>3

\* A store of the holder reaches the others: the pointer first, then the flag.
LEMMA StoreKeepsOnce ==
    ASSUME OnceInv, MaxObjects \in Nat, Lazy!StoreBecomesVisible
    PROVE  OnceInv'
<1>1. /\ 1 \in 1..Len(pending)
      /\ flag' = IF pending[1].var = "flag" THEN pending[1].value ELSE flag
      /\ m_p' = IF pending[1].var = "m_p" THEN pending[1].value ELSE m_p
      /\ pending' = Lazy!RemoveAt(pending, 1)
      /\ UNCHANGED <<holder, gpc, got, created, deleted>>
  BY DEF Lazy!StoreBecomesVisible
<1>2. pending # <<>>
  BY <1>1
<1>3. PICK t \in holder : gpc[t] \in {"setFlag", "unlock"}
  BY <1>2 DEF OnceInv, OnceProgress
<1>4. t \in ThreadSet /\ InsideOnce(t) /\ holder = {t}
  BY <1>3, InsideAlone DEF OnceInv
<1>5. /\ PtrStore.var = "m_p" /\ PtrStore.value = created
      /\ FlagStore.var = "flag" /\ FlagStore.value = 1
      /\ PtrStore' = PtrStore /\ FlagStore' = FlagStore
      /\ LivesAlone(created)' <=> LivesAlone(created)
  BY <1>1 DEF PtrStore, FlagStore, LivesAlone
<1>6. LivesAlone(created) /\ flag = 0
  BY <1>2, <1>3 DEF OnceInv, OnceProgress
<1>7. \/ gpc[t] = "setFlag" /\ pending = <<PtrStore>>
      \/ gpc[t] = "unlock" /\ pending = <<PtrStore, FlagStore>>
      \/ gpc[t] = "unlock" /\ pending = <<FlagStore>> /\ m_p = created
  BY <1>2, <1>3 DEF OnceInv, OnceProgress
<1>8. OnceProgress' /\ flag' \in {0, 1}
  <2>1. CASE gpc[t] = "setFlag" /\ pending = <<PtrStore>>
    <3>1. pending[1] = PtrStore /\ Lazy!RemoveAt(pending, 1) = <<>>
      BY <2>1, FirstStoreLeaves
    <3>2. pending' = <<>> /\ m_p' = created /\ flag' = 0
      BY <1>1, <1>5, <1>6, <3>1
    <3>3. QED  BY <1>1, <1>4, <1>5, <1>6, <2>1, <3>2 DEF OnceProgress
  <2>2. CASE gpc[t] = "unlock" /\ pending = <<PtrStore, FlagStore>>
    <3>1. pending[1] = PtrStore /\ Lazy!RemoveAt(pending, 1) = <<FlagStore>>
      BY <2>2, FirstStoreLeaves
    <3>2. pending' = <<FlagStore>> /\ m_p' = created /\ flag' = 0
      BY <1>1, <1>5, <1>6, <3>1
    <3>3. QED  BY <1>1, <1>4, <1>5, <1>6, <2>2, <3>2 DEF OnceProgress
  <2>3. CASE gpc[t] = "unlock" /\ pending = <<FlagStore>> /\ m_p = created
    <3>1. pending[1] = FlagStore /\ Lazy!RemoveAt(pending, 1) = <<>>
      BY <2>3, FirstStoreLeaves
    <3>2. pending' = <<>> /\ m_p' = created /\ flag' = 1
      BY <1>1, <1>5, <1>6, <2>3, <3>1
    <3>3. QED  BY <1>1, <1>4, <1>5, <1>6, <2>3, <3>2 DEF OnceProgress
  <2>4. QED  BY <1>7, <2>1, <2>2, <2>3
<1>9. \A u \in ThreadSet : gpc[u] # "read" /\ got[u] = 0
  BY <1>6 DEF OnceInv
<1>10. holder' = {u \in ThreadSet : InsideOnce(u)'}
  BY <1>1 DEF OnceInv, InsideOnce
<1>11. QED  BY <1>1, <1>8, <1>9, <1>10 DEF OnceInv

\* The destructor of LazyGlobal, and GlobalPtr's set(), find nobody inside.
LEMMA ReplacingKeepsOnce ==
    ASSUME OnceInv, MaxObjects \in Nat, Lazy!Destruct \/ Global!Set
    PROVE  OnceInv'
<1>1. /\ \A t \in ThreadSet : gpc[t] = "idle"
      /\ UNCHANGED <<pending, holder, gpc>> /\ got' = [t \in ThreadSet |-> 0]
  BY DEF Lazy!Destruct, Global!Set, Lazy!NobodyInside, Global!NobodyInside
<1>2. holder = {} /\ pending = <<>> /\ (NothingMade \/ EverybodySees) /\ created \in Nat
  BY <1>1, NothingPending DEF OnceInv, InsideOnce
<1>3. CASE Lazy!Destruct
  <2>1. /\ flag' = 0 /\ m_p' = 0 /\ created' = created
        /\ deleted' = deleted \cup ({m_p} \ {0})
    BY <1>3 DEF Lazy!Destruct
  <2>2. deleted' = 1..created
    BY <1>2, <2>1 DEF NothingMade, EverybodySees, LivesAlone
  <2>3. NothingMade'
    BY <2>1, <2>2 DEF NothingMade
  <2>4. QED  BY <1>1, <1>2, <2>1, <2>3 DEF OnceInv, OnceProgress, InsideOnce
<1>4. CASE Global!Set
  <2>1. /\ flag \in {0, 1} /\ flag' = 1 /\ created' = created + 2 - flag /\ m_p' = created'
        /\ created + 1 - flag < MaxObjects
        /\ deleted' = deleted \cup {IF flag = 1 THEN m_p ELSE created + 1}
    BY <1>4 DEF Global!Set, OnceInv
  <2>2. LivesAlone(m_p)'
    <3>1. CASE NothingMade
      BY <1>2, <2>1, <3>1 DEF NothingMade, LivesAlone
    <3>2. CASE EverybodySees
      BY <1>2, <2>1, <3>2 DEF EverybodySees, LivesAlone
    <3>3. QED  BY <1>2, <3>1, <3>2
  <2>3. EverybodySees' /\ created' \in 0..MaxObjects
    BY <1>2, <2>1, <2>2 DEF EverybodySees
  <2>4. QED  BY <1>1, <1>2, <2>1, <2>3 DEF OnceInv, OnceProgress, InsideOnce
<1>5. QED  BY <1>3, <1>4

\* The two classes are made of the same callOnce().
LEMMA SameOnce ==
    /\ \A t \in ThreadSet : /\ Global!CallGet(t) <=> Lazy!CallGet(t)
                            /\ Global!GetStep(t) <=> Lazy!GetStep(t)
    /\ Global!StoreBecomesVisible <=> Lazy!StoreBecomesVisible
    /\ ~Lazy!Set /\ ~Global!Destruct
    /\ Global!Init <=> Lazy!Init
<1>1. ASSUME NEW t \in ThreadSet
      PROVE  /\ Global!CallGet(t) <=> Lazy!CallGet(t)
             /\ Global!GetStep(t) <=> Lazy!GetStep(t)
  BY DEF Global!CallGet, Lazy!CallGet, Global!GetStep, Lazy!GetStep, Global!FirstCheck,
     Lazy!FirstCheck, Global!LockAndCheck, Lazy!LockAndCheck, Global!Create, Lazy!Create,
     Global!CreateThrows, Lazy!CreateThrows, Global!SetFlag, Lazy!SetFlag, Global!Unlock,
     Lazy!Unlock, Global!ReadPtr, Lazy!ReadPtr
<1>2. Global!StoreBecomesVisible <=> Lazy!StoreBecomesVisible
  BY DEF Global!StoreBecomesVisible, Lazy!StoreBecomesVisible, Global!RemoveAt, Lazy!RemoveAt
<1>3. ~Lazy!Set /\ ~Global!Destruct
  BY DEF Lazy!Set, Global!Destruct
<1>4. Global!Init <=> Lazy!Init
  BY DEF Global!Init, Lazy!Init
<1>5. QED  BY <1>1, <1>2, <1>3, <1>4

\* Before the first get() nothing is made, and every step of either class keeps the
\* invariant.
LEMMA OnceInvHolds ==
    ASSUME MaxObjects \in Nat
    PROVE  /\ Lazy!Init => OnceInv
           /\ OnceInv /\ ([Lazy!Next]_onceVars \/ [Global!Next]_onceVars) => OnceInv'
<1>1. ASSUME Lazy!Init  PROVE OnceInv
  <2>1. NothingMade
    BY <1>1 DEF Lazy!Init, NothingMade
  <2>2. holder = {t \in ThreadSet : InsideOnce(t)}
    BY <1>1 DEF Lazy!Init, InsideOnce
  <2>3. OnceProgress
    BY <1>1, <2>1 DEF Lazy!Init, OnceProgress
  <2>4. QED  BY <1>1, <2>2, <2>3 DEF Lazy!Init, OnceInv
<1>2. SUFFICES ASSUME OnceInv, [Lazy!Next]_onceVars \/ [Global!Next]_onceVars
               PROVE  OnceInv'
  BY <1>1
<1>3. CASE UNCHANGED onceVars
  <2>1. OnceProgress'
    BY <1>2, <1>3 DEF onceVars, OnceInv, OnceProgress, NothingMade, EverybodySees, LivesAlone,
       PtrStore, FlagStore
  <2>2. QED  BY <1>2, <1>3, <2>1 DEF onceVars, OnceInv, InsideOnce
<1>4. ASSUME NEW t \in ThreadSet, Lazy!CallGet(t) \/ Lazy!GetStep(t)  PROVE OnceInv'
  BY <1>2, <1>4, OutsideKeepsOnce, LockKeepsOnce, InsideKeepsOnce DEF Lazy!GetStep
<1>5. ASSUME Lazy!Next  PROVE OnceInv'
  BY <1>2, <1>4, <1>5, StoreKeepsOnce, ReplacingKeepsOnce, SameOnce DEF Lazy!Next
<1>6. ASSUME Global!Next  PROVE OnceInv'
  BY <1>2, <1>4, <1>6, StoreKeepsOnce, ReplacingKeepsOnce, SameOnce DEF Global!Next
<1>7. QED  BY <1>2, <1>3, <1>5, <1>6 DEF onceVars

\* One object at most is created and not deleted, and it is what get() returns.
LEMMA OnceInvMeans ==
    ASSUME MaxObjects \in Nat, OnceInv
    PROVE  Lazy!TypeOK /\ Global!TypeOK /\ OneLiveObject
<1>1. \/ deleted = 1..created
      \/ \E n \in 1..created : deleted = (1..created) \ {n}
  BY DEF OnceInv, OnceProgress, NothingMade, EverybodySees, LivesAlone
<1>2. 1..created \ deleted = {} \/ \E n \in 1..created : 1..created \ deleted = {n}
  BY <1>1
<1>3. Cardinality(1..created \ deleted) <= 1
  <2>1. CASE 1..created \ deleted = {}
    BY <2>1, FS_EmptySet
  <2>2. ASSUME NEW n, 1..created \ deleted = {n}  PROVE Cardinality(1..created \ deleted) = 1
    BY <2>2, FS_Singleton
  <2>3. QED  BY <1>2, <2>1, <2>2
<1>4. flag = 1 => m_p # 0 /\ m_p \notin deleted
  <2>1. SUFFICES ASSUME flag = 1  PROVE LivesAlone(m_p)
    BY DEF LivesAlone, OnceInv
  <2>2. CASE \A t \in holder : gpc[t] \notin {"setFlag", "unlock"}
    BY <2>1, <2>2 DEF OnceInv, OnceProgress, NothingMade, EverybodySees
  <2>3. ASSUME NEW t \in holder, gpc[t] \in {"setFlag", "unlock"}  PROVE LivesAlone(m_p)
    BY <2>1, <2>3 DEF OnceInv, OnceProgress, LivesAlone
  <2>4. QED  BY <2>2, <2>3
<1>5. Lazy!GetsTheObject
  BY <1>4 DEF OnceInv, Lazy!GetsTheObject
<1>6. Lazy!OneObject
  BY <1>3, OnceSizes DEF Lazy!OneObject
<1>7. pending \in Seq(Lazy!Stores) /\ Len(pending) <= 2 /\ deleted \subseteq 1..MaxObjects
  <2>1. deleted \subseteq 1..MaxObjects
    BY <1>1 DEF OnceInv
  <2>2. \/ /\ created \in Nat
           /\ created \in 0..MaxObjects
           /\ 1 \in 0..MaxObjects
        \/ pending = <<>>
    <3>1. CASE \A t \in holder : gpc[t] \notin {"setFlag", "unlock"}
      BY <3>1 DEF OnceInv, OnceProgress
    <3>2. ASSUME NEW t \in holder, gpc[t] \in {"setFlag", "unlock"}  PROVE created # 0
      BY <3>2 DEF OnceInv, OnceProgress, LivesAlone
    <3>3. QED  BY <3>1, <3>2 DEF OnceInv
  <2>3. pending = <<>> \/ (PtrStore \in Lazy!Stores /\ FlagStore \in Lazy!Stores)
    BY <2>2 DEF PtrStore, FlagStore, Lazy!Stores
  <2>4. \/ pending = <<>> \/ pending = <<PtrStore>> \/ pending = <<FlagStore>>
        \/ pending = <<PtrStore, FlagStore>>
    <3>1. CASE \A t \in holder : gpc[t] \notin {"setFlag", "unlock"}
      BY <3>1 DEF OnceInv, OnceProgress
    <3>2. ASSUME NEW t \in holder, gpc[t] \in {"setFlag", "unlock"}
          PROVE  \/ pending = <<>> \/ pending = <<PtrStore>> \/ pending = <<FlagStore>>
                 \/ pending = <<PtrStore, FlagStore>>
      BY <3>2 DEF OnceInv, OnceProgress
    <3>3. QED  BY <3>1, <3>2
  <2>5. CASE pending = <<>>
    <3>1. <<>> \in Seq(Lazy!Stores) /\ Len(<<>>) = 0
      BY EmptySeq
    <3>2. QED  BY <2>1, <2>5, <3>1
  <2>6. ASSUME NEW a \in Lazy!Stores, NEW b \in Lazy!Stores
        PROVE  /\ <<a>> \in Seq(Lazy!Stores) /\ Len(<<a>>) = 1
               /\ <<a, b>> \in Seq(Lazy!Stores) /\ Len(<<a, b>>) = 2
    OBVIOUS
  <2>7. CASE pending # <<>>
    <3>1. PtrStore \in Lazy!Stores /\ FlagStore \in Lazy!Stores
      BY <2>3, <2>7
    <3>2. /\ <<PtrStore>> \in Seq(Lazy!Stores) /\ Len(<<PtrStore>>) = 1
          /\ <<FlagStore>> \in Seq(Lazy!Stores) /\ Len(<<FlagStore>>) = 1
          /\ <<PtrStore, FlagStore>> \in Seq(Lazy!Stores)
          /\ Len(<<PtrStore, FlagStore>>) = 2
      BY <2>6, <3>1
    <3>3. pending \in Seq(Lazy!Stores) /\ Len(pending) <= 2
      <4>1. \/ pending \in Seq(Lazy!Stores) /\ Len(pending) = 1
            \/ pending \in Seq(Lazy!Stores) /\ Len(pending) = 2
        BY <2>4, <2>7, <3>2, Zenon
      <4>2. \A n \in {1, 2} : n <= 2
        OBVIOUS
      <4>3. QED  BY <4>1, <4>2, Zenon
    <3>4. QED  BY <2>1, <3>3, Zenon
  <2>8. QED  BY <2>5, <2>7
<1>8. holder \subseteq ThreadSet /\ Cardinality(holder) <= 1
  <2>1. holder = {} \/ \E t \in ThreadSet : holder = {t}
    BY DEF OnceInv
  <2>2. QED  BY <2>1, FS_EmptySet, FS_Singleton
<1>9. m_p \in 0..MaxObjects
  BY PtrIsANumber
<1>10. Lazy!TypeOK /\ Global!TypeOK
  BY <1>7, <1>8, <1>9, OnceSizes DEF OnceInv, Lazy!TypeOK, Global!TypeOK, Global!Stores,
     Lazy!Stores
<1>11. QED  BY <1>5, <1>6, <1>10 DEF OneLiveObject

\* However many threads race for the first get() and however often the factory throws, a
\* LazyGlobal and a GlobalPtr have one live object at most, and get() returns it:
\* where stores are seen in the order in which they are made.
THEOREM OneObjectLives ==
    ASSUME MaxObjects \in Nat
    PROVE  /\ Lazy!Spec => []OneLiveObject
           /\ Global!Spec => []OneLiveObject
<1>1. OnceInv => OneLiveObject
  BY OnceInvMeans
<1>2. Lazy!Init => OnceInv
  BY OnceInvHolds
<1>3. Global!Init => OnceInv
  BY <1>2, SameOnce
<1>4. OnceInv /\ [Lazy!Next]_onceVars => OnceInv'
  BY OnceInvHolds
<1>5. OnceInv /\ [Global!Next]_onceVars => OnceInv'
  BY OnceInvHolds
<1>6. Lazy!Spec => []OneLiveObject
  BY <1>1, <1>2, <1>4, PTL DEF Lazy!Spec, Lazy!onceVars, onceVars
<1>7. Global!Spec => []OneLiveObject
  BY <1>1, <1>3, <1>5, PTL DEF Global!Spec, Global!onceVars, onceVars
<1>8. QED  BY <1>6, <1>7

(***************************************************************************)
(* Thread                                                                  *)
(***************************************************************************)
\* Where the owner and the thread may be at the same time: each knows of the other by the
\* barrier of start() only.
StartInStep ==
    /\ opc = "new" => tpc = "none" /\ ~m_id
    /\ opc = "creating" => tpc \in {"begins", "barrier", "ended early"}
    /\ opc = "barrier" => tpc # "none" /\ m_id
    /\ opc = "started" => tpc \notin {"none", "begins", "ended early"} /\ m_id
    /\ opc = "gone" => tpc \in {"none", "ended"}

\* m_isRunning is set by the thread when it begins, and whoever kills the thread clears
\* it unless that is still to come.
RunningIsKnown ==
    /\ m_isRunning => tpc \in {"barrier", "runs", "done", "ended"} /\ opc # "gone"
    /\ m_isRunning /\ (killed \/ tpc = "ended") => \E c \in Callers : ctl[c] = "cancel"

\* Controllers call only an object that is there, and has been started.
ControllersInTime ==
    /\ opc # "started" => \A c \in Callers : ctl[c] = "idle"
    /\ killed => opc \in {"started", "gone"}

\* The callback comes last, and once.
CallbackInv ==
    /\ tpc # "ended" => notified = 0
    /\ tpc = "ended" => \/ notified = 1
                        \/ notified = 0 /\ ending = "killed"

ThreadInv ==
    /\ Thr!TypeOK
    /\ StartInStep /\ RunningIsKnown /\ ControllersInTime /\ CallbackInv
    /\ Thr!NobodySleepsThroughTheEnd /\ blocked \cap stateLate = {}

\* The owner: start(), in its three steps, and the destructor.
LEMMA OwnerKeepsLife ==
    ASSUME ThreadInv,
           \/ Thr!StartCreates \/ Thr!StartFails \/ Thr!StartStoresId \/ Thr!StartReturns
           \/ Thr!Destruct
    PROVE  ThreadInv'
<1>1. CASE Thr!StartCreates
  BY <1>1 DEF Thr!StartCreates, ThreadInv, Thr!TypeOK, StartInStep, RunningIsKnown,
     ControllersInTime, CallbackInv, Thr!NobodySleepsThroughTheEnd, Thr!MustWait, Thr!flags
<1>2. CASE Thr!StartFails
  BY <1>2 DEF Thr!StartFails, ThreadInv, Thr!TypeOK, StartInStep, RunningIsKnown,
     ControllersInTime, CallbackInv, Thr!NobodySleepsThroughTheEnd, Thr!MustWait, Thr!flags
<1>3. CASE Thr!StartStoresId
  BY <1>3 DEF Thr!StartStoresId, ThreadInv, Thr!TypeOK, StartInStep, RunningIsKnown,
     ControllersInTime, CallbackInv, Thr!NobodySleepsThroughTheEnd, Thr!MustWait, Thr!flags
<1>4. CASE Thr!StartReturns
  BY <1>4 DEF Thr!StartReturns, ThreadInv, Thr!TypeOK, StartInStep, RunningIsKnown,
     ControllersInTime, CallbackInv, Thr!NobodySleepsThroughTheEnd, Thr!MustWait, Thr!flags
<1>5. CASE Thr!Destruct
  BY <1>5 DEF Thr!Destruct, ThreadInv, Thr!TypeOK, StartInStep, RunningIsKnown,
     ControllersInTime, CallbackInv, Thr!NobodySleepsThroughTheEnd, Thr!MustWait, Thr!flags
<1>6. QED  BY <1>1, <1>2, <1>3, <1>4, <1>5

\* The thread in threadRunner(), which may be killed wherever run() can be cancelled.
LEMMA RunnerKeepsLife ==
    ASSUME ThreadInv,
           \/ Thr!RunnerBegins \/ Thr!RunnerCannotBegin \/ Thr!RunnerPassesBarrier
           \/ Thr!RunEnds \/ Thr!RunIsKilled \/ Thr!ClearIsRunning \/ Thr!NotifyDone
    PROVE  ThreadInv'
<1>1. CASE Thr!RunnerBegins
  BY <1>1 DEF Thr!RunnerBegins, ThreadInv, Thr!TypeOK, StartInStep, RunningIsKnown,
     ControllersInTime, CallbackInv, Thr!NobodySleepsThroughTheEnd, Thr!MustWait, Thr!flags
<1>2. CASE Thr!RunnerCannotBegin
  BY <1>2 DEF Thr!RunnerCannotBegin, ThreadInv, Thr!TypeOK, StartInStep, RunningIsKnown,
     ControllersInTime, CallbackInv, Thr!NobodySleepsThroughTheEnd, Thr!MustWait, Thr!flags
<1>3. CASE Thr!RunnerPassesBarrier
  BY <1>3 DEF Thr!RunnerPassesBarrier, ThreadInv, Thr!TypeOK, StartInStep, RunningIsKnown,
     ControllersInTime, CallbackInv, Thr!NobodySleepsThroughTheEnd, Thr!MustWait, Thr!flags
<1>4. CASE Thr!RunEnds
  BY <1>4 DEF Thr!RunEnds, ThreadInv, Thr!TypeOK, StartInStep, RunningIsKnown,
     ControllersInTime, CallbackInv, Thr!NobodySleepsThroughTheEnd, Thr!MustWait, Thr!flags
<1>5. CASE Thr!RunIsKilled
  BY <1>5 DEF Thr!RunIsKilled, ThreadInv, Thr!TypeOK, StartInStep, RunningIsKnown,
     ControllersInTime, CallbackInv, Thr!NobodySleepsThroughTheEnd, Thr!MustWait, Thr!flags
<1>6. CASE Thr!ClearIsRunning
  BY <1>6 DEF Thr!ClearIsRunning, ThreadInv, Thr!TypeOK, StartInStep, RunningIsKnown,
     ControllersInTime, CallbackInv, Thr!NobodySleepsThroughTheEnd, Thr!MustWait, Thr!flags
<1>7. CASE Thr!NotifyDone
  <2>1. notified' = 1 /\ tpc = "callback" /\ tpc' = "ended" /\ ~m_isRunning
    BY <1>7 DEF Thr!NotifyDone, ThreadInv, RunningIsKnown, CallbackInv
  <2>2. UNCHANGED <<m_id, m_isRunning, m_joined, m_cancelRequested, m_cancelled, ending, opc,
                    ctl, blocked, stateLate, returned, killed>>
    BY <1>7 DEF Thr!NotifyDone, Thr!flags
  <2>3. Thr!TypeOK' /\ Thr!NobodySleepsThroughTheEnd' /\ blocked' \cap stateLate' = {}
    BY <2>1, <2>2 DEF ThreadInv, Thr!TypeOK, Thr!NobodySleepsThroughTheEnd, Thr!MustWait
  <2>4. StartInStep' /\ RunningIsKnown' /\ ControllersInTime' /\ CallbackInv'
    BY <2>1, <2>2 DEF ThreadInv, Thr!TypeOK, StartInStep, RunningIsKnown, ControllersInTime,
       CallbackInv
  <2>5. QED  BY <2>3, <2>4 DEF ThreadInv
<1>8. QED  BY <1>1, <1>2, <1>3, <1>4, <1>5, <1>6, <1>7

\* A step of the controller c that leaves the thread, its owner and the other controllers
\* alone: c is in this call then, and if it sleeps, for a reason.
ControllerActs(c, call) ==
    /\ UNCHANGED <<m_id, m_isRunning, m_joined, m_cancelled, tpc, ending, opc, killed, notified>>
    /\ m_cancelRequested' \in BOOLEAN
    /\ ctl' = [ctl EXCEPT ![c] = call]
    /\ returned' \in [Callers -> {"nothing", "true", "false"}]
    /\ blocked' \subseteq blocked \cup {c} /\ stateLate' \subseteq stateLate \cup {c}
    /\ c \in blocked' \cup stateLate' => call \in {"timedWait", "awaits end"}
    /\ c \in blocked' => c \notin stateLate' /\ Thr!MustWait(c)'

LEMMA ActingKeepsLife ==
    ASSUME ThreadInv, NEW c \in Callers, opc = "started", ctl[c] # "cancel",
           NEW call \in {"idle", "cooperative", "definitive", "timedWait", "awaits end"},
           ControllerActs(c, call)
    PROVE  ThreadInv'
<1>1. /\ ctl' \in [Callers -> {"idle", "cooperative", "definitive", "timedWait", "awaits end",
                               "cancel"}]
      /\ ctl'[c] = call
      /\ \A d \in Callers \ {c} : ctl'[d] = ctl[d]
  BY DEF ControllerActs, ThreadInv, Thr!TypeOK
<1>2. /\ UNCHANGED <<m_id, m_isRunning, m_joined, m_cancelled, tpc, ending, opc, killed,
                     notified>>
      /\ m_cancelRequested' \in BOOLEAN
      /\ returned' \in [Callers -> {"nothing", "true", "false"}]
  BY DEF ControllerActs
<1>3. \A d \in blocked' \cup stateLate' : d \in Callers /\ ctl'[d] \in {"timedWait", "awaits end"}
  <2>1. /\ \A d \in blocked' \cup stateLate' : d \in blocked \cup stateLate \/ d = c
        /\ c \in blocked' \cup stateLate' => call \in {"timedWait", "awaits end"}
    BY DEF ControllerActs
  <2>2. \A d \in blocked \cup stateLate : d \in Callers /\ ctl[d] \in {"timedWait", "awaits end"}
    BY DEF ThreadInv, Thr!TypeOK
  <2>3. QED  BY <1>1, <2>1, <2>2
<1>4. Thr!TypeOK'
  <2>1. blocked' \cup stateLate' \subseteq
            {d \in Callers : ctl'[d] \in {"timedWait", "awaits end"}}
    BY <1>3
  <2>2. QED  BY <1>1, <1>2, <2>1 DEF ThreadInv, Thr!TypeOK
<1>5. StartInStep' /\ CallbackInv' /\ ControllersInTime'
  BY <1>2 DEF ThreadInv, StartInStep, CallbackInv, ControllersInTime
<1>6. RunningIsKnown'
  BY <1>1, <1>2 DEF ThreadInv, RunningIsKnown
<1>7. \A d \in blocked' : Thr!MustWait(d)' /\ d \notin stateLate'
  <2>1. ASSUME NEW d \in blocked', d # c  PROVE Thr!MustWait(d)' /\ d \notin stateLate'
    <3>1. d \in blocked /\ d \in Callers \ {c} /\ d \notin stateLate'
      BY <1>3, <2>1 DEF ControllerActs, ThreadInv
    <3>2. Thr!MustWait(d)
      BY <3>1 DEF ThreadInv, Thr!NobodySleepsThroughTheEnd
    <3>3. QED  BY <1>1, <1>2, <3>1, <3>2 DEF Thr!MustWait
  <2>2. QED  BY <2>1 DEF ControllerActs
<1>8. QED
  BY <1>4, <1>5, <1>6, <1>7 DEF ThreadInv, Thr!NobodySleepsThroughTheEnd

\* What is known of a controller before it acts.
LEMMA ControllerIsThere ==
    ASSUME ThreadInv, NEW c \in Callers
    PROVE  /\ ctl = [ctl EXCEPT ![c] = ctl[c]]
           /\ ctl[c] \in {"idle", "cooperative", "definitive", "timedWait", "awaits end",
                          "cancel"}
           /\ ctl[c] # "idle" => opc = "started"
           /\ c \in blocked \cup stateLate => ctl[c] \in {"timedWait", "awaits end"}
           /\ c \in blocked => c \notin stateLate /\ Thr!MustWait(c)
           /\ m_cancelRequested \in BOOLEAN
           /\ \A result \in {"nothing", "true", "false"} :
                 [returned EXCEPT ![c] = result] \in [Callers -> {"nothing", "true", "false"}]
           /\ returned \in [Callers -> {"nothing", "true", "false"}]
<1>1. /\ ctl = [ctl EXCEPT ![c] = ctl[c]]
      /\ ctl[c] \in {"idle", "cooperative", "definitive", "timedWait", "awaits end", "cancel"}
  BY DEF ThreadInv, Thr!TypeOK
<1>2. /\ ctl[c] # "idle" => opc = "started"
      /\ c \in blocked => c \notin stateLate /\ Thr!MustWait(c)
  BY DEF ThreadInv, ControllersInTime, Thr!NobodySleepsThroughTheEnd
<1>3. /\ c \in blocked \cup stateLate => ctl[c] \in {"timedWait", "awaits end"}
      /\ m_cancelRequested \in BOOLEAN
      /\ returned \in [Callers -> {"nothing", "true", "false"}]
  BY DEF ThreadInv, Thr!TypeOK
<1>4. QED  BY <1>1, <1>2, <1>3

\* A controller that asks, waits and gives up.
LEMMA ControllerKeepsLife ==
    ASSUME ThreadInv, NEW c \in Callers,
           \/ Thr!DenyCancel(c) \/ Thr!RequestCancel(c) \/ Thr!CallTimedWait(c)
           \/ Thr!BlockOnState(c) \/ Thr!WaitSucceeds(c) \/ Thr!TimeExpires(c)
           \/ Thr!WakeSpuriously(c) \/ Thr!WaitTimesOut(c) \/ Thr!DenyKill(c)
    PROVE  ThreadInv'
<1>1. CASE Thr!DenyCancel(c)
  <2>1. opc = "started" /\ ctl[c] # "cancel"
    BY <1>1, ControllerIsThere DEF Thr!DenyCancel
  <2>2. ControllerActs(c, "idle")
    BY <1>1, ControllerIsThere DEF Thr!DenyCancel, Thr!MustWait, Thr!flags, ControllerActs
  <2>3. QED  BY <2>1, <2>2, ActingKeepsLife
<1>2. CASE Thr!CallTimedWait(c)
  <2>1. opc = "started" /\ ctl[c] # "cancel"
    BY <1>2, ControllerIsThere DEF Thr!CallTimedWait
  <2>2. ControllerActs(c, "timedWait")
    BY <1>2, ControllerIsThere DEF Thr!CallTimedWait, Thr!MustWait, Thr!flags, ControllerActs
  <2>3. QED  BY <2>1, <2>2, ActingKeepsLife
<1>3. CASE Thr!BlockOnState(c)
  <2>1. opc = "started" /\ ctl[c] # "cancel"
    BY <1>3, ControllerIsThere DEF Thr!BlockOnState, Thr!MustWait
  <2>2. ControllerActs(c, ctl[c])
    BY <1>3, ControllerIsThere DEF Thr!BlockOnState, Thr!MustWait, Thr!flags, ControllerActs
  <2>3. ctl[c] \in {"idle", "cooperative", "definitive", "timedWait", "awaits end"}
    BY <2>1, ControllerIsThere
  <2>4. QED  BY <2>1, <2>2, <2>3, ActingKeepsLife
<1>4. CASE Thr!WaitSucceeds(c)
  <2>1. opc = "started" /\ ctl[c] # "cancel"
    BY <1>4, ControllerIsThere DEF Thr!WaitSucceeds
  <2>2. ControllerActs(c, "idle")
    BY <1>4, ControllerIsThere DEF Thr!WaitSucceeds, Thr!MustWait, Thr!flags, ControllerActs
  <2>3. QED  BY <2>1, <2>2, ActingKeepsLife
<1>5. CASE Thr!TimeExpires(c)
  <2>1. opc = "started" /\ ctl[c] # "cancel"
    BY <1>5, ControllerIsThere DEF Thr!TimeExpires, Thr!MustWait
  <2>2. ControllerActs(c, ctl[c])
    BY <1>5, ControllerIsThere DEF Thr!TimeExpires, Thr!MustWait, Thr!flags, ControllerActs
  <2>3. ctl[c] \in {"idle", "cooperative", "definitive", "timedWait", "awaits end"}
    BY <2>1, ControllerIsThere
  <2>4. QED  BY <2>1, <2>2, <2>3, ActingKeepsLife
<1>6. CASE Thr!WakeSpuriously(c)
  <2>1. opc = "started" /\ ctl[c] # "cancel"
    BY <1>6, ControllerIsThere DEF Thr!WakeSpuriously
  <2>2. ControllerActs(c, ctl[c])
    BY <1>6, ControllerIsThere DEF Thr!WakeSpuriously, Thr!MustWait, Thr!flags, ControllerActs
  <2>3. ctl[c] \in {"idle", "cooperative", "definitive", "timedWait", "awaits end"}
    BY <2>1, ControllerIsThere
  <2>4. QED  BY <2>1, <2>2, <2>3, ActingKeepsLife
<1>7. CASE Thr!WaitTimesOut(c)
  <2>1. opc = "started" /\ ctl[c] # "cancel"
    BY <1>7, ControllerIsThere DEF Thr!WaitTimesOut
  <2>2. ControllerActs(c, "idle")
    BY <1>7, ControllerIsThere DEF Thr!WaitTimesOut, Thr!MustWait, Thr!flags, ControllerActs, Thr!GivesUp
  <2>3. QED  BY <2>1, <2>2, ActingKeepsLife
<1>8. CASE Thr!DenyKill(c)
  <2>1. opc = "started" /\ ctl[c] # "cancel"
    BY <1>8, ControllerIsThere DEF Thr!DenyKill, Thr!GivesUp
  <2>2. ControllerActs(c, "idle")
    BY <1>8, ControllerIsThere DEF Thr!DenyKill, Thr!MustWait, Thr!flags, ControllerActs, Thr!GivesUp
  <2>3. QED  BY <2>1, <2>2, ActingKeepsLife
<1>9. CASE Thr!RequestCancel(c)
  <2>1. PICK call \in {"idle", "awaits end"} : ctl' = [ctl EXCEPT ![c] = call]
    BY <1>9 DEF Thr!RequestCancel
  <2>2. opc = "started" /\ ctl[c] # "cancel" /\ c \notin blocked \cup stateLate
    BY <1>9, ControllerIsThere DEF Thr!RequestCancel
  <2>3. ControllerActs(c, call)
    BY <1>9, <2>1, <2>2, ControllerIsThere DEF Thr!RequestCancel, ControllerActs
  <2>4. QED  BY <2>2, <2>3, ActingKeepsLife
<1>10. QED  BY <1>1, <1>2, <1>3, <1>4, <1>5, <1>6, <1>7, <1>8, <1>9

\* The flags of the thread are cleared by a controller, which wakes the others.
LEMMA ClearingKeepsLife ==
    ASSUME ThreadInv, NEW c \in Callers, opc = "started",
           ctl' = [ctl EXCEPT ![c] = "idle"], stateLate' \subseteq stateLate \ {c},
           m_isRunning' = FALSE, m_cancelled' = TRUE, blocked' = {},
           killed' \in {killed, TRUE},
           returned' \in [Callers -> {"nothing", "true", "false"}],
           UNCHANGED <<m_id, m_joined, m_cancelRequested, tpc, ending, opc, notified>>
    PROVE  ThreadInv'
<1>1. /\ ctl' \in [Callers -> {"idle", "cooperative", "definitive", "timedWait", "awaits end",
                               "cancel"}]
      /\ \A d \in Callers \ {c} : ctl'[d] = ctl[d]
  BY DEF ThreadInv, Thr!TypeOK
<1>2. blocked' \cup stateLate' \subseteq
          {d \in Callers : ctl'[d] \in {"timedWait", "awaits end"}}
  <2>1. \A d \in stateLate : d \in Callers /\ ctl[d] \in {"timedWait", "awaits end"}
    BY DEF ThreadInv, Thr!TypeOK
  <2>2. QED  BY <1>1, <2>1
<1>3. killed' \in BOOLEAN /\ m_isRunning' \in BOOLEAN /\ m_cancelled' \in BOOLEAN
  BY DEF ThreadInv, Thr!TypeOK
<1>4. Thr!TypeOK'
  BY <1>1, <1>2, <1>3 DEF ThreadInv, Thr!TypeOK
<1>5. StartInStep' /\ RunningIsKnown' /\ ControllersInTime' /\ CallbackInv'
  BY DEF ThreadInv, StartInStep, RunningIsKnown, ControllersInTime, CallbackInv
<1>6. QED  BY <1>4, <1>5 DEF ThreadInv, Thr!NobodySleepsThroughTheEnd

\* A controller that kills, in one step after its timeout or in two.
LEMMA KillerKeepsLife ==
    ASSUME ThreadInv, NEW c \in Callers,
           \/ Thr!KillAfterTimeout(c) \/ Thr!CancelKills(c) \/ Thr!CancelSetsFlags(c)
    PROVE  ThreadInv'
<1>1. CASE Thr!KillAfterTimeout(c)
  <2>1. /\ opc = "started" /\ ctl[c] = "awaits end"
        /\ ctl' = [ctl EXCEPT ![c] = "idle"] /\ stateLate' = stateLate \ {c}
        /\ returned' \in [Callers -> {"nothing", "true", "false"}]
        /\ UNCHANGED <<m_id, m_joined, m_cancelRequested, tpc, ending, opc, notified>>
    BY <1>1, ControllerIsThere DEF Thr!KillAfterTimeout, Thr!GivesUp
  <2>2. CASE m_isRunning /\ ~m_cancelled
    <3>1. killed' = TRUE /\ m_isRunning' = FALSE /\ m_cancelled' = TRUE /\ blocked' = {}
      BY <1>1, <2>2 DEF Thr!KillAfterTimeout
    <3>2. QED  BY <2>1, <3>1, ClearingKeepsLife
  <2>3. CASE ~(m_isRunning /\ ~m_cancelled)
    <3>1. UNCHANGED <<killed, m_cancelled, m_isRunning, blocked>>
      BY <1>1, <2>3 DEF Thr!KillAfterTimeout
    <3>2. c \notin blocked /\ m_cancelRequested \in BOOLEAN
      BY <2>1, <2>3, ControllerIsThere DEF Thr!MustWait
    <3>3. ControllerActs(c, "idle")
      BY <2>1, <3>1, <3>2 DEF ControllerActs
    <3>4. QED  BY <2>1, <3>3, ActingKeepsLife
  <2>4. QED  BY <2>2, <2>3
<1>2. CASE Thr!CancelKills(c)
  <2>1. /\ opc = "started" /\ ctl[c] = "idle" /\ c \notin blocked \cup stateLate
        /\ ctl' = [ctl EXCEPT ![c] = "cancel"] /\ killed' = TRUE
        /\ returned' \in [Callers -> {"nothing", "true", "false"}]
        /\ UNCHANGED <<m_id, m_isRunning, m_joined, m_cancelRequested, m_cancelled, tpc, ending,
                       opc, blocked, stateLate, notified>>
    BY <1>2, ControllerIsThere DEF Thr!CancelKills, Thr!flags
  <2>2. /\ ctl' \in [Callers -> {"idle", "cooperative", "definitive", "timedWait",
                                 "awaits end", "cancel"}]
        /\ ctl'[c] = "cancel" /\ \A d \in Callers \ {c} : ctl'[d] = ctl[d]
    BY <2>1 DEF ThreadInv, Thr!TypeOK
  <2>3. blocked \cup stateLate \subseteq {d \in Callers : ctl'[d] \in {"timedWait", "awaits end"}}
    BY <2>1, <2>2 DEF ThreadInv, Thr!TypeOK
  <2>4. Thr!TypeOK'
    BY <2>1, <2>2, <2>3 DEF ThreadInv, Thr!TypeOK
  <2>5. StartInStep' /\ RunningIsKnown' /\ ControllersInTime' /\ CallbackInv'
    BY <2>1, <2>2 DEF ThreadInv, StartInStep, RunningIsKnown, ControllersInTime, CallbackInv
  <2>6. \A d \in blocked : Thr!MustWait(d)'
    <3>1. \A d \in blocked : d \in Callers \ {c} /\ Thr!MustWait(d)
      BY <2>1, <2>3 DEF ThreadInv, Thr!NobodySleepsThroughTheEnd
    <3>2. QED  BY <2>1, <2>2, <3>1 DEF Thr!MustWait
  <2>7. QED  BY <2>1, <2>4, <2>5, <2>6 DEF ThreadInv, Thr!NobodySleepsThroughTheEnd
<1>3. CASE Thr!CancelSetsFlags(c)
  <2>1. /\ opc = "started" /\ c \notin stateLate
        /\ returned' \in [Callers -> {"nothing", "true", "false"}]
    BY <1>3, ControllerIsThere DEF Thr!CancelSetsFlags
  <2>2. /\ ctl' = [ctl EXCEPT ![c] = "idle"] /\ stateLate' = stateLate /\ killed' = killed
        /\ m_isRunning' = FALSE /\ m_cancelled' = TRUE /\ blocked' = {}
        /\ UNCHANGED <<m_id, m_joined, m_cancelRequested, tpc, ending, opc, notified>>
    BY <1>3 DEF Thr!CancelSetsFlags
  <2>3. QED  BY <2>1, <2>2, ClearingKeepsLife
<1>4. QED  BY <1>1, <1>2, <1>3

\* A controller that looks first whether the thread is running.
LEMMA AskKeepsLife ==
    ASSUME ThreadInv, NEW c \in Callers, NEW call \in {"cooperative", "definitive"},
           Thr!AskToCancel(c, call)
    PROVE  ThreadInv'
<1>1. /\ opc = "started" /\ ctl[c] = "idle" /\ c \notin blocked \cup stateLate
      /\ UNCHANGED <<m_id, m_isRunning, m_joined, m_cancelRequested, m_cancelled, tpc, ending,
                     opc, blocked, stateLate, killed, notified>>
      /\ m_cancelRequested \in BOOLEAN
  BY ControllerIsThere DEF Thr!AskToCancel, Thr!flags
<1>2. CASE m_isRunning
  <2>1. ControllerActs(c, call)
    BY <1>1, <1>2, ControllerIsThere DEF Thr!AskToCancel, ControllerActs
  <2>2. QED  BY <1>1, <2>1, ActingKeepsLife
<1>3. CASE ~m_isRunning
  <2>1. ctl' = [ctl EXCEPT ![c] = "idle"]
    BY <1>1, <1>3, ControllerIsThere DEF Thr!AskToCancel
  <2>2. returned' \in [Callers -> {"nothing", "true", "false"}]
    <3>1. PICK result \in {"nothing", "true", "false"} :
              returned' = [returned EXCEPT ![c] = result]
      BY <1>3 DEF Thr!AskToCancel
    <3>2. QED  BY <3>1, ControllerIsThere
  <2>3. /\ blocked' \subseteq blocked \cup {c} /\ stateLate' \subseteq stateLate \cup {c}
        /\ c \notin blocked' \cup stateLate'
    BY <1>1
  <2>4. ControllerActs(c, "idle")
    BY <1>1, <2>1, <2>2, <2>3 DEF ControllerActs
  <2>5. QED  BY <1>1, <2>4, ActingKeepsLife
<1>4. QED  BY <1>2, <1>3

\* A new object, and every step of its owner, its thread and its controllers.
LEMMA ThreadInvHolds ==
    /\ Thr!Init => ThreadInv
    /\ ThreadInv /\ [Thr!Next]_threadVars => ThreadInv'
<1>1. ASSUME Thr!Init  PROVE ThreadInv
  <2>1. Thr!TypeOK
    BY <1>1 DEF Thr!Init, Thr!TypeOK
  <2>2. StartInStep /\ RunningIsKnown /\ ControllersInTime /\ CallbackInv
    BY <1>1 DEF Thr!Init, StartInStep, RunningIsKnown, ControllersInTime, CallbackInv
  <2>3. Thr!NobodySleepsThroughTheEnd /\ blocked \cap stateLate = {}
    BY <1>1 DEF Thr!Init, Thr!NobodySleepsThroughTheEnd
  <2>4. QED  BY <2>1, <2>2, <2>3 DEF ThreadInv
<1>2. SUFFICES ASSUME ThreadInv, [Thr!Next]_threadVars  PROVE ThreadInv'
  BY <1>1
<1>3. CASE UNCHANGED threadVars
  <2>1. UNCHANGED <<m_id, m_isRunning, m_joined, m_cancelRequested, m_cancelled, tpc, ending,
                    opc, ctl, blocked, stateLate, returned, killed, notified>>
    BY <1>3 DEF threadVars
  <2>2. Thr!TypeOK'
    BY <1>2, <2>1 DEF ThreadInv, Thr!TypeOK
  <2>3. StartInStep' /\ RunningIsKnown' /\ ControllersInTime' /\ CallbackInv'
    BY <1>2, <2>1 DEF ThreadInv, StartInStep, RunningIsKnown, ControllersInTime, CallbackInv
  <2>4. Thr!NobodySleepsThroughTheEnd' /\ blocked' \cap stateLate' = {}
    BY <1>2, <2>1 DEF ThreadInv, Thr!NobodySleepsThroughTheEnd, Thr!MustWait
  <2>5. QED  BY <2>2, <2>3, <2>4 DEF ThreadInv
<1>4. CASE Thr!StartCreates \/ Thr!StartFails \/ Thr!OwnerProceeds
  BY <1>2, <1>4, OwnerKeepsLife DEF Thr!OwnerProceeds
<1>5. CASE Thr!RunnerProceeds \/ Thr!RunStops
  BY <1>2, <1>5, RunnerKeepsLife DEF Thr!RunnerProceeds, Thr!RunStops
<1>6. ASSUME NEW c \in Callers, NEW call \in {"cooperative", "definitive"},
             Thr!AskToCancel(c, call)
      PROVE  ThreadInv'
  BY <1>2, <1>6, AskKeepsLife
<1>7. ASSUME NEW c \in Callers,
             Thr!CallTimedWait(c) \/ Thr!CancelKills(c) \/ Thr!Proceeds(c)
             \/ Thr!WakeSpuriously(c)
      PROVE  ThreadInv'
  BY <1>2, <1>7, ControllerKeepsLife, KillerKeepsLife DEF Thr!Proceeds
<1>8. QED  BY <1>2, <1>3, <1>4, <1>5, <1>6, <1>7 DEF Thr!Next, threadVars

\* What the properties of a Thread need of the invariant.
LEMMA ThreadInvMeans == ThreadInv => Thr!TypeOK /\ ThreadEndsOnce
<1>1. SUFFICES ASSUME ThreadInv  PROVE Thr!TypeOK /\ ThreadEndsOnce
  OBVIOUS
<1>2. Thr!IdIsStored
  BY <1>1 DEF ThreadInv, Thr!TypeOK, StartInStep, Thr!IdIsStored
<1>3. Thr!NotifiedOnce
  BY <1>1 DEF ThreadInv, CallbackInv, Thr!NotifiedOnce
<1>4. Thr!GoneForGood
  BY <1>1 DEF ThreadInv, StartInStep, RunningIsKnown, Thr!GoneForGood
<1>5. QED  BY <1>1, <1>2, <1>3, <1>4 DEF ThreadInv, ThreadEndsOnce

\* However the owner, the thread and any number of controllers interleave, and however
\* run() ends: the thread's identifier is stored before run(), the callback is called once,
\* the destructor leaves nobody behind who touches the object, and no controller sleeps
\* through the end of the thread.
THEOREM ThreadsEndOnce == Thr!Spec => []ThreadEndsOnce
<1>1. [Thr!Next]_(Thr!threadVars) => [Thr!Next]_threadVars
  BY DEF Thr!threadVars, Thr!flags, threadVars
<1>2. QED  BY <1>1, ThreadInvHolds, ThreadInvMeans, PTL DEF Thr!Spec

(***************************************************************************)
(* WaitpidThreadFix                                                        *)
(***************************************************************************)
\* Where the worker may have the item of a caller.
Queued(c)  == \E i \in 1..Len(m_work) : m_work[i] = c
Working    == wpc \in {"works", "polls", "saves exception", "signals"}
Handled(c) == newWork = c /\ Working

\* The result and the exception of an item agree.
Settled(c) == outcome[c] # "none" /\ (m_err[c] <=> outcome[c] = "exception")

\* The worker has nothing to do with the item any more.
Finished(c) == ~Queued(c) /\ ~Handled(c) /\ Settled(c)

\* An item is in one place at a time, and not at all in the worker's hands once its
\* caller has been told; what the worker holds is as far as the worker is.
ItemInv(c) ==
    /\ c \in alive <=> fpc[c] \in {"waits", "done"}
    /\ Queued(c) => ~Handled(c) /\ ~m_err[c]
    /\ Handled(c) => /\ wpc # "signals" => ~m_err[c]
                     /\ wpc = "saves exception" => outcome[c] = "exception"
                     /\ wpc = "signals" => Settled(c)
    /\ fpc[c] = "idle" => ~Queued(c) /\ ~Handled(c)
    /\ fpc[c] = "done" \/ (m_signal[c] /\ fpc[c] # "idle") => Finished(c)
    /\ answer[c] # "none" => fpc[c] = "idle" /\ answer[c] = outcome[c]

\* No item is in the queue twice, and the worker works on one only.
NoneTwice     == \A i, j \in 1..Len(m_work) : m_work[i] = m_work[j] => i = j
WorkerHasItem == Working => newWork \in Callers

FixInv ==
    /\ Fix!TypeOK
    /\ NoneTwice /\ WorkerHasItem
    /\ \A c \in Callers : ItemInv(c)

\* addWork(): the item is in the queue, last.
LEMMA AddedWork ==
    ASSUME Fix!TypeOK, NEW d \in Callers, m_work' = Append(m_work, d)
    PROVE  /\ m_work' \in Seq(Callers)
           /\ \A c \in Callers : Queued(c)' <=> Queued(c) \/ c = d
           /\ ~Queued(d) /\ NoneTwice => NoneTwice'
<1>1. m_work \in Seq(Callers)
  BY DEF Fix!TypeOK
<1>2. /\ m_work' \in Seq(Callers) /\ Len(m_work) \in Nat
      /\ Len(m_work') = Len(m_work) + 1
      /\ \A i \in 1..Len(m_work) : m_work'[i] = m_work[i]
      /\ m_work'[Len(m_work) + 1] = d
  BY <1>1, AppendProperties, LenProperties
<1>3. \A c \in Callers : Queued(c)' <=> Queued(c) \/ c = d
  BY <1>2 DEF Queued
<1>4. ASSUME ~Queued(d), NoneTwice, NEW i \in 1..Len(m_work'), NEW j \in 1..Len(m_work'),
             m_work'[i] = m_work'[j]
      PROVE  i = j
  BY <1>2, <1>4 DEF Queued, NoneTwice
<1>5. QED  BY <1>2, <1>3, <1>4 DEF NoneTwice

\* getWork(): the first item has left the queue.
LEMMA TakenWork ==
    ASSUME Fix!TypeOK, NoneTwice, m_work # <<>>, m_work' = Tail(m_work)
    PROVE  /\ m_work' \in Seq(Callers) /\ Head(m_work) \in Callers
           /\ Queued(Head(m_work))
           /\ \A c \in Callers : Queued(c)' <=> Queued(c) /\ c # Head(m_work)
           /\ NoneTwice'
<1>1. m_work \in Seq(Callers)
  BY DEF Fix!TypeOK
<1>2. /\ m_work' \in Seq(Callers) /\ Len(m_work) \in Nat \ {0}
      /\ Len(m_work') = Len(m_work) - 1
      /\ \A i \in 1..Len(m_work') : m_work'[i] = m_work[i + 1]
      /\ Head(m_work) = m_work[1] /\ Head(m_work) \in Callers
  BY <1>1, HeadTailProperties, LenProperties, EmptySeq
<1>3. \A c \in Callers : Queued(c)' <=> Queued(c) /\ c # Head(m_work)
  <2>1. ASSUME NEW c \in Callers, Queued(c)'  PROVE Queued(c) /\ c # Head(m_work)
    <3>1. PICK i \in 1..Len(m_work') : m_work'[i] = c
      BY <2>1 DEF Queued
    <3>2. i + 1 \in 1..Len(m_work) /\ m_work[i + 1] = c /\ 1 \in 1..Len(m_work) /\ i + 1 # 1
      BY <1>2, <3>1
    <3>3. QED  BY <1>2, <3>2 DEF Queued, NoneTwice
  <2>2. ASSUME NEW c \in Callers, Queued(c), c # Head(m_work)  PROVE Queued(c)'
    <3>1. PICK i \in 1..Len(m_work) : m_work[i] = c
      BY <2>2 DEF Queued
    <3>2. i - 1 \in 1..Len(m_work')
      BY <1>2, <2>2, <3>1
    <3>3. m_work'[i - 1] = c
      BY <1>2, <3>1, <3>2
    <3>4. QED  BY <3>2, <3>3 DEF Queued
  <2>3. QED  BY <2>1, <2>2
<1>4. Queued(Head(m_work))
  BY <1>2 DEF Queued
<1>5. ASSUME NEW i \in 1..Len(m_work'), NEW j \in 1..Len(m_work'), m_work'[i] = m_work'[j]
      PROVE  i = j
  BY <1>2, <1>5 DEF NoneTwice
<1>6. QED  BY <1>2, <1>3, <1>4, <1>5 DEF NoneTwice

\* A call makes its item and puts it into the queue.
LEMMA AddKeepsItems ==
    ASSUME FixInv, NEW d \in Callers, Fix!AddWork(d)
    PROVE  FixInv'
<1>1. /\ m_work' \in Seq(Callers) /\ NoneTwice'
      /\ \A c \in Callers : Queued(c)' <=> Queued(c) \/ c = d
      /\ ~Queued(d) /\ ~Handled(d)
  BY AddedWork DEF FixInv, ItemInv, Fix!AddWork
<1>2. Fix!TypeOK'
  BY <1>1 DEF FixInv, Fix!TypeOK, Fix!AddWork
<1>3. \A c \in Callers : Handled(c)' <=> Handled(c)
  BY DEF FixInv, Fix!TypeOK, Fix!AddWork, Handled, Working
<1>4. \A c \in Callers : ItemInv(c)'
  <2>1. ItemInv(d)'
    <3>1. /\ d \in alive' /\ fpc'[d] = "waits" /\ answer'[d] = "none"
          /\ m_signal'[d] = FALSE /\ m_err'[d] = FALSE
      BY DEF FixInv, Fix!TypeOK, Fix!AddWork
    <3>2. QED  BY <1>1, <1>3, <3>1 DEF ItemInv
  <2>2. ASSUME NEW c \in Callers \ {d}  PROVE ItemInv(c)'
    <3>1. /\ fpc'[c] = fpc[c] /\ answer'[c] = answer[c] /\ outcome'[c] = outcome[c]
          /\ m_signal'[c] = m_signal[c] /\ m_err'[c] = m_err[c]
          /\ c \in alive' <=> c \in alive
      BY DEF FixInv, Fix!TypeOK, Fix!AddWork
    <3>2. ItemInv(c) /\ (Queued(c)' <=> Queued(c)) /\ (Handled(c)' <=> Handled(c))
      BY <1>1, <1>3, <2>2 DEF FixInv
    <3>3. (Settled(c)' <=> Settled(c)) /\ (Finished(c)' <=> Finished(c))
      BY <3>1, <3>2 DEF Settled, Finished
    <3>4. wpc' = wpc \/ ~Handled(c)
      BY DEF Fix!AddWork, Handled, Working
    <3>5. QED  BY <3>1, <3>2, <3>3, <3>4 DEF ItemInv
  <2>3. QED  BY <2>1, <2>2
<1>5. WorkerHasItem'
  BY DEF FixInv, WorkerHasItem, Working, Fix!AddWork
<1>6. QED  BY <1>1, <1>2, <1>4, <1>5 DEF FixInv

\* The worker waits, or takes the first item.
LEMMA TakeKeepsItems ==
    ASSUME FixInv, Fix!WaitForWork \/ Fix!WakeSpuriously \/ Fix!GetWork
    PROVE  FixInv'
<1>1. CASE Fix!WaitForWork \/ Fix!WakeSpuriously
  <2>1. /\ UNCHANGED <<m_work, m_signal, m_err, alive, newWork, fpc, outcome, answer>>
        /\ ~Working /\ ~Working'
    BY <1>1 DEF Fix!WaitForWork, Fix!WakeSpuriously, Working
  <2>2. Fix!TypeOK'
    BY <1>1, <2>1 DEF Fix!WaitForWork, Fix!WakeSpuriously, FixInv, Fix!TypeOK
  <2>3. NoneTwice' /\ WorkerHasItem'
    BY <2>1 DEF FixInv, NoneTwice, WorkerHasItem
  <2>4. \A c \in Callers : (Queued(c)' <=> Queued(c)) /\ ~Handled(c) /\ ~Handled(c)'
    BY <2>1 DEF Queued, Handled
  <2>5. \A c \in Callers : ItemInv(c)'
    BY <2>1, <2>4 DEF FixInv, ItemInv, Settled, Finished
  <2>6. QED  BY <2>2, <2>3, <2>5 DEF FixInv
<1>2. CASE Fix!GetWork
  <2>1. /\ m_work' \in Seq(Callers) /\ NoneTwice' /\ newWork' \in Callers
        /\ Queued(newWork')
        /\ \A c \in Callers : Queued(c)' <=> Queued(c) /\ c # newWork'
    BY <1>2, TakenWork DEF FixInv, Fix!GetWork
  <2>2. Fix!TypeOK' /\ WorkerHasItem'
    BY <1>2, <2>1 DEF FixInv, Fix!TypeOK, Fix!GetWork, WorkerHasItem
  <2>3. \A c \in Callers : ~Handled(c) /\ (Handled(c)' <=> c = newWork')
    BY <1>2, <2>1 DEF Fix!GetWork, Handled, Working
  <2>4. \A c \in Callers : ItemInv(c)'
    BY <1>2, <2>1, <2>3 DEF FixInv, ItemInv, Fix!GetWork, Settled, Finished
  <2>5. QED  BY <2>1, <2>2, <2>4 DEF FixInv
<1>3. QED  BY <1>1, <1>2

\* The worker works on the item that it has taken, and tells its caller last.
LEMMA WorkKeepsItems ==
    ASSUME FixInv,
           \/ Fix!PollInWork \/ Fix!DoWork \/ Fix!SaveException
           \/ Fix!WorkThrowsAlien \/ Fix!SignalDone
    PROVE  FixInv'
<1>1. /\ newWork \in Callers /\ Handled(newWork) /\ ~Queued(newWork)
      /\ m_work' = m_work /\ newWork' = newWork /\ NoneTwice'
      /\ \A c \in Callers : Queued(c)' <=> Queued(c)
      /\ \A c \in Callers \ {newWork} : ~Handled(c) /\ ~Handled(c)'
  <2>1. Working /\ m_work' = m_work /\ newWork' = newWork
    BY DEF Working, Fix!PollInWork, Fix!DoWork, Fix!SaveException, Fix!WorkThrowsAlien,
       Fix!SignalDone
  <2>2. newWork \in Callers /\ Handled(newWork) /\ ~Queued(newWork)
    BY <2>1 DEF FixInv, WorkerHasItem, Handled, ItemInv
  <2>3. NoneTwice' /\ \A c \in Callers : Queued(c)' <=> Queued(c)
    BY <2>1 DEF FixInv, NoneTwice, Queued
  <2>4. \A c \in Callers \ {newWork} : ~Handled(c) /\ ~Handled(c)'
    BY <2>1 DEF Handled
  <2>5. QED  BY <2>1, <2>2, <2>3, <2>4
<1>2. Fix!TypeOK' /\ WorkerHasItem'
  BY <1>1 DEF FixInv, Fix!TypeOK, WorkerHasItem, Fix!PollInWork,
     Fix!DoWork, Fix!SaveException, Fix!WorkThrowsAlien, Fix!SignalDone
<1>3. ASSUME NEW c \in Callers \ {newWork}  PROVE ItemInv(c)'
  <2>1. UNCHANGED <<m_signal[c], m_err[c], alive, fpc, outcome[c], answer>>
    BY <1>1, <1>3 DEF FixInv, Fix!TypeOK, Fix!PollInWork, Fix!DoWork, Fix!SaveException,
       Fix!WorkThrowsAlien, Fix!SignalDone
  <2>2. QED  BY <1>1, <1>3, <2>1 DEF FixInv, ItemInv, Settled, Finished
<1>4. ItemInv(newWork)'
  <2>1. CASE Fix!PollInWork
    BY <1>1, <2>1 DEF FixInv, ItemInv, Handled, Working, Settled, Finished, Fix!PollInWork
  <2>2. CASE Fix!DoWork
    <3>1. UNCHANGED <<m_signal, m_err, alive, fpc, answer>>
      BY <2>2 DEF Fix!DoWork
    <3>2. /\ outcome'[newWork] \in {"done", "exception"}
          /\ wpc' = IF outcome'[newWork] = "done" THEN "signals" ELSE "saves exception"
      BY <1>1, <2>2 DEF FixInv, Fix!TypeOK, Fix!DoWork
    <3>3. ItemInv(newWork) /\ wpc \in {"works", "polls"}
      BY <1>1, <2>2 DEF FixInv, Fix!DoWork
    <3>4. ~m_err[newWork] /\ fpc[newWork] # "done"
          /\ ~(m_signal[newWork] /\ fpc[newWork] # "idle")
      BY <1>1, <3>3 DEF ItemInv, Finished
    <3>5. fpc[newWork] # "idle" /\ answer[newWork] = "none"
      BY <1>1, <3>3, <3>4 DEF ItemInv
    <3>6. Handled(newWork)' /\ (wpc' = "signals" => Settled(newWork)')
      BY <1>1, <3>1, <3>2, <3>4 DEF Handled, Working, Settled
    <3>7. QED  BY <1>1, <3>1, <3>2, <3>3, <3>4, <3>5, <3>6 DEF ItemInv
  <2>3. CASE Fix!SaveException
    <3>1. /\ UNCHANGED <<m_signal, alive, fpc, outcome, answer>>
          /\ wpc = "saves exception" /\ wpc' = "signals" /\ m_err'[newWork] = TRUE
      BY <1>1, <2>3 DEF FixInv, Fix!TypeOK, Fix!SaveException
    <3>2. ItemInv(newWork)
      BY <1>1 DEF FixInv
    <3>3. outcome[newWork] = "exception"
      BY <1>1, <3>1, <3>2 DEF ItemInv
    <3>4. Handled(newWork)' /\ Settled(newWork)'
      BY <1>1, <3>1, <3>3 DEF Handled, Working, Settled
    <3>5. fpc[newWork] # "done" /\ ~(m_signal[newWork] /\ fpc[newWork] # "idle")
      BY <1>1, <3>2 DEF ItemInv, Finished
    <3>6. QED  BY <1>1, <3>1, <3>2, <3>4, <3>5 DEF ItemInv
  <2>4. CASE Fix!WorkThrowsAlien
    BY <1>1, <2>4 DEF FixInv, ItemInv, Handled, Working, Settled, Finished,
       Fix!WorkThrowsAlien
  <2>5. CASE Fix!SignalDone
    <3>1. /\ UNCHANGED <<m_err, alive, fpc, outcome, answer>>
          /\ wpc = "signals" /\ wpc' = "gets work"
      BY <2>5 DEF Fix!SignalDone
    <3>2. ItemInv(newWork)
      BY <1>1 DEF FixInv
    <3>3. Settled(newWork) /\ ~Handled(newWork)'
      BY <1>1, <3>1, <3>2 DEF ItemInv, Handled, Working
    <3>4. Settled(newWork)'
      BY <1>1, <3>1, <3>3 DEF Settled
    <3>5. Finished(newWork)'
      BY <1>1, <3>3, <3>4 DEF Finished
    <3>6. QED  BY <1>1, <3>1, <3>2, <3>3, <3>5 DEF ItemInv
  <2>6. QED  BY <2>1, <2>2, <2>3, <2>4, <2>5
<1>5. QED  BY <1>1, <1>2, <1>3, <1>4 DEF FixInv

\* A caller that has been told, or that is cancelled, moves on by itself.
LEMMA CallerKeepsItems ==
    ASSUME FixInv, NEW d \in Callers, Fix!CallerProceeds(d) \/ Fix!CancelCaller(d)
    PROVE  FixInv'
<1>1. /\ NoneTwice' /\ WorkerHasItem'
      /\ \A c \in Callers : (Queued(c)' <=> Queued(c)) /\ (Handled(c)' <=> Handled(c))
  BY DEF FixInv, NoneTwice, WorkerHasItem, Working, Queued, Handled, Fix!CallerProceeds,
     Fix!WaitTillDone, Fix!ReturnOrRethrow, Fix!CancelCaller
<1>2. Fix!TypeOK'
  BY DEF FixInv, Fix!TypeOK, Fix!CallerProceeds, Fix!WaitTillDone, Fix!ReturnOrRethrow,
     Fix!CancelCaller
<1>3. UNCHANGED <<m_signal, m_err, wpc, outcome>>
  BY DEF Fix!CallerProceeds, Fix!WaitTillDone, Fix!ReturnOrRethrow, Fix!CancelCaller
<1>4. ASSUME NEW c \in Callers \ {d}  PROVE ItemInv(c)'
  <2>1. fpc'[c] = fpc[c] /\ answer'[c] = answer[c] /\ (c \in alive' <=> c \in alive)
    BY DEF FixInv, Fix!TypeOK, Fix!CallerProceeds, Fix!WaitTillDone, Fix!ReturnOrRethrow,
       Fix!CancelCaller
  <2>2. Settled(c)' <=> Settled(c)
    BY <1>3 DEF Settled
  <2>3. Finished(c)' <=> Finished(c)
    BY <1>1, <2>2 DEF Finished
  <2>4. ItemInv(c)
    BY DEF FixInv
  <2>5. QED  BY <1>1, <1>3, <2>1, <2>2, <2>3, <2>4 DEF ItemInv
<1>5. ItemInv(d)'
  <2>1. ItemInv(d)
    BY DEF FixInv
  <2>2. Settled(d)' <=> Settled(d)
    BY <1>3 DEF Settled
  <2>3. Finished(d)' <=> Finished(d)
    BY <1>1, <2>2 DEF Finished
  <2>4. CASE Fix!WaitTillDone(d)
    <3>1. /\ alive' = alive /\ answer' = answer
          /\ fpc[d] = "waits" /\ m_signal[d] /\ fpc'[d] = "done"
      BY <2>4 DEF FixInv, Fix!TypeOK, Fix!WaitTillDone
    <3>2. Finished(d)
      BY <2>1, <3>1 DEF ItemInv
    <3>3. QED  BY <1>1, <1>3, <2>1, <2>2, <2>3, <3>1, <3>2 DEF ItemInv
  <2>5. CASE Fix!ReturnOrRethrow(d)
    <3>1. /\ fpc[d] = "done" /\ fpc'[d] = "idle" /\ d \notin alive'
          /\ answer'[d] = IF m_err[d] THEN "exception" ELSE "done"
          /\ outcome[d] \in {"none", "done", "exception"}
      BY <2>5 DEF FixInv, Fix!TypeOK, Fix!ReturnOrRethrow
    <3>2. Finished(d)
      BY <2>1, <3>1 DEF ItemInv
    <3>3. ~Queued(d) /\ ~Handled(d) /\ answer'[d] = outcome[d]
      BY <3>1, <3>2 DEF Finished, Settled
    <3>4. QED  BY <1>1, <1>3, <2>3, <3>1, <3>3 DEF ItemInv
  <2>6. CASE Fix!CancelCaller(d)
    <3>1. /\ fpc[d] = "waits" /\ fpc'[d] = "cancelled" /\ d \notin alive' /\ answer' = answer
      BY <2>6 DEF FixInv, Fix!TypeOK, Fix!CancelCaller
    <3>2. QED  BY <1>1, <1>3, <2>1, <2>2, <2>3, <3>1 DEF ItemInv
  <2>7. QED  BY <2>4, <2>5, <2>6 DEF Fix!CallerProceeds
<1>6. QED  BY <1>1, <1>2, <1>4, <1>5 DEF FixInv

\* An empty queue, and every step of the worker and of the callers.
LEMMA FixInvHolds ==
    /\ Fix!Init => FixInv
    /\ FixInv /\ [Fix!Next]_fixVars => FixInv'
<1>1. ASSUME Fix!Init  PROVE FixInv
  <2>1. m_work \in Seq(Callers) /\ 1..Len(m_work) = {}
    <3>1. m_work \in Seq(Callers) /\ Len(m_work) = 0
      BY <1>1, EmptySeq DEF Fix!Init
    <3>2. QED  BY <3>1
  <2>2. /\ m_signal = [c \in Callers |-> FALSE] /\ m_err = [c \in Callers |-> FALSE]
        /\ alive = {} /\ wpc = "gets work" /\ newWork = Worker
        /\ fpc = [c \in Callers |-> "idle"]
        /\ outcome = [c \in Callers |-> "none"] /\ answer = [c \in Callers |-> "none"]
    BY <1>1 DEF Fix!Init
  <2>3. Fix!TypeOK /\ ~Working
    BY <2>1, <2>2 DEF Fix!TypeOK, Working
  <2>4. NoneTwice /\ WorkerHasItem
    BY <2>1, <2>3 DEF NoneTwice, WorkerHasItem
  <2>5. ASSUME NEW c \in Callers  PROVE ItemInv(c)
    <3>1. ~Queued(c) /\ ~Handled(c)
      BY <2>1, <2>3 DEF Queued, Handled
    <3>2. QED  BY <2>2, <3>1 DEF ItemInv
  <2>6. QED  BY <2>3, <2>4, <2>5 DEF FixInv
<1>2. SUFFICES ASSUME FixInv, [Fix!Next]_fixVars  PROVE FixInv'
  BY <1>1
<1>3. CASE UNCHANGED fixVars
  <2>1. Fix!TypeOK' /\ NoneTwice' /\ WorkerHasItem'
    BY <1>2, <1>3 DEF fixVars, FixInv, Fix!TypeOK, NoneTwice, WorkerHasItem, Working
  <2>2. \A c \in Callers : (Queued(c)' <=> Queued(c)) /\ (Handled(c)' <=> Handled(c))
    BY <1>3 DEF fixVars, Queued, Handled, Working
  <2>3. \A c \in Callers : ItemInv(c)'
    BY <1>2, <1>3, <2>2 DEF fixVars, FixInv, ItemInv, Settled, Finished
  <2>4. QED  BY <2>1, <2>3 DEF FixInv
<1>4. CASE Fix!WorkerProceeds \/ Fix!WakeSpuriously \/ Fix!PollInWork \/ Fix!WorkThrowsAlien
  BY <1>2, <1>4, TakeKeepsItems, WorkKeepsItems DEF Fix!WorkerProceeds
<1>5. ASSUME NEW c \in Callers, Fix!AddWork(c) \/ Fix!CallerProceeds(c) \/ Fix!CancelCaller(c)
      PROVE  FixInv'
  BY <1>2, <1>5, AddKeepsItems, CallerKeepsItems
<1>6. QED  BY <1>2, <1>3, <1>4, <1>5 DEF Fix!Next, fixVars

\* Who has an answer has that of his own item, and an item that is gone is out of reach.
LEMMA FixInvMeans == FixInv => Fix!TypeOK /\ AnswersAreTheirs
<1>1. SUFFICES ASSUME FixInv  PROVE Fix!TypeOK /\ AnswersAreTheirs
  OBVIOUS
<1>2. Fix!AnswersAreTheirs
  BY <1>1 DEF FixInv, ItemInv, Fix!AnswersAreTheirs
<1>3. Fix!ItemsExist
  <2>1. SUFFICES ASSUME NEW c \in Callers \ alive, fpc[c] # "cancelled"
                 PROVE  ~Queued(c) /\ ~Handled(c)
    BY DEF Fix!ItemsExist, Queued, Handled, Working
  <2>2. fpc[c] = "idle"
    BY <1>1, <2>1 DEF FixInv, Fix!TypeOK, ItemInv
  <2>3. QED  BY <1>1, <2>1, <2>2 DEF FixInv, ItemInv
<1>4. QED  BY <1>1, <1>2, <1>3 DEF FixInv, AnswersAreTheirs

\* Whatever the number of callers, the order of their work and its failures, and the
\* moment at which some are cancelled: each gets the result or the exception of its
\* own item, and the worker holds pointers to items that exist, those of cancelled callers
\* apart.
THEOREM AnswersReachTheirCallers == Fix!Spec => []AnswersAreTheirs
<1>1. QED
  BY FixInvHolds, FixInvMeans, PTL DEF Fix!Spec, Fix!fixVars, fixVars

(***************************************************************************)
(* All the components of MCThreads, of which one at a time moves           *)
(***************************************************************************)
\* What the components need of their constants.
ThreadsAssumption ==
    /\ QueueAssumption /\ CounterAssumption
    /\ InitCount \in Int /\ MaxObjects \in Nat

\* The invariants of the components side by side.
ComponentsInv ==
    /\ LockInv /\ QueueInv /\ GenerationInv /\ CounterInv /\ SemaphoreInv
    /\ OnceInv /\ ThreadInv /\ FixInv

\* Whoever the subject is, a step is one of that component and nothing to the others.
LEMMA OneSubjectMoves ==
    ASSUME [MCNext]_allVars
    PROVE  /\ [Next]_vars
           /\ [Queue!Next]_queueVars
           /\ [Barrier!Next]_barrierVars
           /\ [Counter!Next]_counterVars
           /\ [Sem!Next]_semaphoreVars
           /\ [Lazy!Next]_onceVars \/ [Global!Next]_onceVars
           /\ [Thr!Next]_threadVars
           /\ [Fix!Next]_fixVars
<1>1. CASE UNCHANGED allVars
  BY <1>1 DEF allVars
<1>2. ASSUME NEW x \in {"lock", "queue", "barrier", "counter", "semaphore", "lazy", "global",
                        "thread", "fix"},
             Only(x)
      PROVE  /\ x # "lock" => UNCHANGED vars
             /\ x # "queue" => UNCHANGED queueVars
             /\ x # "barrier" => UNCHANGED barrierVars
             /\ x # "counter" => UNCHANGED counterVars
             /\ x # "semaphore" => UNCHANGED semaphoreVars
             /\ x \notin {"lazy", "global"} => UNCHANGED onceVars
             /\ x # "thread" => UNCHANGED threadVars
             /\ x # "fix" => UNCHANGED fixVars
  BY <1>2 DEF Only
<1>3. CASE MCNext
  <2>1. CASE Only("lock") /\ Next
    BY <1>2, <2>1
  <2>2. CASE Only("queue") /\ Queue!Next
    BY <1>2, <2>2
  <2>3. CASE Only("barrier") /\ Barrier!Next
    BY <1>2, <2>3
  <2>4. CASE Only("counter") /\ Counter!Next
    BY <1>2, <2>4
  <2>5. CASE Only("semaphore") /\ Sem!Next
    BY <1>2, <2>5
  <2>6. CASE Only("lazy") /\ Lazy!Next
    BY <1>2, <2>6
  <2>7. CASE Only("global") /\ Global!Next
    BY <1>2, <2>7
  <2>8. CASE Only("thread") /\ Thr!Next
    BY <1>2, <2>8
  <2>9. CASE Only("fix") /\ Fix!Next
    BY <1>2, <2>9
  <2>10. QED  BY <1>3, <2>1, <2>2, <2>3, <2>4, <2>5, <2>6, <2>7, <2>8, <2>9 DEF MCNext
<1>4. QED  BY <1>1, <1>3

\* In every behaviour each component keeps the types of its variables and its promise,
\* those included that the others' theorems state for the component alone.
THEOREM ComponentsKeepTheirPromises ==
    ASSUME ThreadsAssumption
    PROVE  MCSpec => [](/\ ComponentTypesOK
                        /\ LockIsExclusive /\ CountersAreExact /\ WaitersArePending
                        /\ QueueWithinBound /\ SignalsAreConserved /\ OneLiveObject
                        /\ ThreadEndsOnce /\ AnswersAreTheirs)
<1>1. MCInit => ComponentsInv
  <2>1. SUFFICES ASSUME MCInit  PROVE ComponentsInv
    OBVIOUS
  <2>2. LockInv
    BY <2>1, InitLock DEF MCInit
  <2>3. QueueInv
    BY <2>1, InitQueue DEF MCInit, ThreadsAssumption
  <2>4. GenerationInv
    BY <2>1, InitGenerations DEF MCInit, ThreadsAssumption, QueueAssumption
  <2>5. CounterInv
    BY <2>1, InitCounter DEF MCInit, ThreadsAssumption
  <2>6. SemaphoreInv
    BY <2>1, InitSemaphore DEF MCInit, ThreadsAssumption
  <2>7. OnceInv
    BY <2>1, OnceInvHolds DEF MCInit, ThreadsAssumption
  <2>8. ThreadInv /\ FixInv
    BY <2>1, ThreadInvHolds, FixInvHolds DEF MCInit
  <2>9. QED  BY <2>2, <2>3, <2>4, <2>5, <2>6, <2>7, <2>8 DEF ComponentsInv
<1>2. ComponentsInv /\ [MCNext]_allVars => ComponentsInv'
  <2>1. SUFFICES ASSUME ComponentsInv, [MCNext]_allVars  PROVE ComponentsInv'
    OBVIOUS
  <2>2. LockInv'
    BY <2>1, OneSubjectMoves, NextLock DEF ComponentsInv
  <2>3. QueueInv'
    BY <2>1, OneSubjectMoves, NextQueue DEF ComponentsInv, ThreadsAssumption
  <2>4. GenerationInv'
    BY <2>1, OneSubjectMoves, NextGenerations DEF ComponentsInv, ThreadsAssumption,
       QueueAssumption
  <2>5. CounterInv'
    BY <2>1, OneSubjectMoves, NextCounter DEF ComponentsInv, ThreadsAssumption
  <2>6. SemaphoreInv'
    BY <2>1, OneSubjectMoves, NextSemaphore DEF ComponentsInv, ThreadsAssumption
  <2>7. OnceInv'
    BY <2>1, OneSubjectMoves, OnceInvHolds DEF ComponentsInv, ThreadsAssumption
  <2>8. ThreadInv' /\ FixInv'
    BY <2>1, OneSubjectMoves, ThreadInvHolds, FixInvHolds DEF ComponentsInv
  <2>9. QED  BY <2>2, <2>3, <2>4, <2>5, <2>6, <2>7, <2>8 DEF ComponentsInv
<1>3. ComponentsInv => /\ ComponentTypesOK
                       /\ LockIsExclusive /\ CountersAreExact /\ WaitersArePending
                       /\ QueueWithinBound /\ SignalsAreConserved /\ OneLiveObject
                       /\ ThreadEndsOnce /\ AnswersAreTheirs
  <2>1. SUFFICES ASSUME ComponentsInv
                 PROVE  /\ ComponentTypesOK
                        /\ LockIsExclusive /\ CountersAreExact /\ WaitersArePending
                        /\ QueueWithinBound /\ SignalsAreConserved /\ OneLiveObject
                        /\ ThreadEndsOnce /\ AnswersAreTheirs
    OBVIOUS
  <2>2. TypeOK /\ LockIsExclusive /\ CountersAreExact /\ WaitersArePending
    BY <2>1 DEF ComponentsInv, LockInv
  <2>3. /\ Queue!TypeOK /\ QueueWithinBound
        /\ Barrier!TypeOK /\ Counter!TypeOK /\ Sem!TypeOK /\ SignalsAreConserved
    BY <2>1 DEF ComponentsInv, QueueInv, QueueWithinBound, GenerationInv, CounterInv,
       SemaphoreInv, SignalsAreConserved
  <2>4. Lazy!TypeOK /\ Global!TypeOK /\ OneLiveObject
    BY <2>1, OnceInvMeans DEF ComponentsInv, ThreadsAssumption
  <2>5. Thr!TypeOK /\ ThreadEndsOnce /\ Fix!TypeOK /\ AnswersAreTheirs
    BY <2>1, ThreadInvMeans, FixInvMeans DEF ComponentsInv
  <2>6. QED  BY <2>2, <2>3, <2>4, <2>5 DEF ComponentTypesOK
<1>4. QED  BY <1>1, <1>2, <1>3, PTL DEF MCSpec
=============================================================================
