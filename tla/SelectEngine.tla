---------------------------- MODULE SelectEngine ----------------------------
(***************************************************************************)
(* SelectEngine of src/blocxx/SelectEngine.cpp over selectRW() of          *)
(* src/blocxx/Select.cpp: go() waits until descriptors are ready and calls *)
(* the callbacks that are registered for them, which may call the engine   *)
(* in turn.                                                                *)
(*                                                                         *)
(* A descriptor stays ready for an event until its callback has handled    *)
(* the event; a hangup or an error stays for ever.                         *)
(***************************************************************************)
EXTENDS Naturals, FiniteSets

CONSTANTS
    NumObjects,     \* descriptors, in the order of SortedVectorMap
    EventTypes,     \* the event types they are registered for, sets of events
    Careful,        \* callbacks remove only their own descriptor, when no event of it is left
    UsesEpoll       \* selectRWEpoll(), otherwise selectRWPoll()

Events == {"read", "write"}

Objects == 1..NumObjects

VARIABLES
    m_table,        \* the event type of each registered descriptor, {} if none
    m_stopFlag,
    ready,          \* what the system has to say of each descriptor
    epc,            \* where go() is
    selObjs,        \* the events this round waits for
    available,      \* those of them that select() found
    selected,       \* how many descriptors it still has to find among them
    cursor,         \* the descriptor the loop is at
    wild            \* an iterator was used that points at nothing

roundVars  == <<selObjs, available, selected, cursor>>
engineVars == <<m_table, m_stopFlag, ready, epc, roundVars, wild>>

Nothing == [o \in Objects |-> {}]

Init ==
    /\ m_table = Nothing /\ m_stopFlag = FALSE
    /\ ready = Nothing
    /\ epc = "out"
    /\ selObjs = Nothing /\ available = Nothing /\ selected = 0 /\ cursor = 1
    /\ wild = FALSE

(***************************************************************************)
(* The table and the system                                                *)
(***************************************************************************)
\* SortedVectorMap::insert() keeps what it already has under the key.
Added(o, events) == IF m_table[o] = {} THEN [m_table EXCEPT ![o] = events] ELSE m_table
Removed(o)       == [m_table EXCEPT ![o] = {}]

\* The user of the engine, outside of go().
AddSelectableObject(o) ==
    /\ epc = "out"
    /\ \E events \in EventTypes : m_table' = Added(o, events)
    /\ UNCHANGED <<m_stopFlag, ready, epc, roundVars, wild>>

RemoveSelectableObject(o) ==
    /\ epc = "out"
    /\ m_table' = Removed(o)
    /\ UNCHANGED <<m_stopFlag, ready, epc, roundVars, wild>>

BecomesReady(o) ==
    /\ \E e \in Events \cup {"hangup", "error"} :
          e \notin ready[o] /\ ready' = [ready EXCEPT ![o] = @ \cup {e}]
    /\ UNCHANGED <<m_table, m_stopFlag, epc, roundVars, wild>>

(***************************************************************************)
(* Select::selectRW()                                                      *)
(***************************************************************************)
\* Hangups and errors are reported whatever the descriptor waits for.
Reported(o) ==
    /\ selObjs[o] # {}
    /\ ready[o] \cap (selObjs[o] \cup {"hangup", "error"}) # {}

\* Variant: writeAvailable is never set.
Found_ReadOnly(o) ==
    IF "hangup" \in ready[o] \/ (UsesEpoll /\ "error" \in ready[o])
    THEN selObjs[o] \ {"write"}
    ELSE (selObjs[o] \cap ready[o]) \ {"write"}

\* readAvailable and writeAvailable; selectRWPoll() sets only wasError for an error.
Found(o) ==
    IF "hangup" \in ready[o] \/ (UsesEpoll /\ "error" \in ready[o])
    THEN selObjs[o]
    ELSE selObjs[o] \cap ready[o]

(***************************************************************************)
(* go()                                                                    *)
(***************************************************************************)
Leave ==
    /\ epc' = "out"
    /\ selObjs' = Nothing /\ available' = Nothing /\ selected' = 0 /\ cursor' = 1

Go ==
    /\ epc = "out" /\ ~wild
    /\ m_stopFlag' = FALSE
    /\ epc' = "round"
    /\ UNCHANGED <<m_table, ready, roundVars, wild>>

\* An empty table ends go().
StartRound ==
    /\ epc = "round"
    /\ IF m_table = Nothing
       THEN Leave
       ELSE /\ selObjs' = m_table
            /\ epc' = "select"
            /\ UNCHANGED <<available, selected, cursor>>
    /\ UNCHANGED <<m_table, m_stopFlag, ready, wild>>

Selected ==
    LET reported == {o \in Objects : Reported(o)} IN
    /\ epc = "select" /\ reported # {}
    /\ available' = [o \in Objects |-> Found(o)]
    /\ selected' = Cardinality(reported)
    /\ cursor' = 1
    /\ epc' = "dispatch"
    /\ UNCHANGED <<m_table, m_stopFlag, ready, selObjs, wild>>

\* SELECT_TIMEOUT: go() throws.
SelectTimesOut ==
    /\ epc = "select" /\ \A o \in Objects : ~Reported(o)
    /\ Leave
    /\ UNCHANGED <<m_table, m_stopFlag, ready, wild>>

\* What a callback of o, called through iter, does to the engine.
Callback(o) ==
    LET mayChange == Careful => Cardinality(available[o]) = 1 IN
    \/ UNCHANGED <<m_table, m_stopFlag>>
    \/ m_stopFlag' = TRUE /\ UNCHANGED m_table
    \/ /\ mayChange
       /\ \E p \in Objects, events \in EventTypes : m_table' = Added(p, events)
       /\ UNCHANGED m_stopFlag
    \/ /\ mayChange
       /\ \E p \in IF Careful THEN {o} ELSE Objects : m_table' = Removed(p)
       /\ UNCHANGED m_stopFlag

\* The condition of the loop over what select() found.
AtNext == cursor \in Objects /\ selected > 0

\* Variant: every event is counted down.
CallSelected_CountsEvents(o, e) ==
    /\ epc = "dispatch" /\ AtNext /\ o = cursor
    /\ e \in available[o] /\ (e = "write" => "read" \notin available[o])
    /\ Callback(o)
    /\ ready' = [ready EXCEPT ![o] = @ \ {e}]
    /\ available' = [available EXCEPT ![o] = @ \ {e}]
    /\ selected' = selected - 1
    /\ cursor' = IF available'[o] = {} THEN cursor + 1 ELSE cursor
    /\ wild' = (m_table[o] = {} \/ (available'[o] # {} /\ m_table' # m_table))
    /\ UNCHANGED <<epc, selObjs>>

\* Variant: the callback is called for the write event without a look at it.
CallSelected_AlwaysWrites(o, e) ==
    /\ epc = "dispatch" /\ AtNext /\ o = cursor
    /\ e \in available[o] /\ (e = "write" => "read" \notin available[o])
    /\ Callback(o)
    /\ ready' = [ready EXCEPT ![o] = @ \ {e}]
    /\ available' = [available EXCEPT ![o] = {"write"} \ {e}]
    /\ selected' = IF available'[o] = {} THEN selected - 1 ELSE selected
    /\ cursor' = IF available'[o] = {} THEN cursor + 1 ELSE cursor
    /\ wild' = (m_table[o] = {} \/ (available'[o] # {} /\ m_table' # m_table))
    /\ UNCHANGED <<epc, selObjs>>

\* The callback of the read event is called before that of the write event, with
\* the same iterator, which any change of the table in between makes wild. So is
\* what find() returns for a descriptor that is gone.
CallSelected(o, e) ==
    /\ epc = "dispatch" /\ AtNext /\ o = cursor
    /\ e \in available[o] /\ (e = "write" => "read" \notin available[o])
    /\ Callback(o)
    /\ ready' = [ready EXCEPT ![o] = @ \ {e}]
    /\ available' = [available EXCEPT ![o] = @ \ {e}]
    /\ selected' = IF available'[o] = {} THEN selected - 1 ELSE selected
    /\ cursor' = IF available'[o] = {} THEN cursor + 1 ELSE cursor
    /\ wild' = (m_table[o] = {} \/ (available'[o] # {} /\ m_table' # m_table))
    /\ UNCHANGED <<epc, selObjs>>

SkipObject ==
    /\ epc = "dispatch" /\ AtNext /\ available[cursor] = {}
    /\ cursor' = cursor + 1
    /\ UNCHANGED <<m_table, m_stopFlag, ready, epc, selObjs, available, selected, wild>>

\* Variant: the stop flag is looked at only when nothing was left over.
EndRound_ForgetsStop ==
    /\ epc = "dispatch" /\ ~AtNext
    /\ epc' = "round"
    /\ selObjs' = Nothing /\ available' = Nothing /\ selected' = 0 /\ cursor' = 1
    /\ UNCHANGED <<m_table, m_stopFlag, ready, wild>>

\* while (!m_stopFlag)
EndRound ==
    /\ epc = "dispatch" /\ ~AtNext
    /\ epc' = IF m_stopFlag THEN "out" ELSE "round"
    /\ selObjs' = Nothing /\ available' = Nothing /\ selected' = 0 /\ cursor' = 1
    /\ UNCHANGED <<m_table, m_stopFlag, ready, wild>>

GoStep ==
    /\ ~wild
    /\ \/ StartRound \/ Selected \/ SkipObject \/ EndRound
       \/ \E o \in Objects, e \in Events : CallSelected(o, e)

Next ==
    \/ Go \/ GoStep \/ SelectTimesOut
    \/ \E o \in Objects : AddSelectableObject(o) \/ RemoveSelectableObject(o) \/ BecomesReady(o)

Spec == Init /\ [][Next]_engineVars

FairSpec == Spec /\ WF_engineVars(GoStep)

(***************************************************************************)
(* Properties                                                              *)
(***************************************************************************)
\* Every variable keeps its type.
TypeOK ==
    /\ m_table \in [Objects -> SUBSET Events] /\ m_stopFlag \in BOOLEAN
    /\ ready \in [Objects -> SUBSET (Events \cup {"hangup", "error"})]
    /\ epc \in {"out", "round", "select", "dispatch"}
    /\ selObjs \in [Objects -> SUBSET Events] /\ available \in [Objects -> SUBSET Events]
    /\ selected \in Nat /\ cursor \in Nat /\ wild \in BOOLEAN

\* go() never calls through an iterator that points at nothing, although the
\* callbacks it calls change the table it has found them in: true as long as they
\* are Careful, which nothing tells them to be.
IteratorsArePointed == ~wild

\* What select() found is also called: no event is lost by the count of
\* descriptors with which the loop ends early.
NothingIsSkipped ==
    epc = "dispatch" /\ ~AtNext => \A o \in Objects : available[o] = {}

\* Whatever becomes ready of a registered descriptor is served as long as go()
\* runs, however busy and however broken the others are; and a stop ends it.
ReadyIsServed ==
    \A o \in Objects, e \in Events :
        epc # "out" /\ e \in m_table[o] /\ e \in ready[o]
            ~> epc = "out" \/ e \notin m_table[o] \/ e \notin ready[o]

\* stop(), which a callback calls in the middle of a round, ends go(), though more
\* events are waiting.
StopEndsGo == m_stopFlag ~> epc = "out" \/ ~m_stopFlag
=============================================================================
