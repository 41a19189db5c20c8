-------------------------------- MODULE UUID --------------------------------
(***************************************************************************)
(* UUID::UUID() of src/blocxx/UUID.cpp, the identifiers made by one        *)
(* process, whose threads take turns under g_guard.  An identifier is its  *)
(* timestamp and its clock sequence, as the node is the same in all of     *)
(* them.                                                                   *)
(***************************************************************************)
EXTENDS Naturals, Sequences

CONSTANTS
    Resolution,     \* units of 100 ns between two readings of the system clock that differ
    MaxReading,     \* bound: the last reading, in steps of the clock
    MaxIds,         \* bound: identifiers made; at most Resolution
    StepsBack       \* the system clock may be set back

VARIABLES
    clock,          \* what gettimeofday() says
    timeLast,       \* the reading of the last identifier; 0 stands for !currentTimeInited
    uuidsThisTick,
    g_state,        \* timestamp and clockSequence of the generator
    made            \* history: the identifiers made

uuidVars == <<clock, timeLast, uuidsThisTick, g_state, made>>

Init ==
    /\ clock = Resolution
    /\ timeLast = 0 /\ uuidsThisTick = 0
    /\ g_state = [timestamp |-> 0, clockSequence |-> 0]
    /\ made = <<>>

ClockAdvances ==
    /\ clock < MaxReading * Resolution
    /\ clock' = clock + Resolution
    /\ UNCHANGED <<timeLast, uuidsThisTick, g_state, made>>

ClockIsSetBack ==
    /\ StepsBack
    /\ \E steps \in 1..(MaxReading - 1) : clock' = steps * Resolution /\ clock' < clock
    /\ UNCHANGED <<timeLast, uuidsThisTick, g_state, made>>

\* Variant: identifiers of the same reading are not counted.
GetCurrentTime_NoCount(last, count) ==
    last = clock /\ count = 0

\* getCurrentTime(): timeLast and uuidsThisTick afterwards. The first call reads the clock
\* twice and may see it change in between.
GetCurrentTime(last, count) ==
    /\ last = clock
    /\ CASE timeLast = 0     -> count \in {0, 1}
         [] timeLast = clock -> count = uuidsThisTick + 1
         [] OTHER            -> count = 0

\* The state is saved with the timestamp it had before.
MakeUUID ==
    /\ Len(made) < MaxIds
    /\ \E count \in 0..MaxIds :
          /\ GetCurrentTime(timeLast', count) /\ uuidsThisTick' = count
          /\ LET timestamp == timeLast' + count
                 last_time == g_state.timestamp
                 clockseq  == IF timestamp < last_time THEN g_state.clockSequence + 1
                                                       ELSE g_state.clockSequence
             IN  /\ g_state' = [timestamp |-> last_time, clockSequence |-> clockseq]
                 /\ made' = Append(made, <<timestamp, clockseq>>)
    /\ UNCHANGED clock

Next == ClockAdvances \/ ClockIsSetBack \/ MakeUUID

Spec == Init /\ [][Next]_uuidVars

(***************************************************************************)
(* Properties                                                              *)
(***************************************************************************)
\* No identifier is made twice, if no more are asked for between two readings of the
\* clock that differ than the step between them has units ("If clock went backwards (can
\* happen if system clock resolution is low), change clockseq", UUID.cpp).
IdsAreUnique == \A i, j \in 1..Len(made) : made[i] = made[j] => i = j
=============================================================================
