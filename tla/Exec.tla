--------------------------------- MODULE Exec ---------------------------------
(***************************************************************************)
(* processInputOutput() of src/blocxx/Exec.cpp with one child process,     *)
(* over the pipes of src/blocxx/PosixUnnamedPipe.cpp: the parent feeds the *)
(* standard input of the child from a callback and hands what the child    *)
(* writes to another, which may answer with more input.                    *)
(*                                                                         *)
(* The bytes of the input are the numbers 1, 2, ... in the order in which  *)
(* the callbacks supply them; of the output only the amount is kept.       *)
(***************************************************************************)
EXTENDS Integers, Sequences

CONSTANTS
    InputSize,      \* how many bytes the InputCallback has
    Replies,        \* bound: how many bytes the OutputCallback adds
    Capacity,       \* of a pipe
    MaxOutput,      \* bound: what the child writes to each of its streams
    TimeoutTypes,   \* of "infinite", "relative", "reset"
    Limit,          \* the timeout
    MaxBusy         \* bound: how long the handling of one round takes

VARIABLES
    inputs,             \* inputs[i]
    availableDataLen,
    isOpen,             \* inIsOpen, outIsOpen, errIsOpen, as a set
    inClosed,           \* the InputCallback has closed the pipe to the child
    given, replied,     \* how many bytes the callbacks have supplied
    xpc,                \* "select", "handle", "write", then "done", "timeout" or "error"
    found,              \* what selectRW() found and is not handled yet
    written,            \* by the write() that is under way
    gathered,           \* what handleData() was given, from each stream
    timeoutType, left, spent,   \* the timer, and what it has not been told yet
    toChild, pipe,      \* the contents of the pipes
    childOpen,          \* the ends the child has open
    childWrites,        \* the stream the child wants to write to, or "none"
    wrote, received     \* what the child has written and read

parentVars == <<inputs, availableDataLen, isOpen, inClosed, given, replied, xpc, found, written,
                gathered, timeoutType, left, spent>>
childVars  == <<childOpen, childWrites, wrote, received>>
execVars   == <<parentVars, toChild, pipe, childVars>>

Outputs == {"out", "err"}
Nothing == [s \in Outputs |-> 0]

Bytes(first, last) == [i \in 1..(last - first + 1) |-> first + i - 1]
Supplied           == given + replied

\* processInputOutput() has called getData() for the first time.
Init ==
    /\ given \in 1..InputSize /\ replied = 0
    /\ inputs = Bytes(1, given) /\ availableDataLen = given
    /\ isOpen = {"in", "out", "err"} /\ inClosed = FALSE
    /\ xpc = "select" /\ found = {} /\ written = 0
    /\ gathered = Nothing
    /\ timeoutType \in TimeoutTypes /\ left = Limit /\ spent = 0
    /\ toChild = <<>> /\ pipe = Nothing
    /\ childOpen = {"in", "out", "err"} /\ childWrites = "none"
    /\ wrote = Nothing /\ received = <<>>

(***************************************************************************)
(* The child                                                               *)
(***************************************************************************)
ChildReads ==
    /\ childWrites = "none" /\ "in" \in childOpen /\ toChild # <<>>
    /\ received' = Append(received, Head(toChild))
    /\ toChild' = Tail(toChild)
    /\ UNCHANGED <<parentVars, pipe, childOpen, childWrites, wrote>>

\* It calls write(), which waits for room in the pipe.
ChildWantsToWrite(s) ==
    /\ childWrites = "none" /\ s \in childOpen /\ wrote[s] < MaxOutput
    /\ childWrites' = s
    /\ UNCHANGED <<parentVars, toChild, pipe, childOpen, wrote, received>>

ChildWrites ==
    /\ childWrites # "none" /\ pipe[childWrites] < Capacity
    /\ pipe' = [pipe EXCEPT ![childWrites] = @ + 1]
    /\ wrote' = [wrote EXCEPT ![childWrites] = @ + 1]
    /\ childWrites' = "none"
    /\ UNCHANGED <<parentVars, toChild, childOpen, received>>

\* Its exit closes all ends.
ChildCloses(ends) ==
    /\ childWrites = "none" /\ ends \subseteq childOpen
    /\ childOpen' = childOpen \ ends
    /\ UNCHANGED <<parentVars, toChild, pipe, childWrites, wrote, received>>

(***************************************************************************)
(* The select of a round                                                   *)
(***************************************************************************)
\* What is readable, an end of file included, and whether write() would not wait.
Ready ==
    {s \in Outputs \cap isOpen : pipe[s] > 0 \/ s \notin childOpen}
    \cup
    {s \in {"in"} \cap isOpen : /\ availableDataLen > 0 
                                /\ Len(toChild) < Capacity \/ s \notin childOpen}

\* The InputCallback has closed the pipe although a rest is still to be written.
ClosedTooEarly == inClosed /\ "in" \in isOpen /\ availableDataLen > 0

\* resetOnLoop(); a relative timeout shrinks, and nobody looks whether it is over.
Selected ==
    /\ xpc = "select" /\ ~ClosedTooEarly /\ Ready # {}
    /\ found' = Ready
    /\ xpc' = "handle"
    /\ left' = IF timeoutType = "reset" THEN Limit ELSE left - spent
    /\ spent' = 0
    /\ UNCHANGED <<inputs, availableDataLen, isOpen, inClosed, given, replied, written, gathered>>
    /\ UNCHANGED <<timeoutType, toChild, pipe, childVars>>

\* selectRW() asserts that the descriptor is valid.
SelectAsserts ==
    /\ xpc = "select" /\ ClosedTooEarly
    /\ xpc' = "error"
    /\ UNCHANGED <<inputs, availableDataLen, isOpen, inClosed, given, replied, found, written>>
    /\ UNCHANGED <<gathered, timeoutType, left, spent, toChild, pipe, childVars>>

\* A wait of a negative time lasts for ever.
SelectTimesOut ==
    /\ xpc = "select" /\ ~ClosedTooEarly /\ Ready = {}
    /\ timeoutType # "infinite" /\ left = 0
    /\ xpc' = "timeout"
    /\ UNCHANGED <<inputs, availableDataLen, isOpen, inClosed, given, replied, found, written>>
    /\ UNCHANGED <<gathered, timeoutType, left, spent, toChild, pipe, childVars>>

\* Time passes in selectRW() and in the handling of what it found.
TimePasses ==
    /\ timeoutType # "infinite"
    /\ \/ xpc = "select" /\ left > 0 /\ left' = left - 1 /\ UNCHANGED spent
       \/ xpc \in {"handle", "write"} /\ spent < MaxBusy /\ spent' = spent + 1 /\ UNCHANGED left
    /\ UNCHANGED <<inputs, availableDataLen, isOpen, inClosed, given, replied, xpc, found>>
    /\ UNCHANGED <<written, gathered, timeoutType, toChild, pipe, childVars>>

(***************************************************************************)
(* What the round found                                                    *)
(***************************************************************************)
\* The streams are handled in the order of selObjs: out, err, in.
IsNext(s) ==
    /\ xpc = "handle" /\ s \in found
    /\ s = "err" => "out" \notin found
    /\ s = "in" => found = {"in"}

\* handleData() of the OutputCallback, which may append to its inputBuffer.
HandleData(s) ==
    /\ gathered' = [gathered EXCEPT ![s] = @ + pipe[s]]
    /\ \E n \in 0..(IF "in" \in isOpen /\ ~inClosed THEN Replies - replied ELSE 0) :
          /\ inputs' = inputs \o Bytes(Supplied + 1, Supplied + n)
          /\ replied' = replied + n

Read(s) ==
    /\ IsNext(s) /\ pipe[s] > 0
    /\ HandleData(s)
    /\ pipe' = [pipe EXCEPT ![s] = 0]
    /\ found' = found \ {s}
    /\ UNCHANGED <<availableDataLen, isOpen, inClosed, given, xpc, written, timeoutType, left,
                   spent>>
    /\ UNCHANGED <<toChild, childVars>>

\* Variant: the end of the child is taken for the end of its output.
ReadEOF_AtHangup(s) ==
    /\ IsNext(s) /\ s \notin childOpen
    /\ isOpen' = isOpen \ {s}
    /\ found' = found \ {s}
    /\ UNCHANGED <<inputs, availableDataLen, inClosed, given, replied, xpc, written, gathered>>
    /\ UNCHANGED <<timeoutType, left, spent, toChild, pipe, childVars>>

\* Variant: the stream stays open.
ReadEOF_KeepsOpen(s) ==
    /\ IsNext(s) /\ pipe[s] = 0
    /\ found' = found \ {s}
    /\ UNCHANGED <<inputs, availableDataLen, isOpen, inClosed, given, replied, xpc, written>>
    /\ UNCHANGED <<gathered, timeoutType, left, spent, toChild, pipe, childVars>>

ReadEOF(s) ==
    /\ IsNext(s) /\ pipe[s] = 0
    /\ isOpen' = isOpen \ {s}
    /\ found' = found \ {s}
    /\ UNCHANGED <<inputs, availableDataLen, inClosed, given, replied, xpc, written, gathered>>
    /\ UNCHANGED <<timeoutType, left, spent, toChild, pipe, childVars>>

\* write(&inputs[offset], availableDataLen) begins.
BeginWrite ==
    /\ IsNext("in")
    /\ xpc' = "write" /\ written' = 0
    /\ UNCHANGED <<inputs, availableDataLen, isOpen, inClosed, given, replied, found, gathered>>
    /\ UNCHANGED <<timeoutType, left, spent, toChild, pipe, childVars>>

\* It waits for room until everything is written.
WriteByte ==
    LET offset == Len(inputs) - availableDataLen IN
    /\ xpc = "write" /\ written < availableDataLen
    /\ "in" \in childOpen /\ Len(toChild) < Capacity
    /\ toChild' = Append(toChild, inputs[offset + written + 1])
    /\ written' = written + 1
    /\ UNCHANGED <<inputs, availableDataLen, isOpen, inClosed, given, replied, xpc, found,
                   gathered>>
    /\ UNCHANGED <<timeoutType, left, spent, pipe, childVars>>

\* Variant: what has been written stays in the buffer.
WriteReturns_WithoutErase ==
    /\ xpc = "write" /\ written > 0
    /\ written = availableDataLen \/ "in" \notin childOpen
    /\ \E n \in 0..(InputSize - given) :
          /\ inputs' = inputs \o Bytes(Supplied + 1, Supplied + n)
          /\ given' = given + n
          /\ inClosed' = (n = 0)
    /\ availableDataLen' = Len(inputs')
    /\ xpc' = "handle" /\ found' = {} /\ written' = 0
    /\ UNCHANGED <<isOpen, replied, gathered, timeoutType, left, spent, toChild, pipe, childVars>>

\* Variant: availableDataLen is set before what has been written is erased.
WriteReturns_KeepsLength ==
    LET rest == SubSeq(inputs, written + 1, Len(inputs)) IN
    /\ xpc = "write" /\ written > 0
    /\ written = availableDataLen \/ "in" \notin childOpen
    /\ availableDataLen' = Len(inputs)
    /\ \E n \in 0..(InputSize - given) :
          /\ inputs' = rest \o Bytes(Supplied + 1, Supplied + n)
          /\ given' = given + n
          /\ inClosed' = (n = 0)
    /\ xpc' = "handle" /\ found' = {} /\ written' = 0
    /\ UNCHANGED <<isOpen, replied, gathered, timeoutType, left, spent, toChild, pipe, childVars>>

\* The rest is written later, if the child is gone then for nothing. getData()
\* supplies more or closes the pipe.
WriteReturns ==
    LET rest == SubSeq(inputs, written + 1, Len(inputs)) IN
    /\ xpc = "write" /\ written > 0
    /\ written = availableDataLen \/ "in" \notin childOpen
    /\ \E n \in 0..(InputSize - given) :
          /\ inputs' = rest \o Bytes(Supplied + 1, Supplied + n)
          /\ given' = given + n
          /\ inClosed' = (n = 0)
    /\ availableDataLen' = Len(inputs')
    /\ xpc' = "handle" /\ found' = {} /\ written' = 0
    /\ UNCHANGED <<isOpen, replied, gathered, timeoutType, left, spent, toChild, pipe, childVars>>

\* EPIPE: nobody reads the input any more.
WriteFails ==
    /\ xpc = "write" /\ written = 0 /\ "in" \notin childOpen
    /\ isOpen' = isOpen \ {"in"}
    /\ xpc' = "handle" /\ found' = {}
    /\ UNCHANGED <<inputs, availableDataLen, inClosed, given, replied, written, gathered>>
    /\ UNCHANGED <<timeoutType, left, spent, toChild, pipe, childVars>>

\* while (numOpenPipes > 0)
EndRound ==
    /\ xpc = "handle" /\ found = {}
    /\ xpc' = IF isOpen \cap Outputs = {} THEN "done" ELSE "select"
    /\ UNCHANGED <<inputs, availableDataLen, isOpen, inClosed, given, replied, found, written>>
    /\ UNCHANGED <<gathered, timeoutType, left, spent, toChild, pipe, childVars>>

-----------------------------------------------------------------------------
ParentSteps ==
    \/ Selected \/ SelectAsserts \/ SelectTimesOut
    \/ \E s \in Outputs : Read(s) \/ ReadEOF(s)
    \/ BeginWrite \/ WriteByte \/ WriteReturns \/ WriteFails \/ EndRound

ChildSteps ==
    \/ ChildReads \/ ChildWrites
    \/ \E s \in Outputs : ChildWantsToWrite(s)
    \/ \E ends \in {{"in"}, {"out"}, {"err"}, {"in", "out", "err"} \cap childOpen} \ {{}} :
          ChildCloses(ends)

Next == ParentSteps \/ ChildSteps \/ TimePasses

Spec == Init /\ [][Next]_execVars

\* Time passes, and the parent runs; the child need not.
FairSpec == Spec /\ WF_execVars(ParentSteps) /\ WF_execVars(TimePasses)

(***************************************************************************)
(* Properties                                                              *)
(***************************************************************************)
\* Every variable keeps its type.
TypeOK ==
    /\ inputs \in Seq(1..(InputSize + Replies)) /\ availableDataLen \in 0..Len(inputs)
    /\ isOpen \subseteq {"in"} \cup Outputs /\ found \subseteq isOpen
    /\ inClosed \in BOOLEAN /\ given \in 0..InputSize /\ replied \in 0..Replies
    /\ xpc \in {"select", "handle", "write", "done", "timeout", "error"}
    /\ written \in 0..Len(inputs)
    /\ gathered \in [Outputs -> 0..MaxOutput] /\ wrote \in [Outputs -> 0..MaxOutput]
    /\ pipe \in [Outputs -> 0..Capacity] /\ Len(toChild) \in 0..Capacity
    /\ timeoutType \in TimeoutTypes /\ left \in Int /\ spent \in 0..MaxBusy
    /\ childOpen \subseteq {"in"} \cup Outputs /\ childWrites \in {"none"} \cup Outputs

\* The bytes the callbacks supply reach the child, all of them, once and in their
\* order, unless the child stops reading them: also those that the OutputCallback
\* "may provide via the inputBuffer parameter" (Exec.hpp).
InputArrives ==
    LET arrived == received \o toChild IN
    /\ \A i \in DOMAIN arrived : arrived[i] = i
    /\ inClosed /\ "in" \in childOpen => Len(arrived) = Supplied

\* When processInputOutput() returns, everything the child has written was handed on,
\* though the child may have ended long before.
OutputIsComplete == xpc = "done" => gathered = wrote

\* processInputOutput() returns or throws: when the child has ended, and with a timeout
\* that output resets even if the child never ends, reads or writes.
ProcessingEnds ==
    timeoutType = "reset" \/ childOpen = {} ~> xpc \in {"done", "timeout", "error"}
=============================================================================
