--------------------------- MODULE TempFileBuffer ---------------------------
(***************************************************************************)
(* TempFileBuffer of src/blocxx/TempFileStream.cpp: a streambuf with one   *)
(* buffer for reading and for writing, which goes to a temporary file once *)
(* it is full.  Null pointers are the get area without "getting" and the   *)
(* put area without "putting"; their offsets are 0 then, as the code's     *)
(* pointer differences are.  A byte is the number of the write that put it *)
(* there.  Writing the file always succeeds.                               *)
(***************************************************************************)
EXTENDS Integers, Sequences

CONSTANTS
    BufSize,        \* m_bufSize
    MaxBytes,       \* bound: bytes ever written
    Eof,            \* what reading returns at the end; no byte
    Careful         \* the caller keeps out of the cases that CallerIsCareful names

VARIABLES
    m_buffer,
    getting, gptr, egptr,   \* the get area, as offsets into m_buffer
    putting, pptr,          \* the put area, which ends with m_buffer
    m_tempFile,             \* the file is open
    file, pos,              \* its contents and its position
    m_readPos, m_writePos, m_isEOF,
    rewound,                \* history: rewind() was called when the file was open
    written, answer,        \* history: bytes ever written; what the last call returned
    released                \* history: contents of the file that was handed over last

tempFileVars == <<m_buffer, getting, gptr, egptr, putting, pptr, m_tempFile, file, pos,
                  m_readPos, m_writePos, m_isEOF, rewound, written, answer, released>>

Init ==
    /\ m_buffer = [i \in 1..BufSize |-> 0]
    /\ getting = FALSE /\ gptr = 0 /\ egptr = 0
    /\ putting = TRUE /\ pptr = 0
    /\ m_tempFile = FALSE /\ file = <<>> /\ pos = 0
    /\ m_readPos = 0 /\ m_writePos = 0 /\ m_isEOF = FALSE
    /\ rewound = FALSE /\ written = 0 /\ answer = Eof /\ released = <<>>

(***************************************************************************)
(* The buffer and the file                                                 *)
(***************************************************************************)
\* A file f after n bytes of the buffer were written at an offset of it.
AfterWrite(f, at, n) ==
    [i \in 1..(IF at + n > Len(f) THEN at + n ELSE Len(f)) |->
        IF i \in (at + 1)..(at + n) THEN m_buffer[i - at] ELSE f[i]]

\* setg(m_buffer, m_buffer + cur, m_buffer + end)
SetG(cur, end) == getting' = TRUE /\ gptr' = cur /\ egptr' = end

NoG == getting' = FALSE /\ gptr' = 0 /\ egptr' = 0

SetP(offset) == putting' = TRUE /\ pptr' = offset

NoP == putting' = FALSE /\ pptr' = 0

\* The caller writes nothing between rewinding a file and reset(), does not read an empty
\* stream it has not rewound, does not ask for the size of a stream in memory that it
\* reads and then writes on, nor for the file of one that it reads in memory.
CallerIsCareful(call) ==
    Careful => CASE call = "write"   -> ~rewound
                 [] call = "read"    -> ~(putting /\ ~m_tempFile /\ pptr = 0)
                 [] call = "getSize" -> ~(putting /\ ~m_tempFile /\ m_writePos > 0)
                 [] call = "release" -> m_tempFile \/ putting

(***************************************************************************)
(* Writing                                                                 *)
(***************************************************************************)
\* sputc() with overflow(): from reading to writing, then through a full buffer, if
\* need be both.
Write ==
    /\ written < MaxBytes /\ CallerIsCareful("write")
    /\ written' = written + 1 /\ answer' = written'
    /\ LET from == IF putting THEN pptr ELSE IF m_tempFile THEN 0 ELSE m_writePos
           at   == IF ~putting /\ m_tempFile THEN m_writePos ELSE pos
           full == from = BufSize
           slot == IF full THEN 0 ELSE from
       IN  /\ file' = IF full THEN AfterWrite(file, at, BufSize) ELSE file
           /\ pos' = IF full THEN at + BufSize ELSE at
           /\ m_tempFile' = (m_tempFile \/ full)
           /\ m_buffer' = [m_buffer EXCEPT ![slot + 1] = written']
           /\ SetP(slot + 1)
    /\ m_readPos' = IF putting THEN m_readPos
                    ELSE IF m_tempFile THEN pos - (egptr - gptr) ELSE gptr
    /\ NoG
    /\ UNCHANGED <<m_writePos, m_isEOF, rewound, released>>

(***************************************************************************)
(* Reading                                                                 *)
(***************************************************************************)
\* The next byte is in the buffer.
ReadBuffered ==
    /\ getting /\ gptr < egptr
    /\ answer' = m_buffer[gptr + 1] /\ gptr' = gptr + 1
    /\ UNCHANGED <<m_buffer, getting, egptr, putting, pptr, m_tempFile, file, pos,
                   m_readPos, m_writePos, m_isEOF, rewound, written, released>>

ReadAtEnd ==
    /\ m_isEOF
    /\ answer' = Eof
    /\ UNCHANGED <<m_buffer, getting, gptr, egptr, putting, pptr, m_tempFile, file, pos,
                   m_readPos, m_writePos, m_isEOF, rewound, written, released>>

\* buffer_in() at an offset of a file f, and the first byte of what it read.
BufferIn(f, at) ==
    LET n == IF Len(f) - at < BufSize THEN Len(f) - at ELSE BufSize
    IN  IF n <= 0
          THEN NoG /\ m_isEOF' = TRUE /\ answer' = Eof /\ pos' = at /\ UNCHANGED m_buffer
          ELSE /\ m_buffer' = [i \in 1..BufSize |-> IF i <= n THEN f[at + i] ELSE m_buffer[i]]
               /\ SetG(1, n) /\ pos' = at + n /\ answer' = m_buffer'[1]
               /\ UNCHANGED m_isEOF

\* underflow() when it has read all of its buffer; without a file there is no more.
Underflow ==
    /\ ~m_isEOF /\ getting /\ gptr >= egptr
    /\ BufferIn(file, IF m_tempFile THEN pos ELSE Len(file))
    /\ UNCHANGED <<putting, pptr, m_tempFile, file, m_readPos, m_writePos, rewound,
                   written, released>>

\* Variant: the place where writing goes on is not noted.
SwitchToInput_NoNote ==
    /\ ~m_isEOF /\ ~getting /\ CallerIsCareful("read")
    /\ IF m_tempFile
         THEN /\ file' = AfterWrite(file, pos, pptr)
              /\ BufferIn(file', m_readPos)
              /\ IF getting' THEN NoP ELSE SetP(0)
         ELSE /\ SetG(m_readPos + 1, pptr) /\ NoP
              /\ answer' = m_buffer[m_readPos + 1]
              /\ UNCHANGED <<m_buffer, file, pos, m_isEOF>>
    /\ UNCHANGED <<m_tempFile, m_readPos, m_writePos, rewound, written, released>>

\* underflow() in output mode. If there is nothing to read the stream stays in it.
SwitchToInput ==
    /\ ~m_isEOF /\ ~getting /\ CallerIsCareful("read")
    /\ IF m_tempFile
         THEN /\ file' = AfterWrite(file, pos, pptr) /\ m_writePos' = pos + pptr
              /\ BufferIn(file', m_readPos)
              /\ IF getting' THEN NoP ELSE SetP(0)
         ELSE /\ m_writePos' = pptr
              /\ SetG(m_readPos + 1, pptr) /\ NoP
              /\ answer' = m_buffer[m_readPos + 1]
              /\ UNCHANGED <<m_buffer, file, pos, m_isEOF>>
    /\ UNCHANGED <<m_tempFile, m_readPos, rewound, written, released>>

(***************************************************************************)
(* The other calls                                                         *)
(***************************************************************************)
GetSize ==
    /\ CallerIsCareful("getSize")
    /\ answer' = IF getting /\ ~m_tempFile THEN egptr
                 ELSE (IF m_tempFile THEN Len(file) ELSE m_writePos) + pptr
    /\ UNCHANGED <<m_buffer, getting, gptr, egptr, putting, pptr, m_tempFile, file, pos,
                   m_readPos, m_writePos, m_isEOF, rewound, written, released>>

Rewind ==
    /\ m_readPos' = 0
    /\ IF m_tempFile
         THEN /\ m_writePos' = m_writePos + pptr
              /\ file' = AfterWrite(file, pos, pptr) /\ pos' = 0
              /\ SetG(0, 0)
              /\ rewound' = TRUE
         ELSE /\ m_writePos' = IF putting THEN pptr ELSE IF getting THEN egptr ELSE m_writePos
              /\ SetG(0, m_writePos')
              /\ UNCHANGED <<file, pos, rewound>>
    /\ NoP
    /\ m_isEOF' = FALSE
    /\ UNCHANGED <<m_buffer, m_tempFile, written, answer, released>>

BackToInitialState ==
    /\ m_tempFile' = FALSE /\ file' = <<>> /\ pos' = 0
    /\ m_writePos' = 0 /\ m_readPos' = 0
    /\ NoG /\ SetP(0)
    /\ m_isEOF' = FALSE
    /\ rewound' = FALSE
    /\ UNCHANGED <<m_buffer, written, answer>>

Reset == BackToInitialState /\ UNCHANGED released

\* What the buffer holds goes to the file, which is then closed but not removed.
ReleaseFileAndReset ==
    /\ CallerIsCareful("release")
    /\ released' = AfterWrite(file, pos, pptr)
    /\ BackToInitialState

Next ==
    \/ Write
    \/ ReadBuffered \/ ReadAtEnd \/ Underflow \/ SwitchToInput
    \/ GetSize \/ Rewind \/ Reset \/ ReleaseFileAndReset

Spec == Init /\ [][Next]_tempFileVars

(***************************************************************************)
(* The stream that the two areas and the file amount to                    *)
(***************************************************************************)
streamData ==
    IF m_tempFile THEN AfterWrite(file, pos, pptr)
    ELSE SubSeq(m_buffer, 1, IF putting THEN pptr ELSE IF getting THEN egptr ELSE m_writePos)

readPosition ==
    IF ~getting THEN m_readPos ELSE IF m_tempFile THEN pos - (egptr - gptr) ELSE gptr

Stream == INSTANCE ByteStream
            WITH data   <- streamData,
                 unread <- IF m_isEOF THEN <<>>
                           ELSE SubSeq(streamData, readPosition + 1, Len(streamData)),
                 ended  <- m_isEOF

\* Through whatever sequence of writing, reading, rewinding and going to the file, the
\* bytes come out as they went in, each once, and the size and the released file are
\* those of all the data, for a caller that is careful (TempFileStream.hpp: "an iostream
\* similar to a stringstream ... Once the buffer is full, it switches to write to a temp
\* file").
ImplementsStream == Stream!Spec
=============================================================================
