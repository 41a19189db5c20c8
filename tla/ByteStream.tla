----------------------------- MODULE ByteStream -----------------------------
(***************************************************************************)
(* What TempFileStream.hpp promises: a stream that is written at its end   *)
(* and read from a position of its own, wherever its data are kept.        *)
(***************************************************************************)
EXTENDS Naturals, Sequences

CONSTANTS MaxBytes, Eof

VARIABLES
    written,    \* number of bytes ever written; a byte is its own number
    data,       \* what the stream holds
    unread,     \* what reading has yet to deliver
    ended,      \* a read has met the end, and says so until the stream is rewound
    answer,     \* what the last call returned
    released    \* the contents of the file that was handed over last

streamVars == <<written, data, unread, ended, answer, released>>

Init ==
    /\ written = 0 /\ data = <<>> /\ unread = <<>>
    /\ ended = FALSE /\ answer = Eof /\ released = <<>>

Write ==
    /\ written < MaxBytes
    /\ written' = written + 1
    /\ data' = Append(data, written')
    /\ unread' = IF ended THEN unread ELSE Append(unread, written')
    /\ answer' = written'
    /\ UNCHANGED <<ended, released>>

Read ==
    /\ IF unread = <<>>
         THEN ended' = TRUE /\ answer' = Eof /\ UNCHANGED unread
         ELSE answer' = Head(unread) /\ unread' = Tail(unread) /\ UNCHANGED ended
    /\ UNCHANGED <<written, data, released>>

GetSize == answer' = Len(data) /\ UNCHANGED <<written, data, unread, ended, released>>

Rewind ==
    /\ unread' = data /\ ended' = FALSE
    /\ UNCHANGED <<written, data, answer, released>>

Empty ==
    /\ data' = <<>> /\ unread' = <<>> /\ ended' = FALSE
    /\ UNCHANGED <<written, answer>>

Reset == Empty /\ UNCHANGED released

ReleaseFileAndReset == Empty /\ released' = data

Next == Write \/ Read \/ GetSize \/ Rewind \/ Reset \/ ReleaseFileAndReset

Spec == Init /\ [][Next]_streamVars
=============================================================================
