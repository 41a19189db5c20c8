------------------------------ MODULE UTF8Utils ------------------------------
(***************************************************************************)
(* The conversions of src/blocxx/UTF8Utils.cpp between code points and     *)
(* UTF-8, and String::toLowerCase(), which maps a string in place and      *)
(* falls back on a copy.  A string is a sequence of bytes with its         *)
(* terminator 0.  A text is made one character at a time, and then either  *)
(* converted to UCS-2 or put in lower case.                                *)
(***************************************************************************)
EXTENDS Integers, Sequences, FiniteSets

CONSTANTS
    CodePoints,     \* those that a text is made of, beside bytes that are no character
    MaxLength       \* bound: code points in a text

VARIABLES
    text,           \* history: the code points of the string
    starts,         \* history: where each of them was put
    mode,           \* "typing", then where StringToUCS2() or toLowerCase() is
    m_buf,          \* the string
    from, output,   \* the pointers of a loop, p and output
    rval            \* what a loop has made so far: elements, or bytes

utf8Vars == <<text, starts, mode, m_buf, from, output, rval>>

Bad == -1

(***************************************************************************)
(* One character                                                           *)
(***************************************************************************)
\* SequenceLengthTable
SequenceLength(c0) ==
    CASE c0 < 128                -> 1
      [] 194 <= c0 /\ c0 < 224   -> 2
      [] 224 <= c0 /\ c0 < 240   -> 3
      [] 240 <= c0 /\ c0 <= 244  -> 4
      [] OTHER                   -> 0

\* The character of s at an index. The lead byte of four keeps two bits.
UTF8toUCS4(s, at) ==
    LET n == SequenceLength(s[at])
        Six(k) == s[at + k] % 64
    IN  IF n = 0 \/ \E k \in 1..(n - 1) : s[at + k] = 0 THEN Bad
        ELSE CASE n = 1 -> s[at]
               [] n = 2 -> (s[at] % 32) * 64 + Six(1)
               [] n = 3 -> (s[at] % 16) * 4096 + Six(1) * 64 + Six(2)
               [] n = 4 -> (s[at] % 4) * 262144 + Six(1) * 4096 + Six(2) * 64 + Six(3)

\* Variant: the bits in front of the six are kept.
Continuation_Unmasked(c, place) == 128 + (c \div place)

\* 0x80 and six bits of c.
Continuation(c, place) == 128 + ((c \div place) % 64)

UCS4toUTF8(c) ==
    CASE c < 128                 -> <<c>>
      [] 128 <= c /\ c < 2048    -> <<192 + (c \div 64), Continuation(c, 1)>>
      [] 2048 <= c /\ c < 65536  -> <<224 + (c \div 4096), Continuation(c, 64),
                                     Continuation(c, 1)>>
      [] OTHER                   -> <<240 + (c \div 262144), Continuation(c, 4096),
                                     Continuation(c, 64), Continuation(c, 1)>>

\* The bytes of a text's element. Bad stands for a byte that is no character.
BytesOf(c) == IF c = Bad THEN <<128>> ELSE UCS4toUTF8(c)

\* Transformer with three of the lowerMappings: one keeps its length, two shrink.
Lower(c) ==
    CASE c = 65   -> 97
      [] c = 304  -> 105
      [] c = 8490 -> 107
      [] OTHER    -> c

\* s with the bytes at an index replaced.
Overwritten(s, at, bytes) ==
    [i \in DOMAIN s |-> IF i \in at..(at + Len(bytes) - 1) THEN bytes[i - at + 1] ELSE s[i]]

(***************************************************************************)
(* A string is made, UCS4toUTF8() by UCS4toUTF8()                          *)
(***************************************************************************)
Init ==
    /\ text = <<>> /\ starts = <<>> /\ mode = "typing" /\ m_buf = <<0>>
    /\ from = 1 /\ output = 1 /\ rval = <<>>

Type(c) ==
    /\ mode = "typing" /\ Len(text) < MaxLength
    /\ text' = Append(text, c) /\ starts' = Append(starts, Len(m_buf))
    /\ m_buf' = SubSeq(m_buf, 1, Len(m_buf) - 1) \o Append(BytesOf(c), 0)
    /\ UNCHANGED <<mode, from, output, rval>>

\* The characters of a string with its terminator at the end: no byte 0x80 to 0xBF is
\* the first of one.
charCount(s) == Cardinality({i \in 1..(Len(s) - 1) : s[i] < 128 \/ s[i] > 191})

(***************************************************************************)
(* StringToUCS2(), the version that throws                                 *)
(***************************************************************************)
ToUCS2 ==
    /\ mode = "typing"
    /\ mode' = "toUCS2"
    /\ UNCHANGED <<text, starts, m_buf, from, output, rval>>

\* The rounds of the loop.
ConvertCharacter ==
    /\ mode = "toUCS2" /\ from < Len(m_buf)
    /\ LET n == SequenceLength(m_buf[from])
           c == UTF8toUCS4(m_buf, from)
       IN  IF n = 4 \/ c = Bad
             THEN mode' = "thrown" /\ UNCHANGED <<from, rval>>
             ELSE from' = from + n /\ rval' = Append(rval, c) /\ UNCHANGED mode
    /\ UNCHANGED <<text, starts, m_buf, output>>

EndConversion ==
    /\ mode = "toUCS2" /\ from >= Len(m_buf)
    /\ mode' = "converted"
    /\ UNCHANGED <<text, starts, m_buf, from, output, rval>>

(***************************************************************************)
(* toLowerCase(): transformInPlace() and transform()                       *)
(***************************************************************************)
ToLowerCase ==
    /\ mode = "typing"
    /\ mode' = "inPlace"
    /\ UNCHANGED <<text, starts, m_buf, from, output, rval>>

MapCharacter ==
    /\ mode = "inPlace" /\ m_buf[from] # 0 /\ from <= output
    /\ LET c == UTF8toUCS4(m_buf, from)
           new == UCS4toUTF8(Lower(c))
       IN  IF c = Bad
             THEN from' = from + 1 /\ output' = output + 1 /\ UNCHANGED m_buf
             ELSE /\ m_buf' = Overwritten(m_buf, output, new)
                  /\ from' = from + SequenceLength(m_buf[from])
                  /\ output' = output + Len(new)
    /\ UNCHANGED <<text, starts, mode, rval>>

\* Bytes that are no character are passed over, even if the string has shrunk.
PassOver ==
    /\ mode = "inPlace" /\ from > output
    /\ m_buf[from] # 0 /\ UTF8toUCS4(m_buf, from) = Bad
    /\ from' = from + 1 /\ output' = output + 1
    /\ UNCHANGED <<text, starts, mode, m_buf, rval>>

\* Variant: the string keeps its old end.
EndInPlace_Unterminated ==
    /\ mode = "inPlace" /\ m_buf[from] = 0
    /\ mode' = "done"
    /\ UNCHANGED <<text, starts, m_buf, from, output, rval>>

EndInPlace ==
    /\ mode = "inPlace" /\ m_buf[from] = 0
    /\ m_buf' = Overwritten(m_buf, output, <<0>>)
    /\ mode' = "done"
    /\ UNCHANGED <<text, starts, from, output, rval>>

\* transformInPlace() returns false once the string has shrunk, and String maps a copy of
\* what is there by then,
FallBack ==
    /\ mode = "inPlace" /\ from > output
    /\ m_buf[from] # 0 /\ UTF8toUCS4(m_buf, from) # Bad
    /\ mode' = "transform" /\ from' = 1
    /\ UNCHANGED <<text, starts, m_buf, output, rval>>

\* where what is no character is copied byte by byte.
TransformCharacter ==
    /\ mode = "transform" /\ m_buf[from] # 0
    /\ LET c == UTF8toUCS4(m_buf, from)
       IN  IF c = Bad
             THEN rval' = Append(rval, m_buf[from]) /\ from' = from + 1
             ELSE /\ rval' = rval \o UCS4toUTF8(Lower(c))
                  /\ from' = from + SequenceLength(m_buf[from])
    /\ UNCHANGED <<text, starts, mode, m_buf, output>>

EndTransform ==
    /\ mode = "transform" /\ m_buf[from] = 0
    /\ m_buf' = Append(rval, 0)
    /\ mode' = "done"
    /\ UNCHANGED <<text, starts, from, output, rval>>

Next ==
    \/ \E c \in CodePoints \cup {Bad} : Type(c)
    \/ ToUCS2 \/ ConvertCharacter \/ EndConversion
    \/ ToLowerCase \/ MapCharacter \/ PassOver \/ EndInPlace
    \/ FallBack \/ TransformCharacter \/ EndTransform

Spec == Init /\ [][Next]_utf8Vars

(***************************************************************************)
(* Properties                                                              *)
(***************************************************************************)
Byte == 0..255

TypeOK ==
    /\ text \in Seq(CodePoints \cup {Bad}) /\ starts \in Seq(Nat)
    /\ mode \in {"typing", "toUCS2", "thrown", "converted", "inPlace", "transform", "done"}
    /\ m_buf \in Seq(Byte) /\ rval \in Seq(Nat)
    /\ from \in Nat \ {0} /\ output \in Nat \ {0}

\* No loop reads behind the terminator, stray bytes or not, and transformInPlace() never
\* writes in front of what it has yet to read ("can't grow the string, only shrink it").
PointersStayInside ==
    mode # "done" => /\ m_buf[Len(m_buf)] = 0 /\ from <= Len(m_buf)
                     /\ mode = "inPlace" => output <= from

\* UTF8toUCS4() keeps two of three bits of a lead byte of four.
Decodable(c) == c < 1048576

\* Every character is found again where it was put, and the string has as many as were
\* put there; a character cut short by the end of the string is recognised
\* (UTF8Utils.hpp: "0xFFFFFFFF if utf8char points to an invalid UTF-8 sequence").
TextSurvives ==
    /\ mode = "typing" =>
          /\ \A n \in 1..Len(text) :
                Decodable(text[n]) => UTF8toUCS4(m_buf, starts[n]) = text[n]
          /\ charCount(m_buf) = Cardinality({n \in 1..Len(text) : text[n] # Bad})
    /\ \A c \in CodePoints : \A k \in 1..(Len(UCS4toUTF8(c)) - 1) :
          UTF8toUCS4(Append(SubSeq(UCS4toUTF8(c), 1, k), 0), 1) = Bad

\* StringToUCS2() finds the text, or throws at the first element that does not fit.
TextIsFound ==
    LET Fits(n) == text[n] # Bad /\ text[n] < 65536
    IN  /\ mode = "converted" => rval = text /\ \A n \in 1..Len(text) : Fits(n)
        /\ mode = "thrown" => LET n == Len(rval) + 1
                              IN  n <= Len(text) /\ ~Fits(n) /\ rval = SubSeq(text, 1, n - 1)

\* toLowerCase() maps every character and keeps the others, and the string ends behind
\* the last of them, if it shrinks at its last character at most.
CaseIsMapped ==
    LET Shrinks(c) == Len(BytesOf(Lower(c))) < Len(BytesOf(c))
        New(n) == BytesOf(Lower(text[n]))
    IN  /\ mode = "done"
        /\ \A n \in 1..Len(text) : Decodable(text[n]) /\ (n < Len(text) => ~Shrinks(text[n]))
        => /\ \A n \in 1..Len(text) : \A k \in 1..Len(New(n)) :
                 m_buf[starts[n] + k - 1] = New(n)[k]
           /\ m_buf[IF text = <<>> THEN 1
                    ELSE starts[Len(text)] + Len(New(Len(text)))] = 0

TextIsConverted == PointersStayInside /\ TextSurvives /\ TextIsFound /\ CaseIsMapped
=============================================================================
