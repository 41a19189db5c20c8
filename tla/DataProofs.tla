----------------------------- MODULE DataProofs -----------------------------
(***************************************************************************)
(* Proofs about components that keep data, under the names that MCSystem   *)
(* gives them: what is written to a stream is read from it, lines stay in  *)
(* the log in their order, and a text is the same in another encoding.     *)
(***************************************************************************)
EXTENDS MCSystem, FiniteSetTheorems, SequenceTheorems, TLAPS

(***************************************************************************)
(* TempFileBuffer, which implements ByteStream                             *)
(***************************************************************************)
TempAssumption == BufSize \in Nat \ {0} /\ MaxBytes \in Nat

TempTypes ==
    /\ m_buffer \in [1..BufSize -> Nat] /\ bytes \in Nat
    /\ getting \in BOOLEAN /\ putting \in BOOLEAN /\ m_tempFile \in BOOLEAN
    /\ m_isEOF \in BOOLEAN /\ rewound \in BOOLEAN
    /\ gptr \in 0..BufSize /\ egptr \in 0..BufSize /\ pptr \in 0..BufSize
    /\ file \in Seq(Nat) /\ pos \in 0..Len(file)
    /\ m_readPos \in Nat /\ m_writePos \in Nat

\* The areas exclude each other, and there is always one but at the end of the stream.
AreasExclude ==
    /\ ~(getting /\ putting)
    /\ ~getting => gptr = 0 /\ egptr = 0
    /\ ~putting => pptr = 0
    /\ ~getting /\ ~putting => m_isEOF
    /\ getting => ~m_isEOF /\ gptr <= egptr

\* In memory the areas begin with the data, of which m_writePos is the length unless they
\* are being written.
DataInMemory ==
    ~m_tempFile =>
        /\ file = <<>> /\ pos = 0 /\ ~rewound
        /\ m_writePos <= BufSize
        /\ getting => egptr = m_writePos
        /\ putting => m_readPos <= pptr /\ (pptr > 0 => m_readPos < pptr)

\* What is written is to follow the file; what is read is a copy of the part of the file
\* before its position; and m_writePos knows the end, but after rewind().
DataInFile ==
    m_tempFile =>
        /\ putting => pos = Len(file) /\ ~rewound /\ m_readPos <= Len(file) + pptr
        /\ ~putting /\ ~rewound => m_writePos = Len(file)
        /\ getting => /\ egptr <= pos
                      /\ \A i \in 1..egptr : m_buffer[i] = file[(pos - egptr) + i]

TempInv == TempTypes /\ AreasExclude /\ DataInMemory /\ DataInFile

\* Sequences that have the same bytes are the same.
LEMMA SameBytes ==
    ASSUME NEW s \in Seq(Nat), NEW t \in Seq(Nat),
           Len(s) = Len(t), \A i \in 1..Len(s) : s[i] = t[i]
    PROVE  s = t
BY SeqEqual

\* Counting from one.
LEMMA FromOne == \A i \in Int : i - 1 + 1 = i /\ 1 + i - 1 = i
OBVIOUS

\* The first bytes of a buffer.
LEMMA FirstBytes ==
    ASSUME NEW b \in [1..BufSize -> Nat], BufSize \in Nat, NEW n \in 0..BufSize
    PROVE  /\ SubSeq(b, 1, n) \in Seq(Nat) /\ Len(SubSeq(b, 1, n)) = n
           /\ \A i \in 1..n : SubSeq(b, 1, n)[i] = b[i]
<1>1. \A i \in 1..n : b[i] \in Nat
  OBVIOUS
<1>2. /\ SubSeq(b, 1, n) \in Seq(Nat)
      /\ Len(SubSeq(b, 1, n)) = IF 1 <= n THEN n - 1 + 1 ELSE 0
      /\ \A i \in 1..(n - 1 + 1) : SubSeq(b, 1, n)[i] = b[1 + i - 1]
  BY <1>1, SubSeqProperties
<1>3. n - 1 + 1 = n /\ \A i \in 1..n : 1 + i - 1 = i
  <2>1. n \in Int /\ \A i \in 1..n : i \in Int
    OBVIOUS
  <2>2. QED  BY <2>1, FromOne, Zenon
<1>4. QED  BY <1>2, <1>3

\* What is left of a stream after r bytes, and how reading and writing change it.
RestAfter(s, r) == SubSeq(s, r + 1, Len(s))

LEMMA RestOfStream ==
    ASSUME NEW s \in Seq(Nat), NEW r \in Nat, r <= Len(s)
    PROVE  /\ RestAfter(s, r) \in Seq(Nat)
           /\ Len(RestAfter(s, r)) = Len(s) - r
           /\ \A i \in 1..(Len(s) - r) : RestAfter(s, r)[i] = s[r + i]
<1>1. Len(s) \in Nat /\ \A i \in 1..Len(s) : s[i] \in Nat
  BY LenProperties, ElementOfSeq
<1>2. \A i \in (r + 1)..Len(s) : s[i] \in Nat
  BY <1>1
<1>3. /\ SubSeq(s, r + 1, Len(s)) \in Seq(Nat)
      /\ Len(SubSeq(s, r + 1, Len(s)))
            = IF r + 1 <= Len(s) THEN Len(s) - (r + 1) + 1 ELSE 0
      /\ \A i \in 1..(Len(s) - (r + 1) + 1) :
            SubSeq(s, r + 1, Len(s))[i] = s[(r + 1) + i - 1]
  BY <1>1, <1>2, SubSeqProperties
<1>4. /\ Len(s) - (r + 1) + 1 = Len(s) - r
      /\ \A i \in 1..(Len(s) - r) : (r + 1) + i - 1 = r + i
  BY <1>1
<1>5. r + 1 <= Len(s) \/ Len(s) - r = 0
  BY <1>1
<1>6. QED  BY <1>3, <1>4, <1>5 DEF RestAfter

LEMMA ReadingOne ==
    ASSUME NEW s \in Seq(Nat), NEW r \in Nat, r < Len(s)
    PROVE  /\ RestAfter(s, r) # <<>>
           /\ Head(RestAfter(s, r)) = s[r + 1]
           /\ Tail(RestAfter(s, r)) = RestAfter(s, r + 1)
<1> DEFINE u == RestAfter(s, r)
           v == RestAfter(s, r + 1)
<1>1. Len(s) \in Nat /\ r <= Len(s)
  BY LenProperties
<1>2. /\ u \in Seq(Nat) /\ Len(u) = Len(s) - r
      /\ \A i \in 1..(Len(s) - r) : u[i] = s[r + i]
  BY <1>1, RestOfStream
<1>3. /\ v \in Seq(Nat) /\ Len(v) = Len(s) - (r + 1)
      /\ \A i \in 1..(Len(s) - (r + 1)) : v[i] = s[(r + 1) + i]
  <2>1. r + 1 \in Nat /\ r + 1 <= Len(s)
    BY <1>1
  <2>2. QED  BY <2>1, RestOfStream
<1>4. u # <<>>
  BY <1>1, <1>2, EmptySeq
<1>5. Head(u) = s[r + 1]
  <2>1. 1 \in 1..(Len(s) - r)
    BY <1>1
  <2>2. u[1] = s[r + 1]
    BY <1>2, <2>1
  <2>3. QED  BY <1>2, <1>4, <2>2
<1>6. /\ Tail(u) \in Seq(Nat) /\ Len(Tail(u)) = Len(u) - 1
      /\ \A i \in 1..Len(Tail(u)) : Tail(u)[i] = u[i + 1]
  BY <1>2, <1>4, HeadTailProperties
<1> HIDE DEF u, v
<1>7. Len(Tail(u)) = Len(v)
  BY <1>1, <1>2, <1>3, <1>6
<1>8. \A i \in 1..Len(v) : Tail(u)[i] = v[i]
  <2>1. SUFFICES ASSUME NEW i \in 1..Len(v)  PROVE Tail(u)[i] = v[i]
    OBVIOUS
  <2>2. i + 1 \in 1..(Len(s) - r) /\ i \in 1..(Len(s) - (r + 1)) /\ r + (i + 1) = (r + 1) + i
    BY <1>1, <1>3
  <2>3. QED  BY <1>2, <1>3, <1>6, <1>7, <2>2
<1>9. Tail(u) = v
  BY <1>3, <1>6, <1>7, <1>8, SameBytes
<1>10. QED  BY <1>4, <1>5, <1>9 DEF u, v

LEMMA NothingLeft ==
    ASSUME NEW s \in Seq(Nat)
    PROVE  RestAfter(s, Len(s)) = <<>>
BY LenProperties, SubSeqEmpty DEF RestAfter

LEMMA WritingOne ==
    ASSUME NEW s \in Seq(Nat), NEW x \in Nat, NEW r \in Nat, r <= Len(s)
    PROVE  RestAfter(Append(s, x), r) = Append(RestAfter(s, r), x)
<1> DEFINE w == Append(s, x)
           u == RestAfter(s, r)
           v == RestAfter(w, r)
<1>1. Len(s) \in Nat
  BY LenProperties
<1>2. /\ w \in Seq(Nat) /\ Len(w) = Len(s) + 1
      /\ \A i \in 1..Len(s) : w[i] = s[i]
      /\ w[Len(s) + 1] = x
  BY AppendProperties
<1>3. /\ u \in Seq(Nat) /\ Len(u) = Len(s) - r
      /\ \A i \in 1..(Len(s) - r) : u[i] = s[r + i]
  BY <1>1, RestOfStream
<1> HIDE DEF w
<1>4. /\ v \in Seq(Nat) /\ Len(v) = Len(w) - r
      /\ \A i \in 1..(Len(w) - r) : v[i] = w[r + i]
  <2>1. r <= Len(w)
    BY <1>1, <1>2
  <2>2. QED  BY <1>2, <2>1, RestOfStream
<1>5. /\ Append(u, x) \in Seq(Nat) /\ Len(Append(u, x)) = Len(u) + 1
      /\ \A i \in 1..Len(u) : Append(u, x)[i] = u[i]
      /\ Append(u, x)[Len(u) + 1] = x
  BY <1>3, AppendProperties
<1> DEFINE a == Append(u, x)
<1>6. /\ a \in Seq(Nat) /\ Len(a) = Len(u) + 1
      /\ \A i \in 1..Len(u) : a[i] = u[i]
      /\ a[Len(u) + 1] = x
  BY <1>5
<1> HIDE DEF u, v, a
<1>7. Len(v) = Len(a)
  BY <1>1, <1>2, <1>3, <1>4, <1>6
<1>8. \A i \in 1..Len(v) : v[i] = a[i]
  <2>1. SUFFICES ASSUME NEW i \in 1..Len(v)  PROVE v[i] = a[i]
    OBVIOUS
  <2>2. v[i] = w[r + i]
    BY <1>4
  <2>3. CASE i = Len(u) + 1
    <3>1. r + i = Len(s) + 1
      BY <1>1, <1>3, <2>3
    <3>2. QED  BY <1>2, <1>6, <2>2, <2>3, <3>1
  <2>4. CASE i # Len(u) + 1
    <3>1. i \in 1..Len(u) /\ i \in 1..(Len(s) - r) /\ r + i \in 1..Len(s)
      <4>1. Len(v) = Len(s) + 1 - r /\ Len(u) = Len(s) - r
        BY <1>1, <1>2, <1>3, <1>4
      <4>2. QED  BY <1>1, <2>4, <4>1
    <3>2. QED  BY <1>2, <1>3, <1>6, <2>2, <3>1
  <2>5. QED  BY <2>3, <2>4
<1>9. v = a
  BY <1>4, <1>6, <1>7, <1>8, SameBytes
<1>10. QED  BY <1>9 DEF v, a, u, w

\* A file after a write of the first n bytes of a buffer b.
FileAfter(b, f, at, n) ==
    [i \in 1..(IF at + n > Len(f) THEN at + n ELSE Len(f)) |->
        IF i \in (at + 1)..(at + n) THEN b[i - at] ELSE f[i]]

LEMMA WritingNothing ==
    ASSUME NEW b, NEW f \in Seq(Nat), NEW at \in 0..Len(f)
    PROVE  FileAfter(b, f, at, 0) = f
<1>1. Len(f) \in Nat /\ f \in [1..Len(f) -> Nat]
  BY LenProperties
<1>2. at \in Nat /\ ~(at + 0 > Len(f)) /\ (at + 1)..(at + 0) = {}
  BY <1>1
<1>3. FileAfter(b, f, at, 0) = [i \in 1..Len(f) |-> f[i]]
  BY <1>2 DEF FileAfter
<1>4. QED  BY <1>1, <1>3

LEMMA WritingAtTheEnd ==
    ASSUME TempAssumption, NEW b \in [1..BufSize -> Nat], NEW f \in Seq(Nat),
           NEW n \in 0..BufSize
    PROVE  /\ FileAfter(b, f, Len(f), n) = f \o SubSeq(b, 1, n)
           /\ f \o SubSeq(b, 1, n) \in Seq(Nat)
           /\ Len(f \o SubSeq(b, 1, n)) = Len(f) + n
<1> DEFINE d == SubSeq(b, 1, n)
           c == f \o d
           l == Len(f) + n
           e(i) == IF i \in (Len(f) + 1)..l THEN b[i - Len(f)] ELSE f[i]
<1>1. BufSize \in Nat
  BY DEF TempAssumption
<1>2. Len(f) \in Nat /\ \A i \in 1..Len(f) : f[i] \in Nat
  BY LenProperties, ElementOfSeq
<1>3. d \in Seq(Nat) /\ Len(d) = n /\ \A i \in 1..n : d[i] = b[i]
  BY <1>1, FirstBytes
<1> HIDE DEF d
<1>4. /\ c \in Seq(Nat) /\ Len(c) = Len(f) + Len(d)
      /\ \A i \in 1..Len(f) + Len(d) :
            c[i] = IF i <= Len(f) THEN f[i] ELSE d[i - Len(f)]
  BY <1>3, ConcatProperties
<1>5. c \in [1..l -> Nat]
  BY <1>3, <1>4, LenProperties
<1> HIDE DEF c
<1>6. FileAfter(b, f, Len(f), n) = [i \in 1..l |-> e(i)]
  <2>1. (IF Len(f) + n > Len(f) THEN Len(f) + n ELSE Len(f)) = l
    BY <1>2
  <2>2. QED  BY <2>1 DEF FileAfter
<1>7. \A i \in 1..l : c[i] = e(i)
  <2>1. SUFFICES ASSUME NEW i \in 1..l  PROVE c[i] = e(i)
    OBVIOUS
  <2>2. CASE i <= Len(f)
    BY <1>2, <1>3, <1>4, <2>2
  <2>3. CASE ~(i <= Len(f))
    <3>1. i \in (Len(f) + 1)..l /\ i - Len(f) \in 1..n
      BY <1>2, <2>3
    <3>2. c[i] = d[i - Len(f)]
      BY <1>3, <1>4, <2>3
    <3>3. QED  BY <1>3, <3>1, <3>2
  <2>4. QED  BY <2>2, <2>3
<1> HIDE DEF e
<1>8. FileAfter(b, f, Len(f), n) = c
  BY <1>5, <1>6, <1>7
<1>9. QED  BY <1>3, <1>4, <1>8 DEF c, d

\* One more byte in the buffer is one more byte after the file.
LEMMA PuttingOne ==
    ASSUME TempAssumption, NEW b \in [1..BufSize -> Nat], NEW f \in Seq(Nat),
           NEW n \in 0..(BufSize - 1), NEW x \in Nat
    PROVE  f \o SubSeq([b EXCEPT ![n + 1] = x], 1, n + 1) = Append(f \o SubSeq(b, 1, n), x)
<1> DEFINE g == [b EXCEPT ![n + 1] = x]
           d == SubSeq(b, 1, n)
           k == SubSeq(g, 1, n + 1)
           a == Append(d, x)
<1>1. BufSize \in Nat /\ n \in 0..BufSize /\ n + 1 \in 0..BufSize /\ n \in Nat
  BY DEF TempAssumption
<1>2. g \in [1..BufSize -> Nat] /\ g[n + 1] = x /\ \A i \in 1..n : g[i] = b[i]
  BY <1>1
<1>3. d \in Seq(Nat) /\ Len(d) = n /\ \A i \in 1..n : d[i] = b[i]
  BY <1>1, FirstBytes
<1> HIDE DEF g, d
<1>4. k \in Seq(Nat) /\ Len(k) = n + 1 /\ \A i \in 1..(n + 1) : k[i] = g[i]
  BY <1>1, <1>2, FirstBytes
<1>5. /\ a \in Seq(Nat) /\ Len(a) = n + 1
      /\ \A i \in 1..n : a[i] = d[i]
      /\ a[n + 1] = x
  BY <1>3, AppendProperties
<1> HIDE DEF k, a
<1>6. \A i \in 1..(n + 1) : i = n + 1 \/ i \in 1..n
  BY <1>1
<1>7. k = a
  <2>1. \A i \in 1..Len(k) : k[i] = a[i]
    BY <1>1, <1>2, <1>3, <1>4, <1>5, <1>6
  <2>2. QED  BY <1>4, <1>5, <2>1, SameBytes
<1>8. f \o Append(d, x) = Append(f \o d, x)
  <2>1. Append(d, x) = d \o <<x>> /\ <<x>> \in Seq(Nat)
    BY <1>3, AppendIsConcat
  <2>2. f \o d \in Seq(Nat)
    BY <1>3, ConcatProperties
  <2>3. Append(f \o d, x) = (f \o d) \o <<x>>
    BY <2>2, AppendIsConcat
  <2>4. QED  BY <1>3, <2>1, <2>3, ConcatAssociative
<1>9. QED  BY <1>7, <1>8 DEF k, a, g, d

\* How much of the buffer comes after the file, and what the stream amounts to.
TempHeld == IF putting \/ m_tempFile THEN pptr ELSE m_writePos

TempContents == file \o SubSeq(m_buffer, 1, TempHeld)

TempUnread == IF m_isEOF THEN <<>>
              ELSE SubSeq(Temp!streamData, Temp!readPosition + 1, Len(Temp!streamData))

TempView ==
    /\ Temp!streamData = TempContents
    /\ TempContents \in Seq(Nat)
    /\ Len(TempContents) = Len(file) + TempHeld
    /\ m_tempFile \/ putting => Temp!AfterWrite(file, pos, pptr) = TempContents
    /\ TempHeld \in 0..BufSize
    /\ ~m_isEOF => Temp!readPosition \in 0..Len(TempContents)
    /\ TempUnread = IF m_isEOF THEN <<>> ELSE RestAfter(TempContents, Temp!readPosition)

LEMMA TempIsSeenAs ==
    ASSUME TempAssumption
    PROVE  TempInv => TempView
<1>1. SUFFICES ASSUME TempInv  PROVE TempView
  OBVIOUS
<1>2. BufSize \in Nat /\ BufSize > 0 /\ Len(file) \in Nat /\ TempInv
  BY <1>1, LenProperties DEF TempAssumption, TempInv, TempTypes
<1>3. TempHeld \in 0..BufSize
  BY <1>2 DEF TempHeld, TempInv, TempTypes, DataInMemory
<1>4. m_buffer \in [1..BufSize -> Nat] /\ file \in Seq(Nat) /\ pos \in 0..Len(file)
  BY <1>2 DEF TempInv, TempTypes
<1>5. /\ FileAfter(m_buffer, file, Len(file), TempHeld) = TempContents
      /\ TempContents \in Seq(Nat) /\ Len(TempContents) = Len(file) + TempHeld
  BY <1>3, <1>4, WritingAtTheEnd DEF TempContents
<1>6. Temp!AfterWrite(file, pos, pptr) = FileAfter(m_buffer, file, pos, pptr)
  BY DEF Temp!AfterWrite, FileAfter
<1>7. m_tempFile \/ putting => Temp!AfterWrite(file, pos, pptr) = TempContents
  <2>1. CASE putting
    <3>1. pos = Len(file) /\ TempHeld = pptr
      <4>1. ~m_tempFile => pos = Len(file)
        BY <1>2, EmptySeq DEF TempInv, DataInMemory
      <4>2. QED  BY <1>2, <2>1, <4>1 DEF TempHeld, TempInv, DataInFile
    <3>2. QED  BY <1>5, <1>6, <3>1
  <2>2. CASE ~putting /\ m_tempFile
    <3>1. pptr = 0 /\ TempHeld = 0 /\ 0 \in 0..BufSize /\ Len(file) \in 0..Len(file)
      BY <1>2, <2>2 DEF TempHeld, TempInv, AreasExclude
    <3>2. FileAfter(m_buffer, file, pos, 0) = file
      BY <1>4, WritingNothing
    <3>3. FileAfter(m_buffer, file, Len(file), 0) = file
      BY <1>4, <3>1, WritingNothing
    <3>4. QED  BY <1>5, <1>6, <3>1, <3>2, <3>3
  <2>3. QED  BY <2>1, <2>2
<1>8. Temp!streamData = TempContents
  <2>1. CASE m_tempFile
    BY <1>7, <2>1 DEF Temp!streamData
  <2>2. CASE ~m_tempFile
    <3>1. file = <<>>
      BY <1>2, <2>2 DEF TempInv, DataInMemory
    <3>2. TempContents = SubSeq(m_buffer, 1, TempHeld)
      <4>1. SubSeq(m_buffer, 1, TempHeld) \in Seq(Nat)
        BY <1>2, <1>3, <1>4, FirstBytes
      <4>2. QED  BY <3>1, <4>1, ConcatEmptySeq DEF TempContents
    <3>3. TempHeld = IF putting THEN pptr ELSE IF getting THEN egptr ELSE m_writePos
      BY <1>2, <2>2 DEF TempHeld, TempInv, DataInMemory
    <3>4. QED  BY <2>2, <3>2, <3>3 DEF Temp!streamData
  <2>3. QED  BY <2>1, <2>2
<1>9. ASSUME ~m_isEOF  PROVE Temp!readPosition \in 0..Len(TempContents)
  <2>1. CASE m_tempFile /\ getting
    <3>1. /\ pos \in Nat /\ pos <= Len(file) /\ gptr \in Nat /\ egptr \in Nat
          /\ gptr <= egptr /\ egptr <= pos /\ TempHeld \in Nat
      BY <1>2, <1>3, <2>1 DEF TempInv, TempTypes, AreasExclude, DataInFile
    <3>2. Temp!readPosition = pos - (egptr - gptr)
      BY <2>1 DEF Temp!readPosition
    <3>3. QED  BY <1>2, <1>5, <3>1, <3>2
  <2>2. CASE m_tempFile /\ ~getting
    <3>1. putting
      BY <1>2, <1>9, <2>2 DEF TempInv, AreasExclude
    <3>2. m_readPos \in Nat /\ m_readPos <= Len(file) + pptr /\ pptr = TempHeld
      BY <1>2, <2>2, <3>1 DEF TempInv, TempTypes, DataInFile, TempHeld
    <3>3. QED  BY <1>2, <1>3, <1>5, <2>2, <3>2 DEF Temp!readPosition
  <2>3. CASE ~m_tempFile
    <3>1. Len(file) = 0
      BY <1>2, <2>3, EmptySeq DEF TempInv, DataInMemory
    <3>2. /\ m_readPos \in Nat /\ gptr \in Nat
          /\ getting => gptr <= egptr /\ egptr = m_writePos /\ ~putting
          /\ ~getting => putting /\ m_readPos <= pptr
      BY <1>2, <1>9, <2>3 DEF TempInv, TempTypes, AreasExclude, DataInMemory
    <3>3. Temp!readPosition \in Nat /\ Temp!readPosition <= TempHeld
      BY <1>2, <1>3, <2>3, <3>2 DEF Temp!readPosition, TempHeld, TempInv, TempTypes
    <3>4. QED  BY <1>3, <1>5, <3>1, <3>3
  <2>4. QED  BY <2>1, <2>2, <2>3
<1>10. TempUnread = IF m_isEOF THEN <<>> ELSE RestAfter(TempContents, Temp!readPosition)
  BY <1>8 DEF TempUnread, RestAfter
<1>11. QED
  BY <1>3, <1>5, <1>7, <1>8, <1>9, <1>10 DEF TempView

LEMMA TempIsSeenAsLater ==
    ASSUME TempAssumption
    PROVE  TempInv' => TempView'
BY TempIsSeenAs, PTL

\* What a step has to do to what the buffer and the file amount to, to be a write, or a
\* read, of the stream.
LEMMA WriteOfTheStream ==
    ASSUME TempView, TempView', bytes \in Nat,
           bytes < MaxBytes, bytes' = bytes + 1, answer' = bytes',
           TempContents' = Append(TempContents, bytes'),
           ~m_isEOF => (Temp!readPosition)' = Temp!readPosition,
           m_isEOF' = m_isEOF, released' = released
    PROVE  Temp!Stream!Write
<1>1. (Temp!streamData)' = Append(Temp!streamData, bytes')
  BY DEF TempView
<1>2. TempUnread' = IF m_isEOF THEN TempUnread ELSE Append(TempUnread, bytes')
  <2>1. CASE m_isEOF
    BY <2>1 DEF TempUnread
  <2>2. CASE ~m_isEOF
    <3>1. /\ TempUnread = RestAfter(TempContents, Temp!readPosition)
          /\ TempUnread' = RestAfter(TempContents', Temp!readPosition)
          /\ TempContents \in Seq(Nat) /\ Temp!readPosition \in 0..Len(TempContents)
      BY <2>2 DEF TempView
    <3>2. /\ Temp!readPosition \in Nat /\ Temp!readPosition <= Len(TempContents)
          /\ bytes' \in Nat
      BY <3>1, LenProperties
    <3>3. RestAfter(Append(TempContents, bytes'), Temp!readPosition)
             = Append(RestAfter(TempContents, Temp!readPosition), bytes')
      BY <3>1, <3>2, WritingOne
    <3>4. QED  BY <2>2, <3>1, <3>3
  <2>3. QED  BY <2>1, <2>2
<1>3. QED  BY <1>1, <1>2 DEF Temp!Stream!Write, TempUnread

LEMMA ReadOfTheStream ==
    ASSUME TempView, TempView', ~m_isEOF, ~m_isEOF',
           Temp!readPosition < Len(TempContents),
           (Temp!readPosition)' = Temp!readPosition + 1,
           answer' = TempContents[Temp!readPosition + 1],
           TempContents' = TempContents, UNCHANGED <<m_isEOF, bytes, released>>
    PROVE  Temp!Stream!Read
<1>1. (Temp!streamData)' = Temp!streamData
  BY DEF TempView
<1>2. /\ TempContents \in Seq(Nat) /\ Temp!readPosition \in 0..Len(TempContents)
      /\ TempUnread = RestAfter(TempContents, Temp!readPosition)
      /\ TempUnread' = RestAfter(TempContents, Temp!readPosition + 1)
  BY DEF TempView
<1>3. Temp!readPosition \in Nat
  BY <1>2
<1>4. /\ TempUnread # <<>> /\ answer' = Head(TempUnread) /\ TempUnread' = Tail(TempUnread)
  BY <1>2, <1>3, ReadingOne
<1>5. QED  BY <1>1, <1>4 DEF Temp!Stream!Read, TempUnread

LEMMA EndOfTheStream ==
    ASSUME TempView, TempView', m_isEOF \/ Temp!readPosition = Len(TempContents),
           m_isEOF', m_isEOF' \in BOOLEAN, answer' = -1,
           TempContents' = TempContents, UNCHANGED <<bytes, released>>
    PROVE  Temp!Stream!Read
<1>1. (Temp!streamData)' = Temp!streamData
  BY DEF TempView
<1>2. TempUnread = <<>>
  <2>1. CASE m_isEOF
    BY <2>1 DEF TempUnread
  <2>2. CASE ~m_isEOF /\ Temp!readPosition = Len(TempContents)
    BY <2>2, NothingLeft DEF TempView
  <2>3. QED  BY <2>1, <2>2
<1>3. TempUnread' = <<>>
  BY DEF TempUnread
<1>4. QED  BY <1>1, <1>2, <1>3 DEF Temp!Stream!Read, TempUnread

\* Writing.
LEMMA WritingIsWriting ==
    ASSUME TempAssumption, TempInv, Temp!Write
    PROVE  TempInv' /\ Temp!Stream!Write
<1> DEFINE at == IF ~putting /\ m_tempFile THEN m_writePos ELSE pos
           full == TempHeld = BufSize
           slot == IF full THEN 0 ELSE TempHeld
<1>1. /\ BufSize \in Nat /\ BufSize > 0 /\ MaxBytes \in Nat /\ Len(file) \in Nat
      /\ file \in Seq(Nat) /\ m_buffer \in [1..BufSize -> Nat] /\ bytes \in Nat
      /\ bytes + 1 \in Nat /\ TempInv
  BY LenProperties DEF TempAssumption, TempInv, TempTypes
<1>2. /\ TempView /\ TempHeld \in 0..BufSize
      /\ TempContents \in Seq(Nat) /\ Len(TempContents) = Len(file) + TempHeld
  BY TempIsSeenAs DEF TempView
<1>3. ~rewound
  BY DEF Temp!Write, Temp!CallerIsCareful
<1>4. at = Len(file) /\ pos <= Len(file) /\ pos \in Nat
  <2>1. ~m_tempFile => pos = 0 /\ Len(file) = 0
    BY EmptySeq DEF TempInv, DataInMemory
  <2>2. m_tempFile => at = Len(file)
    BY <1>3 DEF TempInv, DataInFile
  <2>3. QED  BY <1>1, <2>1, <2>2 DEF TempInv, TempTypes
<1>5. TempHeld = IF putting THEN pptr ELSE IF m_tempFile THEN 0 ELSE m_writePos
  BY DEF TempHeld, TempInv, AreasExclude
<1>6. /\ bytes < MaxBytes /\ bytes' = bytes + 1 /\ answer' = bytes'
      /\ file' = IF full THEN Temp!AfterWrite(file, at, BufSize) ELSE file
      /\ pos' = IF full THEN at + BufSize ELSE at
      /\ m_tempFile' = (m_tempFile \/ full)
      /\ m_buffer' = [m_buffer EXCEPT ![slot + 1] = bytes']
      /\ putting' = TRUE /\ pptr' = slot + 1
      /\ m_readPos' = IF putting THEN m_readPos
                      ELSE IF m_tempFile THEN pos - (egptr - gptr) ELSE gptr
      /\ getting' = FALSE /\ gptr' = 0 /\ egptr' = 0
      /\ UNCHANGED <<m_writePos, m_isEOF, rewound, released>>
  BY <1>5 DEF Temp!Write, Temp!SetP, Temp!NoG
<1> HIDE DEF at
<1>7. slot \in 0..(BufSize - 1) /\ slot \in Nat /\ (full => slot = 0) /\ (~full => slot = TempHeld)
  BY <1>1, <1>2
<1>8. /\ m_buffer' \in [1..BufSize -> Nat]
  BY <1>1, <1>6, <1>7
<1>9. full => /\ file' = TempContents /\ pos' = Len(file')
              /\ file' \o SubSeq(m_buffer, 1, slot) = TempContents
              /\ Len(file') = Len(file) + BufSize
  <2>1. SUFFICES ASSUME full
                 PROVE  /\ file' = TempContents /\ pos' = Len(file')
                        /\ file' \o SubSeq(m_buffer, 1, slot) = TempContents
                        /\ Len(file') = Len(file) + BufSize
    OBVIOUS
  <2>2. file' = FileAfter(m_buffer, file, Len(file), TempHeld)
    BY <1>4, <1>6, <2>1 DEF Temp!AfterWrite, FileAfter
  <2>3. file' = TempContents
    BY <1>1, <1>2, <2>2, WritingAtTheEnd DEF TempContents
  <2>4. SubSeq(m_buffer, 1, slot) = <<>>
    BY <2>1, SubSeqEmpty
  <2>5. QED  BY <1>1, <1>2, <1>4, <1>6, <2>1, <2>3, <2>4, ConcatEmptySeq
<1>10. ~full => /\ file' = file /\ pos' = Len(file')
                /\ file' \o SubSeq(m_buffer, 1, slot) = TempContents
  BY <1>4, <1>6 DEF TempContents
<1>11. file' \in Seq(Nat) /\ pos' = Len(file') /\ Len(file') \in Nat
  BY <1>1, <1>2, <1>9, <1>10
<1>12. TempHeld' = slot + 1
  BY <1>6 DEF TempHeld
<1>13. TempContents' = Append(TempContents, bytes')
  <2>1. file' \o SubSeq(m_buffer, 1, slot) = TempContents
    BY <1>9, <1>10
  <2>2. TempContents' = file' \o SubSeq([m_buffer EXCEPT ![slot + 1] = bytes'], 1, slot + 1)
    BY <1>6, <1>12 DEF TempContents
  <2>3. bytes' \in Nat
    BY <1>1, <1>6
  <2>4. file' \o SubSeq([m_buffer EXCEPT ![slot + 1] = bytes'], 1, slot + 1)
           = Append(file' \o SubSeq(m_buffer, 1, slot), bytes')
    <3>1. /\ m_buffer \in [1..BufSize -> Nat] /\ file' \in Seq(Nat)
          /\ slot \in 0..(BufSize - 1)
      BY <1>1, <1>7, <1>11
    <3>2. QED  BY <2>3, <3>1, PuttingOne, Zenon
  <2>5. QED  BY <2>1, <2>2, <2>4
<1> HIDE DEF slot, full
<1>14. /\ m_readPos' \in Nat
       /\ m_readPos' <= Len(file) + TempHeld
  <2>1. CASE putting
    <3>1. m_readPos \in Nat /\ pptr = TempHeld
      BY <1>5, <2>1 DEF TempInv, TempTypes
    <3>2. m_readPos <= Len(file) + pptr
      BY <1>1, <1>2, <2>1, <3>1, EmptySeq DEF TempInv, DataInMemory, DataInFile
    <3>3. QED  BY <1>6, <2>1, <3>1, <3>2
  <2>2. CASE ~putting /\ m_tempFile
    <3>1. /\ gptr \in Nat /\ egptr \in Nat /\ gptr <= egptr /\ egptr <= pos
      BY <1>1, <1>4, <2>2 DEF TempInv, TempTypes, AreasExclude, DataInFile
    <3>2. m_readPos' = pos - (egptr - gptr)
      BY <1>6, <2>2
    <3>3. QED  BY <1>1, <1>2, <1>4, <3>1, <3>2
  <2>3. CASE ~putting /\ ~m_tempFile
    <3>1. m_readPos' = gptr /\ TempHeld = m_writePos
      BY <1>5, <1>6, <2>3
    <3>2. gptr \in Nat /\ gptr <= m_writePos
      BY <1>1, <2>3 DEF TempInv, TempTypes, AreasExclude, DataInMemory
    <3>3. QED  BY <1>1, <1>2, <3>1, <3>2
  <2>4. QED  BY <2>1, <2>2, <2>3
<1>15. TempInv'
  <2>1. TempTypes'
    <3>1. m_tempFile' \in BOOLEAN /\ pptr' \in 0..BufSize /\ pos' \in 0..Len(file')
      BY <1>1, <1>6, <1>7, <1>11 DEF full, TempInv, TempTypes
    <3>2. bytes' \in Nat /\ m_isEOF' \in BOOLEAN /\ rewound' \in BOOLEAN /\ m_writePos' \in Nat
      BY <1>1, <1>6 DEF TempInv, TempTypes
    <3>3. /\ getting' \in BOOLEAN /\ putting' \in BOOLEAN
          /\ gptr' \in 0..BufSize /\ egptr' \in 0..BufSize
      <4>1. getting' = FALSE /\ putting' = TRUE /\ gptr' = 0 /\ egptr' = 0
        BY <1>6
      <4>2. 0 \in 0..BufSize /\ FALSE \in BOOLEAN /\ TRUE \in BOOLEAN
        BY <1>1
      <4>3. getting' \in BOOLEAN
        BY <4>1, <4>2
      <4>4. putting' \in BOOLEAN
        BY <4>1, <4>2
      <4>5. QED  BY <4>1, <4>2, <4>3, <4>4
    <3>4. pos' \in 0..Len(file') /\ file' \in Seq(Nat) /\ m_readPos' \in Nat
      BY <1>11, <1>14, <3>1
    <3>5. QED  BY <1>8, <3>1, <3>2, <3>3, <3>4 DEF TempTypes
  <2>2. AreasExclude'
    BY <1>6 DEF AreasExclude
  <2>3. DataInMemory'
    <3>1. SUFFICES ASSUME ~m_tempFile'
                   PROVE  /\ file' = <<>> /\ pos' = 0 /\ ~rewound'
                          /\ m_writePos' <= BufSize
                          /\ m_readPos' <= pptr' /\ (pptr' > 0 => m_readPos' < pptr')
      BY <1>6 DEF DataInMemory
    <3>2. ~m_tempFile /\ ~full
      BY <1>6, <3>1
    <3>3. file = <<>> /\ m_writePos <= BufSize
      BY <3>2 DEF TempInv, DataInMemory
    <3>4. m_readPos' < pptr'
      <4>1. m_readPos' <= TempHeld /\ pptr' = TempHeld + 1
        BY <1>1, <1>2, <1>6, <1>7, <1>14, <3>2, <3>3, EmptySeq
      <4>2. QED  BY <1>2, <1>14, <4>1
    <3>5. file' = <<>> /\ pos' = 0
      BY <1>10, <3>2, <3>3, EmptySeq
    <3>6. m_readPos' <= pptr'
      BY <1>6, <1>7, <1>14, <3>4
    <3>7. ~rewound' /\ m_writePos' <= BufSize
      BY <1>3, <1>6, <3>3
    <3>8. QED  BY <3>4, <3>5, <3>6, <3>7
  <2>4. DataInFile'
    <3>1. m_readPos' <= Len(file') + pptr'
      <4>1. CASE full
        BY <1>1, <1>2, <1>6, <1>7, <1>9, <1>14, <4>1 DEF full
      <4>2. CASE ~full
        BY <1>1, <1>2, <1>6, <1>7, <1>10, <1>14, <4>2
      <4>3. QED  BY <4>1, <4>2
    <3>2. QED  BY <1>3, <1>6, <1>11, <3>1 DEF DataInFile
  <2>5. QED  BY <2>1, <2>2, <2>3, <2>4 DEF TempInv
<1>16. ~m_isEOF => (Temp!readPosition)' = Temp!readPosition
  <2>1. SUFFICES ASSUME ~m_isEOF  PROVE m_readPos' = Temp!readPosition
    BY <1>6 DEF Temp!readPosition
  <2>2. getting <=> ~putting
    BY <2>1 DEF TempInv, AreasExclude, TempTypes
  <2>3. QED  BY <1>6, <2>2 DEF Temp!readPosition
<1>17. QED
  BY <1>1, <1>2, <1>6, <1>13, <1>15, <1>16, TempIsSeenAsLater, WriteOfTheStream

\* Reading a byte of the buffer, or no byte.
LEMMA BufferedReadIsRead ==
    ASSUME TempAssumption, TempInv, Temp!ReadBuffered
    PROVE  TempInv' /\ Temp!Stream!Read
<1>1. /\ getting /\ gptr < egptr /\ answer' = m_buffer[gptr + 1] /\ gptr' = gptr + 1
      /\ UNCHANGED <<m_buffer, getting, egptr, putting, pptr, m_tempFile, file, pos,
                     m_readPos, m_writePos, m_isEOF, rewound, bytes, released>>
  BY DEF Temp!ReadBuffered
<1>2. /\ BufSize \in Nat /\ gptr \in Nat /\ egptr \in Nat /\ egptr <= BufSize
      /\ Len(file) \in Nat /\ file \in Seq(Nat) /\ m_buffer \in [1..BufSize -> Nat]
      /\ pos \in Nat /\ pos <= Len(file) /\ TempInv
  BY LenProperties DEF TempAssumption, TempInv, TempTypes
<1>3. ~m_isEOF /\ ~putting /\ pptr = 0
  BY <1>1 DEF TempInv, AreasExclude
<1>4. /\ TempView /\ TempHeld \in 0..BufSize
      /\ TempContents \in Seq(Nat) /\ Len(TempContents) = Len(file) + TempHeld
  BY TempIsSeenAs DEF TempView
<1>5. TempInv'
  <2>1. TempTypes'
    <3>1. gptr' \in 0..BufSize
      BY <1>1, <1>2
    <3>2. QED  BY <1>1, <3>1 DEF TempInv, TempTypes
  <2>2. AreasExclude'
    BY <1>1, <1>2, <1>3 DEF AreasExclude
  <2>3. DataInMemory' /\ DataInFile'
    BY <1>1 DEF TempInv, DataInMemory, DataInFile
  <2>4. QED  BY <2>1, <2>2, <2>3 DEF TempInv
<1>6. TempContents' = TempContents
  BY <1>1 DEF TempContents, TempHeld
<1>7. CASE m_tempFile
  <2>1. egptr <= pos /\ \A i \in 1..egptr : m_buffer[i] = file[(pos - egptr) + i]
    BY <1>1, <1>7 DEF TempInv, DataInFile
  <2>2. /\ Temp!readPosition = pos - (egptr - gptr)
        /\ (Temp!readPosition)' = pos - (egptr - (gptr + 1))
    BY <1>1, <1>7 DEF Temp!readPosition
  <2>3. /\ (Temp!readPosition)' = Temp!readPosition + 1
        /\ Temp!readPosition < Len(file) /\ Temp!readPosition + 1 \in 1..Len(file)
        /\ (pos - egptr) + (gptr + 1) = Temp!readPosition + 1
    BY <1>1, <1>2, <2>1, <2>2
  <2>4. answer' = file[Temp!readPosition + 1]
    BY <1>1, <1>2, <2>1, <2>3
  <2>5. TempHeld = 0
    BY <1>3, <1>7 DEF TempHeld
  <2>6. TempContents = file
    BY <1>2, <2>5, SubSeqEmpty, ConcatEmptySeq DEF TempContents
  <2>7. QED
    BY <1>1, <1>3, <1>4, <1>5, <1>6, <2>3, <2>4, <2>6, TempIsSeenAsLater, ReadOfTheStream
<1>8. CASE ~m_tempFile
  <2>1. file = <<>> /\ egptr = m_writePos
    BY <1>1, <1>8 DEF TempInv, DataInMemory
  <2>2. Temp!readPosition = gptr /\ (Temp!readPosition)' = gptr + 1 /\ TempHeld = egptr
    BY <1>1, <1>3, <1>8, <2>1 DEF Temp!readPosition, TempHeld
  <2>3. /\ SubSeq(m_buffer, 1, egptr) \in Seq(Nat)
        /\ \A i \in 1..egptr : SubSeq(m_buffer, 1, egptr)[i] = m_buffer[i]
    BY <1>2, FirstBytes
  <2>4. TempContents = SubSeq(m_buffer, 1, egptr)
    BY <2>1, <2>2, <2>3, ConcatEmptySeq DEF TempContents
  <2>5. answer' = TempContents[Temp!readPosition + 1] /\ Temp!readPosition < Len(TempContents)
    BY <1>1, <1>2, <1>4, <2>1, <2>2, <2>3, <2>4, EmptySeq
  <2>6. QED
    BY <1>1, <1>3, <1>4, <1>5, <1>6, <2>2, <2>5, TempIsSeenAsLater, ReadOfTheStream
<1>9. QED  BY <1>7, <1>8

LEMMA ReadAtEndIsRead ==
    ASSUME TempAssumption, TempInv, Temp!ReadAtEnd
    PROVE  TempInv' /\ Temp!Stream!Read
<1>1. /\ m_isEOF /\ answer' = -1
      /\ UNCHANGED <<m_buffer, getting, gptr, egptr, putting, pptr, m_tempFile, file, pos,
                     m_readPos, m_writePos, m_isEOF, rewound, bytes, released>>
  BY DEF Temp!ReadAtEnd
<1>2. TempInv'
  BY <1>1 DEF TempInv, TempTypes, AreasExclude, DataInMemory, DataInFile
<1>3. TempContents' = TempContents
  BY <1>1 DEF TempContents, TempHeld
<1>4. m_isEOF' \in BOOLEAN
  BY <1>1 DEF TempInv, TempTypes
<1>5. QED
  BY <1>1, <1>2, <1>3, <1>4, TempIsSeenAs, TempIsSeenAsLater, EndOfTheStream

\* buffer_in() leaves in the buffer what follows an offset of a file.
LEMMA FillingTheBuffer ==
    ASSUME TempAssumption, TempInv, NEW f \in Seq(Nat), NEW at \in 0..Len(f),
           Temp!BufferIn(f, at)
    PROVE  \/ /\ at = Len(f) /\ getting' = FALSE /\ gptr' = 0 /\ egptr' = 0
              /\ m_isEOF' = TRUE /\ answer' = -1 /\ pos' = at /\ m_buffer' = m_buffer
           \/ /\ getting' = TRUE /\ gptr' = 1 /\ egptr' \in 1..BufSize /\ m_isEOF' = m_isEOF
              /\ m_buffer' \in [1..BufSize -> Nat]
              /\ pos' = at + egptr' /\ pos' <= Len(f)
              /\ \A i \in 1..egptr' : m_buffer'[i] = f[(pos' - egptr') + i]
              /\ answer' = f[at + 1]
<1> DEFINE n == IF Len(f) - at < BufSize THEN Len(f) - at ELSE BufSize
<1>1. /\ BufSize \in Nat /\ BufSize > 0 /\ Len(f) \in Nat /\ at \in Nat /\ at <= Len(f)
      /\ m_buffer \in [1..BufSize -> Nat] /\ \A i \in 1..Len(f) : f[i] \in Nat
  BY LenProperties, ElementOfSeq DEF TempAssumption, TempInv, TempTypes
<1>2. /\ n <= 0 => /\ Temp!NoG /\ m_isEOF' = TRUE /\ answer' = -1 /\ pos' = at
                   /\ m_buffer' = m_buffer
      /\ ~(n <= 0) =>
            /\ m_buffer' = [i \in 1..BufSize |-> IF i <= n THEN f[at + i] ELSE m_buffer[i]]
            /\ Temp!SetG(1, n) /\ pos' = at + n /\ answer' = m_buffer'[1]
            /\ m_isEOF' = m_isEOF
  BY DEF Temp!BufferIn
<1>3. CASE n <= 0
  BY <1>1, <1>2, <1>3 DEF Temp!NoG
<1>4. CASE ~(n <= 0)
  <2>1. n \in 1..BufSize /\ at + n <= Len(f) /\ n \in Nat
    BY <1>1, <1>4
  <2>2. \A i \in 1..n : at + i \in 1..Len(f)
    BY <1>1, <2>1
  <2>3. egptr' = n /\ gptr' = 1 /\ getting' = TRUE /\ pos' = at + n /\ m_isEOF' = m_isEOF
    BY <1>2, <1>4 DEF Temp!SetG
  <2> HIDE DEF n
  <2>4. /\ m_buffer' \in [1..BufSize -> Nat]
        /\ \A i \in 1..n : m_buffer'[i] = f[at + i]
    <3>1. m_buffer' = [i \in 1..BufSize |-> IF i <= n THEN f[at + i] ELSE m_buffer[i]]
      BY <1>2, <1>4
    <3>2. \A i \in 1..BufSize : (IF i <= n THEN f[at + i] ELSE m_buffer[i]) \in Nat
      <4>1. SUFFICES ASSUME NEW i \in 1..BufSize
                     PROVE  (IF i <= n THEN f[at + i] ELSE m_buffer[i]) \in Nat
        OBVIOUS
      <4>2. CASE i <= n
        <5>1. f[at + i] \in Nat
          BY <1>1, <2>1, <2>2, <4>2
        <5>2. QED  BY <4>2, <5>1
      <4>3. CASE ~(i <= n)
        BY <1>1, <4>3
      <4>4. QED  BY <4>2, <4>3
    <3>3. \A i \in 1..n : i \in 1..BufSize /\ i <= n
      BY <1>1, <2>1
    <3>4. QED  BY <3>1, <3>2, <3>3
  <2>5. answer' = f[at + 1]
    BY <1>2, <1>4, <2>1, <2>4
  <2>6. pos' - egptr' = at
    BY <1>1, <2>1, <2>3
  <2>7. QED  BY <1>1, <2>1, <2>3, <2>4, <2>5, <2>6
<1>5. QED  BY <1>3, <1>4

\* A read for which the file is flushed, if need be, and the buffer filled again.
LEMMA FillingIsRead ==
    ASSUME TempAssumption, TempInv, ~m_isEOF, m_tempFile,
           Temp!BufferIn(TempContents, Temp!readPosition),
           file' = TempContents, pptr' = 0, putting' \in BOOLEAN, m_writePos' \in Nat,
           getting' => ~putting',
           putting' => ~rewound /\ m_readPos = Temp!readPosition,
           ~putting' /\ ~rewound => m_writePos' = Len(TempContents),
           UNCHANGED <<m_tempFile, m_readPos, rewound, bytes, released>>
    PROVE  TempInv' /\ Temp!Stream!Read
<1> DEFINE at == Temp!readPosition
           C == TempContents
<1>1. /\ TempView /\ C \in Seq(Nat) /\ Len(C) \in Nat /\ at \in 0..Len(C) /\ at \in Nat
      /\ BufSize \in Nat /\ BufSize > 0 /\ m_buffer \in [1..BufSize -> Nat]
  BY TempIsSeenAs, LenProperties DEF TempView, TempAssumption, TempInv, TempTypes
<1>2. \/ /\ at = Len(C) /\ getting' = FALSE /\ gptr' = 0 /\ egptr' = 0
         /\ m_isEOF' = TRUE /\ answer' = -1 /\ pos' = at /\ m_buffer' = m_buffer
      \/ /\ getting' = TRUE /\ gptr' = 1 /\ egptr' \in 1..BufSize /\ m_isEOF' = m_isEOF
         /\ m_buffer' \in [1..BufSize -> Nat]
         /\ pos' = at + egptr' /\ pos' <= Len(C)
         /\ \A i \in 1..egptr' : m_buffer'[i] = C[(pos' - egptr') + i]
         /\ answer' = C[at + 1]
  BY <1>1, FillingTheBuffer
<1>3. /\ file' = C /\ pptr' = 0 /\ m_tempFile' /\ m_tempFile' \in BOOLEAN
      /\ putting' \in BOOLEAN /\ m_writePos' \in Nat /\ m_readPos' = m_readPos
      /\ rewound' = rewound /\ bytes' = bytes /\ released' = released
      /\ m_readPos' \in Nat /\ rewound' \in BOOLEAN /\ bytes' \in Nat
      /\ putting' => ~rewound /\ m_readPos = at
      /\ ~putting' /\ ~rewound => m_writePos' = Len(C)
      /\ ~m_isEOF /\ (getting' => ~putting')
  BY DEF TempInv, TempTypes
<1>4. TempContents' = C
  <2>1. TempHeld' = 0
    BY <1>3 DEF TempHeld
  <2>2. SubSeq(m_buffer', 1, 0) = <<>>
    BY SubSeqEmpty
  <2>3. TempContents' = file' \o SubSeq(m_buffer', 1, TempHeld')
    BY DEF TempContents
  <2>4. C \o <<>> = C
    BY <1>1, ConcatEmptySeq
  <2>5. QED  BY <1>3, <2>1, <2>2, <2>3, <2>4
<1> HIDE DEF at, C
<1>5. CASE getting'
  <2>1. /\ getting' = TRUE /\ gptr' = 1 /\ egptr' \in 1..BufSize /\ m_isEOF' = m_isEOF
        /\ m_buffer' \in [1..BufSize -> Nat]
        /\ pos' = at + egptr' /\ pos' <= Len(C)
        /\ \A i \in 1..egptr' : m_buffer'[i] = C[(pos' - egptr') + i]
        /\ answer' = C[at + 1]
    BY <1>2, <1>5
  <2>2. ~putting'
    BY <1>3, <1>5
  <2>3. /\ egptr' \in Nat /\ egptr' >= 1 /\ egptr' <= BufSize /\ pos' \in Nat
        /\ egptr' <= pos' /\ gptr' <= egptr' /\ at < Len(C)
        /\ gptr' \in 0..BufSize /\ egptr' \in 0..BufSize /\ pos' \in 0..Len(C)
    <3>1. /\ BufSize \in Nat /\ BufSize > 0 /\ Len(C) \in Nat /\ at \in Nat
      BY <1>1
    <3>2. gptr' = 1 /\ egptr' \in 1..BufSize /\ pos' = at + egptr' /\ pos' <= Len(C)
      BY <2>1
    <3>3. egptr' \in Nat /\ egptr' >= 1 /\ egptr' <= BufSize
      BY <3>1, <3>2
    <3>4. pos' \in Nat /\ egptr' <= pos' /\ at < pos' /\ at < Len(C)
      <4>1. ASSUME NEW a \in Nat, NEW e \in Nat, NEW l \in Nat, e >= 1, a + e <= l
            PROVE  a + e \in Nat /\ e <= a + e /\ a < a + e /\ a < l
        BY <4>1
      <4>2. at + egptr' <= Len(C)
        BY <3>2
      <4>3. /\ at + egptr' \in Nat /\ egptr' <= at + egptr' /\ at < at + egptr'
            /\ at < Len(C)
        BY <3>1, <3>3, <4>1, <4>2
      <4>4. QED  BY <3>2, <4>3
    <3>5. gptr' <= egptr' /\ gptr' \in 0..BufSize /\ egptr' \in 0..BufSize
      BY <3>1, <3>2, <3>3
    <3>6. pos' \in 0..Len(C)
      <4>1. ASSUME NEW p \in Nat, NEW l \in Nat, p <= l  PROVE p \in 0..l
        BY <4>1
      <4>2. pos' \in Nat /\ pos' <= Len(C) /\ Len(C) \in Nat
        BY <3>1, <3>2, <3>4
      <4>3. QED  BY <4>1, <4>2
    <3>7. QED  BY <3>3, <3>4, <3>5, <3>6
  <2>4. TempInv'
    <3>1. m_isEOF' \in BOOLEAN /\ getting' \in BOOLEAN /\ ~m_isEOF'
      BY <1>3, <2>1 DEF TempInv, TempTypes
    <3>2. pptr' \in 0..BufSize
      BY <1>1, <1>3
    <3>3. TempTypes'
      BY <1>1, <1>3, <2>1, <2>3, <3>1, <3>2 DEF TempTypes
    <3>4. AreasExclude'
      BY <1>3, <1>5, <2>2, <2>3, <3>1 DEF AreasExclude
    <3>5. DataInMemory' /\ DataInFile'
      BY <1>3, <1>5, <2>1, <2>2, <2>3 DEF DataInMemory, DataInFile
    <3>6. QED  BY <3>3, <3>4, <3>5 DEF TempInv
  <2>5. (Temp!readPosition)' = at + 1
    <3>1. (Temp!readPosition)' = pos' - (egptr' - gptr')
      BY <1>3, <1>5 DEF Temp!readPosition
    <3>2. gptr' = 1 /\ pos' = at + egptr' /\ at \in Nat /\ egptr' \in Nat
      BY <1>1, <2>1, <2>3
    <3>3. ASSUME NEW a \in Nat, NEW e \in Nat  PROVE (a + e) - (e - 1) = a + 1
      OBVIOUS
    <3>4. (at + egptr') - (egptr' - 1) = at + 1
      BY <3>2, <3>3
    <3>5. QED  BY <3>1, <3>2, <3>4
  <2>6. ~m_isEOF'
    BY <1>3, <2>1
  <2>7. QED
    BY <1>1, <1>3, <1>4, <2>1, <2>3, <2>4, <2>5, <2>6, TempIsSeenAsLater, ReadOfTheStream
       DEF at, C
<1>6. CASE ~getting'
  <2>1. /\ at = Len(C) /\ getting' = FALSE /\ gptr' = 0 /\ egptr' = 0
        /\ m_isEOF' = TRUE /\ answer' = -1 /\ pos' = at /\ m_buffer' = m_buffer
    BY <1>2, <1>6
  <2>2. 0 \in 0..BufSize /\ at \in 0..Len(C)
    BY <1>1
  <2>3. TempInv'
    <3>1. m_isEOF' \in BOOLEAN /\ getting' \in BOOLEAN
      BY <2>1
    <3>2. gptr' \in 0..BufSize /\ egptr' \in 0..BufSize /\ pptr' \in 0..BufSize
      BY <1>3, <2>1, <2>2
    <3>3. m_buffer' \in [1..BufSize -> Nat] /\ file' \in Seq(Nat) /\ pos' \in 0..Len(file')
      BY <1>1, <1>3, <2>1, <2>2
    <3>4. TempTypes'
      BY <1>3, <3>1, <3>2, <3>3 DEF TempTypes
    <3>5. AreasExclude'
      BY <1>3, <2>1 DEF AreasExclude
    <3>6. DataInMemory'
      BY <1>3 DEF DataInMemory
    <3>7. at <= Len(C) + 0
      BY <1>1
    <3>8. DataInFile'
      BY <1>3, <2>1, <3>7 DEF DataInFile
    <3>9. QED  BY <3>4, <3>5, <3>6, <3>8 DEF TempInv
  <2>4. m_isEOF' /\ m_isEOF' \in BOOLEAN
    BY <2>1
  <2>5. QED
    BY <1>1, <1>3, <1>4, <2>1, <2>3, <2>4, TempIsSeenAsLater, EndOfTheStream DEF at, C
<1>7. QED  BY <1>5, <1>6

LEMMA UnderflowIsRead ==
    ASSUME TempAssumption, TempInv, Temp!Underflow
    PROVE  TempInv' /\ Temp!Stream!Read
<1>1. /\ ~m_isEOF /\ getting /\ gptr >= egptr
      /\ Temp!BufferIn(file, IF m_tempFile THEN pos ELSE Len(file))
      /\ UNCHANGED <<putting, pptr, m_tempFile, file, m_readPos, m_writePos, rewound,
                     bytes, released>>
  BY DEF Temp!Underflow
<1>2. /\ BufSize \in Nat /\ gptr \in Nat /\ egptr \in Nat /\ egptr <= BufSize
      /\ Len(file) \in Nat /\ file \in Seq(Nat) /\ m_buffer \in [1..BufSize -> Nat]
      /\ pos \in Nat /\ pos <= Len(file) /\ TempInv /\ gptr <= egptr /\ ~putting /\ pptr = 0
  BY <1>1, LenProperties DEF TempAssumption, TempInv, TempTypes, AreasExclude
<1>3. gptr = egptr
  BY <1>1, <1>2
<1>4. TempView
  BY TempIsSeenAs
<1>5. CASE m_tempFile
  <2>1. TempContents = file
    <3>1. TempHeld = 0
      BY <1>2, <1>5 DEF TempHeld
    <3>2. QED  BY <1>2, <3>1, SubSeqEmpty, ConcatEmptySeq DEF TempContents
  <2>2. Temp!readPosition = pos
    BY <1>1, <1>2, <1>3, <1>5 DEF Temp!readPosition
  <2>3. Temp!BufferIn(TempContents, Temp!readPosition)
    BY <1>1, <1>5, <2>1, <2>2
  <2>4. ~putting' /\ putting' \in BOOLEAN /\ m_writePos' \in Nat /\ pptr' = 0
    BY <1>1, <1>2 DEF TempInv, TempTypes
  <2>5. ~rewound => m_writePos' = Len(TempContents)
    BY <1>1, <1>2, <1>5, <2>1 DEF TempInv, DataInFile
  <2>6. QED  BY <1>1, <1>5, <2>1, <2>3, <2>4, <2>5, FillingIsRead
<1>6. CASE ~m_tempFile
  <2>1. file = <<>> /\ pos = 0 /\ Len(file) = 0 /\ egptr = m_writePos
    BY <1>1, <1>6, EmptySeq DEF TempInv, DataInMemory
  <2>2. /\ getting' = FALSE /\ gptr' = 0 /\ egptr' = 0
        /\ m_isEOF' = TRUE /\ answer' = -1 /\ pos' = 0 /\ m_buffer' = m_buffer
    BY <1>1, <1>2, <1>6, <2>1 DEF Temp!BufferIn, Temp!NoG
  <2>3. TempInv'
    <3>1. TempTypes'
      <4>1. gptr' \in 0..BufSize /\ egptr' \in 0..BufSize
        BY <1>2, <2>2
      <4>2. pos' \in 0..Len(file')
        BY <1>1, <2>1, <2>2
      <4>3. getting' \in BOOLEAN /\ m_isEOF' \in BOOLEAN
        BY <2>2
      <4>4. QED  BY <1>1, <1>2, <2>2, <4>1, <4>2, <4>3 DEF TempInv, TempTypes
    <3>2. AreasExclude'
      BY <1>1, <1>2, <2>2 DEF AreasExclude
    <3>3. DataInMemory' /\ DataInFile'
      BY <1>1, <1>2, <1>6, <2>2 DEF TempInv, DataInMemory, DataInFile
    <3>4. QED  BY <3>1, <3>2, <3>3 DEF TempInv
  <2>4. TempContents' = TempContents
    BY <1>1, <2>2 DEF TempContents, TempHeld
  <2>5. Temp!readPosition = Len(TempContents)
    <3>1. Temp!readPosition = gptr /\ TempHeld = m_writePos
      BY <1>1, <1>2, <1>6 DEF Temp!readPosition, TempHeld
    <3>2. Len(TempContents) = Len(file) + TempHeld
      BY <1>4 DEF TempView
    <3>3. QED  BY <1>2, <1>3, <2>1, <3>1, <3>2
  <2>6. m_isEOF' \in BOOLEAN
    BY <2>2
  <2>7. QED
    BY <1>1, <1>4, <2>2, <2>3, <2>4, <2>5, <2>6, TempIsSeenAsLater, EndOfTheStream
<1>7. QED  BY <1>5, <1>6

LEMMA SwitchIsRead ==
    ASSUME TempAssumption, TempInv, Temp!SwitchToInput
    PROVE  TempInv' /\ Temp!Stream!Read
<1>1. /\ ~m_isEOF /\ ~getting /\ (putting /\ ~m_tempFile => pptr # 0)
      /\ UNCHANGED <<m_tempFile, m_readPos, rewound, bytes, released>>
  BY DEF Temp!SwitchToInput, Temp!CallerIsCareful
<1>2. /\ BufSize \in Nat /\ BufSize > 0 /\ pptr \in Nat /\ pptr <= BufSize
      /\ Len(file) \in Nat /\ file \in Seq(Nat) /\ m_buffer \in [1..BufSize -> Nat]
      /\ pos \in Nat /\ pos <= Len(file) /\ m_readPos \in Nat /\ putting /\ TempInv
  BY <1>1, LenProperties DEF TempAssumption, TempInv, TempTypes, AreasExclude
<1>3. /\ TempView /\ TempHeld = pptr /\ Temp!readPosition = m_readPos
      /\ Temp!AfterWrite(file, pos, pptr) = TempContents
      /\ Len(TempContents) = Len(file) + pptr
  BY <1>1, <1>2, TempIsSeenAs DEF TempView, TempHeld, Temp!readPosition
<1>4. CASE m_tempFile
  <2>1. /\ file' = TempContents /\ m_writePos' = pos + pptr
        /\ Temp!BufferIn(file', m_readPos)
        /\ IF getting' THEN Temp!NoP ELSE Temp!SetP(0)
    BY <1>3, <1>4 DEF Temp!SwitchToInput
  <2>2. Temp!BufferIn(TempContents, Temp!readPosition)
    BY <1>3, <2>1
  <2>3. pos = Len(file) /\ ~rewound
    BY <1>2, <1>4 DEF TempInv, DataInFile
  <2>4. m_writePos' = Len(TempContents) /\ m_writePos' \in Nat
    BY <1>2, <1>3, <2>1, <2>3
  <2>5. pptr' = 0 /\ putting' \in BOOLEAN /\ (getting' => ~putting')
    BY <2>1 DEF Temp!NoP, Temp!SetP
  <2>6. QED  BY <1>1, <1>3, <1>4, <2>1, <2>2, <2>3, <2>4, <2>5, FillingIsRead
<1>5. CASE ~m_tempFile
  <2>1. /\ m_writePos' = pptr /\ getting' = TRUE /\ gptr' = m_readPos + 1 /\ egptr' = pptr
        /\ putting' = FALSE /\ pptr' = 0
        /\ answer' = m_buffer[m_readPos + 1]
        /\ UNCHANGED <<m_buffer, file, pos, m_isEOF>>
    BY <1>5 DEF Temp!SwitchToInput, Temp!SetG, Temp!NoP
  <2>2. file = <<>> /\ Len(file) = 0 /\ pos = 0 /\ ~rewound
    BY <1>5, EmptySeq DEF TempInv, DataInMemory
  <2>3. m_readPos < pptr
    BY <1>1, <1>2, <1>5 DEF TempInv, DataInMemory
  <2>4. TempInv'
    <3>1. gptr' \in 0..BufSize /\ egptr' \in 0..BufSize /\ pptr' \in 0..BufSize
      BY <1>2, <2>1, <2>3
    <3>2. getting' \in BOOLEAN /\ putting' \in BOOLEAN /\ m_writePos' \in Nat
      BY <1>2, <2>1
    <3>3. TempTypes'
      BY <1>1, <1>2, <2>1, <3>1, <3>2 DEF TempInv, TempTypes
    <3>4. AreasExclude'
      BY <1>1, <1>2, <2>1, <2>3 DEF AreasExclude
    <3>5. DataInMemory' /\ DataInFile'
      BY <1>1, <1>2, <1>5, <2>1, <2>2 DEF DataInMemory, DataInFile
    <3>6. QED  BY <3>3, <3>4, <3>5 DEF TempInv
  <2>5. TempHeld' = pptr
    BY <1>1, <1>5, <2>1 DEF TempHeld
  <2>6. TempContents' = TempContents
    BY <1>3, <2>1, <2>5 DEF TempContents
  <2>7. (Temp!readPosition)' = Temp!readPosition + 1
    BY <1>1, <1>3, <1>5, <2>1 DEF Temp!readPosition
  <2>8. answer' = TempContents[Temp!readPosition + 1] /\ Temp!readPosition < Len(TempContents)
    <3>1. /\ SubSeq(m_buffer, 1, pptr) \in Seq(Nat)
          /\ \A i \in 1..pptr : SubSeq(m_buffer, 1, pptr)[i] = m_buffer[i]
      BY <1>2, FirstBytes
    <3>2. TempContents = SubSeq(m_buffer, 1, pptr)
      BY <1>3, <2>2, <3>1, ConcatEmptySeq DEF TempContents
    <3>3. m_readPos + 1 \in 1..pptr
      BY <1>2, <2>3
    <3>4. QED  BY <1>2, <1>3, <2>1, <2>2, <2>3, <3>1, <3>2, <3>3
  <2>9. ~m_isEOF'
    BY <1>1, <2>1
  <2>10. QED
    BY <1>1, <1>3, <2>1, <2>4, <2>6, <2>7, <2>8, <2>9, TempIsSeenAsLater, ReadOfTheStream
<1>6. QED  BY <1>4, <1>5

\* The other calls.
LEMMA SizeIsTheLength ==
    ASSUME TempAssumption, TempInv, Temp!GetSize
    PROVE  TempInv' /\ Temp!Stream!GetSize
<1>1. /\ answer' = IF getting /\ ~m_tempFile THEN egptr
                   ELSE (IF m_tempFile THEN Len(file) ELSE m_writePos) + pptr
      /\ putting /\ ~m_tempFile => ~(m_writePos > 0)
      /\ UNCHANGED <<m_buffer, getting, gptr, egptr, putting, pptr, m_tempFile, file, pos,
                     m_readPos, m_writePos, m_isEOF, rewound, bytes, released>>
  BY DEF Temp!GetSize, Temp!CallerIsCareful
<1>2. TempInv'
  BY <1>1 DEF TempInv, TempTypes, AreasExclude, DataInMemory, DataInFile
<1>3. /\ (Temp!streamData)' = Temp!streamData /\ TempUnread' = TempUnread
  <2>1. TempView /\ TempView'
    BY <1>2, TempIsSeenAs, TempIsSeenAsLater
  <2>2. TempContents' = TempContents
    BY <1>1 DEF TempContents, TempHeld
  <2>3. (Temp!readPosition)' = Temp!readPosition
    BY <1>1 DEF Temp!readPosition
  <2>4. QED  BY <1>1, <2>1, <2>2, <2>3 DEF TempView
<1>4. answer' = Len(Temp!streamData)
  <2>1. /\ Temp!streamData = TempContents /\ Len(TempContents) = Len(file) + TempHeld
        /\ TempHeld \in Nat
    BY TempIsSeenAs DEF TempView
  <2>2. Len(file) \in Nat /\ pptr \in Nat /\ m_writePos \in Nat
    BY LenProperties DEF TempInv, TempTypes
  <2>3. CASE m_tempFile
    BY <1>1, <2>1, <2>3 DEF TempHeld
  <2>4. CASE ~m_tempFile
    <3>1. Len(file) = 0
      BY <2>4, EmptySeq DEF TempInv, DataInMemory
    <3>2. CASE getting
      BY <1>1, <2>1, <2>2, <2>4, <3>1, <3>2
         DEF TempHeld, TempInv, DataInMemory, AreasExclude
    <3>3. CASE ~getting /\ putting
      <4>1. m_writePos = 0
        BY <1>1, <2>2, <2>4, <3>3
      <4>2. QED  BY <1>1, <2>1, <2>2, <2>4, <3>1, <3>3, <4>1 DEF TempHeld
    <3>4. CASE ~getting /\ ~putting
      <4>1. pptr = 0
        BY <3>4 DEF TempInv, AreasExclude
      <4>2. QED  BY <1>1, <2>1, <2>2, <2>4, <3>1, <3>4, <4>1 DEF TempHeld
    <3>5. QED  BY <3>2, <3>3, <3>4
  <2>5. QED  BY <2>3, <2>4
<1>5. QED  BY <1>1, <1>2, <1>3, <1>4 DEF Temp!Stream!GetSize, TempUnread

LEMMA RewindIsRewind ==
    ASSUME TempAssumption, TempInv, Temp!Rewind
    PROVE  TempInv' /\ Temp!Stream!Rewind
<1>1. /\ m_readPos' = 0 /\ putting' = FALSE /\ pptr' = 0 /\ m_isEOF' = FALSE
      /\ getting' = TRUE /\ gptr' = 0
      /\ UNCHANGED <<m_buffer, m_tempFile, bytes, answer, released>>
  BY DEF Temp!Rewind, Temp!SetG, Temp!NoP
<1>2. /\ BufSize \in Nat /\ 0 \in 0..BufSize /\ Len(file) \in Nat /\ pptr \in Nat
      /\ m_writePos \in Nat /\ egptr \in 0..BufSize /\ pptr \in 0..BufSize /\ TempInv
  BY LenProperties DEF TempAssumption, TempInv, TempTypes
<1>3. /\ TempView /\ TempContents \in Seq(Nat) /\ Len(TempContents) \in Nat
      /\ TempHeld \in 0..BufSize
  BY TempIsSeenAs, LenProperties DEF TempView
<1>4. TempInv' /\ TempContents' = TempContents /\ (Temp!readPosition)' = 0
  <2>1. CASE m_tempFile
    <3>1. /\ m_writePos' = m_writePos + pptr /\ file' = TempContents /\ pos' = 0
          /\ egptr' = 0 /\ rewound' = TRUE
      BY <1>3, <2>1 DEF Temp!Rewind, Temp!SetG, TempView
    <3>2. TempInv'
      <4>1. TempTypes'
        <5>1. m_writePos' \in Nat /\ pos' \in 0..Len(file')
          BY <1>2, <1>3, <3>1
        <5>2. getting' \in BOOLEAN /\ putting' \in BOOLEAN /\ m_isEOF' \in BOOLEAN
              /\ rewound' \in BOOLEAN
          BY <1>1, <3>1
        <5>3. gptr' \in 0..BufSize /\ egptr' \in 0..BufSize /\ pptr' \in 0..BufSize
          BY <1>1, <1>2, <3>1
        <5>4. QED
          BY <1>1, <1>2, <1>3, <3>1, <5>1, <5>2, <5>3 DEF TempInv, TempTypes
      <4>2. AreasExclude'
        BY <1>1, <3>1 DEF AreasExclude
      <4>3. DataInMemory' /\ DataInFile'
        BY <1>1, <2>1, <3>1 DEF DataInMemory, DataInFile
      <4>4. QED  BY <4>1, <4>2, <4>3 DEF TempInv
    <3>3. TempContents' = TempContents
      <4>1. TempHeld' = 0
        BY <1>1, <2>1 DEF TempHeld
      <4>2. TempContents' = file' \o SubSeq(m_buffer', 1, TempHeld')
        BY DEF TempContents
      <4>3. SubSeq(m_buffer', 1, 0) = <<>>
        BY SubSeqEmpty
      <4>4. QED  BY <1>3, <3>1, <4>1, <4>2, <4>3, ConcatEmptySeq
    <3>4. (Temp!readPosition)' = 0
      BY <1>1, <2>1, <3>1 DEF Temp!readPosition
    <3>5. QED  BY <3>2, <3>3, <3>4
  <2>2. CASE ~m_tempFile
    <3>1. /\ m_writePos' = IF putting THEN pptr ELSE IF getting THEN egptr ELSE m_writePos
          /\ egptr' = m_writePos' /\ UNCHANGED <<file, pos, rewound>>
      BY <2>2 DEF Temp!Rewind, Temp!SetG
    <3>2. m_writePos' = TempHeld
      BY <2>2, <3>1 DEF TempHeld, TempInv, DataInMemory
    <3>3. /\ file = <<>> /\ pos = 0 /\ ~rewound
      BY <2>2 DEF TempInv, DataInMemory
    <3>4. TempInv'
      <4>1. TempTypes'
        <5>1. m_writePos' \in Nat /\ egptr' \in 0..BufSize
          BY <1>2, <1>3, <3>1, <3>2
        <5>2. getting' \in BOOLEAN /\ putting' \in BOOLEAN /\ m_isEOF' \in BOOLEAN
          BY <1>1
        <5>3. gptr' \in 0..BufSize /\ pptr' \in 0..BufSize /\ m_readPos' \in Nat
          BY <1>1, <1>2
        <5>4. QED
          BY <1>1, <1>2, <3>1, <5>1, <5>2, <5>3 DEF TempInv, TempTypes
      <4>2. gptr' <= egptr' /\ m_writePos' <= BufSize
        BY <1>1, <1>2, <1>3, <3>1, <3>2
      <4>3. AreasExclude'
        BY <1>1, <4>2 DEF AreasExclude
      <4>4. DataInMemory' /\ DataInFile'
        BY <1>1, <2>2, <3>1, <3>3, <4>2 DEF DataInMemory, DataInFile
      <4>5. QED  BY <4>1, <4>3, <4>4 DEF TempInv
    <3>5. TempContents' = TempContents
      <4>1. TempHeld' = TempHeld
        BY <1>1, <2>2, <3>2 DEF TempHeld
      <4>2. QED  BY <1>1, <3>1, <4>1 DEF TempContents
    <3>6. (Temp!readPosition)' = 0
      BY <1>1, <2>2 DEF Temp!readPosition
    <3>7. QED  BY <3>4, <3>5, <3>6
  <2>3. QED  BY <2>1, <2>2
<1>5. TempView'
  BY <1>4, TempIsSeenAsLater
<1>6. (Temp!streamData)' = Temp!streamData
  BY <1>3, <1>4, <1>5 DEF TempView
<1>7. TempUnread' = Temp!streamData
  <2>1. TempUnread' = RestAfter(TempContents, 0)
    BY <1>1, <1>4, <1>5 DEF TempView
  <2>2. RestAfter(TempContents, 0) = TempContents
    BY <1>3, SubSeqFull DEF RestAfter
  <2>3. QED  BY <1>3, <2>1, <2>2 DEF TempView
<1>8. QED  BY <1>1, <1>4, <1>6, <1>7 DEF Temp!Stream!Rewind, TempUnread

LEMMA EmptyIsEmpty ==
    ASSUME TempAssumption, TempInv, Temp!BackToInitialState
    PROVE  TempInv' /\ Temp!Stream!Empty
<1>1. /\ m_tempFile' = FALSE /\ file' = <<>> /\ pos' = 0 /\ m_writePos' = 0 /\ m_readPos' = 0
      /\ getting' = FALSE /\ gptr' = 0 /\ egptr' = 0 /\ putting' = TRUE /\ pptr' = 0
      /\ m_isEOF' = FALSE /\ rewound' = FALSE /\ UNCHANGED <<m_buffer, bytes, answer>>
  BY DEF Temp!BackToInitialState, Temp!NoG, Temp!SetP
<1>2. BufSize \in Nat /\ 0 \in 0..BufSize /\ <<>> \in Seq(Nat) /\ Len(<<>>) = 0 /\ 0 \in 0..0
  BY EmptySeq DEF TempAssumption
<1>3. TempInv'
  <2>1. TempTypes'
    <3>1. /\ m_tempFile' \in BOOLEAN /\ getting' \in BOOLEAN /\ putting' \in BOOLEAN
          /\ m_isEOF' \in BOOLEAN /\ rewound' \in BOOLEAN
      BY <1>1
    <3>2. file' \in Seq(Nat) /\ pos' \in 0..Len(file')
      BY <1>1, <1>2
    <3>3. QED  BY <1>1, <1>2, <3>1, <3>2 DEF TempInv, TempTypes
  <2>2. AreasExclude' /\ DataInFile'
    BY <1>1 DEF AreasExclude, DataInFile
  <2>3. DataInMemory'
    BY <1>1, <1>2 DEF DataInMemory
  <2>4. QED  BY <2>1, <2>2, <2>3 DEF TempInv
<1>4. (Temp!streamData)' = <<>>
  <2>1. SubSeq(m_buffer', 1, 0) = <<>>
    BY SubSeqEmpty
  <2>2. QED  BY <1>1, <2>1 DEF Temp!streamData
<1>5. TempUnread' = <<>>
  <2>1. (Temp!readPosition)' = 0
    BY <1>1 DEF Temp!readPosition
  <2>2. SubSeq(<<>>, 0 + 1, Len(<<>>)) = <<>>
    BY <1>2, SubSeqEmpty
  <2>3. TempUnread' = SubSeq(<<>>, 0 + 1, Len(<<>>))
    BY <1>1, <1>4, <2>1 DEF TempUnread
  <2>4. QED  BY <2>2, <2>3
<1>6. QED  BY <1>1, <1>3, <1>4, <1>5 DEF Temp!Stream!Empty, TempUnread

LEMMA ReleaseIsRelease ==
    ASSUME TempAssumption, TempInv, Temp!ReleaseFileAndReset
    PROVE  TempInv' /\ Temp!Stream!ReleaseFileAndReset
<1>1. /\ m_tempFile \/ putting
      /\ released' = Temp!AfterWrite(file, pos, pptr)
      /\ Temp!BackToInitialState
  BY DEF Temp!ReleaseFileAndReset, Temp!CallerIsCareful
<1>2. released' = Temp!streamData
  BY <1>1, TempIsSeenAs DEF TempView
<1>3. QED  BY <1>1, <1>2, EmptyIsEmpty DEF Temp!Stream!ReleaseFileAndReset

\* The invariant holds at the start and is kept, and a step of the buffer is one of the
\* stream, or nothing to it.
LEMMA TempInvHolds ==
    ASSUME TempAssumption
    PROVE  /\ Temp!Init => TempInv /\ Temp!Stream!Init
           /\ TempInv /\ [Temp!Next]_tempFileVars
                => TempInv' /\ [Temp!Stream!Next]_(Temp!Stream!streamVars)
<1>1. ASSUME Temp!Init  PROVE TempInv /\ Temp!Stream!Init
  <2>1. /\ m_buffer = [i \in 1..BufSize |-> 0] /\ getting = FALSE /\ gptr = 0 /\ egptr = 0
        /\ putting = TRUE /\ pptr = 0 /\ m_tempFile = FALSE /\ file = <<>> /\ pos = 0
        /\ m_readPos = 0 /\ m_writePos = 0 /\ m_isEOF = FALSE
        /\ rewound = FALSE /\ bytes = 0 /\ answer = -1 /\ released = <<>>
    BY <1>1 DEF Temp!Init
  <2>2. BufSize \in Nat /\ 0 \in 0..BufSize /\ <<>> \in Seq(Nat) /\ Len(<<>>) = 0 /\ 0 \in 0..0
    BY EmptySeq DEF TempAssumption
  <2>3. TempInv
    <3>1. /\ m_tempFile \in BOOLEAN /\ getting \in BOOLEAN /\ putting \in BOOLEAN
          /\ m_isEOF \in BOOLEAN /\ rewound \in BOOLEAN
      BY <2>1
    <3>2. m_buffer \in [1..BufSize -> Nat] /\ file \in Seq(Nat) /\ pos \in 0..Len(file)
      BY <2>1, <2>2
    <3>3. TempTypes
      BY <2>1, <2>2, <3>1, <3>2 DEF TempTypes
    <3>4. AreasExclude /\ DataInFile
      BY <2>1 DEF AreasExclude, DataInFile
    <3>5. DataInMemory
      BY <2>1, <2>2 DEF DataInMemory
    <3>6. QED  BY <3>3, <3>4, <3>5 DEF TempInv
  <2>4. Temp!streamData = <<>>
    BY <2>1, SubSeqEmpty DEF Temp!streamData
  <2>5. TempUnread = <<>>
    <3>1. Temp!readPosition = 0
      BY <2>1 DEF Temp!readPosition
    <3>2. SubSeq(<<>>, 0 + 1, Len(<<>>)) = <<>>
      BY <2>2, SubSeqEmpty
    <3>3. TempUnread = SubSeq(<<>>, 0 + 1, Len(<<>>))
      BY <2>1, <2>4, <3>1 DEF TempUnread
    <3>4. QED  BY <3>2, <3>3
  <2>6. QED  BY <2>1, <2>3, <2>4, <2>5 DEF Temp!Stream!Init, TempUnread
<1>2. ASSUME TempInv, [Temp!Next]_tempFileVars
      PROVE  TempInv' /\ [Temp!Stream!Next]_(Temp!Stream!streamVars)
  <2>1. CASE Temp!Write
    BY <1>2, <2>1, WritingIsWriting DEF Temp!Stream!Next
  <2>2. CASE Temp!ReadBuffered
    BY <1>2, <2>2, BufferedReadIsRead DEF Temp!Stream!Next
  <2>3. CASE Temp!ReadAtEnd
    BY <1>2, <2>3, ReadAtEndIsRead DEF Temp!Stream!Next
  <2>4. CASE Temp!Underflow
    BY <1>2, <2>4, UnderflowIsRead DEF Temp!Stream!Next
  <2>5. CASE Temp!SwitchToInput
    BY <1>2, <2>5, SwitchIsRead DEF Temp!Stream!Next
  <2>6. CASE Temp!GetSize
    BY <1>2, <2>6, SizeIsTheLength DEF Temp!Stream!Next
  <2>7. CASE Temp!Rewind
    BY <1>2, <2>7, RewindIsRewind DEF Temp!Stream!Next
  <2>8. CASE Temp!Reset
    <3>1. TempInv' /\ Temp!Stream!Empty /\ released' = released
      BY <1>2, <2>8, EmptyIsEmpty DEF Temp!Reset
    <3>2. QED  BY <3>1 DEF Temp!Stream!Next, Temp!Stream!Reset
  <2>9. CASE Temp!ReleaseFileAndReset
    BY <1>2, <2>9, ReleaseIsRelease DEF Temp!Stream!Next
  <2>10. CASE UNCHANGED tempFileVars
    <3>1. UNCHANGED <<m_buffer, getting, gptr, egptr, putting, pptr, m_tempFile, file, pos,
                      m_readPos, m_writePos, m_isEOF, rewound, bytes, answer, released>>
      BY <2>10 DEF tempFileVars
    <3>2. TempInv'
      BY <1>2, <3>1 DEF TempInv, TempTypes, AreasExclude, DataInMemory, DataInFile
    <3>3. TempView /\ TempView'
      BY <1>2, <3>2, TempIsSeenAs, TempIsSeenAsLater
    <3>4. TempContents' = TempContents /\ (Temp!readPosition)' = Temp!readPosition
      BY <3>1 DEF TempContents, TempHeld, Temp!readPosition
    <3>5. (Temp!streamData)' = Temp!streamData /\ TempUnread' = TempUnread
      BY <3>1, <3>3, <3>4 DEF TempView
    <3>6. UNCHANGED Temp!Stream!streamVars
      BY <3>1, <3>5 DEF Temp!Stream!streamVars, TempUnread
    <3>7. QED  BY <3>2, <3>6
  <2>11. QED
    BY <1>2, <2>1, <2>2, <2>3, <2>4, <2>5, <2>6, <2>7, <2>8, <2>9, <2>10 DEF Temp!Next
<1>3. QED  BY <1>1, <1>2

\* Through whatever sequence of writing, reading, rewinding and going to the file, the
\* buffer of TempFileStream.cpp is the stream that TempFileStream.hpp promises.
THEOREM TempFileImplementsStream ==
    ASSUME TempAssumption
    PROVE  Temp!Spec => TempFileIsStream
<1>1. [Temp!Next]_(Temp!tempFileVars) => [Temp!Next]_tempFileVars
  BY DEF Temp!tempFileVars, tempFileVars
<1>2. QED
  BY <1>1, TempInvHolds, PTL
     DEF Temp!Spec, TempFileIsStream, Temp!ImplementsStream, Temp!Stream!Spec

(***************************************************************************)
(* MultiProcessFileAppender                                                *)
(***************************************************************************)
LogAssumption ==
    /\ IsFiniteSet(Processes) /\ MaxFileSize \in Nat \ {0} /\ MaxBackupIndex \in Nat
    /\ MaxLines \in Nat /\ MaxCrashes \in Nat
    /\ None \notin Processes /\ None \notin Log!Inodes

\* Who has begun to log a line that is not written yet, and who has the lock.
Pending == {t \in Log!Threads : apc[t] \in {"getLock", "checkSize", "write"}}
HasLock == {t \in Log!Threads : apc[t] \in {"checkSize", "write", "rename", "open"}}

\* A file that is to be rotated.
Full(inode) == Len(contents[inode]) >= MaxFileSize

LinesAreReserved == lines + Cardinality(Pending) <= MaxLines

LockIsHeld ==
    /\ \A t \in HasLock : lockedBy = Log!process(t)
    /\ \A t \in Pending : m_log[Log!process(t)] # None

\* A file that a process has open and that is not the log file any more is full, as is
\* every backup.
OldFilesAreFull ==
    /\ \A p \in Processes : m_log[p] # None /\ m_log[p] # directory[0] => Full(m_log[p])
    /\ \A n \in Log!Names : n > 0 /\ directory[n] # None => Full(directory[n])

\* Who writes writes to the log file and knows its size, and who renames renames a full
\* log file.
HolderKnowsFile ==
    \A t \in Log!Threads :
        /\ apc[t] = "write" => /\ m_log[Log!process(t)] = directory[0]
                               /\ size[t] = Len(contents[directory[0]])
        /\ apc[t] = "rename" => /\ directory[0] # None /\ Full(directory[0])
                                /\ MaxBackupIndex > 0

\* A file is rotated before it outgrows its limit, unless there is a crash.
NothingOutgrows ==
    MaxBackupIndex > 0 =>
        /\ \A n \in Log!Names :
              directory[n] # None => Len(contents[directory[n]]) <= MaxFileSize + crashes
        /\ (\A t \in Log!Threads : apc[t] # "rename") /\ directory[0] # None =>
              Len(contents[directory[0]]) < MaxFileSize + crashes

LogInv ==
    /\ Log!TypeOK
    /\ LinesAreReserved /\ LockIsHeld
    /\ OldFilesAreFull /\ HolderKnowsFile /\ NothingOutgrows

\* Threads are finitely many, one of each process, which counting needs.
LEMMA LogThreads ==
    ASSUME LogAssumption
    PROVE  /\ IsFiniteSet(Log!Threads)
           /\ \A S \in SUBSET Log!Threads : IsFiniteSet(S) /\ Cardinality(S) \in Nat
           /\ \A t \in Log!Threads : Log!process(t) \in Processes
           /\ \A t, u \in Log!Threads : Log!process(t) = Log!process(u) => t = u
           /\ \A S : Log!Cardinality(S) = Cardinality(S)
<1>1. IsFiniteSet(1..1)
  <2>1. 1..1 = {1}
    OBVIOUS
  <2>2. QED  BY <2>1, FS_Singleton
<1>2. IsFiniteSet(Log!Threads)
  BY <1>1, FS_Product DEF Log!Threads, LogAssumption
<1>3. \A S \in SUBSET Log!Threads : IsFiniteSet(S) /\ Cardinality(S) \in Nat
  BY <1>2, FS_Subset, FS_CardinalityType
<1>4. \A t \in Log!Threads : t = <<t[1], 1>> /\ t[1] \in Processes
  BY DEF Log!Threads
<1>5. \A t, u \in Log!Threads : Log!process(t) = Log!process(u) => t = u
  BY <1>4, Zenon DEF Log!process
<1>6. \A S : Log!Cardinality(S) = Cardinality(S)
  BY Zenon DEF Cardinality, Log!Cardinality
<1>7. QED  BY <1>2, <1>3, <1>4, <1>5, <1>6 DEF Log!process

\* Names and processes refer to fewer inodes than there are.
LEMMA FreshInode ==
    ASSUME LogAssumption, Log!TypeOK
    PROVE  Log!Inodes
             \ ({directory[n] : n \in Log!Names} \cup {m_log[q] : q \in Processes}) # {}
<1> DEFINE named  == {directory[n] : n \in Log!Names}
           opened == {m_log[q] : q \in Processes}
           used   == named \cup opened
<1>1. /\ IsFiniteSet(Log!Names)
      /\ Cardinality(Log!Names) = MaxBackupIndex + 1
  BY FS_Interval DEF Log!Names, LogAssumption
<1>2. IsFiniteSet(Processes) /\ Cardinality(Processes) \in Nat
  BY FS_CardinalityType DEF LogAssumption
<1>3. /\ IsFiniteSet(Log!Inodes)
      /\ Cardinality(Log!Inodes) = MaxBackupIndex + 2 + Cardinality(Processes)
  <2>1. Log!Inodes = 1..(MaxBackupIndex + 2 + Cardinality(Processes))
    BY LogThreads DEF Log!Inodes
  <2>2. MaxBackupIndex + 2 + Cardinality(Processes) \in Nat \ {0}
    BY <1>2 DEF LogAssumption
  <2>3. QED  BY <2>1, <2>2, FS_Interval
<1>4. IsFiniteSet(named) /\ Cardinality(named) <= MaxBackupIndex + 1
  <2>1. directory \in [Log!Names -> named]
    BY DEF Log!TypeOK
  <2>2. directory \in Surjection(Log!Names, named)
    BY <2>1 DEF Surjection
  <2>3. QED  BY <1>1, <2>2, FS_Surjection
<1>5. IsFiniteSet(opened) /\ Cardinality(opened) <= Cardinality(Processes)
  <2>1. m_log \in [Processes -> opened]
    BY DEF Log!TypeOK
  <2>2. m_log \in Surjection(Processes, opened)
    BY <2>1 DEF Surjection
  <2>3. QED  BY <1>2, <2>2, FS_Surjection
<1>6. IsFiniteSet(used) /\ Cardinality(used) < Cardinality(Log!Inodes)
  <2>1. /\ IsFiniteSet(used)
        /\ Cardinality(used)
             = Cardinality(named) + Cardinality(opened) - Cardinality(named \cap opened)
    BY <1>4, <1>5, FS_Union
  <2>2. Cardinality(named \cap opened) \in Nat /\ Cardinality(named) \in Nat
        /\ Cardinality(opened) \in Nat
    BY <1>4, <1>5, FS_Intersection, FS_CardinalityType
  <2>3. MaxBackupIndex \in Nat
    BY DEF LogAssumption
  <2>4. QED  BY <2>1, <2>2, <2>3, <1>2, <1>3, <1>4, <1>5
<1>7. ASSUME Log!Inodes \ used = {}  PROVE FALSE
  <2>1. Log!Inodes \in SUBSET used
    BY <1>7
  <2>2. Cardinality(Log!Inodes) <= Cardinality(used)
    BY <2>1, <1>6, FS_Subset
  <2>3. Cardinality(Log!Inodes) \in Nat /\ Cardinality(used) \in Nat
    BY <1>3, <1>6, FS_CardinalityType
  <2>4. QED  BY <2>2, <2>3, <1>6
<1>8. QED  BY <1>7

\* To open the log file is to find it, or to make an empty one that nobody knows yet.
LEMMA OpenLogMeans ==
    ASSUME LogAssumption, Log!TypeOK, NEW p \in Processes, Log!OpenLog(p)
    PROVE  \/ /\ directory[0] # None
              /\ m_log' = [m_log EXCEPT ![p] = directory[0]]
              /\ UNCHANGED <<contents, directory>>
           \/ /\ directory[0] = None
              /\ \E fresh \in Log!Inodes :
                    /\ \A n \in Log!Names : directory[n] # fresh
                    /\ \A q \in Processes : m_log[q] # fresh
                    /\ directory' = [directory EXCEPT ![0] = fresh]
                    /\ contents' = [contents EXCEPT ![fresh] = <<>>]
                    /\ m_log' = [m_log EXCEPT ![p] = fresh]
<1>1. CASE directory[0] # None
  BY <1>1 DEF Log!OpenLog
<1>2. CASE directory[0] = None
  <2> DEFINE used == {directory[n] : n \in Log!Names} \cup {m_log[q] : q \in Processes}
             new  == CHOOSE i \in Log!Inodes \ used : TRUE
  <2>1. new \in Log!Inodes \ used
    BY FreshInode
  <2>2. /\ directory' = [directory EXCEPT ![0] = new]
        /\ contents' = [contents EXCEPT ![new] = <<>>]
        /\ m_log' = [m_log EXCEPT ![p] = new]
    BY <1>2 DEF Log!OpenLog
  <2> HIDE DEF new
  <2>3. QED  BY <1>2, <2>1, <2>2
<1>3. QED  BY <1>1, <1>2

\* Opening keeps old files full, and leaves everything as it is if there is a log file.
LEMMA OpenLogKeeps ==
    ASSUME LogAssumption, Log!TypeOK, OldFilesAreFull, NEW p \in Processes, Log!OpenLog(p)
    PROVE  /\ contents' \in [Log!Inodes -> Seq(1..MaxLines)]
           /\ directory' \in [Log!Names -> Log!Inodes \cup {None}]
           /\ m_log' \in [Processes -> Log!Inodes \cup {None}]
           /\ OldFilesAreFull'
           /\ m_log'[p] = directory'[0] /\ directory'[0] # None
           /\ \A q \in Processes : q # p => m_log'[q] = m_log[q]
           /\ directory[0] # None => UNCHANGED <<contents, directory>>
           /\ directory[0] = None =>
                 /\ Len(contents'[directory'[0]]) = 0
                 /\ \A n \in Log!Names : n # 0 /\ directory'[n] # None =>
                       /\ directory[n] = directory'[n]
                       /\ contents'[directory'[n]] = contents[directory[n]]
<1>1. 0 \in Log!Names
  BY DEF Log!Names, LogAssumption
<1>2. CASE directory[0] # None
  <2>1. /\ m_log' = [m_log EXCEPT ![p] = directory[0]]
        /\ UNCHANGED <<contents, directory>>
    BY <1>2, OpenLogMeans
  <2>2. directory[0] \in Log!Inodes
    BY <1>1, <1>2 DEF Log!TypeOK
  <2>3. m_log' \in [Processes -> Log!Inodes \cup {None}]
    BY <2>1, <2>2 DEF Log!TypeOK
  <2>4. \A q \in Processes : m_log'[q] = IF q = p THEN directory[0] ELSE m_log[q]
    BY <2>1 DEF Log!TypeOK
  <2>5. OldFilesAreFull'
    BY <2>1, <2>4 DEF OldFilesAreFull, Full
  <2>6. QED  BY <1>2, <2>1, <2>3, <2>4, <2>5 DEF Log!TypeOK
<1>3. CASE directory[0] = None
  <2>1. PICK fresh \in Log!Inodes :
           /\ \A n \in Log!Names : directory[n] # fresh
           /\ \A q \in Processes : m_log[q] # fresh
           /\ directory' = [directory EXCEPT ![0] = fresh]
           /\ contents' = [contents EXCEPT ![fresh] = <<>>]
           /\ m_log' = [m_log EXCEPT ![p] = fresh]
    BY <1>3, OpenLogMeans
  <2>2. fresh # None
    BY DEF LogAssumption
  <2>3. /\ contents' \in [Log!Inodes -> Seq(1..MaxLines)]
        /\ directory' \in [Log!Names -> Log!Inodes \cup {None}]
        /\ m_log' \in [Processes -> Log!Inodes \cup {None}]
    <3>1. <<>> \in Seq(1..MaxLines)
      OBVIOUS
    <3>2. QED  BY <1>1, <2>1, <3>1 DEF Log!TypeOK
  <2>4. /\ \A q \in Processes : m_log'[q] = IF q = p THEN fresh ELSE m_log[q]
        /\ \A n \in Log!Names : directory'[n] = IF n = 0 THEN fresh ELSE directory[n]
        /\ \A i \in Log!Inodes : contents'[i] = IF i = fresh THEN <<>> ELSE contents[i]
    BY <2>1 DEF Log!TypeOK
  <2>5. /\ \A q \in Processes : m_log[q] \in Log!Inodes \cup {None}
        /\ \A n \in Log!Names : directory[n] \in Log!Inodes \cup {None}
    BY DEF Log!TypeOK
  <2>6. /\ \A n \in Log!Names : n # 0 /\ directory'[n] # None =>
             /\ directory[n] = directory'[n]
             /\ contents'[directory'[n]] = contents[directory[n]]
        /\ \A q \in Processes : q # p /\ m_log[q] # None =>
             contents'[m_log[q]] = contents[m_log[q]]
    BY <2>1, <2>4, <2>5
  <2>7. OldFilesAreFull'
    <3>1. ASSUME NEW q \in Processes, m_log'[q] # None, m_log'[q] # directory'[0]
          PROVE  Len(contents'[m_log'[q]]) >= MaxFileSize
      <4>1. q # p /\ m_log'[q] = m_log[q]
        BY <1>1, <2>4, <3>1
      <4>2. m_log[q] # directory[0]
        BY <1>3, <3>1, <4>1
      <4>3. Len(contents[m_log[q]]) >= MaxFileSize
        BY <3>1, <4>1, <4>2 DEF OldFilesAreFull, Full
      <4>4. QED  BY <3>1, <4>1, <4>3, <2>6
    <3>2. ASSUME NEW n \in Log!Names, n > 0, directory'[n] # None
          PROVE  Len(contents'[directory'[n]]) >= MaxFileSize
      <4>1. n # 0
        BY <3>2
      <4>2. Len(contents[directory[n]]) >= MaxFileSize
        BY <2>6, <3>2, <4>1 DEF OldFilesAreFull, Full
      <4>3. QED  BY <2>6, <3>2, <4>1, <4>2
    <3>3. QED  BY <3>1, <3>2 DEF OldFilesAreFull, Full
  <2>8. Len(contents'[directory'[0]]) = 0
    BY <1>1, <2>1, <2>4
  <2>9. QED  BY <1>1, <1>3, <2>2, <2>3, <2>4, <2>6, <2>7, <2>8
<1>4. QED  BY <1>2, <1>3

\* Only one thread has the lock.
LEMMA OneHasLock ==
    ASSUME LogAssumption, LockIsHeld, NEW t \in HasLock, NEW u \in HasLock
    PROVE  t = u
BY LogThreads DEF LockIsHeld, HasLock

\* When no line is begun and none written, no more are reserved.
LEMMA NoLineBegun ==
    ASSUME LogAssumption, Log!TypeOK, LinesAreReserved, lines' = lines,
           \A u \in Log!Threads : apc'[u] \in {"getLock", "checkSize", "write"} =>
              apc[u] \in {"getLock", "checkSize", "write"}
    PROVE  LinesAreReserved'
<1>1. Pending' \in SUBSET Pending /\ Pending \in SUBSET Log!Threads
  BY DEF Pending
<1>2. Cardinality(Pending') <= Cardinality(Pending)
  BY <1>1, LogThreads, FS_Subset
<1>3. /\ Cardinality(Pending) \in Nat /\ Cardinality(Pending') \in Nat
      /\ lines \in Nat /\ MaxLines \in Nat
  BY <1>1, LogThreads DEF Log!TypeOK, LogAssumption
<1>4. QED  BY <1>2, <1>3 DEF LinesAreReserved

\* A line can only be written if one was begun.
LEMMA LineIsWritten ==
    ASSUME LogAssumption, Log!TypeOK, LinesAreReserved,
           NEW t \in Log!Threads, apc[t] = "write",
           lines' = lines + 1,
           apc'[t] \notin {"getLock", "checkSize", "write"},
           \A u \in Log!Threads : u # t => apc'[u] = apc[u]
    PROVE  lines' \in 1..MaxLines /\ LinesAreReserved'
<1>1. t \in Pending /\ Pending \in SUBSET Log!Threads
  BY DEF Pending
<1>2. Pending' = Pending \ {t}
  BY DEF Pending
<1>3. /\ Cardinality(Pending) \in Nat /\ Cardinality(Pending') \in Nat
      /\ lines \in Nat /\ MaxLines \in Nat
  BY <1>1, <1>2, LogThreads DEF Log!TypeOK, LogAssumption
<1>4. Cardinality(Pending') = Cardinality(Pending) - 1
  BY <1>1, <1>2, LogThreads, FS_RemoveElement
<1>5. QED  BY <1>3, <1>4 DEF LinesAreReserved

\* A line is begun while there is room for one more.
LEMMA LineIsBegun ==
    ASSUME LogAssumption, Log!TypeOK, LinesAreReserved, NEW t \in Log!Threads, Log!Log(t)
    PROVE  LinesAreReserved'
<1> DEFINE busy == {u \in Log!Threads : apc[u] # "idle"}
<1>1. /\ apc[t] = "idle" /\ lines' = lines /\ lines + Cardinality(busy) < MaxLines
      /\ apc' = [apc EXCEPT ![t] = "getLock"]
  BY LogThreads DEF Log!Log, Log!Goto
<1>2. Pending' = Pending \cup {t} /\ t \notin Pending
  BY <1>1 DEF Pending, Log!TypeOK
<1>3. Pending \in SUBSET busy /\ busy \in SUBSET Log!Threads
  BY DEF Pending
<1>4. Cardinality(Pending) <= Cardinality(busy)
  BY <1>3, LogThreads, FS_Subset
<1>5. Cardinality(Pending') = Cardinality(Pending) + 1
  BY <1>2, <1>3, LogThreads, FS_AddElement
<1>6. /\ Cardinality(Pending) \in Nat /\ Cardinality(busy) \in Nat
      /\ lines \in Nat /\ MaxLines \in Nat
  BY <1>3, LogThreads DEF Log!TypeOK, LogAssumption
<1>7. QED  BY <1>1, <1>4, <1>5, <1>6 DEF LinesAreReserved

\* What every step finds.
LEMMA LogState ==
    ASSUME LogAssumption, LogInv
    PROVE  /\ 0 \in Log!Names /\ \A n \in Log!Names : n \in Nat /\ n <= MaxBackupIndex
           /\ directory[0] \in Log!Inodes \cup {None}
           /\ \A p \in Processes : m_log[p] \in Log!Inodes \cup {None}
           /\ \A n \in Log!Names : directory[n] \in Log!Inodes \cup {None}
           /\ \A i \in Log!Inodes : Len(contents[i]) \in Nat
           /\ MaxFileSize \in Nat \ {0} /\ crashes \in Nat /\ lines \in Nat
           /\ MaxBackupIndex \in Nat /\ None \notin Processes
BY DEF Log!Names, LogAssumption, LogInv, Log!TypeOK

\* No file outgrows its limit by being opened.
LEMMA OpenedInTime ==
    ASSUME LogAssumption, LogInv, NEW p \in Processes, Log!OpenLog(p),
           crashes' = crashes,
           \A t \in Log!Threads : apc[t] = "rename" => apc'[t] = "rename"
    PROVE  NothingOutgrows'
<1>1. Log!TypeOK /\ OldFilesAreFull /\ NothingOutgrows
  BY DEF LogInv
<1>2. /\ directory[0] # None => UNCHANGED <<contents, directory>>
      /\ directory[0] = None =>
            /\ Len(contents'[directory'[0]]) = 0
            /\ \A n \in Log!Names : n # 0 /\ directory'[n] # None =>
                  /\ directory[n] = directory'[n]
                  /\ contents'[directory'[n]] = contents[directory[n]]
  BY <1>1, OpenLogKeeps
<1>3. CASE directory[0] # None
  BY <1>1, <1>2, <1>3 DEF NothingOutgrows
<1>4. CASE directory[0] = None
  <2>1. 0 < MaxFileSize + crashes /\ 0 <= MaxFileSize + crashes
    BY LogState
  <2>2. ASSUME MaxBackupIndex > 0, NEW n \in Log!Names, directory'[n] # None
        PROVE  Len(contents'[directory'[n]]) <= MaxFileSize + crashes
    <3>1. CASE n = 0
      BY <1>2, <1>4, <2>1, <3>1
    <3>2. CASE n # 0
      BY <1>1, <1>2, <1>4, <2>2, <3>2 DEF NothingOutgrows
    <3>3. QED  BY <3>1, <3>2
  <2>3. QED  BY <1>2, <1>4, <2>1, <2>2 DEF NothingOutgrows
<1>5. QED  BY <1>3, <1>4

\* A process starts.
LEMMA LogStarts ==
    ASSUME LogAssumption, LogInv, NEW p \in Processes, Log!Start(p)
    PROVE  LogInv'
<1>1. /\ m_log[p] = None /\ \A t \in Log!Threads : Log!process(t) = p => apc[t] = "idle"
      /\ Log!OpenLog(p)
      /\ UNCHANGED <<lockedBy, apc, size, shift, lines, crashes>>
  BY DEF Log!Start
<1>2. Log!TypeOK /\ OldFilesAreFull /\ LockIsHeld /\ LinesAreReserved
      /\ HolderKnowsFile /\ NothingOutgrows
  BY DEF LogInv
<1>3. /\ contents' \in [Log!Inodes -> Seq(1..MaxLines)]
      /\ directory' \in [Log!Names -> Log!Inodes \cup {None}]
      /\ m_log' \in [Processes -> Log!Inodes \cup {None}]
      /\ OldFilesAreFull'
      /\ m_log'[p] = directory'[0] /\ directory'[0] # None
      /\ \A q \in Processes : q # p => m_log'[q] = m_log[q]
      /\ directory[0] # None => UNCHANGED <<contents, directory>>
      /\ directory[0] = None =>
            /\ Len(contents'[directory'[0]]) = 0
            /\ \A n \in Log!Names : n # 0 /\ directory'[n] # None =>
                  /\ directory[n] = directory'[n]
                  /\ contents'[directory'[n]] = contents[directory[n]]
  BY <1>1, <1>2, OpenLogKeeps
<1>4. \A t \in Log!Threads : apc[t] # "idle" =>
         Log!process(t) # p /\ m_log'[Log!process(t)] = m_log[Log!process(t)]
  BY <1>1, <1>3, LogThreads
<1>5. Log!TypeOK'
  BY <1>1, <1>2, <1>3 DEF Log!TypeOK
<1>6. LinesAreReserved'
  BY <1>1, <1>2, NoLineBegun
<1>7. LockIsHeld'
  BY <1>1, <1>2, <1>4 DEF LockIsHeld, HasLock, Pending
<1>8. HolderKnowsFile'
  <2>1. ASSUME NEW t \in Log!Threads, apc[t] \in {"write", "rename"}
        PROVE  directory[0] # None
    BY <1>2, <2>1 DEF HolderKnowsFile, LockIsHeld, Pending
  <2>2. ASSUME NEW t \in Log!Threads
        PROVE  /\ apc'[t] = "write" => /\ m_log'[Log!process(t)] = directory'[0]
                                       /\ size'[t] = Len(contents'[directory'[0]])
               /\ apc'[t] = "rename" => /\ directory'[0] # None
                                        /\ Len(contents'[directory'[0]]) >= MaxFileSize
                                        /\ MaxBackupIndex > 0
    BY <1>1, <1>2, <1>3, <1>4, <2>1 DEF HolderKnowsFile, Full
  <2>3. QED  BY <2>2 DEF HolderKnowsFile, Full
<1>9. NothingOutgrows'
  BY <1>1, OpenedInTime
<1>10. QED  BY <1>3, <1>5, <1>6, <1>7, <1>8, <1>9 DEF LogInv

\* A process ends at any step.
LEMMA LogCrashes ==
    ASSUME LogAssumption, LogInv, NEW p \in Processes, Log!Crash(p)
    PROVE  LogInv'
<1>1. /\ crashes < MaxCrashes /\ crashes' = crashes + 1
      /\ m_log' = [m_log EXCEPT ![p] = None]
      /\ lockedBy' = IF lockedBy = p THEN None ELSE lockedBy
      /\ apc' = [t \in Log!Threads |-> IF Log!process(t) = p THEN "idle" ELSE apc[t]]
      /\ size' = [t \in Log!Threads |-> IF Log!process(t) = p THEN 0 ELSE size[t]]
      /\ shift' = [t \in Log!Threads |-> IF Log!process(t) = p THEN 0 ELSE shift[t]]
      /\ UNCHANGED <<contents, directory, lines>>
  BY DEF Log!Crash
<1>2. Log!TypeOK /\ OldFilesAreFull /\ LockIsHeld /\ LinesAreReserved
      /\ HolderKnowsFile /\ NothingOutgrows
  BY DEF LogInv
<1>3. \A t \in Log!Threads : apc'[t] # "idle" =>
         /\ Log!process(t) # p /\ apc'[t] = apc[t] /\ size'[t] = size[t]
         /\ m_log'[Log!process(t)] = m_log[Log!process(t)]
  BY <1>1, <1>2, LogThreads DEF Log!TypeOK
<1>4. Log!TypeOK'
  <2>1. crashes' \in 0..MaxCrashes
    BY <1>1, <1>2 DEF Log!TypeOK, LogAssumption
  <2>2. apc' \in [Log!Threads -> {"idle", "getLock", "checkSize", "write", "rename", "open"}]
    BY <1>1, <1>2 DEF Log!TypeOK
  <2>3. size' \in [Log!Threads -> Nat] /\ shift' \in [Log!Threads -> Log!Names]
    BY <1>1, <1>2, LogState DEF Log!TypeOK
  <2>4. m_log' \in [Processes -> Log!Inodes \cup {None}] /\ lockedBy' \in Processes \cup {None}
    BY <1>1, <1>2 DEF Log!TypeOK
  <2>5. QED  BY <1>1, <1>2, <2>1, <2>2, <2>3, <2>4 DEF Log!TypeOK
<1>5. LinesAreReserved'
  BY <1>1, <1>2, <1>3, NoLineBegun
<1>6. LockIsHeld'
  BY <1>1, <1>2, <1>3 DEF LockIsHeld, HasLock, Pending
<1>7. OldFilesAreFull'
  <2>1. \A q \in Processes : m_log'[q] = IF q = p THEN None ELSE m_log[q]
    BY <1>1, <1>2 DEF Log!TypeOK
  <2>2. QED  BY <1>1, <1>2, <2>1 DEF OldFilesAreFull, Full
<1>8. HolderKnowsFile'
  <2>1. ASSUME NEW t \in Log!Threads
        PROVE  /\ apc'[t] = "write" => /\ m_log'[Log!process(t)] = directory'[0]
                                       /\ size'[t] = Len(contents'[directory'[0]])
               /\ apc'[t] = "rename" => /\ directory'[0] # None
                                        /\ Len(contents'[directory'[0]]) >= MaxFileSize
                                        /\ MaxBackupIndex > 0
    BY <1>1, <1>2, <1>3 DEF HolderKnowsFile, Full
  <2>2. QED  BY <2>1 DEF HolderKnowsFile, Full
<1>9. NothingOutgrows'
  <2>1. ASSUME MaxBackupIndex > 0, NEW n \in Log!Names, directory[n] # None
        PROVE  /\ Len(contents[directory[n]]) <= MaxFileSize + (crashes + 1)
               /\ Len(contents[directory[n]]) < MaxFileSize + (crashes + 1)
    <3>1. Len(contents[directory[n]]) <= MaxFileSize + crashes
      BY <1>2, <2>1 DEF NothingOutgrows
    <3>2. Len(contents[directory[n]]) \in Nat
      BY <2>1, LogState
    <3>3. QED  BY <3>1, <3>2, LogState
  <2>2. QED  BY <1>1, <2>1, LogState DEF NothingOutgrows
<1>10. QED  BY <1>4, <1>5, <1>6, <1>7, <1>8, <1>9 DEF LogInv

\* A thread begins to log, or gets the lock.
LEMMA LogBegins ==
    ASSUME LogAssumption, LogInv, NEW t \in Log!Threads, Log!Log(t) \/ Log!GetLock(t)
    PROVE  LogInv'
<1>1. /\ UNCHANGED <<contents, directory, m_log, size, shift, lines, crashes>>
      /\ \/ /\ apc[t] = "idle" /\ m_log[Log!process(t)] # None
            /\ apc' = [apc EXCEPT ![t] = "getLock"] /\ lockedBy' = lockedBy
         \/ /\ apc[t] = "getLock" /\ lockedBy \in {None, Log!process(t)}
            /\ apc' = [apc EXCEPT ![t] = "checkSize"] /\ lockedBy' = Log!process(t)
  BY DEF Log!Log, Log!GetLock, Log!Goto
<1>2. Log!TypeOK /\ OldFilesAreFull /\ LockIsHeld /\ LinesAreReserved
      /\ HolderKnowsFile /\ NothingOutgrows
  BY DEF LogInv
<1>3. Log!process(t) \in Processes
  BY LogThreads
<1>4. /\ \A u \in Log!Threads : u # t => apc'[u] = apc[u]
      /\ apc'[t] \in {"getLock", "checkSize"}
  BY <1>1, <1>2 DEF Log!TypeOK
<1>5. Log!TypeOK'
  BY <1>1, <1>2, <1>3 DEF Log!TypeOK
<1>6. LinesAreReserved'
  <2>1. CASE Log!Log(t)
    BY <1>2, <2>1, LineIsBegun
  <2>2. CASE apc[t] = "getLock"
    BY <1>1, <1>2, <1>4, <2>2, NoLineBegun
  <2>3. QED  BY <1>1, <2>1, <2>2 DEF Log!GetLock
<1>7. LockIsHeld'
  <2>1. ASSUME NEW u \in Log!Threads, apc'[u] \in {"getLock", "checkSize", "write"}
        PROVE  m_log'[Log!process(u)] # None
    BY <1>1, <1>2, <1>4, <2>1 DEF LockIsHeld, Pending
  <2>2. ASSUME NEW u \in Log!Threads, apc'[u] \in {"checkSize", "write", "rename", "open"}
        PROVE  lockedBy' = Log!process(u)
    <3>1. CASE u = t
      BY <1>1, <1>2, <2>2, <3>1 DEF Log!TypeOK
    <3>2. CASE u # t
      <4>1. lockedBy = Log!process(u)
        BY <1>2, <1>4, <2>2, <3>2 DEF LockIsHeld, HasLock
      <4>2. Log!process(u) # None /\ Log!process(u) # Log!process(t)
        BY <3>2, LogThreads, LogState
      <4>3. QED  BY <1>1, <4>1, <4>2
    <3>3. QED  BY <3>1, <3>2
  <2>3. QED  BY <2>1, <2>2 DEF LockIsHeld, HasLock, Pending
<1>8. OldFilesAreFull' /\ HolderKnowsFile'
  <2>1. OldFilesAreFull'
    BY <1>1, <1>2 DEF OldFilesAreFull, Full
  <2>2. ASSUME NEW u \in Log!Threads
        PROVE  /\ apc'[u] = "write" => /\ m_log'[Log!process(u)] = directory'[0]
                                       /\ size'[u] = Len(contents'[directory'[0]])
               /\ apc'[u] = "rename" => /\ directory'[0] # None
                                        /\ Len(contents'[directory'[0]]) >= MaxFileSize
                                        /\ MaxBackupIndex > 0
    <3>1. apc'[u] \in {"write", "rename"} => apc'[u] = apc[u]
      BY <1>4
    <3>2. QED  BY <1>1, <1>2, <3>1 DEF HolderKnowsFile, Full
  <2>3. QED  BY <2>1, <2>2 DEF HolderKnowsFile, Full
<1>9. NothingOutgrows'
  <2>1. \A u \in Log!Threads : apc[u] = "rename" => apc'[u] = "rename"
    BY <1>1, <1>4
  <2>2. QED  BY <1>1, <1>2, <2>1 DEF NothingOutgrows
<1>10. QED  BY <1>5, <1>6, <1>7, <1>8, <1>9 DEF LogInv

\* Whoever has the lock is alone: what it leaves to the invariant.
LEMMA HolderProceeds ==
    ASSUME LogAssumption, LogInv, NEW t \in HasLock,
           NEW next \in {"idle", "write", "rename", "open"},
           apc' = [apc EXCEPT ![t] = next],
           lockedBy' = IF next = "idle" THEN None ELSE lockedBy,
           next = "write" => m_log'[Log!process(t)] # None,
           \A q \in Processes : q # Log!process(t) => m_log'[q] = m_log[q]
    PROVE  /\ LockIsHeld'
           /\ t \in Log!Threads /\ Log!process(t) \in Processes
           /\ apc' \in [Log!Threads ->
                           {"idle", "getLock", "checkSize", "write", "rename", "open"}]
           /\ lockedBy' \in Processes \cup {None} /\ apc'[t] = next
           /\ \A u \in Log!Threads : u # t => apc'[u] = apc[u] /\ apc'[u] \in {"idle", "getLock"}
<1>1. Log!TypeOK /\ LockIsHeld
  BY DEF LogInv
<1>2. t \in Log!Threads /\ Log!process(t) \in Processes
  BY LogThreads DEF HasLock
<1>3. \A u \in Log!Threads : u # t => apc'[u] = apc[u] /\ apc[u] \in {"idle", "getLock"}
  <2>1. ASSUME NEW u \in Log!Threads, u # t  PROVE apc[u] \in {"idle", "getLock"}
    <3>1. u \notin HasLock
      BY <1>1, <2>1, OneHasLock
    <3>2. QED  BY <1>1, <3>1 DEF HasLock, Log!TypeOK
  <2>2. QED  BY <1>1, <1>2, <2>1 DEF Log!TypeOK
<1>4. apc'[t] = next
  BY <1>1, <1>2 DEF Log!TypeOK
<1>5. LockIsHeld'
  <2>1. ASSUME NEW u \in Log!Threads, apc'[u] \in {"checkSize", "write", "rename", "open"}
        PROVE  lockedBy' = Log!process(u)
    <3>1. u = t
      BY <1>3, <2>1
    <3>2. lockedBy' = lockedBy
      BY <1>4, <2>1, <3>1
    <3>3. QED  BY <1>1, <3>1, <3>2 DEF LockIsHeld
  <2>2. ASSUME NEW u \in Log!Threads, apc'[u] \in {"getLock", "checkSize", "write"}
        PROVE  m_log'[Log!process(u)] # None
    <3>1. CASE u = t
      BY <1>4, <2>2, <3>1
    <3>2. CASE u # t
      <4>1. Log!process(u) # Log!process(t) /\ Log!process(u) \in Processes
        BY <1>2, <3>2, LogThreads
      <4>2. m_log[Log!process(u)] # None
        BY <1>1, <1>3, <2>2, <3>2 DEF LockIsHeld, Pending
      <4>3. QED  BY <4>1, <4>2
    <3>3. QED  BY <3>1, <3>2
  <2>3. QED  BY <2>1, <2>2 DEF LockIsHeld, HasLock, Pending
<1>6. /\ apc' \in [Log!Threads ->
                      {"idle", "getLock", "checkSize", "write", "rename", "open"}]
      /\ lockedBy' \in Processes \cup {None}
  BY <1>1, <1>2 DEF Log!TypeOK
<1>7. QED  BY <1>2, <1>3, <1>4, <1>5, <1>6

\* The holder of the lock opens the log file, to write to it or having rotated it.
LEMMA HolderOpens ==
    ASSUME LogAssumption, LogInv, NEW t \in HasLock, apc[t] # "rename",
           NEW next \in {"idle", "write"},
           apc' = [apc EXCEPT ![t] = next],
           lockedBy' = IF next = "idle" THEN None ELSE lockedBy,
           \/ /\ next = "idle"
              /\ m_log' = [m_log EXCEPT ![Log!process(t)] = None]
              /\ UNCHANGED <<contents, directory>>
           \/ Log!OpenLog(Log!process(t)),
           size' \in [Log!Threads -> Nat], shift' \in [Log!Threads -> Log!Names],
           next = "write" => size'[t] = Log!SizeOf(directory[0]),
           UNCHANGED <<lines, crashes>>,
           apc[t] = "checkSize" \/ next = "idle"
    PROVE  LogInv'
<1> DEFINE p == Log!process(t)
<1>1. Log!TypeOK /\ OldFilesAreFull /\ LockIsHeld /\ LinesAreReserved
      /\ HolderKnowsFile /\ NothingOutgrows
  BY DEF LogInv
<1>2. t \in Log!Threads /\ p \in Processes
  BY LogThreads DEF HasLock
<1>3. /\ contents' \in [Log!Inodes -> Seq(1..MaxLines)]
      /\ directory' \in [Log!Names -> Log!Inodes \cup {None}]
      /\ m_log' \in [Processes -> Log!Inodes \cup {None}]
      /\ OldFilesAreFull'
      /\ \A q \in Processes : q # p => m_log'[q] = m_log[q]
  <2>1. CASE Log!OpenLog(p)
    BY <1>1, <1>2, <2>1, OpenLogKeeps
  <2>2. CASE m_log' = [m_log EXCEPT ![p] = None] /\ UNCHANGED <<contents, directory>>
    <3>1. m_log' \in [Processes -> Log!Inodes \cup {None}]
      BY <1>1, <2>2 DEF Log!TypeOK
    <3>2. \A q \in Processes : m_log'[q] = IF q = p THEN None ELSE m_log[q]
      BY <1>1, <1>2, <2>2 DEF Log!TypeOK
    <3>3. OldFilesAreFull'
      BY <1>1, <2>2, <3>2 DEF OldFilesAreFull, Full
    <3>4. QED  BY <1>1, <2>2, <3>1, <3>2, <3>3 DEF Log!TypeOK
  <2>3. QED  BY <2>1, <2>2
<1>4. next = "write" => /\ m_log'[p] = directory'[0] /\ directory'[0] # None
                        /\ size'[t] = Len(contents'[directory'[0]])
  <2>1. SUFFICES ASSUME next = "write"
                 PROVE  /\ m_log'[p] = directory'[0] /\ directory'[0] # None
                        /\ size'[t] = Len(contents'[directory'[0]])
    OBVIOUS
  <2>2. /\ m_log'[p] = directory'[0] /\ directory'[0] # None
        /\ directory[0] # None => UNCHANGED <<contents, directory>>
        /\ directory[0] = None => Len(contents'[directory'[0]]) = 0
    BY <1>1, <1>2, <2>1, OpenLogKeeps
  <2>3. QED  BY <2>1, <2>2 DEF Log!SizeOf
<1>5. /\ LockIsHeld'
      /\ apc' \in [Log!Threads ->
                      {"idle", "getLock", "checkSize", "write", "rename", "open"}]
      /\ lockedBy' \in Processes \cup {None} /\ apc'[t] = next
      /\ \A u \in Log!Threads : u # t => apc'[u] = apc[u] /\ apc'[u] \in {"idle", "getLock"}
  <2>1. /\ next \in {"idle", "write", "rename", "open"}
        /\ next = "write" => m_log'[Log!process(t)] # None
        /\ \A q \in Processes : q # Log!process(t) => m_log'[q] = m_log[q]
    BY <1>3, <1>4
  <2>2. QED  BY <2>1, HolderProceeds
<1>6. Log!TypeOK'
  BY <1>1, <1>3, <1>5 DEF Log!TypeOK
<1>7. LinesAreReserved'
  BY <1>1, <1>2, <1>5, NoLineBegun
<1>8. HolderKnowsFile'
  <2>1. \A u \in Log!Threads : /\ apc'[u] # "rename"
                               /\ apc'[u] = "write" => u = t /\ next = "write"
    BY <1>5
  <2>2. QED  BY <1>4, <2>1 DEF HolderKnowsFile
<1>9. NothingOutgrows'
  <2>1. \A u \in Log!Threads : apc[u] # "rename"
    BY <1>5
  <2>2. CASE Log!OpenLog(p)
    BY <1>2, <2>1, <2>2, OpenedInTime
  <2>3. CASE UNCHANGED <<contents, directory>>
    BY <1>1, <2>1, <2>3 DEF NothingOutgrows
  <2>4. QED  BY <2>2, <2>3
<1>10. QED  BY <1>3, <1>5, <1>6, <1>7, <1>8, <1>9 DEF LogInv

\* The holder of the lock looks at the file, and may find that it has been rotated.
LEMMA LogChecksSize ==
    ASSUME LogAssumption, LogInv, NEW t \in Log!Threads, Log!CheckSize(t)
    PROVE  LogInv'
<1> DEFINE p == Log!process(t)
<1>1. Log!TypeOK /\ OldFilesAreFull /\ LockIsHeld /\ LinesAreReserved
      /\ HolderKnowsFile /\ NothingOutgrows
  BY DEF LogInv
<1>2. apc[t] = "checkSize" /\ t \in HasLock /\ p \in Processes /\ UNCHANGED <<lines, crashes>>
  BY LogThreads DEF HasLock, Log!CheckSize
<1>3. m_log[p] # None /\ m_log[p] \in Log!Inodes
  BY <1>1, <1>2, LogState DEF LockIsHeld, Pending
<1>4. CASE /\ Log!SizeOf(m_log[p]) < MaxFileSize
           /\ size' = [size EXCEPT ![t] = Log!SizeOf(m_log[p])]
           /\ apc' = [apc EXCEPT ![t] = "write"]
           /\ UNCHANGED <<contents, directory, m_log, lockedBy, shift>>
  <2>1. Log!SizeOf(m_log[p]) = Len(contents[m_log[p]]) /\ Log!SizeOf(m_log[p]) \in Nat
    BY <1>3, LogState DEF Log!SizeOf
  <2>2. m_log[p] = directory[0]
    <3>1. ~(Len(contents[m_log[p]]) >= MaxFileSize)
      BY <1>4, <2>1, LogState
    <3>2. QED  BY <1>1, <1>2, <1>3, <3>1 DEF OldFilesAreFull, Full
  <2>3. /\ LockIsHeld'
        /\ apc' \in [Log!Threads ->
                        {"idle", "getLock", "checkSize", "write", "rename", "open"}]
        /\ lockedBy' \in Processes \cup {None} /\ apc'[t] = "write"
        /\ \A u \in Log!Threads : u # t => apc'[u] = apc[u] /\ apc'[u] \in {"idle", "getLock"}
    BY <1>2, <1>3, <1>4, HolderProceeds
  <2>4. size' \in [Log!Threads -> Nat] /\ size'[t] = Len(contents[directory[0]])
    BY <1>1, <1>4, <2>1, <2>2 DEF Log!TypeOK
  <2>5. Log!TypeOK'
    BY <1>1, <1>2, <1>4, <2>3, <2>4 DEF Log!TypeOK
  <2>6. LinesAreReserved'
    BY <1>1, <1>2, <2>3, NoLineBegun
  <2>7. OldFilesAreFull'
    BY <1>1, <1>4 DEF OldFilesAreFull, Full
  <2>8. HolderKnowsFile'
    <3>1. \A u \in Log!Threads : apc'[u] # "rename" /\ (apc'[u] = "write" => u = t)
      BY <2>3
    <3>2. QED  BY <1>4, <2>2, <2>4, <3>1 DEF HolderKnowsFile
  <2>9. NothingOutgrows'
    <3>1. \A u \in Log!Threads : apc[u] # "rename"
      BY <1>2, <2>3
    <3>2. QED  BY <1>1, <1>2, <1>4, <3>1 DEF NothingOutgrows
  <2>10. QED  BY <2>3, <2>5, <2>6, <2>7, <2>8, <2>9 DEF LogInv
<1>5. CASE /\ Log!OpenLog(p)
           /\ size' = [size EXCEPT ![t] = Log!SizeOf(directory[0])]
           /\ apc' = [apc EXCEPT ![t] = "write"]
           /\ UNCHANGED <<lockedBy, shift>>
  <2>1. Log!SizeOf(directory[0]) \in Nat
    BY LogState DEF Log!SizeOf
  <2>2. /\ size' \in [Log!Threads -> Nat] /\ shift' \in [Log!Threads -> Log!Names]
        /\ size'[t] = Log!SizeOf(directory[0])
    BY <1>1, <1>5, <2>1 DEF Log!TypeOK
  <2>3. QED  BY <1>2, <1>5, <2>2, HolderOpens
<1>6. CASE Log!OpenFails(p) /\ Log!Return(t)
  <2>1. /\ m_log' = [m_log EXCEPT ![p] = None]
        /\ UNCHANGED <<contents, directory>>
        /\ apc' = [apc EXCEPT ![t] = "idle"] /\ lockedBy' = None
    BY <1>6 DEF Log!OpenFails, Log!Return
  <2>2. size' \in [Log!Threads -> Nat] /\ shift' \in [Log!Threads -> Log!Names]
    BY <1>1, <1>6, LogState DEF Log!TypeOK, Log!Return
  <2>3. QED  BY <1>2, <2>1, <2>2, HolderOpens
<1>7. QED  BY <1>4, <1>5, <1>6 DEF Log!CheckSize, Log!Goto

\* The holder of the lock opens the file that it has rotated.
LEMMA LogOpens ==
    ASSUME LogAssumption, LogInv, NEW t \in Log!Threads, Log!Open(t)
    PROVE  LogInv'
<1>1. apc[t] = "open" /\ t \in HasLock /\ UNCHANGED <<lines, crashes>>
  BY DEF HasLock, Log!Open
<1>2. /\ apc' = [apc EXCEPT ![t] = "idle"] /\ lockedBy' = None
      /\ \/ Log!OpenLog(Log!process(t))
         \/ /\ m_log' = [m_log EXCEPT ![Log!process(t)] = None]
            /\ UNCHANGED <<contents, directory>>
  BY DEF Log!Open, Log!OpenFails, Log!Return
<1>3. size' \in [Log!Threads -> Nat] /\ shift' \in [Log!Threads -> Log!Names]
  <2>1. Log!TypeOK
    BY DEF LogInv
  <2>2. QED  BY <2>1, LogState DEF Log!TypeOK, Log!Open, Log!Return
<1>4. QED  BY <1>1, <1>2, <1>3, HolderOpens

\* A line is written to the file that the lock is for.
LEMMA LogWrites ==
    ASSUME LogAssumption, LogInv, NEW t \in Log!Threads, Log!Write(t)
    PROVE  LogInv'
<1> DEFINE p    == Log!process(t)
           full == size[t] + 1 >= MaxFileSize
           next == IF full THEN IF MaxBackupIndex > 0 THEN "rename" ELSE "open" ELSE "idle"
           file0 == directory[0]
<1>1. Log!TypeOK /\ OldFilesAreFull /\ LockIsHeld /\ LinesAreReserved
      /\ HolderKnowsFile /\ NothingOutgrows
  BY DEF LogInv
<1>2. apc[t] = "write" /\ t \in HasLock /\ p \in Processes
      /\ UNCHANGED <<directory, crashes>>
  BY LogThreads DEF HasLock, Log!Write
<1>3. /\ m_log[p] # None /\ m_log[p] = file0 /\ size[t] = Len(contents[file0])
      /\ file0 \in Log!Inodes
  BY <1>1, <1>2, LogState DEF LockIsHeld, Pending, HolderKnowsFile
<1>4. /\ lines' = lines + 1
      /\ contents' = [contents EXCEPT ![file0] = Append(@, lines + 1)]
  BY <1>3 DEF Log!Write
<1>5. /\ apc' = [apc EXCEPT ![t] = next]
      /\ lockedBy' = IF next = "idle" THEN None ELSE lockedBy
      /\ m_log' = IF full THEN [m_log EXCEPT ![p] = None] ELSE m_log
      /\ size' = IF full THEN size ELSE [size EXCEPT ![t] = 0]
      /\ shift' = IF full THEN [shift EXCEPT ![t] = MaxBackupIndex]
                          ELSE [shift EXCEPT ![t] = 0]
  BY DEF Log!Write, Log!Goto, Log!Return
<1>6. /\ \A q \in Processes : m_log'[q] = m_log[q] \/ m_log'[q] = None
      /\ \A q \in Processes : q # p => m_log'[q] = m_log[q]
      /\ m_log' \in [Processes -> Log!Inodes \cup {None}]
  BY <1>1, <1>2, <1>5 DEF Log!TypeOK
<1>7. /\ LockIsHeld'
      /\ apc' \in [Log!Threads ->
                      {"idle", "getLock", "checkSize", "write", "rename", "open"}]
      /\ lockedBy' \in Processes \cup {None} /\ apc'[t] = next
      /\ \A u \in Log!Threads : u # t => apc'[u] = apc[u] /\ apc'[u] \in {"idle", "getLock"}
  <2>1. next \in {"idle", "write", "rename", "open"} /\ next # "write"
    OBVIOUS
  <2> HIDE DEF next
  <2>2. QED  BY <1>2, <1>5, <1>6, <2>1, HolderProceeds
<1>8. lines' \in 1..MaxLines /\ LinesAreReserved'
  BY <1>1, <1>2, <1>4, <1>7, LineIsWritten
<1>9. /\ contents' \in [Log!Inodes -> Seq(1..MaxLines)]
      /\ Len(contents'[file0]) = Len(contents[file0]) + 1
      /\ \A i \in Log!Inodes : i # file0 => contents'[i] = contents[i]
  <2>1. contents[file0] \in Seq(1..MaxLines)
    BY <1>1, <1>3 DEF Log!TypeOK
  <2>2. /\ Append(contents[file0], lines + 1) \in Seq(1..MaxLines)
        /\ Len(Append(contents[file0], lines + 1)) = Len(contents[file0]) + 1
    BY <1>4, <1>8, <2>1
  <2>3. QED  BY <1>1, <1>3, <1>4, <2>2 DEF Log!TypeOK
<1>10. Log!TypeOK'
  <2>1. lines' \in 0..MaxLines
    BY <1>8 DEF LogAssumption
  <2>2. MaxBackupIndex \in Log!Names
    BY LogState DEF Log!Names
  <2>3. size' \in [Log!Threads -> Nat] /\ shift' \in [Log!Threads -> Log!Names]
    BY <1>1, <1>5, <2>2, LogState DEF Log!TypeOK
  <2>4. QED  BY <1>1, <1>2, <1>6, <1>7, <1>9, <2>1, <2>3 DEF Log!TypeOK
<1>11. \A i \in Log!Inodes : Len(contents[i]) >= MaxFileSize => Len(contents'[i]) >= MaxFileSize
  BY <1>3, <1>9, LogState
<1>12. OldFilesAreFull'
  <2>1. ASSUME NEW q \in Processes, m_log'[q] # None, m_log'[q] # directory'[0]
        PROVE  Len(contents'[m_log'[q]]) >= MaxFileSize
    <3>1. m_log'[q] = m_log[q] /\ m_log[q] \in Log!Inodes
      BY <1>6, <2>1, LogState
    <3>2. Len(contents[m_log[q]]) >= MaxFileSize
      BY <1>1, <1>2, <2>1, <3>1 DEF OldFilesAreFull, Full
    <3>3. QED  BY <1>11, <3>1, <3>2
  <2>2. ASSUME NEW n \in Log!Names, n > 0, directory'[n] # None
        PROVE  Len(contents'[directory'[n]]) >= MaxFileSize
    <3>1. Len(contents[directory[n]]) >= MaxFileSize /\ directory[n] \in Log!Inodes
      BY <1>1, <1>2, <2>2, LogState DEF OldFilesAreFull, Full
    <3>2. QED  BY <1>2, <1>11, <3>1
  <2>3. QED  BY <2>1, <2>2 DEF OldFilesAreFull, Full
<1>13. HolderKnowsFile'
  <2>1. \A u \in Log!Threads : apc'[u] # "write" /\ (apc'[u] = "rename" => u = t)
    BY <1>7
  <2>2. apc'[t] = "rename" => /\ directory'[0] # None
                              /\ Len(contents'[directory'[0]]) >= MaxFileSize
                              /\ MaxBackupIndex > 0
    BY <1>2, <1>3, <1>7, <1>9
  <2>3. QED  BY <2>1, <2>2 DEF HolderKnowsFile, Full
<1>14. NothingOutgrows'
  <2>1. SUFFICES ASSUME MaxBackupIndex > 0
        PROVE  /\ \A n \in Log!Names : directory[n] # None =>
                     Len(contents'[directory[n]]) <= MaxFileSize + crashes
               /\ apc'[t] # "rename" => Len(contents'[directory[0]]) < MaxFileSize + crashes
    BY <1>2 DEF NothingOutgrows
  <2>2. \A u \in Log!Threads : apc[u] # "rename"
    BY <1>2, <1>7
  <2>3. Len(contents[file0]) < MaxFileSize + crashes /\ Len(contents[file0]) \in Nat
    BY <1>1, <1>3, <2>1, <2>2, LogState DEF NothingOutgrows
  <2>4. \A n \in Log!Names : directory[n] # None =>
           Len(contents'[directory[n]]) <= MaxFileSize + crashes
    <3>1. ASSUME NEW n \in Log!Names, directory[n] # None, directory[n] # file0
          PROVE  Len(contents'[directory[n]]) <= MaxFileSize + crashes
      BY <1>1, <1>9, <2>1, <3>1, LogState DEF NothingOutgrows
    <3>2. Len(contents'[file0]) <= MaxFileSize + crashes
      BY <1>9, <2>3, LogState
    <3>3. QED  BY <3>1, <3>2
  <2>5. apc'[t] # "rename" => Len(contents'[directory[0]]) < MaxFileSize + crashes
    <3>1. SUFFICES ASSUME ~full
                   PROVE  Len(contents'[directory[0]]) < MaxFileSize + crashes
      BY <1>7, <2>1
    <3>2. QED  BY <1>3, <1>9, <2>3, <3>1, LogState
  <2>6. QED  BY <2>4, <2>5
<1>15. QED  BY <1>7, <1>8, <1>10, <1>12, <1>13, <1>14 DEF LogInv

\* A full log file becomes a backup.
LEMMA LogRenames ==
    ASSUME LogAssumption, LogInv, NEW t \in Log!Threads, Log!Rename(t)
    PROVE  LogInv'
<1> DEFINE k == shift[t]
           next == IF k > 0 THEN "rename" ELSE "open"
<1>1. Log!TypeOK /\ OldFilesAreFull /\ LockIsHeld /\ LinesAreReserved
      /\ HolderKnowsFile /\ NothingOutgrows
  BY DEF LogInv
<1>2. apc[t] = "rename" /\ t \in HasLock /\ UNCHANGED <<contents, m_log, lines, crashes>>
  BY DEF HasLock, Log!Rename
<1>3. directory[0] # None /\ Full(directory[0]) /\ MaxBackupIndex > 0
      /\ k \in Log!Names /\ k \in Nat
  BY <1>1, <1>2, LogState DEF HolderKnowsFile, Log!TypeOK
<1>4. \A n \in Log!Names :
         directory'[n] = IF n = k THEN None
                         ELSE IF n = k + 1 /\ directory[k] # None THEN directory[k]
                         ELSE directory[n]
  BY DEF Log!Rename
<1>5. /\ apc' = [apc EXCEPT ![t] = next] /\ lockedBy' = lockedBy /\ size' = size
      /\ shift' = IF k > 0 THEN [shift EXCEPT ![t] = k - 1] ELSE shift
  <2>1. CASE k > 0
    BY <1>1, <1>2, <2>1 DEF Log!Rename, Log!TypeOK
  <2>2. CASE ~(k > 0)
    BY <1>3, <2>2 DEF Log!Rename, Log!Goto
  <2>3. QED  BY <2>1, <2>2
<1>6. /\ LockIsHeld'
      /\ apc' \in [Log!Threads ->
                      {"idle", "getLock", "checkSize", "write", "rename", "open"}]
      /\ lockedBy' \in Processes \cup {None} /\ apc'[t] = next
      /\ \A u \in Log!Threads : u # t => apc'[u] = apc[u] /\ apc'[u] \in {"idle", "getLock"}
  <2>1. next \in {"rename", "open"}
    OBVIOUS
  <2> HIDE DEF next
  <2>2. QED  BY <1>2, <1>5, <2>1, HolderProceeds
<1>7. directory' \in [Log!Names -> Log!Inodes \cup {None}]
  <2>1. directory' = [n \in Log!Names |->
                         IF n = k THEN None
                         ELSE IF n = k + 1 /\ directory[k] # None THEN directory[k]
                         ELSE directory[n]]
    BY DEF Log!Rename
  <2>2. QED  BY <1>3, <2>1, LogState
<1>8. Log!TypeOK'
  <2>1. k > 0 => k - 1 \in Log!Names
    BY <1>3, LogState DEF Log!Names
  <2>2. shift' \in [Log!Threads -> Log!Names]
    BY <1>1, <1>5, <2>1 DEF Log!TypeOK
  <2>3. QED  BY <1>1, <1>2, <1>5, <1>6, <1>7, <2>2 DEF Log!TypeOK
<1>9. LinesAreReserved'
  BY <1>1, <1>2, <1>6, NoLineBegun
<1>10. /\ k > 0 => directory'[0] = directory[0]
       /\ k = 0 => directory'[0] = None
  BY <1>3, <1>4, LogState
<1>11. OldFilesAreFull'
  <2>1. ASSUME NEW q \in Processes, m_log[q] # None, m_log[q] # directory'[0]
        PROVE  Full(m_log[q])
    BY <1>1, <1>3, <1>10, <2>1 DEF OldFilesAreFull
  <2>2. ASSUME NEW n \in Log!Names, n > 0, directory'[n] # None
        PROVE  Full(directory'[n])
    <3>1. CASE directory'[n] = directory[n]
      BY <1>1, <2>2, <3>1 DEF OldFilesAreFull
    <3>2. CASE directory'[n] = directory[k] /\ k > 0
      BY <1>1, <1>3, <2>2, <3>2 DEF OldFilesAreFull
    <3>3. CASE directory'[n] = directory[k] /\ ~(k > 0)
      <4>1. k = 0
        BY <1>3, <3>3
      <4>2. QED  BY <1>3, <3>3, <4>1
    <3>4. QED  BY <1>4, <2>2, <3>1, <3>2, <3>3
  <2>3. QED  BY <1>2, <2>1, <2>2 DEF OldFilesAreFull, Full
<1>12. HolderKnowsFile'
  <2>1. \A u \in Log!Threads : apc'[u] # "write" /\ (apc'[u] = "rename" => u = t /\ k > 0)
    BY <1>6
  <2>2. QED  BY <1>2, <1>3, <1>10, <2>1 DEF HolderKnowsFile, Full
<1>13. NothingOutgrows'
  <2>1. \A n \in Log!Names : directory'[n] # None =>
           \E m \in Log!Names : directory[m] # None /\ directory'[n] = directory[m]
    BY <1>3, <1>4
  <2>2. apc'[t] = "rename" \/ directory'[0] = None
    BY <1>3, <1>6, <1>10
  <2>3. QED  BY <1>1, <1>2, <1>3, <2>1, <2>2 DEF NothingOutgrows
<1>14. QED  BY <1>6, <1>8, <1>9, <1>11, <1>12, <1>13 DEF LogInv

\* The invariant of the log file holds at the start and is kept.
LEMMA LogInvHolds ==
    ASSUME LogAssumption
    PROVE  /\ Log!Init => LogInv
           /\ LogInv /\ [Log!Next]_appenderVars => LogInv'
<1>1. ASSUME Log!Init  PROVE LogInv
  <2>1. /\ contents = [i \in Log!Inodes |-> <<>>]
        /\ directory = [n \in Log!Names |-> None]
        /\ m_log = [p \in Processes |-> None] /\ lockedBy = None
        /\ apc = [t \in Log!Threads |-> "idle"]
        /\ size = [t \in Log!Threads |-> 0] /\ shift = [t \in Log!Threads |-> 0]
        /\ lines = 0 /\ crashes = 0
    BY <1>1 DEF Log!Init
  <2>2. /\ \A t \in Log!Threads : apc[t] = "idle"
        /\ \A p \in Processes : m_log[p] = None
        /\ \A n \in Log!Names : directory[n] = None
        /\ 0 \in Log!Names
    BY <2>1 DEF Log!Names, LogAssumption
  <2>3. Log!TypeOK
    BY <2>1, <2>2 DEF Log!TypeOK, LogAssumption
  <2>4. LinesAreReserved
    <3>1. Pending = {}
      BY <2>2 DEF Pending
    <3>2. QED  BY <2>1, <3>1, FS_EmptySet DEF LinesAreReserved, LogAssumption
  <2>5. LockIsHeld /\ OldFilesAreFull /\ HolderKnowsFile /\ NothingOutgrows
    BY <2>2 DEF LockIsHeld, HasLock, Pending, OldFilesAreFull, HolderKnowsFile,
       NothingOutgrows
  <2>6. QED  BY <2>3, <2>4, <2>5 DEF LogInv
<1>2. ASSUME LogInv, [Log!Next]_appenderVars  PROVE LogInv'
  <2>1. CASE Log!Next
    BY <1>2, <2>1, LogStarts, LogCrashes, LogBegins, LogChecksSize, LogWrites, LogRenames,
       LogOpens DEF Log!Next, Log!Proceed
  <2>2. CASE UNCHANGED appenderVars
    BY <1>2, <2>2 DEF appenderVars, LogInv, Log!TypeOK, LinesAreReserved, LockIsHeld,
       OldFilesAreFull, HolderKnowsFile, NothingOutgrows, Pending, HasLock, Full
  <2>3. QED  BY <1>2, <2>1, <2>2
<1>3. QED  BY <1>1, <1>2

\* The lines under each name, and their order, as in OnlyTheOldestAreLost.
Files == [n \in Log!Names |-> Log!LinesUnder(n)]

NextIn(F, m, n) ==
    /\ m < n /\ F[m] # <<>>
    /\ \A k \in Log!Names : m < k /\ k < n => F[k] = <<>>

LastIn(F, n) == F[n][Len(F[n])]

LinesFollow(F, w) ==
    \A n \in Log!Names : F[n] # <<>> =>
        /\ \A i \in 1..(Len(F[n]) - 1) : F[n][i + 1] = F[n][i] + 1
        /\ \/ LastIn(F, n) = w /\ \A m \in Log!Names : m < n => F[m] = <<>>
           \/ \E m \in Log!Names : NextIn(F, m, n) /\ F[m][1] = LastIn(F, n) + 1

\* No file has two names, and none holds a line that has yet to be written.
NamesAreDistinct ==
    \A m, n \in Log!Names : directory[m] = directory[n] /\ directory[n] # None => m = n

LinesAreOld == \A n \in Log!Names : \A i \in 1..Len(Files[n]) : Files[n][i] <= lines

\* A file is renamed to a name that has just been given up.
NothingIsOverwritten ==
    \A t \in Log!Threads : apc[t] = "rename" /\ shift[t] < MaxBackupIndex =>
        directory[shift[t] + 1] = None

KeptInv ==
    /\ LinesFollow(Files, lines)
    /\ NamesAreDistinct /\ LinesAreOld /\ NothingIsOverwritten

AppenderInv == LogInv /\ KeptInv

\* The lines stay in order when a file is renamed to the next name, if there is none under
\* that; when the oldest one is removed; and when the next line is appended to the
\* youngest.
LEMMA RenamedInOrder ==
    ASSUME MaxBackupIndex \in Nat, NEW w \in Nat, NEW F \in [Log!Names -> Seq(Nat)],
           NEW k \in Log!Names, k < MaxBackupIndex, F[k + 1] = <<>>, LinesFollow(F, w),
           NEW G \in [Log!Names -> Seq(Nat)],
           G[k] = <<>>, G[k + 1] = F[k],
           \A n \in Log!Names : n # k /\ n # k + 1 => G[n] = F[n]
    PROVE  LinesFollow(G, w)
<1>1. /\ \A n \in Log!Names : n \in Nat
      /\ k \in Nat /\ k + 1 \in Log!Names
  BY DEF Log!Names
<1>2. SUFFICES ASSUME NEW n \in Log!Names, G[n] # <<>>
               PROVE  /\ \A i \in 1..(Len(G[n]) - 1) : G[n][i + 1] = G[n][i] + 1
                      /\ \/ /\ LastIn(G, n) = w
                            /\ \A m \in Log!Names : m < n => G[m] = <<>>
                         \/ \E m \in Log!Names : NextIn(G, m, n) /\ G[m][1] = LastIn(G, n) + 1
  BY DEF LinesFollow
<1> DEFINE o == IF n = k + 1 THEN k ELSE n
<1>3. o \in Log!Names /\ o \in Nat /\ n \in Nat /\ G[n] = F[o] /\ F[o] # <<>> /\ n # k /\ o # k + 1
      /\ o <= n
  <2>1. n \in Nat /\ n # k /\ k # k + 1
    BY <1>1, <1>2
  <2>2. CASE n = k + 1
    <3>1. o = k /\ k <= k + 1
      BY <1>1, <2>2
    <3>2. QED  BY <1>1, <1>2, <2>1, <2>2, <3>1
  <2>3. CASE n # k + 1
    <3>1. o = n /\ n <= n /\ G[n] = F[n]
      BY <2>1, <2>3
    <3>2. QED  BY <1>2, <2>1, <2>3, <3>1
  <2>4. QED  BY <2>2, <2>3
<1>4. /\ \A i \in 1..(Len(F[o]) - 1) : F[o][i + 1] = F[o][i] + 1
      /\ \/ LastIn(F, o) = w /\ \A m \in Log!Names : m < o => F[m] = <<>>
         \/ \E m \in Log!Names : NextIn(F, m, o) /\ F[m][1] = LastIn(F, o) + 1
  BY <1>3 DEF LinesFollow
<1>5. LastIn(G, n) = LastIn(F, o)
  BY <1>3 DEF LastIn
<1>6. n = k + 1 \/ (o = n /\ (n < k \/ n > k + 1))
  BY <1>1, <1>3
<1> HIDE DEF o
<1>7. CASE LastIn(F, o) = w /\ \A m \in Log!Names : m < o => F[m] = <<>>
  <2>1. ASSUME NEW m \in Log!Names, m < n  PROVE G[m] = <<>>
    <3>1. CASE m = k
      BY <3>1
    <3>2. CASE m = k + 1
      <4>1. k < o
        BY <1>1, <1>3, <1>6, <2>1, <3>2
      <4>2. QED  BY <1>7, <3>2, <4>1
    <3>3. CASE m # k /\ m # k + 1
      <4>1. m < o
        BY <1>1, <1>3, <1>6, <2>1, <3>3 DEF o
      <4>2. QED  BY <1>7, <3>3, <4>1
    <3>4. QED  BY <3>1, <3>2, <3>3
  <2>2. QED  BY <1>3, <1>4, <1>5, <1>7, <2>1
<1>8. ASSUME NEW m \in Log!Names, NextIn(F, m, o), F[m][1] = LastIn(F, o) + 1
      PROVE  \E q \in Log!Names : NextIn(G, q, n) /\ G[q][1] = LastIn(G, n) + 1
  <2> DEFINE q == IF m = k THEN k + 1 ELSE m
  <2>1. m < o /\ F[m] # <<>> /\ \A l \in Log!Names : m < l /\ l < o => F[l] = <<>>
    BY <1>8 DEF NextIn
  <2>2. m \in Nat /\ m # k + 1
    BY <1>1, <2>1
  <2>3. q \in Log!Names /\ G[q] = F[m] /\ q # k
    BY <1>1, <2>2
  <2>4. q < n
    BY <1>1, <1>3, <1>6, <2>1, <2>2
  <2>5. ASSUME NEW l \in Log!Names, q < l, l < n  PROVE G[l] = <<>>
    <3>1. CASE l = k
      BY <3>1
    <3>2. CASE l = k + 1
      <4>1. m < k /\ k < o
        BY <1>1, <1>6, <2>2, <2>5, <3>2
      <4>2. QED  BY <2>1, <3>2, <4>1
    <3>3. CASE l # k /\ l # k + 1
      <4>1. m < l /\ l < o
        <5>1. m <= q /\ q \in Nat /\ l \in Nat
          BY <1>1, <2>2, <2>3
        <5>2. l < o
          BY <1>1, <1>3, <2>5, <3>3, <5>1 DEF o
        <5>3. QED  BY <2>2, <2>5, <5>1, <5>2
      <4>2. QED  BY <2>1, <3>3, <4>1
    <3>4. QED  BY <3>1, <3>2, <3>3
  <2>6. NextIn(G, q, n) /\ G[q][1] = LastIn(G, n) + 1
    BY <1>5, <1>8, <2>1, <2>3, <2>4, <2>5 DEF NextIn
  <2>7. QED  BY <2>3, <2>6
<1>9. QED  BY <1>3, <1>4, <1>7, <1>8

LEMMA RemovedInOrder ==
    ASSUME MaxBackupIndex \in Nat, NEW w, NEW F, LinesFollow(F, w), NEW G,
           G[MaxBackupIndex] = <<>>,
           \A n \in Log!Names : n # MaxBackupIndex => G[n] = F[n]
    PROVE  LinesFollow(G, w)
<1>1. \A n \in Log!Names : n \in Nat /\ n <= MaxBackupIndex
  BY DEF Log!Names
<1>2. SUFFICES ASSUME NEW n \in Log!Names, G[n] # <<>>
               PROVE  /\ \A i \in 1..(Len(G[n]) - 1) : G[n][i + 1] = G[n][i] + 1
                      /\ \/ /\ LastIn(G, n) = w
                            /\ \A m \in Log!Names : m < n => G[m] = <<>>
                         \/ \E m \in Log!Names : NextIn(G, m, n) /\ G[m][1] = LastIn(G, n) + 1
  BY DEF LinesFollow
<1>3. n # MaxBackupIndex /\ G[n] = F[n]
  BY <1>2
<1>4. \A m \in Log!Names : m < n => m # MaxBackupIndex /\ G[m] = F[m]
  BY <1>1
<1>5. /\ \A i \in 1..(Len(F[n]) - 1) : F[n][i + 1] = F[n][i] + 1
      /\ \/ LastIn(F, n) = w /\ \A m \in Log!Names : m < n => F[m] = <<>>
         \/ \E m \in Log!Names : NextIn(F, m, n) /\ F[m][1] = LastIn(F, n) + 1
  BY <1>2, <1>3 DEF LinesFollow
<1>6. LastIn(G, n) = LastIn(F, n)
  BY <1>3 DEF LastIn
<1>7. \A m \in Log!Names : NextIn(F, m, n) => NextIn(G, m, n) /\ G[m] = F[m]
  BY <1>4 DEF NextIn
<1>8. QED  BY <1>3, <1>4, <1>5, <1>6, <1>7

LEMMA AppendedInOrder ==
    ASSUME MaxBackupIndex \in Nat, NEW w \in Nat, NEW F \in [Log!Names -> Seq(Nat)],
           LinesFollow(F, w), \A n \in Log!Names : \A i \in 1..Len(F[n]) : F[n][i] <= w,
           NEW G, G[0] = Append(F[0], w + 1),
           \A n \in Log!Names : n # 0 => G[n] = F[n]
    PROVE  LinesFollow(G, w + 1)
<1> DEFINE a == Append(F[0], w + 1)
<1>1. 0 \in Log!Names /\ \A n \in Log!Names : n \in Nat
  BY DEF Log!Names
<1>2. /\ F[0] \in Seq(Nat) /\ Len(F[0]) \in Nat /\ w + 1 \in Nat
      /\ \A i \in 1..Len(F[0]) : F[0][i] \in Nat
  BY <1>1, LenProperties, ElementOfSeq
<1>3. /\ a # <<>> /\ Len(a) = Len(F[0]) + 1
      /\ \A i \in 1..Len(F[0]) : a[i] = F[0][i]
      /\ a[Len(F[0]) + 1] = w + 1
  <2>1. ASSUME NEW x \in Nat
        PROVE  /\ Append(F[0], x) # <<>> /\ Len(Append(F[0], x)) = Len(F[0]) + 1
               /\ \A i \in 1..Len(F[0]) : Append(F[0], x)[i] = F[0][i]
               /\ Append(F[0], x)[Len(F[0]) + 1] = x
    BY <1>2, AppendProperties
  <2>2. QED  BY <1>2, <2>1
<1> HIDE DEF a
<1>4. G[0] = a
  BY DEF a
<1>5. SUFFICES ASSUME NEW n \in Log!Names, G[n] # <<>>
               PROVE  /\ \A i \in 1..(Len(G[n]) - 1) : G[n][i + 1] = G[n][i] + 1
                      /\ \/ /\ LastIn(G, n) = w + 1
                            /\ \A m \in Log!Names : m < n => G[m] = <<>>
                         \/ \E m \in Log!Names : NextIn(G, m, n) /\ G[m][1] = LastIn(G, n) + 1
  BY DEF LinesFollow
<1>6. \A m \in Log!Names : F[m] # <<>> =>
         /\ \A i \in 1..(Len(F[m]) - 1) : F[m][i + 1] = F[m][i] + 1
         /\ \/ LastIn(F, m) = w /\ \A l \in Log!Names : l < m => F[l] = <<>>
            \/ \E l \in Log!Names : NextIn(F, l, m) /\ F[l][1] = LastIn(F, m) + 1
  BY DEF LinesFollow
<1>7. ~ \E m \in Log!Names : m < 0
  BY <1>1
<1>8. CASE n = 0
  <2>1. LastIn(G, 0) = w + 1
    BY <1>3, <1>4 DEF LastIn
  <2>2. CASE F[0] = <<>>
    <3>1. Len(F[0]) = 0
      BY <2>2, EmptySeq
    <3>2. 1..(Len(a) - 1) = {}
      BY <1>3, <3>1
    <3>3. QED  BY <1>4, <1>7, <1>8, <2>1, <3>2
  <2>3. CASE F[0] # <<>>
    <3>1. Len(F[0]) > 0
      BY <1>2, <2>3, EmptySeq
    <3>2. LastIn(F, 0) = w
      BY <1>1, <1>6, <1>7, <2>3 DEF NextIn
    <3>3. ASSUME NEW i \in 1..(Len(a) - 1)  PROVE a[i + 1] = a[i] + 1
      <4>1. i \in 1..Len(F[0]) /\ i \in Nat
        BY <1>2, <1>3
      <4>2. CASE i = Len(F[0])
        BY <1>3, <3>2, <4>1, <4>2 DEF LastIn
      <4>3. CASE i # Len(F[0])
        <5>1. i \in 1..(Len(F[0]) - 1) /\ i + 1 \in 1..Len(F[0])
          BY <1>2, <4>1, <4>3
        <5>2. F[0][i + 1] = F[0][i] + 1
          BY <1>1, <1>6, <2>3, <5>1
        <5>3. QED  BY <1>3, <4>1, <5>1, <5>2
      <4>4. QED  BY <4>2, <4>3
    <3>4. QED  BY <1>4, <1>7, <1>8, <2>1, <3>3
  <2>4. QED  BY <2>2, <2>3
<1>9. CASE n # 0
  <2>1. /\ G[n] = F[n] /\ F[n] # <<>> /\ LastIn(G, n) = LastIn(F, n) /\ 0 < n
    BY <1>1, <1>5, <1>9 DEF LastIn
  <2>2. CASE LastIn(F, n) = w /\ \A m \in Log!Names : m < n => F[m] = <<>>
    <3>1. F[0] = <<>>
      BY <1>1, <2>1, <2>2
    <3>2. a[1] = w + 1
      BY <1>3, <3>1, EmptySeq
    <3>3. \A l \in Log!Names : 0 < l /\ l < n => G[l] = <<>>
      BY <1>1, <2>2
    <3>4. NextIn(G, 0, n)
      BY <1>3, <1>4, <2>1, <3>3 DEF NextIn
    <3>5. G[0][1] = LastIn(G, n) + 1
      BY <1>4, <2>1, <2>2, <3>2
    <3>6. \A i \in 1..(Len(G[n]) - 1) : G[n][i + 1] = G[n][i] + 1
      BY <1>6, <2>1
    <3>7. QED  BY <1>1, <3>4, <3>5, <3>6
  <2>3. ASSUME NEW m \in Log!Names, NextIn(F, m, n), F[m][1] = LastIn(F, n) + 1
        PROVE  NextIn(G, m, n) /\ G[m][1] = LastIn(G, n) + 1
    <3>1. /\ m < n /\ F[m] # <<>>
          /\ \A l \in Log!Names : m < l /\ l < n => F[l] = <<>>
      BY <2>3 DEF NextIn
    <3>2. \A l \in Log!Names : m < l /\ l < n => G[l] = <<>>
      <4>1. \A l \in Log!Names : m < l => l # 0
        BY <1>1
      <4>2. QED  BY <3>1, <4>1
    <3>3. G[m] # <<>> /\ G[m][1] = F[m][1]
      <4>1. CASE m = 0
        <5>1. 1 \in 1..Len(F[0])
          BY <1>2, <3>1, <4>1, EmptySeq
        <5>2. QED  BY <1>3, <1>4, <4>1, <5>1
      <4>2. CASE m # 0
        BY <3>1, <4>2
      <4>3. QED  BY <4>1, <4>2
    <3>4. QED  BY <2>1, <2>3, <3>1, <3>2, <3>3 DEF NextIn
  <2>4. QED  BY <1>6, <2>1, <2>2, <2>3
<1>10. QED  BY <1>8, <1>9

LEMMA FilesState ==
    ASSUME LogAssumption, LogInv
    PROVE  /\ Files \in [Log!Names -> Seq(Nat)]
           /\ \A n \in Log!Names : Files[n] = IF directory[n] = None THEN <<>>
                                              ELSE contents[directory[n]]
           /\ Log!OnlyTheOldestAreLost <=> LinesFollow(Files, lines)
<1>1. \A n \in Log!Names : Files[n] = Log!LinesUnder(n)
  BY DEF Files
<1>2. \A n \in Log!Names : Log!LinesUnder(n) \in Seq(Nat)
  <2>1. SUFFICES ASSUME NEW n \in Log!Names  PROVE Log!LinesUnder(n) \in Seq(Nat)
    OBVIOUS
  <2>2. CASE directory[n] = None
    BY <2>2, EmptySeq DEF Log!LinesUnder
  <2>3. CASE directory[n] # None
    <3>1. contents[directory[n]] \in Seq(1..MaxLines)
      BY <2>3, LogState DEF LogInv, Log!TypeOK
    <3>2. 1..MaxLines \subseteq Nat
      BY DEF LogAssumption
    <3>3. QED  BY <2>3, <3>1, <3>2, SeqMonotonic DEF Log!LinesUnder
  <2>4. QED  BY <2>2, <2>3
<1>3. Log!OnlyTheOldestAreLost <=> LinesFollow(Files, lines)
  <2>1. \A m, n \in Log!Names : Log!IsNext(m, n) <=> NextIn(Files, m, n)
    BY <1>1 DEF Log!IsNext, NextIn
  <2>2. \A n \in Log!Names :
           LastIn(Files, n) = Log!LinesUnder(n)[Len(Log!LinesUnder(n))]
    BY <1>1 DEF LastIn
  <2>3. QED  BY <1>1, <2>1, <2>2 DEF Log!OnlyTheOldestAreLost, LinesFollow
<1>4. QED  BY <1>1, <1>2, <1>3 DEF Files, Log!LinesUnder

\* Opening the log, or anything else that neither writes nor renames, leaves the lines
\* under each name as they are.
LEMMA KeptWhenOpened ==
    ASSUME LogAssumption, LogInv, KeptInv, lines' = lines,
           \/ UNCHANGED <<contents, directory>>
           \/ \E p \in Processes : Log!OpenLog(p),
           \A t \in Log!Threads : apc'[t] = "rename" => apc[t] = "rename" /\ shift'[t] = shift[t]
    PROVE  KeptInv'
<1>1. /\ LinesFollow(Files, lines) /\ NamesAreDistinct /\ LinesAreOld /\ NothingIsOverwritten
      /\ Log!TypeOK
  BY DEF KeptInv, LogInv
<1>2. \A n \in Log!Names : Files[n] = IF directory[n] = None THEN <<>>
                                      ELSE contents[directory[n]]
  BY FilesState
<1>3. Files' = [n \in Log!Names |-> IF directory'[n] = None THEN <<>>
                                    ELSE contents'[directory'[n]]]
  BY DEF Files, Log!LinesUnder
<1>4. Files' = Files /\ NamesAreDistinct'
      /\ \A n \in Log!Names : n # 0 => directory'[n] = directory[n]
  <2>1. CASE UNCHANGED <<contents, directory>>
    BY <1>1, <2>1 DEF Files, Log!LinesUnder, NamesAreDistinct
  <2>2. ASSUME NEW p \in Processes, Log!OpenLog(p)
        PROVE  Files' = Files /\ NamesAreDistinct'
               /\ \A n \in Log!Names : n # 0 => directory'[n] = directory[n]
    <3>1. CASE UNCHANGED <<contents, directory>>
      BY <2>1, <3>1
    <3>2. ASSUME directory[0] = None, NEW fresh \in Log!Inodes,
                 \A n \in Log!Names : directory[n] # fresh,
                 directory' = [directory EXCEPT ![0] = fresh],
                 contents' = [contents EXCEPT ![fresh] = <<>>]
          PROVE  Files' = Files /\ NamesAreDistinct'
                 /\ \A n \in Log!Names : n # 0 => directory'[n] = directory[n]
      <4>1. /\ 0 \in Log!Names /\ directory'[0] = fresh /\ contents'[fresh] = <<>>
            /\ \A n \in Log!Names : n # 0 => directory'[n] = directory[n]
        BY <1>1, <3>2, LogState DEF Log!TypeOK
      <4>2. \A n \in Log!Names : n # 0 /\ directory[n] # None =>
               contents'[directory[n]] = contents[directory[n]]
        BY <1>1, <3>2, LogState DEF Log!TypeOK
      <4>3. fresh # None
        BY DEF LogAssumption
      <4>4. \A n \in Log!Names : Files'[n] = Files[n]
        BY <1>2, <1>3, <3>2, <4>1, <4>2, <4>3
      <4>5. Files' = Files
        BY <4>4 DEF Files
      <4>6. NamesAreDistinct'
        BY <1>1, <3>2, <4>1 DEF NamesAreDistinct
      <4>7. QED  BY <4>1, <4>5, <4>6
    <3>3. QED  BY <1>1, <2>2, <3>1, <3>2, OpenLogMeans
  <2>3. QED  BY <2>1, <2>2
<1>5. LinesFollow(Files, lines)' /\ LinesAreOld'
  BY <1>1, <1>4 DEF LinesFollow, LinesAreOld, NextIn, LastIn
<1>6. NothingIsOverwritten'
  <2>1. SUFFICES ASSUME NEW t \in Log!Threads, apc'[t] = "rename", shift'[t] < MaxBackupIndex
                 PROVE  directory'[shift'[t] + 1] = None
    BY DEF NothingIsOverwritten
  <2>2. shift'[t] = shift[t] /\ directory[shift[t] + 1] = None /\ shift[t] \in Log!Names
    BY <1>1, <2>1 DEF NothingIsOverwritten, Log!TypeOK
  <2>3. shift[t] + 1 \in Log!Names /\ shift[t] + 1 # 0
    BY <2>1, <2>2 DEF Log!Names, LogAssumption
  <2>4. QED  BY <1>4, <2>2, <2>3
<1>7. QED  BY <1>4, <1>5, <1>6 DEF KeptInv

LEMMA KeptWhenWritten ==
    ASSUME LogAssumption, LogInv, KeptInv, NEW t \in Log!Threads, Log!Write(t)
    PROVE  KeptInv'
<1> DEFINE p     == Log!process(t)
           file0 == directory[0]
<1>1. /\ LinesFollow(Files, lines) /\ NamesAreDistinct /\ LinesAreOld /\ NothingIsOverwritten
      /\ Log!TypeOK /\ LockIsHeld /\ HolderKnowsFile
  BY DEF KeptInv, LogInv
<1>2. apc[t] = "write" /\ t \in HasLock /\ p \in Processes /\ directory' = directory
  BY LogThreads DEF HasLock, Log!Write
<1>3. m_log[p] # None /\ m_log[p] = file0 /\ file0 \in Log!Inodes /\ file0 # None
  BY <1>1, <1>2, LogState DEF LockIsHeld, Pending, HolderKnowsFile
<1>4. /\ lines' = lines + 1
      /\ contents' = [contents EXCEPT ![file0] = Append(@, lines + 1)]
  BY <1>3 DEF Log!Write
<1>5. /\ 0 \in Log!Names /\ lines \in Nat /\ MaxBackupIndex \in Nat
      /\ Files \in [Log!Names -> Seq(Nat)]
      /\ \A n \in Log!Names : Files[n] = IF directory[n] = None THEN <<>>
                                         ELSE contents[directory[n]]
  BY LogState, FilesState
<1>6. /\ Files'[0] = Append(Files[0], lines + 1)
      /\ \A n \in Log!Names : n # 0 => Files'[n] = Files[n]
  <2>1. \A n \in Log!Names : Files'[n] = IF directory[n] = None THEN <<>>
                                         ELSE contents'[directory[n]]
    BY <1>2 DEF Files, Log!LinesUnder
  <2>2. contents'[file0] = Append(contents[file0], lines + 1)
    BY <1>1, <1>3, <1>4 DEF Log!TypeOK
  <2>3. ASSUME NEW n \in Log!Names, n # 0  PROVE Files'[n] = Files[n]
    <3>1. directory[n] # None => directory[n] # file0 /\ directory[n] \in Log!Inodes
      BY <1>1, <1>5, <2>3, LogState DEF NamesAreDistinct
    <3>2. directory[n] # None => contents'[directory[n]] = contents[directory[n]]
      BY <1>1, <1>4, <3>1 DEF Log!TypeOK
    <3>3. QED  BY <1>5, <2>1, <3>2
  <2>4. QED  BY <1>3, <1>5, <2>1, <2>2, <2>3
<1>7. \A n \in Log!Names : \A i \in 1..Len(Files[n]) : Files[n][i] <= lines
  BY <1>1 DEF LinesAreOld
<1>8. LinesFollow(Files', lines + 1)
  BY <1>1, <1>5, <1>6, <1>7, AppendedInOrder
<1>9. LinesFollow(Files, lines)'
  BY <1>4, <1>8
<1>10. LinesAreOld'
  <2>1. SUFFICES ASSUME NEW n \in Log!Names, NEW i \in 1..Len(Files'[n])
                 PROVE  Files'[n][i] <= lines + 1
    BY <1>4 DEF LinesAreOld
  <2>2. /\ Files[n] \in Seq(Nat) /\ Len(Files[n]) \in Nat
        /\ \A j \in 1..Len(Files[n]) : Files[n][j] \in Nat /\ Files[n][j] <= lines
    BY <1>5, <1>7, LenProperties, ElementOfSeq
  <2>3. CASE n # 0
    <3>1. Files'[n] = Files[n]
      BY <1>6, <2>3
    <3>2. /\ i \in 1..Len(Files[n]) /\ Files[n][i] \in Nat /\ Files[n][i] <= lines
          /\ lines \in Nat
      BY <1>5, <2>2, <3>1
    <3>3. QED  BY <3>1, <3>2
  <2>4. CASE n = 0
    <3>1. ASSUME NEW x \in Nat
          PROVE  /\ Len(Append(Files[0], x)) = Len(Files[0]) + 1
                 /\ \A j \in 1..Len(Files[0]) : Append(Files[0], x)[j] = Files[0][j]
                 /\ Append(Files[0], x)[Len(Files[0]) + 1] = x
      BY <2>2, <2>4, AppendProperties
    <3>2. lines + 1 \in Nat
      BY <1>5
    <3>3. /\ Len(Files'[0]) = Len(Files[0]) + 1
          /\ \A j \in 1..Len(Files[0]) : Files'[0][j] = Files[0][j]
          /\ Files'[0][Len(Files[0]) + 1] = lines + 1
      BY <1>6, <3>1, <3>2
    <3>4. i \in 1..Len(Files[0]) \/ i = Len(Files[0]) + 1
      BY <2>1, <2>2, <2>4, <3>3
    <3>5. CASE i \in 1..Len(Files[0])
      <4>1. Files'[0][i] \in Nat /\ Files'[0][i] <= lines
        BY <2>2, <2>4, <3>3, <3>5
      <4>2. QED  BY <1>5, <2>4, <4>1
    <3>6. CASE i = Len(Files[0]) + 1
      BY <1>5, <2>4, <3>3, <3>6
    <3>7. QED  BY <3>4, <3>5, <3>6
  <2>5. QED  BY <2>3, <2>4
<1>11. NothingIsOverwritten'
  <2>1. SUFFICES ASSUME NEW u \in Log!Threads, apc'[u] = "rename", shift'[u] < MaxBackupIndex
                 PROVE  FALSE
    BY DEF NothingIsOverwritten
  <2>2. u # t => apc'[u] = apc[u]
    BY <1>1, <1>2 DEF Log!Write, Log!Return, Log!Goto, Log!TypeOK
  <2>3. u = t
    <3>1. u # t => u \in HasLock
      BY <2>1, <2>2 DEF HasLock
    <3>2. QED  BY <1>1, <1>2, <3>1, OneHasLock
  <2>4. apc'[t] = "rename"
    BY <2>1, <2>3
  <2>5. shift' = [shift EXCEPT ![t] = MaxBackupIndex]
    <3>1. Log!Return(t) => apc'[t] = "idle"
      BY <1>1 DEF Log!Return, Log!TypeOK
    <3>2. QED  BY <2>4, <3>1 DEF Log!Write
  <2>6. shift'[t] = MaxBackupIndex
    BY <1>1, <2>5 DEF Log!TypeOK
  <2>7. QED  BY <1>5, <2>1, <2>3, <2>6
<1>12. NamesAreDistinct'
  BY <1>1, <1>2 DEF NamesAreDistinct
<1>13. QED  BY <1>9, <1>10, <1>11, <1>12 DEF KeptInv

LEMMA KeptWhenRenamed ==
    ASSUME LogAssumption, LogInv, KeptInv, NEW t \in Log!Threads, Log!Rename(t)
    PROVE  KeptInv'
<1> DEFINE k == shift[t]
<1>1. /\ LinesFollow(Files, lines) /\ NamesAreDistinct /\ LinesAreOld /\ NothingIsOverwritten
      /\ Log!TypeOK /\ LockIsHeld
  BY DEF KeptInv, LogInv
<1>2. apc[t] = "rename" /\ t \in HasLock /\ UNCHANGED <<contents, lines>>
  BY DEF HasLock, Log!Rename
<1>3. /\ k \in Log!Names /\ k \in Nat /\ k <= MaxBackupIndex /\ MaxBackupIndex \in Nat
      /\ lines \in Nat
  BY <1>1, LogState DEF Log!TypeOK
<1>4. \A n \in Log!Names :
         directory'[n] = IF n = k THEN None
                         ELSE IF n = k + 1 /\ directory[k] # None THEN directory[k]
                         ELSE directory[n]
  BY DEF Log!Rename
<1>5. k < MaxBackupIndex => k + 1 \in Log!Names /\ directory[k + 1] = None
  BY <1>1, <1>2, <1>3 DEF NothingIsOverwritten, Log!Names
<1>6. k = MaxBackupIndex => k + 1 \notin Log!Names
  BY <1>3 DEF Log!Names
<1>7. /\ Files \in [Log!Names -> Seq(Nat)]
      /\ \A n \in Log!Names : Files[n] = IF directory[n] = None THEN <<>>
                                         ELSE contents[directory[n]]
      /\ \A n \in Log!Names : Files'[n] = IF directory'[n] = None THEN <<>>
                                          ELSE contents[directory'[n]]
  BY <1>2, FilesState DEF Files, Log!LinesUnder
<1>8. /\ Files'[k] = <<>>
      /\ k < MaxBackupIndex => Files'[k + 1] = Files[k] /\ Files[k + 1] = <<>>
      /\ \A n \in Log!Names : n # k /\ n # k + 1 => Files'[n] = Files[n]
  <2>1. Files'[k] = <<>>
    BY <1>3, <1>4, <1>7
  <2>2. k < MaxBackupIndex => Files'[k + 1] = Files[k] /\ Files[k + 1] = <<>>
    <3>1. SUFFICES ASSUME k < MaxBackupIndex
                   PROVE  Files'[k + 1] = Files[k] /\ Files[k + 1] = <<>>
      OBVIOUS
    <3>2. k + 1 \in Log!Names /\ directory[k + 1] = None /\ k + 1 # k
      BY <1>3, <1>5, <3>1
    <3>3. directory'[k + 1] = directory[k]
      <4>1. directory'[k + 1] = IF directory[k] # None THEN directory[k] ELSE directory[k + 1]
        BY <1>4, <3>2
      <4>2. QED  BY <3>2, <4>1
    <3>4. QED  BY <1>3, <1>7, <3>2, <3>3
  <2>3. \A n \in Log!Names : n # k /\ n # k + 1 => Files'[n] = Files[n]
    BY <1>4, <1>7
  <2>4. QED  BY <2>1, <2>2, <2>3
<1>9. Files' \in [Log!Names -> Seq(Nat)]
  <2>1. \A n \in Log!Names : Files'[n] \in Seq(Nat)
    <3>1. SUFFICES ASSUME NEW n \in Log!Names  PROVE Files'[n] \in Seq(Nat)
      OBVIOUS
    <3>2. CASE n = k
      BY <1>8, <3>2, EmptySeq
    <3>3. CASE n = k + 1
      <4>1. k < MaxBackupIndex
        BY <1>3, <1>6, <3>3
      <4>2. QED  BY <1>3, <1>7, <1>8, <3>3, <4>1
    <3>4. CASE n # k /\ n # k + 1
      BY <1>7, <1>8, <3>4
    <3>5. QED  BY <3>2, <3>3, <3>4
  <2>2. QED  BY <2>1 DEF Files
<1> HIDE DEF k
<1>10. LinesFollow(Files', lines)
  <2>1. CASE k < MaxBackupIndex
    BY <1>1, <1>3, <1>7, <1>8, <1>9, <2>1, RenamedInOrder
  <2>2. CASE k = MaxBackupIndex
    <3>1. \A n \in Log!Names : n # MaxBackupIndex => Files'[n] = Files[n]
      BY <1>6, <1>8, <2>2
    <3>2. QED  BY <1>1, <1>3, <1>8, <2>2, <3>1, RemovedInOrder
  <2>3. QED  BY <1>3, <2>1, <2>2
<1>11. LinesFollow(Files, lines)'
  BY <1>2, <1>10
<1>12. LinesAreOld'
  <2>1. SUFFICES ASSUME NEW n \in Log!Names, NEW i \in 1..Len(Files'[n])
                 PROVE  Files'[n][i] <= lines
    BY <1>2 DEF LinesAreOld
  <2>2. Files'[n] # <<>>
    BY <2>1, EmptySeq
  <2>3. \E m \in Log!Names : Files'[n] = Files[m]
    BY <1>3, <1>6, <1>8, <2>2
  <2>4. QED  BY <1>1, <2>1, <2>3 DEF LinesAreOld
<1>13. NamesAreDistinct'
  <2>1. SUFFICES ASSUME NEW m \in Log!Names, NEW n \in Log!Names,
                        directory'[m] = directory'[n], directory'[n] # None
                 PROVE  m = n
    BY DEF NamesAreDistinct
  <2>2. m # k /\ n # k
    BY <1>4, <2>1
  <2>3. CASE m = k + 1 \/ n = k + 1
    <3>1. directory[k + 1] = None
      BY <1>3, <1>5, <1>6, <2>3
    <3>2. QED  BY <1>1, <1>3, <1>4, <2>1, <2>2, <2>3, <3>1 DEF NamesAreDistinct
  <2>4. CASE m # k + 1 /\ n # k + 1
    BY <1>1, <1>4, <2>1, <2>2, <2>4 DEF NamesAreDistinct
  <2>5. QED  BY <2>3, <2>4
<1>14. NothingIsOverwritten'
  <2>1. SUFFICES ASSUME NEW u \in Log!Threads, apc'[u] = "rename", shift'[u] < MaxBackupIndex
                 PROVE  directory'[shift'[u] + 1] = None
    BY DEF NothingIsOverwritten
  <2>2. u # t => apc'[u] = apc[u]
    BY <1>1 DEF Log!Rename, Log!Return, Log!Goto, Log!TypeOK
  <2>3. u = t
    <3>1. u # t => u \in HasLock
      BY <2>1, <2>2 DEF HasLock
    <3>2. QED  BY <1>1, <1>2, <3>1, OneHasLock
  <2>4. k > 0 /\ shift' = [shift EXCEPT ![t] = k - 1]
    <3>1. ~(k > 0) => apc'[t] # "rename"
      BY <1>1 DEF Log!Rename, Log!Return, Log!Goto, Log!TypeOK, k
    <3>2. k > 0
      BY <2>1, <2>3, <3>1
    <3>3. QED  BY <3>2 DEF Log!Rename, k
  <2>5. shift'[u] = k - 1
    BY <1>1, <2>3, <2>4 DEF Log!TypeOK
  <2>6. shift'[u] + 1 = k
    BY <1>3, <2>5
  <2>7. QED  BY <1>3, <1>4, <2>6
<1>15. QED  BY <1>11, <1>12, <1>13, <1>14 DEF KeptInv

\* The invariant holds at the start and is kept.
LEMMA AppenderInvHolds ==
    ASSUME LogAssumption
    PROVE  /\ Log!Init => AppenderInv
           /\ AppenderInv /\ [Log!Next]_appenderVars => AppenderInv'
<1>1. ASSUME Log!Init  PROVE AppenderInv
  <2>1. LogInv
    BY <1>1, LogInvHolds
  <2>2. /\ \A n \in Log!Names : directory[n] = None
        /\ \A t \in Log!Threads : apc[t] = "idle"
    BY <1>1 DEF Log!Init
  <2>3. \A n \in Log!Names : Files[n] = <<>>
    BY <2>2 DEF Files, Log!LinesUnder
  <2>4. LinesFollow(Files, lines) /\ LinesAreOld
    BY <2>3, EmptySeq DEF LinesFollow, LinesAreOld
  <2>5. NamesAreDistinct /\ NothingIsOverwritten
    BY <2>2 DEF NamesAreDistinct, NothingIsOverwritten
  <2>6. QED  BY <2>1, <2>4, <2>5 DEF AppenderInv, KeptInv
<1>2. ASSUME AppenderInv, [Log!Next]_appenderVars  PROVE AppenderInv'
  <2>1. LogInv /\ KeptInv /\ LogInv'
    BY <1>2, LogInvHolds DEF AppenderInv
  <2>2. Log!TypeOK
    BY <2>1 DEF LogInv
  <2>3. SUFFICES KeptInv'
    BY <2>1 DEF AppenderInv
  <2>4. CASE \E p \in Processes : Log!Start(p)
    BY <2>1, <2>4, KeptWhenOpened DEF Log!Start
  <2>5. CASE \E p \in Processes : Log!Crash(p)
    <3>1. PICK p \in Processes : Log!Crash(p)
      BY <2>5
    <3>2. \A t \in Log!Threads :
             apc'[t] = "rename" => apc[t] = "rename" /\ shift'[t] = shift[t]
      BY <3>1 DEF Log!Crash
    <3>3. QED  BY <2>1, <3>1, <3>2, KeptWhenOpened DEF Log!Crash
  <2>6. ASSUME NEW t \in Log!Threads,
               Log!Log(t) \/ Log!GetLock(t) \/ Log!CheckSize(t) \/ Log!Open(t)
        PROVE  KeptInv'
    <3>1. /\ lines' = lines
          /\ \/ UNCHANGED <<contents, directory>>
             \/ \E p \in Processes : Log!OpenLog(p)
      BY <2>6, LogThreads DEF Log!Log, Log!GetLock, Log!CheckSize, Log!Open, Log!OpenFails
    <3>2. \A u \in Log!Threads :
             apc'[u] = "rename" => apc[u] = "rename" /\ shift'[u] = shift[u]
      BY <2>2, <2>6 DEF Log!Log, Log!GetLock, Log!CheckSize, Log!Open, Log!Return, Log!Goto,
         Log!TypeOK
    <3>3. QED  BY <2>1, <3>1, <3>2, KeptWhenOpened
  <2>7. CASE \E t \in Log!Threads : Log!Write(t) \/ Log!Rename(t)
    BY <2>1, <2>7, KeptWhenWritten, KeptWhenRenamed
  <2>8. CASE UNCHANGED appenderVars
    BY <2>1, <2>8, KeptWhenOpened DEF appenderVars
  <2>9. QED
    BY <1>2, <2>4, <2>5, <2>6, <2>7, <2>8 DEF Log!Next, Log!Proceed
<1>3. QED  BY <1>1, <1>2

\* What the invariant says of the files that there are.
LEMMA AppenderInvMeans ==
    ASSUME LogAssumption, AppenderInv
    PROVE  Log!TypeOK /\ LogIsKept
<1>1. Log!TypeOK /\ Log!FilesAreRotatedInTime
  BY DEF AppenderInv, LogInv, Log!FilesAreRotatedInTime, OldFilesAreFull, NothingOutgrows, Full
<1>2. Log!OnlyTheOldestAreLost
  BY FilesState DEF AppenderInv, KeptInv
<1>3. QED  BY <1>1, <1>2 DEF LogIsKept

\* MultiProcessFileAppender: for any number of processes, backups and crashes, the files
\* hold the last lines that were written in their order, a backup is full, and no file
\* outgrows its limit by more than a line for each crash.
THEOREM LogStaysWhole ==
    ASSUME LogAssumption
    PROVE  Log!Spec => []LogIsKept
<1>1. AppenderInv /\ [Log!Next]_(Log!appenderVars) => AppenderInv'
  BY AppenderInvHolds DEF appenderVars, Log!appenderVars
<1>2. QED  BY <1>1, AppenderInvHolds, AppenderInvMeans, PTL DEF Log!Spec

(***************************************************************************)
(* UTF8Utils: a text is made of elements, one behind the other, and every  *)
(* loop is between two of them.                                            *)
(***************************************************************************)
\* The code points of a text are those of Unicode, without the terminator.
Character(c) == c \in Nat /\ c <= 1114111

TextAssumption == \A c \in CodePoints : Character(c) /\ c # 0

\* UTF8CharLen()
CharLen(c) == IF c < 128 THEN 1 ELSE IF c < 2048 THEN 2 ELSE IF c < 65536 THEN 3 ELSE 4

\* UCS4toUTF8() makes one to four bytes; the first one tells how many.
LEMMA OneByte ==
    ASSUME NEW c \in Nat, c < 128
    PROVE  Text!UCS4toUTF8(c) = <<c>> /\ Text!SequenceLength(c) = 1
BY SMT DEF Text!UCS4toUTF8, Text!SequenceLength

LEMMA TwoBytes ==
    ASSUME NEW c \in Nat, 128 <= c, c < 2048
    PROVE  /\ Text!UCS4toUTF8(c) = <<192 + (c \div 64), 128 + (c % 64)>>
           /\ 194 <= 192 + (c \div 64) /\ 192 + (c \div 64) < 224
           /\ Text!SequenceLength(192 + (c \div 64)) = 2
<1>1. Text!UCS4toUTF8(c) = <<192 + (c \div 64), 128 + (c % 64)>>
  BY SMT DEF Text!UCS4toUTF8, Text!Continuation
<1>2. 194 <= 192 + (c \div 64) /\ 192 + (c \div 64) < 224
  BY SMT
<1>3. QED  BY <1>1, <1>2, SMT DEF Text!SequenceLength

LEMMA ThreeBytes ==
    ASSUME NEW c \in Nat, 2048 <= c, c < 65536
    PROVE  /\ Text!UCS4toUTF8(c) = <<224 + (c \div 4096), 128 + ((c \div 64) % 64),
                                     128 + (c % 64)>>
           /\ 224 <= 224 + (c \div 4096) /\ 224 + (c \div 4096) < 240
           /\ Text!SequenceLength(224 + (c \div 4096)) = 3
<1>1. Text!UCS4toUTF8(c) = <<224 + (c \div 4096), 128 + ((c \div 64) % 64),
                             128 + (c % 64)>>
  BY SMT DEF Text!UCS4toUTF8, Text!Continuation
<1>2. 224 <= 224 + (c \div 4096) /\ 224 + (c \div 4096) < 240
  BY SMT
<1>3. QED  BY <1>1, <1>2, SMT DEF Text!SequenceLength

LEMMA FourBytes ==
    ASSUME NEW c \in Nat, 65536 <= c, c <= 1114111
    PROVE  /\ Text!UCS4toUTF8(c) = <<240 + (c \div 262144), 128 + ((c \div 4096) % 64),
                                     128 + ((c \div 64) % 64), 128 + (c % 64)>>
           /\ 240 <= 240 + (c \div 262144) /\ 240 + (c \div 262144) <= 244
           /\ Text!SequenceLength(240 + (c \div 262144)) = 4
<1>1. Text!UCS4toUTF8(c) = <<240 + (c \div 262144), 128 + ((c \div 4096) % 64),
                             128 + ((c \div 64) % 64), 128 + (c % 64)>>
  BY SMT DEF Text!UCS4toUTF8, Text!Continuation
<1>2. 240 <= 240 + (c \div 262144) /\ 240 + (c \div 262144) <= 244
  BY SMT
<1>3. QED  BY <1>1, <1>2, SMT DEF Text!SequenceLength

\* What was divided into groups of six bits is put together again.
LEMMA SixBitsJoin ==
    ASSUME NEW c \in Nat
    PROVE  /\ c < 2048 => ((192 + (c \div 64)) % 32) * 64 + ((128 + (c % 64)) % 64) = c
           /\ c < 65536 =>
                ((224 + (c \div 4096)) % 16) * 4096 + ((128 + ((c \div 64) % 64)) % 64) * 64
                   + ((128 + (c % 64)) % 64) = c
           /\ c < 1048576 =>
                ((240 + (c \div 262144)) % 4) * 262144
                   + ((128 + ((c \div 4096) % 64)) % 64) * 4096
                   + ((128 + ((c \div 64) % 64)) % 64) * 64 + ((128 + (c % 64)) % 64) = c
<1>1. c < 2048 => ((192 + (c \div 64)) % 32) * 64 + ((128 + (c % 64)) % 64) = c
  BY SMT
<1>2. c < 65536 =>
         ((224 + (c \div 4096)) % 16) * 4096 + ((128 + ((c \div 64) % 64)) % 64) * 64
            + ((128 + (c % 64)) % 64) = c
  BY SMT
<1>3. c < 1048576 =>
         ((240 + (c \div 262144)) % 4) * 262144
            + ((128 + ((c \div 4096) % 64)) % 64) * 4096
            + ((128 + ((c \div 64) % 64)) % 64) * 64 + ((128 + (c % 64)) % 64) = c
  BY SMT
<1>4. QED  BY <1>1, <1>2, <1>3, SMT

\* What a text may have as an element, and the bytes that it takes.
Element(c) == c = Text!Bad \/ (Character(c) /\ c # 0)

LEMMA Bytes ==
    ASSUME NEW b \in Int
    PROVE  b \in Text!Byte <=> 0 <= b /\ b <= 255
BY SMT DEF Text!Byte

\* An element takes one to four bytes, none of which ends a string, and only the first
\* byte of a character looks like one.
LEMMA BytesOfElement ==
    ASSUME NEW c, Element(c)
    PROVE  /\ Text!BytesOf(c) \in Seq(Text!Byte)
           /\ Len(Text!BytesOf(c)) \in Nat
           /\ 1 <= Len(Text!BytesOf(c)) /\ Len(Text!BytesOf(c)) <= 4
           /\ \A k \in 1..Len(Text!BytesOf(c)) :
                 /\ Text!BytesOf(c)[k] \in Nat /\ Text!BytesOf(c)[k] # 0
                 /\ (Text!BytesOf(c)[k] < 128 \/ Text!BytesOf(c)[k] > 191)
                       <=> (k = 1 /\ c # Text!Bad)
<1> DEFINE b == Text!BytesOf(c)
           Good(n, d) == /\ d \in Int /\ 0 < d /\ d <= 255
                         /\ (d < 128 \/ d > 191) <=> (n = 1 /\ c # Text!Bad)
<1>0. c = Text!Bad \/ (c # Text!Bad /\ c \in Nat /\ 0 < c /\ c <= 1114111)
  BY SMT DEF Element, Character, Text!Bad
<1>1. \/ \E x \in Int : b = <<x>> /\ Good(1, x)
      \/ \E x, y \in Int : b = <<x, y>> /\ Good(1, x) /\ Good(2, y)
      \/ \E x, y, z \in Int : b = <<x, y, z>> /\ Good(1, x) /\ Good(2, y) /\ Good(3, z)
      \/ \E x, y, z, w \in Int :
            b = <<x, y, z, w>> /\ Good(1, x) /\ Good(2, y) /\ Good(3, z) /\ Good(4, w)
  <2>1. CASE c = Text!Bad
    <3>1. b = <<128>> /\ Good(1, 128)
      BY <2>1, SMT DEF Text!BytesOf
    <3>2. QED  BY <3>1, SMT
  <2>2. CASE c # Text!Bad /\ c \in Nat /\ 0 < c /\ c < 128
    <3>1. b = <<c>> /\ Good(1, c)
      BY <2>2, OneByte, SMT DEF Text!BytesOf
    <3>2. QED  BY <2>2, <3>1, SMT
  <2>3. CASE c # Text!Bad /\ c \in Nat /\ 128 <= c /\ c < 2048
    <3> DEFINE x == 192 + (c \div 64)
               y == 128 + (c % 64)
    <3>1. b = <<x, y>>
      BY <2>3, TwoBytes, SMT DEF Text!BytesOf
    <3>2. Good(1, x) /\ Good(2, y)
      BY <2>3, SMT
    <3> HIDE DEF x, y
    <3>3. QED  BY <3>1, <3>2, SMT
  <2>4. CASE c # Text!Bad /\ c \in Nat /\ 2048 <= c /\ c < 65536
    <3> DEFINE x == 224 + (c \div 4096)
               y == 128 + ((c \div 64) % 64)
               z == 128 + (c % 64)
    <3>1. b = <<x, y, z>>
      BY <2>4, ThreeBytes, SMT DEF Text!BytesOf
    <3>2. Good(1, x) /\ Good(2, y) /\ Good(3, z)
      BY <2>4, SMT
    <3> HIDE DEF x, y, z
    <3>3. QED  BY <3>1, <3>2, SMT
  <2>5. CASE c # Text!Bad /\ c \in Nat /\ 65536 <= c /\ c <= 1114111
    <3> DEFINE x == 240 + (c \div 262144)
               y == 128 + ((c \div 4096) % 64)
               z == 128 + ((c \div 64) % 64)
               w == 128 + (c % 64)
    <3>1. b = <<x, y, z, w>>
      BY <2>5, FourBytes, SMT DEF Text!BytesOf
    <3>2. Good(1, x) /\ Good(2, y) /\ Good(3, z) /\ Good(4, w)
      BY <2>5, SMT
    <3> HIDE DEF x, y, z, w
    <3>3. QED  BY <3>1, <3>2, SMT
  <2>6. QED  BY <1>0, <2>1, <2>2, <2>3, <2>4, <2>5, SMT
<1>2. /\ b \in Seq(Int) /\ 1 <= Len(b) /\ Len(b) <= 4 /\ Len(b) \in Nat
      /\ \A k \in 1..Len(b) : Good(k, b[k])
  <2>1. CASE \E x \in Int : b = <<x>> /\ Good(1, x)
    BY <2>1, SMT
  <2>2. CASE \E x, y \in Int : b = <<x, y>> /\ Good(1, x) /\ Good(2, y)
    BY <2>2, SMT
  <2>3. CASE \E x, y, z \in Int : b = <<x, y, z>> /\ Good(1, x) /\ Good(2, y) /\ Good(3, z)
    BY <2>3, SMT
  <2>4. CASE \E x, y, z, w \in Int :
                b = <<x, y, z, w>> /\ Good(1, x) /\ Good(2, y) /\ Good(3, z) /\ Good(4, w)
    BY <2>4, SMT
  <2>5. QED  BY <1>1, <2>1, <2>2, <2>3, <2>4
<1>3. \A k \in 1..Len(b) : b[k] \in Text!Byte
  BY <1>2, Bytes
<1>4. b \in Seq(Text!Byte)
  BY <1>2, <1>3, IsASeq
<1>5. QED  BY <1>2, <1>4, SMT

\* The bytes of an element are found in a string.
Found(s, at, b) == \A k \in 1..Len(b) : s[at + k - 1] = b[k]

\* UTF8toUCS4() finds the element again, and the length of its character.
LEMMA RoundTrip ==
    ASSUME NEW s, NEW at \in Int, NEW c, Element(c), Found(s, at, Text!BytesOf(c))
    PROVE  /\ Text!Decodable(c) => Text!UTF8toUCS4(s, at) = c
           /\ c # Text!Bad => /\ Text!UTF8toUCS4(s, at) # Text!Bad
                              /\ Text!SequenceLength(s[at]) = Len(Text!BytesOf(c))
           /\ c = Text!Bad => Text!UTF8toUCS4(s, at) = Text!Bad
<1>0. c = Text!Bad \/ (c # Text!Bad /\ c \in Nat /\ 0 < c /\ c <= 1114111)
  BY SMT DEF Element, Character, Text!Bad
<1>1. CASE c = Text!Bad
  <2>1. Text!BytesOf(c) = <<128>>
    BY <1>1, SMT DEF Text!BytesOf
  <2>2. s[at] = 128
    BY <2>1, SMT DEF Found
  <2>3. Text!SequenceLength(128) = 0
    BY SMT DEF Text!SequenceLength
  <2>4. QED  BY <1>1, <2>2, <2>3, SMT DEF Text!UTF8toUCS4
<1>2. CASE c # Text!Bad /\ c \in Nat /\ 0 < c /\ c < 128
  <2>1. Text!BytesOf(c) = <<c>> /\ Text!SequenceLength(c) = 1
    BY <1>2, OneByte, SMT DEF Text!BytesOf
  <2>2. s[at] = c
    BY <1>2, <2>1, SMT DEF Found
  <2>3. Text!UTF8toUCS4(s, at) = c
    BY <1>2, <2>1, <2>2, SMT DEF Text!UTF8toUCS4
  <2>4. QED  BY <1>2, <2>1, <2>2, <2>3, SMT
<1>3. CASE c # Text!Bad /\ c \in Nat /\ 128 <= c /\ c < 2048
  <2> DEFINE x == 192 + (c \div 64)
             y == 128 + (c % 64)
  <2>1. Text!BytesOf(c) = <<x, y>> /\ Text!SequenceLength(x) = 2
    BY <1>3, TwoBytes, SMT DEF Text!BytesOf
  <2>2. y # 0 /\ (x % 32) * 64 + (y % 64) = c
    BY <1>3, SixBitsJoin, SMT
  <2> HIDE DEF x, y
  <2>3. s[at] = x /\ s[at + 1] = y
    BY <2>1, SMT DEF Found
  <2>4. Text!UTF8toUCS4(s, at) = (x % 32) * 64 + (y % 64)
    BY <2>1, <2>2, <2>3, SMT DEF Text!UTF8toUCS4
  <2>5. QED  BY <1>3, <2>1, <2>2, <2>3, <2>4, SMT
<1>4. CASE c # Text!Bad /\ c \in Nat /\ 2048 <= c /\ c < 65536
  <2> DEFINE x == 224 + (c \div 4096)
             y == 128 + ((c \div 64) % 64)
             z == 128 + (c % 64)
  <2>1. Text!BytesOf(c) = <<x, y, z>> /\ Text!SequenceLength(x) = 3
    BY <1>4, ThreeBytes, SMT DEF Text!BytesOf
  <2>2. y # 0 /\ z # 0 /\ (x % 16) * 4096 + (y % 64) * 64 + (z % 64) = c
    BY <1>4, SixBitsJoin, SMT
  <2> HIDE DEF x, y, z
  <2>3. s[at] = x /\ s[at + 1] = y /\ s[at + 2] = z
    BY <2>1, SMT DEF Found
  <2>4. Text!UTF8toUCS4(s, at) = (x % 16) * 4096 + (y % 64) * 64 + (z % 64)
    BY <2>1, <2>2, <2>3, SMT DEF Text!UTF8toUCS4
  <2>5. QED  BY <1>4, <2>1, <2>2, <2>3, <2>4, SMT
<1>5. CASE c # Text!Bad /\ c \in Nat /\ 65536 <= c /\ c <= 1114111
  <2> DEFINE x == 240 + (c \div 262144)
             y == 128 + ((c \div 4096) % 64)
             z == 128 + ((c \div 64) % 64)
             w == 128 + (c % 64)
             d == (x % 4) * 262144 + (y % 64) * 4096 + (z % 64) * 64 + (w % 64)
  <2>1. Text!BytesOf(c) = <<x, y, z, w>> /\ Text!SequenceLength(x) = 4
    BY <1>5, FourBytes, SMT DEF Text!BytesOf
  <2>2. y # 0 /\ z # 0 /\ w # 0 /\ (c < 1048576 => d = c)
    BY <1>5, SixBitsJoin, SMT
  <2>3. d \in Nat /\ d # Text!Bad
    BY <1>5, SMT DEF Text!Bad
  <2> HIDE DEF x, y, z, w
  <2>4. s[at] = x /\ s[at + 1] = y /\ s[at + 2] = z /\ s[at + 3] = w
    BY <2>1, SMT DEF Found
  <2>5. Text!UTF8toUCS4(s, at) = d
    BY <2>1, <2>2, <2>4, SMT DEF Text!UTF8toUCS4
  <2> HIDE DEF d
  <2>6. QED  BY <1>5, <2>1, <2>2, <2>3, <2>4, <2>5, SMT DEF Text!Decodable
<1>6. QED  BY <1>0, <1>1, <1>2, <1>3, <1>4, <1>5, SMT

\* A character found in front of a terminator ends in front of it, and has no more bytes
\* in lower case.
LEMMA Advance ==
    ASSUME NEW s \in Seq(Text!Byte), Len(s) > 0, s[Len(s)] = 0,
           NEW at \in 1..Len(s), s[at] # 0, Text!UTF8toUCS4(s, at) # Text!Bad
    PROVE  /\ Text!SequenceLength(s[at]) \in 1..4
           /\ at + Text!SequenceLength(s[at]) <= Len(s)
           /\ Character(Text!UTF8toUCS4(s, at))
           /\ CharLen(Text!UTF8toUCS4(s, at)) <= Text!SequenceLength(s[at])
<1> DEFINE n == Text!SequenceLength(s[at])
           c == Text!UTF8toUCS4(s, at)
<1>1. Len(s) \in Nat /\ \A i \in 1..Len(s) : s[i] \in Int /\ 0 <= s[i] /\ s[i] <= 255
  <2>1. \A i \in 1..Len(s) : s[i] \in Text!Byte
    BY ElementOfSeq
  <2>2. \A b \in Text!Byte : b \in Int /\ 0 <= b /\ b <= 255
    BY SMT DEF Text!Byte
  <2>3. QED  BY <2>1, <2>2, LenProperties
<1>2. /\ n \in 0..4 /\ n # 0 /\ \A k \in 1..(n - 1) : s[at + k] # 0
      /\ n = 1 => s[at] < 128
  <2>1. n \in 0..4 /\ (n = 1 => s[at] < 128)
    BY <1>1, SMT DEF Text!SequenceLength
  <2>2. QED  BY <2>1, SMT DEF Text!UTF8toUCS4
<1>3. at < Len(s)
  BY <1>1, SMT
<1>4. n >= 2 => at + 1 < Len(s)
  BY <1>1, <1>2, <1>3, SMT
<1>5. n >= 3 => at + 2 < Len(s)
  BY <1>1, <1>2, <1>4, SMT
<1>6. n >= 4 => at + 3 < Len(s)
  BY <1>1, <1>2, <1>5, SMT
<1> HIDE DEF n
<1>7. at + n <= Len(s)
  BY <1>1, <1>2, <1>3, <1>4, <1>5, <1>6, SMT
<1>8. n = 1 => c \in Nat /\ c < 128
  <2>1. n = 1 => c = s[at]
    BY <1>2, SMT DEF Text!UTF8toUCS4, n
  <2>2. s[at] \in Int /\ 0 <= s[at] /\ s[at] # 0 /\ (n = 1 => s[at] < 128)
    BY <1>1, <1>2
  <2>3. QED  BY <2>1, <2>2, SMT
<1>9. n = 2 => c \in Nat /\ c < 2048
  <2>1. SUFFICES ASSUME n = 2  PROVE c \in Nat /\ c < 2048
    OBVIOUS
  <2> DEFINE x == s[at]
             y == s[at + 1]
  <2>2. c = (x % 32) * 64 + (y % 64)
    BY <1>2, <2>1, SMT DEF Text!UTF8toUCS4, n
  <2>3. x \in Int /\ y \in Int
    BY <1>1, <1>3, <1>4, <2>1
  <2> HIDE DEF x, y
  <2>4. QED  BY <2>2, <2>3, SMT
<1>10. n = 3 => c \in Nat /\ c < 65536
  <2>1. SUFFICES ASSUME n = 3  PROVE c \in Nat /\ c < 65536
    OBVIOUS
  <2> DEFINE x == s[at]
             y == s[at + 1]
             z == s[at + 2]
  <2>2. c = (x % 16) * 4096 + (y % 64) * 64 + (z % 64)
    BY <1>2, <2>1, SMT DEF Text!UTF8toUCS4, n
  <2>3. x \in Int /\ y \in Int /\ z \in Int
    BY <1>1, <1>3, <1>4, <1>5, <2>1
  <2> HIDE DEF x, y, z
  <2>4. QED  BY <2>2, <2>3, SMT
<1>11. n = 4 => c \in Nat /\ c < 1048576
  <2>1. SUFFICES ASSUME n = 4  PROVE c \in Nat /\ c < 1048576
    OBVIOUS
  <2> DEFINE x == s[at]
             y == s[at + 1]
             z == s[at + 2]
             w == s[at + 3]
  <2>2. c = (x % 4) * 262144 + (y % 64) * 4096 + (z % 64) * 64 + (w % 64)
    BY <1>2, <2>1, SMT DEF Text!UTF8toUCS4, n
  <2>3. x \in Int /\ y \in Int /\ z \in Int /\ w \in Int
    BY <1>1, <1>3, <1>4, <1>5, <1>6, <2>1
  <2> HIDE DEF x, y, z, w
  <2>4. QED  BY <2>2, <2>3, SMT
<1> HIDE DEF c
<1>12. n \in 1..4 /\ (n = 1 \/ n = 2 \/ n = 3 \/ n = 4)
  BY <1>2
<1>13. Character(c) /\ CharLen(c) <= n
  <2>1. n = 1 => Character(c) /\ CharLen(c) <= n
    BY <1>8, SMT DEF Character, CharLen
  <2>2. n = 2 => Character(c) /\ CharLen(c) <= n
    BY <1>9, SMT DEF Character, CharLen
  <2>3. n = 3 => Character(c) /\ CharLen(c) <= n
    BY <1>10, SMT DEF Character, CharLen
  <2>4. n = 4 => Character(c) /\ CharLen(c) <= n
    BY <1>11, SMT DEF Character, CharLen
  <2>5. QED  BY <1>12, <2>1, <2>2, <2>3, <2>4
<1>14. QED  BY <1>7, <1>12, <1>13 DEF n, c

\* UCS4toUTF8() writes as many bytes as UTF8CharLen() says.
LEMMA EncodedLength ==
    ASSUME NEW c, Character(c)
    PROVE  /\ Text!UCS4toUTF8(c) \in Seq(Text!Byte)
           /\ Len(Text!UCS4toUTF8(c)) = CharLen(c) /\ CharLen(c) \in 1..4
<1>1. c \in Nat /\ c <= 1114111 /\ CharLen(c) \in 1..4
  BY SMT DEF Character, CharLen
<1>2. Len(Text!UCS4toUTF8(c)) = CharLen(c)
  <2>1. c < 128 => Len(Text!UCS4toUTF8(c)) = CharLen(c)
    BY <1>1, OneByte, SMT DEF CharLen
  <2>2. 128 <= c /\ c < 2048 => Len(Text!UCS4toUTF8(c)) = CharLen(c)
    BY <1>1, TwoBytes, SMT DEF CharLen
  <2>3. 2048 <= c /\ c < 65536 => Len(Text!UCS4toUTF8(c)) = CharLen(c)
    BY <1>1, ThreeBytes, SMT DEF CharLen
  <2>4. 65536 <= c => Len(Text!UCS4toUTF8(c)) = CharLen(c)
    BY <1>1, FourBytes, SMT DEF CharLen
  <2>5. QED  BY <1>1, <2>1, <2>2, <2>3, <2>4, SMT
<1>3. Text!UCS4toUTF8(c) \in Seq(Text!Byte)
  <2>1. CASE c = 0
    <3>1. Text!UCS4toUTF8(c) = <<0>>
      BY <2>1, OneByte, SMT
    <3>2. 0 \in Text!Byte
      BY SMT DEF Text!Byte
    <3>3. QED  BY <3>1, <3>2, SMT
  <2>2. CASE c # 0
    <3>1. Element(c) /\ c # Text!Bad
      BY <1>1, <2>2, SMT DEF Element, Text!Bad, Character
    <3>2. QED  BY <3>1, BytesOfElement DEF Text!BytesOf
  <2>3. QED  BY <2>1, <2>2
<1>4. QED  BY <1>1, <1>2, <1>3

\* No character of the table grows.
LEMMA LowerOfCharacter ==
    ASSUME NEW c, Character(c)
    PROVE  /\ Character(Text!Lower(c)) /\ Text!Lower(c) # Text!Bad
           /\ c # 0 => Text!Lower(c) # 0
           /\ CharLen(Text!Lower(c)) <= CharLen(c)
<1>1. c \in Nat /\ c <= 1114111
  BY DEF Character
<1>2. CASE c = 65 \/ c = 304 \/ c = 8490
  BY <1>1, <1>2, SMT DEF Text!Lower, Text!Bad, Character, CharLen
<1>3. CASE ~(c = 65 \/ c = 304 \/ c = 8490)
  <2>1. Text!Lower(c) = c /\ CharLen(c) \in Nat
    BY <1>1, <1>3, SMT DEF Text!Lower, CharLen
  <2>2. c # Text!Bad
    BY <1>1, SMT DEF Text!Bad
  <2>3. QED  BY <2>1, <2>2, SMT
<1>4. QED  BY <1>2, <1>3

LEMMA LowerOfElement ==
    ASSUME NEW c, Element(c)
    PROVE  /\ Element(Text!Lower(c))
           /\ Text!Lower(c) = Text!Bad <=> c = Text!Bad
           /\ Len(Text!BytesOf(Text!Lower(c))) <= Len(Text!BytesOf(c))
<1>1. CASE c = Text!Bad
  <2>1. Text!Lower(c) = c
    BY <1>1, SMT DEF Text!Lower, Text!Bad
  <2>2. Len(Text!BytesOf(c)) \in Nat
    BY BytesOfElement
  <2>3. QED  BY <1>1, <2>1, <2>2, SMT
<1>2. CASE c # Text!Bad
  <2>1. Character(c) /\ c # 0
    BY <1>2 DEF Element
  <2>2. /\ Character(Text!Lower(c)) /\ Text!Lower(c) # Text!Bad /\ Text!Lower(c) # 0
        /\ CharLen(Text!Lower(c)) <= CharLen(c)
    BY <2>1, LowerOfCharacter
  <2>3. /\ Len(Text!BytesOf(c)) = CharLen(c)
        /\ Len(Text!BytesOf(Text!Lower(c))) = CharLen(Text!Lower(c))
    BY <1>2, <2>1, <2>2, EncodedLength DEF Text!BytesOf
  <2>4. QED  BY <1>2, <2>2, <2>3 DEF Element
<1>3. QED  BY <1>1, <1>2

\* A character that is found in a string is not longer in lower case than what it was
\* found in.
LEMMA MappedFits ==
    ASSUME NEW s \in Seq(Text!Byte), Len(s) > 0, s[Len(s)] = 0,
           NEW at \in 1..Len(s), s[at] # 0, Text!UTF8toUCS4(s, at) # Text!Bad
    PROVE  LET new == Text!UCS4toUTF8(Text!Lower(Text!UTF8toUCS4(s, at)))
           IN  /\ new \in Seq(Text!Byte) /\ Len(new) \in Nat /\ 1 <= Len(new)
               /\ Len(new) <= Text!SequenceLength(s[at])
<1> DEFINE n == Text!SequenceLength(s[at])
           c == Text!UTF8toUCS4(s, at)
           d == Text!Lower(c)
<1>1. Character(c) /\ CharLen(c) <= n /\ n \in 1..4
  BY Advance
<1> HIDE DEF c, n
<1>2. Character(d) /\ CharLen(d) <= CharLen(c) /\ CharLen(c) \in 1..4
  BY <1>1, LowerOfCharacter, EncodedLength
<1> HIDE DEF d
<1>3. /\ Text!UCS4toUTF8(d) \in Seq(Text!Byte)
      /\ Len(Text!UCS4toUTF8(d)) = CharLen(d) /\ CharLen(d) \in 1..4
  BY <1>2, EncodedLength
<1>4. CharLen(d) <= n
  BY <1>1, <1>2, <1>3
<1>5. QED  BY <1>3, <1>4 DEF d, c, n

\* A character that is cut short is no character.
LEMMA CutShort ==
    ASSUME NEW c, Element(c), c # Text!Bad, NEW k \in 1..(Len(Text!BytesOf(c)) - 1)
    PROVE  Text!UTF8toUCS4(Append(SubSeq(Text!BytesOf(c), 1, k), 0), 1) = Text!Bad
<1> DEFINE b == Text!BytesOf(c)
           s == Append(SubSeq(b, 1, k), 0)
<1>1. b \in Seq(Text!Byte) /\ Len(b) \in Nat /\ k \in 1..Len(b) /\ k \in 1..(Len(b) - 1)
  BY BytesOfElement
<1>2. Text!SequenceLength(b[1]) = Len(b)
  <2>1. \A i \in 1..Len(b) : 1 + i - 1 = i
    BY <1>1
  <2>2. Found(b, 1, b)
    BY <2>1 DEF Found
  <2>3. QED  BY <2>2, RoundTrip
<1> HIDE DEF b
<1>3. s[1] = b[1] /\ s[1 + k] = 0
  <2>1. /\ SubSeq(b, 1, k) \in Seq(Text!Byte) /\ Len(SubSeq(b, 1, k)) = k
        /\ SubSeq(b, 1, k)[1] = b[1]
    BY <1>1, SubSeqProperties
  <2>2. QED  BY <1>1, <2>1, SMT
<1> HIDE DEF s
<1>4. Text!UTF8toUCS4(s, 1) = Text!Bad
  BY <1>1, <1>2, <1>3, SMT DEF Text!UTF8toUCS4
<1>5. QED  BY <1>4 DEF s, b

\* Where the part of the string ends that n elements have, as they were put there and in
\* lower case.
EndOf(n) == IF n = 0 THEN 1 ELSE starts[n] + Len(Text!BytesOf(text[n]))
NewEnd(n) == IF n = 0 THEN 1 ELSE starts[n] + Len(Text!BytesOf(Text!Lower(text[n])))

\* The elements are put one behind the other.
ElementsFollow ==
    /\ Len(starts) = Len(text) /\ \A n \in 1..Len(text) : Element(text[n])
    /\ \A n \in 1..Len(text) : starts[n] = EndOf(n - 1) /\ starts[n] \in Nat \ {0}
    /\ \A m, n \in 1..Len(text) : m < n => EndOf(m) <= starts[n]
    /\ mode # "done" => Len(m_buf) = EndOf(Len(text))

\* Each is found where it was put, as long as nothing is mapped.
ElementsAreFound ==
    mode \in {"typing", "toUCS2"} =>
        \A n \in 1..Len(text) : Found(m_buf, starts[n], Text!BytesOf(text[n]))

CharactersAreCounted ==
    mode = "typing" =>
        Text!charCount(m_buf) = Cardinality({n \in 1..Len(text) : text[n] # Text!Bad})

\* What a loop begins with.
LoopIsReady == mode = "typing" => from = 1 /\ output = 1

\* The elements that StringToUCS2() has found are the first of the text.
PrefixIsFound ==
    /\ mode \in {"typing", "inPlace"} => rval = <<>>
    /\ mode \in {"toUCS2", "thrown", "converted"} =>
          /\ Len(rval) <= Len(text)
          /\ \A i \in 1..Len(rval) :
                rval[i] = text[i] /\ text[i] # Text!Bad /\ text[i] < 65536
    /\ mode = "toUCS2" => from = EndOf(Len(rval))
    /\ mode = "converted" => Len(rval) = Len(text)
    /\ mode = "thrown" => /\ Len(rval) < Len(text)
                          /\ LET c == text[Len(rval) + 1] IN ~(c # Text!Bad /\ c < 65536)
    /\ mode = "transform" => rval \in Seq(Text!Byte)

\* The texts that toLowerCase() maps as they should be: none of their characters loses a
\* bit, and none but the last one shrinks.
MapsInPlace ==
    \A n \in 1..Len(text) :
        /\ Text!Decodable(text[n])
        /\ n < Len(text) =>
              ~(Len(Text!BytesOf(Text!Lower(text[n]))) < Len(Text!BytesOf(text[n])))

\* The first n elements of such a text are in lower case, and the others are as they were.
MappedUpTo(n) ==
    /\ from = EndOf(n) /\ output = NewEnd(n)
    /\ \A m \in 1..n : Found(m_buf, starts[m], Text!BytesOf(Text!Lower(text[m])))
    /\ \A m \in (n + 1)..Len(text) : Found(m_buf, starts[m], Text!BytesOf(text[m]))

CaseFollows ==
    /\ mode = "inPlace" /\ MapsInPlace => \E n \in 0..Len(text) : MappedUpTo(n)
    /\ mode = "transform" => ~MapsInPlace
    /\ mode = "done" /\ MapsInPlace =>
          /\ \A n \in 1..Len(text) : Found(m_buf, starts[n], Text!BytesOf(Text!Lower(text[n])))
          /\ m_buf[NewEnd(Len(text))] = 0

TextInv ==
    /\ Text!TypeOK /\ Len(m_buf) > 0 /\ Text!PointersStayInside
    /\ ElementsFollow /\ ElementsAreFound /\ CharactersAreCounted /\ LoopIsReady
    /\ PrefixIsFound /\ CaseFollows

\* The parts of the string are ordered, and lower case makes none longer.
LEMMA PartsAreOrdered ==
    ASSUME Text!TypeOK, ElementsFollow
    PROVE  /\ Len(text) \in Nat /\ EndOf(0) = 1 /\ NewEnd(0) = 1
           /\ \A n \in 1..Len(text) :
                 /\ Element(text[n]) /\ starts[n] \in Nat \ {0}
                 /\ EndOf(n) = starts[n] + Len(Text!BytesOf(text[n])) /\ EndOf(n) \in Nat
                 /\ NewEnd(n) = starts[n] + Len(Text!BytesOf(Text!Lower(text[n])))
                 /\ starts[n] < NewEnd(n) /\ NewEnd(n) <= EndOf(n) /\ NewEnd(n) \in Nat
                 /\ EndOf(n) <= EndOf(Len(text))
           /\ \A n \in 0..Len(text) : EndOf(n) \in Nat \ {0}
           /\ \A n \in 0..(Len(text) - 1) :
                 /\ EndOf(n) = starts[n + 1] /\ EndOf(n) < EndOf(n + 1)
                 /\ EndOf(n) < EndOf(Len(text))
<1>1. Len(text) \in Nat /\ EndOf(0) = 1 /\ NewEnd(0) = 1
  BY LenProperties DEF Text!TypeOK, EndOf, NewEnd
<1>2. ASSUME NEW n \in 1..Len(text)
      PROVE  /\ Element(text[n]) /\ starts[n] \in Nat \ {0}
             /\ EndOf(n) = starts[n] + Len(Text!BytesOf(text[n])) /\ EndOf(n) \in Nat
             /\ NewEnd(n) = starts[n] + Len(Text!BytesOf(Text!Lower(text[n])))
             /\ starts[n] < NewEnd(n) /\ NewEnd(n) <= EndOf(n) /\ NewEnd(n) \in Nat
             /\ starts[n] < EndOf(n)
  <2>1. Element(text[n]) /\ starts[n] \in Nat \ {0}
    BY <1>2 DEF ElementsFollow
  <2>2. /\ Len(Text!BytesOf(text[n])) \in Nat /\ 1 <= Len(Text!BytesOf(text[n]))
        /\ Element(Text!Lower(text[n]))
        /\ Len(Text!BytesOf(Text!Lower(text[n]))) <= Len(Text!BytesOf(text[n]))
    BY <2>1, BytesOfElement, LowerOfElement
  <2>3. /\ Len(Text!BytesOf(Text!Lower(text[n]))) \in Nat
        /\ 1 <= Len(Text!BytesOf(Text!Lower(text[n])))
    BY <2>2, BytesOfElement
  <2>4. /\ EndOf(n) = starts[n] + Len(Text!BytesOf(text[n]))
        /\ NewEnd(n) = starts[n] + Len(Text!BytesOf(Text!Lower(text[n])))
    BY <1>1, <1>2 DEF EndOf, NewEnd
  <2>5. QED  BY <2>1, <2>2, <2>3, <2>4
<1>3. ASSUME NEW n \in 1..Len(text)  PROVE EndOf(n) <= EndOf(Len(text))
  <2>1. CASE n = Len(text)
    BY <2>1, <1>2
  <2>2. CASE n < Len(text)
    <3>1. EndOf(n) <= starts[Len(text)] /\ Len(text) \in 1..Len(text)
      BY <1>1, <2>2 DEF ElementsFollow
    <3>2. /\ starts[Len(text)] < EndOf(Len(text)) /\ starts[Len(text)] \in Nat
          /\ EndOf(Len(text)) \in Nat /\ EndOf(n) \in Nat
      BY <1>2, <3>1
    <3>3. QED  BY <3>1, <3>2
  <2>3. QED  BY <1>1, <2>1, <2>2
<1>4. \A n \in 0..Len(text) : EndOf(n) \in Nat \ {0}
  <2>1. TAKE n \in 0..Len(text)
  <2>2. CASE n = 0
    BY <1>1, <2>2
  <2>3. CASE n \in 1..Len(text)
    BY <1>2, <2>3
  <2>4. QED  BY <1>1, <2>2, <2>3
<1>5. ASSUME NEW n \in 0..(Len(text) - 1)
      PROVE  /\ EndOf(n) = starts[n + 1] /\ EndOf(n) < EndOf(n + 1)
             /\ EndOf(n) < EndOf(Len(text))
  <2>1. n + 1 \in 1..Len(text) /\ (n + 1) - 1 = n
    BY <1>1
  <2>2. starts[n + 1] = EndOf(n)
    BY <2>1 DEF ElementsFollow
  <2>3. /\ starts[n + 1] < EndOf(n + 1) /\ EndOf(n + 1) <= EndOf(Len(text))
        /\ starts[n + 1] \in Nat /\ EndOf(n + 1) \in Nat
    BY <1>2, <1>3, <2>1
  <2>4. EndOf(Len(text)) \in Nat
    BY <1>1, <1>4
  <2>5. QED  BY <2>2, <2>3, <2>4
<1>6. QED  BY <1>1, <1>2, <1>3, <1>4, <1>5

\* As long as there is a character to come, the string has not shrunk.
LEMMA NotShrunkYet ==
    ASSUME Text!TypeOK, ElementsFollow, MapsInPlace, NEW n \in 0..(Len(text) - 1)
    PROVE  NewEnd(n) = EndOf(n)
<1>1. CASE n = 0
  BY <1>1, PartsAreOrdered
<1>2. CASE n # 0
  <2>1. n \in 1..Len(text) /\ n < Len(text)
    BY <1>2, PartsAreOrdered
  <2>2. ~(Len(Text!BytesOf(Text!Lower(text[n]))) < Len(Text!BytesOf(text[n])))
    BY <2>1 DEF MapsInPlace
  <2>3. Element(text[n])
    BY <2>1 DEF ElementsFollow
  <2>4. /\ Len(Text!BytesOf(Text!Lower(text[n]))) <= Len(Text!BytesOf(text[n]))
        /\ Len(Text!BytesOf(Text!Lower(text[n]))) \in Nat
        /\ Len(Text!BytesOf(text[n])) \in Nat
    BY <2>3, LowerOfElement, BytesOfElement
  <2>5. QED  BY <1>2, <2>2, <2>4 DEF NewEnd, EndOf
<1>3. QED  BY <1>1, <1>2

\* What is written into a string goes there, and nowhere else.
LEMMA OverwrittenBytes ==
    ASSUME NEW s \in Seq(Text!Byte), NEW at \in 1..Len(s), NEW b \in Seq(Text!Byte),
           at + Len(b) - 1 <= Len(s)
    PROVE  /\ Text!Overwritten(s, at, b) \in Seq(Text!Byte)
           /\ Len(Text!Overwritten(s, at, b)) = Len(s)
           /\ Found(Text!Overwritten(s, at, b), at, b)
           /\ \A i \in 1..Len(s) :
                 i < at \/ i > at + Len(b) - 1 => Text!Overwritten(s, at, b)[i] = s[i]
<1> DEFINE t == Text!Overwritten(s, at, b)
<1>1. Len(s) \in Nat /\ Len(b) \in Nat /\ DOMAIN s = 1..Len(s) /\ DOMAIN b = 1..Len(b)
  BY LenProperties
<1>2. t = [i \in 1..Len(s) |->
              IF i \in at..(at + Len(b) - 1) THEN b[i - at + 1] ELSE s[i]]
  BY <1>1 DEF Text!Overwritten
<1>3. \A i \in 1..Len(s) : t[i] \in Text!Byte
  <2>1. TAKE i \in 1..Len(s)
  <2>2. CASE i \in at..(at + Len(b) - 1)
    <3>1. i - at + 1 \in 1..Len(b)
      BY <1>1, <2>2
    <3>2. b[i - at + 1] \in Text!Byte
      BY <3>1, ElementOfSeq
    <3>3. QED  BY <1>2, <2>2, <3>2
  <2>3. CASE i \notin at..(at + Len(b) - 1)
    BY <1>2, <2>3, ElementOfSeq
  <2>4. QED  BY <2>2, <2>3
<1>4. t \in Seq(Text!Byte) /\ Len(t) = Len(s)
  <2>1. t = [i \in 1..Len(s) |-> t[i]]
    BY <1>2
  <2>2. [i \in 1..Len(s) |-> t[i]] \in Seq(Text!Byte)
    BY <1>1, <1>3, IsASeq
  <2>3. t \in Seq(Text!Byte) /\ DOMAIN t = 1..Len(s)
    BY <1>2, <2>1, <2>2
  <2>4. Len(t) \in Nat /\ DOMAIN t = 1..Len(t)
    BY <2>3, LenProperties
  <2>5. QED  BY <1>1, <2>3, <2>4
<1>5. Found(t, at, b)
  <2>1. SUFFICES ASSUME NEW k \in 1..Len(b)  PROVE t[at + k - 1] = b[k]
    BY DEF Found
  <2>2. /\ at + k - 1 \in 1..Len(s) /\ at + k - 1 \in at..(at + Len(b) - 1)
        /\ (at + k - 1) - at + 1 = k
    BY <1>1
  <2>3. QED  BY <1>2, <2>2
<1>6. \A i \in 1..Len(s) : i < at \/ i > at + Len(b) - 1 => t[i] = s[i]
  BY <1>1, <1>2
<1>7. QED  BY <1>4, <1>5, <1>6

\* What a string is after UCS4toUTF8() has added a character to it.
Grown(s, b) == SubSeq(s, 1, Len(s) - 1) \o Append(b, 0)

LEMMA StringGrows ==
    ASSUME NEW s \in Seq(Text!Byte), Len(s) > 0, NEW b \in Seq(Text!Byte)
    PROVE  LET t == Grown(s, b)
           IN  /\ t \in Seq(Text!Byte) /\ Len(t) = Len(s) + Len(b) /\ t[Len(t)] = 0
               /\ \A i \in 1..(Len(s) - 1) : t[i] = s[i]
               /\ Found(t, Len(s), b)
<1> DEFINE p == SubSeq(s, 1, Len(s) - 1)
           q == Append(b, 0)
           t == Grown(s, b)
<1>1. Len(s) \in Nat \ {0} /\ Len(b) \in Nat /\ 0 \in Text!Byte
  BY LenProperties, Bytes
<1>2. /\ p \in Seq(Text!Byte) /\ Len(p) = Len(s) - 1
      /\ \A i \in 1..(Len(s) - 1) : p[i] = s[i]
  <2>1. \A i \in 1..(Len(s) - 1) : s[i] \in Text!Byte
    BY <1>1, ElementOfSeq
  <2>2. /\ p \in Seq(Text!Byte)
        /\ Len(p) = IF 1 <= Len(s) - 1 THEN Len(s) - 1 - 1 + 1 ELSE 0
        /\ \A i \in 1..(Len(s) - 1 - 1 + 1) : p[i] = s[1 + i - 1]
    <3>1. 1 \in Int /\ Len(s) - 1 \in Int
      BY <1>1
    <3>2. QED  BY <2>1, <3>1, SubSeqProperties
  <2> HIDE DEF p
  <2>3. Len(p) = Len(s) - 1 /\ Len(s) - 1 - 1 + 1 = Len(s) - 1
    <3>1. Len(p) = IF 1 <= Len(s) - 1 THEN Len(s) - 1 - 1 + 1 ELSE 0
      BY <2>2
    <3>2. ASSUME NEW l \in Nat \ {0}
          PROVE  /\ l - 1 - 1 + 1 = l - 1
                 /\ (IF 1 <= l - 1 THEN l - 1 - 1 + 1 ELSE 0) = l - 1
      OBVIOUS
    <3>3. QED  BY <1>1, <3>1, <3>2
  <2>4. \A i \in 1..(Len(s) - 1) : 1 + i - 1 = i
    BY <1>1
  <2>5. QED  BY <2>2, <2>3, <2>4
<1>3. /\ q \in Seq(Text!Byte) /\ Len(q) = Len(b) + 1 /\ q[Len(b) + 1] = 0
      /\ \A k \in 1..Len(b) : q[k] = b[k]
  BY <1>1, AppendProperties
<1> HIDE DEF p, q
<1>4. /\ p \o q \in Seq(Text!Byte) /\ Len(p \o q) = Len(p) + Len(q)
      /\ \A i \in 1..(Len(p) + Len(q)) :
            (p \o q)[i] = IF i <= Len(p) THEN p[i] ELSE q[i - Len(p)]
  BY <1>2, <1>3, ConcatProperties
<1>5. t = p \o q
  BY DEF p, q, Grown
<1> HIDE DEF t
<1>6. Len(t) = Len(s) + Len(b) /\ t[Len(t)] = 0
  <2>1. Len(t) = Len(s) + Len(b)
    <3>1. Len(t) = Len(p) + Len(q) /\ Len(p) = Len(s) - 1 /\ Len(q) = Len(b) + 1
      BY <1>2, <1>3, <1>4, <1>5
    <3>2. QED  BY <1>1, <3>1
  <2>2. /\ Len(s) + Len(b) \in 1..(Len(p) + Len(q)) /\ ~(Len(s) + Len(b) <= Len(p))
        /\ Len(s) + Len(b) - Len(p) = Len(b) + 1
    BY <1>1, <1>2, <1>3
  <2>3. t[Len(s) + Len(b)] = q[Len(s) + Len(b) - Len(p)]
    BY <1>4, <1>5, <2>2
  <2>4. q[Len(b) + 1] = 0
    BY <1>3
  <2>5. QED  BY <2>1, <2>2, <2>3, <2>4
<1>7. \A i \in 1..(Len(s) - 1) : t[i] = s[i]
  <2>1. TAKE i \in 1..(Len(s) - 1)
  <2>2. i \in 1..(Len(p) + Len(q)) /\ i <= Len(p)
    BY <1>1, <1>2, <1>3
  <2>3. QED  BY <1>2, <1>4, <1>5, <2>2
<1>8. Found(t, Len(s), b)
  <2>1. SUFFICES ASSUME NEW k \in 1..Len(b)  PROVE t[Len(s) + k - 1] = b[k]
    BY DEF Found
  <2>2. /\ Len(s) + k - 1 \in 1..(Len(p) + Len(q)) /\ ~(Len(s) + k - 1 <= Len(p))
        /\ (Len(s) + k - 1) - Len(p) = k
    BY <1>1, <1>2, <1>3
  <2>3. QED  BY <1>3, <1>4, <1>5, <2>2
<1>9. QED  BY <1>4, <1>5, <1>6, <1>7, <1>8 DEF t

\* A set of indices that gets one more has one more.
LEMMA OneMoreIndex ==
    ASSUME NEW n \in Nat, NEW S \in SUBSET (1..n), NEW x, x \notin S
    PROVE  Cardinality(S \cup {x}) = Cardinality(S) + 1
<1>1. IsFiniteSet(S)
  <2>1. IsFiniteSet(1..n)
    BY FS_Interval
  <2>2. QED  BY <2>1, FS_Subset
<1>2. QED  BY <1>1, FS_AddElement

LEMMA TextSizes ==
    ASSUME NEW S
    PROVE  Text!Cardinality(S) = Cardinality(S)
BY DEF Text!Cardinality, Cardinality

\* charCount() counts a character once, and a byte that is none not at all.
LEMMA CountGrows ==
    ASSUME NEW s \in Seq(Text!Byte), Len(s) > 0, NEW c, Element(c)
    PROVE  /\ Text!charCount(s) \in Nat
           /\ Text!charCount(Grown(s, Text!BytesOf(c)))
                 = IF c = Text!Bad THEN Text!charCount(s) ELSE Text!charCount(s) + 1
<1> DEFINE b == Text!BytesOf(c)
           t == Grown(s, b)
           First(d) == d < 128 \/ d > 191
           S == {i \in 1..(Len(s) - 1) : First(s[i])}
           T == {i \in 1..(Len(t) - 1) : First(t[i])}
<1>1. Len(s) \in Nat \ {0} /\ b \in Seq(Text!Byte) /\ Len(b) \in Nat /\ 1 <= Len(b)
  BY BytesOfElement, LenProperties
<1>2. /\ Len(t) = Len(s) + Len(b)
      /\ \A i \in 1..(Len(s) - 1) : t[i] = s[i]
      /\ Found(t, Len(s), b)
  BY <1>1, StringGrows
<1>3. Text!charCount(s) = Cardinality(S) /\ Text!charCount(t) = Cardinality(T)
  <2>1. \A u : Text!charCount(u)
                = Cardinality({i \in 1..(Len(u) - 1) : u[i] < 128 \/ u[i] > 191})
    BY TextSizes, Zenon DEF Text!charCount
  <2>2. QED  BY <2>1, Zenon
<1>4. \A k \in 1..Len(b) : First(b[k]) <=> (k = 1 /\ c # Text!Bad)
  BY BytesOfElement
<1> HIDE DEF t, b, First
<1>5. \A i \in 1..(Len(t) - 1) :
         \/ i \in 1..(Len(s) - 1) /\ t[i] = s[i]
         \/ i >= Len(s) /\ (First(t[i]) <=> (i = Len(s) /\ c # Text!Bad))
  <2>1. SUFFICES ASSUME NEW i \in 1..(Len(t) - 1), i \notin 1..(Len(s) - 1)
                 PROVE  i >= Len(s) /\ (First(t[i]) <=> (i = Len(s) /\ c # Text!Bad))
    BY <1>2
  <2> DEFINE k == i - Len(s) + 1
  <2>2. k \in 1..Len(b) /\ Len(s) + k - 1 = i /\ i >= Len(s) /\ (k = 1 <=> i = Len(s))
    BY <1>1, <1>2, <2>1
  <2> HIDE DEF k
  <2>3. t[i] = b[k]
    BY <1>2, <2>2 DEF Found
  <2>4. QED  BY <1>4, <2>2, <2>3
<1>6. S \in SUBSET (1..(Len(s) - 1)) /\ Len(s) - 1 \in Nat
  BY <1>1
<1>7. Cardinality(S) \in Nat
  <2>1. IsFiniteSet(1..(Len(s) - 1))
    BY <1>6, FS_Interval
  <2>2. QED  BY <1>6, <2>1, FS_Subset, FS_CardinalityType
<1>8. 1..(Len(s) - 1) \subseteq 1..(Len(t) - 1) /\ Len(s) \in 1..(Len(t) - 1)
  BY <1>1, <1>2
<1>9. CASE c = Text!Bad
  <2>1. T = S
    BY <1>1, <1>2, <1>5, <1>8, <1>9
  <2>2. QED  BY <1>3, <1>7, <1>9, <2>1 DEF t, b
<1>10. CASE c # Text!Bad
  <2>1. T = S \cup {Len(s)}
    <3>1. Len(s) \notin 1..(Len(s) - 1) /\ Len(s) >= Len(s)
      BY <1>1
    <3>2. Len(s) \in T
      BY <1>5, <1>8, <1>10, <3>1
    <3>3. \A i \in T : i \in S \/ i = Len(s)
      BY <1>5, <1>10
    <3>4. \A i \in S : i \in T
      <4>1. TAKE i \in S
      <4>2. i \in 1..(Len(s) - 1) /\ First(s[i]) /\ i \in 1..(Len(t) - 1)
        BY <1>8
      <4>3. QED  BY <1>2, <4>2
    <3>5. QED  BY <3>2, <3>3, <3>4
  <2>2. Len(s) \notin S
    BY <1>1
  <2>3. Cardinality(T) = Cardinality(S) + 1
    BY <1>6, <2>1, <2>2, OneMoreIndex
  <2>4. QED  BY <1>3, <1>7, <1>10, <2>3 DEF t, b
<1>11. QED  BY <1>9, <1>10

\* What a text is after an element has been added.
LEMMA TypeKeepsText ==
    ASSUME TextAssumption, TextInv, NEW c \in CodePoints \cup {Text!Bad}, Text!Type(c)
    PROVE  TextInv'
<1> DEFINE b == Text!BytesOf(c)
<1>0. PICK n, l : n = Len(text) /\ l = Len(m_buf)
  OBVIOUS
<1>1. /\ mode = "typing" /\ mode' = mode /\ from' = from /\ output' = output
      /\ rval' = rval /\ from = 1 /\ output = 1 /\ rval = <<>>
      /\ text' = Append(text, c) /\ starts' = Append(starts, l) /\ m_buf' = Grown(m_buf, b)
  BY <1>0 DEF Text!Type, TextInv, LoopIsReady, PrefixIsFound, Grown
<1>2. Element(c) /\ b \in Seq(Text!Byte) /\ Len(b) \in Nat /\ 1 <= Len(b)
  <2>1. Element(c)
    BY DEF TextAssumption, Element
  <2>2. QED  BY <2>1, BytesOfElement
<1>3. /\ text \in Seq(CodePoints \cup {Text!Bad}) /\ starts \in Seq(Nat)
      /\ m_buf \in Seq(Text!Byte) /\ l \in Nat \ {0} /\ n \in Nat /\ Len(starts) = n
  BY <1>0, LenProperties DEF TextInv, Text!TypeOK, ElementsFollow
<1>4. /\ m_buf' \in Seq(Text!Byte) /\ Len(m_buf') = l + Len(b) /\ m_buf'[Len(m_buf')] = 0
      /\ \A i \in 1..(l - 1) : m_buf'[i] = m_buf[i]
      /\ Found(m_buf', l, b)
  <2>1. m_buf \in Seq(Text!Byte) /\ Len(m_buf) > 0 /\ b \in Seq(Text!Byte)
    BY <1>0, <1>2, <1>3
  <2> DEFINE t == Grown(m_buf, b)
  <2> HIDE DEF b
  <2>2. /\ t \in Seq(Text!Byte) /\ Len(t) = l + Len(b) /\ t[Len(t)] = 0
        /\ \A i \in 1..(l - 1) : t[i] = m_buf[i]
        /\ Found(t, l, b)
    BY <1>0, <2>1, StringGrows
  <2>3. m_buf' = t
    BY <1>1 DEF b
  <2> HIDE DEF t
  <2>4. QED  BY <2>2, <2>3
<1>5. /\ text' \in Seq(CodePoints \cup {Text!Bad}) /\ Len(text') = n + 1
      /\ text'[n + 1] = c /\ \A m \in 1..n : text'[m] = text[m]
  BY <1>0, <1>1, <1>3, AppendProperties
<1>6. /\ starts' \in Seq(Nat) /\ Len(starts') = n + 1
      /\ starts'[n + 1] = l /\ \A m \in 1..n : starts'[m] = starts[m]
  BY <1>0, <1>1, <1>3, AppendProperties
<1>7. /\ Text!TypeOK' /\ Len(m_buf') > 0 /\ Text!PointersStayInside'
  <2>1. Text!TypeOK'
    BY <1>1, <1>4, <1>5, <1>6 DEF TextInv, Text!TypeOK
  <2>2. Len(m_buf') > 0 /\ from' <= Len(m_buf')
    BY <1>1, <1>2, <1>3, <1>4
  <2>3. QED  BY <1>1, <1>4, <2>1, <2>2 DEF Text!PointersStayInside
<1> HIDE DEF b
<1>8. l = EndOf(n) /\ \A m \in 1..n : EndOf(m) <= EndOf(n) /\ EndOf(m) \in Nat
                                      /\ starts[m] \in Nat \ {0}
  <2>1. l = EndOf(n)
    BY <1>0, <1>1 DEF TextInv, ElementsFollow
  <2>2. QED  BY <1>0, <2>1, PartsAreOrdered DEF TextInv
<1>9. /\ EndOf(n + 1)' = l + Len(b) /\ \A m \in 0..n : EndOf(m)' = EndOf(m)
  <2>1. EndOf(n + 1)' = l + Len(b)
    <3>1. n + 1 # 0
      BY <1>3
    <3>2. EndOf(n + 1)' = starts'[n + 1] + Len(Text!BytesOf(text'[n + 1]))
      BY <3>1 DEF EndOf
    <3>3. QED  BY <1>5, <1>6, <3>2 DEF b
  <2>2. ASSUME NEW m \in 0..n  PROVE EndOf(m)' = EndOf(m)
    <3>1. CASE m = 0
      BY <3>1 DEF EndOf
    <3>2. CASE m \in 1..n
      <4>1. text'[m] = text[m] /\ starts'[m] = starts[m]
        BY <1>5, <1>6, <3>2
      <4>2. QED  BY <4>1 DEF EndOf
    <3>3. QED  BY <1>3, <3>1, <3>2
  <2>3. QED  BY <2>1, <2>2
<1>10. ElementsFollow'
  <2>1. Len(starts') = Len(text')
    BY <1>5, <1>6
  <2>2. \A m \in 1..(n + 1) : m = n + 1 \/ m \in 1..n
    BY <1>3
  <2>3. \A m \in 1..n : Element(text[m])
    BY <1>0 DEF TextInv, ElementsFollow
  <2>4. \A m \in 1..(n + 1) : Element(text'[m])
    BY <1>2, <1>5, <2>2, <2>3
  <2>5. ASSUME NEW m \in 1..(n + 1)
        PROVE  starts'[m] = EndOf(m - 1)' /\ starts'[m] \in Nat \ {0}
    <3>1. CASE m = n + 1
      <4>1. m - 1 = n /\ n \in 0..n
        BY <1>3, <3>1
      <4>2. QED  BY <1>3, <1>6, <1>8, <1>9, <3>1, <4>1
    <3>2. CASE m \in 1..n
      <4>1. starts[m] = EndOf(m - 1) /\ starts[m] \in Nat \ {0}
        BY <1>0, <3>2 DEF TextInv, ElementsFollow
      <4>2. m - 1 \in 0..n
        BY <1>3, <3>2
      <4>3. QED  BY <1>6, <1>9, <3>2, <4>1, <4>2
    <3>3. QED  BY <2>2, <3>1, <3>2
  <2>6. ASSUME NEW m \in 1..(n + 1), NEW k \in 1..(n + 1), m < k
        PROVE  EndOf(m)' <= starts'[k]
    <3>1. m \in 1..n /\ m \in 0..n
      BY <1>3, <2>6
    <3>2. CASE k = n + 1
      BY <1>6, <1>8, <1>9, <3>1, <3>2
    <3>3. CASE k \in 1..n
      <4>1. EndOf(m) <= starts[k]
        BY <1>0, <2>6, <3>1, <3>3 DEF TextInv, ElementsFollow
      <4>2. QED  BY <1>6, <1>9, <3>1, <3>3, <4>1
    <3>4. QED  BY <2>2, <3>2, <3>3
  <2>7. Len(m_buf') = EndOf(n + 1)'
    BY <1>4, <1>9
  <2>8. Len(text') = n + 1 /\ mode' # "done"
    BY <1>1, <1>5
  <2>9. QED  BY <2>1, <2>4, <2>5, <2>6, <2>7, <2>8 DEF ElementsFollow
<1>11. ElementsAreFound'
  <2>1. SUFFICES ASSUME NEW m \in 1..(n + 1)
                 PROVE  Found(m_buf', starts'[m], Text!BytesOf(text'[m]))
    BY <1>5 DEF ElementsAreFound
  <2>2. CASE m = n + 1
    BY <1>4, <1>5, <1>6, <2>2 DEF b
  <2>3. CASE m \in 1..n
    <3>1. Found(m_buf, starts[m], Text!BytesOf(text[m]))
      BY <1>0, <1>1, <2>3 DEF TextInv, ElementsAreFound
    <3>2. SUFFICES ASSUME NEW k \in 1..Len(Text!BytesOf(text[m]))
                   PROVE  m_buf'[starts[m] + k - 1] = Text!BytesOf(text[m])[k]
      BY <1>5, <1>6, <2>3 DEF Found
    <3>3. starts[m] + k - 1 \in 1..(l - 1)
      <4>1. /\ EndOf(m) = starts[m] + Len(Text!BytesOf(text[m])) /\ starts[m] \in Nat \ {0}
            /\ EndOf(m) <= l /\ EndOf(m) \in Nat
        BY <1>0, <1>8, <2>3, PartsAreOrdered DEF TextInv
      <4>2. Element(text[m])
        BY <1>0, <2>3 DEF TextInv, ElementsFollow
      <4>3. Len(Text!BytesOf(text[m])) \in Nat
        BY <4>2, BytesOfElement
      <4>4. ASSUME NEW x \in Nat \ {0}, NEW y \in Nat, NEW e, e = x + y, e <= l
            PROVE  \A i \in 1..y : x + i - 1 \in 1..(l - 1)
        BY <1>3, <4>4
      <4>5. QED  BY <4>1, <4>3, <4>4
    <3>4. QED  BY <1>4, <3>1, <3>3 DEF Found
  <2>4. QED  BY <1>3, <2>2, <2>3
<1>12. CharactersAreCounted'
  <2> DEFINE T == {m \in 1..n : text[m] # Text!Bad}
  <2>1. /\ Text!charCount(m_buf) = Cardinality(T) /\ Text!charCount(m_buf) \in Nat
        /\ Text!charCount(m_buf')
              = IF c = Text!Bad THEN Text!charCount(m_buf) ELSE Text!charCount(m_buf) + 1
    <3>1. Text!charCount(m_buf) = Cardinality(T)
      BY <1>0, <1>1 DEF TextInv, CharactersAreCounted
    <3>2. m_buf' = Grown(m_buf, b) /\ Element(c) /\ m_buf \in Seq(Text!Byte) /\ Len(m_buf) > 0
      BY <1>0, <1>1, <1>2, <1>3
    <3>3. /\ Text!charCount(m_buf) \in Nat
          /\ Text!charCount(Grown(m_buf, b))
                = IF c = Text!Bad THEN Text!charCount(m_buf) ELSE Text!charCount(m_buf) + 1
      BY <3>2, CountGrows, Zenon DEF b
    <3>4. QED  BY <3>1, <3>2, <3>3
  <2>2. {m \in 1..(n + 1) : text'[m] # Text!Bad}
           = IF c = Text!Bad THEN T ELSE T \cup {n + 1}
    BY <1>3, <1>5
  <2>3. Cardinality(T \cup {n + 1}) = Cardinality(T) + 1
    <3>1. T \in SUBSET (1..n) /\ n + 1 \notin T
      BY <1>3
    <3>2. QED  BY <1>3, <3>1, OneMoreIndex
  <2>4. Text!charCount(m_buf') = Cardinality({m \in 1..(n + 1) : text'[m] # Text!Bad})
    BY <2>1, <2>2, <2>3
  <2>5. QED  BY <1>5, <2>4 DEF CharactersAreCounted
<1>13. LoopIsReady' /\ PrefixIsFound' /\ CaseFollows'
  BY <1>1 DEF LoopIsReady, PrefixIsFound, CaseFollows
<1>14. QED  BY <1>7, <1>10, <1>11, <1>12, <1>13 DEF TextInv

\* What is known of a text stays true of it as long as nothing is added.
LEMMA PlacesStay ==
    ASSUME ElementsFollow, text' = text, starts' = starts,
           mode' = "done" \/ (mode # "done" /\ Len(m_buf') = Len(m_buf))
    PROVE  /\ ElementsFollow' /\ (MapsInPlace' <=> MapsInPlace)
           /\ \A n : EndOf(n)' = EndOf(n) /\ NewEnd(n)' = NewEnd(n)
<1>1. \A n : EndOf(n)' = EndOf(n) /\ NewEnd(n)' = NewEnd(n)
  BY DEF EndOf, NewEnd
<1>2. MapsInPlace' <=> MapsInPlace
  BY DEF MapsInPlace
<1>3. (mode # "done" => Len(m_buf) = EndOf(Len(text)))'
  <2>1. mode # "done" => Len(m_buf) = EndOf(Len(text))
    BY DEF ElementsFollow
  <2>2. EndOf(Len(text))' = EndOf(Len(text))
    BY <1>1
  <2>3. QED  BY <2>1, <2>2
<1>4. ElementsFollow'
  <2>1. /\ Len(starts) = Len(text) /\ \A n \in 1..Len(text) : Element(text[n])
        /\ \A n \in 1..Len(text) : starts[n] = EndOf(n - 1) /\ starts[n] \in Nat \ {0}
        /\ \A m, n \in 1..Len(text) : m < n => EndOf(m) <= starts[n]
    BY DEF ElementsFollow
  <2>2. QED  BY <1>1, <1>3, <2>1 DEF ElementsFollow
<1>5. QED  BY <1>1, <1>2, <1>4

\* A loop begins.
LEMMA LoopBegins ==
    ASSUME TextInv, Text!ToUCS2 \/ Text!ToLowerCase
    PROVE  TextInv'
<1>1. /\ mode = "typing" /\ mode' \in {"toUCS2", "inPlace"}
      /\ text' = text /\ starts' = starts /\ m_buf' = m_buf /\ from' = from
      /\ output' = output /\ rval' = rval /\ from = 1 /\ output = 1 /\ rval = <<>>
  BY DEF Text!ToUCS2, Text!ToLowerCase, TextInv, LoopIsReady, PrefixIsFound
<1>2. /\ ElementsFollow' /\ (MapsInPlace' <=> MapsInPlace)
      /\ \A n : EndOf(n)' = EndOf(n) /\ NewEnd(n)' = NewEnd(n)
  BY <1>1, PlacesStay DEF TextInv
<1>3. /\ Len(text) \in Nat /\ EndOf(0) = 1 /\ NewEnd(0) = 1
  BY PartsAreOrdered DEF TextInv
<1>4. Text!TypeOK' /\ Len(m_buf') > 0 /\ Text!PointersStayInside'
  BY <1>1 DEF TextInv, Text!TypeOK, Text!PointersStayInside
<1>5. \A n \in 1..Len(text) : Found(m_buf, starts[n], Text!BytesOf(text[n]))
  BY <1>1 DEF TextInv, ElementsAreFound
<1>6. ElementsAreFound'
  BY <1>1, <1>5 DEF ElementsAreFound
<1>7. LoopIsReady' /\ CharactersAreCounted'
  BY <1>1 DEF LoopIsReady, CharactersAreCounted
<1>8. PrefixIsFound'
  <2>1. Len(rval) = 0 /\ from' = EndOf(0)'
    BY <1>1, <1>2, <1>3
  <2>2. QED  BY <1>1, <1>3, <2>1 DEF PrefixIsFound
<1>9. CaseFollows'
  <2>1. MappedUpTo(0)'
    <3>1. from' = EndOf(0)' /\ output' = NewEnd(0)'
      BY <1>1, <1>2, <1>3
    <3>2. \A n \in (0 + 1)..Len(text') : Found(m_buf', starts'[n], Text!BytesOf(text'[n]))
      BY <1>1, <1>5
    <3>3. QED  BY <3>1, <3>2 DEF MappedUpTo
  <2>2. 0 \in 0..Len(text')
    BY <1>1, <1>3
  <2>3. QED  BY <1>1, <2>1, <2>2 DEF CaseFollows
<1>10. QED  BY <1>2, <1>4, <1>6, <1>7, <1>8, <1>9 DEF TextInv

\* StringToUCS2() takes the elements one by one, and the characters of four bytes are
\* those that do not fit.
LEMMA NextElement ==
    ASSUME TextInv, mode = "toUCS2", from < Len(m_buf)
    PROVE  /\ Len(rval) \in 0..(Len(text) - 1) /\ Len(rval) + 1 \in 1..Len(text)
           /\ from = EndOf(Len(rval)) /\ EndOf(Len(rval) + 1) <= Len(m_buf)
           /\ LET c == text[Len(rval) + 1]
                  n == Text!SequenceLength(m_buf[from])
              IN  /\ Element(c) /\ EndOf(Len(rval) + 1) = from + Len(Text!BytesOf(c))
                  /\ c = Text!Bad => Text!UTF8toUCS4(m_buf, from) = Text!Bad
                  /\ c # Text!Bad =>
                        /\ Text!UTF8toUCS4(m_buf, from) # Text!Bad
                        /\ n = Len(Text!BytesOf(c))
                        /\ n = 4 <=> ~(c < 65536)
                        /\ c < 65536 => Text!UTF8toUCS4(m_buf, from) = c /\ c \in Nat
<1>0. PICK i : i = Len(rval)
  OBVIOUS
<1>1. /\ i \in Nat /\ Len(text) \in Nat /\ i <= Len(text) /\ from = EndOf(i)
      /\ Len(m_buf) = EndOf(Len(text)) /\ from \in Nat
  BY <1>0, LenProperties
  DEF TextInv, Text!TypeOK, PrefixIsFound, ElementsFollow
<1>2. i \in 0..(Len(text) - 1) /\ i + 1 \in 1..Len(text) /\ (i + 1) - 1 = i
  <2>1. i # Len(text)
    BY <1>1
  <2>2. QED  BY <1>1, <2>1
<1> DEFINE c == text[i + 1]
           n == Text!SequenceLength(m_buf[from])
<1>3. /\ Element(c) /\ from = starts[i + 1] /\ EndOf(i + 1) = from + Len(Text!BytesOf(c))
      /\ EndOf(i + 1) <= Len(m_buf)
  BY <1>1, <1>2, PartsAreOrdered DEF TextInv
<1>4. Found(m_buf, from, Text!BytesOf(c))
  BY <1>2, <1>3 DEF TextInv, ElementsAreFound
<1>5. from \in Int
  BY <1>1
<1> HIDE DEF c
<1>6. /\ Text!Decodable(c) => Text!UTF8toUCS4(m_buf, from) = c
      /\ c # Text!Bad => Text!UTF8toUCS4(m_buf, from) # Text!Bad /\ n = Len(Text!BytesOf(c))
      /\ c = Text!Bad => Text!UTF8toUCS4(m_buf, from) = Text!Bad
  BY <1>3, <1>4, <1>5, RoundTrip
<1> HIDE DEF n
<1>7. ASSUME c # Text!Bad
      PROVE  (n = 4 <=> ~(c < 65536)) /\ (c < 65536 => Text!Decodable(c) /\ c \in Nat)
  <2>1. Character(c)
    BY <1>3, <1>7 DEF Element
  <2>2. n = CharLen(c)
    BY <1>6, <1>7, <2>1, EncodedLength DEF Text!BytesOf
  <2>3. c \in Nat /\ (CharLen(c) = 4 <=> ~(c < 65536))
    BY <2>1, SMT DEF Character, CharLen
  <2>4. c < 65536 => Text!Decodable(c)
    BY <2>3, SMT DEF Text!Decodable
  <2>5. QED  BY <2>2, <2>3, <2>4
<1>8. QED  BY <1>0, <1>1, <1>2, <1>3, <1>6, <1>7 DEF c, n

LEMMA ConvertKeepsText ==
    ASSUME TextInv, Text!ConvertCharacter
    PROVE  TextInv'
<1>0. PICK i : i = Len(rval)
  OBVIOUS
<1> DEFINE c == text[i + 1]
           Fits == c # Text!Bad /\ c < 65536
<1>1. /\ mode = "toUCS2" /\ text' = text /\ starts' = starts /\ m_buf' = m_buf
      /\ output' = output /\ from < Len(m_buf)
  BY DEF Text!ConvertCharacter
<1>2. /\ i \in 0..(Len(text) - 1) /\ i + 1 \in 1..Len(text)
      /\ from = EndOf(i) /\ EndOf(i + 1) <= Len(m_buf) /\ i \in Nat /\ Len(text) \in Nat
  BY <1>0, <1>1, NextElement, PartsAreOrdered DEF TextInv
<1>3. /\ ~Fits => mode' = "thrown" /\ from' = from /\ rval' = rval
      /\ Fits => /\ mode' = mode /\ from' = EndOf(i + 1) /\ rval' = Append(rval, c)
                 /\ c \in Nat
  <2> DEFINE n == Text!SequenceLength(m_buf[from])
             d == Text!UTF8toUCS4(m_buf, from)
  <2>1. IF n = 4 \/ d = Text!Bad
          THEN mode' = "thrown" /\ from' = from /\ rval' = rval
          ELSE from' = from + n /\ rval' = Append(rval, d) /\ mode' = mode
    BY DEF Text!ConvertCharacter
  <2>2. /\ EndOf(i + 1) = from + Len(Text!BytesOf(c))
        /\ c = Text!Bad => d = Text!Bad
        /\ c # Text!Bad => /\ d # Text!Bad /\ n = Len(Text!BytesOf(c))
                           /\ n = 4 <=> ~(c < 65536)
                           /\ c < 65536 => d = c /\ c \in Nat
    BY <1>0, <1>1, NextElement
  <2> HIDE DEF n, d, c
  <2>3. QED  BY <2>1, <2>2
<1> HIDE DEF c
<1>4. /\ ElementsFollow' /\ (MapsInPlace' <=> MapsInPlace)
      /\ \A m : EndOf(m)' = EndOf(m)
  BY <1>1, <1>3, PlacesStay DEF TextInv
<1>5. mode' \in {"toUCS2", "thrown"}
  BY <1>1, <1>3
<1>6. /\ rval \in Seq(Nat) /\ Len(rval) = i
      /\ \A m \in 1..i : rval[m] = text[m] /\ text[m] # Text!Bad /\ text[m] < 65536
  BY <1>0, <1>1 DEF TextInv, Text!TypeOK, PrefixIsFound
<1>7. Fits => /\ rval' \in Seq(Nat) /\ Len(rval') = i + 1
              /\ rval'[i + 1] = c /\ \A m \in 1..i : rval'[m] = rval[m]
  <2>1. SUFFICES ASSUME Fits
                 PROVE  /\ rval' \in Seq(Nat) /\ Len(rval') = i + 1
                        /\ rval'[i + 1] = c /\ \A m \in 1..i : rval'[m] = rval[m]
    OBVIOUS
  <2>2. rval' = Append(rval, c) /\ c \in Nat
    BY <1>3, <2>1
  <2>3. rval \in Seq(Nat) /\ Len(rval) = i
    BY <1>6
  <2> DEFINE r == Append(rval, c)
  <2>4. /\ r \in Seq(Nat) /\ Len(r) = Len(rval) + 1
        /\ \A m \in 1..Len(rval) : r[m] = rval[m]
        /\ r[Len(rval) + 1] = c
    BY <2>2, <2>3, AppendProperties
  <2> HIDE DEF r
  <2>5. rval' = r
    BY <2>2 DEF r
  <2>6. QED  BY <2>3, <2>4, <2>5
<1>8. Text!TypeOK' /\ Len(m_buf') > 0 /\ Text!PointersStayInside'
  <2>1. rval' \in Seq(Nat)
    BY <1>3, <1>6, <1>7
  <2>2. from' \in Nat \ {0} /\ from' <= Len(m_buf)
    <3>1. from \in Nat \ {0} /\ from <= Len(m_buf)
      BY <1>1 DEF TextInv, Text!TypeOK, Text!PointersStayInside
    <3>2. EndOf(i + 1) \in Nat \ {0}
      BY <1>2, PartsAreOrdered DEF TextInv
    <3>3. QED  BY <1>2, <1>3, <3>1, <3>2
  <2>3. Text!TypeOK'
    BY <1>1, <1>5, <2>1, <2>2 DEF TextInv, Text!TypeOK
  <2>4. m_buf[Len(m_buf)] = 0 /\ Len(m_buf) > 0
    BY <1>1 DEF TextInv, Text!PointersStayInside
  <2>5. QED  BY <1>1, <1>5, <2>2, <2>3, <2>4 DEF Text!PointersStayInside
<1>9. ElementsAreFound'
  <2>1. \A m \in 1..Len(text) : Found(m_buf, starts[m], Text!BytesOf(text[m]))
    BY <1>1 DEF TextInv, ElementsAreFound
  <2>2. QED  BY <1>1, <2>1 DEF ElementsAreFound
<1>10. PrefixIsFound'
  <2>1. CASE Fits
    <3>1. \A m \in 1..(i + 1) :
             rval'[m] = text[m] /\ text[m] # Text!Bad /\ text[m] < 65536
      <4>1. TAKE m \in 1..(i + 1)
      <4>2. CASE m = i + 1
        BY <1>7, <2>1, <4>2 DEF c
      <4>3. CASE m \in 1..i
        BY <1>6, <1>7, <2>1, <4>3
      <4>4. QED  BY <1>2, <4>2, <4>3
    <3>2. i + 1 <= Len(text) /\ from' = EndOf(i + 1)' /\ mode' = "toUCS2"
      BY <1>1, <1>2, <1>3, <1>4, <2>1
    <3>3. Len(rval') = i + 1
      BY <1>7, <2>1
    <3>4. from' = EndOf(Len(rval))'
      BY <1>4, <3>2, <3>3 DEF EndOf
    <3>5. QED  BY <1>1, <3>1, <3>2, <3>3, <3>4 DEF PrefixIsFound
  <2>2. CASE ~Fits
    <3>1. /\ mode' = "thrown" /\ rval' = rval /\ i < Len(text) /\ i <= Len(text)
          /\ ~(text[Len(rval) + 1] # Text!Bad /\ text[Len(rval) + 1] < 65536)
      BY <1>0, <1>2, <1>3, <2>2 DEF c
    <3>2. QED  BY <1>1, <1>6, <3>1 DEF PrefixIsFound
  <2>3. QED  BY <2>1, <2>2
<1>11. LoopIsReady' /\ CharactersAreCounted' /\ CaseFollows'
  BY <1>5 DEF LoopIsReady, CharactersAreCounted, CaseFollows
<1>12. QED  BY <1>4, <1>8, <1>9, <1>10, <1>11 DEF TextInv

LEMMA EndConversionKeepsText ==
    ASSUME TextInv, Text!EndConversion
    PROVE  TextInv'
<1>1. /\ mode = "toUCS2" /\ mode' = "converted" /\ text' = text /\ starts' = starts
      /\ m_buf' = m_buf /\ from' = from /\ output' = output /\ rval' = rval
      /\ from >= Len(m_buf)
  BY DEF Text!EndConversion
<1>2. ElementsFollow'
  BY <1>1, PlacesStay DEF TextInv
<1>3. Text!TypeOK' /\ Len(m_buf') > 0 /\ Text!PointersStayInside'
  BY <1>1 DEF TextInv, Text!TypeOK, Text!PointersStayInside
<1>4. ElementsAreFound' /\ LoopIsReady' /\ CharactersAreCounted' /\ CaseFollows'
  BY <1>1 DEF ElementsAreFound, LoopIsReady, CharactersAreCounted, CaseFollows
<1>5. PrefixIsFound'
  <2>1. /\ Len(rval) <= Len(text) /\ from = EndOf(Len(rval)) /\ Len(rval) \in Nat
        /\ \A i \in 1..Len(rval) :
              rval[i] = text[i] /\ text[i] # Text!Bad /\ text[i] < 65536
    BY <1>1, LenProperties DEF TextInv, Text!TypeOK, PrefixIsFound
  <2>2. Len(m_buf) = EndOf(Len(text)) /\ Len(text) \in Nat
    BY <1>1, PartsAreOrdered DEF TextInv, ElementsFollow
  <2>3. Len(rval) = Len(text)
    <3>1. SUFFICES ASSUME Len(rval) # Len(text)  PROVE FALSE
      OBVIOUS
    <3>2. Len(rval) \in 0..(Len(text) - 1)
      BY <2>1, <2>2, <3>1
    <3>3. EndOf(Len(rval)) < EndOf(Len(text)) /\ EndOf(Len(rval)) \in Nat
          /\ EndOf(Len(text)) \in Nat
      BY <2>2, <3>2, PartsAreOrdered DEF TextInv
    <3>4. QED  BY <1>1, <2>1, <2>2, <3>3
  <2>4. QED  BY <1>1, <2>1, <2>3 DEF PrefixIsFound
<1>6. QED  BY <1>2, <1>3, <1>4, <1>5 DEF TextInv

\* What is written over an element leaves the others as they are.
LEMMA FoundElsewhere ==
    ASSUME Text!TypeOK, ElementsFollow, mode # "done",
           NEW n \in 1..Len(text), NEW b \in Seq(Text!Byte), starts[n] + Len(b) <= EndOf(n),
           NEW m \in 1..Len(text), m # n,
           NEW x, Len(x) \in Nat, Len(x) <= Len(Text!BytesOf(text[m])),
           Found(m_buf, starts[m], x)
    PROVE  Found(Text!Overwritten(m_buf, starts[n], b), starts[m], x)
<1>1. /\ m_buf \in Seq(Text!Byte) /\ Len(m_buf) \in Nat /\ Len(b) \in Nat
      /\ Len(text) \in Nat /\ Len(m_buf) = EndOf(Len(text))
  BY LenProperties, PartsAreOrdered DEF Text!TypeOK, ElementsFollow
<1>2. /\ starts[n] \in Nat \ {0} /\ starts[m] \in Nat \ {0}
      /\ EndOf(n) \in Nat /\ EndOf(n) <= Len(m_buf) /\ starts[n] < EndOf(n)
      /\ EndOf(m) = starts[m] + Len(Text!BytesOf(text[m])) /\ EndOf(m) \in Nat
      /\ EndOf(m) <= Len(m_buf)
  <2>1. ASSUME NEW k \in 1..Len(text)
        PROVE  /\ starts[k] \in Nat \ {0} /\ EndOf(k) \in Nat /\ EndOf(k) <= Len(m_buf)
               /\ starts[k] < EndOf(k)
               /\ EndOf(k) = starts[k] + Len(Text!BytesOf(text[k]))
    <3>1. /\ starts[k] \in Nat \ {0} /\ EndOf(k) \in Nat /\ EndOf(k) <= EndOf(Len(text))
          /\ starts[k] < NewEnd(k) /\ NewEnd(k) <= EndOf(k) /\ NewEnd(k) \in Nat
          /\ EndOf(k) = starts[k] + Len(Text!BytesOf(text[k]))
      BY PartsAreOrdered
    <3>2. starts[k] < EndOf(k)
      BY <3>1
    <3>3. QED  BY <1>1, <3>1, <3>2
  <2>2. QED  BY <2>1
<1>3. EndOf(m) <= starts[n] \/ EndOf(n) <= starts[m]
  <2>1. m < n => EndOf(m) <= starts[n]
    BY DEF ElementsFollow
  <2>2. n < m => EndOf(n) <= starts[m]
    BY DEF ElementsFollow
  <2>3. m < n \/ n < m
    BY <1>1
  <2>4. QED  BY <2>1, <2>2, <2>3
<1> DEFINE t == Text!Overwritten(m_buf, starts[n], b)
<1>4. \A i \in 1..Len(m_buf) :
         i < starts[n] \/ i > starts[n] + Len(b) - 1 => t[i] = m_buf[i]
  <2>1. starts[n] \in 1..Len(m_buf) /\ starts[n] + Len(b) - 1 <= Len(m_buf)
    <3>1. ASSUME NEW sn \in Nat \ {0}, NEW lb \in Nat, NEW en \in Nat, NEW l \in Nat,
                 sn + lb <= en, en <= l, sn < en
          PROVE  sn \in 1..l /\ sn + lb - 1 <= l
      BY <3>1
    <3>2. QED  BY <1>1, <1>2, <3>1
  <2>2. QED  BY <1>1, <2>1, OverwrittenBytes
<1>5. Element(text[m])
  BY DEF ElementsFollow
<1>6. Len(Text!BytesOf(text[m])) \in Nat
  BY <1>5, BytesOfElement
<1> HIDE DEF t
<1>7. SUFFICES ASSUME NEW k \in 1..Len(x)  PROVE t[starts[m] + k - 1] = x[k]
  BY DEF Found, t
<1>8. m_buf[starts[m] + k - 1] = x[k]
  BY DEF Found
<1>9. /\ starts[m] + k - 1 \in 1..Len(m_buf)
      /\ starts[m] + k - 1 < starts[n] \/ starts[m] + k - 1 > starts[n] + Len(b) - 1
  <2>1. ASSUME NEW sm \in Nat \ {0}, NEW sn \in Nat, NEW em \in Nat, NEW en \in Nat,
               NEW lx \in Nat, NEW lm \in Nat, NEW lb \in Nat, NEW l \in Nat,
               NEW i \in 1..lx, lx <= lm, em = sm + lm, em <= l, sn + lb <= en,
               em <= sn \/ en <= sm
        PROVE  /\ sm + i - 1 \in 1..l
               /\ sm + i - 1 < sn \/ sm + i - 1 > sn + lb - 1
    BY <2>1
  <2>2. QED  BY <1>1, <1>2, <1>3, <1>6, <2>1
<1>10. QED  BY <1>4, <1>8, <1>9

\* Whatever a round of the loop meets, it stays inside the string.
LEMMA MapStaysInside ==
    ASSUME TextInv, Text!MapCharacter
    PROVE  /\ from = output /\ from \in 1..Len(m_buf) /\ m_buf \in Seq(Text!Byte)
           /\ Len(m_buf) \in Nat
           /\ Len(m_buf') = Len(m_buf) /\ Text!TypeOK' /\ Text!PointersStayInside'
<1> DEFINE n == Text!SequenceLength(m_buf[from])
           c == Text!UTF8toUCS4(m_buf, from)
           new == Text!UCS4toUTF8(Text!Lower(c))
<1>1. /\ mode = "inPlace" /\ mode' = mode /\ text' = text /\ starts' = starts
      /\ rval' = rval /\ m_buf[from] # 0 /\ from <= output
      /\ IF c = Text!Bad
           THEN from' = from + 1 /\ output' = output + 1 /\ m_buf' = m_buf
           ELSE /\ m_buf' = Text!Overwritten(m_buf, output, new)
                /\ from' = from + n /\ output' = output + Len(new)
  BY DEF Text!MapCharacter
<1>2. /\ m_buf \in Seq(Text!Byte) /\ Len(m_buf) \in Nat \ {0} /\ m_buf[Len(m_buf)] = 0
      /\ from \in Nat \ {0} /\ output \in Nat \ {0} /\ from <= Len(m_buf) /\ output <= from
  BY <1>1, LenProperties DEF TextInv, Text!TypeOK, Text!PointersStayInside
<1>3. from = output /\ from \in 1..Len(m_buf) /\ from < Len(m_buf)
  <2>1. from # Len(m_buf)
    BY <1>1, <1>2
  <2>2. QED  BY <1>1, <1>2, <2>1
<1>4. c # Text!Bad => /\ n \in 1..4 /\ from + n <= Len(m_buf)
                      /\ new \in Seq(Text!Byte) /\ Len(new) \in Nat /\ 1 <= Len(new)
                      /\ Len(new) <= n
  BY <1>1, <1>2, <1>3, Advance, MappedFits
<1> HIDE DEF n, c, new
<1>5. /\ m_buf' \in Seq(Text!Byte) /\ Len(m_buf') = Len(m_buf)
      /\ m_buf'[Len(m_buf)] = 0
  <2>1. CASE c = Text!Bad
    BY <1>1, <1>2, <2>1
  <2>2. CASE c # Text!Bad
    <3> DEFINE t == Text!Overwritten(m_buf, output, new)
    <3>1. /\ output \in 1..Len(m_buf) /\ output + Len(new) - 1 < Len(m_buf)
          /\ output + Len(new) - 1 <= Len(m_buf) /\ Len(m_buf) \in 1..Len(m_buf)
          /\ Len(m_buf) > output + Len(new) - 1
      BY <1>2, <1>3, <1>4, <2>2
    <3>2. /\ t \in Seq(Text!Byte) /\ Len(t) = Len(m_buf)
          /\ \A i \in 1..Len(m_buf) :
                i < output \/ i > output + Len(new) - 1 => t[i] = m_buf[i]
      BY <1>2, <1>4, <2>2, <3>1, OverwrittenBytes
    <3> HIDE DEF t
    <3>3. m_buf' = t
      BY <1>1, <2>2 DEF t
    <3>4. QED  BY <1>2, <3>1, <3>2, <3>3
  <2>3. QED  BY <2>1, <2>2
<1>6. /\ from' \in Nat \ {0} /\ output' \in Nat \ {0}
      /\ from' <= Len(m_buf) /\ output' <= from'
  <2>1. CASE c = Text!Bad
    BY <1>1, <1>2, <1>3, <2>1
  <2>2. CASE c # Text!Bad
    <3>1. from' = from + n /\ output' = from + Len(new)
      BY <1>1, <1>3, <2>2
    <3>2. QED  BY <1>2, <1>4, <2>2, <3>1
  <2>3. QED  BY <2>1, <2>2
<1>7. Text!TypeOK'
  BY <1>1, <1>5, <1>6 DEF TextInv, Text!TypeOK
<1>8. Text!PointersStayInside'
  BY <1>1, <1>5, <1>6 DEF Text!PointersStayInside
<1>9. QED  BY <1>2, <1>3, <1>5, <1>7, <1>8

\* In a text that is mapped as it should be, a loop that has not ended is at an element, and
\* has written as much as it has read.
LEMMA MappedElement ==
    ASSUME TextInv, mode = "inPlace", MapsInPlace, m_buf[from] # 0
    PROVE  \E n \in 0..(Len(text) - 1) :
              /\ MappedUpTo(n) /\ n + 1 \in 1..Len(text)
              /\ from = starts[n + 1] /\ output = from
              /\ Found(m_buf, from, Text!BytesOf(text[n + 1]))
<1>1. PICK n \in 0..Len(text) : MappedUpTo(n)
  BY DEF TextInv, CaseFollows
<1>2. /\ Len(text) \in Nat /\ Len(m_buf) = EndOf(Len(text)) /\ m_buf[Len(m_buf)] = 0
  BY PartsAreOrdered DEF TextInv, ElementsFollow, Text!PointersStayInside
<1>3. from = EndOf(n) /\ output = NewEnd(n)
  BY <1>1 DEF MappedUpTo
<1>4. n \in 0..(Len(text) - 1) /\ n + 1 \in 1..Len(text) /\ n + 1 \in (n + 1)..Len(text)
  <2>1. n # Len(text)
    BY <1>2, <1>3
  <2>2. QED  BY <1>2, <2>1
<1>5. NewEnd(n) = EndOf(n) /\ EndOf(n) = starts[n + 1]
  BY <1>4, NotShrunkYet, PartsAreOrdered DEF TextInv
<1>6. Found(m_buf, starts[n + 1], Text!BytesOf(text[n + 1]))
  BY <1>1, <1>4 DEF MappedUpTo
<1>7. QED  BY <1>1, <1>3, <1>4, <1>5, <1>6

\* The next element is put in lower case.
LEMMA MapsNextElement ==
    ASSUME TextInv, MapsInPlace, Text!MapCharacter,
           NEW n \in 0..(Len(text) - 1), MappedUpTo(n), n + 1 \in 1..Len(text),
           from = starts[n + 1], output = from,
           Found(m_buf, from, Text!BytesOf(text[n + 1]))
    PROVE  /\ from' = EndOf(n + 1) /\ output' = NewEnd(n + 1)
           /\ Found(m_buf', from, Text!BytesOf(Text!Lower(text[n + 1])))
           /\ \A m \in 1..Len(text) : \A x :
                 /\ m # n + 1 /\ Len(x) \in Nat /\ Len(x) <= Len(Text!BytesOf(text[m]))
                 /\ Found(m_buf, starts[m], x)
                 => Found(m_buf', starts[m], x)
<1> DEFINE c == text[n + 1]
           d == Text!UTF8toUCS4(m_buf, from)
           s == Text!SequenceLength(m_buf[from])
           new == Text!UCS4toUTF8(Text!Lower(d))
<1>1. /\ mode = "inPlace"
      /\ IF d = Text!Bad
           THEN from' = from + 1 /\ output' = output + 1 /\ m_buf' = m_buf
           ELSE /\ m_buf' = Text!Overwritten(m_buf, output, new)
                /\ from' = from + s /\ output' = output + Len(new)
  BY DEF Text!MapCharacter
<1>2. /\ from \in 1..Len(m_buf) /\ m_buf \in Seq(Text!Byte) /\ Len(m_buf) \in Nat
      /\ m_buf[from] # 0 /\ Text!TypeOK /\ ElementsFollow
  BY MapStaysInside DEF TextInv, Text!MapCharacter
<1>3. Element(c) /\ Text!Decodable(c)
  BY DEF MapsInPlace, TextInv, ElementsFollow
<1>4. /\ Text!Decodable(c) => d = c
      /\ c # Text!Bad => d # Text!Bad /\ s = Len(Text!BytesOf(c))
      /\ c = Text!Bad => d = Text!Bad
  <2>1. from \in Int
    BY <1>2
  <2>2. QED  BY <1>3, <2>1, RoundTrip
<1>5. /\ EndOf(n + 1) = from + Len(Text!BytesOf(c))
      /\ NewEnd(n + 1) = from + Len(Text!BytesOf(Text!Lower(c)))
      /\ NewEnd(n + 1) <= EndOf(n + 1)
  BY <1>2, PartsAreOrdered
<1>6. CASE c = Text!Bad
  <2>1. Text!Lower(c) = c /\ Len(Text!BytesOf(c)) = 1
    <3>1. Text!Lower(c) = c
      BY <1>6, SMT DEF Text!Lower, Text!Bad
    <3>2. Text!BytesOf(c) = <<128>>
      BY <1>6, SMT DEF Text!BytesOf
    <3>3. QED  BY <3>1, <3>2, SMT
  <2>2. d = Text!Bad
    BY <1>4, <1>6
  <2> HIDE DEF c, d, s, new
  <2>3. from' = EndOf(n + 1) /\ output' = NewEnd(n + 1) /\ m_buf' = m_buf
    BY <1>1, <1>5, <2>1, <2>2
  <2>4. QED  BY <2>1, <2>3 DEF c
<1>7. CASE c # Text!Bad
  <2>1. d = c /\ d # Text!Bad /\ s = Len(Text!BytesOf(c))
    BY <1>3, <1>4, <1>7
  <2>2. Text!BytesOf(Text!Lower(c)) = new
    <3>1. Text!Lower(c) # Text!Bad
      BY <1>3, <1>7, LowerOfElement
    <3>2. QED  BY <2>1, <3>1 DEF Text!BytesOf
  <2>3. new \in Seq(Text!Byte) /\ Len(new) \in Nat
    <3>1. Element(Text!Lower(c))
      BY <1>3, LowerOfElement
    <3>2. QED  BY <2>2, <3>1, BytesOfElement
  <2> DEFINE t == Text!Overwritten(m_buf, from, new)
  <2> HIDE DEF c, d, s, new
  <2>4. from' = EndOf(n + 1) /\ output' = NewEnd(n + 1) /\ m_buf' = t
    BY <1>1, <1>5, <2>1, <2>2
  <2>5. from + Len(new) <= EndOf(n + 1)
    BY <1>5, <2>2
  <2>6. Found(t, from, new)
    <3>1. EndOf(n + 1) <= Len(m_buf) /\ EndOf(n + 1) \in Nat
      BY <1>1, <1>2, PartsAreOrdered DEF ElementsFollow
    <3>2. from + Len(new) - 1 <= Len(m_buf)
      BY <1>2, <2>3, <2>5, <3>1
    <3>3. QED  BY <1>2, <2>3, <3>2, OverwrittenBytes
  <2>7. ASSUME NEW m \in 1..Len(text), NEW x, m # n + 1, Len(x) \in Nat,
               Len(x) <= Len(Text!BytesOf(text[m])), Found(m_buf, starts[m], x)
        PROVE  Found(t, starts[m], x)
    <3>1. mode # "done" /\ starts[n + 1] + Len(new) <= EndOf(n + 1)
      BY <1>1, <2>5
    <3>2. Found(Text!Overwritten(m_buf, starts[n + 1], new), starts[m], x)
      BY <1>2, <2>3, <2>7, <3>1, FoundElsewhere
    <3>3. QED  BY <3>2
  <2> HIDE DEF t
  <2>8. QED  BY <2>2, <2>4, <2>6, <2>7 DEF c
<1>8. QED  BY <1>6, <1>7

LEMMA MapKeepsText ==
    ASSUME TextInv, Text!MapCharacter
    PROVE  TextInv'
<1>1. /\ mode = "inPlace" /\ mode' = mode /\ text' = text /\ starts' = starts
      /\ rval' = rval /\ m_buf[from] # 0
  BY DEF Text!MapCharacter
<1>2. Len(m_buf') = Len(m_buf) /\ Text!TypeOK' /\ Text!PointersStayInside'
  BY MapStaysInside
<1>3. /\ ElementsFollow' /\ (MapsInPlace' <=> MapsInPlace)
      /\ \A n : EndOf(n)' = EndOf(n) /\ NewEnd(n)' = NewEnd(n)
  BY <1>1, <1>2, PlacesStay DEF TextInv
<1>4. ElementsAreFound' /\ LoopIsReady' /\ CharactersAreCounted'
  BY <1>1 DEF ElementsAreFound, LoopIsReady, CharactersAreCounted
<1>5. PrefixIsFound'
  BY <1>1 DEF TextInv, PrefixIsFound
<1>6. ASSUME MapsInPlace  PROVE \E n \in 0..Len(text) : MappedUpTo(n)'
  <2>1. PICK n \in 0..(Len(text) - 1) :
            /\ MappedUpTo(n) /\ n + 1 \in 1..Len(text)
            /\ from = starts[n + 1] /\ output = from
            /\ Found(m_buf, from, Text!BytesOf(text[n + 1]))
    BY <1>1, <1>6, MappedElement
  <2>2. /\ from' = EndOf(n + 1) /\ output' = NewEnd(n + 1)
        /\ Found(m_buf', from, Text!BytesOf(Text!Lower(text[n + 1])))
        /\ \A m \in 1..Len(text) : \A x :
              /\ m # n + 1 /\ Len(x) \in Nat /\ Len(x) <= Len(Text!BytesOf(text[m]))
              /\ Found(m_buf, starts[m], x)
              => Found(m_buf', starts[m], x)
    BY <1>6, <2>1, MapsNextElement
  <2>3. Len(text) \in Nat /\ n \in Nat
    BY PartsAreOrdered DEF TextInv
  <2>4. ASSUME NEW m \in 1..(n + 1)
        PROVE  Found(m_buf', starts[m], Text!BytesOf(Text!Lower(text[m])))
    <3>1. CASE m = n + 1
      BY <2>1, <2>2, <3>1
    <3>2. CASE m # n + 1
      <4>1. m \in 1..n /\ m \in 1..Len(text)
        BY <2>3, <3>2
      <4>2. Found(m_buf, starts[m], Text!BytesOf(Text!Lower(text[m])))
        BY <2>1, <4>1 DEF MappedUpTo
      <4>3. Element(text[m])
        BY <4>1 DEF TextInv, ElementsFollow
      <4>4. /\ Len(Text!BytesOf(Text!Lower(text[m]))) \in Nat
            /\ Len(Text!BytesOf(Text!Lower(text[m]))) <= Len(Text!BytesOf(text[m]))
        BY <4>3, LowerOfElement, BytesOfElement
      <4>5. QED  BY <2>2, <3>2, <4>1, <4>2, <4>4
    <3>3. QED  BY <3>1, <3>2
  <2>5. ASSUME NEW m \in ((n + 1) + 1)..Len(text)
        PROVE  Found(m_buf', starts[m], Text!BytesOf(text[m]))
    <3>1. m \in (n + 1)..Len(text) /\ m \in 1..Len(text) /\ m # n + 1
      BY <2>3
    <3>2. Found(m_buf, starts[m], Text!BytesOf(text[m]))
      BY <2>1, <3>1 DEF MappedUpTo
    <3>3. Element(text[m])
      BY <3>1 DEF TextInv, ElementsFollow
    <3>4. Len(Text!BytesOf(text[m])) \in Nat
      BY <3>3, BytesOfElement
    <3>5. QED  BY <2>2, <3>1, <3>2, <3>4
  <2>6. from' = EndOf(n + 1)' /\ output' = NewEnd(n + 1)'
    BY <1>3, <2>2
  <2>7. MappedUpTo(n + 1)'
    BY <1>1, <2>4, <2>5, <2>6 DEF MappedUpTo
  <2>8. n + 1 \in 0..Len(text)
    BY <2>1, <2>3
  <2>9. QED  BY <2>7, <2>8
<1>7. CaseFollows'
  BY <1>1, <1>3, <1>6 DEF CaseFollows
<1>8. QED  BY <1>2, <1>3, <1>4, <1>5, <1>7 DEF TextInv, Text!PointersStayInside

\* Neither is done in a text that is mapped as it should be.
LEMMA ShrunkKeepsText ==
    ASSUME TextInv, Text!PassOver \/ Text!FallBack
    PROVE  TextInv'
<1>1. /\ mode = "inPlace" /\ mode' \in {"inPlace", "transform"} /\ text' = text
      /\ starts' = starts /\ m_buf' = m_buf /\ rval' = rval /\ m_buf[from] # 0
      /\ from > output
      /\ \/ mode' = "inPlace" /\ from' = from + 1 /\ output' = output + 1
         \/ mode' = "transform" /\ from' = 1 /\ output' = output
  BY DEF Text!PassOver, Text!FallBack
<1>2. /\ ElementsFollow' /\ (MapsInPlace' <=> MapsInPlace)
  BY <1>1, PlacesStay DEF TextInv
<1>3. ~MapsInPlace
  <2>1. SUFFICES ASSUME MapsInPlace  PROVE FALSE
    OBVIOUS
  <2>2. output = from
    BY <1>1, <2>1, MappedElement
  <2>3. from \in Nat
    BY DEF TextInv, Text!TypeOK
  <2>4. QED  BY <1>1, <2>2, <2>3
<1>4. /\ m_buf \in Seq(Text!Byte) /\ Len(m_buf) \in Nat \ {0} /\ m_buf[Len(m_buf)] = 0
      /\ from \in Nat \ {0} /\ output \in Nat \ {0} /\ from <= Len(m_buf) /\ output <= from
  BY <1>1, LenProperties DEF TextInv, Text!TypeOK, Text!PointersStayInside
<1>5. /\ from' \in Nat \ {0} /\ output' \in Nat \ {0} /\ from' <= Len(m_buf)
      /\ mode' = "inPlace" => output' <= from'
  <2>1. from # Len(m_buf)
    BY <1>1, <1>4
  <2>2. QED  BY <1>1, <1>4, <2>1
<1>6. Text!TypeOK' /\ Len(m_buf') > 0 /\ Text!PointersStayInside'
  BY <1>1, <1>4, <1>5 DEF TextInv, Text!TypeOK, Text!PointersStayInside
<1>7. ElementsAreFound' /\ LoopIsReady' /\ CharactersAreCounted'
  BY <1>1 DEF ElementsAreFound, LoopIsReady, CharactersAreCounted
<1>8. PrefixIsFound'
  <2>1. rval = <<>> /\ <<>> \in Seq(Text!Byte)
    BY <1>1 DEF TextInv, PrefixIsFound
  <2>2. QED  BY <1>1, <2>1 DEF PrefixIsFound
<1>9. CaseFollows'
  BY <1>1, <1>2, <1>3 DEF CaseFollows
<1>10. QED  BY <1>2, <1>6, <1>7, <1>8, <1>9 DEF TextInv

\* The loop ends at the terminator, behind the last element.
LEMMA EndInPlaceKeepsText ==
    ASSUME TextInv, Text!EndInPlace
    PROVE  TextInv'
<1> DEFINE z == <<0>>
           t == Text!Overwritten(m_buf, output, z)
<1>1. /\ mode = "inPlace" /\ mode' = "done" /\ text' = text /\ starts' = starts
      /\ from' = from /\ output' = output /\ rval' = rval /\ m_buf[from] = 0 /\ m_buf' = t
  BY DEF Text!EndInPlace
<1>2. /\ ElementsFollow' /\ (MapsInPlace' <=> MapsInPlace)
      /\ \A n : EndOf(n)' = EndOf(n) /\ NewEnd(n)' = NewEnd(n)
  BY <1>1, PlacesStay DEF TextInv
<1>3. /\ m_buf \in Seq(Text!Byte) /\ Len(m_buf) \in Nat \ {0}
      /\ from \in Nat \ {0} /\ output \in Nat \ {0} /\ from <= Len(m_buf) /\ output <= from
      /\ Len(m_buf) = EndOf(Len(text))
  BY <1>1, LenProperties
  DEF TextInv, Text!TypeOK, Text!PointersStayInside, ElementsFollow
<1>4. /\ t \in Seq(Text!Byte) /\ Len(t) = Len(m_buf) /\ t[output] = 0
      /\ \A i \in 1..Len(m_buf) : i < output => t[i] = m_buf[i]
  <2>1. z \in Seq(Text!Byte) /\ Len(z) = 1 /\ z[1] = 0
    <3>1. 0 \in Text!Byte
      BY Bytes
    <3>2. QED  BY <3>1
  <2> HIDE DEF z
  <2>2. output \in 1..Len(m_buf) /\ output + Len(z) - 1 <= Len(m_buf)
        /\ output + 1 - 1 = output
    BY <1>3, <2>1
  <2>3. /\ t \in Seq(Text!Byte) /\ Len(t) = Len(m_buf) /\ Found(t, output, z)
        /\ \A i \in 1..Len(m_buf) :
              i < output \/ i > output + Len(z) - 1 => t[i] = m_buf[i]
    BY <1>3, <2>1, <2>2, OverwrittenBytes
  <2> HIDE DEF t
  <2>4. t[output + 1 - 1] = z[1]
    BY <2>1, <2>3 DEF Found
  <2>5. QED  BY <2>1, <2>2, <2>3, <2>4
<1> HIDE DEF t
<1>5. Text!TypeOK' /\ Len(m_buf') > 0 /\ Text!PointersStayInside'
  BY <1>1, <1>3, <1>4 DEF TextInv, Text!TypeOK, Text!PointersStayInside
<1>6. /\ ElementsAreFound' /\ LoopIsReady' /\ CharactersAreCounted' /\ PrefixIsFound'
  BY <1>1 DEF ElementsAreFound, LoopIsReady, CharactersAreCounted, PrefixIsFound
<1>7. ASSUME MapsInPlace
      PROVE  /\ \A m \in 1..Len(text) : Found(t, starts[m], Text!BytesOf(Text!Lower(text[m])))
             /\ t[NewEnd(Len(text))] = 0
  <2>1. PICK n \in 0..Len(text) : MappedUpTo(n)
    BY <1>1, <1>7 DEF TextInv, CaseFollows
  <2>2. Len(text) \in Nat /\ n \in Nat
    BY PartsAreOrdered DEF TextInv
  <2>3. n = Len(text)
    <3>1. SUFFICES ASSUME n # Len(text)  PROVE FALSE
      OBVIOUS
    <3>2. n \in 0..(Len(text) - 1) /\ n + 1 \in (n + 1)..Len(text) /\ n + 1 \in 1..Len(text)
      BY <2>2, <3>1
    <3>3. Found(m_buf, from, Text!BytesOf(text[n + 1])) /\ Element(text[n + 1])
      <4>1. from = starts[n + 1]
        BY <2>1, <3>2, PartsAreOrdered DEF TextInv, MappedUpTo
      <4>2. QED  BY <2>1, <3>2, <4>1 DEF TextInv, MappedUpTo, ElementsFollow
    <3>4. 1 \in 1..Len(Text!BytesOf(text[n + 1])) /\ Text!BytesOf(text[n + 1])[1] # 0
      BY <3>3, BytesOfElement
    <3>5. m_buf[from + 1 - 1] # 0 /\ from + 1 - 1 = from
      BY <1>3, <3>3, <3>4 DEF Found
    <3>6. QED  BY <1>1, <3>5
  <2>4. output = NewEnd(Len(text))
    BY <2>1, <2>3 DEF MappedUpTo
  <2>5. ASSUME NEW m \in 1..Len(text)
        PROVE  Found(t, starts[m], Text!BytesOf(Text!Lower(text[m])))
    <3> DEFINE x == Text!BytesOf(Text!Lower(text[m]))
    <3>1. Found(m_buf, starts[m], x)
      BY <2>1, <2>3 DEF MappedUpTo
    <3>2. /\ starts[m] \in Nat \ {0} /\ starts[m] + Len(x) <= output /\ Len(x) \in Nat
      <4>1. NewEnd(m) = starts[m] + Len(x) /\ starts[m] \in Nat \ {0}
        BY PartsAreOrdered DEF TextInv
      <4>2. NewEnd(m) <= output
        <5>1. CASE m = Len(text)
          BY <1>3, <2>4, <5>1
        <5>2. CASE m # Len(text)
          <6>1. /\ NewEnd(m) <= EndOf(m) /\ NewEnd(m) \in Nat /\ EndOf(m) \in Nat
                /\ starts[Len(text)] < NewEnd(Len(text))
                /\ starts[Len(text)] \in Nat
            <7>1. Len(text) \in 1..Len(text)
              BY <2>2
            <7>2. QED  BY <7>1, PartsAreOrdered DEF TextInv
          <6>2. EndOf(m) <= starts[Len(text)]
            BY <2>2, <5>2 DEF TextInv, ElementsFollow
          <6>3. QED  BY <1>3, <2>4, <6>1, <6>2
        <5>3. QED  BY <5>1, <5>2
      <4>3. Len(x) \in Nat
        <5>1. Element(text[m])
          BY DEF TextInv, ElementsFollow
        <5>2. QED  BY <5>1, LowerOfElement, BytesOfElement
      <4>4. QED  BY <4>1, <4>2, <4>3
    <3> HIDE DEF x
    <3>3. ASSUME NEW k \in 1..Len(x)  PROVE t[starts[m] + k - 1] = x[k]
      <4>1. starts[m] + k - 1 \in 1..Len(m_buf) /\ starts[m] + k - 1 < output
        <5>1. output <= Len(m_buf)
          BY <1>3
        <5>2. ASSUME NEW p \in Nat \ {0}, NEW l \in Nat, NEW o \in Nat, NEW e \in Nat,
                     p + l <= o, o <= e, NEW i \in 1..l
              PROVE  p + i - 1 \in 1..e /\ p + i - 1 < o
          BY <5>2
        <5>3. QED  BY <1>3, <3>2, <5>1, <5>2
      <4>2. QED  BY <1>4, <3>1, <4>1 DEF Found
    <3>4. QED  BY <3>3 DEF Found, x
  <2>6. QED  BY <1>4, <2>4, <2>5
<1>8. CaseFollows'
  <2>1. t = m_buf' /\ NewEnd(Len(text))' = NewEnd(Len(text))
    BY <1>1, <1>2
  <2>2. QED  BY <1>1, <1>2, <1>7, <2>1 DEF CaseFollows
<1>9. QED  BY <1>2, <1>5, <1>6, <1>8 DEF TextInv

\* What is no byte of a character is copied, and a character is put in lower case.
LEMMA TransformKeepsText ==
    ASSUME TextInv, Text!TransformCharacter
    PROVE  TextInv'
<1> DEFINE n == Text!SequenceLength(m_buf[from])
           c == Text!UTF8toUCS4(m_buf, from)
           new == Text!UCS4toUTF8(Text!Lower(c))
<1>1. /\ mode = "transform" /\ mode' = mode /\ text' = text /\ starts' = starts
      /\ m_buf' = m_buf /\ output' = output /\ m_buf[from] # 0
      /\ IF c = Text!Bad
           THEN rval' = Append(rval, m_buf[from]) /\ from' = from + 1
           ELSE rval' = rval \o new /\ from' = from + n
  BY DEF Text!TransformCharacter
<1>2. /\ m_buf \in Seq(Text!Byte) /\ Len(m_buf) \in Nat \ {0} /\ m_buf[Len(m_buf)] = 0
      /\ from \in Nat \ {0} /\ from <= Len(m_buf) /\ rval \in Seq(Text!Byte)
  BY <1>1, LenProperties DEF TextInv, Text!TypeOK, Text!PointersStayInside, PrefixIsFound
<1>3. from \in 1..Len(m_buf) /\ from < Len(m_buf)
  <2>1. from # Len(m_buf)
    BY <1>1, <1>2
  <2>2. QED  BY <1>2, <2>1
<1>4. c # Text!Bad => /\ n \in 1..4 /\ from + n <= Len(m_buf)
                      /\ new \in Seq(Text!Byte)
  <2>1. /\ m_buf \in Seq(Text!Byte) /\ Len(m_buf) > 0 /\ m_buf[Len(m_buf)] = 0
        /\ from \in 1..Len(m_buf) /\ m_buf[from] # 0
    BY <1>1, <1>2, <1>3
  <2>2. SUFFICES ASSUME c # Text!Bad
                 PROVE  n \in 1..4 /\ from + n <= Len(m_buf) /\ new \in Seq(Text!Byte)
    OBVIOUS
  <2>3. n \in 1..4 /\ from + n <= Len(m_buf)
    BY <2>1, <2>2, Advance
  <2>4. new \in Seq(Text!Byte)
    BY <2>1, <2>2, MappedFits
  <2>5. QED  BY <2>3, <2>4
<1> HIDE DEF n, c, new
<1>5. rval' \in Seq(Text!Byte)
  <2>1. CASE c = Text!Bad
    <3>1. m_buf[from] \in Text!Byte
      BY <1>2, <1>3, ElementOfSeq
    <3> DEFINE r == Append(rval, m_buf[from])
    <3>2. r \in Seq(Text!Byte)
      BY <1>2, <3>1, AppendProperties
    <3> HIDE DEF r
    <3>3. rval' = r
      BY <1>1, <2>1 DEF r
    <3>4. QED  BY <3>2, <3>3
  <2>2. CASE c # Text!Bad
    <3> DEFINE r == rval \o new
    <3>1. r \in Seq(Text!Byte)
      BY <1>2, <1>4, <2>2, ConcatProperties
    <3> HIDE DEF r
    <3>2. rval' = r
      BY <1>1, <2>2 DEF r
    <3>3. QED  BY <3>1, <3>2
  <2>3. QED  BY <2>1, <2>2
<1>6. rval' \in Seq(Nat)
  <2>1. Text!Byte \subseteq Nat
    BY SMT DEF Text!Byte
  <2>2. QED  BY <1>5, <2>1, SeqMonotonic
<1>7. from' \in Nat \ {0} /\ from' <= Len(m_buf)
  <2>1. CASE c = Text!Bad
    BY <1>1, <1>2, <1>3, <2>1
  <2>2. CASE c # Text!Bad
    BY <1>1, <1>2, <1>4, <2>2
  <2>3. QED  BY <2>1, <2>2
<1>8. Text!TypeOK' /\ Len(m_buf') > 0 /\ Text!PointersStayInside'
  BY <1>1, <1>2, <1>6, <1>7 DEF TextInv, Text!TypeOK, Text!PointersStayInside
<1>9. ElementsFollow' /\ (MapsInPlace' <=> MapsInPlace)
  BY <1>1, PlacesStay DEF TextInv
<1>10. /\ ElementsAreFound' /\ LoopIsReady' /\ CharactersAreCounted' /\ PrefixIsFound'
  BY <1>1, <1>5 DEF ElementsAreFound, LoopIsReady, CharactersAreCounted, PrefixIsFound
<1>11. CaseFollows'
  BY <1>1, <1>9 DEF TextInv, CaseFollows
<1>12. QED  BY <1>8, <1>9, <1>10, <1>11 DEF TextInv

LEMMA EndTransformKeepsText ==
    ASSUME TextInv, Text!EndTransform
    PROVE  TextInv'
<1>1. /\ mode = "transform" /\ mode' = "done" /\ text' = text /\ starts' = starts
      /\ m_buf' = Append(rval, 0) /\ from' = from /\ output' = output /\ rval' = rval
  BY DEF Text!EndTransform
<1>2. m_buf' \in Seq(Text!Byte) /\ Len(m_buf') > 0
  <2>1. rval \in Seq(Text!Byte) /\ 0 \in Text!Byte /\ Len(rval) \in Nat
    BY <1>1, Bytes, LenProperties DEF TextInv, PrefixIsFound
  <2>2. Append(rval, 0) \in Seq(Text!Byte) /\ Len(Append(rval, 0)) = Len(rval) + 1
    BY <2>1, AppendProperties
  <2>3. QED  BY <1>1, <2>1, <2>2
<1>3. Text!TypeOK' /\ Text!PointersStayInside'
  BY <1>1, <1>2 DEF TextInv, Text!TypeOK, Text!PointersStayInside
<1>4. ElementsFollow' /\ (MapsInPlace' <=> MapsInPlace)
  BY <1>1, PlacesStay DEF TextInv
<1>5. /\ ElementsAreFound' /\ LoopIsReady' /\ CharactersAreCounted' /\ PrefixIsFound'
  BY <1>1 DEF ElementsAreFound, LoopIsReady, CharactersAreCounted, PrefixIsFound
<1>6. CaseFollows'
  BY <1>1, <1>4 DEF TextInv, CaseFollows
<1>7. QED  BY <1>2, <1>3, <1>4, <1>5, <1>6 DEF TextInv

LEMMA TextStutters ==
    ASSUME TextInv, UNCHANGED Text!utf8Vars
    PROVE  TextInv'
<1>1. /\ text' = text /\ starts' = starts /\ mode' = mode /\ m_buf' = m_buf
      /\ from' = from /\ output' = output /\ rval' = rval
  BY DEF Text!utf8Vars
<1>2. Text!TypeOK' /\ Len(m_buf') > 0 /\ Text!PointersStayInside'
  BY <1>1 DEF TextInv, Text!TypeOK, Text!PointersStayInside
<1>3. \A n : EndOf(n)' = EndOf(n) /\ NewEnd(n)' = NewEnd(n)
  BY <1>1 DEF EndOf, NewEnd
<1>4. MapsInPlace' <=> MapsInPlace
  BY <1>1 DEF MapsInPlace
<1>5. ElementsFollow'
  BY <1>1, <1>3 DEF TextInv, ElementsFollow
<1>6. ElementsAreFound' /\ LoopIsReady' /\ CharactersAreCounted'
  BY <1>1 DEF TextInv, ElementsAreFound, LoopIsReady, CharactersAreCounted
<1>7. PrefixIsFound'
  BY <1>1, <1>3 DEF TextInv, PrefixIsFound
<1>8. \A n : MappedUpTo(n)' <=> MappedUpTo(n)
  BY <1>1, <1>3 DEF MappedUpTo
<1>9. CaseFollows'
  BY <1>1, <1>3, <1>4, <1>8 DEF TextInv, CaseFollows
<1>10. QED  BY <1>2, <1>5, <1>6, <1>7, <1>9 DEF TextInv

\* A string is empty before the first step, and every step keeps what is said of it.
LEMMA TextInvHolds ==
    ASSUME TextAssumption
    PROVE  /\ Text!Init => TextInv
           /\ TextInv /\ [Text!Next]_(Text!utf8Vars) => TextInv'
<1>1. ASSUME Text!Init  PROVE TextInv
  <2>1. /\ text = <<>> /\ starts = <<>> /\ mode = "typing" /\ m_buf = <<0>>
        /\ from = 1 /\ output = 1 /\ rval = <<>>
    BY <1>1 DEF Text!Init
  <2>2. /\ Len(text) = 0 /\ Len(starts) = 0 /\ Len(rval) = 0
        /\ Len(m_buf) = 1 /\ m_buf[1] = 0 /\ m_buf \in Seq(Text!Byte)
    <3>1. 0 \in Text!Byte
      BY Bytes
    <3>2. QED  BY <2>1, <3>1
  <2>3. /\ text \in Seq(CodePoints \cup {Text!Bad}) /\ starts \in Seq(Nat)
        /\ rval \in Seq(Nat) /\ rval \in Seq(Text!Byte)
    BY <2>1
  <2>4. Text!TypeOK /\ Len(m_buf) > 0 /\ Text!PointersStayInside
    BY <2>1, <2>2, <2>3 DEF Text!TypeOK, Text!PointersStayInside
  <2>5. EndOf(0) = 1
    BY DEF EndOf
  <2>6. ElementsFollow /\ ElementsAreFound /\ LoopIsReady
    BY <2>1, <2>2, <2>5 DEF ElementsFollow, ElementsAreFound, LoopIsReady
  <2>7. CharactersAreCounted
    <3>1. Text!charCount(m_buf) = Cardinality({})
      <4>1. Text!charCount(m_buf)
              = Cardinality({i \in 1..(Len(m_buf) - 1) : m_buf[i] < 128 \/ m_buf[i] > 191})
        BY TextSizes, Zenon DEF Text!charCount
      <4>2. {i \in 1..(Len(m_buf) - 1) : m_buf[i] < 128 \/ m_buf[i] > 191} = {}
        BY <2>2
      <4>3. QED  BY <4>1, <4>2
    <3>2. {n \in 1..Len(text) : text[n] # Text!Bad} = {}
      BY <2>2
    <3>3. QED  BY <3>1, <3>2 DEF CharactersAreCounted
  <2>8. PrefixIsFound /\ CaseFollows
    BY <2>1 DEF PrefixIsFound, CaseFollows
  <2>9. QED  BY <2>4, <2>6, <2>7, <2>8 DEF TextInv
<1>2. ASSUME TextInv, [Text!Next]_(Text!utf8Vars)  PROVE TextInv'
  <2>1. CASE \E c \in CodePoints \cup {Text!Bad} : Text!Type(c)
    BY <1>2, <2>1, TypeKeepsText
  <2>2. CASE Text!ToUCS2 \/ Text!ToLowerCase
    BY <1>2, <2>2, LoopBegins
  <2>3. CASE Text!ConvertCharacter
    BY <1>2, <2>3, ConvertKeepsText
  <2>4. CASE Text!EndConversion
    BY <1>2, <2>4, EndConversionKeepsText
  <2>5. CASE Text!MapCharacter
    BY <1>2, <2>5, MapKeepsText
  <2>6. CASE Text!PassOver \/ Text!FallBack
    BY <1>2, <2>6, ShrunkKeepsText
  <2>7. CASE Text!EndInPlace
    BY <1>2, <2>7, EndInPlaceKeepsText
  <2>8. CASE Text!TransformCharacter
    BY <1>2, <2>8, TransformKeepsText
  <2>9. CASE Text!EndTransform
    BY <1>2, <2>9, EndTransformKeepsText
  <2>10. CASE UNCHANGED Text!utf8Vars
    BY <1>2, <2>10, TextStutters
  <2>11. QED
    BY <1>2, <2>1, <2>2, <2>3, <2>4, <2>5, <2>6, <2>7, <2>8, <2>9, <2>10 DEF Text!Next
<1>3. QED  BY <1>1, <1>2

\* Two sequences with the same elements are the same.
LEMMA SameText ==
    ASSUME NEW S, NEW T, NEW s \in Seq(S), NEW t \in Seq(T), Len(s) = Len(t),
           \A i \in 1..Len(s) : s[i] = t[i]
    PROVE  s = t
BY SMT

LEMMA TextInvMeans ==
    ASSUME TextAssumption, TextInv
    PROVE  TextIsConverted /\ Text!TypeOK
<1>1. /\ text \in Seq(CodePoints \cup {Text!Bad}) /\ rval \in Seq(Nat)
      /\ Len(text) \in Nat /\ Len(rval) \in Nat
  BY LenProperties DEF TextInv, Text!TypeOK
<1>2. \A n \in 1..Len(text) : Element(text[n]) /\ starts[n] \in Nat \ {0}
  BY DEF TextInv, ElementsFollow
<1>3. Text!TextSurvives
  <2>1. ASSUME mode = "typing", NEW n \in 1..Len(text), Text!Decodable(text[n])
        PROVE  Text!UTF8toUCS4(m_buf, starts[n]) = text[n]
    <3>1. Found(m_buf, starts[n], Text!BytesOf(text[n])) /\ starts[n] \in Int
      BY <1>2, <2>1 DEF TextInv, ElementsAreFound
    <3>2. QED  BY <1>2, <2>1, <3>1, RoundTrip
  <2>2. mode = "typing" =>
           Text!charCount(m_buf) = Text!Cardinality({n \in 1..Len(text) : text[n] # Text!Bad})
    BY TextSizes DEF TextInv, CharactersAreCounted
  <2>3. ASSUME NEW c \in CodePoints, NEW k \in 1..(Len(Text!UCS4toUTF8(c)) - 1)
        PROVE  Text!UTF8toUCS4(Append(SubSeq(Text!UCS4toUTF8(c), 1, k), 0), 1) = Text!Bad
    <3>1. Element(c) /\ c # Text!Bad
      <4>1. Character(c) /\ c # 0
        BY DEF TextAssumption
      <4>2. c # Text!Bad
        BY <4>1, SMT DEF Character, Text!Bad
      <4>3. QED  BY <4>1, <4>2 DEF Element
    <3>2. Text!BytesOf(c) = Text!UCS4toUTF8(c)
      BY <3>1 DEF Text!BytesOf
    <3>3. k \in 1..(Len(Text!BytesOf(c)) - 1)
      BY <3>2
    <3>4. Text!UTF8toUCS4(Append(SubSeq(Text!BytesOf(c), 1, k), 0), 1) = Text!Bad
      BY <3>1, <3>3, CutShort
    <3>5. QED  BY <3>2, <3>4
  <2>4. QED  BY <2>1, <2>2, <2>3 DEF Text!TextSurvives
<1>4. Text!TextIsFound
  <2>1. ASSUME mode = "converted"
        PROVE  rval = text /\ \A n \in 1..Len(text) : text[n] # Text!Bad /\ text[n] < 65536
    <3>1. /\ Len(rval) = Len(text)
          /\ \A i \in 1..Len(rval) :
                rval[i] = text[i] /\ text[i] # Text!Bad /\ text[i] < 65536
      BY <2>1 DEF TextInv, PrefixIsFound
    <3>2. rval = text
      BY <1>1, <3>1, SameText
    <3>3. QED  BY <3>1, <3>2
  <2>2. ASSUME mode = "thrown"
        PROVE  LET n == Len(rval) + 1
               IN  /\ n <= Len(text) /\ ~(text[n] # Text!Bad /\ text[n] < 65536)
                   /\ rval = SubSeq(text, 1, n - 1)
    <3> DEFINE p == SubSeq(text, 1, Len(rval))
    <3>1. /\ Len(rval) < Len(text)
          /\ ~(text[Len(rval) + 1] # Text!Bad /\ text[Len(rval) + 1] < 65536)
          /\ \A i \in 1..Len(rval) : rval[i] = text[i]
      BY <2>2 DEF TextInv, PrefixIsFound
    <3>2. /\ p \in Seq(CodePoints \cup {Text!Bad}) /\ Len(p) = Len(rval)
          /\ \A i \in 1..Len(rval) : p[i] = text[i]
      <4>1. p = [i \in 1..Len(rval) |-> text[i]]
        BY <1>1, <3>1, SMT
      <4>2. \A i \in 1..Len(rval) : text[i] \in CodePoints \cup {Text!Bad}
        BY <1>1, <3>1, ElementOfSeq
      <4>3. QED  BY <1>1, <4>1, <4>2, SMT
    <3> HIDE DEF p
    <3>3. rval = p
      BY <1>1, <3>1, <3>2, SameText
    <3>4. Len(rval) + 1 <= Len(text) /\ (Len(rval) + 1) - 1 = Len(rval)
      BY <1>1, <3>1
    <3>5. QED  BY <3>1, <3>3, <3>4 DEF p
  <2>3. QED  BY <2>1, <2>2 DEF Text!TextIsFound
<1>5. Text!CaseIsMapped
  <2>1. ASSUME mode = "done", MapsInPlace
        PROVE  /\ \A n \in 1..Len(text) :
                     \A k \in 1..Len(Text!BytesOf(Text!Lower(text[n]))) :
                        m_buf[starts[n] + k - 1] = Text!BytesOf(Text!Lower(text[n]))[k]
               /\ m_buf[IF text = <<>> THEN 1
                        ELSE starts[Len(text)] + Len(Text!BytesOf(Text!Lower(text[Len(text)])))]
                     = 0
    <3>1. /\ \A n \in 1..Len(text) :
                Found(m_buf, starts[n], Text!BytesOf(Text!Lower(text[n])))
          /\ m_buf[NewEnd(Len(text))] = 0
      BY <2>1 DEF TextInv, CaseFollows
    <3>2. text = <<>> <=> Len(text) = 0
      BY <1>1
    <3>3. NewEnd(Len(text)) =
             IF text = <<>> THEN 1
             ELSE starts[Len(text)] + Len(Text!BytesOf(Text!Lower(text[Len(text)])))
      BY <3>2 DEF NewEnd
    <3>4. QED  BY <3>1, <3>3 DEF Found
  <2>2. QED  BY <2>1, Zenon DEF Text!CaseIsMapped, MapsInPlace
<1>6. QED
  BY <1>3, <1>4, <1>5 DEF TextInv, TextIsConverted, Text!TextIsConverted

\* UTF8Utils and String::toLowerCase(): in a text of any length, of any characters and stray
\* bytes (but no character that is cut short), none is lost on the way to UTF-8 and back,
\* StringToUCS2() throws at the first element that does not fit and nowhere else,
\* toLowerCase() maps them all if only the last one shrinks, and no loop leaves the string.
THEOREM TextStaysConverted ==
    ASSUME TextAssumption
    PROVE  Text!Spec => []TextIsConverted
<1>1. TextInv /\ [Text!Next]_(Text!utf8Vars) => TextInv'
  BY TextInvHolds
<1>2. TextInv => TextIsConverted
  BY TextInvMeans
<1>3. QED  BY <1>1, <1>2, TextInvHolds, PTL DEF Text!Spec
=============================================================================
