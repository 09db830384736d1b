---------------------------- MODULE HandlerProofs ----------------------------
(***************************************************************************)
(* Proofs about MessageHandler, for all lengths of headers and contents,   *)
(* every way send and recv may cut the stream, and every number of         *)
(* messages.                                                               *)
(*                                                                         *)
(* The invariant is about the stream, which is what the reader has in its  *)
(* buffer, what is on the wire and what is in the send buffer, as one      *)
(* sequence of bytes: the bytes of a part are together and in order, the   *)
(* parts follow each other as write has put them, and the stream begins    *)
(* with the part the reader expects.                                       *)
(***************************************************************************)
EXTENDS MessageHandler, SequenceTheorems, TLAPS

PartSize(b) ==
    IF b.part = "proto" THEN ProtoSize ELSE IF b.part = "json" THEN HeaderSize ELSE b.msg.size

NextPart(part) == IF part = "proto" THEN "json" ELSE IF part = "json" THEN "content" ELSE "proto"
NextId(b)      == IF b.part = "content" THEN b.msg.id + 1 ELSE b.msg.id

\* Every byte is one of a message in w, those written, the rest of its part comes
\* after it, and then the part that follows.
OfWritten(S, w) ==
    \A i \in DOMAIN S : /\ S[i].msg.id \in DOMAIN w
                        /\ S[i].msg = w[S[i].msg.id]
                        /\ S[i].at \in 1 .. PartSize(S[i])
Together(S) ==
    \A i, j \in DOMAIN S : i <= j /\ S[i].at + (j - i) <= PartSize(S[i]) =>
        S[j] = [msg |-> S[i].msg, part |-> S[i].part, at |-> S[i].at + (j - i)]
Following(S) ==
    \A i, j \in DOMAIN S : j = i + (PartSize(S[i]) - S[i].at) + 1 =>
        /\ S[j].at = 1
        /\ S[j].part = NextPart(S[i].part)
        /\ S[j].msg.id = NextId(S[i])

Stream(S, w) == S \in Seq(Byte) /\ OfWritten(S, w) /\ Together(S) /\ Following(S)

Expected(r) ==
    IF r.header # None THEN "content" ELSE IF r.headerLen # NoLength THEN "json" ELSE "proto"

\* The stream S begins where the reader r, which has returned d messages, is.
Begins(S, r, d) ==
    S # << >> => S[1].at = 1 /\ S[1].part = Expected(r) /\ S[1].msg.id = d + 1

\* While the writer has not closed, the stream ends where its last message does.
Ends(S, r, d, w) ==
    IF S = << >> THEN r.header = None /\ r.headerLen = NoLength /\ d = Len(w)
    ELSE LET last == S[Len(S)]
         IN  /\ last.msg.id = Len(w)
             /\ last.part = "content"
             /\ last.at = last.msg.size

ReaderRecord == [buffer : Seq(Byte), headerLen : {NoLength, HeaderSize},
                 header : {None} \cup Message]

\* The reader r, which has returned d of the messages w, with the bytes t still to
\* come; c says whether the writer has closed.
Good(r, t, d, w, c) ==
    /\ r \in ReaderRecord
    /\ t \in Seq(Byte)
    /\ Stream(r.buffer \o t, w)
    /\ r.header # None =>
         r.headerLen = HeaderSize /\ d + 1 \in DOMAIN w /\ r.header = w[d + 1]
    /\ Begins(r.buffer \o t, r, d)
    /\ ~c => Ends(r.buffer \o t, r, d, w)

IInv == TypeOK /\ Good(rx, wire \o sendBuffer, Len(delivered), written, closed)

-----------------------------------------------------------------------------
(* Sequences *)

LEMMA NoneIsNoMessage == \A m \in Message : m # None
BY DEF Message, None

LEMMA RestFacts ==
    ASSUME NEW X, NEW q \in Seq(X), NEW n \in 0 .. Len(q)
    PROVE  /\ Rest(q, n) \in Seq(X)
           /\ Len(Rest(q, n)) = Len(q) - n
           /\ \A i \in 1 .. Len(q) - n : Rest(q, n)[i] = q[n + i]
<1>1. Len(q) \in Nat /\ \A i \in n + 1 .. Len(q) : q[i] \in X
  BY LenProperties, ElementOfSeq
<1>2. /\ SubSeq(q, n + 1, Len(q)) \in Seq(X)
      /\ Len(SubSeq(q, n + 1, Len(q))) = IF n + 1 <= Len(q) THEN Len(q) - (n + 1) + 1 ELSE 0
      /\ \A i \in 1 .. Len(q) - (n + 1) + 1 :
           SubSeq(q, n + 1, Len(q))[i] = q[(n + 1) + i - 1]
  <2>. HIDE DEF Rest
  <2>. QED  BY <1>1, SubSeqProperties
<1>. QED
  BY <1>1, <1>2 DEF Rest

\* Cutting a sequence and putting it together again.
LEMMA CutAndJoin ==
    ASSUME NEW X, NEW q \in Seq(X), NEW k \in 0 .. Len(q)
    PROVE  /\ SubSeq(q, 1, k) \in Seq(X)
           /\ SubSeq(q, 1, k) \o Rest(q, k) = q
<1>1. Len(q) \in Nat /\ \A i \in 1 .. k : q[i] \in X
  BY LenProperties, ElementOfSeq
<1>2. /\ SubSeq(q, 1, k) \in Seq(X)
      /\ Len(SubSeq(q, 1, k)) = k
      /\ \A i \in 1 .. k : SubSeq(q, 1, k)[i] = q[i]
  <2>1. /\ SubSeq(q, 1, k) \in Seq(X)
        /\ Len(SubSeq(q, 1, k)) = IF 1 <= k THEN k - 1 + 1 ELSE 0
        /\ \A i \in 1 .. k - 1 + 1 : SubSeq(q, 1, k)[i] = q[1 + i - 1]
    BY <1>1, SubSeqProperties
  <2>. QED  BY <1>1, <2>1
<1>3. /\ Rest(q, k) \in Seq(X)
      /\ Len(Rest(q, k)) = Len(q) - k
      /\ \A i \in 1 .. Len(q) - k : Rest(q, k)[i] = q[k + i]
  BY RestFacts
<1>. DEFINE j == SubSeq(q, 1, k) \o Rest(q, k)
<1>4. /\ j \in Seq(X)
      /\ Len(j) = Len(q)
      /\ \A i \in 1 .. Len(q) :
           j[i] = IF i <= k THEN SubSeq(q, 1, k)[i] ELSE Rest(q, k)[i - k]
  BY <1>1, <1>2, <1>3, ConcatProperties
<1>5. ASSUME NEW i \in 1 .. Len(q) PROVE j[i] = q[i]
  <2>1. CASE i <= k
    BY <1>1, <1>2, <1>4, <2>1
  <2>2. CASE ~(i <= k)
    <3>1. i - k \in 1 .. Len(q) - k /\ k + (i - k) = i
      BY <1>1, <2>2
    <3>. QED  BY <1>3, <1>4, <2>2, <3>1
  <2>. QED  BY <2>1, <2>2
<1>. QED
  BY <1>1, <1>2, <1>4, <1>5, SeqEqual

\* Dropping bytes of the buffer is dropping them from the stream.
LEMMA RestOfJoin ==
    ASSUME NEW X, NEW q \in Seq(X), NEW t \in Seq(X), NEW n \in 0 .. Len(q)
    PROVE  Rest(q, n) \o t = Rest(q \o t, n)
<1>1. Len(q) \in Nat /\ Len(t) \in Nat
  BY LenProperties
<1>2. /\ q \o t \in Seq(X)
      /\ Len(q \o t) = Len(q) + Len(t)
      /\ \A i \in 1 .. Len(q) + Len(t) :
           (q \o t)[i] = IF i <= Len(q) THEN q[i] ELSE t[i - Len(q)]
  BY ConcatProperties
<1>3. /\ Rest(q, n) \in Seq(X)
      /\ Len(Rest(q, n)) = Len(q) - n
      /\ \A i \in 1 .. Len(q) - n : Rest(q, n)[i] = q[n + i]
  BY RestFacts
<1>4. n \in 0 .. Len(q \o t)
  BY <1>1, <1>2
<1>5. /\ Rest(q \o t, n) \in Seq(X)
      /\ Len(Rest(q \o t, n)) = Len(q \o t) - n
      /\ \A i \in 1 .. Len(q \o t) - n : Rest(q \o t, n)[i] = (q \o t)[n + i]
  BY <1>2, <1>4, RestFacts
<1>6. /\ Rest(q, n) \o t \in Seq(X)
      /\ Len(Rest(q, n) \o t) = Len(q) - n + Len(t)
      /\ \A i \in 1 .. Len(q) - n + Len(t) :
           (Rest(q, n) \o t)[i] =
             IF i <= Len(q) - n THEN Rest(q, n)[i] ELSE t[i - (Len(q) - n)]
  <2>1. /\ Rest(q, n) \o t \in Seq(X)
        /\ Len(Rest(q, n) \o t) = Len(Rest(q, n)) + Len(t)
        /\ \A i \in 1 .. Len(Rest(q, n)) + Len(t) :
             (Rest(q, n) \o t)[i] =
               IF i <= Len(Rest(q, n)) THEN Rest(q, n)[i] ELSE t[i - Len(Rest(q, n))]
    BY <1>3, ConcatProperties
  <2>. QED  BY <1>1, <1>3, <2>1
<1>7. ASSUME NEW i \in 1 .. Len(q) - n + Len(t)
      PROVE  (Rest(q, n) \o t)[i] = Rest(q \o t, n)[i]
  <2>1. n + i \in 1 .. Len(q) + Len(t) /\ i \in 1 .. Len(q \o t) - n
    BY <1>1, <1>2
  <2>2. CASE i <= Len(q) - n
    <3>1. n + i <= Len(q) /\ i \in 1 .. Len(q) - n
      BY <1>1, <2>2
    <3>. QED  BY <1>2, <1>3, <1>5, <1>6, <2>1, <2>2, <3>1
  <2>3. CASE ~(i <= Len(q) - n)
    <3>1. ~(n + i <= Len(q)) /\ (n + i) - Len(q) = i - (Len(q) - n)
      BY <1>1, <2>3
    <3>. QED  BY <1>2, <1>5, <1>6, <2>1, <2>3, <3>1
  <2>. QED  BY <2>2, <2>3
<1>8. Len(Rest(q, n) \o t) = Len(Rest(q \o t, n))
  BY <1>1, <1>2, <1>5, <1>6
<1>. QED
  BY <1>5, <1>6, <1>7, <1>8, SeqEqual

-----------------------------------------------------------------------------
(* The stream *)

LEMMA PartSizes ==
    ASSUME NEW b \in Byte
    PROVE  PartSize(b) \in Nat \ {0} /\ b.at \in Nat /\ b.msg \in Message /\ b.msg.id \in Nat
<1>1. b.msg \in Message /\ b.at \in Nat
  BY DEF Byte
<1>2. b.msg.size \in Nat \ {0} /\ b.msg.id \in Nat
  <2>1. b.msg.size \in Sizes /\ b.msg.id \in 1 .. MaxWrites
    BY <1>1 DEF Message
  <2>2. Sizes \subseteq Nat \ {0} /\ MaxWrites \in Nat
    BY SizesAssumption
  <2>3. b.msg.size \in Nat \ {0}
    BY <2>1, <2>2
  <2>4. b.msg.id \in Nat
    BY <2>1, <2>2
  <2>. QED  BY <2>3, <2>4
<1>. QED
  BY <1>1, <1>2, SizesAssumption DEF PartSize, ProtoSize

\* What remains of a stream when bytes have been taken from its front.
LEMMA StreamRest ==
    ASSUME NEW w, NEW S, Stream(S, w), NEW n \in 0 .. Len(S)
    PROVE  Stream(Rest(S, n), w)
<1>1. S \in Seq(Byte) /\ Len(S) \in Nat /\ DOMAIN S = 1 .. Len(S)
  BY LenProperties DEF Stream
<1>. DEFINE R == Rest(S, n)
<1>2. /\ R \in Seq(Byte)
      /\ DOMAIN R = 1 .. Len(S) - n
      /\ \A i \in 1 .. Len(S) - n : R[i] = S[n + i]
  BY <1>1, RestFacts, LenProperties
<1>. HIDE DEF R
<1>3. \A i \in DOMAIN R : n + i \in DOMAIN S /\ R[i] = S[n + i] /\ i \in Int
  BY <1>1, <1>2
<1>4. n \in Int
  BY <1>1
<1>5. OfWritten(R, w)
  BY <1>3 DEF Stream, OfWritten
<1>6. Together(R)
  <2>. SUFFICES ASSUME NEW i \in DOMAIN R, NEW j \in DOMAIN R, i <= j,
                       R[i].at + (j - i) <= PartSize(R[i])
                PROVE  R[j] = [msg |-> R[i].msg, part |-> R[i].part, at |-> R[i].at + (j - i)]
    BY DEF Together
  <2>1. n + i <= n + j /\ (n + j) - (n + i) = j - i
    BY <1>3, <1>4
  <2>. QED  BY <1>3, <2>1 DEF Stream, Together
<1>7. Following(R)
  <2>. SUFFICES ASSUME NEW i \in DOMAIN R, NEW j \in DOMAIN R,
                       j = i + (PartSize(R[i]) - R[i].at) + 1
                PROVE  /\ R[j].at = 1
                       /\ R[j].part = NextPart(R[i].part)
                       /\ R[j].msg.id = NextId(R[i])
    BY DEF Following
  <2>1. PartSize(R[i]) \in Int /\ R[i].at \in Int
    <3>1. R[i] \in Byte
      BY <1>1, <1>2
    <3>. QED  BY <3>1, PartSizes
  <2>2. n + j = (n + i) + (PartSize(R[i]) - R[i].at) + 1
    BY <1>3, <1>4, <2>1
  <2>. QED  BY <1>3, <2>2 DEF Stream, Following
<1>. QED
  BY <1>2, <1>5, <1>6, <1>7 DEF Stream, R

\* The n bytes at the front of b are one part, and the stream goes on after it.
TakesPart(b, t, w, n) ==
    LET S == b \o t
        R == Rest(b, n) \o t
    IN  /\ SubSeq(b, 1, n) = Part(S[1].msg, S[1].part, n)
        /\ Rest(b, n) \in Seq(Byte)
        /\ Stream(R, w)
        /\ R # << >> => /\ R[1].at = 1
                        /\ R[1].part = NextPart(S[1].part)
                        /\ R[1].msg.id = NextId(S[1])
                        /\ R[Len(R)] = S[Len(S)]
        /\ R = << >> => n = Len(S)

\* A whole part at the front of the stream, when all of it is in the buffer.
LEMMA FrontPart ==
    ASSUME NEW b \in Seq(Byte), NEW t \in Seq(Byte), NEW w, Stream(b \o t, w), b # << >>,
           NEW n \in 1 .. Len(b), n = PartSize((b \o t)[1]), (b \o t)[1].at = 1
    PROVE  TakesPart(b, t, w, n)
<1>. DEFINE S == b \o t
            R == Rest(b, n) \o t
<1>1. Len(b) \in Nat /\ Len(t) \in Nat
  BY LenProperties
<1>2. /\ S \in Seq(Byte)
      /\ Len(S) = Len(b) + Len(t)
      /\ \A i \in 1 .. Len(b) + Len(t) : S[i] = IF i <= Len(b) THEN b[i] ELSE t[i - Len(b)]
  BY ConcatProperties
<1>3. DOMAIN S = 1 .. Len(S) /\ Len(S) \in Nat /\ n \in 0 .. Len(S) /\ n \in 0 .. Len(b)
      /\ n \in Int /\ n >= 1 /\ 1 \in DOMAIN S
  BY <1>1, <1>2, LenProperties
<1>4. R = Rest(S, n)
  BY <1>3, RestOfJoin
<1>0. Stream(S, w) /\ n = PartSize(S[1]) /\ S[1].at = 1
  OBVIOUS
<1>5. /\ R \in Seq(Byte)
      /\ Len(R) = Len(S) - n
      /\ \A i \in 1 .. Len(S) - n : R[i] = S[n + i]
  <2>1. /\ Rest(S, n) \in Seq(Byte)
        /\ Len(Rest(S, n)) = Len(S) - n
        /\ \A i \in 1 .. Len(S) - n : Rest(S, n)[i] = S[n + i]
    BY <1>2, <1>3, RestFacts
  <2>. QED  BY <1>4, <2>1
<1>6. Stream(R, w)
  BY <1>3, <1>4, StreamRest
<1>7. Rest(b, n) \in Seq(Byte)
  BY <1>3, RestFacts
<1>8. SubSeq(b, 1, n) = Part(S[1].msg, S[1].part, n)
  <2>1. /\ SubSeq(b, 1, n) \in Seq(Byte)
        /\ Len(SubSeq(b, 1, n)) = IF 1 <= n THEN n - 1 + 1 ELSE 0
        /\ \A i \in 1 .. n - 1 + 1 : SubSeq(b, 1, n)[i] = b[1 + i - 1]
    <3>1. \A i \in 1 .. n : b[i] \in Byte
      BY <1>1, ElementOfSeq
    <3>. QED  BY <1>3, <3>1, SubSeqProperties
  <2>2. Len(SubSeq(b, 1, n)) = n /\ \A i \in 1 .. n : SubSeq(b, 1, n)[i] = b[i]
    BY <1>3, <2>1
  <2>3. \A i \in 1 .. n : b[i] = S[i] /\ i \in DOMAIN S
    BY <1>1, <1>2, <1>3
  <2>4. ASSUME NEW i \in 1 .. n
        PROVE  S[i] = [msg |-> S[1].msg, part |-> S[1].part, at |-> i]
    <3>1. 1 <= i /\ S[1].at + (i - 1) = i /\ i <= PartSize(S[1])
      BY <1>3
    <3>2. S[i] = [msg |-> S[1].msg, part |-> S[1].part, at |-> S[1].at + (i - 1)]
      BY <1>3, <2>3, <3>1 DEF Stream, Together
    <3>. QED  BY <3>1, <3>2
  <2>5. DOMAIN SubSeq(b, 1, n) = 1 .. n
    BY <2>1, <2>2, LenProperties
  <2>6. SubSeq(b, 1, n) = [i \in 1 .. n |-> SubSeq(b, 1, n)[i]]
    BY <2>1, <2>5, LenProperties
  <2>. QED  BY <2>2, <2>3, <2>4, <2>6 DEF Part
<1>9. ASSUME R # << >>
      PROVE  /\ n < Len(S)
             /\ R[1].at = 1 /\ R[1].part = NextPart(S[1].part) /\ R[1].msg.id = NextId(S[1])
             /\ R[Len(R)] = S[Len(S)]
  <2>1. Len(R) \in Nat \ {0}
    BY <1>5, <1>9, EmptySeq
  <2>. HIDE DEF R, S
  <2>2. n < Len(S) /\ R[1] = S[n + 1] /\ n + 1 \in DOMAIN S
    BY <1>3, <1>5, <2>1
  <2>3. n + 1 = 1 + (PartSize(S[1]) - S[1].at) + 1
    BY <1>0, <1>3
  <2>4. S[n + 1].at = 1 /\ S[n + 1].part = NextPart(S[1].part) /\ S[n + 1].msg.id = NextId(S[1])
    BY <1>0, <1>3, <2>2, <2>3 DEF Stream, Following
  <2>5. R[Len(R)] = S[Len(S)]
    <3>1. Len(S) - n \in 1 .. Len(S) - n /\ n + (Len(S) - n) = Len(S)
      BY <1>3, <2>2
    <3>. QED  BY <1>5, <3>1
  <2>. QED  BY <2>2, <2>4, <2>5
<1>10. R = << >> => n = Len(S)
  BY <1>3, <1>5, EmptySeq
<1>. QED
  BY <1>6, <1>7, <1>8, <1>9, <1>10 DEF TakesPart

LEMMA WholePart ==
    ASSUME NEW w, NEW S, Stream(S, w), 1 \in DOMAIN S, S[1].at = 1,
           NEW n \in DOMAIN S, n <= PartSize(S[1])
    PROVE  S[n].part = S[1].part /\ S[n].msg = S[1].msg
<1>1. n \in Nat /\ n >= 1
  BY LenProperties DEF Stream
<1>2. 1 <= n /\ S[1].at + (n - 1) = n
  BY <1>1
<1>3. S[n] = [msg |-> S[1].msg, part |-> S[1].part, at |-> S[1].at + (n - 1)]
  BY <1>2 DEF Stream, Together
<1>. QED
  BY <1>3

-----------------------------------------------------------------------------
(* The reader *)

\* A part is decoded as the message it was made from.
LEMMA Decoded ==
    ASSUME NEW m, NEW part, NEW n \in Nat \ {0}
    PROVE  Decode(Part(m, part, n), part) = m
<1>. DEFINE q == Part(m, part, n)
<1>1. q = [i \in 1 .. n |-> [msg |-> m, part |-> part, at |-> i]]
  BY DEF Part
<1>2. q \in Seq({[msg |-> m, part |-> part, at |-> i] : i \in 1 .. n})
  BY <1>1
<1>3. Len(q) = n /\ q[1].msg = m
  BY <1>1, <1>2, LenProperties
<1>. QED
  BY <1>3 DEF Decode

LEMMA ProtoheaderGood ==
    ASSUME NEW w \in Seq(Message), NEW c \in BOOLEAN, NEW r, NEW t, NEW d \in Nat, Good(r, t, d, w, c)
    PROVE  Good(ProcessProtoheader(r), t, d, w, c)
<1>1. CASE ~(r.headerLen = NoLength /\ Len(r.buffer) >= ProtoSize)
  BY <1>1 DEF ProcessProtoheader
<1>2. CASE r.headerLen = NoLength /\ Len(r.buffer) >= ProtoSize
  <2>. DEFINE b == r.buffer
              S == b \o t
              p == ProcessProtoheader(r)
  <2>1. r \in ReaderRecord /\ b \in Seq(Byte) /\ t \in Seq(Byte) /\ Stream(S, w) /\ r.header = None
    BY <1>2, SizesAssumption DEF Good, ReaderRecord, NoLength
  <2>2. /\ p = [r EXCEPT !.headerLen = HeaderSize, !.buffer = Rest(b, ProtoSize)]
        /\ p.header = None /\ p.headerLen = HeaderSize /\ p.buffer = Rest(b, ProtoSize)
    BY <1>2, <2>1 DEF ProcessProtoheader, ReaderRecord
  <2>3. Len(b) \in Nat /\ Len(t) \in Nat /\ Len(S) = Len(b) + Len(t) /\ S \in Seq(Byte)
    BY <2>1, LenProperties, ConcatProperties
  <2>4. b # << >> /\ S # << >> /\ ProtoSize \in 1 .. Len(b) /\ ProtoSize \in Nat
    BY <1>2, <2>1, <2>3, EmptySeq DEF ProtoSize
  <2>5. S[1].at = 1 /\ S[1].part = "proto" /\ S[1].msg.id = d + 1
    BY <1>2, <2>1, <2>4 DEF Good, Begins, Expected
  <2>6. PartSize(S[1]) = ProtoSize /\ NextPart(S[1].part) = "json" /\ NextId(S[1]) = d + 1
    BY <2>5 DEF PartSize, NextPart, NextId
  <2>. DEFINE R == Rest(b, ProtoSize) \o t
  <2>14. /\ SubSeq(b, 1, ProtoSize) = Part(S[1].msg, S[1].part, ProtoSize)
         /\ Rest(b, ProtoSize) \in Seq(Byte) /\ Stream(R, w)
         /\ R # << >> => /\ R[1].at = 1 /\ R[1].part = NextPart(S[1].part)
                         /\ R[1].msg.id = NextId(S[1]) /\ R[Len(R)] = S[Len(S)]
         /\ R = << >> => ProtoSize = Len(S)
    <3>1. TakesPart(b, t, w, ProtoSize)
      BY <2>1, <2>4, <2>5, <2>6, FrontPart
    <3>. QED  BY <3>1 DEF TakesPart
  <2>7. /\ Rest(b, ProtoSize) \in Seq(Byte) /\ Stream(R, w)
        /\ R # << >> => /\ R[1].at = 1 /\ R[1].part = "json" /\ R[1].msg.id = d + 1
                        /\ R[Len(R)] = S[Len(S)]
        /\ R = << >> => ProtoSize = Len(S)
    BY <2>6, <2>14
  <2>8. p \in ReaderRecord
    BY <2>1, <2>2, <2>7 DEF ReaderRecord
  <2>9. HeaderSize # NoLength
    BY SizesAssumption DEF NoLength
  <2>10. Begins(R, p, d)
    BY <2>2, <2>7, <2>9 DEF Begins, Expected
  <2>11. ASSUME ~c PROVE Ends(R, p, d, w)
    <3>1. /\ S[Len(S)].msg.id = Len(w)
          /\ S[Len(S)].part = "content"
          /\ S[Len(S)].at = S[Len(S)].msg.size
      BY <2>4, <2>11 DEF Good, Ends
    <3>2. R # << >>
      <4>. SUFFICES ASSUME R = << >> PROVE FALSE
        OBVIOUS
      <4>0. Len(S) = 2
        BY <2>7 DEF ProtoSize
      <4>1. Len(S) = 2 /\ 1 \in DOMAIN S /\ 2 \in DOMAIN S
        <5>1. DOMAIN S = 1 .. Len(S)
          BY <2>3, LenProperties
        <5>. QED  BY <4>0, <5>1
      <4>2. 2 <= PartSize(S[1])
        BY <2>6 DEF ProtoSize
      <4>3. S[2].part = S[1].part
        BY <2>1, <2>5, <4>1, <4>2, WholePart
      <4>. QED  BY <2>5, <3>1, <4>1, <4>3
    <3>. QED  BY <2>7, <3>1, <3>2 DEF Ends
  <2>. QED
    BY <2>1, <2>2, <2>7, <2>8, <2>10, <2>11 DEF Good
<1>. QED
  BY <1>1, <1>2

LEMMA JsonheaderGood ==
    ASSUME NEW w \in Seq(Message), NEW c \in BOOLEAN, NEW r, NEW t, NEW d \in Nat, Good(r, t, d, w, c)
    PROVE  Good(ProcessJsonheader(r), t, d, w, c)
<1>1. CASE ~(r.headerLen # NoLength /\ r.header = None /\ Len(r.buffer) >= r.headerLen)
  BY <1>1 DEF ProcessJsonheader
<1>2. CASE r.headerLen # NoLength /\ r.header = None /\ Len(r.buffer) >= r.headerLen
  <2>. DEFINE b == r.buffer
              S == b \o t
              p == ProcessJsonheader(r)
              n == HeaderSize
              R == Rest(b, n) \o t
              m == S[1].msg
  <2>1. r \in ReaderRecord /\ b \in Seq(Byte) /\ t \in Seq(Byte) /\ Stream(S, w) /\ r.headerLen = n
    BY <1>2 DEF Good, ReaderRecord
  <2>2. n \in Nat \ {0}
    BY SizesAssumption
  <2>3. Len(b) \in Nat /\ Len(t) \in Nat /\ Len(S) = Len(b) + Len(t) /\ S \in Seq(Byte)
    BY <2>1, LenProperties, ConcatProperties
  <2>4. b # << >> /\ S # << >> /\ n \in 1 .. Len(b)
    BY <1>2, <2>1, <2>2, <2>3, EmptySeq
  <2>5. S[1].at = 1 /\ S[1].part = "json" /\ m.id = d + 1
    BY <1>2, <2>1, <2>4 DEF Good, Begins, Expected
  <2>6. PartSize(S[1]) = n /\ NextPart(S[1].part) = "content" /\ NextId(S[1]) = d + 1
    BY <2>5 DEF PartSize, NextPart, NextId
  <2>14. /\ SubSeq(b, 1, n) = Part(S[1].msg, S[1].part, n)
         /\ Rest(b, n) \in Seq(Byte) /\ Stream(R, w)
         /\ R # << >> => /\ R[1].at = 1 /\ R[1].part = NextPart(S[1].part)
                         /\ R[1].msg.id = NextId(S[1]) /\ R[Len(R)] = S[Len(S)]
         /\ R = << >> => n = Len(S)
    <3>1. TakesPart(b, t, w, n)
      BY <2>1, <2>4, <2>5, <2>6, FrontPart
    <3>. QED  BY <3>1 DEF TakesPart
  <2>7. /\ SubSeq(b, 1, n) = Part(m, "json", n)
        /\ Rest(b, n) \in Seq(Byte) /\ Stream(R, w)
        /\ R # << >> => /\ R[1].at = 1 /\ R[1].part = "content" /\ R[1].msg.id = d + 1
                        /\ R[Len(R)] = S[Len(S)]
        /\ R = << >> => n = Len(S)
    BY <2>1, <2>4, <2>5, <2>6, <2>14
  <2>8. 1 \in DOMAIN S /\ m \in Message /\ d + 1 \in DOMAIN w /\ m = w[d + 1]
    <3>1. 1 \in DOMAIN S /\ S[1] \in Byte
      BY <2>3, <2>4, EmptySeq, LenProperties, ElementOfSeq
    <3>. QED  BY <2>1, <2>5, <3>1 DEF Stream, OfWritten, Byte
  <2>9. /\ p = [r EXCEPT !.header = m, !.buffer = Rest(b, n)]
        /\ p.header = m /\ p.headerLen = n /\ p.buffer = Rest(b, n)
    <3>0. Decode(Part(m, "json", n), "json") = m
      BY <2>2, Decoded
    <3>1. Decode(SubSeq(b, 1, r.headerLen), "json") = m
      BY <2>1, <2>7, <3>0
    <3>. QED  BY <1>2, <2>1, <3>1 DEF ProcessJsonheader, ReaderRecord
  <2>10. p \in ReaderRecord
    BY <2>1, <2>7, <2>8, <2>9 DEF ReaderRecord
  <2>11. m # None
    BY <2>8, NoneIsNoMessage
  <2>12. Begins(R, p, d)
    BY <2>7, <2>9, <2>11 DEF Begins, Expected
  <2>13. ASSUME ~c PROVE Ends(R, p, d, w)
    <3>1. /\ S[Len(S)].msg.id = Len(w)
          /\ S[Len(S)].part = "content"
          /\ S[Len(S)].at = S[Len(S)].msg.size
      BY <2>4, <2>13 DEF Good, Ends
    <3>2. R # << >>
      <4>. SUFFICES ASSUME R = << >> PROVE FALSE
        OBVIOUS
      <4>1. Len(S) = n /\ n \in DOMAIN S /\ 1 <= n
        BY <2>2, <2>3, <2>7, LenProperties
      <4>2. n <= PartSize(S[1])
        BY <2>2, <2>6
      <4>3. S[n].part = S[1].part
        BY <2>1, <2>5, <2>8, <4>1, <4>2, WholePart
      <4>. QED  BY <2>5, <3>1, <4>1, <4>3
    <3>. QED  BY <2>7, <3>1, <3>2 DEF Ends
  <2>. QED
    BY <2>1, <2>7, <2>8, <2>9, <2>10, <2>12, <2>13 DEF Good
<1>. QED
  BY <1>1, <1>2

LEMMA MessageGood ==
    ASSUME NEW w \in Seq(Message), NEW c \in BOOLEAN, NEW r, NEW t, NEW d \in Nat, Good(r, t, d, w, c), HasMessage(r)
    PROVE  /\ d + 1 \in DOMAIN w
           /\ Content(r) = w[d + 1]
           /\ Good(AfterMessage(r), t, d + 1, w, c)
<1>. DEFINE b == r.buffer
            S == b \o t
            m == r.header
            n == m.size
            p == AfterMessage(r)
            R == Rest(b, n) \o t
<1>1. /\ r \in ReaderRecord /\ b \in Seq(Byte) /\ t \in Seq(Byte) /\ Stream(S, w)
      /\ m # None /\ d + 1 \in DOMAIN w /\ m = w[d + 1]
      /\ r.headerLen = HeaderSize
  BY DEF Good, HasMessage, ReaderRecord
<1>2. m \in Message /\ n \in Nat \ {0} /\ n <= Len(b)
  <2>1. m \in Message
    BY <1>1 DEF ReaderRecord
  <2>2. n \in Sizes
    BY <2>1 DEF Message
  <2>. QED  BY <2>1, <2>2, SizesAssumption DEF HasMessage
<1>3. Len(b) \in Nat /\ Len(t) \in Nat /\ Len(S) = Len(b) + Len(t) /\ S \in Seq(Byte)
  BY <1>1, LenProperties, ConcatProperties
<1>4. b # << >> /\ S # << >> /\ n \in 1 .. Len(b)
  BY <1>1, <1>2, <1>3, EmptySeq
<1>5. S[1].at = 1 /\ S[1].part = "content" /\ S[1].msg.id = d + 1
  BY <1>1, <1>4 DEF Good, Begins, Expected
<1>6. 1 \in DOMAIN S /\ S[1].msg = m
  <2>1. 1 \in DOMAIN S
    BY <1>3, <1>4, EmptySeq, LenProperties
  <2>. QED  BY <1>1, <1>5, <2>1 DEF Stream, OfWritten
<1>7. PartSize(S[1]) = n /\ NextPart(S[1].part) = "proto" /\ NextId(S[1]) = d + 1 + 1
  BY <1>5, <1>6 DEF PartSize, NextPart, NextId
<1>14. /\ SubSeq(b, 1, n) = Part(S[1].msg, S[1].part, n)
       /\ Rest(b, n) \in Seq(Byte) /\ Stream(R, w)
       /\ R # << >> => /\ R[1].at = 1 /\ R[1].part = NextPart(S[1].part)
                       /\ R[1].msg.id = NextId(S[1]) /\ R[Len(R)] = S[Len(S)]
       /\ R = << >> => n = Len(S)
  <2>1. TakesPart(b, t, w, n)
    BY <1>1, <1>4, <1>5, <1>7, FrontPart
  <2>. QED  BY <2>1 DEF TakesPart
<1>8. /\ SubSeq(b, 1, n) = Part(m, "content", n)
      /\ Rest(b, n) \in Seq(Byte) /\ Stream(R, w)
      /\ R # << >> => /\ R[1].at = 1 /\ R[1].part = "proto" /\ R[1].msg.id = d + 1 + 1
                      /\ R[Len(R)] = S[Len(S)]
      /\ R = << >> => n = Len(S)
  BY <1>1, <1>4, <1>5, <1>7, <1>6, <1>14
<1>9. Content(r) = m
  <2>1. Decode(Part(m, "content", n), "content") = m
    BY <1>2, Decoded
  <2>. QED  BY <1>8, <2>1 DEF Content
<1>10. p.buffer = Rest(b, n) /\ p.headerLen = NoLength /\ p.header = None
  BY DEF AfterMessage
<1>11. p \in ReaderRecord
  BY <1>8 DEF AfterMessage, ReaderRecord
<1>12. Begins(R, p, d + 1)
  BY <1>8, <1>10 DEF Begins, Expected
<1>13. ASSUME ~c PROVE Ends(R, p, d + 1, w)
  <2>1. /\ S[Len(S)].msg.id = Len(w)
        /\ S[Len(S)].part = "content"
        /\ S[Len(S)].at = S[Len(S)].msg.size
    BY <1>4, <1>13 DEF Good, Ends
  <2>2. CASE R # << >>
    BY <1>8, <2>1, <2>2 DEF Ends
  <2>3. CASE R = << >>
    <3>1. Len(S) = n /\ n \in DOMAIN S /\ 1 <= n
      BY <1>2, <1>3, <1>8, <2>3, LenProperties
    <3>2. n <= PartSize(S[1])
      BY <1>2, <1>7
    <3>3. S[n].msg = m
      BY <1>1, <1>5, <1>6, <3>1, <3>2, WholePart
    <3>4. d + 1 = Len(w)
      BY <1>5, <1>6, <2>1, <3>1, <3>3
    <3>. QED  BY <1>10, <2>3, <3>4 DEF Ends
  <2>. QED  BY <2>2, <2>3
<1>. QED
  BY <1>1, <1>8, <1>9, <1>10, <1>11, <1>12, <1>13 DEF Good

-----------------------------------------------------------------------------
(* The writer *)

LEMMA PartFacts ==
    ASSUME NEW m \in Message, NEW part \in {"proto", "json", "content"}, NEW n \in Nat
    PROVE  /\ Part(m, part, n) \in Seq(Byte)
           /\ Len(Part(m, part, n)) = n
           /\ \A i \in 1 .. n : Part(m, part, n)[i] = [msg |-> m, part |-> part, at |-> i]
<1>1. \A i \in 1 .. n : [msg |-> m, part |-> part, at |-> i] \in Byte
  BY DEF Byte
<1>2. Part(m, part, n) = [i \in 1 .. n |-> [msg |-> m, part |-> part, at |-> i]]
  BY DEF Part
<1>3. Part(m, part, n) \in Seq(Byte)
  BY <1>1, <1>2
<1>4. DOMAIN Part(m, part, n) = 1 .. n
  BY <1>2
<1>5. Len(Part(m, part, n)) = n
  BY <1>3, <1>4, LenProperties
<1>. QED
  BY <1>2, <1>3, <1>5

LEMMA Joined ==
    ASSUME NEW X, NEW q \in Seq(X), NEW t \in Seq(X), NEW k, k = Len(q), NEW n, n = Len(t)
    PROVE  /\ q \o t \in Seq(X)
           /\ Len(q \o t) = k + n
           /\ \A i \in 1 .. k + n : (q \o t)[i] = IF i <= k THEN q[i] ELSE t[i - k]
BY ConcatProperties

\* What a frame is, byte by byte.
LEMMA FrameFacts ==
    ASSUME NEW m \in Message
    PROVE  /\ Frame(m) \in Seq(Byte)
           /\ Len(Frame(m)) = 2 + HeaderSize + m.size
           /\ \A i \in 1 .. 2 + HeaderSize + m.size : Frame(m)[i] =
                IF i <= 2 THEN [msg |-> m, part |-> "proto", at |-> i]
                ELSE IF i <= 2 + HeaderSize THEN [msg |-> m, part |-> "json", at |-> i - 2]
                ELSE [msg |-> m, part |-> "content", at |-> i - (2 + HeaderSize)]
<1>0. HeaderSize \in Nat \ {0} /\ m.size \in Nat \ {0} /\ ProtoSize = 2
  <2>1. m.size \in Sizes
    BY DEF Message
  <2>. QED  BY <2>1, SizesAssumption DEF ProtoSize
<1>. DEFINE K == ProtoSize
            P == Part(m, "proto", K)
            J == Part(m, "json", HeaderSize)
            C == Part(m, "content", m.size)
            Q == P \o J
<1>1. /\ P \in Seq(Byte) /\ Len(P) = K
      /\ \A i \in 1 .. K : P[i] = [msg |-> m, part |-> "proto", at |-> i]
  <2>1. K \in Nat
    BY <1>0
  <2>. HIDE DEF K
  <2>. QED  BY <2>1, PartFacts
<1>2. /\ J \in Seq(Byte) /\ Len(J) = HeaderSize
      /\ \A i \in 1 .. HeaderSize : J[i] = [msg |-> m, part |-> "json", at |-> i]
  BY <1>0, PartFacts
<1>3. /\ C \in Seq(Byte) /\ Len(C) = m.size
      /\ \A i \in 1 .. m.size : C[i] = [msg |-> m, part |-> "content", at |-> i]
  BY <1>0, PartFacts
<1>4. Frame(m) = Q \o C
  BY DEF Frame
<1>. HIDE DEF P, J, C, K
<1>5. /\ Q \in Seq(Byte)
      /\ Len(Q) = K + HeaderSize
      /\ \A i \in 1 .. K + HeaderSize : Q[i] = IF i <= K THEN P[i] ELSE J[i - K]
  BY <1>1, <1>2, Joined
<1>. HIDE DEF Q
<1>6. /\ Q \o C \in Seq(Byte)
      /\ Len(Q \o C) = (K + HeaderSize) + m.size
      /\ \A i \in 1 .. (K + HeaderSize) + m.size : (Q \o C)[i] =
           IF i <= K + HeaderSize THEN Q[i] ELSE C[i - (K + HeaderSize)]
  BY <1>3, <1>5, Joined
<1>7. K = 2
  BY <1>0 DEF K
<1>8. ASSUME NEW i \in 1 .. (K + HeaderSize) + m.size
      PROVE  (Q \o C)[i] =
               IF i <= K THEN [msg |-> m, part |-> "proto", at |-> i]
               ELSE IF i <= K + HeaderSize THEN [msg |-> m, part |-> "json", at |-> i - K]
               ELSE [msg |-> m, part |-> "content", at |-> i - (K + HeaderSize)]
  <2>1. CASE i <= K
    <3>1. i \in 1 .. K /\ i \in 1 .. K + HeaderSize /\ i <= K + HeaderSize
      BY <1>0, <1>7, <2>1
    <3>. QED  BY <1>1, <1>5, <1>6, <2>1, <3>1
  <2>2. CASE ~(i <= K) /\ i <= K + HeaderSize
    <3>1. i - K \in 1 .. HeaderSize /\ i \in 1 .. K + HeaderSize
      BY <1>0, <1>7, <2>2
    <3>2. (Q \o C)[i] = J[i - K]
      BY <1>5, <1>6, <2>2, <3>1
    <3>3. J[i - K] = [msg |-> m, part |-> "json", at |-> i - K]
      BY <1>2, <3>1
    <3>. QED  BY <2>2, <3>2, <3>3
  <2>3. CASE ~(i <= K) /\ ~(i <= K + HeaderSize)
    <3>1. i - (K + HeaderSize) \in 1 .. m.size
      BY <1>0, <1>7, <2>3
    <3>2. (Q \o C)[i] = C[i - (K + HeaderSize)]
      BY <1>6, <2>3
    <3>. QED  BY <1>3, <2>3, <3>1, <3>2
  <2>. QED  BY <2>1, <2>2, <2>3
<1>. QED
  BY <1>4, <1>6, <1>7, <1>8

\* A frame is a stream by itself.
LEMMA FrameStream ==
    ASSUME NEW m \in Message
    PROVE  /\ \A i \in DOMAIN Frame(m) : Frame(m)[i].msg = m /\ Frame(m)[i].at \in 1 .. PartSize(Frame(m)[i])
           /\ Together(Frame(m))
           /\ Following(Frame(m))
<1>. DEFINE F == Frame(m)
            H == HeaderSize
            n == m.size
<1>0. H \in Nat \ {0} /\ n \in Nat \ {0}
  <2>1. m.size \in Sizes
    BY DEF Message
  <2>. QED  BY <2>1, SizesAssumption
<1>1. /\ F \in Seq(Byte) /\ DOMAIN F = 1 .. 2 + H + n
      /\ \A i \in 1 .. 2 + H + n : F[i] =
           IF i <= 2 THEN [msg |-> m, part |-> "proto", at |-> i]
           ELSE IF i <= 2 + H THEN [msg |-> m, part |-> "json", at |-> i - 2]
           ELSE [msg |-> m, part |-> "content", at |-> i - (2 + H)]
  BY FrameFacts, LenProperties
<1>. HIDE DEF F
<1>2. \A i \in DOMAIN F :
        /\ i <= 2 => F[i].msg = m /\ F[i].part = "proto" /\ F[i].at = i /\ PartSize(F[i]) = 2
        /\ (i > 2 /\ i <= 2 + H) =>
             F[i].msg = m /\ F[i].part = "json" /\ F[i].at = i - 2 /\ PartSize(F[i]) = H
        /\ i > 2 + H =>
             F[i].msg = m /\ F[i].part = "content" /\ F[i].at = i - (2 + H) /\ PartSize(F[i]) = n
  BY <1>0, <1>1 DEF PartSize, ProtoSize
<1>3. \A i \in DOMAIN F : F[i].msg = m /\ F[i].at \in 1 .. PartSize(F[i])
  BY <1>0, <1>1, <1>2
<1>4. Together(F)
  <2>. SUFFICES ASSUME NEW i \in DOMAIN F, NEW j \in DOMAIN F, i <= j,
                       F[i].at + (j - i) <= PartSize(F[i])
                PROVE  F[j] = [msg |-> F[i].msg, part |-> F[i].part, at |-> F[i].at + (j - i)]
    BY DEF Together
  <2>1. CASE i <= 2
    <3>1. F[i] = [msg |-> m, part |-> "proto", at |-> i] /\ j <= 2
      BY <1>0, <1>1, <1>2, <2>1
    <3>. QED  BY <1>0, <1>1, <3>1
  <2>2. CASE i > 2 /\ i <= 2 + H
    <3>1. F[i] = [msg |-> m, part |-> "json", at |-> i - 2] /\ j > 2 /\ j <= 2 + H
      BY <1>0, <1>1, <1>2, <2>2
    <3>2. F[i].at + (j - i) = j - 2 /\ F[j] = [msg |-> m, part |-> "json", at |-> j - 2]
      BY <1>0, <1>1, <3>1
    <3>. QED  BY <3>1, <3>2
  <2>3. CASE i > 2 + H
    <3>1. F[i] = [msg |-> m, part |-> "content", at |-> i - (2 + H)] /\ j > 2 + H
      BY <1>0, <1>1, <1>2, <2>3
    <3>2. /\ F[i].at + (j - i) = j - (2 + H)
          /\ F[j] = [msg |-> m, part |-> "content", at |-> j - (2 + H)]
      BY <1>0, <1>1, <3>1
    <3>. QED  BY <3>1, <3>2
  <2>. QED  BY <1>0, <1>1, <2>1, <2>2, <2>3
<1>5. Following(F)
  <2>. SUFFICES ASSUME NEW i \in DOMAIN F, NEW j \in DOMAIN F,
                       j = i + (PartSize(F[i]) - F[i].at) + 1
                PROVE  /\ F[j].at = 1
                       /\ F[j].part = NextPart(F[i].part)
                       /\ F[j].msg.id = NextId(F[i])
    BY DEF Following
  <2>1. CASE i <= 2
    <3>1. j = 3 /\ F[i].part = "proto" /\ F[i].msg = m
      BY <1>0, <1>1, <1>2, <2>1
    <3>2. F[3] = [msg |-> m, part |-> "json", at |-> 1]
      BY <1>0, <1>1
    <3>. QED  BY <3>1, <3>2 DEF NextPart, NextId
  <2>2. CASE i > 2 /\ i <= 2 + H
    <3>1. j = 2 + H + 1 /\ F[i].part = "json" /\ F[i].msg = m
      BY <1>0, <1>1, <1>2, <2>2
    <3>2. F[2 + H + 1] = [msg |-> m, part |-> "content", at |-> 1]
      BY <1>0, <1>1
    <3>. QED  BY <3>1, <3>2 DEF NextPart, NextId
  <2>3. CASE i > 2 + H
    <3>1. j = 2 + H + n + 1
      BY <1>0, <1>1, <1>2, <2>3
    <3>. QED  BY <1>0, <1>1, <3>1
  <2>. QED  BY <1>0, <1>1, <2>1, <2>2, <2>3
<1>. QED
  BY <1>3, <1>4, <1>5 DEF F

\* A part that is not over is never the last of a stream that ends with a message.
LEMMA NoPartAcrossTheEnd ==
    ASSUME NEW w, NEW S, Stream(S, w), S # << >>,
           S[Len(S)].part = "content", S[Len(S)].at = S[Len(S)].msg.size,
           NEW i \in DOMAIN S
    PROVE  /\ (PartSize(S[i]) - S[i].at) + i <= Len(S)
           /\ (PartSize(S[i]) - S[i].at) + i = Len(S) =>
                S[i].part = "content" /\ S[i].msg = S[Len(S)].msg
<1>1. Len(S) \in Nat /\ DOMAIN S = 1 .. Len(S) /\ Len(S) \in DOMAIN S /\ S \in Seq(Byte)
  BY EmptySeq, LenProperties DEF Stream
<1>2. S[i] \in Byte /\ S[Len(S)] \in Byte
  BY <1>1, ElementOfSeq
<1>3. PartSize(S[i]) \in Int /\ S[i].at \in Int
  BY <1>2, PartSizes
<1>4. PartSize(S[Len(S)]) = S[Len(S)].msg.size
  BY DEF PartSize
<1>5. CASE S[i].at + (Len(S) - i) <= PartSize(S[i])
  <2>1. S[Len(S)] = [msg |-> S[i].msg, part |-> S[i].part, at |-> S[i].at + (Len(S) - i)]
    BY <1>1, <1>5 DEF Stream, Together
  <2>2. PartSize(S[Len(S)]) = PartSize(S[i])
    BY <2>1 DEF PartSize
  <2>3. S[i].at + (Len(S) - i) = PartSize(S[i])
    BY <1>4, <2>1, <2>2
  <2>. QED  BY <1>1, <1>3, <2>1, <2>3
<1>6. CASE ~(S[i].at + (Len(S) - i) <= PartSize(S[i]))
  BY <1>1, <1>3, <1>6
<1>. QED
  BY <1>5, <1>6

LEMMA Association ==
    \A q, t, u \in Seq(Byte) : (q \o t) \o u = q \o (t \o u) /\ q \o t \in Seq(Byte)
BY ConcatAssociative, ConcatProperties

Associative(q, t, u) == (q \o t) \o u = q \o (t \o u)

LEMMA Associates ==
    ASSUME NEW q \in Seq(Byte), NEW t \in Seq(Byte), NEW u \in Seq(Byte)
    PROVE  Associative(q, t, u)
BY Association DEF Associative

\* write adds a frame to a stream that ends with the last message.
LEMMA StreamAppend ==
    ASSUME NEW w \in Seq(Message), NEW m \in Message, m.id = Len(w) + 1, NEW S, Stream(S, w),
           S # << >> => /\ S[Len(S)].msg.id = Len(w)
                        /\ S[Len(S)].part = "content"
                        /\ S[Len(S)].at = S[Len(S)].msg.size
    PROVE  Stream(S \o Frame(m), Append(w, m))
<1>. DEFINE F == Frame(m)
            T == S \o F
            L == Len(S)
            M == Len(F)
            x == Append(w, m)
<1>1. F \in Seq(Byte) /\ M \in Nat /\ DOMAIN F = 1 .. M
  BY FrameFacts, LenProperties
<1>2. S \in Seq(Byte) /\ L \in Nat /\ DOMAIN S = 1 .. L
  BY LenProperties DEF Stream
<1>3. F[1].msg = m /\ F[1].part = "proto" /\ F[1].at = 1
  <2>1. m.size \in Nat \ {0} /\ HeaderSize \in Nat
    <3>1. m.size \in Sizes
      BY DEF Message
    <3>. QED  BY <3>1, SizesAssumption
  <2>2. 1 \in 1 .. 2 + HeaderSize + m.size
    BY <2>1
  <2>3. F[1] = [msg |-> m, part |-> "proto", at |-> 1]
    <3>1. F[1] = IF 1 <= 2 THEN [msg |-> m, part |-> "proto", at |-> 1]
                 ELSE IF 1 <= 2 + HeaderSize THEN [msg |-> m, part |-> "json", at |-> 1 - 2]
                 ELSE [msg |-> m, part |-> "content", at |-> 1 - (2 + HeaderSize)]
      BY <2>2, FrameFacts
    <3>. QED  BY <3>1
  <2>. QED  BY <2>3
<1>4. /\ \A i \in DOMAIN F : F[i].msg = m /\ F[i].at \in 1 .. PartSize(F[i])
      /\ Together(F) /\ Following(F)
  BY FrameStream
<1>. HIDE DEF F
<1>5. /\ T \in Seq(Byte) /\ DOMAIN T = 1 .. L + M
      /\ \A i \in 1 .. L + M : T[i] = IF i <= L THEN S[i] ELSE F[i - L]
  BY <1>1, <1>2, ConcatProperties, LenProperties
<1>6. /\ \A i \in DOMAIN w : i \in DOMAIN x /\ x[i] = w[i]
      /\ m.id \in DOMAIN x /\ x[m.id] = m
  BY AppendProperties, LenProperties
<1>. HIDE DEF T, L, M, x
<1>7. \A i \in DOMAIN T : \/ i \in DOMAIN S /\ T[i] = S[i]
                          \/ i - L \in DOMAIN F /\ T[i] = F[i - L] /\ i \in Int /\ i > L
  <2>. SUFFICES ASSUME NEW i \in 1 .. L + M
                PROVE  \/ i \in DOMAIN S /\ T[i] = S[i]
                       \/ i - L \in DOMAIN F /\ T[i] = F[i - L] /\ i \in Int /\ i > L
    BY <1>5
  <2>1. L \in Nat /\ M \in Nat /\ DOMAIN S = 1 .. L /\ DOMAIN F = 1 .. M
    BY <1>1, <1>2 DEF L, M
  <2>2. CASE i <= L
    BY <1>5, <2>1, <2>2
  <2>3. CASE ~(i <= L)
    <3>1. i - L \in 1 .. M /\ i \in Int /\ i > L
      BY <2>1, <2>3
    <3>. QED  BY <1>5, <2>1, <2>3, <3>1
  <2>. QED  BY <2>2, <2>3
<1>8. OfWritten(T, x)
  <2>. SUFFICES ASSUME NEW i \in DOMAIN T
                PROVE  /\ T[i].msg.id \in DOMAIN x /\ T[i].msg = x[T[i].msg.id]
                       /\ T[i].at \in 1 .. PartSize(T[i])
    BY DEF OfWritten
  <2>1. CASE i \in DOMAIN S /\ T[i] = S[i]
    BY <1>6, <2>1 DEF Stream, OfWritten
  <2>2. CASE i - L \in DOMAIN F /\ T[i] = F[i - L]
    BY <1>4, <1>6, <2>2
  <2>. QED  BY <1>7, <2>1, <2>2
<1>9. ASSUME NEW i \in DOMAIN S
      PROVE  /\ (PartSize(S[i]) - S[i].at) + i <= L
             /\ (PartSize(S[i]) - S[i].at) + i = L =>
                  S[i].part = "content" /\ S[i].msg.id = Len(w)
  <2>1. S # << >>
    BY <1>2
  <2>. QED  BY <2>1, NoPartAcrossTheEnd DEF L
<1>10. \A i \in DOMAIN S : PartSize(S[i]) \in Int /\ S[i].at \in Int /\ i \in Int
  <2>1. \A i \in DOMAIN S : S[i] \in Byte /\ i \in Int
    BY <1>2, ElementOfSeq
  <2>. QED  BY <2>1, PartSizes
<1>11. \A i \in DOMAIN F : PartSize(F[i]) \in Int /\ F[i].at \in Int
  <2>1. \A i \in DOMAIN F : F[i] \in Byte
    BY <1>1, ElementOfSeq DEF M
  <2>. QED  BY <2>1, PartSizes
<1>12. Together(T)
  <2>. SUFFICES ASSUME NEW i \in DOMAIN T, NEW j \in DOMAIN T, i <= j,
                       T[i].at + (j - i) <= PartSize(T[i])
                PROVE  T[j] = [msg |-> T[i].msg, part |-> T[i].part, at |-> T[i].at + (j - i)]
    BY DEF Together
  <2>1. i \in Int /\ j \in Int /\ L \in Int
    BY <1>1, <1>2, <1>5
  <2>2. CASE i \in DOMAIN S /\ T[i] = S[i]
    <3>1. j <= L
      BY <1>9, <1>10, <2>1, <2>2
    <3>2. j \in DOMAIN S /\ T[j] = S[j]
      BY <1>2, <1>5, <3>1
    <3>. QED  BY <2>2, <3>2 DEF Stream, Together
  <2>3. CASE i - L \in DOMAIN F /\ T[i] = F[i - L] /\ i > L
    <3>1. j - L \in DOMAIN F /\ T[j] = F[j - L]
      BY <1>2, <1>7, <2>1, <2>3
    <3>2. i - L <= j - L /\ (j - L) - (i - L) = j - i
      BY <2>1
    <3>. QED  BY <1>4, <2>3, <3>1, <3>2 DEF Together
  <2>. QED  BY <1>7, <2>2, <2>3
<1>13. Following(T)
  <2>. SUFFICES ASSUME NEW i \in DOMAIN T, NEW j \in DOMAIN T,
                       j = i + (PartSize(T[i]) - T[i].at) + 1
                PROVE  /\ T[j].at = 1
                       /\ T[j].part = NextPart(T[i].part)
                       /\ T[j].msg.id = NextId(T[i])
    BY DEF Following
  <2>1. i \in Int /\ j \in Int /\ L \in Int
    BY <1>1, <1>2, <1>5
  <2>2. CASE i \in DOMAIN S /\ T[i] = S[i]
    <3>1. CASE j <= L
      <4>1. j \in DOMAIN S /\ T[j] = S[j]
        BY <1>2, <1>5, <3>1
      <4>. QED  BY <2>2, <4>1 DEF Stream, Following
    <3>2. CASE ~(j <= L)
      <4>1. (PartSize(S[i]) - S[i].at) + i = L /\ j - L = 1
        <5>1. j = i + (PartSize(S[i]) - S[i].at) + 1
          BY <2>2
        <5>2. PartSize(S[i]) \in Int /\ S[i].at \in Int
          BY <1>10, <2>2
        <5>3. (PartSize(S[i]) - S[i].at) + i <= L
          BY <1>9, <2>2
        <5>. DEFINE e == PartSize(S[i]) - S[i].at
        <5>4. e \in Int /\ j = i + e + 1 /\ e + i <= L
          BY <5>1, <5>2, <5>3
        <5>. HIDE DEF e
        <5>5. e + i = L /\ j - L = 1
          BY <2>1, <3>2, <5>4
        <5>. QED  BY <5>5 DEF e
      <4>2. S[i].part = "content" /\ S[i].msg.id = Len(w)
        BY <1>9, <2>2, <4>1
      <4>3. T[j] = F[1]
        BY <1>5, <2>1, <3>2, <4>1
      <4>. QED  BY <1>3, <2>2, <4>2, <4>3 DEF NextPart, NextId
    <3>. QED  BY <3>1, <3>2
  <2>3. CASE i - L \in DOMAIN F /\ T[i] = F[i - L] /\ i > L
    <3>0. PartSize(F[i - L]) \in Int /\ F[i - L].at \in 1 .. PartSize(F[i - L])
      BY <1>4, <1>11, <2>3
    <3>1. j - L \in DOMAIN F /\ T[j] = F[j - L]
      <4>1. j > L
        BY <2>1, <2>3, <3>0
      <4>. QED  BY <1>2, <1>7, <2>1, <4>1
    <3>2. j - L = (i - L) + (PartSize(F[i - L]) - F[i - L].at) + 1
      BY <2>1, <2>3, <3>0
    <3>. QED  BY <1>4, <2>3, <3>1, <3>2 DEF Following
  <2>. QED  BY <1>7, <2>2, <2>3
<1>. QED
  BY <1>5, <1>8, <1>12, <1>13 DEF Stream, T, F, x

LEMMA WrittenGood ==
    ASSUME NEW w \in Seq(Message), NEW m \in Message, m.id = Len(w) + 1,
           NEW r, NEW t, NEW u, NEW d \in Nat, Good(r, t, d, w, FALSE), u = t \o Frame(m)
    PROVE  Good(r, u, d, Append(w, m), FALSE)
<1>. DEFINE S == r.buffer \o t
            F == Frame(m)
            T == r.buffer \o u
            x == Append(w, m)
<1>1. r \in ReaderRecord /\ r.buffer \in Seq(Byte) /\ t \in Seq(Byte) /\ S \in Seq(Byte)
  BY ConcatProperties DEF Good, ReaderRecord
<1>2. m.size \in Nat \ {0} /\ HeaderSize \in Nat \ {0}
  <2>1. m.size \in Sizes
    BY DEF Message
  <2>. QED  BY <2>1, SizesAssumption
<1>. DEFINE M == 2 + HeaderSize + m.size
<1>3. /\ F \in Seq(Byte) /\ Len(F) = M /\ M \in Nat /\ M > 2
      /\ F[1] = [msg |-> m, part |-> "proto", at |-> 1]
      /\ F[M] = [msg |-> m, part |-> "content", at |-> m.size]
  <2>1. 1 \in 1 .. M /\ M \in 1 .. M /\ M > 2 + HeaderSize /\ M - (2 + HeaderSize) = m.size /\ M > 2
    BY <1>2
  <2>2. F[1] = IF 1 <= 2 THEN [msg |-> m, part |-> "proto", at |-> 1]
               ELSE IF 1 <= 2 + HeaderSize THEN [msg |-> m, part |-> "json", at |-> 1 - 2]
               ELSE [msg |-> m, part |-> "content", at |-> 1 - (2 + HeaderSize)]
    BY <2>1, FrameFacts
  <2>3. F[M] = IF M <= 2 THEN [msg |-> m, part |-> "proto", at |-> M]
               ELSE IF M <= 2 + HeaderSize THEN [msg |-> m, part |-> "json", at |-> M - 2]
               ELSE [msg |-> m, part |-> "content", at |-> M - (2 + HeaderSize)]
    BY <2>1, FrameFacts
  <2>4. F \in Seq(Byte) /\ Len(F) = M
    BY FrameFacts
  <2>5. F[1] = [msg |-> m, part |-> "proto", at |-> 1]
    BY <2>2
  <2>6. ~(M <= 2) /\ ~(M <= 2 + HeaderSize) /\ M \in Nat
    BY <1>2
  <2>7. F[M] = [msg |-> m, part |-> "content", at |-> M - (2 + HeaderSize)]
    BY <2>3, <2>6
  <2>. QED  BY <2>1, <2>4, <2>5, <2>6, <2>7
<1>. HIDE DEF F, M
<1>4. u \in Seq(Byte) /\ T = S \o F
  <2>1. u = t \o F
    BY DEF F
  <2>2. r.buffer \in Seq(Byte) /\ t \in Seq(Byte) /\ F \in Seq(Byte)
    BY <1>1, <1>3
  <2>3. r.buffer \o (t \o F) = (r.buffer \o t) \o F /\ t \o F \in Seq(Byte)
    BY <2>2, Association, Zenon
  <2>. QED  BY <2>1, <2>3
<1>5. Len(S) \in Nat /\ DOMAIN S = 1 .. Len(S)
  BY <1>1, LenProperties
<1>. HIDE DEF T, S
<1>6. /\ T \in Seq(Byte) /\ Len(T) = Len(S) + M
      /\ \A i \in 1 .. Len(S) + M : T[i] = IF i <= Len(S) THEN S[i] ELSE F[i - Len(S)]
  <2>. DEFINE L == Len(S)
  <2>1. L = Len(S) /\ M = Len(F) /\ S \in Seq(Byte) /\ F \in Seq(Byte)
    BY <1>1, <1>3
  <2>. HIDE DEF L
  <2>2. /\ S \o F \in Seq(Byte) /\ Len(S \o F) = L + M
        /\ \A i \in 1 .. L + M : (S \o F)[i] = IF i <= L THEN S[i] ELSE F[i - L]
    BY <2>1, Joined
  <2>. QED  BY <1>4, <2>1, <2>2
<1>7. /\ Stream(S, w) /\ Begins(S, r, d) /\ Ends(S, r, d, w)
      /\ r.header # None =>
           r.headerLen = HeaderSize /\ d + 1 \in DOMAIN w /\ r.header = w[d + 1]
  BY DEF Good, S
<1>8. Stream(T, x)
  <2>1. S # << >> => /\ S[Len(S)].msg.id = Len(w)
                     /\ S[Len(S)].part = "content"
                     /\ S[Len(S)].at = S[Len(S)].msg.size
    BY <1>7 DEF Ends
  <2>2. Stream(S \o Frame(m), Append(w, m))
    BY <1>7, <2>1, StreamAppend
  <2>. QED  BY <1>4, <2>2 DEF F
<1>9. Len(x) = Len(w) + 1 /\ Len(w) \in Nat /\ \A i \in DOMAIN w : i \in DOMAIN x /\ x[i] = w[i]
  BY AppendProperties, LenProperties
<1>10. Begins(T, r, d)
  <2>1. CASE S = << >>
    <3>1. Len(S) = 0 /\ 1 \in 1 .. Len(S) + M /\ ~(1 <= Len(S)) /\ 1 - Len(S) = 1
      BY <1>3, <2>1, EmptySeq
    <3>2. T[1] = F[1]
      BY <1>6, <3>1
    <3>3. r.header = None /\ r.headerLen = NoLength /\ d = Len(w)
      BY <1>7, <2>1 DEF Ends
    <3>. QED  BY <1>3, <3>2, <3>3 DEF Begins, Expected
  <2>2. CASE S # << >>
    <3>1. 1 \in 1 .. Len(S) + M /\ 1 <= Len(S)
      BY <1>1, <1>3, <2>2, EmptySeq
    <3>2. T[1] = S[1]
      BY <1>6, <3>1
    <3>. QED  BY <1>7, <2>2, <3>2 DEF Begins
  <2>. QED  BY <2>1, <2>2
<1>11. Ends(T, r, d, x)
  <2>1. /\ Len(S) + M \in 1 .. Len(S) + M /\ ~(Len(S) + M <= Len(S))
        /\ (Len(S) + M) - Len(S) = M
    BY <1>3, <1>5
  <2>2. T[Len(T)] = F[M]
    <3>1. T[Len(S) + M] = F[(Len(S) + M) - Len(S)]
      BY <1>6, <2>1
    <3>. QED  BY <1>6, <2>1, <3>1
  <2>3. T # << >>
    BY <1>3, <1>5, <1>6, EmptySeq
  <2>. QED  BY <1>3, <1>9, <2>2, <2>3 DEF Ends
<1>12. r.header # None => r.headerLen = HeaderSize /\ d + 1 \in DOMAIN x /\ r.header = x[d + 1]
  BY <1>7, <1>9
<1>. QED
  BY <1>1, <1>4, <1>8, <1>10, <1>11, <1>12 DEF Good, T, x

\* What is lost when the writer closes is the end of the stream.
LEMMA ClosedGood ==
    ASSUME NEW w, NEW r, NEW d, NEW c, NEW f \in Seq(Byte), NEW g \in Seq(Byte),
           Good(r, f \o g, d, w, c)
    PROVE  Good(r, f, d, w, TRUE)
<1>. DEFINE S == r.buffer \o (f \o g)
            Q == r.buffer \o f
<1>1. r \in ReaderRecord /\ r.buffer \in Seq(Byte) /\ Stream(S, w) /\ Begins(S, r, d)
  BY DEF Good, ReaderRecord
<1>2. Q \in Seq(Byte) /\ S = Q \o g
  BY <1>1, Association
<1>3. Len(Q) \in Nat /\ Len(g) \in Nat /\ DOMAIN Q = 1 .. Len(Q)
  BY <1>2, LenProperties
<1>. HIDE DEF S, Q
<1>4. DOMAIN S = 1 .. Len(Q) + Len(g) /\ \A i \in 1 .. Len(Q) : S[i] = Q[i]
  <2>1. /\ S \in Seq(Byte) /\ Len(S) = Len(Q) + Len(g)
        /\ \A i \in 1 .. Len(Q) + Len(g) : S[i] = IF i <= Len(Q) THEN Q[i] ELSE g[i - Len(Q)]
    BY <1>2, ConcatProperties
  <2>. QED  BY <1>3, <2>1, LenProperties
<1>5. \A i \in DOMAIN Q : i \in DOMAIN S /\ Q[i] = S[i]
  BY <1>3, <1>4
<1>6. Stream(Q, w)
  <2>1. OfWritten(Q, w)
    BY <1>1, <1>5 DEF Stream, OfWritten
  <2>2. Together(Q)
    BY <1>1, <1>5 DEF Stream, Together
  <2>3. Following(Q)
    BY <1>1, <1>5 DEF Stream, Following
  <2>. QED  BY <1>2, <2>1, <2>2, <2>3 DEF Stream
<1>7. Begins(Q, r, d)
  <2>. SUFFICES ASSUME Q # << >> PROVE S # << >> /\ Q[1] = S[1]
    BY <1>1 DEF Begins
  <2>1. 1 \in DOMAIN Q
    BY <1>2, <1>3, EmptySeq
  <2>. QED  BY <1>5, <2>1
<1>. QED
  BY <1>1, <1>6, <1>7 DEF Good, Q

Regroups(b, a, z, g) == (b \o a) \o (z \o g) = b \o ((a \o z) \o g)

LEMMA Regrouped ==
    ASSUME NEW b \in Seq(Byte), NEW a \in Seq(Byte), NEW z \in Seq(Byte), NEW g \in Seq(Byte)
    PROVE  Regroups(b, a, z, g)
<1>. DEFINE y == z \o g
<1>1. y \in Seq(Byte) /\ (a \o z) \o g = a \o y
  BY Association
<1>. HIDE DEF y
<1>2. (b \o a) \o y = b \o (a \o y)
  BY <1>1, Association
<1>. QED
  BY <1>1, <1>2 DEF y, Regroups

\* recv moves bytes from the wire to the buffer: the stream is the same.
LEMMA TakenGood ==
    ASSUME NEW w, NEW r, NEW d, NEW c, NEW q \in Seq(Byte), NEW g \in Seq(Byte),
           Good(r, q \o g, d, w, c), NEW k \in 0 .. Len(q)
    PROVE  Good([r EXCEPT !.buffer = @ \o SubSeq(q, 1, k)], Rest(q, k) \o g, d, w, c)
<1>. DEFINE a == SubSeq(q, 1, k)
            z == Rest(q, k)
            p == [r EXCEPT !.buffer = @ \o a]
<1>1. a \in Seq(Byte) /\ z \in Seq(Byte) /\ a \o z = q
  BY CutAndJoin, RestFacts
<1>2. r \in ReaderRecord /\ r.buffer \in Seq(Byte)
  BY DEF Good, ReaderRecord
<1>. HIDE DEF a, z
<1>3. r.buffer \o a \in Seq(Byte) /\ z \o g \in Seq(Byte)
  BY <1>1, <1>2, ConcatProperties
<1>4. p \in ReaderRecord /\ p.buffer = r.buffer \o a /\ p.header = r.header /\ p.headerLen = r.headerLen
  BY <1>2, <1>3 DEF ReaderRecord
<1>5. p.buffer \o (z \o g) = r.buffer \o (q \o g)
  <2>1. (r.buffer \o a) \o (z \o g) = r.buffer \o ((a \o z) \o g)
    <3>1. Regroups(r.buffer, a, z, g)
      BY <1>1, <1>2, Regrouped
    <3>. QED  BY <3>1 DEF Regroups
  <2>. QED  BY <1>1, <1>4, <2>1
<1>. QED
  BY <1>3, <1>4, <1>5 DEF Good, Begins, Ends, Expected, a, z

-----------------------------------------------------------------------------
(* Steps *)

Delivers == /\ Len(delivered) < Len(written)
            /\ delivered' = Append(delivered, written[Len(delivered) + 1])

\* Parse goes on in the same stream, and what it returns is the message that is next.
LEMMA ParseStep ==
    ASSUME written \in Seq(Message), delivered \in Seq(Message), closed \in BOOLEAN,
           reads \in 0 .. LoginReads, NEW r, NEW t,
           Good(r, t, Len(delivered), written, closed), Parse(r)
    PROVE  /\ Good(rx', t, Len(delivered'), written, closed)
           /\ reader' \in {"select", "recv", "tagged", "closed"}
           /\ reads' \in 0 .. LoginReads
           /\ delivered' \in Seq(Message)
           /\ Delivers \/ UNCHANGED delivered
<1>. DEFINE h == Headers(r)
            d == Len(delivered)
<1>1. d \in Nat
  BY LenProperties
<1>2. Good(h, t, d, written, closed)
  <2>1. Good(ProcessProtoheader(r), t, d, written, closed)
    BY <1>1, ProtoheaderGood
  <2>2. Good(ProcessJsonheader(ProcessProtoheader(r)), t, d, written, closed)
    BY <1>1, <2>1, JsonheaderGood
  <2>. QED  BY <2>2 DEF Headers
<1>. HIDE DEF h, d
<1>3. CASE HasMessage(h)
  <2>1. /\ rx' = AfterMessage(h)
        /\ delivered' = Append(delivered, Content(h))
        /\ reader' = AfterRead(AfterMessage(h))
        /\ reads' = IF reads < LoginReads THEN reads + 1 ELSE reads
    BY <1>3 DEF Parse, h
  <2>2. /\ d + 1 \in DOMAIN written
        /\ Content(h) = written[d + 1]
        /\ Good(AfterMessage(h), t, d + 1, written, closed)
    BY <1>1, <1>2, <1>3, MessageGood
  <2>3. written[d + 1] \in Message /\ d < Len(written)
    BY <1>1, <2>2, LenProperties, ElementOfSeq
  <2>4. delivered' \in Seq(Message) /\ Len(delivered') = d + 1
    BY <2>1, <2>2, <2>3, AppendProperties DEF d
  <2>5. reads' \in 0 .. LoginReads
    BY <2>1, ReaderAssumption
  <2>6. reader' \in {"select", "recv", "tagged", "closed"}
    BY <2>1 DEF AfterRead
  <2>. QED  BY <2>1, <2>2, <2>3, <2>4, <2>5, <2>6 DEF Delivers, d
<1>4. CASE ~HasMessage(h)
  <2>1. rx' = h /\ reader' = "recv" /\ delivered' = delivered /\ reads' = reads
    BY <1>4 DEF Parse, h
  <2>. QED  BY <1>2, <2>1 DEF d
<1>. QED
  BY <1>3, <1>4

\* What a step does to the two ends: the writer writes a message, or the reader is
\* given the next one, or neither.
Progress ==
    \/ (\E m \in Message : written' = Append(written, m)) /\ UNCHANGED delivered
    \/ Delivers /\ UNCHANGED written
    \/ UNCHANGED << written, delivered >>

LEMMA InitInv == Init => IInv
<1>. SUFFICES ASSUME Init PROVE IInv
  OBVIOUS
<1>1. << >> \in Seq(Byte) /\ << >> \in Seq(Message) /\ Len(<< >>) = 0 /\ << >> \o << >> = << >>
  BY EmptySeq
<1>2. TypeOK
  <2>1. /\ written \in Seq(Message) /\ sendBuffer \in Seq(Byte) /\ closed \in BOOLEAN
        /\ wire \in Seq(Byte) /\ program \in Programs /\ eof \in BOOLEAN
        /\ delivered \in Seq(Message)
    BY <1>1 DEF Init
  <2>2. rx \in [buffer : Seq(Byte), headerLen : {NoLength, HeaderSize}, header : {None} \cup Message]
    BY <1>1 DEF Init
  <2>3. reader \in {"select", "recv", "tagged", "closed"} /\ reads \in 0 .. LoginReads
    BY ReaderAssumption DEF Init
  <2>. QED  BY <2>1, <2>2, <2>3 DEF TypeOK
<1>3. /\ rx = [buffer |-> << >>, headerLen |-> NoLength, header |-> None]
      /\ wire \o sendBuffer = << >> /\ written = << >> /\ Len(delivered) = 0
  BY <1>1 DEF Init
<1>4. Stream(<< >>, << >>)
  BY <1>1 DEF Stream, OfWritten, Together, Following
<1>5. rx \in ReaderRecord
  BY <1>1, <1>3 DEF ReaderRecord
<1>6. Good(rx, << >>, 0, << >>, closed)
  BY <1>1, <1>3, <1>4, <1>5 DEF Good, Begins, Ends
<1>. QED
  BY <1>2, <1>3, <1>6 DEF IInv

LEMMA WriteStep == ASSUME IInv, NEW size \in Sizes, Write(size) PROVE IInv' /\ Progress
<1>. DEFINE m == [id |-> Len(written) + 1, size |-> size]
            out == sendBuffer \o Frame(m)
<1>0. PICK k \in IF PartialSend THEN 1 .. Len(out) ELSE {Len(out)} :
        /\ written' = Append(written, m)
        /\ wire' = wire \o SubSeq(out, 1, k)
        /\ sendBuffer' = Rest(out, k)
  BY DEF Write
<1>1. TypeOK /\ Good(rx, wire \o sendBuffer, Len(delivered), written, FALSE) /\ closed = FALSE
  <2>1. TypeOK /\ Good(rx, wire \o sendBuffer, Len(delivered), written, closed)
    BY DEF IInv
  <2>2. closed \in BOOLEAN /\ ~closed
    BY <2>1 DEF TypeOK, Write
  <2>3. closed = FALSE
    BY <2>2
  <2>. QED  BY <2>1, <2>3
<1>2. ~closed /\ Len(written) < MaxWrites /\ UNCHANGED << closed, readerVars >>
  BY DEF Write
<1>3. written \in Seq(Message) /\ Len(written) \in Nat /\ Len(delivered) \in Nat
  BY <1>1, LenProperties DEF TypeOK
<1>4. m \in Message
  BY <1>2, <1>3, SizesAssumption DEF Message
<1>5. wire \in Seq(Byte) /\ sendBuffer \in Seq(Byte) /\ Frame(m) \in Seq(Byte)
  BY <1>1, <1>4, FrameFacts DEF TypeOK
<1>6. out \in Seq(Byte) /\ Len(out) \in Nat
  BY <1>5, ConcatProperties, LenProperties
<1>. HIDE DEF m
<1>7. k \in 0 .. Len(out)
  BY <1>0, <1>6
<1>8. SubSeq(out, 1, k) \in Seq(Byte) /\ Rest(out, k) \in Seq(Byte) /\ SubSeq(out, 1, k) \o Rest(out, k) = out
  BY <1>6, <1>7, CutAndJoin, RestFacts
<1>9. wire' \in Seq(Byte) /\ sendBuffer' \in Seq(Byte)
  BY <1>0, <1>5, <1>8, ConcatProperties
<1>10. wire' \o sendBuffer' = (wire \o sendBuffer) \o Frame(m)
  <2>1. (wire \o SubSeq(out, 1, k)) \o Rest(out, k) = wire \o (SubSeq(out, 1, k) \o Rest(out, k))
    BY <1>5, <1>8, Associates DEF Associative
  <2>2. (wire \o sendBuffer) \o Frame(m) = wire \o out
    BY <1>5, Associates DEF Associative
  <2>. QED  BY <1>0, <1>8, <2>1, <2>2
<1>11. Good(rx, wire' \o sendBuffer', Len(delivered), Append(written, m), FALSE)
  BY <1>1, <1>3, <1>4, <1>10, WrittenGood DEF m
<1>12. written' \in Seq(Message)
  BY <1>0, <1>3, <1>4, AppendProperties
<1>13. TypeOK'
  BY <1>1, <1>2, <1>9, <1>12 DEF TypeOK, readerVars
<1>14. IInv'
  <2>1. rx' = rx /\ delivered' = delivered /\ closed' = FALSE
    BY <1>1, <1>2 DEF readerVars
  <2>2. Good(rx', wire' \o sendBuffer', Len(delivered'), written', closed')
    BY <1>0, <1>11, <2>1
  <2>. QED  BY <1>13, <2>2 DEF IInv
<1>. QED
  BY <1>0, <1>2, <1>4, <1>14 DEF Progress, readerVars

LEMMA CloseStep == ASSUME IInv, Close PROVE IInv' /\ Progress
<1>1. TypeOK /\ Good(rx, wire \o sendBuffer, Len(delivered), written, closed)
  BY DEF IInv
<1>2. /\ closed' = TRUE /\ sendBuffer' = << >>
      /\ UNCHANGED << written, wire, readerVars >>
  BY DEF Close
<1>3. wire \in Seq(Byte) /\ sendBuffer \in Seq(Byte)
  BY <1>1 DEF TypeOK
<1>4. Good(rx, wire, Len(delivered), written, TRUE)
  BY <1>1, <1>3, ClosedGood
<1>5. wire \o << >> = wire
  BY <1>3, ConcatEmptySeq
<1>6. Good(rx', wire' \o sendBuffer', Len(delivered'), written', closed')
  BY <1>2, <1>4, <1>5 DEF readerVars
<1>7. TypeOK'
  BY <1>1, <1>2, EmptySeq DEF TypeOK, readerVars
<1>. QED
  BY <1>2, <1>6, <1>7 DEF IInv, Progress, readerVars

LEMMA ReaderStepKeeps == ASSUME IInv, ReaderStep PROVE IInv' /\ Progress
<1>1. TypeOK /\ Good(rx, wire \o sendBuffer, Len(delivered), written, closed)
  BY DEF IInv
<1>2. /\ wire \in Seq(Byte) /\ sendBuffer \in Seq(Byte) /\ written \in Seq(Message)
      /\ delivered \in Seq(Message) /\ closed \in BOOLEAN /\ reads \in 0 .. LoginReads
  BY <1>1 DEF TypeOK
<1>3. CASE Readable \/ PeerClosed
  <2>1. UNCHANGED << writerVars, wire, program, rx, reads, delivered >>
    BY <1>3 DEF Readable, PeerClosed
  <2>2. reader' \in {"select", "recv", "tagged", "closed"} /\ eof' \in BOOLEAN
    BY <1>1, <1>3 DEF TypeOK, Readable, PeerClosed
  <2>3. TypeOK'
    BY <1>1, <2>1, <2>2 DEF TypeOK, writerVars
  <2>. QED  BY <1>1, <2>1, <2>3 DEF IInv, Progress, writerVars
<1>4. CASE Recv
  <2>1. PICK k \in 1 .. MaxRecv :
          /\ k <= Len(wire)
          /\ wire' = Rest(wire, k)
          /\ Parse([rx EXCEPT !.buffer = @ \o SubSeq(wire, 1, k)])
    BY <1>4 DEF Recv
  <2>2. UNCHANGED << writerVars, program, eof >>
    BY <1>4 DEF Recv
  <2>3. k \in 0 .. Len(wire)
    BY <1>2, <2>1, SizesAssumption, LenProperties
  <2>. DEFINE r == [rx EXCEPT !.buffer = @ \o SubSeq(wire, 1, k)]
  <2>4. Good(r, Rest(wire, k) \o sendBuffer, Len(delivered), written, closed)
    BY <1>1, <1>2, <2>3, TakenGood
  <2>. HIDE DEF r
  <2>5. Parse(r)
    BY <2>1 DEF r
  <2>6. /\ Good(rx', Rest(wire, k) \o sendBuffer, Len(delivered'), written, closed)
        /\ reader' \in {"select", "recv", "tagged", "closed"}
        /\ reads' \in 0 .. LoginReads
        /\ delivered' \in Seq(Message)
        /\ Delivers \/ UNCHANGED delivered
    BY <1>2, <2>4, <2>5, ParseStep
  <2>7. wire' \in Seq(Byte)
    BY <1>2, <2>1, <2>3, RestFacts
  <2>8. rx' \in ReaderRecord
    BY <2>6 DEF Good
  <2>9. TypeOK'
    BY <1>1, <2>2, <2>6, <2>7, <2>8 DEF TypeOK, ReaderRecord, writerVars
  <2>. QED  BY <2>1, <2>2, <2>6, <2>9 DEF IInv, Progress, writerVars
<1>5. CASE ReadTagged
  <2>1. Parse(rx) /\ UNCHANGED << writerVars, wire, program, eof >>
    BY <1>5 DEF ReadTagged
  <2>2. /\ Good(rx', wire \o sendBuffer, Len(delivered'), written, closed)
        /\ reader' \in {"select", "recv", "tagged", "closed"}
        /\ reads' \in 0 .. LoginReads
        /\ delivered' \in Seq(Message)
        /\ Delivers \/ UNCHANGED delivered
    BY <1>1, <1>2, <2>1, ParseStep
  <2>3. rx' \in ReaderRecord
    BY <2>2 DEF Good
  <2>4. TypeOK'
    BY <1>1, <2>1, <2>2, <2>3 DEF TypeOK, ReaderRecord, writerVars
  <2>. QED  BY <2>1, <2>2, <2>4 DEF IInv, Progress, writerVars
<1>. QED
  BY <1>3, <1>4, <1>5 DEF ReaderStep

LEMMA NextInv == IInv /\ [Next]_vars => IInv' /\ Progress
<1>. SUFFICES ASSUME IInv, [Next]_vars PROVE IInv' /\ Progress
  OBVIOUS
<1>1. CASE \E size \in Sizes : Write(size)
  BY <1>1, WriteStep
<1>2. CASE Close
  BY <1>2, CloseStep
<1>3. CASE ReaderStep
  BY <1>3, ReaderStepKeeps
<1>4. CASE UNCHANGED vars
  <2>1. UNCHANGED << written, sendBuffer, closed, wire, program, rx, reader, reads, eof, delivered >>
    BY <1>4 DEF vars, writerVars, readerVars
  <2>2. TypeOK'
    BY <2>1 DEF IInv, TypeOK
  <2>. QED  BY <2>1, <2>2 DEF IInv, Progress
<1>. QED
  BY <1>1, <1>2, <1>3, <1>4 DEF Next

THEOREM HandlerInvariant == Spec => []IInv
<1>. QED
  BY InitInv, NextInv, PTL DEF Spec

-----------------------------------------------------------------------------
(* Theorems *)

\* Every variable keeps its type: nothing that the reader decodes is garbage.
\* This is about Content and ProcessJsonheader (message.py, process_request and
\* process_jsonheader).
THEOREM HandlerTypeCorrect == Spec => []TypeOK
<1>1. IInv => TypeOK
  BY DEF IInv
<1>. QED
  BY <1>1, HandlerInvariant, PTL

LEMMA InvAligned == IInv => Aligned
<1>. SUFFICES ASSUME IInv PROVE Aligned
  OBVIOUS
<1>1. TypeOK /\ Good(rx, wire \o sendBuffer, Len(delivered), written, closed)
  BY DEF IInv
<1>2. rx.buffer \in Seq(Byte) /\ wire \in Seq(Byte) /\ sendBuffer \in Seq(Byte)
  BY <1>1 DEF TypeOK
<1>. DEFINE S == rx.buffer \o (wire \o sendBuffer)
<1>3. (rx.buffer \o wire) \o sendBuffer = S
  BY <1>2, Associates DEF Associative
<1>4. Stream(S, written) /\ Begins(S, rx, Len(delivered))
  BY <1>1 DEF Good
<1>. HIDE DEF S
<1>5. ASSUME S # << >>
      PROVE  /\ S[1].at = 1 /\ S[1].part = Expected(rx)
             /\ S[1].msg = written[Len(delivered) + 1]
  <2>1. 1 \in DOMAIN S
    BY <1>4, <1>5, EmptySeq, LenProperties DEF Stream
  <2>. QED  BY <1>4, <1>5, <2>1 DEF Stream, OfWritten, Begins
<1>. QED
  BY <1>3, <1>5 DEF Aligned, Expected

\* A header is never read from the bytes of a content: the reader's place in a frame
\* is where the stream begins, however send and recv cut it (message.py, read).
THEOREM ReaderIsAligned == Spec => []Aligned
<1>. QED
  BY InvAligned, HandlerInvariant, PTL

\* The handler implements Channel: what read returns is what write was given, in
\* order, whole and at most once, for every length of a header and a content.
THEOREM HandlerImplementsChannel == Spec => ChannelSpec
<1>1. Init => Abstract!Init
  BY DEF Init, Abstract!Init
<1>2. Progress => [Abstract!Next]_<< written, delivered >>
  BY DEF Progress, Delivers, Abstract!Next, Abstract!Write, Abstract!Deliver
<1>. QED
  BY <1>1, <1>2, HandlerInvariant, NextInv, PTL DEF Spec, ChannelSpec, Abstract!Spec

=============================================================================
