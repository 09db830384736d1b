--------------------------- MODULE MessageHandler ---------------------------
(***************************************************************************)
(* One direction of a connection between two MessageHandlers (message.py): *)
(* the writer frames messages into a byte stream, the reader takes bytes   *)
(* as they come and decodes one message per read.  The reader is a server  *)
(* (serve_client: one read each time select reports the socket) or a       *)
(* client (login, then receiveMessage, which goes on while its buffer has  *)
(* something left).                                                        *)
(***************************************************************************)
EXTENDS Naturals, Sequences

CONSTANTS
    Programs,    \* which programs may be at the reader's end
    LoginReads,  \* reads made before the select loop: those of Client.login,
                 \* or that of the username in accept_connection
    PartialSend, \* may send take less than it is given?
    Sizes,       \* bound: lengths of a content
    HeaderSize,  \* length of a JSON header
    MaxRecv,     \* bytes one recv takes at most
    MaxWrites    \* bound: messages written

ASSUME ReaderAssumption ==
    /\ Programs \subseteq {"server", "client"} /\ Programs # {}
    /\ LoginReads \in Nat
    /\ PartialSend \in BOOLEAN
ASSUME SizesAssumption ==
    /\ Sizes \subseteq Nat \ {0}
    /\ HeaderSize \in Nat \ {0}
    /\ MaxRecv \in Nat \ {0}
    /\ MaxWrites \in Nat

VARIABLES
    written,    \* the messages given to write
    sendBuffer, \* _send_buffer of the writer
    closed,     \* has the writer closed its socket?
    wire,       \* bytes in the connection
    program,    \* which program the reader is
    rx,         \* _recv_buffer, _jsonheader_len and jsonheader of the reader
    reader,     \* where the reader's program is
    reads,      \* reads of the login that are done
    eof,        \* has a read come back with None?
    delivered   \* the messages read has returned

writerVars == << written, sendBuffer, closed >>
readerVars == << program, rx, reader, reads, eof, delivered >>
vars == << writerVars, wire, readerVars >>

Message == [id : 1 .. MaxWrites, size : Sizes]

\* A byte says which message it is of, which part, and where in the part.
Part(m, part, size) == [n \in 1 .. size |-> [msg |-> m, part |-> part, at |-> n]]
ProtoSize == 2

\* _create_message: a header of two bytes with the length of the JSON header,
\* the JSON header with the length of the content, the content.
Frame(m) ==
    Part(m, "proto", ProtoSize) \o Part(m, "json", HeaderSize)
        \o Part(m, "content", m.size)

None == [is |-> "none"]       \* jsonheader is Python's None,
NoLength == 0                 \* so is _jsonheader_len
Garbage == [is |-> "garbage"] \* what is decoded from the wrong bytes

\* The message a part of the stream was made from.
Decode(bytes, part) ==
    LET m == bytes[1].msg
    IN  IF bytes = Part(m, part, Len(bytes)) THEN m ELSE Garbage

Rest(q, n) == SubSeq(q, n + 1, Len(q))

\* process_protoheader, process_jsonheader: each takes its part when the whole
\* of it is in the buffer.
\* Mutant: the length of the wrong header is remembered.
ProtoLengthKept(r) ==
    IF r.headerLen = NoLength /\ Len(r.buffer) >= ProtoSize
    THEN [r EXCEPT !.headerLen = ProtoSize, !.buffer = Rest(@, ProtoSize)]
    ELSE r

ProcessProtoheader(r) ==
    IF r.headerLen = NoLength /\ Len(r.buffer) >= ProtoSize
    THEN [r EXCEPT !.headerLen = HeaderSize, !.buffer = Rest(@, ProtoSize)]
    ELSE r

ProcessJsonheader(r) ==
    IF r.headerLen # NoLength /\ r.header = None /\ Len(r.buffer) >= r.headerLen
    THEN [r EXCEPT !.header = Decode(SubSeq(r.buffer, 1, r.headerLen), "json"),
                   !.buffer = Rest(@, r.headerLen)]
    ELSE r

Headers(r) == ProcessJsonheader(ProcessProtoheader(r))

\* process_request gives a message when its content is in the buffer.
HasMessage(r) == r.header # None /\ Len(r.buffer) >= r.header.size
WholeBuffer(r) == Decode(r.buffer, "content")   \* Mutant: not cut at the length.
Content(r)    == Decode(SubSeq(r.buffer, 1, r.header.size), "content")
\* Mutant: the content stays in the buffer.
AfterHeader(r) == [buffer |-> r.buffer, headerLen |-> NoLength, header |-> None]
AfterMessage(r) ==
    [buffer |-> Rest(r.buffer, r.header.size), headerLen |-> NoLength, header |-> None]

Init ==
    /\ written = << >>
    /\ sendBuffer = << >>
    /\ closed = FALSE
    /\ wire = << >>
    /\ program \in Programs
    /\ rx = [buffer |-> << >>, headerLen |-> NoLength, header |-> None]
    /\ reader = IF LoginReads > 0 THEN "recv" ELSE "select"
    /\ reads = 0
    /\ eof = FALSE
    /\ delivered = << >>

(***************************************************************************)
(* The writer                                                              *)
(***************************************************************************)

\* write: the frame is added to the send buffer, and one send takes k bytes
\* from the front of the buffer.
Write(size) ==
    /\ ~closed
    /\ Len(written) < MaxWrites
    /\ LET m == [id |-> Len(written) + 1, size |-> size]
           out == sendBuffer \o Frame(m)
       IN  \E k \in IF PartialSend THEN 1 .. Len(out) ELSE {Len(out)} :
             /\ written' = Append(written, m)
             /\ wire' = wire \o SubSeq(out, 1, k)
             /\ sendBuffer' = Rest(out, k)
    /\ UNCHANGED << closed, readerVars >>

\* The writer closes its socket; its send buffer goes with it.
Close ==
    /\ ~closed
    /\ closed' = TRUE
    /\ sendBuffer' = << >>
    /\ UNCHANGED << written, wire, readerVars >>

(***************************************************************************)
(* The reader                                                              *)
(***************************************************************************)

\* select reports the socket: serve_client or receiveMessage calls read.
Readable ==
    /\ reader = "select"
    /\ wire # << >> \/ closed
    /\ reader' = "recv"
    /\ UNCHANGED << writerVars, wire, program, rx, reads, eof, delivered >>

LastOfLogin == reads + 1 = LoginReads

AfterReadSelect(r) == "select"   \* Mutant: what is left in the buffer waits.

\* What the program does after read has returned a message: the last read of
\* the login is followed by select; a server goes back to select; a client
\* reads on from its buffer when that is not empty.
AfterRead(r) ==
    IF program = "server" \/ LastOfLogin THEN "select"
    ELSE IF r.buffer # << >> THEN "tagged"
    ELSE IF reads < LoginReads THEN "recv" ELSE "select"

\* Parse what is in the buffer: return a message, or go on to recv.
Parse(r) ==
    LET h == Headers(r)
    IN  IF HasMessage(h)
        THEN /\ rx' = AfterMessage(h)
             /\ delivered' = Append(delivered, Content(h))
             /\ reader' = AfterRead(AfterMessage(h))
             /\ reads' = IF reads < LoginReads THEN reads + 1 ELSE reads
        ELSE /\ rx' = h
             /\ reader' = "recv"
             /\ UNCHANGED << delivered, reads >>

\* One turn of the loop in read: recv some bytes, then parse.
Recv ==
    /\ reader = "recv"
    /\ \E k \in 1 .. MaxRecv :
         /\ k <= Len(wire)
         /\ wire' = Rest(wire, k)
         /\ Parse([rx EXCEPT !.buffer = @ \o SubSeq(wire, 1, k)])
    /\ UNCHANGED << writerVars, program, eof >>

\* read(True): parse first, as long as the buffer has something.
ReadTagged ==
    /\ reader = "tagged"
    /\ Parse(rx)
    /\ UNCHANGED << writerVars, wire, program, eof >>

\* recv finds the end of the stream: read gives None.  A server closes the
\* connection; a client that is logged in returns to select; a login ends.
PeerClosed ==
    /\ reader = "recv"
    /\ wire = << >> /\ closed
    /\ eof' = TRUE
    /\ reader' = IF program = "server" \/ reads < LoginReads THEN "closed" ELSE "select"
    /\ UNCHANGED << writerVars, wire, program, rx, reads, delivered >>

-----------------------------------------------------------------------------

ReaderStep == Readable \/ Recv \/ ReadTagged \/ PeerClosed

Next == (\E size \in Sizes : Write(size)) \/ Close \/ ReaderStep

Spec == Init /\ [][Next]_vars

\* The reader goes on when it can.  Nobody has to write or to close.
FairSpec == Spec /\ WF_vars(ReaderStep)

(***************************************************************************)
(* Properties                                                              *)
(***************************************************************************)

\* Every variable has its type.
Byte == [msg : Message, part : {"proto", "json", "content"}, at : Nat]
TypeOK ==
    /\ written \in Seq(Message)
    /\ sendBuffer \in Seq(Byte)
    /\ closed \in BOOLEAN
    /\ wire \in Seq(Byte)
    /\ program \in Programs
    /\ rx \in [buffer : Seq(Byte), headerLen : {NoLength, HeaderSize},
               header : {None} \cup Message]
    /\ reader \in {"select", "recv", "tagged", "closed"}
    /\ reads \in 0 .. LoginReads
    /\ eof \in BOOLEAN
    /\ delivered \in Seq(Message)

\* The reader's place in a frame is the place where its buffer begins: however
\* the stream is cut by send and recv, a header is never read from the bytes of
\* a content.
Aligned ==
    LET next == rx.buffer \o wire \o sendBuffer
    IN  next # << >> =>
          /\ next[1].at = 1
          /\ next[1].part = IF rx.header # None THEN "content"
                            ELSE IF rx.headerLen # NoLength THEN "json" ELSE "proto"
          /\ next[1].msg = written[Len(delivered) + 1]

\* MessageHandler implements Channel.
Abstract == INSTANCE Channel
              WITH Message <- Message, written <- written, delivered <- delivered
ChannelSpec == Abstract!Spec

\* Has the n-th message been sent to its last byte?
SentWhole(n) ==
    /\ Len(written) >= n
    /\ \A k \in DOMAIN sendBuffer : sendBuffer[k].msg.id > n

\* A client gets every message that has been sent whole, without waiting for a
\* later one: receiveMessage leaves nothing decodable in the buffer.  The one
\* exception is what came together with the last read of the login, since the
\* select loop that follows does not look into the buffer.
KeptSinceLogin ==
    LoginReads > 0 /\ Len(delivered) = LoginReads /\ reader = "select" /\ wire = << >>

EventuallyDelivered ==
    \A n \in 1 .. MaxWrites :
        (program = "client" /\ ~closed /\ SentWhole(n)) ~>
            Len(delivered) >= n \/ KeptSinceLogin

=============================================================================
