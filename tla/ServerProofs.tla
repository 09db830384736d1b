---------------------------- MODULE ServerProofs ----------------------------
(* Theorems about what the servers do with their sessions, for every set   *)
(* of servers, users and sessions, every pattern of contacts and any       *)
(* number of messages: the types; messages reach their addressee only      *)
(* (DeliveredToAddressee); the load a server writes to serverload stays    *)
(* the number of the clients it selects on, less one for every link it has *)
(* dropped (LoadAccounting); a login finds on its socket what it expects   *)
(* there (LoginProtocol); and a user who has logged in once is recorded at *)
(* the right server (KnowsFirstLogin).                                     *)
EXTENDS Server, FiniteSetTheorems, TLAPS

(***************************************************************************)
(* Facts about sequences.                                                  *)
(***************************************************************************)
LEMMA HeadTail ==
    ASSUME NEW S, NEW q \in Seq(S), q # << >>
    PROVE  Head(q) \in S /\ Tail(q) \in Seq(S)
OBVIOUS

LEMMA Segment ==
    ASSUME NEW S, NEW q \in Seq(S), NEW k \in 1 .. Len(q)
    PROVE  /\ SubSeq(q, 1, k) \in Seq(S)
           /\ SubSeq(q, k + 1, Len(q)) \in Seq(S)
           /\ SubSeq(q, 1, k) # << >>
OBVIOUS

LEMMA Joined ==
    ASSUME NEW S, NEW q \in Seq(S), NEW r \in Seq(S), r # << >>
    PROVE  q \o r \in Seq(S) /\ q \o r # << >>
OBVIOUS

(***************************************************************************)
(* Facts about the update of one entry of a table with two indices.        *)
(***************************************************************************)
LEMMA EntryUpdated ==
    ASSUME NEW A, NEW B, NEW T, NEW f \in [A -> [B -> T]],
           NEW a \in A, NEW b \in B, NEW v \in T
    PROVE  [f EXCEPT ![a][b] = v] \in [A -> [B -> T]]
<1>1. [f[a] EXCEPT ![b] = v] \in [B -> T]
  OBVIOUS
<1> QED
  BY <1>1

LEMMA EntryExtended ==
    ASSUME NEW A, NEW B, NEW T, NEW f \in [A -> [B -> Seq(T)]],
           NEW a \in A, NEW b \in B, NEW v \in T
    PROVE  [f EXCEPT ![a][b] = Append(@, v)] \in [A -> [B -> Seq(T)]]
<1>1. Append(f[a][b], v) \in Seq(T)
  OBVIOUS
<1>2. [f EXCEPT ![a][b] = Append(f[a][b], v)] \in [A -> [B -> Seq(T)]]
  BY <1>1, EntryUpdated
<1> QED
  BY <1>2

LEMMA QueueExtended ==
    ASSUME NEW A, NEW T, NEW f \in [A -> Seq(T)], NEW a \in A, NEW v \in T
    PROVE  [f EXCEPT ![a] = Append(@, v)] \in [A -> Seq(T)]
<1>1. Append(f[a], v) \in Seq(T)
  OBVIOUS
<1> QED
  BY <1>1

(***************************************************************************)
(* A selection from the pending table is a sequence of rows for the user.  *)
(***************************************************************************)
LEMMA PendingForRows ==
    ASSUME pending \subseteq Row, IsFiniteSet(pending), NEW u, NEW q \in PendingFor(u)
    PROVE  /\ q \in Seq(Row) /\ Len(q) \in Nat
           /\ \A n \in DOMAIN q : q[n].msg.to = u
<1> DEFINE rows == {r \in pending : r.msg.to = u}
<1>1. IsFiniteSet(rows)
  BY FS_Subset
<1>2. Cardinality(rows) \in Nat
  BY <1>1, FS_CardinalityType
<1>3. q \in [1 .. Cardinality(rows) -> rows]
  BY DEF PendingFor, SentBefore
<1>4. q \in Seq(rows) /\ Len(q) = Cardinality(rows) /\ DOMAIN q = 1 .. Cardinality(rows)
  <2> HIDE DEF rows
  <2> QED
    BY <1>2, <1>3
<1>5. \A n \in DOMAIN q : q[n] \in rows
  BY <1>3
<1>6. q \in Seq(Row)
  <2>1. rows \subseteq Row
    OBVIOUS
  <2> HIDE DEF rows
  <2> QED
    BY <1>4, <2>1
<1> QED
  BY <1>2, <1>4, <1>5, <1>6

-----------------------------------------------------------------------------

\* What Handler says of the parameters of a handler.
LEMMA HandlerFields ==
    ASSUME NEW h \in Handler
    PROVE  /\ h.step \in {"idle", "hello", "drain", "route"}
           /\ h.step = "hello" => h.ses \in Sessions
           /\ h.step = "drain" => /\ h.ses \in Sessions
                                 /\ h.rows \in Seq(Row) /\ h.rows # << >>
                                 /\ h.written \in BOOLEAN
           /\ h.step = "route" => /\ h.peer \in Peers
                                 /\ h.msg \in Message
                                 /\ h.seen \in Servers \cup {Offline}
BY DEF Handler, Idle

LEMMA DrainFields ==
    ASSUME NEW h \in Handler, h.step = "drain"
    PROVE  h \in [step : {"drain"}, ses : Sessions,
                  rows : Seq(Row) \ {<< >>}, written : BOOLEAN]
BY DEF Handler, Idle

LEMMA DrainIsHandler ==
    ASSUME NEW s \in Sessions, NEW q \in Seq(Row)
    PROVE  Drain(s, q) \in Handler
BY DEF Drain, Handler

\* What a session that has n rows to import does next agrees with its counter.
LEMMA CounterUpdated ==
    ASSUME TypeOK, NEW s \in Sessions, NEW n \in Nat,
           phase' = [phase EXCEPT ![s] = AfterImport(n)],
           toLoad' = [toLoad EXCEPT ![s] = n]
    PROVE  /\ phase' \in [Sessions -> Phases]
           /\ toLoad' \in [Sessions -> Nat]
           /\ \A t \in Sessions : phase'[t] = "importing" => toLoad'[t] > 0
<1>1. /\ phase \in [Sessions -> Phases]
      /\ toLoad \in [Sessions -> Nat]
      /\ \A t \in Sessions : phase[t] = "importing" => toLoad[t] > 0
  BY DEF TypeOK
<1>2. AfterImport(n) \in Phases
  BY DEF AfterImport, Phases
<1>3. AfterImport(n) = "importing" => n > 0
  BY DEF AfterImport
<1>4. phase' \in [Sessions -> Phases] /\ toLoad' \in [Sessions -> Nat]
  BY <1>1, <1>2
<1>5. phase'[s] = AfterImport(n) /\ toLoad'[s] = n
  BY <1>1
<1>6. \A t \in Sessions \ {s} : phase'[t] = phase[t] /\ toLoad'[t] = toLoad[t]
  BY <1>1
<1> QED
  BY <1>1, <1>3, <1>4, <1>5, <1>6

\* The buffer of a client after a read, and the sockets a server still keeps open
\* after it has come back from select.
LEMMA BufferCounted ==
    ASSUME TypeOK, NEW s \in Sessions, NEW tag, Reads(s, tag)
    PROVE  inBuffer' \in [Sessions -> Nat]
<1>1. s2c[s] \in Seq(Frame) /\ inBuffer \in [Sessions -> Nat]
  BY DEF TypeOK
<1>2. PICK n \in 1 .. Len(s2c[s]) : inBuffer' = [inBuffer EXCEPT ![s] = n - 1]
  BY DEF Reads
<1>3. n - 1 \in Nat
  BY <1>1
<1> QED
  BY <1>1, <1>2, <1>3

LEMMA SocketsReleased ==
    ASSUME TypeOK, NEW i \in Servers, ReleaseSockets(i)
    PROVE  unclosed' \in [Servers -> SUBSET Servers]
BY DEF TypeOK, ReleaseSockets

(***************************************************************************)
(* Every reachable state has the types of TypeOK.                          *)
(***************************************************************************)
THEOREM TypeCorrect == Spec => []TypeOK
<1> USE SessionsAssumption, InputAssumption DEF Peers
<1>1. Init => TypeOK
  <2>1. (CHOOSE i \in Servers : TRUE) \in Servers
    BY ServersAssumption
  <2> QED
    BY <2>1, FS_EmptySet, ServersAssumption
       DEF Init, TypeOK, Phases, Handler, Idle, Offline
<1>2. TypeOK /\ [Next]_vars => TypeOK'
  <2> SUFFICES ASSUME TypeOK, [Next]_vars
               PROVE  TypeOK'
    OBVIOUS
  <2> USE DEF TypeOK
  <2>1. CASE CommitAllocation
    BY <2>1 DEF CommitAllocation, Recorded, sessionVars, readerVars, socketVars
  <2>2. ASSUME NEW s \in Sessions, NEW k \in Servers, Allocate(s, k)
        PROVE  TypeOK'
    BY <2>2 DEF Allocate, Phases, dbVars, readerVars, socketVars
  <2>3. ASSUME NEW s \in Sessions, Connect(s)
        PROVE  TypeOK'
    <3>1. phase' \in [Sessions -> Phases] /\ phase'[s] # "importing"
      BY <2>3 DEF Connect, Phases
    <3>2. backlog' \in [Servers -> Seq(Sessions)]
      BY <2>3 DEF Connect
    <3>3. \A t \in Sessions : phase'[t] = "importing" => toLoad'[t] > 0
      BY <2>3, <3>1 DEF Connect
    <3> QED
      BY <2>3, <3>1, <3>2, <3>3 DEF Connect, dbVars, readerVars, socketVars
  <2>4. ASSUME NEW s \in Sessions, Greet(s)
        PROVE  TypeOK'
    BY <2>4 DEF Greet, Phases, dbVars, readerVars, socketVars
  <2>5. ASSUME NEW s \in Sessions, ReadCount(s)
        PROVE  TypeOK'
    <3>1. Head(s2c[s]) \in Frame /\ Tail(s2c[s]) \in Seq(Frame)
      BY <2>5, HeadTail DEF ReadCount
    <3>2. Head(s2c[s]).n \in Nat
      BY <2>5, <3>1 DEF ReadCount, Frame
    <3>3. /\ phase' \in [Sessions -> Phases]
          /\ toLoad' \in [Sessions -> Nat]
          /\ \A t \in Sessions : phase'[t] = "importing" => toLoad'[t] > 0
      BY <2>5, <3>2, CounterUpdated DEF ReadCount
    <3>4. s2c' \in [Sessions -> Seq(Frame)]
      BY <2>5, <3>1 DEF ReadCount
    <3>5. inBuffer' \in [Sessions -> Nat]
      BY <2>5, BufferCounted DEF ReadCount
    <3> QED
      BY <2>5, <3>3, <3>4, <3>5 DEF ReadCount, dbVars, socketVars
  <2>6. ASSUME NEW s \in Sessions, ImportRow(s)
        PROVE  TypeOK'
    <3>1. Head(s2c[s]) \in Frame /\ Tail(s2c[s]) \in Seq(Frame)
      BY <2>6, HeadTail DEF ImportRow
    <3>2. Head(s2c[s]).msg \in Message
      BY <2>6, <3>1 DEF ImportRow, Frame
    <3>3. toLoad[s] > 0 /\ toLoad[s] \in Nat
      BY <2>6 DEF ImportRow
    <3>4. /\ phase' \in [Sessions -> Phases]
          /\ toLoad' \in [Sessions -> Nat]
          /\ \A t \in Sessions : phase'[t] = "importing" => toLoad'[t] > 0
      <4>1. toLoad[s] - 1 \in Nat
        <5> HIDE DEF TypeOK
        <5> QED
          BY <3>3
      <4> QED
        BY <2>6, <4>1, CounterUpdated DEF ImportRow
    <3>5. history' \in [Users -> Seq(Message)]
      BY <2>6, <3>2 DEF ImportRow
    <3>6. s2c' \in [Sessions -> Seq(Frame)]
      BY <2>6, <3>1 DEF ImportRow
    <3>7. inBuffer' \in [Sessions -> Nat]
      BY <2>6, BufferCounted DEF ImportRow
    <3> QED
      BY <2>6, <3>4, <3>5, <3>6, <3>7 DEF ImportRow, dbVars, socketVars
  <2>7. ASSUME NEW s \in Sessions, NEW v \in Users, Send(s, v)
        PROVE  TypeOK'
    <3> DEFINE m == [id |-> nextId, from |-> UserOf[s], to |-> v]
    <3>1. m \in Message
      BY DEF Message
    <3>2. /\ sent' = sent \cup {m}
          /\ inbox' = IF Open(home[s], s)
                      THEN [inbox EXCEPT ![home[s]][s] = Append(@, m)] ELSE inbox
      BY <2>7 DEF Send
    <3>3. sent' \subseteq Message /\ nextId' \in Nat
      BY <2>7, <3>1, <3>2 DEF Send
    <3>4. inbox' \in [Servers -> [Peers -> Seq(Message)]]
      <4> HIDE DEF m
      <4>1. home[s] \in Servers /\ s \in Peers
        OBVIOUS
      <4>2. [inbox EXCEPT ![home[s]][s] = Append(@, m)]
              \in [Servers -> [Peers -> Seq(Message)]]
        BY <3>1, <4>1, EntryExtended
      <4> QED
        BY <3>2, <4>2
    <3> QED
      BY <2>7, <3>3, <3>4 DEF Send, dbVars, socketVars, sessionVars, readerVars
  <2>8. ASSUME NEW s \in Sessions, ReceiveMessage(s)
        PROVE  TypeOK'
    <3>1. Head(s2c[s]) \in Frame /\ Tail(s2c[s]) \in Seq(Frame)
      BY <2>8, HeadTail DEF ReceiveMessage
    <3>2. Head(s2c[s]).msg \in Message
      BY <2>8, <3>1 DEF ReceiveMessage, Frame
    <3>3. history' \in [Users -> Seq(Message)]
      BY <2>8, <3>2 DEF ReceiveMessage
    <3>4. s2c' \in [Sessions -> Seq(Frame)]
      BY <2>8, <3>1 DEF ReceiveMessage
    <3>5. inBuffer' \in [Sessions -> Nat]
      BY <2>8, BufferCounted DEF ReceiveMessage
    <3>6. doing' \in [Sessions -> {"select", "receive", "prompt"}]
      BY <2>8 DEF ReceiveMessage
    <3> QED
      BY <2>8, <3>3, <3>4, <3>5, <3>6 DEF ReceiveMessage, dbVars, socketVars
  <2>a. ASSUME NEW s \in Sessions, AskUser(s)
        PROVE  TypeOK'
    BY <2>a DEF AskUser, dbVars, socketVars
  <2>9. ASSUME NEW s \in Sessions, Exit(s)
        PROVE  TypeOK'
    <3>1. /\ phase' = [phase EXCEPT ![s] = "exited"]
          /\ toLoad' = [toLoad EXCEPT ![s] = 0]
      BY <2>9 DEF Exit
    <3>3. phase' \in [Sessions -> Phases]
      BY <3>1 DEF Phases
    <3>4. toLoad' \in [Sessions -> Nat]
      BY <3>1
    <3>5. \A t \in Sessions : phase'[t] = "importing" => toLoad'[t] > 0
      BY <3>1
    <3>2. s2c' \in [Sessions -> Seq(Frame)]
      BY <2>9 DEF Exit
    <3>6. /\ doing' \in [Sessions -> {"select", "receive", "prompt"}]
          /\ inBuffer' \in [Sessions -> Nat]
      BY <2>9 DEF Exit
    <3> QED
      BY <2>9, <3>2, <3>3, <3>4, <3>5, <3>6 DEF Exit, dbVars, socketVars
  <2>10. ASSUME NEW i \in Servers, AcceptConnection(i)
         PROVE  TypeOK'
    <3>1. Head(backlog[i]) \in Sessions /\ Tail(backlog[i]) \in Seq(Sessions)
      BY <2>10, HeadTail DEF AcceptConnection
    <3>2. Hello(Head(backlog[i])) \in Handler
      BY <3>1 DEF Hello, Handler
    <3>3. backlog' \in [Servers -> Seq(Sessions)] /\ handler' \in [Servers -> Handler]
      BY <2>10, <3>1, <3>2 DEF AcceptConnection
    <3>4. unclosed' \in [Servers -> SUBSET Servers]
      BY <2>10, SocketsReleased DEF AcceptConnection
    <3> QED
      BY <2>10, <3>3, <3>4 DEF AcceptConnection, dbVars, socketVars, sessionVars, readerVars
  <2>h. Idle \in Handler
    BY DEF Handler
  <2>11. ASSUME NEW i \in Servers, NoUsername(i)
         PROVE  TypeOK'
    BY <2>11, <2>h DEF NoUsername, dbVars, socketVars, sessionVars, readerVars
  <2>12. ASSUME NEW i \in Servers, RegisterClient(i)
         PROVE  TypeOK'
    <3> DEFINE s == handler[i].ses
    <3>1. s \in Sessions
      BY <2>12, HandlerFields DEF RegisterClient
    <3>2. PICK rows \in PendingFor(UserOf[s]) :
            /\ WriteToClient(s, CountFrame(Len(rows)))
            /\ handler' = [handler EXCEPT ![i] = Drain(s, rows)]
      BY <2>12 DEF RegisterClient
    <3>3. rows \in Seq(Row) /\ Len(rows) \in Nat
      BY PendingForRows
    <3>4. handler' \in [Servers -> Handler]
      <4>1. Drain(s, rows) \in Handler
        BY <3>1, <3>3, DrainIsHandler
      <4> QED
        BY <3>2, <4>1
    <3>5. s2c' \in [Sessions -> Seq(Frame)]
      <4>1. CountFrame(Len(rows)) \in Frame
        BY <3>3 DEF CountFrame, Frame
      <4> HIDE DEF s
      <4>2. [s2c EXCEPT ![s] = Append(@, CountFrame(Len(rows)))]
              \in [Sessions -> Seq(Frame)]
        BY <3>1, <4>1, QueueExtended
      <4> QED
        BY <3>2, <4>2 DEF WriteToClient
    <3>6. /\ numClients' = [numClients EXCEPT ![i] = @ + 1]
          /\ online' = [online EXCEPT ![i][UserOf[s]] = s]
          /\ events' = [events EXCEPT ![i] = @ \cup {s}]
      BY <2>12 DEF RegisterClient
    <3>7. online' \in [Servers -> [Users -> Sessions \cup {NoSession}]]
      <4> HIDE DEF s
      <4>1. UserOf[s] \in Users /\ s \in Sessions \cup {NoSession}
        BY <3>1
      <4> QED
        BY <3>6, <4>1, EntryUpdated
    <3>8. numClients' \in [Servers -> Int]
      <4>1. numClients \in [Servers -> Int]
        OBVIOUS
      <4> HIDE DEF s, TypeOK
      <4> QED
        BY <3>6, <4>1
    <3>9. events' \in [Servers -> SUBSET Sessions]
      <4>1. events[i] \cup {s} \in SUBSET Sessions
        BY <3>1
      <4> HIDE DEF s
      <4> QED
        BY <3>6, <4>1
    <3> QED
      BY <2>12, <3>4, <3>5, <3>7, <3>8, <3>9 DEF RegisterClient, dbVars, sessionVars,
             readerVars
  <2>13. ASSUME NEW i \in Servers, WriteRow(i)
         PROVE  TypeOK'
    <3>1. /\ handler[i].ses \in Sessions
          /\ handler[i].rows \in Seq(Row) /\ handler[i].rows # << >>
          /\ handler[i].step = "drain"
      BY <2>13, HandlerFields DEF WriteRow
    <3>2. RowFrame(Head(handler[i].rows).msg) \in Frame
      <4>1. Head(handler[i].rows) \in Row
        BY <3>1, HeadTail
      <4> QED
        BY <4>1 DEF RowFrame, Frame, Row
    <3>3. s2c' \in [Sessions -> Seq(Frame)]
      BY <2>13, <3>1, <3>2 DEF WriteRow, WriteToClient
    <3>4. handler' \in [Servers -> Handler]
      <4>1. [handler[i] EXCEPT !.written = TRUE] \in Handler
        <5>1. handler[i] \in [step : {"drain"}, ses : Sessions,
                              rows : Seq(Row) \ {<< >>}, written : BOOLEAN]
          BY <3>1, DrainFields
        <5>2. [handler[i] EXCEPT !.written = TRUE]
                \in [step : {"drain"}, ses : Sessions,
                     rows : Seq(Row) \ {<< >>}, written : BOOLEAN]
          BY <5>1
        <5> QED
          BY <5>2 DEF Handler
      <4> QED
        BY <2>13, <4>1 DEF WriteRow
    <3> QED
      BY <2>13, <3>3, <3>4 DEF WriteRow, dbVars, socketVars, sessionVars, readerVars
  <2>14. ASSUME NEW i \in Servers, DeleteRow(i)
         PROVE  TypeOK'
    <3>1. /\ handler[i].ses \in Sessions
          /\ handler[i].rows \in Seq(Row) /\ handler[i].rows # << >>
      BY <2>14, HandlerFields DEF DeleteRow, Kept
    <3>2. Drain(handler[i].ses, Tail(handler[i].rows)) \in Handler
      BY <3>1, HeadTail, DrainIsHandler
    <3>3. handler' \in [Servers -> Handler]
      BY <2>14, <3>2 DEF DeleteRow, Kept
    <3>4. pending' \subseteq pending
      BY <2>14 DEF DeleteRow, Kept
    <3>5. pending' \subseteq Row /\ IsFiniteSet(pending')
      BY <3>4, FS_Subset
    <3> QED
      BY <2>14, <3>3, <3>5 DEF DeleteRow, Kept, dbVars, socketVars, sessionVars, readerVars
  <2>15. ASSUME NEW i \in Servers, NEW p \in Peers, ReadMessage(i, p)
         PROVE  TypeOK'
    <3>1. PICK k \in 1 .. Len(inbox[i][p]) :
            LET read == recvBuffer[i][p] \o SubSeq(inbox[i][p], 1, k)
            IN  /\ handler' = [handler EXCEPT
                                 ![i] = Route(p, Head(read), connectedto[Head(read).to])]
                /\ recvBuffer' = [recvBuffer EXCEPT ![i][p] = Tail(read)]
                /\ inbox' = [inbox EXCEPT ![i][p] = SubSeq(@, k + 1, Len(@))]
      BY <2>15 DEF ReadMessage, Leftover
    <3> DEFINE read == recvBuffer[i][p] \o SubSeq(inbox[i][p], 1, k)
    <3>2. inbox[i][p] \in Seq(Message) /\ recvBuffer[i][p] \in Seq(Message)
      <4>1. /\ inbox \in [Servers -> [Peers -> Seq(Message)]]
            /\ recvBuffer \in [Servers -> [Peers -> Seq(Message)]]
        OBVIOUS
      <4> HIDE DEF TypeOK, Peers
      <4> QED
        BY <3>1, <4>1
    <3>3. /\ SubSeq(inbox[i][p], 1, k) \in Seq(Message)
          /\ SubSeq(inbox[i][p], 1, k) # << >>
          /\ SubSeq(inbox[i][p], k + 1, Len(inbox[i][p])) \in Seq(Message)
      <4> HIDE DEF TypeOK
      <4> QED
        BY <3>1, <3>2, Segment
    <3>4. Head(read) \in Message /\ Tail(read) \in Seq(Message)
      <4>1. read \in Seq(Message) /\ read # << >>
        <5> HIDE DEF TypeOK
        <5> QED
          BY <3>2, <3>3, Joined
      <4> HIDE DEF read, TypeOK
      <4> QED
        BY <4>1, HeadTail
    <3>5. /\ handler' = [handler EXCEPT
                           ![i] = Route(p, Head(read), connectedto[Head(read).to])]
          /\ recvBuffer' = [recvBuffer EXCEPT ![i][p] = Tail(read)]
      BY <3>1
    <3> HIDE DEF read
    <3>6. handler' \in [Servers -> Handler]
      <4>1. connectedto[Head(read).to] \in Servers \cup {Offline}
        BY <3>4 DEF Message
      <4>2. Route(p, Head(read), connectedto[Head(read).to]) \in Handler
        BY <3>4, <4>1 DEF Route, Handler
      <4> QED
        BY <3>5, <4>2
    <3>7. recvBuffer' \in [Servers -> [Peers -> Seq(Message)]]
      BY <3>4, <3>5
    <3>8. inbox' \in [Servers -> [Peers -> Seq(Message)]]
      BY <3>1, <3>3
    <3>9. unclosed' \in [Servers -> SUBSET Servers]
      BY <2>15, SocketsReleased DEF ReadMessage
    <3> QED
      BY <2>15, <3>6, <3>7, <3>8, <3>9 DEF ReadMessage, Leftover, dbVars, socketVars,
             sessionVars, readerVars
  <2>16. ASSUME NEW i \in Servers, RouteLocal(i)
         PROVE  TypeOK'
    <3>1. handler[i].msg \in Message
      BY <2>16, HandlerFields DEF RouteLocal, RecipientSocket
    <3>2. /\ online[i][handler[i].msg.to] \in Sessions
          /\ LiveFrame(handler[i].msg) \in Frame
      BY <2>16, <3>1 DEF RouteLocal, RecipientSocket, Message, LiveFrame, Frame
    <3>3. s2c' \in [Sessions -> Seq(Frame)]
      <4>1. WriteToClient(online[i][handler[i].msg.to], LiveFrame(handler[i].msg))
        BY <2>16 DEF RouteLocal, RecipientSocket
      <4>2. [s2c EXCEPT ![online[i][handler[i].msg.to]]
                          = Append(@, LiveFrame(handler[i].msg))]
              \in [Sessions -> Seq(Frame)]
        <5> HIDE DEF TypeOK
        <5>1. s2c \in [Sessions -> Seq(Frame)]
          BY DEF TypeOK
        <5> QED
          BY <3>2, <5>1, QueueExtended
      <4> QED
        BY <4>1, <4>2 DEF WriteToClient
    <3>4. handler' \in [Servers -> Handler]
      BY <2>16, <2>h DEF RouteLocal, RecipientSocket
    <3> QED
      BY <2>16, <3>3, <3>4 DEF RouteLocal, RecipientSocket, dbVars, socketVars,
             sessionVars, readerVars
  <2>17. ASSUME NEW i \in Servers, RoutePending(i)
         PROVE  TypeOK'
    <3> DEFINE row == [msgid |-> nextMsgid, via |-> i, msg |-> handler[i].msg]
    <3>1. row \in Row
      BY <2>17, HandlerFields DEF RoutePending, Elsewhere, RecipientSocket, Row
    <3>2. pending' = pending \cup {row} /\ nextMsgid' \in Nat
      BY <2>17 DEF RoutePending
    <3>3. pending' \subseteq Row /\ IsFiniteSet(pending')
      <4> HIDE DEF row
      <4>1. IsFiniteSet(pending \cup {row})
        BY FS_AddElement
      <4> QED
        BY <3>1, <3>2, <4>1
    <3>4. handler' \in [Servers -> Handler]
      BY <2>17, <2>h DEF RoutePending
    <3> QED
      BY <2>17, <3>2, <3>3, <3>4 DEF RoutePending, socketVars, sessionVars, readerVars
  <2>18. ASSUME NEW i \in Servers, RouteForward(i)
         PROVE  TypeOK'
    <3> DEFINE k == handler[i].seen
    <3>1. handler[i].msg \in Message /\ k \in Servers
      BY <2>18, HandlerFields DEF RouteForward, Elsewhere, RecipientSocket
    <3>2. inbox' = IF Deserted(i, k) THEN inbox
                   ELSE [inbox EXCEPT ![k][i] = Append(@, handler[i].msg)]
      BY <2>18 DEF RouteForward
    <3>3. inbox' \in [Servers -> [Peers -> Seq(Message)]]
      <4> HIDE DEF k
      <4>1. i \in Peers
        OBVIOUS
      <4>2. [inbox EXCEPT ![k][i] = Append(@, handler[i].msg)]
              \in [Servers -> [Peers -> Seq(Message)]]
        <5> DEFINE m == handler[i].msg
        <5>1. m \in Message /\ k \in Servers
          BY <3>1
        <5>2. inbox \in [Servers -> [Peers -> Seq(Message)]]
          OBVIOUS
        <5> HIDE DEF m, TypeOK, Peers
        <5>3. [inbox EXCEPT ![k][i] = Append(@, m)]
                \in [Servers -> [Peers -> Seq(Message)]]
          BY <4>1, <5>1, <5>2, EntryExtended
        <5> QED
          BY <5>3 DEF m
      <4> QED
        BY <3>2, <4>2
    <3>4. handler' \in [Servers -> Handler]
      BY <2>18, <2>h DEF RouteForward
    <3> QED
      BY <2>18, <3>3, <3>4 DEF RouteForward, dbVars, socketVars, sessionVars, readerVars
  <2>d. ASSUME NEW i \in Servers, NEW p \in Peers, Discard(i, p)
        PROVE  /\ inbox' \in [Servers -> [Peers -> Seq(Message)]]
               /\ recvBuffer' \in [Servers -> [Peers -> Seq(Message)]]
               /\ numClients' \in [Servers -> Int]
               /\ events' \in [Servers -> SUBSET Sessions]
               /\ links' \in [Servers -> SUBSET Servers]
               /\ online' \in [Servers -> [Users -> Sessions \cup {NoSession}]]
               /\ connectedto' \in [Users -> Servers \cup {Offline}]
    <3>1. << >> \in Seq(Message)
      OBVIOUS
    <3>2. /\ inbox' = [inbox EXCEPT ![i][p] = << >>]
          /\ recvBuffer' = [recvBuffer EXCEPT ![i][p] = << >>]
          /\ numClients' = [numClients EXCEPT ![i] = @ - 1]
          /\ events' = [events EXCEPT ![i] = @ \ {p}]
          /\ links' = [links EXCEPT ![i] = @ \ {p}]
      BY <2>d DEF Discard, OneLess
    <3>3. inbox' \in [Servers -> [Peers -> Seq(Message)]]
      BY <3>1, <3>2, EntryUpdated
    <3>4. recvBuffer' \in [Servers -> [Peers -> Seq(Message)]]
      BY <3>1, <3>2, EntryUpdated
    <3>5. numClients' \in [Servers -> Int]
      <4>1. numClients[i] - 1 \in Int
        OBVIOUS
      <4> QED
        BY <3>2, <4>1
    <3>6. events' \in [Servers -> SUBSET Sessions] /\ links' \in [Servers -> SUBSET Servers]
      BY <3>2
    <3>7. CASE p \in Servers
      BY <2>d, <3>3, <3>4, <3>5, <3>6, <3>7 DEF Discard, OneLess
    <3>8. CASE p \notin Servers
      <4>1. UserOf[p] \in Users
        BY <3>8
      <4>2. online' = [online EXCEPT ![i][UserOf[p]] = NoSession]
        BY <2>d, <3>8 DEF Discard, OneLess
      <4>3. online' \in [Servers -> [Users -> Sessions \cup {NoSession}]]
        BY <4>1, <4>2, EntryUpdated
      <4>4. connectedto' \in [Users -> Servers \cup {Offline}]
        <5>1. connectedto' = [connectedto EXCEPT ![UserOf[p]] = Offline]
          BY <2>d, <3>8 DEF Discard
        <5>2. connectedto \in [Users -> Servers \cup {Offline}]
          OBVIOUS
        <5> HIDE DEF TypeOK
        <5> QED
          BY <4>1, <5>1, <5>2
      <4> QED
        BY <3>3, <3>4, <3>5, <3>6, <4>3, <4>4
    <3> QED
      BY <3>7, <3>8
  <2>19. ASSUME NEW i \in Servers, RouteFails(i)
         PROVE  TypeOK'
    <3>1. handler[i].peer \in Peers
      BY <2>19, HandlerFields DEF RouteFails, Elsewhere, RecipientSocket
    <3>2. Discard(i, handler[i].peer)
      BY <2>19 DEF RouteFails
    <3>3. handler' \in [Servers -> Handler]
      BY <2>19, <2>h DEF RouteFails
    <3>4. unclosed' \in [Servers -> SUBSET Servers]
      BY <2>19 DEF RouteFails
    <3> QED
      BY <2>19, <2>d, <3>1, <3>2, <3>3, <3>4 DEF RouteFails, sessionVars, readerVars
  <2>20. ASSUME NEW i \in Servers, NEW s \in Sessions, CloseClient(i, s)
         PROVE  TypeOK'
    <3>1. Discard(i, s)
      BY <2>20 DEF CloseClient
    <3>2. unclosed' \in [Servers -> SUBSET Servers]
      BY <2>20, SocketsReleased DEF CloseClient
    <3> QED
      BY <2>20, <2>d, <3>1, <3>2 DEF CloseClient, sessionVars, readerVars
  <2>21. ASSUME NEW i \in Servers, Crash(i)
         PROVE  TypeOK'
    <3>1. [u \in Users |-> NoSession] \in [Users -> Sessions \cup {NoSession}]
      OBVIOUS
    <3>2. [p \in Peers |-> << >>] \in [Peers -> Seq(Message)]
      OBVIOUS
    <3>3. online' \in [Servers -> [Users -> Sessions \cup {NoSession}]]
      BY <2>21, <3>1 DEF Crash
    <3>4. inbox' \in [Servers -> [Peers -> Seq(Message)]]
      BY <2>21, <3>2 DEF Crash
    <3>5. recvBuffer' \in [Servers -> [Peers -> Seq(Message)]]
      BY <2>21, <3>2 DEF Crash
    <3>6. alive' \in [Servers -> BOOLEAN]
      <4>1. alive' = [alive EXCEPT ![i] = FALSE] /\ alive \in [Servers -> BOOLEAN]
        BY <2>21 DEF Crash
      <4> HIDE DEF TypeOK
      <4> QED
        BY <4>1, Zenon
    <3>8. backlog' \in [Servers -> Seq(Sessions)]
      BY <2>21 DEF Crash
    <3>7. events' \in [Servers -> SUBSET Sessions] /\ links' \in [Servers -> SUBSET Servers]
      BY <2>21 DEF Crash
    <3>9. unclosed' \in [Servers -> SUBSET Servers]
      BY <2>21 DEF Crash
    <3> QED
      BY <2>21, <3>3, <3>4, <3>5, <3>6, <3>7, <3>8, <3>9 DEF Crash, dbVars, sessionVars,
             readerVars
  <2>22. CASE UNCHANGED vars
    BY <2>22 DEF vars, dbVars, socketVars, sessionVars, readerVars
  <2> QED
    BY <2>1, <2>2, <2>3, <2>4, <2>5, <2>6, <2>7, <2>8, <2>9, <2>10, <2>11, <2>a,
       <2>12, <2>13, <2>14, <2>15, <2>16, <2>17, <2>18, <2>19, <2>20, <2>21, <2>22
       DEF Next, ClientStep, HandlerStep, ServeClient, LinkLost, OrphanServed
<1> QED
  BY <1>1, <1>2, PTL DEF Spec

(***************************************************************************)
(* Messages reach their addressee.  The inductive invariant follows a      *)
(* message backwards from the database of its recipient: to the frames on  *)
(* the way to a session, from there to the rows a handler is draining and  *)
(* to the table in which a server looks up the socket of a user.           *)
(***************************************************************************)
OnlineByName ==
    \A i \in Servers : \A u \in Users :
        online[i][u] # NoSession => UserOf[online[i][u]] = u

ForSession(s, f) == f.kind # "count" => f.msg.to = UserOf[s]

FramesForSession ==
    \A s \in Sessions : \A n \in DOMAIN s2c[s] : ForSession(s, s2c[s][n])

RowsForSession ==
    \A i \in Servers : handler[i].step = "drain" =>
        \A n \in DOMAIN handler[i].rows :
            handler[i].rows[n].msg.to = UserOf[handler[i].ses]

AddresseeInv ==
    OnlineByName /\ FramesForSession /\ RowsForSession /\ DeliveredToAddressee

\* Which steps write the variables AddresseeInv is about.
OnlineWritten ==
    \/ online' = online
    \/ \E i \in Servers :
         RegisterClient(i) \/ Crash(i) \/ \E p \in Peers : Discard(i, p)

FramesWritten ==
    \/ s2c' = s2c
    \/ \E s \in Sessions : s2c[s] # << >> /\ s2c' = [s2c EXCEPT ![s] = Tail(@)]
    \/ \E s \in Sessions : s2c' = [s2c EXCEPT ![s] = << >>]
    \/ \E i \in Servers : RegisterClient(i) \/ WriteRow(i) \/ RouteLocal(i)

HandlerWritten ==
    \/ handler' = handler
    \/ \E i \in Servers : handler' = [handler EXCEPT ![i] = Idle]
    \/ \E i \in Servers :
         \/ AcceptConnection(i) \/ RegisterClient(i) \/ WriteRow(i)
         \/ DeleteRow(i) \/ \E p \in Peers : ReadMessage(i, p)

HistoryWritten ==
    \/ history' = history
    \/ \E s \in Sessions :
         /\ s2c[s] # << >> /\ Head(s2c[s]).kind \in {"row", "live"}
         /\ history' = [history EXCEPT ![UserOf[s]] = Append(@, Head(s2c[s]).msg)]

LEMMA OnlineWriters ==
    ASSUME TypeOK, [Next]_vars
    PROVE  OnlineWritten
<1>1. ASSUME UNCHANGED vars \/ CommitAllocation
      PROVE  OnlineWritten
  BY <1>1 DEF OnlineWritten, vars, socketVars, CommitAllocation, Recorded
<1>2. ASSUME NEW s \in Sessions,
             \/ ClientStep(s) \/ Exit(s)
             \/ \E k \in Servers : Allocate(s, k)
             \/ \E v \in Users : Send(s, v)
      PROVE  OnlineWritten
  BY <1>2 DEF OnlineWritten, ClientStep, Connect, Greet, ReadCount, ImportRow,
         ReceiveMessage, AskUser, Exit, Allocate, Send, socketVars
<1>5. ASSUME NEW i \in Servers, RouteFails(i)
      PROVE  \E p \in Peers : Discard(i, p)
  BY <1>5, HandlerFields DEF RouteFails, Elsewhere, RecipientSocket, TypeOK
<1>3. ASSUME NEW i \in Servers, AcceptConnection(i) \/ HandlerStep(i)
      PROVE  OnlineWritten
  BY <1>3, <1>5 DEF OnlineWritten, AcceptConnection, HandlerStep, NoUsername, WriteRow,
         DeleteRow, Kept, RouteLocal, RecipientSocket, RoutePending, RouteForward, socketVars
<1>4. ASSUME NEW i \in Servers, NEW p \in Peers, ServeClient(i, p)
      PROVE  OnlineWritten
  BY <1>4 DEF OnlineWritten, ServeClient, ReadMessage, Leftover, CloseClient,
         OrphanServed, LinkLost, socketVars
<1> QED
  BY <1>1, <1>2, <1>3, <1>4 DEF Next

LEMMA FrameWriters ==
    ASSUME [Next]_vars
    PROVE  FramesWritten
<1>1. ASSUME UNCHANGED vars \/ CommitAllocation
      PROVE  FramesWritten
  BY <1>1 DEF FramesWritten, vars, socketVars, CommitAllocation, Recorded
<1>2. ASSUME NEW s \in Sessions,
             \/ ClientStep(s) \/ Exit(s)
             \/ \E k \in Servers : Allocate(s, k)
             \/ \E v \in Users : Send(s, v)
      PROVE  FramesWritten
  BY <1>2 DEF FramesWritten, ClientStep, Connect, Greet, ReadCount, ImportRow,
         ReceiveMessage, AskUser, Exit, Allocate, Send, socketVars
<1>3. ASSUME NEW i \in Servers, AcceptConnection(i) \/ HandlerStep(i)
      PROVE  FramesWritten
  BY <1>3 DEF FramesWritten, AcceptConnection, HandlerStep, NoUsername, DeleteRow, Kept,
         RoutePending, RouteForward, RouteFails
<1>4. ASSUME NEW i \in Servers, NEW p \in Peers, ServeClient(i, p)
      PROVE  FramesWritten
  BY <1>4 DEF FramesWritten, ServeClient, ReadMessage, Leftover, CloseClient,
         OrphanServed, LinkLost, Crash
<1> QED
  BY <1>1, <1>2, <1>3, <1>4 DEF Next

LEMMA HandlerWriters ==
    ASSUME [Next]_vars
    PROVE  HandlerWritten
<1>1. ASSUME UNCHANGED vars \/ CommitAllocation
      PROVE  HandlerWritten
  BY <1>1 DEF HandlerWritten, vars, socketVars, CommitAllocation, Recorded
<1>2. ASSUME NEW s \in Sessions,
             \/ ClientStep(s) \/ Exit(s)
             \/ \E k \in Servers : Allocate(s, k)
             \/ \E v \in Users : Send(s, v)
      PROVE  HandlerWritten
  BY <1>2 DEF HandlerWritten, ClientStep, Connect, Greet, ReadCount, ImportRow,
         ReceiveMessage, AskUser, Exit, Allocate, Send, socketVars
<1>3. ASSUME NEW i \in Servers, AcceptConnection(i) \/ HandlerStep(i)
      PROVE  HandlerWritten
  BY <1>3 DEF HandlerWritten, HandlerStep, NoUsername, RouteLocal, RecipientSocket,
              RoutePending, RouteForward, RouteFails
<1>4. ASSUME NEW i \in Servers, NEW p \in Peers, ServeClient(i, p)
      PROVE  HandlerWritten
  BY <1>4 DEF HandlerWritten, ServeClient, CloseClient, OrphanServed, LinkLost, Crash
<1> QED
  BY <1>1, <1>2, <1>3, <1>4 DEF Next

LEMMA HistoryWriters ==
    ASSUME [Next]_vars
    PROVE  HistoryWritten
<1>1. ASSUME UNCHANGED vars \/ CommitAllocation
      PROVE  HistoryWritten
  BY <1>1 DEF HistoryWritten, vars, socketVars, CommitAllocation, Recorded
<1>2. ASSUME NEW s \in Sessions,
             \/ ClientStep(s) \/ Exit(s)
             \/ \E k \in Servers : Allocate(s, k)
             \/ \E v \in Users : Send(s, v)
      PROVE  HistoryWritten
  BY <1>2 DEF HistoryWritten, ClientStep, Connect, Greet, ReadCount, ImportRow,
         ReceiveMessage, AskUser, Exit, Allocate, Send, socketVars
<1>3. ASSUME NEW i \in Servers, AcceptConnection(i) \/ HandlerStep(i)
      PROVE  HistoryWritten
  BY <1>3 DEF HistoryWritten, AcceptConnection, HandlerStep, NoUsername, RegisterClient,
         WriteRow, DeleteRow, Kept, RouteLocal, RecipientSocket, RoutePending, RouteForward, RouteFails
<1>4. ASSUME NEW i \in Servers, NEW p \in Peers, ServeClient(i, p)
      PROVE  HistoryWritten
  BY <1>4 DEF HistoryWritten, ServeClient, ReadMessage, Leftover, CloseClient,
         OrphanServed, LinkLost, Crash
<1> QED
  BY <1>1, <1>2, <1>3, <1>4 DEF Next

\* The rest of a sequence whose elements all satisfy a condition, and the
\* sequence with one more such element.
LEMMA TailElements ==
    ASSUME NEW S, NEW q \in Seq(S), q # << >>, NEW n \in DOMAIN Tail(q)
    PROVE  n + 1 \in DOMAIN q /\ Tail(q)[n] = q[n + 1]
OBVIOUS

LEMMA AppendElements ==
    ASSUME NEW S, NEW q \in Seq(S), NEW e \in S, NEW n \in DOMAIN Append(q, e)
    PROVE  Append(q, e)[n] = e \/ (n \in DOMAIN q /\ Append(q, e)[n] = q[n])
OBVIOUS

LEMMA OnlineStep ==
    ASSUME TypeOK, AddresseeInv, [Next]_vars
    PROVE  OnlineByName'
<1> USE SessionsAssumption
<1>1. CASE online' = online
  BY <1>1 DEF AddresseeInv, OnlineByName
<1>2. ASSUME NEW i \in Servers, RegisterClient(i)
      PROVE  OnlineByName'
  <2> DEFINE s == handler[i].ses
  <2>1. s \in Sessions /\ UserOf[s] \in Users
    BY <1>2, HandlerFields DEF RegisterClient, TypeOK
  <2>2. online' = [online EXCEPT ![i][UserOf[s]] = s]
    BY <1>2 DEF RegisterClient
  <2>3. ASSUME NEW j \in Servers, NEW u \in Users
        PROVE  online'[j][u] = online[j][u] \/ (u = UserOf[s] /\ online'[j][u] = s)
    <3> HIDE DEF s
    <3> QED
      BY <2>1, <2>2 DEF TypeOK
  <2> QED
    BY <2>3 DEF AddresseeInv, OnlineByName
<1>3. ASSUME NEW i \in Servers, Crash(i)
      PROVE  OnlineByName'
  <2>1. ASSUME NEW j \in Servers, NEW u \in Users
        PROVE  online'[j][u] = online[j][u] \/ online'[j][u] = NoSession
    BY <1>3 DEF Crash, TypeOK
  <2> QED
    BY <2>1 DEF AddresseeInv, OnlineByName
<1>4. ASSUME NEW i \in Servers, NEW p \in Peers, Discard(i, p)
      PROVE  OnlineByName'
  <2>1. ASSUME NEW j \in Servers, NEW u \in Users
        PROVE  online'[j][u] = online[j][u] \/ online'[j][u] = NoSession
    <3>1. CASE p \in Servers
      BY <1>4, <3>1 DEF Discard, OneLess
    <3>2. CASE p \notin Servers
      <4>1. online' = [online EXCEPT ![i][UserOf[p]] = NoSession]
        BY <1>4, <3>2 DEF Discard, OneLess
      <4>2. UserOf[p] \in Users
        BY <3>2 DEF Peers
      <4> QED
        BY <4>1, <4>2 DEF TypeOK
    <3> QED
      BY <3>1, <3>2
  <2> QED
    BY <2>1 DEF AddresseeInv, OnlineByName
<1> QED
  BY <1>1, <1>2, <1>3, <1>4, OnlineWriters DEF OnlineWritten

\* A frame added to the queue of a session it is for.
LEMMA FrameAdded ==
    ASSUME TypeOK, FramesForSession, NEW s \in Sessions, NEW f \in Frame,
           ForSession(s, f), WriteToClient(s, f)
    PROVE  FramesForSession'
<1>1. CASE s2c' = s2c
  BY <1>1 DEF FramesForSession, ForSession
<1>2. CASE s2c' = [s2c EXCEPT ![s] = Append(@, f)]
  <2>1. s2c'[s] = Append(s2c[s], f) /\ s2c[s] \in Seq(Frame)
    BY <1>2 DEF TypeOK
  <2>2. \A t \in Sessions \ {s} : s2c'[t] = s2c[t]
    BY <1>2 DEF TypeOK
  <2>3. \A n \in DOMAIN s2c'[s] : ForSession(s, s2c'[s][n])
    BY <2>1, AppendElements DEF FramesForSession
  <2> QED
    BY <2>2, <2>3 DEF FramesForSession, ForSession
<1> QED
  BY <1>1, <1>2 DEF WriteToClient

LEMMA FramesStep ==
    ASSUME TypeOK, AddresseeInv, [Next]_vars
    PROVE  FramesForSession'
<1>1. CASE s2c' = s2c
  BY <1>1 DEF AddresseeInv, FramesForSession, ForSession
<1>2. ASSUME NEW s \in Sessions, s2c[s] # << >>, s2c' = [s2c EXCEPT ![s] = Tail(@)]
      PROVE  FramesForSession'
  <2>1. s2c'[s] = Tail(s2c[s]) /\ s2c[s] \in Seq(Frame)
    BY <1>2 DEF TypeOK
  <2>2. \A t \in Sessions \ {s} : s2c'[t] = s2c[t]
    BY <1>2 DEF TypeOK
  <2>3. \A n \in DOMAIN s2c'[s] : ForSession(s, s2c'[s][n])
    BY <1>2, <2>1, TailElements DEF AddresseeInv, FramesForSession
  <2> QED
    BY <2>2, <2>3 DEF AddresseeInv, FramesForSession, ForSession
<1>3. ASSUME NEW s \in Sessions, s2c' = [s2c EXCEPT ![s] = << >>]
      PROVE  FramesForSession'
  <2>1. s2c'[s] = << >> /\ \A t \in Sessions \ {s} : s2c'[t] = s2c[t]
    BY <1>3 DEF TypeOK
  <2> QED
    BY <2>1 DEF AddresseeInv, FramesForSession, ForSession
<1>4. ASSUME NEW i \in Servers, RegisterClient(i)
      PROVE  FramesForSession'
  <2>1. handler[i].ses \in Sessions
    BY <1>4, HandlerFields DEF RegisterClient, TypeOK
  <2>2. PICK rows \in PendingFor(UserOf[handler[i].ses]) :
          WriteToClient(handler[i].ses, CountFrame(Len(rows)))
    BY <1>4 DEF RegisterClient
  <2>3. Len(rows) \in Nat
    BY PendingForRows DEF TypeOK
  <2>4. CountFrame(Len(rows)) \in Frame
        /\ ForSession(handler[i].ses, CountFrame(Len(rows)))
    BY <2>3 DEF CountFrame, Frame, ForSession
  <2> QED
    BY <2>1, <2>2, <2>4, FrameAdded DEF AddresseeInv
<1>5. ASSUME NEW i \in Servers, WriteRow(i)
      PROVE  FramesForSession'
  <2> DEFINE r == Head(handler[i].rows)
  <2>1. /\ handler[i].step = "drain"
        /\ WriteToClient(handler[i].ses, RowFrame(r.msg))
    BY <1>5 DEF WriteRow
  <2>2. /\ handler[i].ses \in Sessions
        /\ handler[i].rows \in Seq(Row) /\ handler[i].rows # << >>
    BY <2>1, HandlerFields DEF TypeOK
  <2>3. r \in Row /\ r = handler[i].rows[1] /\ 1 \in DOMAIN handler[i].rows
    BY <2>2
  <2>4. r.msg.to = UserOf[handler[i].ses]
    BY <2>1, <2>3 DEF AddresseeInv, RowsForSession
  <2>5. RowFrame(r.msg) \in Frame /\ ForSession(handler[i].ses, RowFrame(r.msg))
    BY <2>3, <2>4 DEF RowFrame, Frame, ForSession, Row
  <2> QED
    BY <2>1, <2>2, <2>5, FrameAdded DEF AddresseeInv
<1>6. ASSUME NEW i \in Servers, RouteLocal(i)
      PROVE  FramesForSession'
  <2> DEFINE m == handler[i].msg
             t == online[i][m.to]
  <2>1. m \in Message /\ t # NoSession /\ WriteToClient(t, LiveFrame(m))
    BY <1>6, HandlerFields DEF RouteLocal, RecipientSocket, TypeOK
  <2>2. t \in Sessions /\ UserOf[t] = m.to
    BY <2>1 DEF Message, TypeOK, AddresseeInv, OnlineByName
  <2>3. LiveFrame(m) \in Frame /\ ForSession(t, LiveFrame(m))
    BY <2>1, <2>2 DEF LiveFrame, Frame, ForSession
  <2> QED
    BY <2>1, <2>2, <2>3, FrameAdded DEF AddresseeInv
<1> QED
  BY <1>1, <1>2, <1>3, <1>4, <1>5, <1>6, FrameWriters DEF FramesWritten

RowsFor(h) == h.step = "drain" => \A n \in DOMAIN h.rows : h.rows[n].msg.to = UserOf[h.ses]

LEMMA HandlerReplaced ==
    ASSUME TypeOK, RowsForSession, NEW i \in Servers, NEW h, RowsFor(h),
           handler' = [handler EXCEPT ![i] = h]
    PROVE  RowsForSession'
<1>1. handler'[i] = h /\ \A j \in Servers \ {i} : handler'[j] = handler[j]
  BY DEF TypeOK
<1> QED
  BY <1>1 DEF RowsForSession, RowsFor

LEMMA DrainRows ==
    ASSUME NEW s, NEW q, \A n \in DOMAIN q : q[n].msg.to = UserOf[s]
    PROVE  RowsFor(Drain(s, q))
BY DEF RowsFor, Drain, Idle

LEMMA RowsStep ==
    ASSUME TypeOK, AddresseeInv, [Next]_vars
    PROVE  RowsForSession'
<1>1. CASE handler' = handler
  BY <1>1 DEF AddresseeInv, RowsForSession
<1>2. ASSUME NEW i \in Servers, handler' = [handler EXCEPT ![i] = Idle]
      PROVE  RowsForSession'
  BY <1>2, HandlerReplaced DEF AddresseeInv, RowsFor, Idle
<1>3. ASSUME NEW i \in Servers, AcceptConnection(i)
      PROVE  RowsForSession'
  BY <1>3, HandlerReplaced DEF AddresseeInv, AcceptConnection, RowsFor, Hello
<1>4. ASSUME NEW i \in Servers, RegisterClient(i)
      PROVE  RowsForSession'
  <2>1. PICK rows \in PendingFor(UserOf[handler[i].ses]) :
          handler' = [handler EXCEPT ![i] = Drain(handler[i].ses, rows)]
    BY <1>4 DEF RegisterClient
  <2>2. \A n \in DOMAIN rows : rows[n].msg.to = UserOf[handler[i].ses]
    BY PendingForRows DEF TypeOK
  <2> QED
    BY <2>1, <2>2, DrainRows, HandlerReplaced DEF AddresseeInv
<1>5. ASSUME NEW i \in Servers, WriteRow(i)
      PROVE  RowsForSession'
  <2>1. handler[i].step = "drain" /\ handler[i] \in Handler
    BY <1>5 DEF WriteRow, TypeOK
  <2>2. handler' = [handler EXCEPT ![i] = [handler[i] EXCEPT !.written = TRUE]]
    BY <1>5 DEF WriteRow
  <2>3. /\ [handler[i] EXCEPT !.written = TRUE].rows = handler[i].rows
        /\ [handler[i] EXCEPT !.written = TRUE].ses = handler[i].ses
    BY <2>1, DrainFields
  <2>4. RowsFor([handler[i] EXCEPT !.written = TRUE])
    BY <2>1, <2>3 DEF AddresseeInv, RowsForSession, RowsFor
  <2> QED
    BY <2>2, <2>4, HandlerReplaced DEF AddresseeInv
<1>6. ASSUME NEW i \in Servers, DeleteRow(i)
      PROVE  RowsForSession'
  <2> DEFINE q == handler[i].rows
  <2>1. /\ handler[i].step = "drain"
        /\ handler' = [handler EXCEPT ![i] = Drain(handler[i].ses, Tail(q))]
    BY <1>6 DEF DeleteRow, Kept
  <2>2. q \in Seq(Row) /\ q # << >>
    BY <2>1, HandlerFields DEF TypeOK
  <2>3. \A n \in DOMAIN q : q[n].msg.to = UserOf[handler[i].ses]
    BY <2>1 DEF AddresseeInv, RowsForSession
  <2>4. \A n \in DOMAIN Tail(q) : Tail(q)[n].msg.to = UserOf[handler[i].ses]
    <3> HIDE DEF q
    <3> QED
      BY <2>2, <2>3, TailElements
  <2> QED
    BY <2>1, <2>4, DrainRows, HandlerReplaced DEF AddresseeInv
<1>7. ASSUME NEW i \in Servers, NEW p \in Peers, ReadMessage(i, p)
      PROVE  RowsForSession'
  <2>1. PICK m : handler' = [handler EXCEPT ![i] = Route(p, m, connectedto[m.to])]
    BY <1>7 DEF ReadMessage, Leftover
  <2>2. RowsFor(Route(p, m, connectedto[m.to]))
    BY DEF RowsFor, Route
  <2> QED
    BY <2>1, <2>2, HandlerReplaced DEF AddresseeInv
<1> QED
  BY <1>1, <1>2, <1>3, <1>4, <1>5, <1>6, <1>7, HandlerWriters DEF HandlerWritten

LEMMA DeliveredStep ==
    ASSUME TypeOK, AddresseeInv, [Next]_vars
    PROVE  DeliveredToAddressee'
<1>1. CASE history' = history
  BY <1>1 DEF AddresseeInv, DeliveredToAddressee
<1>2. ASSUME NEW s \in Sessions,
             s2c[s] # << >>, Head(s2c[s]).kind \in {"row", "live"},
             history' = [history EXCEPT ![UserOf[s]] = Append(@, Head(s2c[s]).msg)]
      PROVE  DeliveredToAddressee'
  <2> DEFINE f == Head(s2c[s])
             u == UserOf[s]
  <2>1. s2c[s] \in Seq(Frame) /\ u \in Users
    BY SessionsAssumption DEF TypeOK
  <2>2. f \in Frame /\ f = s2c[s][1] /\ 1 \in DOMAIN s2c[s]
    BY <1>2, <2>1
  <2>3. f.msg \in Message /\ f.msg.to = u
    BY <1>2, <2>2 DEF AddresseeInv, FramesForSession, ForSession, Frame
  <2>4. /\ history'[u] = Append(history[u], f.msg) /\ history[u] \in Seq(Message)
        /\ \A v \in Users \ {u} : history'[v] = history[v]
    <3> HIDE DEF f, u
    <3> QED
      BY <1>2, <2>1 DEF TypeOK, f, u
  <2>5. \A n \in DOMAIN history'[u] : history'[u][n].to = u
    <3> HIDE DEF f, u
    <3> QED
      BY <2>1, <2>3, <2>4, AppendElements DEF AddresseeInv, DeliveredToAddressee
  <2> QED
    BY <2>4, <2>5 DEF AddresseeInv, DeliveredToAddressee
<1> QED
  BY <1>1, <1>2, HistoryWriters DEF HistoryWritten

\* A user's own database holds only messages to that user, whatever the
\* interleaving of logins, drains, forwards, dropped peers and crashes: a
\* server never writes to a socket it has filed under another name.
THEOREM OnlyToTheAddressee == Spec => []DeliveredToAddressee
<1>1. Init => AddresseeInv
  BY DEF Init, AddresseeInv, OnlineByName, FramesForSession, RowsForSession,
         DeliveredToAddressee, Idle
<1>2. TypeOK /\ AddresseeInv /\ [Next]_vars => AddresseeInv'
  BY OnlineStep, FramesStep, RowsStep, DeliveredStep DEF AddresseeInv
<1>3. AddresseeInv => DeliveredToAddressee
  BY DEF AddresseeInv
<1> QED
  BY <1>1, <1>2, <1>3, TypeCorrect, PTL DEF Spec

-----------------------------------------------------------------------------

\* Has session s connected to a server, when the phases are ph?
Arrived(ph, s) == s \in Sessions /\ ph[s] \notin {"start", "redirected"}

(***************************************************************************)
(* A session is counted once: it is in the backlog of a server, or its     *)
(* username is awaited, or it is selected on, and in the backlog at most   *)
(* once.  Stated for a server with the clients ev, the backlog bl and the  *)
(* handler h.                                                              *)
(***************************************************************************)
OnePlaceAt(ev, bl, h, ph) ==
    /\ \A s \in ev : Arrived(ph, s)
    /\ h.step = "hello" => Arrived(ph, h.ses) /\ h.ses \notin ev
    /\ \A n \in DOMAIN bl :
         /\ Arrived(ph, bl[n])
         /\ bl[n] \notin ev
         /\ h.step = "hello" => bl[n] # h.ses
    /\ \A m, n \in DOMAIN bl : bl[m] = bl[n] => m = n

OnePlace ==
    \A i \in Servers : OnePlaceAt(events[i], backlog[i], handler[i], phase)

\* The peer whose message is being routed is still there to be dropped.
RoutedPeer ==
    \A i \in Servers :
        handler[i].step = "route" => handler[i].peer \in events[i] \cup links[i]

LinksToOthers == \A i \in Servers : links[i] \subseteq Servers \ {i}

LoadInv == OnePlace /\ RoutedPeer /\ LinksToOthers /\ LoadAccounting

-----------------------------------------------------------------------------

(***************************************************************************)
(* What a step may do to the sockets of the servers.                       *)
(***************************************************************************)
Shrinks ==
    \A i \in Servers :
        /\ events'[i] \subseteq events[i]
        /\ backlog'[i] = backlog[i] \/ backlog'[i] = << >>
        /\ handler'[i] = handler[i] \/ handler'[i].step # "hello"

LEMMA StaysArrived ==
    ASSUME TypeOK, [Next]_vars, NEW s \in Sessions, Arrived(phase, s)
    PROVE  Arrived(phase', s)
<1>1. phase \in [Sessions -> Phases]
  BY DEF TypeOK
<1>2. CASE phase' = phase
  BY <1>2 DEF Arrived
<1>3. ASSUME NEW t \in Sessions, NEW x,
             phase' = [phase EXCEPT ![t] = x],
             x = "redirected" => phase[t] = "start", x # "start"
      PROVE  Arrived(phase', s)
  BY <1>1, <1>3 DEF Arrived
<1>4. ASSUME NEW t \in Sessions, ClientStep(t) \/ Exit(t) \/ \E k \in Servers : Allocate(t, k)
      PROVE  Arrived(phase', s)
  <2>1. CASE \E k \in Servers : Allocate(t, k)
    BY <1>3, <2>1 DEF Allocate
  <2>2. CASE Connect(t)
    BY <1>3, <2>2 DEF Connect
  <2>3. CASE Greet(t)
    BY <1>3, <2>3 DEF Greet
  <2>4. CASE ReadCount(t)
    BY <1>3, <2>4 DEF ReadCount, AfterImport
  <2>5. CASE ImportRow(t)
    BY <1>3, <2>5 DEF ImportRow, AfterImport
  <2>6. CASE ReceiveMessage(t)
    BY <1>2, <2>6 DEF ReceiveMessage
  <2>7. CASE Exit(t)
    BY <1>3, <2>7 DEF Exit
  <2>8. CASE AskUser(t)
    BY <1>2, <2>8 DEF AskUser
  <2> QED
    BY <1>4, <2>1, <2>2, <2>3, <2>4, <2>5, <2>6, <2>7, <2>8 DEF ClientStep
<1>5. ASSUME NEW t \in Sessions, NEW v \in Users, Send(t, v)
      PROVE  Arrived(phase', s)
  BY <1>2, <1>5 DEF Send, sessionVars, readerVars
<1>6. ASSUME NEW i \in Servers, AcceptConnection(i) \/ HandlerStep(i)
      PROVE  Arrived(phase', s)
  <2>1. phase' = phase
    BY <1>6 DEF AcceptConnection, HandlerStep, NoUsername, RegisterClient, WriteRow,
                DeleteRow, Kept, RouteLocal, RecipientSocket, RoutePending, RouteForward,
                RouteFails, sessionVars, readerVars
  <2> QED
    BY <1>2, <2>1
<1>7. ASSUME NEW i \in Servers, NEW p \in Peers, ServeClient(i, p)
      PROVE  Arrived(phase', s)
  <2>1. phase' = phase
    BY <1>7 DEF ServeClient, ReadMessage, Leftover, CloseClient, OrphanServed, LinkLost,
                Crash, sessionVars, readerVars
  <2> QED
    BY <1>2, <2>1
<1>8. CASE UNCHANGED vars \/ CommitAllocation
  BY <1>2, <1>8 DEF vars, CommitAllocation, Recorded, sessionVars, readerVars
<1> QED
  BY <1>4, <1>5, <1>6, <1>7, <1>8 DEF Next

\* Only an arrival, an accept and a registration add a session somewhere.
LEMMA WhoAdds ==
    ASSUME TypeOK, [Next]_vars
    PROVE  \/ Shrinks
           \/ \E s \in Sessions : Connect(s)
           \/ \E i \in Servers : AcceptConnection(i) \/ RegisterClient(i)
<1>1. ASSUME UNCHANGED << events, backlog, handler >>
      PROVE  Shrinks
  BY <1>1 DEF Shrinks
<1>2. ASSUME UNCHANGED << events, backlog >>, NEW i \in Servers, NEW h,
             h.step # "hello", handler' = [handler EXCEPT ![i] = h]
      PROVE  Shrinks
  BY <1>2 DEF Shrinks, TypeOK
<1>3. CASE UNCHANGED vars \/ CommitAllocation
  BY <1>1, <1>3 DEF vars, CommitAllocation, Recorded, socketVars
<1>4. ASSUME NEW s \in Sessions,
             \/ Greet(s) \/ ReadCount(s) \/ ImportRow(s) \/ ReceiveMessage(s)
             \/ AskUser(s) \/ Exit(s)
             \/ (\E k \in Servers : Allocate(s, k)) \/ (\E v \in Users : Send(s, v))
      PROVE  Shrinks
  BY <1>1, <1>4 DEF Greet, ReadCount, ImportRow, ReceiveMessage, AskUser, Exit, Allocate,
                    Send, socketVars
<1>5. ASSUME NEW i \in Servers,
             NoUsername(i) \/ RouteLocal(i) \/ RoutePending(i) \/ RouteForward(i)
      PROVE  Shrinks
  BY <1>2, <1>5 DEF NoUsername, RouteLocal, RecipientSocket, RoutePending, RouteForward,
                    socketVars, Idle
<1>6. ASSUME NEW i \in Servers, WriteRow(i)
      PROVE  Shrinks
  <2>1. [handler[i] EXCEPT !.written = TRUE].step = "drain"
    BY <1>6, DrainFields DEF WriteRow, TypeOK
  <2> QED
    BY <1>2, <1>6, <2>1 DEF WriteRow, socketVars
<1>7. ASSUME NEW i \in Servers, DeleteRow(i)
      PROVE  Shrinks
  BY <1>2, <1>7 DEF DeleteRow, Kept, socketVars, Drain, Idle
<1>8. ASSUME NEW i \in Servers, NEW p \in Peers, ReadMessage(i, p)
      PROVE  Shrinks
  BY <1>2, <1>8 DEF ReadMessage, Leftover, socketVars, Route
<1>9. ASSUME NEW i \in Servers, RouteFails(i)
      PROVE  Shrinks
  <2>1. /\ events' = [events EXCEPT ![i] = @ \ {handler[i].peer}]
        /\ handler' = [handler EXCEPT ![i] = Idle]
        /\ backlog' = backlog
    BY <1>9 DEF RouteFails, Discard, OneLess
  <2> QED
    BY <2>1 DEF Shrinks, TypeOK, Idle
<1>10. ASSUME NEW i \in Servers, NEW s \in Sessions, CloseClient(i, s)
       PROVE  Shrinks
  <2>1. /\ events' = [events EXCEPT ![i] = @ \ {s}]
        /\ UNCHANGED << handler, backlog >>
    BY <1>10 DEF CloseClient, Discard, OneLess
  <2> QED
    BY <2>1 DEF Shrinks, TypeOK
<1>11. ASSUME NEW i \in Servers, Crash(i)
       PROVE  Shrinks
  <2>1. /\ events' = [events EXCEPT ![i] = {}]
        /\ backlog' = [backlog EXCEPT ![i] = << >>]
        /\ handler' = handler
    BY <1>11 DEF Crash
  <2> QED
    BY <2>1 DEF Shrinks, TypeOK
<1> QED
  BY <1>3, <1>4, <1>5, <1>6, <1>7, <1>8, <1>9, <1>10, <1>11
     DEF Next, ClientStep, HandlerStep, ServeClient, LinkLost, OrphanServed

-----------------------------------------------------------------------------

(***************************************************************************)
(* OnePlaceAt when something leaves, arrives, is accepted, is registered.  *)
(***************************************************************************)
LEMMA PlaceShrinks ==
    ASSUME NEW ev, NEW bl, NEW h, NEW ph, OnePlaceAt(ev, bl, h, ph),
           NEW ev2, NEW bl2, NEW h2, NEW ph2,
           ev2 \subseteq ev, bl2 = bl \/ bl2 = << >>, h2 = h \/ h2.step # "hello",
           \A s : Arrived(ph, s) => Arrived(ph2, s)
    PROVE  OnePlaceAt(ev2, bl2, h2, ph2)
<1> HIDE DEF Arrived
<1>1. CASE bl2 = bl
  BY <1>1 DEF OnePlaceAt
<1>2. CASE bl2 = << >>
  BY <1>2 DEF OnePlaceAt
<1> QED
  BY <1>1, <1>2

LEMMA PlaceArrives ==
    ASSUME NEW ev, NEW bl \in Seq(Sessions), NEW h, NEW ph, OnePlaceAt(ev, bl, h, ph),
           NEW s \in Sessions, ~Arrived(ph, s), NEW ph2, Arrived(ph2, s),
           \A t : Arrived(ph, t) => Arrived(ph2, t)
    PROVE  OnePlaceAt(ev, Append(bl, s), h, ph2)
<1> HIDE DEF Arrived
<1>1. \A n \in DOMAIN Append(bl, s) :
        \/ n \in DOMAIN bl /\ Append(bl, s)[n] = bl[n]
        \/ n = Len(bl) + 1 /\ Append(bl, s)[n] = s
  OBVIOUS
<1>2. \A n \in DOMAIN bl : bl[n] # s
  BY DEF OnePlaceAt
<1>3. s \notin ev /\ (h.step = "hello" => h.ses # s)
  BY DEF OnePlaceAt
<1> DEFINE bl2 == Append(bl, s)
<1> HIDE DEF bl2
<1>4. \A n \in DOMAIN bl2 :
        \/ n \in DOMAIN bl /\ bl2[n] = bl[n]
        \/ n = Len(bl) + 1 /\ bl2[n] = s
  BY <1>1 DEF bl2
<1>5. OnePlaceAt(ev, bl2, h, ph2)
  <2>1. \A n \in DOMAIN bl2 : /\ Arrived(ph2, bl2[n])
                              /\ bl2[n] \notin ev
                              /\ h.step = "hello" => bl2[n] # h.ses
    BY <1>3, <1>4 DEF OnePlaceAt
  <2>2. \A m, n \in DOMAIN bl2 : bl2[m] = bl2[n] => m = n
    BY <1>2, <1>4 DEF OnePlaceAt
  <2> QED
    BY <2>1, <2>2 DEF OnePlaceAt
<1> QED
  BY <1>5 DEF bl2

LEMMA PlaceAccepted ==
    ASSUME NEW ev, NEW bl \in Seq(Sessions), bl # << >>, NEW h, NEW ph,
           OnePlaceAt(ev, bl, h, ph)
    PROVE  OnePlaceAt(ev, Tail(bl), Hello(Head(bl)), ph)
<1> HIDE DEF Arrived
<1> DEFINE tl == Tail(bl)
           hello == Hello(Head(bl))
<1>1. \A n \in DOMAIN tl : n \in Nat /\ n + 1 \in DOMAIN bl /\ n + 1 # 1 /\ tl[n] = bl[n + 1]
  OBVIOUS
<1>2. 1 \in DOMAIN bl /\ hello.step = "hello" /\ hello.ses = bl[1]
  BY DEF Hello
<1> HIDE DEF tl, hello
<1>3. \A n \in DOMAIN tl : /\ Arrived(ph, tl[n])
                           /\ tl[n] \notin ev
                           /\ tl[n] # bl[1]
  BY <1>1, <1>2 DEF OnePlaceAt
<1>4. ASSUME NEW m \in DOMAIN tl, NEW n \in DOMAIN tl, tl[m] = tl[n]
      PROVE  m = n
  <2>1. m + 1 = n + 1
    BY <1>1, <1>4 DEF OnePlaceAt
  <2> QED
    BY <1>1, <2>1
<1>5. OnePlaceAt(ev, tl, hello, ph)
  BY <1>2, <1>3, <1>4 DEF OnePlaceAt
<1> QED
  BY <1>5 DEF tl, hello

LEMMA PlaceRegistered ==
    ASSUME NEW ev, NEW bl, NEW h, NEW ph, OnePlaceAt(ev, bl, h, ph),
           h.step = "hello", NEW h2, h2.step # "hello"
    PROVE  OnePlaceAt(ev \cup {h.ses}, bl, h2, ph)
<1> HIDE DEF Arrived
<1> QED
  BY DEF OnePlaceAt

LEMMA OnePlaceStep ==
    ASSUME TypeOK, OnePlace, [Next]_vars
    PROVE  OnePlace'
<1> HIDE DEF Arrived
<1>1. /\ events \in [Servers -> SUBSET Sessions]
      /\ backlog \in [Servers -> Seq(Sessions)]
      /\ handler \in [Servers -> Handler]
      /\ phase \in [Sessions -> Phases]
      /\ home \in [Sessions -> Servers]
  BY DEF TypeOK
<1> SUFFICES ASSUME NEW i \in Servers
             PROVE  OnePlaceAt(events'[i], backlog'[i], handler'[i], phase')
  BY DEF OnePlace
<1>2. OnePlaceAt(events[i], backlog[i], handler[i], phase)
  BY DEF OnePlace
<1>3. \A t : Arrived(phase, t) => Arrived(phase', t)
  BY StaysArrived DEF Arrived
<1>4. CASE Shrinks
  BY <1>2, <1>3, <1>4, PlaceShrinks DEF Shrinks
<1>5. ASSUME UNCHANGED << events[i], backlog[i], handler[i] >>
      PROVE  OnePlaceAt(events'[i], backlog'[i], handler'[i], phase')
  BY <1>2, <1>3, <1>5, PlaceShrinks
<1>6. ASSUME NEW s \in Sessions, Connect(s)
      PROVE  OnePlaceAt(events'[i], backlog'[i], handler'[i], phase')
  <2>1. /\ phase[s] = "redirected"
        /\ phase' = [phase EXCEPT ![s] = "connected"]
        /\ backlog' = [backlog EXCEPT ![home[s]] = Append(@, s)]
        /\ UNCHANGED << events, handler >>
    BY <1>6 DEF Connect, socketVars
  <2>2. ~Arrived(phase, s) /\ Arrived(phase', s)
    BY <1>1, <2>1 DEF Arrived
  <2>3. CASE i = home[s]
    <3>1. backlog'[i] = Append(backlog[i], s) /\ backlog[i] \in Seq(Sessions)
      BY <1>1, <2>1, <2>3
    <3>2. OnePlaceAt(events[i], Append(backlog[i], s), handler[i], phase')
      BY <1>2, <1>3, <2>2, <3>1, PlaceArrives
    <3> QED
      BY <2>1, <3>1, <3>2
  <2>4. CASE i # home[s]
    BY <1>1, <1>5, <2>1, <2>4
  <2> QED
    BY <2>3, <2>4
<1>7. ASSUME NEW k \in Servers, AcceptConnection(k)
      PROVE  OnePlaceAt(events'[i], backlog'[i], handler'[i], phase')
  <2>1. /\ backlog[k] # << >>
        /\ handler' = [handler EXCEPT ![k] = Hello(Head(backlog[k]))]
        /\ backlog' = [backlog EXCEPT ![k] = Tail(@)]
        /\ UNCHANGED << events, phase >>
    BY <1>7 DEF AcceptConnection, socketVars, sessionVars, readerVars
  <2>2. CASE i = k
    <3>1. /\ handler'[i] = Hello(Head(backlog[i]))
          /\ backlog'[i] = Tail(backlog[i])
          /\ backlog[i] \in Seq(Sessions) /\ backlog[i] # << >>
      BY <1>1, <2>1, <2>2
    <3> QED
      BY <1>2, <2>1, <3>1, PlaceAccepted
  <2>3. CASE i # k
    BY <1>1, <1>5, <2>1, <2>3
  <2> QED
    BY <2>2, <2>3
<1>8. ASSUME NEW k \in Servers, RegisterClient(k)
      PROVE  OnePlaceAt(events'[i], backlog'[i], handler'[i], phase')
  <2>1. /\ handler[k].step = "hello"
        /\ events' = [events EXCEPT ![k] = @ \cup {handler[k].ses}]
        /\ UNCHANGED << backlog, phase >>
    BY <1>8 DEF RegisterClient, sessionVars, readerVars
  <2>2. PICK q : handler' = [handler EXCEPT ![k] = Drain(handler[k].ses, q)]
    BY <1>8 DEF RegisterClient
  <2>3. CASE i = k
    <3>1. /\ handler'[i].step # "hello"
          /\ events'[i] = events[i] \cup {handler[i].ses}
      BY <1>1, <2>1, <2>2, <2>3 DEF Drain, Idle
    <3> QED
      BY <1>2, <2>1, <2>3, <3>1, PlaceRegistered
  <2>4. CASE i # k
    BY <1>1, <1>5, <2>1, <2>2, <2>4
  <2> QED
    BY <2>3, <2>4
<1> QED
  BY <1>4, <1>6, <1>7, <1>8, WhoAdds

-----------------------------------------------------------------------------

(***************************************************************************)
(* What a step does to the clients, links and load of a server: nothing,   *)
(* a registration, the loss of a peer, or the end of the server.           *)
(***************************************************************************)
Same(i) ==
    /\ UNCHANGED << alive[i], events[i], links[i], numClients[i] >>
    /\ \/ handler'[i] = handler[i]
       \/ handler'[i].step = "route" => handler'[i].peer \in events[i] \cup links[i]

Registers(i) ==
    /\ UNCHANGED << alive[i], links[i] >>
    /\ handler[i].step = "hello"
    /\ events'[i] = events[i] \cup {handler[i].ses}
    /\ numClients'[i] = numClients[i] + 1
    /\ handler'[i].step # "route"

Discards(i) ==
    /\ alive'[i] = alive[i]
    /\ \E p \in events[i] \cup links[i] :
         /\ events'[i] = events[i] \ {p}
         /\ links'[i] = links[i] \ {p}
    /\ numClients'[i] = numClients[i] - 1
    /\ handler'[i].step # "route"

Ends(i) ==
    /\ ~alive'[i]
    /\ links'[i] = {}
    /\ handler'[i].step # "route"

LEMMA FourWays ==
    ASSUME TypeOK, RoutedPeer, [Next]_vars, NEW i \in Servers
    PROVE  Same(i) \/ Registers(i) \/ Discards(i) \/ Ends(i)
<1>1. /\ alive \in [Servers -> BOOLEAN]
      /\ events \in [Servers -> SUBSET Sessions]
      /\ links \in [Servers -> SUBSET Servers]
      /\ numClients \in [Servers -> Int]
      /\ handler \in [Servers -> Handler]
  BY DEF TypeOK
<1>2. ASSUME UNCHANGED << alive, socketVars, handler >>
      PROVE  Same(i)
  BY <1>2 DEF Same, socketVars
<1>3. ASSUME NEW k \in Servers, NEW h, handler' = [handler EXCEPT ![k] = h],
             h.step = "route" => h.peer \in events[k] \cup links[k],
             UNCHANGED << alive, socketVars >>
      PROVE  Same(i)
  BY <1>1, <1>3 DEF Same, socketVars
<1>4. CASE UNCHANGED vars \/ CommitAllocation
  BY <1>2, <1>4 DEF vars, CommitAllocation, Recorded
<1>5. ASSUME NEW s \in Sessions,
             \/ \E k \in Servers : Allocate(s, k)
             \/ ClientStep(s) \/ Exit(s) \/ \E v \in Users : Send(s, v)
      PROVE  Same(i)
  BY <1>2, <1>5 DEF Allocate, ClientStep, Connect, Greet, ReadCount, ImportRow,
                    ReceiveMessage, AskUser, Exit, Send
<1>6. ASSUME NEW k \in Servers,
             AcceptConnection(k) \/ NoUsername(k) \/ RouteLocal(k) \/ RoutePending(k)
               \/ RouteForward(k)
      PROVE  Same(i)
  BY <1>3, <1>6 DEF AcceptConnection, NoUsername, RouteLocal, RecipientSocket, RoutePending,
                    RouteForward, Hello, Idle
<1>7. ASSUME NEW k \in Servers, WriteRow(k)
      PROVE  Same(i)
  <2>1. [handler[k] EXCEPT !.written = TRUE].step = "drain"
    BY <1>1, <1>7, DrainFields DEF WriteRow, TypeOK
  <2>2. handler' = [handler EXCEPT ![k] = [handler[k] EXCEPT !.written = TRUE]]
    BY <1>7 DEF WriteRow
  <2> QED
    BY <1>3, <1>7, <2>1, <2>2 DEF WriteRow
<1>8. ASSUME NEW k \in Servers, DeleteRow(k)
      PROVE  Same(i)
  BY <1>3, <1>8 DEF DeleteRow, Kept, Drain, Idle
<1>9. ASSUME NEW k \in Servers, NEW p \in Peers, ReadMessage(k, p)
      PROVE  Same(i)
  BY <1>3, <1>9 DEF ReadMessage, Leftover, Route
<1>10. ASSUME NEW k \in Servers, RegisterClient(k)
       PROVE  Same(i) \/ Registers(i)
  <2>1. /\ handler[k].step = "hello"
        /\ events' = [events EXCEPT ![k] = @ \cup {handler[k].ses}]
        /\ numClients' = [numClients EXCEPT ![k] = @ + 1]
        /\ UNCHANGED << alive, links >>
    BY <1>10 DEF RegisterClient
  <2>2. PICK q : handler' = [handler EXCEPT ![k] = Drain(handler[k].ses, q)]
    BY <1>10 DEF RegisterClient
  <2>3. Drain(handler[k].ses, q).step # "route"
    BY DEF Drain, Idle
  <2> QED
    BY <1>1, <2>1, <2>2, <2>3 DEF Same, Registers
<1>11. ASSUME NEW k \in Servers, NEW p \in events[k] \cup links[k], Discard(k, p),
              alive' = alive, \A j \in Servers : j # k => handler'[j] = handler[j],
              handler'[k] = Idle
       PROVE  Same(i) \/ Discards(i)
  <2>1. /\ events' = [events EXCEPT ![k] = @ \ {p}]
        /\ links' = [links EXCEPT ![k] = @ \ {p}]
        /\ numClients' = [numClients EXCEPT ![k] = @ - 1]
    BY <1>11 DEF Discard, OneLess
  <2> QED
    BY <1>1, <1>11, <2>1 DEF Same, Discards, Idle
<1>12. ASSUME NEW k \in Servers, RouteFails(k)
       PROVE  Same(i) \/ Discards(i)
  <2>1. handler[k].peer \in events[k] \cup links[k]
    BY <1>12 DEF RouteFails, Elsewhere, RecipientSocket, RoutedPeer
  <2> QED
    BY <1>1, <1>11, <1>12, <2>1 DEF RouteFails
<1>13. ASSUME NEW k \in Servers, NEW s \in Sessions, CloseClient(k, s)
       PROVE  Same(i) \/ Discards(i)
  BY <1>11, <1>13 DEF CloseClient, Loop
<1>14. ASSUME NEW k \in Servers, Loop(k), Crash(k)
       PROVE  Same(i) \/ Ends(i)
  <2>1. /\ alive' = [alive EXCEPT ![k] = FALSE]
        /\ events' = [events EXCEPT ![k] = {}]
        /\ links' = [links EXCEPT ![k] = {}]
        /\ UNCHANGED << numClients, handler >>
        /\ handler[k] = Idle
    BY <1>14 DEF Crash, Loop
  <2>2. CASE i = k
    <3>1. ~alive'[k]
      BY <1>1, <2>1
    <3>2. links'[k] = {} /\ handler'[k].step # "route"
      BY <1>1, <2>1 DEF Idle
    <3> QED
      BY <2>2, <3>1, <3>2 DEF Ends
  <2>3. CASE i # k
    <3>1. alive'[i] = alive[i]
      BY <1>1, <2>1, <2>3
    <3>2. UNCHANGED << events[i], links[i], numClients[i], handler[i] >>
      BY <1>1, <2>1, <2>3
    <3> QED
      BY <3>1, <3>2 DEF Same
  <2> QED
    BY <2>2, <2>3
<1> QED
  BY <1>4, <1>5, <1>6, <1>7, <1>8, <1>9, <1>10, <1>12, <1>13, <1>14
     DEF Next, HandlerStep, ServeClient, LinkLost, OrphanServed

\* The load after each of the four.
LEMMA LoadStep ==
    ASSUME TypeOK, LoadInv, [Next]_vars
    PROVE  RoutedPeer' /\ LinksToOthers' /\ LoadAccounting'
<1> USE ServersAssumption, SessionsAssumption
<1>1. ASSUME NEW i \in Servers
      PROVE  /\ events[i] \subseteq Sessions /\ links[i] \subseteq Servers \ {i}
             /\ numClients[i] \in Int
             /\ IsFiniteSet(events[i]) /\ IsFiniteSet((Servers \ {i}) \ links[i])
             /\ Cardinality(events[i]) \in Nat
             /\ Cardinality((Servers \ {i}) \ links[i]) \in Nat
  <2>1. /\ events[i] \subseteq Sessions /\ links[i] \subseteq Servers \ {i}
        /\ numClients[i] \in Int
    BY DEF TypeOK, LoadInv, LinksToOthers
  <2>2. IsFiniteSet(events[i])
    BY <2>1, FS_Subset
  <2>3. IsFiniteSet((Servers \ {i}) \ links[i])
    BY FS_Subset
  <2> QED
    BY <2>1, <2>2, <2>3, FS_CardinalityType
<1>2. ASSUME NEW i \in Servers
      PROVE  handler'[i].step = "route" => handler'[i].peer \in events'[i] \cup links'[i]
  BY <1>2, FourWays DEF LoadInv, RoutedPeer, Same, Registers, Discards, Ends
<1>3. ASSUME NEW i \in Servers
      PROVE  links'[i] \subseteq Servers \ {i}
  BY <1>1, <1>3, FourWays DEF LoadInv, Same, Registers, Discards, Ends
<1>4. ASSUME NEW i \in Servers, alive'[i]
      PROVE  numClients'[i] = Cardinality(events'[i])
                                - Cardinality((Servers \ {i}) \ links'[i])
  <2> DEFINE ev == events[i]
             dropped == (Servers \ {i}) \ links[i]
  <2>1. alive[i] => numClients[i] = Cardinality(ev) - Cardinality(dropped)
    BY DEF LoadInv, LoadAccounting
  <2>2. CASE Same(i)
    BY <1>4, <2>1, <2>2 DEF Same
  <2>3. numClients[i] \in Int /\ Cardinality(ev) \in Nat /\ Cardinality(dropped) \in Nat
    BY <1>1
  <2>4. CASE Registers(i)
    <3>1. handler[i].ses \notin events[i]
      BY <2>4 DEF Registers, LoadInv, OnePlace, OnePlaceAt
    <3>2. Cardinality(ev \cup {handler[i].ses}) = Cardinality(ev) + 1
      BY <1>1, <3>1, FS_AddElement
    <3>3. numClients[i] = Cardinality(ev) - Cardinality(dropped)
      BY <1>4, <2>1, <2>4 DEF Registers
    <3>4. /\ numClients'[i] = numClients[i] + 1
          /\ events'[i] = ev \cup {handler[i].ses} /\ links'[i] = links[i]
      BY <2>4 DEF Registers
    <3> HIDE DEF ev
    <3> QED
      BY <2>3, <3>2, <3>3, <3>4
  <2>5. CASE Discards(i)
    <3>1. PICK p \in events[i] \cup links[i] : /\ events'[i] = events[i] \ {p}
                                               /\ links'[i] = links[i] \ {p}
      BY <2>5 DEF Discards
    <3>2. numClients[i] = Cardinality(ev) - Cardinality(dropped)
      BY <1>4, <2>1, <2>5 DEF Discards
    <3>3. numClients'[i] = numClients[i] - 1
      BY <2>5 DEF Discards
    <3>4. /\ events[i] \subseteq Sessions /\ links[i] \subseteq Servers \ {i}
          /\ Sessions \cap Servers = {}
      BY <1>1
    <3>5. CASE p \in events[i]
      <4>1. (Servers \ {i}) \ links'[i] = dropped
        BY <3>1, <3>4, <3>5
      <4>2. Cardinality(ev \ {p}) = Cardinality(ev) - 1
        BY <1>1, <3>5, FS_RemoveElement
      <4>3. events'[i] = ev \ {p}
        BY <3>1
      <4>4. Cardinality(events'[i]) = Cardinality(ev) - 1
        BY <4>2, <4>3
      <4>5. Cardinality((Servers \ {i}) \ links'[i]) = Cardinality(dropped)
        BY <4>1
      <4> HIDE DEF ev, dropped
      <4> QED
        BY <2>3, <3>2, <3>3, <4>4, <4>5
    <3>6. CASE p \in links[i]
      <4>1. events'[i] = ev
        BY <3>1, <3>4, <3>6
      <4>2. (Servers \ {i}) \ links'[i] = dropped \cup {p}
        BY <3>1, <3>4, <3>6
      <4>3. Cardinality(dropped \cup {p}) = Cardinality(dropped) + 1
        BY <1>1, <3>6, FS_AddElement
      <4>4. Cardinality(events'[i]) = Cardinality(ev)
        BY <4>1
      <4>5. Cardinality((Servers \ {i}) \ links'[i]) = Cardinality(dropped) + 1
        BY <4>2, <4>3
      <4> HIDE DEF ev, dropped
      <4> QED
        BY <2>3, <3>2, <3>3, <4>4, <4>5
    <3> QED
      BY <3>5, <3>6
  <2> QED
    BY <1>4, <2>2, <2>4, <2>5, FourWays DEF Ends, LoadInv
<1> QED
  BY <1>2, <1>3, <1>4 DEF RoutedPeer, LinksToOthers, LoadAccounting

LEMMA LoadInit == Init => LoadInv
<1> SUFFICES ASSUME Init
             PROVE  LoadInv
  OBVIOUS
<1>1. OnePlace
  BY DEF Init, OnePlace, OnePlaceAt, Idle
<1>2. RoutedPeer /\ LinksToOthers
  BY DEF Init, RoutedPeer, LinksToOthers, Idle
<1>3. ASSUME NEW i \in Servers
      PROVE  numClients[i] = Cardinality(events[i])
                               - Cardinality((Servers \ {i}) \ links[i])
  <2>1. events[i] = {} /\ (Servers \ {i}) \ links[i] = {} /\ numClients[i] = 0
    BY DEF Init
  <2> QED
    BY <2>1, FS_EmptySet
<1> QED
  BY <1>1, <1>2, <1>3 DEF LoadInv, LoadAccounting

(***************************************************************************)
(* numClients, which choose_server of the load balancer compares, is       *)
(* always the number of clients a running server selects on, less one for  *)
(* every link it has dropped: no registration, clean-up or failed route    *)
(* counts a session twice or forgets one.                                  *)
(***************************************************************************)
THEOREM LoadIsCounted == Spec => []LoadAccounting
<1>1. Init => LoadInv
  BY LoadInit
<1>2. TypeOK /\ LoadInv /\ [Next]_vars => LoadInv'
  BY OnePlaceStep, LoadStep DEF LoadInv
<1>3. LoadInv => LoadAccounting
  BY DEF LoadInv
<1> QED
  BY TypeCorrect, <1>1, <1>2, <1>3, PTL DEF Spec

-----------------------------------------------------------------------------

(***************************************************************************)
(* The login protocol.  Where a server has a session: waiting to be        *)
(* accepted or to give its username, in the drain h of its pending rows,   *)
(* in the table of the users who are online.                               *)
(***************************************************************************)
WaitsAt(i, s) ==
    \/ \E n \in DOMAIN backlog[i] : backlog[i][n] = s
    \/ handler[i].step = "hello" /\ handler[i].ses = s

DrainsFor(h, s) == h.step = "drain" /\ h.ses = s

OnlineAt(i, s) == \E u \in Users : online[i][u] = s

\* The rows handler h has still to write to session s.
RowsLeft(h, s) ==
    IF ~DrainsFor(h, s) THEN 0
    ELSE IF h.written THEN Len(h.rows) - 1 ELSE Len(h.rows)

\* The frames q: skip counts, then rows, left of the owed ones not yet among
\* them, and only when all are, live messages.
Fits(q, skip, owed, left) ==
    /\ left \in 0 .. owed
    /\ Len(q) >= skip + owed - left
    /\ left > 0 => Len(q) = skip + owed - left
    /\ \A k \in DOMAIN q :
         q[k].kind = IF k <= skip THEN "count"
                     ELSE IF k <= skip + owed - left THEN "row" ELSE "live"

\* What is on the way to a session in phase ph that has load rows to import.
FramesFit(ph, q, load, left) ==
    CASE ph = "greeted"   -> q # << >> => /\ q[1].kind = "count" /\ q[1].n \in Nat
                                          /\ Fits(q, 1, q[1].n, left)
      [] ph = "importing" -> Fits(q, 0, load, left)
      [] ph = "online"    -> Fits(q, 0, 0, left)
      [] OTHER            -> q = << >>

LoggingIn == {"greeted", "importing", "online", "exited"}

\* Only the server a session was sent to has it, and only once it has come.
AtHome(s) ==
    \A i \in Servers :
        WaitsAt(i, s) \/ DrainsFor(handler[i], s) \/ OnlineAt(i, s)
          => Arrived(phase, s) /\ i = home[s]

\* Before the registration nothing has been written to the session ...
Waiting(s) ==
    WaitsAt(home[s], s) =>
        /\ s2c[s] = << >>
        /\ phase[s] \in {"connected", "greeted", "exited"}

\* ... and after it at least the count has, unless it has been read.
Served(s) ==
    DrainsFor(handler[home[s]], s) \/ OnlineAt(home[s], s) =>
        /\ phase[s] \in LoggingIn
        /\ phase[s] = "greeted" => s2c[s] # << >>

SessionFits(s) ==
    /\ AtHome(s)
    /\ Waiting(s)
    /\ Served(s)
    /\ s \in greeted => phase[s] \in LoggingIn
    /\ FramesFit(phase[s], s2c[s], toLoad[s], RowsLeft(handler[home[s]], s))

LoginInv == \A s \in Sessions : SessionFits(s)

(***************************************************************************)
(* Reading from and writing to frames that fit.                            *)
(***************************************************************************)
LEMMA FitsRead ==
    ASSUME NEW q \in Seq(Frame), q # << >>, NEW owed \in Nat, NEW left
    PROVE  /\ Fits(q, 1, owed, left) => Fits(Tail(q), 0, owed, left)
           /\ Fits(q, 0, owed, left) /\ q[1].kind = "row"
                => owed > 0 /\ Fits(Tail(q), 0, owed - 1, left)
           /\ Fits(q, 0, 0, left) => Fits(Tail(q), 0, 0, left)
<1>1. /\ Len(q) \in Nat /\ Len(q) >= 1 /\ 1 \in DOMAIN q
      /\ Len(Tail(q)) = Len(q) - 1
      /\ DOMAIN q = 1 .. Len(q)
      /\ \A k \in DOMAIN Tail(q) :
           k \in Nat \ {0} /\ k + 1 \in DOMAIN q /\ Tail(q)[k] = q[k + 1]
  OBVIOUS
<1> DEFINE r == Tail(q)
<1>2. /\ Len(r) = Len(q) - 1
      /\ \A k \in DOMAIN r :
           k \in Nat \ {0} /\ k + 1 \in DOMAIN q /\ r[k] = q[k + 1]
  BY <1>1
<1> HIDE DEF r
<1>3. Fits(q, 1, owed, left) => Fits(r, 0, owed, left)
  BY <1>1, <1>2 DEF Fits
<1>4. Fits(q, 0, owed, left) /\ q[1].kind = "row" => owed > 0 /\ Fits(r, 0, owed - 1, left)
  <2> SUFFICES ASSUME Fits(q, 0, owed, left), q[1].kind = "row"
               PROVE  owed > 0 /\ Fits(r, 0, owed - 1, left)
    OBVIOUS
  <2>1. left \in 0 .. owed
    BY DEF Fits
  <2>2. 1 <= owed - left
    <3>1. q[1].kind = IF 1 <= 0 THEN "count"
                      ELSE IF 1 <= 0 + owed - left THEN "row" ELSE "live"
      BY <1>1 DEF Fits
    <3> QED
      BY <2>1, <3>1
  <2>3. owed > 0 /\ left \in 0 .. owed - 1
    BY <2>1, <2>2
  <2>4. /\ Len(r) >= 0 + (owed - 1) - left
        /\ left > 0 => Len(r) = 0 + (owed - 1) - left
    BY <1>1, <1>2, <2>1 DEF Fits
  <2>5. \A k \in DOMAIN r :
          r[k].kind = IF k <= 0 THEN "count"
                      ELSE IF k <= 0 + (owed - 1) - left THEN "row" ELSE "live"
    BY <1>1, <1>2, <2>1 DEF Fits
  <2> QED
    BY <2>3, <2>4, <2>5 DEF Fits
<1>5. Fits(q, 0, 0, left) => Fits(r, 0, 0, left)
  BY <1>1, <1>2 DEF Fits
<1> QED
  BY <1>3, <1>4, <1>5 DEF r

LEMMA FitsWritten ==
    ASSUME NEW q \in Seq(Frame), NEW f \in Frame,
           NEW skip \in Nat, NEW owed \in Nat, NEW left, Fits(q, skip, owed, left)
    PROVE  /\ left > 0 /\ f.kind = "row" => Fits(Append(q, f), skip, owed, left - 1)
           /\ left = 0 /\ f.kind = "live" => Fits(Append(q, f), skip, owed, 0)
<1> DEFINE r == Append(q, f)
<1>1. /\ Len(q) \in Nat
      /\ Len(r) = Len(q) + 1
      /\ \A k \in DOMAIN r : k \in Nat /\ ( \/ k \in DOMAIN q /\ k <= Len(q) /\ r[k] = q[k]
                                            \/ k = Len(q) + 1 /\ r[k] = f)
  OBVIOUS
<1>2. left \in 0 .. owed
  BY DEF Fits
<1> HIDE DEF r
<1>3. ASSUME left > 0, f.kind = "row"
      PROVE  Fits(r, skip, owed, left - 1)
  <2>1. Len(q) = skip + owed - left
    BY <1>3 DEF Fits
  <2>2. left - 1 \in 0 .. owed /\ Len(r) = skip + owed - (left - 1)
    BY <1>1, <1>2, <1>3, <2>1
  <2>3. ASSUME NEW k \in DOMAIN r
        PROVE  r[k].kind = IF k <= skip THEN "count"
                           ELSE IF k <= skip + owed - (left - 1) THEN "row" ELSE "live"
    <3>1. CASE k \in DOMAIN q /\ k <= Len(q) /\ r[k] = q[k]
      BY <1>1, <1>2, <2>1, <3>1 DEF Fits
    <3>2. CASE k = Len(q) + 1 /\ r[k] = f
      BY <1>2, <1>3, <2>1, <3>2
    <3> QED
      BY <1>1, <3>1, <3>2
  <2> QED
    BY <2>2, <2>3 DEF Fits
<1>4. ASSUME left = 0, f.kind = "live"
      PROVE  Fits(r, skip, owed, 0)
  <2>1. Len(q) >= skip + owed
    BY <1>4 DEF Fits
  <2>2. ASSUME NEW k \in DOMAIN r
        PROVE  r[k].kind = IF k <= skip THEN "count"
                           ELSE IF k <= skip + owed - 0 THEN "row" ELSE "live"
    BY <1>1, <1>4, <2>1 DEF Fits
  <2> QED
    BY <1>1, <2>1, <2>2 DEF Fits
<1> QED
  BY <1>3, <1>4 DEF r

\* What a login finds first is what it expects.
LEMMA FitsExpected ==
    ASSUME TypeOK, NEW s \in Sessions, SessionFits(s), s2c[s] # << >>
    PROVE  /\ phase[s] \in {"greeted", "importing", "online"}
           /\ Head(s2c[s]).kind = CASE phase[s] = "greeted"   -> "count"
                                    [] phase[s] = "importing" -> "row"
                                    [] phase[s] = "online"    -> "live"
<1> DEFINE q == s2c[s]
           left == RowsLeft(handler[home[s]], s)
<1>1. q \in Seq(Frame) /\ toLoad[s] \in Nat /\ phase[s] \in Phases
      /\ (phase[s] = "importing" => toLoad[s] > 0)
  BY DEF TypeOK
<1>2. 1 \in DOMAIN q /\ Len(q) \in Nat /\ Len(q) >= 1 /\ Head(q) = q[1]
  BY <1>1
<1>3. FramesFit(phase[s], q, toLoad[s], left)
  BY DEF SessionFits
<1> HIDE DEF q, left
<1>4. phase[s] \in {"greeted", "importing", "online"}
  BY <1>2, <1>3, q # << >> DEF FramesFit, q
<1>5. CASE phase[s] = "greeted"
  BY <1>2, <1>3, <1>5 DEF FramesFit, q
<1>6. CASE phase[s] = "importing"
  <2>1. Fits(q, 0, toLoad[s], left)
    BY <1>3, <1>6 DEF FramesFit
  <2>2. left \in 0 .. toLoad[s]
    BY <2>1 DEF Fits
  <2>3. q[1].kind = "row"
    BY <1>1, <1>2, <1>6, <2>1, <2>2 DEF Fits
  <2> QED
    BY <1>2, <1>6, <2>3 DEF q
<1>7. CASE phase[s] = "online"
  <2>1. Fits(q, 0, 0, left)
    BY <1>3, <1>7 DEF FramesFit
  <2>2. q[1].kind = "live"
    BY <1>2, <2>1 DEF Fits
  <2> QED
    BY <1>2, <1>7, <2>2 DEF q
<1> QED
  BY <1>4, <1>5, <1>6, <1>7
-----------------------------------------------------------------------------

(***************************************************************************)
(* What a step that is not about session s leaves as it was.               *)
(***************************************************************************)
SessionSame(s) ==
    /\ phase'[s] = phase[s]
    /\ home'[s] = home[s]
    /\ toLoad'[s] = toLoad[s]
    /\ s2c'[s] = s2c[s]
    /\ s \in greeted' => s \in greeted

ServersSame(s) ==
    \A i \in Servers :
        /\ WaitsAt(i, s)' => WaitsAt(i, s)
        /\ DrainsFor(handler'[i], s) => DrainsFor(handler[i], s)
        /\ OnlineAt(i, s)' => OnlineAt(i, s)
        /\ RowsLeft(handler'[i], s) = RowsLeft(handler[i], s)

LEMMA SameFits ==
    ASSUME TypeOK, NEW s \in Sessions, SessionFits(s), SessionSame(s), ServersSame(s)
    PROVE  SessionFits(s)'
<1>1. home[s] \in Servers
  BY DEF TypeOK
<1>2. AtHome(s)'
  BY DEF SessionFits, AtHome, SessionSame, ServersSame, Arrived
<1>3. Waiting(s)'
  BY <1>1 DEF SessionFits, Waiting, SessionSame, ServersSame
<1>4. Served(s)'
  BY <1>1 DEF SessionFits, Served, SessionSame, ServersSame
<1>5. (s \in greeted => phase[s] \in LoggingIn)'
  BY DEF SessionFits, SessionSame
<1>6. FramesFit(phase[s], s2c[s], toLoad[s], RowsLeft(handler[home[s]], s))'
  BY <1>1 DEF SessionFits, SessionSame, ServersSame
<1> QED
  BY <1>2, <1>3, <1>4, <1>5, <1>6 DEF SessionFits

\* A write to another session, and what a write to s does.
LEMMA WrittenElsewhere ==
    ASSUME TypeOK, NEW s \in Sessions, NEW t \in Sessions, NEW f, WriteToClient(t, f)
    PROVE  /\ t # s => s2c'[s] = s2c[s]
           /\ t = s /\ phase[s] = "exited" => s2c'[s] = s2c[s]
           /\ t = s /\ phase[s] # "exited" => s2c'[s] = Append(s2c[s], f)
BY DEF TypeOK, WriteToClient

LEMMA WhoSees ==
    ASSUME TypeOK, [Next]_vars, NEW s \in Sessions
    PROVE  \/ SessionSame(s)
           \/ ClientStep(s) \/ Exit(s) \/ \E k \in Servers : Allocate(s, k)
           \/ \E i \in Servers :
                \/ (RegisterClient(i) \/ WriteRow(i)) /\ handler[i].ses = s
                \/ RouteLocal(i) /\ RecipientSocket(i) = s
<1>1. /\ phase \in [Sessions -> Phases]
      /\ home \in [Sessions -> Servers]
      /\ toLoad \in [Sessions -> Nat]
      /\ s2c \in [Sessions -> Seq(Frame)]
  BY DEF TypeOK
<1>2. ASSUME UNCHANGED << sessionVars, s2c >>
      PROVE  SessionSame(s)
  BY <1>2 DEF SessionSame, sessionVars, readerVars
<1>3. CASE UNCHANGED vars \/ CommitAllocation
  BY <1>2, <1>3 DEF vars, CommitAllocation, Recorded
<1>4. ASSUME NEW t \in Sessions \ {s},
             ClientStep(t) \/ Exit(t) \/ \E k \in Servers : Allocate(t, k)
      PROVE  SessionSame(s)
  <2>1. CASE \E k \in Servers : Allocate(t, k)
    BY <1>1, <2>1 DEF Allocate, SessionSame
  <2>2. CASE Connect(t)
    BY <1>1, <2>2 DEF Connect, SessionSame
  <2>3. CASE Greet(t)
    BY <1>1, <2>3 DEF Greet, SessionSame
  <2>4. CASE ReadCount(t)
    BY <1>1, <2>4 DEF ReadCount, SessionSame
  <2>5. CASE ImportRow(t)
    BY <1>1, <2>5 DEF ImportRow, SessionSame
  <2>6. CASE ReceiveMessage(t)
    BY <1>1, <2>6 DEF ReceiveMessage, SessionSame
  <2>7. CASE Exit(t)
    BY <1>1, <2>7 DEF Exit, SessionSame
  <2>8. CASE AskUser(t)
    BY <2>8 DEF AskUser, SessionSame
  <2> QED
    BY <1>4, <2>1, <2>2, <2>3, <2>4, <2>5, <2>6, <2>7, <2>8 DEF ClientStep
<1>5. ASSUME NEW t \in Sessions, NEW v \in Users, Send(t, v)
      PROVE  SessionSame(s)
  BY <1>2, <1>5 DEF Send
<1>6. ASSUME NEW i \in Servers, RegisterClient(i), handler[i].ses # s
      PROVE  SessionSame(s)
  <2>1. handler[i].ses \in Sessions
    BY <1>6, HandlerFields DEF RegisterClient, TypeOK
  <2>2. s2c'[s] = s2c[s]
    BY <1>6, <2>1, WrittenElsewhere DEF RegisterClient
  <2> QED
    BY <1>6, <2>2 DEF RegisterClient, SessionSame, sessionVars, readerVars
<1>7. ASSUME NEW i \in Servers, WriteRow(i), handler[i].ses # s
      PROVE  SessionSame(s)
  <2>1. handler[i].ses \in Sessions
    BY <1>7, HandlerFields DEF WriteRow, TypeOK
  <2>2. s2c'[s] = s2c[s]
    BY <1>7, <2>1, WrittenElsewhere DEF WriteRow
  <2> QED
    BY <1>7, <2>2 DEF WriteRow, SessionSame, sessionVars, readerVars
<1>8. ASSUME NEW i \in Servers, RouteLocal(i), RecipientSocket(i) # s
      PROVE  SessionSame(s)
  <2>1. RecipientSocket(i) \in Sessions
    BY <1>8, HandlerFields DEF RouteLocal, RecipientSocket, TypeOK, Message
  <2>2. s2c'[s] = s2c[s]
    BY <1>8, <2>1, WrittenElsewhere DEF RouteLocal
  <2> QED
    BY <1>8, <2>2 DEF RouteLocal, SessionSame, sessionVars, readerVars
<1>9. ASSUME NEW i \in Servers,
             \/ AcceptConnection(i) \/ NoUsername(i) \/ DeleteRow(i)
             \/ RoutePending(i) \/ RouteForward(i) \/ RouteFails(i)
      PROVE  SessionSame(s)
  BY <1>2, <1>9 DEF AcceptConnection, NoUsername, DeleteRow, RoutePending, RouteForward,
                    RouteFails
<1>10. ASSUME NEW i \in Servers, NEW p \in Peers, ServeClient(i, p)
       PROVE  SessionSame(s)
  BY <1>2, <1>10 DEF ServeClient, ReadMessage, CloseClient, OrphanServed, LinkLost, Crash
<1> QED
  BY <1>3, <1>4, <1>5, <1>6, <1>7, <1>8, <1>9, <1>10 DEF Next, HandlerStep

\* One handler goes on, the backlogs and the table only shrink.
LEMMA HandlerGoesOn ==
    ASSUME TypeOK, NEW s \in Sessions, NEW k \in Servers, NEW h,
           handler' = [handler EXCEPT ![k] = h],
           h.step = "hello" /\ h.ses = s => WaitsAt(k, s),
           DrainsFor(h, s) => DrainsFor(handler[k], s),
           RowsLeft(h, s) = RowsLeft(handler[k], s),
           \A i \in Servers : \A n \in DOMAIN backlog'[i] :
               \E m \in DOMAIN backlog[i] : backlog[i][m] = backlog'[i][n],
           \A i \in Servers : OnlineAt(i, s)' => OnlineAt(i, s)
    PROVE  ServersSame(s)
<1> SUFFICES ASSUME NEW i \in Servers
             PROVE  /\ WaitsAt(i, s)' => WaitsAt(i, s)
                    /\ DrainsFor(handler'[i], s) => DrainsFor(handler[i], s)
                    /\ RowsLeft(handler'[i], s) = RowsLeft(handler[i], s)
  BY DEF ServersSame
<1>1. handler'[i] = IF i = k THEN h ELSE handler[i]
  BY DEF TypeOK
<1>2. WaitsAt(i, s)' => WaitsAt(i, s)
  BY <1>1 DEF WaitsAt
<1> QED
  BY <1>1, <1>2

LEMMA OnlineShrinks ==
    ASSUME TypeOK, NEW s \in Sessions, NEW i \in Servers, [Next]_vars,
           \A k \in Servers : RegisterClient(k) => handler[k].ses # s
    PROVE  OnlineAt(i, s)' => OnlineAt(i, s)
<1> USE SessionsAssumption
<1>1. CASE online' = online
  BY <1>1 DEF OnlineAt
<1>2. ASSUME NEW k \in Servers, RegisterClient(k)
      PROVE  OnlineAt(i, s)' => OnlineAt(i, s)
  <2> DEFINE t == handler[k].ses
             u == UserOf[t]
  <2>1. t # s /\ online' = [online EXCEPT ![k][u] = t]
    BY <1>2 DEF RegisterClient
  <2> HIDE DEF t, u
  <2>2. \A v \in Users : online'[i][v] = online[i][v] \/ online'[i][v] = t
    BY <2>1 DEF TypeOK
  <2> QED
    BY <2>1, <2>2 DEF OnlineAt
<1>3. ASSUME NEW k \in Servers, Crash(k)
      PROVE  OnlineAt(i, s)' => OnlineAt(i, s)
  <2>1. \A v \in Users : online'[i][v] = online[i][v] \/ online'[i][v] = NoSession
    BY <1>3 DEF Crash, TypeOK
  <2> QED
    BY <2>1 DEF OnlineAt
<1>4. ASSUME NEW k \in Servers, NEW p \in Peers, Discard(k, p)
      PROVE  OnlineAt(i, s)' => OnlineAt(i, s)
  <2>1. CASE p \in Servers
    BY <1>1, <1>4, <2>1 DEF Discard
  <2>2. CASE p \notin Servers
    <3> DEFINE u == UserOf[p]
    <3>1. online' = [online EXCEPT ![k][u] = NoSession]
      BY <1>4, <2>2 DEF Discard
    <3> HIDE DEF u
    <3>2. \A v \in Users : online'[i][v] = online[i][v] \/ online'[i][v] = NoSession
      BY <3>1 DEF TypeOK
    <3> QED
      BY <3>2 DEF OnlineAt
  <2> QED
    BY <2>1, <2>2
<1> QED
  BY <1>1, <1>2, <1>3, <1>4, OnlineWriters DEF OnlineWritten

LEMMA WhoServes ==
    ASSUME TypeOK, [Next]_vars, NEW s \in Sessions
    PROVE  \/ ServersSame(s)
           \/ Connect(s)
           \/ \E i \in Servers : (RegisterClient(i) \/ WriteRow(i)) /\ handler[i].ses = s
<1> SUFFICES ASSUME \A k \in Servers : RegisterClient(k) => handler[k].ses # s
             PROVE  \/ ServersSame(s)
                    \/ Connect(s)
                    \/ \E i \in Servers : WriteRow(i) /\ handler[i].ses = s
  OBVIOUS
<1>o. \A i \in Servers : OnlineAt(i, s)' => OnlineAt(i, s)
  BY OnlineShrinks
<1> HIDE DEF OnlineAt
<1>1. /\ handler \in [Servers -> Handler]
      /\ backlog \in [Servers -> Seq(Sessions)]
      /\ home \in [Sessions -> Servers]
  BY DEF TypeOK
<1>2. ASSUME UNCHANGED << handler, backlog >>
      PROVE  ServersSame(s)
  BY <1>o, <1>2 DEF ServersSame, WaitsAt
<1>3. ASSUME NEW k \in Servers, NEW h, handler' = [handler EXCEPT ![k] = h],
             ~(h.step = "hello" /\ h.ses = s),
             DrainsFor(h, s) => DrainsFor(handler[k], s),
             RowsLeft(h, s) = RowsLeft(handler[k], s),
             backlog' = backlog
      PROVE  ServersSame(s)
  BY <1>o, <1>3, HandlerGoesOn
<1>4. ASSUME NEW k \in Servers, NEW h, handler' = [handler EXCEPT ![k] = h],
             ~(h.step = "hello" /\ h.ses = s), ~DrainsFor(h, s), ~DrainsFor(handler[k], s),
             backlog' = backlog
      PROVE  ServersSame(s)
  BY <1>3, <1>4 DEF RowsLeft
<1>5. CASE UNCHANGED vars \/ CommitAllocation
  BY <1>2, <1>5 DEF vars, CommitAllocation
<1>6. ASSUME NEW t \in Sessions \ {s}, Connect(t)
      PROVE  ServersSame(s)
  <2>1. /\ backlog' = [backlog EXCEPT ![home[t]] = Append(@, t)]
        /\ handler' = handler
    BY <1>6 DEF Connect
  <2>2. ASSUME NEW i \in Servers, NEW n \in DOMAIN backlog'[i], backlog'[i][n] = s
        PROVE  n \in DOMAIN backlog[i] /\ backlog[i][n] = s
    <3>1. backlog[i] \in Seq(Sessions) /\ t # s
      BY <1>1
    <3>2. backlog'[i] = backlog[i] \/ backlog'[i] = Append(backlog[i], t)
      BY <1>1, <2>1
    <3> QED
      BY <2>2, <3>1, <3>2, AppendElements
  <2> QED
    BY <1>o, <2>1, <2>2 DEF ServersSame, WaitsAt
<1>7. ASSUME NEW t \in Sessions,
             \/ Greet(t) \/ ReadCount(t) \/ ImportRow(t) \/ ReceiveMessage(t)
             \/ AskUser(t) \/ Exit(t)
             \/ (\E k \in Servers : Allocate(t, k)) \/ (\E v \in Users : Send(t, v))
      PROVE  ServersSame(s)
  BY <1>2, <1>7 DEF Greet, ReadCount, ImportRow, ReceiveMessage, AskUser, Exit, Allocate,
         Send
<1>8. ASSUME NEW k \in Servers, AcceptConnection(k)
      PROVE  ServersSame(s)
  <2> DEFINE h == Hello(Head(backlog[k]))
  <2>1. /\ handler[k] = Idle /\ backlog[k] # << >>
        /\ handler' = [handler EXCEPT ![k] = h]
        /\ backlog' = [backlog EXCEPT ![k] = Tail(@)]
    BY <1>8 DEF AcceptConnection, Loop
  <2>2. /\ backlog[k] \in Seq(Sessions) /\ 1 \in DOMAIN backlog[k]
        /\ Head(backlog[k]) = backlog[k][1]
    BY <1>1, <2>1
  <2>3. h.step = "hello" /\ h.ses = backlog[k][1]
    BY <2>2 DEF Hello
  <2>4. ~DrainsFor(h, s) /\ ~DrainsFor(handler[k], s)
    BY <2>1, <2>3 DEF DrainsFor, Idle
  <2> HIDE DEF h
  <2>5. h.ses = s => WaitsAt(k, s)
    BY <2>2, <2>3 DEF WaitsAt
  <2>6. \A i \in Servers : \A n \in DOMAIN backlog'[i] :
          \E m \in DOMAIN backlog[i] : backlog[i][m] = backlog'[i][n]
    <3> SUFFICES ASSUME NEW i \in Servers, NEW n \in DOMAIN backlog'[i]
                 PROVE  \E m \in DOMAIN backlog[i] : backlog[i][m] = backlog'[i][n]
      OBVIOUS
    <3>1. CASE i # k
      BY <1>1, <2>1, <3>1
    <3>2. CASE i = k
      <4>1. backlog'[i] = Tail(backlog[k])
        BY <1>1, <2>1, <3>2
      <4>2. n + 1 \in DOMAIN backlog[k] /\ Tail(backlog[k])[n] = backlog[k][n + 1]
        BY <2>1, <2>2, <4>1, TailElements
      <4> QED
        BY <3>2, <4>1, <4>2
    <3> QED
      BY <3>1, <3>2
  <2> QED
    BY <1>o, <2>1, <2>4, <2>5, <2>6, HandlerGoesOn DEF RowsLeft
<1>9. ASSUME NEW k \in Servers,
             \/ NoUsername(k) \/ RouteLocal(k) \/ RoutePending(k)
             \/ RouteForward(k) \/ RouteFails(k)
      PROVE  ServersSame(s)
  <2>1. handler[k].step \in {"hello", "route"} /\ handler' = [handler EXCEPT ![k] = Idle]
        /\ backlog' = backlog
    BY <1>9 DEF NoUsername, RouteLocal, RoutePending, RouteForward, RouteFails, Elsewhere
  <2> QED
    BY <1>4, <2>1 DEF Idle, DrainsFor
<1>10. ASSUME NEW k \in Servers, RegisterClient(k)
       PROVE  ServersSame(s)
  <2>1. handler[k].step = "hello" /\ handler[k].ses # s /\ backlog' = backlog
    BY <1>10 DEF RegisterClient
  <2>2. PICK q : handler' = [handler EXCEPT ![k] = Drain(handler[k].ses, q)]
    BY <1>10 DEF RegisterClient
  <2>3. LET h == Drain(handler[k].ses, q)
        IN  h.step # "hello" /\ ~DrainsFor(h, s) /\ ~DrainsFor(handler[k], s)
    BY <2>1 DEF Drain, Idle, DrainsFor
  <2> QED
    BY <1>4, <2>1, <2>2, <2>3
<1>11. ASSUME NEW k \in Servers, WriteRow(k), handler[k].ses # s
       PROVE  ServersSame(s)
  <2> DEFINE h == [handler[k] EXCEPT !.written = TRUE]
  <2>1. /\ handler[k].step = "drain" /\ backlog' = backlog
        /\ handler' = [handler EXCEPT ![k] = h]
    BY <1>11 DEF WriteRow
  <2>2. h.step = "drain" /\ h.ses = handler[k].ses
    BY <1>1, <2>1, DrainFields
  <2> HIDE DEF h
  <2> QED
    BY <1>4, <1>11, <2>1, <2>2 DEF DrainsFor
<1>12. ASSUME NEW k \in Servers, DeleteRow(k)
       PROVE  ServersSame(s)
  <2> DEFINE t == handler[k].ses
             q == handler[k].rows
             h == Drain(t, Tail(q))
  <2>1. /\ handler[k].step = "drain" /\ handler[k].written /\ backlog' = backlog
        /\ handler' = [handler EXCEPT ![k] = h]
    BY <1>12 DEF DeleteRow
  <2>2. q \in Seq(Row) /\ q # << >>
    BY <1>1, <2>1, HandlerFields
  <2>3. Len(Tail(q)) = Len(q) - 1 /\ (Tail(q) = << >> => Len(q) - 1 = 0)
    <3> HIDE DEF q
    <3>1. Len(Tail(q)) = Len(q) - 1
      BY <2>2
    <3>2. Tail(q) = << >> => Len(Tail(q)) = 0
      <4> DEFINE r == Tail(q)
      <4>1. r = << >> => Len(r) = 0
        <5> HIDE DEF r
        <5> QED
          OBVIOUS
      <4> QED
        BY <4>1
    <3> QED
      BY <3>1, <3>2
  <2>4. h.step # "hello" /\ (DrainsFor(h, s) => t = s)
    BY DEF Drain, Idle, DrainsFor
  <2>5. CASE t # s
    BY <1>4, <2>1, <2>4, <2>5 DEF DrainsFor
  <2>6. CASE t = s
    <3>1. RowsLeft(handler[k], s) = Len(q) - 1
      BY <2>1, <2>6 DEF RowsLeft, DrainsFor
    <3>2. RowsLeft(h, s) = Len(q) - 1
      <4>1. CASE Tail(q) = << >>
        <5>1. h = Idle
          BY <4>1 DEF Drain
        <5>2. RowsLeft(Idle, s) = 0
          BY DEF RowsLeft, DrainsFor, Idle
        <5>3. Len(q) - 1 = 0
          BY <2>3, <4>1
        <5> HIDE DEF h, q
        <5> QED
          BY <5>1, <5>2, <5>3
      <4>2. CASE Tail(q) # << >>
        <5>1. h.step = "drain" /\ h.ses = s /\ h.rows = Tail(q) /\ ~h.written
          BY <2>6, <4>2 DEF Drain
        <5>2. RowsLeft(h, s) = Len(Tail(q))
          <6> HIDE DEF h, q
          <6> QED
            BY <5>1 DEF RowsLeft, DrainsFor
        <5> QED
          BY <2>3, <5>2
      <4> QED
        BY <4>1, <4>2
    <3>3. DrainsFor(handler[k], s)
      BY <2>1, <2>6 DEF DrainsFor
    <3> HIDE DEF h, q
    <3> QED
      BY <1>3, <2>1, <2>4, <3>1, <3>2, <3>3
  <2> QED
    BY <2>5, <2>6
<1>13. ASSUME NEW k \in Servers, NEW p \in Peers, ReadMessage(k, p)
       PROVE  ServersSame(s)
  <2>1. handler[k] = Idle /\ backlog' = backlog
    BY <1>13 DEF ReadMessage, Loop
  <2>2. PICK m : handler' = [handler EXCEPT ![k] = Route(p, m, connectedto[m.to])]
    BY <1>13 DEF ReadMessage
  <2>3. LET h == Route(p, m, connectedto[m.to])
        IN  h.step # "hello" /\ ~DrainsFor(h, s) /\ ~DrainsFor(handler[k], s)
    BY <2>1 DEF Route, Idle, DrainsFor
  <2> QED
    BY <1>4, <2>1, <2>2, <2>3
<1>14. ASSUME NEW k \in Servers, NEW t \in Sessions, CloseClient(k, t)
       PROVE  ServersSame(s)
  BY <1>2, <1>14 DEF CloseClient
<1>15. ASSUME NEW k \in Servers, Crash(k)
       PROVE  ServersSame(s)
  <2>1. handler' = handler /\ backlog' = [backlog EXCEPT ![k] = << >>]
    BY <1>15 DEF Crash
  <2>2. \A i \in Servers : backlog'[i] = backlog[i] \/ backlog'[i] = << >>
    BY <1>1, <2>1
  <2> QED
    BY <1>o, <2>1, <2>2 DEF ServersSame, WaitsAt
<1> QED
  BY <1>5, <1>6, <1>7, <1>8, <1>9, <1>10, <1>11, <1>12, <1>13, <1>14, <1>15
     DEF Next, ClientStep, HandlerStep, ServeClient, LinkLost, OrphanServed

-----------------------------------------------------------------------------

(***************************************************************************)
(* The steps of session s itself.                                          *)
(***************************************************************************)

\* Such a step changes nothing at the servers but, on arrival, a backlog.
ServersAlone == UNCHANGED << handler, backlog, online, home >>

LEMMA AloneSame ==
    ASSUME ServersAlone, NEW s
    PROVE  /\ \A i : WaitsAt(i, s)' <=> WaitsAt(i, s)
           /\ \A i : OnlineAt(i, s)' <=> OnlineAt(i, s)
           /\ \A i : DrainsFor(handler'[i], s) <=> DrainsFor(handler[i], s)
           /\ RowsLeft(handler'[home'[s]], s) = RowsLeft(handler[home[s]], s)
BY DEF ServersAlone, WaitsAt, OnlineAt

\* No server has a session that has not arrived, and nothing is written to it.
LEMMA NotYet ==
    ASSUME TypeOK, NEW s \in Sessions, SessionFits(s), ~Arrived(phase, s)
    PROVE  /\ \A i \in Servers :
                ~WaitsAt(i, s) /\ ~DrainsFor(handler[i], s) /\ ~OnlineAt(i, s)
           /\ s2c[s] = << >>
           /\ s \notin greeted
<1>1. phase[s] \in {"start", "redirected"}
  BY DEF Arrived
<1>2. \A i \in Servers :
        ~WaitsAt(i, s) /\ ~DrainsFor(handler[i], s) /\ ~OnlineAt(i, s)
  BY DEF SessionFits, AtHome
<1>3. s2c[s] = << >>
  BY <1>1 DEF SessionFits, FramesFit
<1>4. s \notin greeted
  BY <1>1 DEF SessionFits, LoggingIn
<1> QED
  BY <1>2, <1>3, <1>4

LEMMA AllocateFits ==
    ASSUME TypeOK, NEW s \in Sessions, SessionFits(s), NEW k \in Servers, Allocate(s, k)
    PROVE  SessionFits(s)'
<1>1. /\ phase[s] = "start" /\ phase' = [phase EXCEPT ![s] = "redirected"]
      /\ home' = [home EXCEPT ![s] = k]
      /\ UNCHANGED << greeted, handler, backlog, online, s2c >>
  BY DEF Allocate, socketVars
<1>2. phase'[s] = "redirected" /\ home'[s] = k
  BY <1>1 DEF TypeOK
<1>3. /\ \A i \in Servers :
           ~WaitsAt(i, s) /\ ~DrainsFor(handler[i], s) /\ ~OnlineAt(i, s)
      /\ s2c[s] = << >> /\ s \notin greeted
  BY <1>1, NotYet DEF Arrived
<1>4. \A i \in Servers :
        ~WaitsAt(i, s)' /\ ~DrainsFor(handler'[i], s) /\ ~OnlineAt(i, s)'
  BY <1>1, <1>3 DEF WaitsAt, OnlineAt
<1>5. AtHome(s)'
  BY <1>4 DEF AtHome
<1>6. Waiting(s)' /\ Served(s)'
  BY <1>2, <1>4 DEF Waiting, Served
<1>7. FramesFit(phase[s], s2c[s], toLoad[s], RowsLeft(handler[home[s]], s))'
  BY <1>1, <1>2, <1>3 DEF FramesFit
<1> QED
  BY <1>1, <1>3, <1>5, <1>6, <1>7 DEF SessionFits

LEMMA ConnectFits ==
    ASSUME TypeOK, NEW s \in Sessions, SessionFits(s), Connect(s)
    PROVE  SessionFits(s)'
<1>1. /\ phase[s] = "redirected" /\ phase' = [phase EXCEPT ![s] = "connected"]
      /\ backlog' = [backlog EXCEPT ![home[s]] = Append(@, s)]
      /\ UNCHANGED << greeted, home, handler, online, s2c >>
  BY DEF Connect, socketVars
<1>2. phase'[s] = "connected" /\ home[s] \in Servers
  BY <1>1 DEF TypeOK
<1>3. /\ \A i \in Servers :
           ~WaitsAt(i, s) /\ ~DrainsFor(handler[i], s) /\ ~OnlineAt(i, s)
      /\ s2c[s] = << >> /\ s \notin greeted
  BY <1>1, NotYet DEF Arrived
<1>4. \A i \in Servers : ~DrainsFor(handler'[i], s) /\ ~OnlineAt(i, s)'
  BY <1>1, <1>3 DEF OnlineAt
<1>5. \A i \in Servers \ {home[s]} : ~WaitsAt(i, s)'
  <2>1. \A i \in Servers \ {home[s]} : backlog'[i] = backlog[i]
    BY <1>1 DEF TypeOK
  <2> QED
    BY <1>1, <1>3, <2>1 DEF WaitsAt
<1>6. AtHome(s)'
  BY <1>1, <1>2, <1>4, <1>5 DEF AtHome, Arrived
<1>7. Waiting(s)' /\ Served(s)'
  BY <1>1, <1>2, <1>3, <1>4 DEF Waiting, Served
<1>8. FramesFit(phase[s], s2c[s], toLoad[s], RowsLeft(handler[home[s]], s))'
  BY <1>1, <1>2, <1>3 DEF FramesFit
<1> QED
  BY <1>1, <1>3, <1>6, <1>7, <1>8 DEF SessionFits

\* A step of the session after its arrival, which no server notices.
LEMMA LaterFits ==
    ASSUME TypeOK, NEW s \in Sessions, SessionFits(s), ServersAlone, Arrived(phase, s),
           phase'[s] \in LoggingIn,
           WaitsAt(home[s], s) => s2c'[s] = << >> /\ phase'[s] \in {"greeted", "exited"},
           phase'[s] = "greeted" /\ (DrainsFor(handler[home[s]], s) \/ OnlineAt(home[s], s))
             => s2c'[s] # << >>,
           FramesFit(phase'[s], s2c'[s], toLoad'[s], RowsLeft(handler[home[s]], s))
    PROVE  SessionFits(s)'
<1>1. home' = home /\ handler' = handler
  BY DEF ServersAlone
<1>2. Arrived(phase', s)
  BY DEF Arrived, LoggingIn
<1>3. AtHome(s)'
  BY <1>1, <1>2, AloneSame DEF SessionFits, AtHome
<1>4. Waiting(s)' /\ Served(s)'
  BY <1>1, AloneSame DEF Waiting, Served
<1>5. FramesFit(phase[s], s2c[s], toLoad[s], RowsLeft(handler[home[s]], s))'
  BY <1>1
<1> QED
  BY <1>3, <1>4, <1>5 DEF SessionFits

LEMMA GreetFits ==
    ASSUME TypeOK, NEW s \in Sessions, SessionFits(s), Greet(s)
    PROVE  SessionFits(s)'
<1>1. /\ phase[s] = "connected" /\ phase' = [phase EXCEPT ![s] = "greeted"]
      /\ ServersAlone /\ s2c' = s2c
  BY DEF Greet, socketVars, ServersAlone
<1>2. phase'[s] = "greeted" /\ Arrived(phase, s)
  BY <1>1 DEF TypeOK, Arrived
<1>3. s2c[s] = << >>
  BY <1>1 DEF SessionFits, FramesFit
<1>4. ~DrainsFor(handler[home[s]], s) /\ ~OnlineAt(home[s], s)
  BY <1>1 DEF SessionFits, Served, LoggingIn
<1>5. FramesFit(phase'[s], s2c'[s], toLoad'[s], RowsLeft(handler[home[s]], s))
  BY <1>1, <1>2, <1>3 DEF FramesFit
<1> QED
  BY <1>1, <1>2, <1>3, <1>4, <1>5, LaterFits DEF LoggingIn

LEMMA ExitFits ==
    ASSUME TypeOK, NEW s \in Sessions, SessionFits(s), Exit(s)
    PROVE  SessionFits(s)'
<1>1. /\ phase[s] \notin {"start", "exited"}
      /\ phase' = [phase EXCEPT ![s] = "exited"]
      /\ s2c' = [s2c EXCEPT ![s] = << >>]
      /\ ServersAlone /\ greeted' = greeted
  BY DEF Exit, socketVars, ServersAlone
<1>2. phase'[s] = "exited" /\ s2c'[s] = << >>
  BY <1>1 DEF TypeOK
<1>3. FramesFit(phase'[s], s2c'[s], toLoad'[s], RowsLeft(handler[home[s]], s))
  BY <1>2 DEF FramesFit
<1>4. CASE Arrived(phase, s)
  BY <1>1, <1>2, <1>3, <1>4, LaterFits DEF LoggingIn
<1>5. CASE ~Arrived(phase, s)
  <2>1. /\ \A i \in Servers :
             ~WaitsAt(i, s)' /\ ~DrainsFor(handler'[i], s) /\ ~OnlineAt(i, s)'
        /\ s \notin greeted
    BY <1>1, <1>5, NotYet, AloneSame
  <2>2. home'[s] \in Servers
    BY <1>1 DEF ServersAlone, TypeOK
  <2>3. AtHome(s)' /\ Waiting(s)' /\ Served(s)'
    BY <2>1, <2>2 DEF AtHome, Waiting, Served
  <2>4. RowsLeft(handler'[home'[s]], s) = RowsLeft(handler[home[s]], s)
    BY <1>1, AloneSame
  <2> QED
    BY <1>1, <1>3, <2>1, <2>3, <2>4 DEF SessionFits
<1> QED
  BY <1>4, <1>5

\* Reading a frame: what is left fits the phase that comes next.
LEMMA ReadFits ==
    ASSUME TypeOK, NEW s \in Sessions, SessionFits(s), ServersAlone,
           s2c[s] # << >>, phase[s] \in {"greeted", "importing", "online"},
           phase'[s] \in {"importing", "online"},
           FramesFit(phase'[s], s2c'[s], toLoad'[s], RowsLeft(handler[home[s]], s))
    PROVE  SessionFits(s)'
<1>1. Arrived(phase, s)
  BY DEF Arrived
<1>2. ~WaitsAt(home[s], s)
  BY DEF SessionFits, Waiting
<1> QED
  BY <1>1, <1>2, LaterFits DEF LoggingIn

LEMMA ReadCountFits ==
    ASSUME TypeOK, NEW s \in Sessions, SessionFits(s), ReadCount(s)
    PROVE  SessionFits(s)'
<1> DEFINE q == s2c[s]
           left == RowsLeft(handler[home[s]], s)
           n == q[1].n
<1>1. /\ phase[s] = "greeted" /\ q # << >>
      /\ phase' = [phase EXCEPT ![s] = AfterImport(Head(q).n)]
      /\ toLoad' = [toLoad EXCEPT ![s] = Head(q).n]
      /\ s2c' = [s2c EXCEPT ![s] = Tail(@)]
      /\ ServersAlone
  BY DEF ReadCount, socketVars, ServersAlone
<1>2. q \in Seq(Frame) /\ Head(q) = q[1]
  BY <1>1 DEF TypeOK
<1>3. phase'[s] = AfterImport(n) /\ toLoad'[s] = n /\ s2c'[s] = Tail(q)
  BY <1>1, <1>2 DEF TypeOK
<1>4. n \in Nat /\ Fits(q, 1, n, left)
  BY <1>1 DEF SessionFits, FramesFit
<1> HIDE DEF q, left, n
<1>5. Fits(Tail(q), 0, n, left)
  BY <1>1, <1>2, <1>4, FitsRead
<1>6. FramesFit(phase'[s], s2c'[s], toLoad'[s], left)
  BY <1>3, <1>4, <1>5 DEF FramesFit, AfterImport
<1>7. phase'[s] \in {"importing", "online"}
  BY <1>3 DEF AfterImport
<1> QED
  BY <1>1, <1>6, <1>7, ReadFits DEF q, left

LEMMA ImportRowFits ==
    ASSUME TypeOK, NEW s \in Sessions, SessionFits(s), ImportRow(s)
    PROVE  SessionFits(s)'
<1> DEFINE q == s2c[s]
           left == RowsLeft(handler[home[s]], s)
           n == toLoad[s] - 1
<1>1. /\ phase[s] = "importing" /\ q # << >> /\ Head(q).kind = "row"
      /\ phase' = [phase EXCEPT ![s] = AfterImport(n)]
      /\ toLoad' = [toLoad EXCEPT ![s] = n]
      /\ s2c' = [s2c EXCEPT ![s] = Tail(@)]
      /\ ServersAlone
  BY DEF ImportRow, socketVars, ServersAlone
<1>2. q \in Seq(Frame) /\ Head(q) = q[1] /\ toLoad[s] \in Nat
  BY <1>1 DEF TypeOK
<1>3. phase'[s] = AfterImport(n) /\ toLoad'[s] = n /\ s2c'[s] = Tail(q)
  BY <1>1 DEF TypeOK
<1>4. Fits(q, 0, toLoad[s], left)
  BY <1>1 DEF SessionFits, FramesFit
<1> HIDE DEF q, left
<1>5. toLoad[s] > 0 /\ Fits(Tail(q), 0, n, left)
  BY <1>1, <1>2, <1>4, FitsRead
<1>6. n \in Nat
  BY <1>2, <1>5
<1> HIDE DEF n
<1>7. FramesFit(phase'[s], s2c'[s], toLoad'[s], left)
  BY <1>3, <1>5, <1>6 DEF FramesFit, AfterImport
<1>8. phase'[s] \in {"importing", "online"}
  BY <1>3 DEF AfterImport
<1> QED
  BY <1>1, <1>7, <1>8, ReadFits DEF q, left

LEMMA ReceiveFits ==
    ASSUME TypeOK, NEW s \in Sessions, SessionFits(s), ReceiveMessage(s)
    PROVE  SessionFits(s)'
<1> DEFINE q == s2c[s]
           left == RowsLeft(handler[home[s]], s)
<1>1. /\ phase[s] = "online" /\ q # << >>
      /\ phase' = phase
      /\ s2c' = [s2c EXCEPT ![s] = Tail(@)]
      /\ ServersAlone
  BY DEF ReceiveMessage, socketVars, ServersAlone
<1>2. q \in Seq(Frame) /\ s2c'[s] = Tail(q)
  BY <1>1 DEF TypeOK
<1>3. Fits(q, 0, 0, left)
  BY <1>1 DEF SessionFits, FramesFit
<1> HIDE DEF q, left
<1>4. Fits(Tail(q), 0, 0, left)
  BY <1>1, <1>2, <1>3, FitsRead
<1>5. FramesFit(phase'[s], s2c'[s], toLoad'[s], left)
  BY <1>1, <1>2, <1>4 DEF FramesFit
<1> QED
  BY <1>1, <1>5, ReadFits DEF q, left

(***************************************************************************)
(* The steps that write to session s.                                      *)
(***************************************************************************)

\* Nothing the servers have session s for is new.
NoNewPlace(s) ==
    \A i \in Servers :
        /\ WaitsAt(i, s)' => WaitsAt(i, s)
        /\ DrainsFor(handler'[i], s) => DrainsFor(handler[i], s)
        /\ OnlineAt(i, s)' => OnlineAt(i, s)

LEMMA FrameFits ==
    ASSUME NEW q \in Seq(Frame), NEW f \in Frame, NEW ph, NEW load \in Nat, NEW left,
           ph \in {"greeted", "importing", "online"}, ph = "greeted" => q # << >>,
           FramesFit(ph, q, load, left)
    PROVE  /\ left > 0 /\ f.kind = "row" => FramesFit(ph, Append(q, f), load, left - 1)
           /\ left = 0 /\ f.kind = "live" => FramesFit(ph, Append(q, f), load, 0)
<1> DEFINE r == Append(q, f)
<1>1. q # << >> => r[1] = q[1]
  OBVIOUS
<1>2. ASSUME NEW skip \in Nat, NEW owed \in Nat, Fits(q, skip, owed, left)
      PROVE  /\ left > 0 /\ f.kind = "row" => Fits(r, skip, owed, left - 1)
             /\ left = 0 /\ f.kind = "live" => Fits(r, skip, owed, 0)
  BY <1>2, FitsWritten
<1> HIDE DEF r
<1>3. CASE ph = "greeted"
  BY <1>1, <1>2, <1>3 DEF FramesFit, r
<1>4. CASE ph = "importing"
  BY <1>2, <1>4 DEF FramesFit, r
<1>5. CASE ph = "online"
  BY <1>2, <1>5 DEF FramesFit, r
<1> QED
  BY <1>3, <1>4, <1>5

LEMMA WrittenFits ==
    ASSUME TypeOK, NEW s \in Sessions, SessionFits(s), NEW f \in Frame,
           WriteToClient(s, f), UNCHANGED sessionVars, NoNewPlace(s),
           DrainsFor(handler[home[s]], s) \/ OnlineAt(home[s], s),
           \/ /\ f.kind = "row" /\ RowsLeft(handler[home[s]], s) > 0
              /\ RowsLeft(handler'[home[s]], s) = RowsLeft(handler[home[s]], s) - 1
           \/ /\ f.kind = "live" /\ RowsLeft(handler[home[s]], s) = 0
              /\ RowsLeft(handler'[home[s]], s) = 0
    PROVE  SessionFits(s)'
<1> DEFINE left == RowsLeft(handler[home[s]], s)
<1>1. UNCHANGED << phase, greeted, home, toLoad >>
  BY DEF sessionVars, readerVars
<1>2. /\ s2c[s] \in Seq(Frame) /\ toLoad[s] \in Nat /\ home[s] \in Servers
      /\ phase[s] \in LoggingIn /\ (phase[s] = "greeted" => s2c[s] # << >>)
  BY DEF TypeOK, SessionFits, Served
<1>3. FramesFit(phase[s], s2c[s], toLoad[s], left)
  BY DEF SessionFits
<1>4. AtHome(s)'
  BY <1>1 DEF SessionFits, AtHome, NoNewPlace
<1>5. (s \in greeted => phase[s] \in LoggingIn)'
  BY <1>1 DEF SessionFits
<1>6. CASE phase[s] = "exited"
  <2>1. s2c'[s] = s2c[s]
    BY <1>6, WrittenElsewhere
  <2>2. s2c[s] = << >>
    BY <1>3, <1>6 DEF FramesFit
  <2>3. Waiting(s)' /\ Served(s)'
    BY <1>1, <1>6, <2>1, <2>2 DEF Waiting, Served, LoggingIn
  <2>4. FramesFit(phase[s], s2c[s], toLoad[s], RowsLeft(handler[home[s]], s))'
    BY <1>1, <1>6, <2>1, <2>2 DEF FramesFit
  <2> QED
    BY <1>4, <1>5, <2>3, <2>4 DEF SessionFits
<1>7. CASE phase[s] # "exited"
  <2>1. phase[s] \in {"greeted", "importing", "online"}
    BY <1>2, <1>7 DEF LoggingIn
  <2>2. s2c'[s] = Append(s2c[s], f)
    BY <1>7, WrittenElsewhere
  <2>3. ~WaitsAt(home[s], s)'
    <3>1. ~WaitsAt(home[s], s)
      BY <1>2, <2>1 DEF SessionFits, Waiting
    <3>2. WaitsAt(home[s], s)' => WaitsAt(home[s], s)
      <4>1. \A i \in Servers : i = home[s] => (WaitsAt(i, s)' => WaitsAt(i, s))
        BY DEF NoNewPlace
      <4> QED
        BY <1>1, <1>2, <4>1 DEF WaitsAt
    <3> QED
      BY <3>1, <3>2
  <2>4. s2c'[s] # << >>
    BY <1>2, <2>2
  <2>5. Waiting(s)' /\ Served(s)'
    BY <1>1, <1>2, <2>3, <2>4 DEF Waiting, Served
  <2>6. FramesFit(phase[s], s2c'[s], toLoad[s], RowsLeft(handler'[home[s]], s))
    <3> DEFINE q == s2c[s]
               ph == phase[s]
               load == toLoad[s]
               after == RowsLeft(handler'[home[s]], s)
    <3>1. /\ q \in Seq(Frame) /\ ph \in {"greeted", "importing", "online"}
          /\ load \in Nat /\ (ph = "greeted" => q # << >>)
          /\ FramesFit(ph, q, load, left)
      BY <1>2, <1>3, <2>1
    <3>2. \/ f.kind = "row" /\ left > 0 /\ after = left - 1
          \/ f.kind = "live" /\ left = 0 /\ after = 0
      OBVIOUS
    <3> HIDE DEF q, ph, load, left, after
    <3>3. FramesFit(ph, Append(q, f), load, after)
      BY <3>1, <3>2, FrameFits
    <3> QED
      BY <2>2, <3>3 DEF q, ph, load, after
  <2>7. FramesFit(phase[s], s2c[s], toLoad[s], RowsLeft(handler[home[s]], s))'
    BY <1>1, <2>6
  <2> QED
    BY <1>4, <1>5, <2>5, <2>7 DEF SessionFits
<1> QED
  BY <1>6, <1>7

LEMMA WriteRowFits ==
    ASSUME TypeOK, NEW s \in Sessions, SessionFits(s), NEW i \in Servers,
           WriteRow(i), handler[i].ses = s
    PROVE  SessionFits(s)'
<1> DEFINE h == [handler[i] EXCEPT !.written = TRUE]
           f == RowFrame(Head(handler[i].rows).msg)
<1>1. /\ handler[i].step = "drain" /\ ~handler[i].written
      /\ WriteToClient(s, f)
      /\ handler' = [handler EXCEPT ![i] = h]
      /\ UNCHANGED << sessionVars, backlog, online >>
  BY DEF WriteRow, socketVars
<1>2. handler[i] \in Handler /\ handler \in [Servers -> Handler]
  BY DEF TypeOK
<1>3. handler[i].rows \in Seq(Row) /\ handler[i].rows # << >>
  BY <1>1, <1>2, HandlerFields
<1>4. f \in Frame /\ f.kind = "row"
  <2>1. Head(handler[i].rows) \in Row
    BY <1>3, HeadTail
  <2> QED
    BY <2>1 DEF RowFrame, Frame, Row
<1>5. /\ h.step = "drain" /\ h.ses = handler[i].ses
      /\ h.rows = handler[i].rows /\ h.written
  BY <1>1, <1>2, DrainFields
<1>6. Len(handler[i].rows) \in Nat \ {0}
  <2> DEFINE q == handler[i].rows
  <2> HIDE DEF q
  <2>1. q \in Seq(Row) /\ q # << >>
    BY <1>3 DEF q
  <2>2. Len(q) \in Nat \ {0}
    BY <2>1
  <2> QED
    BY <2>2 DEF q
<1> HIDE DEF h, f
<1>7. DrainsFor(handler[i], s) /\ i = home[s]
  BY <1>1 DEF DrainsFor, SessionFits, AtHome
<1>8. handler'[i] = h /\ \A j \in Servers \ {i} : handler'[j] = handler[j]
  BY <1>1, <1>2
<1>9. NoNewPlace(s)
  BY <1>1, <1>5, <1>7, <1>8 DEF NoNewPlace, WaitsAt, OnlineAt
<1>10. RowsLeft(handler[i], s) = Len(handler[i].rows)
  BY <1>1, <1>7 DEF RowsLeft
<1>11. RowsLeft(handler'[i], s) = Len(handler[i].rows) - 1
  BY <1>1, <1>5, <1>8 DEF RowsLeft, DrainsFor
<1> QED
  BY <1>1, <1>4, <1>6, <1>7, <1>9, <1>10, <1>11, WrittenFits

LEMMA RouteLocalFits ==
    ASSUME TypeOK, NEW s \in Sessions, SessionFits(s), NEW i \in Servers,
           RouteLocal(i), RecipientSocket(i) = s
    PROVE  SessionFits(s)'
<1> DEFINE f == LiveFrame(handler[i].msg)
<1>1. /\ handler[i].step = "route" /\ WriteToClient(s, f)
      /\ handler' = [handler EXCEPT ![i] = Idle]
      /\ UNCHANGED << sessionVars, backlog, online >>
  BY DEF RouteLocal, socketVars
<1>2. handler[i].msg \in Message
  BY <1>1, HandlerFields DEF TypeOK
<1>3. f \in Frame /\ f.kind = "live"
  BY <1>2 DEF LiveFrame, Frame
<1>4. OnlineAt(i, s) /\ i = home[s]
  BY <1>2 DEF OnlineAt, RecipientSocket, Message, SessionFits, AtHome
<1> HIDE DEF f
<1>5. handler'[i] = Idle /\ \A j \in Servers \ {i} : handler'[j] = handler[j]
  BY <1>1 DEF TypeOK
<1>6. RowsLeft(handler[i], s) = 0 /\ RowsLeft(handler'[i], s) = 0
  BY <1>1, <1>5 DEF RowsLeft, DrainsFor, Idle
<1>7. NoNewPlace(s)
  BY <1>1, <1>5 DEF NoNewPlace, WaitsAt, OnlineAt, DrainsFor, Idle
<1> QED
  BY <1>1, <1>3, <1>4, <1>6, <1>7, WrittenFits

LEMMA RegisterClientFits ==
    ASSUME TypeOK, OnePlace, NEW s \in Sessions, SessionFits(s), NEW i \in Servers,
           RegisterClient(i), handler[i].ses = s
    PROVE  SessionFits(s)'
<1>1. /\ handler[i].step = "hello" /\ s \in greeted
      /\ online' = [online EXCEPT ![i][UserOf[s]] = s]
      /\ UNCHANGED << phase, greeted, home, toLoad, backlog >>
  BY DEF RegisterClient, sessionVars, readerVars
<1>2. PICK rows \in PendingFor(UserOf[s]) :
        /\ WriteToClient(s, CountFrame(Len(rows)))
        /\ handler' = [handler EXCEPT ![i] = Drain(s, rows)]
  BY DEF RegisterClient
<1> DEFINE n == Len(rows)
           h == Drain(s, rows)
<1>3. rows \in Seq(Row) /\ n \in Nat
  BY PendingForRows DEF TypeOK
<1>4. WaitsAt(i, s)
  BY <1>1 DEF WaitsAt
<1>5. i = home[s] /\ Arrived(phase, s)
  BY <1>4 DEF SessionFits, AtHome
<1>6. s2c[s] = << >> /\ phase[s] \in {"greeted", "exited"}
  BY <1>1, <1>4, <1>5 DEF SessionFits, Waiting, LoggingIn
<1>7. h.step # "hello" /\ RowsLeft(h, s) = n
  <2>1. CASE rows = << >>
    <3>1. h = Idle /\ n = 0
      BY <2>1 DEF Drain
    <3> HIDE DEF h, n
    <3> QED
      BY <3>1 DEF Idle, RowsLeft, DrainsFor
  <2>2. CASE rows # << >>
    <3>1. h.step = "drain" /\ h.ses = s /\ h.rows = rows /\ ~h.written
      BY <2>2 DEF Drain
    <3> HIDE DEF h
    <3> QED
      BY <3>1 DEF RowsLeft, DrainsFor
  <2> QED
    BY <2>1, <2>2
<1> HIDE DEF h, n
<1>8. handler'[i] = h /\ \A j \in Servers \ {i} : handler'[j] = handler[j]
  BY <1>2 DEF TypeOK, h
<1>9. ~WaitsAt(i, s)'
  BY <1>1, <1>7, <1>8 DEF WaitsAt, OnePlace, OnePlaceAt
<1>10. \A j \in Servers \ {i} : online'[j] = online[j]
  BY <1>1 DEF TypeOK
<1>11. AtHome(s)'
  <2> SUFFICES ASSUME NEW j \in Servers,
                      WaitsAt(j, s)' \/ DrainsFor(handler'[j], s) \/ OnlineAt(j, s)'
               PROVE  Arrived(phase', s) /\ j = home'[s]
    BY DEF AtHome
  <2>1. CASE j = i
    BY <1>1, <1>5, <2>1
  <2>2. CASE j # i
    <3>1. WaitsAt(j, s) \/ DrainsFor(handler[j], s) \/ OnlineAt(j, s)
      BY <1>1, <1>8, <1>10, <2>2 DEF WaitsAt, OnlineAt
    <3> QED
      BY <1>1, <3>1 DEF SessionFits, AtHome
  <2> QED
    BY <2>1, <2>2
<1>12. CASE phase[s] = "exited"
  <2>1. s2c'[s] = << >>
    BY <1>2, <1>6, <1>12, WrittenElsewhere
  <2>2. Waiting(s)' /\ Served(s)'
    BY <1>1, <1>12, <2>1 DEF Waiting, Served, LoggingIn
  <2>3. FramesFit(phase[s], s2c[s], toLoad[s], RowsLeft(handler[home[s]], s))'
    BY <1>1, <1>12, <2>1 DEF FramesFit
  <2> QED
    BY <1>1, <1>12, <1>11, <2>2, <2>3 DEF SessionFits, LoggingIn
<1>13. CASE phase[s] = "greeted"
  <2> DEFINE q == s2c'[s]
  <2>1. q = Append(<< >>, CountFrame(n))
    BY <1>2, <1>6, <1>13, WrittenElsewhere DEF n
  <2>2. /\ q # << >> /\ Len(q) = 1 /\ DOMAIN q = {1}
        /\ q[1].kind = "count" /\ q[1].n = n
    BY <2>1 DEF CountFrame
  <2>3. Waiting(s)' /\ Served(s)'
    BY <1>1, <1>5, <1>9, <1>13, <2>2 DEF Waiting, Served, LoggingIn
  <2>4. Fits(q, 1, n, n)
    <3> HIDE DEF q
    <3> QED
      BY <1>3, <2>2 DEF Fits, n
  <2>5. FramesFit("greeted", q, toLoad[s], n)
    <3> HIDE DEF q
    <3> QED
      BY <1>3, <2>2, <2>4 DEF FramesFit, n
  <2>6. FramesFit(phase[s], s2c[s], toLoad[s], RowsLeft(handler[home[s]], s))'
    BY <1>1, <1>5, <1>7, <1>8, <1>13, <2>5
  <2> QED
    BY <1>1, <1>11, <1>13, <2>3, <2>6 DEF SessionFits, LoggingIn
<1> QED
  BY <1>6, <1>12, <1>13

LEMMA LoginStep ==
    ASSUME TypeOK, OnePlace, LoginInv, [Next]_vars
    PROVE  LoginInv'
<1> SUFFICES ASSUME NEW s \in Sessions
             PROVE  SessionFits(s)'
  BY DEF LoginInv
<1>1. SessionFits(s)
  BY DEF LoginInv
<1>2. CASE SessionSame(s) /\ ServersSame(s)
  BY <1>1, <1>2, SameFits
<1>3. CASE ClientStep(s) \/ Exit(s) \/ \E k \in Servers : Allocate(s, k)
  <2>1. CASE AskUser(s)
    <3>1. UNCHANGED << phase, home, toLoad, s2c, greeted, handler, backlog, online >>
      BY <2>1 DEF AskUser, socketVars
    <3>2. SessionSame(s) /\ ServersSame(s)
      BY <3>1 DEF SessionSame, ServersSame, WaitsAt, OnlineAt
    <3> QED
      BY <1>1, <3>2, SameFits
  <2> QED
    BY <1>1, <1>3, <2>1, AllocateFits, ConnectFits, GreetFits, ReadCountFits, ImportRowFits,
       ReceiveFits, ExitFits DEF ClientStep
<1>4. ASSUME NEW i \in Servers,
             \/ (RegisterClient(i) \/ WriteRow(i)) /\ handler[i].ses = s
             \/ RouteLocal(i) /\ RecipientSocket(i) = s
      PROVE  SessionFits(s)'
  BY <1>1, <1>4, RegisterClientFits, WriteRowFits, RouteLocalFits
<1> QED
  BY <1>2, <1>3, <1>4, WhoSees, WhoServes DEF ClientStep

LEMMA LoginInit == Init => LoginInv
<1> SUFFICES ASSUME Init, NEW s \in Sessions
             PROVE  SessionFits(s)
  BY DEF LoginInv
<1>1. /\ phase[s] = "start" /\ s2c[s] = << >> /\ greeted = {}
      /\ \A i \in Servers : /\ backlog[i] = << >> /\ handler[i] = Idle
                            /\ \A u \in Users : online[i][u] = NoSession
  BY DEF Init
<1>2. home[s] \in Servers
  <2>1. (CHOOSE i \in Servers : TRUE) \in Servers
    BY ServersAssumption
  <2> QED
    BY <2>1 DEF Init
<1>3. \A i \in Servers :
        ~WaitsAt(i, s) /\ ~DrainsFor(handler[i], s) /\ ~OnlineAt(i, s)
  BY <1>1, SessionsAssumption DEF WaitsAt, DrainsFor, OnlineAt, Idle
<1>4. AtHome(s) /\ Waiting(s) /\ Served(s)
  BY <1>2, <1>3 DEF AtHome, Waiting, Served
<1>5. FramesFit(phase[s], s2c[s], toLoad[s], RowsLeft(handler[home[s]], s))
  BY <1>1 DEF FramesFit
<1> QED
  BY <1>1, <1>4, <1>5 DEF SessionFits

(***************************************************************************)
(* A client that logs in finds the count, then that many rows and only     *)
(* then live messages on its socket, for any number of servers, sessions   *)
(* and messages: the registration in onlineUserSockets before the drain    *)
(* lets no live message past the rows, and nothing else writes to the      *)
(* socket (accept_connection against Client.login).                        *)
(***************************************************************************)
THEOREM LoginsFindWhatTheyExpect == Spec => []LoginProtocol
<1>1. Init => LoadInv /\ LoginInv
  BY LoadInit, LoginInit
<1>2. TypeOK /\ LoadInv /\ LoginInv /\ [Next]_vars => LoadInv' /\ LoginInv'
  BY OnePlaceStep, LoadStep, LoginStep DEF LoadInv
<1>3. TypeOK /\ LoginInv => LoginProtocol
  BY FitsExpected DEF LoginInv, LoginProtocol
<1> QED
  BY TypeCorrect, <1>1, <1>2, <1>3, PTL DEF Spec

-----------------------------------------------------------------------------

(***************************************************************************)
(* What a step may do to the phase and the home of a session.              *)
(***************************************************************************)
PhaseMoves(s) ==
    /\ phase'[s] = "start" => phase[s] = "start"
    /\ phase[s] = "exited" => phase'[s] = "exited"
    /\ phase'[s] = "exited" => phase[s] = "exited" \/ Exit(s)
    /\ phase'[s] = "online" /\ phase[s] # "online" => ReadCount(s) \/ ImportRow(s)
    /\ phase'[s] = "redirected" /\ phase[s] # "redirected" => \E k \in Servers : Allocate(s, k)
    /\ home'[s] # home[s] => \E k \in Servers : Allocate(s, k)

LEMMA PhaseStep ==
    ASSUME TypeOK, [Next]_vars, NEW s \in Sessions
    PROVE  PhaseMoves(s)
<1>1. phase \in [Sessions -> Phases] /\ home \in [Sessions -> Servers]
  BY DEF TypeOK
<1>2. ASSUME phase'[s] = phase[s], home'[s] = home[s]
      PROVE  PhaseMoves(s)
  BY <1>2 DEF PhaseMoves
<1>3. ASSUME NEW t \in Sessions, NEW k \in Servers, Allocate(t, k)
      PROVE  PhaseMoves(s)
  <2>1. /\ phase[t] = "start" /\ phase' = [phase EXCEPT ![t] = "redirected"]
        /\ home' = [home EXCEPT ![t] = k]
    BY <1>3 DEF Allocate
  <2>2. CASE s = t
    BY <1>1, <1>3, <2>1, <2>2 DEF PhaseMoves
  <2>3. CASE s # t
    BY <1>1, <1>2, <2>1, <2>3
  <2> QED
    BY <2>2, <2>3
<1>4. ASSUME NEW t \in Sessions, NEW x, phase' = [phase EXCEPT ![t] = x], home' = home,
             phase[t] # "exited" \/ x = "exited", x \notin {"start", "redirected"},
             x = "exited" => Exit(t),
             x = "online" => ReadCount(t) \/ ImportRow(t)
      PROVE  PhaseMoves(s)
  <2>1. CASE s = t
    <3>1. phase'[t] = x /\ home'[t] = home[t]
      BY <1>1, <1>4
    <3>2. PhaseMoves(t)
      BY <1>4, <3>1 DEF PhaseMoves
    <3> QED
      BY <2>1, <3>2, Zenon
  <2>2. CASE s # t
    BY <1>1, <1>2, <1>4, <2>2
  <2> QED
    BY <2>1, <2>2
<1>5. ASSUME NEW t \in Sessions, Connect(t) \/ Greet(t) \/ Exit(t)
      PROVE  PhaseMoves(s)
  <2>1. CASE Connect(t) \/ Greet(t)
    <3>1. PICK x \in {"connected", "greeted"} :
            phase' = [phase EXCEPT ![t] = x] /\ home' = home /\ phase[t] # "exited"
      BY <2>1 DEF Connect, Greet
    <3> QED
      BY <1>4, <3>1
  <2>2. CASE Exit(t)
    <3>1. phase' = [phase EXCEPT ![t] = "exited"] /\ home' = home
      BY <2>2 DEF Exit
    <3> QED
      BY <1>4, <2>2, <3>1
  <2> QED
    BY <1>5, <2>1, <2>2
<1>6. ASSUME NEW t \in Sessions, ReadCount(t) \/ ImportRow(t)
      PROVE  PhaseMoves(s)
  <2>1. PICK x \in {"online", "importing"} : phase' = [phase EXCEPT ![t] = x]
    BY <1>6 DEF ReadCount, ImportRow, AfterImport
  <2>2. phase[t] # "exited" /\ home' = home
    BY <1>6 DEF ReadCount, ImportRow
  <2> QED
    BY <1>4, <1>6, <2>1, <2>2
<1>7. ASSUME UNCHANGED sessionVars
      PROVE  PhaseMoves(s)
  BY <1>2, <1>7 DEF sessionVars
<1>8. ASSUME NEW t \in Sessions,
             ReceiveMessage(t) \/ AskUser(t) \/ \E v \in Users : Send(t, v)
      PROVE  PhaseMoves(s)
  BY <1>2, <1>8 DEF ReceiveMessage, AskUser, Send, sessionVars
<1>9. ASSUME NEW i \in Servers, AcceptConnection(i) \/ HandlerStep(i)
      PROVE  UNCHANGED sessionVars
  BY <1>9 DEF AcceptConnection, HandlerStep, NoUsername, RegisterClient, WriteRow,
              DeleteRow, Kept, RouteLocal, RecipientSocket, RoutePending, RouteForward,
              RouteFails
<1>10. ASSUME NEW i \in Servers, NEW p \in Peers, ServeClient(i, p)
       PROVE  UNCHANGED sessionVars
  BY <1>10 DEF ServeClient, ReadMessage, Leftover, CloseClient, OrphanServed, LinkLost,
         Crash
<1>11. CASE CommitAllocation \/ UNCHANGED vars
  BY <1>7, <1>11 DEF CommitAllocation, Recorded, vars
<1> QED
  BY <1>3, <1>5, <1>6, <1>7, <1>8, <1>9, <1>10, <1>11 DEF Next, ClientStep

(***************************************************************************)
(* What a server knows of a user who has logged in once.  A server selects *)
(* only on the sessions that were sent to it, ...                          *)
(***************************************************************************)
EventsAtHome == \A i \in Servers : \A s \in events[i] : i = home[s]

\* ... and the load balancer records only a session that it has started.
LbStarted == lb # NoSession => phase[lb] # "start"

\* Session s is on its way to its server, or there and not closed.
Expected(s) ==
    \/ phase[s] = "redirected"
    \/ \E i \in Servers : WaitsAt(i, s) \/ OnlineAt(i, s)

\* Until then connectedto is right, or the load balancer has still to write it.
RecordedInTime ==
    \A s \in Sessions : OnlyLogin(s) /\ Expected(s) =>
        lb = s \/ connectedto[UserOf[s]] = home[s]

KnownInv == EventsAtHome /\ LbStarted /\ RecordedInTime

LEMMA EventsAtHomeStep ==
    ASSUME TypeOK, LoadInv, LoginInv, EventsAtHome, [Next]_vars
    PROVE  EventsAtHome'
<1> SUFFICES ASSUME NEW i \in Servers, NEW s \in events'[i]
             PROVE  i = home'[s]
  BY DEF EventsAtHome
<1>1. /\ events \in [Servers -> SUBSET Sessions]
      /\ handler \in [Servers -> Handler]
      /\ home \in [Sessions -> Servers]
  BY DEF TypeOK
<1>2. ASSUME NEW t \in Sessions, Arrived(phase, t)
      PROVE  home'[t] = home[t]
  BY <1>2, PhaseStep DEF PhaseMoves, Allocate, Arrived
<1>3. CASE s \in events[i]
  <2>1. s \in Sessions /\ Arrived(phase, s)
    BY <1>1, <1>3 DEF LoadInv, OnePlace, OnePlaceAt
  <2> QED
    BY <1>2, <1>3, <2>1 DEF EventsAtHome
<1>4. CASE RegisterClient(i) /\ s = handler[i].ses
  <2>1. handler[i].step = "hello" /\ s \in Sessions
    BY <1>1, <1>4, HandlerFields DEF RegisterClient
  <2>2. WaitsAt(i, s)
    BY <1>4, <2>1 DEF WaitsAt
  <2>3. Arrived(phase, s) /\ i = home[s]
    BY <2>1, <2>2 DEF LoginInv, SessionFits, AtHome
  <2> QED
    BY <1>2, <2>1, <2>3
<1>5. ASSUME NEW k \in Servers, RegisterClient(k), s \notin events[i]
      PROVE  RegisterClient(i) /\ s = handler[i].ses
  <2>1. events' = [events EXCEPT ![k] = @ \cup {handler[k].ses}]
    BY <1>5 DEF RegisterClient
  <2> QED
    BY <1>1, <1>5, <2>1
<1>6. ASSUME NEW k \in Servers, AcceptConnection(k)
      PROVE  events' = events
  BY <1>6 DEF AcceptConnection, socketVars
<1>7. ASSUME NEW t \in Sessions, Connect(t)
      PROVE  events' = events
  BY <1>7 DEF Connect, socketVars
<1> QED
  BY <1>3, <1>4, <1>5, <1>6, <1>7, WhoAdds DEF Shrinks

LEMMA LbStep ==
    ASSUME TypeOK, LbStarted, [Next]_vars
    PROVE  /\ LbStarted'
           /\ \/ lb' = lb
              \/ CommitAllocation
              \/ \E s \in Sessions, k \in Servers : Allocate(s, k)
<1>1. lb' = lb \/ CommitAllocation \/ \E s \in Sessions, k \in Servers : Allocate(s, k)
  <2>1. ASSUME NEW s \in Sessions, ClientStep(s) \/ Exit(s) \/ \E v \in Users : Send(s, v)
        PROVE  lb' = lb
    BY <2>1 DEF ClientStep, Connect, Greet, ReadCount, ImportRow, ReceiveMessage, AskUser,
           Exit, Send
  <2>2. ASSUME NEW i \in Servers, AcceptConnection(i) \/ HandlerStep(i)
        PROVE  lb' = lb
    BY <2>2 DEF AcceptConnection, HandlerStep, NoUsername, RegisterClient, WriteRow,
                DeleteRow, Kept, RouteLocal, RecipientSocket, RoutePending, RouteForward,
                RouteFails
  <2>3. ASSUME NEW i \in Servers, NEW p \in Peers, ServeClient(i, p)
        PROVE  lb' = lb
    BY <2>3 DEF ServeClient, ReadMessage, Leftover, CloseClient, OrphanServed, LinkLost,
           Crash
  <2>4. CASE UNCHANGED vars
    BY <2>4 DEF vars
  <2> QED
    BY <2>1, <2>2, <2>3, <2>4 DEF Next
<1>2. CASE lb' = lb
  <2>1. lb # NoSession => lb \in Sessions
    BY DEF TypeOK
  <2> QED
    BY <1>2, <2>1, PhaseStep DEF LbStarted, PhaseMoves
<1>3. CASE CommitAllocation
  BY <1>3 DEF CommitAllocation, LbStarted
<1>4. ASSUME NEW s \in Sessions, NEW k \in Servers, Allocate(s, k)
      PROVE  LbStarted'
  <2>1. lb' = s /\ phase'[s] = "redirected"
    BY <1>4 DEF Allocate, TypeOK
  <2> QED
    BY <2>1 DEF LbStarted
<1> QED
  BY <1>1, <1>2, <1>3, <1>4

\* Only the load balancer and a server that drops a session of the user write
\* connectedto.
LEMMA ConnectedtoWriters ==
    ASSUME TypeOK, RoutedPeer, [Next]_vars
    PROVE  \/ connectedto' = connectedto
           \/ CommitAllocation
           \/ \E i \in Servers : \E p \in events[i] :
                Discard(i, p) /\ UNCHANGED << sessionVars, lb, backlog >>
                  /\ handler' \in {handler, [handler EXCEPT ![i] = Idle]}
<1>1. ASSUME NEW i \in Servers, RouteFails(i)
      PROVE  \/ connectedto' = connectedto
             \/ \E p \in events[i] : Discard(i, p) /\ UNCHANGED << sessionVars, lb, backlog >>
                  /\ handler' \in {handler, [handler EXCEPT ![i] = Idle]}
  <2>1. /\ handler[i].step = "route"
        /\ Discard(i, handler[i].peer)
        /\ UNCHANGED << sessionVars, lb, backlog >>
        /\ handler' = [handler EXCEPT ![i] = Idle]
    BY <1>1 DEF RouteFails, Elsewhere
  <2>2. handler[i].peer \in events[i] \cup links[i]
    BY <2>1 DEF RoutedPeer
  <2>3. CASE handler[i].peer \in events[i]
    BY <2>1, <2>3
  <2>4. CASE handler[i].peer \in links[i]
    <3>1. handler[i].peer \in Servers
      BY <2>4 DEF TypeOK
    <3> QED
      BY <2>1, <3>1 DEF Discard
  <2> QED
    BY <2>2, <2>3, <2>4
<1>2. ASSUME NEW i \in Servers, NEW s \in Sessions, CloseClient(i, s)
      PROVE  /\ s \in events[i] /\ Discard(i, s)
             /\ UNCHANGED << sessionVars, lb, backlog, handler >>
  BY <1>2 DEF CloseClient
<1>3. ASSUME NEW s \in Sessions,
             \/ ClientStep(s) \/ Exit(s)
             \/ \E k \in Servers : Allocate(s, k)
             \/ \E v \in Users : Send(s, v)
      PROVE  connectedto' = connectedto
  BY <1>3 DEF ClientStep, Connect, Greet, ReadCount, ImportRow, ReceiveMessage, AskUser,
              Exit, Allocate, Send, dbVars
<1>4. ASSUME NEW i \in Servers,
             \/ AcceptConnection(i) \/ NoUsername(i) \/ RegisterClient(i) \/ WriteRow(i)
             \/ DeleteRow(i) \/ RouteLocal(i) \/ RoutePending(i) \/ RouteForward(i)
      PROVE  connectedto' = connectedto
  BY <1>4 DEF AcceptConnection, NoUsername, RegisterClient, WriteRow, DeleteRow, Kept,
              RouteLocal, RecipientSocket, RoutePending, RouteForward, dbVars
<1>5. ASSUME NEW i \in Servers, NEW p \in Peers, ReadMessage(i, p) \/ Crash(i)
      PROVE  connectedto' = connectedto
  BY <1>5 DEF ReadMessage, Leftover, Crash, dbVars
<1>6. CASE UNCHANGED vars
  BY <1>6 DEF vars, dbVars
<1> QED
  BY <1>1, <1>2, <1>3, <1>4, <1>5, <1>6
     DEF Next, HandlerStep, ServeClient, LinkLost, OrphanServed

\* A session is only expected where it already was, or is just allocated.
LEMMA ExpectedBefore ==
    ASSUME TypeOK, LoginInv, [Next]_vars, NEW s \in Sessions, Expected(s)'
    PROVE  Expected(s) \/ \E k \in Servers : Allocate(s, k)
<1>1. CASE phase'[s] = "redirected"
  BY <1>1, PhaseStep DEF PhaseMoves, Expected
<1>2. CASE \E i \in Servers : WaitsAt(i, s)' \/ OnlineAt(i, s)'
  <2>1. CASE ServersSame(s)
    BY <1>2, <2>1 DEF ServersSame, Expected
  <2>2. CASE Connect(s)
    BY <2>2 DEF Connect, Expected
  <2>3. ASSUME NEW i \in Servers, RegisterClient(i), handler[i].ses = s
        PROVE  Expected(s)
    BY <2>3 DEF RegisterClient, WaitsAt, Expected
  <2>4. ASSUME NEW i \in Servers, WriteRow(i)
        PROVE  Expected(s)
    <3>1. PICK k \in Servers : WaitsAt(k, s)' \/ OnlineAt(k, s)'
      BY <1>2
    <3>2. /\ handler[i].step = "drain" /\ handler' = [handler EXCEPT ![i].written = TRUE]
          /\ online' = online /\ backlog' = backlog
      BY <2>4 DEF WriteRow, socketVars
    <3>3. handler'[i].step = "drain"
      BY <3>2, DrainFields DEF TypeOK
    <3>4. k # i => handler'[k] = handler[k]
      BY <3>2 DEF TypeOK
    <3> QED
      BY <3>1, <3>2, <3>3, <3>4 DEF WaitsAt, OnlineAt, Expected
  <2> QED
    BY <2>1, <2>2, <2>3, <2>4, WhoServes
<1> QED
  BY <1>1, <1>2 DEF Expected

LEMMA RecordedStep ==
    ASSUME TypeOK, AddresseeInv, LoadInv, LoginInv, KnownInv, [Next]_vars
    PROVE  RecordedInTime'
<1> USE SessionsAssumption
<1>1. phase \in [Sessions -> Phases] /\ connectedto \in [Users -> Servers \cup {Offline}]
      /\ home \in [Sessions -> Servers] /\ handler \in [Servers -> Handler]
      /\ online \in [Servers -> [Users -> Sessions \cup {NoSession}]]
      /\ events \in [Servers -> SUBSET Sessions]
  BY DEF TypeOK
<1> SUFFICES ASSUME NEW s \in Sessions, OnlyLogin(s)', Expected(s)', lb' # s
             PROVE  connectedto'[UserOf[s]] = home'[s]
  BY DEF RecordedInTime
<1>2. OnlyLogin(s)
  BY PhaseStep DEF PhaseMoves, OnlyLogin
<1>3. ~ \E k \in Servers : Allocate(s, k)
  BY DEF Allocate
<1>4. Expected(s) /\ home'[s] = home[s]
  BY <1>3, ExpectedBefore, PhaseStep DEF PhaseMoves
<1>5. lb = s \/ connectedto[UserOf[s]] = home[s]
  BY <1>2, <1>4 DEF KnownInv, RecordedInTime
<1>6. CASE CommitAllocation
  <2>1. lb \in Sessions /\ connectedto' = [connectedto EXCEPT ![UserOf[lb]] = home[lb]]
    BY <1>6 DEF CommitAllocation, Recorded, TypeOK
  <2>2. CASE UserOf[lb] = UserOf[s]
    <3>1. lb = s
      BY <1>2, <2>1, <2>2 DEF OnlyLogin, KnownInv, LbStarted
    <3> QED
      BY <1>1, <1>4, <2>1, <3>1
  <2>3. CASE UserOf[lb] # UserOf[s]
    BY <1>1, <1>4, <1>5, <2>1, <2>3
  <2> QED
    BY <2>2, <2>3
<1>7. CASE connectedto' = connectedto
  <2>1. lb # s \/ CommitAllocation
    BY <1>3, LbStep DEF KnownInv, Allocate
  <2> QED
    BY <1>4, <1>5, <1>6, <1>7, <2>1
<1>8. ASSUME NEW i \in Servers, NEW p \in events[i],
             Discard(i, p), UNCHANGED << sessionVars, lb, backlog >>,
             handler' \in {handler, [handler EXCEPT ![i] = Idle]}
      PROVE  connectedto'[UserOf[s]] = home'[s]
  <2>1. p \in Sessions /\ Arrived(phase, p) /\ i = home[p]
    BY <1>1 DEF LoadInv, OnePlace, OnePlaceAt, KnownInv, EventsAtHome
  <2>2. /\ connectedto' = [connectedto EXCEPT ![UserOf[p]] = Offline]
        /\ online' = [online EXCEPT ![i][UserOf[p]] = NoSession]
    BY <1>8, <2>1 DEF Discard
  <2>3. CASE UserOf[p] # UserOf[s]
    BY <1>1, <1>4, <1>5, <1>8, <2>2, <2>3
  <2>4. CASE UserOf[p] = UserOf[s]
    <3>1. p = s
      BY <1>2, <2>1, <2>4 DEF OnlyLogin, Arrived
    <3>2. phase'[s] # "redirected"
      BY <1>8, <2>1, <3>1 DEF Arrived, sessionVars, readerVars
    <3>3. PICK k \in Servers : WaitsAt(k, s)' \/ OnlineAt(k, s)'
      BY <3>2 DEF Expected
    <3>4. ~WaitsAt(k, s)'
      <4> SUFFICES ASSUME WaitsAt(k, s)'
                   PROVE  FALSE
        OBVIOUS
      <4>1. WaitsAt(k, s)
        <5>1. handler'[k].step = "hello" => handler'[k] = handler[k]
          <6>1. Idle.step # "hello"
            BY DEF Idle
          <6>2. handler'[k] = handler[k] \/ handler'[k] = Idle
            BY <1>1, <1>8
          <6> QED
            BY <6>1, <6>2
        <5>2. backlog' = backlog
          BY <1>8
        <5> QED
          BY <5>1, <5>2 DEF WaitsAt
      <4>2. k = i
        BY <2>1, <3>1, <4>1 DEF LoginInv, SessionFits, AtHome
      <4> QED
        BY <3>1, <4>1, <4>2 DEF WaitsAt, LoadInv, OnePlace, OnePlaceAt
    <3>5. PICK u \in Users : online'[k][u] = s
      BY <3>3, <3>4 DEF OnlineAt
    <3>6. s # NoSession /\ UserOf[s] \in Users
      OBVIOUS
    <3>7. online[k][u] = s
      BY <1>1, <2>2, <3>5, <3>6
    <3>8. UserOf[s] = u
      BY <3>6, <3>7 DEF AddresseeInv, OnlineByName
    <3>9. k = i
      BY <2>1, <3>1, <3>7 DEF LoginInv, SessionFits, AtHome, OnlineAt
    <3> QED
      BY <1>1, <2>2, <3>1, <3>5, <3>6, <3>8, <3>9
  <2> QED
    BY <2>3, <2>4
<1> QED
  BY <1>6, <1>7, <1>8, ConnectedtoWriters DEF LoadInv

(***************************************************************************)
(* A user who has logged in once and is online at a server is recorded     *)
(* there by the time nothing is left to do: the write of connectedto that  *)
(* the load balancer makes after its redirection, the registration at the  *)
(* server and the servers' clean-up end in agreement, in whichever order   *)
(* they come (check_and_allocate_client, accept_connection, serve_client). *)
(***************************************************************************)
THEOREM FirstLoginIsKnown == Spec => []KnowsFirstLogin
<1> USE SessionsAssumption
<1>1. Init => AddresseeInv /\ LoadInv /\ LoginInv
  BY LoadInit, LoginInit
     DEF Init, AddresseeInv, OnlineByName, FramesForSession, RowsForSession,
         DeliveredToAddressee, Idle
<1>2. Init => KnownInv
  <2> SUFFICES ASSUME Init
               PROVE  KnownInv
    OBVIOUS
  <2>1. \A s \in Sessions : ~Expected(s)
    BY DEF Init, Expected, WaitsAt, OnlineAt, Idle
  <2> QED
    BY <2>1 DEF Init, KnownInv, EventsAtHome, LbStarted, RecordedInTime
<1>3. TypeOK /\ AddresseeInv /\ LoadInv /\ LoginInv /\ [Next]_vars
        => AddresseeInv' /\ LoadInv' /\ LoginInv'
  BY OnlineStep, FramesStep, RowsStep, DeliveredStep, OnePlaceStep, LoadStep, LoginStep
     DEF AddresseeInv, LoadInv
<1>4. TypeOK /\ AddresseeInv /\ LoadInv /\ LoginInv /\ KnownInv /\ [Next]_vars => KnownInv'
  BY EventsAtHomeStep, LbStep, RecordedStep DEF KnownInv
<1>5. TypeOK /\ LoginInv /\ KnownInv => KnowsFirstLogin
  <2> SUFFICES ASSUME TypeOK, LoginInv, KnownInv, lb = NoSession,
                      NEW s \in Sessions, NEW i \in Servers,
                      OnlyLogin(s), online[i][UserOf[s]] = s
               PROVE  connectedto[UserOf[s]] = i
    BY DEF KnowsFirstLogin, Quiet
  <2>1. OnlineAt(i, s)
    BY DEF OnlineAt
  <2>2. i = home[s] /\ Expected(s)
    BY <2>1 DEF LoginInv, SessionFits, AtHome, Expected
  <2> QED
    BY <2>2 DEF KnownInv, RecordedInTime
<1> QED
  BY <1>1, <1>2, <1>3, <1>4, <1>5, TypeCorrect, PTL DEF Spec

-----------------------------------------------------------------------------

(***************************************************************************)
(* Why a server ends.  A socket select watches has its name in             *)
(* onlineUserSockets while its user has no other session.                  *)
(***************************************************************************)
Named ==
    \A i \in Servers : \A s \in events[i] : OnlyLogin(s) => online[i][UserOf[s]] = s

LEMMA SocketWriters ==
    ASSUME TypeOK, RoutedPeer, [Next]_vars
    PROVE  \/ UNCHANGED << events, online >>
           \/ \E k \in Servers :
                RegisterClient(k) \/ Crash(k) \/ \E p \in events[k] \cup links[k] : Discard(k, p)
<1>1. CASE UNCHANGED vars \/ CommitAllocation
  BY <1>1 DEF vars, socketVars, CommitAllocation
<1>2. ASSUME NEW s \in Sessions,
             \/ ClientStep(s) \/ Exit(s)
             \/ \E k \in Servers : Allocate(s, k)
             \/ \E v \in Users : Send(s, v)
      PROVE  UNCHANGED << events, online >>
  BY <1>2 DEF ClientStep, Connect, Greet, ReadCount, ImportRow, ReceiveMessage, AskUser,
              Exit, Allocate, Send, socketVars
<1>3. ASSUME NEW k \in Servers, RouteFails(k)
      PROVE  \E p \in events[k] \cup links[k] : Discard(k, p)
  BY <1>3 DEF RouteFails, Elsewhere, RoutedPeer
<1>4. ASSUME NEW k \in Servers,
             \/ AcceptConnection(k) \/ NoUsername(k) \/ WriteRow(k) \/ DeleteRow(k)
             \/ RouteLocal(k) \/ RoutePending(k) \/ RouteForward(k)
             \/ \E p \in Peers : ReadMessage(k, p)
      PROVE  UNCHANGED << events, online >>
  BY <1>4 DEF AcceptConnection, NoUsername, WriteRow, DeleteRow, RouteLocal,
              RecipientSocket, RoutePending, RouteForward, ReadMessage, socketVars
<1>5. ASSUME NEW k \in Servers, NEW s \in Sessions, CloseClient(k, s)
      PROVE  s \in events[k] /\ Discard(k, s)
  BY <1>5 DEF CloseClient
<1> QED
  BY <1>1, <1>2, <1>3, <1>4, <1>5
     DEF Next, HandlerStep, ServeClient, LinkLost, OrphanServed

LEMMA NamedStep ==
    ASSUME TypeOK, LoadInv, Named, [Next]_vars
    PROVE  Named'
<1> SUFFICES ASSUME NEW i \in Servers, NEW s \in events'[i], OnlyLogin(s)'
             PROVE  online'[i][UserOf[s]] = s
  BY DEF Named
<1> DEFINE u == UserOf[s]
<1>1. /\ events \in [Servers -> SUBSET Sessions]
      /\ online \in [Servers -> [Users -> Sessions \cup {NoSession}]]
      /\ handler \in [Servers -> Handler]
  BY DEF TypeOK
<1>2. ASSUME NEW t \in Sessions, Arrived(phase, t), s \in Sessions, UserOf[t] = u
      PROVE  t = s
  BY <1>2, PhaseStep DEF OnlyLogin, PhaseMoves, Arrived
<1>3. ASSUME NEW t \in events[i]
      PROVE  t \in Sessions /\ Arrived(phase, t)
  BY <1>1, <1>3 DEF LoadInv, OnePlace, OnePlaceAt
<1>4. CASE UNCHANGED << events, online >>
  BY <1>2, <1>3, <1>4, PhaseStep DEF Named, OnlyLogin, PhaseMoves
<1>5. ASSUME s \in events[i]
      PROVE  s \in Sessions /\ u \in Users /\ online[i][u] = s
  BY <1>3, <1>5, PhaseStep, SessionsAssumption DEF Named, OnlyLogin, PhaseMoves
<1>6. ASSUME NEW k \in Servers, RegisterClient(k)
      PROVE  online'[i][u] = s
  <2> DEFINE t == handler[k].ses
  <2>1. /\ handler[k].step = "hello"
        /\ events' = [events EXCEPT ![k] = @ \cup {t}]
        /\ online' = [online EXCEPT ![k][UserOf[t]] = t]
    BY <1>6 DEF RegisterClient
  <2>2. t \in Sessions /\ Arrived(phase, t) /\ UserOf[t] \in Users
    BY <2>1, SessionsAssumption DEF LoadInv, OnePlace, OnePlaceAt, Arrived
  <2> HIDE DEF t
  <2>3. CASE k # i
    BY <1>1, <1>5, <2>1, <2>2, <2>3
  <2>4. CASE k = i /\ s = t
    BY <1>1, <2>1, <2>2, <2>4
  <2>5. CASE k = i /\ s # t
    <3>1. s \in events[i]
      BY <1>1, <2>1, <2>5
    <3>2. UserOf[t] # u
      BY <1>2, <1>5, <2>2, <2>5, <3>1
    <3> QED
      BY <1>1, <1>5, <2>1, <2>2, <2>5, <3>1, <3>2
  <2> QED
    BY <2>3, <2>4, <2>5
<1>7. ASSUME NEW k \in Servers, Crash(k)
      PROVE  online'[i][u] = s
  <2>1. /\ events' = [events EXCEPT ![k] = {}]
        /\ online' = [online EXCEPT ![k] = [v \in Users |-> NoSession]]
    BY <1>7 DEF Crash
  <2>2. k # i /\ s \in events[i]
    BY <1>1, <2>1
  <2> QED
    BY <1>1, <1>5, <2>1, <2>2
<1>8. ASSUME NEW k \in Servers, NEW p \in events[k] \cup links[k], Discard(k, p)
      PROVE  online'[i][u] = s
  <2>1. events' = [events EXCEPT ![k] = @ \ {p}]
    BY <1>8 DEF Discard
  <2>2. s \in events[i] /\ (k = i => s # p)
    BY <1>1, <2>1
  <2>3. CASE p \in Servers
    BY <1>5, <1>8, <2>2, <2>3 DEF Discard
  <2>4. CASE p \notin Servers
    <3>1. p \in events[k] /\ p \in Sessions /\ UserOf[p] \in Users
      BY <1>1, <2>4, SessionsAssumption DEF TypeOK
    <3>2. online' = [online EXCEPT ![k][UserOf[p]] = NoSession]
      BY <1>8, <2>4 DEF Discard
    <3>3. k = i => UserOf[p] # u
      BY <1>2, <1>3, <1>5, <2>2, <3>1
    <3> QED
      BY <1>1, <1>5, <2>2, <3>1, <3>2, <3>3
  <2> QED
    BY <2>3, <2>4
<1> QED
  BY <1>4, <1>6, <1>7, <1>8, SocketWriters DEF LoadInv

LEMMA WhyItEnds ==
    ASSUME TypeOK, Named, [Next]_vars, NEW i \in Servers, alive[i], ~alive'[i]
    PROVE  (\E k \in links[i] : PeerClosed(i, k)) \/ \E s \in events[i] : ~OnlyLogin(s)
<1>1. alive \in [Servers -> BOOLEAN]
  BY DEF TypeOK
<1>2. CASE UNCHANGED vars \/ CommitAllocation
  BY <1>2 DEF vars, CommitAllocation
<1>3. ASSUME NEW s \in Sessions,
             \/ ClientStep(s) \/ Exit(s)
             \/ \E k \in Servers : Allocate(s, k)
             \/ \E v \in Users : Send(s, v)
      PROVE  alive' = alive
  BY <1>3 DEF ClientStep, Connect, Greet, ReadCount, ImportRow, ReceiveMessage, AskUser,
              Exit, Allocate, Send
<1>4. ASSUME NEW k \in Servers,
             \/ AcceptConnection(k) \/ HandlerStep(k)
             \/ \E p \in Peers : ReadMessage(k, p)
             \/ \E s \in Sessions : CloseClient(k, s)
      PROVE  alive' = alive
  BY <1>4 DEF AcceptConnection, HandlerStep, NoUsername, RegisterClient, WriteRow,
              DeleteRow, RouteLocal, RecipientSocket, RoutePending, RouteForward,
              RouteFails, ReadMessage, CloseClient
<1>5. ASSUME NEW k \in Servers, Crash(k)
      PROVE  k = i
  BY <1>1, <1>5 DEF Crash
<1>6. ASSUME NEW k \in Servers, LinkLost(i, k)
      PROVE  k \in links[i] /\ PeerClosed(i, k)
  BY <1>6 DEF LinkLost, EndOfLink
<1>7. ASSUME NEW s \in Sessions, OrphanServed(i, s)
      PROVE  s \in events[i] /\ ~OnlyLogin(s)
  <2>1. s \in events[i] /\ s \notin Servers /\ ~Known(i, s)
    BY <1>7, SessionsAssumption DEF OrphanServed
  <2> QED
    BY <2>1 DEF Known, Named
<1> QED
  BY <1>2, <1>3, <1>4, <1>5, <1>6, <1>7 DEF Next, ServeClient, LinkLost, OrphanServed

(***************************************************************************)
(* A server ends only because the other end of a link has been closed, or  *)
(* while it watches a socket of a user who has logged in more than once:   *)
(* the errors serve_client handles by dropping a peer never leave a socket *)
(* of another user in events without a name in onlineUserSockets.          *)
(***************************************************************************)
THEOREM ServersEndForAReason == Spec => EndsForAReason
<1>1. Init => LoadInv /\ Named
  BY LoadInit DEF Init, Named
<1>2. TypeOK /\ LoadInv /\ Named /\ [Next]_vars => LoadInv' /\ Named'
  BY OnePlaceStep, LoadStep, NamedStep DEF LoadInv
<1>3. TypeOK /\ LoadInv /\ Named /\ [Next]_vars
        => [\A i \in Servers : alive[i] /\ ~alive[i]' =>
              \/ \E k \in links[i] : PeerClosed(i, k)
              \/ \E s \in events[i] : ~OnlyLogin(s)]_vars
  BY WhyItEnds
<1> QED
  BY <1>1, <1>2, <1>3, TypeCorrect, PTL DEF Spec, EndsForAReason

=============================================================================
