------------------------ MODULE ServerDeliveryProofs ------------------------
(***************************************************************************)
(* What becomes of a message, for every set of servers, users and          *)
(* sessions: no pending row is deleted unwritten                           *)
(* (RowsWrittenBeforeDeleted), what nothing has disturbed has exactly one  *)
(* copy (OneCopy), the servers implement Delivery (ImplementsDelivery),    *)
(* and first logins get their messages in the order of sending             *)
(* (OrderedForFirstLogin).                                                 *)
(***************************************************************************)
EXTENDS ServerProofs

(***************************************************************************)
(* The drain of the pending rows.  A row that is marked as written has     *)
(* reached its session: it is on the way, it is in a database, or the      *)
(* session has ended.                                                      *)
(***************************************************************************)
StoredIn(h, m) == \E u \in Users : \E n \in DOMAIN h[u] : h[u][n] = m

OnTheWay(q, m) == \E n \in DOMAIN q : q[n].kind # "count" /\ q[n].msg = m

Reached(ph, q, h, m) == ph = "exited" \/ OnTheWay(q, m) \/ StoredIn(h, m)

WrittenRowsReached ==
    \A i \in Servers : handler[i].step = "drain" /\ handler[i].written =>
        LET s == handler[i].ses
        IN  Reached(phase[s], s2c[s], history, Head(handler[i].rows).msg)

\* Rows in the table, or selected from it by a drain that still has them, are
\* told apart by their msgid.
SelectedBy(h, r) == h.step = "drain" /\ \E n \in DOMAIN h.rows : h.rows[n] = r
KnownRow(r) == r \in pending \/ \E i \in Servers : SelectedBy(handler[i], r)

MsgidIsKey ==
    \A r, q \in Row : KnownRow(r) /\ KnownRow(q) /\ r.msgid = q.msgid => r = q
MsgidsUsed == \A r \in Row : KnownRow(r) => r.msgid < nextMsgid

DrainInv == WrittenRowsReached /\ MsgidIsKey /\ MsgidsUsed

LEMMA StoredStays ==
    ASSUME TypeOK, [Next]_vars, NEW m, StoredIn(history, m)
    PROVE  StoredIn(history', m)
<1>0. PICK u \in Users : \E n \in DOMAIN history[u] : history[u][n] = m
  BY DEF StoredIn
<1>1. PICK n \in DOMAIN history[u] : history[u][n] = m
  BY <1>0
<1>2. CASE history' = history
  BY <1>2 DEF StoredIn
<1>3. ASSUME NEW v \in Users, NEW e \in Message,
             history' = [history EXCEPT ![v] = Append(@, e)]
      PROVE  StoredIn(history', m)
  <2>1. history[u] \in Seq(Message)
    BY DEF TypeOK
  <2>2. history'[u] = history[u] \/ history'[u] = Append(history[u], e)
    BY <1>3 DEF TypeOK
  <2>3. n \in DOMAIN Append(history[u], e) /\ Append(history[u], e)[n] = history[u][n]
    BY <2>1
  <2>4. n \in DOMAIN history'[u] /\ history'[u][n] = m
    BY <1>1, <2>2, <2>3
  <2> QED
    BY <2>4 DEF StoredIn
<1>4. ASSUME NEW s \in Sessions, s2c[s] # << >>, Head(s2c[s]).kind \in {"row", "live"}
      PROVE  Head(s2c[s]).msg \in Message /\ UserOf[s] \in Users
  <2>1. Head(s2c[s]) \in Frame
    BY <1>4, HeadTail DEF TypeOK
  <2> QED
    BY <1>4, <2>1, SessionsAssumption DEF Frame
<1> QED
  BY <1>2, <1>3, <1>4, HistoryWriters DEF HistoryWritten

\* A message read from a socket is stored.
LEMMA HeadStored ==
    ASSUME TypeOK, NEW s \in Sessions, s2c[s] # << >>, Head(s2c[s]).kind # "count",
           NEW m, Head(s2c[s]).msg = m,
           history' = [history EXCEPT ![UserOf[s]] = Append(@, Head(s2c[s]).msg)]
    PROVE  StoredIn(history', m)
<1> DEFINE u == UserOf[s]
<1>1. /\ u \in Users /\ history[u] \in Seq(Message)
      /\ history' = [history EXCEPT ![u] = Append(@, m)]
  BY SessionsAssumption DEF TypeOK
<1>2. m \in Message
  <2>1. Head(s2c[s]) \in Frame
    BY HeadTail DEF TypeOK
  <2> QED
    BY <2>1 DEF Frame
<1> HIDE DEF u
<1>3. history'[u] = Append(history[u], m)
  BY <1>1 DEF TypeOK
<1>4. Len(history[u]) + 1 \in DOMAIN history'[u] /\ history'[u][Len(history[u]) + 1] = m
  BY <1>1, <1>2, <1>3
<1> QED
  BY <1>1, <1>4 DEF StoredIn

LEMMA OnTheWayKept ==
    ASSUME NEW q \in Seq(Frame), NEW f \in Frame, NEW m, OnTheWay(q, m)
    PROVE  /\ OnTheWay(Append(q, f), m)
           /\ q # << >>
           /\ (Head(q).kind # "count" /\ Head(q).msg = m) \/ OnTheWay(Tail(q), m)
<1>1. PICK n \in DOMAIN q : q[n].kind # "count" /\ q[n].msg = m
  BY DEF OnTheWay
<1>2. n \in DOMAIN Append(q, f) /\ Append(q, f)[n] = q[n]
  OBVIOUS
<1>3. q # << >>
  BY <1>1
<1>4. OnTheWay(Append(q, f), m)
  <2> DEFINE r == Append(q, f)
  <2>1. n \in DOMAIN r /\ r[n] = q[n]
    BY <1>2
  <2> HIDE DEF r
  <2>2. OnTheWay(r, m)
    BY <1>1, <2>1 DEF OnTheWay
  <2> QED
    BY <2>2 DEF r
<1>5. CASE n = 1
  BY <1>1, <1>3, <1>4, <1>5
<1>6. CASE n # 1
  <2>1. n - 1 \in DOMAIN Tail(q) /\ Tail(q)[n - 1] = q[n]
    BY <1>3, <1>6
  <2> DEFINE r == Tail(q)
  <2>2. n - 1 \in DOMAIN r /\ r[n - 1] = q[n]
    BY <2>1
  <2> HIDE DEF r
  <2>3. OnTheWay(r, m)
    BY <1>1, <2>2 DEF OnTheWay
  <2> QED
    BY <1>3, <1>4, <2>3 DEF r
<1> QED
  BY <1>5, <1>6

LEMMA ReachedStays ==
    ASSUME TypeOK, [Next]_vars, NEW s \in Sessions, NEW m, Reached(phase[s], s2c[s], history, m)
    PROVE  Reached(phase'[s], s2c'[s], history', m)
<1> DEFINE q == s2c[s]
<1>1. q \in Seq(Frame) /\ phase[s] \in Phases
  BY DEF TypeOK
<1>2. CASE StoredIn(history, m)
  BY <1>2, StoredStays DEF Reached
<1>3. CASE ~StoredIn(history, m) /\ SessionSame(s)
  BY <1>3 DEF Reached, SessionSame
<1>4. CASE Exit(s)
  BY <1>4 DEF Exit, Reached, TypeOK
<1>5. CASE /\ ~StoredIn(history, m)
           /\ Connect(s) \/ Greet(s) \/ AskUser(s) \/ \E k \in Servers : Allocate(s, k)
  <2>1. s2c' = s2c /\ phase[s] # "exited"
    BY <1>5 DEF Connect, Greet, AskUser, Allocate
  <2> QED
    BY <1>5, <2>1 DEF Reached
<1>6. CASE ~StoredIn(history, m) /\ (ReadCount(s) \/ ImportRow(s) \/ ReceiveMessage(s))
  <2>1. s2c' = [s2c EXCEPT ![s] = Tail(@)] /\ phase[s] # "exited"
    BY <1>6 DEF ReadCount, ImportRow, ReceiveMessage
  <2>2. s2c'[s] = Tail(q) /\ OnTheWay(q, m)
    BY <1>6, <2>1 DEF Reached, TypeOK
  <2>3. \/ OnTheWay(Tail(q), m)
        \/ q # << >> /\ Head(q).kind # "count" /\ Head(q).msg = m
    <3> HIDE DEF q
    <3>1. CountFrame(0) \in Frame
      BY DEF CountFrame, Frame
    <3> QED
      BY <1>1, <2>2, <3>1, OnTheWayKept
  <2>4. CASE OnTheWay(Tail(q), m)
    BY <2>2, <2>4 DEF Reached
  <2>5. CASE q # << >> /\ Head(q).kind # "count" /\ Head(q).msg = m
    <3>1. history' = [history EXCEPT ![UserOf[s]] = Append(@, Head(s2c[s]).msg)]
      BY <1>6, <2>5 DEF ReadCount, ImportRow, ReceiveMessage
    <3> QED
      BY <2>5, <3>1, HeadStored DEF Reached
  <2> QED
    BY <2>3, <2>4, <2>5
<1>7. ASSUME ~StoredIn(history, m), NEW f \in Frame, WriteToClient(s, f), phase' = phase
      PROVE  Reached(phase'[s], s2c'[s], history', m)
  <2>1. CASE phase[s] = "exited"
    BY <1>7, <2>1 DEF Reached
  <2>2. CASE phase[s] # "exited"
    <3>1. s2c'[s] = Append(q, f) /\ OnTheWay(q, m)
      BY <1>7, <2>2, WrittenElsewhere DEF Reached
    <3> HIDE DEF q
    <3>2. OnTheWay(s2c'[s], m)
      BY <1>1, <3>1, OnTheWayKept
    <3> QED
      BY <3>2 DEF Reached
  <2> QED
    BY <2>1, <2>2
<1>8. ASSUME ~StoredIn(history, m), NEW i \in Servers,
             \/ (RegisterClient(i) \/ WriteRow(i)) /\ handler[i].ses = s
             \/ RouteLocal(i) /\ RecipientSocket(i) = s
      PROVE  Reached(phase'[s], s2c'[s], history', m)
  <2>1. CASE RegisterClient(i) /\ handler[i].ses = s
    <3>1. PICK rows \in PendingFor(UserOf[s]) : WriteToClient(s, CountFrame(Len(rows)))
      BY <2>1 DEF RegisterClient
    <3>2. CountFrame(Len(rows)) \in Frame
      BY PendingForRows DEF TypeOK, CountFrame, Frame
    <3> QED
      BY <1>7, <1>8, <2>1, <3>1, <3>2 DEF RegisterClient, sessionVars, readerVars
  <2>2. CASE WriteRow(i) /\ handler[i].ses = s
    <3>1. handler[i].rows \in Seq(Row) /\ handler[i].rows # << >>
      BY <2>2, HandlerFields DEF WriteRow, TypeOK
    <3>2. Head(handler[i].rows) \in Row
      BY <3>1, HeadTail
    <3>3. RowFrame(Head(handler[i].rows).msg) \in Frame
      BY <3>2 DEF RowFrame, Frame, Row
    <3> QED
      BY <1>7, <1>8, <2>2, <3>3 DEF WriteRow, sessionVars, readerVars
  <2>3. CASE RouteLocal(i) /\ RecipientSocket(i) = s
    <3>1. LiveFrame(handler[i].msg) \in Frame
      BY <2>3, HandlerFields DEF RouteLocal, TypeOK, LiveFrame, Frame
    <3> QED
      BY <1>7, <1>8, <2>3, <3>1 DEF RouteLocal, sessionVars, readerVars
  <2> QED
    BY <1>8, <2>1, <2>2, <2>3
<1> QED
  BY <1>2, <1>3, <1>4, <1>5, <1>6, <1>8, WhoSees DEF ClientStep

LEMMA PendingWriters ==
    ASSUME TypeOK, [Next]_vars
    PROVE  \/ UNCHANGED << pending, nextMsgid >>
           \/ \E i \in Servers : RoutePending(i) \/ DeleteRow(i)
<1>1. ASSUME UNCHANGED vars \/ CommitAllocation
      PROVE  UNCHANGED << pending, nextMsgid >>
  BY <1>1 DEF vars, dbVars, CommitAllocation
<1>2. ASSUME NEW s \in Sessions,
             \/ ClientStep(s) \/ Exit(s)
             \/ \E k \in Servers : Allocate(s, k)
             \/ \E v \in Users : Send(s, v)
      PROVE  UNCHANGED << pending, nextMsgid >>
  BY <1>2 DEF dbVars, ClientStep, Connect, Greet, ReadCount, ImportRow,
         ReceiveMessage, AskUser, Exit, Allocate, Send
<1>3. ASSUME NEW i \in Servers, AcceptConnection(i) \/ HandlerStep(i),
             ~RoutePending(i), ~DeleteRow(i)
      PROVE  UNCHANGED << pending, nextMsgid >>
  BY <1>3 DEF dbVars, AcceptConnection, HandlerStep, NoUsername, RegisterClient, WriteRow,
         RouteLocal, RouteForward, RouteFails
<1>4. ASSUME NEW i \in Servers, NEW p \in Peers, ServeClient(i, p)
      PROVE  UNCHANGED << pending, nextMsgid >>
  BY <1>4 DEF dbVars, ServeClient, ReadMessage, CloseClient, OrphanServed, LinkLost, Crash
<1> QED
  BY <1>1, <1>2, <1>3, <1>4 DEF Next

LEMMA WrittenStep ==
    ASSUME TypeOK, DrainInv, [Next]_vars
    PROVE  WrittenRowsReached'
<1>1. handler \in [Servers -> Handler]
  BY DEF TypeOK
<1>2. ASSUME NEW i \in Servers, handler[i].step = "drain", handler[i].written
      PROVE  LET s == handler[i].ses
             IN  Reached(phase'[s], s2c'[s], history', Head(handler[i].rows).msg)
  <2>1. handler[i].ses \in Sessions
    BY <1>1, <1>2, HandlerFields
  <2>2. \A s \in Sessions : \A m :
          Reached(phase[s], s2c[s], history, m) => Reached(phase'[s], s2c'[s], history', m)
    BY ReachedStays
  <2> QED
    BY <1>2, <2>1, <2>2 DEF DrainInv, WrittenRowsReached
<1> SUFFICES ASSUME NEW i \in Servers, handler'[i].step = "drain", handler'[i].written
             PROVE  LET s == handler'[i].ses
                    IN  Reached(phase'[s], s2c'[s], history', Head(handler'[i].rows).msg)
  BY DEF WrittenRowsReached
<1>3. CASE handler'[i] = handler[i]
  BY <1>2, <1>3
<1>4. ASSUME NEW k \in Servers, NEW h, handler' = [handler EXCEPT ![k] = h],
             h.step # "drain" \/ ~h.written
      PROVE  handler'[i] = handler[i]
  BY <1>1, <1>4
<1>5. ASSUME NEW k \in Servers, handler' = [handler EXCEPT ![k] = Idle]
      PROVE  handler'[i] = handler[i]
  BY <1>4, <1>5 DEF Idle
<1>6. ASSUME NEW k \in Servers, AcceptConnection(k)
      PROVE  handler'[i] = handler[i]
  BY <1>4, <1>6 DEF AcceptConnection, Hello
<1>7. ASSUME NEW s, NEW q
      PROVE  Drain(s, q).step # "drain" \/ ~Drain(s, q).written
  BY DEF Drain, Idle
<1>8. ASSUME NEW k \in Servers, RegisterClient(k) \/ DeleteRow(k)
      PROVE  handler'[i] = handler[i]
  <2>1. PICK s, q : handler' = [handler EXCEPT ![k] = Drain(s, q)]
    BY <1>8 DEF RegisterClient, DeleteRow
  <2> QED
    BY <1>4, <1>7, <2>1
<1>9. ASSUME NEW k \in Servers, NEW p \in Peers, ReadMessage(k, p)
      PROVE  handler'[i] = handler[i]
  <2>1. PICK m : handler' = [handler EXCEPT ![k] = Route(p, m, connectedto[m.to])]
    BY <1>9 DEF ReadMessage
  <2>2. Route(p, m, connectedto[m.to]).step # "drain"
    BY DEF Route
  <2> QED
    BY <1>4, <2>1, <2>2
<1>10. ASSUME WriteRow(i)
       PROVE  LET s == handler'[i].ses
              IN  Reached(phase'[s], s2c'[s], history', Head(handler'[i].rows).msg)
  <2> DEFINE s == handler[i].ses
             m == Head(handler[i].rows).msg
             h == [handler[i] EXCEPT !.written = TRUE]
  <2>1. /\ handler[i].step = "drain" /\ WriteToClient(s, RowFrame(m))
        /\ handler' = [handler EXCEPT ![i] = h] /\ phase' = phase
    BY <1>10 DEF WriteRow, sessionVars, readerVars
  <2>2. h.ses = s /\ h.rows = handler[i].rows /\ handler'[i] = h
    BY <1>1, <2>1, DrainFields
  <2>3. s \in Sessions /\ handler[i].rows \in Seq(Row) /\ handler[i].rows # << >>
    BY <1>1, <2>1, HandlerFields
  <2>4. Head(handler[i].rows) \in Row
    BY <2>3, HeadTail
  <2>5. RowFrame(m) \in Frame /\ RowFrame(m).kind = "row" /\ RowFrame(m).msg = m
    BY <2>4 DEF RowFrame, Frame, Row
  <2> HIDE DEF s, m, h
  <2>6. CASE phase[s] = "exited"
    <3>1. Reached(phase'[s], s2c'[s], history', m)
      BY <2>1, <2>6 DEF Reached
    <3> QED
      BY <2>2, <3>1 DEF m
  <2>7. CASE phase[s] # "exited"
    <3>1. s2c'[s] = Append(s2c[s], RowFrame(m)) /\ s2c[s] \in Seq(Frame)
      BY <2>1, <2>3, <2>7, WrittenElsewhere DEF TypeOK
    <3>2. Len(s2c[s]) + 1 \in DOMAIN s2c'[s] /\ s2c'[s][Len(s2c[s]) + 1] = RowFrame(m)
      BY <2>5, <3>1
    <3>3. OnTheWay(s2c'[s], m)
      BY <2>5, <3>2 DEF OnTheWay
    <3>4. Reached(phase'[s], s2c'[s], history', m)
      BY <3>3 DEF Reached
    <3> QED
      BY <2>2, <3>4 DEF m
  <2> QED
    BY <2>6, <2>7
<1>11. ASSUME NEW k \in Servers \ {i}, WriteRow(k)
       PROVE  handler'[i] = handler[i]
  BY <1>1, <1>11 DEF WriteRow
<1> QED
  BY <1>3, <1>5, <1>6, <1>8, <1>9, <1>10, <1>11, HandlerWriters DEF HandlerWritten

\* The row that server i is about to insert.
NewRow(i) == [msgid |-> nextMsgid, via |-> i, msg |-> handler[i].msg]

\* The rows a step knows of were known before, or one is new and has a new key.
LEMMA KnownBefore ==
    ASSUME TypeOK, [Next]_vars, NEW r, KnownRow(r)'
    PROVE  KnownRow(r) \/ \E i \in Servers : RoutePending(i) /\ r = NewRow(i)
<1>1. handler \in [Servers -> Handler]
  BY DEF TypeOK
<1>2. CASE r \in pending' \ pending
  <2>1. PICK i \in Servers : RoutePending(i)
    BY <1>2, PendingWriters DEF DeleteRow, Kept
  <2>2. r = NewRow(i)
    BY <1>2, <2>1 DEF RoutePending, NewRow
  <2> QED
    BY <2>1, <2>2
<1>3. CASE r \in pending
  BY <1>3 DEF KnownRow
<1>4. ASSUME NEW i \in Servers, SelectedBy(handler'[i], r)
      PROVE  KnownRow(r)
  <2>1. CASE handler'[i] = handler[i]
    BY <1>4, <2>1 DEF KnownRow
  <2>2. ASSUME NEW k \in Servers, NEW h, handler' = [handler EXCEPT ![k] = h], h.step # "drain"
        PROVE  handler'[i] = handler[i]
    BY <1>1, <1>4, <2>2 DEF SelectedBy
  <2>3. ASSUME NEW k \in Servers, handler' = [handler EXCEPT ![k] = Idle]
        PROVE  handler'[i] = handler[i]
    <3>1. Idle.step # "drain"
      BY DEF Idle
    <3> QED
      BY <2>2, <2>3, <3>1
  <2>4. ASSUME NEW k \in Servers, AcceptConnection(k)
        PROVE  handler'[i] = handler[i]
    <3>1. Hello(Head(backlog[k])).step # "drain"
      BY DEF Hello
    <3> QED
      BY <2>2, <2>4, <3>1 DEF AcceptConnection
  <2>5. ASSUME NEW k \in Servers, NEW p \in Peers, ReadMessage(k, p)
        PROVE  handler'[i] = handler[i]
    <3>1. PICK m : handler' = [handler EXCEPT ![k] = Route(p, m, connectedto[m.to])]
      BY <2>5 DEF ReadMessage
    <3>2. Route(p, m, connectedto[m.to]).step # "drain"
      BY DEF Route
    <3> QED
      BY <2>2, <3>1, <3>2
  <2>6. ASSUME NEW s, NEW q, SelectedBy(Drain(s, q), r)
        PROVE  \E n \in DOMAIN q : q[n] = r
    BY <2>6 DEF SelectedBy, Drain, Idle
  <2>7. CASE RegisterClient(i)
    <3>1. PICK q \in PendingFor(UserOf[handler[i].ses]) :
            handler' = [handler EXCEPT ![i] = Drain(handler[i].ses, q)]
      BY <2>7 DEF RegisterClient
    <3>2. \E n \in DOMAIN q : q[n] = r
      BY <1>1, <1>4, <2>6, <3>1
    <3>3. \A n \in DOMAIN q : q[n] \in pending
      BY DEF PendingFor
    <3> QED
      BY <3>2, <3>3 DEF KnownRow
  <2>8. CASE WriteRow(i)
    <3>1. /\ handler[i].step = "drain"
          /\ handler'[i] = [handler[i] EXCEPT !.written = TRUE]
      BY <1>1, <2>8 DEF WriteRow
    <3>2. handler'[i].rows = handler[i].rows
      BY <1>1, <3>1, DrainFields
    <3>3. SelectedBy(handler[i], r)
      BY <1>4, <3>1, <3>2 DEF SelectedBy
    <3> QED
      BY <3>3 DEF KnownRow
  <2>9. CASE DeleteRow(i)
    <3> DEFINE q == handler[i].rows
    <3>1. handler[i].step = "drain" /\ handler'[i] = Drain(handler[i].ses, Tail(q))
      BY <1>1, <2>9 DEF DeleteRow
    <3>2. PICK n \in DOMAIN Tail(q) : Tail(q)[n] = r
      BY <1>4, <2>6, <3>1
    <3>3. q \in Seq(Row) /\ q # << >>
      BY <1>1, <3>1, HandlerFields
    <3> HIDE DEF q
    <3>4. n + 1 \in DOMAIN q /\ q[n + 1] = r
      BY <3>2, <3>3, TailElements
    <3>5. SelectedBy(handler[i], r)
      BY <3>1, <3>4 DEF SelectedBy, q
    <3> QED
      BY <3>5 DEF KnownRow
  <2>10. ASSUME NEW k \in Servers \ {i}, RegisterClient(k) \/ WriteRow(k) \/ DeleteRow(k)
         PROVE  handler'[i] = handler[i]
    BY <1>1, <2>10 DEF RegisterClient, WriteRow, DeleteRow
  <2> QED
    BY <2>1, <2>3, <2>4, <2>5, <2>7, <2>8, <2>9, <2>10, HandlerWriters DEF HandlerWritten
<1> QED
  BY <1>2, <1>3, <1>4 DEF KnownRow

LEMMA KeyStep ==
    ASSUME TypeOK, DrainInv, [Next]_vars
    PROVE  MsgidIsKey' /\ MsgidsUsed'
<1>1. nextMsgid \in Nat /\ pending \subseteq Row
  BY DEF TypeOK
<1>2. \A r \in Row : r.msgid \in Nat
  BY DEF Row
<1>3. \A r : KnownRow(r)' =>
        KnownRow(r) \/ \E i \in Servers : RoutePending(i) /\ r.msgid = nextMsgid
  BY KnownBefore DEF NewRow
<1>4. CASE \A i \in Servers : ~RoutePending(i)
  <2>1. nextMsgid' = nextMsgid
    BY <1>4, PendingWriters DEF DeleteRow
  <2>2. \A r : KnownRow(r)' => KnownRow(r)
    BY <1>3, <1>4
  <2> QED
    BY <2>1, <2>2 DEF DrainInv, MsgidIsKey, MsgidsUsed
<1>5. ASSUME NEW i \in Servers, RoutePending(i)
      PROVE  MsgidIsKey' /\ MsgidsUsed'
  <2> DEFINE row == [msgid |-> nextMsgid, via |-> i, msg |-> handler[i].msg]
  <2>1. /\ handler[i].step = "route" /\ handler' = [handler EXCEPT ![i] = Idle]
        /\ pending' = pending \cup {row} /\ nextMsgid' = nextMsgid + 1
    BY <1>5 DEF RoutePending, Elsewhere
  <2>2. \A j \in Servers : \A r : SelectedBy(handler'[j], r) => SelectedBy(handler[j], r)
    BY <2>1 DEF TypeOK, SelectedBy, Idle
  <2> HIDE DEF row
  <2>3. \A r : KnownRow(r)' => KnownRow(r) \/ r = row
    BY <2>1, <2>2 DEF KnownRow
  <2>4. row.msgid = nextMsgid
    BY DEF row
  <2>5. \A r \in Row : KnownRow(r) => r.msgid < nextMsgid
    BY DEF DrainInv, MsgidsUsed
  <2>6. MsgidsUsed'
    BY <1>1, <1>2, <2>1, <2>3, <2>4, <2>5 DEF MsgidsUsed
  <2>7. ASSUME NEW r \in Row, NEW q \in Row, KnownRow(r)', KnownRow(q)', r.msgid = q.msgid
        PROVE  r = q
    <3>1. (KnownRow(r) \/ r = row) /\ (KnownRow(q) \/ q = row)
      BY <2>3, <2>7
    <3>2. CASE KnownRow(r) /\ KnownRow(q)
      BY <2>7, <3>2 DEF DrainInv, MsgidIsKey
    <3>3. ~(KnownRow(r) /\ q = row) /\ ~(KnownRow(q) /\ r = row)
      BY <1>1, <1>2, <2>4, <2>5, <2>7
    <3> QED
      BY <3>1, <3>2, <3>3
  <2> QED
    BY <2>6, <2>7 DEF MsgidIsKey
<1> QED
  BY <1>4, <1>5

\* What has reached a session that has not ended is in one of the places.
LEMMA ReachedIsPlace ==
    ASSUME TypeOK, NEW s \in Sessions, NEW m,
           OnTheWay(s2c'[s], m) \/ StoredIn(history', m)
    PROVE  Places(m.id)' # {}
<1>1. CASE OnTheWay(s2c'[s], m)
  <2>1. PICK n \in DOMAIN s2c'[s] : s2c'[s][n].kind # "count" /\ s2c'[s][n].msg = m
    BY <1>1 DEF OnTheWay
  <2>2. << "s2c", s, n >>
          \in {<< "s2c", s, x >> : x \in {k \in DOMAIN s2c'[s] :
                 s2c'[s][k].kind # "count" /\ s2c'[s][k].msg.id = m.id}}
    BY <2>1
  <2>3. << "s2c", s, n >>
          \in UNION {{<< "s2c", t, x >> : x \in {k \in DOMAIN s2c'[t] :
                 s2c'[t][k].kind # "count" /\ s2c'[t][k].msg.id = m.id}} : t \in Sessions}
    BY <2>2
  <2>4. << "s2c", s, n >> \in Places(m.id)'
    BY <2>3 DEF Places
  <2> QED
    BY <2>4
<1>2. CASE StoredIn(history', m)
  <2>1. PICK u \in Users : \E n \in DOMAIN history'[u] : history'[u][n] = m
    BY <1>2 DEF StoredIn
  <2>2. PICK n \in DOMAIN history'[u] : history'[u][n] = m
    BY <2>1
  <2>3. << "history", u, n >> \in In("history", u, history'[u], m.id)
    BY <2>2 DEF In
  <2>4. << "history", u, n >> \in Places(m.id)'
    BY <2>3 DEF Places
  <2> QED
    BY <2>4
<1> QED
  BY <1>1, <1>2

LEMMA RowDeleted ==
    ASSUME TypeOK, AddresseeInv, DrainInv, [Next]_vars, NEW r \in pending, r \notin pending'
    PROVE  \/ Places(r.msg.id)' # {}
           \/ \E s \in Sessions : UserOf[s] = r.msg.to /\ phase[s] = "exited"
<1>1. PICK i \in Servers : DeleteRow(i)
  BY PendingWriters DEF RoutePending
<1> DEFINE s == handler[i].ses
           q == handler[i].rows
           d == Head(q)
<1>2. /\ handler[i].step = "drain" /\ handler[i].written /\ r.msgid = d.msgid
      /\ UNCHANGED << history, s2c >>
  BY <1>1 DEF DeleteRow, Kept
<1>3. s \in Sessions /\ q \in Seq(Row) /\ q # << >>
  BY <1>2, HandlerFields DEF TypeOK
<1>4. d \in Row /\ d = q[1] /\ 1 \in DOMAIN q
  BY <1>3
<1>5. KnownRow(d) /\ KnownRow(r) /\ r \in Row
  BY <1>2, <1>4 DEF KnownRow, SelectedBy, TypeOK
<1>6. r = d
  BY <1>2, <1>4, <1>5 DEF DrainInv, MsgidIsKey
<1>7. r.msg.to = UserOf[s]
  BY <1>2, <1>4, <1>6 DEF AddresseeInv, RowsForSession
<1>8. Reached(phase[s], s2c[s], history, r.msg)
  BY <1>2, <1>6 DEF DrainInv, WrittenRowsReached
<1> HIDE DEF s, q, d
<1>9. CASE phase[s] = "exited"
  BY <1>3, <1>7, <1>9
<1>10. CASE phase[s] # "exited"
  <2> DEFINE m == r.msg
  <2>1. \A t \in Sessions : \A x :
          OnTheWay(s2c'[t], x) \/ StoredIn(history', x) => Places(x.id)' # {}
    BY ReachedIsPlace
  <2>2. OnTheWay(s2c'[s], m) \/ StoredIn(history', m)
    BY <1>2, <1>8, <1>10 DEF Reached
  <2> QED
    BY <1>3, <2>1, <2>2
<1> QED
  BY <1>9, <1>10

(***************************************************************************)
(* The drain never deletes a row it has not written: a row that leaves the *)
(* pending table is on the way to its recipient or stored, unless a        *)
(* session of the recipient has ended (accept_connection).                 *)
(***************************************************************************)
THEOREM NoRowIsLost == Spec => RowsWrittenBeforeDeleted
<1>1. Init => AddresseeInv /\ DrainInv
  <2>1. Init => AddresseeInv
    BY DEF Init, AddresseeInv, OnlineByName, FramesForSession, RowsForSession,
           DeliveredToAddressee, Idle
  <2>2. Init => DrainInv
    BY DEF Init, DrainInv, WrittenRowsReached, MsgidIsKey, MsgidsUsed, KnownRow,
           SelectedBy, Idle
  <2> QED
    BY <2>1, <2>2
<1>2. TypeOK /\ AddresseeInv /\ DrainInv /\ [Next]_vars => AddresseeInv' /\ DrainInv'
  BY OnlineStep, FramesStep, RowsStep, DeliveredStep, WrittenStep, KeyStep
     DEF AddresseeInv, DrainInv
<1>3. TypeOK /\ AddresseeInv /\ DrainInv /\ [Next]_vars =>
        [\A r \in pending : r \in pending'
           \/ Places(r.msg.id)' # {}
           \/ \E s \in Sessions : UserOf[s] = r.msg.to /\ phase[s] = "exited"]_vars
  BY RowDeleted
<1> QED
  BY TypeCorrect, <1>1, <1>2, <1>3, PTL DEF Spec, RowsWrittenBeforeDeleted

-----------------------------------------------------------------------------

(***************************************************************************)
(* The copies of a message.  The places of an id, by kind: for each        *)
(* database, queue of messages and queue of frames the positions it is at, *)
(* the servers that are routing it, and the pending rows that have not     *)
(* been written yet.                                                       *)
(***************************************************************************)
IdAt(q, id)    == {n \in DOMAIN q : q[n].id = id}
FrameAt(q, id) == {n \in DOMAIN q : q[n].kind # "count" /\ q[n].msg.id = id}

\* BeingDeleted, for the handlers hd.
Marked(hd) ==
    {Head(hd[i].rows).msgid :
        i \in {j \in Servers : hd[j].step = "drain" /\ hd[j].written}}

InDatabases(h, id)   == [u \in Users |-> IdAt(h[u], id)]
InQueues(b, id)      == [x \in Servers \X Peers |-> IdAt(b[x[1]][x[2]], id)]
InHandlers(hd, id)   == {i \in Servers : hd[i].step = "route" /\ hd[i].msg.id = id}
InTable(pd, hd, id)  == {r \in pd : r.msg.id = id /\ r.msgid \notin Marked(hd)}
InFrames(c, id)      == [s \in Sessions |-> FrameAt(c[s], id)]

Sole(S) == \E x : S = {x}
None(f) == \A x \in DOMAIN f : f[x] = {}
One(f)  == \E x \in DOMAIN f : Sole(f[x]) /\ \A y \in DOMAIN f : y # x => f[y] = {}

\* One kind of place has the id once, the others do not have it.
Exactly(H, I, B, R, D, C) ==
    \/ One(H)  /\ None(I) /\ None(B) /\ R = {}  /\ D = {}  /\ None(C)
    \/ None(H) /\ One(I)  /\ None(B) /\ R = {}  /\ D = {}  /\ None(C)
    \/ None(H) /\ None(I) /\ One(B)  /\ R = {}  /\ D = {}  /\ None(C)
    \/ None(H) /\ None(I) /\ None(B) /\ Sole(R) /\ D = {}  /\ None(C)
    \/ None(H) /\ None(I) /\ None(B) /\ R = {}  /\ Sole(D) /\ None(C)
    \/ None(H) /\ None(I) /\ None(B) /\ R = {}  /\ D = {}  /\ One(C)

Single(id) ==
    Exactly(InDatabases(history, id), InQueues(inbox, id), InQueues(recvBuffer, id),
            InHandlers(handler, id), InTable(pending, handler, id), InFrames(s2c, id))

\* Nothing appears or disappears in the entry S, in the kind of place f.
Keeps(S, T)    == (S = {} => T = {}) /\ (Sole(S) => Sole(T))
AllKeep(f, g)  == (None(f) => None(g)) /\ (One(f) => One(g))
\* The only copy leaves, the first one comes.
Gives(f, g)    == ~None(f) /\ (One(f) => None(g))
Gets(f, g)     == None(f) => One(g)

LEMMA KeepsSame == ASSUME NEW S PROVE Keeps(S, S)
BY DEF Keeps

LEMMA OneIsNotNone == ASSUME NEW f PROVE ~(One(f) /\ None(f))
BY DEF One, None, Sole

LEMMA EachKeeps ==
    ASSUME NEW A, NEW f, NEW g, DOMAIN f = A, DOMAIN g = A,
           \A x \in A : Keeps(f[x], g[x])
    PROVE  AllKeep(f, g)
<1>1. None(f) => None(g)
  BY DEF None, Keeps
<1>2. ASSUME One(f) PROVE One(g)
  <2>1. PICK x \in A : Sole(f[x]) /\ \A y \in A : y # x => f[y] = {}
    BY <1>2 DEF One
  <2>2. Sole(g[x])
    BY <2>1 DEF Keeps
  <2>3. \A y \in A : y # x => g[y] = {}
    BY <2>1 DEF Keeps
  <2> QED
    BY <2>2, <2>3 DEF One
<1> QED
  BY <1>1, <1>2 DEF AllKeep

LEMMA EntryGives ==
    ASSUME NEW A, NEW f, NEW g, DOMAIN f = A, DOMAIN g = A, NEW x \in A, f[x] # {},
           Sole(f[x]) => g[x] = {}, \A y \in A : y # x => Keeps(f[y], g[y])
    PROVE  Gives(f, g)
<1>1. ~None(f)
  BY DEF None
<1>2. ASSUME One(f) PROVE None(g)
  <2>1. PICK z \in A : Sole(f[z]) /\ \A y \in A : y # z => f[y] = {}
    BY <1>2 DEF One
  <2>2. z = x
    BY <2>1
  <2> QED
    BY <2>1, <2>2 DEF None, Keeps
<1> QED
  BY <1>1, <1>2 DEF Gives

LEMMA EntryGets ==
    ASSUME NEW A, NEW f, NEW g, DOMAIN f = A, DOMAIN g = A, NEW x \in A,
           f[x] = {} => Sole(g[x]), \A y \in A : y # x => Keeps(f[y], g[y])
    PROVE  Gets(f, g)
<1> SUFFICES ASSUME None(f) PROVE One(g)
  BY DEF Gets
<1>1. Sole(g[x])
  BY DEF None
<1>2. \A y \in A : y # x => g[y] = {}
  BY DEF None, Keeps
<1> QED
  BY <1>1, <1>2 DEF One

LEMMA TailFrames ==
    ASSUME NEW q \in Seq(Frame), q # << >>, NEW id
    PROVE  /\ ~(Head(q).kind # "count" /\ Head(q).msg.id = id) =>
                Keeps(FrameAt(q, id), FrameAt(Tail(q), id))
           /\ Head(q).kind # "count" /\ Head(q).msg.id = id =>
                /\ FrameAt(q, id) # {}
                /\ Sole(FrameAt(q, id)) => FrameAt(Tail(q), id) = {}
<1> DEFINE S == FrameAt(q, id)
           T == FrameAt(Tail(q), id)
<1>1. Head(q) = q[1] /\ 1 \in DOMAIN q
  OBVIOUS
<1>2. \A n \in T : n \in Nat \ {0} /\ n + 1 \in S
  <2> SUFFICES ASSUME NEW n \in DOMAIN Tail(q), Tail(q)[n].kind # "count",
                      Tail(q)[n].msg.id = id
               PROVE  n \in Nat \ {0} /\ n + 1 \in S
    BY DEF FrameAt
  <2>1. n + 1 \in DOMAIN q /\ Tail(q)[n] = q[n + 1]
    BY TailElements
  <2>2. n \in Nat \ {0}
    OBVIOUS
  <2> QED
    BY <2>1, <2>2 DEF FrameAt
<1>3. \A n \in S : n \in Nat \ {0} /\ (n # 1 => n - 1 \in T)
  <2> SUFFICES ASSUME NEW n \in DOMAIN q, q[n].kind # "count", q[n].msg.id = id
               PROVE  n \in Nat \ {0} /\ (n # 1 => n - 1 \in T)
    BY DEF FrameAt
  <2>1. n \in Nat \ {0}
    OBVIOUS
  <2>2. n # 1 => n - 1 \in DOMAIN Tail(q) /\ Tail(q)[n - 1] = q[n]
    OBVIOUS
  <2> QED
    BY <2>1, <2>2 DEF FrameAt
<1>4. 1 \in S <=> Head(q).kind # "count" /\ Head(q).msg.id = id
  BY <1>1 DEF FrameAt
<1> HIDE DEF S, T
<1>5. ASSUME 1 \notin S PROVE Keeps(S, T)
  <2>1. S = {} => T = {}
    BY <1>2
  <2>2. ASSUME NEW x, S = {x} PROVE T = {x - 1}
    <3>1. x \in Nat \ {0} /\ x # 1 /\ x - 1 \in T
      BY <1>3, <1>5, <2>2
    <3>2. \A n \in T : n = x - 1
      BY <1>2, <2>2, <3>1
    <3> QED
      BY <3>1, <3>2
  <2> QED
    BY <2>1, <2>2 DEF Keeps, Sole
<1>6. ASSUME 1 \in S, Sole(S) PROVE T = {}
  <2>1. S = {1}
    BY <1>6 DEF Sole
  <2> QED
    BY <1>2, <2>1
<1> QED
  BY <1>4, <1>5, <1>6 DEF S, T

LEMMA AppendFrames ==
    ASSUME NEW q \in Seq(Frame), NEW f \in Frame, NEW id
    PROVE  /\ ~(f.kind # "count" /\ f.msg.id = id) =>
                FrameAt(Append(q, f), id) = FrameAt(q, id)
           /\ f.kind # "count" /\ f.msg.id = id /\ FrameAt(q, id) = {} =>
                Sole(FrameAt(Append(q, f), id))
<1>1. /\ DOMAIN Append(q, f) = DOMAIN q \cup {Len(q) + 1}
      /\ \A n \in DOMAIN q : Append(q, f)[n] = q[n]
      /\ Append(q, f)[Len(q) + 1] = f
      /\ Len(q) + 1 \notin DOMAIN q
  OBVIOUS
<1> DEFINE a == Append(q, f)
           l == Len(q) + 1
<1>2. /\ DOMAIN a = DOMAIN q \cup {l}
      /\ \A n \in DOMAIN q : a[n] = q[n]
      /\ a[l] = f
  BY <1>1
<1> HIDE DEF a, l
<1>3. ~(f.kind # "count" /\ f.msg.id = id) => FrameAt(a, id) = FrameAt(q, id)
  BY <1>2 DEF FrameAt
<1>4. f.kind # "count" /\ f.msg.id = id /\ FrameAt(q, id) = {} => FrameAt(a, id) = {l}
  BY <1>2 DEF FrameAt
<1> QED
  BY <1>3, <1>4 DEF a, Sole

LEMMA AppendIds ==
    ASSUME NEW q \in Seq(Message), NEW m \in Message, NEW id
    PROVE  /\ m.id # id => IdAt(Append(q, m), id) = IdAt(q, id)
           /\ m.id = id /\ IdAt(q, id) = {} => Sole(IdAt(Append(q, m), id))
<1>1. /\ DOMAIN Append(q, m) = DOMAIN q \cup {Len(q) + 1}
      /\ \A n \in DOMAIN q : Append(q, m)[n] = q[n]
      /\ Append(q, m)[Len(q) + 1] = m
  OBVIOUS
<1> DEFINE a == Append(q, m)
           l == Len(q) + 1
<1>2. /\ DOMAIN a = DOMAIN q \cup {l}
      /\ \A n \in DOMAIN q : a[n] = q[n]
      /\ a[l] = m
  BY <1>1
<1> HIDE DEF a, l
<1>3. m.id # id => IdAt(a, id) = IdAt(q, id)
  BY <1>2 DEF IdAt
<1>4. m.id = id /\ IdAt(q, id) = {} => IdAt(a, id) = {l}
  BY <1>2 DEF IdAt
<1> QED
  BY <1>3, <1>4 DEF a, Sole

-----------------------------------------------------------------------------

\* What a recv of k messages puts behind those of the buffer r, and leaves.
Taken(r, q, k) == r \o SubSeq(q, 1, k)
LeftBy(q, k)   == SubSeq(q, k + 1, Len(q))

LEMMA TailIds ==
    ASSUME NEW q \in Seq(Message), q # << >>, NEW id
    PROVE  /\ Head(q).id # id => Keeps(IdAt(q, id), IdAt(Tail(q), id))
           /\ Head(q).id = id => /\ IdAt(q, id) # {}
                                 /\ Sole(IdAt(q, id)) => IdAt(Tail(q), id) = {}
<1> DEFINE S == IdAt(q, id)
           T == IdAt(Tail(q), id)
<1>1. Head(q) = q[1] /\ 1 \in DOMAIN q
  OBVIOUS
<1>2. \A n \in T : n \in Nat \ {0} /\ n + 1 \in S
  <2> SUFFICES ASSUME NEW n \in DOMAIN Tail(q), Tail(q)[n].id = id
               PROVE  n \in Nat \ {0} /\ n + 1 \in S
    BY DEF IdAt
  <2>1. n + 1 \in DOMAIN q /\ Tail(q)[n] = q[n + 1]
    BY TailElements
  <2>2. n \in Nat \ {0}
    OBVIOUS
  <2> QED
    BY <2>1, <2>2 DEF IdAt
<1>3. \A n \in S : n \in Nat \ {0} /\ (n # 1 => n - 1 \in T)
  <2> SUFFICES ASSUME NEW n \in DOMAIN q, q[n].id = id
               PROVE  n \in Nat \ {0} /\ (n # 1 => n - 1 \in T)
    BY DEF IdAt
  <2>1. n \in Nat \ {0}
    OBVIOUS
  <2>2. n # 1 => n - 1 \in DOMAIN Tail(q) /\ Tail(q)[n - 1] = q[n]
    OBVIOUS
  <2> QED
    BY <2>1, <2>2 DEF IdAt
<1>4. 1 \in S <=> Head(q).id = id
  BY <1>1 DEF IdAt
<1> HIDE DEF S, T
<1>5. ASSUME 1 \notin S PROVE Keeps(S, T)
  <2>1. S = {} => T = {}
    BY <1>2
  <2>2. ASSUME NEW x, S = {x} PROVE T = {x - 1}
    <3>1. x \in Nat \ {0} /\ x # 1 /\ x - 1 \in T
      BY <1>3, <1>5, <2>2
    <3>2. \A n \in T : n = x - 1
      BY <1>2, <2>2, <3>1
    <3> QED
      BY <3>1, <3>2
  <2> QED
    BY <2>1, <2>2 DEF Keeps, Sole
<1>6. ASSUME 1 \in S, Sole(S) PROVE T = {}
  <2>1. S = {1}
    BY <1>6 DEF Sole
  <2> QED
    BY <1>2, <2>1
<1> QED
  BY <1>4, <1>5, <1>6 DEF S, T

\* A recv takes the first k messages of the queue q behind those of the buffer r:
\* what is there once is still there once, in the one or in the other.
LEMMA TakenIds ==
    ASSUME NEW q \in Seq(Message), NEW r \in Seq(Message), NEW k \in 1 .. Len(q), NEW id,
           NEW read, read = Taken(r, q, k), NEW rest, rest = LeftBy(q, k)
    PROVE  /\ IdAt(q, id) = {} => IdAt(rest, id) = {} /\ Keeps(IdAt(r, id), IdAt(read, id))
           /\ IdAt(r, id) = {} /\ Sole(IdAt(q, id)) =>
                \/ Sole(IdAt(read, id)) /\ IdAt(rest, id) = {}
                \/ IdAt(read, id) = {} /\ Sole(IdAt(rest, id))
<1> DEFINE l == Len(r)
           S == IdAt(q, id)
           R == IdAt(r, id)
           T == IdAt(read, id)
           U == IdAt(rest, id)
<1> USE DEF Taken, LeftBy
<1>1. l \in Nat /\ k \in Nat \ {0}
  OBVIOUS
<1>2. \A n : n \in DOMAIN read <=> n \in Nat \ {0} /\ n <= l + k
  OBVIOUS
<1>3. \A n \in DOMAIN read : read[n] = IF n <= l THEN r[n] ELSE q[n - l]
  OBVIOUS
<1>4. \A n : n \in DOMAIN rest <=> n \in Nat \ {0} /\ n + k \in DOMAIN q
  OBVIOUS
<1>5. \A n \in DOMAIN rest : rest[n] = q[n + k]
  OBVIOUS
<1>6. \A n : n \in DOMAIN r <=> n \in Nat \ {0} /\ n <= l
  OBVIOUS
<1>7. \A n \in DOMAIN q : n \in Nat \ {0}
  OBVIOUS
<1>8. \A n \in Nat \ {0} : n <= k => n \in DOMAIN q
  OBVIOUS
<1> HIDE DEF l, Taken, LeftBy
<1>9. \A n \in S : n \in Nat \ {0} /\ (n <= k => n + l \in T) /\ (n > k => n - k \in U)
  <2> SUFFICES ASSUME NEW n \in DOMAIN q, q[n].id = id
               PROVE  n \in Nat \ {0} /\ (n <= k => n + l \in T) /\ (n > k => n - k \in U)
    BY DEF IdAt
  <2>1. n \in Nat \ {0}
    BY <1>7
  <2>2. n <= k => n + l \in DOMAIN read /\ read[n + l] = q[n]
    <3>1. n <= k => n + l \in Nat \ {0} /\ n + l <= l + k /\ ~(n + l <= l) /\ (n + l) - l = n
      BY <1>1, <2>1
    <3> QED
      BY <1>2, <1>3, <3>1
  <2>3. n > k => n - k \in DOMAIN rest /\ rest[n - k] = q[n]
    <3>1. n > k => n - k \in Nat \ {0} /\ (n - k) + k = n
      BY <1>1, <2>1
    <3> QED
      BY <1>4, <1>5, <3>1
  <2> QED
    BY <2>1, <2>2, <2>3 DEF IdAt
<1>10. \A n \in T : n \in Nat \ {0} /\ (n <= l => n \in R) /\ (n > l => n - l \in S /\ n - l <= k)
  <2> SUFFICES ASSUME NEW n \in DOMAIN read, read[n].id = id
               PROVE  n \in Nat \ {0} /\ (n <= l => n \in R) /\ (n > l => n - l \in S /\ n - l <= k)
    BY DEF IdAt
  <2>1. n \in Nat \ {0} /\ n <= l + k
    BY <1>2
  <2>2. n <= l => n \in DOMAIN r /\ read[n] = r[n]
    BY <1>3, <1>6, <2>1
  <2>3. n > l => n - l \in DOMAIN q /\ read[n] = q[n - l] /\ n - l <= k
    <3>1. n > l => n - l \in Nat \ {0} /\ n - l <= k /\ ~(n <= l)
      BY <1>1, <2>1
    <3> QED
      BY <1>3, <1>8, <3>1
  <2> QED
    BY <2>1, <2>2, <2>3 DEF IdAt
<1>11. \A n \in R : n \in T /\ n \in Nat /\ n <= l
  <2> SUFFICES ASSUME NEW n \in DOMAIN r, r[n].id = id
               PROVE  n \in T /\ n \in Nat /\ n <= l
    BY DEF IdAt
  <2>1. n \in Nat \ {0} /\ n <= l
    BY <1>6
  <2>2. n \in DOMAIN read /\ read[n] = r[n]
    <3>1. n <= l + k
      BY <1>1, <2>1
    <3> QED
      BY <1>2, <1>3, <2>1, <3>1
  <2> QED
    BY <2>1, <2>2 DEF IdAt
<1>12. \A n \in U : n \in Nat \ {0} /\ n + k \in S
  BY <1>4, <1>5 DEF IdAt
<1> HIDE DEF S, T, R, U
<1>13. ASSUME S = {} PROVE U = {} /\ T = R
  <2>1. U = {}
    BY <1>12, <1>13
  <2>2. \A n \in T : n <= l
    BY <1>1, <1>10, <1>13
  <2> QED
    BY <1>10, <1>11, <2>1, <2>2
<1>14. ASSUME R = {}, NEW x, S = {x}
       PROVE  \/ Sole(T) /\ U = {}
              \/ T = {} /\ Sole(U)
  <2>1. x \in Nat \ {0}
    BY <1>9, <1>14
  <2>2. ASSUME NEW n \in T PROVE n = x + l /\ x <= k
    <3>1. n \in Nat /\ n > l
      BY <1>1, <1>10, <1>14
    <3>2. n - l = x /\ n - l <= k
      BY <1>10, <1>14, <3>1
    <3> QED
      BY <1>1, <2>1, <3>1, <3>2
  <2>3. ASSUME NEW n \in U PROVE n = x - k /\ x > k
    <3>1. n \in Nat \ {0} /\ n + k = x
      BY <1>12, <1>14
    <3> QED
      BY <1>1, <2>1, <3>1
  <2>4. CASE x <= k
    <3>1. T = {x + l}
      BY <1>9, <1>14, <2>2, <2>4
    <3>2. U = {}
      BY <1>1, <2>1, <2>3, <2>4
    <3> QED
      BY <3>1, <3>2 DEF Sole
  <2>5. CASE x > k
    <3>1. U = {x - k}
      BY <1>9, <1>14, <2>3, <2>5
    <3>2. T = {}
      BY <1>1, <2>1, <2>2, <2>5
    <3> QED
      BY <3>1, <3>2 DEF Sole
  <2> QED
    BY <1>1, <2>1, <2>4, <2>5
<1>15. S = {} => U = {} /\ Keeps(R, T)
  BY <1>13 DEF Keeps
<1>16. R = {} /\ Sole(S) => \/ Sole(T) /\ U = {}
                            \/ T = {} /\ Sole(U)
  BY <1>14 DEF Sole
<1> QED
  BY <1>15, <1>16 DEF S, R, T, U

\* A read: from the queue into the buffer, and the first one out of it.  The
\* positions of an id in the queue and in the buffer, S and R before, U and T
\* after; the message taken out has the id or not.
ReadMoves(hit, S, R, T, U) ==
    /\ ~hit =>
         /\ S = {} => U = {} /\ Keeps(R, T)
         /\ R = {} /\ Sole(S) => \/ Sole(T) /\ U = {}
                                 \/ T = {} /\ Sole(U)
    /\ hit =>
         /\ R # {} \/ S # {}
         /\ R = {} /\ Sole(S) => T = {} /\ U = {}
         /\ S = {} /\ Sole(R) => T = {} /\ U = {}

LEMMA ReadIds ==
    ASSUME NEW q \in Seq(Message), NEW r \in Seq(Message), NEW k \in 1 .. Len(q), NEW id,
           NEW read, read = Taken(r, q, k), NEW rest, rest = LeftBy(q, k)
    PROVE  ReadMoves(Head(read).id = id, IdAt(q, id), IdAt(r, id), IdAt(Tail(read), id), IdAt(rest, id))
<1>1. SubSeq(q, 1, k) \in Seq(Message) /\ SubSeq(q, 1, k) # << >>
  BY Segment
<1>2. read \in Seq(Message) /\ read # << >>
  BY <1>1, Joined DEF Taken
<1>3. /\ Head(read).id # id => Keeps(IdAt(read, id), IdAt(Tail(read), id))
      /\ Head(read).id = id => /\ IdAt(read, id) # {}
                               /\ Sole(IdAt(read, id)) => IdAt(Tail(read), id) = {}
  BY <1>2, TailIds
<1>4. /\ IdAt(q, id) = {} => IdAt(rest, id) = {} /\ Keeps(IdAt(r, id), IdAt(read, id))
      /\ IdAt(r, id) = {} /\ Sole(IdAt(q, id)) =>
           \/ Sole(IdAt(read, id)) /\ IdAt(rest, id) = {}
           \/ IdAt(read, id) = {} /\ Sole(IdAt(rest, id))
  BY TakenIds
<1> DEFINE T == IdAt(Tail(read), id)
           W == IdAt(read, id)
           U == IdAt(rest, id)
           S == IdAt(q, id)
           R == IdAt(r, id)
<1> HIDE DEF T, W, U, S, R
<1>5. /\ Head(read).id # id => Keeps(W, T)
      /\ Head(read).id = id => W # {} /\ (Sole(W) => T = {})
  BY <1>3 DEF W, T
<1>6. /\ S = {} => U = {} /\ Keeps(R, W)
      /\ R = {} /\ Sole(S) => \/ Sole(W) /\ U = {}
                              \/ W = {} /\ Sole(U)
  BY <1>4 DEF W, U, S, R
<1>7. ASSUME Head(read).id # id
      PROVE  /\ S = {} => U = {} /\ Keeps(R, T)
             /\ R = {} /\ Sole(S) => \/ Sole(T) /\ U = {}
                                     \/ T = {} /\ Sole(U)
  <2>1. (W = {} => T = {}) /\ (Sole(W) => Sole(T))
    BY <1>5, <1>7 DEF Keeps
  <2>2. S = {} => U = {} /\ (R = {} => W = {}) /\ (Sole(R) => Sole(W))
    BY <1>6 DEF Keeps
  <2>3. S = {} => U = {} /\ Keeps(R, T)
    BY <2>1, <2>2 DEF Keeps
  <2> QED
    BY <1>6, <2>1, <2>3
<1>8. ASSUME Head(read).id = id
      PROVE  /\ R # {} \/ S # {}
             /\ (R = {} /\ Sole(S)) \/ (S = {} /\ Sole(R)) => T = {} /\ U = {}
  BY <1>5, <1>6, <1>8 DEF Keeps
<1> QED
  BY <1>7, <1>8 DEF T, W, U, S, R, ReadMoves

-----------------------------------------------------------------------------

LEMMA NothingMoves ==
    ASSUME NEW H, NEW I, NEW B, NEW R, NEW D, NEW C, Exactly(H, I, B, R, D, C),
           NEW H2, NEW I2, NEW B2, NEW R2, NEW D2, NEW C2,
           AllKeep(H, H2), AllKeep(I, I2), AllKeep(B, B2), Keeps(R, R2), Keeps(D, D2),
           AllKeep(C, C2)
    PROVE  Exactly(H2, I2, B2, R2, D2, C2)
BY DEF Exactly, AllKeep, Keeps

\* A frame is read and stored.
LEMMA FrameToDatabase ==
    ASSUME NEW H, NEW I, NEW B, NEW R, NEW D, NEW C, Exactly(H, I, B, R, D, C),
           NEW H2, NEW C2, Gives(C, C2), Gets(H, H2)
    PROVE  Exactly(H2, I, B, R, D, C2)
<1>1. None(H) /\ None(I) /\ None(B) /\ R = {} /\ D = {} /\ One(C)
  BY DEF Exactly, Gives
<1> QED
  BY <1>1 DEF Exactly, Gives, Gets

\* A row is written.
LEMMA RowToFrame ==
    ASSUME NEW H, NEW I, NEW B, NEW R, NEW D, NEW C, Exactly(H, I, B, R, D, C),
           NEW D2, NEW C2, D # {}, Sole(D) => D2 = {}, Gets(C, C2)
    PROVE  Exactly(H, I, B, R, D2, C2)
<1>1. None(H) /\ None(I) /\ None(B) /\ R = {} /\ Sole(D) /\ None(C)
  BY DEF Exactly
<1> QED
  BY <1>1 DEF Exactly, Gets

\* A message is routed to a client of the server, to the table, to another server.
LEMMA RouteToFrame ==
    ASSUME NEW H, NEW I, NEW B, NEW R, NEW D, NEW C, Exactly(H, I, B, R, D, C),
           NEW R2, NEW C2, R # {}, Sole(R) => R2 = {}, Gets(C, C2)
    PROVE  Exactly(H, I, B, R2, D, C2)
<1>1. None(H) /\ None(I) /\ None(B) /\ Sole(R) /\ D = {} /\ None(C)
  BY DEF Exactly
<1> QED
  BY <1>1 DEF Exactly, Gets

LEMMA RouteToTable ==
    ASSUME NEW H, NEW I, NEW B, NEW R, NEW D, NEW C, Exactly(H, I, B, R, D, C),
           NEW R2, NEW D2, R # {}, Sole(R) => R2 = {}, D = {} => Sole(D2)
    PROVE  Exactly(H, I, B, R2, D2, C)
<1>1. None(H) /\ None(I) /\ None(B) /\ Sole(R) /\ D = {} /\ None(C)
  BY DEF Exactly
<1> QED
  BY <1>1 DEF Exactly

LEMMA RouteToQueue ==
    ASSUME NEW H, NEW I, NEW B, NEW R, NEW D, NEW C, Exactly(H, I, B, R, D, C),
           NEW R2, NEW I2, R # {}, Sole(R) => R2 = {}, Gets(I, I2)
    PROVE  Exactly(H, I2, B, R2, D, C)
<1>1. None(H) /\ None(I) /\ None(B) /\ Sole(R) /\ D = {} /\ None(C)
  BY DEF Exactly
<1> QED
  BY <1>1 DEF Exactly, Gets

-----------------------------------------------------------------------------

(***************************************************************************)
(* What the steps do to the places of an id.                               *)
(***************************************************************************)
LEMMA FrameRead ==
    ASSUME NEW c \in [Sessions -> Seq(Frame)], NEW s \in Sessions, c[s] # << >>, NEW id,
           NEW c2, c2 = [c EXCEPT ![s] = Tail(@)]
    PROVE  /\ ~(Head(c[s]).kind # "count" /\ Head(c[s]).msg.id = id) =>
                AllKeep(InFrames(c, id), InFrames(c2, id))
           /\ Head(c[s]).kind # "count" /\ Head(c[s]).msg.id = id =>
                Gives(InFrames(c, id), InFrames(c2, id))
<1> DEFINE f == InFrames(c, id)
           g == InFrames(c2, id)
<1>1. /\ DOMAIN f = Sessions /\ DOMAIN g = Sessions
      /\ f[s] = FrameAt(c[s], id) /\ g[s] = FrameAt(Tail(c[s]), id)
  BY DEF InFrames
<1>2. \A t \in Sessions : t # s => f[t] = g[t]
  BY DEF InFrames
<1>3. \A t \in Sessions : t # s => Keeps(f[t], g[t])
  BY <1>2, KeepsSame
<1> HIDE DEF f, g
<1>4. /\ ~(Head(c[s]).kind # "count" /\ Head(c[s]).msg.id = id) => Keeps(f[s], g[s])
      /\ Head(c[s]).kind # "count" /\ Head(c[s]).msg.id = id =>
           f[s] # {} /\ (Sole(f[s]) => g[s] = {})
  <2> PICK q \in Seq(Frame) : q = c[s]
    OBVIOUS
  <2>1. f[s] = FrameAt(q, id) /\ g[s] = FrameAt(Tail(q), id) /\ q # << >>
    BY <1>1
  <2>2. /\ ~(Head(q).kind # "count" /\ Head(q).msg.id = id) =>
             Keeps(FrameAt(q, id), FrameAt(Tail(q), id))
        /\ Head(q).kind # "count" /\ Head(q).msg.id = id =>
             FrameAt(q, id) # {} /\ (Sole(FrameAt(q, id)) => FrameAt(Tail(q), id) = {})
    BY <2>1, TailFrames
  <2> QED
    BY <2>1, <2>2
<1>5. ASSUME ~(Head(c[s]).kind # "count" /\ Head(c[s]).msg.id = id)
      PROVE  AllKeep(f, g)
  <2>1. \A t \in Sessions : Keeps(f[t], g[t])
    BY <1>3, <1>4, <1>5
  <2> QED
    BY <1>1, <2>1, EachKeeps
<1>6. ASSUME Head(c[s]).kind # "count" /\ Head(c[s]).msg.id = id
      PROVE  Gives(f, g)
  BY <1>1, <1>3, <1>4, <1>6, EntryGives
<1> QED
  BY <1>5, <1>6 DEF f, g

LEMMA FrameWritten ==
    ASSUME NEW c \in [Sessions -> Seq(Frame)], NEW s \in Sessions, NEW f \in Frame, NEW id,
           NEW c2, c2 = [c EXCEPT ![s] = Append(@, f)]
    PROVE  /\ ~(f.kind # "count" /\ f.msg.id = id) =>
                AllKeep(InFrames(c, id), InFrames(c2, id))
           /\ f.kind # "count" /\ f.msg.id = id =>
                Gets(InFrames(c, id), InFrames(c2, id))
<1> DEFINE a == InFrames(c, id)
           b == InFrames(c2, id)
<1>1. /\ DOMAIN a = Sessions /\ DOMAIN b = Sessions
      /\ a[s] = FrameAt(c[s], id) /\ b[s] = FrameAt(Append(c[s], f), id)
  BY DEF InFrames
<1>2. \A t \in Sessions : t # s => a[t] = b[t]
  BY DEF InFrames
<1>3. \A t \in Sessions : t # s => Keeps(a[t], b[t])
  BY <1>2, KeepsSame
<1> HIDE DEF a, b
<1>q. c[s] \in Seq(Frame)
  OBVIOUS
<1> PICK q \in Seq(Frame) : q = c[s]
  BY <1>q
<1>r. a[s] = FrameAt(q, id) /\ b[s] = FrameAt(Append(q, f), id)
  BY <1>1
<1>4. /\ ~(f.kind # "count" /\ f.msg.id = id) => b[s] = a[s]
      /\ f.kind # "count" /\ f.msg.id = id => (a[s] = {} => Sole(b[s]))
  BY <1>r, AppendFrames
<1>5. ASSUME ~(f.kind # "count" /\ f.msg.id = id)
      PROVE  AllKeep(a, b)
  <2>1. \A t \in Sessions : Keeps(a[t], b[t])
    BY <1>3, <1>4, <1>5, KeepsSame
  <2> QED
    BY <1>1, <2>1, EachKeeps
<1>6. ASSUME f.kind # "count" /\ f.msg.id = id
      PROVE  Gets(a, b)
  BY <1>1, <1>3, <1>4, <1>6, EntryGets
<1> QED
  BY <1>5, <1>6 DEF a, b

LEMMA FramesDropped ==
    ASSUME NEW c \in [Sessions -> Seq(Frame)], NEW s \in Sessions, NEW id,
           NEW c2, c2 = [c EXCEPT ![s] = << >>], FrameAt(c[s], id) = {}
    PROVE  AllKeep(InFrames(c, id), InFrames(c2, id))
<1> DEFINE a == InFrames(c, id)
           b == InFrames(c2, id)
<1>1. /\ DOMAIN a = Sessions /\ DOMAIN b = Sessions
      /\ a[s] = {} /\ b[s] = {}
  BY DEF InFrames, FrameAt
<1>2. \A t \in Sessions : t # s => a[t] = b[t]
  BY DEF InFrames
<1> HIDE DEF a, b
<1>3. \A t \in Sessions : Keeps(a[t], b[t])
  BY <1>1, <1>2, KeepsSame
<1>4. AllKeep(a, b)
  BY <1>1, <1>3, EachKeeps
<1> QED
  BY <1>4 DEF a, b

LEMMA MessageStored ==
    ASSUME NEW h \in [Users -> Seq(Message)], NEW u \in Users, NEW m \in Message, NEW id,
           NEW h2, h2 = [h EXCEPT ![u] = Append(@, m)]
    PROVE  /\ m.id # id => AllKeep(InDatabases(h, id), InDatabases(h2, id))
           /\ m.id = id => Gets(InDatabases(h, id), InDatabases(h2, id))
<1> DEFINE a == InDatabases(h, id)
           b == InDatabases(h2, id)
<1>1. /\ DOMAIN a = Users /\ DOMAIN b = Users
      /\ a[u] = IdAt(h[u], id) /\ b[u] = IdAt(Append(h[u], m), id)
  BY DEF InDatabases
<1>2. \A v \in Users : v # u => a[v] = b[v]
  BY DEF InDatabases
<1>3. \A v \in Users : v # u => Keeps(a[v], b[v])
  BY <1>2, KeepsSame
<1> HIDE DEF a, b
<1>q. h[u] \in Seq(Message)
  OBVIOUS
<1>r. /\ m.id # id => IdAt(Append(h[u], m), id) = IdAt(h[u], id)
      /\ m.id = id /\ IdAt(h[u], id) = {} => Sole(IdAt(Append(h[u], m), id))
  BY <1>q, AppendIds
<1>4. /\ m.id # id => b[u] = a[u]
      /\ m.id = id => (a[u] = {} => Sole(b[u]))
  BY <1>1, <1>r
<1>5. ASSUME m.id # id PROVE AllKeep(a, b)
  <2>1. \A v \in Users : Keeps(a[v], b[v])
    BY <1>3, <1>4, <1>5, KeepsSame
  <2> QED
    BY <1>1, <2>1, EachKeeps
<1>6. ASSUME m.id = id PROVE Gets(a, b)
  BY <1>1, <1>3, <1>4, <1>6, EntryGets
<1> QED
  BY <1>5, <1>6 DEF a, b

LEMMA MessageQueued ==
    ASSUME NEW b \in [Servers -> [Peers -> Seq(Message)]], NEW i \in Servers, NEW p \in Peers,
           NEW m \in Message, NEW b2, b2 = [b EXCEPT ![i][p] = Append(@, m)], NEW id
    PROVE  /\ m.id # id => AllKeep(InQueues(b, id), InQueues(b2, id))
           /\ m.id = id => Gets(InQueues(b, id), InQueues(b2, id))
<1> PICK A : A = Servers \X Peers
  OBVIOUS
<1> PICK x : x = << i, p >>
  OBVIOUS
<1> DEFINE f == InQueues(b, id)
           g == InQueues(b2, id)
<1>0. /\ b2[i][p] = Append(b[i][p], m)
      /\ \A j \in Servers, k \in Peers : j # i \/ k # p => b2[j][k] = b[j][k]
  OBVIOUS
<1>e. \A y \in A : y # x => b2[y[1]][y[2]] = b[y[1]][y[2]]
  BY <1>0
<1>1. /\ DOMAIN f = A /\ DOMAIN g = A /\ x \in A
      /\ f[x] = IdAt(b[i][p], id) /\ g[x] = IdAt(Append(b[i][p], m), id)
      /\ \A y \in A : y # x => g[y] = f[y]
  BY <1>0, <1>e DEF InQueues
<1> HIDE DEF f, g
<1>2. \A y \in A : y # x => Keeps(f[y], g[y])
  BY <1>1, KeepsSame
<1>3. b[i][p] \in Seq(Message)
  OBVIOUS
<1>r. /\ m.id # id => IdAt(Append(b[i][p], m), id) = IdAt(b[i][p], id)
      /\ m.id = id /\ IdAt(b[i][p], id) = {} => Sole(IdAt(Append(b[i][p], m), id))
  BY <1>3, AppendIds
<1>4. /\ m.id # id => g[x] = f[x]
      /\ m.id = id => (f[x] = {} => Sole(g[x]))
  BY <1>1, <1>r
<1>5. ASSUME m.id # id PROVE AllKeep(f, g)
  <2>1. \A y \in A : Keeps(f[y], g[y])
    BY <1>2, <1>4, <1>5, KeepsSame
  <2> QED
    BY <1>1, <2>1, EachKeeps
<1>6. ASSUME m.id = id PROVE Gets(f, g)
  BY <1>1, <1>2, <1>4, <1>6, EntryGets
<1> QED
  BY <1>5, <1>6 DEF f, g

LEMMA QueueEmptied ==
    ASSUME NEW b \in [Servers -> [Peers -> Seq(Message)]], NEW i \in Servers, NEW p \in Peers,
           NEW b2, b2 = [b EXCEPT ![i][p] = << >>], NEW id, IdAt(b[i][p], id) = {}
    PROVE  AllKeep(InQueues(b, id), InQueues(b2, id))
<1> PICK A : A = Servers \X Peers
  OBVIOUS
<1> PICK x : x = << i, p >>
  OBVIOUS
<1> DEFINE f == InQueues(b, id)
           g == InQueues(b2, id)
<1>0. /\ b2[i][p] = << >>
      /\ \A j \in Servers, k \in Peers : j # i \/ k # p => b2[j][k] = b[j][k]
  OBVIOUS
<1>e. \A y \in A : y # x => b2[y[1]][y[2]] = b[y[1]][y[2]]
  BY <1>0
<1>1. /\ DOMAIN f = A /\ DOMAIN g = A /\ x \in A
      /\ f[x] = IdAt(b[i][p], id) /\ g[x] = IdAt(<< >>, id)
      /\ \A y \in A : y # x => g[y] = f[y]
  BY <1>0, <1>e DEF InQueues
<1>2. IdAt(<< >>, id) = {}
  BY DEF IdAt
<1> HIDE DEF f, g
<1>3. \A y \in A : Keeps(f[y], g[y])
  BY <1>1, <1>2, KeepsSame
<1>4. AllKeep(f, g)
  BY <1>1, <1>3, EachKeeps
<1> QED
  BY <1>4 DEF f, g

\* A handler is replaced by one that routes nothing.
LEMMA HandlerEnds ==
    ASSUME NEW hd \in [Servers -> Handler], NEW i \in Servers, NEW h, h.step # "route",
           NEW hd2, hd2 = [hd EXCEPT ![i] = h], NEW id
    PROVE  /\ ~(hd[i].step = "route" /\ hd[i].msg.id = id) => InHandlers(hd2, id) = InHandlers(hd, id)
           /\ hd[i].step = "route" /\ hd[i].msg.id = id =>
                /\ InHandlers(hd, id) # {}
                /\ Sole(InHandlers(hd, id)) => InHandlers(hd2, id) = {}
<1>1. InHandlers(hd2, id) = InHandlers(hd, id) \ {i}
  BY DEF InHandlers
<1>2. i \in InHandlers(hd, id) <=> hd[i].step = "route" /\ hd[i].msg.id = id
  BY DEF InHandlers
<1> QED
  BY <1>1, <1>2 DEF Sole

-----------------------------------------------------------------------------

\* Two tables, of which the entries x change: from I to I2, from B to B2.
PairMoves(I, I2, B, B2, x) ==
    /\ None(I) /\ None(B) /\ I2[x] = {} /\ B2[x] = {} => None(I2) /\ None(B2)
    /\ One(I) /\ None(B) =>
         /\ B[x] = {} /\ (Sole(I[x]) \/ I[x] = {})
         /\ I[x] = {} /\ I2[x] = {} /\ B2[x] = {} => One(I2) /\ None(B2)
         /\ I[x] # {} /\ I2[x] = {} /\ B2[x] = {} => None(I2) /\ None(B2)
         /\ I[x] # {} /\ Sole(I2[x]) /\ B2[x] = {} => One(I2) /\ None(B2)
         /\ I[x] # {} /\ I2[x] = {} /\ Sole(B2[x]) => None(I2) /\ One(B2)

LEMMA PairOfEntries ==
    ASSUME NEW A, NEW x \in A, NEW I, NEW I2, NEW B, NEW B2,
           DOMAIN I = A, DOMAIN I2 = A, DOMAIN B = A, DOMAIN B2 = A,
           \A y \in A : y # x => I2[y] = I[y],
           \A y \in A : y # x => B2[y] = B[y]
    PROVE  PairMoves(I, I2, B, B2, x)
<1>1. ASSUME None(I), None(B), I2[x] = {}, B2[x] = {} PROVE None(I2) /\ None(B2)
  BY <1>1 DEF None
<1>2. ASSUME One(I), None(B)
      PROVE  /\ B[x] = {} /\ (Sole(I[x]) \/ I[x] = {})
             /\ I[x] = {} /\ I2[x] = {} /\ B2[x] = {} => One(I2) /\ None(B2)
             /\ I[x] # {} /\ I2[x] = {} /\ B2[x] = {} => None(I2) /\ None(B2)
             /\ I[x] # {} /\ Sole(I2[x]) /\ B2[x] = {} => One(I2) /\ None(B2)
             /\ I[x] # {} /\ I2[x] = {} /\ Sole(B2[x]) => None(I2) /\ One(B2)
  <2>1. PICK z \in A : Sole(I[z]) /\ \A y \in A : y # z => I[y] = {}
    BY <1>2 DEF One
  <2>2. \A y \in A : B[y] = {}
    BY <1>2 DEF None
  <2>3. I[x] # {} => z = x
    BY <2>1
  <2>4. I[x] = {} => z # x
    BY <2>1 DEF Sole
  <2>5. I[x] = {} /\ I2[x] = {} /\ B2[x] = {} => One(I2) /\ None(B2)
    BY <2>1, <2>2, <2>4 DEF One, None
  <2>6. I[x] # {} /\ I2[x] = {} /\ B2[x] = {} => None(I2) /\ None(B2)
    BY <2>1, <2>2, <2>3 DEF None
  <2>7. I[x] # {} /\ Sole(I2[x]) /\ B2[x] = {} => One(I2) /\ None(B2)
    BY <2>1, <2>2, <2>3 DEF One, None
  <2>8. I[x] # {} /\ I2[x] = {} /\ Sole(B2[x]) => None(I2) /\ One(B2)
    BY <2>1, <2>2, <2>3 DEF One, None
  <2> QED
    BY <2>1, <2>2, <2>3, <2>5, <2>6, <2>7, <2>8
<1> QED
  BY <1>1, <1>2 DEF PairMoves

\* ... and by a read that takes the id out, or another one.
TablesRead(hit, I, B, I2, B2) ==
    /\ ~hit =>
         /\ None(I) /\ None(B) => None(I2) /\ None(B2)
         /\ One(I) /\ None(B) => \/ One(I2) /\ None(B2)
                                 \/ None(I2) /\ One(B2)
         /\ None(I) /\ One(B) => None(I2) /\ One(B2)
    /\ hit =>
         /\ ~(None(I) /\ None(B))
         /\ One(I) /\ None(B) => None(I2) /\ None(B2)
         /\ None(I) /\ One(B) => None(I2) /\ None(B2)

LEMMA EntriesRead ==
    ASSUME NEW A, NEW x \in A, NEW I, NEW I2, NEW B, NEW B2,
           DOMAIN I = A, DOMAIN I2 = A, DOMAIN B = A, DOMAIN B2 = A,
           \A y \in A : y # x => I2[y] = I[y],
           \A y \in A : y # x => B2[y] = B[y],
           NEW hit, ReadMoves(hit, I[x], B[x], B2[x], I2[x])
    PROVE  TablesRead(hit, I, B, I2, B2)
<1>4. PairMoves(I, I2, B, B2, x)
  BY PairOfEntries
<1>5. PairMoves(B, B2, I, I2, x)
  BY PairOfEntries
<1>6. None(I) /\ None(B) => I[x] = {} /\ B[x] = {}
  BY DEF None
<1>7. ASSUME ~hit, None(I), None(B) PROVE None(I2) /\ None(B2)
  BY <1>4, <1>6, <1>7 DEF Keeps, PairMoves, ReadMoves
<1>8. ASSUME ~hit, One(I), None(B)
      PROVE  \/ One(I2) /\ None(B2)
             \/ None(I2) /\ One(B2)
  BY <1>4, <1>8 DEF Keeps, PairMoves, ReadMoves
<1>9. ASSUME ~hit, None(I), One(B) PROVE None(I2) /\ One(B2)
  BY <1>5, <1>9 DEF Keeps, PairMoves, ReadMoves
<1>10. ASSUME hit PROVE ~(None(I) /\ None(B))
  BY <1>6, <1>10 DEF ReadMoves
<1>11. ASSUME hit, One(I), None(B) PROVE None(I2) /\ None(B2)
  BY <1>4, <1>11 DEF PairMoves, ReadMoves
<1>12. ASSUME hit, None(I), One(B) PROVE None(I2) /\ None(B2)
  BY <1>5, <1>12 DEF PairMoves, ReadMoves
<1> QED
  BY <1>7, <1>8, <1>9, <1>10, <1>11, <1>12 DEF TablesRead

LEMMA QueueRead ==
    ASSUME NEW c \in [Servers -> [Peers -> Seq(Message)]],
           NEW b \in [Servers -> [Peers -> Seq(Message)]],
           NEW i \in Servers, NEW p \in Peers, NEW k \in 1 .. Len(c[i][p]), NEW id,
           NEW read, read = Taken(b[i][p], c[i][p], k),
           NEW c2, c2 = [c EXCEPT ![i][p] = LeftBy(c[i][p], k)],
           NEW b2, b2 = [b EXCEPT ![i][p] = Tail(read)]
    PROVE  TablesRead(Head(read).id = id, InQueues(c, id), InQueues(b, id),
                      InQueues(c2, id), InQueues(b2, id))
<1> DEFINE I == InQueues(c, id)
           B == InQueues(b, id)
           I2 == InQueues(c2, id)
           B2 == InQueues(b2, id)
           A == Servers \X Peers
           x == << i, p >>
           hit == Head(read).id = id
<1>0. /\ b2[i][p] = Tail(read) /\ c2[i][p] = LeftBy(c[i][p], k)
      /\ c[i][p] \in Seq(Message) /\ b[i][p] \in Seq(Message)
      /\ \A y \in A : y # x => b2[y[1]][y[2]] = b[y[1]][y[2]]
      /\ \A y \in A : y # x => c2[y[1]][y[2]] = c[y[1]][y[2]]
  OBVIOUS
<1>1. /\ DOMAIN I = A /\ DOMAIN I2 = A /\ x \in A
      /\ I[x] = IdAt(c[i][p], id) /\ I2[x] = IdAt(LeftBy(c[i][p], k), id)
      /\ \A y \in A : y # x => I2[y] = I[y]
  BY <1>0 DEF InQueues
<1>2. /\ DOMAIN B = A /\ DOMAIN B2 = A
      /\ B[x] = IdAt(b[i][p], id) /\ B2[x] = IdAt(Tail(read), id)
      /\ \A y \in A : y # x => B2[y] = B[y]
  BY <1>0 DEF InQueues
<1> HIDE DEF I, B, I2, B2, A, x, hit
<1>3. ReadMoves(hit, I[x], B[x], B2[x], I2[x])
  <2>1. PICK q \in Seq(Message) : q = c[i][p]
    BY <1>0
  <2>2. PICK r \in Seq(Message) : r = b[i][p]
    BY <1>0
  <2>3. PICK rest : rest = LeftBy(q, k)
    OBVIOUS
  <2>4. k \in 1 .. Len(q) /\ read = Taken(r, q, k)
    BY <2>1, <2>2
  <2>5. ReadMoves(Head(read).id = id, IdAt(q, id), IdAt(r, id), IdAt(Tail(read), id), IdAt(rest, id))
    BY <2>3, <2>4, ReadIds
  <2> QED
    BY <1>1, <1>2, <2>1, <2>2, <2>3, <2>5 DEF hit
<1>4. TablesRead(hit, I, B, I2, B2)
  BY <1>1, <1>2, <1>3, EntriesRead
<1> QED
  BY <1>4 DEF I, B, I2, B2, hit

LEMMA QueueToHandler ==
    ASSUME NEW H, NEW I, NEW B, NEW R, NEW D, NEW C, Exactly(H, I, B, R, D, C),
           NEW I2, NEW B2, NEW R2, NEW hit, TablesRead(hit, I, B, I2, B2),
           ~hit => R2 = R, hit => (R = {} => Sole(R2))
    PROVE  Exactly(H, I2, B2, R2, D, C)
<1>1. CASE ~hit
  BY <1>1 DEF Exactly, TablesRead
<1>2. CASE hit
  BY <1>2 DEF Exactly, TablesRead
<1> QED
  BY <1>1, <1>2

\* The rows being deleted, when the handler of one server is replaced.
WrittenRow(h) == h.step = "drain" /\ h.written

LEMMA MarksSame ==
    ASSUME NEW hd \in [Servers -> Handler], NEW i \in Servers, NEW h,
           ~WrittenRow(hd[i]), ~WrittenRow(h), NEW hd2, hd2 = [hd EXCEPT ![i] = h]
    PROVE  Marked(hd2) = Marked(hd)
BY DEF Marked, WrittenRow

LEMMA TableSame ==
    ASSUME NEW pd, NEW hd, NEW hd2, Marked(hd2) = Marked(hd), NEW id
    PROVE  InTable(pd, hd2, id) = InTable(pd, hd, id)
BY DEF InTable

-----------------------------------------------------------------------------

\* The places of one kind, as Places has them.
Tagged(kind, f) == UNION {{<< kind, x, n >> : n \in f[x]} : x \in DOMAIN f}

LEMMA TaggedPlaces ==
    ASSUME NEW f, NEW kind
    PROVE  /\ None(f) => Tagged(kind, f) = {}
           /\ One(f) => \E p : Tagged(kind, f) = {p}
<1>1. ASSUME NEW p PROVE p \in Tagged(kind, f) <=> \E x \in DOMAIN f : \E n \in f[x] : p = << kind, x, n >>
  BY DEF Tagged
<1>2. ASSUME None(f) PROVE Tagged(kind, f) = {}
  BY <1>1, <1>2 DEF None
<1>3. ASSUME One(f) PROVE \E p : Tagged(kind, f) = {p}
  <2>1. PICK x \in DOMAIN f : Sole(f[x]) /\ \A y \in DOMAIN f : y # x => f[y] = {}
    BY <1>3 DEF One
  <2>2. PICK n : f[x] = {n}
    BY <2>1 DEF Sole
  <2>3. << kind, x, n >> \in Tagged(kind, f)
    BY <1>1, <2>2
  <2>4. ASSUME NEW p \in Tagged(kind, f) PROVE p = << kind, x, n >>
    BY <1>1, <2>1, <2>2
  <2>5. Tagged(kind, f) = {<< kind, x, n >>}
    BY <2>3, <2>4
  <2> QED
    BY <2>5
<1> QED
  BY <1>2, <1>3

LEMMA SinglePlace ==
    ASSUME NEW id, Single(id)
    PROVE  \E p : Places(id) = {p}
<1> DEFINE H == InDatabases(history, id)
           I == InQueues(inbox, id)
           B == InQueues(recvBuffer, id)
           R == InHandlers(handler, id)
           D == InTable(pending, handler, id)
           C == InFrames(s2c, id)
           routing == {<< "handler", i >> : i \in R}
           waiting == {<< "pending", r.msgid >> : r \in D}
<1>1. UNION {In("history", u, history[u], id) : u \in Users} = Tagged("history", H)
  BY DEF In, Tagged, InDatabases, IdAt
<1>2. UNION {In("inbox", x, inbox[x[1]][x[2]], id) : x \in Servers \X Peers} = Tagged("inbox", I)
  BY DEF In, Tagged, InQueues, IdAt
<1>3. UNION {In("buffer", x, recvBuffer[x[1]][x[2]], id) : x \in Servers \X Peers} = Tagged("buffer", B)
  BY DEF In, Tagged, InQueues, IdAt
<1>4. UNION {{<< "s2c", s, n >> : n \in {k \in DOMAIN s2c[s] :
           s2c[s][k].kind # "count" /\ s2c[s][k].msg.id = id}} : s \in Sessions} = Tagged("s2c", C)
  BY DEF Tagged, InFrames, FrameAt
<1>5. {<< "handler", i >> : i \in {j \in Servers :
         handler[j].step = "route" /\ handler[j].msg.id = id}} = routing
  BY DEF InHandlers
<1>6. {<< "pending", r.msgid >> : r \in {q \in pending :
         q.msg.id = id /\ q.msgid \notin BeingDeleted}} = waiting
  BY DEF InTable, BeingDeleted, Marked
<1>7. Places(id) = Tagged("history", H) \cup Tagged("inbox", I) \cup Tagged("buffer", B)
                     \cup routing \cup waiting \cup Tagged("s2c", C)
  BY <1>1, <1>2, <1>3, <1>4, <1>5, <1>6, Zenon DEF Places
<1>8. (R = {} => routing = {}) /\ (Sole(R) => \E p : routing = {p})
  <2> HIDE DEF R
  <2>1. R = {} => routing = {}
    OBVIOUS
  <2>2. ASSUME NEW x, R = {x} PROVE routing = {<< "handler", x >>}
    BY <2>2
  <2> QED
    BY <2>1, <2>2 DEF Sole
<1>9. (D = {} => waiting = {}) /\ (Sole(D) => \E p : waiting = {p})
  <2> HIDE DEF D
  <2>1. D = {} => waiting = {}
    OBVIOUS
  <2>2. ASSUME NEW x, D = {x} PROVE waiting = {<< "pending", x.msgid >>}
    BY <2>2
  <2> QED
    BY <2>1, <2>2 DEF Sole
<1>10. Exactly(H, I, B, R, D, C)
  BY DEF Single
<1> HIDE DEF H, I, B, R, D, C, routing, waiting
<1>11. /\ None(H) => Tagged("history", H) = {}
       /\ One(H) => \E p : Tagged("history", H) = {p}
  BY TaggedPlaces
<1>12. /\ None(I) => Tagged("inbox", I) = {}
       /\ One(I) => \E p : Tagged("inbox", I) = {p}
  BY TaggedPlaces
<1>13. /\ None(B) => Tagged("buffer", B) = {}
       /\ One(B) => \E p : Tagged("buffer", B) = {p}
  BY TaggedPlaces
<1>14. /\ None(C) => Tagged("s2c", C) = {}
       /\ One(C) => \E p : Tagged("s2c", C) = {p}
  BY TaggedPlaces
<1> DEFINE h == Tagged("history", H)
           i == Tagged("inbox", I)
           b == Tagged("buffer", B)
           c == Tagged("s2c", C)
<1> HIDE DEF h, i, b, c
<1>15. \E p : h \cup i \cup b \cup routing \cup waiting \cup c = {p}
  <2>1. \/ (\E p : h = {p}) /\ i = {} /\ b = {} /\ routing = {} /\ waiting = {} /\ c = {}
        \/ h = {} /\ (\E p : i = {p}) /\ b = {} /\ routing = {} /\ waiting = {} /\ c = {}
        \/ h = {} /\ i = {} /\ (\E p : b = {p}) /\ routing = {} /\ waiting = {} /\ c = {}
        \/ h = {} /\ i = {} /\ b = {} /\ (\E p : routing = {p}) /\ waiting = {} /\ c = {}
        \/ h = {} /\ i = {} /\ b = {} /\ routing = {} /\ (\E p : waiting = {p}) /\ c = {}
        \/ h = {} /\ i = {} /\ b = {} /\ routing = {} /\ waiting = {} /\ (\E p : c = {p})
    BY <1>8, <1>9, <1>10, <1>11, <1>12, <1>13, <1>14 DEF Exactly, h, i, b, c
  <2> QED
    BY <2>1
<1> QED
  BY <1>7, <1>15 DEF h, i, b, c

-----------------------------------------------------------------------------

\* What a step does to the queues of the servers.
LEMMA QueueWriters ==
    ASSUME TypeOK, [Next]_vars
    PROVE  \/ UNCHANGED << inbox, recvBuffer >>
           \/ \E s \in Sessions, v \in Users : Send(s, v)
           \/ \E i \in Servers : RouteForward(i)
           \/ \E i \in Servers, p \in Peers : Discard(i, p) \/ ReadMessage(i, p)
           \/ \E i \in Servers : Crash(i)
<1>1. ASSUME UNCHANGED vars \/ CommitAllocation
      PROVE  UNCHANGED << inbox, recvBuffer >>
  BY <1>1 DEF vars, CommitAllocation
<1>2. ASSUME NEW s \in Sessions,
             ClientStep(s) \/ Exit(s) \/ \E k \in Servers : Allocate(s, k)
      PROVE  UNCHANGED << inbox, recvBuffer >>
  BY <1>2 DEF ClientStep, Connect, Greet, ReadCount, ImportRow, ReceiveMessage, AskUser,
         Exit, Allocate
<1>3. ASSUME NEW i \in Servers, AcceptConnection(i) \/ HandlerStep(i),
             ~RouteForward(i), ~RouteFails(i)
      PROVE  UNCHANGED << inbox, recvBuffer >>
  BY <1>3 DEF AcceptConnection, HandlerStep, NoUsername, RegisterClient, WriteRow,
         DeleteRow, RouteLocal, RoutePending
<1>4. ASSUME NEW i \in Servers, RouteFails(i)
      PROVE  \E p \in Peers : Discard(i, p)
  BY <1>4, HandlerFields DEF RouteFails, Elsewhere, TypeOK
<1>5. ASSUME NEW i \in Servers, NEW p \in Peers, ServeClient(i, p)
      PROVE  ReadMessage(i, p) \/ Discard(i, p) \/ Crash(i)
  BY <1>5 DEF ServeClient, CloseClient, OrphanServed, LinkLost
<1> QED
  BY <1>1, <1>2, <1>3, <1>4, <1>5 DEF Next

\* What a read leaves in the buffer and in the queue, and what it takes out.
ReadParts(i, p, read, m) ==
    /\ m \in Message
    /\ handler' = [handler EXCEPT ![i] = Route(p, m, connectedto[m.to])]
    /\ recvBuffer' = [recvBuffer EXCEPT ![i][p] = Tail(read)]
    /\ read \in Seq(Message) /\ read # << >> /\ m = Head(read)
    /\ \A n \in DOMAIN read :
         \/ \E k \in DOMAIN recvBuffer[i][p] : recvBuffer[i][p][k] = read[n]
         \/ \E k \in DOMAIN inbox[i][p] : inbox[i][p][k] = read[n]
    /\ \A n \in DOMAIN inbox'[i][p] :
         \E k \in DOMAIN inbox[i][p] : inbox[i][p][k] = inbox'[i][p][n]
    /\ \A j \in Servers, r \in Peers : j # i \/ r # p => inbox'[j][r] = inbox[j][r]

PartsOf(r, q, read, rest) ==
    /\ read \in Seq(Message) /\ read # << >>
    /\ \A n \in DOMAIN read : \/ \E j \in DOMAIN r : r[j] = read[n]
                              \/ \E j \in DOMAIN q : q[j] = read[n]
    /\ \A n \in DOMAIN rest : \E j \in DOMAIN q : q[j] = rest[n]

LEMMA TakenParts ==
    ASSUME NEW q \in Seq(Message), NEW r \in Seq(Message), NEW k \in 1 .. Len(q)
    PROVE  PartsOf(r, q, Taken(r, q, k), LeftBy(q, k))
<1>1. SubSeq(q, 1, k) \in Seq(Message) /\ SubSeq(q, 1, k) # << >>
  BY Segment
<1>2. Taken(r, q, k) \in Seq(Message) /\ Taken(r, q, k) # << >>
  BY <1>1, Joined DEF Taken
<1>3. ASSUME NEW n \in DOMAIN Taken(r, q, k)
      PROVE  \/ \E j \in DOMAIN r : r[j] = Taken(r, q, k)[n]
             \/ \E j \in DOMAIN q : q[j] = Taken(r, q, k)[n]
  <2>1. CASE n <= Len(r)
    <3>1. n \in DOMAIN r /\ r[n] = Taken(r, q, k)[n]
      BY <1>1, <1>3, <2>1 DEF Taken
    <3> QED
      BY <3>1
  <2>2. CASE n > Len(r)
    <3>1. n - Len(r) \in DOMAIN q /\ q[n - Len(r)] = Taken(r, q, k)[n]
      BY <1>1, <1>3, <2>2 DEF Taken
    <3> QED
      BY <3>1
  <2>3. n \in Nat /\ Len(r) \in Nat
    BY <1>2, <1>3
  <2> QED
    BY <2>1, <2>2, <2>3
<1>5. ASSUME NEW n \in DOMAIN LeftBy(q, k)
      PROVE  \E j \in DOMAIN q : q[j] = LeftBy(q, k)[n]
  <2>1. n + k \in DOMAIN q /\ q[n + k] = LeftBy(q, k)[n]
    BY DEF LeftBy
  <2> QED
    BY <2>1
<1> QED
  BY <1>2, <1>3, <1>5 DEF PartsOf

LEMMA ReadTakes ==
    ASSUME TypeOK, NEW i \in Servers, NEW p \in Peers, ReadMessage(i, p)
    PROVE  \E read, m : ReadParts(i, p, read, m)
<1> DEFINE q == inbox[i][p]
           r == recvBuffer[i][p]
<1>1. PICK k \in 1 .. Len(q) :
        /\ handler' = [handler EXCEPT ![i] = Route(p, Head(Taken(r, q, k)),
                                                   connectedto[Head(Taken(r, q, k)).to])]
        /\ recvBuffer' = [recvBuffer EXCEPT ![i][p] = Tail(Taken(r, q, k))]
        /\ inbox' = [inbox EXCEPT ![i][p] = LeftBy(q, k)]
  BY DEF ReadMessage, Leftover, Taken, LeftBy
<1>2. q \in Seq(Message) /\ r \in Seq(Message)
  BY DEF TypeOK
<1>3. inbox'[i][p] = LeftBy(q, k)
  BY <1>1 DEF TypeOK
<1>4. \A j \in Servers, s \in Peers : j # i \/ s # p => inbox'[j][s] = inbox[j][s]
  BY <1>1 DEF TypeOK
<1> HIDE DEF q, r
<1> DEFINE read == Taken(r, q, k)
<1>5. PartsOf(r, q, read, LeftBy(q, k))
  BY <1>2, TakenParts
<1>6. /\ handler' = [handler EXCEPT ![i] = Route(p, Head(read), connectedto[Head(read).to])]
      /\ recvBuffer' = [recvBuffer EXCEPT ![i][p] = Tail(read)]
  BY <1>1
<1> HIDE DEF read
<1>7. Head(read) \in Message
  BY <1>5, HeadTail DEF PartsOf
<1>8. ReadParts(i, p, read, Head(read))
  BY <1>3, <1>4, <1>5, <1>6, <1>7 DEF ReadParts, PartsOf, q, r
<1> QED
  BY <1>8

\* A message in a queue was there before, or has just been sent by a client or
\* forwarded by a server.
LEMMA QueuedBefore ==
    ASSUME TypeOK, [Next]_vars, NEW i \in Servers, NEW p \in Peers,
           NEW n \in DOMAIN inbox'[i][p]
    PROVE  \/ \E k \in DOMAIN inbox[i][p] : inbox[i][p][k] = inbox'[i][p][n]
           \/ \E v \in Users : /\ p \in Sessions /\ Send(p, v)
                               /\ inbox'[i][p][n] = [id |-> nextId, from |-> UserOf[p], to |-> v]
           \/ /\ p \in Servers /\ RouteForward(p)
              /\ inbox'[i][p][n] = handler[p].msg
<1> DEFINE old == \E k \in DOMAIN inbox[i][p] : inbox[i][p][k] = inbox'[i][p][n]
<1>1. inbox[i][p] \in Seq(Message)
  BY DEF TypeOK
<1>2. CASE inbox'[i][p] = inbox[i][p]
  BY <1>2
<1>3. ASSUME NEW m \in Message, inbox'[i][p] = Append(inbox[i][p], m)
      PROVE  old \/ inbox'[i][p][n] = m
  BY <1>1, <1>3, AppendElements
<1>4. ASSUME NEW j \in Servers, NEW r \in Peers, NEW m,
             inbox' = [inbox EXCEPT ![j][r] = Append(@, m)]
      PROVE  inbox'[i][p] = inbox[i][p] \/ (i = j /\ p = r /\ inbox'[i][p] = Append(inbox[i][p], m))
  BY <1>4 DEF TypeOK
<1>5. ASSUME NEW s \in Sessions, NEW v \in Users, Send(s, v)
      PROVE  \/ old
             \/ /\ p \in Sessions /\ Send(p, v)
                /\ inbox'[i][p][n] = [id |-> nextId, from |-> UserOf[p], to |-> v]
  <2> DEFINE m == [id |-> nextId, from |-> UserOf[s], to |-> v]
  <2>1. m \in Message /\ home[s] \in Servers /\ s \in Peers
    BY SessionsAssumption DEF Message, TypeOK, Peers
  <2>2. \/ inbox' = inbox
        \/ inbox' = [inbox EXCEPT ![home[s]][s] = Append(@, m)]
    BY <1>5 DEF Send
  <2> HIDE DEF m
  <2>3. inbox'[i][p] = inbox[i][p] \/ (p = s /\ inbox'[i][p] = Append(inbox[i][p], m))
    BY <1>4, <2>1, <2>2
  <2>4. old \/ (p = s /\ inbox'[i][p][n] = m)
    BY <1>2, <1>3, <2>1, <2>3
  <2> QED
    BY <1>5, <2>4 DEF m
<1>6. ASSUME NEW j \in Servers, RouteForward(j)
      PROVE  old \/ (p \in Servers /\ RouteForward(p) /\ inbox'[i][p][n] = handler[p].msg)
  <2> DEFINE m == handler[j].msg
             k == handler[j].seen
  <2>1. m \in Message /\ k \in Servers /\ j \in Peers
    BY <1>6, HandlerFields DEF RouteForward, Elsewhere, TypeOK, Peers
  <2>2. \/ inbox' = inbox
        \/ inbox' = [inbox EXCEPT ![k][j] = Append(@, m)]
    BY <1>6 DEF RouteForward
  <2> HIDE DEF m, k
  <2>3. inbox'[i][p] = inbox[i][p] \/ (p = j /\ inbox'[i][p] = Append(inbox[i][p], m))
    <3>1. CASE inbox' = [inbox EXCEPT ![k][j] = Append(@, m)]
      BY <1>4, <2>1, <3>1
    <3> QED
      BY <2>2, <3>1
  <2>4. old \/ (p = j /\ inbox'[i][p][n] = m)
    BY <1>2, <1>3, <2>1, <2>3
  <2> QED
    BY <1>6, <2>4 DEF m
<1>7. ASSUME NEW j \in Servers, NEW r \in Peers, Discard(j, r)
      PROVE  old
  <2>1. inbox' = [inbox EXCEPT ![j][r] = << >>]
    BY <1>7 DEF Discard
  <2>2. inbox'[i][p] = inbox[i][p] \/ inbox'[i][p] = << >>
    BY <2>1 DEF TypeOK
  <2> QED
    BY <1>2, <2>2
<1>8. ASSUME NEW j \in Servers, Crash(j)
      PROVE  old
  <2>1. inbox' = [inbox EXCEPT ![j] = [r \in Peers |-> << >>]]
    BY <1>8 DEF Crash
  <2>2. inbox'[i][p] = inbox[i][p] \/ inbox'[i][p] = << >>
    BY <2>1 DEF TypeOK
  <2> QED
    BY <1>2, <2>2
<1>9. ASSUME NEW j \in Servers, NEW r \in Peers, ReadMessage(j, r)
      PROVE  old
  <2>1. PICK read, m : ReadParts(j, r, read, m)
    BY <1>9, ReadTakes
  <2> QED
    BY <1>2, <2>1 DEF ReadParts
<1> QED
  BY <1>2, <1>5, <1>6, <1>7, <1>8, <1>9, QueueWriters

\* A message in a buffer was there or in the queue before.
LEMMA BufferedBefore ==
    ASSUME TypeOK, [Next]_vars, NEW i \in Servers, NEW p \in Peers,
           NEW n \in DOMAIN recvBuffer'[i][p]
    PROVE  \/ \E k \in DOMAIN recvBuffer[i][p] : recvBuffer[i][p][k] = recvBuffer'[i][p][n]
           \/ \E k \in DOMAIN inbox[i][p] : inbox[i][p][k] = recvBuffer'[i][p][n]
<1> DEFINE old == \E k \in DOMAIN recvBuffer[i][p] : recvBuffer[i][p][k] = recvBuffer'[i][p][n]
           taken == \E k \in DOMAIN inbox[i][p] : inbox[i][p][k] = recvBuffer'[i][p][n]
<1>1. CASE recvBuffer'[i][p] = recvBuffer[i][p]
  BY <1>1
<1>2. ASSUME NEW s \in Sessions, NEW v \in Users, Send(s, v)
      PROVE  old
  BY <1>1, <1>2 DEF Send
<1>3. ASSUME NEW j \in Servers, RouteForward(j)
      PROVE  old
  BY <1>1, <1>3 DEF RouteForward
<1>4. ASSUME NEW j \in Servers, NEW r \in Peers, Discard(j, r)
      PROVE  old
  <2>1. recvBuffer' = [recvBuffer EXCEPT ![j][r] = << >>]
    BY <1>4 DEF Discard
  <2>2. recvBuffer'[i][p] = recvBuffer[i][p] \/ recvBuffer'[i][p] = << >>
    BY <2>1 DEF TypeOK
  <2> QED
    BY <1>1, <2>2
<1>5. ASSUME NEW j \in Servers, Crash(j)
      PROVE  old
  <2>1. recvBuffer' = [recvBuffer EXCEPT ![j] = [r \in Peers |-> << >>]]
    BY <1>5 DEF Crash
  <2>2. recvBuffer'[i][p] = recvBuffer[i][p] \/ recvBuffer'[i][p] = << >>
    BY <2>1 DEF TypeOK
  <2> QED
    BY <1>1, <2>2
<1>6. ASSUME NEW j \in Servers, NEW r \in Peers, ReadMessage(j, r)
      PROVE  old \/ taken
  <2>1. PICK read, m : ReadParts(j, r, read, m)
    BY <1>6, ReadTakes
  <2>2. recvBuffer' = [recvBuffer EXCEPT ![j][r] = Tail(read)]
    BY <2>1 DEF ReadParts
  <2>3. recvBuffer'[i][p] = recvBuffer[i][p] \/ (i = j /\ p = r /\ recvBuffer'[i][p] = Tail(read))
    BY <2>2 DEF TypeOK
  <2>4. CASE i = j /\ p = r /\ recvBuffer'[i][p] = Tail(read)
    <3>1. n + 1 \in DOMAIN read /\ recvBuffer'[i][p][n] = read[n + 1]
      BY <2>1, <2>4, TailElements DEF ReadParts
    <3> QED
      BY <2>1, <2>4, <3>1 DEF ReadParts
  <2> QED
    BY <1>1, <2>3, <2>4
<1> QED
  BY <1>1, <1>2, <1>3, <1>4, <1>5, <1>6, QueueWriters

-----------------------------------------------------------------------------

\* The parts of CopyLeft.
Queued(b, m) == \E i \in Servers : \E p \in Peers : \E n \in DOMAIN b[i][p] : b[i][p][n] = m
Routing(h, m) == h.step = "route" /\ h.msg = m
RowOf(m) == \E r : KnownRow(r) /\ r.msg = m

CopyParts(m) ==
    \/ Queued(inbox, m)
    \/ Queued(recvBuffer, m)
    \/ \E i \in Servers : Routing(handler[i], m)
    \/ RowOf(m)
    \/ \E s \in Sessions : OnTheWay(s2c[s], m)

LEMMA CopyHasParts ==
    ASSUME NEW m
    PROVE  (CopyLeft(m) <=> CopyParts(m)) /\ (CopyLeft(m)' <=> CopyParts(m)')
<1>1. CopyLeft(m) <=> CopyParts(m)
  BY DEF CopyLeft, CopyParts, Queued, Routing, RowOf, KnownRow, SelectedBy, OnTheWay, Range
<1>2. CopyLeft(m)' <=> CopyParts(m)'
  BY DEF CopyLeft, CopyParts, Queued, Routing, RowOf, KnownRow, SelectedBy, OnTheWay, Range
<1> QED
  BY <1>1, <1>2

\* A handler that routes a message has just read it or has done so before.
LEMMA RoutedBefore ==
    ASSUME TypeOK, [Next]_vars, NEW i \in Servers, handler'[i].step = "route"
    PROVE  \/ handler'[i] = handler[i]
           \/ \E p \in Peers :
                /\ ReadMessage(i, p) /\ handler'[i].peer = p
                /\ \/ \E k \in DOMAIN recvBuffer[i][p] : recvBuffer[i][p][k] = handler'[i].msg
                   \/ \E k \in DOMAIN inbox[i][p] : inbox[i][p][k] = handler'[i].msg
<1>1. handler \in [Servers -> Handler]
  BY DEF TypeOK
<1>2. ASSUME NEW k \in Servers, NEW h, handler' = [handler EXCEPT ![k] = h], h.step # "route"
      PROVE  handler'[i] = handler[i]
  BY <1>1, <1>2
<1>3. ASSUME NEW k \in Servers, handler' = [handler EXCEPT ![k] = Idle]
      PROVE  handler'[i] = handler[i]
  <2>1. Idle.step # "route"
    BY DEF Idle
  <2> QED
    BY <1>2, <1>3, <2>1
<1>4. ASSUME NEW k \in Servers, AcceptConnection(k)
      PROVE  handler'[i] = handler[i]
  <2>1. Hello(Head(backlog[k])).step # "route"
    BY DEF Hello
  <2> QED
    BY <1>2, <1>4, <2>1 DEF AcceptConnection
<1>5. ASSUME NEW k \in Servers, RegisterClient(k) \/ DeleteRow(k)
      PROVE  handler'[i] = handler[i]
  <2>1. PICK s, q : handler' = [handler EXCEPT ![k] = Drain(s, q)]
    BY <1>5 DEF RegisterClient, DeleteRow
  <2>2. Drain(s, q).step # "route"
    BY DEF Drain, Idle
  <2> QED
    BY <1>2, <2>1, <2>2
<1>6. ASSUME NEW k \in Servers, WriteRow(k)
      PROVE  handler'[i] = handler[i]
  <2>1. /\ handler[k].step = "drain"
        /\ handler' = [handler EXCEPT ![k] = [handler[k] EXCEPT !.written = TRUE]]
    BY <1>6 DEF WriteRow
  <2>2. [handler[k] EXCEPT !.written = TRUE].step # "route"
    BY <1>1, <2>1, DrainFields
  <2> QED
    BY <1>2, <2>1, <2>2
<1>7. ASSUME NEW k \in Servers, NEW p \in Peers, ReadMessage(k, p)
      PROVE  \/ handler'[i] = handler[i]
             \/ /\ ReadMessage(i, p) /\ handler'[i].peer = p
                /\ \/ \E n \in DOMAIN recvBuffer[i][p] : recvBuffer[i][p][n] = handler'[i].msg
                   \/ \E n \in DOMAIN inbox[i][p] : inbox[i][p][n] = handler'[i].msg
  <2>1. PICK read, m : ReadParts(k, p, read, m)
    BY <1>7, ReadTakes
  <2>2. /\ handler' = [handler EXCEPT ![k] = Route(p, m, connectedto[m.to])]
        /\ read \in Seq(Message) /\ read # << >> /\ m = Head(read)
        /\ \A n \in DOMAIN read :
             \/ \E j \in DOMAIN recvBuffer[k][p] : recvBuffer[k][p][j] = read[n]
             \/ \E j \in DOMAIN inbox[k][p] : inbox[k][p][j] = read[n]
    BY <2>1 DEF ReadParts
  <2>3. 1 \in DOMAIN read /\ read[1] = m
    BY <2>2
  <2>4. \/ \E j \in DOMAIN recvBuffer[k][p] : recvBuffer[k][p][j] = m
        \/ \E j \in DOMAIN inbox[k][p] : inbox[k][p][j] = m
    BY <2>2, <2>3
  <2>5. CASE k # i
    BY <1>1, <2>2, <2>5
  <2>6. CASE k = i
    <3>1. handler'[i] = Route(p, m, connectedto[m.to])
      BY <1>1, <2>2, <2>6
    <3>2. handler'[i].peer = p /\ handler'[i].msg = m
      BY <3>1 DEF Route
    <3> QED
      BY <1>7, <2>4, <2>6, <3>2
  <2> QED
    BY <2>5, <2>6
<1> QED
  BY <1>3, <1>4, <1>5, <1>6, <1>7, HandlerWriters DEF HandlerWritten

\* A message on the way to a session was so before, or a handler has written it.
LEMMA OnTheWayBefore ==
    ASSUME TypeOK, [Next]_vars, NEW s \in Sessions, NEW m, OnTheWay(s2c'[s], m)
    PROVE  \/ OnTheWay(s2c[s], m)
           \/ \E i \in Servers :
                \/ WriteRow(i) /\ handler[i].ses = s /\ m = Head(handler[i].rows).msg
                \/ RouteLocal(i) /\ RecipientSocket(i) = s /\ m = handler[i].msg
<1>1. s2c \in [Sessions -> Seq(Frame)]
  BY DEF TypeOK
<1>2. PICK n \in DOMAIN s2c'[s] : s2c'[s][n].kind # "count" /\ s2c'[s][n].msg = m
  BY DEF OnTheWay
<1>3. CASE s2c'[s] = s2c[s]
  BY <1>3
<1>4. ASSUME NEW t \in Sessions, s2c[t] # << >>, s2c' = [s2c EXCEPT ![t] = Tail(@)]
      PROVE  OnTheWay(s2c[s], m)
  <2>1. CASE t # s
    BY <1>1, <1>3, <1>4, <2>1
  <2>2. CASE t = s
    <3>1. s2c'[s] = Tail(s2c[s])
      BY <1>1, <1>4, <2>2
    <3>2. s2c[s] \in Seq(Frame) /\ s2c[s] # << >> /\ n \in DOMAIN Tail(s2c[s])
      BY <1>1, <1>4, <2>2, <3>1
    <3>3. n + 1 \in DOMAIN s2c[s] /\ s2c'[s][n] = s2c[s][n + 1]
      BY <3>1, <3>2, TailElements
    <3> QED
      BY <1>2, <3>3 DEF OnTheWay
  <2> QED
    BY <2>1, <2>2
<1>5. ASSUME NEW t \in Sessions, s2c' = [s2c EXCEPT ![t] = << >>]
      PROVE  OnTheWay(s2c[s], m)
  <2>1. s2c'[s] = s2c[s] \/ s2c'[s] = << >>
    BY <1>1, <1>5
  <2> QED
    BY <1>2, <1>3, <2>1
<1>6. ASSUME NEW t, NEW f \in Frame, WriteToClient(t, f)
      PROVE  OnTheWay(s2c[s], m) \/ (t = s /\ f.kind # "count" /\ f.msg = m)
  <2>1. s2c' = s2c \/ s2c' = [s2c EXCEPT ![t] = Append(@, f)]
    BY <1>6 DEF WriteToClient
  <2>2. s2c'[s] = s2c[s] \/ (t = s /\ s2c'[s] = Append(s2c[s], f))
    BY <1>1, <2>1
  <2>3. CASE t = s /\ s2c'[s] = Append(s2c[s], f)
    <3>1. s2c[s] \in Seq(Frame)
      BY <1>1
    <3>2. s2c'[s][n] = f \/ (n \in DOMAIN s2c[s] /\ s2c'[s][n] = s2c[s][n])
      BY <2>3, <3>1, AppendElements
    <3> QED
      BY <1>2, <2>3, <3>2 DEF OnTheWay
  <2> QED
    BY <1>3, <2>2, <2>3
<1>7. ASSUME NEW i \in Servers, RegisterClient(i)
      PROVE  OnTheWay(s2c[s], m)
  <2>1. PICK q \in PendingFor(UserOf[handler[i].ses]) :
          WriteToClient(handler[i].ses, CountFrame(Len(q)))
    BY <1>7 DEF RegisterClient
  <2>2. Len(q) \in Nat
    BY PendingForRows DEF TypeOK
  <2>3. CountFrame(Len(q)) \in Frame /\ CountFrame(Len(q)).kind = "count"
    BY <2>2 DEF CountFrame, Frame
  <2> QED
    BY <1>6, <2>1, <2>3
<1>8. ASSUME NEW i \in Servers, WriteRow(i)
      PROVE  OnTheWay(s2c[s], m) \/ (handler[i].ses = s /\ m = Head(handler[i].rows).msg)
  <2>1. handler[i].step = "drain" /\ WriteToClient(handler[i].ses, RowFrame(Head(handler[i].rows).msg))
    BY <1>8 DEF WriteRow
  <2>2. handler[i].rows \in Seq(Row) /\ handler[i].rows # << >>
    BY <2>1, HandlerFields DEF TypeOK
  <2>3. Head(handler[i].rows) \in Row
    BY <2>2, HeadTail
  <2>4. /\ RowFrame(Head(handler[i].rows).msg) \in Frame
        /\ RowFrame(Head(handler[i].rows).msg).msg = Head(handler[i].rows).msg
    BY <2>3 DEF RowFrame, Frame, Row
  <2> QED
    BY <1>6, <2>1, <2>4
<1>9. ASSUME NEW i \in Servers, RouteLocal(i)
      PROVE  OnTheWay(s2c[s], m) \/ (RecipientSocket(i) = s /\ m = handler[i].msg)
  <2>1. handler[i].step = "route" /\ WriteToClient(RecipientSocket(i), LiveFrame(handler[i].msg))
    BY <1>9 DEF RouteLocal
  <2>2. handler[i].msg \in Message
    BY <2>1, HandlerFields DEF TypeOK
  <2>3. LiveFrame(handler[i].msg) \in Frame /\ LiveFrame(handler[i].msg).msg = handler[i].msg
    BY <2>2 DEF LiveFrame, Frame
  <2> QED
    BY <1>6, <2>1, <2>3
<1> QED
  BY <1>3, <1>4, <1>5, <1>7, <1>8, <1>9, FrameWriters DEF FramesWritten

\* A copy of a message comes from a copy of it, except when it is sent.
LEMMA CopyBefore ==
    ASSUME TypeOK, [Next]_vars, NEW m, CopyLeft(m)'
    PROVE  \/ CopyLeft(m)
           \/ \E s \in Sessions, v \in Users :
                Send(s, v) /\ m = [id |-> nextId, from |-> UserOf[s], to |-> v]
<1>1. CopyParts(m)'
  BY CopyHasParts
<1>2. CopyParts(m) => CopyLeft(m)
  BY CopyHasParts
<1>3. ASSUME Queued(inbox', m)
      PROVE  \/ CopyLeft(m)
             \/ \E s \in Sessions, v \in Users :
                  Send(s, v) /\ m = [id |-> nextId, from |-> UserOf[s], to |-> v]
  <2>1. PICK i \in Servers : \E p \in Peers : \E n \in DOMAIN inbox'[i][p] : inbox'[i][p][n] = m
    BY <1>3 DEF Queued
  <2>2. PICK p \in Peers : \E n \in DOMAIN inbox'[i][p] : inbox'[i][p][n] = m
    BY <2>1
  <2>3. PICK n \in DOMAIN inbox'[i][p] : inbox'[i][p][n] = m
    BY <2>2
  <2>4. CASE \E k \in DOMAIN inbox[i][p] : inbox[i][p][k] = m
    BY <1>2, <2>4 DEF CopyParts, Queued
  <2>5. ASSUME p \in Servers, RouteForward(p), m = handler[p].msg
        PROVE  CopyLeft(m)
    BY <1>2, <2>5 DEF CopyParts, Routing, RouteForward, Elsewhere
  <2> QED
    BY <2>3, <2>4, <2>5, QueuedBefore
<1>4. ASSUME Queued(recvBuffer', m) PROVE CopyLeft(m)
  <2>1. PICK i \in Servers : \E p \in Peers : \E n \in DOMAIN recvBuffer'[i][p] : recvBuffer'[i][p][n] = m
    BY <1>4 DEF Queued
  <2>2. PICK p \in Peers : \E n \in DOMAIN recvBuffer'[i][p] : recvBuffer'[i][p][n] = m
    BY <2>1
  <2>3. PICK n \in DOMAIN recvBuffer'[i][p] : recvBuffer'[i][p][n] = m
    BY <2>2
  <2>4. Queued(inbox, m) \/ Queued(recvBuffer, m)
    BY <2>3, BufferedBefore DEF Queued
  <2> QED
    BY <1>2, <2>4 DEF CopyParts
<1>5. ASSUME NEW i \in Servers, Routing(handler'[i], m) PROVE CopyLeft(m)
  <2>1. \/ handler'[i] = handler[i]
        \/ Queued(recvBuffer, m)
        \/ Queued(inbox, m)
    BY <1>5, RoutedBefore DEF Routing, Queued
  <2> QED
    BY <1>2, <1>5, <2>1 DEF CopyParts
<1>6. ASSUME RowOf(m)' PROVE CopyLeft(m)
  <2>1. PICK r : KnownRow(r)' /\ r.msg = m
    BY <1>6 DEF RowOf
  <2>2. CASE KnownRow(r)
    BY <1>2, <2>1, <2>2 DEF CopyParts, RowOf
  <2>3. ASSUME NEW i \in Servers, RoutePending(i), r = NewRow(i)
        PROVE  CopyLeft(m)
    <3>1. Routing(handler[i], m)
      BY <2>1, <2>3 DEF RoutePending, Elsewhere, NewRow, Routing
    <3> QED
      BY <1>2, <3>1 DEF CopyParts
  <2> QED
    BY <2>1, <2>2, <2>3, KnownBefore
<1>7. ASSUME NEW s \in Sessions, OnTheWay(s2c'[s], m) PROVE CopyLeft(m)
  <2>1. CASE OnTheWay(s2c[s], m)
    BY <1>2, <2>1 DEF CopyParts
  <2>2. ASSUME NEW i \in Servers, WriteRow(i), m = Head(handler[i].rows).msg
        PROVE  CopyLeft(m)
    <3> DEFINE q == handler[i].rows
    <3>1. handler[i].step = "drain" /\ q \in Seq(Row) /\ q # << >>
      BY <2>2, HandlerFields DEF WriteRow, TypeOK
    <3>2. 1 \in DOMAIN q /\ Head(q) = q[1]
      <4> HIDE DEF q
      <4> QED
        BY <3>1
    <3>3. KnownRow(Head(q))
      BY <3>1, <3>2 DEF KnownRow, SelectedBy
    <3> QED
      BY <1>2, <2>2, <3>3 DEF CopyParts, RowOf
  <2>3. ASSUME NEW i \in Servers, RouteLocal(i), m = handler[i].msg
        PROVE  CopyLeft(m)
    BY <1>2, <2>3 DEF CopyParts, Routing, RouteLocal
  <2> QED
    BY <1>7, <2>1, <2>2, <2>3, OnTheWayBefore
<1> QED
  BY <1>1, <1>3, <1>4, <1>5, <1>6, <1>7 DEF CopyParts

-----------------------------------------------------------------------------

(***************************************************************************)
(* What is on its way or stored has been sent, under an id of its own.     *)
(***************************************************************************)
NewMessage(s, v) == [id |-> nextId, from |-> UserOf[s], to |-> v]

SentInv ==
    /\ \A m, n \in sent : m.id = n.id => m = n
    /\ \A m \in sent : m.id < nextId
    /\ \A m : CopyLeft(m) \/ StoredIn(history, m) => m \in sent

LEMMA SentWriters ==
    ASSUME [Next]_vars
    PROVE  \/ UNCHANGED << sent, nextId >>
           \/ \E s \in Sessions, v \in Users : Send(s, v)
<1>1. ASSUME UNCHANGED vars \/ CommitAllocation
      PROVE  UNCHANGED << sent, nextId >>
  BY <1>1 DEF vars, CommitAllocation
<1>2. ASSUME NEW s \in Sessions, ClientStep(s) \/ Exit(s) \/ \E k \in Servers : Allocate(s, k)
      PROVE  UNCHANGED << sent, nextId >>
  BY <1>2 DEF ClientStep, Connect, Greet, ReadCount, ImportRow, ReceiveMessage, AskUser,
         Exit, Allocate
<1>3. ASSUME NEW i \in Servers, AcceptConnection(i) \/ HandlerStep(i)
      PROVE  UNCHANGED << sent, nextId >>
  BY <1>3 DEF AcceptConnection, HandlerStep, NoUsername, RegisterClient, WriteRow,
              DeleteRow, RouteLocal, RoutePending, RouteForward, RouteFails
<1>4. ASSUME NEW i \in Servers, NEW p \in Peers, ServeClient(i, p)
      PROVE  UNCHANGED << sent, nextId >>
  BY <1>4 DEF ServeClient, ReadMessage, CloseClient, OrphanServed, LinkLost, Crash
<1> QED
  BY <1>1, <1>2, <1>3, <1>4 DEF Next

LEMMA StoredBefore ==
    ASSUME TypeOK, [Next]_vars, NEW m, StoredIn(history', m)
    PROVE  StoredIn(history, m) \/ CopyLeft(m)
<1>1. PICK u \in Users : \E n \in DOMAIN history'[u] : history'[u][n] = m
  BY DEF StoredIn
<1>2. PICK n \in DOMAIN history'[u] : history'[u][n] = m
  BY <1>1
<1>3. CASE history' = history
  BY <1>3 DEF StoredIn
<1>4. ASSUME NEW s \in Sessions, s2c[s] # << >>, Head(s2c[s]).kind \in {"row", "live"},
             history' = [history EXCEPT ![UserOf[s]] = Append(@, Head(s2c[s]).msg)]
      PROVE  StoredIn(history, m) \/ CopyLeft(m)
  <2> DEFINE x == Head(s2c[s]).msg
  <2>1. UserOf[s] \in Users /\ history[u] \in Seq(Message)
    BY SessionsAssumption DEF TypeOK
  <2>2. s2c[s] \in Seq(Frame) /\ 1 \in DOMAIN s2c[s] /\ Head(s2c[s]) = s2c[s][1]
    BY <1>4 DEF TypeOK
  <2>3. Head(s2c[s]) \in Frame
    BY <1>4, <2>2, HeadTail
  <2>4. x \in Message
    BY <1>4, <2>3 DEF Frame
  <2>5. OnTheWay(s2c[s], x)
    BY <1>4, <2>2 DEF OnTheWay
  <2>6. CopyLeft(x)
    BY <2>5, CopyHasParts DEF CopyParts
  <2> HIDE DEF x
  <2>7. history'[u] = history[u] \/ history'[u] = Append(history[u], x)
    BY <1>4, <2>1 DEF TypeOK, x
  <2>8. CASE history'[u] = history[u]
    BY <1>2, <2>8 DEF StoredIn
  <2>9. CASE history'[u] = Append(history[u], x)
    <3>1. m = x \/ (n \in DOMAIN history[u] /\ history[u][n] = m)
      BY <1>2, <2>1, <2>4, <2>9, AppendElements
    <3> QED
      BY <2>6, <3>1 DEF StoredIn
  <2> QED
    BY <2>7, <2>8, <2>9
<1> QED
  BY <1>3, <1>4, HistoryWriters DEF HistoryWritten

LEMMA SentStep ==
    ASSUME TypeOK, SentInv, [Next]_vars
    PROVE  SentInv'
<1>1. sent \subseteq Message /\ nextId \in Nat /\ \A m \in Message : m.id \in Nat
  BY DEF TypeOK, Message
<1>2. ASSUME NEW m, CopyLeft(m)' \/ StoredIn(history, m)'
      PROVE  m \in sent \/ \E s \in Sessions, v \in Users : Send(s, v) /\ m = NewMessage(s, v)
  <2>1. CASE CopyLeft(m)'
    BY <2>1, CopyBefore DEF SentInv, NewMessage
  <2>2. CASE StoredIn(history', m)
    BY <2>2, StoredBefore DEF SentInv
  <2> QED
    BY <1>2, <2>1, <2>2
<1>3. ASSUME NEW s \in Sessions, NEW v \in Users, Send(s, v)
      PROVE  /\ sent' = sent \cup {NewMessage(s, v)}
             /\ nextId' = nextId + 1 /\ NewMessage(s, v).id = nextId
  BY <1>3 DEF Send, NewMessage
<1>4. CASE UNCHANGED << sent, nextId >>
  <2>1. \A m : CopyLeft(m)' \/ StoredIn(history, m)' => m \in sent'
    BY <1>2, <1>3, <1>4
  <2> QED
    BY <1>4, <2>1 DEF SentInv
<1>5. ASSUME NEW s \in Sessions, NEW v \in Users, Send(s, v)
      PROVE  SentInv'
  <2> PICK e : e = NewMessage(s, v)
    OBVIOUS
  <2>1. sent' = sent \cup {e} /\ nextId' = nextId + 1 /\ e.id = nextId
    BY <1>3, <1>5
  <2>2. \A m, n \in sent' : m.id = n.id => m = n
    BY <1>1, <2>1 DEF SentInv
  <2>3. \A m \in sent' : m.id < nextId'
    BY <1>1, <2>1 DEF SentInv
  <2>4. \A m : CopyLeft(m)' \/ StoredIn(history, m)' => m \in sent'
    BY <1>2, <1>3, <2>1
  <2> QED
    BY <2>2, <2>3, <2>4 DEF SentInv
<1> QED
  BY <1>4, <1>5, SentWriters

LEMMA SentInit == Init => SentInv
<1> SUFFICES ASSUME Init
             PROVE  SentInv
  OBVIOUS
<1>1. ASSUME NEW m PROVE ~CopyParts(m)
  BY DEF Init, CopyParts, Queued, Routing, RowOf, KnownRow, SelectedBy, OnTheWay, Idle
<1>2. ASSUME NEW m PROVE ~StoredIn(history, m)
  BY DEF Init, StoredIn
<1>3. ASSUME NEW m PROVE ~CopyLeft(m)
  BY <1>1, CopyHasParts
<1> QED
  BY <1>2, <1>3 DEF SentInv, Init

\* Who has the id of a sent message is that message.
LEMMA SameMessage ==
    ASSUME SentInv, NEW m \in sent, NEW x, CopyLeft(x) \/ StoredIn(history, x), x.id = m.id
    PROVE  x = m
BY DEF SentInv

-----------------------------------------------------------------------------

(***************************************************************************)
(* What comes from a client carries its user's name, and the client has    *)
(* been online.                                                            *)
(***************************************************************************)
Spoke(ph, s, m) == ph[s] \in {"online", "exited"} /\ m.from = UserOf[s]

FromSender ==
    \A i \in Servers : \A s \in Sessions :
        /\ \A n \in DOMAIN inbox[i][s] : Spoke(phase, s, inbox[i][s][n])
        /\ \A n \in DOMAIN recvBuffer[i][s] : Spoke(phase, s, recvBuffer[i][s][n])
        /\ handler[i].step = "route" /\ handler[i].peer = s => Spoke(phase, s, handler[i].msg)

LEMMA OnlineStays ==
    ASSUME TypeOK, [Next]_vars, NEW s \in Sessions, phase[s] \in {"online", "exited"}
    PROVE  phase'[s] \in {"online", "exited"}
<1>1. phase \in [Sessions -> Phases]
  BY DEF TypeOK
<1>2. ASSUME NEW t \in Sessions, ClientStep(t) \/ \E k \in Servers : Allocate(t, k)
      PROVE  phase'[s] = phase[s]
  <2>1. CASE ReceiveMessage(t) \/ AskUser(t)
    BY <2>1 DEF ReceiveMessage, AskUser
  <2>2. CASE ~(ReceiveMessage(t) \/ AskUser(t))
    <3>1. phase[t] \notin {"online", "exited"} /\ \E x : phase' = [phase EXCEPT ![t] = x]
      BY <1>2, <2>2 DEF ClientStep, Connect, Greet, ReadCount, ImportRow, Allocate
    <3> QED
      BY <1>1, <3>1
  <2> QED
    BY <2>1, <2>2
<1>3. ASSUME NEW t \in Sessions, Exit(t)
      PROVE  phase'[s] = phase[s] \/ phase'[s] = "exited"
  BY <1>1, <1>3 DEF Exit
<1>4. ASSUME NEW t \in Sessions, NEW v \in Users, Send(t, v)
      PROVE  phase' = phase
  BY <1>4 DEF Send, sessionVars, readerVars
<1>5. ASSUME NEW i \in Servers, AcceptConnection(i) \/ HandlerStep(i)
      PROVE  phase' = phase
  BY <1>5 DEF sessionVars, readerVars, AcceptConnection, HandlerStep, NoUsername,
              RegisterClient, WriteRow, DeleteRow, RouteLocal, RoutePending,
              RouteForward, RouteFails
<1>6. ASSUME NEW i \in Servers, NEW p \in Peers, ServeClient(i, p)
      PROVE  phase' = phase
  BY <1>6 DEF sessionVars, readerVars, ServeClient, ReadMessage, CloseClient,
         OrphanServed, LinkLost, Crash
<1>7. CASE UNCHANGED vars \/ CommitAllocation
  BY <1>7 DEF vars, CommitAllocation, sessionVars, readerVars
<1> QED
  BY <1>2, <1>3, <1>4, <1>5, <1>6, <1>7 DEF Next

LEMMA FromSenderStep ==
    ASSUME TypeOK, FromSender, [Next]_vars
    PROVE  FromSender'
<1> SUFFICES ASSUME NEW i \in Servers, NEW s \in Sessions
             PROVE  /\ \A n \in DOMAIN inbox'[i][s] : Spoke(phase', s, inbox'[i][s][n])
                    /\ \A n \in DOMAIN recvBuffer'[i][s] : Spoke(phase', s, recvBuffer'[i][s][n])
                    /\ handler'[i].step = "route" /\ handler'[i].peer = s =>
                         Spoke(phase', s, handler'[i].msg)
  BY DEF FromSender
<1>1. \A m : Spoke(phase, s, m) => phase'[s] \in {"online", "exited"} /\ m.from = UserOf[s]
  BY OnlineStays DEF Spoke
<1>2. s \in Peers /\ s \notin Servers
  BY SessionsAssumption DEF Peers
<1>3. ASSUME NEW n \in DOMAIN inbox'[i][s]
      PROVE  Spoke(phase', s, inbox'[i][s][n])
  <2>1. CASE \E k \in DOMAIN inbox[i][s] : inbox[i][s][k] = inbox'[i][s][n]
    <3>1. Spoke(phase, s, inbox'[i][s][n])
      BY <2>1 DEF FromSender
    <3> QED
      BY <1>1, <3>1 DEF Spoke
  <2>2. ASSUME NEW v \in Users, Send(s, v),
               inbox'[i][s][n] = [id |-> nextId, from |-> UserOf[s], to |-> v]
        PROVE  Spoke(phase', s, inbox'[i][s][n])
    BY <2>2 DEF Spoke, Send, sessionVars, readerVars
  <2> QED
    BY <1>2, <2>1, <2>2, QueuedBefore
<1>4. ASSUME NEW n \in DOMAIN recvBuffer'[i][s]
      PROVE  Spoke(phase', s, recvBuffer'[i][s][n])
  <2>1. \/ \E k \in DOMAIN recvBuffer[i][s] : recvBuffer[i][s][k] = recvBuffer'[i][s][n]
        \/ \E k \in DOMAIN inbox[i][s] : inbox[i][s][k] = recvBuffer'[i][s][n]
    BY <1>2, BufferedBefore
  <2> PICK m : m = recvBuffer'[i][s][n]
    OBVIOUS
  <2>2. Spoke(phase, s, m)
    BY <2>1 DEF FromSender
  <2> QED
    BY <1>1, <2>2 DEF Spoke
<1>5. ASSUME handler'[i].step = "route", handler'[i].peer = s
      PROVE  Spoke(phase', s, handler'[i].msg)
  <2> PICK m : m = handler'[i].msg
    OBVIOUS
  <2>1. CASE handler'[i] = handler[i]
    <3>1. Spoke(phase, s, m)
      BY <1>5, <2>1 DEF FromSender
    <3> QED
      BY <1>1, <3>1 DEF Spoke
  <2>2. CASE \/ \E k \in DOMAIN recvBuffer[i][s] : recvBuffer[i][s][k] = m
             \/ \E k \in DOMAIN inbox[i][s] : inbox[i][s][k] = m
    <3>1. Spoke(phase, s, m)
      BY <2>2 DEF FromSender
    <3> QED
      BY <1>1, <3>1 DEF Spoke
  <2> QED
    BY <1>5, <2>1, <2>2, RoutedBefore
<1> QED
  BY <1>3, <1>4, <1>5

(***************************************************************************)
(* The rows of a drain for a user with one session are all in the table    *)
(* still, each once.                                                       *)
(***************************************************************************)
Solo(ph, u) ==
    \A s, t \in Sessions : UserOf[s] = u /\ UserOf[t] = u /\ s # t =>
        "start" \in {ph[s], ph[t]}

RowsStillThere(pd, q) ==
    /\ \A n \in DOMAIN q : q[n] \in pd
    /\ \A a, b \in DOMAIN q : a # b => q[a].msgid # q[b].msgid

SoloDrain ==
    \A i \in Servers : handler[i].step = "drain" /\ Solo(phase, UserOf[handler[i].ses]) =>
        RowsStillThere(pending, handler[i].rows)

LEMMA SoloBefore ==
    ASSUME TypeOK, [Next]_vars, NEW u, Solo(phase', u)
    PROVE  Solo(phase, u)
BY PhaseStep DEF Solo, PhaseMoves

\* A handler that drains did so before, or has written or deleted a row, or begins.
LEMMA DrainedBefore ==
    ASSUME TypeOK, [Next]_vars, NEW i \in Servers, handler'[i].step = "drain"
    PROVE  \/ handler'[i] = handler[i]
           \/ RegisterClient(i) \/ WriteRow(i) \/ DeleteRow(i)
<1>1. handler \in [Servers -> Handler]
  BY DEF TypeOK
<1>2. ASSUME NEW k \in Servers, NEW h, handler' = [handler EXCEPT ![k] = h], h.step # "drain"
      PROVE  handler'[i] = handler[i]
  BY <1>1, <1>2
<1>3. ASSUME NEW k \in Servers, handler' = [handler EXCEPT ![k] = Idle]
      PROVE  handler'[i] = handler[i]
  <2>1. Idle.step # "drain"
    BY DEF Idle
  <2> QED
    BY <1>2, <1>3, <2>1
<1>4. ASSUME NEW k \in Servers, AcceptConnection(k)
      PROVE  handler'[i] = handler[i]
  <2>1. Hello(Head(backlog[k])).step # "drain"
    BY DEF Hello
  <2> QED
    BY <1>2, <1>4, <2>1 DEF AcceptConnection
<1>5. ASSUME NEW k \in Servers, NEW p \in Peers, ReadMessage(k, p)
      PROVE  handler'[i] = handler[i]
  <2>1. PICK m : handler' = [handler EXCEPT ![k] = Route(p, m, connectedto[m.to])]
    BY <1>5 DEF ReadMessage
  <2>2. Route(p, m, connectedto[m.to]).step # "drain"
    BY DEF Route
  <2> QED
    BY <1>2, <2>1, <2>2
<1>6. ASSUME NEW k \in Servers \ {i}, RegisterClient(k) \/ WriteRow(k) \/ DeleteRow(k)
      PROVE  handler'[i] = handler[i]
  BY <1>1, <1>6 DEF RegisterClient, WriteRow, DeleteRow
<1> QED
  BY <1>3, <1>4, <1>5, <1>6, HandlerWriters DEF HandlerWritten

-----------------------------------------------------------------------------

\* Two drains for a user with one session are one.
LEMMA OneDrain ==
    ASSUME TypeOK, LoginInv, NEW i \in Servers, NEW k \in Servers,
           handler[i].step = "drain", handler[k].step = "drain",
           Solo(phase, UserOf[handler[i].ses]), UserOf[handler[k].ses] = UserOf[handler[i].ses]
    PROVE  k = i
<1> DEFINE s == handler[i].ses
           t == handler[k].ses
<1>1. s \in Sessions /\ t \in Sessions
  BY HandlerFields DEF TypeOK
<1>2. DrainsFor(handler[i], s) /\ DrainsFor(handler[k], t)
  BY DEF DrainsFor
<1>3. phase[s] # "start" /\ i = home[s] /\ phase[t] # "start" /\ k = home[t]
  BY <1>1, <1>2 DEF LoginInv, SessionFits, AtHome, Arrived
<1>4. s = t
  BY <1>1, <1>3 DEF Solo
<1> QED
  BY <1>3, <1>4

LEMMA RowsSelected ==
    ASSUME TypeOK, DrainInv, NEW u, NEW q \in PendingFor(u)
    PROVE  RowsStillThere(pending, q)
<1>1. q \in Seq(Row) /\ \A n \in DOMAIN q : q[n] \in pending
  <2>1. q \in Seq(Row)
    BY PendingForRows DEF TypeOK
  <2>2. \A n \in DOMAIN q : q[n] \in pending
    BY DEF PendingFor
  <2> QED
    BY <2>1, <2>2
<1>2. \A a, b \in DOMAIN q : a < b => q[a] # q[b]
  BY DEF PendingFor, SentBefore
<1>3. \A a, b \in DOMAIN q : a # b => q[a] # q[b]
  <2>1. \A a \in DOMAIN q : a \in Nat
    BY <1>1
  <2>2. ASSUME NEW a \in DOMAIN q, NEW b \in DOMAIN q, a # b
        PROVE  q[a] # q[b]
    <3>1. a < b \/ b < a
      BY <2>1, <2>2
    <3> QED
      BY <1>2, <3>1
  <2> QED
    BY <2>2
<1>4. \A n \in DOMAIN q : q[n] \in Row /\ KnownRow(q[n])
  BY <1>1 DEF TypeOK, KnownRow
<1> QED
  BY <1>1, <1>3, <1>4 DEF RowsStillThere, DrainInv, MsgidIsKey

LEMMA TailRows ==
    ASSUME NEW q \in Seq(Row), q # << >>, RowsStillThere(pending, q)
    PROVE  /\ \A n \in DOMAIN Tail(q) : Tail(q)[n] \in pending /\ Tail(q)[n].msgid # Head(q).msgid
           /\ \A a, b \in DOMAIN Tail(q) : a # b => Tail(q)[a].msgid # Tail(q)[b].msgid
<1>1. \A n \in DOMAIN Tail(q) : n \in Nat \ {0} /\ n + 1 \in DOMAIN q /\ Tail(q)[n] = q[n + 1]
  BY TailElements
<1>2. 1 \in DOMAIN q /\ Head(q) = q[1]
  OBVIOUS
<1>3. ASSUME NEW n \in DOMAIN Tail(q)
      PROVE  Tail(q)[n] \in pending /\ Tail(q)[n].msgid # Head(q).msgid
  <2>1. n + 1 \in DOMAIN q /\ n + 1 # 1 /\ Tail(q)[n] = q[n + 1]
    BY <1>1
  <2> QED
    BY <1>2, <2>1 DEF RowsStillThere
<1>4. ASSUME NEW a \in DOMAIN Tail(q), NEW b \in DOMAIN Tail(q), a # b
      PROVE  Tail(q)[a].msgid # Tail(q)[b].msgid
  <2>1. /\ a + 1 \in DOMAIN q /\ b + 1 \in DOMAIN q /\ a + 1 # b + 1
        /\ Tail(q)[a] = q[a + 1] /\ Tail(q)[b] = q[b + 1]
    BY <1>1, <1>4
  <2> QED
    BY <2>1 DEF RowsStillThere
<1> QED
  BY <1>3, <1>4

LEMMA DrainHas ==
    ASSUME NEW s, NEW q, Drain(s, q).step = "drain"
    PROVE  Drain(s, q).ses = s /\ Drain(s, q).rows = q
<1>1. CASE q = << >>
  <2>1. Drain(s, q) = Idle
    BY <1>1 DEF Drain
  <2>2. Idle.step # "drain"
    BY DEF Idle
  <2> QED
    BY <2>1, <2>2
<1>2. CASE q # << >>
  <2>1. Drain(s, q) = [step |-> "drain", ses |-> s, rows |-> q, written |-> FALSE]
    BY <1>2 DEF Drain
  <2> QED
    BY <2>1
<1> QED
  BY <1>1, <1>2

LEMMA SoloDrainStep ==
    ASSUME TypeOK, AddresseeInv, LoginInv, DrainInv, SoloDrain, [Next]_vars
    PROVE  SoloDrain'
<1> SUFFICES ASSUME NEW i \in Servers, handler'[i].step = "drain",
                    Solo(phase', UserOf[handler'[i].ses])
             PROVE  RowsStillThere(pending', handler'[i].rows)
  BY DEF SoloDrain
<1>1. handler \in [Servers -> Handler]
  BY DEF TypeOK
<1> PICK q : q = handler'[i].rows
  OBVIOUS
<1> PICK s : s = handler'[i].ses
  OBVIOUS
<1>0. Solo(phase, UserOf[s])
  <2>1. Solo(phase', UserOf[s])
    OBVIOUS
  <2> QED
    BY <2>1, SoloBefore
<1>2. ASSUME RowsStillThere(pending, q), pending \subseteq pending'
      PROVE  RowsStillThere(pending', q)
  BY <1>2 DEF RowsStillThere
<1>3. ASSUME handler[i].step = "drain", handler[i].ses = s, handler[i].rows = q,
             ~DeleteRow(i)
      PROVE  RowsStillThere(pending', q)
  <2>1. RowsStillThere(pending, q)
    BY <1>0, <1>3 DEF SoloDrain
  <2>2. CASE pending \subseteq pending'
    BY <1>2, <2>1, <2>2
  <2>3. ASSUME NEW k \in Servers, DeleteRow(k)
        PROVE  RowsStillThere(pending', q)
    <3> DEFINE t == handler[k].ses
               d == Head(handler[k].rows)
    <3>1. handler[k].step = "drain" /\ pending' = {r \in pending : r.msgid # d.msgid}
      BY <2>3 DEF DeleteRow, Kept
    <3>2. handler[k].rows \in Seq(Row) /\ handler[k].rows # << >> /\ q \in Seq(Row)
      BY <1>1, <1>3, <3>1, HandlerFields
    <3>3. d \in Row /\ 1 \in DOMAIN handler[k].rows /\ d = handler[k].rows[1]
      BY <3>2, HeadTail
    <3>4. UserOf[t] # UserOf[s]
      BY <1>0, <1>3, <2>3, <3>1, OneDrain
    <3>5. KnownRow(d) /\ d.msg.to = UserOf[t]
      BY <3>1, <3>3 DEF KnownRow, SelectedBy, AddresseeInv, RowsForSession
    <3>6. \A n \in DOMAIN q : q[n] \in Row /\ KnownRow(q[n]) /\ q[n].msg.to = UserOf[s]
      BY <1>3, <3>2 DEF KnownRow, SelectedBy, AddresseeInv, RowsForSession
    <3>7. \A n \in DOMAIN q : q[n].msgid # d.msgid
      BY <3>3, <3>4, <3>5, <3>6 DEF DrainInv, MsgidIsKey
    <3> HIDE DEF d
    <3> QED
      BY <2>1, <3>1, <3>7 DEF RowsStillThere
  <2>4. ASSUME NEW k \in Servers, RoutePending(k)
        PROVE  pending \subseteq pending'
    BY <2>4 DEF RoutePending
  <2> QED
    BY <2>2, <2>3, <2>4, PendingWriters
<1>4. CASE WriteRow(i)
  <2>1. handler[i].step = "drain" /\ handler'[i] = [handler[i] EXCEPT !.written = TRUE]
    BY <1>1, <1>4 DEF WriteRow
  <2>2. handler[i].ses = s /\ handler[i].rows = q
    BY <1>1, <2>1, DrainFields
  <2>3. pending' = pending
    BY <1>4 DEF WriteRow, dbVars
  <2>4. RowsStillThere(pending, q)
    BY <1>0, <2>1, <2>2 DEF SoloDrain
  <2> QED
    BY <1>2, <2>3, <2>4
<1>5. CASE RegisterClient(i)
  <2>1. PICK rows \in PendingFor(UserOf[handler[i].ses]) :
          handler' = [handler EXCEPT ![i] = Drain(handler[i].ses, rows)]
    BY <1>5 DEF RegisterClient
  <2>2. handler'[i] = Drain(handler[i].ses, rows)
    BY <1>1, <2>1
  <2>3. q = rows
    <3>1. Drain(handler[i].ses, rows).step = "drain"
      BY <2>2
    <3>2. Drain(handler[i].ses, rows).rows = rows
      BY <3>1, DrainHas
    <3> QED
      BY <2>2, <3>2
  <2>4. RowsStillThere(pending, q)
    BY <2>3, RowsSelected
  <2>5. pending' = pending
    BY <1>5 DEF RegisterClient, dbVars
  <2> QED
    BY <1>2, <2>4, <2>5
<1>6. CASE DeleteRow(i)
  <2> DEFINE old == handler[i].rows
  <2>1. /\ handler[i].step = "drain" /\ handler'[i] = Drain(handler[i].ses, Tail(old))
        /\ pending' = {r \in pending : r.msgid # Head(old).msgid}
    BY <1>1, <1>6 DEF DeleteRow, Kept
  <2>2. q = Tail(old) /\ s = handler[i].ses
    <3> DEFINE d == Drain(handler[i].ses, Tail(old))
    <3>1. d.step = "drain"
      BY <2>1
    <3>2. d.rows = Tail(old) /\ d.ses = handler[i].ses
      BY <3>1, DrainHas
    <3>3. handler'[i] = d
      BY <2>1
    <3> HIDE DEF d
    <3> QED
      BY <3>2, <3>3
  <2>3. old \in Seq(Row) /\ old # << >>
    BY <1>1, <2>1, HandlerFields
  <2>4. RowsStillThere(pending, old)
    BY <1>0, <2>1, <2>2 DEF SoloDrain
  <2> HIDE DEF old
  <2>5. /\ \A n \in DOMAIN q : q[n] \in pending /\ q[n].msgid # Head(old).msgid
        /\ \A a, b \in DOMAIN q : a # b => q[a].msgid # q[b].msgid
    BY <2>2, <2>3, <2>4, TailRows
  <2> QED
    BY <2>1, <2>5 DEF RowsStillThere
<1>7. CASE handler'[i] = handler[i] /\ ~DeleteRow(i)
  BY <1>3, <1>7
<1> QED
  <2>1. RowsStillThere(pending', q)
    BY <1>4, <1>5, <1>6, <1>7, DrainedBefore
  <2>2. q = handler'[i].rows
    OBVIOUS
  <2> QED
    BY <2>1, <2>2 DEF RowsStillThere

-----------------------------------------------------------------------------

(***************************************************************************)
(* A session to which the number of its rows has been written is selected  *)
(* on by its server, until it is online.                                   *)
(***************************************************************************)
Answered(ph, q) == ph = "importing" \/ (ph = "greeted" /\ q # << >>)

Attended ==
    \A s \in Sessions : Answered(phase[s], s2c[s]) /\ alive[home[s]] => s \in events[home[s]]

LEMMA EndsForGood ==
    ASSUME TypeOK, RoutedPeer, [Next]_vars, NEW i \in Servers
    PROVE  (alive'[i] => alive[i]) /\ links'[i] \subseteq links[i]
BY FourWays DEF Same, Registers, Discards, Ends

LEMMA StillSelected ==
    ASSUME TypeOK, RoutedPeer, FromSender, [Next]_vars, NEW i \in Servers, alive'[i],
           NEW s \in events[i]
    PROVE  s \in events'[i] \/ phase[s] \in {"online", "exited"}
<1>1. /\ events \in [Servers -> SUBSET Sessions] /\ s \in Sessions
      /\ alive \in [Servers -> BOOLEAN]
  BY DEF TypeOK
<1>2. ASSUME NEW t \in Sessions,
             \/ ClientStep(t) \/ Exit(t)
             \/ \E k \in Servers : Allocate(t, k)
             \/ \E v \in Users : Send(t, v)
      PROVE  events' = events
  BY <1>2 DEF ClientStep, Connect, Greet, ReadCount, ImportRow, ReceiveMessage, AskUser,
              Exit, Allocate, Send, socketVars
<1>3. ASSUME NEW k \in Servers, AcceptConnection(k) \/ HandlerStep(k), ~RouteFails(k)
      PROVE  s \in events'[i]
  <2>1. CASE RegisterClient(k)
    BY <1>1, <2>1 DEF RegisterClient
  <2>2. CASE ~RegisterClient(k)
    <3>1. events' = events
      BY <1>3, <2>2 DEF AcceptConnection, HandlerStep, NoUsername, WriteRow, DeleteRow,
             RouteLocal, RoutePending, RouteForward, socketVars
    <3> QED
      BY <3>1
  <2> QED
    BY <2>1, <2>2
<1>4. ASSUME NEW k \in Servers, NEW p, Discard(k, p), s \notin events'[i]
      PROVE  k = i /\ p = s
  <2>1. events' = [events EXCEPT ![k] = @ \ {p}]
    BY <1>4 DEF Discard
  <2> QED
    BY <1>1, <1>4, <2>1
<1>5. ASSUME NEW k \in Servers, RouteFails(k)
      PROVE  s \in events'[i] \/ phase[s] \in {"online", "exited"}
  <2>1. Discard(k, handler[k].peer) /\ handler[k].step = "route"
    BY <1>5 DEF RouteFails, Elsewhere
  <2>2. CASE k = i /\ handler[k].peer = s
    BY <1>1, <2>1, <2>2 DEF FromSender, Spoke
  <2> QED
    BY <1>4, <2>1, <2>2
<1>6. ASSUME NEW k \in Servers, NEW t \in Sessions, CloseClient(k, t)
      PROVE  s \in events'[i] \/ phase[s] \in {"online", "exited"}
  <2>1. Discard(k, t) /\ phase[t] = "exited"
    BY <1>6, SessionsAssumption DEF CloseClient, PeerClosed, Deserted
  <2> QED
    BY <1>4, <2>1
<1>7. ASSUME NEW k \in Servers, Crash(k)
      PROVE  s \in events'[i]
  <2>1. /\ events' = [events EXCEPT ![k] = {}]
        /\ alive' = [alive EXCEPT ![k] = FALSE]
    BY <1>7 DEF Crash
  <2> QED
    BY <1>1, <2>1
<1>8. ASSUME NEW k \in Servers, NEW p \in Peers, ServeClient(k, p)
      PROVE  s \in events'[i] \/ phase[s] \in {"online", "exited"}
  <2>1. CASE ReadMessage(k, p)
    BY <2>1 DEF ReadMessage, socketVars
  <2> QED
    BY <1>6, <1>7, <1>8, <2>1 DEF ServeClient, OrphanServed, LinkLost
<1>9. CASE UNCHANGED vars \/ CommitAllocation
  BY <1>9 DEF vars, CommitAllocation, socketVars
<1> QED
  BY <1>2, <1>3, <1>5, <1>8, <1>9 DEF Next, HandlerStep

LEMMA AttendedStep ==
    ASSUME TypeOK, RoutedPeer, LoginInv, FromSender, Attended, [Next]_vars
    PROVE  Attended'
<1> SUFFICES ASSUME NEW s \in Sessions, Answered(phase'[s], s2c'[s]), alive'[home'[s]]
             PROVE  s \in events'[home'[s]]
  BY DEF Attended
<1> DEFINE i == home[s]
<1>0. /\ phase \in [Sessions -> Phases] /\ home \in [Sessions -> Servers] /\ i \in Servers
      /\ handler \in [Servers -> Handler] /\ s2c \in [Sessions -> Seq(Frame)]
      /\ events \in [Servers -> SUBSET Sessions] /\ toLoad \in [Sessions -> Nat]
  BY DEF TypeOK
<1>1. home'[s] = i
  <2>1. ASSUME NEW k \in Servers, Allocate(s, k) PROVE FALSE
    <3>1. phase'[s] = "redirected"
      BY <1>0, <2>1 DEF Allocate
    <3> QED
      BY <3>1 DEF Answered
  <2> QED
    BY <2>1, PhaseStep DEF PhaseMoves
<1>2. alive[i]
  BY <1>0, <1>1, EndsForGood
<1>3. CASE Answered(phase[s], s2c[s])
  <2>1. s \in events[i]
    BY <1>2, <1>3 DEF Attended
  <2>2. phase[s] \notin {"online", "exited"}
    BY <1>3 DEF Answered
  <2> QED
    BY <1>0, <1>1, <2>1, <2>2, StillSelected
<1>4. ASSUME ~Answered(phase[s], s2c[s])
      PROVE  s \in events'[i]
  <2>1. ~SessionSame(s)
    BY <1>4 DEF SessionSame
  <2>2. ~Exit(s) /\ ~\E k \in Servers : Allocate(s, k)
    BY <1>0 DEF Exit, Allocate, Answered
  <2>3. ~ClientStep(s)
    <3>1. ~Connect(s)
      BY <1>0 DEF Connect, Answered
    <3>2. ~ReadCount(s) /\ ~ImportRow(s)
      BY <1>4 DEF ReadCount, ImportRow, Answered
    <3>3. ASSUME ReceiveMessage(s) \/ AskUser(s) PROVE FALSE
      <4>1. phase'[s] = "online"
        BY <3>3 DEF ReceiveMessage, AskUser
      <4> QED
        BY <4>1 DEF Answered
    <3>4. ASSUME Greet(s) PROVE FALSE
      <4>1. phase[s] = "connected" /\ s2c' = s2c
        BY <3>4 DEF Greet
      <4>2. s2c[s] = << >>
        BY <4>1 DEF LoginInv, SessionFits, FramesFit
      <4>3. phase'[s] = "greeted"
        BY <1>0, <3>4 DEF Greet
      <4> QED
        BY <4>1, <4>2, <4>3 DEF Answered
    <3> QED
      BY <3>1, <3>2, <3>3, <3>4 DEF ClientStep
  <2>4. ASSUME NEW k \in Servers, RegisterClient(k), handler[k].ses = s
        PROVE  s \in events'[i]
    <3>1. WaitsAt(k, s)
      BY <2>4 DEF WaitsAt, RegisterClient
    <3>2. k = i
      BY <3>1 DEF LoginInv, SessionFits, AtHome
    <3> QED
      BY <1>0, <2>4, <3>2 DEF RegisterClient
  <2>5. ASSUME DrainsFor(handler[i], s) \/ OnlineAt(i, s), phase' = phase
        PROVE  FALSE
    <3>1. phase[s] \in LoggingIn /\ (phase[s] = "greeted" => s2c[s] # << >>)
      BY <2>5 DEF LoginInv, SessionFits, Served
    <3> QED
      BY <1>4, <2>5, <3>1 DEF Answered
  <2>6. ASSUME NEW k \in Servers, WriteRow(k), handler[k].ses = s
        PROVE  FALSE
    <3>1. DrainsFor(handler[k], s) /\ phase' = phase
      BY <2>6 DEF DrainsFor, WriteRow, sessionVars, readerVars
    <3>2. k = i
      BY <3>1 DEF LoginInv, SessionFits, AtHome
    <3> QED
      BY <2>5, <3>1, <3>2
  <2>7. ASSUME NEW k \in Servers, RouteLocal(k), RecipientSocket(k) = s
        PROVE  FALSE
    <3>1. handler[k].step = "route" /\ phase' = phase
      BY <2>7 DEF RouteLocal, sessionVars, readerVars
    <3>2. handler[k].msg.to \in Users
      BY <1>0, <3>1, HandlerFields DEF Message
    <3>3. OnlineAt(k, s)
      BY <2>7, <3>2 DEF OnlineAt, RecipientSocket
    <3>4. k = i
      BY <3>3 DEF LoginInv, SessionFits, AtHome
    <3> QED
      BY <2>5, <3>1, <3>3, <3>4
  <2> QED
    BY <2>1, <2>2, <2>3, <2>4, <2>6, <2>7, WhoSees
<1> QED
  BY <1>1, <1>3, <1>4

(***************************************************************************)
(* What is undisturbed has been so before.                                 *)
(***************************************************************************)
LEMMA UndisturbedBefore ==
    ASSUME TypeOK, RoutedPeer, LinksToOthers, LoginInv, [Next]_vars, NEW m, Undisturbed(m)'
    PROVE  Undisturbed(m)
<1>0. /\ phase \in [Sessions -> Phases] /\ home \in [Sessions -> Servers]
      /\ handler \in [Servers -> Handler] /\ events \in [Servers -> SUBSET Sessions]
  BY DEF TypeOK
<1>1. /\ \A s \in Sessions : UserOf[s] \in {m.from, m.to} =>
           /\ phase'[s] # "exited"
           /\ phase'[s] = "online" => Open(home[s], s)'
      /\ \A s, t \in Sessions : UserOf[s] = m.to /\ UserOf[t] = m.to /\ s # t =>
           "start" \in {phase'[s], phase'[t]}
      /\ \A i \in Servers : alive'[i] /\ links'[i] = Servers \ {i}
  BY DEF Undisturbed
<1>2. \A i \in Servers : alive[i] /\ links[i] = Servers \ {i}
  BY <1>1, EndsForGood DEF LinksToOthers
<1>3. ASSUME NEW s \in Sessions, UserOf[s] \in {m.from, m.to}
      PROVE  /\ phase[s] # "exited"
             /\ phase[s] = "online" => Open(home[s], s)
  <2>1. phase'[s] # "exited" /\ phase[s] # "exited"
    BY <1>1, <1>3, PhaseStep DEF PhaseMoves
  <2>2. ASSUME phase[s] = "online" PROVE Open(home[s], s)
    <3> DEFINE i == home[s]
    <3>1. phase'[s] = "online"
      BY <2>1, <2>2, OnlineStays
    <3>2. home'[s] = i
      BY <2>2, PhaseStep DEF PhaseMoves, Allocate
    <3>3. alive'[i] /\ s \in events'[i]
      BY <1>1, <1>3, <3>1, <3>2 DEF Open
    <3>4. i \in Servers
      BY <1>0
    <3>5. ASSUME Registers(i), s \notin events[i]
          PROVE  FALSE
      <4>1. handler[i].step = "hello" /\ handler[i].ses = s
        BY <3>3, <3>5 DEF Registers
      <4>2. WaitsAt(i, s)
        BY <4>1 DEF WaitsAt
      <4> QED
        BY <2>2, <4>2 DEF LoginInv, SessionFits, Waiting
    <3>6. s \in events[i]
      <4>1. CASE Ends(i)
        BY <3>3, <4>1 DEF Ends
      <4>2. CASE Same(i) \/ Discards(i)
        BY <3>2, <3>3, <4>2 DEF Same, Discards
      <4>3. Same(i) \/ Registers(i) \/ Discards(i) \/ Ends(i)
        BY <3>4, FourWays
      <4>4. CASE Registers(i)
        BY <3>5, <4>4
      <4> QED
        BY <4>1, <4>2, <4>3, <4>4
    <3> QED
      BY <1>2, <3>4, <3>6 DEF Open
  <2> QED
    BY <2>1, <2>2
<1>4. \A s, t \in Sessions : UserOf[s] = m.to /\ UserOf[t] = m.to /\ s # t =>
        "start" \in {phase[s], phase[t]}
  BY <1>1, PhaseStep DEF PhaseMoves
<1> QED
  BY <1>2, <1>3, <1>4 DEF Undisturbed

-----------------------------------------------------------------------------

(***************************************************************************)
(* What holds when a step begins.                                          *)
(***************************************************************************)
CopiesInv ==
    /\ TypeOK /\ AddresseeInv /\ LoadInv /\ LoginInv /\ EventsAtHome /\ DrainInv
    /\ SentInv /\ FromSender /\ SoloDrain /\ Attended

LEMMA SingleNext ==
    ASSUME NEW id
    PROVE  Single(id)' <=>
             Exactly(InDatabases(history', id), InQueues(inbox', id), InQueues(recvBuffer', id),
                     InHandlers(handler', id), InTable(pending', handler', id),
                     InFrames(s2c', id))
BY DEF Single

LEMMA AllKept == ASSUME NEW f PROVE AllKeep(f, f)
BY DEF AllKeep

\* A frame with the id of a sent message is a frame with that message.
LEMMA FrameIsCopy ==
    ASSUME TypeOK, SentInv, AddresseeInv, NEW m \in sent, NEW s \in Sessions,
           NEW n \in DOMAIN s2c[s], s2c[s][n].kind # "count", s2c[s][n].msg.id = m.id
    PROVE  s2c[s][n].msg = m /\ UserOf[s] = m.to
<1>1. OnTheWay(s2c[s], s2c[s][n].msg)
  BY DEF OnTheWay
<1>2. CopyLeft(s2c[s][n].msg)
  BY <1>1, CopyHasParts DEF CopyParts
<1>3. s2c[s][n].msg = m
  BY <1>2, SameMessage
<1>4. s2c[s][n].msg.to = UserOf[s]
  BY DEF AddresseeInv, FramesForSession, ForSession
<1> QED
  BY <1>3, <1>4

LEMMA QueueIsCopy ==
    ASSUME SentInv, NEW m \in sent, NEW i \in Servers, NEW p \in Peers
    PROVE  /\ \A n \in DOMAIN inbox[i][p] : inbox[i][p][n].id = m.id => inbox[i][p][n] = m
           /\ \A n \in DOMAIN recvBuffer[i][p] :
                recvBuffer[i][p][n].id = m.id => recvBuffer[i][p][n] = m
<1>1. ASSUME NEW x, Queued(inbox, x) \/ Queued(recvBuffer, x), x.id = m.id
      PROVE  x = m
  <2>1. CopyLeft(x)
    BY <1>1, CopyHasParts DEF CopyParts
  <2> QED
    BY <1>1, <2>1, SameMessage
<1> QED
  BY <1>1 DEF Queued

LEMMA RoutedIsCopy ==
    ASSUME SentInv, NEW m \in sent, NEW i \in Servers, handler[i].step = "route",
           handler[i].msg.id = m.id
    PROVE  handler[i].msg = m
<1>1. Routing(handler[i], handler[i].msg)
  BY DEF Routing
<1>2. CopyLeft(handler[i].msg)
  BY <1>1, CopyHasParts DEF CopyParts
<1> QED
  BY <1>2, SameMessage

LEMMA RowIsCopy ==
    ASSUME SentInv, NEW m \in sent, NEW r, KnownRow(r), r.msg.id = m.id
    PROVE  r.msg = m
<1>1. RowOf(r.msg)
  BY DEF RowOf
<1>2. CopyLeft(r.msg)
  BY <1>1, CopyHasParts DEF CopyParts
<1> QED
  BY <1>2, SameMessage

LEMMA StoredIsCopy ==
    ASSUME SentInv, AddresseeInv, NEW m \in sent, NEW u \in Users,
           NEW n \in DOMAIN history[u], history[u][n].id = m.id
    PROVE  history[u][n] = m /\ u = m.to
<1>1. StoredIn(history, history[u][n])
  BY DEF StoredIn
<1>2. history[u][n] = m
  BY <1>1, SameMessage
<1> QED
  BY <1>2 DEF AddresseeInv, DeliveredToAddressee

-----------------------------------------------------------------------------

\* Nothing but phases, sockets and the like.
LEMMA PlacesSame ==
    ASSUME NEW id, Single(id), UNCHANGED << history, inbox, recvBuffer, pending, s2c >>,
           Marked(handler') = Marked(handler),
           InHandlers(handler', id) = InHandlers(handler, id)
    PROVE  Single(id)'
<1>1. InTable(pending', handler', id) = InTable(pending, handler, id)
  BY DEF InTable
<1> QED
  BY <1>1, SingleNext DEF Single

LEMMA HandlerSameCopies ==
    ASSUME NEW id, Single(id), UNCHANGED << history, inbox, recvBuffer, pending, s2c, handler >>
    PROVE  Single(id)'
BY PlacesSame

\* A handler begins or ends that has no message.
LEMMA EmptyHandlerCopies ==
    ASSUME TypeOK, NEW id, Single(id), UNCHANGED << history, inbox, recvBuffer, pending, s2c >>,
           NEW i \in Servers, NEW h, handler' = [handler EXCEPT ![i] = h],
           handler[i].step \in {"idle", "hello"}, h.step \in {"idle", "hello"}
    PROVE  Single(id)'
<1>1. Marked(handler') = Marked(handler)
  BY MarksSame DEF TypeOK, WrittenRow
<1>2. InHandlers(handler', id) = InHandlers(handler, id)
  <2>1. h.step # "route" /\ handler[i].step # "route" /\ handler \in [Servers -> Handler]
    BY DEF TypeOK
  <2>2. \A j \in Servers : handler'[j].step = "route" /\ handler'[j].msg.id = id
                               <=> handler[j].step = "route" /\ handler[j].msg.id = id
    BY <2>1
  <2> QED
    BY <2>2 DEF InHandlers
<1> QED
  BY <1>1, <1>2, PlacesSame

LEMMA ReadCountCopies ==
    ASSUME TypeOK, NEW id, Single(id), NEW s \in Sessions, ReadCount(s)
    PROVE  Single(id)'
<1>1. /\ s2c \in [Sessions -> Seq(Frame)] /\ s2c[s] # << >> /\ Head(s2c[s]).kind = "count"
      /\ s2c' = [s2c EXCEPT ![s] = Tail(@)]
      /\ UNCHANGED << history, inbox, recvBuffer, pending, handler >>
  BY DEF TypeOK, ReadCount, dbVars
<1>2. AllKeep(InFrames(s2c, id), InFrames(s2c', id))
  BY <1>1, FrameRead
<1>3. Exactly(InDatabases(history, id), InQueues(inbox, id), InQueues(recvBuffer, id),
              InHandlers(handler, id), InTable(pending, handler, id), InFrames(s2c', id))
  BY <1>2, AllKept, KeepsSame, NothingMoves DEF Single
<1> QED
  BY <1>1, <1>3, SingleNext

LEMMA StoreCopies ==
    ASSUME TypeOK, NEW id, Single(id), NEW s \in Sessions, ImportRow(s) \/ ReceiveMessage(s)
    PROVE  Single(id)'
<1> DEFINE f == Head(s2c[s])
           u == UserOf[s]
<1>1. /\ s2c \in [Sessions -> Seq(Frame)] /\ s2c[s] # << >> /\ f.kind # "count"
      /\ s2c' = [s2c EXCEPT ![s] = Tail(@)]
      /\ history' = [history EXCEPT ![u] = Append(@, f.msg)]
      /\ UNCHANGED << inbox, recvBuffer, pending, handler >>
  BY DEF TypeOK, ImportRow, ReceiveMessage, dbVars
<1>2. f \in Frame
  BY <1>1, HeadTail
<1>3. f.msg \in Message /\ u \in Users /\ history \in [Users -> Seq(Message)]
  BY <1>1, <1>2, SessionsAssumption DEF Frame, TypeOK
<1>4. /\ f.msg.id # id => AllKeep(InFrames(s2c, id), InFrames(s2c', id))
      /\ f.msg.id = id => Gives(InFrames(s2c, id), InFrames(s2c', id))
  BY <1>1, FrameRead
<1> HIDE DEF f, u
<1>5. /\ f.msg.id # id => AllKeep(InDatabases(history, id), InDatabases(history', id))
      /\ f.msg.id = id => Gets(InDatabases(history, id), InDatabases(history', id))
  BY <1>1, <1>3, MessageStored
<1>6. Exactly(InDatabases(history', id), InQueues(inbox, id), InQueues(recvBuffer, id),
              InHandlers(handler, id), InTable(pending, handler, id), InFrames(s2c', id))
  <2>1. CASE f.msg.id = id
    BY <1>4, <1>5, <2>1, FrameToDatabase DEF Single
  <2>2. CASE f.msg.id # id
    BY <1>4, <1>5, <2>2, AllKept, KeepsSame, NothingMoves DEF Single
  <2> QED
    BY <2>1, <2>2
<1> QED
  BY <1>1, <1>6, SingleNext

-----------------------------------------------------------------------------

\* No place has the id of the next message.
LEMMA NextIdIsNew ==
    ASSUME TypeOK, SentInv
    PROVE  /\ None(InDatabases(history, nextId))
           /\ None(InQueues(inbox, nextId)) /\ None(InQueues(recvBuffer, nextId))
           /\ InHandlers(handler, nextId) = {} /\ InTable(pending, handler, nextId) = {}
           /\ None(InFrames(s2c, nextId))
<1>1. ASSUME NEW x, CopyParts(x) \/ StoredIn(history, x)
      PROVE  x.id # nextId
  <2>1. x \in sent
    BY <1>1, CopyHasParts DEF SentInv
  <2>2. x.id < nextId /\ x.id \in Nat /\ nextId \in Nat
    BY <2>1 DEF SentInv, TypeOK, Message
  <2> QED
    BY <2>2
<1>2. \A u \in Users : IdAt(history[u], nextId) = {}
  BY <1>1 DEF IdAt, StoredIn
<1>3. \A i \in Servers : \A p \in Peers : IdAt(inbox[i][p], nextId) = {}
  BY <1>1 DEF IdAt, CopyParts, Queued
<1>4. \A i \in Servers : \A p \in Peers : IdAt(recvBuffer[i][p], nextId) = {}
  BY <1>1 DEF IdAt, CopyParts, Queued
<1>5. InHandlers(handler, nextId) = {}
  BY <1>1 DEF InHandlers, CopyParts, Routing
<1>6. InTable(pending, handler, nextId) = {}
  BY <1>1 DEF InTable, CopyParts, RowOf, KnownRow
<1>7. \A s \in Sessions : FrameAt(s2c[s], nextId) = {}
  BY <1>1 DEF FrameAt, CopyParts, OnTheWay
<1>8. None(InDatabases(history, nextId))
  BY <1>2 DEF None, InDatabases
<1>9. None(InQueues(inbox, nextId)) /\ None(InQueues(recvBuffer, nextId))
  <2>1. \A x \in Servers \X Peers : IdAt(inbox[x[1]][x[2]], nextId) = {}
    BY <1>3
  <2>2. \A x \in Servers \X Peers : IdAt(recvBuffer[x[1]][x[2]], nextId) = {}
    BY <1>4
  <2> QED
    BY <2>1, <2>2 DEF None, InQueues
<1>10. None(InFrames(s2c, nextId))
  BY <1>7 DEF None, InFrames
<1> QED
  BY <1>5, <1>6, <1>8, <1>9, <1>10

LEMMA SendCopies ==
    ASSUME TypeOK, SentInv, NEW s \in Sessions, NEW v \in Users, Send(s, v),
           NEW m \in sent, Single(m.id)
    PROVE  Single(m.id)'
<1> DEFINE e == NewMessage(s, v)
           id == m.id
<1>1. /\ inbox' = inbox \/ inbox' = [inbox EXCEPT ![home[s]][s] = Append(@, e)]
      /\ UNCHANGED << history, recvBuffer, pending, handler, s2c >>
  BY DEF Send, NewMessage, dbVars
<1>2. /\ inbox \in [Servers -> [Peers -> Seq(Message)]] /\ home[s] \in Servers /\ s \in Peers
  BY DEF TypeOK, Peers
<1>3. e \in Message /\ e.id # id
  BY SessionsAssumption DEF NewMessage, Message, SentInv, TypeOK
<1> HIDE DEF e, id
<1>4. AllKeep(InQueues(inbox, id), InQueues(inbox', id))
  <2>1. CASE inbox' = inbox
    BY <2>1, AllKept
  <2>2. CASE inbox' = [inbox EXCEPT ![home[s]][s] = Append(@, e)]
    BY <1>2, <1>3, <2>2, MessageQueued
  <2> QED
    BY <1>1, <2>1, <2>2
<1>5. Exactly(InDatabases(history, id), InQueues(inbox', id), InQueues(recvBuffer, id),
              InHandlers(handler, id), InTable(pending, handler, id), InFrames(s2c, id))
  BY <1>4, AllKept, KeepsSame, NothingMoves DEF Single, id
<1>6. Single(id)'
  BY <1>1, <1>5, SingleNext
<1> QED
  BY <1>6 DEF id

LEMMA SentOnce ==
    ASSUME TypeOK, SentInv, NEW s \in Sessions, NEW v \in Users, Send(s, v),
           NEW m, m = NewMessage(s, v), Undisturbed(m)'
    PROVE  Single(m.id)'
<1> DEFINE id == nextId
<1>1. m \in Message /\ m.id = id /\ m.from = UserOf[s]
  BY SessionsAssumption DEF NewMessage, Message, TypeOK
<1>2. Open(home[s], s)
  <2>1. phase'[s] = "online"
    BY DEF Send, sessionVars, readerVars
  <2>2. Open(home[s], s)'
    BY <1>1, <2>1 DEF Undisturbed
  <2> QED
    BY <2>2 DEF Send, sessionVars, readerVars, socketVars, Open
<1>3. /\ inbox' = [inbox EXCEPT ![home[s]][s] = Append(@, m)]
      /\ UNCHANGED << history, recvBuffer, pending, handler, s2c >>
  BY <1>2 DEF Send, NewMessage, dbVars
<1>4. /\ inbox \in [Servers -> [Peers -> Seq(Message)]] /\ home[s] \in Servers /\ s \in Peers
  BY DEF TypeOK, Peers
<1>5. Gets(InQueues(inbox, m.id), InQueues(inbox', m.id))
  BY <1>1, <1>3, <1>4, MessageQueued
<1>6. Exactly(InDatabases(history, m.id), InQueues(inbox', m.id), InQueues(recvBuffer, m.id),
              InHandlers(handler, m.id), InTable(pending, handler, m.id), InFrames(s2c, m.id))
  BY <1>1, <1>5, NextIdIsNew DEF Exactly, Gets
<1> QED
  BY <1>3, <1>6, SingleNext

LEMMA ExitCopies ==
    ASSUME TypeOK, SentInv, AddresseeInv, NEW s \in Sessions, Exit(s),
           NEW m \in sent, Undisturbed(m)', Single(m.id)
    PROVE  Single(m.id)'
<1>1. /\ s2c \in [Sessions -> Seq(Frame)] /\ s2c' = [s2c EXCEPT ![s] = << >>]
      /\ phase'[s] = "exited"
      /\ UNCHANGED << history, inbox, recvBuffer, pending, handler >>
  BY DEF TypeOK, Exit, dbVars
<1>2. UserOf[s] # m.to
  BY <1>1 DEF Undisturbed
<1>3. FrameAt(s2c[s], m.id) = {}
  BY <1>2, FrameIsCopy DEF FrameAt
<1>4. AllKeep(InFrames(s2c, m.id), InFrames(s2c', m.id))
  BY <1>1, <1>3, FramesDropped
<1>5. Exactly(InDatabases(history, m.id), InQueues(inbox, m.id), InQueues(recvBuffer, m.id),
              InHandlers(handler, m.id), InTable(pending, handler, m.id), InFrames(s2c', m.id))
  BY <1>4, AllKept, KeepsSame, NothingMoves DEF Single
<1> QED
  BY <1>1, <1>5, SingleNext

-----------------------------------------------------------------------------

\* A frame is written, or not when the client has ended.
LEMMA ClientWritten ==
    ASSUME TypeOK, NEW s \in Sessions, NEW f \in Frame, NEW id, WriteToClient(s, f)
    PROVE  /\ ~(f.kind # "count" /\ f.msg.id = id) =>
                AllKeep(InFrames(s2c, id), InFrames(s2c', id))
           /\ f.kind # "count" /\ f.msg.id = id /\ phase[s] # "exited" =>
                Gets(InFrames(s2c, id), InFrames(s2c', id))
<1>1. s2c \in [Sessions -> Seq(Frame)]
  BY DEF TypeOK
<1>2. CASE phase[s] = "exited"
  BY <1>2, AllKept DEF WriteToClient
<1>3. CASE phase[s] # "exited"
  <2>1. s2c' = [s2c EXCEPT ![s] = Append(@, f)]
    BY <1>3 DEF WriteToClient
  <2> QED
    BY <1>1, <2>1, FrameWritten
<1> QED
  BY <1>2, <1>3

LEMMA RegisterCopies ==
    ASSUME TypeOK, NEW id, Single(id), NEW i \in Servers, RegisterClient(i)
    PROVE  Single(id)'
<1>1. handler \in [Servers -> Handler] /\ handler[i].step = "hello"
  BY DEF TypeOK, RegisterClient
<1>2. PICK q \in PendingFor(UserOf[handler[i].ses]) :
        /\ WriteToClient(handler[i].ses, CountFrame(Len(q)))
        /\ handler' = [handler EXCEPT ![i] = Drain(handler[i].ses, q)]
  BY DEF RegisterClient
<1>3. UNCHANGED << history, inbox, recvBuffer, pending >>
  BY DEF RegisterClient, dbVars
<1>4. handler[i].ses \in Sessions
  BY <1>1, HandlerFields
<1>5. Len(q) \in Nat
  BY PendingForRows DEF TypeOK
<1>6. CountFrame(Len(q)) \in Frame /\ CountFrame(Len(q)).kind = "count"
  BY <1>5 DEF CountFrame, Frame
<1>7. AllKeep(InFrames(s2c, id), InFrames(s2c', id))
  BY <1>2, <1>4, <1>6, ClientWritten
<1>8. PICK h : h = Drain(handler[i].ses, q)
  OBVIOUS
<1>9. h.step # "route" /\ ~WrittenRow(h)
  BY <1>8 DEF Drain, Idle, WrittenRow
<1>10. Marked(handler') = Marked(handler)
  <2>1. ~WrittenRow(handler[i])
    BY <1>1 DEF WrittenRow
  <2>2. handler' = [handler EXCEPT ![i] = h]
    BY <1>2, <1>8
  <2> QED
    BY <1>1, <1>9, <2>1, <2>2, MarksSame
<1>11. InHandlers(handler', id) = InHandlers(handler, id)
  BY <1>1, <1>2, <1>8, <1>9 DEF InHandlers
<1>12. InTable(pending, handler', id) = InTable(pending, handler, id)
  BY <1>10 DEF InTable
<1>13. Exactly(InDatabases(history, id), InQueues(inbox, id), InQueues(recvBuffer, id),
               InHandlers(handler', id), InTable(pending, handler', id), InFrames(s2c', id))
  BY <1>7, <1>11, <1>12, AllKept, KeepsSame, NothingMoves DEF Single
<1> QED
  BY <1>3, <1>13, SingleNext

-----------------------------------------------------------------------------

\* The table, when x is marked too, and x is the key of no row with the id, or
\* of the only one.
LEMMA MarkedToo ==
    ASSUME TypeOK, DrainInv, NEW id, NEW r \in Row, KnownRow(r), NEW hd2,
           \A x : x \in Marked(hd2) <=> x \in Marked(handler) \/ x = r.msgid
    PROVE  /\ r.msg.id # id => InTable(pending, hd2, id) = InTable(pending, handler, id)
           /\ r \in InTable(pending, handler, id) /\ Sole(InTable(pending, handler, id)) =>
                InTable(pending, hd2, id) = {}
<1>1. \A q \in pending : q \in Row /\ KnownRow(q)
  BY DEF TypeOK, KnownRow
<1>2. \A q \in pending : q.msgid = r.msgid => q = r
  BY <1>1 DEF DrainInv, MsgidIsKey
<1>3. ASSUME r.msg.id # id
      PROVE  InTable(pending, hd2, id) = InTable(pending, handler, id)
  BY <1>2, <1>3 DEF InTable
<1>4. ASSUME r \in InTable(pending, handler, id), Sole(InTable(pending, handler, id))
      PROVE  InTable(pending, hd2, id) = {}
  <2>1. \A q \in InTable(pending, handler, id) : q = r
    BY <1>4 DEF Sole
  <2> QED
    BY <2>1 DEF InTable
<1> QED
  BY <1>3, <1>4

LEMMA WriteRowCopies ==
    ASSUME CopiesInv, NEW i \in Servers, WriteRow(i),
           NEW m \in sent, Undisturbed(m), Single(m.id)
    PROVE  Single(m.id)'
<1> USE DEF CopiesInv
<1> DEFINE s == handler[i].ses
           r == Head(handler[i].rows)
           h == [handler[i] EXCEPT !.written = TRUE]
           id == m.id
<1>1. /\ handler \in [Servers -> Handler] /\ handler[i].step = "drain" /\ ~handler[i].written
      /\ WriteToClient(s, RowFrame(r.msg))
      /\ handler' = [handler EXCEPT ![i] = h]
      /\ UNCHANGED << history, inbox, recvBuffer, pending >>
  BY DEF TypeOK, WriteRow, dbVars
<1>2. h.step = "drain" /\ h.written /\ h.rows = handler[i].rows
  BY <1>1, DrainFields
<1>3. s \in Sessions /\ handler[i].rows \in Seq(Row) /\ handler[i].rows # << >>
  BY <1>1, HandlerFields
<1>4. r \in Row /\ 1 \in DOMAIN handler[i].rows /\ r = handler[i].rows[1]
  BY <1>3, HeadTail
<1>5. KnownRow(r) /\ r.msg.to = UserOf[s]
  BY <1>1, <1>4 DEF KnownRow, SelectedBy, AddresseeInv, RowsForSession
<1>6. /\ RowFrame(r.msg) \in Frame /\ RowFrame(r.msg).kind # "count"
      /\ RowFrame(r.msg).msg = r.msg
  BY <1>4 DEF RowFrame, Frame, Row
<1> HIDE DEF s, r, h, id
<1>7. InHandlers(handler', id) = InHandlers(handler, id)
  BY <1>1, <1>2 DEF InHandlers
<1>8. \A x : x \in Marked(handler') <=> x \in Marked(handler) \/ x = r.msgid
  <2>1. WrittenRow(h) /\ Head(h.rows).msgid = r.msgid /\ ~WrittenRow(handler[i])
    BY <1>1, <1>2 DEF WrittenRow, r
  <2>2. \A x : x \in Marked(handler') <=>
          \/ WrittenRow(h) /\ x = Head(h.rows).msgid
          \/ \E j \in Servers \ {i} : WrittenRow(handler[j]) /\ x = Head(handler[j].rows).msgid
    <3>1. handler' = [handler EXCEPT ![i] = h] /\ handler \in [Servers -> Handler]
      BY <1>1
    <3>2. ASSUME NEW x
          PROVE  x \in Marked(handler') <=>
                   \/ WrittenRow(h) /\ x = Head(h.rows).msgid
                   \/ \E j \in Servers \ {i} : WrittenRow(handler[j]) /\ x = Head(handler[j].rows).msgid
      BY <3>1 DEF Marked, WrittenRow
    <3> QED
      BY <3>2
  <2>3. \A x : x \in Marked(handler) <=>
          \E j \in Servers : WrittenRow(handler[j]) /\ x = Head(handler[j].rows).msgid
    BY DEF Marked, WrittenRow
  <2> QED
    BY <2>1, <2>2, <2>3
<1>9. /\ r.msg.id # id => InTable(pending, handler', id) = InTable(pending, handler, id)
      /\ r \in InTable(pending, handler, id) /\ Sole(InTable(pending, handler, id)) =>
           InTable(pending, handler', id) = {}
  BY <1>4, <1>5, <1>8, MarkedToo
<1>10. CASE r.msg.id # id
  <2>1. AllKeep(InFrames(s2c, id), InFrames(s2c', id))
    BY <1>1, <1>3, <1>6, <1>10, ClientWritten
  <2>2. Exactly(InDatabases(history, id), InQueues(inbox, id), InQueues(recvBuffer, id),
                InHandlers(handler', id), InTable(pending, handler', id), InFrames(s2c', id))
    BY <1>7, <1>9, <1>10, <2>1, AllKept, KeepsSame, NothingMoves DEF Single, id
  <2>3. Single(id)'
    BY <1>1, <2>2, SingleNext
  <2> QED
    BY <2>3 DEF id
<1>11. CASE r.msg.id = id
  <2>1. r.msg = m
    BY <1>5, <1>11, RowIsCopy DEF id
  <2>2. UserOf[s] = m.to
    BY <1>5, <2>1
  <2>3. Solo(phase, UserOf[s]) /\ phase[s] # "exited"
    BY <1>3, <2>2 DEF Undisturbed, Solo
  <2>4. r \in pending
    BY <1>1, <1>4, <2>3 DEF SoloDrain, RowsStillThere, s
  <2>5. r.msgid \notin Marked(handler)
    <3>1. SUFFICES ASSUME NEW j \in Servers, handler[j].step = "drain", handler[j].written,
                          r.msgid = Head(handler[j].rows).msgid
                   PROVE  FALSE
      BY DEF Marked
    <3> DEFINE d == Head(handler[j].rows)
    <3>2. handler[j].rows \in Seq(Row) /\ handler[j].rows # << >>
      BY <1>1, <3>1, HandlerFields
    <3>3. d \in Row /\ 1 \in DOMAIN handler[j].rows /\ d = handler[j].rows[1]
      BY <3>2, HeadTail
    <3>4. KnownRow(d) /\ d.msg.to = UserOf[handler[j].ses]
      BY <3>1, <3>3 DEF KnownRow, SelectedBy, AddresseeInv, RowsForSession
    <3>5. d = r
      BY <1>4, <1>5, <3>1, <3>3, <3>4 DEF DrainInv, MsgidIsKey
    <3>6. UserOf[handler[j].ses] = UserOf[s]
      BY <1>5, <3>4, <3>5
    <3>7. j = i
      BY <1>1, <2>3, <3>1, <3>6, OneDrain DEF s
    <3> QED
      BY <1>1, <3>1, <3>7
  <2>6. r \in InTable(pending, handler, id)
    BY <1>11, <2>4, <2>5 DEF InTable
  <2>7. Gets(InFrames(s2c, id), InFrames(s2c', id))
    BY <1>1, <1>3, <1>6, <1>11, <2>3, ClientWritten
  <2> DEFINE D == InTable(pending, handler, id)
             D2 == InTable(pending, handler', id)
             H == InDatabases(history, id)
             I == InQueues(inbox, id)
             B == InQueues(recvBuffer, id)
             R == InHandlers(handler, id)
             C == InFrames(s2c, id)
             C2 == InFrames(s2c', id)
  <2>8. /\ Exactly(H, I, B, R, D, C) /\ D # {} /\ (Sole(D) => D2 = {}) /\ Gets(C, C2)
    BY <1>9, <2>6, <2>7 DEF Single, id
  <2> HIDE DEF D, D2, H, I, B, R, C, C2
  <2>9. Exactly(H, I, B, R, D2, C2)
    BY <2>8, RowToFrame
  <2>10. Single(id)'
    BY <1>1, <1>7, <2>9, SingleNext DEF D2, H, I, B, R, C2
  <2> QED
    BY <2>10 DEF id
<1> QED
  BY <1>10, <1>11

LEMMA DeleteRowCopies ==
    ASSUME TypeOK, NEW i \in Servers, DeleteRow(i), NEW id, Single(id)
    PROVE  Single(id)'
<1> DEFINE d == Head(handler[i].rows)
<1>1. /\ handler \in [Servers -> Handler] /\ handler[i].step = "drain" /\ handler[i].written
      /\ pending' = {r \in pending : r.msgid # d.msgid}
      /\ UNCHANGED << history, inbox, recvBuffer, s2c >>
  BY DEF TypeOK, DeleteRow, Kept
<1>2. PICK h : /\ h = Drain(handler[i].ses, Tail(handler[i].rows))
               /\ handler' = [handler EXCEPT ![i] = h]
  BY DEF DeleteRow
<1>3. h.step # "route" /\ ~WrittenRow(h)
  BY <1>2 DEF Drain, Idle, WrittenRow
<1>4. InHandlers(handler', id) = InHandlers(handler, id)
  BY <1>1, <1>2, <1>3 DEF InHandlers
<1> HIDE DEF d
<1>5. \A x : x \in Marked(handler) <=> x \in Marked(handler') \/ x = d.msgid
  <2>1. WrittenRow(handler[i])
    BY <1>1 DEF WrittenRow
  <2>2. \A x : x \in Marked(handler') <=>
          \/ WrittenRow(h) /\ x = Head(h.rows).msgid
          \/ \E j \in Servers \ {i} : WrittenRow(handler[j]) /\ x = Head(handler[j].rows).msgid
    <3>1. handler' = [handler EXCEPT ![i] = h] /\ handler \in [Servers -> Handler]
      BY <1>1, <1>2
    <3>2. ASSUME NEW x
          PROVE  x \in Marked(handler') <=>
                   \/ WrittenRow(h) /\ x = Head(h.rows).msgid
                   \/ \E j \in Servers \ {i} : WrittenRow(handler[j]) /\ x = Head(handler[j].rows).msgid
      BY <3>1 DEF Marked, WrittenRow
    <3> QED
      BY <3>2
  <2>3. \A x : x \in Marked(handler) <=>
          \E j \in Servers : WrittenRow(handler[j]) /\ x = Head(handler[j].rows).msgid
    BY DEF Marked, WrittenRow
  <2> QED
    BY <1>3, <2>1, <2>2, <2>3 DEF d
<1>6. InTable(pending', handler', id) = InTable(pending, handler, id)
  BY <1>1, <1>5 DEF InTable
<1> QED
  BY <1>1, <1>4, <1>6, SingleNext DEF Single

-----------------------------------------------------------------------------

LEMMA ReadCopies ==
    ASSUME TypeOK, NEW i \in Servers, NEW p \in Peers, ReadMessage(i, p), NEW id, Single(id)
    PROVE  Single(id)'
<1> DEFINE q == inbox[i][p]
           r == recvBuffer[i][p]
<1>1. PICK k \in 1 .. Len(q) :
        /\ handler' = [handler EXCEPT ![i] = Route(p, Head(Taken(r, q, k)),
                                                   connectedto[Head(Taken(r, q, k)).to])]
        /\ recvBuffer' = [recvBuffer EXCEPT ![i][p] = Tail(Taken(r, q, k))]
        /\ inbox' = [inbox EXCEPT ![i][p] = LeftBy(q, k)]
  BY DEF ReadMessage, Leftover, Taken, LeftBy
<1>2. PICK read : read = Taken(r, q, k)
  OBVIOUS
<1>3. PICK h : h = Route(p, Head(read), connectedto[Head(read).to])
  OBVIOUS
<1>4. /\ handler' = [handler EXCEPT ![i] = h] /\ handler[i] = Idle
      /\ handler \in [Servers -> Handler]
      /\ recvBuffer' = [recvBuffer EXCEPT ![i][p] = Tail(read)]
      /\ UNCHANGED << history, pending, s2c >>
  BY <1>1, <1>2, <1>3 DEF ReadMessage, Loop, dbVars, TypeOK
<1>5. /\ inbox \in [Servers -> [Peers -> Seq(Message)]]
      /\ recvBuffer \in [Servers -> [Peers -> Seq(Message)]]
  BY DEF TypeOK
<1>6. h.step = "route" /\ h.msg = Head(read) /\ ~WrittenRow(h)
  BY <1>3 DEF Route, WrittenRow
<1>7. handler[i].step # "route" /\ ~WrittenRow(handler[i])
  BY <1>4 DEF Idle, WrittenRow
<1> DEFINE hit == Head(read).id = id
           H == InDatabases(history, id)
           I == InQueues(inbox, id)
           B == InQueues(recvBuffer, id)
           R == InHandlers(handler, id)
           D == InTable(pending, handler, id)
           C == InFrames(s2c, id)
           I2 == InQueues(inbox', id)
           B2 == InQueues(recvBuffer', id)
           R2 == InHandlers(handler', id)
<1>8. TablesRead(hit, I, B, I2, B2)
  <2>1. PICK c \in [Servers -> [Peers -> Seq(Message)]] : c = inbox
    BY <1>5
  <2>2. PICK b \in [Servers -> [Peers -> Seq(Message)]] : b = recvBuffer
    BY <1>5
  <2>3. PICK c2 : c2 = inbox'
    OBVIOUS
  <2>4. PICK b2 : b2 = recvBuffer'
    OBVIOUS
  <2>5. /\ k \in 1 .. Len(c[i][p]) /\ read = Taken(b[i][p], c[i][p], k)
        /\ c2 = [c EXCEPT ![i][p] = LeftBy(c[i][p], k)]
        /\ b2 = [b EXCEPT ![i][p] = Tail(read)]
    BY <1>1, <1>2, <1>4, <2>1, <2>2, <2>3, <2>4
  <2>6. TablesRead(Head(read).id = id, InQueues(c, id), InQueues(b, id),
                   InQueues(c2, id), InQueues(b2, id))
    BY <2>5, QueueRead
  <2> QED
    BY <2>1, <2>2, <2>3, <2>4, <2>6
<1>9. InTable(pending, handler', id) = D
  <2>1. Marked(handler') = Marked(handler)
    BY <1>4, <1>6, <1>7 DEF Marked, WrittenRow
  <2> QED
    BY <2>1 DEF InTable
<1>10. R2 = IF hit THEN R \cup {i} ELSE R
  BY <1>4, <1>6, <1>7 DEF InHandlers
<1>11. Exactly(H, I, B, R, D, C)
  BY DEF Single
<1> HIDE DEF hit, H, I, B, R, D, C, I2, B2, R2, q, r
<1>12. (~hit => R2 = R) /\ (hit => (R = {} => Sole(R2)))
  BY <1>10 DEF Sole
<1>13. Exactly(H, I2, B2, R2, D, C)
  BY <1>8, <1>11, <1>12, QueueToHandler
<1> QED
  BY <1>4, <1>9, <1>13, SingleNext DEF H, I2, B2, R2, D, C

-----------------------------------------------------------------------------

\* The routing of a message ends.
LEMMA RouteDone ==
    ASSUME TypeOK, NEW i \in Servers, handler[i].step = "route",
           handler' = [handler EXCEPT ![i] = Idle], NEW id
    PROVE  /\ Marked(handler') = Marked(handler)
           /\ handler[i].msg.id # id => InHandlers(handler', id) = InHandlers(handler, id)
           /\ handler[i].msg.id = id =>
                /\ InHandlers(handler, id) # {}
                /\ Sole(InHandlers(handler, id)) => InHandlers(handler', id) = {}
<1>1. Idle.step # "route" /\ ~WrittenRow(Idle) /\ ~WrittenRow(handler[i])
  BY DEF Idle, WrittenRow
<1>2. handler \in [Servers -> Handler]
  BY DEF TypeOK
<1>3. Marked(handler') = Marked(handler)
  BY <1>1, <1>2 DEF Marked, WrittenRow
<1>4. InHandlers(handler', id) = InHandlers(handler, id) \ {i}
  BY <1>1, <1>2 DEF InHandlers
<1>5. i \in InHandlers(handler, id) <=> handler[i].msg.id = id
  BY DEF InHandlers
<1> QED
  BY <1>3, <1>4, <1>5 DEF Sole

LEMMA RouteLocalCopies ==
    ASSUME CopiesInv, NEW i \in Servers, RouteLocal(i),
           NEW m \in sent, Undisturbed(m), Single(m.id)
    PROVE  Single(m.id)'
<1> USE DEF CopiesInv
<1> DEFINE s == RecipientSocket(i)
           e == handler[i].msg
           id == m.id
           H == InDatabases(history, id)
           I == InQueues(inbox, id)
           B == InQueues(recvBuffer, id)
           R == InHandlers(handler, id)
           R2 == InHandlers(handler', id)
           D == InTable(pending, handler, id)
           C == InFrames(s2c, id)
           C2 == InFrames(s2c', id)
<1>1. /\ handler[i].step = "route" /\ s # NoSession /\ WriteToClient(s, LiveFrame(e))
      /\ handler' = [handler EXCEPT ![i] = Idle]
      /\ UNCHANGED << history, inbox, recvBuffer, pending >>
  BY DEF RouteLocal, dbVars
<1>2. e \in Message /\ e.to \in Users
  BY <1>1, HandlerFields DEF TypeOK, Message
<1>3. s \in Sessions /\ UserOf[s] = e.to
  BY <1>1, <1>2 DEF RecipientSocket, TypeOK, AddresseeInv, OnlineByName
<1>4. LiveFrame(e) \in Frame /\ LiveFrame(e).kind # "count" /\ LiveFrame(e).msg = e
  BY <1>2 DEF LiveFrame, Frame
<1>5. InTable(pending, handler', id) = D
  BY <1>1, RouteDone DEF InTable
<1>6. Exactly(H, I, B, R, D, C)
  BY DEF Single
<1>7. CASE e.id # id
  <2>1. AllKeep(C, C2)
    BY <1>1, <1>3, <1>4, <1>7, ClientWritten
  <2>2. R2 = R
    BY <1>1, <1>7, RouteDone
  <2> HIDE DEF H, I, B, R, R2, D, C, C2
  <2>3. Exactly(H, I, B, R2, D, C2)
    BY <1>6, <2>1, <2>2, AllKept, KeepsSame, NothingMoves
  <2> QED
    BY <1>1, <1>5, <2>3, SingleNext DEF H, I, B, R2, D, C2
<1>8. CASE e.id = id
  <2>1. e = m
    BY <1>1, <1>8, RoutedIsCopy
  <2>2. phase[s] # "exited"
    BY <1>3, <2>1 DEF Undisturbed
  <2>3. Gets(C, C2)
    BY <1>1, <1>3, <1>4, <1>8, <2>2, ClientWritten
  <2>4. R # {} /\ (Sole(R) => R2 = {})
    BY <1>1, <1>8, RouteDone
  <2> HIDE DEF H, I, B, R, R2, D, C, C2
  <2>5. Exactly(H, I, B, R2, D, C2)
    BY <1>6, <2>3, <2>4, RouteToFrame
  <2> QED
    BY <1>1, <1>5, <2>5, SingleNext DEF H, I, B, R2, D, C2
<1> QED
  BY <1>7, <1>8

LEMMA RoutePendingCopies ==
    ASSUME TypeOK, DrainInv, NEW i \in Servers, RoutePending(i), NEW id, Single(id)
    PROVE  Single(id)'
<1> DEFINE e == handler[i].msg
           row == NewRow(i)
           H == InDatabases(history, id)
           I == InQueues(inbox, id)
           B == InQueues(recvBuffer, id)
           R == InHandlers(handler, id)
           R2 == InHandlers(handler', id)
           D == InTable(pending, handler, id)
           D2 == InTable(pending', handler', id)
           C == InFrames(s2c, id)
<1>1. /\ handler[i].step = "route" /\ handler' = [handler EXCEPT ![i] = Idle]
      /\ pending' = pending \cup {row}
      /\ UNCHANGED << history, inbox, recvBuffer, s2c >>
  BY DEF RoutePending, Elsewhere, NewRow
<1>2. row.msgid = nextMsgid /\ row.msg = e
  BY DEF NewRow
<1>3. row.msgid \notin Marked(handler)
  <2>1. SUFFICES ASSUME NEW j \in Servers, handler[j].step = "drain", handler[j].written,
                        Head(handler[j].rows).msgid = nextMsgid
                 PROVE  FALSE
    BY <1>2 DEF Marked
  <2> DEFINE d == Head(handler[j].rows)
  <2>2. handler[j].rows \in Seq(Row) /\ handler[j].rows # << >>
    BY <2>1, HandlerFields DEF TypeOK
  <2>3. d \in Row /\ 1 \in DOMAIN handler[j].rows /\ d = handler[j].rows[1]
    BY <2>2, HeadTail
  <2>4. KnownRow(d)
    BY <2>1, <2>3 DEF KnownRow, SelectedBy
  <2>5. d.msgid < nextMsgid /\ d.msgid \in Nat /\ nextMsgid \in Nat
    BY <2>3, <2>4 DEF DrainInv, MsgidsUsed, Row, TypeOK
  <2> QED
    BY <2>1, <2>5
<1>4. Marked(handler') = Marked(handler)
  BY <1>1, RouteDone
<1> HIDE DEF row
<1>5. D2 = IF e.id = id THEN D \cup {row} ELSE D
  BY <1>1, <1>2, <1>3, <1>4 DEF InTable
<1>6. Exactly(H, I, B, R, D, C)
  BY DEF Single
<1>7. CASE e.id # id
  <2>1. R2 = R
    BY <1>1, <1>7, RouteDone
  <2> HIDE DEF H, I, B, R, R2, D, D2, C
  <2>2. Exactly(H, I, B, R2, D2, C)
    BY <1>5, <1>6, <1>7, <2>1
  <2> QED
    BY <1>1, <2>2, SingleNext DEF H, I, B, R2, D2, C
<1>8. CASE e.id = id
  <2>1. R # {} /\ (Sole(R) => R2 = {})
    BY <1>1, <1>8, RouteDone
  <2> HIDE DEF H, I, B, R, R2, D, D2, C
  <2>2. D = {} => Sole(D2)
    BY <1>5, <1>8 DEF Sole
  <2>3. Exactly(H, I, B, R2, D2, C)
    BY <1>6, <2>1, <2>2, RouteToTable
  <2> QED
    BY <1>1, <2>3, SingleNext DEF H, I, B, R2, D2, C
<1> QED
  BY <1>7, <1>8

-----------------------------------------------------------------------------

LEMMA RouteForwardCopies ==
    ASSUME CopiesInv, NEW i \in Servers, RouteForward(i),
           NEW m \in sent, Undisturbed(m), Single(m.id)
    PROVE  Single(m.id)'
<1> USE DEF CopiesInv
<1> PICK k : k = handler[i].seen
  OBVIOUS
<1> DEFINE e == handler[i].msg
           id == m.id
           H == InDatabases(history, id)
           I == InQueues(inbox, id)
           I2 == InQueues(inbox', id)
           B == InQueues(recvBuffer, id)
           R == InHandlers(handler, id)
           R2 == InHandlers(handler', id)
           D == InTable(pending, handler, id)
           C == InFrames(s2c, id)
<1>1. /\ handler[i].step = "route" /\ k \in links[i]
      /\ handler' = [handler EXCEPT ![i] = Idle]
      /\ UNCHANGED << history, recvBuffer, pending, s2c >>
  BY DEF RouteForward, Elsewhere, dbVars
<1>2. k \in Servers /\ k # i
  BY <1>1 DEF TypeOK, LoadInv, LinksToOthers
<1>3. ~Deserted(i, k)
  BY <1>2 DEF Undisturbed, Deserted
<1>4. inbox' = [inbox EXCEPT ![k][i] = Append(@, e)]
  BY <1>3 DEF RouteForward
<1>5. e \in Message /\ i \in Peers /\ inbox \in [Servers -> [Peers -> Seq(Message)]]
  BY <1>1, HandlerFields DEF TypeOK, Peers
<1>6. /\ e.id # id => AllKeep(I, I2)
      /\ e.id = id => Gets(I, I2)
  <2>1. PICK b2 : b2 = inbox'
    OBVIOUS
  <2>2. PICK b \in [Servers -> [Peers -> Seq(Message)]] : b = inbox
    BY <1>5
  <2>3. PICK x \in Message : x = e
    BY <1>5
  <2>4. PICK j \in Peers : j = i
    BY <1>5
  <2>5. b2 = [b EXCEPT ![k][j] = Append(@, x)]
    BY <1>4, <2>1, <2>2, <2>3, <2>4
  <2>6. /\ x.id # id => AllKeep(InQueues(b, id), InQueues(b2, id))
        /\ x.id = id => Gets(InQueues(b, id), InQueues(b2, id))
    BY <1>2, <2>5, MessageQueued
  <2> QED
    BY <2>1, <2>2, <2>3, <2>6
<1>7. InTable(pending, handler', id) = D
  BY <1>1, RouteDone DEF InTable
<1>8. Exactly(H, I, B, R, D, C)
  BY DEF Single
<1>9. CASE e.id # id
  <2>1. R2 = R
    BY <1>1, <1>9, RouteDone
  <2> HIDE DEF H, I, I2, B, R, R2, D, C
  <2>2. Exactly(H, I2, B, R2, D, C)
    BY <1>6, <1>8, <1>9, <2>1, AllKept, KeepsSame, NothingMoves
  <2> QED
    BY <1>1, <1>7, <2>2, SingleNext DEF H, I2, B, R2, D, C
<1>10. CASE e.id = id
  <2>1. R # {} /\ (Sole(R) => R2 = {})
    BY <1>1, <1>10, RouteDone
  <2> HIDE DEF H, I, I2, B, R, R2, D, C
  <2>2. Exactly(H, I2, B, R2, D, C)
    BY <1>6, <1>8, <1>10, <2>1, RouteToQueue
  <2> QED
    BY <1>1, <1>7, <2>2, SingleNext DEF H, I2, B, R2, D, C
<1> QED
  BY <1>9, <1>10

\* What a client has sent is dropped with it, but only its own messages.
LEMMA DropCopies ==
    ASSUME TypeOK, SentInv, FromSender, NEW i \in Servers, NEW s \in Sessions, Discard(i, s),
           NEW m \in sent, UserOf[s] # m.from
    PROVE  /\ AllKeep(InQueues(inbox, m.id), InQueues(inbox', m.id))
           /\ AllKeep(InQueues(recvBuffer, m.id), InQueues(recvBuffer', m.id))
<1>1. /\ inbox' = [inbox EXCEPT ![i][s] = << >>]
      /\ recvBuffer' = [recvBuffer EXCEPT ![i][s] = << >>]
      /\ s \in Peers
  BY DEF Discard, Peers
<1>2. IdAt(inbox[i][s], m.id) = {} /\ IdAt(recvBuffer[i][s], m.id) = {}
  BY <1>1, QueueIsCopy DEF IdAt, FromSender, Spoke
<1>3. /\ inbox \in [Servers -> [Peers -> Seq(Message)]]
      /\ recvBuffer \in [Servers -> [Peers -> Seq(Message)]]
  BY DEF TypeOK
<1>4. AllKeep(InQueues(inbox, m.id), InQueues(inbox', m.id))
  BY <1>1, <1>2, <1>3, QueueEmptied
<1>5. AllKeep(InQueues(recvBuffer, m.id), InQueues(recvBuffer', m.id))
  BY <1>1, <1>2, <1>3, QueueEmptied
<1> QED
  BY <1>4, <1>5

LEMMA RouteFailsCopies ==
    ASSUME CopiesInv, NEW i \in Servers, RouteFails(i),
           NEW m \in sent, Undisturbed(m)', Single(m.id)
    PROVE  Single(m.id)'
<1> USE DEF CopiesInv
<1> PICK p : p = handler[i].peer
  OBVIOUS
<1> DEFINE id == m.id
           H == InDatabases(history, id)
           I == InQueues(inbox, id)
           I2 == InQueues(inbox', id)
           B == InQueues(recvBuffer, id)
           B2 == InQueues(recvBuffer', id)
           R == InHandlers(handler, id)
           D == InTable(pending, handler, id)
           C == InFrames(s2c, id)
<1>1. /\ handler[i].step = "route" /\ Discard(i, p)
      /\ handler' = [handler EXCEPT ![i] = Idle]
      /\ UNCHANGED << history, pending, s2c, phase, home >>
  BY DEF RouteFails, Elsewhere, sessionVars, readerVars
<1>2. p \in events[i] \cup links[i] /\ p \in Peers
  BY <1>1, HandlerFields DEF LoadInv, RoutedPeer, TypeOK
<1>3. p \in Sessions
  <2>1. SUFFICES ASSUME p \in Servers
                 PROVE  FALSE
    BY <1>2 DEF Peers
  <2>2. p \in links[i]
    BY <1>2, <2>1, SessionsAssumption DEF TypeOK
  <2>3. p # i
    BY <2>2 DEF LoadInv, LinksToOthers
  <2>4. p \notin links'[i]
    BY <1>1 DEF Discard, TypeOK
  <2> QED
    BY <2>1, <2>3, <2>4 DEF Undisturbed
<1>4. p \in events[i] /\ i = home[p]
  BY <1>2, <1>3, SessionsAssumption DEF TypeOK, EventsAtHome
<1>5. phase[p] \in {"online", "exited"} /\ handler[i].msg.from = UserOf[p]
  BY <1>1, <1>3 DEF FromSender, Spoke
<1>6. UserOf[p] # m.from
  <2>1. SUFFICES ASSUME UserOf[p] = m.from
                 PROVE  FALSE
    OBVIOUS
  <2>2. phase'[p] = "online" /\ home'[p] = i
    BY <1>1, <1>3, <1>4, <1>5, <2>1 DEF Undisturbed
  <2>3. p \in events'[i]
    BY <1>3, <2>1, <2>2 DEF Undisturbed, Open
  <2> QED
    BY <1>1, <2>3 DEF Discard, TypeOK
<1>7. handler[i].msg.id # id
  BY <1>1, <1>5, <1>6, RoutedIsCopy
<1>8. AllKeep(I, I2) /\ AllKeep(B, B2)
  BY <1>1, <1>3, <1>6, DropCopies
<1>9. InTable(pending, handler', id) = D /\ InHandlers(handler', id) = R
  BY <1>1, <1>7, RouteDone DEF InTable
<1>10. Exactly(H, I, B, R, D, C)
  BY DEF Single
<1> HIDE DEF H, I, I2, B, B2, R, D, C
<1>11. Exactly(H, I2, B2, R, D, C)
  BY <1>8, <1>10, AllKept, KeepsSame, NothingMoves
<1> QED
  BY <1>1, <1>9, <1>11, SingleNext DEF H, I2, B2, R, D, C

LEMMA CloseClientCopies ==
    ASSUME TypeOK, SentInv, FromSender, NEW i \in Servers, NEW s \in Sessions, CloseClient(i, s),
           NEW m \in sent, Undisturbed(m), Single(m.id)
    PROVE  Single(m.id)'
<1> DEFINE id == m.id
           H == InDatabases(history, id)
           I == InQueues(inbox, id)
           I2 == InQueues(inbox', id)
           B == InQueues(recvBuffer, id)
           B2 == InQueues(recvBuffer', id)
           R == InHandlers(handler, id)
           D == InTable(pending, handler, id)
           C == InFrames(s2c, id)
<1>1. Discard(i, s) /\ phase[s] = "exited" /\ UNCHANGED << history, pending, handler, s2c >>
  BY SessionsAssumption DEF CloseClient, PeerClosed, Deserted
<1>2. UserOf[s] # m.from
  BY <1>1 DEF Undisturbed
<1>3. AllKeep(I, I2) /\ AllKeep(B, B2)
  BY <1>1, <1>2, DropCopies
<1>4. Exactly(H, I, B, R, D, C)
  BY DEF Single
<1> HIDE DEF H, I, I2, B, B2, R, D, C
<1>5. Exactly(H, I2, B2, R, D, C)
  BY <1>3, <1>4, AllKept, KeepsSame, NothingMoves
<1> QED
  BY <1>1, <1>5, SingleNext DEF H, I2, B2, R, D, C

-----------------------------------------------------------------------------

LEMMA SingleStep ==
    ASSUME CopiesInv, [Next]_vars, NEW m \in sent, Undisturbed(m), Undisturbed(m)', Single(m.id)
    PROVE  Single(m.id)'
<1> USE DEF CopiesInv
<1>1. CASE UNCHANGED vars \/ CommitAllocation
  BY <1>1, HandlerSameCopies DEF vars, dbVars, CommitAllocation
<1>2. ASSUME NEW s \in Sessions,
             \/ \E k \in Servers : Allocate(s, k)
             \/ Connect(s) \/ Greet(s) \/ AskUser(s)
      PROVE  Single(m.id)'
  BY <1>2, HandlerSameCopies DEF Allocate, Connect, Greet, AskUser, dbVars
<1>3. ASSUME NEW s \in Sessions, ClientStep(s)
      PROVE  Single(m.id)'
  BY <1>2, <1>3, ReadCountCopies, StoreCopies DEF ClientStep
<1>4. ASSUME NEW i \in Servers, AcceptConnection(i)
      PROVE  Single(m.id)'
  <2>1. Hello(Head(backlog[i])).step \in {"idle", "hello"} /\ handler[i].step \in {"idle", "hello"}
    BY <1>4 DEF AcceptConnection, Loop, Hello, Idle
  <2> QED
    BY <1>4, <2>1, EmptyHandlerCopies DEF AcceptConnection, dbVars
<1>5. ASSUME NEW i \in Servers, NoUsername(i)
      PROVE  Single(m.id)'
  <2>1. Idle.step \in {"idle", "hello"}
    BY DEF Idle
  <2> QED
    BY <1>5, <2>1, EmptyHandlerCopies DEF NoUsername, dbVars
<1>6. ASSUME NEW i \in Servers, HandlerStep(i)
      PROVE  Single(m.id)'
  BY <1>5, <1>6, RegisterCopies, WriteRowCopies, DeleteRowCopies, RouteLocalCopies,
     RoutePendingCopies, RouteForwardCopies, RouteFailsCopies DEF HandlerStep
<1>7. ASSUME NEW i \in Servers, Crash(i)
      PROVE  FALSE
  <2>1. ~alive'[i]
    BY <1>7 DEF Crash, TypeOK
  <2> QED
    BY <2>1 DEF Undisturbed
<1>8. ASSUME NEW i \in Servers, NEW p \in Peers, ServeClient(i, p)
      PROVE  Single(m.id)'
  BY <1>7, <1>8, ReadCopies, CloseClientCopies DEF ServeClient, OrphanServed, LinkLost
<1> QED
  BY <1>1, <1>2, <1>3, <1>4, <1>6, <1>8, SendCopies, ExitCopies DEF Next

-----------------------------------------------------------------------------

CopiesSingle == \A m \in sent : Undisturbed(m) => Single(m.id)

LEMMA CopiesInit == Init /\ TypeOK => CopiesInv /\ CopiesSingle
<1> SUFFICES ASSUME Init, TypeOK
             PROVE  CopiesInv /\ CopiesSingle
  OBVIOUS
<1>2. AddresseeInv
  BY DEF Init, AddresseeInv, OnlineByName, FramesForSession, RowsForSession,
         DeliveredToAddressee, Idle
<1>3. LoadInv /\ LoginInv
  BY LoadInit, LoginInit
<1>4. EventsAtHome
  BY DEF Init, EventsAtHome
<1>5. DrainInv
  BY DEF Init, DrainInv, WrittenRowsReached, MsgidIsKey, MsgidsUsed, KnownRow, SelectedBy,
         Idle
<1>6. FromSender
  <2>1. Sessions \subseteq Peers
    BY DEF Peers
  <2> QED
    BY <2>1 DEF Init, FromSender, Idle
<1>7. SoloDrain
  BY DEF Init, SoloDrain, Idle
<1>8. Attended
  BY DEF Init, Attended, Answered
<1>9. CopiesSingle
  BY DEF Init, CopiesSingle
<1> QED
  BY <1>2, <1>3, <1>4, <1>5, <1>6, <1>7, <1>8, <1>9, SentInit DEF CopiesInv

LEMMA CopiesStep ==
    ASSUME CopiesInv, TypeOK', [Next]_vars
    PROVE  CopiesInv'
<1> USE DEF CopiesInv
<1>1. AddresseeInv'
  BY OnlineStep, FramesStep, RowsStep, DeliveredStep DEF AddresseeInv
<1>2. LoadInv'
  BY OnePlaceStep, LoadStep DEF LoadInv
<1>3. LoginInv' /\ EventsAtHome'
  BY LoginStep, EventsAtHomeStep DEF LoadInv
<1>4. DrainInv'
  BY WrittenStep, KeyStep DEF DrainInv
<1>5. SentInv' /\ FromSender' /\ SoloDrain'
  BY SentStep, FromSenderStep, SoloDrainStep
<1>6. Attended'
  BY AttendedStep DEF LoadInv
<1> QED
  BY <1>1, <1>2, <1>3, <1>4, <1>5, <1>6

LEMMA CopiesSingleStep ==
    ASSUME CopiesInv, CopiesSingle, [Next]_vars
    PROVE  CopiesSingle'
<1> SUFFICES ASSUME NEW m \in sent', Undisturbed(m)'
             PROVE  Single(m.id)'
  BY DEF CopiesSingle
<1>1. CASE m \in sent
  <2>1. Undisturbed(m)
    BY UndisturbedBefore DEF CopiesInv, LoadInv
  <2> QED
    BY <1>1, <2>1, SingleStep DEF CopiesSingle
<1>2. ASSUME NEW s \in Sessions, NEW v \in Users, Send(s, v), m \notin sent
      PROVE  Single(m.id)'
  <2>1. m = NewMessage(s, v)
    BY <1>2 DEF Send, NewMessage
  <2> QED
    BY <1>2, <2>1, SentOnce DEF CopiesInv
<1> QED
  BY <1>1, <1>2, SentWriters

(***************************************************************************)
(* Exactly one copy of a message that nothing has disturbed: it is neither *)
(* lost nor doubled, however reads, drains, links and logins interleave    *)
(* (serve_client, accept_connection, receiveMessage).                      *)
(***************************************************************************)
THEOREM ExactlyOneCopy == Spec => []OneCopy
<1>1. Init /\ TypeOK => CopiesInv /\ CopiesSingle
  BY CopiesInit
<1>2. CopiesInv /\ CopiesSingle /\ TypeOK' /\ [Next]_vars => CopiesInv' /\ CopiesSingle'
  BY CopiesStep, CopiesSingleStep
<1>3. CopiesSingle => OneCopy
  BY SinglePlace, FS_Singleton DEF CopiesSingle, OneCopy
<1> QED
  BY <1>1, <1>2, <1>3, TypeCorrect, PTL DEF Spec

-----------------------------------------------------------------------------

(***************************************************************************)
(* The refinement of Delivery.                                             *)
(***************************************************************************)
Stored(m) == m \in Range(history[m.to])

\* What is undisturbed and has no copy left is stored; what has a frame on the
\* way is not.
StoredWhenGone ==
    \A m \in sent : Undisturbed(m) =>
        /\ CopyLeft(m) \/ Stored(m)
        /\ \A s \in Sessions : OnTheWay(s2c[s], m) => ~Stored(m)

LEMMA GoneIsStored ==
    ASSUME CopiesInv, NEW m \in sent, Single(m.id)
    PROVE  CopyLeft(m) \/ Stored(m)
<1> USE DEF CopiesInv
<1> SUFFICES ASSUME ~CopyParts(m)
             PROVE  Stored(m)
  BY CopyHasParts
<1>1. \A i \in Servers : \A p \in Peers :
        IdAt(inbox[i][p], m.id) = {} /\ IdAt(recvBuffer[i][p], m.id) = {}
  BY QueueIsCopy DEF IdAt, CopyParts, Queued
<1>2. InHandlers(handler, m.id) = {}
  BY RoutedIsCopy DEF InHandlers, CopyParts, Routing
<1>3. InTable(pending, handler, m.id) = {}
  BY RowIsCopy DEF InTable, CopyParts, RowOf, KnownRow
<1>4. \A s \in Sessions : FrameAt(s2c[s], m.id) = {}
  BY FrameIsCopy DEF FrameAt, CopyParts, OnTheWay
<1>5. ~One(InQueues(inbox, m.id)) /\ ~One(InQueues(recvBuffer, m.id))
  <2>1. \A x \in Servers \X Peers : IdAt(inbox[x[1]][x[2]], m.id) = {}
    BY <1>1
  <2>2. \A x \in Servers \X Peers : IdAt(recvBuffer[x[1]][x[2]], m.id) = {}
    BY <1>1
  <2>3. None(InQueues(inbox, m.id)) /\ None(InQueues(recvBuffer, m.id))
    BY <2>1, <2>2 DEF None, InQueues
  <2> QED
    BY <2>3, OneIsNotNone
<1>6. ~One(InFrames(s2c, m.id))
  <2>1. None(InFrames(s2c, m.id))
    BY <1>4 DEF None, InFrames
  <2> QED
    BY <2>1, OneIsNotNone
<1>7. One(InDatabases(history, m.id))
  BY <1>2, <1>3, <1>5, <1>6 DEF Single, Exactly, Sole
<1>8. PICK u \in Users : Sole(IdAt(history[u], m.id))
  BY <1>7 DEF One, InDatabases
<1>9. PICK n \in DOMAIN history[u] : history[u][n].id = m.id
  BY <1>8 DEF Sole, IdAt
<1>10. history[u][n] = m /\ u = m.to
  BY <1>9, StoredIsCopy
<1> QED
  BY <1>10 DEF Stored, Range

LEMMA ComingIsNotStored ==
    ASSUME CopiesInv, NEW m \in sent, Single(m.id), NEW s \in Sessions, OnTheWay(s2c[s], m)
    PROVE  ~Stored(m)
<1>1. PICK n \in DOMAIN s2c[s] : s2c[s][n].kind # "count" /\ s2c[s][n].msg = m
  BY DEF OnTheWay
<1>2. FrameAt(s2c[s], m.id) # {}
  BY <1>1 DEF FrameAt
<1>3. ~None(InFrames(s2c, m.id))
  BY <1>2 DEF None, InFrames
<1>4. None(InDatabases(history, m.id))
  BY <1>3 DEF Single, Exactly
<1>5. \A u \in Users : IdAt(history[u], m.id) = {}
  BY <1>4 DEF None, InDatabases
<1>6. m.to \in Users
  BY DEF CopiesInv, TypeOK, Message
<1> QED
  BY <1>5, <1>6 DEF Stored, Range, IdAt

LEMMA StoredOrLeft == CopiesInv /\ CopiesSingle => StoredWhenGone
BY GoneIsStored, ComingIsNotStored DEF CopiesSingle, StoredWhenGone

LEMMA StoreWriters ==
    ASSUME [Next]_vars
    PROVE  \/ UNCHANGED history
           \/ \E s \in Sessions : ImportRow(s) \/ ReceiveMessage(s)
<1>1. ASSUME UNCHANGED vars \/ CommitAllocation
      PROVE  UNCHANGED history
  BY <1>1 DEF vars, CommitAllocation
<1>2. ASSUME NEW s \in Sessions,
             \/ Exit(s)
             \/ \E k \in Servers : Allocate(s, k)
             \/ \E v \in Users : Send(s, v)
             \/ ClientStep(s) /\ ~ImportRow(s) /\ ~ReceiveMessage(s)
      PROVE  UNCHANGED history
  BY <1>2 DEF ClientStep, Connect, Greet, ReadCount, AskUser, Exit, Allocate, Send
<1>3. ASSUME NEW i \in Servers, AcceptConnection(i) \/ HandlerStep(i)
      PROVE  UNCHANGED history
  BY <1>3 DEF AcceptConnection, HandlerStep, NoUsername, RegisterClient, WriteRow,
              DeleteRow, RouteLocal, RoutePending, RouteForward, RouteFails
<1>4. ASSUME NEW i \in Servers, NEW p \in Peers, ServeClient(i, p)
      PROVE  UNCHANGED history
  BY <1>4 DEF ServeClient, ReadMessage, CloseClient, OrphanServed, LinkLost, Crash
<1> QED
  BY <1>1, <1>2, <1>3, <1>4 DEF Next

-----------------------------------------------------------------------------

\* Copies given up: no step but Send makes one from nothing, and what has none
\* left and is undisturbed is stored.
LEMMA GiveUpStep ==
    ASSUME CopiesInv, StoredWhenGone', [Next]_vars, UNCHANGED << sent, history >>
    PROVE  Service!GiveUp
<1>1. ASSUME NEW m \in sent, Undisturbed(m)'
      PROVE  Undisturbed(m)
  BY <1>1, UndisturbedBefore DEF CopiesInv, LoadInv
<1>2. ASSUME NEW m \in sent, CopyLeft(m)'
      PROVE  CopyLeft(m)
  <2>1. ASSUME NEW s \in Sessions, NEW v \in Users, Send(s, v),
               m = [id |-> nextId, from |-> UserOf[s], to |-> v]
        PROVE  FALSE
    BY <2>1 DEF CopiesInv, TypeOK, SentInv
  <2> QED
    BY <1>2, <2>1, CopyBefore DEF CopiesInv
<1>3. ASSUME NEW m \in sent, ~CopyLeft(m)', Undisturbed(m)'
      PROVE  m \in Range(history[m.to])
  BY <1>3 DEF StoredWhenGone, Stored
<1>4. {m \in sent : Undisturbed(m)}' \subseteq {m \in sent : Undisturbed(m)}
  BY <1>1
<1>5. {m \in sent : CopyLeft(m)}' \subseteq {m \in sent : CopyLeft(m)}
  BY <1>2
<1>6. ASSUME NEW m \in {x \in sent : CopyLeft(x)} \ {x \in sent : CopyLeft(x)}',
             m \in {x \in sent : Undisturbed(x)}'
      PROVE  Service!IsStored(m)
  BY <1>3, <1>6 DEF Service!IsStored, Service!Range, Range
<1> QED
  BY <1>4, <1>5, <1>6 DEF Service!GiveUp

\* A client that stores a message does not disturb any.
LEMMA UndisturbedKept ==
    ASSUME CopiesInv, NEW s \in Sessions, ImportRow(s) \/ ReceiveMessage(s),
           NEW m, Undisturbed(m)
    PROVE  Undisturbed(m)'
<1>1. phase \in [Sessions -> Phases] /\ home \in [Sessions -> Servers]
  BY DEF CopiesInv, TypeOK
<1>2. CASE ReceiveMessage(s)
  BY <1>2 DEF ReceiveMessage, sessionVars, readerVars, socketVars, Undisturbed, Open
<1>3. CASE ImportRow(s)
  <2>1. /\ phase[s] = "importing"
        /\ \E x \in {"online", "importing"} : phase' = [phase EXCEPT ![s] = x]
        /\ UNCHANGED << home, alive, events, links >>
    BY <1>3 DEF ImportRow, AfterImport, socketVars
  <2>2. s \in events[home[s]]
    BY <1>1, <2>1 DEF CopiesInv, Attended, Answered, Undisturbed
  <2>3. \A t \in Sessions \ {s} : phase'[t] = phase[t]
    BY <1>1, <2>1
  <2>4. phase'[s] \in {"online", "importing"}
    BY <1>1, <2>1
  <2>5. \A i \in Servers : alive'[i] /\ links'[i] = Servers \ {i}
    BY <2>1 DEF Undisturbed
  <2>6. ASSUME NEW t \in Sessions, UserOf[t] \in {m.from, m.to}
        PROVE  /\ phase'[t] # "exited"
               /\ phase'[t] = "online" => Open(home[t], t)'
    <3>1. CASE t = s
      BY <1>1, <2>1, <2>2, <2>4, <2>5, <3>1 DEF Open
    <3>2. CASE t # s
      BY <2>1, <2>3, <2>6, <3>2 DEF Undisturbed, Open
    <3> QED
      BY <3>1, <3>2
  <2>7. ASSUME NEW t \in Sessions, NEW r \in Sessions,
               UserOf[t] = m.to /\ UserOf[r] = m.to /\ t # r
        PROVE  "start" \in {phase'[t], phase'[r]}
    BY <2>1, <2>3, <2>7 DEF Undisturbed
  <2> QED
    BY <2>5, <2>6, <2>7 DEF Undisturbed
<1> QED
  BY <1>2, <1>3

\* ... and takes no copy but the one it stores.
LEMMA CopyKept ==
    ASSUME CopiesInv, NEW s \in Sessions, ImportRow(s) \/ ReceiveMessage(s),
           NEW m, CopyLeft(m), m # Head(s2c[s]).msg
    PROVE  CopyLeft(m)'
<1>1. /\ s2c \in [Sessions -> Seq(Frame)] /\ s2c' = [s2c EXCEPT ![s] = Tail(@)]
      /\ UNCHANGED << inbox, recvBuffer, handler, pending >> /\ s2c[s] # << >>
  BY DEF CopiesInv, TypeOK, ImportRow, ReceiveMessage, dbVars
<1>2. CopyParts(m)
  BY CopyHasParts
<1>3. ASSUME NEW t \in Sessions, OnTheWay(s2c[t], m)
      PROVE  OnTheWay(s2c'[t], m)
  <2>1. CASE t = s
    <3>1. s2c[s] \in Seq(Frame) /\ Head(s2c[s]) \in Frame
      BY <1>1, HeadTail
    <3>2. OnTheWay(Tail(s2c[s]), m)
      BY <1>3, <2>1, <3>1, OnTheWayKept
    <3> QED
      BY <1>1, <2>1, <3>2
  <2>2. CASE t # s
    BY <1>1, <1>3, <2>2
  <2> QED
    BY <2>1, <2>2
<1>4. CopyParts(m)'
  BY <1>1, <1>2, <1>3 DEF CopyParts, Queued, Routing, RowOf, KnownRow, SelectedBy
<1> QED
  BY <1>4, CopyHasParts

-----------------------------------------------------------------------------

\* A client stores the message of the frame at the head of its socket.
LEMMA StoreStep ==
    ASSUME CopiesInv, StoredWhenGone, [Next]_vars,
           NEW s \in Sessions, ImportRow(s) \/ ReceiveMessage(s)
    PROVE  \E m \in sent : Service!Store(m)
<1> PICK m : m = Head(s2c[s]).msg
  OBVIOUS
<1>1. /\ s2c[s] # << >> /\ Head(s2c[s]).kind \in {"row", "live"}
      /\ history' = [history EXCEPT ![UserOf[s]] = Append(@, m)]
      /\ sent' = sent
  BY DEF ImportRow, ReceiveMessage
<1>2. s2c[s] \in Seq(Frame) /\ 1 \in DOMAIN s2c[s] /\ Head(s2c[s]) = s2c[s][1]
  BY <1>1 DEF CopiesInv, TypeOK
<1>3. OnTheWay(s2c[s], m)
  BY <1>1, <1>2 DEF OnTheWay
<1>4. CopyLeft(m) /\ m \in sent
  <2>1. CopyLeft(m)
    BY <1>3, CopyHasParts DEF CopyParts
  <2> QED
    BY <2>1 DEF CopiesInv, SentInv
<1>5. m.to = UserOf[s]
  BY <1>1, <1>2, FrameIsCopy, <1>4 DEF CopiesInv
<1>6. Undisturbed(m) => m \notin Range(history[m.to])
  BY <1>3, <1>4 DEF StoredWhenGone, Stored
<1>7. ASSUME NEW x \in sent, CopyLeft(x), x # m
      PROVE  CopyLeft(x)'
  BY <1>7, CopyKept
<1>8. ASSUME NEW x \in sent, CopyLeft(x)'
      PROVE  CopyLeft(x)
  <2>1. ASSUME NEW t \in Sessions, NEW v \in Users, Send(t, v),
               x = [id |-> nextId, from |-> UserOf[t], to |-> v]
        PROVE  FALSE
    BY <2>1 DEF CopiesInv, TypeOK, SentInv
  <2> QED
    BY <1>8, <2>1, CopyBefore DEF CopiesInv
<1>9. ASSUME NEW x \in sent
      PROVE  Undisturbed(x)' <=> Undisturbed(x)
  BY <1>9, UndisturbedBefore, UndisturbedKept DEF CopiesInv, LoadInv
<1>10. m \in {x \in sent : CopyLeft(x)}
  BY <1>4
<1>11. m \in {x \in sent : Undisturbed(x)} => ~Service!IsStored(m)
  BY <1>6 DEF Service!IsStored, Service!Range, Range
<1>12. {x \in sent : CopyLeft(x)}' \in
         {{x \in sent : CopyLeft(x)}, {x \in sent : CopyLeft(x)} \ {m}}
  BY <1>1, <1>7, <1>8
<1>13. {x \in sent : Undisturbed(x)}' = {x \in sent : Undisturbed(x)}
  BY <1>1, <1>9
<1> QED
  BY <1>1, <1>4, <1>5, <1>10, <1>11, <1>12, <1>13 DEF Service!Store

\* A client sends: an undisturbed sender's socket is open, and takes the message.
LEMMA SendStep ==
    ASSUME CopiesInv, [Next]_vars, NEW s \in Sessions, NEW v \in Users, Send(s, v)
    PROVE  \E m \in sent' : Service!Send(m)
<1> PICK m : m = NewMessage(s, v)
  OBVIOUS
<1>1. /\ sent' = sent \cup {m} /\ UNCHANGED history /\ m.from = UserOf[s]
      /\ inbox' = IF Open(home[s], s)
                  THEN [inbox EXCEPT ![home[s]][s] = Append(@, m)] ELSE inbox
      /\ UNCHANGED << phase, home, alive, events, links, recvBuffer, handler, pending, s2c >>
      /\ phase[s] = "online"
  BY DEF Send, NewMessage, sessionVars, readerVars, socketVars, dbVars
<1>2. m \notin sent
  BY DEF CopiesInv, TypeOK, SentInv, NewMessage
<1>3. \A x : Undisturbed(x)' <=> Undisturbed(x)
  BY <1>1 DEF Undisturbed, Open
<1>4. /\ home[s] \in Servers /\ s \in Peers
      /\ inbox \in [Servers -> [Peers -> Seq(Message)]]
      /\ inbox[home[s]][s] \in Seq(Message) /\ m \in Message
  <2>1. /\ home[s] \in Servers /\ s \in Peers
        /\ inbox \in [Servers -> [Peers -> Seq(Message)]]
    BY DEF CopiesInv, TypeOK, Peers
  <2>2. m \in Message
    BY SessionsAssumption DEF CopiesInv, TypeOK, NewMessage, Message
  <2> QED
    BY <2>1, <2>2
<1>5. ASSUME Open(home[s], s)
      PROVE  CopyLeft(m)'
  <2>1. inbox'[home[s]][s] = Append(inbox[home[s]][s], m)
    BY <1>1, <1>4, <1>5
  <2>2. PICK n \in DOMAIN inbox'[home[s]][s] : inbox'[home[s]][s][n] = m
    <3> PICK q \in Seq(Message) : q = inbox[home[s]][s]
      BY <1>4
    <3>1. Len(q) + 1 \in DOMAIN Append(q, m) /\ Append(q, m)[Len(q) + 1] = m
      BY <1>4
    <3> QED
      BY <2>1, <3>1
  <2>3. Queued(inbox', m)
    BY <1>4, <2>2 DEF Queued
  <2>4. CopyParts(m)'
    BY <2>3 DEF CopyParts
  <2> QED
    BY <2>4, CopyHasParts
<1>6. ASSUME Undisturbed(m)
      PROVE  CopyLeft(m)'
  BY <1>1, <1>5, <1>6 DEF Undisturbed
<1>7. ASSUME NEW x \in sent
      PROVE  CopyLeft(x)' <=> CopyLeft(x)
  <2>1. CopyLeft(x)' => CopyLeft(x)
    <3>1. ASSUME NEW t \in Sessions, NEW w \in Users, Send(t, w),
                 x = [id |-> nextId, from |-> UserOf[t], to |-> w]
          PROVE  FALSE
      BY <3>1 DEF CopiesInv, TypeOK, SentInv
    <3> QED
      BY <3>1, CopyBefore DEF CopiesInv
  <2>2. CopyParts(x) => CopyParts(x)'
    <3>1. ASSUME NEW i \in Servers, NEW p \in Peers, NEW n \in DOMAIN inbox[i][p],
                 inbox[i][p][n] = x
          PROVE  Queued(inbox', x)
      <4>1. CASE inbox'[i][p] = inbox[i][p]
        BY <3>1, <4>1 DEF Queued
      <4>2. CASE inbox'[i][p] = Append(inbox[i][p], m)
        <5> PICK q \in Seq(Message) : q = inbox[i][p]
          BY <1>4
        <5>1. n \in DOMAIN Append(q, m) /\ Append(q, m)[n] = q[n]
          BY <1>4, <3>1
        <5> QED
          BY <3>1, <4>2, <5>1 DEF Queued
      <4>3. inbox'[i][p] = inbox[i][p] \/ inbox'[i][p] = Append(inbox[i][p], m)
        BY <1>1, <1>4
      <4> QED
        BY <4>1, <4>2, <4>3
    <3>2. Queued(inbox, x) => Queued(inbox', x)
      BY <3>1 DEF Queued
    <3> QED
      BY <1>1, <3>2 DEF CopyParts, Queued, Routing, RowOf, KnownRow, SelectedBy
  <2> QED
    BY <2>1, <2>2, CopyHasParts
<1>8. {x \in sent : CopyLeft(x)}' \in
        {{x \in sent : CopyLeft(x)}, {x \in sent : CopyLeft(x)} \cup {m}}
  <2>1. CASE CopyLeft(m)'
    BY <1>1, <1>2, <1>7, <2>1
  <2>2. CASE ~CopyLeft(m)'
    BY <1>1, <1>2, <1>7, <2>2
  <2> QED
    BY <2>1, <2>2
<1>9. {x \in sent : Undisturbed(x)}' \in
        {{x \in sent : Undisturbed(x)}, {x \in sent : Undisturbed(x)} \cup {m}}
  BY <1>1, <1>3
<1>10. m \in {x \in sent : Undisturbed(x)}' => m \in {x \in sent : CopyLeft(x)}'
  BY <1>3, <1>6
<1> QED
  BY <1>1, <1>2, <1>8, <1>9, <1>10 DEF Service!Send

LEMMA StepDelivers ==
    ASSUME CopiesInv, StoredWhenGone, StoredWhenGone', [Next]_vars
    PROVE  Service!Next
<1>1. CASE UNCHANGED << sent, history >>
  BY <1>1, GiveUpStep DEF Service!Next
<1>2. ASSUME NEW s \in Sessions, ImportRow(s) \/ ReceiveMessage(s)
      PROVE  Service!Next
  BY <1>2, StoreStep DEF Service!Next
<1>3. ASSUME NEW s \in Sessions, NEW v \in Users, Send(s, v)
      PROVE  Service!Next
  BY <1>3, SendStep DEF Service!Next
<1> QED
  BY <1>1, <1>2, <1>3, SentWriters, StoreWriters

LEMMA InitDelivers ==
    ASSUME Init
    PROVE  Service!Init
BY DEF Init, Service!Init

(***************************************************************************)
(* The servers, the table pending and the clients' logins together         *)
(* implement Delivery (server.py, client.py): the detailed steps store     *)
(* only what was sent and is still left, once if nothing has disturbed it, *)
(* and give up only what is stored or disturbed.                           *)
(***************************************************************************)
THEOREM ServersDeliver == Spec => ImplementsDelivery
<1>1. Init /\ TypeOK => CopiesInv /\ CopiesSingle
  BY CopiesInit
<1>2. CopiesInv /\ CopiesSingle /\ TypeOK' /\ [Next]_vars => CopiesInv' /\ CopiesSingle'
  BY CopiesStep, CopiesSingleStep
<1>3. CopiesInv /\ CopiesSingle => StoredWhenGone
  BY StoredOrLeft
<1>4. CopiesInv /\ StoredWhenGone /\ StoredWhenGone' /\ [Next]_vars => Service!Next
  BY StepDelivers
<1>5. Init => Service!Init
  BY InitDelivers
<1> QED
  BY <1>1, <1>2, <1>3, <1>4, <1>5, TypeCorrect, PTL DEF Spec, ImplementsDelivery,
         Service!Spec

-----------------------------------------------------------------------------

(***************************************************************************)
(* The order of messages.  Of a sequence only the messages of one sender   *)
(* to one recipient are looked at, the two who log in in sessions s and t. *)
(***************************************************************************)
Between(s, t, m) == m.from = UserOf[s] /\ m.to = UserOf[t]

Ids(s, t, q) == {q[n].id : n \in {n \in DOMAIN q : Between(s, t, q[n])}}

Rising(s, t, q) ==
    \A x, y \in DOMAIN q :
        x < y /\ Between(s, t, q[x]) /\ Between(s, t, q[y]) => q[x].id < q[y].id

\* The messages of frames and of rows.
Carries(s, t, f) == f.kind # "count" /\ Between(s, t, f.msg)
FrameIds(s, t, q) == {q[n].msg.id : n \in {n \in DOMAIN q : Carries(s, t, q[n])}}

FramesRising(s, t, q) ==
    \A x, y \in DOMAIN q :
        x < y /\ Carries(s, t, q[x]) /\ Carries(s, t, q[y]) => q[x].msg.id < q[y].msg.id

RowIds(s, t, q) == {q[n].msg.id : n \in {n \in DOMAIN q : Between(s, t, q[n].msg)}}

RowsRising(s, t, q) ==
    \A x, y \in DOMAIN q :
        x < y /\ Between(s, t, q[x].msg) /\ Between(s, t, q[y].msg)
          => q[x].msg.id < q[y].msg.id

LEMMA NothingRises ==
    ASSUME NEW s, NEW t
    PROVE  /\ Rising(s, t, << >>) /\ Ids(s, t, << >>) = {}
           /\ FramesRising(s, t, << >>) /\ FrameIds(s, t, << >>) = {}
           /\ RowsRising(s, t, << >>) /\ RowIds(s, t, << >>) = {}
BY DEF Rising, Ids, FramesRising, FrameIds, RowsRising, RowIds

\* The tail of a queue, whose head comes before it ...
LEMMA TailRises ==
    ASSUME NEW s, NEW t, NEW q \in Seq(Message), q # << >>, Rising(s, t, q)
    PROVE  /\ Rising(s, t, Tail(q))
           /\ Ids(s, t, Tail(q)) \subseteq Ids(s, t, q)
           /\ Between(s, t, Head(q)) =>
                /\ Head(q).id \in Ids(s, t, q)
                /\ \A y \in Ids(s, t, Tail(q)) : Head(q).id < y
<1>1. /\ 1 \in DOMAIN q /\ Head(q) = q[1]
      /\ \A n \in DOMAIN Tail(q) : n + 1 \in DOMAIN q /\ Tail(q)[n] = q[n + 1] /\ 1 < n + 1
      /\ \A x, y \in DOMAIN Tail(q) : x < y => x + 1 < y + 1
  OBVIOUS
<1> DEFINE r == Tail(q)
           h == Head(q)
<1> HIDE DEF r, h
<1>2. /\ 1 \in DOMAIN q /\ h = q[1]
      /\ \A n \in DOMAIN r : n + 1 \in DOMAIN q /\ r[n] = q[n + 1] /\ 1 < n + 1
      /\ \A x, y \in DOMAIN r : x < y => x + 1 < y + 1
  BY <1>1 DEF r, h
<1>3. Rising(s, t, r)
  BY <1>2 DEF Rising
<1>4. Ids(s, t, r) \subseteq Ids(s, t, q)
  BY <1>2 DEF Ids
<1>5. ASSUME Between(s, t, h)
      PROVE  /\ h.id \in Ids(s, t, q)
             /\ \A y \in Ids(s, t, r) : h.id < y
  BY <1>2, <1>5 DEF Ids, Rising
<1> QED
  BY <1>3, <1>4, <1>5 DEF r, h

LEMMA TailFramesRise ==
    ASSUME NEW s, NEW t, NEW q \in Seq(Frame), q # << >>, FramesRising(s, t, q)
    PROVE  /\ FramesRising(s, t, Tail(q))
           /\ FrameIds(s, t, Tail(q)) \subseteq FrameIds(s, t, q)
           /\ Carries(s, t, Head(q)) =>
                /\ Head(q).msg.id \in FrameIds(s, t, q)
                /\ \A y \in FrameIds(s, t, Tail(q)) : Head(q).msg.id < y
<1>1. /\ 1 \in DOMAIN q /\ Head(q) = q[1]
      /\ \A n \in DOMAIN Tail(q) : n + 1 \in DOMAIN q /\ Tail(q)[n] = q[n + 1] /\ 1 < n + 1
      /\ \A x, y \in DOMAIN Tail(q) : x < y => x + 1 < y + 1
  OBVIOUS
<1> DEFINE r == Tail(q)
           h == Head(q)
<1> HIDE DEF r, h
<1>2. /\ 1 \in DOMAIN q /\ h = q[1]
      /\ \A n \in DOMAIN r : n + 1 \in DOMAIN q /\ r[n] = q[n + 1] /\ 1 < n + 1
      /\ \A x, y \in DOMAIN r : x < y => x + 1 < y + 1
  BY <1>1 DEF r, h
<1>3. FramesRising(s, t, r)
  BY <1>2 DEF FramesRising
<1>4. FrameIds(s, t, r) \subseteq FrameIds(s, t, q)
  BY <1>2 DEF FrameIds
<1>5. ASSUME Carries(s, t, h)
      PROVE  /\ h.msg.id \in FrameIds(s, t, q)
             /\ \A y \in FrameIds(s, t, r) : h.msg.id < y
  BY <1>2, <1>5 DEF FrameIds, FramesRising
<1> QED
  BY <1>3, <1>4, <1>5 DEF r, h

LEMMA TailRowsRise ==
    ASSUME NEW s, NEW t, NEW q \in Seq(Row), q # << >>, RowsRising(s, t, q)
    PROVE  /\ RowsRising(s, t, Tail(q))
           /\ RowIds(s, t, Tail(q)) \subseteq RowIds(s, t, q)
           /\ Between(s, t, Head(q).msg) =>
                /\ Head(q).msg.id \in RowIds(s, t, q)
                /\ \A y \in RowIds(s, t, Tail(q)) : Head(q).msg.id < y
<1>1. /\ 1 \in DOMAIN q /\ Head(q) = q[1]
      /\ \A n \in DOMAIN Tail(q) : n + 1 \in DOMAIN q /\ Tail(q)[n] = q[n + 1] /\ 1 < n + 1
      /\ \A x, y \in DOMAIN Tail(q) : x < y => x + 1 < y + 1
  OBVIOUS
<1> DEFINE r == Tail(q)
           h == Head(q)
<1> HIDE DEF r, h
<1>2. /\ 1 \in DOMAIN q /\ h = q[1]
      /\ \A n \in DOMAIN r : n + 1 \in DOMAIN q /\ r[n] = q[n + 1] /\ 1 < n + 1
      /\ \A x, y \in DOMAIN r : x < y => x + 1 < y + 1
  BY <1>1 DEF r, h
<1>3. RowsRising(s, t, r)
  BY <1>2 DEF RowsRising
<1>4. RowIds(s, t, r) \subseteq RowIds(s, t, q)
  BY <1>2 DEF RowIds
<1>5. ASSUME Between(s, t, h.msg)
      PROVE  /\ h.msg.id \in RowIds(s, t, q)
             /\ \A y \in RowIds(s, t, r) : h.msg.id < y
  BY <1>2, <1>5 DEF RowIds, RowsRising
<1> QED
  BY <1>3, <1>4, <1>5 DEF r, h

\* ... and what is appended.
LEMMA AppendRises ==
    ASSUME NEW s, NEW t, NEW q \in Seq(Message), NEW m \in Message, Rising(s, t, q),
           Between(s, t, m) => \A x \in Ids(s, t, q) : x < m.id
    PROVE  /\ Rising(s, t, Append(q, m))
           /\ Ids(s, t, Append(q, m)) =
                Ids(s, t, q) \cup IF Between(s, t, m) THEN {m.id} ELSE {}
<1>1. /\ DOMAIN Append(q, m) = DOMAIN q \cup {Len(q) + 1}
      /\ \A n \in DOMAIN q : Append(q, m)[n] = q[n] /\ n < Len(q) + 1 /\ n \in Int
      /\ Append(q, m)[Len(q) + 1] = m /\ Len(q) + 1 \in Int
  OBVIOUS
<1> DEFINE r == Append(q, m)
           z == Len(q) + 1
<1> HIDE DEF r, z
<1>2. /\ DOMAIN r = DOMAIN q \cup {z}
      /\ \A n \in DOMAIN q : r[n] = q[n] /\ n < z /\ n \in Int
      /\ r[z] = m /\ z \in Int
  BY <1>1 DEF r, z
<1>3. Rising(s, t, r)
  BY <1>2 DEF Rising, Ids
<1>4. CASE Between(s, t, m)
  <2>1. Ids(s, t, r) = Ids(s, t, q) \cup {m.id}
    BY <1>2, <1>4 DEF Ids
  <2> QED
    BY <1>3, <1>4, <2>1 DEF r
<1>5. CASE ~Between(s, t, m)
  <2>1. Ids(s, t, r) = Ids(s, t, q)
    BY <1>2, <1>5 DEF Ids
  <2> QED
    BY <1>3, <1>5, <2>1 DEF r
<1> QED
  BY <1>4, <1>5

LEMMA AppendFramesRise ==
    ASSUME NEW s, NEW t, NEW q \in Seq(Frame), NEW f \in Frame, FramesRising(s, t, q),
           Carries(s, t, f) => \A x \in FrameIds(s, t, q) : x < f.msg.id
    PROVE  /\ FramesRising(s, t, Append(q, f))
           /\ FrameIds(s, t, Append(q, f)) =
                FrameIds(s, t, q) \cup IF Carries(s, t, f) THEN {f.msg.id} ELSE {}
<1>1. /\ DOMAIN Append(q, f) = DOMAIN q \cup {Len(q) + 1}
      /\ \A n \in DOMAIN q : Append(q, f)[n] = q[n] /\ n < Len(q) + 1 /\ n \in Int
      /\ Append(q, f)[Len(q) + 1] = f /\ Len(q) + 1 \in Int
  OBVIOUS
<1> DEFINE r == Append(q, f)
           z == Len(q) + 1
<1> HIDE DEF r, z
<1>2. /\ DOMAIN r = DOMAIN q \cup {z}
      /\ \A n \in DOMAIN q : r[n] = q[n] /\ n < z /\ n \in Int
      /\ r[z] = f /\ z \in Int
  BY <1>1 DEF r, z
<1>3. FramesRising(s, t, r)
  BY <1>2 DEF FramesRising, FrameIds
<1>4. CASE Carries(s, t, f)
  <2>1. FrameIds(s, t, r) = FrameIds(s, t, q) \cup {f.msg.id}
    BY <1>2, <1>4 DEF FrameIds
  <2> QED
    BY <1>3, <1>4, <2>1 DEF r
<1>5. CASE ~Carries(s, t, f)
  <2>1. FrameIds(s, t, r) = FrameIds(s, t, q)
    BY <1>2, <1>5 DEF FrameIds
  <2> QED
    BY <1>3, <1>5, <2>1 DEF r
<1> QED
  BY <1>4, <1>5

-----------------------------------------------------------------------------

(***************************************************************************)
(* What a peer has written to a server and the server has not handled yet: *)
(* the messages in the receive buffer, then those on the socket.           *)
(***************************************************************************)
Line(b, q) == b \o q

LEMMA SameElements ==
    ASSUME NEW S, NEW p \in Seq(S), NEW q \in Seq(S), Len(p) = Len(q),
           \A n \in 1 .. Len(p) : p[n] = q[n]
    PROVE  p = q
OBVIOUS

LEMMA JoinElements ==
    ASSUME NEW b \in Seq(Message), NEW q \in Seq(Message)
    PROVE  /\ b \o q \in Seq(Message) /\ Len(b \o q) = Len(b) + Len(q)
           /\ \A n \in 1 .. Len(b) : (b \o q)[n] = b[n]
           /\ \A n \in Len(b) + 1 .. Len(b) + Len(q) : (b \o q)[n] = q[n - Len(b)]
OBVIOUS

LEMMA LineExtended ==
    ASSUME NEW b \in Seq(Message), NEW q \in Seq(Message), NEW m \in Message
    PROVE  Line(b, Append(q, m)) = Append(Line(b, q), m)
<1> DEFINE x == b \o Append(q, m)
           y == Append(b \o q, m)
<1>1. x \in Seq(Message) /\ y \in Seq(Message) /\ Len(x) = Len(y)
  OBVIOUS
<1>2. \A n \in 1 .. Len(x) : x[n] = y[n]
  OBVIOUS
<1>3. x = y
  <2> HIDE DEF x, y
  <2> QED
    BY <1>1, <1>2, SameElements
<1> QED
  BY <1>3 DEF Line

LEMMA LineRead ==
    ASSUME NEW b \in Seq(Message), NEW q \in Seq(Message), NEW k \in 1 .. Len(q)
    PROVE  /\ Line(b, q) # << >>
           /\ Head(b \o SubSeq(q, 1, k)) = Head(Line(b, q))
           /\ Line(Tail(b \o SubSeq(q, 1, k)), SubSeq(q, k + 1, Len(q))) = Tail(Line(b, q))
<1> DEFINE r == SubSeq(q, 1, k)
           z == SubSeq(q, k + 1, Len(q))
           l == b \o q
           e == b \o r
<1>1. /\ r \in Seq(Message) /\ Len(r) = k /\ \A n \in 1 .. k : r[n] = q[n]
      /\ z \in Seq(Message) /\ Len(z) = Len(q) - k /\ \A n \in 1 .. Len(q) - k : z[n] = q[k + n]
  OBVIOUS
<1>2. /\ l \in Seq(Message) /\ Len(l) = Len(b) + Len(q)
      /\ \A n \in 1 .. Len(b) : l[n] = b[n]
      /\ \A n \in Len(b) + 1 .. Len(b) + Len(q) : l[n] = q[n - Len(b)]
  OBVIOUS
<1> HIDE DEF r, z, l
<1>3. /\ e \in Seq(Message) /\ Len(e) = Len(b) + k
      /\ \A n \in 1 .. Len(b) : e[n] = b[n]
      /\ \A n \in Len(b) + 1 .. Len(b) + k : e[n] = r[n - Len(b)]
  BY <1>1, JoinElements
<1> HIDE DEF e
<1>4. \A n \in 1 .. Len(b) + k : e[n] = l[n]
  <2> SUFFICES ASSUME NEW n \in 1 .. Len(b) + k
               PROVE  e[n] = l[n]
    OBVIOUS
  <2>1. CASE n \in 1 .. Len(b)
    BY <1>2, <1>3, <2>1
  <2>2. CASE n \notin 1 .. Len(b)
    <3>1. n - Len(b) \in 1 .. k /\ n \in Len(b) + 1 .. Len(b) + k
      BY <2>2
    <3>2. n \in Len(b) + 1 .. Len(b) + Len(q)
      BY <3>1
    <3>3. e[n] = r[n - Len(b)] /\ r[n - Len(b)] = q[n - Len(b)]
      BY <1>1, <1>3, <3>1
    <3>4. l[n] = q[n - Len(b)]
      BY <1>2, <3>2
    <3> QED
      BY <3>3, <3>4
  <2> QED
    BY <2>1, <2>2
<1>5. l # << >> /\ e # << >> /\ Head(e) = Head(l)
  BY <1>2, <1>3, <1>4
<1> DEFINE x == Tail(e) \o z
           y == Tail(l)
           te == Tail(e)
<1>6. te \in Seq(Message) /\ Len(te) = Len(b) + k - 1 /\ \A n \in 1 .. Len(te) : te[n] = e[n + 1]
  BY <1>3, <1>5
<1>7. y \in Seq(Message) /\ Len(y) = Len(b) + Len(q) - 1 /\ \A n \in 1 .. Len(y) : y[n] = l[n + 1]
  BY <1>2, <1>5
<1> HIDE DEF te, y
<1>8. /\ x \in Seq(Message) /\ Len(x) = Len(te) + Len(z)
      /\ \A n \in 1 .. Len(te) : x[n] = te[n]
      /\ \A n \in Len(te) + 1 .. Len(te) + Len(z) : x[n] = z[n - Len(te)]
  <2>1. te \in Seq(Message) /\ z \in Seq(Message)
    BY <1>1, <1>6
  <2>2. x = te \o z
    BY DEF te
  <2> HIDE DEF x
  <2> QED
    BY <2>1, <2>2, JoinElements
<1> HIDE DEF x
<1>9. \A n \in 1 .. Len(x) : x[n] = y[n]
  <2> SUFFICES ASSUME NEW n \in 1 .. Len(x)
               PROVE  x[n] = y[n]
    OBVIOUS
  <2>1. Len(x) = Len(y)
    BY <1>1, <1>6, <1>7, <1>8
  <2>2. y[n] = l[n + 1]
    BY <1>7, <2>1
  <2>3. CASE n \in 1 .. Len(te)
    <3>1. x[n] = e[n + 1] /\ n + 1 \in 1 .. Len(b) + k
      BY <1>6, <1>8, <2>3
    <3> QED
      BY <1>4, <2>2, <3>1
  <2>4. CASE n \notin 1 .. Len(te)
    <3>1. n \in Len(te) + 1 .. Len(te) + Len(z)
      BY <1>6, <1>8, <1>1, <2>4
    <3>2. n - Len(te) \in 1 .. Len(q) - k
      BY <1>1, <1>6, <3>1
    <3>3. x[n] = q[k + (n - Len(te))]
      BY <1>1, <1>8, <3>1, <3>2
    <3>4. n + 1 \in Len(b) + 1 .. Len(b) + Len(q)
      BY <1>1, <1>6, <3>1
    <3>5. l[n + 1] = q[n + 1 - Len(b)]
      BY <1>2, <3>4
    <3>6. n + 1 - Len(b) = k + (n - Len(te))
      BY <1>6
    <3> QED
      BY <2>2, <3>3, <3>5, <3>6
  <2> QED
    BY <2>3, <2>4
<1>10. x = y
  <2>1. Len(x) = Len(y) /\ x \in Seq(Message) /\ y \in Seq(Message)
    BY <1>1, <1>6, <1>7, <1>8
  <2> QED
    BY <1>9, <2>1, SameElements
<1> QED
  BY <1>5, <1>10 DEF x, y, e, l, r, z, Line

LEMMA LineTyped ==
    ASSUME TypeOK, NEW i \in Servers, NEW p \in Peers
    PROVE  Line(recvBuffer[i][p], inbox[i][p]) \in Seq(Message)
<1>1. recvBuffer[i][p] \in Seq(Message) /\ inbox[i][p] \in Seq(Message)
  BY DEF TypeOK
<1> QED
  BY <1>1 DEF Line

-----------------------------------------------------------------------------

(***************************************************************************)
(* The way of a message, by the ids at its stages: H stored, F on the      *)
(* socket of the recipient, W waiting in the table or in the drain, R      *)
(* routed by the server of the recipient, L on the link, Q routed by the   *)
(* server of the sender, M from the sender.  Nothing overtakes.            *)
(***************************************************************************)
Under(X, Y) == \A x \in X : \A y \in Y : x < y

Chain(H, F, W, R, L, Q, M) ==
    /\ Under(H, F) /\ Under(H, W) /\ Under(H, R) /\ Under(H, L) /\ Under(H, Q) /\ Under(H, M)
    /\ Under(F, W) /\ Under(F, R) /\ Under(F, L) /\ Under(F, Q) /\ Under(F, M)
    /\ Under(W, R) /\ Under(W, L) /\ Under(W, Q) /\ Under(W, M)
    /\ Under(R, L) /\ Under(R, Q) /\ Under(R, M)
    /\ Under(L, Q) /\ Under(L, M)
    /\ Under(Q, M)

LEMMA ChainShrinks ==
    ASSUME NEW H, NEW F, NEW W, NEW R, NEW L, NEW Q, NEW M, Chain(H, F, W, R, L, Q, M),
           NEW H2 \in SUBSET H, NEW F2 \in SUBSET F, NEW W2 \in SUBSET W, NEW R2 \in SUBSET R,
           NEW L2 \in SUBSET L, NEW Q2 \in SUBSET Q, NEW M2 \in SUBSET M
    PROVE  Chain(H2, F2, W2, R2, L2, Q2, M2)
<1>1. \A X, Y : \A X2 \in SUBSET X : \A Y2 \in SUBSET Y : Under(X, Y) => Under(X2, Y2)
  BY DEF Under
<1> QED
  BY <1>1 DEF Chain

\* The steps of a message with id x from one stage to another.
LEMMA ChainRead ==
    ASSUME NEW H, NEW F, NEW W, NEW R, NEW L, NEW M, Chain(H, F, W, R, L, {}, M),
           NEW x \in M, NEW M2 \in SUBSET M, \A y \in M2 : x < y
    PROVE  Chain(H, F, W, R, L, {x}, M2)
BY DEF Chain, Under

LEMMA ChainReadFromLink ==
    ASSUME NEW H, NEW F, NEW W, NEW L, NEW Q, NEW M, Chain(H, F, W, {}, L, Q, M),
           NEW x \in L, NEW L2 \in SUBSET L, \A y \in L2 : x < y
    PROVE  Chain(H, F, W, {x}, L2, Q, M)
BY DEF Chain, Under

LEMMA ChainForwarded ==
    ASSUME NEW H, NEW F, NEW W, NEW R, NEW L, NEW M, NEW x, Chain(H, F, W, R, L, {x}, M)
    PROVE  Chain(H, F, W, R, L \cup {x}, {}, M)
BY DEF Chain, Under

LEMMA ChainWrittenFromLink ==
    ASSUME NEW H, NEW F, NEW L, NEW Q, NEW M, NEW x, Chain(H, F, {}, {x}, L, Q, M)
    PROVE  Chain(H, F \cup {x}, {}, {}, L, Q, M)
BY DEF Chain, Under

LEMMA ChainWritten ==
    ASSUME NEW H, NEW F, NEW M, NEW x, Chain(H, F, {}, {}, {}, {x}, M)
    PROVE  Chain(H, F \cup {x}, {}, {}, {}, {}, M)
BY DEF Chain, Under

LEMMA ChainInserted ==
    ASSUME NEW H, NEW F, NEW W, NEW M, NEW x, Chain(H, F, W, {}, {}, {x}, M)
    PROVE  Chain(H, F, W \cup {x}, {}, {}, {}, M)
BY DEF Chain, Under

LEMMA ChainRowWritten ==
    ASSUME NEW H, NEW F, NEW W, NEW R, NEW L, NEW Q, NEW M, Chain(H, F, W, R, L, Q, M),
           NEW x \in W, NEW W2 \in SUBSET W, \A y \in W2 : x < y
    PROVE  Chain(H, F \cup {x}, W2, R, L, Q, M)
BY DEF Chain, Under

LEMMA ChainStored ==
    ASSUME NEW H, NEW F, NEW W, NEW R, NEW L, NEW Q, NEW M, Chain(H, F, W, R, L, Q, M),
           NEW x \in F, NEW F2 \in SUBSET F, \A y \in F2 : x < y
    PROVE  Chain(H \cup {x}, F2, W, R, L, Q, M)
BY DEF Chain, Under

LEMMA ChainSent ==
    ASSUME NEW H, NEW F, NEW W, NEW R, NEW L, NEW Q, NEW M, Chain(H, F, W, R, L, Q, M),
           NEW x, \A y \in H \cup F \cup W \cup R \cup L \cup Q : y < x
    PROVE  Chain(H, F, W, R, L, Q, M \cup {x})
BY DEF Chain, Under

-----------------------------------------------------------------------------

InLine(i, p) == Line(recvBuffer[i][p], inbox[i][p])

\* One read takes the first message of the line.
TakesFirst(i, p) ==
    /\ InLine(i, p) # << >>
    /\ InLine(i, p)' = Tail(InLine(i, p))
    /\ \E m \in Message :
         /\ m = Head(InLine(i, p))
         /\ handler' = [handler EXCEPT ![i] = Route(p, m, connectedto[m.to])]

LEMMA LineTaken ==
    ASSUME TypeOK, NEW i \in Servers, NEW p \in Peers, ReadMessage(i, p)
    PROVE  TakesFirst(i, p)
<1>1. /\ recvBuffer[i][p] \in Seq(Message) /\ inbox[i][p] \in Seq(Message)
      /\ recvBuffer \in [Servers -> [Peers -> Seq(Message)]]
      /\ inbox \in [Servers -> [Peers -> Seq(Message)]]
  BY DEF TypeOK
<1>2. PICK k \in 1 .. Len(inbox[i][p]) :
        LET read == recvBuffer[i][p] \o SubSeq(inbox[i][p], 1, k)
        IN  /\ handler' = [handler EXCEPT
                             ![i] = Route(p, Head(read), connectedto[Head(read).to])]
            /\ recvBuffer' = [recvBuffer EXCEPT ![i][p] = Leftover(read)]
            /\ inbox' = [inbox EXCEPT ![i][p] = SubSeq(@, k + 1, Len(@))]
  BY DEF ReadMessage
<1> PICK b \in Seq(Message), q \in Seq(Message) : b = recvBuffer[i][p] /\ q = inbox[i][p]
  BY <1>1
<1> DEFINE read == b \o SubSeq(q, 1, k)
<1>3. /\ Line(b, q) # << >> /\ Head(read) = Head(Line(b, q))
      /\ Line(Tail(read), SubSeq(q, k + 1, Len(q))) = Tail(Line(b, q))
  BY <1>2, LineRead
<1>4. /\ handler' = [handler EXCEPT ![i] = Route(p, Head(read), connectedto[Head(read).to])]
      /\ recvBuffer' = [recvBuffer EXCEPT ![i][p] = Tail(read)]
      /\ inbox' = [inbox EXCEPT ![i][p] = SubSeq(@, k + 1, Len(@))]
  BY <1>2 DEF Leftover
<1> HIDE DEF read
<1>5. recvBuffer'[i][p] = Tail(read) /\ inbox'[i][p] = SubSeq(q, k + 1, Len(q))
  BY <1>1, <1>4
<1>6. Line(b, q) \in Seq(Message)
  BY DEF Line
<1>7. Head(Line(b, q)) \in Message
  BY <1>3, <1>6, HeadTail
<1>8. InLine(i, p)' = Line(recvBuffer'[i][p], inbox'[i][p])
  BY DEF InLine
<1>9. InLine(i, p) = Line(b, q)
  BY DEF InLine
<1>10. InLine(i, p)' = Tail(InLine(i, p))
  BY <1>3, <1>5, <1>8, <1>9
<1>11. handler' = [handler EXCEPT ![i] = Route(p, Head(InLine(i, p)), connectedto[Head(InLine(i, p)).to])]
  BY <1>3, <1>4, <1>9
<1>12. \E m \in Message : /\ m = Head(InLine(i, p))
                          /\ handler' = [handler EXCEPT ![i] = Route(p, m, connectedto[m.to])]
  BY <1>7, <1>9, <1>11
<1>13. InLine(i, p) # << >>
  BY <1>3, <1>9
<1> QED
  BY <1>10, <1>12, <1>13 DEF TakesFirst

\* What a step may do to a line.
LineMoves(i, p) ==
    \/ InLine(i, p)' = InLine(i, p)
    \/ InLine(i, p)' = << >>
    \/ /\ ReadMessage(i, p)
       /\ InLine(i, p) # << >>
       /\ InLine(i, p)' = Tail(InLine(i, p))
    \/ \E v \in Users : /\ p \in Sessions /\ Send(p, v) /\ i = home[p]
                        /\ InLine(i, p)' = Append(InLine(i, p), NewMessage(p, v))
    \/ /\ p \in Servers /\ RouteForward(p) /\ handler[p].seen = i
       /\ InLine(i, p)' = Append(InLine(i, p), handler[p].msg)

LEMMA LineStep ==
    ASSUME TypeOK, [Next]_vars, NEW i \in Servers, NEW p \in Peers
    PROVE  LineMoves(i, p)
<1>1. /\ recvBuffer \in [Servers -> [Peers -> Seq(Message)]]
      /\ inbox \in [Servers -> [Peers -> Seq(Message)]]
      /\ handler \in [Servers -> Handler] /\ home \in [Sessions -> Servers]
  BY DEF TypeOK
<1>2. /\ InLine(i, p) = Line(recvBuffer[i][p], inbox[i][p])
      /\ InLine(i, p)' = Line(recvBuffer'[i][p], inbox'[i][p])
  BY DEF InLine
<1>3. ASSUME inbox'[i][p] = inbox[i][p], recvBuffer'[i][p] = recvBuffer[i][p]
      PROVE  LineMoves(i, p)
  BY <1>2, <1>3 DEF LineMoves
<1>4. ASSUME inbox'[i][p] = << >>, recvBuffer'[i][p] = << >>
      PROVE  LineMoves(i, p)
  <2>1. Line(<< >>, << >>) = << >>
    BY DEF Line
  <2> QED
    BY <1>2, <1>4, <2>1 DEF LineMoves
<1>5. ASSUME NEW s \in Sessions, NEW v \in Users, Send(s, v)
      PROVE  LineMoves(i, p)
  <2> PICK m \in Message : m = NewMessage(s, v)
    BY SessionsAssumption DEF NewMessage, Message, TypeOK
  <2>1. /\ recvBuffer' = recvBuffer
        /\ inbox' = inbox \/ inbox' = [inbox EXCEPT ![home[s]][s] = Append(@, m)]
    BY <1>5 DEF Send, NewMessage
  <2>2. CASE inbox'[i][p] = inbox[i][p]
    BY <1>3, <2>1, <2>2
  <2>3. CASE inbox'[i][p] # inbox[i][p]
    <3>1. p = s /\ i = home[s] /\ inbox'[i][p] = Append(inbox[i][p], m)
      <4> PICK k \in Servers : k = home[s]
        BY <1>1
      <4>1. inbox' = [inbox EXCEPT ![k][s] = Append(@, m)]
        BY <2>1, <2>3
      <4>2. k = i /\ p = s
        BY <1>1, <2>3, <4>1
      <4> QED
        BY <1>1, <4>1, <4>2
    <3>2. PICK b \in Seq(Message), q \in Seq(Message) : b = recvBuffer[i][p] /\ q = inbox[i][p]
      BY <1>1
    <3>3. Line(b, Append(q, m)) = Append(Line(b, q), m)
      BY LineExtended
    <3>4. InLine(i, p)' = Append(InLine(i, p), m)
      BY <1>2, <2>1, <3>1, <3>2, <3>3
    <3> QED
      BY <1>5, <3>1, <3>4 DEF LineMoves
  <2> QED
    BY <2>2, <2>3
<1>6. ASSUME NEW k \in Servers, RouteForward(k)
      PROVE  LineMoves(i, p)
  <2>1. handler[k].step = "route"
    BY <1>6 DEF RouteForward, Elsewhere
  <2> PICK m \in Message : m = handler[k].msg
    BY <1>1, <2>1, HandlerFields
  <2>2. /\ recvBuffer' = recvBuffer
        /\ inbox' = inbox \/ inbox' = [inbox EXCEPT ![handler[k].seen][k] = Append(@, m)]
    BY <1>6 DEF RouteForward
  <2>3. CASE inbox'[i][p] = inbox[i][p]
    BY <1>3, <2>2, <2>3
  <2>4. CASE inbox'[i][p] # inbox[i][p]
    <3>1. p = k /\ i = handler[k].seen /\ inbox'[i][p] = Append(inbox[i][p], m)
      <4> PICK j : j = handler[k].seen
        OBVIOUS
      <4>1. inbox' = [inbox EXCEPT ![j][k] = Append(@, m)]
        BY <2>2, <2>4
      <4>2. j = i /\ p = k
        BY <1>1, <2>4, <4>1
      <4> QED
        BY <1>1, <4>1, <4>2
    <3>2. PICK b \in Seq(Message), q \in Seq(Message) : b = recvBuffer[i][p] /\ q = inbox[i][p]
      BY <1>1
    <3>3. Line(b, Append(q, m)) = Append(Line(b, q), m)
      BY LineExtended
    <3>4. InLine(i, p)' = Append(InLine(i, p), m)
      BY <1>2, <2>2, <3>1, <3>2, <3>3
    <3> QED
      BY <1>6, <3>1, <3>4 DEF LineMoves
  <2> QED
    BY <2>3, <2>4
<1>7. ASSUME NEW k \in Servers, NEW q \in Peers, ReadMessage(k, q)
      PROVE  LineMoves(i, p)
  <2>1. CASE k = i /\ q = p
    <3>1. ReadMessage(i, p)
      BY <1>7, <2>1
    <3>2. InLine(i, p) # << >> /\ InLine(i, p)' = Tail(InLine(i, p))
      BY <3>1, LineTaken DEF TakesFirst
    <3> QED
      BY <3>1, <3>2 DEF LineMoves
  <2>2. CASE ~(k = i /\ q = p)
    <3>1. PICK x, y : /\ recvBuffer' = [recvBuffer EXCEPT ![k][q] = x]
                      /\ inbox' = [inbox EXCEPT ![k][q] = y]
      BY <1>7 DEF ReadMessage
    <3>2. inbox'[i][p] = inbox[i][p] /\ recvBuffer'[i][p] = recvBuffer[i][p]
      BY <1>1, <2>2, <3>1
    <3> QED
      BY <1>3, <3>2
  <2> QED
    BY <2>1, <2>2
<1>8. ASSUME NEW k \in Servers, NEW q, Discard(k, q)
      PROVE  LineMoves(i, p)
  <2>1. /\ inbox' = [inbox EXCEPT ![k][q] = << >>]
        /\ recvBuffer' = [recvBuffer EXCEPT ![k][q] = << >>]
    BY <1>8 DEF Discard
  <2>2. CASE k = i /\ q = p
    <3>1. inbox'[i][p] = << >> /\ recvBuffer'[i][p] = << >>
      BY <1>1, <2>1, <2>2
    <3> QED
      BY <1>4, <3>1
  <2>3. CASE ~(k = i /\ q = p)
    <3>1. inbox'[i][p] = inbox[i][p] /\ recvBuffer'[i][p] = recvBuffer[i][p]
      BY <1>1, <2>1, <2>3
    <3> QED
      BY <1>3, <3>1
  <2> QED
    BY <2>2, <2>3
<1>9. ASSUME NEW k \in Servers, Crash(k)
      PROVE  LineMoves(i, p)
  <2>1. /\ inbox' = [inbox EXCEPT ![k] = [x \in Peers |-> << >>]]
        /\ recvBuffer' = [recvBuffer EXCEPT ![k] = [x \in Peers |-> << >>]]
    BY <1>9 DEF Crash
  <2>2. CASE k = i
    <3>1. inbox'[i][p] = << >> /\ recvBuffer'[i][p] = << >>
      BY <1>1, <2>1, <2>2
    <3> QED
      BY <1>4, <3>1
  <2>3. CASE k # i
    <3>1. inbox'[i][p] = inbox[i][p] /\ recvBuffer'[i][p] = recvBuffer[i][p]
      BY <1>1, <2>1, <2>3
    <3> QED
      BY <1>3, <3>1
  <2> QED
    BY <2>2, <2>3
<1>10. ASSUME UNCHANGED << inbox, recvBuffer >>
       PROVE  LineMoves(i, p)
  BY <1>3, <1>10
<1>11. ASSUME NEW s \in Sessions, ClientStep(s) \/ Exit(s) \/ \E k \in Servers : Allocate(s, k)
       PROVE  UNCHANGED << inbox, recvBuffer >>
  BY <1>11 DEF ClientStep, Connect, Greet, ReadCount, ImportRow, ReceiveMessage, AskUser,
         Exit, Allocate
<1>12. ASSUME NEW k \in Servers,
              \/ AcceptConnection(k) \/ NoUsername(k) \/ RegisterClient(k) \/ WriteRow(k)
              \/ DeleteRow(k) \/ RouteLocal(k) \/ RoutePending(k)
       PROVE  UNCHANGED << inbox, recvBuffer >>
  BY <1>12 DEF AcceptConnection, NoUsername, RegisterClient, WriteRow, DeleteRow,
               RouteLocal, RoutePending
<1>13. ASSUME NEW k \in Servers, RouteFails(k)
       PROVE  LineMoves(i, p)
  BY <1>8, <1>13 DEF RouteFails
<1>14. ASSUME NEW k \in Servers, NEW q \in Peers, ServeClient(k, q)
       PROVE  LineMoves(i, p)
  BY <1>7, <1>8, <1>9, <1>14 DEF ServeClient, CloseClient, OrphanServed, LinkLost
<1>15. CASE UNCHANGED vars \/ CommitAllocation
  BY <1>10, <1>15 DEF vars, CommitAllocation
<1> QED
  BY <1>5, <1>6, <1>10, <1>11, <1>12, <1>13, <1>14, <1>15 DEF Next, HandlerStep

-----------------------------------------------------------------------------

(***************************************************************************)
(* Before its registration.  Nothing has been written to a fresh session   *)
(* yet; none is fresh again.                                               *)
(***************************************************************************)
Fresh(s) ==
    \/ phase[s] \in {"start", "redirected", "connected"}
    \/ phase[s] = "greeted" /\ s2c[s] = << >>

LEMMA FreshIsEmpty ==
    ASSUME LoginInv, NEW s \in Sessions, Fresh(s)
    PROVE  /\ s2c[s] = << >>
           /\ phase[s] # "exited"
           /\ ~DrainsFor(handler[home[s]], s)
           /\ ~OnlineAt(home[s], s)
<1>1. SessionFits(s)
  BY DEF LoginInv
<1>2. s2c[s] = << >>
  BY <1>1 DEF SessionFits, FramesFit, Fresh
<1>3. phase[s] \in LoggingIn => phase[s] = "greeted"
  BY DEF Fresh, LoggingIn
<1> QED
  BY <1>1, <1>2, <1>3 DEF SessionFits, Served, Fresh

\* A frame is written to a session only by its server.
LEMMA WrittenWhere ==
    ASSUME TypeOK, LoginInv, NEW s \in Sessions, NEW i \in Servers,
           \/ WriteRow(i) /\ handler[i].ses = s
           \/ RouteLocal(i) /\ RecipientSocket(i) = s
    PROVE  ~Fresh(s) /\ i = home[s]
<1>0. handler \in [Servers -> Handler]
  BY DEF TypeOK
<1>1. DrainsFor(handler[i], s) \/ OnlineAt(i, s)
  <2>1. CASE WriteRow(i) /\ handler[i].ses = s
    BY <2>1 DEF WriteRow, DrainsFor
  <2>2. CASE RouteLocal(i) /\ RecipientSocket(i) = s
    <3>1. handler[i].step = "route"
      BY <2>2 DEF RouteLocal
    <3>2. handler[i].msg.to \in Users
      BY <1>0, <3>1, HandlerFields DEF Message
    <3> QED
      BY <2>2, <3>2 DEF RecipientSocket, OnlineAt
  <2> QED
    BY <2>1, <2>2
<1>2. i = home[s]
  BY <1>1 DEF LoginInv, SessionFits, AtHome
<1> QED
  BY <1>1, <1>2, FreshIsEmpty

LEMMA FreshBefore ==
    ASSUME TypeOK, LoginInv, [Next]_vars, NEW s \in Sessions, Fresh(s)'
    PROVE  Fresh(s)
<1>1. phase \in [Sessions -> Phases] /\ s2c \in [Sessions -> Seq(Frame)]
  BY DEF TypeOK
<1> SUFFICES ASSUME ~Fresh(s)
             PROVE  FALSE
  OBVIOUS
<1>2. CASE SessionSame(s)
  BY <1>2 DEF SessionSame, Fresh
<1>3. CASE Exit(s)
  BY <1>1, <1>3 DEF Exit, Fresh
<1>4. CASE \E k \in Servers : Allocate(s, k)
  BY <1>4 DEF Allocate, Fresh
<1>5. CASE Connect(s) \/ Greet(s)
  BY <1>5 DEF Connect, Greet, Fresh
<1>6. CASE ReadCount(s) \/ ImportRow(s)
  BY <1>1, <1>6 DEF ReadCount, ImportRow, AfterImport, Fresh
<1>7. CASE ReceiveMessage(s) \/ AskUser(s)
  BY <1>7 DEF ReceiveMessage, AskUser, Fresh
<1>8. ASSUME NEW f, WriteToClient(s, f), phase' = phase
      PROVE  FALSE
  <2>1. phase[s] = "greeted" /\ s2c[s] # << >> /\ s2c'[s] = << >>
    BY <1>8 DEF Fresh
  <2>2. s2c'[s] = Append(s2c[s], f)
    BY <1>1, <1>8, <2>1 DEF WriteToClient
  <2>3. Append(s2c[s], f) # << >>
    <3> PICK q \in Seq(Frame) : q = s2c[s]
      BY <1>1
    <3>1. Len(q) + 1 \in DOMAIN Append(q, f)
      OBVIOUS
    <3> QED
      BY <3>1
  <2> QED
    BY <2>1, <2>2, <2>3
<1>9. ASSUME NEW i \in Servers,
             \/ (RegisterClient(i) \/ WriteRow(i)) /\ handler[i].ses = s
             \/ RouteLocal(i) /\ RecipientSocket(i) = s
      PROVE  FALSE
  <2>1. phase' = phase /\ \E f : WriteToClient(s, f)
    BY <1>9 DEF RegisterClient, WriteRow, RouteLocal, sessionVars, readerVars
  <2> QED
    BY <1>8, <2>1
<1> QED
  BY <1>2, <1>3, <1>4, <1>5, <1>6, <1>7, <1>9, WhoSees DEF ClientStep

\* A server selects only on sessions it has registered.
SelectedServed == \A s \in Sessions : s \in events[home[s]] => ~Fresh(s)

LEMMA SelectedNew ==
    ASSUME TypeOK, [Next]_vars, NEW i \in Servers, NEW s \in events'[i], s \notin events[i]
    PROVE  RegisterClient(i) /\ s = handler[i].ses
<1>1. events \in [Servers -> SUBSET Sessions]
  BY DEF TypeOK
<1>2. ASSUME NEW k \in Servers, RegisterClient(k)
      PROVE  RegisterClient(i) /\ s = handler[i].ses
  <2>1. events' = [events EXCEPT ![k] = @ \cup {handler[k].ses}]
    BY <1>2 DEF RegisterClient
  <2> QED
    BY <1>1, <1>2, <2>1
<1>3. ASSUME NEW k \in Servers, AcceptConnection(k)
      PROVE  events' = events
  BY <1>3 DEF AcceptConnection, socketVars
<1>4. ASSUME NEW t \in Sessions, Connect(t)
      PROVE  events' = events
  BY <1>4 DEF Connect, socketVars
<1> QED
  BY <1>1, <1>2, <1>3, <1>4, WhoAdds DEF Shrinks

LEMMA SelectedServedStep ==
    ASSUME TypeOK, OnePlace, LoginInv, SelectedServed, [Next]_vars
    PROVE  SelectedServed'
<1>1. /\ phase \in [Sessions -> Phases] /\ s2c \in [Sessions -> Seq(Frame)]
      /\ home \in [Sessions -> Servers]
  BY DEF TypeOK
<1> SUFFICES ASSUME NEW s \in Sessions, s \in events'[home'[s]], Fresh(s)'
             PROVE  FALSE
  BY DEF SelectedServed
<1>2. Fresh(s) /\ s \notin events[home[s]]
  BY FreshBefore DEF SelectedServed
<1>3. CASE home'[s] = home[s]
  <2> PICK i \in Servers : i = home[s]
    BY <1>1
  <2>1. RegisterClient(i) /\ s = handler[i].ses
    BY <1>2, <1>3, SelectedNew
  <2>2. phase' = phase /\ s \in greeted /\ \E f : WriteToClient(s, f)
    BY <2>1 DEF RegisterClient, sessionVars, readerVars
  <2>3. phase[s] \in LoggingIn
    BY <2>2 DEF LoginInv, SessionFits
  <2>4. phase[s] = "greeted" /\ s2c[s] = << >> /\ s2c'[s] = << >>
    BY <1>2, <2>2, <2>3 DEF Fresh, LoggingIn
  <2>5. PICK f : s2c'[s] = Append(s2c[s], f)
    BY <1>1, <2>2, <2>4 DEF WriteToClient
  <2>6. Append(<< >>, f) # << >>
    OBVIOUS
  <2> QED
    BY <2>4, <2>5, <2>6
<1>4. ASSUME NEW k \in Servers, Allocate(s, k)
      PROVE  FALSE
  <2>1. events' = events /\ phase[s] = "start"
    BY <1>4 DEF Allocate, socketVars
  <2>2. home'[s] \in Servers
    BY <1>1, <1>4 DEF Allocate
  <2> QED
    BY <2>1, <2>2 DEF OnePlace, OnePlaceAt, Arrived
<1> QED
  BY <1>3, <1>4, PhaseStep DEF PhaseMoves

-----------------------------------------------------------------------------

(***************************************************************************)
(* What the servers know of a user whose only session is t: that it is     *)
(* offline, or at the server it was sent to.                               *)
(***************************************************************************)
Committed(s) == phase[s] # "start" /\ lb # s

KnownAt(t, k) ==
    /\ connectedto[UserOf[t]] \in {Offline, k}
    /\ connectedto[UserOf[t]] = k => Committed(t)
    /\ Fresh(t) /\ Committed(t) => connectedto[UserOf[t]] = k
    /\ \A j \in Servers : handler[j].step = "route" /\ handler[j].msg.to = UserOf[t] =>
         /\ handler[j].seen \in {Offline, k}
         /\ handler[j].seen = k => Committed(t)

SeenInv ==
    \A t \in Sessions : \A k \in Servers : OnlyLogin(t) /\ k = home[t] => KnownAt(t, k)

\* A handler that routes did so before, or has read a message.
LEMMA RouteSeen ==
    ASSUME TypeOK, [Next]_vars, NEW j \in Servers, handler'[j].step = "route"
    PROVE  \/ handler'[j] = handler[j]
           \/ \E p \in Peers : \E m \in Message :
                /\ ReadMessage(j, p) /\ m = Head(InLine(j, p))
                /\ handler'[j] = Route(p, m, connectedto[m.to])
<1>1. ASSUME NEW p \in Peers, ReadMessage(j, p)
      PROVE  \E m \in Message : /\ m = Head(InLine(j, p))
                                /\ handler'[j] = Route(p, m, connectedto[m.to])
  <2>1. PICK m \in Message : /\ m = Head(InLine(j, p))
                             /\ handler' = [handler EXCEPT ![j] = Route(p, m, connectedto[m.to])]
    BY <1>1, LineTaken DEF TakesFirst
  <2>2. handler'[j] = Route(p, m, connectedto[m.to])
    BY <2>1 DEF TypeOK
  <2> QED
    BY <2>1, <2>2
<1> QED
  BY <1>1, RoutedBefore

LEMMA CommittedStays ==
    ASSUME TypeOK, LbStarted, [Next]_vars, NEW t \in Sessions,
           ~\E k \in Servers : Allocate(t, k)
    PROVE  /\ Committed(t) => Committed(t)'
           /\ Committed(t)' => Committed(t) \/ (CommitAllocation /\ lb = t)
<1>0. lb \in Sessions \cup {NoSession} /\ t # NoSession /\ phase \in [Sessions -> Phases]
  BY SessionsAssumption DEF TypeOK
<1>1. phase'[t] = "start" <=> phase[t] = "start"
  <2>1. phase'[t] = "start" => phase[t] = "start"
    BY PhaseStep DEF PhaseMoves
  <2>2. ASSUME phase[t] = "start" PROVE phase'[t] = "start"
    <3>1. ~ClientStep(t) /\ ~Exit(t)
      BY <2>2 DEF ClientStep, Connect, Greet, ReadCount, ImportRow, ReceiveMessage,
             AskUser, Exit
    <3>2. ASSUME NEW i \in Servers, RegisterClient(i) \/ WriteRow(i) \/ RouteLocal(i)
          PROVE  phase' = phase
      BY <3>2 DEF RegisterClient, WriteRow, RouteLocal, sessionVars, readerVars
    <3> QED
      BY <2>2, <3>1, <3>2, WhoSees DEF SessionSame
  <2> QED
    BY <2>1, <2>2
<1>2. CASE lb' = lb
  BY <1>1, <1>2 DEF Committed
<1>3. CASE CommitAllocation
  <2>1. lb' = NoSession /\ phase' = phase
    BY <1>3 DEF CommitAllocation, sessionVars, readerVars
  <2> QED
    BY <1>0, <1>3, <2>1 DEF Committed
<1>4. ASSUME NEW s \in Sessions, NEW k \in Servers, Allocate(s, k)
      PROVE  Committed(t)' <=> Committed(t)
  <2>1. lb' = s /\ lb = NoSession /\ s # t
    BY <1>4 DEF Allocate
  <2> QED
    BY <1>0, <1>1, <2>1 DEF Committed
<1> QED
  BY <1>2, <1>3, <1>4, LbStep

\* A server drops a session of a user with one login: that session, served.
LEMMA DroppedServed ==
    ASSUME TypeOK, OnePlace, EventsAtHome, SelectedServed, NEW t \in Sessions, OnlyLogin(t),
           NEW i \in Servers, NEW p \in events[i], UserOf[p] = UserOf[t]
    PROVE  p = t /\ ~Fresh(t)
<1>1. p \in Sessions /\ Arrived(phase, p)
  BY DEF TypeOK, OnePlace, OnePlaceAt
<1>2. p = t
  BY <1>1 DEF OnlyLogin, Arrived
<1> QED
  BY <1>2 DEF EventsAtHome, SelectedServed

LEMMA SeenStep ==
    ASSUME TypeOK, LoadInv, LoginInv, LbStarted, EventsAtHome, SelectedServed, SeenInv,
           [Next]_vars
    PROVE  SeenInv'
<1> SUFFICES ASSUME NEW t \in Sessions, NEW k \in Servers, OnlyLogin(t)', k = home'[t]
             PROVE  KnownAt(t, k)'
  BY DEF SeenInv
<1> PICK u \in Users : u = UserOf[t]
  BY SessionsAssumption
<1>0. /\ connectedto \in [Users -> Servers \cup {Offline}] /\ home \in [Sessions -> Servers]
      /\ handler \in [Servers -> Handler] /\ lb \in Sessions \cup {NoSession}
      /\ k # Offline /\ t # NoSession /\ \A s \in Sessions : UserOf[s] \in Users
  BY ServersAssumption, SessionsAssumption DEF TypeOK, Offline
<1>1. OnlyLogin(t)
  BY PhaseStep DEF PhaseMoves, OnlyLogin
<1>2. ASSUME NEW j \in Servers, Allocate(t, j)
      PROVE  KnownAt(t, k)'
  <2>1. /\ phase[t] = "start" /\ lb' = t
        /\ connectedto' = connectedto /\ handler' = handler
    BY <1>2 DEF Allocate, dbVars
  <2>2. ~Committed(t) /\ ~Committed(t)'
    BY <2>1 DEF Committed
  <2>3. KnownAt(t, home[t]) /\ home[t] \in Servers
    BY <1>0, <1>1 DEF SeenInv
  <2>4. connectedto[u] = Offline
    BY <2>2, <2>3 DEF KnownAt
  <2>5. \A i \in Servers : handler[i].step = "route" /\ handler[i].msg.to = u =>
          handler[i].seen = Offline
    BY <2>2, <2>3 DEF KnownAt
  <2> QED
    BY <1>0, <2>1, <2>2, <2>4, <2>5 DEF KnownAt
<1>3. ASSUME ~\E j \in Servers : Allocate(t, j)
      PROVE  KnownAt(t, k)'
  <2>1. k = home[t]
    BY <1>3, PhaseStep DEF PhaseMoves
  <2>2. KnownAt(t, k)
    BY <1>1, <2>1 DEF SeenInv
  <2>3. /\ Committed(t) => Committed(t)'
        /\ Committed(t)' => Committed(t) \/ (CommitAllocation /\ lb = t)
    BY <1>3, CommittedStays
  <2>4. Fresh(t)' => Fresh(t)
    BY FreshBefore
  <2>5. ASSUME NEW j \in Servers, handler'[j].step = "route", handler'[j].msg.to = u
        PROVE  /\ handler'[j].seen \in {Offline, k}
               /\ handler'[j].seen = k => Committed(t)'
    <3>1. CASE handler'[j] = handler[j]
      BY <2>2, <2>3, <2>5, <3>1 DEF KnownAt
    <3>2. ASSUME NEW p, NEW m \in Message, handler'[j] = Route(p, m, connectedto[m.to])
          PROVE  /\ handler'[j].seen \in {Offline, k}
                 /\ handler'[j].seen = k => Committed(t)'
      <4>1. handler'[j].msg = m /\ handler'[j].seen = connectedto[m.to]
        BY <3>2 DEF Route
      <4> QED
        BY <2>2, <2>3, <2>5, <4>1 DEF KnownAt
    <3> QED
      BY <2>5, <3>1, <3>2, RouteSeen
  <2>6. /\ connectedto'[u] \in {Offline, k}
        /\ connectedto'[u] = k => Committed(t)'
        /\ Fresh(t)' /\ Committed(t)' => connectedto'[u] = k
    <3>1. CASE CommitAllocation
      <4>1. /\ lb \in Sessions /\ connectedto' = [connectedto EXCEPT ![UserOf[lb]] = home[lb]]
            /\ lb' = NoSession /\ phase' = phase /\ phase[lb] # "start"
        BY <3>1 DEF CommitAllocation, Recorded, TypeOK, sessionVars, readerVars, LbStarted
      <4>2. CASE UserOf[lb] = u
        <5>1. lb = t
          BY <1>1, <4>1, <4>2 DEF OnlyLogin
        <5>2. connectedto'[u] = k /\ Committed(t)'
          BY <1>0, <2>1, <4>1, <5>1 DEF Committed
        <5> QED
          BY <5>2
      <4>3. CASE UserOf[lb] # u
        <5>1. connectedto'[u] = connectedto[u] /\ lb # t
          BY <1>0, <4>1, <4>3
        <5> QED
          BY <2>2, <2>3, <2>4, <5>1 DEF KnownAt
      <4> QED
        BY <4>2, <4>3
    <3>2. CASE connectedto' = connectedto /\ ~CommitAllocation
      BY <2>2, <2>3, <2>4, <3>2 DEF KnownAt
    <3>3. ASSUME NEW i \in Servers, NEW p \in events[i], Discard(i, p), ~CommitAllocation
          PROVE  /\ connectedto'[u] \in {Offline, k}
                 /\ connectedto'[u] = k => Committed(t)'
                 /\ Fresh(t)' /\ Committed(t)' => connectedto'[u] = k
      <4>1. p \in Sessions /\ p \notin Servers
        BY SessionsAssumption DEF TypeOK
      <4>2. connectedto' = [connectedto EXCEPT ![UserOf[p]] = Offline]
        BY <3>3, <4>1 DEF Discard
      <4>3. CASE UserOf[p] = u
        <5>1. ~Fresh(t)
          BY <1>1, <4>3, DroppedServed DEF LoadInv
        <5>2. connectedto'[u] = Offline
          BY <1>0, <4>2, <4>3
        <5> QED
          BY <1>0, <2>4, <5>1, <5>2
      <4>4. CASE UserOf[p] # u
        <5>1. connectedto'[u] = connectedto[u]
          BY <1>0, <4>1, <4>2, <4>4
        <5> QED
          BY <2>2, <2>3, <2>4, <3>3, <5>1 DEF KnownAt
      <4> QED
        BY <4>3, <4>4
    <3> QED
      BY <3>1, <3>2, <3>3, ConnectedtoWriters DEF LoadInv
  <2> QED
    BY <2>5, <2>6 DEF KnownAt
<1> QED
  BY <1>2, <1>3

-----------------------------------------------------------------------------

(***************************************************************************)
(* Nobody has sent anything before being online.                           *)
(***************************************************************************)
SpokeFirst ==
    \A m \in sent : \E x \in Sessions : UserOf[x] = m.from /\ phase[x] \in {"online", "exited"}

LEMMA SpokeFirstStep ==
    ASSUME TypeOK, SpokeFirst, [Next]_vars
    PROVE  SpokeFirst'
<1> SUFFICES ASSUME NEW m \in sent'
             PROVE  \E x \in Sessions : UserOf[x] = m.from /\ phase'[x] \in {"online", "exited"}
  BY DEF SpokeFirst
<1>1. CASE m \in sent
  <2>1. PICK x \in Sessions : UserOf[x] = m.from /\ phase[x] \in {"online", "exited"}
    BY <1>1 DEF SpokeFirst
  <2> QED
    BY <2>1, OnlineStays
<1>2. ASSUME NEW s \in Sessions, NEW v \in Users, Send(s, v), m \notin sent
      PROVE  UserOf[s] = m.from /\ phase'[s] = "online"
  <2>1. m = [id |-> nextId, from |-> UserOf[s], to |-> v]
    BY <1>2 DEF Send
  <2> QED
    BY <1>2, <2>1 DEF Send, sessionVars, readerVars
<1> QED
  BY <1>1, <1>2, SentWriters

LEMMA NothingSaid ==
    ASSUME SpokeFirst, NEW s \in Sessions, OnlyLogin(s), phase[s] = "start", NEW m \in sent
    PROVE  m.from # UserOf[s]
BY DEF SpokeFirst, OnlyLogin

LEMMA InTwoParts ==
    ASSUME NEW x \in Nat, NEW y \in Nat, NEW n \in 1 .. x + y
    PROVE  n \in 1 .. x \/ (n \in x + 1 .. x + y /\ n - x \in 1 .. y)
OBVIOUS

\* What waits in a line has been sent.
LEMMA LineSent ==
    ASSUME TypeOK, SentInv, NEW j \in Servers, NEW p \in Peers, NEW n \in DOMAIN InLine(j, p)
    PROVE  InLine(j, p)[n] \in sent
<1>1. /\ recvBuffer \in [Servers -> [Peers -> Seq(Message)]]
      /\ inbox \in [Servers -> [Peers -> Seq(Message)]]
  BY DEF TypeOK
<1> PICK b \in Seq(Message), q \in Seq(Message) : b = recvBuffer[j][p] /\ q = inbox[j][p]
  BY <1>1
<1>2. InLine(j, p) = b \o q
  BY DEF InLine, Line
<1> PICK x \in Nat, y \in Nat : x = Len(b) /\ y = Len(q)
  OBVIOUS
<1>3. /\ DOMAIN InLine(j, p) = 1 .. x + y
      /\ \A z \in 1 .. x : InLine(j, p)[z] = b[z]
      /\ \A z \in x + 1 .. x + y : InLine(j, p)[z] = q[z - x]
  <2>1. /\ b \o q \in Seq(Message) /\ Len(b \o q) = Len(b) + Len(q)
        /\ \A z \in 1 .. Len(b) : (b \o q)[z] = b[z]
        /\ \A z \in Len(b) + 1 .. Len(b) + Len(q) : (b \o q)[z] = q[z - Len(b)]
    BY JoinElements
  <2>2. DOMAIN (b \o q) = 1 .. Len(b \o q)
    BY <2>1
  <2> QED
    BY <1>2, <2>1, <2>2
<1>4. DOMAIN q = 1 .. y /\ DOMAIN b = 1 .. x
  OBVIOUS
<1>5. \/ \E z \in DOMAIN b : b[z] = InLine(j, p)[n]
      \/ \E z \in DOMAIN q : q[z] = InLine(j, p)[n]
  <2> DEFINE l == InLine(j, p)
  <2>1. n \in 1 .. x + y
    BY <1>3
  <2>2. CASE n \in 1 .. x
    BY <1>3, <1>4, <2>2
  <2>3. CASE n \in x + 1 .. x + y /\ n - x \in 1 .. y
    <3>1. l[n] = q[n - x]
      BY <1>3, <2>3
    <3> QED
      BY <1>4, <2>3, <3>1
  <2>4. n \in 1 .. x \/ (n \in x + 1 .. x + y /\ n - x \in 1 .. y)
    BY <2>1, InTwoParts
  <2> QED
    BY <2>2, <2>3, <2>4
<1>6. CopyParts(InLine(j, p)[n])
  BY <1>5 DEF CopyParts, Queued
<1> QED
  BY <1>6, CopyHasParts DEF SentInv

LEMMA LineIdsSent ==
    ASSUME TypeOK, SentInv, NEW s, NEW t, NEW j \in Servers, NEW p \in Peers,
           NEW x \in Ids(s, t, InLine(j, p))
    PROVE  \E m \in sent : Between(s, t, m) /\ m.id = x
BY LineSent DEF Ids

\* What a handler routes has been sent.
Routes(s, t, j) == handler[j].step = "route" /\ Between(s, t, handler[j].msg)

LEMMA RoutedSent ==
    ASSUME SentInv, NEW s, NEW t, NEW j \in Servers, Routes(s, t, j)
    PROVE  handler[j].msg \in sent
<1>1. CopyParts(handler[j].msg)
  BY DEF Routes, CopyParts, Routing
<1> QED
  BY <1>1, CopyHasParts DEF SentInv

-----------------------------------------------------------------------------

(***************************************************************************)
(* The way of the messages of session s to session t, at servers i and k:  *)
(* on the socket of s at server i, then on the link of i at k, and on the  *)
(* link only once the load balancer has recorded t.                        *)
(***************************************************************************)
OnPath(s, t, i, k, j, p) ==
    \/ j = i /\ p = s
    \/ j = k /\ p = i /\ i # k /\ Committed(t)

LinesOnPath(s, t, i, k) ==
    \A j \in Servers : \A p \in Peers :
        Ids(s, t, InLine(j, p)) # {} => OnPath(s, t, i, k, j, p)

RoutedOnPath(s, t, i, k) ==
    \A j \in Servers : \A p \in Peers :
        Routes(s, t, j) /\ handler[j].peer = p => OnPath(s, t, i, k, j, p)

\* Before the registration of t: its own server knows it is there, and a
\* message the server of s holds for the table is not behind one on the link.
FreshPath(s, t, i, k) ==
    Fresh(t) /\ i # k =>
        /\ Routes(s, t, k) => handler[k].seen = k
        /\ Routes(s, t, i) /\ handler[i].seen = Offline =>
             ~Routes(s, t, k) /\ Ids(s, t, InLine(k, i)) = {}

PathAt(s, t, i, k) == LinesOnPath(s, t, i, k) /\ RoutedOnPath(s, t, i, k) /\ FreshPath(s, t, i, k)

PathInv ==
    \A s, t \in Sessions : \A i, k \in Servers :
        OnlyLogin(s) /\ OnlyLogin(t) /\ i = home[s] /\ k = home[t] => PathAt(s, t, i, k)

LEMMA PathAtStart ==
    ASSUME TypeOK, SentInv, SpokeFirst, [Next]_vars,
           NEW s \in Sessions, NEW t \in Sessions, NEW i \in Servers, NEW k \in Servers,
           OnlyLogin(s), NEW j \in Servers, Allocate(s, j)
    PROVE  PathAt(s, t, i, k)'
<1>1. phase[s] = "start" /\ UNCHANGED << inbox, recvBuffer, handler >>
  BY DEF Allocate
<1>2. \A m \in sent : m.from # UserOf[s]
  BY <1>1, NothingSaid
<1>3. \A x \in Servers : \A p \in Peers : Ids(s, t, InLine(x, p)) = {}
  BY <1>2, LineIdsSent DEF Between
<1>4. \A x \in Servers : ~Routes(s, t, x)
  BY <1>2, RoutedSent DEF Routes, Between
<1>5. \A x \in Servers : \A p \in Peers : Ids(s, t, InLine(x, p))' = {}
  BY <1>1, <1>3 DEF InLine
<1>6. \A x \in Servers : ~Routes(s, t, x)'
  BY <1>1, <1>4 DEF Routes
<1> QED
  BY <1>5, <1>6 DEF PathAt, LinesOnPath, RoutedOnPath, FreshPath

LEMMA PathAtAllocated ==
    ASSUME TypeOK, NEW s \in Sessions, NEW t \in Sessions, NEW i \in Servers, NEW k \in Servers,
           NEW h, PathAt(s, t, i, h), NEW j \in Servers, Allocate(t, j)
    PROVE  PathAt(s, t, i, k)'
<1>1. phase[t] = "start" /\ UNCHANGED << inbox, recvBuffer, handler >>
  BY DEF Allocate
<1>2. ~Committed(t)
  BY <1>1 DEF Committed
<1>3. \A x \in Servers : \A p \in Peers :
        /\ Ids(s, t, InLine(x, p)) # {} => x = i /\ p = s
        /\ Routes(s, t, x) /\ handler[x].peer = p => x = i /\ p = s
  BY <1>2 DEF PathAt, LinesOnPath, RoutedOnPath, OnPath
<1>4. \A x \in Servers : \A p \in Peers :
        /\ Ids(s, t, InLine(x, p))' = Ids(s, t, InLine(x, p))
        /\ Routes(s, t, x)' = Routes(s, t, x)
        /\ handler'[x] = handler[x]
  BY <1>1 DEF InLine, Routes
<1>5. LinesOnPath(s, t, i, k)'
  BY <1>3, <1>4 DEF LinesOnPath, OnPath
<1>6. RoutedOnPath(s, t, i, k)'
  BY <1>3, <1>4 DEF RoutedOnPath, OnPath
<1>7. FreshPath(s, t, i, k)'
  <2>1. i # k => ~Routes(s, t, k) /\ Ids(s, t, InLine(k, i)) = {}
    <3>1. Routes(s, t, k) => handler[k].peer \in Peers
      BY HandlerFields DEF Routes, TypeOK
    <3>2. i \in Peers
      BY DEF Peers
    <3> QED
      BY <1>3, <3>1, <3>2
  <2>2. i # k => ~Routes(s, t, k)' /\ Ids(s, t, InLine(k, i))' = {}
    <3>1. i \in Peers
      BY DEF Peers
    <3> QED
      BY <1>4, <2>1, <3>1
  <2> QED
    BY <2>2 DEF FreshPath
<1> QED
  BY <1>5, <1>6, <1>7 DEF PathAt

\* The messages of a line after a step.
LEMMA LineIdsStep ==
    ASSUME TypeOK, [Next]_vars, NEW s \in Sessions, NEW t \in Sessions,
           NEW j \in Servers, NEW p \in Peers
    PROVE  \/ Ids(s, t, InLine(j, p))' \subseteq Ids(s, t, InLine(j, p))
           \/ /\ Ids(s, t, InLine(j, p))' \subseteq Ids(s, t, InLine(j, p)) \cup {nextId}
              /\ p \in Sessions /\ UserOf[p] = UserOf[s] /\ j = home[p] /\ Send(p, UserOf[t])
           \/ /\ Ids(s, t, InLine(j, p))' \subseteq Ids(s, t, InLine(j, p)) \cup {handler[p].msg.id}
              /\ p \in Servers /\ RouteForward(p) /\ handler[p].seen = j /\ Routes(s, t, p)
<1>0. /\ handler \in [Servers -> Handler] /\ nextId \in Nat
      /\ \A x \in Sessions : UserOf[x] \in Users
  BY SessionsAssumption DEF TypeOK
<1>1. InLine(j, p) \in Seq(Message)
  BY LineTyped DEF InLine
<1> PICK q \in Seq(Message) : q = InLine(j, p)
  BY <1>1
<1>2. Ids(s, t, InLine(j, p))' = Ids(s, t, InLine(j, p)')
  BY DEF Ids, Between
<1>3. CASE InLine(j, p)' = q
  BY <1>2, <1>3
<1>4. CASE InLine(j, p)' = << >>
  BY <1>2, <1>4, NothingRises
<1>5. CASE q # << >> /\ InLine(j, p)' = Tail(q)
  <2>1. Ids(s, t, Tail(q)) \subseteq Ids(s, t, q)
    <3>1. \A n \in DOMAIN Tail(q) : n + 1 \in DOMAIN q /\ Tail(q)[n] = q[n + 1]
      BY <1>5, TailElements
    <3> QED
      BY <3>1 DEF Ids
  <2> QED
    BY <1>2, <1>5, <2>1
<1>6. ASSUME NEW m \in Message
      PROVE  Ids(s, t, Append(q, m)) \subseteq
               Ids(s, t, q) \cup IF Between(s, t, m) THEN {m.id} ELSE {}
  <2>1. \A n \in DOMAIN Append(q, m) :
          Append(q, m)[n] = m \/ (n \in DOMAIN q /\ Append(q, m)[n] = q[n])
    BY AppendElements
  <2> QED
    BY <2>1 DEF Ids
<1>7. ASSUME NEW v \in Users, p \in Sessions, Send(p, v), j = home[p],
             InLine(j, p)' = Append(q, NewMessage(p, v))
      PROVE  \/ Ids(s, t, InLine(j, p))' \subseteq Ids(s, t, InLine(j, p))
             \/ /\ Ids(s, t, InLine(j, p))' \subseteq Ids(s, t, InLine(j, p)) \cup {nextId}
                /\ p \in Sessions /\ UserOf[p] = UserOf[s] /\ j = home[p] /\ Send(p, UserOf[t])
  <2> PICK m \in Message : m = NewMessage(p, v)
    BY <1>0, <1>7 DEF NewMessage, Message
  <2>1. m.id = nextId /\ m.from = UserOf[p] /\ m.to = v
    BY DEF NewMessage
  <2>2. Ids(s, t, InLine(j, p))' = Ids(s, t, Append(q, m))
    BY <1>2, <1>7
  <2>3. CASE Between(s, t, m)
    BY <1>6, <1>7, <2>1, <2>2, <2>3 DEF Between
  <2>4. CASE ~Between(s, t, m)
    BY <1>6, <2>2, <2>4
  <2> QED
    BY <2>3, <2>4
<1>8. ASSUME p \in Servers, RouteForward(p), handler[p].seen = j,
             InLine(j, p)' = Append(q, handler[p].msg)
      PROVE  \/ Ids(s, t, InLine(j, p))' \subseteq Ids(s, t, InLine(j, p))
             \/ /\ Ids(s, t, InLine(j, p))' \subseteq Ids(s, t, InLine(j, p)) \cup {handler[p].msg.id}
                /\ p \in Servers /\ RouteForward(p) /\ handler[p].seen = j /\ Routes(s, t, p)
  <2>0. handler[p].step = "route"
    BY <1>8 DEF RouteForward, Elsewhere
  <2> PICK m \in Message : m = handler[p].msg
    BY <1>0, <1>8, <2>0, HandlerFields
  <2>2. Ids(s, t, InLine(j, p))' = Ids(s, t, Append(q, m))
    BY <1>2, <1>8
  <2>3. CASE Between(s, t, m)
    BY <1>6, <1>8, <2>0, <2>2, <2>3 DEF Routes
  <2>4. CASE ~Between(s, t, m)
    BY <1>6, <2>2, <2>4
  <2> QED
    BY <2>3, <2>4
<1> QED
  BY <1>3, <1>4, <1>5, <1>7, <1>8, LineStep DEF LineMoves

-----------------------------------------------------------------------------

\* A message is routed that was routed before, or was in a line.
LEMMA RoutesStep ==
    ASSUME TypeOK, [Next]_vars, NEW s \in Sessions, NEW t \in Sessions, NEW j \in Servers,
           Routes(s, t, j)'
    PROVE  \/ handler'[j] = handler[j] /\ Routes(s, t, j)
           \/ \E p \in Peers : \E m \in Message :
                /\ ReadMessage(j, p) /\ m = Head(InLine(j, p)) /\ Between(s, t, m)
                /\ m.id \in Ids(s, t, InLine(j, p))
                /\ handler'[j] = Route(p, m, connectedto[m.to])
<1>1. handler'[j].step = "route" /\ Between(s, t, handler'[j].msg)
  BY DEF Routes, Between
<1>2. CASE handler'[j] = handler[j]
  BY <1>1, <1>2 DEF Routes
<1>3. ASSUME NEW p \in Peers, NEW m \in Message, ReadMessage(j, p), m = Head(InLine(j, p)),
             handler'[j] = Route(p, m, connectedto[m.to])
      PROVE  Between(s, t, m) /\ m.id \in Ids(s, t, InLine(j, p))
  <2>1. Between(s, t, m)
    BY <1>1, <1>3 DEF Route
  <2> PICK q \in Seq(Message) : q = InLine(j, p)
    BY LineTyped DEF InLine
  <2>2. q # << >>
    BY <1>3, LineTaken DEF TakesFirst
  <2>3. 1 \in DOMAIN q /\ q[1] = Head(q)
    BY <2>2
  <2> QED
    BY <1>3, <2>1, <2>3 DEF Ids
<1> QED
  BY <1>1, <1>2, <1>3, RouteSeen

\* What both servers do when neither s nor t begins.
LEMMA PathAtStep ==
    ASSUME TypeOK, LinksToOthers, LoginInv, LbStarted, [Next]_vars,
           NEW s \in Sessions, NEW t \in Sessions, NEW i \in Servers, NEW k \in Servers,
           OnlyLogin(s), i = home[s], PathAt(s, t, i, k), KnownAt(t, k),
           ~\E j \in Servers : Allocate(t, j)
    PROVE  PathAt(s, t, i, k)'
<1>0. /\ handler \in [Servers -> Handler] /\ links \in [Servers -> SUBSET Servers]
      /\ Offline \notin Servers /\ \A x \in Sessions : x \notin Servers
  <2>1. handler \in [Servers -> Handler] /\ links \in [Servers -> SUBSET Servers]
    BY DEF TypeOK
  <2>2. Offline \notin Servers
    BY ServersAssumption DEF Offline
  <2>3. \A x \in Sessions : x \notin Servers
    BY SessionsAssumption
  <2> QED
    BY <2>1, <2>2, <2>3
<1>1. Committed(t) => Committed(t)'
  BY CommittedStays
<1>2. Fresh(t)' => Fresh(t)
  BY FreshBefore
<1>3. \A j \in Servers : \A p \in Peers : OnPath(s, t, i, k, j, p) => OnPath(s, t, i, k, j, p)'
  BY <1>1 DEF OnPath
<1>4. ASSUME NEW j \in Servers, Routes(s, t, j)
      PROVE  /\ OnPath(s, t, i, k, j, handler[j].peer)
             /\ handler[j].seen \in {Offline, k}
             /\ handler[j].seen = k => Committed(t)
  <2>1. handler[j].peer \in Peers /\ handler[j].step = "route" /\ handler[j].msg.to = UserOf[t]
    BY <1>0, <1>4, HandlerFields DEF Routes, Between
  <2> QED
    BY <1>4, <2>1 DEF PathAt, RoutedOnPath, KnownAt
<1>5. ASSUME NEW j \in Servers, NEW p \in Peers, Ids(s, t, InLine(j, p)) # {}
      PROVE  OnPath(s, t, i, k, j, p)
  BY <1>5 DEF PathAt, LinesOnPath
<1>6. LinesOnPath(s, t, i, k)'
  <2> SUFFICES ASSUME NEW j \in Servers, NEW p \in Peers, Ids(s, t, InLine(j, p))' # {}
               PROVE  OnPath(s, t, i, k, j, p)'
    BY DEF LinesOnPath
  <2>1. CASE Ids(s, t, InLine(j, p))' \subseteq Ids(s, t, InLine(j, p))
    BY <1>3, <1>5, <2>1
  <2>2. CASE p \in Sessions /\ UserOf[p] = UserOf[s] /\ j = home[p] /\ Send(p, UserOf[t])
    <3>1. phase[p] = "online"
      BY <2>2 DEF Send
    <3>2. p = s
      BY <2>2, <3>1 DEF OnlyLogin
    <3> QED
      BY <2>2, <3>2 DEF OnPath
  <2>3. CASE p \in Servers /\ RouteForward(p) /\ handler[p].seen = j /\ Routes(s, t, p)
    <3>1. handler[p].seen \in links[p]
      BY <2>3 DEF RouteForward
    <3>2. j \in Servers \ {p}
      BY <1>0, <2>3, <3>1 DEF LinksToOthers
    <3>3. j = k /\ Committed(t)
      BY <1>0, <1>4, <2>3, <3>2
    <3>4. p = i
      BY <1>4, <2>3, <3>2, <3>3 DEF OnPath
    <3> QED
      BY <1>3, <3>2, <3>3, <3>4 DEF OnPath
  <2> QED
    BY <2>1, <2>2, <2>3, LineIdsStep
<1>7. RoutedOnPath(s, t, i, k)'
  <2> SUFFICES ASSUME NEW j \in Servers, NEW p \in Peers, Routes(s, t, j)', handler'[j].peer = p
               PROVE  OnPath(s, t, i, k, j, p)'
    BY DEF RoutedOnPath
  <2>1. CASE handler'[j] = handler[j] /\ Routes(s, t, j)
    BY <1>3, <1>4, <2>1
  <2>2. ASSUME NEW x \in Peers, NEW m \in Message, m.id \in Ids(s, t, InLine(j, x)),
               handler'[j] = Route(x, m, connectedto[m.to])
        PROVE  OnPath(s, t, i, k, j, p)'
    <3>1. x = p
      BY <2>2 DEF Route
    <3> QED
      BY <1>3, <1>5, <2>2, <3>1
  <2> QED
    BY <2>1, <2>2, RoutesStep
<1>8. FreshPath(s, t, i, k)'
  <2> SUFFICES ASSUME Fresh(t)', i # k
               PROVE  /\ Routes(s, t, k)' => handler'[k].seen = k
                      /\ Routes(s, t, i)' /\ handler'[i].seen = Offline =>
                           ~Routes(s, t, k)' /\ Ids(s, t, InLine(k, i))' = {}
    BY DEF FreshPath
  <2>0. i \in Peers /\ Fresh(t)
    BY <1>2 DEF Peers
  <2>1. ASSUME Routes(s, t, k)' PROVE handler'[k].seen = k
    <3>1. CASE handler'[k] = handler[k] /\ Routes(s, t, k)
      BY <2>0, <3>1 DEF PathAt, FreshPath
    <3>2. ASSUME NEW x \in Peers, NEW m \in Message, m.id \in Ids(s, t, InLine(k, x)),
                 Between(s, t, m), handler'[k] = Route(x, m, connectedto[m.to])
          PROVE  handler'[k].seen = k
      <4>1. Committed(t)
        BY <1>5, <3>2 DEF OnPath
      <4>2. connectedto[UserOf[t]] = k
        BY <2>0, <4>1 DEF KnownAt
      <4> QED
        BY <3>2, <4>2 DEF Route, Between
    <3> QED
      BY <2>1, <3>1, <3>2, RoutesStep
  <2>2. ASSUME Routes(s, t, i)', handler'[i].seen = Offline
        PROVE  ~Routes(s, t, k)' /\ Ids(s, t, InLine(k, i))' = {}
    <3>1. ~Routes(s, t, k) /\ Ids(s, t, InLine(k, i)) = {}
      <4>1. CASE handler'[i] = handler[i] /\ Routes(s, t, i)
        BY <2>0, <2>2, <4>1 DEF PathAt, FreshPath
      <4>2. ASSUME NEW x \in Peers, NEW m \in Message, Between(s, t, m),
                   handler'[i] = Route(x, m, connectedto[m.to])
            PROVE  ~Routes(s, t, k) /\ Ids(s, t, InLine(k, i)) = {}
        <5>1. connectedto[UserOf[t]] = Offline
          BY <2>2, <4>2 DEF Route, Between
        <5>2. ~Committed(t)
          BY <1>0, <2>0, <5>1 DEF KnownAt
        <5> QED
          BY <1>4, <1>5, <2>0, <5>2 DEF OnPath
      <4> QED
        BY <2>2, <4>1, <4>2, RoutesStep
    <3>2. ~Routes(s, t, k)'
      <4>1. SUFFICES ASSUME Routes(s, t, k)'
                     PROVE  FALSE
        OBVIOUS
      <4>2. PICK p \in Peers : Ids(s, t, InLine(k, p)) # {}
        BY <3>1, <4>1, RoutesStep
      <4>3. p = i
        BY <1>5, <4>2 DEF OnPath
      <4> QED
        BY <3>1, <4>2, <4>3
    <3>3. ~RouteForward(i)
      <4>1. ASSUME RouteForward(i) PROVE FALSE
        <5>1. handler'[i] = Idle
          BY <1>0, <4>1 DEF RouteForward
        <5> QED
          BY <2>2, <5>1 DEF Routes, Idle
      <4> QED
        BY <4>1
    <3> QED
      BY <1>0, <2>0, <3>1, <3>2, <3>3, LineIdsStep
  <2> QED
    BY <2>1, <2>2
<1> QED
  BY <1>6, <1>7, <1>8 DEF PathAt

LEMMA PathStep ==
    ASSUME TypeOK, LoadInv, LoginInv, LbStarted, SentInv, SpokeFirst, SeenInv, PathInv,
           [Next]_vars
    PROVE  PathInv'
<1> SUFFICES ASSUME NEW s \in Sessions, NEW t \in Sessions, NEW i \in Servers, NEW k \in Servers,
                    OnlyLogin(s)', OnlyLogin(t)', i = home'[s], k = home'[t]
             PROVE  PathAt(s, t, i, k)'
  BY DEF PathInv
<1>1. OnlyLogin(s) /\ OnlyLogin(t) /\ home[s] \in Servers /\ home[t] \in Servers
  BY PhaseStep DEF PhaseMoves, OnlyLogin, TypeOK
<1>2. CASE \E j \in Servers : Allocate(s, j)
  BY <1>1, <1>2, PathAtStart
<1>3. CASE ~(\E j \in Servers : Allocate(s, j)) /\ \E j \in Servers : Allocate(t, j)
  <2>1. i = home[s]
    BY <1>3, PhaseStep DEF PhaseMoves
  <2>2. PathAt(s, t, i, home[t])
    BY <1>1, <2>1 DEF PathInv
  <2> QED
    BY <1>3, <2>2, PathAtAllocated
<1>4. CASE ~(\E j \in Servers : Allocate(s, j)) /\ ~(\E j \in Servers : Allocate(t, j))
  <2>1. i = home[s] /\ k = home[t]
    BY <1>4, PhaseStep DEF PhaseMoves
  <2>2. PathAt(s, t, i, k) /\ KnownAt(t, k)
    BY <1>1, <2>1 DEF PathInv, SeenInv
  <2> QED
    BY <1>1, <1>4, <2>1, <2>2, PathAtStep DEF LoadInv
<1> QED
  BY <1>2, <1>3, <1>4

-----------------------------------------------------------------------------

(***************************************************************************)
(* The stages of a message on its way from session s to session t, whose   *)
(* servers are i and k, and the order along them.                          *)
(***************************************************************************)
\* The rows a drain has still to write to t.
Unwritten(h) == IF h.written THEN Tail(h.rows) ELSE h.rows
Owed(t, k) ==
    IF phase[t] # "exited" /\ DrainsFor(handler[k], t) THEN Unwritten(handler[k]) ELSE << >>

TableIds(s, t) == {r.msg.id : r \in {r \in pending : Between(s, t, r.msg)}}

\* The rows in the table in the order in which they will be selected.
TableRises(s, t, i) ==
    /\ \A r \in pending : Between(s, t, r.msg) => r.via = i
    /\ \A r, q \in pending : Between(s, t, r.msg) /\ Between(s, t, q.msg) /\ r.msgid < q.msgid
         => r.msg.id < q.msg.id

StoredIds(s, t)     == Ids(s, t, history[UserOf[t]])
ComingIds(s, t)     == FrameIds(s, t, s2c[t])
WaitingIds(s, t, k) == IF Fresh(t) THEN TableIds(s, t) ELSE RowIds(s, t, Owed(t, k))
RoutedIds(s, t, j)  == {m.id : m \in {m \in {handler[j].msg} : Routes(s, t, j)}}
LinkIds(s, t, i, k) == IF i # k THEN Ids(s, t, InLine(k, i)) ELSE {}
LastIds(s, t, i, k) == IF i # k THEN RoutedIds(s, t, k) ELSE {}
SpokenIds(s, t, i)  == Ids(s, t, InLine(i, s))

StagesRise(s, t, i, k) ==
    /\ Rising(s, t, history[UserOf[t]])
    /\ FramesRising(s, t, s2c[t])
    /\ RowsRising(s, t, Owed(t, k))
    /\ Fresh(t) => TableRises(s, t, i)
    /\ Rising(s, t, InLine(k, i))
    /\ Rising(s, t, InLine(i, s))

NoneOvertakes(s, t, i, k) ==
    Chain(StoredIds(s, t), ComingIds(s, t), WaitingIds(s, t, k), LastIds(s, t, i, k),
          LinkIds(s, t, i, k), RoutedIds(s, t, i), SpokenIds(s, t, i))

OrderAt(s, t, i, k) == StagesRise(s, t, i, k) /\ NoneOvertakes(s, t, i, k)

OrderInv ==
    \A s, t \in Sessions : \A i, k \in Servers :
        OnlyLogin(s) /\ OnlyLogin(t) /\ i = home[s] /\ k = home[t] => OrderAt(s, t, i, k)

LEMMA RoutedIdsAre ==
    ASSUME NEW s, NEW t, NEW j
    PROVE  /\ Routes(s, t, j) => RoutedIds(s, t, j) = {handler[j].msg.id}
           /\ ~Routes(s, t, j) => RoutedIds(s, t, j) = {}
BY DEF RoutedIds

\* Whatever is at a stage has been sent.
LEMMA HistorySent ==
    ASSUME TypeOK, SentInv, NEW u \in Users, NEW n \in DOMAIN history[u]
    PROVE  history[u][n] \in sent
<1>1. StoredIn(history, history[u][n])
  BY DEF StoredIn
<1> QED
  BY <1>1 DEF SentInv

LEMMA FrameSent ==
    ASSUME SentInv, NEW t \in Sessions, NEW n \in DOMAIN s2c[t], s2c[t][n].kind # "count"
    PROVE  s2c[t][n].msg \in sent
<1>1. CopyParts(s2c[t][n].msg)
  BY DEF CopyParts, OnTheWay
<1> QED
  BY <1>1, CopyHasParts DEF SentInv

LEMMA RowSent ==
    ASSUME SentInv, NEW r, KnownRow(r)
    PROVE  r.msg \in sent
<1>1. CopyParts(r.msg)
  BY DEF CopyParts, RowOf
<1> QED
  BY <1>1, CopyHasParts DEF SentInv

\* The rows owed are rows of the drain.
LEMMA OwedRows ==
    ASSUME TypeOK, NEW t \in Sessions, NEW k \in Servers
    PROVE  /\ Owed(t, k) \in Seq(Row)
           /\ \A n \in DOMAIN Owed(t, k) : KnownRow(Owed(t, k)[n])
<1>1. CASE ~(phase[t] # "exited" /\ DrainsFor(handler[k], t))
  BY <1>1 DEF Owed
<1>2. CASE phase[t] # "exited" /\ DrainsFor(handler[k], t)
  <2>1. handler[k].step = "drain" /\ handler[k].rows \in Seq(Row) /\ handler[k].rows # << >>
    BY <1>2, HandlerFields DEF DrainsFor, TypeOK
  <2> PICK q \in Seq(Row) : q = handler[k].rows /\ q # << >>
    BY <2>1
  <2>2. \A n \in DOMAIN q : KnownRow(q[n])
    BY <2>1 DEF KnownRow, SelectedBy
  <2>3. CASE ~handler[k].written
    BY <1>2, <2>2, <2>3 DEF Owed, Unwritten
  <2>4. CASE handler[k].written
    <3>1. Owed(t, k) = Tail(q)
      BY <1>2, <2>4 DEF Owed, Unwritten
    <3>2. Tail(q) \in Seq(Row)
      BY HeadTail
    <3>3. \A n \in DOMAIN Tail(q) : n + 1 \in DOMAIN q /\ Tail(q)[n] = q[n + 1]
      BY TailElements
    <3> QED
      BY <2>2, <3>1, <3>2, <3>3
  <2> QED
    BY <2>3, <2>4
<1> QED
  BY <1>1, <1>2

\* An id at a stage is that of a message sent by s to t.
SentIds(s, t) == {m.id : m \in {m \in sent : Between(s, t, m)}}

LEMMA StagesSent ==
    ASSUME TypeOK, SentInv, NEW s \in Sessions, NEW t \in Sessions,
           NEW i \in Servers, NEW k \in Servers
    PROVE  /\ StoredIds(s, t) \subseteq SentIds(s, t)
           /\ ComingIds(s, t) \subseteq SentIds(s, t)
           /\ WaitingIds(s, t, k) \subseteq SentIds(s, t)
           /\ LastIds(s, t, i, k) \subseteq SentIds(s, t)
           /\ LinkIds(s, t, i, k) \subseteq SentIds(s, t)
           /\ RoutedIds(s, t, i) \subseteq SentIds(s, t)
           /\ SpokenIds(s, t, i) \subseteq SentIds(s, t)
<1>0. UserOf[t] \in Users /\ i \in Peers /\ s \in Peers
  BY SessionsAssumption DEF Peers
<1>1. StoredIds(s, t) \subseteq SentIds(s, t)
  BY <1>0, HistorySent DEF StoredIds, Ids, SentIds
<1>2. ComingIds(s, t) \subseteq SentIds(s, t)
  BY FrameSent DEF ComingIds, FrameIds, Carries, SentIds
<1>3. WaitingIds(s, t, k) \subseteq SentIds(s, t)
  <2>1. TableIds(s, t) \subseteq SentIds(s, t)
    BY RowSent DEF TableIds, KnownRow, SentIds
  <2>2. RowIds(s, t, Owed(t, k)) \subseteq SentIds(s, t)
    BY OwedRows, RowSent DEF RowIds, SentIds
  <2> QED
    BY <2>1, <2>2 DEF WaitingIds
<1>4. \A j \in Servers : RoutedIds(s, t, j) \subseteq SentIds(s, t)
  BY RoutedSent, RoutedIdsAre DEF Routes, SentIds
<1>5. \A j \in Servers : \A p \in Peers : Ids(s, t, InLine(j, p)) \subseteq SentIds(s, t)
  BY LineSent DEF Ids, SentIds
<1> QED
  BY <1>0, <1>1, <1>2, <1>3, <1>4, <1>5 DEF LastIds, LinkIds, SpokenIds

-----------------------------------------------------------------------------

\* Before s or t has begun nothing is out of order.
LEMMA NoneIsOrdered ==
    ASSUME NEW s, NEW t
    PROVE  /\ \A q : Ids(s, t, q) = {} => Rising(s, t, q)
           /\ \A q : FrameIds(s, t, q) = {} => FramesRising(s, t, q)
           /\ \A q : RowIds(s, t, q) = {} => RowsRising(s, t, q)
BY DEF Ids, Rising, FrameIds, FramesRising, RowIds, RowsRising

LEMMA NothingBetween ==
    ASSUME TypeOK, SentInv, NEW s \in Sessions, NEW t \in Sessions,
           NEW i \in Servers, NEW k \in Servers, \A m \in sent : ~Between(s, t, m)
    PROVE  OrderAt(s, t, i, k)
<1>0. i \in Peers /\ s \in Peers
  BY DEF Peers
<1>1. SentIds(s, t) = {}
  BY DEF SentIds
<1>2. /\ StoredIds(s, t) = {} /\ ComingIds(s, t) = {} /\ WaitingIds(s, t, k) = {}
      /\ LastIds(s, t, i, k) = {} /\ LinkIds(s, t, i, k) = {} /\ RoutedIds(s, t, i) = {}
      /\ SpokenIds(s, t, i) = {}
  BY <1>1, StagesSent
<1>3. NoneOvertakes(s, t, i, k)
  BY <1>2 DEF NoneOvertakes, Chain, Under
<1>4. RowIds(s, t, Owed(t, k)) = {}
  BY OwedRows, RowSent DEF RowIds
<1>5. \A j \in Servers : \A p \in Peers : Ids(s, t, InLine(j, p)) = {}
  BY LineSent DEF Ids
<1>6. TableRises(s, t, i)
  BY RowSent DEF KnownRow, TableRises
<1>7. StagesRise(s, t, i, k)
  BY <1>0, <1>2, <1>4, <1>5, <1>6, NoneIsOrdered DEF StagesRise, StoredIds, ComingIds
<1> QED
  BY <1>3, <1>7 DEF OrderAt

LEMMA SameOrder ==
    ASSUME NEW s, NEW t, NEW i, NEW k, OrderAt(s, t, i, k),
           UNCHANGED << history, s2c, handler, pending, inbox, recvBuffer >>,
           Fresh(t)' <=> Fresh(t), phase'[t] = "exited" <=> phase[t] = "exited"
    PROVE  OrderAt(s, t, i, k)'
<1>1. /\ \A j, p : InLine(j, p)' = InLine(j, p)
      /\ Owed(t, k)' = Owed(t, k)
      /\ TableIds(s, t)' = TableIds(s, t)
      /\ TableRises(s, t, i)' = TableRises(s, t, i)
      /\ \A j : Routes(s, t, j)' = Routes(s, t, j)
  BY DEF InLine, Owed, TableIds, TableRises, Routes
<1>2. /\ StoredIds(s, t)' = StoredIds(s, t)
      /\ ComingIds(s, t)' = ComingIds(s, t)
  BY DEF StoredIds, ComingIds, Ids, FrameIds, Carries, Between
<1>3. WaitingIds(s, t, k)' = WaitingIds(s, t, k)
  <2>1. RowIds(s, t, Owed(t, k))' = RowIds(s, t, Owed(t, k)')
    BY DEF RowIds, Between
  <2> QED
    BY <1>1, <2>1 DEF WaitingIds
<1>4. \A j : RoutedIds(s, t, j)' = RoutedIds(s, t, j)
  BY <1>1 DEF RoutedIds
<1>5. \A j, p : Ids(s, t, InLine(j, p))' = Ids(s, t, InLine(j, p))
  BY <1>1 DEF Ids, Between
<1>6. NoneOvertakes(s, t, i, k)'
  BY <1>2, <1>3, <1>4, <1>5 DEF OrderAt, NoneOvertakes, LastIds, LinkIds, SpokenIds
<1>7. StagesRise(s, t, i, k)'
  <2>1. /\ Rising(s, t, history[UserOf[t]])' /\ FramesRising(s, t, s2c[t])'
        /\ Rising(s, t, InLine(k, i))' /\ Rising(s, t, InLine(i, s))'
        /\ RowsRising(s, t, Owed(t, k))'
    BY <1>1 DEF OrderAt, StagesRise, Rising, FramesRising, RowsRising, Carries, Between
  <2> QED
    BY <1>1, <2>1 DEF OrderAt, StagesRise
<1> QED
  BY <1>6, <1>7 DEF OrderAt

LEMMA OrderAtStart ==
    ASSUME TypeOK, SentInv, SpokeFirst,
           NEW s \in Sessions, NEW t \in Sessions, NEW i \in Servers, NEW k \in Servers,
           OnlyLogin(s), NEW j \in Servers, Allocate(s, j)
    PROVE  OrderAt(s, t, i, k)'
<1>1. /\ UNCHANGED << history, s2c, handler, pending, inbox, recvBuffer >>
      /\ phase[s] = "start" /\ phase' = [phase EXCEPT ![s] = "redirected"]
      /\ phase \in [Sessions -> Phases]
  BY DEF Allocate, TypeOK, dbVars
<1>2. \A m \in sent : ~Between(s, t, m)
  BY <1>1, NothingSaid DEF Between
<1>3. OrderAt(s, t, i, k)
  BY <1>2, NothingBetween
<1>4. (Fresh(t)' <=> Fresh(t)) /\ (phase'[t] = "exited" <=> phase[t] = "exited")
  BY <1>1 DEF Fresh
<1> QED
  BY <1>1, <1>3, <1>4, SameOrder

LEMMA OrderAtAllocated ==
    ASSUME TypeOK, LoginInv,
           NEW s \in Sessions, NEW t \in Sessions, NEW i \in Servers, NEW k \in Servers,
           NEW h \in Servers, PathAt(s, t, i, h), OrderAt(s, t, i, h),
           NEW j \in Servers, Allocate(t, j)
    PROVE  OrderAt(s, t, i, k)'
<1>1. /\ UNCHANGED << history, s2c, handler, pending, inbox, recvBuffer >>
      /\ phase[t] = "start" /\ phase' = [phase EXCEPT ![t] = "redirected"]
      /\ phase \in [Sessions -> Phases] /\ handler \in [Servers -> Handler]
  BY DEF Allocate, TypeOK, dbVars
<1>2. ~Committed(t) /\ i \in Peers /\ Fresh(t) /\ i # s
  BY <1>1, SessionsAssumption DEF Committed, Peers, Fresh
<1>3. \A x \in Servers : Ids(s, t, InLine(x, i)) = {}
  BY <1>2 DEF PathAt, LinesOnPath, OnPath
<1>4. \A x \in Servers : x # i => ~Routes(s, t, x)
  <2>1. ASSUME NEW x \in Servers, Routes(s, t, x)
        PROVE  x = i
    <3>1. handler[x].peer \in Peers
      BY <1>1, <2>1, HandlerFields DEF Routes
    <3> QED
      BY <1>2, <2>1, <3>1 DEF PathAt, RoutedOnPath, OnPath
  <2> QED
    BY <2>1
<1>5. \A x \in Servers : Owed(t, x) = << >>
  <2>1. \A x \in Servers : ~DrainsFor(handler[x], t)
    BY <1>1 DEF LoginInv, SessionFits, AtHome, Arrived
  <2> QED
    BY <2>1 DEF Owed
<1>6. OrderAt(s, t, i, k)
  <2>1. /\ LastIds(s, t, i, k) = {} /\ LastIds(s, t, i, h) = {}
        /\ LinkIds(s, t, i, k) = {} /\ LinkIds(s, t, i, h) = {}
    BY <1>3, <1>4, RoutedIdsAre DEF LastIds, LinkIds
  <2>2. WaitingIds(s, t, k) = WaitingIds(s, t, h)
    BY <1>2 DEF WaitingIds
  <2>3. NoneOvertakes(s, t, i, k)
    BY <2>1, <2>2 DEF OrderAt, NoneOvertakes
  <2>4. StagesRise(s, t, i, k)
    BY <1>3, <1>5, NoneIsOrdered DEF OrderAt, StagesRise
  <2> QED
    BY <2>3, <2>4 DEF OrderAt
<1>7. (Fresh(t)' <=> Fresh(t)) /\ (phase'[t] = "exited" <=> phase[t] = "exited")
  BY <1>1 DEF Fresh
<1> QED
  BY <1>1, <1>6, <1>7, SameOrder

-----------------------------------------------------------------------------

(***************************************************************************)
(* What a step may do to each stage.                                       *)
(***************************************************************************)
LEMMA HistoryStage ==
    ASSUME TypeOK, [Next]_vars, NEW t \in Sessions, OnlyLogin(t)
    PROVE  history'[UserOf[t]] = history[UserOf[t]] \/ ImportRow(t) \/ ReceiveMessage(t)
<1>1. history \in [Users -> Seq(Message)] /\ \A x \in Sessions : UserOf[x] \in Users
  BY SessionsAssumption DEF TypeOK
<1>2. ASSUME NEW x \in Sessions, ImportRow(x) \/ ReceiveMessage(x)
      PROVE  history'[UserOf[t]] = history[UserOf[t]] \/ ImportRow(t) \/ ReceiveMessage(t)
  <2>1. phase[x] # "start" /\ \E m : history' = [history EXCEPT ![UserOf[x]] = Append(@, m)]
    BY <1>2 DEF ImportRow, ReceiveMessage
  <2>2. CASE UserOf[x] = UserOf[t]
    <3>1. x = t
      BY <2>1, <2>2 DEF OnlyLogin
    <3> QED
      BY <1>2, <3>1
  <2>3. CASE UserOf[x] # UserOf[t]
    BY <1>1, <2>1, <2>3
  <2> QED
    BY <2>2, <2>3
<1> QED
  BY <1>2, StoreWriters

\* Message m is written to session t by server j.
WritesTo(j, t, m) ==
    \/ WriteRow(j) /\ handler[j].ses = t /\ m = Head(handler[j].rows).msg
    \/ RouteLocal(j) /\ RecipientSocket(j) = t /\ m = handler[j].msg

LEMMA WritesFrame ==
    ASSUME TypeOK, NEW j \in Servers, NEW t \in Sessions,
           \/ WriteRow(j) /\ handler[j].ses = t
           \/ RouteLocal(j) /\ RecipientSocket(j) = t
    PROVE  \E m \in Message : \E f \in Frame :
             /\ WritesTo(j, t, m) /\ WriteToClient(t, f) /\ f.kind # "count" /\ f.msg = m
<1>0. handler \in [Servers -> Handler]
  BY DEF TypeOK
<1>1. CASE WriteRow(j) /\ handler[j].ses = t
  <2>1. handler[j].step = "drain" /\ handler[j].rows \in Seq(Row) /\ handler[j].rows # << >>
    BY <1>0, <1>1, HandlerFields DEF WriteRow
  <2>2. Head(handler[j].rows) \in Row
    BY <2>1, HeadTail
  <2> PICK m \in Message : m = Head(handler[j].rows).msg
    BY <2>2 DEF Row
  <2>3. WriteToClient(t, RowFrame(m))
    BY <1>1 DEF WriteRow
  <2>4. RowFrame(m) \in Frame /\ RowFrame(m).kind # "count" /\ RowFrame(m).msg = m
    BY DEF RowFrame, Frame
  <2> QED
    BY <1>1, <2>3, <2>4 DEF WritesTo
<1>2. CASE RouteLocal(j) /\ RecipientSocket(j) = t
  <2>1. handler[j].step = "route"
    BY <1>2 DEF RouteLocal
  <2> PICK m \in Message : m = handler[j].msg
    BY <1>0, <2>1, HandlerFields
  <2>3. WriteToClient(t, LiveFrame(m))
    BY <1>2 DEF RouteLocal
  <2>4. LiveFrame(m) \in Frame /\ LiveFrame(m).kind # "count" /\ LiveFrame(m).msg = m
    BY DEF LiveFrame, Frame
  <2> QED
    BY <1>2, <2>3, <2>4 DEF WritesTo
<1> QED
  BY <1>1, <1>2

ComingSame(s, t) ==
    /\ FramesRising(s, t, s2c'[t])
    /\ FrameIds(s, t, s2c'[t]) \subseteq FrameIds(s, t, s2c[t])

LEMMA ComingStage ==
    ASSUME TypeOK, [Next]_vars, NEW s \in Sessions, NEW t \in Sessions,
           FramesRising(s, t, s2c[t])
    PROVE  \/ ComingSame(s, t)
           \/ \E j \in Servers : \E m \in Message : \E f \in Frame :
                /\ WritesTo(j, t, m) /\ Between(s, t, m) /\ phase[t] # "exited"
                /\ f.kind # "count" /\ f.msg = m /\ s2c'[t] = Append(s2c[t], f)
<1>1. s2c \in [Sessions -> Seq(Frame)]
  BY DEF TypeOK
<1> PICK q \in Seq(Frame) : q = s2c[t]
  BY <1>1
<1>2. CASE s2c'[t] = q
  BY <1>2 DEF ComingSame
<1>3. CASE s2c'[t] = << >>
  BY <1>3, NothingRises DEF ComingSame
<1>4. CASE q # << >> /\ s2c'[t] = Tail(q)
  BY <1>4, TailFramesRise DEF ComingSame
<1>5. ASSUME NEW f \in Frame, ~Carries(s, t, f), s2c'[t] = Append(q, f)
      PROVE  ComingSame(s, t)
  BY <1>5, AppendFramesRise DEF ComingSame
<1>6. CASE SessionSame(t)
  BY <1>2, <1>6 DEF SessionSame
<1>7. CASE ClientStep(t) \/ Exit(t) \/ \E k \in Servers : Allocate(t, k)
  <2>1. CASE Connect(t) \/ Greet(t) \/ AskUser(t) \/ \E k \in Servers : Allocate(t, k)
    BY <1>2, <2>1 DEF Connect, Greet, AskUser, Allocate
  <2>2. CASE Exit(t)
    BY <1>1, <1>3, <2>2 DEF Exit
  <2>3. CASE ReadCount(t) \/ ImportRow(t) \/ ReceiveMessage(t)
    BY <1>1, <1>4, <2>3 DEF ReadCount, ImportRow, ReceiveMessage
  <2> QED
    BY <1>7, <2>1, <2>2, <2>3 DEF ClientStep
<1>8. ASSUME NEW f, WriteToClient(t, f)
      PROVE  s2c'[t] = q \/ (phase[t] # "exited" /\ s2c'[t] = Append(q, f))
  BY <1>1, <1>8 DEF WriteToClient
<1>9. ASSUME NEW j \in Servers, RegisterClient(j), handler[j].ses = t
      PROVE  ComingSame(s, t)
  <2>1. handler[j].step = "hello"
    BY <1>9 DEF RegisterClient
  <2>2. PICK rows \in PendingFor(UserOf[t]) : WriteToClient(t, CountFrame(Len(rows)))
    BY <1>9 DEF RegisterClient
  <2>3. Len(rows) \in Nat
    BY PendingForRows DEF TypeOK
  <2> PICK f \in Frame : f = CountFrame(Len(rows))
    BY <2>3 DEF CountFrame, Frame
  <2>4. ~Carries(s, t, f)
    BY DEF CountFrame, Carries
  <2> QED
    BY <1>2, <1>5, <1>8, <2>2, <2>4
<1>10. ASSUME NEW j \in Servers,
              \/ WriteRow(j) /\ handler[j].ses = t
              \/ RouteLocal(j) /\ RecipientSocket(j) = t
       PROVE  \/ ComingSame(s, t)
              \/ \E m \in Message : \E f \in Frame :
                   /\ WritesTo(j, t, m) /\ Between(s, t, m) /\ phase[t] # "exited"
                   /\ f.kind # "count" /\ f.msg = m /\ s2c'[t] = Append(s2c[t], f)
  <2>1. PICK m \in Message : \E f \in Frame :
             /\ WritesTo(j, t, m) /\ WriteToClient(t, f) /\ f.kind # "count" /\ f.msg = m
    BY <1>10, WritesFrame
  <2>2. PICK f \in Frame :
             /\ WritesTo(j, t, m) /\ WriteToClient(t, f) /\ f.kind # "count" /\ f.msg = m
    BY <2>1
  <2>3. CASE s2c'[t] = q
    BY <1>2, <2>3
  <2>4. CASE phase[t] # "exited" /\ s2c'[t] = Append(q, f)
    BY <1>5, <2>2, <2>4 DEF Carries
  <2> QED
    BY <1>8, <2>2, <2>3, <2>4
<1> QED
  BY <1>6, <1>7, <1>9, <1>10, WhoSees

LEMMA LineStage ==
    ASSUME TypeOK, SentInv, [Next]_vars, NEW s \in Sessions, NEW t \in Sessions,
           NEW j \in Servers, NEW p \in Peers, Rising(s, t, InLine(j, p)),
           p \in Servers /\ RouteForward(p) /\ handler[p].seen = j /\ Routes(s, t, p) =>
             \A x \in Ids(s, t, InLine(j, p)) : x < handler[p].msg.id
    PROVE  Rising(s, t, InLine(j, p)')
<1>0. /\ handler \in [Servers -> Handler] /\ nextId \in Nat
      /\ \A x \in Sessions : UserOf[x] \in Users
  BY SessionsAssumption DEF TypeOK
<1>1. InLine(j, p) \in Seq(Message)
  BY LineTyped DEF InLine
<1> PICK q \in Seq(Message) : q = InLine(j, p)
  BY <1>1
<1>2. ASSUME NEW v \in Users, p \in Sessions, InLine(j, p)' = Append(q, NewMessage(p, v))
      PROVE  Rising(s, t, InLine(j, p)')
  <2> PICK m \in Message : m = NewMessage(p, v)
    BY <1>0, <1>2 DEF NewMessage, Message
  <2>1. \A x \in Ids(s, t, q) : x < m.id
    BY LineIdsSent DEF SentInv, NewMessage
  <2> QED
    BY <1>2, <2>1, AppendRises
<1>3. ASSUME p \in Servers, RouteForward(p), handler[p].seen = j,
             InLine(j, p)' = Append(q, handler[p].msg)
      PROVE  Rising(s, t, InLine(j, p)')
  <2>1. handler[p].step = "route"
    BY <1>3 DEF RouteForward, Elsewhere
  <2> PICK m \in Message : m = handler[p].msg
    BY <1>0, <1>3, <2>1, HandlerFields
  <2>2. Between(s, t, m) => \A x \in Ids(s, t, q) : x < m.id
    BY <1>3, <2>1 DEF Routes
  <2> QED
    BY <1>3, <2>2, AppendRises
<1>4. CASE InLine(j, p)' = q
  BY <1>4
<1>5. CASE InLine(j, p)' = << >>
  BY <1>5, NothingRises
<1>6. CASE q # << >> /\ InLine(j, p)' = Tail(q)
  BY <1>6, TailRises
<1> QED
  BY <1>2, <1>3, <1>4, <1>5, <1>6, LineStep DEF LineMoves

-----------------------------------------------------------------------------

LEMMA OwedStage ==
    ASSUME TypeOK, [Next]_vars, NEW t \in Sessions, NEW k \in Servers
    PROVE  \/ Owed(t, k)' = Owed(t, k)
           \/ Owed(t, k)' = << >>
           \/ /\ WriteRow(k) /\ handler[k].ses = t /\ Owed(t, k) = handler[k].rows
              /\ Owed(t, k) # << >> /\ Owed(t, k)' = Tail(Owed(t, k))
           \/ /\ RegisterClient(k) /\ handler[k].ses = t /\ phase[t] # "exited"
              /\ \E q \in PendingFor(UserOf[t]) : Owed(t, k)' = q
<1>0. handler \in [Servers -> Handler]
  BY DEF TypeOK
<1>1. CASE Owed(t, k)' = << >>
  BY <1>1
<1> SUFFICES ASSUME Owed(t, k)' # << >>
             PROVE  \/ Owed(t, k)' = Owed(t, k)
                    \/ /\ WriteRow(k) /\ handler[k].ses = t /\ Owed(t, k) = handler[k].rows
                       /\ Owed(t, k) # << >> /\ Owed(t, k)' = Tail(Owed(t, k))
                    \/ /\ RegisterClient(k) /\ handler[k].ses = t /\ phase[t] # "exited"
                       /\ \E q \in PendingFor(UserOf[t]) : Owed(t, k)' = q
  BY <1>1
<1>2. /\ phase'[t] # "exited" /\ handler'[k].step = "drain" /\ handler'[k].ses = t
      /\ Owed(t, k)' = Unwritten(handler'[k])
  BY DEF Owed, DrainsFor, Unwritten
<1>3. phase[t] # "exited"
  BY <1>2, PhaseStep DEF PhaseMoves
<1>4. CASE handler'[k] = handler[k]
  BY <1>2, <1>3, <1>4 DEF Owed, DrainsFor, Unwritten
<1>5. ASSUME NEW x, NEW q, handler'[k] = Drain(x, q)
      PROVE  x = t /\ Owed(t, k)' = q
  <2>1. Drain(x, q).ses = x /\ Drain(x, q).rows = q
    BY <1>2, <1>5, DrainHas
  <2>2. ~Drain(x, q).written
    BY <1>2, <1>5 DEF Drain, Idle
  <2> QED
    BY <1>2, <1>5, <2>1, <2>2 DEF Unwritten
<1>6. CASE RegisterClient(k)
  <2>1. PICK q \in PendingFor(UserOf[handler[k].ses]) :
          handler' = [handler EXCEPT ![k] = Drain(handler[k].ses, q)]
    BY <1>6 DEF RegisterClient
  <2>2. handler'[k] = Drain(handler[k].ses, q)
    BY <1>0, <2>1
  <2> QED
    BY <1>3, <1>5, <1>6, <2>2
<1>7. CASE WriteRow(k)
  <2>1. /\ handler[k].step = "drain" /\ ~handler[k].written
        /\ handler'[k] = [handler[k] EXCEPT !.written = TRUE]
    BY <1>0, <1>7 DEF WriteRow
  <2>2. /\ handler[k] \in [step : {"drain"}, ses : Sessions,
                           rows : Seq(Row) \ {<< >>}, written : BOOLEAN]
    BY <1>0, <2>1, DrainFields
  <2>3. /\ handler'[k].written /\ handler'[k].rows = handler[k].rows
        /\ handler'[k].ses = handler[k].ses
    BY <2>1, <2>2
  <2>4. Owed(t, k) = handler[k].rows
    BY <1>2, <1>3, <2>1, <2>3 DEF Owed, DrainsFor, Unwritten
  <2>5. Owed(t, k)' = Tail(handler[k].rows)
    BY <1>2, <2>3 DEF Unwritten
  <2> QED
    BY <1>2, <1>7, <2>2, <2>3, <2>4, <2>5
<1>8. CASE DeleteRow(k)
  <2>1. /\ handler[k].step = "drain" /\ handler[k].written
        /\ handler'[k] = Drain(handler[k].ses, Tail(handler[k].rows))
    BY <1>0, <1>8 DEF DeleteRow
  <2>2. handler[k].ses = t /\ Owed(t, k)' = Tail(handler[k].rows)
    BY <1>5, <2>1
  <2>3. Owed(t, k) = Tail(handler[k].rows)
    BY <1>3, <2>1, <2>2 DEF Owed, DrainsFor, Unwritten
  <2> QED
    BY <2>2, <2>3
<1> QED
  BY <1>2, <1>4, <1>6, <1>7, <1>8, DrainedBefore

\* A session that is registered is fresh, or has ended.
LEMMA RegistersFresh ==
    ASSUME TypeOK, LoginInv, NEW t \in Sessions, NEW k \in Servers, RegisterClient(k),
           handler[k].ses = t
    PROVE  k = home[t] /\ (Fresh(t) \/ phase[t] = "exited")
<1>1. WaitsAt(k, t)
  BY DEF RegisterClient, WaitsAt
<1>2. k = home[t]
  BY <1>1 DEF LoginInv, SessionFits, AtHome
<1> QED
  BY <1>1, <1>2 DEF LoginInv, SessionFits, Waiting, Fresh

TableGrows(s, t, j) ==
    /\ RoutePending(j) /\ Routes(s, t, j)
    /\ TableIds(s, t)' = TableIds(s, t) \cup {handler[j].msg.id}

LEMMA TableStep ==
    ASSUME TypeOK, [Next]_vars, NEW s, NEW t
    PROVE  \/ pending' \subseteq pending /\ TableIds(s, t)' \subseteq TableIds(s, t)
           \/ \E j \in Servers : /\ RoutePending(j) /\ ~Routes(s, t, j)
                                 /\ TableIds(s, t)' \subseteq TableIds(s, t)
           \/ \E j \in Servers : TableGrows(s, t, j)
<1>1. CASE pending' \subseteq pending
  BY <1>1 DEF TableIds, Between
<1>2. ASSUME NEW j \in Servers, RoutePending(j)
      PROVE  \/ ~Routes(s, t, j) /\ TableIds(s, t)' \subseteq TableIds(s, t)
             \/ TableGrows(s, t, j)
  <2>1. /\ pending' = pending \cup {NewRow(j)} /\ handler[j].step = "route"
    BY <1>2 DEF RoutePending, Elsewhere, NewRow
  <2> PICK r : r = NewRow(j)
    OBVIOUS
  <2>2. r.msg = handler[j].msg /\ pending' = pending \cup {r}
    BY <2>1 DEF NewRow
  <2>3. TableIds(s, t)' = {q.msg.id : q \in {q \in pending \cup {r} : Between(s, t, q.msg)}}
    BY <2>2 DEF TableIds, Between
  <2>4. CASE Routes(s, t, j)
    <3>1. Between(s, t, r.msg)
      BY <2>2, <2>4 DEF Routes
    <3>2. TableIds(s, t)' = TableIds(s, t) \cup {r.msg.id}
      BY <2>3, <3>1 DEF TableIds
    <3> QED
      BY <1>2, <2>2, <2>4, <3>2 DEF TableGrows
  <2>5. CASE ~Routes(s, t, j)
    <3>1. ~Between(s, t, r.msg)
      BY <2>1, <2>2, <2>5 DEF Routes
    <3>2. TableIds(s, t)' \subseteq TableIds(s, t)
      BY <2>3, <3>1 DEF TableIds
    <3> QED
      BY <2>5, <3>2
  <2> QED
    BY <2>4, <2>5
<1>3. ASSUME NEW j \in Servers, DeleteRow(j)
      PROVE  pending' \subseteq pending
  BY <1>3 DEF DeleteRow, Kept
<1> QED
  BY <1>1, <1>2, <1>3, PendingWriters

LEMMA TableStage ==
    ASSUME TypeOK, DrainInv, [Next]_vars, NEW s, NEW t, NEW i, TableRises(s, t, i),
           \A j \in Servers : TableGrows(s, t, j) =>
             j = i /\ \A x \in TableIds(s, t) : x < handler[j].msg.id
    PROVE  TableRises(s, t, i)'
<1>1. CASE pending' \subseteq pending
  BY <1>1 DEF TableRises, Between
<1>2. ASSUME NEW j \in Servers, RoutePending(j), TableGrows(s, t, j) \/ ~Routes(s, t, j)
      PROVE  TableRises(s, t, i)'
  <2> PICK r : r = NewRow(j)
    OBVIOUS
  <2>1. /\ pending' = pending \cup {r} /\ handler[j].step = "route"
        /\ r.msg = handler[j].msg /\ r.via = j /\ r.msgid = nextMsgid
    BY <1>2 DEF RoutePending, Elsewhere, NewRow
  <2>2. \A q \in pending : q.msgid < r.msgid /\ q.msgid \in Nat
    BY <2>1 DEF DrainInv, MsgidsUsed, KnownRow, TypeOK, Row
  <2>3. Between(s, t, r.msg) =>
          r.via = i /\ \A q \in pending : Between(s, t, q.msg) => q.msg.id < r.msg.id
    BY <1>2, <2>1 DEF Routes, TableIds
  <2>4. r.msgid \in Nat
    BY <2>1 DEF TypeOK
  <2>5. /\ \A q \in pending' : Between(s, t, q.msg) => q.via = i
        /\ \A p, q \in pending' : Between(s, t, p.msg) /\ Between(s, t, q.msg) /\ p.msgid < q.msgid
             => p.msg.id < q.msg.id
    <3>1. \A q \in pending' : q = r \/ q \in pending
      BY <2>1
    <3>2. ~(r.msgid < r.msgid) /\ \A q \in pending : ~(r.msgid < q.msgid)
      BY <2>2, <2>4
    <3> QED
      BY <2>3, <3>1, <3>2 DEF TableRises
  <2> QED
    BY <2>5 DEF TableRises, Between
<1> QED
  BY <1>1, <1>2, TableStep DEF TableGrows

-----------------------------------------------------------------------------

\* What a drain selects from the table is in order, and in the table.
LEMMA SelectedRises ==
    ASSUME TypeOK, DrainInv, NEW s \in Sessions, NEW t \in Sessions, NEW i,
           TableRises(s, t, i), NEW q \in PendingFor(UserOf[t])
    PROVE  RowsRising(s, t, q) /\ RowIds(s, t, q) \subseteq TableIds(s, t)
<1>1. \A n \in DOMAIN q : q[n] \in pending
  BY RowsSelected DEF RowsStillThere
<1>2. \A a, b \in DOMAIN q : a < b => SentBefore(q[a], q[b])
  BY DEF PendingFor
<1>3. RowIds(s, t, q) \subseteq TableIds(s, t)
  BY <1>1 DEF RowIds, TableIds
<1>4. RowsRising(s, t, q)
  BY <1>1, <1>2 DEF RowsRising, TableRises, SentBefore
<1> QED
  BY <1>3, <1>4

\* A row owed is written, or stays; what is owed after a registration was in the table.
LEMMA WaitingStage ==
    ASSUME TypeOK, LoginInv, DrainInv, [Next]_vars, NEW s \in Sessions, NEW t \in Sessions,
           NEW i \in Servers, NEW k \in Servers, k = home[t], RowsRising(s, t, Owed(t, k)),
           Fresh(t) => TableRises(s, t, i)
    PROVE  /\ RowsRising(s, t, Owed(t, k)')
           /\ \/ WaitingIds(s, t, k)' \subseteq WaitingIds(s, t, k)
              \/ Fresh(t) /\ \E j \in Servers :
                   /\ TableGrows(s, t, j)
                   /\ WaitingIds(s, t, k)' = WaitingIds(s, t, k) \cup {handler[j].msg.id}
<1>1. Owed(t, k) \in Seq(Row)
  BY OwedRows
<1>2. RowIds(s, t, Owed(t, k))' = RowIds(s, t, Owed(t, k)')
  BY DEF RowIds, Between
<1>3. Fresh(t) => Owed(t, k) = << >>
  BY FreshIsEmpty DEF Owed
<1> PICK q \in Seq(Row) : q = Owed(t, k)
  BY <1>1
<1>4. \/ /\ RowsRising(s, t, Owed(t, k)')
         /\ RowIds(s, t, Owed(t, k)') \subseteq RowIds(s, t, q)
      \/ /\ Fresh(t) /\ RegisterClient(k) /\ handler[k].ses = t
         /\ RowsRising(s, t, Owed(t, k)')
         /\ RowIds(s, t, Owed(t, k)') \subseteq TableIds(s, t)
  <2>1. CASE Owed(t, k)' = q
    BY <2>1
  <2>2. CASE Owed(t, k)' = << >>
    BY <2>2, NothingRises
  <2>3. CASE q # << >> /\ Owed(t, k)' = Tail(q)
    BY <2>3, TailRowsRise
  <2>4. CASE /\ RegisterClient(k) /\ handler[k].ses = t /\ phase[t] # "exited"
             /\ \E x \in PendingFor(UserOf[t]) : Owed(t, k)' = x
    <3>1. Fresh(t)
      BY <2>4, RegistersFresh
    <3> QED
      BY <2>4, <3>1, SelectedRises
  <2> QED
    BY <2>1, <2>2, <2>3, <2>4, OwedStage
<1>5. CASE Fresh(t)'
  <2>1. Fresh(t)
    BY <1>5, FreshBefore
  <2>2. WaitingIds(s, t, k) = TableIds(s, t) /\ WaitingIds(s, t, k)' = TableIds(s, t)'
    BY <1>5, <2>1 DEF WaitingIds
  <2>3. RowsRising(s, t, Owed(t, k)')
    BY <1>4
  <2>4. \/ TableIds(s, t)' \subseteq TableIds(s, t)
        \/ \E j \in Servers : TableGrows(s, t, j)
    BY TableStep
  <2> QED
    BY <2>1, <2>2, <2>3, <2>4 DEF TableGrows
<1>6. CASE ~Fresh(t)'
  <2>1. WaitingIds(s, t, k)' = RowIds(s, t, Owed(t, k)')
    BY <1>2, <1>6 DEF WaitingIds
  <2>2. CASE Fresh(t)
    <3>1. RowIds(s, t, q) = {}
      BY <1>3, <2>2, NothingRises
    <3>2. WaitingIds(s, t, k) = TableIds(s, t)
      BY <2>2 DEF WaitingIds
    <3> QED
      BY <1>4, <2>1, <3>1, <3>2
  <2>3. CASE ~Fresh(t)
    <3>1. WaitingIds(s, t, k) = RowIds(s, t, q)
      BY <2>3 DEF WaitingIds
    <3> QED
      BY <1>4, <2>1, <2>3, <3>1
  <2> QED
    BY <2>2, <2>3
<1> QED
  BY <1>5, <1>6

\* The ids a server routes.
LEMMA RoutedStage ==
    ASSUME TypeOK, [Next]_vars, NEW s \in Sessions, NEW t \in Sessions, NEW j \in Servers
    PROVE  \/ RoutedIds(s, t, j)' \subseteq RoutedIds(s, t, j)
           \/ \E p \in Peers : \E m \in Message :
                /\ ReadMessage(j, p) /\ m = Head(InLine(j, p)) /\ Between(s, t, m)
                /\ m.id \in Ids(s, t, InLine(j, p))
                /\ RoutedIds(s, t, j)' = {m.id}
<1>1. RoutedIds(s, t, j)' = {m.id : m \in {m \in {handler'[j].msg} : Routes(s, t, j)'}}
  BY DEF RoutedIds
<1>2. CASE ~Routes(s, t, j)'
  BY <1>1, <1>2
<1>3. CASE Routes(s, t, j)'
  <2>1. RoutedIds(s, t, j)' = {handler'[j].msg.id}
    BY <1>1, <1>3
  <2>2. CASE handler'[j] = handler[j] /\ Routes(s, t, j)
    BY <2>1, <2>2, RoutedIdsAre
  <2>3. ASSUME NEW p \in Peers, NEW m \in Message, handler'[j] = Route(p, m, connectedto[m.to])
        PROVE  RoutedIds(s, t, j)' = {m.id}
    BY <2>1, <2>3 DEF Route
  <2> QED
    BY <1>3, <2>2, <2>3, RoutesStep
<1> QED
  BY <1>2, <1>3

-----------------------------------------------------------------------------

\* A stage whose variables stay.
LEMMA StagesSame ==
    ASSUME NEW s, NEW t, NEW i, NEW k
    PROVE  /\ history' = history => StoredIds(s, t)' = StoredIds(s, t)
           /\ s2c' = s2c => ComingIds(s, t)' = ComingIds(s, t)
           /\ UNCHANGED << inbox, recvBuffer >> =>
                /\ LinkIds(s, t, i, k)' = LinkIds(s, t, i, k)
                /\ SpokenIds(s, t, i)' = SpokenIds(s, t, i)
           /\ \A j : handler'[j] = handler[j] => RoutedIds(s, t, j)' = RoutedIds(s, t, j)
           /\ \A j : handler'[j].step # "route" => RoutedIds(s, t, j)' = {}
<1>1. history' = history => StoredIds(s, t)' = StoredIds(s, t)
  BY DEF StoredIds, Ids, Between
<1>2. s2c' = s2c => ComingIds(s, t)' = ComingIds(s, t)
  BY DEF ComingIds, FrameIds, Carries, Between
<1>3. ASSUME UNCHANGED << inbox, recvBuffer >>
      PROVE  /\ LinkIds(s, t, i, k)' = LinkIds(s, t, i, k)
             /\ SpokenIds(s, t, i)' = SpokenIds(s, t, i)
  <2>1. \A j, p : InLine(j, p)' = InLine(j, p)
    BY <1>3 DEF InLine
  <2>2. \A j, p : Ids(s, t, InLine(j, p))' = Ids(s, t, InLine(j, p))
    BY <2>1 DEF Ids, Between
  <2> QED
    BY <2>2 DEF LinkIds, SpokenIds
<1>4. \A j : handler'[j] = handler[j] => RoutedIds(s, t, j)' = RoutedIds(s, t, j)
  BY DEF RoutedIds, Routes, Between
<1>5. \A j : handler'[j].step # "route" => RoutedIds(s, t, j)' = {}
  BY DEF RoutedIds, Routes
<1> QED
  BY <1>1, <1>2, <1>3, <1>4, <1>5

LEMMA WaitingKept ==
    ASSUME TypeOK, LoginInv, DrainInv, [Next]_vars, NEW s \in Sessions, NEW t \in Sessions,
           NEW i \in Servers, NEW k \in Servers, k = home[t], StagesRise(s, t, i, k),
           nextMsgid' = nextMsgid
    PROVE  WaitingIds(s, t, k)' \subseteq WaitingIds(s, t, k)
<1>1. \A j : ~TableGrows(s, t, j)
  <2>1. \A j : TableGrows(s, t, j) => nextMsgid' = nextMsgid + 1
    BY DEF TableGrows, RoutePending
  <2>2. nextMsgid \in Nat
    BY DEF TypeOK
  <2> QED
    BY <2>1, <2>2
<1> QED
  BY <1>1, WaitingStage DEF StagesRise

\* The frame a client stores.
LEMMA StoreOrder ==
    ASSUME TypeOK, LoginInv, DrainInv, [Next]_vars, NEW s \in Sessions, NEW t \in Sessions,
           NEW i \in Servers, NEW k \in Servers, k = home[t], OrderAt(s, t, i, k),
           ImportRow(t) \/ ReceiveMessage(t)
    PROVE  Rising(s, t, history'[UserOf[t]]) /\ NoneOvertakes(s, t, i, k)'
<1> PICK u \in Users : u = UserOf[t]
  BY SessionsAssumption
<1>1. /\ s2c \in [Sessions -> Seq(Frame)] /\ history \in [Users -> Seq(Message)]
  BY DEF TypeOK
<1>2. /\ s2c[t] # << >> /\ Head(s2c[t]).kind # "count"
      /\ history' = [history EXCEPT ![u] = Append(@, Head(s2c[t]).msg)]
      /\ s2c' = [s2c EXCEPT ![t] = Tail(@)]
      /\ UNCHANGED << nextMsgid, handler, inbox, recvBuffer >>
  BY DEF ImportRow, ReceiveMessage, dbVars
<1> PICK q \in Seq(Frame), h \in Seq(Message) : q = s2c[t] /\ h = history[u]
  BY <1>1
<1>3. Head(q) \in Frame
  BY <1>2, HeadTail
<1> PICK m \in Message : m = Head(q).msg
  BY <1>2, <1>3 DEF Frame
<1>4. history'[u] = Append(h, m) /\ s2c'[t] = Tail(q)
  BY <1>1, <1>2
<1>5. /\ StoredIds(s, t) = Ids(s, t, h) /\ ComingIds(s, t) = FrameIds(s, t, q)
      /\ Rising(s, t, h) /\ FramesRising(s, t, q)
      /\ Chain(StoredIds(s, t), ComingIds(s, t), WaitingIds(s, t, k), LastIds(s, t, i, k),
               LinkIds(s, t, i, k), RoutedIds(s, t, i), SpokenIds(s, t, i))
  BY DEF StoredIds, ComingIds, OrderAt, StagesRise, NoneOvertakes
<1>6. /\ FrameIds(s, t, Tail(q)) \subseteq FrameIds(s, t, q)
      /\ Between(s, t, m) => /\ m.id \in FrameIds(s, t, q)
                             /\ \A y \in FrameIds(s, t, Tail(q)) : m.id < y
  BY <1>2, <1>5, TailFramesRise DEF Carries
<1>7. Between(s, t, m) => \A x \in Ids(s, t, h) : x < m.id
  BY <1>5, <1>6 DEF Chain, Under
<1>8. /\ Rising(s, t, Append(h, m))
      /\ Ids(s, t, Append(h, m)) = Ids(s, t, h) \cup IF Between(s, t, m) THEN {m.id} ELSE {}
  BY <1>5, <1>7, AppendRises
<1>9. /\ StoredIds(s, t)' = Ids(s, t, Append(h, m))
      /\ ComingIds(s, t)' = FrameIds(s, t, Tail(q))
  BY <1>4 DEF StoredIds, ComingIds, Ids, FrameIds, Carries, Between
<1>10. /\ LastIds(s, t, i, k)' = LastIds(s, t, i, k)
       /\ LinkIds(s, t, i, k)' = LinkIds(s, t, i, k)
       /\ RoutedIds(s, t, i)' = RoutedIds(s, t, i)
       /\ SpokenIds(s, t, i)' = SpokenIds(s, t, i)
  BY <1>2, StagesSame DEF LastIds
<1>11. WaitingIds(s, t, k)' \subseteq WaitingIds(s, t, k)
  BY <1>2, WaitingKept DEF OrderAt
<1> DEFINE H == StoredIds(s, t)
           F == ComingIds(s, t)
           F2 == FrameIds(s, t, Tail(q))
           W == WaitingIds(s, t, k)
           W2 == WaitingIds(s, t, k)'
           R == LastIds(s, t, i, k)
           L == LinkIds(s, t, i, k)
           Q == RoutedIds(s, t, i)
           M == SpokenIds(s, t, i)
<1>12. /\ Chain(H, F, W, R, L, Q, M) /\ F2 \subseteq F /\ W2 \subseteq W
       /\ Between(s, t, m) => m.id \in F /\ \A y \in F2 : m.id < y
  BY <1>5, <1>6, <1>11
<1> HIDE DEF H, F, F2, W, W2, R, L, Q, M
<1>13. CASE Between(s, t, m)
  <2>1. Chain(H \cup {m.id}, F2, W, R, L, Q, M)
    BY <1>12, <1>13, ChainStored
  <2>2. Chain(H \cup {m.id}, F2, W2, R, L, Q, M)
    BY <1>12, <2>1, ChainShrinks
  <2>3. StoredIds(s, t)' = H \cup {m.id}
    BY <1>5, <1>8, <1>9, <1>13 DEF H
  <2> QED
    BY <1>4, <1>8, <1>9, <1>10, <2>2, <2>3 DEF NoneOvertakes, F2, W2, R, L, Q, M
<1>14. CASE ~Between(s, t, m)
  <2>1. Chain(H, F2, W2, R, L, Q, M)
    BY <1>12, ChainShrinks
  <2>2. StoredIds(s, t)' = H
    BY <1>5, <1>8, <1>9, <1>14 DEF H
  <2> QED
    BY <1>4, <1>8, <1>9, <1>10, <2>1, <2>2 DEF NoneOvertakes, F2, W2, R, L, Q, M
<1> QED
  BY <1>13, <1>14

-----------------------------------------------------------------------------

\* A frame with a message of s is written to t.
FrameOrder(s, t, i, k) == FramesRising(s, t, s2c'[t]) /\ NoneOvertakes(s, t, i, k)'

FrameGained(s, t, m) ==
    FramesRising(s, t, s2c'[t]) /\ ComingIds(s, t)' = ComingIds(s, t) \cup {m.id}

LEMMA FrameAppended ==
    ASSUME TypeOK, NEW s \in Sessions, NEW t \in Sessions, NEW m \in Message, NEW f \in Frame,
           FramesRising(s, t, s2c[t]), Between(s, t, m), f.kind # "count", f.msg = m,
           s2c'[t] = Append(s2c[t], f), \A x \in ComingIds(s, t) : x < m.id
    PROVE  FrameGained(s, t, m)
<1>1. s2c[t] \in Seq(Frame)
  BY DEF TypeOK
<1> PICK q \in Seq(Frame) : q = s2c[t]
  BY <1>1
<1>2. Carries(s, t, f)
  BY DEF Carries
<1>3. ComingIds(s, t) = FrameIds(s, t, q)
  BY DEF ComingIds
<1>4. ComingIds(s, t)' = FrameIds(s, t, Append(q, f))
  BY DEF ComingIds, FrameIds, Carries, Between
<1>5. /\ FramesRising(s, t, Append(q, f))
      /\ FrameIds(s, t, Append(q, f)) = FrameIds(s, t, q) \cup {f.msg.id}
  BY <1>2, <1>3, AppendFramesRise
<1> QED
  BY <1>3, <1>4, <1>5 DEF FrameGained

LEMMA WriteRowOrder ==
    ASSUME TypeOK, LoginInv, [Next]_vars, NEW s \in Sessions, NEW t \in Sessions,
           NEW i \in Servers, NEW k \in Servers, k = home[t], OrderAt(s, t, i, k),
           NEW j \in Servers, WriteRow(j), handler[j].ses = t,
           NEW m \in Message, m = Head(handler[j].rows).msg, Between(s, t, m), phase[t] # "exited",
           NEW f \in Frame, f.kind # "count", f.msg = m, s2c'[t] = Append(s2c[t], f)
    PROVE  FrameOrder(s, t, i, k)
<1>1. /\ handler \in [Servers -> Handler]
      /\ handler[j].step = "drain" /\ ~handler[j].written
      /\ handler' = [handler EXCEPT ![j].written = TRUE]
      /\ UNCHANGED << phase, history, inbox, recvBuffer >>
  BY DEF WriteRow, TypeOK, sessionVars, readerVars
<1>2. ~Fresh(t) /\ j = k
  BY WrittenWhere
<1>3. ~Fresh(t)'
  BY <1>2, FreshBefore
<1>4. handler[k] \in [step : {"drain"}, ses : Sessions,
                      rows : Seq(Row) \ {<< >>}, written : BOOLEAN]
  BY <1>1, <1>2, DrainFields
<1> PICK q \in Seq(Row) : q = handler[k].rows /\ q # << >>
  BY <1>4
<1>5. /\ handler'[k] = [handler[k] EXCEPT !.written = TRUE]
      /\ \A x \in Servers \ {k} : handler'[x] = handler[x]
  BY <1>1, <1>2
<1>6. /\ handler'[k].step = "drain" /\ handler'[k].ses = t /\ handler'[k].written
      /\ handler'[k].rows = q
  BY <1>2, <1>4, <1>5
<1>7. Owed(t, k) = q
  BY <1>1, <1>2 DEF Owed, DrainsFor, Unwritten
<1>8. Owed(t, k)' = Tail(q)
  BY <1>1, <1>6 DEF Owed, DrainsFor, Unwritten
<1>9. WaitingIds(s, t, k) = RowIds(s, t, q) /\ WaitingIds(s, t, k)' = RowIds(s, t, Tail(q))
  <2>1. RowIds(s, t, Owed(t, k))' = RowIds(s, t, Owed(t, k)')
    BY DEF RowIds, Between
  <2> QED
    BY <1>2, <1>3, <1>7, <1>8, <2>1 DEF WaitingIds
<1>10. /\ RowIds(s, t, Tail(q)) \subseteq RowIds(s, t, q)
       /\ m.id \in RowIds(s, t, q) /\ \A y \in RowIds(s, t, Tail(q)) : m.id < y
  <2>1. RowsRising(s, t, q)
    BY <1>7 DEF OrderAt, StagesRise
  <2>2. m = Head(q).msg /\ Between(s, t, Head(q).msg)
    BY <1>2
  <2>3. /\ RowIds(s, t, Tail(q)) \subseteq RowIds(s, t, q)
        /\ Head(q).msg.id \in RowIds(s, t, q)
        /\ \A y \in RowIds(s, t, Tail(q)) : Head(q).msg.id < y
    BY <2>1, <2>2, TailRowsRise
  <2> QED
    BY <2>2, <2>3
<1> DEFINE H == StoredIds(s, t)
           F == ComingIds(s, t)
           W == WaitingIds(s, t, k)
           W2 == WaitingIds(s, t, k)'
           R == LastIds(s, t, i, k)
           L == LinkIds(s, t, i, k)
           Q == RoutedIds(s, t, i)
           M == SpokenIds(s, t, i)
<1>11. /\ Chain(H, F, W, R, L, Q, M) /\ m.id \in W /\ W2 \subseteq W
       /\ \A y \in W2 : m.id < y
  BY <1>9, <1>10 DEF OrderAt, NoneOvertakes
<1>12. \A x \in Servers : RoutedIds(s, t, x)' \subseteq RoutedIds(s, t, x)
  BY <1>5, <1>6, StagesSame
<1>13. /\ StoredIds(s, t)' = H /\ LinkIds(s, t, i, k)' = L /\ SpokenIds(s, t, i)' = M
       /\ RoutedIds(s, t, i)' \subseteq Q /\ LastIds(s, t, i, k)' \subseteq R
  BY <1>1, <1>12, StagesSame DEF LastIds
<1>14. \A x \in F : x < m.id
  BY <1>11 DEF Chain, Under
<1>15. /\ FramesRising(s, t, s2c'[t])
       /\ ComingIds(s, t)' = F \cup {m.id}
  <2>1. FramesRising(s, t, s2c[t])
    BY DEF OrderAt, StagesRise
  <2>2. \A x \in ComingIds(s, t) : x < m.id
    BY <1>14
  <2> HIDE DEF F
  <2>3. FrameGained(s, t, m)
    BY <2>1, <2>2, FrameAppended
  <2> QED
    BY <2>3 DEF FrameGained, F
<1> HIDE DEF H, F, W, W2, R, L, Q, M
<1>16. Chain(H, F \cup {m.id}, W2, R, L, Q, M)
  BY <1>11, ChainRowWritten
<1>17. Chain(H, F \cup {m.id}, W2, LastIds(s, t, i, k)', L, RoutedIds(s, t, i)', M)
  BY <1>13, <1>16, ChainShrinks
<1> QED
  BY <1>13, <1>15, <1>17 DEF NoneOvertakes, FrameOrder, W2

LEMMA RouteLocalOrder ==
    ASSUME TypeOK, LoginInv, DrainInv, [Next]_vars, NEW s \in Sessions, NEW t \in Sessions,
           NEW i \in Servers, NEW k \in Servers, k = home[t], OrderAt(s, t, i, k),
           NEW j \in Servers, RouteLocal(j), RecipientSocket(j) = t,
           NEW m \in Message, m = handler[j].msg, Between(s, t, m), phase[t] # "exited",
           NEW f \in Frame, f.kind # "count", f.msg = m, s2c'[t] = Append(s2c[t], f)
    PROVE  FrameOrder(s, t, i, k)
<1>1. /\ handler \in [Servers -> Handler]
      /\ handler[j].step = "route" /\ handler' = [handler EXCEPT ![j] = Idle]
      /\ UNCHANGED << phase, nextMsgid, history, inbox, recvBuffer >>
  BY DEF RouteLocal, TypeOK, sessionVars, readerVars, dbVars
<1>2. ~Fresh(t) /\ j = k
  BY WrittenWhere
<1>3. /\ handler'[k].step # "route" /\ \A x \in Servers \ {k} : handler'[x] = handler[x]
  BY <1>1, <1>2 DEF Idle
<1>4. WaitingIds(s, t, k) = {}
  <2>1. Owed(t, k) = << >>
    BY <1>1, <1>2 DEF Owed, DrainsFor
  <2> QED
    BY <1>2, <2>1, NothingRises DEF WaitingIds
<1>5. WaitingIds(s, t, k)' = {}
  BY <1>1, <1>4, WaitingKept DEF OrderAt
<1>6. RoutedIds(s, t, k) = {m.id}
  BY <1>1, <1>2, RoutedIdsAre DEF Routes
<1> DEFINE H == StoredIds(s, t)
           F == ComingIds(s, t)
           R == LastIds(s, t, i, k)
           L == LinkIds(s, t, i, k)
           Q == RoutedIds(s, t, i)
           M == SpokenIds(s, t, i)
<1>7. Chain(H, F, {}, R, L, Q, M) /\ (i # k => R = {m.id}) /\ (i = k => R = {} /\ L = {} /\ Q = {m.id})
  BY <1>4, <1>6 DEF OrderAt, NoneOvertakes, LastIds, LinkIds
<1>8. /\ StoredIds(s, t)' = H /\ LinkIds(s, t, i, k)' = L /\ SpokenIds(s, t, i)' = M
      /\ LastIds(s, t, i, k)' = {}
      /\ RoutedIds(s, t, i)' = IF i = k THEN {} ELSE Q
  <2>1. /\ RoutedIds(s, t, k)' = {}
        /\ i # k => RoutedIds(s, t, i)' = RoutedIds(s, t, i)
    BY <1>3, StagesSame
  <2>2. /\ StoredIds(s, t)' = H /\ LinkIds(s, t, i, k)' = L /\ SpokenIds(s, t, i)' = M
    BY <1>1, StagesSame
  <2> QED
    BY <2>1, <2>2 DEF LastIds
<1>9. \A x \in F : x < m.id
  BY <1>7 DEF Chain, Under
<1>10. /\ FramesRising(s, t, s2c'[t])
       /\ ComingIds(s, t)' = F \cup {m.id}
  <2>1. FramesRising(s, t, s2c[t])
    BY DEF OrderAt, StagesRise
  <2>2. \A x \in ComingIds(s, t) : x < m.id
    BY <1>9
  <2> HIDE DEF F
  <2>3. FrameGained(s, t, m)
    BY <2>1, <2>2, FrameAppended
  <2> QED
    BY <2>3 DEF FrameGained, F
<1> HIDE DEF H, F, R, L, Q, M
<1>11. CASE i = k
  <2>1. Chain(H, F \cup {m.id}, {}, {}, {}, {}, M)
    BY <1>7, <1>11, ChainWritten
  <2> QED
    BY <1>5, <1>7, <1>8, <1>10, <1>11, <2>1 DEF NoneOvertakes, FrameOrder
<1>12. CASE i # k
  <2>1. Chain(H, F \cup {m.id}, {}, {}, L, Q, M)
    BY <1>7, <1>12, ChainWrittenFromLink
  <2> QED
    BY <1>5, <1>8, <1>10, <1>12, <2>1 DEF NoneOvertakes, FrameOrder
<1> QED
  BY <1>11, <1>12

-----------------------------------------------------------------------------

\* A message of s is stored for t, who is fresh: by the server of s.
LEMMA InsertedHere ==
    ASSUME TypeOK, NEW s \in Sessions, NEW t \in Sessions, NEW i \in Servers,
           NEW k \in Servers, PathAt(s, t, i, k), Fresh(t), NEW j \in Servers,
           TableGrows(s, t, j)
    PROVE  j = i
<1>1. /\ handler \in [Servers -> Handler] /\ Offline \notin Servers
  BY ServersAssumption DEF TypeOK, Offline
<1>2. handler[j].seen = Offline /\ handler[j].step = "route" /\ Routes(s, t, j)
  BY DEF TableGrows, RoutePending, Elsewhere
<1>3. handler[j].peer \in Peers
  BY <1>1, <1>2, HandlerFields
<1>4. OnPath(s, t, i, k, j, handler[j].peer)
  BY <1>2, <1>3 DEF PathAt, RoutedOnPath
<1> QED
  BY <1>1, <1>2, <1>4 DEF OnPath, PathAt, FreshPath

LEMMA InsertOrder ==
    ASSUME TypeOK, LoginInv, DrainInv, [Next]_vars, NEW s \in Sessions, NEW t \in Sessions,
           NEW i \in Servers, NEW k \in Servers, k = home[t], OrderAt(s, t, i, k),
           PathAt(s, t, i, k), Fresh(t), NEW j \in Servers, TableGrows(s, t, j),
           WaitingIds(s, t, k)' \subseteq WaitingIds(s, t, k) \cup {handler[j].msg.id}
    PROVE  NoneOvertakes(s, t, i, k)'
<1>1. handler \in [Servers -> Handler]
  BY DEF TypeOK
<1>2. /\ handler[j].seen = Offline /\ handler[j].step = "route" /\ Routes(s, t, j)
      /\ handler' = [handler EXCEPT ![j] = Idle]
      /\ UNCHANGED << history, inbox, recvBuffer, s2c >>
  BY DEF TableGrows, RoutePending, Elsewhere
<1>4. j = i
  BY InsertedHere
<1>5. handler'[i].step # "route" /\ \A x \in Servers \ {i} : handler'[x] = handler[x]
  BY <1>1, <1>2, <1>4 DEF Idle
<1> PICK x : x = handler[i].msg.id
  OBVIOUS
<1> DEFINE H == StoredIds(s, t)
           F == ComingIds(s, t)
           W == WaitingIds(s, t, k)
           W2 == WaitingIds(s, t, k)'
           M == SpokenIds(s, t, i)
<1>6. /\ RoutedIds(s, t, i) = {x} /\ RoutedIds(s, t, i)' = {}
  BY <1>2, <1>4, <1>5, RoutedIdsAre, StagesSame
<1>7. LastIds(s, t, i, k) = {} /\ LinkIds(s, t, i, k) = {}
  <2>1. i # k => ~Routes(s, t, k) /\ Ids(s, t, InLine(k, i)) = {}
    BY <1>2, <1>4 DEF PathAt, FreshPath
  <2> QED
    BY <2>1, RoutedIdsAre DEF LastIds, LinkIds
<1>8. /\ StoredIds(s, t)' = H /\ ComingIds(s, t)' = F /\ SpokenIds(s, t, i)' = M
      /\ LinkIds(s, t, i, k)' = {}
  BY <1>2, <1>7, StagesSame
<1>9. LastIds(s, t, i, k)' = {}
  <2>1. i # k => RoutedIds(s, t, k)' = RoutedIds(s, t, k)
    BY <1>5, StagesSame
  <2> QED
    BY <1>7, <2>1 DEF LastIds
<1>10. Chain(H, F, W, {}, {}, {x}, M) /\ W2 \subseteq W \cup {x}
  BY <1>4, <1>6, <1>7 DEF OrderAt, NoneOvertakes
<1> HIDE DEF H, F, W, W2, M
<1>11. Chain(H, F, W \cup {x}, {}, {}, {}, M)
  BY <1>10, ChainInserted
<1>12. Chain(H, F, W2, {}, {}, {}, M)
  BY <1>10, <1>11, ChainShrinks
<1> QED
  BY <1>4, <1>6, <1>8, <1>9, <1>12 DEF NoneOvertakes, W2

\* A message is read, and is the first of its line.
ReadFrom(s, t, j, p, m) ==
    /\ m.id \in Ids(s, t, InLine(j, p))
    /\ Ids(s, t, InLine(j, p))' \subseteq Ids(s, t, InLine(j, p))
    /\ \A y \in Ids(s, t, InLine(j, p))' : m.id < y

LEMMA ReadStage ==
    ASSUME TypeOK, NEW s, NEW t, NEW j \in Servers, NEW p \in Peers, ReadMessage(j, p),
           Rising(s, t, InLine(j, p)), NEW m \in Message, m = Head(InLine(j, p)),
           Between(s, t, m)
    PROVE  ReadFrom(s, t, j, p, m)
<1> PICK q \in Seq(Message) : q = InLine(j, p)
  BY LineTyped DEF InLine
<1>1. q # << >> /\ InLine(j, p)' = Tail(q)
  BY LineTaken DEF TakesFirst
<1>2. Ids(s, t, InLine(j, p))' = Ids(s, t, Tail(q))
  BY <1>1 DEF Ids, Between
<1>3. /\ Ids(s, t, Tail(q)) \subseteq Ids(s, t, q)
      /\ m.id \in Ids(s, t, q) /\ \A y \in Ids(s, t, Tail(q)) : m.id < y
  BY <1>1, TailRises
<1> QED
  BY <1>2, <1>3 DEF ReadFrom

LEMMA ReadOrder ==
    ASSUME TypeOK, LoginInv, DrainInv, [Next]_vars, NEW s \in Sessions, NEW t \in Sessions,
           NEW i \in Servers, NEW k \in Servers, k = home[t], OrderAt(s, t, i, k),
           PathAt(s, t, i, k), NEW j \in Servers, NEW p \in Peers, ReadMessage(j, p),
           NEW m \in Message, m = Head(InLine(j, p)), Between(s, t, m),
           RoutedIds(s, t, j)' = {m.id}
    PROVE  NoneOvertakes(s, t, i, k)'
<1>1. /\ handler \in [Servers -> Handler] /\ i \in Peers /\ s \in Peers
      /\ inbox \in [Servers -> [Peers -> Seq(Message)]]
      /\ recvBuffer \in [Servers -> [Peers -> Seq(Message)]]
      /\ i # s
  <2>1. i # s
    BY SessionsAssumption
  <2> QED
    BY <2>1 DEF TypeOK, Peers
<1>2. /\ handler[j] = Idle
      /\ UNCHANGED << history, s2c, nextMsgid >>
      /\ \E r : handler' = [handler EXCEPT ![j] = r]
      /\ \E r : recvBuffer' = [recvBuffer EXCEPT ![j][p] = r]
      /\ \E r : inbox' = [inbox EXCEPT ![j][p] = r]
  BY DEF ReadMessage, Loop, dbVars
<1>3. /\ \A x \in Servers \ {j} : handler'[x] = handler[x]
      /\ \A x \in Servers : \A y \in Peers : x # j \/ y # p => InLine(x, y)' = InLine(x, y)
  <2>1. \A x \in Servers \ {j} : handler'[x] = handler[x]
    BY <1>1, <1>2
  <2>2. ASSUME NEW x \in Servers, NEW y \in Peers, x # j \/ y # p
        PROVE  InLine(x, y)' = InLine(x, y)
    <3>1. recvBuffer'[x][y] = recvBuffer[x][y]
      BY <1>1, <1>2, <2>2
    <3>2. inbox'[x][y] = inbox[x][y]
      BY <1>1, <1>2, <2>2
    <3> QED
      BY <3>1, <3>2 DEF InLine
  <2> QED
    BY <2>1, <2>2
<1>4. \A x \in Servers : \A y \in Peers : x # j \/ y # p =>
        Ids(s, t, InLine(x, y))' = Ids(s, t, InLine(x, y))
  BY <1>3 DEF Ids, Between
<1>5. ~Routes(s, t, j)
  BY <1>2 DEF Routes, Idle
<1>6. RoutedIds(s, t, j) = {}
  BY <1>5, RoutedIdsAre
<1>7. \A x \in Servers \ {j} : RoutedIds(s, t, x)' = RoutedIds(s, t, x)
  BY <1>3, StagesSame
<1>8. WaitingIds(s, t, k)' \subseteq WaitingIds(s, t, k)
  BY <1>2, WaitingKept DEF OrderAt
<1>9. StoredIds(s, t)' = StoredIds(s, t) /\ ComingIds(s, t)' = ComingIds(s, t)
  BY <1>2, StagesSame
<1>10. OnPath(s, t, i, k, j, p)
  <2> PICK q \in Seq(Message) : q = InLine(j, p)
    BY LineTyped DEF InLine
  <2>1. q # << >>
    BY LineTaken DEF TakesFirst
  <2>2. 1 \in DOMAIN q /\ q[1] = m
    BY <2>1
  <2>3. Ids(s, t, InLine(j, p)) # {}
    BY <2>2 DEF Ids
  <2> QED
    BY <2>3 DEF PathAt, LinesOnPath
<1> DEFINE H == StoredIds(s, t)
           F == ComingIds(s, t)
           W == WaitingIds(s, t, k)
           W2 == WaitingIds(s, t, k)'
           R == LastIds(s, t, i, k)
           L == LinkIds(s, t, i, k)
           L2 == LinkIds(s, t, i, k)'
           Q == RoutedIds(s, t, i)
           M == SpokenIds(s, t, i)
           M2 == SpokenIds(s, t, i)'
<1>11. CASE j = i /\ p = s
  <2>1. Rising(s, t, InLine(j, p))
    BY <1>11 DEF OrderAt, StagesRise
  <2>2. ReadFrom(s, t, j, p, m)
    BY <2>1, ReadStage
  <2>3. m.id \in M /\ M2 \subseteq M /\ \A y \in M2 : m.id < y
    BY <1>11, <2>2 DEF ReadFrom, SpokenIds
  <2>4. L2 = L
    <3>1. i # k => Ids(s, t, InLine(k, i))' = Ids(s, t, InLine(k, i))
      BY <1>1, <1>4, <1>11
    <3> QED
      BY <3>1 DEF LinkIds
  <2>5. LastIds(s, t, i, k)' = R
    BY <1>7, <1>11 DEF LastIds
  <2>6. Chain(H, F, W, R, L, {}, M) /\ W2 \subseteq W
    BY <1>6, <1>8, <1>11 DEF OrderAt, NoneOvertakes
  <2> HIDE DEF H, F, W, W2, R, L, L2, M, M2
  <2>7. Chain(H, F, W, R, L, {m.id}, M2)
    BY <2>3, <2>6, ChainRead
  <2>8. Chain(H, F, W2, R, L, {m.id}, M2)
    BY <2>6, <2>7, ChainShrinks
  <2> QED
    BY <1>9, <1>11, <2>4, <2>5, <2>8 DEF NoneOvertakes, H, F, W2, L2, M2
<1>12. CASE j = k /\ p = i /\ i # k
  <2>1. Rising(s, t, InLine(j, p))
    BY <1>12 DEF OrderAt, StagesRise
  <2>2. ReadFrom(s, t, j, p, m)
    BY <2>1, ReadStage
  <2>3. m.id \in L /\ L2 \subseteq L /\ \A y \in L2 : m.id < y
    BY <1>12, <2>2 DEF ReadFrom, LinkIds
  <2>4. M2 = M
    BY <1>1, <1>4, <1>12 DEF SpokenIds
  <2>5. RoutedIds(s, t, i)' = Q
    BY <1>7, <1>12
  <2>6. Chain(H, F, W, {}, L, Q, M) /\ W2 \subseteq W
    BY <1>6, <1>8, <1>12 DEF OrderAt, NoneOvertakes, LastIds
  <2>7. LastIds(s, t, i, k)' = {m.id}
    BY <1>12 DEF LastIds
  <2> HIDE DEF H, F, W, W2, L, L2, Q, M, M2
  <2>8. Chain(H, F, W, {m.id}, L2, Q, M)
    BY <2>3, <2>6, ChainReadFromLink
  <2>9. Chain(H, F, W2, {m.id}, L2, Q, M)
    BY <2>6, <2>8, ChainShrinks
  <2> QED
    BY <1>9, <2>4, <2>5, <2>7, <2>9 DEF NoneOvertakes, H, F, W2, L2, Q, M2
<1> QED
  BY <1>10, <1>11, <1>12 DEF OnPath

-----------------------------------------------------------------------------

\* A message of s is forwarded to the server of t.
LEMMA ForwardOrder ==
    ASSUME TypeOK, LinksToOthers, LoginInv, DrainInv, [Next]_vars,
           NEW s \in Sessions, NEW t \in Sessions,
           NEW i \in Servers, NEW k \in Servers, k = home[t], OrderAt(s, t, i, k),
           PathAt(s, t, i, k), KnownAt(t, k), NEW j \in Servers, RouteForward(j), Routes(s, t, j)
    PROVE  NoneOvertakes(s, t, i, k)'
<1>1. /\ handler \in [Servers -> Handler] /\ links \in [Servers -> SUBSET Servers]
  BY DEF TypeOK
<1>2. s \notin Servers /\ i \notin Sessions /\ Offline \notin Servers
  <2>1. Offline \notin Servers
    BY ServersAssumption DEF Offline
  <2>2. s \notin Servers /\ i \notin Sessions
    BY SessionsAssumption
  <2> QED
    BY <2>1, <2>2
<1>3. /\ handler[j].step = "route" /\ handler[j].seen \in links[j]
      /\ handler' = [handler EXCEPT ![j] = Idle]
      /\ UNCHANGED << history, s2c, nextMsgid >>
  BY DEF RouteForward, Elsewhere, dbVars
<1>4. i \in Peers /\ s \in Peers /\ handler[j].peer \in Peers
  BY <1>1, <1>3, HandlerFields DEF Peers
<1>5. handler[j].seen = k /\ j # k
  BY <1>1, <1>2, <1>3 DEF KnownAt, LinksToOthers, Routes, Between
<1>6. j = i /\ i # k
  BY <1>4, <1>5 DEF PathAt, RoutedOnPath, OnPath
<1> PICK x : x = handler[i].msg.id
  OBVIOUS
<1>7. /\ handler'[i].step # "route" /\ handler'[i] # handler[i]
      /\ \A y \in Servers \ {i} : handler'[y] = handler[y]
  BY <1>1, <1>3, <1>6 DEF Idle
<1>8. ~\E p \in Sessions : Send(p, UserOf[t])
  BY <1>7 DEF Send
<1> DEFINE H == StoredIds(s, t)
           F == ComingIds(s, t)
           W == WaitingIds(s, t, k)
           W2 == WaitingIds(s, t, k)'
           R == LastIds(s, t, i, k)
           L == LinkIds(s, t, i, k)
           L2 == LinkIds(s, t, i, k)'
           M == SpokenIds(s, t, i)
           M2 == SpokenIds(s, t, i)'
<1>9. /\ RoutedIds(s, t, i) = {x} /\ RoutedIds(s, t, i)' = {}
      /\ LastIds(s, t, i, k)' = R
  <2>1. RoutedIds(s, t, i) = {x} /\ RoutedIds(s, t, i)' = {}
    BY <1>6, <1>7, RoutedIdsAre, StagesSame
  <2>2. handler'[k] = handler[k]
    BY <1>6, <1>7
  <2>3. RoutedIds(s, t, k)' = RoutedIds(s, t, k)
    BY <2>2, StagesSame
  <2> QED
    BY <2>1, <2>3 DEF LastIds
<1>10. StoredIds(s, t)' = H /\ ComingIds(s, t)' = F
  BY <1>3, StagesSame
<1>11. W2 \subseteq W
  BY <1>3, WaitingKept DEF OrderAt
<1>12. Ids(s, t, InLine(k, i))' \subseteq Ids(s, t, InLine(k, i)) \cup {x}
  BY <1>2, <1>4, LineIdsStep
<1>13. Ids(s, t, InLine(i, s))' \subseteq Ids(s, t, InLine(i, s))
  BY <1>2, <1>4, <1>8, LineIdsStep
<1>14. L2 \subseteq L \cup {x} /\ M2 \subseteq M
  BY <1>6, <1>12, <1>13 DEF LinkIds, SpokenIds
<1>15. Chain(H, F, W, R, L, {x}, M)
  BY <1>9 DEF OrderAt, NoneOvertakes
<1> HIDE DEF H, F, W, W2, R, L, L2, M, M2
<1>16. Chain(H, F, W, R, L \cup {x}, {}, M)
  BY <1>15, ChainForwarded
<1>17. Chain(H, F, W2, R, L2, {}, M2)
  BY <1>11, <1>14, <1>16, ChainShrinks
<1> QED
  BY <1>9, <1>10, <1>17 DEF NoneOvertakes, W2, L2, M2

\* Session s sends a message to t.
LEMMA SendOrder ==
    ASSUME TypeOK, LoginInv, DrainInv, SentInv, [Next]_vars,
           NEW s \in Sessions, NEW t \in Sessions,
           NEW i \in Servers, NEW k \in Servers, k = home[t], OrderAt(s, t, i, k),
           NEW p \in Sessions, Send(p, UserOf[t])
    PROVE  NoneOvertakes(s, t, i, k)'
<1>1. s \notin Servers /\ i \notin Sessions
  BY SessionsAssumption
<1>2. i \in Peers /\ s \in Peers /\ nextId \in Nat /\ handler \in [Servers -> Handler]
  BY DEF Peers, TypeOK
<1>3. UNCHANGED << history, s2c, nextMsgid, handler >>
  BY DEF Send, dbVars
<1>4. ~RouteForward(i)
  <2>1. ASSUME RouteForward(i) PROVE FALSE
    <3>1. handler[i].step = "route" /\ handler'[i] = Idle
      BY <1>2, <2>1 DEF RouteForward, Elsewhere
    <3> QED
      BY <1>3, <3>1 DEF Idle
  <2> QED
    BY <2>1
<1> DEFINE H == StoredIds(s, t)
           F == ComingIds(s, t)
           W == WaitingIds(s, t, k)
           W2 == WaitingIds(s, t, k)'
           R == LastIds(s, t, i, k)
           L == LinkIds(s, t, i, k)
           L2 == LinkIds(s, t, i, k)'
           Q == RoutedIds(s, t, i)
           M == SpokenIds(s, t, i)
           M2 == SpokenIds(s, t, i)'
<1>5. H' = H /\ F' = F
  BY <1>3, StagesSame
<1>6. Q' = Q /\ R' = R
  BY <1>3, StagesSame DEF LastIds
<1>7. W2 \subseteq W
  BY <1>3, WaitingKept DEF OrderAt
<1>8. L2 \subseteq L
  <2>1. Ids(s, t, InLine(k, i))' \subseteq Ids(s, t, InLine(k, i))
    BY <1>1, <1>2, <1>4, LineIdsStep
  <2> QED
    BY <2>1 DEF LinkIds
<1>9. M2 \subseteq M \cup {nextId}
  <2>1. Ids(s, t, InLine(i, s))' \subseteq Ids(s, t, InLine(i, s)) \cup {nextId}
    BY <1>1, <1>2, LineIdsStep
  <2> QED
    BY <2>1 DEF SpokenIds
<1>10. \A y \in H \cup F \cup W \cup R \cup L \cup Q : y < nextId
  <2>1. \A y \in SentIds(s, t) : y < nextId
    BY DEF SentIds, SentInv
  <2> QED
    BY <2>1, StagesSent
<1>11. Chain(H, F, W, R, L, Q, M)
  BY DEF OrderAt, NoneOvertakes
<1>12. /\ StoredIds(s, t)' = H /\ ComingIds(s, t)' = F /\ RoutedIds(s, t, i)' = Q
       /\ LastIds(s, t, i, k)' = R
  BY <1>5, <1>6
<1> HIDE DEF H, F, W, W2, R, L, L2, Q, M, M2
<1>13. Chain(H, F, W, R, L, Q, M \cup {nextId})
  BY <1>10, <1>11, ChainSent
<1>14. Chain(H, F, W2, R, L2, Q, M2)
  BY <1>7, <1>8, <1>9, <1>13, ChainShrinks
<1> QED
  BY <1>12, <1>14 DEF NoneOvertakes, W2, L2, M2

\* Nothing gets to a stage.
LEMMA QuietOrder ==
    ASSUME NEW s, NEW t, NEW i, NEW k, NoneOvertakes(s, t, i, k),
           StoredIds(s, t)' \subseteq StoredIds(s, t),
           ComingIds(s, t)' \subseteq ComingIds(s, t),
           WaitingIds(s, t, k)' \subseteq WaitingIds(s, t, k),
           LastIds(s, t, i, k)' \subseteq LastIds(s, t, i, k),
           LinkIds(s, t, i, k)' \subseteq LinkIds(s, t, i, k),
           RoutedIds(s, t, i)' \subseteq RoutedIds(s, t, i),
           SpokenIds(s, t, i)' \subseteq SpokenIds(s, t, i)
    PROVE  NoneOvertakes(s, t, i, k)'
<1>1. Chain(StoredIds(s, t)', ComingIds(s, t)', WaitingIds(s, t, k)', LastIds(s, t, i, k)',
            LinkIds(s, t, i, k)', RoutedIds(s, t, i)', SpokenIds(s, t, i)')
  BY ChainShrinks DEF NoneOvertakes
<1> QED
  BY <1>1 DEF NoneOvertakes

-----------------------------------------------------------------------------

\* A frame is written: a row of the drain, or a message as it arrives.
LEMMA WriteOrder ==
    ASSUME TypeOK, LoginInv, DrainInv, [Next]_vars, NEW s \in Sessions, NEW t \in Sessions,
           NEW i \in Servers, NEW k \in Servers, k = home[t], OrderAt(s, t, i, k),
           NEW j \in Servers, NEW m \in Message, NEW f \in Frame,
           WritesTo(j, t, m), Between(s, t, m), phase[t] # "exited",
           f.kind # "count", f.msg = m, s2c'[t] = Append(s2c[t], f)
    PROVE  FrameOrder(s, t, i, k)
<1>1. CASE WriteRow(j) /\ handler[j].ses = t /\ m = Head(handler[j].rows).msg
  BY <1>1, WriteRowOrder
<1>2. CASE RouteLocal(j) /\ RecipientSocket(j) = t /\ m = handler[j].msg
  BY <1>2, RouteLocalOrder
<1> QED
  BY <1>1, <1>2 DEF WritesTo

LEMMA NoneOvertakesStep ==
    ASSUME TypeOK, LinksToOthers, LoginInv, DrainInv, SentInv, [Next]_vars,
           NEW s \in Sessions, NEW t \in Sessions, NEW i \in Servers, NEW k \in Servers,
           OnlyLogin(t), k = home[t], OrderAt(s, t, i, k), PathAt(s, t, i, k), KnownAt(t, k)
    PROVE  NoneOvertakes(s, t, i, k)'
<1>0. i \in Peers /\ s \in Peers
  BY DEF Peers
<1>1. CASE ImportRow(t) \/ ReceiveMessage(t)
  BY <1>1, StoreOrder
<1>2. CASE FrameOrder(s, t, i, k)
  BY <1>2 DEF FrameOrder
<1>3. ASSUME NEW j \in Servers, TableGrows(s, t, j), Fresh(t),
             WaitingIds(s, t, k)' = WaitingIds(s, t, k) \cup {handler[j].msg.id}
      PROVE  NoneOvertakes(s, t, i, k)'
  BY <1>3, InsertOrder
<1>4. ASSUME NEW j \in Servers, NEW p \in Peers, NEW m \in Message,
             ReadMessage(j, p), m = Head(InLine(j, p)), Between(s, t, m),
             RoutedIds(s, t, j)' = {m.id}
      PROVE  NoneOvertakes(s, t, i, k)'
  BY <1>4, ReadOrder
<1>5. ASSUME NEW j \in Servers, RouteForward(j), Routes(s, t, j)
      PROVE  NoneOvertakes(s, t, i, k)'
  BY <1>5, ForwardOrder
<1>6. ASSUME NEW p \in Sessions, Send(p, UserOf[t])
      PROVE  NoneOvertakes(s, t, i, k)'
  BY <1>6, SendOrder
<1> SUFFICES ASSUME ~NoneOvertakes(s, t, i, k)'
             PROVE  FALSE
  OBVIOUS
<1>7. StoredIds(s, t)' \subseteq StoredIds(s, t)
  <2>1. history'[UserOf[t]] = history[UserOf[t]]
    BY <1>1, HistoryStage
  <2> QED
    BY <2>1 DEF StoredIds, Ids, Between
<1>8. ComingIds(s, t)' \subseteq ComingIds(s, t)
  <2>1. FramesRising(s, t, s2c[t])
    BY DEF OrderAt, StagesRise
  <2>2. ComingSame(s, t)
    BY <1>2, <2>1, ComingStage, WriteOrder
  <2>3. ComingIds(s, t)' = FrameIds(s, t, s2c'[t])
    BY DEF ComingIds, FrameIds, Carries, Between
  <2> QED
    BY <2>2, <2>3 DEF ComingSame, ComingIds
<1>9. WaitingIds(s, t, k)' \subseteq WaitingIds(s, t, k)
  BY <1>3, WaitingStage DEF OrderAt, StagesRise
<1>10. \A j \in Servers : RoutedIds(s, t, j)' \subseteq RoutedIds(s, t, j)
  BY <1>4, RoutedStage
<1>11. \A j \in Servers : \A p \in Peers :
         Ids(s, t, InLine(j, p))' \subseteq Ids(s, t, InLine(j, p))
  BY <1>5, <1>6, LineIdsStep
<1>12. LastIds(s, t, i, k)' \subseteq LastIds(s, t, i, k)
  BY <1>10 DEF LastIds
<1>13. /\ LinkIds(s, t, i, k)' \subseteq LinkIds(s, t, i, k)
       /\ SpokenIds(s, t, i)' \subseteq SpokenIds(s, t, i)
  BY <1>0, <1>11 DEF LinkIds, SpokenIds
<1>14. NoneOvertakes(s, t, i, k) /\ RoutedIds(s, t, i)' \subseteq RoutedIds(s, t, i)
  BY <1>10 DEF OrderAt
<1> QED
  BY <1>7, <1>8, <1>9, <1>12, <1>13, <1>14, QuietOrder

-----------------------------------------------------------------------------

LEMMA StagesRiseStep ==
    ASSUME TypeOK, LinksToOthers, LoginInv, DrainInv, SentInv, [Next]_vars,
           NEW s \in Sessions, NEW t \in Sessions, NEW i \in Servers, NEW k \in Servers,
           OnlyLogin(t), k = home[t], OrderAt(s, t, i, k), PathAt(s, t, i, k), KnownAt(t, k)
    PROVE  StagesRise(s, t, i, k)'
<1>0. /\ s \notin Servers /\ i \in Peers /\ s \in Peers
      /\ links \in [Servers -> SUBSET Servers]
  <2>1. s \notin Servers
    BY SessionsAssumption
  <2> QED
    BY <2>1 DEF Peers, TypeOK
<1>1. Rising(s, t, history[UserOf[t]])'
  <2>1. CASE ImportRow(t) \/ ReceiveMessage(t)
    <3>1. Rising(s, t, history'[UserOf[t]])
      BY <2>1, StoreOrder
    <3> QED
      BY <3>1 DEF Rising, Between
  <2>2. CASE history'[UserOf[t]] = history[UserOf[t]]
    BY <2>2 DEF OrderAt, StagesRise, Rising, Between
  <2> QED
    BY <2>1, <2>2, HistoryStage
<1>2. FramesRising(s, t, s2c[t])'
  <2>1. FramesRising(s, t, s2c[t])
    BY DEF OrderAt, StagesRise
  <2>2. FrameOrder(s, t, i, k) \/ ComingSame(s, t)
    BY <2>1, ComingStage, WriteOrder
  <2>3. FramesRising(s, t, s2c'[t])
    BY <2>2 DEF FrameOrder, ComingSame
  <2> QED
    BY <2>3 DEF FramesRising, Carries, Between
<1>3. RowsRising(s, t, Owed(t, k))'
  <2>1. RowsRising(s, t, Owed(t, k)')
    BY WaitingStage DEF OrderAt, StagesRise
  <2> QED
    BY <2>1 DEF RowsRising, Between
<1>4. Fresh(t)' => TableRises(s, t, i)'
  <2> SUFFICES ASSUME Fresh(t)'
               PROVE  TableRises(s, t, i)'
    OBVIOUS
  <2>1. Fresh(t)
    BY FreshBefore
  <2>2. TableRises(s, t, i) /\ NoneOvertakes(s, t, i, k)
    BY <2>1 DEF OrderAt, StagesRise
  <2>3. ASSUME NEW j \in Servers, TableGrows(s, t, j)
        PROVE  j = i /\ \A x \in TableIds(s, t) : x < handler[j].msg.id
    <3>1. j = i
      BY <2>1, <2>3, InsertedHere
    <3>2. RoutedIds(s, t, i) = {handler[j].msg.id}
      BY <2>3, <3>1, RoutedIdsAre DEF TableGrows
    <3>3. WaitingIds(s, t, k) = TableIds(s, t)
      BY <2>1 DEF WaitingIds
    <3> QED
      BY <2>2, <3>1, <3>2, <3>3 DEF NoneOvertakes, Chain, Under
  <2> QED
    BY <2>2, <2>3, TableStage
<1>5. Rising(s, t, InLine(k, i))'
  <2>1. Rising(s, t, InLine(k, i))
    BY DEF OrderAt, StagesRise
  <2>2. ASSUME RouteForward(i), handler[i].seen = k, Routes(s, t, i)
        PROVE  \A x \in Ids(s, t, InLine(k, i)) : x < handler[i].msg.id
    <3>1. i # k
      BY <1>0, <2>2 DEF RouteForward, LinksToOthers
    <3>2. /\ RoutedIds(s, t, i) = {handler[i].msg.id}
          /\ LinkIds(s, t, i, k) = Ids(s, t, InLine(k, i))
      BY <2>2, <3>1, RoutedIdsAre DEF LinkIds
    <3> QED
      BY <3>2 DEF OrderAt, NoneOvertakes, Chain, Under
  <2>3. Rising(s, t, InLine(k, i)')
    BY <1>0, <2>1, <2>2, LineStage
  <2> QED
    BY <2>3 DEF Rising, Between
<1>6. Rising(s, t, InLine(i, s))'
  <2>1. Rising(s, t, InLine(i, s))
    BY DEF OrderAt, StagesRise
  <2>2. Rising(s, t, InLine(i, s)')
    BY <1>0, <2>1, LineStage
  <2> QED
    BY <2>2 DEF Rising, Between
<1> QED
  BY <1>1, <1>2, <1>3, <1>4, <1>5, <1>6 DEF StagesRise

LEMMA OrderStep ==
    ASSUME TypeOK, LoadInv, LoginInv, DrainInv, SentInv, SpokeFirst, SeenInv, PathInv,
           OrderInv, [Next]_vars
    PROVE  OrderInv'
<1> SUFFICES ASSUME NEW s \in Sessions, NEW t \in Sessions, NEW i \in Servers, NEW k \in Servers,
                    OnlyLogin(s)', OnlyLogin(t)', i = home'[s], k = home'[t]
             PROVE  OrderAt(s, t, i, k)'
  BY DEF OrderInv
<1>1. OnlyLogin(s) /\ OnlyLogin(t) /\ home[s] \in Servers /\ home[t] \in Servers
  BY PhaseStep DEF PhaseMoves, OnlyLogin, TypeOK
<1>2. CASE \E j \in Servers : Allocate(s, j)
  BY <1>1, <1>2, OrderAtStart
<1>3. CASE ~(\E j \in Servers : Allocate(s, j)) /\ \E j \in Servers : Allocate(t, j)
  <2>1. i = home[s]
    BY <1>3, PhaseStep DEF PhaseMoves
  <2>2. PathAt(s, t, i, home[t]) /\ OrderAt(s, t, i, home[t])
    BY <1>1, <2>1 DEF PathInv, OrderInv
  <2> QED
    BY <1>1, <1>3, <2>2, OrderAtAllocated
<1>4. CASE ~(\E j \in Servers : Allocate(s, j)) /\ ~(\E j \in Servers : Allocate(t, j))
  <2>1. i = home[s] /\ k = home[t]
    BY <1>4, PhaseStep DEF PhaseMoves
  <2>2. OrderAt(s, t, i, k) /\ PathAt(s, t, i, k) /\ KnownAt(t, k)
    BY <1>1, <2>1 DEF OrderInv, PathInv, SeenInv
  <2>3. NoneOvertakes(s, t, i, k)'
    BY <1>1, <2>1, <2>2, NoneOvertakesStep DEF LoadInv
  <2>4. StagesRise(s, t, i, k)'
    BY <1>1, <2>1, <2>2, StagesRiseStep DEF LoadInv
  <2> QED
    BY <2>3, <2>4 DEF OrderAt
<1> QED
  BY <1>2, <1>3, <1>4

-----------------------------------------------------------------------------

OrderedInv ==
    CopiesInv /\ LbStarted /\ SelectedServed /\ SpokeFirst /\ SeenInv /\ PathInv /\ OrderInv

LEMMA OrderedInit == Init /\ TypeOK => OrderedInv
<1> SUFFICES ASSUME Init, TypeOK
             PROVE  OrderedInv
  OBVIOUS
<1>1. CopiesInv
  BY CopiesInit
<1>2. LbStarted /\ SelectedServed /\ SpokeFirst
  BY DEF Init, LbStarted, SelectedServed, SpokeFirst, TypeOK
<1>3. \A j \in Servers : handler[j].step # "route"
  BY DEF Init, Idle
<1>4. sent = {} /\ \A m \in sent : FALSE
  BY DEF Init
<1>5. SeenInv
  <2> SUFFICES ASSUME NEW t \in Sessions, NEW k \in Servers
               PROVE  KnownAt(t, k)
    BY DEF SeenInv
  <2>1. connectedto[UserOf[t]] = Offline /\ phase[t] = "start"
    BY SessionsAssumption DEF Init
  <2>2. Offline # k /\ ~Committed(t)
    <3>1. Offline # k
      BY ServersAssumption DEF Offline
    <3> QED
      BY <2>1, <3>1 DEF Committed
  <2> QED
    BY <1>3, <2>1, <2>2 DEF KnownAt
<1>6. SentInv
  BY <1>1 DEF CopiesInv
<1>7. PathInv
  <2> SUFFICES ASSUME NEW s \in Sessions, NEW t \in Sessions, NEW i \in Servers, NEW k \in Servers
               PROVE  PathAt(s, t, i, k)
    BY DEF PathInv
  <2>1. \A j \in Servers : ~Routes(s, t, j)
    BY <1>3 DEF Routes
  <2>2. \A j \in Servers : \A p \in Peers : Ids(s, t, InLine(j, p)) = {}
    BY <1>4, <1>6, LineIdsSent
  <2>3. LinesOnPath(s, t, i, k) /\ RoutedOnPath(s, t, i, k) /\ FreshPath(s, t, i, k)
    BY <2>1, <2>2 DEF LinesOnPath, RoutedOnPath, FreshPath, Peers
  <2> QED
    BY <2>3 DEF PathAt
<1>8. OrderInv
  BY <1>4, <1>6, NothingBetween DEF OrderInv
<1> QED
  BY <1>1, <1>2, <1>5, <1>7, <1>8 DEF OrderedInv

LEMMA OrderedStep ==
    ASSUME OrderedInv, TypeOK', [Next]_vars
    PROVE  OrderedInv'
<1> USE DEF OrderedInv, CopiesInv
<1>1. CopiesInv'
  BY CopiesStep
<1>2. LbStarted'
  BY LbStep
<1>3. SelectedServed'
  BY SelectedServedStep DEF LoadInv
<1>4. SpokeFirst'
  BY SpokeFirstStep
<1>5. SeenInv'
  BY SeenStep
<1>6. PathInv'
  BY PathStep
<1>7. OrderInv'
  BY OrderStep
<1> QED
  BY <1>1, <1>2, <1>3, <1>4, <1>5, <1>6, <1>7

LEMMA OrderedHistory ==
    ASSUME OrderedInv
    PROVE  OrderedForFirstLogin
<1> SUFFICES ASSUME NEW s \in Sessions, NEW t \in Sessions, OnlyLogin(s), OnlyLogin(t),
                    NEW a \in DOMAIN history[UserOf[t]], NEW b \in DOMAIN history[UserOf[t]],
                    a < b, history[UserOf[t]][a].from = UserOf[s],
                    history[UserOf[t]][b].from = UserOf[s]
             PROVE  history[UserOf[t]][a].id < history[UserOf[t]][b].id
  BY DEF OrderedForFirstLogin
<1>1. home[s] \in Servers /\ home[t] \in Servers /\ UserOf[t] \in Users
  BY SessionsAssumption DEF OrderedInv, CopiesInv, TypeOK
<1>2. Rising(s, t, history[UserOf[t]])
  BY <1>1 DEF OrderedInv, OrderInv, OrderAt, StagesRise
<1>3. \A n \in DOMAIN history[UserOf[t]] : history[UserOf[t]][n].to = UserOf[t]
  BY <1>1 DEF OrderedInv, CopiesInv, AddresseeInv, DeliveredToAddressee
<1> QED
  BY <1>2, <1>3 DEF Rising, Between

(***************************************************************************)
(* Between a sender and a recipient who have each logged in once the       *)
(* database of the recipient has the messages in the order of sending,     *)
(* none twice: the table, the drain, the link between the servers and      *)
(* local delivery do not overtake each other (serve_client,                *)
(* accept_connection).                                                     *)
(***************************************************************************)
THEOREM OrderIsKept == Spec => []OrderedForFirstLogin
<1>1. Init /\ TypeOK => OrderedInv
  BY OrderedInit
<1>2. OrderedInv /\ TypeOK' /\ [Next]_vars => OrderedInv'
  BY OrderedStep
<1>3. OrderedInv => OrderedForFirstLogin
  BY OrderedHistory
<1> QED
  BY <1>1, <1>2, <1>3, TypeCorrect, PTL DEF Spec

=============================================================================
