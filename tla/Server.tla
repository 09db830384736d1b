------------------------------- MODULE Server -------------------------------
(***************************************************************************)
(* The FastChat chat servers (server.py) at work: every server is one      *)
(* process with a select loop over its listening socket, its clients and   *)
(* its links to the other servers; the servers share the Postgres tables   *)
(* usercreds and pending.  The module also holds what the servers see of   *)
(* the load balancer (the redirection and the write of connectedto,        *)
(* loadBalancer.py) and of the clients (login, send, receive, leave,       *)
(* client.py).                                                             *)
(*                                                                         *)
(* Execution starts when the mesh of server links is complete.  A handler  *)
(* of the select loop runs to its end before the loop goes on; it is split *)
(* into several actions where another process can act on something the     *)
(* handler has read or will write.                                         *)
(***************************************************************************)
EXTENDS Integers, Sequences, FiniteSets, Functions

CONSTANTS
    Servers,      \* the indices of the servers
    Users,        \* usernames in usercreds
    Sessions,     \* runs of client.py, each used once
    UserOf,       \* the user who logs in in a session
    NoSession,    \* no session
    Contacts,     \* << u, v >>: u writes to v
    Askers,       \* users who may leave a question open
    MaxMessages,  \* bound: messages sent in an execution
    Overlap       \* may a user have two sessions running at once?

ASSUME ServersAssumption == IsFiniteSet(Servers) /\ Servers \subseteq Nat /\ Servers # {}
ASSUME SessionsAssumption ==
    /\ Sessions \cap Servers = {}
    /\ NoSession \notin Sessions \cup Servers
    /\ IsFiniteSet(Sessions)
    /\ UserOf \in [Sessions -> Users]
ASSUME InputAssumption ==
    /\ Contacts \subseteq Users \X Users
    /\ Askers \subseteq Users
    /\ MaxMessages \in Nat
    /\ Overlap \in BOOLEAN

Offline == -1     \* connectedto of a user who is not connected
Peers   == Sessions \cup Servers
Message == [id : Nat, from : Users, to : Users]

VARIABLES
    phase,       \* where a session is in Client.login and Client.serve
    greeted,     \* sessions that have written their username to their server
    home,        \* the server the load balancer sent a session to
    toLoad,      \* pending rows a session has still to import
    doing,       \* what a client does in serve
    inBuffer,    \* how many frames of s2c are in the client's _recv_buffer
    nextId,      \* id of the next message
    sent,        \* the messages the clients have sent (not in the code)
    history,     \* the messages in a user's own database, oldest first
    lb,          \* session whose connectedto the load balancer has to write
    connectedto, \* column of usercreds
    pending,     \* table pending
    nextMsgid,   \* its SERIAL primary key
    alive,       \* is the server process running?
    backlog,     \* connections not yet accepted
    events,      \* clients whose sockets the server selects on
    online,      \* the user part of onlineUserSockets
    links,       \* the part of onlineUserSockets with the other servers
    unclosed,    \* dropped links whose sockets the variables of run keep open
    numClients,  \* also the server's row in serverload
    handler,     \* what the select loop is doing
    inbox,       \* frames on the way to a server from a peer
    recvBuffer,  \* MessageHandler._recv_buffer of a peer at a server
    s2c          \* frames on the way to a session, read or not

readerVars  == << doing, inBuffer >>
sessionVars == << phase, greeted, home, toLoad, readerVars >>
dbVars      == << connectedto, pending, nextMsgid >>
socketVars  == << events, online, links, numClients >>
vars == << sessionVars, nextId, sent, history, lb, dbVars, alive, backlog,
           socketVars, unclosed, handler, inbox, recvBuffer, s2c >>

Phases == {"start", "redirected", "connected", "greeted", "importing",
           "online", "exited"}
Row    == [msgid : Nat, via : Servers, msg : Message]

Idle       == [step |-> "idle"]
Hello(s)   == [step |-> "hello", ses |-> s]
Route(p, m, where) ==
    [step |-> "route", peer |-> p, msg |-> m, seen |-> where]
\* The rest of accept_connection: rows still to write and delete.
Drain(s, rows) ==
    IF rows = << >> THEN Idle
    ELSE [step |-> "drain", ses |-> s, rows |-> rows, written |-> FALSE]

Handler ==
    {Idle} \cup [step : {"hello"}, ses : Sessions]
           \cup [step : {"drain"}, ses : Sessions,
                 rows : Seq(Row) \ {<< >>}, written : BOOLEAN]
           \cup [step : {"route"}, peer : Peers, msg : Message,
                 seen : Servers \cup {Offline}]

\* What a server writes to a client: the number of pending rows, the rows,
\* and messages for a user who is online.
CountFrame(n)  == [kind |-> "count", n |-> n]
RowFrame(m)    == [kind |-> "row", msg |-> m]
LiveFrame(m)   == [kind |-> "live", msg |-> m]
Frame == [kind : {"count"}, n : Nat] \cup [kind : {"row", "live"}, msg : Message]

Init ==
    /\ phase = [s \in Sessions |-> "start"]
    /\ greeted = {}
    /\ home = [s \in Sessions |-> CHOOSE i \in Servers : TRUE]
    /\ toLoad = [s \in Sessions |-> 0]
    /\ doing = [s \in Sessions |-> "select"]
    /\ inBuffer = [s \in Sessions |-> 0]
    /\ nextId = 1
    /\ sent = {}
    /\ history = [u \in Users |-> << >>]
    /\ lb = NoSession
    /\ connectedto = [u \in Users |-> Offline]
    /\ pending = {}
    /\ nextMsgid = 1
    /\ alive = [i \in Servers |-> TRUE]
    /\ backlog = [i \in Servers |-> << >>]
    /\ events = [i \in Servers |-> {}]
    /\ online = [i \in Servers |-> [u \in Users |-> NoSession]]
    /\ links = [i \in Servers |-> Servers \ {i}]
    /\ unclosed = [i \in Servers |-> {}]
    /\ numClients = [i \in Servers |-> 0]
    /\ handler = [i \in Servers |-> Idle]
    /\ inbox = [i \in Servers |-> [p \in Peers |-> << >>]]
    /\ recvBuffer = [i \in Servers |-> [p \in Peers |-> << >>]]
    /\ s2c = [s \in Sessions |-> << >>]

(***************************************************************************)
(* The load balancer                                                       *)
(***************************************************************************)

\* An assumption about the users, not code: without Overlap nobody is logged in on
\* two devices at once.  The code lets anybody log in at any time.
MayStart(s) ==
    Overlap \/ \A t \in Sessions \ {s} :
                   UserOf[t] = UserOf[s] => phase[t] \in {"start", "exited"}

\* check_and_allocate_client answers a session with the address of server k.
\* LoadBalancer.tla has the authentication and the choice of k.
Allocate(s, k) ==
    /\ lb = NoSession
    /\ phase[s] = "start"
    /\ MayStart(s)
    /\ phase' = [phase EXCEPT ![s] = "redirected"]
    /\ home' = [home EXCEPT ![s] = k]
    /\ lb' = s
    /\ UNCHANGED << greeted, toLoad, readerVars, nextId, sent, history, dbVars, alive,
                    backlog, socketVars, unclosed, handler, inbox, recvBuffer, s2c >>

RecordedLate(s) == Offline   \* Mutant: the index is not known yet.
Recorded(s) == home[s]

\* ... and only then writes connectedto.
CommitAllocation ==
    /\ lb # NoSession
    /\ connectedto' = [connectedto EXCEPT ![UserOf[lb]] = Recorded(lb)]
    /\ lb' = NoSession
    /\ UNCHANGED << sessionVars, nextId, sent, history, pending, nextMsgid, alive,
                    backlog, socketVars, unclosed, handler, inbox, recvBuffer, s2c >>

(***************************************************************************)
(* The clients                                                             *)
(***************************************************************************)

\* login connects to the server it was sent to.
Connect(s) ==
    /\ phase[s] = "redirected"
    /\ alive[home[s]]
    /\ phase' = [phase EXCEPT ![s] = "connected"]
    /\ backlog' = [backlog EXCEPT ![home[s]] = Append(@, s)]
    /\ UNCHANGED << greeted, home, toLoad, readerVars, nextId, sent, history, lb, dbVars,
                    alive, socketVars, unclosed, handler, inbox, recvBuffer, s2c >>

\* ... writes its username,
Greet(s) ==
    /\ phase[s] = "connected"
    /\ phase' = [phase EXCEPT ![s] = "greeted"]
    /\ greeted' = greeted \cup {s}
    /\ UNCHANGED << home, toLoad, readerVars, nextId, sent, history, lb, dbVars, alive,
                    backlog, socketVars, unclosed, handler, inbox, recvBuffer, s2c >>

\* One read of a client: it decodes the first frame it has not returned yet.
\* read(True) looks for it in the buffer first; otherwise recv adds one frame or
\* more to the buffer.  What the read leaves there select does not see.
Reads(s, tag) ==
    \E n \in 1 .. Len(s2c[s]) :
        /\ IF tag /\ inBuffer[s] > 0 THEN n = inBuffer[s] ELSE n > inBuffer[s]
        /\ inBuffer' = [inBuffer EXCEPT ![s] = n - 1]

AfterImportUnending(n) == "importing"   \* Mutant: the loop does not end.
\* Mutant: off by one.
AfterImportOneLess(n) == IF n <= 1 THEN "online" ELSE "importing"
AfterImport(n) == IF n = 0 THEN "online" ELSE "importing"

\* ... reads the number of pending rows,
ReadCount(s) ==
    /\ phase[s] = "greeted"
    /\ s2c[s] # << >>
    /\ Head(s2c[s]).kind = "count"
    /\ Reads(s, FALSE)
    /\ phase' = [phase EXCEPT ![s] = AfterImport(Head(s2c[s]).n)]
    /\ toLoad' = [toLoad EXCEPT ![s] = Head(s2c[s]).n]
    /\ s2c' = [s2c EXCEPT ![s] = Tail(@)]
    /\ UNCHANGED << greeted, home, doing, nextId, sent, history, lb, dbVars, alive,
                    backlog, socketVars, unclosed, handler, inbox, recvBuffer >>

\* ... and imports that many rows into the user's own database.
ImportRow(s) ==
    /\ phase[s] = "importing"
    /\ s2c[s] # << >>
    /\ Head(s2c[s]).kind = "row"
    /\ Reads(s, TRUE)
    /\ phase' = [phase EXCEPT ![s] = AfterImport(toLoad[s] - 1)]
    /\ toLoad' = [toLoad EXCEPT ![s] = @ - 1]
    /\ history' = [history EXCEPT ![UserOf[s]] = Append(@, Head(s2c[s]).msg)]
    /\ s2c' = [s2c EXCEPT ![s] = Tail(@)]
    /\ UNCHANGED << greeted, home, doing, nextId, sent, lb, dbVars, alive, backlog,
                    socketVars, unclosed, handler, inbox, recvBuffer >>

\* Does server i still select on the socket of client s?
Open(i, s) == alive[i] /\ s \in events[i]

\* sendMessage writes one frame for one receiver.  A write that fails, or one to
\* a socket the server does not look at any longer, goes unseen.
Send(s, v) ==
    /\ phase[s] = "online" /\ doing[s] = "select"
    /\ << UserOf[s], v >> \in Contacts
    /\ nextId <= MaxMessages
    /\ LET m == [id |-> nextId, from |-> UserOf[s], to |-> v]
       IN  /\ sent' = sent \cup {m}
           /\ inbox' = IF Open(home[s], s)
                       THEN [inbox EXCEPT ![home[s]][s] = Append(@, m)]
                       ELSE inbox
    /\ nextId' = nextId + 1
    /\ UNCHANGED << sessionVars, history, lb, dbVars, alive, backlog,
                    socketVars, unclosed, handler, recvBuffer, s2c >>

\* receiveMessage, which select calls when something is on the socket, stores the
\* next message in the user's own database, and calls itself, with read(True),
\* until the buffer is empty.
ReceiveMessage(s) ==
    /\ phase[s] = "online" /\ doing[s] # "prompt"
    /\ s2c[s] # << >>
    /\ Head(s2c[s]).kind = "live"
    /\ Reads(s, doing[s] = "receive")
    /\ doing' = [doing EXCEPT ![s] = IF inBuffer'[s] > 0 THEN "receive" ELSE "select"]
    /\ history' = [history EXCEPT ![UserOf[s]] = Append(@, Head(s2c[s]).msg)]
    /\ s2c' = [s2c EXCEPT ![s] = Tail(@)]
    /\ UNCHANGED << phase, greeted, home, toLoad, nextId, sent, lb, dbVars, alive,
                    backlog, socketVars, unclosed, handler, inbox, recvBuffer >>

\* A question the user leaves open: the client reads nothing meanwhile.  One that
\* is answered is only a delay.
AskUser(s) ==
    /\ UserOf[s] \in Askers
    /\ phase[s] = "online" /\ doing[s] = "select"
    /\ doing' = [doing EXCEPT ![s] = "prompt"]
    /\ UNCHANGED << phase, greeted, home, toLoad, inBuffer, nextId, sent, history, lb,
                    dbVars, alive, backlog, socketVars, unclosed, handler, inbox,
                    recvBuffer, s2c >>

\* The client ends: the user leaves, kills it, or an exception ends it.  What
\* it has not read is gone.
Exit(s) ==
    /\ phase[s] \notin {"start", "exited"}
    /\ phase' = [phase EXCEPT ![s] = "exited"]
    /\ toLoad' = [toLoad EXCEPT ![s] = 0]
    /\ s2c' = [s2c EXCEPT ![s] = << >>]
    /\ doing' = [doing EXCEPT ![s] = "select"]
    /\ inBuffer' = [inBuffer EXCEPT ![s] = 0]
    /\ UNCHANGED << greeted, home, nextId, sent, history, lb, dbVars, alive, backlog,
                    socketVars, unclosed, handler, inbox, recvBuffer >>

(***************************************************************************)
(* accept_connection                                                       *)
(***************************************************************************)

\* MessageHandler.write on the socket of a session: nothing arrives when the
\* client is gone, and the server does not learn of it.
WriteToClient(s, f) ==
    s2c' = IF phase[s] = "exited" THEN s2c
           ELSE [s2c EXCEPT ![s] = Append(@, f)]

Loop(i) == alive[i] /\ handler[i] = Idle     \* server i is in select

\* When select returns it replaces readable_socks, the last reference to sockets
\* that have been dropped; what it reported together with these is served before.
ReleaseSockets(i) == unclosed' \in {unclosed, [unclosed EXCEPT ![i] = {}]}

\* The listening socket is readable; the handler then blocks in read.
AcceptConnection(i) ==
    /\ Loop(i)
    /\ backlog[i] # << >>
    /\ handler' = [handler EXCEPT ![i] = Hello(Head(backlog[i]))]
    /\ backlog' = [backlog EXCEPT ![i] = Tail(@)]
    /\ ReleaseSockets(i)
    /\ UNCHANGED << sessionVars, nextId, sent, history, lb, dbVars, alive,
                    socketVars, inbox, recvBuffer, s2c >>

NoUsernameUnhandled(i) == FALSE   \* Mutant: no early return for None.

\* The client closed before it wrote a username: read gives None.
NoUsername(i) ==
    /\ handler[i].step = "hello"
    /\ phase[handler[i].ses] = "exited"
    /\ handler[i].ses \notin greeted
    /\ handler' = [handler EXCEPT ![i] = Idle]
    /\ UNCHANGED << sessionVars, nextId, sent, history, lb, dbVars, alive, backlog,
                    socketVars, unclosed, inbox, recvBuffer, s2c >>

AnyOrder(r, q) == r # q   \* Mutant: no ORDER BY sendtime.
\* sendtime is the start of the inserting transaction: a server's own rows keep
\* their order, rows of two servers may come in any.
SentBefore(r, q) == r # q /\ (r.via = q.via => r.msgid < q.msgid)

\* The rows for u in the orders ORDER BY sendtime allows.
PendingFor(u) ==
    LET rows == {r \in pending : r.msg.to = u}
    IN  {q \in [1 .. Cardinality(rows) -> rows] :
            \A a, b \in DOMAIN q : a < b => SentBefore(q[a], q[b])}

\* The username arrived: register the client, select its pending rows and
\* write their number.
RegisterClient(i) ==
    /\ handler[i].step = "hello"
    /\ handler[i].ses \in greeted
    /\ LET s == handler[i].ses
           u == UserOf[s]
       IN  /\ numClients' = [numClients EXCEPT ![i] = @ + 1]
           /\ online' = [online EXCEPT ![i][u] = s]
           /\ events' = [events EXCEPT ![i] = @ \cup {s}]
           /\ \E rows \in PendingFor(u) :
                /\ WriteToClient(s, CountFrame(Len(rows)))
                /\ handler' = [handler EXCEPT ![i] = Drain(s, rows)]
    /\ UNCHANGED << sessionVars, nextId, sent, history, lb, dbVars, alive, backlog,
                    links, unclosed, inbox, recvBuffer >>

\* One turn of the loop over the pending rows: write the row, ...
WriteRow(i) ==
    /\ handler[i].step = "drain"
    /\ ~handler[i].written
    /\ WriteToClient(handler[i].ses, RowFrame(Head(handler[i].rows).msg))
    /\ handler' = [handler EXCEPT ![i].written = TRUE]
    /\ UNCHANGED << sessionVars, nextId, sent, history, lb, dbVars, alive, backlog,
                    socketVars, unclosed, inbox, recvBuffer >>

\* Mutant: DELETE ... WHERE receiver.
KeptOfOthers(i) == {r \in pending : r.msg.to # UserOf[handler[i].ses]}
Kept(i) == {r \in pending : r.msgid # Head(handler[i].rows).msgid}

\* ... then delete it and commit.
DeleteRow(i) ==
    /\ handler[i].step = "drain"
    /\ handler[i].written
    /\ pending' = Kept(i)
    /\ handler' = [handler EXCEPT
                     ![i] = Drain(handler[i].ses, Tail(handler[i].rows))]
    /\ UNCHANGED << sessionVars, nextId, sent, history, lb, connectedto, nextMsgid,
                    alive, backlog, socketVars, unclosed, inbox, recvBuffer, s2c >>

(***************************************************************************)
(* serve_client                                                            *)
(***************************************************************************)

\* The peer whose name onlineUserSockets gives for the readable socket.
Known(i, p) == IF p \in Servers THEN p \in links[i] ELSE online[i][UserOf[p]] = p

\* Nobody reads at the other end of the socket any longer.
Deserted(i, p) ==
    IF p \in Servers THEN ~alive[p] \/ i \notin links[p] ELSE phase[p] = "exited"

\* Has the other end been closed?
PeerClosed(i, p) ==
    Deserted(i, p) /\ (p \in Servers /\ alive[p] => i \notin unclosed[p])

LeftoverDropped(read) == << >>   \* Mutant: the buffer is emptied after a message.
Leftover(read) == Tail(read)

\* One read: recv takes k frames into the buffer, the first one is decoded and
\* the others stay there.  Then usercreds is read for its recipient.
ReadMessage(i, p) ==
    /\ Loop(i)
    /\ p \in events[i] \cup links[i]
    /\ Known(i, p)
    /\ \E k \in 1 .. Len(inbox[i][p]) :
         LET read == recvBuffer[i][p] \o SubSeq(inbox[i][p], 1, k)
         IN  /\ handler' = [handler EXCEPT
                              ![i] = Route(p, Head(read), connectedto[Head(read).to])]
             /\ recvBuffer' = [recvBuffer EXCEPT ![i][p] = Leftover(read)]
             /\ inbox' = [inbox EXCEPT ![i][p] = SubSeq(@, k + 1, Len(@))]
    /\ ReleaseSockets(i)
    /\ UNCHANGED << sessionVars, nextId, sent, history, lb, dbVars, alive, backlog,
                    socketVars, s2c >>

\* Mutant: written to the sender's socket.
SenderSocket(i) == online[i][handler[i].msg.from]
RecipientSocket(i) == online[i][handler[i].msg.to]

\* The recipient is not connected to this server.
Elsewhere(i) == handler[i].step = "route" /\ RecipientSocket(i) = NoSession

\* The recipient is online on this server.
RouteLocal(i) ==
    /\ handler[i].step = "route"
    /\ RecipientSocket(i) # NoSession
    /\ WriteToClient(RecipientSocket(i), LiveFrame(handler[i].msg))
    /\ handler' = [handler EXCEPT ![i] = Idle]
    /\ UNCHANGED << sessionVars, nextId, sent, history, lb, dbVars, alive, backlog,
                    socketVars, unclosed, inbox, recvBuffer >>

\* The recipient was offline when usercreds was read.
RoutePending(i) ==
    /\ Elsewhere(i)
    /\ handler[i].seen = Offline
    /\ pending' = pending \cup {[msgid |-> nextMsgid, via |-> i, msg |-> handler[i].msg]}
    /\ nextMsgid' = nextMsgid + 1
    /\ handler' = [handler EXCEPT ![i] = Idle]
    /\ UNCHANGED << sessionVars, nextId, sent, history, lb, connectedto, alive,
                    backlog, socketVars, unclosed, inbox, recvBuffer, s2c >>

\* The recipient was on another server: pass the message over the link.
RouteForward(i) ==
    /\ Elsewhere(i)
    /\ handler[i].seen \in links[i]
    /\ LET k == handler[i].seen
       IN  inbox' = IF Deserted(i, k) THEN inbox
                    ELSE [inbox EXCEPT ![k][i] = Append(@, handler[i].msg)]
    /\ handler' = [handler EXCEPT ![i] = Idle]
    /\ UNCHANGED << sessionVars, nextId, sent, history, lb, dbVars, alive, backlog,
                    socketVars, unclosed, recvBuffer, s2c >>

OneLessForgotten(n) == n   \* Mutant: the client is not subtracted.
OneLess(n) == n - 1

\* Mutant: the socket stays in events.
DiscardKeepsSocket(i, p) ==
    /\ inbox' = [inbox EXCEPT ![i][p] = << >>]
    /\ recvBuffer' = [recvBuffer EXCEPT ![i][p] = << >>]
    /\ numClients' = [numClients EXCEPT ![i] = OneLess(@)]
    /\ links' = [links EXCEPT ![i] = @ \ {p}]
    /\ UNCHANGED events
    /\ IF p \in Servers THEN UNCHANGED << online, connectedto >>
       ELSE /\ online' = [online EXCEPT ![i][UserOf[p]] = NoSession]
            /\ connectedto' = [connectedto EXCEPT ![UserOf[p]] = Offline]

\* Server i forgets peer p and reads nothing of what p has sent or still sends.
Discard(i, p) ==
    /\ inbox' = [inbox EXCEPT ![i][p] = << >>]
    /\ recvBuffer' = [recvBuffer EXCEPT ![i][p] = << >>]
    /\ numClients' = [numClients EXCEPT ![i] = OneLess(@)]
    /\ events' = [events EXCEPT ![i] = @ \ {p}]
    /\ links' = [links EXCEPT ![i] = @ \ {p}]
    /\ IF p \in Servers THEN UNCHANGED << online, connectedto >>
       ELSE /\ online' = [online EXCEPT ![i][UserOf[p]] = NoSession]
            /\ connectedto' = [connectedto EXCEPT ![UserOf[p]] = Offline]

\* There is no link to the server usercreds names, which may be this server
\* itself: the KeyError is handled by dropping the peer that sent the message,
\* without a close.
RouteFails(i) ==
    /\ Elsewhere(i)
    /\ handler[i].seen \notin links[i] \cup {Offline}
    /\ Discard(i, handler[i].peer)
    /\ unclosed' = [unclosed EXCEPT ![i] = @ \cup ({handler[i].peer} \cap Servers)]
    /\ handler' = [handler EXCEPT ![i] = Idle]
    /\ UNCHANGED << sessionVars, nextId, sent, history, lb, pending, nextMsgid,
                    alive, backlog, s2c >>

\* read gives None for a client that has left.
CloseClient(i, s) ==
    /\ Loop(i)
    /\ s \in events[i] /\ Known(i, s)
    /\ inbox[i][s] = << >> /\ PeerClosed(i, s)
    /\ Discard(i, s)
    /\ ReleaseSockets(i)
    /\ UNCHANGED << sessionVars, nextId, sent, history, lb, pending, nextMsgid,
                    alive, backlog, handler, s2c >>

\* An exception leaves run: the process ends and its sockets are closed.  Its
\* row in serverload stays.
Crash(i) ==
    /\ alive' = [alive EXCEPT ![i] = FALSE]
    /\ backlog' = [backlog EXCEPT ![i] = << >>]
    /\ events' = [events EXCEPT ![i] = {}]
    /\ online' = [online EXCEPT ![i] = [u \in Users |-> NoSession]]
    /\ links' = [links EXCEPT ![i] = {}]
    /\ unclosed' = [unclosed EXCEPT ![i] = {}]
    /\ inbox' = [inbox EXCEPT ![i] = [p \in Peers |-> << >>]]
    /\ recvBuffer' = [recvBuffer EXCEPT ![i] = [p \in Peers |-> << >>]]
    /\ UNCHANGED << sessionVars, nextId, sent, history, lb, dbVars, numClients,
                    handler, s2c >>

EndOfLinkUnseen(i, k) == FALSE   \* Mutant: an empty read is passed over.
EndOfLink(i, k) == inbox[i][k] = << >> /\ PeerClosed(i, k)

\* read gives None for a link.  serverConnections does not exist, and the
\* handler of that exception removes the socket from events a second time.
LinkLost(i, k) ==
    /\ Loop(i)
    /\ k \in links[i]
    /\ EndOfLink(i, k)
    /\ Crash(i)

\* A socket of an earlier session of a user who has logged in here again is no
\* longer in onlineUserSockets: there is no name to look up or to print.
OrphanServed(i, s) ==
    /\ Loop(i)
    /\ s \in events[i] /\ ~Known(i, s)
    /\ inbox[i][s] # << >> \/ PeerClosed(i, s)
    /\ Crash(i)

-----------------------------------------------------------------------------

ClientStep(s) ==
    \/ Connect(s) \/ Greet(s) \/ ReadCount(s) \/ ImportRow(s) \/ ReceiveMessage(s)
    \/ AskUser(s)

\* The steps of a handler that has begun.
HandlerStep(i) ==
    \/ NoUsername(i) \/ RegisterClient(i) \/ WriteRow(i) \/ DeleteRow(i)
    \/ RouteLocal(i) \/ RoutePending(i) \/ RouteForward(i) \/ RouteFails(i)

\* Mutant: the links are not among the sockets select watches.
ServeClientsOnly(i, p) ==
    /\ p \in Sessions
    /\ ReadMessage(i, p) \/ CloseClient(i, p) \/ OrphanServed(i, p)

\* A readable socket of peer p is served.
ServeClient(i, p) ==
    \/ ReadMessage(i, p)
    \/ p \in Sessions /\ (CloseClient(i, p) \/ OrphanServed(i, p))
    \/ p \in Servers /\ LinkLost(i, p)

Next ==
    \/ CommitAllocation
    \/ \E s \in Sessions :
         \/ \E k \in Servers : Allocate(s, k)
         \/ ClientStep(s)
         \/ \E v \in Users : Send(s, v)
         \/ Exit(s)
    \/ \E i \in Servers :
         \/ AcceptConnection(i)
         \/ HandlerStep(i)
         \/ \E p \in Peers : ServeClient(i, p)

Spec == Init /\ [][Next]_vars

\* Processes go on running: the load balancer commits, a client that has not
\* been killed and is not in a prompt reads its socket, a handler runs to its
\* end, and select in the end reports every socket that stays readable.  Nobody
\* has to connect, to write a username, to send, to answer or to leave.
Fairness ==
    /\ WF_vars(CommitAllocation)
    /\ \A s \in Sessions : WF_vars(ReadCount(s) \/ ImportRow(s) \/ ReceiveMessage(s))
    /\ \A i \in Servers :
         /\ WF_vars(AcceptConnection(i))
         /\ WF_vars(HandlerStep(i))
         /\ \A p \in Peers : WF_vars(ServeClient(i, p))

FairSpec == Spec /\ Fairness

(***************************************************************************)
(* Properties                                                              *)
(***************************************************************************)

\* Every variable has its type.
TypeOK ==
    /\ phase \in [Sessions -> Phases]
    /\ greeted \subseteq Sessions
    /\ home \in [Sessions -> Servers]
    /\ toLoad \in [Sessions -> Nat]
    /\ \A s \in Sessions : phase[s] = "importing" => toLoad[s] > 0
    /\ doing \in [Sessions -> {"select", "receive", "prompt"}]
    /\ inBuffer \in [Sessions -> Nat]
    /\ nextId \in Nat
    /\ sent \subseteq Message
    /\ history \in [Users -> Seq(Message)]
    /\ lb \in Sessions \cup {NoSession}
    /\ connectedto \in [Users -> Servers \cup {Offline}]
    /\ pending \subseteq Row /\ IsFiniteSet(pending)
    /\ nextMsgid \in Nat
    /\ alive \in [Servers -> BOOLEAN]
    /\ backlog \in [Servers -> Seq(Sessions)]
    /\ events \in [Servers -> SUBSET Sessions]
    /\ online \in [Servers -> [Users -> Sessions \cup {NoSession}]]
    /\ links \in [Servers -> SUBSET Servers]
    /\ unclosed \in [Servers -> SUBSET Servers]
    /\ numClients \in [Servers -> Int]
    /\ handler \in [Servers -> Handler]
    /\ inbox \in [Servers -> [Peers -> Seq(Message)]]
    /\ recvBuffer \in [Servers -> [Peers -> Seq(Message)]]
    /\ s2c \in [Sessions -> Seq(Frame)]

\* A user's own database holds only messages to that user, by whichever way
\* they came: live, over a link, or through the pending table.
DeliveredToAddressee ==
    \A u \in Users : \A n \in DOMAIN history[u] : history[u][n].to = u

\* What a client finds on its socket is what the login expects there: the
\* count, that many rows, and no live message before the last row
\* (accept_connection against Client.login, which would end in an exception).
LoginProtocol ==
    \A s \in Sessions : s2c[s] # << >> =>
        /\ phase[s] \in {"greeted", "importing", "online"}
        /\ Head(s2c[s]).kind = CASE phase[s] = "greeted"   -> "count"
                                  [] phase[s] = "importing" -> "row"
                                  [] phase[s] = "online"    -> "live"

\* numClients, the load the balancer goes by, counts the clients a server
\* selects on, less one for every link it has dropped (serve_client subtracts
\* a client for a link too).
LoadAccounting ==
    \A i \in Servers : alive[i] =>
        numClients[i] = Cardinality(events[i])
                          - Cardinality((Servers \ {i}) \ links[i])

\* Where a message is now.  A row that has been written to its client and is
\* about to be deleted counts as written.
In(kind, owner, q, id) == {<< kind, owner, n >> : n \in {n \in DOMAIN q : q[n].id = id}}

BeingDeleted ==
    {Head(handler[i].rows).msgid :
        i \in {j \in Servers : handler[j].step = "drain" /\ handler[j].written}}

Places(id) ==
    LET links_ == Servers \X Peers
    IN  (UNION {In("history", u, history[u], id) : u \in Users})
        \cup (UNION {In("inbox", x, inbox[x[1]][x[2]], id) : x \in links_})
        \cup (UNION {In("buffer", x, recvBuffer[x[1]][x[2]], id) : x \in links_})
        \cup {<< "handler", i >> : i \in {j \in Servers :
                 handler[j].step = "route" /\ handler[j].msg.id = id}}
        \cup {<< "pending", r.msgid >> : r \in {q \in pending :
                 q.msg.id = id /\ q.msgid \notin BeingDeleted}}
        \cup (UNION {{<< "s2c", s, n >> : n \in {k \in DOMAIN s2c[s] :
                 s2c[s][k].kind # "count" /\ s2c[s][k].msg.id = id}} : s \in Sessions})

\* No session of sender or recipient has ended, the recipient has logged in on
\* one device at most, no server has ended, and no server has dropped the sender,
\* the recipient or a link.
Undisturbed(m) ==
    /\ \A s \in Sessions : UserOf[s] \in {m.from, m.to} =>
         /\ phase[s] # "exited"
         /\ phase[s] = "online" => Open(home[s], s)
    /\ \A s, t \in Sessions : UserOf[s] = m.to /\ UserOf[t] = m.to /\ s # t =>
         "start" \in {phase[s], phase[t]}
    /\ \A i \in Servers : alive[i] /\ links[i] = Servers \ {i}

\* Is a copy of message m left outside the databases of the users?
CopyLeft(m) ==
    \/ \E i \in Servers, p \in Peers :
         m \in Range(inbox[i][p]) \cup Range(recvBuffer[i][p])
    \/ \E i \in Servers :
         CASE handler[i].step = "route" -> handler[i].msg = m
           [] handler[i].step = "drain" -> \E r \in Range(handler[i].rows) : r.msg = m
           [] OTHER -> FALSE
    \/ \E r \in pending : r.msg = m
    \/ \E s \in Sessions : \E f \in Range(s2c[s]) : f.kind # "count" /\ f.msg = m

\* The servers implement Delivery: whatever ends or overlaps, nothing is stored
\* that was not sent or has been given up, and what nothing has disturbed is
\* stored once and not lost.
Service == INSTANCE Delivery WITH
    underWay <- {m \in sent : CopyLeft(m)},
    stored   <- history,
    safe     <- {m \in sent : Undisturbed(m)}

ImplementsDelivery == Service!Spec

\* Then there is exactly one copy of the message: on a socket, in a buffer, in
\* a handler, in the pending table or in the recipient's database.
OneCopy == \A m \in sent : Undisturbed(m) => Cardinality(Places(m.id)) = 1

OnlyLogin(s) ==
    \A t \in Sessions \ {s} : UserOf[t] = UserOf[s] => phase[t] = "start"

\* Between a sender and a recipient who have each logged in once, the database
\* of the recipient has the messages in the order of sending, none twice:
\* pending rows, link and local delivery do not overtake each other.
OrderedForFirstLogin ==
    \A s, t \in Sessions : OnlyLogin(s) /\ OnlyLogin(t) =>
        LET h == history[UserOf[t]]
        IN  \A a, b \in DOMAIN h :
              a < b /\ h[a].from = UserOf[s] /\ h[b].from = UserOf[s]
                => h[a].id < h[b].id

\* A row leaves the pending table only when its message is still somewhere, or
\* a session of its recipient has ended: the drain never deletes a row it has
\* not written.
RowsWrittenBeforeDeleted ==
    [][\A r \in pending : r \in pending'
          \/ Places(r.msg.id)' # {}
          \/ \E s \in Sessions : UserOf[s] = r.msg.to /\ phase[s] = "exited"]_vars

\* Server i blocks in accept_connection for a client that has connected and
\* writes nothing.
AwaitsName(i) ==
    handler[i].step = "hello" /\ phase[handler[i].ses] = "connected"

\* A select loop never stays in a handler for ever: not for a client that leaves
\* before its username, nor in the drain, nor on an unknown recipient.  Only a
\* client that neither writes its username nor leaves can stop a server.
HandlersFinish == <>[](\A i \in Servers : handler[i] = Idle \/ AwaitsName(i))

\* A client that has written its username gets through the login, unless it is
\* ended, or its server has ended or waits for another client's username.
LoginCompletes ==
    <>[](\A s \in Sessions : phase[s] \in {"greeted", "importing"} =>
            ~alive[home[s]] \/ AwaitsName(home[s]))

\* A server does not keep a link whose other end has been closed, unless it waits
\* for a username: it notices, and that ends it (LinkLost).  A link the other
\* server has only dropped, and not closed, it may keep.
ClosedLinksEnd ==
    <>[](\A i, k \in Servers :
            i # k /\ k \in links[i] /\ PeerClosed(i, k) => AwaitsName(i))

\* A server ends only because it loses a link, or for a user who has logged in more
\* than once: no error path leaves a socket of another client in events without a
\* name in onlineUserSockets.
EndsForAReason ==
    [][\A i \in Servers : alive[i] /\ ~alive[i]' =>
          \/ \E k \in links[i] : PeerClosed(i, k)
          \/ \E s \in events[i] : ~OnlyLogin(s)]_vars

\* On the socket of a client whose user has left a question open, or in the buffer
\* of one with nothing on its socket: it came with the last read of the login.
WithClient(m) ==
    \E s \in Sessions :
        /\ phase[s] = "online"
        /\ LiveFrame(m) \in Range(s2c[s])
        /\ doing[s] = "prompt" \/ (doing[s] = "select" /\ inBuffer[s] = Len(s2c[s]))

\* Stored by the recipient, waiting for the recipient's next login, at the
\* recipient's client, which does not look there, or behind another message in
\* the receive buffer of a server (serve_client takes one per recv).
AtRest(m) ==
    \/ m \in Range(history[m.to])
    \/ \E r \in pending : r.msg = m
    \/ WithClient(m)
    \/ \E i \in Servers, p \in Peers : m \in Range(recvBuffer[i][p])

\* An undisturbed message does not stay under way: not in a handler, not on a
\* link, not on the socket of a client that could read it.  The exception is a
\* server that waits for a username.
MessagesComeToRest ==
    <>[](\/ \A m \in sent : Undisturbed(m) => AtRest(m)
         \/ \E i \in Servers : AwaitsName(i))

\* Nothing is left to do: every socket and buffer is empty, no connection waits
\* to be accepted or closed, no handler runs.
Quiet ==
    /\ lb = NoSession
    /\ \A s \in Sessions : phase[s] \in {"start", "online", "exited"}
    /\ \A i \in Servers : alive[i] =>
         /\ handler[i] = Idle
         /\ backlog[i] = << >>
         /\ \A p \in events[i] \cup links[i] :
              inbox[i][p] = << >> /\ ~PeerClosed(i, p)

\* When nothing is left to do, connectedto names the server a user is online at,
\* provided the user has logged in once: the load balancer's late write, the
\* registration and the servers' clean-up end in agreement.
KnowsFirstLogin ==
    Quiet => \A s \in Sessions : \A i \in Servers :
        OnlyLogin(s) /\ online[i][UserOf[s]] = s => connectedto[UserOf[s]] = i

\* README.md:27, "Clients can login ... from any device": a login does not end
\* a server.
ServersStayUp == \A i \in Servers : alive[i]

\* README.md:51, "The server knows where each online client is connected, and
\* sends the message to the recipients server": when
\* nothing is left to do, no message for a user who is online is in the
\* pending table.
OnlineUsersServed ==
    Quiet => \A r \in pending : \A i \in Servers :
                 online[i][r.msg.to] = NoSession

=============================================================================
