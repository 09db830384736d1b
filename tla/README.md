# FastChat in TLA+

Models of FastChat (a chat program of several servers behind a load balancer),
their model-checking configurations for TLC, and proofs for TLAPS. FastChat's
code is under `src/`; line numbers below refer to it.

    tlc -config ServerSessions.cfg MCServer.tla     # a run
    tlapm ServerProofs.tla                          # a module of proofs

| File | What it is |
|---|---|
| `Server.tla` | the chat servers, the links between them, the shared tables, the clients as the servers see them |
| `MCServer.tla`, `Server*.cfg` | its instances |
| `Delivery.tla` | what the servers promise about a message: the abstract specification of `Server` |
| `ServerProofs.tla` | proofs: types, messages reach their addressee only, the load a server reports is what the code counts, a login finds what it expects, a first login is known, what a server ends for |
| `ServerDeliveryProofs.tla` | proofs: no pending row is lost, undisturbed messages have one copy, `Server` implements `Delivery`, first logins get their messages in order |
| `LoadBalancer.tla` | accepting, authentication, accounts, choice of a server |
| `MCLoadBalancer.tla`, `Balancer*.cfg` | its instances |
| `LoadBalancerProofs.tla` | proofs: types, unique names, even round-robin, no allocation without credentials, least-load keeps the loads close |
| `MessageHandler.tla` | framing and parsing of messages over a byte stream |
| `Channel.tla` | what a `MessageHandler` connection promises: the abstract specification |
| `MCMessageHandler.tla`, `Handler.cfg` | instance of `MessageHandler` |
| `HandlerProofs.tla` | proofs: types, the parser is in step, `MessageHandler` implements `Channel` |
| `Flow.tla` | messages larger than a socket holds: who waits for whom |
| `MCFlow.tla`, `Flow.cfg` | its instance |
| `FlowProofs.tla` | proofs: types, no message is torn, only writes can block for ever |
| `Startup.tla` | launching the servers and making the mesh |
| `MCStartup.tla`, `Startup.cfg` | its instance |
| `StartupProofs.tla` | proofs: types, no connection is forgotten, who is left is a mesh |
| `Groups.tla` | groups: creating, opening, adding, deleting, over the shared table |
| `MCGroups.tla`, `Groups.cfg` | its instance |
| `GroupsProofs.tla` | proofs: types, receivers stay within the group and agree with the table, admins stay admins |
| `Keys.tla` | accounts, personal databases, key pairs, sealing of messages and of histories |
| `MCKeys.tla`, `Keys*.cfg` | its instances |
| `KeysProofs.tla` | proofs: types, the session's key, readable histories, accounts stay usable |
| `PROJECT.json` | components, runs, the source lines of every definition, findings, hazards, theorems, and for each property a mutation of the model that breaks it |

An operator commented "Mutant:" is not part of a model. It is a plausible bug,
put in the place of the operator it is a variant of to see that a property
notices.

## 1. The system

**Chat server** (`server.py`), n processes. State: the sockets it selects on
(`events`), the table from names to connections (`onlineUserSockets`; names of
users and of the other servers, as "Server k"), `numClients`. Operations:
`accept_connection` (read a username, register, hand over the pending
messages), `serve_client` (read one message of a client or another server, and
write it to a local client, to another server, or into the table `pending`; or
clean up after a peer that closed), `run` (select), `makeKn` (connect to the
other servers). One thread; a handler runs to its end, and blocks in `recv`.

**Load balancer** (`loadBalancer.py`), one process. State: connections in
login, the round-robin counter `se`. Operations: `accept_client`,
`check_and_allocate_client` (read credentials, create or check the account,
choose a server, answer, write `connectedto`), `choose_server`.

**Client** (`client.py`), one process per session. State: the user's own
database (`chats`, `history`), the open chat, its receivers, `isAdmin`.
Operations: `login` (two connections), `serve` (select on the socket and
stdin), `sendMessage`, `receiveMessage`, and the group operations.

**Message protocol** (`message.py`). State of a connection's end: send and
receive buffer, the headers parsed so far. Operations: `write`, `read`,
`read(True)`.

**Database**. Tables `usercreds` (with `connectedto`: the server a user is at,
or -1), `pending`, `serverload`, `groups`. Every statement is a transaction of
its own or commits at once; no column but the primary keys is unique.

**Keys** (`crypto.py`, the first half of `Client.login`). State: the key pair of
a client; per user a personal database with the
private key under the password and a history encrypted with it. Operations:
making and opening these, encryption for a receiver, decryption.

**Start-up** (`system.py`, `Server.__init__`, `makeKn`). State: which servers are
launched, bound, connected to the lower ones, and in their select loop.
Operations: launching, binding, connecting, writing the own name, accepting.

How they interact: a client asks the load balancer, which answers with a server
and *then* writes `connectedto`; the client connects to the server and writes
its username; the server writes `serverload`, which the load balancer reads for
the next client. A server that has a message for a user of another server looks
in `connectedto` and forwards it on the link, where the other server treats it
like one from a client. Nobody waits for an acknowledgement.

| Component | What makes it hard | What should hold |
|---|---|---|
| Server | what one process has read in a table another one changes before the first acts on it; clients that vanish at any moment; a second session of a user before the first is cleaned up; links that are dropped by error paths | a message reaches its addressee, once, in order; the login protocol holds; the load is what the code counts; handlers end; a server ends for a reason |
| Load balancer | the answer overtakes the write of `connectedto`; the load lags; retries; resets | names unique; no allocation without credentials; an even spread; requests answered |
| Message protocol | the stream is cut anywhere, and several frames come at once | whole messages, in order, none kept back |
| Groups (client) | several clients read, announce and write back one row of `groups` | every member has the same receivers; receivers belong to the group; who changes a group is an admin |
| Server and client sockets | every send blocks while the other side does not read: another server that sends, or a client whose user is in a prompt | nobody waits for a message that is not coming; what arrives when is known |
| Start-up | servers are launched without waiting for each other, and any may fail | the servers that are left are a mesh |
| Accounts and keys | the account exists before its database, which other devices may look for; databases outlive an installation; names are folded in one place and not in another; keys of refused attempts linger | a session has its account's key; history stays readable; an account stays usable |

## 2. The models

### Server

| Variables | In the code |
|---|---|
| `events`, `online`, `links`, `numClients` | `Server.events`, `onlineUserSockets` (users; servers), `numClients` and the row of `serverload` |
| `backlog`, `inbox`, `s2c` | connections not accepted; frames in the sockets, either way |
| `recvBuffer` | frames a `recv` brought along and `read` has not returned |
| `unclosed` | links a server has dropped whose sockets are still open, since the variables of `run` (server.py:177-178) refer to them |
| `handler` | what a select loop is doing: nothing, awaiting a username, in the drain of pending rows, or routing a message it has looked up the recipient of |
| `connectedto`, `pending`, `nextMsgid` | the tables |
| `phase`, `greeted`, `home`, `toLoad`, `history` | the progress of a session through `Client.login` and `serve`; the user's own database |
| `doing`, `inBuffer` | what a client does in `serve` (select, a call of `receiveMessage` by itself, a prompt); how many frames of its `s2c` are in its `_recv_buffer`, where select does not see them |
| `lb` | an allocation whose `connectedto` is still to be written |
| `sent`, `nextId` | auxiliary: the messages sent |

Actions and code:

| Actions | Code |
|---|---|
| `Allocate`, `CommitAllocation` | loadBalancer.py:103-107, two steps |
| `Connect`, `Greet`, `ReadCount`, `ImportRow` | the second half of `Client.login` |
| `Send`, `ReceiveMessage`, `AskUser`, `Exit` | one receiver's turn in `sendMessage`; one call of `receiveMessage`, client.py:251-318; a prompt that the user leaves open (client.py:354-372 and the prompts behind it); any end of a client |
| `AcceptConnection`, `NoUsername`, `RegisterClient` | server.py:43-82 |
| `WriteRow`, `DeleteRow` | the loop over pending rows, server.py:83-86 |
| `ReadMessage` | server.py:108-121: `read`, and the `SELECT` for the recipient |
| `RouteLocal`, `RoutePending`, `RouteForward`, `RouteFails` | server.py:122-130 and, for a server that is not known, 155-168 |
| `CloseClient`, `LinkLost`, `OrphanServed` | `read` gave None, server.py:139-168 |

`MayStart` is no code but an assumption about the users: without `Overlap`,
nobody is logged in on two devices at once.

A handler is cut into several actions exactly where another process can touch
what it has read or is about to write: between `SELECT connectedto` and the use
of it, between the write of a row to the client and its `DELETE`, between the
answer of the load balancer and its `UPDATE`, and while it blocks in `read`.
Between these points a handler only uses its own state, so that a step of
another process can be moved before or after.

Three things deserve a remark. A write to a client that has gone succeeds from
the server's point of view (message.py:70-75 catches everything), so
`WriteToClient` loses the frame and does nothing else. `ORDER BY sendtime`
orders by `now()` of the inserting transaction: rows of one server keep their
order, rows of two servers may come in any, and `PendingFor` is the set of the
orders allowed. `recv` may bring several frames while `read` returns one;
`ReadMessage` leaves the others in `recvBuffer`, and only another readable
event of the same socket brings them out.

Three ways in which things come apart are in the model and worth knowing.

*Links.* A message forwarded to a server that does not have the recipient (its
`connectedto` entry is ahead of the login, or behind a logout) raises `KeyError`
there, at line 127 if the entry names that server itself; the handler of the
exception (155-168) drops the peer the message came by, which is the link. It
takes the socket out of `events` and `onlineUserSockets` and closes nothing: the
variables `readable_socks` and `readable_sock` of `run` (177-178) keep the
socket open while `select` blocks, so `RouteFails` puts the link into
`unclosed`, and `ReleaseSockets`, a part of each action by which `select` returns,
may take it out. Until then the server at the other end has half a link: it
writes to it, unnoticed, what nobody will read (`Deserted`), for as long as
nothing happens at the first server, which may be for ever. Once the socket is
closed the other server reads the end of the link, and line 144, where
`serverConnections` does not exist, ends it. `ClosedLinksEnd` says that much and
no more; that nothing else ends a server, except a user with two sessions, is
`EndsForAReason`.

*Buffers of servers.* A server decodes one message per readable socket, so that
messages which came with the same `recv` stay in `recvBuffer` until the sender
writes again, and are lost if it leaves: `AtRest` counts that place.

*Buffers of clients.* The reads of a login leave in the client's buffer what
came with them, the last one perhaps whole live messages, and the client goes on
to a `select` that sees only the socket (client.py:182-191, 317-318). They stay
there until another message comes. And a client in a prompt does not read at
all. `WithClient` names these two places, and `AtRest` counts them.

### Delivery

The abstract specification of `Server`, over what a user can see: the messages
`sent`, the databases (`stored`), and for each message whether a copy is left on
its way (`underWay`) and whether anything has disturbed it (`safe`). There are
three steps: a message is sent, a copy is stored, copies are given up. An
undisturbed message is stored at most once and is not given up before. A
disturbed one may be lost, or stored twice, and a copy that has been given up
never comes back. `Server` implements it with `underWay` mapped to the messages
with a copy in an inbox, a buffer, a handler, the table or on a client's socket,
and `safe` to those with no ended session of either side, no second session of
the recipient, no ended server and no dropped link (`ImplementsDelivery`). The
second session matters because two servers may drain the table for one user at
the same time: each selects the rows before the other has deleted them, and the
user has both copies.

### Startup

| Variables | In the code |
|---|---|
| `launched` | the loop in `System.__init__` |
| `proc` | a server process: before `listen`, in `makeKn`, in `run`, gone |
| `target` | the loop variable of `makeKn` |
| `links` | other servers in `onlineUserSockets` and `events` |
| `greeted` | whom a server has written its "Server i" to |
| `backlog`, `accepting` | connections the kernel holds; the one `accept_connection` reads a name from |

`ConnectTo` and `GreetServer` are one turn of the loop in `makeKn`, two steps
because the other server may accept in between and then blocks in `read`.
`Refused` is a lower server that does not listen (yet): the exception ends the
process, and with it the links it had, which ends the servers at the other ends
(`LinkLost`). `Fail` is everything that ends a server for reasons of its own: a
port that is taken (line 18 reads the option that would free it and does not set
it), no database, an interrupt.

### LoadBalancer

The select loop with its task as a state machine (`Loop`, `Choosing`,
`Recording`), the table `usercreds` as a sequence of rows, connections with
their resets, clients with everything they may do in a login: submit right or
wrong credentials or a taken name, try again, quit with or without an unread
answer. `Register` and `Logout` stand for the servers, which write `serverload`
and clean up `connectedto`; Server has those in full. `ResetInSelect` and
`ResetWhileRecording` are the two places where `getpeername` raises outside of
any `try`.

### MessageHandler and Channel

One direction of a connection. A byte is a record that says which message it
comes from, of which of the three parts of a frame, and where in it, so that a
parser out of step would be seen to decode the wrong bytes (`Garbage`). `send`
may take any prefix, `recv` any number of bytes up to `MaxRecv`. `program` is
who reads: a server, which reads one message per readable socket, or a client,
which goes on while its buffer is not empty.

`Channel` is what the ends rely on: the messages come out whole, in order, each
once. `ChannelSpec` says that `MessageHandler` implements it, under the mapping
that keeps `written` and `delivered` and hides bytes, buffers and parser.
Server uses a frame as one unit because of this property. After the reads of a
login (`LoginReads`) the client goes to its select loop without a look at its
buffer; what came with the last of them stays there until something else
arrives. `EventuallyDelivered` has that as its one exception (`KeptSinceLogin`).

### Flow

Server and MessageHandler have unbounded channels. In Flow a message has a size
in chunks, and a socket holds `Capacity` of them in each direction; an image is
one message (client.py:374) of any length. A process is idle in `select`, in
`read` with the beginning of a message in its `buffer`, in `write` with some
chunks to go, or, if it is a client, in a prompt (once, which bounds the
executions). Sockets are blocking (server.py:36,44,63; message.py:55,71), and
there is one thread, so these exclude each other. Everyone is online and
`usercreds` is right, so that `NextHop` is the rule of server.py:122-130.

| Actions | Code |
|---|---|
| `Compose`, `AskUser`, `Answer` | a user's message or image; a prompt, and its end |
| `SendChunk` | `_write`: one chunk, when the socket has room |
| `Recv` | one `recv`, of any number of the chunks that are there, also beyond the end of a message: `ReadOn` if no message is complete; `PassOn`, a server takes the first message and leaves in its buffer what came with it, unseen by `select` (server.py:115); `Store`, a client goes on until its buffer is empty, and blocks for the rest of a message that has begun (client.py:317-318) |

A message that a server has in its buffer behind another one stays there unless
something else comes by the same socket: `LeftBehind`, which
`EverythingArrives` excepts, for a message whose hop to that server another
message of the scenario shares.

### Groups

No server knows of groups. A client that opens one reads the row once and keeps
`receivers` from then on; whoever adds a member tells the others by a message,
and each writes the table itself.

| Variables | In the code |
|---|---|
| `groups` | the table, lists taken as sets |
| `task` | where a client's control is: no process, the choice of a chat, the select loop, `create_group`, `add_member` between its `SELECT` and its `UPDATE` |
| `group_name`, `inAGroup`, `isAdmin`, `receivers` | attributes of `Client` |
| `mail` | `__added__` and `__removed__` messages that a user's client has not read |
| `belonged`, `disturbed` | auxiliary: who was ever to be in a group; the groups in which steps overlapped |

| Actions | Code |
|---|---|
| `OpenGroup`, `BeginCreate`, `OpenDirect`, `ChangeChat` | the branches of `get_recipient`, client.py:439-492, and `-cd` |
| `InsertGroup` | the end of `create_group`, client.py:562-570; the prompts before it lie between `BeginCreate` and it |
| `SelectGroup`, `Announce`, `UpdateGroup` | `add_member` up to the `SELECT`, `sendMessage`, the `UPDATE`, client.py:604-615 |
| `AnnouncePartly` | the client ends within that `sendMessage` |
| `DeleteMember` | `delete_member`: the message goes out, then line 648 reads `groupadmins_new` before its assignment (or line 647 raises, if the name is not in the list) and the client ends; the `UPDATE` is never reached |
| `ReceiveMessage` | one message of `receiveMessage`; `__removed__` has no effect, since nine characters never equal eleven |
| `StoreMessage` | the message finds no client, and is stored or lost (Server has the details) |
| `Exit`, `Start` | `-e`, Ctrl-C or an exception anywhere; a next login |

Messages of different senders, and messages from `pending` and live ones, come
in any order, so `mail` is a set. Messages that users write to each other
change none of these variables and are left out; where they go is `receivers`,
and that is what `ReceiversBelong` speaks of. `RowsOf` may have two rows, after
a name was created twice; `fetchall()[0]` is then either of them, since an
`UPDATE` moves rows.

### Keys

| Variables | In the code |
|---|---|
| `usercreds` | the table, password and public key |
| `databases` | the personal databases by name: table `privatekey`, whether `chats` and `history` exist, the passwords of the entries in `history` |
| `request` | credentials the load balancer has not read |
| `at`, `username`, `password`, `newuser` | where a client is in `login`, and what it typed last |
| `priv_key` | `RSA_priv_decrypt_key` of its `Crypt` |
| `mail` | the messages written, with the key each opens with |
| `attempts`, `cutShort` | bound; auxiliary: accounts whose client ended before their database was complete |

| Actions | Code |
|---|---|
| `Submit` | client.py:61-84 |
| `CreateAccount`, `Authenticate`, `Refuse` | loadBalancer.py:76-103 |
| `DropDatabase`, `CreateDatabase`, `ConnectToNew`, `StoreKey`, `CreateTables` | client.py:116-164, cut where a statement commits; each of the first three may raise |
| `OpenDatabase`, `OpenFails` | client.py:166-178 |
| `WriteTo` | one receiver's turn in `sendMessage` with `main_encrypt` and `password_encrypt` |
| `ReadMessage`, `ReadFails` | `main_decrypt` and `password_encrypt` in `login` and `receiveMessage` |
| `Exit` | the client ends |

A key pair is one value, and a sealed message is the key that opens it: the
Fernet key inside has no other use. `sendMessage` sets the key of the receiver
and seals with it in two consecutive lines (client.py:228-229), so `WriteTo` does
both and there is no variable for `RSA_encrypt_key`. The hash of a password stands
for the password. `userprivkey`, which the load balancer stores, is left out: README.md:36
has it stored "for exporting to other devices", but no statement reads it, and a
second device takes the key from the personal database. How messages get to the
recipient is Server's matter; here any message written may be read at any time.
`Init` has, for each lower-case name, either no database or one of an earlier
installation, because `system.py` drops its own database and no other.
PostgreSQL refuses to drop a database somebody is connected to (`InUse`), which
protects the users who are online, and only them, from a registration under
another spelling of their name.

## 3. The runs

Runs that pass:

| Run | Instance | What it shows |
|---|---|---|
| `server_sessions` | 2 servers; bob logs in once, ann twice, the second time while the server of the first session may not have noticed its end; 2 messages from bob to ann; everybody may leave at any moment. 479 000 states | `DeliveredToAddressee`, `LoginProtocol`, `LoadAccounting`, `RowsWrittenBeforeDeleted`, `ImplementsDelivery` |
| `server_once` | 2 servers, two users who log in once, write to each other and may leave a question open, 2 messages, fairness. 58 000 states | `OneCopy`, `OrderedForFirstLogin`, `KnowsFirstLogin`; `EndsForAReason`; `HandlersFinish`, `LoginCompletes`, `ClosedLinksEnd`, `MessagesComeToRest` |
| `startup` | 4 servers, any of which may fail at any moment, fairness. 45 000 states | `NoLinkForgotten`, `SurvivorsConnected`, `Settles` |
| `flow` | 3 users on 2 servers, every scenario of at most 2 messages of 1 or 3 chunks (of two that differ by an exchange of ann and cat, one), 2 chunks a socket, fairness. 136 000 states | `ReadersAreFed`, `OnlyWritesBlock`, `EverythingArrives` |
| `balancer_round_robin` | 2 servers, 3 clients, one name and two passwords, all failures, fairness. 205 000 states | `UniqueUsernames`, `AddressOnlyToAccounts`, `RoundRobinEven`, `RequestAnswered` |
| `balancer_least_load` | 3 servers, 4 clients of which 2 in login at a time | `SpreadWithinOutstanding` |
| `groups` | 3 users, 2 group names, 2 rows, 5 commands. 167 000 states | `ReceiversBelong`, `GroupAgrees`, `AdminsAreAdmins` |
| `keys` | 3 clients, the names ann, Ann and bob, 2 passwords, 3 submissions. 1 100 000 states | `OpensOwnMail`, `HistoryReadable`, `AccountUsable` |
| `handler` | both programs, a login of 2 reads, 4 messages of lengths 1 and 2, partial sends, `recv` of 1 to 6 bytes. 32 000 states | `Aligned`, `ChannelSpec`, `EventuallyDelivered` |

Why these bounds: two servers are all that a forwarding needs, since a server
forwards in one step and never to a third; three sessions give an old and a new
session of one user and a correspondent; two messages are enough for an order,
and for one message to be in `recvBuffer` while another is routed. One name and
two passwords let three clients compete for an account. A frame of 4 or 5 bytes
against `recv` of up to 6 gives every cut of a frame and reads that end in the
next frame; four messages, two of them read by the login, let a send buffer hold
parts of two and let a read after the login leave a whole message in the buffer.

Four servers let a server fail while one above it is connecting, another one has
connected, and one below is still up: the end has to spread upwards over two
links, and a server waits for a name that does not come. In `flow`, a message of
three chunks is longer than the socket of two, so that a sender blocks in the
middle of it, and one of a single chunk fits, so that one `recv` brings the end of
a message and the next one whole; two users on one server and one on the other
give local and forwarded messages, two messages each way, and two to one
recipient. ann and cat are on the same server, and the scenario with the two
exchanged has the same executions.

For `groups`, 5 commands are: two to create a group, two to add a member or to
open it from another client, and one to disturb, such as an exit or a change of
chat; a third user is the one both additions, or an addition and a chat, may be
about.

For `keys`, 3 submissions are three accounts, so that one client writes to two
others; or an account, an attempt that is refused and a login, by one client or
by several at once. Ann and ann are two accounts with one database.

Sessions of one user are interchangeable in `server_sessions` (they differ in
their names only), clients in the run of least-load, users and names in that of
groups, clients and passwords in those of keys; symmetry is used there, and
nowhere with liveness.

`CHECK_DEADLOCK FALSE` everywhere: each session is used once and messages are
bounded, so an execution may come to rest.

**Fairness.** `Server`: weak fairness of each client's reads, of each server's
handler, of its accepting and of serving each peer, and of the load balancer's
`UPDATE`. A process that can go on does go on, and select reports a socket that
stays readable; the loop over `readable_socks` (server.py:178) serves every
reported one before the next select. Nothing forces a user to log in, to send,
to answer a question, or to leave, and nothing forces a client to connect, or to
write its username once it has connected. A server that has accepted such a
client blocks in `read` for as long as the client likes and serves nobody:
`AwaitsName`. `HandlersFinish` says that this is the only way a handler does not
end, and `LoginCompletes`, `ClosedLinksEnd` and `MessagesComeToRest` have it as an
exception. A prompt is an exception where it is one in the code: `WithClient`.
`LoadBalancer`: weak fairness of the task begun and of each connection, for the
same reason. `MessageHandler`: of the reader; the writer may stop anywhere.
`Startup`: of the launcher and of each server; one condition for a server is
enough, since only finitely many things happen to it. Failing is not forced.
`Flow`: of the processes together and of the users' sending; nobody has to
answer a prompt, and `EverythingArrives` says nothing of the executions in which
somebody does not. One condition for all processes is enough (and assumes less),
since an execution has finitely many steps.

Runs that show where the program and what is said of it part (PROJECT.json has
the quotations):

| Run | What is said | What happens |
|---|---|---|
| `server_stays_up` | users can log in from any device | two sessions of a user at one server: the first socket has no name any more, and serving it ends the server |
| `server_served` | the server knows where each online client is connected and sends the message to the recipient's server | `SELECT` says offline; the user logs in and is given the pending rows; `INSERT` |
| `keys_history` | users can restore their history as far back as they wish; each owns a personal database | "Ann" registers, and the database of "ann", who is offline, is dropped |

The properties that hold are worded next to these. `SurvivorsConnected` and
`Settles` are what is left of "creating a fully connected server graph"
(server.py:188): a server that connects before a lower one listens ends, and
takes along every server that has a link to it; what is left is a mesh, of the
servers below. `EverythingArrives` is about scenarios in which no two messages
can cross, and, as the code has it, lets a server keep a message that came
behind another one in the same `recv`; `OnlyWritesBlock` is about the other
scenarios too: two images that cross between
two servers, each larger than the sockets, leave both servers in `send` for
ever, and so does an image to a user who is in a prompt, for as long as the
prompt. `AdminsAreAdmins` says "of some group", since the flag `isAdmin` stays
set when the next group is opened (client.py:463): an admin of one group can
change every other group the user opens afterwards. `KnowsFirstLogin` and
`OrderedForFirstLogin` are about users with one session: with two, the clean-up
of the earlier one may write -1 into `connectedto` (server.py:152) after the load
balancer has written the server of the new one, and messages go to `pending`
from then on; `OneCopy` is about
messages whose two sides and servers are undisturbed and whose recipient has no
second session. `ClosedLinksEnd` is about sockets that have been closed: a link
that its other end has only dropped may stay, half open, for as long as nothing
happens there. `MessagesComeToRest` counts as rest the two kinds of receive
buffer that nobody looks into, and the socket of a client in a prompt.
`LoadAccounting` says what the code makes of the load, which is not the number
of clients: the handler of line 155 subtracts a client for a dropped link too;
`SpreadWithinOutstanding` takes the clients on their way into account and
assumes that nobody leaves (logouts may all be at one server, and nobody is
moved), and is what is left of "the difference between the number of clients connected to any
two servers is atmost 1" (presentation.tex:111): the load counts clients who
have arrived, so that two who log in together go to the same server.
`RowsWrittenBeforeDeleted` says that a row was written before it is deleted, and
no more: the write may have gone to a client that is not there any longer.
`GroupAgrees` leaves out the groups in `disturbed`, each for a reason that does
make receivers and table differ: a name created twice, a second addition or an
opening between `SELECT` and `UPDATE` (of two overlapping additions the later
`UPDATE` takes the other's new member out again, client.py:604-614), an admin who has not
read of an earlier addition, a client that ends in an addition. TLC finds a counterexample to
`GroupAgrees` without any one of these. For two of them it takes more than the
run has: an opening needs a sixth command, an announcement that was not read a
sixth command and a fourth user, so the run does not need those two exceptions.

## 4. The proofs

For any finite set of servers, any users, sessions and bounds (the assumptions
of `Server`: servers are numbers and not sessions, `NoSession` is neither), and
whether or not sessions of one user overlap (`Overlap`):

| Theorem | Statement | Argument |
|---|---|---|
| `ServerProofs!TypeCorrect` | `Spec => []TypeOK` | inductive as it stands, because it says that a drain has a row and an importing client one to wait for |
| `ServerProofs!OnlyToTheAddressee` | `Spec => []DeliveredToAddressee` | `AddresseeInv`: the entry of a user is a session of that user, the rows of a drain and the frames on the way to a session are for its user. `history` alone does not say what is under way to it, hence the strengthening |
| `ServerProofs!LoadIsCounted` | `Spec => []LoadAccounting` | `LoadInv`: a session is at one place of a server (backlog, awaited, selected on) and there once, so that registering adds a *new* member to `events`; and the peer of a route is still a client or a link when it is dropped, so that the decrement has something to take away. Each step is for each server one of four: nothing, a registration, the loss of a peer, the end (`FourWays`) |
| `ServerProofs!LoginsFindWhatTheyExpect` | `Spec => []LoginProtocol` | `LoginInv`: a session is only at its `home`, and only after its arrival; until its registration nothing is on the way to it; from then on the frames on the way are a count if the session is in `greeted`, the rows of the count less those its drain has still to write, and live messages only when none is left (`FramesFit`). A step either leaves a session as it was (`WhoSees`, `WhoServes`), or is one of the ten that read, write or move it |
| `ServerProofs!ServersEndForAReason` | `Spec => EndsForAReason` | `Named`: a server that runs has each socket in `events` under its name in `onlineUserSockets`, if the user of the socket has no other session. The error path drops the two together, and only a second registration of the same user takes the name away. `OrphanServed`, the other step that ends a server, is then one of a user with two sessions |
| `ServerDeliveryProofs!NoRowIsLost` | `Spec => RowsWrittenBeforeDeleted` | `DrainInv`, with `AddresseeInv`: `msgid` is a key of all the rows in the table or in a drain, so that a DELETE by `msgid` removes the row that was written; and a row marked as written has reached its session, the database, or a session that has ended (`Reached`) |
| `ServerProofs!FirstLoginIsKnown` | `Spec => []KnowsFirstLogin` | `KnownInv`: for a user with one session, from its allocation until it leaves, `connectedto` is right or the load balancer has still to write it (`RecordedInTime`); a clean-up that would write -1 is one of a session that has ended |
| `ServerDeliveryProofs!ExactlyOneCopy` | `Spec => []OneCopy` | see below |
| `ServerDeliveryProofs!ServersDeliver` | `Spec => ImplementsDelivery` | see below |
| `ServerDeliveryProofs!OrderIsKept` | `Spec => []OrderedForFirstLogin` | see below |

**One copy.** `OneCopy` counts places, so the proof is about the places of an id
in each of six kinds of container (databases, inboxes, buffers, handlers, the
table, frames): a step takes the id from at most one place and puts it into at
most one (`Keeps`, `Gives`, `Gets` say which, per container). `CopiesSingle`
says that an undisturbed message has one place; that this is preserved needs
`CopiesInv`: ids are not reused and what is anywhere has been sent (`SentInv`),
what comes from a client is its user's (`FromSender`), the rows of a drain are
the rows in the table if the recipient has one session (`SoloDrain`, false
without the condition on second sessions), and that a session which is being
logged in is selected on by its server from its count on (`Attended`: the
condition "not dropped" of `Undisturbed` is about online sessions, and is then
true of every session when it becomes online).

**Delivery.** With `CopiesInv` and `CopiesSingle`, and with `StoredWhenGone`
(an undisturbed message without a copy left is stored, and one with a frame on
its way is not), each step of `Server` is `Send`, `Store` or `GiveUp` of
`Delivery` under the mapping, or a stutter: `ImportRow` and `ReceiveMessage` are
`Store`, or, where the message is left in no other place, store and give up at
once; everything else that removes a copy gives up one that is disturbed or
stored.

**Order.** Ids are given in the order of sending, so it is enough that they rise
on the way. For a sender s at server i and a recipient t at server k, who have
one session each, the ids of s's messages to t are at seven stages: stored, on
the socket of t, waiting (in the table while t is not registered, in the drain
after that), routed by k, on the link from i, routed by i, on the socket of s.
`OrderInv` says that at each stage the ids rise in the order in which the stage
is emptied, and that every id at a stage is less than every id at a later one
(`Chain`). A step takes one id from a stage to the one before it, and a lemma
per such step (`ChainRead`, `ChainForwarded`, ...) shows that the chain stays;
what has to be known is that the stages in between are empty, or that they are
not passed: `PathInv` says that messages are on no other sockets and links, and
that on the link and at k there is nothing while i is about to put a message of
s into the table for a t who is not registered; `SeenInv` that what a handler has
read of `connectedto` is -1 or k, k once the load balancer has written it, and
not -1 any longer then for a t on its way. This is where the drain is in it: a
row inserted after the drain's `SELECT` is never delivered to t (the run
`server_served`), and so does not arrive late. `SeenInv` would be
false after the clean-up of an earlier session, which writes -1 whatever the
load balancer has written since (server.py:152); hence "first login".

For any number of servers and any of them failing:

| Theorem | Statement | Argument |
|---|---|---|
| `StartupProofs!StartupTypeCorrect` | `Spec => []TypeOK` | inductive |
| `StartupProofs!LinksAreKept` | `Spec => []NoLinkForgotten` | with `InOrder`: only lower servers are connected to, one after the other, and a name is written only on a connection that is made |
| `StartupProofs!SurvivorsAreAMesh` | `Spec => []SurvivorsConnected` | a server in `run` has connected to all lower ones; at rest such a connection is a link of the other side too, by `NoLinkForgotten`, and its other side has not ended |

For any number of servers and clients (`N` a positive number) and each of the
three algorithms:

| Theorem | Statement | Argument |
|---|---|---|
| `LoadBalancerProofs!TypeCorrect` | `Spec => []TypeOK` | inductive |
| `LoadBalancerProofs!NamesStayUnique` | `Spec => []UniqueUsernames` | only `CreateAccount` adds a row, and tests in the same step |
| `LoadBalancerProofs!RoundRobinIsEven` | `Spec => []RoundRobinEven` | `Rounds`: after r full rounds the servers up to `se` have been chosen r + 1 times, the others r times |
| `LoadBalancerProofs!OnlyAccountsAreAllocated` | `Spec => []AddressOnlyToAccounts` | `LoginInv`: while a client is being allocated its credentials are those of an account and cannot change, since it waits for the answer; and rows are never removed nor passwords changed |
| `LoadBalancerProofs!LoadsStayClose` | `Spec => []SpreadWithinOutstanding` | `ClaimInv`: a load with the clients that have been sent there and not arrived (`Claims`) stays within `MaxOutstanding` of any other load without them; the server chosen has the least load, and the clients on their way to one server, the new one included, are among those in their login |

For any users and group names, any number of rows and commands:

| Theorem | Statement | Argument |
|---|---|---|
| `GroupsProofs!TypeCorrect` | `Spec => []TypeOK` | inductive, because it says that a client in or about to change a group has a name for it |
| `GroupsProofs!OnlyToTheGroup` | `Spec => []ReceiversBelong` | `BelongInv`: rows, selected rows and announcements under way name only users who belonged to their group, and a client that is to choose a chat has no receivers left. All four feed `receivers`, and `UpdateGroup` and `Announce` feed them from each other, so none can be left out |
| `GroupsProofs!ClientsAgreeWithTheTable`, `GroupsProofs!AdminsStayAdmins` | `Spec => []GroupAgrees`, `Spec => []AdminsAreAdmins` | `AgreeInv`: for a group that nothing has disturbed there is one row and at most one adder, whose selected row is the one in the table; whoever has the group open has as receivers the row, with the new member if it has read of one, and less those it will still read of |

For any lengths of headers and messages, any `MaxRecv`, any number of messages
and of reads in a login, partial sends or not:

| Theorem | Statement | Argument |
|---|---|---|
| `HandlerProofs!HandlerTypeCorrect`, `HandlerProofs!ReaderIsAligned` | `Spec => []TypeOK`, `Spec => []Aligned` | `IInv`: receive buffer, wire and send buffer are one stream, in which the bytes of a part are together and the parts follow each other as `_create_message` puts them; it begins with the part the parser expects, of the message after the last delivered, and while the writer is open it ends where a message does. `TypeOK` alone does not even give that a decoded header is a message |
| `HandlerProofs!HandlerImplementsChannel` | `Spec => ChannelSpec` | a read delivers the next message written, by `IInv`; every other step is a `Write` or a stutter of `Channel` |

For any servers, clients, scenarios, sizes of messages and `Capacity`:

| Theorem | Statement | Argument |
|---|---|---|
| `FlowProofs!FlowTypeCorrect` | `Spec => []TypeOK` | inductive |
| `FlowProofs!MessagesAreNotTorn` | `Spec => []ReadersAreFed` | `Continued`: the last that a process has sent to another, on the wire or else in the reader's buffer, is the end of a message, unless the process is in `write`; `Begun`: who is in `read` has the beginning of one message in its buffer, and the end of none. `ReadersAreFed` alone says nothing of where in a message a read stops |
| `FlowProofs!OnlyWritesCanBlock` | `Spec => []OnlyWritesBlock` | from `ReadersAreFed` |

For any clients, names, passwords and number of submissions:

| Theorem | Statement | Argument |
|---|---|---|
| `KeysProofs!TypeCorrect` | `Spec => []TypeOK` | with `HasKey`: a client that makes an account has a key, and its request too |
| `KeysProofs!SessionsHoldTheirKey`, `KeysProofs!HistoriesAreReadable` | `Spec => []OpensOwnMail`, `Spec => []HistoryReadable` | `KeysInv`: a pending request is what its client typed last; an accepted client has its account's password, and the key if it made the account; a database of this installation holds nothing but its account's key and entries under its account's password |
| `KeysProofs!AccountsStayUsable` | `Spec => []AccountUsable` | with `KeysInv`: a database is dropped only by a client that makes an account of that name or of another spelling, and either excuses the account until the database is complete again |

Only model-checked: the liveness properties (`HandlersFinish`, `LoginCompletes`,
`ClosedLinksEnd`, `MessagesComeToRest`, `Settles`, `EverythingArrives`,
`RequestAnswered`, `EventuallyDelivered`), since the prover has no ENABLED. Every
safety property of a passing run has a theorem.

## 5. What is not modelled

- A database that fails, and so the `except` of `accept_connection`
  (server.py:91-102): nothing else raises there.
- Bounded sockets together with crashes, logouts and the tables: Flow has the
  bounds and everyone online, Server the rest with unbounded channels.
- The timestamps in `history`: messages from `pending` keep their `sendtime`, which
  is `now()` of a transaction that line 120 of server.py may have opened long
  before; the display orders by it (client.py:517). `history` in Server is in
  the order of storing.
- A session name that is not a user, a recipient not in `usercreds`: the client
  looks a recipient up before it lets one write to it.
- The user's table `chats`, the display, colours; of the prompts only that a client
  in one does not read, of images only their length (Flow).
- The bytes of `crypto.py` and what the library computes; a username the database
  does not accept as a name, or that is the name of another database.
- `libserver.py`, `libclient.py`, `app-*.py` (the tutorial programs `message.py`
  comes from), `client2.py`, `client_test.py`, `test.py`, `gen_input.py` and the
  socket exercises: the program does not use them.

## 6. The plan

1. A module of the personal database: `chats`, `history` with its timestamps and
   the transactions that are open on the server's and the client's connection;
   which displayed orders are possible.
2. Groups with the announcements routed by `Server`'s rules instead of a set.
