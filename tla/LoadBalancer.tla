---------------------------- MODULE LoadBalancer ----------------------------
(***************************************************************************)
(* The load balancer (loadBalancer.py): a select loop that accepts         *)
(* connections, checks credentials against the table usercreds, creates    *)
(* accounts, and sends each client to a server chosen by one of three      *)
(* algorithms.  The table serverload, by which least-load chooses, is      *)
(* written by the servers (server.py) when a client has reached them.      *)
(***************************************************************************)
EXTENDS Integers, Sequences, FiniteSets

CONSTANTS
    N,              \* number of servers, with indices 0 .. N - 1
    Clients,        \* runs of client.py, each used once
    Users,          \* usernames
    Passwords,      \* (hashes of) passwords
    Algorithm,      \* how choose_server chooses
    MaxOutstanding, \* clients that may be in their login at the same time
    Logouts         \* do clients ever leave?

ASSUME NAssumption == N \in Nat \ {0}
ASSUME AlgorithmAssumption ==
    Algorithm \in {"round-robin", "least-load", "naive"}
ASSUME EnvironmentAssumption ==
    /\ IsFiniteSet(Clients)
    /\ MaxOutstanding \in Nat
    /\ Logouts \in BOOLEAN

Servers == 0 .. N - 1
Offline == -1
Request == [username : Users, password : Passwords, newuser : BOOLEAN]
\* A row of usercreds; its userid is its place in the table.
Account == [username : Users, userpwd : Passwords, connectedto : Servers \cup {Offline}]
Nothing == [is |-> "nothing"]
Invalid == [is |-> "invalid"]
Address(k) == [is |-> "address", server |-> k]
Reply == {Nothing, Invalid} \cup {Address(k) : k \in Servers}

VARIABLES
    phase,       \* where a client is in Client.login
    request,     \* the credentials it wrote last
    unread,      \* clients whose credentials have not been read yet
    reply,       \* what it will read from the load balancer
    server,      \* the server it was sent to
    conn,        \* its connection, at the load balancer
    reset,       \* connections that have been reset
    running,     \* is the load balancer running?
    task,        \* what its select loop is doing
    usercreds,   \* the table of accounts
    se,          \* the server round-robin chose last
    chosen,      \* how often a server was chosen (not in the code)
    serverload   \* the table serverload

clientVars == << phase, request, unread, reply, server >>
vars == << clientVars, conn, reset, running, task, usercreds, se, chosen,
           serverload >>

Loop == [at |-> "select"]
Choosing(c) == [at |-> "choose", client |-> c]
Recording(c, k) == [at |-> "record", client |-> c, server |-> k]
Tasks == {Loop} \cup {Choosing(c) : c \in Clients}
                \cup {Recording(c, k) : c \in Clients, k \in Servers}

Init ==
    /\ phase = [c \in Clients |-> "start"]
    /\ request = [c \in Clients |-> Nothing]
    /\ unread = {}
    /\ reply = [c \in Clients |-> Nothing]
    /\ server = [c \in Clients |-> 0]
    /\ conn = [c \in Clients |-> "none"]
    /\ reset = {}
    /\ running = TRUE
    /\ task = Loop
    /\ usercreds = << >>
    /\ se = -1
    /\ chosen = [k \in Servers |-> 0]
    /\ serverload = [k \in Servers |-> 0]

(***************************************************************************)
(* The clients and the servers                                             *)
(***************************************************************************)

\* Client.login connects to the load balancer ...
Connect(c) ==
    /\ running
    /\ phase[c] = "start"
    /\ phase' = [phase EXCEPT ![c] = "typing"]
    /\ conn' = [conn EXCEPT ![c] = "backlog"]
    /\ UNCHANGED << request, unread, reply, server, reset, running, task,
                    usercreds, se, chosen, serverload >>

InLogin == {c \in Clients : phase[c] \in {"waiting", "assigned"}}

\* ... and writes the credentials the user typed.
Submit(c, r) ==
    /\ phase[c] = "typing"
    /\ Cardinality(InLogin) < MaxOutstanding
    /\ phase' = [phase EXCEPT ![c] = "waiting"]
    /\ request' = [request EXCEPT ![c] = r]
    /\ unread' = unread \cup {c}
    /\ UNCHANGED << reply, server, conn, reset, running, task, usercreds, se,
                    chosen, serverload >>

\* "invalid": the user may try again on the same connection.
ReadInvalid(c) ==
    /\ phase[c] = "waiting"
    /\ reply[c] = Invalid
    /\ phase' = [phase EXCEPT ![c] = "typing"]
    /\ reply' = [reply EXCEPT ![c] = Nothing]
    /\ UNCHANGED << request, unread, server, conn, reset, running, task,
                    usercreds, se, chosen, serverload >>

\* An address: the client closes the connection and connects there.
ReadAddress(c) ==
    /\ phase[c] = "waiting"
    /\ reply[c].is = "address"
    /\ phase' = [phase EXCEPT ![c] = "assigned"]
    /\ server' = [server EXCEPT ![c] = reply[c].server]
    /\ reply' = [reply EXCEPT ![c] = Nothing]
    /\ UNCHANGED << request, unread, conn, reset, running, task, usercreds, se,
                    chosen, serverload >>

\* The server accepts the client and writes its number of clients.
Register(c) ==
    /\ phase[c] = "assigned"
    /\ phase' = [phase EXCEPT ![c] = "online"]
    /\ serverload' = [serverload EXCEPT ![server[c]] = @ + 1]
    /\ UNCHANGED << request, unread, reply, server, conn, reset, running, task,
                    usercreds, se, chosen >>

SetConnectedto(user, k) ==
    [n \in DOMAIN usercreds |->
        IF usercreds[n].username = user THEN [usercreds[n] EXCEPT !.connectedto = k]
        ELSE usercreds[n]]

\* A client leaves and its server notices.
Logout(c) ==
    /\ Logouts
    /\ phase[c] = "online"
    /\ phase' = [phase EXCEPT ![c] = "left"]
    /\ serverload' = [serverload EXCEPT ![server[c]] = @ - 1]
    /\ usercreds' = SetConnectedto(request[c].username, Offline)
    /\ UNCHANGED << request, unread, reply, server, conn, reset, running, task,
                    se, chosen >>

\* A client ends during its login.  Closing a socket with a reply still unread
\* resets the connection.
Quit(c) ==
    /\ Logouts
    /\ phase[c] \in {"typing", "waiting", "assigned"}
    /\ phase' = [phase EXCEPT ![c] = "left"]
    /\ reply' = [reply EXCEPT ![c] = Nothing]
    /\ reset' = IF reply[c] = Nothing THEN reset ELSE reset \cup {c}
    /\ UNCHANGED << request, unread, server, conn, running, task, usercreds,
                    se, chosen, serverload >>

(***************************************************************************)
(* The load balancer                                                       *)
(***************************************************************************)

InSelect == running /\ task = Loop

AcceptClient(c) ==
    /\ InSelect
    /\ conn[c] = "backlog"
    /\ conn' = [conn EXCEPT ![c] = "open"]
    /\ UNCHANGED << clientVars, reset, running, task, usercreds, se, chosen,
                    serverload >>

\* write to a client; to one that has closed, it resets the connection.
WriteReply(c, r) ==
    IF phase[c] = "left"
    THEN reset' = reset \cup {c} /\ UNCHANGED reply
    ELSE reply' = [reply EXCEPT ![c] = r] /\ UNCHANGED reset

\* SELECT * FROM usercreds WHERE username = u: the places of the rows.
RowsOf(u) == {n \in DOMAIN usercreds : usercreds[n].username = u}

FirstRow(u) == usercreds[CHOOSE n \in RowsOf(u) : \A o \in RowsOf(u) : n <= o]

Readable(c) == InSelect /\ conn[c] = "open" /\ c \notin reset

IsNewUnchecked(r) == r.newuser   \* Mutant: a taken name is not refused.

IsNew(r) == r.newuser /\ RowsOf(r.username) = {}

\* Mutant: the password is not compared.
IsAuthenticByName(r) == ~r.newuser /\ RowsOf(r.username) # {}

IsAuthentic(r) ==
    /\ ~r.newuser
    /\ RowsOf(r.username) # {}
    /\ FirstRow(r.username).userpwd = r.password

\* A new user under a name nobody has: the account is added.
CreateAccount(c) ==
    /\ Readable(c) /\ c \in unread
    /\ IsNew(request[c])
    /\ usercreds' = Append(usercreds, [username |-> request[c].username,
                                       userpwd |-> request[c].password,
                                       connectedto |-> Offline])
    /\ unread' = unread \ {c}
    /\ task' = Choosing(c)
    /\ UNCHANGED << phase, request, reply, server, conn, reset, running, se,
                    chosen, serverload >>

\* A known user with the right password.
Authenticate(c) ==
    /\ Readable(c) /\ c \in unread
    /\ IsAuthentic(request[c])
    /\ unread' = unread \ {c}
    /\ task' = Choosing(c)
    /\ UNCHANGED << phase, request, reply, server, conn, reset, running,
                    usercreds, se, chosen, serverload >>

\* Mutant: nothing is written.
RefuseSilently(c) ==
    /\ Readable(c) /\ c \in unread
    /\ ~IsNew(request[c]) /\ ~IsAuthentic(request[c])
    /\ unread' = unread \ {c}
    /\ UNCHANGED << phase, request, reply, server, conn, reset, running, task,
                    usercreds, se, chosen, serverload >>

\* Any other request: "invalid", and the connection stays open.
Refuse(c) ==
    /\ Readable(c) /\ c \in unread
    /\ ~IsNew(request[c]) /\ ~IsAuthentic(request[c])
    /\ WriteReply(c, Invalid)
    /\ unread' = unread \ {c}
    /\ UNCHANGED << phase, request, server, conn, running, task, usercreds, se,
                    chosen, serverload >>

\* read gives None: the client closed.
Forget(c) ==
    /\ Readable(c) /\ c \notin unread
    /\ phase[c] = "left"
    /\ conn' = [conn EXCEPT ![c] = "closed"]
    /\ UNCHANGED << clientVars, reset, running, task, usercreds, se, chosen,
                    serverload >>

\* Mutant: the comparison the wrong way round.
MostLoaded == {k \in Servers : \A j \in Servers : serverload[k] >= serverload[j]}

LeastLoaded == {k \in Servers : \A j \in Servers : serverload[k] <= serverload[j]}

\* Mutants: no % N; the first server chosen stays the choice.
ChooseUnwrapped == {se + 1}
ChooseFirstAgain == {IF se < 0 THEN 0 ELSE se}

\* choose_server: the servers the algorithm may return.  The order of the rows
\* of serverload is not determined, and naive draws at random.
ChooseServer ==
    CASE Algorithm = "round-robin" -> {(se + 1) % N}
      [] Algorithm = "least-load"  -> LeastLoaded
      [] Algorithm = "naive"       -> Servers

\* Choose a server and write its address to the client ...
Choose ==
    /\ running
    /\ task.at = "choose"
    /\ \E k \in ChooseServer :
         /\ se' = IF Algorithm = "round-robin" THEN k ELSE se
         /\ chosen' = [chosen EXCEPT ![k] = @ + 1]
         /\ WriteReply(task.client, Address(k))
         /\ task' = Recording(task.client, k)
    /\ UNCHANGED << phase, request, unread, server, conn, running, usercreds,
                    serverload >>

\* ... then write connectedto and close the connection.
Record ==
    /\ running
    /\ task.at = "record"
    /\ usercreds' = SetConnectedto(request[task.client].username, task.server)
    /\ conn' = [conn EXCEPT ![task.client] = "closed"]
    /\ task' = Loop
    /\ UNCHANGED << clientVars, reset, running, se, chosen, serverload >>

\* getpeername raises on a connection that has been reset, on the way out of
\* check_and_allocate_client (if the reset has arrived by then) ...
ResetWhileRecording ==
    /\ running
    /\ task.at = "record" /\ task.client \in reset
    /\ usercreds' = SetConnectedto(request[task.client].username, task.server)
    /\ running' = FALSE
    /\ UNCHANGED << clientVars, conn, reset, task, se, chosen, serverload >>

\* ... or on the way in; nothing catches the exception.
ResetInSelect(c) ==
    /\ InSelect
    /\ conn[c] = "open" /\ c \in reset
    /\ running' = FALSE
    /\ UNCHANGED << clientVars, conn, reset, task, usercreds, se, chosen,
                    serverload >>

-----------------------------------------------------------------------------

CheckClient(c) ==
    \/ AcceptClient(c) \/ CreateAccount(c) \/ Authenticate(c) \/ Refuse(c)
    \/ Forget(c) \/ ResetInSelect(c)

AllocateClient == Choose \/ Record \/ ResetWhileRecording

ClientStep(c) ==
    \/ Connect(c)
    \/ \E r \in Request : Submit(c, r)
    \/ ReadInvalid(c) \/ ReadAddress(c) \/ Register(c) \/ Logout(c) \/ Quit(c)

Next ==
    \/ \E c \in Clients : ClientStep(c) \/ CheckClient(c)
    \/ AllocateClient

Spec == Init /\ [][Next]_vars

\* The load balancer goes on with what it has begun, and select in the end
\* reports every readable socket.
Fairness == WF_vars(AllocateClient) /\ \A c \in Clients : WF_vars(CheckClient(c))

FairSpec == Spec /\ Fairness

(***************************************************************************)
(* Properties                                                              *)
(***************************************************************************)

\* Every variable has its type.
TypeOK ==
    /\ phase \in [Clients -> {"start", "typing", "waiting", "assigned", "online", "left"}]
    /\ request \in [Clients -> Request \cup {Nothing}]
    /\ unread \subseteq Clients /\ \A c \in unread : request[c] \in Request
    /\ reply \in [Clients -> Reply]
    /\ server \in [Clients -> Servers]
    /\ conn \in [Clients -> {"none", "backlog", "open", "closed"}]
    /\ reset \subseteq Clients
    /\ running \in BOOLEAN
    /\ task \in Tasks
    /\ usercreds \in Seq(Account)
    /\ se \in -1 .. N - 1
    /\ chosen \in [Servers -> Nat]
    /\ serverload \in [Servers -> Int]

\* No name has two accounts, though the table has no such constraint: nothing
\* comes between the test and the insertion.
UniqueUsernames ==
    \A a, b \in DOMAIN usercreds :
        usercreds[a].username = usercreds[b].username => a = b

Holds(c) ==
    \E n \in DOMAIN usercreds : /\ usercreds[n].username = request[c].username
                                /\ usercreds[n].userpwd = request[c].password

\* A client is sent to a server only with the name and password of an account;
\* the answer to one client is never the address meant for another.
AddressOnlyToAccounts ==
    \A c \in Clients :
        /\ reply[c].is = "address" => Holds(c)
        /\ phase[c] \in {"assigned", "online"} => Holds(c)

\* Round-robin chooses every server equally often, up to one.
RoundRobinEven ==
    Algorithm = "round-robin" =>
        \A j, k \in Servers : chosen[j] <= chosen[k] + 1

\* When nobody leaves, the loads least-load brings about differ by no more than
\* the number of clients in their login at the same time.
SpreadWithinOutstanding ==
    Algorithm = "least-load" /\ ~Logouts =>
        \A j, k \in Servers : serverload[j] <= serverload[k] + MaxOutstanding

\* A request is answered, unless its client leaves or the load balancer ends.
RequestAnswered ==
    \A c \in Clients :
        phase[c] = "waiting" ~>
            reply[c] # Nothing \/ phase[c] # "waiting" \/ ~running

=============================================================================
