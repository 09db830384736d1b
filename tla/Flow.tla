-------------------------------- MODULE Flow --------------------------------
(***************************************************************************)
(* Who waits for whom when messages are larger than what a socket holds    *)
(* (an image is one message).  Every socket of FastChat blocks, and every  *)
(* process has one thread: while a server or a client is in read, or in    *)
(* write, it serves nobody else, and a client whose user is in a prompt    *)
(* reads nothing.  All users are online; usercreds is right.               *)
(*                                                                         *)
(* A message is size chunks long, a socket holds Capacity chunks in each   *)
(* direction.  One recv takes any number of chunks that are there, beyond  *)
(* the end of a message too.                                               *)
(***************************************************************************)
EXTENDS Integers, Sequences, Functions

CONSTANTS
    Servers, Clients,
    Home,       \* the server of each client
    Capacity,   \* what a socket holds in one direction
    Scenarios   \* sets of messages

Procs   == Servers \cup Clients
Message == [from : Clients, to : Clients, size : Nat \ {0}]
\* A part of a message, and how many parts of it come after this one.
Chunk   == [msg : Message, left : Nat]

ASSUME ProcsAssumption == Servers \cap Clients = {} /\ Home \in [Clients -> Servers]
ASSUME CapacityAssumption == Capacity \in Nat \ {0}
ASSUME ScenariosAssumption == \A S \in Scenarios : S \subseteq Message

VARIABLES
    messages,  \* the scenario of this execution
    toSend,    \* messages the users have still to send
    task,      \* what a process is doing
    wire,      \* chunks on the way from a process to another
    buffer,    \* wire's chunks that recv has taken and read has not returned
    stored,    \* messages that have reached their recipient
    prompted   \* clients that have been in a prompt (bound: once each)

vars == << messages, toSend, task, wire, buffer, stored, prompted >>

Idle       == [at |-> "idle"]      \* in select
Prompt     == [at |-> "prompt"]    \* in input
Reading(q) == [at |-> "read", peer |-> q]
\* In write, with n chunks of m to go.
Sending(q, m, n) == [at |-> "send", peer |-> q, msg |-> m, n |-> n]

Task == {Idle, Prompt} \cup [at : {"read"}, peer : Procs]
           \cup [at : {"send"}, peer : Procs, msg : Message, n : Nat \ {0}]

Init ==
    /\ messages \in Scenarios
    /\ toSend = messages
    /\ task = [p \in Procs |-> Idle]
    /\ wire = [p \in Procs |-> [q \in Procs |-> << >>]]
    /\ buffer = [p \in Procs |-> [q \in Procs |-> << >>]]
    /\ stored = {}
    /\ prompted = {}

Becomes(p, t) == task' = [task EXCEPT ![p] = t]

\* Mutant: the own clients are not looked up.
NextHopServer(i, m) == Home[m.to]
\* serve_client: to the client on this server, or to the server of the client.
NextHop(i, m) == IF Home[m.to] = i THEN m.to ELSE Home[m.to]

(***************************************************************************)
(* The users                                                               *)
(***************************************************************************)

\* "-img", or a text: sendMessage writes it to the server.
Compose(c, m) ==
    /\ task[c] = Idle
    /\ m \in toSend /\ m.from = c
    /\ toSend' = toSend \ {m}
    /\ Becomes(c, Sending(Home[c], m, m.size))
    /\ UNCHANGED << messages, wire, buffer, stored, prompted >>

\* "-cd", "-add", "-del", "-img": a question the user may leave open.
AskUser(c) ==
    /\ task[c] = Idle
    /\ c \notin prompted
    /\ prompted' = prompted \cup {c}
    /\ Becomes(c, Prompt)
    /\ UNCHANGED << messages, toSend, wire, buffer, stored >>

Answer(c) ==
    /\ task[c] = Prompt
    /\ Becomes(c, Idle)
    /\ UNCHANGED << messages, toSend, wire, buffer, stored, prompted >>

(***************************************************************************)
(* The processes                                                           *)
(***************************************************************************)

\* Where messages end in what has been received.
Ends(got) == {n \in DOMAIN got : got[n].left = 0}
Leave(q, p, got, n) == buffer' = [buffer EXCEPT ![q][p] = SubSeq(got, n + 1, Len(got))]

\* No message is complete: read goes on, and blocks in recv.
ReadOn(p, q, got) ==
    /\ Ends(got) = {}
    /\ Leave(q, p, got, 0)
    /\ Becomes(p, Reading(q))
    /\ UNCHANGED stored

\* serve_client reads one message and passes it on; what came with it stays where
\* select does not see it.
PassOn(p, q, got) ==
    /\ p \in Servers
    /\ \E n \in Ends(got) :
         /\ \A e \in Ends(got) : n <= e
         /\ Leave(q, p, got, n)
         /\ Becomes(p, Sending(NextHop(p, got[n].msg), got[n].msg, got[n].msg.size))
    /\ UNCHANGED stored

\* receiveMessage calls itself until the buffer is empty: it stores every message
\* that is complete, and reads on for one that has begun.
Store(p, q, got) ==
    /\ p \in Clients
    /\ stored' = stored \cup {got[n].msg : n \in Ends(got)}
    /\ \E n \in Ends(got) :
         /\ \A e \in Ends(got) : e <= n
         /\ Leave(q, p, got, n)
         /\ Becomes(p, IF n = Len(got) THEN Idle ELSE Reading(q))

\* One recv: select has reported the socket of q, or a read of it goes on.
Recv(p, q) ==
    /\ task[p] \in {Idle, Reading(q)}
    /\ \E k \in 1 .. Len(wire[q][p]) :
         LET got == buffer[q][p] \o SubSeq(wire[q][p], 1, k)
         IN  /\ wire' = [wire EXCEPT ![q][p] = SubSeq(@, k + 1, Len(@))]
             /\ ReadOn(p, q, got) \/ PassOn(p, q, got) \/ Store(p, q, got)
    /\ UNCHANGED << messages, toSend, prompted >>

\* What a send leaves to do, and whether it goes on: it blocks until everything
\* has been taken.
AfterChunkOneMore(t) == Sending(t.peer, t.msg, t.n - 1)   \* Mutant: off by one.
AfterChunkReturns(t) == Idle   \* Mutant: the rest stays for the next write.
AfterChunk(t) == IF t.n > 1 THEN Sending(t.peer, t.msg, t.n - 1) ELSE Idle

\* _write: the socket takes a chunk when it has room.
SendChunk(p) ==
    /\ task[p].at = "send"
    /\ LET q == task[p].peer
           c == [msg |-> task[p].msg, left |-> task[p].n - 1]
       IN  /\ Len(wire[p][q]) < Capacity
           /\ wire' = [wire EXCEPT ![p][q] = Append(@, c)]
    /\ Becomes(p, AfterChunk(task[p]))
    /\ UNCHANGED << messages, toSend, buffer, stored, prompted >>

-----------------------------------------------------------------------------

ProcStep(p) == SendChunk(p) \/ \E q \in Procs : Recv(p, q)

Next ==
    \/ \E c \in Clients : AskUser(c) \/ Answer(c) \/ \E m \in toSend : Compose(c, m)
    \/ \E p \in Procs : ProcStep(p)

Spec == Init /\ [][Next]_vars

\* Processes go on, and users send what they have to, sooner or later; nobody has
\* to answer a question.  An execution has finitely many steps, so it is enough
\* that some process goes on when one can.
Fairness ==
    /\ WF_vars(\E p \in Procs : ProcStep(p))
    /\ WF_vars(\E c \in Clients : \E m \in toSend : Compose(c, m))

FairSpec == Spec /\ Fairness

(***************************************************************************)
(* Properties                                                              *)
(***************************************************************************)

\* Every variable has its type.
TypeOK ==
    /\ messages \in Scenarios
    /\ toSend \subseteq messages
    /\ task \in [Procs -> Task]
    /\ wire \in [Procs -> [Procs -> Seq(Chunk)]]
    /\ buffer \in [Procs -> [Procs -> Seq(Chunk)]]
    /\ stored \subseteq Message
    /\ prompted \subseteq Clients

\* A message is never torn: a process that waits in read for the rest of a
\* message has it on the wire, or the sender is still in write.
ReadersAreFed ==
    \A p, q \in Procs :
        task[q].at = "read" /\ task[q].peer = p /\ wire[p][q] = << >>
            => task[p].at = "send" /\ task[p].peer = q

Full(p, q) == Len(wire[p][q]) = Capacity

\* Nobody but a user can take a step.
Stuck ==
    \A p \in Procs :
        /\ task[p].at = "idle" => \A q \in Procs : wire[q][p] = << >>
        /\ task[p].at = "read" => wire[task[p].peer][p] = << >>
        /\ task[p].at = "send" => Full(p, task[p].peer)

\* When everything stands still, nobody is in read, and who is in write waits
\* for a process that is in write as well or for a user: a wait goes round in a
\* circle of writes or ends at a prompt.
OnlyWritesBlock ==
    Stuck => \A p \in Procs :
        /\ task[p].at # "read"
        /\ task[p].at = "send" => task[task[p].peer].at \in {"send", "prompt"}

\* The ways the messages of a scenario take.
Hops(S) ==
    UNION {{<< m.from, Home[m.from] >>, << Home[m.to], m.to >>}
             \cup {e \in {<< Home[m.from], Home[m.to] >>} : e[1] # e[2]} : m \in S}

\* The scenarios in which no way leads back: any set of processes has one that
\* the others of the set send nothing to.
OneWay ==
    {S \in Scenarios :
        LET hops == Hops(S)
        IN  \A P \in (SUBSET Procs) \ {{}} :
              \E q \in P : \A p \in P : << p, q >> \notin hops}

\* The message came to a server with the end of another one, on a way they share,
\* and waits in the receive buffer for a third.
LeftBehind(m) ==
    \E i \in Servers, p \in Procs :
        /\ [msg |-> m, left |-> 0] \in Range(buffer[p][i])
        /\ << p, i >> \in Hops(messages \ {m})

\* Where no two messages can cross, every message arrives, whatever its size and
\* whatever the order, unless a user leaves a question open or a server leaves
\* it behind another one in its buffer.  (Where two large ones cross,
\* OnlyWritesBlock is all that can be said: the execution may end in a circle.)
EverythingArrives ==
    messages \in OneWay =>
        <>[](\/ \A m \in messages : m \in stored \/ LeftBehind(m)
             \/ \E c \in Clients : task[c] = Prompt)

=============================================================================
