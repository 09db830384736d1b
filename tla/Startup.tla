------------------------------ MODULE Startup -------------------------------
(***************************************************************************)
(* How the chat servers come up: System.__init__ (system.py) launches one  *)
(* process per server and does not wait for it; a server (server.py) binds *)
(* its port, connects to every server with a lower index (makeKn) and then *)
(* enters its select loop, where it accepts the servers with higher ones.  *)
(* Any exception on the way ends the process.  Clients come later: the     *)
(* load balancer is launched after the last server.                        *)
(***************************************************************************)
EXTENDS Integers, Sequences, Functions

CONSTANTS
    N,        \* the number of servers
    MayFail,  \* servers that may fail to get their port, or be interrupted
    NoServer  \* no server

Servers == 0 .. N - 1

ASSUME NAssumption == N \in Nat \ {0}
ASSUME MayFailAssumption == MayFail \subseteq Servers
ASSUME NoServerAssumption == NoServer \notin Servers

VARIABLES
    launched,  \* how many servers System.__init__ has launched
    proc,      \* where a server process is
    target,    \* the next server makeKn connects to
    links,     \* other servers in onlineUserSockets and events
    greeted,   \* servers a server has written its own name to
    backlog,   \* connections not yet accepted, by the server they come from
    accepting  \* the server whose name accept_connection waits for

vars == << launched, proc, target, links, greeted, backlog, accepting >>

\* Not launched, before listen, in makeKn, in run, and gone.
ProcStates == {"none", "binding", "meshing", "running", "ended"}

Init ==
    /\ launched = 0
    /\ proc = [i \in Servers |-> "none"]
    /\ target = [i \in Servers |-> 0]
    /\ links = [i \in Servers |-> {}]
    /\ greeted = [i \in Servers |-> {}]
    /\ backlog = [i \in Servers |-> << >>]
    /\ accepting = [i \in Servers |-> NoServer]

ToLaunchOneMore == launched <= N   \* Mutant: range(n + 1).
ToLaunch == launched < N

\* The loop of System.__init__: start_server.sh returns when the terminal has
\* been told to run the server.  The row in serverload is left out: nobody
\* reads it before the load balancer is up.
Launch ==
    /\ ToLaunch
    /\ launched' = launched + 1
    /\ proc' = [proc EXCEPT ![launched] = "binding"]
    /\ UNCHANGED << target, links, greeted, backlog, accepting >>

\* Server.__init__ has its database connection and its port, and listens.
Listen(i) ==
    /\ proc[i] = "binding"
    /\ proc' = [proc EXCEPT ![i] = "meshing"]
    /\ UNCHANGED << launched, target, links, greeted, backlog, accepting >>

\* A process ends and its sockets are closed.
End(i) ==
    /\ proc' = [proc EXCEPT ![i] = "ended"]
    /\ links' = [links EXCEPT ![i] = {}]
    /\ backlog' = [backlog EXCEPT ![i] = << >>]
    /\ accepting' = [accepting EXCEPT ![i] = NoServer]
    /\ UNCHANGED << launched, target, greeted >>

\* No port (the option that would free it is only read, not set), no database,
\* or a keyboard interrupt.
Fail(i) ==
    /\ i \in MayFail
    /\ proc[i] \in {"binding", "meshing", "running"}
    /\ End(i)

Listening(k) == proc[k] \in {"meshing", "running"}

\* One turn of the loop in makeKn: connect, which the kernel of the other
\* server answers whether or not that server has reached its select loop, ...
ConnectTo(i, k) ==
    /\ proc[i] = "meshing"
    /\ target[i] = k /\ k < i
    /\ k \notin links[i]
    /\ Listening(k)
    /\ links' = [links EXCEPT ![i] = @ \cup {k}]
    /\ backlog' = [backlog EXCEPT ![k] = Append(@, i)]
    /\ UNCHANGED << launched, proc, target, greeted, accepting >>

\* ... or be refused, which ends the process, ...
Refused(i, k) ==
    /\ proc[i] = "meshing"
    /\ target[i] = k /\ k < i
    /\ k \notin links[i]
    /\ ~Listening(k)
    /\ End(i)

\* ... then write its own name.
GreetServer(i, k) ==
    /\ proc[i] = "meshing"
    /\ target[i] = k /\ k < i
    /\ k \in links[i]
    /\ greeted' = [greeted EXCEPT ![i] = @ \cup {k}]
    /\ target' = [target EXCEPT ![i] = k + 1]
    /\ UNCHANGED << launched, proc, links, backlog, accepting >>

MeshDoneEarly(i) == target[i] + 1 >= i   \* Mutant: range(index - 1).
MeshDone(i) == target[i] = i

\* Connected to all lower servers: enter run.
Run(i) ==
    /\ proc[i] = "meshing"
    /\ MeshDone(i)
    /\ proc' = [proc EXCEPT ![i] = "running"]
    /\ UNCHANGED << launched, target, links, greeted, backlog, accepting >>

\* The kernel reports the end of a process to those it was connected to.
HungUpUnnoticed(k) == FALSE   \* Mutant: its socket is left open.
HungUp(k) == proc[k] = "ended"

Loop(i) == proc[i] = "running" /\ accepting[i] = NoServer

\* accept_connection takes the oldest connection and blocks in read, ...
AcceptServer(i) ==
    /\ Loop(i)
    /\ backlog[i] # << >>
    /\ accepting' = [accepting EXCEPT ![i] = Head(backlog[i])]
    /\ backlog' = [backlog EXCEPT ![i] = Tail(@)]
    /\ UNCHANGED << launched, proc, target, links, greeted >>

\* ... until the name is there: the link is registered,
RegisterServer(i) ==
    /\ proc[i] = "running"
    /\ accepting[i] # NoServer
    /\ i \in greeted[accepting[i]]
    /\ links' = [links EXCEPT ![i] = @ \cup {accepting[i]}]
    /\ accepting' = [accepting EXCEPT ![i] = NoServer]
    /\ UNCHANGED << launched, proc, target, greeted, backlog >>

\* Mutant: the socket does not block, so that read gives None at once.
NameNotYetThere(i) == i \notin greeted[accepting[i]]
NameMissing(i) == i \notin greeted[accepting[i]] /\ HungUp(accepting[i])

\* or the other side has gone without writing one: an early return.
NoName(i) ==
    /\ proc[i] = "running"
    /\ accepting[i] # NoServer
    /\ NameMissing(i)
    /\ accepting' = [accepting EXCEPT ![i] = NoServer]
    /\ UNCHANGED << launched, proc, target, links, greeted, backlog >>

\* serve_client reads the end of a link: serverConnections does not exist, the
\* handler of that exception raises another one, and the process ends too.
LinkLost(i, k) ==
    /\ Loop(i)
    /\ k \in links[i]
    /\ HungUp(k)
    /\ End(i)

-----------------------------------------------------------------------------

\* What the code of server i does by itself.
ServerStep(i) ==
    \/ Listen(i)
    \/ \E k \in Servers : ConnectTo(i, k) \/ Refused(i, k) \/ GreetServer(i, k)
    \/ Run(i)
    \/ AcceptServer(i) \/ RegisterServer(i) \/ NoName(i)
    \/ \E k \in Servers : LinkLost(i, k)

Next ==
    \/ Launch
    \/ \E i \in Servers : ServerStep(i) \/ Fail(i)

Spec == Init /\ [][Next]_vars

\* The launcher and every server that has not failed go on.  Per server there
\* is one condition: select reports every readable socket, and only finitely
\* many things ever happen to a server.
Fairness == WF_vars(Launch) /\ \A i \in Servers : WF_vars(ServerStep(i))

FairSpec == Spec /\ Fairness

(***************************************************************************)
(* Properties                                                              *)
(***************************************************************************)

Waiting(k) == Range(backlog[k])

\* Every variable has its type.
TypeOK ==
    /\ launched \in 0 .. N
    /\ proc \in [Servers -> ProcStates]
    /\ target \in [Servers -> Nat]
    /\ links \in [Servers -> SUBSET Servers]
    /\ greeted \in [Servers -> SUBSET Servers]
    /\ backlog \in [Servers -> Seq(Servers)]
    /\ accepting \in [Servers -> Servers \cup {NoServer}]

\* A connection that makeKn has made is known to the other server as well,
\* once: it waits in the backlog, is being accepted, or is a link.  Only the
\* end of a process takes a side of it away.
NoLinkForgotten ==
    \A i, k \in Servers : k < i /\ k \in links[i] /\ Listening(k) =>
        \/ i \in Waiting(k)
        \/ accepting[k] = i
        \/ i \in links[k]

\* Nothing is left to do: everyone has been launched, and is gone or in its
\* select loop with no connection to accept and no broken link.
Settled ==
    /\ launched = N
    /\ \A i \in Servers :
         \/ proc[i] = "ended"
         \/ /\ Loop(i)
            /\ backlog[i] = << >>
            /\ \A k \in links[i] : proc[k] # "ended"

\* Then the servers that are up are the first ones, and every two of them are
\* linked on both sides: a server that could not come up has taken every
\* server above it along.
SurvivorsConnected ==
    Settled =>
        \A i, k \in Servers : proc[i] = "running" /\ k < i =>
            /\ proc[k] = "running"
            /\ k \in links[i]
            /\ i \in links[k]

\* The start-up comes to rest, with whatever servers are left: nobody waits for
\* ever for the name of a server that is gone, nor keeps a link to it.
Settles == <>[]Settled

=============================================================================
