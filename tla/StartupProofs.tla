---------------------------- MODULE StartupProofs ----------------------------
(***************************************************************************)
(* Proofs about Startup, for any number of servers: when the start-up has  *)
(* come to rest, the servers that are up are the first ones and linked to  *)
(* each other on both sides.                                               *)
(***************************************************************************)
EXTENDS Startup, TLAPS

\* Servers not yet launched have no process; before it listens a server has not
\* connected to anyone, and nobody to it; makeKn goes through the lower servers
\* in order and greets only those; only a listening process has links.
InOrder ==
    \A i \in Servers :
        /\ i >= launched => proc[i] = "none"
        /\ proc[i] \in {"none", "binding"} =>
             /\ target[i] = 0 /\ greeted[i] = {}
             /\ \A h \in Servers : i \notin links[h]
        /\ \A k \in greeted[i] : k < i
        /\ proc[i] = "running" => target[i] = i
        /\ Listening(i) =>
             \A k \in Servers : k < target[i] => k \in links[i]
        /\ ~Listening(i) => links[i] = {}

IInv == TypeOK /\ InOrder /\ NoLinkForgotten

-----------------------------------------------------------------------------

\* A connection appended to a backlog waits there, and so do the earlier ones.
LEMMA WaitingAfterAppend ==
    ASSUME NEW q \in Seq(Servers), NEW i \in Servers
    PROVE  Range(Append(q, i)) = Range(q) \cup {i}
<1>1. /\ DOMAIN Append(q, i) = 1 .. Len(q) + 1
      /\ DOMAIN q = 1 .. Len(q)
      /\ Len(q) \in Nat
  OBVIOUS
<1>2. /\ \A n \in 1 .. Len(q) : Append(q, i)[n] = q[n]
      /\ Append(q, i)[Len(q) + 1] = i
  OBVIOUS
<1> QED
  BY <1>1, <1>2 DEF Range

\* Taking the head of a backlog leaves the others in it.
LEMMA WaitingAfterTail ==
    ASSUME NEW q \in Seq(Servers), q # << >>
    PROVE  Range(q) = Range(Tail(q)) \cup {Head(q)}
<1>1. /\ DOMAIN Tail(q) = 1 .. Len(q) - 1
      /\ DOMAIN q = 1 .. Len(q)
      /\ Len(q) \in Nat /\ Len(q) >= 1
  OBVIOUS
<1>2. /\ \A n \in 1 .. Len(q) - 1 : Tail(q)[n] = q[n + 1]
      /\ Head(q) = q[1]
  OBVIOUS
<1>3. \A n \in 1 .. Len(q) - 1 : n + 1 \in 1 .. Len(q)
  BY <1>1
<1>4. \A n \in 1 .. Len(q) : n = 1 \/ (n - 1 \in 1 .. Len(q) - 1 /\ (n - 1) + 1 = n)
  BY <1>1
<1>5. ASSUME NEW n \in DOMAIN q
      PROVE  q[n] \in Range(Tail(q)) \cup {Head(q)}
  <2>1. CASE n = 1
    BY <1>2, <2>1
  <2>2. CASE n - 1 \in 1 .. Len(q) - 1 /\ (n - 1) + 1 = n
    <3>1. Tail(q)[n - 1] = q[n]
      BY <1>2, <2>2
    <3> QED
      BY <1>1, <2>2, <3>1 DEF Range
  <2> QED
    BY <1>1, <1>4, <2>1, <2>2
<1>6. \A n \in DOMAIN Tail(q) : Tail(q)[n] \in Range(q)
  BY <1>1, <1>2, <1>3 DEF Range
<1>7. Head(q) \in Range(q)
  BY <1>1, <1>2 DEF Range
<1> QED
  BY <1>5, <1>6, <1>7 DEF Range

-----------------------------------------------------------------------------
(* Type correctness *)

LEMMA TypeInit == Init => TypeOK
BY NAssumption, NoServerAssumption DEF Init, TypeOK, Servers, ProcStates

LEMMA EndType ==
    ASSUME TypeOK, NEW i \in Servers, End(i)
    PROVE  TypeOK'
BY DEF TypeOK, End, ProcStates

LEMMA TypeStep == TypeOK /\ [Next]_vars => TypeOK'
<1> SUFFICES ASSUME TypeOK, [Next]_vars PROVE TypeOK'
  OBVIOUS
<1> USE NAssumption, NoServerAssumption
<1>1. CASE Launch
  BY <1>1 DEF Launch, ToLaunch, TypeOK, ProcStates, Servers
<1>2. ASSUME NEW i \in Servers, Listen(i) PROVE TypeOK'
  BY <1>2 DEF Listen, TypeOK, ProcStates
<1>3. ASSUME NEW i \in Servers, Fail(i) PROVE TypeOK'
  BY <1>3, EndType DEF Fail
<1>4. ASSUME NEW i \in Servers, NEW k \in Servers, ConnectTo(i, k) PROVE TypeOK'
  BY <1>4 DEF ConnectTo, TypeOK
<1>5. ASSUME NEW i \in Servers, NEW k \in Servers, Refused(i, k) PROVE TypeOK'
  BY <1>5, EndType DEF Refused
<1>6. ASSUME NEW i \in Servers, NEW k \in Servers, GreetServer(i, k) PROVE TypeOK'
  <2>1. k + 1 \in Nat
    BY DEF Servers
  <2> QED
    BY <1>6, <2>1 DEF GreetServer, TypeOK
<1>7. ASSUME NEW i \in Servers, Run(i) PROVE TypeOK'
  BY <1>7 DEF Run, MeshDone, TypeOK, ProcStates
<1>8. ASSUME NEW i \in Servers, AcceptServer(i) PROVE TypeOK'
  <2>0. backlog[i] \in Seq(Servers) /\ backlog[i] # << >>
    BY <1>8 DEF AcceptServer, TypeOK
  <2>1. Head(backlog[i]) \in Servers /\ Tail(backlog[i]) \in Seq(Servers)
    BY <2>0
  <2> QED
    BY <1>8, <2>1 DEF AcceptServer, TypeOK
<1>9. ASSUME NEW i \in Servers, RegisterServer(i) PROVE TypeOK'
  BY <1>9 DEF RegisterServer, TypeOK
<1>10. ASSUME NEW i \in Servers, NoName(i) PROVE TypeOK'
  BY <1>10 DEF NoName, TypeOK
<1>11. ASSUME NEW i \in Servers, NEW k \in Servers, LinkLost(i, k) PROVE TypeOK'
  BY <1>11, EndType DEF LinkLost
<1>12. CASE UNCHANGED vars
  BY <1>12 DEF vars, TypeOK
<1> QED
  BY <1>1, <1>2, <1>3, <1>4, <1>5, <1>6, <1>7, <1>8, <1>9, <1>10, <1>11, <1>12
     DEF Next, ServerStep

-----------------------------------------------------------------------------
(* The order in which makeKn connects *)

LEMMA OrderInit == Init => InOrder
BY NAssumption DEF Init, InOrder, Servers, Listening

LEMMA EndOrder ==
    ASSUME TypeOK, InOrder, NEW i \in Servers, proc[i] # "none", End(i)
    PROVE  InOrder'
BY DEF TypeOK, InOrder, End, Listening

LEMMA OrderStep == TypeOK /\ InOrder /\ [Next]_vars => InOrder'
<1> SUFFICES ASSUME TypeOK, InOrder, [Next]_vars PROVE InOrder'
  OBVIOUS
<1> USE NAssumption
<1>1. CASE Launch
  <2>1. launched \in Servers /\ proc[launched] = "none"
    BY <1>1 DEF Launch, ToLaunch, TypeOK, InOrder, Servers
  <2> QED
    BY <1>1, <2>1 DEF Launch, ToLaunch, TypeOK, InOrder, Listening, Servers
<1>2. ASSUME NEW i \in Servers, Listen(i) PROVE InOrder'
  BY <1>2 DEF Listen, TypeOK, InOrder, Listening, Servers
<1>3. ASSUME NEW i \in Servers, Fail(i) PROVE InOrder'
  BY <1>3, EndOrder DEF Fail
<1>4. ASSUME NEW i \in Servers, NEW k \in Servers, ConnectTo(i, k) PROVE InOrder'
  BY <1>4 DEF ConnectTo, TypeOK, InOrder, Listening
<1>5. ASSUME NEW i \in Servers, NEW k \in Servers, Refused(i, k) PROVE InOrder'
  BY <1>5, EndOrder DEF Refused
<1>6. ASSUME NEW i \in Servers, NEW k \in Servers, GreetServer(i, k) PROVE InOrder'
  <2>1. \A m \in Servers : m < k + 1 => m < k \/ m = k
    BY DEF Servers
  <2>2. /\ proc[i] = "meshing" /\ target[i] = k /\ k < i /\ k \in links[i]
        /\ target'[i] = k + 1 /\ greeted'[i] = greeted[i] \cup {k}
        /\ \A h \in Servers \ {i} : target'[h] = target[h] /\ greeted'[h] = greeted[h]
        /\ launched' = launched /\ proc' = proc /\ links' = links
    BY <1>6 DEF GreetServer, TypeOK
  <2> QED
    BY <2>1, <2>2 DEF TypeOK, InOrder, Listening
<1>7. ASSUME NEW i \in Servers, Run(i) PROVE InOrder'
  BY <1>7 DEF Run, MeshDone, TypeOK, InOrder, Listening
<1>8. ASSUME NEW i \in Servers, AcceptServer(i) PROVE InOrder'
  BY <1>8 DEF AcceptServer, TypeOK, InOrder, Listening
<1>9. ASSUME NEW i \in Servers, RegisterServer(i) PROVE InOrder'
  BY <1>9 DEF RegisterServer, TypeOK, InOrder, Listening
<1>10. ASSUME NEW i \in Servers, NoName(i) PROVE InOrder'
  BY <1>10 DEF NoName, TypeOK, InOrder, Listening
<1>11. ASSUME NEW i \in Servers, NEW k \in Servers, LinkLost(i, k) PROVE InOrder'
  BY <1>11, EndOrder DEF LinkLost, Loop
<1>12. CASE UNCHANGED vars
  BY <1>12 DEF vars, InOrder, Listening
<1> QED
  BY <1>1, <1>2, <1>3, <1>4, <1>5, <1>6, <1>7, <1>8, <1>9, <1>10, <1>11, <1>12
     DEF Next, ServerStep

-----------------------------------------------------------------------------
(* Both sides of a connection *)

LEMMA LinksInit == Init => NoLinkForgotten
BY DEF Init, NoLinkForgotten, Listening

LEMMA EndLinks ==
    ASSUME TypeOK, NoLinkForgotten, NEW i \in Servers, End(i)
    PROVE  NoLinkForgotten'
BY DEF TypeOK, NoLinkForgotten, End, Listening, Waiting

LEMMA LinksStep == TypeOK /\ InOrder /\ NoLinkForgotten /\ [Next]_vars => NoLinkForgotten'
<1> SUFFICES ASSUME TypeOK, InOrder, NoLinkForgotten, [Next]_vars
             PROVE  NoLinkForgotten'
  OBVIOUS
<1> USE NAssumption
<1>1. CASE Launch
  <2>1. launched \in Servers /\ proc[launched] = "none"
    BY <1>1 DEF Launch, ToLaunch, TypeOK, InOrder, Servers
  <2> QED
    BY <1>1, <2>1 DEF Launch, ToLaunch, TypeOK, NoLinkForgotten, Listening, Waiting
<1>2. ASSUME NEW i \in Servers, Listen(i) PROVE NoLinkForgotten'
  \* A server that was not listening has no connections from others.
  <2>1. \A h \in Servers : i \notin links[h]
    BY <1>2 DEF Listen, InOrder
  <2> QED
    BY <1>2, <2>1 DEF Listen, TypeOK, NoLinkForgotten, Listening, Waiting
<1>3. ASSUME NEW i \in Servers, Fail(i) PROVE NoLinkForgotten'
  BY <1>3, EndLinks DEF Fail
<1>4. ASSUME NEW i \in Servers, NEW k \in Servers, ConnectTo(i, k)
      PROVE  NoLinkForgotten'
  <2>1. Waiting(k)' = Waiting(k) \cup {i}
    <3>1. backlog[k] \in Seq(Servers) /\ backlog'[k] = Append(backlog[k], i)
      BY <1>4 DEF ConnectTo, TypeOK
    <3> QED
      BY <3>1, WaitingAfterAppend DEF Waiting
  <2>2. \A h \in Servers \ {k} : Waiting(h)' = Waiting(h)
    BY <1>4 DEF ConnectTo, TypeOK, Waiting
  <2> QED
    BY <1>4, <2>1, <2>2 DEF ConnectTo, TypeOK, NoLinkForgotten, Listening
<1>5. ASSUME NEW i \in Servers, NEW k \in Servers, Refused(i, k)
      PROVE  NoLinkForgotten'
  BY <1>5, EndLinks DEF Refused
<1>6. ASSUME NEW i \in Servers, NEW k \in Servers, GreetServer(i, k)
      PROVE  NoLinkForgotten'
  BY <1>6 DEF GreetServer, TypeOK, NoLinkForgotten, Listening, Waiting
<1>7. ASSUME NEW i \in Servers, Run(i) PROVE NoLinkForgotten'
  BY <1>7 DEF Run, MeshDone, TypeOK, NoLinkForgotten, Listening, Waiting
<1>8. ASSUME NEW i \in Servers, AcceptServer(i) PROVE NoLinkForgotten'
  <2>1. Waiting(i) = Waiting(i)' \cup {accepting'[i]}
    <3>1. backlog[i] \in Seq(Servers) /\ backlog[i] # << >>
      BY <1>8 DEF AcceptServer, TypeOK
    <3>2. backlog'[i] = Tail(backlog[i]) /\ accepting'[i] = Head(backlog[i])
      BY <1>8 DEF AcceptServer, TypeOK
    <3> QED
      BY <3>1, <3>2, WaitingAfterTail DEF Waiting
  <2>2. \A h \in Servers \ {i} : Waiting(h)' = Waiting(h)
    BY <1>8 DEF AcceptServer, TypeOK, Waiting
  <2>3. accepting[i] = NoServer
    BY <1>8 DEF AcceptServer, Loop
  <2>4. /\ links' = links /\ proc' = proc
        /\ \A h \in Servers \ {i} : accepting'[h] = accepting[h]
    BY <1>8 DEF AcceptServer, TypeOK
  <2> SUFFICES ASSUME NEW g \in Servers, NEW k \in Servers,
                      k < g, k \in links[g], Listening(k)
               PROVE  g \in Waiting(k)' \/ accepting'[k] = g \/ g \in links[k]
    BY <2>4 DEF NoLinkForgotten, Listening
  <2>5. g \in Waiting(k) \/ accepting[k] = g \/ g \in links[k]
    BY DEF NoLinkForgotten
  <2> QED
    BY <2>1, <2>2, <2>3, <2>4, <2>5, NoServerAssumption
<1>9. ASSUME NEW i \in Servers, RegisterServer(i) PROVE NoLinkForgotten'
  \* The server that is registered is a higher one.
  <2>1. accepting[i] \in Servers /\ i < accepting[i]
    BY <1>9 DEF RegisterServer, TypeOK, InOrder
  <2>2. ~(accepting[i] < i)
    BY <2>1 DEF Servers
  <2> QED
    BY <1>9, <2>1, <2>2, NoServerAssumption
       DEF RegisterServer, TypeOK, NoLinkForgotten, Listening, Waiting
<1>10. ASSUME NEW i \in Servers, NoName(i) PROVE NoLinkForgotten'
  \* The server whose name is not there has ended, so it has no links.
  <2>1. links[accepting[i]] = {}
    BY <1>10 DEF NoName, NameMissing, HungUp, TypeOK, InOrder, Listening
  <2> QED
    BY <1>10, <2>1 DEF NoName, TypeOK, NoLinkForgotten, Listening, Waiting
<1>11. ASSUME NEW i \in Servers, NEW k \in Servers, LinkLost(i, k)
       PROVE  NoLinkForgotten'
  BY <1>11, EndLinks DEF LinkLost
<1>12. CASE UNCHANGED vars
  BY <1>12 DEF vars, NoLinkForgotten, Listening, Waiting
<1> QED
  BY <1>1, <1>2, <1>3, <1>4, <1>5, <1>6, <1>7, <1>8, <1>9, <1>10, <1>11, <1>12
     DEF Next, ServerStep

-----------------------------------------------------------------------------
(* Theorems *)

LEMMA Invariant == Spec => []IInv
<1>1. Init => IInv
  BY TypeInit, OrderInit, LinksInit DEF IInv
<1>2. IInv /\ [Next]_vars => IInv'
  BY TypeStep, OrderStep, LinksStep DEF IInv
<1> QED
  BY <1>1, <1>2, PTL DEF Spec

\* Every variable has its type, however many servers there are.
THEOREM StartupTypeCorrect == Spec => []TypeOK
<1>1. IInv => TypeOK
  BY DEF IInv
<1> QED
  BY <1>1, Invariant, PTL

\* A connection makeKn has made stays known to the other server until one of
\* the two processes ends.
THEOREM LinksAreKept == Spec => []NoLinkForgotten
<1>1. IInv => NoLinkForgotten
  BY DEF IInv
<1> QED
  BY <1>1, Invariant, PTL

\* When the start-up has come to rest, the servers that are up are the first
\* ones, linked to each other on both sides: makeKn has connected a running
\* server to every lower one, none of those has ended, or its link would be
\* broken, and what was connected has been accepted.
THEOREM SurvivorsAreAMesh == Spec => []SurvivorsConnected
<1>1. IInv => SurvivorsConnected
  <2> SUFFICES ASSUME IInv, Settled,
                      NEW i \in Servers, NEW k \in Servers,
                      proc[i] = "running", k < i
               PROVE  proc[k] = "running" /\ k \in links[i] /\ i \in links[k]
    BY DEF SurvivorsConnected
  <2>1. k \in links[i]
    BY DEF IInv, InOrder, Listening
  <2>2. proc[k] # "ended"
    BY <2>1 DEF Settled
  <2>3. Loop(k) /\ backlog[k] = << >>
    BY <2>2 DEF Settled
  <2>4. Waiting(k) = {}
    BY <2>3 DEF Waiting, Range
  <2>5. i \in links[k]
    BY <2>1, <2>3, <2>4, NoServerAssumption
       DEF IInv, NoLinkForgotten, Loop, Listening
  <2> QED
    BY <2>1, <2>3, <2>5 DEF Loop
<1> QED
  BY <1>1, Invariant, PTL

=============================================================================
