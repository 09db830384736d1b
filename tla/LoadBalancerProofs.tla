------------------------- MODULE LoadBalancerProofs -------------------------
(* Theorems about LoadBalancer, for every number of servers, users,        *)
(* passwords and clients.                                                  *)
EXTENDS LoadBalancer, FiniteSetTheorems, TLAPS

(***************************************************************************)
(* SetConnectedto, the UPDATE of usercreds, leaves the rows what they are  *)
(* but for connectedto.                                                    *)
(***************************************************************************)
LEMMA SetConnectedtoKeepsRows ==
    ASSUME usercreds \in Seq(Account), NEW u, NEW k \in Servers \cup {Offline}
    PROVE  LET new == SetConnectedto(u, k)
           IN  /\ new \in Seq(Account)
               /\ Len(new) = Len(usercreds)
               /\ DOMAIN new = DOMAIN usercreds
               /\ \A n \in DOMAIN usercreds :
                    /\ new[n].username = usercreds[n].username
                    /\ new[n].userpwd = usercreds[n].userpwd
<1> DEFINE new == SetConnectedto(u, k)
<1>1. DOMAIN usercreds = 1 .. Len(usercreds) /\ Len(usercreds) \in Nat
  OBVIOUS
<1>2. DOMAIN new = DOMAIN usercreds
  BY DEF SetConnectedto
<1>3. ASSUME NEW n \in DOMAIN usercreds
      PROVE  /\ new[n] \in Account
             /\ new[n].username = usercreds[n].username
             /\ new[n].userpwd = usercreds[n].userpwd
  <2>1. usercreds[n] \in Account
    OBVIOUS
  <2>2. new[n] = IF usercreds[n].username = u
                 THEN [usercreds[n] EXCEPT !.connectedto = k]
                 ELSE usercreds[n]
    BY DEF SetConnectedto
  <2> QED
    BY <2>1, <2>2 DEF Account
<1>4. new \in Seq(Account) /\ Len(new) = Len(usercreds)
  <2>1. new = [n \in 1 .. Len(usercreds) |-> new[n]]
    BY <1>1 DEF SetConnectedto
  <2> QED
    BY <1>1, <1>2, <1>3, <2>1
<1> QED
  BY <1>2, <1>3, <1>4

-----------------------------------------------------------------------------

(***************************************************************************)
(* Every reachable state has the types of TypeOK.                          *)
(***************************************************************************)
THEOREM TypeCorrect == Spec => []TypeOK
<1> USE NAssumption, AlgorithmAssumption DEF Servers, Offline
<1>1. Init => TypeOK
  BY DEF Init, TypeOK, Nothing, Loop, Tasks, Reply
<1>2. TypeOK /\ [Next]_vars => TypeOK'
  <2> SUFFICES ASSUME TypeOK, [Next]_vars
               PROVE  TypeOK'
    OBVIOUS
  <2> USE DEF TypeOK
  <2>1. ASSUME NEW c \in Clients, Connect(c)
        PROVE  TypeOK'
    BY <2>1 DEF Connect
  <2>2. ASSUME NEW c \in Clients, NEW r \in Request, Submit(c, r)
        PROVE  TypeOK'
    BY <2>2 DEF Submit
  <2>3. ASSUME NEW c \in Clients, ReadInvalid(c)
        PROVE  TypeOK'
    BY <2>3 DEF ReadInvalid, Reply
  <2>4. ASSUME NEW c \in Clients, ReadAddress(c)
        PROVE  TypeOK'
    <3>1. reply[c].server \in Servers
      <4>1. reply[c] # Nothing /\ reply[c] # Invalid
        BY <2>4 DEF ReadAddress, Nothing, Invalid
      <4>2. PICK k \in Servers : reply[c] = Address(k)
        BY <4>1 DEF Reply
      <4> QED
        BY <4>2 DEF Address
    <3> QED
      BY <2>4, <3>1 DEF ReadAddress, Reply
  <2>5. ASSUME NEW c \in Clients, Register(c)
        PROVE  TypeOK'
    BY <2>5 DEF Register
  <2>6. ASSUME NEW c \in Clients, Logout(c)
        PROVE  TypeOK'
    <3>1. usercreds' \in Seq(Account)
      BY <2>6, SetConnectedtoKeepsRows DEF Logout
    <3>2. /\ phase' = [phase EXCEPT ![c] = "left"]
          /\ serverload' = [serverload EXCEPT ![server[c]] = @ - 1]
          /\ UNCHANGED << request, unread, reply, server, conn, reset, running,
                          task, se, chosen >>
      BY <2>6 DEF Logout
    <3>3. phase' \in [Clients -> {"start", "typing", "waiting", "assigned",
                                  "online", "left"}]
      BY <3>2
    <3>4. serverload' \in [Servers -> Int]
      <4>1. serverload[server[c]] - 1 \in Int
        OBVIOUS
      <4> QED
        BY <3>2, <4>1
    <3> QED
      BY <3>1, <3>2, <3>3, <3>4
  <2>7. ASSUME NEW c \in Clients, Quit(c)
        PROVE  TypeOK'
    BY <2>7 DEF Quit, Reply
  <2>8. ASSUME NEW c \in Clients, AcceptClient(c)
        PROVE  TypeOK'
    BY <2>8 DEF AcceptClient, clientVars
  <2>9. ASSUME NEW c \in Clients, CreateAccount(c)
        PROVE  TypeOK'
    <3>1. [username |-> request[c].username, userpwd |-> request[c].password,
           connectedto |-> Offline] \in Account
      BY <2>9 DEF CreateAccount, Request, Account
    <3> QED
      BY <2>9, <3>1 DEF CreateAccount, Tasks
  <2>10. ASSUME NEW c \in Clients, Authenticate(c)
         PROVE  TypeOK'
    BY <2>10 DEF Authenticate, Tasks
  <2>11. ASSUME NEW c \in Clients, Refuse(c)
         PROVE  TypeOK'
    BY <2>11 DEF Refuse, WriteReply, Reply
  <2>12. ASSUME NEW c \in Clients, Forget(c)
         PROVE  TypeOK'
    BY <2>12 DEF Forget, clientVars
  <2>13. ASSUME NEW c \in Clients, ResetInSelect(c)
         PROVE  TypeOK'
    BY <2>13 DEF ResetInSelect, clientVars
  <2>14. CASE Choose
    <3>1. task.client \in Clients
      BY <2>14 DEF Choose, Tasks, Loop, Choosing, Recording
    <3>2. PICK k \in ChooseServer :
             /\ se' = IF Algorithm = "round-robin" THEN k ELSE se
             /\ chosen' = [chosen EXCEPT ![k] = @ + 1]
             /\ WriteReply(task.client, Address(k))
             /\ task' = Recording(task.client, k)
      BY <2>14 DEF Choose
    <3>3. k \in Servers
      BY <3>2 DEF ChooseServer, LeastLoaded
    <3>4. task' \in Tasks
      BY <3>1, <3>2, <3>3 DEF Tasks
    <3>5. reply' \in [Clients -> Reply] /\ reset' \subseteq Clients
      <4>1. Address(k) \in Reply
        BY <3>3 DEF Reply
      <4>2. WriteReply(task.client, Address(k))
        BY <3>2
      <4> QED
        BY <3>1, <4>1, <4>2 DEF WriteReply
    <3>6. se' \in -1 .. N - 1 /\ chosen' \in [Servers -> Nat]
      BY <3>2, <3>3
    <3> QED
      BY <2>14, <3>4, <3>5, <3>6 DEF Choose
  <2>15. CASE Record
    <3>1. task.client \in Clients /\ task.server \in Servers
      BY <2>15 DEF Record, Tasks, Loop, Choosing, Recording
    <3>2. usercreds' \in Seq(Account)
      BY <2>15, <3>1, SetConnectedtoKeepsRows DEF Record
    <3>3. /\ conn' = [conn EXCEPT ![task.client] = "closed"]
          /\ task' = Loop
          /\ UNCHANGED << clientVars, reset, running, se, chosen, serverload >>
      BY <2>15 DEF Record
    <3>4. conn' \in [Clients -> {"none", "backlog", "open", "closed"}]
      BY <3>1, <3>3
    <3>5. task' \in Tasks
      BY <3>3 DEF Tasks
    <3> QED
      BY <3>2, <3>3, <3>4, <3>5 DEF clientVars
  <2>16. CASE ResetWhileRecording
    <3>1. task.client \in Clients /\ task.server \in Servers
      BY <2>16 DEF ResetWhileRecording, Tasks, Loop, Choosing, Recording
    <3>2. usercreds' \in Seq(Account)
      BY <2>16, <3>1, SetConnectedtoKeepsRows DEF ResetWhileRecording
    <3>3. /\ running' = FALSE
          /\ UNCHANGED << clientVars, conn, reset, task, se, chosen, serverload >>
      BY <2>16 DEF ResetWhileRecording
    <3> QED
      BY <3>2, <3>3 DEF clientVars
  <2>17. CASE UNCHANGED vars
    BY <2>17 DEF vars, clientVars
  <2> QED
    BY <2>1, <2>2, <2>3, <2>4, <2>5, <2>6, <2>7, <2>8, <2>9, <2>10, <2>11,
       <2>12, <2>13, <2>14, <2>15, <2>16, <2>17
       DEF Next, ClientStep, CheckClient, AllocateClient
<1> QED
  BY <1>1, <1>2, PTL DEF Spec

-----------------------------------------------------------------------------

(***************************************************************************)
(* What a step may do to usercreds: nothing, an update of connectedto, or  *)
(* a new row for a name that has none.                                     *)
(***************************************************************************)
LEMMA TableSteps ==
    ASSUME TypeOK, [Next]_vars
    PROVE  \/ usercreds' = usercreds
           \/ \E u, k : k \in Servers \cup {Offline} /\ usercreds' = SetConnectedto(u, k)
           \/ \E row \in Account : /\ RowsOf(row.username) = {}
                                   /\ usercreds' = Append(usercreds, row)
<1>1. ASSUME NEW c \in Clients, CreateAccount(c)
      PROVE  \E row \in Account : /\ RowsOf(row.username) = {}
                                 /\ usercreds' = Append(usercreds, row)
  <2> DEFINE row == [username |-> request[c].username,
                     userpwd |-> request[c].password, connectedto |-> Offline]
  <2>1. row \in Account
    BY <1>1 DEF CreateAccount, TypeOK, Request, Account
  <2>2. RowsOf(row.username) = {} /\ usercreds' = Append(usercreds, row)
    BY <1>1 DEF CreateAccount, IsNew
  <2> QED
    BY <2>1, <2>2
<1>2. ASSUME NEW c \in Clients, Logout(c)
      PROVE  usercreds' = SetConnectedto(request[c].username, Offline)
  BY <1>2 DEF Logout
<1>3. ASSUME Record \/ ResetWhileRecording
      PROVE  /\ task.server \in Servers
             /\ usercreds' = SetConnectedto(request[task.client].username, task.server)
  BY <1>3 DEF Record, ResetWhileRecording, TypeOK, Tasks, Loop, Choosing, Recording
<1>4. ASSUME NEW c \in Clients,
             \/ Connect(c) \/ (\E r \in Request : Submit(c, r)) \/ ReadInvalid(c)
             \/ ReadAddress(c) \/ Register(c) \/ Quit(c) \/ AcceptClient(c)
             \/ Authenticate(c) \/ Refuse(c) \/ Forget(c) \/ ResetInSelect(c)
      PROVE  usercreds' = usercreds
  BY <1>4 DEF Connect, Submit, ReadInvalid, ReadAddress, Register, Quit,
              AcceptClient, Authenticate, Refuse, Forget, ResetInSelect
<1>5. CASE Choose
  BY <1>5 DEF Choose
<1>6. CASE UNCHANGED vars
  BY <1>6 DEF vars
<1> QED
  BY <1>1, <1>2, <1>3, <1>4, <1>5, <1>6
     DEF Next, ClientStep, CheckClient, AllocateClient

(***************************************************************************)
(* A name never has two accounts: the test and the insertion are one step  *)
(* of the only process that inserts.                                       *)
(***************************************************************************)
THEOREM NamesStayUnique == Spec => []UniqueUsernames
<1>1. Init => UniqueUsernames
  BY DEF Init, UniqueUsernames
<1>2. TypeOK /\ UniqueUsernames /\ [Next]_vars => UniqueUsernames'
  <2> SUFFICES ASSUME TypeOK, UniqueUsernames, [Next]_vars
               PROVE  UniqueUsernames'
    OBVIOUS
  <2>1. usercreds \in Seq(Account)
    BY DEF TypeOK
  <2>2. CASE usercreds' = usercreds
    BY <2>2 DEF UniqueUsernames
  <2>3. ASSUME NEW u, NEW k \in Servers \cup {Offline},
               usercreds' = SetConnectedto(u, k)
        PROVE  UniqueUsernames'
    BY <2>1, <2>3, SetConnectedtoKeepsRows DEF UniqueUsernames
  <2>4. ASSUME NEW row \in Account, RowsOf(row.username) = {},
               usercreds' = Append(usercreds, row)
        PROVE  UniqueUsernames'
    <3>1. \A n \in DOMAIN usercreds : usercreds[n].username # row.username
      BY <2>4 DEF RowsOf
    <3>2. /\ DOMAIN usercreds' = 1 .. Len(usercreds) + 1
          /\ DOMAIN usercreds = 1 .. Len(usercreds)
          /\ \A n \in 1 .. Len(usercreds) : usercreds'[n] = usercreds[n]
          /\ usercreds'[Len(usercreds) + 1] = row
      BY <2>1, <2>4
    <3>3. Len(usercreds) \in Nat
      BY <2>1
    <3> QED
      BY <3>1, <3>2, <3>3 DEF UniqueUsernames
  <2> QED
    BY <2>2, <2>3, <2>4, TableSteps
<1> QED
  BY <1>1, <1>2, TypeCorrect, PTL DEF Spec

-----------------------------------------------------------------------------

\* Round-robin goes round: the servers up to se have been chosen once more than
\* those after it.
Rounds ==
    Algorithm = "round-robin" =>
        \E r \in Nat : \A k \in Servers : chosen[k] = IF k <= se THEN r + 1 ELSE r

(***************************************************************************)
(* Round-robin chooses all servers equally often, up to one.               *)
(***************************************************************************)
THEOREM RoundRobinIsEven == Spec => []RoundRobinEven
<1> USE NAssumption DEF Servers
<1>1. Init => Rounds
  BY DEF Init, Rounds
<1>2. TypeOK /\ Rounds /\ [Next]_vars => Rounds'
  <2> SUFFICES ASSUME TypeOK, Rounds, [Next]_vars, Algorithm = "round-robin"
               PROVE  \E r \in Nat :
                        \A k \in Servers : chosen'[k] = IF k <= se' THEN r + 1 ELSE r
    BY DEF Rounds
  <2>1. PICK r \in Nat : \A k \in Servers : chosen[k] = IF k <= se THEN r + 1 ELSE r
    BY DEF Rounds
  <2>2. CASE Choose
    <3> DEFINE k == (se + 1) % N
    <3>1. se' = k /\ chosen' = [chosen EXCEPT ![k] = @ + 1]
      BY <2>2 DEF Choose, ChooseServer
    <3>2. chosen \in [Servers -> Nat] /\ se \in -1 .. N - 1
      BY DEF TypeOK
    <3>3. CASE se + 1 < N
      <4>1. k = se + 1
        <5>1. se + 1 \in Nat
          BY <3>2
        <5> HIDE DEF k
        <5>2. \A a, n \in Nat : n > 0 /\ a < n => a % n = a
          OBVIOUS
        <5> QED
          BY <3>3, <5>1, <5>2 DEF k
      <4> QED
        BY <2>1, <3>1, <3>2, <3>3, <4>1
    <3>4. CASE se = N - 1
      <4>1. k = 0
        BY <3>4
      <4>2. \A j \in Servers : chosen[j] = r + 1
        BY <2>1, <3>4
      <4>3. \A j \in Servers : chosen'[j] = IF j <= 0 THEN (r + 1) + 1 ELSE r + 1
        BY <3>1, <3>2, <4>1, <4>2
      <4> QED
        BY <3>1, <4>1, <4>3
    <3> QED
      BY <3>2, <3>3, <3>4
  <2>3. CASE UNCHANGED << se, chosen >>
    BY <2>1, <2>3
  <2>4. Choose \/ UNCHANGED << se, chosen >>
    BY DEF Next, ClientStep, CheckClient, AllocateClient, Connect, Submit,
           ReadInvalid, ReadAddress, Register, Logout, Quit, AcceptClient,
           CreateAccount, Authenticate, Refuse, Forget, ResetInSelect, Record,
           ResetWhileRecording, vars
  <2> QED
    BY <2>2, <2>3, <2>4
<1>3. TypeOK /\ Rounds => RoundRobinEven
  <2> SUFFICES ASSUME TypeOK, Rounds, Algorithm = "round-robin",
                      NEW j \in Servers, NEW k \in Servers
               PROVE  chosen[j] <= chosen[k] + 1
    BY DEF RoundRobinEven
  <2>1. PICK r \in Nat : \A i \in Servers : chosen[i] = IF i <= se THEN r + 1 ELSE r
    BY DEF Rounds
  <2>2. chosen[j] \in r .. r + 1 /\ chosen[k] \in r .. r + 1
    BY <2>1
  <2> QED
    BY <2>1, <2>2
<1> QED
  BY <1>1, <1>2, <1>3, TypeCorrect, PTL DEF Spec

-----------------------------------------------------------------------------

\* The account was found or made before the choice of a server began, and the
\* client cannot write other credentials before it has read its reply.
LoginInv ==
    /\ \A c \in Clients : reply[c] # Nothing => phase[c] = "waiting" /\ c \notin unread
    /\ \A c \in unread : phase[c] \in {"waiting", "left"}
    /\ task # Loop =>
         /\ Holds(task.client)
         /\ task.client \notin unread
         /\ reply[task.client] # Invalid
         /\ phase[task.client] \in {"waiting", "assigned", "online", "left"}
    /\ task.at = "choose" => /\ phase[task.client] \in {"waiting", "left"}
                              /\ reply[task.client] = Nothing

(***************************************************************************)
(* No step takes an account away or changes its password.                  *)
(***************************************************************************)
LEMMA AccountsStay ==
    ASSUME TypeOK, [Next]_vars, NEW c \in Clients, Holds(c), request'[c] = request[c]
    PROVE  Holds(c)'
<1>1. PICK n \in DOMAIN usercreds : /\ usercreds[n].username = request[c].username
                                  /\ usercreds[n].userpwd = request[c].password
  BY DEF Holds
<1>2. usercreds \in Seq(Account)
  BY DEF TypeOK
<1>3. SUFFICES /\ n \in DOMAIN usercreds'
               /\ usercreds'[n].username = usercreds[n].username
               /\ usercreds'[n].userpwd = usercreds[n].userpwd
  BY <1>1 DEF Holds
<1>4. CASE usercreds' = usercreds
  BY <1>4
<1>5. ASSUME NEW u, NEW k \in Servers \cup {Offline}, usercreds' = SetConnectedto(u, k)
      PROVE  /\ n \in DOMAIN usercreds'
             /\ usercreds'[n].username = usercreds[n].username
             /\ usercreds'[n].userpwd = usercreds[n].userpwd
  BY <1>2, <1>5, SetConnectedtoKeepsRows
<1>6. ASSUME NEW row \in Account, usercreds' = Append(usercreds, row)
      PROVE  n \in DOMAIN usercreds' /\ usercreds'[n] = usercreds[n]
  BY <1>2, <1>6
<1> QED
  BY <1>4, <1>5, <1>6, TableSteps

(***************************************************************************)
(* A request that is accepted has an account: the new one, or the one the  *)
(* password was compared with.                                             *)
(***************************************************************************)
LEMMA AcceptedHasAccount ==
    ASSUME TypeOK, UniqueUsernames, NEW c \in Clients,
           CreateAccount(c) \/ Authenticate(c)
    PROVE  Holds(c)'
<1>1. usercreds \in Seq(Account)
  BY DEF TypeOK
<1>2. CASE CreateAccount(c)
  <2> DEFINE row == [username |-> request[c].username,
                     userpwd |-> request[c].password, connectedto |-> Offline]
  <2>1. usercreds' = Append(usercreds, row) /\ request' = request
    BY <1>2 DEF CreateAccount
  <2>2. Len(usercreds) + 1 \in DOMAIN usercreds' /\ usercreds'[Len(usercreds) + 1] = row
    <3>1. row \in Account
      BY <1>2 DEF CreateAccount, TypeOK, Request, Account
    <3> HIDE DEF row
    <3> QED
      BY <1>1, <2>1, <3>1
  <2> QED
    BY <2>1, <2>2 DEF Holds
<1>3. CASE Authenticate(c)
  <2> DEFINE u == request[c].username
  <2>1. PICK n \in RowsOf(u) : TRUE
    BY <1>3 DEF Authenticate, IsAuthentic
  <2>2. RowsOf(u) = {n}
    BY <2>1 DEF RowsOf, UniqueUsernames
  <2>3. n \in DOMAIN usercreds /\ n \in Nat /\ usercreds[n].username = u
    BY <1>1, <2>1 DEF RowsOf
  <2>4. FirstRow(u) = usercreds[n]
    BY <2>2, <2>3 DEF FirstRow
  <2> QED
    BY <1>3, <2>3, <2>4 DEF Authenticate, IsAuthentic, Holds
<1> QED
  BY <1>2, <1>3

LEMMA LoginInvStep ==
    ASSUME TypeOK, UniqueUsernames, LoginInv, AddressOnlyToAccounts, [Next]_vars
    PROVE  LoginInv' /\ AddressOnlyToAccounts'
<1> USE DEF TypeOK, LoginInv, AddressOnlyToAccounts
<1>0. \A c \in Clients : Holds(c) /\ request'[c] = request[c] => Holds(c)'
  BY AccountsStay
<1>t. task # Loop => task.client \in Clients /\ task.at \in {"choose", "record"}
  BY DEF Tasks, Choosing, Recording
<1>l. Loop.at = "select"
  BY DEF Loop
<1>n. Nothing.is = "nothing" /\ Invalid.is = "invalid" /\ Nothing # Invalid
  BY DEF Nothing, Invalid
<1>1. ASSUME NEW c \in Clients, Connect(c)
      PROVE  LoginInv' /\ AddressOnlyToAccounts'
  BY <1>0, <1>t, <1>l, <1>n, <1>1 DEF Connect
<1>2. ASSUME NEW c \in Clients, NEW r \in Request, Submit(c, r)
      PROVE  LoginInv' /\ AddressOnlyToAccounts'
  <2>1. reply[c] = Nothing /\ (task # Loop => task.client # c)
    BY <1>2, <1>t DEF Submit
  <2>2. \A d \in Clients \ {c} : request'[d] = request[d] /\ phase'[d] = phase[d]
    BY <1>2 DEF Submit
  <2> QED
    BY <1>0, <1>t, <1>l, <1>n, <1>2, <2>1, <2>2 DEF Submit
<1>3. ASSUME NEW c \in Clients, ReadInvalid(c)
      PROVE  LoginInv' /\ AddressOnlyToAccounts'
  BY <1>0, <1>t, <1>l, <1>n, <1>3 DEF ReadInvalid
<1>4. ASSUME NEW c \in Clients, ReadAddress(c)
      PROVE  LoginInv' /\ AddressOnlyToAccounts'
  <2>1. task.at # "choose" \/ task.client # c
    BY <1>4, <1>t, <1>n DEF ReadAddress
  <2> QED
    BY <1>0, <1>t, <1>l, <1>n, <1>4, <2>1 DEF ReadAddress
<1>5. ASSUME NEW c \in Clients, Register(c) \/ Logout(c) \/ Quit(c)
      PROVE  LoginInv' /\ AddressOnlyToAccounts'
  <2>1. /\ request' = request /\ unread' = unread /\ task' = task
        /\ phase'[c] \in {"online", "left"}
        /\ phase[c] \in {"typing", "waiting", "assigned", "online"}
        /\ phase[c] \notin {"assigned", "online"} => phase'[c] = "left"
        /\ phase[c] = "waiting" => phase'[c] = "left"
        /\ \A d \in Clients \ {c} : phase'[d] = phase[d] /\ reply'[d] = reply[d]
        /\ reply'[c] \in {reply[c], Nothing}
        /\ phase'[c] = "left" => reply'[c] = Nothing
    BY <1>5 DEF Register, Logout, Quit
  <2>2. \A d \in Clients : Holds(d) => Holds(d)'
    BY <1>0, <2>1
  <2>3. phase[c] # "waiting" => reply[c] = Nothing
    OBVIOUS
  <2>4. LoginInv'
    <3>1. ASSUME NEW d \in Clients, reply'[d] # Nothing
          PROVE  phase'[d] = "waiting" /\ d \notin unread'
      BY <2>1, <2>3, <3>1
    <3>2. ASSUME NEW d \in unread'
          PROVE  phase'[d] \in {"waiting", "left"}
      BY <2>1, <3>2
    <3>3. ASSUME task' # Loop
          PROVE  /\ Holds(task.client)'
                 /\ task'.client \notin unread'
                 /\ reply'[task'.client] # Invalid
                 /\ phase'[task'.client] \in {"waiting", "assigned", "online", "left"}
      BY <1>t, <1>n, <2>1, <2>2, <3>3 DEF Holds
    <3>4. ASSUME task'.at = "choose"
          PROVE  /\ phase'[task'.client] \in {"waiting", "left"}
                 /\ reply'[task'.client] = Nothing
      BY <1>t, <1>l, <2>1, <3>4
    <3> QED
      BY <3>1, <3>2, <3>3, <3>4
  <2>5. AddressOnlyToAccounts'
    BY <1>n, <2>1, <2>2
  <2> QED
    BY <2>4, <2>5
<1>6. ASSUME NEW c \in Clients, AcceptClient(c) \/ Forget(c) \/ ResetInSelect(c)
      PROVE  LoginInv' /\ AddressOnlyToAccounts'
  BY <1>0, <1>t, <1>l, <1>n, <1>6 DEF AcceptClient, Forget, ResetInSelect, clientVars
<1>7. ASSUME NEW c \in Clients, CreateAccount(c) \/ Authenticate(c)
      PROVE  LoginInv' /\ AddressOnlyToAccounts'
  <2>1. Holds(c)'
    BY <1>7, AcceptedHasAccount
  <2>2. task'.client = c /\ task'.at = "choose"
    BY <1>7 DEF CreateAccount, Authenticate, Choosing
  <2>3. reply[c] = Nothing /\ phase[c] \in {"waiting", "left"}
    BY <1>7 DEF CreateAccount, Authenticate
  <2> QED
    BY <1>0, <1>n, <1>7, <2>1, <2>2, <2>3 DEF CreateAccount, Authenticate
<1>8. ASSUME NEW c \in Clients, Refuse(c)
      PROVE  LoginInv' /\ AddressOnlyToAccounts'
  BY <1>0, <1>t, <1>l, <1>n, <1>8 DEF Refuse, WriteReply, Readable, InSelect
<1>9. CASE Choose
  <2>1. task # Loop
    BY <1>l, <1>9 DEF Choose
  <2>2. PICK c \in Clients : c = task.client
    BY <1>t, <2>1
  <2>3. PICK k \in ChooseServer :
          WriteReply(c, Address(k)) /\ task' = Recording(c, k)
    BY <1>9, <2>2 DEF Choose
  <2>4. task'.client = c /\ task'.at = "record"
    BY <2>3 DEF Recording
  <2>5. Holds(c) /\ c \notin unread /\ phase[c] \in {"waiting", "left"}
    BY <1>9, <2>1, <2>2 DEF Choose
  <2>6. UNCHANGED << phase, request, unread >>
    BY <1>9 DEF Choose
  <2>7. Holds(c)'
    BY <1>0, <2>5, <2>6
  <2>8. Address(k) # Invalid
    BY DEF Address, Invalid
  <2>9. /\ \A d \in Clients \ {c} : reply'[d] = reply[d]
        /\ reply'[c] # Nothing => phase[c] = "waiting" /\ reply'[c] # Invalid
        /\ reply'[c] # Invalid
    BY <1>n, <2>3, <2>5, <2>8 DEF WriteReply
  <2>10. \A d \in Clients : Holds(d) => Holds(d)'
    BY <1>0, <2>6, <1>9 DEF Choose
  <2>11. LoginInv'
    BY <2>4, <2>5, <2>6, <2>7, <2>9 DEF Holds
  <2>12. AddressOnlyToAccounts'
    BY <2>6, <2>7, <2>9, <2>10
  <2> QED
    BY <2>11, <2>12
<1>10. CASE Record \/ ResetWhileRecording
  BY <1>0, <1>t, <1>l, <1>n, <1>10 DEF Record, ResetWhileRecording, clientVars
<1>11. CASE UNCHANGED vars
  BY <1>0, <1>11 DEF vars, clientVars, Holds
<1> QED
  BY <1>1, <1>2, <1>3, <1>4, <1>5, <1>6, <1>7, <1>8, <1>9, <1>10, <1>11
     DEF Next, ClientStep, CheckClient, AllocateClient

(***************************************************************************)
(* Only a client whose name and password are those of an account is sent   *)
(* to a server.                                                            *)
(***************************************************************************)
THEOREM OnlyAccountsAreAllocated == Spec => []AddressOnlyToAccounts
<1>1. Init => LoginInv /\ AddressOnlyToAccounts
  BY DEF Init, LoginInv, AddressOnlyToAccounts, Nothing, Loop
<1>2. TypeOK /\ UniqueUsernames /\ LoginInv /\ AddressOnlyToAccounts /\ [Next]_vars
        => LoginInv' /\ AddressOnlyToAccounts'
  BY LoginInvStep
<1> QED
  BY <1>1, <1>2, TypeCorrect, NamesStayUnique, PTL DEF Spec

-----------------------------------------------------------------------------

\* The clients that server k has been chosen for and that have not reached it.
Claims(k) ==
    {c \in Clients : \/ reply[c] = Address(k)
                     \/ phase[c] = "assigned" /\ server[c] = k}

(***************************************************************************)
(* A server's load and its claims together stay within MaxOutstanding of   *)
(* every other load: a server is only chosen when its load is the least,   *)
(* and its claims are clients in their login.                              *)
(***************************************************************************)
ClaimInv ==
    /\ Cardinality(InLogin) <= MaxOutstanding
    /\ \A c \in Clients : phase[c] # "left"
    /\ \A j, k \in Servers :
         serverload[j] + Cardinality(Claims(j)) <= serverload[k] + MaxOutstanding

\* A claim is made by a client in its login.
LEMMA ClaimsAreLogins ==
    ASSUME LoginInv, NEW k
    PROVE  /\ IsFiniteSet(InLogin) /\ Cardinality(InLogin) \in Nat
           /\ IsFiniteSet(Claims(k)) /\ Cardinality(Claims(k)) \in Nat
           /\ Claims(k) \subseteq InLogin
           /\ Cardinality(Claims(k)) <= Cardinality(InLogin)
<1>1. IsFiniteSet(InLogin) /\ IsFiniteSet(Claims(k))
  BY EnvironmentAssumption, FS_Subset DEF InLogin, Claims
<1>2. Claims(k) \subseteq InLogin
  <2>1. Address(k) # Nothing
    BY DEF Address, Nothing
  <2> QED
    BY <2>1 DEF Claims, InLogin, LoginInv
<1> QED
  BY <1>1, <1>2, FS_CardinalityType, FS_Subset

\* The next login's claims, when no claim is made and clients at most leave
\* their login.
LEMMA NoNewClaim ==
    ASSUME TypeOK, LoginInv, ClaimInv, serverload' = serverload,
           InLogin' \subseteq InLogin,
           \A c \in Clients : phase'[c] # "left",
           \A k \in Servers : Claims(k)' = Claims(k)
    PROVE  ClaimInv'
<1>1. Cardinality(InLogin') <= Cardinality(InLogin) /\ Cardinality(InLogin') \in Nat
  BY ClaimsAreLogins, FS_Subset, FS_CardinalityType
<1>2. Cardinality(InLogin') <= MaxOutstanding
  BY <1>1, ClaimsAreLogins, EnvironmentAssumption DEF ClaimInv
<1> QED
  BY <1>2 DEF ClaimInv

LEMMA ClaimStep ==
    ASSUME TypeOK, LoginInv, ClaimInv, Algorithm = "least-load", ~Logouts, [Next]_vars
    PROVE  ClaimInv'
<1>1. /\ phase \in [Clients -> {"start", "typing", "waiting", "assigned", "online", "left"}]
      /\ reply \in [Clients -> Reply]
      /\ server \in [Clients -> Servers]
      /\ serverload \in [Servers -> Int]
      /\ MaxOutstanding \in Nat
  BY EnvironmentAssumption DEF TypeOK
<1>2. \A c \in Clients : reply[c] # Nothing => phase[c] = "waiting"
  BY DEF LoginInv
<1>3. \A j, k : Address(j) # Nothing /\ Address(j) # Invalid /\ (Address(j) = Address(k) => j = k)
  BY DEF Address, Nothing, Invalid
<1>4. \A c \in Clients : phase[c] # "left"
  BY DEF ClaimInv
<1>5. ASSUME NEW c \in Clients, Connect(c)
      PROVE  ClaimInv'
  <2>1. phase' = [phase EXCEPT ![c] = "typing"] /\ UNCHANGED << reply, server, serverload >>
        /\ phase[c] = "start"
    BY <1>5 DEF Connect
  <2>2. InLogin' \subseteq InLogin /\ \A k \in Servers : Claims(k)' = Claims(k)
    BY <1>1, <2>1 DEF InLogin, Claims
  <2> QED
    BY <1>1, <1>4, <2>1, <2>2, NoNewClaim
<1>6. ASSUME NEW c \in Clients, NEW r \in Request, Submit(c, r)
      PROVE  ClaimInv'
  <2>1. /\ phase[c] = "typing" /\ phase' = [phase EXCEPT ![c] = "waiting"]
        /\ Cardinality(InLogin) < MaxOutstanding
        /\ UNCHANGED << reply, server, serverload >>
    BY <1>6 DEF Submit
  <2>2. InLogin' = InLogin \cup {c} /\ \A k \in Servers : Claims(k)' = Claims(k)
    BY <1>1, <2>1 DEF InLogin, Claims
  <2>3. Cardinality(InLogin') <= Cardinality(InLogin) + 1 /\ Cardinality(InLogin') \in Nat
    BY <2>2, ClaimsAreLogins, FS_AddElement, FS_CardinalityType
  <2>4. Cardinality(InLogin') <= MaxOutstanding
    BY <1>1, <2>1, <2>3, ClaimsAreLogins
  <2>5. \A d \in Clients : phase'[d] # "left"
    BY <1>1, <1>4, <2>1
  <2> QED
    BY <2>1, <2>2, <2>4, <2>5 DEF ClaimInv
<1>7. ASSUME NEW c \in Clients, ReadInvalid(c)
      PROVE  ClaimInv'
  <2>1. /\ phase[c] = "waiting" /\ phase' = [phase EXCEPT ![c] = "typing"]
        /\ reply[c] = Invalid /\ reply' = [reply EXCEPT ![c] = Nothing]
        /\ UNCHANGED << server, serverload >>
    BY <1>7 DEF ReadInvalid
  <2>2. InLogin' \subseteq InLogin /\ \A k \in Servers : Claims(k)' = Claims(k)
    BY <1>1, <1>3, <2>1 DEF InLogin, Claims
  <2> QED
    BY <1>1, <1>4, <2>1, <2>2, NoNewClaim
<1>8. ASSUME NEW c \in Clients, ReadAddress(c)
      PROVE  ClaimInv'
  <2>1. /\ phase[c] = "waiting" /\ phase' = [phase EXCEPT ![c] = "assigned"]
        /\ reply[c].is = "address" /\ reply' = [reply EXCEPT ![c] = Nothing]
        /\ server' = [server EXCEPT ![c] = reply[c].server]
        /\ serverload' = serverload
    BY <1>8 DEF ReadAddress
  <2>2. PICK a \in Servers : reply[c] = Address(a)
    BY <1>1, <2>1 DEF Reply, Nothing, Invalid
  <2>3. server'[c] = a /\ phase'[c] = "assigned" /\ reply'[c] = Nothing
    BY <1>1, <2>1, <2>2 DEF Address
  <2>4. \A d \in Clients \ {c} :
          server'[d] = server[d] /\ phase'[d] = phase[d] /\ reply'[d] = reply[d]
    BY <1>1, <2>1
  <2>5. InLogin' \subseteq InLogin
    BY <2>1, <2>4 DEF InLogin
  <2>6. ASSUME NEW k \in Servers
        PROVE  Claims(k)' = Claims(k)
    <3>1. c \in Claims(k) <=> k = a
      BY <1>3, <2>1, <2>2 DEF Claims
    <3>2. c \in Claims(k)' <=> k = a
      BY <1>3, <2>3 DEF Claims
    <3>3. \A d \in Clients \ {c} : d \in Claims(k)' <=> d \in Claims(k)
      BY <2>4 DEF Claims
    <3>4. Claims(k) \subseteq Clients /\ Claims(k)' \subseteq Clients
      BY DEF Claims
    <3> QED
      BY <3>1, <3>2, <3>3, <3>4
  <2>7. \A d \in Clients : phase'[d] # "left"
    BY <1>4, <2>3, <2>4
  <2> QED
    BY <2>1, <2>5, <2>6, <2>7, NoNewClaim
<1>9. ASSUME NEW c \in Clients, Register(c)
      PROVE  ClaimInv'
  <2>0. PICK a \in Servers : a = server[c]
    BY <1>1
  <2>1. /\ phase[c] = "assigned" /\ phase' = [phase EXCEPT ![c] = "online"]
        /\ serverload' = [serverload EXCEPT ![a] = @ + 1]
        /\ UNCHANGED << reply, server >>
    BY <1>9, <2>0 DEF Register
  <2>2. a \in Servers /\ reply[c] = Nothing
    BY <1>1, <1>2, <2>0, <2>1
  <2>3. InLogin' \subseteq InLogin
    BY <1>1, <2>1 DEF InLogin
  <2>4. Cardinality(InLogin') <= MaxOutstanding
    <3>1. Cardinality(InLogin') <= Cardinality(InLogin) /\ Cardinality(InLogin') \in Nat
      BY <2>3, ClaimsAreLogins, FS_Subset, FS_CardinalityType
    <3> QED
      BY <1>1, <3>1, ClaimsAreLogins DEF ClaimInv
  <2>5. Claims(a)' = Claims(a) \ {c} /\ c \in Claims(a)
    BY <1>1, <1>3, <2>0, <2>1, <2>2 DEF Claims
  <2>6. \A k \in Servers \ {a} : Claims(k)' = Claims(k)
    BY <1>1, <1>3, <2>0, <2>1, <2>2 DEF Claims
  <2>7. Cardinality(Claims(a)') = Cardinality(Claims(a)) - 1
    BY <2>5, ClaimsAreLogins, FS_RemoveElement
  <2>8. ASSUME NEW j \in Servers, NEW k \in Servers
        PROVE  serverload'[j] + Cardinality(Claims(j)') <= serverload'[k] + MaxOutstanding
    <3>1. serverload[j] + Cardinality(Claims(j)) <= serverload[k] + MaxOutstanding
      BY DEF ClaimInv
    <3>2. serverload'[k] >= serverload[k] /\ serverload'[k] \in Int
      BY <1>1, <2>1, <2>2
    <3>3. serverload'[j] + Cardinality(Claims(j)') = serverload[j] + Cardinality(Claims(j))
      <4>1. CASE j = a
        <5>1. serverload'[j] = serverload[j] + 1
          BY <1>1, <2>1, <4>1
        <5> QED
          BY <1>1, <2>7, <4>1, <5>1, ClaimsAreLogins
      <4>2. CASE j # a
        BY <1>1, <2>1, <2>6, <4>2
      <4> QED
        BY <4>1, <4>2
    <3>4. serverload[k] \in Int /\ serverload[j] \in Int /\ Cardinality(Claims(j)) \in Nat
      BY <1>1, ClaimsAreLogins
    <3>5. serverload[j] + Cardinality(Claims(j)) <= serverload'[k] + MaxOutstanding
      BY <1>1, <3>1, <3>2, <3>4
    <3> QED
      BY <3>3, <3>5
  <2>9. \A d \in Clients : phase'[d] # "left"
    BY <1>1, <1>4, <2>1
  <2> QED
    BY <2>4, <2>8, <2>9 DEF ClaimInv
<1>10. ASSUME NEW c \in Clients, Logout(c) \/ Quit(c)
       PROVE  FALSE
  BY <1>10 DEF Logout, Quit
<1>11. ASSUME UNCHANGED << phase, reply, server, serverload >>
       PROVE  ClaimInv'
  <2>1. InLogin' \subseteq InLogin /\ \A k \in Servers : Claims(k)' = Claims(k)
    BY <1>11 DEF InLogin, Claims
  <2> QED
    BY <1>4, <1>11, <2>1, NoNewClaim
<1>12. ASSUME NEW c \in Clients,
              \/ AcceptClient(c) \/ CreateAccount(c) \/ Authenticate(c)
              \/ Forget(c) \/ ResetInSelect(c)
       PROVE  ClaimInv'
  BY <1>11, <1>12 DEF AcceptClient, CreateAccount, Authenticate, Forget, ResetInSelect,
                      clientVars
<1>13. ASSUME NEW c \in Clients, Refuse(c)
       PROVE  ClaimInv'
  <2>1. reply[c] = Nothing
    BY <1>13 DEF Refuse, LoginInv
  <2>2. reply' = [reply EXCEPT ![c] = Invalid] /\ UNCHANGED << phase, server, serverload >>
    BY <1>4, <1>13 DEF Refuse, WriteReply
  <2>3. InLogin' \subseteq InLogin /\ \A k \in Servers : Claims(k)' = Claims(k)
    BY <1>1, <1>3, <2>1, <2>2 DEF InLogin, Claims
  <2> QED
    BY <1>4, <2>2, <2>3, NoNewClaim
<1>14. CASE Choose
  <2>1. PICK a \in LeastLoaded : WriteReply(task.client, Address(a))
    BY <1>14 DEF Choose, ChooseServer
  <2>2. PICK c \in Clients : c = task.client
    BY <1>14 DEF Choose, TypeOK, Tasks, Loop, Choosing, Recording
  <2>3. phase[c] = "waiting" /\ reply[c] = Nothing
    BY <1>4, <1>14, <2>2 DEF Choose, LoginInv
  <2>4. reply' = [reply EXCEPT ![c] = Address(a)] /\ UNCHANGED << phase, server, serverload >>
    BY <1>4, <1>14, <2>1, <2>2 DEF Choose, WriteReply
  <2>5. a \in Servers /\ \A k \in Servers : serverload[a] <= serverload[k]
    BY <2>1 DEF LeastLoaded
  <2>6. InLogin' = InLogin
    BY <2>4 DEF InLogin
  <2>7. Claims(a)' = Claims(a) \cup {c} /\ c \in InLogin
    BY <1>1, <1>3, <2>3, <2>4 DEF Claims, InLogin
  <2>8. \A k \in Servers \ {a} : Claims(k)' = Claims(k)
    BY <1>1, <1>3, <2>3, <2>4 DEF Claims
  <2>9. Cardinality(Claims(a)') <= MaxOutstanding /\ Cardinality(Claims(a)') \in Nat
    <3>1. Claims(a)' \subseteq InLogin
      BY <2>7, ClaimsAreLogins
    <3>2. Cardinality(Claims(a)') <= Cardinality(InLogin) /\ Cardinality(Claims(a)') \in Nat
      BY <3>1, ClaimsAreLogins, FS_Subset, FS_CardinalityType
    <3> QED
      BY <1>1, <3>2, ClaimsAreLogins DEF ClaimInv
  <2>10. ASSUME NEW j \in Servers, NEW k \in Servers
         PROVE  serverload[j] + Cardinality(Claims(j)') <= serverload[k] + MaxOutstanding
    <3>1. CASE j = a
      <4>1. serverload[a] <= serverload[k] /\ serverload[a] \in Int /\ serverload[k] \in Int
        BY <1>1, <2>5
      <4> QED
        BY <1>1, <2>9, <3>1, <4>1
    <3>2. CASE j # a
      BY <2>8, <3>2 DEF ClaimInv
    <3> QED
      BY <3>1, <3>2
  <2> QED
    BY <1>4, <2>4, <2>6, <2>10 DEF ClaimInv
<1>15. CASE Record \/ ResetWhileRecording
  BY <1>11, <1>15 DEF Record, ResetWhileRecording, clientVars
<1>16. CASE UNCHANGED vars
  BY <1>11, <1>16 DEF vars, clientVars
<1> QED
  BY <1>5, <1>6, <1>7, <1>8, <1>9, <1>10, <1>12, <1>13, <1>14, <1>15, <1>16
     DEF Next, ClientStep, CheckClient, AllocateClient

(***************************************************************************)
(* While nobody leaves, least-load keeps the loads of any two servers      *)
(* within MaxOutstanding of each other, the number of clients in their     *)
(* login at once: choose_server goes by a load that does not yet count     *)
(* those it has just sent there.                                           *)
(***************************************************************************)
THEOREM LoadsStayClose == Spec => []SpreadWithinOutstanding
<1> DEFINE Inv == Algorithm = "least-load" /\ ~Logouts => ClaimInv
<1>1. Init => Inv
  <2> SUFFICES ASSUME Init
               PROVE  ClaimInv
    OBVIOUS
  <2>1. InLogin = {} /\ \A k \in Servers : Claims(k) = {}
    BY DEF Init, InLogin, Claims, Address, Nothing
  <2>2. Cardinality({}) = 0 /\ MaxOutstanding \in Nat
    BY FS_EmptySet, EnvironmentAssumption
  <2>3. \A k \in Servers : Cardinality(Claims(k)) = 0 /\ serverload[k] = 0
    BY <2>1, <2>2 DEF Init
  <2>4. Cardinality(InLogin) <= MaxOutstanding
    BY <2>1, <2>2
  <2>5. \A c \in Clients : phase[c] # "left"
    BY DEF Init
  <2> QED
    BY <2>2, <2>3, <2>4, <2>5 DEF ClaimInv
<1>2. TypeOK /\ LoginInv /\ Inv /\ [Next]_vars => Inv'
  BY ClaimStep
<1>3. TypeOK /\ LoginInv /\ Inv => SpreadWithinOutstanding
  <2> SUFFICES ASSUME TypeOK, LoginInv, ClaimInv, NEW j \in Servers, NEW k \in Servers
               PROVE  serverload[j] <= serverload[k] + MaxOutstanding
    BY DEF SpreadWithinOutstanding
  <2>1. serverload[j] + Cardinality(Claims(j)) <= serverload[k] + MaxOutstanding
    BY DEF ClaimInv
  <2>2. /\ serverload[j] \in Int /\ serverload[k] \in Int
        /\ Cardinality(Claims(j)) \in Nat /\ MaxOutstanding \in Nat
    BY ClaimsAreLogins, EnvironmentAssumption DEF TypeOK
  <2> QED
    BY <2>1, <2>2
<1>4. Init => LoginInv /\ AddressOnlyToAccounts
  BY DEF Init, LoginInv, AddressOnlyToAccounts, Nothing, Loop
<1>5. TypeOK /\ UniqueUsernames /\ LoginInv /\ AddressOnlyToAccounts /\ [Next]_vars
        => LoginInv' /\ AddressOnlyToAccounts'
  BY LoginInvStep
<1> HIDE DEF Inv
<1> QED
  BY <1>1, <1>2, <1>3, <1>4, <1>5, TypeCorrect, NamesStayUnique, PTL DEF Spec

=============================================================================
