---------------------------- MODULE GroupsProofs ----------------------------
(* Theorems about Groups, for every set of users and of names and every    *)
(* number of groups and commands.                                          *)
EXTENDS Groups, TLAPS

(***************************************************************************)
(* Facts about the tasks of a client.                                      *)
(***************************************************************************)
LEMMA TasksAreTasks ==
    /\ Ended \in Task /\ Choosing \in Task /\ Chatting \in Task /\ Creating \in Task
    /\ Ended.at = "ended" /\ Choosing.at = "choose"
    /\ Chatting.at = "chat" /\ Creating.at = "create"
    /\ Chatting # Ended /\ Chatting # Choosing /\ Chatting # Creating
BY DEF Task, Ended, Choosing, Chatting, Creating

LEMMA AddingIsTask ==
    ASSUME NEW id \in 0 .. MaxCommands, NEW v \in Users, NEW admin \in BOOLEAN,
           NEW row \in Row, NEW told \in BOOLEAN
    PROVE  /\ Adding(id, v, admin, row, told) \in Task
           /\ Adding(id, v, admin, row, told).at = "add"
           /\ Adding(id, v, admin, row, told).row = row
           /\ Adding(id, v, admin, row, told).who = v
BY DEF Adding, Task

LEMMA AddingFields ==
    ASSUME NEW t \in Task, t.at = "add"
    PROVE  /\ t.id \in 0 .. MaxCommands /\ t.who \in Users /\ t.admin \in BOOLEAN
           /\ t.row \in Row /\ t.announced \in BOOLEAN
           /\ [t EXCEPT !.announced = TRUE] \in Task
           /\ [t EXCEPT !.announced = TRUE].at = "add"
           /\ [t EXCEPT !.announced = TRUE].row = t.row
           /\ [t EXCEPT !.announced = TRUE].who = t.who
<1> DEFINE A == [at : {"add"}, id : 0 .. MaxCommands, who : Users,
                 admin : BOOLEAN, row : Row, announced : BOOLEAN]
<1>1. t \in A
  BY DEF Task, Ended, Choosing, Chatting, Creating
<1>2. [t EXCEPT !.announced = TRUE] \in A
  BY <1>1
<1>3. A \subseteq Task
  BY DEF Task
<1> QED
  BY <1>1, <1>2, <1>3

(***************************************************************************)
(* What an announcement and an ending client leave well typed.             *)
(***************************************************************************)
LEMMA TellKeepsType ==
    ASSUME TypeOK, NEW c \in Users, NEW id \in 0 .. MaxCommands,
           NEW kind \in {"added", "removed"}, NEW v \in Users, NEW to,
           group_name[c] # NoName, Tell(c, id, kind, v, to)
    PROVE  mail' \in [Users -> SUBSET Announcement]
<1> DEFINE a == [id |-> id, kind |-> kind, group |-> group_name[c], who |-> v]
<1>1. a \in Announcement
  BY DEF TypeOK, Announcement
<1>2. mail' = [u \in Users |-> IF u \in to THEN mail[u] \cup {a} ELSE mail[u]]
  BY DEF Tell
<1> HIDE DEF a
<1> QED
  BY <1>1, <1>2 DEF TypeOK

LEMMA LeavesKeepsTypes ==
    ASSUME TypeOK, NEW c \in Users, Leaves(c)
    PROVE  /\ task' \in [Users -> Task]
           /\ group_name' \in [Users -> Names \cup {NoName}]
           /\ inAGroup' \in [Users -> BOOLEAN]
           /\ isAdmin' \in [Users -> BOOLEAN]
           /\ receivers' \in [Users -> SUBSET Users]
           /\ \A d \in Users :
                inAGroup'[d] \/ task'[d].at \in {"create", "add"} => group_name'[d] # NoName
<1>1. task' = [task EXCEPT ![c] = Ended] /\ task' \in [Users -> Task]
  BY TasksAreTasks DEF Leaves, Becomes, TypeOK
<1>2. ASSUME NEW d \in Users, inAGroup'[d] \/ task'[d].at \in {"create", "add"}
      PROVE  group_name'[d] # NoName
  <2>1. CASE d = c
    BY <1>1, <1>2, <2>1, TasksAreTasks DEF Leaves, TypeOK
  <2>2. CASE d # c
    BY <1>1, <1>2, <2>2 DEF Leaves, TypeOK
  <2> QED
    BY <2>1, <2>2
<1>3. /\ group_name' \in [Users -> Names \cup {NoName}]
      /\ inAGroup' \in [Users -> BOOLEAN]
      /\ receivers' \in [Users -> SUBSET Users]
  BY DEF Leaves, TypeOK
<1>4. isAdmin' \in [Users -> BOOLEAN]
  BY DEF Leaves, TypeOK
<1> QED
  BY <1>1, <1>2, <1>3, <1>4

(***************************************************************************)
(* Every reachable state has the types of TypeOK.                          *)
(***************************************************************************)
THEOREM TypeCorrect == Spec => []TypeOK
<1> USE NamesAssumption, BoundsAssumption
<1>1. Init => TypeOK
  <2> SUFFICES ASSUME Init PROVE TypeOK
    OBVIOUS
  <2>1. task \in [Users -> Task] /\ \A c \in Users : task[c].at = "choose"
    BY TasksAreTasks DEF Init
  <2> QED
    BY <2>1 DEF Init, TypeOK
<1>2. TypeOK /\ [Next]_vars => TypeOK'
  <2> SUFFICES ASSUME TypeOK, [Next]_vars
               PROVE  TypeOK'
    OBVIOUS
  <2>0. ASSUME Given PROVE commands' \in 0 .. MaxCommands
    BY <2>0 DEF Given, TypeOK
  <2>1. ASSUME NEW c \in Users, NEW g \in Names, OpenGroup(c, g)
        PROVE  TypeOK'
    <3>1. PICK n \in RowsOf(g) :
            /\ receivers' = [receivers EXCEPT ![c] = @ \cup (groups[n].groupmembers \ {c})]
            /\ isAdmin' = [isAdmin EXCEPT ![c] = @ \/ c \in groups[n].adminlist]
      BY <2>1 DEF OpenGroup, Opened
    <3>2. groups[n].groupmembers \in SUBSET Users
      <4>1. groups[n] \in Row
        BY DEF RowsOf, TypeOK
      <4> QED
        BY <4>1 DEF Row
    <3>3. receivers' \in [Users -> SUBSET Users]
      BY <3>1, <3>2 DEF TypeOK
    <3>4. isAdmin' \in [Users -> BOOLEAN]
      BY <3>1 DEF TypeOK
    <3>5. task' \in [Users -> Task] /\ task' = [task EXCEPT ![c] = Chatting]
      BY <2>1, TasksAreTasks DEF OpenGroup, Opened, Becomes, TypeOK
    <3>6. disturbed' \subseteq Names
      BY <2>1 DEF OpenGroup, Opened, TypeOK
    <3>7. inAGroup' \in [Users -> BOOLEAN]
      BY <2>1 DEF OpenGroup, Opened, TypeOK
    <3> QED
      BY <2>0, <2>1, <3>3, <3>4, <3>5, <3>6, <3>7, TasksAreTasks DEF OpenGroup, Opened, TypeOK
  <2>2. ASSUME NEW c \in Users, NEW g \in Names, BeginCreate(c, g)
        PROVE  TypeOK'
    <3>1. task' \in [Users -> Task] /\ task' = [task EXCEPT ![c] = Creating]
      BY <2>2, TasksAreTasks DEF BeginCreate, Becomes, TypeOK
    <3> QED
      BY <2>0, <2>2, <3>1 DEF BeginCreate, TypeOK
  <2>3. ASSUME NEW c \in Users, NEW others \in SUBSET Users, NEW admins \in SUBSET Users,
               InsertGroup(c, others, admins)
        PROVE  TypeOK'
    <3> DEFINE g == group_name[c]
               row == [groupname    |-> g,
                       groupmembers |-> {c} \cup others,
                       adminlist    |-> {c} \cup admins]
    <3>1. g \in Names
      BY <2>3, TasksAreTasks DEF InsertGroup, TypeOK
    <3>2. row \in Row
      BY <3>1 DEF Row
    <3>3. groups' = Append(groups, row)
      BY <2>3 DEF InsertGroup
    <3>4. groups' \in Seq(Row)
      <4> HIDE DEF row
      <4> QED
        BY <3>2, <3>3 DEF TypeOK
    <3>5. belonged' \in [Names -> SUBSET Users] /\ disturbed' \subseteq Names
      <4>1. /\ belonged' = [belonged EXCEPT ![g] = @ \cup {c} \cup others]
            /\ disturbed' = IF RowsOf(g) = {} THEN disturbed ELSE disturbed \cup {g}
        BY <2>3 DEF InsertGroup
      <4> QED
        BY <3>1, <4>1 DEF TypeOK
    <3>6. task' \in [Users -> Task] /\ task' = [task EXCEPT ![c] = Chatting]
      BY <2>3, TasksAreTasks DEF InsertGroup, Becomes, TypeOK
    <3>7. isAdmin' \in [Users -> BOOLEAN]
      BY <2>3 DEF InsertGroup, TypeOK
    <3>8. inAGroup' \in [Users -> BOOLEAN]
      BY <2>3 DEF InsertGroup, TypeOK
    <3>9. receivers' \in [Users -> SUBSET Users]
      BY <2>3 DEF InsertGroup, TypeOK
    <3>10. \A d \in Users :
             inAGroup'[d] \/ task'[d].at \in {"create", "add"} => group_name'[d] # NoName
      BY <2>3, <3>1, <3>6, TasksAreTasks DEF InsertGroup, TypeOK
    <3> QED
      BY <2>0, <2>3, <3>4, <3>5, <3>6, <3>7, <3>8, <3>9, <3>10 DEF InsertGroup, TypeOK
  <2>4. ASSUME NEW c \in Users, NEW v \in Users, OpenDirect(c, v)
        PROVE  TypeOK'
    <3>1. task' \in [Users -> Task] /\ task' = [task EXCEPT ![c] = Chatting]
      BY <2>4, TasksAreTasks DEF OpenDirect, Becomes, TypeOK
    <3>2. inAGroup' \in [Users -> BOOLEAN]
      BY <2>4 DEF OpenDirect, TypeOK
    <3> QED
      BY <2>0, <2>4, <3>1, <3>2, TasksAreTasks DEF OpenDirect, TypeOK
  <2>5. ASSUME NEW c \in Users, ChangeChat(c)
        PROVE  TypeOK'
    <3>1. task' \in [Users -> Task] /\ task' = [task EXCEPT ![c] = Choosing]
      BY <2>5, TasksAreTasks DEF ChangeChat, Becomes, TypeOK
    <3> QED
      BY <2>0, <2>5, <3>1, TasksAreTasks DEF ChangeChat, ghostVars, TypeOK
  <2>6. ASSUME NEW c \in Users, NEW v \in Users, NEW admin \in BOOLEAN,
               SelectGroup(c, v, admin)
        PROVE  TypeOK'
    <3> DEFINE g == group_name[c]
    <3>1. g \in Names /\ commands \in 0 .. MaxCommands
      BY <2>6 DEF SelectGroup, MayManage, TypeOK
    <3>2. PICK n \in RowsOf(g) : Becomes(c, Adding(commands, v, admin, groups[n], FALSE))
      BY <2>6 DEF SelectGroup
    <3>3. groups[n] \in Row
      BY DEF RowsOf, TypeOK
    <3>4. task' \in [Users -> Task]
      BY <3>1, <3>2, <3>3, AddingIsTask DEF Becomes, TypeOK
    <3>5. belonged' \in [Names -> SUBSET Users]
      BY <2>6, <3>1 DEF SelectGroup, TypeOK
    <3>6. disturbed' \subseteq Names
      BY <2>6, <3>1 DEF SelectGroup, TypeOK
    <3>7. \A d \in Users :
            inAGroup'[d] \/ task'[d].at \in {"create", "add"} => group_name'[d] # NoName
      BY <2>6, <3>2 DEF SelectGroup, MayManage, Becomes, TypeOK
    <3>8. receivers' \in [Users -> SUBSET Users]
      BY <2>6 DEF SelectGroup, TypeOK
    <3> QED
      BY <2>0, <2>6, <3>4, <3>5, <3>6, <3>7, <3>8 DEF SelectGroup, TypeOK
  <2>7. ASSUME NEW c \in Users, Announce(c)
        PROVE  TypeOK'
    <3>1. task[c] \in Task /\ task[c].at = "add" /\ group_name[c] # NoName
      BY <2>7 DEF Announce, Told, ToTell, TypeOK
    <3>2. mail' \in [Users -> SUBSET Announcement]
      BY <2>7, <3>1, AddingFields, TellKeepsType DEF Announce, Told
    <3>3. /\ task' = [task EXCEPT ![c] = [task[c] EXCEPT !.announced = TRUE]]
          /\ task' \in [Users -> Task]
      BY <2>7, <3>1, AddingFields DEF Announce, Told, TypeOK
    <3>4. \A d \in Users :
            inAGroup'[d] \/ task'[d].at \in {"create", "add"} => group_name'[d] # NoName
      BY <2>7, <3>1, <3>3 DEF Announce, Told, TypeOK
    <3> QED
      BY <2>7, <3>2, <3>3, <3>4 DEF Announce, Told, ghostVars, TypeOK
  <2>8. ASSUME NEW c \in Users, UpdateGroup(c)
        PROVE  TypeOK'
    <3> DEFINE g == group_name[c]
               t == task[c]
               row == [groupname    |-> g,
                       groupmembers |-> t.row.groupmembers \cup {t.who},
                       adminlist    |-> IF t.admin THEN t.row.adminlist \cup {t.who}
                                        ELSE t.row.adminlist]
    <3>1. t \in Task /\ t.at = "add" /\ g \in Names
      BY <2>8 DEF UpdateGroup, NewAdmins, TypeOK
    <3>2. t.row \in Row /\ t.who \in Users
      BY <3>1, AddingFields
    <3>3. row \in Row
      BY <3>1, <3>2 DEF Row
    <3>4. groups' = [n \in DOMAIN groups |-> IF n \in RowsOf(g) THEN row ELSE groups[n]]
      BY <2>8 DEF UpdateGroup, NewAdmins
    <3>5. groups' \in Seq(Row)
      <4> HIDE DEF row
      <4>1. DOMAIN groups = 1 .. Len(groups) /\ Len(groups) \in Nat
        BY DEF TypeOK
      <4>2. groups' \in [1 .. Len(groups) -> Row]
        BY <3>3, <3>4, <4>1 DEF TypeOK
      <4> QED
        BY <4>1, <4>2
    <3>6. task' \in [Users -> Task] /\ task' = [task EXCEPT ![c] = Chatting]
      BY <2>8, TasksAreTasks DEF UpdateGroup, NewAdmins, Becomes, TypeOK
    <3> QED
      BY <2>8, <3>5, <3>6, TasksAreTasks DEF UpdateGroup, NewAdmins, ghostVars, TypeOK
  <2>9. ASSUME NEW c \in Users, NEW to \in SUBSET Users, AnnouncePartly(c, to)
        PROVE  TypeOK'
    <3>1. task[c] \in Task /\ task[c].at = "add" /\ group_name[c] # NoName
      BY <2>9 DEF AnnouncePartly, ToTell, TypeOK
    <3>2. mail' \in [Users -> SUBSET Announcement]
      BY <2>9, <3>1, AddingFields, TellKeepsType DEF AnnouncePartly
    <3>3. disturbed' \subseteq Names
      BY <2>9, <3>1 DEF AnnouncePartly, TypeOK
    <3>4. Leaves(c) /\ Given /\ UNCHANGED << groups, belonged >>
      BY <2>9 DEF AnnouncePartly
    <3> QED
      BY <2>0, <3>2, <3>3, <3>4, LeavesKeepsTypes DEF TypeOK
  <2>10. ASSUME NEW c \in Users, NEW v \in Users, DeleteMember(c, v)
         PROVE  TypeOK'
    <3>1. group_name[c] # NoName /\ commands \in 0 .. MaxCommands
      BY <2>10 DEF DeleteMember, MayManage, TypeOK
    <3>2. mail' \in [Users -> SUBSET Announcement]
      BY <2>10, <3>1, TellKeepsType DEF DeleteMember
    <3>3. Leaves(c) /\ Given /\ UNCHANGED << groups, ghostVars >>
      BY <2>10 DEF DeleteMember
    <3> QED
      BY <2>0, <3>2, <3>3, LeavesKeepsTypes DEF TypeOK, ghostVars
  <2>11. ASSUME NEW c \in Users, NEW a \in mail[c], ReceiveMessage(c, a)
         PROVE  TypeOK'
    <3>1. a.who \in Users
      BY DEF TypeOK, Announcement
    <3>2. receivers' \in [Users -> SUBSET Users]
      BY <2>11, <3>1 DEF ReceiveMessage, TypeOK
    <3>3. mail' \in [Users -> SUBSET Announcement]
      BY <2>11 DEF ReceiveMessage, TypeOK
    <3> QED
      BY <2>11, <3>2, <3>3 DEF ReceiveMessage, ghostVars, TypeOK
  <2>12. ASSUME NEW c \in Users, NEW a \in mail[c], StoreMessage(c, a)
         PROVE  TypeOK'
    <3>1. mail' \in [Users -> SUBSET Announcement]
      BY <2>12 DEF StoreMessage, TypeOK
    <3> QED
      BY <2>12, <3>1 DEF StoreMessage, clientVars, ghostVars, TypeOK
  <2>13. ASSUME NEW c \in Users, Exit(c)
         PROVE  TypeOK'
    <3>1. disturbed' \subseteq Names
      BY <2>13 DEF Exit, TypeOK
    <3>2. Leaves(c) /\ Given /\ UNCHANGED << groups, mail, belonged >>
      BY <2>13 DEF Exit
    <3> QED
      BY <2>0, <3>1, <3>2, LeavesKeepsTypes DEF TypeOK
  <2>14. ASSUME NEW c \in Users, Start(c)
         PROVE  TypeOK'
    <3>1. task' \in [Users -> Task] /\ task' = [task EXCEPT ![c] = Choosing]
      BY <2>14, TasksAreTasks DEF Start, Becomes, TypeOK
    <3> QED
      BY <2>0, <2>14, <3>1, TasksAreTasks DEF Start, ghostVars, TypeOK
  <2>15. CASE UNCHANGED vars
    BY <2>15 DEF vars, clientVars, ghostVars, TypeOK
  <2> QED
    BY <2>1, <2>2, <2>3, <2>4, <2>5, <2>6, <2>7, <2>8, <2>9, <2>10, <2>11,
       <2>12, <2>13, <2>14, <2>15 DEF Next, Command, ClientStep
<1> QED
  BY <1>1, <1>2, PTL DEF Spec

-----------------------------------------------------------------------------

(***************************************************************************)
(* The inductive invariant for ReceiversBelong.  The receivers of a client *)
(* come from a row, from a task or from an announcement, so all of those   *)
(* name only users who belonged to the group; and a client begins a chat   *)
(* with no receivers left of the chat before.                              *)
(***************************************************************************)
RowsBelong ==
    \A n \in DOMAIN groups : groups[n].groupmembers \subseteq belonged[groups[n].groupname]

MailBelongs ==
    \A u \in Users : \A a \in mail[u] : a.kind = "added" => a.who \in belonged[a.group]

ClientBelongs(c) ==
    /\ \A g \in Names : InGroup(c, g) => receivers[c] \subseteq belonged[g]
    /\ task[c].at = "add" => /\ inAGroup[c]
                             /\ task[c].who \in belonged[group_name[c]]
                             /\ task[c].row.groupmembers \subseteq belonged[group_name[c]]
    /\ task[c].at \in {"choose", "create", "ended"} => receivers[c] = {}

BelongInv ==
    RowsBelong /\ MailBelongs /\ \A c \in Users : ClientBelongs(c)

BelongedGrows == \A g \in Names : belonged[g] \subseteq belonged'[g]

LEMMA IdleClientBelongs ==
    ASSUME TypeOK, NEW d \in Users, ClientBelongs(d), BelongedGrows,
           task'[d] = task[d], group_name'[d] = group_name[d],
           inAGroup'[d] = inAGroup[d], receivers'[d] = receivers[d]
    PROVE  ClientBelongs(d)'
<1>1. task[d].at = "add" => group_name[d] \in Names
  BY DEF TypeOK
<1> QED
  BY <1>1 DEF ClientBelongs, InGroup, BelongedGrows

LEMMA KeptRowsBelong ==
    ASSUME TypeOK, RowsBelong, BelongedGrows, groups' = groups
    PROVE  RowsBelong'
<1>1. ASSUME NEW n \in DOMAIN groups PROVE groups[n].groupname \in Names
  <2>1. groups[n] \in Row
    BY DEF TypeOK
  <2> QED
    BY <2>1 DEF Row
<1> QED
  BY <1>1 DEF RowsBelong, BelongedGrows

LEMMA KeptMailBelongs ==
    ASSUME TypeOK, MailBelongs, BelongedGrows, \A u \in Users : mail'[u] \subseteq mail[u]
    PROVE  MailBelongs'
<1>1. ASSUME NEW u \in Users, NEW a \in mail[u] PROVE a.group \in Names
  BY DEF TypeOK, Announcement
<1> QED
  BY <1>1 DEF MailBelongs, BelongedGrows

\* A message about a user who belongs to the group, or about no addition.
LEMMA ToldMailBelongs ==
    ASSUME TypeOK, MailBelongs, belonged' = belonged, NEW c \in Users, NEW id,
           NEW kind, NEW v, NEW to, Tell(c, id, kind, v, to),
           kind = "added" => v \in belonged[group_name[c]]
    PROVE  MailBelongs'
<1> DEFINE a == [id |-> id, kind |-> kind, group |-> group_name[c], who |-> v]
<1>1. a.kind = "added" => a.who \in belonged[a.group]
  OBVIOUS
<1>2. mail' = [u \in Users |-> IF u \in to THEN mail[u] \cup {a} ELSE mail[u]]
  BY DEF Tell
<1> HIDE DEF a
<1> QED
  BY <1>1, <1>2 DEF MailBelongs

LEMMA LeavesBelongs ==
    ASSUME TypeOK, \A d \in Users : ClientBelongs(d), belonged' = belonged,
           NEW c \in Users, Leaves(c)
    PROVE  \A d \in Users : ClientBelongs(d)'
<1>1. task' = [task EXCEPT ![c] = Ended]
  BY DEF Leaves, Becomes
<1>2. ClientBelongs(c)'
  BY <1>1, TasksAreTasks DEF ClientBelongs, InGroup, Leaves, TypeOK
<1>3. ASSUME NEW d \in Users, d # c PROVE ClientBelongs(d)'
  BY <1>1, <1>3, IdleClientBelongs DEF Leaves, TypeOK, BelongedGrows
<1> QED
  BY <1>2, <1>3

LEMMA BelongAlways == Spec => []BelongInv
<1>1. Init => BelongInv
  BY TasksAreTasks DEF Init, BelongInv, RowsBelong, MailBelongs, ClientBelongs, InGroup
<1>2. TypeOK /\ BelongInv /\ [Next]_vars => BelongInv'
  <2> SUFFICES ASSUME TypeOK, BelongInv, [Next]_vars
               PROVE  BelongInv'
    OBVIOUS
  <2> USE DEF BelongInv
  <2>1. ASSUME NEW c \in Users, NEW g \in Names, OpenGroup(c, g)
        PROVE  BelongInv'
    <3>1. BelongedGrows
      BY <2>1 DEF OpenGroup, Opened, BelongedGrows
    <3>2. RowsBelong' /\ MailBelongs'
      BY <2>1, <3>1, KeptRowsBelong, KeptMailBelongs DEF OpenGroup, Opened
    <3>3. task' = [task EXCEPT ![c] = Chatting]
      BY <2>1 DEF OpenGroup, Opened, Becomes
    <3>4. ClientBelongs(c)'
      <4>1. PICK n \in RowsOf(g) :
              receivers' = [receivers EXCEPT ![c] = @ \cup (groups[n].groupmembers \ {c})]
        BY <2>1 DEF OpenGroup, Opened
      <4>2. groups[n].groupmembers \subseteq belonged[g]
        BY DEF RowsOf, RowsBelong
      <4>3. receivers[c] = {}
        BY <2>1, TasksAreTasks DEF OpenGroup, Opened, ClientBelongs
      <4>4. receivers'[c] \subseteq belonged'[g] /\ group_name'[c] = g
        BY <2>1, <4>1, <4>2, <4>3 DEF OpenGroup, Opened, TypeOK
      <4> QED
        BY <3>3, <4>4, TasksAreTasks DEF ClientBelongs, InGroup, TypeOK
    <3>5. ASSUME NEW d \in Users, d # c PROVE ClientBelongs(d)'
      BY <2>1, <3>1, <3>3, <3>5, IdleClientBelongs DEF OpenGroup, Opened, TypeOK
    <3> QED
      BY <3>2, <3>4, <3>5
  <2>2. ASSUME NEW c \in Users, NEW g \in Names, BeginCreate(c, g)
        PROVE  BelongInv'
    <3>1. BelongedGrows
      BY <2>2 DEF BeginCreate, BelongedGrows
    <3>2. RowsBelong' /\ MailBelongs'
      BY <2>2, <3>1, KeptRowsBelong, KeptMailBelongs DEF BeginCreate
    <3>3. task' = [task EXCEPT ![c] = Creating]
      BY <2>2 DEF BeginCreate, Becomes
    <3>4. ClientBelongs(c)'
      BY <2>2, <3>3, TasksAreTasks DEF BeginCreate, ClientBelongs, InGroup, TypeOK
    <3>5. ASSUME NEW d \in Users, d # c PROVE ClientBelongs(d)'
      BY <2>2, <3>1, <3>3, <3>5, IdleClientBelongs DEF BeginCreate, TypeOK
    <3> QED
      BY <3>2, <3>4, <3>5
  <2>3. ASSUME NEW c \in Users, NEW others \in SUBSET Users, NEW admins \in SUBSET Users,
               InsertGroup(c, others, admins)
        PROVE  BelongInv'
    <3> DEFINE h == group_name[c]
               row == [groupname    |-> h,
                       groupmembers |-> {c} \cup others,
                       adminlist    |-> {c} \cup admins]
    <3>1. /\ h \in Names
          /\ belonged' = [belonged EXCEPT ![h] = @ \cup {c} \cup others]
          /\ task' = [task EXCEPT ![c] = Chatting]
          /\ groups' = Append(groups, row)
          /\ UNCHANGED << group_name, mail >>
      BY <2>3, TasksAreTasks DEF InsertGroup, Becomes, TypeOK
    <3>2. BelongedGrows /\ {c} \cup others \subseteq belonged'[h]
      BY <3>1 DEF BelongedGrows, TypeOK
    <3>3. MailBelongs'
      BY <3>1, <3>2, KeptMailBelongs
    <3>4. RowsBelong'
      <4>1. row.groupname = h /\ row.groupmembers = {c} \cup others
        OBVIOUS
      <4> HIDE DEF row
      <4>2. /\ DOMAIN groups' = 1 .. Len(groups) + 1
            /\ groups'[Len(groups) + 1] = row
            /\ \A n \in 1 .. Len(groups) : groups'[n] = groups[n]
            /\ DOMAIN groups = 1 .. Len(groups) /\ Len(groups) \in Nat
        BY <3>1 DEF TypeOK
      <4>3. ASSUME NEW n \in DOMAIN groups'
            PROVE  groups'[n].groupmembers \subseteq belonged'[groups'[n].groupname]
        <5>1. CASE n = Len(groups) + 1
          BY <3>2, <4>1, <4>2, <5>1
        <5>2. CASE n \in DOMAIN groups
          <6>1. groups[n] \in Row
            BY <5>2 DEF TypeOK
          <6>2. groups[n].groupname \in Names
            BY <6>1 DEF Row
          <6>3. groups'[n] = groups[n]
            BY <4>2, <5>2
          <6> QED
            BY <3>2, <5>2, <6>2, <6>3 DEF RowsBelong, BelongedGrows
        <5> QED
          BY <4>2, <5>1, <5>2
      <4> QED
        BY <4>3 DEF RowsBelong
    <3>5. ClientBelongs(c)'
      <4>1. receivers[c] = {}
        BY <2>3, TasksAreTasks DEF InsertGroup, ClientBelongs
      <4>2. receivers'[c] = others
        BY <2>3, <4>1 DEF InsertGroup, TypeOK
      <4>3. group_name'[c] = h /\ task'[c] = Chatting
        BY <3>1 DEF TypeOK
      <4> QED
        BY <3>2, <4>2, <4>3, TasksAreTasks DEF ClientBelongs, InGroup
    <3>6. ASSUME NEW d \in Users, d # c PROVE ClientBelongs(d)'
      BY <2>3, <3>1, <3>2, <3>6, IdleClientBelongs DEF InsertGroup, TypeOK
    <3> QED
      BY <3>3, <3>4, <3>5, <3>6
  <2>4. ASSUME NEW c \in Users, NEW v \in Users, OpenDirect(c, v)
        PROVE  BelongInv'
    <3>1. BelongedGrows
      BY <2>4 DEF OpenDirect, BelongedGrows
    <3>2. RowsBelong' /\ MailBelongs'
      BY <2>4, <3>1, KeptRowsBelong, KeptMailBelongs DEF OpenDirect
    <3>3. task' = [task EXCEPT ![c] = Chatting]
      BY <2>4 DEF OpenDirect, Becomes
    <3>4. ClientBelongs(c)'
      BY <2>4, <3>3, TasksAreTasks DEF OpenDirect, ClientBelongs, InGroup, TypeOK
    <3>5. ASSUME NEW d \in Users, d # c PROVE ClientBelongs(d)'
      BY <2>4, <3>1, <3>3, <3>5, IdleClientBelongs DEF OpenDirect, TypeOK
    <3> QED
      BY <3>2, <3>4, <3>5
  <2>5. ASSUME NEW c \in Users, ChangeChat(c)
        PROVE  BelongInv'
    <3>1. BelongedGrows
      BY <2>5 DEF ChangeChat, ghostVars, BelongedGrows
    <3>2. RowsBelong' /\ MailBelongs'
      BY <2>5, <3>1, KeptRowsBelong, KeptMailBelongs DEF ChangeChat
    <3>3. task' = [task EXCEPT ![c] = Choosing]
      BY <2>5 DEF ChangeChat, Becomes
    <3>4. ClientBelongs(c)'
      BY <2>5, <3>3, TasksAreTasks DEF ChangeChat, ClientBelongs, InGroup, TypeOK
    <3>5. ASSUME NEW d \in Users, d # c PROVE ClientBelongs(d)'
      BY <2>5, <3>1, <3>3, <3>5, IdleClientBelongs DEF ChangeChat, TypeOK
    <3> QED
      BY <3>2, <3>4, <3>5
  <2>6. ASSUME NEW c \in Users, NEW v \in Users, NEW admin \in BOOLEAN,
               SelectGroup(c, v, admin)
        PROVE  BelongInv'
    <3> DEFINE h == group_name[c]
    <3>1. /\ h \in Names /\ inAGroup[c] /\ task[c] = Chatting
          /\ belonged' = [belonged EXCEPT ![h] = @ \cup {v}]
          /\ receivers' = [receivers EXCEPT ![c] = @ \cup {v}]
          /\ UNCHANGED << groups, group_name, inAGroup, isAdmin, mail >>
      BY <2>6 DEF SelectGroup, MayManage, TypeOK
    <3>2. BelongedGrows /\ v \in belonged'[h]
      BY <3>1 DEF BelongedGrows, TypeOK
    <3>3. RowsBelong' /\ MailBelongs'
      BY <3>1, <3>2, KeptRowsBelong, KeptMailBelongs
    <3>4. PICK n \in RowsOf(h) :
            task' = [task EXCEPT ![c] = Adding(commands, v, admin, groups[n], FALSE)]
      BY <2>6 DEF SelectGroup, Becomes
    <3>5. ClientBelongs(c)'
      <4>1. groups[n] \in Row /\ groups[n].groupmembers \subseteq belonged[h]
        BY DEF RowsOf, RowsBelong, TypeOK
      <4>2. /\ task'[c].at = "add" /\ task'[c].who = v
            /\ task'[c].row.groupmembers \subseteq belonged'[h]
        BY <3>1, <3>2, <3>4, <4>1, AddingIsTask DEF BelongedGrows, TypeOK, Adding
      <4>3. receivers'[c] \subseteq belonged'[h]
        <5>1. receivers[c] \subseteq belonged[h]
          BY <3>1, TasksAreTasks DEF ClientBelongs, InGroup
        <5> QED
          BY <3>1, <3>2, <5>1 DEF BelongedGrows, TypeOK
      <4> QED
        BY <3>1, <3>2, <4>2, <4>3 DEF ClientBelongs, InGroup
    <3>6. ASSUME NEW d \in Users, d # c PROVE ClientBelongs(d)'
      BY <3>1, <3>2, <3>4, <3>6, IdleClientBelongs DEF TypeOK
    <3> QED
      BY <3>3, <3>5, <3>6
  <2>7. ASSUME NEW c \in Users, Announce(c)
        PROVE  BelongInv'
    <3>1. task[c] \in Task /\ task[c].at = "add"
      BY <2>7 DEF Announce, Told, ToTell, TypeOK
    <3>2. /\ task' = [task EXCEPT ![c] = [task[c] EXCEPT !.announced = TRUE]]
          /\ UNCHANGED << groups, group_name, inAGroup, receivers, belonged >>
          /\ BelongedGrows
      BY <2>7 DEF Announce, Told, ghostVars, BelongedGrows
    <3>3. task[c].who \in belonged[group_name[c]]
      BY <3>1 DEF ClientBelongs
    <3>4. RowsBelong' /\ MailBelongs'
      BY <2>7, <3>2, <3>3, KeptRowsBelong, ToldMailBelongs DEF Announce, Told
    <3>5. ClientBelongs(c)'
      <4>1. /\ task'[c].at = "add" /\ task'[c].who = task[c].who
            /\ task'[c].row = task[c].row
        BY <3>1, <3>2, AddingFields DEF TypeOK
      <4> QED
        BY <3>1, <3>2, <4>1 DEF ClientBelongs, InGroup
    <3>6. ASSUME NEW d \in Users, d # c PROVE ClientBelongs(d)'
      BY <3>2, <3>6, IdleClientBelongs DEF TypeOK
    <3> QED
      BY <3>4, <3>5, <3>6
  <2>8. ASSUME NEW c \in Users, UpdateGroup(c)
        PROVE  BelongInv'
    <3> DEFINE h == group_name[c]
               t == task[c]
               row == [groupname    |-> h,
                       groupmembers |-> t.row.groupmembers \cup {t.who},
                       adminlist    |-> IF t.admin THEN t.row.adminlist \cup {t.who}
                                        ELSE t.row.adminlist]
    <3>1. /\ task' = [task EXCEPT ![c] = Chatting] /\ t.at = "add"
          /\ groups' = [n \in DOMAIN groups |-> IF n \in RowsOf(h) THEN row ELSE groups[n]]
          /\ UNCHANGED << group_name, inAGroup, receivers, mail, belonged >>
          /\ BelongedGrows
      BY <2>8 DEF UpdateGroup, NewAdmins, Becomes, ghostVars, BelongedGrows
    <3>2. row.groupname = h /\ row.groupmembers \subseteq belonged[h]
      BY <3>1 DEF ClientBelongs
    <3>3. RowsBelong'
      <4> HIDE DEF row
      <4> QED
        BY <3>1, <3>2 DEF RowsBelong
    <3>4. MailBelongs'
      BY <3>1, KeptMailBelongs
    <3>5. ClientBelongs(c)'
      <4>1. task'[c] = Chatting
        BY <3>1 DEF TypeOK
      <4> QED
        BY <3>1, <4>1, TasksAreTasks DEF ClientBelongs, InGroup
    <3>6. ASSUME NEW d \in Users, d # c PROVE ClientBelongs(d)'
      BY <3>1, <3>6, IdleClientBelongs DEF TypeOK
    <3> QED
      BY <3>3, <3>4, <3>5, <3>6
  <2>9. ASSUME NEW c \in Users, NEW to \in SUBSET Users, AnnouncePartly(c, to)
        PROVE  BelongInv'
    <3>1. task[c].at = "add" /\ UNCHANGED << groups, belonged >> /\ BelongedGrows
      BY <2>9 DEF AnnouncePartly, ToTell, BelongedGrows
    <3>2. task[c].who \in belonged[group_name[c]]
      BY <3>1 DEF ClientBelongs
    <3>3. RowsBelong' /\ MailBelongs'
      BY <2>9, <3>1, <3>2, KeptRowsBelong, ToldMailBelongs DEF AnnouncePartly
    <3> QED
      BY <2>9, <3>1, <3>3, LeavesBelongs DEF AnnouncePartly
  <2>10. ASSUME NEW c \in Users, NEW v \in Users, DeleteMember(c, v)
         PROVE  BelongInv'
    <3>1. UNCHANGED << groups, belonged >> /\ BelongedGrows
      BY <2>10 DEF DeleteMember, ghostVars, BelongedGrows
    <3>2. RowsBelong' /\ MailBelongs'
      BY <2>10, <3>1, KeptRowsBelong, ToldMailBelongs DEF DeleteMember
    <3> QED
      BY <2>10, <3>1, <3>2, LeavesBelongs DEF DeleteMember
  <2>11. ASSUME NEW c \in Users, NEW a \in mail[c], ReceiveMessage(c, a)
         PROVE  BelongInv'
    <3>1. /\ mail' = [mail EXCEPT ![c] = @ \ {a}]
          /\ receivers' = IF Concerns(c, a)
                          THEN [receivers EXCEPT ![c] = @ \cup {a.who}] ELSE receivers
          /\ UNCHANGED << groups, task, group_name, inAGroup, belonged >>
          /\ task[c] = Chatting
          /\ BelongedGrows
      BY <2>11 DEF ReceiveMessage, ghostVars, BelongedGrows
    <3>2. RowsBelong' /\ MailBelongs'
      <4>1. \A u \in Users : mail'[u] \subseteq mail[u]
        BY <3>1 DEF TypeOK
      <4> QED
        BY <3>1, <4>1, KeptRowsBelong, KeptMailBelongs
    <3>3. ClientBelongs(c)'
      <4>1. ASSUME NEW g \in Names, InGroup(c, g)
            PROVE  receivers'[c] \subseteq belonged[g]
        <5>1. receivers[c] \subseteq belonged[g]
          BY <4>1 DEF ClientBelongs
        <5>2. Concerns(c, a) => a.who \in belonged[g]
          BY <4>1 DEF Concerns, InGroup, MailBelongs
        <5> QED
          BY <3>1, <5>1, <5>2 DEF TypeOK
      <4> QED
        BY <3>1, <4>1, TasksAreTasks DEF ClientBelongs, InGroup
    <3>4. ASSUME NEW d \in Users, d # c PROVE ClientBelongs(d)'
      BY <3>1, <3>4, IdleClientBelongs DEF TypeOK
    <3> QED
      BY <3>2, <3>3, <3>4
  <2>12. ASSUME NEW c \in Users, NEW a \in mail[c], StoreMessage(c, a)
         PROVE  BelongInv'
    <3>1. /\ \A u \in Users : mail'[u] \subseteq mail[u]
          /\ UNCHANGED << groups, task, group_name, inAGroup, receivers, belonged >>
          /\ BelongedGrows
      BY <2>12 DEF StoreMessage, clientVars, ghostVars, BelongedGrows, TypeOK
    <3> QED
      BY <3>1, KeptRowsBelong, KeptMailBelongs, IdleClientBelongs
  <2>13. ASSUME NEW c \in Users, Exit(c)
         PROVE  BelongInv'
    <3>1. UNCHANGED << groups, mail, belonged >> /\ BelongedGrows /\ Leaves(c)
      BY <2>13 DEF Exit, BelongedGrows
    <3> QED
      BY <3>1, KeptRowsBelong, KeptMailBelongs, LeavesBelongs
  <2>14. ASSUME NEW c \in Users, Start(c)
         PROVE  BelongInv'
    <3>1. /\ task' = [task EXCEPT ![c] = Choosing] /\ task[c] = Ended
          /\ UNCHANGED << groups, group_name, inAGroup, receivers, mail, belonged >>
          /\ BelongedGrows
      BY <2>14 DEF Start, Becomes, ghostVars, BelongedGrows
    <3>2. RowsBelong' /\ MailBelongs'
      BY <3>1, KeptRowsBelong, KeptMailBelongs
    <3>3. ClientBelongs(c)'
      <4>1. task'[c] = Choosing
        BY <3>1 DEF TypeOK
      <4> QED
        BY <3>1, <4>1, TasksAreTasks DEF ClientBelongs, InGroup
    <3>4. ASSUME NEW d \in Users, d # c PROVE ClientBelongs(d)'
      BY <3>1, <3>4, IdleClientBelongs DEF TypeOK
    <3> QED
      BY <3>2, <3>3, <3>4
  <2>15. CASE UNCHANGED vars
    <3>1. /\ UNCHANGED << groups, task, group_name, inAGroup, receivers, mail, belonged >>
          /\ BelongedGrows
      BY <2>15 DEF vars, clientVars, ghostVars, BelongedGrows
    <3> QED
      BY <3>1, KeptRowsBelong, KeptMailBelongs, IdleClientBelongs
  <2> QED
    BY <2>1, <2>2, <2>3, <2>4, <2>5, <2>6, <2>7, <2>8, <2>9, <2>10, <2>11,
       <2>12, <2>13, <2>14, <2>15 DEF Next, Command, ClientStep
<1> QED
  BY <1>1, <1>2, TypeCorrect, PTL DEF Spec

(***************************************************************************)
(* What is written in a group goes only to users who belong to it or did.  *)
(***************************************************************************)
THEOREM OnlyToTheGroup == Spec => []ReceiversBelong
<1>1. BelongInv => ReceiversBelong
  BY DEF BelongInv, ClientBelongs, ReceiversBelong
<1> QED
  BY <1>1, BelongAlways, PTL

-----------------------------------------------------------------------------

(***************************************************************************)
(* The inductive invariant for GroupAgrees and AdminsAreAdmins.  In a      *)
(* group that is not disturbed there is one row and at most one addition,  *)
(* the row is the one the addition has selected, and what a client has as  *)
(* its receivers and what it has still to read of make up the members and  *)
(* the user being added, if it has been told of that one.                  *)
(***************************************************************************)

\* The user being added, as far as c has been told.
BeingAdded(c, g) ==
    {v \in Users : \E d \in AddersTo(g) :
        task[d].who = v /\ (d = c \/ task[d].announced)}

\* Whom c has as members, or will have when it has read its messages.
WillKnow(c, g) == receivers[c] \cup {c} \cup {a.who : a \in Additions(c, g)}

OneRow(g)   == \A m, n \in RowsOf(g) : m = n
OneAdder(g) == \A c, d \in AddersTo(g) : c = d
Selected(g) ==
    \A c \in AddersTo(g) :
        /\ \A n \in RowsOf(g) : task[c].row = groups[n]
        /\ ~task[c].announced => Additions(c, g) = {}
AdditionsStand(g) ==
    \A c \in Users : \A a \in Additions(c, g) : \A n \in RowsOf(g) :
        a.who \in groups[n].groupmembers \cup BeingAdded(c, g)
MembersKnown(g) ==
    \A c \in Users : InGroup(c, g) =>
        \A n \in RowsOf(g) : WillKnow(c, g) = groups[n].groupmembers \cup BeingAdded(c, g)

Agrees(g) == OneRow(g) /\ OneAdder(g) /\ Selected(g) /\ AdditionsStand(g) /\ MembersKnown(g)

\* A group that is open or that has been announced exists.
GroupsExist ==
    /\ \A c \in Users : \A g \in Names : InGroup(c, g) => RowsOf(g) # {}
    /\ \A c \in Users : \A a \in mail[c] : a.kind = "added" => RowsOf(a.group) # {}

AgreeInv == GroupsExist /\ \A g \in Names \ disturbed : Agrees(g)

LEMMA SameRows ==
    ASSUME groups' = groups, NEW g \in Names
    PROVE  RowsOf(g)' = RowsOf(g) /\ \A n \in RowsOf(g) : groups'[n] = groups[n]
BY DEF RowsOf

\* A group none of whose parts changes, except that what was on the way to a
\* client becomes a receiver.
LEMMA Untouched ==
    ASSUME NEW g \in Names, Agrees(g),
           RowsOf(g)' = RowsOf(g), \A n \in RowsOf(g) : groups'[n] = groups[n],
           AddersTo(g)' = AddersTo(g), \A d \in AddersTo(g) : task'[d] = task[d],
           \A u \in Users : Additions(u, g)' \subseteq Additions(u, g),
           \A u \in Users : InGroup(u, g)' => /\ InGroup(u, g)
                                              /\ WillKnow(u, g)' = WillKnow(u, g)
    PROVE  Agrees(g)'
<1>1. OneRow(g)' /\ OneAdder(g)'
  BY DEF Agrees, OneRow, OneAdder
<1>2. Selected(g)'
  <2>. SUFFICES ASSUME NEW c \in AddersTo(g)
                PROVE  /\ \A n \in RowsOf(g) : task'[c].row = groups'[n]
                       /\ ~task'[c].announced => Additions(c, g)' = {}
    BY DEF Selected
  <2>1. c \in Users
    BY DEF AddersTo
  <2>. QED  BY <2>1 DEF Agrees, Selected
<1>3. \A u \in Users : BeingAdded(u, g)' = BeingAdded(u, g)
  BY DEF BeingAdded
<1>4. AdditionsStand(g)'
  BY <1>3 DEF Agrees, AdditionsStand
<1>5. MembersKnown(g)'
  BY <1>3 DEF Agrees, MembersKnown
<1>. QED
  BY <1>1, <1>2, <1>4, <1>5 DEF Agrees

\* A step of a client that neither has nor gets the group open.
LEMMA Elsewhere ==
    ASSUME NEW g \in Names, Agrees(g), NEW c \in Users,
           RowsOf(g)' = RowsOf(g), \A n \in RowsOf(g) : groups'[n] = groups[n],
           \A d \in Users \ {c} :
             /\ task'[d] = task[d] /\ group_name'[d] = group_name[d]
             /\ inAGroup'[d] = inAGroup[d] /\ receivers'[d] = receivers[d]
             /\ Additions(d, g)' = Additions(d, g),
           Additions(c, g)' \subseteq Additions(c, g),
           ~(task[c].at = "add" /\ group_name[c] = g),
           ~(task'[c].at = "add" /\ group_name'[c] = g),
           ~InGroup(c, g)'
    PROVE  Agrees(g)'
<1>1. AddersTo(g)' = AddersTo(g) /\ \A d \in AddersTo(g) : d # c
  BY DEF AddersTo
<1>2. \A d \in AddersTo(g) : task'[d] = task[d]
  BY <1>1 DEF AddersTo
<1>3. \A u \in Users : InGroup(u, g)' => InGroup(u, g) /\ WillKnow(u, g)' = WillKnow(u, g)
  BY DEF InGroup, WillKnow
<1>4. \A u \in Users : Additions(u, g)' \subseteq Additions(u, g)
  OBVIOUS
<1>. QED
  BY <1>1, <1>2, <1>3, <1>4, Untouched

\* The same, of a step that leaves the table and the other clients alone.
LEMMA ElsewhereSimple ==
    ASSUME TypeOK, NEW g \in Names, Agrees(g), NEW c \in Users, NEW t,
           groups' = groups, Becomes(c, t),
           \A d \in Users \ {c} :
             /\ group_name'[d] = group_name[d]
             /\ inAGroup'[d] = inAGroup[d] /\ receivers'[d] = receivers[d],
           \A u \in Users : Additions(u, g)' = Additions(u, g),
           ~(task[c].at = "add" /\ group_name[c] = g),
           t.at \notin {"chat", "add"} \/ group_name'[c] # g \/ (t.at = "chat" /\ ~inAGroup'[c])
    PROVE  Agrees(g)'
<1>1. task'[c] = t /\ \A d \in Users \ {c} : task'[d] = task[d]
  BY DEF Becomes, TypeOK
<1>2. ~InGroup(c, g)' /\ ~(task'[c].at = "add" /\ group_name'[c] = g)
  BY <1>1 DEF InGroup
<1>. QED
  BY <1>1, <1>2, SameRows, Elsewhere

LEMMA LeavesElsewhere ==
    ASSUME TypeOK, NEW g \in Names, Agrees(g), NEW c \in Users, groups' = groups, Leaves(c),
           \A u \in Users : Additions(u, g)' = Additions(u, g),
           ~(task[c].at = "add" /\ group_name[c] = g)
    PROVE  Agrees(g)'
<1>1. Becomes(c, Ended) /\ Ended.at = "ended"
  BY TasksAreTasks DEF Leaves
<1>2. \A d \in Users \ {c} :
        /\ group_name'[d] = group_name[d]
        /\ inAGroup'[d] = inAGroup[d] /\ receivers'[d] = receivers[d]
  BY DEF Leaves, TypeOK
<1>. QED
  BY <1>1, <1>2, ElsewhereSimple

\* An announcement in another group, or that is none of an addition, is not one
\* of an addition to g.
LEMMA ToldElsewhere ==
    ASSUME TypeOK, NEW c \in Users, NEW id, NEW kind, NEW v, NEW to, NEW g \in Names,
           Tell(c, id, kind, v, to), kind # "added" \/ group_name[c] # g
    PROVE  \A u \in Users : Additions(u, g)' = Additions(u, g)
<1>. DEFINE a == [id |-> id, kind |-> kind, group |-> group_name[c], who |-> v]
<1>1. ~(a.kind = "added" /\ a.group = g)
  OBVIOUS
<1>2. mail' = [u \in Users |-> IF u \in to THEN mail[u] \cup {a} ELSE mail[u]]
  BY DEF Tell
<1>. HIDE DEF a
<1>. QED
  BY <1>1, <1>2 DEF Additions

-----------------------------------------------------------------------------
(* One lemma for each action that changes a group. *)

LEMMA OpenGroupAgrees ==
    ASSUME TypeOK, BelongInv, AgreeInv, NEW c \in Users, NEW h \in Names, OpenGroup(c, h),
           NEW g \in Names \ disturbed'
    PROVE  Agrees(g)'
<1>1. g \notin disturbed /\ Agrees(g)
  BY DEF AgreeInv, OpenGroup
<1>2. Becomes(c, Chatting) /\ task[c] = Choosing
  BY DEF OpenGroup
<1>3. \A u \in Users : Additions(u, g)' = Additions(u, g)
  BY DEF OpenGroup, Additions
<1>4. groups' = groups /\ group_name' = [group_name EXCEPT ![c] = h]
  BY DEF OpenGroup, Opened
<1>5. CASE g # h
  <2>1. \A d \in Users \ {c} :
          /\ group_name'[d] = group_name[d]
          /\ inAGroup'[d] = inAGroup[d] /\ receivers'[d] = receivers[d]
    BY DEF OpenGroup, Opened, TypeOK
  <2>2. group_name'[c] # g
    BY <1>4, <1>5 DEF TypeOK
  <2>. QED
    BY <1>1, <1>2, <1>3, <1>4, <2>1, <2>2, TasksAreTasks, ElsewhereSimple
<1>6. CASE g = h
  <2>1. AddersTo(g) = {}
    BY <1>6 DEF OpenGroup
  <2>2. task'[c] = Chatting /\ \A d \in Users \ {c} : task'[d] = task[d]
    BY <1>2 DEF Becomes, TypeOK
  <2>3. group_name'[c] = g /\ \A d \in Users \ {c} : group_name'[d] = group_name[d]
    BY <1>4, <1>6 DEF TypeOK
  <2>4. AddersTo(g)' = {}
    BY <2>1, <2>2, <2>3, TasksAreTasks DEF AddersTo
  <2>5. \A u \in Users : BeingAdded(u, g) = {} /\ BeingAdded(u, g)' = {}
    BY <2>1, <2>4 DEF BeingAdded
  <2>6. RowsOf(g)' = RowsOf(g)
    BY <1>4, SameRows
  <2>7. OneRow(g)' /\ OneAdder(g)' /\ Selected(g)'
    BY <1>1, <2>4, <2>6 DEF Agrees, OneRow, OneAdder, Selected
  <2>8. AdditionsStand(g)'
    BY <1>1, <1>3, <1>4, <2>5, <2>6 DEF Agrees, AdditionsStand
  <2>9. ASSUME NEW d \in Users, InGroup(d, g)', NEW n \in RowsOf(g)
        PROVE  WillKnow(d, g)' = groups[n].groupmembers
    <3>1. CASE d = c
      <4>1. PICK k \in RowsOf(g) :
              /\ c \in groups[k].groupmembers
              /\ receivers' = [receivers EXCEPT ![c] = @ \cup (groups[k].groupmembers \ {c})]
        BY <1>6 DEF OpenGroup
      <4>2. k = n
        BY <1>1 DEF Agrees, OneRow
      <4>3. receivers[c] = {}
        BY <1>2, TasksAreTasks DEF BelongInv, ClientBelongs
      <4>4. receivers'[c] = groups[n].groupmembers \ {c}
        BY <4>1, <4>2, <4>3 DEF TypeOK
      <4>5. \A a \in Additions(c, g) : a.who \in groups[n].groupmembers
        BY <1>1, <2>5 DEF Agrees, AdditionsStand
      <4>. QED
        BY <1>3, <3>1, <4>1, <4>2, <4>4, <4>5 DEF WillKnow
    <3>2. CASE d # c
      <4>1. InGroup(d, g)
        BY <2>2, <2>3, <2>9, <3>2 DEF InGroup, OpenGroup, TypeOK
      <4>2. receivers'[d] = receivers[d]
        BY <3>2 DEF OpenGroup, TypeOK
      <4>3. WillKnow(d, g)' = WillKnow(d, g)
        BY <1>3, <4>2 DEF WillKnow
      <4>4. WillKnow(d, g) = groups[n].groupmembers \cup BeingAdded(d, g)
        BY <1>1, <4>1 DEF Agrees, MembersKnown
      <4>. QED
        BY <2>5, <4>3, <4>4
    <3>. QED
      BY <3>1, <3>2
  <2>10. MembersKnown(g)'
    BY <1>4, <2>5, <2>6, <2>9 DEF MembersKnown
  <2>. QED
    BY <2>7, <2>8, <2>10 DEF Agrees
<1>. QED
  BY <1>5, <1>6

LEMMA InsertGroupAgrees ==
    ASSUME TypeOK, BelongInv, AgreeInv, NEW c \in Users,
           NEW others \in SUBSET Users, NEW admins \in SUBSET Users,
           InsertGroup(c, others, admins), NEW g \in Names \ disturbed'
    PROVE  Agrees(g)'
<1>. DEFINE h == group_name[c]
            row == [groupname |-> h, groupmembers |-> {c} \cup others,
                    adminlist |-> {c} \cup admins]
<1>1. g \notin disturbed /\ Agrees(g)
  BY DEF AgreeInv, InsertGroup
<1>2. task[c] = Creating /\ task'[c] = Chatting /\ \A d \in Users \ {c} : task'[d] = task[d]
  BY DEF InsertGroup, Becomes, TypeOK
<1>3. \A u \in Users : Additions(u, g)' = Additions(u, g)
  BY DEF InsertGroup, Additions
<1>4. group_name' = group_name /\ groups' = Append(groups, row)
  BY DEF InsertGroup
<1>5. \A d \in Users \ {c} : inAGroup'[d] = inAGroup[d] /\ receivers'[d] = receivers[d]
  BY DEF InsertGroup, TypeOK
<1>6. /\ DOMAIN groups' = 1 .. Len(groups) + 1
      /\ groups'[Len(groups) + 1] = row
      /\ \A n \in 1 .. Len(groups) : groups'[n] = groups[n]
      /\ DOMAIN groups = 1 .. Len(groups) /\ Len(groups) \in Nat
  <2>1. h \in Names
    BY <1>2, TasksAreTasks DEF TypeOK
  <2>2. row \in Row
    BY <2>1 DEF Row
  <2>. HIDE DEF row
  <2>. QED
    BY <1>4, <2>2 DEF TypeOK
<1>7. row.groupname = h /\ row.groupmembers = {c} \cup others
  OBVIOUS
<1>. HIDE DEF row
<1>8. CASE g # h
  <2>1. RowsOf(g)' = RowsOf(g) /\ \A n \in RowsOf(g) : groups'[n] = groups[n]
    BY <1>6, <1>7, <1>8 DEF RowsOf
  <2>2. ~InGroup(c, g)' /\ ~(task[c].at = "add") /\ ~(task'[c].at = "add")
    BY <1>2, <1>4, <1>8, TasksAreTasks DEF InGroup
  <2>. QED
    BY <1>1, <1>2, <1>3, <1>4, <1>5, <2>1, <2>2, Elsewhere
<1>9. CASE g = h
  <2>1. RowsOf(g) = {}
    BY <1>1, <1>9 DEF InsertGroup
  <2>2. RowsOf(g)' = {Len(groups) + 1}
    BY <1>6, <1>7, <1>9, <2>1 DEF RowsOf
  <2>3. \A d \in Users : ~InGroup(d, g) /\ Additions(d, g) = {}
    BY <2>1 DEF AgreeInv, GroupsExist, Additions
  <2>4. AddersTo(g)' = {}
    <3>1. ASSUME NEW d \in Users, task[d].at = "add", group_name[d] = g PROVE FALSE
      BY <2>3, <3>1 DEF InGroup, BelongInv, ClientBelongs
    <3>. QED
      BY <1>2, <1>4, <3>1, TasksAreTasks DEF AddersTo
  <2>5. OneRow(g)' /\ OneAdder(g)' /\ Selected(g)' /\ AdditionsStand(g)'
    BY <1>3, <2>2, <2>3, <2>4 DEF OneRow, OneAdder, Selected, AdditionsStand
  <2>6. receivers'[c] = others
    <3>1. receivers[c] = {}
      BY <1>2, TasksAreTasks DEF BelongInv, ClientBelongs
    <3>. QED
      BY <3>1 DEF InsertGroup, TypeOK
  <2>7. \A d \in Users : BeingAdded(d, g)' = {}
    BY <2>4 DEF BeingAdded
  <2>8. ASSUME NEW d \in Users, InGroup(d, g)'
        PROVE  WillKnow(d, g)' = {c} \cup others
    <3>1. d = c
      BY <1>2, <1>4, <1>5, <2>3, <2>8 DEF InGroup
    <3>. QED
      BY <1>3, <2>3, <2>6, <3>1 DEF WillKnow
  <2>9. MembersKnown(g)'
    BY <1>6, <1>7, <2>2, <2>7, <2>8 DEF MembersKnown
  <2>. QED
    BY <2>5, <2>9 DEF Agrees
<1>. QED
  BY <1>8, <1>9

LEMMA SelectGroupAgrees ==
    ASSUME TypeOK, BelongInv, AgreeInv, NEW c \in Users, NEW v \in Users,
           NEW admin \in BOOLEAN, SelectGroup(c, v, admin), NEW g \in Names \ disturbed'
    PROVE  Agrees(g)'
<1>. DEFINE h == group_name[c]
<1>1. g \notin disturbed /\ Agrees(g)
  BY DEF AgreeInv, SelectGroup
<1>2. PICK n \in RowsOf(h) : Becomes(c, Adding(commands, v, admin, groups[n], FALSE))
  BY DEF SelectGroup
<1>. DEFINE t == Adding(commands, v, admin, groups[n], FALSE)
<1>3. t.at = "add" /\ t.who = v /\ t.row = groups[n] /\ ~t.announced
  BY DEF Adding
<1>. HIDE DEF t
<1>4. task[c] = Chatting /\ task'[c] = t /\ \A d \in Users \ {c} : task'[d] = task[d]
  BY <1>2 DEF SelectGroup, MayManage, Becomes, TypeOK, t
<1>5. UNCHANGED << groups, group_name, inAGroup, mail >> /\ inAGroup[c]
  BY DEF SelectGroup, MayManage
<1>6. \A u \in Users : Additions(u, g)' = Additions(u, g)
  BY <1>5 DEF Additions
<1>7. receivers' = [receivers EXCEPT ![c] = @ \cup {v}]
  BY DEF SelectGroup
<1>8. RowsOf(g)' = RowsOf(g)
  BY <1>5, SameRows
<1>9. CASE g # h
  BY <1>1, <1>2, <1>4, <1>5, <1>6, <1>7, <1>9, TasksAreTasks, ElsewhereSimple
     DEF TypeOK
<1>10. CASE g = h
  <2>1. AddersTo(g) = {} /\ Additions(c, g) = {}
    BY <1>10 DEF SelectGroup
  <2>2. AddersTo(g)' = {c}
    BY <1>3, <1>4, <1>5, <1>10, <2>1 DEF AddersTo
  <2>3. OneRow(g)' /\ OneAdder(g)'
    BY <1>1, <1>8, <2>2 DEF Agrees, OneRow, OneAdder
  <2>4. Selected(g)'
    BY <1>1, <1>3, <1>4, <1>5, <1>6, <1>8, <1>10, <2>1, <2>2 DEF Agrees, OneRow, Selected
  <2>5. \A d \in Users : BeingAdded(d, g) = {}
    BY <2>1 DEF BeingAdded
  <2>6. BeingAdded(c, g)' = {v} /\ \A d \in Users \ {c} : BeingAdded(d, g)' = {}
    BY <1>3, <1>4, <2>2 DEF BeingAdded
  <2>7. AdditionsStand(g)'
    BY <1>1, <1>5, <1>6, <1>8, <2>5 DEF Agrees, AdditionsStand
  <2>8. ASSUME NEW d \in Users, InGroup(d, g)', NEW k \in RowsOf(g)
        PROVE  WillKnow(d, g)' = groups[k].groupmembers \cup BeingAdded(d, g)'
    <3>1. InGroup(d, g)
      BY <1>4, <1>5, <1>10, <2>8, TasksAreTasks DEF InGroup
    <3>2. WillKnow(d, g) = groups[k].groupmembers
      BY <1>1, <2>5, <3>1 DEF Agrees, MembersKnown
    <3>3. WillKnow(d, g)' = WillKnow(d, g) \cup BeingAdded(d, g)'
      <4>1. CASE d = c
        BY <1>6, <1>7, <2>6, <4>1 DEF WillKnow, TypeOK
      <4>2. CASE d # c
        BY <1>6, <1>7, <2>6, <4>2 DEF WillKnow, TypeOK
      <4>. QED
        BY <4>1, <4>2
    <3>. QED
      BY <3>2, <3>3
  <2>9. MembersKnown(g)'
    BY <1>5, <1>8, <2>8 DEF MembersKnown
  <2>. QED
    BY <2>3, <2>4, <2>7, <2>9 DEF Agrees
<1>. QED
  BY <1>9, <1>10

LEMMA AnnounceAgrees ==
    ASSUME TypeOK, BelongInv, AgreeInv, NEW c \in Users, Announce(c),
           NEW g \in Names \ disturbed'
    PROVE  Agrees(g)'
<1>. DEFINE h == group_name[c]
            v == task[c].who
            a == [id |-> task[c].id, kind |-> "added", group |-> h, who |-> v]
<1>1. g \notin disturbed /\ Agrees(g)
  BY DEF AgreeInv, Announce, ghostVars
<1>2. task[c] \in Task /\ task[c].at = "add" /\ ~task[c].announced
  BY DEF Announce, ToTell, TypeOK
<1>3. /\ task'[c] = [task[c] EXCEPT !.announced = TRUE]
      /\ \A d \in Users \ {c} : task'[d] = task[d]
  BY DEF Announce, TypeOK
<1>4. /\ task'[c].at = "add" /\ task'[c].who = v /\ task'[c].row = task[c].row
      /\ task'[c].announced /\ v \in Users
  <2>1. [task[c] EXCEPT !.announced = TRUE].announced
    BY <1>2 DEF Task, Ended, Choosing, Chatting, Creating
  <2>. QED
    BY <1>2, <1>3, <2>1, AddingFields
<1>5. UNCHANGED << groups, group_name, inAGroup, receivers >>
  BY DEF Announce
<1>6. Tell(c, task[c].id, "added", v, receivers[c])
  BY DEF Announce, Told
<1>7. RowsOf(g)' = RowsOf(g)
  BY <1>5, SameRows
<1>8. AddersTo(g)' = AddersTo(g)
  BY <1>2, <1>3, <1>4, <1>5 DEF AddersTo
<1>9. CASE g # h
  <2>1. \A u \in Users : Additions(u, g)' = Additions(u, g)
    BY <1>6, <1>9, ToldElsewhere
  <2>2. \A d \in AddersTo(g) : task'[d] = task[d]
    BY <1>3, <1>9 DEF AddersTo
  <2>3. \A u \in Users : InGroup(u, g)' => InGroup(u, g) /\ WillKnow(u, g)' = WillKnow(u, g)
    BY <1>2, <1>3, <1>5, <2>1 DEF InGroup, WillKnow
  <2>. QED
    BY <1>1, <1>5, <1>7, <1>8, <2>1, <2>2, <2>3, Untouched
<1>10. CASE g = h
  <2>1. c \in AddersTo(g) /\ \A d \in AddersTo(g) : d = c
    BY <1>1, <1>2, <1>10 DEF AddersTo, Agrees, OneAdder
  <2>2. Additions(c, g) = {}
    BY <1>1, <1>2, <2>1 DEF Agrees, Selected
  <2>3. \A u \in Users : Additions(u, g)' =
          IF u \in receivers[c] THEN Additions(u, g) \cup {a} ELSE Additions(u, g)
    <3>1. a.kind = "added" /\ a.group = g
      BY <1>10
    <3>2. mail' = [u \in Users |-> IF u \in receivers[c] THEN mail[u] \cup {a} ELSE mail[u]]
      BY <1>6 DEF Tell
    <3>. HIDE DEF a
    <3>. QED
      BY <3>1, <3>2 DEF Additions
  <2>4. a.who = v
    OBVIOUS
  <2>. HIDE DEF a
  <2>5. OneRow(g)' /\ OneAdder(g)'
    BY <1>1, <1>7, <1>8 DEF Agrees, OneRow, OneAdder
  <2>6. Selected(g)'
    BY <1>1, <1>4, <1>5, <1>7, <1>8, <2>1 DEF Agrees, Selected
  <2>7. BeingAdded(c, g) = {v} /\ \A d \in Users \ {c} : BeingAdded(d, g) = {}
    BY <1>2, <1>4, <2>1 DEF BeingAdded
  <2>8. \A d \in Users : BeingAdded(d, g)' = {v}
    BY <1>4, <1>8, <2>1 DEF BeingAdded
  <2>9. AdditionsStand(g)'
    BY <1>1, <1>5, <1>7, <2>3, <2>4, <2>7, <2>8 DEF Agrees, AdditionsStand
  <2>10. ASSUME NEW d \in Users, InGroup(d, g)', NEW k \in RowsOf(g)
         PROVE  WillKnow(d, g)' = groups[k].groupmembers \cup {v}
    <3>1. InGroup(d, g)
      BY <1>2, <1>3, <1>5, <2>10 DEF InGroup
    <3>2. WillKnow(d, g) = groups[k].groupmembers \cup BeingAdded(d, g)
      BY <1>1, <3>1 DEF Agrees, MembersKnown
    <3>3. CASE d = c
      <4>1. WillKnow(d, g)' = WillKnow(d, g) \cup (IF c \in receivers[c] THEN {v} ELSE {})
        BY <1>5, <2>3, <2>4, <3>3 DEF WillKnow
      <4>. QED
        BY <2>7, <3>2, <3>3, <4>1
    <3>4. CASE d # c
      <4>1. d \in groups[k].groupmembers
        BY <2>7, <3>2, <3>4 DEF WillKnow
      <4>2. WillKnow(c, g) = groups[k].groupmembers \cup {v}
        <5>1. InGroup(c, g)
          BY <1>2, <1>10 DEF InGroup, BelongInv, ClientBelongs
        <5>. QED
          BY <1>1, <2>7, <5>1 DEF Agrees, MembersKnown
      <4>3. d \in receivers[c]
        BY <2>2, <3>4, <4>1, <4>2 DEF WillKnow
      <4>4. WillKnow(d, g)' = WillKnow(d, g) \cup {v}
        BY <1>5, <2>3, <2>4, <4>3 DEF WillKnow
      <4>. QED
        BY <2>7, <3>2, <3>4, <4>4
    <3>. QED
      BY <3>3, <3>4
  <2>11. MembersKnown(g)'
    BY <1>5, <1>7, <2>8, <2>10 DEF MembersKnown
  <2>. QED
    BY <2>5, <2>6, <2>9, <2>11 DEF Agrees
<1>. QED
  BY <1>9, <1>10

LEMMA UpdateGroupAgrees ==
    ASSUME TypeOK, BelongInv, AgreeInv, NEW c \in Users, UpdateGroup(c),
           NEW g \in Names \ disturbed'
    PROVE  Agrees(g)'
<1>. DEFINE h == group_name[c]
            v == task[c].who
            row == [groupname    |-> h,
                    groupmembers |-> task[c].row.groupmembers \cup {v},
                    adminlist    |-> NewAdmins(c)]
<1>1. g \notin disturbed /\ Agrees(g)
  BY DEF AgreeInv, UpdateGroup, ghostVars
<1>2. task[c].at = "add" /\ task[c].announced /\ task[c] \in Task
  BY DEF UpdateGroup, TypeOK
<1>3. task'[c] = Chatting /\ \A d \in Users \ {c} : task'[d] = task[d]
  BY DEF UpdateGroup, Becomes, TypeOK
<1>4. UNCHANGED << group_name, inAGroup, receivers, mail >>
  BY DEF UpdateGroup
<1>5. \A u \in Users : Additions(u, g)' = Additions(u, g)
  BY <1>4 DEF Additions
<1>6. groups' = [n \in DOMAIN groups |-> IF n \in RowsOf(h) THEN row ELSE groups[n]]
  BY DEF UpdateGroup
<1>7. row.groupname = h /\ row.groupmembers = task[c].row.groupmembers \cup {v}
  OBVIOUS
<1>8. v \in Users
  BY <1>2, AddingFields
<1>. HIDE DEF row
<1>9. RowsOf(g)' = RowsOf(g)
  BY <1>6, <1>7 DEF RowsOf
<1>10. CASE g # h
  <2>1. \A n \in RowsOf(g) : groups'[n] = groups[n]
    BY <1>6, <1>10 DEF RowsOf
  <2>2. ~InGroup(c, g)' /\ task'[c].at # "add"
    BY <1>3, <1>4, <1>10, TasksAreTasks DEF InGroup
  <2>. QED
    BY <1>1, <1>3, <1>4, <1>5, <1>9, <1>10, <2>1, <2>2, Elsewhere
<1>11. CASE g = h
  <2>1. c \in AddersTo(g) /\ \A d \in AddersTo(g) : d = c
    BY <1>1, <1>2, <1>11 DEF AddersTo, Agrees, OneAdder
  <2>2. AddersTo(g)' = {}
    BY <1>3, <1>4, <2>1, TasksAreTasks DEF AddersTo
  <2>3. \A d \in Users : BeingAdded(d, g) = {v} /\ BeingAdded(d, g)' = {}
    BY <1>2, <1>8, <2>1, <2>2 DEF BeingAdded
  <2>4. \A n \in RowsOf(g) : groups'[n].groupmembers = groups[n].groupmembers \cup {v}
    BY <1>1, <1>6, <1>7, <1>11, <2>1 DEF Agrees, Selected, RowsOf
  <2>5. OneRow(g)' /\ OneAdder(g)' /\ Selected(g)'
    BY <1>1, <1>9, <2>2 DEF Agrees, OneRow, OneAdder, Selected
  <2>6. AdditionsStand(g)'
    BY <1>1, <1>5, <1>9, <2>3, <2>4 DEF Agrees, AdditionsStand
  <2>7. \A d \in Users : InGroup(d, g)' => InGroup(d, g) /\ WillKnow(d, g)' = WillKnow(d, g)
    BY <1>2, <1>3, <1>4, <1>5, TasksAreTasks DEF InGroup, WillKnow
  <2>8. MembersKnown(g)'
    BY <1>1, <1>9, <2>3, <2>4, <2>7 DEF Agrees, MembersKnown
  <2>. QED
    BY <2>5, <2>6, <2>8 DEF Agrees
<1>. QED
  BY <1>10, <1>11

LEMMA ReceiveAgrees ==
    ASSUME TypeOK, AgreeInv, NEW c \in Users, NEW a \in mail[c], ReceiveMessage(c, a),
           NEW g \in Names \ disturbed'
    PROVE  Agrees(g)'
<1>1. g \notin disturbed /\ Agrees(g)
  BY DEF AgreeInv, ReceiveMessage, ghostVars
<1>2. UNCHANGED << groups, task, group_name, inAGroup >>
  BY DEF ReceiveMessage
<1>3. mail'[c] = mail[c] \ {a} /\ \A u \in Users \ {c} : mail'[u] = mail[u]
  BY DEF ReceiveMessage, TypeOK
<1>4. \A u \in Users \ {c} : receivers'[u] = receivers[u]
  BY DEF ReceiveMessage, TypeOK
<1>5. receivers'[c] = IF Concerns(c, a) THEN receivers[c] \cup {a.who} ELSE receivers[c]
  BY DEF ReceiveMessage, TypeOK
<1>6. \A u \in Users : Additions(u, g)' \subseteq Additions(u, g)
  BY <1>3 DEF Additions
<1>7. AddersTo(g)' = AddersTo(g)
  BY <1>2 DEF AddersTo
<1>8. ASSUME NEW u \in Users, InGroup(u, g)'
      PROVE  InGroup(u, g) /\ WillKnow(u, g)' = WillKnow(u, g)
  <2>1. InGroup(u, g)
    BY <1>2, <1>8 DEF InGroup
  <2>2. CASE u # c
    BY <1>3, <1>4, <2>1, <2>2 DEF WillKnow, Additions
  <2>3. CASE u = c
    <3>1. CASE a \in Additions(c, g)
      <4>1. Concerns(c, a)
        BY <2>1, <2>3, <3>1 DEF Concerns, InGroup, Additions
      <4>2. Additions(c, g)' = Additions(c, g) \ {a}
        BY <1>3 DEF Additions
      <4>. QED
        BY <1>5, <2>1, <2>3, <3>1, <4>1, <4>2 DEF WillKnow
    <3>2. CASE a \notin Additions(c, g)
      <4>1. ~Concerns(c, a)
        BY <2>1, <2>3, <3>2 DEF Concerns, InGroup, Additions
      <4>2. Additions(c, g)' = Additions(c, g)
        BY <1>3, <3>2 DEF Additions
      <4>. QED
        BY <1>5, <2>1, <2>3, <4>1, <4>2 DEF WillKnow
    <3>. QED
      BY <3>1, <3>2
  <2>. QED
    BY <2>2, <2>3
<1>. QED
  BY <1>1, <1>2, <1>6, <1>7, <1>8, SameRows, Untouched

-----------------------------------------------------------------------------

\* The step of any other action.
LEMMA OthersAgree ==
    ASSUME TypeOK, BelongInv, AgreeInv, NEW c \in Users, NEW g \in Names \ disturbed',
           \/ \E h \in Names : BeginCreate(c, h)
           \/ \E v \in Users : OpenDirect(c, v) \/ DeleteMember(c, v)
           \/ ChangeChat(c) \/ Exit(c) \/ Start(c)
           \/ \E to \in SUBSET Users : AnnouncePartly(c, to)
           \/ \E a \in mail[c] : StoreMessage(c, a)
    PROVE  Agrees(g)'
<1>1. g \notin disturbed /\ Agrees(g)
  BY DEF AgreeInv, BeginCreate, OpenDirect, DeleteMember, ChangeChat, Exit, Start,
         AnnouncePartly, StoreMessage, ghostVars
<1>. DEFINE Same == \A u \in Users : Additions(u, g)' = Additions(u, g)
            Others == \A d \in Users \ {c} :
                        /\ group_name'[d] = group_name[d]
                        /\ inAGroup'[d] = inAGroup[d] /\ receivers'[d] = receivers[d]
<1>2. ASSUME NEW h \in Names, BeginCreate(c, h) PROVE Agrees(g)'
  <2>1. Same /\ Others
    BY <1>2 DEF BeginCreate, Additions, TypeOK
  <2>2. Becomes(c, Creating) /\ groups' = groups /\ task[c] = Choosing
    BY <1>2 DEF BeginCreate
  <2>. QED
    BY <1>1, <2>1, <2>2, TasksAreTasks, ElsewhereSimple
<1>3. ASSUME NEW v \in Users, OpenDirect(c, v) PROVE Agrees(g)'
  <2>1. Same /\ Others /\ ~inAGroup'[c]
    BY <1>3 DEF OpenDirect, Additions, TypeOK
  <2>2. Becomes(c, Chatting) /\ groups' = groups /\ task[c] = Choosing
    BY <1>3 DEF OpenDirect
  <2>. QED
    BY <1>1, <2>1, <2>2, TasksAreTasks, ElsewhereSimple
<1>4. ASSUME NEW v \in Users, DeleteMember(c, v) PROVE Agrees(g)'
  <2>1. Same
    BY <1>4, ToldElsewhere DEF DeleteMember
  <2>2. Leaves(c) /\ groups' = groups /\ task[c] = Chatting
    BY <1>4 DEF DeleteMember, MayManage
  <2>. QED
    BY <1>1, <2>1, <2>2, TasksAreTasks, LeavesElsewhere
<1>5. ASSUME ChangeChat(c) PROVE Agrees(g)'
  <2>1. Same /\ Others
    BY <1>5 DEF ChangeChat, Additions, TypeOK
  <2>2. Becomes(c, Choosing) /\ groups' = groups /\ task[c] = Chatting
    BY <1>5 DEF ChangeChat
  <2>. QED
    BY <1>1, <2>1, <2>2, TasksAreTasks, ElsewhereSimple
<1>6. ASSUME Exit(c) PROVE Agrees(g)'
  <2>1. Same
    BY <1>6 DEF Exit, Additions
  <2>2. Leaves(c) /\ groups' = groups /\ ~(task[c].at = "add" /\ group_name[c] = g)
    BY <1>6 DEF Exit
  <2>. QED
    BY <1>1, <2>1, <2>2, LeavesElsewhere
<1>7. ASSUME Start(c) PROVE Agrees(g)'
  <2>1. Same /\ Others
    BY <1>7 DEF Start, Additions
  <2>2. Becomes(c, Choosing) /\ groups' = groups /\ task[c] = Ended
    BY <1>7 DEF Start
  <2>. QED
    BY <1>1, <2>1, <2>2, TasksAreTasks, ElsewhereSimple
<1>8. ASSUME NEW to \in SUBSET Users, AnnouncePartly(c, to) PROVE Agrees(g)'
  <2>1. group_name[c] # g
    BY <1>8 DEF AnnouncePartly
  <2>2. Same
    BY <1>8, <2>1, ToldElsewhere DEF AnnouncePartly
  <2>3. Leaves(c) /\ groups' = groups
    BY <1>8 DEF AnnouncePartly
  <2>. QED
    BY <1>1, <2>1, <2>2, <2>3, LeavesElsewhere
<1>9. ASSUME NEW a \in mail[c], StoreMessage(c, a) PROVE Agrees(g)'
  <2>1. UNCHANGED << groups, task, group_name, inAGroup, receivers >> /\ task[c] = Ended
    BY <1>9 DEF StoreMessage, clientVars
  <2>2. /\ \A d \in Users \ {c} : Additions(d, g)' = Additions(d, g)
        /\ Additions(c, g)' \subseteq Additions(c, g)
    BY <1>9 DEF StoreMessage, Additions, TypeOK
  <2>3. ~InGroup(c, g)' /\ task[c].at # "add"
    BY <2>1, TasksAreTasks DEF InGroup
  <2>. QED
    BY <1>1, <2>1, <2>2, <2>3, SameRows, Elsewhere
<1>. QED
  BY <1>2, <1>3, <1>4, <1>5, <1>6, <1>7, <1>8, <1>9

\* Groups are never deleted.
LEMMA RowsStay ==
    ASSUME TypeOK, [Next]_vars, NEW g \in Names, RowsOf(g) # {}
    PROVE  RowsOf(g)' # {}
<1>1. PICK n \in DOMAIN groups : groups[n].groupname = g
  BY DEF RowsOf
<1>2. ASSUME groups' = groups PROVE RowsOf(g)' # {}
  BY <1>1, <1>2 DEF RowsOf
<1>3. ASSUME NEW c \in Users, NEW others \in SUBSET Users, NEW admins \in SUBSET Users,
             InsertGroup(c, others, admins)
      PROVE  RowsOf(g)' # {}
  <2>. DEFINE row == [groupname |-> group_name[c], groupmembers |-> {c} \cup others,
                      adminlist |-> {c} \cup admins]
  <2>1. groups' = Append(groups, row)
    BY <1>3 DEF InsertGroup
  <2>2. row \in Row
    BY <1>3, TasksAreTasks DEF InsertGroup, TypeOK, Row
  <2>. HIDE DEF row
  <2>3. n \in DOMAIN groups' /\ groups'[n] = groups[n]
    BY <1>1, <2>1, <2>2 DEF TypeOK
  <2>. QED
    BY <1>1, <2>3 DEF RowsOf
<1>4. ASSUME NEW c \in Users, UpdateGroup(c) PROVE RowsOf(g)' # {}
  <2>1. n \in DOMAIN groups' /\ groups'[n].groupname = g
    BY <1>1, <1>4 DEF UpdateGroup, RowsOf
  <2>. QED
    BY <2>1 DEF RowsOf
<1>5. ASSUME NEW c \in Users, Command(c),
             ~\E others, admins \in SUBSET Users : InsertGroup(c, others, admins)
      PROVE  groups' = groups
  BY <1>5 DEF Command, OpenGroup, BeginCreate, OpenDirect, SelectGroup, DeleteMember,
              ChangeChat, Exit, Start, AnnouncePartly
<1>6. ASSUME NEW c \in Users, ClientStep(c), ~UpdateGroup(c) PROVE groups' = groups
  BY <1>6 DEF ClientStep, Announce, ReceiveMessage, StoreMessage
<1>7. CASE UNCHANGED vars
  BY <1>2, <1>7 DEF vars
<1>. QED
  BY <1>2, <1>3, <1>4, <1>5, <1>6, <1>7 DEF Next

LEMMA ExistKept ==
    ASSUME TypeOK, BelongInv, GroupsExist, [Next]_vars
    PROVE  GroupsExist'
<1>1. ASSUME NEW d \in Users, NEW g \in Names, InGroup(d, g)' PROVE RowsOf(g)' # {}
  <2>1. CASE InGroup(d, g)
    BY <2>1, RowsStay DEF GroupsExist
  <2>. SUFFICES ASSUME ~InGroup(d, g) PROVE RowsOf(g)' # {}
    BY <2>1
  <2>2. ASSUME NEW c \in Users, NEW h \in Names, OpenGroup(c, h) PROVE RowsOf(g)' # {}
    <3>1. task'[c] = Chatting /\ \A e \in Users \ {c} : task'[e] = task[e]
      BY <2>2 DEF OpenGroup, Becomes, TypeOK
    <3>2. d = c /\ g = h
      BY <1>1, <2>2, <3>1 DEF InGroup, OpenGroup, Opened, TypeOK
    <3>. QED
      BY <2>2, <3>2, RowsStay DEF OpenGroup
  <2>3. ASSUME NEW c \in Users, NEW others \in SUBSET Users, NEW admins \in SUBSET Users,
               InsertGroup(c, others, admins)
        PROVE  RowsOf(g)' # {}
    <3>1. task'[c] = Chatting /\ \A e \in Users \ {c} : task'[e] = task[e]
      BY <2>3 DEF InsertGroup, Becomes, TypeOK
    <3>2. g = group_name[c]
      BY <1>1, <2>3, <3>1 DEF InGroup, InsertGroup, TypeOK
    <3>. DEFINE row == [groupname |-> g, groupmembers |-> {c} \cup others,
                        adminlist |-> {c} \cup admins]
    <3>3. groups' = Append(groups, row) /\ row \in Row /\ row.groupname = g
      BY <2>3, <3>2 DEF InsertGroup, Row
    <3>. HIDE DEF row
    <3>4. Len(groups) + 1 \in DOMAIN groups' /\ groups'[Len(groups) + 1] = row
      BY <3>3 DEF TypeOK
    <3>. QED
      BY <3>3, <3>4 DEF RowsOf
  <2>4. ASSUME NEW c \in Users, NEW v \in Users, NEW admin \in BOOLEAN,
               SelectGroup(c, v, admin)
        PROVE  FALSE
    <3>1. task[c] = Chatting /\ \A e \in Users \ {c} : task'[e] = task[e]
      BY <2>4 DEF SelectGroup, MayManage, Becomes, TypeOK
    <3>. QED
      BY <1>1, <2>4, <3>1, TasksAreTasks DEF InGroup, SelectGroup
  <2>5. ASSUME NEW c \in Users, Announce(c) PROVE FALSE
    <3>1. task[c].at = "add" /\ \A e \in Users \ {c} : task'[e] = task[e]
      BY <2>5 DEF Announce, ToTell, TypeOK
    <3>. QED
      BY <1>1, <2>5, <3>1 DEF InGroup, Announce
  <2>6. ASSUME NEW c \in Users, UpdateGroup(c) PROVE FALSE
    <3>1. task[c].at = "add" /\ \A e \in Users \ {c} : task'[e] = task[e]
      BY <2>6 DEF UpdateGroup, Becomes, TypeOK
    <3>. QED
      BY <1>1, <2>6, <3>1 DEF InGroup, UpdateGroup
  <2>7. ASSUME NEW c \in Users, NEW h \in Names, BeginCreate(c, h) PROVE FALSE
    <3>1. task'[c] = Creating /\ \A e \in Users \ {c} : task'[e] = task[e]
      BY <2>7 DEF BeginCreate, Becomes, TypeOK
    <3>. QED
      BY <1>1, <2>7, <3>1, TasksAreTasks DEF InGroup, BeginCreate, TypeOK
  <2>8. ASSUME NEW c \in Users, NEW v \in Users, OpenDirect(c, v) PROVE FALSE
    BY <1>1, <2>8 DEF InGroup, OpenDirect, Becomes, TypeOK
  <2>9. ASSUME NEW c \in Users, ChangeChat(c) PROVE FALSE
    <3>1. task'[c] = Choosing /\ \A e \in Users \ {c} : task'[e] = task[e]
      BY <2>9 DEF ChangeChat, Becomes, TypeOK
    <3>. QED
      BY <1>1, <2>9, <3>1, TasksAreTasks DEF InGroup, ChangeChat
  <2>10. ASSUME NEW c \in Users, Leaves(c) PROVE FALSE
    BY <1>1, <2>10, TasksAreTasks DEF InGroup, Leaves, Becomes, TypeOK
  <2>11. ASSUME NEW c \in Users, Start(c) PROVE FALSE
    <3>1. task'[c] = Choosing /\ \A e \in Users \ {c} : task'[e] = task[e]
      BY <2>11 DEF Start, Becomes, TypeOK
    <3>. QED
      BY <1>1, <2>11, <3>1, TasksAreTasks DEF InGroup, Start
  <2>12. ASSUME UNCHANGED << task, inAGroup, group_name >> PROVE FALSE
    BY <1>1, <2>12 DEF InGroup
  <2>13. ASSUME NEW c \in Users, Command(c) PROVE RowsOf(g)' # {}
    BY <2>2, <2>3, <2>4, <2>7, <2>8, <2>9, <2>10, <2>11, <2>13
       DEF Command, DeleteMember, AnnouncePartly, Exit
  <2>14. ASSUME NEW c \in Users, ClientStep(c) PROVE RowsOf(g)' # {}
    BY <2>5, <2>6, <2>12, <2>14 DEF ClientStep, ReceiveMessage, StoreMessage, clientVars
  <2>. QED
    BY <2>12, <2>13, <2>14 DEF Next, vars, clientVars
<1>2. ASSUME NEW d \in Users, NEW a \in mail'[d], a.kind = "added"
      PROVE  RowsOf(a.group)' # {}
  <2>1. CASE a \in mail[d]
    <3>1. a.group \in Names
      BY <2>1 DEF TypeOK, Announcement
    <3>. QED
      BY <1>2, <2>1, <3>1, RowsStay DEF GroupsExist
  <2>. SUFFICES ASSUME a \notin mail[d] PROVE RowsOf(a.group)' # {}
    BY <2>1
  <2>2. ASSUME NEW c \in Users, NEW id, NEW kind, NEW v, NEW to, Tell(c, id, kind, v, to)
        PROVE  kind = "added" /\ a.group = group_name[c]
    <3>. DEFINE b == [id |-> id, kind |-> kind, group |-> group_name[c], who |-> v]
    <3>1. mail' = [u \in Users |-> IF u \in to THEN mail[u] \cup {b} ELSE mail[u]]
      BY <2>2 DEF Tell
    <3>2. b.kind = kind /\ b.group = group_name[c]
      OBVIOUS
    <3>. HIDE DEF b
    <3>. QED
      BY <1>2, <3>1, <3>2
  <2>3. ASSUME NEW c \in Users, task[c].at = "add", a.group = group_name[c]
        PROVE  RowsOf(a.group)' # {}
    <3>1. group_name[c] \in Names /\ inAGroup[c]
      BY <2>3 DEF TypeOK, BelongInv, ClientBelongs
    <3>2. InGroup(c, group_name[c])
      BY <2>3, <3>1 DEF InGroup
    <3>. QED
      BY <2>3, <3>1, <3>2, RowsStay DEF GroupsExist
  <2>4. ASSUME NEW c \in Users, Announce(c) PROVE RowsOf(a.group)' # {}
    BY <2>2, <2>3, <2>4 DEF Announce, ToTell
  <2>5. ASSUME NEW c \in Users, NEW to \in SUBSET Users, AnnouncePartly(c, to)
        PROVE  RowsOf(a.group)' # {}
    BY <2>2, <2>3, <2>5 DEF AnnouncePartly, ToTell
  <2>6. ASSUME NEW c \in Users, NEW v \in Users, DeleteMember(c, v) PROVE FALSE
    <3>1. "removed" = "added"
      BY <2>2, <2>6 DEF DeleteMember
    <3>. QED
      BY <3>1
  <2>7. ASSUME mail' = mail PROVE FALSE
    BY <1>2, <2>7
  <2>8. ASSUME NEW c \in Users, NEW b \in mail[c], ReceiveMessage(c, b) \/ StoreMessage(c, b)
        PROVE  FALSE
    BY <1>2, <2>8 DEF ReceiveMessage, StoreMessage, TypeOK
  <2>9. ASSUME NEW c \in Users, Command(c) PROVE RowsOf(a.group)' # {}
    BY <2>5, <2>6, <2>7, <2>9 DEF Command, OpenGroup, BeginCreate, InsertGroup, OpenDirect,
         SelectGroup, ChangeChat, Exit, Start
  <2>10. ASSUME NEW c \in Users, ClientStep(c) PROVE RowsOf(a.group)' # {}
    BY <2>4, <2>7, <2>8, <2>10 DEF ClientStep, UpdateGroup
  <2>. QED
    BY <2>7, <2>9, <2>10 DEF Next, vars
<1>. QED
  BY <1>1, <1>2 DEF GroupsExist

LEMMA AgreeAlways == Spec => []AgreeInv
<1>1. Init => AgreeInv
  <2>. SUFFICES ASSUME Init PROVE AgreeInv
    OBVIOUS
  <2>1. \A c \in Users : task[c].at = "choose" /\ mail[c] = {}
    BY TasksAreTasks DEF Init
  <2>2. \A g \in Names : RowsOf(g) = {} /\ AddersTo(g) = {}
    BY <2>1 DEF Init, RowsOf, AddersTo
  <2>3. \A c \in Users : \A g \in Names : ~InGroup(c, g) /\ Additions(c, g) = {}
    BY <2>1 DEF InGroup, Additions
  <2>. QED
    BY <2>1, <2>2, <2>3 DEF AgreeInv, GroupsExist, Agrees, OneRow, OneAdder, Selected,
         AdditionsStand, MembersKnown
<1>2. TypeOK /\ BelongInv /\ AgreeInv /\ [Next]_vars => AgreeInv'
  <2>. SUFFICES ASSUME TypeOK, BelongInv, AgreeInv, [Next]_vars PROVE AgreeInv'
    OBVIOUS
  <2>1. GroupsExist'
    BY ExistKept DEF AgreeInv
  <2>2. ASSUME NEW g \in Names \ disturbed' PROVE Agrees(g)'
    <3>1. ASSUME NEW c \in Users, Command(c) PROVE Agrees(g)'
      BY <3>1, OpenGroupAgrees, InsertGroupAgrees, SelectGroupAgrees, OthersAgree DEF Command
    <3>2. ASSUME NEW c \in Users, ClientStep(c) PROVE Agrees(g)'
      BY <3>2, AnnounceAgrees, UpdateGroupAgrees, ReceiveAgrees, OthersAgree DEF ClientStep
    <3>3. CASE UNCHANGED vars
      <4>1. g \notin disturbed /\ Agrees(g)
        BY <3>3 DEF AgreeInv, vars, ghostVars
      <4>2. UNCHANGED << groups, task, group_name, inAGroup, receivers, mail >>
        BY <3>3 DEF vars, clientVars
      <4>3. \A u \in Users : Additions(u, g)' = Additions(u, g)
        BY <4>2 DEF Additions
      <4>4. \A u \in Users : InGroup(u, g)' => InGroup(u, g) /\ WillKnow(u, g)' = WillKnow(u, g)
        BY <4>2, <4>3 DEF InGroup, WillKnow
      <4>5. AddersTo(g)' = AddersTo(g)
        BY <4>2 DEF AddersTo
      <4>. QED
        BY <4>1, <4>2, <4>3, <4>4, <4>5, SameRows, Untouched
    <3>. QED
      BY <3>1, <3>2, <3>3 DEF Next
  <2>. QED
    BY <2>1, <2>2 DEF AgreeInv
<1>. QED
  BY <1>1, <1>2, TypeCorrect, BelongAlways, PTL DEF Spec

(***************************************************************************)
(* A client that has a group open and has read the announcements of it has *)
(* its members as receivers, in a group in which nothing overlapped.       *)
(***************************************************************************)
THEOREM ClientsAgreeWithTheTable == Spec => []GroupAgrees
<1>1. TypeOK /\ AgreeInv => GroupAgrees
  <2>. SUFFICES ASSUME TypeOK, AgreeInv, NEW c \in Users, NEW n \in DOMAIN groups,
                       groups[n].groupname \notin disturbed,
                       InGroup(c, groups[n].groupname),
                       AddersTo(groups[n].groupname) = {},
                       Additions(c, groups[n].groupname) = {}
                PROVE  receivers[c] \cup {c} = groups[n].groupmembers
    BY DEF GroupAgrees
  <2>. DEFINE g == groups[n].groupname
  <2>1. g \in Names
    <3>1. groups[n] \in Row
      BY DEF TypeOK
    <3>. QED
      BY <3>1 DEF Row
  <2>2. n \in RowsOf(g) /\ Agrees(g)
    BY <2>1 DEF RowsOf, AgreeInv
  <2>3. WillKnow(c, g) = receivers[c] \cup {c} /\ BeingAdded(c, g) = {}
    BY DEF WillKnow, BeingAdded
  <2>. QED
    BY <2>2, <2>3 DEF Agrees, MembersKnown
<1>. QED
  BY <1>1, TypeCorrect, AgreeAlways, PTL

(***************************************************************************)
(* Whoever acts as an admin is an admin in the table, unless additions     *)
(* have overlapped.                                                        *)
(***************************************************************************)
THEOREM AdminsStayAdmins == Spec => []AdminsAreAdmins
<1>1. Init => AdminsAreAdmins
  BY DEF Init, AdminsAreAdmins
<1>2. TypeOK /\ AgreeInv /\ AdminsAreAdmins /\ [Next]_vars => AdminsAreAdmins'
  <2>. SUFFICES ASSUME TypeOK, AgreeInv, AdminsAreAdmins, [Next]_vars,
                       NEW d \in Users, isAdmin'[d]
                PROVE  \E n \in DOMAIN groups' :
                         d \in groups'[n].adminlist \/ groups'[n].groupname \in disturbed'
    BY DEF AdminsAreAdmins
  <2>. DEFINE Held == \E n \in DOMAIN groups' :
                         d \in groups'[n].adminlist \/ groups'[n].groupname \in disturbed'
  <2>1. ASSUME groups' = groups, disturbed \subseteq disturbed', isAdmin[d] PROVE Held
    BY <2>1 DEF AdminsAreAdmins
  <2>2. ASSUME NEW c \in Users, NEW h \in Names, OpenGroup(c, h) PROVE Held
    <3>1. PICK n \in RowsOf(h) :
            isAdmin' = [isAdmin EXCEPT ![c] = @ \/ c \in groups[n].adminlist]
      BY <2>2 DEF OpenGroup
    <3>2. groups' = groups /\ disturbed \subseteq disturbed'
      BY <2>2 DEF OpenGroup
    <3>3. isAdmin[d] \/ d \in groups[n].adminlist
      BY <3>1 DEF TypeOK
    <3>4. n \in DOMAIN groups
      BY DEF RowsOf
    <3>. QED
      BY <2>1, <3>2, <3>3, <3>4
  <2>3. ASSUME NEW c \in Users, NEW others \in SUBSET Users, NEW admins \in SUBSET Users,
               InsertGroup(c, others, admins)
        PROVE  Held
    <3>. DEFINE row == [groupname |-> group_name[c], groupmembers |-> {c} \cup others,
                        adminlist |-> {c} \cup admins]
    <3>1. groups' = Append(groups, row) /\ disturbed \subseteq disturbed'
      BY <2>3 DEF InsertGroup
    <3>2. row \in Row /\ c \in row.adminlist
      BY <2>3, TasksAreTasks DEF InsertGroup, TypeOK, Row
    <3>. HIDE DEF row
    <3>3. /\ DOMAIN groups' = 1 .. Len(groups) + 1
          /\ groups'[Len(groups) + 1] = row
          /\ \A n \in 1 .. Len(groups) : groups'[n] = groups[n]
          /\ DOMAIN groups = 1 .. Len(groups) /\ Len(groups) \in Nat
      BY <3>1, <3>2 DEF TypeOK
    <3>4. CASE d = c
      BY <3>2, <3>3, <3>4
    <3>5. CASE d # c
      <4>1. isAdmin[d]
        BY <2>3, <3>5 DEF InsertGroup, TypeOK
      <4>2. PICK n \in DOMAIN groups :
              d \in groups[n].adminlist \/ groups[n].groupname \in disturbed
        BY <4>1 DEF AdminsAreAdmins
      <4>3. n \in DOMAIN groups' /\ groups'[n] = groups[n]
        BY <3>3
      <4>. QED
        BY <3>1, <4>2, <4>3
    <3>. QED
      BY <3>4, <3>5
  <2>4. ASSUME NEW c \in Users, UpdateGroup(c) PROVE Held
    <3>. DEFINE h == group_name[c]
                row == [groupname    |-> h,
                        groupmembers |-> task[c].row.groupmembers \cup {task[c].who},
                        adminlist    |-> NewAdmins(c)]
    <3>1. /\ groups' = [n \in DOMAIN groups |-> IF n \in RowsOf(h) THEN row ELSE groups[n]]
          /\ disturbed' = disturbed /\ isAdmin' = isAdmin /\ task[c].at = "add"
      BY <2>4 DEF UpdateGroup, ghostVars
    <3>2. row.groupname = h /\ task[c].row.adminlist \subseteq row.adminlist
      BY DEF NewAdmins
    <3>. HIDE DEF row
    <3>3. h \in Names
      BY <3>1 DEF TypeOK
    <3>4. PICK n \in DOMAIN groups :
            d \in groups[n].adminlist \/ groups[n].groupname \in disturbed
      BY <3>1 DEF AdminsAreAdmins
    <3>5. CASE n \notin RowsOf(h)
      BY <3>1, <3>4, <3>5
    <3>6. CASE n \in RowsOf(h) /\ h \in disturbed
      BY <3>1, <3>2, <3>6
    <3>7. CASE n \in RowsOf(h) /\ h \notin disturbed
      <4>1. c \in AddersTo(h) /\ Agrees(h)
        BY <3>1, <3>3, <3>7 DEF AddersTo, AgreeInv
      <4>2. task[c].row = groups[n]
        BY <3>7, <4>1 DEF Agrees, Selected
      <4>3. d \in groups[n].adminlist
        BY <3>4, <3>7 DEF RowsOf
      <4>. QED
        BY <3>1, <3>2, <3>7, <4>2, <4>3
    <3>. QED
      BY <3>5, <3>6, <3>7
  <2>5. ASSUME NEW c \in Users, Leaves(c) PROVE isAdmin[d]
    BY <2>5 DEF Leaves, TypeOK
  <2>6. ASSUME NEW c \in Users, Command(c) PROVE Held
    BY <2>1, <2>2, <2>3, <2>5, <2>6
       DEF Command, BeginCreate, OpenDirect, SelectGroup, DeleteMember, ChangeChat,
           AnnouncePartly, Exit, Start, ghostVars
  <2>7. ASSUME NEW c \in Users, ClientStep(c) PROVE Held
    BY <2>1, <2>4, <2>7 DEF ClientStep, Announce, ReceiveMessage, StoreMessage,
                            clientVars, ghostVars
  <2>. QED
    BY <2>1, <2>6, <2>7 DEF Next, vars, clientVars, ghostVars
<1>. QED
  BY <1>1, <1>2, TypeCorrect, AgreeAlways, PTL DEF Spec

=============================================================================
