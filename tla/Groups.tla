------------------------------- MODULE Groups -------------------------------
(***************************************************************************)
(* Groups (client.py).  There is no server for them: every client reads    *)
(* and writes the shared table groups itself, keeps the receivers of the   *)
(* chat it has open, and tells the other members of an addition by a       *)
(* message.  A client in a prompt or a handler reads no messages.          *)
(*                                                                         *)
(* Messages may overtake each other (a user who logs in again gets some    *)
(* from the table pending), so what is on the way to a user is a set.      *)
(***************************************************************************)
EXTENDS Integers, Sequences, FiniteSets

CONSTANTS
    Users,            \* usernames in usercreds; each has one client at a time
    Names,            \* group names
    NoName,           \* group_name of a client that has not opened a group
    MaxGroups,        \* bound: rows of groups
    MaxCommands       \* bound: commands the users give

ASSUME NamesAssumption == NoName \notin Names
ASSUME BoundsAssumption == MaxGroups \in Nat /\ MaxCommands \in Nat

VARIABLES
    groups,     \* the table
    task,       \* what a client is doing
    group_name, \* attributes of a client
    inAGroup,
    isAdmin,
    receivers,
    mail,       \* __added__ and __removed__ messages on the way to a user
    commands,   \* commands given so far (not in the code, nor are the next two)
    belonged,   \* users a group was created with, or who were to be added
    disturbed   \* groups in which steps overlapped that ought not to

clientVars == << task, group_name, inAGroup, isAdmin, receivers >>
ghostVars  == << belonged, disturbed >>
vars == << groups, clientVars, mail, commands, ghostVars >>

Row == [groupname : Names, groupmembers : SUBSET Users, adminlist : SUBSET Users]
Announcement == [id : 0 .. MaxCommands, kind : {"added", "removed"},
                 group : Names, who : Users]

Ended        == [at |-> "ended"]      \* no client is running
Choosing     == [at |-> "choose"]     \* get_recipient asks for a chat
Chatting     == [at |-> "chat"]       \* serve is in its select loop
Creating     == [at |-> "create"]     \* create_group
\* add_member, when it has selected row; has it sent the announcement?
Adding(id, v, admin, row, told) ==
    [at |-> "add", id |-> id, who |-> v, admin |-> admin, row |-> row,
     announced |-> told]
Task == {Ended, Choosing, Chatting, Creating}
           \cup [at : {"add"}, id : 0 .. MaxCommands, who : Users,
                 admin : BOOLEAN, row : Row, announced : BOOLEAN]

Init ==
    /\ groups = << >>
    /\ task = [c \in Users |-> Choosing]
    /\ group_name = [c \in Users |-> NoName]
    /\ inAGroup = [c \in Users |-> FALSE]
    /\ isAdmin = [c \in Users |-> FALSE]
    /\ receivers = [c \in Users |-> {}]
    /\ mail = [c \in Users |-> {}]
    /\ commands = 0
    /\ belonged = [g \in Names |-> {}]
    /\ disturbed = {}

RowsOf(g) == {n \in DOMAIN groups : groups[n].groupname = g}

\* The clients between the SELECT and the UPDATE of an addition to g.
AddersTo(g) == {c \in Users : task[c].at = "add" /\ group_name[c] = g}

\* Additions to g that c has not read of yet.
Additions(c, g) == {a \in mail[c] : a.kind = "added" /\ a.group = g}

\* A command is given.
Given == commands < MaxCommands /\ commands' = commands + 1

Becomes(c, t) == task' = [task EXCEPT ![c] = t]

\* The process ends, and a new one starts with the values of __init__.
Leaves(c) ==
    /\ Becomes(c, Ended)
    /\ receivers' = [receivers EXCEPT ![c] = {}]
    /\ inAGroup' = [inAGroup EXCEPT ![c] = FALSE]
    /\ group_name' = [group_name EXCEPT ![c] = NoName]
    /\ isAdmin' = [isAdmin EXCEPT ![c] = FALSE]

(***************************************************************************)
(* get_recipient                                                           *)
(***************************************************************************)

OpenedUnnamed(g) == NoName   \* Mutant: group_name is not set.
Opened(g) == g

\* "-g": the members of the group are the receivers.  isAdmin is set for an
\* admin, and left alone for anybody else.
OpenGroup(c, g) ==
    /\ Given
    /\ task[c] = Choosing
    /\ \E n \in RowsOf(g) :
         /\ c \in groups[n].groupmembers
         /\ receivers' = [receivers EXCEPT ![c] = @ \cup (groups[n].groupmembers \ {c})]
         /\ isAdmin' = [isAdmin EXCEPT ![c] = @ \/ c \in groups[n].adminlist]
    /\ inAGroup' = [inAGroup EXCEPT ![c] = TRUE]
    /\ group_name' = [group_name EXCEPT ![c] = Opened(g)]
    /\ Becomes(c, Chatting)
    /\ disturbed' = IF AddersTo(g) = {} THEN disturbed ELSE disturbed \cup {g}
    /\ UNCHANGED << groups, mail, belonged >>

\* "-cg": no group of that name was found, and the user is asked for members.
BeginCreate(c, g) ==
    /\ Given
    /\ task[c] = Choosing
    /\ RowsOf(g) = {}
    /\ group_name' = [group_name EXCEPT ![c] = g]
    /\ Becomes(c, Creating)
    /\ UNCHANGED << groups, inAGroup, isAdmin, receivers, mail, belonged, disturbed >>

\* create_group inserts the row with the users that were named.
InsertGroup(c, others, admins) ==
    /\ Given
    /\ task[c] = Creating
    /\ Len(groups) < MaxGroups
    /\ admins \subseteq others
    /\ LET g == group_name[c]
       IN  /\ groups' = Append(groups, [groupname    |-> g,
                                        groupmembers |-> {c} \cup others,
                                        adminlist    |-> {c} \cup admins])
           /\ belonged' = [belonged EXCEPT ![g] = @ \cup {c} \cup others]
           /\ disturbed' = IF RowsOf(g) = {} THEN disturbed ELSE disturbed \cup {g}
    /\ receivers' = [receivers EXCEPT ![c] = @ \cup others]
    /\ inAGroup' = [inAGroup EXCEPT ![c] = TRUE]
    /\ isAdmin' = [isAdmin EXCEPT ![c] = TRUE]
    /\ Becomes(c, Chatting)
    /\ UNCHANGED << group_name, mail >>

\* A chat with one user.
OpenDirect(c, v) ==
    /\ Given
    /\ task[c] = Choosing
    /\ v # c
    /\ receivers' = [receivers EXCEPT ![c] = @ \cup {v}]
    /\ inAGroup' = [inAGroup EXCEPT ![c] = FALSE]
    /\ Becomes(c, Chatting)
    /\ UNCHANGED << groups, group_name, isAdmin, mail, belonged, disturbed >>

\* "-cd".
ChangeChat(c) ==
    /\ Given
    /\ task[c] = Chatting
    /\ receivers' = [receivers EXCEPT ![c] = {}]
    /\ Becomes(c, Choosing)
    /\ UNCHANGED << groups, group_name, inAGroup, isAdmin, mail, ghostVars >>

(***************************************************************************)
(* add_member and delete_member                                            *)
(***************************************************************************)

MayManage(c) == task[c] = Chatting /\ inAGroup[c] /\ isAdmin[c]

\* "-add": the user v is made a receiver, the row of the group is selected.
SelectGroup(c, v, admin) ==
    /\ Given
    /\ MayManage(c)
    /\ LET g == group_name[c]
       IN  /\ \E n \in RowsOf(g) : Becomes(c, Adding(commands, v, admin, groups[n], FALSE))
           /\ belonged' = [belonged EXCEPT ![g] = @ \cup {v}]
           /\ disturbed' = IF AddersTo(g) = {} /\ Additions(c, g) = {}
                           THEN disturbed ELSE disturbed \cup {g}
    /\ receivers' = [receivers EXCEPT ![c] = @ \cup {v}]
    /\ UNCHANGED << groups, group_name, inAGroup, isAdmin, mail >>

\* sendMessage in a group, to those of the receivers that are in "to".
Tell(c, id, kind, v, to) ==
    LET a == [id |-> id, kind |-> kind, group |-> group_name[c], who |-> v]
    IN  mail' = [u \in Users |-> IF u \in to THEN mail[u] \cup {a} ELSE mail[u]]

ToTell(c) == task[c].at = "add" /\ ~task[c].announced

ToldNewcomer(c) == {task[c].who}   \* Mutant: the new member alone is told.
Told(c) == receivers[c]

\* "__added__" to all the receivers, the new one among them, ...
Announce(c) ==
    /\ ToTell(c)
    /\ Tell(c, task[c].id, "added", task[c].who, Told(c))
    /\ task' = [task EXCEPT ![c].announced = TRUE]
    /\ UNCHANGED << groups, group_name, inAGroup, isAdmin, receivers, commands, ghostVars >>

\* Mutant: the list of admins is the new one alone.
NewAdminsOnly(c) == IF task[c].admin THEN {task[c].who} ELSE task[c].row.adminlist
NewAdmins(c) ==
    task[c].row.adminlist \cup (IF task[c].admin THEN {task[c].who} ELSE {})

\* ... and then the row is written back, with the new member: both lists are
\* the ones that were selected.
UpdateGroup(c) ==
    /\ task[c].at = "add"
    /\ task[c].announced
    /\ LET g == group_name[c]
           v == task[c].who
           row == [groupname    |-> g,
                   groupmembers |-> task[c].row.groupmembers \cup {v},
                   adminlist    |-> NewAdmins(c)]
       IN  groups' = [n \in DOMAIN groups |-> IF n \in RowsOf(g) THEN row ELSE groups[n]]
    /\ Becomes(c, Chatting)
    /\ UNCHANGED << group_name, inAGroup, isAdmin, receivers, mail, commands, ghostVars >>

\* The client ends while it sends: some have been told.
AnnouncePartly(c, to) ==
    /\ Given
    /\ ToTell(c)
    /\ to \subseteq receivers[c] /\ to # receivers[c]
    /\ Tell(c, task[c].id, "added", task[c].who, to)
    /\ disturbed' = disturbed \cup {group_name[c]}
    /\ Leaves(c)
    /\ UNCHANGED << groups, belonged >>

\* "-del": "__removed__" is sent, and then groupadmins_new is read before it is
\* assigned (or the name is not in the list): the exception ends the client.
DeleteMember(c, v) ==
    /\ Given
    /\ MayManage(c)
    /\ v \in receivers[c]
    /\ Tell(c, commands, "removed", v, receivers[c])
    /\ Leaves(c)
    /\ UNCHANGED << groups, ghostVars >>

(***************************************************************************)
(* receiveMessage, and the end and the start of a client                   *)
(***************************************************************************)

InGroup(c, g) == task[c].at \in {"chat", "add"} /\ inAGroup[c] /\ group_name[c] = g

\* Mutant: the group of the message is not compared.
ConcernsAnyGroup(c, a) == inAGroup[c] /\ a.kind = "added"

\* Does announcement a change the receivers of c?  A slice of nine characters
\* is never "__removed__".
Concerns(c, a) == inAGroup[c] /\ group_name[c] = a.group /\ a.kind = "added"

ReceiveMessage(c, a) ==
    /\ task[c] = Chatting
    /\ a \in mail[c]
    /\ mail' = [mail EXCEPT ![c] = @ \ {a}]
    /\ receivers' = IF Concerns(c, a) THEN [receivers EXCEPT ![c] = @ \cup {a.who}]
                    ELSE receivers
    /\ UNCHANGED << groups, task, group_name, inAGroup, isAdmin, commands, ghostVars >>

\* The message comes for a user who is not there: it is in the table pending
\* and later in the user's database, or lost, and has no other effect.
StoreMessage(c, a) ==
    /\ task[c] = Ended
    /\ a \in mail[c]
    /\ mail' = [mail EXCEPT ![c] = @ \ {a}]
    /\ UNCHANGED << groups, clientVars, commands, ghostVars >>

Exit(c) ==
    /\ Given
    /\ task[c] # Ended
    /\ Leaves(c)
    /\ disturbed' = IF task[c].at = "add" THEN disturbed \cup {group_name[c]} ELSE disturbed
    /\ UNCHANGED << groups, mail, belonged >>

\* serve, when the next login of the user is done.
Start(c) ==
    /\ Given
    /\ task[c] = Ended
    /\ Becomes(c, Choosing)
    /\ UNCHANGED << groups, group_name, inAGroup, isAdmin, receivers, mail,
                    ghostVars >>

-----------------------------------------------------------------------------

\* What the user of client c asks for.
Command(c) ==
    \/ \E g \in Names : OpenGroup(c, g) \/ BeginCreate(c, g)
    \/ \E others, admins \in SUBSET Users : InsertGroup(c, others, admins)
    \/ \E v \in Users :
         \/ OpenDirect(c, v)
         \/ \E admin \in BOOLEAN : SelectGroup(c, v, admin)
         \/ DeleteMember(c, v)
    \/ ChangeChat(c) \/ Exit(c) \/ Start(c)
    \/ \E to \in SUBSET Users : AnnouncePartly(c, to)

\* What the client does by itself.
ClientStep(c) ==
    \/ Announce(c) \/ UpdateGroup(c)
    \/ \E a \in mail[c] : ReceiveMessage(c, a) \/ StoreMessage(c, a)

Next == \E c \in Users : Command(c) \/ ClientStep(c)

Spec == Init /\ [][Next]_vars

(***************************************************************************)
(* Properties                                                              *)
(***************************************************************************)

\* Every variable has its type.
TypeOK ==
    /\ groups \in Seq(Row)
    /\ task \in [Users -> Task]
    /\ group_name \in [Users -> Names \cup {NoName}]
    /\ \A c \in Users :
         inAGroup[c] \/ task[c].at \in {"create", "add"} => group_name[c] # NoName
    /\ inAGroup \in [Users -> BOOLEAN]
    /\ isAdmin \in [Users -> BOOLEAN]
    /\ receivers \in [Users -> SUBSET Users]
    /\ mail \in [Users -> SUBSET Announcement]
    /\ commands \in 0 .. MaxCommands
    /\ belonged \in [Names -> SUBSET Users]
    /\ disturbed \subseteq Names

\* What is written in a group goes only to users who belong to it or did:
\* receivers never come from another group, a direct chat or an announcement
\* that concerns another group, whatever the user has had open before.
ReceiversBelong ==
    \A c \in Users : \A g \in Names :
        InGroup(c, g) => receivers[c] \subseteq belonged[g]

\* A client that has a group open and has read all announcements of it has the
\* members in the table as its receivers, although nobody reads the table a
\* second time.  That is so as long as no group has been created twice and no
\* addition overlaps with another one, with the opening of the group, with the end
\* of the client that makes it, or with an announcement that client has not read.
GroupAgrees ==
    \A c \in Users : \A n \in DOMAIN groups :
        LET g == groups[n].groupname
        IN  g \notin disturbed /\ InGroup(c, g) /\ AddersTo(g) = {} /\ Additions(c, g) = {}
              => receivers[c] \cup {c} = groups[n].groupmembers

\* Whoever acts as an admin is one in the table: of the group that is open, or
\* of another, since the flag stays when the next group is opened.  An addition
\* never costs anybody that place, unless it overlaps with another one.
AdminsAreAdmins ==
    \A c \in Users : isAdmin[c] =>
        \E n \in DOMAIN groups :
            c \in groups[n].adminlist \/ groups[n].groupname \in disturbed

=============================================================================
