-------------------------------- MODULE Keys --------------------------------
(***************************************************************************)
(* Accounts, personal databases and keys (client.py and crypto.py).  A     *)
(* client makes the key pair of a new account.  The load balancer stores   *)
(* the public key; the client itself stores the private key, in a database *)
(* it creates for the user afterwards, and everything received and sent,   *)
(* under the password.  A message is sealed with the recipient's public    *)
(* key.  A key pair is one value, and a sealed message is the key it opens *)
(* with.                                                                   *)
(*                                                                         *)
(* The databases of users outlive an installation of FastChat: system.py   *)
(* drops its own database only.  CREATE DATABASE folds a name to lower     *)
(* case, and psycopg2.connect does not.                                    *)
(***************************************************************************)
EXTENDS Integers

CONSTANTS
    Clients,      \* runs of client.py
    Names,        \* usernames
    Lower,        \* a username in lower case
    Passwords,
    MaxAttempts,  \* bound: submissions of credentials
    OldKey,       \* a key of an earlier installation
    None          \* no account, database, key or request

ASSUME LowerAssumption ==
    /\ Lower \in [Names -> Names]
    /\ \A u \in Names : Lower[Lower[u]] = Lower[u]
ASSUME AttemptsAssumption == MaxAttempts \in Nat

\* gen_rsa_key: a new key at each submission that wants one.
Fresh == 1 .. MaxAttempts
Key == Fresh \cup {OldKey}

VARIABLES
    usercreds,   \* the table: password and public key of a username
    databases,   \* the personal databases, by name
    request,     \* credentials the load balancer has not read yet
    at,          \* where a client is in login; "chat" when that is done
    username,    \* attributes of the client (newuser is a local of login)
    password,
    newuser,
    priv_key,    \* RSA_priv_decrypt_key of its Crypt
    mail,        \* messages written, any number of which may be on the way
    attempts,    \* submissions so far (not in the code, nor is the next)
    cutShort     \* accounts whose client ended before the database was made

clientVars == << at, username, password, newuser, priv_key >>
vars == << usercreds, databases, request, clientVars, mail, attempts, cutShort >>

Account == [userpwd : Passwords, userpubkey : Fresh]
Request == [username : Names, password : Passwords, newuser : BOOLEAN,
            pub_key : Fresh \cup {None}]
PrivateKey == [key : Key, under : Passwords]
\* "history" is the passwords its entries are encrypted with, "tables" says
\* whether chats and history exist, and "old" that the database is of an
\* earlier installation (not in the code).
Database == [privatekey : PrivateKey \cup {None}, tables : BOOLEAN,
             history : SUBSET Passwords, old : BOOLEAN]
Empty == [privatekey |-> None, tables |-> FALSE, history |-> {}, old |-> FALSE]
Old(p) == [privatekey |-> [key |-> OldKey, under |-> p], tables |-> TRUE,
           history |-> {p}, old |-> TRUE]
Sealed == [to : Names, opens : Fresh]

ASSUME OldKeyAssumption == OldKey \notin Fresh
ASSUME NoneAssumption ==
    /\ None \notin Names \cup Passwords \cup Key
    /\ None \notin Account /\ None \notin Request
    /\ None \notin PrivateKey /\ None \notin Database

Init ==
    /\ usercreds = [u \in Names |-> None]
    /\ databases \in [Names -> {None} \cup {Old(p) : p \in Passwords}]
    /\ \A u \in Names : Lower[u] # u => databases[u] = None
    /\ request = [c \in Clients |-> None]
    /\ at = [c \in Clients |-> "prompt"]
    /\ attempts = 0
    /\ username = [c \in Clients |-> None]
    /\ password = [c \in Clients |-> None]
    /\ newuser = [c \in Clients |-> FALSE]
    /\ priv_key = [c \in Clients |-> None]
    /\ mail = {}
    /\ cutShort = {}

Becomes(c, place) == at' = [at EXCEPT ![c] = place]

\* c has an account made and has not made all of its database.
Unfinished(c) ==
    newuser[c] /\ at[c] \in {"accepted", "dropped", "created", "connected", "keyed"}

\* The process ends: the user leaves, or an exception is not caught.
Ends(c) ==
    /\ Becomes(c, "ended")
    /\ cutShort' = IF Unfinished(c) THEN cutShort \cup {username[c]} ELSE cutShort

\* A client has the database of that name open, and nobody can drop it.
InUse(name) ==
    \E c \in Clients : at[c] \in {"connected", "keyed", "chat"} /\ username[c] = name

(***************************************************************************)
(* login: the credentials, and what the load balancer makes of them        *)
(***************************************************************************)

\* Mutant: self.password stays that of the first attempt.
SubmitFirstPassword(c, u, p, new) ==
    LET key == attempts + 1
    IN  /\ at[c] = "prompt" /\ attempts < MaxAttempts
        /\ request' = [request EXCEPT ![c] =
                          [username |-> u, password |-> p, newuser |-> new,
                           pub_key |-> IF new THEN key ELSE None]]
        /\ priv_key' = IF new THEN [priv_key EXCEPT ![c] = key] ELSE priv_key
        /\ attempts' = attempts + 1
        /\ username' = [username EXCEPT ![c] = u]
        /\ password' = IF password[c] = None THEN [password EXCEPT ![c] = p] ELSE password
        /\ newuser' = [newuser EXCEPT ![c] = new]
        /\ Becomes(c, "waiting")
        /\ UNCHANGED << usercreds, databases, mail, cutShort >>

\* The user types a name and a password; for a new account a key is made.
Submit(c, u, p, new) ==
    LET key == attempts + 1
    IN  /\ at[c] = "prompt" /\ attempts < MaxAttempts
        /\ request' = [request EXCEPT ![c] =
                          [username |-> u, password |-> p, newuser |-> new,
                           pub_key |-> IF new THEN key ELSE None]]
        /\ priv_key' = IF new THEN [priv_key EXCEPT ![c] = key] ELSE priv_key
        /\ attempts' = attempts + 1
        /\ username' = [username EXCEPT ![c] = u]
        /\ password' = [password EXCEPT ![c] = p]
        /\ newuser' = [newuser EXCEPT ![c] = new]
        /\ Becomes(c, "waiting")
        /\ UNCHANGED << usercreds, databases, mail, cutShort >>

\* The load balancer answers, to a client that may have ended by then.
Answer(c, place) ==
    /\ request' = [request EXCEPT ![c] = None]
    /\ at' = IF at[c] = "waiting" THEN [at EXCEPT ![c] = place] ELSE at
    /\ UNCHANGED << databases, attempts, username, password, newuser, priv_key,
                    mail >>

IsNew(r) == r.newuser /\ usercreds[r.username] = None

IsAuthentic(r) ==
    /\ ~r.newuser
    /\ usercreds[r.username] # None
    /\ usercreds[r.username].userpwd = r.password

CreateAccount(c) ==
    /\ request[c] # None
    /\ IsNew(request[c])
    /\ LET r == request[c]
       IN  /\ usercreds' = [usercreds EXCEPT ![r.username] =
                               [userpwd |-> r.password, userpubkey |-> r.pub_key]]
           /\ cutShort' = IF at[c] = "waiting" THEN cutShort ELSE cutShort \cup {r.username}
    /\ Answer(c, "accepted")

Authenticate(c) ==
    /\ request[c] # None
    /\ IsAuthentic(request[c])
    /\ Answer(c, "accepted")
    /\ UNCHANGED << usercreds, cutShort >>

\* "invalid": the user is asked again.
Refuse(c) ==
    /\ request[c] # None
    /\ ~IsNew(request[c]) /\ ~IsAuthentic(request[c])
    /\ Answer(c, "prompt")
    /\ UNCHANGED << usercreds, cutShort >>

(***************************************************************************)
(* login: the personal database                                            *)
(***************************************************************************)

Rest == << usercreds, request, username, password, newuser, mail, attempts >>

\* Mutant: not for new accounts only.
DropAlways(c) ==
    /\ at[c] = "accepted"
    /\ IF InUse(Lower[username[c]])
       THEN Ends(c) /\ UNCHANGED databases
       ELSE /\ databases' = [databases EXCEPT ![Lower[username[c]]] = None]
            /\ Becomes(c, "dropped")
            /\ UNCHANGED cutShort
    /\ UNCHANGED << Rest, priv_key >>

\* DROP DATABASE IF EXISTS, which raises if somebody is connected to it, ...
DropDatabase(c) ==
    /\ at[c] = "accepted" /\ newuser[c]
    /\ IF InUse(Lower[username[c]])
       THEN Ends(c) /\ UNCHANGED databases
       ELSE /\ databases' = [databases EXCEPT ![Lower[username[c]]] = None]
            /\ Becomes(c, "dropped")
            /\ UNCHANGED cutShort
    /\ UNCHANGED << Rest, priv_key >>

\* ... CREATE DATABASE, which raises if it is there, ...
CreateDatabase(c) ==
    /\ at[c] = "dropped"
    /\ IF databases[Lower[username[c]]] # None
       THEN Ends(c) /\ UNCHANGED databases
       ELSE /\ databases' = [databases EXCEPT ![Lower[username[c]]] = Empty]
            /\ Becomes(c, "created")
            /\ UNCHANGED cutShort
    /\ UNCHANGED << Rest, priv_key >>

\* Mutant: the name is folded here too, and not remembered.
ConnectFolded(c) ==
    /\ at[c] = "created"
    /\ IF databases[Lower[username[c]]] = None
       THEN Ends(c)
       ELSE Becomes(c, "connected") /\ UNCHANGED cutShort
    /\ UNCHANGED << Rest, databases, priv_key >>

\* ... connect, by the name as it was typed, ...
ConnectToNew(c) ==
    /\ at[c] = "created"
    /\ IF databases[username[c]] = None
       THEN Ends(c)
       ELSE Becomes(c, "connected") /\ UNCHANGED cutShort
    /\ UNCHANGED << Rest, databases, priv_key >>

\* ... the private key, under the password, ...
StoreKey(c) ==
    /\ at[c] = "connected"
    /\ databases' = [databases EXCEPT ![username[c]].privatekey =
                        [key |-> priv_key[c], under |-> password[c]]]
    /\ Becomes(c, "keyed")
    /\ UNCHANGED << Rest, priv_key, cutShort >>

\* ... and the tables.
CreateTables(c) ==
    /\ at[c] = "keyed"
    /\ databases' = [databases EXCEPT ![username[c]].tables = TRUE]
    /\ Becomes(c, "chat")
    /\ UNCHANGED << Rest, priv_key, cutShort >>

Opens(c) ==
    LET d == databases[username[c]]
    IN  d # None /\ d.privatekey # None /\ d.privatekey.under = password[c]

\* Mutant: a key the client has made in an earlier attempt is kept.
OpenDatabaseOnce(c) ==
    /\ at[c] = "accepted" /\ ~newuser[c]
    /\ Opens(c)
    /\ priv_key' = IF priv_key[c] # None THEN priv_key
                   ELSE [priv_key EXCEPT ![c] = databases[username[c]].privatekey.key]
    /\ Becomes(c, "chat")
    /\ UNCHANGED << Rest, databases, cutShort >>

\* For an account that is there: connect, and set_priv_key from the database.
OpenDatabase(c) ==
    /\ at[c] = "accepted" /\ ~newuser[c]
    /\ Opens(c)
    /\ priv_key' = [priv_key EXCEPT ![c] = databases[username[c]].privatekey.key]
    /\ Becomes(c, "chat")
    /\ UNCHANGED << Rest, databases, cutShort >>

\* There is no database, no key in it, or not under this password.
OpenFails(c) ==
    /\ at[c] = "accepted" /\ ~newuser[c]
    /\ ~Opens(c)
    /\ Ends(c)
    /\ UNCHANGED << Rest, databases, priv_key >>

(***************************************************************************)
(* Chatting                                                                *)
(***************************************************************************)

\* password_encrypt, and an entry in history.
Store(c) ==
    databases' = [databases EXCEPT ![username[c]].history = @ \cup {password[c]}]

HasTables(c) == databases[username[c]].tables

\* The turn of the receiver v in sendMessage: sealed with its public key, which was
\* selected when the chat was opened (no statement changes it) and is set just
\* before, in the same thread.
WriteTo(c, v) ==
    /\ at[c] = "chat" /\ HasTables(c)
    /\ v # username[c] /\ usercreds[v] # None
    /\ mail' = mail \cup {[to |-> v, opens |-> usercreds[v].userpubkey]}
    /\ Store(c)
    /\ UNCHANGED << usercreds, request, at, username, password, newuser, priv_key,
                    attempts, cutShort >>

\* A message, or a row of pending, for the user is decrypted and stored.
ReadMessage(c, m) ==
    /\ at[c] = "chat" /\ HasTables(c)
    /\ m \in mail /\ m.to = username[c]
    /\ m.opens = priv_key[c]
    /\ Store(c)
    /\ UNCHANGED << Rest, at, priv_key, cutShort >>

\* main_decrypt raises, or there is no table.
ReadFails(c, m) ==
    /\ at[c] = "chat"
    /\ m \in mail /\ m.to = username[c]
    /\ m.opens # priv_key[c] \/ ~HasTables(c)
    /\ Ends(c)
    /\ UNCHANGED << Rest, databases, priv_key >>

\* The client ends anywhere else.
Exit(c) ==
    /\ at[c] # "ended"
    /\ Ends(c)
    /\ UNCHANGED << Rest, databases, priv_key >>

-----------------------------------------------------------------------------

LoadBalancerStep(c) == CreateAccount(c) \/ Authenticate(c) \/ Refuse(c)

ClientStep(c) ==
    \/ \E u \in Names, p \in Passwords, new \in BOOLEAN : Submit(c, u, p, new)
    \/ DropDatabase(c) \/ CreateDatabase(c) \/ ConnectToNew(c) \/ StoreKey(c)
    \/ CreateTables(c) \/ OpenDatabase(c) \/ OpenFails(c)
    \/ \E v \in Names : WriteTo(c, v)
    \/ \E m \in mail : ReadMessage(c, m) \/ ReadFails(c, m)
    \/ Exit(c)

Next == \E c \in Clients : LoadBalancerStep(c) \/ ClientStep(c)

Spec == Init /\ [][Next]_vars

(***************************************************************************)
(* Properties                                                              *)
(***************************************************************************)

Places == {"prompt", "waiting", "accepted", "dropped", "created", "connected",
           "keyed", "chat", "ended"}

\* Every variable has its type; and a client that has a database open is past
\* the prompt, and the database is there.
TypeOK ==
    /\ usercreds \in [Names -> Account \cup {None}]
    /\ databases \in [Names -> Database \cup {None}]
    /\ request \in [Clients -> Request \cup {None}]
    /\ at \in [Clients -> Places]
    /\ attempts \in 0 .. MaxAttempts
    /\ username \in [Clients -> Names \cup {None}]
    /\ password \in [Clients -> Passwords \cup {None}]
    /\ newuser \in [Clients -> BOOLEAN]
    /\ priv_key \in [Clients -> Key \cup {None}]
    /\ mail \subseteq Sealed
    /\ cutShort \subseteq Names
    /\ \A c \in Clients : at[c] \in {"connected", "keyed", "chat"} =>
                              databases[username[c]] # None
    /\ \A c \in Clients : at[c] \notin {"prompt", "ended"} =>
                              username[c] # None /\ password[c] # None

Usable(u) ==
    /\ databases[u] # None /\ databases[u].tables
    /\ databases[u].privatekey =
           [key |-> usercreds[u].userpubkey, under |-> usercreds[u].userpwd]

\* A session holds the private key of its account, whatever keys its client
\* made in attempts that were refused, and whoever created the database.  The
\* exception is a database of an earlier installation, which a second device may
\* open before the client that makes the account drops it.
OpensOwnMail ==
    \A c \in Clients : at[c] = "chat" =>
        \/ priv_key[c] = usercreds[username[c]].userpubkey
        \/ databases[username[c]].old

\* All of a user's history can be read with the user's password, unless the
\* database is of an earlier installation.
HistoryReadable ==
    \A u \in Names :
        databases[u] # None /\ ~databases[u].old /\ databases[u].history # {} =>
            usercreds[u] # None /\ databases[u].history = {usercreds[u].userpwd}

\* An account can be used from any device, README.md:27, once it is made: its
\* database holds its private key under its password, and the tables, unless the
\* client that made it ended too early, or another spelling of the name has an
\* account.
AccountUsable ==
    \A u \in Names :
        /\ Lower[u] = u /\ usercreds[u] # None /\ u \notin cutShort
        /\ \A v \in Names \ {u} : Lower[v] = u => usercreds[v] = None
        /\ \A c \in Clients : ~(username[c] = u /\ Unfinished(c))
        => Usable(u)

\* README.md:28, users can "Restore their chat history as far back as they wish":
\* what a user's database holds of it stays there.
HistoryKept ==
    [][\A u \in Names : databases[u] # None /\ ~databases[u].old /\ databases[u].history # {} =>
           /\ databases'[u] # None
           /\ databases[u].history \subseteq databases'[u].history]_vars

=============================================================================
