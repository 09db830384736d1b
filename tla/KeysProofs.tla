----------------------------- MODULE KeysProofs -----------------------------
(* Theorems about Keys, for every set of clients, names and passwords and  *)
(* every number of submissions.                                            *)
EXTENDS Keys, TLAPS

(***************************************************************************)
(* Type correctness.  That a stored private key is a key needs that a      *)
(* client which makes an account has one, and its request too.             *)
(***************************************************************************)
Making == {"waiting", "accepted", "dropped", "created", "connected"}

HasKey(c) ==
    /\ newuser[c] /\ at[c] \in Making => priv_key[c] \in Fresh
    /\ at[c] \in {"dropped", "created", "connected", "keyed"} => newuser[c]
    /\ request[c] # None /\ request[c].newuser => request[c].pub_key \in Fresh

HasDatabase(c) ==
    /\ at[c] \in {"connected", "keyed", "chat"} => databases[username[c]] # None
    /\ at[c] \notin {"prompt", "ended"} => username[c] # None /\ password[c] # None

Types ==
    /\ usercreds \in [Names -> Account \cup {None}]
    /\ databases \in [Names -> Database \cup {None}]
    /\ request \in [Clients -> Request \cup {None}]
    /\ at \in [Clients -> Places]
    /\ attempts \in 0 .. MaxAttempts
    /\ username \in [Clients -> Names \cup {None}]
    /\ password \in [Clients -> Passwords \cup {None}]
    /\ newuser \in [Clients -> BOOLEAN]
    /\ priv_key \in [Clients -> Key \cup {None}]
    /\ mail \subseteq Sealed
    /\ cutShort \subseteq Names

TypeInv ==
    /\ Types
    /\ \A c \in Clients : HasDatabase(c)
    /\ \A c \in Clients : HasKey(c)

LEMMA TypeInvTypes == TypeInv => TypeOK
BY DEF TypeInv, Types, HasDatabase, TypeOK

LEMMA InitTypes == Init => TypeInv
<1> SUFFICES ASSUME Init PROVE TypeInv
  OBVIOUS
<1>1. \A p \in Passwords : Old(p) \in Database
  BY DEF Old, Database, PrivateKey, Key
<1>2. databases \in [Names -> Database \cup {None}]
  BY <1>1 DEF Init
<1>3. Types
  BY <1>2, AttemptsAssumption DEF Init, Types, Places
<1> QED
  BY <1>3 DEF Init, TypeInv, HasDatabase, HasKey, Making

\* A client that ends changes its place only, and adds a username to cutShort
\* that it has.
LEMMA EndsKeeps ==
    ASSUME TypeInv, NEW c \in Clients, Ends(c)
    PROVE  /\ at' \in [Clients -> Places]
           /\ at' = [at EXCEPT ![c] = "ended"]
           /\ cutShort' \subseteq Names
<1>1. at' \in [Clients -> Places] /\ at' = [at EXCEPT ![c] = "ended"]
  BY DEF TypeInv, Types, Ends, Becomes, Places
<1>2. Unfinished(c) => username[c] \in Names
  BY DEF TypeInv, Types, HasDatabase, Unfinished
<1>3. cutShort' \subseteq Names
  BY <1>2 DEF TypeInv, Types, Ends
<1> QED
  BY <1>1, <1>3

LEMMA SubmitTypes ==
    ASSUME TypeInv, NEW c \in Clients, NEW u \in Names, NEW p \in Passwords,
           NEW new \in BOOLEAN, Submit(c, u, p, new)
    PROVE  TypeInv'
<1> DEFINE key == attempts + 1
           r == [username |-> u, password |-> p, newuser |-> new,
                 pub_key |-> IF new THEN key ELSE None]
<1>1. key \in Fresh /\ key \in Key
  BY AttemptsAssumption DEF TypeInv, Types, Submit, Fresh, Key
<1>2. r \in Request
  BY <1>1 DEF Request
<1>3. /\ request' = [request EXCEPT ![c] = r]
      /\ priv_key' = IF new THEN [priv_key EXCEPT ![c] = key] ELSE priv_key
      /\ attempts' = key
  BY DEF Submit
<1> HIDE DEF key
<1>4. Types'
  BY <1>1, <1>2, <1>3, NoneAssumption DEF TypeInv, Types, Submit, Becomes, Places, Fresh
<1>5. ASSUME NEW d \in Clients PROVE HasDatabase(d)' /\ HasKey(d)'
  <2>1. CASE d = c
    BY <1>1, <1>2, <1>3, <2>1, NoneAssumption
       DEF TypeInv, Types, Submit, Becomes, HasDatabase, HasKey, Making
  <2>2. CASE d # c
    BY <1>3, <2>2 DEF TypeInv, Types, Submit, Becomes, HasDatabase, HasKey, Making
  <2> QED
    BY <2>1, <2>2
<1> QED
  BY <1>4, <1>5 DEF TypeInv

\* What the three answers have in common.
LEMMA AnswerTypes ==
    ASSUME TypeInv, NEW c \in Clients, NEW place \in {"accepted", "prompt"},
           Answer(c, place),
           usercreds' \in [Names -> Account \cup {None}], cutShort' \subseteq Names
    PROVE  TypeInv'
<1>1. Types'
  BY DEF TypeInv, Types, Answer, Places
<1>2. ASSUME NEW d \in Clients PROVE HasDatabase(d)' /\ HasKey(d)'
  BY DEF TypeInv, Types, Answer, HasDatabase, HasKey, Making
<1> QED
  BY <1>1, <1>2 DEF TypeInv

LEMMA CreateAccountTypes ==
    ASSUME TypeInv, NEW c \in Clients, CreateAccount(c)
    PROVE  TypeInv'
<1> DEFINE r == request[c]
<1>1. r \in Request /\ r.newuser
  BY DEF TypeInv, Types, CreateAccount, IsNew
<1>2. r.username \in Names /\ r.password \in Passwords /\ r.pub_key \in Fresh
  BY <1>1, NoneAssumption DEF Request, TypeInv, HasKey, CreateAccount
<1>3. [userpwd |-> r.password, userpubkey |-> r.pub_key] \in Account
  BY <1>2 DEF Account
<1>4. usercreds' \in [Names -> Account \cup {None}]
  BY <1>3 DEF CreateAccount, TypeInv, Types
<1>5. cutShort' \subseteq Names
  BY <1>2 DEF CreateAccount, TypeInv, Types
<1> QED
  BY <1>4, <1>5, AnswerTypes DEF CreateAccount

LEMMA AnswersTypes ==
    ASSUME TypeInv, NEW c \in Clients, LoadBalancerStep(c)
    PROVE  TypeInv'
<1>1. CASE Authenticate(c)
  BY <1>1, AnswerTypes DEF Authenticate, TypeInv, Types
<1>2. CASE Refuse(c)
  BY <1>2, AnswerTypes DEF Refuse, TypeInv, Types
<1> QED
  BY <1>1, <1>2, CreateAccountTypes DEF LoadBalancerStep

\* A step after which c has ended, that leaves everything else alone.
LEMMA EndingTypes ==
    ASSUME TypeInv, NEW c \in Clients, Ends(c), UNCHANGED << Rest, databases, priv_key >>
    PROVE  TypeInv'
<1>1. Types'
  BY EndsKeeps DEF TypeInv, Types, Rest
<1>2. ASSUME NEW d \in Clients PROVE HasDatabase(d)' /\ HasKey(d)'
  BY EndsKeeps DEF TypeInv, Types, Rest, HasDatabase, HasKey, Making
<1> QED
  BY <1>1, <1>2 DEF TypeInv

LEMMA FoldedName ==
    ASSUME TypeInv, NEW c \in Clients, at[c] \notin {"prompt", "ended"}
    PROVE  /\ username[c] \in Names /\ password[c] \in Passwords
           /\ Lower[username[c]] \in Names
BY LowerAssumption DEF TypeInv, Types, HasDatabase

LEMMA DropTypes ==
    ASSUME TypeInv, NEW c \in Clients, DropDatabase(c)
    PROVE  TypeInv'
<1>1. CASE InUse(Lower[username[c]])
  BY <1>1, EndingTypes DEF DropDatabase
<1>2. CASE ~InUse(Lower[username[c]])
  <2>1. /\ databases' = [databases EXCEPT ![Lower[username[c]]] = None]
        /\ at' = [at EXCEPT ![c] = "dropped"]
        /\ at[c] = "accepted" /\ newuser[c]
        /\ UNCHANGED << Rest, priv_key, cutShort >>
    BY <1>2 DEF DropDatabase, Becomes
  <2>2. Types'
    BY <2>1 DEF TypeInv, Types, Rest, Places
  <2>3. ASSUME NEW d \in Clients PROVE HasDatabase(d)'
    BY <1>2, <2>1, FoldedName DEF TypeInv, Types, Rest, HasDatabase, InUse
  <2>4. ASSUME NEW d \in Clients PROVE HasKey(d)'
    BY <2>1 DEF TypeInv, Types, Rest, HasKey, Making
  <2> QED
    BY <2>2, <2>3, <2>4 DEF TypeInv
<1> QED
  BY <1>1, <1>2

LEMMA EmptyIsDatabase == Empty \in Database /\ Empty # None
<1>1. Empty \in Database
  BY DEF Empty, Database
<1> QED
  BY <1>1, NoneAssumption

LEMMA CreateDatabaseTypes ==
    ASSUME TypeInv, NEW c \in Clients, CreateDatabase(c)
    PROVE  TypeInv'
<1>1. CASE databases[Lower[username[c]]] # None
  BY <1>1, EndingTypes DEF CreateDatabase
<1>2. CASE databases[Lower[username[c]]] = None
  <2>1. /\ databases' = [databases EXCEPT ![Lower[username[c]]] = Empty]
        /\ at' = [at EXCEPT ![c] = "created"]
        /\ at[c] = "dropped"
        /\ UNCHANGED << Rest, priv_key, cutShort >>
    BY <1>2 DEF CreateDatabase, Becomes
  <2>2. Types'
    BY <2>1, EmptyIsDatabase DEF TypeInv, Types, Rest, Places
  <2>3. ASSUME NEW d \in Clients PROVE HasDatabase(d)'
    BY <2>1, FoldedName, EmptyIsDatabase DEF TypeInv, Types, Rest, HasDatabase
  <2>4. ASSUME NEW d \in Clients PROVE HasKey(d)'
    BY <2>1 DEF TypeInv, Types, Rest, HasKey, Making
  <2> QED
    BY <2>2, <2>3, <2>4 DEF TypeInv
<1> QED
  BY <1>1, <1>2

LEMMA ConnectTypes ==
    ASSUME TypeInv, NEW c \in Clients, ConnectToNew(c)
    PROVE  TypeInv'
<1>1. CASE databases[username[c]] = None
  BY <1>1, EndingTypes DEF ConnectToNew
<1>2. CASE databases[username[c]] # None
  BY <1>2 DEF ConnectToNew, Becomes, TypeInv, Types, Rest, HasDatabase, HasKey,
              Making, Places
<1> QED
  BY <1>1, <1>2

\* An open database can be written to.
LEMMA OpenDatabases ==
    ASSUME TypeInv, NEW c \in Clients, at[c] \in {"connected", "keyed", "chat"}
    PROVE  /\ username[c] \in Names /\ password[c] \in Passwords
           /\ databases[username[c]] \in Database /\ databases[username[c]] # None
BY DEF TypeInv, Types, HasDatabase

\* What a step does that writes d to the database c has open.
LEMMA WritingTypes ==
    ASSUME TypeInv, NEW c \in Clients, at[c] \in {"connected", "keyed", "chat"},
           NEW e \in Database,
           databases' = [databases EXCEPT ![username[c]] = e]
    PROVE  /\ databases' \in [Names -> Database \cup {None}]
           /\ \A u \in Names : databases[u] # None => databases'[u] # None
BY OpenDatabases, NoneAssumption DEF TypeInv, Types

LEMMA StoreKeyTypes ==
    ASSUME TypeInv, NEW c \in Clients, StoreKey(c)
    PROVE  TypeInv'
<1> DEFINE k == [key |-> priv_key[c], under |-> password[c]]
           e == [databases[username[c]] EXCEPT !.privatekey = k]
<1>1. at[c] = "connected" /\ priv_key[c] \in Key /\ k \in PrivateKey
  BY OpenDatabases DEF StoreKey, TypeInv, HasKey, Making, Key, PrivateKey
<1>2. e \in Database
  BY <1>1, OpenDatabases DEF Database
<1>3. databases' = [databases EXCEPT ![username[c]] = e]
  BY DEF StoreKey
<1> HIDE DEF e
<1>4. /\ databases' \in [Names -> Database \cup {None}]
      /\ \A u \in Names : databases[u] # None => databases'[u] # None
  BY <1>1, <1>2, <1>3, WritingTypes
<1>5. at' = [at EXCEPT ![c] = "keyed"] /\ UNCHANGED << Rest, priv_key, cutShort >>
  BY DEF StoreKey, Becomes
<1> QED
  BY <1>1, <1>4, <1>5 DEF TypeInv, Types, Rest, HasDatabase, HasKey, Making, Places

LEMMA CreateTablesTypes ==
    ASSUME TypeInv, NEW c \in Clients, CreateTables(c)
    PROVE  TypeInv'
<1> DEFINE e == [databases[username[c]] EXCEPT !.tables = TRUE]
<1>1. at[c] = "keyed"
  BY DEF CreateTables
<1>2. e \in Database
  BY <1>1, OpenDatabases DEF Database
<1>3. databases' = [databases EXCEPT ![username[c]] = e]
  BY DEF CreateTables
<1> HIDE DEF e
<1>4. /\ databases' \in [Names -> Database \cup {None}]
      /\ \A u \in Names : databases[u] # None => databases'[u] # None
  BY <1>1, <1>2, <1>3, WritingTypes
<1>5. at' = [at EXCEPT ![c] = "chat"] /\ UNCHANGED << Rest, priv_key, cutShort >>
  BY DEF CreateTables, Becomes
<1> QED
  BY <1>1, <1>4, <1>5 DEF TypeInv, Types, Rest, HasDatabase, HasKey, Making, Places

LEMMA OpenTypes ==
    ASSUME TypeInv, NEW c \in Clients, OpenDatabase(c)
    PROVE  TypeInv'
<1>1. username[c] \in Names
  BY FoldedName DEF OpenDatabase
<1>2. databases[username[c]] \in Database /\ databases[username[c]] # None
  BY <1>1 DEF OpenDatabase, Opens, TypeInv, Types
<1>3. databases[username[c]].privatekey.key \in Key
  BY <1>2 DEF OpenDatabase, Opens, Database, PrivateKey
<1>4. /\ priv_key' = [priv_key EXCEPT ![c] = databases[username[c]].privatekey.key]
      /\ at' = [at EXCEPT ![c] = "chat"] /\ at[c] = "accepted"
      /\ UNCHANGED << Rest, databases, cutShort >>
  BY DEF OpenDatabase, Becomes
<1>5. Types'
  BY <1>3, <1>4 DEF TypeInv, Types, Rest, Places
<1>6. ASSUME NEW d \in Clients PROVE HasDatabase(d)' /\ HasKey(d)'
  BY <1>2, <1>4 DEF TypeInv, Types, Rest, HasDatabase, HasKey, Making
<1> QED
  BY <1>5, <1>6 DEF TypeInv

LEMMA StoreTypes ==
    ASSUME TypeInv, NEW c \in Clients, at[c] = "chat", Store(c)
    PROVE  /\ databases' \in [Names -> Database \cup {None}]
           /\ \A u \in Names : databases[u] # None => databases'[u] # None
<1> DEFINE e == [databases[username[c]] EXCEPT !.history = @ \cup {password[c]}]
<1>1. e \in Database
  BY OpenDatabases DEF Database
<1>2. databases' = [databases EXCEPT ![username[c]] = e]
  BY DEF Store
<1> HIDE DEF e
<1> QED
  BY <1>1, <1>2, WritingTypes

LEMMA WriteTypes ==
    ASSUME TypeInv, NEW c \in Clients, NEW v \in Names, WriteTo(c, v)
    PROVE  TypeInv'
<1> DEFINE k == usercreds[v].userpubkey
<1>1. k \in Fresh
  BY DEF WriteTo, TypeInv, Types, Account
<1>2. mail' \subseteq Sealed
  BY <1>1 DEF WriteTo, TypeInv, Types, Sealed
<1>3. /\ databases' \in [Names -> Database \cup {None}]
      /\ \A u \in Names : databases[u] # None => databases'[u] # None
  BY StoreTypes DEF WriteTo
<1>4. UNCHANGED << usercreds, request, at, username, password, newuser, priv_key,
                   attempts, cutShort >>
  BY DEF WriteTo
<1> QED
  BY <1>2, <1>3, <1>4 DEF TypeInv, Types, HasDatabase, HasKey

LEMMA ReadTypes ==
    ASSUME TypeInv, NEW c \in Clients, NEW m \in mail, ReadMessage(c, m)
    PROVE  TypeInv'
<1>1. /\ databases' \in [Names -> Database \cup {None}]
      /\ \A u \in Names : databases[u] # None => databases'[u] # None
  BY StoreTypes DEF ReadMessage
<1>2. UNCHANGED << Rest, at, priv_key, cutShort >>
  BY DEF ReadMessage
<1> QED
  BY <1>1, <1>2 DEF TypeInv, Types, Rest, HasDatabase, HasKey

LEMMA NextTypes == TypeInv /\ [Next]_vars => TypeInv'
<1> SUFFICES ASSUME TypeInv, [Next]_vars PROVE TypeInv'
  OBVIOUS
<1>1. ASSUME NEW c \in Clients, ClientStep(c) PROVE TypeInv'
  <2>1. CASE \E m \in mail : ReadFails(c, m)
    BY <2>1, EndingTypes DEF ReadFails
  <2>2. CASE OpenFails(c) \/ Exit(c)
    BY <2>2, EndingTypes DEF OpenFails, Exit
  <2> QED
    BY <1>1, <2>1, <2>2, SubmitTypes, DropTypes, CreateDatabaseTypes, ConnectTypes,
       StoreKeyTypes, CreateTablesTypes, OpenTypes, WriteTypes, ReadTypes
       DEF ClientStep
<1>2. CASE UNCHANGED vars
  BY <1>2 DEF vars, clientVars, TypeInv, Types, HasDatabase, HasKey
<1> QED
  BY <1>1, <1>2, AnswersTypes DEF Next

THEOREM TypesHold == Spec => []TypeInv
BY InitTypes, NextTypes, PTL DEF Spec

\* Every reachable state is well typed, and whoever writes to a database has it
\* open, although clients drop and create databases of each other's names.
THEOREM TypeCorrect == Spec => []TypeOK
BY TypesHold, TypeInvTypes, PTL

(***************************************************************************)
(* A session has the key of its account, and the history is readable.      *)
(***************************************************************************)
Accepted == {"accepted", "dropped", "created", "connected", "keyed", "chat"}

\* A client waits for the answer to what it has typed last.
Asked(c) ==
    request[c] # None =>
        /\ at[c] \in {"waiting", "ended"}
        /\ at[c] = "waiting" =>
               /\ request[c].username = username[c]
               /\ request[c].password = password[c]
               /\ request[c].newuser = newuser[c]
               /\ newuser[c] => request[c].pub_key = priv_key[c]

\* An accepted client has the password of its account, and if it has made the
\* account, the key.
Knows(c) ==
    at[c] \in Accepted =>
        /\ usercreds[username[c]] # None
        /\ usercreds[username[c]].userpwd = password[c]
        /\ newuser[c] => usercreds[username[c]].userpubkey = priv_key[c]

HoldsKey(c) ==
    at[c] = "chat" =>
        \/ priv_key[c] = usercreds[username[c]].userpubkey
        \/ databases[username[c]].old

\* The key a client has stored stays there until it has made the tables.
HasStored(c) ==
    at[c] = "keyed" =>
        databases[username[c]].privatekey =
            [key |-> usercreds[username[c]].userpubkey,
             under |-> usercreds[username[c]].userpwd]

\* A database of this installation belongs to the account of its name.
Belongs(u) ==
    databases[u] # None /\ ~databases[u].old =>
        /\ databases[u].privatekey # None =>
               /\ usercreds[u] # None
               /\ databases[u].privatekey =
                      [key |-> usercreds[u].userpubkey, under |-> usercreds[u].userpwd]
        /\ \A p \in databases[u].history : usercreds[u] # None /\ p = usercreds[u].userpwd

KeysInv ==
    /\ \A c \in Clients : Asked(c)
    /\ \A c \in Clients : Knows(c)
    /\ \A c \in Clients : HoldsKey(c) /\ HasStored(c)
    /\ \A u \in Names : Belongs(u)

LEMMA InitKeys == Init => KeysInv
<1> SUFFICES ASSUME Init PROVE KeysInv
  OBVIOUS
<1>1. ASSUME NEW u \in Names, databases[u] # None PROVE databases[u].old
  BY <1>1 DEF Init, Old
<1> QED
  BY <1>1 DEF Init, KeysInv, Asked, Knows, HoldsKey, HasStored, Belongs, Accepted

LEMMA SubmitKeys ==
    ASSUME TypeInv, KeysInv, NEW c \in Clients, NEW u \in Names, NEW p \in Passwords,
           NEW new \in BOOLEAN, Submit(c, u, p, new)
    PROVE  KeysInv'
<1> DEFINE key == attempts + 1
           r == [username |-> u, password |-> p, newuser |-> new,
                 pub_key |-> IF new THEN key ELSE None]
<1>1. /\ request' = [request EXCEPT ![c] = r]
      /\ priv_key' = IF new THEN [priv_key EXCEPT ![c] = key] ELSE priv_key
      /\ at' = [at EXCEPT ![c] = "waiting"]
      /\ username' = [username EXCEPT ![c] = u]
      /\ password' = [password EXCEPT ![c] = p]
      /\ newuser' = [newuser EXCEPT ![c] = new]
      /\ UNCHANGED << usercreds, databases >>
  BY DEF Submit, Becomes
<1> HIDE DEF key
<1>2. ASSUME NEW d \in Clients PROVE Asked(d)' /\ Knows(d)' /\ HoldsKey(d)' /\ HasStored(d)'
  BY <1>1 DEF KeysInv, TypeInv, Types, Asked, Knows, HoldsKey, HasStored, Accepted
<1>3. ASSUME NEW v \in Names PROVE Belongs(v)'
  BY <1>1 DEF KeysInv, Belongs
<1> QED
  BY <1>2, <1>3 DEF KeysInv

LEMMA CreateAccountKeys ==
    ASSUME TypeInv, KeysInv, NEW c \in Clients, CreateAccount(c)
    PROVE  KeysInv'
<1> DEFINE r == request[c]
<1>1. r \in Request /\ r.newuser /\ usercreds[r.username] = None
  BY DEF TypeInv, Types, CreateAccount, IsNew
<1>2. r.username \in Names
  BY <1>1 DEF Request
<1>3. /\ usercreds' = [usercreds EXCEPT ![r.username] =
                          [userpwd |-> r.password, userpubkey |-> r.pub_key]]
      /\ request' = [request EXCEPT ![c] = None]
      /\ at' = IF at[c] = "waiting" THEN [at EXCEPT ![c] = "accepted"] ELSE at
      /\ UNCHANGED << databases, username, password, newuser, priv_key >>
  BY DEF CreateAccount, Answer
<1>4. /\ usercreds'[r.username] # None
      /\ usercreds'[r.username].userpwd = r.password
      /\ usercreds'[r.username].userpubkey = r.pub_key
  <2>1. usercreds'[r.username] = [userpwd |-> r.password, userpubkey |-> r.pub_key]
    BY <1>2, <1>3 DEF TypeInv, Types
  <2>2. r.password \in Passwords /\ r.pub_key \in Fresh
    BY <1>1, NoneAssumption DEF Request, TypeInv, HasKey, CreateAccount
  <2>3. usercreds'[r.username] \in Account
    BY <2>1, <2>2 DEF Account
  <2> QED
    BY <2>1, <2>3, NoneAssumption
<1>5. \A u \in Names : u # r.username => usercreds'[u] = usercreds[u]
  BY <1>3 DEF TypeInv, Types
<1>6. ASSUME NEW d \in Clients PROVE Asked(d)'
  BY <1>3 DEF KeysInv, TypeInv, Types, Asked
<1>7. ASSUME NEW d \in Clients PROVE Knows(d)'
  <2>1. CASE d = c /\ at[c] = "waiting"
    <3>1. /\ r.username = username[c] /\ r.password = password[c]
          /\ newuser[c] => r.pub_key = priv_key[c]
      BY <2>1 DEF KeysInv, Asked, CreateAccount
    <3> QED
      BY <1>3, <1>4, <2>1, <3>1 DEF Knows
  <2>2. CASE ~(d = c /\ at[c] = "waiting")
    <3>1. SUFFICES ASSUME at[d] \in Accepted PROVE Knows(d)'
      BY <1>3, <2>2 DEF Knows, TypeInv, Types
    <3>2. username[d] \in Names /\ usercreds[username[d]] # None
      BY <3>1, FoldedName DEF KeysInv, Knows, Accepted
    <3>3. usercreds'[username[d]] = usercreds[username[d]]
      BY <1>1, <1>5, <3>2
    <3> QED
      BY <1>3, <3>1, <3>3 DEF KeysInv, Knows
  <2> QED
    BY <2>1, <2>2
<1>8. ASSUME NEW d \in Clients PROVE HoldsKey(d)' /\ HasStored(d)'
  <2>1. SUFFICES ASSUME at[d] \in {"keyed", "chat"} PROVE HoldsKey(d)' /\ HasStored(d)'
    BY <1>3 DEF HoldsKey, HasStored, TypeInv, Types
  <2>2. username[d] \in Names /\ usercreds[username[d]] # None
    BY <2>1, FoldedName DEF KeysInv, Knows, Accepted
  <2>3. usercreds'[username[d]] = usercreds[username[d]]
    BY <1>1, <1>5, <2>2
  <2> QED
    BY <1>3, <2>1, <2>3 DEF KeysInv, HoldsKey, HasStored
<1>9. ASSUME NEW u \in Names PROVE Belongs(u)'
  <2>1. CASE u = r.username
    BY <1>1, <1>3, <2>1 DEF KeysInv, Belongs
  <2>2. CASE u # r.username
    BY <1>3, <1>5, <2>2 DEF KeysInv, Belongs
  <2> QED
    BY <2>1, <2>2
<1> QED
  BY <1>6, <1>7, <1>8, <1>9 DEF KeysInv

LEMMA OtherAnswersKeys ==
    ASSUME TypeInv, KeysInv, NEW c \in Clients, Authenticate(c) \/ Refuse(c)
    PROVE  KeysInv'
<1>1. /\ request' = [request EXCEPT ![c] = None]
      /\ at' \in {at, [at EXCEPT ![c] = "accepted"], [at EXCEPT ![c] = "prompt"]}
      /\ UNCHANGED << usercreds, databases, username, password, newuser, priv_key >>
  BY DEF Authenticate, Refuse, Answer
<1>2. at'[c] = "accepted" /\ at[c] # "accepted" => Knows(c)'
  BY DEF Authenticate, Refuse, Answer, IsAuthentic, KeysInv, Asked, Knows, Accepted,
         TypeInv, Types
<1>3. ASSUME NEW d \in Clients PROVE Asked(d)'
  BY <1>1 DEF KeysInv, TypeInv, Types, Asked
<1>4. ASSUME NEW d \in Clients PROVE Knows(d)' /\ HoldsKey(d)' /\ HasStored(d)'
  BY <1>1, <1>2 DEF KeysInv, TypeInv, Types, Knows, HoldsKey, HasStored, Accepted
<1>5. ASSUME NEW u \in Names PROVE Belongs(u)'
  BY <1>1 DEF KeysInv, Belongs
<1> QED
  BY <1>3, <1>4, <1>5 DEF KeysInv

LEMMA EndingKeys ==
    ASSUME TypeInv, KeysInv, NEW c \in Clients, Ends(c),
           UNCHANGED << Rest, databases, priv_key >>
    PROVE  KeysInv'
<1>1. /\ at' = [at EXCEPT ![c] = "ended"]
      /\ UNCHANGED << usercreds, request, username, password, newuser, databases, priv_key >>
  BY DEF Ends, Becomes, Rest
<1>2. ASSUME NEW d \in Clients PROVE Asked(d)' /\ Knows(d)' /\ HoldsKey(d)' /\ HasStored(d)'
  BY <1>1 DEF KeysInv, TypeInv, Types, Asked, Knows, HoldsKey, HasStored, Accepted
<1>3. ASSUME NEW u \in Names PROVE Belongs(u)'
  BY <1>1 DEF KeysInv, Belongs
<1> QED
  BY <1>2, <1>3 DEF KeysInv

\* A step of a client on its way to the chat that drops or creates a database
\* nobody has open.
LEMMA ReplacingKeys ==
    ASSUME TypeInv, KeysInv, NEW c \in Clients, NEW name \in Names,
           NEW new \in {None, Empty}, NEW place \in {"dropped", "created"},
           at[c] \in {"accepted", "dropped"},
           ~InUse(name),
           databases' = [databases EXCEPT ![name] = new],
           at' = [at EXCEPT ![c] = place],
           UNCHANGED << Rest, priv_key >>
    PROVE  KeysInv'
<1>1. UNCHANGED << usercreds, request, username, password, newuser, priv_key >>
  BY DEF Rest
<1>2. ASSUME NEW d \in Clients PROVE Asked(d)' /\ Knows(d)'
  BY <1>1 DEF KeysInv, TypeInv, Types, Asked, Knows, Accepted
<1>3. ASSUME NEW d \in Clients PROVE HoldsKey(d)' /\ HasStored(d)'
  BY <1>1 DEF KeysInv, TypeInv, Types, HoldsKey, HasStored, InUse
<1>4. ASSUME NEW u \in Names PROVE Belongs(u)'
  BY <1>1 DEF KeysInv, TypeInv, Types, Belongs, Empty
<1> QED
  BY <1>2, <1>3, <1>4 DEF KeysInv

LEMMA DropKeys ==
    ASSUME TypeInv, KeysInv, NEW c \in Clients, DropDatabase(c)
    PROVE  KeysInv'
<1>1. CASE InUse(Lower[username[c]])
  BY <1>1, EndingKeys DEF DropDatabase
<1>2. CASE ~InUse(Lower[username[c]])
  BY <1>2, FoldedName, ReplacingKeys DEF DropDatabase, Becomes
<1> QED
  BY <1>1, <1>2

LEMMA CreateDatabaseKeys ==
    ASSUME TypeInv, KeysInv, NEW c \in Clients, CreateDatabase(c)
    PROVE  KeysInv'
<1>1. CASE databases[Lower[username[c]]] # None
  BY <1>1, EndingKeys DEF CreateDatabase
<1>2. CASE databases[Lower[username[c]]] = None
  <2>1. ~InUse(Lower[username[c]])
    BY <1>2 DEF InUse, TypeInv, HasDatabase
  <2> QED
    BY <1>2, <2>1, FoldedName, ReplacingKeys DEF CreateDatabase, Becomes
<1> QED
  BY <1>1, <1>2

LEMMA ConnectKeys ==
    ASSUME TypeInv, KeysInv, NEW c \in Clients, ConnectToNew(c)
    PROVE  KeysInv'
<1>1. CASE databases[username[c]] = None
  BY <1>1, EndingKeys DEF ConnectToNew
<1>2. CASE databases[username[c]] # None
  BY <1>2 DEF ConnectToNew, Becomes, Rest, TypeInv, Types, KeysInv, Asked, Knows,
              HoldsKey, HasStored, Belongs, Accepted
<1> QED
  BY <1>1, <1>2

\* Steps that write to the database c has open, and leave its age alone.
LEMMA StoreKeyKeys ==
    ASSUME TypeInv, KeysInv, NEW c \in Clients, StoreKey(c)
    PROVE  KeysInv'
<1> DEFINE k == [key |-> priv_key[c], under |-> password[c]]
           e == [databases[username[c]] EXCEPT !.privatekey = k]
<1>1. /\ at[c] = "connected" /\ at' = [at EXCEPT ![c] = "keyed"]
      /\ databases' = [databases EXCEPT ![username[c]] = e]
      /\ UNCHANGED << usercreds, request, username, password, newuser, priv_key >>
  BY DEF StoreKey, Becomes, Rest
<1>2. /\ username[c] \in Names /\ databases[username[c]] \in Database
      /\ databases[username[c]] # None
  BY <1>1, OpenDatabases
<1>3. /\ e.old = databases[username[c]].old /\ e.history = databases[username[c]].history
      /\ e.privatekey = k
  BY <1>2 DEF Database
<1>4. /\ usercreds[username[c]] # None /\ usercreds[username[c]].userpwd = password[c]
      /\ usercreds[username[c]].userpubkey = priv_key[c]
  BY <1>1 DEF KeysInv, Knows, Accepted, TypeInv, HasKey
<1> HIDE DEF e
<1>5. ASSUME NEW d \in Clients PROVE Asked(d)' /\ Knows(d)'
  BY <1>1 DEF KeysInv, TypeInv, Types, Asked, Knows, Accepted
<1>6. ASSUME NEW d \in Clients PROVE HoldsKey(d)' /\ HasStored(d)'
  <2>1. databases'[username[c]] = e
    BY <1>1, <1>2 DEF TypeInv, Types
  <2>2. HoldsKey(d)'
    BY <1>1, <1>2, <1>3 DEF KeysInv, TypeInv, Types, HoldsKey
  <2>3. ASSUME username[d] = username[c] PROVE HasStored(d)'
    BY <1>1, <1>3, <1>4, <2>1, <2>3 DEF HasStored
  <2>4. ASSUME username[d] # username[c] PROVE HasStored(d)'
    <3>1. d # c
      BY <2>4
    <3>2. databases'[username[d]] = databases[username[d]] /\ at'[d] = at[d]
      BY <1>1, <2>4, <3>1 DEF TypeInv, Types
    <3> QED
      BY <1>1, <3>2 DEF KeysInv, HasStored
  <2> QED
    BY <2>2, <2>3, <2>4
<1>7. ASSUME NEW u \in Names PROVE Belongs(u)'
  <2>1. CASE u = username[c]
    BY <1>1, <1>2, <1>3, <1>4, <2>1 DEF KeysInv, TypeInv, Types, Belongs
  <2>2. CASE u # username[c]
    BY <1>1, <2>2 DEF KeysInv, TypeInv, Types, Belongs
  <2> QED
    BY <2>1, <2>2
<1> QED
  BY <1>5, <1>6, <1>7 DEF KeysInv

LEMMA CreateTablesKeys ==
    ASSUME TypeInv, KeysInv, NEW c \in Clients, CreateTables(c)
    PROVE  KeysInv'
<1> DEFINE e == [databases[username[c]] EXCEPT !.tables = TRUE]
<1>1. /\ at[c] = "keyed" /\ at' = [at EXCEPT ![c] = "chat"]
      /\ databases' = [databases EXCEPT ![username[c]] = e]
      /\ UNCHANGED << usercreds, request, username, password, newuser, priv_key >>
  BY DEF CreateTables, Becomes, Rest
<1>2. /\ username[c] \in Names /\ databases[username[c]] \in Database
      /\ databases[username[c]] # None
  BY <1>1, OpenDatabases
<1>3. /\ e.old = databases[username[c]].old /\ e.history = databases[username[c]].history
      /\ e.privatekey = databases[username[c]].privatekey
  BY <1>2 DEF Database
<1> HIDE DEF e
<1>4. ASSUME NEW d \in Clients PROVE Asked(d)' /\ Knows(d)'
  BY <1>1 DEF KeysInv, TypeInv, Types, Asked, Knows, Accepted
<1>5. ASSUME NEW d \in Clients PROVE HoldsKey(d)' /\ HasStored(d)'
  BY <1>1, <1>2, <1>3 DEF KeysInv, TypeInv, Types, HoldsKey, HasStored, HasKey, Knows, Accepted
<1>6. ASSUME NEW u \in Names PROVE Belongs(u)'
  BY <1>1, <1>2, <1>3 DEF KeysInv, TypeInv, Types, Belongs
<1> QED
  BY <1>4, <1>5, <1>6 DEF KeysInv

LEMMA OpenKeys ==
    ASSUME TypeInv, KeysInv, NEW c \in Clients, OpenDatabase(c)
    PROVE  KeysInv'
<1> DEFINE d == databases[username[c]]
<1>1. /\ at[c] = "accepted" /\ ~newuser[c] /\ at' = [at EXCEPT ![c] = "chat"]
      /\ priv_key' = [priv_key EXCEPT ![c] = d.privatekey.key]
      /\ d # None /\ d.privatekey # None
      /\ UNCHANGED << usercreds, request, username, password, newuser, databases >>
  BY DEF OpenDatabase, Opens, Becomes, Rest
<1>2. username[c] \in Names
  BY <1>1, FoldedName
<1>3. ASSUME ~d.old PROVE d.privatekey.key = usercreds[username[c]].userpubkey
  <2>1. d.privatekey = [key |-> usercreds[username[c]].userpubkey,
                        under |-> usercreds[username[c]].userpwd]
    BY <1>1, <1>2, <1>3 DEF KeysInv, Belongs
  <2> QED
    BY <2>1
<1>4. ASSUME NEW e \in Clients PROVE Asked(e)' /\ Knows(e)'
  BY <1>1 DEF KeysInv, TypeInv, Types, Asked, Knows, Accepted
<1>5. ASSUME NEW e \in Clients PROVE HoldsKey(e)' /\ HasStored(e)'
  BY <1>1, <1>3 DEF KeysInv, TypeInv, Types, HoldsKey, HasStored
<1>6. ASSUME NEW u \in Names PROVE Belongs(u)'
  BY <1>1 DEF KeysInv, Belongs
<1> QED
  BY <1>4, <1>5, <1>6 DEF KeysInv

\* An entry in the history, of a message written or read.
LEMMA StoreKeys ==
    ASSUME TypeInv, KeysInv, NEW c \in Clients, at[c] = "chat", Store(c),
           UNCHANGED << usercreds, request, at, username, password, newuser, priv_key >>
    PROVE  KeysInv'
<1> DEFINE e == [databases[username[c]] EXCEPT !.history = @ \cup {password[c]}]
<1>1. databases' = [databases EXCEPT ![username[c]] = e]
  BY DEF Store
<1>2. /\ username[c] \in Names /\ databases[username[c]] \in Database
      /\ databases[username[c]] # None
  BY OpenDatabases
<1>3. /\ e.old = databases[username[c]].old
      /\ e.privatekey = databases[username[c]].privatekey
      /\ e.history = databases[username[c]].history \cup {password[c]}
  BY <1>2 DEF Database
<1>4. usercreds[username[c]] # None /\ usercreds[username[c]].userpwd = password[c]
  BY DEF KeysInv, Knows, Accepted
<1> HIDE DEF e
<1>5. ASSUME NEW d \in Clients PROVE Asked(d)' /\ Knows(d)'
  BY DEF KeysInv, Asked, Knows
<1>6. ASSUME NEW d \in Clients PROVE HoldsKey(d)' /\ HasStored(d)'
  BY <1>1, <1>2, <1>3 DEF KeysInv, TypeInv, Types, HoldsKey, HasStored
<1>7. ASSUME NEW u \in Names PROVE Belongs(u)'
  <2>1. CASE u = username[c]
    <3>1. databases'[u] = e
      BY <1>1, <2>1 DEF TypeInv, Types
    <3> QED
      BY <1>2, <1>3, <1>4, <2>1, <3>1 DEF KeysInv, Belongs
  <2>2. CASE u # username[c]
    BY <1>1, <2>2 DEF KeysInv, TypeInv, Types, Belongs
  <2> QED
    BY <2>1, <2>2
<1> QED
  BY <1>5, <1>6, <1>7 DEF KeysInv

LEMMA NextKeys == TypeInv /\ KeysInv /\ [Next]_vars => KeysInv'
<1> SUFFICES ASSUME TypeInv, KeysInv, [Next]_vars PROVE KeysInv'
  OBVIOUS
<1>1. ASSUME NEW c \in Clients, ClientStep(c) PROVE KeysInv'
  <2>1. CASE \E m \in mail : ReadFails(c, m)
    BY <2>1, EndingKeys DEF ReadFails
  <2>2. CASE OpenFails(c) \/ Exit(c)
    BY <2>2, EndingKeys DEF OpenFails, Exit
  <2>3. CASE \E v \in Names : WriteTo(c, v)
    BY <2>3, StoreKeys DEF WriteTo
  <2>4. CASE \E m \in mail : ReadMessage(c, m)
    BY <2>4, StoreKeys DEF ReadMessage, Rest
  <2> QED
    BY <1>1, <2>1, <2>2, <2>3, <2>4, SubmitKeys, DropKeys, CreateDatabaseKeys,
       ConnectKeys, StoreKeyKeys, CreateTablesKeys, OpenKeys DEF ClientStep
<1>2. ASSUME NEW c \in Clients, LoadBalancerStep(c) PROVE KeysInv'
  BY <1>2, CreateAccountKeys, OtherAnswersKeys DEF LoadBalancerStep
<1>3. CASE UNCHANGED vars
  BY <1>3 DEF vars, clientVars, KeysInv, Asked, Knows, HoldsKey, HasStored, Belongs
<1> QED
  BY <1>1, <1>2, <1>3 DEF Next

THEOREM KeysHold == Spec => []KeysInv
BY InitKeys, NextKeys, TypesHold, PTL DEF Spec

\* A session decrypts with the private key of its account, whatever was
\* refused before and whoever drops and creates databases meanwhile.
THEOREM SessionsHoldTheirKey == Spec => []OpensOwnMail
<1>1. KeysInv => OpensOwnMail
  BY DEF KeysInv, HoldsKey, OpensOwnMail
<1> QED
  BY <1>1, KeysHold, PTL

\* The history of a user is encrypted with one password, the user's.
THEOREM HistoriesAreReadable == Spec => []HistoryReadable
<1>1. ASSUME TypeInv, KeysInv PROVE HistoryReadable
  <2> SUFFICES ASSUME NEW u \in Names, databases[u] # None, ~databases[u].old,
                      databases[u].history # {}
               PROVE  usercreds[u] # None /\ databases[u].history = {usercreds[u].userpwd}
    BY DEF HistoryReadable
  <2>1. \A p \in databases[u].history : usercreds[u] # None /\ p = usercreds[u].userpwd
    BY <1>1 DEF KeysInv, Belongs
  <2> QED
    BY <2>1
<1> QED
  BY <1>1, KeysHold, TypesHold, PTL

(***************************************************************************)
(* An account that is made, and not cut short, can be used.                *)
(***************************************************************************)
\* What u must not have for the property to say something of u.
Excused(u) ==
    \/ Lower[u] # u \/ usercreds[u] = None \/ u \in cutShort
    \/ \E v \in Names \ {u} : Lower[v] = u /\ usercreds[v] # None
    \/ \E c \in Clients : username[c] = u /\ Unfinished(c)

LEMMA UsableOrExcused == AccountUsable <=> \A u \in Names : Usable(u) \/ Excused(u)
BY DEF AccountUsable, Excused

LEMMA EndingUsable ==
    ASSUME TypeInv, AccountUsable, NEW c \in Clients, Ends(c),
           UNCHANGED << Rest, databases, priv_key >>
    PROVE  AccountUsable'
<1>1. UNCHANGED << usercreds, username, newuser, databases >>
  BY DEF Rest
<1>2. at' = [at EXCEPT ![c] = "ended"]
  BY DEF Ends, Becomes
<1>3. cutShort' = IF Unfinished(c) THEN cutShort \cup {username[c]} ELSE cutShort
  BY DEF Ends
<1>4. \A d \in Clients : d # c => (Unfinished(d)' <=> Unfinished(d))
  BY <1>1, <1>2 DEF Unfinished, TypeInv, Types
<1>5. ASSUME NEW u \in Names PROVE Usable(u)' \/ Excused(u)'
  <2>1. CASE Usable(u)
    BY <1>1, <2>1 DEF Usable
  <2>2. CASE Excused(u)
    BY <1>1, <1>3, <1>4, <2>2 DEF Excused
  <2> QED
    BY <2>1, <2>2, UsableOrExcused
<1> QED
  BY <1>5 DEF AccountUsable, Excused

LEMMA CreateAccountUsable ==
    ASSUME TypeInv, KeysInv, AccountUsable, NEW c \in Clients, CreateAccount(c)
    PROVE  AccountUsable'
<1> DEFINE r == request[c]
<1>1. r.newuser /\ usercreds[r.username] = None /\ r.username \in Names
  BY DEF CreateAccount, IsNew, TypeInv, Types, Request
<1>2. /\ usercreds' = [usercreds EXCEPT ![r.username] =
                          [userpwd |-> r.password, userpubkey |-> r.pub_key]]
      /\ cutShort' = IF at[c] = "waiting" THEN cutShort ELSE cutShort \cup {r.username}
      /\ at' = IF at[c] = "waiting" THEN [at EXCEPT ![c] = "accepted"] ELSE at
      /\ UNCHANGED << databases, username, newuser >>
  BY DEF CreateAccount, Answer
<1>3. \A d \in Clients : Unfinished(d) => Unfinished(d)'
  BY <1>2 DEF Unfinished, TypeInv, Types
<1>4. usercreds'[r.username] # None
  <2>1. usercreds'[r.username] = [userpwd |-> r.password, userpubkey |-> r.pub_key]
    BY <1>1, <1>2 DEF TypeInv, Types
  <2>2. [userpwd |-> r.password, userpubkey |-> r.pub_key] \in Account
    BY <1>1, NoneAssumption DEF CreateAccount, TypeInv, Types, Request, HasKey, Account
  <2> QED
    BY <2>1, <2>2, NoneAssumption
<1>5. \A u \in Names : u # r.username => usercreds'[u] = usercreds[u]
  BY <1>2 DEF TypeInv, Types
<1>6. ASSUME NEW u \in Names PROVE Usable(u)' \/ Excused(u)'
  <2>1. CASE u = r.username
    <3>1. CASE at[c] = "waiting"
      <4>1. username[c] = u /\ newuser[c]
        BY <1>1, <2>1, <3>1 DEF CreateAccount, KeysInv, Asked
      <4>2. Unfinished(c)' /\ username'[c] = u
        BY <1>2, <3>1, <4>1 DEF Unfinished, TypeInv, Types
      <4> QED
        BY <4>2 DEF Excused
    <3>2. CASE at[c] # "waiting"
      BY <1>2, <2>1, <3>2 DEF Excused
    <3> QED
      BY <3>1, <3>2
  <2>2. CASE u # r.username /\ Usable(u)
    BY <1>2, <1>5, <2>2 DEF Usable
  <2>3. CASE u # r.username /\ Excused(u)
    BY <1>2, <1>3, <1>4, <1>5, <2>3 DEF Excused
  <2> QED
    BY <2>1, <2>2, <2>3, UsableOrExcused
<1> QED
  BY <1>6 DEF AccountUsable, Excused

\* Steps of a client that leave the accounts alone and nothing of another
\* user's database: what they do to the one of their own name is left to show.
LEMMA OwnDatabaseUsable ==
    ASSUME TypeInv, AccountUsable, NEW c \in Clients, NEW name \in Names,
           UNCHANGED << usercreds, cutShort >>,
           \A d \in Clients : Unfinished(d) /\ username[d] # name =>
               Unfinished(d)' /\ username'[d] = username[d],
           \A u \in Names : u # name => databases'[u] = databases[u],
           Usable(name)' \/ Excused(name)'
    PROVE  AccountUsable'
<1>1. ASSUME NEW u \in Names PROVE Usable(u)' \/ Excused(u)'
  <2>1. CASE u # name /\ Usable(u)
    BY <2>1 DEF Usable
  <2>2. CASE u # name /\ Excused(u)
    BY <2>2 DEF Excused
  <2> QED
    BY <2>1, <2>2, UsableOrExcused
<1> QED
  BY <1>1 DEF AccountUsable, Excused

\* Nothing is dropped or created under the name of an account but by the client
\* that makes it, or one that makes an account of another spelling.
LEMMA ReplacingUsable ==
    ASSUME TypeInv, KeysInv, AccountUsable, NEW c \in Clients, NEW new,
           NEW place \in {"dropped", "created"},
           at[c] \in {"accepted", "dropped"}, newuser[c],
           databases' = [databases EXCEPT ![Lower[username[c]]] = new],
           at' = [at EXCEPT ![c] = place],
           UNCHANGED << Rest, cutShort >>
    PROVE  AccountUsable'
<1> DEFINE name == Lower[username[c]]
<1>1. name \in Names /\ username[c] \in Names /\ usercreds[username[c]] # None
  BY FoldedName DEF KeysInv, Knows, Accepted
<1>2. UNCHANGED << usercreds, username, newuser >>
  BY DEF Rest
<1>3. \A d \in Clients : Unfinished(d) => Unfinished(d)'
  BY <1>2 DEF Unfinished, TypeInv, Types
<1>4. Unfinished(c)'
  BY <1>2 DEF Unfinished, TypeInv, Types
<1>5. \A u \in Names : u # name => databases'[u] = databases[u]
  BY <1>1 DEF TypeInv, Types
<1>6. Excused(name)'
  BY <1>1, <1>2, <1>4 DEF Excused
<1> QED
  BY <1>1, <1>2, <1>3, <1>5, <1>6, OwnDatabaseUsable

LEMMA StoreKeyUsable ==
    ASSUME TypeInv, KeysInv, AccountUsable, NEW c \in Clients, StoreKey(c)
    PROVE  AccountUsable'
<1>1. /\ at[c] = "connected" /\ at' = [at EXCEPT ![c] = "keyed"]
      /\ UNCHANGED << usercreds, username, newuser, cutShort >>
  BY DEF StoreKey, Becomes, Rest
<1>2. username[c] \in Names
  BY <1>1, OpenDatabases
<1>3. \A d \in Clients : Unfinished(d) => Unfinished(d)'
  BY <1>1 DEF Unfinished, TypeInv, Types
<1>4. Unfinished(c)
  BY <1>1 DEF Unfinished, TypeInv, HasKey
<1>5. Excused(username[c])'
  BY <1>1, <1>3, <1>4 DEF Excused
<1>6. \A u \in Names : u # username[c] => databases'[u] = databases[u]
  BY DEF StoreKey, TypeInv, Types
<1> QED
  BY <1>1, <1>2, <1>3, <1>5, <1>6, OwnDatabaseUsable

\* The last step of making an account.
LEMMA CreateTablesUsable ==
    ASSUME TypeInv, KeysInv, AccountUsable, NEW c \in Clients, CreateTables(c)
    PROVE  AccountUsable'
<1> DEFINE name == username[c]
           e == [databases[name] EXCEPT !.tables = TRUE]
<1>1. /\ at[c] = "keyed" /\ at' = [at EXCEPT ![c] = "chat"]
      /\ databases' = [databases EXCEPT ![name] = e]
      /\ UNCHANGED << usercreds, username, newuser, cutShort >>
  BY DEF CreateTables, Becomes, Rest
<1>2. name \in Names /\ databases[name] \in Database
  BY <1>1, OpenDatabases
<1>3. e \in Database /\ e.privatekey = databases[name].privatekey /\ e.tables
  BY <1>2 DEF Database
<1> HIDE DEF e
<1>4. databases'[name] = e /\ databases'[name] # None
  BY <1>1, <1>2, <1>3, NoneAssumption DEF TypeInv, Types
<1>5. Usable(name)'
  BY <1>1, <1>3, <1>4 DEF KeysInv, HasStored, Usable
<1>6. \A d \in Clients : Unfinished(d) /\ username[d] # name => Unfinished(d)'
  BY <1>1 DEF Unfinished, TypeInv, Types
<1>7. \A u \in Names : u # name => databases'[u] = databases[u]
  BY <1>1 DEF TypeInv, Types
<1> QED
  BY <1>1, <1>2, <1>5, <1>6, <1>7, OwnDatabaseUsable

\* Steps that change neither accounts nor what makes a database usable.
LEMMA OtherStepsUsable ==
    ASSUME AccountUsable, UNCHANGED << usercreds, cutShort >>,
           \A d \in Clients : Unfinished(d) => Unfinished(d)' /\ username'[d] = username[d],
           \A u \in Names : databases[u] # None =>
               /\ databases'[u] # None
               /\ databases'[u].privatekey = databases[u].privatekey
               /\ databases'[u].tables = databases[u].tables
    PROVE  AccountUsable'
<1>1. ASSUME NEW u \in Names PROVE Usable(u)' \/ Excused(u)'
  <2>1. CASE Usable(u)
    BY <2>1 DEF Usable
  <2>2. CASE Excused(u)
    BY <2>2 DEF Excused
  <2> QED
    BY <2>1, <2>2, UsableOrExcused
<1> QED
  BY <1>1 DEF AccountUsable, Excused

LEMMA StoreUsable ==
    ASSUME TypeInv, AccountUsable, NEW c \in Clients, at[c] = "chat", Store(c),
           UNCHANGED << usercreds, at, username, newuser, cutShort >>
    PROVE  AccountUsable'
<1> DEFINE e == [databases[username[c]] EXCEPT !.history = @ \cup {password[c]}]
<1>1. databases' = [databases EXCEPT ![username[c]] = e]
  BY DEF Store
<1>2. username[c] \in Names /\ databases[username[c]] \in Database
  BY OpenDatabases
<1>3. /\ e \in Database /\ e.privatekey = databases[username[c]].privatekey
      /\ e.tables = databases[username[c]].tables
  BY <1>2, OpenDatabases DEF Database
<1> HIDE DEF e
<1>4. \A u \in Names : databases[u] # None =>
          /\ databases'[u] # None
          /\ databases'[u].privatekey = databases[u].privatekey
          /\ databases'[u].tables = databases[u].tables
  BY <1>1, <1>2, <1>3, NoneAssumption DEF TypeInv, Types
<1> QED
  BY <1>4, OtherStepsUsable DEF Unfinished

LEMMA NextUsable == TypeInv /\ KeysInv /\ AccountUsable /\ [Next]_vars => AccountUsable'
<1> SUFFICES ASSUME TypeInv, KeysInv, AccountUsable, [Next]_vars PROVE AccountUsable'
  OBVIOUS
<1>1. ASSUME NEW c \in Clients, ClientStep(c) PROVE AccountUsable'
  <2>1. CASE (\E m \in mail : ReadFails(c, m)) \/ OpenFails(c) \/ Exit(c)
    BY <2>1, EndingUsable DEF ReadFails, OpenFails, Exit
  <2>2. CASE \E u \in Names, p \in Passwords, new \in BOOLEAN : Submit(c, u, p, new)
    <3>1. /\ at[c] = "prompt" /\ UNCHANGED << usercreds, databases, cutShort >>
          /\ \A d \in Clients : d # c =>
                 at'[d] = at[d] /\ username'[d] = username[d] /\ newuser'[d] = newuser[d]
      BY <2>2 DEF Submit, Becomes, TypeInv, Types
    <3> QED
      BY <3>1, OtherStepsUsable DEF Unfinished
  <2>3. CASE DropDatabase(c)
    <3>1. CASE InUse(Lower[username[c]])
      BY <2>3, <3>1, EndingUsable DEF DropDatabase
    <3>2. CASE ~InUse(Lower[username[c]])
      BY <2>3, <3>2, ReplacingUsable DEF DropDatabase, Becomes
    <3> QED
      BY <3>1, <3>2
  <2>4. CASE CreateDatabase(c)
    <3>1. CASE databases[Lower[username[c]]] # None
      BY <2>4, <3>1, EndingUsable DEF CreateDatabase
    <3>2. CASE databases[Lower[username[c]]] = None
      <4>1. newuser[c]
        BY <2>4 DEF CreateDatabase, TypeInv, HasKey
      <4> QED
        BY <2>4, <3>2, <4>1, ReplacingUsable DEF CreateDatabase, Becomes
    <3> QED
      BY <3>1, <3>2
  <2>5. CASE ConnectToNew(c)
    <3>1. CASE databases[username[c]] = None
      BY <2>5, <3>1, EndingUsable DEF ConnectToNew
    <3>2. CASE databases[username[c]] # None
      <4>1. /\ at[c] = "created" /\ at' = [at EXCEPT ![c] = "connected"]
            /\ UNCHANGED << Rest, databases, cutShort >>
        BY <2>5, <3>2 DEF ConnectToNew, Becomes
      <4>2. UNCHANGED << usercreds, username, newuser >>
        BY <4>1 DEF Rest
      <4>3. \A d \in Clients : Unfinished(d) => Unfinished(d)'
        BY <4>1, <4>2 DEF Unfinished, TypeInv, Types
      <4> QED
        BY <4>1, <4>2, <4>3, OtherStepsUsable
    <3> QED
      BY <3>1, <3>2
  <2>6. CASE OpenDatabase(c)
    <3>1. /\ ~newuser[c] /\ at' = [at EXCEPT ![c] = "chat"]
          /\ UNCHANGED << usercreds, username, newuser, databases, cutShort >>
      BY <2>6 DEF OpenDatabase, Becomes, Rest
    <3>2. \A d \in Clients : Unfinished(d) => Unfinished(d)'
      BY <3>1 DEF Unfinished, TypeInv, Types
    <3> QED
      BY <3>1, <3>2, OtherStepsUsable
  <2>7. CASE \E v \in Names : WriteTo(c, v)
    BY <2>7, StoreUsable DEF WriteTo
  <2>8. CASE \E m \in mail : ReadMessage(c, m)
    BY <2>8, StoreUsable DEF ReadMessage, Rest
  <2> QED
    BY <1>1, <2>1, <2>2, <2>3, <2>4, <2>5, <2>6, <2>7, <2>8, StoreKeyUsable,
       CreateTablesUsable DEF ClientStep
<1>2. ASSUME NEW c \in Clients, Authenticate(c) \/ Refuse(c) PROVE AccountUsable'
  <2>1. /\ at' \in {at, [at EXCEPT ![c] = "accepted"], [at EXCEPT ![c] = "prompt"]}
        /\ at' # at => at[c] = "waiting"
        /\ UNCHANGED << usercreds, databases, username, newuser, cutShort >>
    BY <1>2 DEF Authenticate, Refuse, Answer
  <2>2. \A d \in Clients : Unfinished(d) => Unfinished(d)'
    BY <2>1 DEF Unfinished, TypeInv, Types
  <2> QED
    BY <2>1, <2>2, OtherStepsUsable
<1>3. CASE UNCHANGED vars
  BY <1>3, OtherStepsUsable DEF vars, clientVars, Unfinished
<1> QED
  BY <1>1, <1>2, <1>3, CreateAccountUsable DEF Next, LoadBalancerStep

\* An account that one client has made to the end can be opened with its
\* password ever after, unless another spelling of its name gets an account.
THEOREM AccountsStayUsable == Spec => []AccountUsable
<1>1. Init => AccountUsable
  BY DEF Init, AccountUsable
<1> QED
  BY <1>1, NextUsable, TypesHold, KeysHold, PTL DEF Spec
=============================================================================
