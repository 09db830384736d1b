----------------------------- MODULE FlowProofs -----------------------------
(***************************************************************************)
(* Proofs about Flow, for every number of servers and clients, every size  *)
(* of the messages and of the sockets and every set of scenarios.          *)
(*                                                                         *)
(* ReadersAreFed is not inductive: it needs that what a process has sent   *)
(* ends in the middle of a message only while it is in write (Continued),  *)
(* and that a process in read has the beginning of a message, and no more, *)
(* in its buffer (Begun).                                                  *)
(***************************************************************************)
EXTENDS Flow, TLAPS

SendsTo(p, q) == task[p].at = "send" /\ task[p].peer = q

\* What is in s ends with the end of a message.
Closed(s) == s # << >> => s[Len(s)].left = 0

Continued ==
    \A p, q \in Procs :
        SendsTo(p, q) \/ Closed(IF wire[p][q] = << >> THEN buffer[p][q] ELSE wire[p][q])

Opening(s) == s # << >> /\ \A n \in DOMAIN s : s[n].left # 0

Begun == \A p \in Procs : task[p].at = "read" => Opening(buffer[task[p].peer][p])

IInv == TypeOK /\ Continued /\ Begun

-----------------------------------------------------------------------------

\* The fields of a task follow from its step.
LEMMA TaskFields ==
    ASSUME NEW t \in Task
    PROVE  /\ t.at \in {"idle", "prompt", "read", "send"}
           /\ t.at = "read" => t.peer \in Procs
           /\ t.at = "send" =>
                t.peer \in Procs /\ t.msg \in Message /\ t.n \in Nat \ {0}
BY DEF Task, Idle, Prompt

\* What is left of a sequence without its first n elements.
LEMMA Rest ==
    ASSUME NEW S, NEW s \in Seq(S), NEW n \in 0 .. Len(s)
    PROVE  LET r == SubSeq(s, n + 1, Len(s))
           IN  /\ r \in Seq(S)
               /\ Len(r) = Len(s) - n
               /\ \A i \in 1 .. Len(r) : r[i] = s[n + i]
OBVIOUS

LEMMA RestCloses ==
    ASSUME NEW S, NEW s \in Seq(S), NEW n \in 0 .. Len(s)
    PROVE  LET r == SubSeq(s, n + 1, Len(s)) IN r # << >> => r[Len(r)] = s[Len(s)]
<1> DEFINE r == SubSeq(s, n + 1, Len(s))
<1>1. /\ r \in Seq(S)
      /\ Len(r) = Len(s) - n
      /\ \A i \in 1 .. Len(r) : r[i] = s[n + i]
  BY Rest
<1> HIDE DEF r
<1>2. ASSUME r # << >> PROVE r[Len(r)] = s[Len(s)]
  <2>1. Len(r) \in 1 .. Len(r) /\ n + Len(r) = Len(s)
    BY <1>1, <1>2
  <2> QED
    BY <1>1, <2>1
<1> QED
  BY <1>2 DEF r

\* The first k elements of a sequence end with the k-th.
LEMMA Prefix ==
    ASSUME NEW S, NEW w \in Seq(S), NEW k \in 1 .. Len(w)
    PROVE  \E x \in Seq(S) : x = SubSeq(w, 1, k) /\ x # << >> /\ x[Len(x)] = w[k]
<1> DEFINE x == SubSeq(w, 1, k)
<1>1. x \in Seq(S) /\ Len(x) = k /\ x[k] = w[k] /\ k \in Nat \ {0}
  OBVIOUS
<1> HIDE DEF x
<1>2. x # << >>
  BY <1>1
<1> QED
  BY <1>1, <1>2 DEF x

\* A sequence followed by another ends as the other one does.
LEMMA Joined ==
    ASSUME NEW S, NEW b \in Seq(S), NEW x \in Seq(S), x # << >>
    PROVE  \E y \in Seq(S) : y = b \o x /\ y # << >> /\ y[Len(y)] = x[Len(x)]
<1> DEFINE y == b \o x
<1>1. y \in Seq(S) /\ Len(y) = Len(b) + Len(x) /\ Len(x) \in Nat \ {0} /\ Len(b) \in Nat
  OBVIOUS
<1>2. y[Len(b) + Len(x)] = x[Len(x)]
  BY <1>1
<1> HIDE DEF y
<1>3. y # << >>
  BY <1>1
<1> QED
  BY <1>1, <1>2, <1>3 DEF y

(***************************************************************************)
(* One recv and what the process makes of it, in terms of the chunks: a    *)
(* part of what is on the wire has joined the buffer, whole messages have  *)
(* left it, and the process reads on only for a message that has begun.    *)
(***************************************************************************)
GoesOn(p, q, k, got, n, t) ==
    /\ wire' = [wire EXCEPT ![q][p] = SubSeq(wire[q][p], k + 1, Len(wire[q][p]))]
    /\ buffer' = [buffer EXCEPT ![q][p] = SubSeq(got, n + 1, Len(got))]
    /\ task' = [task EXCEPT ![p] = t]
    /\ got # << >> /\ got[Len(got)] = wire[q][p][k]
    /\ t.at = "read" => /\ t.peer = q
                        /\ n < Len(got)
                        /\ \A i \in DOMAIN got : i > n => got[i].left # 0

LEMMA RecvGoesOn ==
    ASSUME TypeOK, NEW p \in Procs, NEW q \in Procs, Recv(p, q)
    PROVE  /\ stored' \subseteq Message
           /\ task[p].at \in {"idle", "read"}
           /\ \E k \in 1 .. Len(wire[q][p]), got \in Seq(Chunk) :
                \E n \in 0 .. Len(got), t \in Task : GoesOn(p, q, k, got, n, t)
<1> USE ProcsAssumption
<1>1. PICK k \in 1 .. Len(wire[q][p]) :
        LET got == buffer[q][p] \o SubSeq(wire[q][p], 1, k)
        IN  /\ wire' = [wire EXCEPT ![q][p] = SubSeq(@, k + 1, Len(@))]
            /\ ReadOn(p, q, got) \/ PassOn(p, q, got) \/ Store(p, q, got)
  BY DEF Recv
<1> DEFINE got == buffer[q][p] \o SubSeq(wire[q][p], 1, k)
<1>2. got \in Seq(Chunk) /\ got # << >> /\ got[Len(got)] = wire[q][p][k]
  <2>1. PICK b \in Seq(Chunk), w \in Seq(Chunk) : b = buffer[q][p] /\ w = wire[q][p]
    BY DEF TypeOK
  <2>2. k \in 1 .. Len(w)
    BY <2>1
  <2>3. PICK x \in Seq(Chunk) : x = SubSeq(w, 1, k) /\ x # << >> /\ x[Len(x)] = w[k]
    <3> HIDE DEF got, Chunk
    <3> QED
      BY <2>2, Prefix
  <2>4. PICK y \in Seq(Chunk) : y = b \o x /\ y # << >> /\ y[Len(y)] = x[Len(x)]
    <3> HIDE DEF got, Chunk
    <3>1. x # << >>
      BY <2>3
    <3> QED
      BY <3>1, Joined, Zenon
  <2> QED
    BY <2>1, <2>3, <2>4
<1>3. /\ wire' = [wire EXCEPT ![q][p] = SubSeq(wire[q][p], k + 1, Len(wire[q][p]))]
      /\ ReadOn(p, q, got) \/ PassOn(p, q, got) \/ Store(p, q, got)
  BY <1>1 DEF TypeOK
<1>4. task[p].at \in {"idle", "read"}
  BY DEF Recv, Idle, Reading
<1> HIDE DEF got
<1>5. Len(got) \in Nat \ {0} /\ DOMAIN got = 1 .. Len(got) /\ stored \subseteq Message
  BY <1>2 DEF TypeOK
<1>6. CASE ReadOn(p, q, got)
  <2>1. Reading(q) \in Task
    BY DEF Reading, Task
  <2>2. stored' = stored /\ 0 \in 0 .. Len(got)
    BY <1>5, <1>6 DEF ReadOn
  <2>3. GoesOn(p, q, k, got, 0, Reading(q))
    BY <1>2, <1>3, <1>5, <1>6 DEF GoesOn, ReadOn, Leave, Ends, Becomes, Reading
  <2> QED
    BY <1>2, <1>4, <1>5, <2>1, <2>2, <2>3
<1>7. CASE PassOn(p, q, got)
  <2>1. PICK n \in Ends(got) :
          /\ Leave(q, p, got, n)
          /\ Becomes(p, Sending(NextHop(p, got[n].msg), got[n].msg, got[n].msg.size))
    BY <1>7 DEF PassOn
  <2>2. n \in 0 .. Len(got) /\ got[n] \in Chunk
    BY <1>2, <1>5 DEF Ends
  <2>3. got[n].msg \in Message /\ got[n].msg.size \in Nat \ {0}
        /\ NextHop(p, got[n].msg) \in Procs
    BY <2>2 DEF Chunk, Message, NextHop, Procs
  <2> DEFINE t == Sending(NextHop(p, got[n].msg), got[n].msg, got[n].msg.size)
  <2>4. t \in Task /\ t.at = "send"
    BY <2>3 DEF Sending, Task
  <2>5. GoesOn(p, q, k, got, n, t)
    BY <1>2, <1>3, <2>1, <2>4 DEF GoesOn, Leave, Becomes
  <2>6. stored' = stored
    BY <1>7 DEF PassOn
  <2> QED
    BY <1>2, <1>4, <1>5, <2>2, <2>4, <2>5, <2>6
<1>8. CASE Store(p, q, got)
  <2>1. PICK n \in Ends(got) :
          /\ \A e \in Ends(got) : e <= n
          /\ Leave(q, p, got, n)
          /\ Becomes(p, IF n = Len(got) THEN Idle ELSE Reading(q))
    BY <1>8 DEF Store
  <2> DEFINE t == IF n = Len(got) THEN Idle ELSE Reading(q)
  <2>2. n \in 0 .. Len(got)
    BY <1>5 DEF Ends
  <2>3. t \in Task
    BY DEF Reading, Task
  <2>4. ASSUME t.at = "read"
        PROVE  t.peer = q /\ n < Len(got) /\ \A i \in DOMAIN got : i > n => got[i].left # 0
    <3>1. n # Len(got) /\ t.peer = q
      BY <2>4 DEF Idle, Reading
    <3>2. ASSUME NEW i \in DOMAIN got, i > n PROVE i \notin Ends(got)
      <4>1. i \in Int /\ n \in Int
        BY <1>5, <2>2
      <4> QED
        BY <2>1, <3>2, <4>1
    <3> QED
      BY <1>5, <2>2, <3>1, <3>2 DEF Ends
  <2>8. task' = [task EXCEPT ![p] = t]
    BY <2>1 DEF Becomes
  <2>9. buffer' = [buffer EXCEPT ![q][p] = SubSeq(got, n + 1, Len(got))]
    BY <2>1 DEF Leave
  <2> HIDE DEF t
  <2>5. GoesOn(p, q, k, got, n, t)
    BY <1>2, <1>3, <2>4, <2>8, <2>9 DEF GoesOn
  <2>6. ASSUME NEW e \in Ends(got) PROVE got[e].msg \in Message
    <3>1. e \in 1 .. Len(got)
      BY <1>5 DEF Ends
    <3>2. got[e] \in Chunk
      BY <1>2, <3>1
    <3> QED
      BY <3>2 DEF Chunk
  <2>7. stored' \subseteq Message
    BY <1>5, <1>8, <2>6 DEF Store
  <2> QED
    BY <1>2, <1>4, <2>2, <2>3, <2>5, <2>7
<1> QED
  BY <1>3, <1>6, <1>7, <1>8

\* A chunk leaves a process that is in write.
LEMMA ChunkSent ==
    ASSUME TypeOK, NEW p \in Procs, SendChunk(p)
    PROVE  \E q \in Procs, c \in Chunk, t \in Task :
             /\ SendsTo(p, q)
             /\ wire' = [wire EXCEPT ![p][q] = Append(@, c)]
             /\ buffer' = buffer
             /\ task' = [task EXCEPT ![p] = t]
             /\ t.at \in {"idle", "send"}
             /\ c.left = 0 \/ (t.at = "send" /\ t.peer = q)
<1> DEFINE q == task[p].peer
           c == [msg |-> task[p].msg, left |-> task[p].n - 1]
           t == AfterChunk(task[p])
<1>1. task[p] \in Task /\ task[p].at = "send"
  BY DEF TypeOK, SendChunk
<1>2. q \in Procs /\ task[p].msg \in Message /\ task[p].n \in Nat \ {0}
  BY <1>1, TaskFields
<1>3. c \in Chunk
  BY <1>2 DEF Chunk
<1>4. CASE task[p].n > 1
  <2>1. task[p].n - 1 \in Nat \ {0}
    BY <1>2, <1>4
  <2>2. t = Sending(q, task[p].msg, task[p].n - 1)
    BY <1>4 DEF AfterChunk
  <2>3. t \in Task /\ t.at = "send" /\ t.peer = q
    BY <1>2, <2>1, <2>2 DEF Sending, Task
  <2> QED
    BY <1>1, <1>2, <1>3, <2>3 DEF SendChunk, SendsTo, Becomes
<1>5. CASE ~(task[p].n > 1)
  <2>1. c.left = 0
    BY <1>2, <1>5
  <2>2. t = Idle
    BY <1>5 DEF AfterChunk
  <2>3. t \in Task /\ t.at = "idle"
    BY <2>2 DEF Idle, Task
  <2> QED
    BY <1>1, <1>2, <1>3, <2>1, <2>3 DEF SendChunk, SendsTo, Becomes
<1> QED
  BY <1>4, <1>5

\* A user's step: its client was not in read or write.
LEMMA UserStep ==
    ASSUME TypeOK, NEW c \in Clients,
           AskUser(c) \/ Answer(c) \/ \E m \in toSend : Compose(c, m)
    PROVE  /\ c \in Procs /\ task[c].at \in {"idle", "prompt"}
           /\ \E t \in Task : task' = [task EXCEPT ![c] = t] /\ t.at # "read"
           /\ UNCHANGED << messages, wire, buffer, stored >>
           /\ toSend' \subseteq toSend /\ prompted' \subseteq Clients
<1> USE ProcsAssumption
<1>1. c \in Procs /\ prompted \subseteq Clients
  BY DEF Procs, TypeOK
<1>t. Idle \in Task /\ Prompt \in Task /\ Idle.at = "idle" /\ Prompt.at = "prompt"
  BY DEF Task, Idle, Prompt
<1>2. CASE AskUser(c)
  BY <1>1, <1>2, <1>t DEF AskUser, Becomes
<1>3. CASE Answer(c)
  BY <1>1, <1>3, <1>t DEF Answer, Becomes
<1>4. ASSUME NEW m \in toSend, Compose(c, m)
      PROVE  /\ task[c].at = "idle"
             /\ \E t \in Task : task' = [task EXCEPT ![c] = t] /\ t.at # "read"
             /\ UNCHANGED << messages, wire, buffer, stored, prompted >>
             /\ toSend' \subseteq toSend
  <2>1. m \in Message
    BY ScenariosAssumption DEF TypeOK
  <2>2. m.size \in Nat \ {0} /\ Home[c] \in Procs
    BY <2>1 DEF Message, Procs
  <2>3. Sending(Home[c], m, m.size) \in Task /\ Sending(Home[c], m, m.size).at # "read"
    BY <2>1, <2>2 DEF Sending, Task
  <2> QED
    BY <1>4, <1>t, <2>3 DEF Compose, Becomes
<1> QED
  BY <1>1, <1>2, <1>3, <1>4

-----------------------------------------------------------------------------
(* Every step keeps the invariant *)

LEMMA FlowInit == Init => IInv
<1> SUFFICES ASSUME Init PROVE IInv
  OBVIOUS
<1>1. TypeOK
  BY ScenariosAssumption DEF Init, TypeOK, Task
<1>2. Continued /\ Begun
  BY DEF Init, Continued, Begun, Closed, Idle
<1> QED
  BY <1>1, <1>2 DEF IInv

LEMMA UserKeeps ==
    ASSUME IInv, NEW c \in Clients,
           AskUser(c) \/ Answer(c) \/ \E m \in toSend : Compose(c, m)
    PROVE  IInv'
<1>1. /\ c \in Procs /\ task[c].at \in {"idle", "prompt"}
      /\ UNCHANGED << messages, wire, buffer, stored >>
      /\ toSend' \subseteq toSend /\ prompted' \subseteq Clients
  BY UserStep DEF IInv
<1>2. PICK t \in Task : task' = [task EXCEPT ![c] = t] /\ t.at # "read"
  BY UserStep DEF IInv
<1>3. TypeOK'
  BY <1>1, <1>2 DEF IInv, TypeOK
<1>4. \A p \in Procs \ {c} : task'[p] = task[p]
  BY <1>1, <1>2 DEF IInv, TypeOK
<1>5. task'[c] = t
  BY <1>1, <1>2 DEF IInv, TypeOK
<1>6. Continued'
  BY <1>1, <1>4 DEF IInv, Continued, SendsTo
<1>7. Begun'
  BY <1>1, <1>2, <1>4, <1>5 DEF IInv, Begun
<1> QED
  BY <1>3, <1>6, <1>7 DEF IInv

LEMMA RecvKeeps ==
    ASSUME IInv, NEW p \in Procs, NEW q \in Procs, Recv(p, q)
    PROVE  IInv'
<1>1. /\ wire \in [Procs -> [Procs -> Seq(Chunk)]]
      /\ buffer \in [Procs -> [Procs -> Seq(Chunk)]]
      /\ task \in [Procs -> Task]
  BY DEF IInv, TypeOK
<1>a. PICK k \in 1 .. Len(wire[q][p]), got \in Seq(Chunk) :
        \E n \in 0 .. Len(got), t \in Task : GoesOn(p, q, k, got, n, t)
  BY RecvGoesOn DEF IInv
<1>2. PICK n \in 0 .. Len(got), t \in Task : GoesOn(p, q, k, got, n, t)
  BY <1>a
<1>3. PICK w \in Seq(Chunk) : w = wire[q][p]
  BY <1>1
<1> DEFINE w2 == SubSeq(w, k + 1, Len(w))
           b2 == SubSeq(got, n + 1, Len(got))
<1>4. /\ wire' = [wire EXCEPT ![q][p] = w2]
      /\ buffer' = [buffer EXCEPT ![q][p] = b2]
      /\ task' = [task EXCEPT ![p] = t]
      /\ got # << >> /\ got[Len(got)] = w[k]
      /\ k \in 1 .. Len(w)
      /\ t.at = "read" => /\ t.peer = q
                          /\ n < Len(got)
                          /\ \A i \in DOMAIN got : i > n => got[i].left # 0
  BY <1>2, <1>3 DEF GoesOn
<1>5. /\ w2 \in Seq(Chunk) /\ Len(w2) = Len(w) - k
      /\ w2 # << >> => w2[Len(w2)] = w[Len(w)]
  <2>1. k \in 0 .. Len(w)
    BY <1>4
  <2> QED
    BY <2>1, Rest, RestCloses
<1>6. /\ b2 \in Seq(Chunk) /\ Len(b2) = Len(got) - n
      /\ \A i \in 1 .. Len(b2) : b2[i] = got[n + i]
      /\ b2 # << >> => b2[Len(b2)] = got[Len(got)]
  BY Rest, RestCloses
<1> HIDE DEF w2, b2
<1>7. /\ wire' \in [Procs -> [Procs -> Seq(Chunk)]]
      /\ buffer' \in [Procs -> [Procs -> Seq(Chunk)]]
      /\ task' \in [Procs -> Task]
  BY <1>1, <1>4, <1>5, <1>6
<1>8. TypeOK'
  BY <1>7, RecvGoesOn DEF Recv, IInv, TypeOK
<1>9. /\ wire'[q][p] = w2 /\ buffer'[q][p] = b2 /\ task'[p] = t
      /\ \A x \in Procs \ {p} : task'[x] = task[x]
      /\ \A x, y \in Procs : ~(x = q /\ y = p) =>
           wire'[x][y] = wire[x][y] /\ buffer'[x][y] = buffer[x][y]
  BY <1>1, <1>4
<1>10. Continued'
  <2> SUFFICES ASSUME NEW x \in Procs, NEW y \in Procs, ~SendsTo(x, y)'
               PROVE  Closed(IF wire'[x][y] = << >> THEN buffer'[x][y] ELSE wire'[x][y])
    BY DEF Continued
  <2>1. ~SendsTo(x, y)
    <3>1. CASE x = p
      BY <3>1, RecvGoesOn DEF SendsTo, IInv
    <3>2. CASE x # p
      BY <1>9, <3>2 DEF SendsTo
    <3> QED
      BY <3>1, <3>2
  <2>2. Closed(IF wire[x][y] = << >> THEN buffer[x][y] ELSE wire[x][y])
    BY <2>1 DEF IInv, Continued
  <2>3. CASE x = q /\ y = p
    <3>1. w # << >> /\ w[Len(w)].left = 0
      BY <1>3, <1>4, <2>2, <2>3 DEF Closed
    <3>2. Closed(w2)
      BY <1>5, <3>1 DEF Closed
    <3>3. ASSUME w2 = << >> PROVE Closed(b2)
      <4>1. k = Len(w)
        BY <1>4, <1>5, <3>3
      <4> QED
        BY <1>4, <1>6, <3>1, <4>1 DEF Closed
    <3> QED
      BY <1>9, <2>3, <3>2, <3>3
  <2>4. CASE ~(x = q /\ y = p)
    BY <1>9, <2>2, <2>4
  <2> QED
    BY <2>3, <2>4
<1>11. Begun'
  <2> SUFFICES ASSUME NEW x \in Procs, task'[x].at = "read"
               PROVE  Opening(buffer'[task'[x].peer][x])
    BY DEF Begun
  <2>1. CASE x = p
    <3>1. t.at = "read" /\ task'[x] = t
      BY <1>9, <2>1
    <3>2. t.peer = q /\ n < Len(got) /\ \A i \in DOMAIN got : i > n => got[i].left # 0
      BY <1>4, <3>1
    <3>3. b2 # << >>
      BY <1>6, <3>2
    <3>4. ASSUME NEW i \in DOMAIN b2 PROVE b2[i].left # 0
      <4>1. i \in 1 .. Len(b2) /\ n + i \in DOMAIN got /\ n + i > n
        BY <1>6
      <4> QED
        BY <1>6, <3>2, <4>1
    <3> QED
      BY <1>9, <2>1, <3>1, <3>2, <3>3, <3>4 DEF Opening
  <2>2. CASE x # p
    <3>1. task[x] \in Task /\ task'[x] = task[x]
      BY <1>1, <1>9, <2>2
    <3>2. task[x].peer \in Procs /\ Opening(buffer[task[x].peer][x])
      BY <3>1, TaskFields DEF IInv, Begun
    <3> QED
      BY <1>9, <2>2, <3>1, <3>2
  <2> QED
    BY <2>1, <2>2
<1> QED
  BY <1>8, <1>10, <1>11 DEF IInv

LEMMA SendKeeps ==
    ASSUME IInv, NEW p \in Procs, SendChunk(p)
    PROVE  IInv'
<1>1. /\ wire \in [Procs -> [Procs -> Seq(Chunk)]]
      /\ buffer \in [Procs -> [Procs -> Seq(Chunk)]]
      /\ task \in [Procs -> Task]
  BY DEF IInv, TypeOK
<1>2. PICK q \in Procs, c \in Chunk, t \in Task :
        /\ SendsTo(p, q)
        /\ wire' = [wire EXCEPT ![p][q] = Append(@, c)]
        /\ buffer' = buffer
        /\ task' = [task EXCEPT ![p] = t]
        /\ t.at \in {"idle", "send"}
        /\ c.left = 0 \/ (t.at = "send" /\ t.peer = q)
  BY ChunkSent DEF IInv
<1>3. PICK w \in Seq(Chunk) : w = wire[p][q]
  BY <1>1
<1> DEFINE w2 == Append(w, c)
<1>4. w2 \in Seq(Chunk) /\ w2 # << >> /\ w2[Len(w2)] = c
  OBVIOUS
<1>5. wire' = [wire EXCEPT ![p][q] = w2]
  BY <1>1, <1>2, <1>3
<1> HIDE DEF w2
<1>6. wire' \in [Procs -> [Procs -> Seq(Chunk)]] /\ task' \in [Procs -> Task]
  BY <1>1, <1>2, <1>4, <1>5
<1>7. TypeOK'
  BY <1>2, <1>6 DEF SendChunk, IInv, TypeOK
<1>8. /\ wire'[p][q] = w2 /\ task'[p] = t
      /\ \A x \in Procs \ {p} : task'[x] = task[x]
      /\ \A x, y \in Procs : ~(x = p /\ y = q) => wire'[x][y] = wire[x][y]
  BY <1>1, <1>2, <1>5
<1>9. Continued'
  <2> SUFFICES ASSUME NEW x \in Procs, NEW y \in Procs
               PROVE  \/ SendsTo(x, y)'
                      \/ Closed(IF wire'[x][y] = << >> THEN buffer'[x][y] ELSE wire'[x][y])
    BY DEF Continued
  <2>1. CASE x = p /\ y = q
    <3>1. wire'[x][y] # << >> /\ wire'[x][y][Len(wire'[x][y])] = c
      BY <1>4, <1>8, <2>1
    <3>2. c.left = 0 \/ SendsTo(x, y)'
      BY <1>2, <1>8, <2>1 DEF SendsTo
    <3> QED
      BY <3>1, <3>2 DEF Closed
  <2>2. CASE ~(x = p /\ y = q)
    <3>1. SendsTo(x, y) => SendsTo(x, y)'
      <4>1. CASE x = p
        BY <1>2, <2>2, <4>1 DEF SendsTo
      <4>2. CASE x # p
        BY <1>8, <4>2 DEF SendsTo
      <4> QED
        BY <4>1, <4>2
    <3> QED
      BY <1>2, <1>8, <2>2, <3>1 DEF IInv, Continued
  <2> QED
    BY <2>1, <2>2
<1>10. Begun'
  BY <1>2, <1>8 DEF IInv, Begun
<1> QED
  BY <1>7, <1>9, <1>10 DEF IInv

LEMMA Inductive == Spec => []IInv
<1>1. IInv /\ [Next]_vars => IInv'
  <2> SUFFICES ASSUME IInv, [Next]_vars PROVE IInv'
    OBVIOUS
  <2>1. CASE UNCHANGED vars
    BY <2>1 DEF vars, IInv, TypeOK, Continued, SendsTo, Begun
  <2> QED
    BY <2>1, UserKeeps, RecvKeeps, SendKeeps DEF Next, ProcStep
<1> QED
  BY <1>1, FlowInit, PTL DEF Spec

-----------------------------------------------------------------------------
(* The properties *)

LEMMA Fed == IInv => ReadersAreFed
<1> SUFFICES ASSUME IInv, NEW p \in Procs, NEW q \in Procs,
                    task[q].at = "read", task[q].peer = p, wire[p][q] = << >>
             PROVE  SendsTo(p, q)
  BY DEF ReadersAreFed, SendsTo
<1>1. Opening(buffer[p][q]) /\ buffer[p][q] \in Seq(Chunk)
  BY DEF IInv, Begun, TypeOK
<1>2. ~Closed(buffer[p][q])
  BY <1>1 DEF Opening, Closed
<1> QED
  BY <1>2 DEF IInv, Continued

LEMMA Blocked == IInv => OnlyWritesBlock
<1> SUFFICES ASSUME IInv, Stuck, NEW p \in Procs
             PROVE  /\ task[p].at # "read"
                    /\ task[p].at = "send" => task[task[p].peer].at \in {"send", "prompt"}
  BY DEF OnlyWritesBlock
<1>f. \A r \in Procs : task[r] \in Task
  BY DEF IInv, TypeOK
<1>1. ASSUME NEW r \in Procs, task[r].at = "send"
      PROVE  task[r].peer \in Procs /\ wire[r][task[r].peer] # << >>
  <2>1. task[r].peer \in Procs
    BY <1>f, <1>1, TaskFields
  <2>2. Len(wire[r][task[r].peer]) = Capacity
    BY <1>1 DEF Stuck, Full
  <2> QED
    BY <2>1, <2>2, CapacityAssumption
<1>2. ASSUME NEW r \in Procs PROVE task[r].at # "read"
  <2> SUFFICES ASSUME task[r].at = "read" PROVE FALSE
    OBVIOUS
  <2>1. task[r].peer \in Procs /\ wire[task[r].peer][r] = << >>
    BY <1>f, TaskFields DEF Stuck
  <2>2. task[task[r].peer].at = "send" /\ task[task[r].peer].peer = r
    BY <2>1, Fed DEF ReadersAreFed
  <2> QED
    BY <1>1, <2>1, <2>2
<1>3. ASSUME task[p].at = "send" PROVE task[task[p].peer].at \in {"send", "prompt"}
  <2>1. task[p].peer \in Procs /\ wire[p][task[p].peer] # << >>
    BY <1>1, <1>3
  <2>2. task[task[p].peer].at # "idle"
    BY <2>1 DEF Stuck
  <2> QED
    BY <1>f, <1>2, <2>1, <2>2, TaskFields
<1> QED
  BY <1>2, <1>3

\* Every variable has its type.
THEOREM FlowTypeCorrect == Spec => []TypeOK
<1>1. IInv => TypeOK
  BY DEF IInv
<1> QED
  BY <1>1, Inductive, PTL

\* However large messages are and however little a socket holds, a process that
\* is in read for the rest of a message has it on the wire or its sender in write.
THEOREM MessagesAreNotTorn == Spec => []ReadersAreFed
BY Fed, Inductive, PTL

\* When everything stands still, only writes do: they wait for each other or for
\* a user in a prompt.
THEOREM OnlyWritesCanBlock == Spec => []OnlyWritesBlock
BY Blocked, Inductive, PTL

=============================================================================
