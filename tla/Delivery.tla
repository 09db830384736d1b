------------------------------ MODULE Delivery ------------------------------
(***************************************************************************)
(* What the chat servers together promise the clients about a message:     *)
(* only what was sent is stored, in the database of its addressee, and the *)
(* database only grows at its end.  A message nothing has disturbed is     *)
(* stored at most once and never lost.  A disturbed one may be lost, or    *)
(* stored again, as long as a copy of it is left, but never comes back     *)
(* from nothing.                                                           *)
(***************************************************************************)
EXTENDS Sequences, Functions

CONSTANT Users

VARIABLES
    sent,      \* the messages clients have sent
    underWay,  \* those of which a copy is left on its way
    stored,    \* what each user's database holds, oldest first
    safe       \* messages sent that nothing has disturbed so far

vars == << sent, underWay, stored, safe >>

Init ==
    /\ sent = {}
    /\ underWay = {}
    /\ stored = [u \in Users |-> << >>]
    /\ safe = {}

IsStored(m) == m \in Range(stored[m.to])

\* A client sends a new message; if nothing has disturbed it, it is under way.
Send(m) ==
    /\ m \notin sent
    /\ sent' = sent \cup {m}
    /\ underWay' \in {underWay, underWay \cup {m}}
    /\ safe' \in {safe, safe \cup {m}}
    /\ m \in safe' => m \in underWay'
    /\ UNCHANGED stored

\* A copy arrives; the sender's and the servers' copies may be left for a while.
Store(m) ==
    /\ m \in underWay
    /\ m \in safe => ~IsStored(m)
    /\ stored' = [stored EXCEPT ![m.to] = Append(@, m)]
    /\ underWay' \in {underWay, underWay \ {m}}
    /\ UNCHANGED << sent, safe >>

\* Copies are given up, of messages that are stored or disturbed.
GiveUp ==
    /\ safe' \subseteq safe
    /\ underWay' \subseteq underWay
    /\ \A m \in underWay \ underWay' : m \in safe' => IsStored(m)
    /\ UNCHANGED << sent, stored >>

Next == (\E m \in sent' : Send(m)) \/ (\E m \in sent : Store(m)) \/ GiveUp

Spec == Init /\ [][Next]_vars

=============================================================================
