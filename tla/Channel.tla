------------------------------ MODULE Channel ------------------------------
(***************************************************************************)
(* What MessageHandler (message.py) promises to the two ends of one        *)
(* connection, in one direction: messages come out whole, in the order in  *)
(* which they were written, each at most once.                             *)
(***************************************************************************)
EXTENDS Naturals, Sequences

CONSTANT Message

VARIABLES written, delivered

Init == written = << >> /\ delivered = << >>

Write == \E m \in Message : written' = Append(written, m) /\ UNCHANGED delivered

Deliver ==
    /\ Len(delivered) < Len(written)
    /\ delivered' = Append(delivered, written[Len(delivered) + 1])
    /\ UNCHANGED written

Next == Write \/ Deliver

Spec == Init /\ [][Next]_<< written, delivered >>

TypeOK == written \in Seq(Message) /\ delivered \in Seq(Message)

\* The reader has a prefix of what the writer wrote.
InOrder ==
    /\ Len(delivered) <= Len(written)
    /\ \A n \in DOMAIN delivered : delivered[n] = written[n]

=============================================================================
