------------------------------- MODULE Voting -------------------------------
(***************************************************************************)
(* What elections promise, without the messages, files and threads they    *)
(* are made of: a voter never votes for two servers in a term, and who     *)
(* leads a term has the votes of a quorum in it.                           *)
(***************************************************************************)
EXTENDS Integers

CONSTANTS
    Server,
    Quorum      \* the sets of servers whose votes win an election

VARIABLES
    ballots,    \* <<voter, term, candidate>> of every vote given
    leaders     \* <<term, server>> of every election won

Init == ballots = {} /\ leaders = {}

Vote(voter, term, candidate) ==
    /\ <<voter, term, candidate>> \in Server \X Nat \X Server
    /\ \A b \in ballots : b[1] = voter /\ b[2] = term => b[3] = candidate
    /\ ballots' = ballots \cup {<<voter, term, candidate>>}
    /\ UNCHANGED leaders

Lead(term, candidate) ==
    /\ <<term, candidate>> \in Nat \X Server
    /\ \E votes \in Quorum :
           \A voter \in votes : <<voter, term, candidate>> \in ballots
    /\ leaders' = leaders \cup {<<term, candidate>>}
    /\ UNCHANGED ballots

Next ==
    \/ \E b \in ballots' : Vote(b[1], b[2], b[3])
    \/ \E l \in leaders' : Lead(l[1], l[2])

Spec == Init /\ [][Next]_<<ballots, leaders>>
=============================================================================
