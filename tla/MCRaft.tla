------------------------------- MODULE MCRaft -------------------------------
(***************************************************************************)
(* The Raft modules for TLC.                                               *)
(***************************************************************************)
EXTENDS RaftLiveness, RaftLinks, RaftRounds, TLC

Symmetry ==
    {p \in Permutations(Server) : \A s \in Candidates : p[s] \in Candidates}
        \cup Permutations(Command)
=============================================================================
