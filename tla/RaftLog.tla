------------------------------ MODULE RaftLog ------------------------------
(***************************************************************************)
(* The replicated log of server.py and the comparisons made on it.         *)
(*                                                                         *)
(* self._log is a Python list whose index 0 holds a sentinel, so its       *)
(* entries start at index 1 and len(self._log) - 1 is the last index: the  *)
(* sequence used here has the same indexes, and Len(log) is the last one.  *)
(* An entry keeps its term; key, value, clientId and requestId are one     *)
(* opaque command, and the entry a new leader adds (key "") is NoOp.       *)
(*                                                                         *)
(* Here and in the other modules, an operator named Operator_Slip is a     *)
(* plausible slip in the code that Operator models. No definition uses it: *)
(* it stands in for Operator to see that the checks notice the slip.       *)
(***************************************************************************)
EXTENDS Integers, Sequences, FiniteSets, FiniteSetsExt

CONSTANTS
    Server,     \* the ids of [Servers] active in config.ini
    Command,    \* what a client may ask to store
    NoOp,       \* the command of a leader's first entry
    None        \* Python's None

ASSUME ServerAssumption == IsFiniteSet(Server) /\ None \notin Server

\* A command stands for one Put of a client, which no entry of a leader is.
ASSUME NoOpAssumption == NoOp \notin Command

Entry == [term : Nat, command : Command \cup {NoOp}]

Log == Seq(Entry)

IsMajority(n) == 2 * n > Cardinality(Server)

LastTerm(log) == IF Len(log) = 0 THEN 0 ELSE log[Len(log)].term

\* A voter's test that the candidate's log ends no earlier than its own.
UpToDate(lastTerm, lastIndex, log) ==
    \/ lastTerm > LastTerm(log)
    \/ lastTerm = LastTerm(log) /\ lastIndex >= Len(log)

\* The entry just before the ones in a request is in the follower's log.
HasPrevious_LengthOnly(log, index, term) == index <= Len(log)

HasPrevious(log, index, term) ==
    index > 0 => index <= Len(log) /\ log[index].term = term

\* Positions of entries that the log does not hold yet at their index.
NewPositions(log, prev, entries) ==
    {i \in 1..Len(entries) : \/ prev + i > Len(log)
                             \/ log[prev + i].term # entries[i].term}

\* The log after the loop of AppendEntries: entries already present are
\* skipped, the first one that clashes cuts the log, the rest is appended.
\* A tail beyond the last entry stays when nothing clashes.
MergeEntries_NoCut(log, prev, entries) ==
    log \o SubSeq(entries, Len(log) - prev + 1, Len(entries))

MergeEntries_SkipNone(log, prev, entries) == log \o entries

MergeEntries(log, prev, entries) ==
    LET new == NewPositions(log, prev, entries)
    IN  IF new = {} THEN log
        ELSE SubSeq(log, 1, prev + Min(new) - 1)
                \o SubSeq(entries, Min(new), Len(entries))
=============================================================================
