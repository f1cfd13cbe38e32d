------------------------------- MODULE Store -------------------------------
(***************************************************************************)
(* What one server promises of reads: a Get is answered with the value     *)
(* that was applied last, or nothing for a key never applied.  No cache.   *)
(***************************************************************************)
CONSTANTS Key, Value, NoValue

VARIABLES
  machine,  \* the value of each key, NoValue before one was applied
  answer    \* key and value of the latest Get

vars == <<machine, answer>>

Init ==
  /\ machine = [k \in Key |-> NoValue]
  /\ answer = [key |-> NoValue, value |-> NoValue]

Apply(k, v) ==
  /\ machine' = [machine EXCEPT ![k] = v]
  /\ UNCHANGED answer

Get(k) ==
  /\ answer' = [key |-> k, value |-> machine[k]]
  /\ UNCHANGED machine

Restart ==
  /\ machine' = [k \in Key |-> NoValue]
  /\ UNCHANGED answer

Next ==
  \/ \E k \in Key, v \in Value : Apply(k, v)
  \/ \E k \in Key : Get(k)
  \/ Restart

Spec == Init /\ [][Next]_vars
=============================================================================
