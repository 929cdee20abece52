------------------------------ MODULE ThreadLog ------------------------------
(***************************************************************************)
(* What the conversation threads of a knowledge base promise: each thread  *)
(* is a log.  A turn is added at its end and never overwritten, and only   *)
(* the oldest turns ever go, until the newest MaxTurns are left.           *)
(* Turns are numbered in the order in which they are recorded.             *)
(***************************************************************************)
EXTENDS Naturals, FiniteSets

CONSTANTS
    Threads,    \* ids of threads
    MaxTurns    \* session.max_turns; 0 keeps everything

VARIABLES
    log,        \* log[s]: the turns thread s holds
    made        \* how many turns have been recorded

vars == <<log, made>>

\* The turns of a log that max_turns keeps.
Newest(turns) == {t \in turns : Cardinality({u \in turns : u > t}) < MaxTurns}

Init == log = [s \in {} |-> {}] /\ made = 0

Open ==
    /\ \E s \in Threads \ DOMAIN log :
        log' = [r \in DOMAIN log \cup {s} |-> IF r = s THEN {} ELSE log[r]]
    /\ UNCHANGED made

Record ==
    /\ made' = made + 1
    /\ \E s \in DOMAIN log : log' = [log EXCEPT ![s] = @ \cup {made'}]

Trim ==
    /\ MaxTurns > 0
    /\ \E s \in DOMAIN log : log' = [log EXCEPT ![s] = Newest(@)]
    /\ UNCHANGED made

Remove ==
    /\ \E s \in DOMAIN log : log' = [r \in DOMAIN log \ {s} |-> log[r]]
    /\ UNCHANGED made

Next == Open \/ Record \/ Trim \/ Remove

Spec == Init /\ [][Next]_vars
=============================================================================
