------------------------------ MODULE EventFeed ------------------------------
(***************************************************************************)
(* What the live updates of a task promise: the task's events form a log   *)
(* that only grows, and every client reads it forwards.  A client may miss  *)
(* an event, but sees none twice, none out of log order and none with a     *)
(* smaller sequence number than one it has seen.                            *)
(***************************************************************************)
EXTENDS Naturals, SequencesExt

CONSTANT Clients

VARIABLES
    log,        \* the sequence numbers of the events, in the order of the log
    seen        \* client -> positions of the events shown to it, in order

vars == <<log, seen>>

Init == log = << >> /\ seen = [c \in Clients |-> << >>]

Publish ==
    /\ Len(log') = Len(log) + 1
    /\ SubSeq(log', 1, Len(log)) = log
    /\ UNCHANGED seen

\* Forwards in the log, and in the numbers of its events.
Forwards(s) ==
    \A n \in 2..Len(s) : s[n - 1] < s[n] /\ log[s[n - 1]] < log[s[n]]

\* A replay shows several events at once.
Show(c) ==
    /\ IsPrefix(seen[c], seen'[c])
    /\ \A n \in 1..Len(seen'[c]) : seen'[c][n] \in 1..Len(log)
    /\ Forwards(seen'[c])
    /\ seen' = [seen EXCEPT ![c] = seen'[c]]
    /\ UNCHANGED log

Next == Publish \/ \E c \in Clients : Show(c)

Spec == Init /\ [][Next]_vars
=============================================================================
