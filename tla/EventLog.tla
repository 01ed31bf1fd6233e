------------------------------ MODULE EventLog ------------------------------
(***************************************************************************)
(* What the hub promises the viewers of a run, whatever broadcasts,        *)
(* replays and queues lie between: the run keeps one log of its events,    *)
(* and each viewer is told events of the log, one at a time, none twice    *)
(* and none after an event that had to wait for it.  Neither the log nor   *)
(* what a viewer was told is ever taken back.                              *)
(***************************************************************************)
EXTENDS Naturals, Sequences

CONSTANTS
  Events,   \* what may be logged
  Viewers,  \* the connections and the streams
  Before    \* the pairs of events of which the second waits for the first

VARIABLES
  log,   \* the events of the run
  told   \* what each viewer was told

vars == <<log, told>>

Init ==
  /\ log = <<>>
  /\ told = [v \in Viewers |-> <<>>]

\* ev is new to seq, and nothing in seq had to wait for it.
MayFollow(ev, seq) ==
  \A i \in 1..Len(seq) : seq[i] # ev /\ <<ev, seq[i]>> \notin Before

Log ==
  /\ UNCHANGED told
  /\ \E ev \in Events : log' = Append(log, ev) /\ MayFollow(ev, log)

Tell(v) ==
  /\ UNCHANGED log
  /\ \E i \in 1..Len(log) :
       /\ told' = [told EXCEPT ![v] = Append(@, log[i])]
       /\ MayFollow(log[i], told[v])

Next == Log \/ \E v \in Viewers : Tell(v)

Spec == Init /\ [][Next]_vars
=============================================================================
