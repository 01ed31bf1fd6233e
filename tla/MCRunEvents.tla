------------------------------ MODULE MCRunEvents ------------------------------
(* Values for model-checking RunEvents.tla.                                    *)
EXTENDS RunEvents

CONSTANTS s1, s2, w1, w2, l1

Runs(viewers, late, steps, earlies, scoreds, faults) ==
  [viewers : {viewers}, late : {late}, steps : {steps}, early : earlies, scored : scoreds, raises : faults]

Faults == {{}, {"engine"}, {"reported"}, {"scoring"}, {"logging"}}

\* A connection and a stream of a run with concurrent steps; two connections
\* of a run; and a single viewer of a run in which anything may go wrong.
MCSetups ==
  UNION {Runs({w1, l1}, {w1}, {s1, s2}, {{}}, {FALSE}, {{}}),
         Runs({w1, w2}, {w1, w2}, {s1}, {{}}, {FALSE}, {{}}),
         Runs({w1}, {w1}, {s1, s2}, {{}, {s1}}, BOOLEAN, Faults),
         Runs({l1}, {l1}, {s1, s2}, {{}, {s1}}, BOOLEAN, Faults)}
=============================================================================
