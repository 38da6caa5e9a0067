---------------------------- MODULE MCFanOutRun ----------------------------
(* The four sinks of the reference run, on every step list up to MaxSteps. *)
EXTENDS FanOutRun

CONSTANT MaxSteps    \* bound: steps per run

ReferenceSinks == <<"cot", "nvg", "generic-csv", "legacy-position-csv">>

AllStepLists == UNION {[1..n -> Step] : n \in 0..MaxSteps}
=============================================================================
