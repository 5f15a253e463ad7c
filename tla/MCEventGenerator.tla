-------------------------- MODULE MCEventGenerator --------------------------
(* Two or three objects, one search base and one or two processes: values for TLC. *)
EXTENDS EventGenerator

CONSTANTS o1, o2, o3, b1, p1, p2, q1, q2

MCObjects == {o1, o2}
MCThreeObjects == {o1, o2, o3}
MCBases == {b1}
MCProcesses == {q1, q2}
MCPollers == {p1, p2}
MCBaseOf == [p \in Pollers |-> b1]
MCProcessOf == [p \in Pollers |-> IF p = p1 THEN q1 ELSE q2]

\* A single process, for the runs whose point is not in a second one.
MCOneProcess == {q1}
MCOnePoller == {p1}
=============================================================================
