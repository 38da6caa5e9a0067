---------------------------- MODULE CausalOutbox ----------------------------
(***************************************************************************)
(* What the store-and-forward buffer promises its caller, without windows, *)
(* counters or a sorting algorithm:                                        *)
(*   - a frame is refused only if its content was taken before;            *)
(*   - at most `bound` frames wait; when one more arrives the oldest is    *)
(*     given back, and nothing else is ever given back;                    *)
(*   - through an open gate all that waits leaves at once, each frame once,*)
(*     causes before effects; through a closed gate nothing leaves.        *)
(***************************************************************************)
EXTENDS CausalClock, Sequences, Functions

CONSTANTS Frame,   \* the frames offered, records with a field vc
          KeyOf    \* the content of a frame, a function on Frame

VARIABLES open, bound, held, seen, refused, released, lost

vars == <<open, bound, held, seen, refused, released, lost>>

Init ==
    /\ open \in BOOLEAN
    /\ bound \in Nat \ {0}
    /\ held = <<>> /\ released = <<>> /\ lost = <<>>
    /\ seen = {} /\ refused = 0

Gate == /\ open' \in BOOLEAN
        /\ UNCHANGED <<bound, held, seen, refused, released, lost>>

Refuse(f) ==
    /\ KeyOf[f] \in seen
    /\ refused' = refused + 1
    /\ UNCHANGED <<open, bound, held, seen, released, lost>>

Take(f) ==
    /\ seen' = seen \cup {KeyOf[f]}
    /\ \/ /\ Len(held) < bound
          /\ held' = Append(held, f)
          /\ UNCHANGED lost
       \/ /\ Len(held) = bound
          /\ held' = Append(Tail(held), f)
          /\ lost' = Append(lost, Head(held))
    /\ UNCHANGED <<open, bound, refused, released>>

\* The orders of s that show no effect before its cause.
LinearExtensions(s) ==
    {t \in {[i \in DOMAIN s |-> s[p[i]]] : p \in Bijection(DOMAIN s, DOMAIN s)} :
        CausalOrder(t)}

Release ==
    /\ open
    /\ \E t \in LinearExtensions(held) : released' = released \o t
    /\ held' = <<>>
    /\ UNCHANGED <<open, bound, seen, refused, lost>>

Next == Gate \/ Release \/ \E f \in Frame : Refuse(f) \/ Take(f)

Spec == Init /\ [][Next]_vars
=============================================================================
