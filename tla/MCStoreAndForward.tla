------------------------- MODULE MCStoreAndForward -------------------------
(***************************************************************************)
(* Instances of StoreAndForward for TLC.  Source a emits a1 < a2, source b *)
(* emits b1 < b2; ab is an update of b made after it had merged the clock  *)
(* of a2, so that a1 < a2 < ab and b1 < b2 < ab.                              *)
(***************************************************************************)
EXTENDS StoreAndForward

CONSTANTS a, b, c1, c2, c3, r1, r2

Clk(n, m) == [s \in {a, b} |-> IF s = a THEN n ELSE m]

Frm(src, content, receipt, clock) ==
    [envelope |-> [platform_id |-> src, content |-> content,
                   received_at |-> receipt],
     vc |-> clock]

\* Ordered and concurrent pairs, chains of three, an intruder concurrent with
\* both of a pair, and two concurrent frames before a third.
CausalFrames ==
    {Frm(a, c1, r1, Clk(1, 0)), Frm(a, c2, r1, Clk(2, 0)),
     Frm(b, c1, r1, Clk(0, 1)), Frm(b, c2, r1, Clk(0, 2)),
     Frm(b, c3, r1, Clk(2, 3))}

\* Two independent chains.
ChainFrames ==
    {Frm(a, c1, r1, Clk(1, 0)), Frm(a, c2, r1, Clk(2, 0)),
     Frm(b, c1, r1, Clk(0, 1)), Frm(b, c2, r1, Clk(0, 2))}

\* Retransmissions: the receipt varies; a stationary platform reports the
\* same content under a later clock.
ReplayFrames ==
    {Frm(a, c1, r1, Clk(1, 0)), Frm(a, c1, r2, Clk(1, 0)),
     Frm(a, c1, r1, Clk(3, 0)), Frm(a, c2, r1, Clk(2, 0)),
     Frm(b, c1, r1, Clk(0, 1))}
=============================================================================
