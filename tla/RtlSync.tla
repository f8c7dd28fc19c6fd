------------------------------- MODULE RtlSync -------------------------------
(***************************************************************************)
(* What the simulated design promises its testbench, with no runtime in    *)
(* it: a set of flops clocked and reset by ports.  Every edge of one       *)
(* simulation instant samples the D of before the instant ("matching RTL,  *)
(* where all non-blocking updates sample pre-edge values",                 *)
(* src/src/abi/mate_model_abi.h) and a flop under reset keeps its reset    *)
(* value whatever its clock does.                                          *)
(***************************************************************************)
CONSTANTS Clock, Reset, Data, Flop, Value, ActiveLevel, FlopDomain,
          FlopResets, ResetValue, NextD(_, _), PowerUpQ

VARIABLES
    up,    \* the design has been initialised
    in,    \* the ports as the design sees them
    q      \* the flops

vars == <<up, in, q>>

Port == Clock \cup Reset \cup Data

InReset(ports, f) == \E r \in FlopResets[f] : ports[r] = ActiveLevel[r]

Clocked(before, after, f) ==
    LET clk == FlopDomain[f][1]
    IN  before[clk] # after[clk] /\ after[clk] = FlopDomain[f][2]

Init == up = FALSE /\ in \in [Port -> Value] /\ q \in [Flop -> Value]

PowerUp ==
    /\ ~up
    /\ up' = TRUE
    /\ in' \in [Port -> Value]
    /\ \E q0 \in PowerUpQ : q' = [f \in Flop |->
           IF InReset(in', f) THEN ResetValue[f] ELSE q0[f]]

\* Data arrives: no flop moves.
DataChange ==
    /\ up
    /\ in' \in [Port -> Value]
    /\ \A s \in Clock \cup Reset : in'[s] = in[s]
    /\ UNCHANGED <<up, q>>

\* Any number of clocks and resets change level at once.
Instant ==
    /\ up
    /\ in' \in [Port -> Value]
    /\ \A s \in Data : in'[s] = in[s]
    /\ q' = [f \in Flop |->
           IF InReset(in, f) \/ InReset(in', f) THEN ResetValue[f]
           ELSE IF Clocked(in, in', f) THEN NextD(in, q)[f]
           ELSE q[f]]
    /\ UNCHANGED up

Next == PowerUp \/ DataChange \/ Instant

Spec == Init /\ [][Next]_vars
=============================================================================
