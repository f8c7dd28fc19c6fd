----------------------------- MODULE MCMateAbi -----------------------------
(***************************************************************************)
(* A two-flop design for MateAbi: fa is an asynchronously reset flop on    *)
(* the rising edge of clk that takes x, fb an unreset flop on its falling  *)
(* edge that takes fa unless the clock level, read as data, says otherwise.*)
(***************************************************************************)
EXTENDS MateAbi

MCClock == {"clk"}
MCReset == {"rst"}
MCData == {"x"}
MCOutput == {"y"}
MCFlop == {"fa", "fb"}
MCValue == {0, 1}
MCDomain == {<<"clk", 1>>, <<"clk", 0>>}
MCActiveLevel == [r \in MCReset |-> 0]
MCFlopDomain == [f \in MCFlop |-> IF f = "fa" THEN <<"clk", 1>> ELSE <<"clk", 0>>]
MCFlopResets == [f \in MCFlop |-> IF f = "fa" THEN {"rst"} ELSE {}]
MCResetValue == [f \in MCFlop |-> 1]
MCInitializer == [f \in MCFlop |-> IF f = "fb" THEN {1} ELSE {}]
MCNextD(in, q) ==
    [f \in MCFlop |-> IF f = "fa" THEN in["x"]
                      ELSE IF in["clk"] = 1 THEN q["fb"] ELSE q["fa"]]
MCOutputOf(in, q) == [o \in MCOutput |-> IF q["fb"] = 1 THEN in["x"] ELSE in["clk"]]

MCWritable == {"clk", "x"}
\* An evaluator that throws in one state.
ThrowsOnce(in, q) == in["x"] = 1 /\ q["fa"] = 1
=============================================================================
