---------------------------- MODULE MCDpiWrapper ----------------------------
(***************************************************************************)
(* Small designs for DpiWrapper.                                           *)
(*                                                                         *)
(* Wide: two clocks, one of them used on both edges and the other read by  *)
(* the logic, an active-low reset shared by two flops, a registered output *)
(* and, in the designs that have one, a combinational output of x.         *)
(* Small: one clock and one reset; small enough to follow through time.    *)
(***************************************************************************)
EXTENDS DpiWrapper

Bits == {0, 1}
RstLow == [r \in {"rst"} |-> 0]

WideClock == {"ca", "cb"}
OneReset == {"rst"}
OneData == {"x"}
TwoData == {"x", "z"}
WideFlop == {"fa", "fb", "fc"}
WideDomain == {<<"ca", 1>>, <<"cb", 1>>, <<"cb", 0>>}
WideFlopDomain == [f \in WideFlop |-> CASE f = "fa" -> <<"ca", 1>>
                                        [] f = "fb" -> <<"cb", 1>>
                                        [] f = "fc" -> <<"cb", 0>>]
WideFlopResets == [f \in WideFlop |-> IF f = "fc" THEN {} ELSE {"rst"}]
WideResetValue == [f \in WideFlop |-> IF f = "fa" THEN 1 ELSE 0]
WideInitializer == [f \in WideFlop |-> IF f = "fc" THEN {1} ELSE {}]
WideNextD(in, q) == [f \in WideFlop |-> CASE f = "fa" -> IF in["x"] = 1 THEN q["fb"] ELSE in["ca"]
                                          [] f = "fb" -> q["fa"]
                                          [] f = "fc" -> q["fb"]]
\* z feeds a flop and no output.
WiderNextD(in, q) == [f \in WideFlop |-> IF f = "fb" THEN (IF in["z"] = 1 THEN q["fa"] ELSE q["fc"])
                                         ELSE WideNextD(in, q)[f]]
WideDrives == {"ca"}
RegOutput == {"qo"}
BothOutput == {"qo", "co"}
BothOutputOf(in, q) == [o \in BothOutput |->
    IF o = "qo" THEN (IF in["ca"] = 1 THEN q["fc"] ELSE q["fa"])
    ELSE IF in["x"] = 1 THEN q["fa"] ELSE in["ca"]]
CombOnly == {"co"}

SmallClock == {"ca"}
SmallFlop == {"fa"}
SmallDomain == {<<"ca", 1>>}
SmallFlopDomain == [f \in SmallFlop |-> <<"ca", 1>>]
SmallFlopResets == [f \in SmallFlop |-> {"rst"}]
SmallResetValue == [f \in SmallFlop |-> 1]
SmallInitializer == [f \in SmallFlop |-> {}]
SmallNextD(in, q) == [f \in SmallFlop |-> in["x"]]
SmallOutputOf(in, q) == [o \in RegOutput |-> q["fa"]]
=============================================================================
