---------------------------- MODULE MCCommitOrder ----------------------------
(***************************************************************************)
(* Two clocks, one used on both edges, two resets of either polarity, and  *)
(* flops that feed each other across the domains.                          *)
(***************************************************************************)
EXTENDS CommitOrder

MCClock == {"ca", "cb"}
MCReset == {"rh", "rl"}
MCData == {"x"}
MCOutput == {"y"}
MCFlop == {"f1", "f2", "f3"}
MCValue == {0, 1}
MCDomain == {<<"ca", 1>>, <<"cb", 1>>, <<"cb", 0>>}
MCActiveLevel == [r \in MCReset |-> IF r = "rh" THEN 1 ELSE 0]
MCFlopDomain == [f \in MCFlop |-> CASE f = "f1" -> <<"ca", 1>>
                                    [] f = "f2" -> <<"cb", 1>>
                                    [] f = "f3" -> <<"cb", 0>>]
MCFlopResets == [f \in MCFlop |-> CASE f = "f1" -> {"rh", "rl"}
                                    [] f = "f2" -> {"rl"}
                                    [] f = "f3" -> {}]
MCResetValue == [f \in MCFlop |-> IF f = "f2" THEN 1 ELSE 0]
MCInitializer == [f \in MCFlop |-> IF f = "f3" THEN {1} ELSE {}]
MCNextD(in, q) == [f \in MCFlop |-> CASE f = "f1" -> 1 - q["f2"]
                                      [] f = "f2" -> q["f1"]
                                      [] f = "f3" -> IF in["x"] = 1 THEN q["f2"] ELSE in["ca"]]
MCOutputOf(in, q) == [o \in MCOutput |-> IF q["f3"] = in["x"] THEN q["f1"] ELSE 0]
=============================================================================
