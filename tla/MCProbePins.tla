----------------------------- MODULE MCProbePins -----------------------------
(***************************************************************************)
(* ProbePins on two channels: a gpio, a UART, a logic capture and an       *)
(* analog all may use the first, the gpio and the UART the second too; a   *)
(* one-wire link has the first for its one port.                           *)
(***************************************************************************)
EXTENDS ProbePins

Two == {1, 2}
One == {1}
Fns == {"g", "u", "l", "n"}
Kinds == [f \in Fns |-> CASE f = "g" -> "gpio" [] f = "u" -> "uart" [] f = "l" -> "logic" [] OTHER -> "analog"]
Offers == ({"g", "u", "l", "n"} \X One) \cup {<<"g", 2>>, <<"u", 2>>}
OnePin == [p \in One |-> {p}]
OneWire == [p \in One |-> "w"]
NoPull == {<<1, "pull">>}
GpioAndLogic == {"g", "l"} \X One
AtBoot == [disabled |-> {}, idle |-> [ch \in Two |-> IF ch = 2 THEN "pull" ELSE NoIdle], nohold |-> {}]
Told == <<conf, gen, saved, storage, lacks, plan, running, gpio, parked, conns, holds>>
=============================================================================
