---------------------------- MODULE MCSettingsHost ----------------------------
(***************************************************************************)
(* SettingsHost on small instances: two channels, three kinds of values    *)
(* and a secret, files that swap labels and turn an idle into a disable.   *)
(***************************************************************************)
EXTENDS SettingsHost, TLC

Items == {"label", "idle", "disable", "pass"}
Forms == [label |-> {1, 2}, idle |-> {1, 2}, disable |-> {0, 1}, pass |-> {1}]

Full == <<"label", "idle", "disable", "pass">>
NoIdle == <<"label", "disable", "pass">>

NoValues == [k \in Items \X (1..2) |-> NoValue]
Values(entries) == [k \in Items \X (1..2) |->
  IF \E e \in entries : <<e[1], e[2]>> = k THEN (CHOOSE e \in entries : <<e[1], e[2]>> = k)[3] ELSE NoValue]
E(i, c, v) == [item |-> i, ch |-> c, v |-> v]

Wired == Values({<<"label", 1, 1>>, <<"label", 2, 2>>, <<"idle", 1, 1>>, <<"pass", 1, 1>>})
Kept == {[is |-> "kept", conf |-> Wired], [is |-> "none", conf |-> NoValues]}

\* The labels swapped, the idle channel disabled, the secret kept or given.
Swap == <<E("label", 1, 2), E("label", 2, 1), E("disable", 1, 1), E("pass", 1, NoValue)>>
Give == <<E("label", 1, 1), E("pass", 2, 1), E("idle", 2, 9)>>
\* The values the probe starts with.
Same == <<E("label", 1, 1), E("label", 2, 2), E("idle", 1, 1), E("pass", 1, NoValue)>>
\* Channel 2 gets the label of channel 1.
Move == <<E("label", 2, 1)>>

Told(c, f, s) == [cmd |-> c, file |-> f, save |-> s]
AllCommands ==
  {Told("import", f, s) : f \in {Swap, Give}, s \in BOOLEAN}
  \cup {Told("import", Same, FALSE)}
  \cup {Told("set", f, TRUE) : f \in {Move, <<E("disable", 2, 1), E("label", 2, 2)>>}}
  \cup {Told("clear", <<>>, TRUE), Told("keep", <<>>, TRUE)}

\* What the other session does: numbers are those of the full firmware.
Row1(o, n, c, v) == [op |-> o, n |-> n, ch |-> c, v |-> v]
Others == {Row1("set", 1, 1, 2), Row1("unset", 1, 1, 0), Row1("unset", 2, 1, 0), Row1("set", 2, 2, 1)}

L(o, t, b, f) == [others |-> o, forces |-> t, boots |-> b, faults |-> f]
AllLoads == {L(2, 2, 0, 1), L(1, 1, 1, 1)}
BothFirmwares == {Full, NoIdle}
=============================================================================
