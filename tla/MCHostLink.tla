------------------------------ MODULE MCHostLink ------------------------------
(***************************************************************************)
(* HostLink on small instances: two hosts on links of their own.           *)
(***************************************************************************)
EXTENDS HostLink, TLC

CONSTANTS h1, h2

BothHosts == {h1, h2}

\* What the first host may call and how often, and the second.
By(first, n, second, k) ==
  [ops |-> [h \in BothHosts |-> IF h = h1 THEN first ELSE second], calls |-> [h \in BothHosts |-> IF h = h1 THEN n ELSE k]]
Limits(faults, boots, chan) == [faults |-> faults, boots |-> boots, chan |-> chan]
Only(by, limits) == [ops |-> by.ops, calls |-> by.calls, faults |-> limits.faults, boots |-> limits.boots, chan |-> limits.chan]

\* One host writes over a broken link beside a restart; another one takes the lock from it; one
\* makes connections across ends, takeovers and a restart.
Writing == Only(By({"open", "write", "confirm"}, 3, {}, 0), Limits(2, 1, 3))
Contending == Only(By({"open", "write"}, 3, {"force"}, 1), Limits(1, 0, 2))
Connecting == Only(By({"force", "connect", "end"}, 4, {}, 0), Limits(1, 1, 2))
ThreeLoads == {Writing, Contending, Connecting}

\* One host that may die: a session, two writes.
Dying == {Only(By({"open", "write"}, 3, {}, 0), Limits(1, 0, 2))}

\* The requests come from the hosts: none of ProbeSession's own.
None == {}

Ids == Permutations(Sid)
=============================================================================
