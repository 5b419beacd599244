---------------------------- MODULE MCPipelinedLink ----------------------------
(***************************************************************************)
(* PipelinedLink on small instances: a session and one interface.          *)
(***************************************************************************)
EXTENDS PipelinedLink

CONSTANTS c1, c2, c3

Connections == {c1, c2, c3}
None == {}

As(framing, calls, faults) == [framing |-> framing, calls |-> calls, faults |-> faults]

\* Three requests at once and two more after a subscribe, on each framing; a USB pair that loses
\* more than a call and its resync bear.
EachFraming ==
  {As("cobs", <<3, 2>>, 2), As("bulk", <<3, 0>>, 2), As("tcp", <<0, 3, 1>>, 2), As("bulk", <<1, 1>>, 3)}
=============================================================================
