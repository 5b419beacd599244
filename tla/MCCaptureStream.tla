---------------------------- MODULE MCCaptureStream ----------------------------
(***************************************************************************)
(* An instance of CaptureStream: segments of three samples in frames of    *)
(* two, a stream buffer the clock can outrun.                              *)
(***************************************************************************)
EXTENDS CaptureStream

Streaming == [mode |-> "streaming", samples |-> 3, segments |-> 1, trigger |-> "none", pretrigger |-> 0,
              arm |-> TRUE, rearm |-> FALSE]

McConfigs == {Streaming}
McInputs == {{}}
================================================================================
