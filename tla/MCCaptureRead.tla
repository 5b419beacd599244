------------------------------ MODULE MCCaptureRead ------------------------------
(***************************************************************************)
(* An instance of CaptureRead: short segments, a ring of two, an input     *)
(* with a few pulses.                                                      *)
(***************************************************************************)
EXTENDS CaptureRead

OneShot == [NoConfig EXCEPT !.samples = 3]
Triggering == [OneShot EXCEPT !.trigger = "either", !.pretrigger = 2]
Unarmed == [OneShot EXCEPT !.trigger = "fall", !.pretrigger = 2, !.arm = FALSE]
Repeat == [NoConfig EXCEPT !.mode = "repeat", !.samples = 2, !.segments = 2]
Rearming == [Repeat EXCEPT !.trigger = "either", !.pretrigger = 1, !.rearm = TRUE]
AtOnce == [Rearming EXCEPT !.pretrigger = 0]   \* the sample at the segment's end may be the next trigger's
Early == [Rearming EXCEPT !.arm = FALSE]

McConfigs == {OneShot, Triggering, Unarmed, Repeat, Rearming, AtOnce, Early}
McOther == {Repeat}
McForcible == {Triggering}
McForceAny == {Triggering, Rearming}
McInputs == {{}, {2}, {1, 2, 3, 4, 6, 7}}
McWide == {Rearming}
McRearmed == {AtOnce, Early}
================================================================================
