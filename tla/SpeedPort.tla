------------------------------- MODULE SpeedPort -------------------------------
(***************************************************************************)
(* A probe's serial port whose rate a session may raise (port_speed in     *)
(* endpoint.py): operators on the port's record.                           *)
(*                                                                         *)
(* Boot is the boot speed, the other rates are above it.  A try is         *)
(* answered at the rate its request came at, and the port switches behind  *)
(* that answer; it goes back by itself after verify_ms without a commit,   *)
(* after port_speed_idle_ms without a good frame once it is committed, and *)
(* at the session's end - at a frame's boundary.                           *)
(***************************************************************************)
EXTENDS Naturals

CONSTANTS
  Rates,   \* the rates above the boot speed the UART makes
  Idle     \* port_speed_idle_ms, in clock ticks

ASSUME SpeedAssumption == Rates \subseteq Nat \ {0} /\ Idle \in Nat \ {0}

Boot == 0

\* state: the boot speed, tried or committed; left: the ticks until the try or the idle time
\* runs out; fallback: a return waits, for the answer to be out or for a frame's boundary
\* (phase 3, and a pending revert); busy: a frame on the port is not finished.
AtBoot == [state |-> "base", rate |-> Boot, left |-> 0, fallback |-> FALSE, busy |-> FALSE]

Raised(p) == p.state # "base"
\* A verify_ms or an idle time that has run out.
Due(p) == Raised(p) /\ p.left = 0

\* _speed_revert.
Revert(p) == [AtBoot EXCEPT !.busy = p.busy]

\* _speed_fall, _session_over: back at once, or once the frame on the port is finished.
Fall(p) ==
  CASE ~Raised(p) -> p
    [] Raised(p) /\ p.busy -> [p EXCEPT !.fallback = TRUE]
    [] OTHER -> Revert(p)

\* speed_frame_done.
FrameDone(p) == IF p.fallback THEN Revert([p EXCEPT !.busy = FALSE]) ELSE [p EXCEPT !.busy = FALSE]

\* _speed_tick: a return that waits already stays.
TickPort(p) == IF Due(p) /\ ~p.fallback THEN Fall(p) ELSE p

\* Mutant: bytes that are no frame count as one.
HeardAny(p, good) == IF p.state = "committed" THEN [p EXCEPT !.left = Idle] ELSE p

\* speed_frame, speed_answered: a good frame, or an answer, restarts a committed rate's idle time.
Heard(p, good) == IF good /\ p.state = "committed" THEN [p EXCEPT !.left = Idle] ELSE p

\* _speed_due: what has run out when a request arrives on the port waits for its answer.
DueOnArrival(p) == IF Due(p) THEN [p EXCEPT !.fallback = TRUE] ELSE p

\* _port_speed: a step that does not fit the port's phase is refused, every one of them while a
\* return waits.
Fits(p, step, rate) ==
  /\ ~p.fallback
  /\ \/ step = "try" /\ ~Raised(p)
     \/ step = "commit" /\ p.state = "try" /\ p.rate = rate
     \/ step = "revert" /\ Raised(p)

\* What a request changes before its answer is out, and a commit in it.
Committed(p) == [p EXCEPT !.state = "committed", !.left = Idle]

Switched(p, rate, verify) == [p EXCEPT !.state = "try", !.rate = rate, !.left = verify]

\* Mutant: a return that waited for the answer is not looked at again.
AfterAnswerOnce(p, step, rate, verify) ==
  CASE step = "try" -> Switched(p, rate, verify)
    [] step = "revert" -> Revert(p)
    [] OTHER -> p

\* after_answer, the answer of a step that was taken being out ("none": of anything else): the
\* switch or revert it asked for, and a return that waited for it.
AfterAnswer(p, step, rate, verify) ==
  CASE step = "try" -> Switched(p, rate, verify)
    [] step = "revert" \/ (p.fallback /\ ~p.busy) -> Revert(p)
    [] OTHER -> p

\* A tick of the clock.
Pass(p) == [p EXCEPT !.left = IF @ = 0 THEN 0 ELSE @ - 1]
=============================================================================
