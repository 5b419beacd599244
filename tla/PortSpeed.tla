------------------------------- MODULE PortSpeed -------------------------------
(***************************************************************************)
(* A host raises the rate of the UART bridge it talks on (raise_speed,     *)
(* and the fallbacks of link.py) while the probe keeps timers of its own   *)
(* (SpeedPort).  Frames are lost or broken, some rates carry no frames or  *)
(* only small ones, the session lapses or is taken over, the host dies and *)
(* another one opens the port.                                             *)
(*                                                                         *)
(* One exchange (a request and its answer, far shorter than a tick) is one *)
(* step; the host reads what came of it in a later one.  An answer read at *)
(* another rate than the one it left at is noise.                          *)
(***************************************************************************)
EXTENDS SpeedPort, Sequences, FiniteSets

CONSTANTS
  VerifyMs,     \* rate -> verify_ms of its try, in ticks
  Verified,     \* the rates whose frames are measured before the commit
  Retry,        \* OPEN_RETRY_S: how long confirms at the boot speed are repeated
  Wait, RaisedWait,   \* how long an answer is waited for, and in use at a raised rate
  BrokenResends, \* resends at once after a broken answer (3 in the code)
  ConfirmTries, \* confirms after a switch (3 in the code)
  FlowFail,     \* frames broken or lost that fail a measurement (FLOW_FAIL_MIN, 3 in the code)
  Plans,        \* the sequences of candidates a user asks for
  Lines,        \* what a line may carry: rate -> "all", "small" frames, "none"
  Kinds,        \* a user's calls: "work", "large", "end", "open"
  Loads         \* bounds: what a behaviour has of calls, opens, faults and events

Load == [calls: Nat, opens: Nat, faults: Nat, events: Nat]

ASSUME HostSpeedAssumption ==
  /\ VerifyMs \in [Rates -> Nat \ {0}] /\ Verified \subseteq Rates
  /\ Retry \in Nat /\ Retry > Idle /\ {Wait, RaisedWait} \subseteq Nat
  /\ {BrokenResends, ConfirmTries, FlowFail} \subseteq Nat /\ Loads \subseteq Load
  /\ IsFiniteSet(Rates) /\ Kinds \subseteq {"work", "large", "end", "open"}
  /\ Plans \subseteq Seq(Rates) /\ Lines \subseteq [Rates -> {"all", "small", "none"}]

VARIABLES
  port,      \* the probe's port
  lock,      \* the session at the probe: the host's ("mine"), one the host opened and does not
             \* know yet ("new"), one that has lapsed unnoticed ("expired"), another or none ("gone")
  line,      \* what each rate carries
  pc,        \* what the host is doing
  baud,      \* the rate it reads and writes at
  reply,     \* what came of its request: "none" (not sent), "silent", "broken", or the answer
  waited, broken, tries,   \* what it counts of the request, the confirms or the measurement under way
  left,      \* ticks it waits for the answer yet
  until,     \* ticks to the deadline of a return or an open
  rate,      \* the candidate being tried
  cands,     \* the ones after it
  plan,      \* what a step down may go to (SpeedPlan)
  unusable, failed,   \* rates that broke in use, that broke at all, in this session
  why,       \* why it returns to the boot speed
  kind,      \* the user's call under way, or "none"
  again,     \* that call goes out once more after a return
  ran,       \* what the probe answered to the call, to the host's own request (its resend table)
  believes,  \* the host has a session (Host.session)
  struck,    \* a frame broke or was lost at the raised rate in use
  lossy,     \* history: a fault hit a confirm of this return or open
  settled,   \* history: the port's rate once the last answer was out
  load       \* of the bounds, what is left of each

probeVars == <<port, lock>>
requestVars == <<reply, waited, broken, tries, left>>
trialVars == <<rate, cands, why, until>>
sessionVars == <<plan, unusable, failed, believes, struck>>
callVars == <<kind, again, ran>>
pastVars == <<lossy, settled>>
vars == <<probeVars, line, pc, baud, requestVars, trialVars, sessionVars, callVars, pastVars, load>>

Down == {"dead", "lost", "closed"}
Requests == {"call", "try", "confirm", "verify", "commit", "revert", "base", "state", "open", "recover"}

\* Raised, outside raise_speed's own trial (_in_use).
InUse == pc = "call" /\ baud # Boot

SpeedInit ==
  /\ port = AtBoot /\ lock = "gone" /\ line \in Lines
  /\ pc = "free" /\ baud = Boot
  /\ reply = "none" /\ waited = 0 /\ broken = 0 /\ tries = 0 /\ left = 0
  /\ rate = Boot /\ cands = <<>> /\ why = "none" /\ until = 0
  /\ plan = {} /\ unusable = {} /\ failed = {} /\ believes = FALSE /\ struck = FALSE
  /\ kind = "none" /\ again = FALSE /\ ran = [w \in {"call", "own"} |-> "none"]
  /\ lossy = FALSE /\ settled = Boot
  /\ load \in Loads

-------------------------------------------------------------------------------
(* One exchange: what the line makes of it, and what the probe does.        *)

Op == CASE pc = "call" -> kind [] pc \in {"try", "commit", "revert"} -> pc [] OTHER -> "read"
Large == pc = "verify" \/ (pc = "call" /\ kind = "large")
Who == IF pc = "call" THEN "call" ELSE "own"

Outcome(got, back, fault) == [got |-> got, back |-> back, fault |-> fault]

\* At another rate, or at a rate that carries nothing, nothing arrives; large frames a rate
\* breaks arrive at nobody, or their answer breaks; else a fault may hit either way.
Carries ==
  CASE baud # port.rate \/ (baud # Boot /\ line[baud] = "none") -> {Outcome(FALSE, "silent", FALSE)}
    [] baud = port.rate /\ baud # Boot /\ line[baud] = "small" /\ Large ->
         {Outcome(FALSE, "silent", FALSE), Outcome(TRUE, "broken", FALSE)}
    [] OTHER -> {Outcome(TRUE, "ok", FALSE)}

\* The request is lost, or the answer to one that arrives.
Faults ==
  {o \in [got : BOOLEAN, back : {"silent", "broken"}, fault : {TRUE}] :
     (~o.got /\ o.back = "silent") \/ \E c \in Carries : o.got = c.got}

Outcomes == {o \in Carries \cup Faults : o.fault => load.faults > 0}

\* A request arrives: a good frame, a lapsed session, a return that is due.
LockOnArrival == IF lock = "expired" THEN "gone" ELSE lock
OnArrival ==
  LET p == Heard(port, TRUE)
  IN IF lock = "expired" THEN [p EXCEPT !.fallback = Raised(p)] ELSE DueOnArrival(p)

\* A copy of what was answered gets that answer; a step must fit the port; the rest needs the lock.
Result ==
  CASE ran[Who] # "none" -> ran[Who]
    [] ran[Who] = "none" /\ Op \in {"read", "open"} -> "ok"
    [] OTHER -> IF LockOnArrival # "mine" THEN "no_session"
                ELSE IF Op \in {"try", "commit", "revert"} /\ ~Fits(OnArrival, Op, rate) THEN "refused"
                ELSE "ok"

\* What is carried out: nothing of a copy or of what is refused.
Done == IF ran[Who] = "none" /\ Result = "ok" THEN Op ELSE "none"

LockAfter == CASE Done = "open" -> "new" [] Done = "end" -> "gone" [] OTHER -> LockOnArrival

\* The session's end, or another open's, takes the port back too (_session_over).
SessionOver == Done = "end" \/ (Done = "open" /\ LockOnArrival \in {"mine", "new"})

PortAfter ==
  LET p == CASE Done = "commit" -> Committed(OnArrival)
             [] SessionOver -> [OnArrival EXCEPT !.fallback = Raised(OnArrival)]
             [] OTHER -> OnArrival
  IN AfterAnswer(Heard(p, TRUE), Done, rate, IF Done = "try" THEN VerifyMs[rate] ELSE 0)

\* What the host waits after a request nothing came back for: the repeated confirms, a revert and
\* the frames of a measurement do not wait longer than a tick.
Waits ==
  CASE pc = "call" -> IF InUse THEN RaisedWait ELSE Wait
    [] pc \in {"try", "commit", "state", "recover"} -> Wait
    [] OTHER -> 0

Send ==
  /\ pc \in Requests /\ reply = "none"
  /\ \E o \in Outcomes :
       /\ load' = [load EXCEPT !.faults = IF o.fault THEN @ - 1 ELSE @]
       /\ lossy' = (lossy \/ (o.fault /\ pc \in {"base", "open"}))
       /\ reply' = IF o.back = "ok" THEN Result ELSE o.back
       /\ left' = IF o.back = "silent" THEN Waits ELSE 0
       /\ \/ /\ o.got
             /\ port' = PortAfter /\ lock' = LockAfter
             /\ ran' = [ran EXCEPT ![Who] = Result]
             /\ settled' = IF PortAfter.fallback THEN Boot ELSE PortAfter.rate
          \/ /\ ~o.got
             /\ port' = IF baud # port.rate THEN Heard(port, FALSE) ELSE port
             /\ UNCHANGED <<lock, ran, settled>>
  /\ tries' = IF pc \in {"base", "open"} /\ until = 0 THEN 1 ELSE tries
  /\ UNCHANGED <<line, pc, baud, waited, broken, trialVars, sessionVars, kind, again>>

-------------------------------------------------------------------------------
(* What the host goes on to.                                                *)

\* The next request: nothing of the last one counts.
Ask(p) ==
  /\ pc' = p /\ reply' = "none" /\ waited' = 0 /\ broken' = 0 /\ tries' = 0 /\ left' = 0
  /\ ran' = [ran EXCEPT !["own"] = "none"]

\* The same request, or the next of its kind, once more.
Again(w, b, t) ==
  /\ reply' = "none" /\ left' = 0 /\ waited' = w /\ broken' = b /\ tries' = t
  /\ UNCHANGED <<pc, ran>>

Least(S) == CHOOSE m \in S : \A n \in S : m <= n

\* _barred: a rate that broke in use in this session, and what is above it.
Barred(r) == unusable # {} /\ Least(unusable) <= r
Open(s) == {k \in 1..Len(s) : ~Barred(s[k])}

\* Fastest first: the one sequence of S.
Descending(S) == {s \in [1..Cardinality(S) -> S] : \A i, j \in 1..Cardinality(S) : i < j => s[j] < s[i]}

\* A trial is over: the call that waited for it goes out again, or the user has the report.
Finish ==
  /\ cands' = <<>> /\ why' = "none" /\ until' = 0
  /\ \/ kind # "none" /\ Ask("call") /\ again' = TRUE /\ UNCHANGED kind
     \/ kind = "none" /\ Ask("free") /\ UNCHANGED <<kind, again>>

\* _try: the next candidate that is not barred, or none left.
NextTrial(s) ==
  \/ Open(s) = {} /\ Finish /\ rate' = Boot
  \/ \E k \in Open(s) :
       /\ \A j \in Open(s) : k <= j
       /\ Ask("try") /\ rate' = s[k] /\ cands' = SubSeq(s, k + 1, Len(s))
       /\ why' = "none" /\ until' = 0 /\ UNCHANGED <<kind, again>>

\* back_to_base: the host at the boot speed, confirms until one is answered or the time is over.
Home(reason, most) ==
  /\ baud' = Boot /\ Ask("base") /\ why' = reason /\ until' = most /\ lossy' = FALSE
  /\ UNCHANGED <<cands, kind, again, settled>>

\* back: confirms for OPEN_RETRY_S, or verify_ms and a second when that is longer.
TrialWait == IF VerifyMs[rate] + 1 > Retry THEN VerifyMs[rate] + 1 ELSE Retry

\* An answer that tells that the session is gone (Host._answered).
Learns == believes' = (believes /\ reply # "no_session")

\* Each silent or broken frame of a call at a raised rate may be the one the window judges
\* (_count: step_due).
Strikes == IF InUse /\ believes /\ reply # "ok" THEN {struck, TRUE} ELSE {struck}

-------------------------------------------------------------------------------
(* An answer that did not come, or came broken.                             *)

Missed == reply = "broken" \/ (reply = "silent" /\ left = 0)
Resendable == {"call", "try", "commit", "state"}

\* _send_loop: at once after a broken frame, once after a wait.
AtOnce == reply = "broken" /\ broken < BrokenResends
\* Mutant: a wait with nothing is never the last one.
OnceMoreAlways == ~AtOnce
OnceMore == ~AtOnce /\ waited = 0 /\ broken < BrokenResends

Resend ==
  /\ pc \in Resendable /\ Missed
  /\ \/ AtOnce /\ Again(waited, broken + 1, tries)
     \/ OnceMore /\ Again(1, broken, tries)
  /\ struck' \in Strikes
  /\ UNCHANGED <<probeVars, line, baud, trialVars, plan, unusable, failed, believes, kind, again, pastVars, load>>

GivenUp == pc \in Resendable /\ Missed /\ ~AtOnce /\ ~OnceMore

\* The waiting for an answer, or a measurement's frame, ends without one more.
Silent(p) == pc = p /\ Missed
Answered(p) == pc = p /\ reply \notin {"none", "silent", "broken"}

-------------------------------------------------------------------------------
(* raise_speed.                                                             *)

Raise ==
  /\ pc = "free" /\ believes /\ load.calls > 0 /\ kind = "none"
  /\ \E s \in Plans :
       /\ plan' = IF Open(s) = {} THEN plan ELSE {s[k] : k \in Open(s)}
       /\ NextTrial(s)
  /\ load' = [load EXCEPT !.calls = @ - 1]
  /\ UNCHANGED <<probeVars, line, baud, unusable, failed, believes, struck, pastVars>>

\* Answered: the host at the new rate; refused: no other candidate does better.
TryAnswered ==
  /\ Answered("try")
  /\ \/ /\ reply = "ok" /\ baud' = rate /\ Ask("confirm")
        /\ UNCHANGED <<trialVars, kind, again, believes>>
     \/ /\ reply # "ok" /\ Learns /\ Finish
        /\ UNCHANGED <<baud, rate>>
  /\ UNCHANGED <<probeVars, line, plan, unusable, failed, struck, pastVars, load>>

\* Mutant: the next candidate at once.
TryGivenUpAtOnce ==
  /\ pc = "try" /\ GivenUp
  /\ NextTrial(cands)
  /\ UNCHANGED <<probeVars, line, baud, sessionVars, pastVars, load>>

\* No answer: it may have switched, so its verify_ms is waited out at the boot speed.
TryGivenUp ==
  /\ pc = "try" /\ GivenUp
  /\ Home("try", TrialWait)
  /\ UNCHANGED <<probeVars, line, rate, sessionVars, load>>

Confirmed ==
  /\ Answered("confirm")
  /\ Ask(IF rate \in Verified THEN "verify" ELSE "commit")
  /\ UNCHANGED <<probeVars, line, baud, trialVars, sessionVars, kind, again, pastVars, load>>

Measured ==
  /\ Answered("verify") /\ Ask("commit")
  /\ UNCHANGED <<probeVars, line, baud, trialVars, sessionVars, kind, again, pastVars, load>>

\* One more confirm or frame did not come back; too many, and the candidate is given up.
TrialMissed ==
  /\ \E p \in {"confirm", "verify"} :
       LET most == IF p = "confirm" THEN ConfirmTries ELSE FlowFail
       IN /\ Silent(p)
          /\ \/ tries + 1 < most /\ Again(0, 0, tries + 1) /\ UNCHANGED why
             \/ tries + 1 >= most /\ Ask("revert") /\ why' = p
  /\ UNCHANGED <<probeVars, line, baud, rate, cands, until, sessionVars, kind, again, pastVars, load>>

CommitAnswered ==
  /\ Answered("commit")
  /\ Learns
  /\ \/ /\ reply = "ok" /\ Finish /\ struck' = FALSE
        /\ UNCHANGED <<baud, rate, lossy>>
     \/ /\ reply # "ok" /\ Home("commit", TrialWait)
        /\ UNCHANGED <<rate, struck>>
  /\ UNCHANGED <<probeVars, line, plan, unusable, failed, settled, load>>

CommitGivenUp ==
  /\ pc = "commit" /\ GivenUp
  /\ Home("commit", TrialWait)
  /\ UNCHANGED <<probeVars, line, rate, sessionVars, load>>

-------------------------------------------------------------------------------
(* Back to the boot speed.                                                  *)

\* The revert's answer need not come.
Reverted ==
  /\ pc = "revert" /\ (Missed \/ Answered("revert"))
  /\ IF why = "down"
     THEN Home(IF Missed THEN "downlost" ELSE "down", Retry)
     ELSE Home(why, TrialWait)
  /\ UNCHANGED <<probeVars, line, rate, sessionVars, load>>

\* _stepped and _step_lower: the rate is not used again, the next lower candidate that has not
\* failed is tried.
StepDone ==
  LET broke == unusable \cup {rate}
      bad == failed \cup broke
  IN /\ unusable' = broke /\ failed' = failed \cup {rate} /\ struck' = FALSE
     /\ IF believes THEN \E s \in Descending({r \in plan : r < Least(bad)}) : NextTrial(s) ELSE NextTrial(<<>>)

\* A confirm at the boot speed is answered; after a candidate, or a revert that was lost, the
\* port's phase is read too.
BaseAnswered ==
  /\ Answered("base")
  /\ \/ /\ why \in {"try", "confirm", "verify", "commit", "downlost"} /\ Ask("state")
        /\ UNCHANGED <<trialVars, unusable, failed, struck, kind, again>>
     \/ why \in {"down", "silent"} /\ StepDone
  /\ UNCHANGED <<probeVars, line, baud, plan, believes, pastVars, load>>

\* The last one is sent when the time is over.
BaseMissed ==
  /\ Silent("base")
  /\ \/ tries = 0 /\ Again(0, 0, 0)
     \/ tries = 1 /\ Ask("lost")
  /\ UNCHANGED <<probeVars, line, baud, trialVars, sessionVars, kind, again, pastVars, load>>

StateAnswered ==
  /\ Answered("state")
  /\ \/ /\ why # "downlost"
        /\ failed' = IF why \in {"confirm", "verify"} THEN failed \cup {rate} ELSE failed
        /\ NextTrial(cands)
        /\ UNCHANGED <<unusable, struck>>
     \/ why = "downlost" /\ StepDone
  /\ UNCHANGED <<probeVars, line, baud, plan, believes, pastVars, load>>

\* The exception goes to the user; the transport has failed.
StateGivenUp ==
  /\ pc = "state" /\ GivenUp
  /\ Ask("failed") /\ kind' = "none" /\ again' = FALSE
  /\ UNCHANGED <<probeVars, line, baud, trialVars, sessionVars, pastVars, load>>

-------------------------------------------------------------------------------
(* A user's calls.                                                          *)

\* On a failed transport a confirm is answered first (recover_transport).
Call ==
  /\ pc \in {"free", "failed"} /\ load.calls > 0
  /\ \E k \in Kinds :
       /\ believes \/ k = "open"
       /\ kind' = k
       /\ pc' = IF pc = "failed" THEN "recover" ELSE "call"
  /\ load' = [load EXCEPT !.calls = @ - 1] /\ again' = FALSE
  /\ reply' = "none" /\ waited' = 0 /\ broken' = 0 /\ tries' = 0 /\ left' = 0
  /\ ran' = [w \in {"call", "own"} |-> "none"]
  /\ UNCHANGED <<probeVars, line, baud, trialVars, sessionVars, pastVars>>

Recovered ==
  /\ Answered("recover") /\ Ask("call")
  /\ UNCHANGED <<probeVars, line, baud, trialVars, sessionVars, kind, again, pastVars, load>>

RecoverMissed ==
  /\ Silent("recover")
  /\ \/ tries + 1 < ConfirmTries /\ Again(0, 0, tries + 1) /\ UNCHANGED kind
     \/ tries + 1 >= ConfirmTries /\ Ask("failed") /\ kind' = "none"
  /\ UNCHANGED <<probeVars, line, baud, trialVars, sessionVars, again, pastVars, load>>

\* Mutant: the host stays at the raised rate after an end or an open that takes the lock over.
Follows(k) == baud

\* send, _reverts: behind a completed end, or an open that takes the lock over, the probe is at
\* the boot speed.
BaudAfter(k) == IF k \in {"end", "open"} THEN Boot ELSE baud

\* send: the answer goes to the user; a step down that is due comes behind it (_step_down_if_due).
CallAnswered ==
  /\ Answered("call")
  /\ baud' = IF reply = "ok" THEN BaudAfter(kind) ELSE baud
  /\ believes' = CASE reply = "no_session" \/ kind = "end" -> FALSE [] kind = "open" -> TRUE [] OTHER -> believes
  /\ lock' = IF kind = "open" /\ lock = "new" THEN "mine" ELSE lock
  /\ LET new == kind = "open" \/ ~believes'
     IN /\ plan' = IF new THEN {} ELSE plan
        /\ unusable' = IF new THEN {} ELSE unusable
        /\ failed' = IF new THEN {} ELSE failed
  /\ kind' = "none" /\ again' = FALSE
  /\ \/ struck /\ baud' # Boot /\ Ask("revert") /\ why' = "down" /\ rate' = baud
     \/ ~(struck /\ baud' # Boot) /\ Ask("free") /\ UNCHANGED <<why, rate>>
  /\ UNCHANGED <<port, line, cands, until, struck, pastVars, load>>

\* _speed_fallback: in use at a raised rate, step down when that is due, else the boot speed at
\* once; anywhere else, and when it went out again already, the transport has failed.
CallGivenUp ==
  /\ pc = "call" /\ GivenUp
  /\ struck' \in Strikes
  /\ \/ /\ InUse /\ ~again /\ struck'
        /\ Ask("revert") /\ why' = "down" /\ rate' = baud
        /\ UNCHANGED <<baud, cands, until, kind, again, pastVars>>
     \/ /\ InUse /\ ~again /\ ~struck'
        /\ Home("silent", Retry) /\ rate' = baud
     \/ /\ ~(InUse /\ ~again)
        /\ Ask("failed") /\ kind' = "none" /\ again' = FALSE
        /\ UNCHANGED <<baud, trialVars, pastVars>>
  /\ UNCHANGED <<probeVars, line, plan, unusable, failed, believes, load>>

-------------------------------------------------------------------------------
(* The host dies, or its port is closed, and the port is opened again.      *)

Die ==
  /\ pc \notin Down /\ load.events > 0 /\ load' = [load EXCEPT !.events = @ - 1]
  /\ Ask("dead")
  /\ UNCHANGED <<probeVars, line, baud, trialVars, sessionVars, kind, again, pastVars>>

\* wait_boot_speed: a new process confirms at the boot speed for OPEN_RETRY_S.
Reopen ==
  /\ pc \in Down /\ load.opens > 0 /\ load' = [load EXCEPT !.opens = @ - 1]
  /\ pc' = "open" /\ baud' = Boot /\ until' = Retry
  /\ reply' = "none" /\ waited' = 0 /\ broken' = 0 /\ tries' = 0 /\ left' = 0
  /\ rate' = Boot /\ cands' = <<>> /\ why' = "none"
  /\ plan' = {} /\ unusable' = {} /\ failed' = {} /\ believes' = FALSE /\ struck' = FALSE
  /\ kind' = "none" /\ again' = FALSE /\ ran' = [w \in {"call", "own"} |-> "none"]
  /\ lossy' = FALSE
  /\ UNCHANGED <<probeVars, line, settled>>

OpenAnswered ==
  /\ Answered("open") /\ Ask("free") /\ until' = 0
  /\ UNCHANGED <<probeVars, line, baud, rate, cands, why, sessionVars, kind, again, pastVars, load>>

OpenMissed ==
  /\ Silent("open")
  /\ \/ tries = 0 /\ Again(0, 0, 0)
     \/ tries = 1 /\ Ask("closed")
  /\ UNCHANGED <<probeVars, line, baud, trialVars, sessionVars, kind, again, pastVars, load>>

-------------------------------------------------------------------------------
(* Time, the probe's tick and its other sessions, frames of others.         *)

hostVars == <<line, pc, baud, trialVars, sessionVars, callVars, pastVars>>

\* A tick of the clock.  The probe looks at its port more often than that, and a frame is
\* shorter.
Elapse ==
  /\ ~Due(port) /\ ~port.fallback /\ lock # "expired"
  /\ port' = Pass(port)
  /\ left' = IF left = 0 THEN 0 ELSE left - 1
  /\ until' = IF until = 0 THEN 0 ELSE until - 1
  /\ UNCHANGED <<lock, line, pc, baud, reply, waited, broken, tries, rate, cands, why, sessionVars, callVars,
                 pastVars, load>>

\* tick: a lapsed session ends first (_lapse), then what the port waits for (_speed_tick).
ProbeTick ==
  /\ lock' = IF lock = "expired" THEN "gone" ELSE lock
  /\ port' = TickPort(IF lock = "expired" THEN Fall(port) ELSE port)
  /\ UNCHANGED <<hostVars, requestVars, load>>

\* The lease runs out.
Expire ==
  /\ lock \in {"mine", "new"} /\ load.events > 0 /\ load' = [load EXCEPT !.events = @ - 1]
  /\ lock' = "expired"
  /\ UNCHANGED <<port, hostVars, requestVars>>

\* Another host, on another port, opens by force; its results displace this one's.
TakenOver ==
  /\ lock # "gone" /\ load.events > 0 /\ load' = [load EXCEPT !.events = @ - 1]
  /\ lock' = "gone" /\ port' = Fall(port)
  /\ ran' = [w \in {"call", "own"} |-> "none"]
  /\ UNCHANGED <<line, pc, baud, trialVars, sessionVars, kind, again, pastVars, requestVars>>

\* Bytes arrive on the raised port that are no whole frame yet.
FrameStarts ==
  /\ Raised(port) /\ ~port.busy /\ load.events > 0 /\ load' = [load EXCEPT !.events = @ - 1]
  /\ port' = [port EXCEPT !.busy = TRUE]
  /\ UNCHANGED <<lock, hostVars, requestVars>>

FrameEnds ==
  /\ port.busy /\ port' = FrameDone(port)
  /\ UNCHANGED <<lock, hostVars, requestVars, load>>

-------------------------------------------------------------------------------
HostGoesOn ==
  \/ Resend \/ TryAnswered \/ TryGivenUp \/ Confirmed \/ Measured \/ TrialMissed
  \/ CommitAnswered \/ CommitGivenUp \/ Reverted \/ BaseAnswered \/ BaseMissed
  \/ StateAnswered \/ StateGivenUp \/ Recovered \/ RecoverMissed \/ CallAnswered \/ CallGivenUp
  \/ OpenAnswered \/ OpenMissed

SpeedNext ==
  \/ Send \/ HostGoesOn \/ Raise \/ Call \/ Die \/ Reopen
  \/ Elapse \/ ProbeTick \/ Expire \/ TakenOver \/ FrameStarts \/ FrameEnds

\* The probe ticks and time passes; the host goes on with what it does, the user need not call.
SpeedFairness ==
  /\ WF_vars(Send) /\ WF_vars(HostGoesOn)
  /\ WF_vars(Elapse) /\ WF_vars(ProbeTick) /\ WF_vars(FrameEnds)

SpeedSpec == SpeedInit /\ [][SpeedNext]_vars /\ SpeedFairness

-------------------------------------------------------------------------------
(* Properties.                                                              *)

\* Between two calls the host and the port do not talk past each other for good: a host at the
\* boot speed has a port that is there, or on its way there, and a host at a raised rate one that
\* has committed to that rate, unless it went back by itself.  raise_speed, _speed_fallback and
\* _step_down leave one of these whichever frame was lost.
RatesAgree ==
  pc = "free" =>
    IF baud = Boot THEN ~Raised(port) \/ port.fallback
    ELSE ~Raised(port) \/ (port.rate = baud /\ port.state = "committed")

\* An end and an open that takes the lock over leave the host at the rate the port has once
\* the answer is out, at whatever rate and after whatever resend it came (_reverts).
SameRateAfterEnd ==
  [][pc = "call" /\ kind \in {"end", "open"} /\ reply = "ok" /\ pc' \in {"free", "revert"} => baud' = settled]_vars

\* A return to the boot speed finds the probe there before its time is over, whatever was lost
\* on the way, unless the confirms themselves are lost (back_to_base's wait covers verify_ms and
\* port_speed_idle_ms).
ReturnFindsProbe == pc = "lost" => lossy

\* Opening the port finds the probe within OPEN_RETRY_S, unless its confirms are lost
\* (wait_boot_speed: a host that died leaves the rate no longer than port_speed_idle_ms).
OpenFindsProbe == pc = "closed" => lossy

\* A host that is gone, or gave up, does not leave the port at a raised rate (return conditions 1
\* and 2 of port_speed).
PortComesBack == (pc \in Down /\ Raised(port)) ~> (~Raised(port) \/ pc \notin Down)

\* raise_speed and every call end: the host does not go round its candidates for ever.
SpeedCallsEnd == (pc \in Requests) ~> (pc \in {"free", "failed"} \cup Down)

\* What a try's answer says has just happened (set_baud: "the probe switches once its answer is
\* out").
SwitchTogether == [][pc = "try" /\ pc' = "confirm" => settled = baud']_vars
=============================================================================
