------------------------------- MODULE HostLink -------------------------------
(***************************************************************************)
(* Hosts and a probe: each host (host.py) on a serial link of its own      *)
(* (link.py), all of them against one probe (ProbeSession).                *)
(*                                                                         *)
(* A host makes one call at a time.  Its link writes the request, waits    *)
(* for the answer with the request's corr, writes it again after a broken  *)
(* frame or a wait, and gives the transport up when that goes unanswered   *)
(* too; before anything else goes out then, a confirm must come back.      *)
(* Frames are lost or broken both ways, a broken frame may be noise, the   *)
(* probe restarts, a host's process dies with its frames still on the way. *)
(***************************************************************************)
EXTENDS ProbeSession

CONSTANTS
  BrokenResends, \* resends after a broken frame (BROKEN_RESENDS, 3 in the code)
  ConfirmTries,  \* confirms a recovery sends (tries, 3 in the code)
  Loads,         \* bounds: what a behaviour has of each of Load's things
  MaxWrites,     \* bound: writes of all hosts
  MaxCrashes     \* bound: hosts that die

\* What each host calls and how often, frames lost or broken, restarts of the probe, requests of
\* one host the line holds.
Load == [ops: [Route -> SUBSET {"open", "force", "write", "connect", "end", "confirm"}],
         calls: [Route -> Nat], faults: Nat, boots: Nat, chan: Nat]

ASSUME HostAssumption == Loads \subseteq Load /\ MaxWrites \in Nat /\ ConfirmTries \in Nat

VARIABLES
  phase,     \* Route -> "idle", "wait" (for an answer), "confirm" (recovering), "dead"
  req,       \* Route -> the request of the call under way
  waited, broken,   \* Route -> resends of it after a wait, after a broken frame
  failed,    \* Route -> the transport failed (failed_transport)
  sought,    \* Route -> the corr of the confirm the recovery waits for
  tries,     \* Route -> the confirms this recovery has sent
  corr,      \* Route -> the last corr sent
  ses,       \* Route -> the session the host believes it has, or NoSid
  epoch,     \* Route -> losses of the session's resources it has learned of
  seen,      \* Route -> the boot_id it knows
  handles,   \* Route -> connections it was given: [num, epoch], and made, the request that was answered
  toProbe,   \* Route -> the requests on their way, oldest first
  load,      \* of the bounds, what is left of each
  usedSids,  \* ids drawn for an open so far (rng: never the same one twice)
  maker,     \* history: connection number -> the request that made it, in this boot
  runs,      \* history: write -> times the probe ran it
  outcome    \* history: write -> what its caller was told

hostVars == <<phase, req, waited, broken, failed, sought, tries, corr, ses, epoch, seen, handles>>
wireVars == <<toProbe>>
boundVars == <<load, usedSids>>
pastVars == <<runs, outcome, maker>>
allVars == <<vars, hostVars, wireVars, boundVars, pastVars>>

Writes == 1..MaxWrites
NoRequest == [sid |-> NoSid, corr |-> 0, op |-> "unknown", arg |-> 0]

HInit ==
  /\ Init /\ \A b \in BootId : boot <= b
  /\ phase = [h \in Route |-> "idle"] /\ req = [h \in Route |-> NoRequest]
  /\ waited = [h \in Route |-> 0] /\ broken = [h \in Route |-> 0]
  /\ failed = [h \in Route |-> FALSE]
  /\ sought = [h \in Route |-> 0] /\ tries = [h \in Route |-> 0]
  /\ corr = [h \in Route |-> 0] /\ ses = [h \in Route |-> NoSid]
  /\ epoch = [h \in Route |-> 0] /\ seen = [h \in Route |-> boot]
  /\ handles = [h \in Route |-> {}]
  /\ toProbe = [h \in Route |-> <<>>]
  /\ load \in Loads /\ usedSids = {}
  /\ runs = [w \in Writes |-> 0] /\ outcome = [w \in Writes |-> "none"]
  /\ maker = [n \in 1..ResMax |-> NoRequest]

-------------------------------------------------------------------------------
(* A call: the request it sends.                                            *)

Set(f, h, v) == f' = [f EXCEPT ![h] = v]

\* A frame is written; what the line cannot hold is lost on it.
Put(h, r) == toProbe' = IF Len(toProbe[h]) < load.chan THEN [toProbe EXCEPT ![h] = Append(@, r)] ELSE toProbe

\* The write a call makes is named by its argument, new for every call.
WriteName == CHOOSE w \in Writes : outcome[w] = "none"

\* request: the header's session_id and the next corr; send: a failed transport recovers
\* first, and the request waits for that.
Begin(h, sid, op, arg) ==
  LET r == [sid |-> sid, corr |-> NextCorr(corr[h]), op |-> op, arg |-> arg]
  IN /\ phase[h] = "idle"
     /\ load.calls[h] > 0 /\ corr[h] < CorrMax
     /\ load' = [load EXCEPT !.calls[h] = @ - 1]
     /\ req' = [req EXCEPT ![h] = r]
     /\ corr' = [corr EXCEPT ![h] = r.corr]
     /\ \/ /\ ~failed[h]
           /\ phase' = [phase EXCEPT ![h] = "wait"]
           /\ Put(h, r)
        \/ /\ failed[h]
           /\ phase' = [phase EXCEPT ![h] = "confirm"]
           /\ UNCHANGED toProbe
     /\ UNCHANGED <<vars, waited, broken, failed, sought, tries, ses, epoch, seen, handles, runs, maker>>

\* open draws a new id; the other calls send the session's.
CallOpen(h, s) ==
  /\ {"open", "force"} \cap load.ops[h] # {} /\ s \notin usedSids
  /\ \E op \in {"open", "force"} \cap load.ops[h] : Begin(h, s, op, 0)
  /\ usedSids' = usedSids \cup {s}
  /\ UNCHANGED outcome

CallWrite(h) ==
  /\ "write" \in load.ops[h] /\ ses[h] # NoSid /\ \E w \in Writes : outcome[w] = "none"
  /\ Begin(h, ses[h], "write", WriteName)
  /\ outcome' = [outcome EXCEPT ![WriteName] = "pending"]
  /\ UNCHANGED usedSids

CallSession(h, op) ==
  /\ op \in {"connect", "end"} \cap load.ops[h] /\ ses[h] # NoSid
  /\ Begin(h, ses[h], op, 0)
  /\ UNCHANGED <<usedSids, outcome>>

\* A lock-free call goes out with session_id 0.
CallConfirm(h) ==
  /\ "confirm" \in load.ops[h]
  /\ Begin(h, NoSid, "confirm", 0)
  /\ UNCHANGED <<usedSids, outcome>>

-------------------------------------------------------------------------------
(* The link waits for the answer of req.                                    *)

\* The call is over: what counted its resends and tries goes with it.
Over(h) ==
  /\ Set(phase, h, "idle") /\ Set(req, h, NoRequest)
  /\ Set(waited, h, 0) /\ Set(broken, h, 0) /\ Set(tries, h, 0) /\ Set(sought, h, 0)

\* The head of what arrives at h is read, the rest stays.
ReadAnswer(h) ==
  /\ answers[h] # <<>>
  /\ answers' = [answers EXCEPT ![h] = Tail(@)]
  /\ UNCHANGED <<session, table, owned, nextRes, world, history, given>>

\* Mutant: whatever answer comes is taken.
OursAny(h, c) == answers[h] # <<>>

Ours(h, c) == answers[h] # <<>> /\ Head(answers[h]).req.corr = c

\* What the caller of a write is told.
Tell(h, what) ==
  outcome' = IF req[h].op = "write" THEN [outcome EXCEPT ![req[h].arg] = what] ELSE outcome

\* _swept: what the host believed to own is gone.
Swept(h) == epoch' = [epoch EXCEPT ![h] = @ + 1]

\* Mutant: a boot_id that changed is not a loss.
FinishIgnoresBoot(h, a) ==
  \/ /\ a.res = "ok" /\ a.req.op \in OpenOps
     /\ Set(ses, h, req[h].sid) /\ Set(seen, h, a.val)
     /\ UNCHANGED <<epoch, handles>>
  \/ /\ a.res = "ok" /\ a.req.op = "connect"
     /\ Set(handles, h, handles[h] \cup {[num |-> a.val, epoch |-> epoch[h], made |-> a.req]})
     /\ UNCHANGED <<ses, epoch, seen>>
  \/ /\ a.res # "ok" \/ a.req.op \notin (OpenOps \cup {"connect"})
     /\ UNCHANGED <<ses, epoch, seen, handles>>

\* The answer that carries the corr that is waited for ends the call (_answered, open, end).
Finish(h, a) ==
  \/ /\ a.res = "ok" /\ a.req.op \in OpenOps
     /\ Set(ses, h, req[h].sid) /\ Set(seen, h, a.val)
     /\ \/ (ses[h] # NoSid \/ a.val # seen[h]) /\ Swept(h)
        \/ ses[h] = NoSid /\ a.val = seen[h] /\ UNCHANGED epoch
     /\ UNCHANGED handles
  \/ /\ a.res = "ok" /\ a.req.op = "end"
     /\ Set(ses, h, NoSid) /\ Swept(h) /\ UNCHANGED <<seen, handles>>
  \/ /\ a.res = "ok" /\ a.req.op = "connect"
     /\ handles' = [handles EXCEPT ![h] =
                      @ \cup {[num |-> a.val, epoch |-> epoch[h], made |-> a.req]}]
     /\ UNCHANGED <<ses, epoch, seen>>
  \/ /\ a.res = "ok" /\ a.req.op = "confirm"
     /\ Set(seen, h, a.val)
     /\ \/ a.val # seen[h] /\ Swept(h)
        \/ a.val = seen[h] /\ UNCHANGED epoch
     /\ UNCHANGED <<ses, handles>>
  \/ /\ a.res = "no_session" /\ ses[h] # NoSid
     /\ Set(ses, h, NoSid) /\ Swept(h) /\ UNCHANGED <<seen, handles>>
  \/ /\ \/ a.res \notin {"ok", "no_session"}
        \/ a.res = "no_session" /\ ses[h] = NoSid
        \/ a.res = "ok" /\ a.req.op = "write"
     /\ UNCHANGED <<ses, epoch, seen, handles>>

Accept(h) ==
  /\ phase[h] = "wait" /\ Ours(h, req[h].corr)
  /\ Finish(h, Head(answers[h]))
  /\ Tell(h, IF Head(answers[h]).res = "ok" THEN "ok" ELSE "refused")
  /\ ReadAnswer(h)
  /\ Over(h)
  /\ UNCHANGED <<failed, corr, wireVars, boundVars, runs, maker>>

\* _recv_for: a result for a corr nobody waits for is read past; the wait is not restarted.
Stale(h) ==
  /\ answers[h] # <<>>
  /\ \/ phase[h] = "wait" /\ ~Ours(h, req[h].corr)
     \/ phase[h] = "confirm" /\ ~Ours(h, sought[h])
  /\ ReadAnswer(h)
  /\ UNCHANGED <<hostVars, wireVars, boundVars, pastVars>>

\* Mutant: a resend takes a corr of its own.
ResendUnderNewCorr(h, waits) ==
  LET r == [req[h] EXCEPT !.corr = NextCorr(corr[h])]
  IN /\ Put(h, r) /\ Set(req, h, r) /\ Set(corr, h, r.corr)
     /\ \/ waits /\ Set(waited, h, waited[h] + 1) /\ UNCHANGED broken
        \/ ~waits /\ Set(broken, h, broken[h] + 1) /\ UNCHANGED waited
     /\ UNCHANGED <<phase, failed, sought, tries, ses, epoch, seen, handles, outcome>>

\* Mutant: resends are not counted.
ResendUncounted(h, waits) ==
  /\ Put(h, req[h])
  /\ UNCHANGED <<phase, req, waited, broken, failed, sought, tries, corr, ses, epoch, seen, handles, outcome>>

\* A broken frame is taken for the awaited answer: the request goes again at once, up to
\* BrokenResends times; past that as after a wait.  waits: it counts as a wait.
Resend(h, waits) ==
  /\ Put(h, req[h])
  /\ \/ waits /\ Set(waited, h, waited[h] + 1) /\ UNCHANGED broken
     \/ ~waits /\ Set(broken, h, broken[h] + 1) /\ UNCHANGED waited
  /\ UNCHANGED <<phase, req, failed, sought, tries, corr, ses, epoch, seen, handles>>
  /\ UNCHANGED <<outcome>>

\* _fail_transport: the outcome is unknown, and nothing else goes out before a confirm.
TransportFails(h) ==
  /\ Set(failed, h, TRUE) /\ Over(h)
  /\ Tell(h, "unknown")
  /\ UNCHANGED <<corr, ses, epoch, seen, handles, toProbe>>

\* The resends are spent: one waited for, or BrokenResends broken ones.
Spent(h) == waited[h] >= 1 \/ broken[h] >= BrokenResends

\* Nothing came in time.
Timeout(h) ==
  /\ phase[h] = "wait"
  /\ IF Spent(h) THEN TransportFails(h) ELSE Resend(h, TRUE)
  /\ UNCHANGED <<vars, boundVars, runs, maker>>

\* A broken frame arrives: an answer that lost bytes, or bytes that were no frame at all.
Broken(h) ==
  /\ phase[h] = "wait" /\ load.faults > 0
  /\ load' = [load EXCEPT !.faults = @ - 1]
  /\ IF broken[h] < BrokenResends THEN Resend(h, FALSE) ELSE TransportFails(h)
  /\ ReadAnswer(h) \/ UNCHANGED vars
  /\ UNCHANGED <<usedSids, runs, maker>>

-------------------------------------------------------------------------------
(* Recovery: quiet input, then a confirm until the answer with its own corr comes. *)

\* Mutant: every try of a recovery confirms under the same corr.
ConfirmSentAgain(h) ==
  /\ phase[h] = "confirm" /\ tries[h] < ConfirmTries /\ corr[h] < CorrMax
  /\ LET c == IF tries[h] = 0 THEN NextCorr(corr[h]) ELSE sought[h]
     IN /\ Put(h, [sid |-> NoSid, corr |-> c, op |-> "confirm", arg |-> 0])
        /\ Set(corr, h, c) /\ Set(sought, h, c)
  /\ Set(tries, h, tries[h] + 1)
  /\ UNCHANGED <<vars, phase, req, waited, broken, failed, ses, epoch, seen, handles>>
  /\ UNCHANGED <<boundVars, pastVars>>

\* recover_transport, one try: what has arrived is dropped (more may still be on its way), a
\* confirm under a corr of its own goes out.
ConfirmSent(h) ==
  /\ phase[h] = "confirm" /\ tries[h] < ConfirmTries /\ corr[h] < CorrMax
  /\ LET c == NextCorr(corr[h])
     IN /\ Put(h, [sid |-> NoSid, corr |-> c, op |-> "confirm", arg |-> 0])
        /\ corr' = [corr EXCEPT ![h] = c] /\ sought' = [sought EXCEPT ![h] = c]
  /\ tries' = [tries EXCEPT ![h] = @ + 1]
  /\ \E n \in 0..Len(answers[h]) :
       answers' = [answers EXCEPT ![h] = SubSeq(@, n + 1, Len(@))]
  /\ UNCHANGED <<session, table, owned, nextRes, world, history, given>>
  /\ UNCHANGED <<phase, req, waited, broken, failed, ses, epoch, seen, handles>>
  /\ UNCHANGED <<boundVars, pastVars>>

\* The confirm came back: the transport is whole again, a changed boot_id is a reboot, and the
\* request that waited for it goes out.
ConfirmAnswered(h) ==
  /\ phase[h] = "confirm" /\ tries[h] > 0 /\ Ours(h, sought[h])
  /\ LET b == Head(answers[h]).val
     IN /\ seen' = [seen EXCEPT ![h] = b]
        /\ \/ b # seen[h] /\ Swept(h)
           \/ b = seen[h] /\ UNCHANGED epoch
  /\ ReadAnswer(h)
  /\ Set(failed, h, FALSE)
  /\ Set(phase, h, "wait") /\ Set(tries, h, 0) /\ Set(sought, h, 0)
  /\ Put(h, req[h])
  /\ UNCHANGED <<req, waited, broken, corr, ses, handles, boundVars, pastVars>>

\* No confirm in ConfirmTries tries: the call fails unsent, the transport stays failed.
RecoveryFails(h) ==
  /\ phase[h] = "confirm" /\ tries[h] = ConfirmTries
  /\ Over(h)
  /\ Tell(h, "not_sent")
  /\ UNCHANGED <<vars, failed, corr, ses, epoch, seen, handles>>
  /\ UNCHANGED <<wireVars, boundVars, runs, maker>>

-------------------------------------------------------------------------------
(* The probe, the wire, and the ends of things.                             *)

\* The probe handles the oldest request of a link; one that finds it restarting is lost.
ProbeTakes(h) ==
  /\ toProbe[h] # <<>>
  /\ toProbe' = [toProbe EXCEPT ![h] = Tail(@)]
  /\ \E r \in {Head(toProbe[h])} :
       /\ Handle(h, r)
       /\ runs' = IF Reaches(h, r, "write") THEN [runs EXCEPT ![r.arg] = @ + 1] ELSE runs
       /\ maker' = IF nextRes' > nextRes THEN [maker EXCEPT ![nextRes] = r] ELSE maker
  /\ UNCHANGED <<hostVars, boundVars, outcome>>

\* A request or an answer lost on the way: nobody sees it go.
Lost(h) ==
  /\ load.faults > 0 /\ load' = [load EXCEPT !.faults = @ - 1]
  /\ \/ /\ toProbe[h] # <<>> /\ toProbe' = [toProbe EXCEPT ![h] = Tail(@)]
        /\ UNCHANGED vars
     \/ ReadAnswer(h) /\ UNCHANGED wireVars
  /\ UNCHANGED <<hostVars, usedSids, pastVars>>

\* The host's process dies; what it sent stays on its way.
Crash(h) ==
  /\ phase[h] # "dead"
  /\ Cardinality({g \in Route : phase[g] = "dead"}) < MaxCrashes
  /\ phase' = [phase EXCEPT ![h] = "dead"]
  /\ UNCHANGED <<vars, req, waited, broken, failed, sought, tries, corr, ses, epoch, seen, handles>>
  /\ UNCHANGED <<wireVars, boundVars, pastVars>>

\* The lease runs: the clock ticks.
LeaseTick == Tick /\ UNCHANGED <<hostVars, wireVars, boundVars, pastVars>>

\* The probe restarts under a boot_id it has not had.
ProbeReboots ==
  /\ load.boots > 0 /\ load' = [load EXCEPT !.boots = @ - 1]
  /\ boot + 1 \in BootId /\ Reboot(boot + 1)
  /\ maker' = [n \in 1..ResMax |-> NoRequest]
  /\ UNCHANGED <<hostVars, wireVars, usedSids, runs, outcome>>

HNext ==
  \/ \E h \in Route :
       \/ \E s \in Sid : CallOpen(h, s)
       \/ CallWrite(h) \/ CallConfirm(h)
       \/ \E op \in {"connect", "end"} : CallSession(h, op)
       \/ Accept(h) \/ Stale(h) \/ Timeout(h) \/ Broken(h)
       \/ ConfirmSent(h) \/ ConfirmAnswered(h) \/ RecoveryFails(h)
       \/ ProbeTakes(h) \/ Lost(h) \/ Crash(h)
  \/ LeaseTick \/ ProbeReboots

HSpec == HInit /\ [][HNext]_allVars

\* The waits end (a deadline that nothing extends), in a recovery too, and the probe's clock runs.
\* Nothing is assumed of the wire or of the probe's answers.
Fairness ==
  /\ \A h \in Route : WF_allVars(Timeout(h)) /\ WF_allVars(ConfirmSent(h) \/ RecoveryFails(h))
  /\ WF_allVars(LeaseTick)

LiveSpec == HSpec /\ Fairness

-------------------------------------------------------------------------------
(* Properties.                                                              *)

\* A request that changes state runs at most once, however often its link sent it and whatever
\* happened to the lock or the probe in between ("not run twice", the header of link.py).
WriteRunsOnce == \A w \in Writes : runs[w] <= 1

\* What a caller is told is true: a write that succeeded ran, one that was not sent did not and
\* does not later.
ToldTheTruth ==
  \A w \in Writes : /\ outcome[w] = "ok" => runs[w] = 1
                    /\ outcome[w] = "not_sent" => runs[w] = 0

\* After a failed transport nothing goes out before everything that was outstanding has had its
\* effect: when the confirm comes back no request and no answer from before is on its way.
RecoveredClean ==
  [][\A h \in Route : failed[h] /\ ~failed'[h] => toProbe[h] = <<>> /\ answers'[h] = <<>>]_allVars

\* A connection a host still believes in names the one it was given, never another one that got
\* its number: the losses a host learns of keep up with the probe's lock and restarts.
HandlesAreTrue ==
  \A h \in Route : \A c \in handles[h] :
    (c.epoch = epoch[h] /\ holder # NoSid /\ holder = ses[h] /\ c.num \in conns)
      => maker[c.num] = c.made

\* Every call ends.
CallsEnd == \A h \in Route : phase[h] \in {"wait", "confirm"} ~> phase[h] \in {"idle", "dead"}

\* A lock nobody knows to hold is freed: its open's answer was lost, or its host died.
KnownTo(s) ==
  \E h \in Route : phase[h] # "dead" /\ (ses[h] = s \/ (phase[h] # "idle" /\ req[h].sid = s))
NoLockStranded == \A s \in Sid : (holder = s /\ ~KnownTo(s)) ~> (holder # s)
=============================================================================
