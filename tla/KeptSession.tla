----------------------------- MODULE KeptSession -----------------------------
(***************************************************************************)
(* A host that stops and runs again (kept_session.py, host.py): the corrs  *)
(* it counts, the room it keeps for its session among them, and the file   *)
(* that carries the session id and a reserved corr from one run to the     *)
(* next, so that the next run ends what the run before left open.          *)
(*                                                                         *)
(* One client machine, whose process may die between any two steps, and a  *)
(* host elsewhere (the rival) share the probe of ProbeSession.  Requests   *)
(* are delivered (HostLink is about those that are not) but for one of the *)
(* session's that may be lost with its process going on.                   *)
(***************************************************************************)
EXTENDS ProbeSession

CONSTANTS
  Host, Rival,       \* the routes of the machine and of the host elsewhere
  HostSid, RivalSid, \* the ids they draw
  Reserve,           \* corrs reserved at a time (RESERVE, 1024 in the code)
  Empty,             \* an empty file, nothing kept
  MaxRuns,           \* bound: runs of the machine's process
  MaxUnseen          \* bound: corrs the room check does not see: the link's own confirms, lost
                     \* requests, an open under another id

ASSUME KeptAssumption ==
  /\ Host \in Route /\ Rival \in Route /\ Host # Rival
  /\ HostSid \subseteq Sid /\ RivalSid \subseteq Sid /\ HostSid \cap RivalSid = {}
  /\ Empty \notin [sid: HostSid, res: Corr]
  /\ Reserve \in Nat \ {0} /\ Reserve + 1 < HalfRange   \* one more where the cycle leaves 0 out
  /\ HalfRange >= 4                  \* room for two corrs past the session's last, and 0 left out
  /\ MaxRuns \in Nat /\ MaxUnseen \in Nat

VARIABLES
  at,        \* where the process is: "off", "ready", or in a call
  hcorr,     \* Host._corr
  hses,      \* Host.session
  sentLast,  \* _sid_corr of that session, 0 for none
  file,      \* the file's content: [sid, res] or Empty
  kept,      \* KeptSession.sid and .reserved of this run, or Empty
  prev,      \* KeptSession.previous and .previous_corr, or Empty
  opening,   \* the id an open in flight carries
  runsLeft, unseen, drawn,  \* what the bounds count; the ids drawn so far
  over,      \* history: the ids of sessions that have ended
  earlier,   \* history: the ids the runs before this one drew
  unnamed,   \* history: the ids a death left on the lock with no file that names them
  lagged,    \* history: the second corr after the file's did not follow the previous session's last
  reopened   \* history: the machine's open was taken under an id whose session had ended

hostVars == <<at, hcorr, hses, sentLast, file, kept, prev, opening>>
boundVars == <<runsLeft, unseen, drawn>>
pastVars == <<earlier, unnamed>>
keptVars == <<vars, hostVars, boundVars, over, pastVars, lagged, reopened>>

KInit ==
  /\ Init
  /\ at = "off" /\ hcorr = 0 /\ hses = NoSid /\ sentLast = 0
  /\ file = Empty /\ kept = Empty /\ prev = Empty /\ opening = NoSid
  /\ runsLeft = MaxRuns /\ unseen = 0 /\ drawn = {}
  /\ over = {} /\ earlier = {} /\ unnamed = {} /\ lagged = FALSE /\ reopened = FALSE

-------------------------------------------------------------------------------
(* The probe, watched: which sessions have ended.                           *)

Watch == over' = over \cup ({holder} \ {NoSid, holder'})

\* The machine's request is handled, and its answer comes.
Sends(r) ==
  /\ Handle(Host, r) /\ Watch
  /\ reopened' = (reopened \/ (holder' # holder /\ holder' \in over))

-------------------------------------------------------------------------------
(* The corrs and the file.                                                  *)

\* kept_session.ahead: n further in the cycle that leaves 0 out.
AheadBy(c, n) == ((c - 1 + n) % CorrMax) + 1

\* Mutant: the block is renewed once the corr has passed it.
SpentLate(c) == kept # Empty /\ c # kept.res /\ ~Ahead(kept.res, c)

\* KeptSession.sent: once the corr nears the reservation, the next block is reserved and written.
Spent(c) == kept # Empty /\ ~Ahead(kept.res, c)
Sent(c) ==
  \/ ~Spent(c) /\ UNCHANGED <<kept, file>>
  \/ Spent(c) /\ \E f \in {[kept EXCEPT !.res = AheadBy(c, Reserve)]} : kept' = f /\ file' = f

\* request: next_corr - the file first - then the request under it.
SendOne(sid, op, to) ==
  LET c == NextCorr(hcorr)
  IN /\ Sent(c)
     /\ hcorr' = c
     /\ sentLast' = IF sid # NoSid /\ sid = hses THEN c ELSE sentLast
     /\ Sends([sid |-> sid, corr |-> c, op |-> op, arg |-> 0])
     /\ at' = to

\* _session_room: a session_id 0 request would not take the session's next one half the space
\* past its last.
Room == sentLast = 0 \/ hses = NoSid \/ Diff(NextCorr(NextCorr(hcorr)), sentLast) < HalfRange

-------------------------------------------------------------------------------
(* A run starts: the file is read, the previous session ended (before_open, end_previous). *)

\* Mutant: the run counts its corrs from 1 whatever the file reserved.
RunFromOne ==
  /\ at = "off" /\ runsLeft > 0
  /\ runsLeft' = runsLeft - 1
  /\ hses' = NoSid /\ sentLast' = 0 /\ kept' = Empty /\ opening' = NoSid /\ lagged' = FALSE
  /\ earlier' = drawn /\ prev' = file /\ hcorr' = 0
  /\ at' = IF file = Empty THEN "ready" ELSE "previous"
  /\ UNCHANGED <<vars, file, unseen, drawn, over, unnamed, reopened>>

Run ==
  /\ at = "off" /\ runsLeft > 0
  /\ runsLeft' = runsLeft - 1
  /\ hses' = NoSid /\ sentLast' = 0 /\ kept' = Empty /\ opening' = NoSid /\ lagged' = FALSE
  /\ earlier' = drawn /\ prev' = file
  /\ \/ file = Empty /\ at' = "ready" /\ hcorr' = 0
     \/ file # Empty /\ at' = "previous" /\ hcorr' = file.res
  /\ UNCHANGED <<vars, file, unseen, drawn, over, unnamed, reopened>>

AskLock ==
  /\ at = "previous" /\ SendOne(NoSid, "lock_state", "ask")
  /\ UNCHANGED <<hses, prev, opening, boundVars, pastVars, lagged>>

\* Mutant: the previous session is opened by force.
OpenPreviousForced ==
  /\ at = "locked" /\ SendOne(prev.sid, "force", "reopen")
  /\ lagged' = (last = prev.sid /\ ~Ahead(AheadBy(prev.res, 2), newest))
  /\ UNCHANGED <<hses, prev, opening, boundVars, pastVars>>

\* Somebody holds the lock: the previous session, as far as this run knows.
OpenPrevious ==
  /\ at = "locked" /\ SendOne(prev.sid, "open", "reopen")
  /\ lagged' = (last = prev.sid /\ ~Ahead(AheadBy(prev.res, 2), newest))
  /\ UNCHANGED <<hses, prev, opening, boundVars, pastVars>>

EndPrevious ==
  /\ at = "taken" /\ SendOne(prev.sid, "end", "endprev")
  /\ UNCHANGED <<hses, prev, opening, boundVars, pastVars, lagged>>

-------------------------------------------------------------------------------
(* A session of this run's own.                                             *)

Open(s) ==
  /\ at = "ready" /\ s \in HostSid \ drawn
  /\ SendOne(s, "open", "open")
  /\ drawn' = drawn \cup {s} /\ opening' = s
  /\ \/ hses = NoSid /\ UNCHANGED unseen
     \/ hses # NoSid /\ unseen < MaxUnseen /\ unseen' = unseen + 1
  /\ UNCHANGED <<hses, prev, runsLeft, pastVars, lagged>>

\* opened: the id and the corrs after it are written.
Opened ==
  /\ at = "opened" /\ at' = "ready"
  /\ \E f \in {[sid |-> hses, res |-> AheadBy(hcorr, Reserve)]} : kept' = f /\ file' = f
  /\ UNCHANGED <<vars, hcorr, hses, sentLast, prev, opening, boundVars, over, pastVars, lagged, reopened>>

Call ==
  /\ at = "ready" /\ hses # NoSid
  /\ \/ SendOne(hses, "keepalive", "call") \/ SendOne(hses, "end", "end")
  /\ UNCHANGED <<hses, prev, opening, boundVars, pastVars, lagged>>

\* A lock-free request outside the session: at once, or after a keepalive that makes room.
Side ==
  /\ \/ at = "ready" /\ Room /\ SendOne(NoSid, "confirm", "side")
     \/ at = "ready" /\ ~Room /\ SendOne(hses, "keepalive", "room")
     \/ at = "aside" /\ SendOne(NoSid, "confirm", "side")
  /\ UNCHANGED <<hses, prev, opening, boundVars, pastVars, lagged>>

\* A corr the room check does not see: the link's own confirm (corr_source is next_corr), or a
\* request of the session that never reaches the probe.
Unseen ==
  /\ at = "ready" /\ hses # NoSid /\ unseen < MaxUnseen
  /\ unseen' = unseen + 1
  /\ \/ SendOne(NoSid, "confirm", "side")
     \/ LET c == NextCorr(hcorr)
        IN /\ Sent(c) /\ hcorr' = c /\ sentLast' = c
           /\ UNCHANGED <<vars, at, over, reopened>>
  /\ UNCHANGED <<hses, prev, opening, runsLeft, drawn, pastVars, lagged>>

-------------------------------------------------------------------------------
(* Answers.                                                                 *)

\* Where an answer takes the process.
After(a) ==
  CASE at = "ask"    -> IF a.val = 1 THEN "locked" ELSE "ready"
    [] at = "reopen" -> IF a.res = "ok" THEN "taken" ELSE "ready"
    [] at = "open"   -> IF a.res = "ok" THEN "opened" ELSE "ready"
    [] at = "room"   -> "aside"
    [] OTHER         -> "ready"

\* What it does to the session: an open, an end, or the no_session that says it is gone.
Got ==
  /\ answers[Host] # <<>>
  /\ LET a == Head(answers[Host])
     IN /\ at' = After(a)
        /\ \/ at = "open" /\ a.res = "ok" /\ hses' = opening /\ sentLast' = hcorr /\ UNCHANGED <<kept, file>>
           \/ at = "end" /\ a.res = "ok" /\ hses' = NoSid /\ kept' = Empty /\ file' = Empty /\ sentLast' = 0
           \/ a.res = "no_session" /\ hses' = NoSid /\ sentLast' = 0 /\ UNCHANGED <<kept, file>>
           \/ /\ a.res # "no_session" /\ ~(at \in {"open", "end"} /\ a.res = "ok")
              /\ UNCHANGED <<hses, sentLast, kept, file>>
  /\ answers' = [answers EXCEPT ![Host] = Tail(@)]
  /\ UNCHANGED <<session, table, owned, nextRes, world, history, given>>
  /\ UNCHANGED <<hcorr, prev, opening, boundVars, over, pastVars, lagged, reopened>>

-------------------------------------------------------------------------------
(* The process dies, the rival, the clock.                                  *)

\* The probe has taken the open and the file does not name its session yet.
Unwritten == at \in {"open", "opened"} /\ holder = opening

\* The file is truncated before it is written: a death between the two leaves it empty.  So does
\* a death from the open the probe takes to the write that follows it leave its session unnamed.
Die ==
  /\ at # "off" /\ at' = "off"
  /\ \/ /\ UNCHANGED file
        /\ unnamed' = unnamed \cup {s \in {holder} : Unwritten}
     \/ /\ (at = "opened" \/ Spent(NextCorr(hcorr))) /\ file' = Empty
        /\ unnamed' = unnamed \cup ({holder} \cap HostSid)
  /\ answers' = [answers EXCEPT ![Host] = <<>>]
  /\ UNCHANGED <<session, table, owned, nextRes, world, history, given>>
  /\ UNCHANGED <<hcorr, hses, sentLast, kept, prev, opening, boundVars, over, earlier>>
  /\ UNCHANGED <<lagged, reopened>>

RivalRequests ==
  {[sid |-> s, corr |-> 1, op |-> op, arg |-> 0] : s \in RivalSid, op \in {"open", "force"}}
  \cup {[sid |-> s, corr |-> 2, op |-> "end", arg |-> 0] : s \in RivalSid}

RivalActs ==
  /\ answers[Rival] = <<>>
  /\ \E r \in RivalRequests : Handle(Rival, r)
  /\ Watch
  /\ UNCHANGED <<hostVars, boundVars, pastVars, lagged, reopened>>

RivalReads == AnswerOut(Rival) /\ UNCHANGED <<hostVars, boundVars, over, pastVars, lagged, reopened>>

LeaseTick == Tick /\ Watch /\ UNCHANGED <<hostVars, boundVars, pastVars, lagged, reopened>>

KNext ==
  \/ Run \/ AskLock \/ OpenPrevious \/ EndPrevious
  \/ \E s \in HostSid : Open(s)
  \/ Opened \/ Call \/ Side \/ Unseen \/ Got \/ Die
  \/ RivalActs \/ RivalReads \/ LeaseTick

KSpec == KInit /\ [][KNext]_keptVars

-------------------------------------------------------------------------------
(* Properties.                                                              *)

\* While a run keeps a session its file says so, and every corr the run has sent, whatever it was
\* for, is behind the one the file reserves ("every corr this run sends stays behind this one").
ReservedAhead == (at # "off" /\ kept # Empty) => file = kept /\ Ahead(kept.res, hcorr)

\* The room check does its work: the session's next request, sent now, is told from an old one
\* ("session_id 0 requests never move this session's corr half the space or more past its last"),
\* as long as it sees every corr: one confirm of the link's own, or one request of the session that
\* never reaches the probe, uses up a corr it does not count.
RoomKept ==
  (at = "ready" /\ hses # NoSid /\ last = hses /\ unseen = 0) => Ahead(NextCorr(hcorr), newest)

\* No corr a run sends is taken for an old one, by the run after it or by the probe.
CorrsStayNew == ReservedAhead /\ RoomKept

\* A run is past the end of the session before, with a session of its own to open or to use.
OnItsOwn == at \in {"ready", "open", "opened", "call", "end", "side", "room", "aside"}

\* When a run gets to its own open, and from then on, no session an earlier run of the machine
\* opened holds the lock (before_open, end_previous), whether the file names it or not, but for two:
\* one that a death left unnamed, and one that was not ended because the corr its open went under
\* was not ahead of the last one the probe had (lagged: the file was half the space away, or an
\* earlier run had died between that open and the end).
PreviousEnded == OnItsOwn => holder \notin earlier \ unnamed \/ lagged

\* The same of every session an earlier run left, as the header of kept_session.py has it: "the next
\* run, before its first open, opens that id and ends it at once".
LeftIsEnded == OnItsOwn => holder \notin earlier \/ lagged

\* A machine that starts again takes the lock of nobody else.
OthersKeepTheLock ==
  [][(holder \in RivalSid /\ holder' # holder) => at' = at]_keptVars

\* The open that takes the previous session over goes under a corr ahead of every one the previous
\* run sent, and less than half the space ahead (the header of kept_session.py).
CorrsFollow == ~lagged

\* No open is taken under the id of a session that has ended (the comment in end_previous).
EndedStaysEnded == ~reopened
=============================================================================
