-------------------------- MODULE KeptSessionProofs --------------------------
(***************************************************************************)
(* What holds of a machine that runs again and again, a rival and the      *)
(* probe, for every size of the corr space, every reservation well below   *)
(* half of it, and any number of runs.                                     *)
(***************************************************************************)
EXTENDS KeptSession, ProbeSessionProofs

-------------------------------------------------------------------------------
(* The cycle of the corrs.                                                  *)

\* The remainder of a number that is less than two rounds.
LEMMA OneRound ==
  ASSUME NEW m \in Nat \ {0}, NEW a \in 0..(2 * m - 1)
  PROVE  a % m = IF a < m THEN a ELSE a - m
OBVIOUS

\* AheadBy goes on after the largest corr with 1.
LEMMA AheadByIs ==
  ASSUME NEW c \in Corr, NEW n \in Nat, n <= CorrMax
  PROVE  AheadBy(c, n) = IF c + n <= CorrMax THEN c + n ELSE c + n - CorrMax
<1>1. CorrMax \in Nat \ {0} /\ c \in Nat /\ 1 <= c /\ c <= CorrMax
  BY CorrAssumption DEF Corr
<1>2. PICK a : a = c - 1 + n
  OBVIOUS
<1>3. a \in 0..(2 * CorrMax - 1)
  BY <1>1, <1>2
<1>4. a % CorrMax = IF a < CorrMax THEN a ELSE a - CorrMax
  BY <1>1, <1>3, OneRound
<1>5. AheadBy(c, n) = (a % CorrMax) + 1
  BY <1>2 DEF AheadBy
<1> QED BY <1>1, <1>2, <1>4, <1>5

\* A corr reserved less than half the space ahead is ahead.
LEMMA ReservedIsAhead ==
  ASSUME NEW c \in Corr
  PROVE  AheadBy(c, Reserve) \in Corr /\ Ahead(AheadBy(c, Reserve), c)
<1>1. Reserve \in Nat /\ 1 <= Reserve /\ Reserve <= CorrMax /\ Reserve + 1 < HalfRange
  BY KeptAssumption, CorrAssumption
<1>2. AheadBy(c, Reserve) = IF c + Reserve <= CorrMax THEN c + Reserve ELSE c + Reserve - CorrMax
  BY <1>1, AheadByIs
<1> QED BY <1>1, <1>2, CorrAssumption DEF Ahead, Diff, Corr

\* The second corr after one is two further.
LEMMA TwoAhead == ASSUME NEW c \in Corr PROVE AheadBy(c, 2) = NextCorr(NextCorr(c))
<1>1. 2 \in Nat /\ 2 <= CorrMax
  BY CorrAssumption
<1>2. AheadBy(c, 2) = IF c + 2 <= CorrMax THEN c + 2 ELSE c + 2 - CorrMax
  BY <1>1, AheadByIs
<1> QED BY <1>1, <1>2, CorrAssumption DEF NextCorr, Corr

\* What a host counts next is a corr.
LEMMA NextIsCorr == ASSUME NEW c \in 0..CorrMax PROVE NextCorr(c) \in Corr
BY CorrAssumption DEF NextCorr, Corr

\* The next corr, and the one after it, are ahead.
LEMMA NextIsAhead ==
  ASSUME NEW c \in Corr
  PROVE  Ahead(NextCorr(c), c) /\ Ahead(NextCorr(NextCorr(c)), c)
BY CorrAssumption, KeptAssumption DEF NextCorr, Corr, Ahead, Diff

\* The next of a corr that is ahead is ahead as long as it is less than half the space away.
LEMMA NextStaysAhead ==
  ASSUME NEW c \in Corr, NEW s \in Corr, Ahead(c, s), Diff(NextCorr(c), s) < HalfRange
  PROVE  Ahead(NextCorr(c), s)
BY CorrAssumption, KeptAssumption DEF NextCorr, Corr, Ahead, Diff

-------------------------------------------------------------------------------
(* The inductive invariant.                                                 *)

File == [sid: HostSid, res: Corr]

\* Where a process waits for an answer, and where it is busy with the session of the run before.
Waiting == {"ask", "reopen", "endprev", "open", "call", "end", "side", "room"}
Previous == {"previous", "ask", "locked", "reopen", "taken", "endprev"}
Phase == {"off", "ready", "opened", "aside"} \cup Waiting \cup Previous

\* The types of the machine's own state; an answer is on its way to it exactly while it waits.
MachineTypeOK ==
  /\ at \in Phase /\ hcorr \in 0..CorrMax /\ sentLast \in 0..CorrMax
  /\ hses \in HostSid \cup {NoSid} /\ opening \in HostSid \cup {NoSid}
  /\ file \in File \cup {Empty} /\ kept \in File \cup {Empty} /\ prev \in File \cup {Empty}
  /\ unseen \in Nat /\ drawn \subseteq HostSid /\ lagged \in BOOLEAN
  /\ Len(answers[Host]) = IF at \in Waiting THEN 1 ELSE 0

\* Every id the machine or the probe knows of is one that was drawn, and a run's own is not the
\* one of the run before.
IdsDrawn ==
  /\ file # Empty => file.sid \in drawn
  /\ kept # Empty => kept.sid \in drawn
  /\ prev # Empty => prev.sid \in drawn
  /\ hses \in drawn \cup {NoSid} /\ opening \in drawn \cup {NoSid}
  /\ last \in drawn \cup RivalSid \cup {NoSid}
  /\ prev # Empty => hses # prev.sid /\ opening # prev.sid

\* Until the previous session is ended, the run has no session and counts on from the file's corr.
PhaseInv ==
  /\ at \in Previous => prev # Empty /\ hses = NoSid
  /\ at = "previous" => hcorr = prev.res
  /\ at \in {"ask", "locked"} => hcorr = NextCorr(prev.res)
  /\ at = "open" => opening # NoSid /\ (unseen = 0 => hses = NoSid)
  /\ at = "opened" => hses # NoSid /\ hcorr # 0
  /\ at = "open" => hcorr # 0

\* The previous session is off the lock, or the file's corr lagged.
Ended == holder # prev.sid \/ lagged

\* From the answer that says so on the previous session is ended; until its end is sent, the
\* last thing the probe remembers of it is the machine's open.
EndedInv ==
  prev # Empty =>
    /\ at \notin {"off", "previous", "ask", "locked", "reopen", "taken"} => Ended
    /\ (at = "ask" /\ answers[Host][1].val # 1) => Ended
    /\ (at = "reopen" /\ answers[Host][1].res # "ok") => Ended
    /\ at \in {"reopen", "taken"} => lagged \/ last # prev.sid \/ newest = hcorr

\* While the room check has seen every corr, the last corr it counts for the session is the last
\* one the probe remembers of it, and the next one is ahead of it.
RoomInv ==
  unseen = 0 =>
    /\ (at = "open" /\ last = opening) => newest = hcorr
    /\ (at # "off" /\ hses # NoSid /\ last = hses) =>
         /\ newest = sentLast /\ sentLast # 0
         /\ Ahead(NextCorr(hcorr), sentLast)
         /\ at \in {"room", "aside"} => hcorr = sentLast

\* The resend table holds no corr outside the window behind its newest.
RecordsInWindow == \A e \in resend : newest # 0 /\ InWindow(newest, e.corr)

ProbeInv == TypeOK /\ LockInv /\ RecordsInWindow
MachineInv == MachineTypeOK /\ IdsDrawn /\ PhaseInv /\ ReservedAhead /\ EndedInv /\ RoomInv
KeptInv == ProbeInv /\ MachineInv


-------------------------------------------------------------------------------
(* What a request does to the probe, whoever sends it.                      *)

\* A request that passes the header is handled or found in the table; what is handled under the
\* id of the last session is the newest the table remembers.
LEMMA HandledIsNewest ==
  ASSUME TypeOK, NEW t \in Route, NEW r \in Requests, Handle(t, r),
         HeaderFault(r) = "none", ~Resent(r), r.sid # NoSid, r.sid = last'
  PROVE  newest' = r.corr
<1>1. ASSUME NEW a, Settle(t, r, a) PROVE newest' = r.corr
  BY <1>1 DEF Settle
<1>2. ~(HandleHeaderFault(t, r) \/ HandleResent(t, r))
  BY DEF HandleHeaderFault, HandleResent
<1>3. OpenTaken(t, r) => \E a : Settle(t, r, a)
  BY DEF OpenTaken
<1>4. End(t, r) => \E a : Settle(t, r, a)
  BY DEF End
<1> QED BY <1>1, <1>2, <1>3, <1>4, HandleKinds

\* Settling a request leaves the table with corrs in the window behind its newest.
LEMMA SettleInWindow ==
  ASSUME TypeOK, RecordsInWindow, NEW t \in Route, NEW r \in Requests, NEW a,
         r.corr # 0, Settle(t, r, a)
  PROVE  RecordsInWindow'
<1>1. CASE r.sid # NoSid /\ r.sid = last'
  <2>1. newest' = r.corr /\ resend' = Kept(IF NewLock THEN {} ELSE resend, r, a)
    BY <1>1 DEF Settle
  <2>2. r.corr \in 0..CorrMax /\ InWindow(r.corr, r.corr)
    BY InOwnWindow DEF Requests
  <2>3. ASSUME NEW e \in resend' PROVE InWindow(r.corr, e.corr)
    BY <2>1, <2>2, <2>3, KeptSubset
  <2> QED BY <2>1, <2>3 DEF RecordsInWindow
<1>2. CASE ~(r.sid # NoSid /\ r.sid = last')
  BY <1>2 DEF Settle, RecordsInWindow
<1> QED BY <1>1, <1>2

\* Beside the request that opens a session none changes the last one, and none but that and an
\* end changes the lock; what is remembered is of the last session.
Effect(t, r) ==
  /\ \E a \in Answer : Send(t, a)
  /\ last' = last \/ (last' = r.sid /\ r.op \in OpenOps)
  /\ \/ holder' = holder
     \/ holder' = NoSid /\ r.sid = holder
     \/ holder' = r.sid /\ r.op \in OpenOps /\ (holder = NoSid \/ r.op \in {"force", "badforce"})
  /\ r.sid # last' => newest' = newest

\* Every request the probe handles has that effect and keeps the probe's invariant.
LEMMA RequestEffect ==
  ASSUME ProbeInv, NEW t \in Route, NEW r \in Requests, Handle(t, r)
  PROVE  Effect(t, r) /\ ProbeInv'
<1>0. TypeOK /\ LockInv /\ RecordsInWindow /\ boot \in Nat
  BY ProbeAssumption DEF ProbeInv, TypeOK
<1>1. TypeOK' /\ LockInv'
  BY <1>0, HandleType, HandleLock
<1>2. CASE /\ HandleHeaderFault(t, r) \/ HandleResent(t, r)
           /\ UNCHANGED <<session, table, owned, nextRes, world, history, given>>
  <2>1. HeaderFault(r) \in Res \/ HeaderFault(r) = "none"
    BY DEF HeaderFault, Res
  <2>2. \E a \in Answer : Send(t, a)
    BY <1>0, <1>2, <2>1, AnsType, ResentAnswerType DEF HandleHeaderFault, HandleResent
  <2> QED BY <1>0, <1>1, <1>2, <2>2 DEF Effect, ProbeInv, RecordsInWindow, session, table
<1>3. ASSUME NEW res \in Res, NEW val \in Nat, Settle(t, r, Ans(r, res, val)), Fresh(t, r)
      PROVE  /\ \E a \in Answer : Send(t, a)
             /\ r.sid # last' => newest' = newest
             /\ RecordsInWindow'
  <2>1. Ans(r, res, val) \in Answer /\ r.corr # 0
    BY <1>3, AnsType DEF Fresh, HeaderFault
  <2>2. RecordsInWindow'
    BY <1>0, <1>3, <2>1, SettleInWindow
  <2> QED BY <1>3, <2>1, <2>2 DEF Settle
<1>4. CASE /\ Fresh(t, r) /\ UNCHANGED <<holder, last, lease>>
           /\ \E res \in Res, val \in Nat : Settle(t, r, Ans(r, res, val))
  BY <1>1, <1>3, <1>4 DEF Effect, ProbeInv
<1>5. CASE OpenTaken(t, r)
  <2>1. Fresh(t, r) /\ Settle(t, r, Ans(r, "ok", boot)) /\ "ok" \in Res /\ r.op \in OpenOps
    BY <1>5 DEF OpenTaken, Res
  <2>2. /\ holder' = r.sid /\ last' = r.sid
        /\ holder = NoSid \/ holder = r.sid \/ r.op \in {"force", "badforce"}
    BY <1>5 DEF OpenTaken, OpenFault
  <2> QED BY <1>0, <1>1, <1>3, <2>1, <2>2 DEF Effect, ProbeInv
<1>6. CASE End(t, r)
  <2>1. Fresh(t, r) /\ Settle(t, r, Ans(r, "ok", 0)) /\ "ok" \in Res /\ 0 \in Nat
    BY <1>6 DEF End, Reaches, Res
  <2>2. holder' = NoSid /\ last' = last /\ r.sid = holder
    BY <1>6, HolderOnly DEF End, Op, LockFree, OpenOps
  <2> QED BY <1>1, <1>3, <2>1, <2>2 DEF Effect, ProbeInv
<1> QED BY <1>0, <1>2, <1>4, <1>5, <1>6, HandleKinds

\* A corr that is ahead of the newest is not in the table.
LEMMA AheadIsNew ==
  ASSUME ProbeInv, NEW r \in Requests, r.sid = last => newest = 0 \/ Ahead(r.corr, newest)
  PROVE  ~Resent(r)
<1>1. SUFFICES ASSUME r.sid = last, NEW e \in resend, e.corr = r.corr PROVE FALSE
  BY <1>1 DEF Resent, Known
<1>2. newest # 0 /\ InWindow(newest, r.corr) /\ Ahead(r.corr, newest)
  BY <1>1 DEF ProbeInv, RecordsInWindow
<1>3. newest \in 0..CorrMax /\ r.corr \in 0..CorrMax
  BY DEF ProbeInv, TypeOK, Requests
<1> QED BY <1>2, <1>3, WindowNotAhead

\* The clock moves the lock to nobody.
LEMMA TickEffect ==
  ASSUME ProbeInv, Tick
  PROVE  ProbeInv' /\ holder' \in {holder, NoSid} /\ UNCHANGED <<last, table, answers>>
<1>1. holder' \in {holder, NoSid} /\ UNCHANGED <<last, table, answers>>
  BY DEF Tick
<1>2. [Next]_vars
  BY DEF Next, Own
<1>3. TypeOK' /\ LockInv'
  BY <1>2, NextType, LockNext DEF ProbeInv
<1> QED BY <1>1, <1>3 DEF ProbeInv, RecordsInWindow, table


-------------------------------------------------------------------------------
(* What a request of the machine does.                                      *)

\* The requests of the machine: outside a session, or of one it opened, this run or the run before.
MachineOp == {"lock_state", "confirm", "open", "keepalive", "end"}
Sendable(sid, op) ==
  sid \in HostSid \cup {NoSid} /\ op \in MachineOp /\ (sid = NoSid => op \in {"lock_state", "confirm"})
Req(sid, op) == [sid |-> sid, corr |-> NextCorr(hcorr), op |-> op, arg |-> 0]

\* Renewing the reservation changes the corr in the file and nothing else, and keeps it ahead.
FileKept ==
  /\ file' \in File \cup {Empty} /\ kept' \in File \cup {Empty}
  /\ \/ UNCHANGED <<file, kept>>
     \/ kept # Empty /\ kept' # Empty /\ file' = kept' /\ kept'.sid = kept.sid
  /\ kept' # Empty => file' = kept' /\ Ahead(kept'.res, hcorr')

MachineEffect(sid, op, to) ==
  /\ hcorr' = NextCorr(hcorr) /\ hcorr' \in Corr /\ at' = to /\ FileKept
  /\ sentLast' = IF sid # NoSid /\ sid = hses THEN hcorr' ELSE sentLast
  /\ ProbeInv' /\ Len(answers'[Host]) = 1
  /\ last' = last \/ (last' = sid /\ op = "open")
  /\ \/ holder' = holder
     \/ holder' = NoSid /\ sid = holder
     \/ holder' = sid /\ op = "open" /\ holder = NoSid
  /\ sid # last' => newest' = newest
  /\ (sid # NoSid /\ sid = last' /\ (sid = last => newest = 0 \/ Ahead(hcorr', newest)))
       => newest' = hcorr'

\* Such a request is one, and it passes the header.
LEMMA RequestIsSendable ==
  ASSUME KeptInv, NEW sid, NEW op, Sendable(sid, op)
  PROVE  /\ Req(sid, op) \in Requests /\ HeaderFault(Req(sid, op)) = "none"
         /\ Req(sid, op).sid = sid /\ Req(sid, op).op = op
         /\ Req(sid, op).corr = NextCorr(hcorr) /\ NextCorr(hcorr) \in Corr
<1>1. NextCorr(hcorr) \in Corr
  BY NextIsCorr DEF KeptInv, MachineInv, MachineTypeOK
<1>2. sid \in Sid \cup {NoSid} /\ op \in Op /\ op # "unknown" /\ (sid = NoSid => op \in LockFree)
  BY KeptAssumption DEF Sendable, MachineOp, Op, LockFree, OpenOps
<1>3. NextCorr(hcorr) \in 0..CorrMax /\ NextCorr(hcorr) # 0 /\ 0 \in Nat
  BY <1>1, CorrAssumption DEF Corr
<1> QED BY <1>1, <1>2, <1>3 DEF Req, Requests, HeaderFault

\* Counting the next corr keeps the file ahead of it.
LEMMA SentKeeps ==
  ASSUME KeptInv, at # "off", NEW c \in Corr, hcorr' = c, Sent(c)
  PROVE  FileKept
<1>1. file \in File \cup {Empty} /\ kept \in File \cup {Empty} /\ (kept # Empty => file = kept)
  BY DEF KeptInv, MachineInv, MachineTypeOK, ReservedAhead
<1>2. CASE ~Spent(c) /\ UNCHANGED <<kept, file>>
  BY <1>1, <1>2 DEF Spent, FileKept
<1>3. CASE Spent(c) /\ \E f \in {[kept EXCEPT !.res = AheadBy(c, Reserve)]} : kept' = f /\ file' = f
  <2>1. kept \in File /\ kept' = [kept EXCEPT !.res = AheadBy(c, Reserve)] /\ file' = kept'
    BY <1>1, <1>3 DEF Spent
  <2>2. AheadBy(c, Reserve) \in Corr /\ Ahead(AheadBy(c, Reserve), c)
    BY ReservedIsAhead
  <2>3. kept' \in File /\ kept'.sid = kept.sid /\ kept'.res = AheadBy(c, Reserve)
    BY <2>1, <2>2 DEF File
  <2>4. kept # Empty /\ kept' # Empty
    BY <1>3, <2>3, KeptAssumption DEF Spent, File
  <2> QED BY <2>1, <2>2, <2>3, <2>4 DEF FileKept
<1> QED BY <1>2, <1>3 DEF Sent

\* One answer is on its way after it.
LEMMA OneAnswer ==
  ASSUME TypeOK, NEW t \in Route, NEW a \in Answer, Send(t, a), Len(answers[t]) = 0
  PROVE  Len(answers'[t]) = 1 /\ answers'[t][1] = a
<1>1. PICK q \in Seq(Answer) : q = answers[t]
  BY DEF TypeOK
<1>2. answers'[t] = Append(q, a)
  BY <1>1 DEF Send, TypeOK
<1> QED BY <1>1, <1>2

\* What the machine sends has the effect of a request of the probe and advances its corr.
LEMMA MachineRequest ==
  ASSUME KeptInv, at \notin Waiting \cup {"off"},
         NEW sid, NEW op, NEW to, Sendable(sid, op), SendOne(sid, op, to)
  PROVE  MachineEffect(sid, op, to)
<1>1. PICK r : r = Req(sid, op)
  OBVIOUS
<1>2. /\ r \in Requests /\ HeaderFault(r) = "none" /\ r.sid = sid /\ r.op = op
      /\ r.corr = NextCorr(hcorr) /\ NextCorr(hcorr) \in Corr
  BY <1>1, RequestIsSendable
<1>3. /\ Sent(NextCorr(hcorr)) /\ hcorr' = NextCorr(hcorr) /\ Handle(Host, r) /\ at' = to
      /\ sentLast' = IF sid # NoSid /\ sid = hses THEN hcorr' ELSE sentLast
  BY <1>1 DEF SendOne, Sends, Req
<1>4. FileKept
  BY <1>2, <1>3, SentKeeps
<1>5. ProbeInv /\ Host \in Route /\ TypeOK /\ Len(answers[Host]) = 0
  BY KeptAssumption DEF KeptInv, ProbeInv, MachineInv, MachineTypeOK
<1>6. Effect(Host, r) /\ ProbeInv'
  BY <1>2, <1>3, <1>5, RequestEffect
<1>7. Len(answers'[Host]) = 1
  BY <1>5, <1>6, OneAnswer DEF Effect
<1>8. op \notin {"force", "badforce"} /\ (op \in OpenOps => op = "open")
  BY DEF Sendable, MachineOp, OpenOps
<1>9. ASSUME sid # NoSid, sid = last', sid = last => newest = 0 \/ Ahead(hcorr', newest)
      PROVE  newest' = hcorr'
  <2>1. ~Resent(r)
    BY <1>2, <1>3, <1>5, <1>9, AheadIsNew
  <2> QED BY <1>2, <1>3, <1>5, <1>9, <2>1, HandledIsNewest
<1> QED BY <1>2, <1>3, <1>4, <1>6, <1>7, <1>8, <1>9 DEF Effect, MachineEffect


\* What comes of a request of the machine that is not in the table, by its operation.
LEMMA HandledBy ==
  ASSUME NEW t \in Route, NEW r \in Requests, Handle(t, r), HeaderFault(r) = "none", ~Resent(r)
  PROVE  /\ r.op = "open" => OpenRefused(t, r) \/ OpenTaken(t, r)
         /\ r.op = "end" => NotAdmitted(t, r) \/ End(t, r)
         /\ r.op = "lock_state" => NotAdmitted(t, r) \/ LockState(t, r)
<1>1. ~HandleHeaderFault(t, r) /\ ~HandleResent(t, r)
  BY DEF HandleHeaderFault, HandleResent
<1>2. (OpenRefused(t, r) \/ OpenTaken(t, r)) => r.op \in OpenOps
  BY DEF OpenRefused, OpenTaken
<1>3. NotAdmitted(t, r) => r.op \notin OpenOps
  BY DEF NotAdmitted
<1>4. /\ Confirm(t, r) => r.op = "confirm"
      /\ LockState(t, r) => r.op = "lock_state"
      /\ Keepalive(t, r) => r.op = "keepalive"
      /\ Read(t, r) => r.op = "read"
      /\ Bad(t, r) => r.op = "bad"
      /\ Write(t, r) => r.op = "write"
      /\ End(t, r) => r.op = "end"
      /\ Restart(t, r) => r.op = "restart"
  BY DEF Confirm, LockState, Keepalive, Read, Bad, Write, End, Restart, Reaches
<1>5. /\ Attach(t, r) => r.op = "connect"
      /\ Detach(t, r) => r.op = "detach"
      /\ StreamOpen(t, r) => r.op = "stream"
      /\ StreamClose(t, r) => r.op = "close"
      /\ PlanApply(t, r) => r.op = "apply"
      /\ PlanRelease(t, r) => r.op = "release"
      /\ Subscribe(t, r) => r.op = "subscribe"
      /\ Unsubscribe(t, r) => r.op = "unsubscribe"
  BY DEF Attach, Detach, StreamOpen, StreamClose, PlanApply, PlanRelease, Subscribe, Unsubscribe,
         Reaches
<1> QED BY <1>1, <1>2, <1>3, <1>4, <1>5 DEF Handle, OpenOps

\* A probe that does not say it is locked is free.
LEMMA UnlockedIsFree ==
  ASSUME KeptInv, at \notin Waiting \cup {"off"}, NEW to, SendOne(NoSid, "lock_state", to),
         answers'[Host][1].val # 1
  PROVE  holder' = NoSid
<1>1. PICK r : r = Req(NoSid, "lock_state")
  OBVIOUS
<1>2. /\ r \in Requests /\ HeaderFault(r) = "none" /\ r.sid = NoSid /\ r.op = "lock_state"
      /\ Handle(Host, r)
  BY <1>1, RequestIsSendable DEF Sendable, MachineOp, SendOne, Sends, Req
<1>3. Host \in Route /\ ~Resent(r) /\ TypeOK /\ Len(answers[Host]) = 0
  BY <1>2, KeptAssumption DEF Resent, KeptInv, ProbeInv, MachineInv, MachineTypeOK
<1>4. LockState(Host, r)
  BY <1>2, <1>3, HandledBy DEF NotAdmitted, Admitted
<1>5. PICK v \in Nat : v = IF holder = NoSid THEN 0 ELSE 1
  OBVIOUS
<1>6. PICK a : a = Ans(r, "ok", v)
  OBVIOUS
<1>7. holder' = holder /\ a \in Answer /\ a.val = v /\ Send(Host, a)
  BY <1>2, <1>4, <1>5, <1>6, AnsType DEF LockState, Answered, Settle, Res, Ans
<1>8. answers'[Host][1] = a
  BY <1>3, <1>7, OneAnswer
<1> QED BY <1>5, <1>7, <1>8

\* An open that is handled and refused leaves the id without the lock.
LEMMA RefusedIsNotHeld ==
  ASSUME KeptInv, at \notin Waiting \cup {"off"}, NEW s \in HostSid, NEW to,
         SendOne(s, "open", to), ~Resent(Req(s, "open")), answers'[Host][1].res # "ok"
  PROVE  holder' # s
<1>1. PICK r : r = Req(s, "open")
  OBVIOUS
<1>2. /\ r \in Requests /\ HeaderFault(r) = "none" /\ r.sid = s /\ r.op = "open" /\ s # NoSid
      /\ Handle(Host, r)
  BY <1>1, RequestIsSendable, KeptAssumption, ProbeAssumption
     DEF Sendable, MachineOp, SendOne, Sends, Req
<1>3. Host \in Route /\ ~Resent(r) /\ TypeOK /\ Len(answers[Host]) = 0 /\ boot \in Nat
  BY <1>1, KeptAssumption, ProbeAssumption DEF KeptInv, ProbeInv, MachineInv, MachineTypeOK, TypeOK
<1>4. CASE OpenRefused(Host, r)
  BY <1>2, <1>4 DEF OpenRefused, OpenFault
<1>5. CASE OpenTaken(Host, r)
  <2>1. PICK a : a = Ans(r, "ok", boot)
    OBVIOUS
  <2>2. a \in Answer /\ a.res = "ok" /\ Send(Host, a)
    BY <1>2, <1>3, <1>5, <2>1, AnsType DEF OpenTaken, Settle, Res, Ans
  <2>3. answers'[Host][1] = a
    BY <1>3, <2>2, OneAnswer
  <2> QED BY <2>2, <2>3
<1> QED BY <1>2, <1>3, <1>4, <1>5, HandledBy

\* An end that is handled leaves the id without the lock.
LEMMA EndedIsNotHeld ==
  ASSUME KeptInv, NEW s \in HostSid, NEW to, SendOne(s, "end", to), ~Resent(Req(s, "end"))
  PROVE  holder' # s
<1>1. PICK r : r = Req(s, "end")
  OBVIOUS
<1>2. /\ r \in Requests /\ HeaderFault(r) = "none" /\ r.sid = s /\ r.op = "end" /\ s # NoSid
      /\ Handle(Host, r) /\ Host \in Route /\ ~Resent(r)
  BY <1>1, RequestIsSendable, KeptAssumption, ProbeAssumption
     DEF Sendable, MachineOp, SendOne, Sends, Req
<1> QED BY <1>2, HandledBy DEF NotAdmitted, Admitted, End


-------------------------------------------------------------------------------
(* The run before: its session is looked for, opened and ended.             *)

\* What a request of the machine that leaves its session and its ids alone keeps by itself.
LEMMA SentKeepsIds ==
  ASSUME KeptInv, NEW sid, NEW op, NEW to, MachineEffect(sid, op, to), Sendable(sid, op),
         op = "open" => sid \in drawn',
         drawn \subseteq drawn', drawn' \subseteq HostSid, to \in Waiting,
         prev' = prev, hses' = hses, lagged' \in BOOLEAN, unseen' \in Nat,
         opening' \in drawn' \cup {NoSid}, prev # Empty => opening' # prev.sid
  PROVE  ProbeInv' /\ MachineTypeOK' /\ IdsDrawn' /\ ReservedAhead'
<1>1. ProbeInv' /\ FileKept /\ at' = to /\ hcorr' \in Corr /\ Len(answers'[Host]) = 1
  BY DEF MachineEffect
<1>2. MachineTypeOK'
  <2>1. hcorr' \in 0..CorrMax /\ sentLast' \in 0..CorrMax
    BY CorrAssumption DEF MachineEffect, Corr, KeptInv, MachineInv, MachineTypeOK
  <2>2. opening' \in HostSid \cup {NoSid} /\ at' \in Phase
    BY <1>1 DEF Phase
  <2> QED BY <1>1, <2>1, <2>2 DEF KeptInv, MachineInv, MachineTypeOK, FileKept
<1>3. IdsDrawn'
  <2>1. last' = last \/ last' \in drawn'
    BY DEF MachineEffect
  <2>2. /\ file' # Empty => file'.sid \in drawn
        /\ kept' # Empty => kept'.sid \in drawn
    BY <1>1 DEF FileKept, KeptInv, MachineInv, IdsDrawn
  <2> QED BY <2>1, <2>2 DEF KeptInv, MachineInv, IdsDrawn
<1> QED BY <1>1, <1>2, <1>3 DEF FileKept, ReservedAhead

\* The ids of the run before and of this one are ids of the machine, none the rival's.
LEMMA PreviousIsOurs ==
  ASSUME KeptInv, prev # Empty
  PROVE  prev \in File /\ prev.sid \in HostSid /\ prev.sid # NoSid /\ prev.sid \notin RivalSid
         /\ prev.res \in Corr /\ prev.sid \in drawn
BY KeptAssumption, ProbeAssumption DEF KeptInv, MachineInv, MachineTypeOK, IdsDrawn, File

\* A run that starts keeps the invariant: it has nothing yet but the file.
LEMMA RunKeeps == ASSUME KeptInv, Run PROVE KeptInv'
<1>1. UNCHANGED vars /\ ProbeInv'
  BY DEF Run, KeptInv, ProbeInv, RecordsInWindow, TypeOK, LockInv, vars, session, table, owned, world,
         history
<1>2. /\ hses' = NoSid /\ sentLast' = 0 /\ kept' = Empty /\ opening' = NoSid /\ lagged' = FALSE
      /\ prev' = file /\ UNCHANGED <<answers, file, unseen, drawn, last>>
      /\ \/ file = Empty /\ at' = "ready" /\ hcorr' = 0
         \/ file # Empty /\ at' = "previous" /\ hcorr' = file.res
  BY DEF Run, vars, session
<1>3. at = "off" /\ Len(answers[Host]) = 0
  BY DEF Run, KeptInv, MachineInv, MachineTypeOK, Waiting
<1>4. file # Empty => file \in File /\ file.res \in 0..CorrMax /\ file.sid # NoSid
  BY KeptAssumption, ProbeAssumption, CorrAssumption DEF KeptInv, MachineInv, MachineTypeOK, File, Corr
<1>5. MachineTypeOK'
  <2>1. at' \in Phase /\ at' \notin Waiting
    BY <1>2 DEF Phase, Waiting, Previous
  <2>2. hcorr' \in 0..CorrMax /\ sentLast' \in 0..CorrMax
    BY <1>2, <1>4, CorrAssumption
  <2> QED BY <1>2, <1>3, <2>1, <2>2 DEF KeptInv, MachineInv, MachineTypeOK
<1>6. IdsDrawn'
  BY <1>2, <1>4 DEF KeptInv, MachineInv, IdsDrawn
<1>7. PhaseInv' /\ ReservedAhead' /\ EndedInv' /\ RoomInv'
  BY <1>2 DEF PhaseInv, ReservedAhead, EndedInv, RoomInv, Previous
<1> QED BY <1>1, <1>5, <1>6, <1>7 DEF KeptInv, MachineInv

\* Asking whether the probe is locked keeps the invariant: if it is not, the session is ended.
LEMMA AskLockKeeps == ASSUME KeptInv, AskLock PROVE KeptInv'
<1>1. /\ at = "previous" /\ SendOne(NoSid, "lock_state", "ask")
      /\ UNCHANGED <<hses, prev, opening, unseen, drawn, lagged>>
  BY DEF AskLock, boundVars
<1>2. at \notin Waiting \cup {"off"} /\ Sendable(NoSid, "lock_state")
  BY <1>1 DEF Waiting, Sendable, MachineOp
<1>3. MachineEffect(NoSid, "lock_state", "ask")
  BY <1>1, <1>2, MachineRequest
<1>4. prev # Empty /\ hses = NoSid /\ hcorr = prev.res /\ prev.sid # NoSid
  BY <1>1, PreviousIsOurs DEF KeptInv, MachineInv, PhaseInv, Previous
<1>5. ProbeInv' /\ MachineTypeOK' /\ IdsDrawn' /\ ReservedAhead'
  BY <1>1, <1>2, <1>3, SentKeepsIds DEF Waiting, KeptInv, MachineInv, MachineTypeOK, IdsDrawn
<1>6. at' = "ask" /\ hcorr' = NextCorr(hcorr)
  BY <1>3 DEF MachineEffect
<1>7. answers'[Host][1].val # 1 => holder' = NoSid
  BY <1>1, <1>2, UnlockedIsFree
<1> QED BY <1>1, <1>4, <1>5, <1>6, <1>7
        DEF KeptInv, MachineInv, PhaseInv, EndedInv, RoomInv, Ended, Previous


\* The open of the previous session: handled if its corr is ahead, and then remembered.
LEMMA OpenPreviousKeeps == ASSUME KeptInv, OpenPrevious PROVE KeptInv'
<1>1. /\ at = "locked" /\ SendOne(prev.sid, "open", "reopen")
      /\ lagged' = (last = prev.sid /\ ~Ahead(AheadBy(prev.res, 2), newest))
      /\ UNCHANGED <<hses, prev, opening, unseen, drawn>>
  BY DEF OpenPrevious, boundVars
<1>2. at \notin Waiting \cup {"off"} /\ prev # Empty /\ hses = NoSid /\ hcorr = NextCorr(prev.res)
  BY <1>1 DEF Waiting, KeptInv, MachineInv, PhaseInv, Previous
<1>3. prev.sid \in HostSid /\ prev.sid # NoSid /\ prev.res \in Corr /\ prev.sid \in drawn
  BY <1>2, PreviousIsOurs
<1>4. Sendable(prev.sid, "open")
  BY <1>3 DEF Sendable, MachineOp
<1>5. MachineEffect(prev.sid, "open", "reopen")
  BY <1>1, <1>2, <1>4, MachineRequest
<1>6. ProbeInv' /\ MachineTypeOK' /\ IdsDrawn' /\ ReservedAhead'
  <2>1. prev' = prev /\ hses' = hses /\ lagged' \in BOOLEAN /\ unseen' \in Nat
        /\ drawn' = drawn /\ drawn \subseteq HostSid /\ "reopen" \in Waiting
    BY <1>1 DEF Waiting, KeptInv, MachineInv, MachineTypeOK
  <2>2. opening' \in drawn' \cup {NoSid} /\ (prev # Empty => opening' # prev.sid)
    BY <1>1 DEF KeptInv, MachineInv, IdsDrawn
  <2> QED BY <1>3, <1>4, <1>5, <2>1, <2>2, SentKeepsIds
<1>7. at' = "reopen" /\ hcorr' = NextCorr(NextCorr(prev.res))
  BY <1>2, <1>5 DEF MachineEffect
<1>8. ~lagged' => (last = prev.sid => Ahead(hcorr', newest))
  BY <1>1, <1>3, <1>7, TwoAhead
<1>9. ~lagged' => ~Resent(Req(prev.sid, "open"))
  <2>1. PICK r : r = Req(prev.sid, "open")
    OBVIOUS
  <2>2. r \in Requests /\ r.sid = prev.sid /\ r.corr = hcorr' /\ ProbeInv
    BY <1>2, <1>4, <1>7, <2>1, RequestIsSendable DEF KeptInv
  <2> QED BY <1>8, <2>1, <2>2, AheadIsNew
<1>10. (answers'[Host][1].res # "ok") => (holder' # prev.sid \/ lagged')
  BY <1>1, <1>2, <1>3, <1>9, RefusedIsNotHeld
<1>11. lagged' \/ last' # prev.sid \/ newest' = hcorr'
  BY <1>3, <1>5, <1>8 DEF MachineEffect
<1> QED BY <1>1, <1>2, <1>6, <1>7, <1>10, <1>11
        DEF KeptInv, MachineInv, PhaseInv, EndedInv, RoomInv, Ended, Previous

\* The end of the previous session: the machine's open was the last the probe remembers of it, so
\* the end is handled.
LEMMA EndPreviousKeeps == ASSUME KeptInv, EndPrevious PROVE KeptInv'
<1>1. /\ at = "taken" /\ SendOne(prev.sid, "end", "endprev")
      /\ UNCHANGED <<hses, prev, opening, unseen, drawn, lagged>>
  BY DEF EndPrevious, boundVars
<1>2. /\ at \notin Waiting \cup {"off"} /\ prev # Empty /\ hses = NoSid
      /\ lagged \/ last # prev.sid \/ newest = hcorr
  BY <1>1 DEF Waiting, KeptInv, MachineInv, PhaseInv, EndedInv, Previous
<1>3. prev.sid \in HostSid /\ prev.sid # NoSid /\ prev.sid \in drawn
  BY <1>2, PreviousIsOurs
<1>4. Sendable(prev.sid, "end")
  BY <1>3 DEF Sendable, MachineOp
<1>5. MachineEffect(prev.sid, "end", "endprev")
  BY <1>1, <1>2, <1>4, MachineRequest
<1>6. ProbeInv' /\ MachineTypeOK' /\ IdsDrawn' /\ ReservedAhead'
  <2>1. prev' = prev /\ hses' = hses /\ lagged' \in BOOLEAN /\ unseen' \in Nat
        /\ drawn' = drawn /\ drawn \subseteq HostSid /\ "endprev" \in Waiting
    BY <1>1 DEF Waiting, KeptInv, MachineInv, MachineTypeOK
  <2>2. opening' \in drawn' \cup {NoSid} /\ (prev # Empty => opening' # prev.sid)
    BY <1>1 DEF KeptInv, MachineInv, IdsDrawn
  <2> QED BY <1>3, <1>4, <1>5, <2>1, <2>2, SentKeepsIds
<1>7. at' = "endprev" /\ hcorr' = NextCorr(hcorr)
  BY <1>5 DEF MachineEffect
<1>8. holder' # prev.sid \/ lagged
  <2>1. CASE newest = 0 \/ newest = hcorr
    <3>1. PICK r : r = Req(prev.sid, "end")
      OBVIOUS
    <3>2. r \in Requests /\ r.sid = prev.sid /\ r.corr = NextCorr(hcorr) /\ ProbeInv
      BY <1>4, <3>1, RequestIsSendable DEF KeptInv
    <3>3. newest = 0 \/ Ahead(r.corr, newest)
      BY <2>1, <3>2, NextIsAhead, CorrAssumption DEF ProbeInv, TypeOK, Corr
    <3>4. ~Resent(Req(prev.sid, "end"))
      BY <3>1, <3>2, <3>3, AheadIsNew
    <3> QED BY <1>1, <1>3, <3>4, EndedIsNotHeld
  <2>2. CASE last # prev.sid
    <3>1. holder = NoSid \/ holder = last
      BY DEF KeptInv, ProbeInv, LockInv
    <3> QED BY <1>3, <1>5, <2>2, <3>1 DEF MachineEffect
  <2> QED BY <1>2, <2>1, <2>2
<1> QED BY <1>1, <1>2, <1>6, <1>7, <1>8
        DEF KeptInv, MachineInv, PhaseInv, EndedInv, RoomInv, Ended, Previous


-------------------------------------------------------------------------------
(* A session of this run's own.                                             *)

\* An open under a new id keeps the invariant: the probe does not know the id, so the open is
\* handled, and if it is taken it is what the probe remembers.
LEMMA OpenKeeps == ASSUME KeptInv, NEW s \in HostSid, Open(s) PROVE KeptInv'
<1>1. /\ at = "ready" /\ s \notin drawn /\ SendOne(s, "open", "open")
      /\ drawn' = drawn \cup {s} /\ opening' = s /\ UNCHANGED <<hses, prev, lagged>>
      /\ (hses = NoSid /\ unseen' = unseen) \/ unseen' = unseen + 1
  BY DEF Open
<1>2. at \notin Waiting \cup {"off"} /\ s # NoSid /\ s \notin RivalSid /\ Sendable(s, "open")
  BY <1>1, KeptAssumption, ProbeAssumption DEF Waiting, Sendable, MachineOp
<1>3. MachineEffect(s, "open", "open")
  BY <1>1, <1>2, MachineRequest
<1>4. prev # Empty => prev.sid \in drawn /\ prev.sid # s
  BY <1>1, PreviousIsOurs
<1>5. unseen \in Nat /\ unseen' \in Nat /\ (unseen' = 0 => hses = NoSid)
  BY <1>1 DEF KeptInv, MachineInv, MachineTypeOK
<1>6. ProbeInv' /\ MachineTypeOK' /\ IdsDrawn' /\ ReservedAhead'
  <2>1. prev' = prev /\ hses' = hses /\ lagged' \in BOOLEAN /\ "open" \in Waiting
        /\ s \in drawn' /\ drawn \subseteq drawn' /\ drawn' \subseteq HostSid
    BY <1>1 DEF Waiting, KeptInv, MachineInv, MachineTypeOK
  <2> QED BY <1>1, <1>2, <1>3, <1>4, <1>5, <2>1, SentKeepsIds
<1>7. last # s
  BY <1>1, <1>2 DEF KeptInv, MachineInv, IdsDrawn
<1>8. at' = "open" /\ (last' = s => newest' = hcorr') /\ hcorr' # 0
      /\ (prev # Empty => Ended')
  <2>1. prev # Empty => Ended
    BY <1>1 DEF KeptInv, MachineInv, EndedInv
  <2>2. prev # Empty => prev.sid # NoSid
    BY PreviousIsOurs
  <2>3. hcorr' # 0
    BY <1>3, CorrAssumption DEF MachineEffect, Corr
  <2> QED BY <1>1, <1>2, <1>3, <1>4, <1>7, <2>1, <2>2, <2>3 DEF MachineEffect, Ended
<1> QED BY <1>1, <1>2, <1>5, <1>6, <1>8
        DEF KeptInv, MachineInv, PhaseInv, EndedInv, RoomInv, Previous

\* Any other request of the session, or outside it, keeps the invariant as long as the room
\* check's promise comes out of it.
LEMMA RequestKeeps ==
  ASSUME KeptInv, at \in {"ready", "aside"}, NEW sid \in {NoSid, hses}, NEW op, NEW to,
         MachineEffect(sid, op, to), Sendable(sid, op), op # "open",
         to \in {"call", "end", "side", "room"},
         UNCHANGED <<hses, prev, opening, drawn, lagged>>, unseen' \in Nat, RoomInv'
  PROVE  KeptInv'
<1>1. ProbeInv' /\ MachineTypeOK' /\ IdsDrawn' /\ ReservedAhead'
  <2>1. drawn \subseteq drawn' /\ drawn' \subseteq HostSid /\ to \in Waiting /\ lagged' \in BOOLEAN
        /\ opening' \in drawn' \cup {NoSid} /\ (prev # Empty => opening' # prev.sid)
    BY DEF Waiting, KeptInv, MachineInv, MachineTypeOK, IdsDrawn
  <2> QED BY <2>1, SentKeepsIds
<1>2. at' = to /\ (prev # Empty => Ended')
  <2>1. prev # Empty => Ended /\ prev.sid # NoSid
    BY PreviousIsOurs DEF KeptInv, MachineInv, EndedInv
  <2> QED BY <2>1 DEF MachineEffect, Ended
<1>3. PhaseInv'
  BY <1>2 DEF PhaseInv, Previous
<1>4. EndedInv'
  BY <1>2 DEF EndedInv
<1> QED BY <1>1, <1>3, <1>4 DEF KeptInv, MachineInv

\* A request of the session is the last thing the probe remembers of it, the next corr ahead.
LEMMA SessionRequestRoom ==
  ASSUME KeptInv, at = "ready", hses # NoSid, NEW op, NEW to, MachineEffect(hses, op, to),
         op # "open", to \in {"call", "end", "room"}, hses' = hses, unseen' = unseen
  PROVE  RoomInv'
<1>1. SUFFICES ASSUME unseen = 0, last' = hses
               PROVE  /\ newest' = sentLast' /\ sentLast' # 0 /\ hcorr' = sentLast'
                      /\ Ahead(NextCorr(hcorr'), sentLast')
  BY DEF RoomInv, MachineEffect
<1>2. last = hses /\ newest = sentLast /\ Ahead(NextCorr(hcorr), sentLast)
  BY <1>1 DEF MachineEffect, KeptInv, MachineInv, RoomInv
<1>3. hcorr' \in Corr /\ sentLast' = hcorr' /\ newest' = hcorr'
  BY <1>1, <1>2 DEF MachineEffect
<1>4. hcorr' # 0
  BY <1>3, CorrAssumption DEF Corr
<1> QED BY <1>3, <1>4, NextIsAhead

\* A request outside the session leaves room for the session's next one when the room check says
\* so, and after the keepalive that makes it.
LEMMA SideRequestRoom ==
  ASSUME KeptInv, NEW op, MachineEffect(NoSid, op, "side"), op # "open",
         (at = "ready" /\ Room) \/ at = "aside", hses' = hses, unseen' = unseen
  PROVE  RoomInv'
<1>1. SUFFICES ASSUME unseen = 0, last' = hses, hses # NoSid
               PROVE  /\ newest' = sentLast' /\ sentLast' # 0
                      /\ Ahead(NextCorr(hcorr'), sentLast')
  BY DEF RoomInv, MachineEffect
<1>2. /\ last = hses /\ newest = sentLast /\ sentLast # 0 /\ Ahead(NextCorr(hcorr), sentLast)
      /\ at = "aside" => hcorr = sentLast
  BY <1>1 DEF MachineEffect, KeptInv, MachineInv, RoomInv
<1>3. hcorr' = NextCorr(hcorr) /\ hcorr' \in Corr /\ sentLast' = sentLast /\ newest' = newest
  BY <1>1, <1>2 DEF MachineEffect
<1>4. sentLast \in Corr
  BY <1>2, CorrAssumption DEF Corr, KeptInv, MachineInv, MachineTypeOK
<1>5. CASE at = "aside"
  BY <1>2, <1>3, <1>4, <1>5, NextIsAhead
<1>6. CASE at = "ready" /\ Room
  <2>1. Diff(NextCorr(hcorr'), sentLast) < HalfRange
    BY <1>1, <1>2, <1>3, <1>6 DEF Room
  <2>2. Ahead(hcorr', sentLast)
    BY <1>2, <1>3
  <2> QED BY <1>2, <1>3, <1>4, <2>1, <2>2, NextStaysAhead
<1> QED BY <1>5, <1>6


\* A call of the session keeps the invariant.
LEMMA CallKeeps == ASSUME KeptInv, Call PROVE KeptInv'
<1>1. /\ at = "ready" /\ hses # NoSid
      /\ UNCHANGED <<hses, prev, opening, unseen, drawn, lagged>>
      /\ SendOne(hses, "keepalive", "call") \/ SendOne(hses, "end", "end")
  BY DEF Call, boundVars
<1>2. PICK op \in {"keepalive", "end"}, to \in {"call", "end"} : SendOne(hses, op, to)
  BY <1>1
<1>3. /\ at \notin Waiting \cup {"off"} /\ Sendable(hses, op) /\ op # "open" /\ unseen' \in Nat
      /\ to \in {"call", "end", "side", "room"}
  BY <1>1 DEF Waiting, Sendable, MachineOp, KeptInv, MachineInv, MachineTypeOK
<1>4. MachineEffect(hses, op, to)
  BY <1>2, <1>3, MachineRequest
<1>5. RoomInv'
  BY <1>1, <1>3, <1>4, SessionRequestRoom
<1> QED BY <1>1, <1>3, <1>4, <1>5, RequestKeeps

\* A request outside the session, with the keepalive that makes room for it, keeps the invariant.
LEMMA SideKeeps == ASSUME KeptInv, Side PROVE KeptInv'
<1>1. /\ UNCHANGED <<hses, prev, opening, unseen, drawn, lagged>>
      /\ unseen' \in Nat /\ at \in {"ready", "aside"} /\ at \notin Waiting \cup {"off"}
  BY DEF Side, boundVars, Waiting, KeptInv, MachineInv, MachineTypeOK
<1>2. CASE ((at = "ready" /\ Room) \/ at = "aside") /\ SendOne(NoSid, "confirm", "side")
  <2>1. Sendable(NoSid, "confirm")
    BY DEF Sendable, MachineOp
  <2>2. MachineEffect(NoSid, "confirm", "side")
    BY <1>1, <1>2, <2>1, MachineRequest
  <2>3. RoomInv'
    BY <1>1, <1>2, <2>2, SideRequestRoom
  <2> QED BY <1>1, <2>1, <2>2, <2>3, RequestKeeps
<1>3. CASE at = "ready" /\ ~Room /\ SendOne(hses, "keepalive", "room")
  <2>1. hses # NoSid /\ Sendable(hses, "keepalive")
    BY <1>3 DEF Room, Sendable, MachineOp, KeptInv, MachineInv, MachineTypeOK
  <2>2. MachineEffect(hses, "keepalive", "room")
    BY <1>1, <1>3, <2>1, MachineRequest
  <2>3. RoomInv'
    BY <1>1, <1>3, <2>1, <2>2, SessionRequestRoom
  <2> QED BY <1>1, <2>1, <2>2, <2>3, RequestKeeps
<1> QED BY <1>2, <1>3 DEF Side

\* A corr the room check does not see keeps the invariant: from then on nothing is said of room.
LEMMA UnseenKeeps == ASSUME KeptInv, Unseen PROVE KeptInv'
<1>1. /\ at = "ready" /\ hses # NoSid /\ unseen' = unseen + 1
      /\ UNCHANGED <<hses, prev, opening, drawn, lagged>>
  BY DEF Unseen
<1>2. unseen' \in Nat /\ RoomInv'
  BY <1>1 DEF RoomInv, KeptInv, MachineInv, MachineTypeOK
<1>3. at \notin Waiting \cup {"off"} /\ Sendable(NoSid, "confirm")
  BY <1>1 DEF Waiting, Sendable, MachineOp
<1>4. CASE SendOne(NoSid, "confirm", "side")
  <2>1. MachineEffect(NoSid, "confirm", "side")
    BY <1>3, <1>4, MachineRequest
  <2> QED BY <1>1, <1>2, <1>3, <2>1, RequestKeeps
<1>5. ASSUME NEW c, c = NextCorr(hcorr), Sent(c), hcorr' = c, sentLast' = c, UNCHANGED <<vars, at>>
      PROVE  KeptInv'
  <2>1. c \in Corr /\ c \in 0..CorrMax
    BY <1>5, NextIsCorr, CorrAssumption DEF Corr, KeptInv, MachineInv, MachineTypeOK
  <2>2. FileKept
    BY <1>1, <1>5, <2>1, SentKeeps
  <2>3. UNCHANGED <<answers, last, holder, newest>>
    BY <1>5 DEF vars, session, table
  <2>4. ProbeInv'
    BY <1>5 DEF KeptInv, ProbeInv, RecordsInWindow, TypeOK, LockInv, vars, session, table, owned,
                world, history
  <2>5. MachineTypeOK'
    BY <1>1, <1>2, <1>5, <2>1, <2>2, <2>3 DEF FileKept, KeptInv, MachineInv, MachineTypeOK
  <2>6. IdsDrawn' /\ ReservedAhead'
    BY <1>1, <1>5, <2>2, <2>3 DEF FileKept, KeptInv, MachineInv, IdsDrawn, ReservedAhead
  <2>7. PhaseInv' /\ EndedInv'
    BY <1>1, <1>5, <2>3 DEF KeptInv, MachineInv, PhaseInv, EndedInv, Ended, Previous
  <2> QED BY <1>2, <2>4, <2>5, <2>6, <2>7 DEF KeptInv, MachineInv
<1> QED BY <1>4, <1>5 DEF Unseen

\* The file of a session that was opened names it and a corr ahead.
LEMMA OpenedKeeps == ASSUME KeptInv, Opened PROVE KeptInv'
<1>1. /\ at = "opened" /\ at' = "ready"
      /\ UNCHANGED <<vars, hcorr, hses, sentLast, prev, opening, unseen, drawn, lagged>>
      /\ kept' = [sid |-> hses, res |-> AheadBy(hcorr, Reserve)] /\ file' = kept'
  BY DEF Opened, boundVars
<1>2. hses \in HostSid /\ hses \in drawn
  BY <1>1 DEF KeptInv, MachineInv, MachineTypeOK, PhaseInv, IdsDrawn
<1>3. hcorr \in Corr
  BY <1>1, CorrAssumption DEF Corr, KeptInv, MachineInv, MachineTypeOK, PhaseInv
<1>4. AheadBy(hcorr, Reserve) \in Corr /\ Ahead(AheadBy(hcorr, Reserve), hcorr)
  BY <1>3, ReservedIsAhead
<1>5. kept' \in File /\ kept'.sid = hses /\ kept'.res = AheadBy(hcorr, Reserve)
  BY <1>1, <1>2, <1>4 DEF File
<1>6. UNCHANGED <<answers, last, holder, newest>>
  BY <1>1 DEF vars, session, table
<1>7. ProbeInv'
  BY <1>1 DEF KeptInv, ProbeInv, RecordsInWindow, TypeOK, LockInv, vars, session, table, owned, world,
              history
<1>8. MachineTypeOK'
  BY <1>1, <1>5, <1>6 DEF KeptInv, MachineInv, MachineTypeOK, Phase, Waiting
<1>9. IdsDrawn' /\ ReservedAhead'
  BY <1>1, <1>2, <1>4, <1>5, <1>6 DEF KeptInv, MachineInv, IdsDrawn, ReservedAhead
<1>10. PhaseInv' /\ EndedInv' /\ RoomInv'
  BY <1>1, <1>6 DEF KeptInv, MachineInv, PhaseInv, EndedInv, RoomInv, Ended, Previous
<1> QED BY <1>7, <1>8, <1>9, <1>10 DEF KeptInv, MachineInv


-------------------------------------------------------------------------------
(* Answers, deaths, the rival and the clock.                                *)

\* What the probe does on its own, or for the rival, keeps the machine's invariant: none of it
\* gives the lock to a session of the machine or is remembered under one.
LEMMA OthersKeep ==
  ASSUME KeptInv, ProbeInv', UNCHANGED <<hostVars, unseen, drawn, lagged>>,
         answers'[Host] = answers[Host],
         holder' = holder \/ holder' \in RivalSid \cup {NoSid},
         last' = last \/ last' \in RivalSid, last' \notin RivalSid => newest' = newest
  PROVE  KeptInv'
<1>1. UNCHANGED <<at, hcorr, hses, sentLast, file, kept, prev, opening>>
  BY DEF hostVars
<1>2. MachineTypeOK' /\ IdsDrawn' /\ PhaseInv' /\ ReservedAhead'
  BY <1>1 DEF KeptInv, MachineInv, MachineTypeOK, IdsDrawn, PhaseInv, ReservedAhead
<1>3. ASSUME NEW s \in HostSid, last' = s PROVE last = s /\ newest' = newest
  BY <1>3, KeptAssumption
<1>4. EndedInv'
  <2>1. SUFFICES ASSUME prev # Empty PROVE EndedInv'
    BY <1>1 DEF EndedInv
  <2>2. prev.sid \in HostSid /\ prev.sid \notin RivalSid /\ prev.sid # NoSid
    BY <2>1, PreviousIsOurs
  <2>3. Ended => Ended'
    BY <1>1, <2>2 DEF Ended
  <2> QED BY <1>1, <1>3, <2>2, <2>3 DEF KeptInv, MachineInv, EndedInv
<1>5. RoomInv'
  <2>1. opening \in HostSid \cup {NoSid} /\ hses \in HostSid \cup {NoSid}
    BY DEF KeptInv, MachineInv, MachineTypeOK
  <2>2. at = "open" => opening # NoSid
    BY DEF KeptInv, MachineInv, PhaseInv
  <2> QED BY <1>1, <1>3, <2>1, <2>2 DEF KeptInv, MachineInv, RoomInv
<1> QED BY <1>2, <1>4, <1>5 DEF KeptInv, MachineInv

\* The rival's requests are requests of its own sessions.
LEMMA RivalRequest ==
  ASSUME NEW r \in RivalRequests
  PROVE  r \in Requests /\ r.sid \in RivalSid /\ r.sid # NoSid
<1>1. RivalSid \subseteq Sid /\ NoSid \notin Sid /\ 1 \in 0..CorrMax /\ 2 \in 0..CorrMax /\ 0 \in Nat
  BY KeptAssumption, ProbeAssumption, CorrAssumption
<1>2. {"open", "force", "end"} \subseteq Op
  BY DEF Op, LockFree, OpenOps
<1> QED BY <1>1, <1>2 DEF RivalRequests, Requests

\* The rival keeps the invariant, whatever it does to the lock.
LEMMA RivalActsKeeps == ASSUME KeptInv, RivalActs PROVE KeptInv'
<1>1. PICK r \in RivalRequests : Handle(Rival, r)
  BY DEF RivalActs
<1>2. r \in Requests /\ r.sid \in RivalSid /\ Rival \in Route /\ Host \in Route /\ Host # Rival
  BY RivalRequest, KeptAssumption
<1>3. Effect(Rival, r) /\ ProbeInv'
  BY <1>1, <1>2, RequestEffect DEF KeptInv
<1>4. answers'[Host] = answers[Host]
  BY <1>2, <1>3 DEF Effect, Send, KeptInv, ProbeInv, TypeOK
<1>5. UNCHANGED <<hostVars, unseen, drawn, lagged>>
  BY DEF RivalActs, boundVars
<1> QED BY <1>2, <1>3, <1>4, <1>5, OthersKeep DEF Effect

\* The rival's answers and the clock keep the invariant.
LEMMA RestKeeps == ASSUME KeptInv, RivalReads \/ LeaseTick PROVE KeptInv'
<1>1. UNCHANGED <<hostVars, unseen, drawn, lagged>>
  BY DEF RivalReads, LeaseTick, boundVars
<1>2. CASE RivalReads
  <2>1. AnswerOut(Rival) /\ Rival \in Route /\ Host \in Route /\ Host # Rival
    BY <1>2, KeptAssumption DEF RivalReads
  <2>2. ProbeInv'
    <3>1. [Next]_vars /\ UNCHANGED table
      BY <2>1 DEF Next, AnswerOut
    <3> QED BY <3>1, NextType, LockNext DEF KeptInv, ProbeInv, RecordsInWindow, table
  <2>3. answers'[Host] = answers[Host] /\ UNCHANGED <<holder, last, newest>>
    BY <2>1 DEF AnswerOut, session, table, KeptInv, ProbeInv, TypeOK
  <2> QED BY <1>1, <2>2, <2>3, OthersKeep
<1>3. CASE LeaseTick
  <2>1. ProbeInv' /\ holder' \in {holder, NoSid} /\ UNCHANGED <<last, table, answers>>
    BY <1>3, TickEffect DEF LeaseTick, KeptInv
  <2> QED BY <1>1, <2>1, OthersKeep DEF table
<1> QED BY <1>2, <1>3

\* A death keeps the invariant: nothing is said of a process that is gone but what its file holds.
LEMMA DieKeeps == ASSUME KeptInv, Die PROVE KeptInv'
<1>1. /\ at' = "off" /\ file' \in {file, Empty} /\ answers' = [answers EXCEPT ![Host] = <<>>]
      /\ UNCHANGED <<session, table, owned, nextRes, world, history, given>>
      /\ UNCHANGED <<hcorr, hses, sentLast, kept, prev, opening, unseen, drawn, lagged>>
  BY DEF Die, boundVars
<1>2. ProbeInv' /\ Len(answers'[Host]) = 0
  <2>1. answers' \in [Route -> Seq(Answer)] /\ answers'[Host] = <<>>
    BY <1>1, KeptAssumption DEF KeptInv, ProbeInv, TypeOK
  <2> QED BY <1>1, <2>1 DEF KeptInv, ProbeInv, RecordsInWindow, TypeOK, LockInv, session, table, owned,
                            world, history
<1>3. MachineTypeOK'
  BY <1>1, <1>2 DEF KeptInv, MachineInv, MachineTypeOK, Phase, Waiting
<1>4. IdsDrawn'
  BY <1>1 DEF KeptInv, MachineInv, IdsDrawn, session
<1>5. PhaseInv' /\ ReservedAhead' /\ EndedInv' /\ RoomInv'
  BY <1>1 DEF PhaseInv, ReservedAhead, EndedInv, RoomInv, Previous
<1> QED BY <1>2, <1>3, <1>4, <1>5 DEF KeptInv, MachineInv

\* An answer keeps the invariant: what it says of the lock is what the probe did when it sent it.
LEMMA GotKeeps == ASSUME KeptInv, Got PROVE KeptInv'
<1>1. PICK q \in Seq(Answer) : q = answers[Host]
  BY KeptAssumption DEF KeptInv, ProbeInv, TypeOK
<1>2. q # <<>> /\ Len(q) = 1 /\ at \in Waiting
  <2>1. q # <<>> /\ Len(q) = IF at \in Waiting THEN 1 ELSE 0
    BY <1>1 DEF Got, KeptInv, MachineInv, MachineTypeOK
  <2>2. Len(q) # 0
    BY <2>1
  <2> QED BY <2>1, <2>2
<1>3. PICK a : a = q[1]
  OBVIOUS
<1>4. Head(answers[Host]) = a /\ answers[Host][1] = a
  BY <1>1, <1>2, <1>3
<1>5. /\ at' = After(a)
      /\ \/ at = "open" /\ a.res = "ok" /\ hses' = opening /\ sentLast' = hcorr /\ UNCHANGED <<kept, file>>
         \/ at = "end" /\ a.res = "ok" /\ hses' = NoSid /\ kept' = Empty /\ file' = Empty /\ sentLast' = 0
         \/ a.res = "no_session" /\ hses' = NoSid /\ sentLast' = 0 /\ UNCHANGED <<kept, file>>
         \/ /\ a.res # "no_session" /\ ~(at \in {"open", "end"} /\ a.res = "ok")
            /\ UNCHANGED <<hses, sentLast, kept, file>>
      /\ answers' = [answers EXCEPT ![Host] = Tail(@)]
      /\ UNCHANGED <<session, table, hcorr, prev, opening, unseen, drawn, lagged>>
  BY <1>4 DEF Got, boundVars
<1>6. ProbeInv'
  <2>1. AnswerOut(Host) /\ Host \in Route
    BY KeptAssumption DEF Got, AnswerOut
  <2>2. [Next]_vars
    BY <2>1 DEF Next
  <2> QED BY <1>5, <2>2, NextType, LockNext DEF KeptInv, ProbeInv, RecordsInWindow, table
<1>7. Len(answers'[Host]) = 0
  <2>1. answers'[Host] = Tail(q)
    BY <1>1, <1>5, KeptAssumption DEF KeptInv, ProbeInv, TypeOK
  <2> QED BY <1>2, <2>1
<1>8. /\ at' = IF at = "ask" /\ a.val = 1 THEN "locked"
               ELSE IF at = "reopen" /\ a.res = "ok" THEN "taken"
               ELSE IF at = "open" /\ a.res = "ok" THEN "opened"
               ELSE IF at = "room" THEN "aside" ELSE "ready"
      /\ at' \in Phase /\ at' \notin Waiting /\ at' # "off" /\ at' # "previous"
  BY <1>2, <1>5 DEF After, Phase, Waiting, Previous
<1>9. UNCHANGED <<holder, last, newest>>
  BY <1>5 DEF session, table
<1>10. MachineTypeOK'
  <2>1. /\ hses' \in HostSid \cup {NoSid} /\ sentLast' \in 0..CorrMax
        /\ file' \in File \cup {Empty} /\ kept' \in File \cup {Empty}
    BY <1>5, CorrAssumption DEF KeptInv, MachineInv, MachineTypeOK
  <2> QED BY <1>5, <1>7, <1>8, <2>1 DEF KeptInv, MachineInv, MachineTypeOK
<1>11. IdsDrawn'
  <2>1. prev # Empty => prev.sid # NoSid
    BY PreviousIsOurs
  <2>2. /\ hses' \in drawn \cup {NoSid} /\ (prev # Empty => hses' # prev.sid)
        /\ file' # Empty => file'.sid \in drawn
        /\ kept' # Empty => kept'.sid \in drawn
    BY <1>5, <2>1 DEF KeptInv, MachineInv, IdsDrawn
  <2> QED BY <1>5, <1>9, <2>2 DEF KeptInv, MachineInv, IdsDrawn
<1>12. PhaseInv'
  <2>1. at \in {"ask", "reopen"} => prev # Empty /\ hses = NoSid
    BY DEF KeptInv, MachineInv, PhaseInv, Previous
  <2>2. at = "ask" => hcorr = NextCorr(prev.res)
    BY DEF KeptInv, MachineInv, PhaseInv
  <2>3. at = "open" => opening # NoSid /\ hcorr # 0
    BY DEF KeptInv, MachineInv, PhaseInv
  <2>4. at' = "locked" => at = "ask" /\ hses' = hses
    BY <1>5, <1>8, <2>1
  <2>5. at' = "taken" => at = "reopen" /\ hses' = hses
    BY <1>5, <1>8, <2>1
  <2>6. at' = "opened" => at = "open" /\ hses' = opening
    BY <1>5, <1>8
  <2>7. at' \notin {"previous", "ask", "reopen", "endprev", "open"}
    BY <1>8 DEF Waiting
  <2> QED BY <1>5, <2>1, <2>2, <2>3, <2>4, <2>5, <2>6, <2>7 DEF PhaseInv, Previous
<1>13. ReservedAhead'
  BY <1>2, <1>5 DEF KeptInv, MachineInv, ReservedAhead, Waiting
<1>14. EndedInv'
  <2>1. Ended' = Ended /\ (at' \in {"ready", "opened", "aside"} \/ at' = "locked" \/ at' = "taken")
    BY <1>5, <1>8, <1>9 DEF Ended
  <2>2. at' \in {"ready", "opened", "aside"} =>
          (at = "ask" => a.val # 1) /\ (at = "reopen" => a.res # "ok")
    BY <1>8
  <2>3. at \notin {"off", "previous", "locked", "taken"}
    BY <1>2 DEF Waiting
  <2>4. at' = "taken" => at = "reopen"
    BY <1>8
  <2> QED BY <1>4, <1>5, <1>9, <2>1, <2>2, <2>3, <2>4 DEF KeptInv, MachineInv, EndedInv
<1>15. RoomInv'
  <2>1. SUFFICES ASSUME unseen = 0, hses' # NoSid, last = hses'
                 PROVE  /\ newest = sentLast' /\ sentLast' # 0
                        /\ Ahead(NextCorr(hcorr), sentLast')
                        /\ at' \in {"room", "aside"} => hcorr = sentLast'
    BY <1>5, <1>8, <1>9 DEF RoomInv, Waiting
  <2>2. CASE at = "open" /\ a.res = "ok" /\ hses' = opening /\ sentLast' = hcorr
    <3>1. newest = hcorr /\ hcorr # 0
      BY <2>1, <2>2 DEF KeptInv, MachineInv, RoomInv, PhaseInv
    <3>2. hcorr \in Corr
      BY <3>1, CorrAssumption DEF Corr, KeptInv, MachineInv, MachineTypeOK
    <3> QED BY <2>2, <3>1, <3>2, NextIsAhead
  <2>3. CASE UNCHANGED <<hses, sentLast>>
    <3>1. at' = "aside" => at = "room"
      BY <1>8
    <3> QED BY <1>2, <1>8, <2>1, <2>3, <3>1 DEF KeptInv, MachineInv, RoomInv, Waiting
  <2> QED BY <1>5, <2>1, <2>2, <2>3
<1> QED BY <1>6, <1>10, <1>11, <1>12, <1>13, <1>14, <1>15 DEF KeptInv, MachineInv


-------------------------------------------------------------------------------
(* The sessions a run leaves behind.                                        *)

\* The ids this run drew, and those an earlier run left with the file naming them.
OwnIds == drawn \ earlier
LeftNamed == earlier \ unnamed

\* The machine's open was taken, and the file does not say so yet.
Took == at = "opened" \/ (at = "open" /\ answers[Host][1].res = "ok")

\* The answer to an end that was carried out is not kept past the lock it ended.
EndRecords ==
  holder # NoSid =>
    \A e \in resend : (e.req \in Requests /\ e.ans \in Answer /\ e.req.op = "end" /\ e.req.sid = holder)
                        => e.ans.res # "ok"

\* What the process knows of its own session and of the one before.
OwnKnown ==
  /\ earlier \subseteq drawn
  /\ at # "off" => opening \in OwnIds \cup {NoSid} /\ (prev # Empty => prev.sid \in earlier)
  /\ at \in Previous => kept = Empty /\ file = prev
  /\ (at \notin {"off", "opened"} /\ hses # NoSid) => kept # Empty /\ kept.sid = hses
  /\ at = "end" => kept # Empty
  /\ at = "opened" => hses = opening

\* What an answer on its way says of the lock.
AnswerTells ==
  /\ Took => holder \notin drawn \ {opening}
  /\ (at = "open" /\ ~Took) => holder # opening
  /\ (at = "end" /\ answers[Host][1].res = "ok") => holder \notin OwnIds

\* A session of the machine that holds the lock is named by the file, or was left unnamed; while a
\* process runs it is its own, opened or being opened, or the one it found in the file.
HeldIsNamed ==
  /\ (at = "off" /\ holder \in HostSid) => holder \in unnamed \/ (file # Empty /\ file.sid = holder)
  /\ (at # "off" /\ holder \in LeftNamed) =>
       prev # Empty /\ prev.sid = holder /\ file = prev /\ kept = Empty
  /\ (at # "off" /\ holder \in OwnIds) => Unwritten \/ (kept # Empty /\ kept.sid = holder)

LeftInv == EndRecords /\ OwnKnown /\ AnswerTells /\ HeldIsNamed

\* A session of the machine on the lock has an id the machine drew.
LEMMA HolderDrawn == ASSUME KeptInv, holder \in HostSid PROVE holder \in drawn /\ holder # NoSid
<1>1. holder # NoSid /\ holder \notin RivalSid
  BY KeptAssumption, ProbeAssumption
<1> QED BY <1>1 DEF KeptInv, ProbeInv, LockInv, MachineInv, IdsDrawn

\* Every request keeps what the table says of ends.
LEMMA RequestEndRecords ==
  ASSUME ProbeInv, EndRecords, NEW t \in Route, NEW r \in Requests, Handle(t, r)
  PROVE  EndRecords'
<1>0. TypeOK
  BY DEF ProbeInv
<1>1. ASSUME NEW res, NEW val, Settle(t, r, Ans(r, res, val)),
             holder' = holder \/ (NewLock /\ r.sid # NoSid /\ r.sid = last'),
             (r.op = "end" /\ r.sid = holder') => res # "ok"
      PROVE  EndRecords'
  <2>1. SUFFICES ASSUME holder' # NoSid, NEW e \in resend', e.req \in Requests, e.ans \in Answer,
                        e.req.op = "end", e.req.sid = holder'
                 PROVE  e.ans.res # "ok"
    BY DEF EndRecords
  <2>2. CASE e \in (IF NewLock THEN {} ELSE resend)
    BY <1>1, <2>1, <2>2 DEF EndRecords
  <2>3. CASE e \notin (IF NewLock THEN {} ELSE resend)
    <3>1. resend' = Kept(IF NewLock THEN {} ELSE resend, r, Ans(r, res, val))
      BY <1>1, <2>1, <2>3 DEF Settle, NewLock
    <3>2. /\ e.req = IF r.arg \in LargeArg THEN Dropped ELSE r
          /\ e.ans = IF val \in LargeVal THEN Dropped ELSE Ans(r, res, val)
      BY <2>1, <2>3, <3>1 DEF Kept, Ans
    <3>3. e.req = r /\ e.ans = Ans(r, res, val)
      BY <2>1, <3>2, ProbeAssumption
    <3> QED BY <1>1, <2>1, <3>3 DEF Ans
  <2> QED BY <2>2, <2>3
<1>2. CASE UNCHANGED <<session, table, owned, nextRes, world, history, given>>
  BY <1>2 DEF EndRecords, session, table
<1>3. CASE /\ Fresh(t, r) /\ UNCHANGED <<holder, last, lease>>
           /\ \E res \in Res, val \in Nat : Settle(t, r, Ans(r, res, val))
  <2>1. CASE r.op # "end" \/ r.sid # holder
    BY <1>1, <1>3, <2>1
  <2>2. CASE r.op = "end" /\ r.sid = holder
    <3>1. HeaderFault(r) = "none" /\ ~Resent(r)
      BY <1>3 DEF Fresh
    <3>2. NotAdmitted(t, r) \/ End(t, r)
      BY <2>2, <3>1, HandledBy
    <3>3. End(t, r)
      BY <2>2, <3>2 DEF NotAdmitted, Admitted
    <3> QED BY <3>3 DEF End, EndRecords
  <2> QED BY <2>1, <2>2
<1>4. CASE OpenTaken(t, r)
  <2>1. /\ Settle(t, r, Ans(r, "ok", boot)) /\ r.op # "end" /\ r.sid # NoSid
        /\ holder' = r.sid /\ last' = r.sid
    BY <1>4 DEF OpenTaken, OpenFault, OpenOps
  <2>2. holder' = holder \/ (NewLock /\ r.sid # NoSid /\ r.sid = last')
    BY <2>1 DEF NewLock
  <2> QED BY <1>1, <2>1, <2>2
<1>5. CASE End(t, r)
  BY <1>5 DEF End, EndRecords
<1> QED BY <1>0, <1>2, <1>3, <1>4, <1>5, HandleKinds

\* What the machine sends is a request the probe handles.
LEMMA SentIsHandled ==
  ASSUME KeptInv, at \notin Waiting \cup {"off"},
         NEW sid, NEW op, NEW to, Sendable(sid, op), SendOne(sid, op, to)
  PROVE  /\ Req(sid, op) \in Requests /\ Handle(Host, Req(sid, op)) /\ Host \in Route
         /\ HeaderFault(Req(sid, op)) = "none" /\ Req(sid, op).sid = sid /\ Req(sid, op).op = op
         /\ TypeOK /\ Len(answers[Host]) = 0
BY RequestIsSendable, KeptAssumption
   DEF SendOne, Sends, Req, KeptInv, ProbeInv, MachineInv, MachineTypeOK

\* An open under a new id that is answered ok has taken the lock.
LEMMA TakenIsHeld ==
  ASSUME KeptInv, at \notin Waiting \cup {"off"}, NEW s \in HostSid, NEW to,
         SendOne(s, "open", to), ~Resent(Req(s, "open")), answers'[Host][1].res = "ok"
  PROVE  holder' = s
<1>1. PICK r : r = Req(s, "open")
  OBVIOUS
<1>2. /\ r \in Requests /\ HeaderFault(r) = "none" /\ r.sid = s /\ r.op = "open"
      /\ Handle(Host, r) /\ Host \in Route /\ TypeOK /\ Len(answers[Host]) = 0 /\ ~Resent(r)
  BY <1>1, SentIsHandled, KeptAssumption, ProbeAssumption DEF Sendable, MachineOp
<1>3. CASE OpenRefused(Host, r)
  <2>1. PICK a : a = Ans(r, OpenFault(r), 0)
    OBVIOUS
  <2>2. a \in Answer /\ a.res # "ok" /\ Send(Host, a)
    BY <1>2, <1>3, <2>1, AnsType DEF OpenRefused, OpenFault, Settle, Res, Ans
  <2>3. answers'[Host][1] = a
    BY <1>2, <2>2, OneAnswer
  <2> QED BY <2>2, <2>3
<1>4. CASE OpenTaken(Host, r)
  BY <1>2, <1>4 DEF OpenTaken
<1> QED BY <1>2, <1>3, <1>4, HandledBy

\* An end that is answered ok, now or from the table, leaves the id without the lock.
LEMMA EndOkIsNotHeld ==
  ASSUME KeptInv, EndRecords, at \notin Waiting \cup {"off"}, NEW s \in HostSid, NEW to,
         SendOne(s, "end", to), answers'[Host][1].res = "ok"
  PROVE  holder' # s
<1>1. PICK r : r = Req(s, "end")
  OBVIOUS
<1>2. /\ r \in Requests /\ HeaderFault(r) = "none" /\ r.sid = s /\ r.op = "end" /\ s # NoSid
      /\ Handle(Host, r) /\ Host \in Route /\ TypeOK /\ Len(answers[Host]) = 0
  BY <1>1, SentIsHandled, KeptAssumption, ProbeAssumption DEF Sendable, MachineOp
<1>3. CASE ~Resent(r)
  BY <1>1, <1>3, EndedIsNotHeld
<1>4. CASE Resent(r)
  <2>1. ~Fresh(Host, r) /\ ~HandleHeaderFault(Host, r)
    BY <1>2, <1>4 DEF Fresh, HandleHeaderFault
  <2>2. HandleResent(Host, r)
    BY <1>2, <2>1, HandleKinds DEF OpenTaken, End, Reaches
  <2>3. PICK a : a = ResentAnswer(r)
    OBVIOUS
  <2>4. a \in Answer /\ Send(Host, a) /\ holder' = holder
    BY <1>2, <1>4, <2>2, <2>3, ResentAnswerType DEF HandleResent, session
  <2>5. a.res = "ok"
    BY <1>2, <2>4, OneAnswer
  <2>6. PICK e \in resend : e.req = r /\ e.ans = a
    <3>1. Known(r.corr) # {}
      BY <2>3, <2>5 DEF ResentAnswer, Ans
    <3>2. PICK e : e = CHOOSE k \in Known(r.corr) : TRUE
      OBVIOUS
    <3>3. e \in resend
      BY <3>1, <3>2 DEF Known
    <3>4. e.req = r /\ a = e.ans
      BY <2>3, <2>5, <3>1, <3>2 DEF ResentAnswer, Ans
    <3> QED BY <3>3, <3>4
  <2> QED BY <1>2, <2>4, <2>5, <2>6 DEF EndRecords
<1> QED BY <1>3, <1>4

\* A request of the machine keeps what is known of the sessions on the lock: it moves the lock to
\* nobody, or to the session of the run before.
LEMMA SentLeft ==
  ASSUME KeptInv, LeftInv, at \notin Waiting \cup {"off", "opened"},
         NEW sid, NEW op, NEW to, Sendable(sid, op), SendOne(sid, op, to), to \in Waiting \ {"open"},
         to \in {"ask", "reopen", "endprev"} => at \in Previous,
         op = "open" => at \in Previous /\ sid = prev.sid /\ to = "reopen",
         to = "end" => op = "end" /\ sid = hses /\ hses # NoSid,
         UNCHANGED <<hses, prev, opening, drawn, earlier, unnamed>>
  PROVE  LeftInv'
<1>1. MachineEffect(sid, op, to)
  BY MachineRequest
<1>2. /\ at' = to /\ at # "off" /\ to \notin {"off", "opened", "open"}
      /\ holder \in HostSid => holder \in drawn
      /\ (kept = Empty => file' = file /\ kept' = Empty)
      /\ (kept # Empty => kept' # Empty /\ kept'.sid = kept.sid)
  BY <1>1, HolderDrawn DEF MachineEffect, FileKept, Waiting
<1>3. ~Unwritten /\ ~Took'
  BY <1>2 DEF Unwritten, Took, Waiting
<1>4. EndRecords'
  BY SentIsHandled, RequestEndRecords DEF KeptInv, LeftInv
<1>5. OwnKnown'
  <2>1. (at' \in Previous) => at \in Previous
    BY <1>2 DEF Previous, Waiting
  <2> QED BY <1>2, <2>1 DEF LeftInv, OwnKnown, OwnIds
<1>6. AnswerTells'
  <2>1. SUFFICES ASSUME to = "end", answers'[Host][1].res = "ok" PROVE holder' \notin OwnIds'
    BY <1>2, <1>3 DEF AnswerTells
  <2>2. sid = hses /\ hses \in HostSid /\ op = "end" /\ kept # Empty /\ kept.sid = hses
    BY <2>1 DEF LeftInv, OwnKnown, KeptInv, MachineInv, MachineTypeOK, Waiting
  <2>3. holder' # hses
    BY <2>1, <2>2, EndOkIsNotHeld DEF LeftInv
  <2>4. OwnIds' = OwnIds /\ NoSid \notin OwnIds
    BY KeptAssumption, ProbeAssumption DEF OwnIds, KeptInv, MachineInv, MachineTypeOK
  <2>5. holder' = holder \/ holder' = NoSid
    BY <1>1, <2>2 DEF MachineEffect
  <2> QED BY <1>2, <1>3, <2>2, <2>3, <2>4, <2>5 DEF LeftInv, HeldIsNamed
<1>7. HeldIsNamed'
  <2>1. UNCHANGED <<OwnIds, LeftNamed, prev>> /\ NoSid \notin OwnIds /\ NoSid \notin LeftNamed
    BY KeptAssumption, ProbeAssumption
       DEF OwnIds, LeftNamed, LeftInv, OwnKnown, KeptInv, MachineInv, MachineTypeOK
  <2>2. CASE holder' = holder \/ holder' = NoSid
    BY <1>2, <1>3, <2>1, <2>2 DEF LeftInv, HeldIsNamed
  <2>3. CASE op = "open" /\ holder' = sid
    <3>1. /\ at \in Previous /\ prev # Empty /\ holder' = prev.sid /\ prev.sid \in earlier
          /\ kept = Empty /\ file = prev
      BY <1>2, <2>3 DEF LeftInv, OwnKnown, KeptInv, MachineInv, PhaseInv
    <3> QED BY <1>2, <2>1, <3>1 DEF HeldIsNamed, OwnIds
  <2> QED BY <1>1, <2>2, <2>3 DEF MachineEffect
<1> QED BY <1>4, <1>5, <1>6, <1>7 DEF LeftInv

\* What leaves the probe alone keeps what its table says of ends.
LEMMA ProbeAloneRecords == ASSUME EndRecords, UNCHANGED <<session, table>> PROVE EndRecords'
BY DEF EndRecords, session, table

\* A run that starts keeps it: what holds the lock is what the file names, or was left unnamed.
LEMMA RunLeft == ASSUME KeptInv, LeftInv, Run PROVE LeftInv'
<1>1. /\ at = "off" /\ hses' = NoSid /\ kept' = Empty /\ opening' = NoSid
      /\ prev' = file /\ earlier' = drawn /\ UNCHANGED <<file, drawn, unnamed, holder>>
      /\ at' = "ready" \/ (at' = "previous" /\ file # Empty)
  BY DEF Run, vars, session
<1>2. EndRecords'
  BY ProbeAloneRecords DEF Run, vars, LeftInv
<1>3. OwnKnown'
  BY <1>1 DEF OwnKnown, OwnIds, Previous, KeptInv, MachineInv, IdsDrawn
<1>4. AnswerTells'
  BY <1>1 DEF AnswerTells, Took
<1>5. HeldIsNamed'
  <2>1. drawn \subseteq HostSid /\ OwnIds' = {}
    BY <1>1 DEF OwnIds, KeptInv, MachineInv, MachineTypeOK
  <2> QED BY <1>1, <2>1 DEF HeldIsNamed, LeftNamed, LeftInv
<1> QED BY <1>2, <1>3, <1>4, <1>5 DEF LeftInv

\* So do the requests that end the session before, which carry its id.
LEMMA PreviousLeft ==
  ASSUME KeptInv, LeftInv, AskLock \/ OpenPrevious \/ EndPrevious PROVE LeftInv'
<1>1. /\ at \in {"previous", "locked", "taken"} /\ at \in Previous
      /\ UNCHANGED <<hses, prev, opening, drawn, earlier, unnamed>>
      /\ at \notin Waiting \cup {"off", "opened"}
  BY DEF AskLock, OpenPrevious, EndPrevious, Previous, Waiting, boundVars, pastVars
<1>2. Sendable(NoSid, "lock_state") /\ Sendable(prev.sid, "open") /\ Sendable(prev.sid, "end")
  BY <1>1, PreviousIsOurs DEF Sendable, MachineOp, KeptInv, MachineInv, PhaseInv
<1>3. CASE AskLock
  BY <1>1, <1>2, <1>3, SentLeft DEF AskLock, Waiting
<1>4. CASE OpenPrevious
  BY <1>1, <1>2, <1>4, SentLeft DEF OpenPrevious, Waiting
<1>5. CASE EndPrevious
  BY <1>1, <1>2, <1>5, SentLeft DEF EndPrevious, Waiting
<1> QED BY <1>3, <1>4, <1>5

\* And the requests of the run's own session, and those outside it.
LEMMA RequestLeft == ASSUME KeptInv, LeftInv, Call \/ Side \/ Unseen PROVE LeftInv'
<1>1. /\ at \in {"ready", "aside"} /\ UNCHANGED <<hses, prev, opening, drawn, earlier, unnamed>>
      /\ at \notin Waiting \cup {"off", "opened"}
  BY DEF Call, Side, Unseen, Waiting, boundVars, pastVars
<1>2. /\ Sendable(NoSid, "confirm") /\ (hses # NoSid => Sendable(hses, "keepalive") /\ Sendable(hses, "end"))
      /\ ~Room => hses # NoSid
  BY DEF Sendable, MachineOp, Room, KeptInv, MachineInv, MachineTypeOK
<1>3. ASSUME SendOne(NoSid, "confirm", "side") PROVE LeftInv'
  BY <1>1, <1>2, <1>3, SentLeft DEF Waiting
<1>4. ASSUME hses # NoSid, SendOne(hses, "keepalive", "call") PROVE LeftInv'
  BY <1>1, <1>2, <1>4, SentLeft DEF Waiting
<1>5. ASSUME hses # NoSid, SendOne(hses, "keepalive", "room") PROVE LeftInv'
  BY <1>1, <1>2, <1>5, SentLeft DEF Waiting
<1>6. ASSUME hses # NoSid, SendOne(hses, "end", "end") PROVE LeftInv'
  BY <1>1, <1>2, <1>6, SentLeft DEF Waiting
<1>7. ASSUME Sent(NextCorr(hcorr)), hcorr' = NextCorr(hcorr), UNCHANGED <<vars, at>>, at = "ready"
      PROVE  LeftInv'
  <2>1. FileKept
    BY <1>7, NextIsCorr, SentKeeps DEF KeptInv, MachineInv, MachineTypeOK
  <2>2. /\ kept = Empty => file' = file /\ kept' = Empty
        /\ kept # Empty => kept' # Empty /\ kept'.sid = kept.sid
        /\ UNCHANGED <<holder, answers>>
    BY <1>7, <2>1 DEF FileKept, vars, session
  <2>3. EndRecords'
    BY <1>7, ProbeAloneRecords DEF LeftInv, vars
  <2>4. OwnKnown' /\ AnswerTells'
    BY <1>1, <1>7, <2>2 DEF LeftInv, OwnKnown, AnswerTells, OwnIds, Took, Previous, Waiting
  <2>5. HeldIsNamed'
    BY <1>1, <1>7, <2>2 DEF LeftInv, HeldIsNamed, OwnIds, LeftNamed, Unwritten
  <2> QED BY <2>3, <2>4, <2>5 DEF LeftInv
<1> QED BY <1>1, <1>2, <1>3, <1>4, <1>5, <1>6, <1>7 DEF Call, Side, Unseen

\* An open under a new id: if it takes the lock, the file has to be told.
LEMMA OpenLeft == ASSUME KeptInv, LeftInv, NEW s \in HostSid, Open(s) PROVE LeftInv'
<1>1. /\ at = "ready" /\ s \notin drawn /\ SendOne(s, "open", "open") /\ drawn' = drawn \cup {s}
      /\ opening' = s /\ UNCHANGED <<hses, prev, earlier, unnamed>>
  BY DEF Open, pastVars
<1>2. at \notin Waiting \cup {"off"} /\ s # NoSid /\ s \notin RivalSid /\ Sendable(s, "open")
  BY <1>1, KeptAssumption, ProbeAssumption DEF Waiting, Sendable, MachineOp
<1>3. MachineEffect(s, "open", "open")
  BY <1>1, <1>2, MachineRequest
<1>4. /\ at' = "open" /\ holder' \in {holder, s} /\ (holder \in HostSid => holder # s)
      /\ (kept = Empty => file' = file /\ kept' = Empty)
      /\ (kept # Empty => kept' # Empty /\ kept'.sid = kept.sid)
  <2>1. holder \in HostSid => holder # s
    BY <1>1, HolderDrawn
  <2> QED BY <1>2, <1>3, <2>1 DEF MachineEffect, FileKept
<1>5. ~Resent(Req(s, "open"))
  BY <1>1, <1>2 DEF Resent, Req, KeptInv, MachineInv, IdsDrawn
<1>6. /\ answers'[Host][1].res = "ok" => holder' = s
      /\ answers'[Host][1].res # "ok" => holder' # s
  BY <1>1, <1>2, <1>5, TakenIsHeld, RefusedIsNotHeld
<1>7. EndRecords'
  BY <1>1, <1>2, SentIsHandled, RequestEndRecords DEF KeptInv, LeftInv
<1>8. OwnKnown'
  BY <1>1, <1>4 DEF LeftInv, OwnKnown, OwnIds, Previous
<1>9. AnswerTells'
  BY <1>1, <1>4, <1>6 DEF AnswerTells, Took
<1>10. HeldIsNamed'
  <2>1. earlier \subseteq drawn /\ s \notin LeftNamed' /\ LeftNamed' = LeftNamed /\ OwnIds' = OwnIds \cup {s}
        /\ ~Unwritten
    BY <1>1 DEF LeftInv, OwnKnown, OwnIds, LeftNamed, Unwritten
  <2>2. CASE holder' = s
    BY <1>1, <1>4, <2>1, <2>2 DEF HeldIsNamed, Unwritten
  <2>3. CASE holder' = holder /\ holder # s
    BY <1>1, <1>4, <2>1, <2>3 DEF LeftInv, HeldIsNamed
  <2> QED BY <1>4, <2>2, <2>3
<1> QED BY <1>7, <1>8, <1>9, <1>10 DEF LeftInv

\* Once the file is written it names the session that may hold the lock.
LEMMA OpenedLeft == ASSUME KeptInv, LeftInv, Opened PROVE LeftInv'
<1>1. /\ at = "opened" /\ at' = "ready" /\ kept'.sid = hses /\ file' = kept' /\ kept' \in File
      /\ UNCHANGED <<holder, answers, hses, prev, opening, drawn, earlier, unnamed>>
  <2>1. hses \in HostSid /\ AheadBy(hcorr, Reserve) \in Corr
    <3>1. at = "opened" /\ hcorr \in Corr /\ hses \in HostSid
      BY CorrAssumption DEF Opened, Corr, KeptInv, MachineInv, MachineTypeOK, PhaseInv
    <3> QED BY <3>1, ReservedIsAhead
  <2> QED BY <2>1 DEF Opened, boundVars, pastVars, vars, session, File
<1>2. kept' # Empty /\ hses = opening /\ opening \in OwnIds /\ holder \notin drawn \ {opening}
  <2>1. hses # NoSid /\ hses = opening /\ holder \notin drawn \ {opening} /\ opening \in OwnIds \cup {NoSid}
    BY <1>1 DEF KeptInv, MachineInv, PhaseInv, LeftInv, OwnKnown, AnswerTells, Took
  <2> QED BY <1>1, <2>1, KeptAssumption DEF File
<1>3. EndRecords'
  BY ProbeAloneRecords DEF Opened, vars, LeftInv
<1>4. OwnKnown' /\ AnswerTells'
  BY <1>1, <1>2 DEF LeftInv, OwnKnown, AnswerTells, OwnIds, Took, Previous, Waiting
<1>5. HeldIsNamed'
  BY <1>1, <1>2 DEF LeftInv, OwnKnown, HeldIsNamed, OwnIds, LeftNamed
<1> QED BY <1>3, <1>4, <1>5 DEF LeftInv

\* An answer keeps it: the process knows of its session what the probe did when it answered.
LEMMA GotLeft == ASSUME KeptInv, LeftInv, Got PROVE LeftInv'
<1>1. PICK a : a = answers[Host][1]
  OBVIOUS
<1>2. at \in Waiting /\ Head(answers[Host]) = a
  <2>1. PICK q \in Seq(Answer) : q = answers[Host]
    BY KeptAssumption DEF KeptInv, ProbeInv, TypeOK
  <2>2. q # <<>> /\ Len(q) = IF at \in Waiting THEN 1 ELSE 0
    BY <2>1 DEF Got, KeptInv, MachineInv, MachineTypeOK
  <2> QED BY <1>1, <2>1, <2>2
<1>3. /\ \/ at = "open" /\ a.res = "ok" /\ hses' = opening /\ UNCHANGED <<kept, file>>
         \/ at = "end" /\ a.res = "ok" /\ hses' = NoSid /\ kept' = Empty /\ file' = Empty
         \/ a.res = "no_session" /\ hses' = NoSid /\ UNCHANGED <<kept, file>>
         \/ /\ a.res # "no_session" /\ ~(at \in {"open", "end"} /\ a.res = "ok")
            /\ UNCHANGED <<hses, kept, file>>
      /\ UNCHANGED <<session, table, prev, opening, drawn, earlier, unnamed>>
  BY <1>2 DEF Got, boundVars, pastVars
<1>4. /\ at' = IF at = "ask" /\ a.val = 1 THEN "locked"
               ELSE IF at = "reopen" /\ a.res = "ok" THEN "taken"
               ELSE IF at = "open" /\ a.res = "ok" THEN "opened"
               ELSE IF at = "room" THEN "aside" ELSE "ready"
      /\ holder' = holder
  BY <1>2, <1>3 DEF Got, After, Waiting, Previous, session
<1>5. EndRecords'
  BY <1>3, ProbeAloneRecords DEF LeftInv
<1>6. OwnKnown'
  <2>1. hses' # NoSid /\ at' # "opened" => hses' = hses /\ kept' = kept
    BY <1>3, <1>4
  <2>2. at' \in Previous => at \in {"ask", "reopen"} /\ at \in Previous /\ UNCHANGED <<kept, file>>
    BY <1>3, <1>4 DEF Previous
  <2>3. at' = "opened" => hses' = opening
    BY <1>3, <1>4
  <2>4. at \notin {"off", "opened"} /\ at' \notin {"off", "end"}
    BY <1>2, <1>4 DEF Waiting
  <2> QED BY <1>3, <2>1, <2>2, <2>3, <2>4 DEF LeftInv, OwnKnown, OwnIds
<1>7. AnswerTells'
  BY <1>1, <1>3, <1>4 DEF LeftInv, AnswerTells, Took
<1>8. HeldIsNamed'
  <2>1. UNCHANGED <<OwnIds, LeftNamed>> /\ earlier \subseteq drawn /\ at # "off" /\ at' # "off"
    BY <1>2, <1>3, <1>4 DEF OwnIds, LeftNamed, Waiting, LeftInv, OwnKnown
  <2>2. CASE at = "end" /\ a.res = "ok"
    <3>1. kept # Empty /\ holder \notin OwnIds
      BY <1>1, <2>2 DEF LeftInv, OwnKnown, AnswerTells
    <3> QED BY <1>4, <2>1, <3>1 DEF LeftInv, HeldIsNamed
  <2>3. CASE ~(at = "end" /\ a.res = "ok")
    <3>1. UNCHANGED <<kept, file, prev, opening>> /\ (Unwritten => Unwritten')
      <4>1. UNCHANGED <<kept, file, prev, opening>>
        BY <1>3, <2>3
      <4>2. Unwritten => at = "open" /\ a.res = "ok"
        BY <1>1, <1>2 DEF Unwritten, Waiting, LeftInv, AnswerTells, Took
      <4>3. (at = "open" /\ a.res = "ok") => at' = "opened"
        BY <1>4
      <4> QED BY <1>4, <4>1, <4>2, <4>3 DEF Unwritten
    <3> QED BY <1>4, <2>1, <3>1 DEF LeftInv, HeldIsNamed
  <2> QED BY <2>2, <2>3
<1> QED BY <1>5, <1>6, <1>7, <1>8 DEF LeftInv

\* A death keeps it: what the file does not name is left unnamed.
LEMMA DieLeft == ASSUME KeptInv, LeftInv, Die PROVE LeftInv'
<1>1. /\ at # "off" /\ at' = "off" /\ UNCHANGED <<session, table, drawn, earlier>> /\ holder' = holder
      /\ \/ file' = file /\ unnamed' = unnamed \cup {s \in {holder} : Unwritten}
         \/ file' = Empty /\ unnamed' = unnamed \cup ({holder} \cap HostSid)
  BY DEF Die, boundVars, session
<1>2. EndRecords'
  BY <1>1, ProbeAloneRecords DEF LeftInv
<1>3. OwnKnown' /\ AnswerTells'
  BY <1>1 DEF LeftInv, OwnKnown, AnswerTells, Took, Previous
<1>4. HeldIsNamed'
  <2>1. SUFFICES ASSUME holder \in HostSid, holder \notin unnamed' PROVE file' # Empty /\ file'.sid = holder
    BY <1>1 DEF HeldIsNamed
  <2>2. file' = file /\ ~Unwritten /\ holder \notin unnamed
    BY <1>1, <2>1
  <2>3. holder \in LeftNamed \/ holder \in OwnIds
    BY <2>1, <2>2, HolderDrawn DEF LeftNamed, OwnIds
  <2>4. CASE holder \in LeftNamed
    BY <1>1, <2>2, <2>4 DEF LeftInv, HeldIsNamed
  <2>5. CASE holder \in OwnIds
    BY <1>1, <2>2, <2>5 DEF LeftInv, HeldIsNamed, KeptInv, MachineInv, ReservedAhead
  <2> QED BY <2>3, <2>4, <2>5
<1> QED BY <1>2, <1>3, <1>4 DEF LeftInv

\* The rival and the clock keep it: they give the lock to no session of the machine.
LEMMA OthersLeft ==
  ASSUME KeptInv, LeftInv, EndRecords', UNCHANGED <<hostVars, drawn, earlier, unnamed>>,
         answers'[Host] = answers[Host], holder' = holder \/ holder' \in RivalSid \cup {NoSid}
  PROVE  LeftInv'
<1>1. UNCHANGED <<at, hses, file, kept, prev, opening>>
  BY DEF hostVars
<1>2. /\ drawn \subseteq HostSid /\ NoSid \notin HostSid /\ RivalSid \cap HostSid = {}
      /\ opening \in HostSid \cup {NoSid} /\ (at = "open" => opening \in HostSid)
  BY KeptAssumption, ProbeAssumption DEF KeptInv, MachineInv, MachineTypeOK, PhaseInv
<1>3. OwnKnown'
  BY <1>1 DEF LeftInv, OwnKnown, OwnIds
<1>4. OwnIds \subseteq HostSid /\ LeftNamed \subseteq HostSid /\ UNCHANGED <<OwnIds, LeftNamed>>
  BY <1>1, <1>2 DEF OwnIds, LeftNamed, LeftInv, OwnKnown
<1>5. AnswerTells'
  BY <1>1, <1>2, <1>4 DEF LeftInv, AnswerTells, Took
<1>6. HeldIsNamed'
  BY <1>1, <1>2, <1>4 DEF LeftInv, HeldIsNamed, Unwritten
<1> QED BY <1>3, <1>5, <1>6 DEF LeftInv

\* The rival's requests and answers, and the lease running out, are all of that kind.
LEMMA RestLeft ==
  ASSUME KeptInv, LeftInv, RivalActs \/ RivalReads \/ LeaseTick \/ UNCHANGED keptVars PROVE LeftInv'
<1>1. UNCHANGED <<hostVars, drawn, earlier, unnamed>> /\ Rival \in Route /\ Host \in Route /\ Host # Rival
  BY KeptAssumption DEF RivalActs, RivalReads, LeaseTick, boundVars, pastVars, keptVars
<1>2. CASE RivalActs
  <2>1. PICK r \in RivalRequests : Handle(Rival, r)
    BY <1>2 DEF RivalActs
  <2>2. r \in Requests /\ r.sid \in RivalSid /\ Effect(Rival, r)
    BY <1>1, <2>1, RivalRequest, RequestEffect DEF KeptInv
  <2>3. EndRecords'
    BY <1>1, <2>1, <2>2, RequestEndRecords DEF KeptInv, LeftInv
  <2>4. answers'[Host] = answers[Host]
    BY <1>1, <2>2 DEF Effect, Send, KeptInv, ProbeInv, TypeOK
  <2> QED BY <1>1, <2>2, <2>3, <2>4, OthersLeft DEF Effect
<1>3. CASE RivalReads
  <2>1. UNCHANGED <<session, table>> /\ answers'[Host] = answers[Host]
    BY <1>1, <1>3 DEF RivalReads, AnswerOut, KeptInv, ProbeInv, TypeOK
  <2> QED BY <1>1, <2>1, ProbeAloneRecords, OthersLeft DEF LeftInv, session
<1>4. CASE LeaseTick
  <2>1. holder' \in {holder, NoSid} /\ UNCHANGED <<table, answers>>
    BY <1>4, TickEffect DEF LeaseTick, KeptInv
  <2>2. EndRecords'
    BY <2>1 DEF EndRecords, LeftInv, table
  <2> QED BY <1>1, <2>1, <2>2, OthersLeft
<1>5. CASE UNCHANGED keptVars
  BY <1>1, <1>5, ProbeAloneRecords, OthersLeft DEF LeftInv, keptVars, vars, session
<1> QED BY <1>2, <1>3, <1>4, <1>5

-------------------------------------------------------------------------------
(* The theorems.                                                            *)

\* Nothing has run yet.
LEMMA KeptInit == KInit => KeptInv
<1> SUFFICES ASSUME KInit PROVE KeptInv
  OBVIOUS
<1>1. ProbeInv
  BY InitType, LockInit DEF KInit, Init, ProbeInv, RecordsInWindow
<1>2. MachineTypeOK
  <2>1. answers[Host] = <<>>
    BY KeptAssumption DEF KInit, Init
  <2>2. Len(answers[Host]) = 0 /\ 0 \in 0..CorrMax /\ {} \subseteq HostSid
    BY <2>1, CorrAssumption
  <2> QED BY <2>2 DEF KInit, MachineTypeOK, Phase, Waiting
<1>3. IdsDrawn /\ PhaseInv /\ ReservedAhead /\ EndedInv /\ RoomInv
  BY DEF KInit, Init, IdsDrawn, PhaseInv, ReservedAhead, EndedInv, RoomInv, Previous
<1> QED BY <1>1, <1>2, <1>3 DEF KeptInv, MachineInv

\* KeptInv is inductive.
LEMMA KeptNext == KeptInv /\ [KNext]_keptVars => KeptInv'
<1> SUFFICES ASSUME KeptInv, [KNext]_keptVars PROVE KeptInv'
  OBVIOUS
<1>1. CASE UNCHANGED keptVars
  <2>1. UNCHANGED <<vars, hostVars, unseen, drawn, lagged>>
    BY <1>1 DEF keptVars, boundVars
  <2>2. ProbeInv' /\ UNCHANGED <<answers, holder, last, newest>>
    BY <2>1 DEF KeptInv, ProbeInv, RecordsInWindow, TypeOK, LockInv, vars, session, table, owned,
                world, history
  <2> QED BY <2>1, <2>2, OthersKeep
<1> QED BY <1>1, RunKeeps, AskLockKeeps, OpenPreviousKeeps, EndPreviousKeeps, OpenKeeps, OpenedKeeps,
           CallKeeps, SideKeeps, UnseenKeeps, GotKeeps, DieKeeps, RivalActsKeeps, RestKeeps
        DEF KNext

\* What is known of the sessions left behind is kept by every step.
LEMMA LeftNext == KeptInv /\ LeftInv /\ [KNext]_keptVars => LeftInv'
<1> SUFFICES ASSUME KeptInv, LeftInv, [KNext]_keptVars PROVE LeftInv'
  OBVIOUS
<1> QED BY RunLeft, PreviousLeft, RequestLeft, OpenLeft, OpenedLeft, GotLeft, DieLeft, RestLeft
        DEF KNext

\* The invariant of the machine, its file, the rival and the probe holds in every reachable state.
THEOREM KeptSessionInvariant == KSpec => [](KeptInv /\ LeftInv)
<1>1. KInit => LeftInv
  <2> SUFFICES ASSUME KInit PROVE LeftInv
    OBVIOUS
  <2>1. at = "off" /\ holder = NoSid /\ resend = {} /\ earlier = {} /\ hses = NoSid /\ NoSid \notin HostSid
    BY KeptAssumption, ProbeAssumption DEF KInit, Init
  <2> QED BY <2>1 DEF LeftInv, EndRecords, OwnKnown, AnswerTells, HeldIsNamed, Took, Previous
<1> QED BY <1>1, KeptInit, KeptNext, LeftNext, PTL DEF KSpec

\* No corr a run sends is taken for an old one: the file's corr is ahead of every one the run sends
\* (KeptSession.sent), and the session's next one is ahead of what the probe remembers of it as
\* long as the room check sees every corr (Host._session_room).
THEOREM CorrsAreNew == KSpec => []CorrsStayNew
<1>1. KeptInv => CorrsStayNew
  <2> SUFFICES ASSUME KeptInv PROVE CorrsStayNew
    OBVIOUS
  <2>1. RoomKept
    BY DEF KeptInv, MachineInv, RoomInv, RoomKept
  <2> QED BY <2>1 DEF KeptInv, MachineInv, CorrsStayNew
<1> QED BY <1>1, KeptSessionInvariant, PTL

\* Whoever gets in between, when the next run comes to its own open no session of an earlier run
\* holds the lock (before_open, end_previous), whatever the file says, but one that a death left
\* with no file that names it, or one behind whose last corr the file's had fallen.
THEOREM PreviousIsEnded == KSpec => []PreviousEnded
<1>1. KeptInv /\ LeftInv => PreviousEnded
  <2>1. SUFFICES ASSUME KeptInv, LeftInv, OnItsOwn, holder \in LeftNamed PROVE lagged
    BY DEF PreviousEnded, LeftNamed
  <2>2. at \notin {"off", "previous", "ask", "locked", "reopen", "taken"}
    BY <2>1 DEF OnItsOwn
  <2>3. prev # Empty /\ prev.sid = holder
    BY <2>1, <2>2 DEF LeftInv, HeldIsNamed
  <2> QED BY <2>1, <2>2, <2>3 DEF KeptInv, MachineInv, EndedInv, Ended
<1> QED BY <1>1, KeptSessionInvariant, PTL

\* A request of the machine leaves a lock that the rival holds alone.
LEMMA RivalLockStays ==
  ASSUME KeptInv, at \notin Waiting \cup {"off"}, holder \in RivalSid,
         NEW sid, NEW op, NEW to, Sendable(sid, op), SendOne(sid, op, to)
  PROVE  holder' = holder
<1>1. MachineEffect(sid, op, to)
  BY MachineRequest
<1>2. sid # holder /\ holder # NoSid
  BY KeptAssumption, ProbeAssumption DEF Sendable
<1> QED BY <1>1, <1>2 DEF MachineEffect

\* A machine that starts again, ends what it left open and goes on with its own session takes the
\* lock of nobody else: none of its opens is forced (end_previous), its ends carry its own ids.
THEOREM OthersKeepLock == KSpec => OthersKeepTheLock
<1>1. ASSUME KeptInv, [KNext]_keptVars
      PROVE  [(holder \in RivalSid /\ holder' # holder) => at' = at]_keptVars
  <2>1. SUFFICES ASSUME KNext, holder \in RivalSid, at' # at PROVE holder' = holder
    BY <1>1
  <2>2. /\ prev # Empty => prev.sid \in HostSid /\ prev.sid # NoSid
        /\ \A s \in HostSid : s # NoSid
        /\ hses \in HostSid \cup {NoSid} /\ (at \in Previous => prev # Empty)
    BY <1>1, PreviousIsOurs, KeptAssumption, ProbeAssumption
       DEF KeptInv, MachineInv, MachineTypeOK, PhaseInv
  <2>3. CASE \/ Run \/ Opened \/ Got \/ Die
    BY <2>3 DEF Run, Opened, Got, Die, vars, session
  <2>4. CASE AskLock
    BY <1>1, <2>1, <2>4, RivalLockStays DEF AskLock, Sendable, MachineOp, Waiting
  <2>5. CASE OpenPrevious
    BY <1>1, <2>1, <2>2, <2>5, RivalLockStays DEF OpenPrevious, Sendable, MachineOp, Waiting, Previous
  <2>6. CASE EndPrevious
    BY <1>1, <2>1, <2>2, <2>6, RivalLockStays DEF EndPrevious, Sendable, MachineOp, Waiting, Previous
  <2>7. ASSUME NEW s \in HostSid, Open(s) PROVE holder' = holder
    BY <1>1, <2>1, <2>2, <2>7, RivalLockStays DEF Open, Sendable, MachineOp, Waiting
  <2>8. CASE Call
    BY <1>1, <2>1, <2>2, <2>8, RivalLockStays DEF Call, Sendable, MachineOp, Waiting
  <2>9. CASE Side
    <3>1. ~Room => hses # NoSid
      BY DEF Room
    <3> QED BY <1>1, <2>1, <2>2, <2>9, <3>1, RivalLockStays DEF Side, Sendable, MachineOp, Waiting
  <2>10. CASE Unseen
    BY <1>1, <2>1, <2>10, RivalLockStays DEF Unseen, Sendable, MachineOp, Waiting
  <2>11. CASE RivalActs \/ RivalReads \/ LeaseTick
    BY <2>1, <2>11 DEF RivalActs, RivalReads, LeaseTick, hostVars
  <2> QED BY <2>1, <2>3, <2>4, <2>5, <2>6, <2>7, <2>8, <2>9, <2>10, <2>11 DEF KNext
<1> QED BY <1>1, KeptSessionInvariant, PTL DEF KSpec, OthersKeepTheLock
===============================================================================
