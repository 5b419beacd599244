----------------------------- MODULE ProbeSession -----------------------------
(***************************************************************************)
(* The probe's half of a session (src/oep_client/endpoint.py): the lock    *)
(* and its lease, the resend table, and what a session creates and loses   *)
(* with its lock: connections, console streams, the plan, subscriptions.   *)
(*                                                                         *)
(* One action is one request handled from its header to its answer         *)
(* (Endpoint.handle), one tick of the clock, or one event of the probe     *)
(* itself.  Requests come from any client and in any order: the module     *)
(* says nothing about hosts.  An answer carries the request it answers;    *)
(* only its corr, resolution and value are on the wire, the rest is for    *)
(* the properties.                                                         *)
(***************************************************************************)
EXTENDS OepCorr, FiniteSets, Sequences

CONSTANTS
  Sid, NoSid,      \* session ids, and session_id 0
  Route, NoRoute,  \* the transports requests come on
  Fn,              \* interfaces that are planned and subscribed to
  Request,         \* the requests clients send
  Watched,         \* those of them the history variable ran records
  RememberCount,   \* answers the resend table keeps (remember_count)
  Dropped,         \* stands for a request or an answer too large to keep
  LargeArg,        \* arguments that make a request longer than remember_max
  LargeVal,        \* values that make an answer longer than remember_max
  ResMax,          \* the largest resource number (0xFFFFFFFF in the code)
  MaxConns,        \* connections a wire seats (max_connections)
  LeaseMin, LeaseMax, LeaseDefault,   \* in ticks of the clock
  BootId,          \* boot_ids a restart may draw
  OutMax           \* bound: answers a route holds that are not on the wire yet

OpenOps == {"open", "force", "short", "badforce"}
LockFree == OpenOps \cup {"confirm", "lock_state", "read"}
Op == LockFree \cup
      {"keepalive", "end", "write", "connect", "detach", "stream", "close", "apply",
       "release", "subscribe", "unsubscribe", "restart", "bad", "unknown"}
Res == {"ok", "failed", "malformed", "unknown", "session_required", "no_session",
        "locked", "result_lost", "no_resource", "unavailable"}

Requests == [sid: Sid \cup {NoSid}, corr: 0..CorrMax, op: Op, arg: Nat]
Answer == [req: Requests, res: Res, val: Nat]

ASSUME ProbeAssumption ==
  /\ NoSid \notin Sid /\ NoRoute \notin Route
  /\ Dropped \notin Requests \cup Answer
  /\ Fn \subseteq Nat
  /\ Request \subseteq Requests /\ Watched \subseteq Requests
  /\ RememberCount \in Nat \ {0}
  /\ ResMax \in Nat /\ MaxConns \in Nat /\ OutMax \in Nat
  /\ LeaseMin \in Nat \ {0} /\ LeaseMax \in Nat /\ LeaseDefault \in Nat \ {0}
  /\ LeaseMin <= LeaseMax
  /\ BootId \subseteq Nat /\ BootId # {}

VARIABLES
  holder,      \* the session that holds the lock, or NoSid
  last,        \* the last session that was opened (the resend table's), or NoSid
  lease, left, \* the lease granted, and the ticks left of it
  resend,      \* the resend table: a set of entries, one per corr
  newest,      \* the last corr remembered, 0 for none
  conns,       \* live connections
  streams,     \* live console streams: [num, conn]
  nextRes,     \* the next resource number of this boot
  plan,        \* interfaces with pins assigned
  subs,        \* Fn -> the route its notifications go to, or NoRoute
  outbox,      \* interfaces with a notification not sent yet
  value,       \* what the stand-in write sets
  restarting,  \* a restart was answered and not carried out yet
  boot,        \* the boot_id
  answers,     \* Route -> the answers on their way out, oldest first
  ran,         \* history: answers to the table's session made by processing a request
  reran,       \* history: a request still in the window was processed a second time
  given        \* history: the resource numbers given out in this boot

session == <<holder, last, lease, left>>
table == <<resend, newest>>
owned == <<conns, streams, plan, subs, outbox>>
world == <<value, restarting, boot>>
history == <<ran, reran>>
vars == <<session, table, owned, nextRes, world, answers, history, given>>

Entry == [corr: 0..CorrMax, req: Requests \cup {Dropped}, ans: Answer \cup {Dropped}]

TypeOK ==
  /\ holder \in Sid \cup {NoSid} /\ last \in Sid \cup {NoSid}
  /\ lease \in Nat /\ left \in Nat
  /\ resend \subseteq Entry /\ newest \in 0..CorrMax
  /\ conns \subseteq Nat /\ streams \subseteq [num: Nat, conn: Nat] /\ nextRes \in Nat
  /\ plan \subseteq Fn /\ subs \in [Fn -> Route \cup {NoRoute}] /\ outbox \subseteq Fn
  /\ value \in Nat /\ restarting \in BOOLEAN /\ boot \in BootId
  /\ answers \in [Route -> Seq(Answer)]
  /\ ran \subseteq Answer /\ reran \in BOOLEAN /\ given \subseteq Nat

Init ==
  /\ holder = NoSid /\ last = NoSid /\ lease = LeaseDefault /\ left = 0
  /\ resend = {} /\ newest = 0
  /\ conns = {} /\ streams = {} /\ nextRes = 1 /\ plan = {}
  /\ subs = [f \in Fn |-> NoRoute] /\ outbox = {}
  /\ value = 0 /\ restarting = FALSE /\ boot \in BootId
  /\ answers = [t \in Route |-> <<>>]
  /\ ran = {} /\ reran = FALSE /\ given = {}

-------------------------------------------------------------------------------
(* The header and the resend table.                                        *)

\* _header: refused before the resend table is looked at.
HeaderFault(r) ==
  IF r.corr = 0 THEN "malformed"
  ELSE IF r.op = "unknown" THEN "unknown"
  ELSE IF r.sid = NoSid /\ r.op \notin LockFree THEN "session_required"
  ELSE "none"

Known(c) == {e \in resend : e.corr = c}

\* Mutant: the corr is not compared once the answer is no longer kept.
ResentIfKept(r) == r.sid # NoSid /\ r.sid = last /\ Known(r.corr) # {}

\* Mutant: only the holder's requests are looked up, not the last session's.
ResentIfHeld(r) == r.sid = holder /\ (Known(r.corr) # {} \/ (newest # 0 /\ ~Ahead(r.corr, newest)))

\* _resent finds an answer for r: only for the last session's requests.
Resent(r) ==
  /\ r.sid # NoSid /\ r.sid = last
  /\ Known(r.corr) # {} \/ (newest # 0 /\ ~Ahead(r.corr, newest))

Ans(r, res, val) == [req |-> r, res |-> res, val |-> val]

\* The answer _resent gives: the one kept, malformed for other bytes under a kept corr,
\* result_lost when one of the two was too large to keep or the corr is not ahead.
ResentAnswer(r) ==
  IF Known(r.corr) = {} THEN Ans(r, "result_lost", 0)
  ELSE LET e == CHOOSE k \in Known(r.corr) : TRUE
       IN IF e.req = Dropped THEN Ans(r, "result_lost", 0)
          ELSE IF e.req # r THEN Ans(r, "malformed", 0)
          ELSE IF e.ans = Dropped THEN Ans(r, "result_lost", 0)
          ELSE e.ans

\* Mutant: one answer fewer is kept.
KeptOneLess(entries, r, a) ==
  LET e    == [corr |-> r.corr, req |-> r, ans |-> a]
      live == {k \in entries : k.corr # r.corr /\ InWindow(r.corr, k.corr)} \cup {e}
  IN {k \in live : Cardinality({m \in live : Diff(r.corr, m.corr) < Diff(r.corr, k.corr)})
                     < RememberCount - 1}

\* _remember: the record of r, the records half the space behind it dropped, then the
\* oldest dropped beyond RememberCount.  A new corr is always ahead of the kept ones, so the
\* table's order (oldest first) is the order of the corrs and the table is a set here.
Kept(entries, r, a) ==
  LET e    == [corr |-> r.corr,
               req  |-> IF r.arg \in LargeArg THEN Dropped ELSE r,
               ans  |-> IF a.val \in LargeVal THEN Dropped ELSE a]
      live == {k \in entries : k.corr # r.corr /\ InWindow(r.corr, k.corr)} \cup {e}
  IN {k \in live : Cardinality({m \in live : Diff(r.corr, m.corr) < Diff(r.corr, k.corr)})
                     < RememberCount}

Send(t, a) == answers' = [answers EXCEPT ![t] = Append(@, a)]

NewLock == holder' # NoSid /\ holder' # holder

\* Mutant: a new lock keeps the table of the session before.
SettleKeepsTable(t, r, a) ==
  /\ Send(t, a)
  /\ left' = IF r.sid # NoSid /\ r.sid = holder' THEN lease' ELSE IF holder' = NoSid THEN 0 ELSE left
  /\ IF r.sid # NoSid /\ r.sid = last'
     THEN LET before == IF NewLock THEN {} ELSE ran
          IN /\ resend' = Kept(resend, r, a)
             /\ newest' = r.corr
             /\ ran' = {b \in before : InWindow(r.corr, b.req.corr)} \cup {b \in {a} : r \in Watched}
             /\ reran' = (reran \/ \E b \in before : b.req.corr = r.corr)
     ELSE UNCHANGED <<resend, newest, ran, reran>>

\* The end of handle for a request that passed the table: the holder's answer restarts its
\* lease, and the answer of the last session's request is remembered.  A new lock starts
\* from an empty table.
Settle(t, r, a) ==
  /\ Send(t, a)
  /\ left' = IF r.sid # NoSid /\ r.sid = holder' THEN lease'
             ELSE IF holder' = NoSid THEN 0 ELSE left
  /\ IF r.sid # NoSid /\ r.sid = last'
     THEN LET before == IF NewLock THEN {} ELSE ran
          IN /\ resend' = Kept(IF NewLock THEN {} ELSE resend, r, a)
             /\ newest' = r.corr
             /\ ran' = {b \in before : InWindow(r.corr, b.req.corr)} \cup {b \in {a} : r \in Watched}
             /\ reran' = (reran \/ \E b \in before : b.req.corr = r.corr)
     ELSE UNCHANGED <<resend, newest, ran, reran>>

\* A request that reaches its operation (or the session check before it).
Fresh(t, r) ==
  /\ ~restarting
  /\ Len(answers[t]) < OutMax
  /\ HeaderFault(r) = "none"
  /\ ~Resent(r)

HandleHeaderFault(t, r) ==
  /\ ~restarting
  /\ Len(answers[t]) < OutMax
  /\ HeaderFault(r) # "none"
  /\ Send(t, Ans(r, HeaderFault(r), 0))
  /\ UNCHANGED <<session, table, owned, nextRes, world, history, given>>

\* Mutant: an answer given again restarts the holder's lease.
HandleResentRenews(t, r) ==
  /\ ~restarting /\ Len(answers[t]) < OutMax
  /\ HeaderFault(r) = "none" /\ Resent(r)
  /\ Send(t, ResentAnswer(r))
  /\ left' = IF r.sid = holder THEN lease ELSE left
  /\ UNCHANGED <<holder, last, lease, table, owned, nextRes, world, history, given>>

HandleResent(t, r) ==
  /\ ~restarting
  /\ Len(answers[t]) < OutMax
  /\ HeaderFault(r) = "none"
  /\ Resent(r)
  /\ Send(t, ResentAnswer(r))
  /\ UNCHANGED <<session, table, owned, nextRes, world, history, given>>

-------------------------------------------------------------------------------
(* What the lock's end releases.                                            *)

Subscribed == {f \in Fn : subs[f] # NoRoute}

\* _release_lock, without the lock itself: subscriptions with their unsent notifications,
\* the plan, the streams and then the connections.
ReleaseOwned ==
  /\ outbox' = outbox \ Subscribed
  /\ subs' = [f \in Fn |-> NoRoute]
  /\ plan' = {}
  /\ streams' = {}
  /\ conns' = {}

\* _close_conn: the connection's streams go with it.
CloseConns(gone) ==
  /\ streams' = {s \in streams : s.conn \notin gone}
  /\ conns' = conns \ gone
  /\ UNCHANGED <<plan, subs, outbox>>

\* Mutant: the numbers wrap at ResMax.
NewNumberWraps(n) == n = nextRes /\ nextRes' = (n % ResMax) + 1 /\ given' = given \cup {n}

\* _new_resource: one number space for connections and streams, never reused in a boot.
NewNumber(n) ==
  /\ nextRes <= ResMax
  /\ n = nextRes
  /\ nextRes' = n + 1
  /\ given' = given \cup {n}

-------------------------------------------------------------------------------
(* open: the decision table of the lock.                                    *)

\* Mutant: an id that has just ended may open again.
OpenFaultForgets(r) ==
  IF r.sid = NoSid THEN "malformed"
  ELSE IF holder # NoSid /\ holder # r.sid /\ r.op \notin {"force", "badforce"} THEN "locked"
  ELSE IF r.op \in {"short", "badforce"} THEN "malformed"
  ELSE "none"

OpenFault(r) ==
  IF r.sid = NoSid THEN "malformed"
  ELSE IF holder = NoSid /\ r.sid = last THEN "no_session"
  ELSE IF holder # NoSid /\ holder # r.sid /\ r.op \notin {"force", "badforce"} THEN "locked"
  ELSE IF r.op \in {"short", "badforce"} THEN "malformed"
  ELSE "none"

\* The lease granted for the one asked: 0 the default, else rounded into the range.
Lease(asked) ==
  IF asked = 0 THEN LeaseDefault
  ELSE IF asked < LeaseMin THEN LeaseMin
  ELSE IF asked > LeaseMax THEN LeaseMax ELSE asked

OpenRefused(t, r) ==
  /\ r.op \in OpenOps
  /\ Fresh(t, r)
  /\ OpenFault(r) # "none"
  /\ UNCHANGED <<holder, last, lease, owned, nextRes, world, given>>
  /\ Settle(t, r, Ans(r, OpenFault(r), 0))

\* Mutant: a forced open takes what the other session had.
OpenTakenWithAll(t, r) ==
  /\ r.op \in OpenOps /\ Fresh(t, r) /\ OpenFault(r) = "none"
  /\ holder' = r.sid /\ last' = r.sid /\ lease' = Lease(r.arg)
  /\ UNCHANGED <<owned, nextRes, world, given>>
  /\ Settle(t, r, Ans(r, "ok", boot))

\* The holder's own open again keeps everything; a forced one releases the other session
\* first; with the lock free there is nothing to release.
OpenTaken(t, r) ==
  /\ r.op \in OpenOps
  /\ Fresh(t, r)
  /\ OpenFault(r) = "none"
  /\ holder' = r.sid
  /\ last' = r.sid
  /\ lease' = Lease(r.arg)
  /\ \/ holder = r.sid /\ UNCHANGED owned
     \/ holder \notin {NoSid, r.sid} /\ ReleaseOwned
     \/ holder = NoSid /\ subs' = [f \in Fn |-> NoRoute] /\ UNCHANGED <<conns, streams, plan, outbox>>
  /\ UNCHANGED <<nextRes, world, given>>
  /\ Settle(t, r, Ans(r, "ok", boot))

-------------------------------------------------------------------------------
(* Every other operation: the session check, then the operation.            *)

Admitted(r) == r.sid = NoSid \/ r.sid = holder

\* _check: no session holds the lock, or another one does.
NotAdmitted(t, r) ==
  /\ r.op \notin OpenOps
  /\ Fresh(t, r)
  /\ ~Admitted(r)
  /\ UNCHANGED <<holder, last, lease, owned, nextRes, world, given>>
  /\ Settle(t, r, Ans(r, IF holder = NoSid THEN "no_session" ELSE "locked", 0))

Reaches(t, r, op) == r.op = op /\ Fresh(t, r) /\ Admitted(r)

\* An operation that changes nothing but the answer.
Answered(t, r, res, val) ==
  /\ UNCHANGED <<holder, last, lease, owned, nextRes, world, given>>
  /\ Settle(t, r, Ans(r, res, val))

Confirm(t, r) == Reaches(t, r, "confirm") /\ Answered(t, r, "ok", boot)
LockState(t, r) == Reaches(t, r, "lock_state") /\ Answered(t, r, "ok", IF holder = NoSid THEN 0 ELSE 1)
Keepalive(t, r) == Reaches(t, r, "keepalive") /\ Answered(t, r, "ok", 0)
Read(t, r) == Reaches(t, r, "read") /\ Answered(t, r, "ok", value)
\* A payload the operation refuses: every check comes before any change.
Bad(t, r) == Reaches(t, r, "bad") /\ Answered(t, r, "malformed", 0)

Write(t, r) ==
  /\ Reaches(t, r, "write")
  /\ value' = r.arg
  /\ UNCHANGED <<holder, last, lease, owned, nextRes, restarting, boot, given>>
  /\ Settle(t, r, Ans(r, "ok", 0))

End(t, r) ==
  /\ Reaches(t, r, "end")
  /\ holder' = NoSid
  /\ ReleaseOwned
  /\ UNCHANGED <<last, lease, nextRes, world, given>>
  /\ Settle(t, r, Ans(r, "ok", 0))

\* oep.probe.restart: answered first, carried out once the answer is out (Restarts).
Restart(t, r) ==
  /\ Reaches(t, r, "restart")
  /\ restarting' = TRUE
  /\ UNCHANGED <<holder, last, lease, owned, nextRes, value, boot, given>>
  /\ Settle(t, r, Ans(r, "ok", 0))

-------------------------------------------------------------------------------
(* Connections and console streams.                                         *)

\* attach: refused at the wire's limit and when the numbers are spent; else the pins may be
\* busy, the target may not answer, or the connection is made.
Attach(t, r) ==
  /\ Reaches(t, r, "connect")
  /\ UNCHANGED <<holder, last, lease, streams, plan, subs, outbox, world>>
  /\ \/ /\ UNCHANGED <<conns, nextRes, given>>
        /\ Settle(t, r, Ans(r, "unavailable", 0))
     \/ /\ Cardinality(conns) < MaxConns /\ nextRes <= ResMax
        /\ UNCHANGED <<conns, nextRes, given>>
        /\ Settle(t, r, Ans(r, "failed", 0))
     \/ /\ Cardinality(conns) < MaxConns
        /\ \E n \in {nextRes} : NewNumber(n) /\ conns' = conns \cup {n} /\ Settle(t, r, Ans(r, "ok", n))

\* _connection / _stream: why a resource number is refused, for the kind that is asked.
NumberFault(n, kind, other) ==
  IF n \in kind THEN "none" ELSE IF n \in other THEN "unavailable" ELSE "no_resource"

StreamNums == {s.num : s \in streams}
Streaming(c) == \E s \in streams : s.conn = c

Detach(t, r) ==
  /\ Reaches(t, r, "detach")
  /\ UNCHANGED <<holder, last, lease, nextRes, world, given>>
  /\ LET fault == NumberFault(r.arg, conns, StreamNums)
     IN \/ fault # "none" /\ UNCHANGED owned /\ Settle(t, r, Ans(r, fault, 0))
        \/ fault = "none" /\ CloseConns({r.arg}) /\ Settle(t, r, Ans(r, "ok", 0))

\* console open: one live stream a connection.
StreamFault(c) ==
  IF NumberFault(c, conns, StreamNums) # "none" THEN NumberFault(c, conns, StreamNums)
  ELSE IF Streaming(c) \/ nextRes > ResMax THEN "unavailable" ELSE "none"

StreamOpen(t, r) ==
  /\ Reaches(t, r, "stream")
  /\ UNCHANGED <<holder, last, lease, conns, plan, subs, outbox, world>>
  /\ LET fault == StreamFault(r.arg)
     IN \/ /\ fault # "none"
           /\ UNCHANGED <<streams, nextRes, given>>
           /\ Settle(t, r, Ans(r, fault, 0))
        \/ /\ fault = "none"
           /\ \E n \in {nextRes} : /\ NewNumber(n)
                                   /\ streams' = streams \cup {[num |-> n, conn |-> r.arg]}
                                   /\ Settle(t, r, Ans(r, "ok", n))

StreamClose(t, r) ==
  /\ Reaches(t, r, "close")
  /\ UNCHANGED <<holder, last, lease, conns, plan, subs, outbox, nextRes, world, given>>
  /\ LET fault == NumberFault(r.arg, StreamNums, conns)
     IN \/ fault # "none" /\ UNCHANGED streams /\ Settle(t, r, Ans(r, fault, 0))
        \/ fault = "none" /\ streams' = {s \in streams : s.num # r.arg} /\ Settle(t, r, Ans(r, "ok", 0))

-------------------------------------------------------------------------------
(* The plan and the subscriptions.                                          *)

\* plan_apply / plan_release of one interface; which pins it names is the plan's own matter.
PlanApply(t, r) ==
  /\ Reaches(t, r, "apply") /\ r.arg \in Fn
  /\ UNCHANGED <<holder, last, lease, conns, streams, subs, outbox, nextRes, world, given>>
  /\ \/ UNCHANGED plan /\ Settle(t, r, Ans(r, "unavailable", 0))
     \/ plan' = plan \cup {r.arg} /\ Settle(t, r, Ans(r, "ok", 0))

PlanRelease(t, r) ==
  /\ Reaches(t, r, "release") /\ r.arg \in Fn
  /\ UNCHANGED <<holder, last, lease, conns, streams, subs, outbox, nextRes, world, given>>
  /\ \/ r.arg \in plan /\ UNCHANGED plan /\ Settle(t, r, Ans(r, "unavailable", 0))
     \/ plan' = plan \ {r.arg} /\ Settle(t, r, Ans(r, "ok", 0))

\* subscribe replaces the interface's subscription; both drop what was not sent yet.
Subscribe(t, r) ==
  /\ Reaches(t, r, "subscribe") /\ r.arg \in Fn
  /\ subs' = [subs EXCEPT ![r.arg] = t]
  /\ outbox' = outbox \ {r.arg}
  /\ UNCHANGED <<holder, last, lease, conns, streams, plan, nextRes, world, given>>
  /\ Settle(t, r, Ans(r, "ok", 0))

\* Mutant: what was not sent yet stays.
UnsubscribeKeepsUnsent(t, r) ==
  /\ Reaches(t, r, "unsubscribe") /\ r.arg \in Fn
  /\ subs' = [subs EXCEPT ![r.arg] = NoRoute]
  /\ UNCHANGED <<holder, last, lease, conns, streams, plan, outbox, nextRes, world, given>>
  /\ Settle(t, r, Ans(r, "ok", 0))

Unsubscribe(t, r) ==
  /\ Reaches(t, r, "unsubscribe") /\ r.arg \in Fn
  /\ subs' = [subs EXCEPT ![r.arg] = NoRoute]
  /\ outbox' = outbox \ {r.arg}
  /\ UNCHANGED <<holder, last, lease, conns, streams, plan, nextRes, world, given>>
  /\ Settle(t, r, Ans(r, "ok", 0))

-------------------------------------------------------------------------------
(* The probe's own steps.                                                   *)

\* Mutant: the last tick of a lease never comes.
TickShort ==
  /\ left > 1 /\ left' = left - 1
  /\ UNCHANGED <<holder, owned, last, lease, table, nextRes, world, answers, history, given>>

\* A tick of the clock; the lock goes when the lease has run out (_lapse: at the latest
\* before the next request is looked at), the last id and its table stay.
Tick ==
  /\ left > 0
  /\ left' = left - 1
  /\ \/ left > 1 /\ UNCHANGED <<holder, owned>>
     \/ left = 1 /\ holder' = NoSid /\ ReleaseOwned
  /\ UNCHANGED <<last, lease, table, nextRes, world, answers, history, given>>

\* A target's line is lost: its connection and its streams close (lose).
LineLost(c) ==
  /\ c \in conns
  /\ CloseConns({c})
  /\ UNCHANGED <<session, table, nextRes, world, answers, history, given>>

\* An event of a subscribed interface waits to go out; it goes to its subscriber's route.
Notify(f) ==
  /\ subs[f] # NoRoute
  /\ outbox' = outbox \cup {f}
  /\ UNCHANGED <<session, table, conns, streams, plan, subs, nextRes, world, answers, history, given>>

PushOut ==
  /\ ~restarting /\ outbox # {}
  /\ outbox' = {}
  /\ UNCHANGED <<session, table, conns, streams, plan, subs, nextRes, world, answers, history, given>>

\* reboot: the restart that was answered, or the power.  A boot_id source may repeat.
Reboot(b) ==
  /\ boot' = b
  /\ holder' = NoSid /\ last' = NoSid /\ lease' = LeaseDefault /\ left' = 0
  /\ resend' = {} /\ newest' = 0
  /\ conns' = {} /\ streams' = {} /\ nextRes' = 1 /\ plan' = {}
  /\ subs' = [f \in Fn |-> NoRoute] /\ outbox' = {}
  /\ value' = 0 /\ restarting' = FALSE
  /\ ran' = {} /\ reran' = FALSE /\ given' = {}
  /\ UNCHANGED answers

\* A transport puts its oldest answer on the wire (sent).
AnswerOut(t) ==
  /\ answers[t] # <<>>
  /\ answers' = [answers EXCEPT ![t] = Tail(@)]
  /\ UNCHANGED <<session, table, owned, nextRes, world, history, given>>

-------------------------------------------------------------------------------
Handle(t, r) ==
  \/ HandleHeaderFault(t, r) \/ HandleResent(t, r)
  \/ OpenRefused(t, r) \/ OpenTaken(t, r) \/ NotAdmitted(t, r)
  \/ Confirm(t, r) \/ LockState(t, r) \/ Keepalive(t, r) \/ Read(t, r) \/ Bad(t, r)
  \/ Write(t, r) \/ End(t, r) \/ Restart(t, r)
  \/ Attach(t, r) \/ Detach(t, r) \/ StreamOpen(t, r) \/ StreamClose(t, r)
  \/ PlanApply(t, r) \/ PlanRelease(t, r) \/ Subscribe(t, r) \/ Unsubscribe(t, r)

Own ==
  \/ Tick
  \/ \E c \in conns : LineLost(c)
  \/ \E f \in Fn : Notify(f)
  \/ PushOut
  \/ \E b \in BootId : Reboot(b)

Next ==
  \/ \E t \in Route, r \in Request : Handle(t, r)
  \/ \E t \in Route : AnswerOut(t)
  \/ Own

Spec == Init /\ [][Next]_vars

-------------------------------------------------------------------------------
(* Properties.                                                              *)

\* Everything that is live belongs to the session that holds the lock now: with the lock free
\* there is none of it, and the holder is the session the resend table is for.
OwnedByHolder ==
  /\ holder = NoSid => conns = {} /\ streams = {} /\ plan = {} /\ Subscribed = {} /\ left = 0
  /\ holder # NoSid => holder = last /\ left \in 1..lease

\* When the lock changes hands nothing of the session before is left.
HandedOverEmpty ==
  holder' # holder =>
    /\ conns' = {} /\ streams' = {} /\ plan' = {} /\ outbox' = {}
    /\ \A f \in Fn : subs'[f] = NoRoute

\* Nothing passes from one session to the next: whenever the lock changes hands - end, expiry,
\* force, restart - the new holder starts with nothing, unsent notifications included.
NothingPassesOn == [][HandedOverEmpty]_vars

\* A notification waits only for an interface that has a subscriber to send it to.
NotificationsHaveSubscriber == outbox \subseteq Subscribed

\* A console stream lives on a live connection, at most one on each, and no number names both.
StreamsOnConnections ==
  /\ \A s \in streams : s.conn \in conns
  /\ \A s, u \in streams : s.conn = u.conn => s = u
  /\ StreamNums \cap conns = {}

\* What the session has is connected to something: no stream and no notification outlives what it is for.
LiveThingsWired == NotificationsHaveSubscriber /\ StreamsOnConnections

\* All that is live is the holder's and wired to something that is live too.
LiveThingsOwned == OwnedByHolder /\ LiveThingsWired

\* A connection or a stream that is new in this step has a number nothing had before.
FreshNumbers ==
  \A n \in (conns' \cup {s.num : s \in streams'}) \ (conns \cup StreamNums) : n \notin given

\* Two things are never known by one number in a boot, whichever of them is gone by then.
NumbersNotReused == [][FreshNumbers]_vars

\* A request of the table's session is processed at most once while its corr can still be
\* told apart from a new one: a copy that comes later never runs it again.
AtMostOnce == ~reran

\* The resend table says what was answered: every answer it would give out again is the one
\* the request got when it was processed.
TableIsTrue ==
  \A e \in resend : (e.req \in Watched /\ e.ans # Dropped) => e.ans \in ran /\ e.ans.req = e.req

\* A request answered now that is still in the record of processing gets what it got then, or
\* result_lost.
SameVerdict ==
  \A t \in Route : Len(answers'[t]) > Len(answers[t]) =>
    LET a == answers'[t][Len(answers'[t])]
    IN (\E b \in ran : b.req = a.req) => a \in ran \/ a.res = "result_lost"

\* A copy of a request that was processed gets the answer of that processing again or
\* result_lost, whatever happened to the lock in between; never a fresh verdict.
OneVerdict == [][SameVerdict]_vars

\* An answer given out again does not restart the lease: it grows only with a request
\* of the holder that is processed and remembered, or with a new lock.
LeaseRenewal == left' > left => newest' # newest \/ holder' # holder
LeaseGrowsByProcessing == [][LeaseRenewal]_vars

\* What the lock's owner has created, by kind and number.
Possessions ==
  ({"conn"} \X conns) \cup ({"stream"} \X StreamNums) \cup ({"plan"} \X plan)
    \cup ({"sub"} \X Subscribed) \cup ({"note"} \X outbox)

Lock == INSTANCE SessionLock WITH
  owner <- holder, ended <- last, mine <- Possessions, next <- nextRes

\* The probe keeps the promise of SessionLock.
ImplementsLock == Lock!Spec
=============================================================================
