---------------------------- MODULE PipelinedLink ----------------------------
(***************************************************************************)
(* A host's link (link.py) that keeps several requests in flight           *)
(* (exchange), on each of its framings: a serial port (COBS), a USB bulk   *)
(* pair and a TCP connection (length frames), against a probe that queues  *)
(* what arrives (Endpoint.receive, process, sent) and handles it as in     *)
(* ProbeSession.                                                           *)
(*                                                                         *)
(* Frames are lost and broken, answers come late, several at a time.  What *)
(* is not answered goes again from the first such request on; a USB pair   *)
(* finds the frame boundaries again first, a TCP connection is closed and  *)
(* opened again.  The model starts with a session just opened.             *)
(***************************************************************************)
EXTENDS ProbeSession, SequencesExt

CONSTANTS
  MaxInflight,    \* requests in flight (max_inflight; the window in bytes is taken for wide enough)
  BrokenResends,  \* resends at once after a broken frame (BROKEN_RESENDS, 3 in the code)
  ConfirmTries,   \* confirms a resync or a recovery sends (tries, 3 in the code)
  Holder, Port,   \* the session that is open, the connection it was opened on
  FirstCorr,      \* the corr of its last request so far
  MaxCorrs,       \* bound: the corrs taken in all, fewer than it takes for a corr to come round
  Uses            \* bounds: the framing, the calls by their number of writes (0: a subscribe), the line's faults

Use == [framing: {"cobs", "bulk", "tcp"}, calls: Seq(Nat), faults: Nat]

ASSUME LinkAssumption ==
  /\ Uses \subseteq Use
  /\ MaxInflight \in Nat \ {0} /\ BrokenResends \in Nat /\ ConfirmTries \in Nat \ {0}
  /\ Holder \in Sid /\ Port \in Route /\ FirstCorr \in Corr
  /\ MaxCorrs \in Nat /\ MaxCorrs + 2 <= HalfRange
  /\ Fn # {}

VARIABLES
  use,       \* what is left of the bounds
  pc,        \* "idle", "exchange" (a call under way), "confirm" (the probe is looked for)
  conn,      \* the connection in use: another one after each reopen
  failed,    \* failed_transport: nothing but a confirm goes out
  pushes,    \* the host's subscription: "none", "here", "moved" (left on a closed connection: _moved)
  corr,      \* the last corr taken (Host.next_corr)
  todo, out, \* the call's requests not written yet, and those that wait for their answer (outstanding)
  again,     \* resends of the call: [waits, broken]
  confirm,   \* of a confirm phase: [after, tries, sought]
  toProbe, toHost,   \* Route -> the frames on their way
  garbled,   \* the probe has lost the boundaries of the frames that come on conn
  inbox,     \* Route -> the requests queued: [req, done] (Endpoint.routes)
  order,     \* history: the corrs of the writes that ran, in that order
  told,      \* history: what the caller was told of each write: [corr, what]
  hits, cut, \* history: faults that hit, and whether one hit a request
  doubt      \* history: requests were given up on, and no confirm was answered since

hostVars == <<pc, conn, failed, pushes, corr, todo, out, again, confirm>>
wireVars == <<toProbe, toHost, garbled, inbox>>
pastVars == <<order, told, hits, cut, doubt>>
linkVars == <<vars, use, hostVars, wireVars, pastVars>>

Torn == [torn |-> TRUE]   \* a frame that came and cannot be read
NoResends == [waits |-> 0, broken |-> 0]
NoConfirm == [after |-> "none", tries |-> 0, sought |-> 0]

Plus(c, n) == IF c + n <= CorrMax THEN c + n ELSE c + n - CorrMax

\* The corrs taken until c was.
Past(c) == IF c >= FirstCorr THEN c - FirstCorr ELSE c - FirstCorr + CorrMax
Room(n) == Past(corr) + n <= MaxCorrs

AsRequest(op, c) == [sid |-> Holder, corr |-> c, op |-> op, arg |-> IF op = "subscribe" THEN CHOOSE f \in Fn : TRUE ELSE c]

\* What the open of the session on Port has left in the probe.
LinkInit ==
  /\ holder = Holder /\ last = Holder /\ lease = LeaseDefault /\ left = LeaseDefault
  /\ boot \in BootId
  /\ LET r == [sid |-> Holder, corr |-> FirstCorr, op |-> "open", arg |-> 0]
     IN resend = {[corr |-> FirstCorr, req |-> r, ans |-> Ans(r, "ok", boot)]}
  /\ newest = FirstCorr
  /\ conns = {} /\ streams = {} /\ nextRes = 1 /\ plan = {}
  /\ subs = [f \in Fn |-> NoRoute] /\ outbox = {}
  /\ value = 0 /\ restarting = FALSE
  /\ answers = [t \in Route |-> <<>>]
  /\ ran = {} /\ reran = FALSE /\ given = {}
  /\ use \in Uses
  /\ pc = "idle" /\ conn = Port /\ failed = FALSE /\ pushes = "none" /\ corr = FirstCorr
  /\ todo = <<>> /\ out = <<>> /\ again = NoResends /\ confirm = NoConfirm
  /\ toProbe = [t \in Route |-> <<>>] /\ toHost = [t \in Route |-> <<>>]
  /\ garbled = FALSE /\ inbox = [t \in Route |-> <<>>]
  /\ order = <<>> /\ told = {} /\ hits = 0 /\ cut = FALSE /\ doubt = FALSE

-------------------------------------------------------------------------------
(* A call.                                                                  *)

\* _reopen: a connection nothing was sent on; the subscriptions stay on the one before.
Reopen ==
  /\ \E c \in Route : c # conn /\ (\A f \in Fn : subs[f] # c) /\ toProbe[c] = <<>> /\ inbox[c] = <<>> /\ conn' = c
  /\ garbled' = FALSE /\ pushes' = IF pushes = "none" THEN "none" ELSE "moved"

\* _moved is empty once its subscribe is on its way.
Subscribing == pushes' = IF pushes = "moved" THEN "here" ELSE pushes

\* The requests take their corrs; a failed transport recovers before they go out.
Begin(requests) ==
  /\ pc = "idle" /\ Room(Len(requests))
  /\ todo' = requests /\ corr' = Last(requests).corr /\ again' = NoResends
  /\ \/ /\ ~failed /\ pc' = "exchange"
        /\ Subscribing /\ UNCHANGED <<conn, garbled, confirm>>
     \/ /\ failed /\ pc' = "confirm" /\ confirm' = [NoConfirm EXCEPT !.after = "call"]
        /\ IF use.framing = "tcp" THEN Reopen ELSE Subscribing /\ UNCHANGED <<conn, garbled>>
  /\ UNCHANGED <<vars, failed, out, toProbe, toHost, inbox, pastVars>>

\* _subscribe_again: before anything else, what was left on a closed connection is subscribed to on this one.
SubscribeAgain == pushes = "moved" /\ Begin(<<AsRequest("subscribe", Plus(corr, 1))>>) /\ UNCHANGED use

Call ==
  /\ pushes # "moved" /\ use.calls # <<>>
  /\ \/ Head(use.calls) = 0 /\ Begin(<<AsRequest("subscribe", Plus(corr, 1))>>)
     \/ Head(use.calls) > 0 /\ Begin([i \in 1..Head(use.calls) |-> AsRequest("write", Plus(corr, i))])
  /\ use' = [use EXCEPT !.calls = Tail(@)]

\* As many as may be in flight go out together.
Free == IF Len(todo) < MaxInflight - Len(out) THEN Len(todo) ELSE MaxInflight - Len(out)

PutOut ==
  /\ pc = "exchange" /\ Free > 0
  /\ toProbe' = [toProbe EXCEPT ![conn] = @ \o SubSeq(todo, 1, Free)]
  /\ out' = out \o SubSeq(todo, 1, Free) /\ todo' = SubSeq(todo, Free + 1, Len(todo))
  /\ UNCHANGED <<vars, use, pc, conn, failed, pushes, corr, again, confirm, toHost, garbled, inbox, pastVars>>

-------------------------------------------------------------------------------
(* Its answers.                                                             *)

\* The corr whose answer is waited for, 0 for none.
Awaited ==
  IF pc = "exchange" /\ Free = 0 THEN Head(out).corr ELSE IF pc = "confirm" THEN confirm.sought ELSE 0

\* What is read next while the host waits.
Comes(f) == Awaited # 0 /\ toHost[conn] # <<>> /\ f = Head(toHost[conn])
Taken == toHost' = [toHost EXCEPT ![conn] = Tail(@)]
Ours(f) == f # Torn /\ f.req.corr = Awaited

TellAll(requests, what) ==
  told' = told \cup {[corr |-> r.corr, what |-> what] : r \in {s \in Range(requests) : s.op = "write"}}

ResultComes(f) ==
  /\ pc = "exchange" /\ Comes(f) /\ Ours(f) /\ Taken
  /\ TellAll(<<Head(out)>>, f.res)
  /\ pushes' = IF f.req.op = "subscribe" /\ f.res = "ok" THEN "here" ELSE pushes
  /\ out' = Tail(out)
  /\ pc' = IF Len(out) = 1 /\ todo = <<>> THEN "idle" ELSE pc
  /\ UNCHANGED <<vars, use, conn, failed, corr, todo, again, confirm, toProbe, garbled, inbox, order, hits, cut, doubt>>

\* An answer nobody waits for is read past, and what a recovery finds on a serial port.
ReadPast(f) ==
  /\ Comes(f) /\ Taken
  /\ \/ f # Torn /\ ~Ours(f)
     \/ f = Torn /\ pc = "confirm" /\ use.framing = "cobs"
  /\ UNCHANGED <<vars, use, hostVars, toProbe, garbled, inbox, pastVars>>

\* The requests without an answer go again, from the first of them on.
GoAgain == todo' = out \o todo /\ out' = <<>> /\ pc' = "exchange" /\ UNCHANGED <<failed, told>>

\* _fail_transport: the outcome of all of them is unknown.  fails: a recovery has to come before anything else.
TransportFails(fails) ==
  /\ TellAll(out \o todo, "unknown") /\ todo' = <<>> /\ out' = <<>> /\ pc' = "idle"
  /\ failed' = fails

\* A broken frame or a wait is counted: the call goes on, or the transport failed.
Missed(brokenFrame, fails) ==
  LET more == brokenFrame /\ use.framing = "cobs" /\ again.broken < BrokenResends
      spent == again.waits > 0 \/ again.broken >= BrokenResends
  IN \/ more /\ again' = [again EXCEPT !.broken = @ + 1] /\ GoAgain
     \/ ~more /\ ~spent /\ again' = [again EXCEPT !.waits = @ + 1] /\ GoAgain
     \/ ~more /\ spent /\ TransportFails(fails) /\ UNCHANGED again

\* Nothing is on its way any more, or what is comes late.
Waited ==
  \/ toProbe[conn] = <<>> /\ inbox[conn] = <<>> /\ toHost[conn] = <<>> /\ UNCHANGED <<use, hits>>
  \/ use.faults > 0 /\ use' = [use EXCEPT !.faults = @ - 1] /\ hits' = hits + 1

\* On a serial port, and on TCP after a wait, nothing is lost with it.
KeepsGoing(brokenFrame) ==
  /\ use.framing = "cobs" \/ (use.framing = "tcp" /\ ~brokenFrame)
  /\ Missed(brokenFrame, TRUE)
  /\ doubt' = (doubt \/ pc' = "idle")
  /\ UNCHANGED <<conn, pushes, confirm, garbled>>

\* resync (_recover): the boundaries of a USB pair are looked for, a TCP connection is opened again.
Resyncs(brokenFrame) ==
  /\ \/ use.framing = "bulk" /\ UNCHANGED <<conn, pushes, garbled>>
     \/ use.framing = "tcp" /\ brokenFrame /\ Reopen
  /\ pc' = "confirm" /\ confirm' = [NoConfirm EXCEPT !.after = "rest"]
  /\ UNCHANGED <<failed, todo, out, again, told, doubt>>

BrokenComes ==
  /\ pc = "exchange" /\ Comes(Torn) /\ Taken
  /\ KeepsGoing(TRUE) \/ Resyncs(TRUE)
  /\ UNCHANGED <<vars, use, corr, toProbe, inbox, order, hits, cut>>

NothingComes ==
  /\ pc = "exchange" /\ Awaited # 0 /\ Waited
  /\ KeepsGoing(FALSE) \/ Resyncs(FALSE)
  /\ UNCHANGED <<vars, corr, toProbe, toHost, inbox, order, cut>>

-------------------------------------------------------------------------------
(* Recovery: quiet input, then a confirm until its answer comes.            *)

\* What was written has arrived (_settle_before_confirm waits longer than the probe's frame gap,
\* which ends what is half read there), what has come is dropped; more may still come.
SendConfirm ==
  /\ pc = "confirm" /\ confirm.sought = 0 /\ confirm.tries < ConfirmTries
  /\ toProbe[conn] = <<>> /\ Room(1)
  /\ LET c == Plus(corr, 1)
     IN /\ toProbe' = [toProbe EXCEPT ![conn] = <<[sid |-> NoSid, corr |-> c, op |-> "confirm", arg |-> 0]>>]
        /\ corr' = c /\ confirm' = [confirm EXCEPT !.tries = @ + 1, !.sought = c]
  /\ garbled' = FALSE /\ toHost' = [toHost EXCEPT ![conn] = <<>>]
  /\ UNCHANGED <<vars, use, pc, conn, failed, pushes, todo, out, again, inbox, pastVars>>

ConfirmAnswered(f) ==
  /\ pc = "confirm" /\ Comes(f) /\ Ours(f) /\ Taken
  /\ \/ confirm.after = "call" /\ failed' = FALSE /\ pc' = "exchange" /\ UNCHANGED <<todo, out, again, told>>
     \/ confirm.after = "rest" /\ Missed(FALSE, failed)
  /\ doubt' = FALSE /\ confirm' = NoConfirm
  /\ UNCHANGED <<vars, use, conn, pushes, corr, toProbe, garbled, inbox, order, hits, cut>>

\* The next try: nothing came, or length frames broke again.
ConfirmMissed ==
  /\ pc = "confirm" /\ Awaited # 0
  /\ confirm' = [confirm EXCEPT !.sought = 0]
  /\ \/ Waited /\ UNCHANGED toHost
     \/ use.framing # "cobs" /\ Comes(Torn) /\ Taken /\ UNCHANGED <<use, hits>>
  /\ UNCHANGED <<vars, pc, conn, failed, pushes, corr, todo, out, again, toProbe, garbled, inbox, order, told, cut, doubt>>

\* ConnectionError: a call that waited for the recovery was not sent, one that was under way is given up.
NoneConfirmed ==
  /\ pc = "confirm" /\ confirm.sought = 0 /\ confirm.tries = ConfirmTries
  /\ TellAll(out \o todo, IF confirm.after = "call" THEN "not_sent" ELSE "unknown")
  /\ doubt' = TRUE
  /\ pc' = "idle" /\ todo' = <<>> /\ out' = <<>> /\ confirm' = NoConfirm
  /\ UNCHANGED <<vars, use, conn, failed, pushes, corr, again, wireVars, order, hits, cut>>

-------------------------------------------------------------------------------
(* The line and the probe.                                                  *)

Fault == use.faults > 0 /\ use' = [use EXCEPT !.faults = @ - 1] /\ hits' = hits + 1

\* A request is lost; on a USB pair the probe does not find the next frame's start then.
LoseRequest ==
  /\ Fault /\ use.framing # "tcp" /\ toProbe[conn] # <<>>
  /\ toProbe' = [toProbe EXCEPT ![conn] = Tail(@)]
  /\ garbled' = (use.framing = "bulk") /\ cut' = TRUE
  /\ UNCHANGED <<vars, hostVars, toHost, inbox, order, told, doubt>>

\* An answer is broken, or on a serial port lost altogether.
LoseAnswer ==
  /\ Fault /\ toHost[conn] # <<>> /\ Head(toHost[conn]) # Torn
  /\ \/ toHost' = [toHost EXCEPT ![conn][1] = Torn]
     \/ use.framing = "cobs" /\ Taken
  /\ UNCHANGED <<vars, hostVars, toProbe, garbled, inbox, order, told, cut, doubt>>

\* Mutant: the copy of a request that is answered is taken for one that waits.
QueuedOrKnown(c, r) == (\E i \in 1..Len(inbox[c]) : inbox[c][i].req = r) \/ r.corr = newest

Queued(c, r) == \E i \in 1..Len(inbox[c]) : inbox[c][i].req = r

\* receive: the copy of a request that waits or is being answered is dropped unexamined.
Receive(c) ==
  /\ toProbe[c] # <<>>
  /\ toProbe' = [toProbe EXCEPT ![c] = Tail(@)]
  /\ LET r == Head(toProbe[c])
         dropped == (garbled /\ c = conn) \/ Queued(c, r)
     IN \/ dropped /\ UNCHANGED inbox
        \/ ~dropped /\ inbox' = [inbox EXCEPT ![c] = Append(@, [req |-> r, done |-> FALSE])]
  /\ UNCHANGED <<vars, use, hostVars, toHost, garbled, pastVars>>

\* process: the oldest request that waits.
Process(c) ==
  \E i \in 1..Len(inbox[c]) :
    /\ ~inbox[c][i].done /\ \A j \in 1..(i - 1) : inbox[c][j].done
    /\ LET r == inbox[c][i].req
       IN /\ Handle(c, r)
          /\ order' = IF Reaches(c, r, "write") THEN Append(order, r.corr) ELSE order
    /\ inbox' = [inbox EXCEPT ![c][i].done = TRUE]
    /\ UNCHANGED <<use, hostVars, toProbe, toHost, garbled, told, hits, cut, doubt>>

\* sent: the oldest answer is out.
Sent(c) ==
  /\ inbox[c] # <<>> /\ Head(inbox[c]).done
  /\ AnswerOut(c)
  /\ inbox' = [inbox EXCEPT ![c] = Tail(@)]
  /\ toHost' = IF c = conn THEN [toHost EXCEPT ![c] = Append(@, Head(answers[c]))] ELSE toHost
  /\ UNCHANGED <<use, hostVars, toProbe, garbled, pastVars>>

\* close_route: the probe finds a connection closed; what it had not carried out is dropped.
CloseRoute(c) ==
  /\ c # conn /\ (toProbe[c] # <<>> \/ inbox[c] # <<>>)
  /\ toProbe' = [toProbe EXCEPT ![c] = <<>>] /\ inbox' = [inbox EXCEPT ![c] = <<>>]
  /\ toHost' = [toHost EXCEPT ![c] = <<>>] /\ answers' = [answers EXCEPT ![c] = <<>>]
  /\ UNCHANGED <<session, table, owned, nextRes, world, history, given, use, hostVars, garbled, pastVars>>

LinkNext ==
  \/ SubscribeAgain \/ Call \/ PutOut
  \/ toHost[conn] # <<>> /\ \E f \in {Head(toHost[conn])} : ResultComes(f) \/ ReadPast(f) \/ ConfirmAnswered(f)
  \/ BrokenComes \/ NothingComes
  \/ SendConfirm \/ ConfirmMissed \/ NoneConfirmed
  \/ LoseRequest \/ LoseAnswer
  \/ \E c \in Route : Receive(c) \/ Process(c) \/ Sent(c) \/ CloseRoute(c)

LinkSpec == LinkInit /\ [][LinkNext]_linkVars
-------------------------------------------------------------------------------
(* Properties.                                                              *)

\* Requests in flight run in the order they were given and none of them twice, however often
\* they went out and whatever was lost in between (receive, _resent).
RunsInOrder == \A i, j \in 1..Len(order) : i < j => Ahead(order[j], order[i])

\* What the caller is told of a request is so: one that succeeded ran, one that was not sent did
\* not; and where no request was lost nobody is told that a result is: the resend table holds
\* what is in flight.
ResultsAreTrue ==
  \A t \in told :
    /\ t.what = "ok" => t.corr \in Range(order)
    /\ t.what = "not_sent" => t.corr \notin Range(order)
    /\ t.what = "result_lost" => cut

\* One lost, broken or late frame never fails a call: the copies, the answers that come out of
\* order for them and the ones dropped unexamined still add up to an answer for each request.
OneFaultHarmless == \A t \in told : t.what \in {"unknown", "not_sent"} => hits >= 2

\* A subscription sends to the connection in use, or the host knows that it does not: before its
\* next request it subscribes again ("only a subscribe again moves them", host.py transport_reopened).
PushesFollow == pc = "idle" /\ pushes = "here" => failed \/ \A f \in Fn : subs[f] = conn

\* "Nothing that changes state goes out before the confirm" (resync, link.py:549): requests that
\* were given up on are followed by a confirm before the next call's.
ConfirmComesFirst == [][pc = "idle" /\ pc' = "exchange" => ~doubt]_linkVars
=============================================================================
