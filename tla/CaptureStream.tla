------------------------------ MODULE CaptureStream ------------------------------
(***************************************************************************)
(* A host that acquires a stream (acquire.py, _collect, _stream_result,    *)
(* _Streamed): the track is subscribed and started, its notifications are  *)
(* collected (Received, capture.py) and handed, a poll's worth at a time,  *)
(* to a thread that puts the parts together as they come (_Spool); after   *)
(* the stop the rest is waited for, and the result says what was lost.     *)
(***************************************************************************)
EXTENDS CaptureProbe

CONSTANTS
  OnLoss,    \* what a loss does (Request.on_loss): "stop" or "continue"
  Octet,     \* samples the spool writes at once while more may come (8 in the code)
  MaxMoves, MaxRuns   \* bounds: subscriptions ended or renewed while a stream runs, streams

VARIABLES
  pc,      \* what the host does next
  gen,     \* the generation it knows
  zero,    \* history: when the stream's first sample was taken
  got,     \* what has been collected and not handed over (Received)
  st,      \* the last status it read
  spool,   \* the parts put together (_Spool)
  moves, runs   \* what the bounds count

streamVars == <<pc, gen, zero, got, st, spool, moves, runs>>
counted == <<zero, moves, runs>>
streamAll == <<probeVars, streamVars>>
others == <<now, input, holder, sub, since, line, taken, lost>>

Nothing == [start |-> None, data |-> <<>>, gaps |-> <<>>, infos |-> {}]
NoPart == [tick0 |-> None, at |-> 0, data |-> <<>>]   \* no part is open (cur is None)
NoSpool == [at |-> None, pending |-> <<>>, infos |-> {}, cur |-> NoPart, parts |-> <<>>, lost |-> {}, first_ns |-> None,
            last_samples |-> 0, last_end |-> 0, stopped |-> FALSE, failed |-> FALSE]
NoStatus == [state |-> "unconfigured", write_pos |-> 0, dropped |-> FALSE]

StreamInit ==
  /\ ProbeInit
  /\ pc = "off" /\ gen = 0 /\ zero = 0 /\ got = Nothing /\ st = NoStatus /\ spool = NoSpool
  /\ moves = 0 /\ runs = 0

StatusOf(c) == [state |-> c.state, write_pos |-> End(c), dropped |-> c.dropped]

-------------------------------------------------------------------------------
(* Putting the parts together (_Spool's thread).                            *)

\* _open: a part begins at p.  With its segment's record it is placed by the record's time, else by the bytes.
OpenPart(s, p) ==
  LET recs == {x \in s.infos : x.position = p}
      start == IF recs = {} THEN None ELSE (CHOOSE x \in recs : TRUE).start
      first == IF s.first_ns = None THEN start ELSE s.first_ns
      before == IF s.parts = <<>> THEN 0 ELSE s.parts[Len(s.parts)].tick0 + s.last_samples
  IN IF s.cur # NoPart THEN s
     ELSE [s EXCEPT !.first_ns = first,
                    !.cur = [tick0 |-> IF recs # {} THEN start - first ELSE before + p - s.last_end, at |-> p, data |-> <<>>]]

\* _samples: what is pending goes into the part, in whole octets while more may come, up to the end.
Samples(s, final, end) ==
  LET most == IF end = None THEN Len(s.pending) ELSE Lower(Len(s.pending), Higher(0, end - s.at))
      n == IF final THEN most ELSE (most \div Octet) * Octet
      d == OpenPart(s, s.at)
  IN IF n <= 0 THEN s
     ELSE [d EXCEPT !.cur.data = @ \o SubSeq(s.pending, 1, n), !.at = @ + n,
                    !.infos = {x \in @ : x.position >= s.at + n},
                    !.pending = IF final THEN <<>> ELSE SubSeq(@, n + 1, Len(@))]

\* _close: the part is finished.
ClosePart(s) ==
  IF s.cur = NoPart THEN s
  ELSE [s EXCEPT !.parts = Append(@, s.cur), !.last_samples = Len(s.cur.data), !.last_end = s.at, !.cur = NoPart]

\* _run: bytes from position p on.  The first may not be the stream's first; a position that does not follow ends
\* the part, and with "stop" the stream.
Run(s, p, data) ==
  LET begins == s.at = None /\ s.parts = <<>> /\ s.cur = NoPart
      closed == ClosePart(Samples(s, TRUE, None))
      on == [s EXCEPT !.at = p, !.pending = data]
  IN IF s.stopped \/ s.failed \/ data = <<>> THEN s
     ELSE CASE begins /\ p = 0 -> on
            [] begins /\ p # 0 /\ OnLoss = "stop" -> [s EXCEPT !.failed = TRUE]
            [] begins /\ p # 0 /\ OnLoss # "stop" -> [on EXCEPT !.lost = @ \cup {"first"}]
            [] ~begins /\ p = s.at + Len(s.pending) -> [s EXCEPT !.pending = @ \o data]
            [] ~begins /\ p # s.at + Len(s.pending) /\ OnLoss = "stop" -> [closed EXCEPT !.lost = @ \cup {"gap"}, !.stopped = TRUE]
            [] OTHER -> [closed EXCEPT !.lost = @ \cup {"gap"}, !.at = p, !.pending = data]

\* The gapless stretches of what was handed over: where each begins, and its bytes.
Stretches(g) ==
  LET from(k) == IF k = 0 THEN 0 ELSE g.gaps[k].index
      to(k) == IF k = Len(g.gaps) THEN Len(g.data) ELSE g.gaps[k + 1].index
      skipped(k) == FoldLeft(LAMBDA n, x : n + x.skipped, 0, SubSeq(g.gaps, 1, k))
  IN [k \in 1..(Len(g.gaps) + 1) |-> [at |-> g.start + from(k - 1) + skipped(k - 1),
                                      data |-> SubSeq(g.data, from(k - 1) + 1, to(k - 1))]]

\* _work.
Worked(s, final, end) == IF s.at = None \/ s.pending = <<>> \/ s.failed THEN s ELSE Samples(s, final, end)

\* _drain, of one item.
Drained(s, item) ==
  LET seen == [s EXCEPT !.infos = @ \cup item.infos]
  IN Worked(IF item.start = None THEN seen ELSE FoldLeft(LAMBDA d, x : Run(d, x.at, x.data), seen, Stretches(item)),
            FALSE, None)

\* ... and of the end.
Finished(s, end) == ClosePart(Worked(s, TRUE, end))

-------------------------------------------------------------------------------
(* The calls.                                                               *)

\* A call that takes the lock: it fails when the session has lost it, and the acquisition with it.
Locked(at, then) ==
  /\ pc \in at
  /\ \/ holder = "host" /\ then
     \/ /\ holder # "host" /\ pc' = "failed" /\ track' = Ticked
        /\ UNCHANGED <<holder, sub, since, gen, got, st, spool, counted>>
  /\ UNCHANGED <<now, input, line, taken, lost>>

Open ==
  /\ pc \in {"off", "done", "failed"} /\ holder # "host" /\ LockPasses("host")
  /\ UNCHANGED <<now, input, line, taken, lost, streamVars>>

Configure ==
  /\ pc \in {"off", "done", "failed"} /\ pc' = "subscribe"
  /\ holder = "host" /\ Configurable(Ticked) /\ runs < MaxRuns /\ runs' = runs + 1
  /\ \E cfg \in Configs : track' = Apply(Ticked, cfg)
  /\ got' = Nothing /\ spool' = NoSpool
  /\ UNCHANGED <<others, gen, zero, st, moves>>

\* subscribe: what waits for the old subscription is not sent any more.
Subscribe ==
  Locked({"subscribe"},
    /\ sub' = "host" /\ since' = None /\ track' = Ticked /\ pc' = "start"
    /\ UNCHANGED <<holder, gen, got, st, spool, counted>>)

StartIt ==
  Locked({"start"},
    /\ Startable(Ticked, sub # "none") /\ track' = Start(Ticked, now, FALSE, input)
    /\ gen' = track'.gen /\ zero' = now /\ pc' = "stream"
    /\ UNCHANGED <<holder, sub, since, got, st, spool, moves, runs>>)

\* The subscription ends or is renewed while the stream runs.
Resubscribe ==
  /\ moves < MaxMoves
  /\ Locked({"stream"},
       /\ sub' \in {"none", "host"} /\ since' = None /\ track' = Ticked /\ moves' = moves + 1
       /\ UNCHANGED <<holder, pc, gen, got, st, spool, zero, runs>>)

-------------------------------------------------------------------------------
(* Collecting.                                                              *)

\* The position that follows what has been collected.
Skip(g) == g.start + Len(g.data) + FoldLeft(LAMBDA n, x : n + x.skipped, 0, g.gaps)
Reached(g) == IF g.start = None THEN None ELSE Skip(g)

\* Mutant: bytes of an earlier start are counted.
TakenAny(g, f) ==
  IF g.start = None THEN [g EXCEPT !.start = f.position, !.data = f.data, !.infos = {f.info}]
  ELSE [g EXCEPT !.data = @ \o f.data, !.infos = @ \cup {f.info},
                 !.gaps = IF f.position = Skip(g) THEN @
                          ELSE Append(@, [index |-> Len(g.data), skipped |-> f.position - Skip(g)])]

\* _collect, of one frame: another generation's is dropped, a position that does not follow is a gap.
Taken(g, f) ==
  IF f.gen # gen THEN g
  ELSE IF g.start = None THEN [g EXCEPT !.start = f.position, !.data = f.data, !.infos = {f.info}]
  ELSE [g EXCEPT !.data = @ \o f.data, !.infos = @ \cup {f.info},
                 !.gaps = IF f.position = Skip(g) THEN @
                          ELSE Append(@, [index |-> Len(g.data), skipped |-> f.position - Skip(g)])]

Collect ==
  /\ pc \in {"stream", "tail"} /\ line # <<>>
  /\ got' = Taken(got, Head(line)) /\ line' = Tail(line)
  /\ UNCHANGED <<now, input, track, holder, sub, since, taken, lost, pc, gen, st, spool, counted>>

\* drop_from: no byte at or past a position is kept (of the bytes it still holds).
DropFrom(g, position) ==
  LET before(k) == FoldLeft(LAMBDA n, x : IF x.index <= k THEN n + x.skipped ELSE n, g.start, g.gaps) + k
      keep == {k \in 0..(Len(g.data) - 1) : before(k) < position}
  IN IF g.start = None THEN g
     ELSE [g EXCEPT !.data = SubSeq(@, 1, Cardinality(keep)),
                    !.gaps = SelectSeq(@, LAMBDA x : x.index < Cardinality(keep))]

\* _Spool.take: what arrived is handed over, the count of positions goes on.  The thread that puts it together sees
\* nothing else, and nobody looks at its parts before the end: it is done with an item at once.
HandOver(g) == IF g.start = None THEN g ELSE [Nothing EXCEPT !.start = Skip(g)]
PollIt ==
  /\ pc = "stream" /\ got.data # <<>>
  /\ spool' = Drained(spool, got) /\ got' = HandOver(got)
  /\ UNCHANGED <<others, track, pc, gen, st, counted>>

-------------------------------------------------------------------------------
(* The end.                                                                 *)

\* The time is over, or a loss is seen and stops it: the probe is stopped.
StopIt ==
  Locked({"stream"},
    /\ track' = Stop(Ticked, now, input) /\ pc' = "finish"
    /\ UNCHANGED <<holder, sub, since, gen, got, st, spool, counted>>)

\* finish: write_pos says how far the stream goes.  In error, nothing at or past it is data: but the stop before has
\* taken the track out of error (Stop), so that this is not met here.
Finish ==
  LET c == Ticked
  IN /\ pc = "finish" /\ track' = c /\ st' = StatusOf(c) /\ gen' = c.gen
     /\ pc' = IF c.state = "error" THEN "status" ELSE "tail"
     /\ got' = IF c.state = "error" THEN DropFrom(got, End(c)) ELSE got
     /\ UNCHANGED <<others, spool, counted>>

\* Otherwise up to write_pos, or to the end of its patience, which is longer than the probe takes to send the rest.
Hopeless == line = <<>> /\ (sub # "host" \/ Unsent(Ticked) = 0)
TailEnds ==
  /\ pc = "tail" /\ (Reached(got) = st.write_pos \/ Hopeless) /\ pc' = "status"
  /\ UNCHANGED <<others, track, gen, got, st, spool, counted>>

\* Mutant: the end is not compared with what came.
LossesSeen(seen, c, end) ==
  seen \cup (IF c.state = "error" THEN {"error"} ELSE IF c.dropped /\ seen = {} THEN {"dropped"} ELSE {})

\* What was lost, beside what was seen while the parts were put together (_Streamed.result).
Losses(seen, c, end) ==
  seen \cup (IF c.state = "error" THEN {"error"} ELSE IF c.dropped /\ seen = {} THEN {"dropped"} ELSE {})
       \cup (IF c.state # "error" /\ End(c) > end THEN {"tail"} ELSE {})

\* The status the result is made with; the rest is handed over, and where the data end (None: nowhere special).
LastStatus ==
  /\ pc = "status" /\ got' = HandOver(got)
  /\ \E c \in {Ticked}, d \in {Drained(spool, got)} :
       \E s \in {Finished(d, IF c.state = "error" THEN End(c) ELSE None)} :
         /\ track' = c /\ st' = StatusOf(c) /\ gen' = c.gen
         /\ spool' = [s EXCEPT !.lost = Losses(@, c, Higher(0, HandOver(got).start))]
         /\ pc' = IF s.failed \/ s.parts = <<>> THEN "failed" ELSE "done"
  /\ UNCHANGED <<others, counted>>

StreamSteps ==
  \/ Open \/ Configure \/ Subscribe \/ StartIt \/ Resubscribe \/ Collect \/ PollIt \/ StopIt
  \/ Finish \/ TailEnds \/ LastStatus

StreamNext == StreamSteps \/ (ProbeSteps /\ UNCHANGED streamVars)

\* The probe serves, and a host that has stopped the stream goes on to its result.
Fairness ==
  /\ WF_streamAll(pc = "tail" /\ Serve /\ UNCHANGED streamVars)
  /\ WF_streamAll((pc # "stream" /\ Collect) \/ Finish \/ TailEnds \/ LastStatus)
StreamSpec == StreamInit /\ [][StreamNext]_streamAll /\ Fairness

-------------------------------------------------------------------------------
(* What is promised.                                                        *)

Ended == pc = "done"
Parts == spool.parts \o (IF spool.cur = NoPart THEN <<>> ELSE <<spool.cur>>)

\* None of a stream started before, none twice, none moved by a gap.
BytesTrue ==
  \A k \in 1..Len(Parts) :
    LET p == Parts[k]
    IN /\ p.data = [i \in 1..Len(p.data) |-> zero + p.at + i - 1]
       /\ k < Len(Parts) => p.at + Len(p.data) < Parts[k + 1].at

\* Where only the probe has dropped bytes the stream begins again with a segment (drop_to, drop_until), so that
\* a part has a record to be placed by.
ResumesAtSegment == lost = 0 => \A k \in 1..Len(Parts) : Parts[k].at % track.samples = 0

\* The parts lie on one timeline, that of the probe's clock, if the stream was had from its first byte (_open).
PartsInTime ==
  Parts # <<>> /\ Parts[1].at = 0 => \A k \in 1..Len(Parts) : Parts[k].tick0 = Parts[k].at

\* Every byte of a part is the sample of its place on this stream, and the part begins where it can be placed and is
\* placed there (_collect's generation check and gaps, take's count of positions, _run; drop_to; _open).
PartsTrue == BytesTrue /\ ResumesAtSegment /\ PartsInTime

\* No loss is silent: a stream acquired without one, under one lock, is every byte from the first to write_pos, in one
\* part, whether a frame was lost on the line, the probe had no room or no subscriber, or it stopped by itself.
NoSilentLoss ==
  Ended /\ taken = 0 /\ spool.lost = {} => \A k \in 1..Len(Parts) : k = 1 /\ Parts[k].at = 0 /\ Len(Parts[k].data) = st.write_pos

\* A stopped stream comes to a result: the rest is sent although it is less than a batch (push_due), or waited for
\* no longer than it can come.
StreamEnds == pc = "finish" ~> pc \in {"done", "failed"}

\* "nothing at or past write_pos is data (2.2)" (acquire.py:1571, capture.py:710).
NothingPastEnd ==
  Ended => \A k \in 1..Len(Parts) : Parts[k].at + Len(Parts[k].data) <= st.write_pos
================================================================================
