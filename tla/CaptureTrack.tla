------------------------------ MODULE CaptureTrack ------------------------------
(***************************************************************************)
(* One capture track (VirtualCapture, virtual_bench_capture.py): what each *)
(* operation makes of it.  A sample takes one tick of the clock and one    *)
(* byte; the byte of a sample is the time it was taken at, so a byte read  *)
(* tells whose it is.  A track is a record, an operation an operator from  *)
(* track to track; the time it happens at is `now`, and E holds the times  *)
(* at which the input a trigger looks at is high.                          *)
(***************************************************************************)
EXTENDS Integers, Sequences, SequencesExt

CONSTANTS
  HeldMost,  \* samples a stream may be behind the clock (held_most)
  ATick,     \* samples one tick of a stream makes at most (a_tick)
  LastGen    \* the last generation a track can be given (LAST_GENERATION)

CaptureAssumption == HeldMost \in Nat /\ ATick \in Nat \ {0} /\ LastGen \in Nat
ASSUME CaptureAssumption

None == 0 - 1   \* NONE, NO_TIME
NoConfig == [mode |-> "one_shot", samples |-> 1, segments |-> 1, trigger |-> "none", pretrigger |-> 0,
             arm |-> TRUE, rearm |-> FALSE]
Lower(x, y) == IF x < y THEN x ELSE y
Higher(x, y) == IF x < y THEN y ELSE x

-------------------------------------------------------------------------------
(* The track.                                                               *)

\* _clear: what a configure and a start forget; the generation and the flags stay.
Clear(c) ==
  [c EXCEPT !.data = <<>>, !.base = 0, !.segs = <<>>, !.done = 0, !.produced = 0, !.sent = 0, !.gap_next = FALSE,
            !.drop_until = 0, !.begin = 0, !.first = 0, !.index = None, !.committed = 0, !.floor = 0,
            !.scan = 0, !.seen = FALSE, !.rearm_waiting = FALSE]

\* A track of this generation with no plan (_new_capture, _capture_unplanned).
Fresh(gen) ==
  [state |-> "unconfigured", cfg |-> NoConfig, samples |-> 1, rearm |-> FALSE, gen |-> gen, t0 |-> 0, bound |-> FALSE,
   dropped |-> FALSE, data |-> <<>>, base |-> 0, segs |-> <<>>, done |-> 0, produced |-> 0, sent |-> 0,
   gap_next |-> FALSE, drop_until |-> 0, begin |-> 0, first |-> 0, index |-> None, committed |-> 0, floor |-> 0,
   scan |-> 0, seen |-> FALSE, rearm_waiting |-> FALSE]

Running(c) == c.state \in {"waiting", "capturing", "paused"}
End(c) == c.base + Len(c.data)                         \* write_pos
Size(c) == IF c.first > 0 THEN c.first ELSE c.samples  \* the segment being taken

\* configure: refused while bound or running (settle), else the settled values (apply).
Configurable(c) == ~c.bound /\ ~Running(c)
Apply(c, cfg) ==
  [Clear(c) EXCEPT !.state = "configured", !.cfg = cfg, !.samples = cfg.samples, !.rearm = cfg.rearm]

\* The n samples from the next one on: the times they were taken at.
Bytes(c, n) == [k \in 1..n |-> c.t0 + c.produced + k - 1]

\* _segment: n samples more are a finished segment.
Segment(c, n, index, flags) ==
  [c EXCEPT !.segs = Append(@, [serial |-> c.done, position |-> End(c), samples |-> n, start |-> c.t0 + c.produced,
                                index |-> index, gen |-> c.gen,
                                flags |-> flags \cup (IF c.gap_next THEN {"gap"} ELSE {})]),
            !.data = @ \o Bytes(c, n), !.produced = @ + n, !.done = @ + 1, !.gap_next = FALSE]

-------------------------------------------------------------------------------
(* Triggers.                                                                *)

\* _triggered: as much of the time before as there is, from the last segment's end on; a running stream goes on.
Triggered(c, sample, requested) ==
  LET index == Lower(requested, sample - c.floor)
      begin == sample - index
      samples == IF c.cfg.mode = "streaming" THEN Higher(c.samples, requested + 1) ELSE c.samples
  IN IF c.cfg.mode = "streaming" /\ c.state = "capturing" THEN c
     ELSE [c EXCEPT !.begin = IF c.state = "waiting" THEN begin ELSE @,
                    !.gap_next = IF c.state # "waiting" /\ begin # c.produced THEN TRUE ELSE @,
                    !.produced = begin, !.samples = samples, !.first = samples - requested + index, !.index = index,
                    !.rearm_waiting = FALSE, !.state = "capturing"]

\* _scan looks from `begin` on: with arm 1 once the pretrigger is there, with arm 0 at once.
Begin(c) == c.floor + (IF c.cfg.arm THEN c.cfg.pretrigger ELSE 0)
From(c) == Higher(c.scan, Begin(c))

High(c, i, E) == c.t0 + i \in E
Edge(kind, was, is) == was # is /\ (kind = "either" \/ (kind = "rise") = is)

\* What sample i is compared with: trigger_previous where the last look ended, the sample before it elsewhere.
Before(c, i, E) == IF i = c.scan THEN c.seen ELSE High(c, i - 1, E)
Hits(c, now, E) ==
  {i \in Higher(1, From(c))..(now - c.t0) : Edge(c.cfg.trigger, Before(c, i, E), High(c, i, E))}

\* What a look at the samples up to `to` keeps: where it ended, and what it saw there.
LookedTo(c, to, E) == IF to < From(c) THEN c ELSE [c EXCEPT !.scan = to + 1, !.seen = High(c, to, E)]

\* A look ends at the first hit, which is the trigger, or at the last sample elapsed.
Scanned(c, hits, now, E) ==
  IF hits = {} THEN LookedTo(c, now - c.t0, E)
  ELSE Triggered(LookedTo(c, Min(hits), E), Min(hits), c.cfg.pretrigger)

\* poll_trigger: it looks while waiting, and with rearm between repeat's segments; a linked track does not look.  (A
\* stream with rearm looks on while it captures, and only tells of what it finds.)
Looking(c) ==
  /\ c.cfg.trigger \notin {"none", "linked"}
  /\ c.state = "waiting" \/ (c.state = "capturing" /\ c.rearm_waiting)
Poll(c, now, E) == IF Looking(c) THEN Scanned(c, Hits(c, now, E), now, E) ELSE c

\* force: the trigger is now, if the track waits or its rearm_waiting is set, whatever its state.
ForceNow(c, now, pretrigger) ==
  IF c.state = "waiting" \/ c.rearm_waiting THEN Triggered(c, Higher(0, now - c.t0), pretrigger) ELSE c

\* Mutant: the next trigger may lie in the segment before.
RearmFromStart(c) == [c EXCEPT !.rearm_waiting = TRUE]

\* rearm_after: the next segment waits for its own trigger, from here on; trigger_previous stays what it was.
RearmAfter(c) == [c EXCEPT !.rearm_waiting = TRUE, !.floor = c.produced, !.scan = c.produced]

-------------------------------------------------------------------------------
(* Time passes.                                                             *)

Due(c, now) == now - c.t0           \* samples the clock has taken since the start
OneShotDue(c, now) == Due(c, now) + 1   \* one_shot_due: sample 0 counts at its time

TickOneShot(c, now) ==
  IF OneShotDue(c, now) - c.produced < Size(c) THEN c
  ELSE [Segment(c, Size(c), c.index, {}) EXCEPT !.state = "done"]

Pause(c) == IF Len(c.segs) >= c.cfg.segments THEN [c EXCEPT !.state = "paused"] ELSE c

\* The trigger is the finished segment's; the next is a whole one until it has its own.
Spent(c) == [c EXCEPT !.first = 0, !.index = None]

\* One round of repeat's loop: wait for a trigger of its own, then for the samples, then for a free segment.
RoundAfter(d, now) ==
  LET own == IF d.rearm /\ d.index # None THEN {"rearm"} ELSE {}
      s == Spent(Segment(d, Size(d), d.index, own))
  IN IF d.state # "capturing" \/ d.rearm_waiting \/ Due(d, now) - d.produced < Size(d) THEN d
     ELSE IF Len(d.segs) >= d.cfg.segments THEN [d EXCEPT !.state = "paused"]
     ELSE Pause(IF d.rearm /\ d.cfg.trigger # "none" THEN RearmAfter(s) ELSE s)
RepeatRound(c, now, E) == RoundAfter(Poll(c, now, E), now)

\* At most one round for every free segment makes one, and one more finds nothing.
TickRepeat(c, now, E) ==
  LET rounds == c.cfg.segments + 2
      after[k \in 0..rounds] == IF k = 0 THEN c ELSE RepeatRound(after[k - 1], now, E)
  IN after[rounds]

\* The segments finished and the samples in them, of a stream that has taken so many.
StreamDone(c, taken) == IF taken < Size(c) THEN 0 ELSE 1 + (taken - Size(c)) \div c.samples
StreamDoneSamples(c, done) == IF done = 0 THEN 0 ELSE Size(c) + (done - 1) * c.samples

\* _stream_samples: the samples up to the clock, at most `most`.
StreamSamples(c, now, most) ==
  LET n == Lower(Due(c, now) - c.produced, most)
      done == StreamDone(c, c.produced + n - c.begin)
  IN IF n <= 0 THEN c
     ELSE [c EXCEPT !.data = @ \o Bytes(c, n), !.produced = @ + n, !.done = done,
                    !.committed = StreamDoneSamples(c, done)]

\* overflow: a stream's bytes end where its last finished segment does; those already sent stay sent.
Overflow(c) ==
  LET keep == IF c.cfg.mode = "streaming" THEN Lower(c.committed, End(c)) ELSE End(c)
  IN [c EXCEPT !.data = SubSeq(@, 1, Higher(0, keep - c.base)), !.base = Lower(@, keep),
               !.state = "error", !.dropped = TRUE]

TickStream(c, now) ==
  IF Due(c, now) - c.produced > HeldMost THEN Overflow(c) ELSE StreamSamples(c, now, ATick)

TickCapturing(c, now, E) ==
  IF c.state # "capturing" THEN c
  ELSE CASE c.cfg.mode = "one_shot" -> TickOneShot(c, now)
         [] c.cfg.mode = "repeat" -> TickRepeat(c, now, E)
         [] c.cfg.mode = "streaming" -> TickStream(c, now)

Tick(c, now, E) == TickCapturing(Poll(c, now, E), now, E)

-------------------------------------------------------------------------------
(* Start and stop.                                                          *)

\* startable.
Startable(c, subscribed) ==
  /\ c.state # "unconfigured" /\ ~Running(c)
  /\ c.cfg.mode = "streaming" => subscribed
  /\ c.cfg.trigger = "linked" => c.bound
  /\ c.gen # LastGen

\* start: the next generation, empty; `waiting` when a group's event will start it.
Start(c, now, waiting, E) ==
  LET s == [Clear(c) EXCEPT !.gen = @ + 1, !.dropped = FALSE, !.t0 = now,
                            !.state = IF waiting \/ c.cfg.trigger # "none" THEN "waiting" ELSE "capturing"]
  IN IF waiting THEN s ELSE IF s.state = "waiting" THEN Poll(s, now, E) ELSE Tick(s, now, E)

\* The segment being taken ends here, short.
Shortened(c, now) ==
  LET due == IF c.cfg.mode = "one_shot" THEN OneShotDue(c, now) ELSE Due(c, now)
      n == Lower(Size(c) - 1, Higher(0, due - c.produced))
  IN IF Len(c.segs) >= c.cfg.segments \/ c.rearm_waiting \/ n = 0 THEN c
     ELSE Segment(c, n, IF c.index < n THEN c.index ELSE None, {"short"})

\* A stream's: every sample up to now, the last segment finished although it is short.
StreamEnded(c, now) ==
  LET s == StreamSamples(c, now, Higher(0, Due(c, now)))
  IN IF s.produced - s.begin > StreamDoneSamples(s, s.done)
     THEN [s EXCEPT !.done = @ + 1, !.committed = End(s)] ELSE s

\* _stop, the clock first; a track in error is only configured again, a stream too far behind ends in error.
Stop(c, now, E) ==
  LET d == Tick(c, now, E)
      ended == IF d.cfg.mode = "streaming" THEN StreamEnded(d, now) ELSE Shortened(d, now)
  IN IF d.state \in {"error", "waiting", "paused"} THEN [d EXCEPT !.state = "configured"]
     ELSE IF d.state # "capturing" THEN d
     ELSE IF d.cfg.mode = "streaming" /\ Due(d, now) - d.produced > HeldMost THEN Overflow(d)
     ELSE [ended EXCEPT !.state = "configured"]

-------------------------------------------------------------------------------
(* The data.                                                                *)

\* segments from a serial on (serial_page_start): none from the next one, the oldest kept for one no longer kept.
Page(c, from) ==
  LET kept == {k \in 1..Len(c.segs) : c.segs[k].serial = from}
  IN IF from = c.done THEN <<>> ELSE IF kept = {} THEN c.segs ELSE SubSeq(c.segs, Min(kept), Len(c.segs))

\* Mutant: a read of another generation is answered with this one's bytes.
ReadAny(c, gen, position, n) ==
  LET from == Higher(position, c.base)
  IN IF position >= End(c) THEN [gen |-> TRUE, at |-> End(c), gap |-> FALSE, data |-> <<>>]
     ELSE [gen |-> TRUE, at |-> from, gap |-> position < c.base,
           data |-> SubSeq(c.data, from - c.base + 1, Lower(from - c.base + n, Len(c.data)))]

\* read: of its own generation only; from write_pos on nothing, from before the kept bytes on the oldest of them.
Refused == [gen |-> FALSE, at |-> 0, gap |-> FALSE, data |-> <<>>]
Read(c, gen, position, n) ==
  LET from == Higher(position, c.base)
  IN IF gen # c.gen THEN Refused
     ELSE IF position >= End(c) THEN [gen |-> TRUE, at |-> End(c), gap |-> FALSE, data |-> <<>>]
     ELSE [gen |-> TRUE, at |-> from, gap |-> position < c.base,
           data |-> SubSeq(c.data, from - c.base + 1, Lower(from - c.base + n, Len(c.data)))]

\* The records whose serials are among S, in their order.
OfSerials(segs, S) ==
  LET some[k \in 0..Len(segs)] ==
        IF k = 0 THEN <<>> ELSE IF segs[k].serial \in S THEN Append(some[k - 1], segs[k]) ELSE some[k - 1]
  IN some[Len(segs)]

\* The ring without the segments up to a serial, and its bytes from a position on.
Freed(c, kept, to) == [c EXCEPT !.segs = kept, !.base = to, !.data = SubSeq(@, to - c.base + 1, Len(@))]
GoesOn(d, now) == [d EXCEPT !.state = "capturing", !.gap_next = TRUE, !.t0 = now - d.produced]
Releasable(c) == c.cfg.mode = "repeat" /\ c.state \in {"capturing", "paused"}

\* Mutant: one segment too many goes.
ReleaseOneMore(c, serial, now) ==
  LET kept == OfSerials(c.segs, (serial + 2)..c.done)
      d == Freed(c, kept, IF kept = <<>> THEN End(c) ELSE kept[1].position)
  IN IF ~Releasable(c) THEN c ELSE IF c.state = "paused" /\ Len(kept) < c.cfg.segments THEN GoesOn(d, now) ELSE d

\* release: repeat's segments up to a serial go; a paused track goes on from now, which the next segment says.
Release(c, serial, now) ==
  LET kept == OfSerials(c.segs, (serial + 1)..c.done)
      d == Freed(c, kept, IF kept = <<>> THEN End(c) ELSE kept[1].position)
  IN IF ~Releasable(c) THEN c ELSE IF c.state = "paused" /\ Len(kept) < c.cfg.segments THEN GoesOn(d, now) ELSE d

-------------------------------------------------------------------------------
(* A stream's way out.                                                      *)

\* stream_segment: where the segment of a byte begins, and where it ends.
SegmentAt(c, p) == IF p < Size(c) THEN 0 ELSE Size(c) + ((p - Size(c)) \div c.samples) * c.samples
SegmentEnd(c, p) == IF p < Size(c) THEN Size(c) ELSE SegmentAt(c, p) + c.samples
SegmentEndAfter(c, p) == IF p = SegmentAt(c, p) THEN p ELSE SegmentEnd(c, p)

Unsent(c) == IF c.cfg.mode = "streaming" THEN Higher(0, End(c) - c.sent) ELSE 0

\* drop_to: the bytes before p are not sent any more.
DropTo(c, p) ==
  IF p <= c.sent THEN c
  ELSE [c EXCEPT !.data = SubSeq(@, p - c.base + 1, Len(@)), !.base = p, !.sent = p, !.dropped = TRUE]

\* pushes: the unsent bytes in frames of at most `room`, none across a segment's end; then they are gone.
Frames(c, room) ==
  LET from(p) == Higher(c.sent, SegmentAt(c, p))
      cuts == SelectSeq([k \in 1..(End(c) - c.sent) |-> c.sent + k - 1], LAMBDA p : (p - from(p)) % room = 0)
      to(k) == IF k = Len(cuts) THEN End(c) ELSE cuts[k + 1]
  IN [k \in 1..Len(cuts) |->
        [gen |-> c.gen, position |-> cuts[k], data |-> SubSeq(c.data, cuts[k] - c.base + 1, to(k) - c.base),
         info |-> [position |-> SegmentAt(c, cuts[k]), start |-> c.t0 + c.begin + SegmentAt(c, cuts[k])]]]
Sent(c) == [c EXCEPT !.data = <<>>, !.base = Higher(@, End(c)), !.sent = Higher(@, End(c))]
================================================================================
