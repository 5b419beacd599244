------------------------------ MODULE CaptureRead ------------------------------
(***************************************************************************)
(* A host that acquires segments: a one-shot it waits for and reads        *)
(* (LogicCapture.wait, read_segment), or a repeat whose segments it reads  *)
(* and releases while the probe takes the next (acquire.py,                *)
(* _repeat_result).  status, segments and read need no lock: they are      *)
(* answered whoever holds it by then.                                      *)
(***************************************************************************)
EXTENDS CaptureProbe

CONSTANTS
  Wanted,     \* segments a repeat is asked for (Request.segments)
  ReadMost,   \* the bytes one read is asked for
  Forcible,   \* the configurations under which the host forces a trigger
  MaxRuns     \* bound: acquisitions

ReadAssumption == ReadMost \in Nat
ASSUME ReadAssumption

VARIABLES
  pc,      \* what the host does next
  cfg,     \* what it configured
  gen,     \* the generation it knows (LogicCapture.generation)
  nxt,     \* the next serial it wants
  upto,    \* how many were finished at its last status (0: not asked yet)
  ready,   \* the records it is about to read
  buf,     \* what it has read of the first of them
  parts,   \* the acquisition so far
  began,   \* history: the generation its start was given
  forced,  \* history: the times it forced a trigger at
  runs     \* what the bound counts

readVars == <<pc, cfg, gen, nxt, upto, ready, buf, parts, began, forced, runs>>

ReadInit ==
  /\ ProbeInit
  /\ pc = "off" /\ cfg = NoConfig /\ gen = 0 /\ nxt = 0 /\ upto = 0 /\ ready = <<>> /\ buf = <<>> /\ parts = <<>> /\ began = 0 /\ forced = {}
  /\ runs = 0

Repeating == cfg.mode = "repeat"

\* A call that takes the lock: it fails when the session has lost it.
Locked(at, then) ==
  /\ pc = at
  /\ \/ holder = "host" /\ then
     \/ /\ holder # "host" /\ pc' = "failed" /\ track' = Ticked
        /\ UNCHANGED <<holder, sub, since, cfg, gen, nxt, upto, ready, buf, parts, began, forced, runs>>
  /\ UNCHANGED <<now, input, line, taken, lost>>

-------------------------------------------------------------------------------
(* Setting up.                                                              *)

Open ==
  /\ pc \in {"off", "failed", "done"} /\ holder # "host"
  /\ LockPasses("host") /\ pc' = "off"
  /\ UNCHANGED <<now, input, line, taken, lost, cfg, gen, nxt, upto, ready, buf, parts, began, forced, runs>>

\* configure forgets what was acquired before, here and on the probe.
Configure ==
  /\ pc \in {"off", "failed", "done"} /\ holder = "host" /\ runs < MaxRuns /\ Configurable(Ticked)
  /\ cfg' \in Configs /\ track' = Apply(Ticked, cfg')
  /\ pc' = "start" /\ nxt' = 0 /\ upto' = 0 /\ ready' = <<>> /\ buf' = <<>> /\ parts' = <<>> /\ runs' = runs + 1
  /\ UNCHANGED <<now, input, holder, sub, since, line, taken, lost, gen, began, forced>>

StartIt ==
  Locked("start",
    /\ Startable(Ticked, TRUE) /\ track' = Start(Ticked, now, FALSE, input)
    /\ gen' = track'.gen /\ began' = track'.gen /\ pc' = "poll"
    /\ UNCHANGED <<holder, sub, since, cfg, nxt, upto, ready, buf, parts, forced, runs>>)

\* force, while it waits for the segment.
ForceIt ==
  /\ cfg \in Forcible
  /\ Locked("poll",
       /\ track' = ForceNow(Ticked, now, Ticked.cfg.pretrigger) /\ forced' = forced \cup {now}
       /\ UNCHANGED <<holder, sub, since, pc, cfg, gen, nxt, upto, ready, buf, parts, began, runs>>)

-------------------------------------------------------------------------------
(* Waiting for segments.                                                    *)

\* status: it also tells the generation.  The next segment is there, or not yet.
Status ==
  LET c == Ticked
  IN /\ pc = "poll" /\ track' = c /\ gen' = c.gen
     /\ \/ /\ IF Repeating THEN c.done > nxt ELSE c.state = "done"
           /\ pc' = "list" /\ upto' = c.done
        \/ /\ IF Repeating THEN c.done <= nxt ELSE c.state # "done"
           /\ UNCHANGED <<pc, upto>>
     /\ UNCHANGED <<now, input, holder, sub, since, line, taken, lost, cfg, nxt, ready, buf, parts, began, forced, runs>>

\* keepalive, now and then: the lost lock is noticed.
Keepalive == Locked("poll", FALSE)

\* A repeat that fails is stopped.
Fails == IF Repeating THEN "stop" ELSE "failed"
TimesOut ==
  /\ pc = "poll" /\ pc' = Fails
  /\ UNCHANGED <<probeVars, cfg, gen, nxt, upto, ready, buf, parts, began, forced, runs>>

\* segments: what is finished from the next serial on; of a repeat, no more than the status said.
Segments ==
  LET c == Ticked
      page == IF Repeating THEN OfSerials(Page(c, nxt), 0..(upto - 1)) ELSE Page(c, nxt)
  IN /\ pc = "list" /\ track' = c /\ ready' = page /\ buf' = <<>> /\ upto' = 0
     /\ pc' = IF page # <<>> THEN "read" ELSE IF Repeating THEN "poll" ELSE "failed"
     /\ UNCHANGED <<now, input, holder, sub, since, line, taken, lost, cfg, gen, nxt, parts, began, forced, runs>>

-------------------------------------------------------------------------------
(* Reading.                                                                 *)

\* The part a record and its bytes make: after the one before, unless the probe says a time went by.
Part(s, data) ==
  LET prev == parts[Len(parts)]
  IN [start |-> s.start, samples |-> s.samples, index |-> s.index, gen |-> s.gen, data |-> data,
      tick0 |-> IF parts = <<>> THEN 0
                ELSE IF cfg.trigger = "none" /\ "gap" \notin s.flags THEN prev.tick0 + prev.samples
                ELSE s.start - parts[1].start]

\* One read of the first record's bytes, on from those it has; refused, moved on or empty ends it.
ReadBytes ==
  LET s == ready[1]
      asked == s.position + Len(buf)
      c == Ticked
      r == Read(c, s.gen, asked, Lower(ReadMost, s.samples - Len(buf)))
      whole == buf \o r.data
  IN /\ pc = "read" /\ track' = c
     /\ \/ /\ ~r.gen \/ r.gap \/ r.data = <<>>
           /\ pc' = Fails /\ UNCHANGED <<buf, parts>>
        \/ /\ r.gen /\ ~r.gap /\ r.data # <<>> /\ buf' = whole
           /\ pc' = IF Len(whole) < s.samples THEN "read" ELSE IF Repeating THEN "release" ELSE "done"
           /\ parts' = IF pc' = "done" THEN Append(parts, Part(s, whole)) ELSE parts
     /\ UNCHANGED <<now, input, holder, sub, since, line, taken, lost, cfg, gen, nxt, upto, ready, began, forced, runs>>

\* release: the segment is the host's now, and its place the probe's.
ReleaseIt ==
  LET s == ready[1]
      more == Len(parts) + 1 < Wanted
  IN Locked("release",
       \/ /\ Ticked.gen # s.gen /\ pc' = Fails /\ track' = Ticked
          /\ UNCHANGED <<holder, sub, since, cfg, gen, nxt, upto, ready, buf, parts, began, forced, runs>>
       \/ /\ Ticked.gen = s.gen /\ track' = Release(Ticked, s.serial, now)
          /\ parts' = Append(parts, Part(s, buf))
          /\ nxt' = s.serial + 1 /\ ready' = Tail(ready) /\ buf' = <<>>
          /\ pc' = IF ~more THEN "stop" ELSE IF Len(ready) > 1 THEN "read" ELSE "poll"
          /\ UNCHANGED <<holder, sub, since, cfg, gen, upto, began, forced, runs>>)

StopIt ==
  Locked("stop",
    /\ track' = Stop(Ticked, now, input) /\ pc' = "done"
    /\ UNCHANGED <<holder, sub, since, cfg, gen, nxt, upto, ready, buf, parts, began, forced, runs>>)

ReadSteps ==
  \/ Open \/ Configure \/ StartIt \/ ForceIt \/ Status \/ Keepalive \/ TimesOut \/ Segments
  \/ ReadBytes \/ ReleaseIt \/ StopIt

ReadNext == ReadSteps \/ (ProbeSteps /\ UNCHANGED readVars)
ReadSpec == ReadInit /\ [][ReadNext]_<<probeVars, readVars>>

-------------------------------------------------------------------------------
(* What is promised.                                                        *)

Times(from, n) == [k \in 1..n |-> from + k - 1]

\* The ring is what has not been released: records in the order of their serials up to the next one, their bytes
\* without a hole up to write_pos, each byte the sample of the time its record gives it (_segment, release, _clear).
RingInOrder ==
  LET n == Len(track.segs)
  IN track.cfg.mode # "streaming" =>
       /\ n <= track.cfg.segments
       /\ track.base = IF n = 0 THEN End(track) ELSE track.segs[1].position
       /\ \A k \in 1..n :
            LET s == track.segs[k]
            IN /\ s.serial = track.done - n + k - 1 /\ s.gen = track.gen
               /\ s.position + s.samples = IF k = n THEN End(track) ELSE track.segs[k + 1].position
               /\ SubSeq(track.data, s.position - track.base + 1, s.position - track.base + s.samples)
                    = Times(s.start, s.samples)

\* While the host has the lock, every finished segment it has not released is still there (release, the pause of a
\* full ring): the probe takes none into a place that is not free.
NothingUnreadGone ==
  holder = "host" /\ began = track.gen /\ Repeating /\ pc \in {"poll", "list", "read", "release", "stop"} =>
    \A serial \in nxt..(track.done - 1) : \E k \in 1..Len(track.segs) : track.segs[k].serial = serial

\* The ring keeps what was taken, in order, until it is released.
RingHolds == RingInOrder /\ NothingUnreadGone

\* A segment acquired is the samples of its record, each taken at its time, whatever was started, taken over or
\* dropped while it was read in pieces (read's generation check, ReadGap).
PartsWhole == \A k \in 1..Len(parts) : parts[k].data = Times(parts[k].start, parts[k].samples)

\* The timeline a repeat is put on is the probe's: a pause for want of a free segment is never joined up, whether it
\* fell before, between or after the host's reads (release's gap_next, _repeat_result's tick0).
PartsPlaced == \A k \in 1..Len(parts) : parts[k].tick0 = parts[k].start - parts[1].start

\* What is acquired is what was taken, when it was taken.
SegmentsTrue == PartsWhole /\ PartsPlaced

\* The input has the edge a track triggers at, at the time of its sample i.
EdgeAt(c, i) == Edge(c.cfg.trigger, High(c, i - 1, input), High(c, i, input))

\* The searches that know the sample before each they look at: the first, and with arm 1 and a pretrigger every one.
Sure(c, serial) == serial = 0 \/ (c.cfg.arm /\ c.cfg.pretrigger > 0)

TriggeredAt(time) == time \in forced \/ Edge(track.cfg.trigger, time - 1 \in input, time \in input)

\* A segment's trigger_index names the sample its trigger came at, with no more than the pretrigger before it and all
\* that was asked for after it (_triggered, _scan, rearm_after).
TriggerAtIndex ==
  \A k \in 1..Len(track.segs) :
    LET s == track.segs[k]
    IN s.index # None =>
         /\ Sure(track, s.serial) => TriggeredAt(s.start + s.index)
         /\ s.index <= track.cfg.pretrigger
         /\ "short" \notin s.flags => s.samples - s.index = track.cfg.samples - track.cfg.pretrigger

\* While a track that keeps segments looks for a trigger, no edge it could have been is behind it (_scan,
\* poll_trigger's looks at whatever times they come).
NoEdgePassed ==
  track.cfg.mode # "streaming" /\ Looking(track) /\ Sure(track, track.done) =>
    \A i \in Higher(1, Begin(track))..(track.scan - 1) : ~EdgeAt(track, i)

\* With rearm every segment has a trigger of its own, and no edge is in two segments' front (rearm_after's floor);
\* a track without a trigger has nothing to rearm.
OwnTriggers ==
  track.cfg.mode = "repeat" /\ track.cfg.rearm /\ track.cfg.trigger # "none" =>
    \A k \in 1..Len(track.segs) :
      /\ track.segs[k].index # None \/ "short" \in track.segs[k].flags
      /\ k > 1 => track.segs[k].start >= track.segs[k - 1].start + track.segs[k - 1].samples

\* A segment's trigger is its own, at the sample it names, and the first there was.
TriggersTrue == TriggerAtIndex /\ NoEdgePassed /\ OwnTriggers

\* The claim of _scan and rearm_after for every search: the trigger named is one.  It fails where the sample at the
\* end of a segment is compared with what was seen at that segment's own trigger.
RearmedTriggersTrue ==
  \A k \in 1..Len(track.segs) :
    LET s == track.segs[k] IN s.index # None => TriggeredAt(s.start + s.index)

\* A capture that was stopped, or whose ring is full, goes on only by a start or a release: no other request of the
\* host makes it take samples again (the state table of capture 3.2).
RunsOnlyWhenStarted ==
  [][track.state \in {"configured", "done", "paused", "error"} /\ track'.state \in {"waiting", "capturing"}
       => track'.gen # track.gen \/ (pc = "release" /\ track.state = "paused")]_<<probeVars, readVars>>
================================================================================
