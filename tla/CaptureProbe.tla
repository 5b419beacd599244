------------------------------ MODULE CaptureProbe ------------------------------
(***************************************************************************)
(* A probe with one capture track (endpoint.py), the lock its session is   *)
(* under and the line its notifications go out on.  One host acquires      *)
(* (CaptureRead, CaptureStream); another may take the lock from it.        *)
(***************************************************************************)
EXTENDS CaptureTrack

CONSTANTS
  Configs,       \* what the host configures, as the probe settles it
  OtherConfigs,  \* what another session configures
  Inputs,        \* sets of times, one of which is when the input is high
  Room,          \* the bytes one notification takes (max_frame)
  MinBytes, MaxDelay,   \* the subscription's batching (STREAM_MIN_BYTES, STREAM_MAX_DELAY_MS)
  ClockMax, MaxTakes, MaxLost   \* bounds: the clock, locks lost, frames lost

\* What settle lets through: counts from 1, a pretrigger below the samples except in a stream.
Settled ==
  {c \in [mode : {"one_shot", "repeat", "streaming"}, samples : Nat \ {0}, segments : Nat \ {0},
          trigger : {"none", "rise", "fall", "either", "linked"}, pretrigger : Nat, arm : BOOLEAN, rearm : BOOLEAN] :
     c.mode # "streaming" => c.pretrigger < c.samples}

ConfigAssumption == Configs \subseteq Settled /\ OtherConfigs \subseteq Settled
ASSUME ConfigAssumption

VARIABLES
  now,     \* the probe's clock (uptime_ms)
  input,   \* when the input is high
  track,   \* the capture track
  holder,  \* whose session holds the lock: "host", "other", "none"
  sub,     \* whose subscription the track has: "host", "other", "none"
  since,   \* since when bytes wait for a notification (data_since_ms), or None
  line,    \* notifications on their way to the host, oldest first
  taken, lost   \* what the bounds count

probeVars == <<now, input, track, holder, sub, since, line, taken, lost>>

ProbeInit ==
  /\ now = 0 /\ input \in Inputs
  /\ track = Fresh(0) /\ holder = "none" /\ sub = "none" /\ since = None /\ line = <<>>
  /\ taken = 0 /\ lost = 0

\* Every request lets the time pass first (_capture_tick).
Ticked == Tick(track, now, input)

Clock ==
  /\ now < ClockMax /\ now' = now + 1
  /\ UNCHANGED <<input, track, holder, sub, since, line, taken, lost>>

-------------------------------------------------------------------------------
(* The lock.                                                                *)

\* _release_lock: the plan goes and the capture with it, its subscription, its unsent notifications.
Unplanned(c) == IF c.state = "unconfigured" THEN c ELSE Fresh(c.gen)

LockPasses(to) ==
  /\ holder' = to
  /\ track' = IF holder = "none" THEN Ticked ELSE Unplanned(Ticked)
  /\ sub' = IF holder = "none" THEN sub ELSE "none"
  /\ since' = IF holder = "none" THEN since ELSE None

\* The host's lease ends, or another host forces the lock.
LockLost ==
  /\ holder = "host" /\ taken < MaxTakes /\ taken' = taken + 1
  /\ \E to \in {"none", "other"} : LockPasses(to)
  /\ UNCHANGED <<now, input, line, lost>>

\* The other session configures the track, subscribes and starts it.
OtherConfigures ==
  /\ holder = "other" /\ Configurable(Ticked)
  /\ \E cfg \in OtherConfigs : track' = Apply(Ticked, cfg)
  /\ sub' = "other"
  /\ UNCHANGED <<now, input, holder, since, line, taken, lost>>

OtherStarts ==
  /\ holder = "other" /\ Startable(Ticked, sub = "other")
  /\ track' = Start(Ticked, now, FALSE, input)
  /\ UNCHANGED <<now, input, holder, sub, since, line, taken, lost>>

-------------------------------------------------------------------------------
(* The serving loop.                                                        *)

\* Mutant: a stopped stream's rest waits for min_bytes like the rest did.
PushDueBatched(pending, age, stopped) ==
  \/ MinBytes = 0 /\ MaxDelay = 0
  \/ MinBytes > 0 /\ pending >= MinBytes
  \/ MaxDelay > 0 /\ age >= MaxDelay

\* push_due.
PushDue(pending, age, stopped) ==
  \/ stopped
  \/ MinBytes = 0 /\ MaxDelay = 0
  \/ MinBytes > 0 /\ pending >= MinBytes
  \/ MaxDelay > 0 /\ age >= MaxDelay

\* Nobody to send to: the bytes are dropped, and the segment they end in with them.
Dropped(c) ==
  LET d == DropTo(c, End(c))
  IN IF Unsent(c) = 0 THEN c ELSE [d EXCEPT !.drop_until = SegmentEndAfter(d, d.sent)]

\* Subscribed again inside a segment that was begun without: its rest goes too.
Skipped(c) == IF c.sent < c.drop_until THEN DropTo(c, Lower(c.drop_until, End(c))) ELSE c

\* pushes, at any time: c is the track by now, s what is left to send of it.
Serve ==
  \E c \in {Ticked} : \E s \in {Skipped(c)} :
    LET from == IF since = None THEN now ELSE since
        due == PushDue(Unsent(s), now - from, s.state \notin {"capturing", "paused"})
    IN /\ \/ /\ sub = "none" /\ track' = Dropped(c)
             /\ UNCHANGED <<since, line>>
          \/ /\ sub # "none" /\ Unsent(s) = 0
             /\ track' = s /\ since' = None /\ UNCHANGED line
          \/ /\ sub # "none" /\ Unsent(s) > 0 /\ due
             /\ track' = Sent(s) /\ since' = None
             /\ line' = IF sub = "host" THEN line \o Frames(s, Room) ELSE line
          \/ /\ sub # "none" /\ Unsent(s) > 0 /\ ~due
             /\ track' = s /\ since' = from /\ UNCHANGED line
       /\ UNCHANGED <<now, input, holder, sub, taken, lost>>

\* A frame broken on the line is not delivered.
FrameLost ==
  /\ lost < MaxLost /\ lost' = lost + 1
  /\ \E k \in 1..Len(line) : line' = RemoveAt(line, k)
  /\ UNCHANGED <<now, input, track, holder, sub, since, taken>>

ProbeSteps == Clock \/ LockLost \/ OtherConfigures \/ OtherStarts \/ Serve \/ FrameLost
================================================================================
