-------------------------- MODULE CaptureProofs --------------------------
(***************************************************************************)
(* What holds of a capture track and of a host that acquires segments from *)
(* it, for every configuration, time, input, size of read and number of    *)
(* acquisitions, whoever takes the lock from the host and starts the track *)
(* for itself.                                                             *)
(*                                                                         *)
(* The track: every operation keeps the segments of its ring in their      *)
(* places, each byte is the sample of the time its record gives it (Good), *)
(* what was kept is still there later (Later), and a segment's trigger is  *)
(* one of those that came (Marks).  TickRepeat and OfSerials are recursive *)
(* functions.  What they return is proved by a least counterexample        *)
(* (LeastOf): there are functions that satisfy the recursion (RunExists,   *)
(* ChoiceExists), and the first step at which such a function breaks a     *)
(* property would break it by itself.                                      *)
(*                                                                         *)
(* The host: under its lock the track is the one it started, and the       *)
(* records it reads next are in the ring, from the serial it wants on      *)
(* (HostTrack).  Whatever the track is by then, a read of a record's       *)
(* generation is answered with that record's samples or with none          *)
(* (Readable).  What follows the last part begins where that ends, or says *)
(* a gap (Follows).  The triggers of the ring's segments are edges of the  *)
(* input or forced ones, where the search knew the sample before each it   *)
(* looked at (Told), of a host that forces no rearming repeat (MarksInv).  *)
(***************************************************************************)
EXTENDS CaptureRead, TLAPS, SequenceTheorems, WellFoundedInduction

---------------------------------------------------------------------------
(* One track. *)

\* What a record of a segment is (Segment).
Record == [serial : Int, position : Nat, samples : Nat \ {0}, start : Int, index : Int, gen : Nat, flags : SUBSET {"gap", "rearm", "short"}]

\* The states of the state table.
States == {"unconfigured", "configured", "waiting", "capturing", "paused", "done", "error"}

\* A track.
Track ==
  [state : States, cfg : Settled, samples : Nat \ {0}, rearm : BOOLEAN, gen : Nat, t0 : Int, bound : BOOLEAN,
   dropped : BOOLEAN, data : Seq(Int), base : Int, segs : Seq(Record), done : Int, produced : Int, sent : Int,
   gap_next : BOOLEAN, drop_until : Int, begin : Int, first : Int, index : Int, committed : Int, floor : Int,
   scan : Int, seen : BOOLEAN, rearm_waiting : BOOLEAN]

\* A track in streaming mode keeps no segments.
Streams(c) == c.cfg.mode = "streaming"

\* The kept bytes a record names are the samples of the times it gives them.
Names(c, s) == \A i \in 1..s.samples : s.position + i > c.base => c.data[s.position - c.base + i] = s.start + i - 1

\* A segment of the ring: in its place among the bytes and the serials.
Placed(c, k) ==
  LET s == c.segs[k]
      n == Len(c.segs)
  IN /\ s.serial = c.done - n + k - 1 /\ s.gen = c.gen
     /\ c.base <= s.position /\ s.position + s.samples <= End(c)
     /\ s.position + s.samples = IF k = n THEN End(c) ELSE c.segs[k + 1].position
     /\ Names(c, s)

\* The ring of a track that keeps its segments.
Ring(c) ==
  /\ Len(c.segs) <= c.cfg.segments
  /\ c.base >= 0 /\ c.base = IF Len(c.segs) = 0 THEN End(c) ELSE c.segs[1].position
  /\ \A k \in 1..Len(c.segs) : Placed(c, k)
  /\ c.sent = 0 /\ c.drop_until = 0

\* What it counts: the samples asked for, and the times they were taken at.
Counts(c, t) ==
  /\ c.samples = c.cfg.samples /\ c.rearm = c.cfg.rearm /\ c.first >= 0
  /\ c.t0 <= t /\ 0 <= c.floor /\ c.floor <= c.produced
  /\ c.cfg.mode = "repeat" => c.t0 + c.produced <= t
  /\ c.rearm_waiting => c.rearm

\* A one-shot track takes one segment into an empty ring.
OneSegment(c) ==
  c.cfg.mode = "one_shot" => ~c.rearm_waiting /\ c.floor = 0 /\ (c.state \in {"waiting", "capturing"} => c.segs = <<>>)

\* Without a trigger nothing waits for one, and a segment follows the one before unless a gap is said.
Joined(c) ==
  c.cfg.trigger = "none" =>
    /\ c.state # "waiting" /\ ~c.rearm_waiting
    /\ \A k \in 2..Len(c.segs) :
         "gap" \in c.segs[k].flags \/ c.segs[k].start = c.segs[k - 1].start + c.segs[k - 1].samples
    /\ Len(c.segs) > 0 =>
         c.gap_next \/ c.t0 + c.produced = c.segs[Len(c.segs)].start + c.segs[Len(c.segs)].samples

\* All that holds of a track at a time.
Good(c, t) ==
  /\ c \in Track
  /\ Streams(c) => c.segs = <<>> /\ c.base <= c.sent /\ c.t0 <= t
  /\ ~Streams(c) => Ring(c) /\ Counts(c, t) /\ OneSegment(c) /\ Joined(c)

\* A track as a configure leaves it, and as the end of a lock does.
Idle(c) ==
  /\ c.state \in {"unconfigured", "configured"} /\ c.data = <<>> /\ c.segs = <<>> /\ c.base = 0 /\ c.sent = 0
  /\ c.drop_until = 0 /\ ~c.rearm_waiting

\* What follows the segment before a serial begins at t, unless a gap is said.
Follows(c, serial, t) ==
  /\ serial = c.done => c.gap_next \/ c.t0 + c.produced = t
  /\ \A k \in 1..Len(c.segs) : c.segs[k].serial = serial => "gap" \in c.segs[k].flags \/ c.segs[k].start = t

\* d is c some time later: what c keeps is kept, and what is new comes after it.
Grown(c, d) ==
  /\ d.base = c.base /\ Len(c.data) <= Len(d.data) /\ \A i \in 1..Len(c.data) : d.data[i] = c.data[i]
  /\ Len(c.segs) <= Len(d.segs) /\ \A k \in 1..Len(c.segs) : d.segs[k] = c.segs[k]
  /\ d.done - Len(d.segs) = c.done - Len(c.segs)
  /\ c.cfg.trigger = "none" => \A s, t \in Int : s <= c.done /\ Follows(c, s, t) => Follows(d, s, t)

\* d is c some time later, however much of it was forgotten: a generation has one plan.
Later(c, d) ==
  /\ d.gen = c.gen /\ d.cfg = c.cfg
  /\ Idle(c) => d = c
  /\ ~Streams(c) => Grown(c, d)


---------------------------------------------------------------------------
(* Numbers. *)

\* A nonempty set of naturals has a least element.
LEMMA LeastOf ==
  ASSUME NEW T, T \subseteq Nat, T # {}
  PROVE  \E m \in T : \A x \in T : m <= x
  <1>1. PICK m \in T : \A x \in T : ~ (<<x, m>> \in OpToRel(<, Nat))
    BY NatLessThanWellFounded, WFMin
  <1>2. ASSUME NEW x \in T PROVE m <= x
    <2>1. ~ (<<x, m>> \in {ss \in Nat \X Nat : ss[1] < ss[2]})
      BY <1>1, Zenon DEF OpToRel
    <2> QED BY <2>1
  <1> QED BY <1>2

\* Min is that element.
LEMMA MinIsLeast ==
  ASSUME NEW T, T \subseteq Nat, T # {}
  PROVE  Min(T) \in T /\ \A x \in T : Min(T) <= x
  BY LeastOf DEF Min

\* A sequence and another after it.
LEMMA Joining ==
  ASSUME NEW S, NEW s \in Seq(S), NEW u \in Seq(S)
  PROVE  /\ s \o u \in Seq(S) /\ Len(s \o u) = Len(s) + Len(u)
         /\ \A i \in 1..Len(s) : (s \o u)[i] = s[i]
         /\ \A i \in 1..Len(u) : (s \o u)[Len(s) + i] = u[i]
  <1>1. Len(s) \in Nat /\ Len(u) \in Nat
    OBVIOUS
  <1>2. /\ s \o u \in Seq(S) /\ Len(s \o u) = Len(s) + Len(u)
        /\ \A i \in 1..(Len(s) + Len(u)) : (s \o u)[i] = IF i <= Len(s) THEN s[i] ELSE u[i - Len(s)]
    BY ConcatProperties
  <1> DEFINE j == s \o u
  <1> HIDE DEF j
  <1>3. ASSUME NEW i \in 1..Len(s) PROVE j[i] = s[i]
    BY <1>1, <1>2 DEF j
  <1>4. ASSUME NEW i \in 1..Len(u) PROVE j[Len(s) + i] = u[i]
    <2>1. Len(s) + i \in 1..(Len(s) + Len(u)) /\ ~(Len(s) + i <= Len(s)) /\ Len(s) + i - Len(s) = i
      BY <1>1
    <2> QED BY <2>1, <1>2 DEF j
  <1> QED BY <1>2, <1>3, <1>4 DEF j

\* A sequence and one more element.
LEMMA Appending ==
  ASSUME NEW S, NEW s \in Seq(S), NEW e \in S
  PROVE  /\ Append(s, e) \in Seq(S) /\ Len(Append(s, e)) = Len(s) + 1
         /\ \A i \in 1..Len(s) : Append(s, e)[i] = s[i]
         /\ Append(s, e)[Len(s) + 1] = e
  OBVIOUS

---------------------------------------------------------------------------
(* A track some time later. *)

\* A track is later than itself.
LEMMA LaterSelf ==
  ASSUME NEW c \in Track
  PROVE  Later(c, c)
  BY DEF Later, Grown, Track

\* Two tracks with the same ring.
SameRing(g, e) ==
  /\ e.cfg = g.cfg /\ e.gen = g.gen /\ e.segs = g.segs /\ e.base = g.base /\ e.data = g.data /\ e.done = g.done
  /\ e.sent = g.sent /\ e.drop_until = g.drop_until /\ e.t0 = g.t0 /\ e.produced = g.produced /\ e.gap_next = g.gap_next

\* A track with the same ring has what holds of the ring.
LEMMA SameRingKeeps ==
  ASSUME NEW g, NEW e, SameRing(g, e)
  PROVE  /\ Ring(g) => Ring(e)
         /\ \A c : Grown(c, g) => Grown(c, e)
         /\ Joined(g) /\ (g.cfg.trigger = "none" => e.state # "waiting" /\ ~e.rearm_waiting) => Joined(e)
  <1>1. Ring(g) => Ring(e)
    BY DEF SameRing, Ring, Placed, Names, End
  <1>2. ASSUME NEW c, Grown(c, g) PROVE Grown(c, e)
    <2>1. \A s, u : Follows(g, s, u) => Follows(e, s, u)
      BY DEF SameRing, Follows
    <2> QED BY <1>2, <2>1 DEF SameRing, Grown
  <1>3. Joined(g) /\ (g.cfg.trigger = "none" => e.state # "waiting" /\ ~e.rearm_waiting) => Joined(e)
    BY DEF SameRing, Joined
  <1> QED BY <1>1, <1>2, <1>3

\* What has grown twice has grown.
LEMMA LaterTwice ==
  ASSUME NEW c \in Track, NEW d \in Track, NEW e \in Track, Later(c, d), Later(d, e)
  PROVE  Later(c, e)
  <1>1. e.gen = c.gen /\ e.cfg = c.cfg /\ d.cfg = c.cfg /\ (Idle(c) => e = c) /\ (Streams(d) <=> Streams(c))
    BY DEF Later, Streams
  <1>2. ASSUME ~Streams(c) PROVE Grown(c, e)
    <2>1. Grown(c, d) /\ Grown(d, e)
      BY <1>1, <1>2 DEF Later
    <2>2. /\ Len(c.data) \in Nat /\ Len(d.data) \in Nat /\ Len(e.data) \in Nat
          /\ Len(c.segs) \in Nat /\ Len(d.segs) \in Nat /\ Len(e.segs) \in Nat
          /\ c.done \in Int /\ d.done \in Int /\ e.done \in Int
      <3>1. /\ c.data \in Seq(Int) /\ d.data \in Seq(Int) /\ e.data \in Seq(Int)
            /\ c.segs \in Seq(Record) /\ d.segs \in Seq(Record) /\ e.segs \in Seq(Record)
            /\ c.done \in Int /\ d.done \in Int /\ e.done \in Int
        BY DEF Track
      <3> QED BY <3>1
    <2>3. /\ d.base = c.base /\ Len(c.data) <= Len(d.data) /\ \A i \in 1..Len(c.data) : d.data[i] = c.data[i]
          /\ e.base = d.base /\ Len(d.data) <= Len(e.data) /\ \A i \in 1..Len(d.data) : e.data[i] = d.data[i]
      BY <2>1 DEF Grown
    <2>4. /\ Len(c.segs) <= Len(d.segs) /\ \A k \in 1..Len(c.segs) : d.segs[k] = c.segs[k]
          /\ Len(d.segs) <= Len(e.segs) /\ \A k \in 1..Len(d.segs) : e.segs[k] = d.segs[k]
          /\ d.done - Len(d.segs) = c.done - Len(c.segs) /\ e.done - Len(e.segs) = d.done - Len(d.segs)
      BY <2>1 DEF Grown
    <2>5. e.base = c.base /\ Len(c.data) <= Len(e.data) /\ \A i \in 1..Len(c.data) : e.data[i] = c.data[i]
      BY <2>2, <2>3, SMTT(30)
    <2>6. Len(c.segs) <= Len(e.segs) /\ \A k \in 1..Len(c.segs) : e.segs[k] = c.segs[k]
      BY <2>2, <2>4, SMTT(30)
    <2>7. e.done - Len(e.segs) = c.done - Len(c.segs) /\ c.done <= d.done
      BY <2>2, <2>4
    <2>8. c.cfg.trigger = "none" => \A s, u \in Int : s <= c.done /\ Follows(c, s, u) => Follows(e, s, u)
      <3> SUFFICES ASSUME c.cfg.trigger = "none", NEW s \in Int, NEW u \in Int, s <= c.done, Follows(c, s, u)
                   PROVE  Follows(e, s, u)
        OBVIOUS
      <3>1. s <= d.done
        BY <2>2, <2>7
      <3> QED BY <3>1, <2>1, <1>1 DEF Grown
    <2> QED BY <2>5, <2>6, <2>7, <2>8 DEF Grown
  <1> QED BY <1>1, <1>2 DEF Later

---------------------------------------------------------------------------
(* Triggers. *)

\* The samples a look can find are ahead of where it begins.
LEMMA HitsAhead ==
  ASSUME NEW c, NEW t \in Nat, NEW E, Good(c, t), NEW i \in Hits(c, t, E)
  PROVE  i \in Nat /\ 1 <= i /\ c.scan <= i /\ Begin(c) <= i /\ c.floor <= i /\ c.t0 + i <= t
  <1>1. c.floor \in Int /\ c.scan \in Int /\ c.t0 \in Int /\ c.cfg.pretrigger \in Nat
    BY DEF Good, Track, Settled
  <1>2. Begin(c) \in Int /\ c.floor <= Begin(c)
    BY <1>1 DEF Begin
  <1>3. From(c) \in Int /\ c.scan <= From(c) /\ Begin(c) <= From(c)
    BY <1>1, <1>2 DEF From, Higher
  <1>4. Higher(1, From(c)) \in Int /\ 1 <= Higher(1, From(c)) /\ From(c) <= Higher(1, From(c))
    BY <1>3 DEF Higher
  <1>5. i \in Higher(1, From(c))..(t - c.t0)
    BY DEF Hits
  <1> QED BY <1>1, <1>2, <1>3, <1>4, <1>5

\* The first of them.
LEMMA FirstHit ==
  ASSUME NEW c, NEW t \in Nat, NEW E, Good(c, t), Hits(c, t, E) # {}
  PROVE  Min(Hits(c, t, E)) \in Hits(c, t, E) /\ \A i \in Hits(c, t, E) : Min(Hits(c, t, E)) <= i
  <1>1. Hits(c, t, E) \subseteq Nat
    BY HitsAhead
  <1> QED BY <1>1, MinIsLeast

\* The track when a look is over, before what it found triggers.
Looked(c, t, E) ==
  LookedTo(c, IF Hits(c, t, E) = {} THEN t - c.t0 ELSE Min(Hits(c, t, E)), E)

\* A look that finds nothing, or stops at what it finds, leaves all of a track but what it saw.
LEMMA LookedGood ==
  ASSUME NEW c, NEW t \in Nat, NEW E, Good(c, t), Looking(c), NEW d, d = Looked(c, t, E)
  PROVE  /\ Good(d, t) /\ Later(c, d) /\ SameRing(c, d)
         /\ d.state = c.state /\ d.samples = c.samples /\ d.rearm = c.rearm /\ d.first = c.first /\ d.index = c.index
         /\ d.floor = c.floor /\ d.rearm_waiting = c.rearm_waiting
  <1>1. c \in Track /\ ~Idle(c) /\ c.t0 \in Int
    BY DEF Good, Looking, Idle, Track
  <1>2. CASE d = c
    BY <1>1, <1>2, LaterSelf DEF SameRing
  <1>3. CASE d # c
    <2> DEFINE to == IF Hits(c, t, E) = {} THEN t - c.t0 ELSE Min(Hits(c, t, E))
    <2>1. to \in Int
      BY <1>1, FirstHit, HitsAhead
    <2>2. PICK m \in Int, b \in BOOLEAN : m = to + 1 /\ b = High(c, to, E)
      <3>1. PICK m \in Int : m = to + 1
        BY <2>1
      <3>2. High(c, to, E) \in BOOLEAN
        BY DEF High
      <3> HIDE DEF to
      <3> QED BY <3>1, <3>2, Zenon
    <2>3. d = [c EXCEPT !.scan = m, !.seen = b]
      BY <1>3, <2>2 DEF Looked, LookedTo
    <2> HIDE DEF to
    <2>4. /\ d \in Track /\ SameRing(c, d)
          /\ d.state = c.state /\ d.samples = c.samples /\ d.rearm = c.rearm /\ d.first = c.first /\ d.index = c.index
          /\ d.floor = c.floor /\ d.rearm_waiting = c.rearm_waiting
      BY <1>1, <2>3, ZenonT(60) DEF Track, SameRing
    <2>5. Streams(d) <=> Streams(c)
      BY <2>4 DEF SameRing, Streams
    <2>6. Streams(c) => Good(d, t) /\ Later(c, d)
      BY <1>1, <2>4, <2>5 DEF Good, Later, SameRing
    <2>7. ASSUME ~Streams(c) PROVE Good(d, t) /\ Later(c, d)
      <3>1. Ring(c) /\ Counts(c, t) /\ OneSegment(c) /\ Joined(c) /\ Grown(c, c)
        BY <1>1, <2>7, LaterSelf DEF Good, Later
      <3>2. Ring(d) /\ Grown(c, d) /\ Joined(d)
        BY <2>4, <3>1, SameRingKeeps DEF Joined
      <3>3. Counts(d, t) /\ OneSegment(d)
        BY <2>4, <3>1 DEF Counts, OneSegment, SameRing
      <3> QED BY <1>1, <2>4, <2>5, <2>7, <3>2, <3>3 DEF Good, Later, SameRing
    <2> QED BY <2>4, <2>6, <2>7
  <1> QED BY <1>2, <1>3

\* The prehistory a trigger can have.
LEMMA TriggeredGood ==
  ASSUME NEW c, NEW t \in Nat, Good(c, t), NEW i \in Nat,
         c.state = "waiting" \/ c.rearm_waiting,
         ~Streams(c) => c.floor <= i /\ (c.cfg.mode = "repeat" => c.t0 + i <= t)
  PROVE  LET d == Triggered(c, i, c.cfg.pretrigger) IN Good(d, t) /\ Later(c, d)
  <1> DEFINE d == Triggered(c, i, c.cfg.pretrigger)
             m == Lower(c.cfg.pretrigger, i - c.floor)
             b == i - m
             n == IF c.cfg.mode = "streaming" THEN Higher(c.samples, c.cfg.pretrigger + 1) ELSE c.samples
             B == IF c.state = "waiting" THEN b ELSE c.begin
             g == IF c.state # "waiting" /\ b # c.produced THEN TRUE ELSE c.gap_next
             f == n - c.cfg.pretrigger + m
  <1> SUFFICES Good(d, t) /\ Later(c, d)
    OBVIOUS
  <1>1. /\ c \in Track /\ c.floor \in Int /\ c.cfg.pretrigger \in Nat /\ c.t0 \in Int /\ c.samples \in Nat \ {0}
        /\ c.cfg \in Settled /\ c.produced \in Int /\ c.state \in States /\ c.gap_next \in BOOLEAN /\ c.begin \in Int
        /\ c.data \in Seq(Int) /\ c.segs \in Seq(Record) /\ c.done \in Int
    BY DEF Good, Track, Settled
  <1>2. g \in BOOLEAN
    BY <1>1
  <1>3. m \in Int /\ b \in Int /\ n \in Nat \ {0} /\ B \in Int /\ f \in Int
    <2>1. m \in Int
      BY <1>1 DEF Lower
    <2>2. n \in Nat \ {0}
      BY <1>1, SMTT(30) DEF Higher
    <2> HIDE DEF m, n
    <2> QED BY <1>1, <2>1, <2>2
  <1>4. ~Idle(c)
    BY DEF Idle
  <1>5. CASE c.cfg.mode = "streaming" /\ c.state = "capturing"
    <2>1. d = c
      BY <1>5 DEF Triggered
    <2> QED BY <2>1, <1>4, <1>5 DEF Later, Streams
  <1>6. CASE ~(c.cfg.mode = "streaming" /\ c.state = "capturing")
    <2>1. d = [c EXCEPT !.begin = B, !.gap_next = g, !.produced = b, !.samples = n, !.first = f, !.index = m,
                        !.rearm_waiting = FALSE, !.state = "capturing"]
      BY <1>6 DEF Triggered
    <2>2. ~Streams(c) => n = c.samples /\ f = c.samples - c.cfg.pretrigger + m
      BY DEF Streams
    <2>3. ~Streams(c) => 0 <= m /\ m <= c.cfg.pretrigger /\ c.floor <= b /\ b <= i
      BY <1>1, SMTT(30) DEF Lower, Streams, Settled
    <2>4. PICK w \in BOOLEAN, x \in States : w = FALSE /\ x = "capturing"
      BY DEF States
    <2> HIDE DEF d, B, g, b, n, f, m
    <2>5. /\ d \in Track
          /\ d.state = "capturing" /\ d.cfg = c.cfg /\ d.samples = n /\ d.rearm = c.rearm /\ d.gen = c.gen /\ d.t0 = c.t0
          /\ d.data = c.data /\ d.base = c.base /\ d.segs = c.segs /\ d.done = c.done /\ d.produced = b
          /\ d.sent = c.sent /\ d.gap_next = g /\ d.drop_until = c.drop_until /\ d.begin = B /\ d.first = f
          /\ d.index = m /\ d.floor = c.floor /\ d.rearm_waiting = FALSE
      <3>1. d = [c EXCEPT !.begin = B, !.gap_next = g, !.produced = b, !.samples = n, !.first = f, !.index = m,
                          !.rearm_waiting = w, !.state = x]
        BY <2>1, <2>4
      <3>2. /\ d \in Track
            /\ d.state = x /\ d.cfg = c.cfg /\ d.samples = n /\ d.rearm = c.rearm /\ d.gen = c.gen /\ d.t0 = c.t0
            /\ d.data = c.data /\ d.base = c.base /\ d.segs = c.segs /\ d.done = c.done /\ d.produced = b
            /\ d.sent = c.sent /\ d.gap_next = g /\ d.drop_until = c.drop_until /\ d.begin = B /\ d.first = f
            /\ d.index = m /\ d.floor = c.floor /\ d.rearm_waiting = w
        BY <1>1, <1>2, <1>3, <3>1, ZenonT(60) DEF Track
      <3> QED BY <2>4, <3>2
    <2>6. CASE Streams(c)
      <3>1. Streams(d) /\ d.segs = <<>>
        BY <2>5, <2>6 DEF Good, Streams
      <3> QED BY <1>4, <2>5, <2>6, <3>1 DEF Good, Later
    <2>7. CASE ~Streams(c)
      <3>1. Ring(d)
        BY <2>5, <2>7 DEF Good, Ring, Placed, Names, End
      <3>2. Counts(d, t)
        <4>1. c.cfg.pretrigger < c.cfg.samples /\ c.samples = c.cfg.samples
          BY <1>1, <2>7 DEF Good, Counts, Streams, Settled
        <4>2. Counts(c, t)
          BY <2>7 DEF Good
        <4>3. d.first >= 0
          BY <1>1, <1>3, <2>2, <2>3, <2>5, <2>7, <4>1, SMTT(30)
        <4>4. d.floor <= d.produced /\ 0 <= d.floor
          BY <2>3, <2>5, <2>7, <4>2 DEF Counts
        <4>5. c.cfg.mode = "repeat" => c.t0 + b <= t
          BY <1>1, <1>3, <2>3, <2>7
        <4> QED BY <2>2, <2>5, <2>7, <4>2, <4>3, <4>4, <4>5 DEF Counts
      <3>3. OneSegment(d)
        BY <2>5, <2>7 DEF Good, OneSegment
      <3>4. Joined(d) /\ c.cfg.trigger # "none"
        BY <2>5, <2>7 DEF Good, Joined
      <3>5. Grown(c, d)
        <4>1. Len(c.data) \in Nat /\ Len(c.segs) \in Nat
          BY <1>1
        <4> QED BY <2>5, <3>4, <4>1 DEF Grown
      <3>6. ~Streams(d)
        BY <2>5, <2>7 DEF Streams
      <3> QED BY <3>1, <3>2, <3>3, <3>4, <3>5, <3>6, <2>5, <2>7, <1>4 DEF Good, Later
    <2> QED BY <2>6, <2>7
  <1> QED BY <1>5, <1>6

\* A look for the trigger leaves the track, keeps what it saw, or finds the trigger.
LEMMA PollFinds ==
  ASSUME NEW c, NEW t \in Nat, NEW E, Good(c, t)
  PROVE  \/ Poll(c, t, E) = c /\ ~Looking(c)
         \/ Poll(c, t, E) = Looked(c, t, E) /\ Looking(c) /\ Hits(c, t, E) = {}
         \/ \E i \in Hits(c, t, E) : /\ Poll(c, t, E) = Triggered(Looked(c, t, E), i, c.cfg.pretrigger)
                                     /\ Looking(c)
  BY FirstHit DEF Poll, Scanned, Looked

\* A look for the trigger.
LEMMA PollGood ==
  ASSUME NEW c, NEW t \in Nat, NEW E, Good(c, t)
  PROVE  Good(Poll(c, t, E), t) /\ Later(c, Poll(c, t, E))
  <1>1. CASE Poll(c, t, E) = c
    BY <1>1, LaterSelf DEF Good
  <1>2. CASE Poll(c, t, E) = Looked(c, t, E) /\ Looking(c)
    BY <1>2, LookedGood
  <1>3. ASSUME NEW i \in Hits(c, t, E), Poll(c, t, E) = Triggered(Looked(c, t, E), i, c.cfg.pretrigger), Looking(c)
        PROVE  Good(Poll(c, t, E), t) /\ Later(c, Poll(c, t, E))
    <2>1. PICK d : d = Looked(c, t, E)
      OBVIOUS
    <2>2. /\ Good(d, t) /\ Later(c, d) /\ d.cfg = c.cfg /\ d.state = c.state /\ d.t0 = c.t0
          /\ d.floor = c.floor /\ d.rearm_waiting = c.rearm_waiting
      BY <1>3, <2>1, LookedGood DEF SameRing
    <2>3. i \in Nat /\ c.floor <= i /\ c.t0 + i <= t
      BY HitsAhead
    <2>4. PICK e : e = Triggered(d, i, d.cfg.pretrigger)
      OBVIOUS
    <2>5. d.state = "waiting" \/ d.rearm_waiting
      BY <1>3, <2>2 DEF Looking
    <2>6. Good(e, t) /\ Later(d, e)
      BY <2>2, <2>3, <2>4, <2>5, TriggeredGood
    <2>7. Later(c, e)
      BY <2>2, <2>6, LaterTwice DEF Good
    <2> QED BY <1>3, <2>1, <2>2, <2>4, <2>6, <2>7
  <1> QED BY <1>1, <1>2, <1>3, PollFinds

\* A force.
LEMMA ForceGood ==
  ASSUME NEW c, NEW t \in Nat, Good(c, t)
  PROVE  Good(ForceNow(c, t, c.cfg.pretrigger), t) /\ Later(c, ForceNow(c, t, c.cfg.pretrigger))
  <1>1. CASE ~(c.state = "waiting" \/ c.rearm_waiting)
    BY <1>1, LaterSelf DEF ForceNow, Good
  <1>2. CASE c.state = "waiting" \/ c.rearm_waiting
    <2> DEFINE i == Higher(0, t - c.t0)
    <2>1. i \in Nat
      BY SMTT(30) DEF Good, Track, Higher
    <2>2. ASSUME ~Streams(c) PROVE c.floor <= i /\ (c.cfg.mode = "repeat" => c.t0 + i <= t)
      <3>1. c.floor \in Int /\ c.t0 \in Int /\ c.produced \in Int /\ c.cfg \in Settled
        BY DEF Good, Track
      <3>2. /\ c.t0 <= t /\ 0 <= c.floor /\ c.floor <= c.produced /\ (c.cfg.mode = "repeat" => c.t0 + c.produced <= t)
            /\ (c.cfg.mode = "one_shot" => c.floor = 0)
        BY <2>2 DEF Good, Counts, OneSegment
      <3>3. c.cfg.mode \in {"one_shot", "repeat"}
        BY <2>2, <3>1 DEF Settled, Streams
      <3> QED BY <3>1, <3>2, <3>3 DEF Higher
    <2>3. ForceNow(c, t, c.cfg.pretrigger) = Triggered(c, i, c.cfg.pretrigger)
      BY <1>2 DEF ForceNow
    <2> HIDE DEF i
    <2> QED BY <1>2, <2>1, <2>2, <2>3, TriggeredGood
  <1> QED BY <1>1, <1>2
---------------------------------------------------------------------------
(* Segments. *)

\* A finished segment goes to the end of the ring.
LEMMA SegmentMade ==
  ASSUME NEW c, NEW t \in Nat, Good(c, t), ~Streams(c), Len(c.segs) < c.cfg.segments,
         NEW n \in Nat \ {0}, NEW x \in Int, NEW F \in SUBSET {"rearm", "short"}
  PROVE  LET d == Segment(c, n, x, F)
         IN /\ d \in Track /\ Ring(d) /\ Joined(d) /\ Grown(c, d)
            /\ (c.cfg.mode = "repeat" => c.t0 + c.produced + n <= t) => Counts(d, t)
            /\ d.state = c.state /\ d.cfg = c.cfg /\ d.gen = c.gen /\ d.t0 = c.t0 /\ d.samples = c.samples
            /\ d.rearm = c.rearm /\ d.floor = c.floor /\ d.rearm_waiting = c.rearm_waiting /\ d.first = c.first
            /\ d.index = c.index /\ d.produced = c.produced + n /\ d.done = c.done + 1
            /\ Len(d.segs) = Len(c.segs) + 1 /\ \A k \in 1..Len(c.segs) : d.segs[k] = c.segs[k]
            /\ LET s == d.segs[Len(c.segs) + 1]
               IN /\ s.samples = n /\ s.index = x /\ s.start = c.t0 + c.produced /\ s.serial = c.done
                  /\ "short" \in s.flags <=> "short" \in F
  <1> DEFINE d == Segment(c, n, x, F)
             l == Len(c.segs)
             r == [serial |-> c.done, position |-> End(c), samples |-> n, start |-> c.t0 + c.produced, index |-> x,
                   gen |-> c.gen, flags |-> F \cup (IF c.gap_next THEN {"gap"} ELSE {})]
  <1>a. c \in Track /\ c.gap_next \in BOOLEAN /\ c.data \in Seq(Int) /\ c.segs \in Seq(Record) /\ c.cfg \in Settled
    BY DEF Good, Track
  <1>1. /\ c.base \in Int /\ c.t0 \in Int /\ c.produced \in Int /\ c.done \in Int /\ c.gen \in Nat /\ c.floor \in Int
        /\ c.cfg.segments \in Nat /\ l \in Nat /\ Len(c.data) \in Nat
    <2>1. /\ c.base \in Int /\ c.t0 \in Int /\ c.produced \in Int /\ c.done \in Int /\ c.gen \in Nat
          /\ c.floor \in Int
      BY <1>a DEF Track
    <2>2. c.cfg.segments \in Nat
      BY <1>a DEF Settled
    <2>3. l \in Nat /\ Len(c.data) \in Nat
      BY <1>a
    <2> QED BY <2>1, <2>2, <2>3
  <1>2. Ring(c) /\ Counts(c, t) /\ Joined(c)
    BY DEF Good
  <1>3. End(c) \in Nat /\ End(c) = c.base + Len(c.data)
    BY <1>1, <1>2 DEF Ring, End
  <1>4. r \in Record
    BY <1>a, <1>1, <1>3 DEF Record
  <1>5. /\ Bytes(c, n) \in Seq(Int) /\ Len(Bytes(c, n)) = n
        /\ \A i \in 1..n : Bytes(c, n)[i] = c.t0 + c.produced + i - 1
    BY <1>1 DEF Bytes
  <1> DEFINE S == Append(c.segs, r)
             D == c.data \o Bytes(c, n)
             p == c.produced + n
             q == c.done + 1
  <1>6. S \in Seq(Record) /\ D \in Seq(Int) /\ p \in Int /\ q \in Int
    BY <1>a, <1>1, <1>4, <1>5, SMTT(30)
  <1>7. /\ Len(S) = l + 1 /\ \A k \in 1..l : S[k] = c.segs[k]
        /\ S[l + 1] = r
    BY <1>a, <1>1, <1>4
  <1>8. /\ Len(D) = Len(c.data) + n /\ \A i \in 1..Len(c.data) : D[i] = c.data[i]
        /\ \A i \in 1..n : D[Len(c.data) + i] = c.t0 + c.produced + i - 1
    <2>1. PICK a \in Seq(Int), b \in Seq(Int) : a = c.data /\ b = Bytes(c, n)
      BY <1>a, <1>5
    <2>2. /\ Len(a \o b) = Len(a) + Len(b) /\ \A i \in 1..Len(a) : (a \o b)[i] = a[i]
          /\ \A i \in 1..Len(b) : (a \o b)[Len(a) + i] = b[i]
      BY Joining
    <2>3. D = a \o b /\ Len(b) = n /\ \A i \in 1..n : b[i] = c.t0 + c.produced + i - 1
      BY <1>5, <2>1
    <2> HIDE DEF D
    <2> QED BY <2>1, <2>2, <2>3
  <1>9. d = [c EXCEPT !.segs = S, !.data = D, !.produced = p, !.done = q, !.gap_next = FALSE]
    BY DEF Segment
  <1>10. /\ r.serial = c.done /\ r.position = End(c) /\ r.samples = n /\ r.start = c.t0 + c.produced /\ r.index = x
         /\ r.gen = c.gen /\ ("short" \in r.flags <=> "short" \in F)
         /\ "gap" \in r.flags \/ ~c.gap_next
    BY <1>a
  <1> HIDE DEF d, S, D, p, q, r
  <1>11. PICK w \in BOOLEAN : w = FALSE
    OBVIOUS
  <1>12. /\ d \in Track
         /\ d.state = c.state /\ d.cfg = c.cfg /\ d.samples = c.samples /\ d.rearm = c.rearm /\ d.gen = c.gen
         /\ d.t0 = c.t0 /\ d.data = D /\ d.base = c.base /\ d.segs = S /\ d.done = q /\ d.produced = p
         /\ d.sent = c.sent /\ d.gap_next = w /\ d.drop_until = c.drop_until /\ d.first = c.first
         /\ d.index = c.index /\ d.floor = c.floor /\ d.rearm_waiting = c.rearm_waiting
    <2>1. d = [c EXCEPT !.segs = S, !.data = D, !.produced = p, !.done = q, !.gap_next = w]
      BY <1>9, <1>11
    <2> QED BY <1>a, <1>6, <2>1, Zenon DEF Track
  <1>13. End(d) = End(c) + n
    BY <1>1, <1>3, <1>8, <1>12 DEF End
  <1>14. ASSUME NEW k \in 1..Len(d.segs) PROVE Placed(d, k)
    <2>1. CASE k = l + 1
      <3>1. d.segs[k] = r /\ Len(d.segs) = l + 1
        BY <1>7, <1>12, <2>1
      <3>2. Names(d, r)
        <4> SUFFICES ASSUME NEW i \in 1..r.samples PROVE d.data[r.position - d.base + i] = r.start + i - 1
          BY DEF Names
        <4>1. r.position - d.base + i = Len(c.data) + i
          <5>1. PICK b \in Int, m \in Nat, j \in Nat : b = c.base /\ m = Len(c.data) /\ j = i
            BY <1>1, <1>10
          <5>2. r.position = b + m /\ d.base = b
            BY <1>3, <1>10, <1>12, <5>1
          <5>3. b + m - b + j = m + j
            OBVIOUS
          <5> QED BY <5>1, <5>2, <5>3
        <4> QED BY <4>1, <1>8, <1>10, <1>12
      <3>3. /\ r.serial = d.done - Len(d.segs) + k - 1 /\ r.gen = d.gen
            /\ d.base <= r.position /\ r.position + r.samples <= End(d)
            /\ r.position + r.samples = End(d)
        <4>1. r.serial = d.done - Len(d.segs) + k - 1
          <5>1. r.serial = c.done /\ d.done = c.done + 1 /\ k = l + 1 /\ Len(d.segs) = l + 1
            BY <1>10, <1>12, <2>1, <3>1 DEF q
          <5>2. c.done \in Int /\ l \in Nat
            BY <1>1
          <5> QED BY <5>1, <5>2
        <4>2. d.base <= r.position /\ r.position + r.samples = End(d)
          BY <1>1, <1>3, <1>10, <1>12, <1>13, SMTT(30)
        <4> QED BY <4>1, <4>2, <1>3, <1>10, <1>12, <1>13
      <3> QED BY <2>1, <3>1, <3>2, <3>3 DEF Placed
    <2>2. CASE k # l + 1
      <3>1. k \in 1..l /\ d.segs[k] = c.segs[k] /\ Len(d.segs) = l + 1
        BY <1>1, <1>7, <1>12, <2>2, SMTT(30)
      <3> DEFINE s == c.segs[k]
      <3>2. s \in Record /\ s.position \in Nat /\ s.samples \in Nat
        <4>1. s \in Record
          BY <1>a, <3>1
        <4> QED BY <4>1 DEF Record
      <3>3. Placed(c, k)
        BY <1>2, <3>1 DEF Ring
      <3>4. /\ s.serial = c.done - l + k - 1 /\ s.gen = c.gen /\ c.base <= s.position /\ s.position + s.samples <= End(c)
            /\ s.position + s.samples = IF k = l THEN End(c) ELSE c.segs[k + 1].position
            /\ Names(c, s)
        BY <3>3 DEF Placed
      <3>5. Names(d, s)
        <4> SUFFICES ASSUME NEW i \in 1..s.samples, s.position + i > c.base
                     PROVE  d.data[s.position - c.base + i] = s.start + i - 1
          BY <1>12 DEF Names
        <4>1. s.position - c.base + i \in 1..Len(c.data)
          <5> DEFINE u == s.position
                     v == s.samples
          <5>1. u \in Nat /\ v \in Nat /\ i \in 1..v /\ u + i > c.base /\ u + v <= c.base + Len(c.data)
            BY <1>3, <3>2, <3>4
          <5> HIDE DEF u, v
          <5>2. u - c.base + i \in 1..Len(c.data)
            <6>1. c.base \in Int /\ Len(c.data) \in Nat
              BY <1>1
            <6> QED BY <5>1, <6>1, SMTT(30)
          <5> QED BY <5>2 DEF u
        <4> QED BY <4>1, <1>8, <1>12, <3>4 DEF Names
      <3>6. s.position + s.samples = d.segs[k + 1].position
        <4>1. CASE k = l
          BY <4>1, <1>7, <1>10, <1>12, <3>4
        <4>2. CASE k # l
          <5>1. k + 1 \in 1..l
            BY <3>1, <4>2, <1>1
          <5> QED BY <5>1, <4>2, <1>7, <1>12, <3>4
        <4> QED BY <4>1, <4>2
      <3>7. s.serial = d.done - Len(d.segs) + k - 1
        BY <1>1, <1>12, <3>1, <3>4 DEF q
      <3>8. d.base <= s.position /\ s.position + s.samples <= End(d) /\ s.gen = d.gen
        <4>1. PICK a \in Nat, b \in Nat, f \in Nat : a = s.position /\ b = s.samples /\ f = End(c)
          BY <1>3, <3>2
        <4>2. a + b <= f
          BY <3>4, <4>1
        <4>3. a + b <= f + n
          BY <4>2
        <4> QED BY <1>12, <1>13, <3>4, <4>1, <4>3
      <3>9. k # Len(d.segs)
        BY <3>1, <2>2
      <3> HIDE DEF s
      <3>10. d.segs[k] = s
        BY <3>1 DEF s
      <3> QED BY <3>5, <3>6, <3>7, <3>8, <3>9, <3>10 DEF Placed
    <2> QED BY <2>1, <2>2
  <1>15. Ring(d)
    <2>1. Len(d.segs) = l + 1 /\ Len(d.segs) <= d.cfg.segments
      BY <1>1, <1>7, <1>12
    <2>2. d.base = d.segs[1].position
      <3>1. CASE l = 0
        BY <3>1, <1>2, <1>7, <1>10, <1>12 DEF Ring
      <3>2. CASE l # 0
        BY <3>2, <1>1, <1>2, <1>7, <1>12, SMTT(30) DEF Ring
      <3> QED BY <3>1, <3>2
    <2> QED BY <2>1, <2>2, <1>1, <1>2, <1>12, <1>14 DEF Ring
  <1>16. Joined(d)
    <2> SUFFICES ASSUME c.cfg.trigger = "none" PROVE Joined(d)
      BY <1>12 DEF Joined
    <2>1. /\ c.state # "waiting" /\ ~c.rearm_waiting
          /\ \A k \in 2..l : "gap" \in c.segs[k].flags \/ c.segs[k].start = c.segs[k - 1].start + c.segs[k - 1].samples
          /\ l > 0 => c.gap_next \/ c.t0 + c.produced = c.segs[l].start + c.segs[l].samples
      BY <1>2 DEF Joined
    <2>2. ASSUME NEW k \in 2..(l + 1)
          PROVE  "gap" \in S[k].flags \/ S[k].start = S[k - 1].start + S[k - 1].samples
      <3>1. CASE k = l + 1
        <4>1. S[k] = r /\ k - 1 = l /\ l > 0 /\ S[l] = c.segs[l]
          <5>1. l \in Nat /\ k \in 2..(l + 1) /\ k = l + 1
            BY <3>1, <1>1
          <5>2. k - 1 = l /\ l > 0 /\ l \in 1..l
            BY <5>1
          <5> QED BY <5>1, <5>2, <1>7
        <4> QED BY <4>1, <2>1, <1>10
      <3>2. CASE k # l + 1
        <4>1. k \in 2..l /\ k - 1 \in 1..l /\ k \in 1..l
          BY <3>2, <1>1, SMTT(30)
        <4> QED BY <4>1, <2>1, <1>7
      <3> QED BY <3>1, <3>2
    <2>3. d.t0 + d.produced = S[l + 1].start + S[l + 1].samples
      BY <1>1, <1>7, <1>10, <1>12 DEF p
    <2> QED BY <2>1, <2>2, <2>3, <1>7, <1>12 DEF Joined
  <1>17. Grown(c, d)
    <2>1. Len(c.data) <= Len(d.data) /\ \A i \in 1..Len(c.data) : d.data[i] = c.data[i]
      BY <1>1, <1>8, <1>12, SMTT(30)
    <2>2. Len(c.segs) <= Len(d.segs) /\ \A k \in 1..Len(c.segs) : d.segs[k] = c.segs[k]
      BY <1>1, <1>7, <1>12, SMTT(30)
    <2>3. d.done - Len(d.segs) = c.done - Len(c.segs)
      <3>1. d.done = c.done + 1 /\ Len(d.segs) = l + 1
        BY <1>7, <1>12 DEF q
      <3>2. c.done \in Int /\ Len(c.segs) \in Nat
        BY <1>1
      <3> QED BY <3>1, <3>2, SMTT(30)
    <2>4. ASSUME NEW s \in Int, NEW u \in Int, s <= c.done, Follows(c, s, u) PROVE Follows(d, s, u)
      <3>1. s # d.done
        BY <1>1, <1>12, <2>4 DEF q
      <3>2. ASSUME NEW k \in 1..Len(d.segs), d.segs[k].serial = s
            PROVE  "gap" \in d.segs[k].flags \/ d.segs[k].start = u
        <4>1. CASE k = l + 1
          BY <4>1, <2>4, <3>2, <1>7, <1>10, <1>12 DEF Follows
        <4>2. CASE k # l + 1
          <5>1. k \in 1..l
            BY <4>2, <1>1, <1>7, <1>12
          <5> QED BY <5>1, <2>4, <3>2, <1>7, <1>12 DEF Follows
        <4> QED BY <4>1, <4>2
      <3> QED BY <3>1, <3>2 DEF Follows
    <2> QED BY <2>1, <2>2, <2>3, <2>4, <1>12 DEF Grown
  <1>18. ASSUME c.cfg.mode = "repeat" => c.t0 + c.produced + n <= t PROVE Counts(d, t)
    <2>1. d.produced = c.produced + n
      BY <1>12 DEF p
    <2> QED BY <2>1, <1>1, <1>2, <1>12, <1>18 DEF Counts
  <1>19. d.produced = c.produced + n
    BY <1>12 DEF p
  <1>20. LET s == d.segs[l + 1]
         IN s.samples = n /\ s.index = x /\ s.start = c.t0 + c.produced /\ s.serial = c.done /\ ("short" \in s.flags <=> "short" \in F)
    BY <1>7, <1>10, <1>12
  <1>21. Len(d.segs) = l + 1 /\ \A k \in 1..l : d.segs[k] = c.segs[k]
    BY <1>7, <1>12
  <1>22. d.done = c.done + 1
    BY <1>12 DEF q
  <1>23. LET s == d.segs[l + 1]
         IN /\ s.samples = n /\ s.index = x /\ s.start = c.t0 + c.produced /\ s.serial = c.done
            /\ "short" \in s.flags <=> "short" \in F
    BY <1>20
  <1> QED BY <1>12, <1>15, <1>16, <1>17, <1>18, <1>19, <1>21, <1>22, <1>23 DEF d
---------------------------------------------------------------------------
(* Time passes. *)

\* The segment being taken has samples.
LEMMA SizeIsNat ==
  ASSUME NEW c, NEW t, Good(c, t), ~Streams(c)
  PROVE  Size(c) \in Nat \ {0}
  BY DEF Good, Track, Counts, Size

\* Another state of a track.
LEMMA Restated ==
  ASSUME NEW g \in Track, NEW s \in States, NEW e, e = [g EXCEPT !.state = s]
  PROVE  /\ e \in Track /\ SameRing(g, e) /\ e.state = s
         /\ e.samples = g.samples /\ e.rearm = g.rearm /\ e.first = g.first /\ e.index = g.index /\ e.floor = g.floor
         /\ e.rearm_waiting = g.rearm_waiting /\ e.scan = g.scan /\ e.seen = g.seen
  BY Zenon DEF Track, SameRing

\* A one-shot's tick.
LEMMA OneShotGood ==
  ASSUME NEW c, NEW t \in Nat, Good(c, t), c.cfg.mode = "one_shot", c.state = "capturing"
  PROVE  Good(TickOneShot(c, t), t) /\ Later(c, TickOneShot(c, t))
  <1>1. ~Streams(c) /\ ~Idle(c) /\ c \in Track
    BY DEF Streams, Idle, Good
  <1>2. CASE OneShotDue(c, t) - c.produced < Size(c)
    <2>1. TickOneShot(c, t) = c
      BY <1>2 DEF TickOneShot
    <2> QED BY <2>1, <1>1, LaterSelf
  <1>3. CASE ~(OneShotDue(c, t) - c.produced < Size(c))
    <2> DEFINE g == Segment(c, Size(c), c.index, {})
    <2>1. PICK n \in Nat \ {0}, x \in Int : n = Size(c) /\ x = c.index
      BY <1>1, SizeIsNat DEF Track
    <2>2. Len(c.segs) < c.cfg.segments
      <3>1. c.segs = <<>>
        BY <1>1 DEF Good, OneSegment
      <3>2. c.cfg.segments \in Nat \ {0}
        BY <1>1 DEF Track, Settled
      <3> QED BY <3>1, <3>2
    <2>3. {} \in SUBSET {"rearm", "short"}
      OBVIOUS
    <2>4. /\ g \in Track /\ Ring(g) /\ Joined(g) /\ Grown(c, g) /\ Counts(g, t)
          /\ g.cfg = c.cfg /\ g.gen = c.gen /\ g.rearm_waiting = c.rearm_waiting /\ g.floor = c.floor
      BY <1>1, <2>1, <2>2, <2>3, SegmentMade
    <2>5. TickOneShot(c, t) = [g EXCEPT !.state = "done"]
      BY <1>3 DEF TickOneShot
    <2> HIDE DEF g
    <2> DEFINE e == TickOneShot(c, t)
    <2>6. /\ e \in Track /\ SameRing(g, e) /\ e.state = "done"
          /\ e.samples = g.samples /\ e.rearm = g.rearm /\ e.first = g.first /\ e.floor = g.floor
          /\ e.rearm_waiting = g.rearm_waiting
      BY <2>4, <2>5, Restated DEF States
    <2> HIDE DEF e
    <2>7. Ring(e) /\ Grown(c, e)
      BY <2>4, <2>6, SameRingKeeps
    <2>8. Joined(e)
      BY <2>4, <2>6, SameRingKeeps DEF Joined
    <2>9. Counts(e, t)
      BY <2>4, <2>6 DEF Counts, SameRing
    <2>10. OneSegment(e)
      BY <1>1, <2>4, <2>6 DEF OneSegment, Good, SameRing
    <2>11. ~Streams(e) /\ e.cfg = c.cfg /\ e.gen = c.gen
      BY <1>1, <2>4, <2>6 DEF Streams, SameRing
    <2> QED BY <1>1, <2>6, <2>7, <2>8, <2>9, <2>10, <2>11 DEF Good, Later, e
  <1> QED BY <1>2, <1>3
\* The fields that change when a segment is finished and when the next waits for its trigger.
LEMMA SpentFields ==
  ASSUME NEW g \in Track, NEW s, s = Spent(g)
  PROVE  /\ s \in Track /\ SameRing(g, s) /\ s.state = g.state /\ s.first = 0 /\ s.index = None
         /\ s.samples = g.samples /\ s.rearm = g.rearm /\ s.floor = g.floor /\ s.rearm_waiting = g.rearm_waiting
  <1>1. PICK z \in Int, y \in Int : z = 0 /\ y = None
    BY DEF None
  <1>2. s = [g EXCEPT !.first = z, !.index = y]
    BY <1>1, Zenon DEF Spent
  <1>3. /\ s \in Track /\ SameRing(g, s) /\ s.state = g.state /\ s.first = z /\ s.index = y
        /\ s.samples = g.samples /\ s.rearm = g.rearm /\ s.floor = g.floor /\ s.rearm_waiting = g.rearm_waiting
    BY <1>2, ZenonT(60) DEF Track, SameRing
  <1> QED BY <1>1, <1>3

\* What a rearm leaves as it was.
LEMMA RearmFields ==
  ASSUME NEW s \in Track, NEW r, r = RearmAfter(s)
  PROVE  /\ r \in Track /\ SameRing(s, r) /\ r.state = s.state /\ r.first = s.first /\ r.index = s.index
         /\ r.samples = s.samples /\ r.rearm = s.rearm /\ r.floor = s.produced /\ r.rearm_waiting
         /\ r.scan = s.produced
  <1>1. PICK w \in BOOLEAN, p \in Int : w = TRUE /\ p = s.produced
    BY DEF Track
  <1>2. r = [s EXCEPT !.rearm_waiting = w, !.floor = p, !.scan = p]
    BY <1>1, Zenon DEF RearmAfter
  <1>3. /\ r \in Track /\ SameRing(s, r) /\ r.state = s.state /\ r.first = s.first /\ r.index = s.index
        /\ r.samples = s.samples /\ r.rearm = s.rearm /\ r.floor = p /\ r.rearm_waiting = w
        /\ r.scan = p
    BY <1>2, ZenonT(60) DEF Track, SameRing
  <1> QED BY <1>1, <1>3

\* A repeat finishes a segment: the next waits for its trigger where rearm is on, and a full ring pauses.
LEMMA RoundMade ==
  ASSUME NEW c, NEW t \in Nat, Good(c, t), c.cfg.mode = "repeat", c.state = "capturing", ~c.rearm_waiting,
         ~(Due(c, t) - c.produced < Size(c)), Len(c.segs) < c.cfg.segments,
         NEW own \in SUBSET {"rearm", "short"},
         NEW g, g = Segment(c, Size(c), c.index, own),
         NEW s, s = Spent(g),
         NEW r, r = IF c.rearm /\ c.cfg.trigger # "none" THEN RearmAfter(s) ELSE s,
         NEW e, e = Pause(r)
  PROVE  /\ Good(e, t) /\ Later(c, e) /\ SameRing(g, e) /\ e.first = 0 /\ e.index = None
         /\ e.rearm = c.rearm
         /\ e.rearm_waiting <=> c.rearm /\ c.cfg.trigger # "none"
         /\ e.floor = IF c.rearm /\ c.cfg.trigger # "none" THEN e.produced ELSE c.floor
         /\ e.rearm_waiting => e.scan = e.produced
         /\ e.state = IF Len(e.segs) >= e.cfg.segments THEN "paused" ELSE "capturing"
  <1>1. ~Streams(c) /\ ~Idle(c) /\ c \in Track
    BY DEF Streams, Idle, Good
  <1>2. PICK n \in Nat \ {0}, x \in Int : n = Size(c) /\ x = c.index
    BY <1>1, SizeIsNat DEF Track
  <1>3. c.t0 \in Int /\ c.produced \in Int /\ c.t0 + c.produced + n <= t
    <2>1. c.t0 \in Int /\ c.produced \in Int
      BY <1>1 DEF Track
    <2> QED BY <2>1, <1>2 DEF Due
  <1>4. /\ g \in Track /\ Ring(g) /\ Joined(g) /\ Grown(c, g) /\ Counts(g, t) /\ g.state = "capturing"
        /\ g.cfg = c.cfg /\ g.gen = c.gen /\ g.rearm_waiting = c.rearm_waiting /\ g.floor = c.floor
        /\ g.samples = c.samples /\ g.rearm = c.rearm /\ g.t0 = c.t0
    <2>1. g = Segment(c, n, x, own)
      BY <1>2
    <2> QED BY <1>1, <1>3, <2>1, SegmentMade
  <1>5. /\ s \in Track /\ SameRing(g, s) /\ s.state = "capturing" /\ s.first = 0 /\ s.index = None
        /\ s.samples = g.samples /\ s.rearm = g.rearm /\ s.floor = g.floor /\ s.rearm_waiting = g.rearm_waiting
    BY <1>4, SpentFields
  <1> DEFINE on == c.rearm /\ c.cfg.trigger # "none"
  <1>6. /\ r \in Track /\ SameRing(g, r) /\ r.state = "capturing" /\ r.first = 0 /\ r.index = None
        /\ r.samples = g.samples /\ r.rearm = g.rearm /\ r.floor = (IF on THEN r.produced ELSE c.floor)
        /\ r.rearm_waiting <=> on
        /\ on => r.scan = r.produced
    <2>1. CASE on
      <3>3. /\ r \in Track /\ SameRing(s, r) /\ r.state = s.state /\ r.first = s.first /\ r.index = s.index
            /\ r.samples = s.samples /\ r.rearm = s.rearm /\ r.floor = s.produced /\ r.rearm_waiting
            /\ r.scan = s.produced
        BY <1>5, <2>1, RearmFields
      <3>4. SameRing(g, r) /\ r.produced = s.produced
        BY <1>5, <3>3 DEF SameRing
      <3> QED BY <1>5, <2>1, <3>3, <3>4
    <2>2. CASE ~on
      <3>1. r = s
        BY <2>2
      <3> QED BY <1>4, <1>5, <2>2, <3>1
    <2> QED BY <2>1, <2>2
  <1>7. /\ e \in Track /\ SameRing(g, e) /\ e.first = 0 /\ e.index = None
        /\ e.samples = g.samples /\ e.rearm = g.rearm /\ e.floor = (IF on THEN e.produced ELSE c.floor)
        /\ e.rearm_waiting <=> on
        /\ on => e.scan = e.produced
        /\ e.state = IF Len(e.segs) >= e.cfg.segments THEN "paused" ELSE "capturing"
    <2>1. CASE Len(r.segs) >= r.cfg.segments
      <3>1. e = [r EXCEPT !.state = "paused"]
        BY <2>1 DEF Pause
      <3>2. /\ e \in Track /\ SameRing(r, e) /\ e.state = "paused"
            /\ e.samples = r.samples /\ e.rearm = r.rearm /\ e.first = r.first /\ e.index = r.index /\ e.floor = r.floor
            /\ e.rearm_waiting = r.rearm_waiting /\ e.scan = r.scan
        BY <1>6, <3>1, Restated DEF States
      <3>3. SameRing(g, e) /\ e.produced = r.produced /\ e.segs = r.segs /\ e.cfg = r.cfg
        BY <1>6, <3>2 DEF SameRing
      <3> QED BY <1>6, <2>1, <3>2, <3>3
    <2>2. CASE ~(Len(r.segs) >= r.cfg.segments)
      <3>1. e = r
        BY <2>2 DEF Pause
      <3> QED BY <1>6, <2>2, <3>1
    <2> QED BY <2>1, <2>2
  <1>8. Ring(e) /\ Grown(c, e)
    BY <1>4, <1>7, SameRingKeeps
  <1>9. Joined(e)
    <2>1. e.state # "waiting" /\ (g.cfg.trigger = "none" => ~e.rearm_waiting)
      BY <1>4, <1>7
    <2> QED BY <1>4, <1>7, <2>1, SameRingKeeps
  <1>10. Counts(e, t)
    <2>1. 0 <= e.floor /\ e.floor <= e.produced
      <3>1. 0 <= g.floor /\ g.floor <= g.produced /\ g.floor \in Int /\ g.produced \in Int
        BY <1>4 DEF Counts, Track
      <3>2. e.produced = g.produced
        BY <1>7 DEF SameRing
      <3> QED BY <1>4, <1>7, <3>1, <3>2
    <2>2. e.rearm_waiting => e.rearm
      BY <1>4, <1>7
    <2> QED BY <1>4, <1>7, <2>1, <2>2 DEF Counts, SameRing
  <1>11. OneSegment(e) /\ ~Streams(e) /\ e.cfg = c.cfg /\ e.gen = c.gen
    BY <1>4, <1>7 DEF OneSegment, SameRing, Streams
  <1> QED BY <1>1, <1>4, <1>7, <1>8, <1>9, <1>10, <1>11 DEF Good, Later

\* A full ring pauses a repeat that has the samples of one more.
LEMMA PausedGood ==
  ASSUME NEW c, NEW t \in Nat, Good(c, t), c.cfg.mode = "repeat", c.state = "capturing",
         NEW e, e = [c EXCEPT !.state = "paused"]
  PROVE  Good(e, t) /\ Later(c, e)
  <1>1. c \in Track /\ ~Streams(c) /\ ~Idle(c) /\ Ring(c) /\ Counts(c, t) /\ Joined(c)
    BY DEF Good, Streams, Idle
  <1>2. /\ e \in Track /\ SameRing(c, e) /\ e.state = "paused"
        /\ e.samples = c.samples /\ e.rearm = c.rearm /\ e.first = c.first /\ e.floor = c.floor
        /\ e.rearm_waiting = c.rearm_waiting
    BY <1>1, Restated DEF States
  <1>3. Grown(c, c)
    BY <1>1, LaterSelf DEF Later
  <1>4. Ring(e) /\ Grown(c, e)
    BY <1>1, <1>2, <1>3, SameRingKeeps
  <1>5. Joined(e)
    BY <1>1, <1>2, SameRingKeeps DEF Joined
  <1>6. Counts(e, t) /\ OneSegment(e) /\ ~Streams(e) /\ e.cfg = c.cfg /\ e.gen = c.gen
    BY <1>1, <1>2 DEF Counts, OneSegment, Streams, SameRing
  <1> QED BY <1>1, <1>2, <1>4, <1>5, <1>6 DEF Good, Later

\* One round of repeat's loop.
LEMMA RoundGood ==
  ASSUME NEW c, NEW t \in Nat, NEW E, Good(c, t), c.cfg.mode = "repeat"
  PROVE  Good(RepeatRound(c, t, E), t) /\ Later(c, RepeatRound(c, t, E))
  <1> DEFINE d == Poll(c, t, E)
             own == IF d.rearm /\ d.index # None THEN {"rearm"} ELSE {}
             g == Segment(d, Size(d), d.index, own)
             s == Spent(g)
             r == IF d.rearm /\ d.cfg.trigger # "none" THEN RearmAfter(s) ELSE s
             e == RepeatRound(c, t, E)
  <1>1. Good(d, t) /\ Later(c, d) /\ d.cfg.mode = "repeat" /\ c \in Track /\ d \in Track
    BY PollGood DEF Later, Good
  <1>2. own \in SUBSET {"rearm", "short"}
    OBVIOUS
  <1>3. /\ d.state # "capturing" \/ d.rearm_waiting => e = d
        /\ d.state = "capturing" /\ ~d.rearm_waiting =>
             /\ Due(d, t) - d.produced < Size(d) => e = d
             /\ ~(Due(d, t) - d.produced < Size(d)) =>
                  /\ Len(d.segs) >= d.cfg.segments => e = [d EXCEPT !.state = "paused"]
                  /\ ~(Len(d.segs) >= d.cfg.segments) => e = Pause(r)
    BY DEF RepeatRound, RoundAfter
  <1> HIDE DEF d, own, g, s, r, e
  <1>4. Good(e, t) /\ Later(d, e)
    <2>1. CASE e = d
      BY <1>1, <2>1, LaterSelf
    <2>2. CASE e # d
      <3>1. d.state = "capturing" /\ ~d.rearm_waiting /\ ~(Due(d, t) - d.produced < Size(d))
        BY <1>3, <2>2
      <3>2. CASE Len(d.segs) >= d.cfg.segments
        BY <1>1, <1>3, <3>1, <3>2, PausedGood
      <3>3. CASE ~(Len(d.segs) >= d.cfg.segments)
        <4>1. Len(d.segs) < d.cfg.segments
          <5>1. d.segs \in Seq(Record) /\ d.cfg.segments \in Nat
            BY <1>1 DEF Track, Settled
          <5>2. Len(d.segs) \in Nat
            BY <5>1
          <5> QED BY <5>1, <5>2, <3>3
        <4>2. e = Pause(r)
          BY <1>3, <3>1, <3>3
        <4>3. g = Segment(d, Size(d), d.index, own) /\ s = Spent(g)
              /\ r = (IF d.rearm /\ d.cfg.trigger # "none" THEN RearmAfter(s) ELSE s)
          BY DEF g, s, r
        <4> HIDE DEF g, s, r
        <4> QED BY <1>1, <1>2, <3>1, <4>1, <4>2, <4>3, RoundMade
      <3> QED BY <3>2, <3>3
    <2> QED BY <2>1, <2>2
  <1>5. Later(c, e)
    BY <1>1, <1>4, LaterTwice DEF Good
  <1> QED BY <1>4, <1>5 DEF e

\* Rounds one after another.
IsRun(f, c, t, E, n) == f = [k \in 0..n |-> IF k = 0 THEN c ELSE RepeatRound(f[k - 1], t, E)]

\* There are rounds one after another, however many.
LEMMA RunExists ==
  ASSUME NEW c, NEW t, NEW E, NEW n \in Nat
  PROVE  \E f : IsRun(f, c, t, E, n)
  <1> DEFINE T == {m \in Nat : ~\E f : IsRun(f, c, t, E, m)}
  <1> SUFFICES ASSUME T # {} PROVE FALSE
    OBVIOUS
  <1>1. PICK m \in T : \A x \in T : m <= x
    BY LeastOf
  <1>2. m # 0
    <2>1. IsRun([k \in 0..0 |-> c], c, t, E, 0)
      BY DEF IsRun
    <2> QED BY <2>1
  <1>3. m - 1 \in Nat /\ m - 1 \notin T
    BY <1>1, <1>2
  <1>4. PICK f : IsRun(f, c, t, E, m - 1)
    BY <1>3
  <1> DEFINE g == [k \in 0..m |-> IF k = m THEN RepeatRound(f[m - 1], t, E) ELSE f[k]]
  <1>5. \A k \in 0..m : g[k] = IF k = 0 THEN c ELSE RepeatRound(g[k - 1], t, E)
    <2> SUFFICES ASSUME NEW k \in 0..m PROVE g[k] = IF k = 0 THEN c ELSE RepeatRound(g[k - 1], t, E)
      OBVIOUS
    <2>1. m \in Nat
      OBVIOUS
    <2>2. CASE k = m
      BY <2>1, <2>2, <1>2
    <2>3. CASE k # m
      <3>1. k \in 0..(m - 1)
        BY <2>1, <2>3
      <3>2. f[k] = IF k = 0 THEN c ELSE RepeatRound(f[k - 1], t, E)
        BY <3>1, <1>4 DEF IsRun
      <3>3. g[k] = f[k]
        BY <2>3
      <3>4. k # 0 => g[k - 1] = f[k - 1]
        BY <3>1, <2>1
      <3> QED BY <3>2, <3>3, <3>4
    <2> QED BY <2>2, <2>3
  <1>6. IsRun(g, c, t, E, m)
    BY <1>5 DEF IsRun
  <1> QED BY <1>6

\* Whatever every round keeps, repeat's loop keeps.
LEMMA RoundsKeep ==
  ASSUME NEW c, NEW t, NEW E, c.cfg.segments \in Nat,
         NEW S, c \in S, \A d \in S : RepeatRound(d, t, E) \in S
  PROVE  TickRepeat(c, t, E) \in S
  <1> DEFINE n == c.cfg.segments + 2
             r == CHOOSE f : f = [k \in 0..n |-> IF k = 0 THEN c ELSE RepeatRound(f[k - 1], t, E)]
  <1>1. r = [k \in 0..n |-> IF k = 0 THEN c ELSE RepeatRound(r[k - 1], t, E)]
    <2>1. n \in Nat
      OBVIOUS
    <2> QED BY <2>1, RunExists DEF IsRun
  <1>2. TickRepeat(c, t, E) = r[n]
    BY DEF TickRepeat
  <1> DEFINE T == {m \in Nat : m <= n /\ r[m] \notin S}
  <1>3. T = {}
    <2> SUFFICES ASSUME T # {} PROVE FALSE
      OBVIOUS
    <2>1. PICK m \in T : \A x \in T : m <= x
      BY LeastOf
    <2> HIDE DEF r
    <2>2. r[m] = IF m = 0 THEN c ELSE RepeatRound(r[m - 1], t, E)
      BY <1>1
    <2>3. m = 0 \/ (m - 1 \in Nat /\ m - 1 \notin T /\ m - 1 <= n)
      BY <2>1
    <2> QED BY <2>2, <2>3
  <1> HIDE DEF r
  <1>4. n \in Nat /\ n \notin T
    BY <1>3
  <1> QED BY <1>2, <1>4

\* A repeat's tick.
LEMMA RepeatGood ==
  ASSUME NEW c, NEW t \in Nat, NEW E, Good(c, t), c.cfg.mode = "repeat"
  PROVE  Good(TickRepeat(c, t, E), t) /\ Later(c, TickRepeat(c, t, E))
  <1> DEFINE S == {d \in Track : Good(d, t) /\ Later(c, d)}
  <1>1. c.cfg.segments \in Nat /\ c \in S
    BY LaterSelf DEF Good, Track, Settled
  <1>2. ASSUME NEW d \in S PROVE RepeatRound(d, t, E) \in S
    <2>1. d.cfg.mode = "repeat"
      BY DEF Later
    <2>2. Good(RepeatRound(d, t, E), t) /\ Later(d, RepeatRound(d, t, E))
      BY <2>1, RoundGood
    <2> QED BY <2>2, LaterTwice, <1>1 DEF Good
  <1> QED BY <1>1, <1>2, RoundsKeep

---------------------------------------------------------------------------
(* Streams. *)

\* What a stream makes of its bytes leaves a track, its plan and its generation.
SamePlan(c, d) ==
  d \in Track /\ d.cfg = c.cfg /\ d.gen = c.gen /\ d.segs = c.segs /\ d.t0 = c.t0 /\ (c.base <= c.sent => d.base <= d.sent)

\* A stream that takes samples.
LEMMA StreamSamplesKeep ==
  ASSUME NEW c \in Track, NEW t \in Nat, NEW most \in Int
  PROVE  SamePlan(c, StreamSamples(c, t, most)) /\ StreamSamples(c, t, most).state = c.state
  <1> DEFINE n == Lower(Due(c, t) - c.produced, most)
             done == StreamDone(c, c.produced + n - c.begin)
             D == c.data \o Bytes(c, n)
             p == c.produced + n
             z == StreamDoneSamples(c, done)
             e == StreamSamples(c, t, most)
  <1>1. c.data \in Seq(Int) /\ c.produced \in Int /\ c.t0 \in Int /\ c.begin \in Int /\ c.samples \in Nat \ {0} /\ c.first \in Int
    BY DEF Track
  <1>2. n \in Int
    BY <1>1 DEF Lower, Due
  <1>3. Size(c) \in Int
    BY <1>1 DEF Size
  <1> HIDE DEF n
  <1>4. done \in Int
    <2>1. \A x \in Int, y \in Int : y > 0 => x \div y \in Int
      OBVIOUS
    <2>2. PICK x \in Int, y \in Int : x = (c.produced + n - c.begin) - Size(c) /\ y = c.samples /\ y > 0
      BY <1>1, <1>2, <1>3, SMTT(30)
    <2>3. x \div y \in Int
      BY <2>1, <2>2
    <2>4. 1 + x \div y \in Int /\ 0 \in Int
      BY <2>3
    <2>5. CASE c.produced + n - c.begin < Size(c)
      <3>1. done = 0
        BY <2>5, Zenon DEF StreamDone, done
      <3> QED BY <3>1
    <2>6. CASE ~(c.produced + n - c.begin < Size(c))
      <3>1. done = 1 + ((c.produced + n - c.begin) - Size(c)) \div c.samples
        BY <2>6, Zenon DEF StreamDone, done
      <3>2. done = 1 + x \div y
        BY <2>2, <3>1, Zenon
      <3> QED BY <2>4, <3>2
    <2> QED BY <2>5, <2>6
  <1> HIDE DEF done
  <1>5. z \in Int
    BY <1>1, <1>3, <1>4 DEF StreamDoneSamples
  <1>6. p \in Int
    BY <1>1, <1>2
  <1>7. e = IF n <= 0 THEN c ELSE [c EXCEPT !.data = D, !.produced = p, !.done = done, !.committed = z]
    BY DEF StreamSamples, n, done
  <1>8. CASE n <= 0
    BY <1>7, <1>8 DEF SamePlan
  <1>9. CASE ~(n <= 0)
    <2>1. D \in Seq(Int)
      <3>1. Bytes(c, n) \in Seq(Int)
        BY <1>1, <1>2, <1>9 DEF Bytes
      <3> QED BY <1>1, <3>1
    <2> HIDE DEF e, D, p, z
    <2>2. e = [c EXCEPT !.data = D, !.produced = p, !.done = done, !.committed = z]
      BY <1>7, <1>9
    <2>3. e \in Track /\ e.cfg = c.cfg /\ e.gen = c.gen /\ e.segs = c.segs /\ e.state = c.state /\ e.base = c.base /\ e.sent = c.sent /\ e.t0 = c.t0
      BY <1>4, <1>5, <1>6, <2>1, <2>2, ZenonT(60) DEF Track
    <2> QED BY <2>3 DEF SamePlan, e
  <1> QED BY <1>8, <1>9

\* A part of a sequence.
LEMMA Slicing ==
  ASSUME NEW S, NEW s \in Seq(S), NEW a \in Int, NEW b \in Int, 1 <= a, b <= Len(s)
  PROVE  /\ SubSeq(s, a, b) \in Seq(S) /\ Len(SubSeq(s, a, b)) = IF a <= b THEN b - a + 1 ELSE 0
         /\ \A i \in 1..(b - a + 1) : SubSeq(s, a, b)[i] = s[a + i - 1]
  OBVIOUS

\* A stream that fell too far behind.
LEMMA OverflowKeeps ==
  ASSUME NEW c \in Track
  PROVE  SamePlan(c, Overflow(c)) /\ Overflow(c).state = "error"
  <1> DEFINE keep == IF c.cfg.mode = "streaming" THEN Lower(c.committed, End(c)) ELSE End(c)
             D == SubSeq(c.data, 1, Higher(0, keep - c.base))
             b == Lower(c.base, keep)
             e == Overflow(c)
  <1>1. c.data \in Seq(Int) /\ c.base \in Int /\ c.committed \in Int /\ Len(c.data) \in Nat
    <2>1. c.data \in Seq(Int) /\ c.base \in Int /\ c.committed \in Int
      BY DEF Track
    <2> QED BY <2>1
  <1>2. keep \in Int /\ keep <= c.base + Len(c.data)
    BY <1>1 DEF Lower, End
  <1> HIDE DEF keep
  <1>3. D \in Seq(Int)
    <2> DEFINE h == Higher(0, keep - c.base)
    <2>1. h \in Int /\ h <= Len(c.data)
      BY <1>1, <1>2 DEF Higher
    <2> HIDE DEF h
    <2>2. PICK d \in Seq(Int) : d = c.data
      BY <1>1
    <2>3. SubSeq(d, 1, h) \in Seq(Int)
      BY <2>1, <2>2, Slicing
    <2> QED BY <2>2, <2>3 DEF h
  <1>4. b \in Int
    BY <1>1, <1>2 DEF Lower
  <1>5. PICK w \in BOOLEAN, x \in States : w = TRUE /\ x = "error"
    BY DEF States
  <1>6. e = [c EXCEPT !.data = D, !.base = b, !.state = "error", !.dropped = TRUE]
    BY DEF Overflow, keep
  <1> HIDE DEF D, b, e
  <1>7. e = [c EXCEPT !.data = D, !.base = b, !.state = x, !.dropped = w]
    BY <1>5, <1>6
  <1>8. e \in Track /\ e.cfg = c.cfg /\ e.gen = c.gen /\ e.segs = c.segs /\ e.state = x /\ e.base = b /\ e.sent = c.sent /\ e.t0 = c.t0
    BY <1>3, <1>4, <1>7, ZenonT(60) DEF Track
  <1>9. c.base <= c.sent => b <= c.sent
    <2>1. c.sent \in Int
      BY DEF Track
    <2> QED BY <2>1, <1>1, <1>2 DEF Lower, b
  <1> QED BY <1>5, <1>8, <1>9 DEF SamePlan, e

\* A stream while time passes.
LEMMA TickStreamKeeps ==
  ASSUME NEW c \in Track, NEW t \in Nat
  PROVE  SamePlan(c, TickStream(c, t))
  BY OverflowKeeps, StreamSamplesKeep, CaptureAssumption DEF TickStream, CaptureAssumption

\* Time passes.
LEMMA TickGood ==
  ASSUME NEW c, NEW t \in Nat, NEW E, Good(c, t)
  PROVE  Good(Tick(c, t, E), t) /\ Later(c, Tick(c, t, E))
  <1> DEFINE d == Poll(c, t, E)
             e == TickCapturing(d, t, E)
  <1>1. Good(d, t) /\ Later(c, d) /\ d \in Track /\ c \in Track /\ d.cfg \in Settled
    <2>1. Good(d, t) /\ Later(c, d)
      BY PollGood
    <2>2. d \in Track /\ c \in Track
      BY <2>1 DEF Good
    <2> QED BY <2>1, <2>2 DEF Track
  <1>2. e = Tick(c, t, E)
    BY DEF Tick
  <1> HIDE DEF d
  <1>3. Good(e, t) /\ Later(d, e)
    <2>1. CASE d.state # "capturing"
      <3>1. e = d
        BY <2>1 DEF TickCapturing
      <3> QED BY <1>1, <3>1, LaterSelf
    <2>2. CASE d.state = "capturing" /\ d.cfg.mode = "one_shot"
      <3>1. e = TickOneShot(d, t)
        BY <2>2 DEF TickCapturing
      <3> QED BY <1>1, <2>2, <3>1, OneShotGood
    <2>3. CASE d.state = "capturing" /\ d.cfg.mode = "repeat"
      <3>1. e = TickRepeat(d, t, E)
        BY <2>3 DEF TickCapturing
      <3> QED BY <1>1, <2>3, <3>1, RepeatGood
    <2>4. CASE d.state = "capturing" /\ d.cfg.mode = "streaming"
      <3>1. e = TickStream(d, t)
        BY <2>4 DEF TickCapturing
      <3>2. SamePlan(d, e)
        BY <1>1, <3>1, TickStreamKeeps
      <3>3. ~Idle(d)
        BY <2>4 DEF Idle
      <3> QED BY <1>1, <2>4, <3>2, <3>3 DEF SamePlan, Good, Later, Streams
    <2>5. d.cfg.mode \in {"one_shot", "repeat", "streaming"}
      BY <1>1 DEF Settled
    <2> QED BY <2>1, <2>2, <2>3, <2>4, <2>5
  <1> QED BY <1>1, <1>2, <1>3, LaterTwice DEF Good

---------------------------------------------------------------------------
(* Configured, started, stopped. *)

\* A track without a plan.
LEMMA FreshGood ==
  ASSUME NEW g \in Nat, NEW t \in Nat
  PROVE  Good(Fresh(g), t) /\ Idle(Fresh(g)) /\ Fresh(g).gen = g
  <1> DEFINE e == Fresh(g)
  <1>a. PICK w \in BOOLEAN, v \in BOOLEAN, x \in States : w = FALSE /\ v = TRUE /\ x = "unconfigured"
    BY DEF States
  <1>b. PICK z \in Int, o \in Nat \ {0}, y \in Int : z = 0 /\ o = 1 /\ y = None
    BY DEF None
  <1>c. PICK q \in Seq(Int), s \in Seq(Record) : q = <<>> /\ s = <<>>
    <2>1. <<>> \in Seq(Int) /\ <<>> \in Seq(Record)
      OBVIOUS
    <2> QED BY <2>1, Zenon
  <1>1. w = FALSE /\ v = TRUE /\ x = "unconfigured" /\ z = 0 /\ o = 1 /\ y = None /\ q = <<>> /\ s = <<>>
    BY <1>a, <1>b, <1>c
  <1>2. PICK f \in Settled : f = NoConfig
    <2>1. NoConfig = [mode |-> "one_shot", samples |-> o, segments |-> o, trigger |-> "none", pretrigger |-> z,
                     arm |-> v, rearm |-> w]
      BY <1>1, Zenon DEF NoConfig
    <2>2. NoConfig.pretrigger < NoConfig.samples
      <3>1. NoConfig.pretrigger = z /\ NoConfig.samples = o
        BY <2>1, Zenon
      <3> QED BY <3>1, <1>1
    <2>3. NoConfig \in [mode : {"one_shot", "repeat", "streaming"}, samples : Nat \ {0}, segments : Nat \ {0},
                        trigger : {"none", "rise", "fall", "either", "linked"}, pretrigger : Nat, arm : BOOLEAN,
                        rearm : BOOLEAN]
      <3>1. z \in Nat
        BY <1>1
      <3> HIDE DEF NoConfig
      <3> QED BY <2>1, <3>1, Zenon
    <2> QED BY <2>2, <2>3, Zenon DEF Settled
  <1>3. e = [state |-> x, cfg |-> f, samples |-> o, rearm |-> w, gen |-> g, t0 |-> z, bound |-> w,
             dropped |-> w, data |-> q, base |-> z, segs |-> s, done |-> z, produced |-> z, sent |-> z,
             gap_next |-> w, drop_until |-> z, begin |-> z, first |-> z, index |-> y, committed |-> z, floor |-> z,
             scan |-> z, seen |-> w, rearm_waiting |-> w]
    BY <1>1, <1>2, Zenon DEF Fresh
  <1> HIDE DEF e
  <1>4. e \in Track
    BY <1>3, Zenon DEF Track
  <1>5. /\ e.state = x /\ e.cfg = f /\ e.samples = o /\ e.rearm = w /\ e.gen = g /\ e.t0 = z /\ e.data = q /\ e.base = z
        /\ e.segs = s /\ e.done = z /\ e.produced = z /\ e.sent = z /\ e.gap_next = w /\ e.drop_until = z
        /\ e.first = z /\ e.floor = z /\ e.rearm_waiting = w
    BY <1>3, Zenon
  <1>6. e.state = "unconfigured" /\ e.data = <<>> /\ e.base = 0 /\ e.segs = <<>> /\ e.sent = 0 /\ e.drop_until = 0 /\ ~e.rearm_waiting
    BY <1>1, <1>5
  <1>7. Idle(e)
    BY <1>6 DEF Idle
  <1>8. f.mode = "one_shot" /\ f.samples = 1 /\ f.segments = 1 /\ f.trigger = "none" /\ f.rearm = FALSE
    BY <1>2 DEF NoConfig
  <1>9. Ring(e)
    BY <1>5, <1>6, <1>8 DEF Ring, End
  <1>10. Counts(e, t)
    <2>1. e.samples = e.cfg.samples /\ e.rearm = e.cfg.rearm
      BY <1>1, <1>5, <1>8, Zenon
    <2>2. e.first = 0 /\ e.t0 = 0 /\ e.floor = 0 /\ e.produced = 0 /\ e.cfg.mode # "repeat" /\ ~e.rearm_waiting
      BY <1>b, <1>5, <1>6, <1>8
    <2> QED BY <2>1, <2>2 DEF Counts
  <1>11. OneSegment(e) /\ Joined(e) /\ ~Streams(e)
    BY <1>1, <1>5, <1>6, <1>8 DEF OneSegment, Joined, Streams
  <1> QED BY <1>4, <1>5, <1>7, <1>9, <1>10, <1>11 DEF Good, e

\* What a configure and a start forget, and what they leave.
LEMMA Cleared ==
  ASSUME NEW c \in Track, NEW e, e = Clear(c)
  PROVE  /\ e \in Track
         /\ e.state = c.state /\ e.cfg = c.cfg /\ e.samples = c.samples /\ e.rearm = c.rearm /\ e.gen = c.gen /\ e.t0 = c.t0
         /\ e.data = <<>> /\ e.base = 0 /\ e.segs = <<>> /\ e.done = 0 /\ e.produced = 0 /\ e.sent = 0
         /\ ~e.gap_next /\ e.drop_until = 0 /\ e.first = 0 /\ e.index = None /\ e.floor = 0 /\ ~e.rearm_waiting
         /\ e.scan = 0
  <1>c. PICK w \in BOOLEAN : w = FALSE
    OBVIOUS
  <1>a. PICK z \in Int, y \in Int : z = 0 /\ y = None
    BY DEF None
  <1>b. PICK q \in Seq(Int), s \in Seq(Record) : q = <<>> /\ s = <<>>
    <2>1. <<>> \in Seq(Int) /\ <<>> \in Seq(Record)
      OBVIOUS
    <2> QED BY <2>1, Zenon
  <1>1. w = FALSE /\ z = 0 /\ y = None /\ q = <<>> /\ s = <<>>
    BY <1>a, <1>b, <1>c
  <1>2. PICK d : d = [c EXCEPT !.data = q, !.base = z, !.segs = s, !.done = z, !.produced = z]
    OBVIOUS
  <1>3. PICK f : f = [d EXCEPT !.sent = z, !.gap_next = w, !.drop_until = z, !.begin = z, !.first = z]
    OBVIOUS
  <1>4. e = [f EXCEPT !.index = y, !.committed = z, !.floor = z, !.scan = z, !.seen = w, !.rearm_waiting = w]
    BY <1>1, <1>2, <1>3, Zenon DEF Clear
  <1>5. d \in Track
    BY <1>2, ZenonT(60) DEF Track
  <1>6. f \in Track
    BY <1>3, <1>5, ZenonT(60) DEF Track
  <1>7. e \in Track
    BY <1>4, <1>6, ZenonT(60) DEF Track
  <1>8. /\ e.state = c.state /\ e.cfg = c.cfg /\ e.samples = c.samples /\ e.rearm = c.rearm /\ e.gen = c.gen /\ e.t0 = c.t0
        /\ e.data = q /\ e.base = z /\ e.segs = s /\ e.done = z /\ e.produced = z /\ e.sent = z
        /\ e.gap_next = w /\ e.drop_until = z /\ e.first = z /\ e.index = y /\ e.floor = z /\ e.rearm_waiting = w
        /\ e.scan = z
    <2>1. /\ d.state = c.state /\ d.cfg = c.cfg /\ d.samples = c.samples /\ d.rearm = c.rearm /\ d.gen = c.gen
          /\ d.t0 = c.t0 /\ d.data = q /\ d.base = z /\ d.segs = s /\ d.done = z /\ d.produced = z
      BY <1>2, ZenonT(60) DEF Track
    <2>2. /\ f.state = d.state /\ f.cfg = d.cfg /\ f.samples = d.samples /\ f.rearm = d.rearm /\ f.gen = d.gen
          /\ f.t0 = d.t0 /\ f.data = d.data /\ f.base = d.base /\ f.segs = d.segs /\ f.done = d.done
          /\ f.produced = d.produced /\ f.sent = z /\ f.gap_next = w /\ f.drop_until = z /\ f.first = z
      BY <1>3, <1>5, ZenonT(60) DEF Track
    <2>3. /\ e.state = f.state /\ e.cfg = f.cfg /\ e.samples = f.samples /\ e.rearm = f.rearm /\ e.gen = f.gen
          /\ e.t0 = f.t0 /\ e.data = f.data /\ e.base = f.base /\ e.segs = f.segs /\ e.done = f.done
          /\ e.produced = f.produced /\ e.sent = f.sent /\ e.gap_next = f.gap_next /\ e.drop_until = f.drop_until
          /\ e.first = f.first /\ e.index = y /\ e.floor = z /\ e.rearm_waiting = w /\ e.scan = z
      BY <1>4, <1>6, ZenonT(60) DEF Track
    <2> QED BY <2>1, <2>2, <2>3, Zenon
  <1> QED BY <1>1, <1>7, <1>8

\* Configured.
LEMMA ApplyGood ==
  ASSUME NEW c \in Track, NEW f \in Settled, NEW t \in Nat, c.t0 <= t
  PROVE  Good(Apply(c, f), t) /\ Idle(Apply(c, f)) /\ Apply(c, f).gen = c.gen /\ Apply(c, f).cfg = f
  <1> DEFINE k == Clear(c)
             e == Apply(c, f)
  <1>1. /\ k \in Track
        /\ k.gen = c.gen /\ k.t0 = c.t0 /\ k.data = <<>> /\ k.base = 0 /\ k.segs = <<>> /\ k.done = 0 /\ k.produced = 0
        /\ k.sent = 0 /\ ~k.gap_next /\ k.drop_until = 0 /\ k.first = 0 /\ k.floor = 0 /\ ~k.rearm_waiting
    BY Cleared
  <1>2. PICK x \in States, n \in Nat \ {0}, w \in BOOLEAN : x = "configured" /\ n = f.samples /\ w = f.rearm
    BY DEF States, Settled
  <1>3. e = [k EXCEPT !.state = x, !.cfg = f, !.samples = n, !.rearm = w]
    BY <1>2, Zenon DEF Apply
  <1> HIDE DEF k, e
  <1>4. /\ e \in Track
        /\ e.state = x /\ e.cfg = f /\ e.samples = n /\ e.rearm = w /\ e.gen = k.gen /\ e.t0 = k.t0 /\ e.data = k.data
        /\ e.base = k.base /\ e.segs = k.segs /\ e.done = k.done /\ e.produced = k.produced /\ e.sent = k.sent
        /\ e.gap_next = k.gap_next /\ e.drop_until = k.drop_until /\ e.first = k.first /\ e.floor = k.floor
        /\ e.rearm_waiting = k.rearm_waiting
    BY <1>1, <1>3, ZenonT(60) DEF Track
  <1>5. Idle(e)
    BY <1>1, <1>2, <1>4 DEF Idle
  <1>6. f.segments \in Nat \ {0}
    BY DEF Settled
  <1>7. Ring(e)
    BY <1>1, <1>4, <1>6 DEF Ring, End
  <1>8. f.mode = "repeat" => e.t0 + e.produced <= t
    BY <1>1, <1>4 DEF Track
  <1>9. Counts(e, t)
    BY <1>1, <1>2, <1>4, <1>8 DEF Counts
  <1>10. OneSegment(e) /\ Joined(e)
    BY <1>1, <1>2, <1>4 DEF OneSegment, Joined
  <1> QED BY <1>1, <1>4, <1>5, <1>7, <1>9, <1>10 DEF Good, e

\* The next generation of c at its start, before it looks at its input.
Begun(c, s, t) ==
  /\ Good(s, t) /\ s.gen = c.gen + 1 /\ s.cfg = c.cfg /\ s.rearm = c.rearm
  /\ s.segs = <<>> /\ s.done = 0 /\ s.index = None /\ ~s.rearm_waiting /\ s.floor = 0 /\ s.scan = 0
  /\ s.state = IF c.cfg.trigger # "none" THEN "waiting" ELSE "capturing"

\* A start begins a new generation with an empty ring.
LEMMA StartBegins ==
  ASSUME NEW c, NEW t \in Nat, NEW E, Good(c, t)
  PROVE  \E s : Begun(c, s, t) /\ Start(c, t, FALSE, E) = IF s.state = "waiting" THEN Poll(s, t, E) ELSE Tick(s, t, E)
  <1> DEFINE k == Clear(c)
             s == [k EXCEPT !.gen = @ + 1, !.dropped = FALSE, !.t0 = t,
                            !.state = IF FALSE \/ c.cfg.trigger # "none" THEN "waiting" ELSE "capturing"]
             d == Start(c, t, FALSE, E)
  <1>1. c \in Track /\ (~Streams(c) => c.samples = c.cfg.samples /\ c.rearm = c.cfg.rearm)
    BY DEF Good, Counts
  <1>2. /\ k \in Track
        /\ k.cfg = c.cfg /\ k.samples = c.samples /\ k.rearm = c.rearm /\ k.gen = c.gen
        /\ k.data = <<>> /\ k.base = 0 /\ k.segs = <<>> /\ k.done = 0 /\ k.produced = 0 /\ k.sent = 0
        /\ ~k.gap_next /\ k.drop_until = 0 /\ k.first = 0 /\ k.index = None /\ k.floor = 0 /\ ~k.rearm_waiting
        /\ k.scan = 0
    BY <1>1, Cleared
  <1>3. d = IF s.state = "waiting" THEN Poll(s, t, E) ELSE Tick(s, t, E)
    BY DEF Start
  <1>a. PICK x \in States, w \in BOOLEAN : x = (IF c.cfg.trigger # "none" THEN "waiting" ELSE "capturing") /\ w = FALSE
    BY DEF States
  <1>b. PICK g \in Nat, u \in Int : g = c.gen + 1 /\ u = t
    BY <1>1 DEF Track
  <1>4. x = (IF c.cfg.trigger # "none" THEN "waiting" ELSE "capturing") /\ w = FALSE /\ g = c.gen + 1 /\ u = t
    BY <1>a, <1>b
  <1>5. s = [k EXCEPT !.gen = g, !.dropped = w, !.t0 = u, !.state = x]
    <2>1. k.gen = c.gen
      BY <1>2
    <2> HIDE DEF k
    <2>2. s = [k EXCEPT !.gen = k.gen + 1, !.dropped = FALSE, !.t0 = t,
                        !.state = IF c.cfg.trigger # "none" THEN "waiting" ELSE "capturing"]
      BY Zenon
    <2> HIDE DEF s
    <2> QED BY <2>1, <2>2, <1>4, Zenon
  <1> HIDE DEF k, s, d
  <1>6. /\ s \in Track
        /\ s.state = x /\ s.cfg = k.cfg /\ s.samples = k.samples /\ s.rearm = k.rearm /\ s.gen = g /\ s.t0 = u /\ s.data = k.data
        /\ s.base = k.base /\ s.segs = k.segs /\ s.done = k.done /\ s.produced = k.produced /\ s.sent = k.sent
        /\ s.gap_next = k.gap_next /\ s.drop_until = k.drop_until /\ s.first = k.first /\ s.index = k.index /\ s.floor = k.floor
        /\ s.rearm_waiting = k.rearm_waiting /\ s.scan = k.scan
    BY <1>2, <1>5, ZenonT(60) DEF Track
  <1>7. c.cfg.segments \in Nat \ {0}
    BY <1>1 DEF Track, Settled
  <1>8. Ring(s)
    BY <1>2, <1>6, <1>7 DEF Ring, End
  <1>9. ~Streams(c) => Counts(s, t)
    BY <1>1, <1>2, <1>4, <1>6 DEF Counts
  <1>10. OneSegment(s) /\ (Streams(s) <=> Streams(c))
    BY <1>2, <1>6 DEF OneSegment, Streams
  <1>11. Joined(s)
    BY <1>2, <1>4, <1>6 DEF Joined
  <1>12. s.base <= s.sent /\ s.segs = <<>> /\ s.t0 <= t
    BY <1>2, <1>4, <1>6
  <1>13. Good(s, t)
    BY <1>6, <1>8, <1>9, <1>10, <1>11, <1>12 DEF Good
  <1>14. Begun(c, s, t)
    BY <1>2, <1>4, <1>6, <1>13 DEF Begun
  <1> QED BY <1>3, <1>14 DEF d

\* The first tick of a start is of now.
LEMMA StartGood ==
  ASSUME NEW c, NEW t \in Nat, NEW E, Good(c, t)
  PROVE  LET d == Start(c, t, FALSE, E)
         IN Good(d, t) /\ d.gen = c.gen + 1 /\ d.cfg = c.cfg /\ (~Streams(c) => d.done = Len(d.segs))
  <1>1. PICK d : d = Start(c, t, FALSE, E)
    OBVIOUS
  <1>2. PICK s : Begun(c, s, t) /\ d = IF s.state = "waiting" THEN Poll(s, t, E) ELSE Tick(s, t, E)
    BY <1>1, StartBegins
  <1>3. Good(s, t) /\ s.gen = c.gen + 1 /\ s.cfg = c.cfg /\ s.segs = <<>> /\ s.done = 0
    BY <1>2 DEF Begun
  <1>4. Good(d, t) /\ Later(s, d)
    BY <1>2, <1>3, PollGood, TickGood
  <1>5. ASSUME ~Streams(c) PROVE d.done = Len(d.segs)
    <2>1. d.done - Len(d.segs) = s.done - Len(s.segs)
      BY <1>3, <1>4, <1>5 DEF Later, Grown, Streams
    <2>2. s.done = 0 /\ Len(s.segs) = 0
      BY <1>3
    <2>3. d.done \in Int /\ d.segs \in Seq(Record)
      BY <1>4 DEF Good, Track
    <2>4. Len(d.segs) \in Nat
      BY <2>3
    <2> QED BY <2>1, <2>2, <2>3, <2>4
  <1> QED BY <1>1, <1>3, <1>4, <1>5 DEF Later

\* A segment ended short.
LEMMA ShortMade ==
  ASSUME NEW c, NEW t \in Nat, Good(c, t), ~Streams(c), c.state = "capturing"
  PROVE  LET g == Shortened(c, t)
         IN /\ g \in Track /\ Ring(g) /\ Joined(g) /\ Grown(c, g) /\ Counts(g, t)
            /\ g.cfg = c.cfg /\ g.gen = c.gen /\ g.rearm_waiting = c.rearm_waiting /\ g.floor = c.floor
            /\ g.samples = c.samples /\ g.rearm = c.rearm
  <1> DEFINE due == IF c.cfg.mode = "one_shot" THEN OneShotDue(c, t) ELSE Due(c, t)
             n == Lower(Size(c) - 1, Higher(0, due - c.produced))
             x == IF c.index < n THEN c.index ELSE None
             g == Shortened(c, t)
  <1>1. /\ c \in Track /\ c.t0 \in Int /\ c.produced \in Int /\ c.index \in Int /\ Size(c) \in Nat \ {0} /\ ~Idle(c)
    <2>1. c \in Track /\ ~Idle(c)
      BY DEF Good, Idle
    <2> QED BY <2>1, SizeIsNat DEF Track
  <1>2. c.segs \in Seq(Record) /\ c.cfg.segments \in Nat
    BY <1>1 DEF Track, Settled
  <1>3. due \in Int /\ (c.cfg.mode = "repeat" => due = t - c.t0)
    BY <1>1 DEF OneShotDue, Due
  <1>4. n \in Nat /\ (n # 0 => n <= due - c.produced)
    <2> HIDE DEF due
    <2> QED BY <1>1, <1>3 DEF Lower, Higher
  <1>5. x \in Int
    BY <1>1 DEF None
  <1>6. /\ Len(c.segs) >= c.cfg.segments \/ c.rearm_waiting \/ n = 0 => g = c
        /\ ~(Len(c.segs) >= c.cfg.segments \/ c.rearm_waiting \/ n = 0) => g = Segment(c, n, x, {"short"})
    BY DEF Shortened
  <1> HIDE DEF due, n, x
  <1>7. /\ g \in Track /\ Ring(g) /\ Joined(g) /\ Grown(c, g) /\ Counts(g, t)
        /\ g.cfg = c.cfg /\ g.gen = c.gen /\ g.rearm_waiting = c.rearm_waiting /\ g.floor = c.floor
        /\ g.samples = c.samples /\ g.rearm = c.rearm
    <2>1. CASE Len(c.segs) >= c.cfg.segments \/ c.rearm_waiting \/ n = 0
      <3>1. g = c
        BY <1>6, <2>1
      <3> QED BY <3>1, <1>1, LaterSelf DEF Good, Later
    <2>2. CASE ~(Len(c.segs) >= c.cfg.segments \/ c.rearm_waiting \/ n = 0)
      <3>1. g = Segment(c, n, x, {"short"}) /\ n \in Nat \ {0}
        BY <1>4, <1>6, <2>2
      <3>2. Len(c.segs) < c.cfg.segments
        <4>1. Len(c.segs) \in Nat
          BY <1>2
        <4> QED BY <4>1, <1>2, <2>2
      <3>3. c.cfg.mode = "repeat" => c.t0 + c.produced + n <= t
        BY <1>1, <1>3, <1>4, <3>1
      <3>4. {"short"} \in SUBSET {"rearm", "short"}
        OBVIOUS
      <3> HIDE DEF g
      <3> QED BY <1>5, <3>1, <3>2, <3>3, <3>4, SegmentMade
    <2> QED BY <2>1, <2>2
  <1> QED BY <1>7

\* A stop makes what it has of a segment a short one.
LEMMA ShortenedGood ==
  ASSUME NEW c, NEW t \in Nat, Good(c, t), ~Streams(c), c.state = "capturing", NEW g, g = Shortened(c, t),
         NEW e, e = [g EXCEPT !.state = "configured"]
  PROVE  Good(e, t) /\ Later(c, e)
  <1>1. c \in Track /\ ~Idle(c)
    BY DEF Good, Idle
  <1>7. /\ g \in Track /\ Ring(g) /\ Joined(g) /\ Grown(c, g) /\ Counts(g, t)
        /\ g.cfg = c.cfg /\ g.gen = c.gen /\ g.rearm_waiting = c.rearm_waiting /\ g.floor = c.floor
        /\ g.samples = c.samples /\ g.rearm = c.rearm
    BY ShortMade
  <1>8. /\ e \in Track /\ SameRing(g, e) /\ e.state = "configured"
        /\ e.samples = g.samples /\ e.rearm = g.rearm /\ e.first = g.first /\ e.floor = g.floor
        /\ e.rearm_waiting = g.rearm_waiting
    BY <1>7, Restated DEF States
  <1>9. Ring(e) /\ Grown(c, e)
    BY <1>7, <1>8, SameRingKeeps
  <1>10. Joined(e)
    <2>1. e.cfg.trigger = "none" => ~e.rearm_waiting
      BY <1>7, <1>8 DEF Good, Joined, SameRing
    <2>2. g.cfg.trigger = "none" => e.state # "waiting" /\ ~e.rearm_waiting
      BY <1>8, <2>1 DEF SameRing
    <2> QED BY <1>7, <1>8, <2>2, SameRingKeeps
  <1>11. Counts(e, t) /\ OneSegment(e) /\ ~Streams(e) /\ e.cfg = c.cfg /\ e.gen = c.gen
    BY <1>7, <1>8 DEF Counts, OneSegment, Streams, SameRing, Good
  <1> QED BY <1>1, <1>8, <1>9, <1>10, <1>11 DEF Good, Later

\* A track put back to configured as it is.
LEMMA ConfiguredGood ==
  ASSUME NEW c, NEW t \in Nat, Good(c, t), NEW e, e = [c EXCEPT !.state = "configured"], ~Idle(c)
  PROVE  Good(e, t) /\ Later(c, e)
  <1>1. c \in Track
    BY DEF Good
  <1>2. /\ e \in Track /\ SameRing(c, e) /\ e.state = "configured"
        /\ e.samples = c.samples /\ e.rearm = c.rearm /\ e.first = c.first /\ e.floor = c.floor
        /\ e.rearm_waiting = c.rearm_waiting
    BY <1>1, Restated DEF States
  <1>3. CASE Streams(c)
    BY <1>2, <1>3 DEF Good, Later, Streams, SameRing
  <1>4. CASE ~Streams(c)
    <2>1. Ring(c) /\ Counts(c, t) /\ Joined(c) /\ OneSegment(c) /\ Grown(c, c)
      BY <1>1, <1>4, LaterSelf DEF Good, Later
    <2>2. Ring(e) /\ Grown(c, e)
      BY <2>1, <1>2, SameRingKeeps
    <2>3. Joined(e)
      <3>1. c.cfg.trigger = "none" => e.state # "waiting" /\ ~e.rearm_waiting
        BY <2>1, <1>2 DEF Joined
      <3> QED BY <2>1, <1>2, <3>1, SameRingKeeps
    <2>4. Counts(e, t) /\ OneSegment(e) /\ ~Streams(e) /\ e.cfg = c.cfg /\ e.gen = c.gen
      BY <1>2, <1>4, <2>1 DEF Counts, OneSegment, Streams, SameRing
    <2> QED BY <1>2, <2>2, <2>3, <2>4 DEF Good, Later
  <1> QED BY <1>3, <1>4

\* A stream's last segment.
LEMMA StreamEndedKeeps ==
  ASSUME NEW c \in Track, NEW t \in Nat
  PROVE  SamePlan(c, StreamEnded(c, t))
  <1> DEFINE s == StreamSamples(c, t, Higher(0, Due(c, t)))
             e == StreamEnded(c, t)
             long == s.produced - s.begin > StreamDoneSamples(s, s.done)
  <1>1. Higher(0, Due(c, t)) \in Int
    BY SMTT(30) DEF Track, Due, Higher
  <1>2. SamePlan(c, s)
    BY <1>1, StreamSamplesKeep
  <1>3. e = IF long THEN [s EXCEPT !.done = @ + 1, !.committed = End(s)] ELSE s
    BY DEF StreamEnded
  <1> HIDE DEF s, e, long
  <1>4. CASE ~long
    BY <1>2, <1>3, <1>4 DEF e
  <1>5. CASE long
    <2>1. s \in Track /\ s.done + 1 \in Int /\ End(s) \in Int
      <3>1. s \in Track
        BY <1>2 DEF SamePlan
      <3>2. s.done \in Int /\ s.base \in Int /\ s.data \in Seq(Int)
        BY <3>1 DEF Track
      <3>3. Len(s.data) \in Nat
        BY <3>2
      <3> QED BY <3>1, <3>2, <3>3 DEF End
    <2>2. PICK p \in Int, z \in Int : p = s.done + 1 /\ z = End(s)
      BY <2>1
    <2>3. e = [s EXCEPT !.done = p, !.committed = z]
      BY <1>3, <1>5, <2>2
    <2>4. e \in Track /\ e.cfg = s.cfg /\ e.gen = s.gen /\ e.segs = s.segs /\ e.base = s.base /\ e.sent = s.sent /\ e.t0 = s.t0
      BY <2>1, <2>3, ZenonT(60) DEF Track
    <2> QED BY <1>2, <2>4 DEF SamePlan, e
  <1> QED BY <1>4, <1>5

\* A stream goes from one track to another.
LEMMA StreamGood ==
  ASSUME NEW c, NEW t \in Nat, Good(c, t), Streams(c), ~Idle(c), NEW e, SamePlan(c, e)
  PROVE  Good(e, t) /\ Later(c, e)
  BY DEF SamePlan, Good, Later, Streams

\* A stop.
LEMMA StopGood ==
  ASSUME NEW c, NEW t \in Nat, NEW E, Good(c, t)
  PROVE  Good(Stop(c, t, E), t) /\ Later(c, Stop(c, t, E))
  <1> DEFINE d == Tick(c, t, E)
             m == StreamEnded(d, t)
             h == Shortened(d, t)
             e == Stop(c, t, E)
  <1>1. Good(d, t) /\ Later(c, d)
    BY TickGood
  <1>2. /\ d.state \in {"error", "waiting", "paused"} => e = [d EXCEPT !.state = "configured"]
        /\ d.state \notin {"error", "waiting", "paused", "capturing"} => e = d
        /\ d.state = "capturing" =>
             /\ Streams(d) => e = Overflow(d) \/ e = [m EXCEPT !.state = "configured"]
             /\ ~Streams(d) => e = [h EXCEPT !.state = "configured"]
    BY DEF Stop, Streams
  <1> HIDE DEF d, m, e, h
  <1>3. Good(e, t) /\ Later(d, e)
    <2>1. CASE d.state \in {"error", "waiting", "paused"}
      <3>1. ~Idle(d)
        BY <2>1 DEF Idle
      <3> QED BY <1>1, <1>2, <2>1, <3>1, ConfiguredGood
    <2>2. CASE d.state \notin {"error", "waiting", "paused", "capturing"}
      BY <1>1, <1>2, <2>2, LaterSelf DEF Good
    <2>3. CASE d.state = "capturing" /\ ~Streams(d)
      <3>1. e = [h EXCEPT !.state = "configured"] /\ h = Shortened(d, t)
        BY <1>2, <2>3 DEF h
      <3> QED BY <1>1, <2>3, <3>1, ShortenedGood
    <2>4. CASE d.state = "capturing" /\ Streams(d)
      <3>1. d \in Track /\ ~Idle(d)
        BY <1>1, <2>4 DEF Good, Idle
      <3>2. SamePlan(d, m)
        BY <3>1, StreamEndedKeeps DEF m
      <3>3. ASSUME e = [m EXCEPT !.state = "configured"] PROVE SamePlan(d, e)
        <4>1. m \in Track
          BY <3>2 DEF SamePlan
        <4>2. e \in Track /\ SameRing(m, e)
          BY <3>3, <4>1, Restated DEF States
        <4> QED BY <3>2, <4>2 DEF SamePlan, SameRing
      <3>4. SamePlan(d, e)
        BY <1>2, <2>4, <3>1, <3>3, OverflowKeeps
      <3> QED BY <1>1, <2>4, <3>1, <3>4, StreamGood
    <2> QED BY <2>1, <2>2, <2>3, <2>4
  <1>4. c \in Track /\ d \in Track /\ e \in Track
    BY <1>1, <1>3 DEF Good
  <1> QED BY <1>1, <1>3, <1>4, LaterTwice DEF e

---------------------------------------------------------------------------
(* Released. *)

\* The records chosen so far.
Chosen(x, segs, S, k) == IF segs[k].serial \in S THEN Append(x, segs[k]) ELSE x
\* Such choices, one after another.
IsChoice(f, segs, S, n) == f = [k \in 0..n |-> IF k = 0 THEN <<>> ELSE Chosen(f[k - 1], segs, S, k)]

\* Records can be chosen from any sequence of them.
LEMMA ChoiceExists ==
  ASSUME NEW segs, NEW S, NEW n \in Nat
  PROVE  \E f : IsChoice(f, segs, S, n)
  <1> DEFINE T == {m \in Nat : ~\E f : IsChoice(f, segs, S, m)}
  <1> SUFFICES ASSUME T # {} PROVE FALSE
    OBVIOUS
  <1>1. PICK m \in T : \A x \in T : m <= x
    BY LeastOf
  <1>2. m # 0
    <2>1. IsChoice([k \in 0..0 |-> <<>>], segs, S, 0)
      BY DEF IsChoice
    <2> QED BY <2>1
  <1>3. m - 1 \in Nat /\ m - 1 \notin T
    BY <1>1, <1>2
  <1>4. PICK f : IsChoice(f, segs, S, m - 1)
    BY <1>3
  <1> DEFINE g == [k \in 0..m |-> IF k = m THEN Chosen(f[m - 1], segs, S, m) ELSE f[k]]
  <1>5. \A k \in 0..m : g[k] = IF k = 0 THEN <<>> ELSE Chosen(g[k - 1], segs, S, k)
    <2> SUFFICES ASSUME NEW k \in 0..m PROVE g[k] = IF k = 0 THEN <<>> ELSE Chosen(g[k - 1], segs, S, k)
      OBVIOUS
    <2>1. m \in Nat
      OBVIOUS
    <2>2. CASE k = m
      BY <2>1, <2>2, <1>2
    <2>3. CASE k # m
      <3>1. k \in 0..(m - 1)
        BY <2>1, <2>3
      <3>2. f[k] = IF k = 0 THEN <<>> ELSE Chosen(f[k - 1], segs, S, k)
        BY <3>1, <1>4 DEF IsChoice
      <3>3. g[k] = f[k]
        BY <2>3
      <3>4. k # 0 => g[k - 1] = f[k - 1]
        BY <3>1, <2>1
      <3> QED BY <3>2, <3>3, <3>4
    <2> QED BY <2>2, <2>3
  <1>6. IsChoice(g, segs, S, m)
    BY <1>5 DEF IsChoice
  <1> QED BY <1>6

\* OfSerials is the last of such choices.
LEMMA ChoiceIs ==
  ASSUME NEW segs \in Seq(Record), NEW S
  PROVE  \E f : /\ f[0] = <<>> /\ OfSerials(segs, S) = f[Len(segs)]
                /\ \A k \in 1..Len(segs) : f[k] = Chosen(f[k - 1], segs, S, k)
  <1> DEFINE n == Len(segs)
             r == CHOOSE f : f = [k \in 0..n |-> IF k = 0 THEN <<>>
                                                 ELSE IF segs[k].serial \in S THEN Append(f[k - 1], segs[k]) ELSE f[k - 1]]
  <1>1. n \in Nat
    OBVIOUS
  <1>2. r = [k \in 0..n |-> IF k = 0 THEN <<>> ELSE IF segs[k].serial \in S THEN Append(r[k - 1], segs[k]) ELSE r[k - 1]]
    <2>1. PICK f : IsChoice(f, segs, S, n)
      BY <1>1, ChoiceExists
    <2>2. f = [k \in 0..n |-> IF k = 0 THEN <<>> ELSE IF segs[k].serial \in S THEN Append(f[k - 1], segs[k]) ELSE f[k - 1]]
      BY <2>1 DEF IsChoice, Chosen
    <2> QED BY <2>2, Zenon
  <1>3. OfSerials(segs, S) = r[n]
    BY DEF OfSerials
  <1> HIDE DEF r, n
  <1>4. r[0] = <<>>
    BY <1>1, <1>2
  <1>5. ASSUME NEW k \in 1..n PROVE r[k] = Chosen(r[k - 1], segs, S, k)
    <2>1. k \in 0..n /\ k # 0
      BY <1>1
    <2> QED BY <2>1, <1>2 DEF Chosen
  <1> QED BY <1>3, <1>4, <1>5 DEF n

\* Only records of the sequence are chosen.
LEMMA ChosenAreOfIt ==
  ASSUME NEW segs \in Seq(Record), NEW S
  PROVE  /\ OfSerials(segs, S) \in Seq(Record)
         /\ \A i \in 1..Len(OfSerials(segs, S)) : \E k \in 1..Len(segs) : OfSerials(segs, S)[i] = segs[k]
  <1>1. PICK f : /\ f[0] = <<>> /\ OfSerials(segs, S) = f[Len(segs)]
                 /\ \A k \in 1..Len(segs) : f[k] = Chosen(f[k - 1], segs, S, k)
    BY ChoiceIs
  <1> DEFINE P(m) == f[m] \in Seq(Record) /\ \A i \in 1..Len(f[m]) : \E k \in 1..Len(segs) : f[m][i] = segs[k]
             T == {m \in Nat : m <= Len(segs) /\ ~P(m)}
  <1>2. T = {}
    <2> SUFFICES ASSUME T # {} PROVE FALSE
      OBVIOUS
    <2>1. PICK m \in T : \A x \in T : m <= x
      BY LeastOf
    <2>2. P(0)
      BY <1>1
    <2>3. m - 1 \in Nat /\ m - 1 <= Len(segs) /\ P(m - 1) /\ m \in 1..Len(segs)
      BY <2>1, <2>2
    <2>4. f[m] = IF segs[m].serial \in S THEN Append(f[m - 1], segs[m]) ELSE f[m - 1]
      BY <1>1, <2>3 DEF Chosen
    <2>5. PICK q \in Seq(Record), e \in Record : q = f[m - 1] /\ e = segs[m]
      BY <2>3
    <2>6. ASSUME segs[m].serial \in S PROVE P(m)
      <3>1. f[m] = Append(q, e)
        BY <2>4, <2>5, <2>6
      <3>2. f[m] \in Seq(Record) /\ Len(f[m]) = Len(q) + 1 /\ f[m][Len(q) + 1] = e /\ \A i \in 1..Len(q) : f[m][i] = q[i]
        BY <3>1, Appending
      <3>3. Len(q) \in Nat
        OBVIOUS
      <3>4. ASSUME NEW i \in 1..Len(f[m]) PROVE \E k \in 1..Len(segs) : f[m][i] = segs[k]
        <4>1. CASE i = Len(q) + 1
          BY <4>1, <3>2, <2>3, <2>5
        <4>2. CASE i # Len(q) + 1
          <5>1. i \in 1..Len(q)
            BY <4>2, <3>2, <3>3
          <5> QED BY <5>1, <3>2, <2>3, <2>5
        <4> QED BY <4>1, <4>2
      <3> QED BY <3>2, <3>4
    <2> QED BY <2>1, <2>3, <2>4, <2>6
  <1>3. P(Len(segs))
    <2>1. Len(segs) \in Nat /\ Len(segs) \notin T
      BY <1>2
    <2> QED BY <2>1
  <1> QED BY <1>1, <1>3

\* r is the stretch of a sequence from lo to hi.
Stretch(r, segs, lo, hi) ==
  /\ Len(r) = (IF lo <= hi THEN hi - lo + 1 ELSE 0)
  /\ \A i \in 1..(hi - lo + 1) : r[i] = segs[lo + i - 1]

\* Of a sequence in order, the records chosen are the stretch of them with those serials.
LEMMA ChosenStretch ==
  ASSUME NEW segs \in Seq(Record), NEW S, NEW lo \in Nat \ {0}, NEW hi \in Int, hi <= Len(segs),
         \A k \in 1..Len(segs) : segs[k].serial \in S <=> lo <= k /\ k <= hi
  PROVE  Stretch(OfSerials(segs, S), segs, lo, hi)
  <1>1. PICK f : /\ f[0] = <<>> /\ OfSerials(segs, S) = f[Len(segs)]
                 /\ \A k \in 1..Len(segs) : f[k] = Chosen(f[k - 1], segs, S, k)
    BY ChoiceIs
  <1> DEFINE N(m) == IF m <= hi THEN IF lo <= m THEN m - lo + 1 ELSE 0 ELSE IF lo <= hi THEN hi - lo + 1 ELSE 0
             P(m) == f[m] \in Seq(Record) /\ Len(f[m]) = N(m) /\ \A i \in 1..N(m) : f[m][i] = segs[lo + i - 1]
             T == {m \in Nat : m <= Len(segs) /\ ~P(m)}
  <1>2. T = {}
    <2> SUFFICES ASSUME T # {} PROVE FALSE
      OBVIOUS
    <2>1. PICK m \in T : \A x \in T : m <= x
      BY LeastOf
    <2>2. P(0)
      <3>1. f[0] \in Seq(Record) /\ Len(f[0]) = 0
        BY <1>1
      <3>2. N(0) = 0
        OBVIOUS
      <3> QED BY <3>1, <3>2
    <2>3. m - 1 \in Nat /\ m - 1 <= Len(segs) /\ m \in 1..Len(segs)
      BY <2>1, <2>2
    <2>a. P(m - 1)
      BY <2>1, <2>3
    <2>4. f[m] = IF segs[m].serial \in S THEN Append(f[m - 1], segs[m]) ELSE f[m - 1]
      BY <1>1, <2>3 DEF Chosen
    <2>5. PICK q \in Seq(Record), e \in Record : q = f[m - 1] /\ e = segs[m]
      BY <2>a, <2>3
    <2>b. m \in Int /\ Len(q) = N(m - 1) /\ \A i \in 1..N(m - 1) : q[i] = segs[lo + i - 1]
      BY <2>a, <2>3, <2>5
    <2>6. ASSUME lo <= m, m <= hi PROVE P(m)
      <3>1. f[m] = Append(q, e)
        BY <2>4, <2>5, <2>6, <2>3
      <3>2. f[m] \in Seq(Record) /\ Len(f[m]) = Len(q) + 1 /\ f[m][Len(q) + 1] = e /\ \A i \in 1..Len(q) : f[m][i] = q[i]
        BY <3>1, Appending
      <3>3. N(m) = N(m - 1) + 1 /\ N(m) = m - lo + 1 /\ N(m) \in Nat
        BY <2>b, <2>6
      <3> HIDE DEF N
      <3>4. ASSUME NEW i \in 1..N(m) PROVE f[m][i] = segs[lo + i - 1]
        <4>1. CASE i = N(m)
          <5>1. lo + i - 1 = m /\ i = Len(q) + 1
            BY <4>1, <3>3, <2>b
          <5> QED BY <5>1, <3>2, <2>5
        <4>2. CASE i # N(m)
          <5>1. i \in 1..N(m - 1) /\ i \in 1..Len(q)
            BY <4>2, <3>3, <2>b
          <5> QED BY <5>1, <3>2, <2>b
        <4> QED BY <4>1, <4>2
      <3> QED BY <3>2, <3>3, <3>4, <2>b
    <2>7. ASSUME ~(lo <= m /\ m <= hi) PROVE P(m)
      <3>1. f[m] = q
        BY <2>4, <2>5, <2>7, <2>3
      <3>2. N(m) = N(m - 1)
        BY <2>b, <2>7
      <3> QED BY <3>1, <3>2, <2>b
    <2> QED BY <2>1, <2>6, <2>7
  <1>3. P(Len(segs))
    <2>1. Len(segs) \in Nat /\ Len(segs) \notin T
      BY <1>2
    <2> QED BY <2>1
  <1>4. N(Len(segs)) = IF lo <= hi THEN hi - lo + 1 ELSE 0
    <2>1. Len(segs) \in Nat
      OBVIOUS
    <2> QED BY <2>1
  <1>5. 1..(hi - lo + 1) = 1..N(Len(segs))
    BY <1>4
  <1> QED BY <1>1, <1>3, <1>4, <1>5 DEF Stretch

\* In a ring the positions go up.
LEMMA PositionsGoUp ==
  ASSUME NEW c \in Track, Ring(c), NEW i \in 1..Len(c.segs), NEW j \in 1..Len(c.segs), i <= j
  PROVE  c.segs[i].position <= c.segs[j].position
  <1> DEFINE n == Len(c.segs)
             T == {m \in Nat : i <= m /\ m <= n /\ ~(c.segs[i].position <= c.segs[m].position)}
  <1>1. n \in Nat /\ \A k \in 1..n : c.segs[k].position \in Nat /\ c.segs[k].samples \in Nat
    <2>1. c.segs \in Seq(Record)
      BY DEF Track
    <2>2. n \in Nat
      BY <2>1
    <2>3. ASSUME NEW k \in 1..n PROVE c.segs[k].position \in Nat /\ c.segs[k].samples \in Nat
      <3>1. c.segs[k] \in Record
        BY <2>1
      <3> QED BY <3>1 DEF Record
    <2> QED BY <2>2, <2>3
  <1>2. T = {}
    <2> SUFFICES ASSUME T # {} PROVE FALSE
      OBVIOUS
    <2>1. PICK m \in T : \A x \in T : m <= x
      BY LeastOf
    <2>2. m # i
      BY <1>1
    <2>3. m - 1 \in 1..n /\ m \in 1..n /\ m - 1 \in Nat /\ m - 1 \notin T /\ i <= m - 1 /\ m - 1 # n
      BY <1>1, <2>1, <2>2
    <2>4. Placed(c, m - 1)
      BY <2>3 DEF Ring
    <2>5. c.segs[m - 1].position + c.segs[m - 1].samples = c.segs[m].position
      <3>1. m - 1 + 1 = m
        OBVIOUS
      <3> QED BY <2>3, <2>4, <3>1 DEF Placed
    <2>6. c.segs[i].position <= c.segs[m - 1].position
      BY <2>3
    <2>7. c.segs[i].position <= c.segs[m].position
      <3>1. PICK a \in Nat, b \in Nat, e \in Nat, s \in Nat :
              a = c.segs[i].position /\ b = c.segs[m - 1].position /\ e = c.segs[m].position /\ s = c.segs[m - 1].samples
        BY <1>1, <2>3
      <3>2. b + s = e /\ a <= b
        BY <3>1, <2>5, <2>6
      <3>3. a <= e
        BY <3>2
      <3> QED BY <3>1, <3>3
    <2> QED BY <2>7
  <1>3. j \notin T /\ j \in Nat /\ i <= j /\ j <= n
    BY <1>1, <1>2
  <1> QED BY <1>3

\* The bytes from a position on are still the samples they were.
LEMMA FreedNames ==
  ASSUME NEW c \in Track, NEW to \in Int, c.base <= to, to <= End(c),
         NEW d, d.base = to, d.data = SubSeq(c.data, to - c.base + 1, Len(c.data))
  PROVE  /\ d.data \in Seq(Int) /\ End(d) = End(c)
         /\ \A s \in Record : s.position + s.samples <= End(c) /\ Names(c, s) => Names(d, s)
  <1>1. PICK q \in Seq(Int), b \in Int : q = c.data /\ b = c.base
    BY DEF Track
  <1>2. PICK l \in Nat : l = Len(q)
    OBVIOUS
  <1>3. PICK a \in Int : a = to - b + 1
    OBVIOUS
  <1>4. b <= to /\ to <= b + l
    BY <1>1, <1>2 DEF End
  <1>5. 1 <= a /\ a <= l + 1
    BY <1>3, <1>4
  <1>6. PICK D \in Seq(Int) : D = SubSeq(q, a, l)
    <2>1. SubSeq(q, a, l) \in Seq(Int)
      BY <1>2, <1>5, Slicing
    <2> QED BY <2>1, Zenon
  <1>7. Len(D) = IF a <= l THEN l - a + 1 ELSE 0
    BY <1>2, <1>5, <1>6, Slicing
  <1>8. ASSUME NEW i \in 1..(l - a + 1) PROVE D[i] = q[a + i - 1]
    <2>1. SubSeq(q, a, l)[i] = q[a + i - 1]
      BY <1>2, <1>5, Slicing
    <2> QED BY <2>1, <1>6
  <1>9. d.data = D /\ d.base = to
    BY <1>1, <1>2, <1>3, <1>6
  <1>10. Len(D) = l - a + 1
    BY <1>5, <1>7
  <1>11. to + Len(D) = b + l
    BY <1>3, <1>5, <1>10
  <1>12. End(d) = End(c)
    BY <1>1, <1>2, <1>9, <1>11 DEF End
  <1>13. ASSUME NEW s \in Record, s.position + s.samples <= End(c), Names(c, s) PROVE Names(d, s)
    <2> SUFFICES ASSUME NEW i \in 1..s.samples, s.position + i > to
                 PROVE  D[s.position - to + i] = s.start + i - 1
      BY <1>9 DEF Names
    <2>1. PICK p \in Nat, m \in Nat : p = s.position /\ m = s.samples
      BY DEF Record
    <2>2. i \in 1..m /\ p + i > to
      BY <2>1
    <2>3. p + m <= b + l
      BY <2>1, <1>1, <1>2, <1>13 DEF End
    <2>4. p - to + i \in 1..(l - a + 1) /\ a + (p - to + i) - 1 = p - b + i /\ p + i > b
      BY <1>3, <1>4, <1>5, <2>2, <2>3
    <2>5. D[p - to + i] = q[p - b + i]
      BY <1>8, <2>4
    <2>6. q[p - b + i] = s.start + i - 1
      BY <1>1, <1>13, <2>1, <2>2, <2>4 DEF Names
    <2> QED BY <2>1, <2>5, <2>6
  <1> QED BY <1>9, <1>12, <1>13

\* What a release leaves: the ring from the next serial on, and what is read of it still reads so.
Left(c, d, x) ==
  /\ d.gen = c.gen /\ d.cfg = c.cfg /\ d.done = c.done /\ End(d) = End(c)
  /\ Idle(c) => d = c
  /\ \A s \in Record : s.position + s.samples <= End(c) /\ Names(c, s) => Names(d, s)
  /\ \A s, u \in Int : Follows(c, s, u) => Follows(d, s, u)
  /\ c.done - Len(c.segs) <= x + 1 => d.done - Len(d.segs) <= x + 1
  /\ \A j \in 1..Len(c.segs) : c.segs[j].serial > x => \E k \in 1..Len(d.segs) : d.segs[k] = c.segs[j]

\* Of c's ring d has the newest segments, and all else that a trigger goes by.
Remains(c, d) ==
  /\ d.state = c.state /\ d.cfg = c.cfg /\ d.rearm = c.rearm /\ d.t0 = c.t0 /\ d.produced = c.produced
  /\ d.first = c.first /\ d.index = c.index /\ d.floor = c.floor /\ d.rearm_waiting = c.rearm_waiting
  /\ d.done = c.done /\ d.scan = c.scan /\ d.seen = c.seen
  /\ \E gone \in Nat : Len(c.segs) = gone + Len(d.segs) /\ \A k \in 1..Len(d.segs) : d.segs[k] = c.segs[gone + k]

\* d is c without the segments up to a serial.
Freeing(c, x, kept, to, d) ==
  /\ kept = OfSerials(c.segs, (x + 1)..c.done)
  /\ to = (IF kept = <<>> THEN End(c) ELSE kept[1].position)
  /\ d = Freed(c, kept, to)

\* The segments up to a serial go.
LEMMA FreedGood ==
  ASSUME NEW c, NEW t \in Nat, Good(c, t), c.cfg.mode = "repeat", ~Idle(c), NEW x \in Int,
         NEW kept, NEW to, NEW d, Freeing(c, x, kept, to, d)
  PROVE  Good(d, t) /\ Left(c, d, x) /\ Remains(c, d)
  <1> DEFINE D == SubSeq(c.data, to - c.base + 1, Len(c.data))
  <1>1. c \in Track /\ ~Streams(c) /\ Ring(c) /\ Counts(c, t) /\ Joined(c)
    BY DEF Good, Streams
  <1>2. c.segs \in Seq(Record) /\ c.data \in Seq(Int) /\ c.cfg \in Settled
    BY <1>1 DEF Track
  <1>c. PICK n \in Nat, l \in Nat : n = Len(c.segs) /\ l = Len(c.data)
    BY <1>2
  <1>d. PICK z \in Int, b \in Int : z = c.done /\ b = c.base
    BY <1>1 DEF Track
  <1>e. PICK e \in Int, most \in Nat : e = End(c) /\ most = c.cfg.segments /\ e = b + l
    <2>1. c.cfg.segments \in Nat
      BY <1>2 DEF Settled
    <2> QED BY <2>1, <1>c, <1>d DEF End
  <1>f. PICK lo \in Nat \ {0} : lo = IF 1 < x - z + n + 2 THEN x - z + n + 2 ELSE 1
    <2>1. (IF 1 < x - z + n + 2 THEN x - z + n + 2 ELSE 1) \in Nat \ {0}
      OBVIOUS
    <2> QED BY <2>1, Zenon
  <1>g. PICK N \in Nat : N = IF lo <= n THEN n - lo + 1 ELSE 0
    <2>1. (IF lo <= n THEN n - lo + 1 ELSE 0) \in Nat
      OBVIOUS
    <2> QED BY <2>1, Zenon
  <1>3. lo = 1 \/ lo = x - z + n + 2
    BY <1>f
  <1>4. \A k \in 1..n : /\ c.segs[k].serial = z - n + k - 1
                        /\ c.segs[k].serial \in (x + 1)..z <=> lo <= k /\ k <= n
    <2> SUFFICES ASSUME NEW k \in 1..n
                 PROVE  /\ c.segs[k].serial = z - n + k - 1
                        /\ c.segs[k].serial \in (x + 1)..z <=> lo <= k /\ k <= n
      OBVIOUS
    <2>1. c.segs[k].serial = z - n + k - 1
      BY <1>1, <1>c, <1>d DEF Ring, Placed
    <2>2. z - n + k - 1 \in (x + 1)..z <=> lo <= k /\ k <= n
      BY <1>f
    <2> QED BY <2>1, <2>2
  <1>5. /\ kept \in Seq(Record) /\ Len(kept) = N
        /\ \A i \in 1..N : kept[i] = c.segs[lo + i - 1]
    <2>1. PICK q \in Seq(Record), S \in {(x + 1)..z} : q = c.segs /\ S = (x + 1)..z
      BY <1>2
    <2>a. Len(q) = n
      BY <1>c, <2>1
    <2>b. \A k \in 1..n : q[k].serial \in S <=> lo <= k /\ k <= n
      BY <1>4, <2>1
    <2>2. n \in Int /\ n <= Len(q) /\ \A k \in 1..Len(q) : q[k].serial \in S <=> lo <= k /\ k <= n
      BY <2>a, <2>b
    <2>3. Stretch(OfSerials(q, S), q, lo, n)
      BY <2>2, ChosenStretch
    <2>5. OfSerials(q, S) \in Seq(Record)
      BY ChosenAreOfIt
    <2>6. kept = OfSerials(q, S)
      BY <1>d, <2>1, Zenon DEF Freeing
    <2>7. N # 0 => N = n - lo + 1
      BY <1>g
    <2>8. ASSUME NEW i \in 1..N PROVE kept[i] = c.segs[lo + i - 1]
      <3>1. i \in 1..(n - lo + 1)
        BY <2>7
      <3> QED BY <3>1, <2>1, <2>3, <2>6 DEF Stretch
    <2> QED BY <1>g, <2>1, <2>3, <2>5, <2>6, <2>8 DEF Stretch
  <1>6. N = 0 \/ (lo <= n /\ N = n - lo + 1)
    BY <1>g
  <1>7. (N = 0 => to = End(c)) /\ (N # 0 => to = c.segs[lo].position)
    <2>1. kept = <<>> <=> N = 0
      BY <1>5
    <2>2. N # 0 => kept[1] = c.segs[lo]
      <3>1. N # 0 => 1 \in 1..N /\ lo + 1 - 1 = lo
        OBVIOUS
      <3> QED BY <3>1, <1>5
    <2>3. to = (IF kept = <<>> THEN End(c) ELSE kept[1].position)
      BY Zenon DEF Freeing
    <2> QED BY <2>1, <2>2, <2>3
  <1>8. \A k \in 1..n : Placed(c, k) /\ c.segs[k] \in Record
    BY <1>1, <1>2, <1>c DEF Ring
  <1>9. to \in Int /\ b <= to /\ to <= e
    <2>1. CASE N = 0
      BY <2>1, <1>7, <1>e
    <2>2. CASE N # 0
      <3>1. lo \in 1..n
        BY <2>2, <1>6
      <3>2. c.segs[lo].position \in Nat /\ c.segs[lo].samples \in Nat
        BY <3>1, <1>8 DEF Record
      <3>3. b <= c.segs[lo].position /\ c.segs[lo].position + c.segs[lo].samples <= e
        BY <3>1, <1>8, <1>d, <1>e DEF Placed
      <3>4. PICK u \in Nat, v \in Nat : u = c.segs[lo].position /\ v = c.segs[lo].samples
        BY <3>2
      <3>5. b <= u /\ u + v <= e
        BY <3>3, <3>4
      <3>6. u \in Int /\ b <= u /\ u <= e
        BY <3>5
      <3> QED BY <2>2, <3>4, <3>6, <1>7
    <2> QED BY <2>1, <2>2
  <1>10. /\ D \in Seq(Int)
    <2>1. PICK a \in Int : a = to - b + 1
      BY <1>9
    <2>2. PICK q \in Seq(Int) : q = c.data
      BY <1>2
    <2>3. 1 <= a /\ l = Len(q)
      BY <1>9, <1>c, <2>1, <2>2
    <2>4. SubSeq(q, a, l) \in Seq(Int)
      BY <2>3, Slicing
    <2> QED BY <1>c, <1>d, <2>1, <2>2, <2>4
  <1>11. d = [c EXCEPT !.segs = kept, !.base = to, !.data = D]
    BY Zenon DEF Freeing, Freed
  <1> HIDE DEF D
  <1>12. /\ d \in Track
         /\ d.state = c.state /\ d.cfg = c.cfg /\ d.samples = c.samples /\ d.rearm = c.rearm /\ d.gen = c.gen
         /\ d.t0 = c.t0 /\ d.data = D /\ d.base = to /\ d.segs = kept /\ d.done = c.done /\ d.produced = c.produced
         /\ d.sent = c.sent /\ d.gap_next = c.gap_next /\ d.drop_until = c.drop_until /\ d.first = c.first
         /\ d.index = c.index /\ d.floor = c.floor /\ d.rearm_waiting = c.rearm_waiting
         /\ d.scan = c.scan /\ d.seen = c.seen
    BY <1>1, <1>5, <1>9, <1>10, <1>11, ZenonT(60) DEF Track
  <1>13. /\ End(d) = End(c)
         /\ \A s \in Record : s.position + s.samples <= End(c) /\ Names(c, s) => Names(d, s)
    <2>1. c.base <= to /\ to <= End(c) /\ d.base = to /\ d.data = SubSeq(c.data, to - c.base + 1, Len(c.data))
      BY <1>9, <1>12, <1>d, <1>e DEF D
    <2> QED BY <1>1, <1>9, <2>1, FreedNames
  <1>b. Len(d.segs) = N /\ \A k \in 1..N : d.segs[k] = c.segs[lo + k - 1]
    BY <1>5, <1>12
  <1>14. ASSUME NEW k \in 1..N PROVE Placed(d, k)
    <2>a. PICK m \in Int : m = lo + k - 1
      OBVIOUS
    <2>1. m \in 1..n /\ lo \in 1..n /\ lo <= m /\ (m = n <=> k = N) /\ (k # N => k + 1 \in 1..N /\ lo + (k + 1) - 1 = m + 1)
      BY <1>6, <2>a
    <2>2. m - n = k - N
      BY <1>6, <2>a
    <2>3. Placed(c, m) /\ c.segs[m] \in Record
      BY <1>8, <2>1
    <2>4. PICK s \in Record : s = c.segs[m]
      BY <2>3
    <2>5. d.segs[k] = s
      BY <2>4, <2>a, <1>b
    <2>6. /\ s.serial = z - n + m - 1 /\ s.gen = c.gen /\ s.position + s.samples <= End(c) /\ Names(c, s)
          /\ s.position + s.samples = IF m = n THEN End(c) ELSE c.segs[m + 1].position
      BY <2>3, <2>4, <1>c, <1>d DEF Placed
    <2>7. s.serial = d.done - N + k - 1
      <3>1. z - n + m - 1 = z - N + k - 1
        BY <2>2
      <3> QED BY <3>1, <2>6, <1>12, <1>d
    <2>8. d.base <= s.position
      <3>1. c.segs[lo].position <= c.segs[m].position
        BY <1>1, <2>1, <1>c, PositionsGoUp
      <3>2. N # 0
        OBVIOUS
      <3> QED BY <3>1, <3>2, <1>7, <1>12, <2>4
    <2>9. s.position + s.samples = IF k = N THEN End(d) ELSE d.segs[k + 1].position
      <3>1. k # N => d.segs[k + 1] = c.segs[m + 1]
        BY <1>b, <2>1
      <3> QED BY <3>1, <2>1, <2>6, <1>13
    <2>10. Names(d, s)
      BY <1>13, <2>6
    <2> QED BY <2>5, <2>6, <2>7, <2>8, <2>9, <2>10, <1>12, <1>13, <1>b DEF Placed
  <1>15. Ring(d)
    <2>1. Len(d.segs) <= d.cfg.segments
      <3>1. n <= most
        BY <1>1, <1>c, <1>e DEF Ring
      <3>2. N <= most
        BY <3>1, <1>6
      <3> QED BY <3>2, <1>12, <1>b, <1>e
    <2>2. d.base >= 0
      <3>1. b >= 0
        BY <1>1, <1>d DEF Ring
      <3>2. to >= 0
        BY <3>1, <1>9
      <3> QED BY <3>2, <1>12
    <2>3. d.base = IF Len(d.segs) = 0 THEN End(d) ELSE d.segs[1].position
      <3>1. N # 0 => 1 \in 1..N /\ lo + 1 - 1 = lo
        OBVIOUS
      <3>2. N # 0 => d.segs[1] = c.segs[lo]
        BY <3>1, <1>b
      <3> QED BY <3>2, <1>7, <1>12, <1>13, <1>b
    <2>4. d.sent = 0 /\ d.drop_until = 0
      BY <1>1, <1>12 DEF Ring
    <2> QED BY <2>1, <2>2, <2>3, <2>4, <1>14, <1>b DEF Ring
  <1>16. Counts(d, t) /\ OneSegment(d) /\ ~Streams(d)
    BY <1>1, <1>12 DEF Counts, OneSegment, Streams
  <1>17. Joined(d)
    <2> SUFFICES ASSUME c.cfg.trigger = "none" PROVE Joined(d)
      BY <1>12 DEF Joined
    <2>1. /\ c.state # "waiting" /\ ~c.rearm_waiting
          /\ \A k \in 2..n : "gap" \in c.segs[k].flags \/ c.segs[k].start = c.segs[k - 1].start + c.segs[k - 1].samples
          /\ n > 0 => c.gap_next \/ c.t0 + c.produced = c.segs[n].start + c.segs[n].samples
      BY <1>1, <1>c DEF Joined
    <2>2. ASSUME NEW k \in 2..N
          PROVE  "gap" \in d.segs[k].flags \/ d.segs[k].start = d.segs[k - 1].start + d.segs[k - 1].samples
      <3>a. PICK m \in Int : m = lo + k - 1
        OBVIOUS
      <3>1. m \in 2..n /\ k \in 1..N /\ k - 1 \in 1..N /\ lo + (k - 1) - 1 = m - 1
        BY <1>6, <3>a
      <3>2. d.segs[k] = c.segs[m] /\ d.segs[k - 1] = c.segs[m - 1]
        BY <3>1, <3>a, <1>b
      <3> QED BY <2>1, <3>1, <3>2
    <2>3. ASSUME N > 0 PROVE c.gap_next \/ c.t0 + c.produced = d.segs[N].start + d.segs[N].samples
      <3>1. N \in 1..N /\ lo + N - 1 = n /\ n > 0
        BY <1>6, <2>3
      <3>2. d.segs[N] = c.segs[n]
        BY <3>1, <1>b
      <3> QED BY <2>1, <3>1, <3>2
    <2> QED BY <2>1, <2>2, <2>3, <1>12, <1>b DEF Joined
  <1>18. ASSUME NEW k \in 1..Len(d.segs) PROVE \E j \in 1..Len(c.segs) : d.segs[k] = c.segs[j]
    <2>1. lo + k - 1 \in 1..n /\ k \in 1..N
      BY <1>6, <1>b
    <2> QED BY <2>1, <1>b, <1>c
  <1>19. ASSUME NEW j \in 1..Len(c.segs), c.segs[j].serial > x PROVE \E k \in 1..Len(d.segs) : d.segs[k] = c.segs[j]
    <2>1. j \in 1..n
      BY <1>c
    <2>2. z - n + j - 1 > x
      BY <1>19, <2>1, <1>4
    <2>3. j - lo + 1 \in 1..N /\ lo + (j - lo + 1) - 1 = j
      BY <2>1, <2>2, <1>3, <1>g
    <2>4. d.segs[j - lo + 1] = c.segs[j]
      BY <2>3, <1>b
    <2> QED BY <2>3, <2>4, <1>b
  <1>20. ASSUME NEW s \in Int, NEW u \in Int, Follows(c, s, u) PROVE Follows(d, s, u)
    <2>1. \A k \in 1..Len(d.segs) : d.segs[k].serial = s => "gap" \in d.segs[k].flags \/ d.segs[k].start = u
      BY <1>18, <1>20 DEF Follows
    <2> QED BY <2>1, <1>12, <1>20 DEF Follows
  <1>21. c.done - Len(c.segs) <= x + 1 => d.done - Len(d.segs) <= x + 1
    <2>1. z - n <= x + 1 => z - N <= x + 1
      BY <1>f, <1>g
    <2> QED BY <2>1, <1>12, <1>b, <1>c, <1>d
  <1>22. Remains(c, d)
    <2>1. PICK gone \in Nat : gone = n - N
      BY <1>6
    <2>2. n = gone + N
      BY <2>1
    <2>3. ASSUME NEW k \in 1..N PROVE d.segs[k] = c.segs[gone + k]
      <3>1. lo + k - 1 = gone + k
        BY <1>6, <2>1
      <3> QED BY <1>b, <3>1
    <2> QED BY <1>12, <1>b, <1>c, <2>2, <2>3 DEF Remains
  <1> QED BY <1>12, <1>13, <1>15, <1>16, <1>17, <1>19, <1>20, <1>21, <1>22 DEF Good, Left

\* A paused track goes on.
LEMMA GoesOnGood ==
  ASSUME NEW c, NEW t \in Nat, Good(c, t), c.cfg.mode = "repeat", NEW d, d = GoesOn(c, t)
  PROVE  /\ Good(d, t) /\ d.cfg = c.cfg /\ d.gen = c.gen /\ d.segs = c.segs /\ d.base = c.base /\ d.data = c.data
         /\ d.done = c.done /\ \A s, u \in Int : Follows(c, s, u) => Follows(d, s, u)
         /\ d.state = "capturing" /\ d.rearm = c.rearm /\ d.t0 = t - c.produced /\ d.produced = c.produced
         /\ d.index = c.index /\ d.floor = c.floor /\ d.rearm_waiting = c.rearm_waiting
         /\ d.scan = c.scan /\ d.seen = c.seen
  <1>1. c \in Track /\ ~Streams(c) /\ Ring(c) /\ Counts(c, t) /\ Joined(c)
    BY DEF Good, Streams
  <1>a. PICK p \in Int, f \in Int : p = c.produced /\ f = c.floor
    BY <1>1 DEF Track
  <1>b. PICK u \in Int : u = t - p
    OBVIOUS
  <1>c. PICK w \in BOOLEAN, x \in States : w = TRUE /\ x = "capturing"
    BY DEF States
  <1>2. d = [c EXCEPT !.state = x, !.gap_next = w, !.t0 = u]
    BY <1>a, <1>b, <1>c, Zenon DEF GoesOn
  <1>3. /\ d \in Track
        /\ d.state = x /\ d.cfg = c.cfg /\ d.samples = c.samples /\ d.rearm = c.rearm /\ d.gen = c.gen
        /\ d.t0 = u /\ d.data = c.data /\ d.base = c.base /\ d.segs = c.segs /\ d.done = c.done /\ d.produced = c.produced
        /\ d.sent = c.sent /\ d.gap_next = w /\ d.drop_until = c.drop_until /\ d.first = c.first
        /\ d.index = c.index /\ d.floor = c.floor /\ d.rearm_waiting = c.rearm_waiting
        /\ d.scan = c.scan /\ d.seen = c.seen
    BY <1>1, <1>2, ZenonT(60) DEF Track
  <1>4. Ring(d)
    BY <1>1, <1>3 DEF Ring, Placed, Names, End
  <1>5. u <= t /\ u + p <= t
    <2>1. 0 <= f /\ f <= p
      BY <1>1, <1>a DEF Counts
    <2> QED BY <2>1, <1>b
  <1>6. Counts(d, t)
    BY <1>1, <1>3, <1>5, <1>a DEF Counts
  <1>7. OneSegment(d) /\ ~Streams(d) /\ d.gap_next /\ d.state = "capturing"
    BY <1>1, <1>3, <1>c DEF OneSegment, Streams
  <1>8. Joined(d)
    BY <1>1, <1>3, <1>7 DEF Joined
  <1>9. \A s, v \in Int : Follows(c, s, v) => Follows(d, s, v)
    BY <1>3, <1>7 DEF Follows
  <1> QED BY <1>a, <1>b, <1>c, <1>3, <1>4, <1>6, <1>7, <1>8, <1>9 DEF Good

\* A release.
LEMMA ReleaseGood ==
  ASSUME NEW c, NEW t \in Nat, Good(c, t), NEW x \in Int
  PROVE  Good(Release(c, x, t), t) /\ Left(c, Release(c, x, t), x)
  <1> DEFINE kept == OfSerials(c.segs, (x + 1)..c.done)
             to == IF kept = <<>> THEN End(c) ELSE kept[1].position
             d == Freed(c, kept, to)
             e == Release(c, x, t)
  <1>1. \/ ~Releasable(c) /\ e = c
        \/ Releasable(c) /\ e = d
        \/ Releasable(c) /\ e = GoesOn(d, t)
    BY DEF Release
  <1>2. CASE ~Releasable(c) /\ e = c
    <2>1. ASSUME NEW j \in 1..Len(c.segs) PROVE \E k \in 1..Len(c.segs) : c.segs[k] = c.segs[j]
      OBVIOUS
    <2> QED BY <1>2, <2>1 DEF Left
  <1>3. CASE Releasable(c)
    <2>1. c.cfg.mode = "repeat" /\ ~Idle(c)
      BY <1>3 DEF Releasable, Idle
    <2>4. Freeing(c, x, kept, to, d)
      BY Zenon DEF Freeing
    <2> HIDE DEF kept, to, d, e
    <2>5. Good(d, t) /\ Left(c, d, x)
      BY <2>1, <2>4, FreedGood
    <2>6. CASE e = d
      BY <2>5, <2>6 DEF e
    <2>7. CASE e = GoesOn(d, t)
      <3>1. /\ Good(e, t) /\ e.cfg = d.cfg /\ e.gen = d.gen /\ e.segs = d.segs /\ e.base = d.base /\ e.data = d.data
            /\ e.done = d.done /\ \A s, u \in Int : Follows(d, s, u) => Follows(e, s, u)
        BY <2>1, <2>5, <2>7, GoesOnGood DEF Left
      <3>2. End(e) = End(d) /\ \A s \in Record : Names(d, s) => Names(e, s)
        BY <3>1 DEF End, Names
      <3> QED BY <2>1, <2>5, <3>1, <3>2 DEF Left, e
    <2> QED BY <1>1, <1>3, <2>6, <2>7
  <1> QED BY <1>1, <1>2, <1>3

---------------------------------------------------------------------------
(* A stream's way out. *)

\* The bytes before a position are dropped.
LEMMA DropToKeeps ==
  ASSUME NEW c \in Track, c.base <= c.sent, NEW p \in Int
  PROVE  SamePlan(c, DropTo(c, p))
  <1> DEFINE D == SubSeq(c.data, p - c.base + 1, Len(c.data))
             e == DropTo(c, p)
  <1>1. CASE p <= c.sent
    BY <1>1 DEF DropTo, SamePlan
  <1>2. CASE ~(p <= c.sent)
    <2>1. PICK q \in Seq(Int), b \in Int, s \in Int : q = c.data /\ b = c.base /\ s = c.sent
      BY DEF Track
    <2>2. PICK a \in Int, l \in Nat : a = p - b + 1 /\ l = Len(q)
      OBVIOUS
    <2>3. 1 <= a
      BY <1>2, <2>1, <2>2
    <2>4. SubSeq(q, a, l) \in Seq(Int)
      BY <2>2, <2>3, Slicing
    <2>5. PICK r \in Seq(Int) : r = D
      BY <2>1, <2>2, <2>4
    <2>6. PICK w \in BOOLEAN : w = TRUE
      OBVIOUS
    <2>7. e = [c EXCEPT !.data = r, !.base = p, !.sent = p, !.dropped = w]
      BY <1>2, <2>5, <2>6 DEF DropTo
    <2> HIDE DEF e
    <2>8. e \in Track /\ e.cfg = c.cfg /\ e.gen = c.gen /\ e.segs = c.segs /\ e.base = p /\ e.sent = p /\ e.t0 = c.t0
      BY <2>7, ZenonT(60) DEF Track
    <2> QED BY <2>8 DEF SamePlan, e
  <1> QED BY <1>1, <1>2

\* What the serving loop makes of a track that has nothing to send, and of a stream.
LEMMA ServedGood ==
  ASSUME NEW c, NEW t \in Nat, Good(c, t)
  PROVE  /\ Good(Dropped(c), t) /\ Later(c, Dropped(c))
         /\ Good(Skipped(c), t) /\ Later(c, Skipped(c))
         /\ Unsent(c) > 0 => Good(Sent(c), t) /\ Later(c, Sent(c))
  <1>1. c \in Track /\ Later(c, c)
    BY LaterSelf DEF Good
  <1>2. c.base \in Int /\ c.sent \in Int /\ c.drop_until \in Int /\ c.data \in Seq(Int) /\ c.samples \in Nat \ {0} /\ c.first \in Int
    BY <1>1 DEF Track
  <1>3. End(c) \in Int
    <2>1. Len(c.data) \in Nat
      BY <1>2
    <2> QED BY <1>2, <2>1 DEF End
  <1>4. CASE ~Streams(c) \/ Idle(c)
    <2>1. Unsent(c) = 0
      <3>1. CASE ~Streams(c)
        BY <3>1 DEF Unsent, Streams
      <3>2. CASE Idle(c)
        <4>1. End(c) = 0 /\ c.sent = 0
          BY <3>2 DEF Idle, End
        <4> QED BY <4>1 DEF Unsent, Higher
      <3> QED BY <1>4, <3>1, <3>2
    <2>2. Dropped(c) = c
      BY <2>1 DEF Dropped
    <2>3. Skipped(c) = c
      <3>1. c.sent = 0 /\ c.drop_until = 0
        BY <1>4 DEF Good, Ring, Idle
      <3> QED BY <3>1 DEF Skipped
    <2> QED BY <1>1, <2>1, <2>2, <2>3
  <1>5. CASE Streams(c) /\ ~Idle(c)
    <2>1. c.base <= c.sent
      BY <1>5 DEF Good
    <2>2. SamePlan(c, Skipped(c))
      <3>1. Lower(c.drop_until, End(c)) \in Int
        BY <1>2, <1>3 DEF Lower
      <3>2. SamePlan(c, DropTo(c, Lower(c.drop_until, End(c)))) /\ SamePlan(c, c)
        BY <1>1, <2>1, <3>1, DropToKeeps DEF SamePlan
      <3> QED BY <3>2 DEF Skipped
    <2>3. SamePlan(c, Dropped(c))
      <3> DEFINE d == DropTo(c, End(c))
      <3>1. SamePlan(c, d) /\ SamePlan(c, c)
        BY <1>1, <1>3, <2>1, DropToKeeps DEF SamePlan
      <3> HIDE DEF d
      <3>2. d \in Track
        BY <3>1 DEF SamePlan
      <3>3. d.sent \in Int /\ d.samples \in Nat \ {0} /\ d.first \in Int
        BY <3>2 DEF Track
      <3>4. Size(d) \in Int
        BY <3>3 DEF Size
      <3>5. SegmentAt(d, d.sent) \in Int
        <4>1. \A x \in Int, y \in Int : y > 0 => (x \div y) * y \in Int
          OBVIOUS
        <4> QED BY <3>3, <3>4, <4>1 DEF SegmentAt
      <3>6. PICK z \in Int : z = SegmentEndAfter(d, d.sent)
        <4>1. SegmentEndAfter(d, d.sent) \in Int
          BY <3>3, <3>4, <3>5 DEF SegmentEndAfter, SegmentEnd
        <4> QED BY <4>1
      <3>7. Dropped(c) = c \/ Dropped(c) = [d EXCEPT !.drop_until = z]
        BY <3>6 DEF Dropped, d
      <3>8. ASSUME NEW e, e = [d EXCEPT !.drop_until = z] PROVE SamePlan(c, e)
        <4>1. e \in Track /\ e.cfg = d.cfg /\ e.gen = d.gen /\ e.segs = d.segs /\ e.base = d.base /\ e.sent = d.sent /\ e.t0 = d.t0
          BY <3>2, <3>8, ZenonT(60) DEF Track
        <4> QED BY <3>1, <4>1 DEF SamePlan
      <3> QED BY <3>1, <3>7, <3>8
    <2>4. SamePlan(c, Sent(c))
      <3> DEFINE e == Sent(c)
      <3>1. PICK q \in Seq(Int) : q = <<>>
        <4>1. <<>> \in Seq(Int)
          OBVIOUS
        <4> QED BY <4>1, Zenon
      <3>2. PICK b \in Int, s \in Int : b = Higher(c.base, End(c)) /\ s = Higher(c.sent, End(c))
        BY <1>2, <1>3 DEF Higher
      <3>3. e = [c EXCEPT !.data = q, !.base = b, !.sent = s]
        BY <3>1, <3>2, Zenon DEF Sent
      <3>4. b <= s
        BY <1>2, <1>3, <2>1, <3>2 DEF Higher
      <3> HIDE DEF e
      <3>5. e \in Track /\ e.cfg = c.cfg /\ e.gen = c.gen /\ e.segs = c.segs /\ e.base = b /\ e.sent = s /\ e.t0 = c.t0
        BY <1>1, <3>3, ZenonT(60) DEF Track
      <3> QED BY <3>4, <3>5 DEF SamePlan, e
    <2> QED BY <1>5, <2>2, <2>3, <2>4, StreamGood
  <1> QED BY <1>4, <1>5

---------------------------------------------------------------------------
(* Whose trigger a segment has. *)

\* With rearm every segment of a repeat waits for a trigger of its own.
Rearms(c) == c.cfg.mode = "repeat" /\ c.rearm /\ c.cfg.trigger # "none"

\* The times at which the input has the edge a track looks for.
EdgeTimes(c, E) == {x \in Int : Edge(c.cfg.trigger, x - 1 \in E, x \in E)}

\* A search has looked at no sample yet, and knows the one before the first it looks at, if there is one.
Blind(c) == c.scan = c.floor /\ (c.floor < Begin(c) \/ c.floor = 0)

\* It has, or it knows the sample it looked at last, and no edge is behind it.
Told(c, E) ==
  \/ Blind(c)
  \/ /\ Begin(c) < c.scan /\ c.seen = High(c, c.scan - 1, E)
     /\ \A i \in Higher(1, Begin(c))..(c.scan - 1) : ~Edge(c.cfg.trigger, High(c, i - 1, E), High(c, i, E))

\* The search of a track that keeps its segments.
Search(c, E) == ~Streams(c) /\ Looking(c) /\ Sure(c, c.done) => Told(c, E)

\* A segment's trigger is at the sample it names, with what was asked for after it; F are the times a trigger can be at.
Marked(c, s, F) ==
  s.index # None =>
    /\ (Sure(c, s.serial) => s.start + s.index \in F) /\ s.index <= c.cfg.pretrigger
    /\ "short" \notin s.flags => s.samples - s.index = c.cfg.samples - c.cfg.pretrigger

\* Each segment has a trigger, and begins after the one before.
Spaced(c) ==
  \A k \in 1..Len(c.segs) :
    /\ c.segs[k].index # None \/ "short" \in c.segs[k].flags
    /\ k > 1 => c.segs[k].start >= c.segs[k - 1].start + c.segs[k - 1].samples

\* The last segment is over before the time u.
Over(c, u) == Len(c.segs) > 0 => c.segs[Len(c.segs)].start + c.segs[Len(c.segs)].samples <= u

\* The trigger of the segment being taken: there is room for the segment, and a full ring has none.
Pending(c, F) ==
  /\ c.index # None =>
       /\ c.state = "capturing" /\ ~c.rearm_waiting
       /\ 0 <= c.index /\ c.index <= c.cfg.pretrigger
       /\ Sure(c, c.done) => c.t0 + c.produced + c.index \in F
       /\ c.first = c.cfg.samples - c.cfg.pretrigger + c.index
  /\ Rearms(c) => c.rearm_waiting \/ c.index # None
  /\ c.state = "capturing" => Len(c.segs) < c.cfg.segments
  /\ Rearms(c) => Over(c, c.t0 + c.floor)
  /\ 0 <= c.done /\ (c.state = "paused" /\ c.rearm_waiting /\ Sure(c, c.done) => Blind(c))

\* What the ring says of its triggers, and the track of the next one.
Marks(c, F) ==
  ~Streams(c) =>
    /\ \A k \in 1..Len(c.segs) : Marked(c, c.segs[k], F)
    /\ Rearms(c) => Spaced(c)
    /\ c.state = "waiting" => c.segs = <<>> /\ c.done = 0
    /\ c.state \in {"capturing", "paused"} => Pending(c, F)

\* The same, the times being the edges of the input and those of G.
Sound(c, E, G) == Marks(c, EdgeTimes(c, E) \cup G) /\ Search(c, E)

\* Triggers may come from more times.
LEMMA MarksMore ==
  ASSUME NEW c, NEW F, NEW G, F \subseteq G, Marks(c, F)
  PROVE  Marks(c, G)
  BY DEF Marks, Marked, Pending

\* A track whose ring is empty and that takes nothing.
LEMMA MarksNone ==
  ASSUME NEW c, NEW F, c.segs = <<>>, c.state \notin {"waiting", "capturing", "paused"}
  PROVE  Marks(c, F)
  BY DEF Marks, Spaced

\* What only a repeat with rearm waits for between its segments.
LEMMA WaitsRearmed ==
  ASSUME NEW c, NEW t, Good(c, t), ~Streams(c), c.rearm_waiting
  PROVE  Rearms(c)
  <1>1. c.cfg \in Settled
    BY DEF Good, Track
  <1> QED BY <1>1 DEF Good, Counts, OneSegment, Joined, Rearms, Settled, Streams

\* A trigger that comes.
LEMMA TriggeredMarks ==
  ASSUME NEW c, NEW t \in Nat, NEW F, Good(c, t), Marks(c, F), NEW i \in Nat,
         c.state = "waiting" \/ (c.state = "capturing" /\ c.rearm_waiting),
         ~Streams(c) => c.floor <= i /\ (Sure(c, c.done) => c.t0 + i \in F)
  PROVE  LET d == Triggered(c, i, c.cfg.pretrigger) IN Marks(d, F) /\ \A E : Search(d, E)
  <1> DEFINE d == Triggered(c, i, c.cfg.pretrigger)
             m == Lower(c.cfg.pretrigger, i - c.floor)
             b == i - m
             B == IF c.state = "waiting" THEN b ELSE c.begin
             g == IF c.state # "waiting" /\ b # c.produced THEN TRUE ELSE c.gap_next
             f == c.samples - c.cfg.pretrigger + m
  <1>0. CASE Streams(c)
    <2>1. d.cfg = c.cfg
      BY <1>0 DEF Triggered, Streams, Good, Track
    <2> QED BY <1>0, <2>1 DEF Marks, Search, Streams
  <1> SUFFICES ASSUME ~Streams(c) PROVE Marks(d, F) /\ \A E : Search(d, E)
    BY <1>0
  <1>1. /\ c \in Track /\ c.floor \in Int /\ c.cfg.pretrigger \in Nat /\ c.t0 \in Int /\ c.samples \in Nat \ {0}
        /\ c.cfg \in Settled /\ c.segs \in Seq(Record)
    BY DEF Good, Track, Settled
  <1>2. d = [c EXCEPT !.begin = B, !.gap_next = g, !.produced = b, !.samples = c.samples, !.first = f, !.index = m,
                      !.rearm_waiting = FALSE, !.state = "capturing"]
    BY DEF Triggered, Streams
  <1>3. m \in Int /\ 0 <= m /\ m <= c.cfg.pretrigger /\ b + m = i
    BY <1>1, SMTT(30) DEF Lower
  <1>4. c.samples = c.cfg.samples
    BY DEF Good, Counts
  <1> HIDE DEF d, B, g, b, m, f
  <1>5. /\ d.state = "capturing" /\ d.cfg = c.cfg /\ d.rearm = c.rearm /\ d.t0 = c.t0
        /\ d.segs = c.segs /\ d.produced = b /\ d.first = f /\ d.index = m /\ d.floor = c.floor /\ d.rearm_waiting = FALSE
        /\ d.done = c.done
    BY <1>1, <1>2, ZenonT(60) DEF Track
  <1>6. m # None
    BY <1>3 DEF None
  <1>7. Len(c.segs) < c.cfg.segments
    <2>1. CASE c.state = "waiting"
      <3>1. Len(c.segs) = 0 /\ c.cfg.segments \in Nat \ {0}
        BY <1>1, <2>1 DEF Marks, Settled
      <3> QED BY <3>1
    <2>2. CASE c.state = "capturing"
      BY <2>2 DEF Marks, Pending
    <2> QED BY <2>1, <2>2
  <1>8. Rearms(c) => Over(c, c.t0 + c.floor)
    <2>1. CASE c.state = "waiting"
      BY <2>1 DEF Marks, Over
    <2>2. CASE c.state = "capturing"
      BY <2>2 DEF Marks, Pending
    <2> QED BY <2>1, <2>2
  <1>9. Sure(c, c.done) => c.t0 + b + m \in F
    BY <1>1, <1>3 DEF b
  <1>10. f = c.cfg.samples - c.cfg.pretrigger + m
    BY <1>4 DEF f
  <1>a. 0 <= c.done
    BY DEF Marks, Pending
  <1>11. Pending(d, F)
    BY <1>3, <1>5, <1>6, <1>7, <1>8, <1>9, <1>10, <1>a DEF Pending, Rearms, Over, Sure
  <1>12. Rearms(d) => Spaced(d)
    BY <1>5 DEF Marks, Rearms, Spaced
  <1>13. Marks(d, F)
    BY <1>5, <1>11, <1>12 DEF Marks, Marked, Sure
  <1>14. ~Looking(d)
    BY <1>5 DEF Looking
  <1> QED BY <1>13, <1>14 DEF Search, d

\* A sample a search looks at is compared with the one before it.
LEMMA Compared ==
  ASSUME NEW c, NEW t \in Nat, NEW E, Good(c, t), Told(c, E), NEW i \in Int, 1 <= i, Begin(c) <= i, c.scan <= i
  PROVE  Before(c, i, E) = High(c, i - 1, E)
  <1>1. c.scan \in Int /\ c.floor \in Int /\ c.cfg.pretrigger \in Int
    BY DEF Good, Track, Settled
  <1>2. Begin(c) \in Int
    BY <1>1 DEF Begin
  <1>3. CASE i # c.scan
    BY <1>3 DEF Before
  <1>4. CASE i = c.scan
    <2>1. ~Blind(c)
      BY <1>1, <1>2, <1>4 DEF Blind
    <2> QED BY <2>1, <1>4 DEF Told, Before
  <1> QED BY <1>3, <1>4

\* What a search finds is an edge.
LEMMA HitIsEdge ==
  ASSUME NEW c, NEW t \in Nat, NEW E, Good(c, t), Told(c, E), NEW i \in Hits(c, t, E)
  PROVE  c.t0 + i \in EdgeTimes(c, E)
  <1>1. /\ i \in Int /\ 1 <= i /\ Begin(c) <= i /\ c.scan <= i /\ c.t0 \in Int
        /\ c.t0 + i \in Int /\ c.t0 + i - 1 = c.t0 + (i - 1)
    <2>1. i \in Nat /\ 1 <= i /\ Begin(c) <= i /\ c.scan <= i
      BY HitsAhead
    <2>2. c.t0 \in Int
      BY DEF Good, Track
    <2> QED BY <2>1, <2>2
  <1>2. Before(c, i, E) = High(c, i - 1, E)
    BY <1>1, Compared
  <1>3. Edge(c.cfg.trigger, Before(c, i, E), High(c, i, E))
    BY DEF Hits
  <1>4. Edge(c.cfg.trigger, High(c, i - 1, E), High(c, i, E))
    BY <1>2, <1>3
  <1> QED BY <1>1, <1>4 DEF EdgeTimes, High

\* A look that finds nothing has passed no edge.
LEMMA LookedTold ==
  ASSUME NEW c, NEW t \in Nat, NEW E, Good(c, t), Told(c, E), Looking(c), Hits(c, t, E) = {}, NEW d, d = Looked(c, t, E)
  PROVE  Told(d, E)
  <1> DEFINE to == t - c.t0
  <1>1. c \in Track /\ c.t0 \in Int /\ c.scan \in Int /\ c.floor \in Int /\ c.cfg.pretrigger \in Nat
    BY DEF Good, Track, Settled
  <1>2. Begin(c) \in Int /\ From(c) \in Int /\ c.scan <= From(c) /\ Begin(c) <= From(c) /\ From(c) \in {c.scan, Begin(c)}
    BY <1>1 DEF Begin, From, Higher
  <1>3. CASE to < From(c)
    BY <1>3 DEF Looked, LookedTo
  <1>4. CASE ~(to < From(c))
    <2>1. PICK m \in Int, b \in BOOLEAN : m = to + 1 /\ b = High(c, to, E)
      <3>1. PICK m \in Int : m = to + 1
        BY <1>1
      <3>2. High(c, to, E) \in BOOLEAN
        BY DEF High
      <3> HIDE DEF to
      <3> QED BY <3>1, <3>2, Zenon
    <2>2. d = [c EXCEPT !.scan = m, !.seen = b]
      BY <1>4, <2>1 DEF Looked, LookedTo
    <2>3. d.scan = m /\ d.seen = b /\ d.floor = c.floor /\ d.cfg = c.cfg /\ d.t0 = c.t0
      BY <1>1, <2>2, ZenonT(60) DEF Track
    <2>4. Begin(d) = Begin(c) /\ \A i : High(d, i, E) = High(c, i, E)
      BY <2>3 DEF Begin, High
    <2>5. Begin(d) < d.scan /\ d.scan - 1 = to
      BY <1>1, <1>2, <1>4, <2>1, <2>3, <2>4
    <2>6. d.seen = High(d, d.scan - 1, E)
      BY <2>1, <2>3, <2>4, <2>5
    <2>7. ASSUME NEW i \in Higher(1, Begin(c))..to
          PROVE  ~Edge(c.cfg.trigger, High(c, i - 1, E), High(c, i, E))
      <3>1. i \in Int /\ 1 <= i /\ Begin(c) <= i /\ i <= to
        BY <1>1, <1>2 DEF Higher
      <3>2. CASE c.scan <= i
        <4>1. i \in Higher(1, From(c))..to
          BY <1>1, <1>2, <3>1, <3>2 DEF Higher
        <4>2. ~Edge(c.cfg.trigger, Before(c, i, E), High(c, i, E))
          BY <4>1 DEF Hits
        <4>3. Before(c, i, E) = High(c, i - 1, E)
          BY <3>1, <3>2, Compared
        <4> QED BY <4>2, <4>3
      <3>3. CASE ~(c.scan <= i)
        <4>1. ~Blind(c)
          BY <1>1, <1>2, <3>1, <3>3 DEF Blind, Begin
        <4>2. i \in Higher(1, Begin(c))..(c.scan - 1)
          BY <1>1, <1>2, <3>1, <3>3 DEF Higher
        <4> QED BY <4>1, <4>2 DEF Told
      <3> QED BY <3>2, <3>3
    <2> HIDE DEF to
    <2> QED BY <2>3, <2>4, <2>5, <2>6, <2>7 DEF Told
  <1> QED BY <1>3, <1>4

\* A look for the trigger.
LEMMA PollMarks ==
  ASSUME NEW c, NEW t \in Nat, NEW E, NEW F, Good(c, t), Marks(c, F), Search(c, E), EdgeTimes(c, E) \subseteq F
  PROVE  Marks(Poll(c, t, E), F) /\ Search(Poll(c, t, E), E)
  <1>1. CASE Poll(c, t, E) = c
    BY <1>1
  <1>2. ASSUME Looking(c), NEW d, d = Looked(c, t, E)
        PROVE  /\ Good(d, t) /\ Marks(d, F) /\ (Streams(d) <=> Streams(c)) /\ d.cfg = c.cfg
               /\ d.state = c.state /\ d.t0 = c.t0 /\ d.floor = c.floor /\ d.rearm_waiting = c.rearm_waiting /\ d.done = c.done
    <2>1. /\ Good(d, t) /\ SameRing(c, d) /\ d.state = c.state /\ d.rearm = c.rearm /\ d.first = c.first
          /\ d.index = c.index /\ d.floor = c.floor /\ d.rearm_waiting = c.rearm_waiting
      BY <1>2, LookedGood
    <2>2. /\ d.cfg = c.cfg /\ d.segs = c.segs /\ d.t0 = c.t0 /\ d.produced = c.produced /\ d.done = c.done
          /\ Streams(d) <=> Streams(c)
      BY <2>1 DEF SameRing, Streams
    <2>3. d.state # "paused"
      BY <1>2, <2>1 DEF Looking
    <2>4. Pending(c, F) => Pending(d, F)
      BY <2>1, <2>2, <2>3 DEF Pending, Rearms, Over, Sure
    <2>5. Rearms(d) => Rearms(c) /\ (Spaced(c) => Spaced(d))
      BY <2>1, <2>2 DEF Rearms, Spaced
    <2>6. Marks(d, F)
      BY <2>1, <2>2, <2>4, <2>5 DEF Marks, Marked, Sure
    <2> QED BY <2>1, <2>2, <2>6
  <1>3. CASE Poll(c, t, E) = Looked(c, t, E) /\ Looking(c) /\ Hits(c, t, E) = {}
    <2>1. PICK d : d = Looked(c, t, E)
      OBVIOUS
    <2>2. Marks(d, F) /\ (Streams(d) <=> Streams(c)) /\ (Sure(d, d.done) <=> Sure(c, c.done))
      BY <1>2, <1>3, <2>1 DEF Sure
    <2>3. Search(d, E)
      BY <1>3, <2>1, <2>2, LookedTold DEF Search
    <2> QED BY <1>3, <2>1, <2>2, <2>3
  <1>4. ASSUME NEW i \in Hits(c, t, E), Poll(c, t, E) = Triggered(Looked(c, t, E), i, c.cfg.pretrigger), Looking(c)
        PROVE  Marks(Poll(c, t, E), F) /\ Search(Poll(c, t, E), E)
    <2>1. PICK d : d = Looked(c, t, E)
      OBVIOUS
    <2>2. /\ Good(d, t) /\ Marks(d, F) /\ (Streams(d) <=> Streams(c)) /\ d.cfg = c.cfg
          /\ d.state = c.state /\ d.t0 = c.t0 /\ d.floor = c.floor /\ d.rearm_waiting = c.rearm_waiting /\ d.done = c.done
      BY <1>2, <1>4, <2>1
    <2>3. i \in Nat /\ c.floor <= i
      BY HitsAhead
    <2>4. ~Streams(c) /\ Sure(c, c.done) => c.t0 + i \in F
      BY <1>4, HitIsEdge DEF Search
    <2>5. ~Streams(d) => d.floor <= i /\ (Sure(d, d.done) => d.t0 + i \in F)
      BY <2>2, <2>3, <2>4 DEF Sure
    <2>6. d.state = "waiting" \/ (d.state = "capturing" /\ d.rearm_waiting)
      BY <1>4, <2>2 DEF Looking
    <2>7. PICK e : e = Triggered(d, i, d.cfg.pretrigger)
      OBVIOUS
    <2>8. Marks(e, F) /\ Search(e, E)
      BY <2>2, <2>3, <2>5, <2>6, <2>7, TriggeredMarks
    <2> QED BY <1>4, <2>1, <2>2, <2>7, <2>8
  <1> QED BY <1>1, <1>3, <1>4, PollFinds

\* A force, of a track that does not rearm: only one that still waits for its first trigger has it.
LEMMA ForceMarks ==
  ASSUME NEW c, NEW t \in Nat, NEW F, Good(c, t), Marks(c, F), t \in F, ~Rearms(c), NEW E, Search(c, E)
  PROVE  Marks(ForceNow(c, t, c.cfg.pretrigger), F) /\ Search(ForceNow(c, t, c.cfg.pretrigger), E)
  <1> DEFINE e == ForceNow(c, t, c.cfg.pretrigger)
             i == Higher(0, t - c.t0)
  <1>1. CASE Streams(c)
    <2>1. Later(c, e)
      BY ForceGood
    <2> QED BY <1>1, <2>1 DEF Later, Marks, Search, Streams
  <1>2. CASE ~Streams(c)
    <2>1. ~c.rearm_waiting
      BY <1>2, WaitsRearmed
    <2>2. CASE c.state # "waiting"
      BY <2>1, <2>2 DEF ForceNow
    <2>3. CASE c.state = "waiting"
      <3>1. e = Triggered(c, i, c.cfg.pretrigger)
        BY <2>3 DEF ForceNow
      <3>2. i \in Nat
        BY SMTT(30) DEF Good, Track, Higher
      <3>3. c.floor \in Int /\ c.t0 \in Int /\ c.produced \in Int /\ c.cfg \in Settled
        BY DEF Good, Track
      <3>4. /\ c.t0 <= t /\ 0 <= c.floor /\ c.floor <= c.produced /\ (c.cfg.mode = "repeat" => c.t0 + c.produced <= t)
            /\ (c.cfg.mode = "one_shot" => c.floor = 0)
        BY <1>2 DEF Good, Counts, OneSegment
      <3>5. c.cfg.mode \in {"one_shot", "repeat"}
        BY <1>2, <3>3 DEF Settled, Streams
      <3>6. c.floor <= i /\ c.t0 + i = t
        BY <3>3, <3>4, <3>5 DEF Higher
      <3> HIDE DEF i
      <3> QED BY <2>3, <3>1, <3>2, <3>6, TriggeredMarks
    <2> QED BY <2>2, <2>3
  <1> QED BY <1>1, <1>2

\* A segment finished under its trigger is marked, and comes after the ones before.
LEMMA SegmentMarks ==
  ASSUME NEW c, NEW t \in Nat, NEW F, Good(c, t), ~Streams(c), Marks(c, F), c.state = "capturing", ~c.rearm_waiting,
         Len(c.segs) < c.cfg.segments, NEW n \in Nat \ {0}, NEW x \in Int, NEW W \in SUBSET {"rearm", "short"},
         x \in {c.index, None}, "short" \notin W => x = c.index /\ n = Size(c), "short" \in W \/ x = c.index,
         NEW g, g = Segment(c, n, x, W)
  PROVE  /\ \A k \in 1..Len(g.segs) : Marked(g, g.segs[k], F)
         /\ Rearms(g) => Spaced(g) /\ Over(g, g.t0 + g.produced)
  <1>1. /\ c \in Track /\ c.t0 \in Int /\ c.produced \in Int /\ c.segs \in Seq(Record) /\ c.index \in Int
        /\ c.floor \in Int /\ c.first \in Int /\ c.samples \in Int
    BY DEF Good, Track
  <1>2. PICK l \in Nat : l = Len(c.segs)
    BY <1>1
  <1>3. /\ g \in Track /\ g.cfg = c.cfg /\ g.rearm = c.rearm /\ g.t0 = c.t0 /\ g.produced = c.produced + n
        /\ Len(g.segs) = l + 1 /\ \A k \in 1..l : g.segs[k] = c.segs[k]
        /\ g.segs[l + 1].samples = n /\ g.segs[l + 1].index = x /\ g.segs[l + 1].start = c.t0 + c.produced
        /\ g.segs[l + 1].serial = c.done
        /\ "short" \in g.segs[l + 1].flags <=> "short" \in W
    BY <1>2, SegmentMade
  <1>4. PICK s : s = g.segs[l + 1]
    OBVIOUS
  <1>5. /\ Pending(c, F) /\ c.floor <= c.produced /\ (Rearms(g) <=> Rearms(c))
        /\ \A k \in 1..l : Marked(c, c.segs[k], F)
    BY <1>2, <1>3 DEF Marks, Good, Counts, Rearms
  <1>6. Marked(g, s, F)
    <2>1. CASE x = None
      BY <1>3, <1>4, <2>1 DEF Marked
    <2>2. CASE x # None
      <3>1. /\ x = c.index /\ 0 <= x /\ x <= c.cfg.pretrigger /\ (Sure(c, c.done) => c.t0 + c.produced + x \in F)
            /\ c.first = c.cfg.samples - c.cfg.pretrigger + x
        BY <1>5, <2>2 DEF Pending
      <3>2. c.cfg.pretrigger < c.cfg.samples /\ c.cfg.pretrigger \in Nat /\ c.cfg.samples \in Nat
        BY <1>1 DEF Track, Settled, Streams
      <3>3. "short" \notin W => n = c.first
        <4>1. c.first > 0
          BY <3>1, <3>2
        <4> QED BY <4>1 DEF Size
      <3>4. "short" \notin W => n - x = c.cfg.samples - c.cfg.pretrigger
        BY <3>1, <3>2, <3>3
      <3> QED BY <1>3, <1>4, <3>1, <3>4 DEF Marked, Sure
    <2> QED BY <2>1, <2>2
  <1>7. ASSUME NEW k \in 1..Len(g.segs) PROVE Marked(g, g.segs[k], F)
    <2>1. CASE k = l + 1
      BY <1>4, <1>6, <2>1
    <2>2. CASE k # l + 1
      <3>1. k \in 1..l
        BY <1>3, <2>2
      <3> QED BY <1>3, <1>5, <3>1 DEF Marked, Sure
    <2> QED BY <2>1, <2>2
  <1>8. ASSUME Rearms(g) PROVE Spaced(g) /\ Over(g, g.t0 + g.produced)
    <2>1. Spaced(c) /\ Over(c, c.t0 + c.floor) /\ c.index # None
      BY <1>5, <1>8 DEF Marks, Pending
    <2>2. ASSUME NEW k \in 1..(l + 1)
          PROVE  /\ g.segs[k].index # None \/ "short" \in g.segs[k].flags
                 /\ k > 1 => g.segs[k].start >= g.segs[k - 1].start + g.segs[k - 1].samples
      <3>1. CASE k \in 1..l
        <4>1. k > 1 => k - 1 \in 1..l
          BY <3>1
        <4> QED BY <1>2, <1>3, <2>1, <3>1, <4>1 DEF Spaced
      <3>2. CASE k = l + 1
        <4>1. g.segs[k].index # None \/ "short" \in g.segs[k].flags
          BY <1>3, <2>1, <3>2
        <4>2. ASSUME k > 1 PROVE g.segs[k].start >= g.segs[k - 1].start + g.segs[k - 1].samples
          <5>1. l \in 1..l /\ g.segs[k - 1] = c.segs[l]
            BY <1>3, <3>2, <4>2
          <5>2. c.segs[l].start + c.segs[l].samples <= c.t0 + c.floor
            BY <1>2, <2>1, <5>1 DEF Over
          <5>3. PICK z \in Record : z = c.segs[l]
            BY <1>1, <1>2, <5>1
          <5>4. PICK a \in Int, b \in Int : a = z.start /\ b = z.samples
            BY DEF Record
          <5>5. PICK u \in Int, p \in Int, q \in Int : u = c.t0 /\ p = c.produced /\ q = c.floor
            BY <1>1
          <5>6. a + b <= u + q
            BY <5>2, <5>3, <5>4, <5>5
          <5>7. a + b <= c.t0 + c.produced
            BY <1>5, <5>5, <5>6
          <5> QED BY <1>1, <1>3, <3>2, <5>1, <5>3, <5>4, <5>7
        <4> QED BY <4>1, <4>2
      <3> QED BY <3>1, <3>2
    <2>3. Spaced(g)
      BY <1>3, <2>2 DEF Spaced
    <2>4. Over(g, g.t0 + g.produced)
      BY <1>1, <1>3 DEF Over
    <2> QED BY <2>3, <2>4
  <1> QED BY <1>7, <1>8

\* A track that takes nothing any more has the marks of its ring.
LEMMA MarksAtRest ==
  ASSUME NEW c, NEW e, NEW F, SameRing(c, e), e.rearm = c.rearm,
         \A k \in 1..Len(c.segs) : Marked(c, c.segs[k], F), Rearms(c) => Spaced(c),
         e.state \notin {"waiting", "capturing", "paused"}
  PROVE  Marks(e, F)
  BY DEF SameRing, Marks, Marked, Rearms, Spaced, Sure

\* A one-shot's tick.
LEMMA OneShotMarks ==
  ASSUME NEW c, NEW t \in Nat, NEW F, Good(c, t), Marks(c, F), c.cfg.mode = "one_shot", c.state = "capturing"
  PROVE  Marks(TickOneShot(c, t), F) /\ \A E : Search(TickOneShot(c, t), E)
  <1>1. ~Streams(c) /\ c \in Track
    BY DEF Streams, Good
  <1>2. CASE OneShotDue(c, t) - c.produced < Size(c)
    <2>1. ~Looking(c)
      BY <1>1 DEF Looking, Good, OneSegment
    <2> QED BY <1>2, <2>1 DEF TickOneShot, Search
  <1>3. CASE ~(OneShotDue(c, t) - c.produced < Size(c))
    <2> DEFINE g == Segment(c, Size(c), c.index, {})
    <2>1. PICK n \in Nat \ {0}, x \in Int : n = Size(c) /\ x = c.index
      BY <1>1, SizeIsNat DEF Track
    <2>2. Len(c.segs) < c.cfg.segments /\ ~c.rearm_waiting
      BY <1>1 DEF Marks, Pending, Good, OneSegment
    <2>3. g \in Track /\ g.cfg = c.cfg /\ g.rearm = c.rearm
      BY <1>1, <2>1, <2>2, SegmentMade
    <2>4. /\ \A k \in 1..Len(g.segs) : Marked(g, g.segs[k], F)
          /\ Rearms(g) => Spaced(g)
      BY <1>1, <2>1, <2>2, SegmentMarks
    <2>5. TickOneShot(c, t) = [g EXCEPT !.state = "done"]
      BY <1>3 DEF TickOneShot
    <2> HIDE DEF g
    <2> DEFINE e == TickOneShot(c, t)
    <2>6. SameRing(g, e) /\ e.state = "done" /\ e.rearm = g.rearm
      BY <2>3, <2>5, Restated DEF States
    <2> HIDE DEF e
    <2>7. \A E : Search(e, E)
      BY <2>6 DEF Search, Looking
    <2> QED BY <2>4, <2>6, <2>7, MarksAtRest DEF e
  <1> QED BY <1>2, <1>3

\* One round of repeat's loop.
LEMMA RoundMarks ==
  ASSUME NEW c, NEW t \in Nat, NEW E, NEW F, Good(c, t), Marks(c, F), Search(c, E), EdgeTimes(c, E) \subseteq F,
         c.cfg.mode = "repeat"
  PROVE  Marks(RepeatRound(c, t, E), F) /\ Search(RepeatRound(c, t, E), E)
  <1> DEFINE d == Poll(c, t, E)
             own == IF d.rearm /\ d.index # None THEN {"rearm"} ELSE {}
             g == Segment(d, Size(d), d.index, own)
             s == Spent(g)
             r == IF d.rearm /\ d.cfg.trigger # "none" THEN RearmAfter(s) ELSE s
             e == RepeatRound(c, t, E)
  <1>1. Good(d, t) /\ d.cfg.mode = "repeat" /\ d \in Track /\ Marks(d, F) /\ Search(d, E) /\ ~Streams(d)
    BY PollGood, PollMarks DEF Later, Good, Streams
  <1>2. own \in SUBSET {"rearm", "short"} /\ "short" \notin own
    OBVIOUS
  <1>3. /\ d.state # "capturing" \/ d.rearm_waiting => e = d
        /\ d.state = "capturing" /\ ~d.rearm_waiting =>
             /\ Due(d, t) - d.produced < Size(d) => e = d
             /\ ~(Due(d, t) - d.produced < Size(d)) =>
                  /\ Len(d.segs) >= d.cfg.segments => e = [d EXCEPT !.state = "paused"]
                  /\ ~(Len(d.segs) >= d.cfg.segments) => e = Pause(r)
    BY DEF RepeatRound, RoundAfter
  <1>4. g = Segment(d, Size(d), d.index, own) /\ s = Spent(g)
        /\ r = (IF d.rearm /\ d.cfg.trigger # "none" THEN RearmAfter(s) ELSE s)
    OBVIOUS
  <1> HIDE DEF d, own, g, s, r, e
  <1>5. CASE e = d
    BY <1>1, <1>5 DEF e
  <1>6. CASE e # d
    <2>1. d.state = "capturing" /\ ~d.rearm_waiting /\ ~(Due(d, t) - d.produced < Size(d))
      BY <1>3, <1>6
    <2>2. Pending(d, F) /\ Len(d.segs) < d.cfg.segments /\ 0 <= d.done
      BY <1>1, <2>1 DEF Marks, Pending
    <2>3. e = Pause(r)
      <3>1. Len(d.segs) \in Nat /\ d.cfg.segments \in Nat
        BY <1>1, SMTT(30) DEF Track, Settled
      <3> QED BY <1>3, <2>1, <2>2, <3>1
    <2>4. /\ Good(e, t) /\ SameRing(g, e) /\ e.index = None /\ e.rearm = d.rearm
          /\ d.rearm /\ d.cfg.trigger # "none" => e.rearm_waiting /\ e.floor = e.produced
          /\ e.rearm_waiting => d.rearm /\ d.cfg.trigger # "none" /\ e.scan = e.produced
          /\ e.state = "paused" \/ (e.state = "capturing" /\ ~(Len(e.segs) >= e.cfg.segments))
      <3> HIDE DEF e
      <3>1. /\ Good(e, t) /\ Later(d, e) /\ SameRing(g, e) /\ e.first = 0 /\ e.index = None
            /\ e.rearm = d.rearm
            /\ e.rearm_waiting <=> d.rearm /\ d.cfg.trigger # "none"
            /\ e.floor = IF d.rearm /\ d.cfg.trigger # "none" THEN e.produced ELSE d.floor
            /\ e.rearm_waiting => e.scan = e.produced
            /\ e.state = IF Len(e.segs) >= e.cfg.segments THEN "paused" ELSE "capturing"
        <4>1. Good(d, t) /\ d.cfg.mode = "repeat" /\ own \in SUBSET {"rearm", "short"} /\ Len(d.segs) < d.cfg.segments
          BY <1>1, <1>2, <2>2
        <4> QED BY <4>1, <1>4, <2>1, <2>3, RoundMade
      <3> QED BY <3>1
    <2>5. PICK n \in Nat \ {0}, x \in Int : n = Size(d) /\ x = d.index
      BY <1>1, SizeIsNat DEF Track
    <2>6. /\ \A k \in 1..Len(g.segs) : Marked(g, g.segs[k], F)
          /\ Rearms(g) => Spaced(g) /\ Over(g, g.t0 + g.produced)
          /\ g.cfg = d.cfg /\ g.rearm = d.rearm /\ g.done = d.done + 1
      BY <1>1, <1>2, <1>4, <2>1, <2>2, <2>5, SegmentMarks, SegmentMade
    <2>7. /\ e.cfg = g.cfg /\ e.segs = g.segs /\ e.t0 = g.t0 /\ e.produced = g.produced /\ e.rearm = g.rearm
          /\ e.done = d.done + 1 /\ 0 <= e.done /\ e.done # 0
      BY <1>1, <2>2, <2>4, <2>6 DEF SameRing, Track
    <2>11. e.rearm_waiting /\ Sure(e, e.done) => Blind(e)
      <3> SUFFICES ASSUME e.rearm_waiting, Sure(e, e.done) PROVE Blind(e)
        OBVIOUS
      <3>1. e.scan = e.floor
        BY <2>4
      <3>2. e.cfg.arm /\ e.cfg.pretrigger > 0
        BY <2>7 DEF Sure
      <3>3. e.cfg.pretrigger \in Int /\ e.floor \in Int
        BY <2>4 DEF Good, Track, Settled
      <3> QED BY <3>1, <3>2, <3>3 DEF Blind, Begin
    <2>8. Pending(e, F)
      <3>1. Rearms(e) => e.rearm_waiting /\ e.floor = e.produced
        BY <2>4, <2>6, <2>7 DEF Rearms
      <3>2. Rearms(e) => Over(e, e.t0 + e.floor)
        BY <2>6, <2>7, <3>1 DEF Rearms, Over
      <3>3. e.state = "capturing" => Len(e.segs) < e.cfg.segments
        <4>1. e.segs \in Seq(Record) /\ e.cfg.segments \in Nat
          BY <2>4 DEF Good, Track, Settled
        <4>2. Len(e.segs) \in Nat
          BY <4>1
        <4> QED BY <2>4, <4>1, <4>2
      <3>4. e.state # "paused" \/ ~(e.rearm_waiting /\ Sure(e, e.done)) \/ Blind(e)
        BY <2>11
      <3> QED BY <2>4, <2>7, <3>1, <3>2, <3>3, <3>4 DEF Pending
    <2>9. \A k \in 1..Len(e.segs) : Marked(e, e.segs[k], F)
      BY <2>6, <2>7 DEF Marked, Sure
    <2>10. Rearms(e) => Spaced(e)
      BY <2>6, <2>7 DEF Rearms, Spaced
    <2>12. Marks(e, F)
      BY <2>4, <2>8, <2>9, <2>10 DEF Marks
    <2>13. Search(e, E)
      BY <2>4, <2>11 DEF Search, Looking, Told
    <2> QED BY <2>12, <2>13 DEF e
  <1> QED BY <1>5, <1>6

\* A repeat's tick.
LEMMA RepeatMarks ==
  ASSUME NEW c, NEW t \in Nat, NEW E, NEW F, Good(c, t), Marks(c, F), Search(c, E), EdgeTimes(c, E) \subseteq F,
         c.cfg.mode = "repeat"
  PROVE  Marks(TickRepeat(c, t, E), F) /\ Search(TickRepeat(c, t, E), E)
  <1> DEFINE S == {d \in Track : Good(d, t) /\ d.cfg = c.cfg /\ Marks(d, F) /\ Search(d, E)}
  <1>1. c.cfg.segments \in Nat /\ c \in S
    BY DEF Good, Track, Settled
  <1>2. ASSUME NEW d \in S PROVE RepeatRound(d, t, E) \in S
    <2>0. d.cfg = c.cfg /\ EdgeTimes(d, E) = EdgeTimes(c, E)
      BY DEF EdgeTimes
    <2>1. /\ Good(RepeatRound(d, t, E), t) /\ Later(d, RepeatRound(d, t, E))
          /\ Marks(RepeatRound(d, t, E), F) /\ Search(RepeatRound(d, t, E), E)
      BY <2>0, RoundGood, RoundMarks
    <2> QED BY <2>1 DEF Good, Later
  <1>3. TickRepeat(c, t, E) \in S
    BY <1>1, <1>2, RoundsKeep
  <1> QED BY <1>3

\* Time passes.
LEMMA TickMarks ==
  ASSUME NEW c, NEW t \in Nat, NEW E, NEW F, Good(c, t), Marks(c, F), Search(c, E), EdgeTimes(c, E) \subseteq F
  PROVE  Marks(Tick(c, t, E), F) /\ Search(Tick(c, t, E), E)
  <1> DEFINE d == Poll(c, t, E)
             e == TickCapturing(d, t, E)
  <1>1. Good(d, t) /\ Marks(d, F) /\ Search(d, E) /\ d.cfg = c.cfg /\ EdgeTimes(d, E) = EdgeTimes(c, E)
    BY PollGood, PollMarks DEF Later, EdgeTimes
  <1>2. e = Tick(c, t, E) /\ Later(c, e)
    BY TickGood DEF Tick
  <1> HIDE DEF d
  <1>3. CASE d.state # "capturing"
    BY <1>1, <1>2, <1>3 DEF TickCapturing
  <1>4. CASE d.state = "capturing" /\ d.cfg.mode = "one_shot"
    <2>1. e = TickOneShot(d, t)
      BY <1>4 DEF TickCapturing
    <2> QED BY <1>1, <1>2, <1>4, <2>1, OneShotMarks
  <1>5. CASE d.state = "capturing" /\ d.cfg.mode = "repeat"
    <2>1. e = TickRepeat(d, t, E)
      BY <1>5 DEF TickCapturing
    <2> QED BY <1>1, <1>2, <1>5, <2>1, RepeatMarks
  <1>6. CASE d.cfg.mode = "streaming"
    <2>1. d.cfg = c.cfg
      BY PollGood DEF Later, d
    <2>2. Streams(e)
      BY <1>2, <1>6, <2>1 DEF Later, Streams
    <2> QED BY <1>2, <2>2 DEF Marks, Search
  <1>7. d.cfg.mode \in {"one_shot", "repeat", "streaming"}
    BY <1>1 DEF Good, Track, Settled
  <1> QED BY <1>3, <1>4, <1>5, <1>6, <1>7

\* A start's first look.
LEMMA StartMarks ==
  ASSUME NEW c, NEW t \in Nat, NEW E, NEW F, Good(c, t), EdgeTimes(c, E) \subseteq F
  PROVE  Marks(Start(c, t, FALSE, E), F) /\ Search(Start(c, t, FALSE, E), E)
  <1>1. PICK s : Begun(c, s, t) /\ Start(c, t, FALSE, E) = IF s.state = "waiting" THEN Poll(s, t, E) ELSE Tick(s, t, E)
    BY StartBegins
  <1>2. /\ Good(s, t) /\ s.cfg = c.cfg /\ s.segs = <<>> /\ s.index = None /\ s.done = 0
        /\ s.floor = 0 /\ s.scan = 0 /\ EdgeTimes(s, E) = EdgeTimes(c, E) /\ ~s.rearm_waiting
        /\ s.state = IF c.cfg.trigger # "none" THEN "waiting" ELSE "capturing"
    BY <1>1 DEF Begun, EdgeTimes
  <1>3. s.state = "capturing" => ~Rearms(s)
    BY <1>2 DEF Rearms
  <1>4. Len(s.segs) < s.cfg.segments
    <2>1. s.cfg.segments \in Nat \ {0} /\ Len(s.segs) = 0
      BY <1>2 DEF Good, Track, Settled
    <2> QED BY <2>1
  <1>5. s.state = "capturing" => Pending(s, F)
    BY <1>2, <1>3, <1>4 DEF Pending
  <1>6. Marks(s, F)
    BY <1>2, <1>5 DEF Marks, Spaced
  <1>7. Search(s, E)
    BY <1>2 DEF Search, Told, Blind
  <1> QED BY <1>1, <1>2, <1>6, <1>7, PollMarks, TickMarks

\* A segment ended short has the marks of the track it is of.
LEMMA ShortMarks ==
  ASSUME NEW c, NEW t \in Nat, NEW F, Good(c, t), ~Streams(c), Marks(c, F), c.state = "capturing"
  PROVE  LET g == Shortened(c, t)
         IN (\A k \in 1..Len(g.segs) : Marked(g, g.segs[k], F)) /\ (Rearms(g) => Spaced(g))
  <1> DEFINE due == IF c.cfg.mode = "one_shot" THEN OneShotDue(c, t) ELSE Due(c, t)
             n == Lower(Size(c) - 1, Higher(0, due - c.produced))
             x == IF c.index < n THEN c.index ELSE None
             g == Shortened(c, t)
  <1>1. c.t0 \in Int /\ c.produced \in Int /\ c.index \in Int /\ Size(c) \in Nat \ {0}
    BY SizeIsNat DEF Good, Track
  <1>2. due \in Int
    BY <1>1 DEF OneShotDue, Due
  <1>3. n \in Nat /\ x \in {c.index, None} /\ x \in Int
    <2> HIDE DEF due
    <2> QED BY <1>1, <1>2 DEF Lower, Higher, None
  <1>4. /\ c.rearm_waiting \/ n = 0 => g = c
        /\ g = c \/ g = Segment(c, n, x, {"short"})
    BY DEF Shortened
  <1> HIDE DEF due, n, x, g
  <1>5. CASE g = c
    BY <1>5 DEF Marks, g
  <1>6. CASE g # c
    <2>1. g = Segment(c, n, x, {"short"}) /\ n \in Nat \ {0} /\ ~c.rearm_waiting
      BY <1>3, <1>4, <1>6
    <2>2. Len(c.segs) < c.cfg.segments
      BY DEF Marks, Pending
    <2>3. {"short"} \in SUBSET {"rearm", "short"} /\ "short" \in {"short"}
      OBVIOUS
    <2> QED BY <1>3, <2>1, <2>2, <2>3, SegmentMarks DEF g
  <1> QED BY <1>5, <1>6

\* A stop: what it has of a segment is a short one, with its trigger if that is in it.
LEMMA StopMarks ==
  ASSUME NEW c, NEW t \in Nat, NEW E, NEW F, Good(c, t), Marks(c, F), Search(c, E), EdgeTimes(c, E) \subseteq F
  PROVE  Marks(Stop(c, t, E), F) /\ Search(Stop(c, t, E), E)
  <1> DEFINE d == Tick(c, t, E)
             h == Shortened(d, t)
             e == Stop(c, t, E)
  <1>1. Good(d, t) /\ Marks(d, F) /\ Later(c, d) /\ Later(c, e)
    BY TickGood, TickMarks, StopGood
  <1>2. /\ d.state \in {"error", "waiting", "paused"} => e = [d EXCEPT !.state = "configured"]
        /\ d.state \notin {"error", "waiting", "paused", "capturing"} => e = d
        /\ d.state = "capturing" /\ ~Streams(d) => e = [h EXCEPT !.state = "configured"]
    BY DEF Stop, Streams
  <1>3. Streams(e) <=> Streams(d)
    BY <1>1 DEF Later, Streams
  <1> HIDE DEF d, e
  <1>4. CASE Streams(d)
    BY <1>3, <1>4 DEF Marks, Search, e
  <1>5. CASE ~Streams(d) /\ d.state # "capturing"
    <2>1. CASE d.state \in {"error", "waiting", "paused"}
      <3>1. d \in Track
        BY <1>1 DEF Good
      <3>2. SameRing(d, e) /\ e.state = "configured" /\ e.rearm = d.rearm
        BY <1>2, <2>1, <3>1, Restated DEF States
      <3>3. (\A k \in 1..Len(d.segs) : Marked(d, d.segs[k], F)) /\ (Rearms(d) => Spaced(d))
        BY <1>1, <1>5 DEF Marks
      <3>4. Search(e, E)
        BY <3>2 DEF Search, Looking
      <3> QED BY <3>2, <3>3, <3>4, MarksAtRest DEF e
    <2>2. CASE d.state \notin {"error", "waiting", "paused"}
      BY <1>1, <1>2, <1>5, <2>2 DEF e, Search, Looking
    <2> QED BY <2>1, <2>2
  <1>6. CASE ~Streams(d) /\ d.state = "capturing"
    <2>1. h \in Track /\ h.cfg = d.cfg /\ h.rearm = d.rearm
      BY <1>1, <1>6, ShortMade DEF h
    <2>2. (\A k \in 1..Len(h.segs) : Marked(h, h.segs[k], F)) /\ (Rearms(h) => Spaced(h))
      BY <1>1, <1>6, ShortMarks DEF h
    <2> HIDE DEF h
    <2>3. SameRing(h, e) /\ e.state = "configured" /\ e.rearm = h.rearm
      BY <1>2, <1>6, <2>1, Restated DEF States
    <2>4. Search(e, E)
      BY <2>3 DEF Search, Looking
    <2> QED BY <2>2, <2>3, <2>4, MarksAtRest DEF e
  <1> QED BY <1>4, <1>5, <1>6

\* What a release leaves, and where a paused track goes on.
LEMMA ReleaseMarks ==
  ASSUME NEW c, NEW t \in Nat, NEW F, Good(c, t), Marks(c, F), NEW x \in Int, NEW E, Search(c, E)
  PROVE  Marks(Release(c, x, t), F) /\ Search(Release(c, x, t), E)
  <1> DEFINE kept == OfSerials(c.segs, (x + 1)..c.done)
             to == IF kept = <<>> THEN End(c) ELSE kept[1].position
             d == Freed(c, kept, to)
             e == Release(c, x, t)
  <1>1. \/ ~Releasable(c) /\ e = c
        \/ Releasable(c) /\ e = d
        \/ Releasable(c) /\ c.state = "paused" /\ Len(kept) < c.cfg.segments /\ e = GoesOn(d, t)
    BY DEF Release
  <1>2. CASE ~Releasable(c) /\ e = c
    BY <1>2
  <1>3. CASE Releasable(c)
    <2>1. /\ c.cfg.mode = "repeat" /\ ~Idle(c) /\ ~Streams(c) /\ c.state \in {"capturing", "paused"}
          /\ c \in Track /\ c.segs \in Seq(Record) /\ c.cfg.segments \in Nat
          /\ c.t0 \in Int /\ c.produced \in Int /\ c.floor \in Int /\ c.t0 + c.produced <= t
      BY <1>3 DEF Releasable, Idle, Streams, Good, Track, Settled, Counts
    <2>2. Freeing(c, x, kept, to, d)
      BY Zenon DEF Freeing
    <2>3. d.segs = kept
      BY <2>1, Zenon DEF Freed, Track
    <2> HIDE DEF kept, to, d, e
    <2>4. Good(d, t) /\ Remains(c, d)
      BY <2>1, <2>2, FreedGood
    <2>5. /\ d.state = c.state /\ d.cfg = c.cfg /\ d.rearm = c.rearm /\ d.t0 = c.t0 /\ d.produced = c.produced
          /\ d.first = c.first /\ d.index = c.index /\ d.floor = c.floor /\ d.rearm_waiting = c.rearm_waiting
          /\ d.done = c.done /\ d.scan = c.scan /\ d.seen = c.seen
      BY <2>4 DEF Remains
    <2>6. PICK gone \in Nat : Len(c.segs) = gone + Len(d.segs) /\ \A k \in 1..Len(d.segs) : d.segs[k] = c.segs[gone + k]
      BY <2>4 DEF Remains
    <2>7. PICK n \in Nat, l \in Nat : n = Len(c.segs) /\ l = Len(d.segs)
      <3>1. d.segs \in Seq(Record)
        BY <2>4 DEF Good, Track
      <3> QED BY <2>1, <3>1, SMTT(30)
    <2>8. n = gone + l /\ \A k \in 1..l : d.segs[k] = c.segs[gone + k]
      BY <2>6, <2>7
    <2>9. /\ \A k \in 1..n : Marked(c, c.segs[k], F)
          /\ Rearms(c) => Spaced(c)
          /\ Pending(c, F)
      BY <2>1, <2>7 DEF Marks
    <2>10. \A k \in 1..l : Marked(d, d.segs[k], F)
      <3>1. ASSUME NEW k \in 1..l PROVE Marked(d, d.segs[k], F)
        <4>1. gone + k \in 1..n
          BY <2>8
        <4> QED BY <2>5, <2>8, <2>9, <4>1 DEF Marked, Sure
      <3> QED BY <3>1
    <2>11. (Rearms(d) <=> Rearms(c)) /\ (Rearms(d) => Spaced(d))
      <3>1. Rearms(d) <=> Rearms(c)
        BY <2>5 DEF Rearms
      <3>2. ASSUME Spaced(c), NEW k \in 1..l
            PROVE  /\ d.segs[k].index # None \/ "short" \in d.segs[k].flags
                   /\ k > 1 => d.segs[k].start >= d.segs[k - 1].start + d.segs[k - 1].samples
        <4>1. PICK m \in 1..n : m = gone + k
          BY <2>8
        <4>2. k > 1 => k - 1 \in 1..l /\ gone + (k - 1) = m - 1 /\ m > 1
          BY <4>1
        <4>3. d.segs[k] = c.segs[m] /\ (k > 1 => d.segs[k - 1] = c.segs[m - 1])
          BY <2>8, <4>1, <4>2
        <4> QED BY <2>7, <3>2, <4>2, <4>3 DEF Spaced
      <3> QED BY <2>7, <2>9, <3>1, <3>2 DEF Spaced
    <2>12. Rearms(c) => Over(d, c.t0 + c.floor)
      <3>1. ASSUME Rearms(c), l > 0 PROVE d.segs[l].start + d.segs[l].samples <= c.t0 + c.floor
        <4>1. l \in 1..l /\ gone + l = n /\ n > 0
          BY <2>8, <3>1
        <4>2. d.segs[l] = c.segs[n]
          BY <2>8, <4>1
        <4> QED BY <2>7, <2>9, <3>1, <4>1, <4>2 DEF Pending, Over
      <3> QED BY <2>7, <3>1 DEF Over
    <2>13. c.state = "capturing" => l < c.cfg.segments
      BY <2>1, <2>7, <2>8, <2>9 DEF Pending
    <2>14. CASE e = d
      <3>1. Pending(d, F)
        BY <2>5, <2>7, <2>9, <2>11, <2>12, <2>13 DEF Pending, Sure, Blind, Begin
      <3>2. Marks(d, F)
        BY <2>1, <2>5, <2>7, <2>10, <2>11, <3>1 DEF Marks
      <3>3. Looking(d) /\ Sure(d, d.done) => Looking(c) /\ Sure(c, c.done)
        BY <2>5 DEF Looking, Sure
      <3>4. Told(c, E) => Told(d, E)
        BY <2>5 DEF Told, Blind, Begin, High
      <3>5. Search(d, E)
        BY <2>1, <3>3, <3>4 DEF Search
      <3> QED BY <2>14, <3>2, <3>5 DEF e
    <2>15. CASE c.state = "paused" /\ Len(kept) < c.cfg.segments /\ e = GoesOn(d, t)
      <3>1. /\ e.cfg = c.cfg /\ e.segs = d.segs /\ e.state = "capturing" /\ e.rearm = c.rearm /\ e.t0 = t - c.produced
            /\ e.index = c.index /\ e.floor = c.floor /\ e.rearm_waiting = c.rearm_waiting
            /\ e.done = c.done /\ e.scan = c.scan
        BY <2>1, <2>4, <2>5, <2>15, GoesOnGood
      <3>2. c.index = None
        BY <2>9, <2>15 DEF Pending
      <3>3. l < c.cfg.segments
        BY <2>3, <2>7, <2>15
      <3>4. c.t0 + c.floor <= e.t0 + e.floor /\ c.t0 + c.floor \in Int /\ e.t0 + e.floor \in Int
        BY <2>1, <3>1
      <3>5. (Rearms(e) <=> Rearms(c)) /\ (Rearms(e) => Spaced(e))
        BY <2>5, <2>11, <3>1 DEF Rearms, Spaced
      <3>6. Rearms(c) => Over(e, e.t0 + e.floor)
        <4>1. ASSUME Rearms(c), l > 0 PROVE d.segs[l].start + d.segs[l].samples <= e.t0 + e.floor
          <5>1. d.segs[l].start + d.segs[l].samples <= c.t0 + c.floor
            BY <2>7, <2>12, <4>1 DEF Over
          <5>2. d.segs \in Seq(Record) /\ l \in 1..Len(d.segs)
            BY <2>4, <2>7, <4>1 DEF Good, Track
          <5>3. PICK z \in Record : z = d.segs[l]
            BY <5>2
          <5>4. PICK a \in Int, b \in Int : a = z.start /\ b = z.samples
            BY DEF Record
          <5> QED BY <3>4, <5>1, <5>3, <5>4
        <4> QED BY <2>7, <3>1, <4>1 DEF Over
      <3>7. Pending(e, F)
        BY <2>7, <2>9, <3>1, <3>2, <3>3, <3>5, <3>6 DEF Pending, Sure
      <3>8. \A k \in 1..Len(e.segs) : Marked(e, e.segs[k], F)
        BY <2>5, <2>7, <2>10, <3>1 DEF Marked, Sure
      <3>9. Looking(e) /\ Sure(e, e.done) => Blind(e)
        BY <2>9, <2>15, <3>1 DEF Pending, Looking, Sure, Blind, Begin
      <3>10. Marks(e, F)
        BY <3>1, <3>5, <3>7, <3>8 DEF Marks
      <3>11. Search(e, E)
        BY <3>9 DEF Search, Told
      <3> QED BY <3>10, <3>11 DEF e
    <2> QED BY <1>1, <1>3, <2>14, <2>15
  <1> QED BY <1>1, <1>2, <1>3

---------------------------------------------------------------------------
(* The host. *)

\* The host acquires.
Acquiring == pc \in {"poll", "list", "read", "release", "stop"}
\* The host acquires, with the lock it configured under.
Owned == holder = "host" /\ Acquiring

\* Bytes a read of this record is answered with are its samples, whatever the track is by then.
Readable(c, s) ==
  /\ s.gen <= c.gen
  /\ s.gen = c.gen => Idle(c) \/ (~Streams(c) /\ s.position + s.samples <= End(c) /\ Names(c, s))

\* Under its lock the track is the one the host started; what it is about to read is in the ring.
HostTrack ==
  /\ holder = "host" /\ pc = "start" => track.cfg = cfg
  /\ Owned => track.cfg = cfg /\ began = track.gen
  /\ Owned /\ Repeating =>
       /\ track.done - Len(track.segs) <= nxt /\ nxt <= track.done
       /\ pc \in {"read", "release"} =>
            \A k \in 1..Len(ready) : /\ ready[k].serial = nxt + k - 1
                                     /\ \E j \in 1..Len(track.segs) : track.segs[j] = ready[k]

\* What it reads.
Reading ==
  /\ ready \in Seq(Record) /\ buf \in Seq(Int)
  /\ \A k \in 1..Len(ready) : Readable(track, ready[k])
  /\ pc \in {"read", "release"} =>
       /\ ready # <<>>
       /\ \A i \in 1..Len(buf) : buf[i] = ready[1].start + i - 1
  /\ pc = "read" => Len(buf) < ready[1].samples
  /\ pc = "release" => Len(buf) = ready[1].samples /\ Repeating

\* What it has read.
PartSet == [start : Int, samples : Nat \ {0}, index : Int, gen : Nat, data : Seq(Int), tick0 : Int]
Taken ==
  /\ parts \in Seq(PartSet)
  /\ SegmentsTrue
  /\ Acquiring /\ ~Repeating => parts = <<>>
  /\ pc = "start" => parts = <<>>
  /\ Owned /\ Repeating /\ cfg.trigger = "none" /\ parts # <<>> =>
       Follows(track, nxt, parts[Len(parts)].start + parts[Len(parts)].samples)

\* The plan, the clock and the serials.
Typed ==
  /\ now \in Nat /\ cfg \in Settled /\ nxt \in Nat /\ upto \in Int
  /\ pc = "start" => nxt = 0

\* The inductive invariant.
ReadInv == Typed /\ Good(track, now) /\ HostTrack /\ Reading /\ Taken

---------------------------------------------------------------------------
(* What the host goes by, while the track changes. *)

\* What can be read of a track can be read of it later.
LEMMA ReadableLater ==
  ASSUME NEW c, NEW d \in Track, NEW t, Good(c, t), Later(c, d), NEW s \in Record, Readable(c, s)
  PROVE  Readable(d, s)
  <1>1. c \in Track /\ d.gen = c.gen /\ (Streams(d) <=> Streams(c))
    BY DEF Good, Later, Streams
  <1> SUFFICES ASSUME s.gen = c.gen, ~Idle(d) PROVE ~Streams(d) /\ s.position + s.samples <= End(d) /\ Names(d, s)
    BY <1>1 DEF Readable
  <1>2. ~Idle(c)
    BY DEF Later
  <1>3. ~Streams(c) /\ s.position + s.samples <= End(c) /\ Names(c, s)
    BY <1>2 DEF Readable
  <1>4. Grown(c, d)
    BY <1>3 DEF Later
  <1>5. PICK p \in Nat, n \in Nat : p = s.position /\ n = s.samples
    BY DEF Record
  <1>6. PICK b \in Int, l \in Nat, m \in Nat : b = c.base /\ l = Len(c.data) /\ m = Len(d.data)
    <2>1. c.base \in Int /\ c.data \in Seq(Int) /\ d.data \in Seq(Int)
      BY <1>1 DEF Track
    <2>2. Len(c.data) \in Nat /\ Len(d.data) \in Nat
      BY <2>1
    <2> QED BY <2>1, <2>2
  <1>7. d.base = b /\ l <= m /\ \A i \in 1..l : d.data[i] = c.data[i]
    BY <1>4, <1>6 DEF Grown
  <1>8. p + n <= b + l
    BY <1>3, <1>5, <1>6 DEF End
  <1>9. p + n <= b + m
    BY <1>7, <1>8
  <1>10. s.position + s.samples <= End(d)
    BY <1>5, <1>6, <1>7, <1>9 DEF End
  <1>11. ASSUME NEW i \in 1..n, p + i > b PROVE d.data[p - b + i] = s.start + i - 1
    <2>1. p - b + i \in 1..l
      BY <1>8, <1>11
    <2>2. c.data[p - b + i] = s.start + i - 1
      BY <1>3, <1>5, <1>6, <1>11 DEF Names
    <2> QED BY <2>1, <2>2, <1>7
  <1>12. Names(d, s)
    BY <1>5, <1>7, <1>11 DEF Names
  <1> QED BY <1>1, <1>3, <1>10, <1>12

\* What can be read of a track is refused by the next generation, and answered with nothing by a track forgotten.
LEMMA ReadableOther ==
  ASSUME NEW c, NEW d, NEW s \in Record, Readable(c, s), c.gen \in Nat,
         (d.gen = c.gen /\ Idle(d)) \/ d.gen = c.gen + 1
  PROVE  Readable(d, s)
  <1>1. s.gen \in Nat
    BY DEF Record
  <1> QED BY <1>1 DEF Readable

\* What can be read of a track can be read of what a release leaves of it.
LEMMA ReadableLeft ==
  ASSUME NEW c, NEW d, NEW x, Left(c, d, x), NEW s \in Record, Readable(c, s)
  PROVE  Readable(d, s)
  BY DEF Left, Readable, Streams

\* A look at the clock.
LEMMA GoodLater ==
  ASSUME NEW c, NEW t \in Nat, Good(c, t)
  PROVE  Good(c, t + 1)
  <1>1. c.t0 \in Int /\ c.produced \in Int
    BY DEF Good, Track
  <1>2. Counts(c, t) => Counts(c, t + 1)
    BY <1>1 DEF Counts
  <1>3. c.t0 <= t => c.t0 <= t + 1
    BY <1>1
  <1> QED BY <1>2, <1>3 DEF Good

\* What every request does first.
LEMMA TickedGood ==
  ASSUME Good(track, now), now \in Nat
  PROVE  Good(Ticked, now) /\ Later(track, Ticked) /\ Ticked \in Track /\ track \in Track
  BY TickGood DEF Ticked, Good

\* What is later than the track by now is later than the track.
LEMMA LaterTicked ==
  ASSUME Good(track, now), now \in Nat, NEW d, Good(d, now), Later(Ticked, d)
  PROVE  Later(track, d)
  BY TickedGood, LaterTwice DEF Good

---------------------------------------------------------------------------
(* The parts of the invariant that a step leaves. *)

\* The host's track, when it only grows and the host wants what it wanted.
LEMMA HeldStays ==
  ASSUME HostTrack, Good(track, now), Good(track', now'), Later(track, track'), cfg' = cfg, began' = began,
         nxt' = nxt, nxt \in Nat, holder' = "host" => holder = "host",
         pc' = "start" => pc = "start", Acquiring' => Acquiring,
         pc' \in {"read", "release"} => pc \in {"read", "release"} /\ ready' = ready
  PROVE  HostTrack'
  <1>1. track'.cfg = track.cfg /\ track'.gen = track.gen /\ track \in Track /\ track' \in Track
    BY DEF Later, Good
  <1>2. Owned' => Owned
    BY DEF Owned
  <1>3. ASSUME Owned', Repeating'
        PROVE  /\ (track.done - Len(track.segs) <= nxt /\ nxt <= track.done)'
               /\ pc' \in {"read", "release"} =>
                    \A k \in 1..Len(ready') : /\ ready'[k].serial = nxt' + k - 1
                                              /\ \E j \in 1..Len(track'.segs) : track'.segs[j] = ready'[k]
    <2>1. Owned /\ Repeating
      BY <1>2, <1>3 DEF Repeating
    <2>2. track.cfg = cfg /\ ~Streams(track)
      BY <2>1 DEF HostTrack, Repeating, Streams
    <2>3. Grown(track, track')
      BY <2>2 DEF Later
    <2>4. PICK m \in Int, n \in Int, a \in Nat, b \in Nat :
            m = track.done /\ n = track'.done /\ a = Len(track.segs) /\ b = Len(track'.segs)
      <3>1. track.done \in Int /\ track'.done \in Int /\ track.segs \in Seq(Record) /\ track'.segs \in Seq(Record)
        BY <1>1 DEF Track
      <3>2. Len(track.segs) \in Nat /\ Len(track'.segs) \in Nat
        BY <3>1
      <3> QED BY <3>1, <3>2
    <2>5. n - b = m - a /\ a <= b /\ \A k \in 1..a : track'.segs[k] = track.segs[k]
      BY <2>3, <2>4 DEF Grown
    <2>6. m - a <= nxt /\ nxt <= m
      BY <2>1, <2>4 DEF HostTrack
    <2>7. n - b <= nxt' /\ nxt' <= n
      BY <2>5, <2>6
    <2>8. ASSUME pc' \in {"read", "release"}, NEW k \in 1..Len(ready')
          PROVE  ready'[k].serial = nxt' + k - 1 /\ \E j \in 1..Len(track'.segs) : track'.segs[j] = ready'[k]
      <3>1. ready' = ready /\ pc \in {"read", "release"}
        BY <2>8
      <3>2. PICK j \in 1..a : track.segs[j] = ready[k]
        BY <2>1, <2>4, <2>8, <3>1 DEF HostTrack
      <3>3. ready[k].serial = nxt + k - 1
        BY <2>1, <2>8, <3>1 DEF HostTrack
      <3>4. j \in 1..b
        BY <2>5
      <3> QED BY <2>4, <2>5, <3>1, <3>2, <3>3, <3>4
    <2> QED BY <2>4, <2>7, <2>8
  <1>4. (holder = "host" /\ pc = "start")' => track'.cfg = cfg'
    BY <1>1 DEF HostTrack
  <1>5. Owned' => track'.cfg = cfg' /\ began' = track'.gen
    BY <1>1, <1>2 DEF HostTrack
  <1> QED BY <1>3, <1>4, <1>5 DEF HostTrack

\* What the host reads, when it can still be read.
LEMMA ReadingStays ==
  ASSUME Reading, \A s \in Record : Readable(track, s) => Readable(track', s), cfg' = cfg, ready' = ready, buf' = buf,
         pc' \in {"read", "release"} => pc' = pc
  PROVE  Reading'
  <1>1. ready \in Seq(Record) /\ buf \in Seq(Int)
    BY DEF Reading
  <1>2. ASSUME NEW k \in 1..Len(ready) PROVE Readable(track', ready[k])
    BY <1>1, <1>2 DEF Reading
  <1>3. pc' \in {"read", "release"} => ready' # <<>> /\ \A i \in 1..Len(buf') : buf'[i] = ready'[1].start + i - 1
    BY DEF Reading
  <1>4. (pc' = "read" => Len(buf') < ready'[1].samples) /\ (pc' = "release" => Len(buf') = ready'[1].samples /\ Repeating')
    BY DEF Reading, Repeating
  <1> QED BY <1>1, <1>2, <1>3, <1>4 DEF Reading

\* What the host has read, when it reads nothing.
LEMMA TakenStays ==
  ASSUME Taken, HostTrack, Good(track, now), Good(track', now'), Later(track, track'), cfg' = cfg, nxt' = nxt, nxt \in Nat,
         parts' = parts, holder' = "host" => holder = "host", pc' = "start" => pc = "start", Acquiring' => Acquiring
  PROVE  Taken'
  <1>1. Owned' => Owned
    BY DEF Owned
  <1>2. ASSUME Owned', Repeating', cfg'.trigger = "none", parts' # <<>>
        PROVE  Follows(track', nxt', parts'[Len(parts')].start + parts'[Len(parts')].samples)
    <2>1. Owned /\ Repeating
      BY <1>1, <1>2 DEF Repeating
    <2>2. track.cfg = cfg /\ ~Streams(track) /\ nxt <= track.done
      BY <2>1 DEF HostTrack, Repeating, Streams
    <2>3. Grown(track, track')
      BY <2>2 DEF Later
    <2>4. PICK e \in Int : e = parts[Len(parts)].start + parts[Len(parts)].samples
      <3>1. parts \in Seq(PartSet) /\ parts # <<>>
        BY <1>2 DEF Taken
      <3>2. parts[Len(parts)] \in PartSet
        BY <3>1
      <3> QED BY <3>2 DEF PartSet
    <2>5. Follows(track, nxt, e)
      BY <1>2, <2>1, <2>4 DEF Taken
    <2>6. nxt \in Int /\ track.cfg.trigger = "none"
      BY <1>2, <2>2
    <2>7. Follows(track', nxt, e)
      BY <2>2, <2>3, <2>5, <2>6 DEF Grown
    <2> QED BY <2>4, <2>7
  <1>3. parts' \in Seq(PartSet) /\ SegmentsTrue'
    BY DEF Taken, SegmentsTrue, PartsWhole, PartsPlaced
  <1>4. (Acquiring' /\ ~Repeating' => parts' = <<>>) /\ (pc' = "start" => parts' = <<>>)
    BY DEF Taken, Repeating
  <1> QED BY <1>2, <1>3, <1>4 DEF Taken

\* A step that lets the track's time pass, or runs it on, and leaves what the host has.
LEMMA RunsOn ==
  ASSUME ReadInv, Good(track', now'), Later(track, track'), UNCHANGED <<cfg, began, nxt, ready, buf, parts>>,
         now' \in Nat, upto' \in Int, holder' = "host" => holder = "host", pc' = "start" => pc = "start", Acquiring' => Acquiring,
         pc' \in {"read", "release"} => pc' = pc
  PROVE  ReadInv'
  <1>1. HostTrack /\ Good(track, now) /\ Reading /\ Taken /\ nxt \in Nat /\ Typed
    BY DEF ReadInv, Typed
  <1>2. HostTrack'
    BY <1>1, HeldStays
  <1>3. \A s \in Record : Readable(track, s) => Readable(track', s)
    BY <1>1, ReadableLater DEF Good
  <1>4. Reading'
    BY <1>1, <1>3, ReadingStays
  <1>5. Taken'
    BY <1>1, TakenStays
  <1>6. Typed'
    BY <1>1 DEF Typed
  <1> QED BY <1>2, <1>4, <1>5, <1>6 DEF ReadInv

\* A step of another session, or one that takes the lock away: what the host has stays as it is.
LEMMA NotTheHosts ==
  ASSUME ReadInv, Good(track', now'), \A s \in Record : Readable(track, s) => Readable(track', s),
         UNCHANGED <<cfg, nxt, ready, buf, parts, upto>>, now' \in Nat,
         holder' # "host" \/ pc' = "off", pc' = pc \/ pc' = "off"
  PROVE  ReadInv'
  <1>1. Reading /\ Taken /\ Typed
    BY DEF ReadInv
  <1>2. HostTrack'
    BY DEF HostTrack, Owned, Acquiring
  <1>3. Reading'
    BY <1>1, ReadingStays
  <1>4. Taken'
    <2>1. parts' \in Seq(PartSet) /\ SegmentsTrue'
      BY <1>1 DEF Taken, SegmentsTrue, PartsWhole, PartsPlaced
    <2>2. (Acquiring' /\ ~Repeating' => parts' = <<>>) /\ (pc' = "start" => parts' = <<>>)
      BY <1>1 DEF Taken, Repeating, Acquiring
    <2>3. ~Owned'
      BY DEF Owned, Acquiring
    <2> QED BY <2>1, <2>2, <2>3 DEF Taken
  <1>5. Typed'
    BY <1>1 DEF Typed
  <1> QED BY <1>2, <1>3, <1>4, <1>5 DEF ReadInv

---------------------------------------------------------------------------
(* The steps of the host. *)

\* A call whose session has lost the lock.
LEMMA LockedOut ==
  ASSUME ReadInv, holder # "host", pc' = "failed", track' = Ticked,
         UNCHANGED <<holder, sub, since, cfg, gen, nxt, upto, ready, buf, parts, began, forced, runs>>,
         UNCHANGED <<now, input, line, taken, lost>>
  PROVE  ReadInv'
  <1>1. Good(track, now) /\ now \in Nat /\ upto \in Int
    BY DEF ReadInv, Typed
  <1>2. Good(track', now') /\ Later(track, track')
    BY <1>1, TickedGood
  <1> QED BY <1>1, <1>2, RunsOn DEF Acquiring

\* The track is the one before, a new one of the same generation, or the next generation's.
LEMMA StillReadable ==
  ASSUME Good(track, now), now \in Nat, NEW c, NEW d,
         c = Ticked, d = c \/ (d.gen = c.gen /\ Idle(d)) \/ d.gen = c.gen + 1
  PROVE  \A s \in Record : Readable(track, s) => Readable(d, s)
  <1>1. Later(track, c) /\ c \in Track /\ c.gen \in Nat
    BY TickedGood DEF Track
  <1> SUFFICES ASSUME NEW s \in Record, Readable(track, s) PROVE Readable(d, s)
    OBVIOUS
  <1>2. Readable(c, s)
    BY <1>1, ReadableLater
  <1> QED BY <1>1, <1>2, ReadableOther

\* The lock passes to a session.
LEMMA PassedOn ==
  ASSUME Good(track, now), now \in Nat, NEW to, LockPasses(to)
  PROVE  Good(track', now) /\ \A s \in Record : Readable(track, s) => Readable(track', s)
  <1>1. Good(Ticked, now) /\ Ticked \in Track
    BY TickedGood
  <1>2. Ticked.gen \in Nat
    BY <1>1 DEF Track
  <1>3. CASE track' = Ticked
    BY <1>1, <1>3, StillReadable
  <1>4. CASE track' = Fresh(Ticked.gen)
    <2>1. Good(track', now) /\ Idle(track') /\ track'.gen = Ticked.gen
      BY <1>2, <1>4, FreshGood
    <2> QED BY <2>1, StillReadable
  <1>5. track' = Ticked \/ track' = Fresh(Ticked.gen)
    BY DEF LockPasses, Unplanned
  <1> QED BY <1>3, <1>4, <1>5

\* open: it takes the lock, with whatever was planned before gone.
LEMMA StepOpen ==
  ASSUME ReadInv, Open
  PROVE  ReadInv'
  <1>1. Good(track, now) /\ now \in Nat /\ upto \in Int
    BY DEF ReadInv, Typed
  <1>2. LockPasses("host") /\ pc' = "off" /\ now' = now /\ UNCHANGED <<cfg, nxt, ready, buf, parts, upto>>
    BY DEF Open
  <1>3. Good(track', now') /\ \A s \in Record : Readable(track, s) => Readable(track', s)
    BY <1>1, <1>2, PassedOn
  <1> QED BY <1>1, <1>2, <1>3, NotTheHosts

\* configure: nothing of the last acquisition is left.
LEMMA StepConfigure ==
  ASSUME ReadInv, Configure
  PROVE  ReadInv'
  <1>1. Good(track, now) /\ now \in Nat
    BY DEF ReadInv, Typed
  <1>2. Good(Ticked, now) /\ Ticked \in Track
    BY <1>1, TickedGood
  <1>3. /\ cfg' \in Settled /\ track' = Apply(Ticked, cfg') /\ pc' = "start" /\ nxt' = 0 /\ upto' = 0
        /\ ready' = <<>> /\ buf' = <<>> /\ parts' = <<>> /\ now' = now /\ holder' = holder
    BY ConfigAssumption DEF Configure, ConfigAssumption
  <1>4. Ticked.t0 \in Int
    BY <1>2 DEF Track
  <1>5. PICK f \in Settled : f = cfg'
    BY <1>3
  <1>6. CASE Ticked.t0 <= now
    <2>1. Good(track', now') /\ track'.cfg = cfg'
      BY <1>1, <1>2, <1>3, <1>5, <1>6, ApplyGood
    <2>2. HostTrack'
      BY <1>3, <2>1 DEF HostTrack, Owned, Acquiring
    <2>3. Reading'
      BY <1>3 DEF Reading
    <2>4. Taken'
      BY <1>3 DEF Taken, Acquiring, Owned, SegmentsTrue, PartsWhole, PartsPlaced
    <2>5. Typed'
      BY <1>1, <1>3 DEF Typed
    <2> QED BY <2>1, <2>2, <2>3, <2>4, <2>5 DEF ReadInv
  <1>7. Ticked.t0 <= now
    BY <1>2 DEF Good, Counts
  <1> QED BY <1>6, <1>7

\* start: a new generation, of what the host configured.
LEMMA StepStartIt ==
  ASSUME ReadInv, StartIt
  PROVE  ReadInv'
  <1>1. Good(track, now) /\ now \in Nat /\ upto \in Int /\ HostTrack /\ Reading /\ Taken /\ Typed
    BY DEF ReadInv, Typed
  <1>2. /\ pc = "start"
        /\ UNCHANGED <<now, input, line, taken, lost>>
        /\ \/ /\ holder = "host" /\ track' = Start(Ticked, now, FALSE, input)
              /\ gen' = track'.gen /\ began' = track'.gen /\ pc' = "poll"
              /\ UNCHANGED <<holder, sub, since, cfg, nxt, upto, ready, buf, parts, forced, runs>>
           \/ /\ holder # "host" /\ pc' = "failed" /\ track' = Ticked
              /\ UNCHANGED <<holder, sub, since, cfg, gen, nxt, upto, ready, buf, parts, began, forced, runs>>
    BY DEF StartIt, Locked
  <1>3. CASE holder # "host"
    BY <1>2, <1>3, LockedOut
  <1>4. CASE holder = "host"
    <2>1. /\ track' = Start(Ticked, now, FALSE, input) /\ began' = track'.gen /\ pc' = "poll" /\ holder' = holder
          /\ UNCHANGED <<cfg, nxt, upto, ready, buf, parts, now>>
      BY <1>2, <1>4
    <2>2. Good(Ticked, now) /\ Later(track, Ticked) /\ Ticked \in Track
      BY <1>1, TickedGood
    <2>3. PICK d : d = Ticked
      OBVIOUS
    <2>4. /\ Good(track', now) /\ track'.gen = Ticked.gen + 1 /\ track'.cfg = Ticked.cfg
          /\ (~Streams(Ticked) => track'.done = Len(track'.segs))
      BY <1>1, <2>1, <2>2, StartGood
    <2>5. track'.cfg = cfg'
      BY <1>1, <1>2, <1>4, <2>1, <2>2, <2>4 DEF HostTrack, Later
    <2>6. nxt' = 0 /\ parts' = <<>>
      BY <1>1, <1>2, <2>1 DEF Typed, Taken
    <2>7. Repeating' => track'.done - Len(track'.segs) <= 0 /\ 0 <= track'.done
      <3>1. Repeating' => ~Streams(Ticked)
        BY <2>4, <2>5 DEF Repeating, Streams
      <3>2. track'.segs \in Seq(Record)
        BY <2>4 DEF Good, Track
      <3>3. Len(track'.segs) \in Nat
        BY <3>2
      <3> QED BY <2>4, <3>1, <3>3
    <2>8. HostTrack'
      BY <2>1, <2>5, <2>6, <2>7 DEF HostTrack
    <2>9. \A s \in Record : Readable(track, s) => Readable(track', s)
      BY <1>1, <2>4, StillReadable
    <2>10. Reading'
      BY <1>1, <2>1, <2>9, ReadingStays
    <2>11. Taken'
      BY <1>1, <2>1, <2>6 DEF Taken, SegmentsTrue, PartsWhole, PartsPlaced
    <2>12. Typed'
      BY <1>1, <2>1 DEF Typed
    <2> QED BY <2>1, <2>4, <2>8, <2>10, <2>11, <2>12 DEF ReadInv
  <1> QED BY <1>3, <1>4

\* force.
LEMMA StepForceIt ==
  ASSUME ReadInv, ForceIt
  PROVE  ReadInv'
  <1>1. Good(track, now) /\ now \in Nat /\ upto \in Int
    BY DEF ReadInv, Typed
  <1>2. /\ pc = "poll" /\ UNCHANGED <<now, input, line, taken, lost>>
        /\ \/ /\ holder = "host" /\ track' = ForceNow(Ticked, now, Ticked.cfg.pretrigger)
              /\ UNCHANGED <<holder, sub, since, pc, cfg, gen, nxt, upto, ready, buf, parts, began, runs>>
           \/ /\ holder # "host" /\ pc' = "failed" /\ track' = Ticked
              /\ UNCHANGED <<holder, sub, since, cfg, gen, nxt, upto, ready, buf, parts, began, forced, runs>>
    BY DEF ForceIt, Locked
  <1>3. CASE holder # "host"
    BY <1>2, <1>3, LockedOut
  <1>4. CASE holder = "host"
    <2>1. track' = ForceNow(Ticked, now, Ticked.cfg.pretrigger) /\ UNCHANGED <<holder, pc, cfg, nxt, upto, ready, buf, parts, began, now>>
      BY <1>2, <1>4
    <2>2. Good(track', now) /\ Later(Ticked, track')
      BY <1>1, <2>1, TickedGood, ForceGood
    <2>3. Later(track, track')
      BY <1>1, <2>2, LaterTicked
    <2> QED BY <1>1, <2>1, <2>2, <2>3, RunsOn DEF Acquiring
  <1> QED BY <1>3, <1>4

\* status.
LEMMA StepStatus ==
  ASSUME ReadInv, Status
  PROVE  ReadInv'
  <1>1. Good(track, now) /\ now \in Nat /\ upto \in Int
    BY DEF ReadInv, Typed
  <1>2. PICK c : c = Ticked
    OBVIOUS
  <1>3. /\ pc = "poll" /\ track' = c /\ ((pc' = "list" /\ upto' = c.done) \/ UNCHANGED <<pc, upto>>)
        /\ UNCHANGED <<now, input, holder, sub, since, line, taken, lost, cfg, nxt, ready, buf, parts, began, forced, runs>>
    BY <1>2, Zenon DEF Status
  <1>4. Good(c, now) /\ Later(track, c) /\ c.done \in Int
    <2>1. Good(c, now) /\ Later(track, c) /\ c \in Track
      BY <1>1, <1>2, TickedGood
    <2> QED BY <2>1 DEF Track
  <1>5. UNCHANGED <<holder, cfg, nxt, ready, buf, parts, began, now>> /\ track' = c
    BY <1>3
  <1>6. Good(track', now') /\ Later(track, track')
    BY <1>4, <1>5
  <1>7. CASE UNCHANGED <<pc, upto>>
    <2>1. pc' = pc /\ upto' = upto
      BY <1>7
    <2> QED BY <1>1, <1>5, <1>6, <2>1, RunsOn DEF Acquiring
  <1>8. CASE pc' = "list" /\ upto' = c.done
    <2>1. pc = "poll" /\ upto' \in Int
      BY <1>3, <1>4, <1>8
    <2> QED BY <1>1, <1>5, <1>6, <1>8, <2>1, RunsOn DEF Acquiring
  <1> QED BY <1>3, <1>7, <1>8

\* keepalive: it only finds the lock lost.
LEMMA StepKeepalive ==
  ASSUME ReadInv, Keepalive
  PROVE  ReadInv'
  BY LockedOut DEF Keepalive, Locked

\* A wait that is given up.
LEMMA StepTimesOut ==
  ASSUME ReadInv, TimesOut
  PROVE  ReadInv'
  <1>1. Good(track, now) /\ now \in Nat /\ upto \in Int
    BY DEF ReadInv, Typed
  <1>2. /\ pc = "poll" /\ pc' \in {"stop", "failed"} /\ track' = track
        /\ UNCHANGED <<holder, cfg, nxt, upto, ready, buf, parts, began, now>>
    BY DEF TimesOut, Fails, probeVars
  <1>3. Good(track', now') /\ Later(track, track')
    BY <1>1, <1>2, LaterSelf DEF Good
  <1> QED BY <1>1, <1>2, <1>3, RunsOn DEF Acquiring

\* stop.
LEMMA StepStopIt ==
  ASSUME ReadInv, StopIt
  PROVE  ReadInv'
  <1>1. Good(track, now) /\ now \in Nat /\ upto \in Int
    BY DEF ReadInv, Typed
  <1>2. /\ pc = "stop" /\ UNCHANGED <<now, input, line, taken, lost>>
        /\ \/ /\ holder = "host" /\ track' = Stop(Ticked, now, input) /\ pc' = "done"
              /\ UNCHANGED <<holder, sub, since, cfg, gen, nxt, upto, ready, buf, parts, began, forced, runs>>
           \/ /\ holder # "host" /\ pc' = "failed" /\ track' = Ticked
              /\ UNCHANGED <<holder, sub, since, cfg, gen, nxt, upto, ready, buf, parts, began, forced, runs>>
    BY DEF StopIt, Locked
  <1>3. CASE holder # "host"
    BY <1>2, <1>3, LockedOut
  <1>4. CASE holder = "host"
    <2>1. track' = Stop(Ticked, now, input) /\ pc' = "done" /\ UNCHANGED <<holder, cfg, nxt, upto, ready, buf, parts, began, now>>
      BY <1>2, <1>4
    <2>2. Good(track', now) /\ Later(Ticked, track')
      BY <1>1, <2>1, TickedGood, StopGood
    <2>3. Later(track, track')
      BY <1>1, <2>2, LaterTicked
    <2> QED BY <1>1, <2>1, <2>2, <2>3, RunsOn DEF Acquiring
  <1> QED BY <1>3, <1>4

---------------------------------------------------------------------------
(* The steps of the probe. *)

\* The probe's clock.
LEMMA StepClock ==
  ASSUME ReadInv, Clock, UNCHANGED readVars
  PROVE  ReadInv'
  <1>1. Good(track, now) /\ now \in Nat /\ upto \in Int
    BY DEF ReadInv, Typed
  <1>2. now' = now + 1 /\ track' = track /\ UNCHANGED <<pc, holder, cfg, nxt, upto, ready, buf, parts, began>>
    BY DEF Clock, readVars
  <1>3. Good(track', now') /\ Later(track, track')
    BY <1>1, <1>2, GoodLater, LaterSelf DEF Good
  <1> QED BY <1>1, <1>2, <1>3, RunsOn DEF Acquiring

\* The lock goes to nobody or to another session.
LEMMA StepLockLost ==
  ASSUME ReadInv, LockLost, UNCHANGED readVars
  PROVE  ReadInv'
  <1>1. Good(track, now) /\ now \in Nat
    BY DEF ReadInv, Typed
  <1>2. PICK to \in {"none", "other"} : LockPasses(to)
    BY DEF LockLost
  <1>3. holder' # "host" /\ now' = now /\ UNCHANGED <<pc, cfg, nxt, upto, ready, buf, parts>>
    BY <1>2 DEF LockLost, LockPasses, readVars
  <1>4. Good(track', now') /\ \A s \in Record : Readable(track, s) => Readable(track', s)
    BY <1>1, <1>2, <1>3, PassedOn
  <1> QED BY <1>1, <1>3, <1>4, NotTheHosts

\* Another session configures the track.
LEMMA StepOtherConfigures ==
  ASSUME ReadInv, OtherConfigures, UNCHANGED readVars
  PROVE  ReadInv'
  <1>1. Good(track, now) /\ now \in Nat
    BY DEF ReadInv, Typed
  <1>2. PICK f \in OtherConfigs : track' = Apply(Ticked, f)
    BY DEF OtherConfigures
  <1>3. holder' # "host" /\ now' = now /\ UNCHANGED <<pc, cfg, nxt, upto, ready, buf, parts>>
    BY DEF OtherConfigures, readVars
  <1>4. Good(Ticked, now) /\ Ticked \in Track
    BY <1>1, TickedGood
  <1>5. f \in Settled /\ Ticked.t0 <= now
    BY <1>4, ConfigAssumption DEF Good, Counts, ConfigAssumption
  <1>6. Good(track', now') /\ Idle(track') /\ track'.gen = Ticked.gen
    BY <1>1, <1>2, <1>3, <1>4, <1>5, ApplyGood
  <1>7. \A s \in Record : Readable(track, s) => Readable(track', s)
    BY <1>1, <1>6, StillReadable
  <1> QED BY <1>1, <1>3, <1>6, <1>7, NotTheHosts

\* Another session starts it: the next generation.
LEMMA StepOtherStarts ==
  ASSUME ReadInv, OtherStarts, UNCHANGED readVars
  PROVE  ReadInv'
  <1>1. Good(track, now) /\ now \in Nat
    BY DEF ReadInv, Typed
  <1>2. track' = Start(Ticked, now, FALSE, input) /\ holder' # "host" /\ now' = now /\ UNCHANGED <<pc, cfg, nxt, upto, ready, buf, parts>>
    BY DEF OtherStarts, readVars
  <1>3. Good(Ticked, now)
    BY <1>1, TickedGood
  <1>4. Good(track', now') /\ track'.gen = Ticked.gen + 1
    BY <1>1, <1>2, <1>3, StartGood
  <1>5. \A s \in Record : Readable(track, s) => Readable(track', s)
    BY <1>1, <1>4, StillReadable
  <1> QED BY <1>1, <1>2, <1>4, <1>5, NotTheHosts

\* The serving loop.
LEMMA StepServe ==
  ASSUME ReadInv, Serve, UNCHANGED readVars
  PROVE  ReadInv'
  <1>1. Good(track, now) /\ now \in Nat /\ upto \in Int
    BY DEF ReadInv, Typed
  <1>a. PICK c : c = Ticked
    OBVIOUS
  <1>b. PICK s : s = Skipped(c)
    OBVIOUS
  <1>2. /\ track' = Dropped(c) \/ track' = s \/ (Unsent(s) > 0 /\ track' = Sent(s))
        /\ UNCHANGED <<now, input, holder, sub, taken, lost>>
    BY <1>a, <1>b DEF Serve
  <1>3. UNCHANGED <<pc, holder, cfg, nxt, upto, ready, buf, parts, began, now>>
    BY <1>2 DEF readVars
  <1>4. Good(c, now) /\ Later(track, c)
    BY <1>1, <1>a, TickedGood
  <1>5. Good(s, now) /\ Later(c, s) /\ Good(Dropped(c), now) /\ Later(c, Dropped(c))
    BY <1>1, <1>4, <1>b, ServedGood
  <1>6. Unsent(s) > 0 => Good(Sent(s), now) /\ Later(s, Sent(s))
    BY <1>1, <1>5, ServedGood
  <1>7. Good(track', now') /\ Later(track, track')
    <2>1. ASSUME NEW d, Good(d, now), Later(c, d) PROVE Later(track, d)
      BY <1>1, <1>a, <2>1, LaterTicked
    <2>2. Unsent(s) > 0 => Later(c, Sent(s))
      BY <1>4, <1>5, <1>6, LaterTwice DEF Good
    <2> QED BY <1>2, <1>3, <1>5, <1>6, <2>1, <2>2
  <1> QED BY <1>1, <1>3, <1>7, RunsOn DEF Acquiring

\* A frame is lost on the line.
LEMMA StepFrameLost ==
  ASSUME ReadInv, FrameLost, UNCHANGED readVars
  PROVE  ReadInv'
  <1>1. Good(track, now) /\ now \in Nat /\ upto \in Int
    BY DEF ReadInv, Typed
  <1>2. track' = track /\ UNCHANGED <<pc, holder, cfg, nxt, upto, ready, buf, parts, began, now>>
    BY DEF FrameLost, readVars
  <1>3. Good(track', now') /\ Later(track, track')
    BY <1>1, <1>2, LaterSelf DEF Good
  <1> QED BY <1>1, <1>2, <1>3, RunsOn DEF Acquiring

---------------------------------------------------------------------------
(* What the host asks for, and what it is answered. *)

\* A segment that is kept can be read.
LEMMA KeptReadable ==
  ASSUME NEW c, NEW t, Good(c, t), NEW k \in 1..Len(c.segs)
  PROVE  c.segs[k] \in Record /\ Readable(c, c.segs[k])
  <1>1. c \in Track /\ c.segs \in Seq(Record)
    BY DEF Good, Track
  <1>2. ~Streams(c)
    BY DEF Good
  <1>3. Placed(c, k)
    BY <1>2 DEF Good, Ring
  <1>4. PICK s \in Record : s = c.segs[k]
    BY <1>1
  <1>5. s.gen = c.gen /\ s.position + s.samples <= End(c) /\ Names(c, s)
    BY <1>3, <1>4 DEF Placed
  <1>6. s.gen <= c.gen
    BY <1>5 DEF Record
  <1> QED BY <1>2, <1>4, <1>5, <1>6 DEF Readable

\* A page is records of the ring; of a ring in order, those from its serial on.
LEMMA PageIs ==
  ASSUME NEW c \in Track, NEW from \in Int
  PROVE  /\ Page(c, from) \in Seq(Record)
         /\ \A i \in 1..Len(Page(c, from)) : \E k \in 1..Len(c.segs) : Page(c, from)[i] = c.segs[k]
         /\ Ring(c) /\ c.done - Len(c.segs) <= from /\ from <= c.done =>
              /\ Len(Page(c, from)) = c.done - from
              /\ \A i \in 1..Len(Page(c, from)) : Page(c, from)[i].serial = from + i - 1
  <1>1. PICK q \in Seq(Record), z \in Int : q = c.segs /\ z = c.done
    BY DEF Track
  <1>2. PICK n \in Nat : n = Len(q)
    OBVIOUS
  <1>3. PICK kept \in SUBSET (1..n) : kept = {k \in 1..n : q[k].serial = from}
    OBVIOUS
  <1>4. Page(c, from) = IF from = z THEN <<>> ELSE IF kept = {} THEN q ELSE SubSeq(q, Min(kept), n)
    BY <1>1, <1>2, <1>3 DEF Page
  <1>5. Ring(c) => \A k \in 1..n : q[k].serial = z - n + k - 1
    BY <1>1, <1>2 DEF Ring, Placed
  <1>6. CASE from = z
    <2>1. Page(c, from) = <<>>
      BY <1>4, <1>6
    <2> QED BY <2>1, <1>1, <1>6
  <1>7. CASE from # z /\ kept = {}
    <2>1. Page(c, from) = q
      BY <1>4, <1>7
    <2>2. Ring(c) /\ z - n <= from => ~(from <= z)
      <3> SUFFICES ASSUME Ring(c), z - n <= from, from <= z PROVE FALSE
        OBVIOUS
      <3>1. PICK k \in Int : k = from - z + n + 1
        OBVIOUS
      <3>2. k \in 1..n /\ z - n + k - 1 = from
        BY <1>7, <3>1
      <3>3. q[k].serial = from
        BY <1>5, <3>2
      <3> QED BY <1>3, <1>7, <3>2, <3>3
    <2> QED BY <1>1, <1>2, <2>1, <2>2
  <1>8. CASE from # z /\ kept # {}
    <2>1. PICK m \in 1..n : m = Min(kept) /\ q[m].serial = from
      <3>1. kept \subseteq Nat
        BY <1>3
      <3>2. Min(kept) \in kept
        BY <1>8, <3>1, MinIsLeast
      <3> QED BY <3>2, <1>3
    <2>2. PICK p \in Seq(Record) : p = SubSeq(q, m, n)
      <3>1. SubSeq(q, m, n) \in Seq(Record)
        BY <1>2, Slicing
      <3> QED BY <3>1, Zenon
    <2>3. Page(c, from) = p
      BY <1>4, <1>8, <2>1, <2>2
    <2>4. Len(p) = n - m + 1
      BY <1>2, <2>2, Slicing
    <2>5. ASSUME NEW i \in 1..Len(p) PROVE p[i] = q[m + i - 1] /\ m + i - 1 \in 1..n
      <3>1. i \in 1..(n - m + 1)
        BY <2>4
      <3>2. SubSeq(q, m, n)[i] = q[m + i - 1]
        BY <1>2, <3>1, Slicing
      <3> QED BY <2>2, <3>1, <3>2
    <2>6. ASSUME NEW i \in 1..Len(p) PROVE \E k \in 1..n : p[i] = q[k]
      BY <2>5
    <2>7. ASSUME Ring(c) PROVE Len(p) = z - from /\ \A i \in 1..Len(p) : p[i].serial = from + i - 1
      <3>1. from = z - n + m - 1
        BY <1>5, <2>1, <2>7
      <3>2. ASSUME NEW i \in 1..Len(p) PROVE p[i].serial = from + i - 1
        <4>1. q[m + i - 1].serial = z - n + (m + i - 1) - 1
          BY <1>5, <2>5, <2>7
        <4> QED BY <2>5, <3>1, <4>1
      <3>3. z - from = n - m + 1
        BY <3>1
      <3> QED BY <2>4, <3>2, <3>3
    <2> QED BY <1>1, <1>2, <2>3, <2>6, <2>7
  <1> QED BY <1>6, <1>7, <1>8

\* A read of a record's bytes, on from the first n, that was answered with some.
Answer(r, c, s, n, most) ==
  /\ r = Read(c, s.gen, s.position + n, Lower(most, s.samples - n))
  /\ r.gen /\ ~r.gap /\ r.data # <<>>

\* Bytes a read is answered with are the samples of the record, on from those it has.
LEMMA ReadIs ==
  ASSUME NEW c, NEW t, Good(c, t), NEW s \in Record, Readable(c, s), NEW m \in Nat, m = s.samples,
         NEW n \in Nat, n < m, NEW most \in Nat, NEW r, Answer(r, c, s, n, most)
  PROVE  /\ r.data \in Seq(Int) /\ n + Len(r.data) <= s.samples
         /\ \A i \in 1..Len(r.data) : r.data[i] = s.start + n + i - 1
  <1>1. c \in Track
    BY DEF Good
  <1>2. PICK q \in Seq(Int), b \in Int : q = c.data /\ b = c.base
    BY <1>1 DEF Track
  <1>3. PICK l \in Nat : l = Len(q)
    OBVIOUS
  <1>4. PICK p \in Nat, u \in Int : p = s.position /\ m = s.samples /\ u = s.start
    BY DEF Record
  <1>5. PICK h \in Nat : h = Lower(most, m - n) /\ h <= m - n
    <2>1. Lower(most, m - n) \in Nat /\ Lower(most, m - n) <= m - n
      BY DEF Lower
    <2> QED BY <2>1
  <1>6. PICK a \in Int : a = Higher(p + n, b)
    <2>1. Higher(p + n, b) \in Int
      BY DEF Higher
    <2> QED BY <2>1
  <1>7. s.gen = c.gen
    BY Zenon DEF Answer, Read, Refused
  <1>8. ~(p + n >= b + l)
    <2> SUFFICES ASSUME p + n >= b + l PROVE FALSE
      OBVIOUS
    <2>1. s.position + n >= End(c)
      BY <1>2, <1>3, <1>4 DEF End
    <2>2. r.data = <<>>
      BY <1>7, <2>1, Zenon DEF Answer, Read
    <2> QED BY <2>2, Zenon DEF Answer
  <1>9. r = [gen |-> TRUE, at |-> a, gap |-> p + n < b, data |-> SubSeq(q, a - b + 1, Lower(a - b + h, l))]
    <2>1. ~(s.position + n >= End(c))
      BY <1>2, <1>3, <1>4, <1>8 DEF End
    <2> QED BY <1>2, <1>3, <1>4, <1>5, <1>6, <1>7, <2>1, Zenon DEF Answer, Read
  <1>10. ~(p + n < b) /\ r.data = SubSeq(q, a - b + 1, Lower(a - b + h, l))
    <2>1. r.gap = (p + n < b) /\ r.data = SubSeq(q, a - b + 1, Lower(a - b + h, l))
      BY <1>9, Zenon
    <2>2. ~r.gap
      BY Zenon DEF Answer
    <2> QED BY <2>1, <2>2, Zenon
  <1>11. a = p + n /\ b <= a
    BY <1>6, <1>10 DEF Higher
  <1>12. PICK e \in Int : e = Lower(a - b + h, l) /\ e <= l /\ e <= a - b + h
    <2>1. Lower(a - b + h, l) \in Int /\ Lower(a - b + h, l) <= l /\ Lower(a - b + h, l) <= a - b + h
      BY DEF Lower
    <2> QED BY <2>1
  <1>13. PICK o \in Int : o = a - b + 1
    OBVIOUS
  <1>14. 1 <= o /\ e <= Len(q)
    BY <1>3, <1>11, <1>12, <1>13
  <1>15. r.data = SubSeq(q, o, e)
    BY <1>10, <1>12, <1>13
  <1>16. PICK D \in Seq(Int) : D = r.data
    <2>1. SubSeq(q, o, e) \in Seq(Int)
      BY <1>14, Slicing
    <2> QED BY <1>15, <2>1
  <1>17. Len(D) = (IF o <= e THEN e - o + 1 ELSE 0) /\ \A i \in 1..(e - o + 1) : D[i] = q[o + i - 1]
    BY <1>14, <1>15, <1>16, Slicing, SMTT(30)
  <1>18. o <= e
    <2>1. D # <<>>
      BY <1>16, Zenon DEF Answer
    <2>2. Len(D) # 0
      BY <2>1
    <2> QED BY <1>17, <2>2
  <1>19. Len(D) = e - o + 1 /\ n + Len(D) <= m
    <2>1. Len(D) = e - o + 1
      BY <1>17, <1>18
    <2>2. h <= m - n /\ e <= a - b + h
      BY <1>5, <1>12, Zenon
    <2>3. n + (e - o + 1) <= m
      BY <1>13, <2>2
    <2> QED BY <2>1, <2>3
  <1>20. ~Idle(c)
    <2> SUFFICES ASSUME Idle(c) PROVE FALSE
      OBVIOUS
    <2>1. b = 0 /\ q = <<>>
      BY <1>2 DEF Idle
    <2>2. l = 0
      BY <1>3, <2>1
    <2> QED BY <1>8, <2>1, <2>2
  <1>21. p + m <= b + l /\ \A i \in 1..m : p + i > b => q[p - b + i] = u + i - 1
    BY <1>2, <1>3, <1>4, <1>7, <1>20 DEF Readable, End, Names
  <1>22. ASSUME NEW i \in 1..Len(D) PROVE D[i] = u + n + i - 1
    <2>1. i \in 1..(e - o + 1) /\ n + i \in 1..m /\ p + (n + i) > b /\ o + i - 1 = p - b + (n + i)
      BY <1>11, <1>13, <1>19
    <2>2. D[i] = q[o + i - 1]
      BY <1>17, <2>1
    <2>3. q[p - b + (n + i)] = u + (n + i) - 1
      BY <1>21, <2>1
    <2>4. u + (n + i) - 1 = u + n + i - 1
      OBVIOUS
    <2>5. q[o + i - 1] = q[p - b + (n + i)]
      BY <2>1
    <2> QED BY <2>2, <2>3, <2>4, <2>5
  <1> QED BY <1>4, <1>16, <1>19, <1>22

\* Under its lock, what the host is about to read is still in the ring when it asks.
LEMMA HeldByThen ==
  ASSUME HostTrack, Owned, Repeating, NEW c, Later(track, c), track \in Track, c \in Track, nxt \in Nat
  PROVE  /\ c.cfg = cfg /\ ~Streams(c) /\ began = c.gen
         /\ c.done - Len(c.segs) <= nxt /\ nxt <= c.done
         /\ pc \in {"read", "release"} =>
              \A k \in 1..Len(ready) : ready[k].serial = nxt + k - 1 /\ \E j \in 1..Len(c.segs) : c.segs[j] = ready[k]
  <1>1. track.cfg = cfg /\ began = track.gen /\ ~Streams(track)
    BY DEF HostTrack, Repeating, Streams
  <1>2. c.cfg = cfg /\ began = c.gen /\ ~Streams(c) /\ Grown(track, c)
    BY <1>1 DEF Later, Streams
  <1>3. PICK m \in Int, n \in Int, a \in Nat, b \in Nat :
          m = track.done /\ n = c.done /\ a = Len(track.segs) /\ b = Len(c.segs)
    <2>1. track.done \in Int /\ c.done \in Int /\ track.segs \in Seq(Record) /\ c.segs \in Seq(Record)
      BY DEF Track
    <2>2. Len(track.segs) \in Nat /\ Len(c.segs) \in Nat
      BY <2>1
    <2> QED BY <2>1, <2>2
  <1>4. n - b = m - a /\ a <= b /\ \A k \in 1..a : c.segs[k] = track.segs[k]
    BY <1>2, <1>3 DEF Grown
  <1>5. m - a <= nxt /\ nxt <= m
    BY <1>3 DEF HostTrack
  <1>6. n - b <= nxt /\ nxt <= n
    BY <1>4, <1>5
  <1>7. ASSUME pc \in {"read", "release"}, NEW k \in 1..Len(ready)
        PROVE  ready[k].serial = nxt + k - 1 /\ \E j \in 1..Len(c.segs) : c.segs[j] = ready[k]
    <2>1. ready[k].serial = nxt + k - 1 /\ \E j \in 1..a : track.segs[j] = ready[k]
      BY <1>3, <1>7 DEF HostTrack
    <2>2. PICK j \in 1..a : track.segs[j] = ready[k]
      BY <2>1
    <2>3. j \in 1..b /\ c.segs[j] = ready[k]
      BY <1>4, <2>2
    <2> QED BY <1>3, <2>1, <2>3
  <1> QED BY <1>2, <1>3, <1>6, <1>7

\* Without a trigger the segment after one begins where it ends, unless a gap is said.
LEMMA FollowsNext ==
  ASSUME NEW c, NEW t, Good(c, t), ~Streams(c), c.cfg.trigger = "none", NEW j \in 1..Len(c.segs)
  PROVE  c.segs[j].serial < c.done /\ Follows(c, c.segs[j].serial + 1, c.segs[j].start + c.segs[j].samples)
  <1>1. c \in Track /\ Ring(c) /\ Joined(c)
    BY DEF Good
  <1>2. PICK q \in Seq(Record), z \in Int : q = c.segs /\ z = c.done
    BY <1>1 DEF Track
  <1>3. PICK n \in Nat : n = Len(q)
    OBVIOUS
  <1>4. \A k \in 1..n : q[k].serial = z - n + k - 1
    BY <1>1, <1>2, <1>3 DEF Ring, Placed
  <1>5. /\ \A k \in 2..n : "gap" \in q[k].flags \/ q[k].start = q[k - 1].start + q[k - 1].samples
        /\ n > 0 => c.gap_next \/ c.t0 + c.produced = q[n].start + q[n].samples
    BY <1>1, <1>2, <1>3 DEF Joined
  <1>6. j \in 1..n /\ q[j].serial = z - n + j - 1
    BY <1>2, <1>3, <1>4
  <1>7. q[j].serial + 1 = z => j = n
    BY <1>6
  <1>8. ASSUME NEW k \in 1..n, q[k].serial = q[j].serial + 1
        PROVE  "gap" \in q[k].flags \/ q[k].start = q[j].start + q[j].samples
    <2>1. q[k].serial = z - n + k - 1
      BY <1>4
    <2>2. k = j + 1
      BY <1>6, <1>8, <2>1
    <2>3. k \in 2..n /\ k - 1 = j
      BY <1>6, <2>2
    <2> QED BY <1>5, <2>3
  <1>9. q[j].serial < z
    BY <1>6
  <1>10. n > 0
    BY <1>6
  <1> QED BY <1>2, <1>3, <1>5, <1>7, <1>8, <1>9, <1>10 DEF Follows

---------------------------------------------------------------------------
(* The steps of the host that read. *)

\* Under its lock and of the segments it wants, the page is what comes after the last it took.
LEMMA WantedPage ==
  ASSUME NEW c \in Track, Ring(c), nxt \in Nat, c.done - Len(c.segs) <= nxt, nxt <= c.done, upto \in Int,
         NEW k \in 1..Len(OfSerials(Page(c, nxt), 0..(upto - 1)))
  PROVE  OfSerials(Page(c, nxt), 0..(upto - 1))[k].serial = nxt + k - 1
  <1>1. PICK q \in Seq(Record) : q = Page(c, nxt)
    BY PageIs
  <1>2. PICK n \in Nat, x \in Nat, u \in Int : n = Len(q) /\ x = nxt /\ u = upto
    OBVIOUS
  <1>3. \A i \in 1..n : q[i].serial = x + i - 1
    BY <1>1, <1>2, PageIs
  <1>4. PICK hi \in Int : hi = IF u - x < n THEN u - x ELSE n
    <2>1. (IF u - x < n THEN u - x ELSE n) \in Int
      OBVIOUS
    <2> QED BY <2>1, Zenon
  <1>5. PICK S : S = 0..(u - 1)
    OBVIOUS
  <1>6. hi <= n /\ \A i \in 1..n : x + i - 1 \in 0..(u - 1) <=> 1 <= i /\ i <= hi
    BY <1>4
  <1>7. \A i \in 1..Len(q) : q[i].serial \in S <=> 1 <= i /\ i <= hi
    BY <1>2, <1>3, <1>5, <1>6
  <1>8. Stretch(OfSerials(q, S), q, 1, hi)
    <2>1. 1 \in Nat \ {0} /\ hi <= Len(q)
      BY <1>2, <1>6
    <2> QED BY <1>7, <2>1, ChosenStretch
  <1>9. PICK r : r = OfSerials(q, S)
    OBVIOUS
  <1>10. Len(r) = (IF 1 <= hi THEN hi - 1 + 1 ELSE 0) /\ \A i \in 1..(hi - 1 + 1) : r[i] = q[1 + i - 1]
    BY <1>8, <1>9 DEF Stretch
  <1>11. k \in 1..Len(r)
    BY <1>1, <1>2, <1>5, <1>9
  <1>12. 1 <= hi
    BY <1>10, <1>11
  <1>13. k \in 1..hi /\ k \in 1..n /\ 1 + k - 1 = k /\ hi - 1 + 1 = hi
    BY <1>6, <1>10, <1>11, <1>12
  <1>14. r[k] = q[k]
    BY <1>10, <1>13
  <1>15. r[k].serial = x + k - 1
    BY <1>3, <1>13, <1>14
  <1> QED BY <1>1, <1>2, <1>5, <1>9, <1>15

\* segments: the records it reads next are in the ring, from the serial it wants on.
LEMMA StepSegments ==
  ASSUME ReadInv, Segments
  PROVE  ReadInv'
  <1>1. /\ Good(track, now) /\ now \in Nat /\ upto \in Int /\ nxt \in Nat /\ cfg \in Settled
        /\ HostTrack /\ Reading /\ Taken
    BY DEF ReadInv, Typed
  <1>2. PICK c : c = Ticked
    OBVIOUS
  <1>3. Good(c, now) /\ Later(track, c) /\ c \in Track /\ track \in Track
    BY <1>1, <1>2, TickedGood
  <1>4. PICK q : q = IF Repeating THEN OfSerials(Page(c, nxt), 0..(upto - 1)) ELSE Page(c, nxt)
    OBVIOUS
  <1>5. /\ pc = "list" /\ track' = c /\ ready' = q /\ buf' = <<>> /\ upto' = 0
        /\ pc' = IF q # <<>> THEN "read" ELSE IF Repeating THEN "poll" ELSE "failed"
        /\ UNCHANGED <<now, input, holder, sub, since, line, taken, lost, cfg, gen, nxt, parts, began, forced, runs>>
    BY <1>2, <1>4, Zenon DEF Segments
  <1>6. UNCHANGED <<now, holder, cfg, nxt, parts, began>> /\ track' = c /\ ready' = q /\ buf' = <<>> /\ upto' = 0
    BY <1>5
  <1>7. pc' \in {"read", "poll", "failed"} /\ (pc' = "read" => q # <<>>)
    BY <1>5
  <1>8. q \in Seq(Record) /\ \A i \in 1..Len(q) : \E k \in 1..Len(c.segs) : q[i] = c.segs[k]
    <2>1. PICK p \in Seq(Record) : p = Page(c, nxt) /\ \A i \in 1..Len(p) : \E k \in 1..Len(c.segs) : p[i] = c.segs[k]
      BY <1>1, <1>3, PageIs
    <2>2. PICK S : S = 0..(upto - 1)
      OBVIOUS
    <2>3. PICK r \in Seq(Record) : r = OfSerials(p, S) /\ \A i \in 1..Len(r) : \E k \in 1..Len(p) : r[i] = p[k]
      BY ChosenAreOfIt
    <2>4. \A i \in 1..Len(r) : \E k \in 1..Len(c.segs) : r[i] = c.segs[k]
      BY <2>1, <2>3
    <2>5. q = r \/ q = p
      BY <1>4, <2>1, <2>2, <2>3, Zenon
    <2>6. CASE q = r
      BY <2>3, <2>4, <2>6
    <2>7. CASE q = p
      BY <2>1, <2>7
    <2> QED BY <2>5, <2>6, <2>7
  <1>9. HostTrack'
    <2>1. ASSUME Owned'
          PROVE  Owned /\ track'.cfg = cfg' /\ began' = track'.gen
      <3>1. Owned
        BY <1>5, <1>6, <2>1 DEF Owned, Acquiring
      <3> QED BY <1>1, <1>3, <1>6, <3>1 DEF HostTrack, Later
    <2>2. ASSUME Owned', Repeating'
          PROVE  /\ (track.done - Len(track.segs) <= nxt /\ nxt <= track.done)'
                 /\ \A k \in 1..Len(ready') : /\ ready'[k].serial = nxt' + k - 1
                                              /\ \E j \in 1..Len(track'.segs) : track'.segs[j] = ready'[k]
      <3>1. Owned /\ Repeating
        BY <1>6, <2>1, <2>2 DEF Repeating
      <3>2. /\ c.done - Len(c.segs) <= nxt /\ nxt <= c.done /\ ~Streams(c)
        BY <1>1, <1>3, <3>1, HeldByThen
      <3>3. Ring(c)
        BY <1>3, <3>2 DEF Good
      <3>4. q = OfSerials(Page(c, nxt), 0..(upto - 1))
        BY <1>4, <3>1
      <3>5. \A k \in 1..Len(q) : q[k].serial = nxt + k - 1
        BY <1>1, <1>3, <3>2, <3>3, <3>4, WantedPage
      <3> QED BY <1>6, <1>8, <3>2, <3>5
    <2> QED BY <1>7, <2>1, <2>2 DEF HostTrack
  <1>10. Reading'
    <2>1. ASSUME NEW i \in 1..Len(q) PROVE Readable(c, q[i])
      <3>1. PICK k \in 1..Len(c.segs) : q[i] = c.segs[k]
        BY <1>8
      <3> QED BY <1>3, <3>1, KeptReadable
    <2>2. ASSUME q # <<>> PROVE 0 < q[1].samples
      <3>1. q[1] \in Record
        BY <1>8, <2>2
      <3> QED BY <3>1 DEF Record
    <2>3. buf' \in Seq(Int) /\ Len(buf') = 0
      BY <1>6
    <2> QED BY <1>6, <1>7, <1>8, <2>1, <2>2, <2>3 DEF Reading
  <1>11. Taken'
    <2>1. Good(track', now') /\ Later(track, track') /\ pc' # "start"
      BY <1>3, <1>6, <1>7
    <2> QED BY <1>1, <1>5, <1>6, <2>1, TakenStays DEF Acquiring
  <1>12. Typed'
    BY <1>1, <1>6, <1>7 DEF Typed
  <1> QED BY <1>3, <1>6, <1>9, <1>10, <1>11, <1>12 DEF ReadInv

\* A segment read whole is the samples of its times.
LEMMA WholeIs ==
  ASSUME NEW n \in Nat, NEW u \in Int, NEW w \in Seq(Int), Len(w) = n, \A i \in 1..Len(w) : w[i] = u + i - 1
  PROVE  w = Times(u, n)
  <1>1. w = [k \in 1..n |-> w[k]]
    OBVIOUS
  <1>2. \A k \in 1..n : w[k] = u + k - 1
    OBVIOUS
  <1> QED BY <1>1, <1>2 DEF Times

\* A part added that is the samples of its record, at its place, leaves them all so.
LEMMA PartAdded ==
  ASSUME parts \in Seq(PartSet), SegmentsTrue, NEW s \in Record, NEW w \in Seq(Int),
         Len(w) = s.samples, \A i \in 1..Len(w) : w[i] = s.start + i - 1,
         parts # <<>> /\ cfg.trigger = "none" /\ "gap" \notin s.flags =>
           s.start = parts[Len(parts)].start + parts[Len(parts)].samples,
         parts' = Append(parts, Part(s, w))
  PROVE  /\ parts' \in Seq(PartSet) /\ SegmentsTrue' /\ parts' # <<>>
         /\ parts'[Len(parts')].start = s.start /\ parts'[Len(parts')].samples = s.samples
  <1>1. PICK q \in Seq(PartSet) : q = parts
    OBVIOUS
  <1>2. PICK n \in Nat : n = Len(q)
    OBVIOUS
  <1>3. PICK u \in Int, m \in Nat \ {0} : u = s.start /\ m = s.samples
    BY DEF Record
  <1>4. PICK e : e = Part(s, w)
    OBVIOUS
  <1>5. ASSUME n > 0
        PROVE  /\ q # <<>> /\ q[1] \in PartSet /\ q[n] \in PartSet /\ q[1].start \in Int /\ q[n].start \in Int
               /\ q[n].samples \in Int /\ q[n].tick0 = q[n].start - q[1].start
    <2>1. q # <<>> /\ q[1] \in PartSet /\ q[n] \in PartSet /\ n \in 1..Len(q)
      BY <1>2, <1>5
    <2>2. q[n].tick0 = q[n].start - q[1].start
      BY <1>1, <2>1 DEF SegmentsTrue, PartsPlaced
    <2>3. \A x \in PartSet : x.start \in Int /\ x.samples \in Int
      BY DEF PartSet
    <2> QED BY <2>1, <2>2, <2>3
  <1>6. PICK z \in Int : z = e.tick0 /\ z = IF n = 0 THEN 0 ELSE u - q[1].start
    <2>1. CASE n = 0
      <3>1. q = <<>>
        BY <1>2, <2>1, EmptySeq
      <3>2. e.tick0 = 0
        BY <1>1, <1>4, <3>1 DEF Part
      <3> QED BY <2>1, <3>2
    <2>2. CASE n > 0
      <3>1. PICK a \in Int, b \in Int, l \in Int : a = q[1].start /\ b = q[n].start /\ l = q[n].samples
        BY <1>5, <2>2
      <3>2. q[n].tick0 = b - a /\ q # <<>>
        BY <1>5, <2>2, <3>1
      <3>3. CASE cfg.trigger = "none" /\ "gap" \notin s.flags
        <4>1. e.tick0 = q[n].tick0 + q[n].samples
          BY <1>1, <1>2, <1>4, <3>2, <3>3 DEF Part
        <4>2. e.tick0 = (b - a) + l
          BY <3>1, <3>2, <4>1
        <4>3. u = b + l
          BY <1>1, <1>2, <1>3, <3>1, <3>2, <3>3
        <4>4. e.tick0 = u - a
          BY <4>2, <4>3
        <4>5. e.tick0 = IF n = 0 THEN 0 ELSE u - q[1].start
          BY <2>2, <3>1, <4>4
        <4> QED BY <3>1, <4>4, <4>5
      <3>4. CASE ~(cfg.trigger = "none" /\ "gap" \notin s.flags)
        <4>1. e.tick0 = u - a
          BY <1>1, <1>2, <1>3, <1>4, <3>1, <3>2, <3>4 DEF Part
        <4>2. e.tick0 = IF n = 0 THEN 0 ELSE u - q[1].start
          BY <2>2, <3>1, <4>1
        <4> QED BY <3>1, <4>1, <4>2
      <3> QED BY <3>3, <3>4
    <2> QED BY <2>1, <2>2
  <1>7. e = [start |-> u, samples |-> m, index |-> s.index, gen |-> s.gen, data |-> w, tick0 |-> z]
    <2>1. e = [start |-> u, samples |-> m, index |-> s.index, gen |-> s.gen, data |-> w, tick0 |-> e.tick0]
      BY <1>3, <1>4, Zenon DEF Part
    <2> QED BY <1>6, <2>1, Zenon
  <1>8. e \in PartSet /\ e.start = u /\ e.samples = m /\ e.data = w /\ e.tick0 = z
    <2>1. s.index \in Int /\ s.gen \in Nat
      BY DEF Record
    <2> QED BY <1>7, <2>1 DEF PartSet
  <1>9. PICK p \in Seq(PartSet) : /\ p = parts' /\ Len(p) = n + 1 /\ \A i \in 1..n : p[i] = q[i]
                                  /\ p[n + 1] = e
    <2>1. Append(q, e) \in Seq(PartSet)
      BY <1>8, Appending
    <2>2. PICK p \in Seq(PartSet) : p = Append(q, e)
      BY <2>1
    <2>3. Len(p) = n + 1 /\ (\A i \in 1..n : p[i] = q[i]) /\ p[n + 1] = e
      BY <1>2, <1>8, <2>2, Appending
    <2>4. p = parts'
      BY <1>1, <1>4, <2>2
    <2> QED BY <2>3, <2>4
  <1>10. w = Times(u, m)
    BY <1>3, WholeIs
  <1>11. ASSUME NEW k \in 1..Len(p)
         PROVE  p[k].data = Times(p[k].start, p[k].samples) /\ p[k].tick0 = p[k].start - p[1].start
    <2>1. CASE k = n + 1
      <3>1. p[k] = e
        BY <1>9, <2>1
      <3>2. CASE n = 0
        <4>1. p[1] = e /\ z = 0
          BY <1>6, <1>9, <3>2
        <4> QED BY <1>8, <1>10, <3>1, <4>1
      <3>3. CASE n > 0
        <4>1. p[1] = q[1]
          <5>1. 1 \in 1..n
            BY <3>3
          <5> QED BY <1>9, <5>1
        <4>2. z = u - q[1].start
          BY <1>6, <3>3
        <4> QED BY <1>8, <1>10, <3>1, <4>1, <4>2
      <3> QED BY <3>2, <3>3
    <2>2. CASE k # n + 1
      <3>1. k \in 1..n /\ 1 \in 1..n
        BY <1>9, <2>2
      <3>2. p[k] = q[k] /\ p[1] = q[1]
        BY <1>9, <3>1
      <3>3. q[k].data = Times(q[k].start, q[k].samples) /\ q[k].tick0 = q[k].start - q[1].start
        BY <1>1, <1>2, <3>1 DEF SegmentsTrue, PartsWhole, PartsPlaced
      <3> QED BY <3>2, <3>3
    <2> QED BY <2>1, <2>2
  <1>12. SegmentsTrue'
    <2>1. \A k \in 1..Len(parts') : parts'[k].data = Times(parts'[k].start, parts'[k].samples)
      BY <1>9, <1>11
    <2>2. \A k \in 1..Len(parts') : parts'[k].tick0 = parts'[k].start - parts'[1].start
      BY <1>9, <1>11
    <2> QED BY <2>1, <2>2 DEF SegmentsTrue, PartsWhole, PartsPlaced, Times
  <1>13. p # <<>> /\ p[Len(p)] = e
    BY <1>9
  <1> QED BY <1>3, <1>8, <1>9, <1>12, <1>13

\* read: each answer goes on with the samples of the record, or the host stops.
LEMMA StepReadBytes ==
  ASSUME ReadInv, ReadBytes
  PROVE  ReadInv'
  <1>1. /\ Good(track, now) /\ now \in Nat /\ upto \in Int /\ nxt \in Nat /\ cfg \in Settled
        /\ HostTrack /\ Reading /\ Taken
    BY DEF ReadInv, Typed
  <1>2. PICK c : c = Ticked
    OBVIOUS
  <1>3. Good(c, now) /\ Later(track, c) /\ c \in Track /\ track \in Track
    BY <1>1, <1>2, TickedGood
  <1>4. PICK r : r = Read(c, ready[1].gen, ready[1].position + Len(buf), Lower(ReadMost, ready[1].samples - Len(buf)))
    OBVIOUS
  <1>5. /\ pc = "read" /\ track' = c
        /\ \/ pc' = Fails /\ UNCHANGED <<buf, parts>>
           \/ /\ r.gen /\ ~r.gap /\ r.data # <<>> /\ buf' = buf \o r.data
              /\ pc' = IF Len(buf \o r.data) < ready[1].samples THEN "read" ELSE IF Repeating THEN "release" ELSE "done"
              /\ parts' = IF pc' = "done" THEN Append(parts, Part(ready[1], buf \o r.data)) ELSE parts
        /\ UNCHANGED <<now, input, holder, sub, since, line, taken, lost, cfg, gen, nxt, upto, ready, began, forced, runs>>
    BY <1>2, <1>4, Zenon DEF ReadBytes
  <1>6. UNCHANGED <<now, holder, cfg, nxt, upto, ready, began>> /\ track' = c
    BY <1>5
  <1>7. Good(track', now') /\ Later(track, track')
    BY <1>3, <1>6
  <1>8. CASE pc' = Fails /\ UNCHANGED <<buf, parts>>
    <2>1. pc' \in {"stop", "failed"} /\ buf' = buf /\ parts' = parts /\ pc = "read"
      BY <1>5, <1>8 DEF Fails
    <2> QED BY <1>1, <1>6, <1>7, <2>1, RunsOn DEF Acquiring
  <1>9. CASE /\ r.gen /\ ~r.gap /\ r.data # <<>> /\ buf' = buf \o r.data
             /\ pc' = IF Len(buf \o r.data) < ready[1].samples THEN "read" ELSE IF Repeating THEN "release" ELSE "done"
             /\ parts' = IF pc' = "done" THEN Append(parts, Part(ready[1], buf \o r.data)) ELSE parts
    <2>1. PICK s \in Record : s = ready[1] /\ ready # <<>> /\ Readable(c, s)
      <3>1. ready \in Seq(Record) /\ ready # <<>> /\ Readable(track, ready[1])
        BY <1>1, <1>5 DEF Reading
      <3>2. ready[1] \in Record
        BY <3>1
      <3>3. Readable(c, ready[1])
        BY <1>1, <1>3, <3>1, <3>2, ReadableLater
      <3> QED BY <3>1, <3>2, <3>3
    <2>2. PICK n \in Nat, m \in Nat : n = Len(buf) /\ m = s.samples /\ n < m
      <3>1. buf \in Seq(Int) /\ Len(buf) < s.samples /\ s.samples \in Nat
        BY <1>1, <1>5, <2>1 DEF Reading, Record
      <3>2. Len(buf) \in Nat
        BY <3>1
      <3> QED BY <3>1, <3>2
    <2>3. PICK u \in Int : u = s.start /\ buf \in Seq(Int) /\ \A i \in 1..n : buf[i] = u + i - 1
      <3>1. buf \in Seq(Int) /\ \A i \in 1..n : buf[i] = s.start + i - 1
        BY <1>1, <1>5, <2>1, <2>2 DEF Reading
      <3>2. s.start \in Int
        BY DEF Record
      <3> QED BY <3>1, <3>2
    <2>4. Answer(r, c, s, n, ReadMost)
      BY <1>4, <1>9, <2>1, <2>2, Zenon DEF Answer
    <2>5. r.data \in Seq(Int) /\ n + Len(r.data) <= s.samples /\ \A i \in 1..Len(r.data) : r.data[i] = s.start + n + i - 1
      BY <1>3, <2>1, <2>2, <2>4, ReadIs, ReadAssumption DEF ReadAssumption
    <2>6. PICK D \in Seq(Int), l \in Nat : D = r.data /\ l = Len(D)
      BY <2>5
    <2>7. n + l <= m /\ \A i \in 1..l : D[i] = u + n + i - 1
      BY <2>2, <2>3, <2>5, <2>6
    <2>8. PICK w \in Seq(Int) : w = buf \o D
      <3>1. buf \o D \in Seq(Int)
        BY <2>3, Joining
      <3> QED BY <3>1, Zenon
    <2>9. Len(w) = n + l /\ (\A i \in 1..n : w[i] = buf[i]) /\ \A i \in 1..l : w[n + i] = D[i]
      BY <2>2, <2>3, <2>6, <2>8, Joining
    <2>10. ASSUME NEW i \in 1..(n + l) PROVE w[i] = u + i - 1
      <3>1. CASE i <= n
        BY <2>3, <2>9, <3>1
      <3>2. CASE ~(i <= n)
        <4>1. PICK j \in 1..l : i = n + j
          <5>1. i - n \in 1..l /\ i = n + (i - n)
            BY <3>2
          <5> QED BY <5>1
        <4>2. w[i] = u + n + j - 1
          BY <2>7, <2>9, <4>1
        <4>3. u + n + j - 1 = u + i - 1
          BY <4>1
        <4> QED BY <4>2, <4>3
      <3> QED BY <3>1, <3>2
    <2>11. /\ buf' = w
           /\ pc' = IF Len(w) < m THEN "read" ELSE IF Repeating THEN "release" ELSE "done"
           /\ parts' = IF pc' = "done" THEN Append(parts, Part(s, w)) ELSE parts
      BY <1>9, <2>1, <2>2, <2>6, <2>8, Zenon
    <2>12. /\ pc' \in {"read", "release", "done"}
           /\ pc' = "read" => Len(w) < m
           /\ pc' = "release" => Len(w) = m /\ Repeating
           /\ pc' = "done" => Len(w) = m /\ ~Repeating
      BY <2>7, <2>9, <2>11
    <2>13. HostTrack'
      BY <1>1, <1>5, <1>6, <1>7, <2>12, HeldStays DEF Acquiring
    <2>14. Reading'
      <3>1. ASSUME NEW k \in 1..Len(ready) PROVE Readable(c, ready[k])
        <4>1. ready[k] \in Record /\ Readable(track, ready[k])
          BY <1>1 DEF Reading
        <4> QED BY <1>1, <1>3, <4>1, ReadableLater
      <3>2. ready \in Seq(Record)
        BY <1>1 DEF Reading
      <3> QED BY <1>6, <2>1, <2>2, <2>3, <2>9, <2>10, <2>11, <2>12, <3>1, <3>2 DEF Reading, Repeating
    <2>15. Taken'
      <3>1. CASE pc' # "done"
        <4>1. parts' = parts /\ pc' # "start"
          BY <2>11, <2>12, <3>1
        <4> QED BY <1>1, <1>5, <1>6, <1>7, <4>1, TakenStays DEF Acquiring
      <3>2. CASE pc' = "done"
        <4>1. parts' = Append(parts, Part(s, w)) /\ ~Repeating /\ Len(w) = s.samples
          BY <2>2, <2>11, <2>12, <3>2
        <4>2. parts = <<>> /\ parts \in Seq(PartSet) /\ SegmentsTrue
          BY <1>1, <1>5, <4>1 DEF Taken, Acquiring
        <4>3. \A i \in 1..Len(w) : w[i] = s.start + i - 1
          BY <2>3, <2>9, <2>10
        <4>4. parts' \in Seq(PartSet) /\ SegmentsTrue'
          BY <4>1, <4>2, <4>3, PartAdded
        <4> QED BY <3>2, <4>4 DEF Taken, Acquiring, Owned
      <3> QED BY <3>1, <3>2
    <2>16. Typed'
      BY <1>1, <1>6, <2>12 DEF Typed
    <2> QED BY <1>7, <2>13, <2>14, <2>15, <2>16 DEF ReadInv
  <1> QED BY <1>5, <1>8, <1>9

\* release: the segment read becomes a part, at its place; what is read next stays in the ring.
LEMMA StepReleaseIt ==
  ASSUME ReadInv, ReleaseIt
  PROVE  ReadInv'
  <1>1. /\ Good(track, now) /\ now \in Nat /\ upto \in Int /\ nxt \in Nat /\ cfg \in Settled
        /\ HostTrack /\ Reading /\ Taken
    BY DEF ReadInv, Typed
  <1>2. PICK c : c = Ticked
    OBVIOUS
  <1>3. Good(c, now) /\ Later(track, c) /\ c \in Track /\ track \in Track
    BY <1>1, <1>2, TickedGood
  <1>4. /\ pc = "release" /\ UNCHANGED <<now, input, line, taken, lost>>
        /\ \/ /\ holder # "host" /\ pc' = "failed" /\ track' = Ticked
              /\ UNCHANGED <<holder, sub, since, cfg, gen, nxt, upto, ready, buf, parts, began, forced, runs>>
           \/ /\ holder = "host" /\ pc' = Fails /\ track' = c
              /\ UNCHANGED <<holder, sub, since, cfg, gen, nxt, upto, ready, buf, parts, began, forced, runs>>
           \/ /\ holder = "host" /\ track' = Release(c, ready[1].serial, now)
              /\ parts' = Append(parts, Part(ready[1], buf))
              /\ nxt' = ready[1].serial + 1 /\ ready' = Tail(ready) /\ buf' = <<>>
              /\ pc' = IF ~(Len(parts) + 1 < Wanted) THEN "stop" ELSE IF Len(ready) > 1 THEN "read" ELSE "poll"
              /\ UNCHANGED <<holder, sub, since, cfg, gen, upto, began, forced, runs>>
    BY <1>2, Zenon DEF ReleaseIt, Locked
  <1>5. CASE holder # "host"
    BY <1>4, <1>5, LockedOut
  <1>6. CASE /\ holder = "host" /\ pc' = Fails /\ track' = c
             /\ UNCHANGED <<holder, sub, since, cfg, gen, nxt, upto, ready, buf, parts, began, forced, runs>>
    <2>1. /\ pc' \in {"stop", "failed"} /\ pc = "release" /\ UNCHANGED <<holder, cfg, nxt, upto, ready, buf, parts, began, now>>
          /\ Good(track', now') /\ Later(track, track')
      BY <1>3, <1>4, <1>6 DEF Fails
    <2> QED BY <1>1, <2>1, RunsOn DEF Acquiring
  <1>7. CASE /\ holder = "host" /\ track' = Release(c, ready[1].serial, now)
             /\ parts' = Append(parts, Part(ready[1], buf))
             /\ nxt' = ready[1].serial + 1 /\ ready' = Tail(ready) /\ buf' = <<>>
             /\ pc' = IF ~(Len(parts) + 1 < Wanted) THEN "stop" ELSE IF Len(ready) > 1 THEN "read" ELSE "poll"
             /\ UNCHANGED <<holder, sub, since, cfg, gen, upto, began, forced, runs>>
    <2>1. pc = "release" /\ Owned /\ Repeating /\ UNCHANGED <<now, holder, cfg, upto, began>>
      BY <1>1, <1>4, <1>7 DEF Reading, Owned, Acquiring
    <2>2. /\ c.cfg = cfg /\ ~Streams(c) /\ began = c.gen
          /\ c.done - Len(c.segs) <= nxt /\ nxt <= c.done
          /\ \A k \in 1..Len(ready) : ready[k].serial = nxt + k - 1 /\ \E j \in 1..Len(c.segs) : c.segs[j] = ready[k]
      BY <1>1, <1>3, <2>1, HeldByThen
    <2>3. /\ ready \in Seq(Record) /\ ready # <<>> /\ buf \in Seq(Int) /\ Len(buf) = ready[1].samples
          /\ \A i \in 1..Len(buf) : buf[i] = ready[1].start + i - 1
      BY <1>1, <2>1 DEF Reading
    <2>4. PICK s \in Record, n \in Nat : s = ready[1] /\ n = Len(ready) /\ n > 0
      BY <2>3
    <2>5. PICK j \in 1..Len(c.segs) : c.segs[j] = s /\ s.serial = nxt
      <3>1. 1 \in 1..Len(ready) /\ nxt + 1 - 1 = nxt
        BY <1>1, <2>4
      <3> QED BY <2>2, <2>4, <3>1
    <2>6. PICK d : d = Release(c, nxt, now)
      OBVIOUS
    <2>7. /\ track' = d /\ parts' = Append(parts, Part(s, buf)) /\ nxt' = nxt + 1 /\ ready' = Tail(ready) /\ buf' = <<>>
          /\ pc' \in {"stop", "read", "poll"} /\ (pc' = "read" => n > 1)
      BY <1>7, <2>4, <2>5, <2>6
    <2>8. Good(d, now) /\ Left(c, d, nxt)
      BY <1>1, <1>3, <2>6, ReleaseGood
    <2>9. Good(track', now')
      BY <2>1, <2>7, <2>8
    <2>10. s.serial < c.done /\ (cfg.trigger = "none" => Follows(c, nxt + 1, s.start + s.samples))
      <3>1. s.serial < c.done
        <4>1. Ring(c)
          BY <1>3, <2>2 DEF Good
        <4>2. Placed(c, j)
          BY <4>1 DEF Ring
        <4>3. c.done \in Int /\ Len(c.segs) \in Nat
          <5>1. c.segs \in Seq(Record) /\ c.done \in Int
            BY <1>3 DEF Track
          <5> QED BY <5>1
        <4> QED BY <2>5, <4>2, <4>3 DEF Placed
      <3>2. cfg.trigger = "none" => Follows(c, s.serial + 1, s.start + s.samples)
        BY <1>3, <2>2, <2>5, FollowsNext
      <3> QED BY <2>5, <3>1, <3>2
    <2>11. HostTrack'
      <3>1. track'.cfg = cfg' /\ began' = track'.gen /\ pc' # "start"
        BY <2>1, <2>2, <2>7, <2>8 DEF Left
      <3>2. d.done - Len(d.segs) <= nxt + 1 /\ nxt + 1 <= d.done
        <4>1. PICK z \in Int, l \in Nat : z = c.done /\ l = Len(c.segs)
          <5>1. c.segs \in Seq(Record) /\ c.done \in Int
            BY <1>3 DEF Track
          <5> QED BY <5>1
        <4>2. z - l <= nxt + 1 /\ nxt < z
          BY <1>1, <2>2, <2>5, <2>10, <4>1
        <4>3. d.done = z /\ d.done - Len(d.segs) <= nxt + 1
          BY <2>8, <4>1, <4>2 DEF Left
        <4>4. nxt + 1 <= z
          BY <1>1, <4>2
        <4> QED BY <4>3, <4>4
      <3>3. ASSUME NEW k \in 1..Len(ready')
            PROVE  ready'[k].serial = nxt' + k - 1 /\ \E i \in 1..Len(d.segs) : d.segs[i] = ready'[k]
        <4>1. k \in 1..(n - 1) /\ ready'[k] = ready[k + 1] /\ k + 1 \in 1..n
          BY <2>3, <2>4, <2>7
        <4>2. PICK i \in 1..Len(c.segs) : c.segs[i] = ready[k + 1] /\ ready[k + 1].serial = nxt + (k + 1) - 1
          BY <2>2, <2>4, <4>1
        <4>3. c.segs[i].serial > nxt /\ nxt + (k + 1) - 1 = nxt + 1 + k - 1
          BY <1>1, <4>1, <4>2, SMTT(30)
        <4>4. \E o \in 1..Len(d.segs) : d.segs[o] = c.segs[i]
          BY <2>8, <4>3 DEF Left
        <4> QED BY <2>7, <4>1, <4>2, <4>3, <4>4
      <3> QED BY <2>7, <3>1, <3>2, <3>3 DEF HostTrack
    <2>12. Reading'
      <3>1. ASSUME NEW k \in 1..Len(ready') PROVE Readable(d, ready'[k])
        <4>1. ready'[k] = ready[k + 1] /\ k + 1 \in 1..n
          BY <2>3, <2>4, <2>7
        <4>2. ready[k + 1] \in Record /\ Readable(track, ready[k + 1])
          BY <1>1, <2>3, <2>4, <4>1 DEF Reading
        <4>3. Readable(c, ready[k + 1])
          BY <1>1, <1>3, <4>2, ReadableLater
        <4> QED BY <2>8, <4>1, <4>2, <4>3, ReadableLeft
      <3>2. ready' \in Seq(Record) /\ Len(ready') = n - 1
        BY <2>3, <2>4, <2>7
      <3>3. ASSUME pc' = "read" PROVE ready' # <<>> /\ 0 < ready'[1].samples
        <4>1. n > 1
          BY <2>7, <3>3
        <4>2. ready' # <<>> /\ ready'[1] \in Record
          BY <3>2, <4>1
        <4> QED BY <4>2 DEF Record
      <3>4. buf' \in Seq(Int) /\ Len(buf') = 0
        BY <2>7
      <3> QED BY <2>7, <3>1, <3>2, <3>3, <3>4 DEF Reading
    <2>13. Taken'
      <3>1. parts \in Seq(PartSet) /\ SegmentsTrue
        BY <1>1 DEF Taken
      <3>2. ASSUME parts # <<>>, cfg.trigger = "none", "gap" \notin s.flags
            PROVE  s.start = parts[Len(parts)].start + parts[Len(parts)].samples
        <4>1. Follows(track, nxt, parts[Len(parts)].start + parts[Len(parts)].samples)
          BY <1>1, <2>1, <3>2 DEF Taken
        <4>2. \E k \in 1..Len(track.segs) : track.segs[k] = ready[1]
          BY <1>1, <2>1, <2>4 DEF HostTrack
        <4> QED BY <2>4, <2>5, <3>2, <4>1, <4>2 DEF Follows
      <3>3. /\ parts' \in Seq(PartSet) /\ SegmentsTrue' /\ parts' # <<>>
            /\ parts'[Len(parts')].start = s.start /\ parts'[Len(parts')].samples = s.samples
        BY <2>3, <2>4, <2>7, <3>1, <3>2, PartAdded
      <3>4. cfg.trigger = "none" => Follows(d, nxt + 1, s.start + s.samples)
        <4>1. nxt + 1 \in Int /\ s.start + s.samples \in Int
          <5>1. s.start \in Int /\ s.samples \in Nat
            BY DEF Record
          <5> QED BY <1>1, <5>1
        <4> QED BY <2>8, <2>10, <4>1 DEF Left
      <3>5. Repeating' /\ pc' # "start"
        BY <2>1, <2>7 DEF Repeating
      <3> QED BY <2>1, <2>7, <3>3, <3>4, <3>5 DEF Taken
    <2>14. Typed'
      BY <1>1, <2>1, <2>7 DEF Typed
    <2> QED BY <2>9, <2>11, <2>12, <2>13, <2>14 DEF ReadInv
  <1> QED BY <1>4, <1>5, <1>6, <1>7

---------------------------------------------------------------------------
(* The invariant. *)

\* Nothing is acquired yet.
LEMMA ReadInitially ==
  ASSUME ReadInit
  PROVE  ReadInv
  <1>1. /\ now = 0 /\ track = Fresh(0) /\ holder = "none" /\ pc = "off" /\ cfg = NoConfig /\ nxt = 0 /\ upto = 0
        /\ ready = <<>> /\ buf = <<>> /\ parts = <<>>
    BY DEF ReadInit, ProbeInit
  <1>2. Good(track, now)
    <2>1. 0 \in Nat
      OBVIOUS
    <2> QED BY <1>1, <2>1, FreshGood
  <1>3. HostTrack
    BY <1>1 DEF HostTrack, Owned
  <1>4. Reading
    BY <1>1 DEF Reading
  <1>5. Taken
    <2>1. parts \in Seq(PartSet) /\ Len(parts) = 0
      BY <1>1
    <2>2. SegmentsTrue
      BY <2>1 DEF SegmentsTrue, PartsWhole, PartsPlaced
    <2> QED BY <1>1, <2>1, <2>2 DEF Taken, Owned
  <1>6. Typed
    <2>1. NoConfig \in Settled
      BY DEF NoConfig, Settled
    <2> QED BY <1>1, <2>1 DEF Typed
  <1> QED BY <1>2, <1>3, <1>4, <1>5, <1>6 DEF ReadInv

\* Every step of either keeps it.
LEMMA ReadKept ==
  ASSUME ReadInv, [ReadNext]_<<probeVars, readVars>>
  PROVE  ReadInv'
  <1>1. CASE ReadSteps
    <2>1. CASE Open
      BY <2>1, StepOpen
    <2>2. CASE Configure
      BY <2>2, StepConfigure
    <2>3. CASE StartIt
      BY <2>3, StepStartIt
    <2>4. CASE ForceIt
      BY <2>4, StepForceIt
    <2>5. CASE Status
      BY <2>5, StepStatus
    <2>6. CASE Keepalive
      BY <2>6, StepKeepalive
    <2>7. CASE TimesOut
      BY <2>7, StepTimesOut
    <2>8. CASE Segments
      BY <2>8, StepSegments
    <2>9. CASE ReadBytes
      BY <2>9, StepReadBytes
    <2>10. CASE ReleaseIt
      BY <2>10, StepReleaseIt
    <2>11. CASE StopIt
      BY <2>11, StepStopIt
    <2> QED BY <1>1, <2>1, <2>2, <2>3, <2>4, <2>5, <2>6, <2>7, <2>8, <2>9, <2>10, <2>11 DEF ReadSteps
  <1>2. CASE ProbeSteps /\ UNCHANGED readVars
    <2>1. CASE Clock
      BY <1>2, <2>1, StepClock
    <2>2. CASE LockLost
      BY <1>2, <2>2, StepLockLost
    <2>3. CASE OtherConfigures
      BY <1>2, <2>3, StepOtherConfigures
    <2>4. CASE OtherStarts
      BY <1>2, <2>4, StepOtherStarts
    <2>5. CASE Serve
      BY <1>2, <2>5, StepServe
    <2>6. CASE FrameLost
      BY <1>2, <2>6, StepFrameLost
    <2> QED BY <1>2, <2>1, <2>2, <2>3, <2>4, <2>5, <2>6 DEF ProbeSteps
  <1>3. CASE UNCHANGED <<probeVars, readVars>>
    <2>1. Good(track, now) /\ now \in Nat /\ upto \in Int
      BY DEF ReadInv, Typed
    <2>2. track' = track /\ UNCHANGED <<pc, holder, cfg, nxt, upto, ready, buf, parts, began, now>>
      BY <1>3 DEF probeVars, readVars
    <2>3. Good(track', now') /\ Later(track, track')
      BY <2>1, <2>2, LaterSelf DEF Good
    <2> QED BY <2>1, <2>2, <2>3, RunsOn DEF Acquiring
  <1> QED BY <1>1, <1>2, <1>3 DEF ReadNext

\* In every state of an acquisition.
THEOREM ReadInvariant == ReadSpec => []ReadInv
  <1>1. ReadInit => ReadInv
    BY ReadInitially
  <1>2. ReadInv /\ [ReadNext]_<<probeVars, readVars>> => ReadInv'
    BY ReadKept
  <1> QED BY <1>1, <1>2, PTL DEF ReadSpec

\* A sequence's stretch is what it is of.
LEMMA StretchIs ==
  ASSUME NEW q \in Seq(Int), NEW a \in Nat, NEW m \in Nat, a + m <= Len(q), NEW u \in Int,
         \A i \in 1..m : q[a + i] = u + i - 1
  PROVE  SubSeq(q, a + 1, a + m) = Times(u, m)
  <1>1. PICK w \in Seq(Int) : w = SubSeq(q, a + 1, a + m)
    <2>1. SubSeq(q, a + 1, a + m) \in Seq(Int)
      BY Slicing
    <2> QED BY <2>1, Zenon
  <1>2. Len(w) = (IF a + 1 <= a + m THEN a + m - (a + 1) + 1 ELSE 0)
        /\ \A i \in 1..(a + m - (a + 1) + 1) : w[i] = q[a + 1 + i - 1]
    BY <1>1, Slicing
  <1>3. Len(w) = m /\ \A i \in 1..m : w[i] = u + i - 1
    <2>1. Len(w) = m /\ a + m - (a + 1) + 1 = m
      BY <1>2
    <2>2. ASSUME NEW i \in 1..m PROVE w[i] = u + i - 1
      <3>1. a + 1 + i - 1 = a + i
        OBVIOUS
      <3> QED BY <1>2, <2>1, <3>1
    <2> QED BY <2>1, <2>2
  <1> QED BY <1>1, <1>3, WholeIs

\* A ring in its place is the ring of what was not released.
LEMMA RingIsInOrder ==
  ASSUME NEW t, Good(track, t)
  PROVE  RingInOrder
  <1> SUFFICES ASSUME track.cfg.mode # "streaming" PROVE RingInOrder
    BY DEF RingInOrder
  <1>1. track \in Track /\ Ring(track)
    BY DEF Good, Streams
  <1>2. ASSUME NEW k \in 1..Len(track.segs)
        PROVE  /\ track.segs[k].serial = track.done - Len(track.segs) + k - 1 /\ track.segs[k].gen = track.gen
               /\ track.segs[k].position + track.segs[k].samples
                    = IF k = Len(track.segs) THEN End(track) ELSE track.segs[k + 1].position
               /\ SubSeq(track.data, track.segs[k].position - track.base + 1,
                         track.segs[k].position - track.base + track.segs[k].samples)
                    = Times(track.segs[k].start, track.segs[k].samples)
    <2>1. Placed(track, k)
      BY <1>1 DEF Ring
    <2>2. PICK s \in Record : s = track.segs[k]
      <3>1. track.segs \in Seq(Record)
        BY <1>1 DEF Track
      <3> QED BY <3>1
    <2>3. /\ s.serial = track.done - Len(track.segs) + k - 1 /\ s.gen = track.gen
          /\ track.base <= s.position /\ s.position + s.samples <= End(track)
          /\ s.position + s.samples = IF k = Len(track.segs) THEN End(track) ELSE track.segs[k + 1].position
          /\ Names(track, s)
      BY <2>1, <2>2 DEF Placed
    <2>4. PICK q \in Seq(Int), b \in Int : q = track.data /\ b = track.base
      BY <1>1 DEF Track
    <2>5. PICK p \in Nat, m \in Nat, u \in Int : p = s.position /\ m = s.samples /\ u = s.start
      BY DEF Record
    <2>6. PICK l \in Nat : l = Len(q)
      OBVIOUS
    <2>7. b <= p /\ p + m <= b + l
      BY <2>3, <2>4, <2>5, <2>6 DEF End
    <2>8. PICK a \in Nat : a = p - b
      BY <2>7
    <2>9. a + m <= Len(q)
      BY <2>6, <2>7, <2>8
    <2>10. ASSUME NEW i \in 1..m PROVE q[a + i] = u + i - 1
      <3>1. p + i > b /\ p - b + i = a + i
        BY <2>7, <2>8
      <3>2. q[p - b + i] = u + i - 1
        BY <2>3, <2>4, <2>5, <3>1 DEF Names
      <3> QED BY <3>1, <3>2
    <2>11. SubSeq(q, a + 1, a + m) = Times(u, m)
      BY <2>9, <2>10, StretchIs, ZenonT(60)
    <2> QED BY <2>2, <2>3, <2>4, <2>5, <2>8, <2>11
  <1>3. Len(track.segs) <= track.cfg.segments /\ track.base = IF Len(track.segs) = 0 THEN End(track) ELSE track.segs[1].position
    BY <1>1 DEF Ring
  <1> QED BY <1>2, <1>3 DEF RingInOrder

\* A ring that begins at or before the serial the host wants next has all the host has not released.
LEMMA NothingIsGone ==
  ASSUME ReadInv
  PROVE  NothingUnreadGone
  <1> SUFFICES ASSUME holder = "host", Repeating, Acquiring, NEW serial \in nxt..(track.done - 1)
               PROVE  \E k \in 1..Len(track.segs) : track.segs[k].serial = serial
    BY DEF NothingUnreadGone, Acquiring
  <1>1. /\ Good(track, now) /\ nxt \in Nat /\ track.cfg = cfg
        /\ track.done - Len(track.segs) <= nxt /\ nxt <= track.done
    BY DEF ReadInv, Typed, HostTrack, Owned
  <1>2. track \in Track /\ Ring(track)
    BY <1>1 DEF Good, Streams, Repeating
  <1>3. PICK z \in Int, n \in Nat, x \in Nat : z = track.done /\ n = Len(track.segs) /\ x = nxt
    <2>1. track.segs \in Seq(Record) /\ track.done \in Int
      BY <1>2 DEF Track
    <2> QED BY <1>1, <2>1
  <1>4. z - n <= x /\ serial \in x..(z - 1)
    BY <1>1, <1>3
  <1>5. PICK k \in Int : k = serial - z + n + 1
    BY <1>4
  <1>6. k \in 1..n /\ z - n + k - 1 = serial
    BY <1>4, <1>5
  <1>7. track.segs[k].serial = z - n + k - 1
    BY <1>2, <1>3, <1>6 DEF Ring, Placed
  <1> QED BY <1>3, <1>6, <1>7

\* RingHolds: the ring is what was taken and not released, in order, each byte the sample of the time its record gives
\* it; under the host's lock nothing it has not released is gone (_segment, release, _clear).
THEOREM RingIsHeld == ReadSpec => []RingHolds
  <1>1. ReadInv => RingHolds
    BY RingIsInOrder, NothingIsGone DEF ReadInv, RingHolds
  <1> QED BY <1>1, ReadInvariant, PTL

\* SegmentsTrue: every segment an acquisition has is the samples of its record, put at the time they were taken at,
\* whatever was started, taken over or dropped while it was read in pieces (read, ReadGap, _repeat_result).
THEOREM SegmentsAreTrue == ReadSpec => []SegmentsTrue
  <1>1. ReadInv => SegmentsTrue
    BY DEF ReadInv, Taken
  <1> QED BY <1>1, ReadInvariant, PTL

---------------------------------------------------------------------------
(* Whose trigger a segment of the ring has. *)

\* The host forces no trigger of a repeat that rearms.
NoRearmForced == \A c \in Forcible : ~(c.mode = "repeat" /\ c.rearm /\ c.trigger # "none")

\* The inductive invariant with what the ring says of its triggers: they are edges of the input, or forced.
MarksInv == ReadInv /\ Sound(track, input, forced)

\* What is marked for a plan's edges is sound for every track of that plan.
LEMMA SoundByThen ==
  ASSUME NEW c, NEW d, NEW E, NEW G, d.cfg = c.cfg, Marks(d, EdgeTimes(c, E) \cup G), Search(d, E)
  PROVE  Sound(d, E, G)
  BY DEF Sound, EdgeTimes

\* What every request does first.
LEMMA TickedMarks ==
  ASSUME MarksInv
  PROVE  now \in Nat /\ Good(Ticked, now) /\ Sound(Ticked, input, forced) /\ Later(track, Ticked)
  <1>1. Good(track, now) /\ now \in Nat
    BY DEF MarksInv, ReadInv, Typed
  <1>2. Good(Ticked, now) /\ Later(track, Ticked)
    BY <1>1, TickedGood
  <1> DEFINE F == EdgeTimes(track, input) \cup forced
  <1>3. Marks(track, F) /\ Search(track, input) /\ EdgeTimes(track, input) \subseteq F
    BY DEF MarksInv, Sound
  <1> HIDE DEF F
  <1>4. Marks(Ticked, F) /\ Search(Ticked, input)
    BY <1>1, <1>3, TickMarks DEF Ticked
  <1>5. Ticked.cfg = track.cfg
    BY <1>2 DEF Later
  <1> QED BY <1>1, <1>2, <1>4, <1>5, SoundByThen DEF F

\* An idle track has no segments.
LEMMA IdleMarks ==
  ASSUME NEW c, NEW E, NEW G, Idle(c)
  PROVE  Sound(c, E, G)
  BY MarksNone DEF Idle, Sound, Search, Looking

\* The lock passes to a session.
LEMMA PassedMarks ==
  ASSUME MarksInv, NEW to, LockPasses(to)
  PROVE  Sound(track', input, forced)
  <1>1. Good(Ticked, now) /\ Sound(Ticked, input, forced) /\ now \in Nat /\ Ticked.gen \in Nat
    BY TickedMarks DEF Good, Track
  <1>2. track' = Ticked \/ track' = Fresh(Ticked.gen)
    BY DEF LockPasses, Unplanned
  <1>3. Sound(Fresh(Ticked.gen), input, forced)
    BY <1>1, FreshGood, IdleMarks
  <1> QED BY <1>1, <1>2, <1>3

\* A configure.
LEMMA AppliedMarks ==
  ASSUME MarksInv, NEW f \in Settled, NEW E, NEW G
  PROVE  Sound(Apply(Ticked, f), E, G)
  <1>1. Good(Ticked, now) /\ now \in Nat /\ Ticked \in Track
    BY TickedMarks DEF Good
  <1>2. Ticked.t0 <= now
    BY <1>1 DEF Good, Counts
  <1> QED BY <1>1, <1>2, ApplyGood, IdleMarks

\* A start.
LEMMA StartedMarks ==
  ASSUME MarksInv
  PROVE  Sound(Start(Ticked, now, FALSE, input), input, forced)
  <1> DEFINE F == EdgeTimes(Ticked, input) \cup forced
             d == Start(Ticked, now, FALSE, input)
  <1>1. Good(Ticked, now) /\ now \in Nat /\ EdgeTimes(Ticked, input) \subseteq F
    BY TickedMarks
  <1> HIDE DEF F
  <1>2. Marks(d, F) /\ Search(d, input)
    BY <1>1, StartMarks
  <1>3. d.cfg = Ticked.cfg
    BY <1>1, StartGood
  <1> HIDE DEF d
  <1>4. Sound(d, input, forced)
    BY <1>2, <1>3, SoundByThen DEF F
  <1> QED BY <1>4 DEF d

\* force: the host forces the track it configured, which does not rearm.
LEMMA ForcedMarks ==
  ASSUME MarksInv, NoRearmForced, pc = "poll", holder = "host", cfg \in Forcible,
         NEW G, G = forced \cup {now}
  PROVE  Sound(ForceNow(Ticked, now, Ticked.cfg.pretrigger), input, G)
  <1> DEFINE F == EdgeTimes(Ticked, input) \cup G
             d == ForceNow(Ticked, now, Ticked.cfg.pretrigger)
  <1>1. Good(Ticked, now) /\ now \in Nat /\ Search(Ticked, input) /\ Marks(Ticked, EdgeTimes(Ticked, input) \cup forced)
    BY TickedMarks DEF Sound
  <1>2. Marks(Ticked, F)
    BY <1>1, MarksMore
  <1>3. now \in F
    OBVIOUS
  <1>4. Ticked.cfg = cfg
    BY TickedMarks DEF MarksInv, ReadInv, HostTrack, Owned, Acquiring, Later
  <1>5. Later(Ticked, d)
    BY <1>1, ForceGood
  <1> HIDE DEF F
  <1>6. CASE Streams(Ticked)
    <2>1. Streams(d)
      BY <1>5, <1>6 DEF Later, Streams
    <2> QED BY <2>1 DEF Sound, Marks, Search
  <1>7. CASE ~Streams(Ticked)
    <2>1. Ticked.rearm = Ticked.cfg.rearm
      BY <1>1, <1>7 DEF Good, Counts
    <2>2. ~Rearms(Ticked)
      BY <1>4, <2>1 DEF Rearms, NoRearmForced
    <2>3. Marks(d, F) /\ Search(d, input)
      BY <1>1, <1>2, <1>3, <2>2, ForceMarks
    <2>4. d.cfg = Ticked.cfg
      BY <1>5 DEF Later
    <2> HIDE DEF d
    <2>5. Sound(d, input, G)
      BY <2>3, <2>4, SoundByThen DEF F
    <2> QED BY <2>5 DEF d
  <1> QED BY <1>6, <1>7

\* A stop, and a release.
LEMMA EndedMarks ==
  ASSUME MarksInv
  PROVE  /\ Sound(Stop(Ticked, now, input), input, forced)
         /\ \A x \in Int : Sound(Release(Ticked, x, now), input, forced)
  <1> DEFINE F == EdgeTimes(Ticked, input) \cup forced
  <1>1. /\ Good(Ticked, now) /\ now \in Nat /\ EdgeTimes(Ticked, input) \subseteq F
        /\ Marks(Ticked, F) /\ Search(Ticked, input)
    BY TickedMarks DEF Sound
  <1> HIDE DEF F
  <1>2. Sound(Stop(Ticked, now, input), input, forced)
    <2>1. PICK d : d = Stop(Ticked, now, input)
      OBVIOUS
    <2>2. Marks(d, F) /\ Search(d, input) /\ d.cfg = Ticked.cfg
      BY <1>1, <2>1, StopMarks, StopGood DEF Later
    <2> QED BY <2>1, <2>2, SoundByThen DEF F
  <1>3. ASSUME NEW x \in Int PROVE Sound(Release(Ticked, x, now), input, forced)
    <2>1. PICK d : d = Release(Ticked, x, now)
      OBVIOUS
    <2>2. Marks(d, F) /\ Search(d, input) /\ d.cfg = Ticked.cfg
      BY <1>1, <2>1, ReleaseMarks, ReleaseGood DEF Left
    <2> QED BY <2>1, <2>2, SoundByThen DEF F
  <1> QED BY <1>2, <1>3

\* The serving loop.
LEMMA ServedMarks ==
  ASSUME MarksInv, Serve
  PROVE  Sound(track', input, forced)
  <1>a. PICK c : c = Ticked
    OBVIOUS
  <1>b. PICK s : s = Skipped(c)
    OBVIOUS
  <1>1. track' = Dropped(c) \/ track' = s \/ (Unsent(s) > 0 /\ track' = Sent(s))
    BY <1>a, <1>b DEF Serve
  <1>2. Good(c, now) /\ Sound(c, input, forced) /\ now \in Nat
    BY <1>a, TickedMarks
  <1>3. CASE Streams(c)
    <2>1. Good(s, now) /\ Later(c, s) /\ Later(c, Dropped(c))
      BY <1>2, <1>b, ServedGood
    <2>2. Unsent(s) > 0 => Later(s, Sent(s))
      BY <1>2, <2>1, ServedGood
    <2>3. Streams(track')
      BY <1>1, <1>3, <2>1, <2>2 DEF Later, Streams
    <2> QED BY <2>3 DEF Sound, Marks, Search
  <1>4. CASE ~Streams(c)
    <2>1. Unsent(c) = 0 /\ c.sent = 0 /\ c.drop_until = 0
      BY <1>2, <1>4 DEF Unsent, Streams, Good, Ring
    <2>2. s = c /\ Dropped(c) = c
      BY <1>b, <2>1 DEF Skipped, Dropped
    <2> QED BY <1>1, <1>2, <2>1, <2>2
  <1> QED BY <1>3, <1>4

\* The steps of the host.
LEMMA HostMarks ==
  ASSUME MarksInv, NoRearmForced, ReadSteps
  PROVE  Sound(track', input', forced')
  <1>1. Sound(Ticked, input, forced) /\ Sound(track, input, forced)
    BY TickedMarks DEF MarksInv
  <1>2. CASE Open
    BY <1>2, PassedMarks DEF Open
  <1>3. CASE Configure
    <2>1. track' = Apply(Ticked, cfg') /\ cfg' \in Settled
      BY <1>3, ConfigAssumption DEF Configure, ConfigAssumption
    <2> QED BY <2>1, AppliedMarks
  <1>4. CASE StartIt
    <2>1. UNCHANGED <<input, forced>> /\ (track' = Start(Ticked, now, FALSE, input) \/ track' = Ticked)
      BY <1>4 DEF StartIt, Locked
    <2> QED BY <1>1, <2>1, StartedMarks
  <1>5. CASE ForceIt
    <2>1. /\ pc = "poll" /\ cfg \in Forcible /\ input' = input
          /\ \/ /\ holder = "host" /\ track' = ForceNow(Ticked, now, Ticked.cfg.pretrigger)
                /\ forced' = forced \cup {now}
             \/ track' = Ticked /\ forced' = forced
      BY <1>5 DEF ForceIt, Locked
    <2>2. CASE track' = Ticked /\ forced' = forced
      BY <1>1, <2>1, <2>2
    <2>3. CASE holder = "host" /\ track' = ForceNow(Ticked, now, Ticked.cfg.pretrigger) /\ forced' = forced \cup {now}
      BY <2>1, <2>3, ForcedMarks
    <2> QED BY <2>1, <2>2, <2>3
  <1>6. CASE Status \/ Keepalive \/ TimesOut \/ Segments \/ ReadBytes
    <2>1. UNCHANGED <<input, forced>> /\ (track' = Ticked \/ track' = track)
      BY <1>6, Zenon DEF Status, Keepalive, TimesOut, Segments, ReadBytes, Locked, probeVars
    <2> QED BY <1>1, <2>1
  <1>7. CASE ReleaseIt
    <2>1. /\ UNCHANGED <<input, forced>> /\ pc = "release"
          /\ track' = Release(Ticked, ready[1].serial, now) \/ track' = Ticked
      BY <1>7, Zenon DEF ReleaseIt, Locked
    <2>2. ready \in Seq(Record) /\ ready # <<>>
      BY <2>1 DEF MarksInv, ReadInv, Reading
    <2>3. ready[1].serial \in Int
      <3>1. ready[1] \in Record
        BY <2>2
      <3> QED BY <3>1 DEF Record
    <2> QED BY <1>1, <2>1, <2>3, EndedMarks
  <1>8. CASE StopIt
    <2>1. UNCHANGED <<input, forced>> /\ (track' = Stop(Ticked, now, input) \/ track' = Ticked)
      BY <1>8 DEF StopIt, Locked
    <2> QED BY <1>1, <2>1, EndedMarks
  <1> QED BY <1>2, <1>3, <1>4, <1>5, <1>6, <1>7, <1>8 DEF ReadSteps

\* The steps of the probe.
LEMMA ProbeMarks ==
  ASSUME MarksInv, ProbeSteps, UNCHANGED readVars
  PROVE  Sound(track', input', forced')
  <1>1. UNCHANGED <<input, forced>>
    BY DEF ProbeSteps, Clock, LockLost, OtherConfigures, OtherStarts, Serve, FrameLost, readVars
  <1>2. Sound(track', input, forced)
    <2>1. CASE Clock \/ FrameLost
      BY <2>1 DEF Clock, FrameLost, MarksInv
    <2>2. CASE LockLost
      BY <2>2, PassedMarks DEF LockLost
    <2>3. CASE OtherConfigures
      <3>1. PICK f \in OtherConfigs : track' = Apply(Ticked, f)
        BY <2>3 DEF OtherConfigures
      <3> QED BY <3>1, AppliedMarks, ConfigAssumption DEF ConfigAssumption
    <2>4. CASE OtherStarts
      BY <2>4, StartedMarks DEF OtherStarts
    <2>5. CASE Serve
      BY <2>5, ServedMarks
    <2> QED BY <2>1, <2>2, <2>3, <2>4, <2>5 DEF ProbeSteps
  <1> QED BY <1>1, <1>2

\* Marked segments have their triggers, and a search that is told has passed none.
LEMMA MarksTell ==
  ASSUME MarksInv
  PROVE  TriggersTrue
  <1> DEFINE F == EdgeTimes(track, input) \cup forced
  <1>1. Good(track, now) /\ Marks(track, F) /\ Search(track, input)
    BY DEF MarksInv, ReadInv, Sound
  <1>2. CASE Streams(track)
    <2>1. track.segs = <<>> /\ track.cfg.mode # "repeat" /\ track.cfg.mode = "streaming"
      BY <1>1, <1>2 DEF Good, Streams
    <2> QED BY <2>1 DEF TriggersTrue, TriggerAtIndex, NoEdgePassed, OwnTriggers
  <1>3. CASE ~Streams(track)
    <2>1. track.rearm = track.cfg.rearm
      BY <1>1, <1>3 DEF Good, Counts
    <2>2. \A x \in F : TriggeredAt(x)
      BY DEF EdgeTimes, TriggeredAt
    <2> HIDE DEF F
    <2>3. TriggerAtIndex
      BY <1>1, <1>3, <2>2 DEF Marks, Marked, TriggerAtIndex
    <2>4. OwnTriggers
      BY <1>1, <1>3, <2>1 DEF Marks, Rearms, Spaced, OwnTriggers
    <2>5. NoEdgePassed
      <3> SUFFICES ASSUME Told(track, input), NEW i \in Higher(1, Begin(track))..(track.scan - 1)
                   PROVE  ~EdgeAt(track, i)
        BY <1>1, <1>3 DEF NoEdgePassed, Search
      <3>1. track.floor \in Int /\ track.cfg.pretrigger \in Nat /\ track.scan \in Int
        BY <1>1 DEF Good, Track, Settled
      <3>2. track.floor <= Begin(track) /\ Begin(track) \in Int
        BY <3>1 DEF Begin
      <3>3. Begin(track) <= i /\ i < track.scan
        BY <3>1, <3>2 DEF Higher
      <3>4. ~Blind(track)
        BY <3>1, <3>2, <3>3 DEF Blind
      <3> QED BY <3>4 DEF Told, EdgeAt
    <2> QED BY <2>3, <2>4, <2>5 DEF TriggersTrue
  <1> QED BY <1>2, <1>3

\* TriggersTrue: a segment's trigger_index names a sample with the edge asked for, or one that was forced, in the
\* first segment of a generation and, with arm 1 and a pretrigger, in every later one; a search behind which no edge
\* was passed stays so at whatever times it looks; what was asked for after the trigger is there; and a repeat that
\* rearms has a trigger of its own in every whole segment (_triggered, _scan, rearm_after).  This is of a host that
\* forces no rearming repeat (a forced one paused by a full ring keeps its trigger_index over the pause).
THEOREM TriggersAreTrue ==
  ASSUME NoRearmForced
  PROVE  ReadSpec => []TriggersTrue
  <1>1. ReadInit => MarksInv
    <2> SUFFICES ASSUME ReadInit PROVE MarksInv
      OBVIOUS
    <2>1. track = Fresh(0) /\ 0 \in Nat
      BY DEF ReadInit, ProbeInit
    <2>2. Idle(track)
      BY <2>1, FreshGood
    <2> QED BY <2>2, ReadInitially, IdleMarks DEF MarksInv
  <1>2. MarksInv /\ [ReadNext]_<<probeVars, readVars>> => MarksInv'
    <2> SUFFICES ASSUME MarksInv, [ReadNext]_<<probeVars, readVars>> PROVE MarksInv'
      OBVIOUS
    <2>1. ReadInv'
      BY ReadKept DEF MarksInv
    <2>2. Sound(track', input', forced')
      <3>1. CASE ReadSteps
        BY <3>1, HostMarks
      <3>2. CASE ProbeSteps /\ UNCHANGED readVars
        BY <3>2, ProbeMarks
      <3>3. CASE UNCHANGED <<probeVars, readVars>>
        BY <3>3 DEF probeVars, readVars, MarksInv
      <3> QED BY <3>1, <3>2, <3>3 DEF ReadNext
    <2> QED BY <2>1, <2>2 DEF MarksInv
  <1>3. MarksInv => TriggersTrue
    BY MarksTell
  <1> QED BY <1>1, <1>2, <1>3, PTL DEF ReadSpec
=============================================================================
