------------------------- MODULE PipelinedLinkProofs -------------------------
(***************************************************************************)
(* What holds of a link with several requests in flight, for every number  *)
(* of them, every resend table, framing and sequence of calls, and however *)
(* many frames are lost, broken or late, until a corr comes round.         *)
(*                                                                         *)
(* The requests that are told apart by their corrs are counted by Past.    *)
(* RunsInOrder follows from what the probe remembers (Ordered); that what  *)
(* the caller is told is so, from where each request may still be (Asked,  *)
(* Unsent) and, where no request was lost, from the order in which the     *)
(* copies of those in flight come and how many of them there are (Whole).  *)
(* That one fault fails no call follows from what it leaves between the    *)
(* host and the probe (Pipe, Harmless).                                    *)
(***************************************************************************)
EXTENDS PipelinedLink, ProbeSessionProofs, FiniteSetTheorems

-------------------------------------------------------------------------------
(* Where requests and answers are. *)

\* A request of the session, a write told apart by its argument, or a confirm.
Sendable ==
  {r \in Requests : /\ r.corr # 0 /\ (r.op = "write" => r.arg = r.corr)
                    /\ \/ r.op \in {"write", "subscribe"} /\ r.sid = Holder
                       \/ r.op = "confirm" /\ r.sid = NoSid}
OfSession(r) == r.sid = Holder

\* The call's requests without an answer, in the order of their corrs.
Line == out \o todo
Waits == Range(Line)

\* On their way to the probe or queued there.
Queue(t) == {x.req : x \in Range(inbox[t])}
Way(t) == Range(toProbe[t]) \cup Queue(t)

\* Answers on their way, and those that may be given again.
Back(t) == Range(answers[t]) \cup (Range(toHost[t]) \ {Torn})
Stored == {e.ans : e \in resend} \ {Dropped}
AllBack == Stored \cup UNION {Back(t) : t \in Route}

Asked == Waits \cup (UNION {Way(t) : t \in Route}) \cup {a.req : a \in AllBack}

-------------------------------------------------------------------------------
(* The invariants. *)

ProbeType == TypeOK /\ holder = Holder /\ last = Holder /\ ~restarting

Confirms == [after : {"none", "call", "rest"}, tries : Nat, sought : Nat]

HostType ==
  /\ use \in Use
  /\ pc \in {"idle", "exchange", "confirm"} /\ conn \in Route
  /\ corr \in Corr /\ Past(corr) <= MaxCorrs
  /\ todo \in Seq(Sendable) /\ out \in Seq(Sendable) /\ Len(out) <= MaxInflight
  /\ confirm \in Confirms
  /\ pc = "idle" <=> todo = <<>> /\ out = <<>>
  /\ pc = "confirm" => confirm.after # "none"

WireType ==
  /\ toProbe \in [Route -> Seq(Sendable)]
  /\ toHost \in [Route -> Seq(Answer \cup {Torn})]
  /\ inbox \in [Route -> Seq([req : Sendable, done : BOOLEAN])]

PastType ==
  /\ order \in Seq(Corr)
  /\ told \subseteq [corr : Corr, what : Res \cup {"unknown", "not_sent"}]
  /\ cut \in BOOLEAN

\* The types, and the session that is open throughout.
LinkType == ProbeType /\ HostType /\ WireType /\ PastType

\* One corr, one request; none of a corr not taken yet.
Named ==
  /\ \A r \in Asked : Past(r.corr) <= Past(corr)
  /\ \A r, s \in Asked : r.corr = s.corr => r = s
  /\ \A x \in told : Past(x.corr) <= Past(corr)

\* The call's requests have corrs that follow each other.
InLine ==
  \A i \in 1..Len(Line) : OfSession(Line[i]) /\ Past(Line[i].corr) = Past(Line[1].corr) + i - 1

\* What the probe has run is in the order of the corrs, and remembered as the newest.
Ordered ==
  /\ newest \in Corr /\ Past(newest) <= Past(corr)
  /\ \A e \in resend : e.corr \in Corr /\ Past(e.corr) <= Past(newest)
  /\ \A i \in 1..Len(order) : Past(order[i]) <= Past(newest)
  /\ \A i, j \in 1..Len(order) : i < j => Past(order[i]) < Past(order[j])

\* A write that is answered ok ran.
OkRan ==
  /\ \A a \in AllBack : a.req.op = "write" /\ a.res = "ok" => a.req.corr \in Range(order)
  /\ \A x \in told : x.what = "ok" => x.corr \in Range(order)

\* What waits for a recovery, and what the caller was told was not sent, is nowhere else.
Nowhere(c) == c \notin Range(order) /\ \A t \in Route : \A s \in Way(t) : s.corr # c
Unsent ==
  /\ pc = "confirm" /\ confirm.after = "call" => out = <<>> /\ \A r \in Waits : Nowhere(r.corr)
  /\ \A x \in told : x.what = "not_sent" => Nowhere(x.corr) /\ \A r \in Waits : r.corr # x.corr

FirstInv == LinkType /\ Named /\ InLine /\ Ordered /\ OkRan /\ Unsent

\* A request that was processed: the newest one is not behind it.
Reached(r) == Past(r.corr) <= Past(newest)

\* One entry for each corr, none says that a result is lost.
Entries ==
  /\ \A e, f \in resend : e.corr = f.corr => e = f
  /\ \A a \in Stored : a.res # "result_lost"

\* No more than MaxInflight requests, from the first without an answer on, are sent.
InReach(p) == p <= Past(Line[1].corr) + MaxInflight - 1
Windowed ==
  Line # <<>> => /\ InReach(Past(newest))
                 /\ \A t \in Route : \A s \in Way(t) : OfSession(s) => InReach(Past(s.corr))

\* The answers of the writes that wait are kept.
StillKept(r) == Known(r.corr) # {} /\ \A e \in Known(r.corr) : e.req # Dropped /\ e.ans # Dropped
AllKept == \A r \in Waits : r.op = "write" /\ Reached(r) => StillKept(r)

\* A request does not come before one that waits and is older, but for one that was processed.
After(n, r, s) == OfSession(s) /\ Past(r.corr) < Past(s.corr) /\ Past(n) < Past(r.corr)
LineInOrder(t, r) ==
  \A i \in 1..Len(toProbe[t]) : After(newest, r, toProbe[t][i]) => r \in Queue(t) \/ \E j \in 1..(i - 1) : toProbe[t][j] = r
QueueInOrder(t, r) ==
  \A i \in 1..Len(inbox[t]) : After(newest, r, inbox[t][i].req) => \E j \in 1..(i - 1) : inbox[t][j].req = r
NoGap(t) == \A r \in Waits : LineInOrder(t, r) /\ QueueInOrder(t, r)
DoneReached(t) == \A i \in 1..Len(inbox[t]) : inbox[t][i].done /\ OfSession(inbox[t][i].req) => Reached(inbox[t][i].req)

\* What is out was processed or is on its way on the connection.
OutComes == pc = "exchange" => \A r \in Range(out) : Reached(r) \/ r \in Way(conn)

\* No answer to a write that waits says that its result is lost.
NoneLost == \A t \in Route : \A a \in Back(t) : \A r \in Waits : r.op = "write" /\ r.corr = a.req.corr => a.res # "result_lost"

\* What holds as long as no request was lost.
Together ==
  /\ ~garbled /\ AllKept /\ OutComes /\ NoneLost
  /\ \A t \in Route : NoGap(t) /\ DoneReached(t)
  /\ \A x \in told : x.what # "result_lost"
Whole == ~cut => Together

WholeInv == FirstInv /\ Entries /\ Windowed /\ Whole

\* The resend table holds what is in flight: as many answers as requests may be, and none of
\* the requests and answers is too large to keep (remember_count, remember_max, max_inflight).
TableHolds == RememberCount >= MaxInflight /\ LargeArg \cap Corr = {} /\ 0 \notin LargeVal

-------------------------------------------------------------------------------
(* The corrs taken. *)

LEMMA PastRange == ASSUME NEW c \in Corr PROVE Past(c) \in 0..(CorrMax - 1)
BY CorrAssumption, LinkAssumption DEF Past, Corr

\* The probe's comparison is the order in which the corrs are taken.
LEMMA PastAhead ==
  ASSUME NEW a \in Corr, NEW b \in Corr, Past(a) <= MaxCorrs, Past(b) <= MaxCorrs
  PROVE  /\ Ahead(a, b) <=> Past(b) < Past(a)
         /\ Past(a) = Past(b) => a = b
         /\ Past(b) <= Past(a) => InWindow(a, b)
BY CorrAssumption, LinkAssumption DEF Past, Corr, Ahead, InWindow, Diff

\* Among corrs that are not newer than a, the nearer one is the newer one.
LEMMA PastNearer ==
  ASSUME NEW a \in Corr, NEW b \in Corr, NEW c \in Corr,
         Past(a) <= MaxCorrs, Past(b) <= Past(a), Past(c) <= Past(a)
  PROVE  Diff(a, b) < Diff(a, c) <=> Past(c) < Past(b)
BY CorrAssumption, LinkAssumption DEF Past, Corr, Diff

LEMMA PastPlus ==
  ASSUME NEW c \in Corr, NEW n \in Nat, Past(c) + n <= MaxCorrs
  PROVE  Plus(c, n) \in Corr /\ Past(Plus(c, n)) = Past(c) + n
BY CorrAssumption, LinkAssumption DEF Past, Corr, Plus

-------------------------------------------------------------------------------
(* What is in a sequence. *)

LEMMA RangeIs ==
  ASSUME NEW S, NEW s \in Seq(S)
  PROVE  /\ Range(s) \subseteq S
         /\ \A x : x \in Range(s) <=> \E i \in 1..Len(s) : s[i] = x
BY LenProperties, ElementOfSeq DEF Range

LEMMA RangeEmpty == Range(<<>>) = {}
BY DEF Range

LEMMA EmptyIsZero == ASSUME NEW S, NEW s \in Seq(S) PROVE s = <<>> <=> Len(s) = 0
BY EmptySeq

LEMMA RangeAppend ==
  ASSUME NEW S, NEW s \in Seq(S), NEW e \in S
  PROVE  Append(s, e) \in Seq(S) /\ Range(Append(s, e)) = Range(s) \cup {e}
<1>1. Append(s, e) \in Seq(S) /\ Len(Append(s, e)) = Len(s) + 1 /\ Len(s) \in Nat
  OBVIOUS
<1>2. \A i \in 1..(Len(s) + 1) : Append(s, e)[i] = IF i = Len(s) + 1 THEN e ELSE s[i]
  OBVIOUS
<1> DEFINE a == Append(s, e)
<1>3. \A x : x \in Range(a) <=> \E i \in 1..Len(a) : a[i] = x
  BY <1>1, RangeIs
<1>4. \A x : x \in Range(s) <=> \E i \in 1..Len(s) : s[i] = x
  BY RangeIs
<1>5. ASSUME NEW x, x \in Range(a) PROVE x \in Range(s) \cup {e}
  <2>1. PICK i \in 1..(Len(s) + 1) : a[i] = x
    BY <1>1, <1>3, <1>5
  <2> QED BY <1>1, <1>2, <1>4, <2>1
<1>6. ASSUME NEW x, x \in Range(s) PROVE x \in Range(a)
  <2>1. PICK i \in 1..Len(s) : s[i] = x
    BY <1>4, <1>6
  <2>2. i \in 1..Len(a) /\ a[i] = x
    BY <1>1, <1>2, <2>1
  <2> QED BY <1>3, <2>2
<1>7. e \in Range(a)
  <2>1. Len(s) + 1 \in 1..Len(a) /\ a[Len(s) + 1] = e
    BY <1>1, <1>2
  <2> QED BY <1>3, <2>1
<1> QED BY <1>1, <1>5, <1>6, <1>7

LEMMA RangeConcat ==
  ASSUME NEW S, NEW s \in Seq(S), NEW u \in Seq(S)
  PROVE  s \o u \in Seq(S) /\ Range(s \o u) = Range(s) \cup Range(u)
<1>1. /\ s \o u \in Seq(S) /\ Len(s \o u) = Len(s) + Len(u)
      /\ Len(s) \in Nat /\ Len(u) \in Nat
      /\ \A i \in 1..(Len(s) + Len(u)) : (s \o u)[i] = IF i <= Len(s) THEN s[i] ELSE u[i - Len(s)]
  BY ConcatProperties, LenProperties
<1>2. ASSUME NEW x, x \in Range(s \o u) PROVE x \in Range(s) \cup Range(u)
  <2>1. PICK i \in 1..(Len(s) + Len(u)) : (s \o u)[i] = x
    BY <1>1, <1>2, RangeIs, ZenonT(60)
  <2>2. CASE i <= Len(s)
    BY <1>1, <2>1, <2>2, RangeIs
  <2>3. CASE i > Len(s)
    <3>1. i - Len(s) \in 1..Len(u) /\ u[i - Len(s)] = x
      BY <1>1, <2>1, <2>3
    <3> QED BY <3>1, RangeIs
  <2> QED BY <1>1, <2>1, <2>2, <2>3
<1>3. ASSUME NEW x, x \in Range(s) PROVE x \in Range(s \o u)
  <2>1. PICK i \in 1..Len(s) : s[i] = x
    BY <1>3, RangeIs
  <2>2. i \in 1..(Len(s) + Len(u)) /\ (s \o u)[i] = x
    BY <1>1, <2>1
  <2> QED BY <1>1, <2>2, RangeIs
<1>4. ASSUME NEW x, x \in Range(u) PROVE x \in Range(s \o u)
  <2>1. PICK i \in 1..Len(u) : u[i] = x
    BY <1>4, RangeIs
  <2>2. Len(s) + i \in 1..(Len(s) + Len(u)) /\ (s \o u)[Len(s) + i] = x
    BY <1>1, <2>1
  <2> QED BY <1>1, <2>2, RangeIs
<1> QED BY <1>1, <1>2, <1>3, <1>4

LEMMA RangeTail ==
  ASSUME NEW S, NEW s \in Seq(S), s # <<>>
  PROVE  Tail(s) \in Seq(S) /\ Head(s) \in S /\ Range(s) = {Head(s)} \cup Range(Tail(s))
<1>1. /\ Tail(s) \in Seq(S) /\ Head(s) \in S /\ Head(s) = s[1]
      /\ Len(s) \in Nat \ {0} /\ Len(Tail(s)) = Len(s) - 1
      /\ \A i \in 1..Len(Tail(s)) : Tail(s)[i] = s[i + 1]
  BY HeadTailProperties, EmptySeq
<1> DEFINE u == Tail(s)
<1>2. \A x : x \in Range(u) <=> \E i \in 1..Len(u) : u[i] = x
  <2>1. u \in Seq(S)
    BY <1>1
  <2> HIDE DEF u
  <2> QED BY <2>1, RangeIs
<1>3. \A x : x \in Range(s) <=> \E i \in 1..Len(s) : s[i] = x
  BY RangeIs
<1>4. ASSUME NEW x, x \in Range(s) PROVE x \in {Head(s)} \cup Range(u)
  <2>1. PICK i \in 1..Len(s) : s[i] = x
    BY <1>3, <1>4
  <2>2. CASE i # 1
    <3>1. i - 1 \in 1..Len(u) /\ u[i - 1] = x
      BY <1>1, <2>1, <2>2
    <3> QED BY <1>2, <3>1
  <2> QED BY <1>1, <2>1, <2>2
<1>5. ASSUME NEW x, x \in Range(u) PROVE x \in Range(s)
  <2>1. PICK i \in 1..Len(u) : u[i] = x
    BY <1>2, <1>5
  <2>2. i + 1 \in 1..Len(s) /\ s[i + 1] = x
    BY <1>1, <2>1
  <2> QED BY <1>3, <2>2
<1>6. Head(s) \in Range(s)
  <2>1. 1 \in 1..Len(s)
    BY <1>1
  <2> QED BY <1>1, <1>3, <2>1
<1> QED BY <1>1, <1>4, <1>5, <1>6

-------------------------------------------------------------------------------
(* The types: the host's steps. *)

\* The requests of a call, with the corrs that follow the last one taken.
IsCall(requests) ==
  /\ requests \in Seq(Sendable) /\ requests # <<>> /\ Past(corr) + Len(requests) <= MaxCorrs
  /\ \A i \in 1..Len(requests) : OfSession(requests[i]) /\ Past(requests[i].corr) = Past(corr) + i

LEMMA AsRequestIs ==
  ASSUME NEW op \in {"write", "subscribe"}, NEW c \in Corr
  PROVE  AsRequest(op, c) \in Sendable /\ OfSession(AsRequest(op, c)) /\ AsRequest(op, c).corr = c
<1>1. (CHOOSE f \in Fn : TRUE) \in Nat
  BY LinkAssumption, ProbeAssumption
<1>2. c \in Nat /\ c \in 0..CorrMax /\ c # 0
  BY CorrAssumption DEF Corr
<1> QED BY <1>1, <1>2, LinkAssumption DEF AsRequest, Sendable, OfSession, Requests, Op, LockFree

LEMMA NewCall ==
  ASSUME HostType, NEW op \in {"write", "subscribe"}, NEW n \in Nat \ {0}, Past(corr) + n <= MaxCorrs
  PROVE  IsCall([i \in 1..n |-> AsRequest(op, Plus(corr, i))])
<1> DEFINE rs == [i \in 1..n |-> AsRequest(op, Plus(corr, i))]
<1>0. corr \in Corr /\ Past(corr) \in Int /\ MaxCorrs \in Nat
  BY PastRange, LinkAssumption DEF HostType
<1>1. ASSUME NEW i \in 1..n
      PROVE  rs[i] \in Sendable /\ OfSession(rs[i]) /\ Past(rs[i].corr) = Past(corr) + i
  <2>1. i \in Nat /\ Past(corr) + i <= MaxCorrs
    BY <1>0
  <2>2. Plus(corr, i) \in Corr /\ Past(Plus(corr, i)) = Past(corr) + i
    BY <1>0, <2>1, PastPlus
  <2> QED BY <2>2, AsRequestIs
<1>2. rs \in Seq(Sendable) /\ Len(rs) = n
  BY <1>1
<1>3. rs # <<>>
  BY <1>2, EmptySeq
<1> QED BY <1>0, <1>1, <1>2, <1>3 DEF IsCall

LEMMA OneRequest ==
  ASSUME HostType, Past(corr) + 1 <= MaxCorrs
  PROVE  IsCall(<<AsRequest("subscribe", Plus(corr, 1))>>)
<1>0. corr \in Corr
  BY DEF HostType
<1>1. Plus(corr, 1) \in Corr /\ Past(Plus(corr, 1)) = Past(corr) + 1
  BY <1>0, PastPlus
<1>2. /\ AsRequest("subscribe", Plus(corr, 1)) \in Sendable
      /\ OfSession(AsRequest("subscribe", Plus(corr, 1)))
      /\ AsRequest("subscribe", Plus(corr, 1)).corr = Plus(corr, 1)
  BY <1>1, AsRequestIs
<1> HIDE DEF AsRequest
<1> DEFINE r == AsRequest("subscribe", Plus(corr, 1))
<1> HIDE DEF r
<1>3. r \in Sendable /\ OfSession(r) /\ Past(r.corr) = Past(corr) + 1
  BY <1>1, <1>2 DEF r
<1>4. IsCall(<<r>>)
  BY <1>3 DEF IsCall
<1> QED BY <1>4 DEF r

\* A call begins with requests that take the next corrs.
LEMMA CallBegins ==
  ASSUME HostType, SubscribeAgain \/ Call
  PROVE  use' \in Use /\ \E requests : IsCall(requests) /\ Begin(requests)
<1>0. use \in Use
  BY DEF HostType
<1>1. CASE SubscribeAgain
  <2>1. Begin(<<AsRequest("subscribe", Plus(corr, 1))>>) /\ use' = use
    BY <1>1 DEF SubscribeAgain
  <2>2. Past(corr) + 1 <= MaxCorrs
    BY <2>1 DEF Begin, Room
  <2> QED BY <1>0, <2>1, <2>2, OneRequest
<1>2. CASE Call
  <2>1. use' \in Use
    <3>1. use.calls \in Seq(Nat) /\ use.calls # <<>> /\ use' = [use EXCEPT !.calls = Tail(@)]
      BY <1>0, <1>2 DEF Call, Use
    <3>2. Tail(use.calls) \in Seq(Nat)
      BY <3>1, HeadTailProperties
    <3> QED BY <1>0, <3>1, <3>2 DEF Use
  <2>2. Head(use.calls) \in Nat
    BY <1>0, <1>2, HeadTailProperties DEF Call, Use
  <2>3. CASE Begin(<<AsRequest("subscribe", Plus(corr, 1))>>)
    <3>2. Past(corr) + 1 <= MaxCorrs
      BY <2>3 DEF Begin, Room
    <3> QED BY <2>1, <2>3, <3>2, OneRequest
  <2>4. CASE Head(use.calls) > 0 /\ Begin([i \in 1..Head(use.calls) |-> AsRequest("write", Plus(corr, i))])
    <3> DEFINE n == Head(use.calls)
               rs == [i \in 1..n |-> AsRequest("write", Plus(corr, i))]
    <3>1. n \in Nat \ {0} /\ Begin(rs)
      BY <2>2, <2>4
    <3>2. Len(rs) = n
      BY <3>1
    <3>3. Past(corr) + n <= MaxCorrs
      BY <3>1, <3>2 DEF Begin, Room
    <3>4. IsCall(rs)
      BY <3>1, <3>3, NewCall
    <3> QED BY <2>1, <3>1, <3>4
  <2> QED BY <1>2, <2>3, <2>4 DEF Call
<1> QED BY <1>1, <1>2

\* The probe does nothing.
LEMMA CalmType == ProbeType /\ UNCHANGED vars => ProbeType'
BY DEF ProbeType, TypeOK, vars, session, table, owned, world, history

LEMMA LineIs ==
  ASSUME HostType
  PROVE  /\ Line \in Seq(Sendable) /\ Len(Line) = Len(out) + Len(todo)
         /\ Waits = Range(out) \cup Range(todo) /\ Waits \subseteq Sendable
         /\ \A i \in 1..Len(out) : Line[i] = out[i]
         /\ \A i \in 1..Len(todo) : Line[Len(out) + i] = todo[i]
         /\ Line = <<>> <=> out = <<>> /\ todo = <<>>
<1>1. out \in Seq(Sendable) /\ todo \in Seq(Sendable)
  BY DEF HostType
<1>2. /\ Line \in Seq(Sendable) /\ Len(Line) = Len(out) + Len(todo)
      /\ Len(out) \in Nat /\ Len(todo) \in Nat
      /\ \A i \in 1..(Len(out) + Len(todo)) : Line[i] = IF i <= Len(out) THEN out[i] ELSE todo[i - Len(out)]
  BY <1>1, ConcatProperties, LenProperties DEF Line
<1>3. Waits = Range(out) \cup Range(todo)
  BY <1>1, RangeConcat DEF Waits, Line
<1>4. Waits \subseteq Sendable
  BY <1>2, RangeIs DEF Waits
<1>5. Line = <<>> <=> out = <<>> /\ todo = <<>>
  BY <1>1, ConcatEqualIffEmpty DEF Line
<1> QED BY <1>2, <1>3, <1>4, <1>5

\* As many go out as fit.
LEMMA FreeIs ==
  ASSUME HostType
  PROVE  Free \in Int /\ Free <= Len(todo) /\ Free + Len(out) <= MaxInflight
BY LinkAssumption, LenProperties DEF HostType, Free

\* The request that is waited for.
LEMMA AwaitedIs ==
  ASSUME HostType, pc = "exchange", Awaited # 0
  PROVE  /\ out # <<>> /\ Awaited = Head(out).corr /\ Head(out) \in Sendable
         /\ Line # <<>> /\ Head(out) = Line[1] /\ Head(out) \in Waits
<1>1. Free = 0 /\ Awaited = Head(out).corr
  BY DEF Awaited
<1>2. out \in Seq(Sendable) /\ todo \in Seq(Sendable) /\ Len(out) \in Nat /\ Len(todo) \in Nat
  BY LenProperties DEF HostType
<1>3. Len(todo) = 0 \/ MaxInflight - Len(out) = 0
  BY <1>1, <1>2, LinkAssumption DEF Free
<1>4. out # <<>>
  <2>1. ASSUME out = <<>> PROVE FALSE
    <3>1. Len(out) = 0 /\ todo # <<>>
      BY <2>1 DEF HostType
    <3>2. Len(todo) # 0
      BY <1>2, <3>1, EmptySeq
    <3> QED BY <1>2, <1>3, <3>1, <3>2, LinkAssumption
  <2> QED BY <2>1
<1>5. Head(out) = out[1] /\ 1 \in 1..Len(out) /\ out[1] \in Sendable
  BY <1>2, <1>4, EmptySeq, ElementOfSeq
<1>6. Line[1] = out[1] /\ Line # <<>>
  BY <1>4, <1>5, LineIs
<1>7. Head(out) \in Waits
  BY <1>2, <1>4, RangeTail, LineIs
<1> QED BY <1>1, <1>4, <1>5, <1>6, <1>7

\* A frame is read: no more comes than before.
LEMMA TakenBack ==
  ASSUME WireType, conn \in Route, NEW f, Comes(f), Taken
  PROVE  /\ toHost' \in [Route -> Seq(Answer \cup {Torn})]
         /\ \A t \in Route : Range(toHost[t])' \subseteq Range(toHost[t])
         /\ f \in Range(toHost[conn]) /\ f \in Answer \cup {Torn}
<1>1. toHost[conn] \in Seq(Answer \cup {Torn}) /\ toHost[conn] # <<>> /\ f = Head(toHost[conn])
  BY DEF WireType, Comes
<1>2. /\ Tail(toHost[conn]) \in Seq(Answer \cup {Torn}) /\ f \in Answer \cup {Torn}
      /\ Range(toHost[conn]) = {f} \cup Range(Tail(toHost[conn]))
  BY <1>1, RangeTail
<1>3. toHost' = [toHost EXCEPT ![conn] = Tail(@)]
  BY DEF Taken
<1>4. toHost' \in [Route -> Seq(Answer \cup {Torn})]
  BY <1>2, <1>3 DEF WireType
<1>5. ASSUME NEW t \in Route PROVE Range(toHost[t])' \subseteq Range(toHost[t])
  <2>1. toHost'[t] = IF t = conn THEN Tail(toHost[conn]) ELSE toHost[t]
    BY <1>3 DEF WireType
  <2> QED BY <1>2, <2>1
<1> QED BY <1>2, <1>4, <1>5

\* The host's requests and their results.
LEMMA TellAllType ==
  ASSUME LinkType, NEW rs \in Seq(Sendable), NEW what \in Res \cup {"unknown", "not_sent"}, TellAll(rs, what)
  PROVE  /\ told' \subseteq [corr : Corr, what : Res \cup {"unknown", "not_sent"}]
         /\ \A x \in told' : x \in told \/ \E r \in Range(rs) : r.op = "write" /\ x = [corr |-> r.corr, what |-> what]
<1>1. Range(rs) \subseteq Sendable
  BY RangeIs
<1>2. \A r \in Sendable : r.corr \in Corr
  BY CorrAssumption DEF Sendable, Requests, Corr
<1> QED BY <1>1, <1>2 DEF TellAll, LinkType, PastType

\* What one of the host's steps in a call may do, but for a request that takes a corr.
Told(x) ==
  \/ x \in told
  \/ \E r \in Waits :
       /\ r.op = "write" /\ x.corr = r.corr
       /\ \/ x.what = "unknown"
          \/ x.what = "not_sent" /\ pc = "confirm" /\ confirm.after = "call" /\ Line' = <<>>
          \/ \E a \in Back(conn) : a.req.corr = r.corr /\ a.res = x.what /\ r = Line[1] /\ Line' = Tail(Line)
HostMoves ==
  /\ UNCHANGED <<vars, order, corr, inbox, cut>>
  /\ Line' = Line \/ (Line # <<>> /\ Line' = Tail(Line)) \/ Line' = <<>>
  /\ \A t \in Route : Back(t)' \subseteq Back(t) /\ Way(t)' \subseteq Way(t) \cup Waits
  /\ pc # "exchange" => \A t \in Route : Way(t)' \subseteq Way(t)
  /\ pc' = "confirm" /\ confirm'.after = "call" =>
       /\ pc = "confirm" /\ confirm.after = "call" /\ out' = out /\ Line' = Line
       /\ \A t \in Route : Way(t)' \subseteq Way(t)
  /\ \A x \in told' : Told(x)

LEMMA BackLess ==
  ASSUME UNCHANGED answers, \A t \in Route : Range(toHost[t])' \subseteq Range(toHost[t])
  PROVE  \A t \in Route : Back(t)' \subseteq Back(t)
BY DEF Back

\* Nothing new is on its way.
LEMMA WaySame == UNCHANGED <<toProbe, inbox>> => \A t \in Route : Way(t)' = Way(t)
BY DEF Way, Queue

\* The call goes on with the same requests, or all of them are given up.
LEMMA MissedMoves ==
  ASSUME LinkType, pc # "idle", NEW b \in BOOLEAN, NEW fails, Missed(b, fails)
  PROVE  /\ todo' \in Seq(Sendable) /\ out' \in Seq(Sendable) /\ out' = <<>>
         /\ \/ pc' = "exchange" /\ Line' = Line /\ told' = told
            \/ pc' = "idle" /\ Line' = <<>>
         /\ pc' = "idle" <=> todo' = <<>> /\ out' = <<>>
         /\ told' \subseteq [corr : Corr, what : Res \cup {"unknown", "not_sent"}]
         /\ \A x \in told' : x \in told \/ \E r \in Waits : r.op = "write" /\ x.corr = r.corr /\ x.what = "unknown"
<1>1. Line \in Seq(Sendable) /\ Line # <<>> /\ Waits = Range(Line)
  BY LineIs DEF LinkType, HostType, Waits
<1>2. CASE GoAgain
  <2>1. todo' = Line /\ out' = <<>> /\ pc' = "exchange" /\ told' = told
    BY <1>2 DEF GoAgain, Line
  <2>2. Line' = Line
    BY <1>1, <2>1, ConcatEmptySeq DEF Line
  <2> QED BY <1>1, <2>1, <2>2 DEF LinkType, PastType
<1>3. CASE TransportFails(fails)
  <2>1. TellAll(Line, "unknown") /\ todo' = <<>> /\ out' = <<>> /\ pc' = "idle"
    BY <1>3 DEF TransportFails, Line
  <2>2. /\ told' \subseteq [corr : Corr, what : Res \cup {"unknown", "not_sent"}]
        /\ \A x \in told' : x \in told \/ \E r \in Waits : r.op = "write" /\ x = [corr |-> r.corr, what |-> "unknown"]
    BY <1>1, <2>1, TellAllType
  <2>3. Line' = <<>>
    BY <2>1 DEF Line
  <2> QED BY <2>1, <2>2, <2>3
<1> QED BY <1>2, <1>3 DEF Missed

\* What goes out leaves the line as it is.
LEMMA PutOutMoves ==
  ASSUME LinkType, PutOut
  PROVE  LinkType' /\ HostMoves /\ Line' = Line
         /\ toProbe'[conn] = toProbe[conn] \o SubSeq(todo, 1, Free)
         /\ \A t \in Route : t # conn => toProbe'[t] = toProbe[t]
<1>0. todo \in Seq(Sendable) /\ out \in Seq(Sendable) /\ Len(todo) \in Nat /\ Len(out) \in Nat
  BY LenProperties DEF LinkType, HostType
<1>1. Free \in 1..Len(todo) /\ Free + Len(out) <= MaxInflight /\ pc = "exchange"
  BY <1>0, FreeIs DEF LinkType, PutOut
<1> DEFINE go == SubSeq(todo, 1, Free)
           stay == SubSeq(todo, Free + 1, Len(todo))
<1>2. go \in Seq(Sendable) /\ Len(go) = Free /\ \A i \in 1..Free : go[i] = todo[i]
  <2>1. \A i \in 1..Free : todo[i] \in Sendable
    BY <1>0, <1>1, ElementOfSeq
  <2> QED BY <1>1, <2>1, SubSeqProperties
<1>3. stay \in Seq(Sendable)
  <2>1. \A i \in (Free + 1)..Len(todo) : todo[i] \in Sendable
    BY <1>0, <1>1, ElementOfSeq
  <2> QED BY <1>0, <1>1, <2>1, SubSeqProperties
<1>4. go \o stay = todo
  BY <1>0, <1>1, ConcatAdjacentSubSeq, SubSeqFull
<1>5. out' = out \o go /\ todo' = stay
  BY DEF PutOut
<1>10. toProbe' = [toProbe EXCEPT ![conn] = toProbe[conn] \o go]
  BY DEF PutOut
<1> HIDE DEF go, stay
<1>6. Line' = Line
  <2>1. Line' = out' \o todo'
    BY DEF Line
  <2>2. (out \o go) \o stay = out \o (go \o stay)
    <3>1. go \in Seq(Sendable) /\ stay \in Seq(Sendable) /\ out \in Seq(Sendable)
      BY <1>0, <1>2, <1>3
    <3>2. \A u, v, w \in Seq(Sendable) : (u \o v) \o w = u \o (v \o w)
      BY ConcatAssociative, SMTT(30)
    <3> QED BY <3>1, <3>2
  <2> QED BY <1>4, <1>5, <2>1, <2>2 DEF Line
<1>7. out' \in Seq(Sendable) /\ Len(out') = Len(out) + Free
  BY <1>0, <1>2, <1>5, ConcatProperties
<1>8. toProbe[conn] \in Seq(Sendable) /\ conn \in Route
  BY DEF LinkType, WireType, HostType
<1>9. toProbe[conn] \o go \in Seq(Sendable) /\ Range(toProbe[conn] \o go) = Range(toProbe[conn]) \cup Range(go)
  BY <1>2, <1>8, RangeConcat
<1>11. /\ toProbe'[conn] = toProbe[conn] \o go
       /\ \A t \in Route : t # conn => toProbe'[t] = toProbe[t]
       /\ toProbe' \in [Route -> Seq(Sendable)]
  BY <1>8, <1>9, <1>10 DEF LinkType, WireType
<1>12. Range(go) \subseteq Waits
  <2>1. \A x : x \in Range(go) => \E i \in 1..Len(go) : go[i] = x
    BY <1>2, RangeIs
  <2>2. \A i \in 1..Len(todo) : todo[i] \in Range(todo)
    BY <1>0, RangeIs
  <2> QED BY <1>1, <1>2, <2>1, <2>2, LineIs DEF LinkType
<1>13. \A t \in Route : Way(t)' \subseteq Way(t) \cup Waits
  <2>1. inbox' = inbox
    BY DEF PutOut
  <2> QED BY <1>9, <1>11, <1>12, <2>1 DEF Way, Queue
<1>14. todo' = <<>> /\ out' = <<>> => FALSE
  <2>1. Len(out') # 0
    BY <1>0, <1>1, <1>7
  <2> QED BY <2>1
<1>15. ProbeType'
  BY CalmType DEF LinkType, PutOut
<1>16. LinkType'
  <2>1. HostType'
    <3>1. Len(out') <= MaxInflight /\ todo' \in Seq(Sendable)
      BY <1>1, <1>3, <1>5, <1>7
    <3> QED BY <1>1, <1>7, <1>14, <3>1 DEF LinkType, HostType, PutOut, Past
  <2>2. WireType' /\ PastType'
    BY <1>11 DEF LinkType, WireType, PastType, PutOut, pastVars
  <2> QED BY <1>15, <2>1, <2>2 DEF LinkType
<1>17. \A t \in Route : Back(t)' \subseteq Back(t)
  BY DEF PutOut, Back, vars
<1>18. pc' = "exchange" /\ UNCHANGED <<vars, order, corr, inbox, cut, told>>
  BY <1>1 DEF PutOut, pastVars
<1>19. HostMoves
  BY <1>1, <1>6, <1>13, <1>17, <1>18 DEF HostMoves, Told
<1> QED BY <1>6, <1>11, <1>16, <1>19 DEF go

\* An answer that was waited for: the first of the line is done.
LEMMA ResultMoves ==
  ASSUME LinkType, NEW f, ResultComes(f)
  PROVE  LinkType' /\ HostMoves /\ Line # <<>> /\ Line' = Tail(Line) /\ out' = Tail(out)
<1>0. /\ todo \in Seq(Sendable) /\ out \in Seq(Sendable) /\ conn \in Route
      /\ pc = "exchange" /\ Awaited # 0 /\ Comes(f) /\ Taken /\ f # Torn /\ f.req.corr = Awaited
  BY DEF LinkType, HostType, ResultComes, Comes, Ours
<1>1. /\ out # <<>> /\ Awaited = Head(out).corr /\ Head(out) \in Sendable
      /\ Line # <<>> /\ Head(out) = Line[1] /\ Head(out) \in Waits
  BY <1>0, AwaitedIs DEF LinkType
<1>2. /\ toHost' \in [Route -> Seq(Answer \cup {Torn})]
      /\ \A t \in Route : Range(toHost[t])' \subseteq Range(toHost[t])
      /\ f \in Range(toHost[conn]) /\ f \in Answer
  BY <1>0, TakenBack DEF LinkType
<1>3. Tail(out) \in Seq(Sendable) /\ Len(Tail(out)) = Len(out) - 1 /\ Len(out) \in Nat \ {0}
  BY <1>0, <1>1, HeadTailProperties, EmptySeq
<1>4. Line' = Tail(Line)
  <2>1. out' = Tail(out) /\ todo' = todo
    BY DEF ResultComes
  <2>2. /\ Line \in Seq(Sendable) /\ Len(Line) = Len(out) + Len(todo) /\ Len(todo) \in Nat
        /\ \A i \in 1..(Len(out) + Len(todo)) : Line[i] = IF i <= Len(out) THEN out[i] ELSE todo[i - Len(out)]
    BY <1>0, ConcatProperties, LenProperties DEF Line
  <2>3. /\ Line' \in Seq(Sendable) /\ Len(Line') = Len(out) - 1 + Len(todo)
        /\ \A i \in 1..(Len(out) - 1 + Len(todo)) : Line'[i] = IF i <= Len(out) - 1 THEN Tail(out)[i] ELSE todo[i - (Len(out) - 1)]
    BY <1>0, <1>3, <2>1, ConcatProperties DEF Line
  <2>4. /\ Tail(Line) \in Seq(Sendable) /\ Len(Tail(Line)) = Len(Line) - 1
        /\ \A i \in 1..(Len(Line) - 1) : Tail(Line)[i] = Line[i + 1]
    BY <1>1, <2>2, HeadTailProperties
  <2>5. \A i \in 1..(Len(out) - 1) : Tail(out)[i] = out[i + 1]
    BY <1>0, <1>1, <1>3, HeadTailProperties
  <2>6. ASSUME NEW i \in 1..Len(Line') PROVE Line'[i] = Tail(Line)[i]
    BY <1>3, <2>2, <2>3, <2>4, <2>5
  <2> QED BY <1>3, <2>2, <2>3, <2>4, <2>6, SeqEqual
<1>5. f.res \in Res
  BY <1>2 DEF Answer
<1>6. /\ told' \subseteq [corr : Corr, what : Res \cup {"unknown", "not_sent"}]
      /\ \A x \in told' : x \in told \/ \E r \in Range(<<Head(out)>>) : r.op = "write" /\ x = [corr |-> r.corr, what |-> f.res]
  <2>1. <<Head(out)>> \in Seq(Sendable) /\ TellAll(<<Head(out)>>, f.res)
    BY <1>1 DEF ResultComes
  <2> QED BY <1>5, <2>1, TellAllType
<1>7. Range(<<Head(out)>>) = {Head(out)}
  BY DEF Range
<1>8. f \in Back(conn)
  BY <1>0, <1>2 DEF Back
<1>9. \A x \in told' : Told(x)
  BY <1>0, <1>1, <1>4, <1>6, <1>7, <1>8 DEF Told
<1>10. ProbeType'
  BY CalmType DEF LinkType, ResultComes
<1>11. pc' = "idle" <=> todo' = <<>> /\ out' = <<>>
  <2>1. Tail(out) = <<>> <=> Len(out) = 1
    <3> DEFINE u == Tail(out)
    <3>1. u \in Seq(Sendable) /\ Len(u) = Len(out) - 1
      BY <1>3
    <3> HIDE DEF u
    <3>2. u = <<>> <=> Len(u) = 0
      BY <3>1, EmptyIsZero
    <3>3. u = <<>> <=> Len(out) = 1
      BY <1>3, <3>1, <3>2
    <3> QED BY <3>3 DEF u
  <2> QED BY <1>0, <2>1 DEF ResultComes
<1>12. LinkType'
  <2>1. HostType'
    <3>1. /\ pc' \in {"idle", "exchange", "confirm"} /\ Len(out') <= MaxInflight
          /\ out' \in Seq(Sendable) /\ todo' = todo
      BY <1>0, <1>3, LinkAssumption DEF LinkType, HostType, ResultComes
    <3> QED BY <1>11, <3>1 DEF LinkType, HostType, ResultComes, Past
  <2>2. WireType' /\ PastType'
    BY <1>2, <1>6 DEF LinkType, WireType, PastType, ResultComes
  <2> QED BY <1>10, <2>1, <2>2 DEF LinkType
<1>13. \A t \in Route : Back(t)' \subseteq Back(t)
  BY <1>2, BackLess DEF ResultComes, vars
<1>14. \A t \in Route : Way(t)' = Way(t)
  BY WaySame DEF ResultComes
<1> QED BY <1>0, <1>1, <1>4, <1>9, <1>12, <1>13, <1>14 DEF HostMoves, ResultComes

\* The host reads on, and knows nothing more.
LEMMA ReadPastMoves ==
  ASSUME LinkType, NEW f, ReadPast(f)
  PROVE  LinkType' /\ HostMoves /\ UNCHANGED <<hostVars, toProbe, inbox, garbled, told>>
<1>0. UNCHANGED <<vars, use, hostVars, toProbe, garbled, inbox, pastVars>> /\ conn \in Route
  BY DEF ReadPast, LinkType, HostType
<1>1. /\ toHost' \in [Route -> Seq(Answer \cup {Torn})]
      /\ \A t \in Route : Range(toHost[t])' \subseteq Range(toHost[t])
  BY <1>0, TakenBack DEF LinkType, ReadPast
<1>2. ProbeType'
  BY <1>0, CalmType DEF LinkType
<1>3. HostType'
  BY <1>0 DEF LinkType, HostType, hostVars, Past
<1>4. WireType' /\ PastType'
  BY <1>0, <1>1 DEF LinkType, WireType, PastType, pastVars
<1>5. \A t \in Route : Back(t)' \subseteq Back(t)
  BY <1>0, <1>1, BackLess DEF vars
<1>6. \A t \in Route : Way(t)' = Way(t)
  BY <1>0, WaySame
<1>7. Line' = Line
  BY <1>0 DEF Line, hostVars
<1>8. HostMoves
  BY <1>0, <1>5, <1>6, <1>7 DEF HostMoves, Told, hostVars, pastVars
<1> QED BY <1>0, <1>2, <1>3, <1>4, <1>8 DEF LinkType, pastVars

\* What a step of a call under way leaves as it is, and what it says.
LEMMA UnderWayMoves ==
  ASSUME LinkType, pc # "idle",
         UNCHANGED <<vars, corr, toProbe, inbox, order, cut>>,
         use' \in Use, conn' \in Route,
         toHost' \in [Route -> Seq(Answer \cup {Torn})],
         \A t \in Route : Range(toHost[t])' \subseteq Range(toHost[t]),
         todo' \in Seq(Sendable), out' \in Seq(Sendable), Len(out') <= MaxInflight,
         pc' = "idle" <=> todo' = <<>> /\ out' = <<>>,
         pc' \in {"idle", "exchange", "confirm"},
         confirm' \in Confirms,
         pc' = "confirm" => confirm'.after # "none",
         pc' = "confirm" /\ confirm'.after = "call" => UNCHANGED <<pc, todo, out>> /\ confirm.after = "call",
         Line' = Line \/ Line' = <<>>,
         told' \subseteq [corr : Corr, what : Res \cup {"unknown", "not_sent"}],
         \A x \in told' : x \in told \/ \E r \in Waits :
            r.op = "write" /\ x.corr = r.corr
              /\ (x.what = "unknown" \/ (x.what = "not_sent" /\ pc = "confirm" /\ confirm.after = "call" /\ Line' = <<>>))
  PROVE  LinkType' /\ HostMoves
<1>1. ProbeType'
  BY CalmType DEF LinkType
<1>2. HostType'
  BY DEF LinkType, HostType, Past
<1>3. WireType' /\ PastType'
  BY DEF LinkType, WireType, PastType
<1>4. \A t \in Route : Back(t)' \subseteq Back(t)
  BY BackLess DEF vars
<1>5. \A t \in Route : Way(t)' = Way(t)
  BY WaySame
<1>6. \A x \in told' : Told(x)
  BY DEF Told
<1>7. pc' = "confirm" /\ confirm'.after = "call" => Line' = Line
  BY DEF Line
<1> QED BY <1>1, <1>2, <1>3, <1>4, <1>5, <1>6, <1>7 DEF LinkType, HostMoves

LEMMA ToHostSame == UNCHANGED toHost => \A t \in Route : Range(toHost[t])' \subseteq Range(toHost[t])
OBVIOUS

\* What the resync waits for is a request of the call.
LEMMA ReopenConn == ASSUME Reopen PROVE conn' \in Route
BY DEF Reopen

LEMMA WaitedUse == ASSUME use \in Use, Waited PROVE use' \in Use
BY DEF Waited, Use

LEMMA BrokenMoves ==
  ASSUME LinkType, BrokenComes
  PROVE  /\ LinkType' /\ HostMoves /\ UNCHANGED <<toProbe, inbox>>
         /\ pc' = "exchange" => out' = <<>>
         /\ \A x \in told' : x \in told \/ x.what = "unknown"
<1>0. /\ pc = "exchange" /\ conn \in Route /\ use' = use /\ use \in Use
      /\ UNCHANGED <<vars, corr, toProbe, inbox, order, cut>>
  BY DEF BrokenComes, LinkType, HostType
<1>1. /\ toHost' \in [Route -> Seq(Answer \cup {Torn})]
      /\ \A t \in Route : Range(toHost[t])' \subseteq Range(toHost[t])
  BY <1>0, TakenBack DEF LinkType, BrokenComes
<1>2. CASE KeepsGoing(TRUE)
  <2>1. Missed(TRUE, TRUE) /\ UNCHANGED <<conn, confirm>>
    BY <1>2 DEF KeepsGoing
  <2>2. /\ todo' \in Seq(Sendable) /\ out' \in Seq(Sendable) /\ out' = <<>>
        /\ \/ pc' = "exchange" /\ Line' = Line /\ told' = told
           \/ pc' = "idle" /\ Line' = <<>>
        /\ pc' = "idle" <=> todo' = <<>> /\ out' = <<>>
        /\ told' \subseteq [corr : Corr, what : Res \cup {"unknown", "not_sent"}]
        /\ \A x \in told' : x \in told \/ \E r \in Waits : r.op = "write" /\ x.corr = r.corr /\ x.what = "unknown"
    BY <1>0, <2>1, MissedMoves
  <2>3. Len(out') <= MaxInflight
    BY <2>2, LinkAssumption
  <2>4. confirm' = confirm /\ confirm \in Confirms
    BY <2>1 DEF LinkType, HostType
  <2>5. LinkType' /\ HostMoves
    BY <1>0, <1>1, <2>1, <2>2, <2>3, <2>4, UnderWayMoves
  <2> QED BY <1>0, <2>2, <2>5
<1>3. CASE Resyncs(TRUE)
  <2>1. /\ conn' \in Route /\ pc' = "confirm" /\ confirm'.after = "rest" /\ confirm' \in Confirms
        /\ UNCHANGED <<todo, out, told>>
    BY <1>0, <1>3, ReopenConn DEF Resyncs, NoConfirm, Confirms
  <2>2. Line' = Line
    BY <2>1 DEF Line
  <2>3. /\ todo' \in Seq(Sendable) /\ out' \in Seq(Sendable) /\ Len(out') <= MaxInflight
        /\ ~(todo' = <<>> /\ out' = <<>>)
        /\ told' \subseteq [corr : Corr, what : Res \cup {"unknown", "not_sent"}]
    BY <1>0, <2>1 DEF LinkType, HostType, PastType
  <2>4. LinkType' /\ HostMoves
    BY <1>0, <1>1, <2>1, <2>2, <2>3, UnderWayMoves
  <2> QED BY <1>0, <2>1, <2>4
<1> QED BY <1>2, <1>3 DEF BrokenComes

LEMMA NothingMoves ==
  ASSUME LinkType, NothingComes
  PROVE  /\ LinkType' /\ HostMoves /\ UNCHANGED <<toProbe, inbox>>
         /\ pc' = "exchange" => out' = <<>>
         /\ \A x \in told' : x \in told \/ x.what = "unknown"
<1>0. /\ pc = "exchange" /\ conn \in Route /\ use' \in Use
      /\ UNCHANGED <<vars, corr, toProbe, toHost, inbox, order, cut>>
  BY WaitedUse DEF NothingComes, LinkType, HostType
<1>1. /\ toHost' \in [Route -> Seq(Answer \cup {Torn})]
      /\ \A t \in Route : Range(toHost[t])' \subseteq Range(toHost[t])
  BY <1>0, ToHostSame DEF LinkType, WireType
<1>2. CASE KeepsGoing(FALSE)
  <2>1. Missed(FALSE, TRUE) /\ UNCHANGED <<conn, confirm>>
    BY <1>2 DEF KeepsGoing
  <2>2. /\ todo' \in Seq(Sendable) /\ out' \in Seq(Sendable) /\ out' = <<>>
        /\ \/ pc' = "exchange" /\ Line' = Line /\ told' = told
           \/ pc' = "idle" /\ Line' = <<>>
        /\ pc' = "idle" <=> todo' = <<>> /\ out' = <<>>
        /\ told' \subseteq [corr : Corr, what : Res \cup {"unknown", "not_sent"}]
        /\ \A x \in told' : x \in told \/ \E r \in Waits : r.op = "write" /\ x.corr = r.corr /\ x.what = "unknown"
    BY <1>0, <2>1, MissedMoves
  <2>3. Len(out') <= MaxInflight
    BY <2>2, LinkAssumption
  <2>4. confirm' = confirm /\ confirm \in Confirms
    BY <2>1 DEF LinkType, HostType
  <2>5. LinkType' /\ HostMoves
    BY <1>0, <1>1, <2>1, <2>2, <2>3, <2>4, UnderWayMoves
  <2> QED BY <1>0, <2>2, <2>5
<1>3. CASE Resyncs(FALSE)
  <2>1. /\ conn' \in Route /\ pc' = "confirm" /\ confirm'.after = "rest" /\ confirm' \in Confirms
        /\ UNCHANGED <<todo, out, told>>
    BY <1>0, <1>3 DEF Resyncs, NoConfirm, Confirms
  <2>2. Line' = Line
    BY <2>1 DEF Line
  <2>3. /\ todo' \in Seq(Sendable) /\ out' \in Seq(Sendable) /\ Len(out') <= MaxInflight
        /\ ~(todo' = <<>> /\ out' = <<>>)
        /\ told' \subseteq [corr : Corr, what : Res \cup {"unknown", "not_sent"}]
    BY <1>0, <2>1 DEF LinkType, HostType, PastType
  <2>4. LinkType' /\ HostMoves
    BY <1>0, <1>1, <2>1, <2>2, <2>3, UnderWayMoves
  <2> QED BY <1>0, <2>1, <2>4
<1> QED BY <1>2, <1>3 DEF NothingComes

LEMMA AnsweredMoves ==
  ASSUME LinkType, NEW f, ConfirmAnswered(f), confirm.after = "call" => out = <<>>
  PROVE  /\ LinkType' /\ HostMoves /\ UNCHANGED <<toProbe, inbox>>
         /\ pc' = "exchange" => out' = <<>>
         /\ \A x \in told' : x \in told \/ x.what = "unknown"
<1>0. /\ pc = "confirm" /\ conn \in Route /\ use \in Use /\ use' = use /\ conn' = conn
      /\ confirm'.after = "none" /\ confirm' \in Confirms /\ confirm.after \in {"none", "call", "rest"}
      /\ UNCHANGED <<vars, corr, toProbe, inbox, order, cut>>
  BY DEF ConfirmAnswered, LinkType, HostType, NoConfirm, Confirms
<1>1. /\ toHost' \in [Route -> Seq(Answer \cup {Torn})]
      /\ \A t \in Route : Range(toHost[t])' \subseteq Range(toHost[t])
  BY <1>0, TakenBack DEF LinkType, ConfirmAnswered
<1>2. CASE confirm.after = "call" /\ pc' = "exchange" /\ UNCHANGED <<todo, out, again, told>>
  <2>1. Line' = Line
    BY <1>2 DEF Line
  <2>2. /\ todo' \in Seq(Sendable) /\ out' \in Seq(Sendable) /\ Len(out') <= MaxInflight
        /\ ~(todo' = <<>> /\ out' = <<>>)
        /\ told' \subseteq [corr : Corr, what : Res \cup {"unknown", "not_sent"}]
    BY <1>0, <1>2 DEF LinkType, HostType, PastType
  <2>3. LinkType' /\ HostMoves
    BY <1>0, <1>1, <1>2, <2>1, <2>2, UnderWayMoves
  <2> QED BY <1>0, <1>2, <2>3
<1>3. CASE confirm.after = "rest" /\ Missed(FALSE, failed)
  <2>2. /\ todo' \in Seq(Sendable) /\ out' \in Seq(Sendable) /\ out' = <<>>
        /\ \/ pc' = "exchange" /\ Line' = Line /\ told' = told
           \/ pc' = "idle" /\ Line' = <<>>
        /\ pc' = "idle" <=> todo' = <<>> /\ out' = <<>>
        /\ told' \subseteq [corr : Corr, what : Res \cup {"unknown", "not_sent"}]
        /\ \A x \in told' : x \in told \/ \E r \in Waits : r.op = "write" /\ x.corr = r.corr /\ x.what = "unknown"
    BY <1>0, <1>3, MissedMoves
  <2>3. Len(out') <= MaxInflight
    BY <2>2, LinkAssumption
  <2>5. LinkType' /\ HostMoves
    BY <1>0, <1>1, <2>2, <2>3, UnderWayMoves
  <2> QED BY <1>0, <2>2, <2>5
<1> QED BY <1>2, <1>3 DEF ConfirmAnswered

LEMMA ConfirmMissedMoves ==
  ASSUME LinkType, ConfirmMissed
  PROVE  /\ LinkType' /\ HostMoves /\ UNCHANGED <<pc, todo, out, toProbe, inbox, told>>
         /\ confirm'.after = confirm.after
<1>0. /\ pc = "confirm" /\ conn \in Route /\ conn' = conn /\ use \in Use
      /\ confirm' = [confirm EXCEPT !.sought = 0]
      /\ confirm \in Confirms /\ confirm.after # "none"
      /\ UNCHANGED <<vars, corr, toProbe, inbox, order, cut, pc, todo, out, told>>
  BY DEF ConfirmMissed, LinkType, HostType
<1>1. /\ toHost' \in [Route -> Seq(Answer \cup {Torn})]
      /\ \A t \in Route : Range(toHost[t])' \subseteq Range(toHost[t])
      /\ use' \in Use
  <2>1. CASE Waited /\ UNCHANGED toHost
    BY <1>0, <2>1, WaitedUse, ToHostSame DEF LinkType, WireType
  <2>2. CASE Comes(Torn) /\ Taken /\ UNCHANGED <<use, hits>>
    BY <1>0, <2>2, TakenBack DEF LinkType
  <2> QED BY <2>1, <2>2 DEF ConfirmMissed
<1>2. confirm' \in Confirms /\ confirm'.after = confirm.after
  BY <1>0 DEF Confirms
<1>3. Line' = Line
  BY <1>0 DEF Line
<1>4. /\ todo' \in Seq(Sendable) /\ out' \in Seq(Sendable) /\ Len(out') <= MaxInflight
      /\ ~(todo' = <<>> /\ out' = <<>>)
      /\ told' \subseteq [corr : Corr, what : Res \cup {"unknown", "not_sent"}]
  BY <1>0 DEF LinkType, HostType, PastType
<1>5. LinkType' /\ HostMoves
  BY <1>0, <1>1, <1>2, <1>3, <1>4, UnderWayMoves
<1> QED BY <1>0, <1>2, <1>5

LEMMA NoneMoves ==
  ASSUME LinkType, NoneConfirmed
  PROVE  /\ LinkType' /\ HostMoves /\ pc' = "idle" /\ UNCHANGED <<toProbe, inbox>>
         /\ \A x \in told' : x \in told \/ x.what \in {"unknown", "not_sent"}
<1>0. /\ pc = "confirm" /\ conn \in Route /\ conn' = conn /\ use \in Use /\ use' = use
      /\ pc' = "idle" /\ todo' = <<>> /\ out' = <<>>
      /\ confirm'.after = "none" /\ confirm' \in Confirms
      /\ UNCHANGED <<vars, corr, toProbe, toHost, inbox, order, cut>>
  BY DEF NoneConfirmed, LinkType, HostType, wireVars, NoConfirm, Confirms
<1> DEFINE what == IF confirm.after = "call" THEN "not_sent" ELSE "unknown"
<1>1. TellAll(Line, what) /\ Line \in Seq(Sendable) /\ Range(Line) = Waits
  BY LineIs DEF NoneConfirmed, Line, LinkType, Waits
<1>2. /\ told' \subseteq [corr : Corr, what : Res \cup {"unknown", "not_sent"}]
      /\ \A x \in told' : x \in told \/ \E r \in Waits : r.op = "write" /\ x = [corr |-> r.corr, what |-> what]
  BY <1>1, TellAllType
<1>3. Line' = <<>>
  BY <1>0 DEF Line
<1>4. /\ todo' \in Seq(Sendable) /\ out' \in Seq(Sendable) /\ Len(out') <= MaxInflight
  BY <1>0, LinkAssumption
<1>5. /\ toHost' \in [Route -> Seq(Answer \cup {Torn})]
      /\ \A t \in Route : Range(toHost[t])' \subseteq Range(toHost[t])
  BY <1>0, ToHostSame DEF LinkType, WireType
<1>6. LinkType' /\ HostMoves
  BY <1>0, <1>2, <1>3, <1>4, <1>5, UnderWayMoves, SMTT(30)
<1> QED BY <1>0, <1>2, <1>6

\* A call takes the next corrs; nothing of it is on its way yet.
LEMMA BeginMoves ==
  ASSUME LinkType, use' \in Use, NEW requests, IsCall(requests), Begin(requests)
  PROVE  /\ LinkType' /\ UNCHANGED <<vars, toProbe, toHost, inbox, pastVars>>
         /\ pc = "idle" /\ out' = <<>> /\ Line' = requests /\ Waits' = Range(requests)
         /\ Past(corr') = Past(corr) + Len(requests)
<1>0. /\ requests \in Seq(Sendable) /\ requests # <<>> /\ Past(corr) + Len(requests) <= MaxCorrs
      /\ \A i \in 1..Len(requests) : OfSession(requests[i]) /\ Past(requests[i].corr) = Past(corr) + i
  BY DEF IsCall
<1>1. /\ pc = "idle" /\ out = <<>> /\ UNCHANGED <<vars, out, toProbe, toHost, inbox, pastVars>>
      /\ todo' = requests /\ corr' = Last(requests).corr
  BY DEF Begin, LinkType, HostType
<1>2. Len(requests) \in 1..Len(requests) /\ requests[Len(requests)] \in Sendable
  BY <1>0, EmptySeq, ElementOfSeq
<1>3. corr' \in Corr /\ Past(corr') = Past(corr) + Len(requests)
  <2>1. corr' = requests[Len(requests)].corr
    BY <1>1 DEF Last
  <2> QED BY <1>0, <1>2, <2>1, CorrAssumption DEF Sendable, Requests, Corr
<1>4. /\ conn' \in Route /\ confirm' \in Confirms /\ pc' \in {"exchange", "confirm"}
      /\ pc' = "confirm" => confirm'.after # "none"
  <2>1. CASE ~failed /\ pc' = "exchange" /\ UNCHANGED <<conn, confirm>>
    BY <2>1 DEF LinkType, HostType
  <2>2. CASE pc' = "confirm" /\ confirm' = [NoConfirm EXCEPT !.after = "call"] /\ (Reopen \/ UNCHANGED conn)
    BY <2>2, ReopenConn DEF LinkType, HostType, NoConfirm, Confirms
  <2> QED BY <2>1, <2>2 DEF Begin
<1>5. out' = <<>> /\ out' \in Seq(Sendable) /\ Len(out') <= MaxInflight
  BY <1>1, LinkAssumption
<1>6. HostType'
  BY <1>0, <1>1, <1>3, <1>4, <1>5 DEF LinkType, HostType, Past
<1>7. ProbeType'
  BY <1>1, CalmType DEF LinkType
<1>8. WireType' /\ PastType'
  BY <1>1 DEF LinkType, WireType, PastType, pastVars
<1>9. Line' = requests
  BY <1>0, <1>1, <1>5, ConcatEmptySeq DEF Line
<1> QED BY <1>1, <1>3, <1>5, <1>6, <1>7, <1>8, <1>9 DEF LinkType, Waits

\* A confirm takes the next corr, alone on the connection.
LEMMA SendConfirmMoves ==
  ASSUME LinkType, SendConfirm
  PROVE  /\ LinkType' /\ UNCHANGED <<vars, pc, todo, out, inbox, pastVars>> /\ confirm'.after = confirm.after
         /\ pc = "confirm" /\ garbled' = FALSE /\ Past(corr') = Past(corr) + 1
         /\ \E q \in Sendable : /\ ~OfSession(q) /\ q.op = "confirm" /\ q.corr = corr'
                                /\ toProbe[conn] = <<>> /\ toProbe'[conn] = <<q>> /\ conn' = conn
         /\ \A t \in Route : t # conn => toProbe'[t] = toProbe[t]
         /\ \A t \in Route : Range(toHost[t])' \subseteq Range(toHost[t])
<1> DEFINE c == Plus(corr, 1)
           q == [sid |-> NoSid, corr |-> c, op |-> "confirm", arg |-> 0]
<1>0. /\ pc = "confirm" /\ toProbe[conn] = <<>> /\ Past(corr) + 1 <= MaxCorrs
      /\ toProbe' = [toProbe EXCEPT ![conn] = <<q>>]
      /\ corr' = c /\ confirm' = [confirm EXCEPT !.tries = @ + 1, !.sought = c]
      /\ garbled' = FALSE /\ toHost' = [toHost EXCEPT ![conn] = <<>>]
      /\ UNCHANGED <<vars, use, pc, conn, failed, pushes, todo, out, again, inbox, pastVars>>
  BY DEF SendConfirm, Room
<1>1. corr \in Corr /\ conn \in Route /\ confirm \in Confirms
  BY DEF LinkType, HostType
<1>2. c \in Corr /\ Past(c) = Past(corr) + 1
  BY <1>0, <1>1, PastPlus
<1>3. q \in Sendable /\ ~OfSession(q)
  <2>1. c \in 0..CorrMax /\ c # 0 /\ NoSid # Holder
    BY <1>2, CorrAssumption, LinkAssumption, ProbeAssumption DEF Corr
  <2> QED BY <2>1 DEF Sendable, Requests, Op, LockFree, OfSession
<1> HIDE DEF c, q
<1>4. /\ toProbe' \in [Route -> Seq(Sendable)] /\ toProbe'[conn] = <<q>>
      /\ \A t \in Route : t # conn => toProbe'[t] = toProbe[t]
  BY <1>0, <1>1, <1>3 DEF LinkType, WireType
<1>5. /\ toHost' \in [Route -> Seq(Answer \cup {Torn})]
      /\ \A t \in Route : Range(toHost[t])' \subseteq Range(toHost[t])
  <2>1. \A t \in Route : toHost'[t] = IF t = conn THEN <<>> ELSE toHost[t]
    BY <1>0, <1>1 DEF LinkType, WireType
  <2>2. toHost' \in [Route -> Seq(Answer \cup {Torn})]
    BY <1>0, <1>1 DEF LinkType, WireType
  <2>3. ASSUME NEW t \in Route PROVE Range(toHost'[t]) \subseteq Range(toHost[t])
    BY <2>1, RangeEmpty
  <2> QED BY <2>2, <2>3
<1>6. confirm' \in Confirms /\ confirm'.after = confirm.after
  <2>1. c \in Nat
    BY <1>2 DEF Corr
  <2>2. confirm' = [after |-> confirm.after, tries |-> confirm.tries + 1, sought |-> c]
    BY <1>0, <1>1 DEF Confirms
  <2>3. confirm.tries + 1 \in Nat /\ confirm.after \in {"none", "call", "rest"}
    BY <1>1 DEF Confirms
  <2> QED BY <2>1, <2>2, <2>3 DEF Confirms
<1>7. HostType'
  BY <1>0, <1>2, <1>6 DEF LinkType, HostType, Past
<1>8. ProbeType'
  BY <1>0, CalmType DEF LinkType
<1>9. WireType' /\ PastType'
  BY <1>0, <1>4, <1>5 DEF LinkType, WireType, PastType, pastVars
<1>10. q.corr = corr' /\ q.op = "confirm"
  BY <1>0 DEF q, c
<1> QED BY <1>0, <1>2, <1>3, <1>4, <1>5, <1>6, <1>7, <1>8, <1>9, <1>10 DEF LinkType

-------------------------------------------------------------------------------
(* The types: the line and the probe. *)

\* What the line, and a probe that handles nothing, may do.
WireMoves ==
  /\ UNCHANGED <<hostVars, order, told, resend, newest>> /\ (cut => cut')
  /\ \A t \in Route : Way(t)' \subseteq Way(t) /\ Back(t)' \subseteq Back(t)

LEMMA FaultUse == ASSUME use \in Use, Fault PROVE use' \in Use
BY SMTT(30) DEF Fault, Use

LEMMA WireHost == HostType /\ use' \in Use /\ UNCHANGED hostVars => HostType'
BY DEF HostType, hostVars, Past

LEMMA LoseRequestMoves ==
  ASSUME LinkType, LoseRequest
  PROVE  LinkType' /\ WireMoves /\ cut'
<1>0. /\ conn \in Route /\ toProbe[conn] # <<>> /\ toProbe' = [toProbe EXCEPT ![conn] = Tail(@)] /\ cut' = TRUE
      /\ UNCHANGED <<vars, hostVars, toHost, inbox, order, told, doubt>> /\ use' \in Use
  BY FaultUse DEF LoseRequest, LinkType, HostType
<1>1. toProbe[conn] \in Seq(Sendable)
  BY <1>0 DEF LinkType, WireType
<1>2. Tail(toProbe[conn]) \in Seq(Sendable) /\ Range(Tail(toProbe[conn])) \subseteq Range(toProbe[conn])
  BY <1>0, <1>1, RangeTail
<1>3. toProbe' \in [Route -> Seq(Sendable)]
  BY <1>0, <1>2 DEF LinkType, WireType
<1>4. \A t \in Route : toProbe'[t] = IF t = conn THEN Tail(toProbe[conn]) ELSE toProbe[t]
  BY <1>0 DEF LinkType, WireType
<1>5. \A t \in Route : Way(t)' \subseteq Way(t) /\ Back(t)' \subseteq Back(t)
  <2>1. answers' = answers
    BY <1>0 DEF vars
  <2> QED BY <1>0, <1>2, <1>4, <2>1 DEF Way, Queue, Back
<1>6. LinkType'
  BY <1>0, <1>3, CalmType, WireHost DEF LinkType, WireType, PastType
<1> QED BY <1>0, <1>5, <1>6 DEF WireMoves, vars, table

LEMMA LoseAnswerMoves ==
  ASSUME LinkType, LoseAnswer
  PROVE  LinkType' /\ WireMoves /\ UNCHANGED <<toProbe, inbox, garbled, cut>>
<1>0. /\ conn \in Route /\ toHost[conn] # <<>>
      /\ UNCHANGED <<vars, hostVars, toProbe, garbled, inbox, order, told, cut, doubt>> /\ use' \in Use
  BY FaultUse DEF LoseAnswer, LinkType, HostType
<1>1. toHost[conn] \in Seq(Answer \cup {Torn})
  BY <1>0 DEF LinkType, WireType
<1>2. \E s \in Seq(Answer \cup {Torn}) :
        toHost' = [toHost EXCEPT ![conn] = s] /\ Range(s) \subseteq Range(toHost[conn]) \cup {Torn}
  <2>1. CASE toHost' = [toHost EXCEPT ![conn][1] = Torn]
    <3> DEFINE s == [toHost[conn] EXCEPT ![1] = Torn]
    <3>1. 1 \in 1..Len(toHost[conn])
      BY <1>0, <1>1, EmptySeq
    <3>2. /\ s \in Seq(Answer \cup {Torn}) /\ Len(s) = Len(toHost[conn])
          /\ \A j \in 1..Len(toHost[conn]) : s[j] = IF j = 1 THEN Torn ELSE toHost[conn][j]
      BY <1>1, <3>1, ExceptSeq
    <3>3. toHost' = [toHost EXCEPT ![conn] = s]
      BY <2>1
    <3> HIDE DEF s
    <3>4. \A x : x \in Range(s) <=> \E i \in 1..Len(s) : s[i] = x
      BY <3>2, RangeIs
    <3>5. \A x : x \in Range(toHost[conn]) <=> \E i \in 1..Len(toHost[conn]) : toHost[conn][i] = x
      BY <1>1, RangeIs
    <3>6. Range(s) \subseteq Range(toHost[conn]) \cup {Torn}
      BY <3>2, <3>4, <3>5
    <3> QED BY <3>2, <3>3, <3>6
  <2>2. CASE Taken
    <3>1. Tail(toHost[conn]) \in Seq(Answer \cup {Torn}) /\ Range(Tail(toHost[conn])) \subseteq Range(toHost[conn])
      BY <1>0, <1>1, RangeTail
    <3> QED BY <2>2, <3>1 DEF Taken
  <2> QED BY <2>1, <2>2 DEF LoseAnswer
<1>3. PICK s \in Seq(Answer \cup {Torn}) :
        toHost' = [toHost EXCEPT ![conn] = s] /\ Range(s) \subseteq Range(toHost[conn]) \cup {Torn}
  BY <1>2
<1>4. /\ toHost' \in [Route -> Seq(Answer \cup {Torn})]
      /\ \A t \in Route : toHost'[t] = IF t = conn THEN s ELSE toHost[t]
  BY <1>0, <1>3 DEF LinkType, WireType
<1>5. \A t \in Route : Way(t)' \subseteq Way(t) /\ Back(t)' \subseteq Back(t)
  <2>1. answers' = answers
    BY <1>0 DEF vars
  <2>2. \A t \in Route : Range(toHost'[t]) \subseteq Range(toHost[t]) \cup {Torn}
    BY <1>3, <1>4
  <2> QED BY <1>0, <2>1, <2>2 DEF Way, Queue, Back
<1>6. LinkType'
  BY <1>0, <1>4, CalmType, WireHost DEF LinkType, WireType, PastType
<1> QED BY <1>0, <1>5, <1>6 DEF WireMoves, vars, table

\* A request arrives: it is queued, or dropped.
LEMMA ReceiveMoves ==
  ASSUME LinkType, NEW c \in Route, Receive(c)
  PROVE  /\ LinkType' /\ WireMoves /\ UNCHANGED <<answers, toHost, garbled, cut>>
         /\ toProbe[c] # <<>> /\ toProbe'[c] = Tail(toProbe[c])
         /\ \A t \in Route : t # c => toProbe'[t] = toProbe[t] /\ inbox'[t] = inbox[t]
         /\ LET r == Head(toProbe[c])
            IN \/ inbox'[c] = inbox[c] /\ ((garbled /\ c = conn) \/ r \in Queue(c))
               \/ inbox'[c] = Append(inbox[c], [req |-> r, done |-> FALSE])
<1> DEFINE r == Head(toProbe[c])
           x == [req |-> r, done |-> FALSE]
<1>0. /\ toProbe[c] # <<>> /\ toProbe' = [toProbe EXCEPT ![c] = Tail(@)]
      /\ UNCHANGED <<vars, use, hostVars, toHost, garbled, pastVars>>
      /\ \/ inbox' = inbox /\ ((garbled /\ c = conn) \/ Queued(c, r))
         \/ inbox' = [inbox EXCEPT ![c] = Append(@, x)]
  BY DEF Receive
<1>1. toProbe[c] \in Seq(Sendable) /\ inbox[c] \in Seq([req : Sendable, done : BOOLEAN])
  BY DEF LinkType, WireType
<1>2. /\ Tail(toProbe[c]) \in Seq(Sendable) /\ r \in Sendable
      /\ Range(toProbe[c]) = {r} \cup Range(Tail(toProbe[c]))
  BY <1>0, <1>1, RangeTail
<1>3. /\ toProbe' \in [Route -> Seq(Sendable)]
      /\ \A t \in Route : toProbe'[t] = IF t = c THEN Tail(toProbe[c]) ELSE toProbe[t]
  BY <1>0, <1>2 DEF LinkType, WireType
<1>4. x \in [req : Sendable, done : BOOLEAN] /\ x.req = r
  BY <1>2
<1>5. Queued(c, r) => r \in Queue(c)
  <2>1. \A i \in 1..Len(inbox[c]) : inbox[c][i] \in Range(inbox[c])
    BY <1>1, RangeIs
  <2> QED BY <2>1 DEF Queued, Queue
<1> HIDE DEF x, r
<1>6. Append(inbox[c], x) \in Seq([req : Sendable, done : BOOLEAN]) /\ Range(Append(inbox[c], x)) = Range(inbox[c]) \cup {x}
  <2> DEFINE S == [req : Sendable, done : BOOLEAN]
             s == inbox[c]
  <2>1. s \in Seq(S) /\ x \in S
    BY <1>1, <1>4
  <2> HIDE DEF S, s
  <2>2. Append(s, x) \in Seq(S) /\ Range(Append(s, x)) = Range(s) \cup {x}
    BY <2>1, RangeAppend
  <2> QED BY <2>2 DEF S, s
<1>7. /\ inbox' \in [Route -> Seq([req : Sendable, done : BOOLEAN])]
      /\ \A t \in Route : t # c => inbox'[t] = inbox[t]
      /\ inbox'[c] = inbox[c] \/ inbox'[c] = Append(inbox[c], x)
      /\ inbox'[c] = Append(inbox[c], x) \/ (inbox'[c] = inbox[c] /\ ((garbled /\ c = conn) \/ Queued(c, r)))
  BY <1>0, <1>6 DEF LinkType, WireType
<1>8. Range(inbox'[c]) \subseteq Range(inbox[c]) \cup {x}
  BY <1>6, <1>7
<1>9. \A t \in Route : Way(t)' \subseteq Way(t) /\ Back(t)' \subseteq Back(t)
  <2>1. answers' = answers
    BY <1>0 DEF vars
  <2>2. Way(c)' \subseteq Way(c)
    BY <1>2, <1>3, <1>4, <1>8 DEF Way, Queue
  <2>3. \A t \in Route : t # c => Way(t)' = Way(t)
    BY <1>3, <1>7 DEF Way, Queue
  <2> QED BY <1>0, <2>1, <2>2, <2>3 DEF Back
<1>10. HostType'
  BY <1>0, WireHost DEF LinkType, HostType
<1>11. LinkType'
  BY <1>0, <1>3, <1>7, <1>10, CalmType DEF LinkType, WireType, PastType, pastVars
<1>12. WireMoves /\ UNCHANGED <<answers, toHost, garbled, cut>>
  BY <1>0, <1>9 DEF WireMoves, vars, table, pastVars
<1> QED BY <1>0, <1>3, <1>5, <1>7, <1>11, <1>12 DEF x, r

\* An answer is out: its request leaves the queue.
LEMMA SentMoves ==
  ASSUME LinkType, NEW c \in Route, Sent(c)
  PROVE  /\ LinkType' /\ WireMoves /\ UNCHANGED <<toProbe, garbled, cut>>
         /\ inbox[c] # <<>> /\ inbox[c][1].done /\ inbox'[c] = Tail(inbox[c])
         /\ \A t \in Route : t # c => inbox'[t] = inbox[t]
<1>0. /\ inbox[c] # <<>> /\ Head(inbox[c]).done /\ inbox' = [inbox EXCEPT ![c] = Tail(@)]
      /\ toHost' = IF c = conn THEN [toHost EXCEPT ![c] = Append(@, Head(answers[c]))] ELSE toHost
      /\ answers[c] # <<>> /\ answers' = [answers EXCEPT ![c] = Tail(@)]
      /\ UNCHANGED <<session, table, owned, nextRes, world, history, given>>
      /\ UNCHANGED <<use, hostVars, toProbe, garbled, pastVars>>
  BY DEF Sent, AnswerOut
<1>1. /\ answers[c] \in Seq(Answer) /\ toHost[c] \in Seq(Answer \cup {Torn})
      /\ inbox[c] \in Seq([req : Sendable, done : BOOLEAN])
  BY DEF LinkType, ProbeType, TypeOK, WireType
<1> DEFINE a == Head(answers[c])
<1>2. a \in Answer /\ Tail(answers[c]) \in Seq(Answer) /\ Range(answers[c]) = {a} \cup Range(Tail(answers[c]))
  BY <1>0, <1>1, RangeTail
<1> HIDE DEF a
<1>3. Append(toHost[c], a) \in Seq(Answer \cup {Torn}) /\ Range(Append(toHost[c], a)) = Range(toHost[c]) \cup {a}
  <2> DEFINE S == Answer \cup {Torn}
             s == toHost[c]
  <2>1. s \in Seq(S) /\ a \in S
    BY <1>1, <1>2
  <2> HIDE DEF S, s
  <2>2. Append(s, a) \in Seq(S) /\ Range(Append(s, a)) = Range(s) \cup {a}
    BY <2>1, RangeAppend
  <2> QED BY <2>2 DEF S, s
<1>4. /\ Tail(inbox[c]) \in Seq([req : Sendable, done : BOOLEAN])
      /\ Range(Tail(inbox[c])) \subseteq Range(inbox[c]) /\ Head(inbox[c]) = inbox[c][1]
  <2> DEFINE S == [req : Sendable, done : BOOLEAN]
             s == inbox[c]
  <2>1. s \in Seq(S) /\ s # <<>>
    BY <1>0, <1>1
  <2> HIDE DEF S, s
  <2>2. Tail(s) \in Seq(S) /\ Range(s) = {Head(s)} \cup Range(Tail(s))
    BY <2>1, RangeTail
  <2>3. Head(s) = s[1]
    BY <2>1
  <2> QED BY <2>2, <2>3 DEF S, s
<1>5. /\ answers' \in [Route -> Seq(Answer)]
      /\ \A t \in Route : answers'[t] = IF t = c THEN Tail(answers[c]) ELSE answers[t]
  BY <1>0, <1>2 DEF LinkType, ProbeType, TypeOK
<1>6. /\ inbox' \in [Route -> Seq([req : Sendable, done : BOOLEAN])]
      /\ \A t \in Route : inbox'[t] = IF t = c THEN Tail(inbox[c]) ELSE inbox[t]
  BY <1>0, <1>4 DEF LinkType, WireType
<1>7. /\ toHost' \in [Route -> Seq(Answer \cup {Torn})]
      /\ \A t \in Route : t # c => toHost'[t] = toHost[t]
      /\ toHost'[c] \in {Append(toHost[c], a), toHost[c]}
  BY <1>0, <1>3 DEF LinkType, WireType, a
<1>8. ProbeType'
  BY <1>0, <1>5 DEF LinkType, ProbeType, TypeOK, session, table, owned, world, history
<1>9. HostType'
  BY <1>0, WireHost DEF LinkType, HostType
<1>10. LinkType'
  BY <1>0, <1>6, <1>7, <1>8, <1>9 DEF LinkType, WireType, PastType, pastVars
<1>11. Range(toHost'[c]) \subseteq Range(toHost[c]) \cup {a}
  BY <1>3, <1>7
<1>12. ASSUME NEW t \in Route PROVE Way(t)' \subseteq Way(t) /\ Back(t)' \subseteq Back(t)
  <2>1. CASE t = c
    BY <1>0, <1>2, <1>4, <1>5, <1>6, <1>11, <2>1 DEF Way, Queue, Back
  <2>2. CASE t # c
    BY <1>0, <1>5, <1>6, <1>7, <2>2 DEF Way, Queue, Back
  <2> QED BY <2>1, <2>2
<1> QED BY <1>0, <1>4, <1>6, <1>10, <1>12 DEF WireMoves, table, pastVars

\* A connection is closed for the probe: what waits there is gone.
LEMMA CloseRouteMoves ==
  ASSUME LinkType, NEW c \in Route, CloseRoute(c)
  PROVE  /\ LinkType' /\ WireMoves /\ UNCHANGED <<garbled, cut>> /\ c # conn
         /\ toProbe'[c] = <<>> /\ inbox'[c] = <<>>
         /\ \A t \in Route : t # c => toProbe'[t] = toProbe[t] /\ inbox'[t] = inbox[t]
<1>0. /\ c # conn /\ toProbe' = [toProbe EXCEPT ![c] = <<>>] /\ inbox' = [inbox EXCEPT ![c] = <<>>]
      /\ toHost' = [toHost EXCEPT ![c] = <<>>] /\ answers' = [answers EXCEPT ![c] = <<>>]
      /\ UNCHANGED <<session, table, owned, nextRes, world, history, given, use, hostVars, garbled, pastVars>>
  BY DEF CloseRoute
<1>1. /\ toProbe' \in [Route -> Seq(Sendable)] /\ toHost' \in [Route -> Seq(Answer \cup {Torn})]
      /\ inbox' \in [Route -> Seq([req : Sendable, done : BOOLEAN])] /\ answers' \in [Route -> Seq(Answer)]
      /\ \A t \in Route : /\ toProbe'[t] = IF t = c THEN <<>> ELSE toProbe[t]
                          /\ inbox'[t] = IF t = c THEN <<>> ELSE inbox[t]
                          /\ toHost'[t] = IF t = c THEN <<>> ELSE toHost[t]
                          /\ answers'[t] = IF t = c THEN <<>> ELSE answers[t]
  <2>1. toProbe' \in [Route -> Seq(Sendable)] /\ \A t \in Route : toProbe'[t] = IF t = c THEN <<>> ELSE toProbe[t]
    BY <1>0 DEF LinkType, WireType
  <2>2. toHost' \in [Route -> Seq(Answer \cup {Torn})] /\ \A t \in Route : toHost'[t] = IF t = c THEN <<>> ELSE toHost[t]
    BY <1>0 DEF LinkType, WireType
  <2>3. /\ inbox' \in [Route -> Seq([req : Sendable, done : BOOLEAN])]
        /\ \A t \in Route : inbox'[t] = IF t = c THEN <<>> ELSE inbox[t]
    <3> DEFINE S == Seq([req : Sendable, done : BOOLEAN])
    <3>0. <<>> \in S
      BY EmptySeq
    <3>1. inbox \in [Route -> S]
      BY DEF LinkType, WireType
    <3> HIDE DEF S
    <3>2. inbox' \in [Route -> S] /\ \A t \in Route : inbox'[t] = IF t = c THEN <<>> ELSE inbox[t]
      BY <1>0, <3>0, <3>1
    <3> QED BY <3>2 DEF S
  <2>4. answers' \in [Route -> Seq(Answer)] /\ \A t \in Route : answers'[t] = IF t = c THEN <<>> ELSE answers[t]
    BY <1>0 DEF LinkType, ProbeType, TypeOK
  <2> QED BY <2>1, <2>2, <2>3, <2>4
<1>2. ProbeType'
  BY <1>0, <1>1 DEF LinkType, ProbeType, TypeOK, session, table, owned, world, history
<1>3. HostType'
  BY <1>0, WireHost DEF LinkType, HostType
<1>4. LinkType'
  BY <1>0, <1>1, <1>2, <1>3 DEF LinkType, WireType, PastType, pastVars
<1>5. ASSUME NEW t \in Route PROVE Way(t)' \subseteq Way(t) /\ Back(t)' \subseteq Back(t)
  <2>1. CASE t = c
    BY <1>1, <2>1, RangeEmpty DEF Way, Queue, Back
  <2>2. CASE t # c
    BY <1>1, <2>2 DEF Way, Queue, Back
  <2> QED BY <2>1, <2>2
<1> QED BY <1>0, <1>1, <1>4, <1>5 DEF WireMoves, table, pastVars

\* A request handled: a confirm is answered, a copy gets what is kept, one that is new is carried
\* out and remembered.
Carried(c, r, a) ==
  /\ Send(c, a)
  /\ \/ ~OfSession(r) /\ a = Ans(r, "ok", boot) /\ UNCHANGED table /\ ~Reaches(c, r, "write")
     \/ OfSession(r) /\ Resent(r) /\ a = ResentAnswer(r) /\ UNCHANGED table /\ ~Reaches(c, r, "write")
     \/ /\ OfSession(r) /\ ~Resent(r) /\ a = Ans(r, "ok", 0) /\ newest' = r.corr /\ resend' = Kept(resend, r, a)
        /\ Reaches(c, r, "write") <=> r.op = "write"

LEMMA HandleOurs ==
  ASSUME ProbeType, NEW c \in Route, NEW r \in Sendable, Handle(c, r)
  PROVE  ProbeType' /\ boot \in Nat /\ \E a \in Answer : Carried(c, r, a)
<1>0. /\ r \in Requests /\ r.corr # 0 /\ r.op \in {"write", "subscribe", "confirm"}
      /\ Holder # NoSid /\ OfSession(r) <=> r.sid = Holder
      /\ r.sid = NoSid \/ r.sid = Holder
      /\ r.op = "confirm" <=> r.sid = NoSid
      /\ boot \in Nat /\ holder = Holder /\ last = Holder /\ ~restarting
  BY LinkAssumption, ProbeAssumption DEF Sendable, OfSession, ProbeType, TypeOK
<1>1. HeaderFault(r) = "none" /\ Admitted(r)
  BY <1>0 DEF HeaderFault, Admitted, LockFree
<1>2. TypeOK'
  BY <1>0, HandleType DEF ProbeType
<1>3. CASE HandleResent(c, r)
  <2>1. /\ Resent(r) /\ Send(c, ResentAnswer(r)) /\ UNCHANGED <<session, table, world>>
    BY <1>3 DEF HandleResent
  <2>2. OfSession(r)
    BY <1>0, <2>1 DEF Resent
  <2>3. ResentAnswer(r) \in Answer
    BY <1>0, ResentAnswerType DEF ProbeType
  <2>4. ~Reaches(c, r, "write")
    BY <2>1 DEF Reaches, Fresh
  <2> QED BY <1>0, <1>2, <2>1, <2>2, <2>3, <2>4 DEF Carried, ProbeType, session, world
<1>4. ASSUME Fresh(c, r), UNCHANGED <<holder, last, lease, restarting>>, NEW val \in Nat,
             Settle(c, r, Ans(r, "ok", val)), val = IF OfSession(r) THEN 0 ELSE boot
      PROVE  ProbeType' /\ \E a \in Answer : Carried(c, r, a)
  <2> DEFINE a == Ans(r, "ok", val)
  <2>1. a \in Answer
    BY <1>0, AnsType DEF Res
  <2>2. ProbeType'
    BY <1>0, <1>2, <1>4 DEF ProbeType
  <2>3. ~NewLock
    BY <1>4 DEF NewLock
  <2>4. Send(c, a) /\ ~Resent(r)
    BY <1>4 DEF Settle, Fresh
  <2>5. Reaches(c, r, "write") <=> r.op = "write"
    BY <1>1, <1>4 DEF Reaches
  <2>6. CASE OfSession(r)
    <3>1. resend' = Kept(resend, r, a) /\ newest' = r.corr
      BY <1>0, <1>4, <2>3, <2>6 DEF Settle
    <3> QED BY <1>4, <2>1, <2>2, <2>4, <2>5, <2>6, <3>1 DEF Carried
  <2>7. CASE ~OfSession(r)
    <3>1. UNCHANGED table
      BY <1>0, <1>4, <2>7 DEF Settle, table
    <3> QED BY <1>0, <1>4, <2>1, <2>2, <2>4, <2>5, <2>7, <3>1 DEF Carried
  <2> QED BY <2>6, <2>7
<1>5. CASE Confirm(c, r)
  BY <1>0, <1>4, <1>5 DEF Confirm, Reaches, Answered, world
<1>6. CASE Write(c, r)
  BY <1>0, <1>4, <1>6 DEF Write, Reaches
<1>7. CASE Subscribe(c, r)
  BY <1>0, <1>4, <1>7 DEF Subscribe, Reaches, world
<1>8. \/ HandleResent(c, r) \/ Confirm(c, r) \/ Write(c, r) \/ Subscribe(c, r)
  <2>1. ~HandleHeaderFault(c, r) /\ ~OpenRefused(c, r) /\ ~OpenTaken(c, r) /\ ~NotAdmitted(c, r)
    BY <1>0, <1>1 DEF HandleHeaderFault, OpenRefused, OpenTaken, NotAdmitted, OpenOps
  <2>2. ~LockState(c, r) /\ ~Keepalive(c, r) /\ ~Read(c, r) /\ ~Bad(c, r) /\ ~End(c, r) /\ ~Restart(c, r)
    BY <1>0 DEF LockState, Keepalive, Read, Bad, End, Restart, Reaches
  <2>3. ~Attach(c, r) /\ ~Detach(c, r) /\ ~StreamOpen(c, r) /\ ~StreamClose(c, r)
    BY <1>0 DEF Attach, Detach, StreamOpen, StreamClose, Reaches
  <2>4. ~PlanApply(c, r) /\ ~PlanRelease(c, r) /\ ~Unsubscribe(c, r)
    BY <1>0 DEF PlanApply, PlanRelease, Unsubscribe, Reaches
  <2> QED BY <2>1, <2>2, <2>3, <2>4 DEF Handle
<1> QED BY <1>0, <1>3, <1>5, <1>6, <1>7, <1>8

\* The oldest request that waits is handled.
LEMMA ProcessMoves ==
  ASSUME LinkType, NEW c \in Route, Process(c)
  PROVE  /\ LinkType' /\ UNCHANGED <<hostVars, toProbe, toHost, garbled, told, cut>>
         /\ \A t \in Route : Way(t)' = Way(t)
         /\ \A t \in Route : t # c => inbox'[t] = inbox[t] /\ answers'[t] = answers[t]
         /\ boot \in Nat
         /\ \E i \in 1..Len(inbox[c]), a \in Answer :
              /\ ~inbox[c][i].done /\ \A j \in 1..(i - 1) : inbox[c][j].done
              /\ inbox[c][i].req \in Way(c) /\ inbox[c][i].req \in Sendable
              /\ Carried(c, inbox[c][i].req, a)
              /\ order' = IF Reaches(c, inbox[c][i].req, "write") THEN Append(order, inbox[c][i].req.corr) ELSE order
              /\ Len(inbox'[c]) = Len(inbox[c])
              /\ \A j \in 1..Len(inbox[c]) : /\ inbox'[c][j].req = inbox[c][j].req
                                             /\ inbox'[c][j].done <=> inbox[c][j].done \/ j = i
              /\ Range(answers'[c]) = Range(answers[c]) \cup {a}
<1> DEFINE S == [req : Sendable, done : BOOLEAN]
           q == inbox[c]
<1>1. PICK i \in 1..Len(q) :
        /\ ~q[i].done /\ \A j \in 1..(i - 1) : q[j].done
        /\ Handle(c, q[i].req)
        /\ order' = IF Reaches(c, q[i].req, "write") THEN Append(order, q[i].req.corr) ELSE order
        /\ inbox' = [inbox EXCEPT ![c][i].done = TRUE]
  BY DEF Process
<1>2. UNCHANGED <<use, hostVars, toProbe, toHost, garbled, told, hits, cut, doubt>>
  BY DEF Process
<1>3. q \in Seq(S) /\ q[i] \in S /\ q[i].req \in Sendable
  <2>1. q \in Seq(S)
    BY DEF LinkType, WireType
  <2>2. q[i] \in S
    <3> HIDE DEF q, S
    <3> QED BY <1>1, <2>1, ElementOfSeq
  <2> QED BY <2>1, <2>2
<1> DEFINE x == [q[i] EXCEPT !.done = TRUE]
           u == [q EXCEPT ![i] = x]
<1>4. inbox' = [inbox EXCEPT ![c] = u]
  BY <1>1
<1>5. x \in S /\ x.req = q[i].req /\ x.done
  BY <1>3
<1>6. u \in Seq(S) /\ Len(u) = Len(q) /\ \A j \in 1..Len(q) : u[j] = IF j = i THEN x ELSE q[j]
  <2> HIDE DEF S, x
  <2> QED BY <1>1, <1>3, <1>5, ExceptSeq
<1>7. /\ inbox' \in [Route -> Seq(S)] /\ inbox'[c] = u
      /\ \A t \in Route : t # c => inbox'[t] = inbox[t]
  <2> HIDE DEF u
  <2> QED BY <1>4, <1>6 DEF LinkType, WireType
<1>8. ProbeType' /\ boot \in Nat /\ \E a \in Answer : Carried(c, q[i].req, a)
  BY <1>1, <1>3, HandleOurs DEF LinkType
<1>9. PICK a \in Answer : Carried(c, q[i].req, a)
  BY <1>8
<1>10. /\ Range(answers'[c]) = Range(answers[c]) \cup {a}
       /\ \A t \in Route : t # c => answers'[t] = answers[t]
  <2>1. answers \in [Route -> Seq(Answer)] /\ answers' = [answers EXCEPT ![c] = Append(@, a)]
    BY <1>9 DEF Carried, Send, LinkType, ProbeType, TypeOK
  <2> HIDE DEF q
  <2>2. Range(Append(answers[c], a)) = Range(answers[c]) \cup {a}
    <3> DEFINE s == answers[c]
    <3>1. s \in Seq(Answer)
      BY <2>1
    <3> HIDE DEF s
    <3>2. Range(Append(s, a)) = Range(s) \cup {a}
      BY <3>1, RangeAppend
    <3> QED BY <3>2 DEF s
  <2> QED BY <2>1, <2>2
<1>11. order' \in Seq(Corr)
  <2>1. q[i].req.corr \in Corr
    BY <1>3, CorrAssumption DEF Sendable, Requests, Corr
  <2> QED BY <1>1, <2>1 DEF LinkType, PastType
<1>12. LinkType'
  <2>1. HostType'
    BY <1>2, WireHost DEF LinkType, HostType
  <2> QED BY <1>2, <1>7, <1>8, <1>11, <2>1 DEF LinkType, WireType, PastType
<1> HIDE DEF x, u
<1>13. \A j \in 1..Len(q) : u[j].req = q[j].req /\ (u[j].done <=> q[j].done \/ j = i)
  BY <1>5, <1>6
<1>14. Queue(c)' = Queue(c) /\ q[i].req \in Queue(c)
  <2>1. \A y : y \in Range(u) <=> \E j \in 1..Len(u) : u[j] = y
    BY <1>6, RangeIs
  <2>2. \A y : y \in Range(q) <=> \E j \in 1..Len(q) : q[j] = y
    BY <1>3, RangeIs
  <2>3. \A r : r \in Queue(c) <=> \E j \in 1..Len(q) : q[j].req = r
    BY <2>2 DEF Queue
  <2>4. \A r : r \in Queue(c)' <=> \E j \in 1..Len(u) : u[j].req = r
    BY <1>7, <2>1 DEF Queue
  <2>5. \A r : r \in Queue(c)' <=> r \in Queue(c)
    BY <1>6, <1>13, <2>3, <2>4
  <2>6. q[i].req \in Queue(c)
    BY <1>1, <2>3
  <2> QED BY <2>5, <2>6
<1>15. \A t \in Route : Way(t)' = Way(t)
  <2>1. \A t \in Route : t # c => Way(t)' = Way(t)
    BY <1>2, <1>7 DEF Way, Queue
  <2> QED BY <1>2, <1>14, <2>1 DEF Way
<1>16. q[i].req \in Way(c)
  BY <1>14 DEF Way
<1> QED BY <1>1, <1>2, <1>3, <1>6, <1>7, <1>8, <1>9, <1>10, <1>12, <1>13, <1>15, <1>16, SMTT(30)

-------------------------------------------------------------------------------
(* The order, what is answered and what was not sent. *)

\* The requests of the line, one after the other.
LEMMA InLineMoves ==
  ASSUME HostType, InLine, Line' = Line \/ (Line # <<>> /\ Line' = Tail(Line)) \/ Line' = <<>>
  PROVE  InLine' /\ Waits' \subseteq Waits
<1>0. Line \in Seq(Sendable) /\ Waits = Range(Line)
  BY LineIs DEF Waits
<1>1. CASE Line' = Line
  BY <1>1 DEF InLine, Waits, Past, OfSession
<1>2. CASE Line # <<>> /\ Line' = Tail(Line)
  <2>1. /\ Len(Line) \in Nat \ {0} /\ Len(Line') = Len(Line) - 1 /\ Line' \in Seq(Sendable)
        /\ \A i \in 1..Len(Line') : Line'[i] = Line[i + 1]
    <3> DEFINE s == Line
    <3>1. s \in Seq(Sendable) /\ s # <<>>
      BY <1>0, <1>2
    <3> HIDE DEF s
    <3>2. /\ Len(s) \in Nat \ {0} /\ Len(Tail(s)) = Len(s) - 1 /\ Tail(s) \in Seq(Sendable)
          /\ \A i \in 1..Len(Tail(s)) : Tail(s)[i] = s[i + 1]
      BY <3>1, HeadTailProperties, EmptySeq
    <3>3. Line' = Tail(s)
      BY <1>2 DEF s
    <3> HIDE <1>2
    <3>4. /\ Len(s) \in Nat \ {0} /\ Len(Line') = Len(s) - 1 /\ Line' \in Seq(Sendable)
          /\ \A i \in 1..Len(Line') : Line'[i] = s[i + 1]
      BY <3>2, <3>3
    <3> QED BY <3>4 DEF s
  <2>2. \A i \in 1..Len(Line) : Past(Line[i].corr) \in Int
    <3>1. \A i \in 1..Len(Line) : Line[i].corr \in Corr
      BY <1>0, ElementOfSeq, CorrAssumption DEF Sendable, Requests, Corr
    <3> QED BY <3>1, PastRange
  <2>3. ASSUME NEW i \in 1..Len(Line')
        PROVE  OfSession(Line'[i]) /\ Past(Line'[i].corr) = Past(Line'[1].corr) + i - 1
    <3>1. i + 1 \in 1..Len(Line) /\ 2 \in 1..Len(Line) /\ Line'[i] = Line[i + 1] /\ Line'[1] = Line[2]
      BY <2>1
    <3>2. 1 \in 1..Len(Line)
      BY <2>1
    <3>3. /\ OfSession(Line[i + 1]) /\ Past(Line[i + 1].corr) = Past(Line[1].corr) + (i + 1) - 1
          /\ Past(Line[2].corr) = Past(Line[1].corr) + 2 - 1
      BY <3>1 DEF InLine
    <3> QED BY <2>2, <3>1, <3>2, <3>3
  <2>4. InLine'
    BY <2>3 DEF InLine, Past, OfSession
  <2>5. Range(Tail(Line)) \subseteq Range(Line)
    BY <1>0, <1>2, RangeTail
  <2> QED BY <1>2, <2>4, <2>5 DEF Waits
<1>3. CASE Line' = <<>>
  <2>1. Len(Line') = 0
    BY <1>3
  <2> QED BY <1>3, <2>1, RangeEmpty DEF InLine, Waits
<1> QED BY <1>1, <1>2, <1>3

\* Requests and answers that are under way have corrs and fields.
LEMMA AskedIs ==
  ASSUME LinkType
  PROVE  /\ \A t \in Route : Way(t) \subseteq Sendable /\ Back(t) \subseteq Answer
         /\ Stored \subseteq Answer /\ AllBack \subseteq Answer
         /\ Waits \subseteq Sendable
         /\ \A r \in Sendable : r.corr \in Corr /\ Past(r.corr) \in Int
<1>1. ASSUME NEW t \in Route PROVE Way(t) \subseteq Sendable /\ Back(t) \subseteq Answer
  <2>1. Range(toProbe[t]) \subseteq Sendable
    BY RangeIs DEF LinkType, WireType
  <2>2. Queue(t) \subseteq Sendable
    <3> DEFINE S == [req : Sendable, done : BOOLEAN]
    <3>1. inbox[t] \in Seq(S)
      BY DEF LinkType, WireType
    <3> HIDE DEF S
    <3>2. Range(inbox[t]) \subseteq S
      BY <3>1, RangeIs
    <3> QED BY <3>2 DEF Queue, S
  <2>3. Range(answers[t]) \subseteq Answer
    BY RangeIs DEF LinkType, ProbeType, TypeOK
  <2>4. Range(toHost[t]) \subseteq Answer \cup {Torn}
    <3> DEFINE S == Answer \cup {Torn}
    <3>1. toHost[t] \in Seq(S)
      BY DEF LinkType, WireType
    <3> HIDE DEF S
    <3>2. Range(toHost[t]) \subseteq S
      BY <3>1, RangeIs
    <3> QED BY <3>2 DEF S
  <2> QED BY <2>1, <2>2, <2>3, <2>4 DEF Way, Back
<1>2. Stored \subseteq Answer
  BY DEF Stored, LinkType, ProbeType, TypeOK, Entry
<1>3. AllBack \subseteq Answer
  BY <1>1, <1>2 DEF AllBack
<1>4. \A r \in Sendable : r.corr \in Corr /\ Past(r.corr) \in Int
  BY CorrAssumption, PastRange DEF Sendable, Requests, Corr
<1> QED BY <1>1, <1>2, <1>3, <1>4, LineIs DEF LinkType

\* Everything asked of the probe is somewhere.
LEMMA AskedHas ==
  /\ Waits \subseteq Asked
  /\ \A t \in Route : Way(t) \subseteq Asked
  /\ \A a \in AllBack : a.req \in Asked
  /\ \A t \in Route : Back(t) \subseteq AllBack
  /\ Stored \subseteq AllBack
<1>1. Waits \subseteq Asked
  BY DEF Asked
<1>2. ASSUME NEW t \in Route, NEW r \in Way(t) PROVE r \in Asked
  <2>1. r \in UNION {Way(u) : u \in Route}
    OBVIOUS
  <2> QED BY <2>1 DEF Asked
<1>3. ASSUME NEW a \in AllBack PROVE a.req \in Asked
  BY DEF Asked
<1>4. ASSUME NEW t \in Route, NEW a \in Back(t) PROVE a \in AllBack
  <2>1. a \in UNION {Back(u) : u \in Route}
    OBVIOUS
  <2> QED BY <2>1 DEF AllBack
<1>5. Stored \subseteq AllBack
  BY DEF AllBack
<1> QED BY <1>1, <1>2, <1>3, <1>4, <1>5

\* And nowhere else.
LEMMA AskedFrom ==
  ASSUME NEW S, Waits' \subseteq S, \A t \in Route : Way(t)' \subseteq S, \A a \in AllBack' : a.req \in S
  PROVE  Asked' \subseteq S
<1> SUFFICES ASSUME NEW x \in Asked' PROVE x \in S
  OBVIOUS
<1>1. x \in Waits' \/ x \in UNION {Way(t)' : t \in Route} \/ x \in {a.req : a \in AllBack'}
  BY DEF Asked
<1>2. CASE x \in UNION {Way(t)' : t \in Route}
  <2>1. PICK t \in Route : x \in Way(t)'
    BY <1>2
  <2> QED BY <2>1
<1>3. CASE x \in {a.req : a \in AllBack'}
  <2>1. PICK a \in AllBack' : x = a.req
    BY <1>3
  <2> QED BY <2>1
<1> QED BY <1>1, <1>2, <1>3

\* The invariant of what was sent after a step of the host in a call.
LEMMA HostKeepsFirst ==
  ASSUME FirstInv, LinkType', HostMoves
  PROVE  FirstInv'
<1>0. /\ LinkType /\ Named /\ InLine /\ Ordered /\ OkRan /\ Unsent
      /\ UNCHANGED <<newest, resend, order, corr>>
  BY DEF FirstInv, HostMoves, vars, table
<1>1. InLine' /\ Waits' \subseteq Waits
  BY <1>0, InLineMoves DEF HostMoves, LinkType
<1>2. AllBack' \subseteq AllBack
  BY <1>0 DEF HostMoves, AllBack, Stored
<1>3. Asked' \subseteq Asked
  <2>1. \A t \in Route : Way(t)' \subseteq Asked
    BY AskedHas DEF HostMoves
  <2>2. \A a \in AllBack' : a.req \in Asked
    BY <1>2, AskedHas
  <2>3. Waits' \subseteq Asked
    BY <1>1, AskedHas
  <2> QED BY <2>1, <2>2, <2>3, AskedFrom
<1>4. Named'
  <2>1. ASSUME NEW x \in told' PROVE Past(x.corr) <= Past(corr)
    BY <1>0, AskedHas DEF HostMoves, Told, Named
  <2> QED BY <1>0, <1>3, <2>1 DEF Named, Past
<1>5. Ordered'
  BY <1>0 DEF Ordered, Past
<1>6. OkRan'
  <2>1. ASSUME NEW x \in told', x.what = "ok" PROVE x.corr \in Range(order)
    <3>1. CASE x \in told
      BY <1>0, <2>1, <3>1 DEF OkRan
    <3>2. CASE x \notin told
      <4>1. PICK r \in Waits, a \in Back(conn) : r.op = "write" /\ x.corr = r.corr /\ a.req.corr = r.corr /\ a.res = x.what
        BY <2>1, <3>2 DEF HostMoves, Told
      <4>2. r \in Asked /\ a.req \in Asked /\ a \in AllBack
        BY <1>0, <4>1, AskedHas DEF LinkType, HostType
      <4>3. a.req = r
        BY <1>0, <4>1, <4>2 DEF Named
      <4> QED BY <1>0, <2>1, <4>1, <4>2, <4>3 DEF OkRan
    <3> QED BY <3>1, <3>2
  <2> QED BY <1>0, <1>2, <2>1 DEF OkRan
<1>7. Unsent'
  <2>1. ASSUME pc' = "confirm", confirm'.after = "call"
        PROVE  out' = <<>> /\ \A r \in Waits' : Nowhere(r.corr)'
    <3>1. /\ pc = "confirm" /\ confirm.after = "call" /\ out' = out
          /\ \A t \in Route : Way(t)' \subseteq Way(t)
      BY <2>1 DEF HostMoves
    <3>2. out' = <<>> /\ \A r \in Waits : Nowhere(r.corr)
      BY <1>0, <3>1 DEF Unsent
    <3> QED BY <1>0, <1>1, <3>1, <3>2 DEF Nowhere
  <2>2. ASSUME NEW x \in told', x.what = "not_sent"
        PROVE  Nowhere(x.corr)' /\ \A r \in Waits' : r.corr # x.corr
    <3>1. CASE x \in told
      <4>1. Nowhere(x.corr) /\ \A r \in Waits : r.corr # x.corr
        BY <1>0, <2>2, <3>1 DEF Unsent
      <4>2. \A t \in Route : \A s \in Way(t)' : s.corr # x.corr
        BY <4>1 DEF HostMoves, Nowhere
      <4> QED BY <1>0, <1>1, <4>1, <4>2 DEF Nowhere
    <3>2. CASE x \notin told
      <4>0. \A a \in Back(conn) : a.res # "not_sent"
        BY <1>0, AskedIs DEF LinkType, HostType, Answer, Res
      <4>1. /\ pc = "confirm" /\ confirm.after = "call" /\ Line' = <<>>
            /\ \E r \in Waits : x.corr = r.corr
        BY <2>2, <3>2, <4>0 DEF HostMoves, Told
      <4>2. Nowhere(x.corr)
        BY <1>0, <4>1 DEF Unsent
      <4>3. \A t \in Route : Way(t)' \subseteq Way(t)
        BY <4>1 DEF HostMoves
      <4>4. Waits' = {}
        BY <4>1, RangeEmpty DEF Waits
      <4> QED BY <1>0, <4>2, <4>3, <4>4 DEF Nowhere
    <3> QED BY <3>1, <3>2
  <2> QED BY <2>1, <2>2 DEF Unsent
<1> QED BY <1>1, <1>4, <1>5, <1>6, <1>7 DEF FirstInv

\* After a step of the line, or of a probe that handles nothing.
LEMMA WireKeepsFirst ==
  ASSUME FirstInv, LinkType', WireMoves
  PROVE  FirstInv' /\ Line' = Line /\ Waits' = Waits
<1>0. /\ LinkType /\ Named /\ InLine /\ Ordered /\ OkRan /\ Unsent
      /\ UNCHANGED <<newest, resend, order, told, corr, todo, out, pc, confirm>>
      /\ \A t \in Route : Way(t)' \subseteq Way(t) /\ Back(t)' \subseteq Back(t)
  BY DEF FirstInv, WireMoves, hostVars
<1>1. Line' = Line /\ Waits' = Waits
  BY <1>0 DEF Line, Waits
<1>2. AllBack' \subseteq AllBack
  BY <1>0 DEF AllBack, Stored
<1>3. Asked' \subseteq Asked
  <2>1. Waits' \subseteq Asked /\ \A t \in Route : Way(t)' \subseteq Asked
    BY <1>0, <1>1, AskedHas
  <2>2. \A a \in AllBack' : a.req \in Asked
    BY <1>2, AskedHas
  <2> QED BY <2>1, <2>2, AskedFrom
<1>4. Named'
  BY <1>0, <1>3 DEF Named, Past
<1>5. Ordered' /\ InLine'
  BY <1>0, <1>1 DEF Ordered, InLine, Past, OfSession
<1>6. OkRan'
  BY <1>0, <1>2 DEF OkRan
<1>7. Unsent'
  BY <1>0, <1>1 DEF Unsent, Nowhere
<1> QED BY <1>1, <1>4, <1>5, <1>6, <1>7 DEF FirstInv

LEMMA PastInt == ASSUME NEW c \in 0..CorrMax PROVE Past(c) \in Int
BY CorrAssumption, LinkAssumption DEF Past, Corr

LEMMA AskedInt == LinkType => \A r \in Asked : Past(r.corr) \in Int /\ Past(corr) \in Int
<1> SUFFICES ASSUME LinkType, NEW r \in Asked PROVE Past(r.corr) \in Int /\ Past(corr) \in Int
  OBVIOUS
<1>1. Past(corr) \in Int
  BY PastRange DEF LinkType, HostType
<1>2. r \in Sendable \/ \E a \in Answer : r = a.req
  <2>1. Waits \subseteq Sendable /\ (\A t \in Route : Way(t) \subseteq Sendable) /\ AllBack \subseteq Answer
    BY AskedIs
  <2> QED BY <2>1 DEF Asked
<1>3. r.corr \in 0..CorrMax
  BY <1>2 DEF Sendable, Answer, Requests
<1> QED BY <1>1, <1>3, PastInt

\* After a call takes its corrs.
LEMMA BeginKeepsFirst ==
  ASSUME FirstInv, use' \in Use, NEW requests, IsCall(requests), Begin(requests)
  PROVE  FirstInv'
<1>0. /\ LinkType /\ Named /\ InLine /\ Ordered /\ OkRan /\ Unsent
      /\ LinkType' /\ UNCHANGED <<vars, toProbe, toHost, inbox, pastVars>>
      /\ out' = <<>> /\ Line' = requests /\ Waits' = Range(requests)
      /\ Past(corr') = Past(corr) + Len(requests)
  BY BeginMoves DEF FirstInv
<1>1. /\ UNCHANGED <<newest, resend, order, told>>
      /\ \A t \in Route : Way(t)' = Way(t) /\ Back(t)' = Back(t)
      /\ AllBack' = AllBack
  BY <1>0 DEF vars, table, pastVars, Way, Queue, Back, AllBack, Stored
<1>2. Asked' \subseteq Asked \cup Range(requests)
  <2>1. /\ Waits' \subseteq Asked \cup Range(requests)
        /\ \A t \in Route : Way(t)' \subseteq Asked \cup Range(requests)
        /\ \A a \in AllBack' : a.req \in Asked \cup Range(requests)
    BY <1>0, <1>1, AskedHas
  <2> QED BY <2>1, AskedFrom
<1>3. /\ requests \in Seq(Sendable) /\ requests # <<>> /\ Len(requests) \in Nat \ {0}
      /\ \A i \in 1..Len(requests) : OfSession(requests[i]) /\ Past(requests[i].corr) = Past(corr) + i
  <2>1. requests \in Seq(Sendable) /\ requests # <<>>
    BY DEF IsCall
  <2>2. Len(requests) \in Nat /\ Len(requests) # 0
    BY <2>1, EmptySeq, LenProperties
  <2> QED BY <2>1, <2>2 DEF IsCall
<1>4. \A r : r \in Range(requests) <=> \E i \in 1..Len(requests) : requests[i] = r
  BY <1>3, RangeIs
<1>5. Past(corr) \in Int /\ \A r \in Asked : Past(r.corr) \in Int
  <2>1. corr \in Corr
    BY <1>0 DEF LinkType, HostType
  <2> QED BY <1>0, <2>1, AskedInt, PastRange
<1>6. \A r \in Range(requests) : Past(r.corr) \in Int /\ Past(corr) < Past(r.corr) /\ Past(r.corr) <= Past(corr')
  BY <1>0, <1>3, <1>4, <1>5
<1>7. Named'
  <2>1. \A r \in Asked : Past(r.corr) <= Past(corr)
    BY <1>0 DEF Named
  <2>2. \A r \in Asked' : Past(r.corr) <= Past(corr')
    BY <1>0, <1>2, <1>3, <1>5, <1>6, <2>1
  <2>3. \A r, s \in Asked' : r.corr = s.corr => r = s
    <3> SUFFICES ASSUME NEW r \in Asked', NEW s \in Asked', r.corr = s.corr PROVE r = s
      OBVIOUS
    <3>1. CASE r \in Asked /\ s \in Asked
      BY <1>0, <3>1 DEF Named
    <3>2. CASE r \in Range(requests) /\ s \in Range(requests)
      <4>1. PICK i \in 1..Len(requests), j \in 1..Len(requests) : r = requests[i] /\ s = requests[j]
        BY <1>4, <3>2
      <4>2. i = j
        BY <1>3, <1>5, <4>1
      <4> QED BY <4>1, <4>2
    <3>3. CASE r \in Asked /\ s \in Range(requests)
      BY <1>5, <1>6, <2>1, <3>3
    <3>4. CASE s \in Asked /\ r \in Range(requests)
      BY <1>5, <1>6, <2>1, <3>4
    <3> QED BY <1>2, <3>1, <3>2, <3>3, <3>4
  <2>4. \A x \in told' : Past(x.corr) <= Past(corr')
    <3> SUFFICES ASSUME NEW x \in told PROVE Past(x.corr) <= Past(corr')
      BY <1>1
    <3>1. Past(x.corr) <= Past(corr) /\ x.corr \in Corr
      BY <1>0 DEF Named, LinkType, PastType
    <3> QED BY <1>0, <1>3, <1>5, <3>1, PastRange
  <2> QED BY <2>2, <2>3, <2>4 DEF Named, Past
<1>8. InLine'
  <2>1. \A i \in 1..Len(Line') : OfSession(Line'[i]) /\ Past(Line'[i].corr) = Past(Line'[1].corr) + i - 1
    BY <1>0, <1>3, <1>5
  <2> QED BY <2>1 DEF InLine, Past, OfSession
<1>9. Ordered'
  <2>1. newest \in Corr /\ Past(newest) <= Past(corr')
    BY <1>0, <1>3, <1>5, PastRange DEF Ordered
  <2> QED BY <1>0, <1>1, <2>1 DEF Ordered, Past
<1>10. OkRan'
  BY <1>0, <1>1 DEF OkRan
<1>11. \A r \in Range(requests) : Nowhere(r.corr)'
  <2> SUFFICES ASSUME NEW r \in Range(requests) PROVE Nowhere(r.corr)'
    OBVIOUS
  <2>1. r.corr \notin Range(order)
    <3> SUFFICES ASSUME r.corr \in Range(order) PROVE FALSE
      OBVIOUS
    <3>1. order \in Seq(Corr)
      BY <1>0 DEF LinkType, PastType
    <3>2. PICK i \in 1..Len(order) : order[i] = r.corr
      BY <3>1, RangeIs
    <3>3. Past(r.corr) <= Past(newest) /\ Past(newest) <= Past(corr) /\ newest \in Corr
      BY <1>0, <3>2 DEF Ordered
    <3> QED BY <1>5, <1>6, <3>3, PastRange
  <2>2. ASSUME NEW t \in Route, NEW s \in Way(t) PROVE s.corr # r.corr
    <3>1. s \in Asked
      BY AskedHas
    <3>2. Past(s.corr) <= Past(corr)
      BY <1>0, <3>1 DEF Named
    <3> QED BY <1>5, <1>6, <3>1, <3>2
  <2> QED BY <1>1, <2>1, <2>2 DEF Nowhere
<1>12. Unsent'
  <2>1. ASSUME NEW x \in told', x.what = "not_sent" PROVE Nowhere(x.corr)' /\ \A r \in Waits' : r.corr # x.corr
    <3>1. x \in told /\ Nowhere(x.corr)
      BY <1>0, <1>1, <2>1 DEF Unsent
    <3>2. Past(x.corr) <= Past(corr) /\ x.corr \in Corr
      BY <1>0, <3>1 DEF Named, LinkType, PastType
    <3>3. \A r \in Range(requests) : r.corr # x.corr
      BY <1>5, <1>6, <3>2
    <3> QED BY <1>0, <1>1, <3>1, <3>3 DEF Nowhere
  <2> QED BY <1>0, <1>11, <2>1 DEF Unsent
<1> QED BY <1>0, <1>7, <1>8, <1>9, <1>10, <1>12 DEF FirstInv

\* After a confirm takes its corr.
LEMMA SendConfirmKeepsFirst ==
  ASSUME FirstInv, SendConfirm
  PROVE  FirstInv'
<1>0. /\ LinkType /\ Named /\ InLine /\ Ordered /\ OkRan /\ Unsent
      /\ LinkType' /\ UNCHANGED <<vars, pc, todo, out, inbox, pastVars>> /\ confirm'.after = confirm.after
      /\ Past(corr') = Past(corr) + 1
      /\ \A t \in Route : t # conn => toProbe'[t] = toProbe[t]
      /\ \A t \in Route : Range(toHost[t])' \subseteq Range(toHost[t])
  BY SendConfirmMoves DEF FirstInv
<1>1. PICK q \in Sendable : q.corr = corr' /\ toProbe'[conn] = <<q>>
  BY <1>0, SendConfirmMoves
<1>2. /\ UNCHANGED <<newest, resend, order, told, answers>> /\ Line' = Line /\ Waits' = Waits
  BY <1>0 DEF vars, table, pastVars, Line, Waits
<1>3. \A t \in Route : Way(t)' \subseteq Way(t) \cup {q}
  <2>1. Range(<<q>>) = {q}
    BY DEF Range
  <2> QED BY <1>0, <1>1, <2>1 DEF Way, Queue
<1>4. (\A t \in Route : Back(t)' \subseteq Back(t)) /\ AllBack' \subseteq AllBack
  BY <1>0, <1>2 DEF Back, AllBack, Stored
<1>5. Asked' \subseteq Asked \cup {q}
  <2>1. /\ Waits' \subseteq Asked \cup {q}
        /\ \A t \in Route : Way(t)' \subseteq Asked \cup {q}
        /\ \A a \in AllBack' : a.req \in Asked \cup {q}
    <3>1. \A t \in Route : Way(t)' \subseteq Asked \cup {q}
      BY <1>3, AskedHas
    <3> QED BY <1>2, <1>4, <3>1, AskedHas
  <2> QED BY <2>1, AskedFrom
<1>6. Past(corr) \in Int /\ Past(q.corr) = Past(corr) + 1 /\ \A r \in Asked : Past(r.corr) \in Int /\ Past(r.corr) <= Past(corr)
  <2>1. corr \in Corr
    BY <1>0 DEF LinkType, HostType
  <2> QED BY <1>0, <1>1, <2>1, AskedInt, PastRange DEF Named
<1>7. \A x \in told : Past(x.corr) \in Int /\ Past(x.corr) <= Past(corr)
  <2>1. \A x \in told : x.corr \in Corr
    BY <1>0 DEF LinkType, PastType
  <2> QED BY <1>0, <2>1, PastRange DEF Named
<1>8. Named'
  <2>1. \A r \in Asked' : Past(r.corr) <= Past(corr')
    BY <1>0, <1>5, <1>6
  <2>2. \A r, s \in Asked' : r.corr = s.corr => r = s
    BY <1>0, <1>5, <1>6 DEF Named
  <2>3. \A x \in told' : Past(x.corr) <= Past(corr')
    BY <1>0, <1>2, <1>6, <1>7
  <2> QED BY <2>1, <2>2, <2>3 DEF Named, Past
<1>9. InLine' /\ OkRan'
  BY <1>0, <1>2, <1>4 DEF InLine, OkRan, Past, OfSession
<1>10. Ordered'
  <2>1. newest \in Corr /\ Past(newest) <= Past(corr')
    BY <1>0, <1>6, PastRange DEF Ordered
  <2> QED BY <1>0, <1>2, <2>1 DEF Ordered, Past
<1>11. ASSUME NEW d, Nowhere(d), Past(d) \in Int, Past(d) <= Past(corr) PROVE Nowhere(d)'
  <2>1. q.corr # d
    BY <1>6, <1>11
  <2> QED BY <1>2, <1>3, <1>11, <2>1 DEF Nowhere
<1>12. Unsent'
  <2>1. ASSUME confirm.after = "call", pc = "confirm", NEW r \in Waits PROVE Nowhere(r.corr)' /\ out' = <<>>
    <3>1. Nowhere(r.corr) /\ out = <<>> /\ r \in Asked
      BY <1>0, <2>1, AskedHas DEF Unsent
    <3> QED BY <1>0, <1>6, <1>11, <3>1
  <2>2. confirm.after = "call" /\ pc = "confirm" => out' = <<>>
    BY <1>0 DEF Unsent
  <2>3. ASSUME NEW x \in told, x.what = "not_sent" PROVE Nowhere(x.corr)' /\ \A r \in Waits : r.corr # x.corr
    <3>1. Nowhere(x.corr) /\ \A r \in Waits : r.corr # x.corr
      BY <1>0, <2>3 DEF Unsent
    <3> QED BY <1>7, <1>11, <3>1
  <2> QED BY <1>0, <1>2, <2>1, <2>2, <2>3 DEF Unsent
<1> QED BY <1>0, <1>8, <1>9, <1>10, <1>12 DEF FirstInv

\* A copy gets a refusal of its own, or the answer that is kept.
LEMMA ResentIs ==
  ASSUME NEW r
  PROVE  \/ Known(r.corr) = {} /\ ResentAnswer(r) = Ans(r, "result_lost", 0)
         \/ \E e \in Known(r.corr) :
              \/ e.req = Dropped /\ ResentAnswer(r) = Ans(r, "result_lost", 0)
              \/ ResentAnswer(r) = Ans(r, "malformed", 0) /\ e.req # r
              \/ e.ans = Dropped /\ ResentAnswer(r) = Ans(r, "result_lost", 0)
              \/ e.ans # Dropped /\ ResentAnswer(r) = e.ans
<1> DEFINE e == CHOOSE k \in Known(r.corr) : TRUE
<1>1. CASE Known(r.corr) # {}
  <2>1. e \in Known(r.corr)
    BY <1>1
  <2>2. ResentAnswer(r) = IF e.req = Dropped THEN Ans(r, "result_lost", 0)
                          ELSE IF e.req # r THEN Ans(r, "malformed", 0)
                          ELSE IF e.ans = Dropped THEN Ans(r, "result_lost", 0)
                          ELSE e.ans
    BY <1>1 DEF ResentAnswer
  <2> QED BY <2>1, <2>2
<1> QED BY <1>1 DEF ResentAnswer

\* The answer is to the request, or one that is kept.
LEMMA CarriedAnswer ==
  ASSUME NEW c, NEW r, NEW a, Carried(c, r, a)
  PROVE  \/ a \in Stored
         \/ a.req = r /\ (a.res = "ok" => r.op = "confirm" \/ Reaches(c, r, "write") \/ r.op # "write" \/ ~OfSession(r))
<1>1. \A res, val : Ans(r, res, val).req = r /\ Ans(r, res, val).res = res
  BY DEF Ans
<1>2. CASE a = ResentAnswer(r)
  <2>1. a = Ans(r, "result_lost", 0) \/ a = Ans(r, "malformed", 0) \/ \E e \in Known(r.corr) : e.ans # Dropped /\ a = e.ans
    BY <1>2, ResentIs
  <2> QED BY <1>1, <2>1 DEF Stored, Known
<1> QED BY <1>1, <1>2 DEF Carried

\* A request that is not behind the newest one is newer.
LEMMA FreshIsNewer ==
  ASSUME LinkType, Named, Ordered, NEW r \in Asked, r \in Sendable, OfSession(r), ~Resent(r)
  PROVE  Past(newest) < Past(r.corr) /\ Known(r.corr) = {}
<1>1. r.sid # NoSid /\ r.sid = last /\ newest # 0
  BY LinkAssumption, ProbeAssumption, CorrAssumption DEF OfSession, LinkType, ProbeType, Ordered, Corr
<1>2. Ahead(r.corr, newest) /\ Known(r.corr) = {}
  BY <1>1 DEF Resent
<1>3. r.corr \in Corr /\ newest \in Corr /\ corr \in Corr
  BY AskedIs DEF Ordered, LinkType, HostType
<1>4. Past(r.corr) <= MaxCorrs /\ Past(newest) <= MaxCorrs
  <2>1. Past(r.corr) <= Past(corr) /\ Past(newest) <= Past(corr) /\ Past(corr) <= MaxCorrs
    BY DEF Named, Ordered, LinkType, HostType
  <2> QED BY <1>3, <2>1, PastRange, LinkAssumption
<1> QED BY <1>2, <1>3, <1>4, PastAhead

\* What the probe's table and queues are after a request was handled.
LEMMA CarriedTable ==
  ASSUME NEW c, NEW r, NEW a, Carried(c, r, a)
  PROVE  /\ Stored' \subseteq Stored \cup {a}
         /\ \A e \in resend' : e \in resend \/ (e.corr = r.corr /\ newest' = r.corr)
         /\ newest' = newest \/ (newest' = r.corr /\ OfSession(r) /\ ~Resent(r))
         /\ Reaches(c, r, "write") => newest' = r.corr /\ OfSession(r) /\ ~Resent(r)
<1>1. CASE UNCHANGED table /\ ~Reaches(c, r, "write")
  BY <1>1 DEF table, Stored
<1>2. CASE OfSession(r) /\ ~Resent(r) /\ newest' = r.corr /\ resend' = Kept(resend, r, a)
  <2>1. ASSUME NEW e \in resend' PROVE (e.corr = r.corr /\ e.ans \in {a, Dropped}) \/ e \in resend
    BY <1>2, KeptSubset
  <2> QED BY <1>2, <2>1 DEF Stored
<1> QED BY <1>1, <1>2 DEF Carried

\* After the oldest request that waits was handled.
LEMMA ProcessKeepsFirst ==
  ASSUME FirstInv, NEW c \in Route, Process(c)
  PROVE  FirstInv'
<1>0. /\ LinkType /\ Named /\ InLine /\ Ordered /\ OkRan /\ Unsent
      /\ LinkType' /\ UNCHANGED <<hostVars, toProbe, toHost, garbled, told, cut>>
      /\ \A t \in Route : Way(t)' = Way(t)
      /\ \A t \in Route : t # c => inbox'[t] = inbox[t] /\ answers'[t] = answers[t]
  BY ProcessMoves DEF FirstInv
<1>1. PICK r \in Sendable, a \in Answer :
        /\ r \in Way(c) /\ Carried(c, r, a)
        /\ order' = IF Reaches(c, r, "write") THEN Append(order, r.corr) ELSE order
        /\ Range(answers'[c]) = Range(answers[c]) \cup {a}
  BY <1>0, ProcessMoves, ZenonT(60)
<1>2. /\ UNCHANGED <<corr, pc, confirm, out, todo, told>> /\ Line' = Line /\ Waits' = Waits
  BY <1>0 DEF hostVars, Line, Waits
<1>3. r \in Asked /\ r.corr \in Corr /\ corr \in Corr /\ Past(r.corr) <= Past(corr)
  BY <1>0, <1>1, AskedHas, AskedIs DEF Named, LinkType, HostType
<1>4. /\ Stored' \subseteq Stored \cup {a}
      /\ \A e \in resend' : e \in resend \/ (e.corr = r.corr /\ newest' = r.corr)
      /\ newest' = newest \/ (newest' = r.corr /\ OfSession(r) /\ ~Resent(r))
      /\ Reaches(c, r, "write") => newest' = r.corr /\ OfSession(r) /\ ~Resent(r)
  BY <1>1, CarriedTable
<1>5. newest \in Corr /\ newest' \in Corr /\ (newest' = newest \/ Past(newest) < Past(newest'))
  BY <1>0, <1>1, <1>3, <1>4, FreshIsNewer DEF Ordered
<1>6. AllBack' \subseteq AllBack \cup {a}
  <2>1. ASSUME NEW t \in Route PROVE Back(t)' \subseteq Back(t) \cup {a}
    <3>1. toHost' = toHost
      BY <1>0
    <3>2. Range(answers'[t]) \subseteq Range(answers[t]) \cup {a}
      BY <1>0, <1>1
    <3> QED BY <3>1, <3>2 DEF Back
  <2> QED BY <1>4, <2>1 DEF AllBack
<1>7. a.req \in Asked
  <2>1. a.req = r \/ a \in Stored
    BY <1>1, CarriedAnswer
  <2> QED BY <1>3, <2>1, AskedHas
<1>8. Asked' \subseteq Asked
  <2>1. Waits' \subseteq Asked /\ \A t \in Route : Way(t)' \subseteq Asked
    BY <1>0, <1>2, AskedHas
  <2>2. \A b \in AllBack' : b.req \in Asked
    BY <1>6, <1>7, AskedHas
  <2> QED BY <2>1, <2>2, AskedFrom
<1>9. Named' /\ InLine'
  BY <1>0, <1>2, <1>8 DEF Named, InLine, Past, OfSession
<1>10. order \in Seq(Corr)
  BY <1>0 DEF LinkType, PastType
<1>11. /\ Range(order) \subseteq Range(order') /\ \A d \in Range(order') : d \in Range(order) \/ d = r.corr
       /\ Reaches(c, r, "write") => r.corr \in Range(order')
  <2>1. Range(Append(order, r.corr)) = Range(order) \cup {r.corr}
    BY <1>3, <1>10, RangeAppend
  <2> QED BY <1>1, <2>1
<1>12. Ordered'
  <2>1. Past(newest) \in Int /\ Past(newest') \in Int /\ Past(corr) \in Int /\ Past(newest) <= Past(newest')
    BY <1>3, <1>5, PastRange
  <2>2. Past(newest') <= Past(corr')
    BY <1>0, <1>2, <1>3, <1>4 DEF Ordered
  <2>3. ASSUME NEW e \in resend' PROVE e.corr \in Corr /\ Past(e.corr) <= Past(newest')
    <3>1. CASE e \in resend
      BY <1>0, <2>1, <3>1, PastRange DEF Ordered
    <3>2. CASE e.corr = r.corr /\ newest' = r.corr
      BY <1>3, <2>1, <3>2
    <3> QED BY <1>4, <3>1, <3>2
  <2>4. CASE ~Reaches(c, r, "write")
    <3>1. order' = order
      BY <1>1, <2>4
    <3>2. \A i \in 1..Len(order) : order[i] \in Corr
      BY <1>10, ElementOfSeq
    <3>3. \A i \in 1..Len(order) : Past(order[i]) <= Past(newest')
      BY <1>0, <2>1, <3>2, PastRange DEF Ordered
    <3> QED BY <1>0, <1>5, <2>2, <2>3, <3>1, <3>3 DEF Ordered, Past
  <2>5. CASE Reaches(c, r, "write")
    <3>1. order' = Append(order, r.corr) /\ newest' = r.corr /\ Past(newest) < Past(r.corr)
      BY <1>0, <1>1, <1>3, <1>4, <2>5, FreshIsNewer
    <3>2. Len(order') = Len(order) + 1 /\ Len(order) \in Nat /\ \A i \in 1..(Len(order) + 1) : order'[i] = IF i <= Len(order) THEN order[i] ELSE r.corr
      BY <1>3, <1>10, <3>1
    <3>3. \A i \in 1..Len(order) : order[i] \in Corr /\ Past(order[i]) <= Past(newest)
      BY <1>0, <1>10, ElementOfSeq DEF Ordered
    <3>4. \A i \in 1..Len(order) : Past(order[i]) \in Int /\ Past(order[i]) < Past(r.corr)
      BY <1>3, <2>1, <3>1, <3>3, PastRange
    <3>5. \A i \in 1..Len(order') : Past(order'[i]) <= Past(newest')
      BY <2>1, <3>1, <3>2, <3>4
    <3>6. \A i, j \in 1..Len(order') : i < j => Past(order'[i]) < Past(order'[j])
      <4> SUFFICES ASSUME NEW i \in 1..Len(order'), NEW j \in 1..Len(order'), i < j
                   PROVE  Past(order'[i]) < Past(order'[j])
        OBVIOUS
      <4>1. CASE j <= Len(order)
        BY <1>0, <3>2, <4>1 DEF Ordered
      <4>2. CASE j = Len(order) + 1
        BY <3>2, <3>4, <4>2
      <4> QED BY <3>2, <4>1, <4>2
    <3> QED BY <1>5, <2>2, <2>3, <3>5, <3>6 DEF Ordered, Past
  <2> QED BY <2>4, <2>5
<1>13. OkRan'
  <2>1. ASSUME NEW b \in AllBack', b.req.op = "write", b.res = "ok" PROVE b.req.corr \in Range(order')
    <3>1. CASE b \in AllBack
      BY <1>0, <1>11, <2>1, <3>1 DEF OkRan
    <3>2. CASE b = a /\ b \notin AllBack
      <4>1. a \notin Stored
        BY <3>2, AskedHas
      <4>2. a.req = r /\ (r.op = "confirm" \/ Reaches(c, r, "write") \/ r.op # "write" \/ ~OfSession(r))
        BY <1>1, <2>1, <3>2, <4>1, CarriedAnswer
      <4>3. ~OfSession(r) => r.op = "confirm"
        BY <1>1 DEF Sendable, OfSession
      <4>4. Reaches(c, r, "write")
        BY <2>1, <3>2, <4>2, <4>3
      <4> QED BY <1>11, <3>2, <4>2, <4>4
    <3> QED BY <1>6, <3>1, <3>2
  <2> QED BY <1>0, <1>2, <1>11, <2>1 DEF OkRan
<1>14. ASSUME NEW d, Nowhere(d) PROVE Nowhere(d)'
  <2>1. d # r.corr /\ d \notin Range(order)
    BY <1>1, <1>14 DEF Nowhere
  <2> QED BY <1>0, <1>11, <1>14, <2>1 DEF Nowhere
<1>15. Unsent'
  BY <1>0, <1>2, <1>14 DEF Unsent
<1> QED BY <1>0, <1>9, <1>12, <1>13, <1>15 DEF FirstInv

-------------------------------------------------------------------------------
(* The invariant of what was sent. *)

\* A session that was just opened: its answer is all that is remembered.
LEMMA FirstInit == LinkInit => FirstInv
<1> SUFFICES ASSUME LinkInit PROVE FirstInv
  OBVIOUS
<1> DEFINE r == [sid |-> Holder, corr |-> FirstCorr, op |-> "open", arg |-> 0]
           a == Ans(r, "ok", boot)
<1>1. FirstCorr \in Corr /\ FirstCorr \in 0..CorrMax /\ Past(FirstCorr) = 0 /\ FirstCorr # 0
  BY LinkAssumption, CorrAssumption DEF Past, Corr
<1>2. r \in Requests /\ a \in Answer /\ boot \in Nat /\ a.req = r /\ a # Dropped /\ r # Dropped
  <2>1. boot \in Nat
    BY ProbeAssumption DEF LinkInit
  <2>2. r \in Requests
    BY <1>1, LinkAssumption DEF Requests, Op, LockFree, OpenOps
  <2>3. a \in Answer /\ a.req = r
    BY <2>1, <2>2, AnsType DEF Res, Ans
  <2> QED BY <2>1, <2>2, <2>3, ProbeAssumption
<1>3. resend = {[corr |-> FirstCorr, req |-> r, ans |-> a]}
  BY DEF LinkInit
<1> HIDE DEF r, a
<1>4. Stored = {a}
  BY <1>2, <1>3 DEF Stored
<1>5. out = <<>> /\ todo = <<>> /\ Line = <<>> /\ Waits = {}
  <2>1. out = <<>> /\ todo = <<>>
    BY DEF LinkInit
  <2>2. Line = <<>>
    BY <2>1 DEF Line
  <2> QED BY <2>1, <2>2, RangeEmpty DEF Waits
<1>6. \A t \in Route : Way(t) = {} /\ Back(t) = {}
  BY RangeEmpty DEF LinkInit, Way, Queue, Back
<1>7. AllBack = {a}
  BY <1>4, <1>6 DEF AllBack
<1>8. Asked = {a.req}
  BY <1>5, <1>6, <1>7 DEF Asked
<1>9. LinkType
  <2>1. ProbeType
    <3>1. resend \subseteq Entry
      BY <1>1, <1>2, <1>3 DEF Entry
    <3>2. answers \in [Route -> Seq(Answer)] /\ subs \in [Fn -> Route \cup {NoRoute}]
      BY DEF LinkInit
    <3> QED BY <1>1, <3>1, <3>2, LinkAssumption, ProbeAssumption DEF LinkInit, ProbeType, TypeOK
  <2>2. HostType
    <3>1. Past(corr) <= MaxCorrs /\ corr \in Corr
      BY <1>1, LinkAssumption DEF LinkInit
    <3>2. out \in Seq(Sendable) /\ todo \in Seq(Sendable) /\ Len(out) <= MaxInflight
      BY <1>5, LinkAssumption
    <3> QED BY <1>5, <3>1, <3>2, LinkAssumption DEF LinkInit, HostType, NoConfirm, Confirms
  <2>3. WireType
    <3> DEFINE S == Seq([req : Sendable, done : BOOLEAN])
               T == Seq(Answer \cup {Torn})
    <3>0. <<>> \in S /\ <<>> \in T
      BY EmptySeq
    <3> HIDE DEF S, T
    <3>1. inbox \in [Route -> S] /\ toHost \in [Route -> T]
      BY <3>0 DEF LinkInit
    <3>2. toProbe \in [Route -> Seq(Sendable)]
      BY DEF LinkInit
    <3> QED BY <3>1, <3>2 DEF S, T, WireType
  <2>4. PastType
    <3>1. order \in Seq(Corr)
      BY EmptySeq DEF LinkInit
    <3>2. told = {} /\ cut = FALSE
      BY DEF LinkInit
    <3> QED BY <3>1, <3>2 DEF PastType
  <2> QED BY <2>1, <2>2, <2>3, <2>4 DEF LinkType
<1>10. Named
  <2>1. a.req.corr = FirstCorr /\ corr = FirstCorr /\ told = {}
    BY <1>2 DEF LinkInit, r
  <2> QED BY <1>1, <1>8, <2>1 DEF Named
<1>11. InLine
  BY <1>5 DEF InLine
<1>12. Ordered
  <2>1. newest = FirstCorr /\ corr = FirstCorr /\ order = <<>>
    BY DEF LinkInit
  <2> QED BY <1>1, <1>3, <2>1 DEF Ordered
<1>13. OkRan
  <2>1. a.req.op # "write" /\ told = {}
    BY <1>2 DEF LinkInit, r
  <2> QED BY <1>7, <2>1 DEF OkRan
<1>14. Unsent
  BY DEF LinkInit, Unsent
<1> QED BY <1>9, <1>10, <1>11, <1>12, <1>13, <1>14 DEF FirstInv

\* Nothing that is seen moves.
LEMMA FirstStutters == FirstInv /\ UNCHANGED linkVars => FirstInv'
<1> SUFFICES ASSUME FirstInv, UNCHANGED linkVars PROVE FirstInv'
  OBVIOUS
<1>1. LinkType'
  <2>1. ProbeType'
    BY CalmType DEF FirstInv, LinkType, linkVars
  <2> QED BY <2>1 DEF FirstInv, LinkType, HostType, WireType, PastType, linkVars, hostVars, wireVars, pastVars, Past
<1>2. WireMoves
  BY DEF WireMoves, linkVars, hostVars, wireVars, pastVars, vars, table, Way, Queue, Back
<1> QED BY <1>1, <1>2, WireKeepsFirst

LEMMA FirstNext == FirstInv /\ [LinkNext]_linkVars => FirstInv'
<1> SUFFICES ASSUME FirstInv, [LinkNext]_linkVars PROVE FirstInv'
  OBVIOUS
<1>0. LinkType /\ Unsent
  BY DEF FirstInv
<1>1. CASE SubscribeAgain \/ Call
  <2>1. use' \in Use /\ \E requests : IsCall(requests) /\ Begin(requests)
    BY <1>0, <1>1, CallBegins DEF LinkType
  <2> QED BY <2>1, BeginKeepsFirst
<1>2. CASE PutOut
  BY <1>0, <1>2, PutOutMoves, HostKeepsFirst
<1>3. CASE \E f : ResultComes(f) \/ ReadPast(f) \/ ConfirmAnswered(f)
  <2>1. PICK f : ResultComes(f) \/ ReadPast(f) \/ ConfirmAnswered(f)
    BY <1>3
  <2>2. CASE ResultComes(f)
    BY <1>0, <2>2, ResultMoves, HostKeepsFirst
  <2>3. CASE ReadPast(f)
    BY <1>0, <2>3, ReadPastMoves, HostKeepsFirst
  <2>4. CASE ConfirmAnswered(f)
    <3>1. confirm.after = "call" => out = <<>>
      BY <1>0, <2>4 DEF Unsent, ConfirmAnswered
    <3> QED BY <1>0, <2>4, <3>1, AnsweredMoves, HostKeepsFirst
  <2> QED BY <2>1, <2>2, <2>3, <2>4
<1>4. CASE BrokenComes
  BY <1>0, <1>4, BrokenMoves, HostKeepsFirst
<1>5. CASE NothingComes
  BY <1>0, <1>5, NothingMoves, HostKeepsFirst
<1>6. CASE SendConfirm
  BY <1>6, SendConfirmKeepsFirst
<1>7. CASE ConfirmMissed
  BY <1>0, <1>7, ConfirmMissedMoves, HostKeepsFirst
<1>8. CASE NoneConfirmed
  BY <1>0, <1>8, NoneMoves, HostKeepsFirst
<1>9. CASE LoseRequest
  BY <1>0, <1>9, LoseRequestMoves, WireKeepsFirst
<1>10. CASE LoseAnswer
  BY <1>0, <1>10, LoseAnswerMoves, WireKeepsFirst
<1>11. CASE \E c \in Route : Receive(c) \/ Process(c) \/ Sent(c) \/ CloseRoute(c)
  <2>1. PICK c \in Route : Receive(c) \/ Process(c) \/ Sent(c) \/ CloseRoute(c)
    BY <1>11
  <2>2. CASE Receive(c)
    BY <1>0, <2>2, ReceiveMoves, WireKeepsFirst
  <2>3. CASE Process(c)
    BY <2>3, ProcessKeepsFirst
  <2>4. CASE Sent(c)
    BY <1>0, <2>4, SentMoves, WireKeepsFirst
  <2>5. CASE CloseRoute(c)
    BY <1>0, <2>5, CloseRouteMoves, WireKeepsFirst
  <2> QED BY <2>1, <2>2, <2>3, <2>4, <2>5
<1>12. CASE UNCHANGED linkVars
  BY <1>12, FirstStutters
<1> QED BY <1>1, <1>2, <1>3, <1>4, <1>5, <1>6, <1>7, <1>8, <1>9, <1>10, <1>11, <1>12 DEF LinkNext

LEMMA FirstInvariant == LinkSpec => []FirstInv
BY FirstInit, FirstNext, PTL DEF LinkSpec

\* Requests in flight run in the order they were given and none of them twice, however often they
\* went out and whatever was lost, for every number of them and every table (receive, _resent).
THEOREM InOrder == LinkSpec => []RunsInOrder
<1>1. FirstInv => RunsInOrder
  <2> SUFFICES ASSUME FirstInv PROVE RunsInOrder
    OBVIOUS
  <2> SUFFICES ASSUME NEW i \in 1..Len(order), NEW j \in 1..Len(order), i < j
               PROVE  Ahead(order[j], order[i])
    BY DEF RunsInOrder
  <2>1. order[i] \in Corr /\ order[j] \in Corr /\ newest \in Corr /\ corr \in Corr
    BY ElementOfSeq DEF FirstInv, LinkType, HostType, PastType, Ordered
  <2>2. /\ Past(order[i]) < Past(order[j]) /\ Past(order[j]) <= Past(newest)
        /\ Past(newest) <= Past(corr) /\ Past(corr) <= MaxCorrs
    BY DEF FirstInv, LinkType, HostType, Ordered
  <2>3. Past(order[i]) <= MaxCorrs /\ Past(order[j]) <= MaxCorrs
    BY <2>1, <2>2, PastRange, LinkAssumption
  <2> QED BY <2>1, <2>2, <2>3, PastAhead
<1> QED BY <1>1, FirstInvariant, PTL

-------------------------------------------------------------------------------
(* Where no request is lost: the host's steps. *)

\* A request of the call has its place in the line.
LEMMA PlaceInLine ==
  ASSUME HostType, InLine
  PROVE  /\ Waits # {} => Line # <<>>
         /\ Line # <<>> => Line[1] \in Waits /\ Past(Line[1].corr) \in Int /\ Len(Line) \in Nat \ {0}
         /\ \A i \in 1..Len(Line) : Line[i] \in Waits
         /\ \A r \in Waits :
              /\ OfSession(r) /\ r.corr \in Corr /\ Past(r.corr) \in Int /\ Past(Line[1].corr) <= Past(r.corr)
              /\ \E i \in 1..Len(Line) : Line[i] = r /\ Past(r.corr) = Past(Line[1].corr) + i - 1
<1>1. Line \in Seq(Sendable) /\ Len(Line) \in Nat /\ (Line = <<>> <=> Len(Line) = 0)
  BY LineIs, EmptySeq, LenProperties
<1>2. \A r : r \in Waits <=> \E i \in 1..Len(Line) : Line[i] = r
  BY <1>1, RangeIs DEF Waits
<1>3. \A r \in Waits : r.corr \in Corr /\ Past(r.corr) \in Int
  <2>1. Waits \subseteq Sendable
    BY LineIs
  <2> QED BY <2>1, CorrAssumption, PastRange DEF Sendable, Requests, Corr
<1>4. ASSUME Line # <<>> PROVE Line[1] \in Waits /\ Past(Line[1].corr) \in Int /\ Len(Line) \in Nat \ {0}
  BY <1>1, <1>2, <1>3, <1>4
<1>5. ASSUME NEW r \in Waits
      PROVE  /\ Line # <<>> /\ OfSession(r) /\ Past(Line[1].corr) <= Past(r.corr)
             /\ \E i \in 1..Len(Line) : Line[i] = r /\ Past(r.corr) = Past(Line[1].corr) + i - 1
  <2>1. PICK i \in 1..Len(Line) : Line[i] = r
    BY <1>2
  <2>2. Line # <<>>
    BY <1>1, <2>1
  <2>3. OfSession(r) /\ Past(r.corr) = Past(Line[1].corr) + i - 1
    BY <2>1 DEF InLine
  <2> QED BY <1>1, <1>4, <2>1, <2>2, <2>3
<1> QED BY <1>2, <1>3, <1>4, <1>5

\* The first request without an answer is never an older one.
LEMMA HeadAdvances ==
  ASSUME HostType, InLine, Line' = Line \/ (Line # <<>> /\ Line' = Tail(Line)) \/ Line' = <<>>, Line' # <<>>
  PROVE  /\ Line # <<>> /\ Past(Line[1].corr) \in Int /\ Past(Line'[1].corr) \in Int
         /\ Past(Line[1].corr) <= Past(Line'[1].corr)
<1>1. CASE Line' = Line
  BY <1>1, PlaceInLine
<1>2. CASE Line # <<>> /\ Line' = Tail(Line)
  <2>1. 2 \in 1..Len(Line) /\ Line'[1] = Line[2]
    <3> DEFINE s == Line
               u == Tail(s)
    <3>1. s \in Seq(Sendable) /\ s # <<>>
      BY <1>2, LineIs
    <3>2. Line' = u
      BY <1>2
    <3> HIDE <1>2 DEF s
    <3>3. /\ u \in Seq(Sendable) /\ Len(u) = Len(s) - 1 /\ Len(s) \in Nat \ {0}
          /\ \A i \in 1..Len(u) : u[i] = s[i + 1]
      BY <3>1, HeadTailProperties, EmptySeq
    <3> HIDE DEF u
    <3>4. Len(u) # 0
      BY <3>2, <3>3, EmptyIsZero
    <3>5. 2 \in 1..Len(s) /\ u[1] = s[2]
      BY <3>3, <3>4
    <3> QED BY <3>2, <3>5 DEF s
  <2>2. Past(Line[2].corr) = Past(Line[1].corr) + 2 - 1
    BY <2>1 DEF InLine
  <2> QED BY <1>2, <2>1, <2>2, PlaceInLine
<1> QED BY <1>1, <1>2

\* What was processed stays so as long as the probe handles nothing.
LEMMA SameReached == newest' = newest => \A r : Reached(r)' <=> Reached(r)
BY DEF Reached, Past

LEMMA SameKept ==
  ASSUME resend' = resend
  PROVE  (Entries => Entries') /\ \A r : StillKept(r)' <=> StillKept(r)
BY DEF Entries, Stored, StillKept, Known

\* Queues that nothing comes to or leaves keep their order.
LEMMA SameQueues ==
  ASSUME NEW t, toProbe'[t] = toProbe[t], inbox'[t] = inbox[t], newest' = newest, Waits' \subseteq Waits
  PROVE  (NoGap(t) => NoGap(t)') /\ (DoneReached(t) => DoneReached(t)')
<1>1. Queue(t)' = Queue(t)
  BY DEF Queue
<1>2. \A r : (LineInOrder(t, r) => LineInOrder(t, r)') /\ (QueueInOrder(t, r) => QueueInOrder(t, r)')
  BY <1>1 DEF LineInOrder, QueueInOrder
<1>3. NoGap(t) => NoGap(t)'
  BY <1>2 DEF NoGap
<1>4. DoneReached(t) => DoneReached(t)'
  BY SameReached DEF DoneReached, OfSession
<1> QED BY <1>3, <1>4

\* A step of the host in a call that puts nothing on the way.
LEMMA HostKeepsWhole ==
  ASSUME WholeInv, FirstInv', HostMoves, UNCHANGED <<toProbe, inbox>>, garbled' => garbled,
         pc' = "exchange" => out' = <<>> \/ (pc = "exchange" /\ conn' = conn /\ Range(out') \subseteq Range(out))
  PROVE  WholeInv'
<1>0. /\ FirstInv /\ Entries /\ Windowed /\ Whole /\ HostType /\ InLine /\ Named
      /\ UNCHANGED <<newest, resend, cut>>
  BY DEF WholeInv, FirstInv, LinkType, HostMoves, vars, table
<1>1. /\ Waits' \subseteq Waits /\ \A t \in Route : Way(t)' = Way(t) /\ Back(t)' \subseteq Back(t)
  BY <1>0, InLineMoves, WaySame DEF HostMoves
<1>2. \A r : Reached(r)' <=> Reached(r)
  BY <1>0, SameReached
<1>3. Entries'
  BY <1>0, SameKept
<1>4. Windowed'
  <2> SUFFICES ASSUME Line' # <<>>
               PROVE  /\ InReach(Past(newest))'
                      /\ \A t \in Route : \A s \in Way(t) : OfSession(s) => InReach(Past(s.corr))'
    BY <1>1 DEF Windowed, OfSession
  <2>1. /\ Line # <<>> /\ Past(Line[1].corr) \in Int /\ Past(Line'[1].corr) \in Int
        /\ Past(Line[1].corr) <= Past(Line'[1].corr)
    BY <1>0, HeadAdvances DEF HostMoves
  <2>2. ASSUME NEW p \in Int, InReach(p) PROVE p <= Past(Line'[1].corr) + MaxInflight - 1
    BY <2>1, <2>2, LinkAssumption DEF InReach
  <2>3. newest \in Corr /\ \A t \in Route : \A s \in Way(t) : s.corr \in Corr
    BY <1>0, AskedIs DEF FirstInv, Ordered
  <2>4. Past(newest) <= Past(Line'[1].corr) + MaxInflight - 1
    BY <1>0, <2>1, <2>2, <2>3, PastRange DEF Windowed
  <2>5. ASSUME NEW t \in Route, NEW s \in Way(t), OfSession(s)
        PROVE  Past(s.corr) <= Past(Line'[1].corr) + MaxInflight - 1
    <3>1. Past(s.corr) \in Int /\ InReach(Past(s.corr))
      BY <1>0, <2>1, <2>3, <2>5, PastRange DEF Windowed
    <3> QED BY <2>2, <3>1
  <2> QED BY <1>0, <2>4, <2>5 DEF InReach, Past
<1>5. Whole'
  <2> SUFFICES ASSUME ~cut' PROVE Together'
    BY DEF Whole
  <2>1. /\ ~garbled /\ AllKept /\ OutComes /\ NoneLost
        /\ \A t \in Route : NoGap(t) /\ DoneReached(t)
        /\ \A x \in told : x.what # "result_lost"
    BY <1>0 DEF Whole, Together
  <2>2. AllKept'
    BY <1>0, <1>1, <1>2, <2>1, SameKept DEF AllKept
  <2>3. OutComes'
    <3>1. CASE out' = <<>>
      BY <3>1, RangeEmpty DEF OutComes
    <3>2. CASE pc = "exchange" /\ conn' = conn /\ Range(out') \subseteq Range(out)
      BY <1>0, <1>1, <1>2, <2>1, <3>2 DEF OutComes, HostType
    <3> QED BY <3>1, <3>2 DEF OutComes
  <2>4. NoneLost'
    BY <1>1, <2>1 DEF NoneLost
  <2>5. \A t \in Route : NoGap(t)' /\ DoneReached(t)'
    BY <1>0, <1>1, <2>1, SameQueues
  <2>6. ASSUME NEW x \in told' PROVE x.what # "result_lost"
    <3>1. CASE x \in told
      BY <2>1, <3>1
    <3>2. CASE \E r \in Waits : r.op = "write" /\ \E a \in Back(conn) : a.req.corr = r.corr /\ a.res = x.what
      BY <1>0, <2>1, <3>2 DEF NoneLost, HostType
    <3> QED BY <3>1, <3>2 DEF HostMoves, Told
  <2> QED BY <2>1, <2>2, <2>3, <2>4, <2>5, <2>6 DEF Together
<1> QED BY <1>3, <1>4, <1>5 DEF WholeInv

\* What goes out follows, in the order of the line, what is out.
LEMMA GoIs ==
  ASSUME LinkType, PutOut
  PROVE  LET go == SubSeq(todo, 1, Free)
         IN /\ Free \in 1..Len(todo) /\ Free + Len(out) <= MaxInflight /\ Len(out) \in Nat
            /\ go \in Seq(Sendable) /\ Len(go) = Free /\ out' = out \o go /\ Range(out') = Range(out) \cup Range(go)
            /\ \A k \in 1..Free : go[k] = Line[Len(out) + k]
            /\ \A x : x \in Range(go) <=> \E k \in 1..Free : go[k] = x
<1>0. todo \in Seq(Sendable) /\ out \in Seq(Sendable) /\ Len(todo) \in Nat /\ Len(out) \in Nat
  BY LenProperties DEF LinkType, HostType
<1>1. Free \in 1..Len(todo) /\ Free + Len(out) <= MaxInflight
  BY <1>0, FreeIs DEF LinkType, PutOut
<1> DEFINE go == SubSeq(todo, 1, Free)
<1>2. go \in Seq(Sendable) /\ Len(go) = Free /\ \A i \in 1..Free : go[i] = todo[i]
  <2>1. \A i \in 1..Free : todo[i] \in Sendable
    BY <1>0, <1>1, ElementOfSeq
  <2> QED BY <1>1, <2>1, SubSeqProperties
<1>3. out' = out \o go
  BY DEF PutOut
<1> HIDE DEF go
<1>4. Range(out \o go) = Range(out) \cup Range(go)
  BY <1>0, <1>2, RangeConcat
<1>5. \A x : x \in Range(go) <=> \E k \in 1..Free : go[k] = x
  BY <1>2, RangeIs
<1>6. \A k \in 1..Free : go[k] = Line[Len(out) + k]
  BY <1>0, <1>1, <1>2, LineIs DEF LinkType
<1>7. /\ Free \in 1..Len(todo) /\ Free + Len(out) <= MaxInflight /\ Len(out) \in Nat
      /\ go \in Seq(Sendable) /\ Len(go) = Free /\ out' = out \o go /\ Range(out') = Range(out) \cup Range(go)
      /\ \A k \in 1..Free : go[k] = Line[Len(out) + k]
      /\ \A x : x \in Range(go) <=> \E k \in 1..Free : go[k] = x
  BY <1>0, <1>1, <1>2, <1>3, <1>4, <1>5, <1>6
<1> QED BY <1>7 DEF go

LEMMA PutOutKeepsWhole ==
  ASSUME WholeInv, PutOut
  PROVE  WholeInv'
<1>0. /\ FirstInv /\ Entries /\ Windowed /\ Whole /\ LinkType /\ HostType /\ InLine /\ pc = "exchange"
      /\ UNCHANGED <<newest, resend, cut, told, garbled, inbox, conn>> /\ conn \in Route
  BY DEF WholeInv, FirstInv, LinkType, HostType, PutOut, vars, table, pastVars
<1> DEFINE go == SubSeq(todo, 1, Free)
           s == toProbe[conn]
           u == s \o go
<1>1. /\ LinkType' /\ HostMoves /\ Line' = Line /\ Waits' = Waits /\ toProbe'[conn] = u
      /\ \A t \in Route : t # conn => toProbe'[t] = toProbe[t]
  BY <1>0, PutOutMoves DEF Waits
<1>2. /\ Free \in Nat /\ Free + Len(out) <= MaxInflight /\ Len(out) \in Nat
      /\ go \in Seq(Sendable) /\ Len(go) = Free /\ Range(out') = Range(out) \cup Range(go)
      /\ \A k \in 1..Free : go[k] = Line[Len(out) + k]
      /\ \A x : x \in Range(go) <=> \E k \in 1..Free : go[k] = x
  BY <1>0, GoIs
<1>3. s \in Seq(Sendable)
  BY <1>0 DEF LinkType, WireType
<1> HIDE DEF go, s
<1>4. /\ u \in Seq(Sendable) /\ Len(u) = Len(s) + Free /\ Len(s) \in Nat
      /\ \A i \in 1..(Len(s) + Free) : u[i] = IF i <= Len(s) THEN s[i] ELSE go[i - Len(s)]
      /\ Range(u) = Range(s) \cup Range(go)
  <2>1. u \in Seq(Sendable) /\ Range(u) = Range(s) \cup Range(go)
    BY <1>2, <1>3, RangeConcat
  <2>2. /\ Len(u) = Len(s) + Len(go) /\ Len(s) \in Nat
        /\ \A i \in 1..(Len(s) + Len(go)) : u[i] = IF i <= Len(s) THEN s[i] ELSE go[i - Len(s)]
    BY <1>2, <1>3, ConcatProperties, LenProperties, ZenonT(60)
  <2> QED BY <1>2, <2>1, <2>2
<1> HIDE DEF u
<1>5. FirstInv'
  BY <1>0, <1>1, HostKeepsFirst
<1>6. Entries'
  BY <1>0, SameKept
<1>7. \A t \in Route : Way(t)' = IF t = conn THEN Way(t) \cup Range(go) ELSE Way(t)
  BY <1>0, <1>1, <1>4 DEF Way, Queue, s
<1>8. \A x \in Range(go) : x \in Waits /\ \E i \in 1..Len(Line) : Line[i] = x /\ i <= MaxInflight
  <2> SUFFICES ASSUME NEW x \in Range(go)
               PROVE  x \in Waits /\ \E i \in 1..Len(Line) : Line[i] = x /\ i <= MaxInflight
    OBVIOUS
  <2>1. PICK k \in 1..Free : go[k] = x
    BY <1>2
  <2>2. Len(out) + k \in 1..Len(Line) /\ Len(out) + k <= MaxInflight /\ Line[Len(out) + k] = x
    <3>1. Len(Line) = Len(out) + Len(todo) /\ Free <= Len(todo) /\ Len(todo) \in Nat
      BY <1>0, LineIs, FreeIs, LenProperties DEF HostType
    <3> QED BY <1>2, <2>1, <3>1, LinkAssumption
  <2>3. x \in Waits
    BY <1>0, <2>2, PlaceInLine
  <2> QED BY <2>2, <2>3
<1>9. Windowed'
  <2> SUFFICES ASSUME Line # <<>>
               PROVE  /\ InReach(Past(newest))
                      /\ \A t \in Route : \A x \in Way(t)' : OfSession(x) => InReach(Past(x.corr))
    BY <1>0, <1>1 DEF Windowed, OfSession, InReach, Past
  <2>1. /\ InReach(Past(newest))
        /\ \A t \in Route : \A x \in Way(t) : OfSession(x) => InReach(Past(x.corr))
    BY <1>0 DEF Windowed
  <2>2. ASSUME NEW x \in Range(go) PROVE InReach(Past(x.corr))
    <3>1. PICK i \in 1..Len(Line) : Line[i] = x /\ i <= MaxInflight
      BY <1>8
    <3>2. Past(x.corr) = Past(Line[1].corr) + i - 1
      BY <1>0, <3>1 DEF InLine
    <3>3. Past(Line[1].corr) \in Int /\ i \in Int
      BY <1>0, PlaceInLine
    <3> QED BY <3>1, <3>2, <3>3, LinkAssumption DEF InReach
  <2> QED BY <1>7, <2>1, <2>2
<1>10. Whole'
  <2> SUFFICES ASSUME ~cut' PROVE Together'
    BY DEF Whole
  <2>1. /\ ~garbled /\ AllKept /\ OutComes /\ NoneLost
        /\ \A t \in Route : NoGap(t) /\ DoneReached(t)
        /\ \A x \in told : x.what # "result_lost"
    BY <1>0 DEF Whole, Together
  <2>2. AllKept' /\ \A r : Reached(r)' <=> Reached(r)
    BY <1>0, <1>1, <2>1, SameKept, SameReached DEF AllKept
  <2>3. OutComes'
    BY <1>0, <1>2, <1>7, <2>1, <2>2 DEF OutComes
  <2>4. NoneLost'
    BY <1>1, <2>1 DEF NoneLost, HostMoves
  <2>5. \A t \in Route : t # conn => NoGap(t)' /\ DoneReached(t)'
    BY <1>0, <1>1, <2>1, SameQueues
  <2>6. DoneReached(conn)'
    BY <1>0, <2>1, <2>2 DEF DoneReached, OfSession
  <2>7. Queue(conn)' = Queue(conn)
    BY <1>0 DEF Queue
  <2>8. ASSUME NEW r \in Waits PROVE LineInOrder(conn, r)' /\ QueueInOrder(conn, r)'
    <3>1. LineInOrder(conn, r) /\ QueueInOrder(conn, r)
      BY <1>0, <2>1 DEF NoGap
    <3>2. QueueInOrder(conn, r)'
      BY <1>0, <3>1 DEF QueueInOrder
    <3>3. ASSUME NEW i \in 1..Len(u), After(newest, r, u[i])
          PROVE  r \in Queue(conn) \/ \E j \in 1..(i - 1) : u[j] = r
      <4>1. CASE i <= Len(s)
        <5>1. i \in 1..Len(s) /\ After(newest, r, s[i])
          BY <1>4, <3>3, <4>1
        <5>2. r \in Queue(conn) \/ \E j \in 1..(i - 1) : s[j] = r
          BY <3>1, <5>1 DEF LineInOrder, s
        <5> QED BY <1>4, <4>1, <5>2
      <4>2. CASE i > Len(s)
        <5>1. PICK k \in 1..Free : i = Len(s) + k /\ u[i] = go[k] /\ go[k] = Line[Len(out) + k]
          <6> DEFINE k == i - Len(s)
          <6>1. k \in 1..Free /\ i = Len(s) + k /\ u[i] = go[k]
            BY <1>2, <1>4, <4>2
          <6> HIDE DEF k
          <6> QED BY <1>2, <6>1
        <5>2. PICK m \in 1..Len(Line) : Line[m] = r /\ Past(r.corr) = Past(Line[1].corr) + m - 1
          BY <1>0, PlaceInLine
        <5>3. Len(out) + k \in 1..Len(Line)
          <6>1. Len(Line) = Len(out) + Len(todo) /\ Free <= Len(todo) /\ Len(todo) \in Nat
            BY <1>0, LineIs, FreeIs, LenProperties DEF HostType
          <6> QED BY <1>2, <5>1, <6>1
        <5>4. Past(u[i].corr) = Past(Line[1].corr) + (Len(out) + k) - 1
          BY <1>0, <5>1, <5>3 DEF InLine
        <5>10. Past(Line[1].corr) \in Int /\ m \in Nat \ {0} /\ k \in Nat \ {0} /\ k <= Free
          <6>1. Line # <<>>
            BY <1>0, PlaceInLine
          <6>2. Past(Line[1].corr) \in Int /\ Len(Line) \in Nat
            BY <1>0, <6>1, PlaceInLine
          <6> QED BY <1>2, <5>1, <5>2, <6>2, SMTT(30)
        <5>5. m < Len(out) + k /\ ~Reached(r)
          <6>1. Past(r.corr) < Past(u[i].corr) /\ Past(newest) < Past(r.corr)
            BY <3>3 DEF After
          <6>2. Past(newest) \in Int /\ Past(r.corr) \in Int
            BY <1>0, PlaceInLine, PastRange DEF FirstInv, Ordered
          <6>3. m < Len(out) + k
            BY <1>2, <5>2, <5>4, <5>10, <6>1
          <6> QED BY <6>1, <6>2, <6>3 DEF Reached
        <5>6. CASE m <= Len(out)
          <6>1. r \in Range(out)
            <7>1. out \in Seq(Sendable) /\ m \in 1..Len(out) /\ out[m] = r
              BY <1>0, <1>2, <5>2, <5>6, LineIs DEF HostType
            <7> QED BY <7>1, RangeIs
          <6>2. r \in Queue(conn) \/ r \in Range(s)
            BY <1>0, <2>1, <5>5, <6>1 DEF OutComes, Way, s
          <6>3. r \in Range(s) => \E j \in 1..Len(s) : s[j] = r
            BY <1>3, RangeIs
          <6> QED BY <1>4, <4>2, <6>2, <6>3
        <5>7. CASE m > Len(out)
          <6>1. m - Len(out) \in 1..Free /\ go[m - Len(out)] = r
            <7>1. m - Len(out) \in 1..Free
              BY <1>2, <5>5, <5>7, <5>10
            <7>2. go[m - Len(out)] = Line[Len(out) + (m - Len(out))] /\ Len(out) + (m - Len(out)) = m
              BY <1>2, <5>10, <7>1
            <7> QED BY <5>2, <7>1, <7>2
          <6>2. Len(s) + (m - Len(out)) \in 1..(i - 1) /\ u[Len(s) + (m - Len(out))] = r
            <7> DEFINE d == m - Len(out)
            <7>1. d \in 1..Free /\ d < k /\ go[d] = r
              BY <1>2, <5>5, <5>10, <6>1
            <7> HIDE DEF d
            <7>2. Len(s) + d \in 1..(i - 1) /\ Len(s) + d \in 1..(Len(s) + Free)
              BY <1>2, <1>4, <5>1, <5>10, <7>1, SMTT(30)
            <7>3. ~(Len(s) + d <= Len(s)) /\ (Len(s) + d) - Len(s) = d
              BY <1>2, <1>4, <7>1, SMTT(30)
            <7>4. u[Len(s) + d] = go[d]
              <8>1. u[Len(s) + d] = go[(Len(s) + d) - Len(s)]
                BY <1>4, <7>2, <7>3
              <8> QED BY <7>3, <8>1
            <7> QED BY <7>1, <7>2, <7>4 DEF d
          <6> QED BY <6>2
        <5> QED BY <1>2, <5>6, <5>7, <5>10
      <4> QED BY <1>4, <4>1, <4>2
    <3>4. LineInOrder(conn, r)'
      BY <1>0, <1>1, <2>7, <3>3 DEF LineInOrder
    <3> QED BY <3>2, <3>4
  <2>9. NoGap(conn)'
    BY <1>0, <1>1, <2>8 DEF NoGap
  <2> QED BY <1>0, <2>1, <2>2, <2>3, <2>4, <2>5, <2>6, <2>9 DEF Together
<1> QED BY <1>5, <1>6, <1>9, <1>10 DEF WholeInv

\* A call's requests are newer than all that was asked before.
LEMMA NewestCall ==
  ASSUME FirstInv, NEW requests, IsCall(requests)
  PROVE  \A r \in Range(requests) :
           /\ Past(r.corr) \in Int /\ ~Reached(r)
           /\ \A s \in Asked : Past(s.corr) \in Int /\ Past(s.corr) < Past(r.corr)
<1>0. LinkType /\ Named /\ Ordered /\ Past(corr) \in Int /\ Past(newest) \in Int /\ Past(newest) <= Past(corr)
  BY PastRange DEF FirstInv, LinkType, HostType, Ordered
<1> SUFFICES ASSUME NEW r \in Range(requests)
             PROVE  /\ Past(r.corr) \in Int /\ ~Reached(r)
                    /\ \A s \in Asked : Past(s.corr) \in Int /\ Past(s.corr) < Past(r.corr)
  OBVIOUS
<1>1. requests \in Seq(Sendable) /\ \A i \in 1..Len(requests) : Past(requests[i].corr) = Past(corr) + i
  BY DEF IsCall
<1>2. PICK i \in 1..Len(requests) : requests[i] = r
  BY <1>1, RangeIs
<1>3. Past(r.corr) = Past(corr) + i /\ i \in Int /\ i > 0
  BY <1>1, <1>2, LenProperties
<1>4. \A s \in Asked : Past(s.corr) \in Int /\ Past(s.corr) <= Past(corr)
  BY <1>0, AskedInt DEF Named
<1> QED BY <1>0, <1>3, <1>4 DEF Reached

LEMMA BeginKeepsWhole ==
  ASSUME WholeInv, use' \in Use, NEW requests, IsCall(requests), Begin(requests)
  PROVE  WholeInv'
<1>0. /\ FirstInv /\ Entries /\ Windowed /\ Whole /\ LinkType
      /\ UNCHANGED <<vars, toProbe, toHost, inbox, pastVars>>
      /\ out' = <<>> /\ Line' = requests /\ Waits' = Range(requests)
  BY BeginMoves DEF WholeInv, FirstInv
<1>1. /\ UNCHANGED <<newest, resend, told, cut>>
      /\ \A t \in Route : Way(t)' = Way(t) /\ Back(t)' = Back(t) /\ Queue(t)' = Queue(t)
  BY <1>0 DEF vars, table, pastVars, Way, Queue, Back
<1>2. FirstInv' /\ LinkType' /\ HostType' /\ InLine'
  <2>1. FirstInv'
    BY <1>0, BeginKeepsFirst
  <2> QED BY <2>1 DEF FirstInv, LinkType
<1>3. \A r \in Range(requests) :
           /\ Past(r.corr) \in Int /\ ~Reached(r)
           /\ \A s \in Asked : Past(s.corr) \in Int /\ Past(s.corr) < Past(r.corr)
  BY <1>0, NewestCall
<1>4. Entries'
  BY <1>0, <1>1, SameKept
<1>5. garbled' => garbled
  BY DEF Begin, Reopen
<1>6. requests # <<>> /\ requests[1] \in Range(requests)
  <2>1. requests \in Seq(Sendable) /\ requests # <<>>
    BY DEF IsCall
  <2>2. 1 \in 1..Len(requests)
    BY <2>1, EmptySeq
  <2> QED BY <2>1, <2>2, RangeIs
<1>7. Windowed'
  <2>1. Past(newest) < Past(requests[1].corr) /\ Past(newest) \in Int /\ Past(requests[1].corr) \in Int
    <3>1. Past(newest) \in Int
      BY <1>0, PastRange DEF FirstInv, Ordered
    <3> QED BY <1>3, <1>6, <3>1 DEF Reached
  <2>2. \A t \in Route : \A s \in Way(t) : Past(s.corr) \in Int /\ Past(s.corr) < Past(requests[1].corr)
    BY <1>3, <1>6, AskedHas
  <2>3. Past(newest) <= Past(requests[1].corr) + MaxInflight - 1
    BY <2>1, LinkAssumption
  <2>4. \A t \in Route : \A s \in Way(t) : Past(s.corr) <= Past(requests[1].corr) + MaxInflight - 1
    BY <2>1, <2>2, LinkAssumption
  <2> QED BY <1>0, <1>1, <2>3, <2>4 DEF Windowed, InReach, Past
<1>8. Whole'
  <2> SUFFICES ASSUME ~cut' PROVE Together'
    BY DEF Whole
  <2>1. /\ ~garbled /\ AllKept /\ OutComes /\ NoneLost
        /\ \A t \in Route : NoGap(t) /\ DoneReached(t)
        /\ \A x \in told : x.what # "result_lost"
    BY <1>0, <1>1 DEF Whole, Together
  <2>2. \A r : Reached(r)' <=> Reached(r)
    BY <1>1, SameReached
  <2>3. AllKept'
    BY <1>0, <1>3, <2>2 DEF AllKept
  <2>4. OutComes'
    BY <1>0, RangeEmpty DEF OutComes
  <2>5. NoneLost'
    <3>1. ASSUME NEW t \in Route, NEW a \in Back(t), NEW r \in Range(requests) PROVE r.corr # a.req.corr
      <4>1. a.req \in Asked
        BY AskedHas
      <4> QED BY <1>3, <4>1
    <3> QED BY <1>0, <1>1, <3>1 DEF NoneLost
  <2>6. ASSUME NEW t \in Route, NEW r \in Range(requests) PROVE LineInOrder(t, r)' /\ QueueInOrder(t, r)'
    <3>1. \A s \in Way(t) : ~After(newest, r, s)
      <4>1. \A s \in Way(t) : Past(s.corr) \in Int /\ Past(s.corr) < Past(r.corr) /\ Past(r.corr) \in Int
        BY <1>3, AskedHas
      <4> QED BY <4>1 DEF After
    <3>2. \A i \in 1..Len(toProbe[t]) : toProbe[t][i] \in Way(t)
      <4>1. toProbe[t] \in Seq(Sendable)
        BY <1>0 DEF LinkType, WireType
      <4>2. \A i \in 1..Len(toProbe[t]) : toProbe[t][i] \in Range(toProbe[t])
        BY <4>1, RangeIs
      <4> QED BY <4>2 DEF Way
    <3>3. \A i \in 1..Len(inbox[t]) : inbox[t][i].req \in Way(t)
      <4>1. inbox[t] \in Seq([req : Sendable, done : BOOLEAN])
        BY <1>0 DEF LinkType, WireType
      <4>2. \A i \in 1..Len(inbox[t]) : inbox[t][i] \in Range(inbox[t])
        BY <4>1, RangeIs
      <4> QED BY <4>2 DEF Way, Queue
    <3>4. LineInOrder(t, r)'
      BY <1>0, <1>1, <3>1, <3>2 DEF LineInOrder
    <3>5. QueueInOrder(t, r)'
      BY <1>0, <1>1, <3>1, <3>3 DEF QueueInOrder
    <3> QED BY <3>4, <3>5
  <2>7. \A t \in Route : NoGap(t)'
    BY <1>0, <2>6 DEF NoGap
  <2>8. \A t \in Route : DoneReached(t)'
    BY <1>0, <2>1, <2>2 DEF DoneReached, OfSession
  <2> QED BY <1>1, <1>5, <2>1, <2>3, <2>4, <2>5, <2>7, <2>8 DEF Together
<1> QED BY <1>2, <1>4, <1>7, <1>8 DEF WholeInv

\* A confirm goes out alone.
LEMMA SendConfirmKeepsWhole ==
  ASSUME WholeInv, SendConfirm
  PROVE  WholeInv'
<1>0. /\ FirstInv /\ Entries /\ Windowed /\ Whole /\ LinkType /\ conn \in Route
      /\ UNCHANGED <<vars, pc, conn, todo, out, inbox, pastVars>>
      /\ pc = "confirm" /\ garbled' = FALSE
      /\ \A t \in Route : t # conn => toProbe'[t] = toProbe[t]
      /\ \A t \in Route : Range(toHost[t])' \subseteq Range(toHost[t])
  <2>1. conn' = conn
    BY DEF SendConfirm
  <2> QED BY <2>1, SendConfirmMoves DEF WholeInv, FirstInv, LinkType, HostType
<1>1. PICK q \in Sendable : ~OfSession(q) /\ toProbe'[conn] = <<q>>
  BY <1>0, SendConfirmMoves
<1>2. /\ UNCHANGED <<newest, resend, told, cut, answers>> /\ Line' = Line /\ Waits' = Waits
      /\ \A t \in Route : Back(t)' \subseteq Back(t) /\ Queue(t)' = Queue(t)
  BY <1>0 DEF vars, table, pastVars, Line, Waits, Back, Queue
<1>3. \A t \in Route : Way(t)' \subseteq Way(t) \cup {q}
  <2>1. Range(<<q>>) = {q}
    BY DEF Range
  <2> QED BY <1>0, <1>1, <2>1 DEF Way, Queue
<1>4. FirstInv'
  BY <1>0, SendConfirmKeepsFirst
<1>5. Entries'
  BY <1>0, <1>2, SameKept
<1>6. Windowed'
  BY <1>0, <1>1, <1>2, <1>3 DEF Windowed, InReach, OfSession, Past
<1>7. Whole'
  <2> SUFFICES ASSUME ~cut' PROVE Together'
    BY DEF Whole
  <2>1. /\ ~garbled /\ AllKept /\ OutComes /\ NoneLost
        /\ \A t \in Route : NoGap(t) /\ DoneReached(t)
        /\ \A x \in told : x.what # "result_lost"
    BY <1>0, <1>2 DEF Whole, Together
  <2>2. \A r : Reached(r)' <=> Reached(r)
    BY <1>2, SameReached
  <2>3. AllKept'
    BY <1>0, <1>2, <2>1, <2>2, SameKept DEF AllKept
  <2>4. OutComes'
    BY <1>0 DEF OutComes
  <2>5. NoneLost'
    BY <1>2, <2>1 DEF NoneLost
  <2>6. \A t \in Route : t # conn => NoGap(t)' /\ DoneReached(t)'
    BY <1>0, <1>2, <2>1, SameQueues
  <2>7. DoneReached(conn)'
    BY <1>0, <2>1, <2>2 DEF DoneReached, OfSession
  <2>8. ASSUME NEW r \in Waits PROVE LineInOrder(conn, r)' /\ QueueInOrder(conn, r)'
    <3>1. QueueInOrder(conn, r)
      BY <1>0, <2>1 DEF NoGap
    <3>2. QueueInOrder(conn, r)'
      BY <1>0, <1>2, <3>1 DEF QueueInOrder
    <3>3. ~After(newest, r, q)
      BY <1>1 DEF After
    <3>4. \A i \in 1..Len(<<q>>) : <<q>>[i] = q
      OBVIOUS
    <3>5. LineInOrder(conn, r)'
      <4> DEFINE u == <<q>>
      <4>1. toProbe'[conn] = u /\ \A i \in 1..Len(u) : u[i] = q
        BY <1>1, <3>4
      <4> HIDE DEF u
      <4>2. \A i \in 1..Len(u) : ~After(newest, r, u[i])
        BY <3>3, <4>1
      <4> QED BY <1>0, <1>2, <4>1, <4>2 DEF LineInOrder
    <3> QED BY <3>2, <3>5
  <2>9. NoGap(conn)'
    BY <1>0, <1>2, <2>8 DEF NoGap
  <2> QED BY <1>0, <1>2, <2>1, <2>3, <2>4, <2>5, <2>6, <2>7, <2>9 DEF Together
<1> QED BY <1>4, <1>5, <1>6, <1>7 DEF WholeInv

-------------------------------------------------------------------------------
(* Where no request is lost: the line and the probe. *)

\* A step of the line, or of a probe that handles nothing, that keeps the order of what is on its way.
LEMMA WireKeepsWhole ==
  ASSUME WholeInv, FirstInv', WireMoves,
         cut' \/ ((garbled' => garbled) /\ OutComes' /\ \A t \in Route : NoGap(t)' /\ DoneReached(t)')
  PROVE  WholeInv'
<1>0. /\ FirstInv /\ Entries /\ Windowed /\ Whole
      /\ UNCHANGED <<newest, resend, told, out, todo>> /\ (cut => cut')
      /\ \A t \in Route : Way(t)' \subseteq Way(t) /\ Back(t)' \subseteq Back(t)
  BY DEF WholeInv, WireMoves, hostVars
<1>1. Line' = Line /\ Waits' = Waits
  BY <1>0 DEF Line, Waits
<1>2. Entries'
  BY <1>0, SameKept
<1>3. Windowed'
  BY <1>0, <1>1 DEF Windowed, InReach, OfSession, Past
<1>4. Whole'
  <2> SUFFICES ASSUME ~cut' PROVE Together'
    BY DEF Whole
  <2>1. /\ ~garbled /\ AllKept /\ NoneLost /\ \A x \in told : x.what # "result_lost"
    BY <1>0 DEF Whole, Together
  <2>2. AllKept'
    BY <1>0, <1>1, <2>1, SameKept, SameReached DEF AllKept
  <2>3. NoneLost'
    BY <1>0, <1>1, <2>1 DEF NoneLost
  <2> QED BY <1>0, <2>1, <2>2, <2>3 DEF Together
<1> QED BY <1>2, <1>3, <1>4 DEF WholeInv

\* What is out still comes.
LEMMA StillComes ==
  ASSUME LinkType, InLine, WireMoves, OutComes,
         \A r \in Way(conn) : r \in Way(conn)' \/ Reached(r) \/ ~OfSession(r)
  PROVE  OutComes'
<1>0. UNCHANGED <<newest, pc, conn, out>>
  BY DEF WireMoves, hostVars
<1>1. Range(out) \subseteq Waits /\ \A r \in Waits : OfSession(r)
  BY LineIs, PlaceInLine DEF LinkType
<1>2. \A r : Reached(r)' <=> Reached(r)
  BY <1>0, SameReached
<1>3. ASSUME pc = "exchange", NEW r \in Range(out) PROVE Reached(r) \/ r \in Way(conn)'
  <2>1. Reached(r) \/ r \in Way(conn)
    BY <1>3 DEF OutComes
  <2> QED BY <1>1, <1>3, <2>1
<1> QED BY <1>0, <1>2, <1>3 DEF OutComes

LEMMA LoseAnswerKeepsWhole ==
  ASSUME WholeInv, LoseAnswer
  PROVE  WholeInv'
<1>0. FirstInv /\ LinkType /\ InLine /\ Whole
  BY DEF WholeInv, FirstInv
<1>1. LinkType' /\ WireMoves /\ UNCHANGED <<toProbe, inbox, garbled, cut>>
  BY <1>0, LoseAnswerMoves
<1>2. FirstInv' /\ Waits' = Waits /\ newest' = newest /\ conn' = conn
  BY <1>0, <1>1, WireKeepsFirst DEF WireMoves, hostVars
<1>3. ASSUME ~cut' PROVE OutComes' /\ \A t \in Route : NoGap(t)' /\ DoneReached(t)'
  <2>1. OutComes /\ \A t \in Route : NoGap(t) /\ DoneReached(t)
    BY <1>0, <1>1, <1>3 DEF Whole, Together
  <2>2. Way(conn)' = Way(conn)
    BY <1>1, <1>2 DEF Way, Queue
  <2>3. OutComes'
    BY <1>0, <1>1, <2>1, <2>2, StillComes
  <2> QED BY <1>1, <1>2, <2>1, <2>3, SameQueues
<1> QED BY <1>1, <1>2, <1>3, WireKeepsWhole

\* What arrives keeps its order.
LEMMA ReceiveKeepsOrder ==
  ASSUME LinkType, NEW c \in Route, Receive(c), ~garbled, NoGap(c), DoneReached(c)
  PROVE  NoGap(c)' /\ DoneReached(c)' /\ Way(c) \subseteq Way(c)'
<1> DEFINE S == [req : Sendable, done : BOOLEAN]
           s == toProbe[c]
           u == Tail(s)
           r0 == Head(s)
           x == [req |-> r0, done |-> FALSE]
           q == inbox[c]
<1>0. /\ s \in Seq(Sendable) /\ s # <<>> /\ q \in Seq(S) /\ toProbe'[c] = u /\ UNCHANGED <<newest, todo, out>>
      /\ (inbox'[c] = q /\ r0 \in Queue(c)) \/ inbox'[c] = Append(q, x)
  BY ReceiveMoves DEF LinkType, WireType, WireMoves, hostVars
<1>1. /\ Len(s) \in Nat \ {0} /\ Len(u) = Len(s) - 1 /\ r0 = s[1] /\ r0 \in Sendable
      /\ \A i \in 1..Len(u) : u[i] = s[i + 1]
      /\ Range(s) = {r0} \cup Range(u)
  BY <1>0, HeadTailProperties, EmptySeq, RangeTail
<1>2. x \in S /\ x.req = r0 /\ ~x.done
  BY <1>1
<1>3. Waits' = Waits /\ \A r : Reached(r)' <=> Reached(r)
  BY <1>0, SameReached DEF Waits, Line
<1>4. \A r : r \in Queue(c) <=> \E i \in 1..Len(q) : q[i].req = r
  <2>1. \A y : y \in Range(q) <=> \E i \in 1..Len(q) : q[i] = y
    <3> HIDE DEF S, q
    <3> QED BY <1>0, RangeIs
  <2> QED BY <2>1 DEF Queue
<1>6. Range(Append(q, x)) = Range(q) \cup {x}
  <2> HIDE DEF S, q, x
  <2> QED BY <1>0, <1>2, RangeAppend
<1>7. r0 \in Queue(c)' /\ Queue(c) \subseteq Queue(c)'
  <2>1. CASE inbox'[c] = q /\ r0 \in Queue(c)
    BY <2>1 DEF Queue
  <2>2. CASE inbox'[c] = Append(q, x)
    <3>1. Range(inbox'[c]) = Range(q) \cup {x}
      BY <1>6, <2>2
    <3> QED BY <1>2, <3>1 DEF Queue
  <2> QED BY <1>0, <2>1, <2>2
<1>8. Way(c) \subseteq Way(c)'
  BY <1>0, <1>1, <1>7 DEF Way
<1>9. /\ Len(q) \in Nat /\ Len(Append(q, x)) = Len(q) + 1
      /\ \A i \in 1..(Len(q) + 1) : Append(q, x)[i] = IF i = Len(q) + 1 THEN x ELSE q[i]
  <2> HIDE DEF S, q, x
  <2> QED BY <1>0, <1>2
<1> HIDE DEF s, u, r0, x, q, S
<1>10. DoneReached(c)'
  <2>1. CASE inbox'[c] = q
    BY <1>3, <2>1 DEF DoneReached, OfSession, q
  <2>2. CASE inbox'[c] = Append(q, x)
    <3>1. \A i \in 1..Len(q) : q[i].done /\ OfSession(q[i].req) => Reached(q[i].req)
      BY DEF DoneReached, q
    <3> DEFINE p == Append(q, x)
    <3>2. \A i \in 1..Len(p) : p[i].done /\ OfSession(p[i].req) => Reached(p[i].req)
      BY <1>2, <1>9, <3>1
    <3>3. inbox'[c] = p
      BY <2>2
    <3> HIDE DEF p
    <3> QED BY <1>3, <3>2, <3>3 DEF DoneReached, OfSession
  <2> QED BY <1>0, <2>1, <2>2
<1>11. ASSUME NEW r \in Waits PROVE LineInOrder(c, r)' /\ QueueInOrder(c, r)'
  <2>1. /\ \A i \in 1..Len(s) : After(newest, r, s[i]) => r \in Queue(c) \/ \E j \in 1..(i - 1) : s[j] = r
        /\ \A i \in 1..Len(q) : After(newest, r, q[i].req) => \E j \in 1..(i - 1) : q[j].req = r
    BY DEF NoGap, LineInOrder, QueueInOrder, s, q
  <2>2. ASSUME NEW i \in 1..Len(u), After(newest, r, u[i])
        PROVE  r \in Queue(c)' \/ \E j \in 1..(i - 1) : u[j] = r
    <3>1. i + 1 \in 1..Len(s) /\ s[i + 1] = u[i]
      BY <1>1
    <3>2. CASE r \in Queue(c)
      BY <1>7, <3>2
    <3>3. CASE \E j \in 1..i : s[j] = r
      <4>1. PICK j \in 1..i : s[j] = r
        BY <3>3
      <4>2. CASE j = 1
        BY <1>1, <1>7, <4>1, <4>2
      <4>3. CASE j # 1
        <5>1. j - 1 \in 1..(i - 1) /\ j - 1 \in 1..Len(u) /\ (j - 1) + 1 = j
          BY <1>1, <4>1, <4>3
        <5>2. u[j - 1] = s[(j - 1) + 1]
          BY <1>1, <5>1
        <5> QED BY <4>1, <5>1, <5>2
      <4> QED BY <4>2, <4>3
    <3>4. r \in Queue(c) \/ \E j \in 1..((i + 1) - 1) : s[j] = r
      BY <2>1, <2>2, <3>1
    <3>5. (i + 1) - 1 = i
      OBVIOUS
    <3> QED BY <3>2, <3>3, <3>4, <3>5
  <2>3. LineInOrder(c, r)'
    BY <1>0, <2>2 DEF LineInOrder
  <2>4. CASE inbox'[c] = q
    BY <1>0, <2>1, <2>3, <2>4 DEF QueueInOrder
  <2>5. CASE inbox'[c] = Append(q, x)
    <3> DEFINE p == Append(q, x)
    <3>1. ASSUME NEW i \in 1..Len(p), After(newest, r, p[i].req) PROVE \E j \in 1..(i - 1) : p[j].req = r
      <4>1. CASE i \in 1..Len(q)
        <5>1. PICK j \in 1..(i - 1) : q[j].req = r
          BY <1>9, <2>1, <3>1, <4>1
        <5> QED BY <1>9, <4>1, <5>1
      <4>2. CASE i = Len(q) + 1
        <5>1. p[i] = x /\ After(newest, r, s[1]) /\ 1 \in 1..Len(s)
          BY <1>1, <1>2, <1>9, <3>1, <4>2
        <5>2. r \in Queue(c)
          BY <2>1, <5>1
        <5>3. PICK j \in 1..Len(q) : q[j].req = r
          BY <1>4, <5>2 DEF q
        <5>4. j \in 1..(i - 1) /\ p[j] = q[j]
          BY <1>9, <4>2, <5>3
        <5> QED BY <5>3, <5>4
      <4> QED BY <1>9, <4>1, <4>2
    <3>2. inbox'[c] = p
      BY <2>5
    <3> HIDE DEF p
    <3> QED BY <1>0, <2>3, <3>1, <3>2 DEF QueueInOrder
  <2> QED BY <1>0, <2>3, <2>4, <2>5
<1>12. NoGap(c)'
  BY <1>3, <1>11 DEF NoGap
<1> QED BY <1>8, <1>10, <1>12

\* A request whose answer is out was processed.
LEMMA SentKeepsOrder ==
  ASSUME FirstInv, NEW c \in Route, Sent(c), NoGap(c), DoneReached(c)
  PROVE  NoGap(c)' /\ DoneReached(c)' /\ \A r \in Way(c) : r \in Way(c)' \/ Reached(r) \/ ~OfSession(r)
<1> DEFINE S == [req : Sendable, done : BOOLEAN]
           q == inbox[c]
           u == Tail(q)
<1>0. /\ LinkType /\ HostType /\ InLine /\ newest \in Corr
      /\ q \in Seq(S) /\ q # <<>> /\ inbox'[c] = u /\ q[1].done
      /\ UNCHANGED <<newest, todo, out, toProbe>>
  BY SentMoves DEF FirstInv, Ordered, LinkType, WireType, WireMoves, hostVars
<1>1. /\ Len(q) \in Nat \ {0} /\ Len(u) = Len(q) - 1 /\ u \in Seq(S)
      /\ \A i \in 1..Len(u) : u[i] = q[i + 1]
  <2> HIDE DEF S, q
  <2> QED BY <1>0, HeadTailProperties, EmptySeq
<1>2. \A r : r \in Queue(c) <=> \E i \in 1..Len(q) : q[i].req = r
  <2>1. \A y : y \in Range(q) <=> \E i \in 1..Len(q) : q[i] = y
    <3> HIDE DEF S, q
    <3> QED BY <1>0, RangeIs
  <2> QED BY <2>1 DEF Queue
<1>3. \A r : r \in Queue(c)' <=> \E i \in 1..Len(u) : u[i].req = r
  <2> HIDE DEF S, u
  <2>1. \A y : y \in Range(u) <=> \E i \in 1..Len(u) : u[i] = y
    BY <1>1, RangeIs
  <2>2. Queue(c)' = {y.req : y \in Range(u)}
    BY <1>0 DEF Queue
  <2> QED BY <2>1, <2>2
<1>4. OfSession(q[1].req) => Reached(q[1].req)
  <2>1. 1 \in 1..Len(q)
    BY <1>1
  <2> QED BY <1>0, <2>1 DEF DoneReached
<1>5. Waits' = Waits /\ (\A r : Reached(r)' <=> Reached(r)) /\ \A r \in Waits : OfSession(r) /\ Past(r.corr) \in Int
  BY <1>0, SameReached, PlaceInLine DEF Waits, Line
<1>6. Past(newest) \in Int
  BY <1>0, PastRange
<1> HIDE DEF S, u
<1>7. ASSUME NEW j \in 1..Len(q), j # 1 PROVE j - 1 \in 1..Len(u) /\ u[j - 1] = q[j]
  <2>1. j - 1 \in 1..Len(u) /\ (j - 1) + 1 = j
    BY <1>1, <1>7
  <2> QED BY <1>1, <2>1
<1>8. ASSUME NEW r \in Queue(c) PROVE r \in Queue(c)' \/ Reached(r) \/ ~OfSession(r)
  <2>1. PICK i \in 1..Len(q) : q[i].req = r
    BY <1>2
  <2>2. CASE i = 1
    BY <1>4, <2>1, <2>2
  <2>3. CASE i # 1
    BY <1>3, <1>7, <2>1, <2>3
  <2> QED BY <2>2, <2>3
<1>9. \A r \in Way(c) : r \in Way(c)' \/ Reached(r) \/ ~OfSession(r)
  BY <1>0, <1>8 DEF Way
<1>10. DoneReached(c)'
  <2>1. \A i \in 1..Len(u) : u[i].done /\ OfSession(u[i].req) => Reached(u[i].req)
    <3> SUFFICES ASSUME NEW i \in 1..Len(u), u[i].done, OfSession(u[i].req) PROVE Reached(u[i].req)
      OBVIOUS
    <3>1. i + 1 \in 1..Len(q) /\ u[i] = q[i + 1]
      BY <1>1
    <3> QED BY <3>1 DEF DoneReached
  <2> QED BY <1>0, <1>5, <2>1 DEF DoneReached, OfSession
<1>11. ASSUME NEW r \in Waits PROVE LineInOrder(c, r)' /\ QueueInOrder(c, r)'
  <2>1. LineInOrder(c, r) /\ QueueInOrder(c, r)
    BY DEF NoGap
  <2>2. \A s : After(newest, r, s) => ~Reached(r)
    BY <1>5, <1>6 DEF After, Reached
  <2>3. LineInOrder(c, r)'
    <3>1. ASSUME NEW i \in 1..Len(toProbe[c]), After(newest, r, toProbe[c][i])
          PROVE  r \in Queue(c)' \/ \E j \in 1..(i - 1) : toProbe[c][j] = r
      BY <1>5, <1>8, <2>1, <2>2, <3>1 DEF LineInOrder
    <3> QED BY <1>0, <3>1 DEF LineInOrder
  <2>4. QueueInOrder(c, r)'
    <3>1. ASSUME NEW i \in 1..Len(u), After(newest, r, u[i].req) PROVE \E j \in 1..(i - 1) : u[j].req = r
      <4>1. i + 1 \in 1..Len(q) /\ u[i] = q[i + 1] /\ (i + 1) - 1 = i
        BY <1>1
      <4>2. PICK j \in 1..i : q[j].req = r
        BY <2>1, <3>1, <4>1 DEF QueueInOrder
      <4>3. j # 1
        BY <1>4, <1>5, <2>2, <3>1, <4>2
      <4>4. j \in 1..Len(q) /\ j - 1 \in 1..(i - 1)
        BY <1>1, <4>1, <4>2, <4>3, SMTT(30)
      <4> QED BY <1>7, <4>2, <4>3, <4>4
    <3> QED BY <1>0, <3>1 DEF QueueInOrder
  <2> QED BY <2>3, <2>4
<1>12. NoGap(c)'
  BY <1>5, <1>11 DEF NoGap
<1> QED BY <1>9, <1>10, <1>12

\* An arrival, an answer that goes out and a connection that closes keep the order of what is on its way.
LEMMA ArrivalsKeepWhole ==
  ASSUME WholeInv, NEW c \in Route, Receive(c) \/ Sent(c) \/ CloseRoute(c)
  PROVE  WholeInv'
<1>0. FirstInv /\ LinkType /\ HostType /\ InLine /\ Whole /\ conn \in Route
  BY DEF WholeInv, FirstInv, LinkType, HostType
<1>1. /\ LinkType' /\ WireMoves /\ UNCHANGED <<garbled, cut>>
      /\ \A t \in Route : t # c => toProbe'[t] = toProbe[t] /\ inbox'[t] = inbox[t]
  <2>1. CASE Receive(c)
    BY <1>0, <2>1, ReceiveMoves
  <2>2. CASE Sent(c)
    BY <1>0, <2>2, SentMoves
  <2>3. CASE CloseRoute(c)
    BY <1>0, <2>3, CloseRouteMoves
  <2> QED BY <2>1, <2>2, <2>3
<1>2. FirstInv' /\ Waits' = Waits /\ newest' = newest /\ conn' = conn
  BY <1>0, <1>1, WireKeepsFirst DEF WireMoves, hostVars
<1>3. ASSUME ~cut' PROVE OutComes' /\ \A t \in Route : NoGap(t)' /\ DoneReached(t)'
  <2>1. ~garbled /\ OutComes /\ \A t \in Route : NoGap(t) /\ DoneReached(t)
    BY <1>0, <1>1, <1>3 DEF Whole, Together
  <2>2. \A t \in Route : t # c => NoGap(t)' /\ DoneReached(t)' /\ Way(t)' = Way(t)
    BY <1>1, <1>2, <2>1, SameQueues DEF Way, Queue
  <2>3. /\ NoGap(c)' /\ DoneReached(c)'
        /\ c = conn => \A r \in Way(c) : r \in Way(c)' \/ Reached(r) \/ ~OfSession(r)
    <3>1. CASE Receive(c)
      BY <1>0, <2>1, <3>1, ReceiveKeepsOrder
    <3>2. CASE Sent(c)
      BY <1>0, <2>1, <3>2, SentKeepsOrder
    <3>3. CASE CloseRoute(c)
      <4>1. c # conn /\ toProbe'[c] = <<>> /\ inbox'[c] = <<>>
        BY <1>0, <3>3, CloseRouteMoves
      <4>2. DoneReached(c)' /\ \A r : LineInOrder(c, r)' /\ QueueInOrder(c, r)'
        BY <4>1 DEF DoneReached, LineInOrder, QueueInOrder
      <4> QED BY <4>1, <4>2 DEF NoGap
    <3> QED BY <3>1, <3>2, <3>3
  <2>4. \A r \in Way(conn) : r \in Way(conn)' \/ Reached(r) \/ ~OfSession(r)
    BY <1>0, <1>2, <2>2, <2>3
  <2>5. OutComes'
    BY <1>0, <1>1, <2>1, <2>4, StillComes
  <2> QED BY <2>2, <2>3, <2>5
<1> QED BY <1>1, <1>2, <1>3, WireKeepsWhole

\* There are no more entries between two corrs than corrs.
LEMMA FewBetween ==
  ASSUME NEW M, NEW a \in Int, NEW b \in Int, a <= b,
         \A m \in M : Past(m.corr) \in (a + 1)..b,
         \A m, n \in M : Past(m.corr) = Past(n.corr) => m = n
  PROVE  Cardinality(M) \in Int /\ Cardinality(M) <= b - a
<1> DEFINE f == [m \in M |-> Past(m.corr)]
           T == (a + 1)..b
<1>1. f \in Injection(M, T)
  BY DEF Injection, IsInjective
<1>2. IsFiniteSet(T) /\ Cardinality(T) = b - a
  <2> DEFINE c == a + 1
  <2>1. c \in Int /\ c = a + 1
    OBVIOUS
  <2> HIDE DEF c
  <2>2. IsFiniteSet(c..b) /\ Cardinality(c..b) = IF c > b THEN 0 ELSE b - c + 1
    BY <2>1, FS_Interval
  <2>3. (IF c > b THEN 0 ELSE b - c + 1) = b - a
    BY <2>1
  <2> QED BY <2>2, <2>3 DEF c
<1>3. IsFiniteSet(M) /\ Cardinality(M) <= Cardinality(T)
  <2> HIDE DEF f, T
  <2> QED BY <1>1, <1>2, FS_Injection
<1>4. Cardinality(M) \in Int
  BY <1>3, FS_CardinalityType
<1> QED BY <1>2, <1>3, <1>4

\* Each entry of the table is told apart by its corr, and not newer than the newest.
LEMMA EntriesApart ==
  ASSUME LinkType, Ordered, Entries
  PROVE  /\ newest \in Corr /\ Past(newest) \in Int /\ Past(newest) <= MaxCorrs
         /\ \A e \in resend : e.corr \in Corr /\ Past(e.corr) \in Int /\ Past(e.corr) <= Past(newest)
         /\ \A e, k \in resend : Past(e.corr) = Past(k.corr) => e = k
<1>1. newest \in Corr /\ corr \in Corr /\ Past(newest) <= Past(corr) /\ Past(corr) <= MaxCorrs
  BY DEF Ordered, LinkType, HostType
<1>2. Past(newest) \in Int /\ Past(newest) <= MaxCorrs
  BY <1>1, PastRange, LinkAssumption
<1>3. \A e \in resend : e.corr \in Corr /\ Past(e.corr) \in Int /\ Past(e.corr) <= Past(newest)
  BY PastRange DEF Ordered
<1>4. ASSUME NEW e \in resend, NEW k \in resend, Past(e.corr) = Past(k.corr) PROVE e = k
  <2>1. Past(e.corr) <= MaxCorrs /\ Past(k.corr) <= MaxCorrs
    BY <1>2, <1>3, LinkAssumption
  <2>2. e.corr = k.corr
    BY <1>3, <1>4, <2>1, PastAhead
  <2> QED BY <2>2 DEF Entries
<1> QED BY <1>1, <1>2, <1>3, <1>4

\* A request that was processed is kept, and so are those not further behind it than the table is long.
LEMMA TableKeeps ==
  ASSUME LinkType, Ordered, Entries, NEW r \in Sendable, NEW a, r.corr \in Corr,
         Past(newest) < Past(r.corr), Past(r.corr) <= MaxCorrs
  PROVE  LET e == [corr |-> r.corr, req |-> IF r.arg \in LargeArg THEN Dropped ELSE r,
                                    ans |-> IF a.val \in LargeVal THEN Dropped ELSE a]
         IN /\ e \in Kept(resend, r, a)
            /\ \A k \in resend : Past(r.corr) - Past(k.corr) < RememberCount => k \in Kept(resend, r, a)
            /\ \A k \in Kept(resend, r, a) : k = e \/ (k \in resend /\ k.corr # r.corr)
            /\ \A k, m \in Kept(resend, r, a) : k.corr = m.corr => k = m
<1> DEFINE e == [corr |-> r.corr, req |-> IF r.arg \in LargeArg THEN Dropped ELSE r,
                                  ans |-> IF a.val \in LargeVal THEN Dropped ELSE a]
           live == {k \in resend : k.corr # r.corr /\ InWindow(r.corr, k.corr)} \cup {e}
           M(k) == {m \in live : Diff(r.corr, m.corr) < Diff(r.corr, k.corr)}
<1>1. Kept(resend, r, a) = {k \in live : Cardinality(M(k)) < RememberCount}
  BY DEF Kept
<1>2. /\ Past(newest) \in Int /\ Past(newest) <= MaxCorrs /\ Past(r.corr) \in Int
      /\ \A k \in resend : k.corr \in Corr /\ Past(k.corr) \in Int /\ Past(k.corr) <= Past(newest)
      /\ \A k, m \in resend : Past(k.corr) = Past(m.corr) => k = m
  BY EntriesApart, PastRange
<1>3. e.corr = r.corr
  OBVIOUS
<1> HIDE DEF e
<1>4. \A k \in live : k.corr \in Corr /\ Past(k.corr) \in Int /\ Past(k.corr) <= Past(r.corr)
  BY <1>2, <1>3
<1>5. \A k, m \in live : Past(k.corr) = Past(m.corr) => k = m
  <2> SUFFICES ASSUME NEW k \in live, NEW m \in live, Past(k.corr) = Past(m.corr) PROVE k = m
    OBVIOUS
  <2>1. CASE k = e \/ m = e
    BY <1>2, <1>3, <2>1
  <2>2. CASE k \in resend /\ m \in resend
    BY <1>2, <2>2
  <2> QED BY <2>1, <2>2
<1>6. ASSUME NEW k \in live, Past(r.corr) - Past(k.corr) < RememberCount PROVE k \in Kept(resend, r, a)
  <2>1. \A m \in M(k) : Past(m.corr) \in (Past(k.corr) + 1)..Past(r.corr)
    <3> SUFFICES ASSUME NEW m \in M(k) PROVE Past(m.corr) \in (Past(k.corr) + 1)..Past(r.corr)
      OBVIOUS
    <3>1. m \in live /\ Diff(r.corr, m.corr) < Diff(r.corr, k.corr)
      OBVIOUS
    <3>2. /\ m.corr \in Corr /\ Past(m.corr) \in Int /\ Past(m.corr) <= Past(r.corr)
          /\ k.corr \in Corr /\ Past(k.corr) \in Int /\ Past(k.corr) <= Past(r.corr)
      BY <1>4, <3>1
    <3>3. Past(k.corr) < Past(m.corr)
      BY <3>1, <3>2, PastNearer
    <3> QED BY <1>2, <3>2, <3>3
  <2>2. \A m, n \in M(k) : Past(m.corr) = Past(n.corr) => m = n
    BY <1>5
  <2>3. Past(k.corr) \in Int /\ Past(k.corr) <= Past(r.corr)
    BY <1>4
  <2>4. Cardinality(M(k)) \in Int /\ Cardinality(M(k)) <= Past(r.corr) - Past(k.corr)
    <3> DEFINE N == M(k)
    <3>1. \A m \in N : Past(m.corr) \in (Past(k.corr) + 1)..Past(r.corr)
      BY <2>1
    <3>2. \A m, n \in N : Past(m.corr) = Past(n.corr) => m = n
      BY <2>2
    <3> HIDE DEF N
    <3>3. Cardinality(N) \in Int /\ Cardinality(N) <= Past(r.corr) - Past(k.corr)
      BY <1>2, <2>3, <3>1, <3>2, FewBetween
    <3> QED BY <3>3 DEF N
  <2>5. Cardinality(M(k)) < RememberCount
    <3> DEFINE n == Cardinality(M(k))
    <3>1. n \in Int /\ n <= Past(r.corr) - Past(k.corr)
      BY <2>4
    <3> HIDE DEF n
    <3>2. n < RememberCount
      BY <1>2, <1>6, <2>3, <3>1, ProbeAssumption
    <3> QED BY <3>2 DEF n
  <2> QED BY <1>1, <2>5
<1>7. e \in live /\ e \in Kept(resend, r, a)
  <2>1. Past(r.corr) - Past(e.corr) < RememberCount
    BY <1>2, <1>3, ProbeAssumption
  <2> QED BY <1>6, <2>1
<1>8. \A k \in resend : Past(r.corr) - Past(k.corr) < RememberCount => k \in Kept(resend, r, a)
  <2> SUFFICES ASSUME NEW k \in resend, Past(r.corr) - Past(k.corr) < RememberCount PROVE k \in Kept(resend, r, a)
    OBVIOUS
  <2>1. k.corr # r.corr
    BY <1>2
  <2>2. Past(k.corr) <= MaxCorrs
    BY <1>2, LinkAssumption
  <2>3. InWindow(r.corr, k.corr)
    BY <1>2, <2>2, PastAhead
  <2>4. k \in live
    BY <2>1, <2>3
  <2> QED BY <1>6, <2>4
<1>9. \A k \in Kept(resend, r, a) : k = e \/ (k \in resend /\ k.corr # r.corr)
  BY <1>1
<1>10. \A k, m \in Kept(resend, r, a) : k.corr = m.corr => k = m
  BY <1>1, <1>5
<1>11. /\ e \in Kept(resend, r, a)
       /\ \A k \in resend : Past(r.corr) - Past(k.corr) < RememberCount => k \in Kept(resend, r, a)
       /\ \A k \in Kept(resend, r, a) : k = e \/ (k \in resend /\ k.corr # r.corr)
       /\ \A k, m \in Kept(resend, r, a) : k.corr = m.corr => k = m
  BY <1>7, <1>8, <1>9, <1>10
<1> QED BY <1>11 DEF e

\* A copy of a request that was processed is not newer than the newest.
LEMMA ResentReached ==
  ASSUME LinkType, Named, Ordered, NEW r \in Asked, r \in Sendable, Resent(r)
  PROVE  Reached(r)
<1>1. r.corr \in Corr /\ newest \in Corr /\ corr \in Corr /\ Past(r.corr) \in Int /\ Past(newest) \in Int
  BY AskedIs, PastRange DEF Ordered, LinkType, HostType
<1>2. Past(r.corr) <= MaxCorrs /\ Past(newest) <= MaxCorrs
  <2>1. Past(r.corr) <= Past(corr) /\ Past(newest) <= Past(corr) /\ Past(corr) <= MaxCorrs
    BY DEF Named, Ordered, LinkType, HostType
  <2> QED BY <1>1, <2>1, PastRange, LinkAssumption
<1>3. CASE Known(r.corr) # {}
  <2>1. PICK e \in resend : e.corr = r.corr
    BY <1>3 DEF Known
  <2> QED BY <2>1 DEF Ordered, Reached
<1>4. CASE ~Ahead(r.corr, newest)
  BY <1>1, <1>2, <1>4, PastAhead DEF Reached
<1> QED BY <1>3, <1>4 DEF Resent

\* What was processed stays so, and what was handled keeps its place.
LEMMA ProcessKeepsOrder ==
  ASSUME LinkType, LinkType', HostType, InLine, NEW t \in Route, newest \in Corr, newest' \in Corr,
         Past(newest) <= Past(newest'), UNCHANGED toProbe, Waits' = Waits, NoGap(t),
         Len(inbox'[t]) = Len(inbox[t]), \A j \in 1..Len(inbox[t]) : inbox'[t][j].req = inbox[t][j].req
  PROVE  NoGap(t)'
<1> DEFINE S == [req : Sendable, done : BOOLEAN]
           q == inbox[t]
           u == inbox'[t]
<1>1. q \in Seq(S) /\ u \in Seq(S) /\ Len(u) = Len(q) /\ \A j \in 1..Len(q) : u[j].req = q[j].req
  BY DEF LinkType, WireType, Sendable
<1>2. Queue(t)' = Queue(t)
  <2> HIDE DEF S, q, u
  <2>1. \A y : y \in Range(q) <=> \E i \in 1..Len(q) : q[i] = y
    BY <1>1, RangeIs
  <2>2. \A y : y \in Range(u) <=> \E i \in 1..Len(u) : u[i] = y
    BY <1>1, RangeIs
  <2>3. \A i \in 1..Len(q) : q[i] \in Range(q) /\ u[i] \in Range(u)
    BY <1>1, <2>1, <2>2
  <2>4. \A y \in Range(q) : \E z \in Range(u) : z.req = y.req
    BY <1>1, <2>1, <2>3
  <2>5. \A y \in Range(u) : \E z \in Range(q) : z.req = y.req
    BY <1>1, <2>2, <2>3
  <2>6. {y.req : y \in Range(u)} = {y.req : y \in Range(q)}
    BY <2>4, <2>5
  <2> QED BY <2>6 DEF Queue, q, u
<1>3. Past(newest) \in Int /\ Past(newest') \in Int /\ \A r \in Waits : Past(r.corr) \in Int
  BY PastRange, PlaceInLine
<1>4. ASSUME NEW r \in Waits, NEW s, Past(newest') < Past(r.corr) PROVE Past(newest) < Past(r.corr)
  BY <1>3, <1>4
<1>5. ASSUME NEW r \in Waits PROVE LineInOrder(t, r)' /\ QueueInOrder(t, r)'
  <2>1. LineInOrder(t, r) /\ QueueInOrder(t, r)
    BY DEF NoGap
  <2>2. \A s : After(newest', r, s) => After(newest, r, s)
    BY <1>4 DEF After
  <2>3. LineInOrder(t, r)'
    <3>1. \A i \in 1..Len(toProbe[t]) : After(newest', r, toProbe[t][i]) => r \in Queue(t) \/ \E j \in 1..(i - 1) : toProbe[t][j] = r
      BY <2>1, <2>2 DEF LineInOrder
    <3> QED BY <1>2, <3>1 DEF LineInOrder, After, OfSession, Past
  <2>4. QueueInOrder(t, r)'
    <3>1. ASSUME NEW i \in 1..Len(u), After(newest', r, u[i].req) PROVE \E j \in 1..(i - 1) : u[j].req = r
      <4>1. i \in 1..Len(q) /\ u[i].req = q[i].req
        BY <1>1
      <4>2. PICK j \in 1..(i - 1) : q[j].req = r
        BY <2>1, <2>2, <3>1, <4>1 DEF QueueInOrder
      <4>3. Len(q) \in Nat
        <5> HIDE DEF q, S
        <5> QED BY <1>1, LenProperties
      <4>4. j \in 1..Len(q)
        BY <4>1, <4>2, <4>3
      <4> QED BY <1>1, <4>2, <4>4
    <3> QED BY <3>1 DEF QueueInOrder, After, OfSession, Past
  <2> QED BY <2>3, <2>4
<1> QED BY <1>5 DEF NoGap

\* A request that is remembered drops none of the answers of the writes that wait.
LEMMA FreshKeepsAll ==
  ASSUME TableHolds, LinkType, Named, InLine, Ordered, Entries, AllKept,
         NEW r \in Sendable, r \in Asked, NEW a \in Answer, a.val = 0, Past(newest) < Past(r.corr),
         newest' = r.corr, resend' = Kept(resend, r, a), Waits' = Waits,
         Line # <<>> => InReach(Past(r.corr)),
         \A s \in Waits : Past(s.corr) < Past(r.corr) => Reached(s)
  PROVE  AllKept'
<1>0. /\ r.corr \in Corr /\ Past(r.corr) \in Int /\ Past(r.corr) <= MaxCorrs /\ r \in Requests
      /\ a # Dropped /\ r # Dropped /\ HostType
  <2>1. r.corr \in Corr /\ Past(r.corr) \in Int /\ corr \in Corr
    BY AskedIs DEF LinkType, HostType
  <2>2. Past(r.corr) <= Past(corr) /\ Past(corr) <= MaxCorrs
    BY DEF Named, LinkType, HostType
  <2>3. Past(r.corr) <= MaxCorrs
    BY <2>1, <2>2, PastRange, LinkAssumption
  <2> QED BY <2>1, <2>3, ProbeAssumption DEF Sendable, LinkType
<1> DEFINE e == [corr |-> r.corr, req |-> IF r.arg \in LargeArg THEN Dropped ELSE r,
                                  ans |-> IF a.val \in LargeVal THEN Dropped ELSE a]
<1>1. /\ e \in resend'
      /\ \A k \in resend : Past(r.corr) - Past(k.corr) < RememberCount => k \in resend'
      /\ \A k \in resend' : k = e \/ (k \in resend /\ k.corr # r.corr)
  BY <1>0, TableKeeps
<1>2. e.corr = r.corr /\ e.ans = a /\ (r.op = "write" => e.req = r)
  BY <1>0 DEF TableHolds, Sendable
<1> HIDE DEF e
<1>3. ASSUME NEW s \in Waits, s.op = "write", Past(s.corr) <= Past(r.corr)
      PROVE  (\E k \in resend' : k.corr = s.corr) /\ \A k \in resend' : k.corr = s.corr => k.req # Dropped /\ k.ans # Dropped
  <2>1. s.corr \in Corr /\ Past(s.corr) \in Int /\ s \in Asked
    BY <1>0, PlaceInLine, AskedHas
  <2>2. CASE s.corr = r.corr
    <3>1. s = r
      BY <2>1, <2>2 DEF Named
    <3> QED BY <1>0, <1>1, <1>2, <1>3, <2>2, <3>1
  <2>3. CASE s.corr # r.corr
    <3>1. Past(s.corr) # Past(r.corr)
      <4>1. Past(s.corr) <= MaxCorrs
        BY <1>0, <1>3, <2>1, LinkAssumption
      <4> QED BY <1>0, <2>1, <2>3, <4>1, PastAhead
    <3>2. Past(s.corr) < Past(r.corr)
      BY <1>0, <1>3, <2>1, <3>1
    <3>3. StillKept(s)
      BY <1>3, <3>2 DEF AllKept
    <3>4. Past(r.corr) - Past(s.corr) < RememberCount
      <4>1. Line # <<>> /\ Past(Line[1].corr) \in Int /\ Past(Line[1].corr) <= Past(s.corr)
        BY <1>0, PlaceInLine
      <4>2. Past(r.corr) <= Past(Line[1].corr) + MaxInflight - 1
        BY <4>1 DEF InReach
      <4> QED BY <1>0, <2>1, <4>1, <4>2, LinkAssumption, ProbeAssumption DEF TableHolds
    <3>5. PICK k \in resend : k.corr = s.corr
      BY <3>3 DEF StillKept, Known
    <3>6. k \in resend'
      BY <1>1, <3>4, <3>5
    <3>7. ASSUME NEW m \in resend', m.corr = s.corr PROVE m.req # Dropped /\ m.ans # Dropped
      <4>1. m \in resend
        BY <1>1, <1>2, <2>3, <3>7
      <4> QED BY <3>3, <3>7, <4>1 DEF StillKept, Known
    <3> QED BY <3>5, <3>6, <3>7
  <2> QED BY <2>2, <2>3
<1>4. \A s : Reached(s)' <=> Past(s.corr) <= Past(r.corr)
  BY DEF Reached, Past
<1>5. ASSUME NEW s \in Waits, s.op = "write", Reached(s)' PROVE StillKept(s)'
  <2>1. (\E k \in resend' : k.corr = s.corr) /\ \A k \in resend' : k.corr = s.corr => k.req # Dropped /\ k.ans # Dropped
    BY <1>3, <1>4, <1>5
  <2>2. Known(s.corr)' = {k \in resend' : k.corr = s.corr}
    BY DEF Known
  <2> QED BY <2>1, <2>2 DEF StillKept
<1> QED BY <1>5 DEF AllKept

\* The answer a request gets says that a result is lost only if it is not kept.
LEMMA NewAnswer ==
  ASSUME LinkType, Named, Ordered, Entries, AllKept, NEW c, NEW r \in Sendable, r \in Asked, NEW a, Carried(c, r, a),
         NEW w \in Waits, w.op = "write", w.corr = a.req.corr
  PROVE  a.res # "result_lost"
<1>1. \A res, val : Ans(r, res, val).req = r /\ Ans(r, res, val).res = res
  BY DEF Ans
<1> SUFFICES ASSUME OfSession(r), Resent(r), a = ResentAnswer(r), a.res = "result_lost" PROVE FALSE
  BY <1>1 DEF Carried
<1>2. a \notin Stored
  BY DEF Entries
<1>3. a.req = r /\ (Known(r.corr) = {} \/ \E e \in Known(r.corr) : e.req = Dropped \/ e.ans = Dropped)
  BY <1>1, <1>2, ResentIs DEF Stored, Known
<1>4. w = r
  BY <1>3, AskedHas DEF Named
<1>5. StillKept(r)
  BY <1>4, ResentReached DEF AllKept
<1> QED BY <1>3, <1>5 DEF StillKept

\* After the oldest request that waits was handled.
LEMMA ProcessKeepsWhole ==
  ASSUME TableHolds, WholeInv, NEW c \in Route, Process(c)
  PROVE  WholeInv'
<1>a. LinkType
  BY DEF WholeInv, FirstInv
<1>0. /\ FirstInv /\ Entries /\ Windowed /\ Whole
      /\ LinkType /\ HostType /\ Named /\ InLine /\ Ordered
      /\ LinkType' /\ UNCHANGED <<hostVars, toProbe, toHost, garbled, told, cut>>
      /\ \A t \in Route : Way(t)' = Way(t)
      /\ \A t \in Route : t # c => inbox'[t] = inbox[t] /\ answers'[t] = answers[t]
  BY <1>a, ProcessMoves DEF WholeInv, FirstInv, LinkType
<1>1. PICK i \in 1..Len(inbox[c]), a \in Answer :
        /\ ~inbox[c][i].done /\ \A j \in 1..(i - 1) : inbox[c][j].done
        /\ inbox[c][i].req \in Way(c) /\ inbox[c][i].req \in Sendable
        /\ Carried(c, inbox[c][i].req, a)
        /\ order' = IF Reaches(c, inbox[c][i].req, "write") THEN Append(order, inbox[c][i].req.corr) ELSE order
        /\ Len(inbox'[c]) = Len(inbox[c])
        /\ \A j \in 1..Len(inbox[c]) : /\ inbox'[c][j].req = inbox[c][j].req
                                       /\ inbox'[c][j].done <=> inbox[c][j].done \/ j = i
        /\ Range(answers'[c]) = Range(answers[c]) \cup {a}
  BY <1>a, ProcessMoves
<1> DEFINE r == inbox[c][i].req
<1>2. r \in Sendable /\ r \in Way(c) /\ r \in Asked /\ Carried(c, r, a)
  BY <1>1, AskedHas
<1>3. /\ UNCHANGED <<corr, pc, conn, out, todo>> /\ Line' = Line /\ Waits' = Waits
      /\ \A t \in Route : Len(inbox'[t]) = Len(inbox[t]) /\ \A j \in 1..Len(inbox[t]) : inbox'[t][j].req = inbox[t][j].req
  BY <1>0, <1>1 DEF hostVars, Line, Waits
<1>4. FirstInv'
  BY <1>0, ProcessKeepsFirst
<1> HIDE DEF r
<1>5. /\ Stored' \subseteq Stored \cup {a}
      /\ newest' = newest \/ (newest' = r.corr /\ OfSession(r) /\ ~Resent(r))
  BY <1>2, CarriedTable
<1>6. /\ newest \in Corr /\ newest' \in Corr /\ Past(newest) \in Int /\ Past(newest') \in Int
      /\ r.corr \in Corr /\ Past(r.corr) \in Int
      /\ Past(newest) <= Past(newest') /\ (~Resent(r) /\ OfSession(r) => Past(newest) < Past(r.corr))
  <2>1. newest \in Corr /\ r.corr \in Corr
    BY <1>0, <1>2, AskedIs DEF Ordered
  <2>2. OfSession(r) /\ ~Resent(r) => Past(newest) < Past(r.corr)
    BY <1>0, <1>2, FreshIsNewer
  <2>3. newest' \in Corr /\ Past(newest) \in Int /\ Past(newest') \in Int /\ Past(r.corr) \in Int
    BY <1>5, <2>1, PastRange
  <2> QED BY <1>5, <2>1, <2>2, <2>3
<1>7. ASSUME NEW s, Past(s.corr) \in Int, Reached(s) PROVE Past(s.corr) <= Past(newest')
  BY <1>6, <1>7 DEF Reached
<1>8. OfSession(r) => Past(r.corr) <= Past(newest')
  <2>1. CASE OfSession(r) /\ Resent(r)
    BY <1>0, <1>2, <1>6, <1>7, <2>1, ResentReached
  <2>2. CASE OfSession(r) /\ ~Resent(r)
    <3>1. newest' = r.corr
      BY <1>2, <2>2 DEF Carried
    <3> QED BY <1>6, <3>1
  <2> QED BY <2>1, <2>2
<1>9. Line # <<>> => InReach(Past(newest')) /\ (OfSession(r) => InReach(Past(r.corr)))
  BY <1>0, <1>2, <1>5 DEF Windowed
<1>10. Windowed'
  BY <1>0, <1>3, <1>9 DEF Windowed, InReach, OfSession, Past
<1>11. \/ resend' = resend /\ newest' = newest
       \/ OfSession(r) /\ ~Resent(r) /\ newest' = r.corr /\ resend' = Kept(resend, r, a) /\ a.res = "ok" /\ a.val = 0
  BY <1>2 DEF Carried, table, Ans
<1>12. Entries'
  <2>1. CASE resend' = resend
    BY <1>0, <2>1, SameKept
  <2>2. CASE OfSession(r) /\ ~Resent(r) /\ resend' = Kept(resend, r, a) /\ a.res = "ok"
    <3>1. corr \in Corr /\ Past(r.corr) <= Past(corr) /\ Past(corr) <= MaxCorrs
      BY <1>0, <1>2 DEF Named, HostType
    <3>2. Past(r.corr) <= MaxCorrs
      BY <1>6, <3>1, PastRange, LinkAssumption
    <3>3. \A k, m \in resend' : k.corr = m.corr => k = m
      BY <1>0, <1>2, <1>6, <2>2, <3>2, TableKeeps
    <3>4. \A b \in Stored' : b.res # "result_lost"
      BY <1>0, <1>5, <2>2 DEF Entries
    <3> QED BY <3>3, <3>4 DEF Entries
  <2> QED BY <1>11, <2>1, <2>2
<1>13. Whole'
  <2> SUFFICES ASSUME ~cut' PROVE Together'
    BY DEF Whole
  <2>1. /\ ~garbled /\ AllKept /\ OutComes /\ NoneLost
        /\ \A t \in Route : NoGap(t) /\ DoneReached(t)
        /\ \A x \in told : x.what # "result_lost"
    BY <1>0 DEF Whole, Together
  <2>2. \A t \in Route : NoGap(t)'
    BY <1>0, <1>3, <1>6, <2>1, ProcessKeepsOrder
  <2>3. /\ \A s \in Waits : OfSession(s) /\ s.corr \in Corr /\ Past(s.corr) \in Int
        /\ Range(out) \subseteq Waits
    BY <1>0, LineIs, PlaceInLine
  <2>4. OutComes'
    <3>1. ASSUME pc = "exchange", NEW s \in Range(out) PROVE Past(s.corr) <= Past(newest') \/ s \in Way(conn)
      <4>1. Past(s.corr) \in Int /\ (Reached(s) \/ s \in Way(conn))
        BY <2>1, <2>3, <3>1 DEF OutComes
      <4> QED BY <1>7, <4>1
    <3>2. Way(conn)' = Way(conn)
      BY <1>0, <1>3 DEF Way, Queue, HostType
    <3> QED BY <1>3, <3>1, <3>2 DEF OutComes, Reached, Past
  <2>5. \A t \in Route : \A j \in 1..Len(inbox[t]) : Past(inbox[t][j].req.corr) \in Int
    <3> SUFFICES ASSUME NEW t \in Route, NEW j \in 1..Len(inbox[t]) PROVE Past(inbox[t][j].req.corr) \in Int
      OBVIOUS
    <3> DEFINE S == [req : Sendable, done : BOOLEAN]
               q == inbox[t]
    <3>1. q \in Seq(S)
      BY <1>0 DEF LinkType, WireType
    <3>2. q[j] \in S
      <4> HIDE DEF S
      <4> QED BY <3>1, ElementOfSeq
    <3>3. inbox[t][j].req \in Sendable
      BY <3>2
    <3> QED BY <1>0, <3>3, AskedIs
  <2>6. ASSUME NEW t \in Route PROVE DoneReached(t)'
    <3>1. ASSUME NEW j \in 1..Len(inbox[t]), inbox[t][j].done, OfSession(inbox[t][j].req) PROVE Past(inbox[t][j].req.corr) <= Past(newest')
      <4>1. Reached(inbox[t][j].req) /\ Past(inbox[t][j].req.corr) \in Int
        BY <2>1, <2>5, <3>1 DEF DoneReached
      <4> QED BY <1>7, <4>1
    <3>2. ASSUME NEW j \in 1..Len(inbox[t]), inbox'[t][j].done, OfSession(inbox[t][j].req) PROVE Past(inbox[t][j].req.corr) <= Past(newest')
      <4>1. CASE inbox[t][j].done
        BY <3>1, <3>2, <4>1
      <4>2. CASE t = c /\ j = i
        BY <1>8, <3>2, <4>2 DEF r
      <4>3. t # c => inbox'[t] = inbox[t]
        BY <1>0
      <4>4. t = c => (inbox[c][j].done \/ j = i)
        BY <1>1, <3>2
      <4> QED BY <3>2, <4>1, <4>2, <4>3, <4>4
    <3> QED BY <1>3, <3>2 DEF DoneReached, OfSession, Reached, Past
  <2>7. AllKept'
    <3>1. CASE resend' = resend /\ newest' = newest
      BY <1>3, <2>1, <3>1, SameKept, SameReached DEF AllKept
    <3>2. CASE OfSession(r) /\ ~Resent(r) /\ newest' = r.corr /\ resend' = Kept(resend, r, a) /\ a.val = 0
      <4>1. ASSUME NEW s \in Waits, Past(s.corr) < Past(r.corr) PROVE Reached(s)
        <5>1. CASE Past(newest) < Past(s.corr)
          <6>1. After(newest, s, inbox[c][i].req)
            BY <3>2, <4>1, <5>1 DEF After, r
          <6>2. PICK j \in 1..(i - 1) : inbox[c][j].req = s
            BY <2>1, <6>1 DEF NoGap, QueueInOrder
          <6>3. Len(inbox[c]) \in Nat
            <7> DEFINE S == [req : Sendable, done : BOOLEAN]
            <7>1. inbox[c] \in Seq(S)
              BY <1>0 DEF LinkType, WireType
            <7> HIDE DEF S
            <7> QED BY <7>1, LenProperties
          <6>4. j \in 1..Len(inbox[c]) /\ inbox[c][j].done
            BY <1>1, <6>2, <6>3
          <6> QED BY <2>1, <2>3, <6>2, <6>4 DEF DoneReached
        <5> QED BY <1>6, <2>3, <5>1 DEF Reached
      <4> QED BY <1>0, <1>1, <1>2, <1>3, <1>6, <1>9, <2>1, <3>2, <4>1, FreshKeepsAll
    <3> QED BY <1>11, <3>1, <3>2
  <2>8. NoneLost'
    <3>1. ASSUME NEW t \in Route, NEW b \in Back(t)', NEW w \in Waits, w.op = "write", w.corr = b.req.corr
          PROVE  b.res # "result_lost"
      <4>1. b \in Back(t) \/ b = a
        <5>1. CASE t = c
          BY <1>0, <1>1, <3>1, <5>1 DEF Back
        <5>2. CASE t # c
          BY <1>0, <3>1, <5>2 DEF Back
        <5> QED BY <5>1, <5>2
      <4>2. CASE b \in Back(t)
        BY <2>1, <3>1, <4>2 DEF NoneLost
      <4>3. CASE b = a
        BY <1>0, <1>2, <2>1, <3>1, <4>3, NewAnswer
      <4> QED BY <4>1, <4>2, <4>3
    <3> QED BY <1>3, <3>1 DEF NoneLost
  <2> QED BY <1>0, <2>1, <2>2, <2>4, <2>6, <2>7, <2>8 DEF Together
<1> QED BY <1>4, <1>10, <1>12, <1>13 DEF WholeInv

-------------------------------------------------------------------------------
(* The invariant where no request is lost. *)

\* A session that was just opened: nothing is under way.
LEMMA WholeInit == LinkInit => WholeInv
<1> SUFFICES ASSUME LinkInit PROVE WholeInv
  OBVIOUS
<1>1. FirstInv
  BY FirstInit
<1>2. Entries
  <2> DEFINE r == [sid |-> Holder, corr |-> FirstCorr, op |-> "open", arg |-> 0]
             e == [corr |-> FirstCorr, req |-> r, ans |-> Ans(r, "ok", boot)]
  <2>1. resend = {e} /\ e.ans.res = "ok"
    BY DEF LinkInit, Ans
  <2> HIDE DEF e
  <2> QED BY <2>1 DEF Entries, Stored
<1>3. out = <<>> /\ todo = <<>> /\ Line = <<>> /\ Waits = {} /\ pc = "idle"
  <2>1. out = <<>> /\ todo = <<>> /\ pc = "idle"
    BY DEF LinkInit
  <2>2. Line = <<>>
    BY <2>1 DEF Line
  <2> QED BY <2>1, <2>2, RangeEmpty DEF Waits
<1>4. Windowed
  BY <1>3 DEF Windowed
<1>5. \A t \in Route : toProbe[t] = <<>> /\ inbox[t] = <<>>
  BY DEF LinkInit
<1>6. ~garbled /\ told = {}
  BY DEF LinkInit
<1>7. AllKept /\ NoneLost /\ OutComes /\ \A t \in Route : NoGap(t) /\ DoneReached(t)
  BY <1>3, <1>5 DEF AllKept, NoneLost, OutComes, NoGap, DoneReached
<1> QED BY <1>1, <1>2, <1>4, <1>6, <1>7 DEF WholeInv, Whole, Together

\* Nothing that is seen moves.
LEMMA WholeStutters == WholeInv /\ UNCHANGED linkVars => WholeInv'
<1> SUFFICES ASSUME WholeInv, UNCHANGED linkVars PROVE WholeInv'
  OBVIOUS
<1>0. FirstInv /\ LinkType /\ InLine /\ Whole
  BY DEF WholeInv, FirstInv
<1>1. FirstInv'
  BY <1>0, FirstStutters
<1>2. WireMoves /\ UNCHANGED <<toProbe, inbox, garbled, cut, newest, conn>> /\ Waits' = Waits
  BY DEF WireMoves, linkVars, hostVars, wireVars, pastVars, vars, table, Way, Queue, Back, Waits, Line
<1>3. ASSUME ~cut' PROVE OutComes' /\ \A t \in Route : NoGap(t)' /\ DoneReached(t)'
  <2>1. OutComes /\ \A t \in Route : NoGap(t) /\ DoneReached(t)
    BY <1>0, <1>2, <1>3 DEF Whole, Together
  <2>2. Way(conn)' = Way(conn)
    BY <1>2 DEF Way, Queue
  <2>3. OutComes'
    BY <1>0, <1>2, <2>1, <2>2, StillComes
  <2> QED BY <1>2, <2>1, <2>3, SameQueues
<1> QED BY <1>1, <1>2, <1>3, WireKeepsWhole

LEMMA WholeNext == TableHolds /\ WholeInv /\ [LinkNext]_linkVars => WholeInv'
<1> SUFFICES ASSUME TableHolds, WholeInv, [LinkNext]_linkVars PROVE WholeInv'
  OBVIOUS
<1>0. FirstInv /\ LinkType /\ HostType /\ Unsent
  BY DEF WholeInv, FirstInv, LinkType
<1>a. FirstInv'
  BY <1>0, FirstNext
<1>1. CASE SubscribeAgain \/ Call
  <2>1. use' \in Use /\ \E requests : IsCall(requests) /\ Begin(requests)
    BY <1>0, <1>1, CallBegins
  <2> QED BY <2>1, BeginKeepsWhole
<1>2. CASE PutOut
  BY <1>2, PutOutKeepsWhole
<1>3. CASE \E f : ResultComes(f) \/ ReadPast(f) \/ ConfirmAnswered(f)
  <2>1. PICK f : ResultComes(f) \/ ReadPast(f) \/ ConfirmAnswered(f)
    BY <1>3
  <2>2. CASE ResultComes(f)
    <3>1. HostMoves /\ out' = Tail(out)
      BY <1>0, <2>2, ResultMoves
    <3>2. pc = "exchange" /\ UNCHANGED <<conn, toProbe, inbox, garbled>> /\ out # <<>>
      BY <1>0, <2>2, AwaitedIs DEF ResultComes, Comes, Ours
    <3>3. out \in Seq(Sendable)
      BY <1>0 DEF HostType
    <3>4. Range(Tail(out)) \subseteq Range(out)
      BY <3>2, <3>3, RangeTail
    <3> QED BY <1>a, <3>1, <3>2, <3>4, HostKeepsWhole
  <2>3. CASE ReadPast(f)
    <3>1. HostMoves /\ UNCHANGED <<hostVars, toProbe, inbox, garbled>>
      BY <1>0, <2>3, ReadPastMoves
    <3>2. pc' = pc /\ conn' = conn /\ out' = out
      BY <3>1 DEF hostVars
    <3> QED BY <1>a, <3>1, <3>2, HostKeepsWhole
  <2>4. CASE ConfirmAnswered(f)
    <3>1. confirm.after = "call" => out = <<>>
      BY <1>0, <2>4 DEF Unsent, ConfirmAnswered
    <3>2. HostMoves /\ UNCHANGED <<toProbe, inbox>> /\ (pc' = "exchange" => out' = <<>>)
      BY <1>0, <2>4, <3>1, AnsweredMoves
    <3>3. garbled' = garbled
      BY <2>4 DEF ConfirmAnswered
    <3> QED BY <1>a, <3>2, <3>3, HostKeepsWhole
  <2> QED BY <2>1, <2>2, <2>3, <2>4
<1>4. CASE BrokenComes
  <2>1. HostMoves /\ UNCHANGED <<toProbe, inbox>> /\ (pc' = "exchange" => out' = <<>>)
    BY <1>0, <1>4, BrokenMoves
  <2>2. garbled' => garbled
    BY <1>4 DEF BrokenComes, KeepsGoing, Resyncs, Reopen
  <2> QED BY <1>a, <2>1, <2>2, HostKeepsWhole
<1>5. CASE NothingComes
  <2>1. HostMoves /\ UNCHANGED <<toProbe, inbox>> /\ (pc' = "exchange" => out' = <<>>)
    BY <1>0, <1>5, NothingMoves
  <2>2. garbled' => garbled
    BY <1>5 DEF NothingComes, KeepsGoing, Resyncs, Reopen
  <2> QED BY <1>a, <2>1, <2>2, HostKeepsWhole
<1>6. CASE SendConfirm
  BY <1>6, SendConfirmKeepsWhole
<1>7. CASE ConfirmMissed
  <2>1. HostMoves /\ UNCHANGED <<toProbe, inbox>>
    BY <1>0, <1>7, ConfirmMissedMoves
  <2>2. pc' # "exchange" /\ garbled' = garbled
    BY <1>7 DEF ConfirmMissed
  <2> QED BY <1>a, <2>1, <2>2, HostKeepsWhole
<1>8. CASE NoneConfirmed
  <2>1. HostMoves /\ UNCHANGED <<toProbe, inbox>> /\ pc' = "idle"
    BY <1>0, <1>8, NoneMoves
  <2>2. garbled' = garbled
    BY <1>8 DEF NoneConfirmed, wireVars
  <2> QED BY <1>a, <2>1, <2>2, HostKeepsWhole
<1>9. CASE LoseRequest
  BY <1>0, <1>a, <1>9, LoseRequestMoves, WireKeepsWhole
<1>10. CASE LoseAnswer
  BY <1>10, LoseAnswerKeepsWhole
<1>11. CASE \E c \in Route : Receive(c) \/ Process(c) \/ Sent(c) \/ CloseRoute(c)
  BY <1>11, ArrivalsKeepWhole, ProcessKeepsWhole
<1>12. CASE UNCHANGED linkVars
  BY <1>12, WholeStutters
<1> QED BY <1>1, <1>2, <1>3, <1>4, <1>5, <1>6, <1>7, <1>8, <1>9, <1>10, <1>11, <1>12 DEF LinkNext

\* What the caller is told of a request is so, for every number of requests in flight and every
\* resend table that holds them: one that succeeded ran, one that was not sent did not, and where no
\* request was lost no result is (exchange, _fail_transport, _resent, _remember).
THEOREM EachToldTrue == ASSUME TableHolds PROVE LinkSpec => []ResultsAreTrue
<1>1. WholeInv => ResultsAreTrue
  <2> SUFFICES ASSUME WholeInv, NEW x \in told
               PROVE  /\ x.what = "ok" => x.corr \in Range(order)
                      /\ x.what = "not_sent" => x.corr \notin Range(order)
                      /\ x.what = "result_lost" => cut
    BY DEF ResultsAreTrue
  <2>1. x.what = "ok" => x.corr \in Range(order)
    BY DEF WholeInv, FirstInv, OkRan
  <2>2. x.what = "not_sent" => x.corr \notin Range(order)
    BY DEF WholeInv, FirstInv, Unsent, Nowhere
  <2>3. x.what = "result_lost" => cut
    BY DEF WholeInv, Whole, Together
  <2> QED BY <2>1, <2>2, <2>3
<1>2. WholeInv /\ [LinkNext]_linkVars => WholeInv'
  BY WholeNext
<1> QED BY <1>1, <1>2, WholeInit, PTL DEF LinkSpec

-------------------------------------------------------------------------------
(* One fault. *)

\* What is between the host and the probe, by its corrs (0 for a torn frame), in the order in which
\* the host will see it: answers on their way, what is queued, requests on their way.
Sign(f) == IF f = Torn THEN 0 ELSE f.req.corr
PipeOf(coming, queue, going) ==
  [i \in 1..(Len(coming) + Len(queue) + Len(going)) |->
     IF i <= Len(coming) THEN Sign(coming[i])
     ELSE IF i <= Len(coming) + Len(queue) THEN queue[i - Len(coming)].req.corr
     ELSE going[i - Len(coming) - Len(queue)].corr]
Pipe == PipeOf(toHost[conn], inbox[conn], toProbe[conn])

\* The answers that are not out are those of the requests that are done, in that order.
InStep(t) ==
  /\ Len(answers[t]) <= Len(inbox[t])
  /\ \A i \in 1..Len(inbox[t]) : inbox[t][i].done <=> i <= Len(answers[t])
  /\ \A i \in 1..Len(answers[t]) : answers[t][i].req.corr = inbox[t][i].req.corr
Answering ==
  /\ \A t \in Route : InStep(t)
  /\ \A e \in resend : e.ans # Dropped => e.ans.req.corr = e.corr
  /\ \A a \in AllBack : a.res # "unknown"

\* One of these requests is not in the pipe.
Missing(P, o) == \E i \in 1..Len(o) : \A p \in 1..Len(P) : P[p] # o[i].corr
\* Before a request there is each one before it in the line.
Straight(P, l) ==
  \A i, j \in 1..Len(l) : i < j => \A q \in 1..Len(P) : P[q] = l[j].corr => \E p \in 1..(q - 1) : P[p] = l[i].corr
\* None is torn, or only what is read next.
Clean(P) == \A p \in 1..Len(P) : P[p] # 0
CleanBehind(P) == \A p \in 2..Len(P) : P[p] # 0
\* The corr is the last one, and nowhere else.
LastIs(P, c) == Len(P) > 0 /\ \A p \in 1..Len(P) : P[p] = c <=> p = Len(P)
\* These requests and nothing else.
Holds(P, o) == Len(P) = Len(o) /\ \A i \in 1..Len(o) : P[i] = o[i].corr

\* No other connection was used yet.
OthersEmpty == \A t \in Route : t # conn => toProbe[t] = <<>> /\ inbox[t] = <<>> /\ toHost[t] = <<>>

\* Nothing was hit: what is out is in the pipe.
Unhit == pc # "confirm" /\ again = NoResends /\ ~garbled /\ OthersEmpty /\ Holds(Pipe, out)
\* One fault, and what is out comes.
Fine == pc # "confirm" /\ ~garbled /\ Clean(Pipe) /\ Straight(Pipe, Line) /\ ~Missing(Pipe, out)
\* It is not noticed yet: the call waits for what does not come.
Amiss ==
  /\ pc = "exchange" /\ again = NoResends /\ OthersEmpty /\ (garbled => use.framing = "bulk")
  /\ CleanBehind(Pipe) /\ Missing(Pipe, out)
\* A broken frame was noticed on a serial port; the copies come between what is on its way.
Mixed == pc = "exchange" /\ use.framing = "cobs" /\ again = [waits |-> 0, broken |-> 1] /\ ~garbled /\ Clean(Pipe)
\* The confirm that is looked for comes, behind everything else.
Sought ==
  /\ pc = "confirm" /\ again = NoResends /\ confirm.after = "rest" /\ Clean(Pipe)
  /\ confirm.sought = 0 => confirm.tries = 0
  /\ confirm.sought # 0 => ~garbled /\ LastIs(Pipe, confirm.sought)

\* No call failed.
Unfailed == ~failed /\ \A x \in told : x.what \notin {"unknown", "not_sent"}

\* At most one fault: the link is in one of these.
Harmless ==
  /\ hits \in Nat
  /\ hits = 0 => Unhit
  /\ hits = 1 => Fine \/ Amiss \/ Mixed \/ Sought
  /\ hits <= 1 => Unfailed
HarmlessInv == FirstInv /\ Answering /\ Harmless


-------------------------------------------------------------------------------
(* One fault: what becomes of the pipe. *)

\* The k-th of the pipe is gone.
DropAt(P, P2, k) ==
  /\ k \in 1..Len(P) /\ Len(P2) = Len(P) - 1
  /\ \A i \in 1..Len(P2) : P2[i] = IF i < k THEN P[i] ELSE P[i + 1]

\* These requests came at its end.
Grown(P, P2, d) ==
  /\ Len(P2) = Len(P) + Len(d)
  /\ \A i \in 1..Len(P) : P2[i] = P[i]
  /\ \A i \in 1..Len(d) : P2[Len(P) + i] = d[i].corr

\* The out requests are the first of the line; no two requests of it have the same corr.
Leads(o, l) == Len(o) <= Len(l) /\ \A i \in 1..Len(o) : o[i] = l[i]
Apart(l) == \A i, j \in 1..Len(l) : l[i].corr = l[j].corr => i = j

\* These requests are the next ones of the line.
Follows(d, o, l) == \A i \in 1..Len(d) : d[i] = l[Len(o) + i] /\ d[i].corr # 0

LEMMA DropFrom ==
  ASSUME NEW P \in Seq(Nat), NEW P2 \in Seq(Nat), NEW k, DropAt(P, P2, k)
  PROVE  /\ \A i \in 1..Len(P2) : \E j \in 1..Len(P) : j >= i /\ P2[i] = P[j]
         /\ k = 1 => \A i \in 1..Len(P2) : P2[i] = P[i + 1]
         /\ \A j \in 1..Len(P) : j < k => j \in 1..Len(P2) /\ P2[j] = P[j]
         /\ \A j \in 1..Len(P) : j > k => j - 1 \in 1..Len(P2) /\ P2[j - 1] = P[j]
<1>0. Len(P) \in Nat /\ Len(P2) \in Nat /\ Len(P2) = Len(P) - 1 /\ k \in 1..Len(P)
  BY LenProperties DEF DropAt
<1>1. ASSUME NEW i \in 1..Len(P2) PROVE \E j \in 1..Len(P) : j >= i /\ P2[i] = P[j]
  <2>1. CASE i < k
    <3>1. i \in 1..Len(P) /\ P2[i] = P[i] /\ i >= i
      BY <1>0, <2>1 DEF DropAt
    <3> QED BY <3>1
  <2>2. CASE i >= k
    <3>1. i + 1 \in 1..Len(P) /\ P2[i] = P[i + 1]
      BY <1>0, <2>2 DEF DropAt
    <3>2. i + 1 >= i
      BY <1>0
    <3> QED BY <3>1, <3>2
  <2> QED BY <1>0, <2>1, <2>2
<1>2. k = 1 => \A i \in 1..Len(P2) : P2[i] = P[i + 1]
  BY <1>0 DEF DropAt
<1>3. \A j \in 1..Len(P) : j < k => j \in 1..Len(P2) /\ P2[j] = P[j]
  BY <1>0 DEF DropAt
<1>4. \A j \in 1..Len(P) : j > k => j - 1 \in 1..Len(P2) /\ P2[j - 1] = P[j]
  BY <1>0 DEF DropAt
<1> QED BY <1>1, <1>2, <1>3, <1>4

\* Without one of it, the pipe has no torn frame it had not, and what was missing is.
LEMMA DropKeeps ==
  ASSUME NEW P \in Seq(Nat), NEW P2 \in Seq(Nat), NEW k, DropAt(P, P2, k)
  PROVE  /\ Clean(P) => Clean(P2)
         /\ CleanBehind(P) => CleanBehind(P2)
         /\ CleanBehind(P) /\ k = 1 => Clean(P2)
         /\ \A o : Missing(P, o) => Missing(P2, o)
<1>0. Len(P) \in Nat /\ Len(P2) \in Nat /\ Len(P2) = Len(P) - 1
  BY LenProperties DEF DropAt
<1>1. Clean(P) => Clean(P2)
  BY DropFrom, SMTT(30) DEF Clean
<1>2. CleanBehind(P) => CleanBehind(P2)
  <2> SUFFICES ASSUME CleanBehind(P), NEW i \in 2..Len(P2) PROVE P2[i] # 0
    BY DEF CleanBehind
  <2>1. i \in 1..Len(P2)
    BY <1>0
  <2>2. PICK j \in 1..Len(P) : j >= i /\ P2[i] = P[j]
    BY <2>1, DropFrom
  <2>3. j \in 2..Len(P)
    BY <1>0, <2>2
  <2> QED BY <2>2, <2>3 DEF CleanBehind
<1>3. CleanBehind(P) /\ k = 1 => Clean(P2)
  <2> SUFFICES ASSUME CleanBehind(P), k = 1, NEW i \in 1..Len(P2) PROVE P2[i] # 0
    BY DEF Clean
  <2>1. P2[i] = P[i + 1] /\ i + 1 \in 2..Len(P)
    BY <1>0, DropFrom
  <2> QED BY <2>1 DEF CleanBehind
<1>4. \A o : Missing(P, o) => Missing(P2, o)
  BY DropFrom, SMTT(30) DEF Missing
<1> QED BY <1>1, <1>2, <1>3, <1>4

\* A copy that comes after another one may be dropped.
LEMMA DropCopy ==
  ASSUME NEW P \in Seq(Nat), NEW P2 \in Seq(Nat), NEW k, DropAt(P, P2, k),
         NEW p \in 1..(k - 1), P[p] = P[k]
  PROVE  /\ \A l : Straight(P, l) => Straight(P2, l)
         /\ \A o : Missing(P2, o) => Missing(P, o)
         /\ \A c : LastIs(P, c) => LastIs(P2, c)
<1>0. Len(P) \in Nat /\ Len(P2) \in Nat /\ Len(P2) = Len(P) - 1 /\ k \in 1..Len(P)
  BY LenProperties DEF DropAt
<1>1. p \in 1..Len(P) /\ p < k /\ p \in 1..Len(P2) /\ P2[p] = P[k] /\ k \in Int /\ p \in Int
  <2>1. p \in 1..Len(P) /\ p < k /\ k \in Int /\ p \in Int
    BY <1>0
  <2> QED BY <2>1, DropFrom
<1>a. /\ \A j \in 1..Len(P) : j < k => j \in 1..Len(P2) /\ P2[j] = P[j]
      /\ \A j \in 1..Len(P) : j > k => j - 1 \in 1..Len(P2) /\ P2[j - 1] = P[j]
  BY DropFrom
<1>2. ASSUME NEW l, Straight(P, l) PROVE Straight(P2, l)
  <2> SUFFICES ASSUME NEW i \in 1..Len(l), NEW j \in 1..Len(l), i < j, NEW q \in 1..Len(P2), P2[q] = l[j].corr
               PROVE  \E m \in 1..(q - 1) : P2[m] = l[i].corr
    BY DEF Straight
  <2>1. \E z \in 1..Len(P) : ((z = q /\ q < k) \/ (z = q + 1 /\ q >= k)) /\ P[z] = l[j].corr
    <3>1. CASE q < k
      <4>1. q \in 1..Len(P) /\ P2[q] = P[q]
        BY <1>0, <3>1 DEF DropAt
      <4> QED BY <3>1, <4>1
    <3>2. CASE q >= k
      <4>1. q + 1 \in 1..Len(P) /\ P2[q] = P[q + 1]
        BY <1>0, <3>2 DEF DropAt
      <4> QED BY <3>2, <4>1
    <3> QED BY <1>0, <3>1, <3>2
  <2>a. PICK z \in 1..Len(P) : ((z = q /\ q < k) \/ (z = q + 1 /\ q >= k)) /\ P[z] = l[j].corr
    BY <2>1
  <2>2. PICK m \in 1..(z - 1) : P[m] = l[i].corr
    BY <1>2, <2>a DEF Straight
  <2>3. m \in 1..Len(P) /\ m < z /\ m \in Int /\ q \in Int /\ z \in Int
    BY <1>0, <2>a, <2>2
  <2>b. m >= 1 /\ m <= z - 1 /\ q \in Int /\ z \in Int /\ m \in Int /\ k \in Int /\ (z = q \/ q >= k) /\ (z = q + 1 \/ (z = q /\ q < k))
    BY <1>1, <2>a, <2>2, <2>3, SMTT(30)
  <2>4. CASE m < k
    <3>1. P2[m] = P[m]
      BY <1>a, <2>3, <2>4
    <3>2. m \in 1..(q - 1)
      BY <2>b, <2>4, SMTT(30)
    <3> QED BY <2>2, <3>1, <3>2
  <2>5. CASE m = k
    <3>1. p \in 1..(q - 1)
      BY <1>1, <2>b, <2>5, SMTT(30)
    <3>2. P2[p] = l[i].corr
      BY <1>1, <2>2, <2>5
    <3> QED BY <3>1, <3>2
  <2>6. CASE m > k
    <3>1. P2[m - 1] = P[m]
      BY <1>a, <2>3, <2>6
    <3>2. m - 1 \in 1..(q - 1)
      BY <1>1, <2>b, <2>6, SMTT(30)
    <3> QED BY <2>2, <3>1, <3>2
  <2> QED BY <1>1, <2>3, <2>4, <2>5, <2>6
<1>3. \A j \in 1..Len(P) : \E i \in 1..Len(P2) : P2[i] = P[j]
  <2> TAKE j \in 1..Len(P)
  <2>1. CASE j < k
    BY <1>a, <2>1
  <2>2. CASE j = k
    BY <1>1, <2>2
  <2>3. CASE j > k
    BY <1>a, <2>3
  <2> QED BY <1>1, <2>1, <2>2, <2>3
<1>4. \A o : Missing(P2, o) => Missing(P, o)
  BY <1>3 DEF Missing
<1>5. ASSUME NEW c, LastIs(P, c) PROVE LastIs(P2, c)
  <2>1. P[Len(P)] = c /\ Len(P) \in 1..Len(P)
    BY <1>0, <1>5 DEF LastIs
  <2>2. k # Len(P)
    <3>1. ASSUME k = Len(P) PROVE FALSE
      <4>1. P[p] = c
        BY <2>1, <3>1
      <4> QED BY <1>1, <1>5, <3>1, <4>1 DEF LastIs
    <3> QED BY <3>1
  <2>3. \A i \in 1..Len(P2) : P2[i] = c <=> i = Len(P2)
    <3> TAKE i \in 1..Len(P2)
    <3>1. CASE i < k
      <4>1. i \in 1..Len(P) /\ P2[i] = P[i] /\ i # Len(P) /\ i # Len(P2)
        BY <1>0, <2>2, <3>1, SMTT(30) DEF DropAt
      <4> QED BY <1>5, <4>1 DEF LastIs
    <3>2. CASE i >= k
      <4>1. i + 1 \in 1..Len(P) /\ P2[i] = P[i + 1] /\ (i = Len(P2) <=> i + 1 = Len(P))
        BY <1>0, <3>2 DEF DropAt
      <4> QED BY <1>5, <4>1 DEF LastIs
    <3> QED BY <1>0, <3>1, <3>2
  <2>4. Len(P2) > 0
    BY <1>0, <1>1
  <2> QED BY <2>3, <2>4 DEF LastIs
<1> QED BY <1>2, <1>4, <1>5

\* The first one is read, and it is not the one that is waited for.
LEMMA PastKeepsFine ==
  ASSUME NEW P \in Seq(Nat), NEW P2 \in Seq(Nat), DropAt(P, P2, 1),
         NEW S, NEW o \in Seq(S), NEW l \in Seq(S), Leads(o, l), Straight(P, l), ~Missing(P, o),
         Len(o) > 0, P[1] # o[1].corr
  PROVE  Straight(P2, l) /\ ~Missing(P2, o)
<1>0. /\ Len(P) \in Nat /\ Len(P2) \in Nat /\ Len(P2) = Len(P) - 1 /\ Len(P) > 0
      /\ Len(o) \in Nat /\ Len(l) \in Nat /\ Len(o) <= Len(l) /\ o[1] = l[1]
  BY LenProperties DEF DropAt, Leads
<1>a. /\ \A i \in 1..Len(P2) : P2[i] = P[i + 1]
      /\ \A j \in 1..Len(P) : j > 1 => j - 1 \in 1..Len(P2) /\ P2[j - 1] = P[j]
  BY DropFrom
<1>1. ASSUME NEW i \in 1..Len(l) PROVE P[1] # l[i].corr
  <2>1. CASE i = 1
    BY <1>0, <2>1
  <2>2. CASE i > 1 /\ P[1] = l[i].corr
    <3>1. 1 \in 1..Len(l) /\ 1 \in 1..Len(P) /\ 1 < i
      BY <1>0, <2>2
    <3>2. \E p \in 1..(1 - 1) : P[p] = l[1].corr
      BY <2>2, <3>1 DEF Straight
    <3> QED BY <3>2
  <2> QED BY <1>0, <2>1, <2>2
<1>2. Straight(P2, l)
  <2> SUFFICES ASSUME NEW i \in 1..Len(l), NEW j \in 1..Len(l), i < j, NEW q \in 1..Len(P2), P2[q] = l[j].corr
               PROVE  \E m \in 1..(q - 1) : P2[m] = l[i].corr
    BY DEF Straight
  <2>1. q + 1 \in 1..Len(P) /\ P[q + 1] = l[j].corr /\ q \in Int
    BY <1>0, <1>a
  <2>2. PICK m \in 1..((q + 1) - 1) : P[m] = l[i].corr
    BY <2>1 DEF Straight
  <2>a. m \in 1..q /\ m \in Int
    BY <2>1, <2>2
  <2>3. m # 1
    BY <1>1, <2>2
  <2>4. m - 1 \in 1..(q - 1) /\ m \in 1..Len(P) /\ m > 1
    BY <1>0, <2>1, <2>a, <2>3
  <2>5. P2[m - 1] = P[m]
    BY <1>a, <2>4
  <2> QED BY <2>2, <2>4, <2>5
<1>3. ~Missing(P2, o)
  <2> SUFFICES ASSUME NEW i \in 1..Len(o) PROVE \E p \in 1..Len(P2) : P2[p] = o[i].corr
    BY DEF Missing
  <2>1. PICK p \in 1..Len(P) : P[p] = o[i].corr
    BY DEF Missing
  <2>2. p # 1
    <3>1. i \in 1..Len(l) /\ o[i] = l[i]
      BY <1>0 DEF Leads
    <3> QED BY <1>1, <2>1, <3>1
  <2>a. p > 1
    BY <1>0, <2>2
  <2>3. p - 1 \in 1..Len(P2) /\ P2[p - 1] = P[p]
    BY <1>a, <2>a
  <2> QED BY <2>1, <2>3
<1> QED BY <1>2, <1>3

\* The first one is the answer of the first request of the line.
LEMMA AnswerKeepsFine ==
  ASSUME NEW P \in Seq(Nat), NEW P2 \in Seq(Nat), DropAt(P, P2, 1),
         NEW S, NEW o \in Seq(S), NEW l \in Seq(S), Leads(o, l), Apart(l), Len(o) > 0, P[1] = o[1].corr
  PROVE  /\ Straight(P, l) => Straight(P2, Tail(l))
         /\ ~Missing(P, o) => ~Missing(P2, Tail(o))
         /\ Missing(P, o) => Missing(P2, Tail(o)) /\ Len(o) > 1
         /\ Holds(P, o) => Holds(P2, Tail(o))
<1>0. /\ Len(P) \in Nat /\ Len(P2) \in Nat /\ Len(P2) = Len(P) - 1 /\ Len(P) > 0
      /\ Len(o) \in Nat /\ Len(l) \in Nat /\ Len(o) <= Len(l) /\ o[1] = l[1]
      /\ \A i \in 1..Len(P2) : P2[i] = P[i + 1]
  BY LenProperties, DropFrom DEF DropAt, Leads
<1>a. \A j \in 1..Len(P) : j > 1 => j - 1 \in 1..Len(P2) /\ P2[j - 1] = P[j]
  BY DropFrom
<1>1. /\ Len(Tail(o)) = Len(o) - 1 /\ \A i \in 1..Len(Tail(o)) : Tail(o)[i] = o[i + 1]
      /\ Len(Tail(l)) = Len(l) - 1 /\ \A i \in 1..Len(Tail(l)) : Tail(l)[i] = l[i + 1]
  <2>1. o # <<>> /\ l # <<>>
    BY <1>0, EmptySeq
  <2> QED BY <2>1, HeadTailProperties
<1>2. \A i \in 1..Len(l) : i > 1 => P[1] # l[i].corr
  BY <1>0 DEF Apart
<1>3. ASSUME Straight(P, l) PROVE Straight(P2, Tail(l))
  <2> SUFFICES ASSUME NEW i \in 1..Len(Tail(l)), NEW j \in 1..Len(Tail(l)), i < j,
                      NEW q \in 1..Len(P2), P2[q] = Tail(l)[j].corr
               PROVE  \E m \in 1..(q - 1) : P2[m] = Tail(l)[i].corr
    BY DEF Straight
  <2>1. /\ q + 1 \in 1..Len(P) /\ i + 1 \in 1..Len(l) /\ j + 1 \in 1..Len(l) /\ i + 1 < j + 1 /\ i + 1 > 1
        /\ P[q + 1] = l[j + 1].corr /\ Tail(l)[i] = l[i + 1] /\ q \in Int
    BY <1>0, <1>1
  <2>2. PICK m \in 1..((q + 1) - 1) : P[m] = l[i + 1].corr
    BY <1>3, <2>1 DEF Straight
  <2>a. m \in 1..q /\ m \in Int
    BY <2>1, <2>2
  <2>3. m # 1
    BY <1>2, <2>1, <2>2
  <2>4. m - 1 \in 1..(q - 1) /\ m \in 1..Len(P) /\ m > 1
    BY <1>0, <2>1, <2>a, <2>3
  <2>5. P2[m - 1] = P[m]
    BY <1>a, <2>4
  <2> QED BY <2>1, <2>2, <2>4, <2>5
<1>4. ASSUME ~Missing(P, o) PROVE ~Missing(P2, Tail(o))
  <2> SUFFICES ASSUME NEW i \in 1..Len(Tail(o)) PROVE \E p \in 1..Len(P2) : P2[p] = Tail(o)[i].corr
    BY DEF Missing
  <2>1. i + 1 \in 1..Len(o) /\ i + 1 \in 1..Len(l) /\ i + 1 > 1 /\ Tail(o)[i] = o[i + 1] /\ o[i + 1] = l[i + 1]
    BY <1>0, <1>1 DEF Leads
  <2>2. PICK p \in 1..Len(P) : P[p] = o[i + 1].corr
    BY <1>4, <2>1 DEF Missing
  <2>3. p # 1
    BY <1>2, <2>1, <2>2
  <2>a. p > 1
    BY <1>0, <2>3
  <2>4. p - 1 \in 1..Len(P2) /\ P2[p - 1] = P[p]
    BY <1>a, <2>a
  <2> QED BY <2>1, <2>2, <2>4
<1>5. ASSUME Missing(P, o) PROVE Missing(P2, Tail(o)) /\ Len(o) > 1
  <2>1. PICK i \in 1..Len(o) : \A p \in 1..Len(P) : P[p] # o[i].corr
    BY <1>5 DEF Missing
  <2>2. i # 1
    BY <1>0, <2>1
  <2>3. i - 1 \in 1..Len(Tail(o)) /\ Tail(o)[i - 1] = o[i] /\ Len(o) > 1
    BY <1>0, <1>1, <2>2
  <2>4. \A p \in 1..Len(P2) : P2[p] # o[i].corr
    BY <1>0, <2>1
  <2> QED BY <2>3, <2>4 DEF Missing
<1>6. ASSUME Holds(P, o) PROVE Holds(P2, Tail(o))
  BY <1>0, <1>1, <1>6 DEF Holds
<1> QED BY <1>3, <1>4, <1>5, <1>6

\* Requests go out behind it, the next ones of the line.
LEMMA GrownKeeps ==
  ASSUME NEW P \in Seq(Nat), NEW P2 \in Seq(Nat), NEW S, NEW d \in Seq(S), Grown(P, P2, d),
         NEW o \in Seq(S), NEW o2 \in Seq(S), NEW l \in Seq(S), Leads(o, l), Leads(o2, l), Apart(l),
         Len(o2) = Len(o) + Len(d), Follows(d, o, l)
  PROVE  /\ Clean(P) => Clean(P2)
         /\ CleanBehind(P) => CleanBehind(P2)
         /\ Straight(P, l) /\ ~Missing(P, o) => Straight(P2, l) /\ ~Missing(P2, o2)
         /\ Missing(P, o) => Missing(P2, o2)
         /\ Holds(P, o) => Holds(P2, o2)
<1>0. /\ Len(P) \in Nat /\ Len(d) \in Nat /\ Len(P2) = Len(P) + Len(d)
      /\ Len(o) \in Nat /\ Len(l) \in Nat /\ Len(o2) \in Nat /\ Len(o2) = Len(o) + Len(d) /\ Len(o2) <= Len(l)
  BY LenProperties DEF Grown, Leads
<1>d. \A i \in 1..Len(d) : d[i] = l[Len(o) + i] /\ d[i].corr # 0
  BY DEF Follows
<1>1. ASSUME NEW q \in 1..Len(P2)
      PROVE  \/ q \in 1..Len(P) /\ P2[q] = P[q]
             \/ \E k \in 1..Len(d) : q = Len(P) + k /\ P2[q] = d[k].corr
  <2>1. CASE q <= Len(P)
    BY <1>0, <2>1 DEF Grown
  <2>2. CASE q > Len(P)
    <3>1. q - Len(P) \in 1..Len(d) /\ q = Len(P) + (q - Len(P))
      BY <1>0, <2>2
    <3> QED BY <3>1 DEF Grown
  <2> QED BY <1>0, <2>1, <2>2
<1>2. \A q \in 1..Len(P) : q \in 1..Len(P2) /\ P2[q] = P[q]
  BY <1>0 DEF Grown
<1>3. \A k \in 1..Len(d) : Len(P) + k \in 1..Len(P2) /\ P2[Len(P) + k] = d[k].corr
  BY <1>0 DEF Grown
<1>4. \A i \in 1..Len(l) : i > Len(o) /\ i <= Len(o2) => i - Len(o) \in 1..Len(d) /\ d[i - Len(o)] = l[i]
  BY <1>0, <1>d
<1>5. Clean(P) => Clean(P2)
  BY <1>1, <1>d, ZenonT(60) DEF Clean
<1>6. CleanBehind(P) => CleanBehind(P2)
  <2> SUFFICES ASSUME CleanBehind(P), NEW q \in 2..Len(P2) PROVE P2[q] # 0
    BY DEF CleanBehind
  <2>1. q \in 1..Len(P2)
    BY <1>0
  <2>2. q \in 1..Len(P) => q \in 2..Len(P)
    BY <1>0
  <2> QED BY <1>1, <1>d, <2>1, <2>2, ZenonT(60) DEF CleanBehind
<1>7. ASSUME Straight(P, l), ~Missing(P, o) PROVE ~Missing(P2, o2)
  <2> SUFFICES ASSUME NEW i \in 1..Len(o2) PROVE \E p \in 1..Len(P2) : P2[p] = o2[i].corr
    BY DEF Missing
  <2>1. i \in 1..Len(l) /\ o2[i] = l[i]
    BY <1>0 DEF Leads
  <2>2. CASE i <= Len(o)
    <3>1. i \in 1..Len(o) /\ o[i] = l[i]
      BY <1>0, <2>2 DEF Leads
    <3>2. PICK p \in 1..Len(P) : P[p] = o[i].corr
      BY <1>7, <3>1 DEF Missing
    <3> QED BY <1>2, <2>1, <3>1, <3>2
  <2>3. CASE i > Len(o)
    <3>1. i - Len(o) \in 1..Len(d) /\ d[i - Len(o)] = l[i]
      BY <1>0, <1>4, <2>1, <2>3
    <3> QED BY <1>3, <2>1, <3>1
  <2> QED BY <1>0, <2>2, <2>3
<1>8. ASSUME Straight(P, l), ~Missing(P, o) PROVE Straight(P2, l)
  <2> SUFFICES ASSUME NEW i \in 1..Len(l), NEW j \in 1..Len(l), i < j, NEW q \in 1..Len(P2), P2[q] = l[j].corr
               PROVE  \E m \in 1..(q - 1) : P2[m] = l[i].corr
    BY DEF Straight
  <2>1. CASE q \in 1..Len(P) /\ P2[q] = P[q]
    <3>1. PICK m \in 1..(q - 1) : P[m] = l[i].corr
      BY <1>8, <2>1, ZenonT(60) DEF Straight
    <3>2. m \in 1..Len(P)
      BY <1>0, <2>1
    <3> QED BY <1>2, <3>1, <3>2
  <2>2. ASSUME NEW k \in 1..Len(d), q = Len(P) + k, P2[q] = d[k].corr
        PROVE  \E m \in 1..(q - 1) : P2[m] = l[i].corr
    <3>1. Len(o) + k \in 1..Len(l) /\ k \in Int /\ i \in Int /\ q \in Int
      BY <1>0, SMTT(30)
    <3>a. d[k] = l[Len(o) + k]
      BY <1>d
    <3>2. j = Len(o) + k
      BY <2>2, <3>1, <3>a DEF Apart
    <3>3. CASE i <= Len(o)
      <4>1. i \in 1..Len(o) /\ o[i] = l[i]
        BY <1>0, <3>3, SMTT(30) DEF Leads
      <4>2. PICK p \in 1..Len(P) : P[p] = o[i].corr
        BY <1>8, <4>1 DEF Missing
      <4>3. p \in 1..(q - 1)
        BY <1>0, <2>2
      <4> QED BY <1>2, <4>1, <4>2, <4>3
    <3>4. CASE i > Len(o)
      <4> DEFINE n == i - Len(o)
      <4>1. n \in 1..Len(d) /\ d[n] = l[i] /\ n < k
        BY <1>0, <1>4, <3>2, <3>4, SMTT(30)
      <4>a. P2[Len(P) + n] = d[n].corr
        BY <1>3, <4>1
      <4>b. n \in Nat /\ n >= 1 /\ n < k /\ k \in Int
        BY <1>0, <3>1, <4>1
      <4>c. q = Len(P) + k
        BY <2>2
      <4>2. Len(P) + n \in 1..(q - 1)
        <5> HIDE DEF n
        <5> QED BY <1>0, <4>b, <4>c, SMTT(30)
      <4> QED BY <4>1, <4>a, <4>2
    <3> QED BY <1>0, <3>3, <3>4
  <2> QED BY <1>1, <2>1, <2>2
<1>9. ASSUME Missing(P, o) PROVE Missing(P2, o2)
  <2>1. PICK i \in 1..Len(o) : \A p \in 1..Len(P) : P[p] # o[i].corr
    BY <1>9 DEF Missing
  <2>2. i \in 1..Len(o2) /\ i \in 1..Len(l) /\ o2[i] = l[i] /\ o[i] = l[i]
    BY <1>0 DEF Leads
  <2>3. ASSUME NEW q \in 1..Len(P2) PROVE P2[q] # l[i].corr
    <3>1. ASSUME NEW k \in 1..Len(d), P2[q] = d[k].corr, P2[q] = l[i].corr PROVE FALSE
      <4>1. Len(o) + k \in 1..Len(l) /\ d[k] = l[Len(o) + k] /\ Len(o) + k # i
        BY <1>0, <1>d, SMTT(30)
      <4> QED BY <2>2, <3>1, <4>1 DEF Apart
    <3> QED BY <1>1, <2>1, <2>2, <3>1
  <2> QED BY <2>2, <2>3 DEF Missing
<1>10. ASSUME Holds(P, o) PROVE Holds(P2, o2)
  <2>1. Len(P2) = Len(o2) /\ Len(P) = Len(o)
    BY <1>0, <1>10 DEF Holds
  <2>2. ASSUME NEW i \in 1..Len(o2) PROVE P2[i] = o2[i].corr
    <3>1. i \in 1..Len(l) /\ o2[i] = l[i]
      BY <1>0 DEF Leads
    <3>2. CASE i <= Len(o)
      <4>1. i \in 1..Len(o) /\ o[i] = l[i]
        BY <1>0, <3>2 DEF Leads
      <4> QED BY <1>2, <1>10, <2>1, <3>1, <4>1 DEF Holds
    <3>3. CASE i > Len(o)
      <4> DEFINE n == i - Len(o)
      <4>1. n \in 1..Len(d) /\ d[n] = l[i] /\ i = Len(P) + n
        BY <1>0, <1>4, <2>1, <3>1, <3>3
      <4> QED BY <1>3, <3>1, <4>1
    <3> QED BY <1>0, <3>2, <3>3
  <2> QED BY <2>1, <2>2 DEF Holds
<1> QED BY <1>5, <1>6, <1>7, <1>8, <1>9, <1>10

\* What holds no more than what is out: all of it comes, in the order of the line, none twice.
LEMMA HoldsIs ==
  ASSUME NEW P \in Seq(Nat), NEW S, NEW o \in Seq(S), NEW l \in Seq(S), Leads(o, l), Apart(l),
         \A i \in 1..Len(l) : l[i].corr # 0, Holds(P, o)
  PROVE  /\ Clean(P) /\ Straight(P, l) /\ ~Missing(P, o)
         /\ \A p, q \in 1..Len(P) : P[p] = P[q] => p = q
         /\ \A P2 \in Seq(Nat) : \A k : DropAt(P, P2, k) => Missing(P2, o)
         /\ Len(P) > 0 => Len(o) > 0 /\ P[1] = o[1].corr
<1>0. /\ Len(P) \in Nat /\ Len(P) = Len(o) /\ Len(l) \in Nat /\ Len(o) <= Len(l)
      /\ \A p \in 1..Len(P) : p \in 1..Len(o) /\ p \in 1..Len(l) /\ P[p] = o[p].corr /\ P[p] = l[p].corr
  BY LenProperties, SMTT(30) DEF Holds, Leads
<1>1. Clean(P)
  BY <1>0 DEF Clean
<1>2. \A p \in 1..Len(P) : \A j \in 1..Len(l) : P[p] = l[j].corr => p = j
  BY <1>0 DEF Apart
<1>3. Straight(P, l)
  <2> SUFFICES ASSUME NEW i \in 1..Len(l), NEW j \in 1..Len(l), i < j, NEW q \in 1..Len(P), P[q] = l[j].corr
               PROVE  \E m \in 1..(q - 1) : P[m] = l[i].corr
    BY DEF Straight
  <2>1. q = j
    BY <1>2
  <2>2. i \in 1..(q - 1) /\ i \in 1..Len(P)
    BY <1>0, <2>1
  <2> QED BY <1>0, <2>2
<1>4. ~Missing(P, o)
  BY <1>0 DEF Missing
<1>5. \A p, q \in 1..Len(P) : P[p] = P[q] => p = q
  BY <1>0, <1>2
<1>6. ASSUME NEW P2 \in Seq(Nat), NEW k, DropAt(P, P2, k) PROVE Missing(P2, o)
  <2>1. k \in 1..Len(P) /\ k \in 1..Len(o) /\ P[k] = o[k].corr /\ Len(P2) = Len(P) - 1
    BY <1>0, <1>6 DEF DropAt
  <2>2. ASSUME NEW p \in 1..Len(P2) PROVE P2[p] # P[k]
    <3>1. CASE p < k
      BY <1>0, <1>5, <1>6, <2>1, <3>1 DEF DropAt
    <3>2. CASE p >= k
      <4>1. p + 1 \in 1..Len(P) /\ p + 1 # k /\ P2[p] = P[p + 1]
        BY <1>0, <1>6, <2>1, <3>2 DEF DropAt
      <4> QED BY <1>5, <2>1, <4>1
    <3> QED BY <1>0, <2>1, <3>1, <3>2
  <2> QED BY <2>1, <2>2 DEF Missing
<1>7. Len(P) > 0 => Len(o) > 0 /\ P[1] = o[1].corr
  BY <1>0
<1> QED BY <1>1, <1>3, <1>4, <1>5, <1>6, <1>7


-------------------------------------------------------------------------------
(* One fault: the pipe after a step. *)

Wire(a, b, c) == a \in Seq(Answer \cup {Torn}) /\ b \in Seq([req : Sendable, done : BOOLEAN]) /\ c \in Seq(Sendable)

LEMMA SignIs ==
  /\ Torn \notin Answer /\ Sign(Torn) = 0
  /\ \A f \in Answer : Sign(f) = f.req.corr /\ f.req.corr \in Nat
  /\ \A r \in Sendable : r.corr \in Nat /\ r.corr # 0
<1>1. Torn \notin Answer
  BY DEF Torn, Answer
<1>2. \A f \in Answer : f.req.corr \in Nat
  BY CorrAssumption DEF Answer, Requests
<1>3. \A r \in Sendable : r.corr \in Nat /\ r.corr # 0
  BY CorrAssumption DEF Sendable, Requests
<1> QED BY <1>1, <1>2, <1>3 DEF Sign

\* What is at which place of the pipe.
PipeShape(P, a, b, c) ==
  /\ Len(a) \in Nat /\ Len(b) \in Nat /\ Len(c) \in Nat
  /\ P \in Seq(Nat) /\ Len(P) = Len(a) + Len(b) + Len(c)
  /\ \A i \in 1..Len(a) : P[i] = Sign(a[i])
  /\ \A i \in 1..Len(b) : P[Len(a) + i] = b[i].req.corr /\ b[i].req.corr # 0
  /\ \A i \in 1..Len(c) : P[Len(a) + Len(b) + i] = c[i].corr /\ c[i].corr # 0
  /\ \A i \in 1..Len(P) : \/ i \in 1..Len(a)
                          \/ \E j \in 1..Len(b) : i = Len(a) + j
                          \/ \E j \in 1..Len(c) : i = Len(a) + Len(b) + j

LEMMA PipeIs == ASSUME NEW a, NEW b, NEW c, Wire(a, b, c) PROVE PipeShape(PipeOf(a, b, c), a, b, c)
<1> DEFINE P == PipeOf(a, b, c)
           n == Len(a) + Len(b) + Len(c)
<1>0. Len(a) \in Nat /\ Len(b) \in Nat /\ Len(c) \in Nat /\ n \in Nat
  BY LenProperties DEF Wire
<1>1. \A i \in 1..Len(a) : Sign(a[i]) \in Nat
  <2>1. \A i \in 1..Len(a) : a[i] \in Answer \cup {Torn}
    BY ElementOfSeq DEF Wire
  <2> QED BY <2>1, SignIs
<1>2. \A i \in 1..Len(b) : b[i].req.corr \in Nat /\ b[i].req.corr # 0
  <2> DEFINE S == [req : Sendable, done : BOOLEAN]
  <2>1. b \in Seq(S)
    BY DEF Wire
  <2>2. \A i \in 1..Len(b) : b[i] \in S
    <3> HIDE DEF S
    <3> QED BY <2>1, ElementOfSeq
  <2>3. \A x \in S : x.req \in Sendable
    OBVIOUS
  <2> QED BY <2>2, <2>3, SignIs
<1>3. \A i \in 1..Len(c) : c[i].corr \in Nat /\ c[i].corr # 0
  <2>1. \A i \in 1..Len(c) : c[i] \in Sendable
    BY ElementOfSeq DEF Wire
  <2> QED BY <2>1, SignIs
<1> DEFINE At(i) == IF i <= Len(a) THEN Sign(a[i])
                    ELSE IF i <= Len(a) + Len(b) THEN b[i - Len(a)].req.corr
                    ELSE c[i - Len(a) - Len(b)].corr
<1>4. \A i \in 1..n : At(i) \in Nat
  <2> TAKE i \in 1..n
  <2>1. CASE i <= Len(a)
    BY <1>0, <1>1, <2>1
  <2>2. CASE i > Len(a) /\ i <= Len(a) + Len(b)
    <3>1. i - Len(a) \in 1..Len(b)
      BY <1>0, <2>2
    <3> QED BY <1>0, <1>2, <2>2, <3>1
  <2>3. CASE i > Len(a) + Len(b)
    <3>1. i - Len(a) - Len(b) \in 1..Len(c)
      BY <1>0, <2>3
    <3> QED BY <1>0, <1>3, <2>3, <3>1
  <2> QED BY <1>0, <2>1, <2>2, <2>3
<1>5. P = [i \in 1..n |-> At(i)]
  BY DEF PipeOf
<1> HIDE DEF P, At
<1>6. P \in Seq(Nat) /\ Len(P) = n /\ \A i \in 1..n : P[i] = At(i)
  <2> HIDE DEF n
  <2> QED BY <1>0, <1>4, <1>5
<1>7. \A i \in 1..Len(a) : P[i] = Sign(a[i])
  BY <1>0, <1>6 DEF At
<1>8. ASSUME NEW i \in 1..Len(b) PROVE P[Len(a) + i] = b[i].req.corr
  <2>1. Len(a) + i \in 1..n /\ ~(Len(a) + i <= Len(a)) /\ Len(a) + i <= Len(a) + Len(b) /\ (Len(a) + i) - Len(a) = i
    BY <1>0
  <2> QED BY <1>6, <2>1 DEF At
<1>9. ASSUME NEW i \in 1..Len(c) PROVE P[Len(a) + Len(b) + i] = c[i].corr
  <2> DEFINE j == Len(a) + Len(b) + i
  <2>1. j \in 1..n /\ ~(j <= Len(a)) /\ ~(j <= Len(a) + Len(b)) /\ j - Len(a) - Len(b) = i
    BY <1>0
  <2> HIDE DEF j
  <2>2. P[j] = c[i].corr
    BY <1>6, <2>1 DEF At
  <2> QED BY <2>2 DEF j
<1>10. ASSUME NEW i \in 1..n
       PROVE  \/ i \in 1..Len(a)
              \/ \E j \in 1..Len(b) : i = Len(a) + j
              \/ \E j \in 1..Len(c) : i = Len(a) + Len(b) + j
  <2>1. CASE i <= Len(a)
    BY <1>0, <2>1
  <2>2. CASE i > Len(a) /\ i <= Len(a) + Len(b)
    <3>1. i - Len(a) \in 1..Len(b) /\ i = Len(a) + (i - Len(a))
      BY <1>0, <2>2
    <3> QED BY <3>1
  <2>3. CASE i > Len(a) + Len(b)
    <3> DEFINE j == i - Len(a) - Len(b)
    <3>1. j \in 1..Len(c) /\ i = Len(a) + Len(b) + j
      BY <1>0, <2>3
    <3> QED BY <3>1
  <2> QED BY <1>0, <2>1, <2>2, <2>3
<1>11. PipeShape(P, a, b, c)
  BY <1>0, <1>2, <1>3, <1>6, <1>7, <1>8, <1>9, <1>10 DEF PipeShape
<1> QED BY <1>11 DEF P

\* A frame is read.
LEMMA PipeRead ==
  ASSUME NEW a, NEW b, NEW c, Wire(a, b, c), a # <<>>
  PROVE  /\ Wire(Tail(a), b, c) /\ DropAt(PipeOf(a, b, c), PipeOf(Tail(a), b, c), 1)
         /\ PipeOf(a, b, c)[1] = Sign(Head(a))
<1> DEFINE P == PipeOf(a, b, c)
           Q == PipeOf(Tail(a), b, c)
<1>1. /\ Tail(a) \in Seq(Answer \cup {Torn}) /\ Len(Tail(a)) = Len(a) - 1 /\ Head(a) = a[1] /\ Len(a) > 0
      /\ \A i \in 1..Len(Tail(a)) : Tail(a)[i] = a[i + 1]
  BY HeadTailProperties, EmptySeq DEF Wire
<1>2. Wire(Tail(a), b, c)
  BY <1>1 DEF Wire
<1>3s. PipeShape(P, a, b, c)
  BY PipeIs
<1>4s. PipeShape(Q, Tail(a), b, c)
  BY <1>2, PipeIs
<1> HIDE DEF P, Q
<1>3. /\ Len(a) \in Nat /\ Len(b) \in Nat /\ Len(c) \in Nat /\ Len(P) = Len(a) + Len(b) + Len(c)
      /\ \A i \in 1..Len(a) : P[i] = Sign(a[i])
      /\ \A i \in 1..Len(b) : P[Len(a) + i] = b[i].req.corr
      /\ \A i \in 1..Len(c) : P[Len(a) + Len(b) + i] = c[i].corr
  BY <1>3s DEF PipeShape
<1>4. /\ Len(Q) = Len(Tail(a)) + Len(b) + Len(c)
      /\ \A i \in 1..Len(Tail(a)) : Q[i] = Sign(Tail(a)[i])
      /\ \A i \in 1..Len(b) : Q[Len(Tail(a)) + i] = b[i].req.corr
      /\ \A i \in 1..Len(c) : Q[Len(Tail(a)) + Len(b) + i] = c[i].corr
  BY <1>4s DEF PipeShape
<1>5. \A i \in 1..Len(Q) : i \in 1..Len(Tail(a)) \/ (\E j \in 1..Len(b) : i = Len(Tail(a)) + j) \/ \E j \in 1..Len(c) : i = Len(Tail(a)) + Len(b) + j
  BY <1>4s DEF PipeShape
<1>6. ASSUME NEW i \in 1..Len(Q) PROVE Q[i] = P[i + 1]
  <2>1. CASE i \in 1..Len(Tail(a))
    <3>1. i + 1 \in 1..Len(a)
      BY <1>1, <1>3, <2>1
    <3> QED BY <1>1, <1>3, <1>4, <2>1, <3>1
  <2>2. ASSUME NEW j \in 1..Len(b), i = Len(Tail(a)) + j PROVE Q[i] = P[i + 1]
    <3>1. i + 1 = Len(a) + j
      BY <1>1, <1>3, <2>2
    <3> QED BY <1>3, <1>4, <2>2, <3>1
  <2>3. ASSUME NEW j \in 1..Len(c), i = Len(Tail(a)) + Len(b) + j PROVE Q[i] = P[i + 1]
    <3>1. i + 1 = Len(a) + Len(b) + j
      BY <1>1, <1>3, <2>3
    <3> QED BY <1>3, <1>4, <2>3, <3>1
  <2> QED BY <1>5, <2>1, <2>2, <2>3
<1>7. Len(Q) = Len(P) - 1 /\ 1 \in 1..Len(P) /\ P[1] = Sign(Head(a)) /\ Len(P) \in Nat
  BY <1>1, <1>3, <1>4
<1>8. DropAt(P, Q, 1)
  <2>1. \A i \in 1..Len(Q) : ~(i < 1)
    BY <1>7
  <2> QED BY <1>6, <1>7, <2>1 DEF DropAt
<1> QED BY <1>2, <1>7, <1>8 DEF P, Q

\* The first frame is torn.
FirstTorn(a) == [a EXCEPT ![1] = Torn]

LEMMA PipeTorn ==
  ASSUME NEW a, NEW b, NEW c, Wire(a, b, c), a # <<>>
  PROVE  LET P == PipeOf(a, b, c)
             Q == PipeOf(FirstTorn(a), b, c)
         IN Len(Q) = Len(P) /\ Len(P) > 0 /\ Q[1] = 0 /\ \A i \in 2..Len(P) : Q[i] = P[i]
<1> DEFINE a2 == FirstTorn(a)
           P == PipeOf(a, b, c)
           Q == PipeOf(a2, b, c)
<1>1. 1 \in 1..Len(a) /\ Len(a) \in Nat /\ a \in Seq(Answer \cup {Torn})
  BY EmptySeq, LenProperties DEF Wire
<1>2. a2 \in Seq(Answer \cup {Torn}) /\ Len(a2) = Len(a) /\ \A i \in 1..Len(a) : a2[i] = IF i = 1 THEN Torn ELSE a[i]
  BY <1>1, ExceptSeq DEF FirstTorn
<1> HIDE DEF a2
<1>3. Wire(a2, b, c)
  BY <1>2 DEF Wire
<1>4s. PipeShape(P, a, b, c)
  BY PipeIs
<1>5s. PipeShape(Q, a2, b, c)
  BY <1>2, <1>3, PipeIs
<1> HIDE DEF P, Q
<1>4. /\ Len(b) \in Nat /\ Len(c) \in Nat /\ Len(P) = Len(a) + Len(b) + Len(c)
      /\ \A i \in 1..Len(a) : P[i] = Sign(a[i])
      /\ \A i \in 1..Len(b) : P[Len(a) + i] = b[i].req.corr
      /\ \A i \in 1..Len(c) : P[Len(a) + Len(b) + i] = c[i].corr
  BY <1>4s DEF PipeShape
<1>5. /\ Len(Q) = Len(a) + Len(b) + Len(c)
      /\ \A i \in 1..Len(a) : Q[i] = Sign(a2[i])
      /\ \A i \in 1..Len(b) : Q[Len(a) + i] = b[i].req.corr
      /\ \A i \in 1..Len(c) : Q[Len(a) + Len(b) + i] = c[i].corr
  BY <1>2, <1>5s DEF PipeShape
<1>6. \A i \in 1..Len(P) : i \in 1..Len(a) \/ (\E j \in 1..Len(b) : i = Len(a) + j) \/ \E j \in 1..Len(c) : i = Len(a) + Len(b) + j
  BY <1>4s DEF PipeShape
<1>7. \A i \in 2..Len(P) : Q[i] = P[i]
  <2> TAKE i \in 2..Len(P)
  <2>1. i \in 1..Len(P) /\ i # 1
    BY <1>1, <1>4
  <2>2. CASE i \in 1..Len(a)
    BY <1>2, <1>4, <1>5, <2>1, <2>2, SMTT(30)
  <2> QED BY <1>4, <1>5, <1>6, <2>1, <2>2, ZenonT(60)
<1>8. Q[1] = 0
  BY <1>1, <1>2, <1>5, SignIs
<1>9. Len(Q) = Len(P) /\ Len(P) > 0
  BY <1>1, <1>4, <1>5
<1> QED BY <1>7, <1>8, <1>9 DEF P, Q, a2

\* A request on its way is gone.
LEMMA PipeDrop ==
  ASSUME NEW a, NEW b, NEW c, Wire(a, b, c), c # <<>>
  PROVE  LET k == Len(a) + Len(b) + 1
         IN /\ Wire(a, b, Tail(c)) /\ DropAt(PipeOf(a, b, c), PipeOf(a, b, Tail(c)), k)
            /\ PipeOf(a, b, c)[k] = Head(c).corr
<1> DEFINE P == PipeOf(a, b, c)
           Q == PipeOf(a, b, Tail(c))
           k == Len(a) + Len(b) + 1
<1>1. /\ Tail(c) \in Seq(Sendable) /\ Len(Tail(c)) = Len(c) - 1 /\ Head(c) = c[1] /\ Len(c) > 0
      /\ \A i \in 1..Len(Tail(c)) : Tail(c)[i] = c[i + 1]
  BY HeadTailProperties, EmptySeq DEF Wire
<1>2. Wire(a, b, Tail(c))
  BY <1>1 DEF Wire
<1>3s. PipeShape(P, a, b, c)
  BY PipeIs
<1>4s. PipeShape(Q, a, b, Tail(c))
  BY <1>2, PipeIs
<1> HIDE DEF P, Q
<1>3. /\ Len(a) \in Nat /\ Len(b) \in Nat /\ Len(c) \in Nat /\ Len(P) = Len(a) + Len(b) + Len(c)
      /\ \A i \in 1..Len(a) : P[i] = Sign(a[i])
      /\ \A i \in 1..Len(b) : P[Len(a) + i] = b[i].req.corr
      /\ \A i \in 1..Len(c) : P[Len(a) + Len(b) + i] = c[i].corr
  BY <1>3s DEF PipeShape
<1>4. /\ Len(Q) = Len(a) + Len(b) + Len(Tail(c))
      /\ \A i \in 1..Len(a) : Q[i] = Sign(a[i])
      /\ \A i \in 1..Len(b) : Q[Len(a) + i] = b[i].req.corr
      /\ \A i \in 1..Len(Tail(c)) : Q[Len(a) + Len(b) + i] = Tail(c)[i].corr
  BY <1>4s DEF PipeShape
<1>5. \A i \in 1..Len(Q) : i \in 1..Len(a) \/ (\E j \in 1..Len(b) : i = Len(a) + j) \/ \E j \in 1..Len(Tail(c)) : i = Len(a) + Len(b) + j
  BY <1>4s DEF PipeShape
<1>6. ASSUME NEW i \in 1..Len(Q) PROVE Q[i] = IF i < k THEN P[i] ELSE P[i + 1]
  <2>1. CASE i \in 1..Len(a)
    BY <1>3, <1>4, <2>1
  <2>2. ASSUME NEW j \in 1..Len(b), i = Len(a) + j PROVE Q[i] = P[i] /\ i < k
    BY <1>3, <1>4, <2>2
  <2>3. ASSUME NEW j \in 1..Len(Tail(c)), i = Len(a) + Len(b) + j PROVE Q[i] = P[i + 1] /\ ~(i < k)
    <3>1. i + 1 = Len(a) + Len(b) + (j + 1) /\ j + 1 \in 1..Len(c) /\ ~(i < k)
      BY <1>1, <1>3, <2>3
    <3>2. Q[i] = c[j + 1].corr
      BY <1>1, <1>4, <2>3
    <3>3. P[i + 1] = c[j + 1].corr
      BY <1>3, <3>1
    <3> QED BY <3>1, <3>2, <3>3
  <2> QED BY <1>5, <2>1, <2>2, <2>3
<1>7. Len(Q) = Len(P) - 1 /\ k \in 1..Len(P) /\ P[k] = Head(c).corr
  BY <1>1, <1>3, <1>4
<1>8. DropAt(P, Q, k)
  BY <1>6, <1>7 DEF DropAt
<1> QED BY <1>2, <1>7, <1>8 DEF P, Q

\* A request on its way is queued.
LEMMA PipeQueues ==
  ASSUME NEW a, NEW b, NEW c, Wire(a, b, c), c # <<>>, NEW x \in [req : Sendable, done : BOOLEAN], x.req = Head(c)
  PROVE  PipeOf(a, Append(b, x), Tail(c)) = PipeOf(a, b, c)
<1> DEFINE b2 == Append(b, x)
           P == PipeOf(a, b, c)
           Q == PipeOf(a, b2, Tail(c))
<1>1. /\ Tail(c) \in Seq(Sendable) /\ Len(Tail(c)) = Len(c) - 1 /\ Head(c) = c[1] /\ Len(c) > 0
      /\ \A i \in 1..Len(Tail(c)) : Tail(c)[i] = c[i + 1]
  BY HeadTailProperties, EmptySeq DEF Wire
<1>2. /\ b2 \in Seq([req : Sendable, done : BOOLEAN]) /\ Len(b2) = Len(b) + 1 /\ b2[Len(b) + 1] = x
      /\ \A i \in 1..Len(b) : b2[i] = b[i]
  <2> DEFINE S == [req : Sendable, done : BOOLEAN]
  <2>1. b \in Seq(S) /\ x \in S
    BY DEF Wire
  <2> HIDE DEF S
  <2> QED BY <2>1, AppendProperties DEF S
<1> HIDE DEF b2
<1>3. Wire(a, b2, Tail(c))
  BY <1>1, <1>2 DEF Wire
<1>4s. PipeShape(P, a, b, c)
  BY PipeIs
<1>5s. PipeShape(Q, a, b2, Tail(c))
  BY <1>3, PipeIs
<1> HIDE DEF P, Q
<1>4. /\ Len(a) \in Nat /\ Len(b) \in Nat /\ Len(c) \in Nat /\ Len(P) = Len(a) + Len(b) + Len(c) /\ P \in Seq(Nat)
      /\ \A i \in 1..Len(a) : P[i] = Sign(a[i])
      /\ \A i \in 1..Len(b) : P[Len(a) + i] = b[i].req.corr
      /\ \A i \in 1..Len(c) : P[Len(a) + Len(b) + i] = c[i].corr
  BY <1>4s DEF PipeShape
<1>5. /\ Len(Q) = Len(a) + Len(b2) + Len(Tail(c)) /\ Q \in Seq(Nat)
      /\ \A i \in 1..Len(a) : Q[i] = Sign(a[i])
      /\ \A i \in 1..Len(b2) : Q[Len(a) + i] = b2[i].req.corr
      /\ \A i \in 1..Len(Tail(c)) : Q[Len(a) + Len(b2) + i] = Tail(c)[i].corr
  BY <1>5s DEF PipeShape
<1>6. \A i \in 1..Len(P) : i \in 1..Len(a) \/ (\E j \in 1..Len(b) : i = Len(a) + j) \/ \E j \in 1..Len(c) : i = Len(a) + Len(b) + j
  BY <1>4s DEF PipeShape
<1>7. Len(Q) = Len(P)
  BY <1>1, <1>2, <1>4, <1>5
<1>8. ASSUME NEW i \in 1..Len(P) PROVE Q[i] = P[i]
  <2>1. CASE i \in 1..Len(a)
    BY <1>4, <1>5, <2>1
  <2>2. ASSUME NEW j \in 1..Len(b), i = Len(a) + j PROVE Q[i] = P[i]
    <3>1. j \in 1..Len(b2)
      BY <1>2, <1>4
    <3> QED BY <1>2, <1>4, <1>5, <2>2, <3>1
  <2>3. ASSUME NEW j \in 1..Len(c), i = Len(a) + Len(b) + j PROVE Q[i] = P[i]
    <3>1. CASE j = 1
      <4>1. i = Len(a) + Len(b2) /\ Len(b2) \in 1..Len(b2)
        BY <1>2, <1>4, <2>3, <3>1
      <4>2. Q[i] = x.req.corr
        BY <1>2, <1>5, <4>1
      <4> QED BY <1>1, <1>4, <2>3, <3>1, <4>2
    <3>2. CASE j > 1
      <4>1. j - 1 \in 1..Len(Tail(c)) /\ i = Len(a) + Len(b2) + (j - 1) /\ (j - 1) + 1 = j
        BY <1>1, <1>2, <1>4, <2>3, <3>2
      <4>2. Q[i] = Tail(c)[j - 1].corr /\ Tail(c)[j - 1] = c[j]
        BY <1>1, <1>5, <4>1
      <4> QED BY <1>4, <2>3, <4>2
    <3> QED BY <1>4, <3>1, <3>2
  <2> QED BY <1>6, <2>1, <2>2, <2>3
<1>9. Q = P
  BY <1>4, <1>5, <1>7, <1>8, SeqEqual
<1> QED BY <1>9 DEF P, Q, b2

\* A request that is queued is done.
LEMMA PipeDone ==
  ASSUME NEW a, NEW b, NEW c, Wire(a, b, c), NEW b2, Wire(a, b2, c), Len(b2) = Len(b),
         \A i \in 1..Len(b) : b2[i].req = b[i].req
  PROVE  PipeOf(a, b2, c) = PipeOf(a, b, c)
<1> DEFINE P == PipeOf(a, b, c)
           Q == PipeOf(a, b2, c)
<1>4s. PipeShape(P, a, b, c)
  BY PipeIs
<1>5s. PipeShape(Q, a, b2, c)
  BY PipeIs
<1> HIDE DEF P, Q
<1>4. /\ Len(a) \in Nat /\ Len(b) \in Nat /\ Len(c) \in Nat /\ Len(P) = Len(a) + Len(b) + Len(c) /\ P \in Seq(Nat)
      /\ \A i \in 1..Len(a) : P[i] = Sign(a[i])
      /\ \A i \in 1..Len(b) : P[Len(a) + i] = b[i].req.corr
      /\ \A i \in 1..Len(c) : P[Len(a) + Len(b) + i] = c[i].corr
  BY <1>4s DEF PipeShape
<1>5. /\ Len(Q) = Len(a) + Len(b) + Len(c) /\ Q \in Seq(Nat)
      /\ \A i \in 1..Len(a) : Q[i] = Sign(a[i])
      /\ \A i \in 1..Len(b) : Q[Len(a) + i] = b2[i].req.corr
      /\ \A i \in 1..Len(c) : Q[Len(a) + Len(b) + i] = c[i].corr
  BY <1>5s DEF PipeShape
<1>6. \A i \in 1..Len(P) : i \in 1..Len(a) \/ (\E j \in 1..Len(b) : i = Len(a) + j) \/ \E j \in 1..Len(c) : i = Len(a) + Len(b) + j
  BY <1>4s DEF PipeShape
<1>8. \A i \in 1..Len(P) : Q[i] = P[i]
  BY <1>4, <1>5, <1>6, ZenonT(60)
<1>9. Q = P
  BY <1>4, <1>5, <1>8, SeqEqual
<1> QED BY <1>9 DEF P, Q

\* The oldest answer is out.
LEMMA PipeSent ==
  ASSUME NEW a, NEW b, NEW c, Wire(a, b, c), b # <<>>, NEW x \in Answer, x.req.corr = b[1].req.corr
  PROVE  PipeOf(Append(a, x), Tail(b), c) = PipeOf(a, b, c)
<1> DEFINE a2 == Append(a, x)
           b2 == Tail(b)
           P == PipeOf(a, b, c)
           Q == PipeOf(a2, b2, c)
<1>1. /\ b2 \in Seq([req : Sendable, done : BOOLEAN]) /\ Len(b2) = Len(b) - 1 /\ Len(b) > 0
      /\ \A i \in 1..Len(b2) : b2[i] = b[i + 1]
  BY HeadTailProperties, EmptySeq DEF Wire
<1>2. /\ a2 \in Seq(Answer \cup {Torn}) /\ Len(a2) = Len(a) + 1 /\ a2[Len(a) + 1] = x
      /\ \A i \in 1..Len(a) : a2[i] = a[i]
  <2> DEFINE S == Answer \cup {Torn}
  <2>1. a \in Seq(S) /\ x \in S
    BY DEF Wire
  <2> HIDE DEF S
  <2> QED BY <2>1, AppendProperties DEF S
<1> HIDE DEF a2, b2
<1>3. Wire(a2, b2, c)
  BY <1>1, <1>2 DEF Wire
<1>4s. PipeShape(P, a, b, c)
  BY PipeIs
<1>5s. PipeShape(Q, a2, b2, c)
  BY <1>3, PipeIs
<1> HIDE DEF P, Q
<1>4. /\ Len(a) \in Nat /\ Len(b) \in Nat /\ Len(c) \in Nat /\ Len(P) = Len(a) + Len(b) + Len(c) /\ P \in Seq(Nat)
      /\ \A i \in 1..Len(a) : P[i] = Sign(a[i])
      /\ \A i \in 1..Len(b) : P[Len(a) + i] = b[i].req.corr
      /\ \A i \in 1..Len(c) : P[Len(a) + Len(b) + i] = c[i].corr
  BY <1>4s DEF PipeShape
<1>5. /\ Len(Q) = Len(a2) + Len(b2) + Len(c) /\ Q \in Seq(Nat)
      /\ \A i \in 1..Len(a2) : Q[i] = Sign(a2[i])
      /\ \A i \in 1..Len(b2) : Q[Len(a2) + i] = b2[i].req.corr
      /\ \A i \in 1..Len(c) : Q[Len(a2) + Len(b2) + i] = c[i].corr
  BY <1>5s DEF PipeShape
<1>6. \A i \in 1..Len(P) : i \in 1..Len(a) \/ (\E j \in 1..Len(b) : i = Len(a) + j) \/ \E j \in 1..Len(c) : i = Len(a) + Len(b) + j
  BY <1>4s DEF PipeShape
<1>7. Len(Q) = Len(P)
  BY <1>1, <1>2, <1>4, <1>5
<1>8. ASSUME NEW i \in 1..Len(P) PROVE Q[i] = P[i]
  <2>1. CASE i \in 1..Len(a)
    <3>1. i \in 1..Len(a2)
      BY <1>2, <1>4, <2>1
    <3> QED BY <1>2, <1>4, <1>5, <2>1, <3>1
  <2>2. ASSUME NEW j \in 1..Len(b), i = Len(a) + j PROVE Q[i] = P[i]
    <3>1. CASE j = 1
      <4>1. i = Len(a) + 1 /\ i \in 1..Len(a2)
        BY <1>2, <1>4, <2>2, <3>1
      <4>2. Q[i] = x.req.corr
        BY <1>2, <1>5, <4>1, SignIs
      <4> QED BY <1>4, <2>2, <3>1, <4>2
    <3>2. CASE j > 1
      <4>1. j - 1 \in 1..Len(b2) /\ i = Len(a2) + (j - 1) /\ (j - 1) + 1 = j
        BY <1>1, <1>2, <1>4, <2>2, <3>2
      <4>2. Q[i] = b2[j - 1].req.corr /\ b2[j - 1] = b[j]
        BY <1>1, <1>5, <4>1
      <4> QED BY <1>4, <2>2, <4>2
    <3> QED BY <1>4, <3>1, <3>2
  <2>3. ASSUME NEW j \in 1..Len(c), i = Len(a) + Len(b) + j PROVE Q[i] = P[i]
    <3>1. i = Len(a2) + Len(b2) + j
      BY <1>1, <1>2, <1>4, <2>3
    <3> QED BY <1>4, <1>5, <2>3, <3>1
  <2> QED BY <1>6, <2>1, <2>2, <2>3
<1>9. Q = P
  BY <1>4, <1>5, <1>7, <1>8, SeqEqual
<1> QED BY <1>9 DEF P, Q, a2, b2

\* Requests go out.
LEMMA PipeGrown ==
  ASSUME NEW a, NEW b, NEW c, Wire(a, b, c), NEW d \in Seq(Sendable)
  PROVE  Wire(a, b, c \o d) /\ Grown(PipeOf(a, b, c), PipeOf(a, b, c \o d), d)
<1> DEFINE e == c \o d
           P == PipeOf(a, b, c)
           Q == PipeOf(a, b, e)
<1>1. /\ e \in Seq(Sendable) /\ Len(e) = Len(c) + Len(d) /\ Len(d) \in Nat
      /\ \A i \in 1..(Len(c) + Len(d)) : e[i] = IF i <= Len(c) THEN c[i] ELSE d[i - Len(c)]
  BY ConcatProperties, LenProperties DEF Wire
<1> HIDE DEF e
<1>2. Wire(a, b, e)
  BY <1>1 DEF Wire
<1>4s. PipeShape(P, a, b, c)
  BY PipeIs
<1>5s. PipeShape(Q, a, b, e)
  BY <1>2, PipeIs
<1> HIDE DEF P, Q
<1>4. /\ Len(a) \in Nat /\ Len(b) \in Nat /\ Len(c) \in Nat /\ Len(P) = Len(a) + Len(b) + Len(c)
      /\ \A i \in 1..Len(a) : P[i] = Sign(a[i])
      /\ \A i \in 1..Len(b) : P[Len(a) + i] = b[i].req.corr
      /\ \A i \in 1..Len(c) : P[Len(a) + Len(b) + i] = c[i].corr
  BY <1>4s DEF PipeShape
<1>5. /\ Len(Q) = Len(a) + Len(b) + Len(e)
      /\ \A i \in 1..Len(a) : Q[i] = Sign(a[i])
      /\ \A i \in 1..Len(b) : Q[Len(a) + i] = b[i].req.corr
      /\ \A i \in 1..Len(e) : Q[Len(a) + Len(b) + i] = e[i].corr
  BY <1>5s DEF PipeShape
<1>6. \A i \in 1..Len(P) : i \in 1..Len(a) \/ (\E j \in 1..Len(b) : i = Len(a) + j) \/ \E j \in 1..Len(c) : i = Len(a) + Len(b) + j
  BY <1>4s DEF PipeShape
<1>7. \A i \in 1..Len(c) : i \in 1..Len(e) /\ e[i] = c[i]
  BY <1>1, <1>4
<1>8. ASSUME NEW i \in 1..Len(P) PROVE Q[i] = P[i]
  <2>1. CASE i \in 1..Len(a)
    BY <1>4, <1>5, <2>1
  <2>2. ASSUME NEW j \in 1..Len(b), i = Len(a) + j PROVE Q[i] = P[i]
    BY <1>4, <1>5, <2>2
  <2>3. ASSUME NEW j \in 1..Len(c), i = Len(a) + Len(b) + j PROVE Q[i] = P[i]
    BY <1>4, <1>5, <1>7, <2>3
  <2> QED BY <1>6, <2>1, <2>2, <2>3
<1>9. ASSUME NEW i \in 1..Len(d) PROVE Q[Len(P) + i] = d[i].corr
  <2>1. Len(c) + i \in 1..Len(e) /\ ~(Len(c) + i <= Len(c)) /\ (Len(c) + i) - Len(c) = i
    BY <1>1, <1>4
  <2>2. e[Len(c) + i] = d[i]
    BY <1>1, <2>1
  <2>3. Len(P) + i = Len(a) + Len(b) + (Len(c) + i)
    BY <1>4
  <2> QED BY <1>5, <2>1, <2>2, <2>3
<1>10. Len(Q) = Len(P) + Len(d)
  BY <1>1, <1>4, <1>5
<1> QED BY <1>2, <1>8, <1>9, <1>10 DEF Grown, P, Q, e

\* A confirm goes out behind what is queued.
LEMMA PipeConfirm ==
  ASSUME NEW b, NEW r \in Sendable, Wire(<<>>, b, <<r>>), \A i \in 1..Len(b) : b[i].req.corr # r.corr
  PROVE  Clean(PipeOf(<<>>, b, <<r>>)) /\ LastIs(PipeOf(<<>>, b, <<r>>), r.corr)
<1> DEFINE e == <<>>
           c == <<r>>
           P == PipeOf(e, b, c)
<1>a. Len(e) = 0 /\ Len(c) = 1 /\ c[1] = r /\ Wire(e, b, c)
  OBVIOUS
<1> HIDE DEF e, c
<1>b. PipeShape(P, e, b, c)
  BY <1>a, PipeIs
<1> HIDE DEF P
<1>1. /\ Len(b) \in Nat /\ Len(P) = Len(b) + 1 /\ r.corr # 0
      /\ \A i \in 1..Len(b) : P[i] = b[i].req.corr /\ b[i].req.corr # 0
      /\ P[Len(b) + 1] = r.corr
  <2>1. /\ Len(b) \in Nat /\ Len(P) = 0 + Len(b) + 1
        /\ \A i \in 1..Len(b) : P[0 + i] = b[i].req.corr /\ b[i].req.corr # 0
        /\ \A i \in 1..1 : P[0 + Len(b) + i] = c[i].corr /\ c[i].corr # 0
    BY <1>a, <1>b DEF PipeShape
  <2>2. \A i \in 1..Len(b) : 0 + i = i
    BY <2>1
  <2>3. 0 + Len(b) + 1 = Len(b) + 1 /\ 1 \in 1..1
    BY <2>1
  <2> QED BY <1>a, <2>1, <2>2, <2>3
<1>2. \A p \in 1..Len(P) : p \in 1..Len(b) \/ p = Len(b) + 1
  BY <1>1
<1>3. \A p \in 1..Len(b) : p # Len(P)
  BY <1>1
<1>4. Clean(P)
  BY <1>1, <1>2 DEF Clean
<1>5. LastIs(P, r.corr)
  BY <1>1, <1>2, <1>3 DEF LastIs
<1> QED BY <1>4, <1>5 DEF P, e, c


-------------------------------------------------------------------------------
(* One fault: answers come in the order of the requests. *)

LEMMA AnsweringCalm ==
  ASSUME Answering, UNCHANGED <<vars, inbox>>, \A t \in Route : Back(t)' \subseteq Back(t)
  PROVE  Answering'
<1>1. UNCHANGED <<answers, resend, inbox>>
  BY DEF vars, table
<1>2. \A t \in Route : InStep(t)'
  BY <1>1 DEF Answering, InStep
<1>3. AllBack' \subseteq AllBack
  BY <1>1 DEF AllBack, Stored
<1> QED BY <1>1, <1>2, <1>3 DEF Answering

LEMMA AnsweringWire ==
  ASSUME Answering, WireMoves, \A t \in Route : InStep(t)'
  PROVE  Answering'
<1>1. UNCHANGED resend /\ \A t \in Route : Back(t)' \subseteq Back(t)
  BY DEF WireMoves
<1>2. AllBack' \subseteq AllBack
  BY <1>1 DEF AllBack, Stored
<1> QED BY <1>1, <1>2 DEF Answering

LEMMA ReceiveAnswering ==
  ASSUME LinkType, Answering, NEW c \in Route, Receive(c)
  PROVE  Answering'
<1>1. /\ WireMoves /\ UNCHANGED answers
      /\ \A t \in Route : t # c => inbox'[t] = inbox[t]
      /\ \/ inbox'[c] = inbox[c]
         \/ inbox'[c] = Append(inbox[c], [req |-> Head(toProbe[c]), done |-> FALSE])
  BY ReceiveMoves
<1>2. ASSUME NEW t \in Route, t # c PROVE InStep(t)'
  <2>1. inbox'[t] = inbox[t] /\ answers'[t] = answers[t]
    BY <1>1, <1>2
  <2>2. InStep(t)
    BY DEF Answering
  <2> QED BY <2>1, <2>2 DEF InStep
<1>3. InStep(c)'
  <2>1. CASE inbox'[c] = inbox[c]
    BY <1>1, <2>1 DEF Answering, InStep
  <2>2. CASE inbox'[c] = Append(inbox[c], [req |-> Head(toProbe[c]), done |-> FALSE])
    <3> DEFINE S == [req : Sendable, done : BOOLEAN]
               x == [req |-> Head(toProbe[c]), done |-> FALSE]
               s == inbox[c]
               u == inbox'[c]
               z == answers[c]
    <3>1. s \in Seq(S) /\ x \in S /\ ~x.done
      <4>1. toProbe[c] # <<>> /\ toProbe[c] \in Seq(Sendable)
        BY DEF Receive, LinkType, WireType
      <4>2. Head(toProbe[c]) \in Sendable
        BY <4>1, RangeTail
      <4> QED BY <4>2 DEF LinkType, WireType
    <3>2. u = Append(s, x)
      BY <2>2
    <3>3. /\ Len(z) <= Len(s) /\ Len(z) \in Nat
          /\ \A i \in 1..Len(s) : s[i].done <=> i <= Len(z)
          /\ \A i \in 1..Len(z) : z[i].req.corr = s[i].req.corr
      <4>1. z \in Seq(Answer)
        BY DEF LinkType, ProbeType, TypeOK
      <4> QED BY <4>1, LenProperties DEF Answering, InStep
    <3>4. answers'[c] = z
      BY <1>1
    <3> HIDE DEF S, x, s, u, z
    <3>5. Len(s) \in Nat /\ Len(u) = Len(s) + 1 /\ u[Len(s) + 1] = x /\ \A i \in 1..Len(s) : u[i] = s[i]
      BY <3>1, <3>2, AppendProperties, LenProperties
    <3>6. \A i \in 1..Len(u) : u[i].done <=> i <= Len(z)
      <4> TAKE i \in 1..Len(u)
      <4>1. CASE i \in 1..Len(s)
        BY <3>3, <3>5, <4>1
      <4>2. CASE i = Len(s) + 1
        BY <3>1, <3>3, <3>5, <4>2
      <4> QED BY <3>5, <4>1, <4>2
    <3>7. \A i \in 1..Len(z) : z[i].req.corr = u[i].req.corr
      <4>1. \A i \in 1..Len(z) : i \in 1..Len(s)
        BY <3>3, <3>5
      <4> QED BY <3>3, <3>5, <4>1
    <3>8. Len(z) <= Len(u)
      BY <3>3, <3>5
    <3> QED BY <3>4, <3>6, <3>7, <3>8 DEF InStep, u
  <2> QED BY <1>1, <2>1, <2>2
<1> QED BY <1>1, <1>2, <1>3, AnsweringWire

LEMMA SentAnswering ==
  ASSUME LinkType, Answering, NEW c \in Route, Sent(c)
  PROVE  /\ Answering' /\ Head(answers[c]) \in Answer
         /\ Head(answers[c]).req.corr = inbox[c][1].req.corr
<1>0. /\ WireMoves /\ inbox[c] # <<>> /\ inbox'[c] = Tail(inbox[c])
      /\ \A t \in Route : t # c => inbox'[t] = inbox[t]
  BY SentMoves
<1>1. /\ answers[c] # <<>> /\ answers' = [answers EXCEPT ![c] = Tail(@)]
      /\ answers \in [Route -> Seq(Answer)] /\ inbox[c] \in Seq([req : Sendable, done : BOOLEAN])
  BY DEF Sent, AnswerOut, LinkType, ProbeType, TypeOK, WireType
<1>2. answers'[c] = Tail(answers[c]) /\ \A t \in Route : t # c => answers'[t] = answers[t]
  BY <1>1
<1>3. ASSUME NEW t \in Route, t # c PROVE InStep(t)'
  <2>1. inbox'[t] = inbox[t] /\ answers'[t] = answers[t]
    BY <1>0, <1>2, <1>3
  <2>2. InStep(t)
    BY DEF Answering
  <2> QED BY <2>1, <2>2 DEF InStep
<1> DEFINE s == inbox[c]
           z == answers[c]
<1>4. /\ Len(z) <= Len(s)
      /\ \A i \in 1..Len(s) : s[i].done <=> i <= Len(z)
      /\ \A i \in 1..Len(z) : z[i].req.corr = s[i].req.corr
  BY DEF Answering, InStep
<1>5. /\ Len(s) \in Nat /\ Len(Tail(s)) = Len(s) - 1 /\ \A i \in 1..Len(Tail(s)) : Tail(s)[i] = s[i + 1]
  BY <1>0, <1>1, HeadTailProperties, LenProperties
<1>6. /\ Len(z) \in Nat /\ Len(Tail(z)) = Len(z) - 1 /\ \A i \in 1..Len(Tail(z)) : Tail(z)[i] = z[i + 1]
      /\ Len(z) > 0 /\ Head(z) = z[1] /\ Head(z) \in Answer
  BY <1>1, HeadTailProperties, LenProperties, EmptySeq
<1> HIDE DEF s, z
<1>7. Head(z).req.corr = s[1].req.corr
  BY <1>4, <1>6
<1>8. \A i \in 1..Len(Tail(s)) : Tail(s)[i].done <=> i <= Len(Tail(z))
  <2> TAKE i \in 1..Len(Tail(s))
  <2>1. i + 1 \in 1..Len(s) /\ (i + 1 <= Len(z) <=> i <= Len(Tail(z)))
    BY <1>5, <1>6
  <2> QED BY <1>4, <1>5, <2>1
<1>9. \A i \in 1..Len(Tail(z)) : Tail(z)[i].req.corr = Tail(s)[i].req.corr
  <2> TAKE i \in 1..Len(Tail(z))
  <2>1. i + 1 \in 1..Len(z) /\ i \in 1..Len(Tail(s))
    BY <1>4, <1>5, <1>6
  <2> QED BY <1>4, <1>5, <1>6, <2>1
<1>10. Len(Tail(z)) <= Len(Tail(s))
  BY <1>4, <1>5, <1>6
<1>11. InStep(c)'
  BY <1>0, <1>2, <1>8, <1>9, <1>10 DEF InStep, s, z
<1>12. Answering'
  BY <1>0, <1>3, <1>11, AnsweringWire
<1> QED BY <1>6, <1>7, <1>12 DEF s, z

LEMMA CloseAnswering ==
  ASSUME LinkType, Answering, NEW c \in Route, CloseRoute(c)
  PROVE  Answering'
<1>1. WireMoves /\ inbox'[c] = <<>> /\ \A t \in Route : t # c => inbox'[t] = inbox[t]
  BY CloseRouteMoves
<1>2. answers'[c] = <<>> /\ \A t \in Route : t # c => answers'[t] = answers[t]
  BY DEF CloseRoute, LinkType, ProbeType, TypeOK
<1>3. ASSUME NEW t \in Route, t # c PROVE InStep(t)'
  <2>1. inbox'[t] = inbox[t] /\ answers'[t] = answers[t]
    BY <1>1, <1>2, <1>3
  <2>2. InStep(t)
    BY DEF Answering
  <2> QED BY <2>1, <2>2 DEF InStep
<1>4. InStep(c)'
  BY <1>1, <1>2 DEF InStep
<1> QED BY <1>1, <1>3, <1>4, AnsweringWire

\* The answer is to the request or to the same corr, and not that the operation is unknown.
LEMMA CarriedCorr ==
  ASSUME Answering, NEW c, NEW r, NEW a, Carried(c, r, a)
  PROVE  a.req.corr = r.corr /\ a.res # "unknown"
<1>1. \A res, val : Ans(r, res, val).req = r /\ Ans(r, res, val).res = res
  BY DEF Ans
<1>2. CASE a = ResentAnswer(r)
  <2>1. a = Ans(r, "result_lost", 0) \/ a = Ans(r, "malformed", 0) \/ \E e \in Known(r.corr) : e.ans # Dropped /\ a = e.ans
    BY <1>2, ResentIs
  <2>2. ASSUME NEW e \in Known(r.corr), e.ans # Dropped, a = e.ans PROVE a.req.corr = r.corr /\ a.res # "unknown"
    <3>1. e \in resend /\ e.corr = r.corr /\ a \in Stored
      BY <2>2 DEF Known, Stored
    <3>2. a \in AllBack
      BY <3>1, AskedHas
    <3> QED BY <2>2, <3>1, <3>2 DEF Answering
  <2> QED BY <1>1, <2>1, <2>2
<1> QED BY <1>1, <1>2 DEF Carried

LEMMA ProcessAnswering ==
  ASSUME LinkType, Answering, NEW c \in Route, Process(c)
  PROVE  Answering'
<1>1. /\ UNCHANGED toHost
      /\ \A t \in Route : t # c => inbox'[t] = inbox[t] /\ answers'[t] = answers[t]
  BY ProcessMoves
<1>2. PICK i \in 1..Len(inbox[c]), a \in Answer :
        /\ ~inbox[c][i].done /\ \A j \in 1..(i - 1) : inbox[c][j].done
        /\ Carried(c, inbox[c][i].req, a)
        /\ Len(inbox'[c]) = Len(inbox[c])
        /\ \A j \in 1..Len(inbox[c]) : /\ inbox'[c][j].req = inbox[c][j].req
                                       /\ inbox'[c][j].done <=> inbox[c][j].done \/ j = i
  BY ProcessMoves, SMTT(30)
<1> DEFINE r == inbox[c][i].req
           s == inbox[c]
           u == inbox'[c]
           z == answers[c]
           y == answers'[c]
<1>3. a.req.corr = r.corr /\ a.res # "unknown"
  BY <1>2, CarriedCorr
<1>4. y = Append(z, a) /\ z \in Seq(Answer)
  BY <1>2 DEF Carried, Send, LinkType, ProbeType, TypeOK
<1>5. /\ Len(z) <= Len(s)
      /\ \A j \in 1..Len(s) : s[j].done <=> j <= Len(z)
      /\ \A j \in 1..Len(z) : z[j].req.corr = s[j].req.corr
  BY DEF Answering, InStep
<1>6. /\ Len(s) \in Nat /\ Len(z) \in Nat /\ i \in 1..Len(s)
      /\ ~s[i].done /\ \A j \in 1..(i - 1) : s[j].done
      /\ Len(u) = Len(s) /\ \A j \in 1..Len(s) : u[j].req = s[j].req /\ (u[j].done <=> s[j].done \/ j = i)
  BY <1>2, <1>4, LenProperties DEF LinkType, WireType
<1> HIDE DEF s, u, z, y, r
<1>7. i = Len(z) + 1
  <2>1. i > Len(z)
    BY <1>5, <1>6
  <2>2. CASE i > 1
    <3>1. i - 1 \in 1..(i - 1) /\ i - 1 \in 1..Len(s)
      BY <1>6, <2>2
    <3>2. i - 1 <= Len(z)
      BY <1>5, <1>6, <3>1
    <3> QED BY <1>6, <2>1, <3>2
  <2> QED BY <1>6, <2>1, <2>2
<1>8. Len(y) = Len(z) + 1 /\ y[Len(z) + 1] = a /\ \A j \in 1..Len(z) : y[j] = z[j]
  BY <1>4, AppendProperties
<1>9. \A j \in 1..Len(u) : u[j].done <=> j <= Len(y)
  <2> TAKE j \in 1..Len(u)
  <2>1. s[j].done <=> j <= Len(z)
    BY <1>5, <1>6
  <2>2. j <= Len(y) <=> j <= Len(z) \/ j = i
    BY <1>6, <1>7, <1>8
  <2> QED BY <1>6, <2>1, <2>2
<1>10. ASSUME NEW j \in 1..Len(y) PROVE y[j].req.corr = u[j].req.corr
  <2>1. CASE j \in 1..Len(z)
    <3>1. j \in 1..Len(s)
      BY <1>5, <1>6, <2>1
    <3> QED BY <1>5, <1>6, <1>8, <2>1, <3>1
  <2>2. CASE j = i
    BY <1>3, <1>6, <1>7, <1>8, <2>2 DEF r, s
  <2> QED BY <1>6, <1>7, <1>8, <2>1, <2>2
<1>11. Len(y) <= Len(u)
  BY <1>6, <1>7, <1>8
<1>12. InStep(c)'
  BY <1>9, <1>10, <1>11 DEF InStep, u, y
<1>13. ASSUME NEW t \in Route, t # c PROVE InStep(t)'
  <2>1. inbox'[t] = inbox[t] /\ answers'[t] = answers[t]
    BY <1>1, <1>13
  <2>2. InStep(t)
    BY DEF Answering
  <2> QED BY <2>1, <2>2 DEF InStep
<1>14. \A e \in resend' : e.ans # Dropped => e.ans.req.corr = e.corr
  <2>1. CASE UNCHANGED table
    BY <2>1 DEF Answering, table
  <2>2. CASE resend' = Kept(resend, r, a)
    <3> SUFFICES ASSUME NEW e \in resend', e.ans # Dropped PROVE e.ans.req.corr = e.corr
      OBVIOUS
    <3>1. (e.corr = r.corr /\ e.ans \in {a, Dropped}) \/ e \in resend
      BY <2>2, KeptSubset
    <3> QED BY <1>3, <3>1 DEF Answering
  <2> QED BY <1>2, <2>1, <2>2 DEF Carried, r
<1>15. \A x \in AllBack' : x.res # "unknown"
  <2>1. Stored' \subseteq Stored \cup {a}
    BY <1>2, CarriedTable
  <2>2. ASSUME NEW t \in Route PROVE Back(t)' \subseteq Back(t) \cup {a}
    <3>1. CASE t = c
      <4>1. Range(y) = Range(z) \cup {a}
        BY <1>4, RangeAppend
      <4> QED BY <1>1, <3>1, <4>1 DEF Back, y, z
    <3>2. CASE t # c
      BY <1>1, <3>2 DEF Back
    <3> QED BY <3>1, <3>2
  <2>3. AllBack' \subseteq AllBack \cup {a}
    <3> SUFFICES ASSUME NEW x \in AllBack' PROVE x \in AllBack \cup {a}
      OBVIOUS
    <3>1. CASE x \in Stored'
      BY <2>1, <3>1, AskedHas
    <3>2. ASSUME NEW t \in Route, x \in Back(t)' PROVE x \in AllBack \cup {a}
      BY <2>2, <3>2, AskedHas
    <3>3. x \in Stored' \/ \E t \in Route : x \in Back(t)'
      BY DEF AllBack
    <3> QED BY <3>1, <3>2, <3>3
  <2> QED BY <1>3, <2>3 DEF Answering
<1> QED BY <1>12, <1>13, <1>14, <1>15 DEF Answering


-------------------------------------------------------------------------------
(* One fault: the pipe after each action. *)

LEMMA EmptyPipe ==
  ASSUME NEW a, NEW b, NEW c, Wire(a, b, c)
  PROVE  /\ PipeOf(a, b, c) \in Seq(Nat) /\ Len(PipeOf(a, b, c)) \in Nat
         /\ Len(PipeOf(a, b, c)) = 0 <=> a = <<>> /\ b = <<>> /\ c = <<>>
<1> DEFINE P == PipeOf(a, b, c)
<1>1. PipeShape(P, a, b, c)
  BY PipeIs
<1> HIDE DEF P
<1>2. Len(a) \in Nat /\ Len(b) \in Nat /\ Len(c) \in Nat /\ Len(P) = Len(a) + Len(b) + Len(c) /\ P \in Seq(Nat)
  BY <1>1 DEF PipeShape
<1>3. (a = <<>> <=> Len(a) = 0) /\ (b = <<>> <=> Len(b) = 0) /\ (c = <<>> <=> Len(c) = 0)
  BY EmptyIsZero DEF Wire
<1>4. Len(P) = 0 <=> Len(a) = 0 /\ Len(b) = 0 /\ Len(c) = 0
  BY <1>2
<1>5. P \in Seq(Nat) /\ Len(P) \in Nat /\ (Len(P) = 0 <=> a = <<>> /\ b = <<>> /\ c = <<>>)
  BY <1>2, <1>3, <1>4
<1> QED BY <1>5 DEF P

LEMMA PipeTyped ==
  ASSUME LinkType
  PROVE  /\ conn \in Route /\ Wire(toHost[conn], inbox[conn], toProbe[conn])
         /\ Pipe \in Seq(Nat) /\ Len(Pipe) \in Nat
         /\ Len(Pipe) = 0 <=> toHost[conn] = <<>> /\ inbox[conn] = <<>> /\ toProbe[conn] = <<>>
<1>1. conn \in Route /\ Wire(toHost[conn], inbox[conn], toProbe[conn])
  BY DEF LinkType, HostType, WireType, Wire
<1> QED BY <1>1, EmptyPipe DEF Pipe

LEMMA NextPipe ==
  ASSUME LinkType'
  PROVE  /\ conn' \in Route /\ Wire(toHost'[conn'], inbox'[conn'], toProbe'[conn'])
         /\ Pipe' = PipeOf(toHost'[conn'], inbox'[conn'], toProbe'[conn'])
         /\ Pipe' \in Seq(Nat) /\ Len(Pipe') \in Nat
         /\ Len(Pipe') = 0 <=> toHost'[conn'] = <<>> /\ inbox'[conn'] = <<>> /\ toProbe'[conn'] = <<>>
<1>1. conn' \in Route /\ Wire(toHost'[conn'], inbox'[conn'], toProbe'[conn'])
  BY DEF LinkType, HostType, WireType, Wire
<1>2. Pipe' = PipeOf(toHost'[conn'], inbox'[conn'], toProbe'[conn'])
  BY DEF Pipe
<1> QED BY <1>1, <1>2, EmptyPipe

\* The requests of the line are told apart, and those that are out lead it.
LEMMA LineApart ==
  ASSUME LinkType, InLine
  PROVE  /\ Line \in Seq(Sendable) /\ out \in Seq(Sendable) /\ Len(Line) \in Nat /\ Len(out) \in Nat
         /\ Apart(Line) /\ Leads(out, Line) /\ \A i \in 1..Len(Line) : Line[i].corr # 0
<1>1. /\ Line \in Seq(Sendable) /\ Len(Line) = Len(out) + Len(todo) /\ Len(out) \in Nat /\ Len(todo) \in Nat
      /\ \A i \in 1..Len(out) : Line[i] = out[i]
      /\ out \in Seq(Sendable)
  BY LineIs, LenProperties DEF LinkType, HostType
<1>2. \A i \in 1..Len(Line) : Line[i].corr # 0 /\ Past(Line[i].corr) \in Int
  <2>1. \A i \in 1..Len(Line) : Line[i] \in Sendable
    BY <1>1, ElementOfSeq
  <2>2. \A r \in Sendable : r.corr # 0 /\ Past(r.corr) \in Int
    BY SignIs, AskedIs
  <2> QED BY <2>1, <2>2
<1>3. Apart(Line)
  <2> SUFFICES ASSUME NEW i \in 1..Len(Line), NEW j \in 1..Len(Line), Line[i].corr = Line[j].corr PROVE i = j
    BY DEF Apart
  <2>1. /\ Past(Line[i].corr) = Past(Line[1].corr) + i - 1
        /\ Past(Line[j].corr) = Past(Line[1].corr) + j - 1
    BY DEF InLine
  <2>2. Past(Line[1].corr) \in Int
    BY <1>1, <1>2
  <2> QED BY <1>1, <2>1, <2>2
<1>4. Len(out) <= Len(Line)
  BY <1>1
<1> QED BY <1>1, <1>2, <1>3, <1>4 DEF Leads

\* Nothing in the pipe has a corr that is still to be taken.
LEMMA PipeOld ==
  ASSUME LinkType, Named, NEW c \in Corr, Past(c) > Past(corr), NEW p \in 1..Len(Pipe)
  PROVE  Pipe[p] # c
<1> DEFINE h == toHost[conn]
           b == inbox[conn]
           g == toProbe[conn]
<1>1. conn \in Route /\ Wire(h, b, g)
  BY PipeTyped
<1>2. PipeShape(Pipe, h, b, g)
  BY <1>1, PipeIs DEF Pipe
<1>3. \A r \in Asked : r.corr # c
  <2>1. \A r \in Asked : Past(r.corr) <= Past(corr) /\ Past(r.corr) \in Int /\ Past(corr) \in Int
    BY AskedInt DEF Named
  <2>2. Past(c) \in Int
    BY PastRange
  <2> QED BY <2>1, <2>2
<1>4. c # 0
  BY DEF Corr
<1>5. \A i \in 1..Len(h) : Sign(h[i]) # c
  <2> TAKE i \in 1..Len(h)
  <2>1. CASE h[i] = Torn
    BY <1>4, <2>1, SignIs
  <2>2. CASE h[i] # Torn
    <3> DEFINE S == Answer \cup {Torn}
    <3>0. h \in Seq(S)
      BY <1>1 DEF Wire
    <3> HIDE DEF h, S
    <3>1. h[i] \in Range(h)
      BY <3>0, RangeIs
    <3>2. h[i] \in Back(conn)
      BY <2>2, <3>1 DEF Back, h
    <3>3. h[i].req \in Asked
      BY <1>1, <3>2, AskedHas
    <3> QED BY <1>3, <2>2, <3>3 DEF Sign
  <2> QED BY <2>1, <2>2
<1>6. \A i \in 1..Len(b) : b[i].req.corr # c
  <2> TAKE i \in 1..Len(b)
  <2> DEFINE S == [req : Sendable, done : BOOLEAN]
  <2>0. b \in Seq(S)
    BY <1>1 DEF Wire
  <2> HIDE DEF b, S
  <2>1. b[i] \in Range(b)
    BY <2>0, RangeIs
  <2>2. b[i].req \in Way(conn)
    BY <2>1 DEF Way, Queue, b
  <2>3. b[i].req \in Asked
    BY <1>1, <2>2, AskedHas
  <2> QED BY <1>3, <2>3
<1>7. \A i \in 1..Len(g) : g[i].corr # c
  <2> TAKE i \in 1..Len(g)
  <2>0. g \in Seq(Sendable)
    BY <1>1 DEF Wire
  <2> HIDE DEF g
  <2>1. g[i] \in Range(g)
    BY <2>0, RangeIs
  <2>2. g[i] \in Way(conn)
    BY <2>1 DEF Way, g
  <2>3. g[i] \in Asked
    BY <1>1, <2>2, AskedHas
  <2> QED BY <1>3, <2>3
<1> HIDE DEF h, b, g
<1> QED BY <1>2, <1>5, <1>6, <1>7 DEF PipeShape

\* Requests go out: what held of those that are out still does.
LEMMA PutOutPipe ==
  ASSUME LinkType, InLine, PutOut
  PROVE  /\ Line' = Line
         /\ Clean(Pipe) => Clean(Pipe')
         /\ CleanBehind(Pipe) => CleanBehind(Pipe')
         /\ Straight(Pipe, Line) /\ ~Missing(Pipe, out) => Straight(Pipe', Line') /\ ~Missing(Pipe', out')
         /\ Missing(Pipe, out) => Missing(Pipe', out')
         /\ Holds(Pipe, out) => Holds(Pipe', out')
<1> DEFINE go == SubSeq(todo, 1, Free)
           P == Pipe
           Q == Pipe'
           l == Line
           o == out
           o2 == out'
<1>1. LinkType' /\ l' = l /\ toProbe'[conn] = toProbe[conn] \o go /\ UNCHANGED <<conn, toHost, inbox>>
  BY PutOutMoves DEF PutOut
<1>2. /\ Free \in 1..Len(todo) /\ go \in Seq(Sendable) /\ Len(go) = Free /\ o2 = o \o go
      /\ \A k \in 1..Free : go[k] = l[Len(o) + k]
  BY GoIs
<1>3. /\ Wire(toHost[conn], inbox[conn], toProbe[conn]) /\ P \in Seq(Nat) /\ Q \in Seq(Nat)
  BY <1>1, PipeTyped, NextPipe
<1>4. Grown(P, Q, go)
  <2>1. Q = PipeOf(toHost[conn], inbox[conn], toProbe[conn] \o go)
    BY <1>1 DEF Pipe
  <2> HIDE DEF go
  <2> QED BY <1>2, <1>3, <2>1, PipeGrown DEF Pipe
<1>5. /\ l \in Seq(Sendable) /\ o \in Seq(Sendable) /\ Len(l) \in Nat /\ Len(o) \in Nat
      /\ Apart(l) /\ Leads(o, l) /\ Len(l) = Len(o) + Len(todo) /\ Len(todo) \in Nat
  BY LineApart, LineIs, LenProperties DEF LinkType, HostType
<1> HIDE DEF go, P, Q, l, o, o2
<1>6. /\ o2 \in Seq(Sendable) /\ Len(o2) = Len(o) + Len(go)
      /\ \A i \in 1..(Len(o) + Len(go)) : o2[i] = IF i <= Len(o) THEN o[i] ELSE go[i - Len(o)]
  <2>1. o \in Seq(Sendable) /\ go \in Seq(Sendable) /\ o2 = o \o go
    BY <1>2, <1>5
  <2> QED BY ONLY <2>1, ConcatProperties
<1>7. Leads(o2, l)
  <2>1. Len(o2) <= Len(l)
    BY <1>2, <1>5, <1>6
  <2>2. ASSUME NEW i \in 1..Len(o2) PROVE o2[i] = l[i]
    <3>1. CASE i <= Len(o)
      <4>1. i \in 1..Len(o) /\ i \in 1..(Len(o) + Len(go))
        BY <1>2, <1>5, <1>6, <3>1
      <4> QED BY <1>5, <1>6, <3>1, <4>1 DEF Leads
    <3>2. CASE i > Len(o)
      <4>1. i - Len(o) \in 1..Free /\ Len(o) + (i - Len(o)) = i /\ i \in 1..(Len(o) + Len(go)) /\ ~(i <= Len(o))
        BY <1>2, <1>5, <1>6, <3>2
      <4> QED BY <1>2, <1>6, <4>1
    <3> QED BY <1>5, <1>6, <3>1, <3>2
  <2> QED BY <2>1, <2>2 DEF Leads
<1>8. Follows(go, o, l)
  <2>1. \A i \in 1..Len(go) : go[i] \in Sendable
    BY <1>2, ElementOfSeq
  <2> QED BY <1>2, <2>1, SignIs DEF Follows
<1>9. /\ Clean(P) => Clean(Q)
      /\ CleanBehind(P) => CleanBehind(Q)
      /\ Straight(P, l) /\ ~Missing(P, o) => Straight(Q, l) /\ ~Missing(Q, o2)
      /\ Missing(P, o) => Missing(Q, o2)
      /\ Holds(P, o) => Holds(Q, o2)
  <2>1. /\ P \in Seq(Nat) /\ Q \in Seq(Nat) /\ go \in Seq(Sendable) /\ Grown(P, Q, go)
        /\ o \in Seq(Sendable) /\ o2 \in Seq(Sendable) /\ l \in Seq(Sendable)
        /\ Leads(o, l) /\ Leads(o2, l) /\ Apart(l) /\ Len(o2) = Len(o) + Len(go)
    BY <1>2, <1>3, <1>4, <1>5, <1>6, <1>7
  <2> QED BY ONLY <2>1, <1>8, GrownKeeps
<1> QED BY <1>1, <1>9 DEF P, Q, l, o, o2

\* A frame is read.
LEMMA TakenPipe ==
  ASSUME LinkType, LinkType', NEW f, Comes(f), Taken, UNCHANGED <<conn, toProbe, inbox>>
  PROVE  /\ Len(Pipe) > 0 /\ Pipe[1] = Sign(f) /\ DropAt(Pipe, Pipe', 1)
         /\ \A t \in Route : t # conn => toHost'[t] = toHost[t]
<1> DEFINE h == toHost[conn]
<1>1. h # <<>> /\ f = Head(h) /\ toHost' = [toHost EXCEPT ![conn] = Tail(h)] /\ Awaited # 0
  BY DEF Comes, Taken
<1>2. conn \in Route /\ Wire(h, inbox[conn], toProbe[conn]) /\ Len(Pipe) \in Nat /\ Len(Pipe) # 0
  BY <1>1, PipeTyped
<1>3. toHost'[conn] = Tail(h) /\ \A t \in Route : t # conn => toHost'[t] = toHost[t]
  BY <1>1, <1>2 DEF LinkType, WireType
<1>4. Pipe' = PipeOf(Tail(h), inbox[conn], toProbe[conn]) /\ Pipe = PipeOf(h, inbox[conn], toProbe[conn])
  BY <1>3 DEF Pipe
<1> HIDE DEF h
<1> QED BY <1>1, <1>2, <1>3, <1>4, PipeRead

\* A request arrives: it was on its way, or a copy or what a garbled line hides is dropped.
LEMMA ReceivePipe ==
  ASSUME LinkType, NEW c \in Route, Receive(c)
  PROVE  /\ Pipe' \in Seq(Nat)
         /\ OthersEmpty => c = conn /\ OthersEmpty'
         /\ \/ Pipe' = Pipe
            \/ \E k \in 1..Len(Pipe) :
                 DropAt(Pipe, Pipe', k) /\ (garbled \/ \E p \in 1..(k - 1) : Pipe[p] = Pipe[k])
<1>1. /\ LinkType' /\ UNCHANGED <<answers, toHost>> /\ conn' = conn /\ conn \in Route
      /\ toProbe[c] # <<>> /\ toProbe'[c] = Tail(toProbe[c])
      /\ \A t \in Route : t # c => toProbe'[t] = toProbe[t] /\ inbox'[t] = inbox[t]
      /\ \/ inbox'[c] = inbox[c] /\ ((garbled /\ c = conn) \/ Queued(c, Head(toProbe[c])))
         \/ inbox'[c] = Append(inbox[c], [req |-> Head(toProbe[c]), done |-> FALSE])
  <2>1. UNCHANGED conn
    BY DEF Receive, hostVars
  <2>2. inbox' = inbox \/ inbox' = [inbox EXCEPT ![c] = Append(@, [req |-> Head(toProbe[c]), done |-> FALSE])]
    BY DEF Receive
  <2>3. \/ inbox'[c] = inbox[c] /\ ((garbled /\ c = conn) \/ Queued(c, Head(toProbe[c])))
        \/ inbox'[c] = Append(inbox[c], [req |-> Head(toProbe[c]), done |-> FALSE])
    BY DEF Receive, LinkType, WireType
  <2> QED BY <2>1, <2>3, ReceiveMoves DEF LinkType, HostType
<1>2. OthersEmpty => c = conn /\ OthersEmpty'
  BY <1>1 DEF OthersEmpty
<1>3. Pipe' \in Seq(Nat)
  BY <1>1, NextPipe
<1>4. CASE c # conn
  BY <1>1, <1>2, <1>3, <1>4 DEF Pipe
<1>5. CASE c = conn
  <2> DEFINE h == toHost[conn]
             b == inbox[conn]
             g == toProbe[conn]
             k == Len(h) + Len(b) + 1
             x == [req |-> Head(g), done |-> FALSE]
  <2>1. Wire(h, b, g) /\ g # <<>> /\ Pipe = PipeOf(h, b, g) /\ toHost'[conn'] = h /\ toProbe'[conn'] = Tail(g)
    BY <1>1, <1>5, PipeTyped DEF Pipe
  <2>2. CASE inbox'[c] = Append(b, x)
    <3>1. Head(g) \in Sendable
      BY <2>1, RangeTail DEF Wire
    <3>2. x \in [req : Sendable, done : BOOLEAN] /\ x.req = Head(g)
      BY <3>1
    <3>3. Pipe' = PipeOf(h, Append(b, x), Tail(g))
      BY <1>1, <1>5, <2>1, <2>2 DEF Pipe
    <3> HIDE DEF h, b, g, x
    <3>4. Pipe' = Pipe
      BY <2>1, <3>2, <3>3, PipeQueues
    <3> QED BY <1>2, <1>3, <3>4
  <2>3. CASE inbox'[c] = b /\ (garbled \/ Queued(c, Head(g)))
    <3>1. Pipe' = PipeOf(h, b, Tail(g))
      BY <1>1, <1>5, <2>1, <2>3 DEF Pipe
    <3>2. DropAt(Pipe, Pipe', k) /\ Pipe[k] = Head(g).corr
      <4> HIDE DEF h, b, g
      <4> QED BY <2>1, <3>1, PipeDrop
    <3>3. Queued(c, Head(g)) => \E p \in 1..(k - 1) : Pipe[p] = Pipe[k]
      <4> SUFFICES ASSUME NEW i \in 1..Len(b), b[i].req = Head(g) PROVE \E p \in 1..(k - 1) : Pipe[p] = Pipe[k]
        BY <1>5 DEF Queued
      <4>1. PipeShape(Pipe, h, b, g)
        BY <2>1, PipeIs
      <4> HIDE DEF h, b, g
      <4>2. Pipe[Len(h) + i] = b[i].req.corr /\ Len(h) \in Nat /\ Len(b) \in Nat
        BY <4>1 DEF PipeShape
      <4>3. Len(h) + i \in 1..(k - 1)
        BY <4>2
      <4> QED BY <3>2, <4>2, <4>3
    <3>4. k \in 1..Len(Pipe)
      BY <3>2 DEF DropAt
    <3> QED BY <1>2, <1>3, <2>3, <3>2, <3>3, <3>4
  <2> QED BY <1>1, <1>5, <2>2, <2>3
<1> QED BY <1>4, <1>5

\* A request is handled, an answer is out, a connection that is not used is closed: nothing moves.
LEMMA ProcessPipe ==
  ASSUME LinkType, NEW c \in Route, Process(c)
  PROVE  Pipe' \in Seq(Nat) /\ Pipe' = Pipe /\ (OthersEmpty => OthersEmpty')
<1>1. /\ LinkType' /\ UNCHANGED <<hostVars, toProbe, toHost>>
      /\ \A t \in Route : t # c => inbox'[t] = inbox[t]
      /\ Len(inbox[c]) # 0 /\ Len(inbox'[c]) = Len(inbox[c])
      /\ \A j \in 1..Len(inbox[c]) : inbox'[c][j].req = inbox[c][j].req
  <2>1. PICK i \in 1..Len(inbox[c]), a \in Answer :
          /\ Len(inbox'[c]) = Len(inbox[c])
          /\ \A j \in 1..Len(inbox[c]) : inbox'[c][j].req = inbox[c][j].req
    BY ProcessMoves
  <2>2. Len(inbox[c]) # 0
    BY <2>1
  <2> QED BY <2>1, <2>2, ProcessMoves
<1>2. OthersEmpty => c = conn /\ OthersEmpty'
  <2>1. inbox[c] # <<>>
    BY <1>1
  <2> QED BY <1>1, <2>1 DEF OthersEmpty, hostVars
<1>3. /\ conn' = conn /\ Wire(toHost[conn], inbox[conn], toProbe[conn])
      /\ Wire(toHost[conn], inbox'[conn], toProbe[conn])
  BY <1>1, PipeTyped, NextPipe DEF hostVars
<1>4. Pipe' = PipeOf(toHost[conn], inbox'[conn], toProbe[conn])
  BY <1>1, <1>3 DEF Pipe
<1>5. /\ Len(inbox'[conn]) = Len(inbox[conn])
      /\ \A j \in 1..Len(inbox[conn]) : inbox'[conn][j].req = inbox[conn][j].req
  BY <1>1, PipeTyped
<1>6. Pipe' = Pipe
  <2> DEFINE h == toHost[conn]
             b == inbox[conn]
             b2 == inbox'[conn]
             g == toProbe[conn]
  <2>1. Pipe = PipeOf(h, b, g) /\ Pipe' = PipeOf(h, b2, g)
    BY <1>4 DEF Pipe
  <2>2. Wire(h, b, g) /\ Wire(h, b2, g) /\ Len(b2) = Len(b) /\ \A j \in 1..Len(b) : b2[j].req = b[j].req
    BY <1>3, <1>5
  <2> HIDE DEF h, b, b2, g
  <2>3. PipeOf(h, b2, g) = PipeOf(h, b, g)
    BY ONLY <2>2, PipeDone
  <2> QED BY <2>1, <2>3
<1> QED BY <1>1, <1>2, <1>6, NextPipe

LEMMA SentPipe ==
  ASSUME LinkType, Answering, NEW c \in Route, Sent(c)
  PROVE  Pipe' \in Seq(Nat) /\ Pipe' = Pipe /\ (OthersEmpty => OthersEmpty')
<1>1. /\ LinkType' /\ UNCHANGED <<hostVars, toProbe>> /\ conn \in Route
      /\ inbox[c] # <<>> /\ inbox'[c] = Tail(inbox[c])
      /\ \A t \in Route : t # c => inbox'[t] = inbox[t]
      /\ toHost' = IF c = conn THEN [toHost EXCEPT ![c] = Append(@, Head(answers[c]))] ELSE toHost
  BY SentMoves DEF Sent, LinkType, HostType
<1>2. conn' = conn
  BY <1>1 DEF hostVars
<1>3. OthersEmpty => c = conn /\ OthersEmpty'
  BY <1>1, <1>2 DEF OthersEmpty, LinkType, WireType
<1>4. CASE c # conn
  BY <1>1, <1>2, <1>3, <1>4, NextPipe DEF Pipe
<1>5. CASE c = conn
  <2> DEFINE h == toHost[conn]
             b == inbox[conn]
             g == toProbe[conn]
             x == Head(answers[conn])
  <2>1. Wire(h, b, g) /\ b # <<>> /\ Pipe = PipeOf(h, b, g) /\ x \in Answer /\ x.req.corr = b[1].req.corr
    BY <1>1, <1>5, PipeTyped, SentAnswering DEF Pipe
  <2>2. toHost'[conn] = Append(h, x)
    BY <1>1, <1>5 DEF LinkType, WireType
  <2>3. Pipe' = PipeOf(Append(h, x), Tail(b), g)
    BY <1>1, <1>2, <1>5, <2>2 DEF Pipe
  <2> HIDE DEF h, b, g, x
  <2>4. Pipe' = Pipe
    BY <2>1, <2>3, PipeSent
  <2> QED BY <1>1, <1>3, <2>4, NextPipe
<1> QED BY <1>4, <1>5

LEMMA ClosePipe ==
  ASSUME LinkType, NEW c \in Route, CloseRoute(c)
  PROVE  Pipe' \in Seq(Nat) /\ Pipe' = Pipe /\ (OthersEmpty => OthersEmpty')
<1>1. /\ LinkType' /\ c # conn /\ conn' = conn /\ conn \in Route
      /\ toProbe'[c] = <<>> /\ inbox'[c] = <<>> /\ toHost' = [toHost EXCEPT ![c] = <<>>]
      /\ \A t \in Route : t # c => toProbe'[t] = toProbe[t] /\ inbox'[t] = inbox[t]
  BY CloseRouteMoves DEF CloseRoute, LinkType, HostType, hostVars
<1>2. \A t \in Route : toHost'[t] = IF t = c THEN <<>> ELSE toHost[t]
  BY <1>1 DEF LinkType, WireType
<1>3. Pipe' = Pipe
  BY <1>1, <1>2 DEF Pipe
<1>4. OthersEmpty => OthersEmpty'
  BY <1>1, <1>2 DEF OthersEmpty
<1> QED BY <1>1, <1>3, <1>4, NextPipe


-------------------------------------------------------------------------------
(* One fault: the steps. *)

LEMMA SecondHit == hits' \in Nat /\ hits' >= 2 => Harmless'
BY DEF Harmless

LEMMA SamePipe ==
  UNCHANGED <<conn, toProbe, toHost, inbox>> => Pipe' = Pipe /\ (OthersEmpty => OthersEmpty')
BY DEF Pipe, OthersEmpty

\* What is out and nothing else: nothing is torn, missing, out of order or there twice.
LEMMA UnhitIs ==
  ASSUME LinkType, InLine, Unhit
  PROVE  /\ Clean(Pipe) /\ Straight(Pipe, Line) /\ ~Missing(Pipe, out)
         /\ \A p, q \in 1..Len(Pipe) : Pipe[p] = Pipe[q] => p = q
         /\ \A P2 \in Seq(Nat) : \A k : DropAt(Pipe, P2, k) => Missing(P2, out)
         /\ Len(Pipe) > 0 => Len(out) > 0 /\ Pipe[1] = out[1].corr
<1> DEFINE P == Pipe
           o == out
           l == Line
<1>1. P \in Seq(Nat) /\ Holds(P, o)
  BY PipeTyped DEF Unhit
<1>2. /\ o \in Seq(Sendable) /\ l \in Seq(Sendable) /\ Leads(o, l) /\ Apart(l)
      /\ \A i \in 1..Len(l) : l[i].corr # 0
  BY LineApart
<1> HIDE DEF P, o, l
<1>3. /\ Clean(P) /\ Straight(P, l) /\ ~Missing(P, o)
      /\ \A p, q \in 1..Len(P) : P[p] = P[q] => p = q
      /\ \A P2 \in Seq(Nat) : \A k : DropAt(P, P2, k) => Missing(P2, o)
      /\ Len(P) > 0 => Len(o) > 0 /\ P[1] = o[1].corr
  BY ONLY <1>1, <1>2, HoldsIs
<1> QED BY <1>3 DEF P, o, l

\* The probe's steps: what they drop is a copy, or behind a request that was lost.
LEMMA QuietKeeps ==
  ASSUME LinkType, InLine, Harmless, UNCHANGED <<use, hostVars, garbled, hits, told>>,
         OthersEmpty => OthersEmpty', Pipe' \in Seq(Nat),
         \/ Pipe' = Pipe
         \/ \E k \in 1..Len(Pipe) :
              DropAt(Pipe, Pipe', k) /\ (garbled \/ \E p \in 1..(k - 1) : Pipe[p] = Pipe[k])
  PROVE  Harmless'
<1>1. /\ Line' = Line /\ UNCHANGED <<use, pc, conn, failed, out, again, confirm, garbled, hits, told>>
      /\ Pipe \in Seq(Nat)
  BY PipeTyped DEF hostVars, Line
<1>2. hits' \in Nat /\ (hits' <= 1 => Unfailed')
  BY <1>1 DEF Harmless, Unfailed
<1>3. CASE Pipe' = Pipe
  <2>1. /\ Unhit => Unhit'
        /\ Fine => Fine'
        /\ Amiss => Amiss'
        /\ Mixed => Mixed'
        /\ Sought => Sought'
    BY <1>1, <1>3 DEF Unhit, Fine, Amiss, Mixed, Sought
  <2> QED BY <1>1, <1>2, <2>1 DEF Harmless
<1>4. ASSUME NEW k \in 1..Len(Pipe), DropAt(Pipe, Pipe', k), garbled \/ \E p \in 1..(k - 1) : Pipe[p] = Pipe[k]
      PROVE  Harmless'
  <2>1. /\ Clean(Pipe) => Clean(Pipe')
        /\ CleanBehind(Pipe) => CleanBehind(Pipe')
        /\ \A o : Missing(Pipe, o) => Missing(Pipe', o)
    BY <1>1, <1>4, DropKeeps
  <2>2. ASSUME ~garbled
        PROVE  /\ \A l : Straight(Pipe, l) => Straight(Pipe', l)
               /\ \A o : Missing(Pipe', o) => Missing(Pipe, o)
               /\ \A c : LastIs(Pipe, c) => LastIs(Pipe', c)
    <3>1. PICK p \in 1..(k - 1) : Pipe[p] = Pipe[k]
      BY <1>4, <2>2
    <3> QED BY <1>1, <1>4, <3>1, DropCopy
  <2>3. ~Unhit
    <3> SUFFICES ASSUME Unhit PROVE FALSE
      OBVIOUS
    <3>1. ~garbled
      BY DEF Unhit
    <3>2. PICK p \in 1..(k - 1) : Pipe[p] = Pipe[k]
      BY <1>4, <3>1
    <3>3. p \in 1..Len(Pipe) /\ p # k
      BY <3>2, PipeTyped
    <3> QED BY <3>2, <3>3, UnhitIs
  <2>4. Fine => Fine'
    BY <1>1, <2>1, <2>2 DEF Fine
  <2>5. Amiss => Amiss'
    BY <1>1, <2>1 DEF Amiss
  <2>6. Mixed => Mixed'
    BY <1>1, <2>1 DEF Mixed
  <2>7. Sought => Sought'
    BY <1>1, <2>1, <2>2 DEF Sought
  <2> QED BY <1>1, <1>2, <2>3, <2>4, <2>5, <2>6, <2>7 DEF Harmless
<1> QED BY <1>3, <1>4

LEMMA BeginHarmless ==
  ASSUME FirstInv, Harmless, use' \in Use, NEW requests, IsCall(requests), Begin(requests)
  PROVE  Harmless'
<1>1. /\ LinkType /\ Named /\ pc = "idle" /\ out' = <<>> /\ Line' = requests /\ out = <<>>
      /\ UNCHANGED <<toProbe, toHost, inbox, told, hits, failed>>
  BY BeginMoves DEF FirstInv, LinkType, HostType, Begin, pastVars
<1>2. CASE hits <= 1
  <2>1. ~failed /\ Unfailed' /\ hits' \in Nat
    BY <1>1, <1>2 DEF Harmless, Unfailed
  <2>2. pc' = "exchange" /\ again' = NoResends /\ UNCHANGED <<conn, garbled>> /\ Pipe' = Pipe /\ (OthersEmpty => OthersEmpty')
    <3>1. pc' = "exchange" /\ again' = NoResends /\ UNCHANGED <<conn, garbled>>
      BY <2>1 DEF Begin
    <3> QED BY <1>1, <3>1, SamePipe
  <2>3. Unhit => Unhit'
    BY <1>1, <2>2 DEF Unhit
  <2>4. Straight(Pipe', Line')
    <3>1. ASSUME NEW j \in 1..Len(requests), NEW q \in 1..Len(Pipe) PROVE Pipe[q] # requests[j].corr
      <4>1. requests \in Seq(Sendable) /\ Past(requests[j].corr) = Past(corr) + j
        BY DEF IsCall
      <4>2. requests[j] \in Sendable
        BY <4>1, ElementOfSeq
      <4>3. requests[j].corr \in Corr /\ Past(corr) \in Int
        BY <1>1, <4>2, AskedIs, PastRange DEF LinkType, HostType
      <4>4. Past(requests[j].corr) > Past(corr)
        BY <4>1, <4>3
      <4> QED BY <1>1, <4>3, <4>4, PipeOld
    <3> QED BY <1>1, <2>2, <3>1 DEF Straight
  <2>5. ~Missing(Pipe', out')
    BY <1>1 DEF Missing
  <2>6. Fine => Fine'
    BY <2>2, <2>4, <2>5 DEF Fine
  <2>7. ~Amiss /\ ~Mixed /\ ~Sought
    BY <1>1 DEF Amiss, Mixed, Sought
  <2> QED BY <1>1, <2>1, <2>3, <2>6, <2>7 DEF Harmless
<1>3. CASE ~(hits <= 1)
  BY <1>1, <1>3 DEF Harmless
<1> QED BY <1>2, <1>3

LEMMA PutOutHarmless ==
  ASSUME FirstInv, Harmless, PutOut
  PROVE  Harmless'
<1>1. LinkType /\ InLine /\ UNCHANGED <<use, pc, conn, failed, again, confirm, garbled, inbox, toHost, hits, told>> /\ pc = "exchange"
  BY DEF FirstInv, PutOut, pastVars
<1>2. /\ Clean(Pipe) => Clean(Pipe')
      /\ CleanBehind(Pipe) => CleanBehind(Pipe')
      /\ Straight(Pipe, Line) /\ ~Missing(Pipe, out) => Straight(Pipe', Line') /\ ~Missing(Pipe', out')
      /\ Missing(Pipe, out) => Missing(Pipe', out')
      /\ Holds(Pipe, out) => Holds(Pipe', out')
  BY <1>1, PutOutPipe
<1>3. OthersEmpty => OthersEmpty'
  BY <1>1, PutOutMoves DEF OthersEmpty
<1>4. /\ Unhit => Unhit'
      /\ Fine => Fine'
      /\ Amiss => Amiss'
      /\ Mixed => Mixed'
      /\ ~Sought
  BY <1>1, <1>2, <1>3 DEF Unhit, Fine, Amiss, Mixed, Sought
<1>5. hits' \in Nat /\ (hits' <= 1 => Unfailed')
  BY <1>1 DEF Harmless, Unfailed
<1> QED BY <1>1, <1>4, <1>5 DEF Harmless


\* What is read is the first of the pipe.
LEMMA ReadPipe ==
  ASSUME LinkType, LinkType', NEW f, Comes(f), Taken, UNCHANGED <<conn, toProbe, inbox>>
  PROVE  /\ Pipe \in Seq(Nat) /\ Pipe' \in Seq(Nat) /\ Len(Pipe) > 0 /\ Pipe[1] = Sign(f) /\ DropAt(Pipe, Pipe', 1)
         /\ Len(Pipe) \in Nat /\ Len(Pipe') = Len(Pipe) - 1
         /\ OthersEmpty => OthersEmpty'
         /\ Clean(Pipe) => Clean(Pipe') /\ f # Torn
         /\ CleanBehind(Pipe) => Clean(Pipe') /\ CleanBehind(Pipe')
         /\ \A o : Missing(Pipe, o) => Missing(Pipe', o)
<1>1. Pipe \in Seq(Nat) /\ Pipe' \in Seq(Nat) /\ Len(Pipe) \in Nat
  BY PipeTyped, NextPipe
<1>2. /\ Len(Pipe) > 0 /\ Pipe[1] = Sign(f) /\ DropAt(Pipe, Pipe', 1)
      /\ \A t \in Route : t # conn => toHost'[t] = toHost[t]
  BY TakenPipe
<1>3. OthersEmpty => OthersEmpty'
  BY <1>2 DEF OthersEmpty
<1>4. Clean(Pipe) => f # Torn
  BY <1>1, <1>2, SignIs DEF Clean
<1>5. /\ Clean(Pipe) => Clean(Pipe')
      /\ CleanBehind(Pipe) => Clean(Pipe') /\ CleanBehind(Pipe')
      /\ \A o : Missing(Pipe, o) => Missing(Pipe', o)
  BY <1>1, <1>2, DropKeeps
<1>6. Len(Pipe') = Len(Pipe) - 1
  BY <1>2 DEF DropAt
<1> QED BY <1>1, <1>2, <1>3, <1>4, <1>5, <1>6

LEMMA ResultHarmless ==
  ASSUME FirstInv, Answering, Harmless, NEW f, ResultComes(f)
  PROVE  Harmless'
<1>1. /\ LinkType /\ InLine /\ LinkType' /\ pc = "exchange" /\ Comes(f) /\ Ours(f) /\ Taken
      /\ UNCHANGED <<use, conn, failed, again, confirm, garbled, toProbe, inbox, hits, todo>>
      /\ Line # <<>> /\ Line' = Tail(Line) /\ out' = Tail(out)
  BY ResultMoves DEF FirstInv, ResultComes
<1>2. f # Torn /\ f.req.corr = Awaited /\ Awaited # 0 /\ f \in Back(conn) /\ f \in Answer
  <2>1. f # Torn /\ f.req.corr = Awaited /\ Awaited # 0
    BY <1>1 DEF Ours, Comes
  <2>2. conn \in Route /\ WireType
    BY <1>1 DEF LinkType, HostType
  <2>3. f \in Range(toHost[conn]) /\ f \in Answer \cup {Torn}
    BY <1>1, <2>2, TakenBack
  <2> QED BY <2>1, <2>3 DEF Back
<1>3. Awaited = Head(out).corr /\ out # <<>>
  BY <1>1, <1>2, AwaitedIs DEF LinkType
<1>4. /\ Pipe \in Seq(Nat) /\ Pipe' \in Seq(Nat) /\ Pipe[1] = Sign(f) /\ DropAt(Pipe, Pipe', 1)
      /\ OthersEmpty => OthersEmpty'
      /\ Clean(Pipe) => Clean(Pipe')
      /\ CleanBehind(Pipe) => CleanBehind(Pipe')
  BY <1>1, ReadPipe
<1>5. Len(out) \in Nat /\ Len(out) > 0 /\ Pipe[1] = out[1].corr
  <2>1. Sign(f) = f.req.corr
    BY <1>2 DEF Sign
  <2>2. out \in Seq(Sendable)
    BY <1>1 DEF LinkType, HostType
  <2>3. Len(out) \in Nat /\ Len(out) # 0 /\ Head(out) = out[1]
    BY <1>3, <2>2, EmptyIsZero
  <2> QED BY <1>2, <1>3, <1>4, <2>1, <2>3
<1>6. /\ Straight(Pipe, Line) => Straight(Pipe', Line')
      /\ ~Missing(Pipe, out) => ~Missing(Pipe', out')
      /\ Missing(Pipe, out) => Missing(Pipe', out') /\ Len(out) > 1
      /\ Holds(Pipe, out) => Holds(Pipe', out')
  <2>1. out \in Seq(Sendable) /\ Line \in Seq(Sendable) /\ Leads(out, Line) /\ Apart(Line)
    BY <1>1, LineApart
  <2> QED BY <1>1, <1>4, <1>5, <2>1, AnswerKeepsFine
<1>7. pc' \in {"idle", "exchange"} /\ (Len(out) > 1 => pc' = "exchange")
      /\ (pc' = "idle" => Len(out) = 1 /\ todo = <<>>)
  BY <1>1 DEF ResultComes
<1>8. hits' \in Nat /\ (hits' <= 1 => Unfailed')
  <2>1. conn \in Route
    BY <1>1 DEF LinkType, HostType
  <2>2. f.res \in Res /\ f.res # "unknown"
    BY <1>2, <2>1 DEF Answering, AllBack, Answer
  <2>3. f.res # "not_sent"
    BY <2>2 DEF Res
  <2>4. \A x \in told' : x \in told \/ x.what = f.res
    BY DEF ResultComes, TellAll
  <2> QED BY <1>1, <2>2, <2>3, <2>4 DEF Harmless, Unfailed
<1>9. Unhit => Unhit'
  BY <1>1, <1>4, <1>6, <1>7 DEF Unhit
<1>10. Fine => Fine'
  BY <1>1, <1>4, <1>6, <1>7 DEF Fine
<1>11. Amiss => Amiss'
  BY <1>1, <1>4, <1>6, <1>7 DEF Amiss
<1>12. Mixed => Mixed' \/ Fine'
  <2>1. CASE pc' = "exchange"
    BY <1>1, <1>4, <2>1 DEF Mixed
  <2>2. CASE pc' = "idle"
    <3>1. out' = <<>> /\ todo' = <<>>
      BY <1>1, <2>2 DEF LinkType, HostType
    <3>2. Line' = <<>>
      BY <1>1, <3>1, LineIs DEF LinkType
    <3>3. Straight(Pipe', Line') /\ ~Missing(Pipe', out')
      BY <3>1, <3>2 DEF Straight, Missing
    <3> QED BY <1>1, <1>4, <2>2, <3>3 DEF Mixed, Fine
  <2> QED BY <1>7, <2>1, <2>2
<1>13. ~Sought
  BY <1>1 DEF Sought
<1> QED BY <1>1, <1>8, <1>9, <1>10, <1>11, <1>12, <1>13 DEF Harmless

LEMMA ReadPastHarmless ==
  ASSUME FirstInv, Harmless, NEW f, ReadPast(f)
  PROVE  Harmless'
<1>1. /\ LinkType /\ InLine /\ LinkType' /\ Comes(f) /\ Taken
      /\ UNCHANGED <<use, pc, conn, failed, out, again, confirm, garbled, toProbe, inbox, hits, told>>
      /\ Line' = Line
      /\ (f # Torn /\ ~Ours(f)) \/ (f = Torn /\ pc = "confirm")
  BY ReadPastMoves DEF FirstInv, ReadPast, pastVars, hostVars, Line
<1>2. /\ Pipe \in Seq(Nat) /\ Pipe' \in Seq(Nat) /\ Len(Pipe) > 0 /\ Pipe[1] = Sign(f) /\ DropAt(Pipe, Pipe', 1)
      /\ OthersEmpty => OthersEmpty'
      /\ Clean(Pipe) => Clean(Pipe') /\ f # Torn
      /\ CleanBehind(Pipe) => CleanBehind(Pipe')
      /\ \A o : Missing(Pipe, o) => Missing(Pipe', o)
      /\ Len(Pipe) \in Nat /\ Len(Pipe') = Len(Pipe) - 1
  BY <1>1, ReadPipe
<1>3. Awaited # 0 /\ (f # Torn => Pipe[1] # Awaited) /\ pc \in {"exchange", "confirm"}
  <2>1. Awaited # 0 /\ pc \in {"exchange", "confirm"}
    BY <1>1 DEF Comes, Awaited
  <2>2. f # Torn => f.req.corr # Awaited /\ Sign(f) = f.req.corr
    BY <1>1 DEF Ours, Sign
  <2> QED BY <1>2, <2>1, <2>2
<1>4. ASSUME pc = "exchange"
      PROVE  f # Torn /\ Len(out) > 0 /\ Len(out) \in Nat /\ Pipe[1] # out[1].corr
  <2>1. f # Torn /\ out # <<>> /\ Awaited = Head(out).corr /\ out \in Seq(Sendable)
    BY <1>1, <1>3, <1>4, AwaitedIs DEF LinkType, HostType
  <2>2. Len(out) \in Nat /\ Len(out) # 0 /\ Head(out) = out[1]
    BY <2>1, EmptyIsZero
  <2> QED BY <1>3, <2>1, <2>2
<1>5. ~Unhit
  <2> SUFFICES ASSUME Unhit PROVE FALSE
    OBVIOUS
  <2>1. pc = "exchange"
    BY <1>3 DEF Unhit
  <2> QED BY <1>1, <1>2, <1>4, <2>1, UnhitIs
<1>6. Fine => Fine'
  <2> SUFFICES ASSUME Fine PROVE Fine'
    OBVIOUS
  <2>1. pc = "exchange" /\ Straight(Pipe, Line) /\ ~Missing(Pipe, out)
    BY <1>3 DEF Fine
  <2>2. out \in Seq(Sendable) /\ Line \in Seq(Sendable) /\ Leads(out, Line)
    BY <1>1, LineApart
  <2>3. Straight(Pipe', Line) /\ ~Missing(Pipe', out)
    BY <1>2, <1>4, <2>1, <2>2, PastKeepsFine
  <2> QED BY <1>1, <1>2, <2>3 DEF Fine
<1>7. Amiss => Amiss'
  BY <1>1, <1>2 DEF Amiss
<1>8. Mixed => Mixed'
  BY <1>1, <1>2 DEF Mixed
<1>9. Sought => Sought'
  <2> SUFFICES ASSUME Sought PROVE Sought'
    OBVIOUS
  <2>1. Awaited = confirm.sought /\ Clean(Pipe) /\ LastIs(Pipe, confirm.sought) /\ ~garbled
    BY <1>3 DEF Sought, Awaited
  <2>2. Pipe[1] # confirm.sought
    BY <1>2, <1>3, <2>1
  <2>3. \A i \in 1..Len(Pipe') : Pipe'[i] = Pipe[i + 1] /\ i + 1 \in 1..Len(Pipe)
    BY <1>2 DEF DropAt
  <2>4. Len(Pipe) # 1
    <3>1. Len(Pipe) = 1 => Pipe[1] = confirm.sought
      BY <2>1 DEF LastIs
    <3> QED BY <2>2, <3>1
  <2>5. LastIs(Pipe', confirm.sought)
    <3>1. Len(Pipe') > 0 /\ \A i \in 1..Len(Pipe') : i = Len(Pipe') <=> i + 1 = Len(Pipe)
      BY <1>2, <2>4
    <3> QED BY <2>1, <2>3, <3>1 DEF LastIs
  <2> QED BY <1>1, <1>2, <2>1, <2>5 DEF Sought
<1>10. hits' \in Nat /\ (hits' <= 1 => Unfailed')
  BY <1>1 DEF Harmless, Unfailed
<1> QED BY <1>1, <1>5, <1>6, <1>7, <1>8, <1>9, <1>10 DEF Harmless


\* A frame that cannot be read, a wait or a recovery is counted: the call goes on.
LEMMA GoesOn ==
  ASSUME BrokenResends >= 2, LinkType, NEW b \in BOOLEAN, NEW fails, Missed(b, fails),
         again = NoResends \/ (again = [waits |-> 0, broken |-> 1] /\ ~b),
         b => use.framing = "cobs"
  PROVE  /\ pc' = "exchange" /\ out' = <<>> /\ UNCHANGED <<failed, told>> /\ Line' = Line
         /\ b => again' = [waits |-> 0, broken |-> 1]
<1>1. BrokenResends \in Nat /\ out \in Seq(Sendable) /\ todo \in Seq(Sendable)
  BY LinkAssumption DEF LinkType, HostType
<1>2. again.waits = 0 /\ again.broken < BrokenResends
  BY <1>1 DEF NoResends
<1>3. GoAgain /\ (b => again' = [waits |-> 0, broken |-> 1])
  BY <1>1, <1>2 DEF Missed, NoResends
<1>4. Line' = Line
  <2>1. out' = <<>> /\ todo' = out \o todo
    BY <1>3 DEF GoAgain
  <2>2. out \o todo \in Seq(Sendable)
    BY <1>1, ConcatProperties
  <2> QED BY <2>1, <2>2, ConcatEmptySeq DEF Line
<1> QED BY <1>3, <1>4 DEF GoAgain

\* Then nothing is out, and what comes is in the order of the line, or nothing does.
LEMMA NoneOut ==
  ASSUME pc' = "exchange", out' = <<>>, ~garbled', Clean(Pipe'), Straight(Pipe', Line')
  PROVE  Fine'
<1>1. ~Missing(Pipe', out')
  BY DEF Missing
<1> QED BY <1>1 DEF Fine

LEMMA EmptyIsClean == ASSUME NEW P, Len(P) = 0 PROVE Clean(P) /\ \A l : Straight(P, l)
BY DEF Clean, Straight

LEMMA AnsweredHarmless ==
  ASSUME BrokenResends >= 2, FirstInv, Harmless, NEW f, ConfirmAnswered(f)
  PROVE  Harmless'
<1>1. /\ LinkType /\ LinkType' /\ pc = "confirm" /\ Comes(f) /\ Ours(f) /\ Taken
      /\ UNCHANGED <<use, conn, toProbe, garbled, inbox, hits>>
  <2>1. confirm.after = "call" => out = <<>>
    BY DEF FirstInv, Unsent, ConfirmAnswered
  <2> QED BY <2>1, AnsweredMoves DEF FirstInv, ConfirmAnswered
<1>2. hits \in Nat /\ hits # 0 /\ ~Fine /\ ~Amiss /\ ~Mixed
  BY <1>1 DEF Harmless, Unhit, Fine, Amiss, Mixed
<1>3. CASE hits = 1
  <2>1. Sought /\ Unfailed
    BY <1>2, <1>3 DEF Harmless
  <2>2. confirm.sought # 0 /\ Awaited = confirm.sought /\ f # Torn /\ Sign(f) = confirm.sought
    BY <1>1 DEF Comes, Ours, Awaited, Sign
  <2>3. ~garbled /\ LastIs(Pipe, confirm.sought) /\ confirm.after = "rest" /\ again = NoResends
    BY <2>1, <2>2 DEF Sought
  <2>4. Pipe[1] = Sign(f) /\ Len(Pipe) \in Nat /\ Len(Pipe) > 0 /\ Len(Pipe') = Len(Pipe) - 1
    BY <1>1, ReadPipe
  <2>5. Len(Pipe') = 0
    BY <2>2, <2>3, <2>4 DEF LastIs
  <2>6. Missed(FALSE, failed)
    BY <2>3 DEF ConfirmAnswered
  <2>8. pc' = "exchange" /\ out' = <<>> /\ UNCHANGED <<failed, told>>
    BY <1>1, <2>3, <2>6, GoesOn
  <2>9. Fine'
    BY <1>1, <2>3, <2>5, <2>8, EmptyIsClean, NoneOut
  <2> QED BY <1>1, <1>3, <2>1, <2>8, <2>9 DEF Harmless, Unfailed
<1> QED BY <1>1, <1>2, <1>3, SecondHit

LEMMA BrokenHarmless ==
  ASSUME BrokenResends >= 2, FirstInv, Harmless, BrokenComes
  PROVE  Harmless'
<1>1. /\ LinkType /\ InLine /\ LinkType' /\ pc = "exchange" /\ Comes(Torn) /\ Taken
      /\ UNCHANGED <<use, toProbe, inbox, hits>> /\ conn \in Route
  BY BrokenMoves DEF FirstInv, BrokenComes, LinkType, HostType
<1>2. /\ Pipe \in Seq(Nat) /\ Len(Pipe) > 0 /\ Pipe[1] = 0 /\ Len(Pipe) \in Nat
      /\ ~Clean(Pipe)
  <2>1. toHost[conn] # <<>> /\ Torn = Head(toHost[conn]) /\ Wire(toHost[conn], inbox[conn], toProbe[conn])
    BY <1>1, PipeTyped DEF Comes
  <2>2. Pipe[1] = Sign(Torn) /\ Pipe \in Seq(Nat) /\ Len(Pipe) \in Nat /\ Len(Pipe) # 0
    BY <1>1, <2>1, PipeRead, PipeTyped DEF Pipe
  <2>3. 1 \in 1..Len(Pipe) /\ Pipe[1] = 0
    BY <2>2, SignIs
  <2> QED BY <2>2, <2>3 DEF Clean
<1>3. ~Unhit /\ ~Fine /\ ~Mixed /\ ~Sought
  BY <1>1, <1>2, UnhitIs DEF Fine, Mixed, Sought
<1>4. hits \in Nat /\ hits # 0
  BY <1>3 DEF Harmless
<1>5. CASE hits = 1
  <2>1. Amiss /\ Unfailed
    BY <1>3, <1>5 DEF Harmless
  <2>2. again = NoResends /\ OthersEmpty /\ (garbled => use.framing = "bulk") /\ CleanBehind(Pipe)
    BY <2>1 DEF Amiss
  <2>3. CASE KeepsGoing(TRUE)
    <3>1. use.framing = "cobs" /\ Missed(TRUE, TRUE) /\ UNCHANGED <<conn, garbled>>
      BY <2>3 DEF KeepsGoing
    <3>3. pc' = "exchange" /\ UNCHANGED <<failed, told>> /\ again' = [waits |-> 0, broken |-> 1]
      BY <1>1, <2>2, <3>1, GoesOn
    <3>4. Clean(Pipe')
      BY <1>1, <2>2, <3>1, ReadPipe
    <3>5. Mixed'
      BY <1>1, <2>2, <3>1, <3>3, <3>4 DEF Mixed
    <3> QED BY <1>1, <1>5, <2>1, <3>3, <3>5 DEF Harmless, Unfailed
  <2>4. CASE Resyncs(TRUE)
    <3>1. /\ pc' = "confirm" /\ confirm' = [NoConfirm EXCEPT !.after = "rest"] /\ UNCHANGED <<failed, again, told>>
      BY <2>4 DEF Resyncs
    <3>2. confirm'.after = "rest" /\ confirm'.sought = 0 /\ confirm'.tries = 0
      BY <3>1 DEF NoConfirm
    <3>3. Clean(Pipe')
      <4>1. CASE UNCHANGED conn
        BY <1>1, <2>2, <4>1, ReadPipe
      <4>2. CASE Reopen
        <5>1. conn' \in Route /\ conn' # conn
          BY <4>2 DEF Reopen
        <5>2. toProbe'[conn'] = <<>> /\ inbox'[conn'] = <<>> /\ toHost[conn'] = <<>>
          BY <1>1, <2>2, <5>1 DEF OthersEmpty
        <5>3. toHost'[conn'] = <<>>
          BY <1>1, <5>1, <5>2 DEF Taken, LinkType, WireType
        <5>4. Len(Pipe') = 0
          BY <1>1, <5>2, <5>3, NextPipe
        <5> QED BY <5>4, EmptyIsClean
      <4> QED BY <2>4, <4>1, <4>2 DEF Resyncs
    <3>4. Sought'
      BY <2>2, <3>1, <3>2, <3>3 DEF Sought
    <3> QED BY <1>1, <1>5, <2>1, <3>1, <3>4 DEF Harmless, Unfailed
  <2> QED BY <2>3, <2>4 DEF BrokenComes
<1> QED BY <1>1, <1>4, <1>5, SecondHit

\* What is out is awaited.
LEMMA OutAwaited ==
  ASSUME LinkType, pc = "exchange", Awaited # 0
  PROVE  Len(out) \in Nat /\ Len(out) > 0
<1>1. out # <<>> /\ out \in Seq(Sendable)
  BY AwaitedIs DEF LinkType, HostType
<1> QED BY <1>1, EmptyIsZero, LenProperties

\* Who waits has an empty pipe, or the answer is late: one more hit.
LEMMA WaitedPipe ==
  ASSUME LinkType, Waited, hits \in Nat
  PROVE  /\ use'.framing = use.framing /\ hits' \in Nat
         /\ (hits' = hits /\ Len(Pipe) = 0) \/ hits' = hits + 1
<1>1. use'.framing = use.framing
  BY DEF Waited, LinkType, HostType, Use
<1> QED BY <1>1, PipeTyped DEF Waited

LEMMA NothingHarmless ==
  ASSUME BrokenResends >= 2, FirstInv, Harmless, NothingComes
  PROVE  Harmless'
<1>1. /\ LinkType /\ InLine /\ LinkType' /\ pc = "exchange" /\ Awaited # 0 /\ Waited
      /\ UNCHANGED <<toProbe, toHost, inbox>> /\ hits \in Nat
  BY NothingMoves DEF FirstInv, NothingComes, Harmless
<1>2. /\ use'.framing = use.framing /\ hits' \in Nat /\ Len(out) \in Nat /\ Len(out) > 0
      /\ (hits' = hits /\ Len(Pipe) = 0) \/ hits' = hits + 1
  BY <1>1, WaitedPipe, OutAwaited
<1>3. ~Sought
  BY <1>1 DEF Sought
<1>4. CASE hits = 0
  <2>1. Unhit /\ Unfailed
    BY <1>4 DEF Harmless
  <2>2. hits' = 1
    <3>1. Len(Pipe) # 0
      BY <1>2, <2>1 DEF Unhit, Holds
    <3> QED BY <1>2, <1>4, <3>1
  <2>3. Clean(Pipe) /\ Straight(Pipe, Line) /\ ~garbled /\ again = NoResends
    BY <1>1, <2>1, UnhitIs DEF Unhit
  <2>4. CASE KeepsGoing(FALSE)
    <3>1. Missed(FALSE, TRUE) /\ UNCHANGED <<conn, garbled>>
      BY <2>4 DEF KeepsGoing
    <3>3. pc' = "exchange" /\ out' = <<>> /\ UNCHANGED <<failed, told>> /\ Line' = Line
      BY <1>1, <2>3, <3>1, GoesOn
    <3>4. Pipe' = Pipe
      BY <1>1, <3>1, SamePipe
    <3>5. Fine'
      BY <2>3, <3>1, <3>3, <3>4, NoneOut
    <3> QED BY <2>1, <2>2, <3>3, <3>5 DEF Harmless, Unfailed
  <2>5. CASE Resyncs(FALSE)
    <3>1. /\ pc' = "confirm" /\ confirm' = [NoConfirm EXCEPT !.after = "rest"]
          /\ UNCHANGED <<failed, again, told, conn>>
      BY <2>5 DEF Resyncs
    <3>2. confirm'.after = "rest" /\ confirm'.sought = 0 /\ confirm'.tries = 0
      BY <3>1 DEF NoConfirm
    <3>3. Pipe' = Pipe
      BY <1>1, <3>1, SamePipe
    <3>4. Sought'
      BY <2>3, <3>1, <3>2, <3>3 DEF Sought
    <3> QED BY <2>1, <2>2, <3>1, <3>4 DEF Harmless, Unfailed
  <2> QED BY <2>4, <2>5 DEF NothingComes
<1>5. CASE hits = 1 /\ hits' = 1
  <2>1. Unfailed /\ Len(Pipe) = 0
    BY <1>2, <1>5 DEF Harmless
  <2>2. Amiss \/ Mixed
    <3>1. Missing(Pipe, out)
      BY <1>2, <2>1 DEF Missing
    <3>2. ~Fine
      BY <3>1 DEF Fine
    <3> QED BY <1>3, <1>5, <3>2 DEF Harmless
  <2>3. CASE KeepsGoing(FALSE)
    <3>1. Missed(FALSE, TRUE) /\ UNCHANGED <<conn, garbled>> /\ use.framing \in {"cobs", "tcp"}
      BY <2>3 DEF KeepsGoing
    <3>3. again = NoResends \/ again = [waits |-> 0, broken |-> 1]
      BY <2>2 DEF Amiss, Mixed
    <3>4. pc' = "exchange" /\ out' = <<>> /\ UNCHANGED <<failed, told>>
      BY <1>1, <3>1, <3>3, GoesOn
    <3>5. Len(Pipe') = 0
      BY <1>1, <2>1, <3>1, SamePipe
    <3>6. ~garbled'
      BY <2>2, <3>1 DEF Amiss, Mixed
    <3>7. Fine'
      BY <3>4, <3>5, <3>6, EmptyIsClean, NoneOut
    <3> QED BY <1>5, <2>1, <3>4, <3>7 DEF Harmless, Unfailed
  <2>4. CASE Resyncs(FALSE)
    <3>1. /\ pc' = "confirm" /\ confirm' = [NoConfirm EXCEPT !.after = "rest"] /\ use.framing = "bulk"
          /\ UNCHANGED <<failed, again, told, conn>>
      BY <2>4 DEF Resyncs
    <3>2. confirm'.after = "rest" /\ confirm'.sought = 0 /\ confirm'.tries = 0
      BY <3>1 DEF NoConfirm
    <3>3. Len(Pipe') = 0
      BY <1>1, <2>1, <3>1, SamePipe
    <3>4. again = NoResends
      BY <2>2, <3>1 DEF Amiss, Mixed
    <3>5. Sought'
      BY <3>1, <3>2, <3>3, <3>4, EmptyIsClean DEF Sought
    <3> QED BY <1>5, <2>1, <3>1, <3>5 DEF Harmless, Unfailed
  <2> QED BY <2>3, <2>4 DEF NothingComes
<1>6. hits = 0 \/ (hits = 1 /\ hits' = 1) \/ hits' >= 2
  BY <1>1, <1>2
<1> QED BY <1>2, <1>4, <1>5, <1>6, SecondHit


LEMMA SendHarmless ==
  ASSUME FirstInv, Harmless, SendConfirm
  PROVE  Harmless'
<1>1. /\ LinkType /\ Named /\ LinkType' /\ pc = "confirm" /\ garbled' = FALSE
      /\ UNCHANGED <<use, pc, conn, failed, again, inbox, hits, told>>
      /\ confirm'.after = confirm.after /\ toHost'[conn] = <<>> /\ conn \in Route
  BY SendConfirmMoves DEF FirstInv, SendConfirm, pastVars, LinkType, HostType, WireType
<1>2. PICK q \in Sendable : q.corr = corr' /\ toProbe'[conn] = <<q>>
  BY <1>1, SendConfirmMoves
<1>3. hits \in Nat /\ hits # 0 /\ ~Fine /\ ~Amiss /\ ~Mixed
  BY <1>1 DEF Harmless, Unhit, Fine, Amiss, Mixed
<1>4. CASE hits = 1
  <2>1. Sought /\ Unfailed
    BY <1>3, <1>4 DEF Harmless
  <2>2. corr' \in Corr /\ Past(corr') > Past(corr) /\ corr' # 0
    <3>1. corr' \in Corr /\ Past(corr') = Past(corr) + 1 /\ corr \in Corr
      BY <1>1, SendConfirmMoves DEF LinkType, HostType
    <3>2. Past(corr) \in Int
      BY <3>1, PastRange
    <3> QED BY <3>1, <3>2 DEF Corr
  <2>3. confirm'.sought = corr'
    BY <1>1 DEF SendConfirm, LinkType, HostType, Confirms
  <2> DEFINE b == inbox[conn]
             c == <<q>>
             h == toHost[conn]
             e == <<>>
  <2>4. Pipe' = PipeOf(e, b, c) /\ Wire(e, b, c)
    BY <1>1, <1>2, NextPipe
  <2>5. ASSUME NEW i \in 1..Len(b) PROVE b[i].req.corr # q.corr
    <3> DEFINE g == toProbe[conn]
    <3>1. PipeShape(Pipe, h, b, g)
      BY <1>1, PipeTyped, PipeIs DEF Pipe
    <3> HIDE DEF b, h, g
    <3>2. Len(h) \in Nat /\ Len(b) \in Nat /\ Len(g) \in Nat /\ Len(Pipe) = Len(h) + Len(b) + Len(g)
      BY <3>1 DEF PipeShape
    <3>3. Pipe[Len(h) + i] = b[i].req.corr
      BY <3>1 DEF PipeShape
    <3>4. Len(h) + i \in 1..Len(Pipe)
      BY <3>2
    <3> QED BY <1>1, <1>2, <2>2, <3>3, <3>4, PipeOld
  <2> HIDE DEF b, c, h
  <2>6. Clean(PipeOf(e, b, c)) /\ LastIs(PipeOf(e, b, c), q.corr)
    BY <2>4, <2>5, PipeConfirm DEF c
  <2>7. Sought'
    BY <1>1, <1>2, <2>1, <2>2, <2>3, <2>4, <2>6 DEF Sought
  <2> QED BY <1>1, <1>4, <2>1, <2>7 DEF Harmless, Unfailed
<1> QED BY <1>1, <1>3, <1>4, SecondHit

LEMMA ConfirmMissedHarmless ==
  ASSUME FirstInv, Harmless, ConfirmMissed
  PROVE  Harmless'
<1>1. /\ LinkType /\ pc = "confirm" /\ hits \in Nat /\ confirm.sought # 0
      /\ Waited \/ (Comes(Torn) /\ UNCHANGED hits)
  BY DEF FirstInv, ConfirmMissed, Harmless, Awaited
<1>2. hits # 0 /\ ~Fine /\ ~Amiss /\ ~Mixed
  BY <1>1 DEF Harmless, Unhit, Fine, Amiss, Mixed
<1>3. hits' \in Nat /\ (hits' = hits + 1 \/ (hits' = hits /\ (Len(Pipe) = 0 \/ Comes(Torn))))
  BY <1>1, WaitedPipe
<1>4. hits' = hits => hits >= 2
  <2> SUFFICES ASSUME hits = 1, hits' = hits PROVE FALSE
    BY <1>1, <1>2
  <2>1. Clean(Pipe) /\ LastIs(Pipe, confirm.sought)
    BY <1>1, <1>2 DEF Harmless, Sought
  <2>2. Len(Pipe) # 0 /\ Comes(Torn)
    BY <1>1, <1>3, <2>1, PipeTyped DEF LastIs
  <2>3. toHost[conn] # <<>> /\ Torn = Head(toHost[conn]) /\ Wire(toHost[conn], inbox[conn], toProbe[conn])
    BY <1>1, <2>2, PipeTyped DEF Comes
  <2>4. Pipe[1] = 0 /\ 1 \in 1..Len(Pipe)
    BY <1>1, <2>2, <2>3, PipeRead, PipeTyped, SignIs DEF Pipe
  <2> QED BY <2>1, <2>4 DEF Clean
<1> QED BY <1>1, <1>2, <1>3, <1>4, SecondHit

LEMMA NoneHarmless ==
  ASSUME FirstInv, Harmless, NoneConfirmed
  PROVE  Harmless'
<1>1. pc = "confirm" /\ confirm.sought = 0 /\ confirm.tries # 0 /\ hits' = hits /\ hits \in Nat
  BY LinkAssumption DEF NoneConfirmed, Harmless
<1>2. hits # 0 /\ hits # 1
  BY <1>1 DEF Harmless, Unhit, Fine, Amiss, Mixed, Sought
<1> QED BY <1>1, <1>2, SecondHit

\* The first fault: the call waits for what does not come.
LEMMA FirstHit ==
  ASSUME LinkType, LinkType', InLine, Harmless, Unhit, Len(Pipe) > 0, hits = 0, hits' = 1,
         UNCHANGED <<pc, conn, failed, out, again, told>>, use'.framing = use.framing,
         garbled' => use.framing = "bulk", OthersEmpty', CleanBehind(Pipe'), Missing(Pipe', out)
  PROVE  Harmless'
<1>1. pc = "exchange"
  <2>1. Len(out) > 0
    BY UnhitIs
  <2>2. pc # "idle"
    BY <2>1 DEF LinkType, HostType
  <2> QED BY <2>2 DEF Unhit, LinkType, HostType
<1>2. Amiss'
  BY <1>1 DEF Amiss, Unhit
<1>3. Unfailed'
  BY DEF Harmless, Unfailed
<1> QED BY <1>2, <1>3 DEF Harmless

LEMMA FaultIs ==
  ASSUME LinkType, Harmless, Fault
  PROVE  /\ hits \in Nat /\ hits' \in Nat /\ use'.framing = use.framing
         /\ (hits = 0 /\ hits' = 1 /\ Unhit) \/ hits' >= 2
<1>1. hits \in Nat /\ hits' = hits + 1 /\ use'.framing = use.framing
  BY DEF Fault, Harmless, LinkType, HostType, Use
<1> QED BY <1>1 DEF Harmless

LEMMA LoseRequestHarmless ==
  ASSUME FirstInv, Harmless, LoseRequest
  PROVE  Harmless'
<1>1. /\ LinkType /\ InLine /\ LinkType' /\ conn \in Route /\ Fault /\ toProbe[conn] # <<>>
      /\ UNCHANGED <<pc, conn, failed, out, again, told, toHost, inbox>>
      /\ garbled' => use.framing = "bulk"
      /\ toProbe'[conn] = Tail(toProbe[conn]) /\ \A t \in Route : t # conn => toProbe'[t] = toProbe[t]
  <2>1. toProbe' = [toProbe EXCEPT ![conn] = Tail(@)] /\ LinkType /\ conn \in Route
    BY DEF FirstInv, LoseRequest, LinkType, HostType
  <2>2. toProbe'[conn] = Tail(toProbe[conn]) /\ \A t \in Route : t # conn => toProbe'[t] = toProbe[t]
    BY <2>1 DEF LinkType, WireType
  <2> QED BY <2>1, <2>2, LoseRequestMoves DEF FirstInv, LoseRequest, hostVars
<1>2. CASE hits = 0 /\ hits' = 1 /\ Unhit
  <2> DEFINE h == toHost[conn]
             b == inbox[conn]
             g == toProbe[conn]
             k == Len(h) + Len(b) + 1
  <2>1. Wire(h, b, g) /\ g # <<>> /\ Pipe = PipeOf(h, b, g) /\ Pipe' = PipeOf(h, b, Tail(g))
    BY <1>1, PipeTyped DEF Pipe
  <2>2. DropAt(Pipe, Pipe', k)
    <3> HIDE DEF h, b, g
    <3> QED BY <2>1, PipeDrop
  <2> HIDE DEF h, b, g, k
  <2>3. Pipe \in Seq(Nat) /\ Pipe' \in Seq(Nat) /\ Len(Pipe) \in Nat /\ Len(Pipe') \in Nat
    BY <1>1, PipeTyped, NextPipe
  <2>4. Clean(Pipe') /\ Missing(Pipe', out)
    BY <1>1, <1>2, <2>2, <2>3, UnhitIs, DropKeeps
  <2>5. CleanBehind(Pipe') /\ Len(Pipe) > 0
    BY <2>2, <2>3, <2>4 DEF Clean, CleanBehind, DropAt
  <2>6. OthersEmpty'
    BY <1>1, <1>2 DEF Unhit, OthersEmpty
  <2> QED BY <1>1, <1>2, <2>4, <2>5, <2>6, FaultIs, FirstHit
<1> QED BY <1>1, <1>2, FaultIs, SecondHit

LEMMA LoseAnswerHarmless ==
  ASSUME FirstInv, Harmless, LoseAnswer
  PROVE  Harmless'
<1>1. /\ LinkType /\ InLine /\ LinkType' /\ conn \in Route /\ Fault /\ toHost[conn] # <<>>
      /\ UNCHANGED <<pc, conn, failed, out, again, told, toProbe, inbox, garbled>>
      /\ toHost' = [toHost EXCEPT ![conn][1] = Torn] \/ toHost' = [toHost EXCEPT ![conn] = Tail(@)]
  BY LoseAnswerMoves DEF FirstInv, LoseAnswer, Taken, LinkType, HostType, hostVars
<1>2. CASE hits = 0 /\ hits' = 1 /\ Unhit
  <2> DEFINE h == toHost[conn]
             b == inbox[conn]
             g == toProbe[conn]
  <2>1. Wire(h, b, g) /\ h # <<>> /\ Pipe = PipeOf(h, b, g)
    BY <1>1, PipeTyped DEF Pipe
  <2>2. /\ Pipe' = PipeOf(FirstTorn(h), b, g) \/ Pipe' = PipeOf(Tail(h), b, g)
        /\ \A t \in Route : t # conn => toHost'[t] = toHost[t]
    <3>1. toHost'[conn] = FirstTorn(h) \/ toHost'[conn] = Tail(h)
      BY <1>1 DEF LinkType, WireType, FirstTorn
    <3>2. \A t \in Route : t # conn => toHost'[t] = toHost[t]
      BY <1>1 DEF LinkType, WireType
    <3> QED BY <1>1, <3>1, <3>2 DEF Pipe
  <2> HIDE DEF h, b, g
  <2>3. Pipe \in Seq(Nat) /\ Pipe' \in Seq(Nat) /\ Len(Pipe) \in Nat /\ Len(Pipe') \in Nat
    BY <1>1, PipeTyped, NextPipe
  <2>4. /\ Clean(Pipe) /\ \A p, q \in 1..Len(Pipe) : Pipe[p] = Pipe[q] => p = q
        /\ \A P2 \in Seq(Nat) : \A k : DropAt(Pipe, P2, k) => Missing(P2, out)
        /\ Len(Pipe) > 0 => Len(out) > 0 /\ Pipe[1] = out[1].corr
    BY <1>1, <1>2, UnhitIs
  <2>5. Len(Pipe) > 0 /\ CleanBehind(Pipe') /\ Missing(Pipe', out)
    <3>1. CASE Pipe' = PipeOf(FirstTorn(h), b, g)
      <4>1. /\ Len(Pipe') = Len(Pipe) /\ Len(Pipe) > 0
            /\ Pipe'[1] = 0 /\ \A i \in 2..Len(Pipe) : Pipe'[i] = Pipe[i]
        BY ONLY <2>1, <3>1, PipeTorn
      <4>2. CleanBehind(Pipe')
        BY <2>3, <2>4, <4>1 DEF Clean, CleanBehind
      <4>3. \A p \in 1..Len(Pipe') : Pipe'[p] # Pipe[1]
        <5> TAKE p \in 1..Len(Pipe')
        <5>1. CASE p = 1
          BY <2>4, <4>1, <5>1 DEF Clean
        <5>2. CASE p # 1
          <6>1. p \in 2..Len(Pipe) /\ p \in 1..Len(Pipe) /\ 1 \in 1..Len(Pipe)
            BY <2>3, <4>1, <5>2
          <6> QED BY <2>4, <4>1, <5>2, <6>1
        <5> QED BY <5>1, <5>2
      <4>4. 1 \in 1..Len(out) /\ Pipe[1] = out[1].corr
        BY <1>1, <2>4, <4>1 DEF LinkType, HostType
      <4>5. Missing(Pipe', out)
        BY <4>3, <4>4 DEF Missing
      <4> QED BY <4>1, <4>2, <4>5
    <3>2. CASE Pipe' = PipeOf(Tail(h), b, g)
      <4>1. DropAt(Pipe, Pipe', 1)
        BY <2>1, <3>2, PipeRead
      <4>2. Clean(Pipe')
        BY <2>3, <2>4, <4>1, DropKeeps
      <4>3. Missing(Pipe', out)
        BY <2>3, <2>4, <4>1
      <4>4. Len(Pipe) > 0
        BY <2>3, <4>1 DEF DropAt
      <4>5. CleanBehind(Pipe')
        BY <2>3, <4>2 DEF Clean, CleanBehind
      <4> QED BY <4>3, <4>4, <4>5
    <3> QED BY <2>2, <3>1, <3>2
  <2>6. OthersEmpty'
    BY <1>1, <1>2, <2>2 DEF Unhit, OthersEmpty
  <2>7. ~garbled'
    BY <1>1, <1>2 DEF Unhit
  <2> QED BY <1>1, <1>2, <2>5, <2>6, <2>7, FaultIs, FirstHit
<1> QED BY <1>1, <1>2, FaultIs, SecondHit


-------------------------------------------------------------------------------
(* One fault: the invariant. *)

LEMMA HarmlessInit == LinkInit => HarmlessInv
<1> SUFFICES ASSUME LinkInit PROVE HarmlessInv
  OBVIOUS
<1>1. FirstInv
  BY FirstInit
<1>2. LinkType /\ conn \in Route
  BY <1>1 DEF FirstInv, LinkType, HostType
<1>3. Answering
  <2> DEFINE r == [sid |-> Holder, corr |-> FirstCorr, op |-> "open", arg |-> 0]
             a == Ans(r, "ok", boot)
  <2>1. resend = {[corr |-> FirstCorr, req |-> r, ans |-> a]}
    BY DEF LinkInit
  <2>2. a.req = r /\ a.res = "ok"
    BY DEF Ans
  <2>3. r.corr = FirstCorr
    OBVIOUS
  <2> HIDE DEF r, a
  <2>4. \A e \in resend : e.ans # Dropped => e.ans.req.corr = e.corr
    BY <2>1, <2>2, <2>3
  <2>5. \A t \in Route : Back(t) = {} /\ InStep(t)
    BY RangeEmpty DEF LinkInit, Back, InStep
  <2>6. AllBack \subseteq {a}
    BY <2>1, <2>5 DEF AllBack, Stored
  <2> QED BY <2>2, <2>4, <2>5, <2>6 DEF Answering
<1>4. Unhit
  <2>1. Len(Pipe) = 0
    BY <1>2, PipeTyped DEF LinkInit
  <2>2. out = <<>>
    BY DEF LinkInit
  <2>3. Holds(Pipe, out)
    BY <2>1, <2>2 DEF Holds
  <2> QED BY <2>3 DEF LinkInit, Unhit, OthersEmpty
<1>5. hits = 0 /\ Unfailed
  BY DEF LinkInit, Unfailed
<1> QED BY <1>1, <1>3, <1>4, <1>5 DEF HarmlessInv, Harmless

LEMMA HarmlessNext == ASSUME BrokenResends >= 2 PROVE HarmlessInv /\ [LinkNext]_linkVars => HarmlessInv'
<1> SUFFICES ASSUME HarmlessInv, [LinkNext]_linkVars PROVE HarmlessInv'
  OBVIOUS
<1>0. FirstInv /\ LinkType /\ InLine /\ Unsent /\ Answering /\ Harmless
  BY DEF HarmlessInv, FirstInv
<1>a. FirstInv' /\ LinkType'
  BY <1>0, FirstNext DEF FirstInv
<1>b. HostMoves /\ UNCHANGED inbox => Answering'
  BY <1>0, AnsweringCalm DEF HostMoves
<1>1. CASE SubscribeAgain \/ Call
  <2>1. PICK requests : use' \in Use /\ IsCall(requests) /\ Begin(requests)
    BY <1>0, <1>1, CallBegins DEF LinkType
  <2>2. UNCHANGED <<vars, toHost, inbox>>
    BY <1>0, <2>1, BeginMoves
  <2>3. Answering'
    BY <1>0, <2>2, AnsweringCalm DEF Back, vars
  <2> QED BY <1>0, <1>a, <2>1, <2>3, BeginHarmless DEF HarmlessInv
<1>2. CASE PutOut
  <2>1. HostMoves /\ UNCHANGED inbox
    BY <1>0, <1>2, PutOutMoves DEF PutOut
  <2> QED BY <1>0, <1>2, <1>a, <1>b, <2>1, PutOutHarmless DEF HarmlessInv
<1>3. CASE \E f : ResultComes(f) \/ ReadPast(f) \/ ConfirmAnswered(f)
  <2>1. PICK f : ResultComes(f) \/ ReadPast(f) \/ ConfirmAnswered(f)
    BY <1>3
  <2>2. CASE ResultComes(f)
    <3>1. HostMoves /\ UNCHANGED inbox
      BY <1>0, <2>2, ResultMoves DEF ResultComes
    <3> QED BY <1>0, <1>a, <1>b, <2>2, <3>1, ResultHarmless DEF HarmlessInv
  <2>3. CASE ReadPast(f)
    <3>1. HostMoves /\ UNCHANGED inbox
      BY <1>0, <2>3, ReadPastMoves
    <3> QED BY <1>0, <1>a, <1>b, <2>3, <3>1, ReadPastHarmless DEF HarmlessInv
  <2>4. CASE ConfirmAnswered(f)
    <3>1. confirm.after = "call" => out = <<>>
      BY <1>0, <2>4 DEF Unsent, ConfirmAnswered
    <3>2. HostMoves /\ UNCHANGED inbox
      BY <1>0, <2>4, <3>1, AnsweredMoves
    <3> QED BY <1>0, <1>a, <1>b, <2>4, <3>2, AnsweredHarmless DEF HarmlessInv
  <2> QED BY <2>1, <2>2, <2>3, <2>4
<1>4. CASE BrokenComes
  <2>1. HostMoves /\ UNCHANGED inbox
    BY <1>0, <1>4, BrokenMoves
  <2> QED BY <1>0, <1>4, <1>a, <1>b, <2>1, BrokenHarmless DEF HarmlessInv
<1>5. CASE NothingComes
  <2>1. HostMoves /\ UNCHANGED inbox
    BY <1>0, <1>5, NothingMoves
  <2> QED BY <1>0, <1>5, <1>a, <1>b, <2>1, NothingHarmless DEF HarmlessInv
<1>6. CASE SendConfirm
  <2>1. Answering'
    <3>1. UNCHANGED <<vars, inbox>> /\ \A t \in Route : Range(toHost[t])' \subseteq Range(toHost[t])
      BY <1>0, <1>6, SendConfirmMoves
    <3>2. \A t \in Route : Back(t)' \subseteq Back(t)
      BY <3>1, BackLess DEF vars
    <3> QED BY <1>0, <3>1, <3>2, AnsweringCalm
  <2> QED BY <1>0, <1>6, <1>a, <2>1, SendHarmless DEF HarmlessInv
<1>7. CASE ConfirmMissed
  <2>1. HostMoves /\ UNCHANGED inbox
    BY <1>0, <1>7, ConfirmMissedMoves
  <2> QED BY <1>0, <1>7, <1>a, <1>b, <2>1, ConfirmMissedHarmless DEF HarmlessInv
<1>8. CASE NoneConfirmed
  <2>1. HostMoves /\ UNCHANGED inbox
    BY <1>0, <1>8, NoneMoves
  <2> QED BY <1>0, <1>8, <1>a, <1>b, <2>1, NoneHarmless DEF HarmlessInv
<1>9. CASE LoseRequest
  <2>1. Answering'
    BY <1>0, <1>9, LoseRequestMoves, AnsweringCalm DEF LoseRequest, WireMoves
  <2> QED BY <1>0, <1>9, <1>a, <2>1, LoseRequestHarmless DEF HarmlessInv
<1>10. CASE LoseAnswer
  <2>1. Answering'
    BY <1>0, <1>10, LoseAnswerMoves, AnsweringCalm DEF LoseAnswer, WireMoves
  <2> QED BY <1>0, <1>10, <1>a, <2>1, LoseAnswerHarmless DEF HarmlessInv
<1>11. CASE \E c \in Route : Receive(c) \/ Process(c) \/ Sent(c) \/ CloseRoute(c)
  <2>1. PICK c \in Route : Receive(c) \/ Process(c) \/ Sent(c) \/ CloseRoute(c)
    BY <1>11
  <2>2. UNCHANGED <<use, hostVars, garbled, hits, told>>
    BY <2>1 DEF Receive, Process, Sent, CloseRoute, pastVars
  <2>3. CASE Receive(c)
    BY <1>0, <1>a, <2>2, <2>3, ReceiveAnswering, ReceivePipe, QuietKeeps DEF HarmlessInv
  <2>4. CASE Process(c)
    BY <1>0, <1>a, <2>2, <2>4, ProcessAnswering, ProcessPipe, QuietKeeps DEF HarmlessInv
  <2>5. CASE Sent(c)
    BY <1>0, <1>a, <2>2, <2>5, SentAnswering, SentPipe, QuietKeeps DEF HarmlessInv
  <2>6. CASE CloseRoute(c)
    BY <1>0, <1>a, <2>2, <2>6, CloseAnswering, ClosePipe, QuietKeeps DEF HarmlessInv
  <2> QED BY <2>1, <2>3, <2>4, <2>5, <2>6
<1>12. CASE UNCHANGED linkVars
  <2>1. UNCHANGED <<use, vars, hostVars, wireVars, pastVars>>
    BY <1>12 DEF linkVars
  <2>2. /\ UNCHANGED <<vars, inbox>> /\ UNCHANGED <<conn, toProbe, toHost, inbox>>
        /\ UNCHANGED <<use, hostVars, garbled, hits, told>>
    BY <2>1 DEF hostVars, wireVars, pastVars
  <2>3. Answering'
    BY <1>0, <2>2, AnsweringCalm DEF Back, vars
  <2>4. Pipe' = Pipe /\ (OthersEmpty => OthersEmpty') /\ Pipe' \in Seq(Nat)
    BY <1>a, <2>2, SamePipe, NextPipe
  <2> QED BY <1>0, <1>a, <2>2, <2>3, <2>4, QuietKeeps DEF HarmlessInv
<1> QED BY <1>1, <1>2, <1>3, <1>4, <1>5, <1>6, <1>7, <1>8, <1>9, <1>10, <1>11, <1>12 DEF LinkNext

\* One lost, broken or late frame never fails a call, for every number of requests in flight, every
\* framing and sequence of calls (exchange, _resent, resync).  Two resends at once after broken frames
\* are allowed or more (BROKEN_RESENDS is 3): with one, the resend of a broken frame spends it, and the
\* wait for a copy that was dropped at the probe fails the call.
THEOREM OneFault == ASSUME BrokenResends >= 2 PROVE LinkSpec => []OneFaultHarmless
<1>1. HarmlessInv => OneFaultHarmless
  <2> SUFFICES ASSUME HarmlessInv, NEW x \in told, x.what \in {"unknown", "not_sent"} PROVE hits >= 2
    BY DEF OneFaultHarmless
  <2>1. hits \in Nat /\ ~(hits <= 1)
    BY DEF HarmlessInv, Harmless, Unfailed
  <2> QED BY <2>1
<1>2. HarmlessInv /\ [LinkNext]_linkVars => HarmlessInv'
  BY HarmlessNext
<1> QED BY <1>1, <1>2, HarmlessInit, PTL DEF LinkSpec
=============================================================================
