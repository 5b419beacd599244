---------------------------- MODULE HostLinkProofs ----------------------------
(***************************************************************************)
(* What holds of hosts, their links and the probe together, for every      *)
(* number of hosts, calls, faults and restarts.                            *)
(*                                                                         *)
(* Everything rests on the order of one host's line.  The answers on their *)
(* way to the host and then the requests on their way to the probe are in  *)
(* the order of their corrs, the host's request is at their end, and equal *)
(* corrs are copies of one request (PipeInv).  Sessions and writes belong  *)
(* to one host each (NameInv).  So when a copy of a write that ran is the  *)
(* next to be handled, nothing of its session was handled in between, and  *)
(* the resend table still ends at it (RunInv); and a connection a host     *)
(* believes in has no open of its session left behind it (HandleInv).      *)
(***************************************************************************)
EXTENDS HostLink, ProbeSessionProofs

-------------------------------------------------------------------------------
(* Sequences that lose their front and grow at their end.                   *)

Elems(s) == {s[i] : i \in 1..Len(s)}

\* new is what is left of old when a prefix is gone.
Shifted(new, old) ==
  \E n \in Nat : /\ n <= Len(old)
                 /\ Len(new) = Len(old) - n
                 /\ \A i \in 1..Len(new) : new[i] = old[i + n]

\* A sequence is what is left of itself when nothing is gone.
LEMMA SameShifted == ASSUME NEW S, NEW s \in Seq(S) PROVE Shifted(s, s)
<1>1. /\ 0 \in Nat /\ 0 <= Len(s) /\ Len(s) = Len(s) - 0
      /\ \A i \in 1..Len(s) : s[i] = s[i + 0]
  BY LenProperties
<1> QED BY <1>1, Zenon DEF Shifted

\* The tail is what is left without the head.
LEMMA TailShifted == ASSUME NEW S, NEW s \in Seq(S), s # <<>> PROVE Shifted(Tail(s), s)
<1>1. /\ 1 \in Nat /\ 1 <= Len(s) /\ Len(Tail(s)) = Len(s) - 1
      /\ \A i \in 1..Len(Tail(s)) : Tail(s)[i] = s[i + 1]
  BY HeadTailProperties, EmptySeq, LenProperties
<1> QED BY <1>1 DEF Shifted

\* A suffix is what is left without the prefix.
LEMMA SubSeqShifted ==
  ASSUME NEW S, NEW s \in Seq(S), NEW n \in 0..Len(s)
  PROVE  SubSeq(s, n + 1, Len(s)) \in Seq(S) /\ Shifted(SubSeq(s, n + 1, Len(s)), s)
<1>1. Len(s) \in Nat /\ n \in Nat /\ n <= Len(s)
  BY LenProperties
<1>2. \A i \in n + 1 .. Len(s) : s[i] \in S
  BY <1>1, ElementOfSeq
<1>3. /\ SubSeq(s, n + 1, Len(s)) \in Seq(S)
      /\ Len(SubSeq(s, n + 1, Len(s))) = IF n + 1 <= Len(s) THEN Len(s) - (n + 1) + 1 ELSE 0
      /\ \A i \in 1 .. Len(s) - (n + 1) + 1 : SubSeq(s, n + 1, Len(s))[i] = s[(n + 1) + i - 1]
  <2>1. n + 1 \in Int /\ Len(s) \in Int
    BY <1>1
  <2> QED BY <1>2, <2>1, SubSeqProperties
<1>4. Len(SubSeq(s, n + 1, Len(s))) = Len(s) - n
  BY <1>1, <1>3
<1>5. \A i \in 1..Len(SubSeq(s, n + 1, Len(s))) : SubSeq(s, n + 1, Len(s))[i] = s[i + n]
  <2> SUFFICES ASSUME NEW i \in 1..(Len(s) - n) PROVE SubSeq(s, n + 1, Len(s))[i] = s[i + n]
    BY <1>4
  <2>1. i \in 1 .. Len(s) - (n + 1) + 1 /\ (n + 1) + i - 1 = i + n
    BY <1>1
  <2> QED BY <1>3, <2>1
<1> QED BY <1>1, <1>3, <1>4, <1>5 DEF Shifted

\* What is left was there before.
LEMMA ShiftedElems ==
  ASSUME NEW S, NEW old \in Seq(S), NEW T, NEW new \in Seq(T), Shifted(new, old)
  PROVE  Elems(new) \subseteq Elems(old)
<1>1. PICK n \in Nat : /\ n <= Len(old) /\ Len(new) = Len(old) - n
                       /\ \A i \in 1..Len(new) : new[i] = old[i + n]
  BY DEF Shifted
<1>2. Len(old) \in Nat /\ Len(new) \in Nat
  BY LenProperties
<1>3. ASSUME NEW i \in 1..Len(new) PROVE new[i] \in Elems(old)
  <2>1. i + n \in 1..Len(old)
    BY <1>1, <1>2
  <2> QED BY <1>1, <2>1 DEF Elems
<1> QED BY <1>3 DEF Elems

\* What a sequence has once it has grown.
LEMMA AppendElems ==
  ASSUME NEW S, NEW s \in Seq(S), NEW e \in S
  PROVE  Elems(Append(s, e)) = Elems(s) \cup {e}
<1>1. /\ Len(Append(s, e)) = Len(s) + 1 /\ Len(s) \in Nat
      /\ \A i \in 1..Len(s) : Append(s, e)[i] = s[i]
      /\ Append(s, e)[Len(s) + 1] = e
  BY AppendProperties, LenProperties
<1>2. 1..(Len(s) + 1) = 1..Len(s) \cup {Len(s) + 1}
  BY <1>1
<1> QED BY <1>1, <1>2 DEF Elems

\* The head is one of the elements, the first of them.
LEMMA HeadElem ==
  ASSUME NEW S, NEW s \in Seq(S), s # <<>>
  PROVE  Head(s) \in S /\ Head(s) = s[1] /\ Head(s) \in Elems(s) /\ Len(s) \in Nat \ {0}
<1>1. Len(s) \in Nat \ {0} /\ 1 \in 1..Len(s)
  BY EmptySeq
<1> QED BY <1>1, HeadTailProperties DEF Elems

\* The elements are of the sequence's type.
LEMMA ElemsType == ASSUME NEW S, NEW s \in Seq(S) PROVE Elems(s) \subseteq S
BY ElementOfSeq DEF Elems

-------------------------------------------------------------------------------
(* The line of one host: the answers A on their way to it, and behind them  *)
(* the requests T on their way to the probe.                                *)

\* The line is in the order of the corrs.
Sorted(A, T) ==
  /\ \A i, j \in 1..Len(A) : i <= j => A[i].req.corr <= A[j].req.corr
  /\ \A i, j \in 1..Len(T) : i <= j => T[i].corr <= T[j].corr
  /\ \A i \in 1..Len(A), j \in 1..Len(T) : A[i].req.corr <= T[j].corr

\* All but the last of the line have corrs below c.
LastOnly(A, T, c) ==
  /\ \A i \in 1..Len(A) : i < Len(A) \/ Len(T) > 0 => A[i].req.corr < c
  /\ \A i \in 1..Len(T) : i < Len(T) => T[i].corr < c

\* A line that loses answers and requests at their fronts stays in order.
LEMMA LineShrinks ==
  ASSUME NEW A \in Seq(Answer), NEW T \in Seq(Requests),
         NEW A2 \in Seq(Answer), NEW T2 \in Seq(Requests), Shifted(A2, A), Shifted(T2, T)
  PROVE  /\ Sorted(A, T) => Sorted(A2, T2)
         /\ \A c \in Nat : LastOnly(A, T, c) => LastOnly(A2, T2, c)
<1>1. PICK n \in Nat : /\ n <= Len(A) /\ Len(A2) = Len(A) - n
                       /\ \A i \in 1..Len(A2) : A2[i] = A[i + n]
  BY DEF Shifted
<1>2. PICK m \in Nat : /\ m <= Len(T) /\ Len(T2) = Len(T) - m
                       /\ \A i \in 1..Len(T2) : T2[i] = T[i + m]
  BY DEF Shifted
<1>3. Len(A) \in Nat /\ Len(A2) \in Nat /\ Len(T) \in Nat /\ Len(T2) \in Nat
  BY LenProperties
<1>4. \A i \in 1..Len(A2) : i + n \in 1..Len(A) /\ A2[i] = A[i + n]
  BY <1>1, <1>3
<1>5. \A i \in 1..Len(T2) : i + m \in 1..Len(T) /\ T2[i] = T[i + m]
  BY <1>2, <1>3
<1>6. ASSUME Sorted(A, T) PROVE Sorted(A2, T2)
  <2>1. \A i, j \in 1..Len(A2) : i <= j => A2[i].req.corr <= A2[j].req.corr
    <3> SUFFICES ASSUME NEW i \in 1..Len(A2), NEW j \in 1..Len(A2), i <= j
                 PROVE  A2[i].req.corr <= A2[j].req.corr
      OBVIOUS
    <3>1. i + n \in 1..Len(A) /\ j + n \in 1..Len(A) /\ A2[i] = A[i + n] /\ A2[j] = A[j + n]
      BY <1>4
    <3>2. i + n <= j + n
      BY <1>3
    <3> QED BY <1>6, <3>1, <3>2 DEF Sorted
  <2>2. \A i, j \in 1..Len(T2) : i <= j => T2[i].corr <= T2[j].corr
    <3> SUFFICES ASSUME NEW i \in 1..Len(T2), NEW j \in 1..Len(T2), i <= j
                 PROVE  T2[i].corr <= T2[j].corr
      OBVIOUS
    <3>1. i + m \in 1..Len(T) /\ j + m \in 1..Len(T) /\ T2[i] = T[i + m] /\ T2[j] = T[j + m]
      BY <1>5
    <3>2. i + m <= j + m
      BY <1>3
    <3> QED BY <1>6, <3>1, <3>2 DEF Sorted
  <2>3. \A i \in 1..Len(A2), j \in 1..Len(T2) : A2[i].req.corr <= T2[j].corr
    BY <1>4, <1>5, <1>6 DEF Sorted
  <2> QED BY <2>1, <2>2, <2>3 DEF Sorted
<1>7. ASSUME NEW c \in Nat, LastOnly(A, T, c) PROVE LastOnly(A2, T2, c)
  <2>1. ASSUME NEW i \in 1..Len(A2), i < Len(A2) \/ Len(T2) > 0 PROVE A2[i].req.corr < c
    <3>1. i + n < Len(A) \/ Len(T) > 0
      BY <1>1, <1>2, <1>3, <2>1
    <3> QED BY <1>4, <1>7, <3>1 DEF LastOnly
  <2>2. ASSUME NEW i \in 1..Len(T2), i < Len(T2) PROVE T2[i].corr < c
    <3>1. i + m < Len(T)
      BY <1>2, <1>3, <2>2
    <3> QED BY <1>5, <1>7, <3>1 DEF LastOnly
  <2> QED BY <2>1, <2>2 DEF LastOnly
<1> QED BY <1>6, <1>7

\* A request whose corr is none below those on the line may be put at its end.
LEMMA LinePut ==
  ASSUME NEW A \in Seq(Answer), NEW T \in Seq(Requests), NEW r \in Requests, Sorted(A, T),
         \A a \in Elems(A) : a.req.corr <= r.corr, \A q \in Elems(T) : q.corr <= r.corr
  PROVE  Sorted(A, Append(T, r))
<1>1. /\ Len(Append(T, r)) = Len(T) + 1 /\ Len(T) \in Nat /\ Len(A) \in Nat
      /\ \A i \in 1..Len(T) : Append(T, r)[i] = T[i]
      /\ Append(T, r)[Len(T) + 1] = r
  BY AppendProperties, LenProperties
<1>2. \A i \in 1..(Len(T) + 1) : i \in 1..Len(T) \/ i = Len(T) + 1
  BY <1>1
<1>3. r.corr <= r.corr
  BY DEF Requests
<1>4. \A i \in 1..Len(T) : T[i].corr <= r.corr
  BY DEF Elems
<1>5. \A i \in 1..Len(A) : A[i].req.corr <= r.corr
  BY DEF Elems
<1>6. \A i, j \in 1..(Len(T) + 1) : i <= j => Append(T, r)[i].corr <= Append(T, r)[j].corr
  <2> SUFFICES ASSUME NEW i \in 1..(Len(T) + 1), NEW j \in 1..(Len(T) + 1), i <= j
               PROVE  Append(T, r)[i].corr <= Append(T, r)[j].corr
    OBVIOUS
  <2>1. CASE j = Len(T) + 1
    BY <1>1, <1>2, <1>3, <1>4, <2>1
  <2>2. CASE j \in 1..Len(T)
    <3>1. i \in 1..Len(T)
      BY <1>1, <2>2
    <3> QED BY <1>1, <2>2, <3>1 DEF Sorted
  <2> QED BY <1>2, <2>1, <2>2
<1>7. \A i \in 1..Len(A), j \in 1..(Len(T) + 1) : A[i].req.corr <= Append(T, r)[j].corr
  BY <1>1, <1>2, <1>5 DEF Sorted
<1> QED BY <1>1, <1>6, <1>7 DEF Sorted

\* Behind corrs that are all below c, a request put under c is the last.
LEMMA LinePutLast ==
  ASSUME NEW A \in Seq(Answer), NEW T \in Seq(Requests), NEW r \in Requests, NEW c \in Nat,
         \A a \in Elems(A) : a.req.corr < c, \A q \in Elems(T) : q.corr < c
  PROVE  LastOnly(A, T, c) /\ LastOnly(A, Append(T, r), c)
<1>1. /\ Len(Append(T, r)) = Len(T) + 1 /\ Len(T) \in Nat /\ Len(A) \in Nat
      /\ \A i \in 1..Len(T) : Append(T, r)[i] = T[i]
  BY AppendProperties, LenProperties
<1>2. /\ \A i \in 1..Len(A) : A[i].req.corr < c
      /\ \A i \in 1..Len(T) : T[i].corr < c
  BY DEF Elems
<1>3. \A i \in 1..(Len(T) + 1) : i < Len(T) + 1 => i \in 1..Len(T)
  BY <1>1
<1> QED BY <1>1, <1>2, <1>3 DEF LastOnly

\* The answer to the oldest request takes its place on the line.
LEMMA LineTaken ==
  ASSUME NEW A \in Seq(Answer), NEW T \in Seq(Requests), T # <<>>, NEW a \in Answer, a.req = Head(T)
  PROVE  /\ Sorted(A, T) => Sorted(Append(A, a), Tail(T))
         /\ \A c \in Nat : LastOnly(A, T, c) => LastOnly(Append(A, a), Tail(T), c)
<1>1. /\ Len(Append(A, a)) = Len(A) + 1 /\ Len(A) \in Nat
      /\ \A i \in 1..Len(A) : Append(A, a)[i] = A[i]
      /\ Append(A, a)[Len(A) + 1] = a
  BY AppendProperties, LenProperties
<1>2. Len(T) \in Nat \ {0} /\ a.req = T[1]
  BY HeadElem
<1>3. /\ Len(Tail(T)) = Len(T) - 1
      /\ \A i \in 1..Len(Tail(T)) : Tail(T)[i] = T[i + 1]
  BY HeadTailProperties
<1>4. \A i \in 1..(Len(A) + 1) : i \in 1..Len(A) \/ i = Len(A) + 1
  BY <1>1
<1>5. \A i \in 1..(Len(T) - 1) : i + 1 \in 1..Len(T)
  BY <1>2
<1>6. 1 \in 1..Len(T) /\ T[1] \in Requests
  BY <1>2, ElementOfSeq
<1>7. T[1].corr <= T[1].corr
  BY <1>6 DEF Requests
<1>8. ASSUME Sorted(A, T) PROVE Sorted(Append(A, a), Tail(T))
  <2>1. ASSUME NEW i \in 1..(Len(A) + 1), NEW j \in 1..(Len(A) + 1), i <= j
        PROVE  Append(A, a)[i].req.corr <= Append(A, a)[j].req.corr
    <3>1. CASE j = Len(A) + 1
      BY <1>1, <1>2, <1>4, <1>6, <1>7, <1>8, <3>1 DEF Sorted
    <3>2. CASE j \in 1..Len(A)
      <4>1. i \in 1..Len(A)
        BY <1>1, <2>1, <3>2
      <4> QED BY <1>1, <1>8, <2>1, <3>2, <4>1 DEF Sorted
    <3> QED BY <1>4, <3>1, <3>2
  <2>2. \A i, j \in 1..(Len(T) - 1) : i <= j => Tail(T)[i].corr <= Tail(T)[j].corr
    BY <1>2, <1>3, <1>5, <1>8 DEF Sorted
  <2>3. \A i \in 1..(Len(A) + 1), j \in 1..(Len(T) - 1) : Append(A, a)[i].req.corr <= Tail(T)[j].corr
    <3>1. \A j \in 1..(Len(T) - 1) : T[1].corr <= Tail(T)[j].corr
      BY <1>2, <1>3, <1>5, <1>6, <1>8 DEF Sorted
    <3> QED BY <1>1, <1>2, <1>3, <1>4, <1>5, <1>8, <3>1 DEF Sorted
  <2> QED BY <1>1, <1>3, <2>1, <2>2, <2>3 DEF Sorted
<1>9. ASSUME NEW c \in Nat, LastOnly(A, T, c) PROVE LastOnly(Append(A, a), Tail(T), c)
  <2>1. \A i \in 1..Len(A) : A[i].req.corr < c
    BY <1>2, <1>9 DEF LastOnly
  <2>2. Len(T) - 1 > 0 => T[1].corr < c
    BY <1>2, <1>6, <1>9 DEF LastOnly
  <2>3. \A i \in 1..(Len(T) - 1) : i < Len(T) - 1 => Tail(T)[i].corr < c
    BY <1>2, <1>3, <1>5, <1>9 DEF LastOnly
  <2> QED BY <1>1, <1>2, <1>3, <1>4, <2>1, <2>2, <2>3 DEF LastOnly
<1> QED BY <1>8, <1>9

\* When the answer under c is the next to be read and all but the last of the line have corrs
\* below c, it is all there is on the line.
LEMMA LastAlone ==
  ASSUME NEW A \in Seq(Answer), NEW T \in Seq(Requests), NEW c \in Nat, LastOnly(A, T, c),
         A # <<>>, Head(A).req.corr = c
  PROVE  T = <<>> /\ Tail(A) = <<>>
<1>0. Len(A) \in Nat \ {0} /\ Len(T) \in Nat
  BY HeadElem, LenProperties
<1>1. A[1].req.corr = c
  BY HeadElem
<1>2. Len(A) = 1 /\ Len(T) = 0
  <2>1. 1 \in 1..Len(A)
    BY <1>0
  <2>2. ~(A[1].req.corr < c)
    BY <1>1
  <2>3. ~(1 < Len(A) \/ Len(T) > 0)
    BY <2>1, <2>2 DEF LastOnly
  <2>4. \A n \in Nat \ {0} : ~(1 < n) => n = 1
    OBVIOUS
  <2>5. \A n \in Nat : ~(n > 0) => n = 0
    OBVIOUS
  <2> QED BY <1>0, <2>3, <2>4, <2>5
<1>3. Len(Tail(A)) = 0 /\ Tail(A) \in Seq(Answer)
  BY <1>2, HeadTailProperties
<1> QED BY <1>2, <1>3, EmptySeq

\* The oldest request has the smallest corr of those on their way, and none of them is behind
\* the answers.
LEMMA HeadIsOldest ==
  ASSUME NEW A \in Seq(Answer), NEW T \in Seq(Requests), Sorted(A, T)
  PROVE  /\ T # <<>> => \A q \in Elems(T) : Head(T).corr <= q.corr
         /\ \A a \in Elems(A), q \in Elems(T) : a.req.corr <= q.corr
<1>1. ASSUME T # <<>>, NEW q \in Elems(T) PROVE Head(T).corr <= q.corr
  <2>1. Len(T) \in Nat \ {0} /\ Head(T) = T[1]
    BY <1>1, HeadElem
  <2> QED BY <1>1, <2>1 DEF Elems, Sorted
<1> QED BY <1>1 DEF Elems, Sorted

-------------------------------------------------------------------------------
(* What the probe does with a request, as far as hosts can tell.            *)

\* A record of the request r and its answer a, each dropped when it was too large.
Recorded(e, r, a) == e.corr = r.corr /\ e.req \in {Dropped, r} /\ e.ans \in {Dropped, a}

\* The answer a to r goes out at t; the table learns nothing else and newest follows the requests
\* of the session that holds the lock; only an open takes the lock, and numbers grow one at a
\* time.  A write that succeeds, or a connection that is made, is processed now or was before.
Effect(t, r, a) ==
  /\ a \in Answer /\ a.req = r /\ Send(t, a)
  /\ \A e \in resend' : e \in resend \/ Recorded(e, r, a)
  /\ newest' = newest \/ (newest' = r.corr /\ r.sid = last')
  /\ holder' \in {holder, NoSid} \/ (r.op \in OpenOps /\ holder' = r.sid)
  /\ nextRes' = nextRes \/ (nextRes' = nextRes + 1 /\ nextRes <= ResMax)
  /\ (a.res = "ok" /\ r.op = "write") => Reaches(t, r, "write") \/ \E e \in resend : e.ans = a
  /\ (a.res = "ok" /\ r.op = "connect") =>
       (nextRes' = nextRes + 1 /\ a.val = nextRes) \/ \E e \in resend : e.ans = a

\* The answer that is given again is the one in the table, or says that there is none.
LEMMA ResentEffect ==
  ASSUME TypeOK, RecordsAreOwn, NEW r \in Requests
  PROVE  /\ ResentAnswer(r).req = r
         /\ ResentAnswer(r).res = "ok" => \E e \in resend : e.ans = ResentAnswer(r)
<1>1. CASE Known(r.corr) = {}
  BY <1>1 DEF ResentAnswer, Ans
<1>2. CASE Known(r.corr) # {}
  <2> DEFINE e == CHOOSE k \in Known(r.corr) : TRUE
  <2>1. e \in resend
    BY <1>2 DEF Known
  <2>2. CASE e.req = Dropped \/ e.req # r \/ e.ans = Dropped
    BY <1>2, <2>2 DEF ResentAnswer, Ans
  <2>3. CASE ~(e.req = Dropped \/ e.req # r \/ e.ans = Dropped)
    <3>1. ResentAnswer(r) = e.ans
      BY <1>2, <2>3 DEF ResentAnswer
    <3>2. e.ans.req = r
      BY <2>1, <2>3 DEF RecordsAreOwn
    <3> QED BY <2>1, <3>1, <3>2
  <2> QED BY <2>2, <2>3
<1> QED BY <1>1, <1>2

\* Settling a request: what it does to the table and to newest.
LEMMA SettleEffect ==
  ASSUME NEW t \in Route, NEW r \in Requests, NEW a \in Answer, Settle(t, r, a)
  PROVE  /\ Send(t, a)
         /\ \A e \in resend' : e \in resend \/ Recorded(e, r, a)
         /\ newest' = newest \/ (newest' = r.corr /\ r.sid = last')
         /\ (r.sid # NoSid /\ r.sid = last') => newest' = r.corr
<1>1. CASE r.sid # NoSid /\ r.sid = last'
  <2>1. newest' = r.corr /\ Send(t, a) /\ resend' = Kept(IF NewLock THEN {} ELSE resend, r, a)
    BY <1>1 DEF Settle
  <2>2. ASSUME NEW e \in resend' PROVE e \in resend \/ Recorded(e, r, a)
    <3>1. \/ e = [corr |-> r.corr,
                  req |-> IF r.arg \in LargeArg THEN Dropped ELSE r,
                  ans |-> IF a.val \in LargeVal THEN Dropped ELSE a]
          \/ e \in (IF NewLock THEN {} ELSE resend)
      BY <2>1, <2>2, KeptSubset
    <3> QED BY <3>1 DEF Recorded
  <2> QED BY <1>1, <2>1, <2>2
<1>2. CASE ~(r.sid # NoSid /\ r.sid = last')
  BY <1>2 DEF Settle
<1> QED BY <1>1, <1>2

\* Every request the probe handles has an Effect.
LEMMA HandleEffect ==
  ASSUME TypeOK, RecordsAreOwn, NEW t \in Route, NEW r \in Requests, Handle(t, r)
  PROVE  \E a \in Answer : Effect(t, r, a)
<1>0. r.arg \in Nat /\ nextRes \in Nat /\ boot \in Nat /\ value \in Nat
  BY ProbeAssumption DEF Requests, TypeOK
<1>1. CASE HandleHeaderFault(t, r)
  <2> DEFINE a == Ans(r, HeaderFault(r), 0)
  <2>1. HeaderFault(r) \in Res /\ HeaderFault(r) # "ok"
    BY <1>1 DEF HandleHeaderFault, HeaderFault, Res
  <2>2. a \in Answer /\ a.req = r /\ a.res # "ok" /\ Send(t, a)
    BY <1>1, <2>1, AnsType DEF HandleHeaderFault, Ans
  <2> QED BY <1>1, <2>2 DEF Effect, HandleHeaderFault, session, table
<1>2. CASE HandleResent(t, r)
  <2>1. ResentAnswer(r) \in Answer /\ Send(t, ResentAnswer(r))
    BY <1>2, ResentAnswerType DEF HandleResent
  <2> QED BY <1>2, <2>1, ResentEffect DEF Effect, HandleResent, session, table
<1>3. ASSUME NEW res \in Res, NEW val \in Nat, Settle(t, r, Ans(r, res, val)),
             holder' \in {holder, NoSid} \/ (r.op \in OpenOps /\ holder' = r.sid),
             nextRes' = nextRes \/ (nextRes' = nextRes + 1 /\ nextRes <= ResMax),
             res = "ok" /\ r.op = "write" => Reaches(t, r, "write"),
             res = "ok" /\ r.op = "connect" => nextRes' = nextRes + 1 /\ val = nextRes
      PROVE  \E a \in Answer : Effect(t, r, a)
  <2> DEFINE a == Ans(r, res, val)
  <2>1. a \in Answer /\ a.req = r /\ a.res = res /\ a.val = val
    BY AnsType DEF Ans
  <2>2. Settle(t, r, a)
    BY <1>3
  <2> HIDE DEF a
  <2>3. /\ Send(t, a)
        /\ \A e \in resend' : e \in resend \/ Recorded(e, r, a)
        /\ newest' = newest \/ (newest' = r.corr /\ r.sid = last')
    BY <2>1, <2>2, SettleEffect
  <2> QED BY <1>3, <2>1, <2>3 DEF Effect
<1>4. CASE OpenRefused(t, r)
  <2>1. OpenFault(r) \in Res /\ Settle(t, r, Ans(r, OpenFault(r), 0)) /\ r.op \in OpenOps
    BY <1>4 DEF OpenRefused, OpenFault, Res
  <2>2. UNCHANGED <<holder, nextRes>> /\ r.op \notin {"write", "connect"}
    BY <1>4, <2>1 DEF OpenRefused, OpenOps
  <2> QED BY <1>0, <1>3, <2>1, <2>2
<1>5. CASE OpenTaken(t, r)
  <2>1. "ok" \in Res /\ Settle(t, r, Ans(r, "ok", boot)) /\ r.op \in OpenOps
    BY <1>5 DEF OpenTaken, Res
  <2>2. holder' = r.sid /\ nextRes' = nextRes /\ r.op \notin {"write", "connect"}
    BY <1>5, <2>1 DEF OpenTaken, OpenOps
  <2> QED BY <1>0, <1>3, <2>1, <2>2
<1>6. CASE NotAdmitted(t, r)
  <2> DEFINE res == IF holder = NoSid THEN "no_session" ELSE "locked"
  <2>1. res \in Res /\ res # "ok" /\ Settle(t, r, Ans(r, res, 0)) /\ UNCHANGED <<holder, nextRes>>
    BY <1>6 DEF NotAdmitted, Res
  <2> QED BY <1>3, <2>1
<1>7. CASE Confirm(t, r) \/ LockState(t, r) \/ Keepalive(t, r) \/ Read(t, r) \/ Bad(t, r)
  <2>1. /\ UNCHANGED <<holder, nextRes>> /\ r.op \notin {"write", "connect"}
        /\ \E res \in Res, val \in Nat : Settle(t, r, Ans(r, res, val))
    BY <1>0, <1>7 DEF Res, Confirm, LockState, Keepalive, Read, Bad, Answered, Reaches
  <2> QED BY <1>3, <2>1
<1>8. CASE Write(t, r)
  <2>1. Settle(t, r, Ans(r, "ok", 0)) /\ UNCHANGED <<holder, nextRes>> /\ Reaches(t, r, "write")
    BY <1>8 DEF Write
  <2>2. "ok" \in Res /\ 0 \in Nat /\ r.op = "write"
    BY <2>1 DEF Res, Reaches
  <2> QED BY <1>3, <2>1, <2>2
<1>9. CASE End(t, r) \/ Restart(t, r)
  <2>1. /\ Settle(t, r, Ans(r, "ok", 0)) /\ holder' \in {holder, NoSid} /\ UNCHANGED nextRes
        /\ r.op \in {"end", "restart"}
    BY <1>9 DEF End, Restart, Reaches
  <2>2. "ok" \in Res /\ 0 \in Nat
    BY DEF Res
  <2> QED BY <1>3, <2>1, <2>2
<1>10. CASE Attach(t, r)
  <2>1. UNCHANGED holder /\ r.op = "connect"
    BY <1>10 DEF Attach, Reaches
  <2>2. CASE \E res \in {"unavailable", "failed"} : Settle(t, r, Ans(r, res, 0)) /\ UNCHANGED nextRes
    BY <1>3, <2>1, <2>2 DEF Res
  <2>3. CASE NewNumber(nextRes) /\ Settle(t, r, Ans(r, "ok", nextRes))
    <3>1. nextRes' = nextRes + 1 /\ nextRes <= ResMax /\ "ok" \in Res
      BY <2>3 DEF NewNumber, Res
    <3> QED BY <1>0, <1>3, <2>1, <2>3, <3>1
  <2> QED BY <1>10, <2>2, <2>3 DEF Attach
<1>11. CASE Detach(t, r) \/ StreamClose(t, r)
  <2>1. /\ UNCHANGED <<holder, nextRes>> /\ r.op \in {"detach", "close"}
        /\ \E res \in Res, val \in Nat : Settle(t, r, Ans(r, res, val))
    BY <1>11 DEF Detach, StreamClose, NumberFault, Reaches, Res
  <2> QED BY <1>3, <2>1
<1>12. CASE StreamOpen(t, r)
  <2>1. /\ UNCHANGED holder /\ r.op = "stream"
        /\ nextRes' = nextRes \/ (nextRes' = nextRes + 1 /\ nextRes <= ResMax)
        /\ \E res \in Res, val \in Nat : Settle(t, r, Ans(r, res, val))
    BY <1>0, <1>12 DEF StreamOpen, StreamFault, NumberFault, NewNumber, Reaches, Res
  <2> QED BY <1>3, <2>1
<1>13. CASE PlanApply(t, r) \/ PlanRelease(t, r) \/ Subscribe(t, r) \/ Unsubscribe(t, r)
  <2>1. /\ UNCHANGED <<holder, nextRes>> /\ r.op \in {"apply", "release", "subscribe", "unsubscribe"}
        /\ \E res \in Res, val \in Nat : Settle(t, r, Ans(r, res, val))
    BY <1>13 DEF PlanApply, PlanRelease, Subscribe, Unsubscribe, Reaches, Res
  <2> QED BY <1>3, <2>1
<1> QED BY <1>1, <1>2, <1>4, <1>5, <1>6, <1>7, <1>8, <1>9, <1>10, <1>11, <1>12, <1>13 DEF Handle

\* The table stays a table of requests with their own answers.
LEMMA EffectRecords ==
  ASSUME RecordsAreOwn, NEW t \in Route, NEW r \in Requests, NEW a \in Answer, Effect(t, r, a)
  PROVE  RecordsAreOwn'
<1>1. ASSUME NEW e \in resend', e.req # Dropped
      PROVE  e.req.corr = e.corr /\ (e.ans # Dropped => e.ans.req = e.req)
  <2>1. CASE e \in resend
    BY <1>1, <2>1 DEF RecordsAreOwn
  <2>2. CASE Recorded(e, r, a)
    BY <1>1, <2>2 DEF Recorded, Effect
  <2> QED BY <2>1, <2>2 DEF Effect
<1> QED BY <1>1 DEF RecordsAreOwn

\* A write that reaches its operation is the holder's, is the newest of its session now, and was
\* not the newest before.
LEMMA WriteReached ==
  ASSUME TypeOK, LockInv, NEW t \in Route, NEW r \in Requests, Handle(t, r), Reaches(t, r, "write")
  PROVE  /\ r.sid = holder /\ holder # NoSid /\ holder' = holder
         /\ newest' = r.corr /\ newest # r.corr
<1>1. r.op = "write" /\ Fresh(t, r) /\ Admitted(r)
  BY DEF Reaches
<1>2. r.sid = holder /\ holder # NoSid
  BY HolderOnly DEF Op, LockFree, OpenOps
<1>3. Write(t, r)
  BY <1>1 DEF Handle, HandleHeaderFault, HandleResent, Fresh, OpenRefused, OpenTaken, NotAdmitted,
     OpenOps, Confirm, LockState, Keepalive, Read, Bad, End, Restart, Attach, Detach, StreamOpen,
     StreamClose, PlanApply, PlanRelease, Subscribe, Unsubscribe, Reaches
<1>4. holder' = holder /\ last' = last /\ Settle(t, r, Ans(r, "ok", 0))
  BY <1>3 DEF Write
<1>5. Ans(r, "ok", 0) \in Answer
  BY AnsType DEF Res
<1>6. newest' = r.corr
  BY <1>2, <1>4, <1>5, SettleEffect DEF LockInv
<1>7. newest # r.corr
  <2>1. r.corr # 0 /\ ~Resent(r) /\ r.sid = last /\ r.sid # NoSid
    BY <1>1, <1>2 DEF Fresh, HeaderFault, LockInv
  <2>2. newest = 0 \/ Ahead(r.corr, newest)
    BY <2>1 DEF Resent
  <2>3. r.corr \in 0..CorrMax
    BY DEF Requests
  <2>4. ~Ahead(r.corr, r.corr)
    BY <2>3, CorrAssumption DEF Ahead, Diff
  <2> QED BY <2>1, <2>2, <2>4
<1> QED BY <1>2, <1>4, <1>6, <1>7

-------------------------------------------------------------------------------
(* The invariants.                                                          *)

Connection == [num: Nat, epoch: Nat, made: Requests]
Outcomes == {"none", "pending", "ok", "refused", "unknown", "not_sent"}

HostTypeOK ==
  /\ phase \in [Route -> {"idle", "wait", "confirm", "dead"}]
  /\ req \in [Route -> Requests] /\ toProbe \in [Route -> Seq(Requests)]
  /\ waited \in [Route -> Nat] /\ broken \in [Route -> Nat] /\ failed \in [Route -> BOOLEAN]
  /\ corr \in [Route -> 0..CorrMax] /\ sought \in [Route -> 0..CorrMax] /\ tries \in [Route -> Nat]
  /\ ses \in [Route -> Sid \cup {NoSid}] /\ usedSids \subseteq Sid
  /\ epoch \in [Route -> Nat] /\ seen \in [Route -> Nat]
  /\ handles \in [Route -> SUBSET Connection]
  /\ maker \in [1..ResMax -> Requests]
  /\ runs \in [Writes -> Nat] /\ outcome \in [Writes -> Outcomes]

Heard(h) == Elems(answers[h])
Queued(h) == Elems(toProbe[h])
OnTheWay(h) == {a.req : a \in Heard(h)} \cup Queued(h)
Reqs(h) == OnTheWay(h) \cup {req[h]}
Calling(h) == phase[h] \in {"wait", "confirm"}

\* The line of h and the request its host has in hand.
PipeInv(h) ==
  /\ Sorted(answers[h], toProbe[h])
  /\ \A r \in OnTheWay(h) : 1 <= r.corr /\ r.corr <= corr[h]
  /\ req[h].corr <= corr[h]
  /\ Calling(h) => 1 <= req[h].corr
  /\ phase[h] = "idle" => req[h] = NoRequest
  /\ phase[h] \in {"idle", "wait"} => tries[h] = 0
  /\ \A r, q \in Reqs(h) : r.corr = q.corr => r = q
  /\ phase[h] = "wait" => \A r \in OnTheWay(h) : r.corr <= req[h].corr
  /\ phase[h] = "confirm" => \A r \in OnTheWay(h) : r.corr # req[h].corr
  /\ (phase[h] = "confirm" /\ tries[h] > 0) =>
       sought[h] = corr[h] /\ LastOnly(answers[h], toProbe[h], corr[h])

HostPipes == \A h \in Route : PipeInv(h)

SidsOf(h) == ({r.sid : r \in Reqs(h)} \cup {ses[h]}) \ {NoSid}
WritesOf(h) == {r \in Reqs(h) : r.op = "write"}

\* A session and a write belong to one host; a session's open comes before its connections.
SidsOwned ==
  /\ \A h \in Route : SidsOf(h) \subseteq usedSids
  /\ \A g, h \in Route : g # h => SidsOf(g) \cap SidsOf(h) = {}

WritesNamed ==
  /\ \A h \in Route : \A r \in WritesOf(h) : r.arg \in Writes /\ outcome[r.arg] # "none"
  /\ \A g, h \in Route : \A r \in WritesOf(g), q \in WritesOf(h) : r.arg = q.arg => g = h /\ r = q
  /\ \A h \in Route : (Calling(h) /\ req[h].op = "write") => outcome[req[h].arg] = "pending"

OpensFirst ==
  \A h \in Route :
    /\ \A r, q \in Reqs(h) : (r.op \in OpenOps /\ q.op = "connect" /\ r.sid = q.sid) => r.corr < q.corr
    /\ (Calling(h) /\ req[h].op = "connect") => req[h].sid = ses[h] /\ ses[h] # NoSid

NameInv == SidsOwned /\ WritesNamed /\ OpensFirst

Live(h) == Queued(h) \cup {r \in {req[h]} : phase[h] = "wait"}

\* A write that may be handled again is still the newest of its session.
RanStaysNewest ==
  \A h \in Route : \A r \in Live(h) : (r.op = "write" /\ runs[r.arg] > 0) =>
    /\ \A q \in Queued(h) : r.corr <= q.corr
    /\ (holder # NoSid /\ holder = r.sid) => newest = r.corr

\* A request of the table or of an answer that says "ok" is a write that ran.
AnswersRan ==
  /\ \A h \in Route : \A a \in Heard(h) : (a.res = "ok" /\ a.req.op = "write") => runs[a.req.arg] > 0
  /\ \A e \in resend : (e.ans # Dropped /\ e.ans.res = "ok" /\ e.ans.req.op = "write")
       => e.ans.req.arg \in Writes /\ runs[e.ans.req.arg] > 0

OutcomesTrue ==
  /\ \A w \in Writes : runs[w] > 0 => outcome[w] \notin {"none", "not_sent"}
  /\ \A w \in Writes : outcome[w] = "ok" => runs[w] > 0
  /\ \A h \in Route : (phase[h] = "confirm" /\ req[h].op = "write") => runs[req[h].arg] = 0
  /\ \A h \in Route : \A r \in Queued(h) : r.op = "write" => outcome[r.arg] # "not_sent"

RunInv == WriteRunsOnce /\ RanStaysNewest /\ AnswersRan /\ OutcomesTrue

\* The number n is the connection that was made for r.
Named(n, r) == n \in 1..ResMax /\ maker[n] = r

\* Numbers are given out upwards, and an "ok" to a connect names the connection made for it.
NumbersMade ==
  /\ nextRes >= 1
  /\ \A n \in 1..ResMax : maker[n] # NoRequest => n < nextRes
  /\ \A e \in resend : (e.ans # Dropped /\ e.ans.res = "ok" /\ e.ans.req.op = "connect")
       => Named(e.ans.val, e.ans.req)
  /\ \A h \in Route : \A a \in Heard(h) :
       (a.res = "ok" /\ a.req.op = "connect" /\ holder # NoSid /\ holder = a.req.sid) => Named(a.val, a.req)

\* A connection the host believes in is of its session, behind which no open of that session is
\* left, and names its own number while that session has the lock.
Believed(h, c) ==
  /\ c.made.sid = ses[h] /\ ses[h] # NoSid
  /\ \A r \in Queued(h) \cup {req[h]} : r.op \in OpenOps => r.sid # ses[h]
  /\ holder = ses[h] => Named(c.num, c.made)

HandlesKnown ==
  \A h \in Route : \A c \in handles[h] :
    /\ c.epoch <= epoch[h] /\ c.made.op = "connect"
    /\ c.epoch = epoch[h] => Believed(h, c)

HandleInv == NumbersMade /\ HandlesKnown

ProbeInv == TypeOK /\ LockInv /\ RecordsAreOwn
HostLinkInv == ProbeInv /\ HostTypeOK /\ HostPipes /\ NameInv /\ RunInv /\ HandleInv

-------------------------------------------------------------------------------
(* What a step does to the line of a host.                                  *)

\* The line only loses answers and requests.
Shrinks(h) ==
  /\ answers'[h] \in Seq(Answer) /\ toProbe'[h] \in Seq(Requests)
  /\ Shifted(answers'[h], answers[h]) /\ Shifted(toProbe'[h], toProbe[h])

\* The line loses answers and r is put at its end, or lost.
Puts(h, r) ==
  /\ answers'[h] \in Seq(Answer) /\ Shifted(answers'[h], answers[h])
  /\ toProbe'[h] \in {toProbe[h], Append(toProbe[h], r)}

\* The oldest request is answered by a.
Takes(h, a) ==
  /\ toProbe[h] # <<>> /\ a \in Answer /\ a.req = Head(toProbe[h])
  /\ answers'[h] = Append(answers[h], a) /\ toProbe'[h] = Tail(toProbe[h])

\* What is on the way is an answer or a request.
LEMMA OnTheWayType ==
  ASSUME TypeOK, HostTypeOK, NEW h \in Route
  PROVE  Heard(h) \subseteq Answer /\ Queued(h) \subseteq Requests /\ OnTheWay(h) \subseteq Requests
<1>1. answers[h] \in Seq(Answer) /\ toProbe[h] \in Seq(Requests)
  BY DEF TypeOK, HostTypeOK
<1>2. Heard(h) \subseteq Answer /\ Queued(h) \subseteq Requests
  BY <1>1, ElemsType DEF Heard, Queued
<1>3. \A a \in Answer : a.req \in Requests
  BY DEF Answer
<1> QED BY <1>2, <1>3 DEF OnTheWay

\* The line that shrinks keeps its order and has nothing new.
LEMMA ShrunkLine ==
  ASSUME TypeOK, HostTypeOK, NEW h \in Route, Shrinks(h)
  PROVE  /\ Heard(h)' \subseteq Heard(h) /\ Queued(h)' \subseteq Queued(h)
         /\ OnTheWay(h)' \subseteq OnTheWay(h)
         /\ Sorted(answers[h], toProbe[h]) => Sorted(answers[h], toProbe[h])'
         /\ \A c \in Nat : LastOnly(answers[h], toProbe[h], c) => LastOnly(answers'[h], toProbe'[h], c)
<1>1. answers[h] \in Seq(Answer) /\ toProbe[h] \in Seq(Requests)
  BY DEF TypeOK, HostTypeOK
<1>2. Heard(h)' \subseteq Heard(h) /\ Queued(h)' \subseteq Queued(h)
  BY <1>1, ShiftedElems DEF Shrinks, Heard, Queued
<1>3. OnTheWay(h)' \subseteq OnTheWay(h)
  BY <1>2 DEF OnTheWay
<1>4. /\ Sorted(answers[h], toProbe[h]) => Sorted(answers'[h], toProbe'[h])
      /\ \A c \in Nat : LastOnly(answers[h], toProbe[h], c) => LastOnly(answers'[h], toProbe'[h], c)
  BY <1>1, LineShrinks DEF Shrinks
<1>5. Sorted(answers[h], toProbe[h])' <=> Sorted(answers'[h], toProbe'[h])
  BY DEF Sorted
<1> QED BY <1>2, <1>3, <1>4, <1>5

\* The line a request is put on has nothing else that is new, and keeps its order when the
\* request's corr is below none of those before it.
LEMMA PutLine ==
  ASSUME TypeOK, HostTypeOK, NEW h \in Route, NEW r \in Requests, Puts(h, r)
  PROVE  /\ toProbe'[h] \in Seq(Requests)
         /\ Heard(h)' \subseteq Heard(h) /\ Queued(h)' \subseteq Queued(h) \cup {r}
         /\ OnTheWay(h)' \subseteq OnTheWay(h) \cup {r}
         /\ (Sorted(answers[h], toProbe[h]) /\ \A q \in OnTheWay(h) : q.corr <= r.corr)
              => Sorted(answers[h], toProbe[h])'
         /\ \A c \in Nat : (\A q \in OnTheWay(h) : q.corr < c) => LastOnly(answers'[h], toProbe'[h], c)
<1>1. answers[h] \in Seq(Answer) /\ toProbe[h] \in Seq(Requests)
  BY DEF TypeOK, HostTypeOK
<1>2. toProbe'[h] \in Seq(Requests) /\ answers'[h] \in Seq(Answer)
  <2>1. Append(toProbe[h], r) \in Seq(Requests)
    BY <1>1, AppendProperties
  <2> QED BY <1>1, <2>1 DEF Puts
<1>3. Heard(h)' \subseteq Heard(h)
  BY <1>1, <1>2, ShiftedElems DEF Puts, Heard
<1>4. Queued(h)' \subseteq Queued(h) \cup {r}
  BY <1>1, AppendElems DEF Puts, Queued
<1>5. OnTheWay(h)' \subseteq OnTheWay(h) \cup {r}
  BY <1>3, <1>4 DEF OnTheWay
<1>6. ASSUME Sorted(answers[h], toProbe[h]), \A q \in OnTheWay(h) : q.corr <= r.corr
      PROVE  Sorted(answers'[h], toProbe'[h])
  <2>1. Sorted(answers'[h], toProbe[h])
    BY <1>1, <1>2, <1>6, LineShrinks, SameShifted DEF Puts
  <2>2. \A a \in Elems(answers'[h]) : a.req.corr <= r.corr
    BY <1>3, <1>6 DEF Heard, OnTheWay
  <2>3. \A q \in Elems(toProbe[h]) : q.corr <= r.corr
    BY <1>6 DEF OnTheWay, Queued
  <2>4. Sorted(answers'[h], Append(toProbe[h], r))
    BY <1>1, <1>2, <2>1, <2>2, <2>3, LinePut
  <2> QED BY <2>1, <2>4 DEF Puts
<1>7. ASSUME NEW c \in Nat, \A q \in OnTheWay(h) : q.corr < c
      PROVE  LastOnly(answers'[h], toProbe'[h], c)
  <2>1. \A a \in Elems(answers'[h]) : a.req.corr < c
    BY <1>3, <1>7 DEF Heard, OnTheWay
  <2>2. \A q \in Elems(toProbe[h]) : q.corr < c
    BY <1>7 DEF OnTheWay, Queued
  <2>3. LastOnly(answers'[h], toProbe[h], c) /\ LastOnly(answers'[h], Append(toProbe[h], r), c)
    BY <1>1, <1>2, <2>1, <2>2, LinePutLast
  <2> QED BY <2>3 DEF Puts
<1>8. Sorted(answers[h], toProbe[h])' <=> Sorted(answers'[h], toProbe'[h])
  BY DEF Sorted
<1> QED BY <1>2, <1>3, <1>4, <1>5, <1>6, <1>7, <1>8

\* The line whose oldest request is answered has the same requests on it, in the same order.
LEMMA TakenLine ==
  ASSUME TypeOK, HostTypeOK, NEW h \in Route, NEW a, Takes(h, a)
  PROVE  /\ answers'[h] \in Seq(Answer) /\ toProbe'[h] \in Seq(Requests)
         /\ Head(toProbe[h]) \in Queued(h) /\ Head(toProbe[h]) \in Requests
         /\ Heard(h)' = Heard(h) \cup {a} /\ Queued(h)' \subseteq Queued(h)
         /\ OnTheWay(h)' \subseteq OnTheWay(h)
         /\ Sorted(answers[h], toProbe[h]) => Sorted(answers[h], toProbe[h])'
         /\ \A c \in Nat : LastOnly(answers[h], toProbe[h], c) => LastOnly(answers'[h], toProbe'[h], c)
<1>1. /\ answers[h] \in Seq(Answer) /\ toProbe[h] \in Seq(Requests)
      /\ toProbe[h] # <<>> /\ a \in Answer /\ a.req = Head(toProbe[h])
      /\ answers'[h] = Append(answers[h], a) /\ toProbe'[h] = Tail(toProbe[h])
  BY DEF TypeOK, HostTypeOK, Takes
<1>2. answers'[h] \in Seq(Answer) /\ toProbe'[h] \in Seq(Requests)
  BY <1>1, AppendProperties, HeadTailProperties
<1>3. Head(toProbe[h]) \in Queued(h) /\ Head(toProbe[h]) \in Requests
  BY <1>1, HeadElem DEF Queued
<1>4. Elems(Append(answers[h], a)) = Elems(answers[h]) \cup {a}
  BY <1>1, AppendElems
<1>5. Shifted(Tail(toProbe[h]), toProbe[h])
  BY <1>1, TailShifted
<1>6. Heard(h)' = Heard(h) \cup {a}
  BY <1>1, <1>4 DEF Heard
<1>7. Queued(h)' \subseteq Queued(h)
  BY <1>1, <1>2, <1>5, ShiftedElems DEF Queued
<1>8. OnTheWay(h)' \subseteq OnTheWay(h)
  BY <1>1, <1>3, <1>6, <1>7 DEF OnTheWay
<1>9. /\ Sorted(answers[h], toProbe[h]) => Sorted(answers'[h], toProbe'[h])
      /\ \A c \in Nat : LastOnly(answers[h], toProbe[h], c) => LastOnly(answers'[h], toProbe'[h], c)
  BY <1>1, LineTaken
<1>10. Sorted(answers[h], toProbe[h])' <=> Sorted(answers'[h], toProbe'[h])
  BY DEF Sorted
<1> QED BY <1>2, <1>3, <1>6, <1>7, <1>8, <1>9, <1>10

-------------------------------------------------------------------------------
(* Steps of a host that leave the probe alone.                              *)

probeVars == <<session, table, owned, nextRes, world, history, given>>

\* One answer is read, or none, or some are dropped: the rest of the probe's state stays.
Reads(h) ==
  /\ UNCHANGED probeVars
  /\ answers'[h] \in Seq(Answer) /\ Shifted(answers'[h], answers[h])
  /\ answers' \in [Route -> Seq(Answer)]
  /\ \A g \in Route \ {h} : answers'[g] = answers[g]

\* Such a step keeps the invariants of the probe.
LEMMA ReadsProbe ==
  ASSUME ProbeInv, NEW h \in Route, Reads(h)
  PROVE  ProbeInv'
<1>1. UNCHANGED <<session, table, owned, nextRes, world, history, given>>
  BY DEF Reads, probeVars
<1>2. TypeOK'
  BY <1>1 DEF Reads, ProbeInv, TypeOK, session, table, owned, world, history
<1>3. LockInv' /\ RecordsAreOwn'
  BY <1>1 DEF ProbeInv, LockInv, RecordsAreOwn, session, table
<1> QED BY <1>2, <1>3 DEF ProbeInv

\* A step of another kind does not touch the answers.
LEMMA ReadsNothing ==
  ASSUME TypeOK, NEW h \in Route, UNCHANGED vars
  PROVE  Reads(h)
<1>1. UNCHANGED <<probeVars, answers>>
  BY DEF vars, probeVars
<1>2. answers[h] \in Seq(Answer)
  BY DEF TypeOK
<1> QED BY <1>1, <1>2, SameShifted DEF Reads, TypeOK

\* Reading the head of what arrives.
LEMMA ReadsHead ==
  ASSUME TypeOK, NEW h \in Route, ReadAnswer(h)
  PROVE  /\ Reads(h) /\ answers[h] # <<>> /\ answers'[h] = Tail(answers[h])
         /\ Head(answers[h]) \in Heard(h) /\ Head(answers[h]) \in Answer
<1>1. /\ answers[h] \in Seq(Answer) /\ answers[h] # <<>>
      /\ answers' = [answers EXCEPT ![h] = Tail(@)] /\ UNCHANGED probeVars
  BY DEF TypeOK, ReadAnswer, probeVars
<1>2. Tail(answers[h]) \in Seq(Answer) /\ Shifted(Tail(answers[h]), answers[h])
  BY <1>1, HeadTailProperties, TailShifted
<1>3. answers'[h] = Tail(answers[h])
  BY <1>1 DEF TypeOK
<1>4. Head(answers[h]) \in Heard(h) /\ Head(answers[h]) \in Answer
  BY <1>1, HeadElem DEF Heard
<1> QED BY <1>1, <1>2, <1>3, <1>4 DEF Reads, TypeOK

\* What the line cannot hold is lost, what it can is put at its end.
LEMMA PutsRequest ==
  ASSUME TypeOK, HostTypeOK, NEW h \in Route, NEW r \in Requests, Reads(h), Put(h, r)
  PROVE  /\ Puts(h, r) /\ toProbe' \in [Route -> Seq(Requests)]
         /\ \A g \in Route \ {h} : toProbe'[g] = toProbe[g]
<1>1. toProbe[h] \in Seq(Requests) /\ Append(toProbe[h], r) \in Seq(Requests)
  BY AppendProperties DEF HostTypeOK
<1>2. CASE toProbe' = toProbe
  BY <1>1, <1>2 DEF Puts, Reads, HostTypeOK
<1>3. CASE toProbe' = [toProbe EXCEPT ![h] = Append(@, r)]
  BY <1>1, <1>3 DEF Puts, Reads, HostTypeOK
<1> QED BY <1>2, <1>3 DEF Put

\* The other hosts' lines and calls.
OthersStay(h) ==
  \A g \in Route \ {h} :
    /\ answers'[g] = answers[g] /\ toProbe'[g] = toProbe[g]
    /\ req'[g] = req[g] /\ phase'[g] = phase[g] /\ corr'[g] = corr[g]
    /\ sought'[g] = sought[g] /\ tries'[g] = tries[g]
    /\ failed'[g] = failed[g] /\ ses'[g] = ses[g] /\ epoch'[g] = epoch[g] /\ handles'[g] = handles[g]

\* Who is not touched keeps the order of its line.
LEMMA OthersPipes ==
  ASSUME NEW h \in Route, NEW g \in Route \ {h}, OthersStay(h), PipeInv(g)
  PROVE  PipeInv(g)'
<1>1. /\ answers'[g] = answers[g] /\ toProbe'[g] = toProbe[g]
      /\ req'[g] = req[g] /\ phase'[g] = phase[g] /\ corr'[g] = corr[g]
      /\ sought'[g] = sought[g] /\ tries'[g] = tries[g]
  BY DEF OthersStay
<1>2. OnTheWay(g)' = OnTheWay(g) /\ Reqs(g)' = Reqs(g)
  BY <1>1 DEF OnTheWay, Reqs, Heard, Queued
<1> QED BY <1>1, <1>2 DEF PipeInv, Sorted, LastOnly, Calling

-------------------------------------------------------------------------------
(* A call begins.                                                           *)

NewRequest(h, sid, op, arg) == [sid |-> sid, corr |-> NextCorr(corr[h]), op |-> op, arg |-> arg]

\* The request of a new call has a corr above all of the host's, and goes on the line at once or
\* waits for the recovery.
LEMMA BeginStep ==
  ASSUME TypeOK, HostTypeOK, NEW h \in Route, PipeInv(h),
         NEW sid \in Sid \cup {NoSid}, NEW op \in Op, NEW arg \in Nat, Begin(h, sid, op, arg)
  PROVE  LET r == NewRequest(h, sid, op, arg)
         IN /\ r \in Requests /\ r.corr = corr[h] + 1
            /\ phase[h] = "idle" /\ req[h] = NoRequest
            /\ phase'[h] \in {"wait", "confirm"} /\ req'[h] = r /\ corr'[h] = r.corr
            /\ Reads(h) /\ OthersStay(h) /\ Puts(h, r)
            /\ phase'[h] = "confirm" => toProbe'[h] = toProbe[h]
            /\ UNCHANGED <<vars, waited, broken, failed, sought, tries, ses, epoch, seen, handles, runs, maker>>
            /\ phase' \in [Route -> {"idle", "wait", "confirm", "dead"}] /\ req' \in [Route -> Requests]
            /\ corr' \in [Route -> 0..CorrMax] /\ toProbe' \in [Route -> Seq(Requests)]
<1> DEFINE r == NewRequest(h, sid, op, arg)
<1>1. /\ phase[h] = "idle" /\ corr[h] < CorrMax
      /\ req' = [req EXCEPT ![h] = r] /\ corr' = [corr EXCEPT ![h] = r.corr]
      /\ \/ phase' = [phase EXCEPT ![h] = "wait"] /\ Put(h, r)
         \/ phase' = [phase EXCEPT ![h] = "confirm"] /\ UNCHANGED toProbe
      /\ UNCHANGED <<vars, waited, broken, failed, sought, tries, ses, epoch, seen, handles, runs, maker>>
  BY DEF Begin, NewRequest
<1>2. corr[h] \in 0..CorrMax
  BY DEF HostTypeOK
<1>3. NextCorr(corr[h]) = corr[h] + 1 /\ NextCorr(corr[h]) \in 0..CorrMax
  BY <1>1, <1>2, CorrAssumption DEF NextCorr
<1>4. r \in Requests /\ r.corr = corr[h] + 1 /\ r.corr \in 0..CorrMax
  BY <1>3 DEF NewRequest, Requests
<1> HIDE DEF r
<1>5. Reads(h)
  BY <1>1, ReadsNothing
<1>6. /\ Puts(h, r) /\ toProbe' \in [Route -> Seq(Requests)]
      /\ \A g \in Route \ {h} : toProbe'[g] = toProbe[g]
  <2>1. CASE Put(h, r)
    BY <1>4, <1>5, <2>1, PutsRequest
  <2>2. CASE UNCHANGED toProbe
    BY <1>5, <2>2 DEF Puts, Reads, HostTypeOK
  <2> QED BY <1>1, <2>1, <2>2
<1>7. /\ phase'[h] \in {"wait", "confirm"} /\ req'[h] = r /\ corr'[h] = r.corr
      /\ phase'[h] = "confirm" => toProbe'[h] = toProbe[h]
  BY <1>1 DEF HostTypeOK
<1>8. OthersStay(h)
  BY <1>1, <1>5, <1>6 DEF OthersStay, Reads, HostTypeOK
<1>9. req[h] = NoRequest
  BY <1>1 DEF PipeInv
<1>10. /\ phase' \in [Route -> {"idle", "wait", "confirm", "dead"}] /\ req' \in [Route -> Requests]
       /\ corr' \in [Route -> 0..CorrMax]
  BY <1>1, <1>4 DEF HostTypeOK
<1> QED BY <1>1, <1>4, <1>5, <1>6, <1>7, <1>8, <1>9, <1>10 DEF r

\* It keeps the order of the line.
LEMMA BeginPipe ==
  ASSUME TypeOK, HostTypeOK, NEW h \in Route, PipeInv(h),
         NEW sid \in Sid \cup {NoSid}, NEW op \in Op, NEW arg \in Nat, Begin(h, sid, op, arg)
  PROVE  PipeInv(h)'
<1> DEFINE r == NewRequest(h, sid, op, arg)
<1>1. /\ r \in Requests /\ r.corr = corr[h] + 1
      /\ phase[h] = "idle" /\ req[h] = NoRequest
      /\ phase'[h] \in {"wait", "confirm"} /\ req'[h] = r /\ corr'[h] = r.corr
      /\ Puts(h, r)
      /\ phase'[h] = "confirm" => toProbe'[h] = toProbe[h]
      /\ UNCHANGED <<vars, sought, tries>>
  BY BeginStep
<1> HIDE DEF r
<1>2. corr[h] \in Nat /\ r.corr \in Nat
  BY <1>1 DEF HostTypeOK, Requests
<1>3. \A q \in OnTheWay(h) : q.corr \in Nat /\ 1 <= q.corr /\ q.corr <= corr[h]
  BY OnTheWayType DEF PipeInv, Requests
<1>4. \A q \in OnTheWay(h) : q.corr < r.corr /\ q.corr <= r.corr
  BY <1>1, <1>2, <1>3
<1>5. OnTheWay(h)' \subseteq OnTheWay(h) \cup {r} /\ Sorted(answers[h], toProbe[h])'
  BY <1>1, <1>4, PutLine DEF PipeInv
<1>6. \A q \in OnTheWay(h)' : 1 <= q.corr /\ q.corr <= corr'[h]
  BY <1>1, <1>2, <1>3, <1>4, <1>5
<1>7. \A q, p \in Reqs(h)' : q.corr = p.corr => q = p
  <2>1. Reqs(h)' \subseteq OnTheWay(h) \cup {r}
    BY <1>1, <1>5 DEF Reqs
  <2>2. \A q \in OnTheWay(h) : q.corr # r.corr
    BY <1>2, <1>3, <1>4
  <2>3. \A q, p \in OnTheWay(h) : q.corr = p.corr => q = p
    BY DEF PipeInv, Reqs
  <2> QED BY <2>1, <2>2, <2>3
<1>8. phase'[h] = "wait" => \A q \in OnTheWay(h)' : q.corr <= req'[h].corr
  BY <1>1, <1>2, <1>4, <1>5
<1>9. phase'[h] = "confirm" => \A q \in OnTheWay(h)' : q.corr # req'[h].corr
  <2>0. answers' = answers
    BY <1>1 DEF vars
  <2>1. phase'[h] = "confirm" => OnTheWay(h)' = OnTheWay(h)
    BY <1>1, <2>0 DEF OnTheWay, Heard, Queued
  <2> QED BY <1>1, <1>2, <1>3, <1>4, <2>1
<1>10. tries'[h] = 0
  BY <1>1 DEF PipeInv
<1>11. req'[h].corr <= corr'[h] /\ 1 <= req'[h].corr
  BY <1>1, <1>2
<1>12. Calling(h)' => 1 <= req'[h].corr
  BY <1>11
<1> QED BY <1>1, <1>5, <1>6, <1>7, <1>8, <1>9, <1>10, <1>11, <1>12 DEF PipeInv

-------------------------------------------------------------------------------
(* The other steps of a host: an answer is read, a call ends, a request is  *)
(* put on the line again, a transport recovers.                             *)

\* A line that has nothing new and keeps its order stays as PipeInv says while the host's call
\* goes on, ends, or its process dies.
LEMMA KeptPipe ==
  ASSUME HostTypeOK, NEW h \in Route, PipeInv(h), corr'[h] = corr[h],
         OnTheWay(h)' \subseteq OnTheWay(h),
         Sorted(answers[h], toProbe[h]) => Sorted(answers[h], toProbe[h])',
         \A c \in Nat : LastOnly(answers[h], toProbe[h], c) => LastOnly(answers'[h], toProbe'[h], c),
         \/ phase'[h] = "idle" /\ req'[h] = NoRequest /\ tries'[h] = 0
         \/ /\ req'[h] = req[h] /\ phase'[h] \in {phase[h], "dead"}
            /\ tries'[h] = tries[h] /\ sought'[h] = sought[h]
  PROVE  PipeInv(h)'
<1>1. corr[h] \in Nat
  BY DEF HostTypeOK
<1>2. Sorted(answers[h], toProbe[h])'
  BY DEF PipeInv
<1>3. \A r \in OnTheWay(h)' : 1 <= r.corr /\ r.corr <= corr'[h]
  BY DEF PipeInv
<1>4. CASE phase'[h] = "idle" /\ req'[h] = NoRequest /\ tries'[h] = 0
  <2>1. NoRequest.corr = 0 /\ 0 <= corr'[h]
    BY <1>1 DEF NoRequest
  <2>2. \A r \in OnTheWay(h)' : r.corr # 0
    BY <1>3
  <2>3. \A r, q \in Reqs(h)' : r.corr = q.corr => r = q
    <3>1. Reqs(h)' = OnTheWay(h)' \cup {NoRequest}
      BY <1>4 DEF Reqs
    <3>2. \A r, q \in OnTheWay(h)' : r.corr = q.corr => r = q
      BY DEF PipeInv, Reqs
    <3> QED BY <2>1, <2>2, <3>1, <3>2
  <2> QED BY <1>2, <1>3, <1>4, <2>1, <2>3 DEF PipeInv, Calling
<1>5. CASE /\ req'[h] = req[h] /\ phase'[h] \in {phase[h], "dead"}
           /\ tries'[h] = tries[h] /\ sought'[h] = sought[h]
  <2>1. Reqs(h)' \subseteq Reqs(h)
    BY <1>5 DEF Reqs
  <2>2. \A r, q \in Reqs(h)' : r.corr = q.corr => r = q
    BY <2>1 DEF PipeInv
  <2>3. (phase'[h] = "confirm" /\ tries'[h] > 0) =>
          sought'[h] = corr'[h] /\ LastOnly(answers[h], toProbe[h], corr[h])'
    <3>1. LastOnly(answers[h], toProbe[h], corr[h])' <=> LastOnly(answers'[h], toProbe'[h], corr[h])
      BY DEF LastOnly
    <3> QED BY <1>1, <1>5, <3>1 DEF PipeInv
  <2> QED BY <1>2, <1>3, <1>5, <2>2, <2>3 DEF PipeInv, Calling
<1> QED BY <1>4, <1>5

\* NoRequest is a request nobody sends.
LEMMA NoRequestType == NoRequest \in Requests /\ NoRequest.op = "unknown" /\ NoRequest.sid = NoSid /\ NoRequest.corr = 0
BY CorrAssumption DEF NoRequest, Requests, Op

\* The end of a call.
LEMMA OverStep ==
  ASSUME HostTypeOK, NEW h \in Route, Over(h)
  PROVE  /\ phase'[h] = "idle" /\ req'[h] = NoRequest /\ tries'[h] = 0
         /\ phase' \in [Route -> {"idle", "wait", "confirm", "dead"}] /\ req' \in [Route -> Requests]
         /\ waited' \in [Route -> Nat] /\ broken' \in [Route -> Nat]
         /\ tries' \in [Route -> Nat] /\ sought' \in [Route -> 0..CorrMax]
         /\ \A g \in Route \ {h} : /\ phase'[g] = phase[g] /\ req'[g] = req[g]
                                   /\ tries'[g] = tries[g] /\ sought'[g] = sought[g]
<1>1. 0 \in 0..CorrMax
  BY CorrAssumption
<1> QED BY <1>1, NoRequestType DEF Over, Set, HostTypeOK

\* What the caller of a write is told goes to that write alone.
LEMMA TellStep ==
  ASSUME HostTypeOK, NEW h \in Route, NEW what \in Outcomes, Tell(h, what)
  PROVE  /\ outcome' \in [Writes -> Outcomes]
         /\ \A w \in Writes : outcome'[w] = IF req[h].op = "write" /\ w = req[h].arg THEN what ELSE outcome[w]
BY DEF Tell, HostTypeOK

\* What is known of a step in which a host only reads: the line of every host.
LEMMA ReadsShrinks ==
  ASSUME TypeOK, HostTypeOK, NEW h \in Route, Reads(h), toProbe' = toProbe
  PROVE  Shrinks(h)
<1>1. toProbe[h] \in Seq(Requests)
  BY DEF HostTypeOK
<1> QED BY <1>1, SameShifted DEF Shrinks, Reads

\* The answer that is taken for the call's is the answer to the call's request.
LEMMA OursIsReq ==
  ASSUME TypeOK, HostTypeOK, NEW h \in Route, PipeInv(h), Ours(h, req[h].corr)
  PROVE  /\ answers[h] # <<>> /\ Head(answers[h]) \in Heard(h) /\ Head(answers[h]) \in Answer
         /\ Head(answers[h]).req = req[h]
<1>1. answers[h] # <<>> /\ Head(answers[h]).req.corr = req[h].corr
  BY DEF Ours
<1>2. Head(answers[h]) \in Heard(h) /\ Head(answers[h]) \in Answer
  BY <1>1, HeadElem DEF Heard, TypeOK
<1>3. Head(answers[h]).req \in Reqs(h) /\ req[h] \in Reqs(h)
  BY <1>2 DEF Reqs, OnTheWay
<1> QED BY <1>1, <1>2, <1>3 DEF PipeInv

\* What the end of a call does to the host's beliefs, and to them alone.
Finished(h, a) ==
  /\ ses' \in [Route -> Sid \cup {NoSid}] /\ epoch' \in [Route -> Nat] /\ seen' \in [Route -> Nat]
  /\ handles' \in [Route -> SUBSET Connection]
  /\ \A g \in Route \ {h} : ses'[g] = ses[g] /\ epoch'[g] = epoch[g] /\ handles'[g] = handles[g]
  /\ ses'[h] \in {ses[h], NoSid, req[h].sid}
  /\ \/ epoch'[h] = epoch[h] + 1 /\ handles'[h] = handles[h]
     \/ epoch'[h] = epoch[h] /\ handles'[h] = handles[h] /\ (ses'[h] = ses[h] \/ ses[h] = NoSid)
     \/ /\ epoch'[h] = epoch[h] /\ ses'[h] = ses[h] /\ a.res = "ok" /\ req[h].op = "connect"
        /\ handles'[h] = handles[h] \cup {[num |-> a.val, epoch |-> epoch[h], made |-> req[h]]}

\* An answer to the call's own request finishes it so.
LEMMA FinishStep ==
  ASSUME HostTypeOK, NEW h \in Route, NEW a \in Answer, a.req = req[h], Finish(h, a)
  PROVE  Finished(h, a)
<1>1. req[h] \in Requests /\ req[h].sid \in Sid \cup {NoSid} /\ a.val \in Nat /\ epoch[h] \in Nat
  BY DEF HostTypeOK, Requests, Answer
<1>2. CASE a.res = "ok" /\ a.req.op = "connect"
  <2>1. handles' = [handles EXCEPT ![h] = @ \cup {[num |-> a.val, epoch |-> epoch[h], made |-> a.req]}]
        /\ UNCHANGED <<ses, epoch, seen>>
    BY <1>2 DEF Finish, OpenOps
  <2>2. [num |-> a.val, epoch |-> epoch[h], made |-> a.req] \in Connection
    BY <1>1 DEF Connection
  <2> QED BY <1>1, <1>2, <2>1, <2>2 DEF HostTypeOK, Finished
<1>3. CASE ~(a.res = "ok" /\ a.req.op = "connect")
  <2>1. /\ UNCHANGED handles
        /\ ses' = [ses EXCEPT ![h] = req[h].sid] \/ ses' = [ses EXCEPT ![h] = NoSid] \/ UNCHANGED ses
        /\ epoch' = [epoch EXCEPT ![h] = @ + 1] \/ (UNCHANGED epoch /\ (ses' = ses \/ ses[h] = NoSid))
        /\ seen' = [seen EXCEPT ![h] = a.val] \/ UNCHANGED seen
    BY <1>3 DEF Finish, Set, Swept
  <2>2. /\ ses' \in [Route -> Sid \cup {NoSid}] /\ ses'[h] \in {ses[h], NoSid, req[h].sid}
        /\ \A g \in Route \ {h} : ses'[g] = ses[g]
    BY <1>1, <2>1 DEF HostTypeOK
  <2>3. /\ epoch' \in [Route -> Nat] /\ \A g \in Route \ {h} : epoch'[g] = epoch[g]
        /\ \/ epoch'[h] = epoch[h] + 1
           \/ epoch'[h] = epoch[h] /\ (ses'[h] = ses[h] \/ ses[h] = NoSid)
    <3>0. epoch \in [Route -> Nat]
      BY DEF HostTypeOK
    <3>1. CASE epoch' = [epoch EXCEPT ![h] = @ + 1]
      BY <1>1, <3>0, <3>1
    <3>2. CASE UNCHANGED epoch /\ (ses' = ses \/ ses[h] = NoSid)
      BY <3>0, <3>2
    <3> QED BY <2>1, <3>1, <3>2
  <2>4. seen' \in [Route -> Nat]
    BY <1>1, <2>1 DEF HostTypeOK
  <2>5. handles' = handles /\ handles \in [Route -> SUBSET Connection]
    BY <2>1 DEF HostTypeOK
  <2> QED BY <2>2, <2>3, <2>4, <2>5 DEF Finished
<1> QED BY <1>2, <1>3

Confirms == {r \in Requests : r.sid = NoSid /\ r.op = "confirm"}

\* What a caller is told once its call is over.
Told(h, w) ==
  /\ Calling(h) /\ req[h].op = "write" /\ w = req[h].arg /\ req'[h] = NoRequest
  /\ outcome'[w] \in Outcomes \ {"none"}
  /\ outcome'[w] = "ok" => \E a \in Heard(h) : a.res = "ok" /\ a.req = req[h]
  /\ outcome'[w] = "not_sent" => phase[h] = "confirm"

\* What h believes: a loss is learned of, or there was no session, or a connection is new.
Learns(h) ==
  \/ epoch'[h] = epoch[h] + 1 /\ handles'[h] = handles[h]
  \/ epoch'[h] = epoch[h] /\ handles'[h] = handles[h] /\ (ses'[h] = ses[h] \/ ses[h] = NoSid)
  \/ /\ epoch'[h] = epoch[h] /\ ses'[h] = ses[h]
     /\ \E a \in Heard(h) :
          /\ phase[h] = "wait" /\ a.res = "ok" /\ a.req = req[h] /\ req[h].op = "connect"
          /\ handles'[h] = handles[h] \cup {[num |-> a.val, epoch |-> epoch[h], made |-> req[h]]}

\* All that matters of a host's step that is not the begin of a call.
Turn(h) ==
  /\ Reads(h) /\ OthersStay(h) /\ UNCHANGED <<usedSids, maker, runs>>
  /\ Queued(h)' \subseteq Queued(h) \cup {r \in {req'[h]} : phase'[h] = "wait"}
                            \cup {r \in Confirms : r.corr = corr'[h]}
  /\ req'[h] \in {req[h], NoRequest}
  /\ Calling(h)' => /\ Calling(h) /\ req'[h] = req[h] /\ ses'[h] = ses[h]
                    /\ phase'[h] = "confirm" => phase[h] = "confirm"
  /\ ses'[h] \in {ses[h], NoSid, req[h].sid}
  /\ \A w \in Writes : outcome'[w] = outcome[w] \/ Told(h, w)
  /\ Learns(h)

\* The call's answer is taken.
LEMMA AcceptTurn ==
  ASSUME TypeOK, HostTypeOK, NEW h \in Route, PipeInv(h), Accept(h)
  PROVE  HostTypeOK' /\ PipeInv(h)' /\ Turn(h)
<1>1. /\ phase[h] = "wait" /\ Ours(h, req[h].corr) /\ ReadAnswer(h) /\ Over(h)
      /\ UNCHANGED <<failed, corr, toProbe, load, usedSids, runs, maker>>
  BY DEF Accept, wireVars, boundVars
<1>2. PICK a \in Answer : a = Head(answers[h]) /\ a \in Heard(h) /\ a.req = req[h]
  BY <1>1, OursIsReq
<1>0. Finish(h, a)
  BY <1>2 DEF Accept, Finish
<1>3. Reads(h)
  BY <1>1, ReadsHead
<1>4. Shrinks(h)
  BY <1>1, <1>3, ReadsShrinks
<1>5. /\ phase'[h] = "idle" /\ req'[h] = NoRequest /\ tries'[h] = 0
      /\ phase' \in [Route -> {"idle", "wait", "confirm", "dead"}] /\ req' \in [Route -> Requests]
      /\ waited' \in [Route -> Nat] /\ broken' \in [Route -> Nat]
      /\ tries' \in [Route -> Nat] /\ sought' \in [Route -> 0..CorrMax]
      /\ \A g \in Route \ {h} : /\ phase'[g] = phase[g] /\ req'[g] = req[g]
                                /\ tries'[g] = tries[g] /\ sought'[g] = sought[g]
  BY <1>1, OverStep
<1>6. /\ ses' \in [Route -> Sid \cup {NoSid}] /\ epoch' \in [Route -> Nat] /\ seen' \in [Route -> Nat]
      /\ handles' \in [Route -> SUBSET Connection]
      /\ \A g \in Route \ {h} : ses'[g] = ses[g] /\ epoch'[g] = epoch[g] /\ handles'[g] = handles[g]
      /\ ses'[h] \in {ses[h], NoSid, req[h].sid}
      /\ \/ epoch'[h] = epoch[h] + 1 /\ handles'[h] = handles[h]
         \/ epoch'[h] = epoch[h] /\ handles'[h] = handles[h] /\ (ses'[h] = ses[h] \/ ses[h] = NoSid)
         \/ /\ epoch'[h] = epoch[h] /\ ses'[h] = ses[h] /\ a.res = "ok" /\ req[h].op = "connect"
            /\ handles'[h] = handles[h] \cup {[num |-> a.val, epoch |-> epoch[h], made |-> req[h]]}
  <2>1. Finished(h, a)
    BY <1>0, <1>2, FinishStep
  <2> QED BY <2>1 DEF Finished
<1>7. \E what \in {"ok", "refused"} :
        (what = "ok" => a.res = "ok") /\ Tell(h, what)
  BY <1>2 DEF Accept, Tell
<1>8. /\ outcome' \in [Writes -> Outcomes]
      /\ \A w \in Writes : outcome'[w] = outcome[w] \/ Told(h, w)
  <2>1. PICK what \in {"ok", "refused"} : (what = "ok" => a.res = "ok") /\ Tell(h, what)
    BY <1>7
  <2>2. what \in Outcomes /\ what # "none" /\ what # "not_sent"
    BY DEF Outcomes
  <2>3. /\ outcome' \in [Writes -> Outcomes]
        /\ \A w \in Writes : outcome'[w] = IF req[h].op = "write" /\ w = req[h].arg THEN what ELSE outcome[w]
    BY <2>1, <2>2, TellStep
  <2> QED BY <1>1, <1>2, <1>5, <2>1, <2>2, <2>3 DEF Told, Calling
<1>9. OthersStay(h)
  BY <1>1, <1>3, <1>5, <1>6 DEF OthersStay, Reads
<1>10. PipeInv(h)'
  <2>1. corr'[h] = corr[h]
    BY <1>1
  <2> QED BY <1>4, <1>5, <2>1, KeptPipe, ShrunkLine
<1>11. HostTypeOK'
  BY <1>1, <1>5, <1>6, <1>8 DEF HostTypeOK
<1>12. Queued(h)' \subseteq Queued(h)
  BY <1>4, ShrunkLine
<1>13. Learns(h)
  BY <1>1, <1>2, <1>6 DEF Learns
<1>14. ~Calling(h)'
  BY <1>5 DEF Calling
<1> QED BY <1>1, <1>3, <1>5, <1>6, <1>8, <1>9, <1>10, <1>11, <1>12, <1>13, <1>14 DEF Turn

\* The request goes on the line again.
LEMMA ResendTurn ==
  ASSUME TypeOK, HostTypeOK, NEW h \in Route, PipeInv(h), phase[h] = "wait",
         NEW waits \in BOOLEAN, Resend(h, waits), Reads(h), UNCHANGED <<usedSids, runs, maker>>
  PROVE  HostTypeOK' /\ PipeInv(h)' /\ Turn(h)
<1>1. /\ Put(h, req[h])
      /\ UNCHANGED <<phase, req, failed, sought, tries, corr, ses, epoch, seen, handles, outcome>>
  BY DEF Resend
<1>2. waited' \in [Route -> Nat] /\ broken' \in [Route -> Nat]
  <2>1. \/ waited' = [waited EXCEPT ![h] = waited[h] + 1] /\ UNCHANGED broken
        \/ broken' = [broken EXCEPT ![h] = broken[h] + 1] /\ UNCHANGED waited
    BY DEF Resend, Set
  <2>2. waited \in [Route -> Nat] /\ broken \in [Route -> Nat]
    BY DEF HostTypeOK
  <2>3. waited[h] + 1 \in Nat /\ broken[h] + 1 \in Nat
    BY <2>2
  <2> QED BY <2>1, <2>2, <2>3
<1>3. PICK r \in Requests : r = req[h]
  BY DEF HostTypeOK
<1>4. Put(h, r)
  BY <1>1, <1>3 DEF Put
<1>5. /\ Puts(h, r) /\ toProbe' \in [Route -> Seq(Requests)]
      /\ \A g \in Route \ {h} : toProbe'[g] = toProbe[g]
  BY <1>4, PutsRequest
<1>6. \A q \in OnTheWay(h) : q.corr <= r.corr
  BY <1>3 DEF PipeInv
<1>7. /\ Queued(h)' \subseteq Queued(h) \cup {r} /\ OnTheWay(h)' \subseteq OnTheWay(h) \cup {r}
      /\ Sorted(answers[h], toProbe[h])'
  BY <1>5, <1>6, PutLine DEF PipeInv
<1>8. PipeInv(h)'
  <2>1. corr'[h] = corr[h] /\ req'[h] = r /\ phase'[h] = "wait" /\ tries'[h] = 0 /\ r.corr \in Nat
    BY <1>1, <1>3 DEF PipeInv, Requests
  <2>2. 1 <= r.corr /\ r.corr <= corr[h]
    BY <1>3 DEF PipeInv, Calling
  <2>3. \A q \in OnTheWay(h)' : 1 <= q.corr /\ q.corr <= corr'[h] /\ q.corr <= r.corr
    BY <1>6, <1>7, <2>1, <2>2 DEF PipeInv
  <2>4. \A q, p \in Reqs(h)' : q.corr = p.corr => q = p
    <3>1. Reqs(h)' \subseteq Reqs(h)
      BY <1>3, <1>7, <2>1 DEF Reqs
    <3> QED BY <3>1 DEF PipeInv
  <2> QED BY <1>7, <2>1, <2>2, <2>3, <2>4 DEF PipeInv, Calling
<1>9. OthersStay(h)
  BY <1>1, <1>5 DEF OthersStay, Reads
<1>10. HostTypeOK'
  BY <1>1, <1>2, <1>5 DEF HostTypeOK
<1>11. Learns(h)
  BY <1>1 DEF Learns
<1>12. Queued(h)' \subseteq Queued(h) \cup {q \in {req'[h]} : phase'[h] = "wait"}
  BY <1>1, <1>3, <1>7
<1> QED BY <1>1, <1>8, <1>9, <1>10, <1>11, <1>12 DEF Turn, Calling

\* A call ends without an answer: its outcome is unknown, or it was not sent.
LEMMA FailTurn ==
  ASSUME TypeOK, HostTypeOK, NEW h \in Route, PipeInv(h), Calling(h), Over(h),
         NEW what \in {"unknown", "not_sent"}, Tell(h, what), what = "not_sent" => phase[h] = "confirm",
         Reads(h), failed' \in [Route -> BOOLEAN], \A g \in Route \ {h} : failed'[g] = failed[g],
         UNCHANGED <<corr, ses, epoch, seen, handles, toProbe, usedSids, runs, maker>>
  PROVE  HostTypeOK' /\ PipeInv(h)' /\ Turn(h)
<1>1. Shrinks(h)
  BY ReadsShrinks
<1>2. /\ phase'[h] = "idle" /\ req'[h] = NoRequest /\ tries'[h] = 0
      /\ phase' \in [Route -> {"idle", "wait", "confirm", "dead"}] /\ req' \in [Route -> Requests]
      /\ waited' \in [Route -> Nat] /\ broken' \in [Route -> Nat]
      /\ tries' \in [Route -> Nat] /\ sought' \in [Route -> 0..CorrMax]
      /\ \A g \in Route \ {h} : /\ phase'[g] = phase[g] /\ req'[g] = req[g]
                                /\ tries'[g] = tries[g] /\ sought'[g] = sought[g]
  BY OverStep
<1>3. what \in Outcomes /\ what # "none" /\ what # "ok"
  BY DEF Outcomes
<1>4. /\ outcome' \in [Writes -> Outcomes]
      /\ \A w \in Writes : outcome'[w] = IF req[h].op = "write" /\ w = req[h].arg THEN what ELSE outcome[w]
  BY <1>3, TellStep
<1>5. \A w \in Writes : outcome'[w] = outcome[w] \/ Told(h, w)
  BY <1>2, <1>3, <1>4 DEF Told
<1>6. OthersStay(h)
  BY <1>2 DEF OthersStay, Reads
<1>7. PipeInv(h)'
  <2>1. corr'[h] = corr[h]
    OBVIOUS
  <2> QED BY <1>1, <1>2, <2>1, KeptPipe, ShrunkLine
<1>8. HostTypeOK'
  BY <1>2, <1>4 DEF HostTypeOK
<1>9. Queued(h)' \subseteq Queued(h)
  BY <1>1, ShrunkLine
<1>10. Learns(h)
  BY DEF Learns
<1>11. ~Calling(h)'
  BY <1>2 DEF Calling
<1> QED BY <1>2, <1>5, <1>6, <1>7, <1>8, <1>9, <1>10, <1>11 DEF Turn

\* The call waits on, or the host dies, while its line loses what it loses.
LEMMA IdleTurn ==
  ASSUME TypeOK, HostTypeOK, NEW h \in Route, PipeInv(h), Reads(h), Shrinks(h),
         toProbe' \in [Route -> Seq(Requests)], \A g \in Route \ {h} : toProbe'[g] = toProbe[g],
         phase' \in {phase, [phase EXCEPT ![h] = "dead"]},
         UNCHANGED <<req, waited, broken, failed, sought, tries, corr, ses, epoch, seen, handles>>,
         UNCHANGED <<usedSids, pastVars>>
  PROVE  HostTypeOK' /\ PipeInv(h)' /\ Turn(h)
<1>1. UNCHANGED <<runs, outcome, maker>>
  BY DEF pastVars
<1>2. /\ phase' \in [Route -> {"idle", "wait", "confirm", "dead"}] /\ phase'[h] \in {phase[h], "dead"}
      /\ \A g \in Route \ {h} : phase'[g] = phase[g]
  BY DEF HostTypeOK
<1>3. OthersStay(h)
  BY <1>2 DEF OthersStay, Reads
<1>4. PipeInv(h)'
  <2>1. corr'[h] = corr[h] /\ req'[h] = req[h] /\ tries'[h] = tries[h] /\ sought'[h] = sought[h]
    OBVIOUS
  <2> QED BY <1>2, <2>1, KeptPipe, ShrunkLine
<1>5. HostTypeOK'
  BY <1>1, <1>2 DEF HostTypeOK
<1>6. Queued(h)' \subseteq Queued(h)
  BY ShrunkLine
<1>7. Learns(h)
  BY DEF Learns
<1>8. Calling(h)' => Calling(h) /\ (phase'[h] = "confirm" => phase[h] = "confirm")
  BY <1>2 DEF Calling
<1> QED BY <1>1, <1>3, <1>4, <1>5, <1>6, <1>7, <1>8 DEF Turn

\* A try of the recovery: a confirm under a corr of its own goes out, answers are dropped.
LEMMA ConfirmTurn ==
  ASSUME TypeOK, HostTypeOK, NEW h \in Route, PipeInv(h), ConfirmSent(h)
  PROVE  HostTypeOK' /\ PipeInv(h)' /\ Turn(h)
<1>0. corr[h] \in 0..CorrMax /\ corr[h] < CorrMax /\ phase[h] = "confirm"
  BY DEF ConfirmSent, HostTypeOK
<1>1. PICK c \in 0..CorrMax : c = NextCorr(corr[h]) /\ c = corr[h] + 1
  BY <1>0, CorrAssumption DEF NextCorr
<1>2. PICK r \in Confirms : r = [sid |-> NoSid, corr |-> c, op |-> "confirm", arg |-> 0]
  BY DEF Confirms, Requests, Op, LockFree
<1>3. /\ corr' = [corr EXCEPT ![h] = c] /\ sought' = [sought EXCEPT ![h] = c]
      /\ tries' = [tries EXCEPT ![h] = @ + 1]
      /\ UNCHANGED <<session, table, owned, nextRes, world, history, given>>
      /\ UNCHANGED <<phase, req, waited, broken, failed, ses, epoch, seen, handles>>
      /\ UNCHANGED <<usedSids, runs, outcome, maker>>
      /\ \E n \in 0..Len(answers[h]) :
           answers' = [answers EXCEPT ![h] = SubSeq(@, n + 1, Len(@))]
  BY <1>1 DEF ConfirmSent, boundVars, pastVars
<1>4. Put(h, r)
  BY <1>1, <1>2 DEF ConfirmSent, Put
<1>5. Reads(h)
  <2>1. PICK n \in 0..Len(answers[h]) : answers' = [answers EXCEPT ![h] = SubSeq(@, n + 1, Len(@))]
    BY <1>3
  <2>2. answers[h] \in Seq(Answer)
    BY DEF TypeOK
  <2>3. /\ SubSeq(answers[h], n + 1, Len(answers[h])) \in Seq(Answer)
        /\ Shifted(SubSeq(answers[h], n + 1, Len(answers[h])), answers[h])
    BY <2>1, <2>2, SubSeqShifted
  <2>4. answers'[h] = SubSeq(answers[h], n + 1, Len(answers[h]))
    BY <2>1 DEF TypeOK
  <2>5. answers'[h] \in Seq(Answer) /\ Shifted(answers'[h], answers[h])
    BY <2>3, <2>4
  <2>6. answers' \in [Route -> Seq(Answer)] /\ \A g \in Route \ {h} : answers'[g] = answers[g]
    BY <2>1, <2>3 DEF TypeOK
  <2> QED BY <1>3, <2>5, <2>6 DEF Reads, probeVars
<1>6. r \in Requests /\ r.corr = c /\ r.sid = NoSid
  BY <1>2 DEF Confirms
<1>7. /\ Puts(h, r) /\ toProbe' \in [Route -> Seq(Requests)]
      /\ \A g \in Route \ {h} : toProbe'[g] = toProbe[g]
  BY <1>4, <1>5, <1>6, PutsRequest
<1>8. \A q \in OnTheWay(h) : q.corr \in Nat /\ 1 <= q.corr /\ q.corr < c /\ q.corr <= r.corr
  <2>1. \A q \in OnTheWay(h) : q.corr \in Nat /\ 1 <= q.corr /\ q.corr <= corr[h]
    BY OnTheWayType DEF PipeInv, Requests
  <2>2. \A n \in Nat : n <= corr[h] => n < c /\ n <= c
    BY <1>0, <1>1
  <2> QED BY <1>6, <2>1, <2>2
<1>9. /\ Queued(h)' \subseteq Queued(h) \cup {r} /\ OnTheWay(h)' \subseteq OnTheWay(h) \cup {r}
      /\ Sorted(answers[h], toProbe[h])' /\ LastOnly(answers'[h], toProbe'[h], c)
  <2>1. c \in Nat
    BY <1>0, <1>1
  <2> QED BY <1>6, <1>7, <1>8, <2>1, PutLine DEF PipeInv
<1>10. PipeInv(h)'
  <2>1. /\ corr'[h] = c /\ sought'[h] = c /\ phase'[h] = "confirm" /\ req'[h] = req[h] /\ c \in Nat
    BY <1>0, <1>1, <1>3 DEF HostTypeOK
  <2>2. req[h].corr \in Nat /\ 1 <= req[h].corr /\ req[h].corr < c
    <3>1. req[h].corr \in Nat /\ 1 <= req[h].corr /\ req[h].corr <= corr[h]
      BY <1>0 DEF HostTypeOK, Requests, PipeInv, Calling
    <3> QED BY <1>0, <1>1, <3>1
  <2>3. \A q \in OnTheWay(h)' : 1 <= q.corr /\ q.corr <= corr'[h]
    BY <1>0, <1>1, <1>6, <1>8, <1>9, <2>1
  <2>4. \A q, p \in Reqs(h)' : q.corr = p.corr => q = p
    <3>1. Reqs(h)' \subseteq Reqs(h) \cup {r}
      BY <1>9, <2>1 DEF Reqs
    <3>2. \A q \in Reqs(h) : q.corr # r.corr
      BY <1>6, <1>8, <2>1, <2>2 DEF Reqs
    <3>3. \A q, p \in Reqs(h) : q.corr = p.corr => q = p
      BY DEF PipeInv
    <3> QED BY <3>1, <3>2, <3>3
  <2>5. \A q \in OnTheWay(h)' : q.corr # req'[h].corr
    <3>1. r.corr # req[h].corr
      BY <1>6, <2>2
    <3> QED BY <1>0, <1>9, <2>1, <3>1 DEF PipeInv
  <2>6. req'[h].corr <= corr'[h] /\ 1 <= req'[h].corr
    BY <2>1, <2>2
  <2>7. LastOnly(answers[h], toProbe[h], corr[h])'
    BY <1>9, <2>1 DEF LastOnly
  <2> QED BY <1>9, <2>1, <2>3, <2>4, <2>5, <2>6, <2>7 DEF PipeInv, Calling
<1>11. OthersStay(h)
  BY <1>3, <1>5, <1>7 DEF OthersStay, Reads, HostTypeOK
<1>12. HostTypeOK'
  <2>1. /\ corr' \in [Route -> 0..CorrMax] /\ sought' \in [Route -> 0..CorrMax]
        /\ tries' \in [Route -> Nat]
    BY <1>3 DEF HostTypeOK
  <2> QED BY <1>3, <1>7, <2>1 DEF HostTypeOK
<1>13. Learns(h)
  BY <1>3 DEF Learns
<1>14. r.corr = corr'[h] /\ r \in Confirms
  BY <1>2, <1>3, <1>6 DEF HostTypeOK
<1> QED BY <1>3, <1>5, <1>9, <1>10, <1>11, <1>12, <1>13, <1>14 DEF Turn, Calling

\* The recovery's confirm came back: nothing else was on the line, and the request goes out.
LEMMA AnsweredTurn ==
  ASSUME TypeOK, HostTypeOK, NEW h \in Route, PipeInv(h), ConfirmAnswered(h)
  PROVE  /\ HostTypeOK' /\ PipeInv(h)' /\ Turn(h)
         /\ toProbe[h] = <<>> /\ answers'[h] = <<>>
<1>1. /\ phase[h] = "confirm" /\ tries[h] > 0 /\ Ours(h, sought[h]) /\ ReadAnswer(h)
      /\ phase' = [phase EXCEPT ![h] = "wait"] /\ tries' = [tries EXCEPT ![h] = 0]
      /\ sought' = [sought EXCEPT ![h] = 0] /\ failed' = [failed EXCEPT ![h] = FALSE]
      /\ Put(h, req[h])
      /\ UNCHANGED <<req, waited, broken, corr, ses, handles>>
      /\ UNCHANGED <<usedSids, runs, outcome, maker>>
      /\ seen' = [seen EXCEPT ![h] = Head(answers[h]).val]
      /\ epoch' = [epoch EXCEPT ![h] = @ + 1] \/ UNCHANGED epoch
  BY DEF ConfirmAnswered, Set, Swept, boundVars, pastVars
<1>2. Head(answers[h]) \in Answer /\ Reads(h) /\ answers[h] # <<>> /\ answers'[h] = Tail(answers[h])
  BY <1>1, ReadsHead
<1>3. toProbe[h] = <<>> /\ answers'[h] = <<>>
  <2>1. corr[h] \in Nat /\ sought[h] = corr[h] /\ LastOnly(answers[h], toProbe[h], corr[h])
    BY <1>1 DEF PipeInv, HostTypeOK
  <2>2. Head(answers[h]).req.corr = corr[h]
    BY <1>1, <2>1 DEF Ours
  <2>3. answers[h] \in Seq(Answer) /\ toProbe[h] \in Seq(Requests)
    BY DEF TypeOK, HostTypeOK
  <2> QED BY <1>2, <2>1, <2>2, <2>3, LastAlone
<1>4. PICK r \in Requests : r = req[h]
  BY DEF HostTypeOK
<1>5. Put(h, r)
  BY <1>1, <1>4 DEF Put
<1>6. /\ Puts(h, r) /\ toProbe' \in [Route -> Seq(Requests)]
      /\ \A g \in Route \ {h} : toProbe'[g] = toProbe[g]
  BY <1>2, <1>5, PutsRequest
<1>7. Heard(h)' = {} /\ Queued(h)' \subseteq {r} /\ OnTheWay(h)' \subseteq {r} /\ Sorted(answers[h], toProbe[h])'
  <2>1. Queued(h) = {} /\ Queued(h)' \subseteq {r}
    <3>1. Queued(h) = {}
      BY <1>3, EmptySeq DEF Queued, Elems
    <3> QED BY <1>6, <3>1, PutLine
  <2>2. Heard(h)' = {}
    BY <1>3, EmptySeq DEF Heard, Elems
  <2>3. \A q \in OnTheWay(h) : q.corr <= corr[h]
    BY DEF PipeInv
  <2>4. PICK A \in Seq(Answer) : A = answers'[h]
    BY <1>2 DEF Reads
  <2>5. PICK T \in Seq(Requests) : T = toProbe[h]
    BY DEF HostTypeOK
  <2>6. Len(A) = 0 /\ Len(T) = 0
    BY <1>3, <2>4, <2>5, EmptySeq
  <2>7. Sorted(A, T)
    BY <2>6 DEF Sorted
  <2>8. Elems(A) = {} /\ Elems(T) = {}
    BY <2>6 DEF Elems
  <2>9. Sorted(A, Append(T, r))
    BY <2>7, <2>8, LinePut
  <2>10. Sorted(answers'[h], toProbe'[h])
    BY <1>6, <2>4, <2>5, <2>7, <2>9 DEF Puts
  <2>11. Sorted(answers[h], toProbe[h])' <=> Sorted(answers'[h], toProbe'[h])
    BY DEF Sorted
  <2> QED BY <2>1, <2>2, <2>10, <2>11 DEF OnTheWay
<1>8. PipeInv(h)'
  <2>1. /\ corr'[h] = corr[h] /\ req'[h] = r /\ phase'[h] = "wait" /\ tries'[h] = 0
        /\ r.corr \in Nat /\ 1 <= r.corr /\ r.corr <= corr[h]
    BY <1>1, <1>4 DEF PipeInv, HostTypeOK, Requests, Calling
  <2>2. Reqs(h)' \subseteq {r}
    BY <1>7, <2>1 DEF Reqs
  <2>3. r.corr <= r.corr
    BY <2>1
  <2> QED BY <1>7, <2>1, <2>2, <2>3 DEF PipeInv, Calling
<1>9. HostTypeOK'
  <2>1. /\ phase' \in [Route -> {"idle", "wait", "confirm", "dead"}] /\ tries' \in [Route -> Nat]
        /\ sought' \in [Route -> 0..CorrMax] /\ failed' \in [Route -> BOOLEAN]
    BY <1>1, CorrAssumption DEF HostTypeOK
  <2>2. seen' \in [Route -> Nat] /\ epoch' \in [Route -> Nat]
    <3>1. Head(answers[h]).val \in Nat
      BY <1>2 DEF Answer
    <3>2. epoch[h] + 1 \in Nat /\ epoch \in [Route -> Nat] /\ seen \in [Route -> Nat]
      BY DEF HostTypeOK
    <3>3. seen' \in [Route -> Nat]
      BY <1>1, <3>1, <3>2
    <3>4. epoch' \in [Route -> Nat]
      BY <1>1, <3>2
    <3> QED BY <3>3, <3>4
  <2> QED BY <1>1, <1>6, <2>1, <2>2 DEF HostTypeOK
<1>10. OthersStay(h)
  BY <1>1, <1>2, <1>6 DEF OthersStay, Reads, HostTypeOK
<1>11. Learns(h)
  BY <1>1 DEF Learns, HostTypeOK
<1>12. phase'[h] = "wait" /\ req'[h] = req[h]
  BY <1>1 DEF HostTypeOK
<1> QED BY <1>1, <1>2, <1>3, <1>4, <1>7, <1>8, <1>9, <1>10, <1>11, <1>12 DEF Turn, Calling


\* A step of a host's link, or of what happens to it, other than the begin of a call.
TurnStep(h) ==
  \/ Accept(h) \/ Stale(h) \/ Timeout(h) \/ Broken(h)
  \/ ConfirmSent(h) \/ ConfirmAnswered(h) \/ RecoveryFails(h) \/ Lost(h) \/ Crash(h)

\* Each of them is a Turn.
LEMMA HostTurns ==
  ASSUME TypeOK, HostTypeOK, NEW h \in Route, PipeInv(h), TurnStep(h)
  PROVE  HostTypeOK' /\ PipeInv(h)' /\ Turn(h)
<1>0. toProbe \in [Route -> Seq(Requests)]
  BY DEF HostTypeOK
<1>1. CASE Accept(h)
  BY <1>1, AcceptTurn
<1>2. CASE Stale(h)
  <2>1. /\ ReadAnswer(h) /\ UNCHANGED <<phase, toProbe, usedSids, pastVars>>
        /\ UNCHANGED <<req, waited, broken, failed, sought, tries, corr, ses, epoch, seen, handles>>
    BY <1>2 DEF Stale, hostVars, wireVars, boundVars
  <2>2. Reads(h)
    BY <2>1, ReadsHead
  <2>3. Shrinks(h)
    BY <2>1, <2>2, ReadsShrinks
  <2> QED BY <1>0, <2>1, <2>2, <2>3, IdleTurn
<1>3. CASE Timeout(h)
  <2>1. /\ phase[h] = "wait" /\ UNCHANGED <<usedSids, runs, maker>>
        /\ IF Spent(h) THEN TransportFails(h) ELSE Resend(h, TRUE)
    BY <1>3 DEF Timeout, boundVars
  <2>2. Reads(h)
    BY <1>3, ReadsNothing DEF Timeout
  <2>3. CASE TransportFails(h)
    <3>1. /\ Over(h) /\ Tell(h, "unknown") /\ Calling(h)
          /\ UNCHANGED <<corr, ses, epoch, seen, handles, toProbe>>
          /\ failed' = [failed EXCEPT ![h] = TRUE]
      BY <2>1, <2>3 DEF TransportFails, Set, Calling
    <3>2. failed' \in [Route -> BOOLEAN] /\ \A g \in Route \ {h} : failed'[g] = failed[g]
      BY <3>1 DEF HostTypeOK
    <3> QED BY <2>1, <2>2, <3>1, <3>2, FailTurn
  <2>4. CASE Resend(h, TRUE)
    BY <2>1, <2>2, <2>4, ResendTurn
  <2> QED BY <2>1, <2>3, <2>4
<1>4. CASE Broken(h)
  <2>1. /\ phase[h] = "wait" /\ UNCHANGED <<usedSids, runs, maker>>
        /\ ReadAnswer(h) \/ UNCHANGED vars
        /\ IF broken[h] < BrokenResends THEN Resend(h, FALSE) ELSE TransportFails(h)
    BY <1>4 DEF Broken
  <2>2. Reads(h)
    BY <2>1, ReadsNothing, ReadsHead
  <2>3. CASE TransportFails(h)
    <3>1. /\ Over(h) /\ Tell(h, "unknown") /\ Calling(h)
          /\ UNCHANGED <<corr, ses, epoch, seen, handles, toProbe>>
          /\ failed' = [failed EXCEPT ![h] = TRUE]
      BY <2>1, <2>3 DEF TransportFails, Set, Calling
    <3>2. failed' \in [Route -> BOOLEAN] /\ \A g \in Route \ {h} : failed'[g] = failed[g]
      BY <3>1 DEF HostTypeOK
    <3> QED BY <2>1, <2>2, <3>1, <3>2, FailTurn
  <2>4. CASE Resend(h, FALSE)
    BY <2>1, <2>2, <2>4, ResendTurn
  <2> QED BY <2>1, <2>3, <2>4
<1>5. CASE ConfirmSent(h)
  BY <1>5, ConfirmTurn
<1>6. CASE ConfirmAnswered(h)
  BY <1>6, AnsweredTurn
<1>7. CASE RecoveryFails(h)
  <2>1. /\ phase[h] = "confirm" /\ Over(h) /\ Tell(h, "not_sent") /\ Calling(h)
        /\ UNCHANGED <<failed, corr, ses, epoch, seen, handles, toProbe, usedSids, runs, maker>>
    BY <1>7 DEF RecoveryFails, wireVars, boundVars, Calling
  <2>2. Reads(h)
    BY <1>7, ReadsNothing DEF RecoveryFails
  <2>3. failed' \in [Route -> BOOLEAN] /\ \A g \in Route \ {h} : failed'[g] = failed[g]
    BY <2>1 DEF HostTypeOK
  <2> QED BY <2>1, <2>2, <2>3, FailTurn
<1>8. CASE Lost(h)
  <2>1. /\ UNCHANGED <<phase, usedSids, pastVars>>
        /\ UNCHANGED <<req, waited, broken, failed, sought, tries, corr, ses, epoch, seen, handles>>
        /\ \/ toProbe[h] # <<>> /\ toProbe' = [toProbe EXCEPT ![h] = Tail(@)] /\ UNCHANGED vars
           \/ ReadAnswer(h) /\ UNCHANGED toProbe
    BY <1>8 DEF Lost, hostVars, wireVars
  <2>2. Reads(h)
    BY <2>1, ReadsNothing, ReadsHead
  <2>3. CASE UNCHANGED toProbe
    <3>1. Shrinks(h)
      BY <2>2, <2>3, ReadsShrinks
    <3> QED BY <1>0, <2>1, <2>2, <2>3, <3>1, IdleTurn
  <2>4. CASE toProbe[h] # <<>> /\ toProbe' = [toProbe EXCEPT ![h] = Tail(@)]
    <3>1. Tail(toProbe[h]) \in Seq(Requests) /\ Shifted(Tail(toProbe[h]), toProbe[h])
      BY <1>0, <2>4, HeadTailProperties, TailShifted
    <3>2. toProbe' \in [Route -> Seq(Requests)] /\ toProbe'[h] = Tail(toProbe[h])
      BY <1>0, <2>4, <3>1
    <3>3. Shrinks(h)
      BY <2>2, <3>1, <3>2 DEF Shrinks, Reads
    <3>4. \A g \in Route \ {h} : toProbe'[g] = toProbe[g]
      BY <1>0, <2>4
    <3> QED BY <2>1, <2>2, <3>2, <3>3, <3>4, IdleTurn
  <2> QED BY <2>1, <2>3, <2>4
<1>9. CASE Crash(h)
  <2>1. /\ phase' = [phase EXCEPT ![h] = "dead"] /\ UNCHANGED <<vars, toProbe, usedSids, pastVars>>
        /\ UNCHANGED <<req, waited, broken, failed, sought, tries, corr, ses, epoch, seen, handles>>
    BY <1>9 DEF Crash, wireVars, boundVars
  <2>2. Reads(h)
    BY <2>1, ReadsNothing
  <2>3. Shrinks(h)
    BY <2>1, <2>2, ReadsShrinks
  <2> QED BY <1>0, <2>1, <2>2, <2>3, IdleTurn
<1> QED BY <1>1, <1>2, <1>3, <1>4, <1>5, <1>6, <1>7, <1>8, <1>9 DEF TurnStep

-------------------------------------------------------------------------------
(* What a Turn leaves of the names, the writes and the connections.         *)

\* A Turn gives a host no request that is not its own or one nobody holds anything by.
LEMMA TurnReqs ==
  ASSUME TypeOK, HostTypeOK, NEW h \in Route, Turn(h)
  PROVE  /\ Heard(h)' \subseteq Heard(h)
         /\ \A r \in Reqs(h)' : r \in Reqs(h) \/ (r.op \notin OpenOps \cup {"write", "connect"} /\ r.sid = NoSid)
         /\ \A r \in Queued(h)' : r \in Queued(h) \/ (r = req'[h] /\ phase'[h] = "wait")
                                    \/ (r \in Confirms /\ r.corr = corr'[h])
<1>1. Heard(h)' \subseteq Heard(h)
  <2>1. answers[h] \in Seq(Answer)
    BY DEF TypeOK
  <2> QED BY <2>1, ShiftedElems DEF Turn, Reads, Heard
<1>2. \A r \in Queued(h)' : r \in Queued(h) \/ (r = req'[h] /\ phase'[h] = "wait")
                              \/ (r \in Confirms /\ r.corr = corr'[h])
  BY DEF Turn
<1>3. NoRequest.op \notin OpenOps \cup {"write", "connect"} /\ NoRequest.sid = NoSid
  BY NoRequestType DEF OpenOps
<1>4. \A r \in Confirms : r.op \notin OpenOps \cup {"write", "connect"} /\ r.sid = NoSid
  BY DEF Confirms, OpenOps
<1>5. req'[h] \in {req[h], NoRequest}
  BY DEF Turn
<1>6. ASSUME NEW r \in Reqs(h)'
      PROVE  r \in Reqs(h) \/ (r.op \notin OpenOps \cup {"write", "connect"} /\ r.sid = NoSid)
  <2>1. r \in {a.req : a \in Heard(h)'} \/ r \in Queued(h)' \/ r = req'[h]
    BY <1>6 DEF Reqs, OnTheWay
  <2> QED BY <1>1, <1>2, <1>3, <1>4, <1>5, <2>1 DEF Reqs, OnTheWay
<1> QED BY <1>1, <1>2, <1>6

\* The others' requests and answers.
LEMMA OthersSame ==
  ASSUME NEW h \in Route, NEW g \in Route \ {h}, OthersStay(h)
  PROVE  /\ Heard(g)' = Heard(g) /\ Queued(g)' = Queued(g) /\ Reqs(g)' = Reqs(g)
         /\ Live(g)' = Live(g) /\ WritesOf(g)' = WritesOf(g) /\ SidsOf(g)' = SidsOf(g)
         /\ Calling(g)' = Calling(g)
<1>1. /\ answers'[g] = answers[g] /\ toProbe'[g] = toProbe[g]
      /\ req'[g] = req[g] /\ phase'[g] = phase[g] /\ ses'[g] = ses[g]
  BY DEF OthersStay
<1>2. Heard(g)' = Heard(g) /\ Queued(g)' = Queued(g)
  BY <1>1 DEF Heard, Queued
<1>3. Reqs(g)' = Reqs(g)
  BY <1>1, <1>2 DEF Reqs, OnTheWay
<1>4. Live(g)' = Live(g) /\ WritesOf(g)' = WritesOf(g) /\ SidsOf(g)' = SidsOf(g) /\ Calling(g)' = Calling(g)
  BY <1>1, <1>2, <1>3 DEF Live, WritesOf, SidsOf, Calling
<1> QED BY <1>2, <1>3, <1>4

\* A caller is told of its own write only, and of no write that is still under way.
LEMMA ToldOwn ==
  ASSUME TypeOK, HostTypeOK, WritesNamed, NEW h \in Route, Turn(h)
  PROVE  /\ \A w \in Writes : outcome[w] # "none" => outcome'[w] # "none"
         /\ \A g \in Route : (Calling(g)' /\ req'[g].op = "write") => outcome'[req'[g].arg] = "pending"
         /\ \A g \in Route : \A r \in WritesOf(g) : outcome'[r.arg] = outcome[r.arg]
                                                     \/ (g = h /\ r = req[h] /\ Told(h, r.arg))
<1>1. \A w \in Writes : outcome'[w] = outcome[w] \/ Told(h, w)
  BY DEF Turn
<1>2. \A w \in Writes : outcome[w] # "none" => outcome'[w] # "none"
  BY <1>1 DEF Told
<1>3. \A g \in Route : (Calling(g) /\ req[g].op = "write") => req[g] \in WritesOf(g)
  BY DEF WritesOf, Reqs
<1>4. ASSUME NEW g \in Route, NEW r \in WritesOf(g)
      PROVE  outcome'[r.arg] = outcome[r.arg] \/ (g = h /\ r = req[h] /\ Told(h, r.arg))
  <2>1. r.arg \in Writes
    BY <1>4 DEF WritesNamed
  <2>2. ASSUME Told(h, r.arg) PROVE g = h /\ r = req[h]
    <3>1. req[h] \in WritesOf(h) /\ req[h].arg = r.arg
      BY <1>3, <2>2 DEF Told
    <3> QED BY <1>4, <3>1 DEF WritesNamed
  <2> QED BY <1>1, <2>1, <2>2
<1>5. ASSUME NEW g \in Route, Calling(g)', req'[g].op = "write"
      PROVE  outcome'[req'[g].arg] = "pending"
  <2>1. Calling(g) /\ req'[g] = req[g]
    <3>1. CASE g = h
      BY <1>5, <3>1 DEF Turn
    <3>2. CASE g # h
      BY <1>5, <3>2 DEF Turn, OthersStay, Calling
    <3> QED BY <3>1, <3>2
  <2>2. req[g] \in WritesOf(g) /\ outcome[req[g].arg] = "pending"
    BY <1>3, <1>5, <2>1 DEF WritesNamed
  <2>3. ~(g = h /\ Told(h, req[g].arg))
    <3>1. Told(h, req[g].arg) => req'[h] = NoRequest
      BY DEF Told
    <3> QED BY <1>5, <3>1, NoRequestType
  <2> QED BY <1>4, <2>1, <2>2, <2>3
<1> QED BY <1>2, <1>4, <1>5

\* Sessions and writes stay of one host, opens before connections.
LEMMA TurnNames ==
  ASSUME TypeOK, HostTypeOK, NEW h \in Route, Turn(h), NameInv
  PROVE  NameInv'
<1>1. /\ Heard(h)' \subseteq Heard(h)
      /\ \A r \in Reqs(h)' : r \in Reqs(h) \/ (r.op \notin OpenOps \cup {"write", "connect"} /\ r.sid = NoSid)
  BY TurnReqs
<1>2. \A g \in Route \ {h} : /\ Reqs(g)' = Reqs(g) /\ WritesOf(g)' = WritesOf(g)
                             /\ SidsOf(g)' = SidsOf(g) /\ Calling(g)' = Calling(g)
                             /\ req'[g] = req[g] /\ ses'[g] = ses[g]
  BY OthersSame DEF Turn, OthersStay
<1>3. SidsOf(h)' \subseteq SidsOf(h)
  <2>1. req[h] \in Reqs(h)
    BY DEF Reqs
  <2>2. ses'[h] \in {ses[h], NoSid, req[h].sid}
    BY DEF Turn
  <2> QED BY <1>1, <2>1, <2>2 DEF SidsOf
<1>4. WritesOf(h)' \subseteq WritesOf(h)
  BY <1>1 DEF WritesOf
<1>5. SidsOwned'
  <2>1. \A g \in Route : SidsOf(g)' \subseteq SidsOf(g)
    BY <1>2, <1>3
  <2>2. usedSids' = usedSids
    BY DEF Turn
  <2> QED BY <2>1, <2>2 DEF NameInv, SidsOwned
<1>6. WritesNamed'
  <2>1. \A g \in Route : WritesOf(g)' \subseteq WritesOf(g)
    BY <1>2, <1>4
  <2>2. /\ \A w \in Writes : outcome[w] # "none" => outcome'[w] # "none"
        /\ \A g \in Route : (Calling(g)' /\ req'[g].op = "write") => outcome'[req'[g].arg] = "pending"
    BY ToldOwn DEF NameInv
  <2>3. \A g \in Route : \A r \in WritesOf(g)' : r.arg \in Writes /\ outcome'[r.arg] # "none"
    BY <2>1, <2>2 DEF NameInv, WritesNamed
  <2>4. \A g, k \in Route : \A r \in WritesOf(g)', q \in WritesOf(k)' : r.arg = q.arg => g = k /\ r = q
    BY <2>1 DEF NameInv, WritesNamed
  <2> QED BY <2>2, <2>3, <2>4 DEF WritesNamed
<1>7. OpensFirst'
  <2> SUFFICES ASSUME NEW g \in Route
               PROVE  /\ \A r, q \in Reqs(g)' : (r.op \in OpenOps /\ q.op = "connect" /\ r.sid = q.sid) => r.corr < q.corr
                      /\ (Calling(g)' /\ req'[g].op = "connect") => req'[g].sid = ses'[g] /\ ses'[g] # NoSid
    BY DEF OpensFirst
  <2>1. CASE g # h
    BY <1>2, <2>1 DEF NameInv, OpensFirst
  <2>2. CASE g = h
    <3>1. \A r, q \in Reqs(h)' : (r.op \in OpenOps /\ q.op = "connect") => r \in Reqs(h) /\ q \in Reqs(h)
      BY <1>1
    <3>2. Calling(h)' => Calling(h) /\ req'[h] = req[h] /\ ses'[h] = ses[h]
      BY DEF Turn
    <3> QED BY <2>2, <3>1, <3>2 DEF NameInv, OpensFirst
  <2> QED BY <2>1, <2>2
<1> QED BY <1>5, <1>6, <1>7 DEF NameInv

\* A write that ran stays the newest of its session, and what callers are told stays true.
LEMMA TurnRuns ==
  ASSUME TypeOK, HostTypeOK, HostPipes, NEW h \in Route, Turn(h), PipeInv(h)',
         NameInv, RunInv
  PROVE  RunInv'
<1>0. runs' = runs /\ resend' = resend /\ holder' = holder /\ newest' = newest
  BY DEF Turn, Reads, probeVars, session, table
<1>1. /\ Heard(h)' \subseteq Heard(h)
      /\ \A r \in Queued(h)' : r \in Queued(h) \/ (r = req'[h] /\ phase'[h] = "wait")
                                 \/ (r \in Confirms /\ r.corr = corr'[h])
  BY TurnReqs
<1>2. \A g \in Route \ {h} : /\ Heard(g)' = Heard(g) /\ Queued(g)' = Queued(g) /\ Live(g)' = Live(g)
                             /\ req'[g] = req[g] /\ phase'[g] = phase[g]
  BY OthersSame DEF Turn, OthersStay
<1>3. \A g \in Route : (phase'[g] = "confirm" => phase[g] = "confirm" /\ req'[g] = req[g])
                       /\ (Calling(g)' => Calling(g) /\ req'[g] = req[g])
  <2>1. Calling(h)' => Calling(h) /\ req'[h] = req[h] /\ (phase'[h] = "confirm" => phase[h] = "confirm")
    BY DEF Turn
  <2> QED BY <1>2, <2>1 DEF Calling
<1>4. \A r \in Confirms : r.op # "write"
  BY DEF Confirms
<1>5. WriteRunsOnce'
  BY <1>0 DEF RunInv, WriteRunsOnce
<1>6. RanStaysNewest'
  <2> SUFFICES ASSUME NEW g \in Route, NEW r \in Live(g)', r.op = "write", runs[r.arg] > 0
               PROVE  /\ \A q \in Queued(g)' : r.corr <= q.corr
                      /\ (holder # NoSid /\ holder = r.sid) => newest = r.corr
    BY <1>0 DEF RanStaysNewest
  <2>1. CASE g # h
    BY <1>2, <2>1 DEF RunInv, RanStaysNewest
  <2>2. CASE g = h
    <3>1. r \in Live(h)
      <4>1. CASE r \in Queued(h)
        BY <4>1 DEF Live
      <4>2. CASE r = req'[h] /\ phase'[h] = "wait"
        <5>1. Calling(h) /\ r = req[h]
          BY <1>3, <4>2 DEF Calling
        <5>2. phase[h] # "confirm"
          BY <5>1 DEF RunInv, OutcomesTrue
        <5> QED BY <5>1, <5>2 DEF Live, Calling
      <4> QED BY <1>1, <1>4, <2>2, <4>1, <4>2 DEF Live
    <3>2. \A q \in Queued(h) : r.corr <= q.corr
      BY <3>1 DEF RunInv, RanStaysNewest
    <3>3. (holder # NoSid /\ holder = r.sid) => newest = r.corr
      BY <3>1 DEF RunInv, RanStaysNewest
    <3>4. r \in OnTheWay(h)' \/ (r = req'[h] /\ phase'[h] = "wait")
      BY <2>2 DEF Live, OnTheWay
    <3>5. r.corr <= corr'[h]
      BY <3>4 DEF PipeInv
    <3>6. r.corr \in Nat
      <4>1. r \in Requests
        BY <3>1, OnTheWayType DEF Live, OnTheWay, HostTypeOK
      <4> QED BY <4>1 DEF Requests
    <3>7. phase'[h] = "wait" => r.corr <= req'[h].corr
      BY <3>4, <3>6 DEF PipeInv
    <3> QED BY <1>1, <2>2, <3>2, <3>3, <3>5, <3>7
  <2> QED BY <2>1, <2>2
<1>7. AnswersRan'
  <2>1. \A g \in Route : Heard(g)' \subseteq Heard(g)
    BY <1>1, <1>2
  <2> QED BY <1>0, <2>1 DEF RunInv, AnswersRan
<1>8. OutcomesTrue'
  <2>1. \A w \in Writes : outcome'[w] = outcome[w] \/ Told(h, w)
    BY DEF Turn
  <2>2. ASSUME NEW w \in Writes, runs[w] > 0 PROVE outcome'[w] \notin {"none", "not_sent"}
    BY <2>1, <2>2 DEF RunInv, OutcomesTrue, Told
  <2>3. ASSUME NEW w \in Writes, outcome'[w] = "ok" PROVE runs[w] > 0
    BY <2>1, <2>3 DEF RunInv, OutcomesTrue, AnswersRan, Told
  <2>4. \A g \in Route : (phase'[g] = "confirm" /\ req'[g].op = "write") => runs[req'[g].arg] = 0
    BY <1>3 DEF RunInv, OutcomesTrue
  <2>5. ASSUME NEW g \in Route, NEW r \in Queued(g)', r.op = "write" PROVE outcome'[r.arg] # "not_sent"
    <3>1. /\ \A k \in Route : (Calling(k)' /\ req'[k].op = "write") => outcome'[req'[k].arg] = "pending"
          /\ \A k \in Route : \A q \in WritesOf(k) : outcome'[q.arg] = outcome[q.arg]
                                                       \/ (k = h /\ q = req[h] /\ Told(h, q.arg))
      BY ToldOwn DEF NameInv
    <3>2. CASE r = req'[g] /\ phase'[g] = "wait"
      BY <2>5, <3>1, <3>2 DEF Calling
    <3>3. CASE r \in Queued(g)
      <4>1. r \in WritesOf(g) /\ outcome[r.arg] # "not_sent"
        BY <2>5, <3>3 DEF WritesOf, Reqs, OnTheWay, RunInv, OutcomesTrue
      <4>2. ASSUME g = h, r = req[h], Told(h, r.arg) PROVE outcome'[r.arg] # "not_sent"
        <5>1. phase[h] = "confirm" => r.corr # req[h].corr
          BY <3>3, <4>2 DEF HostPipes, PipeInv, OnTheWay
        <5> QED BY <4>2, <5>1 DEF Told
      <4> QED BY <3>1, <4>1, <4>2
    <3> QED BY <1>1, <1>2, <1>4, <2>5, <3>2, <3>3
  <2> QED BY <1>0, <2>2, <2>3, <2>4, <2>5 DEF OutcomesTrue
<1> QED BY <1>5, <1>6, <1>7, <1>8 DEF RunInv

\* A connection that is believed in keeps its number, and a new one is the answer's.
LEMMA TurnHandles ==
  ASSUME TypeOK, HostTypeOK, HostPipes, NEW h \in Route, Turn(h), NameInv, HandleInv
  PROVE  HandleInv'
<1>0. maker' = maker /\ resend' = resend /\ holder' = holder /\ nextRes' = nextRes
  BY DEF Turn, Reads, probeVars, session, table
<1>1. /\ Heard(h)' \subseteq Heard(h)
      /\ \A r \in Queued(h)' \cup {req'[h]} :
           r \in Queued(h) \cup {req[h]} \/ r.op \notin OpenOps
  <2>1. req'[h] \in {req[h], NoRequest}
    BY DEF Turn
  <2>2. NoRequest.op \notin OpenOps /\ \A r \in Confirms : r.op \notin OpenOps
    BY NoRequestType DEF Confirms, OpenOps
  <2> QED BY <2>1, <2>2, TurnReqs
<1>2. \A g \in Route \ {h} : /\ Heard(g)' = Heard(g) /\ Queued(g)' = Queued(g) /\ req'[g] = req[g]
                             /\ ses'[g] = ses[g] /\ epoch'[g] = epoch[g] /\ handles'[g] = handles[g]
  BY OthersSame DEF Turn, OthersStay
<1>3. NumbersMade'
  <2>1. \A g \in Route : Heard(g)' \subseteq Heard(g)
    BY <1>1, <1>2
  <2>2. /\ nextRes' >= 1 /\ \A n \in 1..ResMax : maker'[n] # NoRequest => n < nextRes'
    BY <1>0 DEF HandleInv, NumbersMade
  <2>3. \A e \in resend' : (e.ans # Dropped /\ e.ans.res = "ok" /\ e.ans.req.op = "connect")
          => Named(e.ans.val, e.ans.req)'
    BY <1>0 DEF HandleInv, NumbersMade, Named
  <2>4. \A g \in Route : \A a \in Heard(g)' :
          (a.res = "ok" /\ a.req.op = "connect" /\ holder' # NoSid /\ holder' = a.req.sid) => Named(a.val, a.req)'
    BY <1>0, <2>1 DEF HandleInv, NumbersMade, Named
  <2> QED BY <2>2, <2>3, <2>4 DEF NumbersMade
<1>4. \A g \in Route \ {h} : \A c \in handles[g] : Believed(g, c) => Believed(g, c)'
  BY <1>0, <1>2 DEF Believed, Named
<1>5. ASSUME NEW c \in handles[h], Believed(h, c), ses'[h] = ses[h] PROVE Believed(h, c)'
  BY <1>0, <1>1, <1>5 DEF Believed, Named
<1>6. ASSUME NEW a \in Heard(h), phase[h] = "wait", a.res = "ok", a.req = req[h], req[h].op = "connect",
             ses'[h] = ses[h], NEW c, c.num = a.val, c.made = req[h]
      PROVE  Believed(h, c)'
  <2>1. req[h].sid = ses[h] /\ ses[h] # NoSid
    BY <1>6 DEF NameInv, OpensFirst, Calling
  <2>2. holder = ses[h] => Named(a.val, a.req)
    BY <1>6, <2>1 DEF HandleInv, NumbersMade
  <2>3. ASSUME NEW r \in Queued(h), r.op \in OpenOps, r.sid = ses[h] PROVE FALSE
    <3>1. r \in Requests /\ req[h] \in Requests /\ r \in Reqs(h) /\ req[h] \in Reqs(h)
      BY OnTheWayType DEF HostTypeOK, Reqs, OnTheWay
    <3>2. r.corr < req[h].corr
      BY <1>6, <2>1, <2>3, <3>1 DEF NameInv, OpensFirst
    <3>3. PICK A \in Seq(Answer), T \in Seq(Requests) : A = answers[h] /\ T = toProbe[h]
      BY DEF TypeOK, HostTypeOK
    <3>4. Sorted(A, T) /\ a \in Elems(A) /\ r \in Elems(T)
      BY <1>6, <2>3, <3>3 DEF HostPipes, PipeInv, Heard, Queued, Sorted
    <3>5. a.req.corr <= r.corr
      BY <3>4, HeadIsOldest
    <3> QED BY <1>6, <3>1, <3>2, <3>5 DEF Requests
  <2>4. req[h].op \notin OpenOps
    BY <1>6 DEF OpenOps
  <2> QED BY <1>0, <1>1, <1>6, <2>1, <2>2, <2>3, <2>4 DEF Believed, Named
<1>7. HandlesKnown'
  <2> SUFFICES ASSUME NEW g \in Route, NEW c \in handles'[g]
               PROVE  /\ c.epoch <= epoch'[g] /\ c.made.op = "connect"
                      /\ c.epoch = epoch'[g] => Believed(g, c)'
    BY DEF HandlesKnown
  <2>0. \A k \in Route : epoch[k] \in Nat /\ \A b \in handles[k] : b.epoch \in Nat
    BY DEF HostTypeOK, Connection
  <2>1. CASE g # h
    BY <1>2, <1>4, <2>1 DEF HandleInv, HandlesKnown
  <2>2. CASE g = h /\ epoch'[h] = epoch[h] + 1 /\ handles'[h] = handles[h]
    <3>1. c.epoch <= epoch[h] /\ c.made.op = "connect" /\ c.epoch \in Nat /\ epoch[h] \in Nat
      BY <2>0, <2>2 DEF HandleInv, HandlesKnown
    <3> QED BY <2>2, <3>1
  <2>3. CASE g = h /\ epoch'[h] = epoch[h] /\ handles'[h] = handles[h] /\ (ses'[h] = ses[h] \/ ses[h] = NoSid)
    <3>1. c \in handles[h] /\ c.epoch <= epoch[h] /\ c.made.op = "connect" /\ (c.epoch = epoch[h] => Believed(h, c))
      BY <2>3 DEF HandleInv, HandlesKnown
    <3>2. Believed(h, c) => ses'[h] = ses[h]
      BY <2>3 DEF Believed
    <3> QED BY <1>5, <2>3, <3>1, <3>2
  <2>4. CASE /\ g = h /\ epoch'[h] = epoch[h] /\ ses'[h] = ses[h]
             /\ \E a \in Heard(h) :
                  /\ phase[h] = "wait" /\ a.res = "ok" /\ a.req = req[h] /\ req[h].op = "connect"
                  /\ handles'[h] = handles[h] \cup {[num |-> a.val, epoch |-> epoch[h], made |-> req[h]]}
    <3>1. PICK a \in Heard(h) :
            /\ phase[h] = "wait" /\ a.res = "ok" /\ a.req = req[h] /\ req[h].op = "connect"
            /\ handles'[h] = handles[h] \cup {[num |-> a.val, epoch |-> epoch[h], made |-> req[h]]}
      BY <2>4
    <3>2. CASE c \in handles[h]
      BY <1>5, <2>4, <3>2 DEF HandleInv, HandlesKnown
    <3>3. CASE c = [num |-> a.val, epoch |-> epoch[h], made |-> req[h]]
      <4>1. c.num = a.val /\ c.made = req[h] /\ c.epoch = epoch[h]
        BY <3>3
      <4>2. Believed(h, c)'
        BY <1>6, <2>4, <3>1, <4>1
      <4> QED BY <2>0, <2>4, <3>1, <4>1, <4>2
    <3> QED BY <2>4, <3>1, <3>2, <3>3
  <2> QED BY <2>1, <2>2, <2>3, <2>4 DEF Turn, Learns
<1> QED BY <1>3, <1>7 DEF HandleInv

-------------------------------------------------------------------------------
(* What the begin of a call leaves of them.                                 *)

CallStep(h) ==
  \/ \E s \in Sid : CallOpen(h, s)
  \/ CallWrite(h) \/ CallConfirm(h)
  \/ \E op \in {"connect", "end"} : CallSession(h, op)

\* What kind of request r is: an open under a session nobody used, a write nobody made, a request
\* of the session the host believes in, a confirm.
CallKind(h, r) ==
  \/ r.op \in OpenOps /\ r.sid \in Sid \ usedSids /\ usedSids' = usedSids \cup {r.sid} /\ outcome' = outcome
  \/ /\ r.op = "write" /\ r.sid = ses[h] /\ ses[h] # NoSid /\ r.arg \in Writes /\ outcome[r.arg] = "none"
     /\ outcome' = [outcome EXCEPT ![r.arg] = "pending"] /\ usedSids' = usedSids
  \/ /\ r.op \in {"connect", "end"} /\ r.sid = ses[h] /\ ses[h] # NoSid
     /\ usedSids' = usedSids /\ outcome' = outcome
  \/ r.op = "confirm" /\ r.sid = NoSid /\ usedSids' = usedSids /\ outcome' = outcome

\* All that matters of the begin of a call.
Called(h, r) ==
  /\ r.corr = corr[h] + 1 /\ phase[h] = "idle" /\ req[h] = NoRequest /\ req'[h] = r
  /\ OthersStay(h) /\ UNCHANGED <<vars, ses, epoch, handles, runs, maker>>
  /\ Heard(h)' = Heard(h) /\ Queued(h)' \subseteq Queued(h) \cup {r}
  /\ CallKind(h, r)

\* Every call begins so.
LEMMA CallStepType ==
  ASSUME TypeOK, HostTypeOK, NEW h \in Route, PipeInv(h), CallStep(h)
  PROVE  HostTypeOK' /\ PipeInv(h)' /\ Reads(h) /\ OthersStay(h) /\ \E r \in Requests : Called(h, r)
<1>1. ASSUME NEW sid \in Sid \cup {NoSid}, NEW op \in Op, NEW arg \in Nat, Begin(h, sid, op, arg),
             CallKind(h, NewRequest(h, sid, op, arg))
      PROVE  HostTypeOK' /\ PipeInv(h)' /\ Reads(h) /\ OthersStay(h) /\ \E r \in Requests : Called(h, r)
  <2>1. PICK r \in Requests :
            /\ r = NewRequest(h, sid, op, arg) /\ r.corr = corr[h] + 1
            /\ phase[h] = "idle" /\ req[h] = NoRequest
            /\ req'[h] = r /\ corr'[h] = r.corr
            /\ Reads(h) /\ OthersStay(h) /\ Puts(h, r)
            /\ UNCHANGED <<vars, waited, broken, failed, sought, tries, ses, epoch, seen, handles, runs, maker>>
            /\ phase' \in [Route -> {"idle", "wait", "confirm", "dead"}] /\ req' \in [Route -> Requests]
            /\ corr' \in [Route -> 0..CorrMax] /\ toProbe' \in [Route -> Seq(Requests)]
    <3> DEFINE r == NewRequest(h, sid, op, arg)
    <3>1. /\ r \in Requests /\ r.corr = corr[h] + 1
          /\ phase[h] = "idle" /\ req[h] = NoRequest
          /\ req'[h] = r /\ corr'[h] = r.corr
          /\ Reads(h) /\ OthersStay(h) /\ Puts(h, r)
          /\ UNCHANGED <<vars, waited, broken, failed, sought, tries, ses, epoch, seen, handles, runs, maker>>
          /\ phase' \in [Route -> {"idle", "wait", "confirm", "dead"}] /\ req' \in [Route -> Requests]
          /\ corr' \in [Route -> 0..CorrMax] /\ toProbe' \in [Route -> Seq(Requests)]
      BY <1>1, BeginStep
    <3> HIDE DEF r
    <3>2. Puts(h, r)
      BY <3>1
    <3> QED BY <3>1, <3>2 DEF r, Puts
  <2>2. CallKind(h, r)
    BY <1>1, <2>1 DEF CallKind
  <2>3. Queued(h)' \subseteq Queued(h) \cup {r}
    BY <2>1, PutLine
  <2>4. Heard(h)' = Heard(h)
    BY <2>1 DEF Heard, vars
  <2>5. Called(h, r)
    BY <2>1, <2>2, <2>3, <2>4 DEF Called
  <2>6. PipeInv(h)'
    BY <1>1, BeginPipe
  <2>7. usedSids' \subseteq Sid /\ outcome' \in [Writes -> Outcomes]
    BY <2>2 DEF CallKind, HostTypeOK, Outcomes
  <2>8. HostTypeOK'
    BY <2>1, <2>7 DEF HostTypeOK
  <2> QED BY <2>1, <2>5, <2>6, <2>8
<1>2. ASSUME NEW s \in Sid, CallOpen(h, s)
      PROVE  HostTypeOK' /\ PipeInv(h)' /\ Reads(h) /\ OthersStay(h) /\ \E r \in Requests : Called(h, r)
  <2>1. PICK op \in OpenOps : Begin(h, s, op, 0)
    BY <1>2 DEF CallOpen, OpenOps
  <2>2. CallKind(h, NewRequest(h, s, op, 0))
    BY <1>2, <2>1 DEF CallOpen, CallKind, NewRequest
  <2>3. s \in Sid \cup {NoSid} /\ op \in Op /\ 0 \in Nat
    BY DEF OpenOps, Op, LockFree
  <2> QED BY <1>1, <2>1, <2>2, <2>3
<1>3. CASE CallWrite(h)
  <2>1. WriteName \in Writes /\ outcome[WriteName] = "none"
    BY <1>3 DEF CallWrite, WriteName
  <2>2. PICK w \in Writes : w = WriteName /\ outcome[w] = "none"
    BY <2>1
  <2>3. /\ Begin(h, ses[h], "write", w) /\ ses[h] # NoSid /\ usedSids' = usedSids
        /\ outcome' = [outcome EXCEPT ![w] = "pending"]
    BY <1>3, <2>2 DEF CallWrite
  <2>4. CallKind(h, NewRequest(h, ses[h], "write", w))
    BY <2>2, <2>3 DEF CallKind, NewRequest
  <2>5. ses[h] \in Sid \cup {NoSid} /\ "write" \in Op /\ w \in Nat
    BY HostAssumption DEF HostTypeOK, Op, Writes
  <2>6. PICK s \in Sid \cup {NoSid} : s = ses[h]
    BY <2>5
  <2>7. Begin(h, s, "write", w) /\ CallKind(h, NewRequest(h, s, "write", w))
    BY <2>3, <2>4, <2>6 DEF Begin, NewRequest
  <2> QED BY <1>1, <2>5, <2>7
<1>4. CASE CallConfirm(h)
  <2>1. Begin(h, NoSid, "confirm", 0) /\ CallKind(h, NewRequest(h, NoSid, "confirm", 0))
    BY <1>4 DEF CallConfirm, CallKind, NewRequest
  <2>2. NoSid \in Sid \cup {NoSid} /\ "confirm" \in Op /\ 0 \in Nat
    BY DEF Op, LockFree
  <2> QED BY <1>1, <2>1, <2>2
<1>5. ASSUME NEW op \in {"connect", "end"}, CallSession(h, op)
      PROVE  HostTypeOK' /\ PipeInv(h)' /\ Reads(h) /\ OthersStay(h) /\ \E r \in Requests : Called(h, r)
  <2>1. PICK s \in Sid \cup {NoSid} : s = ses[h]
    BY DEF HostTypeOK
  <2>2. Begin(h, s, op, 0) /\ s # NoSid /\ usedSids' = usedSids /\ outcome' = outcome
    BY <1>5, <2>1 DEF CallSession, Begin
  <2>3. CallKind(h, NewRequest(h, s, op, 0))
    BY <2>1, <2>2 DEF CallKind, NewRequest
  <2>4. op \in Op /\ 0 \in Nat
    BY DEF Op
  <2> QED BY <1>1, <2>2, <2>3, <2>4
<1> QED BY <1>2, <1>3, <1>4, <1>5 DEF CallStep

\* The request of a new call is above all the host's, and the only new one.
LEMMA CalledReqs ==
  ASSUME TypeOK, HostTypeOK, NEW h \in Route, PipeInv(h), NEW r \in Requests, Called(h, r)
  PROVE  /\ Reqs(h)' \subseteq Reqs(h) \cup {r}
         /\ \A q \in Reqs(h) : q.corr < r.corr
<1>1. Heard(h)' = Heard(h) /\ Queued(h)' \subseteq Queued(h) \cup {r} /\ req'[h] = r /\ req[h] = NoRequest
  BY DEF Called
<1>2. Reqs(h)' \subseteq Reqs(h) \cup {r}
  BY <1>1 DEF Reqs, OnTheWay
<1>3. corr[h] \in Nat /\ r.corr = corr[h] + 1
  BY DEF Called, HostTypeOK
<1>4. \A q \in Reqs(h) : q.corr \in Nat /\ q.corr <= corr[h]
  <2>1. \A q \in OnTheWay(h) : q.corr \in Nat /\ q.corr <= corr[h]
    BY OnTheWayType DEF PipeInv, Requests
  <2> QED BY <1>1, <1>3, <2>1, NoRequestType DEF Reqs
<1> QED BY <1>2, <1>3, <1>4

\* A new call's request is of a session of the host, or of a new one, or makes a new write.
LEMMA CalledNames ==
  ASSUME TypeOK, HostTypeOK, NEW h \in Route, PipeInv(h), NEW r \in Requests, Called(h, r), NameInv
  PROVE  NameInv'
<1>1. /\ Reqs(h)' \subseteq Reqs(h) \cup {r} /\ \A q \in Reqs(h) : q.corr < r.corr
      /\ req'[h] = r /\ ses' = ses /\ CallKind(h, r)
  BY CalledReqs DEF Called
<1>2. \A g \in Route \ {h} : /\ Reqs(g)' = Reqs(g) /\ WritesOf(g)' = WritesOf(g)
                             /\ SidsOf(g)' = SidsOf(g) /\ Calling(g)' = Calling(g)
                             /\ req'[g] = req[g]
  BY OthersSame DEF Called, OthersStay
<1>3. \A g \in Route : req[g] \in Reqs(g)
  BY DEF Reqs
<1>4. SidsOwned'
  <2>1. SidsOf(h)' \subseteq SidsOf(h) \cup ({r.sid} \ {NoSid})
    BY <1>1 DEF SidsOf
  <2>2. usedSids \subseteq usedSids'
    BY <1>1 DEF CallKind
  <2>3. \/ r.sid \in usedSids' \ usedSids
        \/ r.sid \in SidsOf(h) \cup {NoSid}
    BY <1>1 DEF CallKind, SidsOf
  <2>4. \A g \in Route : SidsOf(g) \subseteq usedSids
    BY DEF NameInv, SidsOwned
  <2>5. \A g \in Route : SidsOf(g)' \subseteq usedSids'
    BY <1>2, <2>1, <2>2, <2>3, <2>4
  <2>6. \A g \in Route \ {h} : SidsOf(g)' \cap SidsOf(h)' = {}
    BY <1>2, <2>1, <2>3, <2>4 DEF NameInv, SidsOwned
  <2>7. \A g, k \in Route : g # k => SidsOf(g)' \cap SidsOf(k)' = {}
    BY <1>2, <2>6 DEF NameInv, SidsOwned
  <2> QED BY <2>5, <2>7 DEF SidsOwned
<1>5. WritesNamed'
  <2>1. CASE r.op # "write"
    <3>1. WritesOf(h)' \subseteq WritesOf(h)
      BY <1>1, <2>1 DEF WritesOf
    <3>2. outcome' = outcome
      BY <1>1, <2>1 DEF CallKind
    <3> QED BY <1>1, <1>2, <2>1, <3>1, <3>2 DEF NameInv, WritesNamed
  <2>2. CASE r.op = "write"
    <3>1. /\ r.arg \in Writes /\ outcome[r.arg] = "none"
          /\ outcome' = [outcome EXCEPT ![r.arg] = "pending"]
      BY <1>1, <2>2 DEF CallKind, OpenOps
    <3>2. WritesOf(h)' \subseteq WritesOf(h) \cup {r}
      BY <1>1 DEF WritesOf
    <3>3. \A g \in Route : \A q \in WritesOf(g) : q.arg \in Writes /\ outcome[q.arg] # "none" /\ q.arg # r.arg
      BY <3>1 DEF NameInv, WritesNamed
    <3>4. /\ outcome'[r.arg] = "pending"
          /\ \A w \in Writes : w # r.arg => outcome'[w] = outcome[w]
      BY <3>1 DEF HostTypeOK
    <3>5. \A g \in Route : \A q \in WritesOf(g)' : q.arg \in Writes /\ outcome'[q.arg] # "none"
      BY <1>2, <3>1, <3>2, <3>3, <3>4
    <3>6. \A g, k \in Route : \A p \in WritesOf(g)', q \in WritesOf(k)' : p.arg = q.arg => g = k /\ p = q
      BY <1>2, <3>2, <3>3 DEF NameInv, WritesNamed
    <3>7. ASSUME NEW g \in Route, Calling(g)', req'[g].op = "write" PROVE outcome'[req'[g].arg] = "pending"
      <4>1. CASE g = h
        BY <1>1, <3>4, <4>1
      <4>2. CASE g # h
        <5>1. Calling(g) /\ req'[g] = req[g] /\ req[g] \in WritesOf(g)
          BY <1>2, <1>3, <3>7, <4>2 DEF WritesOf
        <5> QED BY <3>3, <3>4, <3>7, <5>1 DEF NameInv, WritesNamed
      <4> QED BY <4>1, <4>2
    <3> QED BY <3>5, <3>6, <3>7 DEF WritesNamed
  <2> QED BY <2>1, <2>2
<1>6. OpensFirst'
  <2> SUFFICES ASSUME NEW g \in Route
               PROVE  /\ \A p, q \in Reqs(g)' : (p.op \in OpenOps /\ q.op = "connect" /\ p.sid = q.sid) => p.corr < q.corr
                      /\ (Calling(g)' /\ req'[g].op = "connect") => req'[g].sid = ses'[g] /\ ses'[g] # NoSid
    BY DEF OpensFirst
  <2>1. CASE g # h
    BY <1>1, <1>2, <2>1 DEF NameInv, OpensFirst
  <2>2. CASE g = h
    <3>1. \A p, q \in Reqs(h) : (p.op \in OpenOps /\ q.op = "connect" /\ p.sid = q.sid) => p.corr < q.corr
      BY DEF NameInv, OpensFirst
    <3>2. ASSUME r.op \in OpenOps, NEW q \in Reqs(h) PROVE q.sid # r.sid
      <4>1. r.sid \in Sid \ usedSids
        BY <1>1, <3>2 DEF CallKind, OpenOps
      <4>2. q.sid \in usedSids \cup {NoSid}
        BY DEF NameInv, SidsOwned, SidsOf
      <4> QED BY <4>1, <4>2, ProbeAssumption
    <3>3. r.op = "connect" => r.sid = ses[h] /\ ses[h] # NoSid
      BY <1>1 DEF CallKind, OpenOps
    <3>4. ~(r.op \in OpenOps /\ r.op = "connect")
      BY DEF OpenOps
    <3>5. \A p, q \in Reqs(h)' : (p.op \in OpenOps /\ q.op = "connect" /\ p.sid = q.sid) => p.corr < q.corr
      BY <1>1, <3>1, <3>2, <3>4
    <3> QED BY <1>1, <2>2, <3>3, <3>5
  <2> QED BY <2>1, <2>2
<1> QED BY <1>4, <1>5, <1>6 DEF NameInv

\* A write that is called now has not run.
LEMMA CalledRuns ==
  ASSUME TypeOK, HostTypeOK, NEW h \in Route, PipeInv(h), NEW r \in Requests, Called(h, r), NameInv, RunInv
  PROVE  RunInv'
<1>0. UNCHANGED <<runs, resend, holder, newest>>
  BY DEF Called, vars, session, table
<1>1. /\ Heard(h)' = Heard(h) /\ Queued(h)' \subseteq Queued(h) \cup {r}
      /\ req'[h] = r /\ CallKind(h, r) /\ phase[h] = "idle"
      /\ \A q \in Reqs(h) : q.corr < r.corr
  BY CalledReqs DEF Called
<1>2. \A g \in Route \ {h} : /\ Heard(g)' = Heard(g) /\ Queued(g)' = Queued(g) /\ Live(g)' = Live(g)
                             /\ req'[g] = req[g] /\ phase'[g] = phase[g]
  BY OthersSame DEF Called, OthersStay
<1>3. r.op = "write" => r.arg \in Writes /\ outcome[r.arg] = "none" /\ runs[r.arg] = 0
  <2>1. r.op = "write" => r.arg \in Writes /\ outcome[r.arg] = "none"
    BY <1>1 DEF CallKind, OpenOps
  <2>2. \A w \in Writes : runs[w] \in Nat /\ (runs[w] > 0 => outcome[w] # "none")
    BY DEF RunInv, OutcomesTrue, HostTypeOK
  <2> QED BY <2>1, <2>2
<1>4. \A w \in Writes : outcome'[w] = outcome[w] \/ (w = r.arg /\ r.op = "write" /\ outcome'[w] = "pending")
  BY <1>1 DEF CallKind, HostTypeOK
<1>5. WriteRunsOnce'
  BY <1>0 DEF RunInv, WriteRunsOnce
<1>6. RanStaysNewest'
  <2> SUFFICES ASSUME NEW g \in Route, NEW p \in Live(g)', p.op = "write", runs[p.arg] > 0
               PROVE  /\ \A q \in Queued(g)' : p.corr <= q.corr
                      /\ (holder # NoSid /\ holder = p.sid) => newest = p.corr
    BY <1>0 DEF RanStaysNewest
  <2>1. CASE g # h
    BY <1>2, <2>1 DEF RunInv, RanStaysNewest
  <2>2. CASE g = h
    <3>1. p # r
      BY <1>3
    <3>2. p \in Queued(h) /\ p \in Live(h) /\ p \in Reqs(h)
      BY <1>1, <2>2, <3>1 DEF Live, Reqs, OnTheWay
    <3>3. p.corr < r.corr /\ p.corr \in Nat /\ r.corr \in Nat
      BY <1>1, <3>2, OnTheWayType DEF OnTheWay, Requests
    <3>4. p.corr <= r.corr
      BY <3>3
    <3> QED BY <1>1, <2>2, <3>2, <3>4 DEF RunInv, RanStaysNewest
  <2> QED BY <2>1, <2>2
<1>7. AnswersRan'
  <2>1. \A g \in Route : Heard(g)' = Heard(g)
    BY <1>1, <1>2
  <2> QED BY <1>0, <2>1 DEF RunInv, AnswersRan
<1>8. OutcomesTrue'
  <2>1. \A w \in Writes : runs[w] > 0 => outcome'[w] \notin {"none", "not_sent"}
    BY <1>4 DEF RunInv, OutcomesTrue
  <2>2. \A w \in Writes : outcome'[w] = "ok" => runs[w] > 0
    BY <1>4 DEF RunInv, OutcomesTrue
  <2>3. ASSUME NEW g \in Route, phase'[g] = "confirm", req'[g].op = "write" PROVE runs[req'[g].arg] = 0
    BY <1>1, <1>2, <1>3, <2>3 DEF RunInv, OutcomesTrue
  <2>4. ASSUME NEW g \in Route, NEW q \in Queued(g)', q.op = "write" PROVE outcome'[q.arg] # "not_sent"
    <3>1. CASE g = h /\ q = r
      BY <1>3, <1>4, <2>4, <3>1
    <3>2. CASE q \in Queued(g)
      <4>1. q \in WritesOf(g) /\ outcome[q.arg] # "not_sent"
        BY <2>4, <3>2 DEF WritesOf, Reqs, OnTheWay, RunInv, OutcomesTrue
      <4>2. q.arg \in Writes
        BY <4>1 DEF NameInv, WritesNamed
      <4> QED BY <1>4, <4>1, <4>2
    <3> QED BY <1>1, <1>2, <2>4, <3>1, <3>2
  <2> QED BY <1>0, <2>1, <2>2, <2>3, <2>4 DEF OutcomesTrue
<1> QED BY <1>5, <1>6, <1>7, <1>8 DEF RunInv

\* A session that has connections is not opened again.
LEMMA CalledHandles ==
  ASSUME TypeOK, HostTypeOK, NEW h \in Route, PipeInv(h), NEW r \in Requests, Called(h, r), NameInv, HandleInv
  PROVE  HandleInv'
<1>0. UNCHANGED <<maker, resend, holder, nextRes, ses, epoch, handles>>
  BY DEF Called, vars, session, table
<1>1. /\ Heard(h)' = Heard(h) /\ Queued(h)' \subseteq Queued(h) \cup {r} /\ req'[h] = r /\ CallKind(h, r)
  BY DEF Called
<1>2. \A g \in Route \ {h} : Heard(g)' = Heard(g) /\ Queued(g)' = Queued(g) /\ req'[g] = req[g]
  BY OthersSame DEF Called, OthersStay
<1>3. NumbersMade'
  <2>1. \A g \in Route : Heard(g)' = Heard(g)
    BY <1>1, <1>2
  <2> QED BY <1>0, <2>1 DEF HandleInv, NumbersMade, Named
<1>4. r.op \in OpenOps => r.sid # ses[h]
  <2>1. r.op \in OpenOps => r.sid \in Sid \ usedSids
    BY <1>1 DEF CallKind, OpenOps
  <2>2. ses[h] \in usedSids \cup {NoSid}
    BY DEF NameInv, SidsOwned, SidsOf
  <2> QED BY <2>1, <2>2, ProbeAssumption
<1>5. ASSUME NEW g \in Route, NEW c \in handles[g], Believed(g, c) PROVE Believed(g, c)'
  <2>1. \A q \in Queued(g)' \cup {req'[g]} : q.op \in OpenOps => q.sid # ses[g]
    BY <1>1, <1>2, <1>4, <1>5 DEF Believed
  <2> QED BY <1>0, <1>5, <2>1 DEF Believed, Named
<1>6. HandlesKnown'
  BY <1>0, <1>5 DEF HandleInv, HandlesKnown
<1> QED BY <1>3, <1>6 DEF HandleInv

-------------------------------------------------------------------------------
(* The probe takes the oldest request of a line.                            *)

\* All that matters of it: the request r and its answer a.
Served(h, r, a) ==
  /\ Handle(h, r) /\ Effect(h, r, a) /\ Takes(h, a) /\ a.req = r /\ r = Head(toProbe[h])
  /\ OthersStay(h) /\ UNCHANGED <<hostVars, usedSids, outcome>>
  /\ runs' = IF Reaches(h, r, "write") THEN [runs EXCEPT ![r.arg] = @ + 1] ELSE runs
  /\ maker' = IF nextRes' > nextRes THEN [maker EXCEPT ![nextRes] = r] ELSE maker

\* The step is one of these, and keeps the invariants of the probe.
LEMMA TakesServed ==
  ASSUME ProbeInv, HostTypeOK, NEW h \in Route, ProbeTakes(h)
  PROVE  /\ ProbeInv' /\ HostTypeOK'
         /\ \E r \in Requests, a \in Answer : Served(h, r, a)
<1>1. toProbe[h] # <<>> /\ toProbe[h] \in Seq(Requests) /\ toProbe' = [toProbe EXCEPT ![h] = Tail(@)]
  BY DEF ProbeTakes, HostTypeOK
<1>2. PICK r \in Requests :
         /\ r = Head(toProbe[h]) /\ Handle(h, r)
         /\ runs' = IF Reaches(h, r, "write") THEN [runs EXCEPT ![r.arg] = @ + 1] ELSE runs
         /\ maker' = IF nextRes' > nextRes THEN [maker EXCEPT ![nextRes] = r] ELSE maker
  <2>1. Head(toProbe[h]) \in Requests
    BY <1>1, HeadElem
  <2>2. PICK r \in {Head(toProbe[h])} :
          /\ Handle(h, r)
          /\ runs' = IF Reaches(h, r, "write") THEN [runs EXCEPT ![r.arg] = @ + 1] ELSE runs
          /\ maker' = IF nextRes' > nextRes THEN [maker EXCEPT ![nextRes] = r] ELSE maker
    BY DEF ProbeTakes
  <2>3. r \in Requests /\ r = Head(toProbe[h])
    BY <2>1, <2>2
  <2> QED BY <2>2, <2>3
<1>3. UNCHANGED <<hostVars, usedSids, outcome>>
  BY DEF ProbeTakes, boundVars
<1>4. PICK a \in Answer : Effect(h, r, a)
  BY <1>2, HandleEffect DEF ProbeInv
<1>5. ProbeInv'
  BY <1>2, <1>4, HandleType, HandleLock, EffectRecords DEF ProbeInv
<1>6. a.req = r /\ answers' = [answers EXCEPT ![h] = Append(@, a)]
  BY <1>4 DEF Effect, Send
<1>7. answers'[h] = Append(answers[h], a) /\ \A g \in Route \ {h} : answers'[g] = answers[g]
  BY <1>6 DEF ProbeInv, TypeOK
<1>8. toProbe'[h] = Tail(toProbe[h]) /\ \A g \in Route \ {h} : toProbe'[g] = toProbe[g]
  BY <1>1 DEF HostTypeOK
<1>9. Takes(h, a)
  BY <1>1, <1>2, <1>6, <1>7, <1>8 DEF Takes
<1>10. OthersStay(h)
  BY <1>3, <1>7, <1>8 DEF OthersStay, hostVars
<1>11. HostTypeOK'
  <2>1. toProbe' \in [Route -> Seq(Requests)]
    <3>1. Tail(toProbe[h]) \in Seq(Requests)
      BY <1>1, HeadTailProperties
    <3> QED BY <1>1, <3>1 DEF HostTypeOK
  <2>2. runs' \in [Writes -> Nat]
    <3>1. r.arg \in Writes => runs[r.arg] + 1 \in Nat
      BY DEF HostTypeOK
    <3> QED BY <1>2, <3>1 DEF HostTypeOK
  <2>3. maker' \in [1..ResMax -> Requests]
    BY <1>2 DEF HostTypeOK
  <2> QED BY <1>3, <2>1, <2>2, <2>3 DEF HostTypeOK, hostVars
<1>12. Served(h, r, a)
  BY <1>2, <1>3, <1>4, <1>6, <1>9, <1>10 DEF Served
<1> QED BY <1>5, <1>11, <1>12

\* What is on the way stays, but for the request taken and its answer.
LEMMA ServedLine ==
  ASSUME TypeOK, HostTypeOK, HostPipes, NEW h \in Route, NEW r \in Requests, NEW a \in Answer, Served(h, r, a)
  PROVE  /\ HostPipes'
         /\ \A g \in Route : /\ Queued(g)' \subseteq Queued(g) /\ OnTheWay(g)' \subseteq OnTheWay(g)
                             /\ Reqs(g)' \subseteq Reqs(g) /\ Live(g)' \subseteq Live(g)
                             /\ SidsOf(g)' \subseteq SidsOf(g) /\ WritesOf(g)' \subseteq WritesOf(g)
         /\ \A g \in Route : \A b \in Heard(g)' : b \in Heard(g) \/ (g = h /\ b = a)
         /\ r \in Queued(h) /\ r \in Reqs(h)
         /\ \A q \in Queued(h) : r.corr <= q.corr
         /\ \A b \in Heard(h) : b.req.corr <= r.corr
<1>1. Takes(h, a) /\ OthersStay(h) /\ UNCHANGED hostVars /\ r = Head(toProbe[h]) /\ toProbe[h] # <<>>
  BY DEF Served, Takes
<1>2. /\ Head(toProbe[h]) \in Queued(h)
      /\ Heard(h)' = Heard(h) \cup {a} /\ Queued(h)' \subseteq Queued(h)
      /\ OnTheWay(h)' \subseteq OnTheWay(h)
      /\ Sorted(answers[h], toProbe[h]) => Sorted(answers[h], toProbe[h])'
      /\ \A c \in Nat : LastOnly(answers[h], toProbe[h], c) => LastOnly(answers'[h], toProbe'[h], c)
  BY <1>1, TakenLine
<1>3. /\ corr'[h] = corr[h] /\ req'[h] = req[h] /\ phase'[h] = phase[h]
      /\ tries'[h] = tries[h] /\ sought'[h] = sought[h]
  BY <1>1 DEF hostVars
<1>4. PipeInv(h)
  BY DEF HostPipes
<1>5. PipeInv(h)'
  <2>1. phase'[h] \in {phase[h], "dead"}
    BY <1>3
  <2> QED BY <1>2, <1>3, <1>4, <2>1, KeptPipe
<1>6. HostPipes'
  BY <1>1, <1>5, OthersPipes DEF HostPipes
<1>7. r \in Queued(h) /\ r \in Reqs(h)
  BY <1>1, <1>2 DEF Reqs, OnTheWay
<1>8. PICK A \in Seq(Answer), T \in Seq(Requests) : A = answers[h] /\ T = toProbe[h]
  BY DEF TypeOK, HostTypeOK
<1>9. /\ \A q \in Elems(T) : Head(T).corr <= q.corr
      /\ \A b \in Elems(A), q \in Elems(T) : b.req.corr <= q.corr
  <2>1. Sorted(A, T) /\ T # <<>>
    BY <1>1, <1>4, <1>8 DEF PipeInv, Sorted
  <2> QED BY <2>1, HeadIsOldest
<1>10. /\ \A q \in Queued(h) : r.corr <= q.corr
       /\ \A b \in Heard(h) : b.req.corr <= r.corr
  BY <1>1, <1>7, <1>8, <1>9 DEF Queued, Heard
<1>11. UNCHANGED <<req, phase, ses>>
  BY <1>1 DEF hostVars
<1>12. \A g \in Route : Queued(g)' \subseteq Queued(g) /\ OnTheWay(g)' \subseteq OnTheWay(g)
  <2>1. \A g \in Route \ {h} : answers'[g] = answers[g] /\ toProbe'[g] = toProbe[g]
    BY <1>1 DEF OthersStay
  <2>2. \A g \in Route \ {h} : Queued(g)' = Queued(g) /\ Heard(g)' = Heard(g)
    BY <2>1 DEF Queued, Heard
  <2> QED BY <1>2, <2>2 DEF OnTheWay
<1>13. \A g \in Route : /\ Reqs(g)' \subseteq Reqs(g) /\ Live(g)' \subseteq Live(g)
                        /\ SidsOf(g)' \subseteq SidsOf(g) /\ WritesOf(g)' \subseteq WritesOf(g)
  BY <1>11, <1>12 DEF Reqs, Live, SidsOf, WritesOf
<1>14. \A g \in Route : \A b \in Heard(g)' : b \in Heard(g) \/ (g = h /\ b = a)
  <2>1. \A g \in Route \ {h} : Heard(g)' = Heard(g)
    BY <1>1, OthersSame
  <2> QED BY <1>2, <2>1
<1> QED BY <1>6, <1>7, <1>10, <1>12, <1>13, <1>14

\* Names stay as they were.
LEMMA ServedNames ==
  ASSUME TypeOK, HostTypeOK, HostPipes, NEW h \in Route, NEW r \in Requests, NEW a \in Answer, Served(h, r, a),
         NameInv
  PROVE  NameInv'
<1>1. \A g \in Route : Reqs(g)' \subseteq Reqs(g) /\ SidsOf(g)' \subseteq SidsOf(g) /\ WritesOf(g)' \subseteq WritesOf(g)
  BY ServedLine
<1>2. UNCHANGED <<req, phase, ses, usedSids, outcome>>
  BY DEF Served, hostVars
<1>3. SidsOwned'
  BY <1>1, <1>2 DEF NameInv, SidsOwned
<1>4. WritesNamed'
  BY <1>1, <1>2 DEF NameInv, WritesNamed, Calling
<1>5. OpensFirst'
  BY <1>1, <1>2 DEF NameInv, OpensFirst, Calling
<1> QED BY <1>3, <1>4, <1>5 DEF NameInv

\* A session that has the lock after the step has it as before, or r has just opened it; and if
\* newest is another now, it is r's, which is of that session.
LEMMA ServedLock ==
  ASSUME TypeOK, LockInv', NEW h \in Route, NEW r \in Requests, NEW a \in Answer, Served(h, r, a), holder' # NoSid
  PROVE  /\ holder' = holder \/ (r.op \in OpenOps /\ r.sid = holder')
         /\ newest' = newest \/ (newest' = r.corr /\ r.sid = holder')
<1>1. /\ newest' = newest \/ (newest' = r.corr /\ r.sid = last')
      /\ holder' \in {holder, NoSid} \/ (r.op \in OpenOps /\ holder' = r.sid)
  BY DEF Served, Effect
<1>2. holder' = last'
  BY DEF LockInv
<1> QED BY <1>1, <1>2

\* A request of a session of host g is of no other host.
LEMMA SidOfOne ==
  ASSUME SidsOwned, NEW g \in Route, NEW h \in Route, NEW s, s # NoSid,
         s \in {r.sid : r \in Reqs(g)} \cup {ses[g]}, s \in {r.sid : r \in Reqs(h)} \cup {ses[h]}
  PROVE  g = h
BY DEF SidsOwned, SidsOf

\* The write that the probe handles has not run, and one that ran stays the newest of its session.
LEMMA ServedRuns ==
  ASSUME ProbeInv, ProbeInv', HostTypeOK, HostPipes,
         NEW h \in Route, NEW r \in Requests, NEW a \in Answer, Served(h, r, a), NameInv, RunInv
  PROVE  RunInv'
<1>0. TypeOK /\ LockInv /\ LockInv'
  BY DEF ProbeInv
<1>1. /\ \A g \in Route : /\ Queued(g)' \subseteq Queued(g) /\ Live(g)' \subseteq Live(g)
                          /\ Reqs(g)' \subseteq Reqs(g) /\ WritesOf(g)' \subseteq WritesOf(g)
      /\ \A g \in Route : \A b \in Heard(g)' : b \in Heard(g) \/ (g = h /\ b = a)
      /\ r \in Queued(h) /\ r \in Reqs(h) /\ \A q \in Queued(h) : r.corr <= q.corr
  BY <1>0, ServedLine
<1>2. UNCHANGED <<req, phase, outcome>> /\ a.req = r
  BY DEF Served, hostVars
<1>3. /\ Reaches(h, r, "write") => /\ runs' = [runs EXCEPT ![r.arg] = @ + 1] /\ r.op = "write"
                                   /\ r \in WritesOf(h) /\ r.arg \in Writes
      /\ ~Reaches(h, r, "write") => runs' = runs
  <2>1. Reaches(h, r, "write") => r.op = "write" /\ r \in WritesOf(h)
    BY <1>1 DEF Reaches, WritesOf
  <2> QED BY <2>1 DEF Served, NameInv, WritesNamed
<1>4. Reaches(h, r, "write") => runs[r.arg] = 0 /\ newest' = r.corr
  <2> SUFFICES ASSUME Reaches(h, r, "write") PROVE runs[r.arg] = 0 /\ newest' = r.corr
    OBVIOUS
  <2>1. r.sid = holder /\ holder # NoSid /\ newest' = r.corr /\ newest # r.corr
    BY <1>0, WriteReached DEF Served
  <2>2. r \in Live(h) /\ r.op = "write"
    BY <1>1, <1>3 DEF Live
  <2>3. ~(runs[r.arg] > 0)
    BY <2>1, <2>2 DEF RunInv, RanStaysNewest
  <2>4. runs[r.arg] \in Nat
    BY <1>3 DEF HostTypeOK
  <2> QED BY <2>1, <2>3, <2>4
<1>5. \A w \in Writes : /\ runs[w] > 0 => runs'[w] > 0
                        /\ runs'[w] > 0 => runs[w] > 0 \/ (Reaches(h, r, "write") /\ w = r.arg)
                        /\ runs'[w] <= 1
  <2>1. \A w \in Writes : runs[w] \in Nat /\ runs[w] <= 1
    BY DEF HostTypeOK, RunInv, WriteRunsOnce
  <2>2. CASE Reaches(h, r, "write")
    <3>1. runs'[r.arg] = 1 /\ \A w \in Writes \ {r.arg} : runs'[w] = runs[w]
      BY <1>3, <1>4, <2>2 DEF HostTypeOK
    <3> QED BY <2>1, <2>2, <3>1
  <2>3. CASE ~Reaches(h, r, "write")
    BY <1>3, <2>1, <2>3
  <2> QED BY <2>2, <2>3
<1>6. \A g \in Route : Live(g) \subseteq Reqs(g) /\ \A q \in Live(g) : q.op = "write" => q \in WritesOf(g) /\ q.arg \in Writes
  <2>1. \A g \in Route : Live(g) \subseteq Reqs(g)
    BY DEF Live, Reqs, OnTheWay
  <2> QED BY <2>1 DEF WritesOf, NameInv, WritesNamed
<1>7. WriteRunsOnce'
  BY <1>5 DEF WriteRunsOnce
<1>8. RanStaysNewest'
  <2> SUFFICES ASSUME NEW g \in Route, NEW x \in Live(g)', x.op = "write", runs'[x.arg] > 0
               PROVE  /\ \A q \in Queued(g)' : x.corr <= q.corr
                      /\ (holder' # NoSid /\ holder' = x.sid) => newest' = x.corr
    BY DEF RanStaysNewest
  <2>0. x \in Live(g) /\ x \in Reqs(g) /\ x \in WritesOf(g) /\ x.arg \in Writes
    BY <1>1, <1>6
  <2>1. CASE runs[x.arg] > 0
    <3>1. /\ \A q \in Queued(g) : x.corr <= q.corr
          /\ (holder # NoSid /\ holder = x.sid) => newest = x.corr
      BY <2>0, <2>1 DEF RunInv, RanStaysNewest
    <3>2. ASSUME holder' # NoSid, holder' = x.sid PROVE newest' = x.corr
      <4>1. /\ holder' = holder \/ (r.op \in OpenOps /\ r.sid = holder')
            /\ newest' = newest \/ (newest' = r.corr /\ r.sid = holder')
        BY <1>0, <3>2, ServedLock
      <4>2. ASSUME r.sid = x.sid PROVE r.corr = x.corr /\ r = x
        <5>1. g = h
          BY <1>1, <2>0, <3>2, <4>2, SidOfOne DEF NameInv
        <5>2. x.corr <= r.corr
          BY <1>1, <3>1, <5>1
        <5>3. r.corr <= x.corr
          <6>1. CASE x \in Queued(h)
            BY <1>1, <6>1
          <6>2. CASE x = req[h] /\ phase[h] = "wait"
            BY <1>1, <6>2 DEF HostPipes, PipeInv, OnTheWay
          <6> QED BY <2>0, <5>1, <6>1, <6>2 DEF Live
        <5>4. x.corr \in Nat /\ r.corr \in Nat
          <6>1. x \in Requests
            BY <1>0, <2>0, OnTheWayType DEF Live, OnTheWay, HostTypeOK
          <6> QED BY <6>1 DEF Requests
        <5>5. r.corr = x.corr
          BY <5>2, <5>3, <5>4
        <5> QED BY <1>1, <2>0, <5>1, <5>5 DEF HostPipes, PipeInv
      <4>3. ~(r.op \in OpenOps /\ r.sid = holder')
        <5>1. "write" \notin OpenOps
          BY DEF OpenOps
        <5> QED BY <3>2, <4>2, <5>1
      <4> QED BY <3>1, <3>2, <4>1, <4>2, <4>3
    <3> QED BY <1>1, <3>1, <3>2
  <2>2. CASE ~(runs[x.arg] > 0)
    <3>1. Reaches(h, r, "write") /\ x.arg = r.arg
      BY <1>5, <2>0, <2>2
    <3>2. g = h /\ x = r
      BY <1>3, <2>0, <3>1 DEF NameInv, WritesNamed
    <3> QED BY <1>1, <1>4, <3>1, <3>2
  <2> QED BY <2>1, <2>2
<1>9. (a.res = "ok" /\ a.req.op = "write") => a.req.arg \in Writes /\ runs'[a.req.arg] > 0
  <2> SUFFICES ASSUME a.res = "ok", r.op = "write" PROVE r.arg \in Writes /\ runs'[r.arg] > 0
    BY <1>2
  <2>1. r.arg \in Writes
    BY <1>1 DEF WritesOf, NameInv, WritesNamed
  <2>2. CASE Reaches(h, r, "write")
    <3>1. runs'[r.arg] = 1
      BY <1>3, <1>4, <2>1, <2>2 DEF HostTypeOK
    <3> QED BY <2>1, <3>1
  <2>3. CASE \E e \in resend : e.ans = a
    <3>1. a # Dropped
      BY ProbeAssumption
    <3>2. runs[r.arg] > 0
      BY <1>2, <2>3, <3>1 DEF RunInv, AnswersRan
    <3> QED BY <1>5, <2>1, <3>2
  <2> QED BY <2>2, <2>3 DEF Served, Effect
<1>10. AnswersRan'
  <2>1. ASSUME NEW g \in Route, NEW b \in Heard(g)', b.res = "ok", b.req.op = "write" PROVE runs'[b.req.arg] > 0
    <3>1. CASE b \in Heard(g)
      <4>1. b.req \in WritesOf(g) /\ runs[b.req.arg] > 0
        BY <2>1, <3>1 DEF WritesOf, Reqs, OnTheWay, RunInv, AnswersRan
      <4>2. b.req.arg \in Writes
        BY <4>1 DEF NameInv, WritesNamed
      <4> QED BY <1>5, <4>1, <4>2
    <3> QED BY <1>1, <1>9, <2>1, <3>1
  <2>2. ASSUME NEW e \in resend', e.ans # Dropped, e.ans.res = "ok", e.ans.req.op = "write"
        PROVE  e.ans.req.arg \in Writes /\ runs'[e.ans.req.arg] > 0
    <3>1. CASE e \in resend
      <4>1. e.ans.req.arg \in Writes /\ runs[e.ans.req.arg] > 0
        BY <2>2, <3>1 DEF RunInv, AnswersRan
      <4> QED BY <1>5, <4>1
    <3>2. CASE e.ans = a
      BY <1>9, <2>2, <3>2
    <3> QED BY <2>2, <3>1, <3>2 DEF Served, Effect, Recorded
  <2> QED BY <2>1, <2>2 DEF AnswersRan
<1>11. OutcomesTrue'
  <2>1. \A w \in Writes : runs'[w] > 0 => outcome[w] \notin {"none", "not_sent"}
    <3>1. Reaches(h, r, "write") => outcome[r.arg] \notin {"none", "not_sent"}
      BY <1>1, <1>3 DEF NameInv, WritesNamed, RunInv, OutcomesTrue
    <3> QED BY <1>5, <3>1 DEF RunInv, OutcomesTrue
  <2>2. \A w \in Writes : outcome[w] = "ok" => runs'[w] > 0
    BY <1>5 DEF RunInv, OutcomesTrue
  <2>3. ASSUME NEW g \in Route, phase[g] = "confirm", req[g].op = "write" PROVE runs'[req[g].arg] = 0
    <3>1. req[g] \in WritesOf(g) /\ req[g].arg \in Writes /\ runs[req[g].arg] = 0
      BY <2>3 DEF WritesOf, Reqs, NameInv, WritesNamed, RunInv, OutcomesTrue
    <3>2. ASSUME Reaches(h, r, "write"), r.arg = req[g].arg PROVE FALSE
      <4>1. g = h /\ r = req[h]
        BY <1>3, <3>1, <3>2 DEF NameInv, WritesNamed
      <4> QED BY <1>1, <2>3, <4>1 DEF HostPipes, PipeInv, OnTheWay
    <3>3. runs'[req[g].arg] \in Nat
      <4>1. \A w \in Writes : runs[w] \in Nat
        BY DEF HostTypeOK
      <4> QED BY <1>3, <3>1, <3>2, <4>1 DEF HostTypeOK
    <3>4. ~(runs'[req[g].arg] > 0)
      BY <1>5, <3>1, <3>2
    <3> QED BY <3>3, <3>4
  <2>4. \A g \in Route : \A q \in Queued(g)' : q.op = "write" => outcome[q.arg] # "not_sent"
    BY <1>1 DEF RunInv, OutcomesTrue
  <2> QED BY <1>2, <2>1, <2>2, <2>3, <2>4 DEF OutcomesTrue
<1> QED BY <1>7, <1>8, <1>10, <1>11 DEF RunInv


\* A number names the connection it was given to, and the lock goes to no session that has
\* connections.
LEMMA ServedHandles ==
  ASSUME ProbeInv, ProbeInv', HostTypeOK, HostPipes,
         NEW h \in Route, NEW r \in Requests, NEW a \in Answer, Served(h, r, a), NameInv, HandleInv
  PROVE  HandleInv'
<1>0. TypeOK /\ LockInv'
  BY DEF ProbeInv
<1>1. /\ \A g \in Route : Queued(g)' \subseteq Queued(g) /\ Reqs(g)' \subseteq Reqs(g)
      /\ \A g \in Route : \A b \in Heard(g)' : b \in Heard(g) \/ (g = h /\ b = a)
      /\ r \in Queued(h) /\ r \in Reqs(h) /\ \A b \in Heard(h) : b.req.corr <= r.corr
  BY <1>0, ServedLine
<1>2. UNCHANGED <<req, ses, epoch, handles>> /\ a.req = r
  BY DEF Served, hostVars
<1>3. /\ nextRes \in Nat /\ nextRes >= 1
      /\ \/ nextRes' = nextRes /\ maker' = maker
         \/ nextRes' = nextRes + 1 /\ nextRes \in 1..ResMax /\ maker' = [maker EXCEPT ![nextRes] = r]
  <2>1. nextRes \in Nat /\ nextRes >= 1 /\ ResMax \in Nat
    BY <1>0, ProbeAssumption DEF TypeOK, HandleInv, NumbersMade
  <2>2. nextRes' = nextRes \/ (nextRes' = nextRes + 1 /\ nextRes <= ResMax)
    BY DEF Served, Effect
  <2> QED BY <2>1, <2>2 DEF Served
<1>4. ASSUME NEW n, NEW q, q.op = "connect", Named(n, q) PROVE Named(n, q)'
  <2>1. n \in 1..ResMax /\ maker[n] = q /\ q # NoRequest
    BY <1>4, NoRequestType DEF Named
  <2>2. n < nextRes
    BY <2>1 DEF HandleInv, NumbersMade
  <2>3. n # nextRes
    BY <1>3, <2>1, <2>2
  <2> QED BY <1>3, <2>1, <2>3 DEF Named, HostTypeOK
<1>5. (a.res = "ok" /\ r.op = "connect") => Named(a.val, r)'
  <2> SUFFICES ASSUME a.res = "ok", r.op = "connect" PROVE Named(a.val, r)'
    OBVIOUS
  <2>1. CASE nextRes' = nextRes + 1 /\ a.val = nextRes
    <3>1. nextRes \in 1..ResMax /\ maker' = [maker EXCEPT ![nextRes] = r]
      BY <1>3, <2>1
    <3> QED BY <2>1, <3>1 DEF Named, HostTypeOK
  <2>2. CASE \E e \in resend : e.ans = a
    <3>1. a # Dropped
      BY ProbeAssumption
    <3>2. Named(a.val, r)
      BY <1>2, <2>2, <3>1 DEF HandleInv, NumbersMade
    <3> QED BY <1>4, <3>2
  <2> QED BY <2>1, <2>2 DEF Served, Effect
<1>6. ASSUME holder' # NoSid, holder' # holder
      PROVE  r.op \in OpenOps /\ r.sid = holder'
  BY <1>0, <1>6, ServedLock
<1>7. NumbersMade'
  <2>1. nextRes' >= 1 /\ \A n \in 1..ResMax : maker'[n] # NoRequest => n < nextRes'
    <3>1. \A n \in 1..ResMax : maker[n] # NoRequest => n < nextRes
      BY DEF HandleInv, NumbersMade
    <3>2. CASE nextRes' = nextRes /\ maker' = maker
      BY <1>3, <3>1, <3>2
    <3>3. CASE nextRes' = nextRes + 1 /\ nextRes \in 1..ResMax /\ maker' = [maker EXCEPT ![nextRes] = r]
      <4>1. \A n \in 1..ResMax : n # nextRes => maker'[n] = maker[n]
        BY <3>3 DEF HostTypeOK
      <4> QED BY <1>3, <3>1, <3>3, <4>1
    <3> QED BY <1>3, <3>2, <3>3
  <2>2. ASSUME NEW e \in resend', e.ans # Dropped, e.ans.res = "ok", e.ans.req.op = "connect"
        PROVE  Named(e.ans.val, e.ans.req)'
    <3>1. CASE e \in resend
      BY <1>4, <2>2, <3>1 DEF HandleInv, NumbersMade
    <3>2. CASE e.ans = a
      BY <1>2, <1>5, <2>2, <3>2
    <3> QED BY <2>2, <3>1, <3>2 DEF Served, Effect, Recorded
  <2>3. ASSUME NEW g \in Route, NEW b \in Heard(g)', b.res = "ok", b.req.op = "connect",
               holder' # NoSid, holder' = b.req.sid
        PROVE  Named(b.val, b.req)'
    <3>1. CASE g = h /\ b = a
      BY <1>2, <1>5, <2>3, <3>1
    <3>2. CASE b \in Heard(g) /\ holder' = holder
      BY <1>4, <2>3, <3>2 DEF HandleInv, NumbersMade
    <3>3. CASE b \in Heard(g) /\ holder' # holder
      <4>1. r.op \in OpenOps /\ r.sid = b.req.sid /\ b.req \in Reqs(g)
        BY <1>6, <2>3, <3>3 DEF Reqs, OnTheWay
      <4>2. g = h
        BY <1>1, <2>3, <4>1, SidOfOne DEF NameInv
      <4>3. r.corr < b.req.corr
        BY <1>1, <2>3, <4>1, <4>2 DEF NameInv, OpensFirst
      <4>4. b.req.corr <= r.corr /\ b.req \in Requests
        BY <1>0, <1>1, <3>3, <4>2, OnTheWayType DEF OnTheWay
      <4> QED BY <4>3, <4>4 DEF Requests
    <3> QED BY <1>1, <2>3, <3>1, <3>2, <3>3
  <2> QED BY <2>1, <2>2, <2>3 DEF NumbersMade
<1>8. ASSUME NEW g \in Route, NEW c \in handles[g], c.made.op = "connect", Believed(g, c) PROVE Believed(g, c)'
  <2>1. \A q \in Queued(g)' \cup {req'[g]} : q.op \in OpenOps => q.sid # ses'[g]
    BY <1>1, <1>2, <1>8 DEF Believed
  <2>2. ASSUME holder' = ses[g] PROVE Named(c.num, c.made)'
    <3>1. holder' # NoSid /\ ses[g] # NoSid
      BY <1>8, <2>2 DEF Believed
    <3>2. CASE holder' = holder
      BY <1>4, <1>8, <2>2, <3>2 DEF Believed
    <3>3. CASE holder' # holder
      <4>1. r.op \in OpenOps /\ r.sid = ses[g]
        BY <1>6, <2>2, <3>1, <3>3
      <4>2. g = h
        BY <1>1, <3>1, <4>1, SidOfOne DEF NameInv
      <4> QED BY <1>1, <1>8, <4>1, <4>2 DEF Believed
    <3> QED BY <3>2, <3>3
  <2>3. c.made.sid = ses'[g] /\ ses'[g] # NoSid
    BY <1>2, <1>8 DEF Believed
  <2>4. Believed(g, c)' <=>
          /\ c.made.sid = ses'[g] /\ ses'[g] # NoSid
          /\ \A q \in Queued(g)' \cup {req'[g]} : q.op \in OpenOps => q.sid # ses'[g]
          /\ holder' = ses'[g] => Named(c.num, c.made)'
    BY DEF Believed
  <2> QED BY <1>2, <2>1, <2>2, <2>3, <2>4
<1>9. HandlesKnown'
  BY <1>2, <1>8 DEF HandleInv, HandlesKnown
<1> QED BY <1>7, <1>9 DEF HandleInv

-------------------------------------------------------------------------------
(* What the probe does by itself, and nothing.                              *)

\* The lock goes, or stays with its newest corr; what was recorded stays or goes; the numbers
\* stay or start again, with nobody in the lock.
Quiet ==
  /\ UNCHANGED <<hostVars, toProbe, usedSids, runs, outcome, answers>>
  /\ holder' = NoSid \/ (holder' = holder /\ newest' = newest)
  /\ resend' \subseteq resend
  /\ \/ maker' = maker /\ nextRes' = nextRes
     \/ maker' = [n \in 1..ResMax |-> NoRequest] /\ nextRes' = 1 /\ resend' = {} /\ holder' = NoSid

\* Nothing of that takes a write or a connection from a host that still knows of it.
LEMMA QuietStep ==
  ASSUME HostTypeOK, HostPipes, NameInv, RunInv, HandleInv, Quiet
  PROVE  HostTypeOK' /\ HostPipes' /\ NameInv' /\ RunInv' /\ HandleInv'
<1>1. /\ UNCHANGED <<phase, req, waited, broken, failed, sought, tries, corr, ses, epoch, seen, handles>>
      /\ UNCHANGED <<toProbe, usedSids, runs, outcome, answers>>
  BY DEF Quiet, hostVars
<1>2. \A h \in Route : /\ Heard(h)' = Heard(h) /\ Queued(h)' = Queued(h) /\ Reqs(h)' = Reqs(h)
                       /\ OnTheWay(h)' = OnTheWay(h) /\ Live(h)' = Live(h)
                       /\ WritesOf(h)' = WritesOf(h) /\ SidsOf(h)' = SidsOf(h) /\ Calling(h)' = Calling(h)
  BY <1>1 DEF Heard, Queued, Reqs, OnTheWay, Live, WritesOf, SidsOf, Calling
<1>3. HostTypeOK'
  <2>1. maker' \in [1..ResMax -> Requests]
    BY NoRequestType DEF Quiet, HostTypeOK
  <2> QED BY <1>1, <2>1 DEF HostTypeOK
<1>4. HostPipes'
  BY <1>1, <1>2, SMTT(30) DEF HostPipes, PipeInv, Sorted, LastOnly
<1>5. NameInv'
  BY <1>1, <1>2 DEF NameInv, SidsOwned, WritesNamed, OpensFirst
<1>6. RunInv'
  <2>1. WriteRunsOnce' /\ OutcomesTrue'
    BY <1>1, <1>2 DEF RunInv, WriteRunsOnce, OutcomesTrue
  <2>2. RanStaysNewest'
    <3>1. holder' = NoSid \/ (holder' = holder /\ newest' = newest)
      BY DEF Quiet
    <3> QED BY <1>1, <1>2, <3>1 DEF RunInv, RanStaysNewest
  <2>3. AnswersRan'
    <3>1. resend' \subseteq resend
      BY DEF Quiet
    <3> QED BY <1>1, <1>2, <3>1 DEF RunInv, AnswersRan
  <2> QED BY <2>1, <2>2, <2>3 DEF RunInv
<1>7. HandleInv'
  <2>1. CASE maker' = maker /\ nextRes' = nextRes
    <3>1. resend' \subseteq resend /\ (holder' = NoSid \/ holder' = holder)
      BY DEF Quiet
    <3>2. NumbersMade'
      BY <1>2, <2>1, <3>1 DEF HandleInv, NumbersMade, Named
    <3>3. HandlesKnown'
      BY <1>1, <1>2, <2>1, <3>1 DEF HandleInv, HandlesKnown, Believed, Named
    <3> QED BY <3>2, <3>3 DEF HandleInv
  <2>2. CASE maker' = [n \in 1..ResMax |-> NoRequest] /\ nextRes' = 1 /\ resend' = {} /\ holder' = NoSid
    <3>1. NumbersMade'
      BY <2>2 DEF NumbersMade
    <3>2. HandlesKnown'
      BY <1>1, <1>2, <2>2 DEF HandleInv, HandlesKnown, Believed
    <3> QED BY <3>1, <3>2 DEF HandleInv
  <2> QED BY <2>1, <2>2 DEF Quiet
<1> QED BY <1>3, <1>4, <1>5, <1>6, <1>7

-------------------------------------------------------------------------------
(* The invariant.                                                           *)

\* Nothing is on any line at first, and nobody has anything.
LEMMA HostLinkInit == HInit => HostLinkInv
<1> SUFFICES ASSUME HInit PROVE HostLinkInv
  OBVIOUS
<1>0. 0 \in 0..CorrMax /\ 0 \in Nat
  BY CorrAssumption
<1>1. TypeOK /\ LockInv /\ RecordsAreOwn
  BY InitType, LockInit DEF HInit, Init, RecordsAreOwn
<1>2. /\ \A h \in Route : answers[h] = <<>> /\ toProbe[h] = <<>>
      /\ \A h \in Route : req[h] = NoRequest /\ phase[h] = "idle" /\ tries[h] = 0 /\ corr[h] = 0
      /\ \A h \in Route : ses[h] = NoSid /\ handles[h] = {}
      /\ resend = {} /\ nextRes = 1
      /\ runs = [w \in Writes |-> 0] /\ outcome = [w \in Writes |-> "none"]
      /\ maker = [n \in 1..ResMax |-> NoRequest] /\ usedSids = {}
  BY DEF HInit, Init
<1>3. HostTypeOK
  <2>1. boot \in Nat
    BY <1>1, ProbeAssumption DEF TypeOK
  <2>2. <<>> \in Seq(Requests)
    BY EmptySeq
  <2>3. /\ phase \in [Route -> {"idle", "wait", "confirm", "dead"}]
        /\ req \in [Route -> Requests] /\ toProbe \in [Route -> Seq(Requests)]
        /\ maker \in [1..ResMax -> Requests]
    BY <2>2, NoRequestType DEF HInit
  <2>4. /\ waited \in [Route -> Nat] /\ broken \in [Route -> Nat] /\ failed \in [Route -> BOOLEAN]
        /\ corr \in [Route -> 0..CorrMax] /\ sought \in [Route -> 0..CorrMax] /\ tries \in [Route -> Nat]
        /\ epoch \in [Route -> Nat] /\ seen \in [Route -> Nat]
    BY <1>0, <2>1 DEF HInit
  <2>5. /\ ses \in [Route -> Sid \cup {NoSid}] /\ usedSids \subseteq Sid
        /\ handles \in [Route -> SUBSET Connection]
        /\ runs \in [Writes -> Nat] /\ outcome \in [Writes -> Outcomes]
    BY <1>0 DEF HInit, Outcomes
  <2> QED BY <2>3, <2>4, <2>5 DEF HostTypeOK
<1>4. \A h \in Route : Heard(h) = {} /\ Queued(h) = {} /\ OnTheWay(h) = {} /\ Reqs(h) = {NoRequest}
  <2>1. \A h \in Route : Len(answers[h]) = 0 /\ Len(toProbe[h]) = 0
    BY <1>2, EmptySeq
  <2>2. \A h \in Route : Heard(h) = {} /\ Queued(h) = {}
    BY <2>1 DEF Heard, Queued, Elems
  <2> QED BY <1>2, <2>2 DEF OnTheWay, Reqs
<1>5. HostPipes
  <2> SUFFICES ASSUME NEW h \in Route PROVE PipeInv(h)
    BY DEF HostPipes
  <2>1. Len(answers[h]) = 0 /\ Len(toProbe[h]) = 0
    BY <1>2, EmptySeq
  <2>2. Sorted(answers[h], toProbe[h])
    BY <2>1 DEF Sorted
  <2> QED BY <1>2, <1>4, <2>2, NoRequestType DEF PipeInv, Calling
<1>6. NameInv
  <2>1. \A h \in Route : SidsOf(h) = {} /\ WritesOf(h) = {} /\ ~Calling(h)
    BY <1>2, <1>4, NoRequestType DEF SidsOf, WritesOf, Calling
  <2>2. OpensFirst
    BY <1>4, <2>1, NoRequestType DEF OpensFirst
  <2> QED BY <2>1, <2>2 DEF NameInv, SidsOwned, WritesNamed
<1>7. RunInv
  <2>1. \A h \in Route : Live(h) = {}
    BY <1>2, <1>4 DEF Live
  <2>2. \A w \in Writes : runs[w] = 0 /\ outcome[w] = "none"
    BY <1>2
  <2>3. WriteRunsOnce
    BY <2>2 DEF WriteRunsOnce
  <2>4. OutcomesTrue
    BY <1>2, <1>4, <2>2 DEF OutcomesTrue
  <2> QED BY <1>2, <1>4, <2>1, <2>3, <2>4 DEF RunInv, RanStaysNewest, AnswersRan
<1>8. HandleInv
  BY <1>2, <1>4 DEF HandleInv, NumbersMade, HandlesKnown
<1> QED BY <1>1, <1>3, <1>5, <1>6, <1>7, <1>8 DEF HostLinkInv, ProbeInv


\* A tick of the lease and a restart are quiet.
LEMMA ProbeAlone ==
  ASSUME ProbeInv, LeaseTick \/ ProbeReboots
  PROVE  ProbeInv' /\ Quiet
<1>0. TypeOK /\ LockInv /\ RecordsAreOwn
  BY DEF ProbeInv
<1>1. CASE LeaseTick
  <2>1. Tick /\ UNCHANGED <<table, nextRes, answers, hostVars, toProbe, usedSids, runs, outcome, maker>>
    BY <1>1 DEF LeaseTick, Tick, wireVars, boundVars, pastVars
  <2>2. TypeOK'
    BY <1>0, <2>1, OwnStepType DEF Own
  <2>3. LockInv'
    BY <1>0, <2>1 DEF Tick, LockInv, TypeOK
  <2>4. RecordsAreOwn'
    BY <1>0, <2>1 DEF RecordsAreOwn, table
  <2>5. holder' = NoSid \/ holder' = holder
    BY <2>1 DEF Tick
  <2>6. Quiet
    BY <2>1, <2>5 DEF Quiet, table
  <2> QED BY <2>2, <2>3, <2>4, <2>6 DEF ProbeInv
<1>2. CASE ProbeReboots
  <2>1. PICK b \in BootId : Reboot(b)
    <3>1. \E b \in {boot + 1} : b \in BootId /\ Reboot(b)
      BY <1>2 DEF ProbeReboots, Reboot
    <3> QED BY <3>1
  <2>2. /\ maker' = [n \in 1..ResMax |-> NoRequest]
        /\ UNCHANGED <<hostVars, toProbe, usedSids, runs, outcome>>
    BY <1>2 DEF ProbeReboots, wireVars
  <2>3. TypeOK'
    BY <1>0, <2>1, OwnStepType DEF Own
  <2>4. LockInv'
    BY <2>1, ProbeAssumption DEF Reboot, LockInv
  <2>5. RecordsAreOwn'
    BY <2>1 DEF Reboot, RecordsAreOwn
  <2>6. Quiet
    BY <2>1, <2>2 DEF Quiet, Reboot
  <2> QED BY <2>3, <2>4, <2>5, <2>6 DEF ProbeInv
<1> QED BY <1>1, <1>2

\* Every step keeps the invariant.
LEMMA HostLinkNext == HostLinkInv /\ [HNext]_allVars => HostLinkInv'
<1> SUFFICES ASSUME HostLinkInv, [HNext]_allVars PROVE HostLinkInv'
  OBVIOUS
<1>0. /\ ProbeInv /\ TypeOK /\ HostTypeOK /\ HostPipes /\ NameInv /\ RunInv /\ HandleInv
      /\ \A h \in Route : PipeInv(h)
  BY DEF HostLinkInv, ProbeInv, HostPipes
<1>1. ASSUME NEW h \in Route, CallStep(h) PROVE HostLinkInv'
  <2>1. PICK r \in Requests : HostTypeOK' /\ PipeInv(h)' /\ Reads(h) /\ OthersStay(h) /\ Called(h, r)
    BY <1>0, <1>1, CallStepType
  <2>2. HostPipes'
    BY <1>0, <2>1, OthersPipes DEF HostPipes
  <2>3. ProbeInv'
    BY <1>0, <2>1, ReadsProbe
  <2>4. NameInv' /\ RunInv' /\ HandleInv'
    BY <1>0, <2>1, CalledNames, CalledRuns, CalledHandles
  <2> QED BY <2>1, <2>2, <2>3, <2>4 DEF HostLinkInv
<1>2. ASSUME NEW h \in Route, TurnStep(h) PROVE HostLinkInv'
  <2>1. HostTypeOK' /\ PipeInv(h)' /\ Turn(h)
    BY <1>0, <1>2, HostTurns
  <2>2. HostPipes'
    BY <1>0, <2>1, OthersPipes DEF HostPipes, Turn
  <2>3. ProbeInv'
    BY <1>0, <2>1, ReadsProbe DEF Turn
  <2>4. NameInv' /\ RunInv' /\ HandleInv'
    BY <1>0, <2>1, TurnNames, TurnRuns, TurnHandles
  <2> QED BY <2>1, <2>2, <2>3, <2>4 DEF HostLinkInv
<1>3. ASSUME NEW h \in Route, ProbeTakes(h) PROVE HostLinkInv'
  <2>1. ProbeInv' /\ HostTypeOK' /\ \E r \in Requests, a \in Answer : Served(h, r, a)
    BY <1>0, <1>3, TakesServed
  <2>2. PICK r \in Requests, a \in Answer : Served(h, r, a)
    BY <2>1
  <2>3. HostPipes'
    BY <1>0, <2>2, ServedLine
  <2>4. NameInv' /\ RunInv' /\ HandleInv'
    BY <1>0, <2>1, <2>2, ServedNames, ServedRuns, ServedHandles
  <2> QED BY <2>1, <2>3, <2>4 DEF HostLinkInv
<1>4. CASE LeaseTick \/ ProbeReboots
  <2>1. ProbeInv' /\ Quiet
    BY <1>0, <1>4, ProbeAlone
  <2>2. HostTypeOK' /\ HostPipes' /\ NameInv' /\ RunInv' /\ HandleInv'
    BY <1>0, <2>1, QuietStep
  <2> QED BY <2>1, <2>2 DEF HostLinkInv
<1>5. CASE UNCHANGED allVars
  <2>1. UNCHANGED <<vars, hostVars, toProbe, usedSids, runs, outcome, maker>>
    BY <1>5 DEF allVars, wireVars, boundVars, pastVars
  <2>2. Quiet
    BY <2>1 DEF Quiet, vars, session, table
  <2>3. HostTypeOK' /\ HostPipes' /\ NameInv' /\ RunInv' /\ HandleInv'
    BY <1>0, <2>2, QuietStep
  <2>4. TypeOK'
    BY <1>0, <2>1 DEF TypeOK, vars, session, table, owned, world, history
  <2>5. LockInv' /\ RecordsAreOwn'
    BY <1>0, <2>1 DEF ProbeInv, LockInv, RecordsAreOwn, vars, session, table
  <2> QED BY <2>3, <2>4, <2>5 DEF HostLinkInv, ProbeInv
<1>6. HNext => (\E h \in Route : CallStep(h) \/ TurnStep(h) \/ ProbeTakes(h)) \/ LeaseTick \/ ProbeReboots
  BY DEF HNext, CallStep, TurnStep
<1> QED BY <1>1, <1>2, <1>3, <1>4, <1>5, <1>6

\* The order of the lines, who sessions and writes belong to, and what follows from them hold in
\* every state, whatever is lost, broken or restarted, and whoever dies.
THEOREM HostLinkInvariant == HSpec => []HostLinkInv
<1>1. HInit => HostLinkInv
  BY HostLinkInit
<1>2. HostLinkInv /\ [HNext]_allVars => HostLinkInv'
  BY HostLinkNext
<1> QED BY <1>1, <1>2, PTL DEF HSpec

\* The types of the whole: the probe's and the hosts'.
THEOREM HostsTypeCorrect == HSpec => [](TypeOK /\ HostTypeOK)
<1>1. HostLinkInv => TypeOK /\ HostTypeOK
  BY DEF HostLinkInv, ProbeInv
<1> QED BY <1>1, HostLinkInvariant, PTL

\* A request that changes state runs at most once, however often its link sends it and whatever
\* happens to the lock or the probe in between.
THEOREM OnceHoweverSent == HSpec => []WriteRunsOnce
<1>1. HostLinkInv => WriteRunsOnce
  BY DEF HostLinkInv, RunInv
<1> QED BY <1>1, HostLinkInvariant, PTL

\* What a caller is told of its write is true, and stays true.
THEOREM CallersHearTheTruth == HSpec => []ToldTheTruth
<1>1. HostLinkInv => ToldTheTruth
  <2> SUFFICES ASSUME HostLinkInv, NEW w \in Writes
               PROVE  (outcome[w] = "ok" => runs[w] = 1) /\ (outcome[w] = "not_sent" => runs[w] = 0)
    BY DEF ToldTheTruth
  <2>1. runs[w] \in Nat /\ runs[w] <= 1
    BY DEF HostLinkInv, HostTypeOK, RunInv, WriteRunsOnce
  <2>2. /\ runs[w] > 0 => outcome[w] # "not_sent"
        /\ outcome[w] = "ok" => runs[w] > 0
    BY DEF HostLinkInv, RunInv, OutcomesTrue
  <2> QED BY <2>1, <2>2
<1> QED BY <1>1, HostLinkInvariant, PTL

\* A connection a host believes in names the one it was given, across ends, takeovers and
\* restarts.
THEOREM BelievedAreOwn == HSpec => []HandlesAreTrue
<1>1. HostLinkInv => HandlesAreTrue
  BY DEF HostLinkInv, HandleInv, HandlesKnown, Believed, Named, HandlesAreTrue
<1> QED BY <1>1, HostLinkInvariant, PTL

\* When a failed transport is whole again, no request and no answer from before is on its way.
THEOREM CleanAfterRecovery == HSpec => RecoveredClean
<1>1. HostLinkInv /\ [HNext]_allVars
        => [\A h \in Route : failed[h] /\ ~failed'[h] => toProbe[h] = <<>> /\ answers'[h] = <<>>]_allVars
  <2> SUFFICES ASSUME HostLinkInv, HNext, NEW h \in Route, failed[h], ~failed'[h]
               PROVE  toProbe[h] = <<>> /\ answers'[h] = <<>>
    OBVIOUS
  <2>0. TypeOK /\ HostTypeOK /\ PipeInv(h)
    BY DEF HostLinkInv, ProbeInv, HostPipes
  <2>1. CASE ConfirmAnswered(h)
    BY <2>0, <2>1, AnsweredTurn
  <2>2. ASSUME NEW g \in Route, g # h, CallStep(g) \/ TurnStep(g) PROVE FALSE
    <3>1. TypeOK /\ HostTypeOK /\ PipeInv(g)
      BY DEF HostLinkInv, ProbeInv, HostPipes
    <3>2. OthersStay(g)
      BY <2>2, <3>1, CallStepType, HostTurns DEF Turn
    <3> QED BY <2>2, <3>2 DEF OthersStay
  <2>3. CASE CallStep(h)
    BY <2>3 DEF CallStep, CallOpen, CallWrite, CallConfirm, CallSession, Begin
  <2>4. CASE Accept(h) \/ Stale(h) \/ ConfirmSent(h) \/ RecoveryFails(h) \/ Lost(h) \/ Crash(h)
    BY <2>4 DEF Accept, Stale, ConfirmSent, RecoveryFails, Lost, Crash, hostVars
  <2>5. CASE Timeout(h) \/ Broken(h)
    <3>1. failed' = failed \/ failed' = [failed EXCEPT ![h] = TRUE]
      BY <2>5 DEF Timeout, Broken, TransportFails, Resend, Set
    <3> QED BY <2>0, <3>1 DEF HostTypeOK
  <2>6. CASE \E g \in Route : ProbeTakes(g)
    BY <2>6 DEF ProbeTakes, hostVars
  <2>7. CASE LeaseTick \/ ProbeReboots
    BY <2>7 DEF LeaseTick, ProbeReboots, hostVars
  <2> QED BY <2>1, <2>2, <2>3, <2>4, <2>5, <2>6, <2>7 DEF HNext, CallStep, TurnStep
<1> QED BY <1>1, HostLinkInvariant, PTL DEF HSpec, RecoveredClean
===============================================================================
