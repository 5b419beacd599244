-------------------------- MODULE ProbeSessionProofs --------------------------
(***************************************************************************)
(* What holds of ProbeSession for every size of the corr space, every set  *)
(* of sessions, routes and requests, and every bound.                      *)
(*                                                                         *)
(* Three parts: the types; the resend table; what a session owns.          *)
(***************************************************************************)
EXTENDS ProbeSession, TLAPS, SequenceTheorems

-------------------------------------------------------------------------------
(* The cyclic comparison.                                                   *)

\* Two corrs differ by less than the size of the space.
LEMMA DiffRange ==
  ASSUME NEW a \in 0..CorrMax, NEW b \in 0..CorrMax
  PROVE  Diff(a, b) \in 0..CorrMax
BY CorrAssumption DEF Diff

\* A corr within the window behind another one is not ahead of it: a copy is never taken for new.
LEMMA WindowNotAhead ==
  ASSUME NEW a \in 0..CorrMax, NEW b \in 0..CorrMax, InWindow(a, b)
  PROVE  ~Ahead(b, a)
BY CorrAssumption DEF InWindow, Ahead, Diff

-------------------------------------------------------------------------------
(* The requests and the answers.                                            *)

\* The requests a client sends have the fields of Requests.
LEMMA RequestIsRequest == ASSUME NEW r \in Request PROVE r \in Requests
BY ProbeAssumption

\* Every answer an operation makes is one.
LEMMA AnsType ==
  ASSUME NEW r \in Requests, NEW res \in Res, NEW val \in Nat
  PROVE  Ans(r, res, val) \in Answer
BY DEF Ans, Answer

\* An answer given out again is one.
LEMMA ResentAnswerType ==
  ASSUME TypeOK, NEW r \in Requests
  PROVE  ResentAnswer(r) \in Answer
<1>1. CASE Known(r.corr) = {}
  BY <1>1, AnsType, 0 \in Nat DEF ResentAnswer, Res
<1>2. CASE Known(r.corr) # {}
  <2> DEFINE e == CHOOSE k \in Known(r.corr) : TRUE
  <2>1. e \in Entry
    BY <1>2 DEF Known, TypeOK
  <2>2. e.ans # Dropped => e.ans \in Answer
    BY <2>1 DEF Entry
  <2>3. Ans(r, "result_lost", 0) \in Answer /\ Ans(r, "malformed", 0) \in Answer
    BY AnsType, 0 \in Nat DEF Res
  <2> QED BY <1>2, <2>2, <2>3 DEF ResentAnswer
<1> QED BY <1>1, <1>2

\* What an answer does to the outgoing queue.
LEMMA SendType ==
  ASSUME TypeOK, NEW t \in Route, NEW a \in Answer, Send(t, a)
  PROVE  answers' \in [Route -> Seq(Answer)]
BY DEF TypeOK, Send

\* The table after a request: records it had, and the request's own.
LEMMA KeptSubset ==
  ASSUME NEW entries, NEW r, NEW a, NEW k \in Kept(entries, r, a)
  PROVE  \/ k = [corr |-> r.corr,
                 req |-> IF r.arg \in LargeArg THEN Dropped ELSE r,
                 ans |-> IF a.val \in LargeVal THEN Dropped ELSE a]
         \/ k \in entries /\ k.corr # r.corr /\ InWindow(r.corr, k.corr)
BY DEF Kept

\* The end of a request that was processed keeps the types.
LEMMA SettleType ==
  ASSUME TypeOK, NEW t \in Route, NEW r \in Requests, NEW a \in Answer,
         lease' \in Nat, Settle(t, r, a)
  PROVE  /\ answers' \in [Route -> Seq(Answer)] /\ left' \in Nat
         /\ resend' \subseteq Entry /\ newest' \in 0..CorrMax
         /\ ran' \subseteq Answer /\ reran' \in BOOLEAN
<1>1. answers' \in [Route -> Seq(Answer)]
  BY SendType DEF Settle
<1>2. left' \in Nat
  BY DEF Settle, TypeOK
<1>3. r.corr \in 0..CorrMax
  BY DEF Requests
<1>4. CASE r.sid # NoSid /\ r.sid = last'
  <2>1. resend' = Kept(IF NewLock THEN {} ELSE resend, r, a)
    BY <1>4 DEF Settle
  <2>2. [corr |-> r.corr, req |-> IF r.arg \in LargeArg THEN Dropped ELSE r,
         ans |-> IF a.val \in LargeVal THEN Dropped ELSE a] \in Entry
    BY <1>3 DEF Entry
  <2>3. resend' \subseteq Entry
    BY <2>1, <2>2, KeptSubset DEF TypeOK
  <2>4. newest' \in 0..CorrMax
    BY <1>3, <1>4 DEF Settle
  <2>5. ran' \subseteq Answer
    BY <1>4 DEF Settle, TypeOK
  <2>6. reran' \in BOOLEAN
    BY <1>4 DEF Settle, TypeOK
  <2> QED BY <1>1, <1>2, <2>3, <2>4, <2>5, <2>6
<1>5. CASE ~(r.sid # NoSid /\ r.sid = last')
  BY <1>1, <1>2, <1>5 DEF Settle, TypeOK
<1> QED BY <1>4, <1>5

-------------------------------------------------------------------------------
(* Type correctness.                                                        *)

\* What a start of the probe sets is of its type.
LEMMA InitType == Init => TypeOK
<1> SUFFICES ASSUME Init PROVE TypeOK
  OBVIOUS
<1>1. holder \in Sid \cup {NoSid} /\ last \in Sid \cup {NoSid} /\ lease \in Nat /\ left \in Nat
  BY ProbeAssumption DEF Init
<1>2. resend \subseteq Entry /\ newest \in 0..CorrMax
  BY CorrAssumption DEF Init
<1>3. /\ conns \subseteq Nat /\ streams \subseteq [num: Nat, conn: Nat] /\ nextRes \in Nat
      /\ plan \subseteq Fn /\ outbox \subseteq Fn
  BY DEF Init
<1>4. subs \in [Fn -> Route \cup {NoRoute}]
  BY DEF Init
<1>5. value \in Nat /\ restarting \in BOOLEAN /\ boot \in BootId
  BY DEF Init
<1>6. answers \in [Route -> Seq(Answer)]
  BY DEF Init
<1>7. ran \subseteq Answer /\ reran \in BOOLEAN /\ given \subseteq Nat
  BY DEF Init
<1> QED BY <1>1, <1>2, <1>3, <1>4, <1>5, <1>6, <1>7 DEF TypeOK

\* A granted lease is at least one tick, whatever was asked.
LEMMA LeaseIsPositive ==
  ASSUME NEW asked \in Nat
  PROVE  Lease(asked) \in Nat \ {0}
BY ProbeAssumption DEF Lease

\* The operations that change nothing but their answer keep the types.
LEMMA AnsweredType ==
  ASSUME TypeOK, NEW t \in Route, NEW r \in Requests, NEW res \in Res, NEW val \in Nat,
         Answered(t, r, res, val)
  PROVE  TypeOK'
<1>1. lease' \in Nat /\ Settle(t, r, Ans(r, res, val))
  BY DEF Answered, TypeOK
<1>2. /\ answers' \in [Route -> Seq(Answer)] /\ left' \in Nat
      /\ resend' \subseteq Entry /\ newest' \in 0..CorrMax
      /\ ran' \subseteq Answer /\ reran' \in BOOLEAN
  BY <1>1, AnsType, SettleType
<1> QED BY <1>2 DEF Answered, TypeOK, owned, world

\* So do the requests that end in the header, the table or the session check.
LEMMA RefusalType ==
  ASSUME TypeOK, NEW t \in Route, NEW r \in Requests,
         \/ HandleHeaderFault(t, r) \/ HandleResent(t, r) \/ OpenRefused(t, r) \/ NotAdmitted(t, r)
  PROVE  TypeOK'
<1>1. CASE HandleHeaderFault(t, r)
  <2>1. Ans(r, HeaderFault(r), 0) \in Answer
    BY <1>1, AnsType DEF HandleHeaderFault, HeaderFault, Res
  <2> QED BY <1>1, <2>1, SendType
          DEF HandleHeaderFault, TypeOK, session, table, owned, world, history
<1>2. CASE HandleResent(t, r)
  BY <1>2, ResentAnswerType, SendType
     DEF HandleResent, TypeOK, session, table, owned, world, history
<1>3. CASE OpenRefused(t, r)
  <2>1. OpenFault(r) \in Res
    BY <1>3 DEF OpenRefused, OpenFault, Res
  <2>2. Answered(t, r, OpenFault(r), 0)
    BY <1>3 DEF OpenRefused, Answered
  <2> QED BY <2>1, <2>2, AnsweredType
<1>4. CASE NotAdmitted(t, r)
  <2>1. Answered(t, r, IF holder = NoSid THEN "no_session" ELSE "locked", 0)
    BY <1>4 DEF NotAdmitted, Answered
  <2> QED BY <2>1, AnsweredType DEF Res
<1> QED BY <1>1, <1>2, <1>3, <1>4

\* What the lock's end leaves is of its type.
LEMMA ReleaseType ==
  ASSUME TypeOK, ReleaseOwned
  PROVE  /\ conns' \subseteq Nat /\ streams' \subseteq [num: Nat, conn: Nat]
         /\ plan' \subseteq Fn /\ outbox' \subseteq Fn
         /\ subs' \in [Fn -> Route \cup {NoRoute}]
BY DEF ReleaseOwned, TypeOK

\* The operations on the lock keep the types.
LEMMA LockOpType ==
  ASSUME TypeOK, NEW t \in Route, NEW r \in Requests,
         \/ OpenTaken(t, r) \/ End(t, r) \/ Restart(t, r) \/ Write(t, r)
         \/ Confirm(t, r) \/ LockState(t, r) \/ Keepalive(t, r) \/ Read(t, r) \/ Bad(t, r)
  PROVE  TypeOK'
<1>0. r.arg \in Nat /\ r.sid \in Sid \cup {NoSid} /\ boot \in Nat /\ value \in Nat
  BY ProbeAssumption DEF Requests, TypeOK
<1>1. CASE OpenTaken(t, r)
  <2>1. lease' \in Nat
    BY <1>0, <1>1, LeaseIsPositive DEF OpenTaken
  <2>2. Ans(r, "ok", boot) \in Answer
    BY <1>0, AnsType DEF Res
  <2>3. /\ conns' \subseteq Nat /\ streams' \subseteq [num: Nat, conn: Nat]
        /\ plan' \subseteq Fn /\ outbox' \subseteq Fn
        /\ subs' \in [Fn -> Route \cup {NoRoute}]
    BY <1>1, ReleaseType DEF OpenTaken, TypeOK, owned
  <2>4. Settle(t, r, Ans(r, "ok", boot))
    BY <1>1 DEF OpenTaken
  <2> HIDE DEF Settle
  <2>5. /\ answers' \in [Route -> Seq(Answer)] /\ left' \in Nat
        /\ resend' \subseteq Entry /\ newest' \in 0..CorrMax
        /\ ran' \subseteq Answer /\ reran' \in BOOLEAN
    BY <2>1, <2>2, <2>4, SettleType
  <2> QED BY <1>0, <1>1, <2>1, <2>3, <2>5 DEF OpenTaken, TypeOK, world
<1>2. CASE End(t, r)
  <2>1. Ans(r, "ok", 0) \in Answer /\ lease' \in Nat /\ Settle(t, r, Ans(r, "ok", 0))
    BY <1>2, AnsType DEF Res, End, TypeOK
  <2>2. /\ answers' \in [Route -> Seq(Answer)] /\ left' \in Nat
        /\ resend' \subseteq Entry /\ newest' \in 0..CorrMax
        /\ ran' \subseteq Answer /\ reran' \in BOOLEAN
    BY <2>1, SettleType
  <2>3. /\ conns' \subseteq Nat /\ streams' \subseteq [num: Nat, conn: Nat]
        /\ plan' \subseteq Fn /\ outbox' \subseteq Fn
        /\ subs' \in [Fn -> Route \cup {NoRoute}]
    BY <1>2, ReleaseType DEF End
  <2> QED BY <1>2, <2>2, <2>3 DEF End, TypeOK, world
<1>3. CASE Restart(t, r) \/ Write(t, r)
  <2>1. Ans(r, "ok", 0) \in Answer /\ lease' \in Nat /\ Settle(t, r, Ans(r, "ok", 0))
    BY <1>3, AnsType DEF Res, Restart, Write, TypeOK
  <2>2. /\ answers' \in [Route -> Seq(Answer)] /\ left' \in Nat
        /\ resend' \subseteq Entry /\ newest' \in 0..CorrMax
        /\ ran' \subseteq Answer /\ reran' \in BOOLEAN
    BY <2>1, SettleType
  <2> QED BY <1>0, <1>3, <2>2 DEF Restart, Write, TypeOK, owned
<1>4. CASE Confirm(t, r) \/ LockState(t, r) \/ Keepalive(t, r) \/ Read(t, r) \/ Bad(t, r)
  <2>1. \E res \in Res, val \in Nat : Answered(t, r, res, val)
    BY <1>0, <1>4 DEF Res, Confirm, LockState, Keepalive, Read, Bad
  <2> QED BY <2>1, AnsweredType
<1> QED BY <1>1, <1>2, <1>3, <1>4

\* Connections and streams come and go within their types.
LEMMA ResourceOpType ==
  ASSUME TypeOK, NEW t \in Route, NEW r \in Requests,
         Attach(t, r) \/ Detach(t, r) \/ StreamOpen(t, r) \/ StreamClose(t, r)
  PROVE  TypeOK'
<1>0. r.arg \in Nat /\ nextRes \in Nat /\ lease \in Nat
  BY DEF Requests, TypeOK
<1>1. /\ lease' \in Nat
      /\ \E res \in Res, val \in Nat : Settle(t, r, Ans(r, res, val))
  <2>1. CASE Attach(t, r)
    BY <1>0, <2>1 DEF Attach, NewNumber, Res
  <2>2. CASE Detach(t, r)
    BY <1>0, <2>2 DEF Detach, NumberFault, Res
  <2>3. CASE StreamOpen(t, r)
    BY <1>0, <2>3 DEF StreamOpen, StreamFault, NumberFault, NewNumber, Res
  <2>4. CASE StreamClose(t, r)
    BY <1>0, <2>4 DEF StreamClose, NumberFault, Res
  <2> QED BY <2>1, <2>2, <2>3, <2>4
<1>2. /\ answers' \in [Route -> Seq(Answer)] /\ left' \in Nat
      /\ resend' \subseteq Entry /\ newest' \in 0..CorrMax
      /\ ran' \subseteq Answer /\ reran' \in BOOLEAN
  BY <1>1, AnsType, SettleType
<1>3. /\ conns' \subseteq Nat /\ streams' \subseteq [num: Nat, conn: Nat]
      /\ nextRes' \in Nat /\ given' \subseteq Nat
  <2>1. CASE Attach(t, r)
    <3>1. CASE UNCHANGED <<conns, streams, nextRes, given>>
      BY <3>1 DEF TypeOK
    <3>2. CASE NewNumber(nextRes) /\ conns' = conns \cup {nextRes} /\ streams' = streams
      BY <1>0, <3>2 DEF NewNumber, TypeOK
    <3> QED BY <2>1, <3>1, <3>2 DEF Attach
  <2>2. CASE Detach(t, r)
    BY <1>0, <2>2 DEF Detach, CloseConns, owned, TypeOK
  <2>3. CASE StreamOpen(t, r)
    <3>1. CASE UNCHANGED <<conns, streams, nextRes, given>>
      BY <3>1 DEF TypeOK
    <3>2. CASE /\ NewNumber(nextRes) /\ conns' = conns
               /\ streams' = streams \cup {[num |-> nextRes, conn |-> r.arg]}
      <4>1. [num |-> nextRes, conn |-> r.arg] \in [num: Nat, conn: Nat]
        BY <1>0
      <4>2. nextRes' \in Nat /\ given' \subseteq Nat
        <5>1. nextRes' = nextRes + 1 /\ given' = given \cup {nextRes}
          BY <3>2 DEF NewNumber
        <5> QED BY <1>0, <5>1 DEF TypeOK
      <4> QED BY <3>2, <4>1, <4>2 DEF TypeOK
    <3> QED BY <2>3, <3>1, <3>2 DEF StreamOpen
  <2>4. CASE StreamClose(t, r)
    BY <1>0, <2>4 DEF StreamClose, TypeOK
  <2> QED BY <2>1, <2>2, <2>3, <2>4
<1>4. UNCHANGED <<holder, last, lease, plan, subs, outbox, world>>
  BY DEF Attach, Detach, CloseConns, StreamOpen, StreamClose, owned
<1> QED BY <1>2, <1>3, <1>4 DEF TypeOK, world

\* So do the plan and the subscriptions.
LEMMA PlanOpType ==
  ASSUME TypeOK, NEW t \in Route, NEW r \in Requests,
         PlanApply(t, r) \/ PlanRelease(t, r) \/ Subscribe(t, r) \/ Unsubscribe(t, r)
  PROVE  TypeOK'
<1>1. /\ lease' \in Nat
      /\ \E res \in Res, val \in Nat : Settle(t, r, Ans(r, res, val))
  BY DEF PlanApply, PlanRelease, Subscribe, Unsubscribe, Res, TypeOK
<1>2. /\ answers' \in [Route -> Seq(Answer)] /\ left' \in Nat
      /\ resend' \subseteq Entry /\ newest' \in 0..CorrMax
      /\ ran' \subseteq Answer /\ reran' \in BOOLEAN
  BY <1>1, AnsType, SettleType
<1>3. plan' \subseteq Fn /\ outbox' \subseteq Fn /\ subs' \in [Fn -> Route \cup {NoRoute}]
  <2>1. CASE PlanApply(t, r) \/ PlanRelease(t, r)
    BY <2>1 DEF PlanApply, PlanRelease, TypeOK
  <2>2. CASE Subscribe(t, r) \/ Unsubscribe(t, r)
    BY <2>2 DEF Subscribe, Unsubscribe, TypeOK
  <2> QED BY <2>1, <2>2
<1>4. UNCHANGED <<holder, last, lease, conns, streams, nextRes, world, given>>
  BY DEF PlanApply, PlanRelease, Subscribe, Unsubscribe
<1> QED BY <1>2, <1>3, <1>4 DEF TypeOK, world

\* The probe's own steps keep the types.
LEMMA OwnStepType ==
  ASSUME TypeOK, Own \/ \E t \in Route : AnswerOut(t)
  PROVE  TypeOK'
<1>1. CASE Tick
  <2>1. left' \in Nat
    BY <1>1 DEF Tick, TypeOK
  <2>2. CASE UNCHANGED <<holder, owned>>
    BY <1>1, <2>1, <2>2 DEF Tick, TypeOK, owned, table, world, history
  <2>3. CASE holder' = NoSid /\ ReleaseOwned
    BY <1>1, <2>1, <2>3, ReleaseType DEF Tick, TypeOK, table, world, history
  <2> QED BY <1>1, <2>2, <2>3 DEF Tick
<1>2. CASE \E c \in conns : LineLost(c)
  BY <1>2 DEF LineLost, CloseConns, TypeOK, session, table, world, history
<1>3. CASE \E f \in Fn : Notify(f)
  BY <1>3 DEF Notify, TypeOK, session, table, world, history
<1>4. CASE PushOut
  BY <1>4 DEF PushOut, TypeOK, session, table, world, history
<1>5. ASSUME NEW b \in BootId, Reboot(b) PROVE TypeOK'
  <2>1. /\ holder' \in Sid \cup {NoSid} /\ last' \in Sid \cup {NoSid} /\ lease' \in Nat /\ left' \in Nat
        /\ nextRes' \in Nat /\ value' \in Nat /\ restarting' \in BOOLEAN /\ boot' \in BootId
    BY <1>5, ProbeAssumption DEF Reboot
  <2>2. resend' \subseteq Entry /\ newest' \in 0..CorrMax /\ ran' \subseteq Answer
    BY <1>5, CorrAssumption DEF Reboot
  <2>3. /\ conns' \subseteq Nat /\ streams' \subseteq [num: Nat, conn: Nat]
        /\ plan' \subseteq Fn /\ outbox' \subseteq Fn /\ given' \subseteq Nat
        /\ reran' \in BOOLEAN
    BY <1>5 DEF Reboot
  <2>4. subs' \in [Fn -> Route \cup {NoRoute}]
    BY <1>5 DEF Reboot
  <2>5. answers' \in [Route -> Seq(Answer)]
    BY <1>5 DEF Reboot, TypeOK
  <2> QED BY <2>1, <2>2, <2>3, <2>4, <2>5 DEF TypeOK
<1>6. ASSUME NEW t \in Route, AnswerOut(t) PROVE TypeOK'
  <2>1. answers[t] \in Seq(Answer) /\ answers[t] # <<>>
    BY <1>6 DEF AnswerOut, TypeOK
  <2>2. Tail(answers[t]) \in Seq(Answer)
    BY <2>1
  <2>3. answers' \in [Route -> Seq(Answer)]
    BY <1>6, <2>2 DEF AnswerOut, TypeOK
  <2> QED BY <1>6, <2>3 DEF AnswerOut, TypeOK, session, table, owned, world, history
<1> QED BY <1>1, <1>2, <1>3, <1>4, <1>5, <1>6 DEF Own

\* Every request handled keeps the types, whoever sent it.
LEMMA HandleType ==
  ASSUME TypeOK, NEW t \in Route, NEW r \in Requests, Handle(t, r)
  PROVE  TypeOK'
BY RefusalType, LockOpType, ResourceOpType, PlanOpType DEF Handle

\* Every step keeps the types.
LEMMA NextType == TypeOK /\ [Next]_vars => TypeOK'
<1> SUFFICES ASSUME TypeOK, [Next]_vars PROVE TypeOK'
  OBVIOUS
<1>1. ASSUME NEW t \in Route, NEW r \in Request, Handle(t, r) PROVE TypeOK'
  BY <1>1, RequestIsRequest, HandleType
<1>2. CASE Own \/ \E t \in Route : AnswerOut(t)
  BY <1>2, OwnStepType
<1>3. CASE UNCHANGED vars
  BY <1>3 DEF TypeOK, vars, session, table, owned, world, history
<1> QED BY <1>1, <1>2, <1>3 DEF Next

\* The probe's state keeps its types whatever clients send.
THEOREM TypeCorrect == Spec => []TypeOK
BY InitType, NextType, PTL DEF Spec

-------------------------------------------------------------------------------
(* What the requests have in common.                                        *)

\* A request leaves all but the outgoing answers alone, or it is settled without a change of
\* the lock, or it opens or ends a session.
LEMMA HandleKinds ==
  ASSUME TypeOK, NEW t \in Route, NEW r \in Requests, Handle(t, r)
  PROVE  \/ /\ HandleHeaderFault(t, r) \/ HandleResent(t, r)
            /\ UNCHANGED <<session, table, owned, nextRes, world, history, given>>
         \/ /\ Fresh(t, r) /\ UNCHANGED <<holder, last, lease>>
            /\ \E res \in Res, val \in Nat : Settle(t, r, Ans(r, res, val))
         \/ OpenTaken(t, r)
         \/ End(t, r)
<1>0. r.arg \in Nat /\ nextRes \in Nat /\ boot \in Nat /\ value \in Nat
  BY ProbeAssumption DEF Requests, TypeOK
<1>1. CASE HandleHeaderFault(t, r) \/ HandleResent(t, r)
  BY <1>1 DEF HandleHeaderFault, HandleResent
<1>2. CASE OpenRefused(t, r) \/ NotAdmitted(t, r)
  BY <1>2 DEF OpenRefused, OpenFault, NotAdmitted, Res
<1>3. CASE Confirm(t, r) \/ LockState(t, r) \/ Keepalive(t, r) \/ Read(t, r) \/ Bad(t, r)
  BY <1>0, <1>3 DEF Confirm, LockState, Keepalive, Read, Bad, Reaches, Answered, Res
<1>4. CASE Write(t, r) \/ Restart(t, r)
  BY <1>4 DEF Write, Restart, Reaches, Res
<1>5. CASE Attach(t, r)
  BY <1>0, <1>5 DEF Attach, NewNumber, Reaches, Res
<1>6. CASE Detach(t, r)
  BY <1>6 DEF Detach, NumberFault, Reaches, Res
<1>7. CASE StreamOpen(t, r)
  BY <1>0, <1>7 DEF StreamOpen, StreamFault, NumberFault, NewNumber, Reaches, Res
<1>8. CASE StreamClose(t, r)
  BY <1>8 DEF StreamClose, NumberFault, Reaches, Res
<1>9. CASE PlanApply(t, r) \/ PlanRelease(t, r) \/ Subscribe(t, r) \/ Unsubscribe(t, r)
  BY <1>9 DEF PlanApply, PlanRelease, Subscribe, Unsubscribe, Reaches, Res
<1> QED BY <1>1, <1>2, <1>3, <1>4, <1>5, <1>6, <1>7, <1>8, <1>9 DEF Handle

\* An operation outside the lock-free ones is reached by the holder only.
LEMMA HolderOnly ==
  ASSUME NEW t \in Route, NEW r \in Requests, NEW op \in Op \ LockFree, Reaches(t, r, op)
  PROVE  r.sid = holder /\ holder # NoSid
BY DEF Reaches, Fresh, HeaderFault, Admitted

\* An open that succeeds is one of a session, not the last one's while the lock is free.
LEMMA OpenTakenSid ==
  ASSUME NEW t \in Route, NEW r \in Requests, OpenTaken(t, r)
  PROVE  /\ r.sid # NoSid /\ holder' = r.sid /\ last' = r.sid
         /\ holder = NoSid => r.sid # last
BY DEF OpenTaken, OpenFault

-------------------------------------------------------------------------------
(* The lock and its lease.                                                  *)

\* The lock is held by the last session that opened and has a lease that is running, or it is
\* free and no clock runs.
LockInv ==
  /\ lease # 0
  /\ holder # NoSid => holder = last /\ left \in 1..lease
  /\ holder = NoSid => left = 0

\* A probe that has just started has no holder and no lease.
LEMMA LockInit == Init => LockInv
BY ProbeAssumption DEF Init, LockInv

\* A request handled keeps LockInv, over HolderOnly and what each handler does to the lease.
LEMMA HandleLock ==
  ASSUME TypeOK, LockInv, NEW t \in Route, NEW r \in Requests, Handle(t, r)
  PROVE  LockInv'
<1>0. r.arg \in Nat
  BY DEF Requests
<1>1. CASE UNCHANGED <<session, table, owned, nextRes, world, history, given>>
  BY <1>1 DEF LockInv, session
<1>2. ASSUME UNCHANGED <<holder, last, lease>>,
             NEW a \in Answer, Settle(t, r, a)
      PROVE  LockInv'
  BY <1>2 DEF LockInv, Settle, TypeOK
<1>3. CASE OpenTaken(t, r)
  <2>1. r.sid # NoSid /\ holder' = r.sid /\ last' = r.sid
    BY <1>3, OpenTakenSid
  <2>2. lease' \in Nat \ {0}
    BY <1>0, <1>3, LeaseIsPositive DEF OpenTaken
  <2>3. left' = lease'
    BY <1>3, <2>1 DEF OpenTaken, Settle
  <2> QED BY <2>1, <2>2, <2>3 DEF LockInv
<1>4. CASE End(t, r)
  BY <1>4 DEF End, Settle, LockInv
<1>5. ASSUME NEW res \in Res, NEW val \in Nat PROVE Ans(r, res, val) \in Answer
  BY AnsType
<1> QED BY <1>1, <1>2, <1>3, <1>4, <1>5, HandleKinds

\* LockInv is inductive: beside the requests only the clock and a restart touch the lock.
LEMMA LockNext == TypeOK /\ LockInv /\ [Next]_vars => LockInv'
<1> SUFFICES ASSUME TypeOK, LockInv, [Next]_vars PROVE LockInv'
  OBVIOUS
<1>1. CASE UNCHANGED session
  BY <1>1 DEF LockInv, session
<1>2. ASSUME NEW t \in Route, NEW r \in Request, Handle(t, r) PROVE LockInv'
  BY <1>2, RequestIsRequest, HandleLock
<1>3. CASE Tick
  BY <1>3 DEF Tick, LockInv, TypeOK
<1>4. ASSUME NEW b \in BootId, Reboot(b) PROVE LockInv'
  BY <1>4, ProbeAssumption DEF Reboot, LockInv
<1>5. CASE \/ \E c \in conns : LineLost(c)
           \/ \E f \in Fn : Notify(f)
           \/ PushOut
           \/ \E t \in Route : AnswerOut(t)
           \/ UNCHANGED vars
  BY <1>1, <1>5 DEF LineLost, Notify, PushOut, AnswerOut, vars
<1> QED BY <1>2, <1>3, <1>4, <1>5 DEF Next, Own

-------------------------------------------------------------------------------
(***************************************************************************)
(* The resend table: a request that was processed is not processed again   *)
(* while its corr can still be told apart from a new one, and the table    *)
(* repeats what was answered.  Both hold by one induction: every record    *)
(* of a processing lies in the window behind the newest corr, and what     *)
(* passes the table is ahead of that corr.                                 *)
(***************************************************************************)

\* What was processed lies in the window behind the newest corr.
RanInWindow == \A b \in ran : newest # 0 /\ InWindow(newest, b.req.corr)

\* A record is kept under the corr of its own request, with that request's answer.
RecordsAreOwn ==
  \A e \in resend : e.req # Dropped =>
    e.req.corr = e.corr /\ (e.ans # Dropped => e.ans.req = e.req)

TableInv == AtMostOnce /\ RanInWindow /\ RecordsAreOwn /\ TableIsTrue

\* A corr is in its own window.
LEMMA InOwnWindow == ASSUME NEW c \in 0..CorrMax PROVE InWindow(c, c)
BY CorrAssumption DEF InWindow, Diff

\* A request that passed the table is one of a new session, or its corr is none of those
\* processed before.
LEMMA PassedIsNew ==
  ASSUME TypeOK, RanInWindow, NEW r \in Requests, ~Resent(r), r.sid # NoSid, r.sid = last
  PROVE  \A b \in ran : b.req.corr # r.corr
<1> SUFFICES ASSUME NEW b \in ran, b.req.corr = r.corr PROVE FALSE
  OBVIOUS
<1>1. newest # 0 /\ InWindow(newest, r.corr)
  BY DEF RanInWindow
<1>2. Ahead(r.corr, newest)
  BY <1>1 DEF Resent
<1>3. newest \in 0..CorrMax /\ r.corr \in 0..CorrMax
  BY DEF TypeOK, Requests
<1> QED BY <1>1, <1>2, <1>3, WindowNotAhead

\* Settling a request that passed the table keeps the table's invariant.  Either a new lock
\* starts, or the session of the table is the same as before.
LEMMA SettleTable ==
  ASSUME TypeOK, TableInv, NEW t \in Route, NEW r \in Requests, NEW a \in Answer, a.req = r,
         Settle(t, r, a), ~Resent(r), r.corr # 0,
         r.sid = last' => NewLock \/ last' = last
  PROVE  TableInv'
<1>0. r.corr \in 0..CorrMax /\ Dropped \notin Requests /\ Dropped \notin Watched
  BY ProbeAssumption DEF Requests
<1>1. CASE ~(r.sid # NoSid /\ r.sid = last')
  BY <1>1 DEF Settle, TableInv, AtMostOnce, RanInWindow, RecordsAreOwn, TableIsTrue
<1>2. CASE r.sid # NoSid /\ r.sid = last'
  <2> DEFINE before == IF NewLock THEN {} ELSE ran
             was    == IF NewLock THEN {} ELSE resend
  <2>1. /\ resend' = Kept(was, r, a) /\ newest' = r.corr
        /\ ran' = {b \in before : InWindow(r.corr, b.req.corr)} \cup {b \in {a} : r \in Watched}
        /\ reran' = (reran \/ \E b \in before : b.req.corr = r.corr)
    BY <1>2 DEF Settle
  <2>2. AtMostOnce'
    <3>1. \A b \in before : b.req.corr # r.corr
      BY <1>2, PassedIsNew DEF TableInv
    <3> QED BY <2>1, <3>1 DEF TableInv, AtMostOnce
  <2>3. RanInWindow'
    BY <1>0, <2>1, InOwnWindow DEF RanInWindow
  <2>4. ASSUME NEW e \in resend'
        PROVE  /\ e.req # Dropped => e.req.corr = e.corr /\ (e.ans # Dropped => e.ans.req = e.req)
               /\ (e.req \in Watched /\ e.ans # Dropped) => e.ans \in ran' /\ e.ans.req = e.req
    <3>1. \/ e = [corr |-> r.corr,
                  req |-> IF r.arg \in LargeArg THEN Dropped ELSE r,
                  ans |-> IF a.val \in LargeVal THEN Dropped ELSE a]
          \/ e \in was /\ e.corr # r.corr /\ InWindow(r.corr, e.corr)
      BY <2>1, <2>4, KeptSubset
    <3>2. CASE e = [corr |-> r.corr,
                    req |-> IF r.arg \in LargeArg THEN Dropped ELSE r,
                    ans |-> IF a.val \in LargeVal THEN Dropped ELSE a]
      BY <1>0, <2>1, <3>2
    <3>3. CASE e \in was /\ e.corr # r.corr /\ InWindow(r.corr, e.corr)
      <4>1. e \in resend /\ before = ran
        BY <3>3
      <4>2. e.req # Dropped => e.req.corr = e.corr /\ (e.ans # Dropped => e.ans.req = e.req)
        BY <4>1 DEF TableInv, RecordsAreOwn
      <4>3. ASSUME e.req \in Watched, e.ans # Dropped
            PROVE  e.ans \in ran' /\ e.ans.req = e.req
        <5>1. e.ans \in ran /\ e.ans.req = e.req
          BY <4>1, <4>3 DEF TableInv, TableIsTrue
        <5>2. e.ans.req.corr = e.corr
          BY <1>0, <4>2, <4>3, <5>1
        <5> QED BY <2>1, <3>3, <4>1, <5>1, <5>2
      <4> QED BY <4>2, <4>3
    <3> QED BY <3>1, <3>2, <3>3
  <2> QED BY <2>2, <2>3, <2>4 DEF TableInv, RecordsAreOwn, TableIsTrue
<1> QED BY <1>1, <1>2

\* The table is empty at the start.
LEMMA TableInit == Init => TableInv
BY DEF Init, TableInv, AtMostOnce, RanInWindow, RecordsAreOwn, TableIsTrue

\* TableInv is inductive: only Settle changes the table, a reboot empties it.
LEMMA TableNext == TypeOK /\ LockInv /\ TableInv /\ [Next]_vars => TableInv'
<1> SUFFICES ASSUME TypeOK, LockInv, TableInv, [Next]_vars PROVE TableInv'
  OBVIOUS
<1>1. CASE UNCHANGED <<table, history>>
  BY <1>1 DEF TableInv, AtMostOnce, RanInWindow, RecordsAreOwn, TableIsTrue, table, history
<1>2. ASSUME NEW t \in Route, NEW r \in Request, Handle(t, r) PROVE TableInv'
  <2>0. r \in Requests
    BY RequestIsRequest
  <2>1. CASE UNCHANGED <<session, table, owned, nextRes, world, history, given>>
    BY <1>1, <2>1
  <2>2. ASSUME Fresh(t, r), NEW res \in Res, NEW val \in Nat, Settle(t, r, Ans(r, res, val)),
               r.sid = last' => NewLock \/ last' = last
        PROVE  TableInv'
    <3>1. Ans(r, res, val) \in Answer /\ Ans(r, res, val).req = r
      BY <2>0, AnsType DEF Ans
    <3>2. ~Resent(r) /\ r.corr # 0
      BY <2>2 DEF Fresh, HeaderFault
    <3> QED BY <2>0, <2>2, <3>1, <3>2, SettleTable
  <2>3. CASE OpenTaken(t, r)
    <3>1. /\ r.sid # NoSid /\ holder' = r.sid /\ last' = r.sid
      BY <2>0, <2>3, OpenTakenSid
    <3>2. NewLock \/ last' = last
      BY <3>1 DEF NewLock, LockInv
    <3>3. boot \in Nat
      BY ProbeAssumption DEF TypeOK
    <3> QED BY <2>2, <2>3, <3>2, <3>3 DEF OpenTaken, Res
  <2>4. CASE End(t, r)
    BY <2>2, <2>4 DEF End, Reaches, Res
  <2> QED BY <1>2, <2>0, <2>1, <2>2, <2>3, <2>4, HandleKinds
<1>3. ASSUME NEW b \in BootId, Reboot(b) PROVE TableInv'
  BY <1>3 DEF Reboot, TableInv, AtMostOnce, RanInWindow, RecordsAreOwn, TableIsTrue
<1>4. CASE \/ Tick \/ PushOut
           \/ \E c \in conns : LineLost(c)
           \/ \E f \in Fn : Notify(f)
           \/ \E t \in Route : AnswerOut(t)
           \/ UNCHANGED vars
  BY <1>1, <1>4 DEF Tick, LineLost, Notify, PushOut, AnswerOut, vars
<1> QED BY <1>2, <1>3, <1>4 DEF Next, Own

\* What is known of a processing that is still on record: the request passed the header, it
\* belongs to the last session, and the table keeps no other request under its corr.
RanIsLast ==
  \A b \in ran : /\ b.req \in Watched /\ HeaderFault(b.req) = "none"
                 /\ b.req.sid # NoSid /\ b.req.sid = last
                 /\ \A e \in resend : e.corr = b.req.corr => e.req \in {Dropped, b.req}

\* Nothing was processed at the start.
LEMMA RanIsLastInit == Init => RanIsLast
BY DEF Init, RanIsLast

\* What Settle writes into the record of processing is of the table's session.
LEMMA SettleRan ==
  ASSUME TypeOK, TableInv, RanIsLast, NEW t \in Route, NEW r \in Requests, NEW a \in Answer,
         a.req = r, Settle(t, r, a), ~Resent(r), HeaderFault(r) = "none",
         last' # last => NewLock /\ r.sid = last' /\ r.sid # NoSid
  PROVE  RanIsLast'
<1>1. CASE ~(r.sid # NoSid /\ r.sid = last')
  <2>1. UNCHANGED <<resend, ran, last>>
    BY <1>1 DEF Settle
  <2> QED BY <2>1 DEF RanIsLast
<1>2. CASE r.sid # NoSid /\ r.sid = last'
  <2> DEFINE before == IF NewLock THEN {} ELSE ran
             was    == IF NewLock THEN {} ELSE resend
  <2>1. /\ resend' = Kept(was, r, a)
        /\ ran' = {b \in before : InWindow(r.corr, b.req.corr)} \cup {b \in {a} : r \in Watched}
    BY <1>2 DEF Settle
  <2>2. SUFFICES ASSUME NEW b \in ran'
                 PROVE  /\ b.req \in Watched /\ HeaderFault(b.req) = "none"
                        /\ b.req.sid # NoSid /\ b.req.sid = last'
                        /\ \A e \in resend' : e.corr = b.req.corr => e.req \in {Dropped, b.req}
    BY DEF RanIsLast
  <2>3. ASSUME NEW e \in resend', e.corr # r.corr PROVE e \in was
    BY <2>1, <2>3, KeptSubset
  <2>4. ASSUME NEW e \in resend', e.corr = r.corr PROVE e.req \in {Dropped, r}
    BY <2>1, <2>4, KeptSubset
  <2>5. CASE b = a /\ r \in Watched
    BY <1>2, <2>4, <2>5
  <2>6. CASE b \in before
    <3>1. b \in ran /\ last' = last /\ was = resend
      BY <1>2, <2>6
    <3>2. b.req.corr # r.corr
      BY <1>2, <3>1, PassedIsNew DEF TableInv
    <3> QED BY <2>3, <3>1, <3>2 DEF RanIsLast
  <2> QED BY <2>1, <2>5, <2>6
<1> QED BY <1>1, <1>2

\* RanIsLast is inductive.
LEMMA RanIsLastNext ==
  TypeOK /\ LockInv /\ TableInv /\ RanIsLast /\ [Next]_vars => RanIsLast'
<1> SUFFICES ASSUME TypeOK, LockInv, TableInv, RanIsLast, [Next]_vars PROVE RanIsLast'
  OBVIOUS
<1>1. CASE UNCHANGED <<table, history, last>>
  BY <1>1 DEF RanIsLast, table, history
<1>2. ASSUME NEW t \in Route, NEW r \in Request, Handle(t, r) PROVE RanIsLast'
  <2>0. r \in Requests
    BY RequestIsRequest
  <2>1. CASE UNCHANGED <<session, table, owned, nextRes, world, history, given>>
    BY <1>1, <2>1 DEF session
  <2>2. ASSUME Fresh(t, r), NEW res \in Res, NEW val \in Nat, Settle(t, r, Ans(r, res, val)),
               last' # last => NewLock /\ r.sid = last' /\ r.sid # NoSid
        PROVE  RanIsLast'
    <3>1. Ans(r, res, val) \in Answer /\ Ans(r, res, val).req = r
      BY <2>0, AnsType DEF Ans
    <3>2. ~Resent(r) /\ HeaderFault(r) = "none"
      BY <2>2 DEF Fresh
    <3> QED BY <2>0, <2>2, <3>1, <3>2, SettleRan
  <2>3. CASE OpenTaken(t, r)
    <3>1. r.sid # NoSid /\ holder' = r.sid /\ last' = r.sid
      BY <2>0, <2>3, OpenTakenSid
    <3>2. NewLock \/ last' = last
      BY <3>1 DEF NewLock, LockInv
    <3>3. boot \in Nat
      BY ProbeAssumption DEF TypeOK
    <3> QED BY <2>2, <2>3, <3>1, <3>2, <3>3 DEF OpenTaken, Res
  <2>4. CASE End(t, r)
    BY <2>2, <2>4 DEF End, Reaches, Res
  <2> QED BY <1>2, <2>0, <2>1, <2>2, <2>3, <2>4, HandleKinds
<1>3. ASSUME NEW b \in BootId, Reboot(b) PROVE RanIsLast'
  BY <1>3 DEF Reboot, RanIsLast
<1>4. CASE \/ Tick \/ PushOut
           \/ \E c \in conns : LineLost(c)
           \/ \E f \in Fn : Notify(f)
           \/ \E t \in Route : AnswerOut(t)
           \/ UNCHANGED vars
  BY <1>1, <1>4 DEF Tick, LineLost, Notify, PushOut, AnswerOut, vars, session
<1> QED BY <1>2, <1>3, <1>4 DEF Next, Own

-------------------------------------------------------------------------------
(* The theorems.                                                            *)

ProbeTableInv == TypeOK /\ LockInv /\ TableInv /\ RanIsLast

\* The conjunction of the invariants holds in every reachable state.
LEMMA ProbeTableInvariant == Spec => []ProbeTableInv
<1>1. Init => ProbeTableInv
  BY InitType, LockInit, TableInit, RanIsLastInit DEF ProbeTableInv
<1>2. ProbeTableInv /\ [Next]_vars => ProbeTableInv'
  BY NextType, LockNext, TableNext, RanIsLastNext DEF ProbeTableInv
<1> QED BY <1>1, <1>2, PTL DEF Spec

\* A copy of a request never runs it again, whatever the session, the lock and the table went
\* through, as long as its corr is within half the space behind the newest (_resent).
THEOREM RunsOnce == Spec => []AtMostOnce
<1>1. ProbeTableInv => AtMostOnce
  BY DEF ProbeTableInv, TableInv
<1> QED BY <1>1, ProbeTableInvariant, PTL

\* What the resend table would give out again is what the request got when it was processed.
THEOREM TableRepeats == Spec => []TableIsTrue
<1>1. ProbeTableInv => TableIsTrue
  BY DEF ProbeTableInv, TableInv
<1> QED BY <1>1, ProbeTableInvariant, PTL

\* One more answer on one route, and no other answer.
LEMMA SentOne ==
  ASSUME TypeOK, NEW t \in Route, NEW a \in Answer, Send(t, a),
         NEW u \in Route, Len(answers'[u]) > Len(answers[u])
  PROVE  answers'[u][Len(answers'[u])] = a
<1>1. answers[t] \in Seq(Answer) /\ answers[u] \in Seq(Answer)
  BY DEF TypeOK
<1>2. answers'[t] = Append(answers[t], a) /\ (u # t => answers'[u] = answers[u])
  BY DEF Send, TypeOK
<1>3. u = t
  BY <1>1, <1>2
<1> QED BY <1>1, <1>2, <1>3

\* A record of the request's own corr is the request's, so the answer kept is the one it got.
LEMMA ResentVerdict ==
  ASSUME ProbeTableInv, NEW r \in Requests, NEW b \in ran, b.req = ResentAnswer(r).req
  PROVE  ResentAnswer(r) \in ran \/ ResentAnswer(r).res = "result_lost"
<1> USE DEF ProbeTableInv
<1>1. CASE Known(r.corr) = {}
  BY <1>1 DEF ResentAnswer, Ans
<1>2. CASE Known(r.corr) # {}
  <2> DEFINE e == CHOOSE k \in Known(r.corr) : TRUE
  <2>1. e \in resend /\ e.corr = r.corr
    BY <1>2 DEF Known
  <2>2. CASE e.req = Dropped \/ (e.req = r /\ e.ans = Dropped)
    BY <1>2, <2>2 DEF ResentAnswer, Ans
  <2>3. CASE e.req # Dropped /\ e.req # r
    <3>1. ResentAnswer(r).req = r
      BY <1>2, <2>3 DEF ResentAnswer, Ans
    <3> QED BY <2>1, <2>3, <3>1 DEF RanIsLast
  <2>4. CASE e.req = r /\ e.req # Dropped /\ e.ans # Dropped
    <3>1. ResentAnswer(r) = e.ans
      BY <1>2, <2>4 DEF ResentAnswer
    <3>2. e.req \in {Dropped, b.req} \/ e.corr # b.req.corr
      BY <2>1 DEF RanIsLast
    <3> QED BY <2>1, <2>4, <3>1, <3>2 DEF RanIsLast, TableInv, TableIsTrue, RecordsAreOwn
  <2> QED BY <2>2, <2>3, <2>4
<1> QED BY <1>1, <1>2

\* A copy of a request that was processed is answered as that processing was, or result_lost.
THEOREM CopiesGetOneVerdict == Spec => OneVerdict
<1>1. ProbeTableInv /\ [Next]_vars => [SameVerdict]_vars
  <2> SUFFICES ASSUME ProbeTableInv, Next, NEW u \in Route, Len(answers'[u]) > Len(answers[u]),
                      NEW b \in ran, b.req = answers'[u][Len(answers'[u])].req
               PROVE  LET a == answers'[u][Len(answers'[u])] IN a \in ran \/ a.res = "result_lost"
    BY DEF SameVerdict
  <2> USE DEF ProbeTableInv
  <2>1. ASSUME NEW t \in Route, NEW r \in Requests, NEW res \in Res, NEW val \in Nat,
               Settle(t, r, Ans(r, res, val)), ~Resent(r)
        PROVE  FALSE
    <3>1. Ans(r, res, val) \in Answer /\ Ans(r, res, val).req = r
      BY <2>1, AnsType DEF Ans
    <3>2. b.req = r
      BY <2>1, <3>1, SentOne DEF Settle
    <3>3. r.sid # NoSid /\ r.sid = last
      BY <3>2 DEF RanIsLast
    <3> QED BY <2>1, <3>2, <3>3, PassedIsNew DEF TableInv
  <2>2. ASSUME NEW t \in Route, NEW r \in Request, Handle(t, r)
        PROVE  LET a == answers'[u][Len(answers'[u])] IN a \in ran \/ a.res = "result_lost"
    <3>0. r \in Requests
      BY RequestIsRequest
    <3>1. CASE HandleHeaderFault(t, r)
      <4>1. Ans(r, HeaderFault(r), 0) \in Answer /\ Ans(r, HeaderFault(r), 0).req = r
        BY <3>0, <3>1, AnsType DEF HandleHeaderFault, HeaderFault, Res, Ans
      <4>2. b.req = r
        BY <3>1, <4>1, SentOne DEF HandleHeaderFault
      <4> QED BY <3>1, <4>2 DEF HandleHeaderFault, RanIsLast
    <3>2. CASE HandleResent(t, r)
      <4>1. ResentAnswer(r) \in Answer
        BY <3>0, ResentAnswerType
      <4>2. answers'[u][Len(answers'[u])] = ResentAnswer(r)
        BY <3>2, <4>1, SentOne DEF HandleResent
      <4> QED BY <3>0, <4>1, <4>2, ResentVerdict
    <3>3. ASSUME Fresh(t, r), NEW res \in Res, NEW val \in Nat, Settle(t, r, Ans(r, res, val))
          PROVE  FALSE
      BY <2>1, <3>0, <3>3 DEF Fresh
    <3>4. CASE OpenTaken(t, r)
      BY <3>3, <3>4, ProbeAssumption DEF OpenTaken, TypeOK, Res
    <3>5. CASE End(t, r)
      BY <3>3, <3>5 DEF End, Reaches, Res
    <3> QED BY <2>2, <3>0, <3>1, <3>2, <3>3, <3>4, <3>5, HandleKinds
  <2>3. CASE Own \/ \E t \in Route : AnswerOut(t)
    <3>1. answers[u] \in Seq(Answer)
      BY DEF TypeOK
    <3>2. CASE UNCHANGED answers
      BY <3>1, <3>2
    <3>3. ASSUME NEW t \in Route, AnswerOut(t) PROVE FALSE
      <4>1. answers'[u] = answers[u] \/ (answers[u] # <<>> /\ answers'[u] = Tail(answers[u]))
        BY <3>3 DEF AnswerOut, TypeOK
      <4>2. CASE answers[u] # <<>> /\ answers'[u] = Tail(answers[u])
        <5>1. Len(Tail(answers[u])) = Len(answers[u]) - 1 /\ Len(answers[u]) \in Nat
          BY <3>1, <4>2, HeadTailProperties, LenProperties
        <5> QED BY <4>2, <5>1
      <4> QED BY <3>1, <4>1, <4>2
    <3> QED BY <2>3, <3>2, <3>3 DEF Own, Tick, LineLost, Notify, PushOut, Reboot
  <2> QED BY <2>2, <2>3 DEF Next
<1> QED BY <1>1, ProbeTableInvariant, PTL DEF Spec, OneVerdict

\* A lease grows only by a request of its holder that is processed, or with a new lock: an answer
\* given out again, another session's request or one of no session never restarts it.
THEOREM LeaseNeedsProcessing == Spec => LeaseGrowsByProcessing
<1>1. ProbeTableInv /\ [Next]_vars => [LeaseRenewal]_vars
  <2> SUFFICES ASSUME ProbeTableInv, Next, left' > left, holder' = holder PROVE newest' # newest
    BY DEF LeaseRenewal
  <2> USE DEF ProbeTableInv
  <2>0. left \in Nat /\ newest \in 0..CorrMax
    BY DEF TypeOK
  <2>1. ASSUME NEW t \in Route, NEW r \in Requests, NEW a \in Answer, Settle(t, r, a), Fresh(t, r),
               last' = last
        PROVE  newest' # newest
    <3>1. r.sid # NoSid /\ r.sid = holder'
      BY <2>0, <2>1 DEF Settle, LockInv
    <3>2. r.sid = last
      BY <3>1 DEF LockInv
    <3>3. newest' = r.corr /\ r.corr # 0 /\ r.corr \in 0..CorrMax
      BY <2>1, <3>1, <3>2 DEF Settle, Fresh, HeaderFault, Requests
    <3>4. newest = 0 \/ Ahead(r.corr, newest)
      BY <2>1, <3>1, <3>2 DEF Fresh, Resent
    <3>5. ~Ahead(newest, newest)
      BY <2>0, InOwnWindow, WindowNotAhead
    <3> QED BY <3>3, <3>4, <3>5
  <2>2. ASSUME NEW t \in Route, NEW r \in Request, Handle(t, r) PROVE newest' # newest
    <3>0. r \in Requests
      BY RequestIsRequest
    <3>1. CASE UNCHANGED <<session, table, owned, nextRes, world, history, given>>
      BY <2>0, <3>1 DEF session
    <3>2. ASSUME Fresh(t, r), last' = last,
                 NEW res \in Res, NEW val \in Nat, Settle(t, r, Ans(r, res, val))
          PROVE  newest' # newest
      BY <2>1, <3>0, <3>2, AnsType
    <3>3. CASE OpenTaken(t, r)
      <4>1. last' = last
        BY <3>0, <3>3, OpenTakenSid DEF LockInv
      <4>2. boot \in Nat
        BY ProbeAssumption DEF TypeOK
      <4> QED BY <3>2, <3>3, <4>1, <4>2 DEF OpenTaken, Res
    <3>4. CASE End(t, r)
      BY <3>2, <3>4 DEF End, Reaches, Res
    <3> QED BY <2>2, <3>0, <3>1, <3>2, <3>3, <3>4, HandleKinds
  <2>3. CASE Own \/ \E t \in Route : AnswerOut(t)
    <3>1. CASE UNCHANGED session
      BY <2>0, <3>1 DEF session
    <3>2. CASE Tick
      BY <2>0, <3>2 DEF Tick
    <3>3. ASSUME NEW b \in BootId, Reboot(b) PROVE FALSE
      BY <2>0, <3>3 DEF Reboot
    <3> QED BY <2>3, <3>1, <3>2, <3>3 DEF Own, LineLost, Notify, PushOut, AnswerOut
  <2> QED BY <2>2, <2>3 DEF Next
<1> QED BY <1>1, ProbeTableInvariant, PTL DEF Spec, LeaseGrowsByProcessing

-------------------------------------------------------------------------------
(***************************************************************************)
(* What a session owns: it is the holder's, it is gone when the lock       *)
(* changes hands, its numbers are never given out again, and so the probe  *)
(* keeps the promise of SessionLock.                                       *)
(*                                                                         *)
(* The requests fall into a few kinds of step as far as ownership goes.    *)
(* OwnedSteps puts every step of the probe into one of them; the           *)
(* invariant, the action properties and the refinement are then proved a   *)
(* kind at a time.                                                         *)
(***************************************************************************)

FreeIsEmpty ==
  holder = NoSid => conns = {} /\ streams = {} /\ plan = {} /\ Subscribed = {}

\* The numbers in use were given out, and the next one was not.
Counted ==
  /\ conns \cup StreamNums \subseteq given
  /\ \A n \in given : n < nextRes

OwnedInv == FreeIsEmpty /\ NotificationsHaveSubscriber /\ StreamsOnConnections /\ Counted

NoSubs == subs' = [f \in Fn |-> NoRoute]

Idle == UNCHANGED <<holder, last, owned, nextRes, given>>

Granted ==
  /\ holder = NoSid /\ holder' \in Sid /\ holder' # last /\ last' = holder'
  /\ NoSubs /\ UNCHANGED <<conns, streams, plan, outbox, nextRes, given>>

Forced ==
  /\ holder # NoSid /\ holder' \in Sid /\ holder' # holder /\ last' = holder'
  /\ ReleaseOwned /\ UNCHANGED <<nextRes, given>>

Released ==
  /\ holder # NoSid /\ holder' = NoSid /\ last' = last
  /\ ReleaseOwned /\ UNCHANGED <<nextRes, given>>

Restarted ==
  /\ holder' = NoSid /\ last' = NoSid /\ nextRes' = 1 /\ given' = {}
  /\ conns' = {} /\ streams' = {} /\ plan' = {} /\ outbox' = {} /\ NoSubs

\* The holder's own steps.
Holding == holder # NoSid /\ UNCHANGED <<holder, last>>

MakesConn ==
  /\ NewNumber(nextRes) /\ conns' = conns \cup {nextRes}
  /\ UNCHANGED <<streams, plan, subs, outbox>>

MakesStream(c) ==
  /\ c \in conns /\ ~Streaming(c) /\ NewNumber(nextRes)
  /\ streams' = streams \cup {[num |-> nextRes, conn |-> c]}
  /\ UNCHANGED <<conns, plan, subs, outbox>>

ClosesConn(c) == CloseConns({c}) /\ UNCHANGED <<nextRes, given>>

ClosesStream(n) ==
  /\ streams' = {s \in streams : s.num # n}
  /\ UNCHANGED <<conns, plan, subs, outbox, nextRes, given>>

Plans == UNCHANGED <<conns, streams, subs, outbox, nextRes, given>>

Subscribes(f, x) ==
  /\ subs' = [subs EXCEPT ![f] = x] /\ outbox' = outbox \ {f}
  /\ UNCHANGED <<conns, streams, plan, nextRes, given>>

Notes ==
  /\ outbox' \subseteq Subscribed
  /\ UNCHANGED <<conns, streams, plan, subs, nextRes, given>>

Works ==
  /\ Holding
  /\ \/ MakesConn
     \/ \E c \in Nat : MakesStream(c) \/ ClosesConn(c) \/ ClosesStream(c)
     \/ Plans
     \/ \E f \in Fn, x \in Route \cup {NoRoute} : Subscribes(f, x)
     \/ Notes

OwnedStep == Idle \/ Granted \/ Forced \/ Released \/ Restarted \/ Works

\* The operations of an admitted request, by what they do to what the session owns.
LEMMA WorkSteps ==
  ASSUME TypeOK, NEW t \in Route, NEW r \in Requests,
         \/ Attach(t, r) \/ Detach(t, r) \/ StreamOpen(t, r) \/ StreamClose(t, r)
         \/ PlanApply(t, r) \/ PlanRelease(t, r) \/ Subscribe(t, r) \/ Unsubscribe(t, r)
  PROVE  Idle \/ Works
<1>0. r.arg \in Nat
  BY DEF Requests
<1>1. Holding
  <2>1. holder # NoSid
    BY HolderOnly DEF Attach, Detach, StreamOpen, StreamClose, PlanApply, PlanRelease,
                      Subscribe, Unsubscribe, Op, LockFree, OpenOps
  <2> QED BY <2>1 DEF Holding, Attach, Detach, StreamOpen, StreamClose, PlanApply, PlanRelease,
                      Subscribe, Unsubscribe
<1>2. CASE Attach(t, r)
  BY <1>1, <1>2 DEF Attach, Idle, Works, MakesConn, Holding, owned
<1>3. CASE Detach(t, r)
  BY <1>0, <1>1, <1>3 DEF Detach, Idle, Works, ClosesConn, Holding
<1>4. CASE StreamOpen(t, r)
  <2>1. CASE StreamFault(r.arg) # "none"
    BY <1>4, <2>1 DEF StreamOpen, Idle, owned
  <2>2. CASE StreamFault(r.arg) = "none"
    <3>1. r.arg \in conns /\ ~Streaming(r.arg)
      BY <2>2 DEF StreamFault, NumberFault
    <3>2. MakesStream(r.arg)
      BY <1>4, <2>2, <3>1 DEF StreamOpen, MakesStream
    <3> QED BY <1>0, <1>1, <3>2 DEF Works
  <2> QED BY <2>1, <2>2
<1>5. CASE StreamClose(t, r)
  BY <1>0, <1>1, <1>5 DEF StreamClose, Idle, Works, ClosesStream, Holding, owned
<1>6. CASE PlanApply(t, r) \/ PlanRelease(t, r)
  BY <1>1, <1>6 DEF PlanApply, PlanRelease, Works, Plans
<1>7. CASE Subscribe(t, r) \/ Unsubscribe(t, r)
  <2>1. r.arg \in Fn /\ (Subscribes(r.arg, t) \/ Subscribes(r.arg, NoRoute))
    BY <1>7 DEF Subscribe, Unsubscribe, Subscribes
  <2> QED BY <1>1, <2>1 DEF Works
<1> QED BY <1>2, <1>3, <1>4, <1>5, <1>6, <1>7

\* Every request is one of the kinds.
LEMMA HandleOwned ==
  ASSUME TypeOK, LockInv, OwnedInv, NEW t \in Route, NEW r \in Requests, Handle(t, r)
  PROVE  OwnedStep
<1>1. CASE \/ HandleHeaderFault(t, r) \/ HandleResent(t, r)
           \/ OpenRefused(t, r) \/ NotAdmitted(t, r)
           \/ Confirm(t, r) \/ LockState(t, r) \/ Keepalive(t, r) \/ Read(t, r) \/ Bad(t, r)
           \/ Write(t, r) \/ Restart(t, r)
  BY <1>1 DEF HandleHeaderFault, HandleResent, OpenRefused, NotAdmitted, Confirm, LockState,
              Keepalive, Read, Bad, Answered, Write, Restart, OwnedStep, Idle, session, owned
<1>2. CASE OpenTaken(t, r)
  <2>1. /\ r.sid \in Sid /\ holder' = r.sid /\ last' = r.sid
        /\ holder = NoSid => r.sid # last
    BY <1>2, OpenTakenSid DEF Requests
  <2>2. CASE holder = r.sid
    BY <1>2, <2>1, <2>2, ProbeAssumption DEF OpenTaken, LockInv, OwnedStep, Idle
  <2>3. CASE holder \notin {NoSid, r.sid}
    BY <1>2, <2>1, <2>3 DEF OpenTaken, OwnedStep, Forced
  <2>4. CASE holder = NoSid
    BY <1>2, <2>1, <2>4, ProbeAssumption DEF OpenTaken, OwnedStep, Granted, NoSubs
  <2> QED BY <2>2, <2>3, <2>4
<1>3. CASE End(t, r)
  <2>1. holder # NoSid
    BY <1>3, HolderOnly DEF End, Op, LockFree, OpenOps
  <2> QED BY <1>3, <2>1 DEF End, OwnedStep, Released
<1>4. CASE \/ Attach(t, r) \/ Detach(t, r) \/ StreamOpen(t, r) \/ StreamClose(t, r)
           \/ PlanApply(t, r) \/ PlanRelease(t, r) \/ Subscribe(t, r) \/ Unsubscribe(t, r)
  BY <1>4, WorkSteps DEF OwnedStep
<1> QED BY <1>1, <1>2, <1>3, <1>4 DEF Handle

\* So is every step of the probe.
LEMMA OwnedSteps ==
  TypeOK /\ LockInv /\ OwnedInv /\ [Next]_vars => OwnedStep
<1> SUFFICES ASSUME TypeOK, LockInv, OwnedInv, [Next]_vars PROVE OwnedStep
  OBVIOUS
<1>1. ASSUME NEW t \in Route, NEW r \in Request, Handle(t, r) PROVE OwnedStep
  BY <1>1, HandleOwned, RequestIsRequest
<1>2. CASE Tick
  <2>1. holder # NoSid
    BY <1>2 DEF Tick, LockInv
  <2> QED BY <1>2, <2>1 DEF Tick, OwnedStep, Idle, Released
<1>3. ASSUME NEW c \in conns, LineLost(c) PROVE OwnedStep
  <2>1. Holding /\ c \in Nat
    BY <1>3 DEF LineLost, OwnedInv, FreeIsEmpty, Holding, session, TypeOK
  <2> QED BY <1>3, <2>1 DEF LineLost, OwnedStep, Works, ClosesConn
<1>4. ASSUME NEW f \in Fn, Notify(f) PROVE OwnedStep
  <2>1. Holding
    BY <1>4 DEF Notify, OwnedInv, FreeIsEmpty, Subscribed, Holding, session
  <2>2. Notes
    BY <1>4 DEF Notify, Notes, OwnedInv, NotificationsHaveSubscriber, Subscribed
  <2> QED BY <2>1, <2>2 DEF OwnedStep, Works
<1>5. CASE PushOut
  <2>1. Holding
    BY <1>5 DEF PushOut, OwnedInv, FreeIsEmpty, NotificationsHaveSubscriber, Holding, session
  <2>2. Notes
    BY <1>5 DEF PushOut, Notes
  <2> QED BY <2>1, <2>2 DEF OwnedStep, Works
<1>6. ASSUME NEW b \in BootId, Reboot(b) PROVE OwnedStep
  BY <1>6 DEF Reboot, OwnedStep, Restarted, NoSubs
<1>7. CASE (\E t \in Route : AnswerOut(t)) \/ UNCHANGED vars
  BY <1>7 DEF AnswerOut, vars, session, owned, OwnedStep, Idle
<1> QED BY <1>1, <1>2, <1>3, <1>4, <1>5, <1>6, <1>7 DEF Next, Own

-------------------------------------------------------------------------------
(* The invariant.                                                           *)

\* A probe that has just started owns nothing.
LEMMA OwnedInit == Init => OwnedInv
BY DEF Init, OwnedInv, FreeIsEmpty, NotificationsHaveSubscriber, StreamsOnConnections, Counted,
       Subscribed, StreamNums

\* The end of a lock leaves nothing, the unsent notifications included.
LEMMA ReleaseEmpties ==
  ASSUME OwnedInv, ReleaseOwned
  PROVE  /\ conns' = {} /\ streams' = {} /\ plan' = {} /\ outbox' = {}
         /\ \A f \in Fn : subs'[f] = NoRoute
BY DEF OwnedInv, NotificationsHaveSubscriber, ReleaseOwned

\* With nothing live the invariant holds.
LEMMA EmptyOwned ==
  ASSUME conns' = {}, streams' = {}, plan' = {}, outbox' = {}, \A f \in Fn : subs'[f] = NoRoute,
         \A n \in given' : n < nextRes'
  PROVE  OwnedInv'
BY DEF OwnedInv, FreeIsEmpty, NotificationsHaveSubscriber, StreamsOnConnections, Counted,
       Subscribed, StreamNums

\* A new number is none of those in use.
LEMMA NewIsUnused ==
  ASSUME TypeOK, OwnedInv
  PROVE  nextRes \notin given /\ nextRes \notin conns /\ nextRes \notin StreamNums
BY DEF OwnedInv, Counted, TypeOK

\* A number given out now keeps the count.
LEMMA NewNumberCounted ==
  ASSUME TypeOK, OwnedInv, NewNumber(nextRes)
  PROVE  given' = given \cup {nextRes} /\ \A n \in given' : n < nextRes'
BY DEF OwnedInv, Counted, NewNumber, TypeOK

\* A step that neither starts nor ends a lock works on things of the holder, under fresh numbers.
LEMMA WorksInv ==
  ASSUME TypeOK, OwnedInv, Works PROVE OwnedInv'
<1>0. holder' # NoSid
  BY DEF Works, Holding
<1>1. FreeIsEmpty'
  BY <1>0 DEF FreeIsEmpty
<1> USE DEF OwnedInv
<1>2. CASE MakesConn
  <2>1. StreamsOnConnections'
    BY <1>2, NewIsUnused DEF MakesConn, StreamsOnConnections, StreamNums
  <2>2. Counted'
    BY <1>2, NewNumberCounted DEF MakesConn, Counted, StreamNums
  <2>3. NotificationsHaveSubscriber'
    BY <1>2 DEF MakesConn, NotificationsHaveSubscriber, Subscribed
  <2> QED BY <1>1, <2>1, <2>2, <2>3
<1>3. ASSUME NEW c \in Nat, MakesStream(c) PROVE OwnedInv'
  <2>1. StreamsOnConnections'
    <3> DEFINE new == [num |-> nextRes, conn |-> c]
    <3>1. \A s \in streams : s.conn # c
      BY <1>3 DEF MakesStream, Streaming
    <3>2. streams' = streams \cup {new} /\ new.conn = c /\ new.num = nextRes /\ conns' = conns /\ c \in conns
      BY <1>3 DEF MakesStream
    <3>3. StreamNums' = StreamNums \cup {nextRes}
      BY <3>2 DEF StreamNums
    <3> HIDE DEF new
    <3> QED BY <3>1, <3>2, <3>3, NewIsUnused DEF StreamsOnConnections
  <2>2. Counted'
    BY <1>3, NewNumberCounted DEF MakesStream, Counted, StreamNums
  <2>3. NotificationsHaveSubscriber'
    BY <1>3 DEF MakesStream, NotificationsHaveSubscriber, Subscribed
  <2> QED BY <1>1, <2>1, <2>2, <2>3
<1>4. ASSUME NEW c \in Nat, ClosesConn(c) \/ ClosesStream(c) PROVE OwnedInv'
  <2>1. streams' \subseteq streams /\ conns' \subseteq conns /\ UNCHANGED <<subs, outbox, nextRes, given>>
    BY <1>4 DEF ClosesConn, ClosesStream, CloseConns
  <2>2. \A s \in streams' : s.conn \in conns'
    BY <1>4 DEF ClosesConn, ClosesStream, CloseConns, StreamsOnConnections
  <2>3. StreamsOnConnections'
    BY <2>1, <2>2 DEF StreamsOnConnections, StreamNums
  <2>4. Counted'
    BY <2>1 DEF Counted, StreamNums
  <2>5. NotificationsHaveSubscriber'
    BY <2>1 DEF NotificationsHaveSubscriber, Subscribed
  <2> QED BY <1>1, <2>3, <2>4, <2>5
<1>5. CASE Plans
  BY <1>1, <1>5 DEF Plans, StreamsOnConnections, StreamNums, Counted, NotificationsHaveSubscriber,
                    Subscribed
<1>6. ASSUME NEW f \in Fn, NEW x \in Route \cup {NoRoute}, Subscribes(f, x) PROVE OwnedInv'
  <2>1. NotificationsHaveSubscriber'
    BY <1>6 DEF Subscribes, NotificationsHaveSubscriber, Subscribed, TypeOK
  <2>2. StreamsOnConnections' /\ Counted'
    BY <1>6 DEF Subscribes, StreamsOnConnections, StreamNums, Counted
  <2> QED BY <1>1, <2>1, <2>2
<1>7. CASE Notes
  BY <1>1, <1>7 DEF Notes, StreamsOnConnections, StreamNums, Counted, NotificationsHaveSubscriber,
                    Subscribed
<1> QED BY <1>2, <1>3, <1>4, <1>5, <1>6, <1>7 DEF Works

\* OwnedInv is inductive, over the kinds of step that OwnedSteps names.
LEMMA OwnedNext == TypeOK /\ LockInv /\ OwnedInv /\ [Next]_vars => OwnedInv'
<1> SUFFICES ASSUME TypeOK, LockInv, OwnedInv, OwnedStep PROVE OwnedInv'
  BY OwnedSteps
<1>1. CASE Idle
  BY <1>1 DEF Idle, owned, OwnedInv, FreeIsEmpty, NotificationsHaveSubscriber,
              StreamsOnConnections, Counted, Subscribed, StreamNums
<1>2. CASE Granted
  <2>1. conns = {} /\ streams = {} /\ plan = {} /\ outbox = {}
    BY <1>2 DEF Granted, OwnedInv, FreeIsEmpty, NotificationsHaveSubscriber
  <2>2. \A n \in given' : n < nextRes'
    BY <1>2 DEF Granted, OwnedInv, Counted
  <2>3. \A f \in Fn : subs'[f] = NoRoute
    BY <1>2 DEF Granted, NoSubs
  <2> QED BY <1>2, <2>1, <2>2, <2>3, EmptyOwned DEF Granted
<1>3. CASE Forced \/ Released
  <2>1. ReleaseOwned /\ \A n \in given' : n < nextRes'
    BY <1>3 DEF Forced, Released, OwnedInv, Counted
  <2> QED BY <2>1, ReleaseEmpties, EmptyOwned
<1>4. CASE Restarted
  BY <1>4, EmptyOwned DEF Restarted, NoSubs
<1>5. CASE Works
  BY <1>5, WorksInv
<1> QED BY <1>1, <1>2, <1>3, <1>4, <1>5 DEF OwnedStep

ProbeOwnedInv == TypeOK /\ LockInv /\ OwnedInv

\* The conjunction of the invariants holds in every reachable state.
LEMMA ProbeOwnedInvariant == Spec => []ProbeOwnedInv
<1>1. Init => ProbeOwnedInv
  BY InitType, LockInit, OwnedInit DEF ProbeOwnedInv
<1>2. ProbeOwnedInv /\ [Next]_vars => ProbeOwnedInv'
  BY NextType, LockNext, OwnedNext DEF ProbeOwnedInv
<1> QED BY <1>1, <1>2, PTL DEF Spec

-------------------------------------------------------------------------------
(* The theorems.                                                            *)

\* Connections, streams, the plan and the subscriptions belong to the session that holds the
\* lock now; with the lock free there are none, and no lease runs.
THEOREM BelongsToHolder == Spec => []OwnedByHolder
<1>1. ProbeOwnedInv => OwnedByHolder
  BY DEF ProbeOwnedInv, LockInv, OwnedInv, FreeIsEmpty, OwnedByHolder
<1> QED BY <1>1, ProbeOwnedInvariant, PTL

\* A notification that waits has a subscriber, and a console stream a connection of its own.
THEOREM LiveThingsAreWired == Spec => []LiveThingsWired
<1>1. ProbeOwnedInv => LiveThingsWired
  BY DEF ProbeOwnedInv, OwnedInv, LiveThingsWired
<1> QED BY <1>1, ProbeOwnedInvariant, PTL

\* Both: what is live is the holder's, and wired to something live.
THEOREM LiveThingsAreOwned == Spec => []LiveThingsOwned
<1>1. OwnedByHolder /\ LiveThingsWired => LiveThingsOwned
  BY DEF LiveThingsOwned
<1> QED BY <1>1, BelongsToHolder, LiveThingsAreWired, PTL

\* Whenever the lock changes hands nothing of the session before is left.
THEOREM HandsOverNothing == Spec => NothingPassesOn
<1>1. ProbeOwnedInv /\ [Next]_vars => [HandedOverEmpty]_vars
  <2> SUFFICES ASSUME ProbeOwnedInv, OwnedStep, holder' # holder PROVE HandedOverEmpty
    BY OwnedSteps DEF ProbeOwnedInv, HandedOverEmpty
  <2>1. CASE Granted
    BY <2>1 DEF Granted, NoSubs, ProbeOwnedInv, OwnedInv, FreeIsEmpty,
                NotificationsHaveSubscriber, HandedOverEmpty
  <2>2. CASE Forced \/ Released
    BY <2>2, ReleaseEmpties DEF Forced, Released, ProbeOwnedInv, HandedOverEmpty
  <2>3. CASE Restarted
    BY <2>3 DEF Restarted, NoSubs, HandedOverEmpty
  <2> QED BY <2>1, <2>2, <2>3 DEF OwnedStep, Idle, Works, Holding
<1> QED BY <1>1, ProbeOwnedInvariant, PTL DEF Spec, NothingPassesOn

\* A connection or a stream that is made has a number nothing had before in this boot.
THEOREM NumbersAreFresh == Spec => NumbersNotReused
<1>1. ProbeOwnedInv /\ [Next]_vars => [FreshNumbers]_vars
  <2> SUFFICES ASSUME ProbeOwnedInv, OwnedStep,
                      NEW n \in conns' \cup {s.num : s \in streams'}, n \notin conns \cup StreamNums
               PROVE  n \notin given
    BY OwnedSteps DEF ProbeOwnedInv, FreshNumbers
  <2> USE DEF ProbeOwnedInv
  <2>1. CASE conns' \subseteq conns /\ streams' \subseteq streams
    BY <2>1 DEF StreamNums
  <2>2. CASE MakesConn
    BY <2>2, NewIsUnused DEF MakesConn, StreamNums
  <2>3. ASSUME NEW c \in Nat, MakesStream(c) PROVE n \notin given
    BY <2>3, NewIsUnused DEF MakesStream, StreamNums
  <2> QED BY <2>1, <2>2, <2>3 DEF OwnedStep, Idle, Granted, Forced, Released, Restarted, Works,
          ReleaseOwned, ClosesConn, ClosesStream, CloseConns, Plans, Subscribes, Notes, owned
<1> QED BY <1>1, ProbeOwnedInvariant, PTL DEF Spec, NumbersNotReused

-------------------------------------------------------------------------------
(* The refinement.                                                          *)

\* The connections and the streams among the possessions are what has a number.
LEMMA NumberedIs ==
  /\ Lock!Numbered = ({"conn"} \X conns) \cup ({"stream"} \X StreamNums)
  /\ Lock!Numbered' = ({"conn"} \X conns') \cup ({"stream"} \X StreamNums')
BY DEF Lock!Numbered, Possessions

\* With nothing live there are no possessions.
LEMMA EmptyPossessions ==
  ASSUME conns' = {}, streams' = {}, plan' = {}, outbox' = {}, \A f \in Fn : subs'[f] = NoRoute
  PROVE  Possessions' = {}
<1>1. StreamNums' = {} /\ Subscribed' = {}
  BY DEF StreamNums, Subscribed
<1> QED BY <1>1 DEF Possessions

\* A probe that has just started is a free lock nobody has held.
LEMMA LockInitMaps == Init => Lock!Init
<1> SUFFICES ASSUME Init PROVE Lock!Init
  OBVIOUS
<1>1. StreamNums = {} /\ Subscribed = {}
  BY DEF Init, StreamNums, Subscribed
<1> QED BY <1>1 DEF Init, Lock!Init, Possessions

\* The holder's own steps create one thing under the next number, or change what has none and
\* let go of the rest.
LEMMA WorksMaps ==
  ASSUME Works PROVE Lock!Next \/ UNCHANGED <<holder, last, Possessions, nextRes>>
<1>0. holder # NoSid /\ UNCHANGED <<holder, last>>
  BY DEF Works, Holding
<1>1. CASE MakesConn
  <2>1. StreamNums' = StreamNums /\ Subscribed' = Subscribed /\ conns' = conns \cup {nextRes}
    BY <1>1 DEF MakesConn, StreamNums, Subscribed
  <2>2. Possessions' = Possessions \cup {<<"conn", nextRes>>}
    BY <1>1, <2>1 DEF MakesConn, Possessions
  <2>3. Lock!Create("conn")
    BY <1>0, <1>1, <2>2 DEF Lock!Create, MakesConn, NewNumber
  <2> QED BY <2>3 DEF Lock!Next
<1>2. ASSUME NEW c \in Nat, MakesStream(c) PROVE Lock!Next
  <2>1. StreamNums' = StreamNums \cup {nextRes} /\ Subscribed' = Subscribed
    <3> DEFINE new == [num |-> nextRes, conn |-> c]
    <3>1. streams' = streams \cup {new} /\ new.num = nextRes /\ subs' = subs
      BY <1>2 DEF MakesStream
    <3> HIDE DEF new
    <3> QED BY <3>1 DEF StreamNums, Subscribed
  <2>2. Possessions' = Possessions \cup {<<"stream", nextRes>>}
    BY <1>2, <2>1 DEF MakesStream, Possessions
  <2>3. Lock!Create("stream")
    BY <1>0, <1>2, <2>2 DEF Lock!Create, MakesStream, NewNumber
  <2> QED BY <2>3 DEF Lock!Next
<1>3. ASSUME conns' \subseteq conns, streams' \subseteq streams, nextRes' = nextRes PROVE Lock!Next
  <2>1. StreamNums' \subseteq StreamNums
    BY <1>3 DEF StreamNums
  <2>2. Lock!Numbered' \subseteq Lock!Numbered
    BY <1>3, <2>1, NumberedIs
  <2> QED BY <1>0, <1>3, <2>2 DEF Lock!Change, Lock!Next
<1> QED BY <1>1, <1>2, <1>3 DEF Works, ClosesConn, ClosesStream, CloseConns, Plans, Subscribes, Notes

\* Every step of the probe is a step of the abstract lock or leaves it as it is.
LEMMA LockStepMaps ==
  ASSUME ProbeOwnedInv, OwnedStep
  PROVE  Lock!Next \/ UNCHANGED <<holder, last, Possessions, nextRes>>
<1> USE DEF ProbeOwnedInv
<1>1. CASE Idle
  BY <1>1 DEF Idle, owned, Possessions, StreamNums, Subscribed
<1>2. CASE Granted
  <2>1. Subscribed = {} /\ Subscribed' = {} /\ StreamNums' = StreamNums
    BY <1>2 DEF Granted, NoSubs, OwnedInv, FreeIsEmpty, Subscribed, StreamNums
  <2>2. Possessions' = Possessions
    BY <1>2, <2>1 DEF Granted, Possessions
  <2> QED BY <1>2, <2>2 DEF Granted, Lock!Grant, Lock!Next
<1>3. CASE Forced
  <2>1. Possessions' = {}
    BY <1>3, ReleaseEmpties, EmptyPossessions DEF Forced
  <2> QED BY <1>3, <2>1 DEF Forced, Lock!Steal, Lock!Next
<1>4. CASE Released
  <2>1. Possessions' = {}
    BY <1>4, ReleaseEmpties, EmptyPossessions DEF Released
  <2> QED BY <1>4, <2>1 DEF Released, Lock!Release, Lock!Next
<1>5. CASE Restarted
  <2>1. Possessions' = {}
    BY <1>5, EmptyPossessions DEF Restarted, NoSubs
  <2> QED BY <1>5, <2>1 DEF Restarted, Lock!Restart, Lock!Next
<1>6. CASE Works
  BY <1>6, WorksMaps
<1> QED BY <1>1, <1>2, <1>3, <1>4, <1>5, <1>6 DEF OwnedStep

\* The probe implements SessionLock: one owner at a time, all it created gone with the lock, an
\* ended id not granted again while no other session was, and no number given out twice.
THEOREM ProbeImplementsLock == Spec => ImplementsLock
<1>1. Init => Lock!Init
  BY LockInitMaps
<1>2. ProbeOwnedInv /\ [Next]_vars => [Lock!Next]_<<holder, last, Possessions, nextRes>>
  BY OwnedSteps, LockStepMaps DEF ProbeOwnedInv
<1> QED BY <1>1, <1>2, ProbeOwnedInvariant, PTL DEF Spec, ImplementsLock, Lock!Spec
===============================================================================
