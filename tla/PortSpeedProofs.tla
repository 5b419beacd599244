--------------------------- MODULE PortSpeedProofs ---------------------------
(***************************************************************************)
(* The host and its port, for every set of rates, times, plans, lines and  *)
(* faults: between two calls they do not talk past each other, a return to *)
(* the boot speed finds the probe, and an end leaves both at one rate.     *)
(*                                                                         *)
(* What the port does by itself only calms it (Calms): it never raises the *)
(* rate, and a return that waits stays.  A try and a commit raise it, and  *)
(* only in a request of the host that holds the lock.  SpeedInv says where *)
(* the host can be while the port is raised; it is proved a step at a time.*)
(***************************************************************************)
EXTENDS PortSpeed, TLAPS, FiniteSetTheorems

PCs == {"free", "failed", "call", "try", "confirm", "verify", "commit", "revert", "base", "state", "recover"} \cup Down \cup {"open"}
Answers == {"ok", "no_session", "refused"}
Replies == Answers \cup {"none", "silent", "broken"}
AllRates == Rates \cup {Boot}

PortType == [state : {"base", "try", "committed"}, rate : AllRates, left : Nat, fallback : BOOLEAN, busy : BOOLEAN]

\* A port at the boot speed, or raised for no longer than its state grants.
PortOK(p) ==
  /\ p \in PortType
  /\ p.state = "base" <=> p.rate = Boot
  /\ p.state = "committed" => p.left <= Idle
  /\ p.state = "try" => p.left <= VerifyMs[p.rate]

Trying == {"try", "confirm", "verify", "commit", "revert"}
AtRest == {"free", "call", "failed", "recover"}

\* The types, and that a rate is being tried where one is asked for.
TypeInv ==
  /\ PortOK(port)
  /\ lock \in {"mine", "new", "expired", "gone"}
  /\ pc \in PCs
  /\ baud \in AllRates /\ rate \in AllRates /\ cands \in Seq(Rates) /\ plan \subseteq Rates
  /\ until \in Nat /\ kind \in Kinds \cup {"none"} /\ reply \in Replies
  /\ ran \in [{"call", "own"} -> Answers \cup {"none"}]
  /\ pc \in Trying \cup {"base", "state"} => rate \in Rates

\* At the boot speed, or on its way there.
Homed(p) == ~Raised(p) \/ p.fallback
\* A try that has not been called off.
TryRuns == port.state = "try" /\ ~port.fallback

\* The host raises the rate in a session of its own only: where it has none the port is home.
LockInv == lock \in {"gone", "new"} => Homed(port)

Ending == kind \in {"end", "open"}
\* Once an end, or an open, of the host has run, the session the rate was raised in is over.
EndInv ==
  /\ Ending /\ (ran["call"] = "ok" \/ (pc = "call" /\ reply = "ok")) => lock # "mine" /\ Homed(port)
  /\ Ending /\ pc = "call" /\ reply = "ok" => settled = Boot

\* Where a try may run.
TryInv ==
  /\ TryRuns => \/ pc \in Trying /\ port.rate = rate
                \/ pc \in {"base", "open"} \cup Down
  /\ TryRuns /\ pc = "try" => ran["own"] = "ok" /\ reply \notin {"no_session", "refused"}
  /\ TryRuns /\ pc = "revert" => why # "down"
  /\ pc = "try" /\ (ran["own"] = "ok" \/ reply = "ok") => ~Raised(port) \/ port.rate = rate
  /\ pc = "commit" /\ (ran["own"] = "ok" \/ reply = "ok") => port.state # "try"

\* Both are at the boot speed, or the port is on its way there, or it has committed to the rate
\* the host uses.
Agreed ==
  IF baud = Boot THEN Homed(port) ELSE ~Raised(port) \/ (port.rate = baud /\ port.state = "committed")

\* The rate the host is at, for what it is doing.
RateInv ==
  /\ pc \in AtRest => Agreed
  /\ pc = "try" => Agreed \/ (baud = Boot /\ port.state = "try" /\ port.rate = rate)
  /\ pc \in {"confirm", "verify", "commit", "revert"} => baud = rate /\ (~Raised(port) \/ port.rate = rate)
  /\ pc = "state" => baud = Boot /\ Homed(port)
  /\ pc \in {"base", "open"} => baud = Boot

\* A return lasts longer than what the port waits for, so its last confirm finds the port home.
ReturnInv ==
  /\ pc = "base" => ~Raised(port) \/ (until > 0 /\ (port.fallback \/ port.left < until))
  /\ pc = "base" /\ tries # 0 => until = 0 /\ (reply \in {"silent", "broken"} => lossy)
  /\ pc \in {"base", "open"} /\ reply \in Answers => ~Raised(port)
  /\ pc = "lost" => lossy

SpeedInv == TypeInv /\ LockInv /\ EndInv /\ TryInv /\ RateInv /\ ReturnInv

---------------------------------------------------------------------------
(* The port. *)

\* q is p left alone, or calmed.
Calms(p, q) ==
  /\ PortOK(q)
  /\ Raised(q) => q.state = p.state /\ q.rate = p.rate /\ (p.fallback => q.fallback)

\* The same in the time that is left.
Sooner(p, q) == Raised(q) => q.fallback \/ q.left <= p.left

\* What calms a port twice calms it.
LEMMA CalmsTwice ==
  ASSUME NEW p, NEW q, NEW r, Calms(p, q), Calms(q, r)
  PROVE  Calms(p, r)
BY DEF Calms, Raised

\* A port that is at the boot speed or on its way there stays so.
LEMMA CalmsHome ==
  ASSUME NEW p, NEW q, Calms(p, q), Homed(p)
  PROVE  Homed(q)
BY DEF Calms, Homed, Raised, PortOK, PortType

\* A port left alone.
LEMMA SameCalms ==
  ASSUME NEW p, PortOK(p)
  PROVE  Calms(p, p) /\ Sooner(p, p)
BY DEF Calms, Sooner, PortOK, PortType

\* A revert, whatever the port was at.
LEMMA RevertCalms ==
  ASSUME NEW p, PortOK(p)
  PROVE  PortOK(Revert(p)) /\ ~Raised(Revert(p)) /\ Calms(p, Revert(p)) /\ Sooner(p, Revert(p))
BY SpeedAssumption DEF Calms, Sooner, PortOK, PortType, Revert, AtBoot, Raised, Boot, AllRates

\* A return that comes by itself.
LEMMA FallCalms ==
  ASSUME NEW p, PortOK(p)
  PROVE  Homed(Fall(p)) /\ Calms(p, Fall(p)) /\ Sooner(p, Fall(p))
<1>1. CASE ~Raised(p)
  BY <1>1, SameCalms DEF Fall, Homed
<1>2. CASE Raised(p) /\ p.busy
  BY <1>2 DEF Fall, Homed, Calms, Sooner, PortOK, PortType, Raised
<1>3. CASE Raised(p) /\ ~p.busy
  BY <1>3, RevertCalms DEF Fall, Homed
<1> QED BY <1>1, <1>2, <1>3

\* The probe's look at its timers.
LEMMA TickCalms ==
  ASSUME NEW p, PortOK(p)
  PROVE  Calms(p, TickPort(p)) /\ Sooner(p, TickPort(p))
BY FallCalms, SameCalms DEF TickPort

\* The end of a frame.
LEMMA FrameCalms ==
  ASSUME NEW p, PortOK(p)
  PROVE  Calms(p, FrameDone(p)) /\ Sooner(p, FrameDone(p))
<1> DEFINE q == [p EXCEPT !.busy = FALSE]
<1>1. /\ q \in PortType
      /\ q.state = p.state /\ q.rate = p.rate /\ q.left = p.left /\ q.fallback = p.fallback
  BY DEF PortOK, PortType
<1>2. PortOK(q)
  BY <1>1 DEF PortOK
<1>3. Calms(p, q) /\ Sooner(p, q)
  BY <1>1, <1>2 DEF Calms, Sooner, PortOK, PortType
<1>4. CASE p.fallback
  <2>1. PortOK(Revert(q)) /\ ~Raised(Revert(q))
    BY <1>2, RevertCalms
  <2> QED BY <1>4, <2>1 DEF FrameDone, Calms, Sooner
<1>5. CASE ~p.fallback
  BY <1>3, <1>5 DEF FrameDone
<1> QED BY <1>4, <1>5

\* A frame that was heard, or noise.
LEMMA HeardCalms ==
  ASSUME NEW p, PortOK(p), NEW good \in BOOLEAN
  PROVE  Calms(p, Heard(p, good)) /\ (~good => Heard(p, good) = p)
BY SpeedAssumption DEF Heard, Calms, PortOK, PortType, Raised

\* A step whose answer is out, a try's aside.
LEMMA AnswerCalms ==
  ASSUME NEW p, PortOK(p), NEW step, step # "try", NEW r, NEW v
  PROVE  Calms(p, AfterAnswer(p, step, r, v)) /\ (step = "revert" => ~Raised(AfterAnswer(p, step, r, v)))
<1>1. CASE step = "revert" \/ (p.fallback /\ ~p.busy)
  BY <1>1, RevertCalms DEF AfterAnswer
<1>2. CASE ~(step = "revert" \/ (p.fallback /\ ~p.busy))
  BY <1>2, SameCalms DEF AfterAnswer
<1> QED BY <1>1, <1>2

\* The end of the session the rate was raised in.
LEMMA OverCalms ==
  ASSUME NEW p, PortOK(p)
  PROVE  /\ Calms(p, [p EXCEPT !.fallback = Raised(p)])
         /\ Homed([p EXCEPT !.fallback = Raised(p)])
<1> DEFINE q == [p EXCEPT !.fallback = Raised(p)]
<1>1. /\ q \in PortType
      /\ q.state = p.state /\ q.rate = p.rate /\ q.left = p.left /\ q.fallback = Raised(p)
  BY DEF PortOK, PortType, Raised
<1>2. PortOK(q)
  BY <1>1 DEF PortOK
<1> QED BY <1>1, <1>2 DEF Calms, Homed, Raised

\* A return that is due when a request arrives.
LEMMA DueCalms ==
  ASSUME NEW p, PortOK(p)
  PROVE  Calms(p, DueOnArrival(p))
<1>1. CASE Due(p)
  <2> DEFINE q == [p EXCEPT !.fallback = TRUE]
  <2>1. /\ q \in PortType
        /\ q.state = p.state /\ q.rate = p.rate /\ q.left = p.left /\ q.fallback
    BY DEF PortOK, PortType
  <2>2. PortOK(q)
    BY <2>1 DEF PortOK
  <2> QED BY <1>1, <2>1, <2>2 DEF DueOnArrival, Calms
<1>2. CASE ~Due(p)
  BY <1>2, SameCalms DEF DueOnArrival
<1> QED BY <1>1, <1>2

---------------------------------------------------------------------------
(* A request that arrives. *)

\* What a line may make of an exchange: nothing is read at another rate, an answer that came was
\* asked for, and at the boot speed only a fault keeps one away.
LEMMA OutcomesAre ==
  ASSUME NEW o \in Outcomes
  PROVE  /\ o.got \in BOOLEAN /\ o.fault \in BOOLEAN /\ o.back \in {"ok", "silent", "broken"}
         /\ o.got => baud = port.rate
         /\ o.back = "ok" => o.got
         /\ baud = Boot /\ port.rate = Boot /\ o.back # "ok" => o.fault
<1>1. \A c \in Carries :
        /\ c.got \in BOOLEAN /\ c.fault \in BOOLEAN /\ c.back \in {"ok", "silent", "broken"}
        /\ c.got => baud = port.rate
        /\ c.back = "ok" => c.got
        /\ baud = Boot /\ port.rate = Boot => c.back = "ok"
  <2>1. CASE baud # port.rate \/ (baud # Boot /\ line[baud] = "none")
    <3>1. Carries = {Outcome(FALSE, "silent", FALSE)}
      BY <2>1 DEF Carries
    <3>2. \A c \in Carries : c.got = FALSE /\ c.fault = FALSE /\ c.back = "silent"
      BY <3>1 DEF Outcome
    <3>3. ~(baud = Boot /\ port.rate = Boot)
      BY <2>1
    <3> QED BY <3>2, <3>3
  <2>2. CASE baud = port.rate /\ baud # Boot /\ line[baud] = "small" /\ Large
    <3>1. Carries = {Outcome(FALSE, "silent", FALSE), Outcome(TRUE, "broken", FALSE)}
      BY <2>2 DEF Carries
    <3>2. \A c \in Carries : (c.got = FALSE \/ c.got = TRUE) /\ c.fault = FALSE /\ (c.back = "silent" \/ c.back = "broken")
      BY <3>1 DEF Outcome
    <3> QED BY <2>2, <3>2
  <2>3. CASE /\ ~(baud # port.rate \/ (baud # Boot /\ line[baud] = "none"))
             /\ ~(baud = port.rate /\ baud # Boot /\ line[baud] = "small" /\ Large)
    <3>1. Carries = {Outcome(TRUE, "ok", FALSE)}
      BY <2>3 DEF Carries
    <3>2. \A c \in Carries : c.got = TRUE /\ c.fault = FALSE /\ c.back = "ok"
      BY <3>1 DEF Outcome
    <3> QED BY <2>3, <3>2
  <2> QED BY <2>1, <2>2, <2>3
<1>2. CASE o \in Carries
  BY <1>1, <1>2
<1>3. CASE o \in Faults
  <2>1. /\ o.got \in BOOLEAN /\ o.fault /\ o.back \in {"silent", "broken"}
        /\ o.got => \E c \in Carries : c.got
    BY <1>3 DEF Faults
  <2> QED BY <1>1, <2>1
<1> QED BY <1>2, <1>3 DEF Outcomes

\* What the probe finds when a request arrives: a lapsed session takes the rate back.
LEMMA ArrivalCalms ==
  ASSUME TypeInv, LockInv
  PROVE  /\ Calms(port, OnArrival)
         /\ LockOnArrival \in {"mine", "new", "gone"}
         /\ LockOnArrival = "mine" <=> lock = "mine"
         /\ LockOnArrival # "mine" => Homed(OnArrival)
<1> DEFINE p == Heard(port, TRUE)
<1>1. PortOK(p) /\ Calms(port, p)
  BY HeardCalms DEF TypeInv, Calms
<1>2. CASE lock = "expired"
  <2>1. OnArrival = [p EXCEPT !.fallback = Raised(p)]
    BY <1>2 DEF OnArrival
  <2> QED BY <1>1, <1>2, <2>1, OverCalms, CalmsTwice DEF LockOnArrival
<1>3. CASE lock # "expired"
  <2>1. OnArrival = DueOnArrival(p)
    BY <1>3 DEF OnArrival
  <2>2. Calms(port, OnArrival)
    BY <1>1, <2>1, DueCalms, CalmsTwice
  <2> QED BY <1>3, <2>2, CalmsHome DEF LockOnArrival, LockInv, TypeInv
<1> QED BY <1>2, <1>3

\* What a request is and what is answered: a copy gets its answer again, the steps of port_speed
\* are sent by the host's own trials, and need the lock and a port they fit.
LEMMA RequestIs ==
  ASSUME TypeInv, LockInv
  PROVE  /\ Result \in Answers
         /\ ran[Who] # "none" => Result = ran[Who] /\ Done = "none"
         /\ Done # "none" => Done = Op /\ Result = "ok" /\ ran[Who] = "none"
         /\ Op \in {"try", "commit", "revert"} => Op = pc /\ Who = "own"
         /\ Op \in {"end", "open"} => pc = "call" /\ Op = kind /\ Who = "call"
         /\ Done \in {"try", "commit", "revert"} => lock = "mine" /\ Fits(OnArrival, Done, rate)
         /\ Done = "end" => lock = "mine"
<1>1. Who \in {"call", "own"} /\ ran[Who] \in Answers \cup {"none"}
  BY DEF Who, TypeInv
<1>2. /\ Op \in {"try", "commit", "revert"} => Op = pc /\ Who = "own"
      /\ Op \in {"end", "open"} => pc = "call" /\ Op = kind /\ Who = "call"
  <2>1. CASE pc = "call"
    <3>1. Op = kind /\ Who = "call"
      BY <2>1 DEF Op, Who
    <3> QED BY <2>1, <3>1, HostSpeedAssumption DEF TypeInv
  <2>2. CASE pc \in {"try", "commit", "revert"}
    <3>1. Op = pc /\ Who = "own"
      BY <2>2 DEF Op, Who
    <3> QED BY <2>2, <3>1
  <2>3. CASE pc \notin {"call", "try", "commit", "revert"}
    <3>1. Op = "read"
      BY <2>3 DEF Op
    <3> QED BY <3>1
  <2> QED BY <2>1, <2>2, <2>3
<1>3. CASE ran[Who] # "none"
  <2>1. Result = ran[Who]
    BY <1>3 DEF Result
  <2>2. Done = "none"
    BY <1>3 DEF Done
  <2> QED BY <1>1, <1>2, <1>3, <2>1, <2>2
<1>4. CASE ran[Who] = "none"
  <2>1. CASE Op \in {"read", "open"}
    <3>1. Result = "ok"
      BY <1>4, <2>1 DEF Result
    <3>2. Done = Op
      BY <1>4, <3>1 DEF Done
    <3> QED BY <1>2, <1>4, <2>1, <3>1, <3>2 DEF Answers
  <2>2. CASE Op \notin {"read", "open"}
    <3>1. Result = IF LockOnArrival # "mine" THEN "no_session"
                   ELSE IF Op \in {"try", "commit", "revert"} /\ ~Fits(OnArrival, Op, rate) THEN "refused" ELSE "ok"
      BY <1>4, <2>2 DEF Result
    <3>2. Result = "ok" => LockOnArrival = "mine" /\ (Op \in {"try", "commit", "revert"} => Fits(OnArrival, Op, rate))
      BY <3>1
    <3>3. Done = IF Result = "ok" THEN Op ELSE "none"
      BY <1>4 DEF Done
    <3>4. Result \in Answers
      BY <3>1 DEF Answers
    <3> QED BY <1>2, <1>4, <3>2, <3>3, <3>4, ArrivalCalms
  <2> QED BY <2>1, <2>2
<1> QED BY <1>3, <1>4

\* A step that raises nothing leaves the port calmed; the end of the session takes it back.
LEMMA AfterCalms ==
  ASSUME TypeInv, LockInv, Done \notin {"try", "commit"}
  PROVE  /\ Calms(port, PortAfter)
         /\ LockAfter \in {"mine", "new", "gone"}
         /\ LockAfter = "mine" => lock = "mine"
         /\ LockAfter # "mine" => Homed(PortAfter)
         /\ Done = "revert" => ~Raised(PortAfter)
<1> DEFINE p == IF SessionOver THEN [OnArrival EXCEPT !.fallback = Raised(OnArrival)] ELSE OnArrival
<1> DEFINE q == Heard(p, TRUE)
<1>1. /\ Calms(port, OnArrival) /\ PortOK(OnArrival)
      /\ LockOnArrival \in {"mine", "new", "gone"}
      /\ LockOnArrival = "mine" <=> lock = "mine"
      /\ LockOnArrival # "mine" => Homed(OnArrival)
  BY ArrivalCalms DEF Calms
<1>2. PortAfter = AfterAnswer(q, Done, rate, 0)
  BY DEF PortAfter
<1>3. Calms(OnArrival, p) /\ (SessionOver => Homed(p))
  BY <1>1, OverCalms, SameCalms
<1>4. Calms(p, q)
  BY <1>3, HeardCalms DEF Calms
<1>5. Calms(q, PortAfter) /\ (Done = "revert" => ~Raised(PortAfter))
  BY <1>2, <1>4, AnswerCalms DEF Calms
<1>6. Calms(port, p) /\ Calms(p, PortAfter)
  BY <1>1, <1>3, <1>4, <1>5, CalmsTwice
<1>7. Calms(port, PortAfter)
  BY <1>6, CalmsTwice
<1>8. Homed(p) => Homed(PortAfter)
  BY <1>6, CalmsHome
<1>9. LockAfter # "mine" => Homed(p)
  BY <1>1, <1>3, CalmsHome DEF LockAfter, SessionOver
<1>10. LockAfter \in {"mine", "new", "gone"} /\ (LockAfter = "mine" => lock = "mine")
  BY <1>1 DEF LockAfter
<1> QED BY <1>5, <1>7, <1>8, <1>9, <1>10

\* A try is taken from the host that holds the lock, by a port at the boot speed.
LEMMA TryTaken ==
  ASSUME TypeInv, LockInv, Done = "try", rate \in Rates
  PROVE  /\ pc = "try" /\ lock = "mine" /\ LockAfter = "mine" /\ ~Raised(port)
         /\ PortOK(PortAfter) /\ PortAfter.state = "try" /\ PortAfter.rate = rate
         /\ Result = "ok" /\ Who = "own"
<1>1. /\ pc = "try" /\ lock = "mine" /\ Result = "ok" /\ Who = "own"
      /\ ~Raised(OnArrival) /\ ~OnArrival.fallback
  BY RequestIs DEF Fits
<1>2. LockOnArrival = "mine" /\ LockAfter = "mine"
  BY <1>1, ArrivalCalms DEF LockAfter
<1>3. PortOK(OnArrival) /\ OnArrival = DueOnArrival(Heard(port, TRUE))
  BY <1>1, ArrivalCalms DEF OnArrival, Calms
<1>4. ~Raised(port)
  BY <1>3, <1>1 DEF DueOnArrival, Heard, Raised, TypeInv, PortOK, PortType
<1>5. PortAfter = Switched(OnArrival, rate, VerifyMs[rate])
  BY <1>1 DEF PortAfter, SessionOver, AfterAnswer, Heard, Raised
<1>6. VerifyMs[rate] \in Nat /\ rate # Boot
  BY HostSpeedAssumption, SpeedAssumption DEF Boot
<1>7. PortOK(PortAfter) /\ PortAfter.state = "try" /\ PortAfter.rate = rate
  <2>1. /\ PortAfter \in PortType
        /\ PortAfter.state = "try" /\ PortAfter.rate = rate /\ PortAfter.left = VerifyMs[rate]
    BY <1>3, <1>5, <1>6 DEF Switched, PortOK, PortType, AllRates
  <2> QED BY <1>6, <2>1 DEF PortOK
<1> QED BY <1>1, <1>2, <1>4, <1>7

\* A commit is taken for the rate that is tried.
LEMMA CommitTaken ==
  ASSUME TypeInv, LockInv, Done = "commit"
  PROVE  /\ pc = "commit" /\ lock = "mine" /\ LockAfter = "mine"
         /\ port.state = "try" /\ port.rate = rate
         /\ PortOK(PortAfter)
         /\ Raised(PortAfter) => PortAfter.state = "committed" /\ PortAfter.rate = rate
         /\ Result = "ok" /\ Who = "own"
<1>1. /\ pc = "commit" /\ lock = "mine" /\ Result = "ok" /\ Who = "own"
      /\ OnArrival.state = "try" /\ OnArrival.rate = rate
  BY RequestIs DEF Fits
<1>2. LockOnArrival = "mine" /\ LockAfter = "mine"
  BY <1>1, ArrivalCalms DEF LockAfter
<1>3. PortOK(OnArrival) /\ port.state = "try" /\ port.rate = rate
  BY <1>1, ArrivalCalms DEF Calms, Raised
<1> DEFINE p == Committed(OnArrival)
<1>4. PortOK(p) /\ p.state = "committed" /\ p.rate = rate
  <2>1. p \in PortType /\ p.state = "committed" /\ p.rate = rate /\ p.left = Idle
    BY <1>1, <1>3, SpeedAssumption DEF Committed, PortOK, PortType
  <2>2. rate # Boot
    BY <1>3 DEF TypeInv, PortOK
  <2> QED BY <2>1, <2>2, SpeedAssumption DEF PortOK
<1>5. PortAfter = AfterAnswer(Heard(p, TRUE), "commit", rate, 0)
  BY DEF PortAfter, SessionOver
<1>6. Calms(p, Heard(p, TRUE)) /\ PortOK(Heard(p, TRUE))
  BY <1>4, HeardCalms DEF Calms
<1>7. Calms(Heard(p, TRUE), PortAfter)
  BY <1>5, <1>6, AnswerCalms
<1>8. Calms(p, PortAfter)
  BY <1>6, <1>7, CalmsTwice
<1> QED BY <1>1, <1>2, <1>3, <1>4, <1>8 DEF Calms

---------------------------------------------------------------------------
(* SpeedInv, step by step. *)

\* A request that is lost, and one that arrives and raises nothing, that is a try, or a commit.
LEMMA SendKeeps ==
  ASSUME SpeedInv, Send
  PROVE  SpeedInv'
<1> USE DEF SpeedInv
<1>0. PICK o \in Outcomes :
        /\ lossy' = (lossy \/ (o.fault /\ pc \in {"base", "open"}))
        /\ reply' = IF o.back = "ok" THEN Result ELSE o.back
        /\ \/ /\ o.got /\ port' = PortAfter /\ lock' = LockAfter
              /\ ran' = [ran EXCEPT ![Who] = Result]
              /\ settled' = IF PortAfter.fallback THEN Boot ELSE PortAfter.rate
           \/ /\ ~o.got
              /\ port' = IF baud # port.rate THEN Heard(port, FALSE) ELSE port
              /\ UNCHANGED <<lock, ran, settled>>
  BY DEF Send
<1>1. /\ pc \in Requests /\ pc' = pc /\ baud' = baud /\ rate' = rate /\ cands' = cands /\ why' = why /\ until' = until
      /\ plan' = plan /\ kind' = kind
      /\ tries' = IF pc \in {"base", "open"} /\ until = 0 THEN 1 ELSE tries
  BY DEF Send, trialVars, sessionVars
<1>2. /\ o.got \in BOOLEAN /\ o.fault \in BOOLEAN /\ o.back \in {"ok", "silent", "broken"}
      /\ o.got => baud = port.rate
      /\ o.back = "ok" => o.got
      /\ baud = Boot /\ port.rate = Boot /\ o.back # "ok" => o.fault
  BY OutcomesAre
<1>3. /\ Result \in Answers
      /\ ran[Who] # "none" => Result = ran[Who] /\ Done = "none"
      /\ Done # "none" => Done = Op /\ Result = "ok" /\ ran[Who] = "none"
      /\ Op \in {"try", "commit", "revert"} => Op = pc /\ Who = "own"
      /\ Op \in {"end", "open"} => pc = "call" /\ Op = kind /\ Who = "call"
  BY RequestIs
<1>4. /\ reply' \in Replies /\ reply' # "none"
      /\ reply' \in Answers => reply' = Result /\ o.back = "ok"
      /\ reply' \in {"silent", "broken"} => o.back # "ok"
  BY <1>0, <1>2, <1>3 DEF Replies, Answers
\* A try at the boot speed that did not come back was hit by a fault.
<1>5. pc = "base" /\ tries' # 0 => until' = 0 /\ (reply' \in {"silent", "broken"} => lossy')
  <2> SUFFICES ASSUME pc = "base", tries' # 0 PROVE until = 0 /\ (reply' \in {"silent", "broken"} => lossy')
    BY <1>1
  <2>1. until = 0
    BY <1>1 DEF ReturnInv
  <2>2. ~Raised(port) /\ baud = Boot
    BY <2>1 DEF ReturnInv, RateInv
  <2>3. port.rate = Boot
    BY <2>2 DEF TypeInv, PortOK, Raised
  <2> QED BY <1>0, <1>2, <1>4, <2>1, <2>2, <2>3
<1>6. CASE ~o.got
  <2>1. port' = port /\ lock' = lock /\ ran' = ran /\ settled' = settled
    BY <1>0, <1>6, HeardCalms DEF TypeInv
  <2>2. reply' \in {"silent", "broken"}
    BY <1>0, <1>2, <1>6
  <2>3. TypeInv'
    BY <1>1, <1>4, <2>1 DEF TypeInv
  <2>4. LockInv' /\ EndInv'
    BY <1>1, <2>1, <2>2 DEF LockInv, EndInv, Ending
  <2>5. TryInv'
    BY <1>1, <2>1, <2>2 DEF TryInv, TryRuns
  <2>6. RateInv'
    BY <1>1, <2>1 DEF RateInv, Agreed, AtRest
  <2>7. ReturnInv'
    BY <1>1, <1>5, <2>1, <2>2 DEF ReturnInv, Requests, Answers
  <2> QED BY <2>3, <2>4, <2>5, <2>6, <2>7
<1>7. CASE o.got /\ Done \notin {"try", "commit"}
  <2>1. /\ port' = PortAfter /\ lock' = LockAfter /\ ran' = [ran EXCEPT ![Who] = Result]
        /\ settled' = IF PortAfter.fallback THEN Boot ELSE PortAfter.rate
        /\ baud = port.rate
    BY <1>0, <1>2, <1>7
  <2>2. /\ Calms(port, port') /\ lock' \in {"mine", "new", "gone"}
        /\ lock' = "mine" => lock = "mine"
        /\ lock' # "mine" => Homed(port')
    BY <1>7, <2>1, AfterCalms
  <2>3. TypeInv'
    <3>1. ran' \in [{"call", "own"} -> Answers \cup {"none"}]
      BY <1>3, <2>1 DEF TypeInv
    <3> QED BY <1>1, <1>4, <2>2, <3>1 DEF TypeInv, Calms
  <2>4. LockInv'
    BY <2>2 DEF LockInv
  <2>5. Ending' /\ (ran'["call"] = "ok" \/ (pc' = "call" /\ reply' = "ok")) => lock' # "mine" /\ Homed(port')
    <3> SUFFICES ASSUME Ending, ran'["call"] = "ok" \/ (pc = "call" /\ reply' = "ok") PROVE lock' # "mine"
      BY <1>1, <2>2 DEF Ending
    <3>1. CASE ran["call"] = "ok"
      BY <2>2, <3>1 DEF EndInv
    <3>2. CASE ran["call"] # "ok"
      <4>1. pc = "call"
        BY <2>1, <3>2 DEF Who, TypeInv
      <4>2. Who = "call" /\ Op = kind
        BY <4>1 DEF Who, Op
      <4>3. Result = "ok"
        BY <1>4, <2>1, <4>2 DEF TypeInv, Answers
      <4>4. Done = kind
        BY <1>3, <3>2, <4>2, <4>3 DEF Done
      <4> QED BY <2>1, <4>4 DEF LockAfter, Ending
    <3> QED BY <3>1, <3>2
  <2>6. EndInv'
    BY <2>1, <2>2, <2>5 DEF EndInv, Homed, Raised, Calms, PortOK
  <2>7. TryRuns' => TryRuns /\ port'.rate = port.rate
    BY <2>2 DEF TryRuns, Calms, Raised, PortOK, PortType
  <2>8. Raised(port') => Raised(port) /\ port'.state = port.state /\ port'.rate = port.rate
    BY <2>2 DEF Calms, Raised
  <2>9. pc \in {"try", "commit"} /\ (ran'["own"] = "ok" \/ reply' = "ok") => ran["own"] = "ok"
    <3> SUFFICES ASSUME pc \in {"try", "commit"}, ran'["own"] = "ok" \/ reply' = "ok", ran["own"] # "ok" PROVE FALSE
      OBVIOUS
    <3>1. Who = "own" /\ Op = pc
      BY DEF Who, Op
    <3>2. Result = "ok"
      BY <1>4, <2>1, <3>1 DEF TypeInv, Answers
    <3>3. Done = pc
      BY <1>3, <3>1, <3>2 DEF Done
    <3> QED BY <1>7, <3>3
  <2>10. pc = "try" /\ ran["own"] = "ok" => ran'["own"] = "ok" /\ reply' \notin {"no_session", "refused"}
    <3> SUFFICES ASSUME pc = "try", ran["own"] = "ok" PROVE ran'["own"] = "ok" /\ reply' \notin {"no_session", "refused"}
      OBVIOUS
    <3>1. Who = "own"
      BY DEF Who
    <3>2. Result = "ok"
      BY <1>3, <3>1
    <3> QED BY <1>4, <2>1, <3>1, <3>2 DEF TypeInv, Answers
  <2>11. TryInv'
    <3>1. TryRuns' => \/ pc' \in Trying /\ port'.rate = rate'
                      \/ pc' \in {"base", "open"} \cup Down
      BY <1>1, <2>7 DEF TryInv
    <3>2. TryRuns' /\ pc' = "try" => ran'["own"] = "ok" /\ reply' \notin {"no_session", "refused"}
      BY <1>1, <2>7, <2>10 DEF TryInv
    <3>3. TryRuns' /\ pc' = "revert" => why' # "down"
      BY <1>1, <2>7 DEF TryInv
    <3>4. pc' = "try" /\ (ran'["own"] = "ok" \/ reply' = "ok") => ~Raised(port') \/ port'.rate = rate'
      BY <1>1, <2>8, <2>9 DEF TryInv
    <3>5. pc' = "commit" /\ (ran'["own"] = "ok" \/ reply' = "ok") => port'.state # "try"
      BY <1>1, <2>8, <2>9 DEF TryInv, Raised
    <3> QED BY <3>1, <3>2, <3>3, <3>4, <3>5 DEF TryInv
  <2>12. RateInv'
    <3>1. Homed(port) => Homed(port')
      BY <2>2, CalmsHome
    <3>2. port.state = "try" => Homed(port') \/ port'.state = "try"
      BY <2>8 DEF Homed
    <3> QED BY <1>1, <2>8, <3>1, <3>2 DEF RateInv, Agreed, AtRest, Homed
  <2>13. ReturnInv'
    <3>1. pc \in {"base", "open"} => ~Raised(port')
      BY <2>1, <2>8 DEF RateInv, TypeInv, PortOK, Raised
    <3> QED BY <1>1, <1>5, <3>1 DEF ReturnInv, Requests
  <2> QED BY <2>3, <2>4, <2>6, <2>11, <2>12, <2>13
<1>8. CASE o.got /\ Done = "try"
  <2>1. /\ port' = PortAfter /\ lock' = LockAfter /\ ran' = [ran EXCEPT ![Who] = Result] /\ baud = port.rate
    BY <1>0, <1>2, <1>8
  <2>2. pc = "try" /\ rate \in Rates
    BY <1>3, <1>8 DEF TypeInv, Trying
  <2>3. /\ lock = "mine" /\ lock' = "mine" /\ ~Raised(port)
        /\ PortOK(port') /\ port'.state = "try" /\ port'.rate = rate
        /\ Result = "ok" /\ Who = "own"
    BY <1>8, <2>1, <2>2, TryTaken
  <2>4. ran' = [ran EXCEPT !["own"] = "ok"]
    BY <2>1, <2>3
  <2>5. ran' \in [{"call", "own"} -> Answers \cup {"none"}] /\ ran'["own"] = "ok" /\ ran'["call"] = ran["call"]
    BY <2>4 DEF TypeInv, Answers
  <2>6. baud = Boot /\ reply' \notin {"no_session", "refused"}
    BY <1>4, <2>1, <2>3 DEF TypeInv, PortOK, Raised, Answers
  <2>7. TypeInv'
    BY <1>1, <1>4, <2>3, <2>5 DEF TypeInv
  <2>8. LockInv' /\ EndInv'
    BY <1>1, <2>2, <2>3, <2>5 DEF LockInv, EndInv, Ending
  <2>9. TryInv'
    BY <1>1, <2>2, <2>3, <2>5, <2>6 DEF TryInv, Trying
  <2>10. RateInv'
    BY <1>1, <2>2, <2>3, <2>6 DEF RateInv, Agreed, AtRest
  <2>11. ReturnInv'
    BY <1>1, <2>2 DEF ReturnInv
  <2> QED BY <2>7, <2>8, <2>9, <2>10, <2>11
<1>9. CASE o.got /\ Done = "commit"
  <2>1. /\ port' = PortAfter /\ lock' = LockAfter /\ ran' = [ran EXCEPT ![Who] = Result] /\ baud = port.rate
    BY <1>0, <1>2, <1>9
  <2>2. /\ pc = "commit" /\ lock = "mine" /\ lock' = "mine"
        /\ PortOK(port')
        /\ Raised(port') => port'.state = "committed" /\ port'.rate = rate
        /\ Result = "ok" /\ Who = "own"
    BY <1>9, <2>1, CommitTaken
  <2>3. ran' = [ran EXCEPT !["own"] = "ok"]
    BY <2>1, <2>2
  <2>4. ran' \in [{"call", "own"} -> Answers \cup {"none"}] /\ ran'["call"] = ran["call"]
    BY <2>3 DEF TypeInv, Answers
  <2>5. port'.state # "try"
    BY <2>2 DEF Raised
  <2>6. TypeInv'
    BY <1>1, <1>4, <2>2, <2>4 DEF TypeInv
  <2>7. LockInv' /\ EndInv'
    BY <1>1, <2>2, <2>4 DEF LockInv, EndInv, Ending
  <2>8. TryInv'
    BY <1>1, <2>2, <2>5 DEF TryInv, TryRuns
  <2>9. RateInv'
    BY <1>1, <2>2 DEF RateInv, Agreed, AtRest
  <2>10. ReturnInv'
    BY <1>1, <2>2 DEF ReturnInv
  <2> QED BY <2>6, <2>7, <2>8, <2>9, <2>10
<1> QED BY <1>2, <1>6, <1>7, <1>8, <1>9

\* SpeedInv holds at the start.
LEMMA InitInv ==
  ASSUME SpeedInit
  PROVE  SpeedInv
<1> USE DEF SpeedInit
<1>1. port \in PortType
  BY DEF AtBoot, PortType, AllRates
<1>2. PortOK(port) /\ ~Raised(port)
  BY <1>1 DEF AtBoot, PortOK, Raised
<1>3. ran \in [{"call", "own"} -> Answers \cup {"none"}]
  OBVIOUS
<1>4. cands \in Seq(Rates)
  OBVIOUS
<1>5. TypeInv
  BY <1>2, <1>3, <1>4 DEF TypeInv, PCs, Replies, AllRates, Trying
<1>6. LockInv /\ EndInv
  BY <1>2 DEF LockInv, EndInv, Homed, Ending
<1>7. TryInv
  BY <1>2 DEF TryInv, TryRuns, Raised
<1>8. RateInv
  BY <1>2 DEF RateInv, Agreed, AtRest, Homed
<1>9. ReturnInv
  BY DEF ReturnInv
<1> QED BY <1>5, <1>6, <1>7, <1>8, <1>9 DEF SpeedInv

\* Nothing was asked yet, or no answer counts any more: the session is what it was.
LEMMA QuietKeeps ==
  ASSUME SpeedInv, port' = port, lock' = lock, reply' = "none",
         \/ kind' = kind /\ ran'["call"] = ran["call"]
         \/ kind' = "none" \/ ran'["call"] = "none"
  PROVE  LockInv' /\ EndInv'
BY DEF SpeedInv, LockInv, EndInv, Ending

\* The host's requests, from the values Ask and Again give what is counted of them.
LEMMA AskIs ==
  ASSUME TypeInv, NEW p, Ask(p)
  PROVE  /\ pc' = p /\ reply' = "none" /\ tries' = 0
         /\ ran' \in [{"call", "own"} -> Answers \cup {"none"}]
         /\ ran'["own"] = "none" /\ ran'["call"] = ran["call"]
BY DEF Ask, TypeInv

\* The call that waits goes out again, or the user goes on, with no try running.
LEMMA FinishKeeps ==
  ASSUME SpeedInv, Finish, port' = port, lock' = lock, baud' = baud, rate' \in AllRates, plan' \subseteq Rates,
         ~TryRuns, Agreed
  PROVE  SpeedInv'
<1> USE DEF SpeedInv
<1>1. /\ pc' \in {"call", "free"} /\ reply' = "none" /\ tries' = 0 /\ kind' = kind
      /\ ran' \in [{"call", "own"} -> Answers \cup {"none"}] /\ ran'["call"] = ran["call"]
      /\ cands' = <<>> /\ until' = 0
  BY AskIs DEF Finish
<1>2. TypeInv'
  BY <1>1 DEF TypeInv, PCs, Replies, Trying
<1>3. LockInv' /\ EndInv'
  BY <1>1, QuietKeeps
<1>4. TryInv'
  BY <1>1 DEF TryInv, TryRuns
<1>5. RateInv'
  BY <1>1 DEF RateInv, Agreed, AtRest
<1>6. ReturnInv'
  BY <1>1 DEF ReturnInv
<1> QED BY <1>2, <1>3, <1>4, <1>5, <1>6

\* The next candidate, where no try is running.
LEMMA NextTrialKeeps ==
  ASSUME SpeedInv, NEW s \in Seq(Rates), NextTrial(s),
         port' = port, lock' = lock, baud' = baud, plan' \subseteq Rates, ~TryRuns, Agreed
  PROVE  SpeedInv'
<1>1. CASE Finish /\ rate' = Boot
  BY <1>1, FinishKeeps DEF AllRates
<1>2. CASE \E k \in Open(s) :
             /\ Ask("try") /\ rate' = s[k] /\ cands' = SubSeq(s, k + 1, Len(s))
             /\ why' = "none" /\ until' = 0 /\ UNCHANGED <<kind, again>>
  <2> USE DEF SpeedInv
  <2>1. PICK k \in 1..Len(s) :
             /\ Ask("try") /\ rate' = s[k] /\ cands' = SubSeq(s, k + 1, Len(s))
             /\ until' = 0 /\ kind' = kind
    BY <1>2 DEF Open
  <2>2. /\ pc' = "try" /\ reply' = "none" /\ tries' = 0
        /\ ran' \in [{"call", "own"} -> Answers \cup {"none"}]
        /\ ran'["own"] = "none" /\ ran'["call"] = ran["call"]
    BY <2>1, AskIs
  <2>3. rate' \in Rates /\ cands' \in Seq(Rates)
    BY <2>1
  <2>4. TypeInv'
    BY <2>1, <2>2, <2>3 DEF TypeInv, PCs, Replies, AllRates
  <2>5. LockInv' /\ EndInv'
    BY <2>1, <2>2, QuietKeeps
  <2>6. TryInv'
    BY <2>2 DEF TryInv, TryRuns
  <2>7. RateInv'
    BY <2>2 DEF RateInv, Agreed, AtRest
  <2>8. ReturnInv'
    BY <2>2 DEF ReturnInv
  <2> QED BY <2>4, <2>5, <2>6, <2>7, <2>8
<1> QED BY <1>1, <1>2 DEF NextTrial

\* A return to the boot speed, started with more time than the port takes.
LEMMA HomeKeeps ==
  ASSUME SpeedInv, NEW reason, NEW most \in Nat \ {0}, Home(reason, most),
         port' = port, lock' = lock, rate' \in Rates, plan' = plan,
         Homed(port) \/ port.left < most
  PROVE  SpeedInv'
<1> USE DEF SpeedInv
<1>1. /\ pc' = "base" /\ reply' = "none" /\ tries' = 0 /\ baud' = Boot /\ until' = most
      /\ ran' \in [{"call", "own"} -> Answers \cup {"none"}] /\ ran'["call"] = ran["call"]
      /\ cands' = cands /\ kind' = kind
  BY AskIs DEF Home
<1>2. TypeInv'
  BY <1>1 DEF TypeInv, PCs, Replies, AllRates
<1>3. LockInv' /\ EndInv'
  BY <1>1, QuietKeeps
<1>4. TryInv'
  BY <1>1 DEF TryInv, TryRuns
<1>5. RateInv'
  BY <1>1 DEF RateInv, AtRest
<1>6. ReturnInv'
  BY <1>1 DEF ReturnInv, Homed, Answers
<1> QED BY <1>2, <1>3, <1>4, <1>5, <1>6

\* The wait of a return outlasts a try and the idle time.
LEMMA WaitsLongEnough ==
  ASSUME TypeInv, Raised(port), port.rate = rate \/ port.state = "committed", rate \in Rates
  PROVE  TrialWait \in Nat \ {0} /\ port.left < TrialWait
<1>1. VerifyMs[rate] \in Nat /\ Retry \in Nat /\ Retry > Idle /\ Idle \in Nat
  BY HostSpeedAssumption, SpeedAssumption
<1>2. port.left \in Nat /\ (port.left <= VerifyMs[rate] \/ port.left <= Idle)
  BY DEF TypeInv, PortOK, PortType, Raised
<1> QED BY <1>1, <1>2 DEF TrialWait

\* The wait is a time whatever the port does.
LEMMA WaitsAre == Retry \in Nat \ {0} /\ (rate \in Rates => TrialWait \in Nat \ {0})
BY HostSpeedAssumption, SpeedAssumption DEF TrialWait

\* A request of the host's own trials, where the port may be raised for the rate it tries.
LEMMA TrialGoesOn ==
  ASSUME SpeedInv, NEW p \in {"verify", "commit", "confirm", "revert"}, Ask(p),
         port' = port, lock' = lock, baud' = rate, rate' = rate, rate \in Rates, cands' = cands,
         plan' = plan, until' = until, kind' = kind, p # "revert" \/ why' # "down",
         ~Raised(port) \/ port.rate = rate
  PROVE  SpeedInv'
<1> USE DEF SpeedInv
<1>1. /\ pc' = p /\ reply' = "none" /\ tries' = 0
      /\ ran' \in [{"call", "own"} -> Answers \cup {"none"}]
      /\ ran'["own"] = "none" /\ ran'["call"] = ran["call"]
  BY AskIs
<1>2. TypeInv'
  BY <1>1 DEF TypeInv, PCs, Replies, AllRates
<1>3. LockInv' /\ EndInv'
  BY <1>1, QuietKeeps
<1>4. TryInv'
  BY <1>1 DEF TryInv, TryRuns, Raised, Trying
<1>5. RateInv'
  BY <1>1 DEF RateInv, AtRest, Agreed
<1>6. ReturnInv'
  BY <1>1 DEF ReturnInv
<1> QED BY <1>2, <1>3, <1>4, <1>5, <1>6

\* The same request once more.
LEMMA AgainKeeps ==
  ASSUME SpeedInv, NEW w, NEW b, NEW t, Again(w, b, t), pc # "base" \/ t = 0,
         port' = port, lock' = lock, baud' = baud, rate' = rate, cands' = cands,
         plan' = plan, until' = until, kind' = kind, why' = why, lossy' = lossy
  PROVE  SpeedInv'
<1> USE DEF SpeedInv
<1>1. pc' = pc /\ ran' = ran /\ reply' = "none" /\ tries' = t
  BY DEF Again
<1>2. TypeInv'
  BY <1>1 DEF TypeInv, Replies
<1>3. LockInv' /\ EndInv'
  BY <1>1, QuietKeeps
<1>4. TryInv'
  BY <1>1 DEF TryInv, TryRuns
<1>5. RateInv'
  BY <1>1 DEF RateInv, Agreed, AtRest
<1>6. ReturnInv'
  BY <1>1 DEF ReturnInv, Answers
<1> QED BY <1>2, <1>3, <1>4, <1>5, <1>6

\* A request between two calls, or a host that is gone: nothing is tried.
LEMMA RestKeeps ==
  ASSUME SpeedInv, NEW p \in {"free", "failed", "call", "recover"} \cup Down, Ask(p),
         port' = port, lock' = lock, baud' = baud, rate' = rate, cands' = cands,
         plan' = plan, until' = until, kind' \in {kind, "none"}, lossy' = lossy,
         p \in Down \/ (Agreed /\ ~TryRuns),
         p # "lost" \/ lossy
  PROVE  SpeedInv'
<1> USE DEF SpeedInv
<1>1. /\ pc' = p /\ reply' = "none" /\ tries' = 0
      /\ ran' \in [{"call", "own"} -> Answers \cup {"none"}]
      /\ ran'["own"] = "none" /\ ran'["call"] = ran["call"]
  BY AskIs
<1>2. p \notin Trying \cup {"base", "state", "open"}
  BY DEF Trying, Down
<1>3. TypeInv'
  BY <1>1, <1>2 DEF TypeInv, PCs, Replies
<1>4. LockInv' /\ EndInv'
  BY <1>1, QuietKeeps
<1>5. TryInv'
  BY <1>1, <1>2 DEF TryInv, TryRuns, Trying
<1>6. RateInv'
  BY <1>1, <1>2 DEF RateInv, AtRest, Agreed, Trying, Down
<1>7. ReturnInv'
  BY <1>1, <1>2 DEF ReturnInv
<1> QED BY <1>3, <1>4, <1>5, <1>6, <1>7

\* A copy of a request.
LEMMA ResendKeeps ==
  ASSUME SpeedInv, Resend
  PROVE  SpeedInv'
<1>1. /\ pc \in Resendable
      /\ port' = port /\ lock' = lock /\ baud' = baud /\ rate' = rate /\ cands' = cands
      /\ plan' = plan /\ until' = until /\ kind' = kind /\ why' = why /\ lossy' = lossy
  BY DEF Resend, probeVars, trialVars, pastVars
<1>2. Again(waited, broken + 1, tries) \/ Again(1, broken, tries)
  BY DEF Resend
<1> QED BY <1>1, <1>2, AgainKeeps DEF Resendable

\* What is known of an answer that came.
LEMMA AnsweredIs ==
  ASSUME TypeInv, NEW p, Answered(p)
  PROVE  pc = p /\ reply \in Answers
BY DEF Answered, TypeInv, Replies

\* A try's answer: the host follows the port, or nothing was tried.
LEMMA TryAnsweredKeeps ==
  ASSUME SpeedInv, TryAnswered
  PROVE  SpeedInv'
<1> USE DEF SpeedInv
<1>1. /\ pc = "try" /\ reply \in Answers /\ rate \in Rates
      /\ port' = port /\ lock' = lock /\ plan' = plan
  BY AnsweredIs DEF TryAnswered, probeVars, TypeInv, Trying
<1>2. CASE reply = "ok" /\ baud' = rate /\ Ask("confirm") /\ UNCHANGED <<trialVars, kind, again, believes>>
  <2>1. ~Raised(port) \/ port.rate = rate
    BY <1>1, <1>2 DEF TryInv
  <2>2. rate' = rate /\ cands' = cands /\ until' = until /\ kind' = kind
    BY <1>2 DEF trialVars
  <2> QED BY <1>1, <1>2, <2>1, <2>2, TrialGoesOn
<1>3. CASE reply # "ok" /\ Finish /\ UNCHANGED <<baud, rate>>
  <2>1. ~TryRuns
    BY <1>1, <1>3 DEF TryInv, Answers
  <2>2. Agreed
    BY <1>1, <2>1 DEF RateInv, Agreed, TryRuns, Homed
  <2> QED BY <1>1, <1>3, <2>1, <2>2, FinishKeeps DEF TypeInv
<1> QED BY <1>2, <1>3 DEF TryAnswered

\* A try nobody answered may have been taken: its time is waited out.
LEMMA TryGivenUpKeeps ==
  ASSUME SpeedInv, TryGivenUp
  PROVE  SpeedInv'
<1> USE DEF SpeedInv
<1>1. /\ pc = "try" /\ rate \in Rates /\ rate' = rate /\ Home("try", TrialWait)
      /\ port' = port /\ lock' = lock /\ plan' = plan
  BY DEF TryGivenUp, probeVars, sessionVars, TypeInv, Trying
<1>2. Homed(port) \/ (Raised(port) /\ (port.rate = rate \/ port.state = "committed"))
  BY <1>1 DEF RateInv, Agreed, Homed
<1>3. TrialWait \in Nat \ {0} /\ (Homed(port) \/ port.left < TrialWait)
  BY <1>1, <1>2, WaitsAre, WaitsLongEnough
<1> QED BY <1>1, <1>3, HomeKeeps

\* A confirm or a measurement that came back.
LEMMA ConfirmedKeeps ==
  ASSUME SpeedInv, Confirmed \/ Measured
  PROVE  SpeedInv'
<1> USE DEF SpeedInv
<1>1. /\ rate \in Rates /\ baud = rate
      /\ ~Raised(port) \/ port.rate = rate
  BY DEF Confirmed, Measured, Answered, RateInv, TypeInv, Trying
<1>2. /\ port' = port /\ lock' = lock /\ baud' = rate /\ rate' = rate /\ cands' = cands
      /\ plan' = plan /\ until' = until /\ kind' = kind
  BY <1>1 DEF Confirmed, Measured, probeVars, trialVars, sessionVars
<1>3. PICK p \in {"verify", "commit"} : Ask(p)
  BY DEF Confirmed, Measured
<1> QED BY <1>1, <1>2, <1>3, TrialGoesOn

\* One that did not.
LEMMA TrialMissedKeeps ==
  ASSUME SpeedInv, TrialMissed
  PROVE  SpeedInv'
<1> USE DEF SpeedInv
<1>1. /\ pc \in {"confirm", "verify"} /\ rate \in Rates /\ baud = rate
      /\ ~Raised(port) \/ port.rate = rate
  BY DEF TrialMissed, Silent, RateInv, TypeInv, Trying
<1>2. /\ port' = port /\ lock' = lock /\ baud' = baud /\ rate' = rate /\ cands' = cands
      /\ plan' = plan /\ until' = until /\ kind' = kind /\ lossy' = lossy
  BY DEF TrialMissed, probeVars, sessionVars, pastVars
<1>3. \/ Again(0, 0, tries + 1) /\ why' = why
      \/ Ask("revert") /\ why' # "down"
  BY DEF TrialMissed
<1>4. CASE Again(0, 0, tries + 1) /\ why' = why
  BY <1>1, <1>2, <1>4, AgainKeeps
<1>5. CASE Ask("revert") /\ why' # "down"
  BY <1>1, <1>2, <1>5, TrialGoesOn
<1> QED BY <1>3, <1>4, <1>5

\* A commit's answer: the port has left its try, or is called back.
LEMMA CommitAnsweredKeeps ==
  ASSUME SpeedInv, CommitAnswered
  PROVE  SpeedInv'
<1> USE DEF SpeedInv
<1>1. /\ pc = "commit" /\ rate \in Rates /\ rate' = rate /\ baud = rate /\ baud # Boot
      /\ ~Raised(port) \/ port.rate = rate
      /\ port' = port /\ lock' = lock /\ plan' = plan
  BY SpeedAssumption DEF CommitAnswered, Answered, RateInv, TypeInv, Trying, probeVars, Boot
<1>2. CASE reply = "ok" /\ Finish /\ UNCHANGED <<baud, rate, lossy>>
  <2>1. port.state # "try"
    BY <1>1, <1>2 DEF TryInv
  <2>2. ~TryRuns /\ Agreed
    BY <1>1, <2>1 DEF TryRuns, Agreed, Raised, TypeInv, PortOK, PortType
  <2> QED BY <1>1, <1>2, <2>2, FinishKeeps DEF TypeInv
<1>3. CASE Home("commit", TrialWait)
  <2>1. TrialWait \in Nat \ {0} /\ (Homed(port) \/ port.left < TrialWait)
    BY <1>1, WaitsAre, WaitsLongEnough DEF Homed
  <2> QED BY <1>1, <1>3, <2>1, HomeKeeps
<1> QED BY <1>2, <1>3 DEF CommitAnswered

\* A commit nobody answered may have been taken.
LEMMA CommitGivenUpKeeps ==
  ASSUME SpeedInv, CommitGivenUp
  PROVE  SpeedInv'
<1> USE DEF SpeedInv
<1>1. /\ pc = "commit" /\ rate \in Rates /\ rate' = rate /\ Home("commit", TrialWait)
      /\ ~Raised(port) \/ port.rate = rate
      /\ port' = port /\ lock' = lock /\ plan' = plan
  BY DEF CommitGivenUp, RateInv, TypeInv, Trying, probeVars, sessionVars
<1>2. TrialWait \in Nat \ {0} /\ (Homed(port) \/ port.left < TrialWait)
  BY <1>1, WaitsAre, WaitsLongEnough DEF Homed
<1> QED BY <1>1, <1>2, HomeKeeps

\* A revert of a step down is sent at a committed rate: the idle time is what is waited for.
LEMMA RevertedKeeps ==
  ASSUME SpeedInv, Reverted
  PROVE  SpeedInv'
<1> USE DEF SpeedInv
<1>1. /\ pc = "revert" /\ rate \in Rates /\ rate' = rate
      /\ ~Raised(port) \/ port.rate = rate
      /\ port' = port /\ lock' = lock /\ plan' = plan
  BY DEF Reverted, RateInv, TypeInv, Trying, probeVars, sessionVars
<1>2. CASE why = "down"
  <2>1. PICK reason : Home(reason, Retry)
    BY <1>2 DEF Reverted
  <2>2. ~TryRuns
    BY <1>1, <1>2 DEF TryInv
  <2>3. Homed(port) \/ port.left < Retry
    BY <2>2, HostSpeedAssumption, SpeedAssumption DEF Homed, TryRuns, Raised, TypeInv, PortOK, PortType
  <2> QED BY <1>1, <2>1, <2>3, WaitsAre, HomeKeeps
<1>3. CASE why # "down"
  <2>1. Home(why, TrialWait)
    BY <1>3 DEF Reverted
  <2>2. TrialWait \in Nat \ {0} /\ (Homed(port) \/ port.left < TrialWait)
    BY <1>1, WaitsAre, WaitsLongEnough DEF Homed
  <2> QED BY <1>1, <2>1, <2>2, HomeKeeps
<1> QED BY <1>2, <1>3

\* The candidates below the rate that broke.
LEMMA DescendingAre ==
  ASSUME NEW S \in SUBSET Rates, NEW s \in Descending(S)
  PROVE  s \in Seq(Rates)
<1>1. IsFiniteSet(S)
  BY HostSpeedAssumption, FS_Subset
<1>2. Cardinality(S) \in Nat
  BY <1>1, FS_CardinalityType
<1>3. s \in [1..Cardinality(S) -> Rates]
  BY DEF Descending
<1> QED BY <1>2, <1>3

\* The next lower candidate.
LEMMA StepDoneKeeps ==
  ASSUME SpeedInv, StepDone, port' = port, lock' = lock, baud' = baud, plan' = plan, ~TryRuns, Agreed
  PROVE  SpeedInv'
<1> USE DEF SpeedInv
<1>1. PICK s \in Seq(Rates) : NextTrial(s)
  <2>1. CASE believes
    <3> DEFINE S == {r \in plan : r < Least(failed \cup (unusable \cup {rate}))}
    <3>1. PICK s \in Descending(S) : NextTrial(s)
      BY <2>1 DEF StepDone
    <3>2. S \in SUBSET Rates
      BY DEF TypeInv
    <3>3. s \in Seq(Rates)
      BY <3>2, DescendingAre
    <3> QED BY <3>1, <3>3
  <2>2. CASE ~believes
    <3>1. NextTrial(<<>>)
      BY <2>2 DEF StepDone
    <3>2. <<>> \in Seq(Rates)
      OBVIOUS
    <3> QED BY <3>1, <3>2
  <2> QED BY <2>1, <2>2
<1>2. plan' \subseteq Rates
  BY DEF TypeInv
<1> QED BY <1>1, <1>2, NextTrialKeeps

\* The port answered at the boot speed: that is where it is.
LEMMA BaseAnsweredKeeps ==
  ASSUME SpeedInv, BaseAnswered
  PROVE  SpeedInv'
<1> USE DEF SpeedInv
<1>1. /\ pc = "base" /\ reply \in Answers /\ rate \in Rates
      /\ port' = port /\ lock' = lock /\ baud' = baud /\ plan' = plan /\ lossy' = lossy
  BY AnsweredIs DEF BaseAnswered, probeVars, pastVars, TypeInv
<1>2. ~Raised(port) /\ baud = Boot
  BY <1>1 DEF ReturnInv, RateInv
<1>3. ~TryRuns /\ Agreed
  BY <1>2 DEF TryRuns, Agreed, Raised, Homed
<1>4. CASE Ask("state") /\ UNCHANGED <<trialVars, unusable, failed, struck, kind, again>>
  <2>1. /\ pc' = "state" /\ reply' = "none" /\ tries' = 0
        /\ ran' \in [{"call", "own"} -> Answers \cup {"none"}]
        /\ ran'["own"] = "none" /\ ran'["call"] = ran["call"]
    BY <1>4, AskIs
  <2>2. rate' = rate /\ cands' = cands /\ until' = until /\ kind' = kind
    BY <1>4 DEF trialVars
  <2>3. TypeInv'
    BY <1>1, <2>1, <2>2 DEF TypeInv, PCs, Replies
  <2>4. LockInv' /\ EndInv'
    BY <1>1, <2>1, <2>2, QuietKeeps
  <2>5. TryInv'
    BY <1>1, <1>2, <2>1 DEF TryInv, TryRuns, Raised
  <2>6. RateInv'
    BY <1>1, <1>2, <2>1 DEF RateInv, AtRest, Homed
  <2>7. ReturnInv'
    BY <2>1 DEF ReturnInv
  <2> QED BY <2>3, <2>4, <2>5, <2>6, <2>7
<1>5. CASE StepDone
  BY <1>1, <1>3, <1>5, StepDoneKeeps
<1> QED BY <1>4, <1>5 DEF BaseAnswered

\* A confirm of a return that is missed; the last one only by a fault.
LEMMA BaseMissedKeeps ==
  ASSUME SpeedInv, BaseMissed
  PROVE  SpeedInv'
<1> USE DEF SpeedInv
<1>1. /\ pc = "base" /\ reply \in {"silent", "broken"}
      /\ port' = port /\ lock' = lock /\ baud' = baud /\ rate' = rate /\ cands' = cands
      /\ plan' = plan /\ until' = until /\ kind' = kind /\ why' = why /\ lossy' = lossy
  BY DEF BaseMissed, Silent, Missed, probeVars, trialVars, sessionVars, pastVars
<1>2. CASE tries = 0 /\ Again(0, 0, 0)
  BY <1>1, <1>2, AgainKeeps
<1>3. CASE tries = 1 /\ Ask("lost")
  <2>1. lossy
    BY <1>1, <1>3 DEF ReturnInv
  <2> QED BY <1>1, <1>3, <2>1, RestKeeps DEF Down
<1> QED BY <1>2, <1>3 DEF BaseMissed

\* The port's phase read after a return.
LEMMA StateAnsweredKeeps ==
  ASSUME SpeedInv, StateAnswered
  PROVE  SpeedInv'
<1> USE DEF SpeedInv
<1>1. /\ pc = "state" /\ cands \in Seq(Rates) /\ plan \subseteq Rates
      /\ port' = port /\ lock' = lock /\ baud' = baud /\ plan' = plan
  BY DEF StateAnswered, Answered, probeVars, TypeInv
<1>2. ~TryRuns /\ Agreed
  BY <1>1 DEF RateInv, TryRuns, Agreed, Homed, Raised
<1>3. CASE NextTrial(cands)
  BY <1>1, <1>2, <1>3, NextTrialKeeps
<1>4. CASE StepDone
  BY <1>1, <1>2, <1>4, StepDoneKeeps
<1> QED BY <1>3, <1>4 DEF StateAnswered

\* That read given up.
LEMMA StateGivenUpKeeps ==
  ASSUME SpeedInv, StateGivenUp
  PROVE  SpeedInv'
<1> USE DEF SpeedInv
<1>1. /\ pc = "state" /\ Ask("failed") /\ kind' = "none"
      /\ port' = port /\ lock' = lock /\ baud' = baud /\ rate' = rate /\ cands' = cands
      /\ plan' = plan /\ until' = until /\ lossy' = lossy
  BY DEF StateGivenUp, probeVars, trialVars, sessionVars, pastVars
<1>2. ~TryRuns /\ Agreed
  BY <1>1 DEF RateInv, TryRuns, Agreed, Homed, Raised
<1> QED BY <1>1, <1>2, RestKeeps

\* raise_speed is called.
LEMMA RaiseKeeps ==
  ASSUME SpeedInv, Raise
  PROVE  SpeedInv'
<1> USE DEF SpeedInv
<1>1. /\ pc = "free" /\ port' = port /\ lock' = lock /\ baud' = baud
  BY DEF Raise, probeVars
<1>2. PICK s \in Plans :
        plan' = (IF Open(s) = {} THEN plan ELSE {s[k] : k \in Open(s)}) /\ NextTrial(s)
  BY DEF Raise
<1>3. s \in Seq(Rates)
  BY HostSpeedAssumption
<1>4. plan' \subseteq Rates
  BY <1>2, <1>3 DEF TypeInv, Open
<1>5. ~TryRuns /\ Agreed
  BY <1>1 DEF TryInv, RateInv, AtRest, Trying, Down
<1> QED BY <1>1, <1>2, <1>3, <1>4, <1>5, NextTrialKeeps

\* A user's call.
LEMMA CallKeeps ==
  ASSUME SpeedInv, Call
  PROVE  SpeedInv'
<1> USE DEF SpeedInv
<1>1. /\ pc \in AtRest /\ pc' \in {"recover", "call"} /\ kind' \in Kinds /\ reply' = "none" /\ tries' = 0
      /\ port' = port /\ lock' = lock /\ baud' = baud /\ rate' = rate /\ cands' = cands
      /\ plan' = plan /\ until' = until
      /\ ran' = [w \in {"call", "own"} |-> "none"]
  BY DEF Call, AtRest, probeVars, trialVars, sessionVars
<1>2. ran' \in [{"call", "own"} -> Answers \cup {"none"}] /\ ran'["call"] = "none"
  BY <1>1
<1>3. ~TryRuns /\ Agreed
  BY <1>1 DEF TryInv, RateInv, AtRest, Trying, Down
<1>4. TypeInv'
  BY <1>1, <1>2 DEF TypeInv, PCs, Replies, Trying
<1>5. LockInv' /\ EndInv'
  BY <1>1, <1>2, QuietKeeps
<1>6. TryInv'
  BY <1>1, <1>3 DEF TryInv, TryRuns
<1>7. RateInv'
  BY <1>1, <1>3 DEF RateInv, Agreed, AtRest
<1>8. ReturnInv'
  BY <1>1 DEF ReturnInv
<1> QED BY <1>4, <1>5, <1>6, <1>7, <1>8

\* The confirm of a failed transport, answered or not.
LEMMA RecoveredKeeps ==
  ASSUME SpeedInv, Recovered \/ RecoverMissed
  PROVE  SpeedInv'
<1> USE DEF SpeedInv
<1>1. /\ pc = "recover"
      /\ port' = port /\ lock' = lock /\ baud' = baud /\ rate' = rate /\ cands' = cands
      /\ plan' = plan /\ until' = until /\ why' = why /\ lossy' = lossy
  BY DEF Recovered, RecoverMissed, Answered, Silent, probeVars, trialVars, sessionVars, pastVars
<1>2. ~TryRuns /\ Agreed
  BY <1>1 DEF TryInv, RateInv, AtRest, Trying, Down
<1>3. CASE Again(0, 0, tries + 1) /\ kind' = kind
  BY <1>1, <1>3, AgainKeeps
<1>4. CASE (Ask("call") /\ kind' = kind) \/ (Ask("failed") /\ kind' = "none")
  BY <1>1, <1>2, <1>4, RestKeeps
<1> QED BY <1>3, <1>4 DEF Recovered, RecoverMissed

\* Behind an end the port is home, and so is the host; behind anything else both are where they
\* were.
LEMMA CallAnsweredKeeps ==
  ASSUME SpeedInv, CallAnswered
  PROVE  SpeedInv'
<1> USE DEF SpeedInv
<1>1. /\ pc = "call" /\ reply \in Answers
      /\ port' = port /\ cands' = cands /\ until' = until /\ kind' = "none" /\ lossy' = lossy
      /\ baud' = (IF reply = "ok" THEN BaudAfter(kind) ELSE baud)
      /\ lock' = (IF kind = "open" /\ lock = "new" THEN "mine" ELSE lock)
  BY AnsweredIs DEF CallAnswered, pastVars
<1>2. plan' \subseteq Rates
  <2>1. plan' = {} \/ plan' = plan
    BY DEF CallAnswered
  <2> QED BY <2>1 DEF TypeInv
<1>3. ~TryRuns /\ Agreed
  BY <1>1 DEF TryInv, RateInv, AtRest, Trying, Down
<1>4. baud' \in AllRates /\ Agreed'
  <2>1. CASE reply = "ok" /\ kind \in {"end", "open"}
    <3>1. baud' = Boot
      BY <1>1, <2>1 DEF BaudAfter
    <3>2. Homed(port)
      BY <1>1, <2>1 DEF EndInv, Ending
    <3> QED BY <1>1, <3>1, <3>2 DEF Agreed, AllRates
  <2>2. CASE ~(reply = "ok" /\ kind \in {"end", "open"})
    <3>1. baud' = baud
      BY <1>1, <2>2 DEF BaudAfter
    <3> QED BY <1>1, <1>3, <3>1 DEF Agreed, TypeInv
  <2> QED BY <2>1, <2>2
<1>5. /\ pc' \in {"free", "revert"} /\ reply' = "none" /\ tries' = 0
      /\ ran' \in [{"call", "own"} -> Answers \cup {"none"}]
      /\ pc' = "revert" => rate' = baud' /\ baud' # Boot /\ why' = "down"
      /\ pc' = "free" => rate' = rate
  <2>1. CASE struck /\ baud' # Boot /\ Ask("revert") /\ why' = "down" /\ rate' = baud
    <3>1. baud' = baud
      BY <1>1, <2>1 DEF BaudAfter
    <3> QED BY <2>1, <3>1, AskIs
  <2>2. CASE Ask("free") /\ UNCHANGED <<why, rate>>
    BY <2>2, AskIs
  <2>3. \/ struck /\ baud' # Boot /\ Ask("revert") /\ why' = "down" /\ rate' = baud
        \/ Ask("free") /\ UNCHANGED <<why, rate>>
    BY DEF CallAnswered
  <2> QED BY <2>1, <2>2, <2>3
<1>6. TypeInv'
  <2>1. lock' \in {"mine", "new", "expired", "gone"}
    BY <1>1 DEF TypeInv
  <2>2. rate' \in AllRates /\ (pc' = "revert" => rate' \in Rates)
    BY <1>4, <1>5 DEF AllRates, TypeInv
  <2> QED BY <1>1, <1>2, <1>4, <1>5, <2>1, <2>2 DEF TypeInv, PCs, Replies, Trying
<1>7. LockInv' /\ EndInv'
  BY <1>1 DEF LockInv, EndInv, Ending, TypeInv
<1>8. TryInv'
  BY <1>1, <1>3, <1>5 DEF TryInv, TryRuns
<1>9. RateInv'
  BY <1>4, <1>5 DEF RateInv, AtRest, Agreed
<1>10. ReturnInv'
  BY <1>5 DEF ReturnInv
<1> QED BY <1>6, <1>7, <1>8, <1>9, <1>10

\* A call nobody answers: a step down, a return, or a failed transport.
LEMMA CallGivenUpKeeps ==
  ASSUME SpeedInv, CallGivenUp
  PROVE  SpeedInv'
<1> USE DEF SpeedInv
<1>1. /\ pc = "call"
      /\ port' = port /\ lock' = lock /\ plan' = plan
  BY DEF CallGivenUp, probeVars
<1>2. ~TryRuns /\ Agreed
  BY <1>1 DEF TryInv, RateInv, AtRest, Trying, Down
<1>3. InUse => /\ baud \in Rates /\ (~Raised(port) \/ (port.rate = baud /\ port.state = "committed"))
  BY <1>2 DEF InUse, Agreed, TypeInv, AllRates
<1>4. CASE /\ InUse /\ Ask("revert") /\ why' = "down" /\ rate' = baud
           /\ UNCHANGED <<baud, cands, until, kind, again, pastVars>>
  <2>1. /\ pc' = "revert" /\ reply' = "none" /\ tries' = 0
        /\ ran' \in [{"call", "own"} -> Answers \cup {"none"}]
        /\ ran'["call"] = ran["call"]
    BY <1>4, AskIs
  <2>2. TypeInv'
    BY <1>1, <1>3, <1>4, <2>1 DEF TypeInv, PCs, Replies
  <2>3. LockInv' /\ EndInv'
    BY <1>1, <1>4, <2>1, QuietKeeps
  <2>4. TryInv'
    BY <1>1, <1>2, <2>1 DEF TryInv, TryRuns
  <2>5. RateInv'
    BY <1>1, <1>3, <1>4, <2>1 DEF RateInv, AtRest
  <2>6. ReturnInv'
    BY <2>1 DEF ReturnInv
  <2> QED BY <2>2, <2>3, <2>4, <2>5, <2>6
<1>5. CASE InUse /\ Home("silent", Retry) /\ rate' = baud
  <2>1. Homed(port) \/ port.left < Retry
    BY <1>3, <1>5, HostSpeedAssumption, SpeedAssumption DEF Homed, TypeInv, PortOK, PortType
  <2> QED BY <1>1, <1>3, <1>5, <2>1, WaitsAre, HomeKeeps
<1>6. CASE Ask("failed") /\ kind' = "none" /\ UNCHANGED <<baud, trialVars, pastVars>>
  <2>1. rate' = rate /\ cands' = cands /\ until' = until /\ lossy' = lossy
    BY <1>6 DEF trialVars, pastVars
  <2> QED BY <1>1, <1>2, <1>6, <2>1, RestKeeps
<1> QED BY <1>4, <1>5, <1>6 DEF CallGivenUp

---------------------------------------------------------------------------
(* The host's end, and what happens meanwhile. *)

\* The host's process ends.
LEMMA DieKeeps ==
  ASSUME SpeedInv, Die
  PROVE  SpeedInv'
<1>1. /\ Ask("dead") /\ port' = port /\ lock' = lock /\ baud' = baud /\ rate' = rate /\ cands' = cands
      /\ plan' = plan /\ until' = until /\ kind' = kind /\ lossy' = lossy
  BY DEF Die, probeVars, trialVars, sessionVars, pastVars
<1> QED BY <1>1, RestKeeps DEF Down

\* The port is opened again.
LEMMA ReopenKeeps ==
  ASSUME SpeedInv, Reopen
  PROVE  SpeedInv'
<1> USE DEF SpeedInv
<1>1. /\ pc \in Down /\ pc' = "open" /\ baud' = Boot /\ until' = Retry /\ reply' = "none" /\ tries' = 0
      /\ rate' = Boot /\ cands' = <<>> /\ plan' = {} /\ kind' = "none"
      /\ port' = port /\ lock' = lock
      /\ ran' = [w \in {"call", "own"} |-> "none"]
  BY DEF Reopen, probeVars
<1>2. ran' \in [{"call", "own"} -> Answers \cup {"none"}]
  BY <1>1
<1>3. TypeInv'
  BY <1>1, <1>2, HostSpeedAssumption DEF TypeInv, PCs, Replies, AllRates, Trying
<1>4. LockInv' /\ EndInv'
  BY <1>1, QuietKeeps
<1>5. TryInv'
  BY <1>1 DEF TryInv, TryRuns
<1>6. RateInv'
  BY <1>1 DEF RateInv, AtRest
<1>7. ReturnInv'
  BY <1>1 DEF ReturnInv, Answers
<1> QED BY <1>3, <1>4, <1>5, <1>6, <1>7

\* It answers at the boot speed.
LEMMA OpenAnsweredKeeps ==
  ASSUME SpeedInv, OpenAnswered
  PROVE  SpeedInv'
<1> USE DEF SpeedInv
<1>1. /\ pc = "open" /\ reply \in Answers /\ Ask("free") /\ until' = 0
      /\ port' = port /\ lock' = lock /\ baud' = baud /\ rate' = rate /\ cands' = cands
      /\ plan' = plan /\ kind' = kind
  BY AnsweredIs DEF OpenAnswered, probeVars, sessionVars
<1>2. ~Raised(port) /\ baud = Boot
  BY <1>1 DEF ReturnInv, RateInv
<1>3. /\ pc' = "free" /\ reply' = "none" /\ tries' = 0
      /\ ran' \in [{"call", "own"} -> Answers \cup {"none"}] /\ ran'["call"] = ran["call"]
  BY <1>1, AskIs
<1>4. TypeInv'
  BY <1>1, <1>3 DEF TypeInv, PCs, Replies, Trying
<1>5. LockInv' /\ EndInv'
  BY <1>1, <1>3, QuietKeeps
<1>6. TryInv'
  BY <1>1, <1>2, <1>3 DEF TryInv, TryRuns, Raised
<1>7. RateInv'
  BY <1>1, <1>2, <1>3 DEF RateInv, AtRest, Agreed, Homed
<1>8. ReturnInv'
  BY <1>3 DEF ReturnInv
<1> QED BY <1>4, <1>5, <1>6, <1>7, <1>8

\* It does not.
LEMMA OpenMissedKeeps ==
  ASSUME SpeedInv, OpenMissed
  PROVE  SpeedInv'
<1>1. /\ pc = "open"
      /\ port' = port /\ lock' = lock /\ baud' = baud /\ rate' = rate /\ cands' = cands
      /\ plan' = plan /\ until' = until /\ kind' = kind /\ why' = why /\ lossy' = lossy
  BY DEF OpenMissed, Silent, probeVars, trialVars, sessionVars, pastVars
<1>2. CASE Again(0, 0, 0)
  BY <1>1, <1>2, AgainKeeps
<1>3. CASE Ask("closed")
  BY <1>1, <1>3, RestKeeps DEF Down
<1> QED BY <1>2, <1>3 DEF OpenMissed

\* The port calms while the host does nothing.
LEMMA CalmKeeps ==
  ASSUME SpeedInv, Calms(port, port'), until' \in Nat,
         pc' = pc, baud' = baud, rate' = rate, cands' = cands, why' = why, plan' = plan, kind' = kind,
         reply' = reply, settled' = settled,
         lock' \in {"mine", "new", "expired", "gone"}, lock' = "mine" => lock = "mine",
         lock' \in {"new", "gone"} => Homed(port'),
         ran' = ran \/ (Homed(port') /\ ran' = [w \in {"call", "own"} |-> "none"])
  PROVE  TypeInv' /\ LockInv' /\ EndInv' /\ TryInv' /\ RateInv'
<1> USE DEF SpeedInv
<1>1. ran' \in [{"call", "own"} -> Answers \cup {"none"}] /\ (ran'["call"] = ran["call"] \/ ran'["call"] = "none")
  BY DEF TypeInv
<1>2. Homed(port) => Homed(port')
  BY CalmsHome
<1>3. /\ Raised(port') => Raised(port) /\ port'.state = port.state /\ port'.rate = port.rate
      /\ TryRuns' => TryRuns /\ port'.rate = port.rate /\ ran' = ran
  BY DEF Calms, Raised, TryRuns, PortOK, PortType, Homed
<1>4. TypeInv'
  BY <1>1 DEF TypeInv, Calms
<1>5. LockInv'
  BY DEF LockInv
<1>6. EndInv'
  BY <1>1, <1>2 DEF EndInv, Ending
<1>7. TryInv'
  <2>1. TryRuns' => \/ pc' \in Trying /\ port'.rate = rate'
                    \/ pc' \in {"base", "open"} \cup Down
    BY <1>3 DEF TryInv
  <2>2. TryRuns' /\ pc' = "try" => ran'["own"] = "ok" /\ reply' \notin {"no_session", "refused"}
    BY <1>3 DEF TryInv
  <2>3. TryRuns' /\ pc' = "revert" => why' # "down"
    BY <1>3 DEF TryInv
  <2>4. ran'["own"] = "ok" => ran["own"] = "ok"
    OBVIOUS
  <2>5. pc' = "try" /\ (ran'["own"] = "ok" \/ reply' = "ok") => ~Raised(port') \/ port'.rate = rate'
    BY <1>3, <2>4 DEF TryInv
  <2>6. pc' = "commit" /\ (ran'["own"] = "ok" \/ reply' = "ok") => port'.state # "try"
    BY <1>3, <2>4 DEF TryInv, Raised
  <2> QED BY <2>1, <2>2, <2>3, <2>5, <2>6 DEF TryInv
<1>8. RateInv'
  <2>1. Agreed => Agreed'
    BY <1>2, <1>3 DEF Agreed
  <2>2. port.state = "try" => Homed(port') \/ port'.state = "try"
    BY <1>3 DEF Homed
  <2> QED BY <1>2, <1>3, <2>1, <2>2 DEF RateInv, AtRest, Agreed, Homed
<1> QED BY <1>4, <1>5, <1>6, <1>7, <1>8

\* A return that goes on finds the port no later than it would have.
LEMMA SoonerKeeps ==
  ASSUME SpeedInv, Calms(port, port'), Sooner(port, port'),
         pc' = pc, until' = until, tries' = tries, reply' = reply, lossy' = lossy
  PROVE  ReturnInv'
<1>1. Raised(port') => Raised(port) /\ (port.fallback => port'.fallback) /\ (port'.fallback \/ port'.left <= port.left)
  BY DEF Calms, Sooner, Raised
<1>2. port.left \in Nat /\ port'.left \in Nat /\ until \in Nat
  BY DEF SpeedInv, TypeInv, Calms, PortOK, PortType
<1> QED BY <1>1, <1>2 DEF SpeedInv, ReturnInv

\* A tick passes on both sides.
LEMMA ElapseKeeps ==
  ASSUME SpeedInv, Elapse
  PROVE  SpeedInv'
<1> USE DEF SpeedInv
<1>1. /\ ~Due(port) /\ ~port.fallback /\ port' = Pass(port)
      /\ until' = IF until = 0 THEN 0 ELSE until - 1
      /\ lock' = lock /\ pc' = pc /\ baud' = baud /\ reply' = reply /\ tries' = tries /\ rate' = rate
      /\ cands' = cands /\ why' = why /\ plan' = plan /\ kind' = kind /\ ran' = ran
      /\ lossy' = lossy /\ settled' = settled
  BY DEF Elapse, sessionVars, callVars, pastVars
<1>2. port \in PortType /\ until \in Nat
  BY DEF TypeInv, PortOK
<1>3. /\ port' \in PortType
      /\ port'.state = port.state /\ port'.rate = port.rate /\ port'.fallback = port.fallback
      /\ port'.left = IF port.left = 0 THEN 0 ELSE port.left - 1
  BY <1>1, <1>2 DEF Pass, PortType
<1>4. port'.left <= port.left
  BY <1>2, <1>3 DEF PortType
<1>5. PortOK(port')
  <2>1. port.rate \in Rates => VerifyMs[port.rate] \in Nat
    BY HostSpeedAssumption
  <2>2. port.state = "try" => port.rate \in Rates
    BY <1>2 DEF TypeInv, PortOK, PortType, AllRates
  <2>3. port'.state = "committed" => port'.left <= Idle
    BY <1>2, <1>3, <1>4, SpeedAssumption DEF TypeInv, PortOK, PortType
  <2>4. port'.state = "try" => port'.left <= VerifyMs[port'.rate]
    BY <1>2, <1>3, <1>4, <2>1, <2>2 DEF TypeInv, PortOK, PortType
  <2> QED BY <1>3, <2>3, <2>4 DEF TypeInv, PortOK
<1>6. Calms(port, port')
  BY <1>3, <1>5 DEF Calms
<1>7. until' \in Nat
  BY <1>1, <1>2
<1>8. lock' \in {"new", "gone"} => Homed(port')
  BY <1>1, <1>6, CalmsHome DEF LockInv
<1>9. TypeInv' /\ LockInv' /\ EndInv' /\ TryInv' /\ RateInv'
  BY <1>1, <1>6, <1>7, <1>8, CalmKeeps DEF TypeInv
<1>10. pc = "base" => ~Raised(port') \/ (until' > 0 /\ port'.left < until')
  <2> SUFFICES ASSUME pc = "base", Raised(port') PROVE until' > 0 /\ port'.left < until'
    OBVIOUS
  <2>1. Raised(port) /\ until > 0 /\ port.left < until
    BY <1>1, <1>3 DEF ReturnInv, Raised
  <2>2. port.left > 0
    BY <1>1, <1>2, <2>1 DEF Due, PortType
  <2> QED BY <1>1, <1>2, <1>3, <2>1, <2>2 DEF PortType
<1>11. ReturnInv'
  BY <1>1, <1>3, <1>10 DEF ReturnInv, Raised
<1> QED BY <1>9, <1>11

\* The probe looks at its lease and its port, the lease runs out, another host opens, a frame
\* starts or ends.
LEMMA MeanwhileKeeps ==
  ASSUME SpeedInv, ProbeTick \/ Expire \/ TakenOver \/ FrameStarts \/ FrameEnds
  PROVE  SpeedInv'
<1> USE DEF SpeedInv
<1>1. /\ pc' = pc /\ baud' = baud /\ rate' = rate /\ cands' = cands /\ why' = why /\ until' = until
      /\ plan' = plan /\ kind' = kind /\ reply' = reply /\ tries' = tries
      /\ lossy' = lossy /\ settled' = settled
  BY DEF ProbeTick, Expire, TakenOver, FrameStarts, FrameEnds, hostVars, requestVars, trialVars,
         sessionVars, callVars, pastVars
<1>2. PortOK(port) /\ (lock \in {"gone", "new"} => Homed(port))
  BY DEF TypeInv, LockInv
<1>3. Calms(port, Fall(port)) /\ Sooner(port, Fall(port)) /\ Homed(Fall(port)) /\ PortOK(Fall(port))
  BY <1>2, FallCalms DEF Calms
<1>4. /\ Calms(port, port') /\ Sooner(port, port')
      /\ lock' \in {"mine", "new", "expired", "gone"} /\ (lock' = "mine" => lock = "mine")
      /\ lock' \in {"new", "gone"} => Homed(port')
      /\ ran' = ran \/ (Homed(port') /\ ran' = [w \in {"call", "own"} |-> "none"])
  <2>1. CASE ProbeTick
    <3>1. ran' = ran
      BY <2>1 DEF ProbeTick, hostVars, callVars
    <3>2. CASE lock = "expired"
      <4>1. lock' = "gone" /\ port' = TickPort(Fall(port))
        BY <2>1, <3>2 DEF ProbeTick
      <4>2. Calms(Fall(port), port') /\ Sooner(Fall(port), port')
        BY <1>3, <4>1, TickCalms
      <4>3. Calms(port, port') /\ Homed(port')
        BY <1>3, <4>2, CalmsTwice, CalmsHome
      <4>4. Sooner(port, port')
        BY <4>3 DEF Sooner, Homed
      <4> QED BY <3>1, <4>1, <4>3, <4>4
    <3>3. CASE lock # "expired"
      <4>1. lock' = lock /\ port' = TickPort(port)
        BY <2>1, <3>3 DEF ProbeTick
      <4>2. Calms(port, port') /\ Sooner(port, port')
        BY <1>2, <4>1, TickCalms
      <4> QED BY <1>2, <3>1, <4>1, <4>2, CalmsHome DEF TypeInv
    <3> QED BY <3>2, <3>3
  <2>2. CASE Expire
    <3>1. lock' = "expired" /\ port' = port /\ ran' = ran
      BY <2>2 DEF Expire, hostVars, callVars
    <3> QED BY <1>2, <3>1, SameCalms
  <2>3. CASE TakenOver
    <3>1. lock' = "gone" /\ port' = Fall(port) /\ ran' = [w \in {"call", "own"} |-> "none"]
      BY <2>3 DEF TakenOver
    <3> QED BY <1>3, <3>1
  <2>4. CASE FrameStarts
    <3>1. lock' = lock /\ port' = [port EXCEPT !.busy = TRUE] /\ ran' = ran
      BY <2>4 DEF FrameStarts, hostVars, callVars
    <3>2. /\ port' \in PortType
          /\ port'.state = port.state /\ port'.rate = port.rate /\ port'.left = port.left /\ port'.fallback = port.fallback
      BY <1>2, <3>1 DEF PortOK, PortType
    <3>3. PortOK(port')
      BY <1>2, <3>2 DEF PortOK
    <3>4. Calms(port, port') /\ Sooner(port, port')
      BY <3>2, <3>3 DEF Calms, Sooner, PortType
    <3> QED BY <1>2, <3>1, <3>4, CalmsHome DEF TypeInv
  <2>5. CASE FrameEnds
    <3>1. lock' = lock /\ port' = FrameDone(port) /\ ran' = ran
      BY <2>5 DEF FrameEnds, hostVars, callVars
    <3> QED BY <1>2, <3>1, FrameCalms, CalmsHome DEF TypeInv
  <2> QED BY <2>1, <2>2, <2>3, <2>4, <2>5
<1>5. TypeInv' /\ LockInv' /\ EndInv' /\ TryInv' /\ RateInv'
  BY <1>1, <1>4, CalmKeeps DEF TypeInv
<1>6. ReturnInv'
  BY <1>1, <1>4, SoonerKeeps
<1> QED BY <1>5, <1>6

\* No step of the specification breaks SpeedInv.
LEMMA NextInv ==
  ASSUME SpeedInv, [SpeedNext]_vars
  PROVE  SpeedInv'
<1>1. CASE UNCHANGED vars
  <2>1. /\ port' = port /\ lock' = lock /\ pc' = pc /\ baud' = baud /\ reply' = reply /\ tries' = tries
        /\ rate' = rate /\ cands' = cands /\ why' = why /\ until' = until /\ plan' = plan
        /\ kind' = kind /\ ran' = ran /\ lossy' = lossy /\ settled' = settled
    BY <1>1 DEF vars, probeVars, requestVars, trialVars, sessionVars, callVars, pastVars
  <2> QED BY <2>1 DEF SpeedInv, TypeInv, LockInv, EndInv, Ending, TryInv, TryRuns, RateInv, Agreed, ReturnInv
<1>2. CASE HostGoesOn
  BY <1>2, ResendKeeps, TryAnsweredKeeps, TryGivenUpKeeps, ConfirmedKeeps, TrialMissedKeeps,
     CommitAnsweredKeeps, CommitGivenUpKeeps, RevertedKeeps, BaseAnsweredKeeps, BaseMissedKeeps,
     StateAnsweredKeeps, StateGivenUpKeeps, RecoveredKeeps, CallAnsweredKeeps, CallGivenUpKeeps,
     OpenAnsweredKeeps, OpenMissedKeeps DEF HostGoesOn
<1>3. CASE Send \/ Raise \/ Call \/ Die \/ Reopen
  BY <1>3, SendKeeps, RaiseKeeps, CallKeeps, DieKeeps, ReopenKeeps
<1>4. CASE Elapse \/ ProbeTick \/ Expire \/ TakenOver \/ FrameStarts \/ FrameEnds
  BY <1>4, ElapseKeeps, MeanwhileKeeps
<1> QED BY <1>1, <1>2, <1>3, <1>4 DEF SpeedNext

---------------------------------------------------------------------------
\* SpeedInv holds of every reachable state.
THEOREM SpeedInvariant == SpeedSpec => []SpeedInv
<1>1. SpeedInit => SpeedInv
  BY InitInv
<1>2. SpeedInv /\ [SpeedNext]_vars => SpeedInv'
  BY NextInv
<1> QED BY <1>1, <1>2, PTL DEF SpeedSpec

\* Between two calls the host and the port of set_baud, whatever was lost, are at one rate or the
\* port is on its way to the boot speed (_speed_fallback, _step_down, raise_speed).
THEOREM RatesStayAgreed == SpeedSpec => []RatesAgree
<1>1. SpeedInv => RatesAgree
  BY DEF SpeedInv, RateInv, RatesAgree, Agreed, AtRest, Homed
<1> QED BY <1>1, SpeedInvariant, PTL

\* back_to_base gives up with the probe elsewhere only when its own confirms were lost: its time is
\* longer than verify_ms and than port_speed_idle_ms.
THEOREM ReturnsFindProbe == SpeedSpec => []ReturnFindsProbe
<1>1. SpeedInv => ReturnFindsProbe
  BY DEF SpeedInv, ReturnInv, ReturnFindsProbe
<1> QED BY <1>1, SpeedInvariant, PTL

\* Behind an end, or an open that takes the lock over, the host goes on at the rate the port was
\* left at once the answer was out (_reverts).
THEOREM EndLeavesOneRate == SpeedSpec => SameRateAfterEnd
<1> DEFINE After == pc = "call" /\ kind \in {"end", "open"} /\ reply = "ok" /\ pc' \in {"free", "revert"} => baud' = settled
<1>1. SpeedInv /\ [SpeedNext]_vars => [After]_vars
  <2> SUFFICES ASSUME SpeedInv, [SpeedNext]_vars, ~UNCHANGED vars,
                      pc = "call", kind \in {"end", "open"}, reply = "ok", pc' \in {"free", "revert"}
               PROVE  baud' = settled
    OBVIOUS
  <2>1. CallAnswered
    <3>1. \/ Send \/ HostGoesOn \/ Raise \/ Call \/ Die \/ Reopen
          \/ Elapse \/ ProbeTick \/ Expire \/ TakenOver \/ FrameStarts \/ FrameEnds
      BY DEF SpeedNext
    <3>2. pc' # pc
      OBVIOUS
    <3>3. ~(Send \/ Elapse \/ ProbeTick \/ Expire \/ TakenOver \/ FrameStarts \/ FrameEnds)
      BY <3>2 DEF Send, Elapse, ProbeTick, Expire, TakenOver, FrameStarts, FrameEnds, hostVars
    <3>4. ~(Raise \/ Call \/ Die \/ Reopen)
      BY DEF Raise, Call, Die, Ask, Reopen, Down
    <3>5. ~(Resend \/ CallGivenUp)
      BY DEF Resend, CallGivenUp, GivenUp, Missed
    <3>6. ~(\/ TryAnswered \/ TryGivenUp \/ Confirmed \/ Measured \/ TrialMissed
            \/ CommitAnswered \/ CommitGivenUp \/ Reverted \/ BaseAnswered \/ BaseMissed
            \/ StateAnswered \/ StateGivenUp \/ Recovered \/ RecoverMissed
            \/ OpenAnswered \/ OpenMissed)
      BY DEF TryAnswered, TryGivenUp, Confirmed, Measured, TrialMissed, CommitAnswered, CommitGivenUp,
             Reverted, BaseAnswered, BaseMissed, StateAnswered, StateGivenUp, Recovered, RecoverMissed,
             OpenAnswered, OpenMissed, Answered, Silent
    <3> QED BY <3>1, <3>3, <3>4, <3>5, <3>6 DEF HostGoesOn
  <2>2. baud' = Boot
    BY <2>1 DEF CallAnswered, BaudAfter
  <2>3. settled = Boot
    BY DEF SpeedInv, EndInv, Ending
  <2> QED BY <2>2, <2>3
<1>2. [][After]_vars <=> SameRateAfterEnd
  BY DEF SameRateAfterEnd
<1> QED BY <1>1, <1>2, SpeedInvariant, PTL DEF SpeedSpec
=============================================================================
