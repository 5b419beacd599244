--------------------------- MODULE ProbePinsProofs ---------------------------
(***************************************************************************)
(* What ProbePins promises, for every number of channels, functions and    *)
(* ports: types, pins kept apart, pads safe from an output idle, saved     *)
(* settings that come back, pins left in their idle state.                 *)
(***************************************************************************)
EXTENDS ProbePins, TLAPS

---------------------------------------------------------------------------
(* Types. *)

\* What _park leaves in every pin's place is a state a pin may be parked in.
LEMMA ParkType ==
  ASSUME NEW c \in Conf, parked \in [Chan -> Driven], NEW chs, NEW pl, NEW cs
  PROVE  Park(chs, c, pl, cs) \in [Chan -> Driven]
<1>1. \A ch \in Chan : IdleState(c, ch) \in Driven
  BY DEF Conf, IdleState, Driven, HiZ
<1> QED BY <1>1 DEF Park

\* The values a firmware takes of well-formed settings are well-formed, whatever it lacks.
LEMMA TakenType ==
  ASSUME NEW c \in Conf, NEW l
  PROVE  Taken(c, l) \in Conf
BY DEF Conf, Taken

\* The settings and the pins of a boot.
LEMMA BootType ==
  ASSUME NEW s \in [is : {"kept", "none", "unreadable"}, conf : Conf], NEW l
  PROVE  /\ Boot(s, l) \in Conf
         /\ BootPark(Boot(s, l)) \in [Chan -> Driven]
         /\ BootStorage(s, l) \in [state : StorageState, gen : 0..GenMax]
<1>1. Boot(s, l) \in Conf
  BY TakenType, PinsAssumption DEF Boot
<1>2. BootPark(Boot(s, l)) \in [Chan -> Driven]
  BY <1>1 DEF BootPark, IdleState, Driven, Conf, HiZ
<1>3. BootStorage(s, l) \in [state : StorageState, gen : 0..GenMax]
  BY PinsAssumption DEF BootStorage, StorageState
<1> QED BY <1>1, <1>2, <1>3

\* The remembered holds that ended are holds.
LEMMA RememberType ==
  ASSUME Remember
  PROVE  taken' \subseteq holds'
BY DEF Remember

\* The boot's state has its types.
LEMMA InitType == Init => PinsTypeOK
<1> SUFFICES ASSUME Init PROVE PinsTypeOK
  OBVIOUS
<1>1. saved \in [is : {"kept", "none", "unreadable"}, conf : Conf]
  BY PinsAssumption DEF Init
<1>2. /\ conf \in Conf /\ parked \in [Chan -> Driven]
      /\ storage \in [state : StorageState, gen : 0..GenMax]
  BY <1>1, BootType DEF Init
<1>3. gen \in 1..GenMax
  BY PinsAssumption DEF Init
<1> QED BY <1>1, <1>2, <1>3 DEF Init, PinsTypeOK

\* A restart keeps the types, whatever the new firmware lacks.
LEMMA RebootType ==
  ASSUME PinsTypeOK, NEW l \in SUBSET Lackable, Reboot(l)
  PROVE  PinsTypeOK'
<1>1. /\ conf' \in Conf /\ parked' \in [Chan -> Driven]
      /\ storage' \in [state : StorageState, gen : 0..GenMax]
  BY BootType DEF PinsTypeOK, Reboot
<1>2. gen' \in 1..GenMax
  BY PinsAssumption DEF Reboot
<1> QED BY <1>1, <1>2 DEF Reboot, PinsTypeOK

\* set and unset keep the types; the generation stops at its limit.
LEMMA ChangeType ==
  ASSUME PinsTypeOK, NEW new \in Conf, Change(new)
  PROVE  PinsTypeOK'
<1>1. parked' \in [Chan -> Driven]
  BY ParkType DEF PinsTypeOK, Change
<1>2. gen' \in 1..GenMax
  BY PinsAssumption DEF PinsTypeOK, Change, ChangeRefused
<1> QED BY <1>1, <1>2, RememberType DEF PinsTypeOK, Change, storeVars

\* A save keeps the types, completed or failed.
LEMMA StoreType ==
  ASSUME PinsTypeOK, Save \/ \E as \in {"none", "unreadable"} : SaveFails(as)
  PROVE  PinsTypeOK'
<1>1. storage' \in [state : StorageState, gen : 0..GenMax]
  BY PinsAssumption DEF PinsTypeOK, Save, SaveFails, StorageState
<1>2. saved' \in [is : {"kept", "none", "unreadable"}, conf : Conf]
  BY PinsAssumption DEF PinsTypeOK, Save, SaveFails
<1> QED BY <1>1, <1>2 DEF PinsTypeOK, Save, SaveFails, setVars

\* A plan that changes stays within what is declared.
LEMMA ApplyType ==
  ASSUME PinsTypeOK, NEW got \in SUBSET Offer, Apply(got)
  PROVE  PinsTypeOK'
<1> DEFINE fns == Regrouped(got)
<1>1. plan' \subseteq Offer
  BY DEF PinsTypeOK, Apply, Replace, Of
<1>2. parked' \in [Chan -> Driven]
  BY ParkType DEF PinsTypeOK, Apply, Replace
<1>3. gpio' \in [Chan -> Driven \cup SetMode \cup {NoMode}]
  BY <1>2 DEF PinsTypeOK, Apply, Replace
<1> QED BY <1>1, <1>2, <1>3, RememberType DEF PinsTypeOK, Apply, setVars, storeVars

\* plan_release keeps the types.
LEMMA ReleaseType ==
  ASSUME PinsTypeOK, NEW fns \in SUBSET Fn, Release(fns)
  PROVE  PinsTypeOK'
<1>1. parked' \in [Chan -> Driven]
  BY ParkType DEF PinsTypeOK, Release
<1>2. gpio' \in [Chan -> Driven \cup SetMode \cup {NoMode}]
  BY DEF PinsTypeOK, Release, Drop
<1> QED BY <1>1, <1>2, RememberType DEF PinsTypeOK, Release, Drop, setVars, storeVars

\* The end of the session keeps the types.
LEMMA SessionEndsType ==
  ASSUME PinsTypeOK, SessionEnds
  PROVE  PinsTypeOK'
<1>1. parked' \in [Chan -> Driven]
  BY ParkType DEF PinsTypeOK, SessionEnds
<1>2. gpio' \in [Chan -> Driven \cup SetMode \cup {NoMode}]
  BY DEF PinsTypeOK, SessionEnds, Drop
<1> QED BY <1>1, <1>2, RememberType DEF PinsTypeOK, SessionEnds, Drop, setVars, storeVars, Held

\* attach, the close of a connection and the reading of holds keep the types.
LEMMA WireType ==
  ASSUME PinsTypeOK,
         HoldsRead \/ (\E p \in Port : Attach(p)) \/ (\E p \in Port, lost \in BOOLEAN : Close(p, lost))
  PROVE  PinsTypeOK'
<1>1. CASE HoldsRead
  <2>1. parked' \in [Chan -> Driven]
    BY <1>1, ParkType DEF PinsTypeOK, HoldsRead
  <2> QED BY <1>1, <2>1, RememberType DEF PinsTypeOK, HoldsRead, setVars, storeVars
<1>2. ASSUME NEW p \in Port, Attach(p) PROVE PinsTypeOK'
  BY <1>2, RememberType DEF PinsTypeOK, Attach, setVars, storeVars
<1>3. ASSUME NEW p \in Port, NEW lost \in BOOLEAN, Close(p, lost) PROVE PinsTypeOK'
  <2>1. parked' \in [Chan -> Driven]
    BY <1>3, ParkType DEF PinsTypeOK, Close
  <2> QED BY <1>3, <2>1, RememberType DEF PinsTypeOK, Close, Held, setVars, storeVars
<1> QED BY <1>1, <1>2, <1>3

\* Every step keeps the types.
LEMMA NextType == PinsTypeOK /\ [Next]_pinVars => PinsTypeOK'
<1> SUFFICES ASSUME PinsTypeOK, [Next]_pinVars PROVE PinsTypeOK'
  OBVIOUS
<1>1. ASSUME NEW f \in Fn, Start(f) \/ Stop(f) PROVE PinsTypeOK'
  BY <1>1 DEF PinsTypeOK, Start, Stop, setVars, storeVars
<1>2. ASSUME NEW ch \in Chan, NEW mode \in SetMode, GpioSet(ch, mode) PROVE PinsTypeOK'
  BY <1>2 DEF PinsTypeOK, GpioSet, setVars, storeVars
<1>3. CASE UNCHANGED pinVars
  BY <1>3 DEF PinsTypeOK, pinVars
<1> QED BY <1>1, <1>2, <1>3, RebootType, ChangeType, StoreType, ApplyType, ReleaseType, WireType,
           SessionEndsType DEF Next

\* The probe's settings, store, plan and pins keep their types: whatever is planned was declared,
\* whatever a pin is left in is a state of a pin.
THEOREM PinsTypeCorrect == Spec => []PinsTypeOK
BY InitType, NextType, PTL DEF Spec

---------------------------------------------------------------------------
(* A plan that is applied. *)

\* The assignments a request leaves alone: those of functions it does not name.
Others(got) == {a \in plan : \A b \in got : b[1] # a[1]}

\* A function whose assignments are the same as before is left as it is, so that the plan becomes
\* the request and what it does not name, whichever functions change.
LEMMA PlanAfterApply ==
  ASSUME PinsTypeOK, NEW got \in SUBSET Offer, Apply(got)
  PROVE  plan' = Others(got) \cup got
<1> DEFINE fns == Regrouped(got)
<1>1. plan' = (plan \ Of(plan, fns)) \cup Of(got, fns)
  BY DEF Apply, Replace, Of
<1>2. \A f \in {a[1] : a \in got} \ fns : Of(plan, {f}) = Of(got, {f})
  BY DEF Regrouped
<1>3. fns \subseteq {a[1] : a \in got}
  BY DEF Regrouped
<1>4. ASSUME NEW a \in plan' PROVE a \in Others(got) \cup got
  <2>1. CASE a \in Of(got, fns)
    BY <2>1 DEF Of
  <2>2. CASE a \in plan \ Of(plan, fns) /\ \E b \in got : b[1] = a[1]
    <3>1. a[1] \in {b[1] : b \in got} \ fns
      BY <2>2 DEF Of
    <3>2. a \in Of(plan, {a[1]})
      BY <2>2 DEF Of
    <3> QED BY <1>2, <3>1, <3>2 DEF Of
  <2>3. CASE a \in plan \ Of(plan, fns) /\ ~(\E b \in got : b[1] = a[1])
    BY <2>3 DEF Others
  <2> QED BY <1>1, <1>4, <2>1, <2>2, <2>3
<1>5. ASSUME NEW a \in Others(got) PROVE a \in plan'
  BY <1>1, <1>3, <1>5 DEF Others, Of
<1>6. ASSUME NEW a \in got PROVE a \in plan'
  <2>1. CASE a[1] \in fns
    BY <1>1, <2>1 DEF Of
  <2>2. CASE a[1] \notin fns
    <3>1. a \in Of(got, {a[1]})
      BY DEF Of
    <3>2. a \in plan
      BY <1>2, <2>2, <3>1 DEF Of
    <3> QED BY <1>1, <2>2, <3>2 DEF Of
  <2> QED BY <2>1, <2>2
<1> QED BY <1>4, <1>5, <1>6

\* What a request that is not refused says of its assignments and their neighbours.
LEMMA ApplyAllows ==
  ASSUME PinsTypeOK, NEW got \in SUBSET Offer, ~ApplyRefused(got)
  PROVE  /\ \A a \in got : Kind[a[1]] = "analog" =>
              /\ a[2] \notin ConnPins(conns) /\ ~OutputIdle(conf, a[2])
              /\ \A b \in got \cup Others(got) : b[2] = a[2] => b[1] = a[1]
         /\ \A a \in got : \A b \in got \cup Others(got) :
              b[2] = a[2] /\ b[1] # a[1] => Kind[b[1]] # "analog"
         /\ \A a \in got : Kind[a[1]] \in {"gpio", "uart"} => a[2] \notin Busy(Others(got), conns)
         /\ ChansOf(got) \cap conf.disabled = {}
<1>1. {a \in plan : a[1] \notin {b[1] : b \in got}} = Others(got)
  BY DEF Others
<1> QED BY <1>1 DEF ApplyRefused

---------------------------------------------------------------------------
(* Pins kept apart. *)

\* Fewer assignments and connections are apart when more of them were.
LEMMA FewerSeparate ==
  ASSUME PinsSeparate, plan' \subseteq plan, conns' \subseteq conns, conf' = conf
  PROVE  PinsSeparate'
<1>1. Using(plan)' \subseteq Using(plan)
  BY DEF Using
<1>2. ConnPins(conns)' \subseteq ConnPins(conns)
  BY DEF ConnPins
<1>3. ChansOf(plan)' \subseteq ChansOf(plan)
  BY DEF ChansOf
<1> QED BY <1>1, <1>2, <1>3 DEF PinsSeparate, ConnsAlone, AnalogAlone, DisabledUnused

\* plan_apply keeps the pins apart: its refusals look at what the request leaves alone.
LEMMA ApplySeparate ==
  ASSUME PinsTypeOK, PinsSeparate, NEW got \in SUBSET Offer, Apply(got)
  PROVE  PinsSeparate'
<1>1. plan' = Others(got) \cup got /\ conns' = conns /\ conf' = conf
  BY PlanAfterApply DEF Apply, setVars
<1>2. Others(got) \subseteq plan
  BY DEF Others
<1>3. ~ApplyRefused(got)
  BY DEF Apply
<1>4. ConnsAlone'
  <2>1. ASSUME NEW a \in got, ~Listens(a[1]) PROVE a[2] \notin ConnPins(conns)
    <3>1. Kind[a[1]] \in {"gpio", "uart", "analog"}
      BY <2>1, PinsAssumption DEF Listens
    <3> QED BY <1>3, <3>1, ApplyAllows DEF Busy
  <2>2. \A a \in plan : ~Listens(a[1]) => a[2] \notin ConnPins(conns)
    BY DEF PinsSeparate, ConnsAlone, Using
  <2>3. ConnPins(conns) \cap Using(plan') = {}
    BY <1>1, <1>2, <2>1, <2>2 DEF Using
  <2> QED BY <1>1, <2>3 DEF PinsSeparate, ConnsAlone
<1>5. AnalogAlone'
  <2> SUFFICES ASSUME NEW a \in plan', NEW b \in plan', Kind[a[1]] = "analog", b[2] = a[2]
               PROVE  b[1] = a[1]
    BY DEF AnalogAlone
  <2>1. CASE a \in got
    BY <1>1, <1>3, <2>1, ApplyAllows
  <2>2. CASE a \in Others(got) /\ b \in got
    BY <1>1, <1>3, <2>2, ApplyAllows
  <2>3. CASE a \in Others(got) /\ b \in Others(got)
    BY <1>2, <2>3 DEF PinsSeparate, AnalogAlone
  <2> QED BY <1>1, <2>1, <2>2, <2>3
<1>6. DisabledUnused'
  <2>1. ChansOf(plan') \subseteq ChansOf(plan) \cup ChansOf(got)
    BY <1>1, <1>2 DEF ChansOf
  <2> QED BY <1>1, <1>3, <2>1, ApplyAllows DEF PinsSeparate, DisabledUnused
<1> QED BY <1>4, <1>5, <1>6 DEF PinsSeparate

\* attach keeps the pins apart: its pins are neither used nor disabled.
LEMMA AttachSeparate ==
  ASSUME PinsTypeOK, PinsSeparate, NEW p \in Port, Attach(p)
  PROVE  PinsSeparate'
<1>1. conns' = conns \cup {p} /\ plan' = plan /\ conf' = conf
  BY DEF Attach, setVars
<1>2. ConnPins(conns') = ConnPins(conns) \cup PinsOf[p]
  BY <1>1 DEF ConnPins
<1>3. PinsOf[p] \cap Using(plan) = {} /\ PinsOf[p] \cap ConnPins(conns) = {}
  BY DEF Attach, Busy
<1>4. \A q \in conns : PinsOf[p] \cap PinsOf[q] = {}
  BY <1>3 DEF ConnPins
<1>5. ConnsAlone'
  BY <1>1, <1>2, <1>3, <1>4 DEF PinsSeparate, ConnsAlone
<1>6. PinsOf[p] \cap conf.disabled = {} /\ PinsOf[p] \cap ChansOf(plan) \subseteq PinsOf[p]
  BY DEF Attach
<1>7. DisabledUnused'
  BY <1>1, <1>2, <1>6 DEF PinsSeparate, DisabledUnused
<1>8. AnalogAlone'
  BY <1>1 DEF PinsSeparate, AnalogAlone
<1> QED BY <1>5, <1>7, <1>8 DEF PinsSeparate

\* A change of the settings disables no channel in use.
LEMMA ChangeSeparate ==
  ASSUME PinsTypeOK, PinsSeparate, NEW new \in Conf, Change(new)
  PROVE  PinsSeparate'
<1>1. plan' = plan /\ conns' = conns /\ conf' = new
  BY DEF Change
<1>2. (new.disabled \ conf.disabled) \cap (ChansOf(plan) \cup ConnPins(conns)) = {}
  BY DEF Change, ChangeRefused
<1>3. new.disabled \cap (ChansOf(plan) \cup ConnPins(conns)) = {}
  BY <1>2 DEF PinsSeparate, DisabledUnused
<1> QED BY <1>1, <1>3 DEF PinsSeparate, ConnsAlone, AnalogAlone, DisabledUnused

\* An empty plan and no connections: nothing to keep apart.
LEMMA NothingSeparate ==
  ASSUME plan = {}, conns = {}
  PROVE  PinsSeparate
BY DEF PinsSeparate, ConnsAlone, AnalogAlone, DisabledUnused, ConnPins, ChansOf

\* Every step keeps the pins apart.
LEMMA NextSeparate == PinsTypeOK /\ PinsSeparate /\ [Next]_pinVars => PinsSeparate'
<1> SUFFICES ASSUME PinsTypeOK, PinsSeparate, [Next]_pinVars PROVE PinsSeparate'
  OBVIOUS
<1>1. ASSUME NEW l \in SUBSET Lackable, Reboot(l) PROVE PinsSeparate'
  BY <1>1 DEF Reboot, PinsSeparate, ConnsAlone, AnalogAlone, DisabledUnused, ConnPins, ChansOf
<1>2. ASSUME NEW fns \in SUBSET Fn, Release(fns) PROVE PinsSeparate'
  BY <1>2, FewerSeparate DEF Release, Drop, setVars
<1>3. ASSUME NEW p \in Port, NEW lost \in BOOLEAN, Close(p, lost) PROVE PinsSeparate'
  BY <1>3, FewerSeparate DEF Close, setVars
<1>4. CASE SessionEnds
  BY <1>4, FewerSeparate DEF SessionEnds, Drop, setVars
<1>5. CASE \/ Save \/ HoldsRead \/ UNCHANGED pinVars
           \/ \E as \in {"none", "unreadable"} : SaveFails(as)
           \/ \E f \in Fn : Start(f) \/ Stop(f)
           \/ \E ch \in Chan, mode \in SetMode : GpioSet(ch, mode)
  <2>1. plan' = plan /\ conns' = conns /\ conf' = conf
    BY <1>5 DEF Save, HoldsRead, SaveFails, Start, Stop, GpioSet, pinVars, setVars
  <2> QED BY <2>1, FewerSeparate
<1> QED BY <1>1, <1>2, <1>3, <1>4, <1>5, ChangeSeparate, ApplySeparate, AttachSeparate DEF Next

\* Connections have their pins for themselves, an analog shares its pad with nothing, and nobody
\* uses a disabled channel: for every set of functions, ports and settings.
THEOREM PinsKeptApart == Spec => []PinsSeparate
<1>1. Init => PinsSeparate
  BY NothingSeparate DEF Init
<1> QED BY <1>1, NextSeparate, PinsTypeCorrect, PTL DEF Spec
---------------------------------------------------------------------------
(* Output idles and analog pads. *)

\* A plan that is applied puts an analog on no pin with an output idle.
LEMMA ApplyPadsSafe ==
  ASSUME PinsTypeOK, AnalogPadsSafe, NEW got \in SUBSET Offer, Apply(got)
  PROVE  AnalogPadsSafe'
<1>1. plan' = Others(got) \cup got /\ conf' = conf
  BY PlanAfterApply DEF Apply, setVars
<1>2. ASSUME NEW a \in plan', Kind[a[1]] = "analog" PROVE ~OutputIdle(conf, a[2])
  <2>1. CASE a \in got
    BY <1>2, <2>1, ApplyAllows DEF Apply
  <2>2. CASE a \in Others(got)
    BY <1>2, <2>2 DEF Others, AnalogPadsSafe, AnalogPins
  <2> QED BY <1>1, <2>1, <2>2
<1>3. AnalogPins' = {a[2] : a \in {b \in plan' : Kind[b[1]] = "analog"}}
  BY DEF AnalogPins
<1>4. \A ch \in AnalogPins' : ~OutputIdle(conf, ch)
  BY <1>2, <1>3
<1> QED BY <1>1, <1>4 DEF AnalogPadsSafe, OutputIdle

\* A change of the settings gives no analog's pad an output idle.
LEMMA ChangePadsSafe ==
  ASSUME PinsTypeOK, AnalogPadsSafe, NEW new \in Conf, Change(new)
  PROVE  AnalogPadsSafe'
<1>1. AnalogPins' = AnalogPins /\ conf' = new
  BY DEF Change, AnalogPins
<1>2. AnalogPins \subseteq Chan
  BY PinsAssumption DEF PinsTypeOK, AnalogPins
<1>3. ASSUME NEW ch \in AnalogPins PROVE ~OutputIdle(new, ch)
  <2>1. CASE ch \in Changed(conf, new)
    BY <2>1 DEF Change, ChangeRefused
  <2>2. CASE ch \notin Changed(conf, new)
    BY <1>2, <2>2 DEF Changed, OutputIdle, AnalogPadsSafe
  <2> QED BY <2>1, <2>2
<1> QED BY <1>1, <1>3 DEF AnalogPadsSafe, OutputIdle

\* Fewer assignments are safe when more of them were.
LEMMA FewerPadsSafe ==
  ASSUME AnalogPadsSafe, plan' \subseteq plan, conf' = conf
  PROVE  AnalogPadsSafe'
BY DEF AnalogPadsSafe, AnalogPins, OutputIdle

\* Every step keeps an output idle off the analogs' pads.
LEMMA NextPadsSafe == PinsTypeOK /\ AnalogPadsSafe /\ [Next]_pinVars => AnalogPadsSafe'
<1> SUFFICES ASSUME PinsTypeOK, AnalogPadsSafe, [Next]_pinVars PROVE AnalogPadsSafe'
  OBVIOUS
<1>1. ASSUME NEW l \in SUBSET Lackable, Reboot(l) PROVE AnalogPadsSafe'
  BY <1>1 DEF Reboot, AnalogPadsSafe, AnalogPins
<1>2. ASSUME NEW fns \in SUBSET Fn, Release(fns) PROVE AnalogPadsSafe'
  BY <1>2, FewerPadsSafe DEF Release, Drop, setVars
<1>3. CASE SessionEnds
  BY <1>3, FewerPadsSafe DEF SessionEnds, Drop, setVars
<1>4. CASE \/ Save \/ HoldsRead \/ UNCHANGED pinVars
           \/ \E as \in {"none", "unreadable"} : SaveFails(as)
           \/ \E f \in Fn : Start(f) \/ Stop(f)
           \/ \E ch \in Chan, mode \in SetMode : GpioSet(ch, mode)
           \/ \E p \in Port : Attach(p)
           \/ \E p \in Port, lost \in BOOLEAN : Close(p, lost)
  <2>1. plan' = plan /\ conf' = conf
    BY <1>4 DEF Save, HoldsRead, SaveFails, Start, Stop, GpioSet, Attach, Close, pinVars, setVars
  <2> QED BY <2>1, FewerPadsSafe
<1> QED BY <1>1, <1>2, <1>3, <1>4, ChangePadsSafe, ApplyPadsSafe DEF Next

\* An analog's pad never has an output idle, whichever of the two is asked for second.
THEOREM PadsKeptSafe == Spec => []AnalogPadsSafe
<1>1. Init => AnalogPadsSafe
  BY DEF Init, AnalogPadsSafe, AnalogPins
<1> QED BY <1>1, NextPadsSafe, PinsTypeCorrect, PTL DEF Spec

\* Both together: plans, connections, disables and idles never meet on a pin that cannot have both.
THEOREM PinsKeptSafe == Spec => []PinsSafe
<1>1. PinsSeparate /\ AnalogPadsSafe => PinsSafe
  BY DEF PinsSafe
<1> QED BY <1>1, PinsKeptApart, PadsKeptSafe, PTL

---------------------------------------------------------------------------
(* What runs keeps its pins. *)

\* plan_apply leaves every function that runs its assignments, named in the request or not.
LEMMA ApplyKeeps ==
  ASSUME PinsTypeOK, NEW got \in SUBSET Offer, Apply(got), NEW f \in running
  PROVE  Of(plan', {f}) = Of(plan, {f})
<1>1. f \notin Regrouped(got)
  BY DEF Apply, PlanChangeRefused
<1>2. plan' = (plan \ Of(plan, Regrouped(got))) \cup Of(got, Regrouped(got))
  BY DEF Apply, Replace, Of
<1> QED BY <1>1, <1>2 DEF Of

\* What a release or the session's end takes the pins of does not run after it.
LEMMA DropKeeps ==
  ASSUME NEW fns, Drop(fns), NEW f \in running'
  PROVE  Of(plan', {f}) = Of(plan, {f})
BY DEF Drop, Of

\* A function that goes on running has after every step the pins it had before, whatever is planned,
\* released, set or saved beside it: for every set of functions and ports.
THEOREM RunningKept == Spec => RunningKeepsPins
<1>1. ASSUME PinsTypeOK, [Next]_pinVars, NEW f \in running \cap running'
      PROVE  Of(plan', {f}) = Of(plan, {f})
  <2>1. ASSUME NEW l \in SUBSET Lackable, Reboot(l) PROVE FALSE
    BY <1>1, <2>1 DEF Reboot
  <2>2. ASSUME NEW fns \in SUBSET Fn, Release(fns) PROVE Of(plan', {f}) = Of(plan, {f})
    BY <2>2, DropKeeps DEF Release
  <2>3. CASE SessionEnds
    BY <2>3, DropKeeps DEF SessionEnds
  <2>4. ASSUME NEW got \in SUBSET Offer, Apply(got) PROVE Of(plan', {f}) = Of(plan, {f})
    BY <1>1, <2>4, ApplyKeeps
  <2>5. CASE \/ Save \/ HoldsRead \/ UNCHANGED pinVars
             \/ \E as \in {"none", "unreadable"} : SaveFails(as)
             \/ \E new \in Conf : Change(new)
             \/ \E g \in Fn : Start(g) \/ Stop(g)
             \/ \E ch \in Chan, mode \in SetMode : GpioSet(ch, mode)
             \/ \E p \in Port : Attach(p)
             \/ \E p \in Port, lost \in BOOLEAN : Close(p, lost)
    <3>1. plan' = plan
      BY <2>5 DEF Save, HoldsRead, SaveFails, Change, Start, Stop, GpioSet, Attach, Close, pinVars
    <3> QED BY <3>1
  <2> QED BY <1>1, <2>1, <2>2, <2>3, <2>4, <2>5 DEF Next
<1>2. PinsTypeOK /\ [Next]_pinVars =>
        [\A f \in running \cap running' : Of(plan', {f}) = Of(plan, {f})]_pinVars
  BY <1>1
<1> QED BY <1>2, PinsTypeCorrect, PTL DEF Spec, RunningKeepsPins
---------------------------------------------------------------------------
(* Saved settings come back. *)

\* Settings as the probe accepts them: a disabled channel has no idle item.
Clean(c) == \A ch \in c.disabled : c.idle[ch] = NoIdle

\* What a save is worth: settings that need none are the store's; the settings are ones this firmware
\* takes, the store's are ones a firmware could take, and state never tells of a later generation.
StoreInv ==
  /\ storage.gen <= gen
  /\ ~NeedsSave => saved.is = "kept" /\ saved.conf = conf
  /\ Clean(conf) /\ Clean(saved.conf)
  /\ lacks \subseteq Lackable /\ Fits(conf, lacks)

\* Of settings it can take in full a firmware takes everything.
LEMMA TakenSame ==
  ASSUME NEW c \in Conf, NEW l, Clean(c), Fits(c, l)
  PROVE  Taken(c, l) = c
<1>1. [ch \in Chan |-> IF ch \in c.disabled \/ <<ch, c.idle[ch]>> \in l THEN NoIdle ELSE c.idle[ch]] = c.idle
  BY DEF Conf, Clean, Fits
<1> QED BY <1>1 DEF Taken, Conf

\* What a firmware took, it can take.
LEMMA TakenFits ==
  ASSUME NEW c \in Conf, NEW l \in SUBSET Lackable
  PROVE  Clean(Taken(c, l)) /\ Fits(Taken(c, l), l)
<1> DEFINE idle == [ch \in Chan |-> IF ch \in c.disabled \/ <<ch, c.idle[ch]>> \in l THEN NoIdle ELSE c.idle[ch]]
<1>1. Taken(c, l).disabled = c.disabled /\ Taken(c, l).idle = idle
  BY DEF Taken, Conf
<1>2. \A ch \in Chan : <<ch, NoIdle>> \notin l
  BY PinsAssumption
<1>3. Fits(Taken(c, l), l)
  BY <1>1, <1>2 DEF Fits
<1>4. Clean(Taken(c, l))
  BY <1>1 DEF Clean, Conf
<1> QED BY <1>3, <1>4

\* A boot establishes it, from every store.
LEMMA BootStore ==
  ASSUME NEW s \in [is : {"kept", "none", "unreadable"}, conf : Conf], Clean(s.conf),
         NEW l \in SUBSET Lackable
  PROVE  /\ Boot(s, l) \in Conf /\ Clean(Boot(s, l)) /\ Fits(Boot(s, l), l)
         /\ BootStorage(s, l).gen <= 1
         /\ BootStorage(s, l).state = "applied" => s.is = "kept" /\ s.conf = Boot(s, l)
<1>1. Initial \in Conf
  BY PinsAssumption
<1>2. Boot(s, l) \in Conf /\ Clean(Boot(s, l)) /\ Fits(Boot(s, l), l)
  BY <1>1, TakenFits, TakenType DEF Boot
<1>3. BootStorage(s, l).gen <= 1
  BY DEF BootStorage
<1>4. BootStorage(s, l).state = "applied" => s.is = "kept" /\ Fits(s.conf, l)
  BY DEF BootStorage
<1>5. BootStorage(s, l).state = "applied" => s.is = "kept" /\ s.conf = Boot(s, l)
  BY <1>4, TakenSame DEF Boot
<1> QED BY <1>2, <1>3, <1>5

\* A change is one this firmware takes, and makes the generation later than the one saved.
LEMMA ChangeStore ==
  ASSUME PinsTypeOK, StoreInv, NEW new \in Conf, Change(new)
  PROVE  StoreInv'
<1>1. conf' = new /\ gen' = gen + 1 /\ storage' = storage /\ saved' = saved /\ lacks' = lacks
  BY DEF Change, storeVars
<1>2. storage.gen \in Int /\ gen \in Int /\ storage.gen <= gen
  BY PinsAssumption DEF PinsTypeOK, StoreInv
<1>3. NeedsSave' /\ storage'.gen <= gen'
  BY <1>1, <1>2 DEF NeedsSave
<1>4. Clean(new)
  BY DEF Change, ChangeRefused, Clean
<1>5. Fits(new, lacks)
  <2> SUFFICES ASSUME NEW ch \in Chan PROVE <<ch, new.idle[ch]>> \notin lacks
    BY DEF Fits
  <2>1. CASE ch \notin Changed(conf, new)
    BY <2>1 DEF Changed, StoreInv, Fits
  <2>2. CASE ch \in Changed(conf, new) /\ BySet(new)
    BY <2>2 DEF BySet
  <2>3. CASE ch \in Changed(conf, new) /\ ByUnset(new)
    BY <2>3, PinsAssumption DEF ByUnset, StoreInv
  <2> QED BY <2>1, <2>2, <2>3 DEF Change
<1>6. Clean(conf') /\ Clean(saved') = Clean(saved') /\ Fits(conf', lacks')
  BY <1>1, <1>4, <1>5
<1> QED BY <1>1, <1>3, <1>6 DEF StoreInv, Clean, Fits

\* A save stores the settings of the generation it tells of; a failed one tells of none.
LEMMA SaveStore ==
  ASSUME PinsTypeOK, StoreInv, Save \/ \E as \in {"none", "unreadable"} : SaveFails(as)
  PROVE  StoreInv'
<1>1. conf' = conf /\ gen' = gen /\ lacks' = lacks
  BY DEF Save, SaveFails, setVars
<1>2. gen \in Int /\ 1 <= gen
  BY PinsAssumption DEF PinsTypeOK
<1>3. Clean(Initial)
  BY PinsAssumption DEF Clean
<1>4. CASE Save
  <2>1. saved' = [is |-> "kept", conf |-> conf] /\ storage' = [state |-> "applied", gen |-> gen]
    BY <1>4 DEF Save
  <2> QED BY <1>1, <1>2, <2>1 DEF StoreInv, NeedsSave, Clean, Fits
<1>5. ASSUME NEW as \in {"none", "unreadable"}, SaveFails(as) PROVE StoreInv'
  <2>1. saved' = [is |-> as, conf |-> Initial] /\ storage' = [state |-> as, gen |-> 0]
    BY <1>5 DEF SaveFails
  <2>2. saved'.conf = Initial /\ storage'.state = as /\ storage'.gen = 0
    BY <2>1
  <2>3. as # "applied"
    OBVIOUS
  <2>4. storage'.gen <= gen
    BY <1>2, <2>2, SMT
  <2>5. NeedsSave'
    BY <2>2, <2>3 DEF NeedsSave
  <2> QED BY <1>1, <1>3, <2>2, <2>4, <2>5 DEF StoreInv, Clean, Fits
<1> QED BY <1>4, <1>5

\* A restart re-establishes what a save is worth, with the same firmware or another.
LEMMA RebootStore ==
  ASSUME PinsTypeOK, StoreInv, NEW l \in SUBSET Lackable, Reboot(l)
  PROVE  StoreInv'
<1>1. /\ conf' = Boot(saved, l) /\ gen' = 1 /\ storage' = BootStorage(saved, l)
      /\ saved' = saved /\ lacks' = l
  BY DEF Reboot
<1>2. saved \in [is : {"kept", "none", "unreadable"}, conf : Conf] /\ Clean(saved.conf)
  BY DEF PinsTypeOK, StoreInv
<1> QED BY <1>1, <1>2, BootStore DEF StoreInv, NeedsSave, Clean, Fits

\* Every step keeps what a save is worth.
LEMMA NextStore == PinsTypeOK /\ StoreInv /\ [Next]_pinVars => StoreInv'
<1> SUFFICES ASSUME PinsTypeOK, StoreInv, [Next]_pinVars PROVE StoreInv'
  OBVIOUS
<1>1. ASSUME UNCHANGED <<conf, gen, saved, storage, lacks>> PROVE StoreInv'
  BY <1>1 DEF StoreInv, NeedsSave, Clean, Fits
<1>2. CASE HoldsRead \/ SessionEnds
  BY <1>1, <1>2 DEF HoldsRead, SessionEnds, setVars, storeVars
<1>6. ASSUME NEW got \in SUBSET Offer, Apply(got) PROVE StoreInv'
  BY <1>1, <1>6 DEF Apply, setVars, storeVars
<1>7. ASSUME NEW fns \in SUBSET Fn, Release(fns) PROVE StoreInv'
  BY <1>1, <1>7 DEF Release, setVars, storeVars
<1>3. CASE UNCHANGED pinVars
  BY <1>1, <1>3 DEF pinVars
<1>4. CASE \/ \E f \in Fn : Start(f) \/ Stop(f)
           \/ \E ch \in Chan, mode \in SetMode : GpioSet(ch, mode)
  BY <1>1, <1>4 DEF Start, Stop, GpioSet, setVars, storeVars
<1>5. CASE \/ \E p \in Port : Attach(p)
           \/ \E p \in Port, lost \in BOOLEAN : Close(p, lost)
  BY <1>1, <1>5 DEF Attach, Close, setVars, storeVars
<1> QED BY <1>2, <1>3, <1>4, <1>5, <1>6, <1>7, ChangeStore, SaveStore, RebootStore DEF Next

\* Before the first change there is nothing to save and nothing saved.
LEMMA InitStore == Init => StoreInv
<1> SUFFICES ASSUME Init PROVE StoreInv
  OBVIOUS
<1>1. /\ saved = [is |-> "none", conf |-> Initial] /\ lacks \in SUBSET Lackable
      /\ conf = Boot(saved, lacks) /\ gen = 1 /\ storage = BootStorage(saved, lacks)
  BY DEF Init
<1>2. saved \in [is : {"kept", "none", "unreadable"}, conf : Conf] /\ Clean(saved.conf)
  BY <1>1, PinsAssumption DEF Clean
<1> QED BY <1>1, <1>2, BootStore DEF StoreInv, NeedsSave

\* Settings that need no save are what a restart of the same firmware gives back: whatever was
\* changed, saved and lost before, for every limit of the generation and of the store.
THEOREM SaveBringsBack == Spec => SavedComesBack
<1>1. ASSUME PinsTypeOK, StoreInv, ~NeedsSave, Reboot(lacks) PROVE conf' = conf
  <2>1. conf \in Conf /\ Clean(conf) /\ Fits(conf, lacks) /\ saved.is = "kept" /\ saved.conf = conf
    BY <1>1 DEF PinsTypeOK, StoreInv
  <2>2. Taken(conf, lacks) = conf
    BY <2>1, TakenSame
  <2> QED BY <1>1, <2>1, <2>2 DEF Reboot, Boot
<1>2. PinsTypeOK /\ StoreInv => [~NeedsSave /\ Reboot(lacks) => conf' = conf]_pinVars
  BY <1>1
<1> QED BY <1>2, InitStore, NextStore, PinsTypeCorrect, PTL DEF Spec, SavedComesBack
---------------------------------------------------------------------------
(* A free pin is where its idle item puts it. *)

\* Every wire's pins are one, as an SDI's is. A hold over two ends as a whole and parks only the pins
\* that nobody has then: the other's idle item may be gone by the time it is free (held_ports, 2511).
OnePinPorts == \A p \in Port : \E ch \in Chan : PinsOf[p] = {ch}

\* A pin that is parked is in its idle state, the others where they were.
LEMMA ParkLeaves ==
  ASSUME NEW chs, NEW c, NEW pl, NEW cs, NEW ch \in Chan, ch \notin c.disabled, ch \notin Busy(pl, cs)
  PROVE  Park(chs, c, pl, cs)[ch] = IF ch \in chs THEN IdleState(c, ch) ELSE parked[ch]
BY DEF Park

\* A pin outside of plan and connections is used by nobody.
LEMMA UnusedIsNotBusy ==
  ASSUME NEW pl, NEW cs, NEW ch, ch \notin ChansOf(pl), ch \notin ConnPins(cs)
  PROVE  ch \notin Busy(pl, cs)
BY DEF Busy, Using, ChansOf

\* A change of the settings moves the free pins whose idle it changes.
LEMMA ChangeParks ==
  ASSUME PinsTypeOK, ParkedAtIdle, NEW new \in Conf, Change(new)
  PROVE  ParkedAtIdle'
<1>1. /\ conf' = new /\ plan' = plan /\ conns' = conns /\ holds' = holds
      /\ parked' = Park(Repark(new), new, plan, conns)
  BY DEF Change
<1> SUFFICES ASSUME NEW ch \in Free' PROVE parked'[ch] = IdleState(conf', ch)
  BY DEF ParkedAtIdle, IdleState
<1>2. /\ ch \in Chan /\ ch \notin new.disabled /\ ch \notin ChansOf(plan)
      /\ ch \notin ConnPins(conns \cup holds) /\ ch \notin ConnPins(conns)
  BY <1>1 DEF Free, ConnPins, ChansOf
<1>3. parked'[ch] = IF ch \in Repark(new) THEN IdleState(new, ch) ELSE parked[ch]
  BY <1>1, <1>2, ParkLeaves, UnusedIsNotBusy
<1>4. CASE ch \notin Repark(new)
  <2>1. ch \notin conf.disabled /\ conf.idle[ch] = new.idle[ch]
    BY <1>2, <1>4 DEF Repark, Changed
  <2>2. parked[ch] = IdleState(conf, ch)
    BY <1>2, <2>1 DEF ParkedAtIdle, Free
  <2> QED BY <1>1, <1>3, <1>4, <2>1, <2>2 DEF IdleState
<1> QED BY <1>1, <1>3, <1>4

\* What leaves a plan or a connection is parked, what stays free stays parked.
LEMMA UsersPark ==
  ASSUME ParkedAtIdle, conf' = conf, NEW chs,
         parked' = Park(chs, conf, plan', conns'),
         \A ch \in Free' \ chs : ch \in Free
  PROVE  ParkedAtIdle'
<1> SUFFICES ASSUME NEW ch \in Free' PROVE parked'[ch] = IdleState(conf', ch)
  BY DEF ParkedAtIdle, IdleState
<1>1. /\ ch \in Chan /\ ch \notin conf.disabled /\ ch \notin ChansOf(plan')
      /\ ch \notin ConnPins(conns')
  BY DEF Free, ConnPins, ChansOf
<1>2. ch \notin Busy(plan', conns')
  BY <1>1, UnusedIsNotBusy
<1>3. parked'[ch] = IF ch \in chs THEN IdleState(conf, ch) ELSE parked[ch]
  BY <1>1, <1>2, ParkLeaves
<1>4. ch \notin chs => parked[ch] = IdleState(conf, ch)
  BY DEF ParkedAtIdle
<1> QED BY <1>3, <1>4

\* plan_apply parks the pins of the assignments that go.
LEMMA ApplyParks ==
  ASSUME PinsTypeOK, ParkedAtIdle, NEW got \in SUBSET Offer, Apply(got)
  PROVE  ParkedAtIdle'
<1> DEFINE old == Of(plan, Regrouped(got))
           new == Of(got, Regrouped(got))
           stay == (plan \ old) \cup (old \cap new)
           gone == ChansOf(old \ new)
<1>1. /\ conf' = conf /\ conns' = conns /\ holds' = holds
      /\ plan' = stay \cup new /\ parked' = Park(gone, conf, stay, conns)
  BY DEF Apply, Replace, setVars, Of
<1> SUFFICES ASSUME NEW ch \in Free' PROVE parked'[ch] = IdleState(conf', ch)
  BY DEF ParkedAtIdle, IdleState
<1>2. /\ ch \in Chan /\ ch \notin conf.disabled /\ ch \notin ChansOf(plan')
      /\ ch \notin ConnPins(conns \cup holds) /\ ch \notin ConnPins(conns)
  BY <1>1 DEF Free, ConnPins, ChansOf
<1>3. ch \notin Busy(stay, conns)
  BY <1>1, <1>2, UnusedIsNotBusy DEF ChansOf
<1>4. parked'[ch] = IF ch \in gone THEN IdleState(conf, ch) ELSE parked[ch]
  BY <1>1, <1>2, <1>3, ParkLeaves
<1>5. CASE ch \notin gone
  <2>1. ch \notin ChansOf(plan)
    BY <1>1, <1>2, <1>5 DEF ChansOf
  <2> QED BY <1>1, <1>2, <1>4, <1>5, <2>1 DEF ParkedAtIdle, Free
<1> QED BY <1>1, <1>4, <1>5

\* A connection that closes leaves its pin held or parked.
LEMMA CloseParks ==
  ASSUME ParkedAtIdle, NEW p \in Port, NEW lost \in BOOLEAN, Close(p, lost)
  PROVE  ParkedAtIdle'
<1> DEFINE chs == ConnPins({p} \ Held({p}, lost))
<1>1. /\ conf' = conf /\ plan' = plan /\ conns' = conns \ {p} /\ holds' = holds \cup Held({p}, lost)
      /\ parked' = Park(chs, conf, plan', conns')
  BY DEF Close, setVars
<1>2. ASSUME NEW ch \in Free' \ chs PROVE ch \in Free
  <2>1. ch \notin PinsOf[p]
    BY <1>1, <1>2 DEF Free, ConnPins, Held
  <2> QED BY <1>1, <1>2, <2>1 DEF Free, ConnPins
<1> QED BY <1>1, <1>2, UsersPark

\* A hold that ended leaves its pin parked, if nobody has it; what has it parks it later.
LEMMA HoldsPark ==
  ASSUME PinsTypeOK, OnePinPorts, ParkedAtIdle, HoldsRead
  PROVE  ParkedAtIdle'
<1> DEFINE over == {p \in holds : Ends(conf, plan, conns, p)}
           chs == ConnPins({p \in over : PinsOf[p] \cap Busy(plan, conns) = {}})
<1>1. /\ conf' = conf /\ plan' = plan /\ conns' = conns /\ holds' = holds \ over
      /\ parked' = Park(chs, conf, plan', conns')
  BY DEF HoldsRead, setVars
<1>2. ASSUME NEW ch \in Free' \ chs PROVE ch \in Free
  <2>1. ch \notin Busy(plan, conns)
    BY <1>1, <1>2, UnusedIsNotBusy DEF Free, ConnPins
  <2>2. ASSUME NEW p \in over PROVE ch \notin PinsOf[p]
    <3>1. p \in Port
      BY DEF PinsTypeOK
    <3>2. CASE ch \in PinsOf[p]
      <4>1. PinsOf[p] = {ch}
        BY <3>1, <3>2 DEF OnePinPorts
      <4>2. PinsOf[p] \cap Busy(plan, conns) = {}
        BY <2>1, <4>1
      <4> QED BY <1>2, <3>2, <4>2 DEF ConnPins
    <3> QED BY <3>2
  <2> QED BY <1>1, <1>2, <2>2 DEF Free, ConnPins
<1> QED BY <1>1, <1>2, UsersPark

\* A release parks the pins of what it drops, the session's end those of everything that is not held.
LEMMA DropParks ==
  ASSUME PinsTypeOK, ParkedAtIdle, SessionEnds \/ \E fns \in SUBSET Fn : Release(fns)
  PROVE  ParkedAtIdle'
<1>1. ASSUME NEW fns \in SUBSET Fn, Release(fns) PROVE ParkedAtIdle'
  <2> DEFINE chs == ChansOf(Of(plan, fns))
  <2>1. /\ conf' = conf /\ plan' = plan \ Of(plan, fns) /\ conns' = conns /\ holds' = holds
        /\ parked' = Park(chs, conf, plan', conns')
    BY <1>1 DEF Release, Drop, setVars
  <2>2. \A ch \in Free' \ chs : ch \in Free
    BY <2>1 DEF Free, ChansOf
  <2> QED BY <2>1, <2>2, UsersPark
<1>2. CASE SessionEnds
  <2> DEFINE chs == (ChansOf(plan) \cup ConnPins(conns)) \ ConnPins(Held(conns, FALSE))
  <2>1. plan' = {}
    BY <1>2, PinsAssumption DEF SessionEnds, Drop, Of, PinsTypeOK
  <2>2. /\ conf' = conf /\ conns' = {} /\ holds' = holds \cup Held(conns, FALSE)
        /\ parked' = Park(chs, conf, plan', conns')
    BY <1>2, <2>1 DEF SessionEnds, setVars
  <2>3. ASSUME NEW ch \in Free' \ chs PROVE ch \in Free
    <3>1. ch \in Chan \ conf.disabled /\ ch \notin ConnPins(holds) /\ ch \notin ConnPins(Held(conns, FALSE))
      BY <2>2, <2>3 DEF Free, ConnPins
    <3>2. ch \notin ChansOf(plan) /\ ch \notin ConnPins(conns)
      BY <2>3, <3>1
    <3> QED BY <3>1, <3>2 DEF Free, ConnPins
  <2> QED BY <2>2, <2>3, UsersPark
<1> QED BY <1>1, <1>2

\* Every step leaves the free pins in their idle state.
LEMMA NextParks == OnePinPorts /\ PinsTypeOK /\ ParkedAtIdle /\ [Next]_pinVars => ParkedAtIdle'
<1> SUFFICES ASSUME OnePinPorts, PinsTypeOK, ParkedAtIdle, [Next]_pinVars PROVE ParkedAtIdle'
  OBVIOUS
<1>1. ASSUME NEW l \in SUBSET Lackable, Reboot(l) PROVE ParkedAtIdle'
  <2>1. parked' = BootPark(conf')
    BY <1>1 DEF Reboot
  <2> QED BY <2>1 DEF ParkedAtIdle, Free, BootPark, IdleState
<1>2. ASSUME NEW p \in Port, Attach(p) PROVE ParkedAtIdle'
  BY <1>2 DEF Attach, setVars, ParkedAtIdle, Free, ConnPins, IdleState
<1>3. ASSUME UNCHANGED <<conf, plan, parked, conns, holds>> PROVE ParkedAtIdle'
  BY <1>3 DEF ParkedAtIdle, Free, IdleState
<1>4. CASE Save \/ UNCHANGED pinVars \/ \E as \in {"none", "unreadable"} : SaveFails(as)
  BY <1>3, <1>4 DEF Save, SaveFails, pinVars, setVars
<1>5. CASE \/ \E f \in Fn : Start(f) \/ Stop(f)
           \/ \E ch \in Chan, mode \in SetMode : GpioSet(ch, mode)
  BY <1>3, <1>5 DEF Start, Stop, GpioSet, setVars
<1> QED BY <1>1, <1>2, <1>4, <1>5, ChangeParks, ApplyParks, CloseParks, HoldsPark, DropParks DEF Next

\* Where every wire has one pin, a pin that nobody uses, holds or has disabled is in its idle state,
\* in whatever order it was planned, connected, held and set.
THEOREM PinsParked ==
  ASSUME OnePinPorts
  PROVE  Spec => []ParkedAtIdle
<1>1. Init => ParkedAtIdle
  BY DEF Init, ParkedAtIdle, Free, BootPark, IdleState
<1>2. PinsTypeOK /\ ParkedAtIdle /\ [Next]_pinVars => ParkedAtIdle'
  BY NextParks
<1> QED BY <1>1, <1>2, PinsTypeCorrect, PTL DEF Spec
---------------------------------------------------------------------------
(* A gpio's lines. *)

\* One function of the probe is a gpio.
OneGpio == \A f, g \in Fn : Kind[f] = "gpio" /\ Kind[g] = "gpio" => f = g

\* A plan that drops functions leaves the lines of a gpio that keeps them.
LEMMA DropKeepsLine ==
  ASSUME OneGpio, PinsTypeOK, NEW fns, Drop(fns), NEW ch \in Chan,
         GpioLine(ch), GpioLine(ch)', ~Shared(ch)
  PROVE  gpio'[ch] = gpio[ch]
<1>1. PICK g \in Fn : Kind[g] = "gpio" /\ <<g, ch>> \in plan'
  BY DEF GpioLine
<1>2. g \notin fns
  BY <1>1 DEF Drop, Of
<1>3. ASSUME NEW b \in plan, b[2] = ch PROVE b[1] = g
  <2>1. b[1] \in Fn /\ Kind[b[1]] = "gpio"
    BY <1>3, PinsAssumption DEF Shared, PinsTypeOK
  <2> QED BY <1>1, <2>1 DEF OneGpio
<1>4. ch \notin ChansOf(Of(plan, fns))
  BY <1>2, <1>3 DEF ChansOf, Of
<1> QED BY <1>4 DEF Drop

\* plan_apply takes the lines anew that it adds, and ends those it takes away; no others.
LEMMA ApplyKeepsLine ==
  ASSUME OneGpio, PinsTypeOK, NEW got \in SUBSET Offer, Apply(got), NEW ch \in Chan,
         GpioLine(ch), GpioLine(ch)', ~Shared(ch)
  PROVE  gpio'[ch] = gpio[ch]
<1> DEFINE fns == Regrouped(got)
           old == Of(plan, fns)
           new == Of(got, fns)
           keeps == KeptLines(old, new)
           lines == {a[2] : a \in {b \in new : Kind[b[1]] = "gpio"}} \ keeps
<1>1. PICK g \in Fn : Kind[g] = "gpio" /\ <<g, ch>> \in plan
  BY DEF GpioLine
<1>2. \A f \in Fn : Kind[f] = "gpio" => f = g
  BY <1>1 DEF OneGpio
<1>3. <<g, ch>> \in plan'
  BY <1>2 DEF GpioLine
<1>4. \A b \in plan : b[2] = ch => b[1] = g
  BY <1>2, PinsAssumption DEF Shared, PinsTypeOK
<1>5. gpio'[ch] = IF ch \in lines /\ parked'[ch] # HiZ THEN parked'[ch]
                  ELSE IF ch \in ChansOf(old) \ keeps THEN NoMode ELSE gpio[ch]
  BY DEF Apply, Replace
<1>6. plan' = (plan \ old) \cup new
  BY DEF Apply, Replace, Of
<1>7. ASSUME ch \in lines PROVE FALSE
  <2>1. PICK b \in new : Kind[b[1]] = "gpio" /\ b[2] = ch
    BY <1>7
  <2>2. b \in Offer /\ b[1] = g /\ b = <<g, ch>>
    BY <1>2, <2>1, PinsAssumption DEF Of
  <2>3. b \in old
    BY <1>1, <2>2 DEF Of
  <2> QED BY <1>7, <2>1, <2>3 DEF KeptLines
<1>8. ASSUME ch \in ChansOf(old) \ keeps PROVE FALSE
  <2>1. g \in fns
    BY <1>4, <1>8 DEF ChansOf, Of
  <2>2. <<g, ch>> \in old /\ <<g, ch>> \in new
    BY <1>1, <1>3, <1>6, <2>1 DEF Of
  <2> QED BY <1>1, <1>8, <2>2 DEF KeptLines
<1> QED BY <1>5, <1>7, <1>8

\* Where one function is the gpio, a line its plan keeps and nobody shares stays as the gpio set it:
\* for every set of other functions, ports and settings.
THEOREM LineKept ==
  ASSUME OneGpio
  PROVE  Spec => GpioKeepsLine
<1>1. ASSUME PinsTypeOK, [Next]_pinVars, NEW ch \in Chan, GpioLine(ch), GpioLine(ch)', ~Shared(ch)
      PROVE  gpio'[ch] = gpio[ch] \/ Set(ch)
  <2>1. ASSUME NEW l \in SUBSET Lackable, Reboot(l) PROVE FALSE
    BY <1>1, <2>1 DEF Reboot, GpioLine
  <2>2. ASSUME NEW fns \in SUBSET Fn, Release(fns) PROVE gpio'[ch] = gpio[ch]
    BY <1>1, <2>2, DropKeepsLine DEF Release
  <2>3. CASE SessionEnds
    BY <1>1, <2>3, DropKeepsLine DEF SessionEnds
  <2>4. ASSUME NEW got \in SUBSET Offer, Apply(got) PROVE gpio'[ch] = gpio[ch]
    BY <1>1, <2>4, ApplyKeepsLine
  <2>5. ASSUME NEW c \in Chan, NEW mode \in SetMode, GpioSet(c, mode) PROVE gpio'[ch] = gpio[ch] \/ Set(ch)
    <3>1. CASE c = ch
      BY <2>5, <3>1 DEF Set
    <3>2. CASE c # ch
      BY <1>1, <2>5, <3>2 DEF GpioSet, PinsTypeOK
    <3> QED BY <3>1, <3>2
  <2>6. CASE \/ Save \/ HoldsRead \/ UNCHANGED pinVars
             \/ \E as \in {"none", "unreadable"} : SaveFails(as)
             \/ \E new \in Conf : Change(new)
             \/ \E g \in Fn : Start(g) \/ Stop(g)
             \/ \E p \in Port : Attach(p)
             \/ \E p \in Port, lost \in BOOLEAN : Close(p, lost)
    <3>1. gpio' = gpio
      BY <2>6 DEF Save, HoldsRead, SaveFails, Change, Start, Stop, Attach, Close, pinVars
    <3> QED BY <3>1
  <2> QED BY <1>1, <2>1, <2>2, <2>3, <2>4, <2>5, <2>6 DEF Next
<1>2. PinsTypeOK /\ [Next]_pinVars =>
        [\A ch \in Chan : GpioLine(ch) /\ GpioLine(ch)' /\ ~Shared(ch) =>
           gpio'[ch] = gpio[ch] \/ Set(ch)]_pinVars
  BY <1>1
<1> QED BY <1>2, PinsTypeCorrect, PTL DEF Spec, GpioKeepsLine
=============================================================================
