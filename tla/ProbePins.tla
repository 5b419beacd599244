------------------------------ MODULE ProbePins ------------------------------
(***************************************************************************)
(* The pins of one probe (endpoint.py) and who may use them: the settings  *)
(* (idle and disable per channel, hold per port) with their save, the plan *)
(* of the session's functions, the wires' connections, the lines held      *)
(* after a connection closed, and the state every free pin is parked in.   *)
(*                                                                         *)
(* The requests are those of the session that holds the lock (its rules    *)
(* are ProbeSession's); a refused request changes nothing and is left out. *)
(***************************************************************************)
EXTENDS Integers, FiniteSets

CONSTANTS
  Chan,        \* the channels the probe offers
  IdleMode,    \* the modes an idle item may name
  SetMode,     \* the modes a gpio gives a line (gpio_allowed)
  Fn,          \* the functions that take pins by plan
  Kind,        \* Fn -> "gpio", "uart" (a fixture that runs on its pins), "logic", "analog"
  Offer,       \* the (fn, channel) the describes declare
  Port,        \* the wires' ports: a wire with pins it allows
  PinsOf,      \* Port -> its channels
  WireOf,      \* Port -> its wire
  MaxConns,    \* connections of one wire
  PlanRoles,   \* assignments the plan holds
  GenMax,      \* the last generation of a boot (0xFFFFFFFF in the code)
  StoreMax,    \* values the save holds
  Lackable,    \* the (channel, idle mode) a firmware may lack
  Initial,     \* the settings of a boot without a save
  ItemMax      \* bound: values one request changes

HiZ == "hi-z"
NoIdle == "no item"
NoMode == "no mode"
Output == {"low", "high"}

Conf == [disabled : SUBSET Chan, idle : [Chan -> IdleMode \cup {NoIdle}], nohold : SUBSET Port]
Driven == IdleMode \cup {HiZ}
StorageState == {"none", "applied", "unreadable", "partial"}

ASSUME PinsAssumption ==
  /\ NoIdle \notin IdleMode /\ NoMode \notin IdleMode \cup SetMode \cup {HiZ}
  /\ Kind \in [Fn -> {"gpio", "uart", "logic", "analog"}]
  /\ Offer \subseteq Fn \X Chan
  /\ PinsOf \in [Port -> SUBSET Chan]
  /\ Lackable \subseteq Chan \X IdleMode
  /\ MaxConns \in Nat /\ PlanRoles \in Nat /\ StoreMax \in Nat /\ ItemMax \in Nat
  /\ GenMax \in Nat \ {0}
  /\ Initial \in Conf /\ \A ch \in Initial.disabled : Initial.idle[ch] = NoIdle

VARIABLES
  conf,      \* the settings now
  gen,       \* their generation: the changes of this boot, from 1
  saved,     \* the store: [is |-> "kept", "none" or "unreadable", conf] (Initial where none is kept)
  storage,   \* what state tells of it: [state, gen]
  lacks,     \* the idle modes this firmware cannot take, by channel
  plan,      \* the assignments (fn, channel)
  running,   \* the functions that run: configured, armed or capturing
  gpio,      \* Chan -> the mode a gpio gives its line, or NoMode
  parked,    \* Chan -> the state the probe put the free pin in
  conns,     \* the ports with a live connection
  holds,     \* the ports whose lines are held since their connection closed
  taken      \* history: those of them that ended since, by a use of a pin or a setting

pinVars == <<conf, gen, saved, storage, lacks, plan, running, gpio, parked, conns, holds, taken>>
storeVars == <<saved, storage, lacks>>
setVars == <<conf, gen>>

PinsTypeOK ==
  /\ conf \in Conf /\ gen \in 1..GenMax
  /\ saved \in [is : {"kept", "none", "unreadable"}, conf : Conf]
  /\ storage \in [state : StorageState, gen : 0..GenMax]
  /\ lacks \subseteq Lackable
  /\ plan \subseteq Offer /\ running \subseteq Fn
  /\ gpio \in [Chan -> Driven \cup SetMode \cup {NoMode}] /\ parked \in [Chan -> Driven]
  /\ conns \subseteq Port /\ holds \subseteq Port /\ taken \subseteq holds

---------------------------------------------------------------------------
(* Who uses a pin. *)

Listens(f) == Kind[f] = "logic"
ChansOf(pl) == {a[2] : a \in pl}
Of(pl, fns) == {a \in pl : a[1] \in fns}
Using(pl) == {a[2] : a \in {b \in pl : ~Listens(b[1])}}
ConnPins(cs) == UNION {PinsOf[p] : p \in cs}

Busy(pl, cs) == Using(pl) \cup ConnPins(cs)
OutputIdle(c, ch) == c.idle[ch] \in Output

IdleState(c, ch) == IF c.idle[ch] = NoIdle THEN HiZ ELSE c.idle[ch]
MayHold(c, p) == p \notin c.nohold /\ \A ch \in PinsOf[p] : c.idle[ch] = NoIdle /\ ch \notin c.disabled
Ends(c, pl, cs, p) == PinsOf[p] \cap Busy(pl, cs) # {} \/ ~MayHold(c, p)

\* _park: of these pins the free ones go to their idle state, a disabled one stays as it is.
Park(chs, c, pl, cs) ==
  [ch \in Chan |-> IF ch \in chs \ (c.disabled \cup Busy(pl, cs)) THEN IdleState(c, ch) ELSE parked[ch]]

\* A hold that ended since its connection closed; one made in this step has not.
Remember == taken' = {p \in holds' \ (conns \ conns') :
                        p \in taken \/ (p \in holds /\ Ends(conf', plan', conns', p))}

---------------------------------------------------------------------------
(* Boot. *)

Fits(c, l) == \A ch \in Chan : <<ch, c.idle[ch]>> \notin l

\* The values this firmware takes, disable before idle.
Taken(c, l) == [c EXCEPT !.idle = [ch \in Chan |->
                  IF ch \in c.disabled \/ <<ch, c.idle[ch]>> \in l THEN NoIdle ELSE c.idle[ch]]]

Boot(s, l) == Taken(IF s.is = "kept" THEN s.conf ELSE Initial, l)
BootStorage(s, l) ==
  CASE s.is = "none" -> [state |-> "none", gen |-> 0]
    [] s.is = "unreadable" -> [state |-> "unreadable", gen |-> 0]
    [] s.is = "kept" /\ Fits(s.conf, l) -> [state |-> "applied", gen |-> 1]
    [] OTHER -> [state |-> "partial", gen |-> 0]
BootPark(c) == [ch \in Chan |-> IF ch \in c.disabled THEN HiZ ELSE IdleState(c, ch)]

Init ==
  /\ saved = [is |-> "none", conf |-> Initial]
  /\ lacks \in SUBSET Lackable
  /\ conf = Boot(saved, lacks) /\ gen = 1 /\ storage = BootStorage(saved, lacks)
  /\ parked = BootPark(conf)
  /\ plan = {} /\ running = {} /\ conns = {} /\ holds = {} /\ taken = {}
  /\ gpio = [ch \in Chan |-> NoMode]

\* The probe restarts, perhaps with another firmware: the save is applied, every value by itself.
Reboot(l) ==
  /\ lacks' = l /\ UNCHANGED saved
  /\ conf' = Boot(saved, l) /\ gen' = 1 /\ storage' = BootStorage(saved, l)
  /\ parked' = BootPark(conf')
  /\ plan' = {} /\ running' = {} /\ conns' = {} /\ holds' = {} /\ taken' = {}
  /\ gpio' = [ch \in Chan |-> NoMode]

---------------------------------------------------------------------------
(* The settings. *)

Changed(c, d) == {ch \in Chan : c.idle[ch] # d.idle[ch]}
Items(c, d) ==
  Cardinality(Changed(c, d)) + Cardinality((c.disabled \ d.disabled) \cup (d.disabled \ c.disabled))
    + Cardinality((c.nohold \ d.nohold) \cup (d.nohold \ c.nohold))
Values(c) == Cardinality({ch \in Chan : c.idle[ch] # NoIdle}) + Cardinality(c.disabled) + Cardinality(c.nohold)

\* set gives values (a false takes a disable or a hold back), unset takes values away.
BySet(new) == \A ch \in Changed(conf, new) : new.idle[ch] # NoIdle /\ <<ch, new.idle[ch]>> \notin lacks
ByUnset(new) ==
  /\ new.disabled \subseteq conf.disabled /\ new.nohold \subseteq conf.nohold
  /\ \A ch \in Changed(conf, new) : new.idle[ch] = NoIdle
AnalogPins == {a[2] : a \in {b \in plan : Kind[b[1]] = "analog"}}

\* Mutant: the analog's pads are not looked at.
ChangeRefusedNoAnalog(new) ==
  \/ gen = GenMax
  \/ \E ch \in new.disabled : new.idle[ch] # NoIdle
  \/ (new.disabled \ conf.disabled) \cap (ChansOf(plan) \cup ConnPins(conns)) # {}

\* The whole of the new settings against what runs.
ChangeRefused(new) ==
  \/ gen = GenMax
  \/ \E ch \in new.disabled : new.idle[ch] # NoIdle
  \/ (new.disabled \ conf.disabled) \cap (ChansOf(plan) \cup ConnPins(conns)) # {}
  \/ \E ch \in AnalogPins \cap Changed(conf, new) : OutputIdle(new, ch)

\* Mutant: an idle item that is taken away moves no pin.
ReparkNamed(new) ==
  ((conf.disabled \ new.disabled) \cup {ch \in Changed(conf, new) : new.idle[ch] # NoIdle}) \ ChansOf(plan)

\* The pins whose state the new settings change: a planned one waits for its release.
Repark(new) == ((conf.disabled \ new.disabled) \cup Changed(conf, new)) \ ChansOf(plan)

\* set, unset: the settings become new.
Change(new) ==
  /\ new # conf /\ ~ChangeRefused(new)
  /\ Items(conf, new) <= ItemMax
  /\ BySet(new) \/ ByUnset(new)
  /\ conf' = new /\ gen' = gen + 1
  /\ parked' = Park(Repark(new), new, plan, conns)
  /\ UNCHANGED <<storeVars, plan, running, gpio, conns, holds>>
  /\ Remember

\* save, completed.
Save ==
  /\ Values(conf) <= StoreMax
  /\ saved' = [is |-> "kept", conf |-> conf]
  /\ storage' = [state |-> "applied", gen |-> gen]
  /\ UNCHANGED <<setVars, lacks, plan, running, gpio, parked, conns, holds, taken>>

\* Mutant: state goes on telling of the save before.
SaveFailsUntold(as) ==
  /\ Values(conf) <= StoreMax
  /\ saved' = [is |-> as, conf |-> Initial]
  /\ UNCHANGED <<storage, setVars, lacks, plan, running, gpio, parked, conns, holds, taken>>

\* save, failed: the store then holds no save, or none that can be read ("old": nothing changes).
SaveFails(as) ==
  /\ Values(conf) <= StoreMax
  /\ saved' = [is |-> as, conf |-> Initial]
  /\ storage' = [state |-> as, gen |-> 0]
  /\ UNCHANGED <<setVars, lacks, plan, running, gpio, parked, conns, holds, taken>>

---------------------------------------------------------------------------
(* The plan. *)

\* _check_plan and plan_apply's refusals: one refused assignment refuses the request.
ApplyRefused(got) ==
  LET named == {a[1] : a \in got}
      others == {a \in plan : a[1] \notin named}
      beside(a) == {b \in got \cup others : b[1] # a[1] /\ b[2] = a[2]}
      analog(b) == Kind[b[1]] = "analog"
  IN \/ Cardinality(others) + Cardinality(got) > PlanRoles
     \/ \E a \in got : analog(a) /\ (beside(a) # {} \/ a[2] \in ConnPins(conns) \/ OutputIdle(conf, a[2]))
     \/ \E a \in got : \E b \in beside(a) : analog(b)
     \/ \E a \in got : Kind[a[1]] \in {"gpio", "uart"} /\ a[2] \in Busy(others, conns)
     \/ ChansOf(got) \cap conf.disabled # {}
     \/ \E a \in got \ plan : Kind[a[1]] = "uart" /\ OutputIdle(conf, a[2])

\* Mutant: a UART that is configured is not a function that runs.
PlanChangeRefusedNoUart(f) == f \in running /\ Kind[f] # "uart"

\* _plan_change_refusal: what runs keeps its pins.
PlanChangeRefused(f) == f \in running

Regrouped(got) == {f \in {a[1] : a \in got} : Of(plan, {f}) # Of(got, {f})}

\* Mutant: every line of a plan that changes is taken anew.
KeptNone(old, got) == {}

\* The lines of a gpio that stay.
KeptLines(old, got) == {a[2] : a \in {b \in old \cap got : Kind[b[1]] = "gpio"}}

\* _replace_plans: the plans of fns become got as one change.
Replace(fns, got) ==
  LET old == Of(plan, fns)
      keeps == KeptLines(old, got)
      lines == {a[2] : a \in {b \in got : Kind[b[1]] = "gpio"}} \ keeps
      stay == (plan \ old) \cup (old \cap got)
  IN /\ plan' = stay \cup got
     /\ parked' = Park(ChansOf(old \ got), conf, stay, conns)
     /\ gpio' = [ch \in Chan |->
                   IF ch \in lines /\ parked'[ch] # HiZ THEN parked'[ch]
                   ELSE IF ch \in ChansOf(old) \ keeps THEN NoMode ELSE gpio[ch]]

\* plan_apply: only the functions whose assignments change are touched, and none of them runs.
Apply(got) ==
  /\ got # {} /\ ~ApplyRefused(got)
  /\ Regrouped(got) # {} /\ \A f \in Regrouped(got) : ~PlanChangeRefused(f)
  /\ Replace(Regrouped(got), Of(got, Regrouped(got)))
  /\ UNCHANGED <<setVars, storeVars, running, conns, holds>>
  /\ Remember

\* _drop_plan of fns: what runs on the pins ends, the pins are parked.
Drop(fns) ==
  /\ plan' = plan \ Of(plan, fns) /\ running' = running \ fns
  /\ gpio' = [ch \in Chan |-> IF ch \in ChansOf(Of(plan, fns)) THEN NoMode ELSE gpio[ch]]

\* plan_release, of fns that have a plan.
Release(fns) ==
  /\ fns # {} /\ fns \subseteq {a[1] : a \in plan}
  /\ Drop(fns)
  /\ parked' = Park(ChansOf(Of(plan, fns)), conf, plan', conns)
  /\ UNCHANGED <<setVars, storeVars, conns, holds>>
  /\ Remember

\* A function is configured or started on its pins, or stopped.
Start(f) ==
  /\ Kind[f] # "gpio" /\ Of(plan, {f}) # {} /\ f \notin running
  /\ running' = running \cup {f}
  /\ UNCHANGED <<setVars, storeVars, plan, gpio, parked, conns, holds, taken>>
Stop(f) ==
  /\ f \in running /\ running' = running \ {f}
  /\ UNCHANGED <<setVars, storeVars, plan, gpio, parked, conns, holds, taken>>

\* gpio set, of a line of the gpio's own.
GpioSet(ch, mode) ==
  /\ \E f \in Fn : Kind[f] = "gpio" /\ <<f, ch>> \in plan
  /\ ch \notin conf.disabled
  /\ gpio' = [gpio EXCEPT ![ch] = mode]
  /\ UNCHANGED <<setVars, storeVars, plan, running, parked, conns, holds, taken>>

---------------------------------------------------------------------------
(* The connections. *)

\* attach: its pins free, enabled and not driven by their idle; the target answers.
Attach(p) ==
  /\ PinsOf[p] \cap conf.disabled = {}
  /\ \A ch \in PinsOf[p] : ~OutputIdle(conf, ch)
  /\ PinsOf[p] \cap Busy(plan, conns) = {}
  /\ p \notin conns /\ Cardinality({q \in conns : WireOf[q] = WireOf[p]}) < MaxConns
  /\ conns' = conns \cup {p}
  /\ UNCHANGED <<setVars, storeVars, plan, running, gpio, parked, holds>>
  /\ Remember

\* _close_conn of all of cs: the lines stay held, or are parked (always when the line was lost).
Held(cs, lost) == IF lost THEN {} ELSE {p \in cs : MayHold(conf, p)}
Close(p, lost) ==
  /\ p \in conns /\ conns' = conns \ {p}
  /\ holds' = holds \cup Held({p}, lost)
  /\ parked' = Park(ConnPins({p} \ Held({p}, lost)), conf, plan, conns')
  /\ UNCHANGED <<setVars, storeVars, plan, running, gpio>>
  /\ Remember

\* holds: the only place where a hold ends; pins that are free then are parked.
HoldsRead ==
  LET over == {p \in holds : Ends(conf, plan, conns, p)}
  IN /\ over # {}
     /\ holds' = holds \ over
     /\ parked' = Park(ConnPins({p \in over : PinsOf[p] \cap Busy(plan, conns) = {}}), conf, plan, conns)
     /\ UNCHANGED <<setVars, storeVars, plan, running, gpio, conns>>
     /\ Remember

\* _release_lock: the plan goes, then the connections.
SessionEnds ==
  /\ plan # {} \/ conns # {}
  /\ Drop(Fn) /\ conns' = {}
  /\ holds' = holds \cup Held(conns, FALSE)
  /\ parked' = Park((ChansOf(plan) \cup ConnPins(conns)) \ ConnPins(Held(conns, FALSE)), conf, {}, {})
  /\ UNCHANGED <<setVars, storeVars>>
  /\ Remember

Next ==
  \/ \E l \in SUBSET Lackable : Reboot(l)
  \/ \E new \in Conf : Change(new)
  \/ Save
  \/ \E as \in {"none", "unreadable"} : SaveFails(as)
  \/ \E got \in SUBSET Offer : Apply(got)
  \/ \E fns \in SUBSET Fn : Release(fns)
  \/ \E f \in Fn : Start(f) \/ Stop(f)
  \/ \E ch \in Chan, mode \in SetMode : GpioSet(ch, mode)
  \/ \E p \in Port : Attach(p)
  \/ \E p \in Port, lost \in BOOLEAN : Close(p, lost)
  \/ HoldsRead
  \/ SessionEnds

Spec == Init /\ [][Next]_pinVars

---------------------------------------------------------------------------
(* What must hold. *)

\* A pin nobody uses, holds or has disabled is in the state its idle item names, Hi-Z without one
\* (_park, endpoint.py 912): whatever used it before, and whatever the settings were meanwhile. It is
\* claimed where every port is one pin: a hold over two ends as a whole, and the pin that nobody took
\* may be left in an idle that was taken away while it was held (held_ports, 2511).
Free == Chan \ (conf.disabled \cup ChansOf(plan) \cup ConnPins(conns \cup holds))
ParkedAtIdle == \A ch \in Free : parked[ch] = IdleState(conf, ch)

\* A connection has its pins for itself (_held, endpoint.py 1216): no other connection and no function
\* that does more than listen is on them, and a port is connected once.
ConnsAlone ==
  /\ ConnPins(conns) \cap Using(plan) = {}
  /\ \A p, q \in conns : p # q => PinsOf[p] \cap PinsOf[q] = {}
\* An analog's pad is shared with nothing, a listener included (_check_plan_pass, 1846).
AnalogAlone ==
  \A a \in plan : Kind[a[1]] = "analog" =>
    \A b \in plan : b[2] = a[2] => b[1] = a[1]
\* A disabled channel is in no plan and no connection (_refuse_disabled, 893; _change_config, 3642).
DisabledUnused == conf.disabled \cap (ChansOf(plan) \cup ConnPins(conns)) = {}
PinsSeparate == ConnsAlone /\ AnalogAlone /\ DisabledUnused

\* An output idle never meets an analog's pad, whichever of the two comes second (capture 1.2;
\* _check_plan_pass 1852, _change_config 3651).
AnalogPadsSafe == \A ch \in AnalogPins : ~OutputIdle(conf, ch)

\* No two that drive or read a pin disturb each other: by plan and connection, or by an idle state.
PinsSafe == PinsSeparate /\ AnalogPadsSafe

\* A function that runs keeps exactly its pins until it stops (_plan_change_refusal, 1770): no
\* plan_apply, settings change or release of another moves them under it.
RunningKeepsPins ==
  [][\A f \in running \cap running' : Of(plan', {f}) = Of(plan, {f})]_pinVars

\* The settings need no save (Settings.needs_save): state says applied, with this generation.
NeedsSave == ~(storage.state = "applied" /\ storage.gen = gen)

\* Settings that need no save come back after a restart with the same firmware, whatever saves
\* failed and whatever changed and changed back (save, _storage_failed, _apply_saved).
SavedComesBack ==
  [][~NeedsSave /\ Reboot(lacks) => conf' = conf]_pinVars

\* A line that a gpio's plan keeps stays as the gpio set it, whatever the other functions of the
\* plan, the settings and the connections do (_replace_plans, 1910); not claimed of a line that another
\* function shares (GpioKeepsSharedLine).
GpioLine(ch) == \E f \in Fn : Kind[f] = "gpio" /\ <<f, ch>> \in plan
Shared(ch) == \E b \in plan : b[2] = ch /\ Kind[b[1]] # "gpio"
Set(ch) == \E mode \in SetMode : GpioSet(ch, mode)
GpioKeepsLine ==
  [][\A ch \in Chan : GpioLine(ch) /\ GpioLine(ch)' /\ ~Shared(ch) =>
       gpio'[ch] = gpio[ch] \/ Set(ch)]_pinVars

\* The same of every line: an assignment that stays keeps its pin (test_plan.py,
\* test_an_assignment_that_stays_keeps_its_pin), whoever listens to it.
GpioKeepsSharedLine ==
  [][\A ch \in Chan : GpioLine(ch) /\ GpioLine(ch)' =>
       gpio'[ch] = gpio[ch] \/ Set(ch)]_pinVars

\* A hold that ended - its pins taken, its hold off, an idle or disable item on them - is told as
\* held no more until its port is connected and closed again (held_ports, 2507).
NoHoldReturns == taken \subseteq {p \in holds : Ends(conf, plan, conns, p)}
=============================================================================
