# A TLA+ model of the Open Embedded Probe client

This directory models the rules that `oep-client-python` lives by where several actors, clocks
and faults meet: what a probe's endpoint (`src/src/oep_client/endpoint.py`) promises a session;
how the host (`host.py`) and its link (`link.py`) use it over lines that lose, break and delay
frames, with one request in flight or several, at the boot speed or at a raised one; how a host
that stops and runs again (`kept_session.py`) gets rid of the session it left; who may use the
probe's pins and in what state they are left; how settings are read, changed and saved
(`settings.py`, `__main__.py`); and how captured segments and streams reach the host whole
(`acquire.py`, `capture.py`, `virtual_bench_capture.py`). TLC checks small instances of every
module; TLAPS proves the main results about the probe, the hosts on their lines, with one request in
flight or several, the runs of one machine, the pins, the serial port's rate, the acquired segments
and the settings command for every value of the constants.

## 1. The system

A *probe* has one *lock*. A host opens a *session* under an id it draws; while the session holds
the lock it may create things (connections to targets, console streams, a pin plan,
subscriptions, captures), and all of them go when the lock ends: by `end`, by a lease that runs
out, by another host's forced open, or by a restart. Each request carries the session's id (0:
none) and a *corr*, a number that goes around 1..0xFFFF. The probe keeps its latest answers by
corr: a copy of a request gets the answer again instead of running it twice.

| Component | State | Operations | Hard because |
|---|---|---|---|
| corr arithmetic (`registry.py`, `host.py`, `kept_session.py`) | none | next, ahead, within half the space | wraps at 0xFFFF, leaves 0 out |
| probe sessions (`endpoint.py` 1240-1770, 2300-2500, 2870-2915, 3720-3742) | lock, last id, lease, resend table, numbers, connections, streams, plan, subscriptions, routes' outgoing answers | every request; the clock; a lost line; a notification; a restart | copies arrive at any time, several clients, the lock ends four ways, the table is bounded |
| host session rules (`host.py`) | session, last corr, boot_id, owned handles, subscriptions | open, request, pipeline, end, confirm, end_previous, room check | answers it never gets, sessions it does not know it lost |
| links (`link.py`, `cobs.py`, `frames.py`, `usb_stream.py`) | requests outstanding, resends, failed transport, connection | send, exchange, resend, resync, reopen, recover | noise looks like an answer, late answers, frame boundaries that are lost |
| port speed (`link.py` 820-1500, `endpoint.py` 2150-2310) | rate of both sides, trial and idle timers | try, confirm, verify, commit, fall back, step down | two clocks and an answer that may be lost |
| kept session (`kept_session.py`) | file with an id and a reserved corr | before_open, opened, sent, ended | the process dies anywhere, the write is not atomic, another host acts in between |
| plan and pins (`endpoint.py` 1714-1980, 2480-2520) | pins by function, gpio modes, parked states, held lines | apply, release, gpio set, attach, close, holds | several functions over shared pins; a pin is parked only when somebody lets go of it |
| settings (`settings.py`, `__main__.py` 440-640, `endpoint.py` 3300-3720) | values, the save, generation | get in pages, import, set, unset, save, boot | values that move under a reading, a save that fails, a restart with other items |
| captures (`acquire.py`, `capture.py`, `virtual_bench_capture.py`) | state, generation, ring of segments, stream positions | configure, start, force, read, release, stop; subscribe, push | data read while the next are taken; losses in four places |
| console streams (`console.py`) | positions, marks | read, write | bytes dropped between two reads |
| memo area, debug wires and targets, stimuli, discovery, virtual bench, command line, conformance runner | - | - | mostly sequential code above these rules |

The components meet in five ways: a request travels host, link, `Endpoint.handle`, and its answer
back; `Link.corr_source` is `Host.next_corr`, so the link's own confirms take corrs from the
host's counter; `Host.kept` is told of every corr before it goes out; the probe pushes
notifications on the route that subscribed; and the probe's clock takes the lock without telling
anyone.

## 2. The modules

| Module | Models |
|---|---|
| `OepCorr` | the corr space as a parameter (`CorrMax`, `HalfRange`): `NextCorr`, `Diff`, `Ahead`, `InWindow` |
| `SessionLock` | abstract: one owner, its belongings, the last owner, the next number |
| `ProbeSession` | `Endpoint.handle` from header to remembered answer, one action per operation, and the probe's own steps |
| `ProbePins` | the pins: settings that move them, their save, plan, connections, holds, gpio modes, parked states |
| `HostLink` | hosts with a serial link each, composed with `ProbeSession` |
| `KeptSession` | one machine's runs and its file, and a rival host, composed with `ProbeSession` |
| `PipelinedLink` | `exchange` with several requests in flight on COBS, USB and TCP, and the probe's queue, composed with `ProbeSession` |
| `SpeedPort`, `PortSpeed` | the probe's port as operators on a record; the host that raises its rate |
| `CaptureTrack`, `CaptureProbe` | one capture track as operators on a record; the probe that has it, its lock and its line |
| `CaptureRead`, `CaptureStream` | the host that reads segments; the host that puts a stream together |
| `SettingsHost` | one settings command of a host against a probe whose values others change |
| `MCProbeSession`, `MCProbePins`, `MCHostLink`, `MCKeptSession`, `MCPipelinedLink`, `MCPortSpeed`, `MCCaptureRead`, `MCCaptureStream`, `MCSettingsHost` | the instances TLC checks |
| `ProbeSessionProofs` | theorems about `ProbeSession`: its types, its resend table, what a session owns |
| `HostLinkProofs`, `KeptSessionProofs`, `PipelinedLinkProofs` | theorems about `HostLink`, `KeptSession` and `PipelinedLink`, on top of those |
| `CaptureProofs` | lemmas about a track that is polled, ticked, stopped, read and released; theorems about `CaptureRead` |
| `ProbePinsProofs`, `PortSpeedProofs`, `SettingsHostProofs` | theorems about `ProbePins`, `PortSpeed`, `SettingsHost` |

`PROJECT.json` names, for every definition, the lines of the source it stands for.

**ProbeSession.** An action is one request from its header to the answer that is queued. All share
the order of the code: `HeaderFault` (`_header`), then `Resent` (`_resent`: the last session's
requests are looked up in the table whatever the lock is now), then the session check, the
operation, and `Settle` (the lease restarts for the holder; the answer of the last session's
request is remembered). `Settle` is given the lock *after* the operation: the answer of an `open`
is remembered in the new session's table, that of `end` in the ended one's. `resend` is a set: a
corr that is not refused is ahead of every one kept, so the order of the `OrderedDict` is the
order of the corrs. `value` stands for anything a request changes. `LargeArg` and `LargeVal` name
the requests and answers too large to keep. An answer record carries its request; no host action
reads more of it than its corr to decide. `Tick` merges the clock and `_lapse`, which runs before
a request is looked at. `ran`, `reran`, `given` are history.

**HostLink.** A host makes one call at a time. `toProbe[h]` is the line to the probe, `answers[h]`
the line back. `Begin` is `Host.request` with `Link.send`; `Accept`, `Stale`, `Broken` and
`Timeout` are the outcomes of `_recv_for` in `_send_loop`; `ConfirmSent`, `ConfirmAnswered` and
`RecoveryFails` are `recover_transport`. A timeout may come while the answer is under way, a broken
frame may be the answer or noise, `Lost` removes a frame in either direction. A handle is believed
while its `epoch` is the current one (`_swept`).

**PipelinedLink.** `Call` gives the link a list of requests; `PutOut` writes the next as long as
`MaxInflight` wait; `ResultComes`, `ReadPast`, `BrokenComes`, `NothingComes` are what
`exchange` reads; `GoAgain` is the resend from the first request without an answer on. A framing
differs in what a fault costs: COBS finds its next frame by itself, a USB pair is read until it is
quiet and looked for with a confirm (`Resyncs`, `SendConfirm`), a TCP connection is closed and the
next one opened (`Reopen`), the probe's end of the old one goes later (`CloseRoute`). The probe has
`Receive` (coalescing with what is queued or being processed), `Process` and `Sent` as three steps,
as `Endpoint.receive`, `process` and `sent` are. `Torn` is a frame that comes and cannot be read;
`garbled` says that the probe has lost the boundaries of the length frames that come. `hits` counts
the faults that hit. `Past` counts the corrs taken, of calls and confirms, and `Room` bounds them by
`MaxCorrs`, fewer than it takes for one to come round.

**SpeedPort, PortSpeed.** The port has its rate, its state (boot, try, committed), the ticks left
of `verify_ms` or `port_speed_idle_ms`, and a frame it may be in the middle of. One exchange is far
shorter than a tick and is one step (`Send`): the request arrives or not, is answered at the rate
it came at, and the port switches behind the answer; what came of it is in `reply` and the host
reads it in a later step. An answer read at another rate than the one it left at is noise. The host
is the code's own loop: `raise_speed`'s candidates, `set_baud`'s try, confirm, measurement and
commit, `back_to_base`, `_speed_fallback`, `_step_down`, and `wait_boot_speed` of a process that
opens the port after another died.

**CaptureTrack, CaptureProbe, CaptureRead, CaptureStream.** A sample takes one tick and one byte,
and the byte is the time it was taken at, so a byte that is read tells whose it is. The operations
of a track (`start`, `tick`, `_segment`, `release`, `_clear`, the triggers, the stream's drops) are
operators from track to track. The input a trigger looks at is the set of times at which it is
high; `Hits` is `_scan` with the two values it keeps from look to look, `scan` (`trigger_scan`) and
`seen` (`trigger_previous`): `LookedTo` is what a look leaves of them, `Start` clears both,
`RearmAfter` moves the first alone. The pretrigger, `arm`, `rearm` and the three edges are
configured freely. `CaptureProbe` adds the lock, a rival that takes it and captures for itself,
notifications with their batching and a line that loses them.
`CaptureRead` is `wait` / `read_segment` and `_repeat_result`; `CaptureStream` is `_collect`,
`Received.take` and the `_Spool` thread, which is handed a poll's worth at a time.

**KeptSession.** `Run` .. `EndPrevious` are `before_open` and `end_previous`, `Open` and `Opened`
the open and the file written after it, `Call`, `Side` the requests of the session and of
session_id 0 with the keepalive of `_session_room`, `Die` a death at any point, which may leave
the truncated file. The rival opens, forces and ends. `earlier` (the ids of earlier runs) and
`unnamed` (those a death left on the lock with no file that names them) are history.

**ProbePins.** The requests are those of the session that holds the lock, so the module needs no
session. `Change` is `_change_config` of a `set` or an `unset`: its whole check against what runs
(`ChangeRefused`) and the parking that follows (`Repark`). `Save` and `SaveFails` are the outcomes
of a save, `Reboot` applies it by a firmware that may lack some idle modes (`lacks`). `Apply` is
`plan_apply` with `_check_plan_pass` (`ApplyRefused`), `_plan_change_refusal` and `_replace_plans`.
A plan holds (function, channel) pairs. `Kind` tells the four ways a function treats a pin.
`HoldsRead` is the one place where a hold ends (`held_ports`). `taken` is history.

**SettingsHost.** A command runs through `at`: read the pages, check the state, plan, take the
lock, resolve names to numbers, send the requests, read the state, save, end. The probe's values
are a function of (item, channel); `decl` is the firmware's list of items, whose places are their
numbers. Between any two requests another session changes or saves values (`OtherChanges`,
`OtherSaves`), the lock lapses or is taken, a save fails in each of its ways, the probe restarts
with each firmware of `Decls`, or the command breaks off.

## 3. The runs

| Run | Asks | Instance |
|---|---|---|
| `probe_lock` | Is a request run twice, an answer replayed wrongly? | two sessions that send every request under every corr; corrs 1..5, so that the space wraps; a table of 2; one argument too large to keep |
| `probe_owned` | Does what a session creates end with its lock, however that ends; does a replay cost lease; does the probe implement `SessionLock`? | every operation; two routes, two connections, numbers 1..3 (they run out), lease of 1-2 ticks |
| `host` | Does a write run twice, is its caller told the truth, is a recovered transport clean, does a handle name what it was given for? | three loads: a writer with 2 faults and a restart; a writer whose lock another host takes, 1 fault; a host that makes connections across ends, takeovers and a restart, 1 fault |
| `host_live` | Does every call end, is a forgotten lock freed? | one host, 3 calls, one death, one fault, two ticks of lease |
| `kept_runs` | Is the file ahead of the corrs, are the sessions of earlier runs gone, is a rival's lock left alone? | three runs of a machine, deaths anywhere, a rival; corrs 1..7 |
| `pins_plan` | Is a free pin where its settings put it, does nobody share what must not be shared, do saved settings come back? | two channels, four functions, one port, two changes a boot, two idle modes of which a firmware may lack one |
| `capture_read` | Is what is acquired what was taken, when it was taken? Is a segment's trigger its own, where it says, and the first there was? | seven configurations: one-shot and repeat without trigger; one-shot with a pretrigger of 2, with arm 1 on either edge and arm 0 on a fall; rearming repeats on either edge with a pretrigger of 1, of 0, and of 1 with arm 0; three inputs (still, one pulse, pulses that end before, at and behind a segment); a ring of 2, 3 segments wanted, one lock lost |
| `capture_stream` | Is a stream put together right, is no loss silent, does it end? | two streams, segments of 3 in frames of 2, a lost frame, a subscription that moves, a lock lost, a clock the buffer cannot follow |
| `port_speed` | Are host and port at one rate, do they find each other again? | two rates above the boot speed, one measured before its commit; lines on which the higher carries all or only small frames; up to 4 faults, a lapse, a takeover, a death |
| `pipeline` | Do requests in flight run in order and once, are their results true, does one fault never fail a call? | 3 in flight on each framing, 2 or 3 faults, a session about to wrap its corrs, a subscription |
| `pipeline_pushes` | A sentence of the repository that does not hold (section 6) | as `pipeline` |
| `settings` | Are the values read those of one moment, is what the command says it did so? | four items on two channels, two firmwares, pages and requests of 2 values, an import of each of two files, set, unset --all and save; 2 changes of others and 2 takeovers, or 1 of each and a restart; a fault |

**Bounds.** All are named by constants. They suffice for what is asked: a copy that outlives its
record needs more corrs than the table keeps (5 > 2) and a wrap; two answers to one call need two
faults; a lock that changes hands twice needs two ids besides the holder's next one; a stale number
needs one restart; a resend that overtakes needs three in flight; a ring that wraps needs a third
segment for its two places; a reading that mixes needs two pages and a change between them; a
return that must outwait both of the port's timers needs the longer `verify_ms` of the rate above
the default ceiling. The code's constants are scaled: `BROKEN_RESENDS` 3 to 1 or 2, the recovery's
tries 3 to 2, the failures in a row that break a rate 3 to 2, the corr space 0xFFFF to 5..31,
`RESERVE` 1024 to 1 or 2, seconds and milliseconds of the port to ticks that keep their order
(idle 3, `verify_ms` 2 and 6, `OPEN_RETRY_S` 4). `MaxCorrs` of `PipelinedLink` is more than its instances
take: it cuts nothing off there. `probe_owned` has a view without the outgoing
answers, which no action reads there, `pins_plan` one without the history `taken`, `kept_runs` one
without the histories `over` and `reopened`, which none of their properties reads. `Loads`, `Uses` spread faults and calls over several small instances of one
run instead of their product. Symmetry is used over session ids only, which no property orders,
and not in the runs with a liveness property.

**Fairness**, each with the reason the code gives:

* `HostLink.LiveSpec`: the waits end (`Timeout`, a recovery's steps) - `_recv_for` and the
  recovery wait until a deadline of their own that arriving frames do not move (`link.py` 503,
  668) - and the lease's clock runs. Nothing is assumed of the line or of an idle host.
* `PortSpeed.SpeedSpec`: the host sends what it has decided to send and reads what came of it
  (`Send`, `HostGoesOn`: straight-line code with bounded waits), time passes for it (`Elapse`) and
  for the probe's timers (`ProbeTick`: `tick` is called from the endpoint's loop), and a frame
  begun ends (`FrameEnds`: an incomplete one is given up after the frame gap). A user need not call.
* `CaptureStream.StreamSpec`: while the host waits for the rest of a stopped stream the probe
  serves its notifications, and the host collects and comes to its end (a loop with a deadline).
  Nothing is assumed while the stream runs.

`CHECK_DEADLOCK FALSE` stands where the bounds on calls, runs, faults or the clock end the
instance.

**Configurations that are not runs.** Each shows that a sentence of the repository, or a wish,
does not hold, by a counterexample (section 6): `MCKeptReserved` (`CorrsFollow`), `MCKeptEnded`
(`EndedStaysEnded`), `MCPinsHold` (`NoHoldReturns`), `MCPinsShared` (`GpioKeepsSharedLine`),
`MCPortSwitch` (`SwitchTogether`), `MCPortOpen` (`OpenFindsProbe`), `MCPipelinedConfirm`
(`ConfirmComesFirst`), `MCKeptUnnamed` (`LeftIsEnded`), `MCCaptureRearmed`
(`RearmedTriggersTrue`), `MCCaptureForced` (`RunsOnlyWhenStarted`), `MCStreamPastEnd`
(`NothingPastEnd`), `MCSettingsBoots` (`ReadsAcrossBoots`), `MCSettingsNames` (`ImportKeepsNames`),
`MCSettingsSplit` (`ImportIsTaken`).

## 4. The proofs

Assumed of the constants: `CorrAssumption` (the space has 2 * `HalfRange` - 1 corrs and no 0, as
0xFFFF and 0x8000), `ProbeAssumption`, `HostAssumption`, `KeptAssumption`, `PinsAssumption`,
`SpeedAssumption`, `HostSpeedAssumption`, `LinkAssumption`, `ConfigAssumption` (what is configured is what `settle`
lets through), `ReadAssumption`, `SettingsAssumption`. They say what kind of thing a constant
is, that leases, tables, pages and requests are not empty, that the machine and its rival draw
different ids, `Reserve + 1 < HalfRange` (1024 and 0x8000), `HalfRange >= 4` and `Retry > Idle`
(`OPEN_RETRY_S` is longer than `port_speed_idle_ms`). TLC evaluates those of a module on each of its
runs. Sets of requests, sessions, routes, pins, rates,
lines, items, firmwares and every bound are arbitrary.

**The probe's lock and table.**

1. `TypeCorrect`: `TypeOK` is inductive by itself; each operation is one lemma.
2. `LockInv`: the lease is positive; the holder is the last session with a running lease; a free
   lock has none. It rests on `HandleKinds`: a request either leaves everything but its answer
   alone (a header fault, a copy), or is `Fresh` and settled.
3. `RunsOnce`, `TableRepeats`, `CopiesGetOneVerdict`, `LeaseNeedsProcessing`: `AtMostOnce` says
   nothing about the table and is not inductive. `TableInv` adds that every processed request
   still in the record is within half the space behind `newest` (`RanInWindow`): a request that
   passes `_resent` is ahead of `newest`, so its corr differs from all of those, although the
   table may have evicted them. `RecordsAreOwn` ties a kept answer to its request, `RanIsLast` the
   record to the table's session. These make the second half of `_resent`, "not ahead:
   result_lost", what makes a bounded table safe.
4. `BelongsToHolder`, `LiveThingsAreWired`, `LiveThingsAreOwned`, `HandsOverNothing`,
   `NumbersAreFresh`: `OwnedSteps` sorts every step into six kinds (idle, granted, forced,
   released, restarted, works), once; `OwnedInv` is shown for each kind.
5. `ProbeImplementsLock`: with `owner <- holder`, `ended <- last`, `mine <- Possessions`,
   `next <- nextRes`, each kind of step is a step of `SessionLock` or a stutter.

**Hosts and their lines.** `OnceHoweverSent`, `CallersHearTheTruth`, `BelievedAreOwn`,
`CleanAfterRecovery`, of `HostLinkInvariant`, for any number of hosts, faults and restarts and lines
of any length. A host's corrs do not come round in it (`corr[h] < CorrMax`; one lap is 0xFFFF
requests): that a corr that comes round is told from an old one is `RunsOnce`.

6. `PipeInv`: the answers on their way to a host, and behind them the requests on their way to the
   probe, are in the order of their corrs, the host's own request last; equal corrs are copies of
   one request. A line that loses, breaks or delays keeps the order. In a recovery the confirm is
   last (`LastOnly`), so its answer is behind everything older: `CleanAfterRecovery`.
7. `NameInv`: an id belongs to one host, a write has one request, and a session's open went out
   before what needs it.
8. `RunInv`: a write that ran and may be handled again is still the newest corr of its session
   (`RanStaysNewest`), so if the session holds the lock the copy is refused by the table, and if not
   it is refused by the lock. `WriteRunsOnce` alone says nothing about copies on the line.
   `OutcomesTrue` and `AnswersRan` tie what the caller is told to what ran.
9. `HandleInv`: numbers are given out upwards; no open of a believed connection's session is left
   behind it, so nothing can renew the session unseen; an "ok" on the line or in the table
   names the connection that was made for its request.

**Runs of one machine.** `CorrsAreNew`, `PreviousIsEnded`, `OthersKeepLock`, of
`KeptSessionInvariant`, for every corr space, reservation, number of runs and deaths.

10. `RoomInv`: until a corr goes unseen, `_sid_corr` is what the probe remembers last of the session,
    and the next corr is ahead of it; the keepalive that makes room brings the two together. That
    is where `HalfRange >= 4` is needed: two corrs, and the 0 left out between them.
11. `EndedInv` follows the run from the file to its own open: a probe that says it is free has no
    holder; an open that is handled and refused finds the lock free or another's; one that is taken
    is the newest the table knows of the id, so the end behind it is handled. All three need the
    open's corr to be handled, which is what `lagged` excludes and `CorrsFollow` (section 6) shows
    the code does not ensure. `IdsDrawn` keeps the run's own id apart from the last one.
    `HeldIsNamed` is what makes `PreviousEnded` speak of every session an earlier run opened and not
    of the file's: a session of the machine on the lock is the one the run found in its file, its
    own, or `unnamed`. Across a death it needs `AnswerTells`: an open answered ok has left nothing
    else of the machine on the lock, and an end answered ok, now or from the table
    (`EndRecords`), has taken its session off it. `unnamed` is excluded because the code leaves it
    there (`MCKeptUnnamed`). `lagged` excuses more than a corr that fell behind: a run that dies
    between the open and the end of the previous session moves the probe's newest corr up to
    that of the next run's open, which is then answered from the table instead of handled.
12. `RecordsInWindow`: the table holds no corr outside the window, so one that is ahead is not in it.

**The pins.**

13. `PinsKeptApart` is inductive with the types. Its centre is `PlanAfterApply`: a function whose
   assignments are the same as before is left alone, so the plan becomes the request and what the
   request does not name (`Others`), the set `ApplyRefused` looked at. `PadsKeptSafe` uses the same
   lemma, `PinsKeptSafe` joins both; `RunningKept` follows from `Regrouped` containing no running
   function.
14. `SaveBringsBack` needs `StoreInv`: settings that need no save are the store's, they are ones
   this firmware takes, and state never tells of a later generation than the present one.
15. `PinsParked` and `LineKept` have a hypothesis each. `OnePinPorts`: every wire has one pin; with
   two the statement is false (section 6). `OneGpio`: one function is the gpio.

**The port's rate.** `RatesStayAgreed`, `ReturnsFindProbe`, `EndLeavesOneRate` follow from one
invariant, `SpeedInv` (`SpeedInvariant`), of six parts:

16. A port only *calms* by itself (its timers, a session's end and a takeover call a raised rate
   off and never raise it), and only a request of the session that holds the lock raises it: a try
   or a commit. So it is enough to follow what the host is waiting for. `RateInv` says for each
   place of the host's loop how the two rates stand (at rest `Agreed`: both at the boot speed or
   the port on its way there, or the port committed to the host's rate); `TryInv` where a try may
   run; `LockInv` that without a session of the host's the port is home; `EndInv` that an end that
   has run left it home.
17. `ReturnInv` is the argument of `back_to_base`: its wait (`until`) is longer than what the
   port has left of `verify_ms` or of its idle time, and both run at the same pace, so the last
   confirm meets the port at the boot speed.

**The settings command.** `OneMomentRead`, `ReadsEnd`, `SaveTold`, `WhatIsDone`:

18. Every change of the values counts the generation up, so within one boot a generation names the
   values. `PagesInv`: pages of the generation of now are a prefix of the values of now, so the
   last page makes them those values. Between two boots this is false and the theorem says so
   (`read.whole` speaks of one boot; section 6).
19. `AgainInv`: a reading starts over only for a generation that moved, and each move is counted
   once: `StartsOverForChange` bounds the rounds of a reading by the changes under it, which says
   as a safety property why it ends.
20. `SaveInv`: a lock that is lost never comes back to the command (only `Take` takes it, once),
   so what it read under its lock still holds at its end; and an `end` without the lock is refused,
   which turns a lost lock into a failed command. `StoreInv`: a store whose state tells of this
   generation holds the values of now.
21. `WorkInv`: while the command has its lock, the requests it has left make what it says of the
   values now. `Makes` says it: whatever a request names gets the value it is due, and what none of
   them names has it already. Two requests never differ about a value, so their order is no matter,
   each one taken leaves the rest true (`SendMakes`), and none left means done (`WorkDone`). That a
   plan begins that way is `PlanMakes`: of the values a reading of one boot listed (`RowsAre`,
   `WholeRead`), the two lists of `plan_import` (`PlanIs`), cut into requests (`BatchesAre`), make
   the file's values. `PlanInv` carries it from the reading to the lock, where it is of the values
   now if those are the ones found. The theorem rests on `SettingsAssumption`: a firmware declares
   a name once, and a file gives a value once (its members are those of a JSON object; two
   spellings of one index, `1` and `01`, are left out).

**Acquired segments.** `RingIsHeld`, `SegmentsAreTrue` and `TriggersAreTrue`, on `ReadInvariant`,
for every configuration, every input, any size of read, and whoever takes the lock and starts the
track.

22. `Good` is what a track is, whatever was asked of it: its bytes are those of the kept segments, from
    the oldest on, and each segment's are the samples of its time (`Ring`, `Placed`, `Names`), the
    serials run on, and without a trigger a segment begins where the one before ended, or says a gap
    (`Joined`). The first half of `CaptureProofs` shows that every operation keeps it, and that its result is
    `Later`: what was kept still is, in its place. A stop and a release forget, so they have lemmas
    of their own.
23. The operations that run until nothing is left to do (`TickRepeat`, `OfSerials`) are recursive
    functions. What they give is shown of the least round, or length, at which it would be false
    (`LeastOf`, from the well-foundedness of `<`), and that such a function exists at all in the
    same way (`RoundsKeep`, `IsChoice`): an induction that passes no operator.
24. `RingHolds` says nothing about the host's half. `HostTrack` adds that under its lock the track is
    the one it started, and that what it reads next is in the ring from the serial it wants on.
    `Readable` is for when the lock is gone: a read that names a record's generation is answered with
    that record's samples, or the track has forgotten them, or has a later generation (`HostTrack`
    says nothing then). So pieces of one segment never mix. `Follows` ties the last part to the next
    segment: it begins where the part ended, or says the gap that `_repeat_result` leaves room for.
25. `TriggersAreTrue`: what a finished segment says of its trigger was decided while it was taken, so
    `Marks` follows the pending one (`Pending`): its index is an edge's or a force's as long as the
    track captures, and the samples still to come are what was asked for after it; a paused track
    has none; with rearm the next trigger is looked for behind the last segment (`Over`). What a
    search found depends on what the looks before it kept: `Told` says that it has looked at
    nothing yet and will read the sample before its first (`Blind`), or that `trigger_previous` is
    the level at the sample before `trigger_scan` and no edge is behind that. `Search` carries it
    over every look, at whatever times they come (`Compared`, `HitIsEdge`, `LookedTold`). Each
    operation has a lemma, from `PollMarks` to `ReleaseMarks`. A rearming search is `Told` at its
    start only with arm 1 and a pretrigger; the theorem says so (`Sure`), and `MCCaptureRearmed`
    shows that without them the code names samples at which no edge is (section 6). The hypothesis
    `NoRearmForced` (no rearming repeat is forced) is needed too: one that is forced while a full
    ring pauses it keeps the index across the pause (section 6), and its next segment has an index
    where no edge was. TLC finds that counterexample with such a configuration in `Forcible`.

**Several requests in flight.** `InOrder`, `EachToldTrue` and `OneFault`, for any number of requests in flight,
framing, list of calls, number of resends and confirms, and however many frames are lost, broken or
late. A session's corrs do not come round in them (`MaxCorrs + 2 <= HalfRange`; half a lap is 0x8000
requests), but its first corr is any, so they wrap past 0xFFFF; what happens when one does come
round is `RunsOnce`. They rest on what is proved of the probe's operations.

26. `FirstInv` is what holds whatever is lost. `Asked` is every request that waits, is on the way,
    is queued, or has an answer on the way or in the table: one corr names one of them (`Named`), the
    call's own follow each other (`InLine`), and everything that ran is in the order of the corrs and
    not newer than `newest` (`Ordered`). The probe's circular comparison is the order in which the corrs
    were taken (`PastAhead`), so what it does not refuse as a copy is newer than all that ran
    (`FreshIsNewer`): that is `RunsInOrder`. `OkRan` and `Unsent` follow the answers and the requests
    that wait for a recovery: a call told `not_sent` has nothing anywhere.
27. `Whole` is what holds as long as no request was lost. `exchange` sends again from the first
    request without an answer on, in order, so on each connection a request comes only behind the
    older ones that wait, or these were processed (`NoGap`, `DoneReached`). Hence the probe never
    passes over one. And only `MaxInflight` requests, from the first one without an answer on, are
    ever sent (`Windowed`), so a table of as many records keeps the answer of each one that waits
    (`AllKept`, by counting the records newer than it: `FewBetween`, `TableKeeps`), and no answer to
    them is `result_lost` (`NoneLost`).
28. `EachToldTrue` has the hypothesis `TableHolds`: the table has room for what may be in flight, as
    the endpoint's defaults have (`endpoint.py` 627-628: `max_inflight` 4, `remember_count` 8) and
    `virtual_core.py` 226 ensures (`max(8, max_inflight)`), and the writes and their answers are
    within `remember_max`. With a table of one less TLC finds a result lost (the mutant of
    `ResultsAreTrue`). The other two parts of `ResultsAreTrue` do not use it.
29. `OneFault` looks at `Pipe`, what is between the host and the probe on the connection in use, by
    its corrs, in the order in which the host will see it: answers on their way, what is queued there,
    requests on their way. Handling, answering and queueing a request leave it as it is; the host
    reads its first, a fault takes one of it or tears its first, and a copy that is dropped was
    behind another of the same request (`QuietKeeps`). `Harmless` says what it may be. With no fault
    it is what is out, nothing else (`Unhit`). One fault makes one of those missing, and the host does
    not know (`Amiss`): the answers ahead of it are still taken, until a wait or a broken frame shows it. Then
    the requests go again: at once after a broken frame on a serial port, between what is still on
    its way (`Mixed`), after a confirm that comes behind everything on a USB pair, and on TCP after a
    broken frame (`Sought`), and after a wait that was long enough nothing is left. From then on, or when an answer
    was only late, each request that is out comes, and behind the older ones (`Fine`), so what is
    read past was never needed (`PastKeepsFine`). `Answering` adds that the probe's answers are in the
    order of its queue, and that each is of its request.
30. Its hypothesis is `BrokenResends >= 2`; the code has 3 (`link.py` 154). A broken frame spends one.
    After it the copy of a later request that is still queued is dropped, and the answer to that
    request comes ahead of the first one's and is read past, so the call has to have a wait left.
    With `BrokenResends = 1` TLC finds the call that fails.

Each invariant was an invariant of a TLC run before it was proved.

**Only model-checked:**

* all liveness (`CallsEnd`, `NoLockStranded`, `PortComesBack`, `SpeedCallsEnd`, `StreamEnds`), which with
  ENABLED is beyond the prover;
* `CaptureStream`: `PartsTrue` and `NoSilentLoss` are about sums over frames, which the module folds.

## 5. Hazards

`PROJECT.json` lists forty with their lines and the properties that would catch each going wrong.
By actor: copies and the bounded table (`probe_lock`); locks that end under what they own
(`probe_owned`); answers that come late, broken or twice (`host`, `pipeline`); hosts that die
(`host_live`, `kept_runs`, `port_speed`); timers on both sides of a line (`port_speed`); pins
several functions want (`pins_plan`); values that move between two requests (`settings`); samples
overwritten, lost or mixed while they are read (`capture_read`, `capture_stream`).

## 6. What the checks found

Everything stated about the probe's lock, table, belongings and pins, about what a caller is told,
about the two ends of a serial port and about acquired data holds, under the conditions the
properties name. Sentences of the repository that do not hold, each with its counterexample:

* **Pushes do not follow** (`pipeline_pushes`). `host.py` 828-829: only a subscribe again moves a
  subscription off a closed TCP connection, and the host sends it. If the answer of a subscribe
  itself breaks the connection, its resend on the next one is answered from the resend table; the
  host takes it for a subscribe there and never subscribes again.
* **A session no file names** (`MCKeptUnnamed`). `kept_session.py` 3-8: the id of an open session is
  in a file, and the next run ends that session before its first open. The file is told once the
  answer of the open is read (`host.py` 599) and is truncated before it is written; a death from
  the open the probe takes to the end of that write leaves a session that the next run neither
  knows nor ends, and meets as `locked` until its lease is over.
* **The reserved corr** (`MCKeptReserved`). The header of `kept_session.py` promises a reserved
  corr less than half the space ahead. Requests of session_id 0 renew the block too, so it may lead
  the session's last corr by `RESERVE` more than the room check allows; the next run's open is then
  answered result_lost (`PreviousEnded` excepts it as `lagged`).
* **An ended id is opened** (`MCKeptEnded`). `end_previous` asks who holds the lock and opens in a
  second request; the lock may end and be another's in between. The `end` that follows ends it.
* **A hold returns** (`MCPinsHold`). A hold ends once its pins are taken or an idle or disable
  lands on them. `held_ports` looks only when `holds` is read: what came and went ended nothing.
* **A gpio's line is forgotten** (`MCPinsShared`). gpio modes are kept by channel, and whoever
  drops a plan takes them along (`endpoint.py` 1798, 1911, 1932): after a logic capture that only
  listened on the line is released, the gpio's line is told as idle.
* **A confirm does not come first** (`MCPipelinedConfirm`). A resync that ends in a
  `ConnectionError` leaves `failed_transport` unset, so the next call goes out without the confirm
  `link.py` 549-551 promises.
* **The probe is not found on opening** (`MCPortOpen`). `link.py` 1306-1308 says a probe left at a
  raised rate is back within `OPEN_RETRY_S`; one in a try of a rate above the default ceiling stays
  for the longer `verify_ms` of that try.
* **Not switched together** (`MCPortSwitch`). `link.py` 1836-1837: once the answer of a try is
  read, the probe has switched; the answer may be a replay, and the try already over.
* **A trigger where no edge is** (`MCCaptureRearmed`). `_scan` returns "the next sample ... the trigger
  holds at" and keeps what it saw for the next call (`virtual_bench_capture.py` 903-904). Between two
  segments `rearm_after` moves `trigger_scan` to the segment's end and leaves `trigger_previous` what
  it was at the old trigger (1037-1041); `_scan` reads it anew only if `trigger_scan` is before the
  first sample it may look at (909), so not with pretrigger 0 and not with arm 0, which
  `acquire.py` 743 asks for. The first sample behind the segment is then compared with the level at
  the last trigger: a segment begins at a sample where the input stood still, or an edge exactly
  there is missed. With pretrigger 0 and a period of 8 samples high and 8 low, triggers on either
  edge with segments of 12 come at samples 8, 20, 40, 52: none is at 20 and 52, and the one at 32 is
  missed.
* **A force starts a stopped repeat** (`MCCaptureForced`). `rearm_waiting` outlives `stop` and the
  pause of a full ring, so `force` starts segments again (`virtual_bench_capture.py` 1058 against
  its docstring and `capture.py` 748).
* **Bytes past an error** (`MCStreamPastEnd`). `_collect` always stops before it finishes, and a
  stop turns the state `error` into `configured` (`virtual_bench_capture.py` 1195), so what
  `capture.py` 709-718 and `acquire.py` 1571 do for a stream that ended in an error never applies.
* **Two boots in one reading** (`MCSettingsBoots`). Two pages of two boots with the same generation
  pass for one reading: generations start again from 1.
* **An import names other items** (`MCSettingsNames`). An import planned in one boot is sent by
  number to a probe restarted with another firmware (`settings.py` 5-6: values are kept by name).
* **An import refused midway** (`MCSettingsSplit`). Two labels that change places, in a file large
  enough for two requests, are refused between the requests: each request is checked by itself.

Met while reading and modelling, stated by no configuration:

* A hold over two pins that ends because one was taken parks neither (`ParkedAtIdle` is checked and
  proved for one-pin ports). Two assignments of *one* `plan_apply` are not checked against each
  other for a pin both would drive; the model has it so.
* `_session_room`'s promise holds without the link's own confirms, which take corrs of the same
  counter unseen (`unseen` in `CorrsStayNew`).
* A request lost on COBS in the middle of a pipeline lets the later ones run without it, and is
  then told as result_lost although it never ran (`host.py` 475-476); `ResultsAreTrue` has it as
  `cut`. Resent copies are answered behind what is queued, so answers come out of order.
* `no_session` at a raised rate leaves the host there without a session; `RatesAgree` covers it
  because the port has gone home. `_speed_fallback`'s branch for broken frames is reached from
  `send` only with a step down due.
* A lock lost between the stop of a stream and its last status hides the loss count: `NoSilentLoss`
  speaks of one lock (`taken = 0`). After a forced takeover `wait` may return another session's
  segments (`capture.py` 814). A stream joined in the middle of a segment gets a `tick0` of the
  segment (`acquire.py` 1628-1646): `PartsInTime` speaks of streams had from their first byte.
* "Saved already" in a settings command is safe only because `end` is refused once the session is
  gone: noticing a new boot_id does not clear the session.
* Console (read only): a read from the oldest byte never says that bytes were lost before it
  (`endpoint.py` 2824-2831 against `probe_log.py` 15-18), and a position past the end, after a
  restart, is answered with the end and no gap (2836), so the bytes since the boot are skipped
  uncounted. Capture groups: `endpoint.py` 1132-1137 and `VirtualGroup.tick` tell overflow
  differently.

## 7. Not modelled, and the plan

In this order:

1. `PositionStream`: positions, losses, marks and their paging, the write queue and a restart, on
   the stream life that `ProbeSession` already has (`console.py`, `probe_log.py`, `endpoint.py`
   2800-2860).
2. `Memo`: objects in parts with a checksum, torn reads, paging without a generation. Only the
   host's half is in the repository's core; the probe's would be external.
3. Capture groups, level and crossing triggers (`when`, `hysteresis`, `trigger_false_seen`,
   `trigger_ready`), the events and records a trigger leaves (a rearming stream's too), and the
   one-shot reader `_one_shot_result` beside `CaptureRead`; channel groups and pass-through ports
   beside `ProbePins`.
4. The window of `exchange` in bytes, automatic keepalives at a raised rate, and the lock of the
   kept session's file, for two processes at once.
5. Theorems: `PartsTrue` and `NoSilentLoss` of `CaptureStream` once its folds are recursive
   functions.

Left out for good: sample and register data and their encodings, wording and layout, COBS and
length framing byte by byte, discovery and rendering, debug wires and targets (sequences of
register accesses without state shared between actors), the measurement ratios that choose a rate,
the virtual bench's I/O, the command line's parsing, the conformance runner (it tests other
programs), and the ports and settings of real hardware.
