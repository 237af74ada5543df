# Lunar: TLA+ models, checks and proofs

Lunar (the product of the *timeactual* repository) is a Windows desktop clock
that does not believe the Windows clock. It polls six time sources, accepts an
hour only when two authenticated NTS anchors of different operators and a
super-majority of four plain SNTP cores concur, disciplines a projection of
`QueryPerformanceCounter` (QPC) with it, and shows the time with a worst-case
error bound, or stops the hands. The core is C (`src/src`), the shell is Tcl/Tk
(`src/lunar.tcl`); `src/docs` says what is promised.

This directory holds TLA+ modules of that program, TLC configurations that check
them on small instances, and TLAPS proofs. `PROJECT.json` maps every definition
to the source lines it translates.

## 1. Inventory

### Components

| component | state | operations | talks to |
|---|---|---|---|
| Disciplined clock, `clock.c` | anchor, drift rate, trust flags, fault streak, inflation of the bound, generation; `discipline.dat` | `Clock_OnPollCycle`, `Clock_OnSyncedNtpUtc`, `Clock_OnCoreWitness`, `Clock_GetDisplayUtc`, the hooks, init and shutdown | called by the aggregator and, five times a second, by the face |
| Concurrence gate, `Ntp_Concur` in `ntp.c` | last spreads | one judgement of six worker reports | its verdict goes to the clock |
| Polling engine, `ntp.c` | `g_running`, the shutdown and idle events, the worker count, two handles, context references | `Ntp_Start`, the aggregator, six workers, `Ntp_Shutdown` | Tcl thread, aggregator thread, worker threads that may outlive their cycle |
| Workers, `ntp.c`, `nts.c`, `netutil.c` | candidates of each slot, kiss-of-death exclusions, round-trip tiers, the sticky draw | draw, ask, replace, exchange, exclude | DNS, NTS, sockets |
| Poll scheduler, `lunar.tcl` | timer, good and bad streak, time of the last forced poll | `repoll`, `next_poll_ms`, `poll_now`, the user's sync, the stop rule of the face | engine and clock |
| Pin store, `pin_store.c`, with `pinned_tls.c` | keys per endpoint, time of the last renewal, `pins.dat` | load, copy, collect, renew, save, persist | NTS-KE, DoH |
| NTS sessions, `nts.c` | cookie jars | `Nts_FetchSampleEx` and the jar | NTS workers of overlapping cycles |
| Codecs and cryptography, `nts_ke.c`, `nts_ef.c`, `siv.c` | none | byte formats | |
| DNS over HTTPS, `dns.c` | cache, failures and back-off per resolver, HTTP/2 opt-outs, preferred family, rotation candidates | resolve, invalidate | all workers |
| HTTP/2 client, `h2.c` | the connection of one exchange, with its table of headers (HPACK) | `H2_PostOnce` | DNS over HTTPS |
| Log ring, `logbuf.c` | entries of a day, sequence numbers | append, collect | every thread |
| Event store, `lunar.tcl` | list in memory, cursor in the ring, two files | `ev`, drain, load, persist with rotation | log ring, disk |
| Time zones, `tz.c`, `tzif.c`, `lunarx.c` | display zone, one-entry cache | find, resolve, break down | the face |
| Face, chime, tray, update check, start-up | what is drawn | render | clock |

### What is hard here

* **Interleaving.** A poll cycle touches the clock in three lock sections;
  between them readers (whose read may *change* the continuity flag), hooks and
  the machine act. Workers that hang are detached and finish in a later cycle,
  with their context, their candidates, their cookie and their place in the worker
  count. Jar, pins, resolvers and cache are locked for one access at a time, so
  threads decide on copies.
* **Two timescales.** QPC stands still during sleep, `GetTickCount64` does not;
  an anchor has one reading of each, taken at different moments. Certificates are
  judged by Windows on the system clock and by the pin store on the disciplined one.
* **Ordering.** Six samples are captured seconds apart. Timer, forced and user
  polls start cycles that may last a third of the base interval.
* **Slow state.** Fault streaks, back-offs, jars, pins, tiers and sticky draws are
  decided by sequences of cycles no single test writes out.
* **Failure.** The process may die at any step, in the middle of a write too; the
  network may fail, hang, lie in one anchor, or lie in a core.

The hazards of each kind, at their lines, are the `hazards` of `PROJECT.json`;
each names the property that guards it or says why none does.

### What makes each component correct

| component | correctness |
|---|---|
| clock | the bound covers the error; OK is fresh and never inflated; only evidence climbs; samples that jitter within reason never lock it out; a step of the time needs evidence that tells one story |
| gate | one lying anchor cannot exceed the measured uncertainty; two cannot leave the threshold while a core majority is true; capture times do not matter |
| exchange | half the round trip and the server's claim cover the error of a sample |
| engine | one cycle at a time; no use after free, double release or torn read; no lost idle event; everything ends |
| sources | an excluded host is not asked; two slots that answer are of two operators, unless a late report raced the draw; any two operators that answer can be drawn |
| scheduler | a healthy program is never made to look unhealthy by its own pace; lost time is not polled at leisure, but in one order of events |
| cookie jar | no cookie is sent twice; only enrolled sessions are reused; keys and cookies stay together |
| pin store | a crash leaves an old or a new set, whole and in order; renewals are paced; an early key needs a second sighting |
| HTTP/2 | a response is returned whole, with its own status, or not at all |
| DoH | a sweep asks everybody before it fails; a storm leaves nothing that keeps lookups failing |
| log and events | every entry is stored once or counted as lost; no crash and no torn write costs a record that could be read, and a rotation costs at most the older generation |
| time zones | the calendar is a calendar; the offset is the one in force |

## 2. Modules

```
CArith -- CArithTheorems                        (used by the proofs marked *)
   |
   +-- Qpc
   |    +-- Clock --------- MCClock             ClockProofs * (Clock, ClockEvidence)
   |    |    |  `- ClockEvidence -- MCClockEvidence -.
   |    |    `- INSTANCE -> TrustLadder         (abstract specification)
   |    `-- Concur -------- MCConcur ----------------+-- MCEvidence
   |                                            ConcurProofs *
   `-- Exchange -.
Sources ---------+-- MCWorkers                  WorkersProofs * (Exchange, Sources,
CookieJar -------|                                               CookieJar, H2)
H2 --------------'
NtpLifecycle                                    NtpLifecycleProofs
PollScheduler -- MCPollScheduler --.            ShellProofs * (PollScheduler,
TimeZone ------- MCTimeZone -------+-- MCShell               EventLog, TimeZone)
PinStore ------- MCPinStore                     PinStoreProofs *
   `- INSTANCE -> PinLedger                     (abstract specification)
EventLog ------- MCEventLog
   `- INSTANCE -> EventLedger                   (abstract specification)
Dns ------------ MCDns                          DnsProofs
```

* **`CArith`**, **`Qpc`** - C's truncating and rounding divisions, clamps; the performance
  counter in milliseconds.
* **`Clock`** - all of `clock.c` that changes state. The variables are the guarded
  globals of the file. `g_lastSyncQpc/Utc` always equal the anchor and are part of
  it; `g_pendingAnchorErrMs`, staged by the same thread just before, is
  `cycle.err`. A cycle is `Capture*` (the verdict, made outside the clock), then
  `ClassifyGated` or `ClassifyFailed` (first lock section of `Clock_OnPollCycle`),
  `LayAnchor` (`Clock_OnSyncedNtpUtc`), `PublishOk` (last section), or
  `CoreWitness`. `ReadDisplay` is `Clock_GetDisplayUtc`, with what its derivation
  changes. `Advance` and `Sleep` are the machine, `Shutdown` and `Restart` the
  process. True UTC is `wall`, so a sample is given by its true error and its
  measured uncertainty.
* **`TrustLadder`** - what `clock.h` promises readers: a tier, a bound, and whether
  an authenticated cycle is at work. `Clock` refines it (`ClimbsOnlyOnEvidence`);
  the mapping takes the tier from the *derived* display state, so that a reader
  who finds the anchor stale weakens the ladder.
* **`ClockEvidence`** - `Clock` with a history of reported disagreements, to say
  what the streak variables are meant to count.
* **`Concur`** - `Ntp_Concur` over every combination of worker reports; one
  operator per stage (projection onto one QPC, pair, delta, super-majority, median,
  core-only cluster, uncertainty).
* **`Exchange`** - `NtpQueryHost` and `nts_udp_exchange`, which compute the same. The
  request, the server's two stamps and the reply are steps with any delay between
  them, so the route may be asymmetric and the thread preempted. An honest server's
  clock may be steered within its claim between the stamps. QPC is true time here:
  the drift of a second is the clock's business.
* **`Sources`** - whom the workers ask. Core: `PickCoreSources` over the hosts without
  an exclusion, one or two candidates per slot, `Ntp_MarkKissOfDeath`, detached
  workers that go on with their candidates. NTS: `Nts_PickProviders` step by step. It is
  reused (`NtsReuse`), or drawn in three passes (`NtsDraw`, `NtsPass`, `NtsTake`), each of
  which reads the round-trip tiers anew and takes what it finds of its tier in any order;
  then the first of each operator and, where those are too few, others (`Picked`). A worker
  that was detached may report its round trip at any moment of a later cycle
  (`ServedLate`), in the middle of a draw too; `raced` remembers that it did.
* **`CookieJar`** - `Nts_FetchSampleEx` and the jar functions for one host, with the
  workers of overlapping cycles. A cookie is a serial and a session; it works with
  the keys of its session only. The pool has 9 hosts and the jar table 12 slots, so
  nothing is ever evicted and hosts do not meet.
* **`H2`** - one exchange: frames come in the order sent, so each is sent and handled in one
  step. The server compresses each list of headers in any way RFC 7541 allows, may shrink
  and grow its table, cuts the block anywhere, and may send interim responses, trailers and
  frames without effect. The client's side is `H2_PostOnce` and `Hpack_Decode` with its
  table, oldest entry first; the server's table is computed as the RFC words it.
* **`NtpLifecycle`** - the threads of `ntp.c`: each interlocked operation, event,
  wait and thread creation that another thread can come between is a step. `Start`
  and `Shutdown` belong to the Tcl thread; every cycle has an aggregator; every
  slot of a cycle has a worker that may hang for ever. An event wait that fails,
  runs out of budget or of shutdown grace is `WaitExpired`.
* **`PollScheduler`** - the shell's scheduler composed with the few bits of clock
  and engine it sees. One unit is about 10 s; the render loop (5 Hz) therefore acts
  before time passes. Every behaviour picks a *world*: which outcomes cycles may
  have, whether QPC breaks, whether the user polls, whether the system clock is
  stepped back. A break may come at any moment, with a cycle in flight too, and the bound
  may grow past the ceilings at any moment (`Grow`).
* **`PinStore`** - a connection is `Read` (copy the record, choose the pins, look at the
  renewal window), `Handshake` (`PinnedTls_OpenEnrolledSet`: match, or ask the CA),
  then `Save` and `Rename`/`PersistFails` (`PinStore_SavePin` and `PersistLocked`), or
  for an early leaf `Observe` (DoH) or `Promote`/`Discard` (NTS). The store is locked
  from `Save` to the end of the write. `Restart` comes at any step, with a readable
  file or without, under a right or wrong system clock.
* **`PinLedger`** - what the pin store promises: per endpoint, the last few keys a CA
  confirmed, and a durable copy that is an earlier whole state. `PinStore` refines it
  (`KeepsLedger`).
* **`Dns`** - one or more threads followed through cache lookup, sweep, passes, one
  query, the other record type, the system's resolver and the connection; all other
  threads are `OtherWorker`, any change they may make to the shared state at any
  moment. Times are what is left of them, so time can pass for ever.
* **`EventLog`** - the ring with its writers (`Stamp` before the lock, `LogAppend` under
  it), and the shell: `Ev`, `Drain`, `LoadHistory`, `Quit`, and `events_persist` as
  `RotateDelete`, `Rename`, `Write`, each of which may fail, be cut short, or be the
  program's last. `EventLedger` is what its two files promise (`KeepsHistory`).
  In it the older generation is given up in a step of its own (`Retire`), which is possible
  only when the current file is over its limit; that a new one takes its place
  (`Rotate`) is not promised, because the code does not.
* **`TimeZone`** - `Tz_FindByName`, the cache of `lunarx.c`, `tzif_resolve` with table
  search and footer, `posix_resolve`, the breakdown into a date. Minutes instead of
  seconds; names are ranks. The reference it is compared with counts days one by one
  and reads rules as IEEE 1003.1 words them.
* **`CArithTheorems`, `*Proofs`** - lemmas and theorems (section 6).
* **`MC*`** - instances. `MCWorkers`, `MCShell` and `MCEvidence` hold several components that
  share no variable: a behaviour picks one part and moves that, which adds their state
  spaces instead of multiplying them. `MCEventLog` does so with the parts of `EventLog`.

A definition marked *Mutant* or *a plausible slip* is a wrong version of the one after
it. Nothing uses it; `PROJECT.json` `mutants` says which property notices when it
replaces the right one.

## 3. Runs

| run | module | what is asked | distinct states |
|---|---|---|---|
| `ClockSafety` | `MCClock` | bound, freshness, ladder and recovery with sleeps, jitter, congestion and witnesses | 0.4 M |
| `ClockRestart` | `MCClock` | the bound across crashes, bad files, hooks, unmeasured samples, both signs of drift | 2.6 M |
| `Evidence` | `MCEvidence` | lying anchors, lying cores, capture skew; steps of the time need one story | 1.8 M |
| `NtpThreads` | `NtpLifecycle` | overlap, references, idle event, termination | 0.3 M |
| `Shell` | `MCShell` | the pace of polling against the staleness window; the wall clock through zones and years | 3.0 M |
| `Workers` | `MCWorkers` | whom the workers ask, what they spend, what an exchange is worth, what HTTP/2 returns | 1.4 M |
| `PinStore` | `MCPinStore` | pins across threads, rotations, expiry, wrong clocks, failed writes and crashes | 0.9 M |
| `Dns` | `MCDns` | sweeps under changing back-offs; recovery after a storm | 0.4 M |
| `EventLog` | `MCEventLog` | gaps, history, files across crashes, torn writes and half-way rotations | 2.6 M |
| `DrawRaced`, `FooterHours`, `JarMixed` | `MCWorkers`, `MCTimeZone`, `CookieJar` | statements of the repository that the code does not keep (section 5) | - |

What the passing runs show:

* `HonestBound`: whenever a running time is shown, true UTC is within the bound of
  it (plus 2 ms for rounding), whatever was accepted, held or escaped before. It is
  conditional on `RateDefensible`: with the rate in use, a step of the oscillator's ticks
  is worth a step of true time but for the allowance the bound grows by. That is the
  bound's own premise; the drifts and rates of the runs reach its edge. And it is a
  promise about samples that are off by no more than they confess
  (`SamplesWithinError`) and about sleeps the tolerance cannot hide
  (`PausesAreNoticed`): `MCClock` assumes both, so TLC checks that the instances keep them.
* `OkIsFresh`: the age of an OK is measured in *true* time from capture, not from
  when the code wrote it down. Its premise `CyclesKeepTime` says that the oscillator
  gains or loses less than 2 ms during a cycle; one of 50 ppm does, over the 40 s of the
  longest cycle.
* `OkNeverInflated`, `PublishedTierHasAnchor`: the three lock sections agree.
* `ClimbsOnlyOnEvidence`: refinement of `TrustLadder`.
* `AlwaysRecovers`: once the samples of gate-passing cycles jitter by no more than a
  quarter of the fault threshold, OK comes back again and again, whatever wrong anchor
  is held. The limit is the code's: a streak goes on only while residuals stay within a
  factor two of its first (`clock.c:692-701`). Residuals that keep alternating by more
  restart it in every cycle, and the clock stays in holdover for as long as they do.
* `StepNeedsEvidence`: `LOCAL_FAULT_ESCAPE_N` disagreements of
  one sign and consistent size, and nothing less, step the displayed time off an
  intact anchor.
* `ErrorCoversLiar`: the comment in `ntp.c` prefers the sum of the halves to the
  larger of them; here is the reason, for every pair with one honest member. Moving a
  sample to the QPC of another cuts 1 ms (`MoveMs`), and so does halving the spread
  (`MidpointMs`): the property allows for them, and the runs, whose ticks are half a
  millisecond, meet them.
* `MajorityHoldsAnchor`, `TruthAgrees`: see section 1; `MajorityHoldsAnchor` allows 1 ms
  for the same reason.
* `OneCycle`, `RefsCountHolders`, `NoTornHarvest`, `IdleNotLost`,
  `QuietAfterShutdown`, `CyclesEnd`, `ShutdownReturns`: threads.
* `HealthyNeverStale`: with only the timer polling, intervals and cycle durations
  can fall in no way that makes a healthy OK stale. `FalseAlarmIsBrief` bounds the
  damage a user's sync can do. `RecoveryNotRelaxed`: with lost time on the face, a
  poll is at most a base interval away, whether the time was lost between cycles or in the
  middle of one. It has one exception, `cured`: section 5.
* `FaceKeepsCalendar`: at every midnight and around every change of an offset, over
  leap years, eras of 400 years and new years, the date on the face is the one
  counted by hand. `OffsetInForce`: and its offset the one the zone's table and footer
  ask for at that minute, whichever zones were chosen before.
* `KodHonoured`: an excluded host is asked only by a worker that held it when the kiss
  came. `PairDiverse`: the gate's two operators are two, whichever primaries and
  replacements answer, in every cycle that uses a draw no late report disturbed
  (`DrawRaced` is about the others). `PairInReach`: whatever round trips were measured, if
  two operators are in reach, some shuffle serves both slots, provided no late report
  disturbs the next draw. It reasons about draws as
  wholes (`FreshDraws`); that the passes come to just these draws while no tier changes is
  an assumption TLC evaluates on every type of tiers (`DrawsAreFresh`).
* `ErrorExplained`: `clock.c` and `Concur` take half the round trip and the root error
  for what a sample may be off. They cover it but for 3 ms of cutting to milliseconds
  (`Honest` servers only: a liar is the gate's business). `HonestBound` rests on it.
* `SpentOnce`, `EnrolledMeansEnrolled`: jar.
* `WholeOrNothing`: however a server compresses and cuts its headers, what is returned is the
  status and the body it sent, and only a server that goes away or outgrows a fixed size of
  the client is refused.
* `KeepsLedger`: refinement of `PinLedger`. `NoRenewalStorm`: per thread, a renewal of a
  pinned key at most once per cooldown. `SecondSighting`: an early DoH key is saved no
  sooner than ten minutes after it was first seen in the run, whatever became of its
  slot.
* `NeverStranded`: a sweep that gives up has asked every resolver, but for one whose
  back-off ended under it. `Recovers`: once the network has settled, lookups end up
  succeeding and their addresses answering.
* `NeverSilent`, `LoadLosesNothing`: log. `KeepsHistory` (refinement of `EventLedger`): the
  records of the current file stay readable and in order through crashes and torn writes,
  until the file is over its limit and becomes the older generation as a whole.
  The older generation goes only then, but a rotation that stops half-way leaves none.

Deadlock is checked in every passing run but two: `Evidence` stops after the gate's single
judgement and when the history of a streak is full, `EventLog` when its numbers of
ticks, events and runs are used up.

## 4. Bounds and fairness

Clock constants are scaled (a step of 10 ms stands for a poll of 8 s, rates are
parts in 20, a QPC tick is half a millisecond) so that ticks round, projections
truncate and one cycle's drift is visible in the bound. `FAULT_THRESHOLD_MS`,
`CYCLE_STALE_AFTER_MS`, `CONTINUITY_TRIP_*`, `MIN_RATE_INTERVAL_MS` and the
clamps keep their order: an interval that measures a rate fits several times into
the staleness window, and a congested sample exceeds the fault threshold while its
uncertainty excuses it.

| bound | value | why enough |
|---|---|---|
| `Horizon` of `Clock` | 80, 40, 50 ms | the staleness window twice; an escape (3 disagreements) fits several times. Cycles go on at the horizon, so liveness is not cut off |
| `MaxPauses`, `Pauses` | 1, longer than twice the tolerance at its largest | a tripped anchor is replaced; two pauses are two such stories. A pause below the tolerance (2 s or 1 %) is outside the bound by design of the tolerance. One above it may still be hidden in part by a fast oscillator's gain before it, which the tolerance forgives too: hence twice (`PausesAreNoticed`) |
| `MaxInFlightMs` | 11 or 0 | a cycle that takes one time step, or none |
| `Samples` | off by a quarter of the fault threshold to either side, congested, unmeasured, lying with an error they confess | jitter that calm samples are allowed (`CalmSamples`); only samples with an error within their uncertainty (or the floor) are given to `HonestBound`: that is what `Exchange` and `Concur` guarantee (`ErrorExplained`, `ErrorCoversLiar`) |
| `Files` | none, recent with a rate that adds to the drift of a fast oscillator, stale and out of the clamp | each branch of `LoadDiscipline` and of the first rate |
| `MaxRestarts` | 1 | a start after a start reads the same file |
| `MaxHistory` | 5 | more than an escape and a restart of the streak |
| `MCNts`, `MCCores` | errors 0, slight, at and beyond the threshold, on both sides; two capture times at an odd number of half-millisecond ticks, two round trips | every branch of the gate; all combinations of four cores |
| `Slots`, `MaxCycles` | 2, 2 | the code runs the same loop over each slot; overlap needs a worker of the cycle before |
| poll constants | 1, 6, 24, 4, 30 | a unit of 10 s; the ceiling is 24 units instead of 60 (two doublings of the base interval instead of four), and `StaleAfter` is derived from it as in `clock.c`: ceiling, plus budget, plus a margin of two units. `WindowClearsRenewal` is what the theorems need of that derivation, and of a cycle being shorter than a base interval |
| `NTSKE_MAX_COOKIES`, `MaxSessions`, `MaxCookies`, `Workers` | see `Workers.cfg`, `JarMixed.cfg` | a jar that fills and empties; sessions enough for two workers to replace each other's; more than two workers at one host would need three overlapping cycles |
| `Providers`, `NtsSlots` | 5 of 4 operators, 2 | one operator with two siblings, and the four operators that ship; `PairIsDiverse` has no bound, `PairIsInReach` none on providers. One detached NTS worker is to report at a time: one report is enough to disturb a draw |
| `Delays`, `Starts`, `Claims` | 0, 4, 13 ticks of 1/3 ms, starts at two phases and near the end of the era, two claims that lose in each cut | every cut loses or not; symmetric, one-sided and zero delays; the theorem has no bound |
| `H2` | table of 2, headers of 1, 3 (too large for the table) and 4 (for the buffers), 5 frames, blocks of 3 | a table that fills, evicts, empties and is resized within one response; every fixed size can be outgrown; the theorem has no bound |
| `MCCerts`, `Hosts`, `PIN_STORE_MAX_SPKIS` | four leaves, one host, 2 keys | three keys compete for two places, one leaf is vouched for by nobody; endpoints share nothing but the lock and the file |
| `SystemSkews` | 0, 20 | right, and past every certificate |
| `Dns` | one thread followed, two resolvers of which one refuses HTTP/1.1, one dual name, back-off and cache of one tick | all other threads are `OtherWorker`, without bound; a second pass needs one resolver of each kind |
| `EventLog` | 2 threads, ring of 2, memory of 3, file of 1 whole line, 1 tick; three parts (`MCBounds`): 4 entries and events in one run, 3 of each over a crash, and the files alone with 6 events over two crashes | overflow, eviction by age and trimming each happen with one event to spare; a second run reads what the first left; six events rotate a file of one line several times |
| zones and dates | 14 blobs of `tz_embed.c`, from 1969-12, 1999-12, 2025-12, 2099-12 for 1700 or 400 days | every shape of footer: none, both hemispheres, half hours, negative summer time, negative and 24-hour rule times, 45-minute zones, a table behind the cutoff; for dates the theorem has no bound |

Fairness. `Clock`: weak on finishing a cycle, on readers and on time (threads are
scheduled), strong on gate-passing captures (the network keeps answering; without
it recovery is not promised by anybody). Failed and congested cycles may come in
between without limit. `NtpLifecycle`: weak on the Tcl thread and on each aggregator;
none on workers, which may hang for ever, and none on requests. Waits end by their
timeouts, which is the weak fairness of `WaitExpired`. `Dns`: weak on time and on
the steps of each followed thread, every one of which has a timeout in the code; none
on the weather or on other workers. `Recovers` is conditional on a storm that ends;
it is not a condition that others stop.

In `Advance` and `Sleep` a split of the timescales is first seen by a reader before
much more time passes: the face reads every 200 ms.

`PowerHooks = FALSE` is the program as built: `Clock_OnContinuityBroken` and
`Clock_TripInop` have no caller outside the tests. `ClockRestart` sets it to TRUE,
so the interface keeps its promises for a future caller.

## 5. Where the repository disagrees with itself

Three have a run with one property that quotes the repository, and a trace:

1. **A late report disturbs a draw** (`DrawRaced`). `nts.c:103-105` finds that the draw needs
   no lock, since one thread draws. But workers report round trips, and one that was
   detached from an earlier cycle may do so between two of the three passes that read them
   (`nts.c:194-198`). A provider that moves to a tier already read is in no pass, one that
   moves to a later tier is in two. One entry of `ordered` may stay unwritten (the model takes
   any provider for it), the draw may have too few operators, and `nts.c:219-229` fills it up
   with one it has. Then both slots may answer with one operator. The gate refuses the pair
   (`ntp.c:1449-1455`), and a clock that is not OK draws anew in the next cycle.
2. **Rules of more than 24 hours are clamped** (`FooterHours`). Jerusalem's summer time
   is shown two hours early each spring; Gaza's and Hebron's will be 26 hours early
   from 2087 on, when their tables have ended.
3. **A jar can mix sessions** (`JarMixed`). A cycle's late worker returns its cookies
   to the jar another worker has replaced. The next reuse is rejected, drops the jar
   and does a key exchange: one exchange is lost, no sample is wrong.

The others were met while modelling. Where a passing property is affected, its
statement or its run leaves the case out and says so.

* **A sleep between capture and anchor is invisible** (`clock.c:446`). The tick of the
  anchor is back-dated by the QPC age, which does not contain the pause. The clock
  shows a time behind by the whole sleep with OK and a small bound, until the next
  cycle. Set `PauseInFlight = TRUE` in `ClockSafety.cfg` to see `HonestBound` fail.
* **Holdover's bound can shrink** (`clock.c:713` against `clock.h:57`): the inflation is
  assigned, not raised.
* **"all workers stopped" may be untrue** (`ntp.c:212`): decrement-then-set races
  increment-then-reset. Nothing leaks: contexts are counted separately.
* **A second loss may wait out a relaxed interval** (`lunar.tcl:1802-1807` against
  `1797-1800`). The time is lost while a cycle is in flight and forces a poll; the cycle ends
  first and restores the time, the poll finds a healthy clock and relaxes the pace, and the
  time is lost once more within 8 s, when no poll may be forced. `RecoveryNotRelaxed` leaves
  this order out (`cured`) and no other of the clock's and the timer's own.
* **A rotation that stops half-way loses the older generation** (`lunar.tcl:165-166`): it is
  deleted, and a rename that fails, or never comes, puts nothing in its place until a later
  batch rotates again. `EventLedger` allows it (`Retire`).
* **A user's sync can cause a false alarm** (`lunar.tcl:1721`, `1790` against
  `clock.c:112`). It lasts no longer than `FalseAlarmIsBrief` says.
* **A later RATE kiss lifts a DENY** (`ntp.c:147-160`): the exclusion "for the rest of
  the session" is overwritten by fifteen minutes if a worker that held the host asks
  once more.
* **A family is represented by its dead member** (`nts.c:118-120`): a provider that never
  answers stays unmeasured (tier 1), is drawn before its far but living siblings, and
  keeps them out. `PairInReach` counts an operator only if its best tier answers.
* **A sticky draw serves nine cycles**, not `NTS_STICKY_ROTATE_CYCLES` (8): the age counts
  reuses.
* **A sweep can pass a resolver over twice** (`dns.c:153`, `1243-1245`): backed off in the
  first pass, no longer in the second. It is what `relieved` remembers.
* **Any failure of an HTTP/2 exchange turns it off for the run**, though the comment at
  `dns.c:182-185` says "at the protocol level".
* **A graceful `GOAWAY` fails the exchange** (`h2.c:575`), though the server may still finish the
  stream it names (RFC 9113, 6.8). The caller falls back to HTTP/1.1.
* **The renewal cooldown covers completed saves only** (`pin_store.c:28-31`): a refused CA
  question is not stamped, and threads that read before either saves both renew.
* **Pins under a system clock far ahead**: before the first sync of a run they count as
  expired (`pin_store.c:60-64` expects the opposite), and Windows refuses every leaf, so
  no authenticated server is let in until the clock is set.
* **A gap before the first drain of a run is silent** (`lunar.tcl:251-252` says "never
  silent"): the cursor is 0 and cannot tell. `NeverSilent` starts at the first entry
  stored.
* **A rotation between two persists before `events_load` duplicates events** in memory
  (`lunar.tcl:228`): they are looked for in the current file only.
* **The stamps of the embedded tables at the cutoff** (`gen_tz_embed.py:57`, "any time >=
  CUTOFF resolves correctly"): the one entry at the cutoff carries, for many zones, the
  summer type, so that second, and everything before, shows the wrong offset.
* **The NTP era** ends on 7 February 2036 (`ntp.c:317`, `nts.c:552`): seconds are not
  unfolded, samples after it are an era off. `ErrorExplained` is about the first era.

## 6. Proofs

| theorem | module | statement | assumes |
|---|---|---|---|
| `TypeCorrect` | `ClockProofs` | `Spec => []TypeOK` | `ClockConstants` |
| `OkIsNeverInflated` | `ClockProofs` | `Spec => []OkNeverInflated` | `ClockConstants` |
| `TierHasAnchor` | `ClockProofs` | `Spec => []PublishedTierHasAnchor` | `ClockConstants` |
| `ClockKeepsTheLadder` | `ClockProofs` | `Spec => ClimbsOnlyOnEvidence` (refinement of `TrustLadder`) | `ClockConstants`, `QpcIsMonotonic` |
| `BoundIsHonest` | `ClockProofs` | `Spec => []HonestBound` | the two, `ClampIsSmall`; `SamplesWithinError`, `PausesAreNoticed`, `~PauseInFlight` |
| `OkRestsOnAFreshSample` | `ClockProofs` | `Spec => []OkIsFresh` | `ClockConstants`, `QpcIsMonotonic`; `SamplesWithinError`, `CyclesKeepTime`, `~PauseInFlight` |
| `StepsRestOnEvidence` | `ClockProofs` | `EvidenceSpec => StepNeedsEvidence` | `ClockConstants`, `HistoryBound` |
| `UncertaintyCoversLiar`, `AnchorHeldByMajority`, `TruthIsAccepted` | `ConcurProofs` | `ConcurSpec => []ErrorCoversLiar`, `[]MajorityHoldsAnchor`, `[]TruthAgrees` | `ConcurConstants`, `ReportsTyped` |
| `CyclesDoNotOverlap`, `ContextsLiveWithHolders`, `HarvestIsOfTheFinished`, `IdleIsSignalled`, `NothingRunsAfterShutdown` | `NtpLifecycleProofs` | `Spec => []OneCycle`, `[]RefsCountHolders`, `[]NoTornHarvest`, `[]IdleNotLost`, `[]QuietAfterShutdown` | `LifecycleConstants` |
| `HealthyClockStaysOk`, `IgnoredPollCostsOneCycle`, `DarkFaceIsPolledSoon` | `ShellProofs` | `Spec => []HealthyNeverStale`, `[]FalseAlarmIsBrief`, `[]RecoveryNotRelaxed` | `SchedulerConstants`, `WindowClearsRenewal` |
| `ErrorIsExplained` | `WorkersProofs` | `ExSpec => []ErrorExplained` | `ExchangeConstants` |
| `PairIsDiverse`, `KissIsHonoured` | `WorkersProofs` | `NtsSpec => []PairDiverse`, `CoreSpec => KodHonoured` | `PoolsSuffice` |
| `PairIsInReach` | `WorkersProofs` | `ShippedPool => (NtsSpec => []PairInReach)` | `PoolsSuffice`; `ShippedPool` |
| `ResponsesAreWhole` | `WorkersProofs` | `H2Spec => []WholeOrNothing` | `H2Constants`, `HeaderLists` |
| `NoCookieTwice`, `SamplesOfEnrolledPins` | `WorkersProofs` | `Spec => []SpentOnce`, `[]EnrolledMeansEnrolled` | `JarConstants` |
| `BackOffStrandsNobody` | `DnsProofs` | `Spec => []NeverStranded` | `DnsConstants` |
| `StoreKeepsItsLedger` | `PinStoreProofs` | `Spec => KeepsLedger` (refinement of `PinLedger`) | `PinConstants`, `RenewalsHaveDates` |
| `NoSilentLoss`, `HistoryHidesNothing` | `ShellProofs` | `LogSpec => []NeverSilent`, `[]LoadLosesNothing` | `EventConstants` |
| `FilesKeepHistory` | `ShellProofs` | `LogSpec => KeepsHistory` (refinement of `EventLedger`) | the same |
| `FaceShowsTheDate` | `ShellProofs` | `ZoneSpec => []FaceKeepsCalendar` | `TimeZoneAssumption`, `OffsetsWithinADay`, `DatesExist` |
| `PaintsOffsetInForce` | `ShellProofs` | `ZoneSpec /\ []InAlmanac => OffsetInForce` | the three, `BlobsAreWellFormed`; `InAlmanac` |
| `RenewalsKeepTheirDistance`, `EarlyKeysAreSeenTwice` | `PinStoreProofs` | `Spec => NoRenewalStorm`, `SecondSighting` | `PinConstants`, `RenewalsHaveDates` |

All hold for every value of the constants that satisfies the assumptions named, which TLC
evaluates on every instance: naturals, non-zero divisors, values of the right type, the
static assertions of the code, and the orders of constants the code derives one from the
other. `HeaderLists` is what RFC 9113 (8.3) says of header lists: the status comes first,
once, and trailers have none. `OffsetsWithinADay` and `BlobsAreWellFormed` are facts about
the embedded blobs (`tz_embed.c`), which hold of every one of them: offsets are at most fourteen
hours, tables are in order, footers spell their offsets within 24 hours, and no rule strikes in
January or December or in the month of the other rule or next to it. `DatesExist` keeps the
first dates within the years of the reference. The premises after a semicolon are hypotheses of the theorem
itself: they are about the world (samples, sleeps, oscillators), not about the program;
section 4 says why each is needed and `MCClock` that the instances meet them.
Two are not: `ShippedPool`, a fact about the tables of `nts.c` (two slots, four operators),
and `InAlmanac`, which keeps the date within the years for which the reference has counted
its days, 1962 to a year after `LastYear` (any year may be chosen for that). `~PauseInFlight` excludes the
defect of section 5. No horizon is
assumed, but that `PausesAreNoticed` speaks of the tolerance at its largest, which is a
part of the greatest age an anchor can have. Every inductive invariant below was checked by
TLC on the instances before it was proved.

* **Clock, tiers.** `TypeOK` is more than typing: the steered rate stays within its clamp
  through two truncating divisions and two clamps, and the fault count below the escape
  threshold. `OkNeverInflated` is not inductive: `PublishOk` sets the tier without
  looking at the inflation, two lock sections after `LayAnchor` cleared it. The
  strengthening is the second half of `PublishedTierHasAnchor` (a cycle between the two
  has an anchor nothing inflated), which in turn needs that only the cycle's own thread
  inflates: `IInv` is the conjunction of the three, with one lemma per group of actions
  and `CArithTheorems` for the divisions (`TruncDivInt`, `RoundDivInt`, `ClampRange`, ...).
* **Clock, ladder.** `IInv` suffices for the refinement. One lemma per action says which
  step of `TrustLadder` it is: time, sleep and readers weaken, because age widens the
  bound (`AgesGrow`) and the display is derived from the published tier downwards;
  the steps of a gate-passing cycle corroborate; everything else leaves the display alone.
* **Clock, bound.** What is true of a sample when captured (`TrueSince`: true time was
  within its error when QPC read its ticks, and the machine has not slept since) is kept
  by every step that keeps the display running (`CapturesHold`, `AnchorHolds`): a sleep
  the tolerance could hide is ruled out by comparing the tick age with the QPC age.
  `OkIsFresh` needs that the anchor's tick is not ahead of its UTC (`TickHolds`). Then
  the arithmetic: the ticks since the capture, rounded to milliseconds, with the rate's
  share truncated, against the growth of the bound, truncated too. The four cuts
  together are worth exactly `RoundingMs`; it does not hold with 1.
* **Clock, evidence.** `StreakHolds`: the counters of the local faults are *told* by the
  history of gate-passing cycles; as many indictments as they count, from one on, are of
  the sign and within a factor two of the streak's first. A cycle that is excused adds to
  the history and leaves the story standing, one that continues the streak extends it, one
  of another sign or size begins a story of its own; nothing else writes either.
* **Gate.** `ConcurInv` says that the verdict is the one its reports deserve. The rest is
  arithmetic on the line: the median of the concurring cores is the deviation of one or two
  of them (`RanksTaken`), of any three out of four one is truthful (`TruthfulConcurs`), and
  moving a sample to another QPC value costs a rounding (`MoveCost`).
* **Threads.** `LifecycleInv` says where each thread is and what it holds: slots are
  spawned once, the worker count counts, the handle of the claim is the one waited for.
  It needs no fairness, and no bound on slots or cycles.
* **Scheduler.** `PaceInv` relates the time to the next poll, the age of the anchor and
  the age of the cycle in flight. `RecoveryNotRelaxed` is not inductive. A dark face is near
  its poll because one is forced and due, because the count of good polls starts anew, or
  because the cycle in flight ends before the timer does (`DarkIsNearPoll`). A forced poll that
  is refused comes shortly after one that found the clock lost, which is followed soon, or
  healthy, which is `cured` (`ForcedHoldsShort`). The proof asked for `WindowClearsRenewal`,
  which the code's constants satisfy with room.
* **Exchange.** The invariant (`ExInv`) says what each stamp is in terms of true time,
  step by step: `t2` lies between the request and now, `t3` between `t2` and now, each
  off by no more than the claim. From it the error is the difference of two one-way
  delays, halved, plus one steering. The rest is the sum of the cuts: QPC to
  milliseconds twice, the stamps twice, the fixed-point claims twice, two halvings. The
  3 ms are tight: with 2 ms the proof fails, and so does an exchange that starts off
  phase.
* **Sources.** For `PairDiverse`, `NtsInv` says that a draw going on has exactly the
  providers of the tiers it has read (`Enumerates`), as long as no tier changed under
  it. A pass adds a tier (`PassTakesTier`, by the pigeonhole; `PassesAddUp`), so after
  the third the ordering is the whole pool and nothing is left unwritten
  (`FilledIsWhole`). A whole ordering has a first provider of each operator
  (`FirstsOfAll`), there are enough of them for all places (`PoolsSuffice`), and picking
  takes them first (`InPlacesTakes`, `PickedIsDiverse`). While a draw goes on nobody is
  asked (`NobodyYet`), and afterwards the stripes of two slots share no place
  (`StripesApart`). `PairInReach` is arithmetic on tiers: an operator is drawn for its
  best provider, so a draw of four operators lines all four up by tier, ties in any
  order. The slots take places 1 and 3, 2 and 4. For two that answer and two that do
  not, three tiers in four places leave a tie wherever the two would be forced into one
  slot (`TwoApart`), and some order of the tie keeps them apart. It takes exactly four:
  with a fifth operator in the pool a far one in reach would never be drawn once four
  nearer ones fill the draw (TLC finds it). `KodHonoured` needs that each worker's
  remaining candidates were eligible when drawn, or are in its `told` (`CoreInv`): the
  draw excludes, the kiss tells all others, cooling only shrinks.
* **Cookie jar.** `SpentOnce` speaks of the workers that can still send; a rejected cookie
  stays in its worker's hand until the jar is dropped. The strengthening (`PlacesOk` in
  `JarInv`) places every serial issued: in the jar, in one hand or spent, and what is both
  in a hand and spent is in the hand of a worker about to drop it. One lemma
  (`PlacesApart`) shows that a step keeps this if it fills jar and hand from the two and
  from serials just issued, and spends from its own hand; each action is then shown to be
  such a step. `EnrolledMeansEnrolled` needs what a worker knows of its session at each
  step of a fetch (`WorkerOk`), above all that a session waiting for corroboration is never
  in the jar, so that whoever takes a cookie from there takes an enrolled one - whichever
  of the overlapping fetches stored it. The number of workers, sessions and cookies is
  arbitrary: it is `Workers.cfg` that follows a few.
* **HTTP/2.** `H2Inv`: between two blocks the client has the server's table, limit and
  status; within a block it *will* have them, once it has decoded what it holds and what is
  still to come (`InBlock`), so it does not matter where the block is cut. What a block does
  is shown one representation at a time (`OneHeader`, `BlocksDecode`): both sides are folds,
  and a fold is the end of a run of single steps (`RunIsFold`, from `SetInduction`). The
  client's loop that evicts from the old end keeps what the RFC keeps (`RoomIsMade`,
  `DynAddIs`), and the indices the RFC numbers are those `hpack_lookup` finds (`LookupIs`).
  A size update before a block brings both tables to the same limit (`OpeningDecodes`).
* **Resolver.** While a thread sweeps, all others may start and end back-offs. `DnsInv`
  says of a sweep at place *i* that every resolver before it was asked, or is still backed
  off, or is accounted for: its back-off ended under the sweep (the ghost `relieved`). Each
  step of others keeps this because a back-off that ends is told to the ghost; and a second
  pass that skips has an account for what it skips.
* **Pin store.** `PinInv`: the record of an endpoint holds at most the maximal number of
  keys, each once and each vouched for; what a renewing thread has decided still has its
  cooldown behind it; a candidate is no older than its first sighting. The refinement maps
  `Save` to the ledger's `Learn`, a completed write to `Flush` and a start to `Reopen`. The
  last needs that reading the lines one by one with `Upsert` rebuilds the very record
  (`ParseIs`), by induction on the number of lines. The library's induction theorems take an
  operator as parameter and are out of reach here; `SetInduction` states induction for a
  *set* of numbers instead and follows from well-foundedness of inclusion between finite
  sets, and `FoldExists` obtains from it the function a fold is defined by.
* **Log and events.** Every filter of the program (the readable lines of a file, the
  entries past the cursor, the events missing from the file) is one operator, `Omit`, a
  recursive function. Four lemmas by induction on the length say what it leaves: a
  sequence of the elements not gone (`OmitElements`), the rest where what is gone comes
  first (`OmitPrefix`), and of two sequences in a row what it leaves of each
  (`OmitConcat`); any function that satisfies its equation computes it (`OmitIs`).
  `SilenceInv`: the ring is a row of consecutive numbers up to the last one given out
  (`InARow`), because eviction and overflow cut only at its old end, so what lies past the
  cursor is a row too and what is missing before it is what the drain reports.
  `HistoryInv`: what can be read from the two files is in order and older than the batch;
  the batch holds the last events made. A write, however it ends, adds the first events of
  the batch (`WriteAdds`); a crash is a write cut short. `ShownInv`: until the history is
  loaded the store in memory holds the last events made, in a row; a store that was full
  of them before the load is full after it, by counting places (`TooFewPlaces`).
* **Calendar.** `CalendarInv`: the almanac has the date of the day of `utc` (`IsDateOf`,
  by the number of days before its year and month), and the wall clock is the breakdown of
  `utc` moved by an offset within a day. The code goes from the number of a day to its date
  with divisions by 146097, 36524, 1460, 365 and 153; the proof goes the other way, from the
  place of a date in its era of 400 years from March (`DayInEra`), and shows that each
  division finds the place again (`YearOfEraIs`, `MonthIs`), also on the last day of
  February, before 2000 and before 1970. The days of January and February of a leap year
  count as the end of the year before (`MarchDayIs`). `NextDateIs` and `PreviousDateIs` say
  the same of the calendar counted day by day. The binary searches are loops that end
  because something gets less, and a loop that ends is a function (`LoopExists`).
* **Offset in force.** `ZoneInv`: the display zone is in the index, and the cache names the
  entry of what it remembers, so `tz_resolve` finds the zone either way. `FindsEntry` and
  `FindsTransition` say what the two searches keep (`LoopStopsIn`): the name is within
  the part searched; all before it is past, all behind it is not. For a footer, the day that
  `rule_local_sec` computes from the weekday of the first of the month is the w-th, or the last,
  of the days that the reference lists (`DaysOnAre`, `Ranks`, `RuleDayIs`). A rule strikes in its
  own year whatever the offset (`StrikesInYear`) and never at the minute of the other
  (`StrikeInOrder`), so of the changes past the last is one of this year or of the year before
  (`LastOfIs`). That is why three years are enough for `posix_resolve`, and why
  the order in which it weighs changes that coincide does not matter for the zones embedded.

What failed proofs taught. `RateDefensible` was first stated for rates; the product of rate
and drift was missing, and the statement now compares ticks exactly. `ErrorCoversLiar`
and `MajorityHoldsAnchor` were a millisecond too strong, unseen by runs in which ticks
were milliseconds. `HealthyNeverStale` leans on a derivation of the staleness window
that was nowhere an assumption. A sleep just above the tolerance can hide behind a fast
oscillator. The runs now contain each of these cases. `H2` forgot between two blocks that
the server had resized the table (`h2.c:278-282` keeps the limit): no run showed it, because
an entry the client keeps too long is behind all that the server's indices reach, but the
two tables were not the same. `PairInReach` was first checked for every assignment of
tiers at once and spoke of no behaviour; it now speaks of the tiers a cycle finds.

Only model-checked:

* liveness (`AlwaysRecovers`, `CyclesEnd`, `ShutdownReturns`, `Recovers`): the prover does
  neither fairness nor ENABLED.

## 7. Not modelled, and what is next

Left out for good: codecs and cryptography (bytes, better tested by vectors), the DNS
message parser, Huffman coding and the octets of HTTP/2 frames (and its windows, which no
response fills), malformed time-zone blobs and the guess of the zone
from Windows, drawing and sound, start-up plumbing, the update check,
`g_lastObservedState` and other logging. The generated tables (`tz_embed.c`,
`tz_winmap_gen.c`) appear as the blobs of `MCTimeZone`.

`WM_ENDSESSION` ends the process without a last drain; it is `Restart` of `EventLog`. Two
instances that share a data directory (`lunar.tcl:153-156`) are not modelled.

Next:

1. **Composition**: `Exchange` and `Concur` feeding `Clock`, with `NtpLifecycle` around
   them, so that the premise of `HonestBound` becomes a theorem of the composition.
2. **The key-exchange records** (`nts_ke.c`) as a state machine of what a server may
   send in which order.
