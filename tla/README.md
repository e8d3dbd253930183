# dial-up in TLA+

A verification development for `dial-up`, the bot that supervises an `olcrtc`
tunnel process on a server or an OpenWrt router: TLA+ modules translated from
the Go source, TLC instances of them, and TLAPS proofs. Paths below are
relative to the repository.

## 1. The system

| Part | Source | State | Operations |
|---|---|---|---|
| Supervisor | `internal/controller/controller.go`, `state.go`, `classify.go` | `provider`, `restarting`, `savePending`, `failures`, `crashFailures`, `cmd`, `lastOutput`, `manualDirect` under one mutex; the one-place channel `sig`; `last_provider.json` | the loop goroutine; per child `waitCmd` and `streamSubprocess`; `SetProvider`, `ClearProvider`, `Restart`, `SetRoute`, `Start`, `Stop` |
| Guardian | `guardian.go`, `internal/firewall/manager.go`, `netcheck.go` | `downSince`, `flushed` (one goroutine, no lock) | startup sync, a check every 10 s |
| Diagnostics cache | `netcache.go` | an atomic pointer to a snapshot | `refresh` every 30 s, after `SetRoute`, after a demotion; `Stop` |
| sing-box client | `internal/singbox/controller.go` | none (the selector lives in sing-box) | PUT with three attempts, status, delay test |
| Bot | `internal/bot/bot.go`, `menu.go` | backoff, the long poll and its place in the chat | reconnect loop with a shutdown watcher, command dispatch |
| Status API | `internal/statusapi` | the listener | GET `/status`, PUT `/route` |
| main, procd | `main.go`, `deploy/openwrt/init.d/dial-up` | | SIGTERM, shutdown order, respawn |
| LuCI panel | `luci-app-olcrtc` (rpcd script, views) | configuration files, `last_provider.json` | edits files, restarts the bot, PUT `/route` |
| Configuration, parsing, rendering, logging, installation | `internal/config`, `provider`, `render.go`, `status_render.go`, `domain/logger`, scripts | none at run time | |

How they interact. The bot's handlers (one at a time) and `/route` requests
(any number) call the Controller's methods, which change fields under the mutex
and then, after unlocking, remove the file, PUT to sing-box or send on `sig`.
The loop wakes on `sig` or a timer, kills or starts a child, saves the
provider, promotes the route, and drops a provider that crashed too often. Each
child has a goroutine that waits for it and one that reads its output; both
write the Controller's fields. The guardian watches sing-box over HTTP and
changes the nft chain and the selector without the mutex. Refreshes of the
cache come from three places and overlap.

What is hard, and what makes each part correct:

- **Supervisor.** Goroutines of an old child run on after it has been replaced,
  and what follows an unlock is late. Correct: never two tunnels; the tunnel is
  the current provider's; no wakeup is lost although `sig` holds one; a dropped
  provider is forgotten on disk and a current one is kept there; the crash
  limit trips when it should; an end of the bot leaves at most one child; every
  request is served.
- **Guardian.** Every call may fail and the world moves between calls; the bot
  may die between a command and the flag that records it. Correct: the flag is
  the chain's state; a dead sing-box is bypassed, a live one is restored; a
  selector over a dead port is demoted; one lost answer costs nothing.
- **Routes.** Four goroutines PUT to one selector; an attempt that timed out may
  still take effect; two of the four hold the Controller's mutex over all
  attempts. Correct: a DIRECT that was confirmed sticks; everybody else gets the
  mutex in the end; a tunnel that stays up is promoted.
- **Bot.** Every router sees every message to the shared account and the answers
  of all, and misses what comes while it reconnects; the shutdown watcher races
  `lp.Run`. Correct: nobody answers an answer or answers twice; two routers that
  read the same are in the same room; a cancelled bot ends and an outage does not
  end it; what the panel wrote is what the restarted bot runs.
- **Cache.** Reads and stores interleave. Correct: no delay is shown for a
  sing-box that was not up; the cache converges; stopping ends the goroutine.

`PROJECT.json` lists every component and every hazard with its source line and
the properties that would catch it.

## 2. The modules

### `Supervisor`, `MCSupervisor`, `SupervisorProofs`

A critical section under `Controller.mu` is one action; what the code does
after the unlock is a further action of the same goroutine, so a pass of the
loop is *body* (`LoopKill`, `LoopYoung`, `LoopStable`, `LoopIdle`, `LoopStart`,
`LoopStartFault`), *remove*, *select* (`LoopWake`), *check* and *backoff*
(`loop` says where it is). Each body action includes the `maxFailures` block
that closes the section (`MaxFailuresBlock`); `LoopStartFault` does not, as the
code returns early. `waiter[p]` and `stream[p]` are the two goroutines of the
child in slot `p`: `WaitReturns` is the first section of `waitCmd` (does it own
`cmd`?), `WaitDrain` the bounded wait for the output, the four `Settle` actions
the second section, `WaitRemove` and `WaitSignal` what follows it. `StreamFault` is
the scanner that gives up on a line of more than 1 MB or a read error while its
child runs on. `api` is what the bot's current handler has still to do; handlers run
one at a time. `Stop`, `Vanish` (the process ends and its
children do not), `Boot` and `Crash` are the bot's life under procd. `SaveCut` is
the process ending in the middle of a start: the child runs, and the file is
truncated but not written (`state.go:37`), so that no provider is loaded from it.
`taken` is a history variable: a rejection's removal has taken the file of the
provider that was set and saved.

Abstractions: timers fire at any time; "up for more than 30 s" is a choice
between `LoopYoung` and `LoopStable`; `failures` is zero or not (it only sets the
length of a sleep); a captured line is its class; writing and removing the file
succeed, and are one step unless the process ends in it; `lastError` and the
timestamps are left out. SIGTERM, SIGKILL and `cmd.Wait()` in the loop are one step,
since the lock is held throughout, and the child may have ended on its own before.

The selector is not in this module. `manualDirect`, `SetRoute` with its two callers,
the PUT of `LoopStable` and the PUT of `SettleTransient` touch none of the fields
here, and a PUT may time out and take effect much later: all that is `Routing`'s,
which also shows that a section that sends a PUT ends (`Answered`).

`MCSupervisor` gives the constants their values, and extends `Backoff`, so that
a run checks its property. `SupervisorProofs` has the theorems.

### `Tunnel`, `TunnelProofs`

What the supervisor promises, with five variables and seven actions: a wanted
room, whether it is to be saved, the saved room, the tunnels that run, and
whether there is a bot. `Supervisor!Promise` is the refinement mapping: the
tunnels are the live children that a `waitCmd` goroutine waits for (an orphan
belongs to nobody), the rest is `provider`, `savePending`, `file` and `Running`.
`Rejecting` is the one leak the code has: a rejection may remove the file of a
provider that was set meanwhile (section 4).

### `Backoff`, `BackoffProofs`

`calcBackoff` on a 64-bit word: what `base << (failures-1)` keeps of the base,
when it is negative, when it is above the cap. TLC's integers have 32 bits, so it
computes in units of 512 ns, which divide a second; the word has 55 bits then.
`Sleeps` and `Failures` are the values of `SLEEP_ON_ERROR` and the counts that
`BackoffAsDocumented` speaks of. `Supervisor` only needs whether there is a
backoff; the backoff of the reconnects, `growBackoff`, is in `Bot`.

### `Routing`, `MCRouting`, `RoutingProofs`

`singbox.SetRoute` attempt by attempt (`Lands`, `Fails`, `TimesOut`, with
`LateLands` for the request that takes effect after its client gave up), and its
callers: `Call` and `SetRoute` (the bot and `/route`, which set the flag under the
mutex and send after it), `Promote` and `ReapCrash` (which hold `mu` until
`Return`), `Demote` (the guardian, without a lock). `Ask` and `Serve` are
everything else that needs the mutex. Of the supervisor's sections these are the
three that concern the selector; children are only none, young or stable, and may
come and go as they please.

### `Bot`, `MCBot`, `BotProofs`

`chat` is the account's messages. `pc[r]` is where `Bot.Run` of router `r` is:
*construct* (`newLongPoll`), *arm* (the watcher is started, `lp.Run` is not),
*run*, *shut* (`lp.Shutdown` was called), *wait* (`sleepCtx`), *stopping*. `Handle`
delivers one message: skip, deny or dispatch; `Send` is the answer, which may
fail. The Controller is reduced to `provider`, `file` and `unsaved`, with `Save`
and `Drop` at any time. `PanelWrite` and `PanelRestart` are the two halves of the
rpcd script's methods; `SamePath` says whether script and bot mean the same file,
which they do when `LAST_PROVIDER_FILE` is absolute. A bot that ends with a save
due may leave a file that does not load (`CutSave`). `apart` and `order` record
what the properties exempt.

### `Guardian`, `GuardianProofs`

One `check` is a sequence of steps, one per call, with `at` the goroutine's place
and `seen` the status it works with; `FlushDone` and `ReloadDone` set the flag
after the command has worked. sing-box, the port, the loop's promotion, other
users of fw4 and the death of the bot act in between. `downChecks` stands for
`downSince`: the threshold equals the period of the check, so the second dead
check may flush or not, and the third does; it saturates at 2. Once a check is
past the firewall, `TypeOK` wants `downSince` set exactly when that check found
sing-box dead, so that blips with an answer between them never add up. `disturbed` records that the flag was
made wrong, by a failed listing at startup or a foreign reload, until a command
or a start puts it right.

### `Watchdog`

What the guardian promises, with two variables of its own: the verdict of the
looks so far (none, alive, dead once, an outage) and whether the selector is
suspect (no, seen on proxy, also found over a closed port). An outage takes two
looks in a row, a bypass an outage, a restored redirect a verdict that sing-box is
alive, a demotion a guilty selector; what is outside moves at any time.
`Guardian!Promise` is the refinement mapping: `Verdict` reads `seen` and
`downChecks` as they are meant at each place of the check (until `check` resets or
counts, `seen` is ahead), `Suspect` is what the current check has seen.

### `NetCache`, `MCNetCache`, `NetCacheProofs`

`refresh` is read (`ReadStatus`, `ReadStatusFault`), measure (`ReadDelay`) and
store, per refreshing goroutine; `Switch` starts one, `Change` is sing-box
moving on its own. No lock, as in the code. `Honest` is what every snapshot must be:
`DelayTest` may well answer after `Status` timed out, and such a delay is not taken.

## 3. Runs

| Run | Instance | Shows |
|---|---|---|
| `sup_safety` | 2 providers, 2 slots, `MaxFailures` 1, definitive lines, start faults, failing streamers, stuck pipes, SIGTERM and SIGKILL at any time, in the middle of a save too, respawn | `TypeOK`, `AtMostOneTunnel`, `RunningMatches`, `CrashCountBounded`, `NoLostWakeup`, `Forgotten`, `Remembered`, `TripsOnAStart`, `KeptUntilRejected`, `OneOrphanPerDeath`, `ImplementsTunnel` |
| `sup_live` | 1 provider, 2 slots, `MaxFailures` 1, fairness; 5 values of `SLEEP_ON_ERROR`, up to 67 failures | `ProviderServed`, `RestartServed`, `BackoffAsDocumented` |
| `guardian` | listing, command and status faults, foreign reloads, the bot killed at any time, fairness | `TypeOK`, `FlagTracksChain`, `ImplementsWatchdog`, `DeadSingboxBypassed`, `RedirectRestored`, `DeadPortDemoted` |
| `netcache` | the ticker and 2 refreshes, status faults, fairness | `TypeOK`, `EventuallyFresh`, `StopEndsTicker` |
| `routing` | 2 callers, the loop, `waitCmd`, the guardian; 2 attempts, 1 late request per mode; fairness | `TypeOK`, `DirectSticks`, `Answered`, `Promoted` |
| `bot_chat` | a server and a client, an allowed and a strange user, 2 messages of any kind, reconnects, failed sends | `TypeOK`, `OneAnswer`, `RoomFollowsChat` |
| `bot_life` | one client, stopped, killed, restarted and set by the panel at any time; 2 messages; fairness | `RoomFollowsChat`, `PanelServed`, `CleanStop`, `Reconnects` |

**Bounds.** Two slots (`Pid`) are an old child, whose goroutines are still busy,
and the current one; a third child waits until the first has been reaped, which
two goroutines and a 2 s bound on the wait make prompt. Two providers are an old
one and a new one (`sup_live` has one, which can be cleared and set again: two
take TLC's liveness check too long).
`MaxFailures` 1 lets the limit be missed, met and passed (the code has 5). A
captured transient line is treated as no captured line, so the instances print
definitive lines or none; one per pipe is enough for a line to arrive late. The
bot's handlers run one at a time; `/route`, which runs beside them, changes the
selector alone and is in `routing`, where two callers can overlap with each other and
with each of the three switches. With two slots and bots that are killed, orphans may
occupy one slot or both; a bot that finds no slot starts its child when an orphan ends.
`Attempts` 2 (the code has 3) gives a first attempt that is followed by another and one that is not; `MaxLate` 1 a late request of each mode. Two
messages are an order and what overrides it, or an order and a message that only
asks; two routers are the two ends, one of each role. 67 failures shift the base
out of the 64-bit word, past the sign bit and past the width. The proofs remove
these bounds from the properties they cover. No other counter is bounded:
`failures` and `downChecks` saturate because nothing reads them further, and
`crashFailures` is bounded by the code. Slots and providers are interchangeable,
so `sup_safety` uses symmetry; `sup_live` does not.

**Deadlock** is checked in every run.

**Fairness.** `Supervisor!Fairness` is weak fairness of each goroutine: the Go
scheduler runs what can run, every select of the loop has a timer, a pipe whose
writers are gone is read to its end, and every call is bounded by a timeout.
Nothing makes a child end, a start succeed or a user act. `Guardian!Fairness`
is weak fairness of the goroutine, of procd's respawn and of the loop's ticks,
and strong fairness of `Look`, `Flush`, `Reload` and `Demote`: a call that is
retried on every check does not fail every time. `NetCache!Fairness` is weak
fairness of the refreshes and of the ticker, and strong fairness of the exit: Go
picks a ready case of a select at random, so a case that is ready time and again
is taken. `Routing!Fairness` is weak fairness of every attempt (each has a
timeout), and strong fairness of `Lands(Loop)` (a PUT that is repeated for ever
succeeds in the end), of the loop's ticks and of whoever waits for the mutex
(`sync.Mutex` hands over to a waiter that starves). `Bot!Fairness` is weak fairness
of `Bot.Run`, of the handler and of the watcher, and strong fairness of a
construction (VK can be reached now and then) and of `sleepCtx` noticing a
cancelled context; nothing makes a stream fail or procd start the bot. The
liveness properties of the guardian exclude a bot that is killed
for ever (`KilledForever`), and `EventuallyFresh` answers that are misread for
ever.

## 4. Where the code and its documents disagree

Each of these is a run that expects a violation of one property; the statement
quoted is in `PROJECT.json`.

| Run | Line | What happens |
|---|---|---|
| `finding_trip` | `controller.go:476` | the safety net drops the provider of the child it started in the same pass, and the child runs on |
| `finding_reject` | `controller.go:587` | a new provider is dropped for the old child's rejection |
| `finding_stop` | `controller.go:149` | the loop starts a child after `Stop`, and it outlives the bot |
| `finding_forget` | `controller.go:614` | the removal after the rejection of one provider takes the file of the next, which was set, started and saved in between; the guide names "EXACTLY three cases" (`tests/test_guide.md:25-31`), and a provider that never crashed is in none of them |
| `finding_path` | `rpcd/olcrtc-bot:18` | the panel resolves a relative `LAST_PROVIDER_FILE` against `/`, the bot against `DATA_DIR`: with the installed defaults, what the panel sets is never loaded |

Other behaviours of the code that the models have and that bound what the
properties can say:

- `controller.go:614` bounds two properties beside its finding: `KeptUntilRejected`
  says that this removal is the only step that can take the file of the current
  provider, and `Remembered` exempts a provider whose file it has taken (`taken`),
  until the next save.
- `controller.go:639`: the streamer of a child that was killed may write `lastOutput`
  after it was reset for the next child. If that child then crashes without a word,
  it is rejected, and its provider forgotten, for a line it never printed. No
  property says otherwise: every one holds whichever line is used.
- `controller.go:133`: a bot that is killed leaves its child running, and the next
  bot starts its own beside it. Their number is not bounded; `OneOrphanPerDeath`
  says that each end adds at most one, and `Tunnel` counts no orphans.
- `controller.go:245`: with a `/route` request beside the bot, the last flag and
  the last PUT may differ, and a DIRECT that is answered with success may leave
  the selector on proxy, or the flag cleared. `DirectSticks` speaks of a DIRECT that no
  request for proxy overlaps.
- `singbox/controller.go:93`: a request that timed out may take effect after a
  later one was confirmed. `DirectSticks` ends when that happens.
- `controller.go:386` and `602`: the mutex is held over up to three attempts of 5 s
  and three sleeps of 1 s; `GET /status` waits as long, and the panel's own
  timeout is 3 s (`rpcd/olcrtc-bot:485`). `Answered` says that the wait ends.
- `bot.go:138`: `lp.Shutdown` before `lp.Run` has set itself up is lost; that bot
  ends by procd's SIGKILL, without `Controller.Stop`. `CleanStop` excludes it.
- `bot.go:115`: what is sent while a router reconnects is never delivered to it.
  `RoomFollowsChat` exempts that router until the next order it reads.
- `controller.go:460`: between the panel's write and the restart the old bot may
  overwrite or remove the file, and the order is lost. `PanelServed` exempts it, and
  no property covers it.
- `controller.go:376` and `215`: `/r` resets `failures` but not `crashFailures`,
  and a stable child then keeps the old count, so that crashes far apart, each followed
  by a `/r` and a stable run, add up to the limit. The comment at line 373 takes a
  process that survived 30 s as healthy, but nothing promises a reset: no property
  speaks of it.
- `state.go:37`: a bot that ends between the truncation of the file and its bytes
  loses the room that was saved before as well as the new one. `Tunnel!Leave`
  allows that to a bot that ends with a save due; `PanelServed` exempts it.
- `controller.go:596`: a new provider may be charged with the old child's crash.
- `guardian.go:64`: a failed listing at startup makes the bot forget that the
  chain is flushed. `guardian.go:109`: once `flushed` is set nobody looks at the
  chain again, so any other fw4 reload puts the redirect back over a dead sing-box
  for good, although a "sing-box crash can never permanently block LAN internet"
  (`tests/test_guide.md:79-80`). `FlagTracksChain`, `DeadSingboxBypassed` and
  `RedirectRestored` exempt both (`disturbed`).
- `controller.go:388`: while olcrtc lives and its port is dead, the loop promotes
  and the guardian demotes, for ever; `DeadPortDemoted` says that each
  demotion comes, not that it lasts.
- `netcache.go:111`: an older refresh may hide a route that was just switched,
  until the next tick; `EventuallyFresh` says what is left.

## 5. What is proved

For every set of providers and slots, every `MaxFailures` and every
choice of the environment (`SupervisorProofs`):

- `Invariance`: `IInv` is inductive. The properties alone are not: that the
  second `waitCmd` section of an old child cannot clear a new child's `cmd` needs
  `Owned` (the child `cmd` points to has not been settled), and one tunnel needs
  `Waited` (a child whose wait returned is not alive). `CrashCountBounded` is
  inductive because a start ends in the `maxFailures` block and a crash gives
  `cmd` up in the step that counts it.
- `TypeCorrect`, `OneTunnel`, `Matches`, `CrashCount` follow from `IInv`.
- `Wakeup` and `StopForgets`: `Awake` (a strengthening of `NoLostWakeup`) and
  `Forgotten` are inductive over `IInv`.
- `ProviderRemembered`: `Remembered` together with `NoLateRemoval`, that the loop's
  and `ClearProvider`'s removals are due only while no provider is set or its save is
  due. The removal after a rejection is the one that `taken` records.
- `OneOrphan`: a bot that ends has one live child, the one `cmd` points to, or has
  just started one while none ran.

`TunnelProofs`: `Refinement`, the supervisor implements `Tunnel`. Each action of
`Supervisor` maps to one of the seven steps or a stutter; the proof uses `IInv`
(one live child, which `cmd` points to; it belongs to the current provider) and
`RemovalAllowed`, a second inductive invariant: a removal of the file that is due
belongs to a provider that is gone or replaced by one still to be saved, or
follows a rejection. From the same two comes `Kept` (`KeptUntilRejected`): the
removals of the loop and of `ClearProvider` are due only while there is no provider
or its save is. `Trips`, for a positive `MaxFailures` (the code has 5), is that
`TripsOnAStart` holds. A pass that kills or finds a child has at most `MaxFailures`
crashes counted (`IInv`), and one that finds nothing to start has at most one: by
`LowCount`, whoever drops the provider drops the count with it, and only a last child
that is still to be reaped adds to it. With a limit of zero that crash would trip a
pass that starts nothing.

`GuardianProofs`: `FlagIsTrue`, from the invariant that relates
flag and chain at each place, the two places between command and flag included.
`Refinement`, the guardian implements `Watchdog`: each action maps to one of its steps or a
stutter. The mapping needs `WInv`: at each place of a check, `seen` and
`downChecks` agree (a flush is under way only at a count of two; between two checks
a status that saw sing-box alive means a count of zero; a check that has come to
the port saw sing-box alive). `GuardianType` follows from it. All hold for every choice
of faults.

`NetCacheProofs`: `CacheInvariance` and `CacheType`, for any number of refreshes. That
a measured delay is honest needs that whoever measures it has read a sing-box that was
up.

`RoutingProofs`: `RouteInvariance`, for any number of callers, attempts and late
requests. `DirectSticks` alone is not inductive: it needs that while a DIRECT is
confirmed no caller is sending, that the loop sends only while the flag is clear
and it holds the mutex, so that no caller can have set the flag meanwhile, and
that the reaper and the guardian send nothing but direct. `RouteType`,
`DirectIsKept`.

`BotProofs`: `BotInvariance`, for any number of routers, users, rooms and messages.
`OneAnswer` needs `Delivered` (what was answered, or is being answered, lies before
the long poll's place in the chat, and an answer due was not given); `RoomFollowsChat`
needs the same of routers that are down (`Follows`). `BotType`, `NoEcho`,
`ChatIsFollowed`, and `EndsMeet`: two routers that read the same and missed nothing
are in the same room, since a chat asks for one thing. `PanelIsServed`, if panel and
bot mean the same file (`SamePath`; without it `finding_path` is the
counterexample): an order that is outstanding is what the file says
(`Outstanding`), since whatever a bot does to the file, a save that is cut short
included, settles the order; and only `Boot` takes a bot from its end to a
construction.

`BackoffProofs`: `Documented` and `NoTightLoop`, for every `SLEEP_ON_ERROR` below
1100 s and any number of failures. A base that is shifted by less than 24 loses no
bit, and the comparison with the cap before the shift is the one after it
(`ShortShift`). A longer shift always ends at the cap (`LongShift`): either what the
word keeps of the base is still above it, or nothing is kept, or the sign bit is. That
no base leaves a few low bits that would pass for a short sleep is `NoSmallRest`: a
base is a whole number of seconds, and modulo 2^26 such a number is zero or more than
17 units. This fails for large sleeps, the first of which is 47279 s; the assumption
asks for less than 1100 s because TLC has to hold a base in 31 bits.

The assumptions are the `ASSUME`s on the constants, which TLC evaluates in every
run, and those named above.

Only model-checked: the liveness properties (`ProviderServed`, `RestartServed`;
`DeadSingboxBypassed`, `RedirectRestored`, `DeadPortDemoted`; `EventuallyFresh`,
`StopEndsTicker`; `Answered`, `Promoted`; `CleanStop`, `Reconnects`), since fairness
and `ENABLED` are out of the prover's reach. Every invariant and every action
property of a passing run is proved.

## 6. Not modelled

- Configuration loading, rendering, logging, the LuCI views and the installation
  scripts keep no state of their own or are run once. The regular expressions
  that parse a link are an input of the models: a message parses, to some room,
  or does not.
- The status API's listener and its shutdown; `vkAlive`, which is only displayed;
  the rpcd methods that read and edit configuration files.
- A write of `last_provider.json` that fails, on a full disk, while the bot goes on:
  the code logs it and takes the provider as saved.
- Panics: `loop` recovers them and `lastError` says so; no step of the models
  panics.

What could be added: a composition of `Routing` with `Guardian`, so that the
promotion and the demotion meet in one model with the guardian's status reads; the
Controller of `Bot` as an instance of `Tunnel`; a save that fails, as a fault of
`Supervisor`.
