----------------------------- MODULE Supervisor -----------------------------
(***************************************************************************)
(* The olcrtc supervisor: internal/controller/controller.go, state.go and  *)
(* classify.go, driven by the bot's command handlers and restarted by      *)
(* procd.                                                                  *)
(*                                                                         *)
(* Controller.mu is held over each critical section, and no two sections   *)
(* overlap, so a section is one action.  What the code does AFTER          *)
(* unlocking (removing the file, sending on sig, sleeping in a select) is  *)
(* a step of its own: that is where the goroutines interleave.             *)
(*                                                                         *)
(* Actors: the loop goroutine; per child process a waitCmd goroutine and a *)
(* streamSubprocess goroutine; the bot's handlers, which run one at a      *)
(* time; the child processes; main and procd.  A child occupies a slot of  *)
(* Pid from cmd.Start until its two goroutines are done; then the slot is  *)
(* used again.                                                             *)
(*                                                                         *)
(* Abstractions.  Time: a timer fires at any moment, and "up for more than *)
(* 30s" is a choice of the tick.  failures is read only as zero or not (it *)
(* sets the length of the sleep otherwise), so it saturates at 1.  A line  *)
(* of output is its class; one line is in flight per pipe.  lastError and   *)
(* the timestamps are only displayed.                                      *)
(*                                                                         *)
(* sing-box's selector is not part of this module: the promotion in        *)
(* LoopStable, the demotion in SettleTransient, and SetRoute with          *)
(* manualDirect and its callers are Routing's, where a PUT can time out    *)
(* and land late.  No field here is read or written by them, and the       *)
(* sections that send a PUT end whatever becomes of it (Routing!Answered). *)
(***************************************************************************)
EXTENDS Naturals

CONSTANTS
  Provider,     \* the (kind, room) pairs users send
  NoProvider,   \* provider = nil; also: no loadable last_provider.json
  Pid,          \* process slots
  NoPid,        \* cmd = nil
  NoLine,       \* lastOutput = "", or an empty pipe
  MaxFailures,  \* maxFailures (5 in the code)
  Lines,        \* the classes of line olcrtc prints
  StartFaults,  \* can writing the config, os.Pipe or cmd.Start fail?
  StuckPipe,    \* can the pipe outlive the child by more than 2s?
  MayStop,      \* is the bot ever asked to stop (SIGTERM)?
  MayCrash      \* is the bot ever killed?

ASSUME SupervisorAssumption ==
  /\ NoProvider \notin Provider
  /\ NoPid \notin Pid
  /\ MaxFailures \in Nat
  /\ Lines \subseteq {"transient", "definitive"}
  /\ NoLine \notin {"transient", "definitive"}
  /\ {StartFaults, StuckPipe, MayStop, MayCrash} \subseteq BOOLEAN

VARIABLES
  provider, restarting, savePending, failures, crashFailures,
  cmd, lastOutput,  \* the Controller's fields, under mu
  sig,          \* is the one-place channel sig full?
  loop,         \* where the loop goroutine is
  api,          \* what the running handler has still to do
  status,       \* status[p]: the child in slot p
  prov,         \* prov[p]: the provider it was started with, while that matters
  pipe,         \* pipe[p]: the line it printed that nobody read yet
  stream,       \* stream[p]: is its streamSubprocess goroutine running?
  waiter,       \* waiter[p]: where its waitCmd goroutine is
  file,         \* last_provider.json
  taken,        \* history: did a rejection's removal take the file of the
                \* provider that was set and saved?
  life          \* the bot process

core == <<provider, restarting, savePending, failures, crashFailures>>
child == <<status, prov, pipe, stream, waiter>>
disk == <<file, taken>>
vars == <<core, cmd, lastOutput, sig, loop, api, child, disk, life>>

MaybeProvider == Provider \cup {NoProvider}
Running == life # "down"
Cancelled == life \in {"cancelled", "stopped"}

FreeSlot == {p \in Pid : status[p] = "gone" /\ waiter[p] = "none" /\ ~stream[p]}

\* The fields as New and Start leave them: the saved provider, if one loads,
\* is set as by SetProvider(&p, false) before the loop runs.
Init ==
  /\ file \in MaybeProvider
  /\ provider = file
  /\ restarting = (file # NoProvider)
  /\ sig = (file # NoProvider)
  /\ savePending = FALSE
  /\ failures = 0
  /\ crashFailures = 0
  /\ cmd = NoPid
  /\ lastOutput = NoLine
  /\ loop = "body"
  /\ api = "idle"
  /\ status = [p \in Pid |-> "gone"]
  /\ prov = [p \in Pid |-> NoProvider]
  /\ pipe = [p \in Pid |-> NoLine]
  /\ stream = [p \in Pid |-> FALSE]
  /\ waiter = [p \in Pid |-> "none"]
  /\ taken = FALSE
  /\ life = "up"

-----------------------------------------------------------------------------
(* The loop goroutine. *)

\* Mutant: the limit is one crash late.
MaxFailuresBlockLate(fails, crashes) ==
  \/ /\ crashes > MaxFailures + 1
     /\ provider' = NoProvider /\ failures' = 0 /\ crashFailures' = 0
     /\ loop' = "remove"
  \/ /\ crashes <= MaxFailures + 1
     /\ failures' = fails /\ crashFailures' = crashes
     /\ loop' = "select"
     /\ UNCHANGED provider

\* Mutant: removeOnMax is never set.
MaxFailuresBlockKeepsFile(fails, crashes) ==
  /\ loop' = "select"
  /\ IF crashes > MaxFailures
     THEN provider' = NoProvider /\ failures' = 0 /\ crashFailures' = 0
     ELSE failures' = fails /\ crashFailures' = crashes /\ UNCHANGED provider

\* The maxFailures block that closes the critical section, on the counters
\* the section leaves.
MaxFailuresBlock(fails, crashes) ==
  \/ /\ crashes > MaxFailures
     /\ provider' = NoProvider
     /\ failures' = 0
     /\ crashFailures' = 0
     /\ loop' = "remove"
  \/ /\ crashes <= MaxFailures
     /\ failures' = fails
     /\ crashFailures' = crashes
     /\ loop' = "select"
     /\ UNCHANGED provider

\* Mutant: cmd = nil without the cmd.Wait() under the lock.
LoopKillNoWait ==
  /\ loop = "body" /\ cmd # NoPid /\ restarting
  /\ cmd' = NoPid
  /\ MaxFailuresBlock(failures, crashFailures)
  /\ UNCHANGED <<restarting, savePending, lastOutput, sig, api, child, disk,
                 life>>

\* A restart was asked for: SIGTERM, SIGKILL a second later, and cmd.Wait()
\* under the lock until the child is gone.  restarting stays set.  How it ended
\* and whose it was matters to nobody, as cmd has left it.
LoopKill ==
  /\ loop = "body" /\ cmd # NoPid /\ restarting
  /\ status' = [status EXCEPT ![cmd] = "crash"]
  /\ prov' = [prov EXCEPT ![cmd] = NoProvider]
  /\ cmd' = NoPid
  /\ MaxFailuresBlock(failures, crashFailures)
  /\ UNCHANGED <<restarting, savePending, lastOutput, sig, api, pipe, stream,
                 waiter, disk, life>>

\* Up for 30s or less: nothing to do.
LoopYoung ==
  /\ loop = "body" /\ cmd # NoPid /\ ~restarting
  /\ MaxFailuresBlock(failures, crashFailures)
  /\ UNCHANGED <<restarting, savePending, cmd, lastOutput, sig, api, child,
                 disk, life>>

\* Up for more than 30s: forget earlier failures.  The promotion that follows is
\* Promote in Routing.
LoopStable ==
  /\ loop = "body" /\ cmd # NoPid /\ ~restarting
  /\ MaxFailuresBlock(0, IF failures > 0 THEN 0 ELSE crashFailures)
  /\ UNCHANGED <<restarting, savePending, cmd, lastOutput, sig, api, child,
                 disk, life>>

\* Nothing runs and nothing is to run.
LoopIdle ==
  /\ loop = "body" /\ cmd = NoPid /\ provider = NoProvider
  /\ restarting' = FALSE
  /\ savePending' = FALSE
  /\ MaxFailuresBlock(failures, crashFailures)
  /\ UNCHANGED <<cmd, lastOutput, sig, api, child, disk, life>>

\* Start a child for the provider, and save the provider if a save is due.
LoopStart(p) ==
  /\ loop = "body" /\ cmd = NoPid /\ provider # NoProvider
  /\ p \in FreeSlot
  /\ restarting' = FALSE
  /\ cmd' = p
  /\ lastOutput' = NoLine
  /\ status' = [status EXCEPT ![p] = "alive"]
  /\ prov' = [prov EXCEPT ![p] = provider]
  /\ stream' = [stream EXCEPT ![p] = TRUE]
  /\ waiter' = [waiter EXCEPT ![p] = "wait"]
  /\ savePending' = FALSE
  /\ IF savePending THEN file' = provider /\ taken' = FALSE ELSE UNCHANGED disk
  /\ MaxFailuresBlock(failures, crashFailures)
  /\ UNCHANGED <<sig, api, pipe, life>>

\* Mutant: the save is dropped with the start that failed.
LoopStartFaultUnsaved ==
  /\ StartFaults
  /\ loop = "body" /\ cmd = NoPid /\ provider # NoProvider
  /\ restarting' = FALSE /\ savePending' = FALSE /\ failures' = 1
  /\ loop' = "check"
  /\ UNCHANGED <<provider, crashFailures, cmd, lastOutput, sig, api, child, disk,
                 life>>

\* A host-side fault returns early: no save, no maxFailures block, no select.
LoopStartFault ==
  /\ StartFaults
  /\ loop = "body" /\ cmd = NoPid /\ provider # NoProvider
  /\ restarting' = FALSE
  /\ failures' = 1
  /\ loop' = "check"
  /\ UNCHANGED <<provider, savePending, crashFailures, cmd, lastOutput, sig,
                 api, child, disk, life>>

LoopRemove ==
  /\ loop = "remove"
  /\ file' = NoProvider
  /\ loop' = "select"
  /\ UNCHANGED <<core, cmd, lastOutput, sig, api, child, taken, life>>

\* The select wakes on sig, or on the timer (or ctx) with sig as it is.
LoopWake ==
  /\ loop = "select"
  /\ sig' \in {FALSE, sig}
  /\ loop' = "check"
  /\ UNCHANGED <<core, cmd, lastOutput, api, child, disk, life>>

\* Exit if asked to; otherwise sleep if calcBackoff says so.
LoopCheck ==
  /\ loop = "check"
  /\ loop' = CASE Cancelled -> "exited"
               [] ~Cancelled /\ failures > 0 -> "backoff"
               [] OTHER -> "body"
  /\ UNCHANGED <<core, cmd, lastOutput, sig, api, child, disk, life>>

\* Mutant: the backoff has no timer.
LoopBackoffForever ==
  /\ loop = "backoff" /\ Cancelled
  /\ loop' = "exited"
  /\ UNCHANGED <<core, cmd, lastOutput, sig, api, child, disk, life>>

\* The backoff sleep listens to its timer and to ctx, not to sig.
LoopBackoff ==
  /\ loop = "backoff"
  /\ loop' \in IF Cancelled THEN {"body", "exited"} ELSE {"body"}
  /\ UNCHANGED <<core, cmd, lastOutput, sig, api, child, disk, life>>

Loop ==
  \/ LoopKill \/ LoopYoung \/ LoopStable \/ LoopIdle
  \/ \E p \in Pid : LoopStart(p)
  \/ LoopStartFault \/ LoopRemove \/ LoopWake \/ LoopCheck \/ LoopBackoff

-----------------------------------------------------------------------------
(* The waitCmd and streamSubprocess goroutines of the child in slot p. *)

\* cmd.Wait() returns; only the owner of cmd waits for the output.
WaitReturns(p) ==
  /\ waiter[p] = "wait" /\ status[p] # "alive"
  /\ waiter' = [waiter EXCEPT ![p] = IF cmd = p THEN "drain" ELSE "settle"]
  /\ UNCHANGED <<core, cmd, lastOutput, sig, loop, api, status, prov,
                 pipe, stream, disk, life>>

WaitDrain(p) ==
  /\ waiter[p] = "drain" /\ (~stream[p] \/ StuckPipe)
  /\ waiter' = [waiter EXCEPT ![p] = "settle"]
  /\ UNCHANGED <<core, cmd, lastOutput, sig, loop, api, status, prov,
                 pipe, stream, disk, life>>

\* What every branch of the second critical section does to the slot.
Reap(p, next) ==
  /\ waiter[p] = "settle"
  /\ waiter' = [waiter EXCEPT ![p] = next]
  /\ status' = [status EXCEPT ![p] = "gone"]
  /\ prov' = [prov EXCEPT ![p] = IF next = "remove" THEN @ ELSE NoProvider]
  /\ UNCHANGED <<restarting, savePending, lastOutput, sig, loop, api, pipe,
                 stream, disk, life>>

\* The loop has killed this child: its exit is nobody's news.
SettleStale(p) ==
  /\ cmd # p
  /\ Reap(p, "signal")
  /\ UNCHANGED <<provider, failures, crashFailures, cmd>>

SettleClean(p) ==
  /\ cmd = p /\ status[p] = "clean"
  /\ Reap(p, "signal")
  /\ cmd' = NoPid
  /\ UNCHANGED <<provider, failures, crashFailures>>

\* ClassifyOutput of the last captured line, whoever printed it.  With no line
\* captured the message is "exit status N" or "signal: killed".
Definitive == lastOutput = "definitive"

SettleDefinitive(p) ==
  /\ cmd = p /\ status[p] = "crash" /\ Definitive
  /\ Reap(p, "remove")
  /\ cmd' = NoPid
  /\ provider' = NoProvider
  /\ failures' = 0
  /\ crashFailures' = 0

\* Mutant: a crash leaves cmd as it is.
SettleTransientKeepsCmd(p) ==
  /\ cmd = p /\ status[p] = "crash" /\ ~Definitive
  /\ Reap(p, "signal")
  /\ failures' = 1 /\ crashFailures' = crashFailures + 1
  /\ UNCHANGED <<cmd, provider>>

\* The demotion that follows under the lock is ReapCrash in Routing.
SettleTransient(p) ==
  /\ cmd = p /\ status[p] = "crash" /\ ~Definitive
  /\ Reap(p, "signal")
  /\ cmd' = NoPid
  /\ failures' = 1
  /\ crashFailures' = crashFailures + 1
  /\ UNCHANGED provider

\* The provider may be another one by now, and its file as well.
WaitRemove(p) ==
  /\ waiter[p] = "remove"
  /\ file' = NoProvider
  /\ taken' = (taken \/ (provider # NoProvider /\ file = provider))
  /\ waiter' = [waiter EXCEPT ![p] = "signal"]
  /\ prov' = [prov EXCEPT ![p] = NoProvider]
  /\ UNCHANGED <<core, cmd, lastOutput, sig, loop, api, status, pipe, stream,
                 life>>

WaitSignal(p) ==
  /\ waiter[p] = "signal"
  /\ sig' = TRUE
  /\ waiter' = [waiter EXCEPT ![p] = "none"]
  /\ UNCHANGED <<core, cmd, lastOutput, loop, api, status, prov, pipe,
                 stream, disk, life>>

Wait(p) ==
  \/ WaitReturns(p) \/ WaitDrain(p)
  \/ SettleStale(p) \/ SettleClean(p) \/ SettleDefinitive(p)
  \/ SettleTransient(p)
  \/ WaitRemove(p) \/ WaitSignal(p)

\* The streamer owns no part of cmd: its line lands in lastOutput even when
\* another child has been started since.
StreamLine(p) ==
  /\ stream[p] /\ pipe[p] # NoLine
  /\ lastOutput' = pipe[p]
  /\ pipe' = [pipe EXCEPT ![p] = NoLine]
  /\ UNCHANGED <<core, cmd, sig, loop, api, status, prov, stream,
                 waiter, disk, life>>

StreamEnd(p) ==
  /\ stream[p] /\ pipe[p] = NoLine /\ status[p] # "alive"
  /\ stream' = [stream EXCEPT ![p] = FALSE]
  /\ UNCHANGED <<core, cmd, lastOutput, sig, loop, api, status, prov,
                 pipe, waiter, disk, life>>

Stream(p) == StreamLine(p) \/ StreamEnd(p)

\* The scanner gives up: a line of more than 1 MB, or a read error.  What is in
\* the pipe is lost, and so is all output to come.
StreamFault(p) ==
  /\ stream[p]
  /\ stream' = [stream EXCEPT ![p] = FALSE]
  /\ pipe' = [pipe EXCEPT ![p] = NoLine]
  /\ UNCHANGED <<core, cmd, lastOutput, sig, loop, api, status, prov, waiter,
                 disk, life>>

-----------------------------------------------------------------------------
(* The child process: it prints, and ends whenever it likes. *)

Emit(p) ==
  /\ status[p] = "alive" /\ stream[p] /\ pipe[p] = NoLine
  /\ \E l \in Lines : pipe' = [pipe EXCEPT ![p] = l]
  /\ UNCHANGED <<core, cmd, lastOutput, sig, loop, api, status, prov,
                 stream, waiter, disk, life>>

Exit(p) ==
  /\ status[p] = "alive" /\ waiter[p] # "none"
  /\ \E s \in {"clean", "crash"} : status' = [status EXCEPT ![p] = s]
  /\ UNCHANGED <<core, cmd, lastOutput, sig, loop, api, prov, pipe,
                 stream, waiter, disk, life>>

\* A child that outlived the bot belongs to init; nobody waits for it.
OrphanExit(p) ==
  /\ status[p] = "alive" /\ waiter[p] = "none"
  /\ status' = [status EXCEPT ![p] = "gone"]
  /\ UNCHANGED <<core, cmd, lastOutput, sig, loop, api, prov, pipe, stream,
                 waiter, disk, life>>

-----------------------------------------------------------------------------
(* The bot's handlers run one at a time.  Each method changes the fields    *)
(* under mu, and then does the rest of its work in further steps.           *)

Calls == Running /\ api = "idle" /\ life # "stopped"

\* SetProvider sets the provider, asks for a restart, notes the save, and goes
\* on to signal.  The mutants leave out one of the last three.
NewProvider(q, r, s, next) ==
  /\ Calls /\ provider # q
  /\ provider' = q
  /\ restarting' = r
  /\ savePending' = s
  /\ failures' = 0 /\ crashFailures' = 0
  /\ api' = next
  /\ UNCHANGED <<cmd, lastOutput, sig, loop, child, disk, life>>

SetProviderQuietly(q) == NewProvider(q, restarting, TRUE, "signal")
SetProviderUnsignalled(q) == NewProvider(q, TRUE, TRUE, "idle")
SetProviderUnsaved(q) == NewProvider(q, TRUE, savePending, "signal")

\* A provider link arrives: SetProvider(&q, true), a no-op for the same room.
SetProvider(q) == NewProvider(q, TRUE, TRUE, "signal")

ClearProvider ==
  /\ Calls
  /\ provider' = NoProvider
  /\ restarting' = TRUE
  /\ savePending' = FALSE
  /\ failures' = 0
  /\ crashFailures' = 0
  /\ api' = "remove"
  /\ UNCHANGED <<cmd, lastOutput, sig, loop, child, disk, life>>

\* crashFailures is left as it is.
Restart ==
  /\ Calls
  /\ restarting' = TRUE
  /\ failures' = 0
  /\ api' = "signal"
  /\ UNCHANGED <<provider, savePending, crashFailures, cmd, lastOutput, sig,
                 loop, child, disk, life>>

CallRemove ==
  /\ api = "remove"
  /\ file' = NoProvider
  /\ api' = "signal"
  /\ UNCHANGED <<core, cmd, lastOutput, sig, loop, child, taken, life>>

CallSignal ==
  /\ api = "signal"
  /\ sig' = TRUE
  /\ api' = "idle"
  /\ UNCHANGED <<core, cmd, lastOutput, loop, child, disk, life>>

CallReturns == CallRemove \/ CallSignal

Call ==
  \/ \E q \in Provider : SetProvider(q)
  \/ ClearProvider \/ Restart \/ CallReturns

-----------------------------------------------------------------------------
(* main and procd. *)

\* SIGTERM: ctx is cancelled.
Cancel ==
  /\ MayStop /\ life = "up"
  /\ life' = "cancelled"
  /\ UNCHANGED <<core, cmd, lastOutput, sig, loop, api, child, disk>>

\* Bot.Run has returned, so no handler runs: Controller.Stop kills the child.
Stop ==
  /\ life = "cancelled" /\ api = "idle"
  /\ life' = "stopped"
  /\ status' = IF cmd # NoPid /\ status[cmd] = "alive"
               THEN [status EXCEPT ![cmd] = "crash"] ELSE status
  /\ UNCHANGED <<core, cmd, lastOutput, sig, loop, api, prov, pipe,
                 stream, waiter, disk>>

\* The bot process ends, and with it every goroutine; its children do not.
Vanish(stat) ==
  /\ life' = "down"
  /\ provider' = NoProvider
  /\ restarting' = FALSE /\ savePending' = FALSE /\ sig' = FALSE
  /\ failures' = 0 /\ crashFailures' = 0
  /\ cmd' = NoPid /\ lastOutput' = NoLine
  /\ loop' = "exited"
  /\ api' = "idle"
  /\ status' = [p \in Pid |-> IF stat[p] = "alive" THEN "alive" ELSE "gone"]
  /\ prov' = [p \in Pid |-> NoProvider]
  /\ pipe' = [p \in Pid |-> NoLine]
  /\ stream' = [p \in Pid |-> FALSE]
  /\ waiter' = [p \in Pid |-> "none"]
  /\ taken' = FALSE

MainReturns == life = "stopped" /\ Vanish(status) /\ UNCHANGED file
Crash == MayCrash /\ Running /\ Vanish(status) /\ UNCHANGED file

\* It ends in the middle of LoopStart, with the child started and the save not
\* done: before the write, or between its truncation and its bytes, which leaves
\* a file that does not load.
SaveCut(p) ==
  /\ life = "stopped" \/ (MayCrash /\ Running)
  /\ loop = "body" /\ cmd = NoPid /\ provider # NoProvider /\ savePending
  /\ p \in FreeSlot
  /\ Vanish([status EXCEPT ![p] = "alive"])
  /\ file' \in {file, NoProvider}

\* Mutant: the saved provider is not loaded.
BootForgets ==
  /\ life = "down"
  /\ life' = "up"
  /\ loop' = "body"
  /\ UNCHANGED <<core, cmd, lastOutput, sig, api, child, disk>>

\* procd respawns the bot: New and Start.
Boot ==
  /\ life = "down"
  /\ life' = "up"
  /\ provider' = file
  /\ restarting' = (file # NoProvider)
  /\ sig' = (file # NoProvider)
  /\ loop' = "body"
  /\ UNCHANGED <<savePending, failures, crashFailures, cmd, lastOutput, api,
                 child, disk>>

Environment ==
  \/ Cancel \/ Stop \/ MainReturns \/ Crash \/ Boot
  \/ \E p \in Pid : SaveCut(p)

Next ==
  \/ Loop
  \/ \E p \in Pid :
       \/ Wait(p) \/ Stream(p) \/ Emit(p) \/ Exit(p) \/ OrphanExit(p)
       \/ StreamFault(p)
  \/ Call
  \/ Environment

Spec == Init /\ [][Next]_vars

\* Every goroutine that can run does: the loop's timers fire, a child that
\* ended is waited for, output is read, and a call that began returns.
\* Nothing makes a child end, a user act, or a start succeed.
Fairness ==
  /\ WF_vars(Loop)
  /\ \A p \in Pid : WF_vars(Wait(p)) /\ WF_vars(Stream(p))
  /\ WF_vars(CallReturns)

FairSpec == Spec /\ Fairness

-----------------------------------------------------------------------------
(* Properties. *)

Line == {NoLine} \cup Lines

CoreType ==
  /\ provider \in MaybeProvider
  /\ restarting \in BOOLEAN
  /\ savePending \in BOOLEAN
  /\ failures \in {0, 1}
  /\ crashFailures \in 0 .. MaxFailures + 1

ChildType ==
  /\ status \in [Pid -> {"gone", "alive", "clean", "crash"}]
  /\ prov \in [Pid -> MaybeProvider]
  /\ pipe \in [Pid -> Line]
  /\ stream \in [Pid -> BOOLEAN]
  /\ waiter \in [Pid -> {"none", "wait", "drain", "settle", "remove", "signal"}]

RestType ==
  /\ cmd \in Pid \cup {NoPid}
  /\ lastOutput \in Line
  /\ sig \in BOOLEAN
  /\ loop \in {"body", "remove", "select", "check", "backoff", "exited"}
  /\ api \in {"idle", "signal", "remove"}
  /\ file \in MaybeProvider
  /\ taken \in BOOLEAN
  /\ life \in {"up", "cancelled", "stopped", "down"}

\* Every variable keeps its type; the two counters stay within the bounds the
\* abstraction (failures) and the maxFailures block (crashFailures) give them.
TypeOK == CoreType /\ ChildType /\ RestType

\* A child without a waitCmd goroutine: it outlived the bot that started it.
Orphan(p) == status[p] = "alive" /\ waiter[p] = "none"

\* The supervisor never runs two tunnels: a child that is alive is the one
\* cmd points to, whatever the loop, waitCmd and the callers interleave
\* (controller.go:365-369, the Wait under the lock before cmd = nil).
AtMostOneTunnel ==
  \A p \in Pid : status[p] = "alive" /\ ~Orphan(p) => p = cmd

\* Unless a restart is under way, the tunnel that runs is the one for the
\* current provider: no interleaving of SetProvider with the loop leaves the
\* old room running under the new provider (controller.go:169-170, 354-370).
RunningMatches ==
  cmd # NoPid /\ provider # NoProvider /\ ~restarting => prov[cmd] = provider

\* While a tunnel is up the crash count is within maxFailures: only one crash
\* is counted per start, so the safety net trips on the first start after the
\* limit and never later (controller.go:473-481, 595).
CrashCountBounded == cmd # NoPid => crashFailures <= MaxFailures

\* The safety net trips only in a pass that has started the provider once more:
\* waitCmd counts the crashes and does not look at the limit.  So the room that
\* is given up is the one whose child has just been started, and that child is
\* left running (controller.go:396-466, 473-488, 595).
TripsOnAStart ==
  [][loop = "body" /\ loop' = "remove"
       => cmd = NoPid /\ cmd' # NoPid /\ prov'[cmd'] = provider]_vars

\* Somebody is about to send on sig.
SignalDue ==
  \/ sig
  \/ api \in {"remove", "signal"}
  \/ \E p \in Pid : waiter[p] # "none" /\ status[p] # "alive"

\* No lost wakeup: when there is a tunnel to kill or to start, the loop does
\* not sleep out the timer of its select (up to 60s); a signal is in the
\* channel or on its way, although sig holds one signal and the loop may
\* already have used the signal of the request (controller.go:179-182, 494-499).
NoLostWakeup ==
  /\ loop = "select"
  /\ restarting \/ (cmd = NoPid /\ provider # NoProvider)
  => SignalDue

\* Is last_provider.json about to be removed?
RemoveDue ==
  \/ loop = "remove"
  \/ api = "remove"
  \/ \E p \in Pid : waiter[p] = "remove"

\* Stop means forget: once the provider is dropped, by the user, by a
\* rejection or by the safety net, the file is gone as soon as the removal
\* that follows the unlock is done, and a save that was pending does not
\* bring it back (controller.go:186-209, 460-465, 486-488, 613-615).
Forgotten == Running /\ provider = NoProvider /\ ~RemoveDue => file = NoProvider

\* The current provider is the one a reboot brings back, as soon as its save
\* is done and until a rejection's removal has taken its file: no other step
\* takes the file, and no save is lost over kills, restarts and start faults
\* (controller.go:460-465, 486-488).
Remembered ==
  provider # NoProvider /\ ~savePending /\ ~taken => file = provider

\* Once saved, the current provider stays saved: a removal that was decided for
\* another one and follows the unlock does not take its file, unless it is the
\* removal after a rejection, which may be that of an earlier child
\* (controller.go:186-209, 460-465, 486-488, 613-615).
KeptUntilRejected ==
  [][provider # NoProvider /\ ~savePending /\ file = provider /\ file' # file
       => \E p \in Pid : waiter[p] = "remove" /\ waiter'[p] = "signal"]_vars

\* However the bot ends, it leaves at most one more child behind: a kill, a
\* restart or Stop never meets two children of the same bot
\* (controller.go:133, 150-153, 365-369).
OneOrphanPerDeath ==
  [][life # "down" /\ life' = "down"
       => \A p, q \in Pid :
            Orphan(p)' /\ ~Orphan(p) /\ Orphan(q)' /\ ~Orphan(q) => p = q]_vars

\* A restart or a stop that was asked for kills the tunnel in the end, also
\* when the loop sleeps in a backoff that does not listen to sig.
RestartServed == (Running /\ restarting /\ cmd # NoPid) ~> (cmd = NoPid)

\* On a host where starts succeed, every provider that is set is run in the
\* end, or replaced or dropped.
ProviderServed ==
  \A q \in Provider :
    provider = q ~> (provider # q \/ (cmd # NoPid /\ prov[cmd] = q))

\* The tunnels of the abstract specification: the children a waitCmd goroutine
\* waits for.  An orphan is none of them.
Tunnels ==
  {[slot |-> p, room |-> prov[p]] :
     p \in {q \in Pid : status[q] = "alive" /\ ~Orphan(q)}}

Promise == INSTANCE Tunnel WITH
  Room <- Provider, NoRoom <- NoProvider, Slot <- Pid,
  Rejecting <- "definitive" \in Lines,
  up <- Running, wanted <- provider, unsaved <- savePending, saved <- file,
  tunnels <- Tunnels

\* The supervisor implements Tunnel: whatever the goroutines interleave, every
\* step is one of the seven abstract ones or changes nothing they can see.  So a
\* child is started only when none runs and only for the current provider, and a
\* save is part of a start (controller.go:354-370, 396-465).
ImplementsTunnel == Promise!Spec

-----------------------------------------------------------------------------
(* What comments and documents say, and the code does not do: TLC finds a    *)
(* counterexample to each.                                                   *)

\* "provider is corrupted, persistence and runtime removed" (controller.go:477):
\* without a provider no tunnel is left running.  The block trips in the pass
\* that has just started a child.
RuntimeRemoved ==
  loop = "select" /\ provider = NoProvider /\ ~restarting => cmd = NoPid

\* ClassDefinitive is "provider permanently rejected" (classify.go:14): the
\* provider a rejection drops is the one whose child was rejected.
RejectsItsOwn ==
  [][\A p \in Pid : waiter[p] = "settle" /\ waiter'[p] = "remove"
       => prov[p] = provider]_vars

\* last_provider.json "is removed in EXACTLY three cases" (test_guide.md:25-31):
\* the crash of a rejected provider, too many crashes, ClearProvider.  So while
\* a provider stays set, only its own rejection removes its file.  The removal
\* after a rejection follows the unlock, and the next provider may have been
\* set, started and saved by then.
KeptWhileSet ==
  [][provider # NoProvider /\ ~savePending /\ file = provider /\ file' # file
       => \/ provider' # provider
          \/ \E p \in Pid : waiter[p] = "remove" /\ prov[p] = provider]_vars

\* "Stop terminates the controller loop ... and kills the child process"
\* (controller.go:137): once both are done no child is left.
StopKillsTheChild ==
  life = "stopped" /\ loop = "exited" => \A p \in Pid : status[p] # "alive"
=============================================================================
