-------------------------------- MODULE Bot --------------------------------
(***************************************************************************)
(* Two ways to tell a router which room to join: the chat, read by         *)
(* internal/bot/bot.go, and the LuCI panel, whose rpcd backend writes      *)
(* last_provider.json and restarts the bot; with the life of the bot       *)
(* process around them (main.go, the init script).                         *)
(*                                                                         *)
(* All routers log in with one VK account, so each sees every message to   *)
(* it and, as outgoing ones, the answers of all.  A long poll starts at    *)
(* the end of the chat: what came while a bot was reconnecting is missed.  *)
(* Bot.Run is several steps (constructing the long poll, entering lp.Run,  *)
(* its return, the sleep); the watcher that calls lp.Shutdown and main     *)
(* act between them.  A handler is two: what it does, and the answer.      *)
(*                                                                         *)
(* Of the Controller only the provider, its file and the save that is due  *)
(* matter here; how they are kept in step is in Supervisor.  A message is  *)
(* what dispatch makes of it: a link that parses (the room), "stop" (/n),  *)
(* "status" (/s, /r, /menu: answered by every router), "mode" (/m and the  *)
(* mode buttons: only by a client) or "other" (only by a server).          *)
(***************************************************************************)
EXTENDS Integers, Sequences, FiniteSetsExt

CONSTANTS
  Router,
  Client,          \* the routers with IS_CLIENT
  Managed,         \* those that are stopped, killed or set by the panel
  User,            \* who writes to the account
  Allowed,         \* ALLOWED_USER_IDS; nobody listed: everybody may
  Room,
  Said,            \* what users write: pairs of a user and a text
  NoProvider,      \* provider = nil, or no file that loads
  NoOrder,         \* the panel has nothing outstanding
  InitialBackoff,  \* initialLongPollBackoff, in seconds
  MaxBackoff,      \* maxLongPollBackoff
  MaxMessages,     \* bound: messages of users
  SamePath         \* do panel and bot mean the same file?

ASSUME BotAssumption ==
  /\ Client \subseteq Router /\ Managed \subseteq Router
  /\ Router \cap User = {} /\ Allowed \subseteq User
  /\ NoProvider \notin Room /\ NoOrder \notin Room \cup {NoProvider}
  /\ Said \subseteq User \X (Room \cup {"stop", "status", "mode", "other"})
  /\ MaxMessages \in Nat /\ SamePath \in BOOLEAN
  /\ InitialBackoff \in Nat \ {0} /\ MaxBackoff \in Nat
  /\ InitialBackoff <= MaxBackoff

VARIABLES
  chat,       \* every message of the account, oldest first
  pc,         \* pc[r]: where Bot.Run of router r is
  backoff,    \* backoff[r]: its local variable
  next,       \* next[r]: the first message its long poll has not delivered
  busy,       \* busy[r]: the message whose answer is due (0: none)
  cancelled,  \* cancelled[r]: is ctx cancelled?
  lost,       \* lost[r]: history: did lp.Shutdown come before lp.Run, in vain?
  provider,   \* provider[r]: Controller.provider
  unsaved,    \* unsaved[r]: Controller.savePending
  file,       \* file[r]: last_provider.json
  apart,      \* apart[r]: history: has it missed or lost an order of the chat?
  panel,      \* panel[r]: is the panel between the write and the restart?
  order       \* order[r]: history: what the panel wrote and no bot overwrote

process == <<pc, backoff, next, busy, cancelled, lost>>
tunnel == <<provider, unsaved, file>>
vars == <<chat, process, tunnel, apart, panel, order>>

MaybeRoom == Room \cup {NoProvider}
Text == Room \cup {"stop", "status", "mode", "other"}
Alive(r) == pc[r] \notin {"exited", "killed"}

Init ==
  /\ chat = <<>>
  /\ pc = [r \in Router |-> "construct"]
  /\ backoff = [r \in Router |-> InitialBackoff]
  /\ next = [r \in Router |-> 1]
  /\ busy = [r \in Router |-> 0]
  /\ cancelled = [r \in Router |-> FALSE]
  /\ lost = [r \in Router |-> FALSE]
  /\ provider = [r \in Router |-> NoProvider]
  /\ unsaved = [r \in Router |-> FALSE]
  /\ file = [r \in Router |-> NoProvider]
  /\ apart = [r \in Router |-> FALSE]
  /\ panel = [r \in Router |-> FALSE]
  /\ order = [r \in Router |-> NoOrder]

Go(r, from, to) == pc[r] = from /\ pc' = [pc EXCEPT ![r] = to]

-----------------------------------------------------------------------------
(* What a message means. *)

Obeyed(m) == m.by \in User /\ (Allowed = {} \/ m.by \in Allowed)

\* resolveAction, provider.Parse and the commands that set the provider.
Orders(m) == Obeyed(m) /\ m.text \in Room \cup {"stop"}

Meaning(m) == IF m.text = "stop" THEN NoProvider ELSE m.text

Answers(r, m) ==
  /\ Obeyed(m)
  /\ m.text = "mode" => r \in Client
  /\ m.text = "other" => r \notin Client

\* The first n messages of the chat ask for p: so does the last order among
\* them, or there is none and p is no room.
AskFor(n, p) ==
  \/ p = NoProvider /\ \A i \in 1 .. n : ~Orders(chat[i])
  \/ \E i \in 1 .. n :
       /\ Orders(chat[i]) /\ Meaning(chat[i]) = p
       /\ \A j \in i + 1 .. n : ~Orders(chat[j])

-----------------------------------------------------------------------------
(* Bot.Run. *)

\* newLongPoll asks VK where the chat ends.
Construct(r) ==
  /\ Go(r, "construct", "arm")
  /\ next' = [next EXCEPT ![r] = Len(chat) + 1]
  /\ apart' = [apart EXCEPT ![r] =
       @ \/ \E i \in next[r] .. Len(chat) : Orders(chat[i])]
  /\ UNCHANGED <<chat, backoff, busy, cancelled, lost, tunnel, panel, order>>

\* Mutant: a failed construction ends the bot.
ConstructFaultFatal(r) ==
  /\ Go(r, "construct", "stopping")
  /\ UNCHANGED <<chat, backoff, next, busy, cancelled, lost, tunnel, apart,
                 panel, order>>

\* No DNS at boot, VK is down.
ConstructFault(r) ==
  /\ Go(r, "construct", "wait")
  /\ UNCHANGED <<chat, backoff, next, busy, cancelled, lost, tunnel, apart,
                 panel, order>>

growBackoff(d, max) == Min({2 * d, max})

\* Mutant: the backoff is doubled without a cap.
WakeUncapped(r) ==
  /\ Go(r, "wait", "construct")
  /\ backoff' = [backoff EXCEPT ![r] = 2 * @]
  /\ UNCHANGED <<chat, next, busy, cancelled, lost, tunnel, apart, panel, order>>

\* sleepCtx: the timer fires; or ctx does, and Run returns.
Wake(r) ==
  /\ Go(r, "wait", "construct")
  /\ backoff' = [backoff EXCEPT ![r] = growBackoff(@, MaxBackoff)]
  /\ UNCHANGED <<chat, next, busy, cancelled, lost, tunnel, apart, panel, order>>

WakeCancelled(r) ==
  /\ cancelled[r]
  /\ Go(r, "wait", "stopping")
  /\ UNCHANGED <<chat, backoff, next, busy, cancelled, lost, tunnel, apart,
                 panel, order>>

EnterRun(r) ==
  /\ Go(r, "arm", "run")
  /\ UNCHANGED <<chat, backoff, next, busy, cancelled, lost, tunnel, apart,
                 panel, order>>

\* Mutant: there is no watcher goroutine.
WatcherMissing(r) == FALSE /\ UNCHANGED <<vars, r>>

\* The watcher calls lp.Shutdown; before lp.Run that may be in vain.
Watcher(r) ==
  /\ cancelled[r] /\ ~lost[r] /\ pc[r] \in {"arm", "run"}
  /\ \/ /\ pc' = [pc EXCEPT ![r] = "shut"]
        /\ UNCHANGED lost
     \/ /\ pc[r] = "arm"
        /\ lost' = [lost EXCEPT ![r] = TRUE]
        /\ UNCHANGED pc
  /\ UNCHANGED <<chat, backoff, next, busy, cancelled, tunnel, apart, panel, order>>

\* lp.Run returns, shut down or with an error; Run then looks at ctx.  A run of
\* more than 30s resets the backoff.
RunReturns(r) ==
  /\ pc[r] \in {"run", "shut"} /\ busy[r] = 0
  /\ pc' = [pc EXCEPT ![r] = IF cancelled[r] THEN "stopping" ELSE "wait"]
  /\ \E b \in {backoff[r], InitialBackoff} : backoff' = [backoff EXCEPT ![r] = b]
  /\ UNCHANGED <<chat, next, busy, cancelled, lost, tunnel, apart, panel, order>>

-----------------------------------------------------------------------------
(* Bot.handle. *)

\* SetProvider (of another room) and ClearProvider.
Obey(r, m) ==
  /\ provider' = [provider EXCEPT ![r] = Meaning(m)]
  /\ unsaved' = [unsaved EXCEPT ![r] =
       m.text # "stop" /\ (@ \/ provider[r] # m.text)]
  /\ file' = [file EXCEPT ![r] = IF m.text = "stop" THEN NoProvider ELSE @]
  /\ order' = [order EXCEPT ![r] = IF m.text = "stop" THEN NoOrder ELSE @]
  /\ apart' = [apart EXCEPT ![r] = FALSE]

\* Mutant: outgoing messages are not skipped.
HandleOutbox(r) ==
  /\ pc[r] \in {"run", "shut"} /\ busy[r] = 0
  /\ next[r] <= Len(chat)
  /\ next' = [next EXCEPT ![r] = @ + 1]
  /\ LET m == chat[next[r]]
     IN  /\ busy' = [busy EXCEPT ![r] =
              IF Answers(r, m) \/ m.by \in Router THEN next[r] ELSE 0]
         /\ IF Orders(m) THEN Obey(r, m)
            ELSE UNCHANGED <<tunnel, apart, order>>
  /\ UNCHANGED <<chat, pc, backoff, cancelled, lost, panel>>

\* Mutant: links are taken before the sender is checked.
HandleAnyone(r) ==
  /\ pc[r] \in {"run", "shut"} /\ busy[r] = 0
  /\ next[r] <= Len(chat)
  /\ next' = [next EXCEPT ![r] = @ + 1]
  /\ LET m == chat[next[r]]
     IN  /\ busy' = [busy EXCEPT ![r] = IF Answers(r, m) THEN next[r] ELSE 0]
         /\ IF m.by \in User /\ m.text \in Room \cup {"stop"} THEN Obey(r, m)
            ELSE UNCHANGED <<tunnel, apart, order>>
  /\ UNCHANGED <<chat, pc, backoff, cancelled, lost, panel>>

\* The next message is delivered: skipped, denied, or dispatched.
Handle(r) ==
  /\ pc[r] \in {"run", "shut"} /\ busy[r] = 0
  /\ next[r] <= Len(chat)
  /\ next' = [next EXCEPT ![r] = @ + 1]
  /\ LET m == chat[next[r]]
     IN  /\ busy' = [busy EXCEPT ![r] = IF Answers(r, m) THEN next[r] ELSE 0]
         /\ IF Orders(m) THEN Obey(r, m)
            ELSE UNCHANGED <<tunnel, apart, order>>
  /\ UNCHANGED <<chat, pc, backoff, cancelled, lost, panel>>

\* The answer is sent, or sending it fails.
Send(r) ==
  /\ Alive(r) /\ busy[r] # 0
  /\ chat' \in {Append(chat, [by |-> r, text |-> "answer", re |-> busy[r]]), chat}
  /\ busy' = [busy EXCEPT ![r] = 0]
  /\ UNCHANGED <<pc, backoff, next, cancelled, lost, tunnel, apart, panel, order>>

\* Somebody writes.
Write(u, t) ==
  /\ <<u, t>> \in Said
  /\ Cardinality({i \in DOMAIN chat : chat[i].by \in User}) < MaxMessages
  /\ chat' = Append(chat, [by |-> u, text |-> t, re |-> 0])
  /\ UNCHANGED <<process, tunnel, apart, panel, order>>

-----------------------------------------------------------------------------
(* The Controller's part. *)

\* The loop has started the new child and saves; or it finds the provider gone.
Save(r) ==
  /\ Alive(r) /\ unsaved[r]
  /\ unsaved' = [unsaved EXCEPT ![r] = FALSE]
  /\ IF provider[r] = NoProvider THEN UNCHANGED <<file, order>>
     ELSE /\ file' = [file EXCEPT ![r] = provider[r]]
          /\ order' = [order EXCEPT ![r] = NoOrder]
  /\ UNCHANGED <<chat, process, provider, apart, panel>>

\* The supervisor drops a provider that the tunnel rejects or that crashes on.
Drop(r) ==
  /\ Alive(r) /\ provider[r] # NoProvider
  /\ provider' = [provider EXCEPT ![r] = NoProvider]
  /\ file' = [file EXCEPT ![r] = NoProvider]
  /\ order' = [order EXCEPT ![r] = NoOrder]
  /\ apart' = [apart EXCEPT ![r] = TRUE]
  /\ UNCHANGED <<chat, process, unsaved, panel>>

-----------------------------------------------------------------------------
(* main, procd and the panel. *)

\* SIGTERM, from an operator or procd.
Cancel(r) ==
  /\ Alive(r) /\ ~cancelled[r]
  /\ cancelled' = [cancelled EXCEPT ![r] = TRUE]
  /\ UNCHANGED <<chat, pc, backoff, next, busy, lost, tunnel, apart, panel, order>>

\* The process ends, perhaps between the truncation of the file and its bytes:
\* it does not load then.
CutSave(r) ==
  \/ UNCHANGED <<file, order>>
  \/ /\ unsaved[r] /\ provider[r] # NoProvider
     /\ file' = [file EXCEPT ![r] = NoProvider]
     /\ order' = [order EXCEPT ![r] = NoOrder]

\* Controller.Stop, which waits for no loop, and main returns.
MainReturns(r) ==
  /\ Go(r, "stopping", "exited")
  /\ CutSave(r)
  /\ UNCHANGED <<chat, backoff, next, busy, cancelled, lost, provider, unsaved,
                 apart, panel>>

\* SIGKILL (procd sends it 5s after SIGTERM), the OOM killer or a power loss.
Kill(r) ==
  /\ Alive(r)
  /\ pc' = [pc EXCEPT ![r] = "killed"]
  /\ busy' = [busy EXCEPT ![r] = 0]
  /\ CutSave(r)
  /\ UNCHANGED <<chat, backoff, next, cancelled, lost, provider, unsaved, apart,
                 panel>>

\* Mutant: the file is not loaded.
BootBlank(r) ==
  /\ ~Alive(r)
  /\ pc' = [pc EXCEPT ![r] = "construct"]
  /\ backoff' = [backoff EXCEPT ![r] = InitialBackoff]
  /\ cancelled' = [cancelled EXCEPT ![r] = FALSE]
  /\ lost' = [lost EXCEPT ![r] = FALSE]
  /\ provider' = [provider EXCEPT ![r] = NoProvider]
  /\ unsaved' = [unsaved EXCEPT ![r] = FALSE]
  /\ apart' = [apart EXCEPT ![r] = @ \/ provider[r] # NoProvider]
  /\ UNCHANGED <<chat, next, busy, file, panel, order>>

\* procd starts the bot, which loads the file.
Boot(r) ==
  /\ ~Alive(r)
  /\ pc' = [pc EXCEPT ![r] = "construct"]
  /\ backoff' = [backoff EXCEPT ![r] = InitialBackoff]
  /\ cancelled' = [cancelled EXCEPT ![r] = FALSE]
  /\ lost' = [lost EXCEPT ![r] = FALSE]
  /\ provider' = [provider EXCEPT ![r] = file[r]]
  /\ unsaved' = [unsaved EXCEPT ![r] = FALSE]
  /\ apart' = [apart EXCEPT ![r] = @ \/ provider[r] # file[r]]
  /\ UNCHANGED <<chat, next, busy, file, panel, order>>

\* set_provider writes the file, clear_provider removes it.
PanelWrite(r, p) ==
  /\ ~panel[r]
  /\ panel' = [panel EXCEPT ![r] = TRUE]
  /\ file' = IF SamePath THEN [file EXCEPT ![r] = p] ELSE file
  /\ order' = [order EXCEPT ![r] = p]
  /\ UNCHANGED <<chat, process, provider, unsaved, apart>>

\* Both then run `/etc/init.d/dial-up restart`.
PanelRestart(r) ==
  /\ panel[r]
  /\ panel' = [panel EXCEPT ![r] = FALSE]
  /\ cancelled' = [cancelled EXCEPT ![r] = @ \/ Alive(r)]
  /\ UNCHANGED <<chat, pc, backoff, next, busy, lost, tunnel, apart, order>>

Run(r) ==
  \/ Construct(r) \/ ConstructFault(r) \/ Wake(r) \/ WakeCancelled(r)
  \/ EnterRun(r) \/ Watcher(r) \/ RunReturns(r) \/ Handle(r) \/ Send(r)
  \/ MainReturns(r)

Next ==
  \/ \E r \in Router : Run(r) \/ Save(r) \/ Drop(r)
  \/ \E u \in User, t \in Text : Write(u, t)
  \/ \E r \in Managed :
       \/ Cancel(r) \/ Kill(r) \/ Boot(r) \/ PanelRestart(r)
       \/ \E p \in MaybeRoom : PanelWrite(r, p)

Spec == Init /\ [][Next]_vars

\* Bot.Run goes on, its handler returns, the watcher runs; VK can be reached
\* now and then; a select whose ctx is cancelled takes that case in the end.
\* Nothing makes a long poll fail, nor procd start the bot.
Fairness ==
  \A r \in Router :
    /\ WF_vars(Construct(r) \/ ConstructFault(r)) /\ WF_vars(Wake(r))
    /\ WF_vars(EnterRun(r)) /\ WF_vars(Watcher(r)) /\ WF_vars(Send(r))
    /\ WF_vars(MainReturns(r))
    /\ WF_vars(pc[r] = "shut" /\ RunReturns(r))
    /\ SF_vars(Construct(r)) /\ SF_vars(WakeCancelled(r))

FairSpec == Spec /\ Fairness

-----------------------------------------------------------------------------
(* Properties. *)

Message == [by : User \cup Router, text : Text \cup {"answer"}, re : Nat]

\* Every variable keeps its type; the backoff stays within its bounds.
TypeOK ==
  /\ chat \in Seq(Message)
  /\ pc \in [Router -> {"construct", "wait", "arm", "run", "shut", "stopping",
                        "exited", "killed"}]
  /\ backoff \in [Router -> InitialBackoff .. MaxBackoff]
  /\ next \in [Router -> 1 .. Len(chat) + 1]
  /\ busy \in [Router -> 0 .. Len(chat)]
  /\ {cancelled, lost, unsaved, apart, panel} \subseteq [Router -> BOOLEAN]
  /\ {provider, file} \subseteq [Router -> MaybeRoom]
  /\ order \in [Router -> MaybeRoom \cup {NoOrder}]

\* The bots share an account and see each other's answers as well as their own;
\* no answer is ever answered, and nobody answers twice, also over reconnects
\* and restarts (bot.go:200-202).
OneAnswer ==
  \A i \in DOMAIN chat : chat[i].by \in Router =>
    /\ Obeyed(chat[chat[i].re])
    /\ \A j \in DOMAIN chat :
         chat[j].by = chat[i].by /\ chat[j].re = chat[i].re => j = i

\* "The bot on both routers receives it" (README.md:49, translated): a bot is in
\* the room the chat it has read asks for, and so are two that have read the
\* same.  It is not when it missed an order while it was reconnecting, was killed
\* before a save, was set by the panel, or the tunnel rejected the room; the next
\* order it reads makes that good (bot.go:197-278, controller.go:114-123).
RoomFollowsChat ==
  \A r \in Router : Alive(r) /\ ~apart[r] => AskFor(next[r] - 1, provider[r])

\* What the panel wrote is what the restarted bot runs, unless the old one wrote
\* the file in between (rpcd/olcrtc-bot:679-688, controller.go:119-122).
PanelServed ==
  [][\A r \in Managed :
       ~Alive(r) /\ pc'[r] = "construct" /\ order[r] # NoOrder
         => provider'[r] = order[r]]_vars

\* A cancelled bot shuts down by itself, wherever Run was, unless lp.Shutdown
\* came before lp.Run (bot.go:131-152, 179-186).
CleanStop ==
  \A r \in Managed : cancelled[r] ~> (~Alive(r) \/ lost[r])

\* Failures of VK never end the bot: it comes back to the chat unless it was
\* cancelled or killed (bot.go:109-123, 163-166).
Reconnects ==
  \A r \in Router :
    pc[r] \in {"construct", "wait"}
      ~> (pc[r] = "run" \/ cancelled[r] \/ pc[r] = "killed")
=============================================================================
