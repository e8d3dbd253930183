----------------------------- MODULE BotProofs -----------------------------
(***************************************************************************)
(* The chat, for any number of routers, users and messages: no answer is   *)
(* answered, nobody answers twice, and a bot that missed nothing is in the *)
(* room the chat asks for.  And the panel: what it wrote is served.        *)
(***************************************************************************)
EXTENDS Bot, TLAPS

\* Routers are not users, and no room is no room.
LEMMA Names == Router \cap User = {} /\ NoProvider \notin Room
BY BotAssumption

\* The backoffs are numbers, and the first is within the cap.
LEMMA Seconds ==
  /\ InitialBackoff \in Nat /\ MaxBackoff \in Nat
  /\ InitialBackoff > 0 /\ InitialBackoff <= MaxBackoff
<1>1. InitialBackoff \in Nat \ {0} /\ MaxBackoff \in Nat /\ InitialBackoff <= MaxBackoff
  BY BotAssumption
<1> QED
  BY <1>1

\* growBackoff stays between the initial backoff and the cap.
LEMMA GrowBackoff ==
  ASSUME NEW d \in InitialBackoff .. MaxBackoff
  PROVE  growBackoff(d, MaxBackoff) \in InitialBackoff .. MaxBackoff
<1> DEFINE S == {2 * d, MaxBackoff}
<1>1. \E x \in S : \A y \in S : x =< y
  BY Seconds
<1>2. Min(S) \in S /\ \A y \in S : Min(S) =< y
  BY <1>1 DEF Min
<1> HIDE DEF S
<1>3. growBackoff(d, MaxBackoff) = Min(S)
  BY DEF growBackoff, S
<1>4. Min(S) \in {2 * d, MaxBackoff} /\ Min(S) =< MaxBackoff
  BY <1>2 DEF S
<1> QED
  BY <1>3, <1>4, Seconds

-----------------------------------------------------------------------------
(* The inductive invariant. *)

\* What a bot has answered or is answering, its long poll has delivered; and it
\* is not answering what it has answered.
Delivered ==
  /\ \A r \in Router :
       busy[r] # 0 => busy[r] < next[r] /\ Obeyed(chat[busy[r]])
  /\ \A i \in DOMAIN chat : chat[i].by \in Router =>
       /\ chat[i].re \in DOMAIN chat
       /\ chat[i].re < next[chat[i].by]
       /\ chat[i].re # busy[chat[i].by]

\* RoomFollowsChat also holds of a bot that is down, until it is started.
Follows == \A r \in Router : ~apart[r] => AskFor(next[r] - 1, provider[r])

BInv == TypeOK /\ Delivered /\ OneAnswer /\ Follows

-----------------------------------------------------------------------------
(* AskFor. *)

\* No new order, the same room.
LEMMA NothingNew ==
  ASSUME NEW m \in Nat, NEW n \in Nat, m <= n, NEW p, AskFor(m, p),
         \A i \in m + 1 .. n : ~Orders(chat[i])
  PROVE  AskFor(n, p)
<1>1. CASE p = NoProvider /\ \A i \in 1 .. m : ~Orders(chat[i])
  BY <1>1 DEF AskFor
<1>2. CASE \E i \in 1 .. m :
             /\ Orders(chat[i]) /\ Meaning(chat[i]) = p
             /\ \A j \in i + 1 .. m : ~Orders(chat[j])
  <2>1. PICK i \in 1 .. m : /\ Orders(chat[i]) /\ Meaning(chat[i]) = p
                            /\ \A j \in i + 1 .. m : ~Orders(chat[j])
    BY <1>2
  <2>2. i \in 1 .. n /\ \A j \in i + 1 .. n : ~Orders(chat[j])
    BY <2>1
  <2> QED
    BY <2>1, <2>2 DEF AskFor
<1> QED
  BY <1>1, <1>2 DEF AskFor

\* An order overrides all that came before.
LEMMA LastOrder ==
  ASSUME NEW n \in Nat \ {0}, Orders(chat[n])
  PROVE  AskFor(n, Meaning(chat[n]))
BY DEF AskFor

\* What is written later changes nothing about what was read.
LEMMA Earlier ==
  ASSUME NEW n \in Nat, NEW p, AskFor(n, p), \A i \in 1 .. n : chat'[i] = chat[i]
  PROVE  AskFor(n, p)'
<1>1. \A i \in 1 .. n : Orders(chat[i])' = Orders(chat[i])
  BY DEF Orders, Obeyed
<1>2. \A i \in 1 .. n : Meaning(chat[i])' = Meaning(chat[i])
  BY DEF Meaning
<1> QED
  BY <1>1, <1>2 DEF AskFor

\* A chat asks for one thing.
LEMMA AskForOne ==
  ASSUME NEW n \in Nat, NEW p, NEW q, AskFor(n, p), AskFor(n, q)
  PROVE  p = q
<1>1. CASE \A i \in 1 .. n : ~Orders(chat[i])
  BY <1>1 DEF AskFor
<1>2. CASE \E i \in 1 .. n : Orders(chat[i])
  <2>1. PICK i \in 1 .. n : /\ Orders(chat[i]) /\ Meaning(chat[i]) = p
                            /\ \A k \in i + 1 .. n : ~Orders(chat[k])
    BY <1>2 DEF AskFor
  <2>2. PICK j \in 1 .. n : /\ Orders(chat[j]) /\ Meaning(chat[j]) = q
                            /\ \A k \in j + 1 .. n : ~Orders(chat[k])
    BY <1>2 DEF AskFor
  <2>3. i = j
    BY <2>1, <2>2
  <2> QED
    BY <2>1, <2>2, <2>3
<1> QED
  BY <1>1, <1>2

-----------------------------------------------------------------------------
(* The parts of the invariant that are about the chat. *)

\* A step that neither writes nor reads keeps them, if a provider that changes
\* is recorded.
LEMMA QuietChat ==
  ASSUME BInv, UNCHANGED <<chat, next>>,
         \A r \in Router : busy'[r] \in {busy[r], 0},
         \A r \in Router : ~apart'[r] => ~apart[r] /\ provider'[r] = provider[r]
  PROVE  Delivered' /\ OneAnswer' /\ Follows'
<1>1. OneAnswer'
  BY DEF BInv, OneAnswer, Obeyed
<1>2. ASSUME NEW r \in Router, busy'[r] # 0
      PROVE  busy'[r] < next'[r] /\ Obeyed(chat[busy[r]])'
  BY <1>2 DEF BInv, Delivered, Obeyed
<1>3. ASSUME NEW i \in DOMAIN chat, chat[i].by \in Router
      PROVE  /\ chat[i].re \in DOMAIN chat /\ chat[i].re < next[chat[i].by]
             /\ chat[i].re # busy'[chat[i].by]
  BY <1>3 DEF BInv, Delivered, TypeOK
<1>4. Delivered'
  BY <1>2, <1>3 DEF Delivered, Obeyed
<1>5. ASSUME NEW r \in Router, ~apart'[r]
      PROVE  AskFor(next[r] - 1, provider[r])'
  <2>1. AskFor(next[r] - 1, provider[r]) /\ next'[r] = next[r] /\ provider'[r] = provider[r]
    BY <1>5 DEF BInv, Follows
  <2> QED
    BY <2>1 DEF AskFor, Orders, Obeyed, Meaning
<1> QED
  BY <1>1, <1>4, <1>5 DEF Follows

\* A new message: of a user, or the answer that was due.
LEMMA NewMessage ==
  ASSUME BInv, NEW m \in Message, chat' = Append(chat, m),
         UNCHANGED <<next, apart, provider>>,
         \/ m.by \in User /\ UNCHANGED busy
         \/ \E r \in Router : /\ busy[r] # 0 /\ m.by = r /\ m.re = busy[r]
                              /\ busy' = [busy EXCEPT ![r] = 0]
  PROVE  Delivered' /\ OneAnswer' /\ Follows'
<1>1. /\ chat \in Seq(Message) /\ Len(chat) \in Nat /\ Len(chat') = Len(chat) + 1
      /\ DOMAIN chat = 1 .. Len(chat) /\ DOMAIN chat' = 1 .. Len(chat) + 1
      /\ \A i \in 1 .. Len(chat) : chat'[i] = chat[i]
      /\ chat'[Len(chat) + 1] = m
  BY DEF BInv, TypeOK
<1>2. /\ next \in [Router -> 1 .. Len(chat) + 1]
      /\ busy \in [Router -> 0 .. Len(chat)]
  BY DEF BInv, TypeOK
<1>3. \A r \in Router : busy'[r] \in {busy[r], 0}
  BY <1>2
<1>4. ASSUME NEW r \in Router, busy'[r] # 0
      PROVE  busy'[r] < next'[r] /\ Obeyed(chat'[busy'[r]])
  <2>1. busy'[r] = busy[r] /\ busy[r] # 0
    BY <1>3, <1>4
  <2>2. busy[r] < next[r] /\ Obeyed(chat[busy[r]]) /\ busy[r] \in 1 .. Len(chat)
    BY <1>1, <1>2, <2>1 DEF BInv, Delivered
  <2>3. chat'[busy[r]] = chat[busy[r]]
    BY <1>1, <2>2
  <2> QED
    BY <2>1, <2>2, <2>3
<1>5. ASSUME NEW i \in DOMAIN chat', chat'[i].by \in Router
      PROVE  /\ chat'[i].re \in DOMAIN chat /\ chat'[i].re < next[chat'[i].by]
             /\ chat'[i].re # busy'[chat'[i].by]
             /\ Obeyed(chat'[chat'[i].re])
  <2>1. CASE i \in 1 .. Len(chat)
    <3>1. /\ chat[i].re \in DOMAIN chat /\ chat[i].re < next[chat[i].by]
          /\ chat[i].re # busy[chat[i].by]
          /\ Obeyed(chat[chat[i].re])
      BY <1>1, <1>5, <2>1 DEF BInv, Delivered, OneAnswer
    <3> QED
      BY <1>1, <1>3, <1>5, <2>1, <3>1
  <2>2. CASE i = Len(chat) + 1
    <3>1. PICK r \in Router : /\ busy[r] # 0 /\ m.by = r /\ m.re = busy[r]
                              /\ busy' = [busy EXCEPT ![r] = 0]
      BY <1>1, <1>5, <2>2, Names
    <3>2. busy[r] < next[r] /\ Obeyed(chat[busy[r]]) /\ busy[r] \in 1 .. Len(chat)
      BY <1>2, <3>1 DEF BInv, Delivered
    <3>3. busy'[r] = 0
      BY <1>2, <3>1
    <3> QED
      BY <1>1, <2>2, <3>1, <3>2, <3>3
  <2> QED
    BY <1>1, <2>1, <2>2
<1>6. Delivered'
  <2>1. \A r \in Router :
          busy'[r] # 0 => busy'[r] < next'[r] /\ Obeyed(chat[busy[r]])'
    BY <1>4 DEF Obeyed
  <2>2. \A i \in DOMAIN chat' : chat'[i].by \in Router =>
          /\ chat'[i].re \in DOMAIN chat'
          /\ chat'[i].re < next'[chat'[i].by]
          /\ chat'[i].re # busy'[chat'[i].by]
    BY <1>1, <1>5
  <2> QED
    BY <2>1, <2>2 DEF Delivered
<1>7. ASSUME NEW i \in DOMAIN chat', NEW j \in DOMAIN chat', chat'[i].by \in Router,
             chat'[j].by = chat'[i].by, chat'[j].re = chat'[i].re
      PROVE  j = i
  <2>1. CASE i \in 1 .. Len(chat) /\ j \in 1 .. Len(chat)
    BY <1>1, <1>7, <2>1 DEF BInv, OneAnswer
  <2>2. ASSUME NEW k \in 1 .. Len(chat), chat[k].by \in Router, chat[k].by = m.by
        PROVE  chat[k].re # m.re
    <3>1. m.re = busy[m.by]
      BY <2>2, Names
    <3> QED
      BY <1>1, <2>2, <3>1 DEF BInv, Delivered
  <2> QED
    BY <1>1, <1>7, <2>1, <2>2
<1>8. OneAnswer'
  BY <1>5, <1>7 DEF OneAnswer, Obeyed
<1>9. ASSUME NEW r \in Router, ~apart'[r]
      PROVE  AskFor(next[r] - 1, provider[r])'
  <2> DEFINE n == next[r] - 1
  <2>1. n \in Nat /\ n <= Len(chat) /\ AskFor(n, provider[r])
    BY <1>1, <1>2, <1>9 DEF BInv, Follows
  <2>2. \A i \in 1 .. n : chat'[i] = chat[i]
    BY <1>1, <2>1
  <2>3. next'[r] - 1 = n /\ provider'[r] = provider[r]
    OBVIOUS
  <2> HIDE DEF n
  <2> QED
    BY <2>1, <2>2, <2>3, Earlier DEF AskFor
<1> QED
  BY <1>6, <1>8, <1>9 DEF Follows

\* Constructing a long poll skips what came meanwhile, and records it when an
\* order is among it.
LEMMA ConstructChat ==
  ASSUME BInv, NEW r \in Router, Construct(r)
  PROVE  Delivered' /\ OneAnswer' /\ Follows'
<1>1. /\ Len(chat) \in Nat /\ DOMAIN chat = 1 .. Len(chat)
      /\ next \in [Router -> 1 .. Len(chat) + 1]
      /\ busy \in [Router -> 0 .. Len(chat)]
      /\ apart \in [Router -> BOOLEAN]
  BY DEF BInv, TypeOK
<1>2. /\ UNCHANGED <<chat, busy, provider>>
      /\ next'[r] = Len(chat) + 1
      /\ \A q \in Router \ {r} : next'[q] = next[q] /\ apart'[q] = apart[q]
      /\ apart'[r] = (apart[r] \/ \E i \in next[r] .. Len(chat) : Orders(chat[i]))
  BY <1>1 DEF Construct, tunnel
<1>3. \A q \in Router : next'[q] \in Nat /\ next[q] \in Nat /\ next[q] <= next'[q]
  BY <1>1, <1>2
<1>4. OneAnswer'
  BY <1>2 DEF BInv, OneAnswer, Obeyed
<1>5. Delivered'
  <2>1. ASSUME NEW q \in Router, busy[q] # 0
        PROVE  busy[q] < next'[q] /\ Obeyed(chat[busy[q]])
    BY <1>1, <1>3, <2>1 DEF BInv, Delivered
  <2>2. ASSUME NEW i \in DOMAIN chat, chat[i].by \in Router
        PROVE  /\ chat[i].re \in DOMAIN chat /\ chat[i].re < next'[chat[i].by]
               /\ chat[i].re # busy[chat[i].by]
    BY <1>1, <1>3, <2>2 DEF BInv, Delivered
  <2> QED
    BY <1>2, <2>1, <2>2 DEF Delivered, Obeyed
<1>6. ASSUME NEW q \in Router, ~apart'[q]
      PROVE  AskFor(next[q] - 1, provider[q])'
  <2>1. CASE q = r
    <3>1. /\ AskFor(next[r] - 1, provider[r])
          /\ \A i \in next[r] .. Len(chat) : ~Orders(chat[i])
      BY <1>2, <1>6, <2>1 DEF BInv, Follows
    <3>2. next[r] - 1 \in Nat /\ next[r] - 1 <= Len(chat) /\ next[r] - 1 + 1 = next[r]
      BY <1>1
    <3>3. AskFor(Len(chat), provider[r])
      BY <1>1, <3>1, <3>2, NothingNew
    <3>4. next'[q] - 1 = Len(chat) /\ provider'[q] = provider[r]
      BY <1>1, <1>2, <2>1
    <3> QED
      BY <1>2, <3>3, <3>4 DEF AskFor, Orders, Obeyed, Meaning
  <2>2. CASE q # r
    <3>1. AskFor(next[q] - 1, provider[q]) /\ next'[q] = next[q] /\ provider'[q] = provider[q]
      BY <1>2, <1>6, <2>2 DEF BInv, Follows
    <3> QED
      BY <1>2, <3>1 DEF AskFor, Orders, Obeyed, Meaning
  <2> QED
    BY <2>1, <2>2
<1> QED
  BY <1>4, <1>5, <1>6 DEF Follows

\* The message that is delivered was not answered before; an order is obeyed.
LEMMA HandleChat ==
  ASSUME BInv, NEW r \in Router, Handle(r)
  PROVE  Delivered' /\ OneAnswer' /\ Follows'
<1> DEFINE n == next[r]
           m == chat[n]
<1>1. /\ Len(chat) \in Nat /\ DOMAIN chat = 1 .. Len(chat)
      /\ next \in [Router -> 1 .. Len(chat) + 1]
      /\ busy \in [Router -> 0 .. Len(chat)]
      /\ provider \in [Router -> MaybeRoom] /\ apart \in [Router -> BOOLEAN]
  BY DEF BInv, TypeOK
<1>2. n \in 1 .. Len(chat) /\ UNCHANGED chat /\ busy[r] = 0
  BY <1>1 DEF Handle
<1>3. /\ next'[r] = n + 1
      /\ busy'[r] = IF Answers(r, m) THEN n ELSE 0
      /\ \A q \in Router \ {r} : next'[q] = next[q] /\ busy'[q] = busy[q]
  BY <1>1 DEF Handle
<1>4. /\ \A q \in Router \ {r} : provider'[q] = provider[q] /\ apart'[q] = apart[q]
      /\ Orders(m) => provider'[r] = Meaning(m)
      /\ ~Orders(m) => provider'[r] = provider[r] /\ apart'[r] = apart[r]
  <2>1. CASE Orders(m)
    BY <1>1, <2>1 DEF Handle, Obey
  <2>2. CASE ~Orders(m)
    BY <2>2 DEF Handle, tunnel
  <2> QED
    BY <2>1, <2>2
<1>5. ASSUME NEW q \in Router
      PROVE  next'[q] \in Nat /\ next[q] \in Nat /\ next[q] <= next'[q]
  <2>1. CASE q = r
    BY <1>2, <1>3, <2>1
  <2>2. CASE q # r
    BY <1>1, <1>3, <2>2
  <2> QED
    BY <2>1, <2>2
<1>6. OneAnswer'
  BY <1>2 DEF BInv, OneAnswer, Obeyed
<1>7. Delivered'
  <2>1. ASSUME NEW q \in Router, busy'[q] # 0
        PROVE  busy'[q] < next'[q] /\ Obeyed(chat[busy'[q]])
    <3>1. CASE q = r
      BY <1>1, <1>2, <1>3, <2>1, <3>1 DEF Answers
    <3>2. CASE q # r
      BY <1>1, <1>3, <2>1, <3>2 DEF BInv, Delivered
    <3> QED
      BY <3>1, <3>2
  <2>2. ASSUME NEW i \in DOMAIN chat, chat[i].by \in Router
        PROVE  /\ chat[i].re \in DOMAIN chat /\ chat[i].re < next'[chat[i].by]
               /\ chat[i].re # busy'[chat[i].by]
    <3>1. /\ chat[i].re \in DOMAIN chat /\ chat[i].re < next[chat[i].by]
          /\ chat[i].re # busy[chat[i].by] 
      BY <2>2 DEF BInv, Delivered
    <3> QED
      BY <1>1, <1>2, <1>3, <1>5, <2>2, <3>1
  <2> QED
    BY <1>2, <2>1, <2>2 DEF Delivered, Obeyed
<1>8. ASSUME NEW q \in Router, ~apart'[q]
      PROVE  AskFor(next'[q] - 1, provider'[q])
  <2>1. CASE q = r /\ Orders(m)
    <3>1. AskFor(n, Meaning(m))
      BY <1>2, <2>1, LastOrder
    <3>2. next'[q] - 1 = n /\ provider'[q] = Meaning(m)
      BY <1>2, <1>3, <1>4, <2>1
    <3> QED
      BY <3>1, <3>2
  <2>2. CASE q = r /\ ~Orders(m)
    <3>1. AskFor(n - 1, provider[r])
      BY <1>4, <1>8, <2>2 DEF BInv, Follows
    <3>2. n - 1 \in Nat /\ n \in Nat /\ n - 1 <= n /\ \A i \in n - 1 + 1 .. n : i = n
      BY <1>2
    <3> HIDE DEF n
    <3>3. AskFor(n, provider[r])
      BY <2>2, <3>1, <3>2, NothingNew
    <3>4. next'[q] - 1 = n /\ provider'[q] = provider[r]
      BY <1>2, <1>3, <1>4, <2>2
    <3> QED
      BY <3>3, <3>4
  <2>3. CASE q # r
    BY <1>3, <1>4, <1>8, <2>3 DEF BInv, Follows
  <2> QED
    BY <2>1, <2>2, <2>3
<1>9. Follows'
  BY <1>2, <1>8 DEF Follows, AskFor, Orders, Obeyed, Meaning
<1> QED
  BY <1>6, <1>7, <1>9

-----------------------------------------------------------------------------
(* The types, one lemma for the steps of each part. *)

\* A start sets everything back.
LEMMA BootType ==
  ASSUME TypeOK, NEW r \in Router, Boot(r)
  PROVE  TypeOK'
<1>1. InitialBackoff \in InitialBackoff .. MaxBackoff
  BY Seconds
<1>2. apart' \in [Router -> BOOLEAN]
  BY DEF TypeOK, Boot
<1> QED
  BY <1>1, <1>2 DEF TypeOK, Boot

\* A save that is cut short keeps the types of the file and the order.
LEMMA CutSaveType ==
  ASSUME TypeOK, NEW r \in Router, CutSave(r)
  PROVE  /\ file' \in [Router -> MaybeRoom]
         /\ order' \in [Router -> MaybeRoom \cup {NoOrder}]
BY DEF TypeOK, CutSave, MaybeRoom

\* The steps of Bot.Run that do not handle a message.
LEMMA RunType ==
  ASSUME TypeOK, NEW r \in Router,
         \/ Construct(r) \/ ConstructFault(r) \/ Wake(r) \/ WakeCancelled(r)
         \/ EnterRun(r) \/ Watcher(r) \/ RunReturns(r) \/ MainReturns(r)
  PROVE  TypeOK'
<1>1. CASE Construct(r)
  <2>1. next' \in [Router -> 1 .. Len(chat) + 1]
    <3>1. Len(chat) + 1 \in 1 .. Len(chat) + 1
      BY DEF TypeOK
    <3> QED
      BY <1>1, <3>1 DEF TypeOK, Construct
  <2>2. apart' \in [Router -> BOOLEAN]
    BY <1>1 DEF TypeOK, Construct
  <2> QED
    BY <1>1, <2>1, <2>2 DEF TypeOK, Construct, Go, tunnel
<1>2. CASE Wake(r)
  <2>1. growBackoff(backoff[r], MaxBackoff) \in InitialBackoff .. MaxBackoff
    BY GrowBackoff DEF TypeOK
  <2>2. backoff' \in [Router -> InitialBackoff .. MaxBackoff]
    BY <1>2, <2>1 DEF TypeOK, Wake
  <2> QED
    BY <1>2, <2>2 DEF TypeOK, Wake, Go, tunnel
<1>3. CASE Watcher(r)
  <2>1. CASE pc' = [pc EXCEPT ![r] = "shut"] /\ UNCHANGED lost
    BY <1>3, <2>1 DEF TypeOK, Watcher, tunnel
  <2>2. CASE lost' = [lost EXCEPT ![r] = TRUE] /\ UNCHANGED pc
    BY <1>3, <2>2 DEF TypeOK, Watcher, tunnel
  <2> QED
    BY <1>3, <2>1, <2>2 DEF Watcher
<1>4. CASE RunReturns(r)
  <2>0. pc' = [pc EXCEPT ![r] = "stopping"] \/ pc' = [pc EXCEPT ![r] = "wait"]
    BY <1>4 DEF RunReturns
  <2>1. InitialBackoff \in InitialBackoff .. MaxBackoff
    BY Seconds
  <2>2. backoff' \in [Router -> InitialBackoff .. MaxBackoff]
    BY <1>4, <2>1 DEF TypeOK, RunReturns
  <2> QED
    BY <1>4, <2>0, <2>2 DEF TypeOK, RunReturns, tunnel
<1>5. CASE ConstructFault(r) \/ WakeCancelled(r) \/ EnterRun(r)
  <2>1. /\ \E to \in {"wait", "stopping", "run"} : pc' = [pc EXCEPT ![r] = to]
        /\ UNCHANGED <<chat, backoff, next, busy, cancelled, lost, tunnel, apart, panel, order>>
    BY <1>5 DEF ConstructFault, WakeCancelled, EnterRun, Go
  <2> QED
    BY <2>1 DEF TypeOK, tunnel
<1>6. CASE MainReturns(r)
  <2>1. /\ file' \in [Router -> MaybeRoom]
        /\ order' \in [Router -> MaybeRoom \cup {NoOrder}]
    BY <1>6, CutSaveType DEF MainReturns
  <2>2. pc' = [pc EXCEPT ![r] = "exited"]
    BY <1>6 DEF MainReturns, Go
  <2> QED
    BY <1>6, <2>1, <2>2 DEF TypeOK, MainReturns
<1> QED
  BY <1>1, <1>2, <1>3, <1>4, <1>5, <1>6

\* Handling a message.
LEMMA HandleType ==
  ASSUME TypeOK, NEW r \in Router, Handle(r)
  PROVE  TypeOK'
<1> DEFINE n == next[r]
           m == chat[n]
<1>1. n \in 1 .. Len(chat) /\ n + 1 \in 1 .. Len(chat) + 1 /\ Len(chat) \in Nat
      /\ 0 \in 0 .. Len(chat) /\ n \in 0 .. Len(chat)
  BY DEF TypeOK, Handle
<1>2. next' \in [Router -> 1 .. Len(chat) + 1] /\ busy' \in [Router -> 0 .. Len(chat)]
  BY <1>1 DEF TypeOK, Handle
<1>3. CASE Orders(m)
  <2>1. Meaning(m) \in MaybeRoom
    BY <1>3 DEF Orders, Meaning, MaybeRoom
  <2>2. unsaved' \in [Router -> BOOLEAN]
    BY <1>3 DEF TypeOK, Handle, Obey
  <2>3. /\ provider' = [provider EXCEPT ![r] = Meaning(m)]
        /\ apart' = [apart EXCEPT ![r] = FALSE]
    BY <1>3 DEF Handle, Obey
  <2>6. provider' \in [Router -> MaybeRoom] /\ apart' \in [Router -> BOOLEAN]
    BY <2>1, <2>3 DEF TypeOK
  <2>4. file' \in [Router -> MaybeRoom]
    BY <1>3 DEF TypeOK, Handle, Obey, MaybeRoom
  <2>5. order' \in [Router -> MaybeRoom \cup {NoOrder}]
    BY <1>3 DEF TypeOK, Handle, Obey
  <2> QED
    BY <1>2, <2>2, <2>4, <2>5, <2>6 DEF TypeOK, Handle
<1>4. CASE ~Orders(m)
  BY <1>2, <1>4 DEF TypeOK, Handle, tunnel
<1> QED
  BY <1>3, <1>4

\* A message that is written is one.
LEMMA WriteType ==
  ASSUME TypeOK, NEW m \in Message, chat' = Append(chat, m),
         UNCHANGED <<pc, backoff, next, cancelled, lost, tunnel, apart, panel, order>>,
         \/ UNCHANGED busy
         \/ \E r \in Router : busy' = [busy EXCEPT ![r] = 0]
  PROVE  TypeOK'
<1>1. /\ chat' \in Seq(Message) /\ Len(chat') = Len(chat) + 1 /\ Len(chat) \in Nat
  BY DEF TypeOK
<1>2. next' \in [Router -> 1 .. Len(chat') + 1]
  BY <1>1 DEF TypeOK
<1>3. busy' \in [Router -> 0 .. Len(chat)]
  <2>1. 0 \in 0 .. Len(chat) /\ busy \in [Router -> 0 .. Len(chat)]
    BY <1>1 DEF TypeOK
  <2> QED
    BY <2>1
<1>4. busy' \in [Router -> 0 .. Len(chat')]
  BY <1>1, <1>3
<1> QED
  BY <1>1, <1>2, <1>4 DEF TypeOK, tunnel

\* The Controller's steps, the signals and the panel.
LEMMA OutsideType ==
  ASSUME TypeOK, NEW r \in Router,
         \/ Save(r) \/ Drop(r) \/ Cancel(r) \/ Kill(r) \/ PanelRestart(r)
         \/ \E p \in MaybeRoom : PanelWrite(r, p)
  PROVE  TypeOK'
<1>1. CASE Save(r)
  <2>1. unsaved' \in [Router -> BOOLEAN] /\ UNCHANGED <<chat, process, provider, apart, panel>>
    BY <1>1 DEF TypeOK, Save
  <2>2. CASE UNCHANGED <<file, order>>
    BY <2>1, <2>2 DEF TypeOK, process
  <2>3. CASE /\ file' = [file EXCEPT ![r] = provider[r]]
             /\ order' = [order EXCEPT ![r] = NoOrder]
    <3>1. provider[r] \in MaybeRoom
      BY DEF TypeOK
    <3> QED
      BY <2>1, <2>3, <3>1 DEF TypeOK, process
  <2> QED
    BY <1>1, <2>2, <2>3 DEF Save
<1>2. CASE Drop(r)
  BY <1>2 DEF TypeOK, Drop, process, MaybeRoom
<1>3. CASE Cancel(r)
  BY <1>3 DEF TypeOK, Cancel, tunnel
<1>4. CASE Kill(r)
  <2>1. /\ file' \in [Router -> MaybeRoom]
        /\ order' \in [Router -> MaybeRoom \cup {NoOrder}]
    BY <1>4, CutSaveType DEF Kill
  <2>2. 0 \in 0 .. Len(chat)
    BY DEF TypeOK
  <2>3. pc' = [pc EXCEPT ![r] = "killed"] /\ busy' = [busy EXCEPT ![r] = 0]
    BY <1>4 DEF Kill
  <2> QED
    BY <1>4, <2>1, <2>2, <2>3 DEF TypeOK, Kill
<1>5. CASE PanelRestart(r)
  <2>1. cancelled' \in [Router -> BOOLEAN]
    BY <1>5 DEF TypeOK, PanelRestart, Alive
  <2> QED
    BY <1>5, <2>1 DEF TypeOK, PanelRestart, tunnel
<1>6. CASE \E p \in MaybeRoom : PanelWrite(r, p)
  BY <1>6 DEF TypeOK, PanelWrite, process
<1> QED
  BY <1>1, <1>2, <1>3, <1>4, <1>5, <1>6

-----------------------------------------------------------------------------
(* The invariant is one. *)

\* Nothing is written, and no provider is set.
LEMMA BotInit == Init => BInv
<1> SUFFICES ASSUME Init PROVE BInv
  OBVIOUS
<1>1. chat = <<>> /\ Len(chat) = 0 /\ DOMAIN chat = {} /\ chat \in Seq(Message)
  BY DEF Init
<1>2. TypeOK
  <2>1. InitialBackoff \in InitialBackoff .. MaxBackoff
    BY Seconds
  <2> QED
    BY <1>1, <2>1 DEF Init, TypeOK, MaybeRoom
<1>3. Delivered /\ OneAnswer
  BY <1>1 DEF Init, Delivered, OneAnswer
<1>4. Follows
  BY DEF Init, Follows, AskFor
<1> QED
  BY <1>2, <1>3, <1>4 DEF BInv

\* Bot.Run, the Controller, main, procd and the panel, but for reading.
LEMMA QuietStep ==
  ASSUME BInv, NEW r \in Router,
         \/ ConstructFault(r) \/ Wake(r) \/ WakeCancelled(r) \/ EnterRun(r)
         \/ Watcher(r) \/ RunReturns(r) \/ MainReturns(r)
         \/ Save(r) \/ Drop(r) \/ Cancel(r) \/ Kill(r) \/ Boot(r)
         \/ PanelRestart(r) \/ \E p \in MaybeRoom : PanelWrite(r, p)
  PROVE  BInv'
<1>1. TypeOK'
  BY RunType, OutsideType, BootType DEF BInv
<1>2. UNCHANGED <<chat, next>>
  BY DEF ConstructFault, Wake, WakeCancelled, EnterRun, Watcher, RunReturns,
     MainReturns, Save, Drop, Cancel, Kill, Boot, PanelRestart, PanelWrite, process
<1>3. \A q \in Router : busy'[q] \in {busy[q], 0}
  <2>1. UNCHANGED busy \/ busy' = [busy EXCEPT ![r] = 0]
    BY DEF ConstructFault, Wake, WakeCancelled, EnterRun, Watcher, RunReturns,
       MainReturns, Save, Drop, Cancel, Kill, Boot, PanelRestart, PanelWrite, process
  <2> QED
    BY <2>1 DEF BInv, TypeOK
<1>4. \A q \in Router : ~apart'[q] => ~apart[q] /\ provider'[q] = provider[q]
  <2>1. CASE Drop(r)
    BY <2>1 DEF BInv, TypeOK, Drop
  <2>2. CASE Boot(r)
    BY <2>2 DEF BInv, TypeOK, Boot
  <2>3. CASE UNCHANGED <<provider, apart>>
    BY <2>3
  <2> QED
    BY <2>1, <2>2, <2>3 DEF ConstructFault, Wake, WakeCancelled, EnterRun, Watcher,
       RunReturns, MainReturns, Save, Cancel, Kill, PanelRestart, PanelWrite, tunnel
<1> QED
  BY <1>1, <1>2, <1>3, <1>4, QuietChat DEF BInv

\* An answer is written, or lost.
LEMMA SendStep ==
  ASSUME BInv, NEW r \in Router, Send(r)
  PROVE  BInv'
<1> DEFINE m == [by |-> r, text |-> "answer", re |-> busy[r]]
<1>1. /\ UNCHANGED <<pc, backoff, next, cancelled, lost, tunnel, apart, panel, order>>
      /\ busy' = [busy EXCEPT ![r] = 0] /\ busy[r] # 0
      /\ UNCHANGED provider
  BY DEF Send, tunnel
<1>2. m \in Message
  BY DEF BInv, TypeOK, Message
<1>3. CASE chat' = Append(chat, m)
  <2>1. TypeOK'
    BY <1>1, <1>2, <1>3, WriteType DEF BInv
  <2>2. \E q \in Router : /\ busy[q] # 0 /\ m.by = q /\ m.re = busy[q]
                          /\ busy' = [busy EXCEPT ![q] = 0]
    BY <1>1
  <2> HIDE DEF m
  <2>3. Delivered' /\ OneAnswer' /\ Follows'
    BY <1>1, <1>2, <1>3, <2>2, NewMessage
  <2> QED
    BY <2>1, <2>3 DEF BInv
<1>4. CASE UNCHANGED chat
  <2>1. 0 \in 0 .. Len(chat)
    BY DEF BInv, TypeOK
  <2>2. busy' \in [Router -> 0 .. Len(chat)] /\ \A q \in Router : busy'[q] \in {busy[q], 0}
    BY <1>1, <2>1 DEF BInv, TypeOK
  <2>3. TypeOK'
    BY <1>1, <1>4, <2>2 DEF BInv, TypeOK, tunnel
  <2>4. Delivered' /\ OneAnswer' /\ Follows'
    BY <1>1, <1>4, <2>2, QuietChat
  <2> QED
    BY <2>3, <2>4 DEF BInv
<1> QED
  BY <1>3, <1>4 DEF Send

\* A user writes.
LEMMA WriteStep ==
  ASSUME BInv, NEW u \in User, NEW t \in Text, Write(u, t)
  PROVE  BInv'
<1> DEFINE m == [by |-> u, text |-> t, re |-> 0]
<1>1. m \in Message /\ m.by \in User
  BY DEF Message
<1>2. chat' = Append(chat, m) /\ UNCHANGED <<process, tunnel, apart, panel, order>>
  BY DEF Write
<1> HIDE DEF m
<1>3. TypeOK'
  BY <1>1, <1>2, WriteType DEF BInv, process
<1>4. Delivered' /\ OneAnswer' /\ Follows'
  BY <1>1, <1>2, NewMessage DEF process, tunnel
<1> QED
  BY <1>3, <1>4 DEF BInv

\* A long poll is constructed, or delivers a message.
LEMMA ReadStep ==
  ASSUME BInv, NEW r \in Router, Construct(r) \/ Handle(r)
  PROVE  BInv'
<1>1. TypeOK'
  BY RunType, HandleType DEF BInv
<1> QED
  BY <1>1, ConstructChat, HandleChat DEF BInv

\* Nothing happens.
LEMMA StutterStep ==
  ASSUME BInv, UNCHANGED vars
  PROVE  BInv'
<1>1. TypeOK'
  BY DEF BInv, TypeOK, vars, process, tunnel
<1>2. Delivered' /\ OneAnswer' /\ Follows'
  BY QuietChat DEF vars, process, tunnel
<1> QED
  BY <1>1, <1>2 DEF BInv

\* The invariant, for any number of routers, users, rooms and messages.
THEOREM BotInvariance == Spec => []BInv
<1>1. BInv /\ [Next]_vars => BInv'
  <2> SUFFICES ASSUME BInv, [Next]_vars PROVE BInv'
    OBVIOUS
  <2>1. Managed \subseteq Router
    BY BotAssumption
  <2>2. ASSUME NEW r \in Router, Run(r) \/ Save(r) \/ Drop(r) PROVE BInv'
    BY <2>2, QuietStep, ReadStep, SendStep DEF Run
  <2>3. ASSUME NEW r \in Managed,
               \/ Cancel(r) \/ Kill(r) \/ Boot(r) \/ PanelRestart(r)
               \/ \E p \in MaybeRoom : PanelWrite(r, p)
        PROVE  BInv'
    BY <2>1, <2>3, QuietStep
  <2> QED
    BY <2>2, <2>3, WriteStep, StutterStep DEF Next
<1> QED
  BY <1>1, BotInit, PTL DEF Spec

\* Every variable keeps its type, and no backoff leaves its bounds, for all
\* routers, users, rooms and backoffs (bot.go:188-195).
THEOREM BotType == Spec => []TypeOK
<1>1. BInv => TypeOK
  BY DEF BInv
<1> QED
  BY <1>1, BotInvariance, PTL

\* No answer is answered and nobody answers twice, for any number of routers on
\* the account (bot.go:200-202).
THEOREM NoEcho == Spec => []OneAnswer
<1>1. BInv => OneAnswer
  BY DEF BInv
<1> QED
  BY <1>1, BotInvariance, PTL

\* A bot that missed nothing is where the chat sends it (bot.go:197-278).
THEOREM ChatIsFollowed == Spec => []RoomFollowsChat
<1>1. BInv => RoomFollowsChat
  BY DEF BInv, Follows, RoomFollowsChat
<1> QED
  BY <1>1, BotInvariance, PTL

\* "The bot on both routers receives it" (README.md:49, translated): two bots
\* that have read the same and missed nothing are in the same room, the two ends
\* of the tunnel.
RoutersMeet ==
  \A r, q \in Router :
    ~apart[r] /\ ~apart[q] /\ next[r] = next[q] => provider[r] = provider[q]

\* It holds of any number of routers that share the account (bot.go:197-278).
THEOREM EndsMeet == Spec => []RoutersMeet
<1>1. ASSUME BInv, NEW r \in Router, NEW q \in Router,
             ~apart[r], ~apart[q], next[r] = next[q]
      PROVE  provider[r] = provider[q]
  <2> DEFINE n == next[r] - 1
  <2>1. n \in Nat
    BY <1>1 DEF BInv, TypeOK
  <2>2. AskFor(n, provider[r]) /\ AskFor(n, provider[q])
    BY <1>1 DEF BInv, Follows
  <2> HIDE DEF n
  <2> QED
    BY <2>1, <2>2, AskForOne
<1>2. BInv => RoutersMeet
  BY <1>1 DEF RoutersMeet
<1> QED
  BY <1>2, BotInvariance, PTL

-----------------------------------------------------------------------------
(* The panel. *)

\* What the panel wrote, and no bot overwrote, is in the file.
Outstanding == \A r \in Router : order[r] # NoOrder => file[r] = order[r]

\* One router's file is written, with the order that is written or settled, or
\* both are left alone.
LEMMA FileAndOrder ==
  ASSUME TypeOK, Outstanding, NEW r \in Router,
         \/ UNCHANGED <<file, order>>
         \/ \E p \in MaybeRoom : file' = [file EXCEPT ![r] = p]
                               /\ order' = [order EXCEPT ![r] = NoOrder]
         \/ \E p \in MaybeRoom : file' = [file EXCEPT ![r] = p]
                               /\ order' = [order EXCEPT ![r] = p]
  PROVE  Outstanding'
BY DEF Outstanding, TypeOK

\* Every step keeps it, when panel and bot mean the same file: a bot that
\* writes the file settles the order.
LEMMA OutstandingStep ==
  ASSUME SamePath, TypeOK, Outstanding, [Next]_vars
  PROVE  Outstanding'
<1>1. ASSUME NEW r \in Router, Handle(r)
      PROVE  Outstanding'
  <2> DEFINE m == chat[next[r]]
  <2>1. CASE Orders(m) /\ m.text = "stop"
    <3>1. /\ file' = [file EXCEPT ![r] = NoProvider]
          /\ order' = [order EXCEPT ![r] = NoOrder]
      BY <1>1, <2>1 DEF Handle, Obey
    <3> QED
      BY <3>1, FileAndOrder DEF MaybeRoom
  <2>2. CASE ~(Orders(m) /\ m.text = "stop")
    <3>1. UNCHANGED <<file, order>>
      BY <1>1, <2>2 DEF Handle, Obey, TypeOK, tunnel
    <3> QED
      BY <3>1, FileAndOrder
  <2> QED
    BY <2>1, <2>2
<1>2. ASSUME NEW r \in Router, Save(r)
      PROVE  Outstanding'
  BY <1>2, FileAndOrder DEF Save, TypeOK
<1>3. ASSUME NEW r \in Router, Drop(r)
      PROVE  Outstanding'
  BY <1>3, FileAndOrder DEF Drop, MaybeRoom
<1>4. ASSUME NEW r \in Router, NEW p \in MaybeRoom, PanelWrite(r, p)
      PROVE  Outstanding'
  BY <1>4, FileAndOrder DEF PanelWrite
<1>5. ASSUME UNCHANGED <<file, order>>
      PROVE  Outstanding'
  BY <1>5 DEF Outstanding
<1>6. ASSUME NEW r \in Router,
             \/ Construct(r) \/ ConstructFault(r) \/ Wake(r) \/ WakeCancelled(r)
             \/ EnterRun(r) \/ Watcher(r) \/ RunReturns(r) \/ Send(r)
             \/ Cancel(r) \/ Boot(r) \/ PanelRestart(r)
      PROVE  UNCHANGED <<file, order>>
  BY <1>6 DEF Construct, ConstructFault, Wake, WakeCancelled, EnterRun, Watcher,
     RunReturns, Send, Cancel, Boot, PanelRestart, tunnel
<1>7. ASSUME NEW r \in Router, MainReturns(r) \/ Kill(r)
      PROVE  Outstanding'
  <2>1. CutSave(r)
    BY <1>7 DEF MainReturns, Kill
  <2> QED
    BY <2>1, FileAndOrder DEF CutSave, MaybeRoom
<1>8. ASSUME NEW u \in User, NEW t \in Text, Write(u, t)
      PROVE  UNCHANGED <<file, order>>
  BY <1>8 DEF Write, tunnel
<1>9. Managed \subseteq Router
  BY BotAssumption
<1>10. ASSUME Next
       PROVE  Outstanding'
  BY <1>1, <1>2, <1>3, <1>4, <1>5, <1>6, <1>7, <1>8, <1>9, <1>10 DEF Next, Run
<1> QED
  BY <1>5, <1>10 DEF vars, tunnel

\* The only step that takes a bot from its end to a construction is a start.
LEMMA Started ==
  ASSUME TypeOK, [Next]_vars, NEW r \in Managed, ~Alive(r), pc'[r] = "construct"
  PROVE  Boot(r)
<1>1. r \in Router
  BY BotAssumption
<1>2. pc[r] \in {"exited", "killed"} /\ pc'[r] # pc[r]
  BY DEF Alive
<1>3. ASSUME NEW q \in Router, q # r, Run(q) \/ Save(q) \/ Drop(q)
      PROVE  pc'[r] = pc[r]
  <2>1. ASSUME NEW to, pc' = [pc EXCEPT ![q] = to]
        PROVE  pc'[r] = pc[r]
    BY <1>1, <1>3, <2>1 DEF TypeOK
  <2>2. CASE \/ Construct(q) \/ ConstructFault(q) \/ Wake(q) \/ WakeCancelled(q)
             \/ EnterRun(q) \/ MainReturns(q)
    BY <2>1, <2>2 DEF Construct, ConstructFault, Wake, WakeCancelled, EnterRun,
       MainReturns, Go
  <2>3. CASE Watcher(q) \/ RunReturns(q)
    BY <2>1, <2>3 DEF Watcher, RunReturns
  <2>4. CASE Handle(q) \/ Send(q) \/ Save(q) \/ Drop(q)
    BY <2>4 DEF Handle, Send, Save, Drop, process
  <2> QED
    BY <1>3, <2>2, <2>3, <2>4 DEF Run
<1>4. ASSUME Run(r) \/ Save(r) \/ Drop(r)
      PROVE  pc'[r] = pc[r]
  BY <1>1, <1>2, <1>4 DEF Alive, Run, Construct, ConstructFault, Wake, WakeCancelled, EnterRun,
     Watcher, RunReturns, Handle, Send, MainReturns, Save, Drop, Go, process
<1>5. ASSUME NEW u \in User, NEW t \in Text, Write(u, t)
      PROVE  pc'[r] = pc[r]
  BY <1>5 DEF Write, process
<1>6. ASSUME NEW q \in Managed,
             \/ Cancel(q) \/ Kill(q) \/ PanelRestart(q)
             \/ \E p \in MaybeRoom : PanelWrite(q, p)
             \/ q # r /\ Boot(q)
      PROVE  pc'[r] = pc[r]
  BY <1>1, <1>2, <1>6 DEF Alive, TypeOK, Cancel, Kill, PanelRestart, PanelWrite, Boot, process
<1>7. ASSUME UNCHANGED vars
      PROVE  pc'[r] = pc[r]
  BY <1>7 DEF vars, process
<1> QED
  BY <1>2, <1>3, <1>4, <1>5, <1>6, <1>7 DEF Next

\* What the panel wrote is what the restarted bot runs, for any number of
\* routers, rooms and messages, if both mean the same file; finding_path shows
\* that they need not (rpcd/olcrtc-bot:679-688, controller.go:119-122).
THEOREM PanelIsServed == ASSUME SamePath PROVE Spec => PanelServed
<1>1. Init => Outstanding
  BY DEF Init, Outstanding
<1>2. TypeOK /\ Outstanding /\ [Next]_vars => Outstanding'
  BY OutstandingStep
<1>3. TypeOK /\ Outstanding /\ [Next]_vars
        => [\A r \in Managed :
              ~Alive(r) /\ pc'[r] = "construct" /\ order[r] # NoOrder
                => provider'[r] = order[r]]_vars
  <2> SUFFICES ASSUME TypeOK, Outstanding, [Next]_vars,
                      NEW r \in Managed, ~Alive(r), pc'[r] = "construct",
                      order[r] # NoOrder
               PROVE  provider'[r] = order[r]
    OBVIOUS
  <2>1. r \in Router /\ Boot(r)
    BY Started, BotAssumption
  <2>2. file[r] = order[r]
    BY <2>1 DEF Outstanding
  <2> QED
    BY <2>1, <2>2 DEF Boot, TypeOK
<1> QED
  BY <1>1, <1>2, <1>3, BotType, PTL DEF Spec, PanelServed
=============================================================================
