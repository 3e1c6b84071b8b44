---------------------------- MODULE TelegramListener ----------------------------
(***************************************************************************)
(* The command listener of the Telegram bot (notifier/telegram.go) with    *)
(* the callback that carries the commands out (cmd/main.go) and, as the    *)
(* external part, the bot API's queue of updates.                          *)
(*                                                                         *)
(* The server numbers updates upwards and keeps each of them until it is   *)
(* asked for updates with a larger offset; the agent keeps its offset in   *)
(* memory.  The process may end at any point: a crash, a restart, the      *)
(* reboot that a command asked for, or a panic of the callback, which no   *)
(* one recovers.  When the context is cancelled the listener returns at    *)
(* the top of its loop: here it just takes no step until the process ends. *)
(***************************************************************************)
EXTENDS Naturals

CONSTANTS
  Kinds,       (* the kinds of updates that are sent *)
  MaxUpdates   (* bound: updates sent in one behaviour *)

\* "ignored": empty, from another chat, or not private; "status": needs no
\* configuration (also /help); "chat": reads it (also /health); "reboot" and
\* "boost"; "rebootTalk": a text that falls under the cooldown of the reboot
\* but is answered as chat ("/reboot now").
AllKinds == {"ignored", "status", "chat", "reboot", "rebootTalk", "boost"}

ASSUME ListenerAssumption ==
  /\ Kinds \subseteq AllKinds
  /\ MaxUpdates \in Nat

VARIABLES
  kindOf,      (* the updates sent so far: id -> kind                       *)
  sent,        (* number of updates sent; their ids are 1 .. sent           *)
  confirmed,   (* the server has forgotten the updates below it             *)
  up,          (* the agent runs                                            *)
  configured,  (* its main goroutine has stored the configuration           *)
  pc,          (* program counter of the listener                           *)
  offset,      (* offset of the next request                                *)
  batch,       (* updates of the last answer that are still to be handled   *)
  current,     (* the update that is being executed, 0 when there is none   *)
  cooling,     (* cooldowns that are running                                *)
  rebooting,   (* a goroutine is about to reboot the router                 *)
  handled,     (* history: updates executed, refused or ignored             *)
  runs,        (* history: executions of each update, 2 for two or more     *)
  cut          (* history: updates that were executed by a process which    *)
               (* ended before they were confirmed                          *)

serverVars  == << kindOf, sent, confirmed >>
historyVars == << handled, runs, cut >>
agentVars   == << up, configured, pc, offset, batch, current, cooling,
                  rebooting >>
vars        == << serverVars, agentVars, historyVars >>

-------------------------------------------------------------------------------

Ids == 1 .. MaxUpdates

Larger(a, b) == IF a > b THEN a ELSE b

\* The cooldown that an update falls under, by prefix or by keyword.
Cooldown(kind) ==
  CASE kind \in {"reboot", "rebootTalk"} -> {"reboot"}
    [] kind = "boost"                    -> {"boost"}
    [] OTHER                             -> {}

\* The callback asserts the type of the stored configuration.
NeedsConfig(kind) == kind \in {"chat", "rebootTalk"}

\* The next iteration: another update of the batch, or another request.
Remaining(updates) == IF updates = {} THEN "poll" ELSE "batch"

-------------------------------------------------------------------------------
(* The server.                                                             *)

Send(kind) ==
  /\ sent < MaxUpdates
  /\ sent' = sent + 1
  /\ kindOf' = [kindOf EXCEPT ![sent + 1] = kind]
  /\ UNCHANGED << confirmed, agentVars, historyVars >>

\* What a request with this offset may be answered with: a prefix of the
\* updates it still has, oldest first.
Answers(from) ==
  {{u \in 1 .. last : u >= from /\ u >= confirmed} : last \in 0 .. sent}

-------------------------------------------------------------------------------
(* The listener.                                                           *)

\* getUpdates reaches the server, which forgets what the offset confirms.
Request ==
  /\ up /\ pc = "poll"
  /\ pc' = "waiting"
  /\ confirmed' = Larger(confirmed, offset)
  /\ UNCHANGED << kindOf, sent, up, configured, offset, batch, current,
                  cooling, rebooting, historyVars >>

\* The answer arrives; it is empty when the long poll timed out.
Answer ==
  /\ up /\ pc = "waiting"
  /\ \E updates \in Answers(offset) :
       /\ batch' = updates
       /\ pc' = Remaining(updates)
  /\ UNCHANGED << serverVars, up, configured, offset, current, cooling,
                  rebooting, historyVars >>

\* Seeded fault: the listener ends with the first failed request.
RequestFailsForGood ==
  /\ up /\ pc = "waiting"
  /\ pc' = "off"
  /\ UNCHANGED << serverVars, up, configured, offset, batch, current, cooling,
                  rebooting, historyVars >>

\* The request or its answer is lost; another one is made after 5 s.
RequestFails ==
  /\ up /\ pc = "waiting"
  /\ pc' = "poll"
  /\ UNCHANGED << serverVars, up, configured, offset, batch, current, cooling,
                  rebooting, historyVars >>

\* The oldest update of the batch.
Oldest(u) == u \in batch /\ \A v \in batch : u <= v

\* Seeded fault: the offset is the id of the update, not the next one.
AdvanceShort(u) ==
  /\ batch' = batch \ {u}
  /\ offset' = Larger(offset, u)

\* The loop takes an update out of the batch and moves the offset past it.
Advance(u) ==
  /\ batch' = batch \ {u}
  /\ offset' = Larger(offset, u + 1)

Ignore(u) ==
  /\ up /\ pc = "batch" /\ Oldest(u)
  /\ kindOf[u] = "ignored"
  /\ Advance(u)
  /\ pc' = Remaining(batch')
  /\ handled' = handled \cup {u}
  /\ UNCHANGED << serverVars, up, configured, current, cooling, rebooting,
                  runs, cut >>

\* Seeded fault: a refusal ends the whole batch, as if `break' stood there.
RefuseAll(u) ==
  /\ up /\ pc = "batch" /\ Oldest(u)
  /\ Cooldown(kindOf[u]) \cap cooling # {}
  /\ batch' = {}
  /\ \E v \in batch : (\A w \in batch : w <= v) /\ offset' = v + 1
  /\ pc' = "reply"
  /\ handled' = handled \cup {u}
  /\ UNCHANGED << serverVars, up, configured, current, cooling, rebooting,
                  runs, cut >>

\* A command inside its cooldown is answered with a refusal.
Refuse(u) ==
  /\ up /\ pc = "batch" /\ Oldest(u)
  /\ Cooldown(kindOf[u]) \cap cooling # {}
  /\ Advance(u)
  /\ pc' = "reply"
  /\ handled' = handled \cup {u}
  /\ UNCHANGED << serverVars, up, configured, current, cooling, rebooting,
                  runs, cut >>

Accept(u) ==
  /\ up /\ pc = "batch" /\ Oldest(u)
  /\ kindOf[u] # "ignored"
  /\ Cooldown(kindOf[u]) \cap cooling = {}
  /\ Advance(u)
  /\ pc' = "execute"
  /\ current' = u
  /\ cooling' = cooling \cup Cooldown(kindOf[u])
  /\ UNCHANGED << serverVars, up, configured, rebooting, historyVars >>

\* execCmd.  A reboot is left to a goroutine that sleeps two seconds.
Execute ==
  /\ up /\ pc = "execute"
  /\ NeedsConfig(kindOf[current]) => configured
  /\ pc' = "reply"
  /\ current' = 0
  /\ rebooting' = (rebooting \/ kindOf[current] = "reboot")
  /\ handled' = handled \cup {current}
  /\ runs' = [runs EXCEPT ![current] = IF @ = 0 THEN 1 ELSE 2]
  /\ UNCHANGED << serverVars, up, configured, offset, batch, cooling, cut >>

\* Seeded fault: the loop goes on without asking whether the batch has ended.
ReplyUnchecked ==
  /\ up /\ pc = "reply"
  /\ pc' = "batch"
  /\ UNCHANGED << serverVars, up, configured, offset, batch, current, cooling,
                  rebooting, historyVars >>

\* SendAlert returns, whether or not the answer was delivered.
Reply ==
  /\ up /\ pc = "reply"
  /\ pc' = Remaining(batch)
  /\ UNCHANGED << serverVars, up, configured, offset, batch, current, cooling,
                  rebooting, historyVars >>

-------------------------------------------------------------------------------
(* The process.                                                            *)

\* The listener starts before the main goroutine stores the configuration.
Start ==
  /\ ~up
  /\ up' = TRUE
  /\ pc' = "poll"
  /\ UNCHANGED << serverVars, configured, offset, batch, current, cooling,
                  rebooting, historyVars >>

StoreConfig ==
  /\ up /\ ~configured
  /\ configured' = TRUE
  /\ UNCHANGED << serverVars, up, pc, offset, batch, current, cooling,
                  rebooting, historyVars >>

\* Offset, batch and cooldowns are in memory only.
Gone ==
  /\ up' = FALSE
  /\ configured' = FALSE
  /\ pc' = "off"
  /\ offset' = 0
  /\ batch' = {}
  /\ current' = 0
  /\ cooling' = {}
  /\ rebooting' = FALSE
  /\ cut' = cut \cup {u \in Ids : runs[u] > 0 /\ u >= confirmed}
  /\ UNCHANGED << serverVars, handled, runs >>

Crash == up /\ Gone

\* A chat that is executed before the configuration is stored.
Panic ==
  /\ up /\ pc = "execute"
  /\ NeedsConfig(kindOf[current]) /\ ~configured
  /\ Gone

\* The reboot command takes the router down, or fails.
Reboot ==
  /\ up /\ rebooting
  /\ Gone

RebootFails ==
  /\ up /\ rebooting
  /\ rebooting' = FALSE
  /\ UNCHANGED << serverVars, up, configured, pc, offset, batch, current,
                  cooling, historyVars >>

CooldownOver(key) ==
  /\ key \in cooling
  /\ cooling' = cooling \ {key}
  /\ UNCHANGED << serverVars, up, configured, pc, offset, batch, current,
                  rebooting, historyVars >>

-------------------------------------------------------------------------------

Init ==
  /\ kindOf = [u \in Ids |-> "ignored"]
  /\ sent = 0
  /\ confirmed = 0
  /\ up = FALSE
  /\ configured = FALSE
  /\ pc = "off"
  /\ offset = 0
  /\ batch = {}
  /\ current = 0
  /\ cooling = {}
  /\ rebooting = FALSE
  /\ handled = {}
  /\ runs = [u \in Ids |-> 0]
  /\ cut = {}

Handle == \E u \in Ids : Ignore(u) \/ Refuse(u) \/ Accept(u)

Listen ==
  \/ Request
  \/ Answer
  \/ RequestFails
  \/ Handle
  \/ Execute
  \/ Reply

Next ==
  \/ \E kind \in Kinds : Send(kind)
  \/ Listen
  \/ Start
  \/ StoreConfig
  \/ Crash
  \/ Panic
  \/ Reboot
  \/ RebootFails
  \/ \E key \in {"reboot", "boost"} : CooldownOver(key)

Spec == Init /\ [][Next]_vars

(***************************************************************************)
(* Fairness.  The goroutine goes on, every request has a timeout, procd    *)
(* starts the agent again, and its main goroutine reaches its loop.  The   *)
(* network is not always down: a request that is repeated for ever is      *)
(* answered now and then, with what the server has.                        *)
(***************************************************************************)
AnsweredFully ==
  /\ Answer
  /\ \A u \in 1 .. sent : u >= Larger(offset, confirmed) => u \in batch'

Fairness ==
  /\ WF_vars(Listen)
  /\ SF_vars(AnsweredFully)
  /\ WF_vars(Start)
  /\ WF_vars(StoreConfig)

FairSpec == Spec /\ Fairness

-------------------------------------------------------------------------------
(* Properties.                                                             *)

\* Types; the program counter says whether updates of the batch are left and
\* whether one is being executed.
ListenerTypeOK ==
  /\ kindOf \in [Ids -> AllKinds]
  /\ sent \in 0 .. MaxUpdates
  /\ confirmed \in 0 .. sent + 1
  /\ up \in BOOLEAN /\ configured \in BOOLEAN
  /\ pc \in {"off", "poll", "waiting", "batch", "execute", "reply"}
  /\ offset \in 0 .. sent + 1
  /\ batch \subseteq 1 .. sent
  /\ current \in 0 .. sent
  /\ cooling \subseteq {"reboot", "boost"}
  /\ rebooting \in BOOLEAN
  /\ handled \subseteq 1 .. sent
  /\ runs \in [Ids -> 0 .. 2]
  /\ cut \subseteq 1 .. sent
  /\ pc = "batch" => batch # {}
  /\ pc \in {"off", "poll", "waiting"} => batch = {}
  /\ pc = "execute" <=> current # 0

\* No command is lost.  The server forgets an update only after the listener
\* has executed, refused or ignored it, wherever the process was killed and
\* whichever requests and answers were lost.
ConfirmedIsHandled ==
  \A u \in 1 .. sent : u < confirmed => u \in handled

\* A command is executed twice only if the process that executed it ended
\* before its next request confirmed it (a /reboot is in that position for
\* two seconds); neither lost answers nor repeated requests repeat a command.
RepeatedOnlyWhenCut ==
  \A u \in Ids : runs[u] > 1 => u \in cut

\* Every update is dealt with and forgotten by the server in the end, in
\* whatever order failures, cooldowns and batches come, once the process
\* stays up.
UpdatesAreForgotten ==
  <>[]up => \A u \in Ids : (u <= sent ~> u < confirmed)
===============================================================================
