------------------------- MODULE TelegramListenerProofs -------------------------
(***************************************************************************)
(* The command listener loses no command and repeats one only after a      *)
(* crash, for any number of updates.                                       *)
(***************************************************************************)
EXTENDS TelegramListener, TLAPS

\* A process that is not there has nothing in memory.
DownIsEmpty == ~up => pc = "off"

\* Everything below the offset was dealt with, but for the update that is
\* being executed.
PassedIsHandled ==
  \A u \in 1 .. sent : u < offset => u \in handled \/ u = current

\* A batch lies ahead of the offset and of what is confirmed, and has no
\* holes: the updates before one of its own were dealt with.
BatchIsAhead ==
  \A u \in batch :
    /\ u >= offset /\ u >= confirmed
    /\ \A v \in 1 .. u : v \in batch \/ v \in handled \/ v = current

\* The offset has just passed the update that is being executed.
CurrentIsPassed ==
  current # 0 => offset = current + 1 /\ current >= confirmed

\* An update that was executed cannot be delivered again, unless its process
\* ended too early.
RunIsPassed ==
  \A u \in Ids : runs[u] > 0 =>
    \/ u \in cut
    \/ u < confirmed
    \/ u < offset /\ u # current

TLInv ==
  /\ ListenerTypeOK
  /\ DownIsEmpty
  /\ PassedIsHandled
  /\ BatchIsAhead
  /\ CurrentIsPassed
  /\ RunIsPassed
  /\ ConfirmedIsHandled
  /\ RepeatedOnlyWhenCut

-------------------------------------------------------------------------------

LEMMA TLInit == Init => TLInv
<1> SUFFICES ASSUME Init PROVE TLInv
  OBVIOUS
<1>1. kindOf \in [Ids -> AllKinds] /\ runs \in [Ids -> 0 .. 2]
  BY DEF Init, AllKinds
<1>2. /\ sent \in 0 .. MaxUpdates
      /\ confirmed \in 0 .. sent + 1 /\ offset \in 0 .. sent + 1
      /\ current \in 0 .. sent
  BY ListenerAssumption DEF Init
<1>3. batch = {} /\ cooling = {} /\ handled = {} /\ cut = {}
  BY DEF Init
<1>4. ListenerTypeOK
  BY <1>1, <1>2, <1>3 DEF Init, ListenerTypeOK
<1>5. PassedIsHandled /\ BatchIsAhead /\ ConfirmedIsHandled
  BY DEF Init, PassedIsHandled, BatchIsAhead, ConfirmedIsHandled
<1>6. RunIsPassed /\ RepeatedOnlyWhenCut
  BY DEF Init, RunIsPassed, RepeatedOnlyWhenCut
<1> QED
  BY <1>4, <1>5, <1>6 DEF Init, TLInv, DownIsEmpty, CurrentIsPassed

LEMMA TLStep == TLInv /\ [Next]_vars => TLInv'
<1> SUFFICES ASSUME TLInv, [Next]_vars PROVE TLInv'
  OBVIOUS
<1> USE ListenerAssumption
    DEF TLInv, ListenerTypeOK, DownIsEmpty, PassedIsHandled, BatchIsAhead,
        CurrentIsPassed, RunIsPassed, ConfirmedIsHandled, RepeatedOnlyWhenCut,
        Ids, serverVars, historyVars, agentVars, Remaining, Larger
<1>1. CASE \E kind \in Kinds : Send(kind)
  BY <1>1 DEF Send, AllKinds
<1>2. CASE Request
  BY <1>2 DEF Request
<1>3. CASE Answer
  <2> PICK updates \in Answers(offset) : batch' = updates /\ pc' = Remaining(updates)
    BY <1>3 DEF Answer
  <2>1. PICK last \in 0 .. sent :
          updates = {u \in 1 .. last : u >= offset /\ u >= confirmed}
    BY DEF Answers
  <2>2. \A u \in updates : u \in 1 .. sent /\ u >= offset /\ u >= confirmed
    BY <2>1
  <2>3. \A u \in updates : \A v \in 1 .. u : v \in updates \/ v \in handled \/ v = current
    BY <2>1, <1>3 DEF Answer
  <2> QED
    BY <1>3, <2>2, <2>3 DEF Answer
<1>4. CASE RequestFails
  BY <1>4 DEF RequestFails
<1>5. ASSUME NEW u \in Ids, Ignore(u) PROVE TLInv'
  BY <1>5 DEF Ignore, Oldest, Advance
<1>6. ASSUME NEW u \in Ids, Refuse(u) PROVE TLInv'
  BY <1>6 DEF Refuse, Oldest, Advance
<1>7. ASSUME NEW u \in Ids, Accept(u) PROVE TLInv'
  <2>1. /\ up /\ pc = "batch" /\ current = 0
        /\ u \in batch /\ \A v \in batch : u <= v
        /\ batch' = batch \ {u} /\ offset' = u + 1 /\ current' = u
        /\ pc' = "execute"
        /\ UNCHANGED << serverVars, up, configured, rebooting, historyVars >>
    BY <1>7 DEF Accept, Oldest, Advance
  <2>2. cooling' \subseteq {"reboot", "boost"}
    BY <1>7 DEF Accept, Cooldown
  <2>3. ListenerTypeOK'
    BY <2>1, <2>2
  <2>4. PassedIsHandled' /\ BatchIsAhead' /\ CurrentIsPassed'
    BY <2>1
  <2>5. RunIsPassed'
    BY <2>1
  <2> QED
    BY <2>1, <2>3, <2>4, <2>5
<1>8. CASE Execute
  BY <1>8 DEF Execute
<1>9. CASE Reply
  BY <1>9 DEF Reply
<1>10. CASE Start
  BY <1>10 DEF Start
<1>11. CASE StoreConfig
  BY <1>11 DEF StoreConfig
<1>12. CASE Gone
  <2>1. /\ up' = FALSE /\ pc' = "off" /\ offset' = 0 /\ batch' = {}
        /\ current' = 0 /\ cooling' = {}
        /\ configured' = FALSE /\ rebooting' = FALSE
        /\ cut' = cut \cup {u \in Ids : runs[u] > 0 /\ u >= confirmed}
        /\ UNCHANGED << serverVars, handled, runs >>
    BY <1>12 DEF Gone
  <2>2. \A u \in Ids : runs[u] > 0 => u <= sent
    OBVIOUS
  <2>3. \A u \in cut' : u \in 1 .. sent
    <3>1. \A u \in Ids : runs[u] > 0 => u \in 1 .. sent
      BY <2>2
    <3> QED
      BY <2>1, <3>1
  <2>4. ListenerTypeOK'
    <3>1. cut' \subseteq 1 .. sent'
      BY <2>1, <2>3
    <3>2. /\ kindOf' = kindOf /\ sent' = sent /\ confirmed' = confirmed
          /\ handled' = handled /\ runs' = runs
      BY <2>1
    <3>3. /\ offset' \in 0 .. sent' + 1 /\ current' \in 0 .. sent'
          /\ batch' \subseteq 1 .. sent'
          /\ cooling' \subseteq {"reboot", "boost"}
      BY <2>1, <3>2
    <3>4. /\ up' \in BOOLEAN /\ configured' \in BOOLEAN
          /\ rebooting' \in BOOLEAN
      BY <2>1
    <3>5. /\ kindOf' \in [Ids -> AllKinds] /\ runs' \in [Ids -> 0 .. 2]
          /\ sent' \in 0 .. MaxUpdates /\ confirmed' \in 0 .. sent' + 1
          /\ handled' \subseteq 1 .. sent'
      BY <3>2
    <3>6. /\ pc' \in {"off", "poll", "waiting", "batch", "execute", "reply"}
          /\ pc' = "batch" => batch' # {}
          /\ pc' \in {"off", "poll", "waiting"} => batch' = {}
          /\ pc' = "execute" <=> current' # 0
      BY <2>1
    <3> QED
      BY <3>1, <3>3, <3>4, <3>5, <3>6
  <2>5. RunIsPassed' /\ RepeatedOnlyWhenCut'
    BY <2>1
  <2> QED
    BY <2>1, <2>4, <2>5
<1>13. CASE RebootFails
  BY <1>13 DEF RebootFails
<1>14. CASE \E key \in {"reboot", "boost"} : CooldownOver(key)
  BY <1>14 DEF CooldownOver
<1>15. CASE UNCHANGED vars
  BY <1>15 DEF vars
<1> QED
  BY <1>1, <1>2, <1>3, <1>4, <1>5, <1>6, <1>7, <1>8, <1>9, <1>10, <1>11,
     <1>12, <1>13, <1>14, <1>15
  DEF Next, Listen, Handle, Crash, Panic, Reboot

LEMMA TLInvariant == Spec => []TLInv
  BY TLInit, TLStep, PTL DEF Spec

-------------------------------------------------------------------------------

\* Types, for any number of updates: the offset of the listener and what the
\* server has confirmed stay within what was sent.
THEOREM ListenerTypes == Spec => []ListenerTypeOK
<1>1. TLInv => ListenerTypeOK
  BY DEF TLInv
<1> QED
  BY <1>1, TLInvariant, PTL

\* For any number of updates: the server forgets an update only after the
\* listener has executed, refused or ignored it.
THEOREM NoCommandIsLost == Spec => []ConfirmedIsHandled
<1>1. TLInv => ConfirmedIsHandled
  BY DEF TLInv
<1> QED
  BY <1>1, TLInvariant, PTL

\* For any number of updates: a command is executed twice only if the process
\* that executed it ended before it was confirmed.
THEOREM CommandsRunOnce == Spec => []RepeatedOnlyWhenCut
<1>1. TLInv => RepeatedOnlyWhenCut
  BY DEF TLInv
<1> QED
  BY <1>1, TLInvariant, PTL
===============================================================================
