-------------------------- MODULE TelegramBotProofs --------------------------
(***************************************************************************)
(* Proofs about the Telegram bot, for any messages, any number of updates  *)
(* and of faults.                                                          *)
(*                                                                         *)
(* Front is the first update the bot has not taken.  While the file is     *)
(* torn it is not written anywhere: it is the one after the update in hand.*)
(***************************************************************************)
EXTENDS TelegramBot, FiniteSetTheorems, TLAPS

Front == IF file = Torn THEN cur + 1 ELSE IF file = None THEN 1 ELSE file

(* Where the bot is, and what the file and the offset say then. *)
Bookmarks ==
  /\ file = Torn => at \in {"save", "off"}
  /\ file \in Nat => file > 0
  /\ confirmed <= Front
  /\ at \notin {"save", "off"} => offset = file
  /\ at = "take" => cur = Front
  /\ at = "save" => file = Torn /\ offset = cur + 1
  /\ at \in {"handle", "invoke", "send"} => file = cur + 1
  /\ at \in {"save", "handle", "invoke", "send"} => cur <= Len(inbox)

(* An update that was not taken, or not handled yet, has caused no call. *)
CallsAhead ==
  /\ \A u \in Update : u >= Front => calls[u] = 0 /\ outcome[u] = "pending"
  /\ at \in {"save", "handle"} => calls[cur] = 0

(* What was taken and has neither an outcome nor the bot's attention. *)
Behind == {u \in Update : outcome[u] = "pending" /\ u < Front /\ ~InHand(u)}

BotInv ==
  /\ TypeOK
  /\ Bookmarks
  /\ CallsAhead
  /\ InvokedOnce
  /\ Cardinality(Behind) <= faults

-----------------------------------------------------------------------------

LEMMA BehindFinite == IsFiniteSet(Behind) /\ IsFiniteSet(Behind)'
<1>1. IsFiniteSet(Update)
  BY TelegramAssumption, FS_Interval DEF Update
<1>2. Behind \subseteq Update /\ Behind' \subseteq Update
  BY DEF Behind, Update
<1> QED BY <1>1, <1>2, FS_Subset

(* Nothing new is behind, so the faults still bound it. *)
LEMMA NoneLeft ==
  ASSUME BotInv, Behind' \subseteq Behind, faults' = faults
  PROVE  (Cardinality(Behind) <= faults)'
<1>1. Cardinality(Behind') <= Cardinality(Behind) /\ Cardinality(Behind) \in Nat
      /\ Cardinality(Behind') \in Nat
  BY BehindFinite, FS_Subset, FS_CardinalityType
<1> QED BY <1>1 DEF BotInv, TypeOK

(* A fault leaves the update in hand behind, and no other. *)
LEMMA OneLeft ==
  ASSUME BotInv, Behind' \subseteq Behind \cup {cur}, faults' = faults + 1
  PROVE  (Cardinality(Behind) <= faults)'
<1>1. IsFiniteSet(Behind \cup {cur})
      /\ Cardinality(Behind \cup {cur}) <= Cardinality(Behind) + 1
  BY BehindFinite, FS_AddElement, FS_CardinalityType
<1>2. Cardinality(Behind') <= Cardinality(Behind \cup {cur})
  BY <1>1, FS_Subset
<1>3. /\ Cardinality(Behind) \in Nat /\ Cardinality(Behind') \in Nat
      /\ Cardinality(Behind \cup {cur}) \in Nat
  BY <1>1, BehindFinite, FS_CardinalityType
<1> QED BY <1>1, <1>2, <1>3 DEF BotInv, TypeOK

LEMMA InitBot == Init => BotInv
<1> SUFFICES ASSUME Init PROVE BotInv
  OBVIOUS
<1> USE TelegramAssumption DEF Init
<1>1. TypeOK
  BY DEF TypeOK, Step, Update
<1>2. Bookmarks /\ CallsAhead /\ InvokedOnce
  BY DEF Bookmarks, CallsAhead, InvokedOnce, Front, Update
<1>3. Behind = {}
  BY DEF Behind, Front, Update
<1>4. Cardinality(Behind) <= faults
  BY <1>3, FS_EmptySet
<1> QED BY <1>1, <1>2, <1>4 DEF BotInv

LEMMA ArriveStep ==
  ASSUME BotInv, Arrive
  PROVE  BotInv'
<1> USE TelegramAssumption DEF Arrive, processVars, historyVars, serviceVars
<1>1. TypeOK'
  BY DEF BotInv, TypeOK
<1>2. Len(inbox') = Len(inbox) + 1 /\ Len(inbox) \in Nat
  BY DEF BotInv, TypeOK
<1>3. Bookmarks' /\ CallsAhead' /\ InvokedOnce'
  BY <1>2 DEF BotInv, Bookmarks, CallsAhead, InvokedOnce, Front, TypeOK
<1>4. Behind' = Behind
  BY DEF Behind, Front, InHand
<1> QED BY <1>1, <1>3, <1>4, NoneLeft DEF BotInv

LEMMA StartStep ==
  ASSUME BotInv, Start
  PROVE  BotInv'
<1> USE TelegramAssumption DEF Start, ServiceStart, historyVars
<1>1. TypeOK'
  BY DEF BotInv, TypeOK, Step
<1>2. Bookmarks' /\ CallsAhead' /\ InvokedOnce'
  BY DEF BotInv, Bookmarks, CallsAhead, InvokedOnce, Front, TypeOK
<1>3. Behind' \subseteq Behind
  BY DEF Behind, Front, InHand
<1> QED BY <1>1, <1>2, <1>3, NoneLeft DEF BotInv

LEMMA PollStep ==
  ASSUME BotInv, Poll
  PROVE  BotInv'
<1> USE TelegramAssumption DEF Poll, historyVars, serviceVars
<1>1. TypeOK'
  BY DEF BotInv, TypeOK, Step
<1>2. file # Torn /\ offset = file
  BY DEF BotInv, Bookmarks
<1>3. confirmed' = Front /\ Front' = Front
  BY <1>2 DEF BotInv, Bookmarks, Front, TypeOK
<1>4. Bookmarks' /\ CallsAhead' /\ InvokedOnce'
  BY <1>2, <1>3 DEF BotInv, Bookmarks, CallsAhead, InvokedOnce, TypeOK
<1>5. Behind' = Behind
  BY <1>3 DEF Behind, InHand
<1> QED BY <1>1, <1>4, <1>5, NoneLeft DEF BotInv

LEMMA TakeStep ==
  ASSUME BotInv, Take
  PROVE  BotInv'
<1> USE TelegramAssumption DEF Take, historyVars, serviceVars
<1>1. TypeOK'
  BY DEF BotInv, TypeOK, Step
<1>2. cur = Front /\ Front' = cur + 1 /\ cur \in Nat /\ cur \in Update
  BY DEF BotInv, Bookmarks, Front, TypeOK, Update
<1>3. Bookmarks'
  BY <1>2 DEF BotInv, Bookmarks, TypeOK
<1>4. CallsAhead' /\ InvokedOnce'
  BY <1>2 DEF BotInv, CallsAhead, InvokedOnce, Update
<1>5. Behind' \subseteq Behind
  BY <1>2 DEF Behind, InHand, Update
<1> QED BY <1>1, <1>3, <1>4, <1>5, NoneLeft DEF BotInv

LEMMA BatchDoneStep ==
  ASSUME BotInv, BatchDone
  PROVE  BotInv'
<1> USE TelegramAssumption DEF BatchDone, historyVars, serviceVars
<1>1. TypeOK'
  BY DEF BotInv, TypeOK, Step
<1>2. Bookmarks' /\ CallsAhead' /\ InvokedOnce'
  BY DEF BotInv, Bookmarks, CallsAhead, InvokedOnce, Front, TypeOK
<1>3. Behind' = Behind
  BY DEF Behind, Front, InHand
<1> QED BY <1>1, <1>2, <1>3, NoneLeft DEF BotInv

LEMMA SaveOffsetStep ==
  ASSUME BotInv, SaveOffset
  PROVE  BotInv'
<1> USE TelegramAssumption DEF SaveOffset, historyVars, serviceVars
<1>1. TypeOK'
  BY DEF BotInv, TypeOK, Step
<1>2. file' = cur + 1 /\ Front' = Front /\ cur \in Nat
  BY DEF BotInv, Bookmarks, Front, TypeOK
<1>3. Bookmarks' /\ CallsAhead' /\ InvokedOnce'
  BY <1>2 DEF BotInv, Bookmarks, CallsAhead, InvokedOnce, TypeOK
<1>4. Behind' = Behind
  BY <1>2 DEF Behind, InHand
<1> QED BY <1>1, <1>3, <1>4, NoneLeft DEF BotInv

(* The update in hand has an outcome, and the bot goes on to the next. *)
LEMMA SettledStep ==
  ASSUME BotInv, at \in {"handle", "send"}, NextUpdate,
         NEW what \in {"dropped", "answered"}, Settle(cur, what),
         UNCHANGED <<inbox, confirmed, file, calls, faults>>,
         seen' \subseteq Nat, sessions' = sessions
  PROVE  BotInv'
<1> USE TelegramAssumption DEF NextUpdate, Settle
<1>1. cur \in Update /\ file = cur + 1 /\ Front' = Front /\ Front = cur + 1
  BY DEF BotInv, TypeOK, Bookmarks, Front, Update
<1>2. TypeOK'
  BY <1>1 DEF BotInv, TypeOK, Step
<1>3. Bookmarks' /\ CallsAhead' /\ InvokedOnce'
  BY <1>1 DEF BotInv, Bookmarks, CallsAhead, InvokedOnce, TypeOK, Update
<1>4. Behind' \subseteq Behind
  BY <1>1, <1>2 DEF BotInv, TypeOK, Behind, InHand, Update
<1> QED BY <1>2, <1>3, <1>4, NoneLeft DEF BotInv

LEMMA DropStep ==
  ASSUME BotInv, Drop
  PROVE  BotInv'
<1>1. seen' = seen /\ sessions' = sessions
  BY DEF Drop, Ignore, serviceVars
<1>2. /\ at \in {"handle", "send"} /\ NextUpdate /\ Settle(cur, "dropped")
      /\ UNCHANGED <<inbox, confirmed, file, calls, faults>>
  BY DEF Drop
<1>3. seen' \subseteq Nat
  BY <1>1 DEF BotInv, TypeOK
<1> QED BY <1>1, <1>2, <1>3, SettledStep

LEMMA SendTextStep ==
  ASSUME BotInv, SendText
  PROVE  BotInv'
<1>1. /\ at \in {"handle", "send"} /\ NextUpdate /\ Settle(cur, "answered")
      /\ UNCHANGED <<inbox, confirmed, file, calls, faults>>
      /\ seen' \subseteq Nat /\ sessions' = sessions
  BY DEF SendText, serviceVars, BotInv, TypeOK
<1> QED BY <1>1, SettledStep

(* The call of the update in hand is its first one. *)
LEMMA FirstCall ==
  ASSUME BotInv, at = "handle", calls' = [calls EXCEPT ![cur] = @ + 1],
         UNCHANGED <<file, cur, outcome>>, at' \in {"send", "invoke"}
  PROVE  /\ calls' \in [Update -> Nat]
         /\ CallsAhead' /\ InvokedOnce'
<1> USE TelegramAssumption
<1>1. cur \in Update /\ Front = cur + 1 /\ Front' = Front /\ calls[cur] = 0
  BY DEF BotInv, TypeOK, Bookmarks, CallsAhead, Front, Update
<1> QED BY <1>1 DEF BotInv, TypeOK, CallsAhead, InvokedOnce, Update

LEMMA HandleStep ==
  ASSUME BotInv, Handle
  PROVE  BotInv'
<1> USE TelegramAssumption DEF Handle
<1>1. cur \in Update /\ inbox[cur] \in Message
  BY DEF BotInv, TypeOK, Bookmarks, Update
<1>2. seen' \subseteq Nat /\ sessions' \in [Chat -> Update \cup {None}]
  BY <1>1 DEF BotInv, TypeOK, Command, Talk
<1>3. calls' \in [Update -> Nat] /\ CallsAhead' /\ InvokedOnce'
  <2>1. CASE calls' = calls
    BY <2>1 DEF BotInv, TypeOK, CallsAhead, InvokedOnce, Front
  <2>2. CASE calls' = [calls EXCEPT ![cur] = @ + 1]
    BY <1>1, <2>2, FirstCall
  <2> QED BY <2>1, <2>2
<1>4. TypeOK'
  BY <1>2, <1>3 DEF BotInv, TypeOK, Step
<1>5. Bookmarks'
  BY DEF BotInv, Bookmarks, Front, TypeOK
<1>6. Behind' = Behind
  BY DEF Behind, Front, InHand
<1> QED BY <1>3, <1>4, <1>5, <1>6, NoneLeft DEF BotInv

LEMMA InvokeStep ==
  ASSUME BotInv, Invoke
  PROVE  BotInv'
<1> USE TelegramAssumption DEF Invoke, historyVars, serviceVars
<1>1. TypeOK'
  BY DEF BotInv, TypeOK, Step
<1>2. Bookmarks' /\ CallsAhead' /\ InvokedOnce'
  BY DEF BotInv, Bookmarks, CallsAhead, InvokedOnce, Front, TypeOK
<1>3. Behind' = Behind
  BY DEF Behind, Front, InHand
<1> QED BY <1>1, <1>2, <1>3, NoneLeft DEF BotInv

LEMMA LoopCatchesStep ==
  ASSUME BotInv, LoopCatches
  PROVE  BotInv'
<1> USE TelegramAssumption DEF LoopCatches, Fault, serviceVars
<1>1. TypeOK'
  BY DEF BotInv, TypeOK, Step
<1>2. Bookmarks' /\ CallsAhead' /\ InvokedOnce'
  BY DEF BotInv, Bookmarks, CallsAhead, InvokedOnce, Front, TypeOK
<1>3. Behind' \subseteq Behind \cup {cur}
  BY DEF Behind, Front, InHand
<1> QED BY <1>1, <1>2, <1>3, OneLeft DEF BotInv

LEMMA StopStep ==
  ASSUME BotInv, Stop
  PROVE  BotInv'
<1> USE TelegramAssumption DEF Stop, Fault, serviceVars
<1>1. TypeOK'
  BY DEF BotInv, TypeOK, Step
<1>2. Bookmarks' /\ CallsAhead' /\ InvokedOnce'
  BY DEF BotInv, Bookmarks, CallsAhead, InvokedOnce, Front, TypeOK
<1>3. Behind' \subseteq Behind \cup {cur}
  BY DEF Behind, Front, InHand
<1> QED BY <1>1, <1>2, <1>3, OneLeft DEF BotInv

LEMMA StutterStep ==
  ASSUME BotInv, UNCHANGED vars
  PROVE  BotInv'
<1> USE DEF vars, processVars, historyVars, serviceVars
<1>1. TypeOK' /\ Bookmarks' /\ CallsAhead' /\ InvokedOnce'
  BY DEF BotInv, TypeOK, Bookmarks, CallsAhead, InvokedOnce, Front
<1>2. Behind' = Behind
  BY DEF Behind, Front, InHand
<1> QED BY <1>1, <1>2, NoneLeft DEF BotInv

LEMMA NextBot == BotInv /\ [Next]_vars => BotInv'
<1> SUFFICES ASSUME BotInv, [Next]_vars PROVE BotInv'
  OBVIOUS
<1>1. CASE Arrive        BY <1>1, ArriveStep
<1>2. CASE Start         BY <1>2, StartStep
<1>3. CASE Poll          BY <1>3, PollStep
<1>4. CASE Take          BY <1>4, TakeStep
<1>5. CASE BatchDone     BY <1>5, BatchDoneStep
<1>6. CASE SaveOffset    BY <1>6, SaveOffsetStep
<1>7. CASE Drop          BY <1>7, DropStep
<1>8. CASE Handle        BY <1>8, HandleStep
<1>9. CASE Invoke        BY <1>9, InvokeStep
<1>10. CASE SendText     BY <1>10, SendTextStep
<1>11. CASE LoopCatches  BY <1>11, LoopCatchesStep
<1>12. CASE Stop         BY <1>12, StopStep
<1>13. CASE UNCHANGED vars BY <1>13, StutterStep
<1> QED BY <1>1, <1>2, <1>3, <1>4, <1>5, <1>6, <1>7, <1>8, <1>9, <1>10, <1>11, <1>12,
           <1>13 DEF Next, Work

LEMMA BotInvariant == Spec => []BotInv
BY InitBot, NextBot, PTL DEF Spec

-----------------------------------------------------------------------------
(* The theorems *)

(* Every variable of the bot and its service has its type. *)
THEOREM TelegramTypeCorrect == Spec => []TypeOK
<1>1. BotInv => TypeOK
  BY DEF BotInv
<1> QED BY <1>1, BotInvariant, PTL

(* However often the bot stops, in whatever step, and however often a call *)
(* fails, invoke_harness is entered at most once for a message.            *)
THEOREM AlwaysInvokedOnce == Spec => []InvokedOnce
<1>1. BotInv => InvokedOnce
  BY DEF BotInv
<1> QED BY <1>1, BotInvariant, PTL

(* Each stop or failed call costs at most one message. *)
THEOREM LossAlwaysBounded == Spec => []LossBounded
<1>1. ASSUME BotInv PROVE LossBounded
  <2>1. {u \in Update : PassedOver(u)} \subseteq Behind
    <3> SUFFICES ASSUME NEW u \in Update, PassedOver(u) PROVE u \in Behind
      OBVIOUS
    <3>1. u < Front
      BY <1>1, TelegramAssumption DEF PassedOver, BotInv, Bookmarks, Front, TypeOK, Update
    <3> QED BY <3>1 DEF Behind, PassedOver
  <2>2. /\ Cardinality({u \in Update : PassedOver(u)}) <= Cardinality(Behind)
        /\ Cardinality({u \in Update : PassedOver(u)}) \in Nat
        /\ Cardinality(Behind) \in Nat
    BY <2>1, BehindFinite, FS_Subset, FS_CardinalityType
  <2> QED BY <1>1, <2>2 DEF BotInv, TypeOK, LossBounded
<1> QED BY <1>1, BotInvariant, PTL
=============================================================================
