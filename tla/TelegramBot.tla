----------------------------- MODULE TelegramBot -----------------------------
(***************************************************************************)
(* The Telegram adapter, main of clients/telegram/bot.py: it polls for     *)
(* updates, saves the offset of each one before it handles it, and may be  *)
(* stopped and started again at any time.                                  *)
(*                                                                         *)
(* Updates are numbered as they arrive.  The offset file is None, when it  *)
(* is not there; Torn, after write_text has opened it and before it has    *)
(* written; or a number.                                                   *)
(*                                                                         *)
(* A call of client.invoke_harness is counted when it is entered.  The     *)
(* boto3 client has its default retries and may send its request more than *)
(* once within one call; that is out of the bot's sight, and not modelled. *)
(***************************************************************************)
EXTENDS ChannelService

CONSTANTS
  Message,     \* what an update may bring
  MaxUpdates,  \* bound of the updates that arrive
  MaxFaults,   \* bound of faults
  Torn

VARIABLES
  inbox,      \* the updates that have arrived at Telegram
  confirmed,  \* updates below it are no longer given out
  file,       \* the offset file
  at,         \* where the bot is
  offset,     \* its offset, None before the first update
  cur, last,  \* the rest of the batch: updates cur to last
  outcome,    \* history: what became of each update
  calls,      \* history: how often invoke_harness was entered for each update
  faults      \* history: how often the bot stopped, or a call it needs failed

processVars == <<at, offset, cur, last>>
historyVars == <<outcome, calls, faults>>
vars == <<inbox, confirmed, file, processVars, historyVars, serviceVars>>

Update == 1..MaxUpdates

ASSUME TelegramAssumption ==
  /\ MaxUpdates \in Nat
  /\ MaxFaults \in Nat
  /\ Message \subseteq [text: {"none", "help", "new", "talk"}, chat: Chat,
                        allowed: BOOLEAN, id: Nat]
  /\ None \notin Nat /\ Torn \notin Nat /\ None # Torn

(* off     not running               handle  about to handle the update
   poll    about to poll             invoke  inside client.invoke_harness
   take    about to take an update   send    about to send the reply
   save    writing the offset                                               *)
Step == {"off", "poll", "take", "save", "handle", "invoke", "send"}

(* The update the bot is at: it was taken, and has no outcome yet. *)
InHand(u) == at \in {"save", "handle", "invoke", "send"} /\ u = cur

Settle(u, what) == outcome' = [outcome EXCEPT ![u] = what]

NextUpdate ==
  /\ at' = "take"
  /\ cur' = cur + 1
  /\ UNCHANGED <<offset, last>>

Fault ==
  /\ faults < MaxFaults
  /\ faults' = faults + 1

-----------------------------------------------------------------------------
(* Telegram *)

(* A message ID is unique inside its chat. *)
Arrive ==
  /\ Len(inbox) < MaxUpdates
  /\ \E m \in Message :
       /\ \A u \in DOMAIN inbox : inbox[u].chat # m.chat \/ inbox[u].id # m.id
       /\ inbox' = Append(inbox, m)
  /\ UNCHANGED <<confirmed, file, processVars, historyVars, serviceVars>>

-----------------------------------------------------------------------------
(* The bot *)

(* A plausible slip: what is in the file is taken for an offset. *)
StartTorn ==
  /\ at = "off"
  /\ at' = "poll"
  /\ offset' = file
  /\ ServiceStart
  /\ UNCHANGED <<inbox, confirmed, file, cur, last, historyVars>>

(* load_offset raises when the file has no number in it. *)
Start ==
  /\ at = "off"
  /\ file # Torn
  /\ at' = "poll"
  /\ offset' = file
  /\ ServiceStart
  /\ UNCHANGED <<inbox, confirmed, file, cur, last, historyVars>>

(* getUpdates confirms what is below the offset and returns the rest. *)
Poll ==
  /\ at = "poll"
  /\ confirmed' = IF offset # None /\ offset > confirmed THEN offset ELSE confirmed
  /\ at' = "take"
  /\ cur' = confirmed'
  /\ last' = Len(inbox)
  /\ UNCHANGED <<inbox, file, offset, historyVars, serviceVars>>

(* A plausible slip: the offset is advanced, and not saved. *)
TakeUnsaved ==
  /\ at = "take" /\ cur <= last
  /\ at' = "handle"
  /\ offset' = cur + 1
  /\ UNCHANGED <<inbox, confirmed, file, cur, last, historyVars, serviceVars>>

(* A plausible slip: the offset of the whole batch is saved with its first *)
(* update.                                                                 *)
TakeBatch ==
  /\ at = "take" /\ cur <= last
  /\ at' = "save"
  /\ offset' = last + 1
  /\ file' = Torn
  /\ UNCHANGED <<inbox, confirmed, cur, last, historyVars, serviceVars>>

(* A plausible slip: an update with nothing to handle is passed over       *)
(* before the offset is advanced.                                          *)
TakeText ==
  /\ at = "take" /\ cur <= last
  /\ IF inbox[cur].text = "none"
     THEN NextUpdate /\ UNCHANGED file
     ELSE /\ at' = "save"
          /\ offset' = cur + 1
          /\ file' = Torn
          /\ UNCHANGED <<cur, last>>
  /\ UNCHANGED <<inbox, confirmed, historyVars, serviceVars>>

(* The offset is advanced, and save_offset opens the file. *)
Take ==
  /\ at = "take" /\ cur <= last
  /\ at' = "save"
  /\ offset' = cur + 1
  /\ file' = Torn
  /\ UNCHANGED <<inbox, confirmed, cur, last, historyVars, serviceVars>>

BatchDone ==
  /\ at = "take" /\ cur > last
  /\ at' = "poll"
  /\ UNCHANGED <<inbox, confirmed, file, offset, cur, last, historyVars, serviceVars>>

SaveOffset ==
  /\ at = "save"
  /\ file' = offset
  /\ at' = "handle"
  /\ UNCHANGED <<inbox, confirmed, offset, cur, last, historyVars, serviceVars>>

(* incoming_message finds no private text, or the service has no reply. *)
Drop ==
  /\ at = "handle"
  /\ \/ inbox[cur].text = "none" /\ UNCHANGED serviceVars
     \/ inbox[cur].text # "none" /\ Ignore(inbox[cur])
  /\ Settle(cur, "dropped")
  /\ NextUpdate
  /\ UNCHANGED <<inbox, confirmed, file, calls, faults>>

(* The service has a text at once, or calls invoke_harness. *)
Handle ==
  /\ at = "handle"
  /\ \/ /\ Command(inbox[cur], cur)
        /\ at' = "send"
        /\ UNCHANGED calls
     \/ /\ Talk(inbox[cur])
        /\ at' = "invoke"
        /\ calls' = [calls EXCEPT ![cur] = @ + 1]
  /\ UNCHANGED <<inbox, confirmed, file, offset, cur, last, outcome, faults>>

(* The call returns, or fails with an error that handle turns into a safe  *)
(* text.                                                                   *)
Invoke ==
  /\ at = "invoke"
  /\ at' = "send"
  /\ UNCHANGED <<inbox, confirmed, file, offset, cur, last, historyVars, serviceVars>>

SendText ==
  /\ at = "send"
  /\ Settle(cur, "answered")
  /\ NextUpdate
  /\ UNCHANGED <<inbox, confirmed, file, calls, faults, serviceVars>>

(* getUpdates fails: the bot waits and polls again.  Or the Harness call   *)
(* or sendMessage raises what the loop catches: the rest of the batch will *)
(* be fetched again, but not the update in hand.                           *)
LoopCatches ==
  /\ at \in {"invoke", "send"}
  /\ Fault
  /\ at' = "poll"
  /\ UNCHANGED <<inbox, confirmed, file, offset, cur, last, outcome, calls, serviceVars>>

(* Ctrl-C, a lost host, or an exception the loop does not catch. *)
Stop ==
  /\ at # "off"
  /\ Fault
  /\ at' = "off"
  /\ UNCHANGED <<inbox, confirmed, file, offset, cur, last, outcome, calls, serviceVars>>

-----------------------------------------------------------------------------

Init ==
  /\ inbox = <<>>
  /\ confirmed = 1
  /\ file = None
  /\ at = "off"
  /\ offset = None
  /\ cur = 1 /\ last = 0
  /\ outcome = [u \in Update |-> "pending"]
  /\ calls = [u \in Update |-> 0]
  /\ faults = 0
  /\ seen = {}
  /\ sessions = [c \in Chat |-> None]

Work ==
  \/ Start
  \/ Poll
  \/ Take
  \/ BatchDone
  \/ SaveOffset
  \/ Drop
  \/ Handle
  \/ Invoke
  \/ SendText

Next ==
  \/ Arrive
  \/ Work
  \/ LoopCatches
  \/ Stop

Spec == Init /\ [][Next]_vars

(* Somebody starts the bot again, and its calls return sooner or later. *)
FairSpec == Spec /\ WF_vars(Work)

-----------------------------------------------------------------------------
(* Properties *)

TypeOK ==
  /\ inbox \in Seq(Message) /\ Len(inbox) <= MaxUpdates
  /\ confirmed \in Nat \ {0}
  /\ file \in Nat \cup {None, Torn}
  /\ at \in Step
  /\ offset \in Nat \cup {None}
  /\ cur \in Nat \ {0} /\ last \in 0..Len(inbox)
  /\ outcome \in [Update -> {"pending", "dropped", "answered"}]
  /\ calls \in [Update -> Nat]
  /\ faults \in Nat
  /\ seen \subseteq Nat
  /\ sessions \in [Chat -> Update \cup {None}]

(* client.invoke_harness is entered at most once for an update, although   *)
(* what the service has seen is forgotten when the bot stops: the saved    *)
(* offset is ahead of every update that was handled.  How often the client *)
(* sends its request within that call is not the bot's doing.              *)
InvokedOnce == \A u \in Update : calls[u] <= 1

(* The price of that is bounded: each time the bot stops or a call fails,  *)
(* at most the update in hand is passed over without an outcome.           *)
PassedOver(u) ==
  /\ outcome[u] = "pending"
  /\ ~InHand(u)
  /\ u < confirmed \/ (file \in Nat /\ u < file)

LossBounded == Cardinality({u \in Update : PassedOver(u)}) <= faults

(* Every update that arrives is settled or passed over in the end, unless  *)
(* the bot was stopped while it wrote the offset file and cannot start.    *)
EveryUpdateSettles ==
  \A u \in Update :
    Len(inbox) >= u ~> outcome[u] # "pending" \/ PassedOver(u)
                       \/ (at = "off" /\ file = Torn)
=============================================================================
