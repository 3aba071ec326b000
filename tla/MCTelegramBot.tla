--------------------------- MODULE MCTelegramBot ---------------------------
EXTENDS TelegramBot

Says(text, chat, id) == [text |-> text, chat |-> chat, allowed |-> TRUE, id |-> id]

(* Two chats, whose message IDs meet; a message without text; a stranger's *)
(* chat.                                                                   *)
Messages ==
  {Says("talk", "c1", 1), Says("talk", "c2", 1), Says("new", "c1", 2),
   Says("help", "c2", 3), Says("none", "c1", 4),
   [Says("talk", "c3", 5) EXCEPT !.allowed = FALSE]}
=============================================================================
