--------------------------- MODULE MCConversation ---------------------------
(***************************************************************************)
(* Small instances of the conversation: which messages are asked for.      *)
(***************************************************************************)
EXTENDS Conversation

Message(by, unattended, urgency, asks, approval, topic) ==
  [by |-> by, unattended |-> unattended, urgency |-> urgency, asks |-> asks,
   approval |-> approval, topic |-> topic]

\* An approval's question, a question from a planning cycle, one from a
\* conversation that is held for the next, and a loop's notice on its topic.
MCKinds ==
  {Message("announce", TRUE, "now", TRUE, p, "approval") : p \in Approvals}
  \union {Message("ask_user", TRUE, "now", TRUE, None, "deadline"),
          Message("ask_user", FALSE, "next_time", TRUE, None, "supplier"),
          Message("ask_user", TRUE, "now", FALSE, None, "supplier")}

\* What the three coroutines carry: an approval's question, a notice, and a
\* message held for the next conversation.
MCDeliveryKinds ==
  {Message("announce", TRUE, "now", TRUE, p, "approval") : p \in Approvals}
  \union {Message("announce", FALSE, "now", FALSE, None, "email"),
          Message("ask_user", FALSE, "next_time", FALSE, None, "deadline")}

\* Enough for a row that two coroutines send, and for a question that lapses.
MCLiveKinds ==
  {Message("announce", TRUE, "now", TRUE, p, "approval") : p \in Approvals}
  \union {Message("ask_user", FALSE, "next_time", FALSE, None, "deadline")}

MCTopics == {"approval", "deadline", "supplier", "email"}
=============================================================================
