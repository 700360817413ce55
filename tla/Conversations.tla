---------------------------- MODULE Conversations ----------------------------
(***************************************************************************)
(* messaging-service: the conversation of two users, its messages, and the *)
(* counters of unread messages kept beside them (conversations.service.ts).*)
(* sendMessage and markAsRead read the conversation, write the messages,   *)
(* and then save() the whole copy of the conversation, counters included.  *)
(***************************************************************************)
EXTENDS Naturals, Sequences, FiniteSets

CONSTANTS Participant,   \* the two users
          Call,          \* requests in flight at a time
          MaxMessages    \* a bound

\* Of three participants, two are the same.
ASSUME TwoUsers == \A p, q, u \in Participant : p = q \/ q = u \/ u = p

VARIABLES
  created,   \* the conversation has a row
  unread,    \* its two counters
  messages,  \* its messages, as [from |-> sender, read |-> is_read]
  calls,     \* the handler executions in flight
  suspect    \* history: the users whose counter may have been spoilt

conversationVars == <<created, unread, messages, calls, suspect>>

NoCall == [at |-> "idle"]
Zero == [p \in Participant |-> 0]

ConversationsInit ==
  /\ created = FALSE
  /\ unread = Zero
  /\ messages = <<>>
  /\ calls = [h \in Call |-> NoCall]
  /\ suspect = {}

\* An execution starts with what it has read, alone or beside others.
Alone(h) == \A g \in Call \ {h} : calls[g] = NoCall
StartCall(h, call) ==
  /\ calls[h] = NoCall
  /\ calls' = [g \in Call |->
       IF g = h THEN [call EXCEPT !.beside = ~Alone(h)]
       ELSE IF calls[g] = NoCall THEN NoCall
       ELSE [calls[g] EXCEPT !.beside = TRUE]]
  /\ suspect' = IF Alone(h) THEN suspect ELSE Participant
  /\ UNCHANGED <<created, unread, messages>>

\* getOrCreateConversation: the pair is ordered, so both find the same row.
GetOrCreate(h) == ~created /\ StartCall(h, [at |-> "create", beside |-> FALSE])

\* The INSERT, refused if the other one was faster.
InsertConversation(h) ==
  /\ calls[h].at = "create"
  /\ created' = TRUE
  /\ calls' = [calls EXCEPT ![h] = NoCall]
  /\ UNCHANGED <<unread, messages, suspect>>

SendMessage(h, p) ==
  /\ created
  /\ StartCall(h, [at |-> "message", by |-> p, copy |-> unread, reads |-> FALSE,
                  beside |-> FALSE])

InsertMessage(h) ==
  LET r == calls[h]
  IN /\ r.at = "message"
     /\ Len(messages) < MaxMessages
     /\ messages' = Append(messages, [from |-> r.by, read |-> FALSE])
     /\ calls' = [calls EXCEPT ![h] =
          [r EXCEPT !.at = "save",
                    !.copy = [p \in Participant |-> IF p = r.by THEN @[p] ELSE @[p] + 1]]]
     /\ UNCHANGED <<created, unread, suspect>>

MarkAsRead(h, p) ==
  /\ created
  /\ StartCall(h, [at |-> "read", by |-> p, copy |-> unread, reads |-> TRUE,
                  beside |-> FALSE])

\* Faulty variant, in no specification: marks the reader's own messages, too.
UpdateAll(h) ==
  LET r == calls[h]
  IN /\ r.at = "read"
     /\ messages' = [i \in DOMAIN messages |-> [messages[i] EXCEPT !.read = TRUE]]
     /\ calls' = [calls EXCEPT ![h] =
          [r EXCEPT !.at = "save", !.copy = [@ EXCEPT ![r.by] = 0]]]
     /\ UNCHANGED <<created, unread, suspect>>

\* One UPDATE of the messages of the other user.
UpdateMessages(h) ==
  LET r == calls[h]
  IN /\ r.at = "read"
     /\ messages' = [i \in DOMAIN messages |->
          IF messages[i].from = r.by THEN messages[i]
          ELSE [messages[i] EXCEPT !.read = TRUE]]
     /\ calls' = [calls EXCEPT ![h] =
          [r EXCEPT !.at = "save", !.copy = [@ EXCEPT ![r.by] = 0]]]
     /\ UNCHANGED <<created, unread, suspect>>

SaveConversation(h) ==
  /\ calls[h].at = "save"
  /\ unread' = calls[h].copy
  /\ calls' = [calls EXCEPT ![h] = NoCall]
  /\ suspect' = IF calls[h].reads /\ ~calls[h].beside
                THEN suspect \ {calls[h].by} ELSE suspect
  /\ UNCHANGED <<created, messages>>

CallDies(h) ==
  /\ calls[h] # NoCall
  /\ calls' = [calls EXCEPT ![h] = NoCall]
  /\ suspect' = Participant
  /\ UNCHANGED <<created, unread, messages>>

ConversationsNext ==
  \E h \in Call :
    \/ GetOrCreate(h) \/ InsertConversation(h) \/ InsertMessage(h)
    \/ UpdateMessages(h) \/ SaveConversation(h) \/ CallDies(h)
    \/ \E p \in Participant : SendMessage(h, p) \/ MarkAsRead(h, p)

ConversationsSpec == ConversationsInit /\ [][ConversationsNext]_conversationVars

----------------------------------------------------------------------------
\* What getUnreadCount and the list of conversations show for p, and what p
\* would find in the conversation.
UnreadBy(p) ==
  Cardinality({i \in DOMAIN messages : messages[i].from # p /\ ~messages[i].read})

\* The counter of a user is the number of messages the user has not read
\* (getConversations, getUnreadCount), until two requests on the conversation
\* overlap or one dies between its writes; and however wrong it has become, it
\* is right again once the user has opened the conversation (markAsRead) with
\* no other request beside that one, and stays right.
UnreadCountRight ==
  (\A h \in Call : calls[h] = NoCall) =>
    \A p \in Participant \ suspect : unread[p] = UnreadBy(p)
=============================================================================
