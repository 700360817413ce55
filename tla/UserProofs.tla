------------------------------ MODULE UserProofs ------------------------------
(***************************************************************************)
(* Proofs about what a user has of his own: the conversation with another  *)
(* (Conversations), the session of a browser (Session), what is said of    *)
(* him (Reputation), and his profile with his addresses (Profiles).        *)
(***************************************************************************)
EXTENDS Conversations, Reputation, Session, Profiles, SequenceTheorems,
        FiniteSetTheorems, WellFoundedInduction, TLAPS

----------------------------------------------------------------------------
(* Conversations: UnreadCountRight, for every number of calls.             *)

Message == [from : Participant, read : BOOLEAN]
Counters == [Participant -> Nat]
WriterType ==
  [at : {"message", "read", "save"}, by : Participant, copy : Counters,
   reads : BOOLEAN, beside : BOOLEAN]
CallType == {NoCall} \cup [at : {"create"}, beside : BOOLEAN] \cup WriterType

TalkTypeOK ==
  /\ messages \in Seq(Message) /\ unread \in Counters
  /\ calls \in [Call -> CallType] /\ suspect \subseteq Participant
  /\ \A h \in Call : calls[h].at = "message" => ~calls[h].reads

\* A call that has seen no other since it began is alone.
AloneSoFar(h) == calls[h] # NoCall /\ ~calls[h].beside
AloneIsAlone == \A h \in Call : AloneSoFar(h) => Alone(h)

\* The counter that is not suspect is right, and so is the copy that will be
\* written over it; there is no call but one that is alone.
Counted(p) ==
  /\ \A h \in Call : calls[h] # NoCall => AloneSoFar(h)
  /\ (\A h \in Call : calls[h].at # "save") => unread[p] = UnreadBy(p)
  /\ \A h \in Call : calls[h].at \in {"message", "read"} => calls[h].copy[p] = unread[p]
  /\ \A h \in Call : calls[h].at = "save" => calls[h].copy[p] = UnreadBy(p)

\* What markAsRead alone writes for its user is right, suspect or not.
Opened ==
  \A h \in Call :
    AloneSoFar(h) /\ calls[h].at = "save" /\ calls[h].reads =>
      calls[h].copy[calls[h].by] = UnreadBy(calls[h].by)

TalkInv ==
  /\ TalkTypeOK /\ AloneIsAlone /\ Opened
  /\ \A p \in Participant \ suspect : Counted(p)

LEMMA TalkStarts == ConversationsInit => TalkInv
<1> SUFFICES ASSUME ConversationsInit PROVE TalkInv
  OBVIOUS
<1>1. /\ messages = <<>> /\ unread = [p \in Participant |-> 0]
      /\ calls = [h \in Call |-> NoCall] /\ suspect = {}
  BY DEF ConversationsInit, Zero
<1>2. TalkTypeOK
  BY <1>1 DEF TalkTypeOK, Counters, CallType, WriterType, NoCall
<1>3. \A h \in Call : calls[h] = NoCall /\ calls[h].at = "idle"
  BY <1>1 DEF NoCall
<1>4. ASSUME NEW p \in Participant PROVE UnreadBy(p) = 0
  <2>1. {i \in DOMAIN messages : messages[i].from # p /\ ~messages[i].read} = {}
    BY <1>1
  <2> QED
    BY <2>1, FS_EmptySet DEF UnreadBy
<1> QED
  BY <1>1, <1>2, <1>3, <1>4 DEF TalkInv, AloneIsAlone, AloneSoFar, Opened, Counted

LEMMA CallShapes ==
  ASSUME TalkTypeOK, NEW h \in Call
  PROVE  /\ calls[h] = NoCall <=> calls[h].at = "idle"
         /\ calls[h] # NoCall => calls[h].beside \in BOOLEAN
         /\ calls[h].at \in {"idle", "create", "message", "read", "save"}
         /\ calls[h].at \in {"message", "read", "save"} =>
              calls[h] \in WriterType
<1>1. calls[h] \in CallType
  BY DEF TalkTypeOK
<1> QED
  BY <1>1 DEF CallType, WriterType, NoCall

\* A call that begins: nothing is promised if another is under way.
LEMMA StartKeeps ==
  ASSUME TalkInv, NEW h \in Call, NEW call \in CallType, call # NoCall, StartCall(h, call),
         call.at # "save", call.at \in {"message", "read"} => call.copy = unread,
         call.at = "message" => ~call.reads
  PROVE  TalkInv'
<1> DEFINE new == [call EXCEPT !.beside = ~Alone(h)]
<1>1. /\ calls[h] = NoCall /\ UNCHANGED <<messages, unread>>
      /\ calls' = [g \in Call |-> IF g = h THEN new
                                  ELSE IF calls[g] = NoCall THEN NoCall
                                  ELSE [calls[g] EXCEPT !.beside = TRUE]]
      /\ suspect' = IF Alone(h) THEN suspect ELSE Participant
  BY DEF StartCall
<1>2. Alone(h) \in BOOLEAN
  BY DEF Alone
<1>3. /\ new \in CallType /\ new # NoCall /\ new.at = call.at /\ new.beside = ~Alone(h)
      /\ call.at \in {"message", "read"} => new.copy = call.copy
      /\ call.at = "message" => ~new.reads
  BY <1>2 DEF CallType, WriterType, NoCall
<1>4. ASSUME NEW g \in Call, calls[g] # NoCall
      PROVE  /\ [calls[g] EXCEPT !.beside = TRUE] \in CallType
             /\ [calls[g] EXCEPT !.beside = TRUE].beside = TRUE
             /\ [calls[g] EXCEPT !.beside = TRUE].at = calls[g].at
             /\ calls[g].at = "message" =>
                  [calls[g] EXCEPT !.beside = TRUE].reads = calls[g].reads
  <2>1. calls[g] \in CallType
    BY DEF TalkInv, TalkTypeOK
  <2> QED
    BY <1>4, <2>1 DEF CallType, WriterType, NoCall
<1> HIDE DEF new
<1>5. calls' \in [Call -> CallType]
  <2>1. NoCall \in CallType
    BY DEF CallType, WriterType
  <2> QED
    BY <1>1, <1>3, <1>4, <2>1
<1>6. TalkTypeOK'
  <2>1. NoCall.at = "idle"
    BY DEF NoCall
  <2> QED
    BY <1>1, <1>3, <1>4, <1>5, <2>1 DEF TalkInv, TalkTypeOK
<1>7. \A p : UnreadBy(p)' = UnreadBy(p)
  BY <1>1 DEF UnreadBy
<1>8. CASE Alone(h)
  <2>1. calls' = [g \in Call |-> IF g = h THEN new ELSE NoCall] /\ suspect' = suspect
    BY <1>1, <1>8 DEF Alone
  <2>2. \A g \in Call : calls[g] = NoCall /\ calls[g].at = "idle" /\ NoCall.at = "idle"
    BY <1>1, <1>8 DEF Alone, NoCall
  <2>3. AloneIsAlone' /\ Opened'
    BY <1>3, <2>1, <2>2 DEF AloneIsAlone, AloneSoFar, Alone, Opened
  <2>4. ASSUME NEW p \in Participant \ suspect' PROVE Counted(p)'
    <3>1. unread[p] = UnreadBy(p)
      BY <2>1, <2>2, <2>4 DEF TalkInv, Counted
    <3>2. ~new.beside
      BY <1>3, <1>8
    <3>3. \A g \in Call : g # h => calls'[g] = NoCall /\ calls'[g].at = "idle"
      BY <2>1, <2>2
    <3>4. calls'[h] = new
      BY <2>1
    <3>5. \A g \in Call : calls'[g] # NoCall => AloneSoFar(g)'
      BY <3>2, <3>3, <3>4 DEF AloneSoFar
    <3> QED
      BY <1>1, <1>3, <1>7, <3>1, <3>3, <3>4, <3>5 DEF Counted
  <2> QED
    BY <1>6, <2>3, <2>4 DEF TalkInv
<1>9. CASE ~Alone(h)
  <2>1. suspect' = Participant /\ new.beside = TRUE
    BY <1>1, <1>3, <1>9
  <2>2. \A g \in Call : ~AloneSoFar(g)'
    BY <1>1, <1>4, <2>1 DEF AloneSoFar
  <2> QED
    BY <1>6, <2>1, <2>2 DEF TalkInv, AloneIsAlone, Opened
<1> QED
  BY <1>8, <1>9

\* A call that ends.
LEMMA EndKeeps ==
  ASSUME TalkInv, NEW h \in Call, calls' = [calls EXCEPT ![h] = NoCall],
         unread' \in Counters, UNCHANGED messages, suspect' \subseteq Participant,
         \A p \in Participant \ suspect' :
           unread'[p] = UnreadBy(p) /\ \A g \in Call : calls'[g] = NoCall
  PROVE  TalkInv'
<1>1. TalkTypeOK'
  BY DEF TalkInv, TalkTypeOK, CallType, NoCall
<1>2. \A g \in Call : calls'[g] = IF g = h THEN NoCall ELSE calls[g]
  BY DEF TalkInv, TalkTypeOK
<1>3. \A p : UnreadBy(p)' = UnreadBy(p)
  BY DEF UnreadBy
<1>4. AloneIsAlone' /\ Opened'
  BY <1>2, <1>3 DEF TalkInv, AloneIsAlone, AloneSoFar, Alone, Opened
<1>5. ASSUME NEW p \in Participant \ suspect' PROVE Counted(p)'
  <2>1. \A g \in Call : calls'[g] = NoCall /\ calls'[g].at = "idle"
    BY DEF NoCall
  <2>2. unread'[p] = UnreadBy(p)'
    BY <1>3
  <2> QED
    BY <2>1, <2>2 DEF Counted
<1> QED
  BY <1>1, <1>4, <1>5 DEF TalkInv

\* A message more is one more to read for everybody else.
LEMMA OneMore ==
  ASSUME messages \in Seq(Message), NEW by \in Participant, NEW p \in Participant,
         messages' = Append(messages, [from |-> by, read |-> FALSE])
  PROVE  UnreadBy(p)' = (IF p = by THEN UnreadBy(p) ELSE UnreadBy(p) + 1)
<1> DEFINE new == [from |-> by, read |-> FALSE]
           n == Len(messages)
           S == {i \in DOMAIN messages : messages[i].from # p /\ ~messages[i].read}
           T == {i \in DOMAIN messages' : messages'[i].from # p /\ ~messages'[i].read}
<1>1. /\ n \in Nat /\ DOMAIN messages = 1 .. n /\ DOMAIN messages' = 1 .. n + 1
      /\ messages'[n + 1] = new /\ \A i \in 1 .. n : messages'[i] = messages[i]
  BY AppendProperties, LenProperties DEF Message
<1>2. T = IF p = by THEN S ELSE S \cup {n + 1}
  BY <1>1
<1>3. IsFiniteSet(S) /\ n + 1 \notin S
  <2>1. IsFiniteSet(1 .. n)
    BY <1>1, FS_Interval
  <2> QED
    BY <1>1, <2>1, FS_Subset
<1>4. Cardinality(S \cup {n + 1}) = Cardinality(S) + 1
  BY <1>3, FS_AddElement
<1> QED
  BY <1>2, <1>4 DEF UnreadBy

\* Who opens the conversation has read everything, and the other nothing.
LEMMA AllRead ==
  ASSUME messages \in Seq(Message), NEW by \in Participant, NEW p \in Participant,
         messages' = [i \in DOMAIN messages |->
           IF messages[i].from = by THEN messages[i] ELSE [messages[i] EXCEPT !.read = TRUE]]
  PROVE  /\ messages' \in Seq(Message)
         /\ UnreadBy(p)' = (IF p = by THEN 0 ELSE UnreadBy(p))
<1>1. PICK n \in Nat : DOMAIN messages = 1 .. n /\ messages \in [1 .. n -> Message]
  BY LenProperties
<1>2. \A i \in 1 .. n :
        /\ messages[i] \in Message
        /\ messages[i].from = by => messages'[i] = messages[i]
        /\ messages[i].from # by => messages'[i] = [messages[i] EXCEPT !.read = TRUE]
        /\ messages'[i] \in Message /\ messages'[i].from = messages[i].from
        /\ messages[i].from # by => messages'[i].read
  BY <1>1 DEF Message
<1>3. messages' \in [1 .. n -> Message] /\ DOMAIN messages' = 1 .. n
  BY <1>1, <1>2
<1>4. messages' \in Seq(Message)
  BY <1>3, SeqDef
<1>5. CASE p = by
  <2>1. {i \in DOMAIN messages' : messages'[i].from # p /\ ~messages'[i].read} = {}
    BY <1>2, <1>3, <1>5
  <2> QED
    BY <1>4, <1>5, <2>1, FS_EmptySet DEF UnreadBy
<1>6. CASE p # by
  <2>1. ASSUME NEW i \in 1 .. n, messages[i].from # p PROVE messages[i].from = by
    <3>1. messages[i].from \in Participant
      BY <1>2 DEF Message
    <3> QED
      BY <1>6, <2>1, <3>1, TwoUsers
  <2>2. {i \in DOMAIN messages' : messages'[i].from # p /\ ~messages'[i].read}
          = {i \in DOMAIN messages : messages[i].from # p /\ ~messages[i].read}
    BY <1>1, <1>2, <1>3, <2>1
  <2> QED
    BY <1>4, <1>6, <2>2 DEF UnreadBy
<1> QED
  BY <1>5, <1>6, <1>4

\* A call that writes its messages, and what it will write over the counters.
LEMMA WriteKeeps ==
  ASSUME TalkInv, NEW h \in Call, calls[h].at \in {"message", "read"},
         NEW copy \in Counters, messages' \in Seq(Message),
         calls' = [calls EXCEPT ![h] = [calls[h] EXCEPT !.at = "save", !.copy = copy]],
         \A p \in Participant :
           calls[h].copy[p] = UnreadBy(p) => copy[p] = UnreadBy(p)',
         \A p \in Participant :
           calls[h].reads /\ p = calls[h].by => copy[p] = UnreadBy(p)',
         UNCHANGED <<unread, suspect>>
  PROVE  TalkInv'
<1> DEFINE new == [calls[h] EXCEPT !.at = "save", !.copy = copy]
<1>1. /\ new \in CallType /\ new.at = "save" /\ new.copy = copy /\ new # NoCall
      /\ new.by = calls[h].by /\ new.reads = calls[h].reads
      /\ new.beside = calls[h].beside /\ calls[h] # NoCall
  <2>1. calls[h] \in WriterType /\ calls[h] # NoCall
    BY CallShapes DEF TalkInv
  <2>2. new \in WriterType
    BY <2>1 DEF WriterType
  <2>3. new.at = "save"
    BY <2>1 DEF WriterType
  <2>4. NoCall.at = "idle"
    BY DEF NoCall
  <2>5. /\ new.copy = copy /\ new.by = calls[h].by
        /\ new.reads = calls[h].reads /\ new.beside = calls[h].beside
    BY <2>1 DEF WriterType
  <2>6. new # NoCall
    BY <2>3, <2>4
  <2> HIDE DEF new
  <2> QED
    BY <2>1, <2>2, <2>3, <2>5, <2>6 DEF CallType, WriterType
<1> HIDE DEF new
<1>2. /\ calls \in [Call -> CallType] /\ calls' = [calls EXCEPT ![h] = new]
      /\ \A g \in Call : calls'[g] = IF g = h THEN new ELSE calls[g]
  BY DEF TalkInv, TalkTypeOK, new
<1>3. TalkTypeOK'
  BY <1>1, <1>2 DEF TalkInv, TalkTypeOK
<1>4. AloneIsAlone'
  BY <1>1, <1>2 DEF TalkInv, AloneIsAlone, AloneSoFar, Alone
<1>5. Opened'
  <2> SUFFICES ASSUME NEW g \in Call,
                      (AloneSoFar(g) /\ calls[g].at = "save" /\ calls[g].reads)'
               PROVE  (calls[g].copy[calls[g].by] = UnreadBy(calls[g].by))'
    BY DEF Opened
  <2>1. CASE g = h
    <3>1. calls'[g] = new
      BY <1>2, <2>1
    <3>2. calls[h].reads
      BY <1>1, <3>1
    <3>3. PICK p \in Participant : p = calls[h].by
      BY <1>1 DEF CallType, WriterType
    <3>4. copy[p] = UnreadBy(p)'
      BY <3>2, <3>3
    <3>5. calls'[g].by = p /\ calls'[g].copy = copy
      BY <1>1, <3>1, <3>3
    <3> QED
      BY <3>4, <3>5 DEF UnreadBy
  <2>2. CASE g # h
    BY <1>1, <1>2, <2>2 DEF TalkInv, AloneIsAlone, AloneSoFar, Alone
  <2> QED
    BY <2>1, <2>2
<1>6. ASSUME NEW p \in Participant \ suspect' PROVE Counted(p)'
  <2>1. Counted(p) /\ AloneSoFar(h)
    BY <1>1 DEF TalkInv, Counted
  <2>2. \A g \in Call : g # h => calls[g] = NoCall /\ calls[g].at = "idle"
    BY <2>1 DEF TalkInv, AloneIsAlone, Alone, NoCall
  <2>3. calls[h].copy[p] = UnreadBy(p)
    BY <2>1, <2>2 DEF Counted
  <2>4. copy[p] = UnreadBy(p)'
    BY <2>3
  <2>5. \A g \in Call : g # h => calls'[g] = NoCall /\ calls'[g].at = "idle"
    BY <1>2, <2>2
  <2>6. AloneSoFar(h)' /\ calls'[h] = new
    BY <1>1, <1>2, <2>1 DEF AloneSoFar
  <2> QED
    BY <1>1, <2>4, <2>5, <2>6 DEF Counted
<1> QED
  BY <1>3, <1>4, <1>5, <1>6 DEF TalkInv

LEMMA InsertMessageKeeps ==
  ASSUME TalkInv, NEW h \in Call, InsertMessage(h)
  PROVE  TalkInv'
<1> DEFINE by == calls[h].by
           copy == [p \in Participant |->
             IF p = by THEN calls[h].copy[p] ELSE calls[h].copy[p] + 1]
<1>1. /\ by \in Participant /\ calls[h].copy \in Counters /\ ~calls[h].reads
      /\ calls[h].at = "message" /\ messages \in Seq(Message)
      /\ calls[h] \in WriterType
  BY CallShapes DEF TalkInv, TalkTypeOK, WriterType, InsertMessage
<1>2. /\ messages' = Append(messages, [from |-> by, read |-> FALSE])
      /\ UNCHANGED <<unread, suspect>>
      /\ calls' = [calls EXCEPT ![h] = [calls[h] EXCEPT !.at = "save", !.copy = copy]]
  BY <1>1 DEF InsertMessage
<1>3. messages' \in Seq(Message) /\ copy \in Counters
  BY <1>1, <1>2, AppendProperties DEF Message, Counters
<1>4. ASSUME NEW p \in Participant, calls[h].copy[p] = UnreadBy(p)
      PROVE  copy[p] = UnreadBy(p)'
  <2>1. UnreadBy(p)' = IF p = by THEN UnreadBy(p) ELSE UnreadBy(p) + 1
    BY <1>1, <1>2, OneMore
  <2> QED
    BY <1>4, <2>1
<1> HIDE DEF copy
<1> QED
  BY <1>1, <1>2, <1>3, <1>4, WriteKeeps

LEMMA UpdateMessagesKeeps ==
  ASSUME TalkInv, NEW h \in Call, UpdateMessages(h)
  PROVE  TalkInv'
<1> DEFINE by == calls[h].by
           copy == [calls[h].copy EXCEPT ![by] = 0]
<1>1. /\ by \in Participant /\ calls[h].copy \in Counters
      /\ calls[h].at = "read" /\ messages \in Seq(Message)
      /\ calls[h] \in WriterType
  BY CallShapes DEF TalkInv, TalkTypeOK, WriterType, UpdateMessages
<1>2. /\ messages' = [i \in DOMAIN messages |->
           IF messages[i].from = by THEN messages[i] ELSE [messages[i] EXCEPT !.read = TRUE]]
      /\ UNCHANGED <<unread, suspect>>
      /\ calls' = [calls EXCEPT ![h] = [calls[h] EXCEPT !.at = "save", !.copy = copy]]
  BY <1>1 DEF UpdateMessages
<1>3. ASSUME NEW p \in Participant
      PROVE  messages' \in Seq(Message) /\ UnreadBy(p)' = IF p = by THEN 0 ELSE UnreadBy(p)
  BY <1>1, <1>2, AllRead
<1>4. /\ copy \in Counters /\ copy[by] = 0
      /\ \A p \in Participant : p # by => copy[p] = calls[h].copy[p]
  BY <1>1 DEF Counters
<1> HIDE DEF copy
<1>5. \A p \in Participant : calls[h].copy[p] = UnreadBy(p) => copy[p] = UnreadBy(p)'
  BY <1>3, <1>4
<1>6. \A p \in Participant : p = by => copy[p] = UnreadBy(p)'
  BY <1>3, <1>4
<1>7. messages' \in Seq(Message)
  BY <1>1, <1>3
<1> QED
  BY <1>1, <1>2, <1>4, <1>5, <1>6, <1>7, WriteKeeps

\* markAsRead alone makes its counter right; any other call that was alone
\* leaves right what was right.
LEMMA SaveKeeps ==
  ASSUME TalkInv, NEW h \in Call, SaveConversation(h)
  PROVE  TalkInv'
<1>1. /\ calls[h].at = "save" /\ calls[h] # NoCall
      /\ calls[h].copy \in Counters /\ calls[h].by \in Participant
  BY CallShapes DEF TalkInv, WriterType, SaveConversation
<1>2. /\ unread' = calls[h].copy /\ calls' = [calls EXCEPT ![h] = NoCall]
      /\ UNCHANGED messages
      /\ suspect' = IF calls[h].reads /\ ~calls[h].beside
                    THEN suspect \ {calls[h].by} ELSE suspect
  BY DEF SaveConversation
<1>3. ASSUME NEW p \in Participant \ suspect'
      PROVE  unread'[p] = UnreadBy(p) /\ \A g \in Call : calls'[g] = NoCall
  <2>1. AloneSoFar(h) /\ calls[h].copy[p] = UnreadBy(p)
    <3>1. CASE p \notin suspect
      BY <1>1, <3>1 DEF TalkInv, Counted
    <3>2. CASE p \in suspect
      BY <1>1, <1>2, <3>2 DEF TalkInv, Opened, AloneSoFar
    <3> QED
      BY <3>1, <3>2
  <2>2. \A g \in Call \ {h} : calls[g] = NoCall
    BY <2>1 DEF TalkInv, AloneIsAlone, Alone
  <2>3. calls \in [Call -> CallType]
    BY DEF TalkInv, TalkTypeOK
  <2> QED
    BY <1>2, <2>1, <2>2, <2>3
<1>4. suspect' \subseteq Participant
  BY <1>2 DEF TalkInv, TalkTypeOK
<1> QED
  BY <1>1, <1>2, <1>3, <1>4, EndKeeps

LEMMA InsertConversationKeeps ==
  ASSUME TalkInv, NEW h \in Call, InsertConversation(h)
  PROVE  TalkInv'
<1>1. /\ calls' = [calls EXCEPT ![h] = NoCall] /\ UNCHANGED <<unread, messages, suspect>>
      /\ calls[h].at = "create" /\ calls[h] # NoCall /\ calls \in [Call -> CallType]
  BY CallShapes DEF InsertConversation, TalkInv, TalkTypeOK
<1>2. unread' \in Counters /\ suspect' \subseteq Participant
  BY <1>1 DEF TalkInv, TalkTypeOK
<1>3. ASSUME NEW p \in Participant \ suspect'
      PROVE  unread'[p] = UnreadBy(p) /\ \A g \in Call : calls'[g] = NoCall
  <2>1. Counted(p) /\ AloneSoFar(h)
    BY <1>1 DEF TalkInv, Counted
  <2>2. \A g \in Call \ {h} : calls[g] = NoCall /\ calls[g].at = "idle"
    BY <2>1 DEF TalkInv, AloneIsAlone, Alone, NoCall
  <2> QED
    BY <1>1, <2>1, <2>2 DEF Counted
<1> QED
  BY <1>1, <1>2, <1>3, EndKeeps

LEMMA TalkStep == TalkInv /\ [ConversationsNext]_conversationVars => TalkInv'
<1> SUFFICES ASSUME TalkInv, [ConversationsNext]_conversationVars PROVE TalkInv'
  OBVIOUS
<1>1. CASE UNCHANGED conversationVars
  <2>1. UNCHANGED <<unread, messages, calls, suspect>>
    BY <1>1 DEF conversationVars
  <2>2. TalkTypeOK' /\ AloneIsAlone' /\ Opened'
    BY <2>1 DEF TalkInv, TalkTypeOK, AloneIsAlone, AloneSoFar, Alone, Opened, UnreadBy
  <2>3. \A p \in Participant \ suspect' : Counted(p)'
    BY <2>1 DEF TalkInv, Counted, AloneSoFar, UnreadBy
  <2> QED
    BY <2>2, <2>3 DEF TalkInv
<1>2. unread \in Counters
  BY DEF TalkInv, TalkTypeOK
<1>3. ASSUME NEW h \in Call, GetOrCreate(h) PROVE TalkInv'
  <2> DEFINE call == [at |-> "create", beside |-> FALSE]
  <2>1. StartCall(h, call) /\ call \in CallType /\ call # NoCall /\ call.at = "create"
    BY <1>3 DEF GetOrCreate, CallType, NoCall
  <2> HIDE DEF call
  <2> QED
    BY <2>1, StartKeeps
<1>4. ASSUME NEW h \in Call, NEW p \in Participant, SendMessage(h, p) PROVE TalkInv'
  <2> DEFINE call == [at |-> "message", by |-> p, copy |-> unread, reads |-> FALSE,
                      beside |-> FALSE]
  <2>1. /\ StartCall(h, call) /\ call \in CallType /\ call # NoCall
        /\ call.at = "message" /\ call.copy = unread /\ ~call.reads
    BY <1>2, <1>4 DEF SendMessage, CallType, WriterType, NoCall
  <2> HIDE DEF call
  <2> QED
    BY <2>1, StartKeeps
<1>5. ASSUME NEW h \in Call, NEW p \in Participant, MarkAsRead(h, p) PROVE TalkInv'
  <2> DEFINE call == [at |-> "read", by |-> p, copy |-> unread, reads |-> TRUE,
                      beside |-> FALSE]
  <2>1. /\ StartCall(h, call) /\ call \in CallType /\ call # NoCall
        /\ call.at = "read" /\ call.copy = unread
    BY <1>2, <1>5 DEF MarkAsRead, CallType, WriterType, NoCall
  <2> HIDE DEF call
  <2> QED
    BY <2>1, StartKeeps
<1>6. ASSUME NEW h \in Call, CallDies(h) PROVE TalkInv'
  BY <1>2, <1>6, EndKeeps DEF CallDies
<1> QED
  BY <1>1, <1>3, <1>4, <1>5, <1>6, InsertMessageKeeps, UpdateMessagesKeeps, SaveKeeps,
     InsertConversationKeeps
  DEF ConversationsNext

\* UnreadCountRight: whatever calls come, overlap and die, in any number.
THEOREM UnreadIsCounted == ConversationsSpec => []UnreadCountRight
<1>1. TalkInv => UnreadCountRight
  <2> SUFFICES ASSUME TalkInv, \A h \in Call : calls[h] = NoCall,
                      NEW p \in Participant \ suspect
               PROVE  unread[p] = UnreadBy(p)
    BY DEF UnreadCountRight
  <2>1. \A h \in Call : calls[h].at # "save"
    BY DEF NoCall
  <2> QED
    BY <2>1 DEF TalkInv, Counted
<1> QED
  BY <1>1, TalkStarts, TalkStep, PTL DEF ConversationsSpec

----------------------------------------------------------------------------
(* Session: SessionKept, for every set of browsers and of tabs.            *)

StorageType == [access : {"none", "fresh", "old"}, refresh : Nat]
RefreshType == [at : {"none", "asked", "granted", "refused"}, token : Nat]

SessionTypeOK ==
  /\ issued \in Nat /\ expired \in Nat /\ expired <= issued
  /\ storage \in [Browser -> StorageType]
  /\ refreshing \in [Tab -> RefreshType]
  /\ \A t \in Tab : refreshing[t].at = "none" => refreshing[t] = NotRefreshing

\* A browser that keeps up, and whose user is signed in: what its tabs ask
\* with is good, and what is stored is, or will be once a tab stores its own.
Asking(b) ==
  \A t \in Busy(b) :
    /\ refreshing[t].at # "refused"
    /\ refreshing[t].at = "asked" => Valid(refreshing[t].token, issued)
Stored(b) ==
  \/ Valid(storage[b].refresh, issued)
  \/ \E t \in Busy(b) : refreshing[t].at = "granted"

SignedIn(b) == storage[b].access # "none" /\ Asking(b) /\ Stored(b)
SignedOut(b) == storage[b] = Empty /\ Busy(b) = {}

KeptUp(b) == IF b \in signed THEN SignedIn(b) ELSE SignedOut(b)

SessionInv == SessionTypeOK /\ \A b \in Browser \ spoiled : KeptUp(b)

LEMMA SessionStarts == SessionInit => SessionInv
  BY TabsHaveBrowsers DEF SessionInit, SessionInv, SessionTypeOK, StorageType, RefreshType,
     KeptUp, SignedOut, Busy, Empty, NotRefreshing

\* A browser with whose rows and tabs nothing happens, and for whose tokens
\* there is room in the five newest, keeps up.
LEMMA OthersKeepUp ==
  ASSUME SessionInv, NEW b \in Browser \ spoiled, SessionTypeOK',
         b \in signed' <=> b \in signed,
         storage'[b] = storage[b],
         \A t \in Tab : BrowserOf[t] = b => refreshing'[t] = refreshing[t],
         Valid(storage[b].refresh, issued) => Valid(storage[b].refresh, issued)',
         \A t \in Busy(b) : refreshing[t].at = "asked" /\ Valid(refreshing[t].token, issued)
           => Valid(refreshing[t].token, issued)'
  PROVE  KeptUp(b)'
<1>1. KeptUp(b)
  BY DEF SessionInv
<1>2. Busy(b)' = Busy(b) /\ \A t \in Busy(b) : refreshing'[t] = refreshing[t]
  BY DEF Busy
<1>3. CASE b \in signed
  <2>1. SignedIn(b)
    BY <1>1, <1>3 DEF KeptUp
  <2>2. Asking(b)'
    BY <1>2, <2>1 DEF SignedIn, Asking
  <2>3. Stored(b)'
    BY <1>2, <2>1 DEF SignedIn, Stored
  <2> QED
    BY <1>3, <2>1, <2>2, <2>3 DEF KeptUp, SignedIn
<1>4. CASE b \notin signed
  BY <1>1, <1>2, <1>4 DEF KeptUp, SignedOut
<1> QED
  BY <1>3, <1>4

\* What an action that issues a token to b leaves to the other browsers.
LEMMA IssuedBeside ==
  ASSUME SessionInv, SessionTypeOK', NEW b \in Browser, NEW tabs \in SUBSET Tab,
         issued' = issued + 1, expired' = expired,
         NEW c \in Browser \ {b}, c \notin spoiled,
         c \notin Crowded(b, tabs),
         tabs = Tab \/ \E t \in Tab : BrowserOf[t] = b /\ tabs = Tab \ {t},
         c \in signed' <=> c \in signed,
         storage'[c] = storage[c],
         \A t \in Tab : BrowserOf[t] = c => refreshing'[t] = refreshing[t]
  PROVE  KeptUp(c)'
<1>1. Valid(storage[c].refresh, issued) => Valid(storage[c].refresh, issued)'
  <2> SUFFICES ASSUME Valid(storage[c].refresh, issued)
               PROVE  Valid(storage[c].refresh, issued)'
    OBVIOUS
  <2>1. storage[c].refresh \in Nat \ {0}
    BY DEF SessionInv, SessionTypeOK, StorageType, Valid
  <2>2. Valid(storage[c].refresh, issued + 1)
    BY <2>1 DEF Crowded
  <2> QED
    BY <2>1, <2>2 DEF Valid
<1>2. ASSUME NEW t \in Busy(c), refreshing[t].at = "asked", Valid(refreshing[t].token, issued)
      PROVE  Valid(refreshing[t].token, issued)'
  <2>1. refreshing[t].token \in Nat \ {0} /\ t \in tabs /\ BrowserOf[t] = c
    BY <1>2 DEF SessionInv, SessionTypeOK, RefreshType, Valid, Busy
  <2>2. Valid(refreshing[t].token, issued + 1)
    BY <1>2, <2>1 DEF Crowded
  <2> QED
    BY <2>1, <2>2 DEF Valid
<1> QED
  BY <1>1, <1>2, OthersKeepUp

LEMMA SignInKeeps ==
  ASSUME SessionInv, NEW b \in Browser, HandleSubmit(b)
  PROVE  SessionInv'
<1>1. SessionTypeOK'
  BY DEF SessionInv, SessionTypeOK, HandleSubmit, StorageType
<1>2. ASSUME NEW c \in Browser \ {b}, c \notin spoiled' PROVE KeptUp(c)'
  <2>1. c \notin spoiled /\ c \notin Crowded(b, Tab)
    BY <1>2 DEF HandleSubmit
  <2> QED
    BY <1>1, <2>1, IssuedBeside DEF HandleSubmit, SessionInv, SessionTypeOK
<1>3. ASSUME b \notin spoiled' PROVE KeptUp(b)'
  <2>1. Busy(b) = {} /\ Busy(b)' = {}
    BY <1>3 DEF HandleSubmit, Busy
  <2>2. storage'[b].access # "none" /\ storage'[b].refresh = issued'
    BY DEF HandleSubmit, SessionInv, SessionTypeOK
  <2>3. Valid(storage[b].refresh, issued)'
    BY <2>2 DEF Valid, Newest, HandleSubmit, SessionInv, SessionTypeOK
  <2>4. Asking(b)' /\ Stored(b)'
    BY <2>1, <2>3 DEF Asking, Stored
  <2>5. b \in signed'
    BY DEF HandleSubmit
  <2> QED
    BY <2>2, <2>4, <2>5 DEF KeptUp, SignedIn
<1> QED
  BY <1>1, <1>2, <1>3 DEF SessionInv

LEMMA LogoutKeeps ==
  ASSUME SessionInv, NEW t \in Tab, Logout(t)
  PROVE  SessionInv'
<1> DEFINE b == BrowserOf[t]
<1>1. SessionTypeOK' /\ b \in Browser
  BY TabsHaveBrowsers
  DEF SessionInv, SessionTypeOK, Logout, StorageType, RefreshType, Empty, NotRefreshing
<1>2. ASSUME NEW c \in Browser \ {b}, c \notin spoiled' PROVE KeptUp(c)'
  <2>1. /\ c \notin spoiled /\ (c \in signed' <=> c \in signed) /\ storage'[c] = storage[c]
        /\ \A u \in Tab : BrowserOf[u] = c => refreshing'[u] = refreshing[u]
    BY <1>1, <1>2 DEF Logout, SessionInv, SessionTypeOK
  <2>2. issued' = issued /\ expired' = expired
    BY DEF Logout
  <2> QED
    BY <1>1, <2>1, <2>2, OthersKeepUp DEF Valid, Busy
<1>3. ASSUME b \notin spoiled' PROVE KeptUp(b)'
  <2>1. Busy(b) \subseteq {t}
    BY <1>3 DEF Logout
  <2>2. Busy(b)' = {}
    BY <2>1 DEF Logout, Busy, SessionInv, SessionTypeOK
  <2>3. storage'[b] = Empty /\ b \notin signed'
    BY <1>1 DEF Logout, SessionInv, SessionTypeOK
  <2> QED
    BY <2>2, <2>3 DEF KeptUp, SignedOut
<1> QED
  BY <1>1, <1>2, <1>3 DEF SessionInv

LEMMA ExpiriesKeep ==
  ASSUME SessionInv,
         RefreshExpires \/ \E b \in Browser : AccessExpires(b)
  PROVE  SessionInv'
<1>1. CASE RefreshExpires
  <2>1. SessionTypeOK'
    BY <1>1 DEF SessionInv, SessionTypeOK, RefreshExpires
  <2>2. ASSUME NEW c \in Browser, c \notin spoiled' PROVE KeptUp(c)'
    <3>1. /\ c \notin spoiled /\ storage[c].refresh # expired'
          /\ \A t \in Tab : BrowserOf[t] = c => refreshing[t].token # expired'
      BY <1>1, <2>2 DEF RefreshExpires
    <3>2. \A token \in Nat :
            Valid(token, issued) /\ token # expired' => Valid(token, issued)'
      BY <1>1 DEF RefreshExpires, SessionInv, SessionTypeOK, Valid
    <3>3. storage[c].refresh \in Nat /\ \A t \in Tab : refreshing[t].token \in Nat
      BY DEF SessionInv, SessionTypeOK, StorageType, RefreshType
    <3>4. UNCHANGED <<storage, refreshing, signed>>
      BY <1>1 DEF RefreshExpires
    <3>5. \A t \in Busy(c) : t \in Tab /\ BrowserOf[t] = c
      BY DEF Busy
    <3> QED
      BY <2>1, <3>1, <3>2, <3>3, <3>4, <3>5, OthersKeepUp
  <2> QED
    BY <2>1, <2>2 DEF SessionInv
<1>2. ASSUME NEW b \in Browser, AccessExpires(b) PROVE SessionInv'
  <2>1. SessionTypeOK'
    BY <1>2 DEF SessionInv, SessionTypeOK, AccessExpires, StorageType
  <2>2. ASSUME NEW c \in Browser \ {b}, c \notin spoiled' PROVE KeptUp(c)'
    <3>1. c \notin spoiled /\ storage'[c] = storage[c]
          /\ UNCHANGED <<issued, expired, refreshing, signed>>
      BY <1>2, <2>2 DEF AccessExpires, SessionInv, SessionTypeOK
    <3> QED
      BY <2>1, <3>1, OthersKeepUp DEF Valid, Busy
  <2>3. ASSUME b \notin spoiled' PROVE KeptUp(b)'
    <3>1. KeptUp(b) /\ storage[b].access = "fresh" /\ storage'[b].access = "old"
          /\ storage'[b].refresh = storage[b].refresh
          /\ UNCHANGED <<issued, expired, refreshing, signed>>
      BY <1>2, <2>3 DEF AccessExpires, SessionInv, SessionTypeOK, StorageType
    <3>2. b \in signed
      BY <3>1 DEF KeptUp, SignedOut, Empty
    <3>3. SignedIn(b) /\ Busy(b)' = Busy(b)
      BY <3>1, <3>2 DEF KeptUp, Busy
    <3>4. Asking(b)' /\ Stored(b)'
      BY <3>1, <3>3 DEF SignedIn, Asking, Stored, Valid
    <3> QED
      BY <3>1, <3>2, <3>4 DEF KeptUp, SignedIn
  <2> QED
    BY <2>1, <2>2, <2>3 DEF SessionInv
<1> QED
  BY <1>1, <1>2

LEMMA RefusedKeeps ==
  ASSUME SessionInv, NEW t \in Tab, Refused(t)
  PROVE  SessionInv'
<1> DEFINE b == BrowserOf[t]
           here == storage[b]
<1>1. SessionTypeOK' /\ b \in Browser
  <2>1. b \in Browser /\ here.refresh \in Nat
    BY TabsHaveBrowsers DEF SessionInv, SessionTypeOK, StorageType
  <2>2. [at |-> "asked", token |-> here.refresh] \in RefreshType
    BY <2>1 DEF RefreshType
  <2>3. refreshing' \in [Tab -> RefreshType]
    BY <2>2 DEF SessionInv, SessionTypeOK, Refused
  <2>4. \A u \in Tab : refreshing'[u].at = "none" => refreshing'[u] = NotRefreshing
    BY DEF SessionInv, SessionTypeOK, Refused
  <2> QED
    BY <2>1, <2>3, <2>4 DEF SessionInv, SessionTypeOK, Refused
<1>2. ASSUME NEW c \in Browser \ {b}, c \notin spoiled' PROVE KeptUp(c)'
  <2>1. /\ c \notin spoiled /\ \A u \in Tab : BrowserOf[u] = c => refreshing'[u] = refreshing[u]
        /\ UNCHANGED <<issued, expired, storage, signed>>
    BY <1>1, <1>2 DEF Refused, SessionInv, SessionTypeOK
  <2> QED
    BY <1>1, <2>1, OthersKeepUp DEF Valid, Busy
<1>3. ASSUME b \notin spoiled' PROVE KeptUp(b)'
  <2>1. b \notin spoiled /\ KeptUp(b) /\ UNCHANGED <<issued, expired, storage, signed>>
    BY <1>1, <1>3 DEF Refused, SessionInv
  <2>2. CASE refreshing' = refreshing
    BY <1>1, <2>1, <2>2, OthersKeepUp DEF Valid, Busy
  <2>3. CASE refreshing' # refreshing
    <3>1. /\ refreshing[t] = NotRefreshing /\ here # Empty
          /\ refreshing' = [refreshing EXCEPT ![t] = [at |-> "asked", token |-> here.refresh]]
      BY <2>3 DEF Refused
    <3>2. b \in signed /\ SignedIn(b)
      BY <2>1, <3>1 DEF KeptUp, SignedOut
    <3>3. Valid(here.refresh, issued)
      BY <1>3, <3>2 DEF Refused, SignedIn, Stored
    <3>4. \A u \in Busy(b)' :
            u = t \/ (u \in Busy(b) /\ refreshing'[u] = refreshing[u])
      BY <3>1 DEF Busy, SessionInv, SessionTypeOK
    <3>5. refreshing'[t] = [at |-> "asked", token |-> here.refresh]
      BY <3>1 DEF SessionInv, SessionTypeOK
    <3>6. Asking(b)'
      BY <2>1, <3>2, <3>3, <3>4, <3>5 DEF SignedIn, Asking, Valid
    <3> QED
      BY <2>1, <3>2, <3>3, <3>6 DEF KeptUp, SignedIn, Stored, Valid
  <2> QED
    BY <2>2, <2>3
<1> QED
  BY <1>1, <1>2, <1>3 DEF SessionInv

LEMMA RefreshKeeps ==
  ASSUME SessionInv, NEW t \in Tab, RefreshTokens(t)
  PROVE  SessionInv'
<1> DEFINE b == BrowserOf[t]
<1>1. b \in Browser /\ t \in Busy(b)
  BY TabsHaveBrowsers DEF SessionInv, SessionTypeOK, RefreshTokens, Busy, NotRefreshing
<1>2. SessionTypeOK'
  BY DEF SessionInv, SessionTypeOK, RefreshTokens, RefreshType
<1>3. CASE Valid(refreshing[t].token, issued)
  <2>1. /\ issued' = issued + 1 /\ UNCHANGED <<expired, storage, signed>>
        /\ refreshing' = [refreshing EXCEPT ![t] = [at |-> "granted", token |-> issued + 1]]
        /\ spoiled' = spoiled \cup Crowded(b, Tab \ {t})
    BY <1>3 DEF RefreshTokens
  <2>2. ASSUME NEW c \in Browser \ {b}, c \notin spoiled' PROVE KeptUp(c)'
    <3>1. c \notin spoiled /\ c \notin Crowded(b, Tab \ {t})
      BY <2>1, <2>2
    <3>2. \A u \in Tab : BrowserOf[u] = c => refreshing'[u] = refreshing[u]
      BY <2>1, <2>2 DEF SessionInv, SessionTypeOK
    <3> QED
      BY <1>1, <1>2, <2>1, <3>1, <3>2, IssuedBeside
  <2>3. ASSUME b \notin spoiled' PROVE KeptUp(b)'
    <3>1. b \notin spoiled /\ KeptUp(b)
      BY <1>1, <2>1, <2>3 DEF SessionInv
    <3>2. b \in signed /\ SignedIn(b)
      BY <1>1, <3>1 DEF KeptUp, SignedOut
    <3>3. \A u \in Busy(b)' : u \in Tab /\ BrowserOf[u] = b
                              /\ (u = t \/ (u \in Busy(b) /\ refreshing'[u] = refreshing[u]))
      BY <2>1 DEF Busy, SessionInv, SessionTypeOK
    <3>4. refreshing'[t].at = "granted" /\ t \in Busy(b)'
      BY <2>1 DEF Busy, SessionInv, SessionTypeOK, NotRefreshing
    <3>5. ASSUME NEW u \in Busy(b)', u # t, refreshing'[u].at = "asked"
          PROVE  Valid(refreshing[u].token, issued)'
      <4>1. u \in Tab \ {t} /\ BrowserOf[u] = b /\ u \in Busy(b) /\ refreshing'[u] = refreshing[u]
        BY <3>3, <3>5
      <4>2. Valid(refreshing[u].token, issued) /\ refreshing[u].token \in Nat \ {0}
        BY <3>2, <3>5, <4>1 DEF SignedIn, Asking, SessionInv, SessionTypeOK, RefreshType, Valid
      <4>3. Valid(refreshing[u].token, issued + 1)
        BY <2>1, <2>3, <3>5, <4>1, <4>2 DEF Crowded
      <4> QED
        BY <2>1, <4>1, <4>3 DEF Valid
    <3>6. Asking(b)'
      BY <3>2, <3>3, <3>4, <3>5 DEF SignedIn, Asking
    <3>7. Stored(b)'
      BY <3>4 DEF Stored
    <3> QED
      BY <2>1, <3>2, <3>6, <3>7 DEF KeptUp, SignedIn
  <2> QED
    BY <1>2, <2>2, <2>3 DEF SessionInv
<1>4. CASE ~Valid(refreshing[t].token, issued)
  <2>1. /\ UNCHANGED <<issued, expired, storage, signed, spoiled>>
        /\ refreshing' = [refreshing EXCEPT ![t].at = "refused"] /\ refreshing[t].at = "asked"
    BY <1>4 DEF RefreshTokens
  <2>2. b \in spoiled
    BY <1>1, <1>4, <2>1 DEF SessionInv, KeptUp, SignedIn, SignedOut, Asking
  <2>3. ASSUME NEW c \in Browser \ spoiled PROVE KeptUp(c)'
    <3>1. \A u \in Tab : BrowserOf[u] = c => refreshing'[u] = refreshing[u]
      BY <2>1, <2>2, <2>3 DEF SessionInv, SessionTypeOK
    <3> QED
      BY <1>2, <2>1, <3>1, OthersKeepUp DEF Valid, Busy
  <2> QED
    BY <1>2, <2>1, <2>3 DEF SessionInv
<1> QED
  BY <1>3, <1>4

LEMMA AnswersKeep ==
  ASSUME SessionInv, NEW t \in Tab, AnswerLost(t) \/ StoreTokens(t) \/ RemoveTokens(t)
  PROVE  SessionInv'
<1> DEFINE b == BrowserOf[t]
<1>1. b \in Browser /\ t \in Busy(b)
  BY TabsHaveBrowsers
  DEF SessionInv, SessionTypeOK, AnswerLost, StoreTokens, RemoveTokens, Busy, NotRefreshing
<1>2. SessionTypeOK'
  <2>1. NotRefreshing \in RefreshType /\ Empty \in StorageType
    BY DEF NotRefreshing, RefreshType, Empty, StorageType
  <2>2. refreshing[t].token \in Nat
        /\ [access |-> "fresh", refresh |-> refreshing[t].token] \in StorageType
    BY DEF SessionInv, SessionTypeOK, RefreshType, StorageType
  <2>3. CASE AnswerLost(t)
    BY <2>3 DEF SessionInv, SessionTypeOK, AnswerLost, RefreshType
  <2>4. CASE StoreTokens(t)
    BY <2>1, <2>2, <2>4 DEF SessionInv, SessionTypeOK, StoreTokens, NotRefreshing
  <2>5. CASE RemoveTokens(t)
    BY <2>1, <2>5 DEF SessionInv, SessionTypeOK, RemoveTokens, NotRefreshing
  <2> QED
    BY <2>3, <2>4, <2>5
<1>3. ASSUME NEW c \in Browser \ {b}, c \notin spoiled' PROVE KeptUp(c)'
  <2>1. /\ c \notin spoiled /\ storage'[c] = storage[c]
        /\ UNCHANGED <<issued, expired, signed>>
        /\ \A u \in Tab : BrowserOf[u] = c => refreshing'[u] = refreshing[u]
    BY <1>3 DEF AnswerLost, StoreTokens, RemoveTokens, SessionInv, SessionTypeOK
  <2> QED
    BY <1>2, <2>1, OthersKeepUp DEF Valid, Busy
<1>4. ASSUME b \notin spoiled' PROVE KeptUp(b)'
  <2>1. b \notin spoiled /\ KeptUp(b)
    BY <1>1, <1>4 DEF AnswerLost, StoreTokens, RemoveTokens, SessionInv
  <2>2. b \in signed /\ SignedIn(b)
    BY <1>1, <2>1 DEF KeptUp, SignedOut
  <2>3. StoreTokens(t)
    BY <1>1, <1>4, <2>2 DEF AnswerLost, RemoveTokens, SignedIn, Asking
  <2>4. /\ Valid(refreshing[t].token, issued)
        /\ UNCHANGED <<issued, expired, signed>>
        /\ storage' = [storage EXCEPT ![b] = [access |-> "fresh", refresh |-> refreshing[t].token]]
        /\ refreshing' = [refreshing EXCEPT ![t] = NotRefreshing]
    BY <1>4, <2>3 DEF StoreTokens
  <2>5. storage'[b] = [access |-> "fresh", refresh |-> refreshing[t].token]
    BY <1>1, <2>4 DEF SessionInv, SessionTypeOK
  <2>6. Stored(b)'
    BY <2>4, <2>5 DEF Stored, Valid
  <2>7. \A u \in Busy(b)' : u \in Busy(b) /\ refreshing'[u] = refreshing[u]
    BY <2>4 DEF Busy, SessionInv, SessionTypeOK
  <2>8. Asking(b)'
    BY <2>2, <2>4, <2>7 DEF SignedIn, Asking, Valid
  <2> QED
    BY <2>2, <2>4, <2>5, <2>6, <2>8 DEF KeptUp, SignedIn
<1> QED
  BY <1>2, <1>3, <1>4 DEF SessionInv

LEMMA SessionStep ==
  SessionInv /\ [SessionNext]_sessionVars => SessionInv'
<1> SUFFICES ASSUME SessionInv, [SessionNext]_sessionVars PROVE SessionInv'
  OBVIOUS
<1>1. CASE UNCHANGED sessionVars
  BY <1>1 DEF sessionVars, SessionInv, SessionTypeOK, KeptUp, SignedIn, SignedOut, Asking,
     Stored, Busy, Valid
<1>2. ASSUME NEW b \in Browser, HandleSubmit(b) PROVE SessionInv'
  BY <1>2, SignInKeeps
<1>3. CASE RefreshExpires \/ \E b \in Browser : AccessExpires(b)
  BY <1>3, ExpiriesKeep
<1>4. ASSUME NEW t \in Tab, Logout(t) PROVE SessionInv'
  BY <1>4, LogoutKeeps
<1>5. ASSUME NEW t \in Tab, Send(t) PROVE SessionInv'
  <2>1. UNCHANGED <<issued, expired, storage, refreshing, signed, spoiled>>
    BY <1>5 DEF Send
  <2> QED
    BY <2>1 DEF SessionInv, SessionTypeOK, KeptUp, SignedIn, SignedOut, Asking,
     Stored, Busy, Valid
<1>6. ASSUME NEW t \in Tab, Refused(t) PROVE SessionInv'
  BY <1>6, RefusedKeeps
<1>7. ASSUME NEW t \in Tab, RefreshTokens(t) PROVE SessionInv'
  BY <1>7, RefreshKeeps
<1>8. ASSUME NEW t \in Tab, AnswerLost(t) \/ StoreTokens(t) \/ RemoveTokens(t)
      PROVE  SessionInv'
  BY <1>8, AnswersKeep
<1> QED
  BY <1>1, <1>2, <1>3, <1>4, <1>5, <1>6, <1>7, <1>8 DEF SessionNext

\* Who signed in stays signed in, and who signed out stays out (lib/api.ts,
\* auth.ts): for any browsers and tabs and any number of tokens.
THEOREM SignedInStays == SessionSpec => []SessionKept
<1>1. SessionInv => SessionKept
  <2> SUFFICES ASSUME SessionInv, NEW b \in Browser \ spoiled
               PROVE  IF b \in signed
                      THEN storage[b] # Empty
                           /\ (Busy(b) = {} => Valid(storage[b].refresh, issued))
                      ELSE storage[b] = Empty
    BY DEF SessionKept
  <2> QED
    BY DEF SessionInv, KeptUp, SignedIn, SignedOut, Stored, Empty
<1> QED
  BY <1>1, SessionStarts, SessionStep, PTL DEF SessionSpec

----------------------------------------------------------------------------
(* Reputation: ReputationFollows, for every set of trades between two      *)
(* users and of executions.                                                *)

RatingType ==
  [trade : PairTrade, rater : User, rated : Everyone, high : BOOLEAN, recent : BOOLEAN]
CountsType == SUBSET (PairTrade \X User)
HasCounted == {"flagged?", "flagA", "flagB", "rapid"}
FraudWork == [at : {"fraud"} \cup HasCounted, queue : {"fraud"}, trade : PairTrade]
RateWork == [at : {"rate", "recalculate"}, queue : {"none"}, trade : PairTrade, by : User,
             rated : Everyone]
ScoreWork == [at : {"snapshot", "publish"}, queue : {"none"}, trade : {"none"}, user : Everyone,
              counts : CountsType]
WorkType ==
  {NoWork} \cup [at : {"ratings"}, queue : {"ratings"}, trade : PairTrade]
    \cup FraudWork \cup RateWork \cup ScoreWork

ReputationTypeOK ==
  /\ completed \subseteq PairTrade
  /\ ratings \subseteq RatingType
  /\ snapshots \in [Everyone -> CountsType] /\ trust \in [Everyone -> CountsType]
  /\ work \in [Assessor -> WorkType]

----------------------------------------------------------------------------
(* The flags.                                                              *)

\* Every execution of a message has it to itself, and it is in the queue.
OneEach ==
  /\ \A h \in Assessor : work[h].queue # "none" =>
       /\ <<work[h].queue, work[h].trade>> \in queued
       /\ \A g \in Assessor \ {h} :
            <<work[g].queue, work[g].trade>> # <<work[h].queue, work[h].trade>>
  /\ \A queue, t : <<queue, t>> \in queued => t \in announced
  /\ completed \subseteq announced

\* The check of a trade has not counted yet.
Waits(t) ==
  /\ <<"fraud", t>> \in queued
  /\ \A h \in Assessor : work[h].queue = "fraud" /\ work[h].trade = t => work[h].at = "fraud"

Flagging(h) == work[h].at \in {"flagged?", "flagA", "flagB"}
BothFlagged == \A u \in User : Circular(u) \in flags

\* Where an execution is between the two flags, the first is there; and
\* where the first is, the second is, too, or about to be.
Paired ==
  ~halved =>
    /\ \A h \in Assessor : work[h].at = "flagB" => Circular(A(h)) \in flags
    /\ \A u \in User : Circular(u) \in flags =>
         BothFlagged \/ \E h \in Assessor : work[h].at = "flagB"

\* A check that counts before the trade has a row is early.
RowsFirst == early = {} => \A t \in announced \ completed : Waits(t)

\* Somebody has counted three trades, or will.
Noticed ==
  Cardinality(completed) >= 3 /\ early = {} /\ ~halved =>
    \/ BothFlagged
    \/ \E t \in completed : Waits(t)
    \/ \E h \in Assessor : Flagging(h)

FlagInv == OneEach /\ Paired /\ RowsFirst /\ Noticed

(* The scores.                                                             *)

Due(u) == {h \in Assessor : work[h].at = "recalculate" /\ work[h].rated = u}
Counts(u) == {<<r.trade, r.rater>> : r \in RatingsOf(u)}

\* One score at a time, and the last one counts everything, as user-service
\* knows unless the message was lost.
ScoreOf(u) ==
  /\ \A g, h \in Scoring(u) : g = h
  /\ \A h \in Scoring(u) : work[h].at = "publish" => snapshots[u] = work[h].counts
  /\ Due(u) = {} => \A h \in Scoring(u) : work[h].counts = Counts(u)
  /\ Due(u) = {} /\ Scoring(u) = {} =>
       snapshots[u] = Counts(u) /\ (u \notin untold => trust[u] = snapshots[u])

ScoreInv == \A u \in Everyone \ mixed : ScoreOf(u)

ReputationInv == ReputationTypeOK /\ FlagInv /\ ScoreInv

----------------------------------------------------------------------------
LEMMA WorkShapes ==
  /\ NoWork \in WorkType /\ NoWork.at = "idle" /\ NoWork.queue = "none"
  /\ \A w \in WorkType :
       /\ w.at = "idle" <=> w = NoWork
       /\ w.at \in {"idle", "ratings", "fraud", "flagged?", "flagA", "flagB", "rapid",
                    "rate", "recalculate", "snapshot", "publish"}
       /\ w.at = "ratings" => w.queue = "ratings" /\ w.trade \in PairTrade
       /\ w.at \in {"fraud"} \cup HasCounted <=> w \in FraudWork
       /\ w.queue = "fraud" <=> w \in FraudWork
       /\ w \in FraudWork => w.trade \in PairTrade
       /\ w.at \in {"rate", "recalculate"} <=> w \in RateWork
       /\ w.at \in {"snapshot", "publish"} <=> w \in ScoreWork
       /\ w \in RateWork =>
            w.trade \in PairTrade /\ w.by \in User /\ w.rated \in Everyone /\ w.queue = "none"
       /\ w \in ScoreWork =>
            w.user \in Everyone /\ w.counts \in CountsType /\ w.queue = "none"
  BY DEF NoWork, WorkType, FraudWork, RateWork, ScoreWork, HasCounted

\* Of the two users, each is the other of the other.
LEMMA TwoUsersOnly ==
  /\ \A u \in User : Other(u) \in User /\ User = {u, Other(u)}
  /\ \A t \in PairTrade : PartyA(t) \in User
<1>1. ASSUME NEW u \in User PROVE Other(u) \in User /\ User = {u, Other(u)}
  <2>1. \E v \in User : v # u
    BY TwoParties
  <2>2. Other(u) \in User /\ Other(u) # u
    BY <2>1 DEF Other
  <2> QED
    BY <2>2, TwoParties
<1> QED
  BY <1>1, TwoParties

LEMMA ReputationStarts == ReputationInit => ReputationInv
<1> SUFFICES ASSUME ReputationInit PROVE ReputationInv
  OBVIOUS
<1>1. \A h \in Assessor : work[h] = NoWork /\ work[h].at = "idle" /\ work[h].queue = "none"
  BY WorkShapes DEF ReputationInit
<1>2. ReputationTypeOK
  BY WorkShapes DEF ReputationInit, ReputationTypeOK, CountsType
<1>3. OneEach /\ RowsFirst
  BY <1>1 DEF ReputationInit, OneEach, RowsFirst
<1>4. Paired
  BY <1>1 DEF ReputationInit, Paired
<1>5. Noticed
  <2>1. completed = {}
    BY DEF ReputationInit
  <2>2. ~(Cardinality(completed) >= 3)
    BY <2>1, FS_EmptySet
  <2> QED
    BY <2>2 DEF Noticed
<1>6. ScoreInv
  <2> SUFFICES ASSUME NEW u \in Everyone PROVE ScoreOf(u)
    BY DEF ScoreInv
  <2>1. Scoring(u) = {} /\ Counts(u) = {} /\ snapshots[u] = {} /\ trust[u] = {}
    BY <1>1 DEF ReputationInit, Scoring, Counts, RatingsOf
  <2> QED
    BY <2>1 DEF ScoreOf
<1> QED
  BY <1>2, <1>3, <1>4, <1>5, <1>6 DEF ReputationInv, FlagInv

\* A step of an execution that is not a check of three trades.
LEMMA BesideFlags ==
  ASSUME ReputationTypeOK, FlagInv, NEW h \in Assessor, NEW new \in WorkType,
         work' = [work EXCEPT ![h] = new],
         work[h].queue = "none", new.queue = "none",
         UNCHANGED <<announced, queued, completed, early>>, flags' = flags,
         halved' <=> halved
  PROVE  FlagInv'
<1>1. \A g \in Assessor : work'[g] = IF g = h THEN new ELSE work[g]
  BY DEF ReputationTypeOK
<1>2. /\ work[h] \in WorkType /\ work[h].at \notin {"fraud"} \cup HasCounted
      /\ new.at \notin {"fraud"} \cup HasCounted
  BY WorkShapes DEF ReputationTypeOK, FraudWork
<1>3. OneEach'
  BY <1>1 DEF FlagInv, OneEach
<1>4. ASSUME NEW t, Waits(t) PROVE Waits(t)'
  BY <1>1, <1>4 DEF Waits
<1>5. RowsFirst'
  BY <1>4 DEF FlagInv, RowsFirst
<1>6. BothFlagged' = BothFlagged /\ \A u : Circular(u)' = Circular(u)
  BY DEF BothFlagged, Circular, Other
<1>7. \A g \in Assessor : /\ Flagging(g)' = Flagging(g)
                          /\ work'[g].at = "flagB" <=> work[g].at = "flagB"
  BY <1>1, <1>2 DEF Flagging, HasCounted
<1>8. \A g \in Assessor : work'[g].at = "flagB" => A(g)' = A(g)
  BY <1>1, <1>2 DEF A, About, HasCounted
<1>9. Paired'
  BY <1>6, <1>7, <1>8 DEF FlagInv, Paired
<1>10. Noticed'
  BY <1>4, <1>6, <1>7 DEF FlagInv, Noticed
<1> QED
  BY <1>3, <1>5, <1>9, <1>10 DEF FlagInv

\* A step of an execution that is not a score.
LEMMA BesideScores ==
  ASSUME ReputationTypeOK, ScoreInv, NEW h \in Assessor, NEW new \in WorkType,
         work' = [work EXCEPT ![h] = new],
         work[h].at \notin {"recalculate", "snapshot", "publish"},
         new.at \notin {"recalculate", "snapshot", "publish"},
         UNCHANGED <<ratings, snapshots, trust, mixed, untold>>
  PROVE  ScoreInv'
<1> SUFFICES ASSUME NEW u \in Everyone \ mixed PROVE ScoreOf(u)'
  BY DEF ScoreInv
<1>1. \A g \in Assessor : work'[g] = IF g = h THEN new ELSE work[g]
  BY DEF ReputationTypeOK
<1>2. Scoring(u)' = Scoring(u) /\ Due(u)' = Due(u)
  BY <1>1 DEF Scoring, Due, Other
<1>3. Counts(u)' = Counts(u)
  BY DEF Counts, RatingsOf
<1>4. \A g \in Scoring(u) : work'[g] = work[g]
  BY <1>1 DEF Scoring
<1> QED
  BY <1>2, <1>3, <1>4 DEF ScoreInv, ScoreOf

----------------------------------------------------------------------------
(* The steps of the flags.                                                 *)

\* A check goes on.
LEMMA MoveAlong ==
  ASSUME ReputationTypeOK, OneEach, NEW h \in Assessor, NEW at \in HasCounted,
         work[h].at \in {"fraud"} \cup HasCounted, MoveTo(h, at),
         UNCHANGED <<announced, queued, completed>>
  PROVE  /\ work' \in [Assessor -> WorkType] /\ OneEach'
         /\ work'[h].at = at /\ \A g \in Assessor \ {h} : work'[g] = work[g]
         /\ \A g \in Assessor : work'[g].trade = work[g].trade
         /\ work[h].queue = "fraud" /\ work[h].trade \in PairTrade
         /\ \A t : Waits(t) /\ (work[h].at # "fraud" \/ t # work[h].trade) => Waits(t)'
<1> DEFINE new == [work[h] EXCEPT !.at = at]
<1>1. work[h] \in FraudWork /\ work \in [Assessor -> WorkType]
  BY WorkShapes DEF ReputationTypeOK
<1>2. /\ new \in WorkType /\ new.at = at /\ new.queue = "fraud"
      /\ new.trade = work[h].trade /\ work[h].queue = "fraud" /\ work[h].trade \in PairTrade
  BY <1>1 DEF FraudWork, WorkType
<1>3. work' = [work EXCEPT ![h] = new]
  BY DEF MoveTo
<1> HIDE DEF new
<1>4. \A g \in Assessor : work'[g] = IF g = h THEN new ELSE work[g]
  BY <1>1, <1>3
<1>5. work' \in [Assessor -> WorkType]
  BY <1>1, <1>2, <1>3
<1>6. OneEach'
  BY <1>2, <1>4 DEF OneEach
<1>7. ASSUME NEW t, Waits(t), work[h].at # "fraud" \/ t # work[h].trade PROVE Waits(t)'
  BY <1>2, <1>4, <1>7 DEF Waits
<1> QED
  BY <1>2, <1>4, <1>5, <1>6, <1>7

\* An execution ends, with its message acknowledged or not.
LEMMA EndOfMessage ==
  ASSUME ReputationTypeOK, OneEach, NEW h \in Assessor, work[h].queue # "none",
         work' = [work EXCEPT ![h] = NoWork], UNCHANGED announced,
         queued' \in {queued, queued \ {<<work[h].queue, work[h].trade>>}},
         completed' \subseteq announced
  PROVE  /\ work' \in [Assessor -> WorkType] /\ OneEach'
         /\ work'[h].at = "idle" /\ \A g \in Assessor \ {h} : work'[g] = work[g]
         /\ \A t : /\ Waits(t)
                   /\ queued' = queued \/ <<"fraud", t>> # <<work[h].queue, work[h].trade>>
                   => Waits(t)'
<1>1. \A g \in Assessor : work'[g] = IF g = h THEN NoWork ELSE work[g]
  BY DEF ReputationTypeOK
<1>2. work' \in [Assessor -> WorkType]
  BY WorkShapes DEF ReputationTypeOK
<1>3. OneEach'
  BY <1>1, WorkShapes DEF OneEach
<1>4. ASSUME NEW t, Waits(t),
             queued' = queued \/ <<"fraud", t>> # <<work[h].queue, work[h].trade>>
      PROVE  Waits(t)'
  BY <1>1, <1>4, WorkShapes DEF Waits
<1> QED
  BY <1>1, <1>2, <1>3, <1>4, WorkShapes

LEMMA TradeCompletedKeeps ==
  ASSUME ReputationInv, NEW t \in PairTrade, TradeCompleted(t)
  PROVE  FlagInv'
<1>1. /\ t \notin announced /\ announced' = announced \cup {t}
      /\ queued' = queued \cup {<<"ratings", t>>, <<"fraud", t>>}
      /\ UNCHANGED <<completed, flags, work, early, halved>>
  BY DEF TradeCompleted, reputationRows, history
<1>2. OneEach'
  BY <1>1 DEF ReputationInv, FlagInv, OneEach
<1>3. ASSUME NEW u, Waits(u) PROVE Waits(u)'
  BY <1>1, <1>3 DEF Waits
<1>4. Waits(t)'
  <2>1. ASSUME NEW h \in Assessor, work[h].queue = "fraud", work[h].trade = t PROVE FALSE
    BY <1>1, <2>1 DEF ReputationInv, FlagInv, OneEach
  <2> QED
    BY <1>1, <2>1 DEF Waits
<1>5. RowsFirst'
  BY <1>1, <1>3, <1>4 DEF ReputationInv, FlagInv, RowsFirst
<1>6. Paired'
  BY <1>1 DEF ReputationInv, FlagInv, Paired, BothFlagged, Circular, A, About
<1>7. Noticed'
  BY <1>1, <1>3 DEF ReputationInv, FlagInv, Noticed, BothFlagged, Circular, Flagging
<1> QED
  BY <1>2, <1>5, <1>6, <1>7 DEF FlagInv

LEMMA DeliverKeeps ==
  ASSUME ReputationInv, NEW h \in Assessor, NEW t \in PairTrade,
         NEW queue \in {"ratings", "fraud"}, Deliver(h, queue, t)
  PROVE  ReputationInv'
<1> DEFINE new == [at |-> queue, queue |-> queue, trade |-> t]
<1>1. /\ work[h] = NoWork /\ <<queue, t>> \in queued
      /\ \A g \in Assessor : <<work[g].queue, work[g].trade>> # <<queue, t>>
      /\ work' = [work EXCEPT ![h] = new]
      /\ UNCHANGED <<announced, queued, completed, ratings, snapshots, flags, trust,
                     early, mixed, untold, halved>>
      /\ work \in [Assessor -> WorkType]
  BY DEF Deliver, reputationRows, history, ReputationInv, ReputationTypeOK
<1>2. /\ new \in WorkType /\ new.at = queue /\ new.queue = queue /\ new.trade = t
      /\ new.at \notin {"recalculate", "snapshot", "publish"} \cup HasCounted
  BY DEF WorkType, FraudWork, HasCounted
<1> HIDE DEF new
<1>3. ReputationTypeOK' /\ ScoreInv'
  <2>1. ScoreInv'
    BY <1>1, <1>2, WorkShapes, BesideScores DEF ReputationInv
  <2> QED
    BY <1>1, <1>2, <2>1 DEF ReputationInv, ReputationTypeOK
<1>4. \A g \in Assessor : work'[g] = IF g = h THEN new ELSE work[g]
  BY <1>1
<1>5. OneEach'
  BY <1>1, <1>2, <1>4 DEF ReputationInv, FlagInv, OneEach
<1>6. ASSUME NEW u, Waits(u) PROVE Waits(u)'
  BY <1>1, <1>2, <1>4, <1>6 DEF Waits
<1>7. RowsFirst'
  BY <1>1, <1>6 DEF ReputationInv, FlagInv, RowsFirst
<1>8. \A g \in Assessor :
        /\ Flagging(g)' = Flagging(g)
        /\ work'[g].at = "flagB" <=> work[g].at = "flagB"
        /\ work'[g].at = "flagB" => A(g)' = A(g)
  BY <1>1, <1>2, <1>4, WorkShapes DEF Flagging, A, About, HasCounted
<1>9. BothFlagged' = BothFlagged /\ \A u : Circular(u)' = Circular(u)
  BY <1>1 DEF BothFlagged, Circular, Other
<1>10. Paired' /\ Noticed'
  BY <1>1, <1>6, <1>8, <1>9 DEF ReputationInv, FlagInv, Paired, Noticed
<1> QED
  BY <1>3, <1>5, <1>7, <1>10 DEF ReputationInv, FlagInv

LEMMA OpenRatingsKeeps ==
  ASSUME ReputationInv, NEW h \in Assessor, OpenRatings(h)
  PROVE  ReputationInv'
<1> DEFINE t == work[h].trade
<1>1. /\ work[h].at = "ratings" /\ work[h].queue = "ratings" /\ t \in PairTrade
      /\ completed' = completed \cup {t} /\ work' = [work EXCEPT ![h] = NoWork]
      /\ queued' = queued \ {<<"ratings", t>>}
      /\ UNCHANGED <<announced, ratings, snapshots, flags, trust, early, mixed, untold, halved>>
      /\ work \in [Assessor -> WorkType]
  BY WorkShapes DEF OpenRatings, Acknowledge, FinishWork, About, history,
     ReputationInv, ReputationTypeOK
<1>2. t \in announced /\ completed' \subseteq announced
  BY <1>1 DEF ReputationInv, FlagInv, OneEach
<1>3. /\ OneEach' /\ work' \in [Assessor -> WorkType]
      /\ work'[h].at = "idle" /\ \A g \in Assessor \ {h} : work'[g] = work[g]
      /\ \A u : Waits(u) => Waits(u)'
  BY <1>1, <1>2, EndOfMessage DEF ReputationInv, FlagInv
<1>4. ReputationTypeOK' /\ ScoreInv'
  <2>1. ScoreInv'
    BY <1>1, WorkShapes, BesideScores DEF ReputationInv
  <2> QED
    BY <1>1, <1>3, <2>1 DEF ReputationInv, ReputationTypeOK
<1>5. RowsFirst'
  BY <1>1, <1>3 DEF ReputationInv, FlagInv, RowsFirst
<1>6. \A g \in Assessor :
        /\ Flagging(g)' = Flagging(g)
        /\ work'[g].at = "flagB" <=> work[g].at = "flagB"
        /\ work'[g].at = "flagB" => A(g)' = A(g)
  BY <1>1, <1>3 DEF Flagging, A, About
<1>7. BothFlagged' = BothFlagged /\ \A u : Circular(u)' = Circular(u)
  BY <1>1 DEF BothFlagged, Circular, Other
<1>8. Paired'
  BY <1>1, <1>6, <1>7 DEF ReputationInv, FlagInv, Paired
<1>9. Noticed'
  <2>1. CASE t \in completed
    BY <1>1, <1>3, <1>6, <1>7, <2>1 DEF ReputationInv, FlagInv, Noticed
  <2>2. CASE t \notin completed
    BY <1>1, <1>2, <1>3, <2>2 DEF ReputationInv, FlagInv, RowsFirst, Noticed
  <2> QED
    BY <2>1, <2>2
<1> QED
  BY <1>3, <1>4, <1>5, <1>8, <1>9 DEF ReputationInv, FlagInv

\* What is counted, for a check that goes on, if nothing is counted early.
LEMMA CountedHasRow ==
  ASSUME ReputationInv, early = {}, NEW h \in Assessor, work[h].at \in HasCounted
  PROVE  work[h].trade \in completed
<1>1. work[h].queue = "fraud" /\ work[h].at # "fraud"
  BY WorkShapes DEF ReputationInv, ReputationTypeOK, HasCounted
<1>2. work[h].trade \in announced
  BY <1>1 DEF ReputationInv, FlagInv, OneEach
<1> QED
  BY <1>1, <1>2 DEF ReputationInv, FlagInv, RowsFirst, Waits

LEMMA ScoresBesideChecks ==
  ASSUME ReputationInv, NEW h \in Assessor, NEW at \in HasCounted,
         work[h].at \in {"fraud"} \cup HasCounted, MoveTo(h, at),
         UNCHANGED <<announced, queued, completed, ratings, snapshots, trust, mixed, untold>>
  PROVE  ReputationTypeOK' /\ ScoreInv'
<1> DEFINE new == [work[h] EXCEPT !.at = at]
<1>1. work[h] \in FraudWork
  BY WorkShapes DEF ReputationInv, ReputationTypeOK
<1>2. new \in WorkType /\ new.at = at
  BY <1>1 DEF FraudWork, WorkType
<1>3. work' = [work EXCEPT ![h] = new]
  BY DEF MoveTo
<1> HIDE DEF new
<1>4. ScoreInv'
  BY <1>2, <1>3, BesideScores DEF ReputationInv, HasCounted
<1> QED
  BY <1>2, <1>3, <1>4 DEF ReputationInv, ReputationTypeOK

LEMMA CountTradesKeeps ==
  ASSUME ReputationInv, NEW h \in Assessor, CountTrades(h)
  PROVE  ReputationInv'
<1> DEFINE t == work[h].trade
           at == IF Cardinality(completed) >= 3 THEN "flagged?" ELSE "rapid"
<1>1. /\ work[h].at = "fraud" /\ MoveTo(h, at) /\ at \in HasCounted
      /\ early' = IF t \in completed THEN early ELSE early \cup {t}
      /\ UNCHANGED <<announced, queued, completed, ratings, snapshots, flags, trust,
                     mixed, untold, halved>>
  BY DEF CountTrades, About, reputationRows, HasCounted
<1>2. ReputationTypeOK' /\ ScoreInv'
  BY <1>1, ScoresBesideChecks
<1>3. /\ OneEach' /\ work'[h].at = at /\ \A g \in Assessor \ {h} : work'[g] = work[g]
      /\ \A u : Waits(u) /\ u # t => Waits(u)'
  BY <1>1, MoveAlong DEF ReputationInv, FlagInv
<1>4. RowsFirst'
  BY <1>1, <1>3 DEF ReputationInv, FlagInv, RowsFirst
<1>5. /\ BothFlagged' = BothFlagged /\ \A u : Circular(u)' = Circular(u)
      /\ \A g \in Assessor : /\ work'[g].at = "flagB" <=> work[g].at = "flagB"
                             /\ work'[g].at = "flagB" => A(g)' = A(g)
  BY <1>1, <1>3 DEF BothFlagged, Circular, Other, A, About
<1>6. Paired'
  BY <1>1, <1>5 DEF ReputationInv, FlagInv, Paired
<1>7. Noticed'
  BY <1>1, <1>3 DEF Noticed, Flagging
<1> QED
  BY <1>2, <1>3, <1>4, <1>6, <1>7 DEF ReputationInv, FlagInv

LEMMA FindFlagKeeps ==
  ASSUME ReputationInv, NEW h \in Assessor, FindFlag(h)
  PROVE  ReputationInv'
<1> DEFINE at == IF Circular(A(h)) \in flags THEN "rapid" ELSE "flagA"
<1>1. /\ work[h].at = "flagged?" /\ MoveTo(h, at) /\ at \in HasCounted
      /\ UNCHANGED <<announced, queued, completed, ratings, snapshots, flags, trust,
                     early, mixed, untold, halved>>
  BY DEF FindFlag, reputationRows, history, HasCounted
<1>2. ReputationTypeOK' /\ ScoreInv'
  BY <1>1, ScoresBesideChecks DEF HasCounted
<1>3. /\ OneEach' /\ work'[h].at = at /\ \A g \in Assessor \ {h} : work'[g] = work[g]
      /\ work[h].trade \in PairTrade /\ \A u : Waits(u) => Waits(u)'
  BY <1>1, MoveAlong DEF ReputationInv, FlagInv, HasCounted
<1>4. RowsFirst'
  BY <1>1, <1>3 DEF ReputationInv, FlagInv, RowsFirst
<1>5. /\ BothFlagged' = BothFlagged /\ \A u : Circular(u)' = Circular(u)
      /\ \A g \in Assessor : /\ work'[g].at = "flagB" <=> work[g].at = "flagB"
                             /\ work'[g].at = "flagB" => A(g)' = A(g)
  BY <1>1, <1>3 DEF BothFlagged, Circular, Other, A, About
<1>6. Paired'
  BY <1>1, <1>5 DEF ReputationInv, FlagInv, Paired
<1>7. Noticed'
  <2>1. CASE Circular(A(h)) \notin flags
    BY <1>3, <2>1 DEF Noticed, Flagging
  <2>2. CASE Circular(A(h)) \in flags
    <3>1. ~halved => BothFlagged \/ \E g \in Assessor : work[g].at = "flagB"
      BY <1>3, <2>2, TwoUsersOnly DEF ReputationInv, FlagInv, Paired, A, About
    <3> QED
      BY <1>1, <1>5, <3>1 DEF Noticed, Flagging
  <2> QED
    BY <2>1, <2>2
<1> QED
  BY <1>2, <1>3, <1>4, <1>6, <1>7 DEF ReputationInv, FlagInv

LEMMA SaveFlagKeeps ==
  ASSUME ReputationInv, NEW h \in Assessor, SaveFlag(h)
  PROVE  ReputationInv'
<1> DEFINE at == IF work[h].at = "flagA" THEN "flagB" ELSE "rapid"
           who == IF work[h].at = "flagA" THEN A(h) ELSE B(h)
<1>1. /\ work[h].at \in {"flagA", "flagB"} /\ MoveTo(h, at) /\ at \in HasCounted
      /\ flags' = flags \cup {Circular(who)}
      /\ UNCHANGED <<announced, queued, completed, ratings, snapshots, trust,
                     early, mixed, untold, halved>>
  BY DEF SaveFlag, history, HasCounted
<1>2. ReputationTypeOK' /\ ScoreInv'
  BY <1>1, ScoresBesideChecks DEF HasCounted
<1>3. /\ OneEach' /\ work'[h].at = at /\ \A g \in Assessor \ {h} : work'[g] = work[g]
      /\ \A g \in Assessor : work'[g].trade = work[g].trade
      /\ work[h].trade \in PairTrade /\ \A u : Waits(u) => Waits(u)'
  BY <1>1, MoveAlong DEF ReputationInv, FlagInv, HasCounted
<1>4. RowsFirst'
  BY <1>1, <1>3 DEF ReputationInv, FlagInv, RowsFirst
<1>5. /\ BothFlagged => BothFlagged' /\ \A u : Circular(u)' = Circular(u)
      /\ \A g \in Assessor : A(g)' = A(g)
  BY <1>1, <1>3 DEF BothFlagged, Circular, Other, A, About
<1>6. CASE work[h].at = "flagA"
  <2>1. at = "flagB" /\ who = A(h) /\ work'[h].at = "flagB"
    BY <1>3, <1>6
  <2>2. \A g \in Assessor : work'[g].at = "flagB" => g = h \/ work[g].at = "flagB"
    BY <1>3
  <2>3. Paired'
    BY <1>1, <1>5, <2>1, <2>2 DEF ReputationInv, FlagInv, Paired
  <2>4. Noticed'
    BY <2>1 DEF Noticed, Flagging
  <2> QED
    BY <1>2, <1>3, <1>4, <2>3, <2>4 DEF ReputationInv, FlagInv
<1>7. CASE work[h].at = "flagB"
  <2>1. who = B(h) /\ at = "rapid"
    BY <1>7
  <2>2. ~halved => BothFlagged'
    <3>1. ~halved => Circular(A(h)) \in flags
      BY <1>7 DEF ReputationInv, FlagInv, Paired
    <3>2. User = {A(h), B(h)}
      BY <1>3, TwoUsersOnly DEF A, B, About
    <3> QED
      BY <1>1, <1>5, <2>1, <3>1, <3>2 DEF BothFlagged
  <2>3. \A g \in Assessor : work'[g].at = "flagB" => work[g].at = "flagB"
    BY <1>3, <2>1
  <2>4. Paired' /\ Noticed'
    BY <1>1, <1>5, <2>2, <2>3 DEF ReputationInv, FlagInv, Paired, Noticed
  <2> QED
    BY <1>2, <1>3, <1>4, <2>4 DEF ReputationInv, FlagInv
<1> QED
  BY <1>1, <1>6, <1>7

LEMMA CheckRapidKeeps ==
  ASSUME ReputationInv, NEW h \in Assessor, CheckRapidRatingExchange(h)
  PROVE  ReputationInv'
<1> DEFINE t == work[h].trade
<1>1. /\ work[h].at = "rapid" /\ work[h].queue = "fraud"
      /\ work' = [work EXCEPT ![h] = NoWork] /\ queued' = queued \ {<<"fraud", t>>}
      /\ flags' \in {flags, flags \cup {Rapid(A(h), t)}}
      /\ UNCHANGED <<announced, completed, ratings, snapshots, trust, early, mixed, untold, halved>>
      /\ work \in [Assessor -> WorkType]
  BY WorkShapes DEF CheckRapidRatingExchange, Acknowledge, FinishWork, About, history,
     ReputationInv, ReputationTypeOK, HasCounted
<1>2. /\ OneEach' /\ work' \in [Assessor -> WorkType]
      /\ work'[h].at = "idle" /\ \A g \in Assessor \ {h} : work'[g] = work[g]
      /\ \A u : Waits(u) /\ u # t => Waits(u)'
  <2>1. completed' \subseteq announced
    BY <1>1 DEF ReputationInv, FlagInv, OneEach
  <2> QED
    BY <1>1, <2>1, EndOfMessage DEF ReputationInv, FlagInv
<1>3. ~Waits(t)
  BY <1>1 DEF Waits
<1>4. ReputationTypeOK' /\ ScoreInv'
  <2>1. ScoreInv'
    BY <1>1, WorkShapes, BesideScores DEF ReputationInv
  <2> QED
    BY <1>1, <1>2, <2>1 DEF ReputationInv, ReputationTypeOK
<1>5. RowsFirst'
  BY <1>1, <1>2, <1>3 DEF ReputationInv, FlagInv, RowsFirst
<1>6. \A u : Circular(u)' = Circular(u) /\ (Circular(u) \in flags' <=> Circular(u) \in flags)
  BY <1>1 DEF Circular, Rapid, Other
<1>7. BothFlagged' = BothFlagged
  BY <1>6 DEF BothFlagged
<1>8. \A g \in Assessor :
        /\ Flagging(g)' = Flagging(g)
        /\ work'[g].at = "flagB" <=> work[g].at = "flagB"
        /\ work'[g].at = "flagB" => A(g)' = A(g)
  BY <1>1, <1>2 DEF Flagging, A, About
<1>9. Paired'
  BY <1>1, <1>6, <1>7, <1>8 DEF ReputationInv, FlagInv, Paired
<1>10. Noticed'
  BY <1>1, <1>2, <1>3, <1>7, <1>8 DEF ReputationInv, FlagInv, Noticed
<1> QED
  BY <1>2, <1>4, <1>5, <1>9, <1>10 DEF ReputationInv, FlagInv

----------------------------------------------------------------------------
(* The steps of the scores, and those of nobody's message.                 *)

\* A step of an execution is nothing to the scores of another user.
LEMMA ScoresOfOthers ==
  ASSUME ReputationTypeOK, NEW h \in Assessor, NEW new, work' = [work EXCEPT ![h] = new],
         NEW u \in Everyone, ScoreOf(u), h \notin Scoring(u), h \notin Due(u),
         new.at \in {"snapshot", "publish"} => new.user # u,
         new.at = "recalculate" => new.rated # u, u \in untold' <=> u \in untold,
         Counts(u)' = Counts(u), snapshots'[u] = snapshots[u], trust'[u] = trust[u]
  PROVE  ScoreOf(u)'
<1>1. \A g \in Assessor : work'[g] = IF g = h THEN new ELSE work[g]
  BY DEF ReputationTypeOK
<1>2. Scoring(u)' = Scoring(u)
  BY <1>1 DEF Scoring
<1>3. Due(u)' = Due(u)
  BY <1>1 DEF Due, Other
<1>4. \A g \in Scoring(u) : work'[g] = work[g]
  BY <1>1 DEF Scoring
<1> QED
  BY <1>2, <1>3, <1>4 DEF ScoreOf

LEMMA CountsAreTyped ==
  ASSUME ReputationTypeOK, NEW u \in Everyone PROVE Counts(u) \in CountsType
<1>1. \A r \in ratings : r.trade \in PairTrade /\ r.rater \in User
  BY DEF ReputationTypeOK, RatingType
<1> QED
  BY <1>1 DEF Counts, RatingsOf, CountsType

LEMMA SubmitRatingKeeps ==
  ASSUME ReputationInv, NEW h \in Assessor, NEW t \in PairTrade, NEW u \in User,
         NEW v \in Everyone, SubmitRating(h, t, u, v)
  PROVE  ReputationInv'
<1> DEFINE new == [at |-> "rate", queue |-> "none", trade |-> t, by |-> u,
                   rated |-> v]
<1>1. /\ work[h] = NoWork /\ work' = [work EXCEPT ![h] = new]
      /\ UNCHANGED <<announced, queued, completed, ratings, snapshots, flags, trust,
                     early, mixed, untold, halved>>
  BY DEF SubmitRating, reputationRows, history
<1>2. new \in WorkType /\ new.at = "rate" /\ new.queue = "none"
  BY DEF WorkType, RateWork
<1> HIDE DEF new
<1>3. work[h].at = "idle" /\ work[h].queue = "none"
  BY <1>1, WorkShapes
<1>4. ReputationTypeOK'
  BY <1>1, <1>2 DEF ReputationInv, ReputationTypeOK
<1>5. FlagInv'
  BY <1>1, <1>2, <1>3, BesideFlags DEF ReputationInv
<1>6. ScoreInv'
  BY <1>1, <1>2, <1>3, BesideScores DEF ReputationInv
<1> QED
  BY <1>4, <1>5, <1>6 DEF ReputationInv

LEMMA InsertRatingKeeps ==
  ASSUME ReputationInv, NEW h \in Assessor, NEW high \in BOOLEAN, InsertRating(h, high)
  PROVE  ReputationInv'
<1> DEFINE j == work[h]
           v == j.rated
           row == [trade |-> j.trade, rater |-> j.by, rated |-> v, high |-> high,
                   recent |-> TRUE]
           new == [j EXCEPT !.at = "recalculate"]
<1>1. /\ j.at = "rate" /\ j \in RateWork /\ j.queue = "none" /\ j.trade \in PairTrade
      /\ j.by \in User /\ v \in Everyone
      /\ UNCHANGED <<announced, queued, completed, snapshots, flags, trust,
                     early, mixed, untold, halved>>
  BY WorkShapes DEF InsertRating, history, ReputationInv, ReputationTypeOK
<1>2. CASE RatedBy(j.trade, j.by)
  <2>1. work' = [work EXCEPT ![h] = NoWork] /\ ratings' = ratings
    BY <1>2 DEF InsertRating, FinishWork
  <2>2. ReputationTypeOK'
    BY <1>1, <2>1, WorkShapes DEF ReputationInv, ReputationTypeOK
  <2>3. FlagInv'
    BY <1>1, <2>1, WorkShapes, BesideFlags DEF ReputationInv
  <2>4. ScoreInv'
    BY <1>1, <2>1, WorkShapes, BesideScores DEF ReputationInv
  <2> QED
    BY <2>2, <2>3, <2>4 DEF ReputationInv
<1>3. CASE ~RatedBy(j.trade, j.by)
  <2>1. work' = [work EXCEPT ![h] = new] /\ ratings' = ratings \cup {row}
    BY <1>3 DEF InsertRating, MoveTo
  <2>2. new \in WorkType /\ new.at = "recalculate" /\ new.queue = "none" /\ new.rated = v
    BY <1>1 DEF WorkType, RateWork
  <2>3. row \in RatingType /\ row.rated = v
    BY <1>1 DEF RatingType
  <2> HIDE DEF new, row
  <2>4. ReputationTypeOK'
    BY <1>1, <2>1, <2>2, <2>3 DEF ReputationInv, ReputationTypeOK
  <2>5. FlagInv'
    BY <1>1, <2>1, <2>2, BesideFlags DEF ReputationInv
  <2>6. ASSUME NEW u \in Everyone \ mixed PROVE ScoreOf(u)'
    <3>1. ScoreOf(u) /\ h \notin Scoring(u) /\ h \notin Due(u)
      BY <1>1 DEF ReputationInv, ScoreInv, Scoring, Due
    <3>2. CASE u # v
      <4>1. Counts(u)' = Counts(u)
        BY <2>1, <2>3, <3>2 DEF Counts, RatingsOf
      <4> QED
        BY <1>1, <2>1, <2>2, <3>1, <3>2, <4>1, ScoresOfOthers DEF ReputationInv
    <3>3. CASE u = v
      <4>1. \A g \in Assessor : work'[g] = IF g = h THEN new ELSE work[g]
        BY <2>1 DEF ReputationInv, ReputationTypeOK
      <4>2. h \in Due(u)'
        BY <2>2, <3>3, <4>1 DEF Due, Other
      <4>3. Scoring(u)' = Scoring(u) /\ \A g \in Scoring(u) : work'[g] = work[g]
        BY <1>1, <2>2, <4>1 DEF Scoring
      <4> QED
        BY <1>1, <3>1, <4>2, <4>3 DEF ScoreOf
    <3> QED
      BY <3>2, <3>3
  <2>7. ScoreInv'
    BY <1>1, <2>6 DEF ScoreInv
  <2> QED
    BY <2>4, <2>5, <2>7 DEF ReputationInv
<1> QED
  BY <1>2, <1>3

LEMMA RecalculateKeeps ==
  ASSUME ReputationInv, NEW h \in Assessor, Recalculate(h)
  PROVE  ReputationInv'
<1> DEFINE v == work[h].rated
           new == Score(v, Counts(v))
<1>1. /\ work[h].at = "recalculate" /\ work[h].queue = "none" /\ v \in Everyone
      /\ work' = [work EXCEPT ![h] = new]
      /\ mixed' = IF Scoring(v) = {} THEN mixed \ {v} ELSE mixed \cup {v}
      /\ UNCHANGED <<announced, queued, completed, ratings, snapshots, flags, trust,
                     early, untold, halved>>
  BY WorkShapes DEF Recalculate, Counts, reputationRows, ReputationInv,
     ReputationTypeOK
<1>2. /\ new \in WorkType /\ new.at = "snapshot" /\ new.queue = "none" /\ new.user = v
      /\ new.counts = Counts(v)
  BY <1>1, CountsAreTyped DEF Score, WorkType, ScoreWork, ReputationInv
<1> HIDE DEF new
<1>3. ReputationTypeOK'
  BY <1>1, <1>2 DEF ReputationInv, ReputationTypeOK
<1>4. FlagInv'
  BY <1>1, <1>2, BesideFlags DEF ReputationInv
<1>5. ASSUME NEW u \in Everyone \ mixed' PROVE ScoreOf(u)'
  <2>1. h \notin Scoring(u) /\ Counts(u)' = Counts(u)
    BY <1>1 DEF Scoring, Counts, RatingsOf
  <2>2. CASE u # v
    <3>1. ScoreOf(u) /\ h \notin Due(u)
      BY <1>1, <1>5, <2>2 DEF ReputationInv, ScoreInv, Due
    <3> QED
      BY <1>1, <1>2, <2>1, <2>2, <3>1, ScoresOfOthers DEF ReputationInv
  <2>3. CASE u = v
    <3>1. Scoring(u) = {}
      BY <1>1, <1>5, <2>3
    <3>2. \A g \in Assessor : work'[g] = IF g = h THEN new ELSE work[g]
      BY <1>1 DEF ReputationInv, ReputationTypeOK
    <3>3. Scoring(u)' = {h}
      BY <1>2, <2>3, <3>1, <3>2 DEF Scoring
    <3>4. work'[h].at = "snapshot" /\ work'[h].counts = Counts(u)
      BY <1>2, <2>3, <3>2
    <3> QED
      BY <2>1, <3>3, <3>4 DEF ScoreOf
  <2> QED
    BY <2>2, <2>3
<1> QED
  BY <1>3, <1>4, <1>5 DEF ReputationInv, ScoreInv

LEMMA SaveSnapshotKeeps ==
  ASSUME ReputationInv, NEW h \in Assessor, SaveSnapshot(h)
  PROVE  ReputationInv'
<1> DEFINE v == work[h].user
           new == [work[h] EXCEPT !.at = "publish"]
<1>1. /\ work[h].at = "snapshot" /\ work[h] \in ScoreWork /\ work[h].queue = "none"
      /\ v \in Everyone /\ work[h].counts \in CountsType
      /\ work' = [work EXCEPT ![h] = new]
      /\ snapshots' = [snapshots EXCEPT ![v] = work[h].counts]
      /\ UNCHANGED <<announced, queued, completed, ratings, flags, trust,
                     early, mixed, untold, halved>>
  BY WorkShapes DEF SaveSnapshot, MoveTo, history, ReputationInv, ReputationTypeOK
<1>2. /\ new \in WorkType /\ new.at = "publish" /\ new.queue = "none" /\ new.user = v
      /\ new.counts = work[h].counts
  BY <1>1 DEF WorkType, ScoreWork
<1> HIDE DEF new
<1>3. ReputationTypeOK'
  BY <1>1, <1>2 DEF ReputationInv, ReputationTypeOK
<1>4. FlagInv'
  BY <1>1, <1>2, BesideFlags DEF ReputationInv
<1>5. ASSUME NEW u \in Everyone \ mixed PROVE ScoreOf(u)'
  <2>1. ScoreOf(u) /\ h \notin Due(u) /\ Counts(u)' = Counts(u)
    BY <1>1, <1>5 DEF ReputationInv, ScoreInv, Due, Counts, RatingsOf
  <2>2. CASE u # v
    <3>1. h \notin Scoring(u) /\ snapshots'[u] = snapshots[u]
      BY <1>1, <2>2 DEF Scoring, ReputationInv, ReputationTypeOK
    <3> QED
      BY <1>1, <1>2, <2>1, <2>2, <3>1, ScoresOfOthers DEF ReputationInv
  <2>3. CASE u = v
    <3>1. h \in Scoring(u) /\ \A g \in Scoring(u) : g = h
      BY <1>1, <2>1, <2>3 DEF Scoring, ScoreOf
    <3>2. \A g \in Assessor : work'[g] = IF g = h THEN new ELSE work[g]
      BY <1>1 DEF ReputationInv, ReputationTypeOK
    <3>3. Scoring(u)' = {h}
      BY <1>2, <2>3, <3>1, <3>2 DEF Scoring
    <3>4. Due(u)' = Due(u)
      BY <1>1, <1>2, <3>2 DEF Due, Other
    <3>5. snapshots'[u] = work'[h].counts
      BY <1>1, <1>2, <2>3, <3>2 DEF ReputationInv, ReputationTypeOK
    <3>6. Due(u) = {} => work'[h].counts = Counts(u)
      BY <1>2, <2>1, <3>1, <3>2 DEF ScoreOf
    <3> QED
      BY <2>1, <3>3, <3>4, <3>5, <3>6 DEF ScoreOf
  <2> QED
    BY <2>2, <2>3
<1> QED
  BY <1>1, <1>3, <1>4, <1>5 DEF ReputationInv, ScoreInv

\* The end of a score, which is told or lost.
LEMMA ScoreEnds ==
  ASSUME ReputationInv, NEW h \in Assessor, work[h].at = "publish",
         work' = [work EXCEPT ![h] = NoWork], UNCHANGED <<ratings, snapshots, mixed>>,
         \A u \in Everyone \ {work[h].user} :
           trust'[u] = trust[u] /\ (u \in untold' <=> u \in untold),
         work[h].user \notin untold' => trust'[work[h].user] = work[h].counts
  PROVE  ScoreInv'
<1> DEFINE v == work[h].user
<1>1. ASSUME NEW u \in Everyone \ mixed PROVE ScoreOf(u)'
  <2>1. ScoreOf(u) /\ h \notin Due(u) /\ Counts(u)' = Counts(u)
    BY <1>1 DEF ReputationInv, ScoreInv, Due, Counts, RatingsOf
  <2>2. CASE u # v
    <3>1. h \notin Scoring(u)
      BY <2>2 DEF Scoring
    <3> QED
      BY <2>1, <2>2, <3>1, WorkShapes, ScoresOfOthers DEF ReputationInv
  <2>3. CASE u = v
    <3>1. h \in Scoring(u) /\ \A g \in Scoring(u) : g = h
      BY <2>1, <2>3 DEF Scoring, ScoreOf
    <3>2. \A g \in Assessor : work'[g] = IF g = h THEN NoWork ELSE work[g]
      BY DEF ReputationInv, ReputationTypeOK
    <3>3. Scoring(u)' = {}
      BY <3>1, <3>2, WorkShapes DEF Scoring
    <3>4. Due(u)' = Due(u)
      BY <3>2, WorkShapes DEF Due
    <3>5. snapshots[u] = work[h].counts /\ (Due(u) = {} => work[h].counts = Counts(u))
      BY <2>1, <3>1 DEF ScoreOf
    <3> QED
      BY <2>1, <2>3, <3>3, <3>4, <3>5 DEF ScoreOf
  <2> QED
    BY <2>2, <2>3
<1> QED
  BY <1>1 DEF ScoreInv

LEMMA PublishScoreKeeps ==
  ASSUME ReputationInv, NEW h \in Assessor, PublishScore(h) \/ LoseScore(h)
  PROVE  ReputationInv'
<1> DEFINE v == work[h].user
<1>1. /\ work[h].at = "publish" /\ work[h].queue = "none"
      /\ v \in Everyone /\ work[h].counts \in CountsType
      /\ work' = [work EXCEPT ![h] = NoWork]
      /\ UNCHANGED <<announced, queued, completed, ratings, flags, snapshots,
                     early, mixed, halved>>
  BY WorkShapes DEF PublishScore, LoseScore, FinishWork, reputationRows, ReputationInv,
     ReputationTypeOK
<1>2. \/ trust' = [trust EXCEPT ![v] = work[h].counts] /\ untold' = untold \ {v}
      \/ trust' = trust /\ untold' = untold \cup {v}
  BY DEF PublishScore, LoseScore
<1>3. trust \in [Everyone -> CountsType]
  BY DEF ReputationInv, ReputationTypeOK
<1>4. ReputationTypeOK'
  BY <1>1, <1>2, WorkShapes DEF ReputationInv, ReputationTypeOK
<1>5. FlagInv'
  BY <1>1, WorkShapes, BesideFlags DEF ReputationInv
<1>6. ScoreInv'
  BY <1>1, <1>2, <1>3, ScoreEnds
<1> QED
  BY <1>4, <1>5, <1>6 DEF ReputationInv

LEMMA AssessorDiesKeeps ==
  ASSUME ReputationInv, NEW h \in Assessor, AssessorDies(h)
  PROVE  ReputationInv'
<1>1. /\ work' = [work EXCEPT ![h] = NoWork]
      /\ halved' = (halved \/ work[h].at = "flagB")
      /\ UNCHANGED <<announced, queued, completed, ratings, snapshots, flags, trust, early>>
      /\ work \in [Assessor -> WorkType]
  BY DEF AssessorDies, FinishWork, reputationRows, ReputationInv, ReputationTypeOK
<1>2. ReputationTypeOK'
  BY <1>1, WorkShapes DEF ReputationInv, ReputationTypeOK
<1>3. ASSUME work[h].queue = "none" PROVE FlagInv'
  <2>1. work[h].at # "flagB"
    BY <1>1, <1>3, WorkShapes DEF HasCounted, FraudWork
  <2>2. halved' <=> halved
    BY <1>1, <2>1
  <2>3. FlagInv'
    BY <1>1, <1>3, <2>2, WorkShapes, BesideFlags DEF ReputationInv
  <2> QED
    BY <2>3
<1>4. ASSUME work[h].queue # "none" PROVE FlagInv'
  <2>1. completed' \subseteq announced
    BY <1>1 DEF ReputationInv, FlagInv, OneEach
  <2>2. /\ OneEach' /\ work'[h].at = "idle" /\ \A g \in Assessor \ {h} : work'[g] = work[g]
        /\ \A u : Waits(u) => Waits(u)'
    BY <1>1, <1>4, <2>1, EndOfMessage DEF ReputationInv, FlagInv
  <2>3. RowsFirst'
    BY <1>1, <2>2 DEF ReputationInv, FlagInv, RowsFirst
  <2>4. /\ BothFlagged' = BothFlagged /\ \A u : Circular(u)' = Circular(u)
        /\ \A g \in Assessor \ {h} : Flagging(g)' = Flagging(g) /\ A(g)' = A(g)
    BY <1>1, <2>2 DEF BothFlagged, Circular, Other, Flagging, A, About
  <2>5. Paired'
    <3>1. SUFFICES ASSUME ~halved' PROVE Paired'
      BY DEF Paired
    <3>2. ~halved /\ work[h].at # "flagB"
      BY <1>1, <3>1
    <3> QED
      BY <1>1, <2>2, <2>4, <3>2 DEF ReputationInv, FlagInv, Paired
  <2>6. ASSUME early = {}, ~halved', Flagging(h)
        PROVE  \E t \in completed : Waits(t)'
    <3>1. work[h].at \in HasCounted /\ work[h].queue = "fraud"
      BY <1>1, <2>6, WorkShapes DEF Flagging, HasCounted
    <3>2. work[h].trade \in completed
      BY <2>6, <3>1, CountedHasRow
    <3>3. /\ <<"fraud", work[h].trade>> \in queued
          /\ \A g \in Assessor \ {h} : work[g].queue = "fraud" => work[g].trade # work[h].trade
      BY <3>1 DEF ReputationInv, FlagInv, OneEach
    <3>4. work'[h].queue = "none"
      BY <1>1, WorkShapes
    <3>5. ASSUME NEW t, t = work[h].trade PROVE Waits(t)'
      BY <1>1, <2>2, <3>3, <3>4, <3>5 DEF Waits
    <3> QED
      BY <3>2, <3>5
  <2>7. Noticed'
    <3>1. SUFFICES ASSUME Cardinality(completed) >= 3, early = {}, ~halved' PROVE Noticed'
      BY <1>1 DEF Noticed
    <3>2. ~halved
      BY <1>1, <3>1
    <3> QED
      BY <1>1, <2>2, <2>4, <2>6, <3>1, <3>2 DEF ReputationInv, FlagInv, Noticed
  <2> QED
    BY <2>2, <2>3, <2>5, <2>7 DEF FlagInv
<1>5. CASE work[h].at = "publish"
  <2>1. mixed' = mixed /\ untold' = untold \cup {work[h].user}
    BY <1>5 DEF AssessorDies
  <2>2. ScoreInv'
    BY <1>1, <1>5, <2>1, ScoreEnds
  <2> QED
    BY <1>2, <1>3, <1>4, <2>2 DEF ReputationInv
<1>6. CASE work[h].at # "publish"
  <2>1. ASSUME NEW u \in Everyone \ mixed' PROVE ScoreOf(u)'
    <3>1. /\ u \notin mixed /\ untold' = untold
          /\ work[h].at = "recalculate" => work[h].rated # u
          /\ work[h].at \in {"snapshot", "publish"} => work[h].user # u
      BY <1>6, <2>1 DEF AssessorDies
    <3>2. ScoreOf(u) /\ h \notin Scoring(u) /\ h \notin Due(u) /\ Counts(u)' = Counts(u)
      BY <1>1, <3>1 DEF ReputationInv, ScoreInv, Scoring, Due, Counts, RatingsOf
    <3> QED
      BY <1>1, <3>1, <3>2, WorkShapes, ScoresOfOthers DEF ReputationInv
  <2>2. ScoreInv'
    BY <2>1 DEF ScoreInv
  <2> QED
    BY <1>2, <1>3, <1>4, <2>2 DEF ReputationInv
<1> QED
  BY <1>5, <1>6

\* The scores, where nothing of theirs changes.
LEMMA ScoresStay ==
  ASSUME ScoreInv, UNCHANGED <<work, snapshots, trust, mixed, untold>>,
         \A u \in Everyone : Counts(u)' = Counts(u)
  PROVE  ScoreInv'
<1> SUFFICES ASSUME NEW u \in Everyone \ mixed PROVE ScoreOf(u)'
  BY DEF ScoreInv
<1>1. Scoring(u)' = Scoring(u) /\ Due(u)' = Due(u)
  BY DEF Scoring, Due, Other
<1> QED
  BY <1>1 DEF ScoreInv, ScoreOf

\* The flags, where nothing but other flags changes.
LEMMA FlagsStay ==
  ASSUME FlagInv, UNCHANGED <<announced, queued, completed, work, early, halved>>,
         \A u \in User : Circular(u) \in flags' <=> Circular(u) \in flags,
         \A t \in PairTrade : PartyA(t) \in User, ReputationTypeOK
  PROVE  FlagInv'
<1>1. OneEach' /\ RowsFirst'
  BY DEF FlagInv, OneEach, RowsFirst, Waits
<1>2. BothFlagged' = BothFlagged
  BY DEF BothFlagged, Circular, Other
<1>3. \A g \in Assessor : work[g].at = "flagB" => A(g) \in User
  BY WorkShapes DEF A, About, ReputationTypeOK, HasCounted
<1>4. Paired'
  BY <1>2, <1>3 DEF FlagInv, Paired, Circular, Other, A, About
<1>5. Noticed'
  BY <1>2 DEF FlagInv, Noticed, Waits, Flagging
<1> QED
  BY <1>1, <1>4, <1>5 DEF FlagInv

LEMMA ReportedKeeps ==
  ASSUME ReputationInv, NEW u \in User, NEW t \in PairTrade,
         NEW kind \in {"duplicate_proof", "ai_generated_image"}, Reported(u, kind, t)
  PROVE  ReputationInv'
<1>1. /\ flags' = flags \cup {<<u, kind, t>>}
      /\ UNCHANGED <<announced, queued, completed, ratings, snapshots, trust, work,
                     early, mixed, untold, halved>>
  BY DEF Reported, history
<1>2. \A x \in User : Circular(x) \in flags' <=> Circular(x) \in flags
  BY <1>1 DEF Circular
<1>3. ReputationTypeOK'
  BY <1>1 DEF ReputationInv, ReputationTypeOK
<1>4. FlagInv'
  BY <1>1, <1>2, TwoUsersOnly, FlagsStay DEF ReputationInv
<1>5. ScoreInv'
  BY <1>1, ScoresStay DEF ReputationInv, Counts, RatingsOf
<1> QED
  BY <1>3, <1>4, <1>5 DEF ReputationInv

LEMMA DeletedUserKeeps ==
  ASSUME ReputationInv, NEW u \in User, DeletedUser(u)
  PROVE  ReputationInv'
<1>1. /\ halved' = TRUE
      /\ UNCHANGED <<announced, queued, completed, ratings, snapshots, trust, work,
                     early, mixed, untold>>
  BY DEF DeletedUser
<1>2. ReputationTypeOK'
  BY <1>1 DEF ReputationInv, ReputationTypeOK
<1>3. OneEach' /\ RowsFirst'
  BY <1>1 DEF ReputationInv, FlagInv, OneEach, RowsFirst, Waits
<1>4. Paired' /\ Noticed'
  BY <1>1 DEF Paired, Noticed
<1>5. ScoreInv'
  BY <1>1, ScoresStay DEF ReputationInv, Counts, RatingsOf
<1> QED
  BY <1>2, <1>3, <1>4, <1>5 DEF ReputationInv, FlagInv

LEMMA ADayLaterKeeps == ASSUME ReputationInv, ADayLater PROVE ReputationInv'
<1> DEFINE old(r) == [r EXCEPT !.recent = FALSE]
<1>1. /\ ratings' = {old(r) : r \in ratings}
      /\ UNCHANGED <<announced, queued, completed, flags, snapshots, trust, work,
                     early, mixed, untold, halved>>
  BY DEF ADayLater, history
<1>2. \A r \in ratings : /\ old(r) \in RatingType /\ old(r).rated = r.rated
                         /\ old(r).trade = r.trade /\ old(r).rater = r.rater
  BY DEF ReputationInv, ReputationTypeOK, RatingType
<1> HIDE DEF old
<1>3. ReputationTypeOK'
  BY <1>1, <1>2 DEF ReputationInv, ReputationTypeOK
<1>4. ASSUME NEW u \in Everyone PROVE Counts(u)' = Counts(u)
  <2>1. \A r \in RatingsOf(u) : old(r) \in RatingsOf(u)'
    BY <1>1, <1>2 DEF RatingsOf
  <2>2. \A q \in RatingsOf(u)' : \E r \in RatingsOf(u) : q = old(r)
    BY <1>1, <1>2 DEF RatingsOf
  <2>3. RatingsOf(u) \subseteq ratings
    BY DEF RatingsOf
  <2> QED
    BY <1>2, <2>1, <2>2, <2>3 DEF Counts
<1>5. FlagInv'
  BY <1>1, TwoUsersOnly, FlagsStay DEF ReputationInv, Circular
<1>6. ScoreInv'
  BY <1>1, <1>4, ScoresStay DEF ReputationInv
<1> QED
  BY <1>3, <1>5, <1>6 DEF ReputationInv

----------------------------------------------------------------------------
LEMMA ReputationSteps ==
  ReputationInv /\ [ReputationNext]_reputationVars => ReputationInv'
<1> SUFFICES ASSUME ReputationInv, [ReputationNext]_reputationVars PROVE ReputationInv'
  OBVIOUS
<1>1. ASSUME NEW t \in PairTrade, TradeCompleted(t) PROVE ReputationInv'
  <2>1. UNCHANGED <<completed, ratings, snapshots, trust, work, mixed, untold>>
    BY <1>1 DEF TradeCompleted, reputationRows, history
  <2>2. ReputationTypeOK'
    BY <2>1 DEF ReputationInv, ReputationTypeOK
  <2>3. ScoreInv'
    BY <2>1, ScoresStay DEF ReputationInv, Counts, RatingsOf
  <2> QED
    BY <1>1, <2>2, <2>3, TradeCompletedKeeps DEF ReputationInv
<1>2. CASE FraudNext
  BY <1>1, <1>2, DeliverKeeps, OpenRatingsKeeps, CountTradesKeeps, FindFlagKeeps,
     SaveFlagKeeps, CheckRapidKeeps, AssessorDiesKeeps, DeletedUserKeeps DEF FraudNext
<1>3. CASE RatingNext
  BY <1>3, SubmitRatingKeeps, InsertRatingKeeps, RecalculateKeeps, SaveSnapshotKeeps,
     PublishScoreKeeps, AssessorDiesKeeps, ADayLaterKeeps, ReportedKeeps DEF RatingNext
<1>4. CASE UNCHANGED reputationVars
  <2>1. UNCHANGED <<announced, queued, completed, ratings, snapshots, flags, trust, work,
                    early, mixed, untold, halved>>
    BY <1>4 DEF reputationVars
  <2>2. ReputationTypeOK'
    BY <2>1 DEF ReputationInv, ReputationTypeOK
  <2>3. FlagInv'
    BY <2>1, TwoUsersOnly, FlagsStay DEF ReputationInv, Circular
  <2>4. ScoreInv'
    BY <2>1, ScoresStay DEF ReputationInv, Counts, RatingsOf
  <2> QED
    BY <2>2, <2>3, <2>4 DEF ReputationInv
<1> QED
  BY <1>2, <1>3, <1>4 DEF ReputationNext

LEMMA ReputationInvFollows == ReputationInv => ReputationFollows
<1> SUFFICES ASSUME ReputationInv, Quiet PROVE ReputationFollows
  BY DEF ReputationFollows, CircularIsFlagged, ScoreCountsRatings
<1>1. \A h \in Assessor : work[h].at = "idle"
  BY WorkShapes DEF Quiet
<1>2. CircularIsFlagged
  <2>1. \A t : ~Waits(t)
    BY DEF Quiet, Waits
  <2>2. \A h \in Assessor : ~Flagging(h)
    BY <1>1 DEF Flagging
  <2> QED
    BY <2>1, <2>2 DEF CircularIsFlagged, ReputationInv, FlagInv, Noticed, BothFlagged
<1>3. ScoreCountsRatings
  <2>1. \A u \in Everyone : Due(u) = {} /\ Scoring(u) = {}
    BY <1>1 DEF Due, Scoring
  <2> QED
    BY <2>1 DEF ScoreCountsRatings, ReputationInv, ScoreInv, ScoreOf, Counts
<1> QED
  BY <1>2, <1>3 DEF ReputationFollows

\* What reputation-service says of two users follows from their trades and
\* ratings (onModuleInit, submitRating): once the queues are empty and nothing
\* is running, a pair with three completed trades has a circular_trading flag
\* for each of them, unless a check counted a trade before its row was there
\* or died between the flags; and the last snapshot of each user, a party to
\* the trades or not, counts every rating of him, unless his last scores were
\* computed at once or died; and user-service was told of it, unless the
\* message was lost.
THEOREM ReputationIsEarned == ReputationSpec => []ReputationFollows
<1>1. ReputationSpec => []ReputationInv
  BY ReputationStarts, ReputationSteps, PTL DEF ReputationSpec
<1> QED
  BY <1>1, ReputationInvFollows, PTL

----------------------------------------------------------------------------
(* Profiles: UserDataRight, for every number of addresses, trades and      *)
(* executions.                                                             *)

AddressType == [id : Nat, default : BOOLEAN]
RowType == SUBSET (Nat \X Nat)
TradeNewsType == TradeKeys \X UserTrade
NewsType == {Registered, Deleted} \cup TradeNewsType
AddressJob == [at : OnAddresses, row : AddressType]
InsertJob == [at : {"insert"}, msg : {Registered}, row : RowType]
CountJob == [at : {"count"}, msg : TradeNewsType, row : RowType]
EditJob == [at : {"edit"}, row : RowType]
ForgetJob == [at : {"forget", "drop"}, msg : {Deleted}]
AckJob ==
  [at : {"ack"}, msg : NewsType] \cup [at : {"ack"}, msg : NewsType, row : RowType]
UserJobType ==
  {Unoccupied} \cup AddressJob \cup InsertJob \cup CountJob \cup EditJob \cup ForgetJob
    \cup AckJob

ProfilesTypeOK ==
  /\ profile \in RowType
  /\ addresses \subseteq AddressType /\ lastId \in Nat
  /\ userNews \subseteq NewsType /\ IsFiniteSet(userNews) /\ userQueue \subseteq userNews
  /\ userJobs \in [UserWorker -> UserJobType]
  /\ counted \subseteq TradeNewsType /\ counted \subseteq userNews
  /\ twice \in Nat \X Nat /\ swallowed \subseteq NewsType

----------------------------------------------------------------------------
(* Addresses.                                                              *)

\* The ids of rows have been given, each to one.
IdsGiven ==
  /\ \A a \in addresses : a.id # 0 /\ a.id <= lastId
  /\ \A a, b \in addresses : a.id = b.id => a = b
  /\ \A h \in UserWorker : userJobs[h].at \in OnAddresses => userJobs[h].row.id <= lastId

OneWrites ==
  \A g, h \in UserWorker :
    userJobs[g].at \in OnAddresses /\ userJobs[h].at \in OnAddresses => g = h

\* A row about to be stored as the default replaces the one there is, and so
\* does one about to be looked for; another row leaves the default alone.
Fits(job, S) ==
  LET D == {a \in S : a.default}
  IN /\ job.at \in {"save", "remove"} /\ job.row.default => \A a \in D : a.id = job.row.id
     /\ job.at = "promote" => D = {}
     /\ job.at = "clear" => job.row.default
     /\ job.at = "save" /\ ~job.row.default => S # {}
     /\ job.at = "remove" /\ ~job.row.default => \A a \in D : a.id # job.row.id

\* There will be a default.
Makes(job) == job.at = "promote" \/ (job.at = "save" /\ job.row.default)

DefaultInv ==
  ~beside =>
    /\ OneWrites
    /\ \A a, b \in Defaults : a = b
    /\ \A h \in UserWorker : Fits(userJobs[h], addresses)
    /\ \/ undefaulted \/ Defaults # {} \/ addresses = {}
       \/ \E h \in UserWorker : Makes(userJobs[h])

(* Messages.                                                               *)

Handled == userNews \ userQueue
CountedOf(key) == {m \in counted : m[1] = key}
CountsOf ==
  <<Cardinality(CountedOf("trade.initiated")) + twice[1],
    Cardinality(CountedOf("trade.completed")) + twice[2]>>

\* A message in the hands of an execution is in the queue, and in no others'.
InHands ==
  /\ userNews # {} => Registered \in userNews
  /\ \A h \in UserWorker : userJobs[h].at \in OnMessage =>
       /\ userJobs[h].msg \in userQueue
       /\ \A g \in UserWorker \ {h} :
            userJobs[g].at \in OnMessage => userJobs[g].msg # userJobs[h].msg

OneHandles ==
  \A g, h \in UserWorker :
    userJobs[g].at \in OnProfile /\ userJobs[h].at \in OnProfile => g = h

\* What is so of a message that is acknowledged, or about to be.
Obeyed(m) ==
  /\ m \in TradeNewsType => m \in counted \cup swallowed
  /\ m = Deleted => Registered \in Handled /\ (profile = {} \/ Deleted \in swallowed)

\* The copy of an execution is made of the profile as it still is.
CopyFits(job) ==
  /\ job.at = "insert" => job.row = IF profile = {} THEN {<<0, 0>>} ELSE {}
  /\ job.at = "count" => job.row = {More(job.msg[1], r) : r \in profile}
  /\ job.at = "edit" => job.row = profile
  /\ job.at \in {"forget", "drop"} => Registered \in Handled

CountInv ==
  /\ counted \cap swallowed = {}
  /\ ~unsettled =>
       /\ OneHandles
       /\ profile = {} /\ Registered \notin Handled => counted = {} /\ twice = <<0, 0>>
       /\ profile # {} => profile = {CountsOf}
       /\ \A m \in Handled : Obeyed(m)
       /\ \A h \in UserWorker : userJobs[h].at = "ack" => Obeyed(userJobs[h].msg)
       /\ \A h \in UserWorker : CopyFits(userJobs[h])

AddressInv == IdsGiven /\ DefaultInv
MessageInv == InHands /\ CountInv
ProfilesInv == ProfilesTypeOK /\ AddressInv /\ MessageInv

----------------------------------------------------------------------------
LEMMA UserJobShapes ==
  /\ Unoccupied \in UserJobType /\ Unoccupied.at = "idle"
  /\ \A w \in UserJobType :
       /\ w.at \in OnAddresses <=> w \in AddressJob
       /\ w.at = "insert" <=> w \in InsertJob
       /\ w.at = "count" <=> w \in CountJob
       /\ w.at = "edit" <=> w \in EditJob
       /\ w.at \in {"forget", "drop"} <=> w \in ForgetJob
       /\ w.at = "ack" <=> w \in AckJob
       /\ w.at = "idle" <=> w = Unoccupied
       /\ w.at \in OnAddresses =>
            w.row \in AddressType /\ w.at \notin OnProfile /\ w.at \notin OnMessage
       /\ w.at \in OnMessage => w.msg \in NewsType
  BY DEF Unoccupied, UserJobType, AddressJob, InsertJob, CountJob, EditJob, ForgetJob, AckJob,
     OnAddresses, OnProfile, OnMessage, NewsType

LEMMA NewsShapes ==
  /\ Registered \notin TradeNewsType /\ Deleted \notin TradeNewsType /\ Registered # Deleted
  /\ \A m \in TradeNewsType : m[1] \in TradeKeys
  /\ Registered[1] \notin TradeKeys /\ Deleted[1] \notin TradeKeys
  BY DEF Registered, Deleted, TradeNewsType, TradeKeys

LEMMA ProfilesStarts == ProfilesInit => ProfilesInv
<1> SUFFICES ASSUME ProfilesInit PROVE ProfilesInv
  OBVIOUS
<1>1. \A h \in UserWorker : userJobs[h].at = "idle"
  BY UserJobShapes DEF ProfilesInit
<1>2. ProfilesTypeOK
  BY UserJobShapes, FS_EmptySet DEF ProfilesInit, ProfilesTypeOK, RowType
<1>3. Handled = {} /\ Defaults = {}
  BY DEF ProfilesInit, Handled, Defaults
<1>4. AddressInv
  BY <1>1, <1>3 DEF ProfilesInit, AddressInv, IdsGiven, DefaultInv, OneWrites, OnAddresses, Fits
<1>5. MessageInv
  BY <1>1, <1>3
  DEF ProfilesInit, MessageInv, InHands, CountInv, OneHandles, OnProfile, OnMessage, CopyFits
<1> QED
  BY <1>2, <1>4, <1>5 DEF ProfilesInv

\* A step that has nothing to do with addresses.
LEMMA AddressesBeside ==
  ASSUME AddressInv, UNCHANGED <<addresses, lastId, beside, undefaulted>>,
         \A g \in UserWorker :
           \/ userJobs'[g] = userJobs[g]
           \/ userJobs[g].at \notin OnAddresses /\ userJobs'[g].at \notin OnAddresses
  PROVE  AddressInv'
<1>1. \A g \in UserWorker :
        /\ userJobs'[g].at \in OnAddresses => userJobs'[g] = userJobs[g]
        /\ userJobs[g].at \in OnAddresses => userJobs'[g] = userJobs[g]
  OBVIOUS
<1>2. IdsGiven'
  BY <1>1 DEF AddressInv, IdsGiven
<1>3. Defaults' = Defaults
  BY DEF Defaults
<1>4. \A g \in UserWorker : Fits(userJobs[g], addresses) => Fits(userJobs'[g], addresses)
  BY <1>1 DEF Fits, OnAddresses
<1>5. \A g \in UserWorker : Makes(userJobs[g]) => Makes(userJobs'[g])
  BY <1>1 DEF Makes, OnAddresses
<1>6. OneWrites => OneWrites'
  BY <1>1 DEF OneWrites
<1>7. DefaultInv'
  BY <1>3, <1>4, <1>5, <1>6 DEF AddressInv, DefaultInv
<1> QED
  BY <1>2, <1>7 DEF AddressInv

\* A step that has nothing to do with the profile, or ends work on it.
LEMMA ProfileBeside ==
  ASSUME MessageInv,
         UNCHANGED <<profile, userQueue, userNews, unsettled, counted, twice, swallowed>>,
         \A g \in UserWorker :
           \/ userJobs'[g] = userJobs[g]
           \/ userJobs'[g].at \notin OnProfile /\ userJobs'[g].at \notin OnMessage
  PROVE  MessageInv'
<1>1. \A g \in UserWorker :
        userJobs'[g].at \in OnProfile \cup OnMessage => userJobs'[g] = userJobs[g]
  OBVIOUS
<1>2. InHands'
  BY <1>1 DEF MessageInv, InHands
<1>3. CountsOf' = CountsOf /\ Handled' = Handled
  BY DEF CountsOf, CountedOf, Handled
<1>4. \A m : Obeyed(m) => Obeyed(m)'
  BY <1>3 DEF Obeyed
<1>5. OneHandles => OneHandles'
  BY <1>1 DEF OneHandles
<1>6. \A g \in UserWorker : CopyFits(userJobs[g]) => CopyFits(userJobs[g])'
  BY <1>1, <1>3 DEF CopyFits, OnProfile, More
<1>7. ASSUME NEW g \in UserWorker, userJobs'[g].at = "ack", ~unsettled
      PROVE  Obeyed(userJobs[g].msg)'
  <2>1. userJobs'[g] = userJobs[g]
    BY <1>1, <1>7 DEF OnMessage
  <2>2. Obeyed(userJobs[g].msg)
    BY <1>7, <2>1 DEF MessageInv, CountInv
  <2> QED
    BY <1>3, <2>1, <2>2 DEF Obeyed
<1>8. CountInv'
  BY <1>3, <1>4, <1>5, <1>6, <1>7 DEF MessageInv, CountInv
<1> QED
  BY <1>2, <1>8 DEF MessageInv

----------------------------------------------------------------------------
(* The steps on addresses.                                                 *)

LEMMA StartJobKeeps ==
  ASSUME ProfilesInv, NEW h \in UserWorker, NEW job \in AddressJob, StartJob(h, job),
         job.row.id <= lastId, DefaultInv /\ ~beside => Fits(job, addresses)
  PROVE  ProfilesInv'
<1>1. /\ userJobs[h] = Unoccupied /\ userJobs' = [userJobs EXCEPT ![h] = job]
      /\ UNCHANGED <<profile, addresses, lastId, userQueue, userNews, undefaulted, unsettled,
                     counted, twice, swallowed>>
  BY DEF StartJob
<1>2. ~beside' => ~beside /\ \A g \in UserWorker : userJobs[g].at \notin OnAddresses
  BY DEF StartJob, Addressing
<1>3. \A g \in UserWorker : userJobs'[g] = IF g = h THEN job ELSE userJobs[g]
  BY <1>1 DEF ProfilesInv, ProfilesTypeOK
<1>4. /\ job \in UserJobType /\ job.at \in OnAddresses
      /\ job.at \notin OnProfile /\ job.at \notin OnMessage
  BY UserJobShapes DEF UserJobType
<1>5. ProfilesTypeOK'
  BY <1>1, <1>4 DEF ProfilesInv, ProfilesTypeOK
<1>6. IdsGiven'
  BY <1>1, <1>3 DEF ProfilesInv, AddressInv, IdsGiven
<1>7. DefaultInv'
  <2> SUFFICES ASSUME ~beside' PROVE DefaultInv'
    BY DEF DefaultInv
  <2>1. /\ DefaultInv /\ ~beside /\ Defaults' = Defaults
        /\ \A g \in UserWorker : userJobs[g].at \notin OnAddresses
    BY <1>1, <1>2 DEF Defaults, ProfilesInv, AddressInv
  <2>2. OneWrites'
    BY <1>3, <2>1 DEF OneWrites
  <2>3. \A g \in UserWorker : Fits(userJobs'[g], addresses')
    BY <1>1, <1>3, <2>1 DEF DefaultInv
  <2>4. \A g \in UserWorker : ~Makes(userJobs[g])
    BY <2>1 DEF Makes, OnAddresses
  <2> QED
    BY <1>1, <2>1, <2>2, <2>3, <2>4 DEF DefaultInv
<1>8. MessageInv'
  BY <1>1, <1>3, <1>4, ProfileBeside DEF ProfilesInv
<1> QED
  BY <1>5, <1>6, <1>7, <1>8 DEF ProfilesInv, AddressInv

LEMMA RequestsKeep ==
  ASSUME ProfilesInv, NEW h \in UserWorker,
         \/ \E default \in BOOLEAN :
              Create(h, default) \/ \E a \in addresses : Update(h, a, default)
         \/ \E a \in addresses : SetDefault(h, a) \/ RemoveAddress(h, a)
  PROVE  ProfilesInv'
<1>1. /\ \A a \in addresses : a \in AddressType /\ a.id <= lastId
      /\ \A a, b \in addresses : a.id = b.id => a = b
  BY DEF ProfilesInv, ProfilesTypeOK, AddressInv, IdsGiven
<1>2. lastId \in Nat /\ addresses \subseteq AddressType
  BY DEF ProfilesInv, ProfilesTypeOK
<1>3. DefaultInv /\ ~beside =>
        \A a, b \in addresses : a.default /\ b.default => a = b
  BY DEF DefaultInv, Defaults
<1>4. ASSUME NEW default \in BOOLEAN, Create(h, default) PROVE ProfilesInv'
  <2> DEFINE row == [id |-> 0, default |-> default \/ addresses = {}]
             job == [at |-> IF default THEN "clear" ELSE "save", row |-> row]
  <2>1. row \in AddressType /\ row.id = 0 /\ row.default = (default \/ addresses = {})
    BY DEF AddressType
  <2> HIDE DEF row
  <2>2. /\ job \in AddressJob /\ job.row = row
        /\ job.at = IF default THEN "clear" ELSE "save"
    BY <2>1 DEF AddressJob, OnAddresses
  <2>3. StartJob(h, job)
    BY <1>4 DEF Create, row
  <2> HIDE DEF job
  <2>4. Fits(job, addresses)
    BY <2>1, <2>2 DEF Fits
  <2> QED
    BY <1>2, <2>1, <2>2, <2>3, <2>4, StartJobKeeps
<1>5. ASSUME NEW default \in BOOLEAN, NEW a \in addresses, Update(h, a, default)
      PROVE  ProfilesInv'
  <2> DEFINE row == [a EXCEPT !.default = default]
             job == [at |-> IF default /\ ~a.default THEN "clear" ELSE "save", row |-> row]
  <2>1. row \in AddressType /\ row.id = a.id /\ row.default = default
    BY <1>1 DEF AddressType
  <2> HIDE DEF row
  <2>2. /\ job \in AddressJob /\ job.row = row
        /\ job.at = IF default /\ ~a.default THEN "clear" ELSE "save"
    BY <2>1 DEF AddressJob, OnAddresses
  <2>3. StartJob(h, job)
    BY <1>5 DEF Update, row
  <2> HIDE DEF job
  <2>4. DefaultInv /\ ~beside => Fits(job, addresses)
    BY <1>3, <2>1, <2>2 DEF Fits
  <2> QED
    BY <1>1, <2>1, <2>2, <2>3, <2>4, StartJobKeeps
<1>6. ASSUME NEW a \in addresses, SetDefault(h, a) PROVE ProfilesInv'
  <2> DEFINE row == [a EXCEPT !.default = TRUE]
             job == [at |-> "clear", row |-> row]
  <2>1. row \in AddressType /\ row.id = a.id /\ row.default
    BY <1>1 DEF AddressType
  <2> HIDE DEF row
  <2>2. job \in AddressJob /\ job.at = "clear" /\ job.row = row
    BY <2>1 DEF AddressJob, OnAddresses
  <2>3. StartJob(h, job)
    BY <1>6 DEF SetDefault, row
  <2> HIDE DEF job
  <2>4. Fits(job, addresses)
    BY <2>1, <2>2 DEF Fits
  <2> QED
    BY <1>1, <2>1, <2>2, <2>3, <2>4, StartJobKeeps
<1>7. ASSUME NEW a \in addresses, RemoveAddress(h, a) PROVE ProfilesInv'
  <2> DEFINE job == [at |-> "remove", row |-> a]
  <2>1. job \in AddressJob /\ job.at = "remove" /\ job.row = a
    BY <1>1 DEF AddressJob, OnAddresses
  <2>2. StartJob(h, job)
    BY <1>7 DEF RemoveAddress
  <2> HIDE DEF job
  <2>3. DefaultInv /\ ~beside => Fits(job, addresses)
    BY <1>1, <1>3, <2>1 DEF Fits
  <2> QED
    BY <1>1, <2>1, <2>2, <2>3, StartJobKeeps
<1> QED
  BY <1>4, <1>5, <1>6, <1>7

\* An execution on addresses goes on or ends.
AddressGoesOn(h, job) ==
  /\ userJobs[h].at \in OnAddresses
  /\ userJobs' = [userJobs EXCEPT ![h] = job]
  /\ addresses' \subseteq AddressType /\ lastId' \in Nat /\ lastId <= lastId'
  /\ \A a \in addresses' : a.id # 0 /\ a.id <= lastId'
  /\ \A a, b \in addresses' : a.id = b.id => a = b
  /\ job.at \in OnAddresses => job.row.id <= lastId
  /\ UNCHANGED <<profile, userQueue, userNews, beside, unsettled, counted, twice, swallowed>>
  /\ ~beside => /\ \A a, b \in addresses' : a.default /\ b.default => a = b
                /\ Fits(job, addresses')
                /\ \/ undefaulted' \/ addresses' = {} \/ Makes(job)
                   \/ \E a \in addresses' : a.default

LEMMA AddressStep ==
  ASSUME ProfilesInv, NEW h \in UserWorker, NEW job \in AddressJob \cup {Unoccupied},
         AddressGoesOn(h, job)
  PROVE  ProfilesInv'
<1> USE DEF AddressGoesOn
<1>1. \A g \in UserWorker : userJobs'[g] = IF g = h THEN job ELSE userJobs[g]
  BY DEF ProfilesInv, ProfilesTypeOK
<1>2. job \in UserJobType /\ job.at \notin OnProfile /\ job.at \notin OnMessage
  BY UserJobShapes DEF UserJobType, OnProfile, OnMessage
<1>3. ProfilesTypeOK'
  BY <1>2 DEF ProfilesInv, ProfilesTypeOK
<1>4. IdsGiven'
  <2>1. \A g \in UserWorker : userJobs[g].at \in OnAddresses => userJobs[g].row.id \in Nat
    BY UserJobShapes DEF ProfilesInv, ProfilesTypeOK, AddressType
  <2>2. job.at \in OnAddresses => job.row.id \in Nat
    BY <1>2, UserJobShapes DEF AddressType
  <2>3. lastId \in Nat
    BY DEF ProfilesInv, ProfilesTypeOK
  <2> QED
    BY <1>1, <2>1, <2>2, <2>3 DEF ProfilesInv, AddressInv, IdsGiven
<1>5. DefaultInv'
  <2>1. SUFFICES ASSUME ~beside PROVE DefaultInv'
    BY DEF DefaultInv
  <2>2. \A g \in UserWorker : g # h => userJobs[g].at \notin OnAddresses
    BY <2>1 DEF ProfilesInv, AddressInv, DefaultInv, OneWrites
  <2>3. \A g \in UserWorker : Fits(userJobs'[g], addresses')
    BY <1>1, <2>1, <2>2 DEF Fits, OnAddresses
  <2>4. OneWrites'
    BY <1>1, <2>2 DEF OneWrites
  <2>5. Makes(job) => \E g \in UserWorker : Makes(userJobs'[g])
    BY <1>1
  <2> QED
    BY <2>1, <2>3, <2>4, <2>5 DEF DefaultInv, Defaults
<1>6. MessageInv'
  BY <1>1, <1>2, ProfileBeside DEF ProfilesInv
<1> QED
  BY <1>3, <1>4, <1>5, <1>6 DEF ProfilesInv, AddressInv

LEMMA ClearKeeps ==
  ASSUME ProfilesInv, NEW h \in UserWorker, Clear(h) PROVE ProfilesInv'
<1> DEFINE job == [userJobs[h] EXCEPT !.at = "save"]
           cleared(a) == [a EXCEPT !.default = FALSE]
<1>1. /\ userJobs[h].at = "clear" /\ userJobs[h].at \in OnAddresses
      /\ userJobs' = [userJobs EXCEPT ![h] = job]
      /\ addresses' = {cleared(a) : a \in addresses}
      /\ UNCHANGED <<profile, lastId, userQueue, userNews, beside, unsettled, counted, twice,
                     swallowed>>
  BY DEF Clear, GoOn, Cleared, OnAddresses, userHistory
<1>2. userJobs[h] \in AddressJob /\ lastId \in Nat /\ userJobs[h].row.id <= lastId
  BY <1>1, UserJobShapes DEF ProfilesInv, ProfilesTypeOK, AddressInv, IdsGiven
<1>3. job \in AddressJob /\ job.at = "save" /\ job.row = userJobs[h].row
  BY <1>2 DEF AddressJob, OnAddresses
<1>4. \A a \in addresses : cleared(a) \in AddressType /\ cleared(a).id = a.id /\ ~cleared(a).default
  BY DEF AddressType, ProfilesInv, ProfilesTypeOK
<1>5. ~beside => job.row.default
  BY <1>1, <1>3 DEF ProfilesInv, AddressInv, DefaultInv, Fits
<1> HIDE DEF job, cleared
<1>6. /\ addresses' \subseteq AddressType /\ \A a \in addresses' : a.id # 0 /\ a.id <= lastId'
      /\ \A a, b \in addresses' : a.id = b.id => a = b
  BY <1>1, <1>4 DEF ProfilesInv, AddressInv, IdsGiven
<1>7. \A a \in addresses' : ~a.default
  BY <1>1, <1>4
<1>8. ~beside => Fits(job, addresses') /\ Makes(job)
  BY <1>3, <1>5, <1>7 DEF Fits, Makes
<1>9. job \in AddressJob \cup {Unoccupied} /\ job.row.id <= lastId
  BY <1>2, <1>3
<1>10. AddressGoesOn(h, job)
  BY <1>1, <1>2, <1>6, <1>7, <1>8, <1>9 DEF AddressGoesOn
<1> QED
  BY <1>9, <1>10, AddressStep

LEMMA SaveAddressKeeps ==
  ASSUME ProfilesInv, NEW h \in UserWorker, SaveAddress(h) PROVE ProfilesInv'
<1> DEFINE row == userJobs[h].row
           stored == IF row.id = 0 THEN [row EXCEPT !.id = lastId + 1] ELSE row
<1>1. /\ userJobs[h].at = "save" /\ userJobs[h].at \in OnAddresses
      /\ userJobs' = [userJobs EXCEPT ![h] = Unoccupied]
      /\ addresses' = (addresses \ WithId(stored.id)) \cup {stored}
      /\ lastId' = IF row.id = 0 THEN lastId + 1 ELSE lastId
      /\ undefaulted' = (~row.default /\ (undefaulted \/ Defaults \cap WithId(row.id) # {}))
      /\ UNCHANGED <<profile, userQueue, userNews, beside, unsettled, counted, twice, swallowed>>
  BY DEF SaveAddress, Store, FinishJob, OnAddresses
<1>2. row \in AddressType /\ lastId \in Nat /\ row.id <= lastId
  BY <1>1, UserJobShapes DEF ProfilesInv, ProfilesTypeOK, AddressInv, IdsGiven
<1>3. /\ stored \in AddressType /\ stored.id # 0 /\ stored.id <= lastId'
      /\ stored.default = row.default
      /\ row.id # 0 => stored.id = row.id
      /\ row.id = 0 => stored.id = lastId + 1
      /\ lastId' \in Nat /\ lastId <= lastId'
  BY <1>1, <1>2 DEF AddressType
<1> HIDE DEF stored
<1>4. \A a \in addresses : a \in AddressType /\ a.id \in Nat /\ a.id # 0 /\ a.id <= lastId
  BY DEF ProfilesInv, ProfilesTypeOK, AddressInv, IdsGiven, AddressType
<1>5. \A a \in addresses' : a = stored \/ (a \in addresses /\ a.id # stored.id)
  BY <1>1 DEF WithId
<1>6. \A a \in addresses : a.id # stored.id => a \in addresses'
  BY <1>1 DEF WithId
<1>7. /\ addresses' \subseteq AddressType
      /\ \A a \in addresses' : a.id # 0 /\ a.id <= lastId'
      /\ \A a, b \in addresses' : a.id = b.id => a = b
  <2>1. \A a \in addresses : a.id <= lastId'
    BY <1>2, <1>3, <1>4
  <2> QED
    BY <1>3, <1>4, <1>5, <2>1 DEF ProfilesInv, AddressInv, IdsGiven
<1>8. ASSUME ~beside
      PROVE  /\ \A a, b \in addresses' : a.default /\ b.default => a = b
             /\ undefaulted' \/ \E a \in addresses' : a.default
  <2>1. DefaultInv
    BY DEF ProfilesInv, AddressInv
  <2>2. CASE row.default
    <3>1. \A a \in addresses : a.default => a.id = row.id
      BY <1>1, <1>8, <2>1, <2>2 DEF DefaultInv, Fits
    <3> QED
      BY <1>1, <1>3, <1>4, <1>5, <2>2, <3>1
  <2>3. CASE ~row.default
    <3>1. addresses # {} /\ \A a, b \in addresses : a.default /\ b.default => a = b
      BY <1>1, <1>8, <2>1, <2>3 DEF DefaultInv, Fits, Defaults
    <3>2. \A g \in UserWorker : ~Makes(userJobs[g])
      BY <1>1, <1>8, <2>1, <2>3 DEF DefaultInv, OneWrites, Makes, OnAddresses
    <3>3. undefaulted \/ Defaults # {}
      BY <1>8, <2>1, <3>1, <3>2 DEF DefaultInv
    <3>4. ASSUME NEW a \in Defaults, ~undefaulted' PROVE a \in addresses'
      <4>1. a \in addresses /\ a.id # row.id
        BY <1>1, <2>3, <3>4 DEF Defaults, WithId
      <4>2. a.id # stored.id
        BY <1>2, <1>3, <1>4, <4>1
      <4> QED
        BY <1>6, <4>1, <4>2
    <3> QED
      BY <1>1, <1>3, <1>5, <2>3, <3>1, <3>3, <3>4 DEF Defaults
  <2> QED
    BY <2>2, <2>3
<1>9. Unoccupied.at = "idle" /\ Unoccupied.at \notin OnAddresses
  BY UserJobShapes DEF OnAddresses
<1>10. Fits(Unoccupied, addresses')
  BY <1>9 DEF Fits
<1>11. AddressGoesOn(h, Unoccupied)
  BY <1>1, <1>3, <1>7, <1>8, <1>9, <1>10 DEF AddressGoesOn
<1> QED
  BY <1>11, AddressStep

LEMMA DeleteKeeps ==
  ASSUME ProfilesInv, NEW h \in UserWorker, Delete(h) PROVE ProfilesInv'
<1> DEFINE row == userJobs[h].row
           promote == [userJobs[h] EXCEPT !.at = "promote"]
           job == IF row.default THEN promote ELSE Unoccupied
<1>1. /\ userJobs[h].at = "remove" /\ userJobs[h].at \in OnAddresses
      /\ userJobs' = [userJobs EXCEPT ![h] = job]
      /\ addresses' = addresses \ WithId(row.id)
      /\ UNCHANGED <<profile, lastId, userQueue, userNews, beside, undefaulted, unsettled,
                     counted, twice, swallowed>>
  BY DEF Delete, FinishJob, GoOn, OnAddresses, userHistory
<1>2. userJobs[h] \in AddressJob /\ lastId \in Nat /\ row.id <= lastId
  BY <1>1, UserJobShapes DEF ProfilesInv, ProfilesTypeOK, AddressInv, IdsGiven
<1>3. promote \in AddressJob /\ promote.at = "promote" /\ promote.row = row
  BY <1>2 DEF AddressJob, OnAddresses
<1>4. Unoccupied.at = "idle" /\ Unoccupied.at \notin OnAddresses
  BY UserJobShapes DEF OnAddresses
<1> HIDE DEF promote
<1>5. /\ job \in AddressJob \cup {Unoccupied} /\ (job.at = "promote" <=> row.default)
      /\ job.at \in {"idle", "promote"} /\ (job.at = "promote" => job.row = row)
  BY <1>3, <1>4, UserJobShapes
<1> HIDE DEF job
<1>6. /\ addresses' \subseteq AddressType /\ \A a \in addresses' : a.id # 0 /\ a.id <= lastId
      /\ \A a, b \in addresses' : a.id = b.id => a = b
  BY <1>1 DEF ProfilesInv, ProfilesTypeOK, AddressInv, IdsGiven
<1>7. ASSUME ~beside
      PROVE  /\ \A a, b \in addresses' : a.default /\ b.default => a = b
             /\ Fits(job, addresses')
             /\ \/ undefaulted' \/ addresses' = {} \/ Makes(job)
                \/ \E a \in addresses' : a.default
  <2>1. /\ \A a, b \in addresses : a.default /\ b.default => a = b
        /\ row.default => \A a \in addresses : a.default => a.id = row.id
        /\ ~row.default => \A a \in addresses : a.default => a.id # row.id
    BY <1>1, <1>7 DEF ProfilesInv, AddressInv, DefaultInv, Defaults, Fits
  <2>2. CASE row.default
    BY <1>1, <1>5, <2>1, <2>2 DEF Fits, Makes, WithId
  <2>3. CASE ~row.default
    <3>1. \A g \in UserWorker : ~Makes(userJobs[g])
      BY <1>1, <1>7 DEF ProfilesInv, AddressInv, DefaultInv, OneWrites, Makes, OnAddresses
    <3>2. undefaulted \/ Defaults # {} \/ addresses = {}
      BY <1>7, <3>1 DEF ProfilesInv, AddressInv, DefaultInv
    <3>3. Fits(job, addresses')
      BY <1>5, <2>3 DEF Fits
    <3> QED
      BY <1>1, <2>1, <2>3, <3>2, <3>3 DEF Defaults, WithId
  <2> QED
    BY <2>2, <2>3
<1>8. job.at \in OnAddresses => job.row.id <= lastId
  BY <1>2, <1>5 DEF OnAddresses
<1>9. lastId' \in Nat /\ lastId <= lastId'
  BY <1>1, <1>2
<1>10. AddressGoesOn(h, job)
  BY <1>1, <1>6, <1>7, <1>8, <1>9 DEF AddressGoesOn
<1> QED
  BY <1>5, <1>10, AddressStep

\* The newest of the rows is one of them.
LEMMA NewestIsThere ==
  ASSUME ProfilesTypeOK, IdsGiven, addresses # {} PROVE NewestAddress \in addresses
<1> DEFINE T == {lastId - a.id : a \in addresses}
           R == {ss \in Nat \X Nat : ss[1] < ss[2]}
<1>1. \A a \in addresses : a.id \in Nat /\ lastId - a.id \in Nat
  BY DEF ProfilesTypeOK, IdsGiven, AddressType
<1>2. T \subseteq Nat /\ T # {}
  BY <1>1
<1>3. IsWellFoundedOn(R, Nat)
  BY NatLessThanWellFounded DEF OpToRel
<1>4. PICK k \in T : \A y \in T : ~(<<y, k>> \in R)
  <2> HIDE DEF R, T
  <2> QED
    BY <1>2, <1>3, WFMin
<1>5. PICK a \in addresses : k = lastId - a.id
  BY <1>4
<1>6. \A b \in addresses : b.id <= a.id
  <2> SUFFICES ASSUME NEW b \in addresses PROVE b.id <= a.id
    OBVIOUS
  <2>1. lastId - b.id \in T /\ lastId - b.id \in Nat /\ k \in Nat /\ lastId \in Nat
    BY <1>1, <1>5 DEF ProfilesTypeOK
  <2>2. ~(lastId - b.id < k)
    BY <1>4, <2>1
  <2> QED
    BY <1>1, <1>5, <2>1, <2>2
<1> QED
  BY <1>6 DEF NewestAddress

LEMMA PromoteKeeps ==
  ASSUME ProfilesInv, NEW h \in UserWorker, Promote(h) PROVE ProfilesInv'
<1> DEFINE row == [NewestAddress EXCEPT !.default = TRUE]
           save == [at |-> "save", row |-> row]
           job == IF addresses = {} THEN Unoccupied ELSE save
<1>1. /\ userJobs[h].at = "promote" /\ userJobs[h].at \in OnAddresses
      /\ userJobs' = [userJobs EXCEPT ![h] = job]
      /\ UNCHANGED <<profile, addresses, lastId, userQueue, userNews, beside, undefaulted,
                     unsettled, counted, twice, swallowed>>
  BY DEF Promote, FinishJob, OnAddresses, userHistory
<1>2. /\ addresses \subseteq AddressType /\ lastId \in Nat
      /\ \A a \in addresses : a.id # 0 /\ a.id <= lastId
      /\ \A a, b \in addresses : a.id = b.id => a = b
  BY DEF ProfilesInv, ProfilesTypeOK, AddressInv, IdsGiven
<1>3. addresses # {} => NewestAddress \in addresses
  BY NewestIsThere DEF ProfilesInv, AddressInv
<1>4. addresses # {} => row \in AddressType /\ row.id <= lastId /\ row.default
  BY <1>2, <1>3 DEF AddressType
<1> HIDE DEF row
<1>5. addresses # {} => save \in AddressJob /\ save.at = "save" /\ save.row = row
  BY <1>4 DEF AddressJob, OnAddresses
<1> HIDE DEF save
<1>6. Unoccupied.at = "idle" /\ Unoccupied.at \notin OnAddresses
  BY UserJobShapes DEF OnAddresses
<1>7. /\ job \in AddressJob \cup {Unoccupied} /\ job.at \in {"idle", "save"}
      /\ job.at \in OnAddresses => job.row.id <= lastId
      /\ addresses # {} => job.at = "save" /\ job.row.default
      /\ addresses = {} => job.at = "idle"
  BY <1>4, <1>5, <1>6
<1> HIDE DEF job
<1>8. ~beside => Defaults = {}
  BY <1>1 DEF ProfilesInv, AddressInv, DefaultInv, Fits, Defaults
<1>9. ~beside => Fits(job, addresses) /\ (addresses = {} \/ Makes(job))
  BY <1>7, <1>8 DEF Fits, Makes, Defaults
<1>10. AddressGoesOn(h, job)
  BY <1>1, <1>2, <1>7, <1>8, <1>9 DEF AddressGoesOn, Defaults
<1> QED
  BY <1>7, <1>10, AddressStep

LEMMA WorkerDiesKeeps ==
  ASSUME ProfilesInv, NEW h \in UserWorker, WorkerDies(h) PROVE ProfilesInv'
<1>1. /\ userJobs' = [userJobs EXCEPT ![h] = Unoccupied]
      /\ undefaulted' = (undefaulted \/ (userJobs[h].at \in {"save", "promote"}
                                          /\ Defaults = {}))
      /\ UNCHANGED <<profile, addresses, lastId, userQueue, userNews, beside, unsettled,
                     counted, twice, swallowed>>
  BY DEF WorkerDies, FinishJob
<1>2. \A g \in UserWorker : userJobs'[g] = IF g = h THEN Unoccupied ELSE userJobs[g]
  BY <1>1 DEF ProfilesInv, ProfilesTypeOK
<1>3. /\ Unoccupied \in UserJobType /\ Unoccupied.at = "idle"
      /\ Unoccupied.at \notin OnAddresses \cup OnProfile \cup OnMessage
  BY UserJobShapes DEF OnAddresses, OnProfile, OnMessage
<1>4. ProfilesTypeOK'
  BY <1>1, <1>3 DEF ProfilesInv, ProfilesTypeOK
<1>5. IdsGiven'
  BY <1>1, <1>2, <1>3 DEF ProfilesInv, AddressInv, IdsGiven
<1>6. DefaultInv'
  <2> SUFFICES ASSUME ~beside PROVE DefaultInv'
    BY <1>1 DEF DefaultInv
  <2>1. DefaultInv /\ Defaults' = Defaults
    BY <1>1 DEF ProfilesInv, AddressInv, Defaults
  <2>2. OneWrites'
    BY <1>2, <1>3, <2>1 DEF DefaultInv, OneWrites
  <2>3. Fits(Unoccupied, addresses)
    BY <1>3 DEF Fits
  <2>4. \A g \in UserWorker : Fits(userJobs'[g], addresses')
    BY <1>1, <1>2, <2>1, <2>3 DEF DefaultInv
  <2>5. ASSUME NEW g \in UserWorker, Makes(userJobs[g])
        PROVE  undefaulted' \/ Defaults # {} \/ Makes(userJobs'[g])
    BY <1>1, <1>2, <2>5 DEF Makes
  <2> QED
    BY <1>1, <2>1, <2>2, <2>4, <2>5 DEF DefaultInv
<1>7. MessageInv'
  BY <1>1, <1>2, <1>3, ProfileBeside DEF ProfilesInv
<1> QED
  BY <1>4, <1>5, <1>6, <1>7 DEF ProfilesInv, AddressInv

----------------------------------------------------------------------------
(* The steps on the profile.                                               *)

\* A message enters the queue, for the first time or again.
LEMMA NewsKeeps ==
  ASSUME ProfilesInv, NEW msg \in NewsType, SendNews(msg) \/
           (PublishAgain(msg) /\ msg \in TradeNewsType)
  PROVE  ProfilesInv'
<1>1. /\ userQueue' = userQueue \cup {msg} /\ userNews' = userNews \cup {msg}
      /\ UNCHANGED <<profile, addresses, lastId, userJobs, beside, undefaulted, unsettled,
                     counted, twice, swallowed>>
  BY DEF SendNews, PublishAgain, userHistory
<1>2. userQueue \subseteq userNews /\ Registered \in userNews'
  BY <1>1 DEF ProfilesInv, ProfilesTypeOK, MessageInv, InHands, SendNews, PublishAgain
<1>3. Handled' \subseteq Handled /\ (Registered \in Handled' <=> Registered \in Handled)
  BY <1>1, <1>2, NewsShapes DEF Handled, SendNews, PublishAgain
<1>4. ProfilesTypeOK'
  BY <1>1, FS_AddElement DEF ProfilesInv, ProfilesTypeOK
<1>5. AddressInv'
  BY <1>1, AddressesBeside DEF ProfilesInv
<1>6. InHands'
  BY <1>1, <1>2 DEF ProfilesInv, MessageInv, InHands
<1>7. CountInv'
  <2>1. CountsOf' = CountsOf
    BY <1>1 DEF CountsOf, CountedOf
  <2>2. \A m : Obeyed(m) => Obeyed(m)'
    BY <1>1, <1>3 DEF Obeyed
  <2>3. \A g \in UserWorker : CopyFits(userJobs[g]) => CopyFits(userJobs[g])'
    BY <1>1, <1>3 DEF CopyFits, More
  <2>4. ASSUME NEW g \in UserWorker, userJobs[g].at = "ack", ~unsettled
        PROVE  Obeyed(userJobs[g].msg)'
    <3>1. Obeyed(userJobs[g].msg)
      BY <2>4 DEF ProfilesInv, MessageInv, CountInv
    <3> QED
      BY <1>1, <1>3, <3>1 DEF Obeyed
  <2>5. OneHandles' <=> OneHandles
    BY <1>1 DEF OneHandles
  <2> QED
    BY <1>1, <1>3, <2>1, <2>2, <2>3, <2>4, <2>5 DEF ProfilesInv, MessageInv, CountInv
<1> QED
  BY <1>4, <1>5, <1>6, <1>7 DEF ProfilesInv, MessageInv

LEMMA StartProfileJobKeeps ==
  ASSUME ProfilesInv, NEW h \in UserWorker, NEW calm,
         NEW job \in InsertJob \cup CountJob \cup EditJob \cup ForgetJob,
         StartProfileJob(h, job, calm),
         job.at \in OnMessage =>
           /\ job.msg \in userQueue
           /\ \A g \in UserWorker : userJobs[g].at \in OnMessage => userJobs[g].msg # job.msg,
         calm /\ ~unsettled => CopyFits(job)
  PROVE  ProfilesInv'
<1>1. /\ userJobs[h] = Unoccupied /\ userJobs' = [userJobs EXCEPT ![h] = job]
      /\ ~unsettled' => /\ ~unsettled /\ CopyFits(job)
                        /\ \A g \in UserWorker : userJobs[g].at \notin OnProfile
      /\ UNCHANGED <<profile, addresses, lastId, userQueue, userNews, beside, undefaulted,
                     counted, twice, swallowed>>
  BY DEF StartProfileJob
<1>2. \A g \in UserWorker : userJobs'[g] = IF g = h THEN job ELSE userJobs[g]
  BY <1>1 DEF ProfilesInv, ProfilesTypeOK
<1>3. job \in UserJobType /\ job.at \in OnProfile /\ job.at \notin OnAddresses /\ job.at # "ack"
  BY DEF UserJobType, InsertJob, CountJob, EditJob, ForgetJob, OnProfile, OnAddresses
<1>4. userJobs[h].at = "idle" /\ userJobs[h].at \notin OnAddresses \cup OnMessage
  BY <1>1, UserJobShapes DEF OnAddresses, OnMessage
<1>5. ProfilesTypeOK'
  BY <1>1, <1>3 DEF ProfilesInv, ProfilesTypeOK
<1>6. AddressInv'
  BY <1>1, <1>2, <1>3, <1>4, AddressesBeside DEF ProfilesInv
<1>7. InHands'
  BY <1>1, <1>2, <1>4 DEF ProfilesInv, MessageInv, InHands
<1>8. CountInv'
  <2>1. SUFFICES ASSUME ~unsettled' PROVE CountInv'
    BY <1>1 DEF ProfilesInv, MessageInv, CountInv
  <2>2. CountsOf' = CountsOf /\ Handled' = Handled
    BY <1>1 DEF CountsOf, CountedOf, Handled
  <2>3. \A m : Obeyed(m) => Obeyed(m)'
    BY <1>1, <2>2 DEF Obeyed
  <2>4. OneHandles'
    BY <1>1, <1>2, <2>1 DEF OneHandles
  <2>5. \A g \in UserWorker : CopyFits(userJobs[g])'
    <3>1. TAKE g \in UserWorker
    <3>2. CASE g = h
      BY <1>1, <1>2, <2>1, <2>2, <3>2 DEF CopyFits, More
    <3>3. CASE g # h
      BY <1>1, <1>2, <2>1, <3>3, UserJobShapes DEF CopyFits, OnProfile
    <3> QED
      BY <3>2, <3>3
  <2>6. ASSUME NEW g \in UserWorker, userJobs'[g].at = "ack" PROVE Obeyed(userJobs[g].msg)'
    <3>1. userJobs'[g] = userJobs[g]
      BY <1>2, <1>3, <2>6
    <3>2. Obeyed(userJobs[g].msg)
      BY <1>1, <2>1, <2>6, <3>1 DEF ProfilesInv, MessageInv, CountInv
    <3> QED
      BY <1>1, <2>2, <3>1, <3>2 DEF Obeyed
  <2> QED
    BY <1>1, <2>1, <2>2, <2>3, <2>4, <2>5, <2>6 DEF ProfilesInv, MessageInv, CountInv
<1> QED
  BY <1>5, <1>6, <1>7, <1>8 DEF ProfilesInv, MessageInv

LEMMA MoreShapes ==
  \A key : \A row \in Nat \X Nat : More(key, row) \in Nat \X Nat
  BY DEF More

LEMMA ReceiptsKeep ==
  ASSUME ProfilesInv, NEW h \in UserWorker,
         \/ UserRegistered(h) \/ UserDeleted(h) \/ UpdateProfile(h)
         \/ \E msg \in TradeNewsType : TradeNews(h, msg)
  PROVE  ProfilesInv'
<1>1. profile \in RowType /\ userQueue \subseteq userNews
  BY DEF ProfilesInv, ProfilesTypeOK
<1>2. CASE UserRegistered(h)
  <2> DEFINE job == [at |-> "insert", msg |-> Registered,
                     row |-> IF profile = {} THEN {<<0, 0>>} ELSE {}]
  <2>1. job \in InsertJob
    BY DEF InsertJob, RowType
  <2>2. CopyFits(job)
    BY DEF CopyFits
  <2>3. /\ StartProfileJob(h, job, TRUE) /\ job.msg \in userQueue
        /\ \A g \in UserWorker : userJobs[g].at \in OnMessage => userJobs[g].msg # job.msg
    BY <1>2 DEF UserRegistered, ReceiveNews
  <2> HIDE DEF job
  <2> QED
    BY <2>1, <2>2, <2>3, StartProfileJobKeeps
<1>3. CASE UserDeleted(h)
  <2> DEFINE job == [at |-> "forget", msg |-> Deleted]
             calm == Registered \notin userQueue
  <2>1. job \in ForgetJob
    BY DEF ForgetJob
  <2>2. /\ StartProfileJob(h, job, calm) /\ job.msg \in userQueue
        /\ \A g \in UserWorker : userJobs[g].at \in OnMessage => userJobs[g].msg # job.msg
    BY <1>3 DEF UserDeleted, ReceiveNews
  <2>3. calm => Registered \in Handled
    BY <1>1, <2>2 DEF Handled, ProfilesInv, MessageInv, InHands
  <2>4. calm => CopyFits(job)
    BY <2>3 DEF CopyFits
  <2> HIDE DEF job, calm
  <2> QED
    BY <2>1, <2>2, <2>4, StartProfileJobKeeps
<1>4. CASE UpdateProfile(h)
  <2> DEFINE job == [at |-> "edit", row |-> profile]
  <2>1. job \in EditJob /\ job.at \notin OnMessage
    BY <1>1 DEF EditJob, OnMessage
  <2>2. CopyFits(job)
    BY DEF CopyFits
  <2>3. StartProfileJob(h, job, TRUE)
    BY <1>4 DEF UpdateProfile
  <2> HIDE DEF job
  <2> QED
    BY <2>1, <2>2, <2>3, StartProfileJobKeeps
<1>5. ASSUME NEW msg \in TradeNewsType, TradeNews(h, msg) PROVE ProfilesInv'
  <2> DEFINE copy == {More(msg[1], r) : r \in profile}
             job == [at |-> "count", msg |-> msg, row |-> copy]
  <2>1. copy \in RowType
    BY <1>1, MoreShapes DEF RowType
  <2>2. job \in CountJob
    BY <2>1 DEF CountJob
  <2>3. CopyFits(job)
    BY DEF CopyFits
  <2>4. /\ StartProfileJob(h, job, TRUE) /\ job.msg \in userQueue
        /\ \A g \in UserWorker : userJobs[g].at \in OnMessage => userJobs[g].msg # job.msg
    BY <1>5 DEF TradeNews, ReceiveNews
  <2> HIDE DEF job
  <2> QED
    BY <2>2, <2>3, <2>4, StartProfileJobKeeps
<1> QED
  BY <1>2, <1>3, <1>4, <1>5

\* An execution on the profile writes, and goes on or ends.
ProfileGoesOn(h, job) ==
  /\ userJobs[h].at \in OnProfile
  /\ userJobs' = [userJobs EXCEPT ![h] = job]
  /\ job.at \in {"ack", "drop", "idle"}
  /\ job.at # "idle" => userJobs[h].at \in OnMessage /\ job.msg = userJobs[h].msg
  /\ UNCHANGED <<lastId, userQueue, userNews, unsettled>>
  /\ profile' \in RowType /\ addresses' \subseteq AddressType
  /\ counted' \subseteq TradeNewsType /\ counted' \subseteq userNews
  /\ twice' \in Nat \X Nat /\ swallowed' \subseteq NewsType
  /\ counted' \cap swallowed' = {}
  /\ ~unsettled =>
       /\ \A m \in NewsType : Obeyed(m) \/ (job.at = "ack" /\ m = job.msg) => Obeyed(m)'
       /\ job.at = "drop" => Registered \in Handled
       /\ profile' = {} /\ Registered \notin Handled => counted' = {} /\ twice' = <<0, 0>>
       /\ profile' # {} => profile' = {CountsOf'}

LEMMA ProfileStep ==
  ASSUME ProfilesInv, NEW h \in UserWorker, NEW job \in UserJobType, ProfileGoesOn(h, job),
         AddressInv'
  PROVE  ProfilesInv'
<1> USE DEF ProfileGoesOn
<1>1. \A g \in UserWorker : userJobs'[g] = IF g = h THEN job ELSE userJobs[g]
  BY DEF ProfilesInv, ProfilesTypeOK
<1>2. ProfilesTypeOK'
  BY DEF ProfilesInv, ProfilesTypeOK
<1>3. "idle" \notin OnMessage \cup OnProfile /\ "ack" \notin OnProfile
  BY DEF OnMessage, OnProfile
<1>4. InHands'
  BY <1>1, <1>3 DEF ProfilesInv, MessageInv, InHands
<1>5. Handled' = Handled
  BY DEF Handled
<1>6. CountInv'
  <2>1. SUFFICES ASSUME ~unsettled PROVE CountInv'
    BY DEF CountInv
  <2>2. \A g \in UserWorker \ {h} : userJobs[g].at \notin OnProfile
    BY <2>1 DEF ProfilesInv, MessageInv, CountInv, OneHandles
  <2>3. OneHandles'
    BY <1>1, <2>2 DEF OneHandles
  <2>4. ASSUME NEW m \in Handled' PROVE Obeyed(m)'
    BY <1>5, <2>1, <2>4 DEF ProfilesInv, ProfilesTypeOK, MessageInv, CountInv, Handled
  <2>5. ASSUME NEW g \in UserWorker, userJobs'[g].at = "ack" PROVE Obeyed(userJobs[g].msg)'
    <3>1. userJobs'[g].msg \in NewsType
      BY <1>2, <2>5, UserJobShapes DEF ProfilesTypeOK, OnMessage
    <3>2. PICK m \in NewsType : m = userJobs'[g].msg
      BY <3>1
    <3>3. g # h => Obeyed(m)
      BY <1>1, <2>1, <2>5, <3>2 DEF ProfilesInv, MessageInv, CountInv
    <3>4. Obeyed(m)'
      BY <1>1, <2>1, <2>5, <3>2, <3>3
    <3> QED
      BY <3>2, <3>4 DEF Obeyed
  <2>6. \A g \in UserWorker : CopyFits(userJobs[g])'
    <3>1. TAKE g \in UserWorker
    <3>2. CASE g = h
      BY <1>1, <1>5, <2>1, <3>2 DEF CopyFits
    <3>3. CASE g # h
      BY <1>1, <2>2, <3>3 DEF CopyFits, OnProfile
    <3> QED
      BY <3>2, <3>3
  <2> QED
    BY <1>5, <2>1, <2>3, <2>4, <2>5, <2>6 DEF CountInv
<1> QED
  BY <1>2, <1>4, <1>6 DEF ProfilesInv, MessageInv

\* What is known of an execution on the profile.
LEMMA ProfileJobFacts ==
  ASSUME ProfilesInv, NEW h \in UserWorker, userJobs[h].at \in OnProfile
  PROVE  /\ userJobs[h] \in InsertJob \cup CountJob \cup EditJob \cup ForgetJob
         /\ userJobs[h].at \in OnMessage => userJobs[h].msg \in userQueue
         /\ ~unsettled => CopyFits(userJobs[h])
         /\ userJobs[h].at \notin OnAddresses
<1>1. userJobs[h] \in UserJobType
  BY DEF ProfilesInv, ProfilesTypeOK
<1>2. userJobs[h] \in InsertJob \cup CountJob \cup EditJob \cup ForgetJob
  BY <1>1, UserJobShapes DEF OnProfile
<1> QED
  BY <1>1, <1>2, UserJobShapes DEF ProfilesInv, MessageInv, InHands, CountInv

\* An execution that has handled its message will acknowledge it.
LEMMA AckShapes ==
  ASSUME NEW w \in InsertJob \cup CountJob \cup ForgetJob
  PROVE  LET ack == [w EXCEPT !.at = "ack"]
         IN ack \in AckJob /\ ack \in UserJobType /\ ack.at = "ack" /\ ack.msg = w.msg
<1>1. w \in InsertJob \cup CountJob => [w EXCEPT !.at = "ack"] \in AckJob
  BY DEF InsertJob, CountJob, AckJob, NewsType
<1>2. w \in ForgetJob => [w EXCEPT !.at = "ack"] \in AckJob
  BY DEF ForgetJob, AckJob, NewsType
<1>3. w.at = w.at /\ [w EXCEPT !.at = "ack"].at = "ack" /\ [w EXCEPT !.at = "ack"].msg = w.msg
  BY DEF InsertJob, CountJob, ForgetJob
<1> QED
  BY <1>1, <1>2, <1>3 DEF UserJobType

LEMMA InsertProfileKeeps ==
  ASSUME ProfilesInv, NEW h \in UserWorker, InsertProfile(h) PROVE ProfilesInv'
<1> DEFINE job == [userJobs[h] EXCEPT !.at = "ack"]
<1>1. /\ userJobs[h].at = "insert" /\ userJobs[h].at \in OnProfile /\ userJobs[h].at \in OnMessage
      /\ profile' = IF profile = {} THEN userJobs[h].row ELSE profile
      /\ userJobs' = [userJobs EXCEPT ![h] = job]
      /\ UNCHANGED <<addresses, lastId, userQueue, userNews, beside, undefaulted, unsettled,
                     counted, twice, swallowed>>
  BY DEF InsertProfile, GoOn, OnProfile, OnMessage, userHistory
<1>2. /\ userJobs[h] \in InsertJob /\ userJobs[h].msg = Registered /\ Registered \in userQueue
      /\ userJobs[h].row \in RowType /\ userJobs[h].at \notin OnAddresses
      /\ ~unsettled => userJobs[h].row = IF profile = {} THEN {<<0, 0>>} ELSE {}
  <2>1. userJobs[h] \in InsertJob
    BY <1>1, UserJobShapes DEF ProfilesInv, ProfilesTypeOK
  <2> QED
    BY <1>1, <2>1, ProfileJobFacts DEF InsertJob, CopyFits
<1>3. job \in UserJobType /\ job.at = "ack" /\ job.msg = Registered
  BY <1>2, AckShapes
<1> HIDE DEF job
<1>4. AddressInv'
  BY <1>1, <1>2, <1>3, AddressesBeside DEF ProfilesInv, ProfilesTypeOK, OnAddresses
<1>5. Registered \notin Handled /\ Handled' = Handled /\ CountsOf' = CountsOf
  BY <1>1, <1>2 DEF Handled, CountsOf, CountedOf
<1>6. /\ counted \subseteq TradeNewsType /\ counted \subseteq userNews /\ twice \in Nat \X Nat
      /\ swallowed \subseteq NewsType /\ counted \cap swallowed = {} /\ profile \in RowType
      /\ addresses \subseteq AddressType
  BY DEF ProfilesInv, ProfilesTypeOK, MessageInv, CountInv
<1>7. ~unsettled => \A m \in NewsType : Obeyed(m) \/ m = Registered => Obeyed(m)'
  BY <1>1, <1>5, NewsShapes DEF Obeyed
<1>8. ASSUME ~unsettled PROVE profile' # {} /\ profile' = {CountsOf'}
  <2>1. CASE profile = {}
    <3>1. counted = {} /\ twice = <<0, 0>>
      BY <1>5, <1>8, <2>1 DEF ProfilesInv, MessageInv, CountInv
    <3>2. CountedOf("trade.initiated") = {} /\ CountedOf("trade.completed") = {}
      BY <3>1 DEF CountedOf
    <3>3. CountsOf = <<0, 0>>
      BY <3>1, <3>2, FS_EmptySet DEF CountsOf
    <3> QED
      BY <1>1, <1>2, <1>5, <1>8, <2>1, <3>3
  <2>2. CASE profile # {}
    BY <1>1, <1>5, <1>8, <2>2 DEF ProfilesInv, MessageInv, CountInv
  <2> QED
    BY <2>1, <2>2
<1>9. ProfileGoesOn(h, job)
  BY <1>1, <1>2, <1>3, <1>6, <1>7, <1>8 DEF ProfileGoesOn
<1> QED
  BY <1>3, <1>4, <1>9, ProfileStep

\* One more trade of a kind.
LEMMA CountsMore ==
  ASSUME ProfilesTypeOK, NEW m \in TradeNewsType, counted' = counted \cup {m},
         twice' = IF m \in counted THEN More(m[1], twice) ELSE twice
  PROVE  CountsOf' = More(m[1], CountsOf) /\ twice' \in Nat \X Nat
<1>1. IsFiniteSet(counted) /\ twice \in Nat \X Nat
  BY FS_Subset DEF ProfilesTypeOK
<1>2. twice' \in Nat \X Nat
  BY <1>1, MoreShapes
<1>3. \A key : IsFiniteSet(CountedOf(key)) /\ Cardinality(CountedOf(key)) \in Nat
  <2>1. TAKE key
  <2>2. CountedOf(key) \subseteq counted
    BY DEF CountedOf
  <2> QED
    BY <1>1, <2>2, FS_Subset, FS_CardinalityType
<1>4. ASSUME NEW key
      PROVE  Cardinality(CountedOf(key)') =
               IF m[1] = key /\ m \notin counted
               THEN Cardinality(CountedOf(key)) + 1 ELSE Cardinality(CountedOf(key))
  <2>1. m \in CountedOf(key) <=> m \in counted /\ m[1] = key
    BY DEF CountedOf
  <2>2. CASE m[1] = key
    <3>1. CountedOf(key)' = CountedOf(key) \cup {m}
      BY <2>2 DEF CountedOf
    <3> QED
      BY <1>3, <2>1, <2>2, <3>1, FS_AddElement
  <2>3. CASE m[1] # key
    <3>1. CountedOf(key)' = CountedOf(key)
      BY <2>3 DEF CountedOf
    <3> QED
      BY <2>3, <3>1
  <2> QED
    BY <2>2, <2>3
<1>5. m[1] = "trade.initiated" \/ m[1] = "trade.completed"
  BY NewsShapes DEF TradeKeys
<1>6. \A key : Cardinality(CountedOf(key)) \in Nat
  BY <1>3
<1> DEFINE i == Cardinality(CountedOf("trade.initiated"))
           c == Cardinality(CountedOf("trade.completed"))
           i2 == Cardinality(CountedOf("trade.initiated")')
           c2 == Cardinality(CountedOf("trade.completed")')
<1>7. /\ i \in Nat /\ c \in Nat
      /\ i2 = IF m[1] = "trade.initiated" /\ m \notin counted THEN i + 1 ELSE i
      /\ c2 = IF m[1] = "trade.completed" /\ m \notin counted THEN c + 1 ELSE c
  BY <1>4, <1>6
<1>8. CountsOf = <<i + twice[1], c + twice[2]>> /\ CountsOf' = <<i2 + twice'[1], c2 + twice'[2]>>
  BY DEF CountsOf
<1> HIDE DEF i, c, i2, c2
<1>9. CountsOf' = More(m[1], CountsOf)
  BY <1>1, <1>5, <1>7, <1>8 DEF More
<1> QED
  BY <1>2, <1>9

LEMMA SaveProfileKeeps ==
  ASSUME ProfilesInv, NEW h \in UserWorker, SaveProfile(h) PROVE ProfilesInv'
<1> DEFINE job == [userJobs[h] EXCEPT !.at = "ack"]
<1>1. /\ userJobs[h].at = "count" /\ userJobs[h].at \in OnProfile /\ userJobs[h].at \in OnMessage
      /\ userJobs[h].row # {} /\ profile' = userJobs[h].row
      /\ userJobs' = [userJobs EXCEPT ![h] = job]
      /\ UNCHANGED <<addresses, lastId, userQueue, userNews, beside, undefaulted, unsettled>>
  BY DEF SaveProfile, GoOn, OnProfile, OnMessage
<1>2. userJobs[h] \in CountJob
  BY <1>1, UserJobShapes DEF ProfilesInv, ProfilesTypeOK
<1>3. PICK m \in TradeNewsType : m = userJobs[h].msg
  BY <1>2 DEF CountJob
<1>4. /\ counted' = counted \cup {m} /\ swallowed' = swallowed \ {m}
      /\ twice' = IF m \in counted THEN More(m[1], twice) ELSE twice
  BY <1>3 DEF SaveProfile
<1>5. /\ m \in userQueue /\ userJobs[h].row \in RowType /\ userJobs[h].at \notin OnAddresses
      /\ ~unsettled => userJobs[h].row = {More(m[1], r) : r \in profile}
  BY <1>1, <1>2, <1>3, ProfileJobFacts DEF CountJob, CopyFits
<1>6. job \in UserJobType /\ job.at = "ack" /\ job.msg = m
  BY <1>2, <1>3, AckShapes
<1> HIDE DEF job
<1>7. AddressInv'
  BY <1>1, <1>5, <1>6, AddressesBeside DEF ProfilesInv, ProfilesTypeOK, OnAddresses
<1>8. CountsOf' = More(m[1], CountsOf) /\ twice' \in Nat \X Nat
  BY <1>4, CountsMore DEF ProfilesInv
<1>9. /\ counted' \subseteq TradeNewsType /\ counted' \subseteq userNews
      /\ swallowed' \subseteq NewsType /\ counted' \cap swallowed' = {}
      /\ addresses \subseteq AddressType
  BY <1>4, <1>5 DEF ProfilesInv, ProfilesTypeOK, MessageInv, CountInv
<1>10. ASSUME ~unsettled PROVE profile # {} /\ profile' = {CountsOf'}
  <2>1. profile # {}
    BY <1>1, <1>5, <1>10
  <2>2. profile = {CountsOf}
    BY <1>10, <2>1 DEF ProfilesInv, MessageInv, CountInv
  <2> QED
    BY <1>1, <1>5, <1>8, <1>10, <2>1, <2>2
<1>11. Handled' = Handled
  BY <1>1 DEF Handled
<1>12. ~unsettled => \A x \in NewsType : Obeyed(x) \/ x = m => Obeyed(x)'
  BY <1>4, <1>10, <1>11, NewsShapes DEF Obeyed
<1>13. ProfileGoesOn(h, job)
  BY <1>1, <1>3, <1>5, <1>6, <1>8, <1>9, <1>10, <1>12 DEF ProfileGoesOn
<1> QED
  BY <1>6, <1>7, <1>13, ProfileStep

LEMMA SwallowKeeps ==
  ASSUME ProfilesInv, NEW h \in UserWorker, Swallow(h) PROVE ProfilesInv'
<1> DEFINE job == [userJobs[h] EXCEPT !.at = "ack"]
<1>1. /\ userJobs[h].at \in {"count", "forget", "drop"}
      /\ userJobs[h].at \in OnProfile /\ userJobs[h].at \in OnMessage
      /\ swallowed' = swallowed \cup ({userJobs[h].msg} \ counted)
      /\ userJobs' = [userJobs EXCEPT ![h] = job]
      /\ UNCHANGED <<profile, addresses, lastId, userQueue, userNews, beside, undefaulted,
                     unsettled, counted, twice>>
  BY DEF Swallow, GoOn, OnProfile, OnMessage
<1>2. userJobs[h] \in CountJob \cup ForgetJob
  BY <1>1, UserJobShapes DEF ProfilesInv, ProfilesTypeOK
<1>3. PICK m \in TradeNewsType \cup {Deleted} : m = userJobs[h].msg
  BY <1>2 DEF CountJob, ForgetJob
<1>4. /\ userJobs[h].at \notin OnAddresses
      /\ ~unsettled => (m = Deleted => Registered \in Handled)
  <2>1. m = Deleted => userJobs[h].at \in {"forget", "drop"}
    BY <1>2, <1>3, NewsShapes DEF CountJob, ForgetJob
  <2> QED
    BY <1>1, <2>1, ProfileJobFacts DEF CopyFits
<1>5. job \in UserJobType /\ job.at = "ack" /\ job.msg = m
  BY <1>2, <1>3, AckShapes
<1> HIDE DEF job
<1>6. AddressInv'
  BY <1>1, <1>4, <1>5, AddressesBeside DEF ProfilesInv, ProfilesTypeOK, OnAddresses
<1>7. /\ counted \subseteq TradeNewsType /\ counted \subseteq userNews /\ twice \in Nat \X Nat
      /\ swallowed' \subseteq NewsType /\ counted \cap swallowed' = {} /\ profile \in RowType
      /\ addresses \subseteq AddressType
  BY <1>1, <1>3 DEF ProfilesInv, ProfilesTypeOK, MessageInv, CountInv, NewsType
<1>8. Handled' = Handled /\ CountsOf' = CountsOf
  BY <1>1 DEF Handled, CountsOf, CountedOf
<1>9. ~unsettled => \A x \in NewsType : Obeyed(x) \/ x = m => Obeyed(x)'
  BY <1>1, <1>3, <1>4, <1>7, <1>8, NewsShapes DEF Obeyed
<1>10. ProfileGoesOn(h, job)
  BY <1>1, <1>3, <1>5, <1>7, <1>8, <1>9
  DEF ProfileGoesOn, ProfilesInv, MessageInv, CountInv
<1> QED
  BY <1>5, <1>6, <1>10, ProfileStep

LEMMA SaveEditKeeps ==
  ASSUME ProfilesInv, NEW h \in UserWorker, SaveEdit(h) PROVE ProfilesInv'
<1>1. /\ userJobs[h].at = "edit" /\ userJobs[h].at \in OnProfile /\ profile' = userJobs[h].row
      /\ userJobs' = [userJobs EXCEPT ![h] = Unoccupied]
      /\ UNCHANGED <<addresses, lastId, userQueue, userNews, beside, undefaulted, unsettled,
                     counted, twice, swallowed>>
  BY DEF SaveEdit, FinishJob, OnProfile, userHistory
<1>2. userJobs[h] \in EditJob
  BY <1>1, UserJobShapes DEF ProfilesInv, ProfilesTypeOK
<1>3. /\ profile' \in RowType /\ userJobs[h].at \notin OnAddresses
      /\ ~unsettled => profile' = profile
  BY <1>1, <1>2, ProfileJobFacts DEF EditJob, CopyFits
<1>4. /\ Unoccupied \in UserJobType /\ Unoccupied.at = "idle"
      /\ Unoccupied.at \notin OnAddresses
  BY UserJobShapes DEF OnAddresses
<1>5. AddressInv'
  BY <1>1, <1>3, <1>4, AddressesBeside DEF ProfilesInv, ProfilesTypeOK
<1>6. /\ counted \subseteq TradeNewsType /\ counted \subseteq userNews /\ twice \in Nat \X Nat
      /\ swallowed \subseteq NewsType /\ counted \cap swallowed = {}
      /\ addresses \subseteq AddressType
  BY DEF ProfilesInv, ProfilesTypeOK, MessageInv, CountInv
<1>7. Handled' = Handled /\ CountsOf' = CountsOf
  BY <1>1 DEF Handled, CountsOf, CountedOf
<1>8. ~unsettled => \A m \in NewsType : Obeyed(m) => Obeyed(m)'
  BY <1>1, <1>3, <1>7 DEF Obeyed
<1>9. ProfileGoesOn(h, Unoccupied)
  BY <1>1, <1>3, <1>4, <1>6, <1>7, <1>8
  DEF ProfileGoesOn, ProfilesInv, MessageInv, CountInv
<1> QED
  BY <1>4, <1>5, <1>9, ProfileStep

LEMMA DeleteAddressesKeeps ==
  ASSUME ProfilesInv, NEW h \in UserWorker, DeleteAddresses(h) PROVE ProfilesInv'
<1> DEFINE job == [userJobs[h] EXCEPT !.at = "drop"]
<1>1. /\ userJobs[h].at = "forget" /\ userJobs[h].at \in OnProfile /\ userJobs[h].at \in OnMessage
      /\ addresses' = {} /\ beside' = (beside \/ Addressing)
      /\ userJobs' = [userJobs EXCEPT ![h] = job]
      /\ UNCHANGED <<profile, lastId, userQueue, userNews, undefaulted, unsettled, counted,
                     twice, swallowed>>
  BY DEF DeleteAddresses, GoOn, OnProfile, OnMessage
<1>2. userJobs[h] \in ForgetJob
  BY <1>1, UserJobShapes DEF ProfilesInv, ProfilesTypeOK
<1>3. job \in ForgetJob /\ job \in UserJobType /\ job.at = "drop" /\ job.msg = userJobs[h].msg
  BY <1>2 DEF ForgetJob, UserJobType
<1>4. ~unsettled => Registered \in Handled
  BY <1>1, ProfileJobFacts DEF CopyFits
<1> HIDE DEF job
<1>5. \A g \in UserWorker : userJobs'[g] = IF g = h THEN job ELSE userJobs[g]
  BY <1>1 DEF ProfilesInv, ProfilesTypeOK
<1>6. AddressInv'
  <2>1. job.at \notin OnAddresses
    BY <1>3 DEF OnAddresses
  <2>2. IdsGiven'
    BY <1>1, <1>5, <2>1 DEF ProfilesInv, AddressInv, IdsGiven
  <2>3. DefaultInv'
    <3> SUFFICES ASSUME ~beside' PROVE DefaultInv'
      BY DEF DefaultInv
    <3>1. \A g \in UserWorker : userJobs'[g].at \notin OnAddresses
      BY <1>1, <1>5, <2>1 DEF Addressing
    <3>2. Defaults' = {}
      BY <1>1 DEF Defaults
    <3> QED
      BY <1>1, <3>1, <3>2 DEF DefaultInv, OneWrites, Fits, OnAddresses
  <2> QED
    BY <2>2, <2>3 DEF AddressInv
<1>7. /\ counted \subseteq TradeNewsType /\ counted \subseteq userNews /\ twice \in Nat \X Nat
      /\ swallowed \subseteq NewsType /\ counted \cap swallowed = {} /\ profile \in RowType
  BY DEF ProfilesInv, ProfilesTypeOK, MessageInv, CountInv
<1>8. Handled' = Handled /\ CountsOf' = CountsOf
  BY <1>1 DEF Handled, CountsOf, CountedOf
<1>9. \A m \in NewsType : Obeyed(m) => Obeyed(m)'
  BY <1>1, <1>8 DEF Obeyed
<1>10. ProfileGoesOn(h, job)
  BY <1>1, <1>3, <1>4, <1>7, <1>8, <1>9
  DEF ProfileGoesOn, ProfilesInv, MessageInv, CountInv
<1> QED
  BY <1>3, <1>6, <1>10, ProfileStep

LEMMA DeleteProfileKeeps ==
  ASSUME ProfilesInv, NEW h \in UserWorker, DeleteProfile(h) PROVE ProfilesInv'
<1> DEFINE job == [userJobs[h] EXCEPT !.at = "ack"]
<1>1. /\ userJobs[h].at = "drop" /\ userJobs[h].at \in OnProfile /\ userJobs[h].at \in OnMessage
      /\ profile' = {} /\ userJobs' = [userJobs EXCEPT ![h] = job]
      /\ UNCHANGED <<addresses, lastId, userQueue, userNews, beside, undefaulted, unsettled,
                     counted, twice, swallowed>>
  BY DEF DeleteProfile, GoOn, OnProfile, OnMessage, userHistory
<1>2. userJobs[h] \in ForgetJob
  BY <1>1, UserJobShapes DEF ProfilesInv, ProfilesTypeOK
<1>3. job \in UserJobType /\ job.at = "ack" /\ job.msg = Deleted /\ userJobs[h].msg = Deleted
  BY <1>2, AckShapes DEF ForgetJob
<1>4. userJobs[h].at \notin OnAddresses /\ (~unsettled => Registered \in Handled)
  BY <1>1, ProfileJobFacts DEF CopyFits
<1> HIDE DEF job
<1>5. AddressInv'
  BY <1>1, <1>3, <1>4, AddressesBeside DEF ProfilesInv, ProfilesTypeOK, OnAddresses
<1>6. /\ counted \subseteq TradeNewsType /\ counted \subseteq userNews /\ twice \in Nat \X Nat
      /\ swallowed \subseteq NewsType /\ counted \cap swallowed = {} /\ profile' \in RowType
      /\ addresses \subseteq AddressType
  BY <1>1 DEF ProfilesInv, ProfilesTypeOK, MessageInv, CountInv, RowType
<1>7. Handled' = Handled
  BY <1>1 DEF Handled
<1>8. ~unsettled => \A m \in NewsType : Obeyed(m) \/ m = Deleted => Obeyed(m)'
  BY <1>1, <1>4, <1>7, NewsShapes DEF Obeyed
<1>9. ProfileGoesOn(h, job)
  BY <1>1, <1>3, <1>4, <1>6, <1>8 DEF ProfileGoesOn
<1> QED
  BY <1>3, <1>5, <1>9, ProfileStep

LEMMA AckKeeps ==
  ASSUME ProfilesInv, NEW h \in UserWorker, Ack(h) PROVE ProfilesInv'
<1>1. /\ userJobs[h].at = "ack" /\ userJobs[h].at \in OnMessage
      /\ userJobs' = [userJobs EXCEPT ![h] = Unoccupied]
      /\ UNCHANGED <<profile, addresses, lastId, userNews, beside, undefaulted, unsettled,
                     counted, twice, swallowed>>
  BY DEF Ack, FinishJob, OnMessage, userHistory
<1>2. PICK m \in NewsType : m = userJobs[h].msg
  BY <1>1, UserJobShapes DEF ProfilesInv, ProfilesTypeOK
<1>3. userQueue' = userQueue \ {m} /\ m \in userQueue /\ userQueue \subseteq userNews
  BY <1>1, <1>2 DEF Ack, ProfilesInv, ProfilesTypeOK, MessageInv, InHands
<1>4. \A g \in UserWorker : userJobs'[g] = IF g = h THEN Unoccupied ELSE userJobs[g]
  BY <1>1 DEF ProfilesInv, ProfilesTypeOK
<1>5. /\ Unoccupied \in UserJobType /\ Unoccupied.at = "idle"
      /\ Unoccupied.at \notin OnAddresses \cup OnProfile \cup OnMessage
  BY UserJobShapes DEF OnAddresses, OnProfile, OnMessage
<1>6. Handled' = Handled \cup {m}
  BY <1>1, <1>3 DEF Handled
<1>7. ProfilesTypeOK'
  BY <1>1, <1>3, <1>5 DEF ProfilesInv, ProfilesTypeOK
<1>8. AddressInv'
  BY <1>1, <1>4, <1>5, AddressesBeside DEF ProfilesInv, OnAddresses
<1>9. InHands'
  BY <1>1, <1>2, <1>3, <1>4, <1>5 DEF ProfilesInv, MessageInv, InHands
<1>10. CountInv'
  <2>1. SUFFICES ASSUME ~unsettled PROVE CountInv'
    BY <1>1 DEF ProfilesInv, MessageInv, CountInv
  <2>2. CountsOf' = CountsOf
    BY <1>1 DEF CountsOf, CountedOf
  <2>3. \A x : Obeyed(x) => Obeyed(x)'
    BY <1>1, <1>6 DEF Obeyed
  <2>4. Obeyed(m)
    BY <1>1, <1>2, <2>1 DEF ProfilesInv, MessageInv, CountInv
  <2>5. OneHandles'
    BY <1>4, <1>5, <2>1 DEF ProfilesInv, MessageInv, CountInv, OneHandles
  <2>6. \A g \in UserWorker : CopyFits(userJobs[g])'
    <3>1. TAKE g \in UserWorker
    <3>2. CASE g = h
      BY <1>4, <1>5, <3>2 DEF CopyFits
    <3>3. CASE g # h
      <4>1. CopyFits(userJobs[g])
        BY <2>1 DEF ProfilesInv, MessageInv, CountInv
      <4> QED
        BY <1>1, <1>4, <1>6, <3>3, <4>1 DEF CopyFits, More
    <3> QED
      BY <3>2, <3>3
  <2>7. ASSUME NEW g \in UserWorker, userJobs'[g].at = "ack" PROVE Obeyed(userJobs[g].msg)'
    <3>1. userJobs'[g] = userJobs[g]
      BY <1>4, <1>5, <2>7
    <3>2. Obeyed(userJobs[g].msg)
      BY <2>1, <2>7, <3>1 DEF ProfilesInv, MessageInv, CountInv
    <3> QED
      BY <1>1, <1>6, <3>1, <3>2 DEF Obeyed
  <2> QED
    BY <1>1, <1>6, <2>1, <2>2, <2>3, <2>4, <2>5, <2>6, <2>7
    DEF ProfilesInv, MessageInv, CountInv
<1> QED
  BY <1>7, <1>8, <1>9, <1>10 DEF ProfilesInv, MessageInv

----------------------------------------------------------------------------

LEMMA ProfilesStep == ProfilesInv /\ [ProfilesNext]_profileVars => ProfilesInv'
<1> SUFFICES ASSUME ProfilesInv, [ProfilesNext]_profileVars PROVE ProfilesInv'
  OBVIOUS
<1>1. CASE AddressNext
  BY <1>1, RequestsKeep, ClearKeeps, SaveAddressKeeps, DeleteKeeps, PromoteKeeps,
     WorkerDiesKeeps
  DEF AddressNext
<1>2. CASE MessageNext
  <2>1. Registered \in NewsType /\ Deleted \in NewsType /\ TradeNewsType \subseteq NewsType
    BY DEF NewsType
  <2>2. ASSUME NEW msg \in {Registered, Deleted} \cup TradeNewsType, SendNews(msg)
        PROVE  ProfilesInv'
    BY <2>1, <2>2, NewsKeeps
  <2>3. ASSUME NEW msg \in TradeNewsType, PublishAgain(msg) PROVE ProfilesInv'
    BY <2>1, <2>3, NewsKeeps
  <2>4. ASSUME NEW h \in UserWorker,
               \/ UserRegistered(h) \/ UserDeleted(h) \/ UpdateProfile(h)
               \/ \E msg \in TradeNewsType : TradeNews(h, msg)
        PROVE  ProfilesInv'
    BY <2>4, ReceiptsKeep
  <2>5. ASSUME NEW h \in UserWorker,
               \/ InsertProfile(h) \/ SaveProfile(h) \/ Swallow(h) \/ SaveEdit(h)
               \/ WorkerDies(h) \/ Ack(h) \/ DeleteAddresses(h) \/ DeleteProfile(h)
        PROVE  ProfilesInv'
    BY <2>5, InsertProfileKeeps, SaveProfileKeeps, SwallowKeeps, SaveEditKeeps,
       WorkerDiesKeeps, AckKeeps, DeleteAddressesKeeps, DeleteProfileKeeps
  <2> QED
    BY <1>2, <2>2, <2>3, <2>4, <2>5 DEF MessageNext, TradeNewsType
<1>3. CASE UNCHANGED profileVars
  <2>1. UNCHANGED <<profile, addresses, lastId, userQueue, userNews, userJobs, beside,
                    undefaulted, unsettled, counted, twice, swallowed>>
    BY <1>3 DEF profileVars, userHistory
  <2>2. ProfilesTypeOK'
    BY <2>1 DEF ProfilesInv, ProfilesTypeOK
  <2>3. AddressInv'
    BY <2>1, AddressesBeside DEF ProfilesInv
  <2>4. MessageInv'
    BY <2>1, ProfileBeside DEF ProfilesInv
  <2> QED
    BY <2>2, <2>3, <2>4 DEF ProfilesInv
<1> QED
  BY <1>1, <1>2, <1>3 DEF ProfilesNext

LEMMA ProfilesInvGives == ProfilesInv => UserDataRight
<1> SUFFICES ASSUME ProfilesInv PROVE UserDataRight
  OBVIOUS
<1>1. OneDefault
  <2> SUFFICES ASSUME ~beside
               PROVE  /\ Cardinality(Defaults) <= 1
                      /\ ~Addressing /\ ~undefaulted /\ addresses # {} => Defaults # {}
    BY DEF OneDefault
  <2>1. DefaultInv
    BY DEF ProfilesInv, AddressInv
  <2>2. Cardinality(Defaults) <= 1
    <3>1. CASE Defaults = {}
      BY <3>1, FS_EmptySet
    <3>2. CASE Defaults # {}
      <4>1. PICK a \in Defaults : TRUE
        BY <3>2
      <4>2. Defaults = {a}
        BY <2>1, <4>1 DEF DefaultInv
      <4>3. Cardinality({a}) = 1
        BY FS_Singleton
      <4> QED
        BY <4>2, <4>3
    <3> QED
      BY <3>1, <3>2
  <2>3. ~Addressing => \A g \in UserWorker : ~Makes(userJobs[g])
    BY DEF Addressing, Makes, OnAddresses
  <2> QED
    BY <2>1, <2>2, <2>3 DEF DefaultInv
<1>2. TradesCounted
  <2> DEFINE told(key) == {m \in userNews \ swallowed : m[1] = key}
  <2> SUFFICES ASSUME userQueue = {}, ~unsettled
               PROVE  IF Deleted \in userNews \ swallowed THEN profile = {}
                      ELSE \A row \in profile :
                             /\ row[1] = Cardinality(told("trade.initiated")) + twice[1]
                             /\ row[2] = Cardinality(told("trade.completed")) + twice[2]
    BY DEF TradesCounted
  <2>1. Handled = userNews /\ \A m \in userNews : Obeyed(m)
    BY DEF Handled, ProfilesInv, MessageInv, CountInv
  <2>2. Deleted \in userNews \ swallowed => profile = {}
    BY <2>1 DEF Obeyed
  <2>3. ASSUME NEW key \in TradeKeys PROVE told(key) = CountedOf(key)
    <3>1. ASSUME NEW m \in userNews \ swallowed, m[1] = key PROVE m \in counted
      <4>1. m \in TradeNewsType
        BY <3>1, NewsShapes DEF ProfilesInv, ProfilesTypeOK, NewsType
      <4> QED
        BY <2>1, <3>1, <4>1 DEF Obeyed
    <3>2. counted \subseteq userNews \ swallowed
      BY DEF ProfilesInv, ProfilesTypeOK, MessageInv, CountInv
    <3> QED
      BY <3>1, <3>2 DEF CountedOf
  <2>4. profile # {} => profile = {CountsOf}
    BY DEF ProfilesInv, MessageInv, CountInv
  <2>5. "trade.initiated" \in TradeKeys /\ "trade.completed" \in TradeKeys
    BY DEF TradeKeys
  <2> HIDE DEF told
  <2> QED
    BY <2>2, <2>3, <2>4, <2>5 DEF CountsOf
<1> QED
  BY <1>1, <1>2 DEF UserDataRight

\* At most one address of a user is the default unless two address requests
\* overlapped, and one is when none is in flight unless it was given up or
\* lost with an execution; the counters of a profile are off by the messages
\* counted again and the messages swallowed, and by nothing else, and a
\* deleted user has no profile unless the clean-up failed; for every number
\* of addresses, trades and executions (addresses.service.ts,
\* profiles.service.ts, user-cleanup.listener.ts).
THEOREM UserDataIsRight == ProfilesSpec => []UserDataRight
<1>1. ProfilesSpec => []ProfilesInv
  BY ProfilesStarts, ProfilesStep, PTL DEF ProfilesSpec
<1> QED
  BY <1>1, ProfilesInvGives, PTL
=============================================================================
