---------------------------- MODULE ChatPageTalk ----------------------------
(***************************************************************************)
(* ChatPage with a history: the prompts of each chat in the order in which *)
(* the service took them.  With it every chat, whoever writes to it and    *)
(* however requests are lost, repeated or late, is a Conversation: what    *)
(* the page is told of a chat is what ChatTurn promises of it.             *)
(***************************************************************************)
EXTENDS ChatPage, Sequences

VARIABLE order \* per chat, the keys of its turns, oldest first

talkVars == <<vars, order>>

Listed == [c \in Chat |-> IF latest'[c] = latest[c] THEN order[c] ELSE Append(order[c], latest'[c])]

TalkInit == Init /\ order = [c \in Chat |-> <<>>]
TalkNext == Next /\ order' = Listed

TalkSpec == TalkInit /\ [][TalkNext]_talkVars

\* A user who goes on pressing Retry, and presses Stop once.
PatientTalkSpec == TalkInit /\ [][TalkNext /\ ~(Stop /\ pending.stop)]_talkVars /\ Fairness /\ WF_vars(Retry)

\* The reply of a turn as a reader of the chat sees it.
Seen(k) ==
  LET status == turn[k].status
  IN IF status = "complete" THEN "COMPLETE" ELSE IF status = "failed" THEN "FAILED"
     ELSE IF status = "canceled" THEN "CANCELED" ELSE "PENDING"

Talk(c) == [i \in 1 .. Len(order[c]) |-> [prompt |-> order[c][i], reply |-> Seen(order[c][i])]]

C(c) == INSTANCE Conversation WITH Prompt <- Key, open <- TRUE, talk <- Talk(c)

\* Every chat is a conversation: a prompt is asked once, replies come in order,
\* and a complete or stopped one never changes again, whatever the page sends
\* again after lost answers, reloads and stops (ChatPage.tsx:682-720,
\* ChatTurnService.kt:75-130).
ChatsAreConversations ==
  /\ \A c \in Chat : C(c)!Init
  /\ [][\A c \in Chat : [C(c)!Next]_(C(c)!vars)]_talkVars
=============================================================================
