---------------------------- MODULE Conversation ----------------------------
(***************************************************************************)
(* add_turn: a question is put to a conversation.  The turn's index and    *)
(* the earlier answers are read in one transaction, the turn is inserted   *)
(* without an answer in a second one, retrieval writes its run in a third  *)
(* and the answer arrives in a fourth; LLM calls lie between all of them.  *)
(* Two posts to the conversation, or a corpus wipe, may come in between.   *)
(***************************************************************************)
EXTENDS Integers, FiniteSets, FiniteSetsExt

CONSTANTS
  Poster,   \* processes (API requests, the CLI)
  Window,   \* history_window
  MaxTurns  \* bound: turns posted, which also number the turn ids

ASSUME ConversationAssumption == Window \in Nat /\ MaxTurns \in Nat

TurnId == 1..MaxTurns

VARIABLES
  conversation,  \* the one conversation: "new", "open", "gone"
  turns,         \* conversation_turns, by id: [index, answer]; DOMAIN = rows
  runLog,        \* turns with a retrieval_runs row
  post,          \* what each post holds
  context,       \* history: the turns each turn was resolved against
  crossed,       \* history: turns posted while another post was under way
  posted         \* posts so far

conversationVars == <<conversation, turns, runLog, post, context, crossed, posted>>

PostAtRest == [pc |-> "idle", id |-> 0, index |-> 0, prior |-> {}, answer |-> FALSE]

Rows == DOMAIN turns

\* answer: "null" until the last transaction, "" when retrieval gave none.
ConversationTypeOK ==
  /\ conversation \in {"new", "open", "gone"}
  /\ Rows \subseteq TurnId
  /\ \A t \in Rows : turns[t].index \in Nat /\ turns[t].answer \in {"null", "", "text"}
  /\ runLog \subseteq Rows
  /\ \A p \in Poster : post[p].pc \in {"idle", "insert", "retrieve", "answer"}

ConversationInit ==
  /\ conversation = "new"
  /\ turns = [t \in {} |-> 0]
  /\ runLog = {}
  /\ post = [p \in Poster |-> PostAtRest]
  /\ context = [t \in TurnId |-> {}]
  /\ crossed = {}
  /\ posted = 0

Answered == {t \in Rows : turns[t].answer = "text"}

\* Mutant: turns still without an answer are handed on too.
LatestTurns(n) ==
  {s \in SUBSET Rows :
     /\ Cardinality(s) = Min({n, Cardinality(Rows)})
     /\ \A t \in s, u \in Rows \ s : turns[u].index <= turns[t].index}

\* ORDER BY turn_index DESC LIMIT n: turns that share an index come in any order.
LatestAnswered(n) ==
  {s \in SUBSET Answered :
     /\ Cardinality(s) = Min({n, Cardinality(Answered)})
     /\ \A t \in s, u \in Answered \ s : turns[u].index <= turns[t].index}

NextIndex == Max({-1} \cup {turns[t].index : t \in Rows}) + 1

-----------------------------------------------------------------------------
StartConversation ==
  /\ conversation = "new"
  /\ conversation' = "open"
  /\ UNCHANGED <<turns, runLog, post, context, crossed, posted>>

\* Mutant: the log of runs is not emptied with the turns.
KeepsRunLog ==
  /\ conversation = "open"
  /\ conversation' = "gone"
  /\ turns' = [t \in {} |-> 0]
  /\ UNCHANGED <<runLog, post, context, crossed, posted>>

\* clear-corpus empties conversations; turns and runs go with them, and another
\* conversation has another id.
WipeConversations ==
  /\ conversation = "open"
  /\ conversation' = "gone"
  /\ turns' = [t \in {} |-> 0]
  /\ runLog' = {}
  /\ UNCHANGED <<post, context, crossed, posted>>

\* A conversation that is not there raises, which the API answers with 404.
ReadHistory(p) ==
  /\ post[p].pc = "idle" /\ posted < MaxTurns
  /\ conversation = "open"
  /\ LET others == {q \in Poster \ {p} : post[q].pc # "idle"}
         id == posted + 1
     IN
     \E s \in LatestAnswered(Window) :
       /\ post' = [post EXCEPT ![p] =
            [pc |-> "insert", id |-> id, index |-> NextIndex, prior |-> s, answer |-> FALSE]]
       /\ crossed' = IF others = {} THEN crossed
                     ELSE crossed \cup {id} \cup {post[q].id : q \in others}
       /\ context' = [context EXCEPT ![id] = s]
  /\ posted' = posted + 1
  /\ UNCHANGED <<conversation, turns, runLog>>

\* A foreign key: without its conversation the insert raises and the post ends
\* (StopPost).
InsertTurn(p) ==
  /\ post[p].pc = "insert" /\ conversation = "open"
  /\ turns' = [t \in Rows \cup {post[p].id} |->
                 IF t = post[p].id THEN [index |-> post[p].index, answer |-> "null"] ELSE turns[t]]
  /\ post' = [post EXCEPT ![p].pc = "retrieve"]
  /\ UNCHANGED <<conversation, runLog, context, crossed, posted>>

\* retrieve_and_answer, and the second synthesis over earlier turns if there are
\* any, which may fail and leaves the draft then.  The run refers to the turn.
Retrieve(p) ==
  /\ post[p].pc = "retrieve" /\ post[p].id \in Rows
  /\ runLog' = runLog \cup {post[p].id}
  /\ \E text \in BOOLEAN : post' = [post EXCEPT ![p].pc = "answer", ![p].answer = text]
  /\ UNCHANGED <<conversation, turns, context, crossed, posted>>

\* An UPDATE by id: of no row, if the turn has been wiped.
WriteAnswer(p) ==
  /\ post[p].pc = "answer"
  /\ turns' = [t \in Rows |-> IF t = post[p].id
                THEN [turns[t] EXCEPT !.answer = IF post[p].answer THEN "text" ELSE ""]
                ELSE turns[t]]
  /\ post' = [post EXCEPT ![p] = PostAtRest]
  /\ UNCHANGED <<conversation, runLog, context, crossed, posted>>

StopPost(p) ==
  /\ post[p].pc # "idle"
  /\ post' = [post EXCEPT ![p] = PostAtRest]
  /\ UNCHANGED <<conversation, turns, runLog, context, crossed, posted>>

ConversationNext ==
  \/ StartConversation
  \/ WipeConversations
  \/ \E p \in Poster :
       \/ ReadHistory(p) \/ InsertTurn(p) \/ Retrieve(p) \/ WriteAnswer(p) \/ StopPost(p)

-----------------------------------------------------------------------------
\* A conversation replays in the order it was held: an index is used twice only
\* by posts that overlapped, and a post that died leaves no hole for a later one
\* to fall into (nor does a wipe that hits a post half way).
TurnOrder ==
  /\ \A t, u \in Rows : t # u /\ turns[t].index = turns[u].index => {t, u} \subseteq crossed
  /\ \A t, u \in Rows : t < u /\ turns[t].index > turns[u].index => {t, u} \subseteq crossed

\* A turn is resolved against answers that were there, and unless posts overlap
\* against the last ones: any earlier answer it has not seen is older than a
\* full window.
SeesLatestAnswers ==
  \A t \in Rows :
    /\ context[t] \cap Rows \subseteq Answered
    /\ t \notin crossed =>
         \A u \in Answered \ (context[t] \cup {t}) :
           turns[u].index < turns[t].index =>
             \/ u \in crossed
             \/ /\ Cardinality(context[t]) = Window
                /\ \A s \in context[t] \cap Rows : turns[s].index >= turns[u].index

\* Turns are numbered as they were asked and resolved against the latest answers.
ConversationInv == TurnOrder /\ SeesLatestAnswers

=============================================================================
