-------------------------------- MODULE AIChat --------------------------------
(***************************************************************************)
(* The AI features: one conversation of routes/aiChat/ and the requests of *)
(* its owner, beside requests of the copilot and of the assistant          *)
(* (routes/api/aiCopilot/, routes/api/aiAssistant/), and administrators    *)
(* who change the models and the settings these read.                      *)
(*                                                                         *)
(* Every awaited query and the answer of the AI service is a step, between *)
(* which other requests run: the page lets a user stop a stream, which the *)
(* server goes on reading, and edit or delete at once.  The AI service,    *)
(* MySQL and Express are external.  What the cache does is in CacheAside.  *)
(***************************************************************************)
EXTENDS Naturals, Sequences, FiniteSets

CONSTANTS
    ModelOrder,   \* the AI models, in the order of their creation
    Requests,     \* requests that may run at the same time
    Operations,   \* the operations they may be of
    MaxMessages,  \* bound of the model: messages ever stored
    MaxRequests,  \* bound of the model: requests ever made
    MaxEvents,    \* bound of the model: faults, and changes of models and settings
    Settings,     \* the models the settings may select at first, None without any
    Env,          \* the service of LLM_API_KEY and LLM_API_URL
    None

Models == {ModelOrder[i] : i \in DOMAIN ModelOrder}

AllOperations ==
    {"createConversation", "deleteConversation", "sendMessageStream", "editMessageStream",
     "editMessageOnly", "deleteMessage", "analyzeScreen", "getChatContext",
     "getChatContextStream"}

Assistants == {"getChatContext", "getChatContextStream"}

ASSUME AIChatAssumption ==
    /\ ModelOrder \in Seq(Models) /\ ModelOrder # <<>>
    /\ Operations \subseteq AllOperations
    /\ Settings \subseteq Models \union {None}
    /\ Env \notin Models /\ None \notin Models \union {Env}
    /\ {MaxMessages, MaxRequests, MaxEvents} \subseteq Nat

VARIABLES
    conversation,  \* "absent", "open" or "deleted", and its model_id
    messages,      \* the rows of ai_messages
    nextId,        \* AUTO_INCREMENT of ai_messages
    logged,        \* ids of the answers that ai_request_logs knows
    selected,      \* selected_model_id of the active settings
    active,        \* models with is_active
    live,          \* models without deleted_at
    hasKey,        \* whether LLM_API_KEY is set
    request,       \* request[r]: what r is and how far
    made,          \* requests made
    events         \* faults and changes so far

settingsVars == <<selected, active, live, hasKey>>

chatVars == <<conversation, messages, nextId, logged>>

vars == <<chatVars, settingsVars, request, made, events>>

Idle == [op |-> "none", step |-> "idle", target |-> 0, model |-> None,
         client |-> None, answer |-> 0, aborted |-> FALSE, disturbed |-> FALSE]

(* question: the user's message an assistant's row was written for.          *)
Row(id, role, question) == [id |-> id, role |-> role, question |-> question]

Ids == {m.id : m \in messages}

Init ==
    /\ \/ /\ conversation = [state |-> "absent", model |-> None]
          /\ messages = {}
          /\ nextId = 1
          /\ logged = {}
       \/ /\ conversation = [state |-> "open", model |-> ModelOrder[1]]
          /\ messages = {Row(1, "user", 1), Row(2, "assistant", 1)}
          /\ nextId = 3
          /\ logged = {2}
    /\ selected \in Settings
    /\ active = Models
    /\ live = Models
    /\ hasKey \in BOOLEAN
    /\ request = [r \in Requests |-> Idle]
    /\ made = 0
    /\ events = 0

Event ==
    /\ events < MaxEvents
    /\ events' = events + 1

(* Settings count only while the model they select is active.                *)
SettingsValid == selected \in active

FirstActive == CHOOSE i \in DOMAIN ModelOrder :
    /\ ModelOrder[i] \in active
    /\ \A j \in DOMAIN ModelOrder : ModelOrder[j] \in active => i <= j

-----------------------------------------------------------------------------
(* The shape of a request *)

At(r, ops, step) == request[r].op \in ops /\ request[r].step = step

GoTo(r, step) == request' = [request EXCEPT ![r].step = step]

Over(r) == request' = [request EXCEPT ![r] = Idle]

FirstStep(op) ==
    CASE op = "createConversation"                           -> "create"
      [] op \in {"deleteConversation", "sendMessageStream"}  -> "conversation"
      [] op \in {"editMessageStream", "editMessageOnly", "deleteMessage"} -> "message"
      [] op = "analyzeScreen"                                -> "model"
      [] op \in Assistants                                   -> "client"

(* The messages a user can name are those the page has shown.                *)
Start(r) ==
    /\ request[r] = Idle
    /\ made < MaxRequests
    /\ made' = made + 1
    /\ \E op \in Operations :
       \E id \in IF FirstStep(op) = "message" THEN 1..(nextId - 1) ELSE {0} :
          request' = [request EXCEPT ![r] = [Idle EXCEPT !.op = op, !.step = FirstStep(op),
                                                         !.target = id]]
    /\ UNCHANGED <<chatVars, settingsVars, events>>

(* The browser goes while a stream runs. The handlers listen to the          *)
(* request's close event, which Node.js before 16 emits then and later       *)
(* versions have emitted already: the handler may learn of it or not.        *)
ClientCloses(r) ==
    /\ request[r].step \in {"client", "stream", "store", "log", "touch"}
    /\ request[r].op \in {"sendMessageStream", "editMessageStream", "analyzeScreen"}
    /\ request' = [request EXCEPT ![r].aborted = TRUE]
    /\ UNCHANGED <<chatVars, settingsVars, made, events>>

(* The error handler cannot answer once the headers are sent: it throws, in  *)
(* an async function that Express 4 does not await. Nobody handles the       *)
(* rejection, which ends a Node.js process, and every request with it.       *)
ErrorHandlerThrows(r) ==
    /\ request[r].step = "thrown"
    /\ request' = [q \in Requests |-> Idle]
    /\ UNCHANGED <<chatVars, settingsVars, made, events>>

(* Mutant: the catch block writes the error event and forgets res.end().     *)
CaughtStaysOpen(r) ==
    request' = [request EXCEPT ![r].step = IF request[r].op = "editMessageStream"
                                           THEN "thrown" ELSE "stuck"]

(* The catch block around a stream: sendMessageStream ends the response, the *)
(* copilot's outer block too; editMessageStream throws on.                   *)
Caught(r) ==
    IF request[r].op = "editMessageStream" /\ ~request[r].aborted
    THEN GoTo(r, "thrown")
    ELSE Over(r)

(* A query before the headers fails: the error handler answers. Later ones   *)
(* are caught with the stream.                                               *)
QueryFails(r) ==
    /\ Event
    /\ \/ /\ request[r].step \in {"create", "insert", "conversation", "delete", "message",
                                  "details", "write", "cut", "model", "default", "config",
                                  "save", "history"}
          /\ Over(r)
       \/ /\ request[r].step \in {"store", "log", "touch"}
          /\ Caught(r)
    /\ UNCHANGED <<chatVars, settingsVars, made>>

-----------------------------------------------------------------------------
(* Which model a request uses *)

(* getAIModelConfig(): the model of the settings, or the first active one.   *)
ReadSettings(r) ==
    /\ At(r, {"sendMessageStream", "analyzeScreen"}, "model")
    /\ IF SettingsValid
       THEN request' = [request EXCEPT ![r].model = selected, ![r].step = "config"]
       ELSE GoTo(r, "default")
    /\ UNCHANGED <<chatVars, settingsVars, made, events>>

ReadDefault(r) ==
    /\ At(r, {"sendMessageStream", "analyzeScreen"}, "default")
    /\ IF active = {}
       THEN Over(r)
       ELSE request' = [request EXCEPT ![r].model = ModelOrder[FirstActive], ![r].step = "config"]
    /\ UNCHANGED <<chatVars, settingsVars, made, events>>

(* getAICompletionConfig(): temperature and length of answers.               *)
ReadCompletionConfig(r) ==
    /\ At(r, {"sendMessageStream"}, "config")
    /\ GoTo(r, "save")
    /\ UNCHANGED <<chatVars, settingsVars, made, events>>

(* analyzeScreen: the same, the context and the prompt; the headers are sent.*)
OpenScreenStream(r) ==
    /\ At(r, {"analyzeScreen"}, "config")
    /\ GoTo(r, "client")
    /\ UNCHANGED <<chatVars, settingsVars, made, events>>

(* The assistant: the same, once it has its client.                          *)
CallAssistant(r) ==
    /\ At(r, {"getChatContext"}, "config")
    /\ GoTo(r, "stream")
    /\ UNCHANGED <<chatVars, settingsVars, made, events>>

OpenAssistantStream(r) ==
    /\ At(r, {"getChatContextStream"}, "config")
    /\ GoTo(r, "stream")
    /\ UNCHANGED <<chatVars, settingsVars, made, events>>

(* The assistant takes the model from the client's settings.                 *)
WithClient(q, c) ==
    IF q.op \in Assistants
    THEN [q EXCEPT !.client = c, !.model = c, !.step = "config"]
    ELSE [q EXCEPT !.client = c, !.step = "stream"]

UseClient(r, c) == request' = [request EXCEPT ![r] = WithClient(request[r], c)]

(* Without a model or a key getOpenAIClient() throws: outside the try block  *)
(* of sendMessageStream, and into those of the others, which answer.         *)
FallBackToEnv(r) ==
    IF hasKey THEN UseClient(r, Env)
    ELSE IF request[r].op = "sendMessageStream" THEN GoTo(r, "thrown")
    ELSE Over(r)

NeedsClient(r) ==
    At(r, {"sendMessageStream", "analyzeScreen"} \union Assistants, "client")

(* Mutant: the .env comes first.                                             *)
GetClientEnvFirst(r) ==
    /\ NeedsClient(r)
    /\ IF hasKey \/ ~SettingsValid THEN FallBackToEnv(r) ELSE UseClient(r, selected)
    /\ UNCHANGED <<chatVars, settingsVars, made, events>>

(* getOpenAIClient() reads the settings for itself.                          *)
GetClient(r) ==
    /\ NeedsClient(r)
    /\ IF SettingsValid THEN UseClient(r, selected) ELSE FallBackToEnv(r)
    /\ UNCHANGED <<chatVars, settingsVars, made, events>>

(* A query that fails, or a key that cannot be decrypted, counts as none.    *)
GetClientFails(r) ==
    /\ NeedsClient(r)
    /\ Event
    /\ IF hasKey
       THEN request' = [request EXCEPT
               ![r] = [WithClient(request[r], Env) EXCEPT !.disturbed = TRUE]]
       ELSE FallBackToEnv(r)
    /\ UNCHANGED <<chatVars, settingsVars, made>>

-----------------------------------------------------------------------------
(* Conversations *)

(* The model asked for must be active and not deleted.                       *)
CheckModel(r) ==
    /\ At(r, {"createConversation"}, "create")
    /\ \/ \E m \in active \intersect live :
             request' = [request EXCEPT ![r].model = m, ![r].step = "insert"]
       \/ Over(r)
    /\ UNCHANGED <<chatVars, settingsVars, made, events>>

(* One conversation is followed: another one is another behaviour.           *)
InsertConversation(r) ==
    /\ At(r, {"createConversation"}, "insert")
    /\ conversation' = IF conversation.state = "absent"
                       THEN [state |-> "open", model |-> request[r].model]
                       ELSE conversation
    /\ Over(r)
    /\ UNCHANGED <<messages, nextId, logged, settingsVars, made, events>>

(* deleteConversation *)
FindToDelete(r) ==
    /\ At(r, {"deleteConversation"}, "conversation")
    /\ IF conversation.state = "open" THEN GoTo(r, "delete") ELSE Over(r)
    /\ UNCHANGED <<chatVars, settingsVars, made, events>>

(* deleted_at: the messages stay.                                            *)
DeleteConversation(r) ==
    /\ At(r, {"deleteConversation"}, "delete")
    /\ conversation' = [conversation EXCEPT !.state = "deleted"]
    /\ Over(r)
    /\ UNCHANGED <<messages, nextId, logged, settingsVars, made, events>>

-----------------------------------------------------------------------------
(* Messages *)

(* INSERT INTO ai_messages *)
Store(row) ==
    /\ nextId <= MaxMessages
    /\ messages' = messages \union {row}
    /\ nextId' = nextId + 1

(* DELETE FROM ai_messages: the log's foreign key cascades.                  *)
Delete(ids) ==
    /\ messages' = {m \in messages : m.id \notin ids}
    /\ logged' = logged \ ids

(* editMessageOnly, editMessageStream: messages of the user only.            *)
IsQuestion(id) ==
    conversation.state = "open" /\ \E m \in messages : m.id = id /\ m.role = "user"

FindToEditOnly(r) ==
    /\ At(r, {"editMessageOnly"}, "message")
    /\ IF IsQuestion(request[r].target) THEN GoTo(r, "write") ELSE Over(r)
    /\ UNCHANGED <<chatVars, settingsVars, made, events>>

(* UPDATE ai_messages SET content: what a message says is left out.          *)
WriteOnly(r) ==
    /\ At(r, {"editMessageOnly"}, "write")
    /\ Over(r)
    /\ UNCHANGED <<chatVars, settingsVars, made, events>>

FindMessage(r) ==
    /\ At(r, {"deleteMessage"}, "message")
    /\ IF conversation.state = "open" /\ request[r].target \in Ids
       THEN GoTo(r, "cut") ELSE Over(r)
    /\ UNCHANGED <<chatVars, settingsVars, made, events>>

(* Mutant: the message alone is deleted.                                     *)
DeleteOneMessage(r) ==
    /\ At(r, {"deleteMessage"}, "cut")
    /\ Delete({request[r].target})
    /\ Over(r)
    /\ UNCHANGED <<conversation, nextId, settingsVars, made, events>>

(* The message and all that follows.                                         *)
DeleteMessages(r) ==
    /\ At(r, {"deleteMessage"}, "cut")
    /\ Delete({id \in Ids : id >= request[r].target})
    /\ Over(r)
    /\ UNCHANGED <<conversation, nextId, settingsVars, made, events>>

-----------------------------------------------------------------------------
(* sendMessageStream *)

FindConversation(r) ==
    /\ At(r, {"sendMessageStream"}, "conversation")
    /\ IF conversation.state = "open" THEN GoTo(r, "model") ELSE Over(r)
    /\ UNCHANGED <<chatVars, settingsVars, made, events>>

SaveMessage(r) ==
    /\ At(r, {"sendMessageStream"}, "save")
    /\ Store(Row(nextId, "user", nextId))
    /\ request' = [request EXCEPT ![r].target = nextId, ![r].step = "history"]
    /\ UNCHANGED <<conversation, logged, settingsVars, made, events>>

(* The prompt is built and the headers are sent.                             *)
ReadHistory(r) ==
    /\ At(r, {"sendMessageStream"}, "history")
    /\ GoTo(r, "client")
    /\ UNCHANGED <<chatVars, settingsVars, made, events>>

(* The AI service has sent all it has to say, which is read to its end; then *)
(* the handler looks whether it knows that the client has gone.              *)
StreamEnds(r) ==
    /\ At(r, {"sendMessageStream"}, "stream")
    /\ IF request[r].aborted THEN Over(r) ELSE GoTo(r, "store")
    /\ UNCHANGED <<chatVars, settingsVars, made, events>>

StoreAnswer(r) ==
    /\ At(r, {"sendMessageStream"}, "store")
    /\ Store(Row(nextId, "assistant", request[r].target))
    /\ request' = [request EXCEPT ![r].answer = nextId, ![r].step = "log"]
    /\ UNCHANGED <<conversation, logged, settingsVars, made, events>>

(* message_id is a foreign key: the answer may be deleted by now.            *)
LogRequest(r) ==
    /\ At(r, {"sendMessageStream"}, "log")
    /\ IF request[r].answer \in Ids
       THEN logged' = logged \union {request[r].answer} /\ GoTo(r, "touch")
       ELSE Caught(r) /\ UNCHANGED logged
    /\ UNCHANGED <<conversation, messages, nextId, settingsVars, made, events>>

(* updated_at of the conversation; the done event; the activity log.         *)
TouchConversation(r) ==
    /\ At(r, {"sendMessageStream"}, "touch")
    /\ Over(r)
    /\ UNCHANGED <<chatVars, settingsVars, made, events>>

-----------------------------------------------------------------------------
(* editMessageStream *)

FindToEdit(r) ==
    /\ At(r, {"editMessageStream"}, "message")
    /\ IF IsQuestion(request[r].target) THEN GoTo(r, "details") ELSE Over(r)
    /\ UNCHANGED <<chatVars, settingsVars, made, events>>

(* Use case and model of the conversation, both outer joins; no row at all   *)
(* if the conversation is deleted by now.                                    *)
ReadDetails(r) ==
    /\ At(r, {"editMessageStream"}, "details")
    /\ LET m == IF conversation.state # "open" THEN "noRow"
                ELSE IF conversation.model \in live THEN conversation.model ELSE None
       IN request' = [request EXCEPT ![r].model = m, ![r].client = m, ![r].step = "write"]
    /\ UNCHANGED <<chatVars, settingsVars, made, events>>

WriteMessage(r) ==
    /\ At(r, {"editMessageStream"}, "write")
    /\ GoTo(r, "cut")
    /\ UNCHANGED <<chatVars, settingsVars, made, events>>

CutMessages(r) ==
    /\ At(r, {"editMessageStream"}, "cut")
    /\ Delete({id \in Ids : id > request[r].target})
    /\ GoTo(r, "history")
    /\ UNCHANGED <<conversation, nextId, settingsVars, made, events>>

(* The prompt is built and the headers are sent. Without a row the first     *)
(* fails; without a model decrypt() does, after the second.                  *)
ReadHistoryToEdit(r) ==
    /\ At(r, {"editMessageStream"}, "history")
    /\ CASE request[r].model = "noRow" -> Over(r)
         [] request[r].model = None     -> GoTo(r, "thrown")
         [] OTHER                       -> GoTo(r, "stream")
    /\ UNCHANGED <<chatVars, settingsVars, made, events>>

(* A failure of the AI service ends the stream too, with a placeholder.      *)
EditStreamEnds(r) ==
    /\ At(r, {"editMessageStream"}, "stream")
    /\ IF request[r].aborted THEN Over(r) ELSE GoTo(r, "store")
    /\ UNCHANGED <<chatVars, settingsVars, made, events>>

StoreNewAnswer(r) ==
    /\ At(r, {"editMessageStream"}, "store")
    /\ Store(Row(nextId, "assistant", request[r].target))
    /\ request' = [request EXCEPT ![r].answer = nextId, ![r].step = "log"]
    /\ UNCHANGED <<conversation, logged, settingsVars, made, events>>

(* model_id is taken from a row that was selected without it: the INSERT     *)
(* sends NULL for a NOT NULL column. What follows in the code is not reached.*)
LogNewRequest(r) ==
    /\ At(r, {"editMessageStream"}, "log")
    /\ Caught(r)
    /\ UNCHANGED <<chatVars, settingsVars, made, events>>

-----------------------------------------------------------------------------
(* The copilot and the assistant, which keep a log of their own. *)

ScreenStreamEnds(r) ==
    /\ At(r, {"analyzeScreen"}, "stream")
    /\ IF request[r].aborted THEN Over(r) ELSE GoTo(r, "record")
    /\ UNCHANGED <<chatVars, settingsVars, made, events>>

(* logScreenAnalysis() swallows its errors.                                  *)
RecordScreenAnalysis(r) ==
    /\ At(r, {"analyzeScreen"}, "record")
    /\ Over(r)
    /\ UNCHANGED <<chatVars, settingsVars, made, events>>

AssistantAnswers(r) ==
    /\ At(r, {"getChatContext"}, "stream")
    /\ Over(r)
    /\ UNCHANGED <<chatVars, settingsVars, made, events>>

AssistantStreamEnds(r) ==
    /\ At(r, {"getChatContextStream"}, "stream")
    /\ Over(r)
    /\ UNCHANGED <<chatVars, settingsVars, made, events>>

(* The AI service fails: all but editMessageStream give up.                  *)
StreamFails(r) ==
    /\ At(r, {"sendMessageStream", "analyzeScreen"} \union Assistants, "stream")
    /\ Event
    /\ Caught(r)
    /\ UNCHANGED <<chatVars, settingsVars, made>>

-----------------------------------------------------------------------------
(* Administrators *)

(* A change concerns every request that runs.                                *)
Change ==
    /\ Event
    /\ request' = [r \in Requests |-> IF request[r] = Idle THEN Idle
                                      ELSE [request[r] EXCEPT !.disturbed = TRUE]]

(* updateSettings takes active models only.                                  *)
SelectModel(m) ==
    /\ Change
    /\ m \in active
    /\ selected' = m
    /\ UNCHANGED <<chatVars, active, live, hasKey, made>>

(* updateAIModel                                                             *)
SwitchModel(m) ==
    /\ Change
    /\ m \in live
    /\ active' = IF m \in active THEN active \ {m} ELSE active \union {m}
    /\ UNCHANGED <<chatVars, selected, live, hasKey, made>>

(* deleteAIModel sets deleted_at and leaves is_active.                       *)
DeleteModel(m) ==
    /\ Change
    /\ m \in live
    /\ live' = live \ {m}
    /\ UNCHANGED <<chatVars, selected, active, hasKey, made>>

-----------------------------------------------------------------------------

Continue(r) ==
    \/ ReadSettings(r) \/ ReadDefault(r) \/ ReadCompletionConfig(r) \/ GetClient(r)
    \/ CheckModel(r) \/ InsertConversation(r) \/ FindToDelete(r) \/ DeleteConversation(r)
    \/ FindToEditOnly(r) \/ WriteOnly(r) \/ FindMessage(r) \/ DeleteMessages(r)
    \/ FindConversation(r) \/ SaveMessage(r) \/ ReadHistory(r) \/ StreamEnds(r)
    \/ StoreAnswer(r) \/ LogRequest(r) \/ TouchConversation(r)
    \/ FindToEdit(r) \/ ReadDetails(r) \/ WriteMessage(r) \/ CutMessages(r)
    \/ ReadHistoryToEdit(r) \/ EditStreamEnds(r) \/ StoreNewAnswer(r) \/ LogNewRequest(r)
    \/ OpenScreenStream(r) \/ ScreenStreamEnds(r) \/ RecordScreenAnalysis(r)
    \/ CallAssistant(r) \/ AssistantAnswers(r)
    \/ OpenAssistantStream(r) \/ AssistantStreamEnds(r)
    \/ ErrorHandlerThrows(r)

Next ==
    \/ \E r \in Requests :
          \/ Start(r)
          \/ Continue(r)
          \/ ClientCloses(r)
          \/ QueryFails(r)
          \/ GetClientFails(r)
          \/ StreamFails(r)
    \/ \E m \in Models : SelectModel(m) \/ SwitchModel(m) \/ DeleteModel(m)

Spec == Init /\ [][Next]_vars

(* The event loop goes on with every request whose query is answered, and    *)
(* the AI service ends its streams (the OpenAI client times out otherwise).  *)
(* Nobody need start a request, go away or change anything.                  *)
FairSpec == Spec /\ \A r \in Requests : WF_vars(Continue(r))

-----------------------------------------------------------------------------

(* A deletion that takes a question takes the answers it has by then: no     *)
(* answer is left behind whose question a later prompt would not contain.    *)
NoAnswerOutlivesItsQuestion ==
    [][\A a \in messages :
          a.question \in Ids /\ a.id \in Ids' => a.question \in Ids']_vars

(* getAIModelConfig() and getOpenAIClient() each read the settings, in two   *)
(* files: as long as these select an active model and nobody changes them,   *)
(* a request asks for a model at the service that serves it.                 *)
OneModelPerRequest ==
    \A r \in Requests :
       SettingsValid /\ ~request[r].disturbed /\ request[r].client # None
          => request[r].client = request[r].model

(* Every request is answered to its end, whatever fails and whoever leaves,  *)
(* or goes with its process.                                                 *)
RequestsAreAnswered ==
    \A r \in Requests : request[r] # Idle ~> request[r] = Idle
=============================================================================
