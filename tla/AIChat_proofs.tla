----------------------------- MODULE AIChat_proofs -----------------------------
(* Theorems about AIChat, for any models, requests, settings and bounds.     *)
EXTENDS AIChat, WellFoundedInduction, TLAPS

-----------------------------------------------------------------------------
(* The inductive invariant *)

Services == Models \union {Env, None, "noRow"}

Steps == {"idle", "create", "insert", "conversation", "delete", "message", "details", "write",
          "cut", "model", "default", "config", "save", "history", "client", "stream", "store",
          "log", "touch", "record", "thrown"}

RequestRecord ==
    [op : AllOperations \union {"none"}, step : Steps, target : Nat, model : Services,
     client : Services, answer : Nat, aborted : BOOLEAN, disturbed : BOOLEAN]

MessageRecord == [id : Nat, role : {"user", "assistant"}, question : Nat]

TypeOK ==
    /\ conversation \in [state : {"absent", "open", "deleted"}, model : Services]
    /\ messages \subseteq MessageRecord
    /\ nextId \in Nat \ {0}
    /\ logged \subseteq Nat
    /\ selected \in Models \union {None}
    /\ active \subseteq Models
    /\ live \subseteq Models
    /\ hasKey \in BOOLEAN
    /\ request \in [Requests -> RequestRecord]
    /\ made \in 0..MaxRequests
    /\ events \in 0..MaxEvents

(* An answer comes after its question.                                       *)
OrderInv == \A m \in messages : m.question <= m.id /\ m.id < nextId

(* The two that ask getAIModelConfig() for a model and getOpenAIClient() for *)
(* a service, and their steps from one to the other.                         *)
Streams == {"sendMessageStream", "analyzeScreen"}

Chosen == {"config", "save", "history", "client"}

(* What a request names was stored before.                                   *)
NamesOf(q) == q.target < nextId /\ q.answer < nextId

(* As long as nobody changes the settings and they are valid, a request uses *)
(* the model they select.                                                    *)
ModelOf(q) ==
    /\ q.step \in {"create", "conversation", "model", "default"} => q.client = None
    /\ SettingsValid /\ ~q.disturbed =>
          /\ q.op \in Streams => q.step # "default"
          /\ q.op \in Streams /\ q.step \in Chosen => q.model = selected
          /\ q.client # None => q.client = q.model

RequestsInv == \A r \in Requests : NamesOf(request[r]) /\ ModelOf(request[r])

Inv == TypeOK /\ OrderInv /\ RequestsInv

-----------------------------------------------------------------------------
(* The first active model *)

LEMMA Least ==
  ASSUME NEW T \in SUBSET Nat, T # {}
  PROVE  \E x \in T : \A y \in T : x <= y
<1> DEFINE R == OpToRel(<, Nat)
<1>1. IsWellFoundedOn(R, Nat)
  BY NatLessThanWellFounded
<1>2. R = {p \in Nat \X Nat : p[1] < p[2]}
  BY DEF OpToRel
<1> HIDE DEF R
<1>3. \E x \in T : \A y \in T : ~ (<<y, x>> \in R)
  BY <1>1, WFMin
<1>4. PICK x \in T : \A y \in T : ~ (<<y, x>> \in R)
  BY <1>3
<1>5. ASSUME NEW y \in T  PROVE x <= y
  <2>1. y \in Nat /\ x \in Nat /\ <<y, x>> \notin R
    BY <1>4
  <2> QED  BY <1>2, <2>1
<1> QED  BY <1>5

LEMMA FirstActiveIsOne ==
  ASSUME active \subseteq Models, active # {}
  PROVE  ModelOrder[FirstActive] \in active
<1> DEFINE T == {i \in DOMAIN ModelOrder : ModelOrder[i] \in active}
<1>1. DOMAIN ModelOrder \subseteq Nat
  BY AIChatAssumption
<1>2. T \in SUBSET Nat /\ T # {}
  BY <1>1 DEF Models
<1>3. \E i \in T : \A j \in T : i <= j
  BY <1>2, Least
<1>4. \E i \in DOMAIN ModelOrder :
         /\ ModelOrder[i] \in active
         /\ \A j \in DOMAIN ModelOrder : ModelOrder[j] \in active => i <= j
  BY <1>3
<1> QED  BY <1>4 DEF FirstActive

-----------------------------------------------------------------------------
(* What a step does to the requests *)

(* What is claimed of a request holds of an idle one.                        *)
LEMMA IdleIsFine ==
  Idle \in RequestRecord /\ Idle.target = 0 /\ Idle.answer = 0 /\ ModelOf(Idle)
<1>1. /\ Idle.op = "none" /\ Idle.step = "idle" /\ Idle.target = 0 /\ Idle.model = None
      /\ Idle.client = None /\ Idle.answer = 0 /\ Idle.aborted = FALSE
      /\ Idle.disturbed = FALSE
  BY DEF Idle
<1>2. Idle \in RequestRecord
  BY DEF Idle, RequestRecord, Services, Steps
<1> QED  BY <1>1, <1>2 DEF ModelOf, Streams, Chosen

(* One request moves, and what it comes to is fine.                          *)
LEMMA OneMoves ==
  ASSUME Inv, NEW r \in Requests, NEW q \in RequestRecord,
         q.target < nextId', q.answer < nextId', ModelOf(q),
         request' = [request EXCEPT ![r] = q],
         UNCHANGED settingsVars, nextId' \in Nat, nextId <= nextId'
  PROVE  request' \in [Requests -> RequestRecord] /\ RequestsInv'
<1>1. request \in [Requests -> RequestRecord] /\ nextId \in Nat
  BY DEF Inv, TypeOK
<1>2. request' \in [Requests -> RequestRecord]
  BY <1>1
<1>3. ASSUME NEW p \in Requests
      PROVE  NamesOf(request[p])' /\ ModelOf(request[p])'
  <2>1. selected' = selected /\ active' = active
    BY DEF settingsVars
  <2>2. CASE p = r
    <3>1. request'[p] = q
      BY <1>1, <2>2
    <3>2. NamesOf(request[p])'
      BY <3>1 DEF NamesOf
    <3>3. ModelOf(request[p])'
      BY <2>1, <3>1 DEF ModelOf, SettingsValid
    <3> QED  BY <3>2, <3>3
  <2>3. CASE p # r
    <3>1. request'[p] = request[p] /\ request[p] \in RequestRecord
      BY <1>1, <2>3
    <3>2. request[p].target \in Nat /\ request[p].answer \in Nat
      BY <3>1 DEF RequestRecord
    <3>3. NamesOf(request[p]) /\ ModelOf(request[p])
      BY DEF Inv, RequestsInv
    <3>4. NamesOf(request[p])'
      BY <1>1, <3>1, <3>2, <3>3 DEF NamesOf
    <3>5. ModelOf(request[p])'
      BY <2>1, <3>1, <3>3 DEF ModelOf, SettingsValid
    <3> QED  BY <3>4, <3>5
  <2> QED  BY <2>2, <2>3
<1> QED  BY <1>2, <1>3 DEF RequestsInv

LEMMA Ends ==
  ASSUME Inv, NEW r \in Requests, Over(r),
         UNCHANGED settingsVars, nextId' \in Nat, nextId <= nextId'
  PROVE  request' \in [Requests -> RequestRecord] /\ RequestsInv'
<1>1. PICK q : q = Idle
  OBVIOUS
<1>2. q \in RequestRecord /\ q.target = 0 /\ q.answer = 0 /\ ModelOf(q)
  BY <1>1, IdleIsFine
<1>3. request' = [request EXCEPT ![r] = q]
  BY <1>1 DEF Over
<1>4. nextId \in Nat \ {0}
  BY DEF Inv, TypeOK
<1>5. q.target < nextId' /\ q.answer < nextId'
  BY <1>2, <1>4
<1> QED  BY <1>2, <1>3, <1>5, OneMoves

(* A request goes on to step s with what it has.                             *)
LEMMA GoesTo ==
  ASSUME Inv, NEW r \in Requests, NEW s \in Steps, GoTo(r, s),
         s \in {"create", "conversation", "model", "default"} => request[r].client = None,
         s = "default" => ~SettingsValid,
         s \in Chosen /\ request[r].op \in Streams => request[r].step \in Chosen,
         UNCHANGED settingsVars, nextId' \in Nat, nextId <= nextId'
  PROVE  request' \in [Requests -> RequestRecord] /\ RequestsInv'
<1>1. PICK o : o = request[r]
  OBVIOUS
<1>2. PICK q : q = [o EXCEPT !.step = s]
  OBVIOUS
<1>3. /\ request \in [Requests -> RequestRecord] /\ nextId \in Nat
      /\ o \in RequestRecord /\ NamesOf(o) /\ ModelOf(o)
  BY <1>1 DEF Inv, TypeOK, RequestsInv
<1>4. /\ q \in RequestRecord /\ q.op = o.op /\ q.step = s /\ q.target = o.target
      /\ q.model = o.model /\ q.client = o.client /\ q.answer = o.answer
      /\ q.disturbed = o.disturbed /\ o.target \in Nat /\ o.answer \in Nat
  BY <1>2, <1>3 DEF RequestRecord
<1>5. request' = [request EXCEPT ![r] = q]
  BY <1>1, <1>2, <1>3 DEF GoTo
<1>6. q.target < nextId' /\ q.answer < nextId'
  BY <1>3, <1>4 DEF NamesOf
<1>7. ModelOf(q)
  BY <1>1, <1>3, <1>4 DEF ModelOf
<1> QED  BY <1>4, <1>5, <1>6, <1>7, OneMoves

(* The steps that leave the settings alone, by where they lead.              *)
Answers(r) ==
    \/ InsertConversation(r) \/ DeleteConversation(r) \/ WriteOnly(r) \/ DeleteMessages(r)
    \/ TouchConversation(r) \/ RecordScreenAnalysis(r) \/ AssistantAnswers(r)
    \/ AssistantStreamEnds(r)

Looks(r) ==
    \/ FindToDelete(r) \/ FindToEditOnly(r) \/ FindMessage(r) \/ FindConversation(r)
    \/ FindToEdit(r) \/ StreamEnds(r) \/ EditStreamEnds(r) \/ ScreenStreamEnds(r)
    \/ ReadHistoryToEdit(r)

Proceeds(r) ==
    \/ ReadCompletionConfig(r) \/ OpenScreenStream(r) \/ CallAssistant(r)
    \/ OpenAssistantStream(r) \/ ReadHistory(r) \/ WriteMessage(r) \/ CutMessages(r)

Logs(r) == LogRequest(r) \/ LogNewRequest(r) \/ StreamFails(r) \/ QueryFails(r)

Chooses(r) ==
    \/ ReadSettings(r) \/ ReadDefault(r) \/ CheckModel(r) \/ ReadDetails(r)
    \/ GetClient(r) \/ GetClientFails(r)

Stores(r) == SaveMessage(r) \/ StoreAnswer(r) \/ StoreNewAnswer(r)

LEMMA AnswersKeep ==
  ASSUME Inv, NEW r \in Requests, Answers(r)
  PROVE  request' \in [Requests -> RequestRecord] /\ RequestsInv'
<1>1. Over(r) /\ UNCHANGED settingsVars /\ nextId' = nextId
  BY DEF Answers, InsertConversation, DeleteConversation, WriteOnly, DeleteMessages,
     TouchConversation, RecordScreenAnalysis, AssistantAnswers, AssistantStreamEnds, chatVars
<1>2. nextId \in Nat
  BY DEF Inv, TypeOK
<1> QED  BY <1>1, <1>2, Ends

LEMMA LooksKeep ==
  ASSUME Inv, NEW r \in Requests, Looks(r)
  PROVE  request' \in [Requests -> RequestRecord] /\ RequestsInv'
<1>1. nextId \in Nat /\ ModelOf(request[r])
  BY DEF Inv, TypeOK, RequestsInv
<1>2. UNCHANGED settingsVars /\ nextId' = nextId
  BY DEF Looks, FindToDelete, FindToEditOnly, FindMessage, FindConversation, FindToEdit,
     StreamEnds, EditStreamEnds, ScreenStreamEnds, ReadHistoryToEdit, chatVars
<1>3. CASE Over(r)
  BY <1>1, <1>2, <1>3, Ends
<1>4. CASE ~Over(r)
  <2>1. \/ request[r].step = "conversation" /\ GoTo(r, "model")
        \/ \E s \in {"delete", "write", "cut", "details", "store", "record", "thrown",
                     "stream"} : GoTo(r, s)
    BY <1>4 DEF Looks, FindToDelete, FindToEditOnly, FindMessage, FindConversation, FindToEdit,
       StreamEnds, EditStreamEnds, ScreenStreamEnds, ReadHistoryToEdit, At
  <2>2. CASE request[r].step = "conversation" /\ GoTo(r, "model")
    <3>1. request[r].client = None
      BY <1>1, <2>2 DEF ModelOf
    <3> QED  BY <1>1, <1>2, <2>2, <3>1, GoesTo DEF Steps, Chosen
  <2>3. ASSUME NEW s \in {"delete", "write", "cut", "details", "store", "record", "thrown",
                          "stream"}, GoTo(r, s)
        PROVE  request' \in [Requests -> RequestRecord] /\ RequestsInv'
    <3>1. /\ s \in Steps /\ s \notin Chosen /\ s # "default"
          /\ s \notin {"create", "conversation", "model", "default"}
      BY DEF Steps, Chosen
    <3> QED  BY <1>1, <1>2, <2>3, <3>1, GoesTo
  <2> QED  BY <2>1, <2>2, <2>3
<1> QED  BY <1>3, <1>4

LEMMA ProceedsKeep ==
  ASSUME Inv, NEW r \in Requests, Proceeds(r)
  PROVE  request' \in [Requests -> RequestRecord] /\ RequestsInv'
<1>1. nextId \in Nat
  BY DEF Inv, TypeOK
<1>2. UNCHANGED settingsVars /\ nextId' = nextId
  BY DEF Proceeds, ReadCompletionConfig, OpenScreenStream, CallAssistant, OpenAssistantStream,
     ReadHistory, WriteMessage, CutMessages, chatVars
<1>3. \E s \in {"save", "client", "stream", "cut", "history"} :
         /\ GoTo(r, s)
         /\ request[r].op \in Streams => request[r].step \in Chosen
  BY DEF Proceeds, ReadCompletionConfig, OpenScreenStream, CallAssistant, OpenAssistantStream,
     ReadHistory, WriteMessage, CutMessages, At, Streams, Chosen
<1>4. PICK s \in {"save", "client", "stream", "cut", "history"} :
         /\ GoTo(r, s)
         /\ request[r].op \in Streams => request[r].step \in Chosen
  BY <1>3
<1>5. s \in Steps /\ s # "default" /\ s \notin {"create", "conversation", "model", "default"}
  BY DEF Steps
<1> QED  BY <1>1, <1>2, <1>4, <1>5, GoesTo

LEMMA LogsKeep ==
  ASSUME Inv, NEW r \in Requests, Logs(r)
  PROVE  request' \in [Requests -> RequestRecord] /\ RequestsInv'
<1>1. nextId \in Nat
  BY DEF Inv, TypeOK
<1>2. UNCHANGED settingsVars /\ nextId' = nextId
  BY DEF Logs, LogRequest, LogNewRequest, StreamFails, QueryFails, chatVars
<1>3. Over(r) \/ GoTo(r, "thrown") \/ GoTo(r, "touch")
  BY DEF Logs, LogRequest, LogNewRequest, StreamFails, QueryFails, Caught
<1>4. CASE Over(r)
  BY <1>1, <1>2, <1>4, Ends
<1>5. ASSUME NEW s \in {"thrown", "touch"}, GoTo(r, s)
      PROVE  request' \in [Requests -> RequestRecord] /\ RequestsInv'
  <2>1. /\ s \in Steps /\ s \notin Chosen /\ s # "default"
        /\ s \notin {"create", "conversation", "model", "default"}
    BY DEF Steps, Chosen
  <2> QED  BY <1>1, <1>2, <1>5, <2>1, GoesTo
<1> QED  BY <1>3, <1>4, <1>5

LEMMA StoresKeep ==
  ASSUME Inv, NEW r \in Requests, Stores(r)
  PROVE  request' \in [Requests -> RequestRecord] /\ RequestsInv'
<1>1. PICK o, n : o = request[r] /\ n = nextId
  OBVIOUS
<1>2. /\ request \in [Requests -> RequestRecord] /\ n \in Nat \ {0}
      /\ o \in RequestRecord /\ NamesOf(o) /\ ModelOf(o)
  BY <1>1 DEF Inv, TypeOK, RequestsInv
<1>3. UNCHANGED settingsVars /\ nextId' = n + 1
  BY <1>1 DEF Stores, SaveMessage, StoreAnswer, StoreNewAnswer, Store
<1>4. nextId' \in Nat /\ nextId <= nextId'
  BY <1>1, <1>2, <1>3
<1>5. CASE SaveMessage(r)
  <2>1. PICK q : q = [o EXCEPT !.target = n, !.step = "history"]
    OBVIOUS
  <2>2. o.op = "sendMessageStream" /\ o.step = "save" /\ request' = [request EXCEPT ![r] = q]
    BY <1>1, <1>2, <1>5, <2>1 DEF SaveMessage, At
  <2>3. /\ q \in RequestRecord /\ q.op = o.op /\ q.step = "history" /\ q.target = n
        /\ q.model = o.model /\ q.client = o.client /\ q.answer = o.answer
        /\ q.disturbed = o.disturbed /\ o.answer \in Nat
    BY <1>2, <2>1 DEF RequestRecord, Steps
  <2>4. q.target < nextId' /\ q.answer < nextId'
    BY <1>1, <1>2, <1>3, <2>3 DEF NamesOf
  <2>5. ModelOf(q)
    BY <1>2, <2>2, <2>3 DEF ModelOf, Streams, Chosen
  <2> QED  BY <1>3, <1>4, <2>2, <2>3, <2>4, <2>5, OneMoves
<1>6. CASE StoreAnswer(r) \/ StoreNewAnswer(r)
  <2>1. PICK q : q = [o EXCEPT !.answer = n, !.step = "log"]
    OBVIOUS
  <2>2. o.step = "store" /\ request' = [request EXCEPT ![r] = q]
    BY <1>1, <1>2, <1>6, <2>1 DEF StoreAnswer, StoreNewAnswer, At
  <2>3. /\ q \in RequestRecord /\ q.op = o.op /\ q.step = "log" /\ q.target = o.target
        /\ q.model = o.model /\ q.client = o.client /\ q.answer = n
        /\ q.disturbed = o.disturbed /\ o.target \in Nat
    BY <1>2, <2>1 DEF RequestRecord, Steps
  <2>4. q.target < nextId' /\ q.answer < nextId'
    BY <1>1, <1>2, <1>3, <2>3 DEF NamesOf
  <2>5. ModelOf(q)
    BY <1>2, <2>2, <2>3 DEF ModelOf, Chosen
  <2> QED  BY <1>3, <1>4, <2>2, <2>3, <2>4, <2>5, OneMoves
<1> QED  BY <1>5, <1>6 DEF Stores

(* A request gets its client where the settings do not disagree.             *)
LEMMA UsesClient ==
  ASSUME Inv, NEW r \in Requests, NEW c \in Services, NeedsClient(r),
         NEW d \in BOOLEAN, d \/ request[r].disturbed \/ ~SettingsValid \/ c = selected,
         request' = [request EXCEPT ![r] =
                        [WithClient(request[r], c) EXCEPT !.disturbed = d \/ request[r].disturbed]],
         UNCHANGED settingsVars, nextId' = nextId
  PROVE  request' \in [Requests -> RequestRecord] /\ RequestsInv'
<1>1. PICK o : o = request[r]
  OBVIOUS
<1>2. /\ request \in [Requests -> RequestRecord] /\ nextId \in Nat
      /\ o \in RequestRecord /\ NamesOf(o) /\ ModelOf(o)
  BY <1>1 DEF Inv, TypeOK, RequestsInv
<1>3. o.step = "client" /\ (o.op \in Streams \/ o.op \in Assistants)
  BY <1>1 DEF NeedsClient, At, Streams, Assistants
<1>4. PICK b \in BOOLEAN : b = (d \/ o.disturbed)
  OBVIOUS
<1>5. PICK q : q = [WithClient(o, c) EXCEPT !.disturbed = b]
  OBVIOUS
<1>6. /\ q \in RequestRecord /\ q.op = o.op /\ q.target = o.target /\ q.client = c
      /\ q.answer = o.answer /\ q.disturbed = b
      /\ o.op \in Assistants => q.step = "config" /\ q.model = c
      /\ o.op \notin Assistants => q.step = "stream" /\ q.model = o.model
  BY <1>2, <1>5 DEF WithClient, RequestRecord, Steps
<1>7. request' = [request EXCEPT ![r] = q]
  BY <1>1, <1>4, <1>5
<1>8. q.target < nextId' /\ q.answer < nextId'
  BY <1>2, <1>6 DEF NamesOf
<1>9. Assistants \intersect Streams = {}
  BY DEF Assistants, Streams
<1>10. ModelOf(q)
  <2>1. CASE o.op \in Assistants
    BY <1>6, <1>9, <2>1 DEF ModelOf
  <2>2. CASE o.op \in Streams
    <3>1. q.step = "stream" /\ q.model = o.model
      BY <1>6, <1>9, <2>2
    <3>2. SettingsValid /\ ~b => q.model = c
      BY <1>1, <1>2, <1>3, <1>4, <2>2, <3>1 DEF ModelOf, Chosen
    <3> QED  BY <1>4, <1>6, <3>1, <3>2 DEF ModelOf, Chosen
  <2> QED  BY <1>3, <2>1, <2>2
<1>11. nextId' \in Nat /\ nextId <= nextId'
  BY <1>2
<1> QED  BY <1>6, <1>7, <1>8, <1>10, <1>11, OneMoves

LEMMA FallsBack ==
  ASSUME Inv, NEW r \in Requests, NeedsClient(r), FallBackToEnv(r),
         ~hasKey \/ ~SettingsValid, UNCHANGED settingsVars, nextId' = nextId
  PROVE  request' \in [Requests -> RequestRecord] /\ RequestsInv'
<1>1. nextId \in Nat /\ request \in [Requests -> RequestRecord] /\ Env \in Services
  BY DEF Inv, TypeOK, Services
<1>2. CASE Over(r)
  BY <1>1, <1>2, Ends
<1>3. CASE GoTo(r, "thrown")
  BY <1>1, <1>3, GoesTo DEF Steps, Chosen
<1>4. CASE hasKey /\ UseClient(r, Env)
  <2>1. WithClient(request[r], Env) =
           [WithClient(request[r], Env) EXCEPT !.disturbed = FALSE \/ request[r].disturbed]
    BY <1>1 DEF WithClient, RequestRecord
  <2> QED  BY <1>1, <1>4, <2>1, UsesClient DEF UseClient
<1> QED  BY <1>2, <1>3, <1>4 DEF FallBackToEnv

(* A request is given a model m, and a client c if any, at a step past the   *)
(* choice: m is the one selected where the settings hold, or there is none.  *)
LEMMA TakesModel ==
  ASSUME Inv, NEW r \in Requests, NEW m \in Services, NEW c \in Services,
         NEW s \in {"config", "insert", "write"},
         request' = [request EXCEPT ![r].model = m, ![r].client = c, ![r].step = s],
         c = None \/ c = m,
         request[r].op \in Streams /\ SettingsValid /\ ~request[r].disturbed => m = selected,
         UNCHANGED settingsVars, nextId' = nextId
  PROVE  request' \in [Requests -> RequestRecord] /\ RequestsInv'
<1>1. PICK o : o = request[r]
  OBVIOUS
<1>2. /\ request \in [Requests -> RequestRecord] /\ nextId \in Nat
      /\ o \in RequestRecord /\ NamesOf(o) /\ ModelOf(o)
  BY <1>1 DEF Inv, TypeOK, RequestsInv
<1>3. PICK q : q = [o EXCEPT !.model = m, !.client = c, !.step = s]
  OBVIOUS
<1>4. request' = [request EXCEPT ![r] = q]
  BY <1>1, <1>2, <1>3
<1>5. /\ q \in RequestRecord /\ q.op = o.op /\ q.step = s /\ q.target = o.target
      /\ q.model = m /\ q.client = c /\ q.answer = o.answer /\ q.disturbed = o.disturbed
  BY <1>2, <1>3 DEF RequestRecord, Steps
<1>6. q.target < nextId' /\ q.answer < nextId'
  BY <1>2, <1>5 DEF NamesOf
<1>7. ModelOf(q)
  BY <1>1, <1>5 DEF ModelOf
<1>8. nextId' \in Nat /\ nextId <= nextId'
  BY <1>2
<1> QED  BY <1>4, <1>5, <1>6, <1>7, <1>8, OneMoves

LEMMA ChoosesKeep ==
  ASSUME Inv, NEW r \in Requests, Chooses(r)
  PROVE  request' \in [Requests -> RequestRecord] /\ RequestsInv'
<1>1. /\ nextId \in Nat /\ selected \in Models \union {None} /\ active \subseteq Models
      /\ live \subseteq Models /\ request \in [Requests -> RequestRecord]
      /\ request[r] \in RequestRecord /\ ModelOf(request[r])
      /\ conversation.model \in Services
  BY DEF Inv, TypeOK, RequestsInv
<1>2. UNCHANGED settingsVars /\ nextId' = nextId
  BY DEF Chooses, ReadSettings, ReadDefault, CheckModel, ReadDetails, GetClient,
     GetClientFails, chatVars
<1>3. Models \subseteq Services /\ None \in Services /\ Env \in Services /\ "noRow" \in Services
  BY DEF Services
<1>4. ASSUME request[r].step \in {"create", "conversation", "model", "default"},
             NEW m, NEW s,
             request' = [request EXCEPT ![r].model = m, ![r].step = s]
      PROVE  request' = [request EXCEPT ![r].model = m, ![r].client = None, ![r].step = s]
  <2>1. request[r].client = None
    BY <1>1, <1>4 DEF ModelOf
  <2>2. [request[r] EXCEPT !.model = m, !.step = s]
           = [request[r] EXCEPT !.model = m, !.client = None, !.step = s]
    BY <1>1, <2>1 DEF RequestRecord
  <2>3. request' = [request EXCEPT ![r] = [request[r] EXCEPT !.model = m, !.step = s]]
    BY <1>1, <1>4
  <2> QED  BY <1>1, <2>2, <2>3
<1>5. CASE ReadSettings(r)
  <2>1. request[r].step = "model" /\ request[r].client = None
    BY <1>1, <1>5 DEF ReadSettings, At, ModelOf
  <2>2. CASE SettingsValid
    <3>1. request' = [request EXCEPT ![r].model = selected, ![r].client = None,
                                     ![r].step = "config"]
      BY <1>4, <1>5, <2>1, <2>2 DEF ReadSettings
    <3>2. selected \in Services
      BY <1>1, <1>3
    <3> QED  BY <1>2, <1>3, <3>1, <3>2, TakesModel
  <2>3. CASE ~SettingsValid
    <3>1. GoTo(r, "default")
      BY <1>5, <2>3 DEF ReadSettings
    <3> QED  BY <1>1, <1>2, <2>1, <2>3, <3>1, GoesTo DEF Steps, Chosen
  <2> QED  BY <2>2, <2>3
<1>6. CASE ReadDefault(r)
  <2>1. request[r].step = "default" /\ request[r].op \in Streams
    BY <1>6 DEF ReadDefault, At, Streams
  <2>2. CASE active = {}
    BY <1>1, <1>2, <1>6, <2>2, Ends DEF ReadDefault
  <2>3. CASE active # {}
    <3>1. ModelOrder[FirstActive] \in Services
      BY <1>1, <1>3, <2>3, FirstActiveIsOne
    <3>2. request' = [request EXCEPT ![r].model = ModelOrder[FirstActive],
                                     ![r].client = None, ![r].step = "config"]
      BY <1>4, <1>6, <2>1, <2>3 DEF ReadDefault
    <3>3. ~SettingsValid \/ request[r].disturbed
      BY <1>1, <2>1 DEF ModelOf
    <3> QED  BY <1>2, <1>3, <3>1, <3>2, <3>3, TakesModel
  <2> QED  BY <2>2, <2>3
<1>7. CASE CheckModel(r)
  <2>1. request[r].step = "create" /\ request[r].op \notin Streams
    BY <1>7 DEF CheckModel, At, Streams
  <2>2. ASSUME NEW m \in active,
               request' = [request EXCEPT ![r].model = m, ![r].step = "insert"]
        PROVE  request' \in [Requests -> RequestRecord] /\ RequestsInv'
    <3>1. request' = [request EXCEPT ![r].model = m, ![r].client = None, ![r].step = "insert"]
      BY <1>4, <2>1, <2>2
    <3>2. m \in Services
      BY <1>1, <1>3
    <3> QED  BY <1>2, <1>3, <2>1, <3>1, <3>2, TakesModel
  <2>3. CASE Over(r)
    BY <1>1, <1>2, <2>3, Ends
  <2> QED  BY <1>7, <2>2, <2>3 DEF CheckModel
<1>8. CASE ReadDetails(r)
  <2>1. PICK m : /\ m = (IF conversation.state # "open" THEN "noRow"
                         ELSE IF conversation.model \in live THEN conversation.model ELSE None)
                 /\ request' = [request EXCEPT ![r].model = m, ![r].client = m, ![r].step = "write"]
    BY <1>8 DEF ReadDetails
  <2>2. m \in Services
    BY <1>1, <1>3, <2>1
  <2>3. request[r].op \notin Streams
    BY <1>8 DEF ReadDetails, At, Streams
  <2> QED  BY <1>2, <2>1, <2>2, <2>3, TakesModel
<1>9. CASE GetClient(r)
  <2>1. CASE SettingsValid
    <3>1. NeedsClient(r) /\ UseClient(r, selected) /\ selected \in Services
      BY <1>1, <1>3, <1>9, <2>1 DEF GetClient
    <3>2. WithClient(request[r], selected) =
             [WithClient(request[r], selected) EXCEPT !.disturbed = FALSE \/ request[r].disturbed]
      BY <1>1 DEF WithClient, RequestRecord
    <3> QED  BY <1>2, <3>1, <3>2, UsesClient DEF UseClient
  <2>2. CASE ~SettingsValid
    <3>1. NeedsClient(r) /\ FallBackToEnv(r)
      BY <1>9, <2>2 DEF GetClient
    <3> QED  BY <1>2, <2>2, <3>1, FallsBack
  <2> QED  BY <2>1, <2>2
<1>10. CASE GetClientFails(r)
  <2>1. CASE hasKey
    <3>1. /\ NeedsClient(r)
          /\ request' = [request EXCEPT
                ![r] = [WithClient(request[r], Env) EXCEPT !.disturbed = TRUE]]
      BY <1>10, <2>1 DEF GetClientFails
    <3>2. TRUE = (TRUE \/ request[r].disturbed)
      OBVIOUS
    <3>3. request' = [request EXCEPT ![r] =
                        [WithClient(request[r], Env) EXCEPT !.disturbed = TRUE \/ request[r].disturbed]]
      BY <3>1, <3>2
    <3> QED  BY <1>2, <1>3, <3>1, <3>3, UsesClient
  <2>2. CASE ~hasKey
    <3>1. NeedsClient(r) /\ FallBackToEnv(r)
      BY <1>10, <2>2 DEF GetClientFails
    <3> QED  BY <1>2, <2>2, <3>1, FallsBack
  <2> QED  BY <2>1, <2>2
<1> QED  BY <1>5, <1>6, <1>7, <1>8, <1>9, <1>10 DEF Chooses

LEMMA StartKeeps ==
  ASSUME Inv, NEW r \in Requests, Start(r)
  PROVE  request' \in [Requests -> RequestRecord] /\ RequestsInv'
<1>1. /\ request \in [Requests -> RequestRecord] /\ nextId \in Nat \ {0}
      /\ UNCHANGED settingsVars /\ nextId' = nextId
  BY DEF Inv, TypeOK, Start, chatVars
<1>2. PICK op \in Operations :
         \E id \in IF FirstStep(op) = "message" THEN 1..(nextId - 1) ELSE {0} :
            request' = [request EXCEPT ![r] = [Idle EXCEPT !.op = op, !.step = FirstStep(op),
                                                           !.target = id]]
  BY DEF Start
<1>3. PICK id \in IF FirstStep(op) = "message" THEN 1..(nextId - 1) ELSE {0} :
         request' = [request EXCEPT ![r] = [Idle EXCEPT !.op = op, !.step = FirstStep(op),
                                                        !.target = id]]
  BY <1>2
<1>4. op \in AllOperations
  BY AIChatAssumption
<1>5. PICK s : s = FirstStep(op)
  OBVIOUS
<1>6. s \in Steps /\ s # "default" /\ (op \in Streams => s \notin Chosen)
  BY <1>4, <1>5 DEF FirstStep, AllOperations, Assistants, Steps, Streams, Chosen
<1>7. PICK q : q = [Idle EXCEPT !.op = op, !.step = s, !.target = id]
  OBVIOUS
<1>8. id \in Nat /\ id < nextId /\ None \in Services /\ 0 < nextId
  BY <1>1, <1>3 DEF Services
<1>9. /\ q \in RequestRecord /\ q.op = op /\ q.step = s /\ q.target = id /\ q.model = None
      /\ q.client = None /\ q.answer = 0 /\ q.disturbed = FALSE
  BY <1>4, <1>6, <1>7, <1>8 DEF RequestRecord, Idle
<1>10. ModelOf(q)
  BY <1>6, <1>9 DEF ModelOf
<1>11. request' = [request EXCEPT ![r] = q]
  BY <1>3, <1>5, <1>7
<1>12. q.target < nextId' /\ q.answer < nextId' /\ nextId' \in Nat /\ nextId <= nextId'
  BY <1>1, <1>8, <1>9
<1> QED  BY <1>1, <1>9, <1>10, <1>11, <1>12, OneMoves

LEMMA ClosesKeep ==
  ASSUME Inv, NEW r \in Requests, ClientCloses(r)
  PROVE  request' \in [Requests -> RequestRecord] /\ RequestsInv'
<1>1. PICK o, q : o = request[r] /\ q = [o EXCEPT !.aborted = TRUE]
  OBVIOUS
<1>2. /\ request \in [Requests -> RequestRecord] /\ nextId \in Nat
      /\ o \in RequestRecord /\ NamesOf(o) /\ ModelOf(o)
      /\ UNCHANGED settingsVars /\ nextId' = nextId
  BY <1>1 DEF Inv, TypeOK, RequestsInv, ClientCloses, chatVars
<1>3. request' = [request EXCEPT ![r] = q]
  BY <1>1, <1>2 DEF ClientCloses
<1>4. /\ q \in RequestRecord /\ q.op = o.op /\ q.step = o.step /\ q.target = o.target
      /\ q.model = o.model /\ q.client = o.client /\ q.answer = o.answer
      /\ q.disturbed = o.disturbed
  BY <1>1, <1>2 DEF RequestRecord
<1>5. q.target < nextId' /\ q.answer < nextId' /\ nextId' \in Nat /\ nextId <= nextId'
  BY <1>2, <1>4 DEF NamesOf
<1>6. ModelOf(q)
  BY <1>2, <1>4 DEF ModelOf
<1> QED  BY <1>2, <1>3, <1>4, <1>5, <1>6, OneMoves

LEMMA ThrowsKeep ==
  ASSUME Inv, NEW r \in Requests, ErrorHandlerThrows(r)
  PROVE  request' \in [Requests -> RequestRecord] /\ RequestsInv'
<1>1. \A p \in Requests : request'[p] = Idle
  BY DEF ErrorHandlerThrows
<1>2. nextId' = nextId /\ nextId \in Nat \ {0}
  BY DEF Inv, TypeOK, ErrorHandlerThrows, chatVars
<1>3. request' \in [Requests -> RequestRecord]
  BY IdleIsFine DEF ErrorHandlerThrows
<1>4. /\ Idle.op = "none" /\ Idle.step = "idle" /\ Idle.target = 0 /\ Idle.client = None
      /\ Idle.model = None /\ Idle.answer = 0
  BY DEF Idle
<1>5. ASSUME NEW p \in Requests  PROVE NamesOf(request[p])' /\ ModelOf(request[p])'
  <2>1. NamesOf(request[p])'
    BY <1>1, <1>2, <1>4 DEF NamesOf
  <2>2. ModelOf(request[p])'
    BY <1>1, <1>4 DEF ModelOf, Streams, Chosen
  <2> QED  BY <2>1, <2>2
<1> QED  BY <1>3, <1>5 DEF RequestsInv

(* After a change, every request that runs is disturbed.                     *)
LEMMA ChangeKeeps ==
  ASSUME Inv, Change, nextId' = nextId
  PROVE  request' \in [Requests -> RequestRecord] /\ RequestsInv'
<1>1. request \in [Requests -> RequestRecord] /\ nextId \in Nat \ {0}
  BY DEF Inv, TypeOK
<1>2. ASSUME NEW p \in Requests
      PROVE  request'[p] \in RequestRecord /\ NamesOf(request[p])' /\ ModelOf(request[p])'
  <2>1. PICK o : o = request[p]
    OBVIOUS
  <2>2. o \in RequestRecord /\ NamesOf(o) /\ ModelOf(o)
    BY <1>1, <2>1 DEF Inv, RequestsInv
  <2>3. CASE o = Idle
    <3>1. request'[p] = Idle
      BY <2>1, <2>3 DEF Change
    <3>2. /\ Idle.op = "none" /\ Idle.step = "idle" /\ Idle.target = 0 /\ Idle.client = None
          /\ Idle.model = None /\ Idle.answer = 0
      BY DEF Idle
    <3>3. NamesOf(request[p])'
      BY <1>1, <3>1, <3>2 DEF NamesOf
    <3>4. ModelOf(request[p])'
      BY <3>1, <3>2 DEF ModelOf, Streams, Chosen
    <3> QED  BY <3>1, <3>3, <3>4, IdleIsFine
  <2>4. CASE o # Idle
    <3>1. PICK q : q = [o EXCEPT !.disturbed = TRUE]
      OBVIOUS
    <3>2. request'[p] = q
      BY <2>1, <2>4, <3>1 DEF Change
    <3>3. /\ q \in RequestRecord /\ q.step = o.step /\ q.target = o.target
          /\ q.client = o.client /\ q.answer = o.answer /\ q.disturbed = TRUE
      BY <2>2, <3>1 DEF RequestRecord
    <3>4. NamesOf(request[p])'
      BY <2>2, <3>2, <3>3 DEF NamesOf
    <3>5. ModelOf(request[p])'
      BY <2>2, <3>2, <3>3 DEF ModelOf
    <3> QED  BY <3>2, <3>3, <3>4, <3>5
  <2> QED  BY <2>3, <2>4
<1>3. request' \in [Requests -> RequestRecord]
  <2>1. request' = [p \in Requests |-> request'[p]]
    BY DEF Change
  <2> QED  BY <1>2, <2>1
<1> QED  BY <1>2, <1>3 DEF RequestsInv

Changes(m) == SelectModel(m) \/ SwitchModel(m) \/ DeleteModel(m)

Moves(r) ==
    \/ Start(r) \/ ClientCloses(r) \/ ErrorHandlerThrows(r) \/ Answers(r) \/ Looks(r)
    \/ Proceeds(r) \/ Logs(r) \/ Chooses(r) \/ Stores(r)

(* The steps of Next, by what they do.                                       *)
LEMMA StepsByEffect ==
  ASSUME Next
  PROVE  \/ \E r \in Requests : Moves(r)
         \/ \E m \in Models : Changes(m)
  BY DEF Moves, Next, Continue, Answers, Looks, Proceeds, Logs, Chooses, Stores, Changes

(* Which steps change what.                                                  *)
LEMMA Frames ==
  ASSUME NEW r \in Requests, Moves(r)
  PROVE  /\ InsertConversation(r) \/ DeleteConversation(r) \/ conversation' = conversation
         /\ LogRequest(r) \/ DeleteMessages(r) \/ CutMessages(r) \/ logged' = logged
         /\ \/ Stores(r) \/ DeleteMessages(r) \/ CutMessages(r)
            \/ messages' = messages /\ nextId' = nextId
         /\ UNCHANGED settingsVars
<1>1. Start(r) \/ ClientCloses(r) \/ ErrorHandlerThrows(r) => UNCHANGED <<chatVars, settingsVars>>
  BY DEF Start, ClientCloses, ErrorHandlerThrows
<1>2. Looks(r) => UNCHANGED <<chatVars, settingsVars>>
  BY DEF Looks, FindToDelete, FindToEditOnly, FindMessage, FindConversation, FindToEdit,
     StreamEnds, EditStreamEnds, ScreenStreamEnds, ReadHistoryToEdit
<1>3. Chooses(r) => UNCHANGED <<chatVars, settingsVars>>
  BY DEF Chooses, ReadSettings, ReadDefault, CheckModel, ReadDetails, GetClient, GetClientFails
<1>4. Logs(r) =>
         /\ UNCHANGED <<conversation, messages, nextId, settingsVars>>
         /\ LogRequest(r) \/ logged' = logged
  BY DEF Logs, LogRequest, LogNewRequest, StreamFails, QueryFails, chatVars
<1>5. Stores(r) => UNCHANGED <<conversation, logged, settingsVars>>
  BY DEF Stores, SaveMessage, StoreAnswer, StoreNewAnswer
<1>6. Answers(r) =>
         /\ UNCHANGED settingsVars
         /\ InsertConversation(r) \/ DeleteConversation(r) \/ conversation' = conversation
         /\ DeleteMessages(r) \/ UNCHANGED <<messages, nextId, logged>>
  BY DEF Answers, InsertConversation, DeleteConversation, DeleteMessages, WriteOnly,
     TouchConversation, RecordScreenAnalysis, AssistantAnswers, AssistantStreamEnds, chatVars
<1>7. Proceeds(r) =>
         /\ UNCHANGED <<conversation, settingsVars>>
         /\ CutMessages(r) \/ UNCHANGED <<messages, nextId, logged>>
  BY DEF Proceeds, ReadCompletionConfig, OpenScreenStream, CallAssistant, OpenAssistantStream,
     ReadHistory, WriteMessage, CutMessages, chatVars
<1> QED  BY <1>1, <1>2, <1>3, <1>4, <1>5, <1>6, <1>7 DEF Moves, chatVars

LEMMA Effects ==
  ASSUME Next
  PROVE  /\ \/ \E r \in Requests : InsertConversation(r) \/ DeleteConversation(r)
            \/ conversation' = conversation
         /\ \/ \E r \in Requests : LogRequest(r) \/ DeleteMessages(r) \/ CutMessages(r)
            \/ logged' = logged
         /\ \/ \E r \in Requests : Stores(r) \/ DeleteMessages(r) \/ CutMessages(r)
            \/ messages' = messages /\ nextId' = nextId
         /\ \/ \E m \in Models : Changes(m)
            \/ UNCHANGED settingsVars
<1>1. ASSUME NEW m \in Models, Changes(m)
      PROVE  UNCHANGED <<conversation, messages, nextId, logged>>
  BY <1>1 DEF Changes, SelectModel, SwitchModel, DeleteModel, chatVars
<1> QED  BY <1>1, Frames, StepsByEffect

LEMMA RequestsStep ==
  ASSUME Inv, Next
  PROVE  request' \in [Requests -> RequestRecord] /\ RequestsInv'
<1>1. ASSUME NEW m \in Models, Changes(m)
      PROVE  request' \in [Requests -> RequestRecord] /\ RequestsInv'
  <2>1. Change /\ nextId' = nextId
    BY <1>1 DEF Changes, SelectModel, SwitchModel, DeleteModel, chatVars
  <2> QED  BY <2>1, ChangeKeeps
<1> QED  BY <1>1, StepsByEffect, StartKeeps, ClosesKeep, ThrowsKeep, AnswersKeep, LooksKeep,
            ProceedsKeep, LogsKeep, ChoosesKeep, StoresKeep DEF Moves

-----------------------------------------------------------------------------
(* What a step does to the messages *)

(* A step leaves the messages, or stores one under the next id with a        *)
(* question no later than itself, or cuts them off from some id on.          *)
LEMMA Messages ==
  ASSUME Inv, Next
  PROVE  \/ UNCHANGED <<messages, nextId>>
         \/ \E row \in MessageRecord :
               /\ row.id = nextId /\ row.question <= nextId
               /\ messages' = messages \union {row} /\ nextId' = nextId + 1
         \/ \E low \in Nat :
               messages' = {m \in messages : m.id < low} /\ nextId' = nextId
<1> DEFINE Goal == \/ UNCHANGED <<messages, nextId>>
                   \/ \E row \in MessageRecord :
                         /\ row.id = nextId /\ row.question <= nextId
                         /\ messages' = messages \union {row} /\ nextId' = nextId + 1
                   \/ \E low \in Nat :
                         messages' = {m \in messages : m.id < low} /\ nextId' = nextId
<1>1. nextId \in Nat /\ messages \subseteq MessageRecord
  BY DEF Inv, TypeOK
<1>2. ASSUME NEW r \in Requests, Stores(r)  PROVE Goal
  <2>1. PICK t : t = request[r].target
    OBVIOUS
  <2>2. t \in Nat /\ t <= nextId
    BY <1>1, <2>1 DEF Inv, TypeOK, RequestRecord, RequestsInv, NamesOf
  <2>3. \/ Store(Row(nextId, "user", nextId))
        \/ Store(Row(nextId, "assistant", t))
    BY <1>2, <2>1 DEF Stores, SaveMessage, StoreAnswer, StoreNewAnswer
  <2>4. PICK row : /\ row \in {Row(nextId, "user", nextId), Row(nextId, "assistant", t)}
                   /\ Store(row)
    BY <2>3
  <2>5. row \in MessageRecord /\ row.id = nextId /\ row.question <= nextId
    BY <1>1, <2>2, <2>4 DEF Row, MessageRecord
  <2> QED  BY <2>4, <2>5 DEF Store
<1>3. ASSUME NEW r \in Requests, DeleteMessages(r)  PROVE Goal
  <2>1. PICK t : t = request[r].target
    OBVIOUS
  <2>2. t \in Nat
    BY <2>1 DEF Inv, TypeOK, RequestRecord
  <2>3. messages' = {m \in messages : m.id \notin {id \in Ids : id >= t}} /\ nextId' = nextId
    BY <1>3, <2>1 DEF DeleteMessages, Delete
  <2>4. \A m \in messages : m.id \in Ids /\ m.id \in Nat
    BY <1>1 DEF Ids, MessageRecord
  <2>5. messages' = {m \in messages : m.id < t}
    BY <2>2, <2>3, <2>4
  <2> QED  BY <2>2, <2>3, <2>5
<1>4. ASSUME NEW r \in Requests, CutMessages(r)  PROVE Goal
  <2>1. PICK t : t = request[r].target
    OBVIOUS
  <2>2. t \in Nat
    BY <2>1 DEF Inv, TypeOK, RequestRecord
  <2>3. messages' = {m \in messages : m.id \notin {id \in Ids : id > t}} /\ nextId' = nextId
    BY <1>4, <2>1 DEF CutMessages, Delete
  <2>4. \A m \in messages : m.id \in Ids /\ m.id \in Nat
    BY <1>1 DEF Ids, MessageRecord
  <2>5. messages' = {m \in messages : m.id < t + 1}
    BY <2>2, <2>3, <2>4
  <2>6. t + 1 \in Nat
    BY <2>2
  <2> QED  BY <2>3, <2>5, <2>6
<1>5. UNCHANGED <<messages, nextId>> => Goal
  OBVIOUS
<1> HIDE DEF Goal
<1>6. Goal
  BY <1>2, <1>3, <1>4, <1>5, Effects
<1> QED  BY <1>6 DEF Goal

LEMMA MessagesStep ==
  ASSUME Inv, Next
  PROVE  messages' \subseteq MessageRecord /\ nextId' \in Nat \ {0} /\ OrderInv'
<1>1. messages \subseteq MessageRecord /\ nextId \in Nat \ {0} /\ OrderInv
  BY DEF Inv, TypeOK
<1>2. CASE UNCHANGED <<messages, nextId>>
  BY <1>1, <1>2 DEF OrderInv
<1>3. ASSUME NEW row \in MessageRecord, row.id = nextId, row.question <= nextId,
             messages' = messages \union {row}, nextId' = nextId + 1
      PROVE  messages' \subseteq MessageRecord /\ nextId' \in Nat \ {0} /\ OrderInv'
  <2>1. messages' \subseteq MessageRecord /\ nextId' \in Nat \ {0}
    BY <1>1, <1>3
  <2>2. ASSUME NEW m \in messages'  PROVE m.question <= m.id /\ m.id < nextId'
    <3>1. CASE m = row
      BY <1>1, <1>3, <3>1
    <3>2. CASE m \in messages
      <4>1. m.id \in Nat /\ m.question <= m.id /\ m.id < nextId
        BY <1>1, <3>2 DEF OrderInv, MessageRecord
      <4> QED  BY <1>1, <1>3, <4>1
    <3> QED  BY <1>3, <2>2, <3>1, <3>2
  <2> QED  BY <2>1, <2>2 DEF OrderInv
<1>4. ASSUME NEW low \in Nat,
             messages' = {m \in messages : m.id < low}, nextId' = nextId
      PROVE  messages' \subseteq MessageRecord /\ nextId' \in Nat \ {0} /\ OrderInv'
  BY <1>1, <1>4 DEF OrderInv
<1> QED  BY <1>2, <1>3, <1>4, Messages

-----------------------------------------------------------------------------
(* What a step does to the rest *)

LEMMA ConversationStep ==
  ASSUME Inv, Next
  PROVE  conversation' \in [state : {"absent", "open", "deleted"}, model : Services]
<1>1. conversation \in [state : {"absent", "open", "deleted"}, model : Services]
  BY DEF Inv, TypeOK
<1>2. ASSUME NEW r \in Requests, InsertConversation(r)
      PROVE  conversation' \in [state : {"absent", "open", "deleted"}, model : Services]
  <2>1. request[r].model \in Services
    BY DEF Inv, TypeOK, RequestRecord
  <2> QED  BY <1>1, <1>2, <2>1 DEF InsertConversation
<1>3. ASSUME NEW r \in Requests, DeleteConversation(r)
      PROVE  conversation' \in [state : {"absent", "open", "deleted"}, model : Services]
  BY <1>1, <1>3 DEF DeleteConversation
<1> QED  BY <1>1, <1>2, <1>3, Effects

LEMMA LogStep ==
  ASSUME Inv, Next
  PROVE  logged' \subseteq Nat
<1>1. logged \subseteq Nat
  BY DEF Inv, TypeOK
<1>2. ASSUME NEW r \in Requests, LogRequest(r)  PROVE logged' \subseteq Nat
  <2>1. request[r].answer \in Nat
    BY DEF Inv, TypeOK, RequestRecord
  <2> QED  BY <1>1, <1>2, <2>1 DEF LogRequest
<1>3. ASSUME NEW r \in Requests, DeleteMessages(r) \/ CutMessages(r)  PROVE logged' \subseteq Nat
  BY <1>1, <1>3 DEF DeleteMessages, CutMessages, Delete
<1> QED  BY <1>1, <1>2, <1>3, Effects

LEMMA SettingsStep ==
  ASSUME Inv, Next
  PROVE  /\ selected' \in Models \union {None} /\ active' \subseteq Models
         /\ live' \subseteq Models /\ hasKey' \in BOOLEAN
<1>1. /\ selected \in Models \union {None} /\ active \subseteq Models
      /\ live \subseteq Models /\ hasKey \in BOOLEAN
  BY DEF Inv, TypeOK
<1>2. ASSUME NEW m \in Models, SelectModel(m)
      PROVE  selected' = m /\ UNCHANGED <<active, live, hasKey>>
  BY <1>2 DEF SelectModel
<1>3. ASSUME NEW m \in Models, SwitchModel(m)
      PROVE  active' \subseteq Models /\ UNCHANGED <<selected, live, hasKey>>
  BY <1>1, <1>3 DEF SwitchModel
<1>4. ASSUME NEW m \in Models, DeleteModel(m)
      PROVE  live' \subseteq Models /\ UNCHANGED <<selected, active, hasKey>>
  BY <1>1, <1>4 DEF DeleteModel
<1>5. CASE UNCHANGED settingsVars
  BY <1>1, <1>5 DEF settingsVars
<1>6. ASSUME NEW m \in Models, Changes(m)
      PROVE  /\ selected' \in Models \union {None} /\ active' \subseteq Models
             /\ live' \subseteq Models /\ hasKey' \in BOOLEAN
  BY <1>1, <1>2, <1>3, <1>4, <1>6 DEF Changes
<1> QED  BY <1>5, <1>6, Effects

LEMMA CountersStep ==
  ASSUME Inv, Next
  PROVE  made' \in 0..MaxRequests /\ events' \in 0..MaxEvents
<1>1. /\ made \in 0..MaxRequests /\ events \in 0..MaxEvents
      /\ MaxRequests \in Nat /\ MaxEvents \in Nat
  BY AIChatAssumption DEF Inv, TypeOK
<1>2. ASSUME NEW r \in Requests, Start(r)  PROVE made' = made + 1 /\ made < MaxRequests /\ events' = events
  BY <1>2 DEF Start
<1>3. ASSUME NEW r \in Requests, QueryFails(r) \/ GetClientFails(r) \/ StreamFails(r)
      PROVE  Event /\ made' = made
  BY <1>3 DEF QueryFails, GetClientFails, StreamFails
<1>4. ASSUME NEW m \in Models, Changes(m)  PROVE Event /\ made' = made
  BY <1>4 DEF Changes, SelectModel, SwitchModel, DeleteModel, Change
<1>5. ASSUME NEW r \in Requests, ClientCloses(r) \/ Continue(r)
      PROVE  UNCHANGED <<made, events>>
  <2>1. CASE ClientCloses(r) \/ ErrorHandlerThrows(r)
    BY <2>1 DEF ClientCloses, ErrorHandlerThrows
  <2>2. CASE Looks(r)
    BY <2>2 DEF Looks, FindToDelete, FindToEditOnly, FindMessage, FindConversation, FindToEdit,
       StreamEnds, EditStreamEnds, ScreenStreamEnds, ReadHistoryToEdit
  <2>3. CASE LogRequest(r) \/ LogNewRequest(r)
    BY <2>3 DEF LogRequest, LogNewRequest
  <2>4. CASE Chooses(r) /\ ~GetClientFails(r)
    BY <2>4 DEF Chooses, ReadSettings, ReadDefault, CheckModel, ReadDetails, GetClient
  <2>5. CASE Answers(r)
    BY <2>5 DEF Answers, InsertConversation, DeleteConversation, DeleteMessages, WriteOnly,
       TouchConversation, RecordScreenAnalysis, AssistantAnswers, AssistantStreamEnds
  <2>6. CASE Proceeds(r)
    BY <2>6 DEF Proceeds, ReadCompletionConfig, OpenScreenStream, CallAssistant,
       OpenAssistantStream, ReadHistory, WriteMessage, CutMessages
  <2>7. CASE Stores(r)
    BY <2>7 DEF Stores, SaveMessage, StoreAnswer, StoreNewAnswer
  <2>8. Continue(r) =>
           \/ ErrorHandlerThrows(r) \/ Looks(r) \/ LogRequest(r) \/ LogNewRequest(r)
           \/ (Chooses(r) /\ (GetClient(r) \/ ReadSettings(r) \/ ReadDefault(r)
                              \/ CheckModel(r) \/ ReadDetails(r)))
           \/ Answers(r) \/ Proceeds(r) \/ Stores(r)
    BY DEF Continue, Looks, Chooses, Answers, Proceeds, Stores
  <2>9. GetClient(r) \/ ReadSettings(r) \/ ReadDefault(r) \/ CheckModel(r) \/ ReadDetails(r) =>
           UNCHANGED <<made, events>>
    BY DEF ReadSettings, ReadDefault, CheckModel, ReadDetails, GetClient
  <2> QED  BY <1>5, <2>1, <2>2, <2>3, <2>5, <2>6, <2>7, <2>8, <2>9
<1>6. \/ Event /\ made' = made
      \/ made' = made + 1 /\ made < MaxRequests /\ events' = events
      \/ UNCHANGED <<made, events>>
  BY <1>2, <1>3, <1>4, <1>5 DEF Next, Changes
<1>7. Event => events' \in 0..MaxEvents
  BY <1>1 DEF Event
<1>8. made < MaxRequests /\ made' = made + 1 => made' \in 0..MaxRequests
  BY <1>1
<1> QED  BY <1>1, <1>6, <1>7, <1>8

-----------------------------------------------------------------------------
(* The invariant holds *)

LEMMA InitInv ==
  ASSUME Init
  PROVE  Inv
<1>1. ModelOrder[1] \in Models
  BY AIChatAssumption DEF Models
<1>2. conversation \in [state : {"absent", "open", "deleted"}, model : Services]
  BY <1>1 DEF Init, Services
<1>3. messages \subseteq MessageRecord /\ nextId \in Nat \ {0} /\ logged \subseteq Nat /\ OrderInv
  <2>1. /\ Row(1, "user", 1) \in MessageRecord
        /\ Row(1, "user", 1).id = 1 /\ Row(1, "user", 1).question = 1
        /\ Row(2, "assistant", 1) \in MessageRecord
        /\ Row(2, "assistant", 1).id = 2 /\ Row(2, "assistant", 1).question = 1
    BY DEF Row, MessageRecord
  <2>2. CASE messages = {} /\ nextId = 1 /\ logged = {}
    BY <2>2 DEF OrderInv
  <2>3. CASE /\ messages = {Row(1, "user", 1), Row(2, "assistant", 1)}
             /\ nextId = 3 /\ logged = {2}
    <3>1. \A m \in messages : m.question <= m.id /\ m.id < nextId
      BY <2>1, <2>3
    <3> QED  BY <2>1, <2>3, <3>1 DEF OrderInv
  <2> QED  BY <2>2, <2>3 DEF Init
<1>4. \A r \in Requests : request[r] = Idle
  BY DEF Init
<1>5. request \in [Requests -> RequestRecord]
  BY IdleIsFine DEF Init
<1>6. ASSUME NEW r \in Requests  PROVE NamesOf(request[r]) /\ ModelOf(request[r])
  BY <1>3, <1>4, IdleIsFine DEF NamesOf
<1>7. /\ selected \in Models \union {None} /\ active \subseteq Models
      /\ live \subseteq Models /\ hasKey \in BOOLEAN
  BY AIChatAssumption DEF Init
<1>8. made \in 0..MaxRequests /\ events \in 0..MaxEvents
  BY AIChatAssumption DEF Init
<1> QED  BY <1>2, <1>3, <1>5, <1>6, <1>7, <1>8 DEF Inv, TypeOK, RequestsInv

LEMMA StepInv ==
  ASSUME Inv, [Next]_vars
  PROVE  Inv'
<1>1. CASE Next
  <2>1. TypeOK'
    BY <1>1, RequestsStep, MessagesStep, ConversationStep, LogStep, SettingsStep, CountersStep
       DEF TypeOK
  <2> QED  BY <1>1, <2>1, RequestsStep, MessagesStep DEF Inv
<1>2. CASE UNCHANGED vars
  BY <1>2 DEF Inv, TypeOK, OrderInv, RequestsInv, NamesOf, ModelOf, SettingsValid, vars,
     chatVars, settingsVars
<1> QED  BY <1>1, <1>2

LEMMA InvHolds == Spec => []Inv
<1>1. Init => Inv
  BY InitInv
<1>2. Inv /\ [Next]_vars => Inv'
  BY StepInv
<1> QED  BY <1>1, <1>2, PTL DEF Spec

-----------------------------------------------------------------------------
(* The theorems *)

(* The conversation, its messages, its log, the settings and every request   *)
(* keep their types, for any models, requests, changes and faults; the ids   *)
(* of ai_messages stay numbers, and events and requests within their bounds. *)
THEOREM TypeCorrect == Spec => []TypeOK
<1>1. Inv => TypeOK
  BY DEF Inv
<1> QED  BY <1>1, InvHolds, PTL

(* getAIModelConfig() and getOpenAIClient() read the settings one after the  *)
(* other: while these select an active model and nobody changes them, each   *)
(* request asks for a model at the service that serves it.                   *)
THEOREM OneModel == Spec => []OneModelPerRequest
<1>1. Inv => OneModelPerRequest
  BY DEF Inv, RequestsInv, ModelOf, OneModelPerRequest
<1> QED  BY <1>1, InvHolds, PTL

LEMMA AnswersGo ==
  ASSUME Inv, [Next]_vars
  PROVE  \A a \in messages : a.question \in Ids /\ a.id \in Ids' => a.question \in Ids'
<1> SUFFICES ASSUME NEW a \in messages, a.question \in Ids, a.id \in Ids'
             PROVE  a.question \in Ids'
  OBVIOUS
<1>1. /\ messages \subseteq MessageRecord /\ OrderInv /\ a \in MessageRecord
      /\ a.question \in Nat /\ a.id \in Nat /\ a.question <= a.id
  BY DEF Inv, TypeOK, OrderInv, MessageRecord
<1>2. PICK q \in messages : q.id = a.question
  BY DEF Ids
<1>3. CASE messages' = messages
  BY <1>3 DEF Ids
<1>4. ASSUME NEW row, messages' = messages \union {row}  PROVE a.question \in Ids'
  BY <1>2, <1>4 DEF Ids
<1>5. ASSUME NEW low \in Nat, messages' = {m \in messages : m.id < low}
      PROVE  a.question \in Ids'
  <2>1. PICK m \in messages' : m.id = a.id
    BY DEF Ids
  <2>2. m.id < low
    BY <1>5, <2>1
  <2>3. q.id < low
    BY <1>1, <1>2, <2>1, <2>2
  <2>4. q \in messages'
    BY <1>2, <1>5, <2>3
  <2> QED  BY <1>2, <2>4 DEF Ids
<1>6. CASE Next
  BY <1>3, <1>4, <1>5, <1>6, Messages
<1>7. CASE UNCHANGED vars
  BY <1>3, <1>7 DEF vars, chatVars
<1> QED  BY <1>6, <1>7

(* deleteMessage and editMessageStream cut a conversation off at an id, and  *)
(* an answer comes after its question: no deletion takes a question and      *)
(* leaves an answer of its, whatever else runs between the reads and writes. *)
THEOREM AnswersGoWithQuestions == Spec => NoAnswerOutlivesItsQuestion
<1>1. Inv /\ [Next]_vars =>
         [\A a \in messages : a.question \in Ids /\ a.id \in Ids' => a.question \in Ids']_vars
  BY AnswersGo
<1> QED  BY <1>1, InvHolds, PTL DEF Spec, NoAnswerOutlivesItsQuestion
=============================================================================
