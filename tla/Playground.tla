------------------------------ MODULE Playground ------------------------------
(***************************************************************************)
(* The playground of the default web front end: a chat page                *)
(* (web/default/src/features/playground) whose list of messages is React   *)
(* state, copied to localStorage on every update, and filled by answers    *)
(* that arrive through callbacks: the events of a server-sent-event stream *)
(* or the promise of a plain request.                                      *)
(*                                                                         *)
(* Every callback writes into the LAST message of the list, whoever asked  *)
(* for it, and all streams share two refs.  What keeps the answers apart   *)
(* is that the page's handlers refuse to start something new while         *)
(* isGenerating.  That value, like the list the handlers start from, is    *)
(* the one of the last render, so the model keeps the rendered values in   *)
(* `view', next to the state the queued updaters lead to.                  *)
(***************************************************************************)
EXTENDS Naturals, Sequences, SequencesExt

CONSTANTS
  MaxRequests,   \* bound: chat requests the user starts
  MaxFaults,     \* bound: failures of the storage, the network and the server
  ChunkTypes,    \* the kinds of text a server sends, of KnownTypes
  None,          \* no request, no message
  Typed,         \* origin of text the user typed
  Interrupted    \* origin of the text put into a placeholder on load

ASSUME BoundsAssumption == MaxRequests \in Nat /\ MaxFaults \in Nat

\* Visible content, content between <think> tags, reasoning_content.
KnownTypes == {"text", "think", "reasoning"}

ASSUME TypesAssumption == ChunkTypes \subseteq KnownTypes

ASSUME OriginsAssumption ==
  /\ None \notin Nat /\ Typed \notin Nat /\ Interrupted \notin Nat
  /\ Typed # Interrupted

VARIABLES
  stream,     \* config.stream, read from localStorage once
  messages,   \* the list all queued updates lead to
  saved,      \* the list in localStorage
  full,       \* localStorage.setItem throws
  view,       \* the list and isGenerating as last rendered
  editing,    \* editingMessageKey
  ref,        \* sseSourceRef: the request of the source it holds
  complete,   \* isStreamCompleteRef
  open,       \* requests whose source or whose promise is still live
  next,       \* requests started so far
  faults,     \* failures so far
  delivered,  \* history: requests some text of which arrived
  cut,        \* history: requests that ended without an end mark or an answer
  carried,    \* history: requests whose unfinished answer was sent as context
  crossed     \* history: an unguarded handler ran with an answer under way

vars == <<stream, messages, saved, full, view, editing, ref, complete, open,
          next, faults, delivered, cut, carried, crossed>>

Requests == 1..MaxRequests

Roles == {"user", "assistant"}

Keys == Requests \X Roles

Origins == Requests \cup {Typed, Interrupted}

\* Content is a set of pieces: who wrote it, and whether it stands between
\* <think> tags.  Reasoning is a set of origins.
Pieces == Origins \X {"text", "think"}

Messages ==
  [key : Keys, status : {"loading", "streaming", "complete", "error", "none"},
   content : SUBSET Pieces, reasoning : SUBSET Origins, thinking : BOOLEAN]

-----------------------------------------------------------------------------
(* Operators on messages: lib/message-utils.ts *)

From(m) == m.key[2]

Request(m) == m.key[1]

createUserMessage(r) ==
  [key |-> <<r, "user">>, status |-> "none", content |-> {<<Typed, "text">>},
   reasoning |-> {}, thinking |-> FALSE]

\* A slip: a status the rest of the page does not know.
createPendingAssistantMessage(r) ==
  [key |-> <<r, "assistant">>, status |-> "pending", content |-> {},
   reasoning |-> {}, thinking |-> FALSE]

createLoadingAssistantMessage(r) ==
  [key |-> <<r, "assistant">>, status |-> "loading", content |-> {},
   reasoning |-> {}, thinking |-> FALSE]

Unsettled(m) == m.status \in {"loading", "streaming"}

\* What parseThinkTags finds between the tags.
Thoughts(content) == {p[1] : p \in {q \in content : q[2] = "think"}}

\* A message with content is sent as context, whatever its status.
isValidMessage(m) == From(m) = "assistant" => m.content # {}

\* `updated' is what the updater makes of the last message.
updateLastAssistantMessage(msgs, updated) ==
  IF msgs = <<>> \/ From(Last(msgs)) # "assistant"
  THEN msgs
  ELSE [msgs EXCEPT ![Len(msgs)] = updated]

updateAssistantMessageWithError(msgs, r) ==
  updateLastAssistantMessage(msgs,
    [Last(msgs) EXCEPT !.content = {<<r, "text">>}, !.status = "error", !.thinking = FALSE])

\* A chunk of an open <think> tag hides what follows: its text counts as
\* reasoning, and replaces the reasoning that came through the API.
processStreamingContent(m, piece) ==
  LET whole == m.content \cup {piece}
  IN [m EXCEPT !.content = whole,
               !.reasoning = IF Thoughts(whole) # {} THEN Thoughts(whole) ELSE @,
               !.thinking = piece[2] = "think"]

finalizeMessage(m, apiReasoning) ==
  [m EXCEPT
     !.content = {p \in @ : p[2] = "text"},
     !.reasoning = CASE apiReasoning # {} -> apiReasoning
                     [] apiReasoning = {} /\ @ # {} -> @
                     [] OTHER -> Thoughts(m.content),
     !.thinking = FALSE]

Complete(m) == [finalizeMessage(m, {}) EXCEPT !.status = "complete"]

\* A slip: a message with some text is taken for finished.
SanitizeOnlyLoading(msgs) ==
  [i \in DOMAIN msgs |->
     IF msgs[i].status = "loading"
     THEN [msgs[i] EXCEPT !.content = {<<Interrupted, "text">>}, !.status = "error"]
     ELSE msgs[i]]

\* Only the last stuck message is repaired.
sanitizeMessagesOnLoad(msgs) ==
  LET stuck == {i \in DOMAIN msgs : From(msgs[i]) = "assistant" /\ Unsettled(msgs[i])}
      target == CHOOSE i \in stuck : \A j \in stuck : j <= i
      done == Complete(msgs[target])
      lost == [done EXCEPT !.content = {<<Interrupted, "text">>}, !.status = "error"]
  IN IF stuck = {} THEN msgs
     ELSE [msgs EXCEPT ![target] =
             IF done.content # {} \/ done.reasoning # {} THEN done ELSE lost]

-----------------------------------------------------------------------------
(* Updates and renders *)

Init ==
  /\ stream \in BOOLEAN
  /\ messages = <<>> /\ saved = <<>> /\ full = FALSE
  /\ view = [msgs |-> <<>>, generating |-> FALSE]
  /\ editing = None /\ ref = None /\ complete = FALSE
  /\ open = {} /\ next = 0 /\ faults = 0
  /\ delivered = {} /\ cut = {} /\ carried = {} /\ crossed = FALSE

\* The updater saves what it returns; a save that fails is only logged.
updateMessages(msgs) ==
  /\ messages' = msgs
  /\ saved' = IF full THEN saved ELSE msgs

\* React flushes what an event of the user changed before the next event.
Flush == view' = [msgs |-> messages', generating |-> ref' # None]

\* What a callback of the network changed is rendered in a task of its own.
Render ==
  /\ view # [msgs |-> messages, generating |-> ref # None]
  /\ view' = [msgs |-> messages, generating |-> ref # None]
  /\ UNCHANGED <<stream, messages, saved, full, editing, ref, complete, open,
                 next, faults, delivered, cut, carried, crossed>>

\* The rendered page shows an answer under way.
UnderWay == view.generating \/ \E i \in DOMAIN view.msgs : Unsettled(view.msgs[i])

\* A handler that nothing keeps from running while an answer is under way;
\* without streams isGenerating is never true and none is kept.
Ungated(gated) == crossed' = (crossed \/ (UnderWay /\ ~(gated /\ stream)))

Fault == faults < MaxFaults /\ faults' = faults + 1

-----------------------------------------------------------------------------
(* Handlers of the page: index.tsx, over the rendered list *)

\* The request the next handler starts.
Fresh == next + 1

\* buildChatCompletionPayload sends every valid message of the list.
Carry(msgs) ==
  carried' = carried \cup
    {Request(m) : m \in {n \in Range(msgs) : isValidMessage(n) /\ Unsettled(n)}}

\* sendStreamRequest: the new source takes over both refs.
sendStreamRequest(msgs) ==
  /\ ref' = Fresh
  /\ complete' = FALSE
  /\ open' = open \cup {Fresh}
  /\ updateMessages(msgs)
  /\ UNCHANGED faults

\* source.stream() throws: the error is shown and the ref given up.
StreamStartError(msgs) ==
  /\ Fault
  /\ ref' = None
  /\ complete' = FALSE
  /\ updateMessages(updateAssistantMessageWithError(msgs, Fresh))
  /\ UNCHANGED open

sendNonStreamingChat(msgs) ==
  /\ open' = open \cup {Fresh}
  /\ updateMessages(msgs)
  /\ UNCHANGED <<ref, complete, faults>>

sendChat(msgs) ==
  /\ next < MaxRequests
  /\ next' = Fresh
  /\ Carry(msgs)
  /\ IF stream THEN sendStreamRequest(msgs) \/ StreamStartError(msgs)
               ELSE sendNonStreamingChat(msgs)
  /\ Flush
  /\ UNCHANGED <<stream, full, delivered, cut>>

handleSendMessage ==
  /\ sendChat(view.msgs \o <<createUserMessage(Fresh), createLoadingAssistantMessage(Fresh)>>)
  /\ UNCHANGED editing

\* The input refuses text while it is disabled.
handleSubmit ==
  /\ ~view.generating
  /\ handleSendMessage
  /\ Ungated(TRUE)

\* The suggestions below the input never look at `disabled'.
handleSuggestionClick == handleSendMessage /\ Ungated(FALSE)

\* The row of buttons under a message: shown with an error or with visible
\* content, and not while the message is being edited.
ActionsShown(m) ==
  /\ m.key # editing
  /\ m.status = "error" \/ (m.content # {} /\ (From(m) = "user" \/ ~m.thinking))

handleRegenerateMessage(i) ==
  /\ ~view.generating
  /\ ActionsShown(view.msgs[i])
  /\ From(view.msgs[i]) = "assistant" /\ ~Unsettled(view.msgs[i])
  /\ sendChat(Append(SubSeq(view.msgs, 1, i - 1), createLoadingAssistantMessage(Fresh)))
  /\ Ungated(TRUE)
  /\ UNCHANGED editing

handleDeleteMessage(i) ==
  /\ ~view.generating
  /\ ActionsShown(view.msgs[i])
  /\ updateMessages(RemoveAt(view.msgs, i))
  /\ UNCHANGED <<ref, stream, full, editing, complete, open, next, faults,
                 delivered, cut, carried>>
  /\ Flush
  /\ Ungated(TRUE)

handleEditMessage(i) ==
  /\ ~view.generating
  /\ ActionsShown(view.msgs[i]) /\ view.msgs[i].content # {}
  /\ editing' = view.msgs[i].key
  /\ UNCHANGED <<stream, messages, saved, full, view, ref, complete, open, next,
                 faults, delivered, cut, carried, crossed>>

handleEditCancel ==
  /\ editing # None
  /\ editing' = None
  /\ UNCHANGED <<stream, messages, saved, full, view, ref, complete, open, next,
                 faults, delivered, cut, carried, crossed>>

\* Save, and Save & Submit of a user message.  Only opening the editor was
\* guarded: an answer asked for since then may be under way.
applyEdit(i, submit) ==
  /\ view.msgs[i].key = editing
  /\ editing' = None
  /\ LET updated == [view.msgs EXCEPT ![i].content = {<<Typed, "text">>}]
     IN IF submit
        THEN /\ From(view.msgs[i]) = "user"
             /\ sendChat(Append(SubSeq(updated, 1, i), createLoadingAssistantMessage(Fresh)))
        ELSE /\ updateMessages(updated)
             /\ UNCHANGED <<ref, stream, full, complete, open, next, faults,
                            delivered, cut, carried>>
             /\ Flush
  /\ Ungated(FALSE)

\* A slip: Stop clears the ref and leaves its source running.
StopWithoutClose ==
  /\ view.generating
  /\ ref' = None
  /\ LET settle(m) == IF Unsettled(m) THEN Complete(m) ELSE m
     IN updateMessages(updateLastAssistantMessage(messages, settle(Last(messages))))
  /\ UNCHANGED <<stream, full, editing, complete, open, next, faults, delivered,
                 cut, carried, crossed>>
  /\ Flush

\* The Stop button is there while the rendered isGenerating is true, and may
\* be pressed after the end of the stream and before the next render.
stopGeneration ==
  /\ view.generating
  /\ open' = open \ {ref}
  /\ ref' = None
  /\ LET settle(m) == IF Unsettled(m) THEN Complete(m) ELSE m
     IN updateMessages(updateLastAssistantMessage(messages, settle(Last(messages))))
  /\ UNCHANGED <<stream, full, editing, complete, next, faults, delivered, cut,
                 carried, crossed>>
  /\ Flush

-----------------------------------------------------------------------------
(* Events of the sources: use-stream-request.ts, use-chat-handler.ts *)

\* A slip: the shared ref is cleared only after an end mark.
CloseKeepsRefOnError(r) ==
  /\ open' = open \ {r}
  /\ ref' = IF complete' THEN None ELSE ref

\* closeSource closes its own source and clears the shared ref.
closeSource(r) == open' = open \ {r} /\ ref' = None

\* A chunk of content, inside or outside a <think> tag, or of reasoning.
handleStreamUpdate(r, type) ==
  /\ stream /\ r \in open
  /\ LET update(m) ==
           CASE m.status = "error" -> m
             [] m.status # "error" /\ type = "reasoning" ->
                  [m EXCEPT !.reasoning = @ \cup {r}, !.thinking = TRUE,
                            !.status = "streaming"]
             [] OTHER -> [processStreamingContent(m, <<r, type>>)
                            EXCEPT !.status = "streaming"]
     IN updateMessages(updateLastAssistantMessage(messages, update(Last(messages))))
  /\ delivered' = delivered \cup {r}
  /\ UNCHANGED <<stream, full, view, editing, ref, complete, open, next, faults,
                 cut, carried, crossed>>

handleStreamComplete(r) ==
  /\ stream /\ r \in open
  /\ complete' = TRUE
  /\ closeSource(r)
  /\ LET settle(m) == IF m.status \in {"complete", "error"} THEN m ELSE Complete(m)
     IN updateMessages(updateLastAssistantMessage(messages, settle(Last(messages))))
  /\ UNCHANGED <<stream, full, view, editing, next, faults, delivered, cut,
                 carried, crossed>>

\* handleError, of a source that failed or sent what does not parse: nothing
\* is shown, and a source that only sent bad text stays open, once any stream
\* has set the shared completion flag.
handleError(r, dead) ==
  /\ stream /\ r \in open
  /\ UNCHANGED <<stream, full, view, editing, complete, next, faults, delivered,
                 cut, carried, crossed>>
  /\ IF complete
     THEN /\ open' = IF dead THEN open \ {r} ELSE open
          /\ UNCHANGED <<messages, saved, ref>>
     ELSE /\ closeSource(r)
          /\ updateMessages(updateAssistantMessageWithError(messages, r))

\* The server closes the response with status 200 and without [DONE]: no
\* listener acts, the ref keeps the closed source.
StreamCut(r) ==
  /\ stream /\ r \in open
  /\ Fault
  /\ open' = open \ {r}
  /\ cut' = cut \cup {r}
  /\ UNCHANGED <<stream, messages, saved, full, view, editing, ref, complete,
                 next, delivered, carried, crossed>>

\* The promise of a plain request resolves with a choice of some kinds of text.
Response(r, types) ==
  /\ ~stream /\ r \in open
  /\ open' = open \ {r}
  /\ LET answer(m) ==
           [finalizeMessage([m EXCEPT !.content = {r} \X (types \ {"reasoning"})],
                            IF "reasoning" \in types THEN {r} ELSE {})
              EXCEPT !.status = "complete"]
     IN updateMessages(updateLastAssistantMessage(messages, answer(Last(messages))))
  /\ delivered' = IF types = {} THEN delivered ELSE delivered \cup {r}
  /\ UNCHANGED <<stream, full, view, editing, ref, complete, next, faults, cut,
                 carried, crossed>>

\* ... without a choice: the handler returns and the placeholder stays.
ResponseWithoutChoice(r) ==
  /\ ~stream /\ r \in open
  /\ Fault
  /\ open' = open \ {r}
  /\ cut' = cut \cup {r}
  /\ UNCHANGED <<stream, messages, saved, full, view, editing, ref, complete,
                 next, delivered, carried, crossed>>

ResponseError(r) ==
  /\ ~stream /\ r \in open
  /\ open' = open \ {r}
  /\ updateMessages(updateAssistantMessageWithError(messages, r))
  /\ UNCHANGED <<stream, full, view, editing, ref, complete, next, faults,
                 delivered, cut, carried, crossed>>

-----------------------------------------------------------------------------
(* The page is loaded again *)

\* A reload ends every request; the page starts from localStorage.  Leaving
\* the page and coming back is the same to its state: the sources are not
\* closed then, and their callbacks belong to the component that is gone.
Reload ==
  /\ messages' = sanitizeMessagesOnLoad(saved)
  /\ saved' = IF full THEN saved ELSE sanitizeMessagesOnLoad(saved)
  /\ editing' = None /\ ref' = None /\ complete' = FALSE /\ open' = {}
  /\ UNCHANGED <<stream, full, next, faults, delivered, cut, carried, crossed>>
  /\ Flush

\* localStorage reaches its quota, or is freed.
StorageFull ==
  /\ Fault
  /\ full' = ~full
  /\ UNCHANGED <<stream, messages, saved, view, editing, ref, complete, open,
                 next, delivered, cut, carried, crossed>>

-----------------------------------------------------------------------------
User ==
  \/ handleSubmit
  \/ handleSuggestionClick
  \/ handleEditCancel
  \/ stopGeneration
  \/ \E i \in DOMAIN view.msgs :
       \/ handleRegenerateMessage(i)
       \/ handleDeleteMessage(i)
       \/ handleEditMessage(i)
       \/ \E submit \in BOOLEAN : applyEdit(i, submit)

\* The ways in which a request can end that the page hears of.
Answered(r) ==
  \/ handleStreamComplete(r)
  \/ handleError(r, TRUE)
  \/ \E types \in SUBSET ChunkTypes : Response(r, types)
  \/ ResponseError(r)

Network(r) ==
  \/ \E type \in ChunkTypes : handleStreamUpdate(r, type)
  \/ handleError(r, FALSE)
  \/ StreamCut(r)
  \/ ResponseWithoutChoice(r)
  \/ Answered(r)

Next ==
  \/ User
  \/ \E r \in Requests : Network(r)
  \/ Render
  \/ Reload
  \/ StorageFull

Spec == Init /\ [][Next]_vars

\* The browser renders what changed; every request is answered or fails (the
\* relay closes idle streams).  Nothing is assumed of the user.
FairSpec ==
  /\ Spec
  /\ WF_vars(Render)
  /\ \A r \in Requests : WF_vars(Answered(r))

-----------------------------------------------------------------------------
(* Properties *)

Assistants(msgs) == {m \in Range(msgs) : From(m) = "assistant"}

Lists == Seq(Messages)

\* Type correctness of the page's state.
TypeOK ==
  /\ stream \in BOOLEAN /\ full \in BOOLEAN /\ complete \in BOOLEAN /\ crossed \in BOOLEAN
  /\ messages \in Lists /\ saved \in Lists
  /\ view.msgs \in Lists /\ view.generating \in BOOLEAN
  /\ editing \in Keys \cup {None} /\ ref \in Requests \cup {None}
  /\ open \subseteq Requests /\ delivered \subseteq Requests /\ cut \subseteq Requests
  /\ carried \subseteq Requests
  /\ next \in 0..MaxRequests /\ faults \in 0..MaxFaults

\* As long as no unguarded handler ran with an answer under way, an answer
\* consists of the text of its own request: although every callback writes
\* into whatever message is last, no chunk, answer or error lands in the
\* message of another request (an edited message holds typed text), an answer
\* that is complete and unedited holds what was delivered for it, and no
\* unfinished answer is sent as context of a later request.
AnswersKeptApart ==
  ~crossed =>
    /\ carried = {}
    /\ \A m \in Assistants(messages) :
         LET texts == {p[1] : p \in m.content} \cup m.reasoning
         IN /\ texts \subseteq {Request(m), Typed, Interrupted}
            /\ (m.status = "complete" /\ Request(m) \in delivered /\ Typed \notin texts)
                 => Request(m) \in texts

\* Likewise an answer that is not settled is the last message, and the user
\* can still end it: its source is the one Stop closes, or its plain request
\* is live (unless it ended without an answer).  In particular no message is
\* left loading by a reload, even from a stale copy of the list.
UnsettledCanEnd ==
  ~crossed =>
    /\ stream => open \subseteq {ref}
    /\ \A i \in DOMAIN messages :
         Unsettled(messages[i]) =>
           /\ i = Len(messages)
           /\ IF stream THEN ref = Request(messages[i])
              ELSE Request(messages[i]) \in open \cup cut

\* In the end, unless a response ended without its end mark, the input is
\* enabled again, although streams share the refs isGenerating is read from
\* and an error is dropped once the other stream has set the completion flag;
\* and every answer is settled, unless handlers crossed.
AnswersSettle ==
  <>[](cut = {} =>
         /\ ~view.generating
         /\ crossed \/ \A i \in DOMAIN view.msgs : ~Unsettled(view.msgs[i]))

=============================================================================
