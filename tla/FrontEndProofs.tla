---------------------------- MODULE FrontEndProofs ----------------------------
(***************************************************************************)
(* The safety properties of the two programs the user sees.                *)
(*                                                                         *)
(* The playground, for every number of requests and failures and every     *)
(* choice of chunk types: the list of messages is of its type, answers are *)
(* kept apart, and an answer that is not settled can be ended.  The proofs *)
(* first say, message by message and list by list, what the operators of   *)
(* message-utils.ts build; then what every handler and callback does to    *)
(* the inductive invariant.                                                *)
(*                                                                         *)
(* The desktop shell, for every number of retries (TLC checks three; the   *)
(* program has thirty).                                                    *)
(***************************************************************************)
EXTENDS Playground, DesktopShell, SequenceTheorems, WellFoundedInduction, TLAPS

-----------------------------------------------------------------------------
(* The playground: messages *)

\* A message of the user never changes its status.
PageMessages == {m \in Messages : From(m) = "user" => m.status = "none"}

Pages == Seq(PageMessages)

\* The type of the state, with what the refs say about isGenerating: without
\* streams it stays false, and it is rendered no later than a source exists.
ChatInv ==
  /\ stream \in BOOLEAN /\ full \in BOOLEAN /\ complete \in BOOLEAN
  /\ messages \in Pages /\ saved \in Pages
  /\ view.msgs \in Pages /\ view.generating \in BOOLEAN
  /\ ref \in Requests \cup {None}
  /\ open \subseteq Requests /\ delivered \subseteq Requests /\ cut \subseteq Requests
  /\ carried \subseteq Requests
  /\ next \in 0..MaxRequests /\ faults \in 0..MaxFaults
  /\ ~stream => ref = None /\ ~view.generating
  /\ ref # None => view.generating

PageInv == ChatInv /\ editing \in Keys \cup {None} /\ crossed \in BOOLEAN

LEMMA RequestsType == Requests \subseteq Nat /\ None \notin Requests
  BY BoundsAssumption, OriginsAssumption DEF Requests

\* What a message is made of.
LEMMA MessageFields ==
  ASSUME NEW m \in Messages
  PROVE  /\ m.key \in Keys /\ Request(m) \in Requests /\ From(m) \in Roles
         /\ m.status \in {"loading", "streaming", "complete", "error", "none"}
         /\ m.content \in SUBSET Pieces /\ m.reasoning \in SUBSET Origins
         /\ m.thinking \in BOOLEAN
  BY DEF Messages, Keys, Request, From

LEMMA MessageType ==
  ASSUME NEW k \in Keys, NEW s \in {"loading", "streaming", "complete", "error", "none"},
         NEW c \in SUBSET Pieces, NEW g \in SUBSET Origins, NEW t \in BOOLEAN
  PROVE  [key |-> k, status |-> s, content |-> c, reasoning |-> g, thinking |-> t] \in Messages
  BY DEF Messages

LEMMA PageMessageFields ==
  ASSUME NEW m \in PageMessages
  PROVE  m \in Messages /\ (Unsettled(m) => From(m) = "assistant")
         /\ (From(m) = "user" => m.status = "none")
  <1>1. m \in Messages /\ (From(m) = "user" => m.status = "none")
    BY DEF PageMessages
  <1>2. From(m) \in Roles
    BY <1>1, MessageFields
  <1> QED
    BY <1>1, <1>2 DEF Unsettled, Roles

\* What stays of the content once the think tags are taken out.
Plain(content) == {p \in content : p[2] = "text"}

\* The content of the answer to a plain request.
Answer(r, types) == {r} \X (types \ {"reasoning"})

LEMMA ThoughtsType ==
  ASSUME NEW c \in SUBSET Pieces
  PROVE  Thoughts(c) \in SUBSET Origins
  <1>1. SUFFICES ASSUME NEW p \in c PROVE p[1] \in Origins
    BY DEF Thoughts
  <1> QED
    BY <1>1 DEF Pieces

LEMMA CreatedMessages ==
  ASSUME NEW r \in Requests
  PROVE  /\ createUserMessage(r) \in PageMessages
         /\ createLoadingAssistantMessage(r) \in PageMessages
         /\ From(createUserMessage(r)) = "user"
         /\ From(createLoadingAssistantMessage(r)) = "assistant"
         /\ Request(createLoadingAssistantMessage(r)) = r
         /\ ~Unsettled(createUserMessage(r)) /\ Unsettled(createLoadingAssistantMessage(r))
  <1>1. createUserMessage(r) \in Messages
    <2>1. <<r, "user">> \in Keys
      BY DEF Keys, Roles
    <2>2. {<<Typed, "text">>} \in SUBSET Pieces
      BY DEF Pieces, Origins
    <2> QED
      BY <2>1, <2>2, MessageType DEF createUserMessage
  <1>2. createLoadingAssistantMessage(r) \in Messages
    <2>1. <<r, "assistant">> \in Keys
      BY DEF Keys, Roles
    <2> QED
      BY <2>1, MessageType DEF createLoadingAssistantMessage
  <1> QED
    BY <1>1, <1>2 DEF PageMessages, createUserMessage, createLoadingAssistantMessage, From,
       Request, Unsettled

LEMMA FinalizedMessage ==
  ASSUME NEW m \in Messages, NEW a \in SUBSET Origins
  PROVE  LET u == finalizeMessage(m, a)
         IN /\ u \in Messages /\ u.key = m.key /\ u.status = m.status
            /\ u.content = Plain(m.content)
            /\ u.reasoning = IF a # {} THEN a
                             ELSE IF m.reasoning # {} THEN m.reasoning ELSE Thoughts(m.content)
  <1> DEFINE c == Plain(m.content)
             g == IF a # {} THEN a
                  ELSE IF m.reasoning # {} THEN m.reasoning ELSE Thoughts(m.content)
  <1>1. c \in SUBSET Pieces /\ g \in SUBSET Origins
    BY MessageFields, ThoughtsType DEF Plain
  <1>2. finalizeMessage(m, a) = [m EXCEPT !.content = c, !.reasoning = g, !.thinking = FALSE]
    BY DEF Messages, finalizeMessage, Plain
  <1> HIDE DEF c, g
  <1>3. LET u == [m EXCEPT !.content = c, !.reasoning = g, !.thinking = FALSE]
        IN u \in Messages /\ u.key = m.key /\ u.status = m.status /\ u.content = c /\ u.reasoning = g
    BY <1>1 DEF Messages
  <1> QED
    BY <1>2, <1>3 DEF c, g

LEMMA CompletedMessage ==
  ASSUME NEW m \in Messages
  PROVE  LET u == Complete(m)
         IN /\ u \in Messages /\ u.key = m.key /\ u.status = "complete"
            /\ u.content = Plain(m.content)
            /\ u.reasoning = IF m.reasoning # {} THEN m.reasoning ELSE Thoughts(m.content)
  <1> DEFINE f == finalizeMessage(m, {})
  <1>1. /\ f \in Messages /\ f.key = m.key
        /\ f.content = Plain(m.content)
        /\ f.reasoning = IF m.reasoning # {} THEN m.reasoning ELSE Thoughts(m.content)
    BY FinalizedMessage
  <1>2. Complete(m) = [f EXCEPT !.status = "complete"]
    BY DEF Complete
  <1> HIDE DEF f
  <1>3. LET u == [f EXCEPT !.status = "complete"]
        IN /\ u \in Messages /\ u.key = f.key /\ u.status = "complete"
           /\ u.content = f.content /\ u.reasoning = f.reasoning
    BY <1>1 DEF Messages
  <1> QED
    BY <1>1, <1>2, <1>3

\* What an error, a chunk of a stream and an answer make of a message.
Failed(m, r) == [m EXCEPT !.content = {<<r, "text">>}, !.status = "error", !.thinking = FALSE]

Chunked(m, r, type) ==
  CASE m.status = "error" -> m
    [] m.status # "error" /\ type = "reasoning" ->
         [m EXCEPT !.reasoning = @ \cup {r}, !.thinking = TRUE, !.status = "streaming"]
    [] OTHER -> [processStreamingContent(m, <<r, type>>) EXCEPT !.status = "streaming"]

Replied(m, r, types) ==
  [finalizeMessage([m EXCEPT !.content = {r} \X (types \ {"reasoning"})],
                   IF "reasoning" \in types THEN {r} ELSE {})
     EXCEPT !.status = "complete"]

LEMMA FailedMessage ==
  ASSUME NEW m \in Messages, NEW r \in Requests
  PROVE  LET u == Failed(m, r)
         IN /\ u \in Messages /\ u.key = m.key /\ u.status = "error"
            /\ u.content = {<<r, "text">>} /\ u.reasoning = m.reasoning
  <1>1. {<<r, "text">>} \in SUBSET Pieces
    BY DEF Pieces, Origins
  <1> QED
    BY <1>1 DEF Messages, Failed

LEMMA PieceType ==
  ASSUME NEW r \in Requests, NEW type \in ChunkTypes, type # "reasoning"
  PROVE  <<r, type>> \in Pieces /\ type \in {"text", "think"}
  BY TypesAssumption DEF KnownTypes, Pieces, Origins

LEMMA ReasonedMessage ==
  ASSUME NEW m \in Messages, NEW r \in Requests, m.status # "error"
  PROVE  LET u == Chunked(m, r, "reasoning")
         IN /\ u \in Messages /\ u.key = m.key /\ u.status = "streaming"
            /\ u.content = m.content /\ u.reasoning = m.reasoning \cup {r}
  <1> DEFINE g == m.reasoning \cup {r}
             v == [m EXCEPT !.reasoning = g, !.thinking = TRUE, !.status = "streaming"]
  <1>1. g \in SUBSET Origins
    BY MessageFields DEF Origins
  <1>2. Chunked(m, r, "reasoning") = v
    BY DEF Chunked, Messages
  <1> HIDE DEF g
  <1>3. v \in Messages /\ v.key = m.key /\ v.status = "streaming" /\ v.content = m.content /\ v.reasoning = g
    BY <1>1 DEF Messages
  <1> QED
    BY <1>2, <1>3 DEF g

LEMMA ChunkedMessage ==
  ASSUME NEW m \in Messages, NEW r \in Requests, NEW type \in ChunkTypes,
         m.status # "error", type # "reasoning"
  PROVE  LET u == Chunked(m, r, type)
             whole == m.content \cup {<<r, type>>}
         IN /\ u \in Messages /\ u.key = m.key /\ u.status = "streaming"
            /\ u.content = whole
            /\ u.reasoning = IF Thoughts(whole) # {} THEN Thoughts(whole) ELSE m.reasoning
  <1> DEFINE whole == m.content \cup {<<r, type>>}
             g == IF Thoughts(whole) # {} THEN Thoughts(whole) ELSE m.reasoning
             b == (type = "think")
             p == [m EXCEPT !.content = whole, !.reasoning = g, !.thinking = b]
             v == [p EXCEPT !.status = "streaming"]
  <1>1. whole \in SUBSET Pieces
    BY PieceType, MessageFields
  <1>2. g \in SUBSET Origins
    BY <1>1, ThoughtsType, MessageFields
  <1>3. b \in BOOLEAN
    OBVIOUS
  <1>4. processStreamingContent(m, <<r, type>>) = p
    BY DEF processStreamingContent, Messages
  <1>5. Chunked(m, r, type) = v
    BY <1>4 DEF Chunked
  <1> HIDE DEF whole, g, b
  <1>6. /\ p \in Messages /\ p.key = m.key /\ p.content = whole /\ p.reasoning = g
    BY <1>1, <1>2, <1>3 DEF Messages
  <1> HIDE DEF p
  <1>7. /\ v \in Messages /\ v.key = p.key /\ v.status = "streaming"
        /\ v.content = p.content /\ v.reasoning = p.reasoning
    BY <1>6 DEF Messages
  <1> QED
    BY <1>5, <1>6, <1>7 DEF whole, g

LEMMA ChunkedType ==
  ASSUME NEW m \in Messages, NEW r \in Requests, NEW type \in ChunkTypes
  PROVE  Chunked(m, r, type) \in Messages /\ Chunked(m, r, type).key = m.key
  <1>1. CASE m.status = "error"
    BY <1>1 DEF Chunked
  <1>2. CASE m.status # "error" /\ type = "reasoning"
    BY <1>2, ReasonedMessage
  <1>3. CASE m.status # "error" /\ type # "reasoning"
    BY <1>3, ChunkedMessage
  <1> QED
    BY <1>1, <1>2, <1>3

ReplyReasoning(m, r, types) ==
  IF "reasoning" \in types THEN {r}
  ELSE IF m.reasoning # {} THEN m.reasoning ELSE Thoughts(Answer(r, types))

LEMMA RepliedMessage ==
  ASSUME NEW m \in Messages, NEW r \in Requests, NEW types \in SUBSET ChunkTypes
  PROVE  LET u == Replied(m, r, types)
         IN /\ u \in Messages /\ u.key = m.key /\ u.status = "complete"
            /\ u.content = Plain(Answer(r, types))
            /\ u.reasoning = ReplyReasoning(m, r, types)
  <1> DEFINE answer == Answer(r, types)
             a == IF "reasoning" \in types THEN {r} ELSE {}
             q == [m EXCEPT !.content = answer]
             f == finalizeMessage(q, a)
             v == [f EXCEPT !.status = "complete"]
  <1>1. answer \in SUBSET Pieces /\ a \in SUBSET Origins
    BY TypesAssumption DEF KnownTypes, Pieces, Origins, Answer
  <1>2. Replied(m, r, types) = v
    BY DEF Replied, Answer
  <1>3. a # {} <=> "reasoning" \in types
    OBVIOUS
  <1> HIDE DEF answer
  <1>4. q \in Messages /\ q.key = m.key /\ q.content = answer /\ q.reasoning = m.reasoning
    BY <1>1 DEF Messages
  <1> HIDE DEF q, a
  <1>5. /\ f \in Messages /\ f.key = q.key
        /\ f.content = Plain(q.content)
        /\ f.reasoning = IF a # {} THEN a
                         ELSE IF q.reasoning # {} THEN q.reasoning ELSE Thoughts(q.content)
    BY <1>1, <1>4, FinalizedMessage
  <1> HIDE DEF f
  <1>6. /\ v \in Messages /\ v.key = f.key /\ v.status = "complete"
        /\ v.content = f.content /\ v.reasoning = f.reasoning
    BY <1>5 DEF Messages
  <1>7. f.reasoning = ReplyReasoning(m, r, types)
    BY <1>3, <1>4, <1>5 DEF a, answer, ReplyReasoning
  <1>8. v.content = Plain(answer)
    BY <1>4, <1>5, <1>6
  <1> QED
    BY <1>2, <1>4, <1>5, <1>6, <1>7, <1>8 DEF answer

LEMMA RepliedType ==
  ASSUME NEW m \in Messages, NEW r \in Requests, NEW types \in SUBSET ChunkTypes
  PROVE  Replied(m, r, types) \in Messages /\ Replied(m, r, types).key = m.key
  BY RepliedMessage

LEMMA EditedMessage ==
  ASSUME NEW m \in PageMessages
  PROVE  LET u == [m EXCEPT !.content = {<<Typed, "text">>}]
         IN /\ u \in PageMessages /\ u.key = m.key /\ u.status = m.status
            /\ u.content = {<<Typed, "text">>} /\ u.reasoning = m.reasoning
  <1>1. {<<Typed, "text">>} \in SUBSET Pieces
    BY DEF Pieces, Origins
  <1>2. LET u == [m EXCEPT !.content = {<<Typed, "text">>}]
        IN /\ u \in Messages /\ u.key = m.key /\ u.status = m.status
           /\ u.content = {<<Typed, "text">>} /\ u.reasoning = m.reasoning
    BY <1>1, PageMessageFields DEF Messages
  <1> QED
    BY <1>2, PageMessageFields DEF PageMessages, From

-----------------------------------------------------------------------------
(* The lists the handlers build, element by element *)

LEMMA PageList ==
  ASSUME NEW L \in Pages
  PROVE  /\ Len(L) \in Nat /\ DOMAIN L = 1..Len(L)
         /\ \A i \in 1..Len(L) : L[i] \in PageMessages
         /\ L # <<>> => Len(L) \in 1..Len(L) /\ Last(L) = L[Len(L)] /\ Last(L) \in PageMessages
         /\ L = <<>> => Len(L) = 0
  <1>1. Len(L) \in Nat /\ DOMAIN L = 1..Len(L) /\ \A i \in 1..Len(L) : L[i] \in PageMessages
    BY LenProperties, ElementOfSeq DEF Pages
  <1>2. L # <<>> => Len(L) \in Nat \ {0}
    BY EmptySeq DEF Pages
  <1>3. L = <<>> => Len(L) = 0
    BY EmptySeq
  <1> QED
    BY <1>1, <1>2, <1>3 DEF Last

LEMMA PagesAreLists == ASSUME NEW L \in Pages PROVE L \in Lists
  <1>1. PageMessages \subseteq Messages
    BY DEF PageMessages
  <1> QED
    BY <1>1, SeqMonotonic DEF Pages, Lists

\* Only the last message changes, and only if it is an answer.
LEMMA LastUpdated ==
  ASSUME NEW L \in Pages, NEW u,
         L # <<>> => u \in Messages /\ u.key = Last(L).key
  PROVE  LET Q == updateLastAssistantMessage(L, u)
         IN /\ Q \in Pages /\ Len(Q) = Len(L)
            /\ \A i \in 1..Len(L) : i # Len(L) => Q[i] = L[i]
            /\ (L # <<>> /\ From(Last(L)) = "assistant") => Q[Len(L)] = u
            /\ (L = <<>> \/ From(Last(L)) # "assistant") => Q = L
  <1>1. CASE L = <<>> \/ From(Last(L)) # "assistant"
    BY <1>1 DEF updateLastAssistantMessage
  <1>2. CASE L # <<>> /\ From(Last(L)) = "assistant"
    <2>1. Len(L) \in 1..Len(L)
      BY <1>2, PageList
    <2>2. u \in PageMessages
      BY <1>2 DEF PageMessages, From
    <2>3. updateLastAssistantMessage(L, u) = [L EXCEPT ![Len(L)] = u]
      BY <1>2 DEF updateLastAssistantMessage
    <2> QED
      BY <1>2, <2>1, <2>2, <2>3, ExceptSeq DEF Pages
  <1> QED
    BY <1>1, <1>2

LEMMA AppendedToPrefix ==
  ASSUME NEW L \in Pages, NEW k \in Nat, k <= Len(L), NEW x \in PageMessages
  PROVE  LET Q == Append(SubSeq(L, 1, k), x)
         IN /\ Q \in Pages /\ Len(Q) = k + 1 /\ Q[k + 1] = x
            /\ \A i \in 1..k : Q[i] = L[i]
  <1>1. \A i \in 1..k : L[i] \in PageMessages
    BY PageList
  <1>2. /\ SubSeq(L, 1, k) \in Seq(PageMessages)
        /\ Len(SubSeq(L, 1, k)) = IF 1 <= k THEN k - 1 + 1 ELSE 0
        /\ \A i \in 1..(k - 1 + 1) : SubSeq(L, 1, k)[i] = L[1 + i - 1]
    BY <1>1, SubSeqProperties
  <1> DEFINE P == SubSeq(L, 1, k)
  <1>3. P \in Seq(PageMessages) /\ Len(P) = k /\ \A i \in 1..k : P[i] = L[i]
    BY <1>2
  <1> HIDE DEF P
  <1>4. /\ Append(P, x) \in Seq(PageMessages) /\ Len(Append(P, x)) = k + 1
        /\ Append(P, x)[k + 1] = x /\ \A i \in 1..k : Append(P, x)[i] = P[i]
    BY <1>3, AppendProperties
  <1> QED
    BY <1>3, <1>4 DEF P, Pages

LEMMA TwoAppended ==
  ASSUME NEW L \in Pages, NEW x \in PageMessages, NEW y \in PageMessages
  PROVE  LET Q == L \o <<x, y>>
         IN /\ Q \in Pages /\ Len(Q) = Len(L) + 2
            /\ Q[Len(L) + 1] = x /\ Q[Len(L) + 2] = y
            /\ \A i \in 1..Len(L) : Q[i] = L[i]
  <1>1. Len(L) \in Nat
    BY PageList
  <1>2. <<x, y>> \in Seq(PageMessages) /\ Len(<<x, y>>) = 2 /\ <<x, y>>[1] = x /\ <<x, y>>[2] = y
    OBVIOUS
  <1> DEFINE t == <<x, y>>
  <1> HIDE DEF t
  <1>3. /\ L \o t \in Seq(PageMessages) /\ Len(L \o t) = Len(L) + 2
        /\ \A i \in 1..Len(L) + 2 : (L \o t)[i] = IF i <= Len(L) THEN L[i] ELSE t[i - Len(L)]
    BY <1>2, ConcatProperties DEF t, Pages
  <1> QED
    BY <1>1, <1>2, <1>3 DEF t, Pages

LEMMA OneRemoved ==
  ASSUME NEW L \in Pages, NEW k \in 1..Len(L)
  PROVE  LET Q == RemoveAt(L, k)
         IN /\ Q \in Pages
            /\ \A i \in 1..Len(Q) : \E j \in 1..Len(L) : Q[i] = L[j]
  <1>0. Len(L) \in Nat /\ \A i \in 1..Len(L) : L[i] \in PageMessages
    BY PageList
  <1> DEFINE A == SubSeq(L, 1, k - 1)
             B == SubSeq(L, k + 1, Len(L))
  <1>1. /\ A \in Seq(PageMessages) /\ Len(A) = k - 1
        /\ \A i \in 1..(k - 1) : A[i] = L[i]
    <2>1. \A i \in 1..(k - 1) : L[i] \in PageMessages
      BY <1>0
    <2>2. /\ SubSeq(L, 1, k - 1) \in Seq(PageMessages)
          /\ Len(SubSeq(L, 1, k - 1)) = IF 1 <= k - 1 THEN k - 1 - 1 + 1 ELSE 0
          /\ \A i \in 1..(k - 1 - 1 + 1) : SubSeq(L, 1, k - 1)[i] = L[1 + i - 1]
      BY <2>1, SubSeqProperties
    <2> QED
      BY <2>2, <1>0
  <1>2. /\ B \in Seq(PageMessages) /\ Len(B) = Len(L) - k
        /\ \A i \in 1..(Len(L) - k) : B[i] = L[k + i]
    <2>1. \A i \in (k + 1)..Len(L) : L[i] \in PageMessages
      BY <1>0
    <2>2. /\ SubSeq(L, k + 1, Len(L)) \in Seq(PageMessages)
          /\ Len(SubSeq(L, k + 1, Len(L))) = IF k + 1 <= Len(L) THEN Len(L) - (k + 1) + 1 ELSE 0
          /\ \A i \in 1..(Len(L) - (k + 1) + 1) : SubSeq(L, k + 1, Len(L))[i] = L[k + 1 + i - 1]
      BY <2>1, <1>0, SubSeqProperties
    <2> QED
      BY <2>2, <1>0
  <1>3. RemoveAt(L, k) = A \o B
    BY DEF RemoveAt
  <1> HIDE DEF A, B
  <1>4. /\ A \o B \in Seq(PageMessages) /\ Len(A \o B) = Len(A) + Len(B)
        /\ \A i \in 1..(Len(A) + Len(B)) : (A \o B)[i] = IF i <= Len(A) THEN A[i] ELSE B[i - Len(A)]
    BY <1>1, <1>2, ConcatProperties
  <1>5. ASSUME NEW i \in 1..Len(A \o B)
        PROVE  \E j \in 1..Len(L) : (A \o B)[i] = L[j]
    <2>1. CASE i <= Len(A)
      BY <1>0, <1>1, <1>2, <1>4, <2>1
    <2>2. CASE ~(i <= Len(A))
      <3>1. i - Len(A) \in 1..(Len(L) - k) /\ k + (i - Len(A)) \in 1..Len(L)
        BY <1>0, <1>1, <1>2, <1>4, <2>2
      <3>2. (A \o B)[i] = L[k + (i - Len(A))]
        BY <1>0, <1>1, <1>2, <1>4, <2>2, <3>1
      <3> QED
        BY <3>1, <3>2
    <2> QED
      BY <2>1, <2>2
  <1> QED
    BY <1>3, <1>4, <1>5 DEF Pages

LEMMA OneEdited ==
  ASSUME NEW L \in Pages, NEW k \in 1..Len(L)
  PROVE  LET Q == [L EXCEPT ![k].content = {<<Typed, "text">>}]
         IN /\ Q \in Pages /\ Len(Q) = Len(L)
            /\ \A i \in 1..Len(L) : i # k => Q[i] = L[i]
            /\ Q[k] = [L[k] EXCEPT !.content = {<<Typed, "text">>}]
  <1>1. [L EXCEPT ![k].content = {<<Typed, "text">>}]
          = [L EXCEPT ![k] = [L[k] EXCEPT !.content = {<<Typed, "text">>}]]
    BY PageList
  <1> DEFINE u == [L[k] EXCEPT !.content = {<<Typed, "text">>}]
  <1>2. u \in PageMessages
    BY PageList, EditedMessage
  <1> HIDE DEF u
  <1>3. /\ [L EXCEPT ![k] = u] \in Seq(PageMessages) /\ Len([L EXCEPT ![k] = u]) = Len(L)
        /\ \A i \in 1..Len(L) : [L EXCEPT ![k] = u][i] = IF i = k THEN u ELSE L[i]
    BY <1>2, ExceptSeq DEF Pages
  <1> QED
    BY <1>1, <1>3 DEF u, Pages

-----------------------------------------------------------------------------
(* The list after a load *)

Stuck(L) == {i \in DOMAIN L : From(L[i]) = "assistant" /\ Unsettled(L[i])}

Repaired(m) ==
  LET done == Complete(m)
  IN IF done.content # {} \/ done.reasoning # {} THEN done
     ELSE [done EXCEPT !.content = {<<Interrupted, "text">>}, !.status = "error"]

LEMMA RepairedMessage ==
  ASSUME NEW m \in Messages
  PROVE  LET u == Repaired(m)
             done == Complete(m)
         IN /\ u \in Messages /\ u.key = m.key /\ ~Unsettled(u)
            /\ (done.content # {} \/ done.reasoning # {}) => u = done
            /\ ~(done.content # {} \/ done.reasoning # {}) =>
                  u.status = "error" /\ u.content = {<<Interrupted, "text">>} /\ u.reasoning = {}
  <1> DEFINE done == Complete(m)
             lost == [done EXCEPT !.content = {<<Interrupted, "text">>}, !.status = "error"]
  <1>1. done \in Messages /\ done.key = m.key /\ done.status = "complete"
    BY CompletedMessage
  <1>2. Repaired(m) = IF done.content # {} \/ done.reasoning # {} THEN done ELSE lost
    BY DEF Repaired
  <1>3. {<<Interrupted, "text">>} \in SUBSET Pieces
    BY DEF Pieces, Origins
  <1> HIDE DEF done
  <1>4. /\ lost \in Messages /\ lost.key = done.key /\ lost.status = "error"
        /\ lost.content = {<<Interrupted, "text">>} /\ lost.reasoning = done.reasoning
    BY <1>1, <1>3 DEF Messages
  <1> QED
    BY <1>1, <1>2, <1>4 DEF Unsettled, done

LEMMA LargestIndex ==
  ASSUME NEW n \in Nat, NEW S \in SUBSET (1..n), S # {}
  PROVE  \E i \in S : \A j \in S : j <= i
  <1> DEFINE T == {n - i : i \in S}
  <1>0. \A i \in S : n - i \in Nat
    OBVIOUS
  <1>1. T \subseteq Nat /\ T # {}
    BY <1>0
  <1>2. PICK t \in T : \A u \in T : ~(<<u, t>> \in OpToRel(<, Nat))
    BY <1>1, NatLessThanWellFounded, WFMin
  <1>3. PICK i \in S : t = n - i
    BY <1>2
  <1>4. ASSUME NEW j \in S PROVE j <= i
    <2>1. n - j \in T /\ n - j \in Nat /\ t \in Nat
      BY <1>0, <1>3
    <2>2. ~(n - j < t)
      BY <1>2, <2>1 DEF OpToRel
    <2> QED
      BY <1>3, <2>1, <2>2
  <1> QED
    BY <1>4

LEMMA Sanitized ==
  ASSUME NEW L \in Pages
  PROVE  LET Q == sanitizeMessagesOnLoad(L)
         IN /\ Q \in Pages /\ Len(Q) = Len(L)
            /\ Stuck(L) = {} => Q = L
            /\ Stuck(L) # {} => \E k \in Stuck(L) :
                 /\ \A j \in Stuck(L) : j <= k
                 /\ Q[k] = Repaired(L[k])
                 /\ \A i \in 1..Len(L) : i # k => Q[i] = L[i]
  <1> DEFINE target == CHOOSE i \in Stuck(L) : \A j \in Stuck(L) : j <= i
             u == Repaired(L[target])
             Q == sanitizeMessagesOnLoad(L)
  <1>1. Q = IF Stuck(L) = {} THEN L ELSE [L EXCEPT ![target] = u]
    BY DEF sanitizeMessagesOnLoad, Stuck, Repaired
  <1>2. CASE Stuck(L) = {}
    BY <1>1, <1>2
  <1>3. CASE Stuck(L) # {}
    <2>1. Stuck(L) \in SUBSET (1..Len(L)) /\ Len(L) \in Nat
      BY PageList DEF Stuck
    <2>2. \E i \in Stuck(L) : \A j \in Stuck(L) : j <= i
      BY <1>3, <2>1, LargestIndex
    <2>3. target \in Stuck(L) /\ \A j \in Stuck(L) : j <= target
      BY <2>2
    <2> HIDE DEF target
    <2>4. target \in 1..Len(L) /\ L[target] \in PageMessages /\ From(L[target]) = "assistant"
      BY <2>1, <2>3, PageList DEF Stuck
    <2>5. u \in Messages /\ u.key = L[target].key
      BY <2>4, RepairedMessage DEF PageMessages
    <2>6. u \in PageMessages
      BY <2>4, <2>5 DEF PageMessages, From
    <2>7. Q = [L EXCEPT ![target] = u]
      BY <1>1, <1>3
    <2> HIDE DEF Q, u
    <2>8. /\ [L EXCEPT ![target] = u] \in Seq(PageMessages)
          /\ Len([L EXCEPT ![target] = u]) = Len(L)
          /\ \A j \in 1..Len(L) : [L EXCEPT ![target] = u][j] = IF j = target THEN u ELSE L[j]
      BY <2>4, <2>6, ExceptSeq DEF Pages
    <2>9. Q[target] = Repaired(L[target]) /\ \A i \in 1..Len(L) : i # target => Q[i] = L[i]
      BY <2>4, <2>7, <2>8 DEF u
    <2>10. Q \in Pages /\ Len(Q) = Len(L)
      BY <2>7, <2>8 DEF Pages
    <2> QED
      BY <1>3, <2>3, <2>9, <2>10 DEF Q
  <1> QED
    BY <1>2, <1>3

-----------------------------------------------------------------------------
(* The types, and the refs: every handler *)

LEMMA InitPage == Init => PageInv
  <1> SUFFICES ASSUME Init PROVE PageInv
    OBVIOUS
  <1>1. <<>> \in Pages
    BY EmptySeq DEF Pages
  <1>2. messages \in Pages /\ saved \in Pages /\ view.msgs \in Pages /\ view.generating \in BOOLEAN
    BY <1>1 DEF Init
  <1>3. next \in 0..MaxRequests /\ faults \in 0..MaxFaults
    BY BoundsAssumption DEF Init
  <1> QED
    BY <1>2, <1>3 DEF Init, PageInv, ChatInv

LEMMA PageTypes == PageInv => TypeOK
  <1> SUFFICES ASSUME PageInv PROVE TypeOK
    OBVIOUS
  <1>1. messages \in Lists /\ saved \in Lists /\ view.msgs \in Lists
    BY PagesAreLists DEF PageInv, ChatInv
  <1> QED
    BY <1>1 DEF PageInv, ChatInv, TypeOK

LEMMA Written ==
  ASSUME PageInv, NEW L \in Pages, updateMessages(L)
  PROVE  messages' = L /\ messages' \in Pages /\ saved' \in Pages
         /\ (saved' = saved \/ saved' = L)
  BY DEF PageInv, ChatInv, updateMessages

LEMMA Flushed ==
  ASSUME messages' \in Pages, Flush
  PROVE  /\ view'.msgs = messages' /\ view'.msgs \in Pages
         /\ view'.generating \in BOOLEAN /\ (view'.generating <=> ref' # None)
  BY DEF Flush

LEMMA FailedList ==
  ASSUME NEW L \in Pages, NEW r \in Requests
  PROVE  LET Q == updateAssistantMessageWithError(L, r)
         IN /\ Q \in Pages /\ Len(Q) = Len(L)
            /\ \A i \in 1..Len(L) : i # Len(L) => Q[i] = L[i]
            /\ (L # <<>> /\ From(Last(L)) = "assistant") => Q[Len(L)] = Failed(Last(L), r)
            /\ (L = <<>> \/ From(Last(L)) # "assistant") => Q = L
  <1>1. L # <<>> => Failed(Last(L), r) \in Messages /\ Failed(Last(L), r).key = Last(L).key
    BY PageList, PageMessageFields, FailedMessage
  <1>2. updateAssistantMessageWithError(L, r) = updateLastAssistantMessage(L, Failed(Last(L), r))
    BY DEF updateAssistantMessageWithError, Failed
  <1> HIDE DEF Failed
  <1> QED
    BY <1>1, <1>2, LastUpdated

LEMMA FreshRequest ==
  ASSUME PageInv, next < MaxRequests
  PROVE  Fresh \in Requests /\ Fresh \in 0..MaxRequests /\ Fresh # None /\ Fresh > next
  BY BoundsAssumption, RequestsType DEF PageInv, ChatInv, Fresh, Requests

LEMMA CarriedType ==
  ASSUME PageInv, NEW L \in Pages, Carry(L)
  PROVE  carried' \subseteq Requests
  <1>1. \A m \in Range(L) : Request(m) \in Requests
    <2>1. SUFFICES ASSUME NEW i \in DOMAIN L PROVE Request(L[i]) \in Requests
      BY DEF Range
    <2> QED
      BY PageList, PageMessageFields, MessageFields
  <1> QED
    BY <1>1 DEF Carry, PageInv, ChatInv

LEMMA SendChatPage ==
  ASSUME PageInv, NEW L \in Pages, sendChat(L)
  PROVE  ChatInv'
  <1>1. /\ next < MaxRequests /\ next' = Fresh /\ Carry(L) /\ Flush
        /\ UNCHANGED <<stream, full, delivered, cut>>
    BY DEF sendChat
  <1>2. /\ Fresh \in Requests /\ Fresh \in 0..MaxRequests /\ Fresh # None
        /\ carried' \subseteq Requests
    BY <1>1, FreshRequest, CarriedType
  <1>3. CASE stream /\ sendStreamRequest(L)
    <2>1. /\ ref' = Fresh /\ complete' = FALSE /\ open' = open \cup {Fresh} /\ updateMessages(L)
          /\ UNCHANGED faults
      BY <1>3 DEF sendStreamRequest
    <2>2. messages' \in Pages /\ saved' \in Pages
      BY <2>1, Written
    <2>3. view'.msgs \in Pages /\ view'.generating \in BOOLEAN /\ (view'.generating <=> ref' # None)
      BY <1>1, <2>2, Flushed
    <2> QED
      BY <1>1, <1>2, <1>3, <2>1, <2>2, <2>3 DEF PageInv, ChatInv
  <1>4. CASE stream /\ StreamStartError(L)
    <2>1. /\ ref' = None /\ complete' = FALSE
          /\ updateMessages(updateAssistantMessageWithError(L, Fresh)) /\ UNCHANGED open
          /\ faults < MaxFaults /\ faults' = faults + 1
      BY <1>4 DEF StreamStartError, Fault
    <2>2. messages' \in Pages /\ saved' \in Pages
      BY <1>2, <2>1, Written, FailedList
    <2>3. view'.msgs \in Pages /\ view'.generating \in BOOLEAN /\ (view'.generating <=> ref' # None)
      BY <1>1, <2>2, Flushed
    <2>4. faults' \in 0..MaxFaults
      BY <2>1, BoundsAssumption DEF PageInv, ChatInv
    <2> QED
      BY <1>1, <1>2, <1>4, <2>1, <2>2, <2>3, <2>4 DEF PageInv, ChatInv
  <1>5. CASE ~stream /\ sendNonStreamingChat(L)
    <2>1. /\ open' = open \cup {Fresh} /\ updateMessages(L) /\ UNCHANGED <<ref, complete, faults>>
      BY <1>5 DEF sendNonStreamingChat
    <2>2. messages' \in Pages /\ saved' \in Pages
      BY <2>1, Written
    <2>3. view'.msgs \in Pages /\ view'.generating \in BOOLEAN /\ (view'.generating <=> ref' # None)
      BY <1>1, <2>2, Flushed
    <2> QED
      BY <1>1, <1>2, <1>5, <2>1, <2>2, <2>3 DEF PageInv, ChatInv
  <1> QED
    BY <1>3, <1>4, <1>5 DEF sendChat

\* The lists the three handlers that ask for an answer start from.
SentList == view.msgs \o <<createUserMessage(Fresh), createLoadingAssistantMessage(Fresh)>>

RetriedList(i) == Append(SubSeq(view.msgs, 1, i - 1), createLoadingAssistantMessage(Fresh))

EditedList(i) == [view.msgs EXCEPT ![i].content = {<<Typed, "text">>}]

ResentList(i) == Append(SubSeq(EditedList(i), 1, i), createLoadingAssistantMessage(Fresh))

LEMMA SentType ==
  ASSUME PageInv, next < MaxRequests
  PROVE  SentList \in Pages
  BY FreshRequest, CreatedMessages, TwoAppended DEF SentList, PageInv, ChatInv

LEMMA RetriedType ==
  ASSUME PageInv, next < MaxRequests, NEW i \in DOMAIN view.msgs
  PROVE  RetriedList(i) \in Pages
  <1>1. i - 1 \in Nat /\ i - 1 <= Len(view.msgs)
    BY PageList DEF PageInv, ChatInv
  <1> QED
    BY <1>1, FreshRequest, CreatedMessages, AppendedToPrefix DEF RetriedList, PageInv, ChatInv

LEMMA EditedType ==
  ASSUME PageInv, NEW i \in DOMAIN view.msgs
  PROVE  EditedList(i) \in Pages /\ i \in 1..Len(view.msgs) /\ Len(EditedList(i)) = Len(view.msgs)
  BY PageList, OneEdited DEF EditedList, PageInv, ChatInv

LEMMA ResentType ==
  ASSUME PageInv, next < MaxRequests, NEW i \in DOMAIN view.msgs
  PROVE  ResentList(i) \in Pages
  <1>1. i \in Nat /\ i <= Len(EditedList(i)) /\ EditedList(i) \in Pages
    BY EditedType, PageList
  <1> QED
    BY <1>1, FreshRequest, CreatedMessages, AppendedToPrefix DEF ResentList

\* A handler that leaves the list alone.
LEMMA UntouchedPage ==
  ASSUME PageInv, UNCHANGED <<stream, messages, saved, full, view, ref, complete, open,
                              next, faults, delivered, cut, carried>>
  PROVE  ChatInv'
  BY DEF PageInv, ChatInv

\* A handler of the user that writes a list and asks for nothing.
LEMMA EditPage ==
  ASSUME PageInv, NEW L \in Pages, updateMessages(L), Flush, ref' \in {ref, None},
         open' \subseteq open,
         UNCHANGED <<stream, full, complete, next, faults, delivered, cut, carried>>
  PROVE  ChatInv'
  <1>1. messages' \in Pages /\ saved' \in Pages
    BY Written
  <1>2. view'.msgs \in Pages /\ view'.generating \in BOOLEAN /\ (view'.generating <=> ref' # None)
    BY <1>1, Flushed
  <1> QED
    BY <1>1, <1>2 DEF PageInv, ChatInv

\* A callback that writes a list; the page is rendered later.
LEMMA CallbackPage ==
  ASSUME PageInv, messages' \in Pages, saved' \in Pages, ref' \in {ref, None},
         complete' \in BOOLEAN, open' \subseteq open, delivered' \subseteq Requests,
         UNCHANGED <<stream, full, view, editing, next, faults, cut, carried, crossed>>
  PROVE  PageInv'
  BY DEF PageInv, ChatInv

\* A request ends without a word.
LEMMA SilentPage ==
  ASSUME PageInv, Fault, open' \subseteq open, cut' \subseteq Requests,
         UNCHANGED <<stream, messages, saved, full, view, editing, ref, complete,
                     next, delivered, carried, crossed>>
  PROVE  PageInv'
  <1>1. faults' \in 0..MaxFaults
    BY BoundsAssumption DEF PageInv, ChatInv, Fault
  <1> QED
    BY <1>1 DEF PageInv, ChatInv

LEMMA UngatedType ==
  ASSUME PageInv, NEW g, Ungated(g)
  PROVE  crossed' \in BOOLEAN
  BY DEF Ungated, PageInv

Settle(m) == IF Unsettled(m) THEN Complete(m) ELSE m

Finish(m) == IF m.status \in {"complete", "error"} THEN m ELSE Complete(m)

LEMMA SettledType ==
  ASSUME NEW L \in Pages
  PROVE  /\ updateLastAssistantMessage(L, Settle(Last(L))) \in Pages
         /\ updateLastAssistantMessage(L, Finish(Last(L))) \in Pages
  <1>1. L # <<>> => /\ Settle(Last(L)) \in Messages /\ Settle(Last(L)).key = Last(L).key
                    /\ Finish(Last(L)) \in Messages /\ Finish(Last(L)).key = Last(L).key
    BY PageList, PageMessageFields, CompletedMessage DEF Settle, Finish
  <1> QED
    BY <1>1, LastUpdated

LEMMA ChunkedListType ==
  ASSUME NEW L \in Pages, NEW r \in Requests, NEW type \in ChunkTypes
  PROVE  updateLastAssistantMessage(L, Chunked(Last(L), r, type)) \in Pages
  <1>1. L # <<>> => /\ Chunked(Last(L), r, type) \in Messages
                    /\ Chunked(Last(L), r, type).key = Last(L).key
    BY PageList, PageMessageFields, ChunkedType
  <1> QED
    BY <1>1, LastUpdated

LEMMA RepliedListType ==
  ASSUME NEW L \in Pages, NEW r \in Requests, NEW types \in SUBSET ChunkTypes
  PROVE  updateLastAssistantMessage(L, Replied(Last(L), r, types)) \in Pages
  <1>0. L # <<>> => Last(L) \in Messages
    BY PageList, PageMessageFields
  <1>1. L # <<>> => /\ Replied(Last(L), r, types) \in Messages
                    /\ Replied(Last(L), r, types).key = Last(L).key
    BY <1>0, RepliedType
  <1> QED
    BY <1>1, LastUpdated

LEMMA UserPage ==
  ASSUME PageInv, User
  PROVE  PageInv'
  <1>0. editing \in Keys \cup {None} /\ view.msgs \in Pages /\ messages \in Pages
    BY DEF PageInv, ChatInv
  <1>1. ASSUME handleSendMessage, NEW g, Ungated(g) PROVE PageInv'
    <2>1. sendChat(SentList) /\ UNCHANGED editing
      BY <1>1 DEF handleSendMessage, SentList
    <2>2. SentList \in Pages
      BY <2>1, SentType DEF sendChat
    <2> QED
      BY <1>0, <1>1, <2>1, <2>2, SendChatPage, UngatedType DEF PageInv
  <1>2. CASE handleSubmit \/ handleSuggestionClick
    BY <1>1, <1>2 DEF handleSubmit, handleSuggestionClick
  <1>3. CASE handleEditCancel
    BY <1>3, UntouchedPage DEF handleEditCancel, PageInv
  <1>4. CASE stopGeneration
    <2>1. updateMessages(updateLastAssistantMessage(messages, Settle(Last(messages))))
      BY <1>4 DEF stopGeneration, Settle
    <2>2. ChatInv'
      BY <1>0, <1>4, <2>1, SettledType, EditPage DEF stopGeneration
    <2> QED
      BY <1>0, <1>4, <2>2 DEF stopGeneration, PageInv
  <1>5. ASSUME NEW i \in DOMAIN view.msgs, handleRegenerateMessage(i) PROVE PageInv'
    <2>1. sendChat(RetriedList(i)) /\ Ungated(TRUE) /\ UNCHANGED editing
      BY <1>5 DEF handleRegenerateMessage, RetriedList
    <2>2. RetriedList(i) \in Pages
      BY <2>1, RetriedType DEF sendChat
    <2> QED
      BY <1>0, <2>1, <2>2, SendChatPage, UngatedType DEF PageInv
  <1>6. ASSUME NEW i \in DOMAIN view.msgs, handleDeleteMessage(i) PROVE PageInv'
    <2>1. RemoveAt(view.msgs, i) \in Pages
      BY <1>0, PageList, OneRemoved
    <2>2. ChatInv'
      BY <1>6, <2>1, EditPage DEF handleDeleteMessage
    <2> QED
      BY <1>0, <1>6, <2>2, UngatedType DEF handleDeleteMessage, PageInv
  <1>7. ASSUME NEW i \in DOMAIN view.msgs, handleEditMessage(i) PROVE PageInv'
    <2>1. view.msgs[i].key \in Keys
      BY <1>0, PageList, PageMessageFields, MessageFields
    <2> QED
      BY <1>7, <2>1, UntouchedPage DEF handleEditMessage, PageInv
  <1>8. ASSUME NEW i \in DOMAIN view.msgs, NEW submit \in BOOLEAN, applyEdit(i, submit)
        PROVE  PageInv'
    <2>1. editing' = None /\ Ungated(FALSE)
      BY <1>8 DEF applyEdit
    <2>2. CASE submit
      <3>1. sendChat(ResentList(i))
        BY <1>8, <2>2 DEF applyEdit, ResentList, EditedList
      <3>2. ResentList(i) \in Pages
        BY <3>1, ResentType DEF sendChat
      <3> QED
        BY <2>1, <3>1, <3>2, SendChatPage, UngatedType DEF PageInv
    <2>3. CASE ~submit
      <3>1. /\ updateMessages(EditedList(i)) /\ Flush
            /\ UNCHANGED <<ref, stream, full, complete, open, next, faults, delivered, cut, carried>>
        BY <1>8, <2>3 DEF applyEdit, EditedList
      <3>2. ChatInv'
        BY <3>1, EditedType, EditPage
      <3> QED
        BY <2>1, <3>2, UngatedType DEF PageInv
    <2> QED
      BY <2>2, <2>3
  <1>9. CASE \E i \in DOMAIN view.msgs :
               \/ handleRegenerateMessage(i) \/ handleDeleteMessage(i) \/ handleEditMessage(i)
               \/ \E submit \in BOOLEAN : applyEdit(i, submit)
    BY <1>5, <1>6, <1>7, <1>8, <1>9
  <1> QED
    BY <1>2, <1>3, <1>4, <1>9 DEF User

LEMMA NetworkPage ==
  ASSUME PageInv, NEW r \in Requests, Network(r)
  PROVE  PageInv'
  <1>0. messages \in Pages /\ complete \in BOOLEAN /\ delivered \subseteq Requests
        /\ cut \subseteq Requests /\ saved \in Pages
    BY DEF PageInv, ChatInv
  <1>1. ASSUME NEW type \in ChunkTypes, handleStreamUpdate(r, type) PROVE PageInv'
    <2>1. updateMessages(updateLastAssistantMessage(messages, Chunked(Last(messages), r, type)))
      BY <1>1 DEF handleStreamUpdate, Chunked
    <2>2. messages' \in Pages /\ saved' \in Pages
      BY <1>0, <2>1, ChunkedListType, Written
    <2> QED
      BY <1>0, <1>1, <2>2, CallbackPage DEF handleStreamUpdate
  <1>2. CASE handleStreamComplete(r)
    <2>1. updateMessages(updateLastAssistantMessage(messages, Finish(Last(messages))))
      BY <1>2 DEF handleStreamComplete, Finish
    <2>2. messages' \in Pages /\ saved' \in Pages
      BY <1>0, <2>1, SettledType, Written
    <2> QED
      BY <1>0, <1>2, <2>2, CallbackPage DEF handleStreamComplete, closeSource
  <1>3. ASSUME NEW dead \in BOOLEAN, handleError(r, dead) PROVE PageInv'
    <2>1. CASE complete
      <3>1. open' \subseteq open /\ UNCHANGED <<messages, saved, ref>>
        BY <1>3, <2>1 DEF handleError
      <3> QED
        BY <1>0, <1>3, <3>1, CallbackPage DEF handleError
    <2>2. CASE ~complete
      <3>1. closeSource(r) /\ updateMessages(updateAssistantMessageWithError(messages, r))
        BY <1>3, <2>2 DEF handleError
      <3>2. messages' \in Pages /\ saved' \in Pages
        BY <1>0, <3>1, FailedList, Written
      <3> QED
        BY <1>0, <1>3, <3>1, <3>2, CallbackPage DEF handleError, closeSource
    <2> QED
      BY <2>1, <2>2
  <1>4. CASE StreamCut(r) \/ ResponseWithoutChoice(r)
    BY <1>0, <1>4, SilentPage DEF StreamCut, ResponseWithoutChoice
  <1>5. ASSUME NEW types \in SUBSET ChunkTypes, Response(r, types) PROVE PageInv'
    <2>1. updateMessages(updateLastAssistantMessage(messages, Replied(Last(messages), r, types)))
      BY <1>5 DEF Response, Replied
    <2>2. messages' \in Pages /\ saved' \in Pages
      BY <1>0, <2>1, RepliedListType, Written
    <2>3. delivered' \subseteq Requests
      BY <1>0, <1>5 DEF Response
    <2> QED
      BY <1>0, <1>5, <2>2, <2>3, CallbackPage DEF Response
  <1>6. CASE ResponseError(r)
    <2>1. messages' \in Pages /\ saved' \in Pages
      BY <1>0, <1>6, FailedList, Written DEF ResponseError
    <2> QED
      BY <1>0, <1>6, <2>1, CallbackPage DEF ResponseError
  <1> QED
    BY <1>1, <1>2, <1>3, <1>4, <1>5, <1>6 DEF Network, Answered

LEMMA NextPage == PageInv /\ [Next]_vars => PageInv'
  <1> SUFFICES ASSUME PageInv, [Next]_vars PROVE PageInv'
    OBVIOUS
  <1>0. messages \in Pages /\ saved \in Pages /\ full \in BOOLEAN
    BY DEF PageInv, ChatInv
  <1>1. CASE Render
    <2>1. view'.msgs = messages /\ view'.generating \in BOOLEAN /\ (view'.generating <=> ref # None)
      BY <1>1 DEF Render
    <2> QED
      BY <1>0, <1>1, <2>1 DEF Render, PageInv, ChatInv
  <1>2. CASE Reload
    <2>1. messages' \in Pages /\ saved' \in Pages
      BY <1>0, <1>2, Sanitized DEF Reload
    <2>2. view'.msgs \in Pages /\ view'.generating \in BOOLEAN /\ (view'.generating <=> ref' # None)
      BY <1>2, <2>1, Flushed DEF Reload
    <2> QED
      BY <1>2, <2>1, <2>2 DEF Reload, PageInv, ChatInv
  <1>3. CASE StorageFull
    <2>1. faults' \in 0..MaxFaults
      BY <1>3, BoundsAssumption DEF StorageFull, Fault, PageInv, ChatInv
    <2> QED
      BY <1>0, <1>3, <2>1 DEF StorageFull, PageInv, ChatInv
  <1>4. CASE UNCHANGED vars
    BY <1>4 DEF vars, PageInv, ChatInv
  <1> QED
    BY <1>1, <1>2, <1>3, <1>4, UserPage, NetworkPage DEF Next

LEMMA PageInvariant == Spec => []PageInv
  BY InitPage, NextPage, PTL DEF Spec

\* The state of the page is of its type, whatever the handlers cross.
THEOREM PlaygroundTypeCorrect == Spec => []TypeOK
  BY PageInvariant, PageTypes, PTL

-----------------------------------------------------------------------------
(* What keeps the answers apart *)

Texts(m) == {p[1] : p \in m.content} \cup m.reasoning

\* Everything in the message belongs to its own request.
Own(m) ==
  /\ \A p \in m.content : p[1] = Request(m) /\ p[2] \in {"text", "think"}
  /\ m.reasoning \subseteq {Request(m)}

\* An answer of a request up to n, with O the live requests and D the ones
\* some text of which arrived.
MessageOK(m, O, n, D) ==
  /\ Request(m) <= n
  /\ Texts(m) \subseteq {Request(m), Typed, Interrupted}
  /\ Unsettled(m) => Own(m)
  /\ Request(m) \in O => Unsettled(m)
  /\ (m.status = "complete" /\ Request(m) \in D /\ Typed \notin Texts(m)) => Request(m) \in Texts(m)

ListOK(L, O, n, D) ==
  /\ \A i \in 1..Len(L) : From(L[i]) = "assistant" => MessageOK(L[i], O, n, D)
  /\ \A i \in 1..Len(L) : Unsettled(L[i]) => i = Len(L)

Quiet(L) == \A i \in 1..Len(L) : ~Unsettled(L[i])

\* What holds as long as no unguarded handler has run with an answer under way.
Live ==
  /\ open \subseteq 1..next /\ delivered \subseteq 1..next
  /\ open # {} => messages # <<>> /\ (stream => ~complete)
  /\ \A r \in open : Unsettled(Last(messages)) /\ Request(Last(messages)) = r
  /\ stream => open \subseteq {ref}
  /\ ~stream => open \cap delivered = {}

Ending ==
  \A i \in 1..Len(messages) : Unsettled(messages[i]) =>
    /\ stream => ref = Request(messages[i])
    /\ ~stream => Request(messages[i]) \in open \cup cut
    /\ Request(messages[i]) \in delivered => Texts(messages[i]) # {}

Rendered ==
  /\ (stream /\ ~view.generating) => Quiet(view.msgs)
  /\ (~view.generating /\ Quiet(view.msgs)) => view.msgs = messages /\ open = {}

Apart ==
  /\ carried = {}
  /\ ListOK(messages, open, next, delivered)
  /\ ListOK(saved, open, next, delivered)
  /\ Live /\ Ending /\ Rendered

\* The live requests, the number of requests and the delivered ones move on.
Later(O, n, D, O2, n2, D2) ==
  /\ n \in Nat /\ n2 \in Nat /\ n <= n2
  /\ \A x \in O2 : x <= n => x \in O
  /\ D2 \subseteq D \cup O

LEMMA MessageLater ==
  ASSUME NEW m \in Messages, NEW O, NEW n, NEW D, NEW O2, NEW n2, NEW D2,
         Later(O, n, D, O2, n2, D2), MessageOK(m, O, n, D)
  PROVE  MessageOK(m, O2, n2, D2)
  <1>1. Request(m) \in Nat
    BY MessageFields, RequestsType
  <1>2. Request(m) <= n2
    BY <1>1 DEF MessageOK, Later
  <1>3. Request(m) \in O2 => Unsettled(m)
    BY DEF MessageOK, Later
  <1>4. ASSUME m.status = "complete", Request(m) \in D2, Typed \notin Texts(m)
        PROVE  Request(m) \in Texts(m)
    <2>1. ~Unsettled(m)
      BY <1>4 DEF Unsettled
    <2> QED
      BY <1>4, <2>1 DEF MessageOK, Later
  <1> QED
    BY <1>2, <1>3, <1>4 DEF MessageOK

\* A list whose settled messages come from a good list.
LEMMA ComposedList ==
  ASSUME NEW V \in Pages, NEW Q \in Pages, NEW O, NEW n, NEW D, NEW O2, NEW n2, NEW D2,
         ListOK(V, O, n, D), Later(O, n, D, O2, n2, D2),
         \A j \in 1..Len(Q) :
           \/ \E i \in 1..Len(V) : Q[j] = V[i] /\ (Unsettled(V[i]) => j = Len(Q))
           \/ /\ Unsettled(Q[j]) => j = Len(Q)
              /\ From(Q[j]) = "assistant" => MessageOK(Q[j], O2, n2, D2)
  PROVE  ListOK(Q, O2, n2, D2)
  <1>1. ASSUME NEW i \in 1..Len(V), From(V[i]) = "assistant"
        PROVE  MessageOK(V[i], O2, n2, D2)
    <2>1. V[i] \in Messages
      BY PageList, PageMessageFields
    <2>2. MessageOK(V[i], O, n, D)
      BY <1>1 DEF ListOK
    <2> QED
      BY <2>1, <2>2, MessageLater
  <1> QED
    BY <1>1 DEF ListOK

LEMMA ListLater ==
  ASSUME NEW L \in Pages, NEW O, NEW n, NEW D, NEW O2, NEW n2, NEW D2,
         ListOK(L, O, n, D), Later(O, n, D, O2, n2, D2)
  PROVE  ListOK(L, O2, n2, D2)
  <1>1. \A j \in 1..Len(L) : \E i \in 1..Len(L) : L[j] = L[i] /\ (Unsettled(L[i]) => j = Len(L))
    BY DEF ListOK
  <1> QED
    BY <1>1, ComposedList

\* Another last message.
LEMMA LastReplaced ==
  ASSUME NEW L \in Pages, NEW Q \in Pages, NEW O, NEW n, NEW D, NEW O2, NEW n2, NEW D2,
         ListOK(L, O, n, D), Later(O, n, D, O2, n2, D2), Len(Q) = Len(L),
         \A i \in 1..Len(L) : i # Len(L) => Q[i] = L[i],
         From(Q[Len(L)]) = "assistant" => MessageOK(Q[Len(L)], O2, n2, D2)
  PROVE  ListOK(Q, O2, n2, D2)
  <1>1. ASSUME NEW j \in 1..Len(Q)
        PROVE  \/ \E i \in 1..Len(L) : Q[j] = L[i] /\ (Unsettled(L[i]) => j = Len(Q))
               \/ /\ Unsettled(Q[j]) => j = Len(Q)
                  /\ From(Q[j]) = "assistant" => MessageOK(Q[j], O2, n2, D2)
    BY DEF ListOK
  <1> QED
    BY <1>1, ComposedList

LEMMA LoadingOK ==
  ASSUME NEW r \in Requests, NEW O, NEW n, NEW D, r <= n
  PROVE  LET m == createLoadingAssistantMessage(r)
         IN MessageOK(m, O, n, D) /\ Own(m) /\ ~isValidMessage(m)
  BY DEF createLoadingAssistantMessage, MessageOK, Own, Texts, Request, From, Unsettled,
     isValidMessage

LEMMA FailedOK ==
  ASSUME NEW m \in Messages, Own(m), NEW O, NEW n, NEW D,
         Request(m) <= n, Request(m) \notin O
  PROVE  LET u == Failed(m, Request(m)) IN MessageOK(u, O, n, D) /\ ~Unsettled(u)
  <1> DEFINE r == Request(m)
             u == Failed(m, r)
  <1>1. r \in Requests
    BY MessageFields
  <1>2. u.key = m.key /\ u.status = "error" /\ u.content = {<<r, "text">>} /\ u.reasoning = m.reasoning
    BY <1>1, FailedMessage
  <1>3. Request(u) = r
    BY <1>2 DEF Request
  <1> HIDE DEF u, r
  <1>4. Texts(u) \subseteq {r}
    BY <1>2 DEF Texts, Own, r
  <1> QED
    BY <1>2, <1>3, <1>4 DEF MessageOK, Unsettled, u, r

\* The text of an answer survives its completion.
LEMMA CompleteOK ==
  ASSUME NEW m \in Messages, Own(m), NEW O, NEW n, NEW D,
         Request(m) <= n, Request(m) \notin O, Request(m) \in D => Texts(m) # {}
  PROVE  LET u == Complete(m) IN MessageOK(u, O, n, D) /\ ~Unsettled(u)
  <1> DEFINE r == Request(m)
             u == Complete(m)
  <1>1. /\ u.key = m.key /\ u.status = "complete" /\ u.content = Plain(m.content)
        /\ u.reasoning = IF m.reasoning # {} THEN m.reasoning ELSE Thoughts(m.content)
    BY CompletedMessage
  <1>2. Request(u) = r
    BY <1>1 DEF Request
  <1> HIDE DEF u
  <1>3. Texts(u) \subseteq {r}
    BY <1>1 DEF Texts, Own, Plain, Thoughts
  <1>4. Texts(m) # {} => Texts(u) # {}
    <2>1. ASSUME NEW p \in m.content PROVE Texts(u) # {}
      <3>1. CASE p[2] = "text"
        BY <1>1, <3>1 DEF Texts, Plain
      <3>2. CASE p[2] # "text"
        <4>1. p[2] = "think"
          BY <3>2 DEF Own
        <4>2. Thoughts(m.content) # {}
          BY <4>1 DEF Thoughts
        <4> QED
          BY <1>1, <4>2 DEF Texts
      <3> QED
        BY <3>1, <3>2
    <2>2. ASSUME m.reasoning # {} PROVE Texts(u) # {}
      BY <1>1, <2>2 DEF Texts
    <2> QED
      BY <2>1, <2>2 DEF Texts
  <1>5. r \in D => r \in Texts(u)
    BY <1>3, <1>4
  <1> QED
    BY <1>1, <1>2, <1>3, <1>5 DEF MessageOK, Unsettled, u

LEMMA ChunkedOK ==
  ASSUME NEW m \in Messages, Own(m), Unsettled(m), NEW type \in ChunkTypes, NEW O, NEW n, NEW D,
         Request(m) <= n
  PROVE  LET u == Chunked(m, Request(m), type)
         IN MessageOK(u, O, n, D) /\ Unsettled(u) /\ Request(u) = Request(m) /\ Texts(u) # {}
  <1> DEFINE r == Request(m)
             u == Chunked(m, r, type)
             whole == m.content \cup {<<r, type>>}
  <1>0. r \in Requests /\ m.status # "error"
    BY MessageFields DEF Unsettled
  <1>1. u.key = m.key /\ u.status = "streaming"
    <2>1. CASE type = "reasoning"
      BY <1>0, <2>1, ReasonedMessage
    <2>2. CASE type # "reasoning"
      BY <1>0, <2>2, ChunkedMessage
    <2> QED
      BY <2>1, <2>2
  <1>2. Request(u) = r /\ Unsettled(u)
    BY <1>1 DEF Request, Unsettled
  <1>3. Own(u) /\ Texts(u) # {}
    <2>1. CASE type = "reasoning"
      <3>1. u.content = m.content /\ u.reasoning = m.reasoning \cup {r}
        BY <1>0, <2>1, ReasonedMessage
      <3> HIDE DEF u
      <3> QED
        BY <1>2, <3>1 DEF Own, Texts
    <2>2. CASE type # "reasoning"
      <3>1. /\ u.content = whole
            /\ u.reasoning = IF Thoughts(whole) # {} THEN Thoughts(whole) ELSE m.reasoning
        BY <1>0, <2>2, ChunkedMessage
      <3>2. type \in {"text", "think"}
        BY <1>0, <2>2, PieceType
      <3>3. \A p \in whole : p[1] = r /\ p[2] \in {"text", "think"}
        BY <3>2 DEF Own
      <3>4. Thoughts(whole) \subseteq {r}
        BY <3>3 DEF Thoughts
      <3>5. <<r, type>> \in whole
        OBVIOUS
      <3> HIDE DEF u, whole
      <3>6. Own(u)
        BY <1>2, <3>1, <3>3, <3>4 DEF Own
      <3> QED
        BY <3>1, <3>5, <3>6 DEF Texts
    <2> QED
      BY <2>1, <2>2
  <1>4. Texts(u) \subseteq {r}
    BY <1>2, <1>3 DEF Own, Texts
  <1> HIDE DEF u
  <1>5. MessageOK(u, O, n, D)
    BY <1>1, <1>2, <1>3, <1>4 DEF MessageOK
  <1> QED
    BY <1>2, <1>3, <1>5 DEF u

LEMMA RepliedOK ==
  ASSUME NEW m \in Messages, Own(m), NEW types \in SUBSET ChunkTypes, NEW O, NEW n, NEW D,
         Request(m) <= n, Request(m) \notin O, types = {} => Request(m) \notin D
  PROVE  LET u == Replied(m, Request(m), types) IN MessageOK(u, O, n, D) /\ ~Unsettled(u)
  <1> DEFINE r == Request(m)
             u == Replied(m, r, types)
  <1>0. r \in Requests
    BY MessageFields
  <1>1. /\ u.key = m.key /\ u.status = "complete" /\ u.content = Plain(Answer(r, types))
        /\ u.reasoning = ReplyReasoning(m, r, types)
    BY <1>0, RepliedMessage
  <1>2. Request(u) = r
    BY <1>1 DEF Request
  <1> HIDE DEF u
  <1>3. \A p \in Answer(r, types) : p[1] = r
    BY DEF Answer
  <1>4. Thoughts(Answer(r, types)) \subseteq {r} /\ \A p \in Plain(Answer(r, types)) : p[1] = r
    BY <1>3 DEF Thoughts, Plain
  <1>5. ReplyReasoning(m, r, types) \subseteq {r}
    BY <1>4 DEF ReplyReasoning, Own
  <1>6. Texts(u) \subseteq {r}
    BY <1>1, <1>4, <1>5 DEF Texts
  <1>7. ASSUME types # {} PROVE Texts(u) # {}
    <2>1. CASE "reasoning" \in types
      BY <1>1, <2>1 DEF Texts, ReplyReasoning
    <2>2. CASE "text" \in types
      <3>1. <<r, "text">> \in Answer(r, types)
        BY <2>2 DEF Answer
      <3>2. <<r, "text">> \in Plain(Answer(r, types))
        BY <3>1 DEF Plain
      <3> QED
        BY <1>1, <3>2 DEF Texts
    <2>3. CASE "think" \in types /\ "reasoning" \notin types
      <3>1. <<r, "think">> \in Answer(r, types)
        BY <2>3 DEF Answer
      <3>2. Thoughts(Answer(r, types)) # {}
        BY <3>1 DEF Thoughts
      <3>3. ReplyReasoning(m, r, types) # {}
        BY <2>3, <3>2 DEF ReplyReasoning
      <3> QED
        BY <1>1, <3>3 DEF Texts
    <2> QED
      BY <1>7, <2>1, <2>2, <2>3, TypesAssumption DEF KnownTypes
  <1> QED
    BY <1>1, <1>2, <1>6, <1>7 DEF MessageOK, Unsettled, u

LEMMA EditedOK ==
  ASSUME NEW m \in PageMessages, NEW O, NEW n, NEW D, MessageOK(m, O, n, D), ~Unsettled(m)
  PROVE  LET u == [m EXCEPT !.content = {<<Typed, "text">>}]
         IN MessageOK(u, O, n, D) /\ ~Unsettled(u)
  <1> DEFINE u == [m EXCEPT !.content = {<<Typed, "text">>}]
  <1>1. /\ u.key = m.key /\ u.status = m.status
        /\ u.content = {<<Typed, "text">>} /\ u.reasoning = m.reasoning
    BY EditedMessage
  <1>2. Request(u) = Request(m) /\ ~Unsettled(u)
    BY <1>1 DEF Request, Unsettled
  <1> HIDE DEF u
  <1>3. Texts(u) = {Typed} \cup m.reasoning
    BY <1>1 DEF Texts
  <1> QED
    BY <1>2, <1>3 DEF MessageOK, Texts, u

LEMMA RepairedOK ==
  ASSUME NEW m \in Messages, Own(m), Unsettled(m), NEW n, NEW D, Request(m) <= n
  PROVE  MessageOK(Repaired(m), {}, n, D) /\ ~Unsettled(Repaired(m))
  <1> DEFINE u == Repaired(m)
             done == Complete(m)
  <1>1. /\ u.key = m.key /\ ~Unsettled(u)
        /\ (done.content # {} \/ done.reasoning # {}) => u = done
        /\ ~(done.content # {} \/ done.reasoning # {}) =>
              u.status = "error" /\ u.content = {<<Interrupted, "text">>} /\ u.reasoning = {}
    BY RepairedMessage
  <1>2. CASE done.content # {} \/ done.reasoning # {}
    <2>0. /\ done.content = Plain(m.content)
          /\ done.reasoning = IF m.reasoning # {} THEN m.reasoning ELSE Thoughts(m.content)
      BY CompletedMessage
    <2>1. m.content # {} \/ m.reasoning # {}
      BY <1>2, <2>0 DEF Plain, Thoughts
    <2>2. Texts(m) # {}
      BY <2>1 DEF Texts
    <2> QED
      BY <1>1, <1>2, <2>2, CompleteOK
  <1>3. CASE ~(done.content # {} \/ done.reasoning # {})
    <2>1. u.status = "error" /\ u.content = {<<Interrupted, "text">>} /\ u.reasoning = {}
      BY <1>1, <1>3
    <2>2. Request(u) = Request(m)
      BY <1>1 DEF Request
    <2> HIDE DEF u
    <2>3. Texts(u) = {Interrupted}
      BY <2>1 DEF Texts
    <2> QED
      BY <1>1, <2>1, <2>2, <2>3 DEF MessageOK, u
  <1> QED
    BY <1>2, <1>3

-----------------------------------------------------------------------------
(* Every handler keeps the answers apart *)

LEMMA PageState ==
  ASSUME PageInv
  PROVE  /\ messages \in Pages /\ saved \in Pages /\ view.msgs \in Pages
         /\ Len(messages) \in Nat /\ DOMAIN messages = 1..Len(messages)
         /\ DOMAIN view.msgs = 1..Len(view.msgs)
         /\ next \in Nat
  BY PageList DEF PageInv, ChatInv

\* The page of a callback: its request is the only one that is live, and the
\* last message is its answer.
LEMMA Hearing ==
  ASSUME PageInv, Apart, NEW r \in open
  PROVE  /\ open = {r} /\ (stream => ~complete) /\ r \in Nat /\ r <= next
         /\ messages # <<>> /\ Last(messages) \in Messages
         /\ From(Last(messages)) = "assistant" /\ Unsettled(Last(messages))
         /\ Request(Last(messages)) = r /\ Own(Last(messages))
         /\ r \in delivered => Texts(Last(messages)) # {}
         /\ ~stream => r \notin delivered
         /\ view.generating \/ ~Quiet(view.msgs)
  <1>1. /\ open = {r} /\ (stream => ~complete) /\ messages # <<>> /\ Unsettled(Last(messages))
        /\ Request(Last(messages)) = r
    BY DEF Apart, Live
  <1>2. r \in Nat /\ r <= next
    BY PageState DEF Apart, Live
  <1>3. /\ Len(messages) \in 1..Len(messages) /\ Last(messages) = messages[Len(messages)]
        /\ Last(messages) \in PageMessages
    BY <1>1, PageState, PageList
  <1>4. Last(messages) \in Messages /\ From(Last(messages)) = "assistant"
    BY <1>1, <1>3, PageMessageFields
  <1>5. MessageOK(Last(messages), open, next, delivered)
    BY <1>3, <1>4 DEF Apart, ListOK
  <1>6. Own(Last(messages))
    BY <1>1, <1>5 DEF MessageOK
  <1>7. r \in delivered => Texts(Last(messages)) # {}
    BY <1>1, <1>3 DEF Apart, Ending
  <1>8. ~stream => r \notin delivered
    BY DEF Apart, Live
  <1>9. view.generating \/ ~Quiet(view.msgs)
    BY DEF Apart, Rendered
  <1> QED
    BY <1>1, <1>2, <1>4, <1>6, <1>7, <1>8, <1>9

\* The page of a handler that does not cross: nothing is under way.
LEMMA Still ==
  ASSUME PageInv, Apart, ~UnderWay
  PROVE  view.msgs = messages /\ open = {} /\ ref = None /\ Quiet(messages)
  <1>1. ~view.generating /\ Quiet(view.msgs)
    BY PageState DEF UnderWay, Quiet
  <1>2. view.msgs = messages /\ open = {}
    BY <1>1 DEF Apart, Rendered
  <1> QED
    BY <1>1, <1>2 DEF PageInv, ChatInv

LEMMA Gated ==
  ASSUME PageInv, Apart, NEW g \in BOOLEAN, Ungated(g), ~crossed', g => ~view.generating
  PROVE  ~UnderWay
  <1>1. UnderWay => g /\ stream
    BY DEF Ungated
  <1>2. (stream /\ ~view.generating) => Quiet(view.msgs)
    BY DEF Apart, Rendered
  <1> QED
    BY <1>1, <1>2, PageState DEF UnderWay, Quiet

LEMMA NothingLive ==
  ASSUME PageInv, NEW D2 \in SUBSET (delivered \cup open)
  PROVE  Later(open, next, delivered, {}, next, D2)
  BY PageState DEF Later

\* After a handler that leaves nothing under way, and has rendered.
LEMMA QuietApart ==
  ASSUME PageInv, messages' \in Pages, Quiet(messages)',
         ListOK(messages, open, next, delivered)', ListOK(saved, open, next, delivered)',
         open' = {}, delivered' \subseteq 1..next', carried' = {}, view'.msgs = messages'
  PROVE  Apart'
  <1>1. Live'
    BY DEF Live
  <1>2. Ending'
    BY DEF Ending, Quiet
  <1>3. Rendered'
    BY DEF Rendered, Quiet
  <1> QED
    BY <1>1, <1>2, <1>3 DEF Apart

\* After a callback that ended the only live request.
LEMMA EndApart ==
  ASSUME PageInv, Apart, NEW r \in open, NEW u, NEW L \in Pages, updateMessages(L),
         Len(L) = Len(messages), \A i \in 1..Len(messages) : i # Len(messages) => L[i] = messages[i],
         L[Len(messages)] = u, ~Unsettled(u), MessageOK(u, {}, next, delivered'),
         open' = open \ {r}, delivered' \subseteq delivered \cup {r},
         UNCHANGED <<stream, view, next, carried>>
  PROVE  Apart'
  <1>1. open' = {} /\ (view.generating \/ ~Quiet(view.msgs))
    BY Hearing
  <1>2. Later(open, next, delivered, {}, next, delivered')
    BY NothingLive
  <1>3. ListOK(L, {}, next, delivered')
    BY <1>2, PageState, LastReplaced DEF Apart
  <1>4. ListOK(saved, {}, next, delivered')
    BY <1>2, PageState, ListLater DEF Apart
  <1>5. messages' = L /\ (saved' = saved \/ saved' = L)
    BY Written
  <1>6. ListOK(messages, open, next, delivered)' /\ ListOK(saved, open, next, delivered)'
    BY <1>1, <1>3, <1>4, <1>5
  <1>7. Quiet(messages)'
    <2>1. \A i \in 1..Len(messages) : i # Len(messages) => ~Unsettled(messages[i])
      BY DEF Apart, ListOK
    <2> QED
      BY <1>5, <2>1 DEF Quiet
  <1>8. Live'
    BY <1>1 DEF Live, Apart
  <1>9. Ending'
    BY <1>7 DEF Ending, Quiet
  <1>10. Rendered'
    BY <1>1 DEF Rendered, Quiet, Apart
  <1> QED
    BY <1>6, <1>8, <1>9, <1>10 DEF Apart

LEMMA ChunkApart ==
  ASSUME PageInv, Apart, NEW r \in open, NEW type \in ChunkTypes, handleStreamUpdate(r, type)
  PROVE  Apart'
  <1> DEFINE m == Last(messages)
             u == Chunked(m, r, type)
             L == updateLastAssistantMessage(messages, u)
             n == Len(messages)
  <1>1. /\ updateMessages(L) /\ delivered' = delivered \cup {r} /\ stream
        /\ UNCHANGED <<stream, view, ref, complete, open, next, cut, carried>>
    BY DEF handleStreamUpdate, Chunked
  <1>2. /\ open = {r} /\ (stream => ~complete) /\ r \in Nat /\ r <= next /\ messages # <<>>
        /\ m \in Messages /\ From(m) = "assistant" /\ Unsettled(m) /\ Request(m) = r /\ Own(m)
        /\ view.generating \/ ~Quiet(view.msgs)
    BY Hearing
  <1>3. r \in Requests
    BY <1>2, MessageFields
  <1>4. u \in Messages /\ u.key = m.key
    BY <1>2, <1>3, ChunkedType
  <1>5. MessageOK(u, open, next, delivered') /\ Unsettled(u) /\ Request(u) = r /\ Texts(u) # {}
    BY <1>2, ChunkedOK
  <1> HIDE DEF u
  <1>6. /\ L \in Pages /\ Len(L) = n /\ L[n] = u
        /\ \A i \in 1..n : i # n => L[i] = messages[i]
    BY <1>2, <1>4, PageState, LastUpdated
  <1> HIDE DEF L
  <1>7. Later(open, next, delivered, open, next, delivered')
    BY <1>1, PageState DEF Later
  <1>8. ListOK(L, open, next, delivered')
    BY <1>5, <1>6, <1>7, PageState, LastReplaced DEF Apart
  <1>9. ListOK(saved, open, next, delivered')
    BY <1>7, PageState, ListLater DEF Apart
  <1>10. messages' = L /\ (saved' = saved \/ saved' = L)
    BY <1>1, <1>6, Written
  <1>11. ListOK(messages, open, next, delivered)' /\ ListOK(saved, open, next, delivered)'
    BY <1>1, <1>8, <1>9, <1>10
  <1>12. n \in 1..n /\ L # <<>> /\ Last(L) = u
    BY <1>2, <1>6, PageState, PageList DEF Last
  <1>13. Live'
    BY <1>1, <1>2, <1>5, <1>10, <1>12 DEF Live, Apart
  <1>14. Ending'
    <2>1. SUFFICES ASSUME NEW i \in 1..Len(L), Unsettled(L[i])
                   PROVE  ref = r /\ Request(L[i]) = r /\ Texts(L[i]) # {}
      BY <1>1, <1>10 DEF Ending
    <2>2. i = n
      BY <2>1, <1>6, <1>8 DEF ListOK
    <2>3. ref = r
      BY <1>1, <1>2 DEF Apart, Live
    <2> QED
      BY <1>5, <1>6, <2>2, <2>3
  <1>15. Rendered'
    BY <1>1, <1>2 DEF Rendered, Quiet, Apart
  <1> QED
    BY <1>1, <1>11, <1>13, <1>14, <1>15 DEF Apart

\* A request that ends without a word leaves its answer to Stop, or for good.
LEMMA SilentApart ==
  ASSUME PageInv, Apart, NEW r \in open, open' = open \ {r}, cut' = cut \cup {r},
         UNCHANGED <<stream, messages, saved, view, ref, next, delivered, carried>>
  PROVE  Apart'
  <1>1. open = {r} /\ open' = {} /\ (view.generating \/ ~Quiet(view.msgs))
    BY Hearing
  <1>2. Later(open, next, delivered, {}, next, delivered)
    BY NothingLive
  <1>3. ListOK(messages, {}, next, delivered) /\ ListOK(saved, {}, next, delivered)
    BY <1>2, PageState, ListLater DEF Apart
  <1>4. ListOK(messages, open, next, delivered)' /\ ListOK(saved, open, next, delivered)'
    BY <1>1, <1>3
  <1>5. Live'
    BY <1>1 DEF Live, Apart
  <1>6. Ending'
    BY <1>1 DEF Ending, Apart
  <1>7. Rendered'
    BY <1>1 DEF Rendered, Quiet, Apart
  <1> QED
    BY <1>4, <1>5, <1>6, <1>7 DEF Apart

LEMMA ErrorApart ==
  ASSUME PageInv, Apart, NEW r \in open, open' = open \ {r},
         updateMessages(updateAssistantMessageWithError(messages, r)),
         UNCHANGED <<stream, view, next, delivered, carried>>
  PROVE  Apart'
  <1> DEFINE m == Last(messages)
             u == Failed(m, r)
             L == updateAssistantMessageWithError(messages, r)
             n == Len(messages)
  <1>1. /\ open = {r} /\ r <= next /\ messages # <<>> /\ m \in Messages
        /\ From(m) = "assistant" /\ Request(m) = r /\ Own(m)
    BY Hearing
  <1>2. r \in Requests
    BY <1>1, MessageFields
  <1>3. MessageOK(u, {}, next, delivered) /\ ~Unsettled(u)
    BY <1>1, FailedOK
  <1> HIDE DEF u
  <1>4. /\ L \in Pages /\ Len(L) = n /\ L[n] = u
        /\ \A i \in 1..n : i # n => L[i] = messages[i]
    BY <1>1, <1>2, PageState, FailedList DEF u
  <1> HIDE DEF L
  <1>5. updateMessages(L)
    BY DEF L
  <1> QED
    BY <1>3, <1>4, <1>5, EndApart

LEMMA CompleteApart ==
  ASSUME PageInv, Apart, NEW r \in open, handleStreamComplete(r)
  PROVE  Apart'
  <1> DEFINE m == Last(messages)
             u == Complete(m)
             L == updateLastAssistantMessage(messages, u)
             n == Len(messages)
  <1>1. /\ open = {r} /\ r <= next /\ messages # <<>> /\ m \in Messages
        /\ From(m) = "assistant" /\ Unsettled(m) /\ Request(m) = r /\ Own(m)
        /\ r \in delivered => Texts(m) # {}
    BY Hearing
  <1>2. u \in Messages /\ u.key = m.key
    BY <1>1, CompletedMessage
  <1>3. MessageOK(u, {}, next, delivered) /\ ~Unsettled(u)
    BY <1>1, CompleteOK
  <1>4. updateMessages(L) /\ open' = open \ {r} /\ UNCHANGED <<stream, view, next, delivered, carried>>
    <2>1. m.status \notin {"complete", "error"}
      BY <1>1 DEF Unsettled
    <2> QED
      BY <2>1 DEF handleStreamComplete, closeSource
  <1> HIDE DEF u
  <1>5. /\ L \in Pages /\ Len(L) = n /\ L[n] = u
        /\ \A i \in 1..n : i # n => L[i] = messages[i]
    BY <1>1, <1>2, PageState, LastUpdated
  <1> HIDE DEF L
  <1> QED
    BY <1>3, <1>4, <1>5, EndApart

LEMMA ResponseApart ==
  ASSUME PageInv, Apart, NEW r \in open, NEW types \in SUBSET ChunkTypes, Response(r, types)
  PROVE  Apart'
  <1> DEFINE m == Last(messages)
             u == Replied(m, r, types)
             L == updateLastAssistantMessage(messages, u)
             n == Len(messages)
  <1>0. ~stream
    BY DEF Response
  <1>1. /\ open = {r} /\ r <= next /\ messages # <<>> /\ m \in Messages
        /\ From(m) = "assistant" /\ Request(m) = r /\ Own(m) /\ r \notin delivered
    BY <1>0, Hearing
  <1>2. r \in Requests
    BY <1>1, MessageFields
  <1>3. /\ updateMessages(L) /\ open' = open \ {r} /\ UNCHANGED <<stream, view, next, carried>>
        /\ delivered' = IF types = {} THEN delivered ELSE delivered \cup {r}
    BY DEF Response, Replied
  <1>4. u \in Messages /\ u.key = m.key
    BY <1>1, <1>2, RepliedType
  <1>5. types = {} => r \notin delivered'
    BY <1>1, <1>3
  <1>6. MessageOK(u, {}, next, delivered') /\ ~Unsettled(u)
    BY <1>1, <1>5, RepliedOK
  <1> HIDE DEF u
  <1>7. /\ L \in Pages /\ Len(L) = n /\ L[n] = u
        /\ \A i \in 1..n : i # n => L[i] = messages[i]
    BY <1>1, <1>4, PageState, LastUpdated
  <1> HIDE DEF L
  <1>8. delivered' \subseteq delivered \cup {r}
    BY <1>3
  <1> QED
    BY <1>3, <1>6, <1>7, <1>8, EndApart

LEMMA NetworkApart ==
  ASSUME PageInv, Apart, NEW r \in Requests, Network(r)
  PROVE  Apart'
  <1>1. r \in open
    BY DEF Network, Answered, handleStreamUpdate, handleStreamComplete, handleError, StreamCut,
           Response, ResponseWithoutChoice, ResponseError
  <1>2. ASSUME NEW type \in ChunkTypes, handleStreamUpdate(r, type) PROVE Apart'
    BY <1>1, <1>2, ChunkApart
  <1>3. CASE handleStreamComplete(r)
    BY <1>1, <1>3, CompleteApart
  <1>4. ASSUME NEW dead \in BOOLEAN, handleError(r, dead) PROVE Apart'
    <2>1. ~complete
      BY <1>1, <1>4, Hearing DEF handleError
    <2> QED
      BY <1>1, <1>4, <2>1, ErrorApart DEF handleError, closeSource
  <1>5. CASE StreamCut(r) \/ ResponseWithoutChoice(r)
    BY <1>1, <1>5, SilentApart DEF StreamCut, ResponseWithoutChoice
  <1>6. ASSUME NEW types \in SUBSET ChunkTypes, Response(r, types) PROVE Apart'
    BY <1>1, <1>6, ResponseApart
  <1>7. CASE ResponseError(r)
    BY <1>1, <1>7, ErrorApart DEF ResponseError
  <1> QED
    BY <1>2, <1>3, <1>4, <1>5, <1>6, <1>7 DEF Network, Answered

\* A list to ask with: a placeholder of the new request after settled messages.
Asking(L) ==
  /\ L # <<>> /\ Last(L) = createLoadingAssistantMessage(Fresh)
  /\ \A j \in 1..Len(L) : j # Len(L) =>
       /\ ~Unsettled(L[j])
       /\ From(L[j]) = "assistant" => MessageOK(L[j], {}, next, delivered)

\* The placeholder is the only unsettled message, and it is not sent.
LEMMA NothingCarried ==
  ASSUME PageInv, Apart, NEW L \in Pages, next < MaxRequests, Asking(L), Carry(L)
  PROVE  carried' = {}
  <1>1. ASSUME NEW j \in 1..Len(L) PROVE ~(isValidMessage(L[j]) /\ Unsettled(L[j]))
    <2>1. CASE j = Len(L)
      BY <2>1, FreshRequest, LoadingOK DEF Asking, Last
    <2>2. CASE j # Len(L)
      BY <2>2 DEF Asking
    <2> QED
      BY <2>1, <2>2
  <1>2. \A m \in Range(L) : ~(isValidMessage(m) /\ Unsettled(m))
    BY <1>1, PageList DEF Range
  <1> QED
    BY <1>2 DEF Carry, Apart

LEMMA SendApart ==
  ASSUME PageInv, Apart, open = {}, ref = None, NEW L \in Pages, Asking(L), sendChat(L)
  PROVE  Apart'
  <1> DEFINE x == createLoadingAssistantMessage(Fresh)
             n == Len(L)
  <1>1. /\ next < MaxRequests /\ next' = Fresh /\ Carry(L) /\ Flush
        /\ UNCHANGED <<stream, full, delivered, cut>>
    BY DEF sendChat
  <1>2. carried' = {}
    BY <1>1, NothingCarried
  <1>3. /\ Fresh \in Requests /\ Fresh # None /\ Fresh > next /\ Fresh \in Nat /\ next \in Nat
        /\ delivered \subseteq 1..next
    BY <1>1, FreshRequest, RequestsType, PageState DEF Apart, Live
  <1>4. delivered \subseteq 1..Fresh /\ Fresh \notin delivered /\ Fresh \in 1..Fresh
    BY <1>3
  <1>5. /\ x \in PageMessages /\ From(x) = "assistant" /\ Request(x) = Fresh /\ Unsettled(x)
        /\ x \in Messages
    BY <1>3, CreatedMessages, PageMessageFields
  <1>6. n \in 1..n /\ L[n] = x /\ n \in Nat
    BY PageList DEF Asking, Last
  <1>7. ASSUME NEW O \in SUBSET {Fresh}
        PROVE  /\ Later({}, next, delivered, O, Fresh, delivered)
               /\ ListOK(saved, O, Fresh, delivered)
               /\ \A j \in 1..n : (j # n /\ From(L[j]) = "assistant") => MessageOK(L[j], O, Fresh, delivered)
    <2>1. Later({}, next, delivered, O, Fresh, delivered)
      BY <1>3 DEF Later
    <2>2. ListOK(saved, O, Fresh, delivered)
      BY <2>1, PageState, ListLater DEF Apart
    <2>3. ASSUME NEW j \in 1..n, j # n, From(L[j]) = "assistant"
          PROVE  MessageOK(L[j], O, Fresh, delivered)
      <3>1. L[j] \in Messages
        BY PageList, PageMessageFields
      <3>2. MessageOK(L[j], {}, next, delivered)
        BY <2>3 DEF Asking
      <3> QED
        BY <2>1, <3>1, <3>2, MessageLater
    <2> QED
      BY <2>1, <2>2, <2>3
  <1>8. ListOK(L, {Fresh}, Fresh, delivered)
    <2>1. MessageOK(x, {Fresh}, Fresh, delivered)
      BY <1>3, LoadingOK
    <2>2. \A j \in 1..n : From(L[j]) = "assistant" => MessageOK(L[j], {Fresh}, Fresh, delivered)
      BY <1>6, <1>7, <2>1
    <2>3. \A j \in 1..n : Unsettled(L[j]) => j = n
      BY DEF Asking
    <2> QED
      BY <2>2, <2>3 DEF ListOK
  <1>9. ListOK(saved, {Fresh}, Fresh, delivered) /\ ListOK(saved, {}, Fresh, delivered)
    BY <1>7
  <1>10. CASE /\ updateMessages(L) /\ open' = {Fresh}
              /\ \/ stream /\ ref' = Fresh /\ complete' = FALSE
                 \/ ~stream /\ ref' = None /\ complete' = complete
    <2>1. messages' = L /\ (saved' = saved \/ saved' = L) /\ messages' \in Pages
      BY <1>10, Written
    <2>2. view'.msgs = L /\ (view'.generating <=> ref' # None)
      BY <1>1, <2>1, Flushed
    <2>3. ListOK(messages, open, next, delivered)' /\ ListOK(saved, open, next, delivered)'
      BY <1>1, <1>8, <1>9, <1>10, <2>1
    <2>4. Live'
      <3>1. L # <<>> /\ Unsettled(Last(L)) /\ Request(Last(L)) = Fresh
        BY <1>5 DEF Asking
      <3> QED
        BY <1>1, <1>4, <1>10, <2>1, <3>1 DEF Live
    <2>5. Ending'
      <3>1. SUFFICES ASSUME NEW i \in 1..n, Unsettled(L[i])
                     PROVE  Request(L[i]) = Fresh
        BY <1>1, <1>4, <1>10, <2>1 DEF Ending
      <3>2. i = n
        BY <1>8, <3>1 DEF ListOK
      <3> QED
        BY <1>5, <1>6, <3>2
    <2>6. Rendered'
      <3>1. ~Quiet(L)
        BY <1>5, <1>6 DEF Quiet
      <3> QED
        BY <1>1, <1>3, <1>10, <2>1, <2>2, <3>1 DEF Rendered, Quiet
    <2> QED
      BY <1>2, <2>3, <2>4, <2>5, <2>6 DEF Apart
  <1>11. CASE updateMessages(updateAssistantMessageWithError(L, Fresh)) /\ open' = {} /\ ref' = None
    <2> DEFINE Q == updateAssistantMessageWithError(L, Fresh)
    <2>1. MessageOK(Failed(x, Fresh), {}, Fresh, delivered) /\ ~Unsettled(Failed(x, Fresh))
      BY <1>3, <1>5, LoadingOK, FailedOK
    <2>2. /\ Q \in Pages /\ Len(Q) = n /\ Q[n] = Failed(x, Fresh)
          /\ \A i \in 1..n : i # n => Q[i] = L[i]
      BY <1>3, <1>5, FailedList DEF Asking
    <2>3. updateMessages(Q)
      BY <1>11
    <2> HIDE DEF Q
    <2>4. messages' = Q /\ (saved' = saved \/ saved' = Q) /\ messages' \in Pages
      BY <2>2, <2>3, Written
    <2>5. Quiet(Q)
      BY <2>1, <2>2 DEF Quiet, Asking
    <2>6. ListOK(Q, {}, Fresh, delivered)
      <3>1. \A j \in 1..n : From(Q[j]) = "assistant" => MessageOK(Q[j], {}, Fresh, delivered)
        BY <1>7, <2>1, <2>2
      <3> QED
        BY <2>2, <2>5, <3>1 DEF ListOK, Quiet
    <2>7. ListOK(messages, open, next, delivered)' /\ ListOK(saved, open, next, delivered)'
      BY <1>1, <1>9, <1>11, <2>4, <2>6
    <2>8. Quiet(messages)' /\ view'.msgs = messages'
      BY <1>1, <2>4, <2>5, Flushed DEF Quiet
    <2> QED
      BY <1>1, <1>2, <1>4, <1>11, <2>4, <2>7, <2>8, QuietApart
  <1>12. CASE stream
    BY <1>10, <1>11, <1>12 DEF sendChat, sendStreamRequest, StreamStartError
  <1>13. CASE ~stream
    BY <1>10, <1>13 DEF sendChat, sendNonStreamingChat
  <1> QED
    BY <1>12, <1>13

\* The messages before the placeholder.
LEMMA StillMessages ==
  ASSUME PageInv, Apart, ~UnderWay, NEW j \in 1..Len(view.msgs)
  PROVE  /\ view.msgs[j] \in PageMessages /\ ~Unsettled(view.msgs[j])
         /\ From(view.msgs[j]) = "assistant" => MessageOK(view.msgs[j], {}, next, delivered)
  <1>1. view.msgs = messages /\ open = {} /\ Quiet(messages)
    BY Still
  <1> QED
    BY <1>1, PageState, PageList DEF Quiet, Apart, ListOK

LEMMA SentAsks ==
  ASSUME PageInv, Apart, ~UnderWay, next < MaxRequests
  PROVE  SentList \in Pages /\ Asking(SentList)
  <1> DEFINE V == view.msgs
             x == createUserMessage(Fresh)
             y == createLoadingAssistantMessage(Fresh)
             Q == SentList
  <1>0. V \in Pages /\ Len(V) \in Nat
    BY PageState, PageList
  <1>1. x \in PageMessages /\ y \in PageMessages /\ From(x) = "user" /\ ~Unsettled(x)
    BY FreshRequest, CreatedMessages
  <1>2. /\ Q \in Pages /\ Len(Q) = Len(V) + 2 /\ Q[Len(V) + 1] = x /\ Q[Len(V) + 2] = y
        /\ \A i \in 1..Len(V) : Q[i] = V[i]
    BY <1>0, <1>1, TwoAppended DEF SentList
  <1> HIDE DEF Q, x, y
  <1>3. Q # <<>> /\ Last(Q) = y
    BY <1>0, <1>2, PageList DEF Last
  <1>4. ASSUME NEW j \in 1..Len(Q), j # Len(Q)
        PROVE  ~Unsettled(Q[j]) /\ (From(Q[j]) = "assistant" => MessageOK(Q[j], {}, next, delivered))
    <2>1. CASE j \in 1..Len(V)
      BY <1>2, <2>1, StillMessages
    <2>2. CASE j = Len(V) + 1
      BY <1>1, <1>2, <2>2
    <2> QED
      BY <1>0, <1>2, <1>4, <2>1, <2>2
  <1> QED
    BY <1>2, <1>3, <1>4 DEF Asking, Q, y

LEMMA PrefixAsks ==
  ASSUME PageInv, next < MaxRequests, NEW V \in Pages, NEW k \in Nat, k <= Len(V),
         \A j \in 1..k : /\ ~Unsettled(V[j])
                         /\ From(V[j]) = "assistant" => MessageOK(V[j], {}, next, delivered)
  PROVE  LET Q == Append(SubSeq(V, 1, k), createLoadingAssistantMessage(Fresh))
         IN Q \in Pages /\ Asking(Q)
  <1> DEFINE y == createLoadingAssistantMessage(Fresh)
             Q == Append(SubSeq(V, 1, k), y)
  <1>1. y \in PageMessages
    BY FreshRequest, CreatedMessages
  <1>2. Q \in Pages /\ Len(Q) = k + 1 /\ Q[k + 1] = y /\ \A i \in 1..k : Q[i] = V[i]
    BY <1>1, AppendedToPrefix
  <1> HIDE DEF Q, y
  <1>3. Q # <<>> /\ Last(Q) = y
    BY <1>2, PageList DEF Last
  <1>4. \A j \in 1..Len(Q) : j # Len(Q) => j \in 1..k
    BY <1>2
  <1> QED
    BY <1>2, <1>3, <1>4 DEF Asking, Q, y

LEMMA EditedMessages ==
  ASSUME PageInv, Apart, ~UnderWay, NEW i \in DOMAIN view.msgs, NEW j \in 1..Len(view.msgs)
  PROVE  /\ ~Unsettled(EditedList(i)[j])
         /\ From(EditedList(i)[j]) = "assistant" => MessageOK(EditedList(i)[j], {}, next, delivered)
  <1> DEFINE V == view.msgs
             Q == EditedList(i)
             u == [V[i] EXCEPT !.content = {<<Typed, "text">>}]
  <1>1. i \in 1..Len(V) /\ V \in Pages
    BY PageState
  <1>2. Q[i] = u /\ \A l \in 1..Len(V) : l # i => Q[l] = V[l]
    BY <1>1, OneEdited DEF EditedList
  <1>3. CASE j # i
    BY <1>2, <1>3, StillMessages
  <1>4. CASE j = i
    <2>1. V[i] \in PageMessages /\ ~Unsettled(V[i])
      BY <1>1, StillMessages
    <2>2. u.key = V[i].key /\ u.status = V[i].status
      BY <2>1, EditedMessage
    <2>3. ~Unsettled(u) /\ From(u) = From(V[i])
      BY <2>1, <2>2 DEF Unsettled, From
    <2>4. From(V[i]) = "assistant" => MessageOK(u, {}, next, delivered)
      BY <1>1, <2>1, StillMessages, EditedOK
    <2> QED
      BY <1>2, <1>4, <2>3, <2>4
  <1> QED
    BY <1>3, <1>4

LEMMA AskApart ==
  ASSUME PageInv, Apart, ~UnderWay, NEW L \in Pages, Asking(L), sendChat(L)
  PROVE  Apart'
  <1>1. open = {} /\ ref = None
    BY Still
  <1> QED
    BY <1>1, SendApart

\* A handler that writes a settled list and renders it.
LEMMA WriteApart ==
  ASSUME PageInv, Apart, NEW L \in Pages, updateMessages(L), Flush,
         Quiet(L), ListOK(L, {}, next, delivered), open' = {},
         UNCHANGED <<next, delivered, carried>>
  PROVE  Apart'
  <1>1. messages' = L /\ messages' \in Pages /\ (saved' = saved \/ saved' = L)
    BY Written
  <1>2. ListOK(saved, {}, next, delivered)
    BY NothingLive, PageState, ListLater DEF Apart
  <1>3. ListOK(messages, open, next, delivered)' /\ ListOK(saved, open, next, delivered)'
    BY <1>1, <1>2
  <1>4. Quiet(messages)' /\ view'.msgs = messages'
    BY <1>1, Flushed DEF Quiet
  <1>5. delivered' \subseteq 1..next' /\ carried' = {}
    BY DEF Apart, Live
  <1> QED
    BY <1>1, <1>3, <1>4, <1>5, QuietApart

LEMMA DeleteApart ==
  ASSUME PageInv, Apart, ~UnderWay, NEW i \in DOMAIN view.msgs, handleDeleteMessage(i)
  PROVE  Apart'
  <1> DEFINE Q == RemoveAt(view.msgs, i)
  <1>1. Q \in Pages /\ \A j \in 1..Len(Q) : \E k \in 1..Len(view.msgs) : Q[j] = view.msgs[k]
    BY PageState, OneRemoved
  <1>2. /\ updateMessages(Q) /\ Flush /\ UNCHANGED <<open, next, delivered, carried>>
    BY DEF handleDeleteMessage
  <1> HIDE DEF Q
  <1>3. Quiet(Q)
    BY <1>1, StillMessages DEF Quiet
  <1>4. \A j \in 1..Len(Q) : From(Q[j]) = "assistant" => MessageOK(Q[j], {}, next, delivered)
    BY <1>1, StillMessages
  <1>5. ListOK(Q, {}, next, delivered) /\ open = {}
    BY <1>3, <1>4, Still DEF ListOK, Quiet
  <1> QED
    BY <1>1, <1>2, <1>3, <1>5, WriteApart

LEMMA EditApart ==
  ASSUME PageInv, Apart, ~UnderWay, NEW i \in DOMAIN view.msgs, NEW submit \in BOOLEAN,
         applyEdit(i, submit)
  PROVE  Apart'
  <1> DEFINE Q == EditedList(i)
  <1>1. Q \in Pages /\ i \in 1..Len(view.msgs) /\ Len(Q) = Len(view.msgs)
    BY EditedType
  <1>2. \A j \in 1..Len(Q) : /\ ~Unsettled(Q[j])
                             /\ From(Q[j]) = "assistant" => MessageOK(Q[j], {}, next, delivered)
    BY <1>1, EditedMessages
  <1>3. CASE submit
    <2>1. sendChat(ResentList(i)) /\ next < MaxRequests
      BY <1>3 DEF applyEdit, ResentList, EditedList, sendChat
    <2>2. i \in Nat /\ i <= Len(Q)
      BY <1>1, PageState, PageList
    <2>3. \A j \in 1..i : j \in 1..Len(Q)
      BY <2>2
    <2> HIDE DEF Q
    <2>4. LET R == Append(SubSeq(Q, 1, i), createLoadingAssistantMessage(Fresh))
          IN R \in Pages /\ Asking(R)
      BY <1>1, <1>2, <2>1, <2>2, <2>3, PrefixAsks
    <2>5. ResentList(i) \in Pages /\ Asking(ResentList(i))
      BY <2>4 DEF Q, ResentList
    <2> QED
      BY <2>1, <2>5, AskApart
  <1>4. CASE ~submit
    <2>1. updateMessages(Q) /\ Flush /\ UNCHANGED <<open, next, delivered, carried>>
      BY <1>4 DEF applyEdit, EditedList
    <2> HIDE DEF Q
    <2>2. Quiet(Q) /\ ListOK(Q, {}, next, delivered) /\ open = {}
      BY <1>2, Still DEF Quiet, ListOK
    <2> QED
      BY <1>1, <2>1, <2>2, WriteApart
  <1> QED
    BY <1>3, <1>4

\* Stop settles the answer whose source it closes.
LEMMA StopApart ==
  ASSUME PageInv, Apart, stopGeneration
  PROVE  Apart'
  <1> DEFINE m == Last(messages)
             u == Settle(m)
             L == updateLastAssistantMessage(messages, u)
             n == Len(messages)
  <1>1. /\ view.generating /\ open' = open \ {ref} /\ updateMessages(L) /\ Flush
        /\ UNCHANGED <<next, delivered, carried>>
    BY DEF stopGeneration, Settle
  <1>2. open' = {}
    BY <1>1 DEF PageInv, ChatInv, Apart, Live
  <1>3. Later(open, next, delivered, {}, next, delivered)
    BY NothingLive
  <1>4. CASE messages # <<>> /\ From(m) = "assistant"
    <2>1. n \in 1..n /\ m = messages[n] /\ m \in Messages
      BY <1>4, PageState, PageList, PageMessageFields
    <2>2. MessageOK(m, open, next, delivered)
      BY <1>4, <2>1 DEF Apart, ListOK
    <2>3. u \in Messages /\ u.key = m.key
      BY <2>1, CompletedMessage DEF Settle
    <2>4. MessageOK(u, {}, next, delivered) /\ ~Unsettled(u)
      <3>1. CASE Unsettled(m)
        <4>1. Own(m) /\ Request(m) <= next
          BY <2>2, <3>1 DEF MessageOK
        <4>2. Request(m) \in delivered => Texts(m) # {}
          BY <2>1, <3>1 DEF Apart, Ending
        <4>3. u = Complete(m)
          BY <3>1 DEF Settle
        <4> HIDE DEF u
        <4> QED
          BY <2>1, <4>1, <4>2, <4>3, CompleteOK
      <3>2. CASE ~Unsettled(m)
        <4>1. MessageOK(m, {}, next, delivered)
          BY <1>3, <2>1, <2>2, MessageLater
        <4> QED
          BY <3>2, <4>1 DEF Settle
      <3> QED
        BY <3>1, <3>2
    <2> HIDE DEF u
    <2>5. /\ L \in Pages /\ Len(L) = n /\ L[n] = u
          /\ \A i \in 1..n : i # n => L[i] = messages[i]
      BY <1>4, <2>3, PageState, LastUpdated
    <2> HIDE DEF L
    <2>6. ListOK(L, {}, next, delivered)
      BY <1>3, <2>4, <2>5, PageState, LastReplaced DEF Apart
    <2>7. Quiet(L)
      BY <2>4, <2>5, <2>6 DEF Quiet, ListOK
    <2> QED
      BY <1>1, <1>2, <2>5, <2>6, <2>7, WriteApart
  <1>5. CASE messages = <<>> \/ From(m) # "assistant"
    <2>1. L = messages
      BY <1>5 DEF updateLastAssistantMessage
    <2>2. Quiet(messages)
      <3>1. SUFFICES ASSUME NEW i \in 1..n, Unsettled(messages[i]) PROVE FALSE
        BY DEF Quiet
      <3>2. i = n
        BY <3>1 DEF Apart, ListOK
      <3>3. messages # <<>> /\ messages[i] \in PageMessages
        BY <3>1, PageState, PageList
      <3>4. From(messages[i]) = "assistant"
        BY <3>1, <3>3, PageMessageFields
      <3> QED
        BY <1>5, <3>2, <3>3, <3>4 DEF Last
    <2>3. ListOK(messages, {}, next, delivered)
      BY <1>3, PageState, ListLater DEF Apart
    <2> HIDE DEF L
    <2> QED
      BY <1>1, <1>2, <2>1, <2>2, <2>3, PageState, WriteApart
  <1> QED
    BY <1>4, <1>5

LEMMA UntouchedApart ==
  ASSUME Apart, UNCHANGED <<stream, messages, saved, view, ref, complete, open, next,
                            delivered, cut, carried>>
  PROVE  Apart'
  BY DEF Apart, Live, Ending, Rendered, ListOK, Quiet

LEMMA UserApart ==
  ASSUME PageInv, Apart, User, ~crossed'
  PROVE  Apart'
  <1>1. ASSUME handleSendMessage, ~UnderWay PROVE Apart'
    <2>1. sendChat(SentList) /\ next < MaxRequests
      BY <1>1 DEF handleSendMessage, SentList, sendChat
    <2> QED
      BY <1>1, <2>1, SentAsks, AskApart
  <1>2. CASE handleSubmit \/ handleSuggestionClick
    <2>1. ~UnderWay
      BY <1>2, Gated DEF handleSubmit, handleSuggestionClick
    <2> QED
      BY <1>1, <1>2, <2>1 DEF handleSubmit, handleSuggestionClick
  <1>4. CASE handleEditCancel
    BY <1>4, UntouchedApart DEF handleEditCancel
  <1>5. CASE stopGeneration
    BY <1>5, StopApart
  <1>6. ASSUME NEW i \in DOMAIN view.msgs, handleRegenerateMessage(i) PROVE Apart'
    <2>1. sendChat(RetriedList(i)) /\ next < MaxRequests /\ ~view.generating /\ Ungated(TRUE)
      BY <1>6 DEF handleRegenerateMessage, RetriedList, sendChat
    <2>2. ~UnderWay
      BY <2>1, Gated
    <2>3. i - 1 \in Nat /\ i - 1 <= Len(view.msgs) /\ \A j \in 1..(i - 1) : j \in 1..Len(view.msgs)
      BY PageState, PageList
    <2>4. RetriedList(i) \in Pages /\ Asking(RetriedList(i))
      BY <2>1, <2>2, <2>3, PageState, StillMessages, PrefixAsks DEF RetriedList
    <2> QED
      BY <2>1, <2>2, <2>4, AskApart
  <1>7. ASSUME NEW i \in DOMAIN view.msgs, handleDeleteMessage(i) PROVE Apart'
    <2>1. ~UnderWay
      BY <1>7, Gated DEF handleDeleteMessage
    <2> QED
      BY <1>7, <2>1, DeleteApart
  <1>8. ASSUME NEW i \in DOMAIN view.msgs, handleEditMessage(i) PROVE Apart'
    BY <1>8, UntouchedApart DEF handleEditMessage
  <1>9. ASSUME NEW i \in DOMAIN view.msgs, NEW submit \in BOOLEAN, applyEdit(i, submit)
        PROVE  Apart'
    <2>1. ~UnderWay
      BY <1>9, Gated DEF applyEdit
    <2> QED
      BY <1>9, <2>1, EditApart
  <1>10. CASE \E i \in DOMAIN view.msgs :
                \/ handleRegenerateMessage(i) \/ handleDeleteMessage(i) \/ handleEditMessage(i)
                \/ \E submit \in BOOLEAN : applyEdit(i, submit)
    BY <1>6, <1>7, <1>8, <1>9, <1>10
  <1> QED
    BY <1>2, <1>4, <1>5, <1>10 DEF User

\* A load repairs the one answer that the saved list, however old, may hold.
LEMMA ReloadApart ==
  ASSUME PageInv, Apart, Reload
  PROVE  Apart'
  <1> DEFINE Q == sanitizeMessagesOnLoad(saved)
             n == Len(saved)
  <1>1. /\ messages' = Q /\ (saved' = saved \/ saved' = Q) /\ open' = {} /\ Flush
        /\ UNCHANGED <<next, delivered, carried>>
    BY DEF Reload
  <1>2. /\ Q \in Pages /\ Len(Q) = n
        /\ Stuck(saved) = {} => Q = saved
        /\ Stuck(saved) # {} => \E k \in Stuck(saved) :
             /\ \A j \in Stuck(saved) : j <= k
             /\ Q[k] = Repaired(saved[k])
             /\ \A i \in 1..n : i # k => Q[i] = saved[i]
    BY PageState, Sanitized
  <1> HIDE DEF Q
  <1>3. Later(open, next, delivered, {}, next, delivered)
    BY NothingLive
  <1>4. /\ DOMAIN saved = 1..n
        /\ \A i \in 1..n : /\ saved[i] \in Messages
                           /\ Unsettled(saved[i]) => i = n /\ i \in Stuck(saved)
    <2>1. DOMAIN saved = 1..n /\ \A i \in 1..n : saved[i] \in PageMessages
      BY PageState, PageList
    <2>2. \A i \in 1..n : saved[i] \in Messages /\ (Unsettled(saved[i]) => From(saved[i]) = "assistant")
      BY <2>1, PageMessageFields
    <2> QED
      BY <2>1, <2>2 DEF Apart, ListOK, Stuck
  <1>5. ListOK(saved, {}, next, delivered)
    BY <1>3, PageState, ListLater DEF Apart
  <1>6. ListOK(Q, {}, next, delivered) /\ Quiet(Q)
    <2>1. CASE Stuck(saved) = {}
      BY <1>2, <1>4, <1>5, <2>1 DEF Quiet
    <2>2. CASE Stuck(saved) # {}
      <3>1. PICK k \in Stuck(saved) : /\ Q[k] = Repaired(saved[k])
                                      /\ \A i \in 1..n : i # k => Q[i] = saved[i]
        BY <1>2, <2>2
      <3>2. k \in 1..n /\ From(saved[k]) = "assistant" /\ Unsettled(saved[k]) /\ k = n
        BY <1>4, <3>1 DEF Stuck
      <3>3. Own(saved[k]) /\ Request(saved[k]) <= next /\ saved[k] \in Messages
        BY <1>4, <3>2 DEF Apart, ListOK, MessageOK
      <3>4. MessageOK(Q[n], {}, next, delivered) /\ ~Unsettled(Q[n])
        BY <3>1, <3>2, <3>3, RepairedOK
      <3>5. ListOK(Q, {}, next, delivered)
        BY <1>2, <1>3, <3>1, <3>2, <3>4, PageState, LastReplaced DEF Apart
      <3> QED
        BY <1>2, <3>4, <3>5 DEF Quiet, ListOK
    <2> QED
      BY <2>1, <2>2
  <1>7. ListOK(messages, open, next, delivered)' /\ ListOK(saved, open, next, delivered)'
    BY <1>1, <1>5, <1>6
  <1>8. messages' \in Pages /\ Quiet(messages)'
    BY <1>1, <1>2, <1>6 DEF Quiet
  <1>9. view'.msgs = messages'
    BY <1>1, <1>8, Flushed
  <1>10. delivered' \subseteq 1..next' /\ carried' = {}
    BY <1>1 DEF Apart, Live
  <1> QED
    BY <1>1, <1>7, <1>8, <1>9, <1>10, QuietApart

\* Rendering what the callbacks left.
LEMMA RenderApart ==
  ASSUME PageInv, Apart, Render
  PROVE  Apart'
  <1>1. /\ view'.msgs = messages /\ (view'.generating <=> ref # None)
        /\ UNCHANGED <<stream, messages, saved, ref, complete, open, next, delivered, cut, carried>>
    BY DEF Render
  <1>2. (stream /\ ref = None) => Quiet(messages)
    <2>1. SUFFICES ASSUME stream, ref = None, NEW i \in 1..Len(messages), Unsettled(messages[i])
                   PROVE  FALSE
      BY DEF Quiet
    <2>2. Request(messages[i]) = None
      BY <2>1 DEF Apart, Ending
    <2>3. Request(messages[i]) \in Requests
      BY PageState, PageList, PageMessageFields, MessageFields
    <2> QED
      BY <2>2, <2>3, RequestsType
  <1>3. Quiet(messages) => open = {}
    <2>1. SUFFICES ASSUME Quiet(messages), NEW r \in open PROVE FALSE
      OBVIOUS
    <2>2. messages # <<>> /\ Unsettled(Last(messages))
      BY Hearing
    <2> QED
      BY <2>1, <2>2, PageState, PageList DEF Quiet
  <1>4. Rendered'
    BY <1>1, <1>2, <1>3 DEF Rendered, Quiet
  <1>5. Live' /\ Ending'
    BY <1>1 DEF Apart, Live, Ending
  <1>6. ListOK(messages, open, next, delivered)' /\ ListOK(saved, open, next, delivered)' /\ carried' = {}
    BY <1>1 DEF Apart, ListOK
  <1> QED
    BY <1>4, <1>5, <1>6 DEF Apart

\* The inductive invariant.  A handler that crosses sets `crossed' for good;
\* every other one starts from a page with nothing under way (Still), and
\* every callback from one whose last message is its own (Hearing).
KeptInv == PageInv /\ (~crossed => Apart)

LEMMA InitKept == Init => KeptInv
  <1> SUFFICES ASSUME Init PROVE Apart
    BY InitPage DEF KeptInv
  <1>1. messages = <<>> /\ saved = <<>> /\ Len(<<>>) = 0
    BY EmptySeq DEF Init
  <1>2. ListOK(messages, open, next, delivered) /\ ListOK(saved, open, next, delivered)
    BY <1>1 DEF ListOK
  <1>3. Live /\ Ending
    BY <1>1 DEF Init, Live, Ending
  <1>4. Rendered
    BY <1>1 DEF Init, Rendered, Quiet
  <1> QED
    BY <1>2, <1>3, <1>4 DEF Init, Apart

LEMMA NextKept == KeptInv /\ [Next]_vars => KeptInv'
  <1> SUFFICES ASSUME KeptInv, [Next]_vars, ~crossed' PROVE Apart'
    BY NextPage DEF KeptInv
  <1>1. PageInv
    BY DEF KeptInv
  <1>2. ~crossed
    <2>1. ASSUME User PROVE ~crossed
      BY <2>1 DEF User, handleSubmit, handleSuggestionClick, handleEditCancel, stopGeneration,
                  handleRegenerateMessage, handleDeleteMessage, handleEditMessage, applyEdit, Ungated
    <2>2. ASSUME NEW r \in Requests, Network(r) PROVE ~crossed
      BY <2>2 DEF Network, Answered, handleStreamUpdate, handleStreamComplete, handleError,
                  StreamCut, Response, ResponseWithoutChoice, ResponseError
    <2>3. CASE Render \/ Reload \/ StorageFull \/ UNCHANGED vars
      BY <2>3 DEF Render, Reload, StorageFull, vars
    <2> QED
      BY <2>1, <2>2, <2>3 DEF Next
  <1>3. Apart
    BY <1>2 DEF KeptInv
  <1>4. CASE User
    BY <1>1, <1>3, <1>4, UserApart
  <1>5. ASSUME NEW r \in Requests, Network(r) PROVE Apart'
    BY <1>1, <1>3, <1>5, NetworkApart
  <1>6. CASE Render
    BY <1>1, <1>3, <1>6, RenderApart
  <1>7. CASE Reload
    BY <1>1, <1>3, <1>7, ReloadApart
  <1>8. CASE StorageFull \/ UNCHANGED vars
    BY <1>3, <1>8, UntouchedApart DEF StorageFull, vars
  <1> QED
    BY <1>4, <1>5, <1>6, <1>7, <1>8 DEF Next

LEMMA KeptInvariant == Spec => []KeptInv
  BY InitKept, NextKept, PTL DEF Spec

\* Answers are kept apart: a callback writes into whatever message is last,
\* and that is the one its own request was started for.
THEOREM PlaygroundAnswersKeptApart == Spec => []AnswersKeptApart
  <1>1. KeptInv => AnswersKeptApart
    <2>1. SUFFICES ASSUME KeptInv, ~crossed PROVE /\ carried = {}
                     /\ \A m \in Assistants(messages) :
                          /\ Texts(m) \subseteq {Request(m), Typed, Interrupted}
                          /\ (m.status = "complete" /\ Request(m) \in delivered /\ Typed \notin Texts(m))
                               => Request(m) \in Texts(m)
      BY DEF AnswersKeptApart, Texts
    <2>2. Apart /\ PageInv
      BY <2>1 DEF KeptInv
    <2>3. \A m \in Assistants(messages) : MessageOK(m, open, next, delivered)
      BY <2>2, PageState DEF Assistants, Range, Apart, ListOK
    <2> QED
      BY <2>2, <2>3 DEF Apart, MessageOK
  <1> QED
    BY <1>1, KeptInvariant, PTL

\* An unsettled answer is last, and Stop or its live request can end it.
THEOREM PlaygroundUnsettledCanEnd == Spec => []UnsettledCanEnd
  <1>1. KeptInv => UnsettledCanEnd
    <2>1. SUFFICES ASSUME KeptInv, ~crossed
                   PROVE  /\ stream => open \subseteq {ref}
                          /\ \A i \in DOMAIN messages : Unsettled(messages[i]) =>
                               /\ i = Len(messages)
                               /\ IF stream THEN ref = Request(messages[i])
                                  ELSE Request(messages[i]) \in open \cup cut
      BY DEF UnsettledCanEnd
    <2>2. Apart /\ PageInv
      BY <2>1 DEF KeptInv
    <2> QED
      BY <2>2, PageState DEF Apart, Live, Ending, ListOK
  <1> QED
    BY <1>1, KeptInvariant, PTL

-----------------------------------------------------------------------------
(* The desktop shell *)

Bools ==
  /\ dev \in BOOLEAN /\ mac \in BOOLEAN /\ occupied \in BOOLEAN
  /\ serverProcess \in BOOLEAN /\ quitOnClose \in BOOLEAN /\ killTimer \in BOOLEAN
  /\ isQuitting \in BOOLEAN /\ early \in BOOLEAN

Counters == attempts \in Nat /\ waiting \in Nat /\ inFlight \in Nat

Phases == {"launched", "starting", "ready", "failed", "failedLate", "exited"}

Places ==
  /\ phase \in Phases
  /\ server \in {"none", "spawned", "listening", "dead"}
  /\ code \in Codes \cup {Nothing}
  /\ crashDialog \in {Nothing, "open", "confirm"}
  /\ failDialog \in {Nothing, "open", "confirm"}

Frames ==
  /\ windows \subseteq WindowIds /\ visible \subseteq windows
  /\ mainWindow \in windows \cup {Nothing}

\* A child that nobody holds does not run, and one whose end is still to be
\* reported is dead.
ChildInv ==
  /\ ~serverProcess => server \in {"none", "dead"}
  /\ code # Nothing => server = "dead"
  /\ phase = "launched" => server = "none"

\* Each finished probe has added at most one pending call of tryConnect, and
\* once maxRetries is reached none is added any more.
ProbeInv ==
  /\ waiting + 2 * inFlight <= attempts + 1
  /\ attempts + waiting < 2 * MaxRetries
  /\ phase = "starting" => waiting + inFlight > 0
  /\ phase = "launched" => attempts = 0 /\ waiting = 0 /\ inFlight = 0

WindowInv ==
  /\ (~early /\ phase \in {"launched", "starting"}) => windows = {}
  /\ ~early => windows \subseteq {mainWindow}
  /\ phase = "exited" => windows = {}

ShellInv == Bools /\ Counters /\ Places /\ Frames /\ ChildInv /\ NoOrphan /\ ProbeInv /\ WindowInv

LEMMA ShellInitInv == ShellInit => ShellInv
  <1>1. SUFFICES ASSUME ShellInit PROVE ShellInv
    OBVIOUS
  <1>2. Bools /\ Counters /\ Places /\ Frames
    BY <1>1 DEF ShellInit, Bools, Counters, Places, Phases, Frames
  <1>3. ChildInv /\ NoOrphan /\ WindowInv
    BY <1>1 DEF ShellInit, ChildInv, NoOrphan, WindowInv
  <1>4. ProbeInv
    BY <1>1, RetriesAssumption DEF ShellInit, ProbeInv
  <1> QED
    BY <1>2, <1>3, <1>4 DEF ShellInv

USE DEF env, child, quit, probe, dialogs, gui

\* The flags stay Boolean.
LEMMA BoolsStep == ShellInv /\ [ShellNext]_shellVars => Bools'
  <1> SUFFICES ASSUME ShellInv, [ShellNext]_shellVars PROVE Bools'
    OBVIOUS
  <1>0. Bools
    BY DEF ShellInv
  <1>1. CASE startServer
    BY <1>0, <1>1 DEF startServer, Bools
  <1>2. CASE tryConnect
    BY <1>0, <1>2 DEF tryConnect, Running, Bools
  <1>3. CASE ProbeAnswered
    BY <1>0, <1>3 DEF ProbeAnswered, Resolve, createWindow, Running, Bools
  <1>4. CASE ProbeError
    BY <1>0, <1>4 DEF ProbeError, Rescheduled, Reject, Running, Bools
  <1>5. CASE ProbeTimeout
    BY <1>0, <1>5 DEF ProbeTimeout, Rescheduled, Reject, Running, Bools
  <1>6. CASE SpawnError
    BY <1>0, <1>6 DEF SpawnError, Reject, Running, Bools
  <1>7. CASE ServerListens
    BY <1>0, <1>7 DEF ServerListens, Bools
  <1>8. CASE \E c \in Codes : ServerDies(c)
    BY <1>0, <1>8 DEF ServerDies, Codes, Running, Bools
  <1>9. CASE ServerClose
    BY <1>0, <1>9 DEF ServerClose, Exit, CloseOf, Running, Bools
  <1>10. CASE CrashViewLog
    BY <1>0, <1>10 DEF CrashViewLog, ViewLog, Running, Bools
  <1>11. CASE CrashExit
    BY <1>0, <1>11 DEF CrashExit, Quit, Exit, Running, Bools
  <1>12. CASE FailViewLog
    BY <1>0, <1>12 DEF FailViewLog, ViewLog, Running, Bools
  <1>13. CASE FailExit
    BY <1>0, <1>13 DEF FailExit, Quit, Exit, Running, Bools
  <1>14. CASE \E w \in WindowIds : CloseWindow(w)
    BY <1>0, <1>14 DEF CloseWindow, CloseOf, Bools
  <1>15. CASE \E toggle \in BOOLEAN : TrayShow(toggle)
    BY <1>0, <1>15 DEF TrayShow, HasTray, createWindow, Bools
  <1>16. CASE TrayQuit
    BY <1>0, <1>16 DEF TrayQuit, HasTray, Quit, Exit, Bools
  <1>17. CASE SystemQuit
    BY <1>0, <1>17 DEF SystemQuit, Quit, Exit, Running, Bools
  <1>18. CASE Activate
    BY <1>0, <1>18 DEF Activate, createWindow, Running, Bools
  <1>19. CASE KillTimer
    BY <1>0, <1>19 DEF KillTimer, Exit, Running, Bools
  <1>20. CASE Done
    BY <1>0, <1>20 DEF Done, shellVars, Bools
  <1>21. CASE UNCHANGED shellVars
    BY <1>0, <1>21 DEF shellVars, Bools
  <1> QED
    BY <1>1, <1>2, <1>3, <1>4, <1>5, <1>6, <1>7, <1>8, <1>9, <1>10, <1>11, <1>12, <1>13,
       <1>14, <1>15, <1>16, <1>17, <1>18, <1>19, <1>20, <1>21 DEF ShellNext

\* The counters stay natural numbers.
LEMMA CountersStep == ShellInv /\ [ShellNext]_shellVars => Counters'
  <1> SUFFICES ASSUME ShellInv, [ShellNext]_shellVars PROVE Counters'
    OBVIOUS
  <1>0. Counters
    BY DEF ShellInv
  <1>1. CASE startServer
    BY <1>0, <1>1 DEF startServer, Counters
  <1>2. CASE tryConnect
    BY <1>0, <1>2 DEF tryConnect, Running, Counters
  <1>3. CASE ProbeAnswered
    BY <1>0, <1>3 DEF ProbeAnswered, Resolve, createWindow, Running, Counters
  <1>4. CASE ProbeError
    BY <1>0, <1>4 DEF ProbeError, Rescheduled, Reject, Running, Counters
  <1>5. CASE ProbeTimeout
    BY <1>0, <1>5 DEF ProbeTimeout, Rescheduled, Reject, Running, Counters
  <1>6. CASE SpawnError
    BY <1>0, <1>6 DEF SpawnError, Reject, Running, Counters
  <1>7. CASE ServerListens
    BY <1>0, <1>7 DEF ServerListens, Counters
  <1>8. CASE \E c \in Codes : ServerDies(c)
    BY <1>0, <1>8 DEF ServerDies, Codes, Running, Counters
  <1>9. CASE ServerClose
    BY <1>0, <1>9 DEF ServerClose, Exit, CloseOf, Running, Counters
  <1>10. CASE CrashViewLog
    BY <1>0, <1>10 DEF CrashViewLog, ViewLog, Running, Counters
  <1>11. CASE CrashExit
    BY <1>0, <1>11 DEF CrashExit, Quit, Exit, Running, Counters
  <1>12. CASE FailViewLog
    BY <1>0, <1>12 DEF FailViewLog, ViewLog, Running, Counters
  <1>13. CASE FailExit
    BY <1>0, <1>13 DEF FailExit, Quit, Exit, Running, Counters
  <1>14. CASE \E w \in WindowIds : CloseWindow(w)
    BY <1>0, <1>14 DEF CloseWindow, CloseOf, Counters
  <1>15. CASE \E toggle \in BOOLEAN : TrayShow(toggle)
    BY <1>0, <1>15 DEF TrayShow, HasTray, createWindow, Counters
  <1>16. CASE TrayQuit
    BY <1>0, <1>16 DEF TrayQuit, HasTray, Quit, Exit, Counters
  <1>17. CASE SystemQuit
    BY <1>0, <1>17 DEF SystemQuit, Quit, Exit, Running, Counters
  <1>18. CASE Activate
    BY <1>0, <1>18 DEF Activate, createWindow, Running, Counters
  <1>19. CASE KillTimer
    BY <1>0, <1>19 DEF KillTimer, Exit, Running, Counters
  <1>20. CASE Done
    BY <1>0, <1>20 DEF Done, shellVars, Counters
  <1>21. CASE UNCHANGED shellVars
    BY <1>0, <1>21 DEF shellVars, Counters
  <1> QED
    BY <1>1, <1>2, <1>3, <1>4, <1>5, <1>6, <1>7, <1>8, <1>9, <1>10, <1>11, <1>12, <1>13,
       <1>14, <1>15, <1>16, <1>17, <1>18, <1>19, <1>20, <1>21 DEF ShellNext

\* Phases, exit codes and dialogs keep their types.
LEMMA PlacesStep == ShellInv /\ [ShellNext]_shellVars => Places'
  <1> SUFFICES ASSUME ShellInv, [ShellNext]_shellVars PROVE Places'
    OBVIOUS
  <1>0. Places
    BY DEF ShellInv
  <1>1. CASE startServer
    BY <1>0, <1>1 DEF startServer, Places, Phases, Codes
  <1>2. CASE tryConnect
    BY <1>0, <1>2 DEF tryConnect, Running, Places, Phases, Codes
  <1>3. CASE ProbeAnswered
    BY <1>0, <1>3 DEF ProbeAnswered, Resolve, createWindow, Running, Places, Phases, Codes
  <1>4. CASE ProbeError
    BY <1>0, <1>4 DEF ProbeError, Rescheduled, Reject, Running, Places, Phases, Codes
  <1>5. CASE ProbeTimeout
    BY <1>0, <1>5 DEF ProbeTimeout, Rescheduled, Reject, Running, Places, Phases, Codes
  <1>6. CASE SpawnError
    BY <1>0, <1>6 DEF SpawnError, Reject, Running, Places, Phases, Codes
  <1>7. CASE ServerListens
    BY <1>0, <1>7 DEF ServerListens, Places, Phases, Codes
  <1>8. CASE \E c \in Codes : ServerDies(c)
    BY <1>0, <1>8 DEF ServerDies, Codes, Running, Places, Phases
  <1>9. CASE ServerClose
    BY <1>0, <1>9 DEF ServerClose, Exit, CloseOf, Running, Places, Phases, Codes
  <1>10. CASE CrashViewLog
    BY <1>0, <1>10 DEF CrashViewLog, ViewLog, Running, Places, Phases, Codes
  <1>11. CASE CrashExit
    BY <1>0, <1>11 DEF CrashExit, Quit, Exit, Running, Places, Phases, Codes
  <1>12. CASE FailViewLog
    BY <1>0, <1>12 DEF FailViewLog, ViewLog, Running, Places, Phases, Codes
  <1>13. CASE FailExit
    BY <1>0, <1>13 DEF FailExit, Quit, Exit, Running, Places, Phases, Codes
  <1>14. CASE \E w \in WindowIds : CloseWindow(w)
    BY <1>0, <1>14 DEF CloseWindow, CloseOf, Places, Phases, Codes
  <1>15. CASE \E toggle \in BOOLEAN : TrayShow(toggle)
    BY <1>0, <1>15 DEF TrayShow, HasTray, createWindow, Places, Phases, Codes
  <1>16. CASE TrayQuit
    BY <1>0, <1>16 DEF TrayQuit, HasTray, Quit, Exit, Places, Phases, Codes
  <1>17. CASE SystemQuit
    BY <1>0, <1>17 DEF SystemQuit, Quit, Exit, Running, Places, Phases, Codes
  <1>18. CASE Activate
    BY <1>0, <1>18 DEF Activate, createWindow, Running, Places, Phases, Codes
  <1>19. CASE KillTimer
    BY <1>0, <1>19 DEF KillTimer, Exit, Running, Places, Phases, Codes
  <1>20. CASE Done
    BY <1>0, <1>20 DEF Done, shellVars, Places, Phases, Codes
  <1>21. CASE UNCHANGED shellVars
    BY <1>0, <1>21 DEF shellVars, Places, Phases, Codes
  <1> QED
    BY <1>1, <1>2, <1>3, <1>4, <1>5, <1>6, <1>7, <1>8, <1>9, <1>10, <1>11, <1>12, <1>13,
       <1>14, <1>15, <1>16, <1>17, <1>18, <1>19, <1>20, <1>21 DEF ShellNext

\* Only windows that exist are shown or held by mainWindow.
LEMMA FramesStep == ShellInv /\ [ShellNext]_shellVars => Frames'
  <1> SUFFICES ASSUME ShellInv, [ShellNext]_shellVars PROVE Frames'
    OBVIOUS
  <1>0. Frames
    BY DEF ShellInv
  <1>1. CASE startServer
    BY <1>0, <1>1 DEF startServer, Frames
  <1>2. CASE tryConnect
    BY <1>0, <1>2 DEF tryConnect, Running, Frames
  <1>3. CASE ProbeAnswered
    BY <1>0, <1>3 DEF ProbeAnswered, Resolve, createWindow, Running, Frames
  <1>4. CASE ProbeError
    BY <1>0, <1>4 DEF ProbeError, Rescheduled, Reject, Running, Frames
  <1>5. CASE ProbeTimeout
    BY <1>0, <1>5 DEF ProbeTimeout, Rescheduled, Reject, Running, Frames
  <1>6. CASE SpawnError
    BY <1>0, <1>6 DEF SpawnError, Reject, Running, Frames
  <1>7. CASE ServerListens
    BY <1>0, <1>7 DEF ServerListens, Frames
  <1>8. CASE \E c \in Codes : ServerDies(c)
    BY <1>0, <1>8 DEF ServerDies, Codes, Running, Frames
  <1>9. CASE ServerClose
    BY <1>0, <1>9 DEF ServerClose, Exit, CloseOf, Running, Frames
  <1>10. CASE CrashViewLog
    BY <1>0, <1>10 DEF CrashViewLog, ViewLog, Running, Frames
  <1>11. CASE CrashExit
    BY <1>0, <1>11 DEF CrashExit, Quit, Exit, Running, Frames
  <1>12. CASE FailViewLog
    BY <1>0, <1>12 DEF FailViewLog, ViewLog, Running, Frames
  <1>13. CASE FailExit
    BY <1>0, <1>13 DEF FailExit, Quit, Exit, Running, Frames
  <1>14. CASE \E w \in WindowIds : CloseWindow(w)
    BY <1>0, <1>14 DEF CloseWindow, CloseOf, Frames
  <1>15. CASE \E toggle \in BOOLEAN : TrayShow(toggle)
    BY <1>0, <1>15 DEF TrayShow, HasTray, createWindow, Frames
  <1>16. CASE TrayQuit
    BY <1>0, <1>16 DEF TrayQuit, HasTray, Quit, Exit, Frames
  <1>17. CASE SystemQuit
    BY <1>0, <1>17 DEF SystemQuit, Quit, Exit, Running, Frames
  <1>18. CASE Activate
    BY <1>0, <1>18 DEF Activate, createWindow, Running, Frames
  <1>19. CASE KillTimer
    BY <1>0, <1>19 DEF KillTimer, Exit, Running, Frames
  <1>20. CASE Done
    BY <1>0, <1>20 DEF Done, shellVars, Frames
  <1>21. CASE UNCHANGED shellVars
    BY <1>0, <1>21 DEF shellVars, Frames
  <1> QED
    BY <1>1, <1>2, <1>3, <1>4, <1>5, <1>6, <1>7, <1>8, <1>9, <1>10, <1>11, <1>12, <1>13,
       <1>14, <1>15, <1>16, <1>17, <1>18, <1>19, <1>20, <1>21 DEF ShellNext

\* The child is held, or not running.
LEMMA ChildStep == ShellInv /\ [ShellNext]_shellVars => ChildInv'
  <1> SUFFICES ASSUME ShellInv, [ShellNext]_shellVars PROVE ChildInv'
    OBVIOUS
  <1>0. Bools /\ Places /\ ChildInv
    BY DEF ShellInv
  <1>1. CASE startServer
    BY <1>0, <1>1 DEF startServer, Bools, Places, Phases, Codes, ChildInv
  <1>2. CASE tryConnect
    BY <1>0, <1>2 DEF tryConnect, Running, Bools, Places, Phases, Codes, ChildInv
  <1>3. CASE ProbeAnswered
    BY <1>0, <1>3 DEF ProbeAnswered, Resolve, createWindow, Running, Bools, Places, Phases,
       Codes, ChildInv
  <1>4. CASE ProbeError
    BY <1>0, <1>4 DEF ProbeError, Rescheduled, Reject, Running, Bools, Places, Phases,
       Codes, ChildInv
  <1>5. CASE ProbeTimeout
    BY <1>0, <1>5 DEF ProbeTimeout, Rescheduled, Reject, Running, Bools, Places, Phases,
       Codes, ChildInv
  <1>6. CASE SpawnError
    BY <1>0, <1>6 DEF SpawnError, Reject, Running, Bools, Places, Phases, Codes, ChildInv
  <1>7. CASE ServerListens
    BY <1>0, <1>7 DEF ServerListens, Bools, Places, Phases, Codes, ChildInv
  <1>8. CASE \E c \in Codes : ServerDies(c)
    BY <1>0, <1>8 DEF ServerDies, Codes, Running, Bools, Places, Phases, ChildInv
  <1>9. CASE ServerClose
    BY <1>0, <1>9 DEF ServerClose, Exit, CloseOf, Running, Bools, Places, Phases, Codes, ChildInv
  <1>10. CASE CrashViewLog
    BY <1>0, <1>10 DEF CrashViewLog, ViewLog, Running, Bools, Places, Phases, Codes, ChildInv
  <1>11. CASE CrashExit
    BY <1>0, <1>11 DEF CrashExit, Quit, Exit, Running, Bools, Places, Phases, Codes, ChildInv
  <1>12. CASE FailViewLog
    BY <1>0, <1>12 DEF FailViewLog, ViewLog, Running, Bools, Places, Phases, Codes, ChildInv
  <1>13. CASE FailExit
    BY <1>0, <1>13 DEF FailExit, Quit, Exit, Running, Bools, Places, Phases, Codes, ChildInv
  <1>14. CASE \E w \in WindowIds : CloseWindow(w)
    BY <1>0, <1>14 DEF CloseWindow, CloseOf, Bools, Places, Phases, Codes, ChildInv
  <1>15. CASE \E toggle \in BOOLEAN : TrayShow(toggle)
    BY <1>0, <1>15 DEF TrayShow, HasTray, createWindow, Bools, Places, Phases, Codes, ChildInv
  <1>16. CASE TrayQuit
    BY <1>0, <1>16 DEF TrayQuit, HasTray, Quit, Exit, Bools, Places, Phases, Codes, ChildInv
  <1>17. CASE SystemQuit
    BY <1>0, <1>17 DEF SystemQuit, Quit, Exit, Running, Bools, Places, Phases, Codes, ChildInv
  <1>18. CASE Activate
    BY <1>0, <1>18 DEF Activate, createWindow, Running, Bools, Places, Phases, Codes, ChildInv
  <1>19. CASE KillTimer
    BY <1>0, <1>19 DEF KillTimer, Exit, Running, Bools, Places, Phases, Codes, ChildInv
  <1>20. CASE Done
    BY <1>0, <1>20 DEF Done, shellVars, Bools, Places, Phases, Codes, ChildInv
  <1>21. CASE UNCHANGED shellVars
    BY <1>0, <1>21 DEF shellVars, Bools, Places, Phases, Codes, ChildInv
  <1> QED
    BY <1>1, <1>2, <1>3, <1>4, <1>5, <1>6, <1>7, <1>8, <1>9, <1>10, <1>11, <1>12, <1>13,
       <1>14, <1>15, <1>16, <1>17, <1>18, <1>19, <1>20, <1>21 DEF ShellNext

\* Every way out of the application finds the child ended.
LEMMA OrphanStep == ShellInv /\ [ShellNext]_shellVars => NoOrphan'
  <1> SUFFICES ASSUME ShellInv, [ShellNext]_shellVars PROVE NoOrphan'
    OBVIOUS
  <1>0. Bools /\ Places /\ ChildInv /\ NoOrphan
    BY DEF ShellInv
  <1>1. CASE startServer
    BY <1>0, <1>1 DEF startServer, Bools, Places, Phases, Codes, ChildInv, NoOrphan
  <1>2. CASE tryConnect
    BY <1>0, <1>2 DEF tryConnect, Running, Bools, Places, Phases, Codes, ChildInv, NoOrphan
  <1>3. CASE ProbeAnswered
    BY <1>0, <1>3 DEF ProbeAnswered, Resolve, createWindow, Running, Bools, Places, Phases,
       Codes, ChildInv, NoOrphan
  <1>4. CASE ProbeError
    BY <1>0, <1>4 DEF ProbeError, Rescheduled, Reject, Running, Bools, Places, Phases,
       Codes, ChildInv, NoOrphan
  <1>5. CASE ProbeTimeout
    BY <1>0, <1>5 DEF ProbeTimeout, Rescheduled, Reject, Running, Bools, Places, Phases,
       Codes, ChildInv, NoOrphan
  <1>6. CASE SpawnError
    BY <1>0, <1>6 DEF SpawnError, Reject, Running, Bools, Places, Phases, Codes, ChildInv, NoOrphan
  <1>7. CASE ServerListens
    BY <1>0, <1>7 DEF ServerListens, Bools, Places, Phases, Codes, ChildInv, NoOrphan
  <1>8. CASE \E c \in Codes : ServerDies(c)
    BY <1>0, <1>8 DEF ServerDies, Codes, Running, Bools, Places, Phases, ChildInv, NoOrphan
  <1>9. CASE ServerClose
    BY <1>0, <1>9 DEF ServerClose, Exit, CloseOf, Running, Bools, Places, Phases, Codes,
       ChildInv, NoOrphan
  <1>10. CASE CrashViewLog
    BY <1>0, <1>10 DEF CrashViewLog, ViewLog, Running, Bools, Places, Phases, Codes,
       ChildInv, NoOrphan
  <1>11. CASE CrashExit
    BY <1>0, <1>11 DEF CrashExit, Quit, Exit, Running, Bools, Places, Phases, Codes,
       ChildInv, NoOrphan
  <1>12. CASE FailViewLog
    BY <1>0, <1>12 DEF FailViewLog, ViewLog, Running, Bools, Places, Phases, Codes,
       ChildInv, NoOrphan
  <1>13. CASE FailExit
    BY <1>0, <1>13 DEF FailExit, Quit, Exit, Running, Bools, Places, Phases, Codes,
       ChildInv, NoOrphan
  <1>14. CASE \E w \in WindowIds : CloseWindow(w)
    BY <1>0, <1>14 DEF CloseWindow, CloseOf, Bools, Places, Phases, Codes, ChildInv, NoOrphan
  <1>15. CASE \E toggle \in BOOLEAN : TrayShow(toggle)
    BY <1>0, <1>15 DEF TrayShow, HasTray, createWindow, Bools, Places, Phases, Codes, ChildInv, NoOrphan
  <1>16. CASE TrayQuit
    BY <1>0, <1>16 DEF TrayQuit, HasTray, Quit, Exit, Bools, Places, Phases, Codes, ChildInv, NoOrphan
  <1>17. CASE SystemQuit
    BY <1>0, <1>17 DEF SystemQuit, Quit, Exit, Running, Bools, Places, Phases, Codes,
       ChildInv, NoOrphan
  <1>18. CASE Activate
    BY <1>0, <1>18 DEF Activate, createWindow, Running, Bools, Places, Phases, Codes,
       ChildInv, NoOrphan
  <1>19. CASE KillTimer
    BY <1>0, <1>19 DEF KillTimer, Exit, Running, Bools, Places, Phases, Codes, ChildInv, NoOrphan
  <1>20. CASE Done
    BY <1>0, <1>20 DEF Done, shellVars, Bools, Places, Phases, Codes, ChildInv, NoOrphan
  <1>21. CASE UNCHANGED shellVars
    BY <1>0, <1>21 DEF shellVars, Bools, Places, Phases, Codes, ChildInv, NoOrphan
  <1> QED
    BY <1>1, <1>2, <1>3, <1>4, <1>5, <1>6, <1>7, <1>8, <1>9, <1>10, <1>11, <1>12, <1>13,
       <1>14, <1>15, <1>16, <1>17, <1>18, <1>19, <1>20, <1>21 DEF ShellNext

\* The number of probes due is bounded by those made.
LEMMA ProbeStep == ShellInv /\ [ShellNext]_shellVars => ProbeInv'
  <1> SUFFICES ASSUME ShellInv, [ShellNext]_shellVars PROVE ProbeInv'
    OBVIOUS
  <1>0. Counters /\ Places /\ ProbeInv
    BY DEF ShellInv
  <1>1. CASE startServer
    BY <1>0, <1>1, RetriesAssumption DEF startServer, Counters, Places, Phases, ProbeInv
  <1>2. CASE tryConnect
    BY <1>0, <1>2, RetriesAssumption DEF tryConnect, Running, Counters, Places, Phases, ProbeInv
  <1>3. CASE ProbeAnswered
    BY <1>0, <1>3, RetriesAssumption DEF ProbeAnswered, Resolve, createWindow, Running,
       Counters, Places, Phases, ProbeInv
  <1>4. CASE ProbeError
    BY <1>0, <1>4, RetriesAssumption DEF ProbeError, Rescheduled, Reject, Running, Counters,
       Places, Phases, ProbeInv
  <1>5. CASE ProbeTimeout
    BY <1>0, <1>5, RetriesAssumption DEF ProbeTimeout, Rescheduled, Reject, Running,
       Counters, Places, Phases, ProbeInv
  <1>6. CASE SpawnError
    BY <1>0, <1>6, RetriesAssumption DEF SpawnError, Reject, Running, Counters, Places,
       Phases, ProbeInv
  <1>7. CASE ServerListens
    BY <1>0, <1>7, RetriesAssumption DEF ServerListens, Counters, Places, Phases, ProbeInv
  <1>8. CASE \E c \in Codes : ServerDies(c)
    BY <1>0, <1>8, RetriesAssumption DEF ServerDies, Codes, Running, Counters, Places,
       Phases, ProbeInv
  <1>9. CASE ServerClose
    BY <1>0, <1>9, RetriesAssumption DEF ServerClose, Exit, CloseOf, Running, Counters,
       Places, Phases, ProbeInv
  <1>10. CASE CrashViewLog
    BY <1>0, <1>10, RetriesAssumption DEF CrashViewLog, ViewLog, Running, Counters, Places,
       Phases, ProbeInv
  <1>11. CASE CrashExit
    BY <1>0, <1>11, RetriesAssumption DEF CrashExit, Quit, Exit, Running, Counters, Places,
       Phases, ProbeInv
  <1>12. CASE FailViewLog
    BY <1>0, <1>12, RetriesAssumption DEF FailViewLog, ViewLog, Running, Counters, Places,
       Phases, ProbeInv
  <1>13. CASE FailExit
    BY <1>0, <1>13, RetriesAssumption DEF FailExit, Quit, Exit, Running, Counters, Places,
       Phases, ProbeInv
  <1>14. CASE \E w \in WindowIds : CloseWindow(w)
    BY <1>0, <1>14, RetriesAssumption DEF CloseWindow, CloseOf, Counters, Places, Phases, ProbeInv
  <1>15. CASE \E toggle \in BOOLEAN : TrayShow(toggle)
    BY <1>0, <1>15, RetriesAssumption DEF TrayShow, HasTray, createWindow, Counters, Places, Phases, ProbeInv
  <1>16. CASE TrayQuit
    BY <1>0, <1>16, RetriesAssumption DEF TrayQuit, HasTray, Quit, Exit, Counters, Places, Phases, ProbeInv
  <1>17. CASE SystemQuit
    BY <1>0, <1>17, RetriesAssumption DEF SystemQuit, Quit, Exit, Running, Counters, Places,
       Phases, ProbeInv
  <1>18. CASE Activate
    BY <1>0, <1>18, RetriesAssumption DEF Activate, createWindow, Running, Counters, Places,
       Phases, ProbeInv
  <1>19. CASE KillTimer
    BY <1>0, <1>19, RetriesAssumption DEF KillTimer, Exit, Running, Counters, Places,
       Phases, ProbeInv
  <1>20. CASE Done
    BY <1>0, <1>20, RetriesAssumption DEF Done, shellVars, Counters, Places, Phases, ProbeInv
  <1>21. CASE UNCHANGED shellVars
    BY <1>0, <1>21, RetriesAssumption DEF shellVars, Counters, Places, Phases, ProbeInv
  <1> QED
    BY <1>1, <1>2, <1>3, <1>4, <1>5, <1>6, <1>7, <1>8, <1>9, <1>10, <1>11, <1>12, <1>13,
       <1>14, <1>15, <1>16, <1>17, <1>18, <1>19, <1>20, <1>21 DEF ShellNext

\* A window is only opened where there is none, but for the early one.
LEMMA WindowStep == ShellInv /\ [ShellNext]_shellVars => WindowInv'
  <1> SUFFICES ASSUME ShellInv, [ShellNext]_shellVars PROVE WindowInv'
    OBVIOUS
  <1>0. Bools /\ Places /\ Frames /\ WindowInv
    BY DEF ShellInv
  <1>1. CASE startServer
    BY <1>0, <1>1, NothingAssumption DEF startServer, Bools, Places, Phases, Frames, WindowInv
  <1>2. CASE tryConnect
    BY <1>0, <1>2, NothingAssumption DEF tryConnect, Running, Bools, Places, Phases, Frames,
       WindowInv
  <1>3. CASE ProbeAnswered
    BY <1>0, <1>3, NothingAssumption DEF ProbeAnswered, Resolve, createWindow, Running,
       Bools, Places, Phases, Frames, WindowInv
  <1>4. CASE ProbeError
    BY <1>0, <1>4, NothingAssumption DEF ProbeError, Rescheduled, Reject, Running, Bools,
       Places, Phases, Frames, WindowInv
  <1>5. CASE ProbeTimeout
    BY <1>0, <1>5, NothingAssumption DEF ProbeTimeout, Rescheduled, Reject, Running, Bools,
       Places, Phases, Frames, WindowInv
  <1>6. CASE SpawnError
    BY <1>0, <1>6, NothingAssumption DEF SpawnError, Reject, Running, Bools, Places, Phases,
       Frames, WindowInv
  <1>7. CASE ServerListens
    BY <1>0, <1>7, NothingAssumption DEF ServerListens, Bools, Places, Phases, Frames, WindowInv
  <1>8. CASE \E c \in Codes : ServerDies(c)
    BY <1>0, <1>8, NothingAssumption DEF ServerDies, Codes, Running, Bools, Places, Phases,
       Frames, WindowInv
  <1>9. CASE ServerClose
    BY <1>0, <1>9, NothingAssumption DEF ServerClose, Exit, CloseOf, Running, Bools, Places,
       Phases, Frames, WindowInv
  <1>10. CASE CrashViewLog
    BY <1>0, <1>10, NothingAssumption DEF CrashViewLog, ViewLog, Running, Bools, Places,
       Phases, Frames, WindowInv
  <1>11. CASE CrashExit
    BY <1>0, <1>11, NothingAssumption DEF CrashExit, Quit, Exit, Running, Bools, Places,
       Phases, Frames, WindowInv
  <1>12. CASE FailViewLog
    BY <1>0, <1>12, NothingAssumption DEF FailViewLog, ViewLog, Running, Bools, Places,
       Phases, Frames, WindowInv
  <1>13. CASE FailExit
    BY <1>0, <1>13, NothingAssumption DEF FailExit, Quit, Exit, Running, Bools, Places,
       Phases, Frames, WindowInv
  <1>14. CASE \E w \in WindowIds : CloseWindow(w)
    BY <1>0, <1>14, NothingAssumption DEF CloseWindow, CloseOf, Bools, Places, Phases,
       Frames, WindowInv
  <1>15. CASE \E toggle \in BOOLEAN : TrayShow(toggle)
    BY <1>0, <1>15, NothingAssumption DEF TrayShow, HasTray, createWindow, Bools, Places, Phases,
       Frames, WindowInv
  <1>16. CASE TrayQuit
    BY <1>0, <1>16, NothingAssumption DEF TrayQuit, HasTray, Quit, Exit, Bools, Places, Phases,
       Frames, WindowInv
  <1>17. CASE SystemQuit
    BY <1>0, <1>17, NothingAssumption DEF SystemQuit, Quit, Exit, Running, Bools, Places,
       Phases, Frames, WindowInv
  <1>18. CASE Activate
    BY <1>0, <1>18, NothingAssumption DEF Activate, createWindow, Running, Bools, Places,
       Phases, Frames, WindowInv
  <1>19. CASE KillTimer
    BY <1>0, <1>19, NothingAssumption DEF KillTimer, Exit, Running, Bools, Places, Phases,
       Frames, WindowInv
  <1>20. CASE Done
    BY <1>0, <1>20, NothingAssumption DEF Done, shellVars, Bools, Places, Phases, Frames, WindowInv
  <1>21. CASE UNCHANGED shellVars
    BY <1>0, <1>21, NothingAssumption DEF shellVars, Bools, Places, Phases, Frames, WindowInv
  <1> QED
    BY <1>1, <1>2, <1>3, <1>4, <1>5, <1>6, <1>7, <1>8, <1>9, <1>10, <1>11, <1>12, <1>13,
       <1>14, <1>15, <1>16, <1>17, <1>18, <1>19, <1>20, <1>21 DEF ShellNext

\* Every step keeps the invariant.
LEMMA ShellNextInv == ShellInv /\ [ShellNext]_shellVars => ShellInv'
  BY BoolsStep, CountersStep, PlacesStep, FramesStep, ChildStep, OrphanStep,
     ProbeStep, WindowStep DEF ShellInv

LEMMA ShellInvariant == ShellSpec => []ShellInv
  BY ShellInitInv, ShellNextInv, PTL DEF ShellSpec

\* The state of the shell is of its type in every reachable state.
THEOREM ShellTypeCorrect == ShellSpec => []ShellTypeOK
  <1>1. ShellInv => ShellTypeOK
    BY DEF ShellInv, Bools, Counters, Places, Phases, Frames, ShellTypeOK
  <1> QED
    BY <1>1, ShellInvariant, PTL

\* However the application ends, before-quit and its timer have ended the child.
THEOREM ShellLeavesNoOrphan == ShellSpec => []NoOrphan
  <1>1. ShellInv => NoOrphan
    BY DEF ShellInv
  <1> QED
    BY <1>1, ShellInvariant, PTL

\* checkServerAvailability makes fewer than 2 * maxRetries probes, although a
\* timeout sets two timers, and always has one due while the start is undecided.
THEOREM ShellProbesBounded == ShellSpec => []ProbesBounded
  <1>1. ShellInv => ProbesBounded
    BY RetriesAssumption DEF ShellInv, Counters, ProbeInv, ProbesBounded
  <1> QED
    BY <1>1, ShellInvariant, PTL

\* Without an early activate there is at most one window, the one mainWindow holds.
THEOREM ShellOneWindow == ShellSpec => []OneWindow
  <1>1. ShellInv => OneWindow
    BY DEF ShellInv, WindowInv, OneWindow
  <1> QED
    BY <1>1, ShellInvariant, PTL

===============================================================================
