------------------------------ MODULE Answers ------------------------------
(***************************************************************************)
(* What the inference endpoints answer (models.py) and how the answer      *)
(* reaches the client (routes/openai_data.py): as one body, or as events   *)
(* that a generator yields after the history row and the log row are       *)
(* written.  A request is here from the moment its deployment is resolved  *)
(* and its body accepted; DataPlane has what comes before.  Threads serve  *)
(* requests, storage calls raise, clients leave in mid-stream, the process *)
(* dies.  The text of an answer is a sequence of characters; a vector is a *)
(* sequence of hash words, each named by its text, its block and its place *)
(* in the block.                                                           *)
(***************************************************************************)
EXTENDS Integers, Sequences, FiniteSets

CONSTANTS
  Worker, RequestId, None,
  Character, Space,
  Echoing, EchoingLegacy,  \* "[aoai-twin:<model>] echoing: ", "... echoing legacy: "
  Hello,                   \* "[aoai-twin:<model>] hello - no ... provided."
  ChunkLength,             \* the 5 of _stream_response
  PromptLength,            \* the 200 of completions
  MaxItems,                \* the 2048 of embeddings
  Dims, BlockWords,        \* the 1536 floats of a vector, 8 from each hash
  Chats, Inputs, Prompts, Batches  \* bound: the bodies that clients send

Text == Seq(Character)

\* A message of a chat: its content is a string, or a list of parts (None: one
\* that is not of type "text").
Message == [ role : {"user", "other"}, content : Text \cup {None},
             parts : Seq(Text \cup {None}) ]

\* An item of the input of the Responses API; a string is an item with a content.
Item == [ input_text : Text \cup {None}, content : Text \cup {None},
          parts : Seq(Text \cup {None}) ]

\* A body, with the field that the endpoint reads; texts is the input of embeddings.
Body ==
  [messages : Chats] \cup [prompt : Prompts] \cup [input : Inputs] \cup [texts : Batches]

\* An answer is a sequence of characters, or of vectors of hash words.
HashWord == Text \X Nat \X Nat
Answer == Seq(Character \cup Seq(HashWord))

Kind == {"chat.completion", "chat.completion.stream", "completion", "embeddings",
         "response", "response.stream"}
Streamed == {"chat.completion.stream", "response.stream"}

\* What a request does next: embeds, makes a storage call, responds, or yields an
\* event.
Beginning == {"embed", "create_request"}
Recording == {"append_log", "respond"}
Streaming == {"role", "word", "words", "DONE",
              "created", "item_added", "delta", "item_done", "completed"}
Place == Beginning \cup Recording \cup Streaming

Row == [kind : Kind, request : Body, response : Answer]

\* What a client has received, and whether it was told that this is all.
Received == [text : Answer, ended : BOOLEAN]

ASSUME TextsAssumption ==
  Space \in Character /\ Echoing \in Text /\ EchoingLegacy \in Text /\ Hello \in Text
ASSUME NoneAssumption ==
  None \notin Text /\ None \notin Answer /\ None \notin Row /\ None \notin Received
                  /\ None \notin Place \cup RequestId
ASSUME SizesAssumption ==
  /\ ChunkLength \in Nat \ {0} /\ PromptLength \in Nat /\ MaxItems \in Nat
  /\ Dims \in Nat /\ BlockWords \in Nat \ {0}
ASSUME BodiesAssumption ==
  /\ Chats \subseteq Seq(Message) /\ << >> \notin Chats /\ Inputs \subseteq Seq(Item)
  /\ Prompts \subseteq Text /\ Batches \subseteq Seq(Text)

---------------------------------------------------------------------------
(* The text of an answer. *)

Oldest(S) == CHOOSE i \in S : \A j \in S : i <= j
Newest(S) == CHOOSE i \in S : \A j \in S : j <= i

Shorter(n, m) == IF n < m THEN n ELSE m

\* Mutant of ChatQuote: the first user message.
ChatQuoteOldest(messages) ==
  LET users == {i \in DOMAIN messages : messages[i].role = "user"}
      m == messages[Oldest(users)]
      pieces == << m.content >> \o m.parts
      texts == {k \in DOMAIN pieces : pieces[k] # None}
  IN  IF users = {} \/ texts = {} THEN << >> ELSE pieces[Oldest(texts)]

\* The newest user message, and in it the first text, were it empty.
ChatQuote(messages) ==
  LET users == {i \in DOMAIN messages : messages[i].role = "user"}
      m == messages[Newest(users)]
      pieces == << m.content >> \o m.parts
      texts == {k \in DOMAIN pieces : pieces[k] # None}
  IN  IF users = {} \/ texts = {} THEN << >> ELSE pieces[Oldest(texts)]

\* An item's own strings count were they empty, its parts do not.
Pieces(item) == << item.input_text, item.content >> \o item.parts
Texts(item) ==
  {k \in DOMAIN Pieces(item) :
     Pieces(item)[k] # None /\ (k <= 2 \/ Pieces(item)[k] # << >>)}

\* The newest item that has a text.
ResponseQuote(input) ==
  LET speaking == {i \in DOMAIN input : Texts(input[i]) # {}}
      item == input[Newest(speaking)]
  IN  IF speaking = {} THEN << >> ELSE Pieces(item)[Oldest(Texts(item))]

Reply(quote) == IF quote = << >> THEN Hello ELSE Echoing \o quote

LegacyReply(prompt) ==
  EchoingLegacy \o SubSeq(prompt, 1, Shorter(PromptLength, Len(prompt)))

---------------------------------------------------------------------------
VARIABLES
  requests,  \* the requests table: kind, request_json and response_json of a row
  logs,      \* the logs table: how many rows there are of each kind
  frames,    \* the request that each worker is serving
  clients    \* what the client of each request has received

vars == << requests, logs, frames, clients >>

\* answer is what the response carries; sent, how much of it the generator has
\* yielded; vector, block and word are raw, counter and i of the embedding loop.
Frame ==
  [ at : Place \cup {None}, kind : Kind \cup {None}, id : RequestId \cup {None},
    request : Body \cup {None}, answer : Answer, sent : Nat,
    vector : Seq(HashWord), block : Nat, word : 0 .. BlockWords ]

Idle == [ at |-> None, kind |-> None, id |-> None, request |-> None, answer |-> << >>,
          sent |-> 0, vector |-> << >>, block |-> 0, word |-> 0 ]

Init ==
  /\ requests = [r \in RequestId |-> None]
  /\ logs = [k \in Kind |-> 0]
  /\ frames = [w \in Worker |-> Idle]
  /\ clients = [r \in RequestId |-> None]

IsIdle(w) == frames[w].at = None
Continue(w, f) == frames' = [frames EXCEPT ![w] = f]

\* Bound: every request that is begun can be recorded.
RequestsLeft ==
  Cardinality({r \in RequestId : requests[r] = None})
    > Cardinality({w \in Worker : frames[w].at \in {"embed", "create_request"}})

Accept(w, f) ==
  /\ IsIdle(w) /\ RequestsLeft
  /\ Continue(w, f)
  /\ UNCHANGED << requests, logs, clients >>

BeginChat(w) ==
  \E messages \in Chats, stream \in BOOLEAN :
    Accept(w, [Idle EXCEPT
      !.at = "create_request",
      !.kind = IF stream THEN "chat.completion.stream" ELSE "chat.completion",
      !.request = [messages |-> messages],
      !.answer = Reply(ChatQuote(messages))])

\* completions does not look at the stream flag.
BeginCompletion(w) ==
  \E prompt \in Prompts :
    Accept(w, [Idle EXCEPT
      !.at = "create_request", !.kind = "completion", !.request = [prompt |-> prompt],
      !.answer = LegacyReply(prompt)])

BeginResponse(w) ==
  \E input \in Inputs, stream \in BOOLEAN :
    Accept(w, [Idle EXCEPT
      !.at = "create_request",
      !.kind = IF stream THEN "response.stream" ELSE "response",
      !.request = [input |-> input],
      !.answer = Reply(ResponseQuote(input))])

BeginEmbeddings(w) ==
  \E items \in Batches :
    /\ items # << >> /\ Len(items) <= MaxItems
    /\ Accept(w, [Idle EXCEPT !.at = "embed", !.kind = "embeddings", !.request = [texts |-> items]])

---------------------------------------------------------------------------
(* synthetic_embedding, for one text of the request after another. *)

TextToEmbed(f) == f.request.texts[Len(f.answer) + 1]

\* Mutant of EmbedWord: the inner loop has no break.
EmbedWholeBlocks(w) ==
  LET f == frames[w] IN
  /\ f.at = "embed"
  /\ Len(f.vector) < Dims \/ f.word > 0
  /\ f.word < BlockWords
  /\ Continue(w, [f EXCEPT !.vector = Append(@, << TextToEmbed(f), f.block, f.word >>),
                           !.word = @ + 1])
  /\ UNCHANGED << requests, logs, clients >>

\* Mutant of EmbedWord: the inner loop runs past the end of the hash.
EmbedPastBlock(w) ==
  LET f == frames[w] IN
  /\ f.at = "embed"
  /\ Len(f.vector) < Dims
  /\ Continue(w, [f EXCEPT !.vector = Append(@, << TextToEmbed(f), f.block, f.word >>),
                           !.word = @ + 1])
  /\ UNCHANGED << requests, logs, clients >>

\* One float more of this block, unless there are enough.
EmbedWord(w) ==
  LET f == frames[w] IN
  /\ f.at = "embed"
  /\ Len(f.vector) < Dims
  /\ f.word < BlockWords
  /\ Continue(w, [f EXCEPT !.vector = Append(@, << TextToEmbed(f), f.block, f.word >>),
                           !.word = @ + 1])
  /\ UNCHANGED << requests, logs, clients >>

\* Mutant of EmbedBlock: each turn of the loop begins the vector again.
EmbedBlockAfresh(w) ==
  LET f == frames[w] IN
  /\ f.at = "embed"
  /\ Len(f.vector) < Dims
  /\ f.word = BlockWords
  /\ Continue(w, [f EXCEPT !.block = @ + 1, !.word = 0, !.vector = << >>])
  /\ UNCHANGED << requests, logs, clients >>

\* The next block.
EmbedBlock(w) ==
  LET f == frames[w] IN
  /\ f.at = "embed"
  /\ Len(f.vector) < Dims
  /\ f.word = BlockWords
  /\ Continue(w, [f EXCEPT !.block = @ + 1, !.word = 0])
  /\ UNCHANGED << requests, logs, clients >>

\* The vector is full; the next text, or the response.
EmbedNext(w) ==
  LET f == frames[w]
      answer == Append(f.answer, f.vector)
  IN
  /\ f.at = "embed"
  /\ Len(f.vector) >= Dims
  /\ Continue(w, [f EXCEPT !.answer = answer, !.vector = << >>, !.block = 0, !.word = 0,
                           !.at = IF Len(answer) = Len(f.request.texts) THEN "create_request"
                                  ELSE "embed"])
  /\ UNCHANGED << requests, logs, clients >>

---------------------------------------------------------------------------
(* The history row, the log row, and the response or its first byte. *)

\* _persist_request draws an id.
PersistRequest(w) ==
  LET f == frames[w] IN
  /\ f.at = "create_request"
  /\ \E r \in RequestId :
       /\ requests[r] = None
       /\ requests' = [requests EXCEPT ![r] =
            [kind |-> f.kind, request |-> f.request, response |-> f.answer]]
       /\ Continue(w, [f EXCEPT !.at = "append_log", !.id = r])
  /\ UNCHANGED << logs, clients >>

\* Mutant of Emit: a streaming request is logged by the generator, which has no log.
EmitUnlessStreamed(w) ==
  LET f == frames[w] IN
  /\ f.at = "append_log"
  /\ logs' = IF f.kind \in Streamed THEN logs ELSE [logs EXCEPT ![f.kind] = @ + 1]
  /\ Continue(w, [f EXCEPT !.at = "respond"])
  /\ UNCHANGED << requests, clients >>

Emit(w) ==
  LET f == frames[w] IN
  /\ f.at = "append_log"
  /\ logs' = [logs EXCEPT ![f.kind] = @ + 1]
  /\ Continue(w, [f EXCEPT !.at = "respond"])
  /\ UNCHANGED << requests, clients >>

\* The body, or the generator.
Respond(w) ==
  LET f == frames[w] IN
  /\ f.at = "respond"
  /\ \/ /\ f.kind \notin Streamed
        /\ clients' = [clients EXCEPT ![f.id] = [text |-> f.answer, ended |-> TRUE]]
        /\ Continue(w, Idle)
     \/ /\ f.kind \in Streamed
        /\ clients' = [clients EXCEPT ![f.id] = [text |-> << >>, ended |-> FALSE]]
        /\ Continue(w, [f EXCEPT !.at = IF f.kind = "response.stream" THEN "created"
                                        ELSE "role"])
  /\ UNCHANGED << requests, logs >>

---------------------------------------------------------------------------
(* The generators.  The client has what has been yielded. *)

\* An event without text, and where the generator goes on.
YieldOnly(w, from, to) ==
  /\ frames[w].at = from
  /\ Continue(w, [frames[w] EXCEPT !.at = to])
  /\ UNCHANGED << requests, logs, clients >>

\* An event with the text up to a place of the answer.
YieldText(w, end, to) ==
  LET f == frames[w] IN
  /\ Continue(w, [f EXCEPT !.sent = end, !.at = to])
  /\ clients' = [clients EXCEPT ![f.id].text = @ \o SubSeq(f.answer, f.sent + 1, end)]
  /\ UNCHANGED << requests, logs >>

\* The last event.
YieldLast(w, from) ==
  LET f == frames[w] IN
  /\ f.at = from
  /\ Continue(w, Idle)
  /\ clients' = [clients EXCEPT ![f.id].ended = TRUE]
  /\ UNCHANGED << requests, logs >>

\* Where the word that begins at a place ends: before the next space, or with the
\* text.  A word but the first begins with the space that split(" ") has removed
\* and the loop puts back.
WordEnd(text, begin) ==
  Oldest({j \in begin .. Len(text) : j = Len(text) \/ text[j + 1] = Space})

\* The first event of _stream_chat_completion, with the role.
YieldRole(w) == YieldOnly(w, "role", "word")

YieldFirstWord(w) ==
  LET f == frames[w] IN
  f.at = "word" /\ YieldText(w, WordEnd(f.answer, 0), "words")

\* Mutant of YieldNextWord: a word is looked for from its own space.
YieldNoWord(w) ==
  LET f == frames[w] IN
  /\ f.at = "words" /\ f.sent < Len(f.answer)
  /\ YieldText(w, WordEnd(f.answer, f.sent), "words")

YieldNextWord(w) ==
  LET f == frames[w] IN
  /\ f.at = "words" /\ f.sent < Len(f.answer)
  /\ YieldText(w, WordEnd(f.answer, f.sent + 1), "words")

YieldStop(w) ==
  /\ frames[w].sent = Len(frames[w].answer)
  /\ YieldOnly(w, "words", "DONE")

YieldDone(w) == YieldLast(w, "DONE")

\* response.created, response.output_item.added
YieldCreated(w) == YieldOnly(w, "created", "item_added")
YieldItemAdded(w) == YieldOnly(w, "item_added", "delta")

\* Mutant of YieldDelta: chunks overlap by one.
YieldOverlapping(w) ==
  LET f == frames[w]
      end == Shorter(f.sent + ChunkLength, Len(f.answer))
  IN
  /\ f.at = "delta"
  /\ Continue(w, [f EXCEPT !.sent = end,
                           !.at = IF end < Len(f.answer) THEN "delta" ELSE "item_done"])
  /\ clients' = [clients EXCEPT ![f.id].text =
                   @ \o SubSeq(f.answer, IF f.sent = 0 THEN 1 ELSE f.sent, end)]
  /\ UNCHANGED << requests, logs >>

\* response.output_text.delta: a chunk of the answer; one chunk were it empty.
YieldDelta(w) ==
  LET f == frames[w]
      end == Shorter(f.sent + ChunkLength, Len(f.answer))
  IN
  /\ f.at = "delta"
  /\ YieldText(w, end, IF end < Len(f.answer) THEN "delta" ELSE "item_done")

\* response.output_item.done, response.completed
\* Both carry the whole text once more, after the last delta: it is text the
\* client has already, so neither adds to f.sent.
YieldItemDone(w) == YieldOnly(w, "item_done", "completed")
YieldCompleted(w) == YieldLast(w, "completed")

---------------------------------------------------------------------------
(* What goes wrong. *)

\* A storage call raises: 500.
StorageFails(w) ==
  /\ frames[w].at \in {"create_request", "append_log"}
  /\ Continue(w, Idle)
  /\ UNCHANGED << requests, logs, clients >>

\* The client has left: the response is not sent, or the host closes the generator.
Disconnect(w) ==
  /\ frames[w].at \in {"respond"} \cup Streaming
  /\ Continue(w, Idle)
  /\ UNCHANGED << requests, logs, clients >>

\* The process dies, and its requests with it.
Crash ==
  /\ frames' = [w \in Worker |-> Idle]
  /\ UNCHANGED << requests, logs, clients >>

Begin(w) == BeginChat(w) \/ BeginCompletion(w) \/ BeginResponse(w) \/ BeginEmbeddings(w)

\* What a worker does by itself.
Step(w) ==
  \/ EmbedWord(w) \/ EmbedBlock(w) \/ EmbedNext(w)
  \/ PersistRequest(w) \/ Emit(w) \/ Respond(w)
  \/ YieldRole(w) \/ YieldFirstWord(w) \/ YieldNextWord(w) \/ YieldStop(w) \/ YieldDone(w)
  \/ YieldCreated(w) \/ YieldItemAdded(w) \/ YieldDelta(w) \/ YieldItemDone(w)
  \/ YieldCompleted(w)

Next ==
  \/ Crash
  \/ \E w \in Worker : Begin(w) \/ Step(w) \/ StorageFails(w) \/ Disconnect(w)

Spec == Init /\ [][Next]_vars

\* A thread is scheduled while it has something to do, and the client of a stream
\* reads on, or leaves.
FairSpec == Spec /\ \A w \in Worker : WF_vars(Step(w))

---------------------------------------------------------------------------
(* Properties. *)

TypeOK ==
  /\ requests \in [RequestId -> Row \cup {None}]
  /\ logs \in [Kind -> Nat]
  /\ frames \in [Worker -> Frame]
  /\ clients \in [RequestId -> Received \cup {None}]

\* The answers, as the contract sees them.
Recorded == [r \in RequestId |-> IF requests[r] = None THEN None ELSE requests[r].response]
Delivered == [r \in RequestId |-> IF clients[r] = None THEN None ELSE clients[r].text]
Finished == {r \in RequestId : clients[r] # None /\ clients[r].ended}

Contract == INSTANCE AnswerContract
  WITH recorded <- Recorded, delivered <- Delivered, finished <- Finished

\* The pieces of a stream, characters or words, are the recorded answer, in order,
\* none twice and none left out; [DONE] and response.completed come when all has
\* been sent; and nothing is sent that is not recorded yet (openai_data.py:115-122,
\* 152-178, 206-222).
AnswersKeepContract == Contract!Spec

\* "one row per request, even on stream" (openai_data.py:207): a request that has
\* got a response, whether or not its stream comes to its end, has a history row; of
\* each kind there are as many log rows as responses, or more when storage, the
\* process or the client fails in between, and never more than history rows.
Rows(k) == {r \in RequestId : requests[r] # None /\ requests[r].kind = k}
Answered(k) == {r \in Rows(k) : clients[r] # None}

ClientsHaveRows == \A r \in RequestId : clients[r] # None => requests[r] # None

OneRowPerAnswer ==
  /\ ClientsHaveRows
  /\ \A k \in Kind : Cardinality(Answered(k)) <= logs[k] /\ logs[k] <= Cardinality(Rows(k))

\* A recorded answer quotes a text that is not empty, of the newest message of the
\* user, or of an item that no item with such a text follows; it greets a user whose
\* newest message has no text, or an empty one, and the sender of an input without a
\* text, or of an item whose own text is empty and which no text follows
\* (models.py:46-60, 104-126).
Spoken(m) == ({m.content} \cup {m.parts[k] : k \in DOMAIN m.parts}) \ {None}
Given(item) == (Spoken(item) \cup {item.input_text}) \ {None, << >>}

QuotesNewestMessage(messages, answer) ==
  \/ \E i \in DOMAIN messages :
       /\ messages[i].role = "user"
       /\ \A j \in DOMAIN messages : j > i => messages[j].role # "user"
       /\ \/ \E t \in Spoken(messages[i]) \ {<< >>} : answer = Echoing \o t
          \/ answer = Hello /\ (Spoken(messages[i]) = {} \/ << >> \in Spoken(messages[i]))
  \/ answer = Hello /\ \A i \in DOMAIN messages : messages[i].role # "user"

QuotesNewestItem(input, answer) ==
  \/ \E i \in DOMAIN input :
       /\ \A j \in DOMAIN input : j > i => Given(input[j]) = {}
       /\ \/ \E t \in Given(input[i]) : answer = Echoing \o t
          \/ answer = Hello /\ << >> \in {input[i].input_text, input[i].content}
  \/ answer = Hello /\ \A i \in DOMAIN input : Given(input[i]) = {}

Quotes(kind, request, answer) ==
  /\ kind \in {"chat.completion", "chat.completion.stream"} =>
       QuotesNewestMessage(request.messages, answer)
  /\ kind \in {"response", "response.stream"} =>
       QuotesNewestItem(request.input, answer)

AnswersQuoteTheNewest ==
  \A r \in RequestId :
    requests[r] # None =>
      Quotes(requests[r].kind, requests[r].request, requests[r].response)

\* A recorded embedding is a vector for each text, in their order, each of exactly
\* Dims floats: the words of its own text's hashes, none left out and none twice,
\* though Dims need not be a multiple of the words of a hash (models.py:208-222).
Vector(text) ==
  [k \in 1 .. Dims |-> << text, (k - 1) \div BlockWords, (k - 1) % BlockWords >>]

Embeds(kind, request, answer) ==
  kind = "embeddings" => answer = [n \in DOMAIN request.texts |-> Vector(request.texts[n])]

EmbeddingsAreWhole ==
  \A r \in RequestId :
    requests[r] # None =>
      Embeds(requests[r].kind, requests[r].request, requests[r].response)

\* What is left to send, and of the texts to embed.
Unsent(f) == Len(f.answer) - f.sent
Unembedded(f) == Len(f.request.texts) - Len(f.answer)

\* n texts have Dims words each, no more blocks than words, and the turn to the next.
StepsOfTexts(n) == n * (2 * Dims + 1)

\* More steps than this a request cannot take before it ends.
StepsLeft(f) ==
  CASE f.at = None -> 0
    [] f.at \in {"DONE", "completed"} -> 1
    [] f.at = "item_done" -> 2
    [] f.at = "words" -> 2 + Unsent(f)
    [] f.at \in {"word", "delta"} -> 3 + Unsent(f)
    [] f.at \in {"role", "item_added"} -> 4 + Unsent(f)
    [] f.at = "created" -> 5 + Unsent(f)
    [] f.at = "respond" -> 6 + Unsent(f)
    [] f.at = "append_log" -> 7 + Unsent(f)
    [] f.at = "create_request" -> 8 + Unsent(f)
    [] f.at = "embed" -> 9 + Len(f.request.texts) + StepsOfTexts(Unembedded(f))
                           + 2 * (Dims - Len(f.vector))
                           + (IF f.word = BlockWords THEN 1 ELSE 0)

\* Nothing a request does leads it back: neither the embedding loop, whose last block
\* is left half used when Dims is no multiple of BlockWords, nor a generator, were the
\* answer empty or all spaces (models.py:208-222, openai_data.py:115-122,
\* 152-178).
EachStepIsNearerTheEnd ==
  [][\A w \in Worker : ~IsIdle(w) /\ frames'[w] # frames[w] =>
       StepsLeft(frames'[w]) \in 0 .. StepsLeft(frames[w]) - 1]_vars

\* Every request ends, with or without a response: the embedding loop and both
\* generators come to their end.
RequestsEnd == \A w \in Worker : ~IsIdle(w) ~> IsIdle(w)
=============================================================================
