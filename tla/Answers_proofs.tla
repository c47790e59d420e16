--------------------------- MODULE Answers_proofs ---------------------------
(***************************************************************************)
(* The theorems of Answers.  First the operators: which text is quoted,    *)
(* where a word ends, how pieces of a sequence join.  Then AnswersInv is   *)
(* inductive; then every step is one of the contract, or none.             *)
(***************************************************************************)
EXTENDS Answers, Numbers_proofs, SequenceTheorems

---------------------------------------------------------------------------
(* What the proofs carry from step to step. *)

\* The vectors so far are those of the first texts, and the one in the making is
\* the beginning of the next.
Embedding(f) ==
  /\ f.kind = "embeddings"
  /\ f.request \in [texts : Batches]
  /\ Len(f.answer) < Len(f.request.texts)
  /\ \A n \in 1 .. Len(f.answer) : f.answer[n] = Vector(f.request.texts[n])
  /\ Len(f.vector) <= Dims
  /\ Len(f.vector) = f.block * BlockWords + f.word
  /\ \A k \in 1 .. Len(f.vector) :
       f.vector[k] = << TextToEmbed(f), (k - 1) \div BlockWords, (k - 1) % BlockWords >>

\* A request that is recorded is the only one of its id, and its row has its answer;
\* the client of a stream has what the generator has yielded.
InOrder(w) ==
  LET f == frames[w] IN
  /\ f.at = "embed" => Embedding(f)
  /\ f.at = "create_request" =>
       /\ f.kind \in Kind /\ f.request \in Body
       /\ Quotes(f.kind, f.request, f.answer)
       /\ Embeds(f.kind, f.request, f.answer)
  /\ f.at \in Beginning \cup {None} => f.id = None /\ f.sent = 0
  /\ f.at \in Recording \cup Streaming =>
       /\ f.id \in RequestId
       /\ requests[f.id] # None
       /\ requests[f.id].kind = f.kind /\ requests[f.id].response = f.answer
       /\ \A v \in Worker \ {w} : frames[v].id # f.id
  /\ f.at \in Recording => clients[f.id] = None
  /\ f.at \in Streaming =>
       /\ clients[f.id] # None
       /\ ~clients[f.id].ended
       /\ f.sent <= Len(f.answer)
       /\ clients[f.id].text = SubSeq(f.answer, 1, f.sent)
  /\ f.at \in Recording \cup {"role", "word", "created", "item_added"} => f.sent = 0
  /\ f.at \in {"DONE", "item_done", "completed"} => f.sent = Len(f.answer)

\* The log rows of a kind are those of some of its history rows: of all that have
\* got a response or are about to, and of none that is not logged yet.
LogsFit(k) ==
  /\ IsFiniteSet(Rows(k))
  /\ \E logged \in SUBSET Rows(k) :
       /\ logs[k] = Cardinality(logged)
       /\ Answered(k) \subseteq logged
       /\ \A w \in Worker :
            /\ frames[w].at = "append_log" => frames[w].id \notin logged
            /\ frames[w].at = "respond" /\ frames[w].kind = k => frames[w].id \in logged

AnswersInv ==
  /\ TypeOK
  /\ \A w \in Worker : InOrder(w)
  /\ ClientsHaveRows /\ AnswersQuoteTheNewest /\ EmbeddingsAreWhole
  /\ \A k \in Kind : LogsFit(k)

---------------------------------------------------------------------------
(* The text of an answer. *)

\* The least of a set of numbers is one of them.
LEMMA OldestIsOne ==
  ASSUME NEW S \in SUBSET Nat, S # {}
  PROVE  Oldest(S) \in S /\ \A j \in S : Oldest(S) <= j
<1>1. \E i \in S : \A j \in S : i <= j
  BY Least
<1> QED
  BY <1>1 DEF Oldest

\* The greatest of a bounded set of numbers is one of them.
LEMMA NewestIsOne ==
  ASSUME NEW b \in Nat, NEW S \in SUBSET (1 .. b), S # {}
  PROVE  Newest(S) \in S /\ \A j \in S : j <= Newest(S)
<1>1. \E i \in S : \A j \in S : j <= i
  BY Greatest
<1> QED
  BY <1>1 DEF Newest

\* What goes before the parts of a message or an item, and the parts.
LEMMA PiecesOf ==
  ASSUME NEW T, NEW s \in Seq(T), NEW p \in Seq(T)
  PROVE  /\ s \o p \in Seq(T)
         /\ DOMAIN (s \o p) = 1 .. (Len(s) + Len(p))
         /\ \A k \in 1 .. Len(s) : (s \o p)[k] = s[k]
         /\ \A k \in Len(s) + 1 .. Len(s) + Len(p) : k - Len(s) \in DOMAIN p /\ (s \o p)[k] = p[k - Len(s)]
         /\ \A k \in DOMAIN p : k + Len(s) \in DOMAIN (s \o p) /\ (s \o p)[k + Len(s)] = p[k]
  OBVIOUS

\* The reply to a chat quotes the newest user message.
LEMMA ChatReply ==
  ASSUME NEW messages \in Chats
  PROVE  /\ ChatQuote(messages) \in Text
         /\ QuotesNewestMessage(messages, Reply(ChatQuote(messages)))
<1> DEFINE users == {i \in DOMAIN messages : messages[i].role = "user"}
           m == messages[Newest(users)]
           pieces == << m.content >> \o m.parts
           texts == {k \in DOMAIN pieces : pieces[k] # None}
           q == ChatQuote(messages)
<1>1. messages \in Seq(Message) /\ << >> \in Text
  BY BodiesAssumption DEF Text
<1>2. CASE users = {}
  <2>1. q = << >>
    BY <1>2 DEF ChatQuote
  <2>2. Reply(q) = Hello
    BY <2>1 DEF Reply
  <2>3. \A i \in DOMAIN messages : messages[i].role # "user"
    BY <1>2
  <2> QED
    BY <1>1, <2>1, <2>2, <2>3 DEF QuotesNewestMessage
<1>3. CASE users # {}
  <2>1. Newest(users) \in users /\ \A j \in users : j <= Newest(users)
    <3>1. Len(messages) \in Nat /\ users \in SUBSET (1 .. Len(messages))
      BY <1>1
    <3> HIDE DEF users
    <3> QED
      BY <1>3, <3>1, NewestIsOne
  <2>2. PICK i \in DOMAIN messages : i = Newest(users)
    BY <2>1
  <2>3. /\ messages[i].role = "user"
        /\ \A j \in DOMAIN messages : j > i => messages[j].role # "user"
    <3>1. \A j \in DOMAIN messages : j \in Int
      BY <1>1
    <3>2. i \in users /\ \A j \in users : j <= i
      <4> HIDE DEF users
      <4> QED
        BY <2>1, <2>2
    <3> QED
      BY <3>1, <3>2
  <2>4. m = messages[i] /\ m \in Message
    BY <1>1, <2>2
  <2>5. m.content \in Text \cup {None} /\ m.parts \in Seq(Text \cup {None})
    BY <2>4 DEF Message
  <2>6. /\ pieces \in Seq(Text \cup {None})
        /\ DOMAIN pieces = 1 .. (1 + Len(m.parts))
        /\ pieces[1] = m.content
        /\ \A k \in 2 .. (1 + Len(m.parts)) : k - 1 \in DOMAIN m.parts /\ pieces[k] = m.parts[k - 1]
        /\ \A k \in DOMAIN m.parts : k + 1 \in DOMAIN pieces /\ pieces[k + 1] = m.parts[k]
    <3> HIDE DEF m
    <3> QED
      BY <2>5
  <2>7. Spoken(m) = {pieces[k] : k \in DOMAIN pieces} \ {None}
    <3> HIDE DEF m, pieces
    <3>1. Spoken(m) \subseteq {pieces[k] : k \in DOMAIN pieces} \ {None}
      <4>1. 1 \in DOMAIN pieces
        BY <2>5, <2>6
      <4> QED
        BY <2>6, <4>1 DEF Spoken
    <3>2. ASSUME NEW k \in DOMAIN pieces, pieces[k] # None PROVE pieces[k] \in Spoken(m)
      <4>1. CASE k = 1
        BY <2>6, <3>2, <4>1 DEF Spoken
      <4>2. CASE k # 1
        <5>1. k \in 2 .. (1 + Len(m.parts))
          BY <2>5, <2>6, <4>2
        <5> QED
          BY <2>6, <3>2, <5>1 DEF Spoken
      <4> QED
        BY <4>1, <4>2
    <3> QED
      BY <3>1, <3>2
  <2>8. CASE texts = {}
    <3>1. q = << >>
      BY <2>8 DEF ChatQuote
    <3>2. Reply(q) = Hello
      BY <3>1 DEF Reply
    <3>3. Spoken(m) = {}
      <4> HIDE DEF m, pieces
      <4> QED
        BY <2>7, <2>8
    <3> QED
      BY <1>1, <2>3, <2>4, <3>1, <3>2, <3>3 DEF QuotesNewestMessage
  <2>9. CASE texts # {}
    <3>1. q = pieces[Oldest(texts)]
      BY <1>3, <2>9 DEF ChatQuote
    <3>2. Oldest(texts) \in texts
      <4>1. texts \in SUBSET Nat
        <5> HIDE DEF m, pieces
        <5> QED
          BY <2>5, <2>6
      <4> HIDE DEF texts
      <4> QED
        BY <2>9, <4>1, OldestIsOne
    <3>3. q \in Spoken(m) /\ q \in Text
      <4>1. PICK k \in DOMAIN pieces : k = Oldest(texts) /\ pieces[k] # None
        BY <3>2
      <4>2. q = pieces[k]
        BY <3>1, <4>1
      <4>3. pieces[k] \in Text
        <5> HIDE DEF m, pieces
        <5> QED
          BY <2>6, <4>1
      <4> HIDE DEF m, pieces, texts, q
      <4> QED
        BY <2>7, <4>1, <4>2, <4>3
    <3> HIDE DEF m, pieces, texts, users
    <3> QED
      BY <2>3, <2>4, <3>3 DEF QuotesNewestMessage, Reply
  <2> QED
    BY <2>8, <2>9
<1> QED
  BY <1>2, <1>3

\* The texts of an item are among its pieces, and every text that is given is one.
PiecesAndTexts(item) ==
  /\ Texts(item) \in SUBSET Nat
  /\ \A k \in Texts(item) :
       /\ Pieces(item)[k] \in Text
       /\ Pieces(item)[k] # << >> => Pieces(item)[k] \in Given(item)
       /\ Pieces(item)[k] = << >> => << >> \in {item.input_text, item.content}
  /\ Texts(item) = {} => Given(item) = {}

\* The pieces of an item and those among them that are texts.
LEMMA ItemPieces ==
  ASSUME NEW item \in Item
  PROVE  PiecesAndTexts(item)
<1> DEFINE own == << item.input_text, item.content >>
           p == Pieces(item)
           n == Len(item.parts)
<1>1. /\ item.input_text \in Text \cup {None} /\ item.content \in Text \cup {None}
      /\ item.parts \in Seq(Text \cup {None}) /\ n \in Nat
  BY DEF Item
<1>2. /\ p \in Seq(Text \cup {None}) /\ DOMAIN p = 1 .. (2 + n)
      /\ p[1] = item.input_text /\ p[2] = item.content
      /\ \A k \in 3 .. (2 + n) : k - 2 \in DOMAIN item.parts /\ p[k] = item.parts[k - 2]
      /\ \A k \in DOMAIN item.parts : k + 2 \in 3 .. (2 + n) /\ p[k + 2] = item.parts[k]
  BY <1>1 DEF Pieces
<1>3. Texts(item) = {k \in 1 .. (2 + n) : p[k] # None /\ (k <= 2 \/ p[k] # << >>)}
  BY <1>2 DEF Texts
<1> HIDE DEF p
<1>4. ASSUME NEW k \in Texts(item)
      PROVE  /\ p[k] \in Text
             /\ p[k] # << >> => p[k] \in Given(item)
             /\ p[k] = << >> => << >> \in {item.input_text, item.content}
  <2>1. k \in 1 .. (2 + n) /\ p[k] # None /\ p[k] \in Text
    BY <1>2, <1>3
  <2>2. CASE k \in {1, 2}
    BY <1>2, <2>1, <2>2 DEF Given, Spoken
  <2>3. CASE k \notin {1, 2}
    <3>1. k \in 3 .. (2 + n) /\ p[k] # << >>
      BY <1>1, <1>3, <2>1, <2>3
    <3> QED
      BY <1>2, <2>1, <3>1 DEF Given, Spoken
  <2> QED
    BY <2>1, <2>2, <2>3
<1>5. ASSUME NEW t \in Given(item) PROVE Texts(item) # {}
  <2>1. t # None /\ t # << >>
    BY DEF Given
  <2>2. CASE t = item.input_text
    <3>1. 1 \in Texts(item)
      BY <1>1, <1>2, <1>3, <2>1, <2>2
    <3> QED
      BY <3>1
  <2>3. CASE t = item.content
    <3>1. 2 \in Texts(item)
      BY <1>1, <1>2, <1>3, <2>1, <2>3
    <3> QED
      BY <3>1
  <2>4. CASE \E k \in DOMAIN item.parts : t = item.parts[k]
    <3>1. PICK k \in DOMAIN item.parts : t = item.parts[k]
      BY <2>4
    <3>2. k + 2 \in 3 .. (2 + n) /\ p[k + 2] = t
      BY <1>2, <3>1
    <3>3. k + 2 \in Texts(item)
      BY <1>1, <1>3, <2>1, <3>2
    <3> QED
      BY <3>3
  <2> QED
    BY <2>1, <2>2, <2>3, <2>4 DEF Given, Spoken
<1>6. Texts(item) \in SUBSET Nat
  BY <1>1, <1>3
<1> QED
  BY <1>4, <1>5, <1>6 DEF PiecesAndTexts, p

\* The reply of the Responses API quotes the newest item with a text.
LEMMA ResponseReply ==
  ASSUME NEW input \in Inputs
  PROVE  /\ ResponseQuote(input) \in Text
         /\ QuotesNewestItem(input, Reply(ResponseQuote(input)))
<1> DEFINE speaking == {i \in DOMAIN input : Texts(input[i]) # {}}
           item == input[Newest(speaking)]
           q == ResponseQuote(input)
<1>1. input \in Seq(Item) /\ << >> \in Text
  BY BodiesAssumption DEF Text
<1>2. CASE speaking = {}
  <2>1. q = << >>
    BY <1>2 DEF ResponseQuote
  <2>2. \A j \in DOMAIN input : Given(input[j]) = {}
    <3>1. \A j \in DOMAIN input : Texts(input[j]) = {}
      BY <1>2
    <3>2. \A j \in DOMAIN input : PiecesAndTexts(input[j])
      BY <1>1, ItemPieces
    <3> QED
      BY <3>1, <3>2 DEF PiecesAndTexts
  <2>3. Reply(q) = Hello
    BY <2>1 DEF Reply
  <2> QED
    BY <1>1, <2>1, <2>2, <2>3 DEF QuotesNewestItem
<1>3. CASE speaking # {}
  <2>1. Newest(speaking) \in speaking /\ \A j \in speaking : j <= Newest(speaking)
    <3>1. Len(input) \in Nat /\ speaking \in SUBSET (1 .. Len(input))
      BY <1>1
    <3> HIDE DEF speaking
    <3> QED
      BY <1>3, <3>1, NewestIsOne
  <2>2. PICK i \in DOMAIN input : i = Newest(speaking)
    BY <2>1
  <2>3. \A j \in DOMAIN input : j > i => Texts(input[j]) = {}
    <3>1. \A j \in DOMAIN input : j \in Int
      BY <1>1
    <3> QED
      BY <2>1, <2>2, <3>1
  <2>4. item = input[i] /\ Texts(item) # {}
    BY <2>1, <2>2
  <2>5. \A j \in DOMAIN input : PiecesAndTexts(input[j])
    BY <1>1, ItemPieces
  <2>6. \A j \in DOMAIN input : j > i => Given(input[j]) = {}
    BY <2>3, <2>5 DEF PiecesAndTexts
  <2>7. q = Pieces(item)[Oldest(Texts(item))]
    BY <1>3 DEF ResponseQuote
  <2>8. PICK k \in Texts(item) : k = Oldest(Texts(item))
    BY <2>4, <2>5, OldestIsOne DEF PiecesAndTexts
  <2>9. /\ q \in Text
        /\ q # << >> => q \in Given(input[i])
        /\ q = << >> => << >> \in {input[i].input_text, input[i].content}
    BY <2>4, <2>5, <2>7, <2>8 DEF PiecesAndTexts
  <2>10. CASE q = << >>
    <3>1. Reply(q) = Hello
      BY <2>10 DEF Reply
    <3>2. << >> \in {input[i].input_text, input[i].content}
      BY <2>9, <2>10
    <3> HIDE DEF q
    <3>3. QuotesNewestItem(input, Reply(q))
      BY <2>6, <3>1, <3>2 DEF QuotesNewestItem
    <3> QED
      BY <2>9, <3>3 DEF q
  <2>11. CASE q # << >>
    <3>1. Reply(q) = Echoing \o q /\ q \in Given(input[i])
      BY <2>9, <2>11 DEF Reply
    <3> HIDE DEF q
    <3>2. QuotesNewestItem(input, Reply(q))
      BY <2>6, <3>1 DEF QuotesNewestItem
    <3> QED
      BY <2>9, <3>2 DEF q
  <2> QED
    BY <2>10, <2>11
<1> QED
  BY <1>2, <1>3

\* A text is an answer.
LEMMA TextsAreAnswers == Text \subseteq Answer
<1> SUFFICES ASSUME NEW t \in Text PROVE t \in Answer
  OBVIOUS
<1> QED
  BY DEF Text, Answer

\* The texts of replies.
LEMMA Replies ==
  /\ \A m \in Chats : /\ Reply(ChatQuote(m)) \in Answer
                      /\ QuotesNewestMessage(m, Reply(ChatQuote(m)))
  /\ \A i \in Inputs : /\ Reply(ResponseQuote(i)) \in Answer
                       /\ QuotesNewestItem(i, Reply(ResponseQuote(i)))
  /\ \A p \in Prompts : LegacyReply(p) \in Answer
<1>1. \A q \in Text : Reply(q) \in Text
  BY TextsAssumption DEF Reply, Text
<1>2. ASSUME NEW p \in Prompts PROVE LegacyReply(p) \in Text
  <2>1. p \in Text
    BY BodiesAssumption
  <2>2. Shorter(PromptLength, Len(p)) \in 0 .. Len(p)
    BY <2>1, SizesAssumption DEF Shorter, Text
  <2>3. PICK n \in 0 .. Len(p) : n = Shorter(PromptLength, Len(p))
    BY <2>2
  <2>4. SubSeq(p, 1, n) \in Text
    BY <2>1, <2>3 DEF Text
  <2> QED
    BY <2>3, <2>4, TextsAssumption DEF LegacyReply, Text
<1> QED
  BY <1>1, <1>2, ChatReply, ResponseReply, TextsAreAnswers

\* A word ends where it begins, or later.
LEMMA WordsEnd ==
  ASSUME NEW text \in Answer, NEW begin \in 0 .. Len(text)
  PROVE  WordEnd(text, begin) \in begin .. Len(text)
<1> DEFINE S == {j \in begin .. Len(text) : j = Len(text) \/ text[j + 1] = Space}
<1>1. Len(text) \in Nat
  BY DEF Answer
<1>2. Len(text) \in S /\ S \in SUBSET Nat
  BY <1>1
<1>3. Oldest(S) \in S
  <2> HIDE DEF S
  <2> QED
    BY <1>2, OldestIsOne
<1> QED
  BY <1>3 DEF WordEnd

\* The beginnings of an answer.
LEMMA Beginnings ==
  ASSUME NEW a \in Answer
  PROVE  /\ Len(a) \in Nat
         /\ SubSeq(a, 1, 0) = << >>
         /\ SubSeq(a, 1, Len(a)) = a
         /\ \A m, n \in 0 .. Len(a) :
              m <= n => /\ SubSeq(a, 1, m) \o SubSeq(a, m + 1, n) = SubSeq(a, 1, n)
                        /\ SubSeq(a, 1, n) \in Answer
<1>1. a \in Seq(Character \cup Seq(HashWord)) /\ Len(a) \in Nat
  BY DEF Answer
<1>2. SubSeq(a, 1, 0) = << >> /\ SubSeq(a, 1, Len(a)) = a
  BY <1>1, SubSeqFull, SubSeqEmpty
<1>3. ASSUME NEW m \in 0 .. Len(a), NEW n \in 0 .. Len(a), m <= n
      PROVE  /\ SubSeq(a, 1, m) \o SubSeq(a, m + 1, n) = SubSeq(a, 1, n)
             /\ SubSeq(a, 1, n) \in Answer
  <2>1. SubSeq(a, 1, n) \in Answer
    BY <1>1, <1>3 DEF Answer
  <2>2. SubSeq(a, 1, m) \o SubSeq(a, m + 1, n) = SubSeq(a, 1, n)
    BY <1>1, <1>3, ConcatAdjacentSubSeq
  <2> QED
    BY <2>1, <2>2
<1> QED
  BY <1>1, <1>2, <1>3

---------------------------------------------------------------------------
(* What a step leaves alone. *)

\* Another worker's request stays in order while this one writes only its own row
\* and what its own client has.
LEMMA OthersStay ==
  ASSUME TypeOK, NEW w \in Worker, NEW v \in Worker \ {w}, InOrder(v),
         \A u \in Worker \ {w} : frames'[u] = frames[u],
         \A r \in RequestId :
           r # frames[w].id /\ requests[r] # None =>
             requests'[r] = requests[r] /\ clients'[r] = clients[r],
         frames[v].id # None =>
           frames[w].id # frames[v].id /\ frames'[w].id # frames[v].id
  PROVE  InOrder(v)'
<1>1. frames'[v] = frames[v]
  OBVIOUS
<1>2. None \notin RequestId
  BY NoneAssumption
<1>3. frames[v].id \in RequestId /\ requests[frames[v].id] # None =>
        /\ requests'[frames[v].id] = requests[frames[v].id]
        /\ clients'[frames[v].id] = clients[frames[v].id]
  BY <1>2
<1> QED
  BY <1>1, <1>2, <1>3 DEF InOrder, Embedding, TextToEmbed

\* A worker's id is its own.
LEMMA IdsDiffer ==
  ASSUME TypeOK, \A u \in Worker : InOrder(u), NEW w \in Worker, NEW v \in Worker \ {w},
         frames[v].id # None
  PROVE  frames[w].id # frames[v].id
<1>1. frames[v].at \in Recording \cup Streaming
  <2>1. frames[v].at \in Place \cup {None}
    BY DEF TypeOK, Frame
  <2>2. frames[v].at \notin Beginning \cup {None}
    BY DEF InOrder
  <2> QED
    BY <2>1, <2>2 DEF Place
<1>2. \A u \in Worker \ {v} : frames[u].id # frames[v].id
  BY <1>1 DEF InOrder
<1> QED
  BY <1>2

\* The tables, and what clients have, decide on the answers.
LEMMA TablesStay ==
  ASSUME AnswersInv, requests' = requests,
         \A r \in RequestId : clients'[r] # None => requests[r] # None
  PROVE  ClientsHaveRows' /\ AnswersQuoteTheNewest' /\ EmbeddingsAreWhole'
<1>1. ClientsHaveRows'
  BY DEF ClientsHaveRows
<1>2. AnswersQuoteTheNewest'
  BY DEF AnswersInv, AnswersQuoteTheNewest, Quotes
<1>3. EmbeddingsAreWhole'
  BY DEF AnswersInv, EmbeddingsAreWhole, Embeds, Vector
<1> QED
  BY <1>1, <1>2, <1>3

\* The log rows are those of the same requests as before, unless one is appended.
LEMMA LogsStay ==
  ASSUME AnswersInv, requests' = requests, logs' = logs,
         \A r \in RequestId :
           clients'[r] # None =>
             clients[r] # None
               \/ \E u \in Worker : frames[u].at = "respond" /\ frames[u].id = r,
         \A u \in Worker : frames'[u] = frames[u] \/ frames'[u].at \notin Recording
  PROVE  \A k \in Kind : LogsFit(k)'
<1> TAKE k \in Kind
<1>1. Rows(k)' = Rows(k)
  BY DEF Rows
<1>2. PICK logged \in SUBSET Rows(k) :
        /\ logs[k] = Cardinality(logged)
        /\ Answered(k) \subseteq logged
        /\ \A w \in Worker :
             /\ frames[w].at = "append_log" => frames[w].id \notin logged
             /\ frames[w].at = "respond" /\ frames[w].kind = k => frames[w].id \in logged
  BY DEF AnswersInv, LogsFit
<1>3. Answered(k)' \subseteq logged
  <2> SUFFICES ASSUME NEW r \in Rows(k), clients'[r] # None PROVE r \in logged
    BY <1>1 DEF Answered
  <2>1. CASE clients[r] # None
    BY <1>2, <2>1 DEF Answered
  <2>2. CASE \E u \in Worker : frames[u].at = "respond" /\ frames[u].id = r
    <3>1. PICK u \in Worker : frames[u].at = "respond" /\ frames[u].id = r
      BY <2>2
    <3>2. frames[u].kind = k
      BY <3>1 DEF AnswersInv, InOrder, Rows, Recording
    <3> QED
      BY <1>2, <3>1, <3>2
  <2> QED
    BY <2>1, <2>2 DEF Rows
<1>4. \A w \in Worker :
        /\ frames'[w].at = "append_log" => frames'[w].id \notin logged
        /\ frames'[w].at = "respond" /\ frames'[w].kind = k => frames'[w].id \in logged
  BY <1>2 DEF Recording
<1>5. IsFiniteSet(Rows(k))
  BY DEF AnswersInv, LogsFit
<1> QED
  BY <1>1, <1>2, <1>3, <1>4, <1>5 DEF LogsFit

\* A step of one worker that touches nothing else.
LEMMA FrameStep ==
  ASSUME AnswersInv, NEW w \in Worker, NEW f \in Frame, Continue(w, f),
         requests' = requests, logs' = logs, clients' = clients,
         f.id \in {None, frames[w].id}, f.at \notin Recording,
         InOrder(w)'
  PROVE  AnswersInv'
<1>1. TypeOK /\ \A u \in Worker : InOrder(u)
  BY DEF AnswersInv
<1>2. /\ frames' \in [Worker -> Frame]
      /\ frames'[w] = f
      /\ \A u \in Worker \ {w} : frames'[u] = frames[u]
  BY <1>1 DEF TypeOK, Continue
<1>3. TypeOK'
  BY <1>1, <1>2 DEF TypeOK
<1>4. ASSUME NEW v \in Worker PROVE InOrder(v)'
  <2>1. CASE v = w
    BY <2>1
  <2>2. CASE v # w
    <3>1. frames[v].id # None => frames[w].id # frames[v].id
      BY <1>1, <2>2, IdsDiffer
    <3>2. frames[v].id # None => frames'[w].id # frames[v].id
      BY <1>2, <3>1
    <3> QED
      BY <1>1, <1>2, <2>2, <3>1, <3>2, OthersStay
  <2> QED
    BY <2>1, <2>2
<1>5. ClientsHaveRows' /\ AnswersQuoteTheNewest' /\ EmbeddingsAreWhole'
  BY TablesStay DEF AnswersInv, ClientsHaveRows
<1>6. \A k \in Kind : LogsFit(k)'
  BY <1>2, LogsStay
<1> QED
  BY <1>3, <1>4, <1>5, <1>6 DEF AnswersInv

---------------------------------------------------------------------------
(* A request begins. *)

\* A place is not None.
LEMMA PlacesAreSomewhere ==
  \A at \in Place : at # None
  BY NoneAssumption

\* The frame of a worker without a request.
LEMMA IdleIsFrame ==
  /\ Idle \in Frame
  /\ Idle.id = None /\ Idle.sent = 0 /\ Idle.answer = << >> /\ Idle.vector = << >>
  /\ Idle.block = 0 /\ Idle.word = 0 /\ Idle.at = None
  BY SizesAssumption DEF Idle, Frame, Answer

\* The invariant holds at the start.
LEMMA AnswersInit == Init => AnswersInv
<1> SUFFICES ASSUME Init PROVE AnswersInv
  OBVIOUS
<1>1. Idle \in Frame
  BY IdleIsFrame
<1>2. TypeOK
  BY <1>1 DEF Init, TypeOK
<1>3. \A w \in Worker : InOrder(w)
  BY NoneAssumption DEF Init, InOrder, Idle, Place, Beginning, Recording, Streaming
<1>4. ASSUME NEW k \in Kind PROVE LogsFit(k)
  <2>1. Rows(k) = {} /\ Answered(k) = {}
    BY DEF Init, Rows, Answered
  <2>2. logs[k] = Cardinality({}) /\ IsFiniteSet({})
    BY FS_EmptySet DEF Init
  <2>3. \A w \in Worker : frames[w].at # "append_log" /\ frames[w].at # "respond"
    BY IdleIsFrame, PlacesAreSomewhere DEF Init, Place, Recording
  <2> QED
    BY <2>1, <2>2, <2>3 DEF LogsFit
<1>6. ClientsHaveRows /\ AnswersQuoteTheNewest /\ EmbeddingsAreWhole
  BY DEF Init, ClientsHaveRows, AnswersQuoteTheNewest, EmbeddingsAreWhole
<1> QED
  BY <1>2, <1>3, <1>4, <1>6 DEF AnswersInv

\* A request whose answer is there before its first storage call.
LEMMA AcceptStep ==
  ASSUME AnswersInv, NEW w \in Worker, NEW kind \in Kind, NEW body \in Body, NEW answer \in Answer,
         Quotes(kind, body, answer), Embeds(kind, body, answer),
         Accept(w, [Idle EXCEPT !.at = "create_request", !.kind = kind, !.request = body,
                                !.answer = answer])
  PROVE  AnswersInv'
<1> DEFINE f == [Idle EXCEPT !.at = "create_request", !.kind = kind, !.request = body,
                             !.answer = answer]
<1>1. /\ f.at = "create_request" /\ f.kind = kind /\ f.request = body /\ f.answer = answer
      /\ f.id = None /\ f.sent = 0
      /\ f \in Frame
  <2>1. "create_request" \in Place
    BY DEF Place, Beginning
  <2> QED
    BY <2>1, IdleIsFrame DEF Frame
<1>2. Continue(w, f) /\ requests' = requests /\ logs' = logs /\ clients' = clients
  BY DEF Accept
<1> HIDE DEF f
<1>3. frames'[w] = f
  BY <1>2 DEF AnswersInv, TypeOK, Continue
<1>4. InOrder(w)'
  <2>1. Quotes(f.kind, f.request, f.answer) /\ Embeds(f.kind, f.request, f.answer)
    BY <1>1
  <2>2. Quotes(f.kind, f.request, f.answer)' /\ Embeds(f.kind, f.request, f.answer)'
    BY <2>1 DEF Quotes, Embeds, Vector
  <2> QED
    BY <1>1, <1>3, <2>1, <2>2 DEF InOrder, Beginning, Recording, Streaming
<1>5. f.at \notin Recording
  BY <1>1 DEF Recording
<1> QED
  BY <1>1, <1>2, <1>4, <1>5, FrameStep

\* A chat begins with a reply that quotes its newest user message.
LEMMA BeginChatStep ==
  ASSUME AnswersInv, NEW w \in Worker, BeginChat(w)
  PROVE  AnswersInv'
<1>1. PICK messages \in Chats, stream \in BOOLEAN :
        Accept(w, [Idle EXCEPT
          !.at = "create_request",
          !.kind = IF stream THEN "chat.completion.stream" ELSE "chat.completion",
          !.request = [messages |-> messages],
          !.answer = Reply(ChatQuote(messages))])
  BY DEF BeginChat
<1>2. PICK kind \in Kind : kind = IF stream THEN "chat.completion.stream" ELSE "chat.completion"
  <2>1. CASE stream
    BY <2>1 DEF Kind
  <2>2. CASE ~stream
    BY <2>2 DEF Kind
  <2> QED
    BY <2>1, <2>2
<1>3. PICK body \in Body : body = [messages |-> messages] /\ body.messages = messages
  <2>1. [messages |-> messages] \in Body /\ [messages |-> messages].messages = messages
    BY DEF Body
  <2> QED
    BY <2>1
<1>4. PICK answer \in Answer :
        answer = Reply(ChatQuote(messages)) /\ QuotesNewestMessage(messages, answer)
  BY Replies
<1>5. kind \in {"chat.completion", "chat.completion.stream"}
  BY <1>2
<1>6. Quotes(kind, body, answer) /\ Embeds(kind, body, answer)
  BY <1>3, <1>4, <1>5 DEF Quotes, Embeds
<1>7. Accept(w, [Idle EXCEPT !.at = "create_request", !.kind = kind, !.request = body,
                             !.answer = answer])
  BY <1>1, <1>2, <1>3, <1>4
<1> QED
  BY <1>6, <1>7, AcceptStep

\* A legacy completion begins.
LEMMA BeginCompletionStep ==
  ASSUME AnswersInv, NEW w \in Worker, BeginCompletion(w)
  PROVE  AnswersInv'
<1>1. PICK prompt \in Prompts :
        Accept(w, [Idle EXCEPT
          !.at = "create_request", !.kind = "completion", !.request = [prompt |-> prompt],
          !.answer = LegacyReply(prompt)])
  BY DEF BeginCompletion
<1>2. PICK kind \in Kind : kind = "completion"
  BY DEF Kind
<1>3. PICK body \in Body : body = [prompt |-> prompt]
  BY DEF Body
<1>4. PICK answer \in Answer : answer = LegacyReply(prompt)
  BY Replies
<1>5. Quotes(kind, body, answer) /\ Embeds(kind, body, answer)
  BY <1>2 DEF Quotes, Embeds
<1>6. Accept(w, [Idle EXCEPT !.at = "create_request", !.kind = kind, !.request = body,
                             !.answer = answer])
  BY <1>1, <1>2, <1>3, <1>4
<1> QED
  BY <1>5, <1>6, AcceptStep

\* A response begins with a reply that quotes its newest item.
LEMMA BeginResponseStep ==
  ASSUME AnswersInv, NEW w \in Worker, BeginResponse(w)
  PROVE  AnswersInv'
<1>1. PICK input \in Inputs, stream \in BOOLEAN :
        Accept(w, [Idle EXCEPT
          !.at = "create_request",
          !.kind = IF stream THEN "response.stream" ELSE "response",
          !.request = [input |-> input],
          !.answer = Reply(ResponseQuote(input))])
  BY DEF BeginResponse
<1>2. PICK kind \in Kind : kind = IF stream THEN "response.stream" ELSE "response"
  <2>1. CASE stream
    BY <2>1 DEF Kind
  <2>2. CASE ~stream
    BY <2>2 DEF Kind
  <2> QED
    BY <2>1, <2>2
<1>3. PICK body \in Body : body = [input |-> input] /\ body.input = input
  <2>1. [input |-> input] \in Body /\ [input |-> input].input = input
    BY DEF Body
  <2> QED
    BY <2>1
<1>4. PICK answer \in Answer :
        answer = Reply(ResponseQuote(input)) /\ QuotesNewestItem(input, answer)
  BY Replies
<1>5. kind \in {"response", "response.stream"}
  BY <1>2
<1>6. Quotes(kind, body, answer) /\ Embeds(kind, body, answer)
  BY <1>3, <1>4, <1>5 DEF Quotes, Embeds
<1>7. Accept(w, [Idle EXCEPT !.at = "create_request", !.kind = kind, !.request = body,
                             !.answer = answer])
  BY <1>1, <1>2, <1>3, <1>4
<1> QED
  BY <1>6, <1>7, AcceptStep

---------------------------------------------------------------------------
(* The embedding loop. *)

\* A step of the loop: the frame changes, and nothing else.
LEMMA LoopStep ==
  ASSUME AnswersInv, NEW w \in Worker, NEW f \in Frame, f.at = "embed", f.id = None, f.sent = 0,
         Embedding(f), Continue(w, f), UNCHANGED << requests, logs, clients >>
  PROVE  AnswersInv'
<1>1. frames'[w] = f
  BY DEF AnswersInv, TypeOK, Continue
<1>2. Embedding(f)'
  BY DEF Embedding, Vector, TextToEmbed
<1>3. InOrder(w)'
  BY <1>1, <1>2 DEF InOrder, Beginning, Recording, Streaming
<1>4. f.at \notin Recording
  BY DEF Recording
<1> QED
  BY <1>3, <1>4, FrameStep

\* Embeddings begin without a vector.
LEMMA BeginEmbeddingsStep ==
  ASSUME AnswersInv, NEW w \in Worker, BeginEmbeddings(w)
  PROVE  AnswersInv'
<1>1. PICK items \in Batches :
        /\ items # << >>
        /\ Accept(w, [Idle EXCEPT !.at = "embed", !.kind = "embeddings",
                                  !.request = [texts |-> items]])
  BY DEF BeginEmbeddings
<1> DEFINE f == [Idle EXCEPT !.at = "embed", !.kind = "embeddings", !.request = [texts |-> items]]
<1>2. items \in Seq(Text) /\ Len(items) > 0
  BY <1>1, BodiesAssumption
<1>3. /\ f.at = "embed" /\ f.kind = "embeddings" /\ f.request = [texts |-> items]
      /\ f.request.texts = items
      /\ f.answer = << >> /\ f.vector = << >> /\ f.block = 0 /\ f.word = 0
      /\ f.id = None /\ f.sent = 0
      /\ f \in Frame
  <2>1. "embed" \in Place /\ "embeddings" \in Kind /\ [texts |-> items] \in Body
    BY DEF Place, Beginning, Kind, Body
  <2> QED
    BY <2>1, IdleIsFrame DEF Frame
<1>4. Continue(w, f) /\ UNCHANGED << requests, logs, clients >>
  BY <1>1 DEF Accept
<1> HIDE DEF f
<1>5. Embedding(f)
  <2>1. Len(f.answer) = 0 /\ Len(f.vector) = 0 /\ 0 * BlockWords + 0 = 0
    BY <1>3, SizesAssumption
  <2> QED
    BY <1>2, <1>3, <2>1, SizesAssumption DEF Embedding
<1> QED
  BY <1>3, <1>4, <1>5, LoopStep

\* In the loop.
LEMMA InLoop ==
  ASSUME AnswersInv, NEW w \in Worker, frames[w].at = "embed"
  PROVE  /\ frames[w] \in Frame /\ Embedding(frames[w])
         /\ frames[w].id = None /\ frames[w].sent = 0
         /\ frames[w].request.texts \in Seq(Text)
         /\ TextToEmbed(frames[w]) \in Text
<1>1. frames[w] \in Frame /\ InOrder(w)
  BY DEF AnswersInv, TypeOK
<1>2. Embedding(frames[w]) /\ frames[w].id = None /\ frames[w].sent = 0
  BY <1>1 DEF InOrder, Beginning
<1>3. frames[w].request.texts \in Batches
  BY <1>2 DEF Embedding
<1>4. frames[w].request.texts \in Seq(Text)
  BY <1>3, BodiesAssumption
<1>5. Len(frames[w].answer) \in Nat /\ Len(frames[w].answer) < Len(frames[w].request.texts)
  BY <1>1, <1>2 DEF Frame, Answer, Embedding
<1>6. TextToEmbed(frames[w]) \in Text
  BY <1>4, <1>5 DEF TextToEmbed
<1> QED
  BY <1>1, <1>2, <1>4, <1>6

\* One word more: the vector has one float more of the block that it is in.
LEMMA EmbedWordStep ==
  ASSUME AnswersInv, NEW w \in Worker, EmbedWord(w)
  PROVE  AnswersInv'
<1> DEFINE e == frames[w]
           x == << TextToEmbed(e), e.block, e.word >>
           f == [e EXCEPT !.vector = Append(@, x), !.word = @ + 1]
<1>1. /\ e.at = "embed" /\ Len(e.vector) < Dims /\ e.word < BlockWords
      /\ Continue(w, f) /\ UNCHANGED << requests, logs, clients >>
  BY DEF EmbedWord
<1>2. /\ e \in Frame /\ Embedding(e) /\ e.id = None /\ e.sent = 0 /\ TextToEmbed(e) \in Text
  BY <1>1, InLoop
<1>3. e.block \in Nat /\ e.word \in 0 .. BlockWords /\ e.vector \in Seq(HashWord)
  BY <1>2 DEF Frame
<1>4. x \in HashWord
  BY <1>2, <1>3, SizesAssumption DEF HashWord
<1>5. PICK t : t = TextToEmbed(e)
  OBVIOUS
<1>6. PICK y \in HashWord : y = x
  BY <1>4
<1>7. /\ f.at = e.at /\ f.kind = e.kind /\ f.request = e.request /\ f.answer = e.answer
      /\ f.id = e.id /\ f.sent = e.sent /\ f.block = e.block
      /\ f.vector = Append(e.vector, y) /\ f.word = e.word + 1
      /\ f \in Frame
  <2>1. Append(e.vector, y) \in Seq(HashWord)
    BY <1>3
  <2>2. e.word + 1 \in 0 .. BlockWords
    BY <1>1, <1>3, SizesAssumption
  <2>3. f = [e EXCEPT !.vector = Append(e.vector, y), !.word = e.word + 1]
    BY <1>6
  <2> HIDE DEF f, e
  <2> QED
    BY <1>2, <2>1, <2>2, <2>3 DEF Frame
<1>8. TextToEmbed(f) = t
  BY <1>5, <1>7 DEF TextToEmbed
<1>9. Len(e.vector) = e.block * BlockWords + e.word
  BY <1>2 DEF Embedding
<1>10. /\ Len(e.vector) \div BlockWords = e.block
       /\ Len(e.vector) % BlockWords = e.word
  <2>1. e.word \in 0 .. BlockWords - 1 /\ BlockWords \in Nat \ {0} /\ e.block \in Nat
    BY <1>1, <1>3, SizesAssumption
  <2> HIDE DEF e
  <2> QED
    BY <1>9, <2>1, Quotient
<1> HIDE DEF f, e, x
<1>11. y = << t, Len(e.vector) \div BlockWords, Len(e.vector) % BlockWords >>
  BY <1>5, <1>6, <1>10 DEF x
<1>12. ASSUME NEW k \in 1 .. Len(f.vector)
       PROVE  f.vector[k] = << t, (k - 1) \div BlockWords, (k - 1) % BlockWords >>
  <2>1. CASE k = Len(e.vector) + 1
    <3>1. f.vector[k] = y
      BY <1>3, <1>7, <2>1
    <3>2. k - 1 = Len(e.vector)
      BY <1>3, <2>1
    <3> QED
      BY <1>11, <3>1, <3>2
  <2>2. CASE k # Len(e.vector) + 1
    <3>1. k \in 1 .. Len(e.vector) /\ f.vector[k] = e.vector[k]
      BY <1>3, <1>7, <2>2
    <3> QED
      BY <1>2, <1>5, <3>1 DEF Embedding
  <2> QED
    BY <2>1, <2>2
<1>13. /\ Len(f.vector) <= Dims
       /\ Len(f.vector) = f.block * BlockWords + f.word
  <2>1. Len(f.vector) = Len(e.vector) + 1
    BY <1>3, <1>7
  <2>2. e.block * BlockWords \in Int
    BY <1>3, SizesAssumption
  <2> QED
    BY <1>1, <1>3, <1>7, <1>9, <2>1, <2>2, SizesAssumption
<1>14. Embedding(f)
  BY <1>2, <1>7, <1>8, <1>12, <1>13 DEF Embedding
<1> QED
  BY <1>1, <1>2, <1>7, <1>14, LoopStep

\* The next block: the vector has all words of the blocks before it.
LEMMA EmbedBlockStep ==
  ASSUME AnswersInv, NEW w \in Worker, EmbedBlock(w)
  PROVE  AnswersInv'
<1> DEFINE e == frames[w]
           f == [e EXCEPT !.block = @ + 1, !.word = 0]
<1>1. /\ e.at = "embed" /\ e.word = BlockWords
      /\ Continue(w, f) /\ UNCHANGED << requests, logs, clients >>
  BY DEF EmbedBlock
<1>2. e \in Frame /\ Embedding(e) /\ e.id = None /\ e.sent = 0
  BY <1>1, InLoop
<1>3. e.block \in Nat /\ BlockWords \in Nat
  BY <1>2, SizesAssumption DEF Frame
<1>4. /\ f.at = e.at /\ f.kind = e.kind /\ f.request = e.request /\ f.answer = e.answer
      /\ f.id = e.id /\ f.sent = e.sent /\ f.vector = e.vector
      /\ f.block = e.block + 1 /\ f.word = 0
      /\ f \in Frame
  <2>1. e.block + 1 \in Nat /\ 0 \in 0 .. BlockWords
    BY <1>3
  <2> HIDE DEF e
  <2> QED
    BY <1>2, <2>1 DEF Frame
<1> HIDE DEF f, e
<1>5. TextToEmbed(f) = TextToEmbed(e)
  BY <1>4 DEF TextToEmbed
<1>6. (e.block + 1) * BlockWords + 0 = e.block * BlockWords + BlockWords
  BY <1>3
<1>7. Embedding(f)
  BY <1>1, <1>2, <1>4, <1>5, <1>6 DEF Embedding
<1> QED
  BY <1>1, <1>2, <1>4, <1>7, LoopStep

\* A vector that is full is that of its text.
LEMMA EmbedNextStep ==
  ASSUME AnswersInv, NEW w \in Worker, EmbedNext(w)
  PROVE  AnswersInv'
<1> DEFINE e == frames[w]
           a == Append(e.answer, e.vector)
           to == IF Len(a) = Len(e.request.texts) THEN "create_request" ELSE "embed"
           f == [e EXCEPT !.answer = a, !.vector = << >>, !.block = 0, !.word = 0, !.at = to]
<1>1. /\ e.at = "embed" /\ Len(e.vector) >= Dims
      /\ Continue(w, f) /\ UNCHANGED << requests, logs, clients >>
  BY DEF EmbedNext
<1>2. /\ e \in Frame /\ Embedding(e) /\ e.id = None /\ e.sent = 0
      /\ e.request.texts \in Seq(Text)
  BY <1>1, InLoop
<1>3. e.vector \in Seq(HashWord) /\ e.answer \in Answer /\ Dims \in Nat
  BY <1>2, SizesAssumption DEF Frame
<1>4. /\ a \in Answer /\ Len(a) = Len(e.answer) + 1
      /\ \A n \in 1 .. Len(e.answer) : a[n] = e.answer[n]
      /\ a[Len(e.answer) + 1] = e.vector
  <2> HIDE DEF e
  <2> QED
    BY <1>3 DEF Answer
<1>5. PICK answer \in Answer : answer = a
  BY <1>4
<1>6. PICK texts \in Seq(Text) : texts = e.request.texts
  BY <1>2
<1>7. /\ f.at = to /\ f.kind = e.kind /\ f.request = e.request /\ f.answer = answer
      /\ f.id = e.id /\ f.sent = e.sent /\ f.vector = << >> /\ f.block = 0 /\ f.word = 0
      /\ f \in Frame
  <2>1. to \in Place /\ 0 \in 0 .. BlockWords /\ 0 \in Nat
    BY SizesAssumption DEF Place, Beginning
  <2>2. PICK place \in Place : place = to
    BY <2>1
  <2>3. f = [e EXCEPT !.answer = answer, !.vector = << >>, !.block = 0, !.word = 0, !.at = place]
    BY <1>5, <2>2
  <2>4. << >> \in Seq(HashWord)
    OBVIOUS
  <2> HIDE DEF e, a, to, f
  <2> QED
    BY <1>2, <2>1, <2>2, <2>3, <2>4 DEF Frame
<1>8. e.vector = Vector(TextToEmbed(e))
  <2>1. Len(e.vector) = Dims
    BY <1>1, <1>2, <1>3 DEF Embedding
  <2>2. DOMAIN e.vector = 1 .. Dims /\ e.vector = [k \in 1 .. Dims |-> e.vector[k]]
    BY <1>3, <2>1
  <2>3. \A k \in 1 .. Dims :
          e.vector[k] = << TextToEmbed(e), (k - 1) \div BlockWords, (k - 1) % BlockWords >>
    BY <1>2, <2>1 DEF Embedding
  <2> QED
    BY <2>2, <2>3 DEF Vector
<1> HIDE DEF f, e, a
<1>9. /\ Len(answer) <= Len(texts)
      /\ \A n \in 1 .. Len(answer) : answer[n] = Vector(texts[n])
      /\ Len(answer) \in Nat /\ Len(texts) \in Nat
  <2>1. Len(e.answer) \in Nat /\ Len(texts) \in Nat
    BY <1>3 DEF Answer
  <2>2. Len(e.answer) < Len(texts)
    BY <1>2, <1>6 DEF Embedding
  <2>3. ASSUME NEW n \in 1 .. Len(answer) PROVE answer[n] = Vector(texts[n])
    <3>1. CASE n = Len(e.answer) + 1
      BY <1>4, <1>5, <1>6, <1>8, <3>1 DEF TextToEmbed
    <3>2. CASE n # Len(e.answer) + 1
      <4>1. n \in 1 .. Len(e.answer)
        BY <1>4, <1>5, <2>1, <3>2
      <4> QED
        BY <1>2, <1>4, <1>5, <1>6, <4>1 DEF Embedding
    <3> QED
      BY <3>1, <3>2
  <2> QED
    BY <1>4, <1>5, <2>1, <2>2, <2>3
<1>10. CASE Len(answer) # Len(texts)
  <2>1. f.at = "embed"
    BY <1>5, <1>6, <1>7, <1>10
  <2>2. Len(f.vector) = 0 /\ 0 * BlockWords + 0 = 0 /\ Len(f.answer) < Len(f.request.texts)
    BY <1>6, <1>7, <1>9, <1>10, SizesAssumption
  <2>3. Embedding(f)
    BY <1>2, <1>3, <1>6, <1>7, <1>9, <2>2 DEF Embedding
  <2> QED
    BY <1>1, <1>2, <1>7, <2>1, <2>3, LoopStep
<1>11. CASE Len(answer) = Len(texts)
  <2>1. f.at = "create_request"
    BY <1>5, <1>6, <1>7, <1>11
  <2>2. answer = [n \in DOMAIN texts |-> Vector(texts[n])]
    <3>1. DOMAIN texts = 1 .. Len(answer) /\ answer = [n \in 1 .. Len(answer) |-> answer[n]]
      BY <1>11 DEF Answer
    <3> QED
      BY <1>9, <3>1
  <2>3. Embeds(f.kind, f.request, f.answer)
    BY <1>6, <1>7, <2>2 DEF Embeds
  <2>4. f.kind = "embeddings" /\ f.kind \in Kind /\ f.request \in Body
    BY <1>2, <1>7 DEF Embedding, Kind, Body
  <2>5. Quotes(f.kind, f.request, f.answer)
    BY <2>4 DEF Quotes
  <2>6. PICK g \in Frame : g = f
    BY <1>7
  <2>7. frames'[w] = g /\ Continue(w, g)
    BY <1>1, <2>6 DEF AnswersInv, TypeOK, Continue
  <2>8. /\ g.at = "create_request" /\ g.kind \in Kind /\ g.request \in Body
        /\ g.id = None /\ g.sent = 0
        /\ Embeds(g.kind, g.request, g.answer) /\ Quotes(g.kind, g.request, g.answer)
    BY <1>2, <1>7, <2>1, <2>3, <2>4, <2>5, <2>6
  <2>9. Embeds(g.kind, g.request, g.answer)' /\ Quotes(g.kind, g.request, g.answer)'
    BY <2>8 DEF Embeds, Vector, Quotes
  <2>10. InOrder(w)'
    BY <2>7, <2>8, <2>9 DEF InOrder, Beginning, Recording, Streaming
  <2>11. g.at \notin Recording
    BY <2>8 DEF Recording
  <2> QED
    BY <1>1, <2>7, <2>8, <2>10, <2>11, FrameStep
<1> QED
  BY <1>10, <1>11

---------------------------------------------------------------------------
(* The rows, and the response. *)

\* A history row more, of an id that nobody has.
LEMMA PersistRequestStep ==
  ASSUME AnswersInv, NEW w \in Worker, PersistRequest(w)
  PROVE  AnswersInv'
<1> DEFINE e == frames[w]
<1>1. PICK r \in RequestId :
        /\ e.at = "create_request"
        /\ requests[r] = None
        /\ requests' = [requests EXCEPT ![r] =
             [kind |-> e.kind, request |-> e.request, response |-> e.answer]]
        /\ Continue(w, [e EXCEPT !.at = "append_log", !.id = r])
        /\ UNCHANGED << logs, clients >>
  BY DEF PersistRequest
<1> DEFINE f == [e EXCEPT !.at = "append_log", !.id = r]
<1>2. TypeOK /\ (\A u \in Worker : InOrder(u)) /\ e \in Frame
  BY DEF AnswersInv, TypeOK
<1>3. /\ e.kind \in Kind /\ e.request \in Body /\ e.answer \in Answer
      /\ Quotes(e.kind, e.request, e.answer) /\ Embeds(e.kind, e.request, e.answer)
      /\ e.id = None /\ e.sent = 0
  BY <1>1, <1>2 DEF InOrder, Beginning, Frame
<1>4. /\ f.at = "append_log" /\ f.kind = e.kind /\ f.request = e.request
      /\ f.answer = e.answer /\ f.id = r /\ f.sent = e.sent
      /\ f \in Frame
  <2>1. "append_log" \in Place
    BY DEF Place, Recording
  <2> HIDE DEF e
  <2> QED
    BY <1>2, <2>1 DEF Frame
<1>5. Continue(w, f)
  BY <1>1
<1> HIDE DEF f, e
<1>6. /\ frames' \in [Worker -> Frame] /\ frames'[w] = f
      /\ \A u \in Worker \ {w} : frames'[u] = frames[u]
  BY <1>2, <1>4, <1>5 DEF TypeOK, Continue
<1>7. PICK row \in Row : row = [kind |-> e.kind, request |-> e.request, response |-> e.answer]
  BY <1>3 DEF Row
<1>8. /\ row.kind = e.kind /\ row.request = e.request /\ row.response = e.answer
      /\ row # None
  BY <1>7, NoneAssumption
<1>9. /\ requests' \in [RequestId -> Row \cup {None}]
      /\ requests'[r] = row
      /\ \A s \in RequestId : s # r => requests'[s] = requests[s]
  BY <1>1, <1>2, <1>7 DEF TypeOK
<1>10. TypeOK'
  BY <1>1, <1>2, <1>6, <1>9 DEF TypeOK
<1>11. clients[r] = None
  BY <1>1 DEF AnswersInv, ClientsHaveRows
<1>12. ASSUME NEW v \in Worker \ {w}
       PROVE  frames[v].id # None => frames[w].id # frames[v].id /\ f.id # frames[v].id
  <2>1. ASSUME frames[v].id # None PROVE requests[frames[v].id] # None
    <3>1. frames[v].at \in Place \cup {None} /\ InOrder(v)
      BY <1>2 DEF TypeOK, Frame
    <3>2. frames[v].at \in Recording \cup Streaming
      BY <2>1, <3>1 DEF InOrder, Place
    <3> QED
      BY <3>1, <3>2 DEF InOrder
  <2> QED
    BY <1>1, <1>2, <1>4, <2>1, IdsDiffer
<1>13. InOrder(w)'
  <2>1. \A v \in Worker \ {w} : frames'[v].id # f.id
    BY <1>4, <1>6, <1>12, NoneAssumption
  <2>2. r \in RequestId /\ clients'[r] = None
    BY <1>1, <1>11
  <2>3. PICK g \in Frame : g = f
    BY <1>4
  <2>4. frames'[w] = g /\ g.at = "append_log" /\ g.id = r /\ g.sent = 0
    BY <1>3, <1>4, <1>6, <2>3
  <2>5. requests'[r] # None /\ requests'[r].kind = g.kind /\ requests'[r].response = g.answer
    BY <1>4, <1>8, <1>9, <2>3
  <2>6. \A v \in Worker \ {w} : frames'[v].id # g.id
    BY <2>1, <2>3
  <2>7. "append_log" # None
    BY NoneAssumption DEF Place, Recording
  <2> QED
    BY <2>2, <2>4, <2>5, <2>6, <2>7 DEF InOrder, Beginning, Recording, Streaming
<1>14. ASSUME NEW v \in Worker \ {w} PROVE InOrder(v)'
  <2>1. \A s \in RequestId :
          s # frames[w].id /\ requests[s] # None =>
            requests'[s] = requests[s] /\ clients'[s] = clients[s]
    BY <1>1, <1>9
  <2> QED
    BY <1>2, <1>6, <1>12, <2>1, OthersStay
<1>15. ASSUME NEW k \in Kind PROVE LogsFit(k)'
  <2>1. PICK logged \in SUBSET Rows(k) :
          /\ logs[k] = Cardinality(logged)
          /\ Answered(k) \subseteq logged
          /\ \A u \in Worker :
               /\ frames[u].at = "append_log" => frames[u].id \notin logged
               /\ frames[u].at = "respond" /\ frames[u].kind = k => frames[u].id \in logged
    BY DEF AnswersInv, LogsFit
  <2>2. Rows(k)' \in {Rows(k), Rows(k) \cup {r}}
    BY <1>1, <1>8, <1>9 DEF Rows
  <2>3. IsFiniteSet(Rows(k)')
    <3>1. IsFiniteSet(Rows(k))
      BY DEF AnswersInv, LogsFit
    <3>2. IsFiniteSet(Rows(k) \cup {r})
      BY <3>1, FS_AddElement
    <3> QED
      BY <2>2, <3>1, <3>2
  <2>4. Answered(k)' = Answered(k)
    BY <1>1, <1>9, <1>11 DEF Answered, Rows
  <2>5. r \notin logged
    BY <1>1 DEF Rows
  <2>6. ASSUME NEW u \in Worker
        PROVE  /\ frames'[u].at = "append_log" => frames'[u].id \notin logged
               /\ frames'[u].at = "respond" /\ frames'[u].kind = k => frames'[u].id \in logged
    <3>1. CASE u = w
      BY <1>4, <1>6, <2>5, <3>1
    <3>2. CASE u # w
      BY <1>6, <2>1, <3>2
    <3> QED
      BY <3>1, <3>2
  <2>7. /\ logged \in SUBSET Rows(k)'
        /\ logs'[k] = Cardinality(logged)
        /\ Answered(k)' \subseteq logged
    BY <1>1, <2>1, <2>2, <2>4
  <2> QED
    BY <2>3, <2>6, <2>7 DEF LogsFit
<1>16. ClientsHaveRows'
  BY <1>1, <1>8, <1>9 DEF AnswersInv, ClientsHaveRows
<1>17. AnswersQuoteTheNewest'
  <2>1. Quotes(row.kind, row.request, row.response)
    BY <1>3, <1>8
  <2> QED
    BY <1>9, <2>1 DEF AnswersInv, AnswersQuoteTheNewest, Quotes
<1>18. EmbeddingsAreWhole'
  <2>1. Embeds(row.kind, row.request, row.response)
    BY <1>3, <1>8
  <2>2. \A s \in RequestId : requests[s] # None =>
          Embeds(requests[s].kind, requests[s].request, requests[s].response)
    BY DEF AnswersInv, EmbeddingsAreWhole
  <2>3. ASSUME NEW s \in RequestId, requests'[s] # None
        PROVE  Embeds(requests'[s].kind, requests'[s].request, requests'[s].response)
    BY <1>9, <2>1, <2>2, <2>3
  <2> QED
    BY <2>3 DEF EmbeddingsAreWhole, Embeds, Vector
<1> QED
  BY <1>10, <1>13, <1>14, <1>15, <1>16, <1>17, <1>18 DEF AnswersInv

\* What is known of a request that has a history row.
LEMMA OnRecord ==
  ASSUME AnswersInv, NEW w \in Worker, frames[w].at \in Recording \cup Streaming
  PROVE  /\ frames[w] \in Frame /\ frames[w].answer \in Answer /\ frames[w].sent \in Nat
         /\ frames[w].id \in RequestId
         /\ requests[frames[w].id] # None
         /\ requests[frames[w].id].kind = frames[w].kind
         /\ requests[frames[w].id].response = frames[w].answer
         /\ frames[w].kind \in Kind
         /\ \A v \in Worker \ {w} : frames[v].id # frames[w].id
         /\ frames[w].at \in Recording => clients[frames[w].id] = None /\ frames[w].sent = 0
         /\ frames[w].at \in Streaming =>
              /\ clients[frames[w].id] \in Received
              /\ ~clients[frames[w].id].ended
              /\ frames[w].sent <= Len(frames[w].answer)
              /\ clients[frames[w].id].text = SubSeq(frames[w].answer, 1, frames[w].sent)
<1>1. InOrder(w) /\ frames[w] \in Frame /\ TypeOK
  BY DEF AnswersInv, TypeOK
<1>2. frames[w].answer \in Answer /\ frames[w].sent \in Nat
  BY <1>1 DEF Frame
<1>3. /\ frames[w].id \in RequestId
      /\ requests[frames[w].id] # None
      /\ requests[frames[w].id].kind = frames[w].kind
      /\ requests[frames[w].id].response = frames[w].answer
      /\ \A v \in Worker \ {w} : frames[v].id # frames[w].id
  BY <1>1 DEF InOrder
<1>4. requests[frames[w].id] \in Row
  BY <1>1, <1>3 DEF TypeOK
<1>5. frames[w].kind \in Kind
  BY <1>3, <1>4 DEF Row
<1>6. frames[w].at \in Recording => clients[frames[w].id] = None /\ frames[w].sent = 0
  BY <1>1 DEF InOrder
<1>7. frames[w].at \in Streaming =>
        /\ clients[frames[w].id] \in Received
        /\ ~clients[frames[w].id].ended
        /\ frames[w].sent <= Len(frames[w].answer)
        /\ clients[frames[w].id].text = SubSeq(frames[w].answer, 1, frames[w].sent)
  BY <1>1, <1>3 DEF InOrder, TypeOK
<1> QED
  BY <1>1, <1>2, <1>3, <1>5, <1>6, <1>7

\* A step that writes what the client of this request has, and no row.
LEMMA ClientStep ==
  ASSUME AnswersInv, NEW w \in Worker, NEW f \in Frame, Continue(w, f),
         NEW c \in Received,
         frames[w].at \in {"respond"} \cup Streaming,
         clients' = [clients EXCEPT ![frames[w].id] = c],
         requests' = requests, logs' = logs,
         f.id \in {None, frames[w].id}, f.at \notin Recording,
         InOrder(w)'
  PROVE  AnswersInv'
<1>1. TypeOK /\ \A u \in Worker : InOrder(u)
  BY DEF AnswersInv
<1>2. /\ frames' \in [Worker -> Frame]
      /\ frames'[w] = f
      /\ \A u \in Worker \ {w} : frames'[u] = frames[u]
  BY <1>1 DEF TypeOK, Continue
<1>3. /\ clients' \in [RequestId -> Received \cup {None}]
      /\ \A r \in RequestId : r # frames[w].id => clients'[r] = clients[r]
  BY <1>1 DEF TypeOK
<1>4. TypeOK'
  BY <1>1, <1>2, <1>3 DEF TypeOK
<1>5. ASSUME NEW v \in Worker \ {w} PROVE InOrder(v)'
  <2>1. frames[v].id # None => frames[w].id # frames[v].id
    BY <1>1, IdsDiffer
  <2>2. frames[v].id # None => frames'[w].id # frames[v].id
    BY <1>2, <2>1
  <2>3. \A r \in RequestId :
          r # frames[w].id /\ requests[r] # None =>
            requests'[r] = requests[r] /\ clients'[r] = clients[r]
    BY <1>3
  <2> QED
    BY <1>1, <1>2, <2>1, <2>2, <2>3, OthersStay
<1>6. /\ requests[frames[w].id] # None
      /\ frames[w].at = "respond" \/ clients[frames[w].id] # None
  BY OnRecord, NoneAssumption DEF Recording
<1>7. ClientsHaveRows' /\ AnswersQuoteTheNewest' /\ EmbeddingsAreWhole'
  <2>1. \A r \in RequestId : clients'[r] # None => requests[r] # None
    BY <1>3, <1>6 DEF AnswersInv, ClientsHaveRows
  <2> QED
    BY <2>1, TablesStay
<1>8. \A k \in Kind : LogsFit(k)'
  <2>1. \A r \in RequestId :
          clients'[r] # None =>
            clients[r] # None
              \/ \E u \in Worker : frames[u].at = "respond" /\ frames[u].id = r
    BY <1>3, <1>6
  <2>2. \A u \in Worker : frames'[u] = frames[u] \/ frames'[u].at \notin Recording
    BY <1>2
  <2> QED
    BY <2>1, <2>2, LogsStay
<1> QED
  BY <1>4, <1>5, <1>7, <1>8 DEF AnswersInv

\* A worker that has become idle is in order.
LEMMA IdleInOrder ==
  ASSUME NEW w \in Worker, frames'[w] = Idle
  PROVE  InOrder(w)'
<1>1. Idle.at = None /\ Idle.id = None /\ Idle.sent = 0
  BY IdleIsFrame
<1>2. None \notin Place
  BY NoneAssumption
<1> QED
  BY <1>1, <1>2 DEF InOrder, Place, Beginning, Recording, Streaming

\* A worker gives its request up.
LEMMA BecomesIdle ==
  ASSUME AnswersInv, NEW w \in Worker, Continue(w, Idle), UNCHANGED << requests, logs, clients >>
  PROVE  AnswersInv'
<1>1. frames'[w] = Idle
  BY DEF AnswersInv, TypeOK, Continue
<1>2. Idle.at \notin Recording
  BY IdleIsFrame, PlacesAreSomewhere DEF Place
<1> QED
  BY <1>1, <1>2, IdleInOrder, IdleIsFrame, FrameStep

\* All workers give their requests up.
LEMMA CrashStep ==
  ASSUME AnswersInv, Crash
  PROVE  AnswersInv'
<1>1. TypeOK'
  BY IdleIsFrame DEF AnswersInv, TypeOK, Crash
<1>2. \A w \in Worker : InOrder(w)'
  BY IdleInOrder DEF Crash
<1>3. ClientsHaveRows' /\ AnswersQuoteTheNewest' /\ EmbeddingsAreWhole'
  BY TablesStay DEF Crash, AnswersInv, ClientsHaveRows
<1>4. \A k \in Kind : LogsFit(k)'
  <2>1. Idle.at \notin Recording
    BY IdleIsFrame, PlacesAreSomewhere DEF Place
  <2> QED
    BY <2>1, LogsStay DEF Crash
<1> QED
  BY <1>1, <1>2, <1>3, <1>4 DEF AnswersInv

---------------------------------------------------------------------------
(* The generators. *)

\* An event without text, but the last.
LEMMA YieldOnlyStep ==
  ASSUME AnswersInv, NEW w \in Worker, NEW from \in Streaming, NEW to \in Streaming,
         YieldOnly(w, from, to),
         to \in {"role", "word", "created", "item_added"} => frames[w].sent = 0,
         to \in {"DONE", "item_done", "completed"} => frames[w].sent = Len(frames[w].answer)
  PROVE  AnswersInv'
<1> DEFINE e == frames[w]
<1>1. /\ e.at = from /\ Continue(w, [e EXCEPT !.at = to])
      /\ UNCHANGED << requests, logs, clients >>
  BY DEF YieldOnly
<1>2. PICK f : f = [e EXCEPT !.at = to]
  OBVIOUS
<1>3. e \in Frame /\ to \in Place
  BY DEF AnswersInv, TypeOK, Place
<1>4. /\ f \in Frame
      /\ f.at = to /\ f.id = e.id /\ f.answer = e.answer /\ f.sent = e.sent /\ f.kind = e.kind
  <2> HIDE DEF e
  <2> QED
    BY <1>2, <1>3 DEF Frame
<1>5. frames'[w] = f /\ \A u \in Worker \ {w} : frames'[u] = frames[u]
  BY <1>1, <1>2 DEF AnswersInv, TypeOK, Continue
<1>6. to # None /\ to \notin Recording /\ to \notin Beginning
  BY <1>3, PlacesAreSomewhere DEF Streaming, Beginning, Recording
<1>7. /\ f.id \in RequestId /\ requests'[f.id] # None
      /\ requests'[f.id].kind = f.kind /\ requests'[f.id].response = f.answer
      /\ \A v \in Worker \ {w} : frames'[v].id # f.id
      /\ clients'[f.id] # None /\ ~clients'[f.id].ended
      /\ f.sent <= Len(f.answer) /\ clients'[f.id].text = SubSeq(f.answer, 1, f.sent)
  BY <1>1, <1>4, <1>5, OnRecord, NoneAssumption
<1>8. InOrder(w)'
  BY <1>4, <1>5, <1>6, <1>7 DEF InOrder, Beginning
<1> QED
  BY <1>1, <1>2, <1>4, <1>6, <1>8, FrameStep

\* An event with text: the client has what the generator has yielded.
LEMMA YieldTextStep ==
  ASSUME AnswersInv, NEW w \in Worker, frames[w].at \in Streaming,
         NEW end \in frames[w].sent .. Len(frames[w].answer),
         NEW to \in {"words", "delta", "item_done"},
         to = "item_done" => end = Len(frames[w].answer),
         YieldText(w, end, to)
  PROVE  AnswersInv'
<1> DEFINE e == frames[w]
           c == clients[e.id]
<1>1. /\ Continue(w, [e EXCEPT !.sent = end, !.at = to])
      /\ clients' = [clients EXCEPT ![e.id].text = @ \o SubSeq(e.answer, e.sent + 1, end)]
      /\ requests' = requests /\ logs' = logs
  BY DEF YieldText
<1>2. /\ e \in Frame /\ e.answer \in Answer /\ e.sent \in Nat /\ e.sent <= Len(e.answer)
      /\ e.id \in RequestId /\ requests[e.id] # None
      /\ requests[e.id].kind = e.kind /\ requests[e.id].response = e.answer
      /\ \A v \in Worker \ {w} : frames[v].id # e.id
      /\ c \in Received /\ ~c.ended /\ c.text = SubSeq(e.answer, 1, e.sent)
      /\ Len(e.answer) \in Nat
  BY OnRecord, Beginnings
<1>3. to \in Place /\ to # None /\ to \notin Recording /\ to \notin Beginning /\ end \in Nat
  BY <1>2, PlacesAreSomewhere DEF Place, Streaming, Beginning, Recording
<1>4. PICK f : f = [e EXCEPT !.sent = end, !.at = to]
  OBVIOUS
<1>5. /\ f \in Frame
      /\ f.at = to /\ f.id = e.id /\ f.answer = e.answer /\ f.sent = end /\ f.kind = e.kind
  <2> HIDE DEF e
  <2> QED
    BY <1>2, <1>3, <1>4 DEF Frame
<1>6. c.text \o SubSeq(e.answer, e.sent + 1, end) = SubSeq(e.answer, 1, end)
  <2>1. e.sent \in 0 .. Len(e.answer) /\ end \in 0 .. Len(e.answer) /\ e.sent <= end
    BY <1>2
  <2> HIDE DEF e, c
  <2> QED
    BY <1>2, <2>1, Beginnings
<1>7. SubSeq(e.answer, 1, end) \in Answer
  <2>1. end \in 0 .. Len(e.answer)
    BY <1>2
  <2> HIDE DEF e
  <2> QED
    BY <1>2, <2>1, Beginnings
<1>8. PICK d \in Received :
        d = [c EXCEPT !.text = c.text \o SubSeq(e.answer, e.sent + 1, end)] /\ ~d.ended
          /\ d.text = SubSeq(e.answer, 1, end)
  <2>1. PICK t \in Answer : t = SubSeq(e.answer, 1, end)
    BY <1>7
  <2>2. [c EXCEPT !.text = t] \in Received
    <3> HIDE DEF c
    <3> QED
      BY <1>2 DEF Received
  <2>3. [c EXCEPT !.text = t].ended = c.ended /\ [c EXCEPT !.text = t].text = t
    <3> HIDE DEF c
    <3> QED
      BY <1>2 DEF Received
  <2> HIDE DEF c, e
  <2> QED
    BY <1>2, <1>6, <2>1, <2>2, <2>3
<1>9. clients' = [clients EXCEPT ![e.id] = d]
  BY <1>1, <1>8
<1>10. /\ frames'[w] = f /\ \A u \in Worker \ {w} : frames'[u] = frames[u]
       /\ clients' \in [RequestId -> Received \cup {None}]
       /\ clients'[e.id] = d /\ clients[e.id] # None /\ d # None
       /\ \A r \in RequestId : r # e.id => clients'[r] = clients[r]
  BY <1>1, <1>2, <1>4, <1>9, NoneAssumption DEF AnswersInv, TypeOK, Continue
<1>11. InOrder(w)'
  <2>1. /\ f.id \in RequestId /\ requests'[f.id] # None
        /\ requests'[f.id].kind = f.kind /\ requests'[f.id].response = f.answer
        /\ \A v \in Worker \ {w} : frames'[v].id # f.id
        /\ clients'[f.id] # None /\ ~clients'[f.id].ended
        /\ f.sent <= Len(f.answer) /\ clients'[f.id].text = SubSeq(f.answer, 1, f.sent)
    <3>1. f.id = e.id /\ f.answer = e.answer /\ f.kind = e.kind /\ f.sent = end
      BY <1>5
    <3>2. /\ f.id \in RequestId /\ requests'[f.id] # None
          /\ requests'[f.id].kind = f.kind /\ requests'[f.id].response = f.answer
      BY <1>1, <1>2, <3>1
    <3>3. \A v \in Worker \ {w} : frames'[v].id # f.id
      BY <1>2, <1>10, <3>1
    <3>4. clients'[f.id] = d /\ d # None /\ f.sent <= Len(f.answer)
      BY <1>2, <1>10, <3>1
    <3>5. d.text = SubSeq(f.answer, 1, f.sent)
      BY <1>8, <3>1
    <3> QED
      BY <1>8, <3>2, <3>3, <3>4, <3>5
  <2> QED
    BY <1>3, <1>5, <1>10, <2>1 DEF InOrder, Beginning
<1> QED
  BY <1>1, <1>3, <1>4, <1>5, <1>9, <1>11, ClientStep

\* The last event.
LEMMA YieldLastStep ==
  ASSUME AnswersInv, NEW w \in Worker, NEW from \in Streaming, YieldLast(w, from)
  PROVE  AnswersInv'
<1> DEFINE e == frames[w]
           c == clients[e.id]
<1>1. /\ e.at = from /\ Continue(w, Idle)
      /\ clients' = [clients EXCEPT ![e.id].ended = TRUE]
      /\ requests' = requests /\ logs' = logs
  BY DEF YieldLast
<1>2. e.id \in RequestId /\ c \in Received
  BY <1>1, OnRecord
<1>3. PICK d \in Received : d = [c EXCEPT !.ended = TRUE]
  <2> HIDE DEF c
  <2> QED
    BY <1>2 DEF Received
<1>4. clients' = [clients EXCEPT ![e.id] = d]
  BY <1>1, <1>3
<1>5. frames'[w] = Idle
  BY <1>1 DEF AnswersInv, TypeOK, Continue
<1>6. Idle.at \notin Recording
  BY IdleIsFrame, PlacesAreSomewhere DEF Place
<1> QED
  BY <1>1, <1>4, <1>5, <1>6, IdleIsFrame, IdleInOrder, ClientStep

---------------------------------------------------------------------------
(* The log row and the response. *)

\* One log row more, of a request that had none.
LEMMA EmitStep ==
  ASSUME AnswersInv, NEW w \in Worker, Emit(w)
  PROVE  AnswersInv'
<1> DEFINE e == frames[w]
<1>1. /\ e.at = "append_log" /\ requests' = requests /\ clients' = clients
      /\ logs' = [logs EXCEPT ![e.kind] = @ + 1]
      /\ Continue(w, [e EXCEPT !.at = "respond"])
  BY DEF Emit
<1>2. /\ TypeOK /\ \A u \in Worker : InOrder(u)
      /\ e.at \in Recording
  BY <1>1 DEF AnswersInv, Recording
<1>3. PICK i \in RequestId, kind \in Kind :
        i = e.id /\ kind = e.kind /\ requests[i] # None /\ requests[i].kind = kind
  BY <1>2, OnRecord
<1>4. PICK f : f = [e EXCEPT !.at = "respond"]
  OBVIOUS
<1>5. /\ f \in Frame /\ f.at = "respond" /\ f.id = e.id /\ f.kind = e.kind
      /\ f.answer = e.answer /\ f.sent = e.sent
  <2>1. "respond" \in Place /\ e \in Frame
    BY <1>2 DEF Place, Recording, TypeOK
  <2> HIDE DEF e
  <2> QED
    BY <1>4, <2>1 DEF Frame
<1>6. /\ frames' \in [Worker -> Frame] /\ frames'[w] = f
      /\ \A u \in Worker \ {w} : frames'[u] = frames[u]
  BY <1>1, <1>2, <1>4, <1>5 DEF TypeOK, Continue
<1>7. /\ logs' \in [Kind -> Nat] /\ logs'[kind] = logs[kind] + 1
      /\ \A k \in Kind : k # kind => logs'[k] = logs[k]
  BY <1>1, <1>2, <1>3 DEF TypeOK
<1>8. TypeOK'
  BY <1>1, <1>2, <1>6, <1>7 DEF TypeOK
<1>9. InOrder(w)'
  <2>1. f.id \in RequestId /\ requests'[f.id] # None
        /\ requests'[f.id].kind = f.kind /\ requests'[f.id].response = f.answer
        /\ clients'[f.id] = None /\ f.sent = 0
    BY <1>1, <1>2, <1>5, OnRecord
  <2>2. \A v \in Worker \ {w} : frames'[v].id # f.id
    BY <1>2, <1>5, <1>6, OnRecord
  <2>3. f.at \in Recording /\ f.at \notin Beginning \cup Streaming \cup {None}
    BY <1>5, PlacesAreSomewhere DEF Recording, Beginning, Streaming, Place
  <2> QED
    BY <1>5, <1>6, <2>1, <2>2, <2>3 DEF InOrder, Beginning, Recording, Streaming
<1>10. ASSUME NEW v \in Worker \ {w} PROVE InOrder(v)'
  <2>1. frames[v].id # None => frames[w].id # frames[v].id
    BY <1>2, IdsDiffer
  <2>2. frames[v].id # None => frames'[w].id # frames[v].id
    BY <1>5, <1>6, <2>1
  <2> QED
    BY <1>1, <1>2, <1>6, <2>1, <2>2, OthersStay
<1>11. ClientsHaveRows' /\ AnswersQuoteTheNewest' /\ EmbeddingsAreWhole'
  BY <1>1, TablesStay DEF AnswersInv, ClientsHaveRows
<1>12. ASSUME NEW k \in Kind PROVE LogsFit(k)'
  <2>1. PICK logged \in SUBSET Rows(k) :
          /\ logs[k] = Cardinality(logged)
          /\ Answered(k) \subseteq logged
          /\ \A u \in Worker :
               /\ frames[u].at = "append_log" => frames[u].id \notin logged
               /\ frames[u].at = "respond" /\ frames[u].kind = k => frames[u].id \in logged
    BY DEF AnswersInv, LogsFit
  <2>2. Rows(k)' = Rows(k) /\ Answered(k)' = Answered(k)
    BY <1>1 DEF Rows, Answered
  <2>3. IsFiniteSet(Rows(k))
    BY DEF AnswersInv, LogsFit
  <2>4. i \notin logged
    BY <1>1, <1>3, <2>1
  <2>5. \A u \in Worker \ {w} : frames'[u].id # i
    BY <1>2, <1>3, <1>6, OnRecord
  <2>6. CASE k = kind
    <3>1. i \in Rows(k)
      BY <1>3, <2>6 DEF Rows
    <3>2. PICK more \in SUBSET Rows(k) : more = logged \cup {i}
      BY <3>1
    <3>3. IsFiniteSet(logged)
      BY <2>3, FS_Subset
    <3>4. Cardinality(more) = Cardinality(logged) + 1
      BY <2>4, <3>2, <3>3, FS_AddElement
    <3>5. logs'[k] = Cardinality(more)
      BY <1>7, <2>1, <2>6, <3>4
    <3>6. Answered(k)' \subseteq more
      BY <2>1, <2>2, <3>2
    <3>7. ASSUME NEW u \in Worker
          PROVE  /\ frames'[u].at = "append_log" => frames'[u].id \notin more
                 /\ frames'[u].at = "respond" /\ frames'[u].kind = k => frames'[u].id \in more
      <4>1. CASE u = w
        BY <1>3, <1>5, <1>6, <3>2, <4>1
      <4>2. CASE u # w
        BY <1>6, <2>1, <2>5, <3>2, <4>2
      <4> QED
        BY <4>1, <4>2
    <3> QED
      BY <2>2, <2>3, <3>5, <3>6, <3>7 DEF LogsFit
  <2>7. CASE k # kind
    <3>1. logs'[k] = Cardinality(logged) /\ Answered(k)' \subseteq logged
      BY <1>7, <2>1, <2>2, <2>7
    <3>2. ASSUME NEW u \in Worker
          PROVE  /\ frames'[u].at = "append_log" => frames'[u].id \notin logged
                 /\ frames'[u].at = "respond" /\ frames'[u].kind = k => frames'[u].id \in logged
      <4>1. CASE u = w
        BY <1>3, <1>5, <1>6, <2>7, <4>1
      <4>2. CASE u # w
        BY <1>6, <2>1, <4>2
      <4> QED
        BY <4>1, <4>2
    <3> QED
      BY <2>2, <2>3, <3>1, <3>2 DEF LogsFit
  <2> QED
    BY <2>6, <2>7
<1> QED
  BY <1>8, <1>9, <1>10, <1>11, <1>12 DEF AnswersInv

\* The client gets the body, or nothing yet of a stream.
LEMMA RespondStep ==
  ASSUME AnswersInv, NEW w \in Worker, Respond(w)
  PROVE  AnswersInv'
<1> DEFINE e == frames[w]
<1>1. /\ e.at = "respond" /\ requests' = requests /\ logs' = logs
  BY DEF Respond
<1>2. e.at \in Recording
  BY <1>1 DEF Recording
<1>3. /\ e \in Frame /\ e.answer \in Answer /\ e.sent = 0 /\ e.id \in RequestId
      /\ requests[e.id] # None
      /\ requests[e.id].kind = e.kind /\ requests[e.id].response = e.answer
      /\ \A v \in Worker \ {w} : frames[v].id # e.id
  BY <1>2, OnRecord
<1>4. CASE /\ clients' = [clients EXCEPT ![e.id] = [text |-> e.answer, ended |-> TRUE]]
           /\ Continue(w, Idle)
  <2>1. PICK c \in Received : c = [text |-> e.answer, ended |-> TRUE]
    BY <1>3 DEF Received
  <2>2. clients' = [clients EXCEPT ![e.id] = c]
    BY <1>4, <2>1
  <2>3. frames'[w] = Idle
    BY <1>4 DEF AnswersInv, TypeOK, Continue
  <2>4. Idle.at \notin Recording
    BY IdleIsFrame, PlacesAreSomewhere DEF Place
  <2> QED
    BY <1>1, <1>4, <2>2, <2>3, <2>4, IdleIsFrame, IdleInOrder, ClientStep
<1>5. CASE /\ clients' = [clients EXCEPT ![e.id] = [text |-> << >>, ended |-> FALSE]]
           /\ Continue(w, [e EXCEPT !.at = IF e.kind = "response.stream" THEN "created"
                                           ELSE "role"])
  <2>1. PICK c \in Received : c = [text |-> << >>, ended |-> FALSE]
                             /\ c.text = << >> /\ ~c.ended
    <3>1. [text |-> << >>, ended |-> FALSE] \in Received
      BY DEF Answer, Received
    <3>2. [text |-> << >>, ended |-> FALSE].text = << >> /\ ~[text |-> << >>, ended |-> FALSE].ended
      OBVIOUS
    <3> QED
      BY <3>1, <3>2
  <2>2. clients' = [clients EXCEPT ![e.id] = c]
    BY <1>5, <2>1
  <2>4. PICK to \in {"created", "role"} :
          to = IF e.kind = "response.stream" THEN "created" ELSE "role"
    OBVIOUS
  <2>5. PICK f : f = [e EXCEPT !.at = to]
    OBVIOUS
  <2>6. to \in Streaming /\ to \in Place /\ to # None /\ to \notin Recording /\ to \notin Beginning
    BY PlacesAreSomewhere DEF Streaming, Place, Beginning, Recording
  <2>7. /\ f \in Frame
        /\ f.at = to /\ f.id = e.id /\ f.answer = e.answer /\ f.sent = 0 /\ f.kind = e.kind
    <3> HIDE DEF e
    <3> QED
      BY <1>3, <2>5, <2>6 DEF Frame
  <2>8. /\ Continue(w, f) /\ frames'[w] = f
        /\ \A u \in Worker \ {w} : frames'[u] = frames[u]
    BY <1>5, <2>4, <2>5 DEF AnswersInv, TypeOK, Continue
  <2>9. clients'[e.id] = c /\ c # None
    BY <1>3, <2>2, NoneAssumption DEF AnswersInv, TypeOK
  <2>10. c.text = SubSeq(e.answer, 1, 0) /\ 0 <= Len(e.answer)
    BY <1>3, <2>1, Beginnings
  <2>11. InOrder(w)'
    <3>1. f.id = e.id /\ f.answer = e.answer /\ f.kind = e.kind /\ f.sent = 0
      BY <2>7
    <3>2. /\ f.id \in RequestId /\ requests'[f.id] # None
          /\ requests'[f.id].kind = f.kind /\ requests'[f.id].response = f.answer
      BY <1>1, <1>3, <3>1
    <3>3. \A v \in Worker \ {w} : frames'[v].id # f.id
      BY <1>3, <2>8, <3>1
    <3>4. clients'[f.id] = c /\ c # None /\ f.sent <= Len(f.answer)
      BY <2>9, <2>10, <3>1
    <3>5. c.text = SubSeq(f.answer, 1, f.sent)
      BY <2>10, <3>1
    <3> QED
      BY <2>1, <2>6, <2>7, <2>8, <3>2, <3>3, <3>4, <3>5 DEF InOrder, Beginning
  <2> QED
    BY <1>1, <2>2, <2>6, <2>7, <2>8, <2>11, ClientStep
<1> QED
  BY <1>4, <1>5 DEF Respond

---------------------------------------------------------------------------
(* AnswersInv is inductive. *)

\* An event without text, but the last.
SilentYield(w) ==
  \/ YieldRole(w) \/ YieldStop(w) \/ YieldCreated(w) \/ YieldItemAdded(w) \/ YieldItemDone(w)

TextYield(w) == YieldFirstWord(w) \/ YieldNextWord(w) \/ YieldDelta(w)

\* Which events have no text, and what is known where they go on.
LEMMA SilentYields ==
  ASSUME AnswersInv, NEW w \in Worker, SilentYield(w)
  PROVE  \E from, to \in Streaming :
           /\ YieldOnly(w, from, to)
           /\ to \in {"role", "word", "created", "item_added"} => frames[w].sent = 0
           /\ to \in {"DONE", "item_done", "completed"} => frames[w].sent = Len(frames[w].answer)
<1>1. InOrder(w)
  BY DEF AnswersInv
<1>2. CASE YieldRole(w)
  BY <1>1, <1>2 DEF YieldRole, YieldOnly, InOrder, Streaming
<1>3. CASE YieldStop(w)
  BY <1>3 DEF YieldStop, YieldOnly, Streaming
<1>4. CASE YieldCreated(w)
  BY <1>1, <1>4 DEF YieldCreated, YieldOnly, InOrder, Streaming
<1>5. CASE YieldItemAdded(w)
  BY <1>5 DEF YieldItemAdded, YieldOnly, Streaming
<1>6. CASE YieldItemDone(w)
  BY <1>1, <1>6 DEF YieldItemDone, YieldOnly, InOrder, Streaming
<1> QED
  BY <1>2, <1>3, <1>4, <1>5, <1>6 DEF SilentYield

\* Which events have text: up to a place of the answer, at or after the last.
LEMMA TextYields ==
  ASSUME AnswersInv, NEW w \in Worker, TextYield(w)
  PROVE  /\ frames[w].at \in Streaming
         /\ \E end \in frames[w].sent .. Len(frames[w].answer), to \in {"words", "delta", "item_done"} :
              /\ to = "item_done" => end = Len(frames[w].answer)
              /\ YieldText(w, end, to)
<1> DEFINE e == frames[w]
<1>1. InOrder(w)
  BY DEF AnswersInv
<1>2. e.at \in Streaming
  BY DEF TextYield, YieldFirstWord, YieldNextWord, YieldDelta, Streaming
<1>3. e.answer \in Answer /\ Len(e.answer) \in Nat /\ e.sent \in 0 .. Len(e.answer)
  BY <1>2, OnRecord, Beginnings
<1>4. CASE YieldFirstWord(w)
  <2>1. e.at = "word" /\ YieldText(w, WordEnd(e.answer, 0), "words")
    BY <1>4 DEF YieldFirstWord
  <2>2. e.sent = 0
    BY <1>1, <2>1 DEF InOrder
  <2>3. WordEnd(e.answer, 0) \in e.sent .. Len(e.answer)
    BY <1>3, <2>2, WordsEnd
  <2> QED
    BY <1>2, <2>1, <2>3
<1>5. CASE YieldNextWord(w)
  <2>1. e.sent < Len(e.answer) /\ YieldText(w, WordEnd(e.answer, e.sent + 1), "words")
    BY <1>5 DEF YieldNextWord
  <2>2. e.sent + 1 \in 0 .. Len(e.answer)
    BY <1>3, <2>1
  <2>3. WordEnd(e.answer, e.sent + 1) \in e.sent + 1 .. Len(e.answer)
    <3> HIDE DEF e
    <3> QED
      BY <1>3, <2>2, WordsEnd
  <2>4. WordEnd(e.answer, e.sent + 1) \in e.sent .. Len(e.answer)
    BY <1>3, <2>3
  <2> QED
    BY <1>2, <2>1, <2>4
<1>6. CASE YieldDelta(w)
  <2> DEFINE end == Shorter(e.sent + ChunkLength, Len(e.answer))
             to == IF end < Len(e.answer) THEN "delta" ELSE "item_done"
  <2>1. YieldText(w, end, to)
    BY <1>6 DEF YieldDelta
  <2>2. end \in e.sent .. Len(e.answer)
    BY <1>3, SizesAssumption DEF Shorter
  <2>3. to \in {"words", "delta", "item_done"} /\ (to = "item_done" => end = Len(e.answer))
    BY <1>3, <2>2
  <2> HIDE DEF end, to
  <2> QED
    BY <1>2, <2>1, <2>2, <2>3
<1> QED
  BY <1>4, <1>5, <1>6 DEF TextYield

\* Every step keeps the invariant.
LEMMA StepsKeepInv == AnswersInv /\ [Next]_vars => AnswersInv'
<1> SUFFICES ASSUME AnswersInv, [Next]_vars PROVE AnswersInv'
  OBVIOUS
<1>1. ASSUME NEW w \in Worker, Begin(w) PROVE AnswersInv'
  BY <1>1, BeginChatStep, BeginCompletionStep, BeginResponseStep, BeginEmbeddingsStep DEF Begin
<1>2. ASSUME NEW w \in Worker, EmbedWord(w) \/ EmbedBlock(w) \/ EmbedNext(w) PROVE AnswersInv'
  BY <1>2, EmbedWordStep, EmbedBlockStep, EmbedNextStep
<1>3. ASSUME NEW w \in Worker, PersistRequest(w) \/ Emit(w) \/ Respond(w) PROVE AnswersInv'
  BY <1>3, PersistRequestStep, EmitStep, RespondStep
<1>4. ASSUME NEW w \in Worker, SilentYield(w) PROVE AnswersInv'
  BY <1>4, SilentYields, YieldOnlyStep
<1>5. ASSUME NEW w \in Worker, TextYield(w) PROVE AnswersInv'
  BY <1>5, TextYields, YieldTextStep
<1>6. ASSUME NEW w \in Worker, YieldDone(w) \/ YieldCompleted(w) PROVE AnswersInv'
  <2>1. PICK from \in Streaming : YieldLast(w, from)
    BY <1>6 DEF YieldDone, YieldCompleted, Streaming
  <2> QED
    BY <2>1, YieldLastStep
<1>7. ASSUME NEW w \in Worker, Step(w) PROVE AnswersInv'
  BY <1>2, <1>3, <1>4, <1>5, <1>6, <1>7 DEF Step, SilentYield, TextYield
<1>8. ASSUME NEW w \in Worker, StorageFails(w) \/ Disconnect(w) PROVE AnswersInv'
  BY <1>8, BecomesIdle DEF StorageFails, Disconnect
<1>9. CASE UNCHANGED vars
  <2>1. TypeOK' /\ \A w \in Worker : InOrder(w)'
    BY <1>9 DEF vars, AnswersInv, TypeOK, InOrder, Embedding, TextToEmbed
  <2>2. ClientsHaveRows' /\ AnswersQuoteTheNewest' /\ EmbeddingsAreWhole'
    BY <1>9, TablesStay DEF vars, AnswersInv, ClientsHaveRows
  <2>3. \A k \in Kind : LogsFit(k)'
    BY <1>9, LogsStay DEF vars
  <2> QED
    BY <2>1, <2>2, <2>3 DEF AnswersInv
<1> QED
  BY <1>1, <1>7, <1>8, <1>9, CrashStep DEF Next

\* The invariant, of every number of workers and requests, and every body.
THEOREM AnswersInvariant == Spec => []AnswersInv
<1>1. Init => AnswersInv
  BY AnswersInit
<1>2. AnswersInv /\ [Next]_vars => AnswersInv'
  BY StepsKeepInv
<1> QED
  BY <1>1, <1>2, PTL DEF Spec

\* Every variable keeps its type, for any text, chunk length and dimension: the loop of
\* synthetic_embedding (models.py:208-222) stays inside its block of words, and what is
\* stored, and what a client has, is an answer.
THEOREM AnswerTypes == Spec => []TypeOK
<1>1. AnswersInv => TypeOK
  BY DEF AnswersInv
<1> QED
  BY <1>1, AnswersInvariant, PTL

\* "one row per request, even on stream": who has got a response has a history row,
\* and of every kind there are no fewer log rows than responses and no more than
\* history rows.
THEOREM RowsAndAnswersAgree == Spec => []OneRowPerAnswer
<1>1. AnswersInv => OneRowPerAnswer
  <2> SUFFICES ASSUME AnswersInv, NEW k \in Kind
               PROVE  Cardinality(Answered(k)) <= logs[k] /\ logs[k] <= Cardinality(Rows(k))
    BY DEF AnswersInv, OneRowPerAnswer
  <2>1. IsFiniteSet(Rows(k))
    BY DEF AnswersInv, LogsFit
  <2>2. PICK logged \in SUBSET Rows(k) :
          logs[k] = Cardinality(logged) /\ Answered(k) \subseteq logged
    BY DEF AnswersInv, LogsFit
  <2>3. IsFiniteSet(logged) /\ Cardinality(logged) <= Cardinality(Rows(k))
    BY <2>1, FS_Subset
  <2>4. Cardinality(Answered(k)) <= Cardinality(logged)
    BY <2>2, <2>3, FS_Subset
  <2> QED
    BY <2>2, <2>3, <2>4
<1> QED
  BY <1>1, AnswersInvariant, PTL

\* Recorded answers quote the newest message or item.
THEOREM NewestIsQuoted == Spec => []AnswersQuoteTheNewest
<1>1. AnswersInv => AnswersQuoteTheNewest
  BY DEF AnswersInv
<1> QED
  BY <1>1, AnswersInvariant, PTL

\* Recorded embeddings have every word of every vector, whatever Dims is.
THEOREM EmbeddingsComplete == Spec => []EmbeddingsAreWhole
<1>1. AnswersInv => EmbeddingsAreWhole
  BY DEF AnswersInv
<1> QED
  BY <1>1, AnswersInvariant, PTL

---------------------------------------------------------------------------
(* The contract. *)

\* Rows and clients are the mapped ones, or there is none.
LEMMA Mapped ==
  ASSUME TypeOK
  PROVE  /\ \A r \in RequestId :
              /\ requests[r] # None => Recorded[r] = requests[r].response /\ Recorded[r] # None
              /\ clients[r] # None => Delivered[r] = clients[r].text
              /\ requests[r] = None => Recorded[r] = None
              /\ clients[r] = None => Delivered[r] = None
  BY NoneAssumption DEF TypeOK, Recorded, Delivered, Row

\* More of an answer is delivered.
LEMMA Delivery ==
  ASSUME TypeOK, TypeOK', NEW i \in RequestId, NEW c \in Received,
         requests' = requests, requests[i] # None,
         clients' = [clients EXCEPT ![i] = c],
         NEW m \in Nat, NEW n \in Nat,
         m <= n, n <= Len(requests[i].response),
         clients[i] # None =>
           clients[i].text = SubSeq(requests[i].response, 1, m) /\ ~clients[i].ended,
         c.text = SubSeq(requests[i].response, 1, n),
         c.ended => n = Len(requests[i].response)
  PROVE  Contract!Deliver(i)
<1>1. /\ clients'[i] = c /\ c # None
      /\ \A r \in RequestId : r # i => clients'[r] = clients[r]
  BY NoneAssumption DEF TypeOK
<1>2. requests[i].response \in Answer /\ Len(requests[i].response) \in Nat
  BY Beginnings DEF TypeOK, Row
<1>3. Recorded[i] = requests[i].response /\ Recorded[i] # None
  BY Mapped
<1>4. Recorded' = Recorded
  BY DEF Recorded
<1>5. Delivered[i] \in {None, SubSeq(Recorded[i], 1, m)}
  <2>1. CASE clients[i] = None
    BY <2>1, Mapped
  <2>2. CASE clients[i] # None
    BY <1>3, <2>2, Mapped
  <2> QED
    BY <2>1, <2>2
<1>6. Delivered' = [Delivered EXCEPT ![i] = SubSeq(Recorded[i], 1, n)]
  <2>1. Delivered' = [r \in RequestId |-> IF clients'[r] = None THEN None ELSE clients'[r].text]
    BY DEF Delivered
  <2>2. \A r \in RequestId :
          Delivered'[r] = IF r = i THEN SubSeq(Recorded[i], 1, n) ELSE Delivered[r]
    <3> TAKE r \in RequestId
    <3>1. CASE r = i
      <4>1. Delivered'[i] = c.text
        BY <1>1, <2>1
      <4> QED
        BY <1>3, <3>1, <4>1
    <3>2. CASE r # i
      BY <1>1, <2>1, <3>2 DEF Delivered
    <3> QED
      BY <3>1, <3>2
  <2>3. Delivered = [r \in RequestId |-> Delivered[r]] /\ Delivered' = [r \in RequestId |-> Delivered'[r]]
    BY <2>1 DEF Delivered
  <2> QED
    BY <2>2, <2>3
<1>7. i \notin Finished
  BY DEF Finished
<1>8. \/ Finished' = Finished
      \/ n = Len(Recorded[i]) /\ Finished' = Finished \cup {i}
  <2>1. CASE c.ended
    <3>1. Finished' = Finished \cup {i}
      BY <1>1, <2>1 DEF Finished
    <3> QED
      BY <1>3, <2>1, <3>1
  <2>2. CASE ~c.ended
    <3>1. \A r \in RequestId : r \in Finished' <=> r \in Finished
      <4> TAKE r \in RequestId
      <4>1. CASE r = i
        BY <1>1, <1>7, <2>2, <4>1 DEF Finished
      <4>2. CASE r # i
        BY <1>1, <4>2 DEF Finished
      <4> QED
        BY <4>1, <4>2
    <3>2. Finished \subseteq RequestId /\ Finished' \subseteq RequestId
      BY DEF Finished
    <3> QED
      BY <3>1, <3>2
  <2> QED
    BY <2>1, <2>2
<1>9. m \in 0 .. Len(Recorded[i]) /\ n \in 0 .. Len(Recorded[i])
  BY <1>2, <1>3
<1>10. \E x, y \in 0 .. Len(Recorded[i]) :
         /\ x <= y
         /\ Delivered[i] \in {None, Contract!Beginning(i, x)}
         /\ Delivered' = [Delivered EXCEPT ![i] = Contract!Beginning(i, y)]
         /\ \/ Finished' = Finished
            \/ y = Len(Recorded[i]) /\ Finished' = Finished \cup {i}
  <2>1. \A x : Contract!Beginning(i, x) = SubSeq(Recorded[i], 1, x)
    BY DEF Contract!Beginning
  <2> QED
    BY <1>5, <1>6, <1>8, <1>9, <2>1
<1> QED
  BY <1>3, <1>4, <1>7, <1>10 DEF Contract!Deliver

Stutters == Recorded' = Recorded /\ Delivered' = Delivered /\ Finished' = Finished

\* The contract does not see a step that leaves rows and clients alone.
LEMMA TablesStutter ==
  ASSUME requests' = requests, clients' = clients
  PROVE  Stutters
  BY DEF Stutters, Recorded, Delivered, Finished

\* A new history row records an answer.
LEMMA PersistIsRecord ==
  ASSUME AnswersInv, AnswersInv', NEW w \in Worker, PersistRequest(w)
  PROVE  \E r \in RequestId : Contract!Record(r)
<1>1. PICK r \in RequestId :
        /\ requests[r] = None
        /\ requests' = [requests EXCEPT ![r] =
             [kind |-> frames[w].kind, request |-> frames[w].request, response |-> frames[w].answer]]
        /\ clients' = clients
  BY DEF PersistRequest
<1>2. TypeOK /\ TypeOK'
  BY DEF AnswersInv
<1>3. PICK row : row = [kind |-> frames[w].kind, request |-> frames[w].request,
                        response |-> frames[w].answer]
  OBVIOUS
<1>4. /\ requests'[r] = row /\ \A s \in RequestId : s # r => requests'[s] = requests[s]
  BY <1>1, <1>2, <1>3 DEF TypeOK
<1>5. row # None
  <2>1. frames[w].kind \in Kind /\ frames[w].request \in Body /\ frames[w].answer \in Answer
    BY DEF AnswersInv, TypeOK, InOrder, Frame, PersistRequest
  <2>2. row \in Row
    BY <1>3, <2>1 DEF Row
  <2> QED
    BY <2>2, NoneAssumption
<1>6. row.response # None
  BY <1>2, <1>4, <1>5, NoneAssumption DEF TypeOK, Row
<1>7. Recorded[r] = None
  BY <1>1, <1>2, Mapped
<1>8. Recorded' = [s \in RequestId |-> IF requests'[s] = None THEN None ELSE requests'[s].response]
  BY DEF Recorded
<1>9. Recorded'[r] # None
  BY <1>4, <1>5, <1>6, <1>8
<1>10. Recorded' = [Recorded EXCEPT ![r] = Recorded'[r]]
  <2>1. \A s \in RequestId : s # r => Recorded'[s] = Recorded[s]
    BY <1>4, <1>8 DEF Recorded
  <2>2. Recorded = [s \in RequestId |-> Recorded[s]] /\ Recorded' = [s \in RequestId |-> Recorded'[s]]
    BY <1>8 DEF Recorded
  <2> QED
    BY <2>1, <2>2
<1>11. Delivered' = Delivered /\ Finished' = Finished
  BY <1>1 DEF Delivered, Finished
<1> QED
  BY <1>7, <1>9, <1>10, <1>11 DEF Contract!Record

\* A body, or the start of a stream, is a delivery.
LEMMA RespondIsDeliver ==
  ASSUME AnswersInv, AnswersInv', NEW w \in Worker, Respond(w)
  PROVE  \E r \in RequestId : Contract!Deliver(r)
<1>0. TypeOK /\ TypeOK'
  BY DEF AnswersInv
<1>1. /\ frames[w].at = "respond" /\ requests' = requests
      /\ clients' \in {[clients EXCEPT ![frames[w].id] = [text |-> frames[w].answer, ended |-> TRUE]],
                       [clients EXCEPT ![frames[w].id] = [text |-> << >>, ended |-> FALSE]]}
  BY DEF Respond
<1>2. PICK i \in RequestId, a \in Answer :
        i = frames[w].id /\ a = frames[w].answer /\ requests[i] # None
          /\ requests[i].response = a /\ clients[i] = None
  <2>1. frames[w].at \in Recording
    BY <1>1 DEF Recording
  <2> QED
    BY <2>1, OnRecord
<1>3. Len(a) \in Nat /\ SubSeq(a, 1, 0) = << >> /\ SubSeq(a, 1, Len(a)) = a
  BY Beginnings
<1>4. CASE clients' = [clients EXCEPT ![i] = [text |-> a, ended |-> TRUE]]
  <2>1. PICK c \in Received : c = [text |-> a, ended |-> TRUE] /\ c.text = a
    <3>1. [text |-> a, ended |-> TRUE] \in Received /\ [text |-> a, ended |-> TRUE].text = a
      BY DEF Received
    <3> QED
      BY <3>1
  <2>2. PICK n \in Nat : n = Len(a)
    BY <1>3
  <2>3. c.text = SubSeq(requests[i].response, 1, n) /\ n = Len(requests[i].response) /\ n <= n
    BY <1>2, <1>3, <2>1, <2>2
  <2>4. clients' = [clients EXCEPT ![i] = c]
    BY <1>4, <2>1
  <2>5. clients[i] # None =>
          clients[i].text = SubSeq(requests[i].response, 1, n) /\ ~clients[i].ended
    BY <1>2
  <2>6. n <= Len(requests[i].response) /\ (c.ended => n = Len(requests[i].response))
    BY <2>2, <2>3
  <2> QED
    BY <1>0, <1>1, <1>2, <2>3, <2>4, <2>5, <2>6, Delivery
<1>5. CASE clients' = [clients EXCEPT ![i] = [text |-> << >>, ended |-> FALSE]]
  <2>1. PICK c \in Received : c = [text |-> << >>, ended |-> FALSE] /\ c.text = << >> /\ ~c.ended
    <3>1. [text |-> << >>, ended |-> FALSE] \in Received
      BY DEF Answer, Received
    <3>2. [text |-> << >>, ended |-> FALSE].text = << >> /\ ~[text |-> << >>, ended |-> FALSE].ended
      OBVIOUS
    <3> QED
      BY <3>1, <3>2
  <2>2. PICK n \in Nat : n = 0
    OBVIOUS
  <2>3. c.text = SubSeq(requests[i].response, 1, n) /\ n <= n
    BY <1>2, <1>3, <2>1, <2>2
  <2>4. clients' = [clients EXCEPT ![i] = c]
    BY <1>5, <2>1
  <2>5. clients[i] # None =>
          clients[i].text = SubSeq(requests[i].response, 1, n) /\ ~clients[i].ended
    BY <1>2
  <2>6. n <= Len(requests[i].response)
    BY <1>2, <1>3, <2>2
  <2>7. c.ended => n = Len(requests[i].response)
    BY <2>1
  <2> QED
    BY <1>0, <1>1, <1>2, <2>3, <2>4, <2>5, <2>6, <2>7, Delivery
<1> QED
  BY <1>1, <1>2, <1>4, <1>5

\* An event with text is a delivery.
LEMMA TextYieldIsDeliver ==
  ASSUME AnswersInv, AnswersInv', NEW w \in Worker, TextYield(w)
  PROVE  \E r \in RequestId : Contract!Deliver(r)
<1>0. TypeOK /\ TypeOK'
  BY DEF AnswersInv
<1>1. frames[w].at \in Streaming /\ frames[w].at \in Recording \cup Streaming
  BY TextYields
<1>2. PICK end \in frames[w].sent .. Len(frames[w].answer), to \in {"words", "delta", "item_done"} :
        YieldText(w, end, to)
  BY TextYields
<1>3. /\ frames[w].id \in RequestId /\ frames[w].answer \in Answer /\ frames[w].sent \in Nat
      /\ requests[frames[w].id] # None
      /\ requests[frames[w].id].response = frames[w].answer
      /\ clients[frames[w].id] \in Received
      /\ ~clients[frames[w].id].ended
      /\ frames[w].sent <= Len(frames[w].answer)
      /\ clients[frames[w].id].text = SubSeq(frames[w].answer, 1, frames[w].sent)
  BY <1>1, OnRecord
<1>4. PICK i \in RequestId : i = frames[w].id
  BY <1>3
<1>5. PICK a \in Answer : a = frames[w].answer
  BY <1>3
<1>6. PICK sent \in Nat : sent = frames[w].sent
  BY <1>3
<1>7. PICK c \in Received : c = clients[i]
  BY <1>3, <1>4
<1>8. /\ requests[i] # None /\ requests[i].response = a /\ c.text = SubSeq(a, 1, sent)
      /\ clients[i].text = SubSeq(requests[i].response, 1, sent)
  BY <1>3, <1>4, <1>5, <1>6, <1>7
<1>9. ~c.ended /\ ~clients[i].ended
  BY <1>3, <1>4, <1>7
<1>10. /\ clients' = [clients EXCEPT ![i].text = @ \o SubSeq(a, sent + 1, end)]
       /\ requests' = requests
  BY <1>2, <1>4, <1>5, <1>6 DEF YieldText
<1>11. Len(a) \in Nat /\ sent \in 0 .. Len(a) /\ end \in 0 .. Len(a) /\ sent <= end /\ end \in Nat
  BY <1>2, <1>3, <1>5, <1>6, Beginnings
<1>12. PICK t \in Answer : t = SubSeq(a, 1, end)
  <2>1. SubSeq(a, 1, end) \in Answer
    BY <1>11, Beginnings
  <2> QED
    BY <2>1
<1>13. t = c.text \o SubSeq(a, sent + 1, end)
  <2>1. SubSeq(a, 1, sent) \o SubSeq(a, sent + 1, end) = SubSeq(a, 1, end)
    BY <1>11, Beginnings
  <2> QED
    BY <1>8, <1>12, <2>1
<1>14. PICK d \in Received : d = [c EXCEPT !.text = t] /\ d.text = t /\ ~d.ended
  <2>1. [c EXCEPT !.text = t] \in Received /\ [c EXCEPT !.text = t].text = t
        /\ [c EXCEPT !.text = t].ended = c.ended
    BY DEF Received
  <2> QED
    BY <1>9, <2>1
<1>15. clients' = [clients EXCEPT ![i] = d]
  BY <1>7, <1>10, <1>13, <1>14
<1>16. d.text = SubSeq(requests[i].response, 1, end) /\ end <= Len(requests[i].response)
  BY <1>8, <1>11, <1>12, <1>14
<1>17. d.ended => end = Len(requests[i].response)
  BY <1>14
<1>18. clients[i] # None =>
         clients[i].text = SubSeq(requests[i].response, 1, sent) /\ ~clients[i].ended
  BY <1>8, <1>9
<1> QED
  BY <1>0, <1>8, <1>10, <1>11, <1>15, <1>16, <1>17, <1>18, Delivery

\* The last event is a delivery.
LEMMA LastYieldIsDeliver ==
  ASSUME AnswersInv, AnswersInv', NEW w \in Worker, YieldDone(w) \/ YieldCompleted(w)
  PROVE  \E r \in RequestId : Contract!Deliver(r)
<1>0. TypeOK /\ TypeOK' /\ InOrder(w)
  BY DEF AnswersInv
<1>1. /\ frames[w].at \in {"DONE", "completed"} /\ frames[w].at \in Streaming
      /\ clients' = [clients EXCEPT ![frames[w].id].ended = TRUE]
      /\ requests' = requests
  BY DEF YieldDone, YieldCompleted, YieldLast, Streaming
<1>2. PICK i \in RequestId, a \in Answer, c \in Received :
        i = frames[w].id /\ a = frames[w].answer /\ c = clients[i]
          /\ requests[i] # None /\ requests[i].response = a
          /\ ~c.ended /\ c.text = SubSeq(a, 1, frames[w].sent)
  <2>1. frames[w].at \in Recording \cup Streaming
    BY <1>1
  <2>2. /\ frames[w].id \in RequestId /\ frames[w].answer \in Answer
        /\ requests[frames[w].id] # None
        /\ requests[frames[w].id].response = frames[w].answer
        /\ clients[frames[w].id] \in Received
        /\ clients[frames[w].id].text = SubSeq(frames[w].answer, 1, frames[w].sent)
    BY <1>1, <2>1, OnRecord
  <2>3. ~clients[frames[w].id].ended
    BY <1>1, <2>1, OnRecord
  <2> QED
    BY <2>2, <2>3
<1>3. frames[w].sent = Len(a) /\ Len(a) \in Nat
  BY <1>0, <1>1, <1>2, Beginnings DEF InOrder
<1>4. PICK d \in Received : d = [c EXCEPT !.ended = TRUE] /\ d.text = c.text
  <2>1. [c EXCEPT !.ended = TRUE] \in Received /\ [c EXCEPT !.ended = TRUE].text = c.text
    BY DEF Received
  <2> QED
    BY <2>1
<1>5. clients' = [clients EXCEPT ![i] = d]
  BY <1>1, <1>2, <1>4
<1>6. clients[i].text = SubSeq(requests[i].response, 1, Len(a)) /\ ~clients[i].ended
  BY <1>2, <1>3
<1>7. d.text = SubSeq(requests[i].response, 1, Len(a)) /\ Len(a) <= Len(requests[i].response)
      /\ Len(a) <= Len(a) /\ Len(a) = Len(requests[i].response)
  BY <1>2, <1>3, <1>4
<1> QED
  BY <1>0, <1>1, <1>2, <1>3, <1>4, <1>5, <1>6, <1>7, Delivery

\* The endpoints keep the contract: whatever fails, a client has been sent the
\* beginning of the answer that is on record, and all of it when it is told so.
THEOREM ContractIsKept == Spec => AnswersKeepContract
<1>1. Init => Contract!Init
  BY DEF Init, Contract!Init, Recorded, Delivered, Finished
<1>2. AnswersInv /\ AnswersInv' /\ [Next]_vars =>
        [Contract!Next]_<< Recorded, Delivered, Finished >>
  <2> SUFFICES ASSUME AnswersInv, AnswersInv', [Next]_vars
               PROVE  Contract!Next \/ Stutters
    BY DEF Stutters
  <2>1. ASSUME NEW w \in Worker, Begin(w) PROVE Stutters
    BY <2>1, TablesStutter
       DEF Begin, BeginChat, BeginCompletion, BeginResponse, BeginEmbeddings, Accept
  <2>2. ASSUME NEW w \in Worker,
               EmbedWord(w) \/ EmbedBlock(w) \/ EmbedNext(w) \/ Emit(w) \/ StorageFails(w) \/ Disconnect(w)
        PROVE  Stutters
    BY <2>2, TablesStutter DEF EmbedWord, EmbedBlock, EmbedNext, Emit, StorageFails, Disconnect
  <2>3. ASSUME NEW w \in Worker, SilentYield(w) PROVE Stutters
    BY <2>3, TablesStutter
       DEF SilentYield, YieldRole, YieldStop, YieldCreated, YieldItemAdded, YieldItemDone, YieldOnly
  <2>4. ASSUME NEW w \in Worker, PersistRequest(w) PROVE Contract!Next
    BY <2>4, PersistIsRecord DEF Contract!Next
  <2>5. ASSUME NEW w \in Worker, Respond(w) PROVE Contract!Next
    BY <2>5, RespondIsDeliver DEF Contract!Next
  <2>6. ASSUME NEW w \in Worker, TextYield(w) PROVE Contract!Next
    BY <2>6, TextYieldIsDeliver DEF Contract!Next
  <2>7. ASSUME NEW w \in Worker, YieldDone(w) \/ YieldCompleted(w) PROVE Contract!Next
    BY <2>7, LastYieldIsDeliver DEF Contract!Next
  <2>8. CASE Crash \/ UNCHANGED vars
    BY <2>8, TablesStutter DEF Crash, vars
  <2>9. ASSUME NEW w \in Worker, Step(w) PROVE Contract!Next \/ Stutters
    BY <2>2, <2>3, <2>4, <2>5, <2>6, <2>7, <2>9 DEF Step, SilentYield, TextYield
  <2> QED
    BY <2>1, <2>2, <2>8, <2>9 DEF Next
<1>3. Spec => []AnswersInv
  BY AnswersInvariant
<1> QED
  BY <1>1, <1>2, <1>3, PTL DEF Spec, AnswersKeepContract, Contract!Spec

---------------------------------------------------------------------------
(* Every request comes to its end: the measure that each of its steps lowers. *)

\* What is left to send, and of a text that is embedded, to embed.
LEMMA StillToDo ==
  ASSUME AnswersInv, NEW w \in Worker, ~IsIdle(w)
  PROVE  LET f == frames[w] IN
         /\ f \in Frame /\ f.at \in Place /\ Len(f.answer) \in Nat /\ f.sent \in Nat
         /\ f.at # "embed" => f.sent <= Len(f.answer)
         /\ f.at \in {"DONE", "completed", "item_done"} => f.sent = Len(f.answer)
<1> DEFINE f == frames[w]
<1>1. f \in Frame /\ InOrder(w) /\ f.at \in Place /\ Len(f.answer) \in Nat /\ f.sent \in Nat
  BY DEF AnswersInv, TypeOK, Frame, IsIdle, Answer
<1>2. CASE f.at \in Streaming
  BY <1>1, <1>2, OnRecord DEF InOrder
<1>3. CASE f.at \in Beginning \cup Recording
  BY <1>1, <1>3 DEF InOrder, Beginning, Recording
<1> QED
  BY <1>1, <1>2, <1>3 DEF Place

\* StepsLeft at each place.
LEMMA MeasureAtPlaces ==
  ASSUME NEW f
  PROVE  /\ f.at = None => StepsLeft(f) = 0
         /\ f.at \in {"DONE", "completed"} => StepsLeft(f) = 1
         /\ f.at = "item_done" => StepsLeft(f) = 2
         /\ f.at = "words" => StepsLeft(f) = 2 + Unsent(f)
         /\ f.at \in {"word", "delta"} => StepsLeft(f) = 3 + Unsent(f)
         /\ f.at \in {"role", "item_added"} => StepsLeft(f) = 4 + Unsent(f)
         /\ f.at = "created" => StepsLeft(f) = 5 + Unsent(f)
         /\ f.at = "respond" => StepsLeft(f) = 6 + Unsent(f)
         /\ f.at = "append_log" => StepsLeft(f) = 7 + Unsent(f)
         /\ f.at = "create_request" => StepsLeft(f) = 8 + Unsent(f)
         /\ f.at = "embed" => StepsLeft(f) =
              9 + Len(f.request.texts) + StepsOfTexts(Unembedded(f))
                + 2 * (Dims - Len(f.vector)) + (IF f.word = BlockWords THEN 1 ELSE 0)
<1>1. \A p \in Place : p # None
  BY PlacesAreSomewhere
<1> QED
  BY <1>1 DEF StepsLeft, Place, Beginning, Recording, Streaming

\* One text more is so many steps more.
LEMMA OneTextMore ==
  ASSUME NEW n \in Nat \ {0}
  PROVE  /\ StepsOfTexts(n) \in Nat /\ StepsOfTexts(n - 1) \in Nat
         /\ StepsOfTexts(n) = StepsOfTexts(n - 1) + (2 * Dims + 1)
<1>1. ASSUME NEW k \in Nat, NEW m \in Nat
      PROVE  k * m \in Nat
  OBVIOUS
<1>2. ASSUME NEW m \in Nat
      PROVE  n * m = (n - 1) * m + m
  OBVIOUS
<1> DEFINE t == 2 * Dims + 1
<1>3. t \in Nat
  BY SizesAssumption
<1> HIDE DEF t
<1>4. n * t \in Nat /\ (n - 1) * t \in Nat /\ n * t = (n - 1) * t + t
  BY <1>1, <1>2, <1>3
<1>5. StepsOfTexts(n) = n * t /\ StepsOfTexts(n - 1) = (n - 1) * t
  BY DEF StepsOfTexts, t
<1> QED
  BY <1>4, <1>5 DEF t

\* In the embedding loop there is a text to embed.
LEMMA MeasureInLoop ==
  ASSUME AnswersInv, NEW w \in Worker, frames[w].at = "embed"
  PROVE  LET f == frames[w] IN
         /\ Unembedded(f) = Len(f.request.texts) - Len(f.answer)
         /\ Unembedded(f) \in Nat \ {0} /\ StepsOfTexts(Unembedded(f)) \in Nat
         /\ Len(f.request.texts) \in Nat /\ Len(f.answer) \in Nat
         /\ Len(f.vector) \in 0 .. Dims /\ Dims \in Nat
<1> DEFINE f == frames[w]
<1>1. f \in Frame /\ Embedding(f) /\ f.request.texts \in Seq(Text)
  BY InLoop
<1>2. /\ Len(f.request.texts) \in Nat /\ Len(f.answer) \in Nat /\ Len(f.vector) \in Nat
      /\ Len(f.answer) < Len(f.request.texts) /\ Len(f.vector) <= Dims
  BY <1>1 DEF Frame, Answer, Embedding
<1>3. Unembedded(f) = Len(f.request.texts) - Len(f.answer) /\ Unembedded(f) \in Nat \ {0}
  BY <1>2 DEF Unembedded
<1>4. StepsOfTexts(Unembedded(f)) \in Nat
  BY <1>3, OneTextMore
<1>5. Dims \in Nat
  BY SizesAssumption
<1>6. Len(f.vector) \in 0 .. Dims
  BY <1>2, <1>5
<1> QED
  BY <1>2, <1>3, <1>4, <1>5, <1>6

\* A request that has not ended has a step to go.
LEMMA MeasureIsPositive ==
  ASSUME AnswersInv, NEW w \in Worker, ~IsIdle(w)
  PROVE  StepsLeft(frames[w]) \in Nat \ {0}
<1> DEFINE f == frames[w]
<1>1. /\ f.at \in Place /\ Len(f.answer) \in Nat /\ f.sent \in Nat
      /\ f.at # "embed" => f.sent <= Len(f.answer)
  BY StillToDo
<1>2. CASE f.at = "embed"
  <2> DEFINE texts == Len(f.request.texts)
             floats == Len(f.vector)
             half == IF f.word = BlockWords THEN 1 ELSE 0
             rest == StepsOfTexts(Unembedded(f))
  <2>1. texts \in Nat /\ floats \in 0 .. Dims /\ Dims \in Nat /\ rest \in Nat /\ half \in Nat
    BY <1>2, MeasureInLoop
  <2>2. StepsLeft(f) = 9 + texts + rest + 2 * (Dims - floats) + half
    BY <1>2, MeasureAtPlaces
  <2> HIDE DEF texts, floats, half, rest
  <2> QED
    BY <2>1, <2>2
<1>3. CASE f.at # "embed"
  <2>1. Unsent(f) \in Nat
    BY <1>1, <1>3 DEF Unsent
  <2> QED
    BY <1>1, <1>3, <2>1, MeasureAtPlaces
       DEF Place, Beginning, Recording, Streaming
<1> QED
  BY <1>2, <1>3

\* The embedding loop.
LEMMA EmbeddingIsNearer ==
  ASSUME AnswersInv, NEW w \in Worker, EmbedWord(w) \/ EmbedBlock(w) \/ EmbedNext(w)
  PROVE  StepsLeft(frames'[w]) \in 0 .. StepsLeft(frames[w]) - 1
<1> DEFINE f == frames[w]
           h == frames'[w]
           n == Unembedded(f)
           texts == Len(f.request.texts)
           done == Len(f.answer)
           floats == Len(f.vector)
           half == IF f.word = BlockWords THEN 1 ELSE 0
<1> SUFFICES StepsLeft(h) \in 0 .. StepsLeft(f) - 1
  OBVIOUS
<1>1. f.at = "embed"
  BY DEF EmbedWord, EmbedBlock, EmbedNext
<1>2. /\ n = texts - done
      /\ n \in Nat \ {0} /\ texts \in Nat /\ done \in Nat
      /\ floats \in 0 .. Dims /\ Dims \in Nat /\ StepsOfTexts(n) \in Nat
  BY <1>1, MeasureInLoop
<1>3. /\ f \in Frame /\ f.vector \in Seq(HashWord) /\ f.answer \in Answer
      /\ f.word \in 0 .. BlockWords /\ f.sent = 0 /\ BlockWords \in Nat \ {0}
  BY <1>1, InLoop, SizesAssumption DEF Frame
<1>4. /\ StepsLeft(f) = 9 + texts + StepsOfTexts(n)
                          + 2 * (Dims - floats) + half
      /\ half \in {0, 1} /\ (f.word = BlockWords => half = 1) /\ (f.word # BlockWords => half = 0)
  BY <1>1, MeasureAtPlaces
<1>5. CASE EmbedWord(w)
  <2>1. /\ h = [f EXCEPT !.vector = Append(@, << TextToEmbed(f), f.block, f.word >>),
                         !.word = @ + 1]
        /\ floats < Dims /\ f.word < BlockWords
    BY <1>5 DEF EmbedWord, Continue, AnswersInv, TypeOK
  <2>2. /\ h.at = "embed" /\ h.request = f.request /\ h.answer = f.answer
        /\ Len(h.vector) = floats + 1 /\ Unembedded(h) = n
    BY <1>1, <1>3, <2>1 DEF Frame, Unembedded
  <2>3. \E e \in {0, 1} : StepsLeft(h) = 9 + texts + StepsOfTexts(n)
                            + 2 * (Dims - (floats + 1)) + e
    BY <2>2, MeasureAtPlaces
  <2>4. half = 0
    BY <1>3, <1>4, <2>1
  <2> HIDE DEF f, h, n, half, texts, done, floats
  <2> QED
    BY <1>2, <1>4, <2>1, <2>3, <2>4
<1>6. CASE EmbedBlock(w)
  <2>1. h = [f EXCEPT !.block = @ + 1, !.word = 0] /\ f.word = BlockWords
    BY <1>6 DEF EmbedBlock, Continue, AnswersInv, TypeOK
  <2>2. /\ h.at = "embed" /\ h.request = f.request /\ h.answer = f.answer
        /\ h.vector = f.vector /\ h.word = 0 /\ h.word # BlockWords /\ Unembedded(h) = n
    BY <1>1, <1>3, <2>1 DEF Frame, Unembedded
  <2>3. StepsLeft(h) = 9 + texts + StepsOfTexts(n)
                         + 2 * (Dims - floats) + 0
    BY <2>2, MeasureAtPlaces
  <2>4. half = 1
    BY <1>4, <2>1
  <2> HIDE DEF f, h, n, half, texts, done, floats
  <2> QED
    BY <1>2, <1>4, <2>3, <2>4
<1>7. CASE EmbedNext(w)
  <2>1. /\ h = [f EXCEPT !.answer = Append(f.answer, f.vector), !.vector = << >>,
                         !.block = 0, !.word = 0,
                         !.at = IF Len(Append(f.answer, f.vector)) = texts
                                THEN "create_request" ELSE "embed"]
        /\ floats >= Dims
    BY <1>7 DEF EmbedNext, Continue, AnswersInv, TypeOK
  <2>2. Len(Append(f.answer, f.vector)) = done + 1
    BY <1>3 DEF Answer
  <2>3. /\ h.answer = Append(f.answer, f.vector) /\ h.request = f.request /\ h.sent = 0
        /\ h.vector = << >> /\ h.word = 0 /\ h.word # BlockWords
        /\ h.at = IF done + 1 = texts THEN "create_request" ELSE "embed"
    BY <1>3, <2>1, <2>2 DEF Frame
  <2>4. Len(h.vector) = 0 /\ Unembedded(h) = n - 1 /\ Unsent(h) = done + 1
    <3>1. Len(h.answer) = done + 1 /\ Len(h.request.texts) = texts /\ Len(h.vector) = 0
      BY <2>2, <2>3
    <3>2. Unembedded(h) = texts - (done + 1) /\ Unsent(h) = (done + 1) - 0
      BY <2>3, <3>1 DEF Unembedded, Unsent
    <3> HIDE DEF f, h, n, texts, done
    <3> QED
      BY <1>2, <3>1, <3>2
  <2>5. /\ StepsOfTexts(n) = StepsOfTexts(n - 1) + (2 * Dims + 1)
        /\ StepsOfTexts(n - 1) \in Nat
    BY <1>2, OneTextMore
  <2>6. CASE h.at = "create_request"
    <3>1. StepsLeft(h) = 8 + (done + 1) /\ done + 1 = texts
      BY <2>3, <2>4, <2>6, MeasureAtPlaces
    <3> HIDE DEF f, h, n, half, texts, done, floats
    <3> QED
      BY <1>2, <1>4, <3>1
  <2>7. CASE h.at = "embed"
    <3>1. StepsLeft(h) = 9 + texts + StepsOfTexts(n - 1) + 2 * (Dims - 0) + 0
      BY <2>3, <2>4, <2>7, MeasureAtPlaces
    <3> HIDE DEF f, h, n, half, texts, done, floats
    <3> QED
      BY <1>2, <1>4, <2>1, <2>5, <3>1
  <2> QED
    BY <2>3, <2>6, <2>7
<1> QED
  BY <1>5, <1>6, <1>7

\* A generator.
LEMMA YieldingIsNearer ==
  ASSUME AnswersInv, NEW w \in Worker, SilentYield(w) \/ TextYield(w), frames'[w] # frames[w]
  PROVE  StepsLeft(frames'[w]) \in 0 .. StepsLeft(frames[w]) - 1
<1> DEFINE f == frames[w]
           h == frames'[w]
<1> SUFFICES StepsLeft(h) \in 0 .. StepsLeft(f) - 1
  OBVIOUS
<1>1. /\ f \in Frame /\ Len(f.answer) \in Nat /\ f.sent \in Nat /\ f.sent <= Len(f.answer)
  <2>1. f.at \in Streaming
    BY DEF SilentYield, YieldRole, YieldStop, YieldCreated, YieldItemAdded, YieldItemDone,
       YieldOnly, TextYield, YieldFirstWord, YieldNextWord, YieldDelta, Streaming
  <2>2. ~IsIdle(w) /\ f.at # "embed"
    BY <2>1, PlacesAreSomewhere DEF Streaming, Place, IsIdle
  <2> QED
    BY <2>2, StillToDo
<1>2. CASE SilentYield(w)
  <2>1. \/ f.at = "role" /\ h = [f EXCEPT !.at = "word"]
        \/ f.at = "words" /\ f.sent = Len(f.answer) /\ h = [f EXCEPT !.at = "DONE"]
        \/ f.at = "created" /\ h = [f EXCEPT !.at = "item_added"]
        \/ f.at = "item_added" /\ h = [f EXCEPT !.at = "delta"]
        \/ f.at = "item_done" /\ h = [f EXCEPT !.at = "completed"]
    BY <1>2 DEF SilentYield, YieldRole, YieldStop, YieldCreated, YieldItemAdded,
       YieldItemDone, YieldOnly, Continue, AnswersInv, TypeOK
  <2>2. /\ Unsent(h) = Unsent(f)
        /\ \/ f.at = "role" /\ h.at = "word"
           \/ f.at = "words" /\ f.sent = Len(f.answer) /\ h.at = "DONE"
           \/ f.at = "created" /\ h.at = "item_added"
           \/ f.at = "item_added" /\ h.at = "delta"
           \/ f.at = "item_done" /\ h.at = "completed"
    BY <1>1, <2>1 DEF Frame, Unsent
  <2>3. Unsent(f) \in Nat
    BY <1>1 DEF Unsent
  <2> HIDE DEF f, h
  <2> QED
    BY <2>2, <2>3, MeasureAtPlaces
<1>3. CASE TextYield(w)
  <2>1. PICK end \in f.sent .. Len(f.answer), to \in {"words", "delta", "item_done"} :
          YieldText(w, end, to) /\ (to = "item_done" => end = Len(f.answer))
    BY <1>3, TextYields
  <2>2. h = [f EXCEPT !.sent = end, !.at = to]
    BY <2>1 DEF YieldText, Continue, AnswersInv, TypeOK
  <2>3. /\ h.answer = f.answer /\ h.sent = end /\ h.at = to
        /\ Unsent(h) = Len(f.answer) - end /\ Unsent(f) = Len(f.answer) - f.sent
    BY <1>1, <2>2 DEF Frame, Unsent
  <2>4. \/ f.at = "word" /\ h.at = "words"
        \/ f.at = "words" /\ h.at = "words"
        \/ f.at = "delta" /\ h.at \in {"delta", "item_done"}
    <3>1. CASE YieldFirstWord(w)
      BY <1>1, <3>1 DEF YieldFirstWord, YieldText, Continue, AnswersInv, TypeOK, Frame
    <3>2. CASE YieldNextWord(w)
      BY <1>1, <3>2 DEF YieldNextWord, YieldText, Continue, AnswersInv, TypeOK, Frame
    <3>3. CASE YieldDelta(w)
      <4>1. f.at = "delta"
        BY <3>3 DEF YieldDelta
      <4>2. PICK go \in {"delta", "item_done"} : \E stop : YieldText(w, stop, go)
        BY <3>3 DEF YieldDelta
      <4>3. \E stop : h = [f EXCEPT !.sent = stop, !.at = go]
        BY <4>2 DEF YieldText, Continue, AnswersInv, TypeOK
      <4> QED
        BY <1>1, <4>1, <4>3 DEF Frame
    <3> QED
      BY <1>3, <3>1, <3>2, <3>3 DEF TextYield
  <2>5. f.sent < end \/ h.at # f.at
    <3>1. ASSUME end = f.sent, h.at = f.at
          PROVE  FALSE
      <4>1. f = [f EXCEPT !.sent = f.sent, !.at = f.at]
        BY <1>1 DEF Frame
      <4>2. h = f
        BY <2>2, <2>3, <3>1, <4>1
      <4> QED
        BY <4>2
    <3> QED
      BY <1>1, <2>1, <3>1
  <2> HIDE DEF f, h
  <2> QED
    BY <1>1, <2>1, <2>3, <2>4, <2>5, MeasureAtPlaces
<1> QED
  BY <1>2, <1>3

\* The storage calls and the response.
LEMMA RecordingIsNearer ==
  ASSUME AnswersInv, NEW w \in Worker, PersistRequest(w) \/ Emit(w) \/ Respond(w)
  PROVE  StepsLeft(frames'[w]) \in 0 .. StepsLeft(frames[w]) - 1
<1> DEFINE f == frames[w]
           h == frames'[w]
<1> SUFFICES StepsLeft(h) \in 0 .. StepsLeft(f) - 1
  OBVIOUS
<1>1. f.at \in {"create_request", "append_log", "respond"}
  BY DEF PersistRequest, Emit, Respond
<1>2. ~IsIdle(w)
  BY <1>1, PlacesAreSomewhere DEF IsIdle, Place, Beginning, Recording
<1>3. f \in Frame /\ Len(f.answer) \in Nat /\ f.sent \in Nat /\ f.sent <= Len(f.answer)
  BY <1>1, <1>2, StillToDo
<1>4. CASE h = Idle
  <2>1. StepsLeft(h) = 0
    BY <1>4, IdleIsFrame, MeasureAtPlaces
  <2> QED
    BY <1>2, <2>1, MeasureIsPositive
<1>5. CASE h # Idle
  <2>1. \/ f.at = "create_request" /\ \E r \in RequestId : h = [f EXCEPT !.at = "append_log", !.id = r]
        \/ f.at = "append_log" /\ h = [f EXCEPT !.at = "respond"]
        \/ f.at = "respond" /\ \E to \in {"created", "role"} : h = [f EXCEPT !.at = to]
    BY <1>5 DEF PersistRequest, Emit, Respond, Continue, AnswersInv, TypeOK
  <2>2. /\ Unsent(h) = Unsent(f)
        /\ \/ f.at = "create_request" /\ h.at = "append_log"
           \/ f.at = "append_log" /\ h.at = "respond"
           \/ f.at = "respond" /\ h.at \in {"created", "role"}
    BY <1>3, <2>1 DEF Frame, Unsent
  <2>3. Unsent(f) \in Nat
    BY <1>3 DEF Unsent
  <2> HIDE DEF f, h
  <2> QED
    BY <2>2, <2>3, MeasureAtPlaces
<1> QED
  BY <1>4, <1>5

\* Whatever changes a request brings it nearer its end.
LEMMA AnyStepIsNearer ==
  ASSUME AnswersInv, [Next]_vars, NEW w \in Worker, ~IsIdle(w), frames'[w] # frames[w]
  PROVE  StepsLeft(frames'[w]) \in 0 .. StepsLeft(frames[w]) - 1
<1>1. CASE frames'[w] = Idle
  <2>1. StepsLeft(frames'[w]) = 0
    BY <1>1, IdleIsFrame, MeasureAtPlaces
  <2> QED
    BY <2>1, MeasureIsPositive
<1>2. ASSUME NEW v \in Worker, v # w, Begin(v) \/ Step(v) \/ StorageFails(v) \/ Disconnect(v)
      PROVE  FALSE
  <2>1. ASSUME NEW h, Continue(v, h)
        PROVE  frames'[w] = frames[w]
    BY <1>2, <2>1 DEF Continue, AnswersInv, TypeOK
  <2>2. CASE Begin(v)
    BY <2>1, <2>2 DEF Begin, BeginChat, BeginCompletion, BeginResponse, BeginEmbeddings, Accept
  <2>3. CASE StorageFails(v) \/ Disconnect(v)
    BY <2>1, <2>3 DEF StorageFails, Disconnect
  <2>4. CASE EmbedWord(v) \/ EmbedBlock(v) \/ EmbedNext(v)
    BY <2>1, <2>4 DEF EmbedWord, EmbedBlock, EmbedNext
  <2>5. CASE PersistRequest(v) \/ Emit(v) \/ Respond(v)
    BY <2>1, <2>5 DEF PersistRequest, Emit, Respond
  <2>6. CASE SilentYield(v) \/ TextYield(v) \/ YieldDone(v) \/ YieldCompleted(v)
    BY <2>1, <2>6 DEF SilentYield, YieldRole, YieldStop, YieldCreated, YieldItemAdded,
       YieldItemDone, YieldOnly, TextYield, YieldFirstWord, YieldNextWord, YieldDelta, YieldText,
       YieldDone, YieldCompleted, YieldLast
  <2> QED
    BY <1>2, <2>2, <2>3, <2>4, <2>5, <2>6 DEF Step, SilentYield, TextYield
<1>3. CASE Crash
  BY <1>1, <1>3 DEF Crash
<1>4. CASE StorageFails(w) \/ Disconnect(w) \/ YieldDone(w) \/ YieldCompleted(w)
  <2>1. frames'[w] = Idle
    BY <1>4 DEF StorageFails, Disconnect, YieldDone, YieldCompleted, YieldLast, Continue,
       AnswersInv, TypeOK
  <2> QED
    BY <1>1, <2>1
<1>5. ~Begin(w)
  BY DEF Begin, BeginChat, BeginCompletion, BeginResponse, BeginEmbeddings, Accept
<1>6. CASE Step(w)
  BY <1>4, <1>6, EmbeddingIsNearer, YieldingIsNearer, RecordingIsNearer
     DEF Step, SilentYield, TextYield
<1>7. ~UNCHANGED vars
  BY DEF vars
<1> QED
  BY <1>2, <1>3, <1>4, <1>5, <1>6, <1>7 DEF Next

\* So a request takes no more steps than its StepsLeft, whatever its text, the chunk
\* length and the dimension, and whatever other requests do: the loop of
\* synthetic_embedding and the two generators come to their end.
THEOREM RequestsComeNearer == Spec => EachStepIsNearerTheEnd
<1>1. AnswersInv /\ [Next]_vars =>
        [ \A w \in Worker : ~IsIdle(w) /\ frames'[w] # frames[w] =>
            StepsLeft(frames'[w]) \in 0 .. StepsLeft(frames[w]) - 1 ]_vars
  BY AnyStepIsNearer
<1> QED
  BY <1>1, AnswersInvariant, PTL DEF Spec, EachStepIsNearerTheEnd
=============================================================================
