----------------------------- MODULE Conversation -----------------------------
(***************************************************************************)
(* A turn of a conversation over the Messages API: upstream's answer as    *)
(* the client puts it together from the streamed events, the same answer   *)
(* translated as a whole (_openai_to_anthropic), and the next request, in  *)
(* which the client sends it back with the results of its tool calls       *)
(* (_anthropic_to_openai).  A text is a sequence of pieces, each with its  *)
(* own number.                                                             *)
(***************************************************************************)
EXTENDS AnthropicStream

CONSTANT MaxSaid  \* bound: the parts of an answer

(* The pieces of an answer are told apart by their number.                 *)
ASSUME SaidBounded == MaxSaid \in Nat /\ 1..MaxSaid \subseteq Piece /\ NoEvent \notin Piece

VARIABLES
  said,   \* what upstream has sent, as it was read; a piece is a position here
  shown,  \* the content blocks the client has put together from the events
  reply   \* the content of its next message

turn == <<said, shown, reply>>
turnVars == <<vars, turn>>

Block(k, body) == [kind |-> k, body |-> body]

TurnInit == Init /\ said = <<>> /\ shown = <<>> /\ reply = <<>>

(* A set of positions in their order, and what a sequence has there.       *)
Ordered(S) == [n \in 1..Cardinality(S) |-> CHOOSE x \in S : Cardinality({y \in S : y <= x}) = n]
At(s, S) == LET order == Ordered(S) IN [n \in DOMAIN order |-> s[order[n]]]

(* The message that the deltas of a completion stream make up.             *)
Pieces(s, k) == Ordered({i \in DOMAIN s : s[i].kind = k /\ s[i].payload})
First(s) == Ordered({i \in DOMAIN s : s[i].kind \in Tool /\ \A j \in 1..i - 1 : s[j].kind # s[i].kind})
Message(s) ==
  [reasoning |-> Pieces(s, "thinking"), text |-> Pieces(s, "text"),
   calls |-> LET first == First(s)
             IN [n \in DOMAIN first |-> Block(s[first[n]].kind, Pieces(s, s[first[n]].kind))]]

NonEmpty(k, body) == IF body = <<>> THEN <<>> ELSE <<Block(k, body)>>

(* Thinking comes after the text it was for.                               *)
F_FromOpenAITextFirst(message) ==
  LET content == NonEmpty("text", message.text) \o NonEmpty("thinking", message.reasoning) \o message.calls
  IN IF content = <<>> THEN <<Block("text", <<>>)>> ELSE content

FromOpenAI(message) ==
  LET content == NonEmpty("thinking", message.reasoning) \o NonEmpty("text", message.text) \o message.calls
  IN IF content = <<>> THEN <<Block("text", <<>>)>> ELSE content

IsCall(b) == b.kind \in Tool
IsResult(b) == b.kind = "result"

OfKind(bs, k) == At(bs, {i \in DOMAIN bs : bs[i].kind = k})
Calls(bs) == At(bs, {i \in DOMAIN bs : IsCall(bs[i])})
Others(bs) == At(bs, {i \in DOMAIN bs : ~IsResult(bs[i])})

(* Text beside tool calls is dropped.                                      *)
F_AssistantCallsOnly(content) ==
  [role |-> "assistant", calls |-> Calls(content),
   texts |-> IF Calls(content) # <<>> THEN <<>> ELSE OfKind(content, "text")]

(* An assistant message: thinking is dropped, texts are joined.            *)
Assistant(content) ==
  [role |-> "assistant", calls |-> Calls(content), texts |-> OfKind(content, "text")]

Flushed(acc) ==
  IF acc.texts = <<>> THEN acc.messages ELSE Append(acc.messages, [role |-> "user", texts |-> acc.texts])

ResultMessage(b) == [role |-> "tool", call |-> b.call]

(* All texts go first.                                                     *)
F_UserTextFirst(content) ==
  LET results == OfKind(content, "result")
  IN Flushed([messages |-> <<>>, texts |-> Others(content)])
       \o [i \in DOMAIN results |-> ResultMessage(results[i])]

(* A user message: each tool result becomes a message of its own, the text *)
(* between them too; an image becomes a text that names its type.          *)
NoMessage == [messages |-> <<>>, texts |-> <<>>]
Add(acc, b) ==
  IF IsResult(b) THEN [messages |-> Append(Flushed(acc), ResultMessage(b)), texts |-> <<>>]
                 ELSE [acc EXCEPT !.texts = Append(@, b)]
User(content) == Flushed(FoldLeft(Add, NoMessage, content))

Request == <<Assistant(shown)>> \o User(reply)

-------------------------------------------------------------------------------
(* A chunk is read: its parts are numbered on.                             *)
Numbered(shape) == [i \in DOMAIN shape |->
  [kind |-> shape[i].kind, payload |-> shape[i].payload, piece |-> Len(said) + i]]

Hear ==
  /\ \E shape \in BoundedSeq([kind : Kind, payload : {TRUE}] \cup [kind : Tool, payload : {FALSE}], MaxParts) :
       /\ Len(said) + Len(shape) <= MaxSaid
       /\ Receive(Numbered(shape)) /\ said' = said \o Numbered(shape)
  /\ UNCHANGED <<shown, reply>>

(* What the client does with the event of a step.  No two events in a row  *)
(* are the same: the same event is none.                                   *)
See ==
  /\ shown' = IF wire' = wire THEN shown
              ELSE IF wire'.type = "content_block_start" THEN Append(shown, Block(wire'.kind, <<>>))
              ELSE IF wire'.type = "content_block_delta"
                     THEN [shown EXCEPT ![wire'.index + 1].body = Append(@, wire'.piece)]
              ELSE shown
  /\ UNCHANGED <<said, reply>>

Whole == pos = "ended" /\ wire = Event("message_stop", 0, NoEvent)

Answer(results, rest) ==
  [i \in DOMAIN results |-> [kind |-> "result", call |-> results[i]]] \o [i \in DOMAIN rest |-> [kind |-> rest[i]]]

(* The Messages API wants the results of all calls first.                  *)
Reply ==
  /\ Whole /\ reply = <<>>
  /\ \E results \in SetToSeqs({shown[i].kind : i \in {j \in DOMAIN shown : IsCall(shown[j])}}),
        rest \in BoundedSeq({"text", "image"}, 2) :
       reply' = Answer(results, rest)
  /\ UNCHANGED <<vars, said, shown>>

TurnNext ==
  \/ /\ \/ Begin \/ Sign \/ Stop \/ Start \/ Delta \/ Eof \/ FinishSign \/ FinishStop
        \/ MessageDelta \/ MessageStop \/ Fail \/ Leave
     /\ See
  \/ Hear
  \/ Reply

TurnSpec == TurnInit /\ [][TurnNext]_turnVars

-------------------------------------------------------------------------------
Bodies(bs) == FlattenSeq([i \in DOMAIN bs |-> bs[i].body])

(* What upstream has sent but for what is left of the chunk at hand.       *)
Translated == SubSeq(said, 1, Len(said) - Len(parts))

(* What the client has put together from the events is, at every yield,    *)
(* what upstream has sent up to the part being translated, and all of it   *)
(* when the next chunk is awaited: in order and of its kind, however       *)
(* reasoning, text and tool calls alternate and the stream was chunked.    *)
(* No delta is swallowed, repeated or given to another block or call.      *)
NothingDropped == \A k \in Kind : Bodies(OfKind(shown, k)) = Pieces(Translated, k)

(* A model that thinks, then writes, then calls tools.                     *)
Stage(k) == CASE k = "thinking" -> 0 [] k = "text" -> 1 [] OTHER -> 2
InStages == \A i, j \in DOMAIN said : i < j => Stage(said[i].kind) <= Stage(said[j].kind)

(* A streamed answer is, block by block, the one that stream=false gives;  *)
(* only an empty answer has one block, of empty text, in the latter.       *)
StreamedAsWhole == Whole /\ said # <<>> /\ InStages => shown = FromOpenAI(Message(said))

(* In the next request upstream finds its own text and calls, in order and *)
(* with their arguments, and the text unbroken unless it was interrupted:  *)
(* what keeps its prompt cache valid (llamacpp.py:110-114).                *)
AnswerReturns ==
  Whole => LET message == Message(said) answer == Assistant(shown) IN
    /\ answer.calls = message.calls
    /\ Bodies(answer.texts) = message.text
    /\ InStages => Len(answer.texts) <= 1

(* Chat templates want the result of every call, once each, before anybody *)
(* speaks: so it is in the next request, and the rest of what the client   *)
(* sent follows in one message.                                            *)
ResultsFollowCalls ==
  reply # <<>> => LET calls == Request[1].calls IN
    /\ \A c \in 1..Len(calls) :
         \E i \in 2..Len(calls) + 1 : Request[i] = [role |-> "tool", call |-> calls[c].kind]
    /\ SubSeq(Request, Len(calls) + 2, Len(Request))
         = Flushed([messages |-> <<>>, texts |-> Others(reply)])
===============================================================================
