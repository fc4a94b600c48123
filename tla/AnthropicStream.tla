---------------------------- MODULE AnthropicStream ----------------------------
(***************************************************************************)
(* _stream_anthropic_response (litmoe/server.py): the generator that turns *)
(* the chunks of an OpenAI completion stream into Messages events.  Each   *)
(* action ends at one yield or at the read of the next chunk, because the  *)
(* client can leave at any of them.                                        *)
(*                                                                         *)
(* A chunk brings zero or more complete lines, each line a delta with some *)
(* reasoning, some text and some tool-call fragments, in that order; what  *)
(* the generator does depends only on the sequence of these parts.  Lines  *)
(* that carry none of them ([DONE], usage, finish_reason, what is not      *)
(* JSON) yield no event.                                                   *)
(***************************************************************************)
EXTENDS Integers, Sequences, SequencesExt

CONSTANTS
  Tool,        \* the indices upstream gives its tool calls
  Piece,       \* what upstream writes in one part: a text, some arguments
  NoEvent,
  MaxParts,    \* bound: parts a chunk brings
  MaxBlocks    \* bound: blocks a stream opens

Kind == {"thinking", "text"} \cup Tool
(* A fragment of a tool call may carry no arguments.                       *)
Part == [kind : Kind, payload : {TRUE}, piece : Piece] \cup [kind : Tool, payload : {FALSE}, piece : Piece]

ASSUME ToolsAreNew == Tool \cap {"thinking", "text", "tool_use", ""} = {}
ASSUME Bounds == MaxParts \in Nat /\ MaxBlocks \in Nat

VARIABLES
  pos,         \* where the generator is suspended
  parts,       \* what is left to translate of the chunks that were read
  blockOpen, blockIndex, blockType, toolBlocks,
  blocks,      \* what each block was opened for, as the client saw it
  wire,        \* the last event yielded
  last         \* the kind of the last part translated, for UpstreamOrder

vars == <<pos, parts, blockOpen, blockIndex, blockType, toolBlocks, blocks, wire, last>>
blockVars == <<blockOpen, blockIndex, blockType, toolBlocks, blocks>>

Positions == {"begin", "next", "signed", "stopped", "started", "finishing",
              "finish signed", "message_delta", "message_stop", "ended"}

TypeOf(k) == IF k \in Tool THEN "tool_use" ELSE k
Event(type, index, kind) == [type |-> type, index |-> index, kind |-> kind, piece |-> NoEvent]
Yield(type, index, kind) == wire' = Event(type, index, kind)
YieldDelta(index, p) == wire' = [Event("content_block_delta", index, p.kind) EXCEPT !.piece = p.piece]

(* Upstream streams its tool calls one after the other: a fragment of a    *)
(* call that is already known follows another fragment of the same call.   *)
UpstreamOrder(prev, known, ps) ==
  \A i \in DOMAIN ps : ps[i].kind \in Tool =>
    \/ ps[i].kind = IF i = 1 THEN prev ELSE ps[i - 1].kind
    \/ ps[i].kind \notin known /\ \A j \in 1..i - 1 : ps[j].kind # ps[i].kind

(* Text and reasoning go on in whatever block is open.                     *)
F_NeedsBlockAny(p) ==
  IF p.kind \in Tool THEN p.kind \notin DOMAIN toolBlocks ELSE ~blockOpen

(* Text and reasoning go on in an open block of their type; a tool call    *)
(* goes on in the block its first fragment opened.                         *)
NeedsBlock(p) ==
  IF p.kind \in Tool THEN p.kind \notin DOMAIN toolBlocks
                     ELSE ~blockOpen \/ blockType # p.kind

Translating == pos = "next" /\ parts # <<>>
Opening == Translating /\ NeedsBlock(Head(parts))

Init ==
  /\ pos = "begin"
  /\ parts = <<>>
  /\ blockOpen = FALSE /\ blockIndex = -1 /\ blockType = ""
  /\ toolBlocks = [t \in {} |-> 0]
  /\ blocks = <<>>
  /\ wire = NoEvent
  /\ last = ""

Begin ==
  /\ pos = "begin"
  /\ Yield("message_start", 0, NoEvent)
  /\ pos' = "next"
  /\ UNCHANGED <<parts, blockVars, last>>

Receive(ps) ==
  /\ pos = "next" /\ parts = <<>>
  /\ Len(blocks) + Len(ps) <= MaxBlocks
  /\ UpstreamOrder(last, DOMAIN toolBlocks, ps)
  /\ parts' = ps
  /\ UNCHANGED <<pos, blockVars, wire, last>>

Read == \E ps \in BoundedSeq(Part, MaxParts) : Receive(ps)

(* The thinking block that ends is signed first.                           *)
Sign ==
  /\ Opening /\ blockOpen /\ blockType = "thinking"
  /\ Yield("signature_delta", blockIndex, "thinking")
  /\ pos' = "signed"
  /\ UNCHANGED <<parts, blockVars, last>>

(* The signature is forgotten before a tool call.                          *)
F_StopUnsigned ==
  /\ \/ Opening /\ blockOpen
     \/ pos = "signed"
  /\ Yield("content_block_stop", blockIndex, blocks[blockIndex + 1])
  /\ pos' = "stopped"
  /\ UNCHANGED <<parts, blockVars, last>>

Stop ==
  /\ \/ Opening /\ blockOpen /\ blockType # "thinking"
     \/ pos = "signed"
  /\ Yield("content_block_stop", blockIndex, blocks[blockIndex + 1])
  /\ pos' = "stopped"
  /\ UNCHANGED <<parts, blockVars, last>>

Start ==
  /\ \/ Opening /\ ~blockOpen
     \/ pos = "stopped"
  /\ LET k == Head(parts).kind IN
       /\ blockIndex' = blockIndex + 1
       /\ blockType' = TypeOf(k)
       /\ blockOpen' = TRUE
       /\ toolBlocks' = IF k \in Tool
                          THEN [t \in DOMAIN toolBlocks \cup {k} |->
                                 IF t = k THEN blockIndex + 1 ELSE toolBlocks[t]]
                          ELSE toolBlocks
       /\ blocks' = Append(blocks, k)
       /\ Yield("content_block_start", blockIndex + 1, k)
  /\ pos' = "started"
  /\ UNCHANGED <<parts, last>>

(* The arguments that come with the first fragment of a call are skipped.  *)
F_DeltaSkipsFirst ==
  /\ pos = "started" \/ (Translating /\ ~NeedsBlock(Head(parts)))
  /\ LET p == Head(parts) IN
       IF p.payload /\ ~(p.kind \in Tool /\ pos = "started")
         THEN YieldDelta(IF p.kind \in Tool THEN toolBlocks[p.kind] ELSE blockIndex, p)
         ELSE UNCHANGED wire
  /\ parts' = Tail(parts)
  /\ last' = Head(parts).kind
  /\ pos' = "next"
  /\ UNCHANGED blockVars

Delta ==
  /\ pos = "started" \/ (Translating /\ ~NeedsBlock(Head(parts)))
  /\ LET p == Head(parts)
         index == IF p.kind \in Tool THEN toolBlocks[p.kind] ELSE blockIndex
     IN IF p.payload THEN YieldDelta(index, p) ELSE UNCHANGED wire
  /\ parts' = Tail(parts)
  /\ last' = Head(parts).kind
  /\ pos' = "next"
  /\ UNCHANGED blockVars

(* Upstream has ended its stream.                                          *)
Eof ==
  /\ pos = "next" /\ parts = <<>>
  /\ pos' = "finishing"
  /\ UNCHANGED <<parts, blockVars, wire, last>>

FinishSign ==
  /\ pos = "finishing" /\ blockOpen /\ blockType = "thinking"
  /\ Yield("signature_delta", blockIndex, "thinking")
  /\ pos' = "finish signed"
  /\ UNCHANGED <<parts, blockVars, last>>

FinishStop ==
  /\ \/ pos = "finishing" /\ blockOpen /\ blockType # "thinking"
     \/ pos = "finish signed"
  /\ Yield("content_block_stop", blockIndex, blocks[blockIndex + 1])
  /\ pos' = "message_delta"
  /\ UNCHANGED <<parts, blockVars, last>>

MessageDelta ==
  /\ (pos = "finishing" /\ ~blockOpen) \/ pos = "message_delta"
  /\ Yield("message_delta", 0, NoEvent)
  /\ pos' = "message_stop"
  /\ UNCHANGED <<parts, blockVars, last>>

MessageStop ==
  /\ pos = "message_stop"
  /\ Yield("message_stop", 0, NoEvent)
  /\ pos' = "ended"
  /\ UNCHANGED <<parts, blockVars, last>>

(* The upstream connection fails while a chunk is awaited.                 *)
Fail ==
  /\ pos = "next" /\ parts = <<>>
  /\ Yield("error", 0, NoEvent)
  /\ pos' = "ended"
  /\ UNCHANGED <<parts, blockVars, last>>

(* The client leaves, or a chunk cannot be interpreted: aclose() or the    *)
(* exception ends the generator where it is.                               *)
Leave ==
  /\ pos # "ended"
  /\ pos' = "ended"
  /\ UNCHANGED <<parts, blockVars, wire, last>>

Next ==
  \/ Begin \/ Read \/ Sign \/ Stop \/ Start \/ Delta
  \/ Eof \/ FinishSign \/ FinishStop \/ MessageDelta \/ MessageStop \/ Fail \/ Leave

Spec == Init /\ [][Next]_vars

----------------------------------------------------------------------------
(* The variables of the generator agree with what the client has seen: the *)
(* index and the type of the open block and the block of each tool call,   *)
(* which stays the open one as long as fragments of the call may come.     *)
BlocksAgree ==
  /\ blocks \in Seq(Kind)
  /\ blockOpen \in BOOLEAN
  /\ blockOpen <=> blocks # <<>>
  /\ blockIndex = Len(blocks) - 1
  /\ blockOpen => blockType = TypeOf(blocks[Len(blocks)])
  /\ DOMAIN toolBlocks \subseteq Tool
  /\ \A t \in DOMAIN toolBlocks :
       toolBlocks[t] \in 0..blockIndex /\ blocks[toolBlocks[t] + 1] = t

PositionAgrees ==
  /\ pos \in Positions
  /\ parts \in Seq(Part)
  /\ pos \in {"signed", "stopped"} => parts # <<>> /\ NeedsBlock(Head(parts)) /\ blockOpen
  /\ pos \in {"signed", "finish signed"} => blockOpen /\ blockType = "thinking"
  /\ pos = "message_delta" => blockOpen
  /\ pos = "started" =>
       /\ parts # <<>> /\ blockOpen
       /\ blocks[Len(blocks)] = Head(parts).kind
       /\ Head(parts).kind \in Tool =>
            /\ Head(parts).kind \in DOMAIN toolBlocks
            /\ toolBlocks[Head(parts).kind] = blockIndex

OrderKept ==
  /\ last \in Kind \cup {""}
  /\ pos = "begin" => last = "" /\ parts = <<>>
  /\ last \in Tool /\ pos = "next" =>
       last \in DOMAIN toolBlocks /\ toolBlocks[last] = blockIndex
  /\ pos \in {"next", "signed", "stopped"} => UpstreamOrder(last, DOMAIN toolBlocks, parts)
  /\ pos = "started" => UpstreamOrder(last, DOMAIN toolBlocks \ {Head(parts).kind}, parts)

StreamInv == BlocksAgree /\ PositionAgrees /\ OrderKept

(* What the client knows of the stream from the events it has received.    *)
Open == blockOpen /\ pos \notin {"stopped", "message_delta", "message_stop", "ended"}
Signed == pos \in {"signed", "finish signed"}
PhaseAt(p) == CASE p = "begin" -> "before"
                [] p = "message_stop" -> "closing"
                [] p = "ended" -> "ended"
                [] OTHER -> "content"

Messages == INSTANCE MessagesStream WITH
  Thinking <- "thinking", open <- Open, signed <- Signed, phase <- PhaseAt(pos)

(* Whatever the order of reasoning, text and sequential tool calls, and    *)
(* wherever the stream is cut, the client sees the Messages protocol: every *)
(* delta goes to the open block, of its own kind and of its own tool call. *)
ImplementsMessages == Messages!Spec
===============================================================================
