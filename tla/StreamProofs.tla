----------------------------- MODULE StreamProofs -----------------------------
(* The stream translation keeps its variables in step with the client, and *)
(* so implements the Messages protocol; and in a turn of the conversation  *)
(* everything that upstream said, and every tool result, comes back to it  *)
(* in its place: whatever the tools and the bounds.                        *)
EXTENDS Conversation, FunctionTheorems, FiniteSetTheorems, SequenceTheorems, WellFoundedInduction, TLAPS

(* A smaller set of known tool calls leaves more orders open.              *)
LEMMA OrderMonotone ==
  ASSUME NEW prev, NEW known, NEW fewer, fewer \cap Tool \subseteq known,
         NEW ps, UpstreamOrder(prev, known, ps)
  PROVE  UpstreamOrder(prev, fewer, ps)
BY DEF UpstreamOrder

(* What is left after the first part follows the order after it.           *)
LEMMA OrderTail ==
  ASSUME NEW prev, NEW known, NEW ps \in Seq(Part), ps # <<>>,
         UpstreamOrder(prev, known, ps)
  PROVE  UpstreamOrder(Head(ps).kind, known \cup {Head(ps).kind}, Tail(ps))
<1> DEFINE rest == Tail(ps)
<1>1. /\ rest \in Seq(Part) /\ Len(rest) = Len(ps) - 1
      /\ \A i \in 1..Len(rest) : rest[i] = ps[i + 1]
      /\ Head(ps) = ps[1]
      /\ Len(ps) \in Nat \ {0}
  BY HeadTailProperties, EmptySeq
<1> SUFFICES ASSUME NEW i \in DOMAIN rest, rest[i].kind \in Tool
             PROVE \/ rest[i].kind = IF i = 1 THEN Head(ps).kind ELSE rest[i - 1].kind
                   \/ /\ rest[i].kind \notin known \cup {Head(ps).kind}
                      /\ \A j \in 1..i - 1 : rest[j].kind # rest[i].kind
  BY DEF UpstreamOrder
<1>2. i \in 1..Len(rest) /\ i + 1 \in DOMAIN ps /\ rest[i] = ps[i + 1]
  BY <1>1
<1>3. CASE ps[i + 1].kind = IF i + 1 = 1 THEN prev ELSE ps[i + 1 - 1].kind
  <2>1. ps[i + 1].kind = ps[i].kind
    BY <1>2, <1>3
  <2>2. CASE i = 1
    BY <1>1, <1>2, <2>1, <2>2
  <2>3. CASE i # 1
    <3>1. i - 1 \in 1..Len(rest) /\ rest[i - 1] = ps[i]
      BY <1>1, <1>2, <2>3
    <3> QED  BY <1>2, <2>1, <2>3, <3>1
  <2> QED  BY <2>2, <2>3
<1>4. CASE ps[i + 1].kind \notin known
           /\ \A j \in 1..i + 1 - 1 : ps[j].kind # ps[i + 1].kind
  <2>1. Head(ps).kind # rest[i].kind
    BY <1>1, <1>2, <1>4
  <2>2. ASSUME NEW j \in 1..i - 1 PROVE rest[j].kind # rest[i].kind
    <3>1. j \in 1..Len(rest) /\ j + 1 \in 1..i + 1 - 1
      BY <1>2
    <3>2. rest[j] = ps[j + 1]
      BY <1>1, <3>1
    <3> QED  BY <1>2, <1>4, <3>1, <3>2
  <2> QED  BY <1>2, <1>4, <2>1, <2>2
<1> QED  BY <1>2, <1>3, <1>4 DEF UpstreamOrder

(* At the head of the parts left, a call that is known is the last one.    *)
LEMMA KnownCallIsLast ==
  ASSUME NEW prev, NEW known, NEW ps \in Seq(Part), ps # <<>>,
         UpstreamOrder(prev, known, ps),
         Head(ps).kind \in Tool, Head(ps).kind \in known
  PROVE  Head(ps).kind = prev
<1>1. 1 \in DOMAIN ps /\ Head(ps) = ps[1]
  BY HeadTailProperties, EmptySeq
<1> QED  BY <1>1 DEF UpstreamOrder

LEMMA HeadIsPart ==
  ASSUME NEW ps \in Seq(Part), ps # <<>>
  PROVE  /\ Head(ps) \in Part /\ Tail(ps) \in Seq(Part)
         /\ Head(ps).kind \in Kind /\ Head(ps).piece \in Piece
<1>1. Head(ps) \in Part /\ Tail(ps) \in Seq(Part)
  BY HeadTailProperties
<1> QED  BY <1>1 DEF Part, Kind

LEMMA InvInit == Init => StreamInv
<1> SUFFICES ASSUME Init PROVE StreamInv
  OBVIOUS
<1>1. DOMAIN toolBlocks = {} /\ blocks = <<>> /\ ~blockOpen /\ blockIndex = -1
  BY DEF Init
<1>2. blocks \in Seq(Kind) /\ Len(blocks) = 0 /\ blockIndex = Len(blocks) - 1
  BY <1>1
<1>3. BlocksAgree
  <2>1. blockOpen <=> blocks # <<>>
    BY <1>1
  <2>2. blockOpen => blockType = TypeOf(blocks[Len(blocks)])
    BY <1>1
  <2>3. DOMAIN toolBlocks \subseteq Tool
    BY <1>1
  <2>4. \A t \in DOMAIN toolBlocks :
          toolBlocks[t] \in 0..blockIndex /\ blocks[toolBlocks[t] + 1] = t
    BY <1>1
  <2> QED  BY <1>2, <2>1, <2>2, <2>3, <2>4, Zenon DEF BlocksAgree
<1>4. PositionAgrees
  <2>1. pos = "begin" /\ parts = <<>>
    BY DEF Init
  <2> QED  BY <2>1 DEF PositionAgrees, Positions
<1>5. OrderKept
  BY ToolsAreNew DEF Init, OrderKept
<1> QED  BY <1>3, <1>4, <1>5 DEF StreamInv

(* Steps that yield and leave the blocks and the parts as they are.        *)
LEMMA BlocksStay ==
  ASSUME BlocksAgree, UNCHANGED blockVars PROVE BlocksAgree'
BY DEF BlocksAgree, blockVars, TypeOf

LEMMA PartsStay ==
  ASSUME StreamInv, UNCHANGED <<parts, blockVars, last>>
  PROVE  /\ parts' \in Seq(Part) /\ last' \in Kind \cup {""}
         /\ NeedsBlock(Head(parts))' = NeedsBlock(Head(parts))
         /\ UpstreamOrder(last, DOMAIN toolBlocks, parts)' =
              UpstreamOrder(last, DOMAIN toolBlocks, parts)
BY DEF StreamInv, PositionAgrees, OrderKept, blockVars, NeedsBlock, UpstreamOrder

LEMMA InvStep == StreamInv /\ [Next]_vars => StreamInv'
<1> SUFFICES ASSUME StreamInv, [Next]_vars PROVE StreamInv'
  OBVIOUS
<1> USE DEF StreamInv
<1>1. CASE Begin
  <2>1. BlocksAgree'
    BY <1>1, BlocksStay DEF Begin
  <2>2. PositionAgrees'
    BY <1>1, PartsStay DEF Begin, PositionAgrees, Positions
  <2>3. OrderKept'
    <3>1. last' = "" /\ parts' = <<>> /\ pos' = "next" /\ "" \notin Tool
      BY <1>1, ToolsAreNew DEF Begin, OrderKept
    <3>2. UpstreamOrder(last, DOMAIN toolBlocks, parts)'
      <4>1. DOMAIN parts' = 1..0
        <5>1. <<>> \in Seq(Part) /\ Len(<<>>) = 0
          BY EmptySeq
        <5>2. DOMAIN <<>> = 1..Len(<<>>)
          BY <5>1
        <5> QED  BY <3>1, <5>1, <5>2
      <4> SUFFICES ASSUME NEW i \in DOMAIN parts' PROVE FALSE
        BY DEF UpstreamOrder
      <4> QED  BY <4>1
    <3> QED  BY <3>1, <3>2 DEF OrderKept
  <2> QED  BY <2>1, <2>2, <2>3
<1>2. CASE Read
  <2>1. BlocksAgree'
    BY <1>2, BlocksStay DEF Read, Receive
  <2>2. PICK ps \in BoundedSeq(Part, MaxParts) :
          UpstreamOrder(last, DOMAIN toolBlocks, ps) /\ parts' = ps
    BY <1>2 DEF Read, Receive
  <2>3. ps \in Seq(Part)
    <3>1. PICK m \in 0..MaxParts : ps \in [1..m -> Part]
      BY DEF BoundedSeq, SeqOf
    <3>2. m \in Nat
      BY Bounds
    <3> QED  BY <3>1, <3>2, SeqDef
  <2>4. PositionAgrees'
    BY <1>2, <2>2, <2>3 DEF Read, Receive, PositionAgrees, Positions, blockVars
  <2>5. OrderKept'
    BY <1>2, <2>2 DEF Read, Receive, OrderKept, UpstreamOrder, blockVars
  <2> QED  BY <2>1, <2>4, <2>5
<1>3. CASE Sign
  <2>1. BlocksAgree'
    BY <1>3, BlocksStay DEF Sign
  <2>2. PositionAgrees'
    BY <1>3, PartsStay DEF Sign, Opening, Translating, PositionAgrees, Positions, blockVars
  <2>3. OrderKept'
    BY <1>3, PartsStay DEF Sign, Opening, Translating, OrderKept, blockVars
  <2> QED  BY <2>1, <2>2, <2>3
<1>4. CASE Stop
  <2>1. BlocksAgree'
    BY <1>4, BlocksStay DEF Stop
  <2>2. PositionAgrees'
    BY <1>4, PartsStay DEF Stop, Opening, Translating, PositionAgrees, Positions, blockVars
  <2>3. OrderKept'
    BY <1>4, PartsStay DEF Stop, Opening, Translating, OrderKept, blockVars
  <2> QED  BY <2>1, <2>2, <2>3
<1>5. CASE Eof \/ FinishSign \/ FinishStop \/ MessageDelta \/ MessageStop \/ Fail \/ Leave
  <2>1. UNCHANGED <<parts, blockVars, last>>
        /\ pos' \in {"finishing", "finish signed", "message_delta", "message_stop", "ended"}
    BY <1>5 DEF Eof, FinishSign, FinishStop, MessageDelta, MessageStop, Fail, Leave
  <2>2. BlocksAgree'
    BY <2>1, BlocksStay
  <2>3. PositionAgrees'
    <3>1. pos' = "finish signed" => blockOpen /\ blockType = "thinking"
      BY <1>5 DEF Eof, FinishSign, FinishStop, MessageDelta, MessageStop, Fail, Leave
    <3>2. pos' = "message_delta" => blockOpen
      BY <1>5 DEF Eof, FinishSign, FinishStop, MessageDelta, MessageStop, Fail, Leave,
                  PositionAgrees
    <3> QED  BY <2>1, <3>1, <3>2, PartsStay DEF PositionAgrees, Positions, blockVars
  <2>4. OrderKept'
    BY <2>1, PartsStay DEF OrderKept
  <2> QED  BY <2>2, <2>3, <2>4
<1>6. CASE UNCHANGED vars
  <2>1. BlocksAgree'
    BY <1>6, BlocksStay DEF vars, blockVars
  <2>2. PositionAgrees'
    BY <1>6 DEF vars, blockVars, PositionAgrees, NeedsBlock
  <2>3. OrderKept'
    BY <1>6 DEF vars, blockVars, OrderKept, UpstreamOrder
  <2> QED  BY <2>1, <2>2, <2>3
<1>7. CASE Start
  <2> DEFINE k == Head(parts).kind
             n == Len(blocks)
  <2>1. /\ parts # <<>> /\ NeedsBlock(Head(parts))
        /\ UpstreamOrder(last, DOMAIN toolBlocks, parts)
    BY <1>7 DEF Start, Opening, Translating, PositionAgrees, OrderKept
  <2>2. parts \in Seq(Part) /\ k \in Kind
    BY <2>1, HeadIsPart DEF PositionAgrees
  <2>3. /\ blocks \in Seq(Kind) /\ n \in Nat /\ blockIndex = n - 1
        /\ blocks' = Append(blocks, k) /\ blockIndex' = n
        /\ blockOpen' = TRUE /\ blockType' = TypeOf(k)
        /\ pos' = "started" /\ parts' = parts /\ last' = last
    BY <1>7 DEF Start, BlocksAgree
  <2>4. /\ blocks' \in Seq(Kind) /\ Len(blocks') = n + 1
        /\ blocks'[n + 1] = k
        /\ \A i \in 1..n : blocks'[i] = blocks[i]
    BY <2>2, <2>3, AppendProperties
  <2>5. /\ DOMAIN toolBlocks' = DOMAIN toolBlocks \cup ({k} \cap Tool)
        /\ \A t \in DOMAIN toolBlocks : t # k => toolBlocks'[t] = toolBlocks[t]
        /\ k \in Tool => toolBlocks'[k] = n
    BY <1>7, <2>3 DEF Start
  <2>6. BlocksAgree'
    <3>1. blockOpen' <=> blocks' # <<>>
      BY <2>3, <2>4
    <3>2. blockType' = TypeOf(blocks'[Len(blocks')])
      BY <2>3, <2>4
    <3>3. DOMAIN toolBlocks' \subseteq Tool
      BY <2>5 DEF BlocksAgree
    <3>4. ASSUME NEW t \in DOMAIN toolBlocks'
          PROVE  toolBlocks'[t] \in 0..blockIndex' /\ blocks'[toolBlocks'[t] + 1] = t
      <4>1. CASE t = k
        <5>1. k \in Tool
          BY <3>3, <4>1
        <5> QED  BY <2>3, <2>4, <2>5, <4>1, <5>1
      <4>2. CASE t # k
        <5>1. t \in DOMAIN toolBlocks /\ toolBlocks'[t] = toolBlocks[t]
          BY <2>5, <4>2
        <5>2. toolBlocks[t] \in 0..n - 1 /\ blocks[toolBlocks[t] + 1] = t
          BY <2>3, <5>1 DEF BlocksAgree
        <5> QED  BY <2>3, <2>4, <5>1, <5>2
      <4> QED  BY <4>1, <4>2
    <3>5. blockIndex' = Len(blocks') - 1
      BY <2>3, <2>4
    <3> QED  BY <2>4, <3>1, <3>2, <3>3, <3>4, <3>5, Zenon DEF BlocksAgree, TypeOf
  <2>7. PositionAgrees'
    BY <2>1, <2>2, <2>3, <2>4, <2>5 DEF PositionAgrees, Positions
  <2>8. OrderKept'
    <3>1. (DOMAIN toolBlocks' \ {k}) \cap Tool \subseteq DOMAIN toolBlocks
      BY <2>5
    <3>2. UpstreamOrder(last, DOMAIN toolBlocks' \ {k}, parts)
      BY <2>1, <3>1, OrderMonotone
    <3> QED  BY <2>3, <3>2 DEF OrderKept, UpstreamOrder
  <2> QED  BY <2>6, <2>7, <2>8
<1>8. CASE Delta
  <2> DEFINE k == Head(parts).kind
  <2>1. /\ parts # <<>> /\ parts \in Seq(Part)
        /\ pos' = "next" /\ parts' = Tail(parts) /\ last' = k /\ UNCHANGED blockVars
        /\ \/ pos = "started"
           \/ pos = "next" /\ ~NeedsBlock(Head(parts))
    BY <1>8 DEF Delta, Translating, PositionAgrees
  <2>2. k \in Kind /\ parts' \in Seq(Part)
    BY <2>1, HeadIsPart
  <2>3. BlocksAgree'
    BY <2>1, BlocksStay
  <2>4. PositionAgrees'
    BY <2>1, <2>2 DEF PositionAgrees, Positions
  <2>5. k \in Tool => k \in DOMAIN toolBlocks
    BY <2>1 DEF PositionAgrees, NeedsBlock
  <2>6. k \in Tool => toolBlocks[k] = blockIndex
    <3>1. CASE pos = "started"
      BY <3>1 DEF PositionAgrees
    <3>2. CASE pos = "next" /\ k \in Tool
      <4>1. k = last
        BY <2>1, <2>5, <3>2, KnownCallIsLast DEF OrderKept
      <4> QED  BY <3>2, <4>1 DEF OrderKept
    <3> QED  BY <2>1, <3>1, <3>2
  <2>7. PICK known : /\ UpstreamOrder(last, known, parts)
                     /\ DOMAIN toolBlocks \ {k} \subseteq known
    BY <2>1 DEF OrderKept
  <2>8. UpstreamOrder(k, known \cup {k}, Tail(parts))
    BY <2>1, <2>7, OrderTail
  <2>9. UpstreamOrder(k, DOMAIN toolBlocks, Tail(parts))
    BY <2>7, <2>8, OrderMonotone
  <2>10. OrderKept'
    BY <2>1, <2>2, <2>5, <2>6, <2>9 DEF OrderKept, UpstreamOrder, blockVars
  <2> QED  BY <2>3, <2>4, <2>10
<1> QED
  BY <1>1, <1>2, <1>3, <1>4, <1>5, <1>6, <1>7, <1>8 DEF Next

(* StreamInv holds of every stream, whatever upstream sends.               *)
THEOREM StreamSafe == Spec => []StreamInv
BY InvInit, InvStep, PTL DEF Spec
----------------------------------------------------------------------------
(* The refinement.                                                         *)

(* While the stream has content the open block is the last one, and its    *)
(* type says whether it is a thinking block.                               *)
LEMMA OpenBlock ==
  ASSUME StreamInv, blockOpen
  PROVE  /\ Len(blocks) \in Nat \ {0}
         /\ blockIndex = Len(blocks) - 1
         /\ blocks[blockIndex + 1] = blocks[Len(blocks)]
         /\ blocks[Len(blocks)] = "thinking" <=> blockType = "thinking"
<1>1. blocks \in Seq(Kind) /\ blocks # <<>> /\ blockIndex = Len(blocks) - 1
      /\ blockType = TypeOf(blocks[Len(blocks)])
  BY DEF StreamInv, BlocksAgree
<1>2. Len(blocks) \in Nat \ {0}
  BY <1>1, EmptySeq
<1>3. blockIndex + 1 = Len(blocks)
  BY <1>1, <1>2
<1>4. blocks[Len(blocks)] = "thinking" <=> blockType = "thinking"
  BY <1>1, ToolsAreNew DEF TypeOf
<1> QED  BY <1>1, <1>2, <1>3, <1>4

LEMMA IndexIsLast ==
  ASSUME StreamInv
  PROVE  /\ Len(blocks) \in Nat /\ blockIndex + 1 = Len(blocks)
         /\ DOMAIN toolBlocks # {} => blocks # <<>>
<1>1. blocks \in Seq(Kind) /\ blockIndex = Len(blocks) - 1
  BY DEF StreamInv, BlocksAgree
<1>2. Len(blocks) \in Nat
  BY <1>1
<1>3. blocks = <<>> => Len(blocks) = 0
  OBVIOUS
<1>4. ASSUME NEW t \in DOMAIN toolBlocks PROVE blocks # <<>>
  <2>1. toolBlocks[t] \in 0..blockIndex
    BY DEF StreamInv, BlocksAgree
  <2>2. blockIndex >= 0
    BY <1>1, <1>2, <2>1
  <2> QED  BY <1>1, <1>2, <1>3, <2>2
<1> QED  BY <1>1, <1>2, <1>4

(* A delta is for the last block, which is open.                           *)
LEMMA CurrentBlock ==
  ASSUME StreamInv, Delta
  PROVE  /\ blockOpen /\ blocks[Len(blocks)] = Head(parts).kind
         /\ Head(parts).kind \in Tool => toolBlocks[Head(parts).kind] = blockIndex
<1> DEFINE p == Head(parts)
<1>1. /\ pos \in {"next", "started"}
      /\ pos = "next" => ~NeedsBlock(p)
      /\ parts # <<>> /\ parts \in Seq(Part)
  BY DEF Delta, Translating, StreamInv, PositionAgrees
<1>2. p.kind \in Kind
  BY <1>1, HeadIsPart
<1>3. CASE pos = "started"
  BY <1>3 DEF StreamInv, PositionAgrees
<1>4. CASE pos = "next" /\ p.kind \in Tool
  <2>1. p.kind \in DOMAIN toolBlocks
    BY <1>1, <1>4 DEF NeedsBlock
  <2>2. p.kind = last
    BY <1>1, <1>4, <2>1, KnownCallIsLast DEF StreamInv, OrderKept
  <2>3. toolBlocks[p.kind] = blockIndex
    BY <1>4, <2>2 DEF StreamInv, OrderKept
  <2>4. blocks \in Seq(Kind) /\ blockIndex = Len(blocks) - 1
        /\ blockIndex \in 0..blockIndex /\ blocks[blockIndex + 1] = p.kind
    BY <2>1, <2>3 DEF StreamInv, BlocksAgree
  <2>5. blocks # <<>> /\ blockIndex + 1 = Len(blocks)
    BY <2>1, IndexIsLast
  <2>6. blockOpen
    BY <2>5 DEF StreamInv, BlocksAgree
  <2> QED  BY <2>3, <2>4, <2>5, <2>6
<1>5. CASE pos = "next" /\ p.kind \notin Tool
  <2>1. blockOpen /\ blockType = p.kind
    BY <1>1, <1>5 DEF NeedsBlock
  <2>2. p.kind \in {"thinking", "text"}
    BY <1>2, <1>5 DEF Kind
  <2>3. blockType = TypeOf(blocks[Len(blocks)])
    BY <2>1 DEF StreamInv, BlocksAgree
  <2> QED  BY <1>5, <2>1, <2>2, <2>3 DEF TypeOf
<1> QED  BY <1>1, <1>3, <1>4, <1>5

LEMMA Phases ==
  /\ PhaseAt("begin") = "before"
  /\ PhaseAt("message_stop") = "closing"
  /\ PhaseAt("ended") = "ended"
  /\ PhaseAt("next") = "content" /\ PhaseAt("signed") = "content"
  /\ PhaseAt("stopped") = "content" /\ PhaseAt("started") = "content"
  /\ PhaseAt("finishing") = "content" /\ PhaseAt("finish signed") = "content"
  /\ PhaseAt("message_delta") = "content"
BY DEF PhaseAt

LEMMA ViewIsBoolean ==
  /\ Open \in BOOLEAN /\ Signed \in BOOLEAN
  /\ Open' \in BOOLEAN /\ Signed' \in BOOLEAN
<1>1. Open \in BOOLEAN
  BY DEF Open
<1>2. Signed \in BOOLEAN
  BY DEF Signed
<1>3. Open' \in BOOLEAN
  BY DEF Open
<1>4. Signed' \in BOOLEAN
  BY DEF Signed
<1> QED  BY <1>1, <1>2, <1>3, <1>4

(* Moves between positions in which the client knows the same.             *)
LEMMA SameView ==
  ASSUME UNCHANGED blockOpen,
         pos \in {"stopped", "message_delta", "message_stop", "ended"} <=>
           pos' \in {"stopped", "message_delta", "message_stop", "ended"},
         pos \in {"signed", "finish signed"} <=> pos' \in {"signed", "finish signed"}
  PROVE  Open' = Open /\ Signed' = Signed
<1>1. (Open' <=> Open) /\ (Signed' <=> Signed)
  BY DEF Open, Signed
<1> QED  BY <1>1, ViewIsBoolean

LEMMA RefinesInit == Init => Messages!Init
<1> SUFFICES ASSUME Init PROVE Messages!Init
  OBVIOUS
<1>1. pos = "begin" /\ ~blockOpen /\ blocks = <<>> /\ wire = NoEvent
  BY DEF Init
<1> QED  BY <1>1, Phases DEF Messages!Init, Open, Signed

LEMMA RefinesStep ==
  StreamInv /\ StreamInv' /\ [Next]_vars => [Messages!Next]_(Messages!vars)
<1> SUFFICES ASSUME StreamInv, StreamInv', [Next]_vars
             PROVE  Messages!Next \/ UNCHANGED Messages!vars
  OBVIOUS
<1> USE Phases
<1>1. CASE Begin
  <2>1. Messages!MessageStart
    BY <1>1, SameView DEF Begin, Yield, Event, blockVars, Messages!MessageStart, Messages!Event
  <2> QED  BY <2>1 DEF Messages!Next
<1>2. CASE Read
  BY <1>2, SameView DEF Read, Receive, blockVars, Messages!vars
<1>3. CASE Sign
  <2>1. Messages!Signature
    BY <1>3, OpenBlock DEF Sign, Opening, Translating, Yield, Event, blockVars,
       Messages!Signature, Messages!Event, Messages!Current, Open, Signed
  <2> QED  BY <2>1 DEF Messages!Next
<1>4. CASE Stop
  <2>1. blockOpen /\ pos \in {"next", "signed"} /\ pos' = "stopped"
        /\ (pos = "next" => blockType # "thinking")
        /\ wire' = Event("content_block_stop", blockIndex, blocks[blockIndex + 1])
        /\ UNCHANGED blocks
    BY <1>4 DEF Stop, Opening, Translating, Yield, blockVars, StreamInv, PositionAgrees
  <2>2. wire' = Messages!Event("content_block_stop", Messages!Current, blocks[Len(blocks)])
    BY <2>1, OpenBlock DEF Event, Messages!Event, Messages!Current
  <2>3. blocks[Len(blocks)] = "thinking" => pos \in {"signed", "finish signed"}
    BY <2>1, OpenBlock
  <2>4. Messages!BlockStop
    BY <2>1, <2>2, <2>3 DEF Messages!BlockStop, Open, Signed
  <2> QED  BY <2>4 DEF Messages!Next
<1>5. CASE Start
  <2>1. /\ pos' = "started" /\ blockOpen'
        /\ blocks' = Append(blocks, Head(parts).kind)
        /\ wire' = Event("content_block_start", Len(blocks), Head(parts).kind)
        /\ pos \in {"next", "stopped"} /\ (pos = "next" => ~blockOpen)
        /\ Head(parts).kind \in Kind
    <3>1. parts # <<>> /\ parts \in Seq(Part)
      BY <1>5 DEF Start, Opening, Translating, StreamInv, PositionAgrees
    <3>2. blockIndex + 1 = Len(blocks)
      BY IndexIsLast
    <3>3. /\ pos \in {"next", "stopped"} /\ pos' = "started" /\ blockOpen'
          /\ pos = "next" => ~blockOpen
      BY <1>5 DEF Start, Opening, Translating
    <3>4. blocks' = Append(blocks, Head(parts).kind)
      BY <1>5 DEF Start
    <3>5. wire' = Event("content_block_start", Len(blocks), Head(parts).kind)
      BY <1>5, <3>2 DEF Start, Yield
    <3>6. Head(parts).kind \in Kind
      BY <3>1, HeadIsPart
    <3> QED  BY <3>3, <3>4, <3>5, <3>6
  <2>2. Messages!BlockStart(Head(parts).kind)
    BY <2>1 DEF Event, Messages!BlockStart, Messages!Event, Open, Signed
  <2> QED  BY <2>1, <2>2 DEF Messages!Next
<1>6. CASE Delta
  <2> DEFINE p == Head(parts)
  <2>1. /\ pos \in {"next", "started"} /\ pos' = "next"
        /\ UNCHANGED blockVars
        /\ pos = "next" => ~NeedsBlock(p)
        /\ parts # <<>> /\ parts \in Seq(Part)
    BY <1>6 DEF Delta, Translating, StreamInv, PositionAgrees
  <2>2. p.kind \in Kind
    BY <2>1, HeadIsPart
  <2>3. blockOpen /\ blocks[Len(blocks)] = p.kind
        /\ (p.kind \in Tool => toolBlocks[p.kind] = blockIndex)
    BY <1>6, CurrentBlock
  <2>4. CASE p.payload
    <3>1. wire' = [Event("content_block_delta", blockIndex, p.kind) EXCEPT !.piece = p.piece]
      BY <1>6, <2>3, <2>4 DEF Delta, YieldDelta
    <3>2. /\ wire' = [Messages!Event("content_block_delta", Messages!Current, blocks[Len(blocks)])
                       EXCEPT !.piece = p.piece]
          /\ p.piece \in Piece
      BY <2>1, <2>3, <3>1, OpenBlock, HeadIsPart DEF Event, Messages!Event, Messages!Current
    <3>3. UNCHANGED <<blockOpen, blocks>>
      BY <2>1 DEF blockVars
    <3>4. Open /\ ~Signed
      BY <2>1, <2>3 DEF Open, Signed
    <3>5. Open' = Open /\ Signed' = Signed
      BY <2>1, <3>3, SameView
    <3>6. Messages!BlockDelta
      BY <2>1, <2>3, <3>2, <3>3, <3>4, <3>5 DEF Messages!BlockDelta
    <3> QED  BY <3>6 DEF Messages!Next
  <2>5. CASE ~p.payload
    <3>1. UNCHANGED <<wire, blockOpen, blocks>>
      BY <1>6, <2>1, <2>5 DEF Delta, blockVars
    <3>2. Open' = Open /\ Signed' = Signed
      BY <2>1, <3>1, SameView
    <3> QED  BY <2>1, <3>1, <3>2 DEF Messages!vars
  <2> QED  BY <2>4, <2>5
<1>7. CASE Eof
  <2>1. Open' = Open /\ Signed' = Signed
    BY <1>7, SameView DEF Eof, blockVars
  <2> QED  BY <1>7, <2>1 DEF Eof, blockVars, Messages!vars
<1>8. CASE FinishSign
  <2>1. Messages!Signature
    BY <1>8, OpenBlock DEF FinishSign, Yield, Event, blockVars,
       Messages!Signature, Messages!Event, Messages!Current, Open, Signed
  <2> QED  BY <2>1 DEF Messages!Next
<1>9. CASE FinishStop
  <2>1. blockOpen /\ pos \in {"finishing", "finish signed"} /\ pos' = "message_delta"
        /\ (pos = "finishing" => blockType # "thinking")
        /\ wire' = Event("content_block_stop", blockIndex, blocks[blockIndex + 1])
        /\ UNCHANGED blocks
    BY <1>9 DEF FinishStop, Yield, blockVars, StreamInv, PositionAgrees
  <2>2. wire' = Messages!Event("content_block_stop", Messages!Current, blocks[Len(blocks)])
    BY <2>1, OpenBlock DEF Event, Messages!Event, Messages!Current
  <2>3. blocks[Len(blocks)] = "thinking" => pos \in {"signed", "finish signed"}
    BY <2>1, OpenBlock
  <2>4. Messages!BlockStop
    BY <2>1, <2>2, <2>3 DEF Messages!BlockStop, Open, Signed
  <2> QED  BY <2>4 DEF Messages!Next
<1>10. CASE MessageDelta
  <2>1. Messages!MessageDelta
    <3>1. ~Open /\ ~Open' /\ ~Signed /\ ~Signed'
      BY <1>10 DEF MessageDelta, blockVars, Open, Signed
    <3>2. Open' = Open /\ Signed' = Signed
      BY <3>1, ViewIsBoolean
    <3>3. /\ PhaseAt(pos) = "content" /\ PhaseAt(pos)' = "closing"
          /\ UNCHANGED blocks
          /\ wire' = Messages!Event("message_delta", 0, NoEvent)
      BY <1>10 DEF MessageDelta, Yield, Event, blockVars, Messages!Event
    <3> QED  BY <3>1, <3>2, <3>3 DEF Messages!MessageDelta
  <2> QED  BY <2>1 DEF Messages!Next
<1>11. CASE MessageStop
  BY <1>11 DEF MessageStop, Yield, Event, blockVars,
     Messages!Next, Messages!MessageStop, Messages!Ended, Messages!Event, Open, Signed
<1>12. CASE Fail
  BY <1>12 DEF Fail, Yield, Event, blockVars,
     Messages!Next, Messages!Error, Messages!Ended, Messages!Event, Open, Signed
<1>13. CASE Leave
  BY <1>13 DEF Leave, blockVars, Messages!Next, Messages!Cut, Messages!Ended, Open, Signed
<1>14. CASE UNCHANGED vars
  BY <1>14, SameView DEF vars, Messages!vars
<1> QED
  BY <1>1, <1>2, <1>3, <1>4, <1>5, <1>6, <1>7, <1>8, <1>9, <1>10, <1>11, <1>12,
     <1>13, <1>14 DEF Next

(* A client of any stream sees the Messages protocol.                      *)
THEOREM StreamImplements == Spec => ImplementsMessages
<1>1. Spec => []StreamInv
  BY StreamSafe
<1> QED
  BY <1>1, RefinesInit, RefinesStep, PTL DEF Spec, ImplementsMessages, Messages!Spec

-------------------------------------------------------------------------------
(* A turn of a conversation.  First, the sequences it is made of: sets of  *)
(* positions in their order, and what is put together from them.           *)

(* A set of natural numbers has a least one.                               *)
LEMMA Least ==
  ASSUME NEW T \in SUBSET Nat, T # {}
  PROVE  \E x \in T : \A y \in T : x <= y
<1> DEFINE R == {ss \in Nat \X Nat : ss[1] < ss[2]}
<1>1. IsWellFoundedOn(R, Nat)
  BY NatLessThanWellFounded DEF OpToRel
<1> HIDE DEF R
<1>2. \E x \in T : \A y \in T : ~ (<<y, x>> \in R)
  BY <1>1, WFMin
<1>3. \A x, y \in T : ~ (<<y, x>> \in R) => x <= y
  BY DEF R
<1> QED BY <1>2, <1>3

(* So a set with 0 and every successor has them all.                       *)
LEMMA Every ==
  ASSUME NEW T \in SUBSET Nat, 0 \in T, \A n \in T : n + 1 \in T
  PROVE  T = Nat
<1> SUFFICES ASSUME Nat \ T # {} PROVE FALSE
  OBVIOUS
<1>1. PICK n \in Nat \ T : \A y \in Nat \ T : n <= y
  BY Least
<1>2. n - 1 \in Nat /\ n - 1 < n
  BY <1>1
<1>3. n - 1 \in T
  BY <1>1, <1>2
<1> QED BY <1>1, <1>3

(* q enumerates S in order.                                                *)
Enumerates(q, m, S) ==
  /\ q \in [1..m -> S]
  /\ \A x \in S : \E i \in 1..m : q[i] = x
  /\ \A i, j \in 1..m : i < j => q[i] < q[j]

(* An enumeration goes on with the enumeration of what is greater.         *)
LEMMA EnumeratesConcat ==
  ASSUME NEW q \in Seq(Nat), NEW S \in SUBSET Nat, Enumerates(q, Len(q), S),
         NEW r \in Seq(Nat), NEW R \in SUBSET Nat, Enumerates(r, Len(r), R),
         \A x \in S, y \in R : x < y
  PROVE  q \o r \in Seq(Nat) /\ Enumerates(q \o r, Len(q \o r), S \cup R)
<1> DEFINE p == q \o r
           n == Len(q)
           m == Len(r)
<1>1. /\ p \in Seq(Nat) /\ Len(p) = n + m /\ n \in Nat /\ m \in Nat
      /\ \A i \in 1..n : p[i] = q[i]
      /\ \A i \in n + 1..n + m : p[i] = r[i - n]
  BY ConcatProperties, LenProperties
<1>2. \A i \in 1..n : q[i] \in S
  BY DEF Enumerates
<1>3. \A i \in 1..m : r[i] \in R
  BY DEF Enumerates
<1> HIDE DEF p, n, m
<1>4. \A i \in 1..n + m : i \in 1..n \/ (i \in n + 1..n + m /\ i - n \in 1..m)
  BY <1>1
<1>5. \A i \in 1..m : n + i \in n + 1..n + m /\ n + i \in 1..n + m /\ n + i - n = i
  BY <1>1
<1>6. \A i \in 1..n : i \in 1..n + m
  BY <1>1
<1>7. p \in [1..n + m -> S \cup R]
  <2>1. DOMAIN p = 1..n + m /\ p = [i \in DOMAIN p |-> p[i]]
    BY <1>1, LenProperties, SeqDef
  <2>2. \A i \in 1..n + m : p[i] \in S \cup R
    BY <1>1, <1>2, <1>3, <1>4
  <2> QED BY <2>1, <2>2
<1>8. \A y \in S \cup R : \E i \in 1..n + m : p[i] = y
  <2> SUFFICES ASSUME NEW y \in S \cup R PROVE \E i \in 1..n + m : p[i] = y
    OBVIOUS
  <2>1. CASE y \in S
    <3>1. PICK i \in 1..n : q[i] = y
      BY <2>1 DEF Enumerates, n
    <3> QED BY <1>1, <1>6, <3>1
  <2>2. CASE y \in R
    <3>1. PICK i \in 1..m : r[i] = y
      BY <2>2 DEF Enumerates, m
    <3>2. p[n + i] = r[n + i - n]
      BY <1>1, <1>5
    <3> QED BY <1>5, <3>1, <3>2
  <2> QED BY <2>1, <2>2
<1>9. ASSUME NEW i \in 1..n + m, NEW j \in 1..n + m, i < j PROVE p[i] < p[j]
  <2>1. CASE j \in 1..n
    <3>1. i \in 1..n
      BY <1>1, <1>9, <2>1
    <3>2. q[i] < q[j]
      BY <1>9, <2>1, <3>1 DEF Enumerates, n
    <3> QED BY <1>1, <2>1, <3>1, <3>2
  <2>2. CASE i \in 1..n /\ j \in n + 1..n + m /\ j - n \in 1..m
    BY <1>1, <1>2, <1>3, <2>2
  <2>3. CASE i \in n + 1..n + m /\ i - n \in 1..m
    <3>1. j \in n + 1..n + m /\ j - n \in 1..m /\ i - n < j - n
      BY <1>1, <1>9, <2>3
    <3>2. r[i - n] < r[j - n]
      BY <2>3, <3>1 DEF Enumerates, m
    <3> QED BY <1>1, <2>3, <3>1, <3>2
  <2> QED BY <1>4, <2>1, <2>2, <2>3
<1>10. Enumerates(p, n + m, S \cup R)
  BY <1>7, <1>8, <1>9 DEF Enumerates
<1> QED BY <1>1, <1>10 DEF p

(* The only enumeration of a set of natural numbers is the one in Ordered.  *)
LEMMA OrderedUnique ==
  ASSUME NEW S \in SUBSET Nat, NEW m \in Nat, NEW q, Enumerates(q, m, S)
  PROVE  IsFiniteSet(S) /\ Cardinality(S) = m /\ Ordered(S) = q
<1> USE DEF Enumerates
<1> DEFINE Upto(n) == {q[i] : i \in 1..n}
<1>1. \A i, j \in 1..m : q[i] = q[j] => i = j
  <2> SUFFICES ASSUME NEW i \in 1..m, NEW j \in 1..m, q[i] = q[j], i # j PROVE FALSE
    OBVIOUS
  <2>1. q[i] \in Nat
    OBVIOUS
  <2>2. i < j \/ j < i
    OBVIOUS
  <2> QED BY <2>1, <2>2
<1>2. ASSUME NEW n \in 0..m PROVE IsFiniteSet(Upto(n)) /\ Cardinality(Upto(n)) = n
  <2> DEFINE f == [i \in 1..n |-> q[i]]
  <2>1. 1..n \subseteq 1..m
    OBVIOUS
  <2>2. f \in Bijection(1..n, Upto(n))
    <3>1. f \in [1..n -> Upto(n)]
      OBVIOUS
    <3>2. \A a, b \in 1..n : f[a] = f[b] => a = b
      BY <1>1, <2>1
    <3>3. \A t \in Upto(n) : \E s \in 1..n : f[s] = t
      OBVIOUS
    <3> QED BY <3>1, <3>2, <3>3, Fun_IsBij
  <2>3. IsFiniteSet(1..n) /\ Cardinality(1..n) = n
    BY FS_Interval
  <2>4. ExistsBijection(1..n, Upto(n))
    BY <2>2 DEF ExistsBijection
  <2> HIDE DEF f, Upto
  <2> QED BY <2>3, <2>4, FS_Bijection
<1>3. Upto(m) = S
  OBVIOUS
<1>4. IsFiniteSet(S) /\ Cardinality(S) = m
  BY <1>2, <1>3
<1>5. ASSUME NEW n \in 1..m PROVE {y \in S : y <= q[n]} = Upto(n)
  <2>1. \A i \in 1..n : q[i] \in S /\ q[i] <= q[n]
    <3> TAKE i \in 1..n
    <3>1. i \in 1..m /\ (i < n \/ i = n)
      OBVIOUS
    <3>2. q[i] \in Nat /\ q[n] \in Nat
      BY <3>1
    <3> QED BY <3>1, <3>2
  <2>2. ASSUME NEW y \in S, y <= q[n] PROVE y \in Upto(n)
    <3>1. PICK i \in 1..m : q[i] = y
      OBVIOUS
    <3>2. ~(n < i)
      <4>1. n < i => q[n] < q[i]
        BY <3>1
      <4>2. q[n] \in Nat /\ q[i] \in Nat
        BY <3>1
      <4> QED BY <2>2, <3>1, <4>1, <4>2
    <3>3. i \in 1..n
      BY <3>1, <3>2
    <3> QED BY <3>1, <3>3
  <2> QED BY <2>1, <2>2
<1>6. ASSUME NEW n \in 1..m
      PROVE  q[n] = CHOOSE x \in S : Cardinality({y \in S : y <= x}) = n
  <2>1. \A k \in 1..m : Cardinality({y \in S : y <= q[k]}) = k
    <3> TAKE k \in 1..m
    <3>1. {y \in S : y <= q[k]} = Upto(k) /\ k \in 0..m
      BY <1>5
    <3> HIDE DEF Upto
    <3> QED BY <1>2, <3>1
  <2>2. q[n] \in S
    OBVIOUS
  <2>3. \A x \in S : Cardinality({y \in S : y <= x}) = n => x = q[n]
    <3> SUFFICES ASSUME NEW x \in S, Cardinality({y \in S : y <= x}) = n PROVE x = q[n]
      OBVIOUS
    <3>1. PICK k \in 1..m : q[k] = x
      OBVIOUS
    <3> QED BY <2>1, <3>1
  <2> QED BY <2>1, <2>2, <2>3
<1>7. Ordered(S) = [n \in 1..m |-> q[n]]
  BY <1>4, <1>6 DEF Ordered
<1> QED BY <1>4, <1>7

(* And there is one.                                                       *)
LEMMA OrderedIs ==
  ASSUME NEW n \in Nat, NEW S \in SUBSET (1..n)
  PROVE  /\ IsFiniteSet(S) /\ Cardinality(S) \in Nat
         /\ Enumerates(Ordered(S), Cardinality(S), S)
<1> DEFINE T == {k \in Nat : \A R \in SUBSET (1..k) : \E m \in Nat : \E q : Enumerates(q, m, R)}
<1>1. 0 \in T
  <2>1. 1..0 = {}
    OBVIOUS
  <2>2. Enumerates([i \in 1..0 |-> 0], 0, {})
    BY <2>1 DEF Enumerates
  <2> QED BY <2>1, <2>2
<1>2. ASSUME NEW k \in T PROVE k + 1 \in T
  <2> SUFFICES ASSUME NEW R \in SUBSET (1..k + 1) PROVE \E m \in Nat : \E q : Enumerates(q, m, R)
    BY <1>2
  <2>1. R \ {k + 1} \in SUBSET (1..k)
    BY <1>2
  <2>2. PICK m \in Nat : \E q : Enumerates(q, m, R \ {k + 1})
    BY <1>2, <2>1
  <2>3. PICK q : Enumerates(q, m, R \ {k + 1})
    BY <2>2
  <2>4. CASE k + 1 \notin R
    <3>1. R \ {k + 1} = R
      BY <2>4
    <3> QED BY <2>3, <3>1
  <2>5. CASE k + 1 \in R
    <3> DEFINE p == [i \in 1..m + 1 |-> IF i = m + 1 THEN k + 1 ELSE q[i]]
    <3>1. p \in [1..m + 1 -> R]
      BY <2>3, <2>5 DEF Enumerates
    <3>2. \A x \in R : \E i \in 1..m + 1 : p[i] = x
      <4> SUFFICES ASSUME NEW x \in R PROVE \E i \in 1..m + 1 : p[i] = x
        OBVIOUS
      <4>1. CASE x = k + 1
        <5>1. m + 1 \in 1..m + 1
          BY <2>3
        <5> QED BY <4>1, <5>1
      <4>2. CASE x # k + 1
        <5>1. PICK i \in 1..m : q[i] = x
          BY <2>3, <4>2 DEF Enumerates
        <5>2. i \in 1..m + 1 /\ i # m + 1
          BY <2>3
        <5> QED BY <5>1, <5>2
      <4> QED BY <4>1, <4>2
    <3>3. ASSUME NEW i \in 1..m + 1, NEW j \in 1..m + 1, i < j PROVE p[i] < p[j]
      <4>0. i \in 1..m
        BY <2>3, <3>3
      <4>1. i \in 1..m /\ p[i] = q[i] /\ q[i] \in 1..k
        <5>1. q[i] \in R \ {k + 1}
          BY <2>3, <4>0 DEF Enumerates
        <5>2. p[i] = q[i]
          BY <2>3, <4>0
        <5> QED BY <2>1, <4>0, <5>1, <5>2
      <4>2. CASE j = m + 1
        BY <1>2, <4>1, <4>2
      <4>3. CASE j # m + 1
        <5>1. j \in 1..m /\ p[j] = q[j]
          BY <4>3
        <5> QED BY <2>3, <3>3, <4>1, <5>1 DEF Enumerates
      <4> QED BY <4>2, <4>3
    <3>4. Enumerates(p, m + 1, R)
      BY <3>1, <3>2, <3>3 DEF Enumerates
    <3> QED BY <3>4
  <2> QED BY <2>4, <2>5
<1>3. T = Nat
  <2> HIDE DEF T
  <2>1. T \in SUBSET Nat
    BY DEF T
  <2> QED BY <1>1, <1>2, <2>1, Every
<1>4. PICK m \in Nat : \E q : Enumerates(q, m, S)
  BY <1>3
<1>5. S \in SUBSET Nat
  OBVIOUS
<1> QED BY <1>4, <1>5, OrderedUnique

(* What At selects from a sequence.                                        *)
LEMMA AtIs ==
  ASSUME NEW X, NEW s \in Seq(X), NEW S \in SUBSET (1..Len(s))
  PROVE  /\ At(s, S) \in Seq(X) /\ Len(At(s, S)) = Cardinality(S) /\ Cardinality(S) \in Nat
         /\ Ordered(S) \in [1..Cardinality(S) -> S]
         /\ \A n \in 1..Cardinality(S) : At(s, S)[n] = s[Ordered(S)[n]]
<1>1. Len(s) \in Nat /\ DOMAIN s = 1..Len(s) /\ \A i \in 1..Len(s) : s[i] \in X
  BY LenProperties, ElementOfSeq
<1>2. Cardinality(S) \in Nat /\ Ordered(S) \in [1..Cardinality(S) -> S]
  BY <1>1, OrderedIs DEF Enumerates
<1>3. At(s, S) = [n \in 1..Cardinality(S) |-> s[Ordered(S)[n]]]
  BY <1>2 DEF At
<1>4. At(s, S) \in [1..Cardinality(S) -> X]
  BY <1>1, <1>2, <1>3
<1>5. At(s, S) \in Seq(X)
  BY <1>2, <1>4, SeqDef
<1> QED BY <1>2, <1>3, <1>4, <1>5, LenProperties

(* The recursion in FlattenSeq has a solution.                             *)
Flattens(f, ss, n) == f = [i \in 1..n |-> IF i = 1 THEN ss[i] ELSE f[i - 1] \o ss[i]]

LEMMA FlattenExists ==
  ASSUME NEW ss, NEW n \in Nat
  PROVE  \E f : Flattens(f, ss, n)
<1> DEFINE T == {k \in Nat : \E f : Flattens(f, ss, k)}
<1>1. 0 \in T
  <2>1. Flattens([i \in 1..0 |-> 0], ss, 0)
    BY DEF Flattens
  <2> QED BY <2>1
<1>2. ASSUME NEW k \in T PROVE k + 1 \in T
  <2>1. PICK f : Flattens(f, ss, k)
    BY <1>2
  <2> DEFINE g == [i \in 1..k + 1 |->
                     IF i = k + 1 THEN IF i = 1 THEN ss[i] ELSE f[i - 1] \o ss[i] ELSE f[i]]
  <2>2. \A i \in 1..k : g[i] = f[i]
    BY <1>2
  <2>3. \A i \in 1..k : f[i] = IF i = 1 THEN ss[i] ELSE f[i - 1] \o ss[i]
    BY <2>1 DEF Flattens
  <2>4. ASSUME NEW i \in 1..k + 1 PROVE g[i] = IF i = 1 THEN ss[i] ELSE g[i - 1] \o ss[i]
    <3>1. i # 1 => i - 1 \in 1..k /\ g[i - 1] = f[i - 1]
      BY <1>2, <2>2
    <3>2. CASE i = k + 1
      BY <3>1, <3>2
    <3>3. CASE i # k + 1
      <4>1. i \in 1..k
        BY <1>2, <3>3
      <4> QED BY <2>2, <2>3, <3>1, <4>1
    <3> QED BY <3>2, <3>3
  <2>5. Flattens(g, ss, k + 1)
    BY <2>4 DEF Flattens
  <2> QED BY <1>2, <2>5
<1>3. T = Nat
  <2> HIDE DEF T
  <2>1. T \in SUBSET Nat
    BY DEF T
  <2> QED BY <1>1, <1>2, <2>1, Every
<1> QED BY <1>3

(* Sequences that grow, one after the other and each in itself, make up     *)
(* the enumeration of what they have.                                      *)
LEMMA FlattenIs ==
  ASSUME NEW N \in Nat, NEW ss \in [1..N -> Seq(Nat)], NEW S \in SUBSET Nat,
         \A a \in 1..N : \A i, j \in 1..Len(ss[a]) : i < j => ss[a][i] < ss[a][j],
         \A a, b \in 1..N : \A i \in 1..Len(ss[a]), j \in 1..Len(ss[b]) :
           a < b => ss[a][i] < ss[b][j],
         \A a \in 1..N : \A i \in 1..Len(ss[a]) : ss[a][i] \in S,
         \A x \in S : \E a \in 1..N : \E i \in 1..Len(ss[a]) : x = ss[a][i]
  PROVE  FlattenSeq(ss) = Ordered(S)
<1>1. ss \in Seq(Seq(Nat)) /\ Len(ss) = N /\ DOMAIN ss = 1..N
  BY SeqDef, LenProperties
<1>2. CASE N = 0
  <2>1. 1..0 = {} /\ S = {}
    BY <1>2
  <2>2. Enumerates(ss, 0, {})
    BY <1>2, <2>1 DEF Enumerates
  <2>3. Ordered(S) = ss
    BY <2>1, <2>2, OrderedUnique
  <2> QED BY <1>1, <1>2, <2>3 DEF FlattenSeq
<1>3. CASE N # 0
  <2> DEFINE f == CHOOSE g : Flattens(g, ss, N)
  <2>1. Flattens(f, ss, N)
    BY FlattenExists
  <2>2. FlattenSeq(ss) = f[N]
    BY <1>1, <1>3 DEF FlattenSeq, Flattens
  <2> HIDE DEF f
  <2>3. /\ f[1] = ss[1]
        /\ \A n \in 1..N : n # 1 => f[n] = f[n - 1] \o ss[n]
    <3>1. \A n \in 1..N : f[n] = IF n = 1 THEN ss[n] ELSE f[n - 1] \o ss[n]
      <4>1. f = [n \in 1..N |-> IF n = 1 THEN ss[n] ELSE f[n - 1] \o ss[n]]
        BY <2>1 DEF Flattens
      <4> QED BY <4>1, Zenon
    <3>2. 1 \in 1..N
      BY <1>3
    <3> QED BY <3>1, <3>2
  <2> DEFINE Part1(n) == {x \in S : \E a \in 1..n : \E i \in 1..Len(ss[a]) : x = ss[a][i]}
             Good(n) == f[n] \in Seq(Nat) /\ Enumerates(f[n], Len(f[n]), Part1(n))
             T == {n \in Nat : n \in 1..N => Good(n)}
  <2>4. 0 \in T
    OBVIOUS
  <2>5. ASSUME NEW n \in T, n + 1 \in 1..N PROVE Good(n + 1)
    <3>1. ss[n + 1] \in Seq(Nat) /\ Len(ss[n + 1]) \in Nat
          /\ \A i \in 1..Len(ss[n + 1]) : ss[n + 1][i] \in Nat
      BY <2>5, LenProperties, ElementOfSeq
    <3>2. CASE n = 0
      <4>1. f[n + 1] = ss[1] /\ ss[1] \in Seq(Nat) /\ DOMAIN ss[1] = 1..Len(ss[1])
        BY <2>3, <3>1, <3>2, LenProperties
      <4>2. \A i \in 1..Len(ss[1]) : ss[1][i] \in Part1(1)
        BY <2>5, <3>2
      <4>3. ss[1] \in [1..Len(ss[1]) -> Part1(1)]
        BY <4>1, <4>2, SeqDef
      <4>4. \A x \in Part1(1) : \E i \in 1..Len(ss[1]) : ss[1][i] = x
        OBVIOUS
      <4> QED BY <2>5, <3>2, <4>1, <4>3, <4>4 DEF Enumerates
    <3>3. CASE n # 0
      <4> DEFINE q == f[n]
                 r == ss[n + 1]
      <4>1. n \in 1..N /\ Good(n)
        BY <2>5, <3>3
      <4>2. q \in Seq(Nat) /\ Len(q) \in Nat /\ Enumerates(q, Len(q), Part1(n))
        BY <4>1, LenProperties
      <4>3. f[n + 1] = q \o r
        <5>1. n \in Nat /\ n + 1 # 1 /\ n + 1 - 1 = n
          BY <3>3
        <5>2. f[n + 1] = f[n + 1 - 1] \o ss[n + 1]
          <6> HIDE DEF Good, q, r
          <6>1. \A m \in 1..N : m # 1 => f[m] = f[m - 1] \o ss[m]
            BY <2>3
          <6>2. PICK m \in 1..N : m = n + 1 /\ m # 1
            BY <2>5, <5>1
          <6>3. f[m] = f[m - 1] \o ss[m]
            BY <6>1, <6>2
          <6>4. m - 1 = n + 1 - 1
            BY <6>2
          <6> QED BY <6>2, <6>3, <6>4
        <5> QED BY <5>1, <5>2
      <4> HIDE DEF q, r
      <4> DEFINE R == {x \in S : \E i \in 1..Len(r) : x = r[i]}
      <4>4. Enumerates(r, Len(r), R) /\ R \in SUBSET Nat
        <5>1. r \in [1..Len(r) -> R]
          <6>1. DOMAIN r = 1..Len(r) /\ r = [i \in DOMAIN r |-> r[i]]
            BY <3>1, LenProperties, SeqDef DEF r
          <6>2. \A i \in 1..Len(r) : r[i] \in R
            BY <2>5 DEF r
          <6> HIDE DEF R
          <6> QED BY <6>1, <6>2
        <5>2. \A i, j \in 1..Len(r) : i < j => r[i] < r[j]
          BY <2>5 DEF r
        <5> QED BY <5>1, <5>2 DEF Enumerates
      <4>5. \A x \in Part1(n), y \in R : x < y
        <5> SUFFICES ASSUME NEW x \in Part1(n), NEW y \in R PROVE x < y
          OBVIOUS
        <5>1. PICK a \in 1..n : \E k \in 1..Len(ss[a]) : x = ss[a][k]
          OBVIOUS
        <5>2. a \in 1..N /\ a < n + 1
          BY <4>1
        <5>3. PICK k \in 1..Len(ss[a]) : x = ss[a][k]
          BY <5>1
        <5>4. PICK j \in 1..Len(r) : y = r[j]
          OBVIOUS
        <5>5. ss[a][k] < ss[n + 1][j]
          <6> HIDE DEF Part1, R
          <6> QED BY <2>5, <5>2, <5>4 DEF r
        <5> QED BY <5>3, <5>4, <5>5 DEF r
      <4>6. Part1(n + 1) = Part1(n) \cup R
        <5>1. \A a \in 1..n + 1 : a \in 1..n \/ a = n + 1
          BY <2>5
        <5>2. n + 1 \in 1..n + 1 /\ 1..n \subseteq 1..n + 1
          BY <2>5
        <5> QED BY <5>1, <5>2 DEF r
      <4>7. Part1(n) \in SUBSET Nat
        OBVIOUS
      <4> HIDE DEF Part1, R
      <4>8. q \o r \in Seq(Nat) /\ Enumerates(q \o r, Len(q \o r), Part1(n) \cup R)
        BY <3>1, <4>2, <4>4, <4>5, <4>7, EnumeratesConcat DEF r
      <4> QED BY <4>3, <4>6, <4>8
    <3> QED BY <3>2, <3>3
  <2>6. \A n \in T : n + 1 \in T
    <3> HIDE DEF Good
    <3> SUFFICES ASSUME NEW n \in T PROVE n + 1 \in T
      OBVIOUS
    <3>1. n + 1 \in Nat
      OBVIOUS
    <3> QED BY <2>5, <3>1
  <2>7. T = Nat
    <3> HIDE DEF T
    <3>1. T \in SUBSET Nat
      BY DEF T
    <3> QED BY <2>4, <2>6, <3>1, Every
  <2>8. Good(N) /\ Part1(N) = S
    <3>1. N \in T /\ N \in 1..N
      <4>1. N \in Nat /\ N \in 1..N
        BY <1>3
      <4> HIDE DEF T
      <4> QED BY <2>7, <4>1
    <3>2. Part1(N) = S
      OBVIOUS
    <3> HIDE DEF Good, Part1
    <3> QED BY <3>1, <3>2
  <2>9. Len(f[N]) \in Nat
    BY <2>8, LenProperties
  <2> QED BY <2>2, <2>8, <2>9, OrderedUnique
<1> QED BY <1>2, <1>3

-------------------------------------------------------------------------------
(* What upstream has sent, and what is left of it in the generator.        *)
StopEvent == Event("message_stop", 0, NoEvent)

(* What is left of the chunk at hand is the end of what upstream has sent; *)
(* nothing is left when the stream is being finished.                      *)
Arrived ==
  /\ said \in Seq(Part) /\ parts \in Seq(Part) /\ Len(parts) <= Len(said)
  /\ \A i \in 1..Len(said) : said[i].piece = i
  /\ \A i \in 1..Len(parts) : parts[i] = said[Len(said) - Len(parts) + i]
  /\ pos \in {"finishing", "finish signed", "message_delta", "message_stop"} \/ Whole => parts = <<>>

(* The last event tells of nothing that is yet to come.                    *)
Spoken ==
  pos \notin {"begin", "ended"} =>
    /\ wire # StopEvent
    /\ wire.type = "content_block_start" => wire.index \in 0..Len(blocks) - 1
    /\ wire.type = "content_block_delta" => wire.piece \in 1..Len(Translated)

LEMMA PrefixIs ==
  ASSUME NEW t \in Seq(Part), NEW r \in Seq(Part), Len(r) <= Len(t)
  PROVE  LET q == SubSeq(t, 1, Len(t) - Len(r)) IN
         /\ q \in Seq(Part) /\ Len(q) = Len(t) - Len(r)
         /\ Len(t) \in Nat /\ Len(r) \in Nat /\ Len(q) \in Nat
         /\ \A i \in 1..Len(q) : i \in 1..Len(t) /\ q[i] = t[i]
<1> DEFINE m == Len(t) - Len(r)
<1>1. Len(t) \in Nat /\ Len(r) \in Nat
  BY LenProperties
<1>2. m \in Nat /\ m <= Len(t)
  BY <1>1
<1>3. \A i \in 1..m : i \in 1..Len(t) /\ t[i] \in Part
  BY <1>1, <1>2, ElementOfSeq
<1> HIDE DEF m
<1>4. /\ SubSeq(t, 1, m) \in Seq(Part)
      /\ Len(SubSeq(t, 1, m)) = IF 1 <= m THEN m - 1 + 1 ELSE 0
      /\ \A i \in 1..m - 1 + 1 : SubSeq(t, 1, m)[i] = t[1 + i - 1]
  BY <1>2, <1>3, SubSeqProperties
<1>5. Len(SubSeq(t, 1, m)) = m /\ \A i \in 1..m : SubSeq(t, 1, m)[i] = t[i]
  BY <1>2, <1>4
<1> QED BY <1>1, <1>2, <1>3, <1>4, <1>5 DEF m

LEMMA TranslatedIs ==
  ASSUME Arrived
  PROVE  /\ Translated \in Seq(Part) /\ Len(Translated) = Len(said) - Len(parts)
         /\ Len(said) \in Nat /\ Len(parts) \in Nat /\ Len(Translated) \in Nat
         /\ \A i \in 1..Len(Translated) : i \in 1..Len(said) /\ Translated[i] = said[i]
BY PrefixIs DEF Arrived, Translated

LEMMA TranslatedNext ==
  ASSUME Arrived'
  PROVE  /\ Translated' \in Seq(Part) /\ Len(Translated') = Len(said') - Len(parts')
         /\ \A i \in 1..Len(Translated') : Translated'[i] = said'[i]
<1>1. said' \in Seq(Part) /\ parts' \in Seq(Part) /\ Len(parts') <= Len(said')
  BY DEF Arrived
<1> QED BY <1>1, PrefixIs DEF Translated

LEMMA TranslatedAll ==
  ASSUME Arrived, parts = <<>>
  PROVE  Translated = said
<1>1. Len(parts) = 0
  BY EmptySeq
<1>2. Len(Translated) = Len(said) /\ \A i \in 1..Len(Translated) : Translated[i] = said[i]
  BY <1>1, TranslatedIs
<1> QED BY <1>2, TranslatedIs, SeqEqual DEF Arrived

(* A chunk that is read is one of upstream's, numbered on.                 *)
LEMMA NumberedIs ==
  ASSUME Arrived,
         NEW shape \in BoundedSeq([kind : Kind, payload : {TRUE}] \cup [kind : Tool, payload : {FALSE}], MaxParts),
         Len(said) + Len(shape) <= MaxSaid
  PROVE  /\ Numbered(shape) \in BoundedSeq(Part, MaxParts) /\ Numbered(shape) \in Seq(Part)
         /\ Len(Numbered(shape)) \in Nat
         /\ \A i \in 1..Len(Numbered(shape)) : Numbered(shape)[i].piece = Len(said) + i
<1> DEFINE S == [kind : Kind, payload : {TRUE}] \cup [kind : Tool, payload : {FALSE}]
           q == Numbered(shape)
<1>1. PICK m \in 0..MaxParts : shape \in [1..m -> S]
  BY DEF BoundedSeq, SeqOf
<1>2. m \in Nat /\ Len(said) \in Nat /\ MaxSaid \in Nat
  BY <1>1, Bounds, SaidBounded, TranslatedIs
<1>3. DOMAIN shape = 1..m /\ Len(shape) = m
  BY <1>1, <1>2, LenProperties, SeqDef
<1>4. \A i \in 1..m : Len(said) + i \in Piece
  <2> TAKE i \in 1..m
  <2>1. Len(said) + i \in 1..MaxSaid
    BY <1>2, <1>3
  <2> QED BY <2>1, SaidBounded
<1>5. q = [i \in 1..m |-> [kind |-> shape[i].kind, payload |-> shape[i].payload, piece |-> Len(said) + i]]
  BY <1>3 DEF Numbered
<1>6. \A i \in 1..m : q[i].piece = Len(said) + i /\ q[i] \in Part
  <2> TAKE i \in 1..m
  <2>1. q[i] = [kind |-> shape[i].kind, payload |-> shape[i].payload, piece |-> Len(said) + i]
    BY <1>5
  <2>2. shape[i] \in S
    BY <1>1
  <2>3. \/ shape[i].kind \in Kind /\ shape[i].payload = TRUE
        \/ shape[i].kind \in Tool /\ shape[i].payload = FALSE
    BY <2>2
  <2> DEFINE k == shape[i].kind
             b == shape[i].payload
             x == Len(said) + i
  <2>4. x \in Piece
    BY <1>4
  <2> HIDE DEF q, k, b, x
  <2>5. [kind |-> k, payload |-> b, piece |-> x] \in Part
    BY <2>3, <2>4 DEF Part, k, b
  <2> QED BY <2>1, <2>5 DEF k, b, x
<1>7. q \in [1..m -> Part]
  BY <1>5, <1>6
<1> HIDE DEF q
<1>8. q \in Seq(Part) /\ Len(q) = m
  BY <1>2, <1>7, SeqDef, LenProperties
<1>9. q \in BoundedSeq(Part, MaxParts)
  BY <1>1, <1>7 DEF BoundedSeq, SeqOf
<1> QED BY <1>2, <1>6, <1>8, <1>9 DEF q

LEMMA HearReads ==
  ASSUME Arrived, Hear
  PROVE  Read
<1>1. PICK shape \in BoundedSeq([kind : Kind, payload : {TRUE}] \cup [kind : Tool, payload : {FALSE}], MaxParts) :
        Len(said) + Len(shape) <= MaxSaid /\ Receive(Numbered(shape))
  BY DEF Hear
<1>2. Numbered(shape) \in BoundedSeq(Part, MaxParts)
  BY <1>1, NumberedIs
<1> QED BY <1>1, <1>2 DEF Read

(* What is read waits to be translated.                                    *)
LEMMA Heard ==
  ASSUME Arrived, Hear
  PROVE  Arrived' /\ Translated' = Translated
<1>1. PICK shape \in BoundedSeq([kind : Kind, payload : {TRUE}] \cup [kind : Tool, payload : {FALSE}], MaxParts) :
        /\ Len(said) + Len(shape) <= MaxSaid /\ Receive(Numbered(shape))
        /\ said' = said \o Numbered(shape)
  BY DEF Hear
<1> DEFINE q == Numbered(shape)
           n == Len(said)
<1>2. q \in Seq(Part) /\ Len(q) \in Nat /\ \A i \in 1..Len(q) : q[i].piece = n + i
  BY <1>1, NumberedIs
<1>3. pos = "next" /\ pos' = "next" /\ parts = <<>> /\ parts' = q /\ said' = said \o q
  BY <1>1 DEF Receive
<1>4. said \in Seq(Part) /\ n \in Nat /\ \A i \in 1..n : said[i].piece = i
  BY TranslatedIs DEF Arrived
<1> HIDE DEF q, n
<1>5. /\ said' \in Seq(Part) /\ Len(said') = n + Len(q)
      /\ \A i \in 1..n + Len(q) : said'[i] = IF i <= n THEN said[i] ELSE q[i - n]
  BY <1>2, <1>3, <1>4, ConcatProperties DEF n
<1>6. \A i \in 1..n + Len(q) : said'[i].piece = i
  <2> TAKE i \in 1..n + Len(q)
  <2>1. CASE i <= n
    BY <1>4, <1>5, <2>1
  <2>2. CASE ~(i <= n)
    <3>1. i - n \in 1..Len(q) /\ n + (i - n) = i
      BY <1>2, <1>4, <2>2
    <3> QED BY <1>2, <1>5, <2>2, <3>1
  <2> QED BY <2>1, <2>2
<1>7. \A i \in 1..Len(q) : q[i] = said'[n + Len(q) - Len(q) + i]
  <2> TAKE i \in 1..Len(q)
  <2>1. n + Len(q) - Len(q) + i = n + i /\ n + i \in 1..n + Len(q) /\ ~(n + i <= n) /\ n + i - n = i
    BY <1>2, <1>4
  <2>2. PICK j \in 1..n + Len(q) : j = n + i
    BY <2>1
  <2>3. said'[j] = q[i]
    <3>1. ~(j <= n) /\ j - n = i
      BY <1>2, <1>4, <2>2
    <3> QED BY <1>5, <3>1
  <2> QED BY <2>1, <2>2, <2>3
<1>8. Arrived'
  BY <1>2, <1>3, <1>4, <1>5, <1>6, <1>7 DEF Arrived, Whole
<1>9. Translated = said
  BY <1>3, TranslatedAll
<1>10. /\ Translated' \in Seq(Part) /\ Len(Translated') = n
       /\ \A i \in 1..n : Translated'[i] = said'[i]
  <2>1. /\ Translated' \in Seq(Part) /\ Len(Translated') = Len(said') - Len(parts')
        /\ \A i \in 1..Len(Translated') : Translated'[i] = said'[i]
    BY <1>8, TranslatedNext
  <2>2. Len(said') - Len(parts') = n
    BY <1>2, <1>3, <1>4, <1>5
  <2> QED BY <2>1, <2>2
<1>11. \A i \in 1..n : Translated'[i] = said[i]
  BY <1>2, <1>4, <1>5, <1>10
<1>12. Translated' = said
  BY <1>4, <1>10, <1>11, SeqEqual DEF n
<1> QED BY <1>8, <1>9, <1>12

(* The part at hand is the next one, and its number is its place.          *)
LEMMA Advanced ==
  ASSUME Arrived, Delta, UNCHANGED said, parts # <<>>
  PROVE  /\ Arrived'
         /\ Translated' \in Seq(Part)
         /\ Len(Translated') = Len(Translated) + 1
         /\ Translated'[Len(Translated) + 1] = Head(parts)
         /\ \A i \in 1..Len(Translated) : Translated'[i] = Translated[i]
         /\ Head(parts).piece = Len(Translated) + 1
<1> DEFINE n == Len(said)
           l == Len(parts)
           m == Len(Translated)
<1>1. parts' = Tail(parts) /\ pos' = "next" /\ said' = said
  BY DEF Delta
<1>2. /\ n \in Nat /\ l \in Nat \ {0} /\ l <= n /\ m = n - l /\ m \in Nat
      /\ \A i \in 1..m : Translated[i] = said[i]
  <2>1. l # 0
    BY EmptySeq DEF Arrived
  <2> QED BY <2>1, TranslatedIs DEF Arrived
<1>3. /\ parts' \in Seq(Part) /\ Len(parts') = l - 1
      /\ \A i \in 1..l - 1 : parts'[i] = parts[i + 1]
      /\ Head(parts) = parts[1]
  <2>1. parts \in Seq(Part)
    BY DEF Arrived
  <2>2. /\ Tail(parts) \in Seq(Part) /\ Len(Tail(parts)) = l - 1
        /\ \A i \in 1..Len(Tail(parts)) : Tail(parts)[i] = parts[i + 1]
    BY <2>1, HeadTailProperties
  <2>3. Head(parts) = parts[1]
    BY <2>1
  <2> HIDE DEF l
  <2> QED BY <1>1, <2>2, <2>3
<1>4. \A i \in 1..l : parts[i] = said[n - l + i]
  BY DEF Arrived
<1> HIDE DEF n, l, m
<1>5. Head(parts) = said[m + 1] /\ m + 1 \in 1..n
  BY <1>2, <1>3, <1>4
<1>6. Head(parts).piece = m + 1
  BY <1>5 DEF Arrived, n
<1>7. \A i \in 1..l - 1 : parts'[i] = said[n - (l - 1) + i]
  <2> TAKE i \in 1..l - 1
  <2>1. i + 1 \in 1..l /\ n - l + (i + 1) = n - (l - 1) + i
    BY <1>2
  <2> QED BY <1>3, <1>4, <2>1
<1>8. Arrived'
  <2>1. l - 1 <= n
    BY <1>2
  <2> QED BY <1>1, <1>3, <1>7, <2>1 DEF Arrived, Whole, n
<1>9. /\ Translated' \in Seq(Part) /\ Len(Translated') = n - (l - 1)
      /\ \A i \in 1..Len(Translated') : Translated'[i] = said'[i]
  BY <1>1, <1>3, <1>8, TranslatedNext DEF n
<1>10. n - (l - 1) = m + 1 /\ m + 1 \in 1..m + 1 /\ \A i \in 1..m : i \in 1..m + 1
  BY <1>2
<1> QED BY <1>1, <1>2, <1>5, <1>6, <1>8, <1>9, <1>10 DEF m

LEMMA Yielded ==
  ASSUME NEW type, NEW index, NEW kind, Yield(type, index, kind)
  PROVE  wire'.type = type
BY DEF Yield, Event

LEMMA HeardInit == TurnInit => Arrived /\ Spoken
<1> SUFFICES ASSUME TurnInit PROVE Arrived /\ Spoken
  OBVIOUS
<1>1. said = <<>> /\ parts = <<>> /\ pos = "begin"
  BY DEF TurnInit, Init
<1>2. <<>> \in Seq(Part) /\ Len(<<>>) = 0 /\ 1..0 = {}
  BY EmptySeq
<1> QED BY <1>1, <1>2 DEF Arrived, Spoken, Whole

LEMMA HeardStep ==
  ASSUME StreamInv, Arrived, Spoken, [TurnNext]_turnVars
  PROVE  Arrived' /\ Spoken'
<1>1. CASE Hear
  <2>1. Arrived' /\ Translated' = Translated
    BY <1>1, Heard
  <2>2. pos = "next" /\ UNCHANGED <<wire, blocks>>
    BY <1>1 DEF Hear, Receive, blockVars
  <2> QED BY <2>1, <2>2 DEF Spoken
<1>2. CASE Delta /\ See
  <2> DEFINE p == Head(parts)
             m == Len(Translated)
  <2>1. parts # <<>> /\ pos \notin {"begin", "ended"} /\ UNCHANGED <<said, blocks>>
    BY <1>2 DEF Delta, See, Translating, StreamInv, PositionAgrees, blockVars
  <2>2. Arrived' /\ Len(Translated') = m + 1 /\ p.piece = m + 1 /\ m \in Nat
    BY <1>2, <2>1, Advanced, TranslatedIs
  <2>3. CASE p.payload
    <3>1. PICK index : wire' = [Event("content_block_delta", index, p.kind) EXCEPT !.piece = p.piece]
      BY <1>2, <2>3 DEF Delta, YieldDelta
    <3>2. wire'.type = "content_block_delta" /\ wire'.piece = m + 1 /\ StopEvent.type = "message_stop"
      BY <2>2, <3>1 DEF Event, StopEvent
    <3>3. wire' # StopEvent /\ wire'.piece \in 1..Len(Translated')
      BY <2>2, <3>2
    <3> QED BY <2>2, <3>2, <3>3 DEF Spoken
  <2>4. CASE ~p.payload
    <3>1. wire' = wire
      BY <1>2, <2>4 DEF Delta
    <3>2. wire.type = "content_block_delta" => wire.piece \in 1..m
      BY <2>1 DEF Spoken
    <3>3. \A x \in 1..m : x \in 1..Len(Translated')
      BY <2>2
    <3>4. wire # StopEvent /\ (wire.type = "content_block_start" => wire.index \in 0..Len(blocks) - 1)
      BY <2>1 DEF Spoken
    <3> HIDE DEF m
    <3> QED BY <2>1, <2>2, <3>1, <3>2, <3>3, <3>4 DEF Spoken
  <2> QED BY <2>3, <2>4
<1>3. CASE /\ Begin \/ Sign \/ Stop \/ Start \/ Eof \/ FinishSign \/ FinishStop
              \/ MessageDelta \/ MessageStop \/ Fail
           /\ See
  <2>1. UNCHANGED <<said, parts>> /\ Translated' = Translated
    BY <1>3 DEF See, Begin, Sign, Stop, Start, Eof, FinishSign, FinishStop, MessageDelta, MessageStop,
       Fail, Translated
  <2>2. Arrived'
    <3>1. pos' \in {"finishing", "finish signed", "message_delta", "message_stop"} => parts = <<>>
      BY <1>3 DEF Arrived, Begin, Sign, Stop, Start, Eof, FinishSign, FinishStop, MessageDelta,
         MessageStop, Fail
    <3>2. Whole' => parts = <<>>
      BY <1>3 DEF Arrived, Whole, Begin, Sign, Stop, Start, Eof, FinishSign, FinishStop, MessageDelta,
         MessageStop, Fail
    <3> QED BY <2>1, <3>1, <3>2 DEF Arrived
  <2>3. CASE Eof
    BY <2>1, <2>2, <2>3 DEF Eof, blockVars, Spoken
  <2>4. CASE Start
    <3>1. wire' = Event("content_block_start", blockIndex + 1, Head(parts).kind)
      BY <2>4 DEF Start, Yield
    <3>2. Len(blocks') = Len(blocks) + 1 /\ Len(blocks) \in Nat /\ blockIndex + 1 = Len(blocks)
      <4>1. parts # <<>> /\ parts \in Seq(Part)
        BY <2>4 DEF Start, Opening, Translating, StreamInv, PositionAgrees
      <4>2. blocks \in Seq(Kind) /\ Head(parts).kind \in Kind
        BY <4>1, HeadIsPart DEF StreamInv, BlocksAgree
      <4>3. blocks' = Append(blocks, Head(parts).kind)
        BY <2>4 DEF Start
      <4> QED BY <4>2, <4>3, AppendProperties, IndexIsLast
    <3>3. wire'.type = "content_block_start" /\ wire'.index = Len(blocks) /\ StopEvent.type = "message_stop"
      BY <3>1, <3>2 DEF Event, StopEvent
    <3>4. wire' # StopEvent /\ Len(blocks) \in 0..Len(blocks') - 1
      BY <3>2, <3>3
    <3> QED BY <2>2, <3>3, <3>4 DEF Spoken
  <2>5. CASE Begin \/ Sign \/ Stop \/ FinishSign \/ FinishStop \/ MessageDelta
    <3>1. wire'.type \in {"message_start", "signature_delta", "content_block_stop", "message_delta"}
      <4>1. \E i, k : \/ Yield("message_start", i, k) \/ Yield("signature_delta", i, k)
                      \/ Yield("content_block_stop", i, k) \/ Yield("message_delta", i, k)
        BY <2>5 DEF Begin, Sign, Stop, FinishSign, FinishStop, MessageDelta
      <4> QED BY <4>1, Yielded
    <3>2. StopEvent.type = "message_stop"
      BY DEF StopEvent, Event
    <3>3. wire' # StopEvent
      BY <3>1, <3>2
    <3> QED BY <2>2, <3>1, <3>3 DEF Spoken
  <2>6. CASE MessageStop \/ Fail
    BY <2>2, <2>6 DEF MessageStop, Fail, Spoken
  <2> QED BY <1>3, <2>2, <2>3, <2>4, <2>5, <2>6
<1>4. CASE Leave /\ See
  <2>1. pos' = "ended" /\ pos # "ended" /\ UNCHANGED <<said, parts, wire>>
    BY <1>4 DEF Leave, See
  <2>2. pos = "begin" => parts = <<>>
    BY DEF StreamInv, OrderKept
  <2>3. wire = StopEvent => parts = <<>>
    BY <2>1, <2>2 DEF Spoken
  <2> QED BY <2>1, <2>3 DEF Arrived, Spoken, Whole, StopEvent
<1>5. CASE Reply \/ UNCHANGED turnVars
  <2>1. UNCHANGED <<said, parts, pos, wire, blocks>>
    BY <1>5 DEF Reply, turnVars, turn, vars, blockVars
  <2> QED BY <2>1 DEF Arrived, Spoken, Whole, Translated
<1> QED BY <1>1, <1>2, <1>3, <1>4, <1>5 DEF TurnNext

-------------------------------------------------------------------------------
(* What the client has put together of what has been translated.           *)
Shown == [kind : Kind, body : Seq(Nat)]

(* The last block has been opened and nothing of it read.                  *)
Fresh == pos = "started" \/ (pos = "ended" /\ ~Whole)

(* at gives the block that each part of the answer went to.                *)
Traced(at) ==
  /\ at \in [1..Len(Translated) -> 1..Len(shown)]
  /\ \A i, j \in 1..Len(Translated) : i <= j => at[i] <= at[j]
  /\ \A i \in 1..Len(Translated) : Translated[i].kind = shown[at[i]].kind
  /\ \A b \in 1..Len(shown) :
       /\ (\E i \in 1..Len(Translated) : at[i] = b) \/ (b = Len(shown) /\ Fresh)
       /\ Enumerates(shown[b].body, Len(shown[b].body),
                     {i \in 1..Len(Translated) : at[i] = b /\ Translated[i].payload})

(* A new block is of another kind, and the first of its call.               *)
Separate ==
  /\ Len(shown) = Len(blocks)
  /\ \A b \in 1..Len(shown) : shown[b].kind = blocks[b]
  /\ \A b \in 1..Len(shown) - 1 : shown[b].kind \notin Tool => shown[b + 1].kind # shown[b].kind
  /\ \A b \in 1..Len(shown) : shown[b].kind \in Tool =>
       shown[b].kind \in DOMAIN toolBlocks /\ toolBlocks[shown[b].kind] = b - 1

ShownInv ==
  /\ Translated \in Seq(Part) /\ shown \in Seq(Shown)
  /\ Separate
  /\ \E at : Traced(at)

(* At first the client has nothing.                                        *)
LEMMA ShownInit == TurnInit => ShownInv
<1> SUFFICES ASSUME TurnInit PROVE ShownInv
  OBVIOUS
<1>1. Translated = <<>> /\ shown = <<>> /\ blocks = <<>> /\ pos = "begin"
  <2>1. said = <<>> /\ parts = <<>>
    BY DEF TurnInit, Init
  <2> QED BY <2>1, HeardInit, TranslatedAll DEF TurnInit, Init
<1>2. Translated \in Seq(Part) /\ shown \in Seq(Shown) /\ Len(Translated) = 0 /\ Len(shown) = 0 /\ Len(blocks) = 0
  BY <1>1, EmptySeq
<1>3. 1..0 = {}
  OBVIOUS
<1>4. Separate
  BY <1>2, <1>3 DEF Separate
<1>5. Traced([i \in 1..0 |-> 0])
  BY <1>2, <1>3 DEF Traced
<1> QED BY <1>1, <1>2, <1>4, <1>5 DEF ShownInv

(* Steps that neither open a block nor say anything.                       *)
LEMMA ShownStays ==
  ASSUME ShownInv, UNCHANGED <<Translated, shown, blocks, toolBlocks>>,
         Fresh => Fresh'
  PROVE  ShownInv'
<1>1. Separate'
  BY DEF ShownInv, Separate
<1>2. PICK at : Traced(at)
  BY DEF ShownInv
<1>3. Traced(at)'
  BY <1>2 DEF Traced
<1> QED BY <1>1, <1>3 DEF ShownInv

(* A block is opened.                                                      *)
LEMMA ShownStart ==
  ASSUME StreamInv, Spoken, ShownInv, Start, See
  PROVE  ShownInv'
<1> DEFINE k == Head(parts).kind
           n == Len(shown)
<1>1. /\ parts # <<>> /\ parts \in Seq(Part) /\ pos \in {"next", "stopped"}
      /\ NeedsBlock(Head(parts))
  BY DEF Start, Opening, Translating, StreamInv, PositionAgrees
<1>2. k \in Kind
  BY <1>1, HeadIsPart
<1>3. /\ n \in Nat /\ Len(blocks) = n /\ blockIndex = n - 1 /\ blocks \in Seq(Kind)
      /\ shown \in Seq(Shown) /\ Translated \in Seq(Part) /\ Len(Translated) \in Nat
  BY LenProperties DEF ShownInv, Separate, StreamInv, BlocksAgree
<1>4. /\ wire' = Event("content_block_start", n, k) /\ pos' = "started"
      /\ blocks' = Append(blocks, k)
      /\ DOMAIN toolBlocks' = DOMAIN toolBlocks \cup ({k} \cap Tool)
      /\ \A t \in DOMAIN toolBlocks : t # k => toolBlocks'[t] = toolBlocks[t]
      /\ k \in Tool => toolBlocks'[k] = n
      /\ Translated' = Translated
      /\ shown' = Append(shown, Block(k, <<>>))
  <2>1. blockIndex + 1 = n
    BY <1>3
  <2>2. wire' = Event("content_block_start", n, k)
    BY <2>1 DEF Start, Yield
  <2>3. wire'.type = "content_block_start" /\ wire'.index = n /\ wire'.kind = k
    BY <2>2 DEF Event
  <2>4. wire' # wire
    BY <1>1, <1>3, <2>3 DEF Spoken
  <2>5. shown' = Append(shown, Block(k, <<>>)) /\ said' = said
    BY <2>3, <2>4 DEF See
  <2>6. Translated' = Translated
    BY <2>5 DEF Start, Translated
  <2> QED BY <2>1, <2>2, <2>5, <2>6 DEF Start
<1>5. Block(k, <<>>) \in Shown
  BY <1>2, EmptySeq DEF Block, Shown
<1>6. /\ shown' \in Seq(Shown) /\ Len(shown') = n + 1 /\ shown'[n + 1] = Block(k, <<>>)
      /\ \A b \in 1..n : shown'[b] = shown[b]
  BY <1>3, <1>4, <1>5, AppendProperties
<1>7. /\ Len(blocks') = n + 1 /\ blocks'[n + 1] = k
      /\ \A b \in 1..n : blocks'[b] = blocks[b]
  BY <1>2, <1>3, <1>4, AppendProperties
<1>8. n # 0 => shown[n].kind = blocks[n] /\ blockOpen /\ blockType = TypeOf(blocks[n])
  <2> SUFFICES ASSUME n # 0 PROVE shown[n].kind = blocks[n] /\ blockOpen /\ blockType = TypeOf(blocks[n])
    OBVIOUS
  <2>1. n \in 1..n /\ blocks # <<>>
    BY <1>3
  <2> QED BY <1>3, <2>1 DEF ShownInv, Separate, StreamInv, BlocksAgree
<1>9. n # 0 /\ shown[n].kind \notin Tool => k # shown[n].kind
  BY <1>1, <1>8 DEF NeedsBlock, TypeOf
<1>10. Separate'
  <2>1. \A b \in 1..n + 1 : shown'[b].kind = blocks'[b]
    BY <1>3, <1>6, <1>7 DEF ShownInv, Separate, Block
  <2>2. ASSUME NEW b \in 1..n, shown'[b].kind \notin Tool PROVE shown'[b + 1].kind # shown'[b].kind
    <3>1. CASE b = n
      BY <1>3, <1>6, <1>9, <2>2, <3>1 DEF Block
    <3>2. CASE b # n
      <4>1. b \in 1..n - 1 /\ b + 1 \in 1..n
        BY <1>3, <3>2
      <4> QED BY <1>6, <2>2, <4>1 DEF ShownInv, Separate
    <3> QED BY <3>1, <3>2
  <2>3. ASSUME NEW b \in 1..n + 1, shown'[b].kind \in Tool
        PROVE  shown'[b].kind \in DOMAIN toolBlocks' /\ toolBlocks'[shown'[b].kind] = b - 1
    <3>1. CASE b = n + 1
      BY <1>3, <1>4, <1>6, <2>3, <3>1 DEF Block
    <3>2. CASE b # n + 1
      <4>1. b \in 1..n /\ shown'[b] = shown[b]
        BY <1>3, <1>6, <3>2
      <4>2. shown[b].kind \in DOMAIN toolBlocks /\ toolBlocks[shown[b].kind] = b - 1
        BY <2>3, <4>1 DEF ShownInv, Separate
      <4>3. shown[b].kind # k
        BY <1>1, <2>3, <4>1, <4>2 DEF NeedsBlock
      <4> QED BY <1>4, <4>1, <4>2, <4>3
    <3> QED BY <3>1, <3>2
  <2> QED BY <1>3, <1>6, <1>7, <2>1, <2>2, <2>3 DEF Separate
<1>11. PICK at : Traced(at)
  BY DEF ShownInv
<1>12. Traced(at)'
  <2>1. at \in [1..Len(Translated) -> 1..n + 1]
    BY <1>3, <1>11 DEF Traced
  <2>2. \A i \in 1..Len(Translated) : at[i] \in 1..n
    BY <1>11 DEF Traced
  <2>3. \A i \in 1..Len(Translated) : Translated[i].kind = shown'[at[i]].kind
    BY <1>6, <1>11, <2>2 DEF Traced
  <2>4. ASSUME NEW b \in 1..n
        PROVE  /\ \E i \in 1..Len(Translated) : at[i] = b
               /\ Enumerates(shown'[b].body, Len(shown'[b].body),
                             {i \in 1..Len(Translated) : at[i] = b /\ Translated[i].payload})
    BY <1>1, <1>6, <1>11 DEF Traced, Fresh
  <2>5. /\ n + 1 = Len(shown)' /\ Fresh'
        /\ Enumerates(shown'[n + 1].body, Len(shown'[n + 1].body),
                      {i \in 1..Len(Translated) : at[i] = n + 1 /\ Translated[i].payload})
    <3>1. {i \in 1..Len(Translated) : at[i] = n + 1 /\ Translated[i].payload} = {}
      BY <1>3, <2>2
    <3>2. Enumerates(<<>>, 0, {})
      <4>1. 1..0 = {}
        OBVIOUS
      <4> QED BY <4>1 DEF Enumerates
    <3>3. Fresh'
      BY <1>4 DEF Fresh
    <3>4. shown'[n + 1].body = <<>> /\ Len(<<>>) = 0
      BY <1>6 DEF Block
    <3> HIDE DEF k, n
    <3> QED BY <1>6, <3>1, <3>2, <3>3, <3>4
  <2>6. \A b \in 1..n + 1 : b \in 1..n \/ b = n + 1
    BY <1>3
  <2> HIDE DEF k
  <2>7. ASSUME NEW b \in 1..n + 1
        PROVE  /\ (\E i \in 1..Len(Translated) : at[i] = b) \/ (b = n + 1 /\ Fresh')
               /\ Enumerates(shown'[b].body, Len(shown'[b].body),
                             {i \in 1..Len(Translated) : at[i] = b /\ Translated[i].payload})
    BY <2>4, <2>5, <2>6
  <2>8. \A i, j \in 1..Len(Translated) : i <= j => at[i] <= at[j]
    BY <1>11 DEF Traced
  <2> HIDE DEF n
  <2> QED BY <1>4, <1>6, <2>1, <2>3, <2>7, <2>8 DEF Traced
<1> QED BY <1>3, <1>4, <1>6, <1>10, <1>12 DEF ShownInv

(* An enumeration goes on with what is greater.                            *)
LEMMA EnumeratesAppend ==
  ASSUME NEW q \in Seq(Nat), NEW S \in SUBSET Nat, Enumerates(q, Len(q), S),
         NEW x \in Nat, \A y \in S : y < x
  PROVE  Enumerates(Append(q, x), Len(Append(q, x)), S \cup {x})
<1>1. /\ Append(q, x) = q \o <<x>> /\ <<x>> \in Seq(Nat) /\ Len(<<x>>) = 1 /\ <<x>>[1] = x
  OBVIOUS
<1>2. Enumerates(<<x>>, Len(<<x>>), {x})
  <2>1. <<x>> \in [1..1 -> {x}]
    OBVIOUS
  <2> QED BY <1>1, <2>1 DEF Enumerates
<1>3. {x} \in SUBSET Nat /\ \A y \in S, z \in {x} : y < z
  OBVIOUS
<1> QED BY <1>1, <1>2, <1>3, EnumeratesConcat

(* A part is said: it goes to the last block.                              *)
LEMMA ShownDelta ==
  ASSUME StreamInv, Arrived, Spoken, ShownInv, Delta, See
  PROVE  ShownInv'
<1> DEFINE p == Head(parts)
           n == Len(shown)
           m == Len(Translated)
<1>1. parts # <<>> /\ parts \in Seq(Part) /\ pos \in {"next", "started"}
  BY DEF Delta, Translating, StreamInv, PositionAgrees
<1>2. p \in Part /\ p.kind \in Kind /\ p.payload \in BOOLEAN
  <2>1. p \in Part /\ p.kind \in Kind
    BY <1>1, HeadIsPart
  <2> QED BY <2>1 DEF Part
<1>3. /\ n \in Nat \ {0} /\ n \in 1..n /\ Len(blocks) = n /\ blockIndex + 1 = n
      /\ shown \in Seq(Shown) /\ Translated \in Seq(Part) /\ m \in Nat
      /\ shown[n].kind = p.kind /\ shown[n].body \in Seq(Nat)
  <2>1. blockOpen /\ blocks[Len(blocks)] = p.kind
    BY CurrentBlock
  <2>2. Len(blocks) \in Nat \ {0} /\ blockIndex + 1 = Len(blocks)
    BY <2>1, OpenBlock
  <2>3. Len(blocks) = n /\ shown \in Seq(Shown) /\ Translated \in Seq(Part) /\ m \in Nat
    BY LenProperties DEF ShownInv, Separate
  <2>4. n \in 1..n
    BY <2>2, <2>3
  <2>5. shown[n] \in Shown
    BY <2>3, <2>4, ElementOfSeq
  <2> QED BY <2>1, <2>2, <2>3, <2>4, <2>5 DEF ShownInv, Separate, Shown
<1>4. /\ Translated' \in Seq(Part) /\ Len(Translated') = m + 1 /\ Translated'[m + 1] = p
      /\ \A i \in 1..m : Translated'[i] = Translated[i]
      /\ p.piece = m + 1
  <2>1. UNCHANGED said
    BY DEF See
  <2> QED BY <1>1, <2>1, Advanced
<1>5. /\ UNCHANGED <<blocks, toolBlocks>> /\ pos' = "next"
  BY DEF Delta, blockVars
<1> DEFINE body2 == IF p.payload THEN Append(shown[n].body, m + 1) ELSE shown[n].body
<1>6. shown' = [shown EXCEPT ![n] = [kind |-> shown[n].kind, body |-> body2]]
  <2>0. shown[n] = [kind |-> shown[n].kind, body |-> shown[n].body]
    <3>1. shown[n] \in Shown
      BY <1>3, ElementOfSeq
    <3> QED BY <3>1 DEF Shown
  <2>1. CASE p.payload
    <3>1. /\ wire'.type = "content_block_delta" /\ wire'.index + 1 = n /\ wire'.piece = m + 1
      <4>1. wire' = [Event("content_block_delta", blockIndex, p.kind) EXCEPT !.piece = p.piece]
        BY <2>1, CurrentBlock DEF Delta, YieldDelta
      <4> QED BY <1>3, <1>4, <4>1 DEF Event
    <3>2. shown' = [shown EXCEPT ![n].body = Append(@, m + 1)]
      <4>1. wire' # wire
        BY <1>1, <1>3, <3>1 DEF Spoken
      <4> HIDE DEF m, n
      <4> QED BY <3>1, <4>1 DEF See
    <3>3. shown' = [shown EXCEPT ![n] = [shown[n] EXCEPT !.body = Append(shown[n].body, m + 1)]]
      BY <3>2
    <3>4. [shown[n] EXCEPT !.body = Append(shown[n].body, m + 1)] = [kind |-> shown[n].kind, body |-> body2]
      <4>1. body2 = Append(shown[n].body, m + 1)
        BY <2>1
      <4>2. ASSUME NEW k, NEW x, NEW y
            PROVE  [[kind |-> k, body |-> x] EXCEPT !.body = y] = [kind |-> k, body |-> y]
        OBVIOUS
      <4> HIDE DEF body2, m, n
      <4>3. [[kind |-> shown[n].kind, body |-> shown[n].body] EXCEPT !.body = Append(shown[n].body, m + 1)]
              = [kind |-> shown[n].kind, body |-> Append(shown[n].body, m + 1)]
        BY <4>2
      <4> QED BY <2>0, <4>1, <4>3, Zenon
    <3> HIDE DEF body2
    <3> QED BY <3>3, <3>4
  <2>2. CASE ~p.payload
    <3>1. shown' = shown
      BY <2>2 DEF Delta, See
    <3> QED BY <1>3, <2>0, <2>2, <3>1, ExceptSeq
  <2> QED BY <2>1, <2>2
<1>7. body2 \in Seq(Nat)
  BY <1>3, AppendProperties
<1>8. /\ shown' \in Seq(Shown) /\ Len(shown') = n
      /\ shown'[n] = [kind |-> shown[n].kind, body |-> body2]
      /\ \A b \in 1..n : b # n => shown'[b] = shown[b]
  <2>1. [kind |-> shown[n].kind, body |-> body2] \in Shown
    BY <1>2, <1>3, <1>7 DEF Shown
  <2> HIDE DEF body2, p, m
  <2> QED BY <1>3, <1>6, <2>1, ExceptSeq, LenProperties
<1>9. \A b \in 1..n : shown'[b].kind = shown[b].kind
  BY <1>3, <1>8
<1> HIDE DEF body2
<1>10. Separate'
  <2>1. \A b \in 1..n - 1 : b \in 1..n /\ b + 1 \in 1..n
    BY <1>3
  <2> QED BY <1>3, <1>5, <1>8, <1>9, <2>1 DEF ShownInv, Separate
<1>11. PICK at : Traced(at)
  BY DEF ShownInv
<1>12. PICK at2 : at2 = [i \in 1..m + 1 |-> IF i = m + 1 THEN n ELSE at[i]]
  OBVIOUS
<1>13. \A i \in 1..m : i \in 1..m + 1 /\ i # m + 1 /\ at2[i] = at[i] /\ at[i] \in 1..n
  <2>1. at \in [1..m -> 1..n]
    BY <1>11 DEF Traced
  <2>2. \A i \in 1..m : i \in 1..m + 1 /\ i # m + 1
    BY <1>3
  <2> HIDE DEF m, n
  <2> QED BY <1>12, <2>1, <2>2
<1>14. at2[m + 1] = n /\ m + 1 \in 1..m + 1 /\ \A i \in 1..m + 1 : i \in 1..m \/ i = m + 1
  <2>1. m + 1 \in 1..m + 1 /\ \A i \in 1..m + 1 : i \in 1..m \/ i = m + 1
    BY <1>3
  <2> HIDE DEF m, n
  <2> QED BY <1>12, <2>1
<1>15. at2 \in [1..m + 1 -> 1..n]
  BY <1>3, <1>13, <1>14, <1>12
<1>16. ASSUME NEW i \in 1..m + 1, NEW j \in 1..m + 1, i <= j PROVE at2[i] <= at2[j]
  <2>1. CASE j = m + 1
    <3>1. at2[i] \in 1..n
      BY <1>15
    <3> QED BY <1>3, <1>14, <2>1, <3>1
  <2>2. CASE j # m + 1
    <3>1. i \in 1..m /\ j \in 1..m
      BY <1>3, <1>16, <2>2
    <3> QED BY <1>11, <1>13, <1>16, <3>1 DEF Traced
  <2> QED BY <2>1, <2>2
<1>17. \A i \in 1..m + 1 : Translated'[i].kind = shown'[at2[i]].kind
  <2> TAKE i \in 1..m + 1
  <2>1. CASE i = m + 1
    BY <1>3, <1>4, <1>8, <1>14, <2>1
  <2>2. CASE i \in 1..m
    BY <1>4, <1>9, <1>11, <1>13, <2>2 DEF Traced
  <2> QED BY <1>14, <2>1, <2>2
<1>18. ASSUME NEW b \in 1..n, b # n
       PROVE  /\ \E i \in 1..m + 1 : at2[i] = b
              /\ Enumerates(shown'[b].body, Len(shown'[b].body),
                            {i \in 1..m + 1 : at2[i] = b /\ Translated'[i].payload})
  <2>1. {i \in 1..m + 1 : at2[i] = b /\ Translated'[i].payload} = {i \in 1..m : at[i] = b /\ Translated[i].payload}
    BY <1>4, <1>13, <1>14, <1>18
  <2>2. \E i \in 1..m : at[i] = b
    BY <1>11, <1>18 DEF Traced
  <2>3. Enumerates(shown[b].body, Len(shown[b].body), {i \in 1..m : at[i] = b /\ Translated[i].payload})
    BY <1>11 DEF Traced
  <2> QED BY <1>8, <1>13, <1>18, <2>1, <2>2, <2>3
<1>19. /\ \E i \in 1..m + 1 : at2[i] = n
       /\ Enumerates(shown'[n].body, Len(shown'[n].body),
                     {i \in 1..m + 1 : at2[i] = n /\ Translated'[i].payload})
  <2> DEFINE S == {i \in 1..m : at[i] = n /\ Translated[i].payload}
             R == {i \in 1..m + 1 : at2[i] = n /\ Translated'[i].payload}
  <2>1. R = IF p.payload THEN S \cup {m + 1} ELSE S
    BY <1>4, <1>13, <1>14
  <2>2. Enumerates(shown[n].body, Len(shown[n].body), S)
    BY <1>3, <1>11 DEF Traced
  <2>3. S \in SUBSET Nat /\ \A y \in S : y < m + 1
    BY <1>3
  <2> HIDE DEF S, R, p, m
  <2>4. CASE p.payload
    <3>1. Enumerates(Append(shown[n].body, m + 1), Len(Append(shown[n].body, m + 1)), S \cup {m + 1})
      <4>1. m + 1 \in Nat
        BY <1>3
      <4> QED BY <1>3, <2>2, <2>3, <4>1, EnumeratesAppend
    <3>2. shown'[n].body = Append(shown[n].body, m + 1)
      BY <1>8, <2>4 DEF body2
    <3>3. R = S \cup {m + 1}
      BY <2>1, <2>4
    <3> QED BY <1>14, <1>12, <3>1, <3>2, <3>3 DEF R
  <2>5. CASE ~p.payload
    <3>1. shown'[n].body = shown[n].body
      BY <1>8, <2>5 DEF body2
    <3>2. R = S
      BY <2>1, <2>5
    <3>3. \E i \in 1..m + 1 : at2[i] = n
      BY <1>14
    <3> QED BY <2>2, <3>1, <3>2, <3>3 DEF R
  <2> QED BY <1>2, <2>4, <2>5 DEF p
<1>20. \A b \in 1..n :
         /\ \E i \in 1..m + 1 : at2[i] = b
         /\ Enumerates(shown'[b].body, Len(shown'[b].body),
                       {i \in 1..m + 1 : at2[i] = b /\ Translated'[i].payload})
  BY <1>18, <1>19
<1>21. Traced(at2)'
  <2> HIDE DEF p, m, n
  <2>1. Len(Translated)' = m + 1 /\ Len(shown)' = n
    BY <1>4, <1>8
  <2> QED BY <1>15, <1>16, <1>17, <1>20, <2>1 DEF Traced
<1> QED BY <1>4, <1>5, <1>8, <1>10, <1>21 DEF ShownInv

(* And no step of a turn loses track of it.                                *)
LEMMA ShownStep ==
  ASSUME StreamInv, Arrived, Spoken, ShownInv, [TurnNext]_turnVars
  PROVE  ShownInv'
<1>1. CASE Start /\ See
  BY <1>1, ShownStart
<1>2. CASE Delta /\ See
  BY <1>2, ShownDelta
<1>3. CASE Reply \/ UNCHANGED turnVars
  <2>1. UNCHANGED <<vars, said, shown>>
    BY <1>3 DEF Reply, turnVars, turn
  <2> QED BY <2>1, ShownStays DEF vars, blockVars, Fresh, Whole, Translated
<1>4. CASE /\ Begin \/ Sign \/ Stop \/ Eof \/ FinishSign \/ FinishStop
              \/ MessageDelta \/ MessageStop \/ Fail
           /\ See
  <2>1. UNCHANGED <<said, parts, blocks, toolBlocks>> /\ ~Fresh
    BY <1>4 DEF See, Begin, Sign, Stop, Eof, FinishSign, FinishStop, MessageDelta, MessageStop,
       Fail, Opening, Translating, blockVars, Fresh
  <2>2. UNCHANGED shown
    <3>1. \/ wire' = wire
          \/ wire'.type \in {"message_start", "signature_delta", "content_block_stop", "message_delta",
                             "message_stop", "error"}
      <4>1. CASE Begin \/ Sign \/ Stop \/ FinishSign \/ FinishStop \/ MessageDelta
        <5>1. \E i, k : \/ Yield("message_start", i, k) \/ Yield("signature_delta", i, k)
                        \/ Yield("content_block_stop", i, k) \/ Yield("message_delta", i, k)
          BY <4>1 DEF Begin, Sign, Stop, FinishSign, FinishStop, MessageDelta
        <5> QED BY <5>1, Yielded
      <4>2. CASE MessageStop \/ Fail
        BY <4>2, Yielded DEF MessageStop, Fail
      <4> QED BY <1>4, <4>1, <4>2 DEF Eof
    <3> QED BY <1>4, <3>1 DEF See
  <2> QED BY <2>1, <2>2, ShownStays DEF Translated
<1>5. CASE Leave /\ See
  <2>1. UNCHANGED <<said, parts, shown, blocks, toolBlocks, wire>> /\ pos' = "ended" /\ pos # "ended"
    BY <1>5 DEF See, Leave, blockVars
  <2>2. Fresh => Fresh'
    BY <2>1 DEF Fresh, Whole, Spoken, StopEvent
  <2> QED BY <2>1, <2>2, ShownStays DEF Translated
<1>6. CASE Hear
  <2>1. UNCHANGED <<shown, blocks, toolBlocks>> /\ pos' = "next" /\ pos = "next"
    BY <1>6 DEF Hear, Receive, blockVars
  <2> QED BY <1>6, <2>1, Heard, ShownStays DEF Fresh
<1> QED BY <1>1, <1>2, <1>3, <1>4, <1>5, <1>6 DEF TurnNext

(* What the client has put together, in the terms of the sequences.        *)
LEMMA ShownTyped ==
  ASSUME ShownInv
  PROVE  /\ Len(Translated) \in Nat /\ Len(shown) \in Nat
         /\ DOMAIN Translated = 1..Len(Translated) /\ DOMAIN shown = 1..Len(shown)
         /\ \A i \in 1..Len(Translated) : Translated[i] \in Part /\ Translated[i].kind \in Kind /\ Translated[i].payload \in BOOLEAN
              /\ (Translated[i].kind \notin Tool => Translated[i].payload)
         /\ \A b \in 1..Len(shown) : shown[b] = Block(shown[b].kind, shown[b].body)
              /\ shown[b].kind \in Kind /\ shown[b].body \in Seq(Nat)
<1>1. Translated \in Seq(Part) /\ shown \in Seq(Shown)
  BY DEF ShownInv
<1>2. /\ Len(Translated) \in Nat /\ Len(shown) \in Nat
      /\ DOMAIN Translated = 1..Len(Translated) /\ DOMAIN shown = 1..Len(shown)
      /\ \A i \in 1..Len(Translated) : Translated[i] \in Part
      /\ \A b \in 1..Len(shown) : shown[b] \in Shown
  BY <1>1, LenProperties, ElementOfSeq
<1>3. \A x \in Part : x.kind \in Kind /\ x.payload \in BOOLEAN /\ (x.kind \notin Tool => x.payload)
  <2> SUFFICES ASSUME NEW x \in Part
               PROVE  x.kind \in Kind /\ x.payload \in BOOLEAN /\ (x.kind \notin Tool => x.payload)
    OBVIOUS
  <2>1. CASE x \in [kind : Kind, payload : {TRUE}, piece : Piece]
    BY <2>1
  <2>2. CASE x \in [kind : Tool, payload : {FALSE}, piece : Piece]
    BY <2>2 DEF Kind
  <2> QED BY <2>1, <2>2 DEF Part
<1>4. \A x \in Shown : x = Block(x.kind, x.body) /\ x.kind \in Kind /\ x.body \in Seq(Nat)
  BY DEF Shown, Block
<1> QED BY <1>2, <1>3, <1>4

(* A call has one block.                                                   *)
LEMMA OneBlockPerCall ==
  ASSUME ShownInv, NEW b \in 1..Len(shown), NEW c \in 1..Len(shown),
         shown[b].kind \in Tool, shown[b].kind = shown[c].kind
  PROVE  b = c
<1>1. toolBlocks[shown[b].kind] = b - 1 /\ toolBlocks[shown[c].kind] = c - 1
  BY DEF ShownInv, Separate
<1>2. b - 1 = c - 1
  BY <1>1
<1> QED BY <1>2

(* The only block of a kind has all that was said of it.                   *)
LEMMA BodyIs ==
  ASSUME ShownInv, NEW at, Traced(at), NEW b \in 1..Len(shown),
         \A c \in 1..Len(shown) : shown[c].kind = shown[b].kind => c = b
  PROVE  shown[b].body = Pieces(Translated, shown[b].kind)
<1> DEFINE S == {i \in 1..Len(Translated) : at[i] = b /\ Translated[i].payload}
           R == {i \in DOMAIN Translated : Translated[i].kind = shown[b].kind /\ Translated[i].payload}
<1>1. S = R
  <2>1. ASSUME NEW i \in 1..Len(Translated)
        PROVE  at[i] = b <=> Translated[i].kind = shown[b].kind
    <3>1. at[i] \in 1..Len(shown) /\ Translated[i].kind = shown[at[i]].kind
      BY DEF Traced
    <3> QED BY <3>1
  <2> QED BY <2>1, ShownTyped
<1>2. Enumerates(shown[b].body, Len(shown[b].body), S) /\ Len(shown[b].body) \in Nat
  BY ShownTyped, LenProperties DEF Traced
<1>3. S \in SUBSET Nat
  OBVIOUS
<1> HIDE DEF S
<1>4. Ordered(S) = shown[b].body
  BY <1>2, <1>3, OrderedUnique
<1> QED BY <1>1, <1>4 DEF Pieces

(* The blocks of one kind have all that was said of it, in order.          *)
LEMMA BodiesOfKind ==
  ASSUME ShownInv, NEW k \in Kind
  PROVE  Bodies(OfKind(shown, k)) = Pieces(Translated, k)
<1> DEFINE n == Len(shown)
           m == Len(Translated)
           I == {b \in DOMAIN shown : shown[b].kind = k}
           N == Cardinality(I)
           w == Ordered(I)
           S == {i \in DOMAIN Translated : Translated[i].kind = k /\ Translated[i].payload}
           ss == [a \in 1..N |-> shown[w[a]].body]
<1>1. PICK at : Traced(at)
  BY DEF ShownInv
<1>2. I \in SUBSET (1..n) /\ n \in Nat /\ shown \in Seq(Shown)
  BY ShownTyped DEF ShownInv
<1>3. N \in Nat /\ Enumerates(w, N, I)
  BY <1>2, OrderedIs
<1>4. At(shown, I) \in Seq(Shown) /\ Len(At(shown, I)) = N /\ \A a \in 1..N : At(shown, I)[a] = shown[w[a]]
  BY <1>2, AtIs
<1>5. Bodies(OfKind(shown, k)) = FlattenSeq(ss)
  <2>1. DOMAIN At(shown, I) = 1..N
    BY <1>4, LenProperties
  <2>2. [a \in DOMAIN At(shown, I) |-> At(shown, I)[a].body] = ss
    BY <1>4, <2>1
  <2> HIDE DEF ss
  <2> QED BY <2>2 DEF Bodies, OfKind
<1>6. \A a \in 1..N : w[a] \in 1..n /\ shown[w[a]].kind = k /\ ss[a] = shown[w[a]].body
  BY <1>2, <1>3 DEF Enumerates
<1>7. \A a, b \in 1..N : a < b => w[a] < w[b]
  BY <1>3 DEF Enumerates
<1>8. \A b \in I : \E a \in 1..N : w[a] = b
  BY <1>3 DEF Enumerates
<1>9. ss \in [1..N -> Seq(Nat)]
  <2>1. \A a \in 1..N : shown[w[a]].body \in Seq(Nat)
    BY <1>6, ShownTyped
  <2> QED BY <2>1
<1>10. \A b \in 1..n : Enumerates(shown[b].body, Len(shown[b].body), {i \in 1..m : at[i] = b /\ Translated[i].payload})
  BY <1>1 DEF Traced
<1> HIDE DEF w, N, ss
<1>11. ASSUME NEW a \in 1..N
       PROVE  \A i, j \in 1..Len(ss[a]) : i < j => ss[a][i] < ss[a][j]
  BY <1>6, <1>10 DEF Enumerates
<1>12. ASSUME NEW a \in 1..N, NEW i \in 1..Len(ss[a])
       PROVE  ss[a][i] \in 1..m /\ at[ss[a][i]] = w[a] /\ Translated[ss[a][i]].payload
  <2> DEFINE D(b) == {j \in 1..m : at[j] = b /\ Translated[j].payload}
  <2>1. w[a] \in 1..n /\ ss[a] = shown[w[a]].body
    BY <1>6
  <2>2. Enumerates(ss[a], Len(ss[a]), D(w[a]))
    BY <1>10, <2>1
  <2>3. ss[a][i] \in D(w[a])
    <3> HIDE DEF D
    <3> QED BY <2>2 DEF Enumerates
  <2> QED BY <2>3
<1>13. ASSUME NEW a \in 1..N, NEW b \in 1..N, NEW i \in 1..Len(ss[a]), NEW j \in 1..Len(ss[b]), a < b
       PROVE  ss[a][i] < ss[b][j]
  <2> DEFINE x == ss[a][i]
             y == ss[b][j]
  <2>1. x \in 1..m /\ y \in 1..m /\ at[x] = w[a] /\ at[y] = w[b]
    BY <1>12
  <2>2. w[a] < w[b] /\ w[a] \in Nat /\ w[b] \in Nat
    BY <1>6, <1>7, <1>13
  <2> HIDE DEF x, y
  <2>3. y <= x => at[y] <= at[x]
    BY <1>1, <2>1 DEF Traced
  <2>4. x < y
    BY <2>1, <2>2, <2>3
  <2> QED BY <2>4 DEF x, y
<1>14. ASSUME NEW a \in 1..N, NEW i \in 1..Len(ss[a]) PROVE ss[a][i] \in S
  <2> DEFINE x == ss[a][i]
  <2>1. x \in 1..m /\ at[x] = w[a] /\ Translated[x].payload
    BY <1>12
  <2> HIDE DEF x
  <2>2. Translated[x].kind = k
    BY <1>1, <1>6, <2>1 DEF Traced
  <2>3. x \in DOMAIN Translated
    BY <2>1, ShownTyped
  <2>5. x \in S
    BY <2>1, <2>2, <2>3
  <2> HIDE DEF S
  <2> QED BY <2>5 DEF x
<1>15. ASSUME NEW x \in S PROVE \E a \in 1..N : \E i \in 1..Len(ss[a]) : x = ss[a][i]
  <2>1. x \in 1..m /\ Translated[x].kind = k /\ Translated[x].payload
    BY ShownTyped
  <2>2. at[x] \in 1..n /\ shown[at[x]].kind = k
    BY <1>1, <2>1 DEF Traced
  <2>3. at[x] \in I
    BY <2>2, ShownTyped
  <2>4. PICK a \in 1..N : w[a] = at[x]
    BY <1>8, <2>3
  <2>5. \E i \in 1..Len(shown[at[x]].body) : shown[at[x]].body[i] = x
    BY <1>10, <2>1, <2>2 DEF Enumerates
  <2> QED BY <1>6, <2>4, <2>5
<1>16. S \in SUBSET Nat
  BY ShownTyped
<1> HIDE DEF S
<1>17. FlattenSeq(ss) = Ordered(S)
  BY <1>3, <1>9, <1>11, <1>13, <1>14, <1>15, <1>16, FlattenIs DEF N
<1> QED BY <1>5, <1>17 DEF Pieces, S

(* The first part that each block was opened for.                          *)
LEMMA FirstParts ==
  ASSUME ShownInv, ~Fresh, NEW at, Traced(at)
  PROVE  \E first \in [1..Len(shown) -> 1..Len(Translated)] : \A b \in 1..Len(shown) :
           /\ at[first[b]] = b /\ Translated[first[b]].kind = shown[b].kind
           /\ \A i \in 1..Len(Translated) : at[i] = b => first[b] <= i
<1> DEFINE n == Len(shown)
           m == Len(Translated)
           IsFirst(b, x) == /\ x \in 1..m /\ at[x] = b
                            /\ \A i \in 1..m : at[i] = b => x <= i
<1>1. ASSUME NEW b \in 1..n PROVE \E x : IsFirst(b, x)
  <2> DEFINE B == {i \in 1..m : at[i] = b}
  <2>1. B # {} /\ B \in SUBSET Nat
    <3>1. \E i \in 1..m : at[i] = b
      BY DEF Traced
    <3>2. 1..m \subseteq Nat
      OBVIOUS
    <3> QED BY <3>1, <3>2
  <2>2. PICK x \in B : \A y \in B : x <= y
    <3> HIDE DEF B
    <3> QED BY <2>1, Least
  <2> QED BY <2>2
<1> DEFINE first == [b \in 1..n |-> CHOOSE x : IsFirst(b, x)]
<1>2. ASSUME NEW b \in 1..n PROVE IsFirst(b, first[b])
  BY <1>1
<1>3. ASSUME NEW b \in 1..n
      PROVE  /\ first[b] \in 1..m /\ at[first[b]] = b /\ Translated[first[b]].kind = shown[b].kind
             /\ \A i \in 1..m : at[i] = b => first[b] <= i
  <2>1. IsFirst(b, first[b])
    BY <1>2
  <2> HIDE DEF first
  <2> QED BY <2>1 DEF Traced
<1>4. first \in [1..n -> 1..m]
  BY <1>3
<1> HIDE DEF first
<1> QED BY <1>3, <1>4

(* The calls of the client's content are those of upstream's message.      *)
LEMMA CallsAre ==
  ASSUME ShownInv, ~Fresh
  PROVE  Calls(shown) = Message(Translated).calls
<1> DEFINE n == Len(shown)
           m == Len(Translated)
           C == {b \in DOMAIN shown : IsCall(shown[b])}
           N == Cardinality(C)
           w == Ordered(C)
           F == {i \in DOMAIN Translated : Translated[i].kind \in Tool /\ \A j \in 1..i - 1 : Translated[j].kind # Translated[i].kind}
<1>1. PICK at : Traced(at)
  BY DEF ShownInv
<1>2. PICK first \in [1..n -> 1..m] : \A b \in 1..n :
        /\ at[first[b]] = b /\ Translated[first[b]].kind = shown[b].kind
        /\ \A i \in 1..m : at[i] = b => first[b] <= i
  BY <1>1, FirstParts
<1>3. /\ n \in Nat /\ m \in Nat /\ DOMAIN Translated = 1..m /\ DOMAIN shown = 1..n
      /\ C \in SUBSET (1..n) /\ shown \in Seq(Shown)
  BY ShownTyped DEF ShownInv
<1>4. N \in Nat /\ Enumerates(w, N, C)
  BY <1>3, OrderedIs
<1>5. DOMAIN Calls(shown) = 1..N /\ \A a \in 1..N : Calls(shown)[a] = shown[w[a]]
  <2>1. At(shown, C) \in Seq(Shown) /\ Len(At(shown, C)) = N /\ \A a \in 1..N : At(shown, C)[a] = shown[w[a]]
    BY <1>3, AtIs
  <2>2. DOMAIN At(shown, C) = 1..N
    BY <2>1, LenProperties
  <2> QED BY <2>1, <2>2 DEF Calls
<1>6. \A a \in 1..N : w[a] \in 1..n /\ shown[w[a]].kind \in Tool
  BY <1>3, <1>4 DEF Enumerates, IsCall
<1>7. \A a, c \in 1..N : a < c => w[a] < w[c]
  BY <1>4 DEF Enumerates
<1>8. \A b \in 1..n : shown[b].kind \in Tool => \E a \in 1..N : w[a] = b
  BY <1>3, <1>4 DEF Enumerates, IsCall
<1>9. \A i \in 1..m : at[i] \in 1..n /\ Translated[i].kind = shown[at[i]].kind
  BY <1>1 DEF Traced
<1>10. \A i, j \in 1..m : i <= j => at[i] <= at[j]
  BY <1>1 DEF Traced
<1> HIDE DEF w, N
<1> DEFINE q == [a \in 1..N |-> first[w[a]]]
<1>11. \A a \in 1..N : q[a] = first[w[a]] /\ q[a] \in 1..m
  BY <1>2, <1>6
<1> HIDE DEF q
<1>12. ASSUME NEW a \in 1..N PROVE q[a] \in F
  <2>1. Translated[q[a]].kind \in Tool /\ Translated[q[a]].kind = shown[w[a]].kind
    BY <1>2, <1>6, <1>11
  <2>2. ASSUME NEW j \in 1..q[a] - 1, Translated[j].kind = Translated[q[a]].kind PROVE FALSE
    <3>1. j \in 1..m /\ j < q[a]
      BY <1>3, <1>11
    <3>2. shown[at[j]].kind = shown[w[a]].kind /\ at[j] \in 1..n
      BY <1>9, <2>1, <2>2, <3>1
    <3>3. at[j] = w[a]
      BY <1>6, <3>2, OneBlockPerCall
    <3>4. q[a] <= j
      BY <1>2, <1>6, <1>11, <3>1, <3>3
    <3> QED BY <1>11, <3>1, <3>4
  <2> QED BY <1>3, <1>11, <2>1, <2>2
<1>13. ASSUME NEW x \in F PROVE \E a \in 1..N : q[a] = x
  <2>1. x \in 1..m /\ Translated[x].kind \in Tool /\ \A j \in 1..x - 1 : Translated[j].kind # Translated[x].kind
    BY <1>3
  <2>2. PICK a \in 1..N : w[a] = at[x]
    BY <1>8, <1>9, <2>1
  <2>3. q[a] <= x /\ q[a] \in 1..m /\ Translated[q[a]].kind = Translated[x].kind
    <3>1. q[a] = first[w[a]] /\ q[a] \in 1..m /\ w[a] \in 1..n
      BY <1>6, <1>11
    <3>2. Translated[first[w[a]]].kind = shown[w[a]].kind /\ first[w[a]] <= x
      BY <1>2, <2>1, <2>2, <3>1
    <3>3. Translated[x].kind = shown[w[a]].kind
      BY <1>9, <2>1, <2>2
    <3> QED BY <3>1, <3>2, <3>3
  <2>4. q[a] = x
    <3>1. q[a] < x => q[a] \in 1..x - 1
      BY <2>1, <2>3
    <3> QED BY <2>1, <2>3, <3>1
  <2> QED BY <2>4
<1>14. ASSUME NEW a \in 1..N, NEW c \in 1..N, a < c PROVE q[a] < q[c]
  <2>1. at[q[a]] = w[a] /\ at[q[c]] = w[c] /\ w[a] < w[c] /\ w[a] \in Nat /\ w[c] \in Nat
    BY <1>2, <1>6, <1>7, <1>11, <1>14
  <2>2. q[c] <= q[a] => at[q[c]] <= at[q[a]]
    BY <1>10, <1>11
  <2>3. ~(q[c] <= q[a])
    BY <2>1, <2>2
  <2> QED BY <1>11, <2>3
<1>15. Ordered(F) = q /\ DOMAIN q = 1..N
  <2>1. F \in SUBSET Nat
    BY <1>3
  <2> HIDE DEF F
  <2>2. q \in [1..N -> F]
    BY <1>12 DEF q
  <2>3. Enumerates(q, N, F)
    BY <1>12, <1>13, <1>14, <2>2 DEF Enumerates
  <2> QED BY <1>4, <2>1, <2>2, <2>3, OrderedUnique
<1>16. First(Translated) = q
  BY <1>15 DEF First
<1>17. Message(Translated).calls = [a \in 1..N |-> Block(Translated[q[a]].kind, Pieces(Translated, Translated[q[a]].kind))]
  BY <1>15, <1>16 DEF Message
<1>18. ASSUME NEW a \in 1..N
       PROVE  Block(Translated[q[a]].kind, Pieces(Translated, Translated[q[a]].kind)) = shown[w[a]]
  <2>1. Translated[q[a]].kind = shown[w[a]].kind /\ w[a] \in 1..n /\ shown[w[a]].kind \in Tool
    BY <1>2, <1>6, <1>11
  <2>2. shown[w[a]].body = Pieces(Translated, shown[w[a]].kind)
    <3>1. \A c \in 1..n : shown[c].kind = shown[w[a]].kind => c = w[a]
      BY <2>1, OneBlockPerCall
    <3> QED BY <1>1, <2>1, <3>1, BodyIs
  <2>3. shown[w[a]] = Block(shown[w[a]].kind, shown[w[a]].body)
    BY <2>1, ShownTyped
  <2> QED BY <2>1, <2>2, <2>3
<1>19. Calls(shown) = [a \in 1..N |-> Calls(shown)[a]]
  <2>1. Calls(shown) \in Seq(Shown)
    BY <1>3, AtIs DEF Calls
  <2>2. Calls(shown) = [a \in DOMAIN Calls(shown) |-> Calls(shown)[a]]
    BY <2>1, SeqDef
  <2> QED BY <1>5, <2>2
<1> HIDE DEF C, F
<1>20. [a \in 1..N |-> Calls(shown)[a]] = [a \in 1..N |-> Block(Translated[q[a]].kind, Pieces(Translated, Translated[q[a]].kind))]
  BY <1>5, <1>18
<1> QED BY <1>17, <1>19, <1>20

(* Of an answer in stages there is one block of each kind.                 *)
LEMMA KindsDiffer ==
  ASSUME ShownInv, Translated = said, ~Fresh, InStages
  PROVE  /\ \A b, c \in 1..Len(shown) : b <= c => Stage(shown[b].kind) <= Stage(shown[c].kind)
         /\ \A b, c \in 1..Len(shown) : shown[b].kind = shown[c].kind => b = c
<1> DEFINE n == Len(shown)
           m == Len(Translated)
<1>1. PICK at : Traced(at)
  BY DEF ShownInv
<1>2. PICK first \in [1..n -> 1..m] : \A b \in 1..n :
        /\ at[first[b]] = b /\ Translated[first[b]].kind = shown[b].kind
        /\ \A i \in 1..m : at[i] = b => first[b] <= i
  BY <1>1, FirstParts
<1>3. n \in Nat /\ m \in Nat /\ DOMAIN Translated = 1..m /\ \A b \in 1..n : shown[b].kind \in Kind
  BY ShownTyped
<1>4. ASSUME NEW b \in 1..n, NEW c \in 1..n, b < c PROVE Stage(shown[b].kind) <= Stage(shown[c].kind)
  <2>1. first[b] \in 1..m /\ first[c] \in 1..m
    BY <1>2
  <2>2. first[c] <= first[b] => c <= b
    BY <1>1, <1>2, <2>1 DEF Traced
  <2>3. first[b] < first[c]
    BY <1>4, <2>1, <2>2
  <2> QED BY <1>2, <1>3, <2>1, <2>3 DEF InStages
<1>5. \A k \in Kind : Stage(k) \in 0..2 /\ (Stage(k) = 0 <=> k = "thinking") /\ (Stage(k) = 1 <=> k = "text")
  BY DEF Stage
<1>6. \A b, c \in 1..n : b <= c => Stage(shown[b].kind) <= Stage(shown[c].kind)
  BY <1>3, <1>4, <1>5
<1>7. ASSUME NEW b \in 1..n, NEW c \in 1..n, shown[b].kind = shown[c].kind, b < c PROVE FALSE
  <2>1. shown[b].kind \notin Tool
    BY <1>7, OneBlockPerCall
  <2>2. b \in 1..n - 1 /\ b + 1 \in 1..n /\ b <= b + 1 /\ b + 1 <= c
    BY <1>3, <1>7
  <2>3. shown[b + 1].kind # shown[b].kind
    BY <2>1, <2>2 DEF ShownInv, Separate
  <2>4. Stage(shown[b].kind) <= Stage(shown[b + 1].kind) /\ Stage(shown[b + 1].kind) <= Stage(shown[c].kind)
    BY <1>6, <2>2
  <2>5. Stage(shown[b].kind) = Stage(shown[b + 1].kind)
    BY <1>3, <1>5, <1>7, <2>2, <2>4
  <2>6. shown[b].kind = "thinking" \/ shown[b].kind = "text"
    BY <1>3, <2>1 DEF Kind
  <2> QED BY <1>3, <1>5, <2>2, <2>3, <2>5, <2>6
<1>8. \A b, c \in 1..n : shown[b].kind = shown[c].kind => b = c
  BY <1>3, <1>7
<1> QED BY <1>6, <1>8

(* The order of no position, and of one.                                   *)
LEMMA OrderedNone == Ordered({}) = <<>>
<1>1. {} \in SUBSET Nat /\ 0 \in Nat /\ 1..0 = {}
  OBVIOUS
<1>2. <<>> \in [1..0 -> {}]
  <2>1. <<>> \in Seq({}) /\ Len(<<>>) = 0
    BY EmptySeq
  <2>2. DOMAIN <<>> = 1..0 /\ <<>> = [i \in DOMAIN <<>> |-> <<>>[i]]
    BY <2>1, LenProperties, SeqDef
  <2> QED BY <1>1, <2>2
<1>3. Enumerates(<<>>, 0, {})
  BY <1>1, <1>2 DEF Enumerates
<1> QED BY <1>1, <1>3, OrderedUnique

LEMMA OrderedOne ==
  ASSUME NEW x \in Nat
  PROVE  Ordered({x}) = <<x>> /\ Cardinality({x}) = 1
<1>1. <<x>> \in [1..1 -> {x}] /\ <<x>>[1] = x
  OBVIOUS
<1>2. Enumerates(<<x>>, 1, {x})
  BY <1>1 DEF Enumerates
<1> QED BY <1>2, OrderedUnique

(* What comes first is selected first.                                     *)
LEMMA AtConcat ==
  ASSUME NEW X, NEW s \in Seq(X), NEW S \in SUBSET (1..Len(s)), NEW R \in SUBSET (1..Len(s)),
         \A x \in S, y \in R : x < y
  PROVE  At(s, S \cup R) = At(s, S) \o At(s, R)
<1> DEFINE q == Ordered(S)
           r == Ordered(R)
           n == Cardinality(S)
           m == Cardinality(R)
<1>1. /\ Len(s) \in Nat /\ S \in SUBSET Nat /\ R \in SUBSET Nat
      /\ S \cup R \in SUBSET (1..Len(s)) /\ S \cup R \in SUBSET Nat
  BY LenProperties
<1>2. n \in Nat /\ m \in Nat /\ Enumerates(q, n, S) /\ Enumerates(r, m, R)
  BY <1>1, OrderedIs
<1>3. q \in Seq(Nat) /\ Len(q) = n /\ r \in Seq(Nat) /\ Len(r) = m
  <2>1. q \in [1..n -> Nat] /\ r \in [1..m -> Nat]
    BY <1>1, <1>2 DEF Enumerates
  <2> HIDE DEF q, r, n, m
  <2> QED BY <1>2, <2>1, SeqDef, LenProperties
<1>4. /\ At(s, S) \in Seq(X) /\ Len(At(s, S)) = n /\ \A i \in 1..n : At(s, S)[i] = s[q[i]]
      /\ At(s, R) \in Seq(X) /\ Len(At(s, R)) = m /\ \A i \in 1..m : At(s, R)[i] = s[r[i]]
      /\ At(s, S \cup R) \in Seq(X) /\ Len(At(s, S \cup R)) = Cardinality(S \cup R)
      /\ \A i \in 1..Cardinality(S \cup R) : At(s, S \cup R)[i] = s[Ordered(S \cup R)[i]]
  BY <1>1, AtIs
<1> HIDE DEF q, r, n, m
<1>5. q \o r \in Seq(Nat) /\ Enumerates(q \o r, Len(q \o r), S \cup R)
  BY <1>1, <1>2, <1>3, EnumeratesConcat
<1>6. /\ Len(q \o r) = n + m
      /\ \A i \in 1..n : (q \o r)[i] = q[i]
      /\ \A i \in n + 1..n + m : (q \o r)[i] = r[i - n]
  <2>1. /\ Len(q \o r) = Len(q) + Len(r)
        /\ \A i \in 1..Len(q) + Len(r) : (q \o r)[i] = IF i <= Len(q) THEN q[i] ELSE r[i - Len(q)]
    BY <1>3, ConcatProperties
  <2>2. /\ Len(q \o r) = n + m
        /\ \A i \in 1..n + m : (q \o r)[i] = IF i <= n THEN q[i] ELSE r[i - n]
    BY <1>3, <2>1
  <2>3. \A i \in 1..n : i \in 1..n + m /\ i <= n
    BY <1>2
  <2>4. \A i \in n + 1..n + m : i \in 1..n + m /\ ~(i <= n)
    BY <1>2
  <2> QED BY <2>2, <2>3, <2>4
<1>7. Ordered(S \cup R) = q \o r /\ Cardinality(S \cup R) = n + m
  <2>1. n + m \in Nat
    BY <1>2
  <2> QED BY <1>1, <1>5, <1>6, <2>1, OrderedUnique
<1> DEFINE a == At(s, S)
           b == At(s, R)
           c == At(s, S \cup R)
<1>8. /\ a \o b \in Seq(X) /\ Len(a \o b) = n + m
      /\ \A i \in 1..n : (a \o b)[i] = a[i]
      /\ \A i \in n + 1..n + m : (a \o b)[i] = b[i - n]
  <2> HIDE DEF a, b
  <2>1. a \in Seq(X) /\ Len(a) = n /\ b \in Seq(X) /\ Len(b) = m
    BY <1>4 DEF a, b
  <2>2. /\ a \o b \in Seq(X) /\ Len(a \o b) = Len(a) + Len(b)
        /\ \A i \in 1..Len(a) + Len(b) : (a \o b)[i] = IF i <= Len(a) THEN a[i] ELSE b[i - Len(a)]
    BY <2>1, ConcatProperties
  <2>3. /\ Len(a \o b) = n + m
        /\ \A i \in 1..n + m : (a \o b)[i] = IF i <= n THEN a[i] ELSE b[i - n]
    BY <2>1, <2>2
  <2>4. \A i \in 1..n : i \in 1..n + m /\ i <= n
    BY <1>2
  <2>5. \A i \in n + 1..n + m : i \in 1..n + m /\ ~(i <= n)
    BY <1>2
  <2> QED BY <2>2, <2>3, <2>4, <2>5
<1>9. ASSUME NEW i \in 1..n + m PROVE c[i] = (a \o b)[i]
  <2>1. CASE i \in 1..n
    <3>1. (a \o b)[i] = a[i] /\ a[i] = s[q[i]] /\ (q \o r)[i] = q[i]
      BY <1>4, <1>6, <1>8, <2>1
    <3>2. c[i] = s[(q \o r)[i]]
      BY <1>4, <1>7
    <3> QED BY <3>1, <3>2
  <2>2. CASE i \notin 1..n
    <3>1. i \in n + 1..n + m /\ i - n \in 1..m
      BY <1>2, <2>2
    <3>2. b[i - n] = s[r[i - n]]
      BY <1>4, <3>1
    <3>3. (a \o b)[i] = b[i - n] /\ (q \o r)[i] = r[i - n]
      BY <1>6, <1>8, <3>1
    <3>4. c[i] = s[(q \o r)[i]]
      BY <1>4, <1>7
    <3> QED BY <3>2, <3>3, <3>4
  <2> QED BY <2>1, <2>2
<1>10. c \in Seq(X) /\ Len(c) = n + m
  BY <1>4, <1>7
<1> HIDE DEF a, b, c
<1>11. c = a \o b
  BY <1>8, <1>9, <1>10, SeqEqual
<1> QED BY <1>11 DEF a, b, c

(* What is selected from one position on is the rest.                      *)
LEMMA AtRest ==
  ASSUME NEW X, NEW s \in Seq(X), NEW d \in 0..Len(s)
  PROVE  At(s, d + 1..Len(s)) = [i \in 1..Len(s) - d |-> s[d + i]]
<1> DEFINE n == Len(s) - d
           S == d + 1..Len(s)
           q == [i \in 1..n |-> d + i]
<1>1. n \in Nat /\ Len(s) \in Nat /\ d \in Nat /\ S \in SUBSET Nat
  BY LenProperties
<1>2. q \in [1..n -> S]
  BY <1>1
<1>3. \A x \in S : \E i \in 1..n : q[i] = x
  <2> SUFFICES ASSUME NEW x \in S PROVE \E i \in 1..n : q[i] = x
    OBVIOUS
  <2>1. x - d \in 1..n /\ q[x - d] = x
    BY <1>1
  <2> QED BY <2>1
<1>4. Enumerates(q, n, S)
  BY <1>1, <1>2, <1>3 DEF Enumerates
<1> HIDE DEF q, n
<1>5. Ordered(S) = q
  BY <1>1, <1>4, OrderedUnique
<1>6. DOMAIN q = 1..n /\ \A i \in 1..n : q[i] = d + i
  BY DEF q
<1> QED BY <1>5, <1>6 DEF At, n

(* All positions together select the sequence.                             *)
LEMMA AtAll ==
  ASSUME NEW X, NEW s \in Seq(X)
  PROVE  At(s, 1..Len(s)) = s
<1>1. Len(s) \in Nat /\ DOMAIN s = 1..Len(s) /\ s = [i \in DOMAIN s |-> s[i]]
  BY LenProperties, SeqDef
<1>2. At(s, 0 + 1..Len(s)) = [i \in 1..Len(s) - 0 |-> s[0 + i]]
  <2>1. 0 \in 0..Len(s)
    BY <1>1
  <2> QED BY <2>1, AtRest
<1>3. 0 + 1..Len(s) = 1..Len(s) /\ Len(s) - 0 = Len(s) /\ \A i \in 1..Len(s) : 0 + i = i
  BY <1>1
<1>4. [i \in 1..Len(s) - 0 |-> s[0 + i]] = [i \in 1..Len(s) |-> s[i]]
  BY <1>3
<1> QED BY <1>1, <1>2, <1>3, <1>4

(* The thinking, or the text, of an answer in stages is one block, unless  *)
(* there is none.                                                          *)
LEMMA OneBlock ==
  ASSUME ShownInv, Translated = said, ~Fresh, InStages, NEW k \in {"thinking", "text"}
  PROVE  OfKind(shown, k) = NonEmpty(k, Pieces(Translated, k))
<1> DEFINE n == Len(shown)
           m == Len(Translated)
           I == {b \in DOMAIN shown : shown[b].kind = k}
           S == {i \in DOMAIN Translated : Translated[i].kind = k /\ Translated[i].payload}
<1>1. PICK at : Traced(at)
  BY DEF ShownInv
<1>2. n \in Nat /\ m \in Nat /\ DOMAIN Translated = 1..m /\ DOMAIN shown = 1..n /\ k \notin Tool
  BY ShownTyped, ToolsAreNew
<1>3. \A i \in 1..m : at[i] \in 1..n /\ Translated[i].kind = shown[at[i]].kind
  BY <1>1 DEF Traced
<1>4. CASE \E b \in 1..n : shown[b].kind = k
  <2>1. PICK b \in 1..n : shown[b].kind = k
    BY <1>4
  <2>2. \A c \in 1..n : shown[c].kind = shown[b].kind => c = b
    BY KindsDiffer
  <2>3. I = {b}
    BY <1>2, <2>1, <2>2
  <2>4. At(shown, I) = <<shown[b]>>
    <3>1. Ordered(I) = <<b>> /\ DOMAIN <<b>> = 1..1 /\ <<b>>[1] = b
      BY <2>3, OrderedOne
    <3> HIDE DEF I
    <3>2. At(shown, I) = [a \in 1..1 |-> shown[<<b>>[a]]]
      BY <3>1 DEF At
    <3>3. [a \in 1..1 |-> shown[<<b>>[a]]] = <<shown[b]>>
      OBVIOUS
    <3> QED BY <3>2, <3>3
  <2>5. shown[b].body = Pieces(Translated, k)
    BY <1>1, <2>1, <2>2, BodyIs
  <2>6. shown[b] = Block(k, shown[b].body) /\ shown[b].body \in Seq(Nat)
    BY <2>1, ShownTyped
  <2>7. shown[b].body # <<>>
    <3>1. PICK i \in 1..m : at[i] = b
      BY <1>1 DEF Traced
    <3>2. Translated[i].payload
      BY <1>2, <1>3, <2>1, <3>1, ShownTyped
    <3>3. \E j \in 1..Len(shown[b].body) : shown[b].body[j] = i
      BY <1>1, <3>1, <3>2 DEF Traced, Enumerates
    <3>4. Len(shown[b].body) # 0
      BY <3>3
    <3> QED BY <3>4, EmptySeq
  <2> QED BY <2>4, <2>5, <2>6, <2>7 DEF OfKind, NonEmpty
<1>5. CASE ~ \E b \in 1..n : shown[b].kind = k
  <2>1. I = {}
    BY <1>2, <1>5
  <2>2. S = {}
    <3>1. ASSUME NEW i \in 1..m, Translated[i].kind = k PROVE FALSE
      BY <1>3, <1>5, <3>1
    <3> QED BY <1>2, <3>1
  <2>3. At(shown, {}) = <<>>
    <3>1. DOMAIN <<>> = {}
      BY EmptySeq, LenProperties
    <3>2. At(shown, {}) = [a \in DOMAIN <<>> |-> shown[<<>>[a]]]
      BY OrderedNone DEF At
    <3> QED BY <3>1, <3>2
  <2>4. Pieces(Translated, k) = <<>> /\ OfKind(shown, k) = At(shown, {})
    BY <2>1, <2>2, OrderedNone DEF Pieces, OfKind
  <2> QED BY <2>3, <2>4 DEF NonEmpty
<1> QED BY <1>4, <1>5

(* In stages, thinking, text and calls follow each other, one block each.  *)
LEMMA ShownAsWhole == Arrived /\ ShownInv => StreamedAsWhole
<1> SUFFICES ASSUME Arrived, ShownInv, Whole, said # <<>>, InStages
             PROVE  shown = FromOpenAI(Message(said))
  BY DEF StreamedAsWhole
<1>0. Translated = said
  BY TranslatedAll DEF Arrived
<1> DEFINE n == Len(shown)
           H == {b \in DOMAIN shown : shown[b].kind = "thinking"}
           X == {b \in DOMAIN shown : shown[b].kind = "text"}
           C == {b \in DOMAIN shown : IsCall(shown[b])}
<1>1. ~Fresh
  BY DEF Fresh, Whole
<1>2. n \in Nat /\ DOMAIN shown = 1..n /\ shown \in Seq(Shown) /\ \A b \in 1..n : shown[b].kind \in Kind
  BY ShownTyped DEF ShownInv
<1>3. H \in SUBSET (1..n) /\ X \in SUBSET (1..n) /\ C \in SUBSET (1..n) /\ H \cup X \in SUBSET (1..n)
  BY <1>2
<1>4. \A b \in 1..n : b \in H \/ b \in X \/ b \in C
  BY <1>2 DEF Kind, IsCall
<1>5. \A k \in Kind : (k = "thinking" => Stage(k) = 0) /\ (k = "text" => Stage(k) = 1) /\ (k \in Tool => Stage(k) = 2)
  BY ToolsAreNew DEF Stage
<1>6. \A b, c \in 1..n : b <= c => Stage(shown[b].kind) <= Stage(shown[c].kind)
  BY <1>0, <1>1, KindsDiffer
<1>7. ASSUME NEW b \in 1..n, NEW c \in 1..n,
             NEW x \in Nat, NEW y \in Nat, x < y,
             Stage(shown[b].kind) = x, Stage(shown[c].kind) = y
      PROVE  b < c
  <2>1. ~(c <= b)
    <3>1. c <= b => y <= x
      BY <1>6, <1>7
    <3> QED BY <1>7, <3>1
  <2> QED BY <1>2, <2>1
<1>8. (\A b \in H, c \in X : b < c) /\ (\A b \in H \cup X, c \in C : b < c)
  <2>1. \A b \in H : b \in 1..n /\ Stage(shown[b].kind) = 0
    BY <1>2, <1>5
  <2>2. \A b \in X : b \in 1..n /\ Stage(shown[b].kind) = 1
    BY <1>2, <1>5
  <2>3. \A b \in C : b \in 1..n /\ Stage(shown[b].kind) = 2
    BY <1>2, <1>5 DEF IsCall
  <2> HIDE DEF H, X, C
  <2>4. \A b \in H, c \in X : b < c
    <3> TAKE b \in H, c \in X
    <3>1. b \in 1..n /\ c \in 1..n /\ Stage(shown[b].kind) = 0 /\ Stage(shown[c].kind) = 1
      BY <2>1, <2>2
    <3> QED BY <1>7, <3>1
  <2>5. \A b \in H, c \in C : b < c
    <3> TAKE b \in H, c \in C
    <3>1. b \in 1..n /\ c \in 1..n /\ Stage(shown[b].kind) = 0 /\ Stage(shown[c].kind) = 2
      BY <2>1, <2>3
    <3> QED BY <1>7, <3>1
  <2>6. \A b \in X, c \in C : b < c
    <3> TAKE b \in X, c \in C
    <3>1. b \in 1..n /\ c \in 1..n /\ Stage(shown[b].kind) = 1 /\ Stage(shown[c].kind) = 2
      BY <2>2, <2>3
    <3> QED BY <1>7, <3>1
  <2> QED BY <2>4, <2>5, <2>6
<1>9. 1..n = H \cup X \cup C
  BY <1>3, <1>4
<1> HIDE DEF H, X, C
<1>10. At(shown, H \cup X) = At(shown, H) \o At(shown, X)
  BY <1>2, <1>3, <1>8, AtConcat
<1>11. At(shown, H \cup X \cup C) = At(shown, H \cup X) \o At(shown, C)
  BY <1>2, <1>3, <1>8, AtConcat
<1>12. shown = OfKind(shown, "thinking") \o OfKind(shown, "text") \o Calls(shown)
  BY <1>2, <1>9, <1>10, <1>11, AtAll DEF OfKind, Calls, H, X, C
<1>13. /\ OfKind(shown, "thinking") = NonEmpty("thinking", Message(Translated).reasoning)
       /\ OfKind(shown, "text") = NonEmpty("text", Message(Translated).text)
       /\ Calls(shown) = Message(Translated).calls
  BY <1>0, <1>1, OneBlock, CallsAre DEF Message
<1>14. shown # <<>>
  <2>1. Len(Translated) \in Nat /\ Len(Translated) # 0
    BY <1>0, EmptySeq, ShownTyped DEF ShownInv
  <2>2. PICK at : Traced(at)
    BY DEF ShownInv
  <2>3. 1 \in 1..Len(Translated)
    BY <2>1
  <2>4. at[1] \in 1..n
    BY <2>2, <2>3 DEF Traced
  <2> QED BY <1>2, <2>4, EmptySeq
<1> QED BY <1>0, <1>12, <1>13, <1>14 DEF FromOpenAI

(* So the client can send back what was said.                              *)
LEMMA ShownReturns == Arrived /\ ShownInv => AnswerReturns
<1> SUFFICES ASSUME Arrived, ShownInv, Whole
             PROVE  /\ Assistant(shown).calls = Message(said).calls
                    /\ Bodies(Assistant(shown).texts) = Message(said).text
                    /\ InStages => Len(Assistant(shown).texts) <= 1
  BY DEF AnswerReturns
<1>0. Translated = said
  BY TranslatedAll DEF Arrived
<1>1. ~Fresh
  BY DEF Fresh, Whole
<1>2. Assistant(shown).calls = Message(Translated).calls
  BY <1>1, CallsAre DEF Assistant
<1>3. Bodies(OfKind(shown, "text")) = Pieces(Translated, "text")
  BY BodiesOfKind DEF Kind
<1>4. ASSUME InStages PROVE Len(OfKind(shown, "text")) <= 1
  <2>1. OfKind(shown, "text") = NonEmpty("text", Pieces(Translated, "text"))
    BY <1>0, <1>1, <1>4, OneBlock
  <2>2. OfKind(shown, "text") = <<>> \/ OfKind(shown, "text") = <<Block("text", Pieces(Translated, "text"))>>
    BY <2>1 DEF NonEmpty
  <2>3. Len(<<>>) = 0 /\ Len(<<Block("text", Pieces(Translated, "text"))>>) = 1
    OBVIOUS
  <2>4. PICK l \in {0, 1} : Len(OfKind(shown, "text")) = l
    BY <2>2, <2>3
  <2>5. l <= 1
    OBVIOUS
  <2> QED BY <2>4, <2>5
<1> QED BY <1>0, <1>2, <1>3, <1>4 DEF Assistant, Message

-------------------------------------------------------------------------------
(* User, from its definition as a fold: g is the fold over each set of     *)
(* positions in D, as the library has it.                                  *)
Adds(g, s, D) == g = [x \in D |-> IF x = {} THEN NoMessage ELSE Add(g[x \ {Max(x)}], s[Max(x)])]

(* The last of the positions up to k.                                      *)
LEMMA LargestIs ==
  ASSUME NEW k \in Nat, NEW x \in SUBSET (1..k), k \in x
  PROVE  Max(x) = k
<1>1. \A y \in x : k >= y
  OBVIOUS
<1>2. \A z \in x : (\A y \in x : z >= y) => z = k
  <2> SUFFICES ASSUME NEW z \in x, \A y \in x : z >= y PROVE z = k
    OBVIOUS
  <2>1. z >= k /\ k >= z /\ z \in Nat
    BY <1>1
  <2> QED BY <2>1
<1> QED BY <1>1, <1>2 DEF Max

(* The recursion of the fold has a solution.                               *)
LEMMA FoldExists ==
  ASSUME NEW n \in Nat, NEW s
  PROVE  \E g : Adds(g, s, SUBSET (1..n))
<1> DEFINE T == {k \in Nat : \E g : Adds(g, s, SUBSET (1..k))}
<1>1. 0 \in T
  <2>1. SUBSET (1..0) = {{}}
    OBVIOUS
  <2>2. Adds([x \in {{}} |-> NoMessage], s, {{}})
    BY DEF Adds
  <2> QED BY <2>1, <2>2
<1>2. ASSUME NEW k \in T PROVE k + 1 \in T
  <2>0. k \in Nat /\ k + 1 \in Nat
    OBVIOUS
  <2>1. PICK h : Adds(h, s, SUBSET (1..k))
    BY <1>2
  <2> HIDE DEF T
  <2>2. PICK g : g = [x \in SUBSET (1..k + 1) |->
                        IF k + 1 \in x THEN Add(h[x \ {k + 1}], s[k + 1]) ELSE h[x]]
    OBVIOUS
  <2>3. \A x \in SUBSET (1..k + 1) : k + 1 \notin x => x \in SUBSET (1..k)
    BY <2>0
  <2>4. \A x \in SUBSET (1..k) : x \in SUBSET (1..k + 1) /\ k + 1 \notin x
    BY <2>0
  <2>5. \A x \in SUBSET (1..k + 1) :
          g[x] = IF k + 1 \in x THEN Add(h[x \ {k + 1}], s[k + 1]) ELSE h[x]
    BY <2>2
  <2>6. \A x \in SUBSET (1..k) :
          h[x] = IF x = {} THEN NoMessage ELSE Add(h[x \ {Max(x)}], s[Max(x)])
    BY <2>1 DEF Adds
  <2>7. ASSUME NEW x \in SUBSET (1..k + 1)
        PROVE  g[x] = IF x = {} THEN NoMessage ELSE Add(g[x \ {Max(x)}], s[Max(x)])
    <3>1. CASE k + 1 \in x
      <4>1. Max(x) = k + 1
        BY <2>0, <3>1, LargestIs
      <4>2. x \ {k + 1} \in SUBSET (1..k + 1) /\ k + 1 \notin x \ {k + 1}
        OBVIOUS
      <4>3. g[x \ {k + 1}] = h[x \ {k + 1}]
        BY <2>5, <4>2
      <4>4. g[x] = Add(h[x \ {k + 1}], s[k + 1])
        BY <2>5, <3>1
      <4> QED BY <3>1, <4>1, <4>3, <4>4
    <3>2. CASE k + 1 \notin x
      <4>1. x \in SUBSET (1..k) /\ g[x] = h[x]
        BY <2>3, <2>5, <3>2
      <4>2. x \ {Max(x)} \in SUBSET (1..k)
        BY <4>1
      <4>3. g[x \ {Max(x)}] = h[x \ {Max(x)}]
        BY <2>4, <2>5, <4>2
      <4> QED BY <2>6, <4>1, <4>3
    <3> QED BY <3>1, <3>2
  <2>8. g = [x \in SUBSET (1..k + 1) |-> IF x = {} THEN NoMessage ELSE Add(g[x \ {Max(x)}], s[Max(x)])]
    BY <2>2, <2>7
  <2>9. Adds(g, s, SUBSET (1..k + 1))
    BY <2>8 DEF Adds
  <2> QED BY <2>0, <2>9 DEF T
<1>3. T = Nat
  <2>1. T \in SUBSET Nat
    OBVIOUS
  <2> HIDE DEF T
  <2> QED BY <1>1, <1>2, <2>1, Every
<1> QED BY <1>3

(* So User is what the fold comes to.                                      *)
LEMMA UserFold ==
  ASSUME NEW X, NEW s \in Seq(X)
  PROVE  \E g : Adds(g, s, SUBSET (1..Len(s))) /\ User(s) = Flushed(g[1..Len(s)])
<1> DEFINE it == CHOOSE g : Adds(g, s, SUBSET (1..Len(s)))
<1>1. Adds(it, s, SUBSET (1..Len(s)))
  BY FoldExists, LenProperties
<1>2. DOMAIN s = 1..Len(s)
  BY LenProperties
<1>3. FoldLeft(Add, NoMessage, s) = it[1..Len(s)]
  BY <1>2 DEF FoldLeft, MapThenFoldSet, Adds
<1> QED BY <1>1, <1>3 DEF User

(* A prefix grows by the next element.                                     *)
LEMMA PrefixGrows ==
  ASSUME NEW X, NEW f \in Seq(X), NEW k \in Nat, k < Len(f)
  PROVE  Append([i \in 1..k |-> f[i]], f[k + 1]) = [i \in 1..k + 1 |-> f[i]]
<1> DEFINE p == [i \in 1..k |-> f[i]]
           r == [i \in 1..k + 1 |-> f[i]]
<1>1. Len(f) \in Nat /\ \A i \in 1..Len(f) : f[i] \in X
  BY LenProperties, ElementOfSeq
<1>2. k + 1 \in 1..Len(f) /\ \A i \in 1..k + 1 : i \in 1..Len(f)
  BY <1>1
<1>3. p \in [1..k -> X] /\ r \in [1..k + 1 -> X] /\ k + 1 \in Nat
  BY <1>1, <1>2
<1>4. /\ p \in Seq(X) /\ Len(p) = k /\ \A i \in 1..k : p[i] = f[i]
      /\ r \in Seq(X) /\ Len(r) = k + 1 /\ \A i \in 1..k + 1 : r[i] = f[i]
  BY <1>3, SeqDef, LenProperties
<1> HIDE DEF p, r
<1>5. /\ Append(p, f[k + 1]) \in Seq(X) /\ Len(Append(p, f[k + 1])) = k + 1
      /\ \A i \in 1..k : Append(p, f[k + 1])[i] = p[i]
      /\ Append(p, f[k + 1])[k + 1] = f[k + 1]
  BY <1>1, <1>2, <1>4, AppendProperties
<1>6. \A i \in 1..k + 1 : Append(p, f[k + 1])[i] = r[i]
  <2>1. \A i \in 1..k + 1 : i \in 1..k \/ i = k + 1
    OBVIOUS
  <2> QED BY <1>4, <1>5, <2>1
<1>7. Append(p, f[k + 1]) = r
  BY <1>4, <1>5, <1>6, SeqEqual
<1> QED BY <1>7 DEF p, r

(* What is no result waits for the end, or for the next result.            *)
LEMMA AddText ==
  ASSUME NEW a, NEW b, NEW c, ~IsResult(c)
  PROVE  Add([messages |-> a, texts |-> b], c) = [messages |-> a, texts |-> Append(b, c)]
<1>1. [[messages |-> a, texts |-> b] EXCEPT !.texts = Append(b, c)] = [messages |-> a, texts |-> Append(b, c)]
  OBVIOUS
<1>2. [messages |-> a, texts |-> b].texts = b
  OBVIOUS
<1> QED BY <1>1, <1>2 DEF Add

(* Results first, then the rest: a message for each result, and one for    *)
(* the rest.                                                               *)
LEMMA UserIs ==
  ASSUME NEW X, NEW s \in Seq(X), NEW R \in 0..Len(s),
         \A i \in 1..R : IsResult(s[i]), \A i \in R + 1..Len(s) : ~IsResult(s[i])
  PROVE  LET f == [i \in 1..R |-> ResultMessage(s[i])]
         IN  User(s) = IF Others(s) = <<>> THEN f ELSE Append(f, [role |-> "user", texts |-> Others(s)])
<1> DEFINE L == Len(s)
           f == [i \in 1..R |-> ResultMessage(s[i])]
           o == [i \in 1..L - R |-> s[R + i]]
           F(k) == [i \in 1..k |-> f[i]]
           O(k) == [i \in 1..k |-> o[i]]
<1>1. L \in Nat /\ R \in Nat /\ R <= L /\ L - R \in Nat /\ DOMAIN s = 1..L /\ \A i \in 1..L : s[i] \in X
  BY LenProperties, ElementOfSeq
<1>2. Others(s) = o
  <2>1. {i \in DOMAIN s : ~IsResult(s[i])} = R + 1..L
    <3>1. \A i \in 1..L : i \in 1..R \/ i \in R + 1..L
      BY <1>1
    <3>2. \A i \in R + 1..L : i \in 1..L
      BY <1>1
    <3> QED BY <1>1, <3>1, <3>2
  <2>2. At(s, R + 1..L) = o
    BY AtRest
  <2> HIDE DEF o
  <2> QED BY <2>1, <2>2 DEF Others
<1>3. f \in Seq({ResultMessage(s[i]) : i \in 1..R}) /\ Len(f) = R /\ \A i \in 1..R : f[i] = ResultMessage(s[i])
  <2>1. f \in [1..R -> {ResultMessage(s[i]) : i \in 1..R}]
    OBVIOUS
  <2>2. \A i \in 1..R : f[i] = ResultMessage(s[i])
    OBVIOUS
  <2> HIDE DEF f
  <2>3. f \in Seq({ResultMessage(s[i]) : i \in 1..R})
    BY <1>1, <2>1, SeqDef
  <2>4. DOMAIN f = 1..R
    BY <2>1
  <2>5. Len(f) = R
    BY <1>1, <2>3, <2>4, LenProperties
  <2> QED BY <2>2, <2>3, <2>5
<1>4. o \in Seq(X) /\ Len(o) = L - R /\ \A i \in 1..L - R : o[i] = s[R + i]
  <2>1. \A i \in 1..L - R : R + i \in 1..L
    BY <1>1
  <2>2. o \in [1..L - R -> X]
    BY <1>1, <2>1
  <2> HIDE DEF o
  <2>3. o \in Seq(X) /\ DOMAIN o = 1..L - R
    BY <1>1, <2>2, SeqDef
  <2>4. Len(o) = L - R
    <3>1. PICK k \in Nat : k = L - R
      BY <1>1
    <3>2. DOMAIN o = 1..k
      BY <2>3, <3>1
    <3>3. Len(o) = k
      BY <2>3, <3>2, LenProperties
    <3> QED BY <3>1, <3>3
  <2> QED BY <2>3, <2>4 DEF o
<1>5. F(0) = <<>> /\ O(0) = <<>> /\ F(R) = f /\ O(L - R) = o
  <2>1. [i \in 1..0 |-> f[i]] = <<>> /\ [i \in 1..0 |-> o[i]] = <<>>
    <3>1. DOMAIN <<>> = 1..0 /\ 1..0 = {}
      BY EmptySeq, LenProperties
    <3>2. <<>> = [i \in {} |-> <<>>[i]]
      BY <3>1, EmptySeq, SeqDef
    <3> HIDE DEF f, o
    <3> QED BY <3>1, <3>2
  <2> QED BY <2>1
<1>6. PICK g : Adds(g, s, SUBSET (1..L)) /\ User(s) = Flushed(g[1..L])
  BY UserFold
<1>7. g[1..0] = NoMessage /\ \A k \in 1..L : g[1..k] = Add(g[1..(k - 1)], s[k])
  <2>0. \A x \in SUBSET (1..L) : g[x] = IF x = {} THEN NoMessage ELSE Add(g[x \ {Max(x)}], s[Max(x)])
    BY <1>6 DEF Adds
  <2>1. g[1..0] = NoMessage
    <3>1. 1..0 = {}
      OBVIOUS
    <3> QED BY <2>0, <3>1
  <2>2. ASSUME NEW k \in 1..L PROVE g[1..k] = Add(g[1..(k - 1)], s[k])
    <3>1. 1..k \in SUBSET (1..L) /\ 1..k # {} /\ (1..k) \ {k} = 1..(k - 1) /\ k \in 1..k /\ k \in Nat
      <4>1. k \in Nat /\ k >= 1 /\ k <= L
        BY <1>1
      <4>2. (1..k) \ {k} = 1..(k - 1)
        BY <4>1
      <4>3. \A y \in 1..k : y \in 1..L
        BY <1>1, <4>1
      <4>4. k \in 1..k
        BY <4>1
      <4> QED BY <4>1, <4>2, <4>3, <4>4
    <3>2. Max(1..k) = k
      BY <3>1, LargestIs
    <3> QED BY <2>0, <3>1, <3>2
  <2> QED BY <2>1, <2>2
<1> DEFINE T == {k \in Nat : k <= L => /\ k <= R => g[1..k] = [messages |-> F(k), texts |-> <<>>]
                                       /\ R <= k => g[1..k] = [messages |-> f, texts |-> O(k - R)]}
<1> HIDE DEF f, o, F, O
<1>8. 0 \in T
  <2>1. g[1..0] = [messages |-> F(0), texts |-> <<>>]
    BY <1>5, <1>7 DEF NoMessage
  <2>2. ASSUME R <= 0 PROVE g[1..0] = [messages |-> f, texts |-> O(0 - R)]
    <3>1. R = 0 /\ 0 - R = 0
      BY <1>1, <2>2
    <3> QED BY <1>5, <2>1, <3>1
  <2> QED BY <2>1, <2>2
<1>9. ASSUME NEW k \in T PROVE k + 1 \in T
  <2> SUFFICES ASSUME k + 1 <= L
               PROVE  /\ k + 1 <= R => g[1..(k + 1)] = [messages |-> F(k + 1), texts |-> <<>>]
                      /\ R <= k + 1 => g[1..(k + 1)] = [messages |-> f, texts |-> O(k + 1 - R)]
    OBVIOUS
  <2>1. k \in Nat /\ k <= L /\ k + 1 \in 1..L /\ k + 1 - 1 = k
    BY <1>1
  <2>2. /\ k <= R => g[1..k] = [messages |-> F(k), texts |-> <<>>]
        /\ R <= k => g[1..k] = [messages |-> f, texts |-> O(k - R)]
    BY <2>1
  <2>3. g[1..(k + 1)] = Add(g[1..k], s[k + 1])
    <3>1. PICK n \in 1..L : n = k + 1
      BY <2>1
    <3>2. g[1..n] = Add(g[1..(n - 1)], s[n]) /\ n - 1 = k
      BY <1>7, <2>1, <3>1
    <3> QED BY <3>1, <3>2
  <2> HIDE DEF T
  <2>4. CASE k + 1 <= R
    <3>1. k <= R /\ k < R /\ k + 1 \in 1..R
      BY <1>1, <2>1, <2>4
    <3>2. g[1..k] = [messages |-> F(k), texts |-> <<>>]
      BY <2>2, <3>1
    <3>3. Flushed(g[1..k]) = F(k)
      BY <3>2 DEF Flushed
    <3>4. g[1..(k + 1)] = [messages |-> Append(F(k), ResultMessage(s[k + 1])), texts |-> <<>>]
      BY <2>3, <3>1, <3>3 DEF Add
    <3>5. Append(F(k), f[k + 1]) = F(k + 1)
      BY <1>3, <2>1, <3>1, PrefixGrows DEF F
    <3>6. ResultMessage(s[k + 1]) = f[k + 1]
      BY <1>3, <3>1
    <3>7. g[1..(k + 1)] = [messages |-> F(k + 1), texts |-> <<>>]
      BY <3>4, <3>5, <3>6
    <3>8. ASSUME R <= k + 1 PROVE k + 1 = R /\ k + 1 - R = 0
      BY <1>1, <2>1, <2>4, <3>8
    <3>9. R <= k + 1 => g[1..(k + 1)] = [messages |-> f, texts |-> O(k + 1 - R)]
      BY <1>5, <3>7, <3>8
    <3> QED BY <3>7, <3>9
  <2>5. CASE ~(k + 1 <= R)
    <3>1. R <= k /\ k - R \in Nat /\ k - R < L - R /\ k - R + 1 = k + 1 - R /\ R + (k - R + 1) = k + 1
      BY <1>1, <2>1, <2>5
    <3>2. g[1..k] = [messages |-> f, texts |-> O(k - R)]
      BY <2>2, <3>1
    <3>3. ~IsResult(s[k + 1])
      BY <1>1, <2>1, <3>1
    <3>4. g[1..(k + 1)] = [messages |-> f, texts |-> Append(O(k - R), s[k + 1])]
      BY <2>3, <3>2, <3>3, AddText
    <3>5. o[k - R + 1] = s[k + 1]
      <4>1. PICK j \in 1..L - R : j = k - R + 1
        BY <1>1, <2>1, <3>1
      <4>2. o[j] = s[R + j] /\ R + j = k + 1
        BY <1>4, <3>1, <4>1
      <4> QED BY <4>1, <4>2
    <3>6. Append(O(k - R), o[k - R + 1]) = O(k - R + 1)
      BY <1>4, <3>1, PrefixGrows DEF O
    <3>7. g[1..(k + 1)] = [messages |-> f, texts |-> O(k + 1 - R)]
      BY <3>1, <3>4, <3>5, <3>6
    <3> QED BY <2>5, <3>7
  <2> QED BY <2>4, <2>5
<1>10. T = Nat
  <2>1. T \in SUBSET Nat
    OBVIOUS
  <2> HIDE DEF T
  <2> QED BY <1>8, <1>9, <2>1, Every
<1>11. g[1..L] = [messages |-> f, texts |-> o]
  <2>1. L \in T /\ L <= L /\ R <= L
    BY <1>1, <1>10
  <2>2. g[1..L] = [messages |-> f, texts |-> O(L - R)]
    BY <2>1
  <2> QED BY <1>5, <2>2
<1>12. User(s) = IF o = <<>> THEN f ELSE Append(f, [role |-> "user", texts |-> o])
  BY <1>6, <1>11 DEF Flushed
<1> QED BY <1>2, <1>12 DEF f

CallKinds == {shown[i].kind : i \in {j \in DOMAIN shown : IsCall(shown[j])}}

(* The client only answers a whole answer, and the way Reply says.         *)
ReplyInv ==
  reply # <<>> =>
    /\ Whole
    /\ \E results \in SetToSeqs(CallKinds), rest \in BoundedSeq({"text", "image"}, 2) :
         reply = Answer(results, rest)

LEMMA ReplyStep ==
  ASSUME ReplyInv, [TurnNext]_turnVars
  PROVE  ReplyInv'
<1>1. CASE Reply
  BY <1>1 DEF Reply, ReplyInv, CallKinds, Whole, vars, StopEvent
<1>2. CASE reply = <<>> /\ ~Reply
  <2>1. reply' = <<>>
    BY <1>2 DEF TurnNext, turn, turnVars, Hear, See
  <2> QED BY <2>1 DEF ReplyInv
<1>3. CASE reply # <<>> /\ ~Reply
  <2>1. UNCHANGED turnVars
    BY <1>3 DEF ReplyInv, Whole, TurnNext, Begin, Hear, Receive, Sign, Stop, Start, Delta, Eof, FinishSign,
       FinishStop, MessageDelta, MessageStop, Fail, Leave, Opening, Translating
  <2> QED BY <2>1 DEF ReplyInv, CallKinds, Whole, turnVars, vars, turn
<1> QED BY <1>1, <1>2, <1>3

(* Each call has one kind, so an order of the kinds has them all.          *)
LEMMA EveryCallAnswered ==
  ASSUME ShownInv, NEW results \in SetToSeqs(CallKinds)
  PROVE  /\ Len(Calls(shown)) \in Nat /\ Calls(shown) \in Seq(Shown)
         /\ results \in [1..Len(Calls(shown)) -> CallKinds]
         /\ \A c \in 1..Len(Calls(shown)) : \E i \in 1..Len(Calls(shown)) : results[i] = Calls(shown)[c].kind
<1> DEFINE n == Len(shown)
           C == {b \in DOMAIN shown : IsCall(shown[b])}
           N == Cardinality(C)
           kind == [b \in C |-> shown[b].kind]
<1>1. n \in Nat /\ DOMAIN shown = 1..n /\ shown \in Seq(Shown) /\ C \in SUBSET (1..n)
  BY ShownTyped DEF ShownInv
<1>2. /\ Calls(shown) \in Seq(Shown) /\ Len(Calls(shown)) = N /\ N \in Nat
      /\ Ordered(C) \in [1..N -> C]
      /\ \A c \in 1..N : Calls(shown)[c] = shown[Ordered(C)[c]]
  BY <1>1, AtIs DEF Calls
<1>3. IsFiniteSet(C)
  BY <1>1, OrderedIs
<1>4. kind \in Bijection(C, CallKinds)
  <2>1. kind \in [C -> CallKinds]
    BY DEF CallKinds
  <2>2. \A a, b \in C : kind[a] = kind[b] => a = b
    BY <1>1, OneBlockPerCall DEF IsCall
  <2>3. \A k \in CallKinds : \E b \in C : kind[b] = k
    BY DEF CallKinds
  <2> QED BY <2>1, <2>2, <2>3, Fun_IsBij
<1>5. IsFiniteSet(CallKinds) /\ Cardinality(CallKinds) = N
  <2>1. ExistsBijection(C, CallKinds)
    BY <1>4 DEF ExistsBijection
  <2> HIDE DEF C
  <2> QED BY <1>3, <2>1, FS_Bijection
<1> HIDE DEF C, N
<1>6. results \in [1..N -> CallKinds] /\ \A i, j \in 1..N : i # j => results[i] # results[j]
  BY <1>5 DEF SetToSeqs
<1>7. \A k \in CallKinds : \E i \in 1..N : results[i] = k
  <2>1. results \in Injection(1..N, CallKinds)
    BY <1>6, Fun_IsInj
  <2>2. Cardinality(1..N) = N
    BY <1>2, FS_Interval
  <2>3. results \in Surjection(1..N, CallKinds)
    <3> DEFINE D == 1..N
    <3>1. results \in Injection(D, CallKinds) /\ Cardinality(D) = Cardinality(CallKinds)
      BY <1>5, <2>1, <2>2
    <3> HIDE DEF D
    <3>2. results \in Surjection(D, CallKinds)
      BY <1>5, <3>1, FS_Injection
    <3> QED BY <3>2 DEF D
  <2> QED BY <2>3 DEF Surjection
<1>8. ASSUME NEW c \in 1..N PROVE Calls(shown)[c].kind \in CallKinds
  <2>1. Ordered(C)[c] \in C
    BY <1>2
  <2> QED BY <1>2, <2>1 DEF CallKinds, C
<1> QED BY <1>2, <1>6, <1>7, <1>8

Content == [kind : {"result"}, call : Kind] \cup [kind : {"text", "image"}]

(* The content of the client's message, by its two parts.                  *)
LEMMA AnswerIs ==
  ASSUME NEW N \in Nat, NEW results \in [1..N -> Kind], NEW rest \in BoundedSeq({"text", "image"}, 2)
  PROVE  LET s == Answer(results, rest)
         IN  /\ s \in Seq(Content) /\ N \in 0..Len(s)
             /\ \A i \in 1..N : IsResult(s[i]) /\ s[i].call = results[i]
             /\ \A i \in N + 1..Len(s) : ~IsResult(s[i])
<1> DEFINE a == [i \in 1..N |-> [kind |-> "result", call |-> results[i]]]
           b == [i \in DOMAIN rest |-> [kind |-> rest[i]]]
           s == a \o b
<1>1. PICK m \in 0..2 : rest \in [1..m -> {"text", "image"}]
  BY DEF BoundedSeq, SeqOf
<1>2. a \in Seq(Content) /\ Len(a) = N /\ \A i \in 1..N : a[i] = [kind |-> "result", call |-> results[i]]
  <2>1. \A i \in 1..N : [kind |-> "result", call |-> results[i]] \in Content
    BY DEF Content
  <2>2. a \in [1..N -> Content] /\ \A i \in 1..N : a[i] = [kind |-> "result", call |-> results[i]]
    BY <2>1
  <2> HIDE DEF a
  <2> QED BY <2>2, SeqDef, LenProperties
<1>3. b \in Seq(Content) /\ Len(b) = m /\ \A i \in 1..m : b[i].kind \in {"text", "image"}
  <2>1. m \in Nat /\ DOMAIN rest = 1..m /\ \A i \in 1..m : rest[i] \in {"text", "image"}
    BY <1>1
  <2>2. \A i \in 1..m : [kind |-> rest[i]] \in Content
    BY <2>1 DEF Content
  <2>3. b \in [1..m -> Content] /\ \A i \in 1..m : b[i].kind \in {"text", "image"}
    BY <2>1, <2>2
  <2> HIDE DEF b
  <2> QED BY <2>1, <2>3, SeqDef, LenProperties
<1> HIDE DEF a, b
<1>4. /\ s \in Seq(Content) /\ Len(s) = N + m
      /\ \A i \in 1..N + m : s[i] = IF i <= N THEN a[i] ELSE b[i - N]
  <2>1. /\ a \o b \in Seq(Content) /\ Len(a \o b) = Len(a) + Len(b)
        /\ \A i \in 1..Len(a) + Len(b) : (a \o b)[i] = IF i <= Len(a) THEN a[i] ELSE b[i - Len(a)]
    BY <1>2, <1>3, ConcatProperties
  <2> QED BY <1>2, <1>3, <2>1
<1> HIDE DEF s
<1>5. ASSUME NEW i \in 1..N PROVE IsResult(s[i]) /\ s[i].call = results[i]
  <2>1. i \in 1..N + m /\ i <= N
    OBVIOUS
  <2>2. s[i] = [kind |-> "result", call |-> results[i]]
    BY <1>2, <1>4, <2>1
  <2> QED BY <2>2 DEF IsResult
<1>6. ASSUME NEW i \in N + 1..N + m PROVE ~IsResult(s[i])
  <2>1. i \in 1..N + m /\ ~(i <= N) /\ i - N \in 1..m
    OBVIOUS
  <2>2. s[i] = b[i - N]
    BY <1>4, <2>1
  <2>3. s[i].kind \in {"text", "image"}
    BY <1>3, <2>1, <2>2
  <2> QED BY <2>3 DEF IsResult
<1>7. N \in 0..N + m
  OBVIOUS
<1> QED BY <1>4, <1>5, <1>6, <1>7 DEF Answer, a, b, s

(* The next request has the results in front.                              *)
LEMMA ResultsFollow == ShownInv /\ ReplyInv => ResultsFollowCalls
<1> SUFFICES ASSUME ShownInv, ReplyInv, reply # <<>>
             PROVE  LET calls == Request[1].calls IN
                      /\ \A c \in 1..Len(calls) :
                           \E i \in 2..Len(calls) + 1 : Request[i] = [role |-> "tool", call |-> calls[c].kind]
                      /\ SubSeq(Request, Len(calls) + 2, Len(Request))
                           = Flushed([messages |-> <<>>, texts |-> Others(reply)])
  BY DEF ResultsFollowCalls
<1>1. PICK results \in SetToSeqs(CallKinds) :
        \E rest \in BoundedSeq({"text", "image"}, 2) : reply = Answer(results, rest)
  BY DEF ReplyInv
<1>2. PICK rest \in BoundedSeq({"text", "image"}, 2) : reply = Answer(results, rest)
  BY <1>1
<1>3. PICK N \in Nat : N = Len(Calls(shown))
  BY EveryCallAnswered
<1>4. /\ Calls(shown) \in Seq(Shown) /\ results \in [1..N -> CallKinds]
      /\ \A c \in 1..N : \E i \in 1..N : results[i] = Calls(shown)[c].kind
  BY <1>3, EveryCallAnswered
<1>5. results \in [1..N -> Kind]
  <2>1. CallKinds \subseteq Kind
    BY ShownTyped DEF CallKinds
  <2> QED BY <1>4, <2>1
<1>6. /\ reply \in Seq(Content) /\ N \in 0..Len(reply)
      /\ \A i \in 1..N : IsResult(reply[i]) /\ reply[i].call = results[i]
      /\ \A i \in N + 1..Len(reply) : ~IsResult(reply[i])
  BY <1>2, <1>5, AnswerIs
<1> DEFINE f == [i \in 1..N |-> ResultMessage(reply[i])]
           o == [role |-> "user", texts |-> Others(reply)]
           U == User(reply)
           X == {Assistant(shown), o} \cup {ResultMessage(reply[i]) : i \in 1..N}
<1>7. U = IF Others(reply) = <<>> THEN f ELSE Append(f, o)
  BY <1>6, UserIs
<1>8. f \in Seq(X) /\ Len(f) = N /\ \A i \in 1..N : f[i] = [role |-> "tool", call |-> results[i]]
  <2>1. f \in [1..N -> X]
    OBVIOUS
  <2>2. \A i \in 1..N : f[i] = [role |-> "tool", call |-> results[i]]
    BY <1>6 DEF ResultMessage
  <2> HIDE DEF f, X
  <2> QED BY <2>1, <2>2, SeqDef, LenProperties
<1>9. o \in X /\ Assistant(shown) \in X
  OBVIOUS
<1> HIDE DEF f, o, U, X
<1>10. /\ U \in Seq(X) /\ \A i \in 1..N : U[i] = f[i]
       /\ IF Others(reply) = <<>> THEN Len(U) = N ELSE Len(U) = N + 1 /\ U[N + 1] = o
  <2>1. CASE Others(reply) = <<>>
    BY <1>7, <1>8, <2>1
  <2>2. CASE Others(reply) # <<>>
    <3>1. /\ Append(f, o) \in Seq(X) /\ Len(Append(f, o)) = N + 1 /\ Append(f, o)[N + 1] = o
          /\ \A i \in 1..N : Append(f, o)[i] = f[i]
      BY <1>8, <1>9, AppendProperties
    <3> QED BY <1>7, <2>2, <3>1
  <2> QED BY <2>1, <2>2
<1> DEFINE A == <<Assistant(shown)>>
<1>11. A \in Seq(X) /\ Len(A) = 1 /\ A[1] = Assistant(shown)
  BY <1>9
<1> HIDE DEF A
<1>12. PICK l \in Nat : l = Len(U)
  BY <1>10, LenProperties
<1>13. /\ Request \in Seq(X) /\ Len(Request) = 1 + l
       /\ \A i \in 1..1 + l : Request[i] = IF i <= 1 THEN A[i] ELSE U[i - 1]
  <2>1. /\ A \o U \in Seq(X) /\ Len(A \o U) = Len(A) + Len(U)
        /\ \A i \in 1..Len(A) + Len(U) : (A \o U)[i] = IF i <= Len(A) THEN A[i] ELSE U[i - Len(A)]
    BY <1>10, <1>11, ConcatProperties
  <2>2. Request = A \o U
    BY DEF Request, A, U
  <2> QED BY <1>11, <1>12, <2>1, <2>2
<1>14. Request[1] = Assistant(shown) /\ \A i \in 1..l : Request[i + 1] = U[i]
  <2>1. 1 \in 1..1 + l /\ 1 <= 1
    OBVIOUS
  <2>2. Request[1] = Assistant(shown)
    BY <1>11, <1>13, <2>1
  <2>3. ASSUME NEW i \in 1..l PROVE Request[i + 1] = U[i]
    <3>1. PICK j \in 1..1 + l : j = i + 1
      OBVIOUS
    <3>2. ~(j <= 1) /\ j - 1 = i
      BY <3>1
    <3> QED BY <1>13, <3>1, <3>2
  <2> QED BY <2>2, <2>3
<1>15. Request[1].calls = Calls(shown)
  BY <1>14 DEF Assistant
<1>16. l = N \/ l = N + 1
  BY <1>10, <1>12
<1>17. ASSUME NEW c \in 1..N
       PROVE  \E i \in 2..N + 1 : Request[i] = [role |-> "tool", call |-> Calls(shown)[c].kind]
  <2>1. PICK i \in 1..N : results[i] = Calls(shown)[c].kind
    BY <1>4
  <2>2. i + 1 \in 2..N + 1 /\ i \in 1..l
    BY <1>16
  <2>3. Request[i + 1] = [role |-> "tool", call |-> results[i]]
    BY <1>8, <1>10, <1>14, <2>2
  <2> QED BY <2>1, <2>2, <2>3
<1>18. SubSeq(Request, N + 2, 1 + l) = Flushed([messages |-> <<>>, texts |-> Others(reply)])
  <2>1. CASE Others(reply) = <<>>
    <3>1. l = N
      BY <1>10, <1>12, <2>1
    <3>2. SubSeq(Request, N + 2, 1 + l) = <<>>
      BY <3>1, SubSeqEmpty
    <3> QED BY <2>1, <3>2 DEF Flushed
  <2>2. CASE Others(reply) # <<>>
    <3>1. l = N + 1 /\ U[N + 1] = o
      BY <1>10, <1>12, <2>2
    <3>2. PICK j \in Nat : j = N + 2
      OBVIOUS
    <3>3. j \in 1..1 + l /\ Len(Request) = j /\ 1 + l = j
      BY <1>13, <3>1, <3>2
    <3>4. Request[j] = o
      <4>1. PICK i \in 1..l : i = N + 1
        BY <3>1
      <4>2. Request[i + 1] = o /\ i + 1 = j
        BY <1>14, <3>1, <3>2, <4>1
      <4> QED BY <4>2
    <3>5. SubSeq(Request, j, j) = <<Request[j]>> \o SubSeq(Request, j + 1, j)
      <4>1. j \in 1..Len(Request) /\ j \in j..Len(Request)
        BY <3>3
      <4> QED BY <1>13, <4>1, SubSeqRecursiveFirst
    <3>6. SubSeq(Request, j + 1, j) = <<>>
      BY SubSeqEmpty
    <3>7. <<o>> \o <<>> = <<o>> /\ Append(<<>>, o) = <<o>>
      OBVIOUS
    <3> QED BY <2>2, <3>2, <3>3, <3>4, <3>5, <3>6, <3>7 DEF Flushed, o
  <2> QED BY <2>1, <2>2
<1> QED BY <1>3, <1>13, <1>15, <1>17, <1>18

-------------------------------------------------------------------------------
TurnInv == StreamInv /\ Arrived /\ Spoken /\ ShownInv /\ ReplyInv

(* All of it holds in every state of a turn.                               *)
LEMMA TurnCorrect == TurnSpec => []TurnInv
<1>1. TurnInit => TurnInv
  <2>1. ASSUME TurnInit PROVE StreamInv /\ ReplyInv
    BY <2>1, InvInit DEF TurnInit, ReplyInv
  <2> QED BY <2>1, HeardInit, ShownInit DEF TurnInv
<1>2. TurnInv /\ [TurnNext]_turnVars => TurnInv'
  <2> SUFFICES ASSUME TurnInv, [TurnNext]_turnVars PROVE TurnInv'
    OBVIOUS
  <2>1. [Next]_vars
    <3>1. Hear => Read
      BY HearReads DEF TurnInv
    <3> QED BY <3>1 DEF TurnNext, Next, turnVars, Reply
  <2>2. StreamInv'
    BY <2>1, InvStep DEF TurnInv
  <2> QED BY <2>2, HeardStep, ShownStep, ReplyStep DEF TurnInv
<1> QED BY <1>1, <1>2, PTL DEF TurnSpec

(* From the events alone the client has, at every yield, all that upstream *)
(* sent up to the part at hand, whatever the chunks.                       *)
THEOREM NothingIsDropped == TurnSpec => []NothingDropped
<1>1. TurnInv => NothingDropped
  BY BodiesOfKind DEF TurnInv, NothingDropped
<1> QED BY <1>1, TurnCorrect, PTL

(* A streamed answer is the one that stream=false gives.                   *)
THEOREM StreamIsWhole == TurnSpec => []StreamedAsWhole
<1>1. TurnInv => StreamedAsWhole
  BY ShownAsWhole DEF TurnInv
<1> QED BY <1>1, TurnCorrect, PTL

(* Upstream finds its answer in the next request.                          *)
THEOREM AnswerComesBack == TurnSpec => []AnswerReturns
<1>1. TurnInv => AnswerReturns
  BY ShownReturns DEF TurnInv
<1> QED BY <1>1, TurnCorrect, PTL

(* And the result of every call, before anything else.                     *)
THEOREM ResultsComeFirst == TurnSpec => []ResultsFollowCalls
<1>1. TurnInv => ResultsFollowCalls
  BY ResultsFollow DEF TurnInv
<1> QED BY <1>1, TurnCorrect, PTL
=============================================================================
