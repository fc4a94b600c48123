---------------------------- MODULE MessagesStream ----------------------------
(***************************************************************************)
(* The event protocol an Anthropic Messages client expects of a stream:    *)
(* message_start, then content blocks one after the other, numbered from   *)
(* 0, each with deltas of its own kind only, a thinking block signed once  *)
(* before it stops, then message_delta and message_stop.  An error event   *)
(* may end the stream at any point after its start, and a connection may   *)
(* be cut without one.                                                     *)
(***************************************************************************)
EXTENDS Naturals, Sequences

CONSTANTS Kind, Piece, Thinking, NoEvent

VARIABLES
  wire,     \* the last event the client received
  blocks,   \* the kind of each block, in the order they were opened
  open,     \* is the last block open
  signed,   \* has the open block been signed
  phase     \* "before", "content", "closing", "ended"

vars == <<wire, blocks, open, signed, phase>>

Event(type, index, kind) == [type |-> type, index |-> index, kind |-> kind, piece |-> NoEvent]
Current == Len(blocks) - 1

Init ==
  /\ wire = NoEvent
  /\ blocks = <<>>
  /\ ~open /\ ~signed
  /\ phase = "before"

MessageStart ==
  /\ phase = "before"
  /\ phase' = "content"
  /\ wire' = Event("message_start", 0, NoEvent)
  /\ UNCHANGED <<blocks, open, signed>>

BlockStart(k) ==
  /\ phase = "content" /\ ~open
  /\ blocks' = Append(blocks, k)
  /\ open' /\ ~signed'
  /\ wire' = Event("content_block_start", Len(blocks), k)
  /\ UNCHANGED phase

BlockDelta ==
  /\ phase = "content" /\ open /\ ~signed
  /\ \E p \in Piece :
       wire' = [Event("content_block_delta", Current, blocks[Len(blocks)]) EXCEPT !.piece = p]
  /\ UNCHANGED <<blocks, open, signed, phase>>

Signature ==
  /\ phase = "content" /\ open /\ ~signed
  /\ blocks[Len(blocks)] = Thinking
  /\ signed'
  /\ wire' = Event("signature_delta", Current, Thinking)
  /\ UNCHANGED <<blocks, open, phase>>

BlockStop ==
  /\ phase = "content" /\ open
  /\ blocks[Len(blocks)] = Thinking => signed
  /\ ~open' /\ ~signed'
  /\ wire' = Event("content_block_stop", Current, blocks[Len(blocks)])
  /\ UNCHANGED <<blocks, phase>>

MessageDelta ==
  /\ phase = "content" /\ ~open
  /\ phase' = "closing"
  /\ wire' = Event("message_delta", 0, NoEvent)
  /\ UNCHANGED <<blocks, open, signed>>

Ended == phase' = "ended" /\ ~open' /\ ~signed' /\ UNCHANGED blocks

MessageStop ==
  /\ phase = "closing"
  /\ Ended
  /\ wire' = Event("message_stop", 0, NoEvent)

Error ==
  /\ phase = "content"
  /\ Ended
  /\ wire' = Event("error", 0, NoEvent)

Cut == Ended /\ UNCHANGED wire

Next ==
  \/ MessageStart \/ (\E k \in Kind : BlockStart(k)) \/ BlockDelta
  \/ Signature \/ BlockStop \/ MessageDelta \/ MessageStop \/ Error \/ Cut

Spec == Init /\ [][Next]_vars

===============================================================================
