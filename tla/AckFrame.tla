------------------------------ MODULE AckFrame ------------------------------
(***************************************************************************)
(* The ACK frame (proto/src/frame.rs): the ranges from the highest down,   *)
(* written as block lengths and gaps, the check of those numbers when the  *)
(* frame is parsed and the iterator that recovers the ranges.  A frame     *)
(* holds the numbers in the order of the wire: additional is the first     *)
(* block, then a gap and a block for each further range.                   *)
(***************************************************************************)
EXTENDS ArrayRangeSet

\* A plausible slip: the gap counts the number next to the range above too.
EncodeWideGap(rs) ==
    LET blocks == Reverse(rs)
        Block(i) == blocks[i].end - blocks[i].start - 1
        Gap(i) == blocks[i - 1].start - blocks[i].end
    IN  [largest      |-> blocks[1].end - 1,
         extra_blocks |-> Len(rs) - 1,
         additional   |-> <<Block(1)>> \o
             FlattenSeq([i \in 1 .. Len(rs) - 1 |-> <<Gap(i + 1), Block(i + 1)>>])]

\* Ack::encode, of an array that is not empty.
Encode(rs) ==
    LET blocks == Reverse(rs)
        Block(i) == blocks[i].end - blocks[i].start - 1
        Gap(i) == blocks[i - 1].start - blocks[i].end - 1
    IN  [largest      |-> blocks[1].end - 1,
         extra_blocks |-> Len(rs) - 1,
         additional   |-> <<Block(1)>> \o
             FlattenSeq([i \in 1 .. Len(rs) - 1 |-> <<Gap(i + 1), Block(i + 1)>>])]

\* scan_ack_blocks: no block and no gap reaches below zero.  A gap stands for
\* one number more than it says, and the block after it starts one lower still.
WellFormed(ack) ==
    LET a == ack.additional
        Below(k) == a[1] + FoldFunctionOnSet(+, 0, a, 2 .. k)
                    + 2 * (k \div 2)   \* 2 for each of the gaps up to place k
    IN  \A k \in 1 .. 1 + 2 * ack.extra_blocks : Below(k) <= ack.largest

RECURSIVE AckIter(_, _)
\* AckIter::next until the blocks are used up.
AckIter(largest, additional) ==
    IF additional = <<>> THEN <<>>
    ELSE LET block == additional[1]
         IN  <<Span(largest - block, largest + 1)>> \o
             (IF Len(additional) = 1 THEN <<>>
              ELSE AckIter(largest - (block + additional[2] + 2),
                           SubSeq(additional, 3, Len(additional))))

\* The ranges on_ack_received goes through, from the highest down.
AckRanges(ack) == AckIter(ack.largest, ack.additional)
=============================================================================
