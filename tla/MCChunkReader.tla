--------------------------- MODULE MCChunkReader ---------------------------
(* Every body of up to three chunks of one to three bytes. *)
EXTENDS ChunkReader, SequencesExt

Line(s) == << [kind |-> "digit", n |-> s], [kind |-> "cr", n |-> s], [kind |-> "lf", n |-> s] >>

ChunkOf(s) ==
    Line(s) \o [i \in 1..s |-> [kind |-> "data", n |-> s + 1 - i]]
            \o << [kind |-> "CR", n |-> 0], [kind |-> "LF", n |-> 0] >>

LastChunk == Line(0) \o << [kind |-> "endCR", n |-> 0], [kind |-> "endLF", n |-> 0] >>

BodyOf(sizes) == FlattenSeq([i \in 1..Len(sizes) |-> ChunkOf(sizes[i])]) \o LastChunk

MCBodies == {BodyOf(s) : s \in SeqOf(1..3, 3)}
=============================================================================
