------------------------------ MODULE MCChunk ------------------------------
EXTENDS ChunkText

\* Lines of a text: fences, an odd number of stars, empty, just too long to stand beside a fence,
\* a full message, and two that must be cut.
L(len, fence, star) == [len |-> len, fence |-> fence, star |-> star]
Long == L(17, FALSE, TRUE)
Lines == {L(3, TRUE, FALSE), L(2, FALSE, TRUE), L(0, FALSE, FALSE), L(6, FALSE, FALSE), L(8, FALSE, FALSE), Long}
=============================================================================
