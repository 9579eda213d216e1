--------------------------- MODULE LimitedBuffer ---------------------------
(***************************************************************************)
(* The buffer that collects the output of a child process                  *)
(* (internal/iox/buffer.go).  The process writes what it likes, in any     *)
(* split into writes; the buffer keeps the first limit bytes and tells     *)
(* whether there were more.                                                *)
(***************************************************************************)
EXTENDS Integers, Sequences

CONSTANTS
    Bytes,      \* the bytes that are written
    limit,      \* LimitedBuffer.limit
    MaxInput    \* bytes in a behaviour

ASSUME LimitedBufferAssumption == limit \in Nat /\ MaxInput \in Nat

VARIABLES
    buffer,     \* the bytes that are retained
    overflow,   \* whether any were discarded
    input       \* everything that was written (auxiliary)

vars == <<buffer, overflow, input>>

TypeOK ==
    /\ buffer \in Seq(Bytes) /\ Len(buffer) <= limit
    /\ overflow \in BOOLEAN
    /\ input \in Seq(Bytes)

Init == buffer = <<>> /\ overflow = FALSE /\ input = <<>>

Fits(contents) == Len(contents) <= limit - Len(buffer)

\* Mutant: a write that does not fit is dropped as a whole.
Nothing(contents) == <<>>

\* What a Write retains of its contents.
Retained(contents) ==
    IF Fits(contents) THEN contents ELSE SubSeq(contents, 1, limit - Len(buffer))

\* Write reports everything as written, whatever it retains, so that the process
\* is never stopped by an error of its output.
Write(contents) ==
    /\ buffer' = buffer \o Retained(contents)
    /\ overflow' = (overflow \/ ~Fits(contents))
    /\ input' = input \o contents

Next ==
    \E n \in 0..(MaxInput - Len(input)) : \E contents \in [1..n -> Bytes] : Write(contents)

Spec == Init /\ [][Next]_vars

-----------------------------------------------------------------------------
\* However the output is split into writes, the buffer holds its first limit
\* bytes, and tells overflow exactly when there were more: an output of limit
\* bytes is complete and one byte more is not (LimitedBuffer.Write).
KeepsThePrefix ==
    /\ buffer = SubSeq(input, 1, IF Len(input) <= limit THEN Len(input) ELSE limit)
    /\ overflow = (Len(input) > limit)
=============================================================================
