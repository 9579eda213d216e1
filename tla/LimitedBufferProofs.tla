------------------------ MODULE LimitedBufferProofs ------------------------
(***************************************************************************)
(* Proofs about LimitedBuffer, for every set of bytes and every limit.     *)
(***************************************************************************)
EXTENDS LimitedBuffer, SequenceTheorems, TLAPS

\* An invariant of Write: the buffer is a prefix of the input, the whole input
\* unless it overflowed, and full if it did.
Prefix ==
    /\ Len(buffer) <= Len(input)
    /\ \A i \in 1..Len(buffer) : buffer[i] = input[i]
    /\ ~overflow => Len(buffer) = Len(input)
    /\ overflow => Len(buffer) = limit /\ Len(input) > limit

LEMMA RetainedType ==
    ASSUME TypeOK, NEW contents \in Seq(Bytes)
    PROVE  /\ Retained(contents) \in Seq(Bytes)
           /\ Len(Retained(contents)) =
                IF Fits(contents) THEN Len(contents) ELSE limit - Len(buffer)
           /\ \A i \in 1..Len(Retained(contents)) : Retained(contents)[i] = contents[i]
  BY LimitedBufferAssumption DEF TypeOK, Retained, Fits

LEMMA WriteKeeps ==
    ASSUME TypeOK, Prefix, NEW contents \in Seq(Bytes), Write(contents)
    PROVE  TypeOK' /\ Prefix'
<1> DEFINE kept == Retained(contents)
<1>1. /\ kept \in Seq(Bytes)
      /\ Len(kept) = IF Fits(contents) THEN Len(contents) ELSE limit - Len(buffer)
      /\ \A i \in 1..Len(kept) : kept[i] = contents[i]
  BY RetainedType
<1>2. buffer' = buffer \o kept /\ input' = input \o contents
  BY DEF Write
<1> HIDE DEF kept
<1>3. /\ Len(buffer') = Len(buffer) + Len(kept) /\ Len(input') = Len(input) + Len(contents)
      /\ \A i \in 1..Len(buffer') :
            buffer'[i] = IF i <= Len(buffer) THEN buffer[i] ELSE kept[i - Len(buffer)]
      /\ \A i \in 1..Len(input') :
            input'[i] = IF i <= Len(input) THEN input[i] ELSE contents[i - Len(input)]
  <2>1. buffer \in Seq(Bytes) /\ input \in Seq(Bytes) /\ kept \in Seq(Bytes)
    BY <1>1 DEF TypeOK
  <2>2. /\ Len(buffer') = Len(buffer) + Len(kept)
        /\ \A i \in 1..Len(buffer') :
              buffer'[i] = IF i <= Len(buffer) THEN buffer[i] ELSE kept[i - Len(buffer)]
    BY <1>2, <2>1, ConcatProperties
  <2>3. /\ Len(input') = Len(input) + Len(contents)
        /\ \A i \in 1..Len(input') :
              input'[i] = IF i <= Len(input) THEN input[i] ELSE contents[i - Len(input)]
    BY <1>2, <2>1, ConcatProperties
  <2> QED
    BY <2>2, <2>3
<1>4. TypeOK'
  BY <1>1, <1>2, <1>3, LimitedBufferAssumption DEF TypeOK, Fits, Write
<1>5. Len(buffer)' <= Len(input)'
  BY <1>1, <1>3, LimitedBufferAssumption DEF TypeOK, Prefix, Fits
<1>6. \A i \in 1..Len(buffer') : buffer'[i] = input'[i]
  <2> SUFFICES ASSUME NEW i \in 1..Len(buffer') PROVE buffer'[i] = input'[i]
    OBVIOUS
  <2>1. CASE i <= Len(buffer)
    BY <2>1, <1>3, <1>5 DEF TypeOK, Prefix
  <2>2. CASE i > Len(buffer)
    <3>1. Len(buffer) = Len(input)
      \* A buffer that has overflowed is full and retains nothing more.
      BY <2>2, <1>1, <1>3, LimitedBufferAssumption DEF TypeOK, Prefix, Fits
    <3>2. i - Len(buffer) \in 1..Len(kept)
      BY <2>2, <1>1, <1>3 DEF TypeOK
    <3> QED
      BY <2>2, <3>1, <3>2, <1>1, <1>3, <1>5 DEF TypeOK
  <2>3. i \in Nat /\ Len(buffer) \in Nat
    BY <1>4 DEF TypeOK
  <2> QED
    BY <2>1, <2>2, <2>3
<1>7. /\ ~overflow' => Len(buffer)' = Len(input)'
      /\ overflow' => Len(buffer)' = limit /\ Len(input)' > limit
  <2>1. /\ Len(buffer) \in Nat /\ Len(input) \in Nat /\ Len(contents) \in Nat
        /\ Len(kept) \in Nat
    BY <1>1 DEF TypeOK
  <2>2. Len(buffer') = Len(buffer) + Len(kept) /\ Len(input') = Len(input) + Len(contents)
    BY <1>3
  <2>3. CASE Fits(contents)
    <3>1. Len(kept) = Len(contents) /\ overflow' = overflow
      BY <1>1, <2>3 DEF Write, TypeOK
    <3>2. Len(contents) <= limit - Len(buffer)
      BY <2>3 DEF Fits
    <3>3. CASE ~overflow
      BY <2>1, <2>2, <3>1, <3>3 DEF Prefix
    <3>4. CASE overflow
      <4>1. Len(buffer) = limit /\ Len(input) > limit
        BY <3>4 DEF Prefix
      <4> QED
        BY <2>1, <2>2, <3>1, <3>2, <3>4, <4>1, LimitedBufferAssumption
    <3> QED
      BY <3>3, <3>4
  <2>4. CASE ~Fits(contents)
    <3>1. Len(kept) = limit - Len(buffer) /\ overflow' = TRUE
      BY <1>1, <2>4 DEF Write
    <3> QED
      BY <2>1, <2>2, <2>4, <3>1, LimitedBufferAssumption DEF TypeOK, Prefix, Fits
  <2> QED
    BY <2>3, <2>4
<1> QED
  BY <1>4, <1>5, <1>6, <1>7 DEF Prefix

\* The buffer never holds more than its limit, whatever the process writes
\* (LimitedBuffer.Write).
THEOREM BufferTypeCorrect == Spec => [](TypeOK /\ Prefix)
<1>1. Init => TypeOK /\ Prefix
  <2> SUFFICES ASSUME Init PROVE TypeOK /\ Prefix
    OBVIOUS
  <2>1. buffer = <<>> /\ input = <<>> /\ overflow = FALSE
    BY DEF Init
  <2>2. buffer \in Seq(Bytes) /\ input \in Seq(Bytes) /\ Len(buffer) = 0 /\ Len(input) = 0
    BY <2>1
  <2>3. TypeOK
    <3>1. overflow \in BOOLEAN
      BY <2>1
    <3>2. Len(buffer) <= limit
      BY <2>2, LimitedBufferAssumption
    <3> QED
      BY <2>2, <3>1, <3>2 DEF TypeOK
  <2>4. Prefix
    BY <2>1, <2>2 DEF Prefix
  <2> QED
    BY <2>3, <2>4
<1>2. TypeOK /\ Prefix /\ [Next]_vars => TypeOK' /\ Prefix'
  <2> SUFFICES ASSUME TypeOK, Prefix, [Next]_vars PROVE TypeOK' /\ Prefix'
    OBVIOUS
  <2>1. CASE Next
    <3>1. PICK n \in 0..(MaxInput - Len(input)) :
                \E contents \in [1..n -> Bytes] : Write(contents)
      BY <2>1 DEF Next
    <3>2. PICK contents \in [1..n -> Bytes] : Write(contents)
      BY <3>1
    <3>3. contents \in Seq(Bytes)
      BY LimitedBufferAssumption DEF TypeOK
    <3> QED
      BY <3>2, <3>3, WriteKeeps
  <2>2. CASE UNCHANGED vars
    BY <2>2 DEF vars, TypeOK, Prefix
  <2> QED
    BY <2>1, <2>2
<1> QED
  BY <1>1, <1>2, PTL DEF Spec

\* The buffer holds the first limit bytes of the output and tells exactly whether
\* there were more, for every limit and every split of the output into writes
\* (LimitedBuffer.Write).
THEOREM BufferKeepsThePrefix == Spec => []KeepsThePrefix
<1>1. TypeOK /\ Prefix => KeepsThePrefix
  <2> SUFFICES ASSUME TypeOK, Prefix PROVE KeepsThePrefix
    OBVIOUS
  <2> DEFINE n == IF Len(input) <= limit THEN Len(input) ELSE limit
             first == SubSeq(input, 1, n)
  <2>1. n \in Nat /\ n <= Len(input) /\ Len(buffer) = n
    BY LimitedBufferAssumption DEF TypeOK, Prefix
  <2>2. first \in Seq(Bytes) /\ Len(first) = n /\ \A i \in 1..n : first[i] = input[i]
    BY <2>1 DEF TypeOK
  <2>3. buffer = first
    BY <2>1, <2>2 DEF TypeOK, Prefix
  <2>4. overflow = (Len(input) > limit)
    BY LimitedBufferAssumption DEF TypeOK, Prefix
  <2> QED
    BY <2>3, <2>4 DEF KeepsThePrefix
<1> QED
  BY <1>1, BufferTypeCorrect, PTL
=============================================================================
