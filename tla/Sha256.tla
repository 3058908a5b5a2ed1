-------------------------------- MODULE Sha256 --------------------------------
(***************************************************************************)
(* The counters and the padding of core/sha256.cpp, and the hexadecimal    *)
(* form of bytes (server/random_util.cpp).  transform is not computed: the *)
(* chunks it was given stand for state_.  That no two lists of chunks have *)
(* the same state is the assumption of any use of SHA-256.                 *)
(***************************************************************************)
EXTENDS Integers, Sequences, FiniteSets

S == INSTANCE SequencesExt

CONSTANTS
    BlockSize,  \* bytes of a chunk: 64
    LengthSize  \* bytes of the length at the end: 8

ASSUME BlockAssumption ==
    BlockSize \in Nat /\ LengthSize \in 1..(BlockSize - 1)

\* The bytes before the length in the last chunk: 56.
Boundary == BlockSize - LengthSize

Hasher == [bits |-> 0, buffer |-> <<>>, chunks |-> <<>>]

\* One turn of the loop of update.
Absorb(h, byte) ==
    IF Len(h.buffer) + 1 < BlockSize
    THEN [h EXCEPT !.buffer = Append(@, byte)]
    ELSE [bits |-> h.bits + 8 * BlockSize, buffer |-> <<>>,
          chunks |-> Append(h.chunks, Append(h.buffer, byte))]

Update(h, data) == S!FoldLeft(Absorb, h, data)

\* Mutant of PadLength: one byte too few when the buffer reaches the boundary.
PadLengthShort(n) == IF n <= Boundary THEN Boundary - n ELSE BlockSize + Boundary - n

PadLength(n) == IF n < Boundary THEN Boundary - n ELSE BlockSize + Boundary - n

Padding(n) == [k \in 1..PadLength(n) |-> IF k = 1 THEN 128 ELSE 0]

\* The last bytes of a number, the highest first.
LengthBytes(bits) ==
    LET shifted[k \in 0..LengthSize] == IF k = 0 THEN bits ELSE shifted[k - 1] \div 256
    IN  [k \in 1..LengthSize |-> shifted[LengthSize - k] % 256]

\* The length counts the padding: buffer_len_ is read after update has run on it.
Digested(h) ==
    LET padded == Update(h, Padding(Len(h.buffer)))
    IN  Update(padded, LengthBytes(padded.bits + 8 * Len(padded.buffer)))

Digest(message) == Digested(Update(Hasher, message)).chunks

\* Two digits for a byte.
Hex(bytes) == [k \in 1..(2 * Len(bytes)) |->
                  IF k % 2 = 1 THEN bytes[(k + 1) \div 2] \div 16
                               ELSE bytes[k \div 2] % 16]

-----------------------------------------------------------------------------
(* Properties *)

\* Messages of up to n bytes.
Messages(bytes, n) == UNION {[1..len -> bytes] : len \in 0..n}

\* FIPS 180-4: the message, a bit, zeros, and the length of the message.
Standard(message) ==
    LET stream == message \o Padding(Len(message) % BlockSize) \o LengthBytes(8 * Len(message))
    IN  [n \in 1..(Len(stream) \div BlockSize) |->
            SubSeq(stream, BlockSize * (n - 1) + 1, BlockSize * n)]

\* Messages around the length of one chunk and of two.
ShortMessages == Messages({0, 128}, 2 * BlockSize + 1)

\* Each of these messages is hashed as a whole number of chunks with the length in
\* the last one, its padding is not read past its end (a chunk), and no two of them
\* are framed alike, although the bytes of the padding occur in them and the length
\* is not the one of the standard.
MessagesAreFramedApart ==
    /\ \A message \in ShortMessages :
          LET h == Update(Hasher, message)
              done == Digested(h)
          IN  /\ PadLength(Len(h.buffer)) \in 1..BlockSize
              /\ done.buffer = <<>>
              /\ Len(done.chunks) = (Len(message) + LengthSize) \div BlockSize + 1
    /\ Cardinality({Digest(message) : message \in ShortMessages}) = Cardinality(ShortMessages)

=============================================================================
