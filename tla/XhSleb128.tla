----------------------------- MODULE XhSleb128 -----------------------------
(***************************************************************************)
(* xh_elf_sleb128_decoder_next: one signed LEB128 number read from a       *)
(* buffer, byte by byte, into a size_t.                                    *)
(*                                                                         *)
(* A byte is its low bits (payload) and its high bit (more).  Width is the *)
(* number of bits of a size_t, Bits those of a payload: 64 and 7, or 32    *)
(* and 7.  The payloads do not overlap, so |= is addition.  Shifting a     *)
(* size_t by Width or more is undefined: any result.                       *)
(***************************************************************************)
EXTENDS Integers, Sequences

CONSTANTS Width, Bits,
          MaxBytes  \* bound on the buffer

SlebAssumption ==
  /\ Width \in Nat \ {0} /\ Bits \in Nat \ {0} /\ Bits < Width
  /\ MaxBytes \in Nat

Pow2[n \in Nat] == IF n = 0 THEN 1 ELSE 2 * Pow2[n - 1]

Byte == [payload : 0..(Pow2[Bits] - 1), more : BOOLEAN]

Words == 0..(Pow2[Width] - 1)

VARIABLES pc,     \* "read", or how the decoder returned: "ok" or "format"
          buffer,
          cur,    \* bytes read
          value, shift

vars == <<pc, buffer, cur, value, shift>>

Init ==
  /\ pc = "read"
  /\ buffer \in UNION {[1..n -> Byte] : n \in 0..MaxBytes}
  /\ cur = 0 /\ value = 0 /\ shift = 0

\* (size_t)x << s, for a number x.
Shifted(x, s) == IF s < Width THEN {(x * Pow2[s]) % Pow2[Width]} ELSE Words

\* The bits of v are set in value.
Or(v) == (value + v) % Pow2[Width]

Current == buffer[cur + 1]

Negative == Current.payload >= Pow2[Bits - 1]

ReadByte ==
  /\ pc = "read"
  /\ cur < Len(buffer)
  /\ Current.more
  /\ \E v \in Shifted(Current.payload, shift) : value' = Or(v)
  /\ shift' = shift + Bits
  /\ cur' = cur + 1
  /\ UNCHANGED <<pc, buffer>>

\* Mutant: the sign is not extended.
ExtendedNever(s) == FALSE

Extended(s) == Negative /\ s < Width

\* The last byte; its sign is extended over the bits not read.
ReadLast ==
  /\ pc = "read"
  /\ cur < Len(buffer)
  /\ ~ Current.more
  /\ \E v \in Shifted(Current.payload, shift) :
       value' = IF Extended(shift + Bits)
                  THEN (Or(v) - Pow2[shift + Bits]) % Pow2[Width]
                  ELSE Or(v)
  /\ shift' = shift + Bits
  /\ cur' = cur + 1
  /\ pc' = "ok"
  /\ UNCHANGED buffer

OutOfBytes ==
  /\ pc = "read"
  /\ cur = Len(buffer)
  /\ pc' = "format"
  /\ UNCHANGED <<buffer, cur, value, shift>>

Next == ReadByte \/ ReadLast \/ OutOfBytes

Spec == Init /\ [][Next]_vars

-----------------------------------------------------------------------------
\* What the payloads of the first n bytes add up to.
Payloads ==
  LET sum[n \in 0..Len(buffer)] ==
        IF n = 0 THEN 0
        ELSE sum[n - 1] + buffer[n].payload * Pow2[Bits * (n - 1)]
  IN  sum

\* The signed number that the bytes up to the k-th encode.
Signed(k) ==
  IF buffer[k].payload >= Pow2[Bits - 1]
    THEN Payloads[k] - Pow2[Bits * k] ELSE Payloads[k]

\* A number whose last byte still reaches into the word is decoded to its
\* two's complement, at the boundary where the payloads cover the whole word
\* or more as well, and a buffer that ends before the number does is refused.
DecodesExactly ==
  /\ pc = "ok" /\ Bits * (cur - 1) < Width => value = Signed(cur) % Pow2[Width]
  /\ pc = "format" => \A i \in DOMAIN buffer : buffer[i].more
=============================================================================
