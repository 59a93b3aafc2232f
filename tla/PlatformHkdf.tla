----------------------------- MODULE PlatformHkdf -----------------------------
(***************************************************************************)
(* HKDF of the platform layer (stse_platform_hash.c), with which STSELib   *)
(* derives session keys: the loop of stse_platform_hmac_sha256_expand(),   *)
(* whose index has 16 bits and whose counter has 8, against RFC 5869,      *)
(* which the code names:                                                   *)
(*     T(i) = HMAC(PRK, T(i - 1) | info | i),  OKM = T(1) | T(2) | ...     *)
(* A block of the output is the number i of the T(i) it was copied from,   *)
(* and the number of bytes copied.                                         *)
(***************************************************************************)
EXTENDS Integers, Sequences

CONSTANT Lengths   \* lengths of key material that are asked for

Is8(x)  == x \in Nat /\ x < 256
Is16(x) == x \in Nat /\ x < 65536

LengthAssumption == \A L \in Lengths : Is16(L)

VARIABLES
    length,      \* output_keying_material_length
    out_index, n, tmp_length,
    tmp,         \* which T the buffer holds, Garbage if none
    out,         \* blocks of the output written
    pc           \* "call", "loop", "ok" or "error"

vars == <<length, out_index, n, tmp_length, tmp, out, pc>>

SHA256_DIGEST_LEN == 32
Garbage == 0
UI8(x)  == x % 256
UI16(x) == x % 65536

Init ==
    /\ length \in Lengths
    /\ out_index = 0 /\ n = 1 /\ tmp_length = 0 /\ tmp = Garbage
    /\ out = << >> /\ pc = "call"

\* Faulty variant: one block more than RFC 5869 allows.
TooLong_OneMore == length > 256 * SHA256_DIGEST_LEN

\* Faulty variant: rounded up in 16 bits.
TooLong_Wraps == UI16(length + 31) \div 32 > 255

\* More than 255 blocks: the rounded-up quotient is compared.
TooLong == length \div 32 + (IF length % 32 # 0 THEN 1 ELSE 0) > 255

\* There is no output buffer, or it is too long.
Begin ==
    /\ pc = "call"
    /\ \/ pc' = "error"
       \/ ~TooLong /\ pc' = "loop"
    /\ UNCHANGED <<length, out_index, n, tmp_length, tmp, out>>

\* Faulty variant: the previous block is not fed in.
Hmac_NoChain == IF tmp_length = 0 /\ n = 1 THEN n ELSE Garbage

\* HMAC(PRK, the first tmp_length bytes of tmp | info | n).
Hmac ==
    IF (tmp_length = 0 /\ n = 1) \/ (tmp_length = 32 /\ tmp # Garbage /\ n = tmp + 1)
    THEN n ELSE Garbage

\* One round: min(left, 32) bytes are copied.
ExpandRound ==
    LET left == UI16(length - out_index) IN
    /\ pc = "loop" /\ out_index < length
    /\ tmp' = Hmac
    /\ out' = Append(out, [bytes |-> IF left < SHA256_DIGEST_LEN THEN left ELSE SHA256_DIGEST_LEN,
                           t |-> Hmac])
    /\ tmp_length' = SHA256_DIGEST_LEN
    /\ out_index' = UI16(out_index + SHA256_DIGEST_LEN)
    /\ n' = UI8(n + 1)
    /\ UNCHANGED <<length, pc>>

\* No context can be allocated: what has been written stays.
NoContext ==
    /\ pc = "loop" /\ out_index < length
    /\ pc' = "error"
    /\ UNCHANGED <<length, out_index, n, tmp_length, tmp, out>>

\* HMAC fails: the output and tmp are cleared.
HmacFails ==
    /\ pc = "loop" /\ out_index < length
    /\ pc' = "error" /\ tmp' = Garbage /\ out' = << >>
    /\ UNCHANGED <<length, out_index, n, tmp_length>>

Finish ==
    /\ pc = "loop" /\ out_index >= length
    /\ pc' = "ok" /\ tmp' = Garbage
    /\ UNCHANGED <<length, out_index, n, tmp_length, out>>

Next == Begin \/ ExpandRound \/ NoContext \/ HmacFails \/ Finish

Spec == Init /\ [][Next]_vars

-----------------------------------------------------------------------------
(* Properties. *)

Block == [bytes : 0 .. SHA256_DIGEST_LEN, t : Nat]

\* Every variable has its type; the output has at most 255 blocks.
TypeOK ==
    /\ Is16(length) /\ Is16(out_index) /\ Is8(n) /\ Is8(tmp)
    /\ tmp_length \in {0, SHA256_DIGEST_LEN}
    /\ out \in Seq(Block) /\ Len(out) < 256
    /\ pc \in {"call", "loop", "ok", "error"}

\* How many bytes of an output of length L the i-th block holds in RFC 5869.
BytesOf(L, i) == IF L - 32 * (i - 1) < 32 THEN L - 32 * (i - 1) ELSE 32

\* What is in the output at any time is a prefix of what RFC 5869 says, and when
\* the call succeeds it is all of it, for every length: neither the 8-bit counter
\* nor the 16-bit index wraps before the end, and no byte is written behind it.
OutputIsRfc5869 ==
    /\ \A i \in 1 .. Len(out) : out[i] = [bytes |-> BytesOf(length, i), t |-> i] /\ out[i].bytes > 0
    /\ pc = "ok" => 32 * (Len(out) - 1) < length /\ length <= 32 * Len(out)

Advances == pc = "loop" /\ out' # out /\ pc' = "loop" => out_index' > out_index

\* Every round brings the loop nearer to its end, for every length that is accepted:
\* the index does not wrap.
EachRoundAdvances == [][Advances]_vars
=============================================================================
