----------------------------- MODULE PlatformProofs -----------------------------
(***************************************************************************)
(* The platform layer and the demonstration, part by part: an inductive    *)
(* invariant of each, and the properties that follow from it for every     *)
(* value of the constants.  The last section puts the parts together.      *)
(***************************************************************************)
EXTENDS Platform, SequenceTheorems, FiniteSetTheorems, TLAPS

-----------------------------------------------------------------------------
(* HKDF.  While the expansion loop runs everything it keeps is a function   *)
(* of the number of blocks it has written, and there are never more than 255 *)
(* of those: that is why neither the 8-bit counter nor the 16-bit index is   *)
(* seen to wrap.                                                            *)

K == Len(out)

\* The variables of the loop, from the number of blocks.
InLoop ==
    /\ length <= 8160
    /\ out_index = 32 * K /\ n = (K + 1) % 256
    /\ tmp = K /\ tmp_length = (IF K = 0 THEN 0 ELSE 32)
    /\ K > 0 => 32 * (K - 1) < length

HkdfInv ==
    /\ TypeOK /\ OutputIsRfc5869
    /\ pc = "call" => out = << >> /\ out_index = 0 /\ n = 1 /\ tmp_length = 0 /\ tmp = Garbage
    /\ pc = "loop" => InLoop

LEMMA HkdfInitially == ASSUME LengthAssumption PROVE Init => HkdfInv
  BY DEF LengthAssumption, Init, HkdfInv, TypeOK, Is8, Is16, OutputIsRfc5869, Garbage, SHA256_DIGEST_LEN

\* 255 blocks of 32 bytes are what the check of the length lets through.
LEMMA Longest == ASSUME length \in Nat, ~TooLong PROVE length <= 8160
<1>1. CASE length % 32 = 0
  BY <1>1 DEF TooLong, SHA256_DIGEST_LEN
<1>2. CASE length % 32 # 0
  BY <1>2 DEF TooLong, SHA256_DIGEST_LEN
<1> QED
  BY <1>1, <1>2

\* One round makes block K + 1 of the RFC.
LEMMA Round ==
  ASSUME HkdfInv, ExpandRound
  PROVE  /\ K \in Nat /\ K < 255 /\ 32 * K < length /\ length <= 8160
         /\ tmp' = K + 1 /\ tmp_length' = 32 /\ n' = (K + 2) % 256
         /\ out_index' = 32 * (K + 1)
         /\ out' = Append(out, [bytes |-> BytesOf(length, K + 1), t |-> K + 1])
         /\ BytesOf(length, K + 1) \in 1 .. 32 /\ BytesOf(length, K + 1) > 0
         /\ length' = length /\ pc = "loop" /\ pc' = "loop"
<1>1. pc = "loop" /\ out_index < length /\ InLoop /\ length' = length /\ pc' = "loop"
  BY DEF ExpandRound, HkdfInv
<1>2. length \in Nat /\ K \in Nat
  BY LenProperties DEF HkdfInv, TypeOK, Is16, K
<1>3. K \in Nat /\ K < 255 /\ 32 * K < length /\ length <= 8160
  BY <1>1, <1>2 DEF InLoop
<1>4. n = K + 1
  BY <1>1, <1>3 DEF InLoop
<1>5. Hmac = K + 1
  BY <1>1, <1>3, <1>4 DEF Hmac, InLoop, Garbage
<1>6. UI16(length - out_index) = length - 32 * K
  BY <1>1, <1>2, <1>3 DEF UI16, InLoop
<1>7. UI16(out_index + 32) = 32 * (K + 1)
  BY <1>1, <1>2, <1>3 DEF UI16, InLoop
<1>8. BytesOf(length, K + 1) = (IF length - 32 * K < 32 THEN length - 32 * K ELSE 32)
  BY <1>2, <1>3 DEF BytesOf
<1>9. out' = Append(out, [bytes |-> BytesOf(length, K + 1), t |-> K + 1])
  BY <1>5, <1>6, <1>8 DEF ExpandRound, SHA256_DIGEST_LEN
<1>10. tmp' = K + 1 /\ tmp_length' = 32 /\ out_index' = 32 * (K + 1)
  BY <1>5, <1>7 DEF ExpandRound, SHA256_DIGEST_LEN
<1>11. n' = (K + 2) % 256
  BY <1>3, <1>4 DEF ExpandRound, UI8
<1>12. BytesOf(length, K + 1) \in 1 .. 32 /\ BytesOf(length, K + 1) > 0
  BY <1>2, <1>3, <1>8
<1> QED
  BY <1>1, <1>3, <1>9, <1>10, <1>11, <1>12

LEMMA RoundKeeps == ASSUME HkdfInv, ExpandRound PROVE HkdfInv'
<1> DEFINE block == [bytes |-> BytesOf(length, K + 1), t |-> K + 1]
<1>1. out \in Seq(Block) /\ block \in Block /\ out' = Append(out, block) /\ K \in Nat
  BY Round, LenProperties DEF HkdfInv, TypeOK, Block, SHA256_DIGEST_LEN, K
<1>2. /\ out' \in Seq(Block) /\ K' = K + 1
      /\ \A i \in 1 .. K : out'[i] = out[i]
      /\ out'[K + 1] = block
  BY <1>1, AppendProperties DEF K
<1>3. TypeOK'
  <2>1. Is16(length') /\ Is16(out_index')
    BY <1>1, Round DEF HkdfInv, TypeOK, Is16
  <2>2. Is8(n') /\ Is8(tmp')
    BY <1>1, Round DEF Is8
  <2>3. out' \in Seq(Block) /\ Len(out') < 256
    BY <1>1, <1>2, Round DEF K
  <2> QED
    BY <2>1, <2>2, <2>3, Round DEF TypeOK, SHA256_DIGEST_LEN
<1>4. OutputIsRfc5869'
  <2>1. ASSUME NEW i \in 1 .. K + 1
        PROVE  out'[i] = [bytes |-> BytesOf(length, i), t |-> i] /\ out'[i].bytes > 0
    <3>1. CASE i = K + 1
      <4>1. out'[i] = block
        BY <3>1, <1>2
      <4>2. BytesOf(length, K + 1) > 0
        BY Round
      <4> QED
        BY <3>1, <4>1, <4>2
    <3>2. CASE i \in 1 .. K
      <4>1. out'[i] = out[i]
        BY <3>2, <1>2
      <4> QED
        BY <3>2, <4>1 DEF HkdfInv, OutputIsRfc5869, K
    <3>3. i = K + 1 \/ i \in 1 .. K
      <4>1. K \in Nat
        BY <1>1
      <4> QED
        BY <4>1
    <3> QED
      BY <3>1, <3>2, <3>3
  <2>2. \A i : BytesOf(length, i)' = BytesOf(length, i)
    BY Round DEF BytesOf
  <2>3. Len(out') = K + 1 /\ pc' # "ok" /\ length' = length
    BY <1>2, Round DEF K
  <2> QED
    BY <2>1, <2>3 DEF OutputIsRfc5869, BytesOf
<1>5. InLoop' /\ pc' = "loop"
  BY <1>1, <1>2, Round DEF InLoop
<1> QED
  BY <1>3, <1>4, <1>5 DEF HkdfInv

LEMMA HkdfStep == ASSUME HkdfInv, [Next]_vars PROVE HkdfInv'
<1>1. CASE UNCHANGED vars
  BY <1>1 DEF vars, HkdfInv, InLoop, TypeOK, OutputIsRfc5869, BytesOf, K
<1>2. CASE Begin
  <2>1. UNCHANGED <<length, out_index, n, tmp_length, tmp, out>> /\ pc = "call" /\ pc' \in {"error", "loop"}
    BY <1>2 DEF Begin
  <2>2. out = << >> /\ Len(out) = 0
    BY <2>1 DEF HkdfInv
  <2>3. TypeOK' /\ OutputIsRfc5869'
    BY <2>1, <2>2 DEF HkdfInv, TypeOK, OutputIsRfc5869
  <2>4. pc' = "loop" => InLoop'
    BY <1>2, <2>1, <2>2, Longest DEF Begin, HkdfInv, TypeOK, Is16, InLoop, K, Garbage
  <2> QED
    BY <2>1, <2>3, <2>4 DEF HkdfInv
<1>3. CASE ExpandRound
  BY <1>3, RoundKeeps
<1>4. CASE NoContext
  BY <1>4 DEF NoContext, HkdfInv, TypeOK, OutputIsRfc5869, BytesOf
<1>5. CASE HmacFails
  <2>1. out' = << >> /\ Len(out') = 0 /\ pc' = "error" /\ tmp' = 0
    BY <1>5 DEF HmacFails, Garbage
  <2>2. TypeOK'
    BY <1>5, <2>1 DEF HmacFails, HkdfInv, TypeOK, Is8, SHA256_DIGEST_LEN
  <2> QED
    BY <2>1, <2>2 DEF HkdfInv, OutputIsRfc5869
<1>6. CASE Finish
  <2>1. /\ out' = out /\ length' = length /\ pc' = "ok" /\ InLoop /\ out_index >= length
        /\ \A i : BytesOf(length, i)' = BytesOf(length, i)
    BY <1>6 DEF Finish, HkdfInv, BytesOf
  <2>2. K \in Nat /\ length \in Nat
    BY LenProperties DEF HkdfInv, TypeOK, Is16, K
  <2>3. 32 * (K - 1) < length /\ length <= 32 * K
    <3>1. CASE K = 0
      BY <2>1, <2>2, <3>1 DEF InLoop
    <3>2. CASE K > 0
      BY <2>1, <2>2, <3>2 DEF InLoop
    <3> QED
      BY <2>2, <3>1, <3>2
  <2>4. TypeOK'
    BY <1>6 DEF Finish, HkdfInv, TypeOK, Is8, Garbage
  <2>5. OutputIsRfc5869'
    BY <2>1, <2>3 DEF HkdfInv, OutputIsRfc5869, BytesOf, K
  <2> QED
    BY <2>1, <2>4, <2>5 DEF HkdfInv
<1> QED
  BY <1>1, <1>2, <1>3, <1>4, <1>5, <1>6 DEF Next

LEMMA HkdfInvariant == ASSUME LengthAssumption PROVE Spec => []HkdfInv
<1>1. HkdfInv /\ [Next]_vars => HkdfInv'
  BY HkdfStep
<1> QED
  BY <1>1, HkdfInitially, PTL DEF Spec

(* The variables of stse_platform_hmac_sha256_expand() keep their types, and the *)
(* output its 255 blocks at most, for every length a caller can pass.            *)
THEOREM HkdfTypeCorrect == ASSUME LengthAssumption PROVE Spec => []TypeOK
<1>1. HkdfInv => TypeOK
  BY DEF HkdfInv
<1> QED
  BY <1>1, HkdfInvariant, PTL

(* For every 16-bit length what is written is a prefix of the key material of    *)
(* RFC 5869, and all of it, to the byte, when the function returns success.      *)
THEOREM OutputIsRfc5869Always == ASSUME LengthAssumption PROVE Spec => []OutputIsRfc5869
<1>1. HkdfInv => OutputIsRfc5869
  BY DEF HkdfInv
<1> QED
  BY <1>1, HkdfInvariant, PTL

(* For every length that is accepted each round brings the 16-bit index nearer   *)
(* to the length: the loop ends.                                                 *)
THEOREM EachRoundAdvancesAlways == ASSUME LengthAssumption PROVE Spec => EachRoundAdvances
<1>1. HkdfInv /\ [Next]_vars => [Advances]_vars
  <2> SUFFICES ASSUME HkdfInv, Next, pc = "loop", out' # out, pc' = "loop"
               PROVE  out_index' > out_index
    BY DEF Advances, vars
  <2>1. ExpandRound
    BY DEF Next, Begin, NoContext, HmacFails, Finish
  <2>2. out_index = 32 * K /\ out_index' = 32 * (K + 1) /\ K \in Nat
    BY <2>1, Round DEF HkdfInv, InLoop
  <2> QED
    BY <2>2
<1> QED
  BY <1>1, HkdfInvariant, PTL DEF Spec, EachRoundAdvances

-----------------------------------------------------------------------------
(* Timeouts.  The deadline kept in seconds and a fraction is the time at which *)
(* the timeout is over, for every number of units in a second.                 *)

\* The units in a second.
PS == timeout.PerSecond

LEMMA DivMod ==
  ASSUME NEW a \in Nat, NEW P \in Nat \ {0}
  PROVE  /\ a \div P \in Nat /\ a % P \in Nat /\ a % P < P
         /\ a = (a \div P) * P + (a % P)
  OBVIOUS

LEMMA MoreSeconds ==
  ASSUME NEW P \in Nat \ {0}, NEW q \in Nat, NEW s \in Nat, q > s
  PROVE  q * P >= s * P + P
<1>1. PICK d \in Nat : q = s + 1 + d
  <2>1. q - s - 1 \in Nat /\ q = s + 1 + (q - s - 1)
    OBVIOUS
  <2> QED
    BY <2>1
<1>2. q * P = s * P + P + d * P
  BY <1>1
<1>3. d * P >= 0
  OBVIOUS
<1> QED
  BY <1>2, <1>3

\* Comparing seconds first and fractions then compares times.
LEMMA ComparesTimes ==
  ASSUME NEW P \in Nat \ {0}, NEW q \in Nat, NEW r \in Nat, r < P,
         NEW s \in Nat, NEW f \in Nat, f < P
  PROVE  (q > s \/ (q = s /\ r >= f)) <=> q * P + r >= s * P + f
<1>1. CASE q > s
  BY <1>1, MoreSeconds
<1>2. CASE s > q
  <2>1. s * P >= q * P + P
    BY <1>2, MoreSeconds
  <2>2. q * P \in Nat /\ s * P \in Nat
    OBVIOUS
  <2> QED
    BY <1>2, <2>1, <2>2
<1>3. CASE q = s
  BY <1>3
<1> QED
  BY <1>1, <1>2, <1>3

\* A deadline is one of the type, `val' after the clock.
LEMMA DeadlineIsAfter ==
  ASSUME Timeout!TimeAssumption, NEW now \in Nat, NEW val \in Nat
  PROVE  LET end == Timeout!Deadline(Timeout!Timespec(now), val)
         IN  /\ end \in [sec : Nat, nsec : 0 .. PS - 1]
             /\ Timeout!Ticks(end) = now + val
<1> DEFINE nsec == (now % PS) + (val % PS)
           carry == nsec >= PS
           sec == (now \div PS) + (val \div PS)
           end == [sec |-> sec + (IF carry THEN 1 ELSE 0), nsec |-> IF carry THEN nsec - PS ELSE nsec]
<1>1. PS \in Nat \ {0}
  BY DEF Timeout!TimeAssumption, PS
<1>2. /\ now = (now \div PS) * PS + (now % PS) /\ now \div PS \in Nat /\ now % PS \in Nat /\ now % PS < PS
      /\ val = (val \div PS) * PS + (val % PS) /\ val \div PS \in Nat /\ val % PS \in Nat /\ val % PS < PS
  BY <1>1, DivMod
<1>3. Timeout!Deadline(Timeout!Timespec(now), val) = end
  BY DEF Timeout!Deadline, Timeout!Timespec, PS
<1>4. end \in [sec : Nat, nsec : 0 .. PS - 1]
  BY <1>1, <1>2
<1>5. sec * PS = (now \div PS) * PS + (val \div PS) * PS /\ (sec + 1) * PS = sec * PS + PS
  BY <1>1, <1>2
<1>6. end.sec * PS + end.nsec = now + val
  BY <1>1, <1>2, <1>5
<1> QED
  BY <1>3, <1>4, <1>6 DEF Timeout!Ticks, PS

TimeoutInv ==
    /\ Timeout!TypeOK
    /\ \A t \in timeout.Thread : Timeout!Ticks(v2[t]) = v3[t]

LEMMA TimeoutInitially == ASSUME Timeout!TimeAssumption, Timeout!Init PROVE TimeoutInv
<1>1. PS \in Nat \ {0}
  BY DEF Timeout!TimeAssumption, PS
<1>2. 0 \div PS = 0 /\ 0 % PS = 0
  BY <1>1, DivMod
<1>3. Timeout!Timespec(0) = [sec |-> 0, nsec |-> 0]
  BY <1>2 DEF Timeout!Timespec, PS
<1>4. Timeout!Ticks([sec |-> 0, nsec |-> 0]) = 0
  BY <1>1 DEF Timeout!Ticks, PS
<1>5. Timeout!TypeOK
  BY <1>1, <1>3 DEF Timeout!Init, Timeout!TypeOK, Timeout!TimeAssumption, PS
<1> QED
  BY <1>3, <1>4, <1>5 DEF TimeoutInv, Timeout!Init

LEMMA TimeoutStep ==
  ASSUME Timeout!TimeAssumption, TimeoutInv, [Timeout!Next]_<<v1, v2, v3>>
  PROVE  TimeoutInv'
<1>1. CASE UNCHANGED <<v1, v2, v3>>
  BY <1>1 DEF TimeoutInv, Timeout!TypeOK, Timeout!Ticks
<1>2. CASE Timeout!Tick
  BY <1>2 DEF Timeout!Tick, TimeoutInv, Timeout!TypeOK, Timeout!Ticks, Timeout!TimeAssumption
<1>3. ASSUME NEW t \in timeout.Thread, NEW val \in 0 .. timeout.MaxTimeout, Timeout!Start(t, val)
      PROVE  TimeoutInv'
  <2> DEFINE end == Timeout!Deadline(Timeout!Timespec(v1), val)
  <2>1. v1 \in Nat /\ val \in Nat /\ v1 \in 0 .. timeout.MaxClock
    BY <1>3 DEF TimeoutInv, Timeout!TypeOK, Timeout!TimeAssumption
  <2>2. end \in [sec : Nat, nsec : 0 .. PS - 1] /\ Timeout!Ticks(end) = v1 + val
    BY <2>1, DeadlineIsAfter
  <2>3. v1' = v1 /\ v2' = [v2 EXCEPT ![t] = end] /\ v3' = [v3 EXCEPT ![t] = v1 + val]
    BY <1>3 DEF Timeout!Start
  <2>4. v1 + val \in 0 .. timeout.MaxClock + timeout.MaxTimeout
    BY <2>1, <1>3 DEF Timeout!TimeAssumption
  <2> HIDE DEF end
  <2>5. Timeout!TypeOK'
    BY <2>2, <2>3, <2>4 DEF TimeoutInv, Timeout!TypeOK, PS
  <2>6. \A u \in timeout.Thread : v2'[u] = (IF u = t THEN end ELSE v2[u]) /\ v3'[u] = (IF u = t THEN v1 + val ELSE v3[u])
    BY <2>3 DEF TimeoutInv, Timeout!TypeOK
  <2>7. ASSUME NEW u \in timeout.Thread PROVE Timeout!Ticks(v2'[u]) = v3'[u]
    BY <2>2, <2>6 DEF TimeoutInv
  <2> QED
    BY <2>5, <2>7 DEF TimeoutInv, Timeout!Ticks
<1> QED
  BY <1>1, <1>2, <1>3 DEF Timeout!Next

LEMMA TimeoutImplies == ASSUME Timeout!TimeAssumption, TimeoutInv PROVE Timeout!ElapsedWhenDue
<1> SUFFICES ASSUME NEW t \in timeout.Thread
             PROVE  Timeout!GetStatus(t) <=> v1 >= v3[t]
  BY DEF Timeout!ElapsedWhenDue
<1> DEFINE P == PS
           q == v1 \div PS
           r == v1 % PS
           s == v2[t].sec
           f == v2[t].nsec
<1>1. P \in Nat \ {0} /\ v1 \in Nat
  BY DEF Timeout!TimeAssumption, TimeoutInv, Timeout!TypeOK, PS
<1>2. s \in Nat /\ f \in Nat /\ f < P
  BY <1>1 DEF TimeoutInv, Timeout!TypeOK, PS
<1>3. v3[t] = s * P + f
  BY DEF TimeoutInv, Timeout!Ticks, PS
<1>4. q \in Nat /\ r \in Nat /\ r < P /\ v1 = q * P + r
  BY <1>1, DivMod
<1>5. Timeout!GetStatus(t) <=> (q > s \/ (q = s /\ r >= f))
  BY DEF Timeout!GetStatus, Timeout!Elapsed, Timeout!Timespec, PS
<1> HIDE DEF P, q, r, s, f
<1>6. (q > s \/ (q = s /\ r >= f)) <=> q * P + r >= s * P + f
  BY <1>1, <1>2, <1>4, ComparesTimes
<1> QED
  BY <1>3, <1>4, <1>5, <1>6

-----------------------------------------------------------------------------
(* Signatures. *)

\* The fields of the device, of the provider and of the platform layer have one
\* size, in which the numbers of the curve fit; so does their DER form in the room
\* for it.
LEMMA FieldsFit ==
  ASSUME NEW c \in Format!Curve, NEW a \in 1 .. Format!OrderBits[c], NEW b \in 1 .. Format!OrderBits[c]
  PROVE  /\ Format!Bytes(Format!OrderBits[c]) = Format!field_len(c)
         /\ Format!get_coord_size(c) = Format!field_len(c)
         /\ Format!Bytes(a) <= Format!field_len(c)
         /\ Format!DerLength([r |-> a, s |-> b]) <= Format!max_der_len(c)
<1> USE DEF Format!Bytes, Format!DerLength, Format!DerInteger, Format!max_der_len
<1>1. CASE c \in {"NIST_P_256", "BP_P_256"}
  <2>1. Format!OrderBits[c] = 256
    BY <1>1 DEF Format!OrderBits, Format!Curve
  <2>2. Format!field_len(c) = 32 /\ Format!get_coord_size(c) = 32
    BY <1>1 DEF Format!field_len, Format!get_coord_size
  <2> QED
    BY <2>1, <2>2
<1>2. CASE c \in {"NIST_P_384", "BP_P_384"}
  <2>1. Format!OrderBits[c] = 384
    BY <1>2 DEF Format!OrderBits, Format!Curve
  <2>2. Format!field_len(c) = 48 /\ Format!get_coord_size(c) = 48
    BY <1>2 DEF Format!field_len, Format!get_coord_size
  <2> QED
    BY <2>1, <2>2
<1>3. CASE c = "NIST_P_521"
  <2>1. Format!OrderBits[c] = 521
    BY <1>3 DEF Format!OrderBits, Format!Curve
  <2>2. Format!field_len(c) = 66 /\ Format!get_coord_size(c) = 66
    BY <1>3 DEF Format!field_len, Format!get_coord_size
  <2> QED
    BY <2>1, <2>2
<1>4. CASE c = "BP_P_512"
  <2>1. Format!OrderBits[c] = 512
    BY <1>4 DEF Format!OrderBits, Format!Curve
  <2>2. Format!field_len(c) = 64 /\ Format!get_coord_size(c) = 64
    BY <1>4 DEF Format!field_len, Format!get_coord_size
  <2> QED
    BY <2>1, <2>2
<1> QED
  BY <1>1, <1>2, <1>3, <1>4 DEF Format!Curve

Numbers(c) == [r : 1 .. Format!OrderBits[c], s : 1 .. Format!OrderBits[c]]

\* What the application has is the signature that was made, in one of two forms
\* that everybody reads in the same way.
FormatInv ==
    /\ v1 \in Format!Curve /\ v2 \in Numbers(v1)
    /\ v3 \in {Format!Nothing, Format!Raw(v2, Format!field_len(v1)), Format!Der(v2)}
    /\ v4 \in {Format!Nothing, v2}

LEMMA FormatInitially == ASSUME Format!LengthsAssumption, Format!Init PROVE FormatInv
  BY DEF Format!LengthsAssumption, Format!Init, FormatInv, Numbers

LEMMA FormatStep ==
  ASSUME FormatInv, [Format!Next]_<<v1, v2, v3, v4>>
  PROVE  FormatInv'
<1> DEFINE size == Format!field_len(v1)
<1>1. CASE UNCHANGED <<v1, v2, v3, v4>>
  BY <1>1 DEF FormatInv, Numbers, Format!Raw, Format!Der, Format!field_len, Format!Nothing
<1>2. v2.r \in 1 .. Format!OrderBits[v1] /\ v2.s \in 1 .. Format!OrderBits[v1] /\ v2 = [r |-> v2.r, s |-> v2.s]
  BY DEF FormatInv, Numbers
<1>3. /\ Format!Bytes(Format!OrderBits[v1]) = size /\ Format!get_coord_size(v1) = size
      /\ Format!Fits(v2, size) /\ Format!DerLength(v2) <= Format!max_der_len(v1)
  BY <1>2, FieldsFit DEF FormatInv, Format!Fits
<1>4. Format!Read(Format!Raw(v2, size), size) = v2
  BY <1>2 DEF Format!Read, Format!Raw
<1>5. /\ Format!Raw(Format!Der(v2), size) = Format!Raw(v2, size)
      /\ Format!Fits(Format!Der(v2), size)
  BY <1>3 DEF Format!Raw, Format!Der, Format!Fits
<1>6. Format!Nothing.type = "none" /\ Format!Raw(v2, size).type = "raw" /\ Format!Der(v2).type = "der"
  BY DEF Format!Nothing, Format!Raw, Format!Der
<1>7. v1' = v1 /\ v2' = v2 /\ v3' \in {v3, Format!Raw(v2, size), Format!Der(v2)} /\ v4' \in {v4, v2}
      => FormatInv'
  BY DEF FormatInv, Numbers, Format!Raw, Format!Der, Format!field_len, Format!Nothing
<1>8. CASE Format!PlatformSign
  BY <1>8, <1>3, <1>7 DEF Format!PlatformSign
<1>9. CASE Format!DeviceSign
  BY <1>9, <1>3, <1>7 DEF Format!DeviceSign, Format!Device
<1>10. CASE Format!HwSign
  BY <1>10, <1>3, <1>4, <1>7 DEF Format!HwSign, Format!Device
<1>11. CASE Format!OtherSign
  BY <1>11, <1>7 DEF Format!OtherSign
<1>12. CASE Format!PlatformVerify
  <2>1. v3 = Format!Raw(v2, size)
    BY <1>12, <1>6 DEF Format!PlatformVerify, FormatInv
  <2> QED
    BY <1>12, <2>1, <1>3, <1>4, <1>7 DEF Format!PlatformVerify
<1>13. CASE Format!HwVerify
  <2>1. v3 = Format!Der(v2)
    BY <1>13, <1>6 DEF Format!HwVerify, FormatInv
  <2> QED
    BY <1>13, <2>1, <1>3, <1>4, <1>5, <1>7 DEF Format!HwVerify
<1> QED
  BY <1>1, <1>8, <1>9, <1>10, <1>11, <1>12, <1>13 DEF Format!Next

LEMMA FormatImplies == ASSUME FormatInv PROVE Format!SameNumbers /\ Format!NoneRefused
<1>1. Format!SameNumbers
  BY DEF FormatInv, Format!SameNumbers
<1>2. v3 # Format!Refused
  <2>1. v3.type \in {"none", "raw", "der"}
    BY DEF FormatInv, Format!Nothing, Format!Raw, Format!Der
  <2> QED
    BY <2>1 DEF Format!Refused
<1>3. v4 # Format!Refused
  <2>1. CASE v4 = Format!Nothing
    BY <2>1 DEF Format!Nothing, Format!Refused
  <2>2. CASE v4 = v2
    <3>1. DOMAIN v2 = {"r", "s"}
      BY DEF FormatInv, Numbers
    <3>2. DOMAIN Format!Refused = {"type"}
      BY DEF Format!Refused
    <3> QED
      BY <2>2, <3>1, <3>2
  <2> QED
    BY <2>1, <2>2 DEF FormatInv
<1> QED
  BY <1>1, <1>2, <1>3 DEF Format!NoneRefused

-----------------------------------------------------------------------------
(* CMAC. *)

LEMMA SameFinite == ASSUME NEW S PROVE Cmac!IsFiniteSet(S) <=> IsFiniteSet(S)
  BY DEF Cmac!IsFiniteSet, IsFiniteSet

LEMMA SameCardinality == ASSUME NEW S PROVE Cmac!Cardinality(S) = Cardinality(S)
  BY DEF Cmac!Cardinality, Cardinality, Cmac!IsFiniteSet, IsFiniteSet

Asks == [key : cmac.Key, data : Cmac!Inputs, len : cmac.TagSizes] \cup {Cmac!Nothing}

\* A thread has the context c and the tag length len, its caller believes in a, and
\* r is what the last call has returned.  A context is the one its careful caller
\* believes in until a finishing function has freed it; the caller of any other is
\* never ahead of it.
ThreadInv(t, c, len, a, r) ==
    /\ c \in Cmac!Tags \cup {Cmac!NoContext} /\ len \in cmac.TagSizes \cup {0} /\ a \in Asks
    /\ c # Cmac!NoContext => Len(a.data) <= Len(c.data)
    /\ c # Cmac!NoContext /\ t \notin cmac.Careful => a # Cmac!Nothing
    /\ r # Cmac!None => c = Cmac!NoContext
    /\ t \in cmac.Careful /\ r = Cmac!None /\ a # Cmac!Nothing =>
          c = [key |-> a.key, data |-> a.data] /\ len = a.len
    /\ t \in cmac.Careful /\ r # Cmac!None =>
          /\ r.by = "compute" => r.len = IF a.len \in 1 .. 16 THEN a.len ELSE 16
          /\ r.by = "verify" => r.len = a.len
          /\ r.len = 0 \/ r.tag = [key |-> a.key, data |-> a.data]

Holders == {t \in cmac.Thread : v1[t] # Cmac!NoContext}

CmacInv ==
    /\ v1 = [t \in cmac.Thread |-> v1[t]] /\ v2 = [t \in cmac.Thread |-> v2[t]]
    /\ v4 = [t \in cmac.Thread |-> v4[t]] /\ v5 = [t \in cmac.Thread |-> v5[t]]
    /\ \A t \in cmac.Thread : ThreadInv(t, v1[t], v2[t], v4[t], v5[t])
    /\ v3 = Cardinality(Holders)

LEMMA InputIsSeq ==
  ASSUME Cmac!KeyAssumption, NEW s \in Cmac!Inputs
  PROVE  s \in Seq(cmac.Block) /\ Len(s) \in Nat
<1>1. PICK size \in 0 .. cmac.MaxBlocks : s \in [1 .. size -> cmac.Block]
  BY DEF Cmac!Inputs
<1> QED
  BY <1>1 DEF Cmac!KeyAssumption

LEMMA InputAppended ==
  ASSUME Cmac!KeyAssumption, NEW s \in Cmac!Inputs, Len(s) < cmac.MaxBlocks, NEW b \in cmac.Block
  PROVE  Append(s, b) \in Cmac!Inputs /\ Len(Append(s, b)) = Len(s) + 1
<1>1. s \in Seq(cmac.Block) /\ Len(s) \in Nat
  BY InputIsSeq
<1>2. Append(s, b) \in Seq(cmac.Block) /\ Len(Append(s, b)) = Len(s) + 1
  BY <1>1, AppendProperties
<1>3. Append(s, b) \in [1 .. Len(s) + 1 -> cmac.Block]
  BY <1>2, LenProperties
<1>4. Len(s) + 1 \in 0 .. cmac.MaxBlocks
  BY <1>1 DEF Cmac!KeyAssumption
<1> QED
  BY <1>2, <1>3, <1>4 DEF Cmac!Inputs

LEMMA NoInput == ASSUME Cmac!KeyAssumption PROVE << >> \in Cmac!Inputs /\ Len(<< >>) = 0
<1>1. << >> \in [1 .. 0 -> cmac.Block] /\ 0 \in 0 .. cmac.MaxBlocks
  BY DEF Cmac!KeyAssumption
<1> QED
  BY <1>1 DEF Cmac!Inputs

\* A call that fails leaves no context, or the one there was, with more input or not.
LEMMA FailureKeeps ==
  ASSUME Cmac!KeyAssumption, NEW t, NEW c, NEW len, NEW a, NEW r, ThreadInv(t, c, len, a, r),
         NEW d \in Cmac!Tags \cup {Cmac!NoContext},
         d = Cmac!NoContext \/ (c # Cmac!NoContext /\ Len(c.data) <= Len(d.data))
  PROVE  ThreadInv(t, d, len, IF t \in cmac.Careful THEN Cmac!Nothing ELSE a, Cmac!None)
<1>1. Cmac!Nothing \in Asks /\ Len(Cmac!Nothing.data) = 0
  BY DEF Cmac!Nothing, Asks
<1>2. d # Cmac!NoContext => Len(d.data) \in Nat
  BY InputIsSeq DEF Cmac!Tags
<1>3. c # Cmac!NoContext => Len(c.data) \in Nat
  BY InputIsSeq DEF Cmac!Tags, ThreadInv
<1>4. a # Cmac!Nothing => Len(a.data) \in Nat
  BY InputIsSeq DEF Asks, ThreadInv
<1>5. CASE t \in cmac.Careful
  BY <1>1, <1>2, <1>5 DEF ThreadInv
<1>6. CASE t \notin cmac.Careful
  <2>1. d # Cmac!NoContext => a # Cmac!Nothing /\ Len(a.data) <= Len(d.data)
    BY <1>2, <1>3, <1>4, <1>6 DEF ThreadInv
  <2> QED
    BY <2>1, <1>6 DEF ThreadInv
<1> QED
  BY <1>5, <1>6

\* A computation that begins.
LEMMA BeginningKeeps ==
  ASSUME Cmac!KeyAssumption, NEW t, NEW k \in cmac.Key, NEW size \in cmac.TagSizes
  PROVE  /\ ThreadInv(t, [key |-> k, data |-> << >>], size, [key |-> k, data |-> << >>, len |-> size], Cmac!None)
         /\ [key |-> k, data |-> << >>] # Cmac!NoContext
<1>1. k # "none"
  BY DEF Cmac!KeyAssumption
<1>2. [key |-> k, data |-> << >>] # Cmac!NoContext
  BY <1>1 DEF Cmac!NoContext
<1>3. [key |-> k, data |-> << >>, len |-> size] # Cmac!Nothing
  BY <1>1 DEF Cmac!Nothing
<1>4. [key |-> k, data |-> << >>] \in Cmac!Tags /\ [key |-> k, data |-> << >>, len |-> size] \in Asks
  BY NoInput DEF Cmac!Tags, Asks
<1> QED
  BY <1>2, <1>3, <1>4, NoInput DEF ThreadInv

\* One more piece of input.
LEMMA AppendKeeps ==
  ASSUME Cmac!KeyAssumption, NEW t, NEW c, NEW len, NEW a, NEW r, ThreadInv(t, c, len, a, r),
         c # Cmac!NoContext, Len(c.data) < cmac.MaxBlocks, NEW b \in cmac.Block
  PROVE  /\ Cmac!With(c, b) \in Cmac!Tags /\ Cmac!With(c, b) # Cmac!NoContext
         /\ Len(c.data) <= Len(Cmac!With(c, b).data)
         /\ (t \in cmac.Careful => a # Cmac!Nothing)
            => ThreadInv(t, Cmac!With(c, b), len, Cmac!With(a, b), Cmac!None)
<1>1. c \in Cmac!Tags /\ c = [key |-> c.key, data |-> c.data] /\ c.key \in cmac.Key /\ c.data \in Cmac!Inputs
  BY DEF ThreadInv, Cmac!Tags
<1>2. Cmac!With(c, b) = [key |-> c.key, data |-> Append(c.data, b)]
  BY <1>1 DEF Cmac!With
<1>3. Append(c.data, b) \in Cmac!Inputs /\ Len(Append(c.data, b)) = Len(c.data) + 1 /\ Len(c.data) \in Nat
  BY <1>1, InputAppended, InputIsSeq
<1>4. Cmac!With(c, b) \in Cmac!Tags /\ Cmac!With(c, b) # Cmac!NoContext
  BY <1>1, <1>2, <1>3 DEF Cmac!Tags, Cmac!NoContext, Cmac!KeyAssumption
<1>5. Len(c.data) <= Len(Cmac!With(c, b).data)
  BY <1>2, <1>3
<1>6. ASSUME a # Cmac!Nothing
      PROVE  ThreadInv(t, Cmac!With(c, b), len, Cmac!With(a, b), Cmac!None)
  <2>1. /\ a = [key |-> a.key, data |-> a.data, len |-> a.len]
        /\ a.key \in cmac.Key /\ a.data \in Cmac!Inputs /\ a.len \in cmac.TagSizes
        /\ Len(a.data) <= Len(c.data) /\ Len(a.data) \in Nat
    BY <1>6, InputIsSeq DEF ThreadInv, Asks
  <2>2. Cmac!With(a, b) = [key |-> a.key, data |-> Append(a.data, b), len |-> a.len]
    <3>1. \A k, d, size : Cmac!With([key |-> k, data |-> d, len |-> size], b)
                             = [key |-> k, data |-> Append(d, b), len |-> size]
      BY SMTT(30) DEF Cmac!With
    <3> QED
      BY <2>1, <3>1, Zenon
  <2>3. Len(a.data) < cmac.MaxBlocks
    BY <2>1, <1>3 DEF Cmac!KeyAssumption
  <2>4. Append(a.data, b) \in Cmac!Inputs /\ Len(Append(a.data, b)) = Len(a.data) + 1
    BY <2>1, <2>3, InputAppended
  <2>5. Cmac!With(a, b) \in Asks /\ Cmac!With(a, b) # Cmac!Nothing
    BY <2>1, <2>2, <2>4 DEF Asks, Cmac!Nothing, Cmac!KeyAssumption
  <2>6. Len(Cmac!With(a, b).data) <= Len(Cmac!With(c, b).data)
    BY <2>1, <2>2, <2>4, <1>2, <1>3
  <2>7. t \in cmac.Careful => Cmac!With(c, b) = [key |-> Cmac!With(a, b).key, data |-> Cmac!With(a, b).data]
                              /\ len = Cmac!With(a, b).len
    <3>1. r = Cmac!None
      BY DEF ThreadInv
    <3>2. t \in cmac.Careful => c = [key |-> a.key, data |-> a.data] /\ len = a.len
      BY <3>1, <1>6 DEF ThreadInv
    <3>3. t \in cmac.Careful => c.key = a.key /\ c.data = a.data /\ len = a.len
      BY <3>2
    <3>4. Cmac!With(a, b).key = a.key /\ Cmac!With(a, b).data = Append(a.data, b) /\ Cmac!With(a, b).len = a.len
      BY <2>2
    <3>5. ASSUME c.key = a.key, c.data = a.data
          PROVE  Cmac!With(c, b) = [key |-> a.key, data |-> Append(a.data, b)]
      BY <3>5, <1>2, Zenon
    <3> QED
      BY <3>3, <3>4, <3>5
  <2>8. len \in cmac.TagSizes \cup {0}
    BY DEF ThreadInv
  <2> HIDE DEF Cmac!With
  <2> QED
    BY <1>4, <2>5, <2>6, <2>7, <2>8 DEF ThreadInv
<1>7. t \notin cmac.Careful => a # Cmac!Nothing
  BY DEF ThreadInv
<1> QED
  BY <1>4, <1>5, <1>6, <1>7

\* A finishing function that succeeds.
LEMMA TagKeeps ==
  ASSUME Cmac!KeyAssumption, NEW t, NEW c, NEW len, NEW a, ThreadInv(t, c, len, a, Cmac!None),
         t \in cmac.Careful => a # Cmac!Nothing, NEW by \in {"compute", "verify"}, NEW tag, NEW size,
         by = "compute" => tag = c /\ size = IF len \in 1 .. 16 THEN len ELSE 16,
         by = "verify" => size = len /\ (size = 0 \/ tag = c)
  PROVE  ThreadInv(t, Cmac!NoContext, len, a, [by |-> by, tag |-> tag, len |-> size])
<1> DEFINE r == [by |-> by, tag |-> tag, len |-> size]
<1>1. r # Cmac!None /\ r.by = by /\ r.tag = tag /\ r.len = size
  BY DEF Cmac!None
<1>2. t \in cmac.Careful => c = [key |-> a.key, data |-> a.data] /\ len = a.len
  BY DEF ThreadInv
<1>3. a \in Asks /\ len \in cmac.TagSizes \cup {0}
  BY DEF ThreadInv
<1> HIDE DEF r
<1>4. ThreadInv(t, Cmac!NoContext, len, a, r)
  BY <1>1, <1>2, <1>3 DEF ThreadInv
<1> QED
  BY <1>4 DEF r

\* What a step of thread t does to the variables, and to the number of contexts.
LEMMA ThreadStep ==
  ASSUME Cmac!KeyAssumption, CmacInv, NEW t \in cmac.Thread,
         NEW c, NEW len, NEW a, NEW r, ThreadInv(t, c, len, a, r),
         v1' = Cmac!Set(v1, t, c), v2' = Cmac!Set(v2, t, len),
         v4' = Cmac!Set(v4, t, a), v5' = Cmac!Set(v5, t, r),
         v3' = (IF v1[t] = Cmac!NoContext THEN v3 ELSE v3 - 1) + (IF c = Cmac!NoContext THEN 0 ELSE 1)
  PROVE  CmacInv'
<1>1. /\ v1' = [u \in cmac.Thread |-> IF u = t THEN c ELSE v1[u]]
      /\ v2' = [u \in cmac.Thread |-> IF u = t THEN len ELSE v2[u]]
      /\ v4' = [u \in cmac.Thread |-> IF u = t THEN a ELSE v4[u]]
      /\ v5' = [u \in cmac.Thread |-> IF u = t THEN r ELSE v5[u]]
  BY DEF CmacInv, Cmac!Set
<1>2. /\ v1' = [u \in cmac.Thread |-> v1'[u]] /\ v2' = [u \in cmac.Thread |-> v2'[u]]
      /\ v4' = [u \in cmac.Thread |-> v4'[u]] /\ v5' = [u \in cmac.Thread |-> v5'[u]]
  BY <1>1
<1>3. \A u \in cmac.Thread : ThreadInv(u, v1'[u], v2'[u], v4'[u], v5'[u])
  <2>1. ASSUME NEW u \in cmac.Thread, u # t PROVE ThreadInv(u, v1'[u], v2'[u], v4'[u], v5'[u])
    <3>1. v1'[u] = v1[u] /\ v2'[u] = v2[u] /\ v4'[u] = v4[u] /\ v5'[u] = v5[u]
      BY <1>1, <2>1
    <3> QED
      BY <3>1 DEF CmacInv
  <2>2. v1'[t] = c /\ v2'[t] = len /\ v4'[t] = a /\ v5'[t] = r
    BY <1>1
  <2>3. ThreadInv(t, v1'[t], v2'[t], v4'[t], v5'[t])
    BY <2>2
  <2> QED
    BY <2>1, <2>3
<1>4. v3' = Cardinality(Holders')
  <2> DEFINE Rest == {u \in cmac.Thread \ {t} : v1[u] # Cmac!NoContext}
  <2>1. IsFiniteSet(Rest) /\ t \notin Rest /\ IsFiniteSet(Rest \cup {t})
    <3>1. Rest \subseteq cmac.Thread /\ IsFiniteSet(cmac.Thread)
      BY SameFinite DEF Cmac!KeyAssumption
    <3>2. IsFiniteSet(Rest)
      BY <3>1, FS_Subset
    <3> QED
      BY <3>2, FS_AddElement
  <2>2. Cardinality(Rest) \in Nat /\ Cardinality(Rest \cup {t}) = Cardinality(Rest) + 1
    BY <2>1, FS_AddElement, FS_CardinalityType
  <2>3. Holders = IF v1[t] = Cmac!NoContext THEN Rest ELSE Rest \cup {t}
    BY DEF Holders
  <2>4. Holders' = IF c = Cmac!NoContext THEN Rest ELSE Rest \cup {t}
    BY <1>1 DEF Holders
  <2>5. v3 = Cardinality(Holders)
    BY DEF CmacInv
  <2> HIDE DEF Rest
  <2> QED
    BY <2>2, <2>3, <2>4, <2>5
<1> QED
  BY <1>2, <1>3, <1>4 DEF CmacInv

LEMMA CmacInitially == ASSUME Cmac!KeyAssumption, Cmac!Init PROVE CmacInv
<1>1. \A t \in cmac.Thread : ThreadInv(t, Cmac!NoContext, 0, Cmac!Nothing, Cmac!None)
  BY DEF ThreadInv, Asks
<1>2. Holders = {}
  BY DEF Cmac!Init, Holders
<1> QED
  BY <1>1, <1>2, FS_EmptySet DEF Cmac!Init, CmacInv

cmacvars == <<v1, v2, v3, v4, v5>>

\* Writing what is there changes nothing.
LEMMA SetSame ==
  ASSUME CmacInv, NEW t \in cmac.Thread
  PROVE  /\ v1 = Cmac!Set(v1, t, v1[t]) /\ v2 = Cmac!Set(v2, t, v2[t])
         /\ v4 = Cmac!Set(v4, t, v4[t]) /\ v5 = Cmac!Set(v5, t, v5[t])
  BY DEF CmacInv, Cmac!Set

LEMMA ContextsCounted == ASSUME Cmac!KeyAssumption, CmacInv PROVE v3 \in Nat
<1>1. Holders \subseteq cmac.Thread /\ IsFiniteSet(cmac.Thread)
  BY SameFinite DEF Holders, Cmac!KeyAssumption
<1> QED
  BY <1>1, FS_Subset, FS_CardinalityType DEF CmacInv

\* A call that fails, and leaves the context d.
LEMMA FailedStep ==
  ASSUME Cmac!KeyAssumption, CmacInv, NEW t \in cmac.Thread, Cmac!Failed(t), v2' = v2,
         NEW d \in Cmac!Tags \cup {Cmac!NoContext}, v1' = Cmac!Set(v1, t, d),
         d = Cmac!NoContext \/ (v1[t] # Cmac!NoContext /\ Len(v1[t].data) <= Len(d.data)),
         v3' = IF d = Cmac!NoContext /\ v1[t] # Cmac!NoContext THEN v3 - 1 ELSE v3
  PROVE  CmacInv'
<1> DEFINE a == IF t \in cmac.Careful THEN Cmac!Nothing ELSE v4[t]
<1>1. v4' = Cmac!Set(v4, t, a) /\ v5' = Cmac!Set(v5, t, Cmac!None) /\ v2' = Cmac!Set(v2, t, v2[t])
  BY SetSame DEF Cmac!Failed
<1>2. ThreadInv(t, v1[t], v2[t], v4[t], v5[t])
  BY DEF CmacInv
<1>3. ThreadInv(t, d, v2[t], a, Cmac!None)
  BY <1>2, FailureKeeps
<1>4. v3' = (IF v1[t] = Cmac!NoContext THEN v3 ELSE v3 - 1) + (IF d = Cmac!NoContext THEN 0 ELSE 1)
  BY ContextsCounted
<1> HIDE DEF a
<1> QED
  BY <1>1, <1>3, <1>4, ThreadStep

LEMMA CmacStep == ASSUME Cmac!KeyAssumption, CmacInv, [Cmac!Next]_cmacvars PROVE CmacInv'
<1>1. CASE UNCHANGED cmacvars
  BY <1>1 DEF cmacvars, CmacInv, Holders
<1>2. ASSUME NEW t \in cmac.Thread
      PROVE  /\ ThreadInv(t, v1[t], v2[t], v4[t], v5[t])
             /\ v1[t] \in Cmac!Tags \cup {Cmac!NoContext}
             /\ v1[t] # Cmac!NoContext => v1[t].data \in Cmac!Inputs /\ Len(v1[t].data) \in Nat
  <2>1. ThreadInv(t, v1[t], v2[t], v4[t], v5[t])
    BY DEF CmacInv
  <2> QED
    BY <2>1, InputIsSeq DEF ThreadInv, Cmac!Tags
<1>3. ASSUME NEW t \in cmac.Thread, Cmac!Failed(t), UNCHANGED <<v1, v2, v3>> PROVE CmacInv'
  BY <1>2, <1>3, SetSame, FailedStep
<1>4. ASSUME NEW t \in cmac.Thread, NEW k \in cmac.Key, NEW size \in cmac.TagSizes, Cmac!CmacInit(t, k, size)
      PROVE  CmacInv'
  <2> DEFINE rest == IF v1[t] = Cmac!NoContext THEN v3 ELSE v3 - 1
  <2>1. CASE Cmac!Failed(t) /\ UNCHANGED <<v1, v2, v3>>
    BY <2>1, <1>3
  <2>2. CASE /\ v1' = Cmac!Set(v1, t, Cmac!NoContext) /\ v3' = rest
             /\ Cmac!Failed(t) /\ UNCHANGED v2
    BY <2>2, FailedStep
  <2>3. CASE /\ v1' = Cmac!Set(v1, t, [key |-> k, data |-> << >>]) /\ v3' = rest + 1
             /\ v2' = Cmac!Set(v2, t, size)
             /\ v4' = Cmac!Set(v4, t, [key |-> k, data |-> << >>, len |-> size]) /\ v5' = Cmac!Set(v5, t, Cmac!None)
    BY <2>3, BeginningKeeps, ThreadStep
  <2> QED
    BY <1>4, <2>1, <2>2, <2>3 DEF Cmac!CmacInit
<1>5. ASSUME NEW t \in cmac.Thread, NEW b \in cmac.Block, Cmac!Begun(t), Cmac!CmacAppend(t, b)
      PROVE  CmacInv'
  <2> DEFINE c == v1[t]
             more == Cmac!With(v1[t], b)
  <2>1. Len(c.data) < cmac.MaxBlocks /\ UNCHANGED <<v2, v3>>
    BY <1>5 DEF Cmac!CmacAppend
  <2>2. CASE c = Cmac!NoContext
    BY <1>5, <2>2, <1>3, <2>1 DEF Cmac!CmacAppend
  <2>3. CASE c # Cmac!NoContext
    <3>1. /\ more \in Cmac!Tags /\ more # Cmac!NoContext /\ Len(c.data) <= Len(more.data)
          /\ ThreadInv(t, more, v2[t], Cmac!With(v4[t], b), Cmac!None)
      <4>1. ThreadInv(t, c, v2[t], v4[t], v5[t]) /\ (t \in cmac.Careful => v4[t] # Cmac!Nothing)
        BY <1>2, <1>5 DEF Cmac!Begun
      <4> HIDE DEF c
      <4>2. /\ Cmac!With(c, b) \in Cmac!Tags /\ Cmac!With(c, b) # Cmac!NoContext
            /\ Len(c.data) <= Len(Cmac!With(c, b).data)
            /\ ThreadInv(t, Cmac!With(c, b), v2[t], Cmac!With(v4[t], b), Cmac!None)
        BY <4>1, <2>1, <2>3, AppendKeeps
      <4> QED
        BY <4>2 DEF c
    <3>2. CASE /\ v1' = Cmac!Set(v1, t, more) /\ v4' = Cmac!Set(v4, t, Cmac!With(v4[t], b))
               /\ v5' = Cmac!Set(v5, t, Cmac!None)
      <4>1. v2' = Cmac!Set(v2, t, v2[t])
        BY <2>1, SetSame
      <4>2. v3' = (v3 - 1) + 1
        BY <2>1, ContextsCounted
      <4> QED
        BY <2>3, <3>1, <3>2, <4>1, <4>2, ThreadStep
    <3>3. CASE Cmac!Failed(t) /\ v1' = v1
      BY <2>1, <3>3, <1>3
    <3>4. CASE Cmac!Failed(t) /\ v1' = Cmac!Set(v1, t, more)
      BY <2>1, <2>3, <3>1, <3>4, FailedStep
    <3> QED
      BY <1>5, <2>3, <3>2, <3>3, <3>4 DEF Cmac!CmacAppend
  <2> QED
    BY <2>2, <2>3
\* The two finishing functions, which free the context whatever comes of it.
<1>6. ASSUME NEW t \in cmac.Thread, Cmac!Begun(t), v5[t] = Cmac!None, v1[t] # Cmac!NoContext, Cmac!Finish(t)
      PROVE  /\ Cmac!Failed(t) => CmacInv'
             /\ \A by \in {"compute", "verify"} : \A tag : \A size :
                   /\ by = "compute" => tag = v1[t] /\ size = IF v2[t] \in 1 .. 16 THEN v2[t] ELSE 16
                   /\ by = "verify" => size = v2[t] /\ (size = 0 \/ tag = v1[t])
                   /\ v5' = Cmac!Set(v5, t, [by |-> by, tag |-> tag, len |-> size]) /\ v4' = v4
                   => CmacInv'
  <2>1. v1' = Cmac!Set(v1, t, Cmac!NoContext) /\ v3' = v3 - 1 /\ v2' = v2
    BY <1>6 DEF Cmac!Finish
  <2>2. Cmac!Failed(t) => CmacInv'
    BY <1>6, <2>1, FailedStep
  <2>3. ASSUME NEW by \in {"compute", "verify"}, NEW tag, NEW size,
               by = "compute" => tag = v1[t] /\ size = IF v2[t] \in 1 .. 16 THEN v2[t] ELSE 16,
               by = "verify" => size = v2[t] /\ (size = 0 \/ tag = v1[t]),
               v5' = Cmac!Set(v5, t, [by |-> by, tag |-> tag, len |-> size]), v4' = v4
        PROVE  CmacInv'
    <3>1. ThreadInv(t, Cmac!NoContext, v2[t], v4[t], [by |-> by, tag |-> tag, len |-> size])
      <4>1. ThreadInv(t, v1[t], v2[t], v4[t], Cmac!None) /\ (t \in cmac.Careful => v4[t] # Cmac!Nothing)
        BY <1>2, <1>6 DEF Cmac!Begun
      <4> QED
        BY <4>1, <2>3, TagKeeps
    <3>2. v2' = Cmac!Set(v2, t, v2[t]) /\ v4' = Cmac!Set(v4, t, v4[t])
      BY <2>1, <2>3, SetSame
    <3>3. v3' = (v3 - 1) + 0
      BY <2>1, ContextsCounted
    <3> QED
      BY <1>6, <2>1, <2>3, <3>1, <3>2, <3>3, ThreadStep
  <2> QED
    BY <2>2, <2>3
<1>7. ASSUME NEW t \in cmac.Thread, Cmac!Begun(t), v5[t] = Cmac!None, Cmac!ComputeFinish(t)
      PROVE  CmacInv'
  <2>1. CASE v1[t] = Cmac!NoContext
    BY <1>7, <2>1, <1>3 DEF Cmac!ComputeFinish
  <2>2. CASE v1[t] # Cmac!NoContext
    <3>1. Cmac!Finish(t) /\ (\/ Cmac!Failed(t)
                             \/ /\ v5' = Cmac!Set(v5, t, [by |-> "compute", tag |-> v1[t], len |-> Cmac!TagLength(t)])
                                /\ v4' = v4)
      BY <1>7, <2>2 DEF Cmac!ComputeFinish
    <3> QED
      BY <1>6, <1>7, <2>2, <3>1 DEF Cmac!TagLength
  <2> QED
    BY <2>1, <2>2
<1>8. ASSUME NEW t \in cmac.Thread, NEW tag \in Cmac!Tags, Cmac!Begun(t), v5[t] = Cmac!None,
             Cmac!VerifyFinish(t, tag)
      PROVE  CmacInv'
  <2>1. CASE v1[t] = Cmac!NoContext
    BY <1>8, <2>1, <1>3 DEF Cmac!VerifyFinish
  <2>2. CASE v1[t] # Cmac!NoContext
    <3>1. Cmac!Finish(t) /\ (\/ Cmac!Failed(t)
                             \/ /\ v2[t] = 0 \/ tag = v1[t]
                                /\ v5' = Cmac!Set(v5, t, [by |-> "verify", tag |-> tag, len |-> v2[t]])
                                /\ v4' = v4)
      BY <1>8, <2>2 DEF Cmac!VerifyFinish, Cmac!Agree
    <3> QED
      BY <1>6, <1>8, <2>2, <3>1
  <2> QED
    BY <2>1, <2>2
<1> QED
  BY <1>1, <1>4, <1>5, <1>7, <1>8 DEF Cmac!Next

LEMMA CmacImplies ==
  ASSUME Cmac!KeyAssumption, CmacInv
  PROVE  Cmac!TypeOK /\ Cmac!TagOfWhatWasAsked /\ Cmac!EachThreadOwnsItsContext
<1>1. Cmac!TypeOK
  <2>1. \A t \in cmac.Thread : /\ v1[t] \in Cmac!Tags \cup {Cmac!NoContext}
                              /\ v2[t] \in cmac.TagSizes \cup {0} /\ v4[t] \in Asks
    BY DEF CmacInv, ThreadInv
  <2> QED
    BY <2>1 DEF CmacInv, Cmac!TypeOK, Asks
<1>2. Cmac!TagOfWhatWasAsked
  <2>1. cmac.Careful \subseteq cmac.Thread
    BY DEF Cmac!KeyAssumption
  <2> QED
    BY <2>1 DEF CmacInv, ThreadInv, Cmac!TagOfWhatWasAsked
<1>3. Cmac!EachThreadOwnsItsContext
  BY SameCardinality DEF CmacInv, Holders, Cmac!EachThreadOwnsItsContext
<1> QED
  BY <1>1, <1>2, <1>3

-----------------------------------------------------------------------------
(* CRC.  A shift is linear over exclusive or, and eight shifts only move the   *)
(* upper half of a register down: one entry of the table, that of the lower    *)
(* half, does what the polynomial does in eight shifts.                         *)

LEMMA ShiftIsLinear ==
  ASSUME NEW A, NEW B
  PROVE  Crc!Shift(Crc!SymDiff(A, B)) = Crc!SymDiff(Crc!Shift(A), Crc!Shift(B))
<1> DEFINE moved(S) == {i \in 0 .. 14 : i + 1 \in S}
<1>1. /\ moved(Crc!SymDiff(A, B)) = Crc!SymDiff(moved(A), moved(B))
      /\ 0 \in Crc!SymDiff(A, B) <=> ~(0 \in A <=> 0 \in B)
  BY DEF Crc!SymDiff
<1>2. \A S : Crc!Shift(S) = Crc!SymDiff(moved(S), IF 0 \in S THEN Crc!Polynomial ELSE {})
  BY DEF Crc!Shift
<1> HIDE DEF moved
<1>3. ASSUME NEW i
      PROVE  i \in Crc!Shift(Crc!SymDiff(A, B)) <=> i \in Crc!SymDiff(Crc!Shift(A), Crc!Shift(B))
  <2>1. \A S : i \in Crc!Shift(S) <=> ~(i \in moved(S) <=> 0 \in S /\ i \in Crc!Polynomial)
    BY <1>2 DEF Crc!SymDiff
  <2>2. \A S, T : i \in Crc!SymDiff(S, T) <=> ~(i \in S <=> i \in T)
    BY DEF Crc!SymDiff
  <2>3. i \in moved(Crc!SymDiff(A, B)) <=> ~(i \in moved(A) <=> i \in moved(B))
    BY <1>1, <2>2
  <2> QED
    BY <1>1, <2>1, <2>2, <2>3
<1> QED
  BY <1>3

LEMMA EightShiftsAreLinear ==
  ASSUME NEW A, NEW B
  PROVE  Crc!EightShifts(Crc!SymDiff(A, B)) = Crc!SymDiff(Crc!EightShifts(A), Crc!EightShifts(B))
  BY ShiftIsLinear DEF Crc!EightShifts

\* What k shifts make of a register whose lower half is 0.
Down(H, k) == {i \in 0 .. 15 - k : i + k \in H}

LEMMA ShiftMovesDown ==
  ASSUME NEW H \in SUBSET (8 .. 15), NEW k \in 0 .. 7
  PROVE  Crc!Shift(Down(H, k)) = Down(H, k + 1)
<1>1. 0 \notin Down(H, k)
  BY DEF Down
<1>2. Crc!Shift(Down(H, k)) = {i \in 0 .. 14 : i + 1 \in Down(H, k)}
  BY <1>1, Zenon DEF Crc!Shift, Crc!SymDiff
<1>3. ASSUME NEW i \in 0 .. 14 PROVE i + 1 \in Down(H, k) <=> i \in Down(H, k + 1)
  <2>1. i + 1 \in 0 .. 15 - k <=> i \in 0 .. 15 - (k + 1)
    OBVIOUS
  <2>2. (i + 1) + k = i + (k + 1)
    OBVIOUS
  <2> QED
    BY <2>1, <2>2, Zenon DEF Down
<1>4. Down(H, k + 1) \subseteq 0 .. 14
  BY DEF Down
<1> QED
  BY <1>2, <1>3, <1>4

LEMMA EightShiftsMoveDown ==
  ASSUME NEW H \in SUBSET (8 .. 15)
  PROVE  Crc!EightShifts(H) = {i \in 0 .. 7 : i + 8 \in H}
<1>1. Down(H, 0) = H
  <2>1. ASSUME NEW i \in H PROVE i \in 0 .. 15 - 0 /\ i + 0 = i
    BY <2>1
  <2>2. ASSUME NEW i \in 0 .. 15 - 0 PROVE i + 0 = i
    BY <2>2
  <2> QED
    BY <2>1, <2>2 DEF Down
<1>2. /\ Crc!Shift(Down(H, 0)) = Down(H, 1) /\ Crc!Shift(Down(H, 1)) = Down(H, 2)
      /\ Crc!Shift(Down(H, 2)) = Down(H, 3) /\ Crc!Shift(Down(H, 3)) = Down(H, 4)
      /\ Crc!Shift(Down(H, 4)) = Down(H, 5) /\ Crc!Shift(Down(H, 5)) = Down(H, 6)
      /\ Crc!Shift(Down(H, 6)) = Down(H, 7) /\ Crc!Shift(Down(H, 7)) = Down(H, 8)
  BY ShiftMovesDown
<1>3. Down(H, 8) = {i \in 0 .. 7 : i + 8 \in H}
  BY DEF Down
<1> QED
  BY <1>1, <1>2, <1>3 DEF Crc!EightShifts

LEMMA ShiftIsARegister == ASSUME NEW A PROVE Crc!Shift(A) \in Crc!Register
<1>1. ASSUME NEW i \in Crc!Shift(A) PROVE i \in 0 .. 15
  <2>1. i \in 0 .. 14 \/ i \in Crc!Polynomial
    BY <1>1, SMT DEF Crc!Shift, Crc!SymDiff
  <2>2. i \in 0 .. 14 => i \in 0 .. 15
    OBVIOUS
  <2>3. i \in Crc!Polynomial => i \in 0 .. 15
    BY DEF Crc!Polynomial
  <2> QED
    BY <2>1, <2>2, <2>3
<1> QED
  BY <1>1 DEF Crc!Register

\* A turn of the loop is a step of the long division.
LEMMA StepDivides ==
  ASSUME Crc!PartAssumption, NEW r \in Crc!Register, NEW byte \in Crc!Byte
  PROVE  Crc!Step(r, byte) = Crc!Divide(r, byte) /\ Crc!Step(r, byte) \in Crc!Register
<1> DEFINE x    == Crc!SymDiff(r, byte)
           low  == x \cap (0 .. 7)
           high == x \cap (8 .. 15)
           moved == {i \in 0 .. 7 : i + 8 \in r}
<1>1. x = Crc!SymDiff(high, low) /\ low \in Crc!Byte /\ high \in SUBSET (8 .. 15)
  <2>1. x \subseteq 0 .. 15
    BY DEF Crc!SymDiff, Crc!Register, Crc!Byte
  <2>2. ASSUME NEW i PROVE i \in x <=> i \in Crc!SymDiff(high, low)
    <3>1. i \in 0 .. 15 <=> i \in 0 .. 7 \/ i \in 8 .. 15
      OBVIOUS
    <3>2. i \in 0 .. 7 => i \notin 8 .. 15
      OBVIOUS
    <3> HIDE DEF x
    <3>3. i \in x => i \in 0 .. 15
      BY <2>1
    <3> QED
      BY <3>1, <3>2, <3>3, Zenon DEF Crc!SymDiff
  <2> QED
    BY <2>2 DEF Crc!Byte
<1>2. {i \in 0 .. 7 : i + 8 \in high} = moved
  BY DEF Crc!SymDiff, Crc!Register, Crc!Byte
<1>3. Crc!EightShifts(high) = moved
  BY <1>1, <1>2, EightShiftsMoveDown
<1>4. Crc!Table[low] = Crc!EightShifts(low)
  BY <1>1 DEF Crc!PartAssumption
<1>5. Crc!Step(r, byte) = Crc!SymDiff(moved, Crc!Table[low])
  BY DEF Crc!Step
<1>6. Crc!Divide(r, byte) = Crc!SymDiff(Crc!EightShifts(high), Crc!EightShifts(low))
  BY <1>1, EightShiftsAreLinear DEF Crc!Divide
<1>7. Crc!EightShifts(low) \in Crc!Register
  BY ShiftIsARegister DEF Crc!EightShifts
<1>8. Crc!SymDiff(moved, Crc!EightShifts(low)) \in Crc!Register
  BY <1>7 DEF Crc!SymDiff, Crc!Register
<1> QED
  BY <1>3, <1>4, <1>5, <1>6, <1>8

\* The register is the remainder of what has been read, from the first part on.
CrcInv ==
    /\ Crc!TypeOK /\ Crc!AnswerIsCrcOfFrame
    /\ \A t \in crc.Thread : v5[t] > 0 => v1[t] = v6[t]

crcvars == <<v1, v2, v3, v4, v5, v6>>

LEMMA CrcInitially == ASSUME Crc!PartAssumption, Crc!Init PROVE CrcInv
<1>1. << >> \in Seq(Crc!Byte) /\ {} \in Crc!Register
  BY DEF Crc!Register
<1> QED
  BY <1>1 DEF Crc!PartAssumption, Crc!Init, CrcInv, Crc!TypeOK, Crc!AnswerIsCrcOfFrame

LEMMA CrcStep == ASSUME Crc!PartAssumption, CrcInv, [Crc!Next]_crcvars PROVE CrcInv'
<1>1. CASE UNCHANGED crcvars
  BY <1>1 DEF crcvars, CrcInv, Crc!TypeOK, Crc!AnswerIsCrcOfFrame
<1>2. ASSUME NEW t \in crc.Thread, NEW p \in crc.Part, Crc!Calculate(t, p) PROVE CrcInv'
  <2>1. p \in Seq(Crc!Byte) /\ 1 \in 0 .. crc.MaxParts
    BY DEF Crc!PartAssumption
  <2>2. (0 .. 15) \in Crc!Register
    BY DEF Crc!Register
  <2> QED
    BY <1>2, <2>1, <2>2 DEF CrcInv, Crc!TypeOK, Crc!AnswerIsCrcOfFrame, Crc!Calculate, Crc!Enter
<1>3. ASSUME NEW t \in crc.Thread, NEW p \in crc.Part, Crc!Accumulate(t, p) PROVE CrcInv'
  <2>1. p \in Seq(Crc!Byte) /\ v5[t] + 1 \in 0 .. crc.MaxParts /\ v5[t] > 0
    BY <1>3 DEF CrcInv, Crc!TypeOK, Crc!PartAssumption, Crc!Accumulate
  <2> QED
    BY <1>3, <2>1 DEF CrcInv, Crc!TypeOK, Crc!AnswerIsCrcOfFrame, Crc!Accumulate, Crc!Enter
<1>4. ASSUME NEW t \in crc.Thread, Crc!Read(t) PROVE CrcInv'
  <2> DEFINE byte == Head(v2[t])
             crc1 == Crc!Step(v1[t], byte)
             rem1 == Crc!Divide(v6[t], byte)
  <2>1. v2[t] \in Seq(Crc!Byte) /\ v2[t] # << >> /\ v1[t] \in Crc!Register /\ v5[t] > 0 /\ v1[t] = v6[t]
    BY <1>4 DEF CrcInv, Crc!TypeOK, Crc!Read
  <2>2. byte \in Crc!Byte /\ Tail(v2[t]) \in Seq(Crc!Byte)
    BY <2>1, HeadTailProperties
  <2>3. crc1 = rem1 /\ crc1 \in Crc!Register
    BY <2>1, <2>2, StepDivides
  <2>4. /\ v1' = [v1 EXCEPT ![t] = crc1] /\ v6' = [v6 EXCEPT ![t] = rem1]
        /\ v2' = [v2 EXCEPT ![t] = Tail(v2[t])] /\ UNCHANGED <<v3, v4, v5>> /\ v3[t] = "loop"
    BY <1>4 DEF Crc!Read
  <2> HIDE DEF byte, crc1, rem1
  <2> QED
    BY <2>2, <2>3, <2>4 DEF CrcInv, Crc!TypeOK, Crc!AnswerIsCrcOfFrame
<1>5. ASSUME NEW t \in crc.Thread, Crc!Return(t) PROVE CrcInv'
  <2>1. v5[t] > 0 /\ v1[t] = v6[t] /\ (0 .. 15) \ v1[t] \in Crc!Register
    BY <1>5 DEF CrcInv, Crc!TypeOK, Crc!Return, Crc!Register
  <2> QED
    BY <1>5, <2>1 DEF CrcInv, Crc!TypeOK, Crc!AnswerIsCrcOfFrame, Crc!Return
<1> QED
  BY <1>1, <1>2, <1>3, <1>4, <1>5 DEF Crc!Next

-----------------------------------------------------------------------------
(* Functions of the platform layer and the providers.  An outline of a function  *)
(* says for each of its steps which pointers are not NULL, for sure or maybe,    *)
(* which of them have lost their object, and what was given to another object.   *)
(* If every step leads from what the outline says before it to what it says       *)
(* after it, no failure of any step leaks or frees twice (CallsStep): only the    *)
(* steps of each function have to be compared with its outline (AllFollow).       *)

At(sure, may, gone, given) == [sure |-> sure, may |-> may, gone |-> gone, given |-> given]
Nothing == At({}, {}, {}, {})

\* z may be a pointer that is not NULL; z is an object that goes with another one.
Maybe(s, z) == z \in s.sure \/ z \in s.may
Part(s, z) == \E o \in s.given : o[1] = z

\* The pointers xs can be freed: none is dangling, none is an object that goes with
\* another one, and it is known what goes with them.
CanFree(s, xs) ==
    /\ \A z \in xs : Maybe(s, z) => z \notin s.gone
    /\ \A o \in s.given : (o[2] \in xs => o[2] \in s.sure) /\ ~(o[1] \in xs /\ Maybe(s, o[1]))
    /\ \A o, p \in s.given : o[1] = p[1] => (o[2] \in xs <=> p[2] \in xs)

\* Freeing xs leaves nothing; if null is one pointer, that is NULL here.
FreesAll(s, xs, null) ==
    /\ CanFree(s, xs)
    /\ \A o \in s.given : o[2] \in xs
    /\ \A z : Maybe(s, z) => z \in s.gone \/ z \in xs \/ null = {z} \/ Part(s, z)

CanUse(s, xs) == \A z \in xs : z \in s.sure /\ z \notin s.gone
IsNew(s, xs) == \A z \in xs : ~Maybe(s, z) /\ z \notin s.gone /\ ~Part(s, z)

\* The step is sound at s, whether or not it fails, and t holds if it does not.
Leads(s, step, t) ==
    \/ /\ step.op = "new" /\ IsNew(s, step.x) /\ FreesAll(s, step.err, {})
       /\ t.sure = s.sure \cup step.x /\ t.may = s.may /\ t.gone = s.gone /\ t.given = s.given
    \/ /\ step.op = "may" /\ IsNew(s, step.x)
       /\ t.sure = s.sure /\ t.may = s.may \cup step.x /\ t.gone = s.gone /\ t.given = s.given
    \/ /\ step.op = "try" /\ CanUse(s, step.x) /\ FreesAll(s, step.err, {})
       /\ t = s
    \/ /\ step.op = "check" /\ FreesAll(s, step.err, step.x)
       /\ t.sure = s.sure \cup step.x /\ t.may = s.may \ step.x /\ t.gone = s.gone /\ t.given = s.given
    \/ /\ step.op = "free" /\ CanFree(s, step.x)
       /\ t.sure = s.sure /\ t.may = s.may
       /\ LET with == {o \in s.given : o[2] \in step.x}
          IN  t.gone = s.gone \cup step.x \cup {o[1] : o \in with} /\ t.given = s.given \ with
    \/ /\ step.op = "give" /\ CanUse(s, step.x \cup {step.y})
       /\ t.sure = s.sure /\ t.may = s.may /\ t.gone = s.gone
       /\ t.given = s.given \cup (step.x \X {step.y})
    \/ /\ step.op = "null"
       /\ \A z \in step.x : Maybe(s, z) => z \in s.gone \/ Part(s, z)
       /\ t.sure = s.sure \ step.x /\ t.may = s.may \ step.x /\ t.gone = s.gone /\ t.given = s.given

\* A function may return: all its objects are gone.
Over(s) == s.given = {} /\ \A z : Maybe(s, z) => z \in s.gone

Follows(f, outline) ==
    /\ Len(f) \in Nat /\ Len(outline) = Len(f) + 1 /\ outline[1] = Nothing /\ Over(outline[Len(f) + 1])
    /\ \A i \in 1 .. Len(f) : Leads(outline[i], f[i], outline[i + 1])

VerifyEd25519Outline == <<
    At({}, {}, {}, {}),
    At({"pkey"}, {}, {}, {}),
    At({"ctx", "pkey"}, {}, {}, {}),
    At({"ctx", "pkey"}, {}, {}, {}),
    At({"ctx", "pkey"}, {}, {"ctx", "pkey"}, {}) >>

VerifyEcOutline == <<
    At({}, {}, {}, {}),
    At({"group"}, {}, {}, {}),
    At({"group", "ec_key"}, {}, {}, {}),
    At({"group", "ec_key"}, {}, {}, {}),
    At({"group", "ec_key", "pub_point"}, {}, {}, {}),
    At({"group", "ec_key", "pub_point", "uncompressed_pub"}, {}, {}, {}),
    At({"group", "ec_key", "pub_point", "uncompressed_pub"}, {}, {}, {}),
    At({"group", "ec_key", "pub_point", "uncompressed_pub"}, {}, {"uncompressed_pub"}, {}),
    At({"group", "ec_key", "pub_point"}, {}, {"uncompressed_pub"}, {}),
    At({"group", "ec_key", "pub_point"}, {}, {"uncompressed_pub"}, {}),
    At({"group", "ec_key", "pub_point"}, {"r"}, {"uncompressed_pub"}, {}),
    At({"group", "ec_key", "pub_point"}, {"r", "s"}, {"uncompressed_pub"}, {}),
    At({"group", "ec_key", "pub_point", "r", "s"}, {}, {"uncompressed_pub"}, {}),
    At({"group", "ec_key", "pub_point", "sig", "r", "s"}, {}, {"uncompressed_pub"}, {}),
    At({"group", "ec_key", "pub_point", "sig", "r", "s"}, {}, {"uncompressed_pub"}, {}),
    At({"group", "ec_key", "pub_point", "sig", "r", "s"}, {}, {"uncompressed_pub"}, {<<"r", "sig">>, <<"s", "sig">>}),
    At({"group", "ec_key", "pub_point", "sig"}, {}, {"uncompressed_pub"}, {<<"r", "sig">>, <<"s", "sig">>}),
    At({"group", "ec_key", "pub_point", "sig"}, {}, {"uncompressed_pub"}, {<<"r", "sig">>, <<"s", "sig">>}),
    At({"group", "ec_key", "pub_point", "sig"}, {}, {"group", "ec_key", "pub_point", "uncompressed_pub", "sig", "r", "s"}, {}) >>

GenerateRawOutline == <<
    At({}, {}, {}, {}),
    At({"ctx"}, {}, {}, {}),
    At({"ctx"}, {}, {}, {}),
    At({"ctx", "pkey"}, {}, {}, {}),
    At({"ctx", "pkey"}, {}, {"ctx"}, {}),
    At({"ctx", "pkey"}, {}, {"ctx"}, {}),
    At({"ctx", "pkey"}, {}, {"ctx", "pkey"}, {}) >>

GenerateEcOutline == <<
    At({}, {}, {}, {}),
    At({"ec_key"}, {}, {}, {}),
    At({"ec_key"}, {}, {}, {}),
    At({"ec_key", "uncompressed"}, {}, {}, {}),
    At({"ec_key", "uncompressed"}, {}, {}, {}),
    At({"ec_key", "uncompressed"}, {}, {"ec_key", "uncompressed"}, {}) >>

SignEcOutline == <<
    At({}, {}, {}, {}),
    At({"ec_key"}, {}, {}, {}),
    At({"ec_key", "priv_bn"}, {}, {}, {}),
    At({"ec_key", "priv_bn"}, {}, {}, {}),
    At({"ec_key", "priv_bn", "sig"}, {}, {}, {}),
    At({"ec_key", "priv_bn", "sig"}, {}, {}, {}),
    At({"ec_key", "priv_bn", "sig"}, {}, {"ec_key", "priv_bn", "sig"}, {}) >>

EcdhX25519Outline == <<
    At({}, {}, {}, {}),
    At({}, {"local_key"}, {}, {}),
    At({}, {"local_key", "remote_key"}, {}, {}),
    At({"local_key", "remote_key"}, {}, {}, {}),
    At({"ctx", "local_key", "remote_key"}, {}, {}, {}),
    At({"ctx", "local_key", "remote_key"}, {}, {}, {}),
    At({"ctx", "local_key", "remote_key"}, {}, {"ctx", "local_key", "remote_key"}, {}) >>

EcdhEcOutline == <<
    At({}, {}, {}, {}),
    At({"group"}, {}, {}, {}),
    At({"group", "local_key"}, {}, {}, {}),
    At({"group", "local_key", "priv_bn"}, {}, {}, {}),
    At({"group", "local_key", "priv_bn"}, {}, {}, {}),
    At({"group", "local_key", "remote_key", "priv_bn"}, {}, {}, {}),
    At({"group", "local_key", "remote_key", "priv_bn", "pub_point"}, {}, {}, {}),
    At({"group", "local_key", "remote_key", "priv_bn", "pub_point", "uncompressed"}, {}, {}, {}),
    At({"group", "local_key", "remote_key", "priv_bn", "pub_point", "uncompressed"}, {}, {}, {}),
    At({"group", "local_key", "remote_key", "priv_bn", "pub_point", "uncompressed"}, {}, {}, {}),
    At({"group", "local_key", "remote_key", "priv_bn", "pub_point", "uncompressed"}, {}, {}, {}),
    At({"group", "local_key", "remote_key", "priv_bn", "pub_point", "uncompressed"}, {}, {"group", "local_key", "remote_key", "priv_bn", "pub_point", "uncompressed"}, {}) >>

OneContextOutline == <<
    At({}, {}, {}, {}),
    At({"ctx"}, {}, {}, {}),
    At({"ctx"}, {}, {}, {}),
    At({"ctx"}, {}, {}, {}),
    At({"ctx"}, {}, {}, {}),
    At({"ctx"}, {}, {"ctx"}, {}) >>

hw_signOutline == <<
    At({}, {}, {}, {}),
    At({"raw_sig"}, {}, {}, {}),
    At({"raw_sig"}, {}, {}, {}),
    At({"raw_sig"}, {"r"}, {}, {}),
    At({"raw_sig"}, {"r", "s"}, {}, {}),
    At({"raw_sig"}, {"r", "s"}, {"raw_sig"}, {}),
    At({"raw_sig", "r", "s"}, {}, {"raw_sig"}, {}),
    At({"raw_sig", "ecdsa", "r", "s"}, {}, {"raw_sig"}, {}),
    At({"raw_sig", "ecdsa", "r", "s"}, {}, {"raw_sig"}, {<<"r", "ecdsa">>, <<"s", "ecdsa">>}),
    At({"raw_sig", "ecdsa", "r", "s"}, {"der"}, {"raw_sig"}, {<<"r", "ecdsa">>, <<"s", "ecdsa">>}),
    At({"raw_sig", "ecdsa", "r", "s"}, {"der"}, {"raw_sig", "ecdsa", "r", "s"}, {}),
    At({"raw_sig", "ecdsa", "der", "r", "s"}, {}, {"raw_sig", "ecdsa", "r", "s"}, {}),
    At({"raw_sig", "ecdsa", "der", "r", "s"}, {}, {"raw_sig", "ecdsa", "r", "s"}, {}),
    At({"raw_sig", "ecdsa", "der", "r", "s"}, {}, {"raw_sig", "ecdsa", "der", "r", "s"}, {}) >>

hw_verifyOutline == <<
    At({}, {}, {}, {}),
    At({"ecdsa"}, {}, {}, {}),
    At({"ecdsa"}, {}, {}, {}),
    At({"raw_sig", "ecdsa"}, {}, {}, {}),
    At({"raw_sig", "ecdsa"}, {}, {}, {}),
    At({"raw_sig", "ecdsa"}, {}, {"ecdsa"}, {}),
    At({"raw_sig", "ecdsa"}, {}, {"ecdsa"}, {}),
    At({"raw_sig", "ecdsa"}, {}, {"raw_sig", "ecdsa"}, {}) >>

digest_verifyOutline == <<
    At({}, {}, {}, {}),
    At({"pctx"}, {}, {}, {}),
    At({"pctx"}, {}, {}, {}),
    At({"pctx", "sw_pkey"}, {}, {}, {}),
    At({"pctx", "sw_pkey"}, {}, {"pctx"}, {}),
    At({"pctx", "sw_pkey", "sw_ctx"}, {}, {"pctx"}, {}),
    At({"pctx", "sw_pkey", "sw_ctx"}, {}, {"pctx"}, {}),
    At({"pctx", "sw_pkey", "sw_ctx"}, {}, {"pctx", "sw_pkey", "sw_ctx"}, {}) >>

Outline == [
    VerifyEd25519 |-> VerifyEd25519Outline, VerifyEc |-> VerifyEcOutline,
    GenerateRaw |-> GenerateRawOutline, GenerateEc |-> GenerateEcOutline,
    SignEd25519 |-> VerifyEd25519Outline, SignEc |-> SignEcOutline,
    EcdhX25519 |-> EcdhX25519Outline, EcdhEc |-> EcdhEcOutline,
    aes_cmac_compute |-> OneContextOutline,
    aes_cbc_enc |-> OneContextOutline, aes_cbc_dec |-> OneContextOutline,
    aes_ecb_enc |-> OneContextOutline, aes_ecb_dec |-> OneContextOutline,
    hash_compute |-> OneContextOutline, expand_round |-> OneContextOutline,
    hw_sign |-> hw_signOutline, hw_verify |-> hw_verifyOutline, digest_verify |-> digest_verifyOutline ]

\* What each kind of step needs, set by set.
LEMMA Frees ==
  ASSUME NEW sure, NEW may, NEW gone, NEW given, NEW xs, NEW null,
         \A z \in xs : z \in sure \/ z \in may => z \notin gone,
         \A o \in given : o[2] \in xs /\ o[2] \in sure /\ ~(o[1] \in xs /\ (o[1] \in sure \/ o[1] \in may)),
         \A z : z \in sure \/ z \in may => z \in gone \/ z \in xs \/ null = {z} \/ \E o \in given : o[1] = z
  PROVE  FreesAll(At(sure, may, gone, given), xs, null)
  BY DEF FreesAll, CanFree, Maybe, Part, At

LEMMA CanFrees ==
  ASSUME NEW sure, NEW may, NEW gone, NEW given, NEW xs,
         \A z \in xs : z \in sure \/ z \in may => z \notin gone,
         \A o \in given : (o[2] \in xs => o[2] \in sure) /\ ~(o[1] \in xs /\ (o[1] \in sure \/ o[1] \in may)),
         \A o, p \in given : o[1] = p[1] => (o[2] \in xs <=> p[2] \in xs)
  PROVE  CanFree(At(sure, may, gone, given), xs)
  BY DEF CanFree, Maybe, At

LEMMA LeadsNew ==
  ASSUME NEW sure, NEW may, NEW gone, NEW given, NEW x, NEW err, NEW sure2,
         x \notin sure, x \notin may, x \notin gone, \A o \in given : o[1] # x,
         FreesAll(At(sure, may, gone, given), err, {}),
         \A z : z \in sure2 <=> z \in sure \/ z = x
  PROVE  Leads(At(sure, may, gone, given), Calls!New(x, err), At(sure2, may, gone, given))
<1>1. sure2 = sure \cup {x}
  OBVIOUS
<1> QED
  BY <1>1 DEF Leads, IsNew, Maybe, Part, At, Calls!New

LEMMA LeadsMay ==
  ASSUME NEW sure, NEW may, NEW gone, NEW given, NEW x, NEW may2,
         x \notin sure, x \notin may, x \notin gone, \A o \in given : o[1] # x,
         \A z : z \in may2 <=> z \in may \/ z = x
  PROVE  Leads(At(sure, may, gone, given), Calls!May(x), At(sure, may2, gone, given))
<1>1. may2 = may \cup {x}
  OBVIOUS
<1> QED
  BY <1>1 DEF Leads, IsNew, Maybe, Part, At, Calls!May

LEMMA LeadsTry ==
  ASSUME NEW sure, NEW may, NEW gone, NEW given, NEW xs, NEW err,
         \A z \in xs : z \in sure /\ z \notin gone,
         FreesAll(At(sure, may, gone, given), err, {})
  PROVE  Leads(At(sure, may, gone, given), Calls!Try(xs, err), At(sure, may, gone, given))
  BY DEF Leads, CanUse, At, Calls!Try

LEMMA LeadsCheck ==
  ASSUME NEW sure, NEW may, NEW gone, NEW given, NEW xs, NEW err, NEW sure2, NEW may2,
         FreesAll(At(sure, may, gone, given), err, xs),
         \A z : z \in sure2 <=> z \in sure \/ z \in xs,
         \A z : z \in may2 <=> z \in may /\ z \notin xs
  PROVE  Leads(At(sure, may, gone, given), Calls!Check(xs, err), At(sure2, may2, gone, given))
<1>1. sure2 = sure \cup xs /\ may2 = may \ xs
  OBVIOUS
<1> QED
  BY <1>1 DEF Leads, At, Calls!Check

LEMMA LeadsFree ==
  ASSUME NEW sure, NEW may, NEW gone, NEW given, NEW xs, NEW gone2, NEW given2,
         CanFree(At(sure, may, gone, given), xs),
         given2 = {o \in given : o[2] \notin xs},
         \A z : z \in gone2 <=> z \in gone \/ z \in xs \/ \E o \in given : o[2] \in xs /\ z = o[1]
  PROVE  Leads(At(sure, may, gone, given), Calls!Free(xs), At(sure, may, gone2, given2))
<1> DEFINE with == {o \in given : o[2] \in xs}
<1>1. given2 = given \ with
  OBVIOUS
<1>2. gone2 = gone \cup xs \cup {o[1] : o \in with}
  OBVIOUS
<1> QED
  BY <1>1, <1>2 DEF Leads, At, Calls!Free

LEMMA LeadsGive ==
  ASSUME NEW sure, NEW may, NEW gone, NEW given, NEW xs, NEW y, NEW given2,
         \A z \in xs : z \in sure /\ z \notin gone,
         y \in sure, y \notin gone,
         given2 = given \cup (xs \X {y})
  PROVE  Leads(At(sure, may, gone, given), Calls!Give(xs, y), At(sure, may, gone, given2))
  BY DEF Leads, CanUse, At, Calls!Give

LEMMA LeadsNull ==
  ASSUME NEW sure, NEW may, NEW gone, NEW given, NEW xs, NEW sure2, NEW may2,
         \A z \in xs : z \in sure \/ z \in may => z \in gone \/ \E o \in given : o[1] = z,
         \A z : z \in sure2 <=> z \in sure /\ z \notin xs,
         \A z : z \in may2 <=> z \in may /\ z \notin xs
  PROVE  Leads(At(sure, may, gone, given), Calls!Null(xs), At(sure2, may2, gone, given))
<1>1. sure2 = sure \ xs /\ may2 = may \ xs
  OBVIOUS
<1> QED
  BY <1>1 DEF Leads, Maybe, Part, At, Calls!Null

\* Two sequences of literal lengths, joined.
LEMMA Joined ==
  ASSUME NEW a1, NEW a2, NEW a3, NEW a4, NEW b1, NEW b2, NEW b3
  PROVE  <<a1, a2, a3, a4>> \o <<b1, b2, b3>> = <<a1, a2, a3, a4, b1, b2, b3>>
<1> DEFINE s == <<a1, a2, a3, a4>>
           t == <<b1, b2, b3>>
           u == <<a1, a2, a3, a4, b1, b2, b3>>
           S == {a1, a2, a3, a4, b1, b2, b3}
<1>1. s \in Seq(S) /\ t \in Seq(S) /\ u \in Seq(S) /\ Len(s) = 4 /\ Len(t) = 3 /\ Len(u) = 7
  OBVIOUS
<1>2. /\ s \o t \in Seq(S) /\ Len(s \o t) = 7
      /\ \A i \in 1 .. 7 : (s \o t)[i] = (IF i <= 4 THEN s[i] ELSE t[i - 4])
  <2> HIDE DEF s, t, S
  <2>1. /\ s \o t \in Seq(S) /\ Len(s \o t) = Len(s) + Len(t)
        /\ \A i \in 1 .. Len(s) + Len(t) : (s \o t)[i] = (IF i <= Len(s) THEN s[i] ELSE t[i - Len(s)])
    BY <1>1, ConcatProperties
  <2> QED
    BY <1>1, <2>1
<1>3. \A i \in 1 .. 7 : u[i] = (IF i <= 4 THEN s[i] ELSE t[i - 4])
  OBVIOUS
<1> HIDE DEF s, t, u, S
<1>4. Len(s \o t) = Len(u) /\ \A i \in 1 .. Len(s \o t) : (s \o t)[i] = u[i]
  BY <1>1, <1>2, <1>3
<1>5. s \o t = u
  BY <1>1, <1>2, <1>4, SeqEqual, Zenon
<1> QED
  BY <1>5 DEF s, t, u

LEMMA VerifyEd25519Follows == Follows(Calls!VerifyEd25519, VerifyEd25519Outline)
<1> DEFINE f == Calls!VerifyEd25519
           o == VerifyEd25519Outline
<1>1. Leads(o[1], f[1], o[2])
  BY LeadsNew, Frees DEF Calls!VerifyEd25519, VerifyEd25519Outline
<1>2. Leads(o[2], f[2], o[3])
  BY LeadsNew, Frees DEF Calls!VerifyEd25519, VerifyEd25519Outline
<1>3. Leads(o[3], f[3], o[4])
  BY LeadsTry, Frees DEF Calls!VerifyEd25519, VerifyEd25519Outline
<1>4. Leads(o[4], f[4], o[5])
  BY LeadsFree, CanFrees DEF Calls!VerifyEd25519, VerifyEd25519Outline
<1>5. Len(f) = 4 /\ Len(o) = 5 /\ o[1] = Nothing /\ Over(o[5])
  BY DEF Calls!VerifyEd25519, VerifyEd25519Outline, Over, Nothing, At, Maybe
<1> QED
  BY <1>1, <1>2, <1>3, <1>4, <1>5 DEF Follows

LEMMA VerifyEcFollows == Follows(Calls!VerifyEc, VerifyEcOutline)
<1> DEFINE f == Calls!VerifyEc
           o == VerifyEcOutline
<1>1. Leads(o[1], f[1], o[2])
  BY LeadsNew, Frees DEF Calls!VerifyEc, VerifyEcOutline, Calls!ecc_verify_cleanup
<1>2. Leads(o[2], f[2], o[3])
  BY LeadsNew, Frees DEF Calls!VerifyEc, VerifyEcOutline, Calls!ecc_verify_cleanup
<1>3. Leads(o[3], f[3], o[4])
  BY LeadsTry, Frees DEF Calls!VerifyEc, VerifyEcOutline, Calls!ecc_verify_cleanup
<1>4. Leads(o[4], f[4], o[5])
  BY LeadsNew, Frees DEF Calls!VerifyEc, VerifyEcOutline, Calls!ecc_verify_cleanup
<1>5. Leads(o[5], f[5], o[6])
  BY LeadsNew, Frees DEF Calls!VerifyEc, VerifyEcOutline, Calls!ecc_verify_cleanup
<1>6. Leads(o[6], f[6], o[7])
  BY LeadsTry, Frees DEF Calls!VerifyEc, VerifyEcOutline, Calls!ecc_verify_cleanup
<1>7. Leads(o[7], f[7], o[8])
  BY LeadsFree, CanFrees DEF Calls!VerifyEc, VerifyEcOutline, Calls!ecc_verify_cleanup
<1>8. Leads(o[8], f[8], o[9])
  BY LeadsNull DEF Calls!VerifyEc, VerifyEcOutline, Calls!ecc_verify_cleanup
<1>9. Leads(o[9], f[9], o[10])
  BY LeadsTry, Frees DEF Calls!VerifyEc, VerifyEcOutline, Calls!ecc_verify_cleanup
<1>10. Leads(o[10], f[10], o[11])
  BY LeadsMay DEF Calls!VerifyEc, VerifyEcOutline, Calls!ecc_verify_cleanup
<1>11. Leads(o[11], f[11], o[12])
  BY LeadsMay DEF Calls!VerifyEc, VerifyEcOutline, Calls!ecc_verify_cleanup
<1>12. Leads(o[12], f[12], o[13])
  BY LeadsCheck, Frees DEF Calls!VerifyEc, VerifyEcOutline, Calls!ecc_verify_cleanup
<1>13. Leads(o[13], f[13], o[14])
  BY LeadsNew, Frees DEF Calls!VerifyEc, VerifyEcOutline, Calls!ecc_verify_cleanup
<1>14. Leads(o[14], f[14], o[15])
  BY LeadsTry, Frees DEF Calls!VerifyEc, VerifyEcOutline, Calls!ecc_verify_cleanup
<1>15. Leads(o[15], f[15], o[16])
  BY LeadsGive DEF Calls!VerifyEc, VerifyEcOutline, Calls!ecc_verify_cleanup
<1>16. Leads(o[16], f[16], o[17])
  BY LeadsNull DEF Calls!VerifyEc, VerifyEcOutline, Calls!ecc_verify_cleanup
<1>17. Leads(o[17], f[17], o[18])
  BY LeadsTry, Frees DEF Calls!VerifyEc, VerifyEcOutline, Calls!ecc_verify_cleanup
<1>18. Leads(o[18], f[18], o[19])
  BY LeadsFree, CanFrees DEF Calls!VerifyEc, VerifyEcOutline, Calls!ecc_verify_cleanup
<1>19. Len(f) = 18 /\ Len(o) = 19 /\ o[1] = Nothing /\ Over(o[19])
  BY DEF Calls!VerifyEc, VerifyEcOutline, Calls!ecc_verify_cleanup, Over, Nothing, At, Maybe
<1> QED
  BY <1>1, <1>2, <1>3, <1>4, <1>5, <1>6, <1>7, <1>8, <1>9, <1>10, <1>11, <1>12, <1>13, <1>14, <1>15, <1>16, <1>17, <1>18, <1>19 DEF Follows

LEMMA GenerateRawFollows == Follows(Calls!GenerateRaw, GenerateRawOutline)
<1> DEFINE f == Calls!GenerateRaw
           o == GenerateRawOutline
<1>1. Leads(o[1], f[1], o[2])
  BY LeadsNew, Frees DEF Calls!GenerateRaw, GenerateRawOutline
<1>2. Leads(o[2], f[2], o[3])
  BY LeadsTry, Frees DEF Calls!GenerateRaw, GenerateRawOutline
<1>3. Leads(o[3], f[3], o[4])
  BY LeadsNew, Frees DEF Calls!GenerateRaw, GenerateRawOutline
<1>4. Leads(o[4], f[4], o[5])
  BY LeadsFree, CanFrees DEF Calls!GenerateRaw, GenerateRawOutline
<1>5. Leads(o[5], f[5], o[6])
  BY LeadsTry, Frees DEF Calls!GenerateRaw, GenerateRawOutline
<1>6. Leads(o[6], f[6], o[7])
  BY LeadsFree, CanFrees DEF Calls!GenerateRaw, GenerateRawOutline
<1>7. Len(f) = 6 /\ Len(o) = 7 /\ o[1] = Nothing /\ Over(o[7])
  BY DEF Calls!GenerateRaw, GenerateRawOutline, Over, Nothing, At, Maybe
<1> QED
  BY <1>1, <1>2, <1>3, <1>4, <1>5, <1>6, <1>7 DEF Follows

LEMMA GenerateEcFollows == Follows(Calls!GenerateEc, GenerateEcOutline)
<1> DEFINE f == Calls!GenerateEc
           o == GenerateEcOutline
<1>1. Leads(o[1], f[1], o[2])
  BY LeadsNew, Frees DEF Calls!GenerateEc, GenerateEcOutline
<1>2. Leads(o[2], f[2], o[3])
  BY LeadsTry, Frees DEF Calls!GenerateEc, GenerateEcOutline
<1>3. Leads(o[3], f[3], o[4])
  BY LeadsNew, Frees DEF Calls!GenerateEc, GenerateEcOutline
<1>4. Leads(o[4], f[4], o[5])
  BY LeadsTry, Frees DEF Calls!GenerateEc, GenerateEcOutline
<1>5. Leads(o[5], f[5], o[6])
  BY LeadsFree, CanFrees DEF Calls!GenerateEc, GenerateEcOutline
<1>6. Len(f) = 5 /\ Len(o) = 6 /\ o[1] = Nothing /\ Over(o[6])
  BY DEF Calls!GenerateEc, GenerateEcOutline, Over, Nothing, At, Maybe
<1> QED
  BY <1>1, <1>2, <1>3, <1>4, <1>5, <1>6 DEF Follows

LEMMA SignEcFollows == Follows(Calls!SignEc, SignEcOutline)
<1> DEFINE f == Calls!SignEc
           o == SignEcOutline
<1>1. Leads(o[1], f[1], o[2])
  BY LeadsNew, Frees DEF Calls!SignEc, SignEcOutline
<1>2. Leads(o[2], f[2], o[3])
  BY LeadsNew, Frees DEF Calls!SignEc, SignEcOutline
<1>3. Leads(o[3], f[3], o[4])
  BY LeadsTry, Frees DEF Calls!SignEc, SignEcOutline
<1>4. Leads(o[4], f[4], o[5])
  BY LeadsNew, Frees DEF Calls!SignEc, SignEcOutline
<1>5. Leads(o[5], f[5], o[6])
  BY LeadsTry, Frees DEF Calls!SignEc, SignEcOutline
<1>6. Leads(o[6], f[6], o[7])
  BY LeadsFree, CanFrees DEF Calls!SignEc, SignEcOutline
<1>7. Len(f) = 6 /\ Len(o) = 7 /\ o[1] = Nothing /\ Over(o[7])
  BY DEF Calls!SignEc, SignEcOutline, Over, Nothing, At, Maybe
<1> QED
  BY <1>1, <1>2, <1>3, <1>4, <1>5, <1>6, <1>7 DEF Follows

LEMMA EcdhX25519Follows == Follows(Calls!EcdhX25519, EcdhX25519Outline)
<1> DEFINE f == Calls!EcdhX25519
           o == EcdhX25519Outline
<1>1. Leads(o[1], f[1], o[2])
  BY LeadsMay DEF Calls!EcdhX25519, EcdhX25519Outline
<1>2. Leads(o[2], f[2], o[3])
  BY LeadsMay DEF Calls!EcdhX25519, EcdhX25519Outline
<1>3. Leads(o[3], f[3], o[4])
  BY LeadsCheck, Frees DEF Calls!EcdhX25519, EcdhX25519Outline
<1>4. Leads(o[4], f[4], o[5])
  BY LeadsNew, Frees DEF Calls!EcdhX25519, EcdhX25519Outline
<1>5. Leads(o[5], f[5], o[6])
  BY LeadsTry, Frees DEF Calls!EcdhX25519, EcdhX25519Outline
<1>6. Leads(o[6], f[6], o[7])
  BY LeadsFree, CanFrees DEF Calls!EcdhX25519, EcdhX25519Outline
<1>7. Len(f) = 6 /\ Len(o) = 7 /\ o[1] = Nothing /\ Over(o[7])
  BY DEF Calls!EcdhX25519, EcdhX25519Outline, Over, Nothing, At, Maybe
<1> QED
  BY <1>1, <1>2, <1>3, <1>4, <1>5, <1>6, <1>7 DEF Follows

LEMMA EcdhEcFollows == Follows(Calls!EcdhEc, EcdhEcOutline)
<1> DEFINE f == Calls!EcdhEc
           o == EcdhEcOutline
<1>1. Leads(o[1], f[1], o[2])
  BY LeadsNew, Frees DEF Calls!EcdhEc, EcdhEcOutline
<1>2. Leads(o[2], f[2], o[3])
  BY LeadsNew, Frees DEF Calls!EcdhEc, EcdhEcOutline
<1>3. Leads(o[3], f[3], o[4])
  BY LeadsNew, Frees DEF Calls!EcdhEc, EcdhEcOutline
<1>4. Leads(o[4], f[4], o[5])
  BY LeadsTry, Frees DEF Calls!EcdhEc, EcdhEcOutline
<1>5. Leads(o[5], f[5], o[6])
  BY LeadsNew, Frees DEF Calls!EcdhEc, EcdhEcOutline
<1>6. Leads(o[6], f[6], o[7])
  BY LeadsNew, Frees DEF Calls!EcdhEc, EcdhEcOutline
<1>7. Leads(o[7], f[7], o[8])
  BY LeadsNew, Frees DEF Calls!EcdhEc, EcdhEcOutline
<1>8. Leads(o[8], f[8], o[9])
  BY LeadsTry, Frees DEF Calls!EcdhEc, EcdhEcOutline
<1>9. Leads(o[9], f[9], o[10])
  BY LeadsTry, Frees DEF Calls!EcdhEc, EcdhEcOutline
<1>10. Leads(o[10], f[10], o[11])
  BY LeadsTry, Frees DEF Calls!EcdhEc, EcdhEcOutline
<1>11. Leads(o[11], f[11], o[12])
  BY LeadsFree, CanFrees DEF Calls!EcdhEc, EcdhEcOutline
<1>12. Len(f) = 11 /\ Len(o) = 12 /\ o[1] = Nothing /\ Over(o[12])
  BY DEF Calls!EcdhEc, EcdhEcOutline, Over, Nothing, At, Maybe
<1> QED
  BY <1>1, <1>2, <1>3, <1>4, <1>5, <1>6, <1>7, <1>8, <1>9, <1>10, <1>11, <1>12 DEF Follows

LEMMA OneContextFollows == Follows(Calls!OneContext, OneContextOutline)
<1> DEFINE f == Calls!OneContext
           o == OneContextOutline
<1>1. Leads(o[1], f[1], o[2])
  BY LeadsNew, Frees DEF Calls!OneContext, OneContextOutline
<1>2. Leads(o[2], f[2], o[3])
  BY LeadsTry, Frees DEF Calls!OneContext, OneContextOutline
<1>3. Leads(o[3], f[3], o[4])
  BY LeadsTry, Frees DEF Calls!OneContext, OneContextOutline
<1>4. Leads(o[4], f[4], o[5])
  BY LeadsTry, Frees DEF Calls!OneContext, OneContextOutline
<1>5. Leads(o[5], f[5], o[6])
  BY LeadsFree, CanFrees DEF Calls!OneContext, OneContextOutline
<1>6. Len(f) = 5 /\ Len(o) = 6 /\ o[1] = Nothing /\ Over(o[6])
  BY DEF Calls!OneContext, OneContextOutline, Over, Nothing, At, Maybe
<1> QED
  BY <1>1, <1>2, <1>3, <1>4, <1>5, <1>6 DEF Follows

LEMMA hw_signFollows == Follows(Calls!hw_sign, hw_signOutline)
<1> DEFINE f == Calls!hw_sign
           o == hw_signOutline
<1>1. Leads(o[1], f[1], o[2])
  BY LeadsNew, Frees DEF Calls!hw_sign, hw_signOutline
<1>2. Leads(o[2], f[2], o[3])
  BY LeadsTry, Frees DEF Calls!hw_sign, hw_signOutline
<1>3. Leads(o[3], f[3], o[4])
  BY LeadsMay DEF Calls!hw_sign, hw_signOutline
<1>4. Leads(o[4], f[4], o[5])
  BY LeadsMay DEF Calls!hw_sign, hw_signOutline
<1>5. Leads(o[5], f[5], o[6])
  BY LeadsFree, CanFrees DEF Calls!hw_sign, hw_signOutline
<1>6. Leads(o[6], f[6], o[7])
  BY LeadsCheck, Frees DEF Calls!hw_sign, hw_signOutline
<1>7. Leads(o[7], f[7], o[8])
  BY LeadsNew, Frees DEF Calls!hw_sign, hw_signOutline
<1>8. Leads(o[8], f[8], o[9])
  BY LeadsGive DEF Calls!hw_sign, hw_signOutline
<1>9. Leads(o[9], f[9], o[10])
  BY LeadsMay DEF Calls!hw_sign, hw_signOutline
<1>10. Leads(o[10], f[10], o[11])
  <2> DEFINE given == {<<"r", "ecdsa">>, <<"s", "ecdsa">>}
             sure == {"raw_sig", "ecdsa", "r", "s"}
  <2>1. /\ {q \in given : q[2] \notin {"ecdsa"}} = {}
        /\ \A z : (\E q \in given : q[2] \in {"ecdsa"} /\ z = q[1]) <=> z \in {"r", "s"}
    OBVIOUS
  <2>2. CanFree(At(sure, {"der"}, {"raw_sig"}, given), {"ecdsa"})
    BY CanFrees
  <2>3. Leads(At(sure, {"der"}, {"raw_sig"}, given), Calls!Free({"ecdsa"}), At(sure, {"der"}, {"raw_sig", "ecdsa", "r", "s"}, {}))
    BY <2>1, <2>2, LeadsFree
  <2> QED
    BY <2>3 DEF Calls!hw_sign, hw_signOutline
<1>11. Leads(o[11], f[11], o[12])
  BY LeadsCheck, Frees DEF Calls!hw_sign, hw_signOutline
<1>12. Leads(o[12], f[12], o[13])
  BY LeadsTry, Frees DEF Calls!hw_sign, hw_signOutline
<1>13. Leads(o[13], f[13], o[14])
  BY LeadsFree, CanFrees DEF Calls!hw_sign, hw_signOutline
<1>14. Len(f) = 13 /\ Len(o) = 14 /\ o[1] = Nothing /\ Over(o[14])
  BY DEF Calls!hw_sign, hw_signOutline, Over, Nothing, At, Maybe
<1> QED
  BY <1>1, <1>2, <1>3, <1>4, <1>5, <1>6, <1>7, <1>8, <1>9, <1>10, <1>11, <1>12, <1>13, <1>14 DEF Follows

LEMMA hw_verifyFollows == Follows(Calls!hw_verify, hw_verifyOutline)
<1> DEFINE f == Calls!hw_verify
           o == hw_verifyOutline
<1>1. Leads(o[1], f[1], o[2])
  BY LeadsNew, Frees DEF Calls!hw_verify, hw_verifyOutline
<1>2. Leads(o[2], f[2], o[3])
  BY LeadsTry, Frees DEF Calls!hw_verify, hw_verifyOutline
<1>3. Leads(o[3], f[3], o[4])
  BY LeadsNew, Frees DEF Calls!hw_verify, hw_verifyOutline
<1>4. Leads(o[4], f[4], o[5])
  BY LeadsTry, Frees DEF Calls!hw_verify, hw_verifyOutline
<1>5. Leads(o[5], f[5], o[6])
  BY LeadsFree, CanFrees DEF Calls!hw_verify, hw_verifyOutline
<1>6. Leads(o[6], f[6], o[7])
  BY LeadsTry, Frees DEF Calls!hw_verify, hw_verifyOutline
<1>7. Leads(o[7], f[7], o[8])
  BY LeadsFree, CanFrees DEF Calls!hw_verify, hw_verifyOutline
<1>8. Len(f) = 7 /\ Len(o) = 8 /\ o[1] = Nothing /\ Over(o[8])
  BY DEF Calls!hw_verify, hw_verifyOutline, Over, Nothing, At, Maybe
<1> QED
  BY <1>1, <1>2, <1>3, <1>4, <1>5, <1>6, <1>7, <1>8 DEF Follows

LEMMA digest_verifyFollows == Follows(Calls!digest_verify, digest_verifyOutline)
<1> DEFINE f == Calls!digest_verify
           o == digest_verifyOutline
<1>1. f = << Calls!New("pctx", {}), Calls!Try({"pctx"}, {"pctx"}),
             Calls!New("sw_pkey", {"pctx"}), Calls!Free({"pctx"}),
             Calls!New("sw_ctx", {"sw_pkey"}),
             Calls!Try({"sw_ctx", "sw_pkey"}, {"sw_ctx", "sw_pkey"}),
             Calls!Free({"sw_ctx", "sw_pkey"}) >>
  BY Joined DEF Calls!digest_verify, Calls!key_to_sw_pkey
<1> HIDE DEF f
<1>2. Leads(o[1], f[1], o[2])
  BY <1>1, LeadsNew, Frees DEF digest_verifyOutline
<1>3. Leads(o[2], f[2], o[3])
  BY <1>1, LeadsTry, Frees DEF digest_verifyOutline
<1>4. Leads(o[3], f[3], o[4])
  BY <1>1, LeadsNew, Frees DEF digest_verifyOutline
<1>5. Leads(o[4], f[4], o[5])
  BY <1>1, LeadsFree, CanFrees DEF digest_verifyOutline
<1>6. Leads(o[5], f[5], o[6])
  BY <1>1, LeadsNew, Frees DEF digest_verifyOutline
<1>7. Leads(o[6], f[6], o[7])
  BY <1>1, LeadsTry, Frees DEF digest_verifyOutline
<1>8. Leads(o[7], f[7], o[8])
  BY <1>1, LeadsFree, CanFrees DEF digest_verifyOutline
<1>9. Len(f) = 7 /\ Len(o) = 8 /\ o[1] = Nothing /\ Over(o[8])
  BY <1>1 DEF digest_verifyOutline, Over, Nothing, At, Maybe
<1> QED
  BY <1>2, <1>3, <1>4, <1>5, <1>6, <1>7, <1>8, <1>9 DEF Follows, f

\* Every function follows its outline.
LEMMA AllFollow ==
  \A f \in DOMAIN Calls!Functions : f # "none" /\ Follows(Calls!Functions[f], Outline[f])
<1> USE DEF Calls!Functions, Outline
<1>1. DOMAIN Calls!Functions = {
                        "VerifyEd25519", "VerifyEc", "GenerateRaw", "GenerateEc", "SignEd25519",
                        "SignEc", "EcdhX25519", "EcdhEc", "aes_cmac_compute",
                        "aes_cbc_enc", "aes_cbc_dec", "aes_ecb_enc",
                        "aes_ecb_dec", "hash_compute", "expand_round",
                        "hw_sign", "hw_verify", "digest_verify" }
  OBVIOUS
<1>2. \A f \in {"aes_cmac_compute", "aes_cbc_enc", "aes_cbc_dec", 
              "aes_ecb_enc", "aes_ecb_dec", "hash_compute", "expand_round"} :
        Calls!Functions[f] = Calls!OneContext /\ Outline[f] = OneContextOutline
  BY DEF Calls!aes_cmac_compute, Calls!aes_cbc_enc, Calls!aes_cbc_dec, Calls!aes_ecb_enc,
         Calls!aes_ecb_dec, Calls!hash_compute, Calls!expand_round
<1>3. Calls!Functions["SignEd25519"] = Calls!VerifyEd25519 /\ Outline["SignEd25519"] = VerifyEd25519Outline
  BY DEF Calls!SignEd25519, Calls!VerifyEd25519
<1>4. /\ Calls!Functions["VerifyEd25519"] = Calls!VerifyEd25519 /\ Outline["VerifyEd25519"] = VerifyEd25519Outline
      /\ Calls!Functions["VerifyEc"] = Calls!VerifyEc /\ Outline["VerifyEc"] = VerifyEcOutline
      /\ Calls!Functions["GenerateRaw"] = Calls!GenerateRaw /\ Outline["GenerateRaw"] = GenerateRawOutline
      /\ Calls!Functions["GenerateEc"] = Calls!GenerateEc /\ Outline["GenerateEc"] = GenerateEcOutline
      /\ Calls!Functions["SignEc"] = Calls!SignEc /\ Outline["SignEc"] = SignEcOutline
      /\ Calls!Functions["EcdhX25519"] = Calls!EcdhX25519 /\ Outline["EcdhX25519"] = EcdhX25519Outline
      /\ Calls!Functions["EcdhEc"] = Calls!EcdhEc /\ Outline["EcdhEc"] = EcdhEcOutline
      /\ Calls!Functions["hw_sign"] = Calls!hw_sign /\ Outline["hw_sign"] = hw_signOutline
      /\ Calls!Functions["hw_verify"] = Calls!hw_verify /\ Outline["hw_verify"] = hw_verifyOutline
      /\ Calls!Functions["digest_verify"] = Calls!digest_verify /\ Outline["digest_verify"] = digest_verifyOutline
  OBVIOUS
<1> QED
  BY <1>1, <1>2, <1>3, <1>4, OneContextFollows, VerifyEd25519Follows, VerifyEcFollows, GenerateRawFollows, GenerateEcFollows, SignEcFollows,
     EcdhX25519Follows, EcdhEcFollows, hw_signFollows, hw_verifyFollows, digest_verifyFollows

-----------------------------------------------------------------------------
\* What s says of the pointers, the objects and their owners.
Matches(s, ptr, live, owned) ==
    /\ s.sure \subseteq ptr /\ \A z \in ptr : Maybe(s, z)
    /\ owned = s.given
    /\ \A z : z \in live <=> (z \in ptr /\ z \notin s.gone) \/ Part(s, z)

\* Between calls nothing is left; in a call it is as the outline says.
CallsInv ==
    /\ v6 = {}
    /\ v1 = "none" => v4 = {} /\ v5 = {}
    /\ v1 # "none" =>
          /\ v1 \in DOMAIN Calls!Functions /\ v2 \in 1 .. Len(Calls!Functions[v1]) + 1
          /\ Matches(Outline[v1][v2], v3, v4, v5)

callsvars == <<v1, v2, v3, v4, v5, v6>>

\* Freeing what can be freed frees it and what it owns, and nothing twice.
LEMMA FreeingIsSound ==
  ASSUME NEW s, NEW xs, Matches(s, v3, v4, v5), CanFree(s, xs), v6 = {}, Calls!Freeing(xs)
  PROVE  /\ v6' = {}
         /\ v5' = {o \in s.given : o[2] \notin xs}
         /\ \A z : z \in v4' <=>
                      \/ z \in v3 /\ z \notin s.gone /\ z \notin xs
                            /\ ~\E o \in s.given : o[2] \in xs /\ o[1] = z
                      \/ \E o \in s.given : o[2] \notin xs /\ o[1] = z
<1> DEFINE freed == xs \cap v3
           with == {o \in v5 : o[2] \in freed}
<1>1. /\ v4' = v4 \ (freed \cup {o[1] : o \in with})
      /\ v5' = v5 \ with
      /\ freed \subseteq v4 /\ (\A o \in with : o[1] \notin freed) => v6' = v6
  BY DEF Calls!Freeing
<1>2. \A o \in s.given : o \in with <=> o[2] \in xs
  BY DEF Matches, CanFree
<1>3. \A z \in freed : z \in v4 /\ z \notin s.gone
  BY DEF Matches, CanFree
<1>4. \A o \in s.given : o[1] \notin freed
  BY DEF Matches, CanFree
<1>5. v6' = {}
  BY <1>1, <1>3, <1>4 DEF Matches
<1>6. v5' = {o \in s.given : o[2] \notin xs}
  BY <1>1, <1>2 DEF Matches
<1>7. \A z : z \in v4' <=> z \in v4 /\ z \notin freed /\ ~\E o \in s.given : o[2] \in xs /\ o[1] = z
  BY <1>1, <1>2 DEF Matches
<1>8. ASSUME NEW z
      PROVE  z \in v4' <=>
                \/ z \in v3 /\ z \notin s.gone /\ z \notin xs
                      /\ ~\E o \in s.given : o[2] \in xs /\ o[1] = z
                \/ \E o \in s.given : o[2] \notin xs /\ o[1] = z
  <2>1. z \in v4 <=> (z \in v3 /\ z \notin s.gone) \/ \E o \in s.given : o[1] = z
    BY DEF Matches, Part
  <2>2. (\E o \in s.given : o[2] \notin xs /\ o[1] = z) =>
           z \notin freed /\ ~\E o \in s.given : o[2] \in xs /\ o[1] = z
    BY <1>4 DEF CanFree
  <2> QED
    BY <1>7, <2>1, <2>2
<1> QED
  BY <1>5, <1>6, <1>8

\* A function that fails after it has freed all leaves nothing behind.
LEMMA FailIsSound ==
  ASSUME NEW s, NEW xs, NEW null, Matches(s, v3, v4, v5), FreesAll(s, xs, null), ~(null \subseteq v3) \/ null = {},
         v6 = {}, Calls!Freeing(xs)
  PROVE  v6' = {} /\ v4' = {} /\ v5' = {}
<1>1. CanFree(s, xs)
  BY DEF FreesAll
<1>2. /\ v6' = {}
      /\ v5' = {o \in s.given : o[2] \notin xs}
      /\ \A z : z \in v4' <=>
                   \/ z \in v3 /\ z \notin s.gone /\ z \notin xs
                         /\ ~\E o \in s.given : o[2] \in xs /\ o[1] = z
                   \/ \E o \in s.given : o[2] \notin xs /\ o[1] = z
  BY <1>1, FreeingIsSound
<1>3. v5' = {}
  BY <1>2 DEF FreesAll
<1>4. ASSUME NEW z \in v4' PROVE FALSE
  <2>1. \A o \in s.given : o[2] \in xs
    BY DEF FreesAll
  <2>2. z \in v3 /\ z \notin s.gone /\ z \notin xs /\ ~\E o \in s.given : o[1] = z
    BY <1>2, <1>4, <2>1
  <2>3. Maybe(s, z)
    BY <2>2 DEF Matches
  <2>4. null = {z}
    BY <2>2, <2>3 DEF FreesAll, Part
  <2> QED
    BY <2>2, <2>4
<1> QED
  BY <1>2, <1>3, <1>4

LEMMA CallsInitially == ASSUME Calls!Init PROVE CallsInv
  BY DEF Calls!Init, CallsInv

LEMMA FirstOfPairs ==
  ASSUME NEW xs, NEW y
  PROVE  \A z : (\E o \in xs \X {y} : o[1] = z) <=> z \in xs
<1>1. ASSUME NEW z \in xs PROVE <<z, y>> \in xs \X {y} /\ <<z, y>>[1] = z
  OBVIOUS
<1>2. ASSUME NEW o \in xs \X {y} PROVE o[1] \in xs
  OBVIOUS
<1> QED
  BY <1>1, <1>2

LEMMA CallsStep == ASSUME CallsInv, [Calls!Next]_callsvars PROVE CallsInv'
<1> DEFINE f == Calls!Functions[v1]
           s == Outline[v1][v2]
           t == Outline[v1][v2 + 1]
           x == f[v2].x
           err == f[v2].err
<1>1. CASE UNCHANGED callsvars
  BY <1>1 DEF callsvars, CallsInv, Matches
<1>2. ASSUME NEW g \in DOMAIN Calls!Functions, Calls!Call(g) PROVE CallsInv'
  <2>1. Outline[g][1] = Nothing /\ Len(Calls!Functions[g]) \in Nat /\ g # "none"
    BY AllFollow DEF Follows
  <2>2. v1' = g /\ v2' = 1 /\ v3' = {} /\ v4' = {} /\ v5' = {} /\ v6' = {}
    BY <1>2 DEF Calls!Call, CallsInv
  <2>3. Matches(Nothing, v3', v4', v5')
    BY <2>2 DEF Matches, Nothing, At, Maybe, Part
  <2> QED
    BY <2>1, <2>2, <2>3 DEF CallsInv, Matches
<1>3. ASSUME v1 # "none", v2 <= Len(f)
      PROVE  /\ v1 \in DOMAIN Calls!Functions /\ v2 \in 1 .. Len(f) /\ Len(f) \in Nat
             /\ v2 + 1 \in 1 .. Len(f) + 1
             /\ Matches(s, v3, v4, v5) /\ Leads(s, f[v2], t) /\ v6 = {}
  BY <1>3, AllFollow DEF CallsInv, Follows
<1>4. ASSUME v1 # "none", v2 <= Len(f), Calls!GoOn, v6' = {}, Matches(t, v3', v4', v5') PROVE CallsInv'
  <2>1. v1' = v1 /\ v2' = v2 + 1
    BY <1>4 DEF Calls!GoOn
  <2>2. Matches(Outline[v1'][v2'], v3', v4', v5')
    BY <1>4, <2>1 DEF Matches
  <2> QED
    BY <1>3, <1>4, <2>1, <2>2 DEF CallsInv
<1>5. ASSUME v1 # "none", v2 <= Len(f), Calls!Fail, NEW null, FreesAll(s, err, null),
             ~(null \subseteq v3) \/ null = {}
      PROVE  CallsInv'
  <2>1. Calls!Freeing(err) /\ v1' = "none"
    BY <1>5 DEF Calls!Fail, Calls!Return, Calls!Step
  <2>2. v6' = {} /\ v4' = {} /\ v5' = {}
    BY <1>3, <1>5, <2>1, FailIsSound
  <2> QED
    BY <2>1, <2>2 DEF CallsInv
<1>6. CASE Calls!Allocate
  <2>1. /\ v1 # "none" /\ v2 <= Len(f) /\ f[v2].op \in {"new", "may"}
        /\ v3' = v3 \cup x /\ v4' = v4 \cup x /\ v5' = v5 /\ v6' = v6 /\ Calls!GoOn
    BY <1>6 DEF Calls!Allocate, Calls!Current, Calls!Step
  <2>2. /\ IsNew(s, x) /\ t.gone = s.gone /\ t.given = s.given
        /\ \/ t.sure = s.sure \cup x /\ t.may = s.may
           \/ t.sure = s.sure /\ t.may = s.may \cup x
    BY <1>3, <2>1 DEF Leads
  <2>3. Matches(t, v3', v4', v5')
    BY <1>3, <2>1, <2>2 DEF Matches, Maybe, Part, IsNew
  <2> QED
    BY <1>3, <1>4, <2>1, <2>3
<1>7. CASE Calls!Current("new") /\ Calls!Fail
  <2>1. v1 # "none" /\ v2 <= Len(f) /\ f[v2].op = "new"
    BY <1>7 DEF Calls!Current
  <2>2. FreesAll(s, err, {})
    BY <1>3, <2>1 DEF Leads
  <2> QED
    BY <1>5, <1>7, <2>1, <2>2
<1>8. CASE Calls!Current("may") /\ Calls!GoOn /\ UNCHANGED <<v3, v4, v5, v6>>
  <2>1. v1 # "none" /\ v2 <= Len(f) /\ f[v2].op = "may"
    BY <1>8 DEF Calls!Current
  <2>2. t.sure = s.sure /\ t.may = s.may \cup x /\ t.gone = s.gone /\ t.given = s.given
    BY <1>3, <2>1 DEF Leads
  <2>3. Matches(t, v3', v4', v5')
    BY <1>3, <1>8, <2>1, <2>2 DEF Matches, Maybe, Part
  <2> QED
    BY <1>3, <1>4, <1>8, <2>1, <2>3
<1>9. CASE Calls!Succeed
  <2>1. /\ v1 # "none" /\ v2 <= Len(f) /\ f[v2].op = "try"
        /\ Calls!Using(x) /\ v3' = v3 /\ v4' = v4 /\ v5' = v5 /\ Calls!GoOn
    BY <1>9 DEF Calls!Succeed, Calls!Current, Calls!Step
  <2>2. CanUse(s, x) /\ t = s
    BY <1>3, <2>1 DEF Leads
  <2>3. x \subseteq v3 /\ x \subseteq v4
    BY <1>3, <2>1, <2>2 DEF CanUse, Matches
  <2>4. v6' = {}
    BY <1>3, <2>1, <2>3 DEF Calls!Using
  <2>5. Matches(t, v3', v4', v5')
    BY <1>3, <2>1, <2>2 DEF Matches, Maybe, Part
  <2> QED
    BY <1>4, <2>1, <2>4, <2>5
<1>10. CASE Calls!GoWrong
  <2>1. v1 # "none" /\ v2 <= Len(f) /\ f[v2].op = "try" /\ Calls!Fail
    BY <1>10 DEF Calls!GoWrong, Calls!Current
  <2>2. FreesAll(s, err, {})
    BY <1>3, <2>1 DEF Leads
  <2> QED
    BY <1>5, <2>1, <2>2
<1>11. CASE Calls!Look
  <2>1. /\ v1 # "none" /\ v2 <= Len(f) /\ f[v2].op = "check"
        /\ \/ x \subseteq v3 /\ Calls!GoOn /\ UNCHANGED <<v3, v4, v5, v6>>
           \/ ~(x \subseteq v3) /\ Calls!Fail
    BY <1>11 DEF Calls!Look, Calls!Current, Calls!Step
  <2>2. /\ FreesAll(s, err, x)
        /\ t.sure = s.sure \cup x /\ t.may = s.may \ x /\ t.gone = s.gone /\ t.given = s.given
    BY <1>3, <2>1 DEF Leads
  <2>3. CASE ~(x \subseteq v3) /\ Calls!Fail
    BY <1>5, <2>1, <2>2, <2>3
  <2>4. CASE x \subseteq v3 /\ Calls!GoOn /\ UNCHANGED <<v3, v4, v5, v6>>
    <3>1. Matches(t, v3', v4', v5')
      BY <1>3, <2>1, <2>2, <2>4 DEF Matches, Maybe, Part
    <3> QED
      BY <1>3, <1>4, <2>1, <2>4, <3>1
  <2> QED
    BY <2>1, <2>3, <2>4
<1>12. CASE Calls!Release
  <2>1. /\ v1 # "none" /\ v2 <= Len(f) /\ f[v2].op = "free"
        /\ Calls!Freeing(x) /\ v3' = v3 /\ Calls!GoOn
    BY <1>12 DEF Calls!Release, Calls!Current, Calls!Step
  <2> DEFINE with == {o \in s.given : o[2] \in x}
  <2>2. /\ CanFree(s, x) /\ t.sure = s.sure /\ t.may = s.may
        /\ t.gone = s.gone \cup x \cup {o[1] : o \in with} /\ t.given = s.given \ with
    BY <1>3, <2>1 DEF Leads
  <2>3. /\ v6' = {}
        /\ v5' = {o \in s.given : o[2] \notin x}
        /\ \A z : z \in v4' <=>
                     \/ z \in v3 /\ z \notin s.gone /\ z \notin x
                           /\ ~\E o \in s.given : o[2] \in x /\ o[1] = z
                     \/ \E o \in s.given : o[2] \notin x /\ o[1] = z
    BY <1>3, <2>1, <2>2, FreeingIsSound
  <2>4. v5' = t.given
    BY <2>2, <2>3
  <2>5. \A z : /\ z \in t.gone <=> z \in s.gone \/ z \in x \/ \E o \in s.given : o[2] \in x /\ o[1] = z
               /\ Part(t, z) <=> \E o \in s.given : o[2] \notin x /\ o[1] = z
    BY <2>2 DEF Part
  <2>6. \A z : z \in v4' <=> (z \in v3 /\ z \notin t.gone) \/ Part(t, z)
    BY <2>3, <2>5
  <2>7. Matches(t, v3', v4', v5')
    BY <1>3, <2>1, <2>2, <2>4, <2>6 DEF Matches, Maybe, Part
  <2> QED
    BY <1>4, <2>1, <2>3, <2>7
<1>13. CASE Calls!HandOver
  <2> DEFINE y == f[v2].y
  <2>1. /\ v1 # "none" /\ v2 <= Len(f) /\ f[v2].op = "give"
        /\ v5' = v5 \cup (x \X {y}) /\ Calls!Using(x \cup {y}) /\ v3' = v3 /\ v4' = v4 /\ Calls!GoOn
    BY <1>13 DEF Calls!HandOver, Calls!Current, Calls!Step
  <2>2. /\ CanUse(s, x \cup {y}) /\ t.sure = s.sure /\ t.may = s.may /\ t.gone = s.gone
        /\ t.given = s.given \cup (x \X {y})
    BY <1>3, <2>1 DEF Leads
  <2>3. x \cup {y} \subseteq v3 /\ x \cup {y} \subseteq v4
    BY <1>3, <2>1, <2>2 DEF CanUse, Matches
  <2>4. v6' = {}
    BY <1>3, <2>1, <2>3 DEF Calls!Using
  <2>5. \A z : Part(t, z) <=> Part(s, z) \/ z \in x
    <3>1. \A z : (\E o \in x \X {y} : o[1] = z) <=> z \in x
      <4> HIDE DEF x, y
      <4> QED
        BY FirstOfPairs
    <3> QED
      BY <2>2, <3>1 DEF Part
  <2>6. \A z \in x : z \in v3 /\ z \notin s.gone
    BY <1>3, <2>1, <2>2 DEF CanUse, Matches
  <2>7. \A z : z \in v4' <=> (z \in v3 /\ z \notin t.gone) \/ Part(t, z)
    BY <1>3, <2>1, <2>2, <2>5, <2>6 DEF Matches
  <2>8. Matches(t, v3', v4', v5')
    BY <1>3, <2>1, <2>2, <2>7 DEF Matches, Maybe, Part
  <2> QED
    BY <1>4, <2>1, <2>4, <2>8
<1>14. CASE Calls!Clear
  <2>1. /\ v1 # "none" /\ v2 <= Len(f) /\ f[v2].op = "null"
        /\ v3' = v3 \ x /\ v4' = v4 /\ v5' = v5 /\ v6' = v6 /\ Calls!GoOn
    BY <1>14 DEF Calls!Clear, Calls!Current, Calls!Step
  <2>2. /\ \A z \in x : Maybe(s, z) => z \in s.gone \/ Part(s, z)
        /\ t.sure = s.sure \ x /\ t.may = s.may \ x /\ t.gone = s.gone /\ t.given = s.given
    BY <1>3, <2>1 DEF Leads
  <2>3. Matches(t, v3', v4', v5')
    BY <1>3, <2>1, <2>2 DEF Matches, Maybe, Part
  <2> QED
    BY <1>3, <1>4, <2>1, <2>3
<1>15. CASE Calls!Leave
  <2>1. v1 # "none" /\ v2 > Len(f) /\ v1' = "none" /\ UNCHANGED <<v4, v5, v6>>
    BY <1>15 DEF Calls!Leave, Calls!Return
  <2>2. v1 \in DOMAIN Calls!Functions /\ v2 \in 1 .. Len(f) + 1 /\ Len(f) \in Nat /\ Over(Outline[v1][Len(f) + 1])
    BY <2>1, AllFollow DEF CallsInv, Follows
  <2>3. v2 = Len(f) + 1
    BY <2>1, <2>2
  <2>4. Matches(s, v3, v4, v5) /\ Over(s) /\ v6 = {}
    BY <2>1, <2>2, <2>3 DEF CallsInv
  <2>5. v4 = {} /\ v5 = {}
    BY <2>4 DEF Matches, Over, Part
  <2> QED
    BY <2>1, <2>4, <2>5 DEF CallsInv
<1> QED
  BY <1>1, <1>2, <1>6, <1>7, <1>8, <1>9, <1>10, <1>11, <1>12, <1>13, <1>14, <1>15
  DEF Calls!Next, Calls!NoMemory

-----------------------------------------------------------------------------
(* The demonstration. *)

Quiet == \A w \in demo.Worker : v9[w] = "none"

\* What the text and the flag say is what the device asked last has proved.
Verdict ==
    /\ v6 = v7.passed /\ v11.passed = v7.passed
    /\ v7.bus = v5 /\ v11.bus \in {v5, demo.NoBus}

\* What has been written when a worker is at p.
Written(p) ==
    /\ p \in {"text", "handler", "authenticate", "passed", "success"} => v6 = FALSE
    /\ p \in {"handler", "authenticate", "passed"} => v7 = [bus |-> v5, passed |-> FALSE]
    /\ p = "authenticate" => v8 = v5
    /\ p \in {"passed", "success"} => v11 = [bus |-> v5, passed |-> TRUE]
    /\ p = "success" => v7 = [bus |-> v5, passed |-> TRUE]
    /\ p = "end" => Verdict

\* The button is on only while no worker runs and no callback is queued, and there
\* is at most one of them: no two steps write the state or read it together.
DemoInv ==
    /\ Demo!TypeOK /\ Demo!ShowsTheVerdict
    /\ v2 => Quiet /\ v10 = 0
    /\ ~v2 => v3 = "Authenticating..."
    /\ \A w, u \in demo.Worker : v9[w] # "none" /\ v9[u] # "none" => w = u
    /\ ~Quiet => v10 = 0
    /\ v10 = 1 => Verdict
    /\ \A w \in demo.Worker : Written(v9[w])

demovars == <<v1, v2, v3, v4, v5, v6, v7, v8, v9, v10, v11>>

WorkerAt == {"none", "reset", "text", "handler", "authenticate", "passed", "success", "end"}
Text == [bus : demo.Bus \cup {demo.NoBus}, passed : BOOLEAN]

LEMMA TextIsText ==
  ASSUME NEW bus \in demo.Bus, NEW passed \in BOOLEAN
  PROVE  [bus |-> bus, passed |-> passed] \in Text /\ Demo!NoText \in Text /\ Demo!NoText.passed = FALSE
         /\ Demo!NoText.bus = demo.NoBus
  BY DEF Text, Demo!NoText

LEMMA DemoInitially == ASSUME Demo!Init PROVE DemoInv
<1>1. v5 \in demo.Bus /\ Demo!NoText \in Text
  BY TextIsText DEF Demo!Init
<1>2. Demo!TypeOK
  BY <1>1 DEF Demo!Init, Demo!TypeOK, Text
<1> QED
  BY <1>2 DEF Demo!Init, DemoInv, Demo!ShowsTheVerdict, Quiet, Written

\* A worker's step leaves the window and the button alone, and the other workers
\* where they are.
LEMMA OneWorker ==
  ASSUME DemoInv, NEW w \in demo.Worker, NEW from, NEW to, Demo!Go(w, from, to),
         from # "none", v2' = v2, v3' = v3, v4' = v4, v5' = v5,
         to \in WorkerAt
  PROVE  /\ v2 = FALSE /\ v3 = "Authenticating..." /\ v10 = 0
         /\ \A u \in demo.Worker : u # w => v9[u] = "none" /\ v9'[u] = "none"
         /\ v9[w] = from /\ v9'[w] = to
         /\ v9' \in [demo.Worker -> WorkerAt]
<1>1. v9[w] = from /\ v9' = [v9 EXCEPT ![w] = to]
  BY DEF Demo!Go
<1>2. ~Quiet
  BY <1>1 DEF Quiet
<1>3. v2 = FALSE /\ v3 = "Authenticating..." /\ v10 = 0
  BY <1>2 DEF DemoInv, Demo!TypeOK
<1>4. \A u \in demo.Worker : u # w => v9[u] = "none"
  BY <1>1 DEF DemoInv
<1> QED
  BY <1>1, <1>3, <1>4 DEF DemoInv, Demo!TypeOK, WorkerAt

\* So it keeps the invariant if it writes what it must, with the types it must.
LEMMA WorkerKeeps ==
  ASSUME DemoInv, NEW w \in demo.Worker, NEW from, NEW to, Demo!Go(w, from, to),
         from # "none", v1' = v1, v2' = v2, v3' = v3, v4' = v4, v5' = v5,
         to \in WorkerAt,
         v6' \in BOOLEAN, v8' \in demo.Bus \cup {demo.NoBus},
         v7' \in Text,
         v11' \in Text,
         v10' = (IF to = "none" THEN v10 + 1 ELSE v10),
         Written(to)', to = "none" => Verdict'
  PROVE  DemoInv'
<1>1. /\ v2 = FALSE /\ v3 = "Authenticating..." /\ v10 = 0
      /\ \A u \in demo.Worker : u # w => v9[u] = "none" /\ v9'[u] = "none"
      /\ v9[w] = from /\ v9'[w] = to
      /\ v9' \in [demo.Worker -> WorkerAt]
  BY OneWorker
<1>2. Demo!TypeOK' /\ Demo!ShowsTheVerdict'
  BY <1>1 DEF DemoInv, Demo!TypeOK, Demo!ShowsTheVerdict, WorkerAt, Text
<1>3. \A u \in demo.Worker : Written(v9[u])'
  <2>1. \A u \in demo.Worker : v9'[u] = to \/ v9'[u] = "none"
    BY <1>1
  <2>2. Written("none")'
    BY DEF Written
  <2> QED
    BY <2>1, <2>2 DEF Written
<1>4. Quiet' \/ v10' = 0
  BY <1>1 DEF Quiet
<1>5. v10' = 1 => Verdict'
  BY <1>1
<1> QED
  BY <1>1, <1>2, <1>3, <1>4, <1>5 DEF DemoInv

LEMMA WorkerStep == ASSUME DemoInv, NEW w \in demo.Worker, Demo!auth_worker_thread(w) PROVE DemoInv'
<1> USE DEF WorkerAt
<1>0. /\ v5 \in demo.Bus /\ v6 \in BOOLEAN /\ v7 \in Text /\ v11 \in Text
      /\ v8 \in demo.Bus \cup {demo.NoBus} /\ Written(v9[w])
      /\ \A passed \in BOOLEAN : [bus |-> v5, passed |-> passed] \in Text
  BY TextIsText DEF DemoInv, Demo!TypeOK, Text
<1>1. CASE Demo!Reset(w)
  <2>1. Demo!Go(w, "reset", "text") /\ UNCHANGED <<v1, v2, v3, v4, v5, v7, v8, v10, v11>> /\ v6' = FALSE
    BY <1>1 DEF Demo!Reset
  <2>2. Written("text")'
    BY <2>1 DEF Written
  <2> QED
    BY <2>1, <2>2, <1>0, WorkerKeeps
<1>2. CASE Demo!Text(w)
  <2>1. /\ Demo!Go(w, "text", "handler") /\ v9[w] = "text" /\ UNCHANGED <<v1, v2, v3, v4, v5, v6, v8, v10, v11>>
        /\ v7' = [bus |-> v5, passed |-> FALSE]
    BY <1>2 DEF Demo!Text, Demo!Go
  <2>2. Written("handler")'
    BY <2>1, <1>0 DEF Written
  <2> QED
    BY <2>1, <2>2, <1>0, WorkerKeeps
<1>3. CASE Demo!Handler(w)
  <2>1. /\ v9[w] = "handler" /\ v11' = Demo!NoText /\ UNCHANGED <<v1, v2, v3, v4, v5, v6, v7, v10>>
        /\ v6 = FALSE /\ v7 = [bus |-> v5, passed |-> FALSE] /\ v11' \in Text
    BY <1>0, <1>3, TextIsText DEF Demo!Handler, Demo!Go, Written
  <2>2. CASE Demo!Go(w, "handler", "authenticate") /\ v8' = v5
    <3>1. Written("authenticate")'
      BY <2>1, <2>2 DEF Written
    <3> QED
      BY <2>1, <2>2, <3>1, <1>0, WorkerKeeps
  <2>3. CASE Demo!Go(w, "handler", "end") /\ UNCHANGED v8
    <3>1. Written("end")'
      BY <2>1, <2>3, TextIsText, <1>0 DEF Written, Verdict
    <3> QED
      BY <2>1, <2>3, <3>1, <1>0, WorkerKeeps
  <2> QED
    BY <1>3, <2>2, <2>3 DEF Demo!Handler
<1>4. CASE Demo!Authenticate(w)
  <2>1. PICK passed \in BOOLEAN :
          /\ Demo!Go(w, "authenticate", IF passed THEN "passed" ELSE "end")
          /\ v11' = [bus |-> v8, passed |-> passed]
    BY <1>4 DEF Demo!Authenticate
  <2>2. /\ v9[w] = "authenticate" /\ UNCHANGED <<v1, v2, v3, v4, v5, v6, v7, v8, v10>>
        /\ v6 = FALSE /\ v7 = [bus |-> v5, passed |-> FALSE] /\ v8 = v5 /\ v11' \in Text
    BY <1>0, <1>4, <2>1 DEF Demo!Authenticate, Demo!Go, Written
  <2>3. CASE passed = TRUE
    <3>1. Written("passed")' /\ Demo!Go(w, "authenticate", "passed")
      BY <2>1, <2>2, <2>3 DEF Written
    <3> QED
      BY <2>2, <3>1, <1>0, WorkerKeeps
  <2>4. CASE passed = FALSE
    <3>1. Written("end")' /\ Demo!Go(w, "authenticate", "end")
      BY <2>1, <2>2, <2>4 DEF Written, Verdict
    <3> QED
      BY <2>2, <3>1, <1>0, WorkerKeeps
  <2> QED
    BY <2>3, <2>4
<1>5. CASE Demo!Passed(w)
  <2>1. /\ Demo!Go(w, "passed", "success") /\ v9[w] = "passed" /\ UNCHANGED <<v1, v2, v3, v4, v5, v6, v8, v10, v11>>
        /\ v6 = FALSE /\ v11 = [bus |-> v5, passed |-> TRUE] /\ v7 = [bus |-> v5, passed |-> FALSE]
        /\ v7' = [v7 EXCEPT !.passed = TRUE]
    BY <1>0, <1>5 DEF Demo!Passed, Demo!Go, Written
  <2>2. v7' = [bus |-> v5, passed |-> TRUE]
    BY <2>1
  <2>3. Written("success")'
    BY <2>1, <2>2 DEF Written
  <2> QED
    BY <2>1, <2>2, <2>3, <1>0, WorkerKeeps
<1>6. CASE Demo!Success(w)
  <2>1. /\ Demo!Go(w, "success", "end") /\ v9[w] = "success" /\ UNCHANGED <<v1, v2, v3, v4, v5, v7, v8, v10, v11>>
        /\ v6' = TRUE /\ v11 = [bus |-> v5, passed |-> TRUE] /\ v7 = [bus |-> v5, passed |-> TRUE]
    BY <1>0, <1>6 DEF Demo!Success, Demo!Go, Written
  <2>2. Written("end")'
    BY <2>1 DEF Written, Verdict
  <2> QED
    BY <2>1, <2>2, <1>0, WorkerKeeps
<1>7. CASE Demo!End(w)
  <2>1. /\ Demo!Go(w, "end", "none") /\ v9[w] = "end" /\ UNCHANGED <<v1, v2, v3, v4, v5, v6, v7, v8, v11>>
        /\ v10' = v10 + 1 /\ Verdict
    BY <1>0, <1>7 DEF Demo!End, Demo!Go, Written
  <2>2. Written("none")' /\ Verdict'
    BY <2>1 DEF Written, Verdict
  <2> QED
    BY <2>1, <2>2, <1>0, WorkerKeeps
<1> QED
  BY <1>1, <1>2, <1>3, <1>4, <1>5, <1>6, <1>7 DEF Demo!auth_worker_thread

LEMMA DemoStep == ASSUME DemoInv, [Demo!Next]_demovars PROVE DemoInv'
<1>1. CASE UNCHANGED demovars
  BY <1>1 DEF demovars, DemoInv, Demo!TypeOK, Demo!ShowsTheVerdict, Quiet, Verdict, Written
<1>2. ASSUME NEW bus \in demo.Bus, Demo!on_authenticate_clicked(bus) PROVE DemoInv'
  <2>1. Quiet /\ v10 = 0 /\ v10' = 0 /\ v2' = FALSE /\ v3' = "Authenticating..."
    BY <1>2 DEF Demo!on_authenticate_clicked, DemoInv
  <2>2. Demo!TypeOK'
    <3>1. v4' \in Text
      BY <1>2, TextIsText DEF Demo!on_authenticate_clicked
    <3>2. v9' \in [demo.Worker -> WorkerAt]
      BY <1>2 DEF Demo!on_authenticate_clicked, DemoInv, Demo!TypeOK, Demo!Go, WorkerAt
    <3> QED
      BY <1>2, <2>1, <3>1, <3>2 DEF Demo!on_authenticate_clicked, DemoInv, Demo!TypeOK, Text, WorkerAt
  <2>3. /\ \A w, u \in demo.Worker : v9'[w] # "none" /\ v9'[u] # "none" => w = u
        /\ \A w \in demo.Worker : v9'[w] \in {"none", "reset"}
    BY <1>2, <2>1 DEF Demo!on_authenticate_clicked, DemoInv, Demo!TypeOK, Demo!Go, Quiet
  <2> QED
    BY <2>1, <2>2, <2>3 DEF DemoInv, Demo!ShowsTheVerdict, Written
<1>3. CASE Demo!update_ui_idle
  <2>1. /\ v10 = 1 /\ v10' = 0 /\ Verdict /\ Quiet
        /\ v2' = TRUE /\ v4' = v7 /\ v3' = (IF v6 THEN "PASS" ELSE "FAIL")
        /\ UNCHANGED <<v1, v5, v6, v7, v8, v9, v11>>
    BY <1>3 DEF Demo!update_ui_idle, DemoInv, Demo!TypeOK
  <2>2. Demo!TypeOK'
    BY <2>1 DEF DemoInv, Demo!TypeOK
  <2>3. Demo!ShowsTheVerdict'
    BY <2>1 DEF Demo!ShowsTheVerdict, Verdict, DemoInv, Demo!TypeOK
  <2> QED
    BY <2>1, <2>2, <2>3 DEF DemoInv, Quiet, Written
<1>4. CASE Demo!Close
  BY <1>4 DEF Demo!Close, DemoInv, Demo!TypeOK, Demo!ShowsTheVerdict, Quiet, Verdict, Written
<1>5. ASSUME NEW w \in demo.Worker, Demo!auth_worker_thread(w) PROVE DemoInv'
  BY <1>5, WorkerStep
<1> QED
  BY <1>1, <1>2, <1>3, <1>4, <1>5 DEF Demo!Next

-----------------------------------------------------------------------------
(* The parts together: a step is one of the part a behaviour is about, and   *)
(* leaves the variables of the others as they are.                            *)

PartsInv ==
    /\ HkdfInv
    /\ part = "cmac"    => CmacInv
    /\ part = "crc"     => CrcInv
    /\ part = "timeout" => TimeoutInv
    /\ part = "format"  => FormatInv
    /\ part = "calls"   => CallsInv
    /\ part = "demo"    => DemoInv

LEMMA PartsInitially == PartsAssumption /\ PartsInit => PartsInv
<1> SUFFICES ASSUME PartsAssumption, PartsInit PROVE PartsInv
  OBVIOUS
<1>1. HkdfInv
  BY HkdfInitially DEF PartsInit, PartsAssumption
<1>2. CASE part = "hkdf"
  BY <1>1, <1>2 DEF PartsInv
<1>3. CASE part = "cmac" /\ Cmac!Init
  BY <1>1, <1>3, CmacInitially DEF PartsInv, PartsAssumption
<1>4. CASE part = "crc" /\ Crc!Init
  BY <1>1, <1>4, CrcInitially DEF PartsInv, PartsAssumption
<1>5. CASE part = "timeout" /\ Timeout!Init
  BY <1>1, <1>5, TimeoutInitially DEF PartsInv, PartsAssumption
<1>6. CASE part = "format" /\ Format!Init
  BY <1>1, <1>6, FormatInitially DEF PartsInv, PartsAssumption
<1>7. CASE part = "calls" /\ Calls!Init
  BY <1>1, <1>7, CallsInitially DEF PartsInv
<1>8. CASE part = "demo" /\ Demo!Init
  BY <1>1, <1>8, DemoInitially DEF PartsInv
<1> QED
  BY <1>2, <1>3, <1>4, <1>5, <1>6, <1>7, <1>8 DEF PartsInit

LEMMA PartsSteps ==
  ASSUME [PartsNext]_all
  PROVE  /\ part' = part
         /\ [Next]_vars
         /\ part = "cmac"    => [Cmac!Next]_cmacvars
         /\ part = "crc"     => [Crc!Next]_crcvars
         /\ part = "timeout" => [Timeout!Next]_<<v1, v2, v3>>
         /\ part = "format"  => [Format!Next]_<<v1, v2, v3, v4>>
         /\ part = "calls"   => [Calls!Next]_callsvars
         /\ part = "demo"    => [Demo!Next]_demovars
<1>1. CASE UNCHANGED all
  BY <1>1 DEF all, others, cmacvars, crcvars, callsvars, demovars
<1>2. CASE PartsNext
  BY <1>2 DEF PartsNext
<1> QED
  BY <1>1, <1>2

LEMMA PartsStep == PartsAssumption /\ PartsInv /\ [PartsNext]_all => PartsInv'
<1> SUFFICES ASSUME PartsAssumption, PartsInv, [PartsNext]_all PROVE PartsInv'
  OBVIOUS
<1>1. part' = part /\ HkdfInv'
  BY PartsSteps, HkdfStep DEF PartsInv
<1>2. part = "cmac" => CmacInv'
  BY PartsSteps, CmacStep DEF PartsInv, PartsAssumption
<1>3. part = "crc" => CrcInv'
  BY PartsSteps, CrcStep DEF PartsInv, PartsAssumption
<1>4. part = "timeout" => TimeoutInv'
  BY PartsSteps, TimeoutStep DEF PartsInv, PartsAssumption
<1>5. part = "format" => FormatInv'
  BY PartsSteps, FormatStep DEF PartsInv
<1>6. part = "calls" => CallsInv'
  BY PartsSteps, CallsStep DEF PartsInv
<1>7. part = "demo" => DemoInv'
  BY PartsSteps, DemoStep DEF PartsInv
<1> QED
  BY <1>1, <1>2, <1>3, <1>4, <1>5, <1>6, <1>7 DEF PartsInv

LEMMA PartsInductive == PartsSpec => []PartsInv
<1>1. PartsInit => PartsInv
  BY PartsAreAssumed, PartsInitially
<1>2. PartsInv /\ [PartsNext]_all => PartsInv'
  BY PartsAreAssumed, PartsStep
<1> QED
  BY <1>1, <1>2, PTL DEF PartsSpec

(* Every variable of every part has its type: the fraction of a deadline is below a  *)
(* second, the index and the counter of HKDF keep their widths, and the              *)
(* demonstration never has two callbacks queued.                                      *)
THEOREM TypesAlways == PartsSpec => []TypesOK
<1>1. PartsInv => TypesOK
  BY PartsAreAssumed, CmacImplies DEF PartsInv, PartsAssumption, TypesOK, HkdfInv, CrcInv, TimeoutInv, DemoInv
<1> QED
  BY <1>1, PartsInductive, PTL

(* A careful caller gets the tag of the key of its last init and all it has appended  *)
(* since, of the length it asked for, whichever calls of it or of others failed.      *)
THEOREM TagOfWhatWasAskedAlways == PartsSpec => []TagOfWhatWasAsked
<1>1. PartsInv => TagOfWhatWasAsked
  BY PartsAreAssumed, CmacImplies DEF PartsInv, PartsAssumption, TagOfWhatWasAsked
<1> QED
  BY <1>1, PartsInductive, PTL

(* As many CMAC contexts are allocated as threads have one, for any number of        *)
(* threads: none is lost when a computation begins anew, fails or is finished, by a   *)
(* caller of either kind.                                                             *)
THEOREM EachThreadOwnsItsContextAlways ==
  PartsSpec => [](part = "cmac" => Cmac!EachThreadOwnsItsContext)
<1>1. PartsInv => (part = "cmac" => Cmac!EachThreadOwnsItsContext)
  BY PartsAreAssumed, CmacImplies DEF PartsInv, PartsAssumption
<1> QED
  BY <1>1, PartsInductive, PTL

(* The answer of the last function a thread called is the CRC-16/X-25 of all the      *)
(* parts of its frame, for any bytes, any cut into parts and any number of threads:   *)
(* the table computes what the polynomial does, and no part is started anew.          *)
THEOREM AnswerIsCrcOfFrameAlways == PartsSpec => []AnswerIsCrcOfFrame
<1>1. PartsInv => AnswerIsCrcOfFrame
  BY DEF PartsInv, CrcInv, AnswerIsCrcOfFrame
<1> QED
  BY <1>1, PartsInductive, PTL

(* A timeout has elapsed exactly when its time is over: for every timeout, every      *)
(* time at which it is started and however many units a second has.                   *)
THEOREM ElapsedWhenDueAlways == PartsSpec => []ElapsedWhenDue
<1>1. PartsInv => ElapsedWhenDue
  BY PartsAreAssumed, TimeoutImplies DEF PartsInv, PartsAssumption, ElapsedWhenDue
<1> QED
  BY <1>1, PartsInductive, PTL

(* On every curve, and for numbers of every length below its order, all signers and   *)
(* verifiers agree about the numbers, and none refuses a signature for its size.       *)
THEOREM SameNumbersAlways == PartsSpec => []SameNumbers
<1>1. PartsInv => SameNumbers
  BY FormatImplies DEF PartsInv, SameNumbers
<1> QED
  BY <1>1, PartsInductive, PTL

(* No function of the platform layer or the providers frees an object twice, uses     *)
(* one that is gone or returns with one it has not freed, whichever of its steps      *)
(* fails; and CMAC contexts are neither lost nor shared, for any number of threads.   *)
THEOREM MemoryIsSoundAlways == PartsSpec => []MemoryIsSound
<1>1. CallsInv => Calls!MemoryIsSound /\ Calls!NothingLeaks
  BY DEF CallsInv, Calls!MemoryIsSound, Calls!NothingLeaks
<1>2. PartsInv => MemoryIsSound
  BY <1>1, PartsAreAssumed, CmacImplies DEF PartsInv, PartsAssumption, MemoryIsSound
<1> QED
  BY <1>2, PartsInductive, PTL

(* The demonstration shows the verdict of the device asked last, on any number of     *)
(* buses and for any number of workers: the button keeps them apart.                  *)
THEOREM ShowsTheVerdictAlways == PartsSpec => []ShowsTheVerdict
<1>1. PartsInv => ShowsTheVerdict
  BY DEF PartsInv, DemoInv, ShowsTheVerdict
<1> QED
  BY <1>1, PartsInductive, PTL
=================================================================================
