---------------------------- MODULE SignatureFormat ----------------------------
(***************************************************************************)
(* ECDSA signatures on their way between a device, the platform layer and  *)
(* OpenSSL.  The device and stse_platform_ecc.c write r and s one after    *)
(* the other, each in a field of the size of a coordinate; OpenSSL uses    *)
(* DER, whose length depends on the numbers.  stsafea_provider.c converts  *)
(* both ways, stse_platform_ecc_verify() reads the fields.                 *)
(*                                                                         *)
(* A number is known by its length in bits and whether it is r or s: its   *)
(* other bits go through all conversions unchanged.                        *)
(***************************************************************************)
EXTENDS Integers

CONSTANT Lengths   \* for each curve: lengths of numbers, in bits

Curve == {"NIST_P_256", "NIST_P_384", "NIST_P_521", "BP_P_256", "BP_P_384", "BP_P_512"}

\* The order of a curve has this many bits; it and the field have the same size in bytes.
OrderBits == [c \in Curve |->
    CASE c \in {"NIST_P_256", "BP_P_256"} -> 256 [] c \in {"NIST_P_384", "BP_P_384"} -> 384
      [] c = "NIST_P_521" -> 521 [] c = "BP_P_512" -> 512]

LengthsAssumption == \A c \in Curve : Lengths[c] \subseteq 1 .. OrderBits[c]

VARIABLES
    curve,     \* of the key
    made,      \* the numbers of a signature: lengths of r and s
    form,      \* what the application has of it: Nothing, a raw or a DER signature
    checked    \* the numbers a verifier has computed with

vars == <<curve, made, form, checked>>

Nothing == [type |-> "none"]
Refused == [type |-> "refused"]

Init ==
    /\ curve \in Curve
    /\ made \in [r : Lengths[curve], s : Lengths[curve]]
    /\ form = Nothing /\ checked = Nothing

-----------------------------------------------------------------------------
(* Sizes. *)

\* stse_platform_get_coord_size(); stse_platform_get_nid() names the curve.
get_coord_size(c) ==
    CASE c \in {"NIST_P_256", "BP_P_256"} -> 32
      [] c \in {"NIST_P_384", "BP_P_384"} -> 48
      [] c = "NIST_P_521" -> 66
      [] c = "BP_P_512" -> 64

\* The field_len of do_hw_sign() and do_hw_verify(), from the provider's table.
field_len(c) ==
    CASE c \in {"NIST_P_256", "BP_P_256"} -> 32
      [] c \in {"NIST_P_384", "BP_P_384"} -> 48
      [] c = "NIST_P_521" -> 66
      [] c = "BP_P_512" -> 64

Bytes(bits) == (bits + 7) \div 8

\* A DER integer has a sign bit, and a header of two bytes; a sequence has a
\* header of two bytes, or three if it is long.
DerInteger(bits) == 2 + (bits \div 8) + 1
DerLength(sig) ==
    LET content == DerInteger(sig.r) + DerInteger(sig.s)
    IN  content + (IF content < 128 THEN 2 ELSE 3)

\* Faulty variant: room for the headers, not for the sign bits and a long sequence.
max_der_len_Tight(c) == 2 * field_len(c) + 6

\* What do_hw_sign() announces, and the application has room for.
max_der_len(c) == 2 * field_len(c) + 16

\* BN_bn2binpad(): a number is padded to the field, and refused if it is longer.
Fits(sig, size) == Bytes(sig.r) <= size /\ Bytes(sig.s) <= size
Raw(sig, size) == [type |-> "raw", size |-> size, r |-> sig.r, s |-> sig.s]
Der(sig) == [type |-> "der", r |-> sig.r, s |-> sig.s]

\* BN_bin2bn() of two fields: other numbers if the fields were of another size.
Read(raw, size) == IF raw.size = size THEN [r |-> raw.r, s |-> raw.s] ELSE [r |-> 0, s |-> 0]

-----------------------------------------------------------------------------
(* Signers. *)

\* stse_platform_ecc_sign()
PlatformSign ==
    /\ form.type = "none"
    /\ form' = IF Fits(made, get_coord_size(curve)) THEN Raw(made, get_coord_size(curve)) ELSE Refused
    /\ UNCHANGED <<curve, made, checked>>

\* A signature of the device, which writes fields of its own size.
Device == Raw(made, Bytes(OrderBits[curve]))
DeviceSign ==
    /\ form.type = "none" /\ form' = Device
    /\ UNCHANGED <<curve, made, checked>>

\* do_hw_sign(): from the fields to DER, refused if it is longer than the room for it.
HwSign ==
    LET sig == Read(Device, field_len(curve)) IN
    /\ form.type = "none"
    /\ form' = IF DerLength(sig) <= max_der_len(curve) THEN Der(sig) ELSE Refused
    /\ UNCHANGED <<curve, made, checked>>

\* OpenSSL's own provider, a certificate, another host.
OtherSign ==
    /\ form.type = "none" /\ form' = Der(made)
    /\ UNCHANGED <<curve, made, checked>>

-----------------------------------------------------------------------------
(* Verifiers. *)

\* stse_platform_ecc_verify()
PlatformVerify ==
    /\ form.type = "raw" /\ checked' = Read(form, get_coord_size(curve))
    /\ UNCHANGED <<curve, made, form>>

\* Faulty variant: the numbers are not padded.
HwVerify_NoPadding ==
    LET size == Bytes(form.r) IN
    /\ form.type = "der"
    /\ checked' = Read(Raw(form, size), Bytes(OrderBits[curve]))
    /\ UNCHANGED <<curve, made, form>>

\* do_hw_verify(): from DER to fields, and to the device.
HwVerify ==
    /\ form.type = "der"
    /\ checked' = IF Fits(form, field_len(curve))
                  THEN Read(Raw(form, field_len(curve)), Bytes(OrderBits[curve])) ELSE Refused
    /\ UNCHANGED <<curve, made, form>>

Next == PlatformSign \/ DeviceSign \/ HwSign \/ OtherSign \/ PlatformVerify \/ HwVerify

Spec == Init /\ [][Next]_vars

-----------------------------------------------------------------------------
(* Properties. *)

\* Whoever made a signature and in whichever form it comes, a verifier computes
\* with the numbers the signer made, short ones included.
SameNumbers == checked # Nothing => checked = made

\* No signature is refused for its size: its numbers fit in the fields, and its DER
\* form in the room do_hw_sign() asks its caller for.
NoneRefused == form # Refused /\ checked # Refused
================================================================================
