------------------------------- MODULE Providers -------------------------------
(***************************************************************************)
(* The parts of the two OpenSSL providers.  They share no state, and a     *)
(* behaviour is about one of them, which `part' names.  Its variables are  *)
(* the first of v1 to v9; what it does not need stays Unused.              *)
(*                                                                         *)
(* The values of a part's constants are a record, named for the part.  The *)
(* modules with the proofs are instantiated, so that their lemmas hold of  *)
(* the parts.                                                              *)
(***************************************************************************)
EXTENDS Naturals, Sequences

CONSTANTS
    context, shared,            \* keys on several devices, and on one
    a120,                       \* keys of the STSAFE-A120
    careful, careless,          \* its signatures, for two kinds of caller
    l010Keys, l010Verify, l010Free,
    Unset, Unused, Bad, NoKey

VARIABLES part, v1, v2, v3, v4, v5, v6, v7, v8, v9

others == <<v6, v7, v8, v9>>
all == <<part, v1, v2, v3, v4, v5, others>>

-----------------------------------------------------------------------------
Context == INSTANCE ProviderContextProofs WITH
    Thread <- context.Thread, Device <- context.Device, Exclusion <- context.Exclusion,
    handler <- v1, active <- v2, initialized <- v3, pc <- v4, want <- v5, mixed <- v6, kept <- v7
Shared == INSTANCE ProviderContextProofs WITH
    Thread <- shared.Thread, Device <- shared.Device, Exclusion <- shared.Exclusion,
    handler <- v1, active <- v2, initialized <- v3, pc <- v4, want <- v5, mixed <- v6, kept <- v7

A120 == INSTANCE StsafeaKeysProofs WITH
    Key <- a120.Key, Gen <- a120.Gen, MaxPairs <- a120.MaxPairs, InitParams <- a120.InitParams,
    GenParams <- a120.GenParams, ImportParams <- a120.ImportParams,
    key <- v1, gen <- v2, asked <- v3, at <- v4, pairs <- v5

SigCareful == INSTANCE StsafeaSignatureProofs WITH
    Ctx <- careful.Ctx, Md <- careful.Md, Key <- careful.Key, EcKey <- careful.EcKey,
    Block <- careful.Block, MaxBlocks <- careful.MaxBlocks, Careful <- careful.Careful,
    sctx <- v1, md <- v2, asked <- v3, result <- v4
SigCareless == INSTANCE StsafeaSignatureProofs WITH
    Ctx <- careless.Ctx, Md <- careless.Md, Key <- careless.Key, EcKey <- careless.EcKey,
    Block <- careless.Block, MaxBlocks <- careless.MaxBlocks, Careful <- careless.Careful,
    sctx <- v1, md <- v2, asked <- v3, result <- v4

L010Keys == INSTANCE StsafelProviderProofs WITH
    Key <- l010Keys.Key, Gen <- l010Keys.Gen, Ctx <- l010Keys.Ctx, Obj <- l010Keys.Obj,
    MaxPairs <- l010Keys.MaxPairs, Careful <- l010Keys.Careful, InitParams <- l010Keys.InitParams,
    GenParams <- l010Keys.GenParams, ImportParams <- l010Keys.ImportParams,
    key <- v1, gen <- v2, sctx <- v3, obj <- v4, handler <- v5, at <- v6, pairs <- v7,
    asked <- v8, did <- v9
L010Verify == INSTANCE StsafelProviderProofs WITH
    Key <- l010Verify.Key, Gen <- l010Verify.Gen, Ctx <- l010Verify.Ctx, Obj <- l010Verify.Obj,
    MaxPairs <- l010Verify.MaxPairs, Careful <- l010Verify.Careful, InitParams <- l010Verify.InitParams,
    GenParams <- l010Verify.GenParams, ImportParams <- l010Verify.ImportParams,
    key <- v1, gen <- v2, sctx <- v3, obj <- v4, handler <- v5, at <- v6, pairs <- v7,
    asked <- v8, did <- v9
L010Free == INSTANCE StsafelProviderProofs WITH
    Key <- l010Free.Key, Gen <- l010Free.Gen, Ctx <- l010Free.Ctx, Obj <- l010Free.Obj,
    MaxPairs <- l010Free.MaxPairs, Careful <- l010Free.Careful, InitParams <- l010Free.InitParams,
    GenParams <- l010Free.GenParams, ImportParams <- l010Free.ImportParams,
    key <- v1, gen <- v2, sctx <- v3, obj <- v4, handler <- v5, at <- v6, pairs <- v7,
    asked <- v8, did <- v9

\* What the parts assume: where all keys are on one device, one call at a time until a
\* first success; parameters as OpenSSL passes them.
PartsAssumption ==
    /\ Context!DeviceAssumption
    /\ Shared!DeviceAssumption /\ Shared!OneDevice
    /\ A120!PairAssumption /\ A120!CallerAssumption
    /\ SigCareful!SignatureAssumption /\ SigCareless!SignatureAssumption
    /\ L010Keys!ProviderAssumption /\ L010Keys!CallerAssumption
    /\ L010Verify!ProviderAssumption /\ L010Free!ProviderAssumption
ASSUME PartsAreAssumed == PartsAssumption

-----------------------------------------------------------------------------
TwoUnused == v8 = Unused /\ v9 = Unused
FourUnused == v6 = Unused /\ v7 = Unused /\ TwoUnused

Init ==
    \/ part = "context"    /\ Context!Init     /\ TwoUnused
    \/ part = "shared"     /\ Shared!Init      /\ TwoUnused
    \/ part = "a120"       /\ A120!Init        /\ FourUnused
    \/ part = "careful"    /\ SigCareful!Init  /\ v5 = Unused /\ FourUnused
    \/ part = "careless"   /\ SigCareless!Init /\ v5 = Unused /\ FourUnused
    \/ part = "l010Keys"   /\ L010Keys!Init
    \/ part = "l010Verify" /\ L010Verify!Init
    \/ part = "l010Free"   /\ L010Free!Init

Next ==
    /\ UNCHANGED part
    /\ \/ part = "context"    /\ Context!Next     /\ UNCHANGED <<v8, v9>>
       \/ part = "shared"     /\ Shared!Next      /\ UNCHANGED <<v8, v9>>
       \/ part = "a120"       /\ A120!Next        /\ UNCHANGED others
       \/ part = "careful"    /\ SigCareful!Next  /\ UNCHANGED <<v5, others>>
       \/ part = "careless"   /\ SigCareless!Next /\ UNCHANGED <<v5, others>>
       \/ part = "l010Keys"   /\ L010Keys!Next
       \/ part = "l010Verify" /\ L010Verify!Next
       \/ part = "l010Free"   /\ L010Free!Next

Spec == Init /\ [][Next]_all

-----------------------------------------------------------------------------
(* The properties of the parts, as their modules state them. *)

\* Every variable of every part has its type, and a public key fits its curve.
TypesOK ==
    /\ part = "context"    => Context!TypeOK
    /\ part = "shared"     => Shared!TypeOK
    /\ part = "a120"       => A120!TypeOK /\ A120!PubFitsCurve
    /\ part = "careful"    => SigCareful!TypeOK
    /\ part = "careless"   => SigCareless!TypeOK
    /\ part = "l010Keys"   => L010Keys!TypeOK
    /\ part = "l010Verify" => L010Verify!TypeOK
    /\ part = "l010Free"   => L010Free!TypeOK

\* In every interleaving of the threads, a command goes to the device that holds the key
\* it is about (provctx_ensure_init()), unless another thread was at opening a device at
\* its check or has begun to since, or two openings have overlapped and none has begun
\* alone since.  In these cases, which no lock of the code excludes, it may not.
UseOnItsDevice == [][part = "context" => Context!UndisturbedUses]_all

\* A device all keys are on is opened once, although threads share the handler, and
\* every command goes to it, if the application makes one call at a time until one has
\* succeeded.  Of threads whose first calls overlap this says nothing.
SharedDeviceOpenedOnce == [][part = "shared" => Shared!OpensOnce /\ Shared!UsesItsDevice]_all

\* The place of a generated key holds its private half or a later one.
PrivateHalfInItsPlace == part = "a120" => A120!PrivateHalfInItsPlace
\* An exported key can be imported again.
ExportComesBack == part = "a120" => A120!ExportComesBack

GeneratesAsAsked ==
    /\ part = "a120"     => A120!GeneratesAsAsked
    /\ part = "l010Keys" => L010Keys!GeneratesAsAsked
\* Keys of either provider are generated where, and as, they were asked for.
GeneratedAsAsked == [][GeneratesAsAsked]_all

\* What is signed or verified is the message of the last init, with its key; and a
\* signature is made by the pair in the place the key names.
SignsWhatWasAsked ==
    /\ part = "careful"    => SigCareful!SignsWhatWasAsked
    /\ part = "l010Keys"   => L010Keys!SignedByItsPair
    /\ part = "l010Verify" => L010Verify!VerifiesWithAskedKey

\* Digest contexts and objects of OpenSSL that a signature context owns are neither
\* lost nor shared nor used after they were freed.
EachObjectOwnedOnce ==
    /\ part = "careful"    => SigCareful!EachContextOwnsItsDigest
    /\ part = "careless"   => SigCareless!EachContextOwnsItsDigest
    /\ part = "l010Verify" => L010Verify!EachObjectOwnedOnce
    /\ part = "l010Free"   => L010Free!EachObjectOwnedOnce
=============================================================================
