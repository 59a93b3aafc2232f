---------------------------- MODULE ProvidersProofs ----------------------------
(***************************************************************************)
(* What is proved of the parts of the providers holds of their behaviours: *)
(* a step is one of the part a behaviour is about, so that part's          *)
(* invariant is kept, and those of the others are not asked for.           *)
(***************************************************************************)
EXTENDS Providers, TLAPS

\* The inductive invariants of the parts; what was last signed or verified, and what
\* the caller of a key generation asked for, are histories with invariants of their own.
PartsInv ==
    /\ part = "context"    => Context!IInv
    /\ part = "shared"     => Shared!SharedInv
    /\ part = "a120"       => A120!IInv /\ A120!Agreement
    /\ part = "careful"    => SigCareful!IInv
    /\ part = "careless"   => SigCareless!IInv
    /\ part = "l010Keys"   => L010Keys!IInv /\ L010Keys!Agreement /\ L010Keys!SignedByItsPair
    /\ part = "l010Verify" => L010Verify!IInv /\ L010Verify!VerifiesWithAskedKey
    /\ part = "l010Free"   => L010Free!IInv

LEMMA PartsInitially == PartsAssumption /\ Init => PartsInv
<1> SUFFICES ASSUME PartsAssumption, Init PROVE PartsInv
  OBVIOUS
<1>1. CASE part = "context" /\ Context!Init
  BY <1>1, Context!Initially DEF PartsInv
<1>2. CASE part = "shared" /\ Shared!Init
  BY <1>2, Shared!SharedInitially DEF PartsInv
<1>3. CASE part = "a120" /\ A120!Init
  BY <1>3, A120!Initially, A120!AgreesInitially DEF PartsInv, PartsAssumption
<1>4. CASE part = "careful" /\ SigCareful!Init
  BY <1>4, SigCareful!Initially DEF PartsInv, PartsAssumption
<1>5. CASE part = "careless" /\ SigCareless!Init
  BY <1>5, SigCareless!Initially DEF PartsInv, PartsAssumption
<1>6. CASE part = "l010Keys" /\ L010Keys!Init
  BY <1>6, L010Keys!Initially, L010Keys!AgreesInitially, L010Keys!DidInitially DEF PartsInv, PartsAssumption
<1>7. CASE part = "l010Verify" /\ L010Verify!Init
  BY <1>7, L010Verify!Initially, L010Verify!DidInitially DEF PartsInv, PartsAssumption
<1>8. CASE part = "l010Free" /\ L010Free!Init
  BY <1>8, L010Free!Initially DEF PartsInv, PartsAssumption
<1> QED
  BY <1>1, <1>2, <1>3, <1>4, <1>5, <1>6, <1>7, <1>8 DEF Init

\* A step of a behaviour is one of its part.
LEMMA PartsSteps ==
  ASSUME [Next]_all
  PROVE  /\ part' = part
         /\ part = "context"    => [Context!Next]_(Context!vars)
         /\ part = "shared"     => [Shared!Next]_(Shared!vars)
         /\ part = "a120"       => [A120!Next]_(A120!vars)
         /\ part = "careful"    => [SigCareful!Next]_(SigCareful!vars)
         /\ part = "careless"   => [SigCareless!Next]_(SigCareless!vars)
         /\ part = "l010Keys"   => [L010Keys!Next]_(L010Keys!vars)
         /\ part = "l010Verify" => [L010Verify!Next]_(L010Verify!vars)
         /\ part = "l010Free"   => [L010Free!Next]_(L010Free!vars)
<1>1. CASE UNCHANGED all
  BY <1>1 DEF all, others, Context!vars, Shared!vars, A120!vars, SigCareful!vars, SigCareless!vars,
              L010Keys!vars, L010Verify!vars, L010Free!vars
<1>2. CASE Next
  BY <1>2 DEF Next
<1> QED
  BY <1>1, <1>2

LEMMA PartsStep == PartsAssumption /\ PartsInv /\ [Next]_all => PartsInv'
<1> SUFFICES ASSUME PartsAssumption, PartsInv, [Next]_all PROVE PartsInv'
  OBVIOUS
<1>1. part' = part
  BY PartsSteps
<1>2. CASE part = "context"
  <2>1. Context!IInv'
    BY <1>2, PartsSteps, Context!Step DEF PartsInv, PartsAssumption
  <2> QED
    BY <1>1, <1>2, <2>1 DEF PartsInv
<1>3. CASE part = "shared"
  <2>1. Shared!SharedInv'
    BY <1>3, PartsSteps, Shared!SharedStep DEF PartsInv, PartsAssumption
  <2> QED
    BY <1>1, <1>3, <2>1 DEF PartsInv
<1>4. CASE part = "a120"
  <2>1. A120!IInv' /\ A120!Agreement'
    BY <1>4, PartsSteps, A120!Step, A120!AgreesStep DEF PartsInv, PartsAssumption
  <2> QED
    BY <1>1, <1>4, <2>1 DEF PartsInv
<1>5. CASE part = "careful"
  <2>1. SigCareful!IInv'
    BY <1>5, PartsSteps, SigCareful!Step DEF PartsInv, PartsAssumption
  <2> QED
    BY <1>1, <1>5, <2>1 DEF PartsInv
<1>6. CASE part = "careless"
  <2>1. SigCareless!IInv'
    BY <1>6, PartsSteps, SigCareless!Step DEF PartsInv, PartsAssumption
  <2> QED
    BY <1>1, <1>6, <2>1 DEF PartsInv
<1>7. CASE part = "l010Keys"
  <2>1. L010Keys!IInv' /\ L010Keys!Agreement' /\ L010Keys!SignedByItsPair'
    BY <1>7, PartsSteps, L010Keys!Step, L010Keys!AgreesStep, L010Keys!SignedBySteps DEF PartsInv, PartsAssumption
  <2> QED
    BY <1>1, <1>7, <2>1 DEF PartsInv
<1>8. CASE part = "l010Verify"
  <2>1. L010Verify!IInv' /\ L010Verify!VerifiesWithAskedKey'
    BY <1>8, PartsSteps, L010Verify!Step, L010Verify!VerifiesSteps DEF PartsInv, PartsAssumption
  <2> QED
    BY <1>1, <1>8, <2>1 DEF PartsInv
<1>9. CASE part = "l010Free"
  <2>1. L010Free!IInv'
    BY <1>9, PartsSteps, L010Free!Step DEF PartsInv, PartsAssumption
  <2> QED
    BY <1>1, <1>9, <2>1 DEF PartsInv
<1> QED
  BY <1>1, <1>2, <1>3, <1>4, <1>5, <1>6, <1>7, <1>8, <1>9 DEF PartsInv

LEMMA PartsInductive == Spec => []PartsInv
<1>1. Init => PartsInv
  BY PartsAreAssumed, PartsInitially
<1>2. PartsInv /\ [Next]_all => PartsInv'
  BY PartsAreAssumed, PartsStep
<1> QED
  BY <1>1, <1>2, PTL DEF Spec

-----------------------------------------------------------------------------
(* Every variable of every part has its type, and each public key the length of its *)
(* curve, whatever parameters are passed and wherever a call fails.                  *)
THEOREM TypesAlways == Spec => []TypesOK
<1>1. PartsInv => TypesOK
  BY DEF PartsInv, TypesOK, Context!IInv, Shared!SharedInv, A120!IInv, SigCareful!IInv, SigCareless!IInv,
         L010Keys!IInv, L010Verify!IInv, L010Free!IInv
<1> QED
  BY <1>1, PartsInductive, PTL

(* The place a generated key names holds its private half, or one generated later. *)
THEOREM PrivateHalfAlways == Spec => []PrivateHalfInItsPlace
<1>1. PartsInv => PrivateHalfInItsPlace
  BY DEF PartsInv, PrivateHalfInItsPlace, A120!IInv
<1> QED
  BY <1>1, PartsInductive, PTL

(* What is exported of a key is accepted by an import, which makes the same key of it. *)
THEOREM ExportComesBackAlways == Spec => []ExportComesBack
<1>1. PartsInv => ExportComesBack
  BY PartsAreAssumed, A120!ComesBack DEF PartsInv, PartsAssumption, ExportComesBack
<1> QED
  BY <1>1, PartsInductive, PTL

(* A signature or verification is of the message and with the key of the last init; *)
(* the STSAFE-L010 signs with the pair in the place the key names.                   *)
THEOREM SignsWhatWasAskedAlways == Spec => []SignsWhatWasAsked
<1>1. PartsInv => SignsWhatWasAsked
  BY SigCareful!SignsWhatIsKept DEF PartsInv, SignsWhatWasAsked
<1> QED
  BY <1>1, PartsInductive, PTL

(* Every digest context and OpenSSL object that is not freed belongs to one signature *)
(* context, and none that is freed to any.                                            *)
THEOREM EachObjectOwnedOnceAlways == Spec => []EachObjectOwnedOnce
<1>1. PartsInv => EachObjectOwnedOnce
  BY PartsAreAssumed, SigCareful!OwnsItsDigest, SigCareless!OwnsItsDigest, L010Verify!OwnsItsObjects,
     L010Free!OwnsItsObjects DEF PartsInv, PartsAssumption, EachObjectOwnedOnce
<1> QED
  BY <1>1, PartsInductive, PTL

(* However threads interleave, a command goes to the device of its key if no other thread *)
(* opens a device between the check and the command, nor the last opening began during    *)
(* another.                                                                               *)
THEOREM UseOnItsDeviceAlways == Spec => UseOnItsDevice
<1>1. PartsInv => (part = "context" => Context!UndisturbedUses)
  BY Context!InvUndisturbedUses DEF PartsInv
<1>2. PartsInv /\ [Next]_all => [part = "context" => Context!UndisturbedUses]_all
  BY <1>1
<1> QED
  BY <1>2, PartsInductive, PTL DEF Spec, UseOnItsDevice

(* If all keys are on one device, threads that exclude each other until a first call *)
(* has succeeded open it once, and all use it.                                        *)
THEOREM SharedDeviceOpenedOnceAlways == Spec => SharedDeviceOpenedOnce
<1>1. PartsInv /\ [Next]_all => [part = "shared" => Shared!OpensOnce /\ Shared!UsesItsDevice]_all
  BY PartsAreAssumed, PartsSteps, Shared!SharedSteps DEF PartsInv, PartsAssumption
<1> QED
  BY <1>1, PartsInductive, PTL DEF Spec, SharedDeviceOpenedOnce

(* A generated key has the place and the curve that gen_init() and gen_set_params()   *)
(* were asked for, whatever was asked first and whichever calls were refused.          *)
THEOREM GeneratedAsAskedAlways == Spec => GeneratedAsAsked
<1>1. PartsInv => GeneratesAsAsked
  BY PartsAreAssumed, A120!AsAsked, L010Keys!AsAsked DEF PartsInv, PartsAssumption, GeneratesAsAsked
<1>2. PartsInv /\ [Next]_all => [GeneratesAsAsked]_all
  BY <1>1
<1> QED
  BY <1>2, PartsInductive, PTL DEF Spec, GeneratedAsAsked
=============================================================================
