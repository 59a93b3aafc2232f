------------------------- MODULE StsafeaKeysProofs -------------------------
(***************************************************************************)
(* Theorems about StsafeaKeys, for any key objects, contexts, parameters   *)
(* and number of pairs.                                                    *)
(*                                                                         *)
(* The invariant: a generation context and a key have a curve of their     *)
(* kind (Fits), which gives the public key its length, and no place holds  *)
(* a pair that has not been generated (PairsAreNumbered), so that the pair *)
(* that replaces another in its place is always a later one.               *)
(* A second invariant, Agreement, relates a context to what its caller     *)
(* asked for, call after call.                                             *)
(***************************************************************************)
EXTENDS StsafeaKeys, TLAPS

-----------------------------------------------------------------------------
(* The table of curves. *)

LEMMA CurvesAre ==
  /\ 1 .. Len(ec_curves) = 1 .. 9
  /\ ec_curves[1] = [name |-> "prime256v1",      type |-> "P_256",    bits |-> 256, coord |-> 32]
  /\ ec_curves[2] = [name |-> "P-256",           type |-> "P_256",    bits |-> 256, coord |-> 32]
  /\ ec_curves[3] = [name |-> "secp384r1",       type |-> "P_384",    bits |-> 384, coord |-> 48]
  /\ ec_curves[4] = [name |-> "P-384",           type |-> "P_384",    bits |-> 384, coord |-> 48]
  /\ ec_curves[5] = [name |-> "nistp521",        type |-> "P_521",    bits |-> 521, coord |-> 66]
  /\ ec_curves[6] = [name |-> "P-521",           type |-> "P_521",    bits |-> 521, coord |-> 66]
  /\ ec_curves[7] = [name |-> "brainpoolP256r1", type |-> "BP_P_256", bits |-> 256, coord |-> 32]
  /\ ec_curves[8] = [name |-> "brainpoolP384r1", type |-> "BP_P_384", bits |-> 384, coord |-> 48]
  /\ ec_curves[9] = [name |-> "brainpoolP512r1", type |-> "BP_P_512", bits |-> 512, coord |-> 64]
BY DEF ec_curves

LEMMA Nine == \A i \in 1 .. 9 : i \in {1, 2, 3, 4, 5, 6, 7, 8, 9}
OBVIOUS

\* The loop over the table finds the first line that fits.
LEMMA TypeFound ==
  ASSUME NEW i \in 1 .. 9, \A j \in 1 .. 9 : j < i => ec_curves[j].type # ec_curves[i].type
  PROVE  OfType(ec_curves[i].type) = ec_curves[i]
<1> DEFINE found == {j \in 1 .. 9 : ec_curves[j].type = ec_curves[i].type}
<1>1. i \in found /\ \A j \in found : i <= j
  OBVIOUS
<1>2. (CHOOSE k \in found : \A j \in found : k <= j) = i
  BY <1>1
<1>3. found = {j \in 1 .. Len(ec_curves) : ec_curves[j].type = ec_curves[i].type}
  BY CurvesAre
<1>4. OfType(ec_curves[i].type) = ec_curves[CHOOSE k \in found : \A j \in found : k <= j]
  BY <1>3 DEF OfType, Line
<1> QED
  BY <1>2, <1>4

LEMMA NameFound ==
  ASSUME NEW i \in 1 .. 9, \A j \in 1 .. 9 : j # i => ec_curves[j].name # ec_curves[i].name
  PROVE  OfName(ec_curves[i].name) = ec_curves[i]
<1> DEFINE found == {j \in 1 .. 9 : ec_curves[j].name = ec_curves[i].name}
<1>1. i \in found /\ \A j \in found : i <= j
  OBVIOUS
<1>2. (CHOOSE k \in found : \A j \in found : k <= j) = i
  BY <1>1
<1>3. found = {j \in 1 .. Len(ec_curves) : ec_curves[j].name = ec_curves[i].name}
  BY CurvesAre
<1>4. OfName(ec_curves[i].name) = ec_curves[CHOOSE k \in found : \A j \in found : k <= j]
  BY <1>3 DEF OfName, Line
<1> QED
  BY <1>2, <1>4

LEMMA Names == \A i, j \in 1 .. 9 : i # j => ec_curves[i].name # ec_curves[j].name
<1>1. /\ ec_curves[1].name = "prime256v1" /\ ec_curves[2].name = "P-256"
      /\ ec_curves[3].name = "secp384r1"  /\ ec_curves[4].name = "P-384"
      /\ ec_curves[5].name = "nistp521"   /\ ec_curves[6].name = "P-521"
      /\ ec_curves[7].name = "brainpoolP256r1" /\ ec_curves[8].name = "brainpoolP384r1"
      /\ ec_curves[9].name = "brainpoolP512r1"
  BY CurvesAre
<1> QED
  BY <1>1, Nine

LEMMA Types ==
  /\ ec_curves[1].type = "P_256" /\ ec_curves[2].type = "P_256"
  /\ ec_curves[3].type = "P_384" /\ ec_curves[4].type = "P_384"
  /\ ec_curves[5].type = "P_521" /\ ec_curves[6].type = "P_521"
  /\ ec_curves[7].type = "BP_P_256" /\ ec_curves[8].type = "BP_P_384"
  /\ ec_curves[9].type = "BP_P_512"
BY CurvesAre

LEMMA OfNameIs == \A i \in 1 .. 9 : OfName(ec_curves[i].name) = ec_curves[i]
BY NameFound, Names

LEMMA OfTypeIs ==
  /\ OfType("P_256") = ec_curves[1] /\ OfType("P_384") = ec_curves[3]
  /\ OfType("P_521") = ec_curves[5] /\ OfType("BP_P_256") = ec_curves[7]
  /\ OfType("BP_P_384") = ec_curves[8] /\ OfType("BP_P_512") = ec_curves[9]
<1>1. OfType(ec_curves[1].type) = ec_curves[1]
  BY TypeFound
<1>2. OfType(ec_curves[3].type) = ec_curves[3]
  BY TypeFound, Types, Nine
<1>3. OfType(ec_curves[5].type) = ec_curves[5]
  BY TypeFound, Types, Nine
<1>4. OfType(ec_curves[7].type) = ec_curves[7]
  BY TypeFound, Types, Nine
<1>5. OfType(ec_curves[8].type) = ec_curves[8]
  BY TypeFound, Types, Nine
<1>6. OfType(ec_curves[9].type) = ec_curves[9]
  BY TypeFound, Types, Nine
<1> QED
  BY <1>1, <1>2, <1>3, <1>4, <1>5, <1>6, Types

LEMMA CurvesSet == Curves = {"P_256", "P_384", "P_521", "BP_P_256", "BP_P_384", "BP_P_512"}
<1>1. Curves = {ec_curves[i].type : i \in 1 .. 9}
  BY CurvesAre DEF Curves
<1> QED
  BY <1>1, Types, Nine

\* The first name of a curve leads back to it.
LEMMA TypeOfName ==
  ASSUME NEW type \in Curves
  PROVE  Known(OfType(type).name) /\ OfName(OfType(type).name).type = type
BY OfNameIs, OfTypeIs, CurvesAre, CurvesSet DEF Known

\* All names of a curve lead to a key of its size.
LEMMA NameOfType ==
  ASSUME NEW name, Known(name)
  PROVE  OfName(name).type \in Curves /\ OfType(OfName(name).type).bits = OfName(name).bits
<1>0. 1 .. Len(ec_curves) = 1 .. 9
  BY CurvesAre
<1>1. PICK i \in 1 .. 9 : ec_curves[i].name = name
  BY <1>0, Zenon DEF Known
<1>2. OfName(name) = ec_curves[i]
  BY <1>1, OfNameIs
<1>3. OfType(ec_curves[i].type).bits = ec_curves[i].bits /\ ec_curves[i].type \in Curves
  BY Nine, OfTypeIs, CurvesAre, CurvesSet
<1> QED
  BY <1>2, <1>3

LEMMA PubLenIs ==
  /\ \A type \in Curves : PubLen("EC", type) \in 1 .. PubPointSize
  /\ \A type : PubLen("X25519", type) = 32
<1>1. ASSUME NEW type \in Curves PROVE OfType(type).coord \in {32, 48, 64, 66}
  BY OfTypeIs, CurvesAre, CurvesSet
<1>2. ASSUME NEW type \in Curves PROVE PubLen("EC", type) \in 1 .. PubPointSize
  BY <1>1 DEF PubLen, PubPointSize
<1> QED
  BY <1>2 DEF PubLen
-----------------------------------------------------------------------------
(* The invariant. *)

Fits(x) == x.kind = "EC" <=> x.curve \in Curves

\* Generation contexts, like keys, are on a curve of their kind.
ContextsFit == \A g \in Gen : gen[g] # NoGen => Fits(gen[g])
KeysFit == \A k \in Key : key[k] # NoObject => Fits(key[k])

\* No place holds a pair that has not been generated yet.
PairsAreNumbered == \A x \in DOMAIN at : at[x] \in 1 .. pairs

IInv == TypeOK /\ ContextsFit /\ KeysFit /\ PubFitsCurve /\ PairsAreNumbered /\ PrivateHalfInItsPlace

Numbers == [slot : Number8, bus : Number8, addr : Number8]
Keys == [kind : {"EC", "X25519"}, curve : Curves \cup {"X25519"}, slot : Number8, bus : Number8,
         addr : Number8, pub : 0 .. MaxPairs + 1, len : 1 .. PubPointSize]
Gens == [kind : {"EC", "X25519"}, curve : Curves \cup {"X25519"}, slot : Number8, bus : Number8,
         addr : Number8]

LEMMA TypeIs ==
  TypeOK <=> /\ key \in [Key -> {NoObject} \cup Keys] /\ gen \in [Gen -> {NoGen} \cup Gens]
             /\ pairs \in 0 .. MaxPairs
BY DEF TypeOK, Keys, Gens

LEMMA ByteIs == \A n \in Nat : Byte(n) \in Number8 /\ (n < 256 => Byte(n) = n)
BY DEF Byte, Number8

-----------------------------------------------------------------------------
(* Generation contexts. *)

LEMMA TakenIsGood ==
  ASSUME NEW g, NEW p, NEW f, Taken(g, p, f) PROVE Good(g, p, f) /\ LooksAt(g, p, f)
<1>1. PICK i \in 1 .. Len(Order) : Order[i] = f /\ \A j \in 1 .. i : Good(g, p, Order[j])
  BY DEF Taken
<1>2. Len(Order) = 4
  BY DEF Order
<1>3. i \in 1 .. i
  BY <1>1, <1>2
<1> QED
  BY <1>1, <1>3 DEF Taken

LEMMA SetNumber ==
  ASSUME NEW g, NEW p, NEW f \in {"slot", "bus", "addr"}, Taken(g, p, f),
         Given(p, f) => p[f] \in Nat \cup {Bad}
  PROVE  p[f] \in Nat /\ Byte(p[f]) \in Number8
BY TakenIsGood, ByteIs DEF Good, LooksAt

LEMMA SetGroup ==
  ASSUME NEW g, NEW p, Taken(g, p, "group")
  PROVE  g.kind = "EC" /\ Known(p.group) /\ OfName(p.group).type \in Curves
BY TakenIsGood, NameOfType DEF Good, LooksAt

LEMMA SetParamsType ==
  ASSUME PairAssumption, NEW g, g.slot \in Number8, g.bus \in Number8, g.addr \in Number8,
         NEW p \in InitParams \cup GenParams
  PROVE  /\ SetParams(g, p).slot \in Number8 /\ SetParams(g, p).bus \in Number8
         /\ SetParams(g, p).addr \in Number8
<1>1. \A f \in {"slot", "bus", "addr"} : Given(p, f) => p[f] \in Nat \cup {Bad}
  BY DEF PairAssumption
<1>2. \A f \in {"slot", "bus", "addr"} : Taken(g, p, f) => Byte(p[f]) \in Number8
  BY <1>1, SetNumber
<1> QED
  BY <1>2 DEF SetParams

LEMMA SetParamsFits ==
  ASSUME PairAssumption, NEW g \in Gens, Fits(g), NEW p \in GenParams
  PROVE  SetParams(g, p) \in Gens /\ Fits(SetParams(g, p))
<1>1. /\ SetParams(g, p).slot \in Number8 /\ SetParams(g, p).bus \in Number8
      /\ SetParams(g, p).addr \in Number8
  BY SetParamsType DEF Gens
<1>2. SetParams(g, p).kind = g.kind /\ g.kind \in {"EC", "X25519"}
  BY DEF SetParams, Gens
<1>3. CASE Taken(g, p, "group")
  <2>1. SetParams(g, p).curve \in Curves /\ g.kind = "EC"
    BY <1>3, SetGroup DEF SetParams
  <2> QED
    BY <1>1, <1>2, <2>1 DEF SetParams, Gens, Fits
<1>4. CASE ~Taken(g, p, "group")
  <2>1. SetParams(g, p).curve = g.curve
    BY <1>4 DEF SetParams
  <2> QED
    BY <1>1, <1>2, <2>1 DEF SetParams, Gens, Fits
<1> QED
  BY <1>3, <1>4

LEMMA OnlyGens ==
  ASSUME IInv, NEW g \in Gen, NEW v, gen' = Set(gen, g, v), UNCHANGED <<key, at, pairs>>,
         v = NoGen \/ (v \in Gens /\ Fits(v))
  PROVE  IInv'
<1>1. TypeOK'
  <2>1. gen' \in [Gen -> {NoGen} \cup Gens]
    BY TypeIs DEF IInv, Set
  <2>2. TypeOK' <=> /\ key' \in [Key -> {NoObject} \cup Keys] /\ gen' \in [Gen -> {NoGen} \cup Gens]
                    /\ pairs' \in 0 .. MaxPairs
    BY DEF TypeOK, Keys, Gens
  <2> QED
    BY <2>1, <2>2, TypeIs DEF IInv
<1>2. ContextsFit'
  BY TypeIs DEF IInv, ContextsFit, Set
<1> QED
  BY <1>1, <1>2 DEF IInv, KeysFit, PubFitsCurve, PairsAreNumbered, PrivateHalfInItsPlace

LEMMA GenInitInv ==
  ASSUME PairAssumption, IInv, NEW g \in Gen, NEW kind \in {"EC", "X25519"}, NEW p \in InitParams,
         GenInit(g, kind, p)
  PROVE  IInv'
<1> DEFINE start == [kind |-> "EC", curve |-> "none", slot |-> 0, bus |-> 1, addr |-> 0]
           common == SetParams(start, p)
           v == [kind |-> kind, curve |-> NewKey(kind).curve, slot |-> common.slot,
                 bus |-> common.bus, addr |-> 32]
<1>1. common.slot \in Number8 /\ common.bus \in Number8
  <2>1. start.slot \in Number8 /\ start.bus \in Number8 /\ start.addr \in Number8
    BY DEF Number8
  <2> HIDE DEF start
  <2> QED
    BY <2>1, SetParamsType
<1>2. NewKey(kind).curve = IF kind = "EC" THEN "P_256" ELSE "X25519"
  BY DEF NewKey
<1>3. 32 \in Number8
  BY DEF Number8
<1> HIDE DEF common
<1>4. v \in Gens /\ Fits(v)
  BY <1>1, <1>2, <1>3, CurvesSet DEF Gens, Fits
<1>5. gen' = Set(gen, g, v) /\ UNCHANGED <<key, at, pairs>>
  BY DEF GenInit, common
<1> HIDE DEF v
<1> QED
  BY <1>4, <1>5, OnlyGens

LEMMA GenSetParamsInv ==
  ASSUME PairAssumption, IInv, NEW g \in Gen, NEW p \in GenParams, GenSetParams(g, p)
  PROVE  IInv'
<1>1. gen[g] \in Gens /\ Fits(gen[g])
  BY TypeIs DEF IInv, GenSetParams, ContextsFit
<1>2. SetParams(gen[g], p) \in Gens /\ Fits(SetParams(gen[g], p))
  BY <1>1, SetParamsFits
<1> QED
  BY <1>2, OnlyGens DEF GenSetParams

LEMMA GenCleanupInv == ASSUME IInv, NEW g \in Gen, GenCleanup(g) PROVE IInv'
BY OnlyGens DEF GenCleanup

-----------------------------------------------------------------------------
(* Keys. *)

\* What a new key object has to be.
GoodKey(v) ==
    /\ v \in Keys /\ Fits(v)
    /\ v.pub # NoPub => v.len = PubLen(v.kind, v.curve)

\* A device only ever replaces a pair by a later one.
Later ==
    /\ pairs' \in pairs .. MaxPairs /\ PairsAreNumbered'
    /\ \A x \in DOMAIN at : x \in DOMAIN at' /\ at'[x] \in at[x] .. pairs'

LEMMA SameIsLater == ASSUME PairAssumption, IInv, UNCHANGED <<at, pairs>> PROVE Later
<1>1. pairs \in Nat /\ MaxPairs \in Nat /\ pairs <= MaxPairs
  BY DEF IInv, TypeOK, PairAssumption
<1>2. \A x \in DOMAIN at : at[x] \in 1 .. pairs
  BY DEF IInv, PairsAreNumbered
<1> QED
  BY <1>1, <1>2 DEF Later, PairsAreNumbered

LEMMA ReplacedIsLater ==
  ASSUME PairAssumption, IInv, NEW x, Replaced(x), pairs < MaxPairs, pairs' = pairs + 1
  PROVE  Later /\ Place(x) \in DOMAIN at' /\ at'[Place(x)] = pairs + 1
<1>1. pairs \in Nat /\ MaxPairs \in Nat /\ pairs' \in pairs .. MaxPairs /\ pairs' = pairs + 1
  BY DEF IInv, TypeOK, PairAssumption
<1>2. \A y \in DOMAIN at : at[y] \in 1 .. pairs
  BY DEF IInv, PairsAreNumbered
<1>3. /\ DOMAIN at' = DOMAIN at \cup {Place(x)}
      /\ \A y \in DOMAIN at' : at'[y] = IF y = Place(x) THEN pairs + 1 ELSE at[y]
  BY DEF Replaced
<1>4. \A y \in DOMAIN at' : at'[y] \in 1 .. pairs'
  BY <1>1, <1>2, <1>3
<1>5. \A y \in DOMAIN at : y \in DOMAIN at' /\ at'[y] \in at[y] .. pairs'
  BY <1>1, <1>2, <1>3
<1> QED
  BY <1>1, <1>3, <1>4, <1>5 DEF Later, PairsAreNumbered

LEMMA OnlyKey ==
  ASSUME PairAssumption, IInv, NEW k \in Key, NEW v, key' = Set(key, k, v), UNCHANGED gen, Later,
         v = NoObject \/ GoodKey(v),
         v # NoObject /\ v.pub \in 1 .. MaxPairs => Place(v) \in DOMAIN at' /\ at'[Place(v)] >= v.pub
  PROVE  IInv'
<1>1. key' \in [Key -> {NoObject} \cup Keys]
  BY TypeIs DEF IInv, Set, GoodKey
<1>2. \A j \in Key : key'[j] = IF j = k THEN v ELSE key[j]
  BY TypeIs DEF IInv, Set
<1>3. TypeOK'
  <2>1. TypeOK' <=> /\ key' \in [Key -> {NoObject} \cup Keys] /\ gen' \in [Gen -> {NoGen} \cup Gens]
                    /\ pairs' \in 0 .. MaxPairs
    BY DEF TypeOK, Keys, Gens
  <2>2. pairs' \in 0 .. MaxPairs
    BY TypeIs DEF IInv, Later, PairAssumption
  <2> QED
    BY <1>1, <2>1, <2>2, TypeIs DEF IInv
<1>4. KeysFit' /\ ContextsFit'
  BY <1>2 DEF IInv, KeysFit, ContextsFit, GoodKey
<1>5. PubFitsCurve'
  BY <1>2 DEF IInv, PubFitsCurve, GoodKey, Fits
<1>6. ASSUME NEW j \in Key, key'[j] # NoObject, key'[j].pub \in 1 .. MaxPairs
      PROVE  Place(key'[j]) \in DOMAIN at' /\ at'[Place(key'[j])] >= key'[j].pub
  <2>1. CASE j = k
    BY <1>2, <1>6, <2>1
  <2>2. CASE j # k
    <3>1. key'[j] = key[j]
      BY <1>2, <2>2
    <3>2. Place(key[j]) \in DOMAIN at /\ at[Place(key[j])] >= key[j].pub
      BY <1>6, <3>1 DEF IInv, PrivateHalfInItsPlace
    <3>3. at[Place(key[j])] \in Nat /\ pairs' \in Nat
      BY <3>2, TypeIs DEF IInv, PairsAreNumbered, Later
    <3>4. Place(key[j]) \in DOMAIN at' /\ at'[Place(key[j])] \in at[Place(key[j])] .. pairs'
      BY <3>2 DEF Later
    <3>5. key[j].pub \in Nat
      BY <1>6, <3>1
    <3> QED
      BY <3>1, <3>2, <3>3, <3>4, <3>5
  <2> QED
    BY <2>1, <2>2
<1>7. PrivateHalfInItsPlace'
  BY <1>6 DEF PrivateHalfInItsPlace
<1> QED
  BY <1>3, <1>4, <1>5, <1>7 DEF IInv, Later

LEMMA GeneratedIsGood ==
  ASSUME PairAssumption, IInv, NEW g \in Gen, gen[g] # NoGen, pairs < MaxPairs
  PROVE  GoodKey(Generated(g)) /\ Generated(g).pub = pairs + 1 /\ Place(Generated(g)) = Place(gen[g])
         /\ Generated(g).curve = gen[g].curve
<1>1. gen[g] \in Gens /\ Fits(gen[g])
  BY TypeIs DEF IInv, ContextsFit
<1>2. pairs \in Nat /\ MaxPairs \in Nat
  BY TypeIs DEF IInv, PairAssumption
<1>3. gen[g].kind \in {"EC", "X25519"} /\ (gen[g].kind # "EC" => gen[g].curve = "X25519")
  BY <1>1 DEF Gens, Fits
<1>4. (IF gen[g].kind = "EC" THEN gen[g].curve ELSE NewKey(gen[g].kind).curve) = gen[g].curve
  BY <1>3 DEF NewKey
<1>5. PubLen(gen[g].kind, gen[g].curve) \in 1 .. PubPointSize
  BY <1>1, <1>3, PubLenIs DEF Fits, PubPointSize
<1>6. Generated(g) = [kind |-> gen[g].kind, curve |-> gen[g].curve,
                      slot |-> gen[g].slot, bus |-> gen[g].bus, addr |-> gen[g].addr,
                      pub |-> pairs + 1, len |-> PubLen(gen[g].kind, gen[g].curve)]
  BY <1>4 DEF Generated
<1>7. pairs + 1 \in 0 .. MaxPairs + 1
  BY <1>2
<1>8. Generated(g) \in Keys
  BY <1>1, <1>5, <1>6, <1>7 DEF Gens, Keys
<1> QED
  BY <1>1, <1>6, <1>8 DEF GoodKey, Fits, Place

LEMMA GenerateInv ==
  ASSUME PairAssumption, IInv, NEW g \in Gen, NEW k \in Key, Generate(g, k) PROVE IInv'
<1>1. PICK replaced \in BOOLEAN, answered \in BOOLEAN :
        /\ answered => replaced
        /\ IF replaced THEN Replaced(gen[g]) ELSE UNCHANGED at
        /\ pairs' = IF replaced THEN pairs + 1 ELSE pairs
        /\ key' = Set(key, k, IF answered THEN Generated(g) ELSE NoObject)
  BY DEF Generate
<1>2. gen[g] # NoGen /\ pairs < MaxPairs /\ UNCHANGED gen
  BY DEF Generate
<1>3. Later
  BY <1>1, <1>2, SameIsLater, ReplacedIsLater
<1>4. CASE answered
  <2>1. Place(gen[g]) \in DOMAIN at' /\ at'[Place(gen[g])] = pairs + 1
    BY <1>1, <1>2, <1>4, ReplacedIsLater
  <2>2. pairs + 1 >= pairs + 1
    BY TypeIs DEF IInv
  <2> QED
    BY <1>1, <1>2, <1>3, <1>4, <2>1, <2>2, GeneratedIsGood, OnlyKey
<1>5. CASE ~answered
  BY <1>1, <1>2, <1>3, <1>5, OnlyKey
<1> QED
  BY <1>4, <1>5

LEMMA NewKeyIs ==
  ASSUME NEW kind \in {"EC", "X25519"}
  PROVE  /\ NewKey(kind).kind = kind /\ NewKey(kind).pub = NoPub
         /\ NewKey(kind).curve = IF kind = "EC" THEN "P_256" ELSE "X25519"
         /\ NewKey(kind).slot = 0 /\ NewKey(kind).bus = 1 /\ NewKey(kind).addr = 32
         /\ NewKey(kind) = [kind |-> kind, curve |-> NewKey(kind).curve, slot |-> 0, bus |-> 1,
                            addr |-> 32, pub |-> NoPub, len |-> PubLen(kind, "P_256")]
BY DEF NewKey

LEMMA NewKeyIsGood ==
  ASSUME PairAssumption, NEW kind \in {"EC", "X25519"} PROVE GoodKey(NewKey(kind)) /\ NewKey(kind).pub = NoPub
<1>1. PubLen(kind, "P_256") \in 1 .. PubPointSize
  BY PubLenIs, CurvesSet DEF PubPointSize
<1>2. {0, 1, 32} \subseteq Number8 /\ NoPub \in 0 .. MaxPairs + 1
  BY DEF Number8, NoPub, PairAssumption
<1>3. NewKey(kind).curve \in Curves \cup {"X25519"} /\ (kind = "EC" <=> NewKey(kind).curve \in Curves)
  BY NewKeyIs, CurvesSet
<1>4. NewKey(kind) \in Keys
  BY <1>1, <1>2, <1>3, NewKeyIs DEF Keys
<1> QED
  BY <1>3, <1>4, NewKeyIs DEF GoodKey, Fits

LEMMA NumberIs ==
  ASSUME PairAssumption, NEW p \in ImportParams, NEW f \in {"slot", "bus", "addr"}, NEW n \in Number8
  PROVE  Number(p, f, n) \in Number8
<1>1. Given(p, f) => p[f] \in Nat \cup {Bad}
  BY DEF PairAssumption
<1> QED
  BY <1>1, ByteIs DEF Number

LEMMA ImportedIsGood ==
  ASSUME PairAssumption, NEW kind \in {"EC", "X25519"}, NEW p \in ImportParams, ImportOk(kind, p)
  PROVE  GoodKey(Imported(kind, p)) /\ Imported(kind, p).pub = Foreign
<1> DEFINE c == ImportCurve(kind, p)
<1>1. c \in Curves \cup {"X25519"} /\ (kind = "EC" <=> c \in Curves)
  <2>1. CASE kind = "EC" /\ Given(p, "group")
    BY <2>1, NameOfType DEF ImportOk, ImportCurve
  <2>2. CASE ~(kind = "EC" /\ Given(p, "group"))
    BY <2>2, NewKeyIs, CurvesSet DEF ImportCurve
  <2> QED
    BY <2>1, <2>2
<1>2. p.pub = PubLen(kind, c) /\ PubLen(kind, c) \in 1 .. PubPointSize
  BY <1>1, PubLenIs, CurvesSet DEF ImportOk, PubPointSize
<1>3. {0, 1, 32} \subseteq Number8 /\ Foreign \in 0 .. MaxPairs + 1
  BY DEF Number8, Foreign, PairAssumption
<1>4. /\ Number(p, "slot", NewKey(kind).slot) \in Number8 /\ Number(p, "bus", NewKey(kind).bus) \in Number8
      /\ Number(p, "addr", NewKey(kind).addr) \in Number8
  BY <1>3, NumberIs, NewKeyIs
<1>5. /\ Imported(kind, p) \in Keys /\ Imported(kind, p).kind = kind /\ Imported(kind, p).curve = c
      /\ Imported(kind, p).pub = Foreign /\ Imported(kind, p).len = p.pub
  <2> HIDE DEF c
  <2>1. Imported(kind, p) = [kind |-> kind, curve |-> c, slot |-> Number(p, "slot", NewKey(kind).slot),
                             bus |-> Number(p, "bus", NewKey(kind).bus),
                             addr |-> Number(p, "addr", NewKey(kind).addr), pub |-> Foreign, len |-> p.pub]
    BY DEF Imported, c
  <2> QED
    BY <1>1, <1>2, <1>3, <1>4, <2>1 DEF Keys
<1> QED
  BY <1>1, <1>2, <1>5 DEF GoodKey, Fits

LEMMA ImportInv ==
  ASSUME PairAssumption, IInv, NEW k \in Key, NEW kind \in {"EC", "X25519"}, NEW p \in ImportParams,
         Import(k, kind, p)
  PROVE  IInv'
<1>1. Later /\ UNCHANGED gen
  BY SameIsLater DEF Import
<1>2. NoPub \notin 1 .. MaxPairs /\ Foreign \notin 1 .. MaxPairs
  BY DEF NoPub, Foreign, PairAssumption
<1>3. CASE ImportOk(kind, p) /\ key' = Set(key, k, Imported(kind, p))
  BY <1>1, <1>2, <1>3, ImportedIsGood, OnlyKey
<1>4. CASE key' = Set(key, k, NewKey(kind))
  BY <1>1, <1>2, <1>4, NewKeyIsGood, OnlyKey
<1> QED
  BY <1>3, <1>4 DEF Import

LEMMA FreeInv == ASSUME PairAssumption, IInv, NEW k \in Key, Free(k) PROVE IInv'
BY SameIsLater, OnlyKey DEF Free

LEMMA Initially == PairAssumption /\ Init => IInv
<1> SUFFICES ASSUME PairAssumption, Init PROVE IInv
  OBVIOUS
<1>1. TypeOK
  BY DEF Init, TypeOK, PairAssumption
<1>2. PairsAreNumbered
  BY DEF Init, PairsAreNumbered
<1> QED
  BY <1>1, <1>2 DEF Init, IInv, ContextsFit, KeysFit, PubFitsCurve, PrivateHalfInItsPlace

LEMMA Step == PairAssumption /\ IInv /\ [Next]_vars => IInv'
<1> SUFFICES ASSUME PairAssumption, IInv, [Next]_vars PROVE IInv'
  OBVIOUS
<1>1. CASE UNCHANGED vars
  BY <1>1 DEF vars, IInv, TypeOK, ContextsFit, KeysFit, PubFitsCurve, PairsAreNumbered, PrivateHalfInItsPlace
<1>2. CASE Next
  BY <1>2, GenInitInv, GenSetParamsInv, GenerateInv, GenCleanupInv, ImportInv, FreeInv DEF Next
<1> QED
  BY <1>1, <1>2

-----------------------------------------------------------------------------
(* What is asked of a generation. *)

Places == {"slot", "bus", "addr"}

\* A generation context is what its caller knows it to be.
Agrees(g) ==
    /\ \A f \in Places : Given(asked[g], f) => gen[g][f] = asked[g][f]
    /\ Given(asked[g], "group") /\ gen[g].kind = "EC" =>
          Known(asked[g].group) /\ gen[g].curve = OfName(asked[g].group).type

Agreement ==
    /\ asked = [g \in Gen |-> asked[g]]
    /\ \A g \in Gen : gen[g] # NoGen => Agrees(g)

LEMMA OrderIs ==
  /\ 1 .. Len(Order) = {1, 2, 3, 4} /\ Order[1] = "slot" /\ Order[2] = "bus"
  /\ Order[3] = "addr" /\ Order[4] = "group"
BY DEF Order

\* If all parameters are good all that are looked at are taken.
LEMMA AllTaken ==
  ASSUME NEW g, NEW p, SetParamsOk(g, p), NEW f \in {"slot", "bus", "addr", "group"}
  PROVE  Taken(g, p, f) <=> LooksAt(g, p, f)
<1>1. PICK i \in 1 .. Len(Order) : Order[i] = f
  BY OrderIs
<1>2. \A j \in 1 .. i : j \in 1 .. Len(Order)
  BY <1>1, OrderIs
<1>3. \A j \in 1 .. i : Good(g, p, Order[j])
  BY <1>2 DEF SetParamsOk
<1> QED
  BY <1>1, <1>3 DEF Taken

LEMMA SetParamsIs ==
  ASSUME NEW g, NEW p, NEW f \in Places
  PROVE  SetParams(g, p)[f] = IF Taken(g, p, f) THEN Byte(p[f]) ELSE g[f]
<1>1. CASE f = "slot"
  BY <1>1 DEF SetParams
<1>2. CASE f = "bus"
  BY <1>2 DEF SetParams
<1>3. CASE f = "addr"
  BY <1>3 DEF SetParams
<1> QED
  BY <1>1, <1>2, <1>3 DEF Places

\* Numbers that are accepted are taken as they are.
LEMMA NumbersTaken ==
  ASSUME PairAssumption, CallerAssumption, NEW g, NEW p \in InitParams \cup GenParams, SetParamsOk(g, p),
         NEW f \in Places, Given(p, f)
  PROVE  SetParams(g, p)[f] = p[f]
<1>1. \A e \in Places : Given(p, e) => p[e] # Bad
  <2> SUFFICES ASSUME NEW e \in Places, Given(p, e) PROVE p[e] # Bad
    OBVIOUS
  <2>1. PICK i \in 1 .. Len(Order) : Order[i] = e
    BY OrderIs DEF Places
  <2> QED
    BY <2>1 DEF SetParamsOk, Good, LooksAt, Places
<1>2. p[f] \in Nat /\ p[f] < 256
  BY <1>1 DEF PairAssumption, CallerAssumption, Places
<1>3. Taken(g, p, f)
  BY AllTaken DEF Places, LooksAt
<1> QED
  BY <1>2, <1>3, SetParamsIs, ByteIs

LEMMA GenInitAgrees ==
  ASSUME PairAssumption, CallerAssumption, IInv, Agreement,
         NEW g \in Gen, NEW kind \in {"EC", "X25519"}, NEW p \in InitParams, GenInit(g, kind, p)
  PROVE  Agreement'
<1> DEFINE start == [kind |-> "EC", curve |-> "none", slot |-> 0, bus |-> 1, addr |-> 0]
           common == SetParams(start, p)
<1>1. gen'[g] = [kind |-> kind, curve |-> NewKey(kind).curve, slot |-> common.slot,
                 bus |-> common.bus, addr |-> 32]
  BY TypeIs DEF IInv, GenInit, Set
<1>2. asked'[g] = IF SetParamsOk(common, p) THEN p ELSE NoParams
  BY DEF GenInit, Set, Agreement
<1>3. common.kind = start.kind
  BY DEF SetParams
<1>4. SetParamsOk(common, p) = SetParamsOk(start, p)
  BY <1>3 DEF SetParamsOk, Good, LooksAt
<1>5. DOMAIN NoParams = {}
  BY DEF NoParams
<1>6. ~Given(p, "addr") /\ ~Given(p, "group")
  BY DEF CallerAssumption
<1> HIDE DEF start
<1>7. ASSUME NEW f \in Places, Given(asked'[g], f) PROVE gen'[g][f] = asked'[g][f]
  <2>1. SetParamsOk(start, p) /\ asked'[g] = p
    BY <1>2, <1>4, <1>5, <1>7 DEF Given
  <2>2. common[f] = p[f] /\ f \in {"slot", "bus"}
    BY <1>6, <1>7, <2>1, NumbersTaken DEF Places
  <2> HIDE DEF common
  <2>3. gen'[g].slot = common.slot /\ gen'[g].bus = common.bus
    BY <1>1
  <2>4. CASE f = "slot"
    BY <2>1, <2>2, <2>3, <2>4
  <2>5. CASE f = "bus"
    BY <2>1, <2>2, <2>3, <2>5
  <2> QED
    BY <2>2, <2>4, <2>5
<1>8. ~Given(asked'[g], "group")
  BY <1>2, <1>5, <1>6 DEF Given
<1>9. Agrees(g)'
  BY <1>7, <1>8 DEF Agrees
<1>10. \A h \in Gen : h # g => gen'[h] = gen[h] /\ asked'[h] = asked[h]
  BY TypeIs DEF IInv, GenInit, Set, Agreement
<1>11. asked' = [h \in Gen |-> asked'[h]]
  BY DEF GenInit, Set, Agreement
<1> QED
  BY <1>9, <1>10, <1>11 DEF Agreement, Agrees

LEMMA GenSetParamsAgrees ==
  ASSUME PairAssumption, CallerAssumption, IInv, Agreement,
         NEW g \in Gen, NEW p \in GenParams, GenSetParams(g, p)
  PROVE  Agreement'
<1> DEFINE new == SetParams(gen[g], p)
<1>1. gen'[g] = new /\ gen[g] # NoGen
  BY TypeIs DEF IInv, GenSetParams, Set
<1>2. asked'[g] = IF SetParamsOk(gen[g], p) THEN Over(p, asked[g])
                  ELSE [f \in DOMAIN asked[g] \ DOMAIN p |-> asked[g][f]]
  BY DEF GenSetParams, Set, Agreement
<1>3. Agrees(g)
  BY <1>1 DEF Agreement
<1>4. new.kind = gen[g].kind
  BY DEF SetParams
<1>5. \A f : ~Given(p, f) => ~Taken(gen[g], p, f)
  BY DEF Taken, LooksAt
<1>6. \A f : Given(asked'[g], f) =>
        \/ SetParamsOk(gen[g], p) /\ Given(p, f) /\ asked'[g][f] = p[f]
        \/ ~Given(p, f) /\ Given(asked[g], f) /\ asked'[g][f] = asked[g][f]
  BY <1>2 DEF Given, Over
<1> HIDE DEF new
<1>7. ASSUME NEW f \in Places, Given(asked'[g], f) PROVE new[f] = asked'[g][f]
  <2>1. CASE SetParamsOk(gen[g], p) /\ Given(p, f) /\ asked'[g][f] = p[f]
    BY <2>1, NumbersTaken DEF new
  <2>2. CASE ~Given(p, f) /\ Given(asked[g], f) /\ asked'[g][f] = asked[g][f]
    BY <1>3, <1>5, <2>2, SetParamsIs DEF new, Agrees
  <2> QED
    BY <1>6, <1>7, <2>1, <2>2
<1>8. ASSUME Given(asked'[g], "group"), new.kind = "EC"
      PROVE  Known(asked'[g]["group"]) /\ new.curve = OfName(asked'[g]["group"]).type
  <2>1. CASE SetParamsOk(gen[g], p) /\ Given(p, "group") /\ asked'[g]["group"] = p["group"]
    <3>1. Taken(gen[g], p, "group")
      BY <1>4, <1>8, <2>1, AllTaken DEF LooksAt
    <3>2. Known(p.group)
      BY <3>1, SetGroup
    <3> QED
      BY <2>1, <3>1, <3>2 DEF new, SetParams
  <2>2. CASE ~Given(p, "group") /\ Given(asked[g], "group") /\ asked'[g]["group"] = asked[g]["group"]
    <3>1. new.curve = gen[g].curve
      BY <1>5, <2>2 DEF new, SetParams
    <3> QED
      BY <1>3, <1>4, <1>8, <2>2, <3>1 DEF Agrees
  <2> QED
    BY <1>6, <1>8, <2>1, <2>2
<1>9. Agrees(g)'
  BY <1>1, <1>7, <1>8 DEF Agrees
<1>10. \A h \in Gen : h # g => gen'[h] = gen[h] /\ asked'[h] = asked[h]
  BY TypeIs DEF IInv, GenSetParams, Set, Agreement
<1>11. asked' = [h \in Gen |-> asked'[h]]
  BY DEF GenSetParams, Set, Agreement
<1> QED
  BY <1>9, <1>10, <1>11 DEF Agreement, Agrees

LEMMA GenCleanupAgrees ==
  ASSUME IInv, Agreement, NEW g \in Gen, GenCleanup(g) PROVE Agreement'
<1>1. gen'[g] = NoGen /\ \A h \in Gen : h # g => gen'[h] = gen[h] /\ asked'[h] = asked[h]
  BY TypeIs DEF IInv, GenCleanup, Set, Agreement
<1>2. asked' = [h \in Gen |-> asked'[h]]
  BY DEF GenCleanup, Set, Agreement
<1> QED
  BY <1>1, <1>2 DEF Agreement, Agrees

LEMMA AgreesInitially == Init => Agreement
BY DEF Init, Agreement

LEMMA AgreesStep == PairAssumption /\ CallerAssumption /\ IInv /\ Agreement /\ [Next]_vars => Agreement'
<1> SUFFICES ASSUME PairAssumption, CallerAssumption, IInv, Agreement, [Next]_vars PROVE Agreement'
  OBVIOUS
<1>1. CASE UNCHANGED <<gen, asked>>
  BY <1>1 DEF Agreement, Agrees
<1>2. ASSUME NEW g \in Gen, NEW k \in Key, Generate(g, k) PROVE UNCHANGED <<gen, asked>>
  BY <1>2 DEF Generate
<1>3. ASSUME NEW k \in Key, NEW kind, NEW p, Import(k, kind, p) PROVE UNCHANGED <<gen, asked>>
  BY <1>3 DEF Import
<1>4. ASSUME NEW k \in Key, Free(k) PROVE UNCHANGED <<gen, asked>>
  BY <1>4 DEF Free
<1> QED
  BY <1>1, <1>2, <1>3, <1>4, GenInitAgrees, GenSetParamsAgrees, GenCleanupAgrees DEF Next, vars

\* A key that is generated is the one its context describes.
LEMMA AsAsked == PairAssumption /\ IInv /\ Agreement => GeneratesAsAsked
<1> SUFFICES ASSUME PairAssumption, IInv, Agreement, NEW g \in Gen, NEW k \in Key,
                    Generate(g, k), key'[k] # NoObject
    PROVE  LET p == asked[g] IN
           /\ \A f \in {"slot", "bus", "addr"} : Given(p, f) => key'[k][f] = p[f]
           /\ Given(p, "group") /\ gen[g].kind = "EC" => Bits(key'[k]) = OfName(p.group).bits
  BY DEF GeneratesAsAsked
<1>1. key'[k] = Generated(g) /\ gen[g] # NoGen /\ pairs < MaxPairs
  BY TypeIs DEF IInv, Generate, Set
<1>2. Agrees(g)
  BY <1>1 DEF Agreement
<1>3. /\ Generated(g).slot = gen[g].slot /\ Generated(g).bus = gen[g].bus /\ Generated(g).addr = gen[g].addr
      /\ Generated(g).kind = gen[g].kind
  BY DEF Generated
<1>4. \A f \in {"slot", "bus", "addr"} : Given(asked[g], f) => key'[k][f] = asked[g][f]
  BY <1>1, <1>2, <1>3 DEF Agrees, Places
<1>5. ASSUME Given(asked[g], "group"), gen[g].kind = "EC" PROVE Bits(key'[k]) = OfName(asked[g].group).bits
  <2>1. Generated(g).curve = OfName(asked[g].group).type /\ Known(asked[g].group)
    BY <1>1, <1>2, <1>5, GeneratedIsGood DEF Agrees
  <2> QED
    BY <1>1, <1>3, <1>5, <2>1, NameOfType DEF Bits
<1> QED
  BY <1>4, <1>5

-----------------------------------------------------------------------------
(* Export and import. *)

LEMMA ComesBack == PairAssumption /\ IInv => ExportComesBack
<1> SUFFICES ASSUME PairAssumption, IInv, NEW k \in Key, key[k] # NoObject, Has(key[k], {"public"})
    PROVE  LET p == Exported(key[k]) IN
           /\ ImportOk(key[k].kind, p)
           /\ Imported(key[k].kind, p).curve = key[k].curve
           /\ Imported(key[k].kind, p).len = key[k].len
  BY DEF ExportComesBack
<1> DEFINE x == key[k]
           p == Exported(x)
<1>1. x \in Keys /\ Fits(x) /\ x.len = PubLen(x.kind, x.curve)
  BY TypeIs DEF IInv, KeysFit, PubFitsCurve, Has
<1>2. x.kind \in {"EC", "X25519"} /\ x.len \in 1 .. PubPointSize /\ x.curve \in Curves \cup {"X25519"}
  BY <1>1 DEF Keys
<1>3. x.len # Bad
  BY <1>2 DEF PairAssumption, PubPointSize
<1> HIDE DEF x
<1>4. Given(p, "pub") /\ p.pub = x.len /\ p.pub # Bad
  BY <1>3 DEF Exported, Given
<1>5. ImportCurve(x.kind, p) = x.curve
      /\ (x.kind = "EC" /\ Given(p, "group") => p.group # Bad /\ Known(p.group))
  <2>1. CASE x.kind = "EC"
    <3>1. Given(p, "group") /\ p.group = OfType(x.curve).name
      BY <2>1 DEF Exported, Given, GroupName
    <3>2. Known(p.group) /\ OfName(p.group).type = x.curve
      BY <1>1, <2>1, <3>1, TypeOfName DEF Fits
    <3> QED
      BY <2>1, <3>1, <3>2 DEF ImportCurve, PairAssumption
  <2>2. CASE x.kind # "EC"
    <3>1. x.curve = "X25519" /\ x.kind = "X25519"
      BY <1>1, <1>2, <2>2 DEF Fits
    <3> QED
      BY <3>1, NewKeyIs DEF ImportCurve
  <2> QED
    BY <2>1, <2>2
<1>6. ImportOk(x.kind, p)
  BY <1>1, <1>4, <1>5 DEF ImportOk
<1>7. Imported(x.kind, p).curve = x.curve /\ Imported(x.kind, p).len = x.len
  <2> HIDE DEF p
  <2> QED
    BY <1>4, <1>5 DEF Imported
<1> QED
  BY <1>6, <1>7 DEF x

-----------------------------------------------------------------------------
(* Theorems. *)

\* The variables of the key management of the STSAFE-A120 have their types: the
\* curve, the numbers and the public key of every object are in range.
THEOREM KeyTypes == PairAssumption => (Spec => []TypeOK)
<1> SUFFICES ASSUME PairAssumption PROVE Spec => []TypeOK
  OBVIOUS
<1>1. Init => IInv
  BY Initially
<1>2. IInv /\ [Next]_vars => IInv'
  BY Step
<1>3. IInv => TypeOK
  BY DEF IInv
<1> QED
  BY <1>1, <1>2, <1>3, PTL DEF Spec

\* The place that a key object names holds the private half of the key or of one
\* generated there later, for any numbers of objects, contexts and places.
THEOREM PlaceHoldsPrivateHalf == PairAssumption => (Spec => []PrivateHalfInItsPlace)
<1> SUFFICES ASSUME PairAssumption PROVE Spec => []PrivateHalfInItsPlace
  OBVIOUS
<1>1. Init => IInv
  BY Initially
<1>2. IInv /\ [Next]_vars => IInv'
  BY Step
<1>3. IInv => PrivateHalfInItsPlace
  BY DEF IInv
<1> QED
  BY <1>1, <1>2, <1>3, PTL DEF Spec
=============================================================================
