------------------------- MODULE StsafelProviderProofs -------------------------
(***************************************************************************)
(* Theorems about StsafelProvider, for any keys, contexts, objects of      *)
(* OpenSSL and parameters.                                                 *)
(*                                                                         *)
(* The invariant: a key lives as long as a context borrows it (Borrowed),  *)
(* an object that is not freed has exactly one owner (Ownership), and what *)
(* a careful caller asked a context to verify with is there (Keeps).  What *)
(* was last signed or verified (did) needs the step that did it: these are *)
(* invariants of their own, kept by each step under IInv.                  *)
(***************************************************************************)
EXTENDS StsafelProvider, TLAPS

Keys == [slot : Number8, bus : Number8, addr : Number8, pub : 0 .. Foreign]
Ctxs == [key : Key \cup {NoKey}, md : Obj \cup {NULL}, sw : Obj \cup {NULL}]

\* The histories are kept for every context.
AskedIsKept == asked = [x \in Gen \cup Ctx |-> asked[x]]

\* A key lives as long as a signature context borrows it.
Borrowed == \A c \in Ctx : sctx[c].key \in Key => key[sctx[c].key] # Absent

\* The objects a context points to.
Own(c) == {sctx[c].md, sctx[c].sw} \cap Obj

Ownership ==
    /\ \A c \in Ctx : sctx[c].md \in Obj => sctx[c].md # sctx[c].sw
    /\ \A c \in Ctx, o \in Obj : o \in Own(c) => obj[o] # Freed
    /\ \A c, d \in Ctx, o \in Obj : o \in Own(c) /\ o \in Own(d) => c = d
    /\ \A o \in Obj : obj[o] # Freed => \E c \in Ctx : o \in Own(c)

\* What a careful caller has asked a context to verify with is still there.
Keeps(c) ==
    /\ asked[c].op \in {"verify", "digestVerify"} => asked[c].key \in Key /\ sctx[c].key = asked[c].key
    /\ asked[c].op = "verify" => sctx[c].sw \in Obj /\ obj[sctx[c].sw] = key[asked[c].key].pub

IInv == TypeOK /\ AskedIsKept /\ Borrowed /\ Ownership /\ (Careful => \A c \in Ctx : Keeps(c))

-----------------------------------------------------------------------------
(* Constants. *)

LEMMA TypeIs ==
  TypeOK <=> /\ key \in [Key -> {Absent} \cup Keys] /\ gen \in [Gen -> {Absent} \cup ParamsOf(Number8)]
             /\ sctx \in [Ctx -> {NoCtx} \cup Ctxs] /\ obj \in [Obj -> 1 .. Freed]
             /\ pairs \in 0 .. MaxPairs
BY DEF TypeOK, Keys, Ctxs

LEMMA TypeNext ==
  TypeOK' <=> /\ key' \in [Key -> {Absent} \cup Keys] /\ gen' \in [Gen -> {Absent} \cup ParamsOf(Number8)]
              /\ sctx' \in [Ctx -> {NoCtx} \cup Ctxs] /\ obj' \in [Obj -> 1 .. Freed]
              /\ pairs' \in 0 .. MaxPairs
BY DEF TypeOK, Keys, Ctxs

LEMMA Distinct ==
  ASSUME ProviderAssumption
  PROVE  /\ NULL \notin Obj /\ NoCtx.md \notin Obj /\ NoCtx.sw \notin Obj /\ NoCtx.key \notin Key
         /\ NoKey \notin Key /\ Gen \cap Ctx = {}
         /\ MaxPairs \in Nat /\ Foreign = MaxPairs + 1 /\ Freed = MaxPairs + 2
BY DEF ProviderAssumption, NULL, NoCtx, Foreign, Freed

LEMMA ByteIs == \A n \in Nat : Byte(n) \in Number8 /\ (n < 256 => Byte(n) = n)
BY DEF Byte, Number8

LEMMA KeyIs ==
  ASSUME NEW x \in Keys
  PROVE  x # Absent /\ x.slot \in Number8 /\ x.bus \in Number8 /\ x.addr \in Number8 /\ x.pub \in 0 .. Foreign
<1>1. x.slot \in Number8 /\ x.bus \in Number8 /\ x.addr \in Number8 /\ x.pub \in 0 .. Foreign
  BY DEF Keys
<1>2. "bus" \in DOMAIN x /\ "bus" \notin DOMAIN Absent
  BY DEF Absent, Keys
<1> QED
  BY <1>1, <1>2

LEMMA GenIs == ASSUME NEW x \in ParamsOf(Number8) PROVE x # Absent
<1>1. x.slot \in Number8
  BY DEF ParamsOf
<1>2. "bus" \in DOMAIN x /\ "bus" \notin DOMAIN Absent
  BY DEF Absent, ParamsOf
<1> QED
  BY <1>1, <1>2

-----------------------------------------------------------------------------
(* Generation contexts. *)

Places == {"slot", "bus", "addr"}

LEMMA TakenIs == ASSUME NEW p, NEW f \in Places, Taken(p, f) PROVE Given(p, f) /\ p[f] # Bad
BY DEF Taken, Before, Good, Places

LEMMA SetParamsIs ==
  ASSUME NEW g, NEW p, NEW f \in Places
  PROVE  SetParams(g, p)[f] = IF Taken(p, f) THEN Byte(p[f]) ELSE g[f]
<1>1. CASE f = "slot"
  BY <1>1 DEF SetParams
<1>2. CASE f = "bus"
  BY <1>2 DEF SetParams
<1>3. CASE f = "addr"
  BY <1>3 DEF SetParams
<1> QED
  BY <1>1, <1>2, <1>3 DEF Places

LEMMA SetParamsType ==
  ASSUME ProviderAssumption, NEW g \in ParamsOf(Number8), NEW p \in InitParams \cup GenParams
  PROVE  SetParams(g, p) \in ParamsOf(Number8)
<1>1. ASSUME NEW f \in Places, Taken(p, f) PROVE Byte(p[f]) \in Number8
  BY <1>1, TakenIs, ByteIs DEF ProviderAssumption, Places
<1> QED
  BY <1>1 DEF SetParams, ParamsOf, Places

LEMMA OnlyGens ==
  ASSUME ProviderAssumption, IInv, NEW g \in Gen, NEW v \in {Absent} \cup ParamsOf(Number8), NEW p,
         gen' = Set(gen, g, v), asked' = Set(asked, g, p), UNCHANGED <<key, sctx, obj, pairs>>
  PROVE  IInv'
<1>1. gen' \in [Gen -> {Absent} \cup ParamsOf(Number8)]
  BY TypeIs DEF IInv, Set
<1>2. TypeOK'
  BY <1>1, TypeIs, TypeNext DEF IInv
<1>3. AskedIsKept' /\ \A c \in Ctx : asked'[c] = asked[c]
  BY Distinct DEF IInv, AskedIsKept, Set
<1>4. Borrowed' /\ Ownership'
  BY DEF IInv, Borrowed, Ownership, Own
<1>5. Careful => \A c \in Ctx : Keeps(c)'
  BY <1>3 DEF IInv, Keeps
<1> QED
  BY <1>2, <1>3, <1>4, <1>5 DEF IInv

LEMMA GenInitInv ==
  ASSUME ProviderAssumption, IInv, NEW g \in Gen, NEW p \in InitParams, GenInit(g, p) PROVE IInv'
<1>1. Default \in ParamsOf(Number8)
  BY DEF Default, ParamsOf, Number8
<1>2. SetParams(Default, p) \in ParamsOf(Number8)
  BY <1>1, SetParamsType
<1> QED
  BY <1>2, OnlyGens DEF GenInit, KeysOnly

LEMMA GenSetParamsInv ==
  ASSUME ProviderAssumption, IInv, NEW g \in Gen, NEW p \in GenParams, GenSetParams(g, p) PROVE IInv'
<1>1. gen[g] \in ParamsOf(Number8)
  BY TypeIs DEF IInv, GenSetParams
<1>2. SetParams(gen[g], p) \in ParamsOf(Number8)
  BY <1>1, SetParamsType
<1> QED
  BY <1>2, OnlyGens DEF GenSetParams, KeysOnly

LEMMA GenCleanupInv == ASSUME ProviderAssumption, IInv, NEW g \in Gen, GenCleanup(g) PROVE IInv'
BY OnlyGens DEF GenCleanup, KeysOnly

-----------------------------------------------------------------------------
(* Keys. *)

\* A key object that no context borrows is made or freed.
LEMMA OnlyKey ==
  ASSUME ProviderAssumption, IInv, NEW k \in Key, NEW v \in {Absent} \cup Keys,
         key' = Set(key, k, v) \/ UNCHANGED key, \A c \in Ctx : sctx[c].key # k,
         UNCHANGED <<gen, sctx, obj, asked>>, pairs' \in 0 .. MaxPairs
  PROVE  IInv'
<1>1. key' \in [Key -> {Absent} \cup Keys]
  BY TypeIs DEF IInv, Set
<1>2. TypeOK'
  BY <1>1, TypeIs, TypeNext DEF IInv
<1>3. \A c \in Ctx : sctx[c].key \in Key => key'[sctx[c].key] = key[sctx[c].key]
  BY TypeIs DEF IInv, Set
<1>4. Borrowed'
  BY <1>3 DEF IInv, Borrowed
<1>5. Ownership' /\ AskedIsKept'
  BY DEF IInv, Ownership, Own, AskedIsKept
<1>6. ASSUME Careful, NEW c \in Ctx PROVE Keeps(c)'
  <2>1. Keeps(c)
    BY <1>6 DEF IInv
  <2> QED
    BY <1>3, <2>1 DEF Keeps
<1> QED
  BY <1>2, <1>4, <1>5, <1>6 DEF IInv

\* What is not there nobody borrows.
LEMMA NotBorrowed == ASSUME IInv, NEW k \in Key, key[k] = Absent PROVE \A c \in Ctx : sctx[c].key # k
BY DEF IInv, Borrowed

LEMMA GenerateInv ==
  ASSUME ProviderAssumption, IInv, NEW g \in Gen, NEW k \in Key, Generate(g, k) PROVE IInv'
<1> DEFINE v == [slot |-> gen[g].slot, bus |-> gen[g].bus, addr |-> gen[g].addr, pub |-> pairs + 1]
<1>1. pairs \in Nat /\ MaxPairs \in Nat /\ pairs < MaxPairs /\ pairs <= MaxPairs
  BY TypeIs, Distinct DEF IInv, Generate
<1>2. gen[g] \in ParamsOf(Number8)
  BY TypeIs DEF IInv, Generate
<1>3. v \in Keys
  BY <1>1, <1>2, Distinct DEF Keys, ParamsOf
<1>4. \A c \in Ctx : sctx[c].key # k
  BY NotBorrowed DEF Generate
<1>5. pairs' \in 0 .. MaxPairs /\ UNCHANGED <<gen, sctx, obj, asked>>
  BY <1>1 DEF Generate
<1>6. key' = Set(key, k, v) \/ UNCHANGED key
  BY DEF Generate
<1> HIDE DEF v
<1> QED
  BY <1>3, <1>4, <1>5, <1>6, OnlyKey

LEMMA NewKeyType ==
  ProviderAssumption =>
      NewKey \in Keys /\ NewKey.slot \in Number8 /\ NewKey.bus \in Number8 /\ NewKey.addr \in Number8
BY Distinct DEF NewKey, Keys, Number8, NoPub

LEMMA ImportedType ==
  ASSUME ProviderAssumption, NEW p, p.pub \in 0 .. Foreign,
         \A f \in Places : Given(p, f) => p[f] \in Nat \cup {Bad}
  PROVE  Imported(p) \in Keys
<1>1. ASSUME NEW f \in Places, NEW n \in Number8 PROVE Number(p, f, n) \in Number8
  BY ByteIs DEF Number
<1>2. /\ Number(p, "slot", NewKey.slot) \in Number8 /\ Number(p, "bus", NewKey.bus) \in Number8
      /\ Number(p, "addr", NewKey.addr) \in Number8
  BY <1>1, NewKeyType DEF Places
<1> QED
  BY <1>2 DEF Imported, Keys

LEMMA ImportInv ==
  ASSUME ProviderAssumption, IInv, NEW k \in Key, NEW p \in ImportParams, Import(k, p) PROVE IInv'
<1>1. p.pub # Bad => Imported(p) \in Keys
  <2>1. p.pub # Bad => p.pub \in 0 .. Foreign
    BY Distinct DEF ProviderAssumption
  <2>2. \A f \in Places : Given(p, f) => p[f] \in Nat \cup {Bad}
    BY DEF ProviderAssumption, Places
  <2> QED
    BY <2>1, <2>2, ImportedType
<1>2. \A c \in Ctx : sctx[c].key # k
  BY NotBorrowed DEF Import
<1>3. pairs' \in 0 .. MaxPairs /\ UNCHANGED <<gen, sctx, obj, asked>>
  BY TypeIs DEF IInv, Import, KeysOnly
<1> QED
  BY <1>1, <1>2, <1>3, NewKeyType, OnlyKey DEF Import

LEMMA ExportInv ==
  ASSUME ProviderAssumption, IInv, NEW k \in Key, NEW j \in Key, Export(k, j) PROVE IInv'
<1> DEFINE p == [pub |-> key[k].pub]
<1>1. key[k].pub \in 0 .. Foreign
  BY TypeIs, KeyIs DEF IInv, Export
<1>2. p.pub \in 0 .. Foreign /\ \A f \in Places : ~Given(p, f)
  BY <1>1 DEF Given, Places
<1>3. Imported(p) \in Keys
  <2> HIDE DEF p
  <2> QED
    BY <1>2, ImportedType
<1>4. \A c \in Ctx : sctx[c].key # j
  BY NotBorrowed DEF Export
<1>5. pairs' \in 0 .. MaxPairs /\ UNCHANGED <<gen, sctx, obj, asked>>
  BY TypeIs DEF IInv, Export, KeysOnly
<1>6. key' = Set(key, j, Imported(p))
  BY DEF Export
<1> HIDE DEF p
<1> QED
  BY <1>3, <1>4, <1>5, <1>6, OnlyKey

LEMMA FreeInv == ASSUME ProviderAssumption, IInv, NEW k \in Key, Free(k) PROVE IInv'
<1>1. pairs' \in 0 .. MaxPairs /\ UNCHANGED <<gen, sctx, obj, asked>>
  BY TypeIs DEF IInv, Free, KeysOnly
<1> QED
  BY <1>1, OnlyKey DEF Free
-----------------------------------------------------------------------------
(* Signature contexts and their objects. *)

\* What any step of context c does to the others: nothing.  Of the objects it
\* touches those it had, which it frees if it gives them up, and those it takes,
\* which were free.
Moves(c) ==
    /\ \A d \in Ctx : d # c => sctx'[d] = sctx[d]
    /\ \A o \in Obj : o \notin Own(c) /\ o \notin Own(c)' => obj'[o] = obj[o]
    /\ \A o \in Obj : o \in Own(c) /\ o \notin Own(c)' => obj'[o] = Freed
    /\ \A o \in Obj : o \in Own(c)' => obj'[o] # Freed /\ (obj[o] = Freed \/ o \in Own(c))
    /\ sctx'[c].md \in Obj => sctx'[c].md # sctx'[c].sw

LEMMA MovesKeepsOwnership == ASSUME Ownership, NEW c \in Ctx, Moves(c) PROVE Ownership'
<1>1. \A d \in Ctx : d # c => Own(d)' = Own(d)
  BY DEF Own, Moves
<1>2. ASSUME NEW d \in Ctx, sctx'[d].md \in Obj PROVE sctx'[d].md # sctx'[d].sw
  BY <1>2 DEF Moves, Ownership
<1>3. ASSUME NEW d \in Ctx, NEW o \in Obj, o \in Own(d)' PROVE obj'[o] # Freed
  <2>1. CASE d = c
    BY <1>3, <2>1 DEF Moves
  <2>2. CASE d # c
    BY <1>1, <1>3, <2>2 DEF Moves, Ownership
  <2> QED
    BY <2>1, <2>2
<1>4. ASSUME NEW d \in Ctx, NEW e \in Ctx, NEW o \in Obj, o \in Own(d)', o \in Own(e)' PROVE d = e
  BY <1>1, <1>4 DEF Moves, Ownership
<1>5. ASSUME NEW o \in Obj, obj'[o] # Freed PROVE \E d \in Ctx : o \in Own(d)'
  <2>1. CASE o \in Own(c)'
    BY <2>1
  <2>2. CASE o \notin Own(c)'
    <3>1. o \notin Own(c) /\ obj[o] # Freed
      BY <1>5, <2>2 DEF Moves
    <3>2. PICK d \in Ctx : o \in Own(d)
      BY <3>1 DEF Ownership
    <3> QED
      BY <1>1, <3>1, <3>2
  <2> QED
    BY <2>1, <2>2
<1> QED
  BY <1>2, <1>3, <1>4, <1>5 DEF Ownership

LEMMA OthersKeep ==
  ASSUME Ownership, UNCHANGED key, NEW c \in Ctx, Moves(c), NEW d \in Ctx, d # c, asked'[d] = asked[d], Keeps(d)
  PROVE  Keeps(d)'
<1>1. sctx'[d] = sctx[d] /\ Own(d)' = Own(d)
  BY DEF Moves, Own
<1>2. sctx[d].sw \in Obj => sctx[d].sw \in Own(d)
  BY DEF Own
<1>3. \A o \in Obj : o \in Own(d) => obj'[o] = obj[o]
  BY <1>1 DEF Moves, Ownership
<1> QED
  BY <1>1, <1>2, <1>3 DEF Keeps

\* A step of a context that only touches what is its own.
LEMMA ByMoving ==
  ASSUME ProviderAssumption, IInv, NEW c \in Ctx, Moves(c), UNCHANGED <<key, gen, pairs>>,
         sctx' \in [Ctx -> {NoCtx} \cup Ctxs], obj' \in [Obj -> 1 .. Freed],
         sctx'[c].key \in Key => key[sctx'[c].key] # Absent,
         asked' = asked \/ \E want : Asked(c, want), Careful => Keeps(c)'
  PROVE  IInv'
<1>1. TypeOK'
  BY TypeIs, TypeNext DEF IInv
<1>2. AskedIsKept' /\ \A d \in Ctx : d # c => asked'[d] = asked[d]
  BY DEF IInv, AskedIsKept, Asked, Set
<1>3. Borrowed'
  BY DEF IInv, Borrowed, Moves
<1>4. Ownership'
  BY MovesKeepsOwnership DEF IInv
<1>5. ASSUME Careful, NEW d \in Ctx PROVE Keeps(d)'
  <2>1. CASE d = c
    BY <1>5, <2>1
  <2>2. CASE d # c
    BY <1>2, <1>5, <2>2, OthersKeep DEF IInv
  <2> QED
    BY <2>1, <2>2
<1> QED
  BY <1>1, <1>2, <1>3, <1>4, <1>5 DEF IInv

LEMMA FailedKeeps == ASSUME IInv, Careful, NEW c \in Ctx, Failed(c) PROVE Keeps(c)'
<1>1. asked'[c] = Nothing
  BY DEF IInv, AskedIsKept, Failed, Asked, Set
<1> QED
  BY <1>1 DEF Keeps, Nothing

LEMMA WithoutIs ==
  ASSUME ProviderAssumption, NEW heap \in [Obj -> 1 .. Freed], NEW o
  PROVE  /\ Without(heap, o) \in [Obj -> 1 .. Freed]
         /\ \A x \in Obj : Without(heap, o)[x] = IF x = o THEN Freed ELSE heap[x]
<1>1. Freed \in 1 .. Freed
  BY Distinct
<1> QED
  BY <1>1, Distinct DEF Without, Set

LEMMA FreshIsSpare ==
  ASSUME NEW heap, Spare(heap) # {} PROVE Fresh(heap) \in Obj /\ heap[Fresh(heap)] = Freed
BY DEF Fresh, Spare

LEMMA CtxIs ==
  ASSUME IInv, NEW c \in Ctx, sctx[c] # NoCtx
  PROVE  sctx[c].key \in Key \cup {NoKey} /\ sctx[c].md \in Obj \cup {NULL} /\ sctx[c].sw \in Obj \cup {NULL}
BY TypeIs DEF IInv, Ctxs

LEMMA SetCtx ==
  ASSUME IInv, NEW c \in Ctx, NEW k \in Key \cup {NoKey}, NEW m \in Obj \cup {NULL}, NEW w \in Obj \cup {NULL},
         sctx' = Set(sctx, c, [key |-> k, md |-> m, sw |-> w])
  PROVE  /\ sctx' \in [Ctx -> {NoCtx} \cup Ctxs] /\ \A d \in Ctx : d # c => sctx'[d] = sctx[d]
         /\ sctx'[c].key = k /\ sctx'[c].md = m /\ sctx'[c].sw = w
BY TypeIs DEF IInv, Ctxs, Set

\* A context that keeps some of its objects and frees the others.
LEMMA DropMoves ==
  ASSUME ProviderAssumption, IInv, NEW c \in Ctx, sctx[c] # NoCtx, NEW k \in Key \cup {NoKey},
         NEW m \in {sctx[c].md, NULL}, NEW w \in {sctx[c].sw, NULL},
         sctx' = Set(sctx, c, [key |-> k, md |-> m, sw |-> w]),
         obj' \in [Obj -> 1 .. Freed],
         \A o \in Obj : obj'[o] = IF o \in Own(c) /\ o # m /\ o # w THEN Freed ELSE obj[o]
  PROVE  Moves(c) /\ sctx' \in [Ctx -> {NoCtx} \cup Ctxs] /\ sctx'[c].key = k
<1>1. m \in Obj \cup {NULL} /\ w \in Obj \cup {NULL}
  BY CtxIs
<1>2. /\ sctx' \in [Ctx -> {NoCtx} \cup Ctxs] /\ \A d \in Ctx : d # c => sctx'[d] = sctx[d]
      /\ sctx'[c].key = k /\ sctx'[c].md = m /\ sctx'[c].sw = w
  BY <1>1, SetCtx
<1>3. Own(c)' = {m, w} \cap Obj /\ Own(c)' \subseteq Own(c)
  BY <1>2, Distinct DEF Own
<1>4. \A o \in Obj : o \in Own(c) => obj[o] # Freed
  BY DEF IInv, Ownership
<1>5. m \in Obj => m # w
  BY Distinct DEF IInv, Ownership
<1> QED
  BY <1>2, <1>3, <1>4, <1>5 DEF Moves

\* A context that frees its objects and takes one.
LEMMA TakeMoves ==
  ASSUME ProviderAssumption, IInv, NEW c \in Ctx, NEW k \in Key \cup {NoKey}, NEW x \in Obj,
         NEW m, NEW w, <<m, w>> \in {<<x, NULL>>, <<NULL, x>>}, obj[x] = Freed \/ x \in Own(c),
         sctx' = Set(sctx, c, [key |-> k, md |-> m, sw |-> w]),
         obj'[x] # Freed,
         \A o \in Obj : o # x => obj'[o] = IF o \in Own(c) THEN Freed ELSE obj[o]
  PROVE  Moves(c) /\ sctx' \in [Ctx -> {NoCtx} \cup Ctxs] /\ sctx'[c].key = k
<1>1. m \in Obj \cup {NULL} /\ w \in Obj \cup {NULL} /\ m # w /\ {m, w} \cap Obj = {x}
  BY Distinct
<1>2. /\ sctx' \in [Ctx -> {NoCtx} \cup Ctxs] /\ \A d \in Ctx : d # c => sctx'[d] = sctx[d]
      /\ sctx'[c].key = k /\ sctx'[c].md = m /\ sctx'[c].sw = w
  BY <1>1, SetCtx
<1>3. Own(c)' = {x}
  BY <1>1, <1>2 DEF Own
<1> QED
  BY <1>1, <1>2, <1>3 DEF Moves

\* A context that stays as it is, but for the key.
LEMMA StayMoves ==
  ASSUME ProviderAssumption, IInv, NEW c \in Ctx, sctx[c] # NoCtx, NEW k \in Key \cup {NoKey},
         sctx' = Set(sctx, c, [key |-> k, md |-> sctx[c].md, sw |-> sctx[c].sw]), UNCHANGED obj
  PROVE  Moves(c) /\ sctx' \in [Ctx -> {NoCtx} \cup Ctxs] /\ sctx'[c].key = k /\ obj' \in [Obj -> 1 .. Freed]
<1>1. obj' \in [Obj -> 1 .. Freed]
  BY TypeIs DEF IInv
<1>2. \A o \in Obj : o \in Own(c) => o = sctx[c].md \/ o = sctx[c].sw
  BY DEF Own
<1> QED
  BY <1>1, <1>2, DropMoves

\* A context that stays as it is.
LEMMA StillInv ==
  ASSUME ProviderAssumption, IInv, NEW c \in Ctx, UNCHANGED <<key, gen, sctx, obj, pairs>>,
         asked' = asked \/ Failed(c)
  PROVE  IInv'
<1>1. Moves(c)
  BY DEF Moves, Own, IInv, Ownership
<1>2. Careful => Keeps(c)'
  <2>1. CASE asked' = asked
    BY <2>1 DEF IInv, Keeps
  <2> QED
    BY <2>1, FailedKeeps
<1>3. sctx' \in [Ctx -> {NoCtx} \cup Ctxs] /\ obj' \in [Obj -> 1 .. Freed]
  BY TypeIs DEF IInv
<1>4. sctx'[c].key \in Key => key[sctx'[c].key] # Absent
  BY DEF IInv, Borrowed
<1> QED
  BY <1>1, <1>2, <1>3, <1>4, ByMoving DEF Failed

LEMMA NewCtxInv == ASSUME ProviderAssumption, IInv, NEW c \in Ctx, NewCtx(c) PROVE IInv'
<1>1. /\ sctx' \in [Ctx -> {NoCtx} \cup Ctxs] /\ \A d \in Ctx : d # c => sctx'[d] = sctx[d]
      /\ sctx'[c].key = NoKey /\ sctx'[c].md = NULL /\ sctx'[c].sw = NULL
  BY SetCtx DEF NewCtx
<1>2. Own(c) = {} /\ Own(c)' = {}
  BY <1>1, Distinct DEF Own, NewCtx
<1>3. Moves(c)
  BY <1>1, <1>2, Distinct DEF Moves, NewCtx
<1>4. Careful => Keeps(c)'
  <2>1. sctx[c].key \notin Key /\ sctx[c].sw \notin Obj /\ asked' = asked
    BY Distinct DEF NewCtx
  <2> QED
    BY <2>1 DEF IInv, Keeps
<1>5. obj' \in [Obj -> 1 .. Freed]
  BY TypeIs DEF IInv, NewCtx
<1> QED
  BY <1>1, <1>3, <1>4, <1>5, Distinct, ByMoving DEF NewCtx, CtxOnly

LEMMA FreeCtxInv == ASSUME ProviderAssumption, IInv, NEW c \in Ctx, FreeCtx(c) PROVE IInv'
<1>1. sctx'[c] = NoCtx /\ sctx' \in [Ctx -> {NoCtx} \cup Ctxs] /\ \A d \in Ctx : d # c => sctx'[d] = sctx[d]
  BY TypeIs DEF IInv, FreeCtx, Set
<1>2. /\ obj' \in [Obj -> 1 .. Freed]
      /\ \A o \in Obj : obj'[o] = IF o \in Own(c) THEN Freed ELSE obj[o]
  <2>1. obj \in [Obj -> 1 .. Freed]
    BY TypeIs DEF IInv
  <2> QED
    BY <2>1, WithoutIs DEF FreeCtx, Own
<1>3. Own(c)' = {} /\ sctx'[c].md \notin Obj /\ sctx'[c].key \notin Key
  BY <1>1, Distinct DEF Own
<1>4. Moves(c)
  BY <1>1, <1>2, <1>3 DEF Moves
<1> QED
  BY <1>1, <1>2, <1>3, <1>4, FailedKeeps, ByMoving DEF FreeCtx, CtxOnly, Failed

LEMMA DupCtxInv ==
  ASSUME ProviderAssumption, IInv, NEW c \in Ctx, NEW d \in Ctx, DupCtx(c, d) PROVE IInv'
<1> DEFINE owned == {sctx[c].md, sctx[c].sw} \ {NULL}
<1>1. PICK f \in [owned -> Spare(obj)] :
        /\ \A o, p \in owned : f[o] = f[p] => o = p
        /\ sctx' = Set(sctx, d, [key |-> sctx[c].key,
                                 md |-> IF sctx[c].md = NULL THEN NULL ELSE f[sctx[c].md],
                                 sw |-> IF sctx[c].sw = NULL THEN NULL ELSE f[sctx[c].sw]])
        /\ obj' = [o \in Obj |-> IF \E p \in owned : f[p] = o
                                 THEN obj[CHOOSE p \in owned : f[p] = o] ELSE obj[o]]
  BY DEF DupCtx
<1> DEFINE m == IF sctx[c].md = NULL THEN NULL ELSE f[sctx[c].md]
           w == IF sctx[c].sw = NULL THEN NULL ELSE f[sctx[c].sw]
<1>2. /\ sctx[c].key \in Key \cup {NoKey} /\ sctx[c].md \in Obj \cup {NULL} /\ sctx[c].sw \in Obj \cup {NULL}
      /\ sctx[d] = NoCtx /\ sctx[c] # NoCtx
  BY CtxIs DEF DupCtx
<1>3. owned = Own(c) /\ owned \subseteq Obj
  BY <1>2, Distinct DEF Own
<1>4. \A p \in owned : f[p] \in Obj /\ obj[f[p]] = Freed /\ obj[p] # Freed
  BY <1>1, <1>3 DEF Spare, IInv, Ownership
<1>5. \A p \in owned : obj'[f[p]] = obj[p]
  <2> SUFFICES ASSUME NEW p \in owned PROVE obj'[f[p]] = obj[p]
    OBVIOUS
  <2>1. (CHOOSE q \in owned : f[q] = f[p]) = p
    BY <1>1
  <2>2. f[p] \in Obj
    BY <1>4
  <2> HIDE DEF owned
  <2> QED
    BY <1>1, <2>1, <2>2
<1>6. \A o \in Obj : (\A p \in owned : f[p] # o) => obj'[o] = obj[o]
  BY <1>1
<1>7. m \in Obj \cup {NULL} /\ w \in Obj \cup {NULL}
  BY <1>4
<1>8. /\ sctx' \in [Ctx -> {NoCtx} \cup Ctxs] /\ \A e \in Ctx : e # d => sctx'[e] = sctx[e]
      /\ sctx'[d].key = sctx[c].key /\ sctx'[d].md = m /\ sctx'[d].sw = w
  <2>1. sctx' = Set(sctx, d, [key |-> sctx[c].key, md |-> m, sw |-> w])
    BY <1>1
  <2> HIDE DEF m, w
  <2> QED
    BY <1>2, <1>7, <2>1, SetCtx
<1>9. Own(d)' = {m, w} \cap Obj /\ Own(d) = {}
  BY <1>2, <1>8, Distinct DEF Own
<1>10. \A o \in Obj : o \in Own(d)' <=> \E p \in owned : f[p] = o
  BY <1>2, <1>4, <1>9, Distinct
<1>11. m \in Obj => m # w
  <2>1. sctx[c].md \in Obj => sctx[c].md # sctx[c].sw
    BY DEF IInv, Ownership
  <2> QED
    BY <1>1, <1>2, <2>1, Distinct
<1>12. obj' \in [Obj -> 1 .. Freed]
  <2>1. obj \in [Obj -> 1 .. Freed]
    BY TypeIs DEF IInv
  <2>2. \A o \in Obj : obj'[o] \in 1 .. Freed
    <3> HIDE DEF owned
    <3> QED
      BY <1>3, <1>5, <1>6, <2>1
  <2>3. obj' = [o \in Obj |-> obj'[o]]
    BY <1>1
  <2> QED
    BY <2>2, <2>3
<1> HIDE DEF owned, m, w
<1>13. Moves(d)
  BY <1>4, <1>5, <1>6, <1>8, <1>9, <1>10, <1>11 DEF Moves
<1>14. Careful => Keeps(d)'
  <2> SUFFICES ASSUME Careful PROVE Keeps(d)'
    OBVIOUS
  <2>1. asked'[d] = asked[c] /\ Keeps(c) /\ UNCHANGED key
    BY DEF DupCtx, CtxOnly, Asked, Set, IInv, AskedIsKept
  <2>2. sctx[c].sw \in Obj => w = f[sctx[c].sw] /\ sctx[c].sw \in owned
    BY <1>2, Distinct DEF w, owned
  <2> QED
    BY <1>4, <1>5, <1>8, <2>1, <2>2 DEF Keeps
<1>15. sctx'[d].key \in Key => key[sctx'[d].key] # Absent
  BY <1>8 DEF IInv, Borrowed
<1> QED
  BY <1>8, <1>12, <1>13, <1>14, <1>15, ByMoving, Zenon DEF DupCtx, CtxOnly

LEMMA SignInitInv ==
  ASSUME ProviderAssumption, IInv, NEW c \in Ctx, NEW k \in {j \in Key : key[j] # Absent} \cup {NoKey},
         SignInit(c, k)
  PROVE  IInv'
<1>1. /\ sctx[c] # NoCtx /\ UNCHANGED <<key, gen, pairs, obj>> /\ k \in Key \cup {NoKey}
      /\ sctx' = Set(sctx, c, [key |-> k, md |-> sctx[c].md, sw |-> sctx[c].sw])
  BY DEF SignInit, CtxOnly
<1>2. Moves(c) /\ sctx' \in [Ctx -> {NoCtx} \cup Ctxs] /\ sctx'[c].key = k /\ obj' \in [Obj -> 1 .. Freed]
  BY <1>1, StayMoves
<1>3. k \in Key => key[k] # Absent
  BY Distinct
<1>4. Careful => Keeps(c)'
  <2>1. CASE Failed(c)
    BY <2>1, FailedKeeps
  <2>2. CASE Succeeded(c, "sign")
    <3> SUFFICES ASSUME Careful PROVE Keeps(c)'
      OBVIOUS
    <3>1. asked'[c] = [op |-> "sign", key |-> k]
      BY <1>2, <2>2 DEF Succeeded, Asked, Set, IInv, AskedIsKept
    <3>2. asked'[c].op = "sign"
      BY <3>1
    <3> QED
      BY <3>2 DEF Keeps
  <2> QED
    BY <2>1, <2>2 DEF SignInit
<1>5. \E want : Asked(c, want)
  BY DEF SignInit, Failed, Succeeded
<1> QED
  BY <1>1, <1>2, <1>3, <1>4, <1>5, ByMoving

LEMMA VerifyInitInv ==
  ASSUME ProviderAssumption, IInv, NEW c \in Ctx, NEW k \in {j \in Key : key[j] # Absent} \cup {NoKey},
         VerifyInit(c, k)
  PROVE  IInv'
<1> DEFINE heap == Without(obj, sctx[c].md)
           free == Without(heap, sctx[c].sw)
<1>1. sctx[c] # NoCtx /\ UNCHANGED <<key, gen, pairs>> /\ k \in Key \cup {NoKey}
  BY DEF VerifyInit, CtxOnly
<1>2. /\ heap \in [Obj -> 1 .. Freed]
      /\ \A o \in Obj : heap[o] = IF o = sctx[c].md THEN Freed ELSE obj[o]
  BY TypeIs, WithoutIs DEF IInv
<1>3. /\ free \in [Obj -> 1 .. Freed]
      /\ \A o \in Obj : free[o] = IF o \in Own(c) THEN Freed ELSE obj[o]
  BY <1>2, WithoutIs DEF Own
<1>4. k \in Key => key[k] # Absent
  BY Distinct
<1> HIDE DEF heap, free
<1>5. CASE /\ sctx' = Set(sctx, c, [key |-> NoKey, md |-> sctx[c].md, sw |-> sctx[c].sw])
           /\ UNCHANGED obj /\ Failed(c)
  <2>1. Moves(c) /\ sctx' \in [Ctx -> {NoCtx} \cup Ctxs] /\ sctx'[c].key = NoKey /\ obj' \in [Obj -> 1 .. Freed]
    BY <1>1, <1>5, StayMoves
  <2> QED
    BY <1>1, <1>5, <2>1, FailedKeeps, Distinct, ByMoving DEF Failed
<1>6. CASE /\ sctx' = Set(sctx, c, [key |-> k, md |-> NULL, sw |-> sctx[c].sw])
           /\ obj' = heap /\ Failed(c)
  <2>1. /\ sctx[c].md \in Obj => sctx[c].md # sctx[c].sw
        /\ sctx[c].md \in Obj \cup {NULL} /\ sctx[c].sw \in Obj \cup {NULL}
    BY <1>1, CtxIs DEF IInv, Ownership
  <2>2. \A o \in Obj : obj'[o] = IF o \in Own(c) /\ o # NULL /\ o # sctx[c].sw THEN Freed ELSE obj[o]
    BY <1>2, <1>6, <2>1, Distinct DEF Own
  <2>3. Moves(c) /\ sctx' \in [Ctx -> {NoCtx} \cup Ctxs] /\ sctx'[c].key = k
    BY <1>1, <1>2, <1>6, <2>2, DropMoves
  <2> QED
    BY <1>1, <1>2, <1>4, <1>6, <2>3, FailedKeeps, ByMoving DEF Failed
<1>7. CASE /\ sctx' = Set(sctx, c, [key |-> k, md |-> NULL, sw |-> NULL])
           /\ obj' = free /\ Failed(c)
  <2>1. \A o \in Obj : obj'[o] = IF o \in Own(c) /\ o # NULL /\ o # NULL THEN Freed ELSE obj[o]
    BY <1>3, <1>7, Distinct
  <2>2. Moves(c) /\ sctx' \in [Ctx -> {NoCtx} \cup Ctxs] /\ sctx'[c].key = k
    BY <1>1, <1>3, <1>7, <2>1, DropMoves
  <2> QED
    BY <1>1, <1>3, <1>4, <1>7, <2>2, FailedKeeps, ByMoving DEF Failed
<1>8. CASE /\ HasSoftKey(k) /\ Spare(free) # {}
           /\ sctx' = Set(sctx, c, [key |-> k, md |-> NULL, sw |-> Fresh(free)])
           /\ obj' = Set(free, Fresh(free), key[k].pub) /\ Succeeded(c, "verify")
  <2>1. k \in Key /\ key[k].pub \in 1 .. Foreign /\ key[k].pub \in 1 .. Freed /\ key[k].pub # Freed
    <3>1. k \in Key /\ key[k] \in Keys /\ key[k].pub # NoPub
      BY <1>1, <1>4, <1>8, TypeIs DEF HasSoftKey, IInv
    <3> QED
      BY <3>1, KeyIs, Distinct DEF NoPub
  <2>2. Fresh(free) \in Obj /\ free[Fresh(free)] = Freed
    BY <1>8, FreshIsSpare
  <2>3. obj[Fresh(free)] = Freed \/ Fresh(free) \in Own(c)
    BY <1>3, <2>2
  <2>4. /\ obj' \in [Obj -> 1 .. Freed] /\ obj'[Fresh(free)] = key[k].pub
        /\ \A o \in Obj : o # Fresh(free) => obj'[o] = IF o \in Own(c) THEN Freed ELSE obj[o]
    BY <1>3, <1>8, <2>1, <2>2 DEF Set
  <2>5. Moves(c) /\ sctx' \in [Ctx -> {NoCtx} \cup Ctxs] /\ sctx'[c].key = k
    BY <1>1, <1>8, <2>1, <2>2, <2>3, <2>4, TakeMoves
  <2>6. Careful => Keeps(c)'
    <3> SUFFICES ASSUME Careful PROVE Keeps(c)'
      OBVIOUS
    <3>1. asked'[c] = [op |-> "verify", key |-> k]
      BY <1>8, <2>5 DEF Succeeded, Asked, Set, IInv, AskedIsKept
    <3>2. asked'[c].op = "verify" /\ asked'[c].key = k
      BY <3>1
    <3>3. sctx'[c].sw = Fresh(free)
      BY <1>8, TypeIs DEF IInv, Set
    <3> QED
      BY <1>1, <2>1, <2>2, <2>4, <2>5, <3>2, <3>3 DEF Keeps
  <2> QED
    BY <1>1, <1>4, <1>8, <2>4, <2>5, <2>6, ByMoving DEF Succeeded
<1> QED
  BY <1>5, <1>6, <1>7, <1>8 DEF VerifyInit, heap, free

LEMMA DigestVerifyInitInv ==
  ASSUME ProviderAssumption, IInv, NEW c \in Ctx, NEW k \in {j \in Key : key[j] # Absent} \cup {NoKey},
         DigestVerifyInit(c, k)
  PROVE  IInv'
<1> DEFINE heap == Without(obj, sctx[c].sw)
           free == Without(heap, sctx[c].md)
<1>1. sctx[c] # NoCtx /\ UNCHANGED <<key, gen, pairs>> /\ k \in Key \cup {NoKey}
  BY DEF DigestVerifyInit, CtxOnly
<1>2. /\ heap \in [Obj -> 1 .. Freed]
      /\ \A o \in Obj : heap[o] = IF o = sctx[c].sw THEN Freed ELSE obj[o]
  BY TypeIs, WithoutIs DEF IInv
<1>3. /\ free \in [Obj -> 1 .. Freed]
      /\ \A o \in Obj : free[o] = IF o \in Own(c) THEN Freed ELSE obj[o]
  BY <1>2, WithoutIs DEF Own
<1>4. k \in Key => key[k] # Absent
  BY Distinct
<1> HIDE DEF heap, free
<1>5. CASE /\ sctx' = Set(sctx, c, [key |-> NoKey, md |-> sctx[c].md, sw |-> sctx[c].sw])
           /\ UNCHANGED obj /\ Failed(c)
  <2>1. Moves(c) /\ sctx' \in [Ctx -> {NoCtx} \cup Ctxs] /\ sctx'[c].key = NoKey /\ obj' \in [Obj -> 1 .. Freed]
    BY <1>1, <1>5, StayMoves
  <2> QED
    BY <1>1, <1>5, <2>1, FailedKeeps, Distinct, ByMoving DEF Failed
<1>6. CASE /\ sctx' = Set(sctx, c, [key |-> k, md |-> sctx[c].md, sw |-> NULL])
           /\ obj' = heap /\ Failed(c)
  <2>1. /\ sctx[c].md \in Obj => sctx[c].md # sctx[c].sw
        /\ sctx[c].md \in Obj \cup {NULL} /\ sctx[c].sw \in Obj \cup {NULL}
    BY <1>1, CtxIs DEF IInv, Ownership
  <2>2. \A o \in Obj : obj'[o] = IF o \in Own(c) /\ o # sctx[c].md /\ o # NULL THEN Freed ELSE obj[o]
    BY <1>2, <1>6, <2>1, Distinct DEF Own
  <2>3. Moves(c) /\ sctx' \in [Ctx -> {NoCtx} \cup Ctxs] /\ sctx'[c].key = k
    BY <1>1, <1>2, <1>6, <2>2, DropMoves
  <2> QED
    BY <1>1, <1>2, <1>4, <1>6, <2>3, FailedKeeps, ByMoving DEF Failed
<1>7. CASE /\ sctx' = Set(sctx, c, [key |-> k, md |-> NULL, sw |-> NULL])
           /\ obj' = free /\ Failed(c)
  <2>1. \A o \in Obj : obj'[o] = IF o \in Own(c) /\ o # NULL /\ o # NULL THEN Freed ELSE obj[o]
    BY <1>3, <1>7, Distinct
  <2>2. Moves(c) /\ sctx' \in [Ctx -> {NoCtx} \cup Ctxs] /\ sctx'[c].key = k
    BY <1>1, <1>3, <1>7, <2>1, DropMoves
  <2> QED
    BY <1>1, <1>3, <1>4, <1>7, <2>2, FailedKeeps, ByMoving DEF Failed
<1>8. CASE /\ HasSoftKey(k) /\ Spare(free) # {}
           /\ sctx' = Set(sctx, c, [key |-> k, md |-> Fresh(free), sw |-> NULL])
           /\ obj' = Set(free, Fresh(free), key[k].pub) /\ Succeeded(c, "digestVerify")
  <2>1. k \in Key /\ key[k].pub \in 1 .. Foreign /\ key[k].pub \in 1 .. Freed /\ key[k].pub # Freed
    <3>1. k \in Key /\ key[k] \in Keys /\ key[k].pub # NoPub
      BY <1>1, <1>4, <1>8, TypeIs DEF HasSoftKey, IInv
    <3> QED
      BY <3>1, KeyIs, Distinct DEF NoPub
  <2>2. Fresh(free) \in Obj /\ free[Fresh(free)] = Freed
    BY <1>8, FreshIsSpare
  <2>3. obj[Fresh(free)] = Freed \/ Fresh(free) \in Own(c)
    BY <1>3, <2>2
  <2>4. /\ obj' \in [Obj -> 1 .. Freed] /\ obj'[Fresh(free)] = key[k].pub
        /\ \A o \in Obj : o # Fresh(free) => obj'[o] = IF o \in Own(c) THEN Freed ELSE obj[o]
    BY <1>3, <1>8, <2>1, <2>2 DEF Set
  <2>5. Moves(c) /\ sctx' \in [Ctx -> {NoCtx} \cup Ctxs] /\ sctx'[c].key = k
    <3>1. <<Fresh(free), NULL>> \in {<<Fresh(free), NULL>>, <<NULL, Fresh(free)>>}
      OBVIOUS
    <3> QED
      BY <1>1, <1>8, <2>1, <2>2, <2>3, <2>4, <3>1, TakeMoves
  <2>6. Careful => Keeps(c)'
    <3> SUFFICES ASSUME Careful PROVE Keeps(c)'
      OBVIOUS
    <3>1. asked'[c] = [op |-> "digestVerify", key |-> k]
      BY <1>8, <2>5 DEF Succeeded, Asked, Set, IInv, AskedIsKept
    <3>2. asked'[c].op = "digestVerify" /\ asked'[c].key = k
      BY <3>1
    <3>3. sctx'[c].md = Fresh(free)
      BY <1>8, TypeIs DEF IInv, Set
    <3> QED
      BY <1>1, <2>1, <2>2, <2>4, <2>5, <3>2, <3>3 DEF Keeps
  <2> QED
    BY <1>1, <1>4, <1>8, <2>4, <2>5, <2>6, ByMoving DEF Succeeded
<1> QED
  BY <1>5, <1>6, <1>7, <1>8 DEF DigestVerifyInit, heap, free

LEMMA SignInv == ASSUME ProviderAssumption, IInv, NEW c \in Ctx, NEW len, Sign(c, len) PROVE IInv'
BY StillInv DEF Sign

LEMMA VerifyInv == ASSUME ProviderAssumption, IInv, NEW c \in Ctx, Verify(c) PROVE IInv'
BY StillInv DEF Verify

LEMMA DigestVerifyInv == ASSUME ProviderAssumption, IInv, NEW c \in Ctx, DigestVerify(c) PROVE IInv'
BY StillInv DEF DigestVerify

LEMMA Initially == ProviderAssumption /\ Init => IInv
<1> SUFFICES ASSUME ProviderAssumption, Init PROVE IInv
  OBVIOUS
<1>1. Freed \in 1 .. Freed
  BY Distinct
<1>2. TypeOK
  BY <1>1 DEF Init, TypeOK, ProviderAssumption
<1>3. AskedIsKept /\ \A c \in Ctx : asked[c] = Nothing
  BY Distinct DEF Init, AskedIsKept
<1>4. \A c \in Ctx : sctx[c] = NoCtx /\ Own(c) = {}
  BY Distinct DEF Init, Own
<1>5. Borrowed /\ Ownership
  BY <1>4, Distinct DEF Init, Borrowed, Ownership
<1>6. \A c \in Ctx : Keeps(c)
  <2> SUFFICES ASSUME NEW c \in Ctx PROVE Keeps(c)
    OBVIOUS
  <2>1. asked[c].op = "nothing"
    BY <1>3 DEF Nothing
  <2> QED
    BY <2>1 DEF Keeps
<1> QED
  BY <1>2, <1>3, <1>5, <1>6 DEF IInv

LEMMA Step == ProviderAssumption /\ IInv /\ [Next]_vars => IInv'
<1> SUFFICES ASSUME ProviderAssumption, IInv, [Next]_vars PROVE IInv'
  OBVIOUS
<1>1. CASE UNCHANGED vars
  BY <1>1 DEF vars, IInv, TypeOK, AskedIsKept, Borrowed, Ownership, Own, Keeps
<1>2. ASSUME NEW g \in Gen, \/ \E p \in InitParams : GenInit(g, p)
                            \/ \E p \in GenParams : GenSetParams(g, p)
                            \/ \E k \in Key : Generate(g, k)
                            \/ GenCleanup(g)
      PROVE  IInv'
  BY <1>2, GenInitInv, GenSetParamsInv, GenerateInv, GenCleanupInv
<1>3. ASSUME NEW k \in Key, \/ \E p \in ImportParams : Import(k, p)
                            \/ \E j \in Key : Export(k, j)
                            \/ Free(k)
      PROVE  IInv'
  BY <1>3, ImportInv, ExportInv, FreeInv
<1>4. ASSUME NEW c \in Ctx, NewCtx(c) \/ FreeCtx(c) \/ \E d \in Ctx : DupCtx(c, d) PROVE IInv'
  BY <1>4, NewCtxInv, FreeCtxInv, DupCtxInv
<1>5. ASSUME NEW c \in Ctx, NEW k \in {j \in Key : key[j] # Absent} \cup {NoKey},
             SignInit(c, k) \/ VerifyInit(c, k) \/ DigestVerifyInit(c, k)
      PROVE  IInv'
  BY <1>5, SignInitInv, VerifyInitInv, DigestVerifyInitInv
<1>6. ASSUME NEW c \in Ctx, (\E len : Sign(c, len)) \/ Verify(c) \/ DigestVerify(c) PROVE IInv'
  BY <1>6, SignInv, VerifyInv, DigestVerifyInv
<1> QED
  BY <1>1, <1>2, <1>3, <1>4, <1>5, <1>6 DEF Next

-----------------------------------------------------------------------------
(* Objects. *)

LEMMA OwnsItsObjects == ProviderAssumption /\ IInv => EachObjectOwnedOnce
<1> SUFFICES ASSUME ProviderAssumption, IInv, NEW o \in Obj
    PROVE  LET owners == {c \in Ctx : o \in {sctx[c].md, sctx[c].sw}} IN
           /\ obj[o] = Freed => owners = {}
           /\ obj[o] # Freed => \E c \in Ctx : owners = {c} /\ sctx[c].md # sctx[c].sw
  BY DEF EachObjectOwnedOnce
<1> DEFINE owners == {c \in Ctx : o \in {sctx[c].md, sctx[c].sw}}
<1>1. \A c \in Ctx : c \in owners <=> o \in Own(c)
  BY DEF Own
<1>2. ASSUME obj[o] = Freed PROVE owners = {}
  BY <1>1, <1>2 DEF IInv, Ownership
<1>3. ASSUME obj[o] # Freed PROVE \E c \in Ctx : owners = {c} /\ sctx[c].md # sctx[c].sw
  <2>1. PICK c \in Ctx : o \in Own(c)
    BY <1>3 DEF IInv, Ownership
  <2>2. owners = {c}
    BY <1>1, <2>1 DEF IInv, Ownership
  <2>3. sctx[c] # NoCtx
    BY <2>1, Distinct DEF Own
  <2>4. sctx[c].md # sctx[c].sw
    <3>1. sctx[c].md \in Obj \/ sctx[c].md = NULL
      BY <2>3, CtxIs
    <3> QED
      BY <2>1, <3>1, Distinct DEF Own, IInv, Ownership
  <2> QED
    BY <2>2, <2>4
<1> QED
  BY <1>2, <1>3

-----------------------------------------------------------------------------
(* Signatures. *)

LEMMA SignedBySteps == ProviderAssumption /\ IInv /\ [Next]_vars /\ SignedByItsPair => SignedByItsPair'
<1> SUFFICES ASSUME ProviderAssumption, IInv, [Next]_vars, SignedByItsPair, did'.op = "sign"
    PROVE  LET k == key'[sctx'[did'.ctx].key] IN
           /\ <<k.bus, k.addr, k.slot>> \in DOMAIN at'
           /\ did'.by = at'[<<k.bus, k.addr, k.slot>>]
  BY DEF SignedByItsPair
<1>1. CASE UNCHANGED vars
  BY <1>1 DEF vars, SignedByItsPair
<1>2. did' # Nothing
  BY DEF Nothing
<1>3. CASE Next
  <2>1. PICK c \in Ctx : (\E len : Sign(c, len)) \/ Verify(c) \/ DigestVerify(c)
    BY <1>2, <1>3, ZenonT(60) DEF Next, GenInit, GenSetParams, Generate, GenCleanup, Import, Export, Free, NewCtx,
       FreeCtx, DupCtx, SignInit, VerifyInit, DigestVerifyInit, KeysOnly, CtxOnly
  <2>2. ~Verify(c) /\ ~DigestVerify(c)
    <3>1. Verify(c) => did' = [op |-> "verify", ctx |-> c, by |-> obj[sctx[c].sw]]
      BY <1>2 DEF Verify
    <3>2. DigestVerify(c) => did' = [op |-> "digestVerify", ctx |-> c, by |-> key[sctx[c].key].pub]
      BY <1>2 DEF DigestVerify
    <3> QED
      BY <3>1, <3>2
  <2> DEFINE k == key[sctx[c].key]
  <2>3. /\ Opens(k) /\ Place(k) \in DOMAIN at /\ did' = [op |-> "sign", ctx |-> c, by |-> at[Place(k)]]
        /\ UNCHANGED <<key, sctx, at>>
    BY <1>2, <2>1, <2>2 DEF Sign
  <2>4. Place(k) = <<k.bus, k.addr, k.slot>>
    BY <2>3 DEF Place, Opens, On
  <2> QED
    BY <2>3, <2>4
<1> QED
  BY <1>1, <1>3

LEMMA VerifiesSteps == ProviderAssumption /\ IInv /\ [Next]_vars /\ VerifiesWithAskedKey => VerifiesWithAskedKey'
<1> SUFFICES ASSUME ProviderAssumption, IInv, [Next]_vars, VerifiesWithAskedKey, Careful,
                    did'.op \in {"verify", "digestVerify"}
    PROVE  did'.by = key'[asked'[did'.ctx].key].pub
  BY DEF VerifiesWithAskedKey
<1>1. CASE UNCHANGED vars
  BY <1>1 DEF vars, VerifiesWithAskedKey
<1>2. did' # Nothing
  <2>1. Nothing.op = "nothing"
    BY DEF Nothing
  <2> QED
    BY <2>1
<1>3. CASE Next
  <2>1. PICK c \in Ctx : \/ \E len : Sign(c, len)
                         \/ May(c, "verify") /\ Verify(c)
                         \/ May(c, "digestVerify") /\ DigestVerify(c)
    BY <1>2, <1>3, ZenonT(60) DEF Next, GenInit, GenSetParams, Generate, GenCleanup, Import, Export, Free, NewCtx,
       FreeCtx, DupCtx, SignInit, VerifyInit, DigestVerifyInit, KeysOnly, CtxOnly
  <2>2. Keeps(c)
    BY DEF IInv
  <2>3. ASSUME NEW len, Sign(c, len) PROVE FALSE
    <3>1. did' = [op |-> "sign", ctx |-> c, by |-> at[Place(key[sctx[c].key])]]
      BY <1>2, <2>3 DEF Sign
    <3>2. did'.op = "sign"
      BY <3>1
    <3> QED
      BY <3>2
  <2>4. CASE May(c, "verify") /\ Verify(c)
    <3>1. did' = [op |-> "verify", ctx |-> c, by |-> obj[sctx[c].sw]] /\ UNCHANGED <<key, asked>>
      BY <1>2, <2>4 DEF Verify
    <3>2. obj[sctx[c].sw] = key[asked[c].key].pub
      BY <2>2, <2>4 DEF Keeps, May
    <3> QED
      BY <3>1, <3>2
  <2>5. CASE May(c, "digestVerify") /\ DigestVerify(c)
    <3>1. did' = [op |-> "digestVerify", ctx |-> c, by |-> key[sctx[c].key].pub] /\ UNCHANGED <<key, asked>>
      BY <1>2, <2>5 DEF DigestVerify
    <3>2. sctx[c].key = asked[c].key
      BY <2>2, <2>5 DEF Keeps, May
    <3> QED
      BY <3>1, <3>2
  <2> QED
    BY <2>1, <2>3, <2>4, <2>5
<1> QED
  BY <1>1, <1>3

LEMMA DidInitially == Init => SignedByItsPair /\ VerifiesWithAskedKey
BY DEF Init, SignedByItsPair, VerifiesWithAskedKey, Nothing

-----------------------------------------------------------------------------
(* What is asked of a generation. *)

\* A generation context is what its caller knows it to be.
Agrees(g) ==
    /\ DOMAIN asked[g] \subseteq Places
    /\ \A f \in DOMAIN asked[g] : gen[g][f] = asked[g][f]

Agreement == \A g \in Gen : gen[g] # Absent => Agrees(g)

LEMMA AgreesInitially == Init => Agreement
BY DEF Init, Agreement

\* Numbers that are accepted are taken as they are.
LEMMA NumbersTaken ==
  ASSUME ProviderAssumption, CallerAssumption, NEW g, NEW p \in InitParams \cup GenParams, SetParamsOk(p),
         NEW f \in DOMAIN p
  PROVE  f \in Places /\ SetParams(g, p)[f] = p[f]
<1>1. DOMAIN p \subseteq Places
  BY DEF CallerAssumption, Places
<1>2. \A e \in Places : Good(p, e)
  BY DEF SetParamsOk, Places
<1>3. \A e \in DOMAIN p : p[e] # Bad
  BY <1>1, <1>2 DEF Good, Given
<1>4. p[f] \in Nat /\ p[f] < 256
  BY <1>1, <1>3 DEF CallerAssumption, ProviderAssumption, Given, Places
<1>5. Taken(p, f)
  BY <1>1, <1>2 DEF Taken, Given, Before, Places
<1> QED
  BY <1>1, <1>4, <1>5, SetParamsIs, ByteIs

\* A step of a generation context leaves the others alone.
LEMMA OneAgrees ==
  ASSUME IInv, Agreement, NEW g \in Gen, NEW v, NEW p, gen' = Set(gen, g, v), asked' = Set(asked, g, p),
         v # Absent => DOMAIN p \subseteq Places /\ \A f \in DOMAIN p : v[f] = p[f]
  PROVE  Agreement'
<1>1. gen'[g] = v /\ asked'[g] = p
  BY TypeIs DEF IInv, AskedIsKept, Set
<1>2. \A h \in Gen : h # g => gen'[h] = gen[h] /\ asked'[h] = asked[h]
  BY TypeIs DEF IInv, AskedIsKept, Set
<1> QED
  BY <1>1, <1>2 DEF Agreement, Agrees

LEMMA GenInitAgrees ==
  ASSUME ProviderAssumption, CallerAssumption, IInv, Agreement, NEW g \in Gen, NEW p \in InitParams,
         GenInit(g, p)
  PROVE  Agreement'
<1> DEFINE v == SetParams(Default, p)
           q == IF SetParamsOk(p) THEN p ELSE NoParams
<1>1. DOMAIN NoParams = {}
  BY DEF NoParams
<1>2. DOMAIN q \subseteq Places /\ \A f \in DOMAIN q : v[f] = q[f]
  BY <1>1, NumbersTaken
<1>3. gen' = Set(gen, g, v) /\ asked' = Set(asked, g, q)
  BY DEF GenInit
<1> HIDE DEF v, q
<1> QED
  BY <1>2, <1>3, OneAgrees

LEMMA GenSetParamsAgrees ==
  ASSUME ProviderAssumption, CallerAssumption, IInv, Agreement, NEW g \in Gen, NEW p \in GenParams,
         GenSetParams(g, p)
  PROVE  Agreement'
<1> DEFINE v == SetParams(gen[g], p)
           q == IF SetParamsOk(p) THEN Over(p, asked[g])
                ELSE [f \in DOMAIN asked[g] \ DOMAIN p |-> asked[g][f]]
<1>1. Agrees(g)
  BY DEF Agreement, GenSetParams
<1>2. \A f \in DOMAIN q : \/ SetParamsOk(p) /\ f \in DOMAIN p /\ q[f] = p[f]
                          \/ f \notin DOMAIN p /\ f \in DOMAIN asked[g] /\ q[f] = asked[g][f]
  BY DEF Over
<1>3. ASSUME NEW f \in DOMAIN q PROVE f \in Places /\ v[f] = q[f]
  <2>1. CASE SetParamsOk(p) /\ f \in DOMAIN p /\ q[f] = p[f]
    BY <2>1, NumbersTaken
  <2>2. CASE f \notin DOMAIN p /\ f \in DOMAIN asked[g] /\ q[f] = asked[g][f]
    <3>1. ~Taken(p, f) /\ f \in Places /\ gen[g][f] = asked[g][f]
      BY <1>1, <2>2 DEF Taken, Given, Agrees
    <3> HIDE DEF q
    <3> QED
      BY <2>2, <3>1, SetParamsIs
  <2> QED
    BY <1>2, <1>3, <2>1, <2>2
<1>4. gen' = Set(gen, g, v) /\ asked' = Set(asked, g, q)
  BY DEF GenSetParams
<1> HIDE DEF v, q
<1> QED
  BY <1>3, <1>4, OneAgrees

LEMMA GenCleanupAgrees == ASSUME IInv, Agreement, NEW g \in Gen, GenCleanup(g) PROVE Agreement'
BY OneAgrees DEF GenCleanup

\* No other step changes a generation context or what is known of it.
LEMMA AgreesStep == ProviderAssumption /\ CallerAssumption /\ IInv /\ Agreement /\ [Next]_vars => Agreement'
<1> SUFFICES ASSUME ProviderAssumption, CallerAssumption, IInv, Agreement, [Next]_vars PROVE Agreement'
  OBVIOUS
<1> DEFINE Same == UNCHANGED gen /\ \A g \in Gen : asked'[g] = asked[g]
<1>1. CASE Same
  BY <1>1 DEF Agreement, Agrees
<1>2. \A c \in Ctx : \A want : Asked(c, want) => \A g \in Gen : asked'[g] = asked[g]
  BY Distinct DEF Asked, Set, IInv, AskedIsKept
<1>3. ASSUME NEW k \in Key, \/ \E p \in ImportParams : Import(k, p)
                            \/ \E j \in Key : Export(k, j)
                            \/ Free(k)
                            \/ \E g \in Gen : Generate(g, k)
      PROVE  Same
  BY <1>3 DEF Import, Export, Free, Generate, KeysOnly
<1>4. ASSUME NEW c \in Ctx, NewCtx(c) \/ FreeCtx(c) \/ \E d \in Ctx : DupCtx(c, d) PROVE Same
  BY <1>2, <1>4 DEF NewCtx, FreeCtx, DupCtx, CtxOnly, Failed
<1>5. ASSUME NEW c \in Ctx, NEW k, SignInit(c, k) \/ VerifyInit(c, k) \/ DigestVerifyInit(c, k) PROVE Same
  <2>1. UNCHANGED gen
    BY <1>5 DEF SignInit, VerifyInit, DigestVerifyInit, CtxOnly
  <2>2. \E want : Asked(c, want)
    <3>1. SignInit(c, k) => Failed(c) \/ Succeeded(c, "sign")
      BY DEF SignInit
    <3>2. VerifyInit(c, k) => Failed(c) \/ Succeeded(c, "verify")
      BY DEF VerifyInit
    <3>3. DigestVerifyInit(c, k) => Failed(c) \/ Succeeded(c, "digestVerify")
      BY DEF DigestVerifyInit
    <3> QED
      BY <1>5, <3>1, <3>2, <3>3 DEF Failed, Succeeded
  <2> QED
    BY <1>2, <2>1, <2>2
<1>6. ASSUME NEW c \in Ctx, (\E len : Sign(c, len)) \/ Verify(c) \/ DigestVerify(c) PROVE Same
  BY <1>2, <1>6 DEF Sign, Verify, DigestVerify, Failed
<1>7. ASSUME NEW g \in Gen, \/ \E p \in InitParams : GenInit(g, p)
                            \/ \E p \in GenParams : GenSetParams(g, p)
                            \/ GenCleanup(g)
      PROVE  Agreement'
  BY <1>7, GenInitAgrees, GenSetParamsAgrees, GenCleanupAgrees
<1>8. CASE UNCHANGED vars
  BY <1>1, <1>8 DEF vars
<1> HIDE DEF Same
<1> QED
  BY <1>1, <1>3, <1>4, <1>5, <1>6, <1>7, <1>8 DEF Next

\* A key that is generated is in the place its context describes.
LEMMA AsAsked == ProviderAssumption /\ IInv /\ Agreement => GeneratesAsAsked
<1> SUFFICES ASSUME ProviderAssumption, IInv, Agreement, NEW g \in Gen, NEW k \in Key,
                    Generate(g, k), key'[k] # Absent, NEW f \in DOMAIN asked[g]
    PROVE  key'[k][f] = asked[g][f]
  BY DEF GeneratesAsAsked
<1> DEFINE v == [slot |-> gen[g].slot, bus |-> gen[g].bus, addr |-> gen[g].addr, pub |-> pairs + 1]
<1>1. key'[k] = v /\ gen[g] # Absent
  BY TypeIs DEF IInv, Generate, Set
<1>2. f \in Places /\ gen[g][f] = asked[g][f]
  BY <1>1 DEF Agreement, Agrees
<1>3. v.slot = gen[g].slot /\ v.bus = gen[g].bus /\ v.addr = gen[g].addr
  OBVIOUS
<1> QED
  BY <1>1, <1>2, <1>3 DEF Places

-----------------------------------------------------------------------------
(* Theorems. *)

\* The variables of the provider of the STSAFE-L010 have their types: what a key,
\* a context or an object holds is in range, and freed objects are freed ones.
THEOREM ProviderTypes == ProviderAssumption => (Spec => []TypeOK)
<1> SUFFICES ASSUME ProviderAssumption PROVE Spec => []TypeOK
  OBVIOUS
<1>1. Init => IInv
  BY Initially
<1>2. IInv /\ [Next]_vars => IInv'
  BY Step
<1>3. IInv => TypeOK
  BY DEF IInv
<1> QED
  BY <1>1, <1>2, <1>3, PTL DEF Spec

\* The objects of OpenSSL that verify in software are neither lost nor shared nor
\* used after they were freed, for any number of contexts and objects.
THEOREM ObjectsAreOwned == ProviderAssumption => (Spec => []EachObjectOwnedOnce)
<1> SUFFICES ASSUME ProviderAssumption PROVE Spec => []EachObjectOwnedOnce
  OBVIOUS
<1>1. Init => IInv
  BY Initially
<1>2. IInv /\ [Next]_vars => IInv'
  BY Step
<1>3. IInv => EachObjectOwnedOnce
  BY OwnsItsObjects
<1> QED
  BY <1>1, <1>2, <1>3, PTL DEF Spec
=============================================================================
