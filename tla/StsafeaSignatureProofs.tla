------------------------- MODULE StsafeaSignatureProofs -------------------------
(***************************************************************************)
(* Theorems about StsafeaSignature, for any signature contexts, keys,      *)
(* digest contexts and lengths of messages.                                *)
(*                                                                         *)
(* The invariant: a digest context that is in use has exactly one owner    *)
(* (Ownership), and for a careful caller the context keeps the key and the *)
(* message of the last init (Keeps).  A step of one context leaves the     *)
(* others and their digest contexts alone (Moves), so that both only need  *)
(* to be shown for the context that makes the step.                        *)
(***************************************************************************)
EXTENDS StsafeaSignature, TLAPS

Ownership ==
    /\ \A c \in Ctx : sctx[c].md \in Md => md[sctx[c].md] # Freed
    /\ \A c, d \in Ctx : sctx[c].md \in Md /\ sctx[c].md = sctx[d].md => c = d
    /\ \A m \in Md : md[m] # Freed => \E c \in Ctx : sctx[c].md = m

Keeps(c) ==
    /\ asked[c].op # "none" =>
          /\ sctx[c].key = asked[c].key
          /\ \/ asked[c].data = OneShot
             \/ /\ sctx[c].md \in Md /\ md[sctx[c].md].data = asked[c].data
                /\ md[sctx[c].md].done => result[c] # Nothing
    /\ result[c] # Nothing => result[c] = asked[c]

IInv == TypeOK /\ Ownership /\ (Careful => \A c \in Ctx : Keeps(c))

-----------------------------------------------------------------------------
(* Digest contexts. *)

\* A digest context that is free is found if there is one.
LEMMA FreshIsSpare ==
  ASSUME NEW heap, Spare(heap) # {} PROVE Fresh(heap) \in Md /\ heap[Fresh(heap)] = Freed
BY DEF Fresh, Spare

\* Freeing what a signature context has leaves the rest of the heap alone.
LEMMA WithoutIs ==
  ASSUME SignatureAssumption, TypeOK, NEW c \in Ctx
  PROVE  /\ Without(sctx[c].md) \in [Md -> {Freed} \cup [data : Hashed, done : BOOLEAN]]
         /\ \A m \in Md : Without(sctx[c].md)[m] = IF m = sctx[c].md THEN Freed ELSE md[m]
<1>1. sctx[c].md \in Md \cup {NULL, NoCtx.md} /\ NULL \notin Md
  BY DEF TypeOK, SignatureAssumption, NULL, NoCtx
<1> QED
  BY <1>1 DEF TypeOK, Without, Set

\* An empty digest context is no freed one.
LEMMA Distinct ==
  ASSUME SignatureAssumption
  PROVE  Empty # Freed /\ NULL \notin Md /\ NoCtx.md \notin Md /\ NULL # NoCtx.md
BY DEF SignatureAssumption, Empty, Freed, NULL, NoCtx

\* What has been hashed never looks like a digest context that was freed.
LEMMA NotFreed == ASSUME SignatureAssumption, NEW s \in Hashed PROVE s # Freed.data
<1>1. ASSUME s = <<"freed">> PROVE FALSE
  <2>1. 1 \in 1..Len(s) /\ s[1] = "freed"
    BY <1>1
  <2>2. s[1] \in Block \cup {"garbage"}
    BY <2>1 DEF Hashed
  <2> QED
    BY <2>1, <2>2 DEF SignatureAssumption
<1> QED
  BY <1>1 DEF Freed

-----------------------------------------------------------------------------
(* Types. *)

LEMMA BoundIsNat == ASSUME SignatureAssumption PROVE MaxBlocks \in Nat
BY DEF SignatureAssumption

LEMMA HashedLen == ASSUME NEW s \in Hashed PROVE Len(s) \in Nat
BY DEF Hashed

LEMMA NoteType ==
  ASSUME TypeOK, NEW c \in Ctx, NEW want \in Known, NEW got \in Known, Note(c, want, got)
  PROVE  asked' \in [Ctx -> Known] /\ result' \in [Ctx -> Known]
BY DEF TypeOK, Note, Set

LEMMA FailedType ==
  ASSUME TypeOK, NEW c \in Ctx, Failed(c)
  PROVE  asked' \in [Ctx -> Known] /\ result' \in [Ctx -> Known]
<1>1. Nothing \in Known
  BY DEF Nothing, Known
<1> QED
  BY <1>1, NoteType DEF Failed

LEMMA TakesType ==
  ASSUME TypeOK, NEW c \in Ctx, sctx[c] # NoCtx, NEW k \in Key \cup {NoKey}, Takes(c, k)
  PROVE  sctx' \in [Ctx -> {NoCtx} \cup [key : Key \cup {NoKey}, md : Md \cup {NULL}]]
BY DEF TypeOK, Takes, Set

LEMMA NewCtxType == ASSUME TypeOK, NEW c \in Ctx, NewCtx(c) PROVE TypeOK'
BY DEF TypeOK, NewCtx, Set

LEMMA FreeCtxType ==
  ASSUME SignatureAssumption, TypeOK, NEW c \in Ctx, FreeCtx(c) PROVE TypeOK'
<1>1. asked' \in [Ctx -> Known] /\ result' \in [Ctx -> Known]
  BY FailedType DEF FreeCtx
<1>2. sctx' \in [Ctx -> {NoCtx} \cup [key : Key \cup {NoKey}, md : Md \cup {NULL}]]
  BY DEF TypeOK, FreeCtx, Set
<1> QED
  BY <1>1, <1>2, WithoutIs DEF TypeOK, FreeCtx

LEMMA DupCtxType ==
  ASSUME SignatureAssumption, TypeOK, NEW c \in Ctx, NEW d \in Ctx, DupCtx(c, d) PROVE TypeOK'
<1>1. asked' \in [Ctx -> Known] /\ result' \in [Ctx -> Known]
  BY NoteType DEF DupCtx, TypeOK
<1>2. CASE sctx[c].md = NULL
  <2>1. md' = md /\ sctx' = Set(sctx, d, sctx[c])
    BY <1>2 DEF DupCtx
  <2>2. sctx' \in [Ctx -> {NoCtx} \cup [key : Key \cup {NoKey}, md : Md \cup {NULL}]]
    BY <2>1 DEF TypeOK, Set
  <2> QED
    BY <1>1, <2>1, <2>2 DEF TypeOK
<1>3. CASE sctx[c].md # NULL
  <2>1. sctx[c].md \in Md /\ sctx[c].key \in Key \cup {NoKey}
    BY <1>3 DEF DupCtx, TypeOK
  <2>2. Fresh(md) \in Md
    BY <1>3, FreshIsSpare DEF DupCtx
  <2>3. sctx' \in [Ctx -> {NoCtx} \cup [key : Key \cup {NoKey}, md : Md \cup {NULL}]]
    BY <1>3, <2>1, <2>2 DEF DupCtx, TypeOK, Set
  <2>4. /\ md' \in [Md -> {Freed} \cup [data : Hashed, done : BOOLEAN]]
        /\ \A m \in Md : md'[m] = md[m] \/ md'[m] = md[sctx[c].md]
    BY <1>3, <2>1, <2>2 DEF DupCtx, TypeOK, Set
  <2> QED
    BY <1>1, <2>1, <2>3, <2>4 DEF TypeOK
<1> QED
  BY <1>2, <1>3

LEMMA KeyInitType ==
  ASSUME SignatureAssumption, TypeOK, NEW c \in Ctx, NEW k \in Key \cup {NoKey},
         NEW op \in {"sign", "verify"}, KeyInit(c, k, op)
  PROVE  TypeOK'
<1>1. CASE k = NoKey
  <2>1. asked' \in [Ctx -> Known] /\ result' \in [Ctx -> Known]
    BY <1>1, FailedType DEF KeyInit
  <2> QED
    BY <1>1, <2>1, TakesType DEF KeyInit, TypeOK
<1>2. CASE k # NoKey
  <2>1. [op |-> op, key |-> k, data |-> OneShot] \in Known /\ Nothing \in Known
    BY DEF Known, OneShot, Nothing
  <2>2. asked' \in [Ctx -> Known] /\ result' \in [Ctx -> Known]
    BY <1>2, <2>1, NoteType DEF KeyInit
  <2>3. sctx' \in [Ctx -> {NoCtx} \cup [key : Key \cup {NoKey}, md : Md \cup {NULL}]]
    BY <1>2 DEF KeyInit, TypeOK, Set
  <2> QED
    BY <1>2, <2>2, <2>3, WithoutIs DEF KeyInit, TypeOK
<1> QED
  BY <1>1, <1>2

LEMMA DigestInitType ==
  ASSUME SignatureAssumption, TypeOK, NEW c \in Ctx, NEW k \in Key \cup {NoKey},
         NEW known \in BOOLEAN, NEW op \in {"sign", "verify"}, DigestInit(c, k, known, op)
  PROVE  TypeOK'
<1> DEFINE heap == Without(sctx[c].md)
<1>1. CASE k = NoKey \/ ~known
  <2>1. asked' \in [Ctx -> Known] /\ result' \in [Ctx -> Known]
    BY <1>1, FailedType DEF DigestInit
  <2> QED
    BY <1>1, <2>1, TakesType DEF DigestInit, TypeOK
<1>2. CASE k # NoKey /\ known /\ md' = heap /\ sctx' = Set(sctx, c, [key |-> k, md |-> NULL]) /\ Failed(c)
  <2>1. asked' \in [Ctx -> Known] /\ result' \in [Ctx -> Known]
    BY <1>2, FailedType
  <2>2. sctx' \in [Ctx -> {NoCtx} \cup [key : Key \cup {NoKey}, md : Md \cup {NULL}]]
    BY <1>2 DEF TypeOK, Set
  <2> QED
    BY <1>2, <2>1, <2>2, WithoutIs DEF TypeOK
<1>3. CASE /\ k # NoKey /\ known /\ Spare(heap) # {}
           /\ md' = Set(heap, Fresh(heap), Empty)
           /\ sctx' = Set(sctx, c, [key |-> k, md |-> Fresh(heap)])
           /\ Note(c, [op |-> op, key |-> k, data |-> << >>], Nothing)
  <2>1. [op |-> op, key |-> k, data |-> << >>] \in Known /\ Nothing \in Known
    BY DEF Known, Nothing
  <2>2. asked' \in [Ctx -> Known] /\ result' \in [Ctx -> Known]
    BY <1>3, <2>1, NoteType
  <2>3. Fresh(heap) \in Md
    BY <1>3, FreshIsSpare
  <2>4. sctx' \in [Ctx -> {NoCtx} \cup [key : Key \cup {NoKey}, md : Md \cup {NULL}]]
    BY <1>3, <2>3 DEF TypeOK, Set
  <2>5. Empty \in [data : Hashed, done : BOOLEAN] /\ Len(Empty.data) = 0
    BY DEF Empty, Hashed
  <2>6. /\ heap \in [Md -> {Freed} \cup [data : Hashed, done : BOOLEAN]]
        /\ \A m \in Md : heap[m] # Freed => heap[m] = md[m]
    BY WithoutIs
  <2>7. /\ md' \in [Md -> {Freed} \cup [data : Hashed, done : BOOLEAN]]
        /\ \A m \in Md : md'[m] # Freed => m = Fresh(heap) \/ md'[m] = md[m]
    BY <1>3, <2>5, <2>6 DEF Set
  <2>8. ASSUME NEW m \in Md, md'[m] # Freed PROVE Len(md'[m].data) <= MaxBlocks
    <3>1. CASE m = Fresh(heap)
      <4>1. md'[m] = Empty
        BY <1>3, <2>6, <3>1 DEF Set
      <4> QED
        BY <2>5, <4>1, BoundIsNat
    <3>2. CASE m # Fresh(heap)
      BY <2>7, <2>8, <3>2 DEF TypeOK
    <3> QED
      BY <3>1, <3>2
  <2> QED
    BY <2>2, <2>4, <2>7, <2>8 DEF TypeOK
<1> QED
  BY <1>1, <1>2, <1>3 DEF DigestInit

LEMMA HashUpdateType ==
  ASSUME SignatureAssumption, TypeOK, Ownership, NEW c \in Ctx, NEW b \in Block, HashUpdate(c, b)
  PROVE  TypeOK'
<1> DEFINE m == sctx[c].md
           new == IF md[m].done THEN Garbage ELSE Append(md[m].data, b)
           want == [op |-> asked[c].op, key |-> asked[c].key, data |-> Append(asked[c].data, b)]
<1>1. CASE Failed(c) /\ UNCHANGED md
  BY <1>1, FailedType DEF HashUpdate, TypeOK
<1>2. CASE /\ m # NULL /\ Len(md[m].data) < MaxBlocks
           /\ md' = Set(md, m, [data |-> new, done |-> md[m].done])
           /\ Note(c, want, Nothing)
  <2>1. asked[c].op \in {"none", "sign", "verify"} /\ asked[c].key \in Key \cup {NoKey}
        /\ asked[c].data \in Seq(Block \cup {"tbs", "garbage"})
    BY DEF TypeOK, Known
  <2>2. Append(asked[c].data, b) \in Seq(Block \cup {"tbs", "garbage"})
    BY <2>1
  <2>3. Nothing \in Known /\ want \in Known
    BY <2>1, <2>2 DEF Known, Nothing
  <2>4. asked' \in [Ctx -> Known] /\ result' \in [Ctx -> Known]
    BY <1>2, <2>3, NoteType
  <2>5. m \in Md /\ md[m] # Freed
    BY <1>2 DEF HashUpdate, TypeOK, Ownership
  <2>6. md[m].data \in Hashed /\ md[m].done \in BOOLEAN
    BY <2>5 DEF TypeOK
  <2> HIDE DEF m
  <2>7. new \in Hashed /\ Len(new) <= MaxBlocks
    <3>1. Garbage \in Hashed /\ Len(Garbage) = 1
      BY DEF Garbage, Hashed
    <3>2. MaxBlocks \in Nat /\ Len(md[m].data) \in Nat
      BY <2>6, BoundIsNat, HashedLen
    <3>3. 1 <= MaxBlocks
      BY <3>2, <1>2
    <3>4. Append(md[m].data, b) \in Hashed /\ Len(Append(md[m].data, b)) = Len(md[m].data) + 1
      BY <2>6 DEF Hashed
    <3> QED
      <4>1. CASE md[m].done
        BY <4>1, <3>1, <3>3
      <4>2. CASE ~md[m].done
        BY <4>2, <1>2, <3>2, <3>4
      <4> QED
        BY <4>1, <4>2
  <2>8. md' \in [Md -> {Freed} \cup [data : Hashed, done : BOOLEAN]]
    BY <1>2, <2>6, <2>7 DEF Set, TypeOK, m
  <2>9. ASSUME NEW n \in Md, md'[n] # Freed PROVE Len(md'[n].data) <= MaxBlocks
    <3>1. CASE n = m
      <4>1. md'[n] = [data |-> new, done |-> md[m].done]
        BY <1>2, <2>5, <3>1 DEF Set, TypeOK
      <4> QED
        BY <4>1, <2>7
    <3>2. CASE n # m
      BY <1>2, <2>9, <3>2 DEF Set, TypeOK
    <3> QED
      BY <3>1, <3>2
  <2> QED
    BY <2>4, <2>8, <2>9 DEF TypeOK, HashUpdate
<1> QED
  BY <1>1, <1>2 DEF HashUpdate

LEMMA HardwareType ==
  ASSUME TypeOK, NEW c \in Ctx, NEW op \in {"sign", "verify"},
         NEW data \in Seq(Block \cup {"tbs", "garbage"}), Hardware(c, op, data), SignatureAssumption
  PROVE  asked' \in [Ctx -> Known] /\ result' \in [Ctx -> Known]
<1>1. CASE Failed(c)
  BY <1>1, FailedType
<1>2. CASE sctx[c].key \in EcKey /\ Note(c, asked[c], [op |-> op, key |-> sctx[c].key, data |-> data])
  <2>1. asked[c] \in Known /\ [op |-> op, key |-> sctx[c].key, data |-> data] \in Known
    BY <1>2 DEF TypeOK, Known, SignatureAssumption
  <2> QED
    BY <1>2, <2>1, NoteType
<1> QED
  BY <1>1, <1>2 DEF Hardware

LEMMA HashFinalType ==
  ASSUME SignatureAssumption, TypeOK, Ownership, NEW c \in Ctx, NEW op \in {"sign", "verify"}, HashFinal(c, op)
  PROVE  TypeOK'
<1> DEFINE m == sctx[c].md
           data == IF md[m].done THEN Garbage ELSE md[m].data
<1>1. CASE Failed(c) /\ UNCHANGED md
  BY <1>1, FailedType DEF HashFinal, TypeOK
<1>2. CASE /\ ~(m = NULL \/ sctx[c].key = NoKey)
           /\ md' = Set(md, m, [data |-> md[m].data, done |-> TRUE]) /\ Hardware(c, op, data)
  <2>1. m \in Md /\ md[m] # Freed
    BY <1>2 DEF HashFinal, TypeOK, Ownership
  <2>2. md[m].data \in Hashed /\ md[m].done \in BOOLEAN /\ Len(md[m].data) <= MaxBlocks
    BY <2>1 DEF TypeOK
  <2>3. data \in Seq(Block \cup {"tbs", "garbage"})
    <3>1. Garbage \in Seq(Block \cup {"tbs", "garbage"})
      BY DEF Garbage
    <3>2. Hashed \subseteq Seq(Block \cup {"tbs", "garbage"})
      BY DEF Hashed
    <3> QED
      BY <2>2, <3>1, <3>2
  <2>4. asked' \in [Ctx -> Known] /\ result' \in [Ctx -> Known]
    BY <1>2, <2>3, HardwareType
  <2>5. md' \in [Md -> {Freed} \cup [data : Hashed, done : BOOLEAN]]
    BY <1>2, <2>2 DEF Set, TypeOK
  <2>6. \A n \in Md : md'[n] # Freed => Len(md'[n].data) <= MaxBlocks
    BY <1>2, <2>1, <2>2 DEF Set, TypeOK
  <2> QED
    BY <2>4, <2>5, <2>6 DEF TypeOK, HashFinal
<1> QED
  BY <1>1, <1>2 DEF HashFinal

LEMMA OneShotType ==
  ASSUME SignatureAssumption, TypeOK, NEW c \in Ctx, NEW op \in {"sign", "verify"}, OneShotCall(c, op)
  PROVE  TypeOK'
<1>1. OneShot \in Seq(Block \cup {"tbs", "garbage"})
  BY DEF OneShot
<1>2. asked' \in [Ctx -> Known] /\ result' \in [Ctx -> Known]
  BY <1>1, FailedType, HardwareType DEF OneShotCall
<1> QED
  BY <1>2 DEF OneShotCall, TypeOK

-----------------------------------------------------------------------------
(* Who owns which digest context. *)

\* What any step of context c does to the others: nothing.  Of the digest
\* contexts it touches the one it had, which it frees if it gives it up, and the
\* one it takes, which was free.
Moves(c) ==
    /\ \A d \in Ctx : d # c => sctx'[d] = sctx[d] /\ asked'[d] = asked[d] /\ result'[d] = result[d]
    /\ \A m \in Md : m # sctx[c].md /\ m # sctx'[c].md => md'[m] = md[m]
    /\ \A m \in Md : m = sctx[c].md /\ m # sctx'[c].md => md'[m] = Freed
    /\ sctx'[c].md \in Md =>
          md'[sctx'[c].md] # Freed /\ (md[sctx'[c].md] = Freed \/ sctx'[c].md = sctx[c].md)

LEMMA NoteMoves ==
  ASSUME TypeOK, NEW c \in Ctx, NEW want, NEW got, Note(c, want, got)
  PROVE  \A d \in Ctx : d # c => asked'[d] = asked[d] /\ result'[d] = result[d]
BY DEF TypeOK, Note, Set

LEMMA MovesKeepsOwnership == ASSUME Ownership, NEW c \in Ctx, Moves(c) PROVE Ownership'
<1>1. ASSUME NEW d \in Ctx, sctx'[d].md \in Md PROVE md'[sctx'[d].md] # Freed
  BY <1>1 DEF Ownership, Moves
<1>2. ASSUME NEW d \in Ctx, NEW e \in Ctx, sctx'[d].md \in Md, sctx'[d].md = sctx'[e].md PROVE d = e
  BY <1>2 DEF Ownership, Moves
<1>3. ASSUME NEW m \in Md, md'[m] # Freed PROVE \E d \in Ctx : sctx'[d].md = m
  <2>1. CASE m = sctx'[c].md
    BY <2>1
  <2>2. CASE m # sctx'[c].md
    <3>1. m # sctx[c].md /\ md[m] # Freed
      BY <1>3, <2>2 DEF Moves
    <3>2. PICK d \in Ctx : sctx[d].md = m
      BY <3>1 DEF Ownership
    <3> QED
      BY <3>1, <3>2 DEF Moves
  <2> QED
    BY <2>1, <2>2
<1> QED
  BY <1>1, <1>2, <1>3 DEF Ownership

\* A context keeps what it was asked for while others move.
LEMMA OthersKeep ==
  ASSUME Ownership, NEW c \in Ctx, Moves(c), NEW d \in Ctx, d # c, Keeps(d) PROVE Keeps(d)'
<1>1. sctx'[d] = sctx[d] /\ asked'[d] = asked[d] /\ result'[d] = result[d]
  BY DEF Moves
<1>2. sctx[d].md \in Md => md'[sctx[d].md] = md[sctx[d].md]
  BY DEF Moves, Ownership
<1> QED
  BY <1>1, <1>2 DEF Keeps

LEMMA NewCtxMoves == ASSUME SignatureAssumption, TypeOK, NEW c \in Ctx, NewCtx(c) PROVE Moves(c)
BY Distinct DEF NewCtx, Moves, TypeOK, Set, NoCtx

LEMMA FreeCtxMoves == ASSUME SignatureAssumption, TypeOK, NEW c \in Ctx, FreeCtx(c) PROVE Moves(c)
<1>1. sctx'[c] = NoCtx /\ \A d \in Ctx : d # c => sctx'[d] = sctx[d]
  BY DEF FreeCtx, TypeOK, Set
<1>2. \A d \in Ctx : d # c => asked'[d] = asked[d] /\ result'[d] = result[d]
  BY NoteMoves DEF FreeCtx, Failed
<1> QED
  BY <1>1, <1>2, WithoutIs, Distinct DEF FreeCtx, Moves

LEMMA DupCtxMoves ==
  ASSUME SignatureAssumption, TypeOK, Ownership, NEW c \in Ctx, NEW d \in Ctx, DupCtx(c, d) PROVE Moves(d)
<1>1. \A e \in Ctx : e # d => asked'[e] = asked[e] /\ result'[e] = result[e]
  BY NoteMoves DEF DupCtx
<1>2. CASE sctx[c].md = NULL
  BY <1>1, <1>2, Distinct DEF DupCtx, Moves, TypeOK, Set
<1>3. CASE sctx[c].md # NULL
  <2>1. sctx[c].md \in Md /\ md[sctx[c].md] # Freed
    BY <1>3 DEF DupCtx, TypeOK, Ownership
  <2>2. Fresh(md) \in Md /\ md[Fresh(md)] = Freed
    BY <1>3, FreshIsSpare DEF DupCtx
  <2>3. sctx'[d].md = Fresh(md) /\ \A e \in Ctx : e # d => sctx'[e] = sctx[e]
    BY <1>3 DEF DupCtx, TypeOK, Set
  <2>4. md'[Fresh(md)] = md[sctx[c].md] /\ \A m \in Md : m # Fresh(md) => md'[m] = md[m]
    BY <1>3, <2>2 DEF DupCtx, TypeOK, Set
  <2>5. sctx[d].md \notin Md
    BY Distinct DEF DupCtx
  <2> QED
    BY <1>1, <2>1, <2>2, <2>3, <2>4, <2>5 DEF Moves
<1> QED
  BY <1>2, <1>3

\* A context that gives up its digest context.
LEMMA DropMoves ==
  ASSUME SignatureAssumption, TypeOK, NEW c \in Ctx, NEW k,
         md' = Without(sctx[c].md), sctx' = Set(sctx, c, [key |-> k, md |-> NULL]),
         \A d \in Ctx : d # c => asked'[d] = asked[d] /\ result'[d] = result[d]
  PROVE  Moves(c)
<1>1. sctx'[c].md = NULL /\ \A d \in Ctx : d # c => sctx'[d] = sctx[d]
  BY DEF TypeOK, Set
<1> QED
  BY <1>1, WithoutIs, Distinct DEF Moves

\* A context that keeps its digest context.
LEMMA StayMoves ==
  ASSUME SignatureAssumption, TypeOK, Ownership, NEW c \in Ctx, NEW k,
         UNCHANGED sctx \/ Takes(c, k), UNCHANGED md,
         \A d \in Ctx : d # c => asked'[d] = asked[d] /\ result'[d] = result[d]
  PROVE  Moves(c)
<1>1. sctx'[c].md = sctx[c].md /\ \A d \in Ctx : d # c => sctx'[d] = sctx[d]
  BY DEF TypeOK, Set, Takes
<1> QED
  BY <1>1 DEF Moves, Ownership

LEMMA KeyInitMoves ==
  ASSUME SignatureAssumption, TypeOK, Ownership, NEW c \in Ctx, NEW k, NEW op, KeyInit(c, k, op)
  PROVE  Moves(c)
<1>1. \A d \in Ctx : d # c => asked'[d] = asked[d] /\ result'[d] = result[d]
  BY NoteMoves DEF KeyInit, Failed
<1> QED
  BY <1>1, DropMoves, StayMoves DEF KeyInit

LEMMA DigestInitMoves ==
  ASSUME SignatureAssumption, TypeOK, Ownership, NEW c \in Ctx, NEW k, NEW known, NEW op,
         DigestInit(c, k, known, op)
  PROVE  Moves(c)
<1> DEFINE heap == Without(sctx[c].md)
<1>1. \A d \in Ctx : d # c => asked'[d] = asked[d] /\ result'[d] = result[d]
  BY NoteMoves DEF DigestInit, Failed
<1>2. CASE /\ Spare(heap) # {} /\ md' = Set(heap, Fresh(heap), Empty)
           /\ sctx' = Set(sctx, c, [key |-> k, md |-> Fresh(heap)])
  <2>1. Fresh(heap) \in Md /\ heap[Fresh(heap)] = Freed
    BY <1>2, FreshIsSpare
  <2>2. sctx'[c].md = Fresh(heap) /\ \A d \in Ctx : d # c => sctx'[d] = sctx[d]
    BY <1>2 DEF TypeOK, Set
  <2>3. /\ heap \in [Md -> {Freed} \cup [data : Hashed, done : BOOLEAN]]
        /\ \A m \in Md : heap[m] = IF m = sctx[c].md THEN Freed ELSE md[m]
    BY WithoutIs
  <2>4. md'[Fresh(heap)] = Empty /\ \A m \in Md : m # Fresh(heap) => md'[m] = heap[m]
    BY <1>2, <2>1, <2>3 DEF Set
  <2> HIDE DEF heap
  <2> QED
    BY <1>1, <2>1, <2>2, <2>3, <2>4, Distinct DEF Moves
<1> QED
  BY <1>1, <1>2, DropMoves, StayMoves DEF DigestInit

LEMMA HashMoves ==
  ASSUME SignatureAssumption, TypeOK, Ownership, NEW c \in Ctx, NEW v, v # Freed,
         sctx[c].md \in Md, md' = Set(md, sctx[c].md, v), UNCHANGED sctx,
         \A d \in Ctx : d # c => asked'[d] = asked[d] /\ result'[d] = result[d]
  PROVE  Moves(c)
BY DEF Moves, Set, TypeOK

LEMMA HashUpdateMoves ==
  ASSUME SignatureAssumption, TypeOK, Ownership, NEW c \in Ctx, NEW b \in Block, HashUpdate(c, b)
  PROVE  Moves(c)
<1> DEFINE m == sctx[c].md
           v == [data |-> IF md[m].done THEN Garbage ELSE Append(md[m].data, b), done |-> md[m].done]
<1>1. \A d \in Ctx : d # c => asked'[d] = asked[d] /\ result'[d] = result[d]
  BY NoteMoves DEF HashUpdate, Failed
<1>2. CASE md' = Set(md, m, v) /\ m # NULL
  <2>1. m \in Md /\ md[m] # Freed
    BY <1>2 DEF HashUpdate, TypeOK, Ownership
  <2>2. v # Freed
    <3>1. md[m].data \in Hashed /\ md[m].done \in BOOLEAN
      BY <2>1 DEF TypeOK
    <3>2. CASE ~md[m].done
      BY <3>2 DEF Freed
    <3>3. CASE md[m].done
      <4>1. v.data = Garbage /\ Garbage # Freed.data
        BY <3>3 DEF Garbage, Freed
      <4> QED
        BY <4>1
    <3> QED
      BY <3>2, <3>3
  <2> QED
    BY <1>1, <1>2, <2>1, <2>2, HashMoves DEF HashUpdate
<1> QED
  BY <1>1, <1>2, StayMoves DEF HashUpdate

LEMMA HardwareMoves ==
  ASSUME TypeOK, NEW c \in Ctx, NEW op, NEW data, Hardware(c, op, data)
  PROVE  \A d \in Ctx : d # c => asked'[d] = asked[d] /\ result'[d] = result[d]
BY NoteMoves DEF Hardware, Failed

LEMMA HashFinalMoves ==
  ASSUME SignatureAssumption, TypeOK, Ownership, NEW c \in Ctx, NEW op, HashFinal(c, op)
  PROVE  Moves(c)
<1> DEFINE m == sctx[c].md
           v == [data |-> md[m].data, done |-> TRUE]
<1>1. \A d \in Ctx : d # c => asked'[d] = asked[d] /\ result'[d] = result[d]
  BY NoteMoves, HardwareMoves DEF HashFinal, Failed
<1>2. CASE md' = Set(md, m, v) /\ m # NULL
  <2>1. m \in Md /\ md[m] # Freed
    BY <1>2 DEF HashFinal, TypeOK, Ownership
  <2>2. md[m].data \in Hashed
    BY <2>1 DEF TypeOK
  <2>3. md[m].data # Freed.data
    BY <2>2, NotFreed
  <2>4. v # Freed
    BY <2>3
  <2> QED
    BY <1>1, <1>2, <2>1, <2>4, HashMoves DEF HashFinal
<1> QED
  BY <1>1, <1>2, StayMoves DEF HashFinal

LEMMA OneShotMoves ==
  ASSUME SignatureAssumption, TypeOK, Ownership, NEW c \in Ctx, NEW op, OneShotCall(c, op)
  PROVE  Moves(c)
<1>1. \A d \in Ctx : d # c => asked'[d] = asked[d] /\ result'[d] = result[d]
  BY NoteMoves, HardwareMoves DEF OneShotCall, Failed
<1> QED
  BY <1>1, StayMoves DEF OneShotCall

-----------------------------------------------------------------------------
(* What a careful caller is told is what it asked for. *)

LEMMA NoteGives ==
  ASSUME Careful, TypeOK, NEW c \in Ctx, NEW want, NEW got, Note(c, want, got)
  PROVE  asked'[c] = want /\ result'[c] = got
BY DEF TypeOK, Note, Set

LEMMA FailedKeeps == ASSUME Careful, TypeOK, NEW c \in Ctx, Failed(c) PROVE Keeps(c)'
<1>1. asked'[c] = Nothing /\ result'[c] = Nothing
  BY NoteGives DEF Failed
<1> QED
  BY <1>1 DEF Keeps, Nothing

LEMMA NewCtxKeeps ==
  ASSUME SignatureAssumption, TypeOK, NEW c \in Ctx, Keeps(c), NewCtx(c) PROVE Keeps(c)'
<1>1. sctx'[c].key = sctx[c].key /\ sctx[c].md \notin Md
  <2>1. sctx[c] = NoCtx /\ sctx'[c] = [key |-> NoKey, md |-> NULL]
    BY DEF NewCtx, TypeOK, Set
  <2>2. NoCtx.key = NoKey
    BY DEF NoCtx
  <2> QED
    BY <2>1, <2>2, Distinct
<1> QED
  BY <1>1 DEF Keeps, NewCtx

LEMMA DupCtxKeeps ==
  ASSUME SignatureAssumption, Careful, TypeOK, NEW c \in Ctx, NEW d \in Ctx, Keeps(c), DupCtx(c, d)
  PROVE  Keeps(d)'
<1>1. asked'[d] = asked[c] /\ result'[d] = result[c]
  BY NoteGives DEF DupCtx
<1>2. CASE sctx[c].md = NULL
  <2>1. sctx'[d] = sctx[c] /\ sctx[c].md \notin Md
    BY <1>2, Distinct DEF DupCtx, TypeOK, Set
  <2> QED
    BY <1>1, <2>1 DEF Keeps
<1>3. CASE sctx[c].md # NULL
  <2>1. Fresh(md) \in Md
    BY <1>3, FreshIsSpare DEF DupCtx
  <2>2. sctx'[d] = [key |-> sctx[c].key, md |-> Fresh(md)]
    BY <1>3 DEF DupCtx, TypeOK, Set
  <2>3. md'[Fresh(md)] = md[sctx[c].md]
    BY <1>3, <2>1 DEF DupCtx, TypeOK, Set
  <2> QED
    BY <1>1, <2>1, <2>2, <2>3 DEF Keeps
<1> QED
  BY <1>2, <1>3

LEMMA KeyInitKeeps ==
  ASSUME SignatureAssumption, Careful, TypeOK, NEW c \in Ctx, NEW k, NEW op \in {"sign", "verify"},
         KeyInit(c, k, op)
  PROVE  Keeps(c)'
<1>1. CASE k # NoKey
  <2>1. asked'[c] = [op |-> op, key |-> k, data |-> OneShot] /\ result'[c] = Nothing
    BY <1>1, NoteGives DEF KeyInit
  <2>2. sctx'[c] = [key |-> k, md |-> NULL]
    BY <1>1 DEF KeyInit, TypeOK, Set
  <2> QED
    BY <2>1, <2>2 DEF Keeps
<1> QED
  BY <1>1, FailedKeeps DEF KeyInit

LEMMA DigestInitKeeps ==
  ASSUME SignatureAssumption, Careful, TypeOK, NEW c \in Ctx, NEW k, NEW known, NEW op \in {"sign", "verify"},
         DigestInit(c, k, known, op)
  PROVE  Keeps(c)'
<1> DEFINE heap == Without(sctx[c].md)
<1>1. CASE /\ Spare(heap) # {} /\ md' = Set(heap, Fresh(heap), Empty)
           /\ sctx' = Set(sctx, c, [key |-> k, md |-> Fresh(heap)])
           /\ Note(c, [op |-> op, key |-> k, data |-> << >>], Nothing)
  <2>1. asked'[c] = [op |-> op, key |-> k, data |-> << >>] /\ result'[c] = Nothing
    BY <1>1, NoteGives
  <2>2. Fresh(heap) \in Md
    BY <1>1, FreshIsSpare
  <2>3. sctx'[c] = [key |-> k, md |-> Fresh(heap)]
    BY <1>1 DEF TypeOK, Set
  <2>4. md'[Fresh(heap)] = Empty
    BY <1>1, <2>2, WithoutIs DEF Set
  <2> QED
    BY <2>1, <2>2, <2>3, <2>4 DEF Keeps, Empty
<1> QED
  BY <1>1, FailedKeeps DEF DigestInit

\* What a careful caller of update() or final() has: a digest of all it has given.
LEMMA CarefulHas ==
  ASSUME SignatureAssumption, Careful, NEW c \in Ctx, Keeps(c), NEW op \in {"sign", "verify"},
         May(c, op, << >>)
  PROVE  /\ asked[c].op = op /\ asked[c].key = sctx[c].key
         /\ sctx[c].md \in Md /\ md[sctx[c].md].data = asked[c].data /\ ~md[sctx[c].md].done
<1>1. << >> # OneShot
  BY DEF OneShot
<1> QED
  BY <1>1 DEF Keeps, May

LEMMA HashUpdateKeeps ==
  ASSUME SignatureAssumption, Careful, TypeOK, Ownership, NEW c \in Ctx, Keeps(c), NEW b \in Block,
         NEW op \in {"sign", "verify"}, May(c, op, << >>), HashUpdate(c, b)
  PROVE  Keeps(c)'
<1> DEFINE m == sctx[c].md
<1>1. CASE Failed(c)
  BY <1>1, FailedKeeps
<1>2. CASE /\ md' = Set(md, m, [data |-> IF md[m].done THEN Garbage ELSE Append(md[m].data, b),
                                done |-> md[m].done])
           /\ Note(c, [op |-> asked[c].op, key |-> asked[c].key, data |-> Append(asked[c].data, b)], Nothing)
  <2>1. /\ asked'[c] = [op |-> asked[c].op, key |-> asked[c].key, data |-> Append(asked[c].data, b)]
        /\ result'[c] = Nothing
    BY <1>2, NoteGives
  <2>2. md'[m] = [data |-> Append(md[m].data, b), done |-> md[m].done]
    BY <1>2, CarefulHas DEF TypeOK, Set
  <2>3. sctx' = sctx
    BY DEF HashUpdate
  <2> DEFINE new  == Append(md[m].data, b)
             done == md[m].done
  <2>4. md'[m].data = asked'[c].data
    <3>1. md[m].data = asked[c].data
      BY CarefulHas
    <3>2. md'[m].data = new
      <4>1. md'[m] = [data |-> new, done |-> done]
        BY <2>2
      <4> HIDE DEF new, done
      <4> QED
        BY <4>1
    <3>3. asked'[c].data = Append(asked[c].data, b)
      BY <2>1
    <3> QED
      BY <3>1, <3>2, <3>3
  <2>5. ~md'[m].done
    BY <2>2, CarefulHas
  <2> QED
    BY <2>1, <2>3, <2>4, <2>5, CarefulHas DEF Keeps
<1> QED
  BY <1>1, <1>2, CarefulHas DEF HashUpdate

\* A result for the key and the data of the last init is the one asked for.
LEMMA ResultIs ==
  ASSUME TypeOK, NEW c \in Ctx
  PROVE  asked[c] = [op |-> asked[c].op, key |-> asked[c].key, data |-> asked[c].data]
BY DEF TypeOK, Known

LEMMA HardwareGives ==
  ASSUME Careful, TypeOK, NEW c \in Ctx, NEW op, NEW data, Hardware(c, op, data)
  PROVE  Failed(c) \/ (asked'[c] = asked[c] /\ result'[c] = [op |-> op, key |-> sctx[c].key, data |-> data])
BY NoteGives DEF Hardware

LEMMA HashFinalKeeps ==
  ASSUME SignatureAssumption, Careful, TypeOK, Ownership, NEW c \in Ctx, Keeps(c),
         NEW op \in {"sign", "verify"}, May(c, op, << >>), HashFinal(c, op)
  PROVE  Keeps(c)'
<1> DEFINE m == sctx[c].md
<1>1. CASE Failed(c)
  BY <1>1, FailedKeeps
<1>2. CASE /\ md' = Set(md, m, [data |-> md[m].data, done |-> TRUE])
           /\ Hardware(c, op, IF md[m].done THEN Garbage ELSE md[m].data) /\ ~Failed(c)
  <2>1. asked'[c] = asked[c] /\ result'[c] = [op |-> op, key |-> sctx[c].key, data |-> md[m].data]
    BY <1>2, HardwareGives, CarefulHas
  <2>2. result'[c] = asked[c] /\ result'[c] # Nothing
    BY <2>1, CarefulHas, ResultIs DEF Nothing
  <2>3. md'[m] = [data |-> md[m].data, done |-> TRUE]
    BY <1>2, CarefulHas DEF TypeOK, Set
  <2> QED
    BY <2>1, <2>2, <2>3, CarefulHas DEF HashFinal, Keeps
<1> QED
  BY <1>1, <1>2 DEF HashFinal

LEMMA OneShotKeeps ==
  ASSUME SignatureAssumption, Careful, TypeOK, NEW c \in Ctx, Keeps(c),
         NEW op \in {"sign", "verify"}, May(c, op, OneShot), OneShotCall(c, op)
  PROVE  Keeps(c)'
<1>1. asked[c].op = op /\ asked[c].data = OneShot /\ asked[c].key = sctx[c].key
  BY DEF May, Keeps
<1>2. CASE ~Failed(c)
  <2>1. asked'[c] = asked[c] /\ result'[c] = [op |-> op, key |-> sctx[c].key, data |-> OneShot]
    BY <1>2, HardwareGives DEF OneShotCall
  <2>2. result'[c] = asked[c]
    BY <2>1, <1>1, ResultIs
  <2> QED
    BY <1>1, <2>1, <2>2 DEF OneShotCall, Keeps
<1> QED
  BY <1>2, FailedKeeps

-----------------------------------------------------------------------------
(* The invariant. *)

LEMMA Initially == SignatureAssumption /\ Init => IInv
<1> SUFFICES ASSUME SignatureAssumption, Init PROVE IInv
  OBVIOUS
<1>1. Nothing \in Known
  BY DEF Nothing, Known
<1>2. TypeOK
  BY <1>1 DEF Init, TypeOK
<1>3. Ownership
  BY Distinct DEF Init, Ownership
<1>4. \A c \in Ctx : Keeps(c)
  BY DEF Init, Keeps, Nothing
<1> QED
  BY <1>2, <1>3, <1>4 DEF IInv

\* A step of a context that only touches what is its own.
LEMMA ByMoving ==
  ASSUME Ownership, Careful => \A d \in Ctx : Keeps(d), NEW c \in Ctx, Moves(c), TypeOK',
         Careful => Keeps(c)'
  PROVE  IInv'
<1>1. Ownership'
  BY MovesKeepsOwnership
<1>2. Careful' => \A d \in Ctx : Keeps(d)'
  BY OthersKeep
<1> QED
  BY <1>1, <1>2 DEF IInv

LEMMA Step == SignatureAssumption /\ IInv /\ [Next]_vars => IInv'
<1> SUFFICES ASSUME SignatureAssumption, IInv, [Next]_vars PROVE IInv'
  OBVIOUS
<1> USE DEF IInv
<1>1. CASE UNCHANGED vars
  BY <1>1 DEF vars, TypeOK, Ownership, Keeps
<1>2. ASSUME NEW c \in Ctx, NewCtx(c) PROVE IInv'
  BY <1>2, NewCtxType, NewCtxMoves, NewCtxKeeps, ByMoving
<1>3. ASSUME NEW c \in Ctx, FreeCtx(c) PROVE IInv'
  BY <1>3, FreeCtxType, FreeCtxMoves, FailedKeeps, ByMoving DEF FreeCtx
<1>4. ASSUME NEW c \in Ctx, NEW d \in Ctx, DupCtx(c, d) PROVE IInv'
  BY <1>4, DupCtxType, DupCtxMoves, DupCtxKeeps, ByMoving
<1>5. ASSUME NEW c \in Ctx, NEW k \in Key \cup {NoKey}, NEW op \in {"sign", "verify"}, KeyInit(c, k, op)
      PROVE  IInv'
  BY <1>5, KeyInitType, KeyInitMoves, KeyInitKeeps, ByMoving
<1>6. ASSUME NEW c \in Ctx, NEW k \in Key \cup {NoKey}, NEW known \in BOOLEAN,
             NEW op \in {"sign", "verify"}, DigestInit(c, k, known, op)
      PROVE  IInv'
  BY <1>6, DigestInitType, DigestInitMoves, DigestInitKeeps, ByMoving
<1>7. ASSUME NEW c \in Ctx, NEW b \in Block, NEW op \in {"sign", "verify"},
             May(c, op, << >>), HashUpdate(c, b)
      PROVE  IInv'
  BY <1>7, HashUpdateType, HashUpdateMoves, HashUpdateKeeps, ByMoving
<1>8. ASSUME NEW c \in Ctx, NEW op \in {"sign", "verify"}, May(c, op, << >>), HashFinal(c, op)
      PROVE  IInv'
  BY <1>8, HashFinalType, HashFinalMoves, HashFinalKeeps, ByMoving
<1>9. ASSUME NEW c \in Ctx, NEW op \in {"sign", "verify"}, May(c, op, OneShot), OneShotCall(c, op)
      PROVE  IInv'
  BY <1>9, OneShotType, OneShotMoves, OneShotKeeps, ByMoving
<1> QED
  BY <1>1, <1>2, <1>3, <1>4, <1>5, <1>6, <1>7, <1>8, <1>9
  DEF Next, SignInit, VerifyInit, DigestSignInit, DigestVerifyInit, DigestSignUpdate,
      DigestVerifyUpdate, DigestSignFinal, DigestVerifyFinal, Sign, Verify

LEMMA OwnsItsDigest == SignatureAssumption /\ IInv => EachContextOwnsItsDigest
<1> SUFFICES ASSUME SignatureAssumption, IInv, NEW m \in Md
    PROVE  LET owners == {c \in Ctx : sctx[c].md = m} IN
           /\ md[m] = Freed => owners = {}
           /\ md[m] # Freed => \E c \in Ctx : owners = {c}
  BY DEF EachContextOwnsItsDigest
<1> DEFINE owners == {c \in Ctx : sctx[c].md = m}
<1>1. ASSUME md[m] = Freed PROVE owners = {}
  BY <1>1 DEF IInv, Ownership
<1>2. ASSUME md[m] # Freed PROVE \E c \in Ctx : owners = {c}
  <2>1. PICK c \in Ctx : sctx[c].md = m
    BY <1>2 DEF IInv, Ownership
  <2>2. owners = {c}
    BY <2>1 DEF IInv, Ownership
  <2> QED
    BY <2>2
<1> QED
  BY <1>1, <1>2

LEMMA SignsWhatIsKept == IInv => SignsWhatWasAsked
BY DEF IInv, Keeps, SignsWhatWasAsked

\* Every variable has its type: in particular a freed digest context stays a freed
\* one, and none ever holds more than it was given.
THEOREM SignatureTypes == SignatureAssumption => (Spec => []TypeOK)
<1> SUFFICES ASSUME SignatureAssumption PROVE Spec => []TypeOK
  OBVIOUS
<1>1. Init => IInv
  BY Initially
<1>2. IInv /\ [Next]_vars => IInv'
  BY Step
<1>3. IInv => TypeOK
  BY DEF IInv
<1> QED
  BY <1>1, <1>2, <1>3, PTL DEF Spec

\* Digest contexts of any number of signature contexts are neither lost nor shared
\* nor used after they were freed, whatever the caller does.
THEOREM DigestsAreOwned == SignatureAssumption => (Spec => []EachContextOwnsItsDigest)
<1> SUFFICES ASSUME SignatureAssumption PROVE Spec => []EachContextOwnsItsDigest
  OBVIOUS
<1>1. Init => IInv
  BY Initially
<1>2. IInv /\ [Next]_vars => IInv'
  BY Step
<1>3. IInv => EachContextOwnsItsDigest
  BY OwnsItsDigest
<1> QED
  BY <1>1, <1>2, <1>3, PTL DEF Spec

\* The device signs or verifies, for a careful caller, the whole of the message
\* given since its last init, with the key of that init.
THEOREM SignsTheMessage == SignatureAssumption => (Spec => []SignsWhatWasAsked)
<1> SUFFICES ASSUME SignatureAssumption PROVE Spec => []SignsWhatWasAsked
  OBVIOUS
<1>1. Init => IInv
  BY Initially
<1>2. IInv /\ [Next]_vars => IInv'
  BY Step
<1>3. IInv => SignsWhatWasAsked
  BY SignsWhatIsKept
<1> QED
  BY <1>1, <1>2, <1>3, PTL DEF Spec
=============================================================================
