--------------------------- MODULE StsafeaSignature ---------------------------
(***************************************************************************)
(* Signature contexts of the STSAFE-A120 provider (stsafea_provider.c):    *)
(* each borrows a key and owns a digest context, in which data is hashed   *)
(* before the device signs or verifies the digest.                         *)
(*                                                                         *)
(* The caller is OpenSSL's EVP layer on behalf of an application.  With    *)
(* Careful it stops using a context after an error, until the next init,   *)
(* and finishes with the function that fits the init; otherwise it calls   *)
(* anything on any context.                                                *)
(***************************************************************************)
EXTENDS Naturals, Sequences

CONSTANTS
    Ctx,          \* signature contexts
    Md,           \* digest contexts that can be allocated
    Key, EcKey,   \* keys, and those that are not X25519 keys
    NoKey,        \* a NULL key
    Block,        \* pieces of data
    MaxBlocks,
    Careful

SignatureAssumption ==
    /\ EcKey \subseteq Key /\ NoKey \notin Key /\ MaxBlocks \in Nat /\ Careful \in BOOLEAN
    /\ {"NULL", "noContext"} \cap Md = {} /\ "freed" \notin Block

VARIABLES
    sctx,     \* signature contexts: their key and digest context
    md,       \* digest contexts: what has been hashed
    asked,    \* history: what the caller of a context means to sign or verify
    result    \* what the device has just signed or verified for it

vars == <<sctx, md, asked, result>>

NoCtx  == [key |-> NoKey, md |-> "noContext"]
NULL   == "NULL"
Freed  == [data |-> <<"freed">>, done |-> TRUE]
Nothing == [op |-> "none", key |-> NoKey, data |-> << >>]
OneShot == <<"tbs">>       \* the digest a caller has computed by itself
Garbage == <<"garbage">>   \* what a digest context gives that has been finished before

Set(f, x, v) == [f EXCEPT ![x] = v]

Init ==
    /\ sctx = [c \in Ctx |-> NoCtx] /\ md = [m \in Md |-> Freed]
    /\ asked = [c \in Ctx |-> Nothing] /\ result = [c \in Ctx |-> Nothing]

\* The histories are kept for careful callers.
Note(c, want, got) ==
    IF Careful THEN asked' = Set(asked, c, want) /\ result' = Set(result, c, got)
    ELSE UNCHANGED <<asked, result>>

\* EVP_MD_CTX_free() and EVP_MD_CTX_new().
Without(m) == IF m = NULL THEN md ELSE Set(md, m, Freed)
Spare(heap) == {m \in Md : heap[m] = Freed}
Fresh(heap) == CHOOSE m \in Spare(heap) : TRUE
Empty == [data |-> << >>, done |-> FALSE]

Failed(c) == Note(c, Nothing, Nothing)

\* A signature context takes a key; its digest context stays.
Takes(c, k) == sctx' = Set(sctx, c, [key |-> k, md |-> sctx[c].md])

-----------------------------------------------------------------------------
NewCtx(c) ==
    /\ sctx[c] = NoCtx
    /\ sctx' = Set(sctx, c, [key |-> NoKey, md |-> NULL])
    /\ UNCHANGED <<md, asked, result>>

FreeCtx(c) ==
    /\ sctx[c] # NoCtx
    /\ md' = Without(sctx[c].md)
    /\ sctx' = Set(sctx, c, NoCtx)
    /\ Failed(c)

\* Faulty variant: the digest context is shared.
DupCtx_Shares(c, d) ==
    /\ sctx[c] # NoCtx /\ sctx[d] = NoCtx
    /\ sctx' = Set(sctx, d, sctx[c])
    /\ Note(d, asked[c], result[c])
    /\ UNCHANGED md

\* A copy has a digest context of its own; if that fails there is no copy.
DupCtx(c, d) ==
    /\ sctx[c] # NoCtx /\ sctx[d] = NoCtx
    /\ IF sctx[c].md = NULL
       THEN sctx' = Set(sctx, d, sctx[c]) /\ UNCHANGED md
       ELSE /\ Spare(md) # {}
            /\ md' = Set(md, Fresh(md), md[sctx[c].md])
            /\ sctx' = Set(sctx, d, [key |-> sctx[c].key, md |-> Fresh(md)])
    /\ Note(d, asked[c], result[c])

\* The key of a caller that computes the digest by itself.
KeyInit(c, k, op) ==
    /\ sctx[c] # NoCtx
    /\ IF k = NoKey
       THEN Takes(c, NoKey) /\ Failed(c) /\ UNCHANGED md
       ELSE /\ md' = Without(sctx[c].md)
            /\ sctx' = Set(sctx, c, [key |-> k, md |-> NULL])
            /\ Note(c, [op |-> op, key |-> k, data |-> OneShot], Nothing)

SignInit(c, k)   == KeyInit(c, k, "sign")
VerifyInit(c, k) == KeyInit(c, k, "verify")

\* Faulty variant: a digest context that exists is used again.
DigestInit_Reuses(c, k, known, op) ==
    /\ sctx[c] # NoCtx
    /\ IF k = NoKey \/ ~known
       THEN Takes(c, k) /\ Failed(c) /\ UNCHANGED md
       ELSE \/ /\ sctx[c].md # NULL /\ md[sctx[c].md] # Freed
               /\ Takes(c, k) /\ UNCHANGED md
               /\ Note(c, [op |-> op, key |-> k, data |-> << >>], Nothing)
            \/ /\ sctx[c].md = NULL /\ Spare(md) # {}
               /\ md' = Set(md, Fresh(md), Empty)
               /\ sctx' = Set(sctx, c, [key |-> k, md |-> Fresh(md)])
               /\ Note(c, [op |-> op, key |-> k, data |-> << >>], Nothing)

\* The key is taken first.  An unknown digest leaves the digest context of the
\* previous operation; if the new one cannot be made there is none.
DigestInit(c, k, known, op) ==
    LET heap == Without(sctx[c].md) IN
    /\ sctx[c] # NoCtx
    /\ IF k = NoKey \/ ~known
       THEN Takes(c, k) /\ Failed(c) /\ UNCHANGED md
       ELSE \/ /\ md' = heap
               /\ sctx' = Set(sctx, c, [key |-> k, md |-> NULL]) /\ Failed(c)
            \/ /\ Spare(heap) # {}
               /\ md' = Set(heap, Fresh(heap), Empty)
               /\ sctx' = Set(sctx, c, [key |-> k, md |-> Fresh(heap)])
               /\ Note(c, [op |-> op, key |-> k, data |-> << >>], Nothing)

DigestSignInit(c, k, known)   == DigestInit(c, k, known, "sign")
DigestVerifyInit(c, k, known) == DigestInit(c, k, known, "verify")

\* What the device does with a digest for a key: do_hw_sign(), do_hw_verify().
Hardware(c, op, data) ==
    \/ Failed(c)
    \/ /\ sctx[c].key \in EcKey
       /\ Note(c, asked[c], [op |-> op, key |-> sctx[c].key, data |-> data])

HashUpdate(c, b) ==
    LET m == sctx[c].md IN
    /\ sctx[c] # NoCtx
    /\ IF m = NULL THEN Failed(c) /\ UNCHANGED md
       ELSE /\ Len(md[m].data) < MaxBlocks
            /\ \/ /\ md' = Set(md, m, [data |-> IF md[m].done THEN Garbage ELSE Append(md[m].data, b),
                                       done |-> md[m].done])
                  /\ Note(c, [op |-> asked[c].op, key |-> asked[c].key, data |-> Append(asked[c].data, b)],
                          Nothing)
               \/ Failed(c) /\ UNCHANGED md
    /\ UNCHANGED sctx

DigestSignUpdate(c, b)   == HashUpdate(c, b)
DigestVerifyUpdate(c, b) == HashUpdate(c, b)

\* The digest context is finished, then the device is asked; a caller that only
\* asks for the size of a signature changes nothing.
HashFinal(c, op) ==
    LET m == sctx[c].md IN
    /\ sctx[c] # NoCtx
    /\ IF m = NULL \/ sctx[c].key = NoKey THEN Failed(c) /\ UNCHANGED md
       ELSE \/ /\ md' = Set(md, m, [data |-> md[m].data, done |-> TRUE])
               /\ Hardware(c, op, IF md[m].done THEN Garbage ELSE md[m].data)
            \/ Failed(c) /\ UNCHANGED md
    /\ UNCHANGED sctx

DigestSignFinal(c)   == HashFinal(c, "sign")
DigestVerifyFinal(c) == HashFinal(c, "verify")

OneShotCall(c, op) ==
    /\ sctx[c] # NoCtx
    /\ IF sctx[c].key = NoKey THEN Failed(c) ELSE Hardware(c, op, OneShot)
    /\ UNCHANGED <<sctx, md>>

Sign(c)   == OneShotCall(c, "sign")
Verify(c) == OneShotCall(c, "verify")

\* A careful caller updates and finishes what it has begun, once, with the functions
\* of its kind; when it is done it starts again.
May(c, op, data) ==
    Careful => asked[c].op = op /\ result[c] = Nothing /\ (asked[c].data = OneShot <=> data = OneShot)

Next ==
    \E c \in Ctx :
        \/ NewCtx(c) \/ FreeCtx(c)
        \/ \E d \in Ctx : DupCtx(c, d)
        \/ \E k \in Key \cup {NoKey} :
              \/ SignInit(c, k) \/ VerifyInit(c, k)
              \/ \E known \in BOOLEAN : DigestSignInit(c, k, known) \/ DigestVerifyInit(c, k, known)
        \/ \E b \in Block :
              \/ May(c, "sign", << >>) /\ DigestSignUpdate(c, b)
              \/ May(c, "verify", << >>) /\ DigestVerifyUpdate(c, b)
        \/ May(c, "sign", << >>) /\ DigestSignFinal(c)
        \/ May(c, "verify", << >>) /\ DigestVerifyFinal(c)
        \/ May(c, "sign", OneShot) /\ Sign(c)
        \/ May(c, "verify", OneShot) /\ Verify(c)

Spec == Init /\ [][Next]_vars

-----------------------------------------------------------------------------
(* Properties. *)

Hashed == Seq(Block \cup {"garbage"})
Known == [op : {"none", "sign", "verify"}, key : Key \cup {NoKey}, data : Seq(Block \cup {"tbs", "garbage"})]

\* Every variable has its type.
TypeOK ==
    /\ sctx \in [Ctx -> {NoCtx} \cup [key : Key \cup {NoKey}, md : Md \cup {NULL}]]
    /\ md \in [Md -> {Freed} \cup [data : Hashed, done : BOOLEAN]]
    /\ \A m \in Md : md[m] # Freed => Len(md[m].data) <= MaxBlocks
    /\ asked \in [Ctx -> Known] /\ result \in [Ctx -> Known]

\* Every digest context belongs to exactly one signature context, which points to
\* it: none leaks, none is shared, none is used after it was freed, after any
\* sequence of inits, failures and copies.
EachContextOwnsItsDigest ==
    \A m \in Md :
        LET owners == {c \in Ctx : sctx[c].md = m} IN
        /\ md[m] = Freed => owners = {}
        /\ md[m] # Freed => \E c \in Ctx : owners = {c}

\* What the device signs or verifies for a careful caller is the data given since
\* its last init, all of it, with the key of that init; also in a copy, and after
\* inits that failed with another key.
SignsWhatWasAsked ==
    Careful => \A c \in Ctx : result[c] # Nothing => result[c] = asked[c]
=============================================================================
