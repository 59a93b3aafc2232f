--------------------------- MODULE StsafelProvider ---------------------------
(***************************************************************************)
(* The OpenSSL provider for the STSAFE-L010 (stsafel_provider.c): Ed25519  *)
(* key pairs generated in the slots of devices, public keys imported and   *)
(* exported, and signature contexts.  The device signs 16-byte challenges; *)
(* verification is left to OpenSSL's software, in objects a signature      *)
(* context owns.  One thread calls it; ProviderContext is about several.   *)
(*                                                                         *)
(* The caller is OpenSSL's EVP layer: it makes a key object for every      *)
(* import and frees it if that fails, and keeps a key as long as a context *)
(* borrows it.  With Careful it does not use a context after an error      *)
(* until the next init, and does what it has initialised it for.           *)
(***************************************************************************)
EXTENDS Naturals

CONSTANTS
    Key, Gen, Ctx,  \* key objects, generation contexts, signature contexts
    Obj,            \* OpenSSL objects that can be allocated for verification
    InitParams, GenParams, ImportParams,  \* parameters given to the provider
    Bad,            \* a value that is not of the type of its parameter
    NoKey,          \* a NULL key
    MaxPairs,       \* key pairs generated in a run
    Careful

Given(p, f) == f \in DOMAIN p

\* Numbers are of type uint32_t, or the parameter is not a number; an import gives a
\* public key, that of a pair or one from elsewhere.
ProviderAssumption ==
    /\ MaxPairs \in Nat /\ Careful \in BOOLEAN /\ NoKey \notin Key /\ Bad \notin Nat
    /\ Gen \cap Ctx = {} /\ {"NULL", "none"} \cap Obj = {}
    /\ \A p \in InitParams \cup GenParams \cup ImportParams, f \in {"slot", "bus", "addr"} :
          Given(p, f) => p[f] \in Nat \cup {Bad}
    /\ \A p \in ImportParams : p.pub \in (1 .. MaxPairs + 1) \cup {Bad}

\* A caller whose parameters are accepted means a place that there is: its numbers
\* survive the cast to uint8_t.
CallerAssumption ==
    \A p \in InitParams \cup GenParams :
        /\ DOMAIN p \subseteq {"slot", "bus", "addr"}
        /\ (\A f \in DOMAIN p : p[f] # Bad) => \A f \in DOMAIN p : p[f] < 256

VARIABLES
    key, gen, sctx, \* the objects of each kind
    obj,            \* what an object verifies with: a public key
    handler,        \* the device that is open
    at,             \* the key pair in each place of a device that has had one
    pairs,          \* key pairs generated
    asked,          \* history: parameters of a generation context, last init of a signature context
    did             \* history: what the last call signed or verified

vars == <<key, gen, sctx, obj, handler, at, pairs, asked, did>>

Absent   == [slot |-> "none"]
NoCtx    == [key |-> NoKey, md |-> "none", sw |-> "none"]
NULL     == "NULL"
NoPub    == 0
Foreign  == MaxPairs + 1     \* a public key from elsewhere
Freed    == MaxPairs + 2
Nothing  == [op |-> "nothing"]
Closed   == [ready |-> FALSE]
NoParams == << >>
Challenge == 16

Set(f, x, v) == [f EXCEPT ![x] = v]
\* What f says, and where it says nothing, what g says.
Over(f, g) == [x \in DOMAIN f \cup DOMAIN g |-> IF x \in DOMAIN f THEN f[x] ELSE g[x]]

Init ==
    /\ key = [k \in Key |-> Absent] /\ gen = [g \in Gen |-> Absent] /\ sctx = [c \in Ctx |-> NoCtx]
    /\ obj = [o \in Obj |-> Freed] /\ handler = Closed
    /\ at = << >> /\ pairs = 0
    /\ asked = [x \in Gen \cup Ctx |-> IF x \in Gen THEN NoParams ELSE Nothing]
    /\ did = Nothing

-----------------------------------------------------------------------------
(* The device. *)

On(x) == [ready |-> TRUE, bus |-> x.bus, addr |-> x.addr]

\* Faulty variant: a device that is open is taken to be the right one.
Opens_Any(x) ==
    IF handler.ready THEN UNCHANGED handler ELSE handler' = On(x)

\* provctx_ensure_init() for a key or generation context: the device is open, or
\* is opened, or that fails and none is.
Opens(x) == handler' = On(x)
Fails(x) == handler # On(x) /\ handler' = Closed

\* The slot of the device that is open when the command is sent.
Place(x) == <<handler'.bus, handler'.addr, x.slot>>

-----------------------------------------------------------------------------
(* Keys. *)

\* The cast to uint8_t.
Byte(n) == n % 256

\* stsafel_ed_keymgmt_new()
NewKey == [slot |-> 0, bus |-> 1, addr |-> 12, pub |-> NoPub]

\* stse_keymgmt_gen_set_params(): one after the other up to the first that is refused.
Good(p, f) == Given(p, f) => p[f] # Bad
SetParamsOk(p) == Good(p, "slot") /\ Good(p, "bus") /\ Good(p, "addr")
Before == [slot |-> {"slot"}, bus |-> {"slot", "bus"}, addr |-> {"slot", "bus", "addr"}]
Taken(p, f) == Given(p, f) /\ \A e \in Before[f] : Good(p, e)
SetParams(g, p) ==
    [slot |-> IF Taken(p, "slot") THEN Byte(p.slot) ELSE g.slot,
     bus  |-> IF Taken(p, "bus") THEN Byte(p.bus) ELSE g.bus,
     addr |-> IF Taken(p, "addr") THEN Byte(p.addr) ELSE g.addr]

Default == [slot |-> 0, bus |-> 1, addr |-> 12]

KeysOnly == UNCHANGED <<sctx, obj, handler, at, pairs>> /\ did' = Nothing

\* Faulty variant: the defaults replace what the parameters say.
GenInit_DefaultsLast(g, p) ==
    /\ gen[g] = Absent
    /\ gen' = Set(gen, g, [SetParams(Default, p) EXCEPT !.addr = Default.addr])
    /\ asked' = Set(asked, g, IF SetParamsOk(p) THEN p ELSE NoParams)
    /\ KeysOnly /\ UNCHANGED key

\* The defaults, then the parameters; whether those were good is ignored.
GenInit(g, p) ==
    /\ gen[g] = Absent
    /\ gen' = Set(gen, g, SetParams(Default, p))
    /\ asked' = Set(asked, g, IF SetParamsOk(p) THEN p ELSE NoParams)
    /\ KeysOnly /\ UNCHANGED key

\* A caller whose parameters are refused does not know which were taken.
GenSetParams(g, p) ==
    /\ gen[g] # Absent
    /\ gen' = Set(gen, g, SetParams(gen[g], p))
    /\ asked' = Set(asked, g,
           IF SetParamsOk(p) THEN Over(p, asked[g])
           ELSE [f \in DOMAIN asked[g] \ DOMAIN p |-> asked[g][f]])
    /\ KeysOnly /\ UNCHANGED key

GenCleanup(g) ==
    /\ gen[g] # Absent
    /\ gen' = Set(gen, g, Absent) /\ asked' = Set(asked, g, NoParams)
    /\ KeysOnly /\ UNCHANGED key

\* The device replaces the pair in the slot and answers with its public half.  If it
\* cannot be opened or the answer is an error there is no key object, and the pair
\* may have been replaced all the same.
Generate(g, k) ==
    /\ gen[g] # Absent /\ key[k] = Absent /\ pairs < MaxPairs
    /\ \/ Fails(gen[g]) /\ UNCHANGED <<key, at, pairs>>
       \/ Opens(gen[g]) /\ UNCHANGED <<key, at, pairs>>
       \/ /\ Opens(gen[g])
          /\ at' = [x \in DOMAIN at \cup {Place(gen[g])} |->
                       IF x = Place(gen[g]) THEN pairs + 1 ELSE at[x]]
          /\ pairs' = pairs + 1
          /\ \/ key' = Set(key, k, [slot |-> gen[g].slot, bus |-> gen[g].bus, addr |-> gen[g].addr,
                                    pub |-> pairs + 1])
             \/ UNCHANGED key
    /\ did' = Nothing
    /\ UNCHANGED <<gen, sctx, obj, asked>>

\* A number that is not of its type is ignored by an import.
Number(p, f, default) == IF Given(p, f) /\ p[f] # Bad THEN Byte(p[f]) ELSE default
Imported(p) ==
    [slot |-> Number(p, "slot", NewKey.slot), bus |-> Number(p, "bus", NewKey.bus),
     addr |-> Number(p, "addr", NewKey.addr), pub |-> p.pub]

\* A public key of 32 bytes is needed; without it the new object is freed again.  If
\* no public key is selected it stays as it is.
Import(k, p) ==
    /\ key[k] = Absent
    /\ \/ p.pub # Bad /\ key' = Set(key, k, Imported(p))
       \/ key' = Set(key, k, NewKey)
    /\ KeysOnly /\ UNCHANGED <<gen, asked>>

Has(k, selection) == "public" \in selection => key[k].pub # NoPub

\* An export hands over the public key, and nothing else, to the import of j.
Export(k, j) ==
    /\ key[k] # Absent /\ key[j] = Absent /\ Has(k, {"public"})
    /\ key' = Set(key, j, Imported([pub |-> key[k].pub]))
    /\ KeysOnly /\ UNCHANGED <<gen, asked>>

Free(k) ==
    /\ key[k] # Absent /\ \A c \in Ctx : sctx[c].key # k
    /\ key' = Set(key, k, Absent)
    /\ KeysOnly /\ UNCHANGED <<gen, asked>>

-----------------------------------------------------------------------------
(* Signature contexts. *)

\* OpenSSL's ..._free() and ..._new(), which may fail.
Without(heap, o) == IF o = NULL THEN heap ELSE Set(heap, o, Freed)
Spare(heap) == {o \in Obj : heap[o] = Freed}
Fresh(heap) == CHOOSE o \in Spare(heap) : TRUE

CtxOnly == UNCHANGED <<key, gen, handler, at, pairs>> /\ did' = Nothing
Asked(c, want) == asked' = IF Careful THEN Set(asked, c, want) ELSE asked
Failed(c) == Asked(c, Nothing)
Succeeded(c, op) == Asked(c, [op |-> op, key |-> sctx'[c].key])

NewCtx(c) ==
    /\ sctx[c] = NoCtx
    /\ sctx' = Set(sctx, c, [key |-> NoKey, md |-> NULL, sw |-> NULL])
    /\ CtxOnly /\ UNCHANGED <<obj, asked>>

FreeCtx(c) ==
    /\ sctx[c] # NoCtx
    /\ obj' = Without(Without(obj, sctx[c].md), sctx[c].sw)
    /\ sctx' = Set(sctx, c, NoCtx)
    /\ CtxOnly /\ Failed(c)

\* A copy of each object it owns, or no copy.
DupCtx(c, d) ==
    LET owned == {sctx[c].md, sctx[c].sw} \ {NULL}
    IN  /\ sctx[c] # NoCtx /\ sctx[d] = NoCtx
        /\ \E f \in [owned -> Spare(obj)] :
              /\ \A o, p \in owned : f[o] = f[p] => o = p
              /\ sctx' = Set(sctx, d, [key |-> sctx[c].key,
                                      md |-> IF sctx[c].md = NULL THEN NULL ELSE f[sctx[c].md],
                                      sw |-> IF sctx[c].sw = NULL THEN NULL ELSE f[sctx[c].sw]])
              /\ obj' = [o \in Obj |-> IF \E p \in owned : f[p] = o
                                       THEN obj[CHOOSE p \in owned : f[p] = o] ELSE obj[o]]
        /\ CtxOnly /\ Asked(d, asked[c])

\* stse_sig_sign_init(), stse_sig_digest_sign_init()
SignInit(c, k) ==
    /\ sctx[c] # NoCtx
    /\ sctx' = Set(sctx, c, [key |-> k, md |-> sctx[c].md, sw |-> sctx[c].sw])
    /\ IF k = NoKey THEN Failed(c) ELSE Succeeded(c, "sign")
    /\ CtxOnly /\ UNCHANGED obj

\* The key as one of OpenSSL's own: stse_key_to_sw_pkey() needs its public half.
HasSoftKey(k) == k # NoKey /\ key[k].pub # NoPub

\* Faulty variant: the object of an earlier init is kept.
VerifyInit_KeepsObject(c, k) ==
    LET heap == Without(obj, sctx[c].md) IN
    /\ sctx[c] # NoCtx /\ HasSoftKey(k) /\ (sctx[c].sw = NULL => Spare(heap) # {})
    /\ sctx' = Set(sctx, c, [key |-> k, md |-> NULL,
                             sw |-> IF sctx[c].sw = NULL THEN Fresh(heap) ELSE sctx[c].sw])
    /\ obj' = IF sctx[c].sw = NULL THEN Set(heap, Fresh(heap), key[k].pub) ELSE heap
    /\ Succeeded(c, "verify")
    /\ CtxOnly

\* The object of the previous init stays when there is no software key.
VerifyInit(c, k) ==
    LET heap == Without(obj, sctx[c].md)
        free == Without(heap, sctx[c].sw)
    IN
    /\ sctx[c] # NoCtx
    /\ \/ /\ k = NoKey
          /\ sctx' = Set(sctx, c, [key |-> NoKey, md |-> sctx[c].md, sw |-> sctx[c].sw])
          /\ UNCHANGED obj /\ Failed(c)
       \/ /\ k # NoKey
          /\ sctx' = Set(sctx, c, [key |-> k, md |-> NULL, sw |-> sctx[c].sw]) /\ obj' = heap /\ Failed(c)
       \/ /\ HasSoftKey(k)
          /\ sctx' = Set(sctx, c, [key |-> k, md |-> NULL, sw |-> NULL]) /\ obj' = free /\ Failed(c)
       \/ /\ HasSoftKey(k) /\ Spare(free) # {}
          /\ sctx' = Set(sctx, c, [key |-> k, md |-> NULL, sw |-> Fresh(free)])
          /\ obj' = Set(free, Fresh(free), key[k].pub) /\ Succeeded(c, "verify")
    /\ CtxOnly

\* Faulty variant: the digest object of an earlier init is not freed.
DigestVerifyInit_Leaks(c, k) ==
    LET heap == Without(obj, sctx[c].sw) IN
    /\ sctx[c] # NoCtx /\ HasSoftKey(k) /\ Spare(heap) # {}
    /\ sctx' = Set(sctx, c, [key |-> k, md |-> Fresh(heap), sw |-> NULL])
    /\ obj' = Set(heap, Fresh(heap), key[k].pub)
    /\ Succeeded(c, "digestVerify")
    /\ CtxOnly

\* The other way round: the object for plain verification goes first, the one of
\* the digest stays when there is no software key.
DigestVerifyInit(c, k) ==
    LET heap == Without(obj, sctx[c].sw)
        free == Without(heap, sctx[c].md)
    IN
    /\ sctx[c] # NoCtx
    /\ \/ /\ k = NoKey
          /\ sctx' = Set(sctx, c, [key |-> NoKey, md |-> sctx[c].md, sw |-> sctx[c].sw])
          /\ UNCHANGED obj /\ Failed(c)
       \/ /\ k # NoKey
          /\ sctx' = Set(sctx, c, [key |-> k, md |-> sctx[c].md, sw |-> NULL]) /\ obj' = heap /\ Failed(c)
       \/ /\ HasSoftKey(k)
          /\ sctx' = Set(sctx, c, [key |-> k, md |-> NULL, sw |-> NULL]) /\ obj' = free /\ Failed(c)
       \/ /\ HasSoftKey(k) /\ Spare(free) # {}
          /\ sctx' = Set(sctx, c, [key |-> k, md |-> Fresh(free), sw |-> NULL])
          /\ obj' = Set(free, Fresh(free), key[k].pub) /\ Succeeded(c, "digestVerify")
    /\ CtxOnly

\* stse_sig_sign(), stse_sig_digest_sign(): do_hw_sign() refuses all but a challenge
\* before it opens the device, which signs with the pair in the slot, if any.
Sign(c, len) ==
    LET k == key[sctx[c].key] IN
    /\ sctx[c] # NoCtx
    /\ IF sctx[c].key = NoKey \/ len # Challenge THEN UNCHANGED handler /\ did' = Nothing /\ Failed(c)
       ELSE \/ Fails(k) /\ did' = Nothing /\ Failed(c)
            \/ Opens(k) /\ did' = Nothing /\ Failed(c)
            \/ /\ Opens(k) /\ Place(k) \in DOMAIN at
               /\ did' = [op |-> "sign", ctx |-> c, by |-> at[Place(k)]] /\ UNCHANGED asked
    /\ UNCHANGED <<key, gen, sctx, obj, at, pairs>>

Verify(c) ==
    /\ sctx[c] # NoCtx
    /\ IF sctx[c].sw = NULL THEN did' = Nothing
       ELSE did' = [op |-> "verify", ctx |-> c, by |-> obj[sctx[c].sw]]
    /\ UNCHANGED <<key, gen, sctx, obj, handler, at, pairs, asked>>

\* With objects of its own, which are freed before it returns.
DigestVerify(c) ==
    /\ sctx[c] # NoCtx
    /\ \/ did' = Nothing
       \/ /\ HasSoftKey(sctx[c].key)
          /\ did' = [op |-> "digestVerify", ctx |-> c, by |-> key[sctx[c].key].pub]
    /\ UNCHANGED <<key, gen, sctx, obj, handler, at, pairs, asked>>

May(c, op) == Careful => asked[c].op = op

Next ==
    \/ \E g \in Gen :
          \/ \E p \in InitParams : GenInit(g, p)
          \/ \E p \in GenParams : GenSetParams(g, p)
          \/ \E k \in Key : Generate(g, k)
          \/ GenCleanup(g)
    \/ \E k \in Key :
          \/ \E p \in ImportParams : Import(k, p)
          \/ \E j \in Key : Export(k, j)
          \/ Free(k)
    \/ \E c \in Ctx :
          \/ NewCtx(c) \/ FreeCtx(c)
          \/ \E d \in Ctx : DupCtx(c, d)
          \/ \E k \in {j \in Key : key[j] # Absent} \cup {NoKey} :
                SignInit(c, k) \/ VerifyInit(c, k) \/ DigestVerifyInit(c, k)
          \/ \E len \in {Challenge, 2 * Challenge} : May(c, "sign") /\ Sign(c, len)
          \/ May(c, "verify") /\ Verify(c)
          \/ May(c, "digestVerify") /\ DigestVerify(c)

Spec == Init /\ [][Next]_vars

-----------------------------------------------------------------------------
(* Properties. *)

Number8 == 0 .. 255
ParamsOf(S) == [slot : S, bus : S, addr : S]

\* Every variable has its type.
TypeOK ==
    /\ key \in [Key -> {Absent} \cup [slot : Number8, bus : Number8, addr : Number8, pub : 0 .. Foreign]]
    /\ gen \in [Gen -> {Absent} \cup ParamsOf(Number8)]
    /\ sctx \in [Ctx -> {NoCtx} \cup [key : Key \cup {NoKey}, md : Obj \cup {NULL}, sw : Obj \cup {NULL}]]
    /\ obj \in [Obj -> 1 .. Freed] /\ pairs \in 0 .. MaxPairs

\* Every object has exactly one place in one context that points to it: none
\* leaks, none is shared by a copy, none is used after it was freed, whatever
\* order the two kinds of verification are initialised in and fail.
EachObjectOwnedOnce ==
    \A o \in Obj :
        LET owners == {c \in Ctx : o \in {sctx[c].md, sctx[c].sw}} IN
        /\ obj[o] = Freed => owners = {}
        /\ obj[o] # Freed => \E c \in Ctx : owners = {c} /\ sctx[c].md # sctx[c].sw

GeneratesAsAsked ==
    \A g \in Gen, k \in Key :
        Generate(g, k) /\ key'[k] # Absent =>
            \A f \in DOMAIN asked[g] : key'[k][f] = asked[g][f]

\* A generated key is in the place its caller asked for, with gen_init() and
\* all the calls of gen_set_params() that succeeded.
GeneratedAsAsked == [][GeneratesAsAsked]_vars

\* A signature is made by the pair in the slot of the key on the device of the key,
\* though all keys share one handler and any of them may have used it in between.
SignedByItsPair ==
    did.op = "sign" =>
        LET k == key[sctx[did.ctx].key] IN
        /\ <<k.bus, k.addr, k.slot>> \in DOMAIN at
        /\ did.by = at[<<k.bus, k.addr, k.slot>>]

\* A careful caller's signature is verified with the public key of the last init,
\* also after inits that failed with another key.
VerifiesWithAskedKey ==
    Careful /\ did.op \in {"verify", "digestVerify"} =>
        did.by = key[asked[did.ctx].key].pub

=============================================================================
