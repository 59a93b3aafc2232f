----------------------------- MODULE StsafeaKeys -----------------------------
(***************************************************************************)
(* Key management of the OpenSSL provider for the STSAFE-A120              *)
(* (stsafea_provider.c): generation contexts and the parameters they are   *)
(* given, key pairs generated in a slot of a device, public keys imported, *)
(* and what is exported and told about them.  The private half of a key    *)
(* never leaves the device: a key object names its place, that is the bus, *)
(* the address and the slot.                                               *)
(*                                                                         *)
(* OpenSSL is the caller: it makes a new key object for every import and   *)
(* frees it when the import fails.  The provider context, which opens the  *)
(* device, is ProviderContext; here the device may fail at any time.       *)
(***************************************************************************)
EXTENDS Naturals, Sequences

CONSTANTS
    Key, Gen,      \* key objects and generation contexts
    InitParams,    \* parameters OpenSSL passes to gen_init()
    GenParams,     \* parameters a caller passes to gen_set_params()
    ImportParams,  \* parameters OpenSSL passes to import()
    Bad,           \* a value that is not of the type of its parameter
    MaxPairs       \* key pairs generated in a run

VARIABLES
    key,    \* key objects, NoObject if there is none
    gen,    \* generation contexts
    asked,  \* history: the parameters the caller of a context gave with success
    at,     \* the key pair in each place of a device that has had one
    pairs   \* key pairs generated

vars == <<key, gen, asked, at, pairs>>

-----------------------------------------------------------------------------
(* The curves, in the order of the table. *)

ec_curves == <<
    [name |-> "prime256v1",      type |-> "P_256",    bits |-> 256, coord |-> 32],
    [name |-> "P-256",           type |-> "P_256",    bits |-> 256, coord |-> 32],
    [name |-> "secp384r1",       type |-> "P_384",    bits |-> 384, coord |-> 48],
    [name |-> "P-384",           type |-> "P_384",    bits |-> 384, coord |-> 48],
    [name |-> "nistp521",        type |-> "P_521",    bits |-> 521, coord |-> 66],
    [name |-> "P-521",           type |-> "P_521",    bits |-> 521, coord |-> 66],
    [name |-> "brainpoolP256r1", type |-> "BP_P_256", bits |-> 256, coord |-> 32],
    [name |-> "brainpoolP384r1", type |-> "BP_P_384", bits |-> 384, coord |-> 48],
    [name |-> "brainpoolP512r1", type |-> "BP_P_512", bits |-> 512, coord |-> 64] >>

\* The loops over the table: the first line that fits.
Line(fits(_)) ==
    LET found == {i \in 1 .. Len(ec_curves) : fits(ec_curves[i])}
    IN  ec_curves[CHOOSE i \in found : \A j \in found : i <= j]
OfType(type) == Line(LAMBDA c : c.type = type)
OfName(name) == Line(LAMBDA c : c.name = name)
Known(name)  == \E i \in 1 .. Len(ec_curves) : ec_curves[i].name = name

\* Length of a public key: a point of a curve, or 32 bytes for X25519.
PubLen(kind, curve) == IF kind = "EC" THEN 1 + 2 * OfType(curve).coord ELSE 32
PubPointSize == 133   \* the buffer pub_point

-----------------------------------------------------------------------------
(* Parameters are a record with a field for each that is given. *)

Given(p, f) == f \in DOMAIN p
NoParams == << >>

\* Numbers are of type uint32_t, or the parameter is not a number.
PairAssumption ==
    /\ MaxPairs \in Nat /\ Bad \notin Nat /\ ~Known(Bad)
    /\ \A p \in InitParams \cup GenParams \cup ImportParams, f \in {"slot", "bus", "addr"} :
          Given(p, f) => p[f] \in Nat \cup {Bad}

\* OpenSSL gives gen_init() no address and no group, and a caller whose parameters are
\* accepted means a place that there is: its numbers survive the cast to uint8_t.
CallerAssumption ==
    /\ \A p \in InitParams : ~Given(p, "addr") /\ ~Given(p, "group")
    /\ \A p \in InitParams \cup GenParams :
          (\A f \in {"slot", "bus", "addr"} : Given(p, f) => p[f] # Bad) =>
              \A f \in {"slot", "bus", "addr"} : Given(p, f) => p[f] < 256

\* Faulty variant: no cast.
Byte_Wide(n) == n

\* The cast to uint8_t.
Byte(n) == n % 256

NoObject == [kind |-> "none"]
NoGen == [kind |-> "none"]
NoPub == 0
Foreign == MaxPairs + 1     \* a public key from elsewhere

\* stse_keymgmt_new(), stsafea_ec_keymgmt_new(), stsafea_x25519_keymgmt_new()
NewKey(kind) ==
    [kind |-> kind, curve |-> IF kind = "EC" THEN "P_256" ELSE "X25519",
     slot |-> 0, bus |-> 1, addr |-> 32,
     pub |-> NoPub, len |-> PubLen(kind, "P_256")]

\* The curve of an import: P-256 if no group is given.
ImportCurve(kind, p) ==
    IF kind = "EC" /\ Given(p, "group") THEN OfName(p.group).type ELSE NewKey(kind).curve

\* Faulty variant: the length of the public key is not compared with the curve.
ImportOk_AnyLength(kind, p) ==
    /\ kind = "EC" /\ Given(p, "group") => p.group # Bad /\ Known(p.group)
    /\ Given(p, "pub") /\ p.pub # Bad

\* An import is refused for an unknown group or a public key that does not fit
\* the curve; pub stands for the length of the public key.
ImportOk(kind, p) ==
    /\ kind = "EC" /\ Given(p, "group") => p.group # Bad /\ Known(p.group)
    /\ Given(p, "pub") /\ p.pub # Bad
    /\ p.pub = PubLen(kind, ImportCurve(kind, p))

\* A number that is not of its type is ignored by an import.
Number(p, f, default) == IF Given(p, f) /\ p[f] # Bad THEN Byte(p[f]) ELSE default

\* stsafea_ec_keymgmt_import(), stsafea_x25519_keymgmt_import()
Imported(kind, p) ==
    [kind |-> kind, curve |-> ImportCurve(kind, p),
     slot |-> Number(p, "slot", NewKey(kind).slot), bus |-> Number(p, "bus", NewKey(kind).bus),
     addr |-> Number(p, "addr", NewKey(kind).addr), pub |-> Foreign, len |-> p.pub]

\* Has the key what is selected?  The private half is taken to be in the device.
Has(k, selection) == "public" \in selection => k.pub # NoPub

\* Faulty variant: always the default.
GroupName_Default(k) == "prime256v1"

GroupName(k) == OfType(k.curve).name
Bits(k) == IF k.kind = "EC" THEN OfType(k.curve).bits ELSE 256

\* What an export of everything hands over; it fails without a public key.
Exported(k) ==
    IF k.kind = "EC" THEN [group |-> GroupName(k), pub |-> k.len] ELSE [pub |-> k.len]

-----------------------------------------------------------------------------
(* The parameters of a generation: taken one after the other, in this order, *)
(* up to the first that is refused.                                          *)

Order == <<"slot", "bus", "addr", "group">>
LooksAt(g, p, f) == Given(p, f) /\ (f = "group" => g.kind = "EC")
Good(g, p, f) == LooksAt(g, p, f) => p[f] # Bad /\ (f = "group" => Known(p[f]))
SetParamsOk(g, p) == \A i \in 1 .. Len(Order) : Good(g, p, Order[i])
Taken(g, p, f) ==
    /\ LooksAt(g, p, f)
    /\ \E i \in 1 .. Len(Order) : Order[i] = f /\ \A j \in 1 .. i : Good(g, p, Order[j])

\* stse_keymgmt_gen_set_params()
SetParams(g, p) ==
    [kind  |-> g.kind,
     slot  |-> IF Taken(g, p, "slot") THEN Byte(p.slot) ELSE g.slot,
     bus   |-> IF Taken(g, p, "bus") THEN Byte(p.bus) ELSE g.bus,
     addr  |-> IF Taken(g, p, "addr") THEN Byte(p.addr) ELSE g.addr,
     curve |-> IF Taken(g, p, "group") THEN OfName(p.group).type ELSE g.curve]

-----------------------------------------------------------------------------
Set(f, x, v) == [f EXCEPT ![x] = v]
\* What f says, and where it says nothing, what g says.
Over(f, g) == [x \in DOMAIN f \cup DOMAIN g |-> IF x \in DOMAIN f THEN f[x] ELSE g[x]]
Place(x) == <<x.bus, x.addr, x.slot>>

Init ==
    /\ key = [k \in Key |-> NoObject] /\ gen = [g \in Gen |-> NoGen]
    /\ asked = [g \in Gen |-> NoParams]
    /\ at = << >> /\ pairs = 0

\* The common part applies the parameters and ignores whether they were good;
\* then the curve and the address get their defaults.
GenInit(g, kind, p) ==
    LET common == SetParams([kind |-> "EC", curve |-> "none", slot |-> 0, bus |-> 1, addr |-> 0], p)
    IN  /\ gen[g] = NoGen
        /\ gen' = Set(gen, g, [kind |-> kind, curve |-> NewKey(kind).curve, slot |-> common.slot,
                                bus |-> common.bus, addr |-> 32])
        /\ asked' = Set(asked, g, IF SetParamsOk(common, p) THEN p ELSE NoParams)
        /\ UNCHANGED <<key, at, pairs>>

\* A caller whose parameters are refused does not know which were taken.
GenSetParams(g, p) ==
    /\ gen[g] # NoGen
    /\ gen' = Set(gen, g, SetParams(gen[g], p))
    /\ asked' = Set(asked, g,
           IF SetParamsOk(gen[g], p) THEN Over(p, asked[g])
           ELSE [f \in DOMAIN asked[g] \ DOMAIN p |-> asked[g][f]])
    /\ UNCHANGED <<key, at, pairs>>

\* The object of a key generated in context g.
Generated(g) ==
    [kind |-> gen[g].kind,
     curve |-> IF gen[g].kind = "EC" THEN gen[g].curve ELSE NewKey(gen[g].kind).curve,
     slot |-> gen[g].slot, bus |-> gen[g].bus, addr |-> gen[g].addr,
     pub |-> pairs + 1, len |-> PubLen(gen[g].kind, gen[g].curve)]

\* The pair in the slot of a device is another one.
Replaced(x) ==
    at' = [y \in DOMAIN at \cup {Place(x)} |-> IF y = Place(x) THEN pairs + 1 ELSE at[y]]

\* Faulty variant: on an error the object is returned, with the public half it has.
Generate_KeepsOnError(g, k) ==
    /\ gen[g] # NoGen /\ key[k] = NoObject /\ pairs < MaxPairs
    /\ \E replaced, answered \in BOOLEAN :
          /\ IF replaced THEN Replaced(gen[g]) ELSE UNCHANGED at
          /\ pairs' = IF replaced THEN pairs + 1 ELSE pairs
          /\ key' = Set(key, k, IF answered THEN Generated(g) ELSE NoObject)
    /\ UNCHANGED <<gen, asked>>

\* The device replaces the pair in the slot and answers with the public half.  If
\* the answer is lost, or the device cannot be opened or refuses, or there is no
\* memory, the object is freed, and the pair may have been replaced or not.
Generate(g, k) ==
    /\ gen[g] # NoGen /\ key[k] = NoObject /\ pairs < MaxPairs
    /\ \E replaced, answered \in BOOLEAN :
          /\ answered => replaced
          /\ IF replaced THEN Replaced(gen[g]) ELSE UNCHANGED at
          /\ pairs' = IF replaced THEN pairs + 1 ELSE pairs
          /\ key' = Set(key, k, IF answered THEN Generated(g) ELSE NoObject)
    /\ UNCHANGED <<gen, asked>>

GenCleanup(g) ==
    /\ gen[g] # NoGen
    /\ gen' = Set(gen, g, NoGen) /\ asked' = Set(asked, g, NoParams)
    /\ UNCHANGED <<key, at, pairs>>

\* A new object takes what is selected and given, or is freed again; without a
\* public key selected it stays as it is.
Import(k, kind, p) ==
    /\ key[k] = NoObject
    /\ \/ ImportOk(kind, p) /\ key' = Set(key, k, Imported(kind, p))
       \/ key' = Set(key, k, NewKey(kind))
    /\ UNCHANGED <<gen, asked, at, pairs>>

Free(k) ==
    /\ key[k] # NoObject
    /\ key' = Set(key, k, NoObject)
    /\ UNCHANGED <<gen, asked, at, pairs>>

Next ==
    \/ \E g \in Gen :
          \/ \E kind \in {"EC", "X25519"}, p \in InitParams : GenInit(g, kind, p)
          \/ \E p \in GenParams : GenSetParams(g, p)
          \/ \E k \in Key : Generate(g, k)
          \/ GenCleanup(g)
    \/ \E k \in Key :
          \/ \E kind \in {"EC", "X25519"}, p \in ImportParams : Import(k, kind, p)
          \/ Free(k)

Spec == Init /\ [][Next]_vars

-----------------------------------------------------------------------------
(* Properties. *)

Curves == {ec_curves[i].type : i \in 1 .. Len(ec_curves)}
Number8 == 0 .. 255

\* Every variable has its type.
TypeOK ==
    /\ key \in [Key -> {NoObject} \cup
           [kind : {"EC", "X25519"}, curve : Curves \cup {"X25519"}, slot : Number8, bus : Number8,
            addr : Number8, pub : 0 .. MaxPairs + 1, len : 1 .. PubPointSize]]
    /\ gen \in [Gen -> {NoGen} \cup
           [kind : {"EC", "X25519"}, curve : Curves \cup {"X25519"}, slot : Number8, bus : Number8,
            addr : Number8]]
    /\ pairs \in 0 .. MaxPairs

\* A public key has the length of a point of its key's curve, whatever order the
\* parameters came in and however often they changed; and it fits in pub_point.
PubFitsCurve ==
    \A k \in Key : key[k] # NoObject /\ key[k].pub # NoPub =>
        /\ key[k].len = PubLen(key[k].kind, key[k].curve)
        /\ key[k].kind = "EC" <=> key[k].curve \in Curves

GeneratesAsAsked ==
    \A g \in Gen, k \in Key :
        Generate(g, k) /\ key'[k] # NoObject =>
            LET p == asked[g] IN
            /\ \A f \in {"slot", "bus", "addr"} : Given(p, f) => key'[k][f] = p[f]
            /\ Given(p, "group") /\ gen[g].kind = "EC" => Bits(key'[k]) = OfName(p.group).bits

\* A generated key is in the slot of the device, and on the curve, its caller
\* asked for in gen_set_params(), after all the calls on the context.
GeneratedAsAsked == [][GeneratesAsAsked]_vars

\* The place a generated key names holds its private half, or that of a pair
\* generated there later: never an older one, and never nothing.
PrivateHalfInItsPlace ==
    \A k \in Key : key[k] # NoObject /\ key[k].pub \in 1 .. MaxPairs =>
        /\ Place(key[k]) \in DOMAIN at
        /\ at[Place(key[k])] >= key[k].pub

\* What one key object exports another imports, as a public key of the same
\* curve and length.
ExportComesBack ==
    \A k \in Key : key[k] # NoObject /\ Has(key[k], {"public"}) =>
        LET p == Exported(key[k]) IN
        /\ ImportOk(key[k].kind, p)
        /\ Imported(key[k].kind, p).curve = key[k].curve
        /\ Imported(key[k].kind, p).len = key[k].len
=============================================================================
