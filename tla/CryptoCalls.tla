----------------------------- MODULE CryptoCalls -----------------------------
(***************************************************************************)
(* The OpenSSL objects and buffers that the stateless functions of the     *)
(* platform layer (stse_platform_ecc.c, stse_platform_aes.c,               *)
(* stse_platform_hash.c) and of the providers allocate and free.  Any      *)
(* allocation and any call of OpenSSL or of the device may fail, at any    *)
(* step, and what has been allocated by then must be freed once.           *)
(*                                                                         *)
(* A function is a sequence of steps; what it computes is left out.  A     *)
(* step that can fail has the set of pointers that are freed on the way to *)
(* the return, in the branch of the failure or behind the label of a goto: *)
(* those that are not NULL.                                                *)
(***************************************************************************)
EXTENDS Naturals, Sequences

VARIABLES
    fn,      \* the function called, "none" between calls
    at,      \* its next step
    ptr,     \* pointers that are not NULL
    live,    \* objects that are allocated, by the pointer each was assigned to
    owned,   \* objects that are freed with another one
    fault    \* what went wrong with memory

vars == <<fn, at, ptr, live, owned, fault>>

-----------------------------------------------------------------------------
(* Steps. *)

\* x is allocated, or the function fails and frees err.
New(x, err)   == [op |-> "new", x |-> {x}, err |-> err]
\* Calls with the objects xs that succeed, or the function fails.
Try(xs, err)  == [op |-> "try", x |-> xs, err |-> err]
\* x is allocated or NULL; the code goes on, and looks at it later with Check.
May(x)        == [op |-> "may", x |-> {x}, err |-> {}]
Check(xs, err) == [op |-> "check", x |-> xs, err |-> err]
Free(xs)      == [op |-> "free", x |-> xs, err |-> {}]
\* y becomes the owner of xs.
Give(xs, y)   == [op |-> "give", x |-> xs, y |-> y, err |-> {}]
Null(xs)      == [op |-> "null", x |-> xs, err |-> {}]

-----------------------------------------------------------------------------
(* stse_platform_ecc.c *)

\* stse_platform_ecc_verify() for Ed25519.
VerifyEd25519 == <<
    New("pkey", {}), New("ctx", {"pkey"}),
    Try({"ctx", "pkey"}, {"ctx", "pkey"}),
    Free({"ctx", "pkey"}) >>

ecc_verify_cleanup == {"sig", "r", "s", "pub_point", "ec_key", "group", "uncompressed_pub"}

\* Faulty variant: r and s are not set to NULL when sig takes them.
VerifyEc_KeepsPointers == <<
    New("group", ecc_verify_cleanup), New("ec_key", ecc_verify_cleanup),
    Try({"ec_key", "group"}, ecc_verify_cleanup),
    New("pub_point", ecc_verify_cleanup), New("uncompressed_pub", ecc_verify_cleanup),
    Try({"group", "pub_point", "uncompressed_pub"}, ecc_verify_cleanup),
    Free({"uncompressed_pub"}), Null({"uncompressed_pub"}),
    Try({"ec_key", "pub_point"}, ecc_verify_cleanup),
    May("r"), May("s"), Check({"r", "s"}, ecc_verify_cleanup),
    New("sig", ecc_verify_cleanup),
    Try({"sig", "r", "s"}, ecc_verify_cleanup),
    Give({"r", "s"}, "sig"),
    Try({"sig", "ec_key"}, ecc_verify_cleanup),
    Free(ecc_verify_cleanup) >>

\* stse_platform_ecc_verify() for the other curves; when ECDSA_SIG_set0() fails r
\* and s are freed there, and not again behind the label.
VerifyEc == <<
    New("group", ecc_verify_cleanup), New("ec_key", ecc_verify_cleanup),
    Try({"ec_key", "group"}, ecc_verify_cleanup),
    New("pub_point", ecc_verify_cleanup), New("uncompressed_pub", ecc_verify_cleanup),
    Try({"group", "pub_point", "uncompressed_pub"}, ecc_verify_cleanup),
    Free({"uncompressed_pub"}), Null({"uncompressed_pub"}),
    Try({"ec_key", "pub_point"}, ecc_verify_cleanup),
    May("r"), May("s"), Check({"r", "s"}, ecc_verify_cleanup),
    New("sig", ecc_verify_cleanup),
    Try({"sig", "r", "s"}, ecc_verify_cleanup),
    Give({"r", "s"}, "sig"), Null({"r", "s"}),
    Try({"sig", "ec_key"}, ecc_verify_cleanup),
    Free(ecc_verify_cleanup) >>

\* stse_platform_ecc_generate_key_pair() for Ed25519 and X25519.
GenerateRaw == <<
    New("ctx", {}),
    Try({"ctx"}, {"ctx"}),
    New("pkey", {"ctx"}), Free({"ctx"}),
    Try({"pkey"}, {"pkey"}),
    Free({"pkey"}) >>

\* stse_platform_ecc_generate_key_pair() for the other curves.
GenerateEc ==
    LET cleanup == {"uncompressed", "ec_key"} IN
    << New("ec_key", cleanup),
       Try({"ec_key"}, cleanup),
       New("uncompressed", cleanup),
       Try({"ec_key", "uncompressed"}, cleanup),
       Free(cleanup) >>

\* stse_platform_ecc_sign() for Ed25519.
SignEd25519 == <<
    New("pkey", {}), New("ctx", {"pkey"}),
    Try({"ctx", "pkey"}, {"ctx", "pkey"}),
    Free({"ctx", "pkey"}) >>

\* stse_platform_ecc_sign() for the other curves.
SignEc ==
    LET cleanup == {"sig", "priv_bn", "ec_key"} IN
    << New("ec_key", cleanup), New("priv_bn", cleanup),
       Try({"ec_key", "priv_bn"}, cleanup),
       New("sig", cleanup),
       Try({"sig"}, cleanup),
       Free(cleanup) >>

\* stse_platform_ecc_ecdh() for X25519: the second key is made, and the derivation
\* is skipped, whether or not what came before it succeeded.
EcdhX25519 == <<
    May("local_key"), May("remote_key"),
    Check({"local_key", "remote_key"}, {"local_key", "remote_key"}),
    New("ctx", {"local_key", "remote_key"}),
    Try({"ctx", "remote_key"}, {"ctx", "local_key", "remote_key"}),
    Free({"ctx", "local_key", "remote_key"}) >>

\* stse_platform_ecc_ecdh() for the other curves.
EcdhEc ==
    LET cleanup == {"uncompressed", "pub_point", "priv_bn", "local_key", "remote_key", "group"} IN
    << New("group", cleanup), New("local_key", cleanup), New("priv_bn", cleanup),
       Try({"local_key", "priv_bn"}, cleanup),
       New("remote_key", cleanup), New("pub_point", cleanup), New("uncompressed", cleanup),
       Try({"group", "pub_point", "uncompressed"}, cleanup),
       Try({"remote_key", "pub_point"}, cleanup),
       Try({"pub_point", "local_key"}, cleanup),
       Free(cleanup) >>

-----------------------------------------------------------------------------
(* stse_platform_aes.c and stse_platform_hash.c *)

\* Initialise, update, finish a context: what the functions below have in common.
OneContext == <<
    New("ctx", {}),
    Try({"ctx"}, {"ctx"}), Try({"ctx"}, {"ctx"}), Try({"ctx"}, {"ctx"}),
    Free({"ctx"}) >>

aes_cmac_compute == OneContext
aes_cbc_enc      == OneContext
aes_cbc_dec      == OneContext
aes_ecb_enc      == OneContext
aes_ecb_dec      == OneContext
hash_compute     == OneContext
\* One round of stse_platform_hmac_sha256_expand().
expand_round     == OneContext

-----------------------------------------------------------------------------
(* The providers. *)

\* Faulty variant: raw_sig is not freed when the device fails.
hw_sign_Leaks == <<
    New("raw_sig", {}),
    Try({"raw_sig"}, {}),
    May("r"), May("s"), Free({"raw_sig"}),
    Check({"r", "s"}, {"r", "s"}),
    New("ecdsa", {"r", "s"}),
    Give({"r", "s"}, "ecdsa"),
    May("der"), Free({"ecdsa"}),
    Check({"der"}, {}),
    Try({"der"}, {"der"}),
    Free({"der"}) >>

\* do_hw_sign() of stsafea_provider.c: the device signs before it is known whether
\* the DER form fits in the caller's buffer.
hw_sign == <<
    New("raw_sig", {}),
    Try({"raw_sig"}, {"raw_sig"}),
    May("r"), May("s"), Free({"raw_sig"}),
    Check({"r", "s"}, {"r", "s"}),
    New("ecdsa", {"r", "s"}),
    Give({"r", "s"}, "ecdsa"),
    May("der"), Free({"ecdsa"}),
    Check({"der"}, {}),
    Try({"der"}, {"der"}),
    Free({"der"}) >>

\* do_hw_verify() of stsafea_provider.c; r and s stay parts of ecdsa.
hw_verify == <<
    New("ecdsa", {}),
    Try({"ecdsa"}, {"ecdsa"}),
    New("raw_sig", {"ecdsa"}),
    Try({"ecdsa", "raw_sig"}, {"ecdsa", "raw_sig"}),
    Free({"ecdsa"}),
    Try({"raw_sig"}, {"raw_sig"}),
    Free({"raw_sig"}) >>

\* stse_key_to_sw_pkey() of stsafel_provider.c, whose caller frees sw_pkey.
key_to_sw_pkey == <<
    New("pctx", {}),
    Try({"pctx"}, {"pctx"}),
    New("sw_pkey", {"pctx"}), Free({"pctx"}) >>

\* stse_sig_digest_verify() of stsafel_provider.c.
digest_verify ==
    key_to_sw_pkey \o
    << New("sw_ctx", {"sw_pkey"}),
       Try({"sw_ctx", "sw_pkey"}, {"sw_ctx", "sw_pkey"}),
       Free({"sw_ctx", "sw_pkey"}) >>

-----------------------------------------------------------------------------
(* Calls. *)

Functions == [
    VerifyEd25519 |-> VerifyEd25519, VerifyEc |-> VerifyEc,
    GenerateRaw |-> GenerateRaw, GenerateEc |-> GenerateEc,
    SignEd25519 |-> SignEd25519, SignEc |-> SignEc,
    EcdhX25519 |-> EcdhX25519, EcdhEc |-> EcdhEc,
    aes_cmac_compute |-> aes_cmac_compute,
    aes_cbc_enc |-> aes_cbc_enc, aes_cbc_dec |-> aes_cbc_dec,
    aes_ecb_enc |-> aes_ecb_enc, aes_ecb_dec |-> aes_ecb_dec,
    hash_compute |-> hash_compute, expand_round |-> expand_round,
    hw_sign |-> hw_sign, hw_verify |-> hw_verify, digest_verify |-> digest_verify ]

Init ==
    /\ fn = "none" /\ at = 0
    /\ ptr = {} /\ live = {} /\ owned = {} /\ fault = {}

Call(f) ==
    /\ fn = "none"
    /\ fn' = f /\ at' = 1
    /\ ptr' = {} /\ UNCHANGED <<live, owned, fault>>

Current(op) ==
    /\ fn # "none" /\ at <= Len(Functions[fn])
    /\ Functions[fn][at].op = op
Step == Functions[fn][at]

GoOn   == at' = at + 1 /\ UNCHANGED fn
Return == at' = 0 /\ fn' = "none"

\* What is wrong with freeing the pointers xs: one whose object is gone, or goes
\* with another one that is freed as well.
Freeing(xs) ==
    LET freed == xs \cap ptr
        with  == {o \in owned : o[2] \in freed}
    IN  /\ live' = live \ (freed \cup {o[1] : o \in with})
        /\ owned' = owned \ with
        /\ fault' = fault \cup (IF freed \subseteq live /\ \A o \in with : o[1] \notin freed
                                THEN {} ELSE {"freed twice"})

\* Objects that are used must exist.
Using(xs) ==
    fault' = fault \cup (IF xs \subseteq ptr /\ xs \subseteq live THEN {} ELSE {"used after free"})

Fail ==
    /\ Freeing(Step.err)
    /\ Return /\ UNCHANGED ptr

Allocate ==
    /\ Current("new") \/ Current("may")
    /\ ptr' = ptr \cup Step.x /\ live' = live \cup Step.x
    /\ GoOn /\ UNCHANGED <<owned, fault>>

NoMemory ==
    \/ Current("new") /\ Fail
    \/ Current("may") /\ GoOn /\ UNCHANGED <<ptr, live, owned, fault>>

Succeed ==
    /\ Current("try")
    /\ Using(Step.x)
    /\ GoOn /\ UNCHANGED <<ptr, live, owned>>

GoWrong == Current("try") /\ Fail

Look ==
    /\ Current("check")
    /\ IF Step.x \subseteq ptr THEN GoOn /\ UNCHANGED <<ptr, live, owned, fault>>
       ELSE Fail

Release ==
    /\ Current("free")
    /\ Freeing(Step.x)
    /\ GoOn /\ UNCHANGED ptr

HandOver ==
    /\ Current("give")
    /\ owned' = owned \cup (Step.x \X {Step.y})
    /\ Using(Step.x \cup {Step.y})
    /\ GoOn /\ UNCHANGED <<ptr, live>>

Clear ==
    /\ Current("null")
    /\ ptr' = ptr \ Step.x
    /\ GoOn /\ UNCHANGED <<live, owned, fault>>

Leave ==
    /\ fn # "none" /\ at > Len(Functions[fn])
    /\ Return /\ UNCHANGED <<ptr, live, owned, fault>>

Next ==
    \/ \E f \in DOMAIN Functions : Call(f)
    \/ Allocate \/ NoMemory \/ Succeed \/ GoWrong \/ Look \/ Release \/ HandOver \/ Clear
    \/ Leave

Spec == Init /\ [][Next]_vars

-----------------------------------------------------------------------------
(* Properties. *)

\* When a function has returned, on whichever path, all it allocated is freed.
NothingLeaks == fn = "none" => live = {}

\* Nothing is freed twice, or used when it was not allocated or is freed already.
MemoryIsSound == fault = {}
=============================================================================
