----------------------------- MODULE CmacContext -----------------------------
(***************************************************************************)
(* The streaming CMAC of the platform layer (stse_platform_aes.c): one     *)
(* context and one tag length per thread, kept between the calls.          *)
(* STSELib calls init, append any number of times, and then one of the two *)
(* finishing functions; any call may fail.  A caller of Careful starts     *)
(* over with init after an error, another one goes on whatever it gets.    *)
(*                                                                         *)
(* A CMAC is the key and the blocks it was computed over.                  *)
(***************************************************************************)
EXTENDS Naturals, Sequences, FiniteSets

CONSTANTS
    Thread,
    Careful,     \* threads whose caller starts over after an error
    Key,
    KeyLength,   \* [Key -> Nat], in bytes
    Block,       \* pieces of input
    TagSizes,    \* values of exp_tag_size
    MaxBlocks    \* pieces appended in one computation

KeyAssumption ==
    /\ IsFiniteSet(Thread) /\ Careful \subseteq Thread
    /\ KeyLength \in [Key -> Nat] /\ "none" \notin Key
    /\ TagSizes \subseteq Nat /\ MaxBlocks \in Nat

VARIABLES
    cmac_ctx,       \* key and blocks, or NoContext (NULL)
    cmac_tag_len,
    contexts,       \* contexts that are allocated, of all threads
    asked,          \* history: what the caller believes it computes
    result          \* what a finishing function has just returned

vars == <<cmac_ctx, cmac_tag_len, contexts, asked, result>>

NoContext == [key |-> "none", data |-> << >>]
Nothing   == [key |-> "none", data |-> << >>, len |-> 0]
None == [by |-> "none"]

Init ==
    /\ cmac_ctx = [t \in Thread |-> NoContext] /\ cmac_tag_len = [t \in Thread |-> 0]
    /\ contexts = 0
    /\ asked = [t \in Thread |-> Nothing] /\ result = [t \in Thread |-> None]

Set(f, t, v) == [f EXCEPT ![t] = v]

\* aes_cmac_cipher(): is there a cipher for keys of this length?
HasCipher(n) == n \in {16, 24, 32}

\* The caller t sees an error: a careful one drops its computation.
Failed(t) ==
    /\ asked' = IF t \in Careful THEN Set(asked, t, Nothing) ELSE asked
    /\ result' = Set(result, t, None)

\* Faulty variant: the context of an earlier computation is left to itself.
CmacInit_Leaks(t, k, n) ==
    \/ ~HasCipher(KeyLength[k]) /\ Failed(t) /\ UNCHANGED <<cmac_ctx, cmac_tag_len, contexts>>
    \/ /\ HasCipher(KeyLength[k])
       /\ \/ Failed(t) /\ cmac_ctx' = Set(cmac_ctx, t, NoContext) /\ UNCHANGED <<cmac_tag_len, contexts>>
          \/ /\ cmac_ctx' = Set(cmac_ctx, t, [key |-> k, data |-> << >>])
             /\ cmac_tag_len' = Set(cmac_tag_len, t, n) /\ contexts' = contexts + 1
             /\ asked' = Set(asked, t, [key |-> k, data |-> << >>, len |-> n]) /\ result' = Set(result, t, None)

\* Faulty variant: the tag length of the first computation stays.
CmacInit_KeepsLength(t, k, n) ==
    LET others == IF cmac_ctx[t] = NoContext THEN contexts ELSE contexts - 1 IN
    \/ ~HasCipher(KeyLength[k]) /\ Failed(t) /\ UNCHANGED <<cmac_ctx, cmac_tag_len, contexts>>
    \/ /\ HasCipher(KeyLength[k])
       /\ \/ /\ cmac_ctx' = Set(cmac_ctx, t, NoContext) /\ contexts' = others
             /\ Failed(t) /\ UNCHANGED cmac_tag_len
          \/ /\ cmac_ctx' = Set(cmac_ctx, t, [key |-> k, data |-> << >>]) /\ contexts' = others + 1
             /\ cmac_tag_len' = Set(cmac_tag_len, t, IF cmac_tag_len[t] = 0 THEN n ELSE cmac_tag_len[t])
             /\ asked' = Set(asked, t, [key |-> k, data |-> << >>, len |-> n]) /\ result' = Set(result, t, None)

\* A key of another length is refused before the earlier context is freed.  If
\* the new context cannot be allocated or initialised there is none.
CmacInit(t, k, n) ==
    LET others == IF cmac_ctx[t] = NoContext THEN contexts ELSE contexts - 1 IN
    \/ ~HasCipher(KeyLength[k]) /\ Failed(t) /\ UNCHANGED <<cmac_ctx, cmac_tag_len, contexts>>
    \/ /\ HasCipher(KeyLength[k])
       /\ \/ /\ cmac_ctx' = Set(cmac_ctx, t, NoContext) /\ contexts' = others
             /\ Failed(t) /\ UNCHANGED cmac_tag_len
          \/ /\ cmac_ctx' = Set(cmac_ctx, t, [key |-> k, data |-> << >>]) /\ contexts' = others + 1
             /\ cmac_tag_len' = Set(cmac_tag_len, t, n)
             /\ asked' = Set(asked, t, [key |-> k, data |-> << >>, len |-> n]) /\ result' = Set(result, t, None)

\* A computation with one more piece of input.
With(c, b) == [c EXCEPT !.data = Append(@, b)]

\* An update that fails leaves the context, with the input or without it.
CmacAppend(t, b) ==
    /\ Len(cmac_ctx[t].data) < MaxBlocks
    /\ IF cmac_ctx[t] = NoContext THEN Failed(t) /\ UNCHANGED cmac_ctx
       ELSE \/ /\ cmac_ctx' = Set(cmac_ctx, t, With(cmac_ctx[t], b))
               /\ asked' = Set(asked, t, With(asked[t], b))
               /\ result' = Set(result, t, None)
            \/ Failed(t) /\ cmac_ctx' \in {cmac_ctx, Set(cmac_ctx, t, With(cmac_ctx[t], b))}
    /\ UNCHANGED <<cmac_tag_len, contexts>>

\* Both finishing functions free the context, whether CMAC_Final() succeeds or not.
Finish(t) ==
    /\ cmac_ctx' = Set(cmac_ctx, t, NoContext) /\ contexts' = contexts - 1
    /\ UNCHANGED cmac_tag_len

TagLength(t) == IF cmac_tag_len[t] \in 1 .. 16 THEN cmac_tag_len[t] ELSE 16

ComputeFinish(t) ==
    IF cmac_ctx[t] = NoContext THEN Failed(t) /\ UNCHANGED <<cmac_ctx, cmac_tag_len, contexts>>
    ELSE /\ Finish(t)
         /\ \/ Failed(t)
            \/ /\ result' = Set(result, t, [by |-> "compute", tag |-> cmac_ctx[t], len |-> TagLength(t)])
               /\ asked' = asked

\* Two tags agree in their first n bytes: a tag stands for its first byte already.
Agree(a, b, n) == n = 0 \/ a = b

\* The first cmac_tag_len bytes are compared; a tag of more than 16 bytes never fits.
VerifyFinish(t, tag) ==
    IF cmac_ctx[t] = NoContext THEN Failed(t) /\ UNCHANGED <<cmac_ctx, cmac_tag_len, contexts>>
    ELSE /\ Finish(t)
         /\ \/ Failed(t)
            \/ /\ cmac_tag_len[t] <= 16 /\ Agree(cmac_ctx[t], tag, cmac_tag_len[t])
               /\ result' = Set(result, t, [by |-> "verify", tag |-> tag, len |-> cmac_tag_len[t]])
               /\ asked' = asked

\* A careful caller appends and finishes what it has begun.
Begun(t) == t \in Careful => asked[t] # Nothing

\* Tags a caller may have received: of any computation with these keys.
Inputs == UNION {[1 .. n -> Block] : n \in 0 .. MaxBlocks}
Tags == [key : Key, data : Inputs]

Next ==
    \E t \in Thread :
        \/ \E k \in Key, n \in TagSizes : CmacInit(t, k, n)
        \/ \E b \in Block : Begun(t) /\ CmacAppend(t, b)
        \/ Begun(t) /\ result[t] = None /\ ComputeFinish(t)
        \/ \E tag \in Tags : Begun(t) /\ result[t] = None /\ VerifyFinish(t, tag)

Spec == Init /\ [][Next]_vars

-----------------------------------------------------------------------------
(* Properties. *)

\* Every variable has its type.
TypeOK ==
    /\ cmac_ctx \in [Thread -> Tags \cup {NoContext}]
    /\ asked \in [Thread -> [key : Key, data : Inputs, len : TagSizes] \cup {Nothing}]
    /\ cmac_tag_len \in [Thread -> TagSizes \cup {0}]

\* The contexts that are allocated are those the variables point to: none is
\* lost, and none is freed while a variable points to it.
EachThreadOwnsItsContext ==
    contexts = Cardinality({t \in Thread : cmac_ctx[t] # NoContext})

\* A careful caller that gets a tag, or is told that a tag is right, gets it for
\* the key of its last init and all it has appended since, also when calls before
\* or in between failed.  Its length is the size given to that init: only if that
\* is zero is any tag right, and a computed tag is whole if there is no such size.
TagOfWhatWasAsked ==
    \A t \in Careful : result[t] # None =>
        /\ result[t].by = "compute" =>
              result[t].len = IF asked[t].len \in 1 .. 16 THEN asked[t].len ELSE 16
        /\ result[t].by = "verify" => result[t].len = asked[t].len
        /\ result[t].len = 0 \/ result[t].tag = [key |-> asked[t].key, data |-> asked[t].data]
=============================================================================
