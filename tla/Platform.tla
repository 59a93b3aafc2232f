-------------------------------- MODULE Platform --------------------------------
(***************************************************************************)
(* The parts of the platform layer that share nothing, and the GTK         *)
(* demonstration.  A behaviour is about one part, which `part' names.  The *)
(* variables of PlatformHkdf belong to the part "hkdf"; those of any other *)
(* part are the first of v1 to v11.  What a behaviour is not about stays   *)
(* as it is.                                                               *)
(*                                                                         *)
(* The values of a part's constants are a record, named for the part.      *)
(***************************************************************************)
EXTENDS PlatformHkdf

CONSTANTS
    cmac, crc, timeout, demo,   \* records of constants
    formatLengths,              \* lengths of the numbers of a signature, for each curve
    Unused

VARIABLES part, v1, v2, v3, v4, v5, v6, v7, v8, v9, v10, v11

others == <<v1, v2, v3, v4, v5, v6, v7, v8, v9, v10, v11>>
all == <<vars, part, others>>

-----------------------------------------------------------------------------
Cmac == INSTANCE CmacContext WITH
    Thread <- cmac.Thread, Careful <- cmac.Careful, Key <- cmac.Key, KeyLength <- cmac.KeyLength,
    Block <- cmac.Block, TagSizes <- cmac.TagSizes, MaxBlocks <- cmac.MaxBlocks,
    cmac_ctx <- v1, cmac_tag_len <- v2, contexts <- v3, asked <- v4, result <- v5

Crc == INSTANCE PlatformCrc WITH
    Thread <- crc.Thread, Part <- crc.Part, MaxParts <- crc.MaxParts,
    crc16_val <- v1, rest <- v2, pc <- v3, answer <- v4, parts <- v5, remainder <- v6

Timeout == INSTANCE PlatformTimeout WITH
    Thread <- timeout.Thread, PerSecond <- timeout.PerSecond,
    MaxTimeout <- timeout.MaxTimeout, MaxClock <- timeout.MaxClock,
    clock <- v1, timeout_end <- v2, due <- v3

Format == INSTANCE SignatureFormat WITH
    Lengths <- formatLengths,
    curve <- v1, made <- v2, form <- v3, checked <- v4

Calls == INSTANCE CryptoCalls WITH
    fn <- v1, at <- v2, ptr <- v3, live <- v4, owned <- v5, fault <- v6

Demo == INSTANCE GtkDemo WITH
    Bus <- demo.Bus, Worker <- demo.Worker, NoBus <- demo.NoBus,
    main <- v1, sensitive <- v2, label <- v3, shown <- v4, bus_id <- v5, auth_success <- v6,
    result_text <- v7, handlerBus <- v8, pc <- v9, idle <- v10, result <- v11

PartsAssumption ==
    /\ LengthAssumption /\ Cmac!KeyAssumption /\ Crc!PartAssumption
    /\ Timeout!TimeAssumption /\ Format!LengthsAssumption
ASSUME PartsAreAssumed == PartsAssumption

-----------------------------------------------------------------------------
From4 == <<v4, v5, v6, v7, v8, v9, v10, v11>>
From5 == <<v5, v6, v7, v8, v9, v10, v11>>
From6 == <<v6, v7, v8, v9, v10, v11>>
From7 == <<v7, v8, v9, v10, v11>>

Unused7 == v7 = Unused /\ v8 = Unused /\ v9 = Unused /\ v10 = Unused /\ v11 = Unused
Unused6 == v6 = Unused /\ Unused7
Unused5 == v5 = Unused /\ Unused6
Unused4 == v4 = Unused /\ Unused5
Unused1 == v1 = Unused /\ v2 = Unused /\ v3 = Unused /\ Unused4

PartsInit ==
    \/ part = "hkdf" /\ Init /\ Unused1
    \/ /\ Init /\ length = 0
       /\ \/ part = "cmac"    /\ Cmac!Init    /\ Unused6
          \/ part = "crc"     /\ Crc!Init     /\ Unused7
          \/ part = "timeout" /\ Timeout!Init /\ Unused4
          \/ part = "format"  /\ Format!Init  /\ Unused5
          \/ part = "calls"   /\ Calls!Init   /\ Unused7
          \/ part = "demo"    /\ Demo!Init

PartsNext ==
    /\ UNCHANGED part
    /\ \/ part = "hkdf" /\ Next /\ UNCHANGED others
       \/ /\ part # "hkdf" /\ UNCHANGED vars
          /\ \/ part = "cmac"    /\ Cmac!Next    /\ UNCHANGED From6
             \/ part = "crc"     /\ Crc!Next     /\ UNCHANGED From7
             \/ part = "timeout" /\ Timeout!Next /\ UNCHANGED From4
             \/ part = "format"  /\ Format!Next  /\ UNCHANGED From5
             \/ part = "calls"   /\ Calls!Next   /\ UNCHANGED From7
             \/ part = "demo"    /\ Demo!Next

PartsSpec == PartsInit /\ [][PartsNext]_all

-----------------------------------------------------------------------------
(* The properties of the parts, as their modules state them. *)

\* Every variable of every part has its type.
TypesOK ==
    /\ part = "hkdf" => TypeOK
    /\ part = "cmac" => Cmac!TypeOK
    /\ part = "crc" => Crc!TypeOK
    /\ part = "timeout" => Timeout!TypeOK
    /\ part = "demo" => Demo!TypeOK

\* Tags are those of the key and the data of the last beginning.
TagOfWhatWasAsked == part = "cmac" => Cmac!TagOfWhatWasAsked

\* The CRC of a frame in parts is that of the whole.
AnswerIsCrcOfFrame == part = "crc" => Crc!AnswerIsCrcOfFrame

\* A timeout has elapsed exactly when it is due.
ElapsedWhenDue == part = "timeout" => Timeout!ElapsedWhenDue

\* Signatures keep their numbers from one form to another, and none is refused for
\* its size.
SameNumbers == part = "format" => Format!SameNumbers /\ Format!NoneRefused

\* Functions free all they allocate once, on every path, and use it only before;
\* CMAC contexts are neither lost nor shared.
MemoryIsSound ==
    /\ part = "calls" => Calls!MemoryIsSound /\ Calls!NothingLeaks
    /\ part = "cmac" => Cmac!EachThreadOwnsItsContext

\* The window of the demonstration shows the verdict of the device asked last.
ShowsTheVerdict == part = "demo" => Demo!ShowsTheVerdict
=================================================================================
