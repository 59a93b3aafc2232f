------------------------------ MODULE PlatformCrc ------------------------------
(***************************************************************************)
(* The CRC of frames (stse_platform_crc.c): a register of 16 bits for each *)
(* thread, started by Crc16_Calculate() with the first part of a frame and *)
(* continued by Crc16_Accumulate() with the others, a byte at a time with  *)
(* a table.  STSELib is the caller: each of its threads computes the CRC   *)
(* of one frame after the other.                                           *)
(*                                                                         *)
(* A byte and a register are the sets of their bits that are one, so that  *)
(* ^ is SymDiff and ~ is the complement.                                   *)
(***************************************************************************)
EXTENDS Integers, Sequences, FiniteSetsExt

CONSTANTS
    Thread,
    Part,        \* parts of frames: sequences of bytes
    MaxParts

Byte     == SUBSET (0 .. 7)
Register == SUBSET (0 .. 15)

VARIABLES
    crc16_val,   \* the register of a thread
    rest,        \* what the loop of a function has not read of its buffer
    pc,          \* "loop" in a function, "out" between calls
    answer,      \* what the last call of the thread returned
    parts,       \* how many parts of its frame a thread has passed, 0 before the first frame
    remainder    \* history: that of the frame so far, bit by bit

vars == <<crc16_val, rest, pc, answer, parts, remainder>>

-----------------------------------------------------------------------------
(* CRC-16/X-25, bit by bit: the polynomial x^16 + x^12 + x^5 + 1, reflected. *)

Polynomial == {3, 10, 15}

Shift(crc) == SymDiff({i \in 0 .. 14 : i + 1 \in crc}, IF 0 \in crc THEN Polynomial ELSE {})

EightShifts(crc) == Shift(Shift(Shift(Shift(Shift(Shift(Shift(Shift(crc))))))))

\* The remainder with one more byte.
Divide(crc, byte) == EightShifts(SymDiff(crc, byte))

-----------------------------------------------------------------------------
(* The code. *)

crc16_tab == <<
    0, 4489, 8978, 12955, 17956, 22445, 25910, 29887, 35912, 40385, 44890, 48851, 51820, 56293, 59774, 63735,
    4225, 264, 13203, 8730, 22181, 18220, 30135, 25662, 40137, 36160, 49115, 44626, 56045, 52068, 63999, 59510,
    8450, 12427, 528, 5017, 26406, 30383, 17460, 21949, 44362, 48323, 36440, 40913, 60270, 64231, 51324, 55797,
    12675, 8202, 4753, 792, 30631, 26158, 21685, 17724, 48587, 44098, 40665, 36688, 64495, 60006, 55549, 51572,
    16900, 21389, 24854, 28831, 1056, 5545, 10034, 14011, 52812, 57285, 60766, 64727, 34920, 39393, 43898, 47859,
    21125, 17164, 29079, 24606, 5281, 1320, 14259, 9786, 57037, 53060, 64991, 60502, 39145, 35168, 48123, 43634,
    25350, 29327, 16404, 20893, 9506, 13483, 1584, 6073, 61262, 65223, 52316, 56789, 43370, 47331, 35448, 39921,
    29575, 25102, 20629, 16668, 13731, 9258, 5809, 1848, 65487, 60998, 56541, 52564, 47595, 43106, 39673, 35696,
    33800, 38273, 42778, 46739, 49708, 54181, 57662, 61623, 2112, 6601, 11090, 15067, 20068, 24557, 28022, 31999,
    38025, 34048, 47003, 42514, 53933, 49956, 61887, 57398, 6337, 2376, 15315, 10842, 24293, 20332, 32247, 27774,
    42250, 46211, 34328, 38801, 58158, 62119, 49212, 53685, 10562, 14539, 2640, 7129, 28518, 32495, 19572, 24061,
    46475, 41986, 38553, 34576, 62383, 57894, 53437, 49460, 14787, 10314, 6865, 2904, 32743, 28270, 23797, 19836,
    50700, 55173, 58654, 62615, 32808, 37281, 41786, 45747, 19012, 23501, 26966, 30943, 3168, 7657, 12146, 16123,
    54925, 50948, 62879, 58390, 37033, 33056, 46011, 41522, 23237, 19276, 31191, 26718, 7393, 3432, 16371, 11898,
    59150, 63111, 50204, 54677, 41258, 45219, 33336, 37809, 27462, 31439, 18516, 23005, 11618, 15595, 3696, 8185,
    63375, 58886, 54429, 50452, 45483, 40994, 37561, 33584, 31687, 27214, 22741, 18780, 15843, 11370, 7921, 3960 >>

Bits(number) == {i \in 0 .. 15 : (number \div 2^i) % 2 = 1}

\* The entry of the table for a byte.
Table == [byte \in Byte |-> Bits(crc16_tab[1 + SumSet({2^i : i \in byte})])]

\* One turn of the loops.
Step(crc, byte) == SymDiff({i \in 0 .. 7 : i + 8 \in crc}, Table[SymDiff(crc, byte) \cap (0 .. 7)])

Init ==
    /\ crc16_val = [t \in Thread |-> {}]
    /\ rest = [t \in Thread |-> << >>] /\ pc = [t \in Thread |-> "out"]
    /\ answer = [t \in Thread |-> {}]
    /\ parts = [t \in Thread |-> 0] /\ remainder = [t \in Thread |-> {}]

\* A function is called with the part p.
Enter(t, p) ==
    /\ pc[t] = "out" /\ pc' = [pc EXCEPT ![t] = "loop"]
    /\ rest' = [rest EXCEPT ![t] = p]
    /\ UNCHANGED answer

Calculate(t, p) ==
    /\ Enter(t, p)
    /\ crc16_val' = [crc16_val EXCEPT ![t] = 0 .. 15]
    /\ parts' = [parts EXCEPT ![t] = 1]
    /\ remainder' = [remainder EXCEPT ![t] = 0 .. 15]

\* Faulty variant: it goes on from the number that was returned.
Accumulate_FromAnswer(t, p) ==
    /\ Enter(t, p)
    /\ parts[t] > 0 /\ parts[t] < MaxParts
    /\ crc16_val' = [crc16_val EXCEPT ![t] = answer[t]]
    /\ parts' = [parts EXCEPT ![t] = @ + 1]
    /\ UNCHANGED remainder

Accumulate(t, p) ==
    /\ Enter(t, p)
    /\ parts[t] > 0 /\ parts[t] < MaxParts
    /\ parts' = [parts EXCEPT ![t] = @ + 1]
    /\ UNCHANGED <<crc16_val, remainder>>

\* A turn of the loop of either function.
Read(t) ==
    /\ pc[t] = "loop" /\ rest[t] # << >>
    /\ crc16_val' = [crc16_val EXCEPT ![t] = Step(@, Head(rest[t]))]
    /\ remainder' = [remainder EXCEPT ![t] = Divide(@, Head(rest[t]))]
    /\ rest' = [rest EXCEPT ![t] = Tail(@)]
    /\ UNCHANGED <<pc, answer, parts>>

Return(t) ==
    /\ pc[t] = "loop" /\ rest[t] = << >>
    /\ answer' = [answer EXCEPT ![t] = (0 .. 15) \ crc16_val[t]]
    /\ pc' = [pc EXCEPT ![t] = "out"]
    /\ UNCHANGED <<crc16_val, rest, parts, remainder>>

Next ==
    \E t \in Thread :
        \/ \E p \in Part : Calculate(t, p) \/ Accumulate(t, p)
        \/ Read(t) \/ Return(t)

Spec == Init /\ [][Next]_vars

-----------------------------------------------------------------------------
\* Buffers hold bytes, and every entry of the table is what eight shifts make of
\* its index.
PartAssumption ==
    /\ Part \subseteq Seq(Byte) /\ MaxParts \in Nat \ {0}
    /\ \A byte \in Byte : Table[byte] = EightShifts(byte)

\* Registers are those of 16 bits, and a thread in a function is at some part.
TypeOK ==
    /\ crc16_val \in [Thread -> Register] /\ answer \in [Thread -> Register]
    /\ remainder \in [Thread -> Register]
    /\ rest \in [Thread -> Seq(Byte)]
    /\ pc \in [Thread -> {"out", "loop"}] /\ parts \in [Thread -> 0 .. MaxParts]
    /\ \A t \in Thread : pc[t] = "loop" => parts[t] > 0

\* What a thread gets is the CRC-16/X-25 of all the parts of its frame, however
\* it was cut and whatever other threads compute in between: the device compares
\* that of the whole frame.
AnswerIsCrcOfFrame ==
    \A t \in Thread :
        pc[t] = "out" /\ parts[t] > 0 => answer[t] = (0 .. 15) \ remainder[t]
================================================================================
