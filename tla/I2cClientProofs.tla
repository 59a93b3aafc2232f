---------------------------- MODULE I2cClientProofs ----------------------------
(***************************************************************************)
(* Safety of the client I2C layer, for any number of threads, buses, sizes *)
(* and response lengths, with a daemon that may stop at any moment.  The   *)
(* invariant says, thread by thread, how the step of the caller, the       *)
(* request under way, the cached bytes and the bus fit together; a step of *)
(* a thread leaves the variables of the others alone, and a bus it does    *)
(* not have.                                                               *)
(***************************************************************************)
EXTENDS I2cClient, Integers, TLAPS

LEMMA ModIn == ASSUME NEW a \in Int, NEW w \in Nat \ {0} PROVE a % w \in 0 .. w - 1
OBVIOUS

LEMMA ModSmall == ASSUME NEW a \in Nat, NEW w \in Nat, a < w PROVE a % w = a
OBVIOUS

LEMMA SumType ==
  ASSUME SizeAssumption, NEW a \in Nat, NEW n \in Nat PROVE Sum16(a, n) \in Nat
<1>1. a + n \in Int /\ Word \in Nat \ {0}
  BY DEF SizeAssumption
<1>2. (a + n) % Word \in 0 .. Word - 1
  BY <1>1, ModIn
<1> QED
  BY <1>1, <1>2 DEF Sum16

LEMMA NextSerial ==
  ASSUME SizeAssumption, NEW s \in Nat PROVE (s + 1) % Serials \in 0 .. Serials - 1
<1>1. s + 1 \in Int /\ Serials \in Nat \ {0}
  BY DEF SizeAssumption
<1> QED
  BY <1>1, ModIn

-----------------------------------------------------------------------------
(* Types, one group of variables at a time. *)

DaemonTypes ==
    /\ up \in BOOLEAN /\ opened \subseteq Bus
    /\ owner \in [Bus -> Thread \cup {Nobody}] /\ last \in [Bus -> Command \cup {NoCommand}]
SockTypes == sock \in [Thread -> {"none", "up", "stale", "dead"}]
FlagTypes == flag \in [Thread -> BOOLEAN]
TxTypes == txSize \in [Thread -> Nat] /\ txOff \in [Thread -> Nat] /\ overrun \subseteq Thread
RxTypes ==
    /\ rxSize \in [Thread -> Nat] /\ rxOff \in [Thread -> Nat]
    /\ rxOf \in [Thread -> Command \cup {NoCommand}]
CallTypes == call \in [Thread -> [cmd : Requests \cup {"none"}, size : Nat, at : Stages]]
AnsTypes == ans \in [Thread -> [ok : BOOLEAN, of : Command \cup {NoCommand}]]
StepTypes == step \in [Thread -> {"idle", "fill", "read", "got", "readAll", "gotAll", "gaveUp"}]
CountTypes == polls \in [Thread -> Nat] /\ want \in [Thread -> Nat]
SerialTypes == serial \in [Thread -> 0 .. Serials - 1] /\ reached \in [Thread -> 0 .. 2]

LEMMA TypeGroups ==
  TypeOK <=> /\ DaemonTypes /\ SockTypes /\ FlagTypes /\ TxTypes /\ RxTypes /\ CallTypes
             /\ AnsTypes /\ StepTypes /\ CountTypes /\ SerialTypes
BY Zenon DEF TypeOK, DaemonTypes, SockTypes, FlagTypes, TxTypes, RxTypes, CallTypes, AnsTypes,
   StepTypes, CountTypes, SerialTypes

LEMMA TypeGroupsNext ==
  TypeOK' <=> /\ DaemonTypes' /\ SockTypes' /\ FlagTypes' /\ TxTypes' /\ RxTypes' /\ CallTypes'
              /\ AnsTypes' /\ StepTypes' /\ CountTypes' /\ SerialTypes'
BY Zenon DEF TypeOK, DaemonTypes, SockTypes, FlagTypes, TxTypes, RxTypes, CallTypes, AnsTypes,
   StepTypes, CountTypes, SerialTypes

LEMMA SameTypes ==
  ASSUME TypeOK
  PROVE  /\ UNCHANGED daemonVars => DaemonTypes'
         /\ UNCHANGED sock => SockTypes'
         /\ UNCHANGED flag => FlagTypes'
         /\ UNCHANGED txVars => TxTypes'
         /\ UNCHANGED rxVars => RxTypes'
         /\ UNCHANGED call => CallTypes'
         /\ UNCHANGED ans => AnsTypes'
         /\ UNCHANGED step => StepTypes'
         /\ UNCHANGED <<polls, want>> => CountTypes'
         /\ UNCHANGED <<serial, reached>> => SerialTypes'
BY DEF TypeOK, DaemonTypes, SockTypes, FlagTypes, TxTypes, RxTypes, CallTypes, AnsTypes,
   StepTypes, CountTypes, SerialTypes, daemonVars, txVars, rxVars

LEMMA AskType ==
  ASSUME CallTypes, NEW t \in Thread, NEW cmd \in Requests, NEW n \in Nat, Ask(t, cmd, n)
  PROVE  CallTypes'
BY DEF CallTypes, Ask, Set, Stages

LEMMA DoneType == ASSUME CallTypes, NEW t \in Thread, Done(t) PROVE CallTypes'
BY DEF CallTypes, Done, Set, Stages, NoCall

LEMMA ClearType == ASSUME RxTypes, NEW t \in Thread, ClearRx(t) PROVE RxTypes'
BY DEF RxTypes, ClearRx, Set

LEMMA GoesToType ==
  ASSUME StepTypes, NEW t \in Thread,
         NEW s \in {"idle", "fill", "read", "got", "readAll", "gotAll", "gaveUp"}, GoesTo(t, s)
  PROVE  StepTypes'
BY DEF StepTypes, GoesTo, Set

LEMMA AfterReadType ==
  ASSUME SizeAssumption, StepTypes, CountTypes, NEW t \in Thread, NEW ok \in BOOLEAN, AfterRead(t, ok)
  PROVE  StepTypes' /\ CountTypes'
<1>1. StepTypes'
  BY DEF StepTypes, AfterRead, GoesTo, Set
<1>2. CountTypes'
  BY DEF CountTypes, AfterRead, Set
<1> QED
  BY <1>1, <1>2

LEMMA ExpectsBoolean == ASSUME NEW t, NEW n, NEW len PROVE Expects(t, n, len) \in BOOLEAN
<1>1. CASE TypeOf(t) # "L010" /\ n = 5
  BY <1>1 DEF Expects
<1>2. CASE ~(TypeOf(t) # "L010" /\ n = 5)
  BY <1>2 DEF Expects
<1> QED
  BY <1>1, <1>2

LEMMA FinishType ==
  ASSUME SizeAssumption, TypeOK, NEW t \in Thread, NEW ok \in BOOLEAN,
         NEW of \in Command \cup {NoCommand}, Finish(t, ok, of), call[t].cmd \in Requests
  PROVE  /\ DaemonTypes' /\ FlagTypes' /\ TxTypes' /\ RxTypes' /\ CallTypes'
         /\ AnsTypes' /\ StepTypes' /\ CountTypes' /\ SerialTypes'
<1> USE TypeGroups, SameTypes, AskType, DoneType, ClearType
<1>1. DaemonTypes' /\ TxTypes' /\ AnsTypes' /\ SerialTypes'
  <2>1. AnsTypes'
    BY DEF Finish, AnsTypes, Set, NoAnswer
  <2> QED
    BY <2>1 DEF Finish
<1>2. CASE call[t].cmd = "INIT"
  <2>1. FinishInit(t, ok)
    BY <1>2 DEF Finish
  <2> QED
    BY <1>1, <2>1 DEF FinishInit, Requests
<1>3. CASE call[t].cmd = "WAKE"
  <2>1. FinishWake(t, ok)
    BY <1>3 DEF Finish
  <2> QED
    BY <1>1, <2>1 DEF FinishWake
<1>4. CASE call[t].cmd = "WRITE"
  <2>1. FinishWrite(t, ok)
    BY <1>4 DEF Finish
  <2>2. CountTypes'
    BY <2>1 DEF FinishWrite, AfterWrite, CountTypes, Set
  <2> QED
    BY <1>1, <2>1, <2>2, GoesToType DEF FinishWrite, AfterWrite
<1>5. CASE call[t].cmd = "READ"
  <2>1. FinishRead(t, ok, of)
    BY <1>5 DEF Finish
  <2>2. StepTypes' /\ CountTypes'
    BY <2>1, AfterReadType DEF FinishRead
  <2>3. RxTypes'
    <3>1. call[t].size \in Nat
      BY DEF CallTypes
    <3>2. CASE ok
      BY <2>1, <3>1, <3>2 DEF FinishRead, RxTypes, Set
    <3>3. CASE ~ok
      BY <2>1, <3>3 DEF FinishRead
    <3> QED
      BY <3>2, <3>3
  <2>4. FlagTypes'
    <3>1. CASE ok
      <4> DEFINE e == Expects(t, call[t].size, of.len)
      <4>1. e \in BOOLEAN
        BY ExpectsBoolean
      <4>2. flag' = Set(flag, t, e)
        BY <2>1, <3>1 DEF FinishRead
      <4> HIDE DEF e
      <4> QED
        BY <4>1, <4>2 DEF FlagTypes, Set
    <3>2. CASE ~ok
      BY <2>1, <3>2 DEF FinishRead
    <3> QED
      BY <3>1, <3>2
  <2> QED
    BY <1>1, <2>1, <2>2, <2>3, <2>4 DEF FinishRead
<1>6. CASE call[t].cmd = "UNLOCK"
  <2>1. FinishUnlock(t)
    BY <1>6 DEF Finish
  <2> QED
    BY <1>1, <2>1 DEF FinishUnlock
<1> QED
  BY <1>2, <1>3, <1>4, <1>5, <1>6 DEF Requests

\* A call under way has a request.
HasRequest == \A t \in Thread : call[t].at # "start" => call[t].cmd \in Requests

LEMMA LibraryType ==
  ASSUME SizeAssumption, TypeOK, HasRequest, NEW t \in Thread, Library(t) PROVE TypeOK'
<1> USE TypeGroups, TypeGroupsNext, SameTypes
<1>1. CASE Send(t)
  <2>1. SockTypes'
    BY <1>1 DEF Send, SockTypes, Set
  <2>2. CallTypes'
    BY <1>1 DEF Send, CallTypes, Set, Stages
  <2> QED
    BY <1>1, <2>1, <2>2 DEF Send, callerVars
<1>2. CASE CannotConnect(t)
  BY <1>2, FinishType DEF CannotConnect
<1>3. CASE Broken(t)
  <2>1. SockTypes'
    BY <1>3 DEF Broken, SockTypes, Set
  <2> QED
    BY <1>3, <2>1, FinishType DEF Broken
<1>4. CASE KilledByPipe(t)
  <2>1. SockTypes' /\ FlagTypes' /\ TxTypes'
    BY <1>4 DEF KilledByPipe, SockTypes, FlagTypes, TxTypes, Set
  <2>2. CallTypes' /\ RxTypes' /\ StepTypes'
    BY <1>4, DoneType, ClearType, GoesToType DEF KilledByPipe, Done
  <2>3. CountTypes'
    BY <1>4 DEF KilledByPipe, CountTypes, Set
  <2>4. SerialTypes'
    BY <1>4 DEF KilledByPipe, SerialTypes, Set, SizeAssumption
  <2> QED
    BY <1>4, <2>1, <2>2, <2>3, <2>4 DEF KilledByPipe
<1>5. CASE Return(t)
  <2>1. call[t].cmd \in Requests /\ ans[t].ok \in BOOLEAN /\ ans[t].of \in Command \cup {NoCommand}
    BY <1>5 DEF Return, HasRequest, AnsTypes
  <2> QED
    BY <1>5, <2>1, FinishType DEF Return
<1> QED
  BY <1>1, <1>2, <1>3, <1>4, <1>5 DEF Library

\* A caller that has read something has the bytes of a command.
GotIsCommand == \A t \in Thread : step[t] \in {"got", "gotAll"} => rxOf[t] \in Command

LEMMA LibraryCallType ==
  ASSUME SizeAssumption, TypeOK, GotIsCommand, NEW t \in Thread, LibraryCall(t) PROVE TypeOK'
<1> USE TypeGroups, TypeGroupsNext, SameTypes, AskType, ClearType, GoesToType
<1>1. CASE I2cInit(t)
  BY <1>1 DEF I2cInit, callerVars, Requests
<1>2. CASE I2cWake(t)
  BY <1>2 DEF I2cWake, callerVars, Requests
<1>3. ASSUME NEW n \in Nat, SendStart(t, n) PROVE TypeOK'
  <2>1. TxTypes'
    BY <1>3 DEF SendStart, TxTypes, Set
  <2>2. SerialTypes'
    <3> serial[t] \in Nat
      BY DEF SerialTypes, SizeAssumption
    <3>1. (serial[t] + 1) % Serials \in 0 .. Serials - 1
      BY NextSerial
    <3> QED
      BY <1>3, <3>1 DEF SendStart, SerialTypes, Set
  <2> QED
    BY <1>3, <2>1, <2>2 DEF SendStart, callVars
<1>4. ASSUME NEW n \in Nat PROVE Sum16(rxOff[t], n) \in Nat
  <2>1. rxOff[t] \in Nat
    BY DEF RxTypes
  <2> QED
    BY <1>4, <2>1, SumType
<1>5. ASSUME NEW n \in Nat, SendContinue(t, n) PROVE TypeOK'
  <2>1. TxTypes'
    BY <1>5 DEF SendContinue, TxTypes, Set
  <2> QED
    BY <1>5, <2>1 DEF SendContinue, callVars, callerVars
<1>6. ASSUME NEW n \in Int, txOff[t] + n \in Nat, SendStop(t, n) PROVE TypeOK'
  <2>1. TxTypes'
    BY <1>6 DEF SendStop, TxTypes, Set
  <2>2. CallTypes'
    <3>1. txSize[t] \in Nat
      BY DEF TxTypes
    <3> QED
      BY <1>6, <3>1 DEF SendStop, Requests
  <2>3. StepTypes'
    BY <1>6 DEF SendStop
  <2> QED
    BY <1>6, <2>1, <2>2, <2>3 DEF SendStop
<1>7. ASSUME NEW n \in Nat, ReceiveStart(t, n) PROVE TypeOK'
  <2>1. CallTypes'
    BY <1>7 DEF ReceiveStart, Requests
  <2>2. StepTypes' /\ CountTypes'
    BY <1>7, AfterReadType DEF ReceiveStart
  <2> QED
    BY <1>7, <2>1, <2>2 DEF ReceiveStart
<1>8. ASSUME NEW n \in Nat, ReceiveContinue(t, n) PROVE TypeOK'
  <2>1. RxTypes'
    BY <1>4, <1>8 DEF ReceiveContinue, RxTypes, Set
  <2> QED
    BY <1>8, <2>1 DEF ReceiveContinue, callVars, callerVars
<1>9. ASSUME NEW n \in Int, ReceiveStop(t, n) PROVE TypeOK'
  <2>1. CallTypes' /\ RxTypes'
    BY <1>9 DEF ReceiveStop, Requests
  <2>2. FlagTypes'
    BY <1>9 DEF ReceiveStop, FlagTypes, Set
  <2>3. StepTypes'
    BY <1>9 DEF ReceiveStop
  <2>4. CountTypes'
    <3>1. step[t] = "got" => Total(t, rxOf[t].len) \in Nat
      BY DEF GotIsCommand, Command, Total, Header
    <3> QED
      BY <1>9, <3>1 DEF ReceiveStop, CountTypes, Set
  <2> QED
    BY <1>9, <2>1, <2>2, <2>3, <2>4 DEF ReceiveStop
<1>10. /\ Frames \subseteq Nat /\ Sizes \subseteq Nat /\ Phase1(t) \in Nat /\ want[t] \in Nat
       /\ txSize[t] - txOff[t] \in Int /\ rxSize[t] - rxOff[t] \in Int
       /\ txOff[t] + (txSize[t] - txOff[t]) \in Nat /\ \A n \in Nat : txOff[t] + n \in Nat
  BY DEF SizeAssumption, Phase1, CountTypes, TxTypes, RxTypes
<1>11. ASSUME NEW n, Overrun(t, n) PROVE TypeOK'
  <2>1. TxTypes'
    BY <1>11 DEF Overrun, TxTypes
  <2> QED
    BY <1>11, <2>1 DEF Overrun, callVars, callerVars
<1> QED
  BY <1>1, <1>2, <1>3, <1>5, <1>6, <1>7, <1>8, <1>9, <1>10, <1>11 DEF LibraryCall

LEMMA AnswerType ==
  ASSUME TypeOK, NEW t \in Thread, NEW ok \in BOOLEAN, NEW of \in Command \cup {NoCommand},
         Answer(t, ok, of)
  PROVE  /\ CallTypes' /\ AnsTypes' /\ up' \in BOOLEAN /\ SockTypes' /\ FlagTypes' /\ TxTypes'
         /\ RxTypes' /\ StepTypes' /\ CountTypes' /\ serial' \in [Thread -> 0 .. Serials - 1]
<1>1. CallTypes'
  <2>1. CallTypes /\ call' = [call EXCEPT ![t].at = "answered"]
    BY TypeGroups DEF Answer
  <2> QED
    BY <2>1 DEF CallTypes, Stages
<1>2. AnsTypes'
  BY TypeGroups DEF Answer, AnsTypes, Set
<1>3. serial' \in [Thread -> 0 .. Serials - 1]
  BY TypeGroups DEF Answer, SerialTypes, callerVars
<1>4. up' \in BOOLEAN
  BY TypeGroups DEF Answer, DaemonTypes
<1> QED
  BY <1>1, <1>2, <1>3, <1>4, SameTypes DEF Answer, callerVars

LEMMA ServeType ==
  ASSUME ThreadAssumption, SizeAssumption, TypeOK, NEW t \in Thread, Serve(t) PROVE TypeOK'
<1> USE TypeGroups, TypeGroupsNext, SameTypes
<1>1. ASSUME NEW ok \in BOOLEAN, NEW of \in Command \cup {NoCommand}, Answer(t, ok, of)
      PROVE  /\ CallTypes' /\ AnsTypes' /\ up' \in BOOLEAN /\ SockTypes' /\ FlagTypes' /\ TxTypes'
             /\ RxTypes' /\ StepTypes' /\ CountTypes' /\ serial' \in [Thread -> 0 .. Serials - 1]
  BY <1>1, AnswerType
<1>2. BusOf[t] \in Bus /\ last[BusOf[t]] \in Command \cup {NoCommand}
  BY DEF ThreadAssumption, DaemonTypes
<1>3. CASE Refuse(t)
  BY <1>1, <1>3 DEF Refuse, DaemonTypes, SerialTypes
<1>4. CASE ServeInit(t)
  BY <1>1, <1>2, <1>4 DEF ServeInit, DaemonTypes, SerialTypes
<1>5. CASE ServeWake(t)
  BY <1>1, <1>2, <1>5 DEF ServeWake, DaemonTypes, SerialTypes, Set
<1>6. CASE ServeWrite(t)
  <2>1. Count(reached[t] + 1) \in 0 .. 2
    BY DEF Count, SerialTypes
  <2>2. \A len \in Lens[t] : [by |-> t, serial |-> serial[t], len |-> len] \in Command
    BY DEF Command, SerialTypes, SizeAssumption
  <2>3. PICK ok \in BOOLEAN : Answer(t, ok, NoCommand)
    BY <1>6 DEF ServeWrite
  <2>4. /\ opened' = opened /\ owner' \in {Set(owner, BusOf[t], t), Set(owner, BusOf[t], Nobody)}
        /\ \/ \E len \in Lens[t] : last' = Set(last, BusOf[t], [by |-> t, serial |-> serial[t], len |-> len])
           \/ last' = last
        /\ reached' \in {reached, Set(reached, t, Count(reached[t] + 1))}
    BY <1>6 DEF ServeWrite
  <2>5. last' \in [Bus -> Command \cup {NoCommand}]
    BY <1>2, <2>2, <2>4 DEF DaemonTypes, Set
  <2>6. DaemonTypes'
    BY <1>1, <1>2, <2>3, <2>4, <2>5 DEF DaemonTypes, Set
  <2>7. SerialTypes'
    BY <1>1, <2>1, <2>3, <2>4 DEF SerialTypes, Set
  <2> QED
    BY <1>1, <2>3, <2>6, <2>7
<1>7. CASE ServeRead(t)
  BY <1>1, <1>2, <1>7 DEF ServeRead, DaemonTypes, SerialTypes
<1>8. CASE ServeUnlock(t)
  BY <1>1, <1>8 DEF ServeUnlock, Released, DaemonTypes, SerialTypes
<1> QED
  BY <1>3, <1>4, <1>5, <1>6, <1>7, <1>8 DEF Serve

LEMMA DaemonType ==
  ASSUME ThreadAssumption, TypeOK PROVE
    (\E t \in Thread : Drop(t)) \/ DaemonStops \/ DaemonStarts \/ UNCHANGED vars => TypeOK'
<1> USE TypeGroups, TypeGroupsNext, SameTypes
<1>1. ASSUME NEW t \in Thread, Drop(t) PROVE TypeOK'
  <2>1. DaemonTypes' /\ SockTypes'
    BY <1>1 DEF Drop, Released, DaemonTypes, SockTypes, Set
  <2> QED
    BY <1>1, <2>1 DEF Drop, callVars, callerVars
<1>2. CASE DaemonStops
  <2>1. DaemonTypes'
    BY <1>2 DEF DaemonStops, DaemonTypes
  <2>2. SockTypes'
    BY <1>2 DEF DaemonStops, SockTypes
  <2>3. AnsTypes'
    BY <1>2 DEF DaemonStops, AnsTypes, NoAnswer
  <2>4. CallTypes'
    BY <1>2 DEF DaemonStops, CallTypes, Stages
  <2> QED
    BY <1>2, <2>1, <2>2, <2>3, <2>4 DEF DaemonStops, callerVars
<1>3. CASE DaemonStarts
  <2>1. DaemonTypes'
    BY <1>3 DEF DaemonStarts, DaemonTypes, ThreadAssumption
  <2> QED
    BY <1>3, <2>1 DEF DaemonStarts, callVars, callerVars
<1>4. CASE UNCHANGED vars
  BY <1>4 DEF vars, callVars, callerVars
<1> QED
  BY <1>1, <1>2, <1>3, <1>4

-----------------------------------------------------------------------------
(* What a step of one thread, or of its worker, leaves alone. *)

Locals(u) ==
    <<call[u], ans[u], step[u], want[u], serial[u], reached[u], sock[u], flag[u],
      txSize[u], txOff[u], rxSize[u], rxOff[u], rxOf[u]>>

\* A bus u has stays with its last command, unless u loses it.
KeepsBus(u) ==
    owner'[BusOf[u]] = u => owner[BusOf[u]] = u /\ last'[BusOf[u]] = last[BusOf[u]]

LEMMA FinishElsewhere ==
  ASSUME TypeOK, NEW t \in Thread, NEW u \in Thread, u # t, NEW ok, NEW of, Finish(t, ok, of),
         call[t].cmd \in Requests
  PROVE  /\ UNCHANGED <<call[u], ans[u], step[u], want[u], serial[u], reached[u], flag[u], txSize[u],
                        txOff[u], rxSize[u], rxOff[u], rxOf[u]>>
         /\ UNCHANGED <<owner, last>>
<1>1. UNCHANGED <<serial, reached, txSize, txOff, owner, last>> /\ ans'[u] = ans[u]
  BY TypeGroups DEF Finish, daemonVars, txVars, AnsTypes, Set
<1>2. ClearRx(t) => UNCHANGED <<rxSize[u], rxOff[u], rxOf[u]>>
  BY TypeGroups DEF ClearRx, Set, RxTypes
<1>3. Done(t) \/ Ask(t, "WAKE", 0) => call'[u] = call[u]
  BY TypeGroups DEF Done, Ask, Set, CallTypes
<1>4. \A s : GoesTo(t, s) => step'[u] = step[u]
  BY TypeGroups DEF GoesTo, Set, StepTypes
<1>5. call'[u] = call[u]
  BY <1>3 DEF Finish, Requests, FinishInit, FinishWake, FinishWrite, FinishRead, FinishUnlock
<1>6. step'[u] = step[u]
  BY <1>4 DEF Finish, Requests, FinishInit, FinishWake, FinishWrite, FinishRead, FinishUnlock,
     AfterWrite, AfterRead
<1>7. UNCHANGED <<rxSize[u], rxOff[u], rxOf[u]>>
  <2>1. CASE call[t].cmd = "READ"
    <3>1. FinishRead(t, ok, of)
      BY <2>1 DEF Finish
    <3> QED
      BY <3>1, TypeGroups DEF FinishRead, rxVars, RxTypes, Set
  <2>2. CASE call[t].cmd # "READ"
    <3>1. ClearRx(t) \/ UNCHANGED rxVars
      BY <2>2 DEF Finish, Requests, FinishInit, FinishWake, FinishWrite, FinishUnlock
    <3> QED
      BY <1>2, <3>1 DEF rxVars
  <2> QED
    BY <2>1, <2>2
<1>8. flag'[u] = flag[u] /\ want'[u] = want[u]
  <2>1. CASE call[t].cmd = "READ"
    <3>1. FinishRead(t, ok, of)
      BY <2>1 DEF Finish
    <3> QED
      BY <3>1, TypeGroups DEF FinishRead, AfterRead, FlagTypes, CountTypes, Set
  <2>2. CASE call[t].cmd # "READ"
    <3>1. UNCHANGED <<flag, want>>
      BY <2>2 DEF Finish, Requests, FinishInit, FinishWake, FinishWrite, FinishUnlock, AfterWrite
    <3> QED
      BY <3>1
  <2> QED
    BY <2>1, <2>2
<1> QED
  BY <1>1, <1>5, <1>6, <1>7, <1>8

LEMMA LibraryElsewhere ==
  ASSUME TypeOK, HasRequest, NEW t \in Thread, NEW u \in Thread, u # t, Library(t)
  PROVE  UNCHANGED Locals(u) /\ UNCHANGED <<owner, last>>
<1>1. CASE Send(t)
  <2>1. sock'[u] = sock[u] /\ call'[u] = call[u]
    BY <1>1, TypeGroups DEF Send, SockTypes, CallTypes, Set
  <2> QED
    BY <1>1, <2>1 DEF Send, Locals, daemonVars, txVars, rxVars, callerVars
<1>2. CASE CannotConnect(t)
  BY <1>2, FinishElsewhere DEF CannotConnect, Locals
<1>3. CASE Broken(t)
  <2>1. sock'[u] = sock[u]
    BY <1>3, TypeGroups DEF Broken, SockTypes, Set
  <2> QED
    BY <1>3, <2>1, FinishElsewhere DEF Broken, Locals
<1>4. CASE KilledByPipe(t)
  <2>1. UNCHANGED <<sock[u], call[u], txSize[u], txOff[u]>>
    BY <1>4, TypeGroups DEF KilledByPipe, SockTypes, CallTypes, TxTypes, Set
  <2>2. UNCHANGED <<rxSize[u], rxOff[u], rxOf[u]>>
    BY <1>4, TypeGroups DEF KilledByPipe, ClearRx, RxTypes, Set
  <2>3. UNCHANGED <<step[u], serial[u], reached[u], flag[u], want[u]>>
    BY <1>4, TypeGroups DEF KilledByPipe, GoesTo, StepTypes, SerialTypes, FlagTypes, CountTypes, Set
  <2> QED
    BY <1>4, <2>1, <2>2, <2>3 DEF KilledByPipe, Locals, daemonVars
<1>5. CASE Return(t)
  <2>1. call[t].cmd \in Requests
    BY <1>5 DEF Return, HasRequest
  <2> QED
    BY <1>5, <2>1, FinishElsewhere DEF Return, Locals
<1> QED
  BY <1>1, <1>2, <1>3, <1>4, <1>5 DEF Library

LEMMA LibraryCallElsewhere ==
  ASSUME TypeOK, NEW t \in Thread, NEW u \in Thread, u # t, LibraryCall(t)
  PROVE  UNCHANGED Locals(u) /\ UNCHANGED <<owner, last>>
<1>1. \A cmd, n : Ask(t, cmd, n) => call'[u] = call[u]
  BY TypeGroups DEF Ask, Set, CallTypes
<1>2. \A s : GoesTo(t, s) => step'[u] = step[u]
  BY TypeGroups DEF GoesTo, Set, StepTypes
<1>3. ClearRx(t) => UNCHANGED <<rxSize[u], rxOff[u], rxOf[u]>>
  BY TypeGroups DEF ClearRx, Set, RxTypes
<1>4. CASE I2cInit(t) \/ I2cWake(t)
  BY <1>1, <1>4 DEF I2cInit, I2cWake, Locals, daemonVars, txVars, rxVars, callerVars
<1>5. ASSUME NEW n, SendStart(t, n) PROVE UNCHANGED Locals(u) /\ UNCHANGED <<owner, last>>
  <2>1. UNCHANGED <<txSize[u], txOff[u], serial[u], reached[u]>>
    BY <1>5, TypeGroups DEF SendStart, Set, TxTypes, SerialTypes
  <2> QED
    BY <1>2, <1>5, <2>1 DEF SendStart, Locals, daemonVars, rxVars, callVars
<1>6. ASSUME NEW n, SendContinue(t, n) PROVE UNCHANGED Locals(u) /\ UNCHANGED <<owner, last>>
  <2>1. txOff'[u] = txOff[u]
    BY <1>6, TypeGroups DEF SendContinue, Set, TxTypes
  <2> QED
    BY <1>6, <2>1 DEF SendContinue, Locals, daemonVars, rxVars, callVars, callerVars
<1>7. ASSUME NEW n, SendStop(t, n) PROVE UNCHANGED Locals(u) /\ UNCHANGED <<owner, last>>
  <2>1. txOff'[u] = txOff[u]
    BY <1>7, TypeGroups DEF SendStop, Set, TxTypes
  <2>2. UNCHANGED <<call[u], step[u]>>
    BY <1>1, <1>2, <1>7 DEF SendStop
  <2> QED
    BY <1>7, <2>1, <2>2 DEF SendStop, Locals, daemonVars, rxVars
<1>8. ASSUME NEW n, ReceiveStart(t, n) PROVE UNCHANGED Locals(u) /\ UNCHANGED <<owner, last>>
  <2>1. UNCHANGED <<call[u], step[u], want[u]>>
    BY <1>1, <1>2, <1>8, TypeGroups DEF ReceiveStart, AfterRead, CountTypes, Set
  <2> QED
    BY <1>8, <2>1 DEF ReceiveStart, Locals, daemonVars, txVars, rxVars
<1>9. ASSUME NEW n, ReceiveContinue(t, n) PROVE UNCHANGED Locals(u) /\ UNCHANGED <<owner, last>>
  <2>1. rxOff'[u] = rxOff[u]
    BY <1>9, TypeGroups DEF ReceiveContinue, Set, RxTypes
  <2> QED
    BY <1>9, <2>1 DEF ReceiveContinue, Locals, daemonVars, txVars, callVars, callerVars
<1>10. ASSUME NEW n, ReceiveStop(t, n) PROVE UNCHANGED Locals(u) /\ UNCHANGED <<owner, last>>
  <2>1. UNCHANGED <<call[u], rxSize[u], rxOff[u], rxOf[u]>>
    BY <1>1, <1>3, <1>10 DEF ReceiveStop, rxVars
  <2>2. UNCHANGED <<step[u], flag[u], want[u]>>
    BY <1>2, <1>10, TypeGroups DEF ReceiveStop, FlagTypes, CountTypes, Set
  <2> QED
    BY <1>10, <2>1, <2>2 DEF ReceiveStop, Locals, daemonVars, txVars
<1>11. ASSUME NEW n, Overrun(t, n) PROVE UNCHANGED Locals(u) /\ UNCHANGED <<owner, last>>
  BY <1>11 DEF Overrun, Locals, daemonVars, rxVars, callVars, callerVars
<1> QED
  BY <1>4, <1>5, <1>6, <1>7, <1>8, <1>9, <1>10, <1>11 DEF LibraryCall

LEMMA WorkerElsewhere ==
  ASSUME ThreadAssumption, TypeOK, NEW t \in Thread, NEW u \in Thread, u # t,
         Serve(t) \/ Drop(t)
  PROVE  UNCHANGED Locals(u) /\ KeepsBus(u)
<1>0. BusOf[t] \in Bus /\ BusOf[u] \in Bus /\ u # Nobody
  BY DEF ThreadAssumption
<1>1. ASSUME NEW ok, NEW of, Answer(t, ok, of), reached'[u] = reached[u] PROVE UNCHANGED Locals(u)
  <2>1. UNCHANGED <<ans[u], call[u]>>
    BY <1>1, TypeGroups DEF Answer, Set, AnsTypes, CallTypes
  <2> QED
    BY <1>1, <2>1 DEF Answer, Locals, txVars, rxVars, callerVars
<1>2. CASE Refuse(t)
  BY <1>1, <1>2 DEF Refuse, KeepsBus
<1>3. CASE ServeInit(t)
  BY <1>1, <1>3 DEF ServeInit, KeepsBus
<1>4. CASE ServeWake(t)
  <2>1. KeepsBus(u)
    BY <1>0, <1>4, TypeGroups DEF ServeWake, KeepsBus, Set, DaemonTypes
  <2> QED
    BY <1>1, <1>4, <2>1 DEF ServeWake
<1>5. CASE ServeWrite(t)
  <2>1. owner[BusOf[t]] \in {Nobody, t}
    BY <1>5 DEF ServeWrite
  <2>2. PICK ok \in BOOLEAN : Answer(t, ok, NoCommand)
    BY <1>5 DEF ServeWrite
  <2>3. /\ owner' \in {Set(owner, BusOf[t], t), Set(owner, BusOf[t], Nobody)}
        /\ \/ \E c : last' = Set(last, BusOf[t], c)
           \/ last' = last
        /\ reached' \in {reached, Set(reached, t, Count(reached[t] + 1))}
    BY <1>5 DEF ServeWrite
  <2>4. KeepsBus(u)
    BY <1>0, <2>1, <2>3, TypeGroups DEF KeepsBus, Set, DaemonTypes
  <2>5. reached'[u] = reached[u]
    BY <2>3, TypeGroups DEF Set, SerialTypes
  <2> QED
    BY <1>1, <2>2, <2>4, <2>5
<1>6. CASE ServeRead(t)
  BY <1>1, <1>6 DEF ServeRead, KeepsBus
<1>7. CASE ServeUnlock(t)
  <2>1. KeepsBus(u)
    BY <1>0, <1>7, TypeGroups DEF ServeUnlock, Released, KeepsBus, DaemonTypes
  <2> QED
    BY <1>1, <1>7, <2>1 DEF ServeUnlock
<1>8. CASE Drop(t)
  <2>1. KeepsBus(u)
    BY <1>0, <1>8, TypeGroups DEF Drop, Released, KeepsBus, DaemonTypes
  <2>2. sock'[u] = sock[u]
    BY <1>8, TypeGroups DEF Drop, Set, SockTypes
  <2> QED
    BY <1>8, <2>1, <2>2 DEF Drop, Locals, txVars, rxVars, callVars, callerVars
<1> QED
  BY <1>2, <1>3, <1>4, <1>5, <1>6, <1>7, <1>8 DEF Serve

-----------------------------------------------------------------------------
(* The inductive invariant. *)

Mine(t, c) == c \in Command /\ c.by = t /\ c.serial = serial[t]
Answered(t, cmd) == call[t].cmd = cmd /\ call[t].at = "answered" /\ ans[t].ok

\* A caller without a protocol is at no step; one with it has made the request of its step.
Stage(t) ==
    IF t \notin Documented THEN step[t] = "idle"
    ELSE /\ call[t].cmd = "WRITE" => step[t] = "fill"
         /\ call[t].cmd = "READ" => step[t] \in {"read", "readAll"}
         /\ call[t].cmd = "UNLOCK" => step[t] \in {"idle", "readAll"}
         /\ call[t].cmd \in {"INIT", "WAKE"} => step[t] = "idle"

\* What is cached, or about to be, answers the last frame; nothing is cached between reads.
Cached(t) ==
    /\ step[t] \notin {"got", "gotAll"} /\ call[t].cmd # "UNLOCK" => rxSize[t] = 0
    /\ rxSize[t] > 0 \/ step[t] \in {"got", "gotAll"} => Mine(t, rxOf[t])
    /\ Answered(t, "READ") => Mine(t, ans[t].of)

\* While a caller that reads has the bus, the device has its command.
Holds(t) ==
    owner[BusOf[t]] = t
    /\ (step[t] \in {"read", "got", "readAll", "gotAll"} \/ Answered(t, "WRITE"))
        => Mine(t, last[BusOf[t]])

\* How often a frame has reached the device, from its announcement to its answer.
Sent(t) ==
    /\ reached[t] <= 1
    /\ step[t] = "fill" /\ call[t].at = "start" => reached[t] = 0
    /\ call[t].cmd = "WRITE" /\ call[t].at = "sent" /\ sock[t] = "up" => reached[t] = 0
    /\ Answered(t, "WRITE") => reached[t] = 1
    /\ step[t] \in {"read", "got", "readAll", "gotAll"} => reached[t] = 1

InBounds(t) ==
    /\ txOff[t] <= txSize[t] /\ txSize[t] <= MaxFrame
    /\ rxOff[t] <= rxSize[t] /\ rxSize[t] <= MaxFrame
    /\ Answered(t, "READ") => call[t].size <= MaxFrame

Own(t) == Stage(t) /\ InBounds(t) /\ (t \in Documented => Cached(t) /\ Holds(t) /\ Sent(t))

\* Who may have copied past the end of a buffer, and with what size.
Overruns ==
    /\ overrun # {} => \E n \in Sizes : n + MaxFrame >= Word
    /\ overrun \cap Documented = {}

IInv ==
    /\ TypeOK /\ HasRequest /\ NoBusWithoutConnection /\ Overruns
    /\ \A t \in Thread : Own(t)

LEMMA OwnElsewhere ==
  ASSUME NEW u \in Thread, Own(u), UNCHANGED Locals(u), KeepsBus(u)
  PROVE  Own(u)'
<1>1. Stage(u)'
  BY DEF Own, Stage, Locals
<1>2. InBounds(u)'
  BY DEF Own, InBounds, Answered, Locals
<1>3. ASSUME u \in Documented PROVE Cached(u)'
  BY <1>3 DEF Own, Cached, Mine, Answered, Locals
<1>4. ASSUME u \in Documented PROVE Holds(u)'
  BY <1>4 DEF Own, Holds, Mine, Answered, Locals, KeepsBus
<1>5. ASSUME u \in Documented PROVE Sent(u)'
  BY <1>5 DEF Own, Sent, Answered, Locals
<1> QED
  BY <1>1, <1>2, <1>3, <1>4, <1>5 DEF Own

-----------------------------------------------------------------------------
(* What a step makes of the variables of its own thread. *)

LEMMA FinishOwn ==
  ASSUME SizeAssumption, TypeOK, NEW t \in Thread, Own(t), NEW ok \in BOOLEAN,
         NEW of \in Command \cup {NoCommand}, Finish(t, ok, of), call[t].cmd \in Requests,
         ok => call[t].at = "answered" /\ ans[t].ok /\ ans[t].of = of
  PROVE  Own(t)'
<1>1. /\ UNCHANGED <<owner, last, serial, reached, txSize, txOff>> /\ ans'[t] = NoAnswer
  BY TypeGroups DEF Finish, daemonVars, txVars, AnsTypes, Set
<1>2. ClearRx(t) => rxSize'[t] = 0 /\ rxOff'[t] = 0
  BY TypeGroups DEF ClearRx, Set, RxTypes
<1>3. /\ Done(t) => call'[t] = NoCall
      /\ Ask(t, "WAKE", 0) => call'[t].cmd = "WAKE" /\ call'[t].at = "start"
  BY TypeGroups DEF Done, Ask, Set, CallTypes
<1>4. \A s : GoesTo(t, s) => step'[t] = IF t \in Documented THEN s ELSE step[t]
  BY TypeGroups DEF GoesTo, Set, StepTypes
<1>5. /\ call'[t].at = "start" /\ call'[t].cmd \in {"none", "WAKE"}
      /\ call'[t].cmd = "WAKE" => call[t].cmd = "INIT"
  <2>1. Done(t) \/ (call[t].cmd = "INIT" /\ Ask(t, "WAKE", 0))
    BY DEF Finish, Requests, FinishInit, FinishWake, FinishWrite, FinishRead, FinishUnlock
  <2> QED
    BY <1>3, <2>1 DEF NoCall
<1>6. CASE call[t].cmd \in {"INIT", "WAKE"}
  <2>1. UNCHANGED <<rxSize, rxOff, rxOf, step>>
    BY <1>6 DEF Finish, FinishInit, FinishWake, rxVars
  <2> QED
    BY <1>1, <1>5, <1>6, <2>1 DEF Own, Stage, InBounds, Cached, Holds, Sent, Answered, Mine
<1>7. CASE call[t].cmd = "WRITE"
  <2>1. /\ step'[t] = IF t \in Documented THEN (IF ok THEN "read" ELSE "idle") ELSE step[t]
        /\ IF ok THEN ClearRx(t) ELSE UNCHANGED rxVars
        /\ call'[t].cmd = "none"
    BY <1>3, <1>4, <1>7 DEF Finish, FinishWrite, AfterWrite, NoCall
  <2>2. Stage(t)' /\ InBounds(t)'
    BY <1>1, <1>2, <1>5, <1>7, <2>1 DEF Own, Stage, InBounds, Answered, rxVars
  <2>3. ASSUME t \in Documented PROVE Cached(t)'
    BY <1>1, <1>2, <1>5, <1>7, <2>1, <2>3 DEF Own, Stage, Cached, Answered, Mine, rxVars
  <2>4. ASSUME t \in Documented PROVE Holds(t)' /\ Sent(t)'
    BY <1>1, <1>5, <1>7, <2>1, <2>4 DEF Own, Stage, Holds, Sent, Answered, Mine
  <2> QED
    BY <2>2, <2>3, <2>4 DEF Own
<1>8. CASE call[t].cmd = "READ"
  <2>1. FinishRead(t, ok, of)
    BY <1>8 DEF Finish
  <2>2. call'[t].cmd = "none"
    BY <1>3, <2>1 DEF FinishRead, NoCall
  <2>3. IF ok THEN rxSize'[t] = call[t].size /\ rxOff'[t] = 0 /\ rxOf'[t] = of
        ELSE UNCHANGED <<rxSize[t], rxOff[t], rxOf[t]>>
    BY <2>1, TypeGroups DEF FinishRead, rxVars, RxTypes, Set
  <2>4. /\ t \notin Documented => step'[t] = step[t]
        /\ t \in Documented /\ ok => step'[t] \in {"got", "gotAll"}
        /\ t \in Documented /\ ~ok => step'[t] \in {step[t], "gaveUp", "idle"}
    BY <1>4, <2>1 DEF FinishRead, AfterRead
  <2>5. Stage(t)' /\ InBounds(t)'
    BY <1>1, <1>5, <1>8, <2>2, <2>3, <2>4, TypeGroups
       DEF Own, Stage, InBounds, Answered, CallTypes
  <2>6. ASSUME t \in Documented PROVE Cached(t)'
    BY <1>1, <1>5, <1>8, <2>2, <2>3, <2>4, <2>6 DEF Own, Stage, Cached, Answered, Mine
  <2>7. ASSUME t \in Documented PROVE Holds(t)' /\ Sent(t)'
    BY <1>1, <1>5, <1>8, <2>2, <2>4, <2>7 DEF Own, Stage, Holds, Sent, Answered, Mine
  <2> QED
    BY <2>5, <2>6, <2>7 DEF Own
<1>9. CASE call[t].cmd = "UNLOCK"
  <2>1. ClearRx(t) /\ step' = step /\ call'[t].cmd = "none"
    BY <1>3, <1>9 DEF Finish, FinishUnlock, NoCall
  <2>2. Stage(t)' /\ InBounds(t)'
    BY <1>1, <1>2, <1>5, <2>1 DEF Own, Stage, InBounds, Answered
  <2>3. ASSUME t \in Documented PROVE Cached(t)'
    BY <1>1, <1>2, <1>5, <1>9, <2>1, <2>3 DEF Own, Stage, Cached, Answered
  <2>4. ASSUME t \in Documented PROVE Holds(t)' /\ Sent(t)'
    BY <1>1, <1>5, <1>9, <2>1, <2>4 DEF Own, Stage, Holds, Sent, Answered, Mine
  <2> QED
    BY <2>2, <2>3, <2>4 DEF Own
<1> QED
  BY <1>6, <1>7, <1>8, <1>9 DEF Requests

LEMMA SendOwn ==
  ASSUME TypeOK, NoBusWithoutConnection, NEW t \in Thread, Own(t), Send(t) PROVE Own(t)'
<1>1. /\ sock'[t] = "up" /\ call'[t] = [cmd |-> call[t].cmd, size |-> call[t].size, at |-> "sent"]
      /\ UNCHANGED <<owner, last, ans, step, serial, reached, txSize, txOff, rxSize, rxOff, rxOf>>
  BY TypeGroups DEF Send, SockTypes, CallTypes, Set, daemonVars, txVars, rxVars, callerVars
<1>2. call[t].at = "start" /\ call[t].cmd \in Requests
  BY DEF Send
<1>3. Stage(t)' /\ InBounds(t)'
  BY <1>1 DEF Own, Stage, InBounds, Answered
<1>4. ASSUME t \in Documented PROVE Cached(t)' /\ Holds(t)'
  BY <1>1, <1>4 DEF Own, Cached, Holds, Answered, Mine
<1>5. ASSUME t \in Documented PROVE Sent(t)'
  BY <1>1, <1>2, <1>5 DEF Own, Stage, Sent, Answered
<1> QED
  BY <1>3, <1>4, <1>5 DEF Own

LEMMA KilledOwn ==
  ASSUME SizeAssumption, TypeOK, NEW t \in Thread, Own(t), KilledByPipe(t) PROVE Own(t)'
<1>1. /\ call'[t] = NoCall /\ txSize'[t] = 0 /\ txOff'[t] = 0
      /\ UNCHANGED <<owner, last, ans>>
  BY TypeGroups DEF KilledByPipe, CallTypes, TxTypes, Set, daemonVars
<1>2. rxSize'[t] = 0 /\ rxOff'[t] = 0
  BY TypeGroups DEF KilledByPipe, ClearRx, RxTypes, Set
<1>3. reached'[t] = 0 /\ step'[t] = IF t \in Documented THEN "idle" ELSE step[t]
  BY TypeGroups DEF KilledByPipe, GoesTo, StepTypes, SerialTypes, Set
<1>4. Stage(t)' /\ InBounds(t)'
  BY <1>1, <1>2, <1>3 DEF Own, Stage, InBounds, Answered, NoCall, SizeAssumption
<1>5. ASSUME t \in Documented PROVE Cached(t)' /\ Holds(t)' /\ Sent(t)'
  BY <1>1, <1>2, <1>3, <1>5 DEF Cached, Holds, Sent, Answered, NoCall
<1> QED
  BY <1>4, <1>5 DEF Own

LEMMA LibraryOwn ==
  ASSUME SizeAssumption, TypeOK, HasRequest, NoBusWithoutConnection, NEW t \in Thread, Own(t),
         Library(t)
  PROVE  Own(t)'
<1>1. NoCommand \in Command \cup {NoCommand}
  OBVIOUS
<1>2. CASE CannotConnect(t)
  BY <1>1, <1>2, FinishOwn DEF CannotConnect
<1>3. CASE Broken(t)
  BY <1>1, <1>3, FinishOwn DEF Broken
<1>4. CASE Return(t)
  <2>1. call[t].cmd \in Requests /\ ans[t].ok \in BOOLEAN /\ ans[t].of \in Command \cup {NoCommand}
    BY <1>4, TypeGroups DEF Return, HasRequest, AnsTypes
  <2> QED
    BY <1>4, <2>1, FinishOwn DEF Return
<1> QED
  BY <1>2, <1>3, <1>4, SendOwn, KilledOwn DEF Library

\* A copy the check lets pass is in bounds if the sum of offset and size does not wrap;
\* an offset that only counts discarded bytes is in bounds also if it wraps.
LEMMA FitsInBounds ==
  ASSUME SizeAssumption, NEW off \in Nat, NEW size \in Nat, NEW n \in Nat,
         off <= size, size <= MaxFrame, Fits(off, n, size)
  PROVE  Sum16(off, n) <= size /\ (~Wraps(off, n) => off + n <= size)
<1>1. off + n \in Nat /\ Word \in Nat /\ off < Word
  BY DEF SizeAssumption
<1>2. ~Wraps(off, n) => Sum16(off, n) = off + n
  BY <1>1, ModSmall DEF Sum16, Wraps
<1>3. CASE n = 0
  BY <1>1, <1>2, <1>3 DEF Wraps
<1>4. CASE n # 0
  BY <1>2, <1>4 DEF Fits
<1> QED
  BY <1>3, <1>4

LEMMA LibraryCallOwn ==
  ASSUME SizeAssumption, TypeOK, NEW t \in Thread, Own(t), LibraryCall(t) PROVE Own(t)'
<1>1. /\ txSize[t] \in Nat /\ txOff[t] \in Nat /\ rxSize[t] \in Nat /\ rxOff[t] \in Nat
      /\ InBounds(t) /\ Stage(t)
  BY TypeGroups DEF TxTypes, RxTypes, Own
<1>2. ASSUME NEW cmd, NEW n, Ask(t, cmd, n)
      PROVE  call'[t].cmd = cmd /\ call'[t].at = "start"
  BY <1>2, TypeGroups DEF Ask, Set, CallTypes
<1>3. \A s : GoesTo(t, s) => step'[t] = IF t \in Documented THEN s ELSE step[t]
  BY TypeGroups DEF GoesTo, Set, StepTypes
<1>4. ClearRx(t) => rxSize'[t] = 0 /\ rxOff'[t] = 0
  BY TypeGroups DEF ClearRx, Set, RxTypes
<1>5. CASE I2cInit(t) \/ I2cWake(t)
  <2>1. /\ call[t] = NoCall /\ (t \in Documented => step[t] = "idle")
        /\ UNCHANGED <<owner, last, sock, txSize, txOff, rxSize, rxOff, rxOf, ans, step, serial, reached>>
    BY <1>5 DEF I2cInit, I2cWake, Calls, daemonVars, txVars, rxVars, callerVars
  <2>2. call'[t].cmd \in {"INIT", "WAKE"} /\ call'[t].at = "start"
    BY <1>2, <1>5 DEF I2cInit, I2cWake
  <2> QED
    BY <2>1, <2>2 DEF Own, Stage, InBounds, Cached, Holds, Sent, Answered, Mine, NoCall
<1>6. ASSUME NEW n \in Nat, SendStart(t, n) PROVE Own(t)'
  <2>1. /\ call[t] = NoCall /\ (t \in Documented => step[t] = "idle") /\ n <= MaxFrame
        /\ UNCHANGED <<owner, last, sock, rxSize, rxOff, rxOf, call, ans>>
    BY <1>6 DEF SendStart, Calls, daemonVars, rxVars, callVars
  <2>2. txSize'[t] = n /\ txOff'[t] = 0 /\ reached'[t] = 0
    BY <1>6, TypeGroups DEF SendStart, Set, TxTypes, SerialTypes
  <2>3. step'[t] = IF t \in Documented THEN "fill" ELSE step[t]
    BY <1>3, <1>6 DEF SendStart
  <2>4. Stage(t)' /\ InBounds(t)'
    BY <1>1, <2>1, <2>2, <2>3 DEF Stage, InBounds, Answered, NoCall
  <2>5. ASSUME t \in Documented PROVE Cached(t)' /\ Holds(t)' /\ Sent(t)'
    BY <2>1, <2>2, <2>3, <2>5 DEF Own, Cached, Holds, Sent, Answered, NoCall
  <2> QED
    BY <2>4, <2>5 DEF Own
<1>7. ASSUME NEW n \in Nat, SendContinue(t, n) PROVE Own(t)'
  <2>1. /\ txOff'[t] = txOff[t] + n
        /\ Fits(txOff[t], n, txSize[t]) /\ ~Wraps(txOff[t], n)
    BY <1>7, TypeGroups DEF SendContinue, Set, TxTypes
  <2>2. txOff'[t] <= txSize[t]
    BY <1>1, <1>7, <2>1, FitsInBounds DEF InBounds
  <2>3. UNCHANGED <<owner, last, sock, txSize, rxSize, rxOff, rxOf, call, ans, step, serial, reached>>
    BY <1>7 DEF SendContinue, daemonVars, rxVars, callVars, callerVars
  <2> QED
    BY <2>2, <2>3 DEF Own, Stage, InBounds, Cached, Holds, Sent, Answered, Mine
<1>8. ASSUME NEW n \in Nat, SendStop(t, n) PROVE Own(t)'
  <2>1. \/ /\ Fits(txOff[t], n, txSize[t]) /\ ~Wraps(txOff[t], n)
           /\ txOff'[t] = txOff[t] + n
        \/ txOff' = txOff
    BY <1>8, TypeGroups DEF SendStop, Set, TxTypes
  <2>2. txOff'[t] <= txSize[t]
    BY <1>1, <1>8, <2>1, FitsInBounds DEF InBounds
  <2>3. /\ call[t] = NoCall /\ (t \in Documented => step[t] = "fill")
        /\ UNCHANGED <<owner, last, sock, txSize, rxSize, rxOff, rxOf, ans, serial, reached>>
    BY <1>8 DEF SendStop, Calls, daemonVars, rxVars
  <2>4. \/ call'[t].cmd = "WRITE" /\ call'[t].at = "start" /\ step' = step
        \/ call' = call /\ step'[t] = IF t \in Documented THEN "idle" ELSE step[t]
    BY <1>2, <1>3, <1>8 DEF SendStop
  <2>5. Stage(t)' /\ InBounds(t)'
    BY <1>1, <2>2, <2>3, <2>4 DEF Stage, InBounds, Answered, NoCall
  <2>6. ASSUME t \in Documented PROVE Cached(t)' /\ Holds(t)' /\ Sent(t)'
    BY <2>3, <2>4, <2>6 DEF Own, Cached, Holds, Sent, Answered, Mine, NoCall
  <2> QED
    BY <2>5, <2>6 DEF Own
<1>9. ASSUME NEW n \in Nat, ReceiveStart(t, n) PROVE Own(t)'
  <2>1. /\ call[t] = NoCall /\ (t \in Documented => step[t] \in {"read", "readAll"})
        /\ UNCHANGED <<owner, last, sock, txSize, txOff, rxSize, rxOff, rxOf, ans, serial, reached>>
    BY <1>9 DEF ReceiveStart, Calls, daemonVars, txVars, rxVars
  <2>2. \/ call'[t].cmd = "READ" /\ call'[t].at = "start" /\ step' = step
        \/ /\ call' = call
           /\ t \notin Documented => step'[t] = step[t]
           /\ t \in Documented => step'[t] \in {step[t], "gaveUp", "idle"}
    BY <1>2, <1>3, <1>9 DEF ReceiveStart, AfterRead
  <2>3. Stage(t)' /\ InBounds(t)'
    BY <1>1, <2>1, <2>2 DEF Stage, InBounds, Answered, NoCall
  <2>4. ASSUME t \in Documented PROVE Cached(t)' /\ Holds(t)' /\ Sent(t)'
    BY <2>1, <2>2, <2>4 DEF Own, Cached, Holds, Sent, Answered, Mine, NoCall
  <2> QED
    BY <2>3, <2>4 DEF Own
<1>10. ASSUME NEW n \in Nat, ReceiveContinue(t, n) PROVE Own(t)'
  <2>1. rxOff'[t] = Sum16(rxOff[t], n) /\ Fits(rxOff[t], n, rxSize[t])
    BY <1>10, TypeGroups DEF ReceiveContinue, Set, RxTypes
  <2>2. rxOff'[t] <= rxSize[t]
    BY <1>1, <1>10, <2>1, FitsInBounds DEF InBounds
  <2>3. UNCHANGED <<owner, last, sock, txSize, txOff, rxSize, rxOf, call, ans, step, serial, reached>>
    BY <1>10 DEF ReceiveContinue, daemonVars, txVars, callVars, callerVars
  <2> QED
    BY <2>2, <2>3 DEF Own, Stage, InBounds, Cached, Holds, Sent, Answered, Mine
<1>11. ASSUME NEW n, ReceiveStop(t, n) PROVE Own(t)'
  <2>1. /\ call[t] = NoCall /\ (t \in Documented => step[t] \in {"got", "gotAll", "gaveUp"})
        /\ UNCHANGED <<owner, last, sock, txSize, txOff, ans, serial, reached>>
    BY <1>11 DEF ReceiveStop, Calls, daemonVars, txVars
  <2>2. /\ t \notin Documented => step'[t] = step[t]
        /\ t \in Documented /\ step[t] = "got" => step'[t] \in {"readAll", "idle"}
        /\ t \in Documented /\ step[t] # "got" => step'[t] = "idle"
    BY <1>3, <1>11 DEF ReceiveStop
  <2>3. \/ ClearRx(t) /\ call' = call
        \/ Ask(t, "UNLOCK", 0) /\ UNCHANGED rxVars
    BY <1>11 DEF ReceiveStop
  <2>4. \/ rxSize'[t] = 0 /\ rxOff'[t] = 0 /\ call' = call
        \/ call'[t].cmd = "UNLOCK" /\ call'[t].at = "start" /\ UNCHANGED <<rxSize, rxOff, rxOf>>
    BY <1>2, <1>4, <2>3 DEF rxVars
  <2>5. Stage(t)' /\ InBounds(t)'
    BY <1>1, <2>1, <2>2, <2>4 DEF Stage, InBounds, Answered, NoCall, SizeAssumption
  <2>6. ASSUME t \in Documented PROVE Cached(t)' /\ Holds(t)' /\ Sent(t)'
    BY <2>1, <2>2, <2>4, <2>6 DEF Own, Cached, Holds, Sent, Answered, Mine, NoCall
  <2> QED
    BY <2>5, <2>6 DEF Own
<1>12. /\ Frames \subseteq Nat /\ Sizes \subseteq Nat /\ txSize[t] - txOff[t] \in Nat
       /\ Phase1(t) \in Nat /\ want[t] \in Nat
  BY <1>1, TypeGroups DEF SizeAssumption, InBounds, Phase1, CountTypes
<1>13. ASSUME NEW n, Overrun(t, n) PROVE Own(t)'
  <2>1. UNCHANGED <<owner, last, sock, txSize, txOff, rxSize, rxOff, rxOf, call, ans, step, serial, reached>>
    BY <1>13 DEF Overrun, daemonVars, rxVars, callVars, callerVars
  <2> QED
    BY <2>1 DEF Own, Stage, InBounds, Cached, Holds, Sent, Answered, Mine
<1> QED
  BY <1>5, <1>6, <1>7, <1>8, <1>9, <1>10, <1>11, <1>12, <1>13 DEF LibraryCall

LEMMA ServeOwn ==
  ASSUME ThreadAssumption, SizeAssumption, TypeOK, NEW t \in Thread, Own(t), Serve(t) PROVE Own(t)'
<1>0. BusOf[t] \in Bus /\ t # Nobody
  BY DEF ThreadAssumption
<1>1. call[t].at = "sent" /\ sock[t] = "up"
  BY DEF Serve, Refuse, ServeInit, ServeWake, ServeWrite, ServeRead, ServeUnlock, Receives
<1>2. ASSUME NEW ok \in BOOLEAN, NEW of, Answer(t, ok, of)
      PROVE  /\ ans'[t].ok = ok /\ ans'[t].of = of
             /\ UNCHANGED <<call[t].cmd, call[t].size>> /\ call'[t].at = "answered"
             /\ UNCHANGED <<sock, txSize, txOff, rxSize, rxOff, rxOf, step, serial>>
  BY <1>2, TypeGroups DEF Answer, Set, AnsTypes, CallTypes, txVars, rxVars, callerVars
\* Answers that are no success of a WRITE or a READ.
<1>3. ASSUME NEW ok \in BOOLEAN, NEW of, Answer(t, ok, of), reached'[t] = reached[t],
             ok => call[t].cmd \notin {"WRITE", "READ"}, KeepsBus(t)
      PROVE  Own(t)'
  BY <1>1, <1>2, <1>3 DEF Own, Stage, InBounds, Cached, Holds, Sent, Answered, Mine, KeepsBus
<1>4. CASE Refuse(t)
  BY <1>3, <1>4 DEF Refuse, KeepsBus
<1>5. CASE ServeInit(t)
  BY <1>3, <1>5 DEF ServeInit, KeepsBus, Receives
<1>6. CASE ServeWake(t)
  <2>1. KeepsBus(t)
    BY <1>0, <1>6 DEF ServeWake, KeepsBus
  <2> QED
    BY <1>3, <1>6, <2>1 DEF ServeWake, Receives
<1>7. CASE ServeWrite(t)
  <2>1. call[t].cmd = "WRITE"
    BY <1>7 DEF ServeWrite, Receives
  <2>2. ASSUME NEW len \in Lens[t],
               last' = Set(last, BusOf[t], [by |-> t, serial |-> serial[t], len |-> len]),
               reached' = Set(reached, t, Count(reached[t] + 1)),
               owner' = Set(owner, BusOf[t], t), Answer(t, TRUE, NoCommand)
        PROVE  Own(t)'
    <3>1. last'[BusOf[t]] = [by |-> t, serial |-> serial[t], len |-> len]
      BY <1>0, <2>2, TypeGroups DEF Set, DaemonTypes
    <3>2. [by |-> t, serial |-> serial[t], len |-> len] \in Command
      BY TypeGroups DEF Command, SerialTypes, SizeAssumption
    <3>3. Mine(t, last[BusOf[t]])'
      <4>1. serial' = serial
        BY <2>2 DEF Answer, callerVars
      <4> QED
        BY <3>1, <3>2, <4>1 DEF Mine
    <3>4. Stage(t)' /\ InBounds(t)'
      BY <1>2, <2>1, <2>2 DEF Own, Stage, InBounds, Answered
    <3>5. ASSUME t \in Documented PROVE Cached(t)' /\ Holds(t)'
      BY <1>2, <2>1, <2>2, <3>3, <3>5 DEF Own, Stage, Cached, Holds, Answered, Mine
    <3>6. ASSUME t \in Documented PROVE Sent(t)'
      <4>1. reached[t] = 0 /\ reached'[t] = 1
        BY <1>1, <2>1, <2>2, <3>6, TypeGroups DEF Own, Sent, Count, Set, SerialTypes
      <4>2. step'[t] = "fill" /\ call'[t].at = "answered"
        BY <1>2, <2>1, <2>2, <3>6 DEF Own, Stage
      <4> QED
        BY <4>1, <4>2 DEF Sent
    <3> QED
      BY <3>4, <3>5, <3>6 DEF Own
  <2>3. ASSUME owner' = Set(owner, BusOf[t], Nobody), Answer(t, FALSE, NoCommand),
               reached' \in {reached, Set(reached, t, Count(reached[t] + 1))}
        PROVE  Own(t)'
    <3>1. owner'[BusOf[t]] # t
      BY <1>0, <2>3, TypeGroups DEF Set, DaemonTypes
    <3>2. Stage(t)' /\ InBounds(t)'
      BY <1>2, <2>1, <2>3 DEF Own, Stage, InBounds, Answered
    <3>3. ASSUME t \in Documented PROVE Cached(t)' /\ Holds(t)'
      BY <1>2, <2>1, <2>3, <3>1, <3>3 DEF Own, Cached, Holds, Answered, Mine
    <3>4. ASSUME t \in Documented PROVE Sent(t)'
      <4>1. reached[t] = 0 /\ reached'[t] \in {0, 1}
        BY <1>1, <2>1, <2>3, <3>4, TypeGroups DEF Own, Sent, Count, Set, SerialTypes
      <4>2. step'[t] = "fill" /\ call'[t].at = "answered" /\ ~ans'[t].ok
        BY <1>2, <2>1, <2>3, <3>4 DEF Own, Stage
      <4> QED
        BY <4>1, <4>2 DEF Sent, Answered
    <3> QED
      BY <3>2, <3>3, <3>4 DEF Own
  <2> QED
    BY <1>7, <2>2, <2>3 DEF ServeWrite
<1>8. CASE ServeRead(t)
  <2>1. /\ call[t].cmd = "READ" /\ owner[BusOf[t]] = t /\ call[t].size <= MaxFrame
        /\ UNCHANGED <<owner, last, reached>>
        /\ Answer(t, TRUE, last[BusOf[t]]) \/ Answer(t, FALSE, NoCommand)
    <3>1. call[t].size <= MaxFrame
      BY <1>8, TypeGroups DEF ServeRead, CallTypes, SizeAssumption
    <3> QED
      BY <1>8, <3>1 DEF ServeRead, Receives
  <2>2. Stage(t)' /\ InBounds(t)'
    BY <1>2, <2>1 DEF Own, Stage, InBounds, Answered
  <2>3. ASSUME t \in Documented PROVE Cached(t)'
    <3>1. Mine(t, last[BusOf[t]])
      BY <2>1, <2>3 DEF Own, Stage, Holds
    <3> QED
      BY <1>2, <2>1, <2>3, <3>1 DEF Own, Stage, Cached, Answered, Mine
  <2>4. ASSUME t \in Documented PROVE Holds(t)' /\ Sent(t)'
    BY <1>2, <2>1, <2>4 DEF Own, Stage, Holds, Sent, Answered, Mine
  <2> QED
    BY <2>2, <2>3, <2>4 DEF Own
<1>9. CASE ServeUnlock(t)
  <2>1. KeepsBus(t)
    BY <1>0, <1>9, TypeGroups DEF ServeUnlock, Released, KeepsBus, DaemonTypes
  <2> QED
    BY <1>3, <1>9, <2>1 DEF ServeUnlock, Receives
<1> QED
  BY <1>4, <1>5, <1>6, <1>7, <1>8, <1>9 DEF Serve

LEMMA DropOwn ==
  ASSUME ThreadAssumption, TypeOK, NEW t \in Thread, Own(t), Drop(t) PROVE Own(t)'
<1>1. /\ sock'[t] = "stale"
      /\ UNCHANGED <<last, call, ans, step, serial, reached, txSize, txOff, rxSize, rxOff, rxOf>>
  BY TypeGroups DEF Drop, Set, SockTypes, txVars, rxVars, callVars, callerVars
<1>2. owner'[BusOf[t]] # t
  BY TypeGroups DEF Drop, Released, DaemonTypes, ThreadAssumption
<1> QED
  BY <1>1, <1>2 DEF Own, Stage, InBounds, Cached, Holds, Sent, Answered, Mine

LEMMA StopsOwn ==
  ASSUME ThreadAssumption, TypeOK, NEW t \in Thread, Own(t), DaemonStops PROVE Own(t)'
<1>1. UNCHANGED <<last, step, serial, reached, txSize, txOff, rxSize, rxOff, rxOf>>
  BY DEF DaemonStops, txVars, rxVars, callerVars
<1>2. owner'[BusOf[t]] # t /\ sock'[t] # "up"
  BY TypeGroups DEF DaemonStops, DaemonTypes, SockTypes, ThreadAssumption
<1>3. \/ UNCHANGED <<call[t], ans[t]>>
      \/ /\ call[t].at = "answered" /\ call'[t].at = "sent"
         /\ UNCHANGED <<call[t].cmd, call[t].size>>
  BY TypeGroups DEF DaemonStops, CallTypes
<1> QED
  BY <1>1, <1>2, <1>3 DEF Own, Stage, InBounds, Cached, Holds, Sent, Answered, Mine

LEMMA OwnStep ==
  ASSUME ThreadAssumption, SizeAssumption, IInv, [Next]_vars
  PROVE  \A u \in Thread : Own(u)'
<1> SUFFICES ASSUME NEW u \in Thread PROVE Own(u)'
  OBVIOUS
<1>1. TypeOK /\ HasRequest /\ NoBusWithoutConnection /\ Own(u)
  BY DEF IInv
<1>2. ASSUME NEW t \in Thread, LibraryCall(t) \/ Library(t) PROVE Own(u)'
  <2>1. CASE u = t
    BY <1>1, <1>2, <2>1, LibraryCallOwn, LibraryOwn
  <2>2. CASE u # t
    BY <1>1, <1>2, <2>2, LibraryCallElsewhere, LibraryElsewhere, OwnElsewhere DEF KeepsBus
  <2> QED
    BY <2>1, <2>2
<1>3. ASSUME NEW t \in Thread, Serve(t) \/ Drop(t) PROVE Own(u)'
  <2>1. CASE u = t
    BY <1>1, <1>3, <2>1, ServeOwn, DropOwn
  <2>2. CASE u # t
    BY <1>1, <1>3, <2>2, WorkerElsewhere, OwnElsewhere
  <2> QED
    BY <2>1, <2>2
<1>4. CASE DaemonStops
  BY <1>1, <1>4, StopsOwn
<1>5. CASE DaemonStarts \/ UNCHANGED vars
  <2>1. UNCHANGED <<owner, last, sock, flag, call, ans, step, want, serial, reached, txSize, txOff,
                    rxSize, rxOff, rxOf>>
    BY <1>5 DEF DaemonStarts, vars, daemonVars, txVars, rxVars, callVars, callerVars
  <2> QED
    BY <1>1, <2>1, OwnElsewhere DEF Locals, KeepsBus
<1> QED
  BY <1>2, <1>3, <1>4, <1>5 DEF Next

-----------------------------------------------------------------------------
(* Requests and connections. *)

LEMMA RequestStep ==
  ASSUME ThreadAssumption, TypeOK, HasRequest, [Next]_vars
  PROVE  HasRequest'
<1> SUFFICES ASSUME NEW u \in Thread PROVE call'[u].at # "start" => call'[u].cmd \in Requests
  BY DEF HasRequest
<1>1. \A t \in Thread : t # u /\ (LibraryCall(t) \/ Library(t) \/ Serve(t) \/ Drop(t))
                            => call'[u] = call[u]
  BY LibraryCallElsewhere, LibraryElsewhere, WorkerElsewhere DEF Locals
<1>2. \A cmd, n : Ask(u, cmd, n) => call'[u].at = "start"
  BY TypeGroups DEF Ask, Set, CallTypes
<1>3. Done(u) => call'[u].at = "start"
  BY TypeGroups DEF Done, Set, CallTypes, NoCall
<1>4. ASSUME LibraryCall(u) PROVE call'[u].at = "start" \/ call' = call
  BY <1>2, <1>4 DEF LibraryCall, I2cInit, I2cWake, SendStart, SendContinue, SendStop, ReceiveStart,
     ReceiveContinue, ReceiveStop, Overrun, callVars
<1>5. ASSUME NEW ok, NEW of, Finish(u, ok, of), call[u].cmd \in Requests PROVE call'[u].at = "start"
  <2>1. Done(u) \/ Ask(u, "WAKE", 0)
    BY <1>5 DEF Finish, Requests, FinishInit, FinishWake, FinishWrite, FinishRead, FinishUnlock
  <2> QED
    BY <1>2, <1>3, <2>1
<1>6. ASSUME Library(u)
      PROVE  call'[u].at = "start" \/ (call'[u].cmd = call[u].cmd /\ call[u].cmd \in Requests)
  <2>1. CASE Send(u)
    BY <2>1, TypeGroups DEF Send, CallTypes
  <2>2. CASE KilledByPipe(u)
    BY <1>3, <2>2 DEF KilledByPipe, Done
  <2>3. CASE CannotConnect(u) \/ Broken(u)
    BY <1>5, <2>3 DEF CannotConnect, Broken
  <2>4. CASE Return(u)
    BY <1>5, <2>4 DEF Return, HasRequest
  <2> QED
    BY <1>6, <2>1, <2>2, <2>3, <2>4 DEF Library
<1>7. ASSUME Serve(u) PROVE call'[u].cmd = call[u].cmd /\ call[u].at = "sent"
  <2>1. \E ok, of : Answer(u, ok, of)
    BY <1>7 DEF Serve, Refuse, ServeInit, ServeWake, ServeWrite, ServeRead, ServeUnlock
  <2>2. call[u].at = "sent"
    BY <1>7 DEF Serve, Refuse, ServeInit, ServeWake, ServeWrite, ServeRead, ServeUnlock, Receives
  <2> QED
    BY <2>1, <2>2, TypeGroups DEF Answer, CallTypes
<1>8. CASE DaemonStops
  <2>1. call'[u] = call[u] \/ (call[u].at = "answered" /\ call'[u].cmd = call[u].cmd)
    BY <1>8, TypeGroups DEF DaemonStops, CallTypes
  <2> QED
    BY <2>1 DEF HasRequest
<1>9. Drop(u) \/ DaemonStarts \/ UNCHANGED vars => call' = call
  BY DEF Drop, DaemonStarts, vars, callVars
<1> QED
  BY <1>1, <1>4, <1>6, <1>7, <1>8, <1>9 DEF Next, HasRequest

LEMMA ConnectionStep ==
  ASSUME ThreadAssumption, TypeOK, HasRequest, NoBusWithoutConnection, [Next]_vars
  PROVE  NoBusWithoutConnection'
<1> SUFFICES ASSUME NEW b \in Bus, owner'[b] # Nobody PROVE up' /\ sock'[owner'[b]] = "up"
  BY DEF NoBusWithoutConnection
<1>1. owner \in [Bus -> Thread \cup {Nobody}] /\ sock \in [Thread -> {"none", "up", "stale", "dead"}]
  BY TypeGroups DEF DaemonTypes, SockTypes
<1>2. owner[b] # Nobody => owner[b] \in Thread /\ up /\ sock[owner[b]] = "up"
  BY <1>1 DEF NoBusWithoutConnection
<1>3. ASSUME NEW t \in Thread, LibraryCall(t) PROVE UNCHANGED <<up, owner, sock>>
  BY <1>3 DEF LibraryCall, I2cInit, I2cWake, SendStart, SendContinue, SendStop, ReceiveStart,
     ReceiveContinue, ReceiveStop, Overrun, daemonVars
<1>4. ASSUME NEW t \in Thread, Library(t)
      PROVE  UNCHANGED <<up, owner>> /\ (sock[t] = "up" => sock'[t] = "up")
             /\ \A u \in Thread \ {t} : sock'[u] = sock[u]
  <2>1. UNCHANGED <<up, owner>>
    BY <1>4 DEF Library, Send, CannotConnect, Broken, KilledByPipe, Return, Finish, daemonVars
  <2>2. \A u \in Thread \ {t} : sock'[u] = sock[u]
    BY <1>4, LibraryElsewhere DEF Locals
  <2>3. sock[t] = "up" => sock'[t] = "up"
    BY <1>1, <1>4 DEF Library, Send, CannotConnect, Broken, KilledByPipe, Return, Set
  <2> QED
    BY <2>1, <2>2, <2>3
<1>5. ASSUME NEW t \in Thread, Serve(t)
      PROVE  UNCHANGED <<up, sock>> /\ up /\ sock[t] = "up" /\ owner'[b] \in {Nobody, owner[b], t}
  <2>1. up /\ sock[t] = "up" /\ UNCHANGED <<up, sock>>
    BY <1>5 DEF Serve, Refuse, ServeInit, ServeWake, ServeWrite, ServeRead, ServeUnlock, Receives, Answer
  <2>2. owner' \in {owner, Set(owner, BusOf[t], t), Set(owner, BusOf[t], Nobody), Released(t)}
    BY <1>5 DEF Serve, Refuse, ServeInit, ServeWake, ServeWrite, ServeRead, ServeUnlock
  <2>3. owner'[b] \in {Nobody, owner[b], t}
    BY <1>1, <2>2 DEF Set, Released
  <2> QED
    BY <2>1, <2>3
<1>6. ASSUME NEW t \in Thread, Drop(t) PROVE up' /\ sock'[owner'[b]] = "up"
  BY <1>1, <1>2, <1>6 DEF Drop, Released, Set
<1>7. ~DaemonStops
  BY DEF DaemonStops
<1>8. CASE DaemonStarts \/ UNCHANGED vars
  BY <1>2, <1>8 DEF DaemonStarts, vars, daemonVars
<1>9. ASSUME NEW t \in Thread, LibraryCall(t) \/ Library(t) \/ Serve(t)
      PROVE  up' /\ sock'[owner'[b]] = "up"
  BY <1>2, <1>3, <1>4, <1>5, <1>9
<1> QED
  BY <1>6, <1>7, <1>8, <1>9 DEF Next

-----------------------------------------------------------------------------
(* Copies past the end of a buffer. *)

\* A copy that wraps the sum is one of an undocumented caller, and of a size that comes
\* within the length of a frame of 2^16.
LEMMA OverrunOnly ==
  ASSUME ThreadAssumption, SizeAssumption, TypeOK, NEW t \in Thread, Own(t), LibraryCall(t),
         overrun' # overrun
  PROVE  /\ t \notin Documented /\ overrun' = overrun \cup {t}
         /\ \E n \in Sizes : n + MaxFrame >= Word
<1>1. \A n : ~(I2cInit(t) \/ I2cWake(t) \/ SendStart(t, n) \/ SendContinue(t, n) \/ SendStop(t, n)
               \/ ReceiveStart(t, n) \/ ReceiveContinue(t, n) \/ ReceiveStop(t, n))
  BY DEF I2cInit, I2cWake, SendStart, SendContinue, SendStop, ReceiveStart, ReceiveContinue,
     ReceiveStop, txVars
<1>2. PICK n : /\ Overrun(t, n)
               /\ n \in IF t \notin Documented THEN Sizes ELSE
                        {txSize[t] - txOff[t], rxSize[t] - rxOff[t]}
                        \cup {m \in Sizes : txOff[t] + m <= txSize[t] \/ rxOff[t] + m <= rxSize[t]}
  BY <1>1 DEF LibraryCall
<1>3. overrun' = overrun \cup {t} /\ (txOff[t] + n >= Word \/ rxOff[t] + n >= Word)
  BY <1>2 DEF Overrun, Wraps
<1>4. /\ txSize[t] \in Nat /\ txOff[t] \in Nat /\ rxSize[t] \in Nat /\ rxOff[t] \in Nat
      /\ InBounds(t)
  BY TypeGroups DEF TxTypes, RxTypes, Own
<1>5. /\ MaxFrame \in Nat /\ Word \in Nat /\ 2 * MaxFrame < Word /\ Sizes \subseteq Nat
      /\ txOff[t] <= MaxFrame /\ rxOff[t] <= MaxFrame
      /\ txSize[t] <= MaxFrame /\ rxSize[t] <= MaxFrame
  BY <1>4 DEF SizeAssumption, InBounds
<1>6. CASE t \notin Documented
  <2>1. n \in Sizes /\ n \in Nat
    BY <1>2, <1>5, <1>6
  <2>2. n + MaxFrame >= Word
    BY <1>3, <1>4, <1>5, <2>1
  <2> QED
    BY <1>3, <1>6, <2>1, <2>2
<1>7. CASE t \in Documented
  <2>1. n \in Int /\ n <= MaxFrame
    BY <1>2, <1>4, <1>5, <1>7
  <2> QED
    BY <1>3, <1>4, <1>5, <2>1
<1> QED
  BY <1>6, <1>7

LEMMA OverrunStep ==
  ASSUME ThreadAssumption, SizeAssumption, IInv, [Next]_vars PROVE Overruns'
<1>1. ASSUME NEW t \in Thread, Library(t) \/ Serve(t) \/ Drop(t) PROVE overrun' = overrun
  <2>1. Library(t) => overrun' = overrun
    BY DEF Library, Send, CannotConnect, Broken, KilledByPipe, Return, Finish, txVars
  <2>2. Serve(t) => overrun' = overrun
    BY DEF Serve, Refuse, ServeInit, ServeWake, ServeWrite, ServeRead, ServeUnlock, Answer, txVars
  <2>3. Drop(t) => overrun' = overrun
    BY DEF Drop, txVars
  <2> QED
    BY <1>1, <2>1, <2>2, <2>3
<1>2. ASSUME NEW t \in Thread, LibraryCall(t), overrun' # overrun PROVE Overruns'
  BY <1>2, OverrunOnly DEF IInv, Overruns
<1>3. DaemonStops \/ DaemonStarts \/ UNCHANGED vars => overrun' = overrun
  BY DEF DaemonStops, DaemonStarts, vars, txVars
<1>4. overrun' = overrun => Overruns'
  BY DEF IInv, Overruns
<1> QED
  BY <1>1, <1>2, <1>3, <1>4 DEF Next

-----------------------------------------------------------------------------
(* The invariant is inductive, and what follows from it. *)

LEMMA Initially == ThreadAssumption /\ SizeAssumption /\ Init => IInv
<1> SUFFICES ASSUME ThreadAssumption, SizeAssumption, Init PROVE IInv
  OBVIOUS
<1>1. TypeOK
  BY DEF ThreadAssumption, SizeAssumption, Init, TypeOK, NoCall, NoAnswer, NoCommand, Stages, Requests
<1>2. HasRequest /\ NoBusWithoutConnection
  BY DEF Init, HasRequest, NoBusWithoutConnection, NoCall
<1>3. ASSUME NEW t \in Thread PROVE Own(t)
  BY DEF Init, NoCall, ThreadAssumption, SizeAssumption, Own, Stage, InBounds, Cached, Holds, Sent,
     Answered
<1>4. Overruns
  BY DEF Init, Overruns
<1> QED
  BY <1>1, <1>2, <1>3, <1>4 DEF IInv

LEMMA TypeStep ==
  ASSUME ThreadAssumption, SizeAssumption, IInv, [Next]_vars PROVE TypeOK'
<1>1. TypeOK /\ HasRequest
  BY DEF IInv
<1>2. GotIsCommand
  BY DEF GotIsCommand, IInv, Own, Stage, Cached, Mine
<1> QED
  BY <1>1, <1>2, LibraryType, LibraryCallType, ServeType, DaemonType DEF Next

LEMMA Inductive == Spec => []IInv
<1>1. IInv /\ [Next]_vars => IInv'
  BY ThreadAssumption, SizeAssumption, TypeStep, RequestStep, ConnectionStep,
     OverrunStep, OwnStep DEF IInv
<1> QED
  BY <1>1, Initially, ThreadAssumption, SizeAssumption, PTL DEF Spec

\* Every variable keeps its type.
THEOREM TypeCorrect == Spec => []TypeOK
<1>1. IInv => TypeOK
  BY DEF IInv
<1> QED
  BY <1>1, Inductive, PTL

\* A bus belongs to a thread only while its connection exists.
THEOREM NoBusWithoutConnectionAlways == Spec => []NoBusWithoutConnection
<1>1. IInv => NoBusWithoutConnection
  BY DEF IInv
<1> QED
  BY <1>1, Inductive, PTL

\* Whatever sizes a caller passes, the offsets stay in the part of the buffers that is in
\* use; a copy leaves it only for a size of Word - MaxFrame or more, and never for a
\* documented caller.
THEOREM BuffersInBoundsAlways == Spec => []BuffersInBounds
<1>1. IInv => BuffersInBounds
  BY DEF IInv, Overruns, Own, InBounds, BuffersInBounds
<1> QED
  BY <1>1, Inductive, PTL

\* What a documented caller reads answers its last frame.
THEOREM OwnAnswerAlways == Spec => []OwnAnswer
<1>1. IInv => OwnAnswer
  <2> SUFFICES ASSUME IInv, NEW t \in Documented, rxSize[t] > 0
               PROVE  rxOf[t] # NoCommand /\ rxOf[t].by = t /\ rxOf[t].serial = serial[t]
    BY DEF OwnAnswer
  <2>1. t \in Thread /\ t # Nobody
    BY ThreadAssumption DEF ThreadAssumption
  <2>2. Mine(t, rxOf[t])
    BY <2>1 DEF IInv, Own, Cached
  <2> QED
    BY <2>1, <2>2 DEF Mine, NoCommand
<1> QED
  BY <1>1, Inductive, PTL

\* A frame reaches the device once at most, and has reached it when a caller reads.
THEOREM ExecutedOnceAlways == Spec => []ExecutedOnce
<1>1. IInv => ExecutedOnce
  BY ThreadAssumption DEF ThreadAssumption, IInv, Own, Sent, ExecutedOnce
<1> QED
  BY <1>1, Inductive, PTL

-----------------------------------------------------------------------------
(* The flag of a thread on which the device type was set. *)

\* The flag is set between a first read and the receive_stop() that follows it, if and
\* only if the response is longer; a second read asks for more than a first one.
Flag(t) ==
    /\ step[t] # "got" => ~flag[t]
    /\ step[t] = "got" => (flag[t] <=> ReadsOn(t))
    /\ step[t] = "readAll" => want[t] > Phase1(t)
    /\ call[t].cmd = "READ" => call[t].size = IF step[t] = "read" THEN Phase1(t) ELSE want[t]

FlagInv == \A t \in Documented : Flag(t)

\* Before and after a read of a documented caller that set the type.
LEMMA ExpectsRight ==
  ASSUME ThreadAssumption, NEW t \in Thread, t \in Typed, NEW len \in Nat
  PROVE  /\ Expects(t, Phase1(t), len) <=> Total(t, len) > Phase1(t)
         /\ \A n \in Nat : n > Phase1(t) => ~Expects(t, n, len)
<1>1. TypeOf(t) = Device[t] /\ Device[t] \in {"A120", "L010"}
  BY DEF TypeOf, ThreadAssumption
<1>2. CASE Device[t] = "A120"
  BY <1>1, <1>2 DEF Expects, Phase1, Total, Header, LengthAt1
<1>3. CASE Device[t] = "L010"
  BY <1>1, <1>3 DEF Expects, Phase1, Total, Header
<1> QED
  BY <1>1, <1>2, <1>3

LEMMA FlagElsewhere ==
  ASSUME NEW u \in Thread, Flag(u), UNCHANGED Locals(u) PROVE Flag(u)'
BY DEF Flag, Locals, ReadsOn, Total, Header, Phase1

LEMMA FinishFlag ==
  ASSUME ThreadAssumption, SizeAssumption, TypeOK, NEW t \in Documented, t \in Typed, Own(t), Flag(t),
         NEW ok \in BOOLEAN, NEW of \in Command \cup {NoCommand}, Finish(t, ok, of),
         call[t].cmd \in Requests, ok /\ call[t].cmd = "READ" => of \in Command
  PROVE  Flag(t)'
<1>0. t \in Thread
  BY DEF ThreadAssumption
<1>1. /\ Done(t) => call'[t].cmd = "none"
      /\ Ask(t, "WAKE", 0) => call'[t].cmd = "WAKE"
  BY <1>0, TypeGroups DEF Done, Ask, Set, CallTypes, NoCall
<1>2. \A s : GoesTo(t, s) => step'[t] = s
  BY <1>0, TypeGroups DEF GoesTo, Set, StepTypes
<1>3. call'[t].cmd \in {"none", "WAKE"}
  <2>1. Done(t) \/ Ask(t, "WAKE", 0)
    BY DEF Finish, Requests, FinishInit, FinishWake, FinishWrite, FinishRead, FinishUnlock
  <2> QED
    BY <1>1, <2>1
<1>4. CASE call[t].cmd \in {"INIT", "WAKE", "UNLOCK"}
  <2>1. UNCHANGED <<flag, step, want>>
    BY <1>4 DEF Finish, FinishInit, FinishWake, FinishUnlock
  <2>2. step[t] # "got"
    BY <1>4 DEF Own, Stage
  <2> QED
    BY <1>3, <2>1, <2>2 DEF Flag, Phase1
<1>5. CASE call[t].cmd = "WRITE"
  <2>1. UNCHANGED flag /\ step'[t] \in {"read", "idle"} /\ step[t] = "fill"
    BY <1>2, <1>5 DEF Finish, FinishWrite, AfterWrite, Own, Stage
  <2> QED
    BY <1>3, <2>1 DEF Flag
<1>6. CASE call[t].cmd = "READ"
  <2>1. FinishRead(t, ok, of) /\ step[t] \in {"read", "readAll"} /\ call'[t].cmd = "none"
    BY <1>1, <1>6 DEF Finish, FinishRead, Own, Stage
  <2>2. CASE ok
    <3>1. of.len \in Nat /\ call[t].size \in Nat
      BY <1>0, <1>6, <2>2, TypeGroups DEF Command, CallTypes
    <3>2. step'[t] = IF step[t] = "read" THEN "got" ELSE "gotAll"
      BY <1>2, <2>1, <2>2 DEF FinishRead, AfterRead
    <3>3. rxOf'[t] = of
      BY <1>0, <2>1, <2>2, TypeGroups DEF FinishRead, RxTypes, Set
    <3>4. flag'[t] <=> Expects(t, call[t].size, of.len)
      BY <1>0, <2>1, <2>2, TypeGroups DEF FinishRead, FlagTypes, Set
    <3>5. CASE step[t] = "read"
      <4>1. call[t].size = Phase1(t)
        BY <1>6, <3>5 DEF Flag
      <4>2. flag'[t] <=> Total(t, of.len) > Phase1(t)
        BY <1>0, <3>1, <3>4, <4>1, ExpectsRight
      <4> QED
        BY <2>1, <3>2, <3>3, <3>5, <4>2 DEF Flag, ReadsOn, Total, Header, Phase1
    <3>6. CASE step[t] = "readAll"
      <4>1. call[t].size > Phase1(t)
        BY <1>6, <3>6 DEF Flag
      <4>2. ~flag'[t]
        BY <1>0, <3>1, <3>4, <4>1, ExpectsRight
      <4> QED
        BY <2>1, <3>2, <3>6, <4>2 DEF Flag
    <3> QED
      BY <2>1, <3>5, <3>6
  <2>3. CASE ~ok
    <3>1. UNCHANGED flag
      BY <2>1, <2>3 DEF FinishRead
    <3>2. (step'[t] = step[t] /\ want'[t] = want[t]) \/ step'[t] \in {"gaveUp", "idle"}
      BY <1>0, <1>2, <2>1, <2>3, TypeGroups DEF FinishRead, AfterRead, CountTypes, Set
    <3> QED
      BY <2>1, <3>1, <3>2 DEF Flag, Phase1
  <2> QED
    BY <2>2, <2>3
<1> QED
  BY <1>4, <1>5, <1>6 DEF Requests

LEMMA LibraryFlag ==
  ASSUME ThreadAssumption, SizeAssumption, TypeOK, HasRequest, NEW t \in Documented, t \in Typed,
         Own(t), Flag(t), Library(t)
  PROVE  Flag(t)'
<1>0. t \in Thread
  BY DEF ThreadAssumption
<1>1. CASE Send(t)
  BY <1>0, <1>1, TypeGroups DEF Send, CallTypes, callerVars, rxVars, Flag, ReadsOn, Total, Header, Phase1
<1>2. CASE CannotConnect(t)
  BY <1>0, <1>2, FinishFlag DEF CannotConnect
<1>3. CASE Broken(t)
  BY <1>0, <1>3, FinishFlag DEF Broken
<1>4. CASE KilledByPipe(t)
  BY <1>0, <1>4, TypeGroups DEF KilledByPipe, CallTypes, FlagTypes, StepTypes, GoesTo, Set, NoCall, Flag
<1>5. CASE Return(t)
  <2>1. call[t].cmd \in Requests /\ ans[t].ok \in BOOLEAN /\ ans[t].of \in Command \cup {NoCommand}
    BY <1>0, <1>5, TypeGroups DEF Return, HasRequest, AnsTypes
  <2>2. ans[t].ok /\ call[t].cmd = "READ" => ans[t].of \in Command
    BY <1>5 DEF Return, Own, Cached, Answered, Mine
  <2> QED
    BY <1>0, <1>5, <2>1, <2>2, FinishFlag DEF Return
<1> QED
  BY <1>1, <1>2, <1>3, <1>4, <1>5 DEF Library

\* What receive_stop() does with the flag of a documented caller that set the type.
LEMMA ReceiveStopRight ==
  ASSUME ThreadAssumption, TypeOK, NEW t \in Documented, Flag(t), NEW n, ReceiveStop(t, n)
  PROVE  /\ step[t] \in {"got", "gotAll", "gaveUp"} /\ ~flag'[t] /\ call'[t].cmd \in {"none", "UNLOCK"}
         /\ step'[t] \in {"idle", "readAll"}
         /\ step'[t] = "idle" <=> call'[t].cmd = "UNLOCK"
         /\ step'[t] = "readAll" => want'[t] > Phase1(t)
<1>0. t \in Thread
  BY DEF ThreadAssumption
<1>1. \A s : GoesTo(t, s) => step'[t] = s
  BY <1>0, TypeGroups DEF GoesTo, Set, StepTypes
<1>2. /\ call[t] = NoCall /\ step[t] \in {"got", "gotAll", "gaveUp"}
  BY DEF ReceiveStop, Calls
<1>3. Ask(t, "UNLOCK", 0) => call'[t].cmd = "UNLOCK"
  BY <1>0, TypeGroups DEF Ask, Set, CallTypes
<1>4. IF flag[t] THEN call'[t].cmd = "none" /\ ~flag'[t] ELSE call'[t].cmd = "UNLOCK" /\ ~flag'[t]
  BY <1>0, <1>2, <1>3, TypeGroups DEF ReceiveStop, FlagTypes, Set, NoCall
<1>5. CASE step[t] = "got" /\ ReadsOn(t)
  <2>1. step'[t] = "readAll" /\ want'[t] = Total(t, rxOf[t].len)
    BY <1>0, <1>1, <1>5, TypeGroups DEF ReceiveStop, CountTypes, Set
  <2>2. flag[t] /\ Total(t, rxOf[t].len) > Phase1(t)
    BY <1>5 DEF Flag, ReadsOn
  <2> QED
    BY <1>2, <1>4, <2>1, <2>2
<1>6. CASE ~(step[t] = "got" /\ ReadsOn(t))
  <2>1. step'[t] = "idle"
    BY <1>1, <1>6 DEF ReceiveStop
  <2>2. ~flag[t]
    BY <1>6 DEF Flag
  <2> QED
    BY <1>2, <1>4, <2>1, <2>2
<1> QED
  BY <1>5, <1>6

LEMMA LibraryCallFlag ==
  ASSUME ThreadAssumption, SizeAssumption, TypeOK, NEW t \in Documented, Flag(t), LibraryCall(t)
  PROVE  Flag(t)'
<1>0. t \in Thread
  BY DEF ThreadAssumption
<1>1. ASSUME NEW cmd, NEW n, Ask(t, cmd, n) PROVE call'[t].cmd = cmd /\ call'[t].size = n
  BY <1>0, <1>1, TypeGroups DEF Ask, Set, CallTypes
<1>2. \A s : GoesTo(t, s) => step'[t] = s
  BY <1>0, TypeGroups DEF GoesTo, Set, StepTypes
<1>3. CASE I2cInit(t) \/ I2cWake(t)
  <2>1. UNCHANGED <<flag, step, want>> /\ step[t] = "idle"
    BY <1>3 DEF I2cInit, I2cWake, Calls, callerVars
  <2>2. call'[t].cmd \in {"INIT", "WAKE"}
    BY <1>1, <1>3 DEF I2cInit, I2cWake
  <2> QED
    BY <2>1, <2>2 DEF Flag
<1>4. ASSUME NEW n, SendStart(t, n) PROVE Flag(t)'
  <2>1. step'[t] = "fill" /\ step[t] = "idle" /\ UNCHANGED <<flag, call>> /\ call[t] = NoCall
    BY <1>2, <1>4 DEF SendStart, Calls, callVars
  <2> QED
    BY <2>1 DEF Flag, NoCall
<1>5. ASSUME NEW n, SendContinue(t, n) PROVE Flag(t)'
  <2>1. UNCHANGED <<step, flag, call>> /\ step[t] = "fill" /\ call[t] = NoCall
    BY <1>5 DEF SendContinue, Calls, callVars, callerVars
  <2> QED
    BY <2>1 DEF Flag, NoCall
<1>6. ASSUME NEW n, SendStop(t, n) PROVE Flag(t)'
  <2>1. /\ UNCHANGED flag /\ step[t] = "fill" /\ step'[t] \in {"fill", "idle"} /\ call[t] = NoCall
        /\ call'[t].cmd = "WRITE" \/ call' = call
    BY <1>1, <1>2, <1>6 DEF SendStop, Calls
  <2> QED
    BY <2>1 DEF Flag, NoCall
<1>7. ASSUME NEW n, n = IF step[t] = "read" THEN Phase1(t) ELSE want[t], ReceiveStart(t, n)
      PROVE  Flag(t)'
  <2>1. UNCHANGED flag /\ step[t] \in {"read", "readAll"} /\ call[t] = NoCall
    BY <1>7 DEF ReceiveStart, Calls
  <2>2. CASE Ask(t, "READ", n) /\ UNCHANGED <<step, polls, want>>
    <3>1. call'[t].cmd = "READ" /\ call'[t].size = n
      BY <1>1, <2>2
    <3> QED
      BY <1>7, <2>1, <2>2, <3>1 DEF Flag, Phase1
  <2>3. CASE AfterRead(t, FALSE) /\ UNCHANGED call
    <3>1. (step'[t] = step[t] /\ want'[t] = want[t]) \/ step'[t] \in {"gaveUp", "idle"}
      BY <1>0, <1>2, <2>3, TypeGroups DEF AfterRead, CountTypes, Set
    <3> QED
      BY <2>1, <2>3, <3>1 DEF Flag, Phase1, NoCall
  <2> QED
    BY <1>7, <2>2, <2>3 DEF ReceiveStart
<1>8. ASSUME NEW n, ReceiveContinue(t, n) PROVE Flag(t)'
  <2>1. UNCHANGED <<flag, call, step, want, rxOf>>
    BY <1>8 DEF ReceiveContinue, callVars, callerVars
  <2> QED
    BY <2>1 DEF Flag, ReadsOn, Total, Header, Phase1
<1>9. ASSUME NEW n, ReceiveStop(t, n) PROVE Flag(t)'
  <2>1. /\ ~flag'[t] /\ call'[t].cmd \in {"none", "UNLOCK"} /\ step'[t] \in {"idle", "readAll"}
        /\ step'[t] = "readAll" => want'[t] > Phase1(t)
    BY <1>9, ReceiveStopRight
  <2> QED
    BY <2>1 DEF Flag, Phase1
<1>10. ASSUME NEW n, Overrun(t, n) PROVE Flag(t)'
  <2>1. UNCHANGED <<flag, call, step, want, rxOf>>
    BY <1>10 DEF Overrun, rxVars, callVars, callerVars
  <2> QED
    BY <2>1 DEF Flag, ReadsOn, Total, Header, Phase1
<1> QED
  BY <1>3, <1>4, <1>5, <1>6, <1>7, <1>8, <1>9, <1>10 DEF LibraryCall

LEMMA DaemonFlag ==
  ASSUME ThreadAssumption, TypeOK, NEW t \in Documented, Flag(t),
         Serve(t) \/ Drop(t) \/ DaemonStops \/ DaemonStarts \/ UNCHANGED vars
  PROVE  Flag(t)'
<1>0. t \in Thread
  BY DEF ThreadAssumption
<1>1. UNCHANGED <<flag, step, want, rxOf>> /\ UNCHANGED <<call[t].cmd, call[t].size>>
  <2>1. CASE Serve(t)
    <3>1. \E ok, of : Answer(t, ok, of)
      BY <2>1 DEF Serve, Refuse, ServeInit, ServeWake, ServeWrite, ServeRead, ServeUnlock
    <3> QED
      BY <1>0, <3>1, TypeGroups DEF Answer, CallTypes, callerVars, rxVars
  <2>2. CASE DaemonStops
    BY <1>0, <2>2, TypeGroups DEF DaemonStops, CallTypes, callerVars, rxVars
  <2>3. CASE Drop(t) \/ DaemonStarts \/ UNCHANGED vars
    BY <2>3 DEF Drop, DaemonStarts, vars, callVars, callerVars, rxVars
  <2> QED
    BY <2>1, <2>2, <2>3
<1> QED
  BY <1>1 DEF Flag, ReadsOn, Total, Header, Phase1

LEMMA FlagStep ==
  ASSUME ThreadAssumption, SizeAssumption, Documented \subseteq Typed, IInv, FlagInv, [Next]_vars
  PROVE  FlagInv'
<1> SUFFICES ASSUME NEW u \in Documented PROVE Flag(u)'
  BY DEF FlagInv
<1>1. TypeOK /\ HasRequest /\ Own(u) /\ Flag(u) /\ u \in Thread /\ u \in Typed
  BY DEF IInv, FlagInv, ThreadAssumption
<1>2. ASSUME NEW t \in Thread, t # u, LibraryCall(t) \/ Library(t) \/ Serve(t) \/ Drop(t)
      PROVE  Flag(u)'
  BY <1>1, <1>2, LibraryCallElsewhere, LibraryElsewhere, WorkerElsewhere, FlagElsewhere
<1>3. LibraryCall(u) => Flag(u)'
  BY <1>1, LibraryCallFlag
<1>4. Library(u) => Flag(u)'
  BY <1>1, LibraryFlag
<1>5. Serve(u) \/ Drop(u) \/ DaemonStops \/ DaemonStarts \/ UNCHANGED vars => Flag(u)'
  BY <1>1, DaemonFlag
<1> QED
  BY <1>2, <1>3, <1>4, <1>5 DEF Next

\* Only receive_stop() takes a documented caller out of a read, and it unlocks at the end.
LEMMA StopUnlocks ==
  ASSUME ThreadAssumption, SizeAssumption, IInv, FlagInv, [Next]_vars, NEW u \in Documented,
         step[u] \in {"got", "gotAll", "gaveUp"}, step'[u] # step[u]
  PROVE  step'[u] = "idle" <=> call'[u].cmd = "UNLOCK"
<1>1. TypeOK /\ HasRequest /\ Own(u) /\ Flag(u) /\ u \in Thread
  BY DEF IInv, FlagInv, ThreadAssumption
<1>2. \A t \in Thread : t # u => ~(LibraryCall(t) \/ Library(t) \/ Serve(t) \/ Drop(t))
  BY <1>1, LibraryCallElsewhere, LibraryElsewhere, WorkerElsewhere DEF Locals
<1>3. ~(Serve(u) \/ Drop(u) \/ DaemonStops \/ DaemonStarts \/ UNCHANGED vars)
  <2>1. Serve(u) => step' = step
    BY DEF Serve, Refuse, ServeInit, ServeWake, ServeWrite, ServeRead, ServeUnlock, Answer, callerVars
  <2>2. Drop(u) \/ DaemonStops \/ DaemonStarts \/ UNCHANGED vars => step' = step
    BY DEF Drop, DaemonStops, DaemonStarts, vars, callerVars
  <2> QED
    BY <2>1, <2>2
<1>4. ~Library(u)
  <2>1. call[u].cmd \notin {"WRITE", "READ", "UNLOCK", "INIT", "WAKE"}
    BY <1>1 DEF Own, Stage
  <2> QED
    BY <1>1, <2>1 DEF Library, Send, CannotConnect, Broken, KilledByPipe, Return, HasRequest, Requests
<1>5. LibraryCall(u)
  BY <1>2, <1>3, <1>4 DEF Next
<1>6. \E n : ReceiveStop(u, n)
  BY <1>5 DEF LibraryCall, I2cInit, I2cWake, SendStart, SendContinue, SendStop, ReceiveStart,
     ReceiveContinue, Overrun, Calls, callerVars
<1> QED
  BY <1>1, <1>6, ReceiveStopRight

\* If the documented callers have set the type of their device, receive_stop() unlocks the
\* bus exactly when no second read follows, for responses of every length.
THEOREM LastStopUnlocksAlways == Documented \subseteq Typed => (Spec => LastStopUnlocks)
<1> SUFFICES ASSUME Documented \subseteq Typed PROVE Spec => LastStopUnlocks
  OBVIOUS
<1>1. Init => FlagInv
  <2> SUFFICES ASSUME Init, NEW t \in Documented PROVE Flag(t)
    BY DEF FlagInv
  <2>1. t \in Thread
    BY ThreadAssumption DEF ThreadAssumption
  <2>2. step[t] = "idle" /\ flag[t] = FALSE /\ call[t].cmd = "none"
    BY <2>1 DEF Init, NoCall
  <2> QED
    BY <2>2 DEF Flag
<1>2. IInv /\ FlagInv /\ [Next]_vars => FlagInv'
  BY FlagStep, ThreadAssumption, SizeAssumption
<1> DEFINE Stops == \A t \in Documented :
          step[t] \in {"got", "gotAll", "gaveUp"} /\ step'[t] # step[t] =>
              (step'[t] = "idle" <=> call'[t].cmd = "UNLOCK")
<1>3. IInv /\ FlagInv /\ [Next]_vars => [Stops]_vars
  <2>1. ASSUME IInv, FlagInv, [Next]_vars PROVE Stops
    BY <2>1, StopUnlocks, ThreadAssumption, SizeAssumption
  <2> QED
    BY <2>1
<1> HIDE DEF Stops
<1>4. Spec => [][Stops]_vars
  BY <1>1, <1>2, <1>3, Inductive, PTL DEF Spec
<1> QED
  BY <1>4 DEF LastStopUnlocks, Stops
===============================================================================
