----------------------------- MODULE DeviceProofs -----------------------------
(***************************************************************************)
(* The theorems of UsbCommandProofs hold of the system of module Device:   *)
(* every step of its threads, of joker_open and of the FPGA is a step of   *)
(* UsbCommand, or leaves its variables alone.  The reset register gets     *)
(* what its callers asked for, and the I2C functions report what was on    *)
(* the bus, with the commands of two threads mixed in the card.            *)
(***************************************************************************)
EXTENDS Device, UsbCommandProofs

DInv == TypeOK /\ UsbInv

USE DeviceAssumption DEF DeviceAssumption

LEMMA SendTypes ==
  ASSUME NEW op \in Ops, NEW val \in Values, NEW n \in Nat
  PROVE  Send(op, val) \in Command /\ Fetch(op, val, n) \in Command
<1> HIDE DEF UsbAssumption, DeviceAssumption
<1> QED BY DEF Send, Fetch, Command

LEMMA BitValues ==
  /\ {} \in Values
  /\ \A c \in SUBSET Chips : c \in Values
  /\ {"rx"} \in Values /\ {"other"} \in Values
  /\ StatusRegister \in Values
  /\ \A op \in {"write", "read"} : Address(op) \in Values
  /\ \A i \in Nat : DataByte(i) \in Values
BY Zenon DEF Values, Bits, Chips, StatusRegister, Address, DataByte

LEMMA DeviceInit == Init => DInv
<1> SUFFICES ASSUME Init PROVE DInv
    OBVIOUS
<1>1. UsbInv
  BY InitInv DEF Init
<1>2. ResetTypeOK
  BY DEF Init, ResetTypeOK, NoReset, Chips, Bits
<1>3. I2cTypeOK
  <2> HIDE DEF Values
  <2>1. {} \in Values
    BY BitValues
  <2> QED BY <2>1 DEF Init, I2cTypeOK, NoI2c
<1>4. OpenTypeOK
  <2>1. opening = <<>> /\ up = FALSE /\ sessions = 0 /\ ops = [k \in Kinds |-> 0]
    BY DEF Init
  <2>2. ops \in [Kinds -> Nat]
    <3> HIDE DEF DeviceAssumption, UsbAssumption
    <3> QED BY <2>1
  <2>3. opening \in Seq(Ops \cup {"return"}) /\ sessions \in Nat
    <3> HIDE DEF DeviceAssumption, UsbAssumption
    <3> QED BY <2>1
  <2>4. up \in BOOLEAN
    BY <2>1, Zenon
  <2> QED BY <2>2, <2>3, <2>4, Zenon DEF OpenTypeOK
<1> QED BY <1>1, <1>2, <1>3, <1>4 DEF DInv, TypeOK, UsbInv

-----------------------------------------------------------------------------
(* Every step is a step of the command channel. *)

LEMMA OpenSteps == TypeOK /\ (OpenBegin \/ OpenStep \/ Down) => [UsbNext]_usbVars
<1> SUFFICES ASSUME TypeOK PROVE OpenBegin \/ OpenStep \/ Down => [UsbNext]_usbVars
    OBVIOUS
<1>1. CASE OpenBegin \/ OpenReset \/ OpenReturn
  BY <1>1 DEF OpenBegin, OpenReset, OpenReturn
<1>2. CASE OpenCleanup
  BY <1>2 DEF OpenCleanup, UsbNext
<1>3. CASE OpenCommand
  <2>1. opening \in Seq(Ops \cup {"return"}) /\ opening # <<>>
        /\ Head(opening) # "return"
    BY <1>3 DEF OpenCommand, TypeOK, OpenTypeOK
  <2>2. Head(opening) \in Ops
    BY <2>1
  <2>3. Send(Head(opening), {}) \in Command
    BY <2>2, SendTypes, BitValues
  <2> QED BY <1>3, <2>3 DEF OpenCommand, UsbNext
<1>4. CASE OpenNext
  BY <1>4 DEF OpenNext, UsbNext
<1>5. CASE Down
  BY <1>5 DEF Down, UsbNext
<1> QED BY <1>1, <1>2, <1>3, <1>4, <1>5 DEF OpenStep

LEMMA ResetSteps ==
  ASSUME TypeOK, NEW t \in Threads, NEW put \in BOOLEAN
  PROVE  ResetBegin(t, put) \/ ResetStep(t) => [UsbNext]_usbVars
<1>1. CASE ResetBegin(t, put) \/ ResetLoad(t) \/ ResetStore(t)
  BY <1>1 DEF ResetBegin, ResetLoad, ResetStore
<1>2. CASE ResetWrite(t)
  <2>1. shadow \in Values
    BY BitValues DEF TypeOK, ResetTypeOK
  <2>2. Send("reset", shadow) \in Command
    BY <2>1, SendTypes DEF Ops
  <2> QED BY <1>2, <2>2 DEF ResetWrite, UsbNext
<1>3. CASE ResetReturn(t)
  BY <1>3 DEF ResetReturn, UsbNext
<1> QED BY <1>1, <1>2, <1>3 DEF ResetStep

LEMMA I2cCommands ==
  ASSUME TypeOK
  PROVE  /\ I2cTxr => \E c \in Command : Call("fe", c)
         /\ I2cCr => \E c \in Command : Call("fe", c)
         /\ I2cPoll => \E c \in Command : Call("fe", c)
         /\ I2cRxr => \E c \in Command : Call("fe", c)
<1> DEFINE txr == IF i2c.i = 0 THEN Address(i2c.op) ELSE DataByte(i2c.i)
           cr == (IF i2c.i = 0 THEN {"start", "write"}
                  ELSE IF i2c.op = "write" THEN {"write"} ELSE {"read"})
                 \cup (IF Last THEN {"stop"} ELSE {})
<1>1. i2c.i \in Nat /\ i2c.op \in {"write", "read"}
  BY DEF TypeOK, I2cTypeOK
<1>2. txr \in Values
  BY <1>1, BitValues
<1>3. cr \in Values
  BY Zenon DEF Values, Bits
<1> HIDE DEF txr, cr
<1>4. /\ Send("txr", txr) \in Command /\ Send("cr", cr) \in Command
      /\ Fetch("sr", {}, 2) \in Command /\ Fetch("rxr", {}, 2) \in Command
  BY <1>2, <1>3, SendTypes, BitValues DEF Ops
<1> USE DEF txr, cr
<1>5. ASSUME I2cTxr PROVE \E c \in Command : Call("fe", c)
  BY <1>4, <1>5, Zenon DEF I2cTxr, I2cCall
<1>6. ASSUME I2cCr PROVE \E c \in Command : Call("fe", c)
  BY <1>4, <1>6, Zenon DEF I2cCr, I2cCall
<1>7. ASSUME I2cPoll PROVE \E c \in Command : Call("fe", c)
  BY <1>4, <1>7, Zenon DEF I2cPoll
<1>8. ASSUME I2cRxr PROVE \E c \in Command : Call("fe", c)
  BY <1>4, <1>8, Zenon DEF I2cRxr, I2cCall
<1> QED BY <1>5, <1>6, <1>7, <1>8

LEMMA CardValue ==
  FpgaExec => \E v \in Values : FpgaTake(v)
<1> DEFINE v == CASE Head(ep2).cmd.op = "sr"  -> StatusRegister
                  [] Head(ep2).cmd.op = "rxr" -> {"rx"}
                  [] OTHER                    -> {"other"}
<1>1. v \in Values
  BY BitValues
<1>2. FpgaExec => FpgaTake(v)
  BY Zenon DEF FpgaExec
<1> HIDE DEF v
<1> QED BY <1>1, <1>2

LEMMA NextIsUsb == TypeOK /\ [Next]_vars => [UsbNext]_usbVars
<1> SUFFICES ASSUME TypeOK, [Next]_vars PROVE [UsbNext]_usbVars
    OBVIOUS
<1>0. "fe" \in Threads /\ "ci" \in Threads
  OBVIOUS
<1>1. CASE OpenBegin \/ OpenStep \/ Down
  BY <1>1, OpenSteps
<1>2. ASSUME NEW t \in Threads, NEW put \in BOOLEAN, ResetBegin(t, put) \/ ResetStep(t)
      PROVE  [UsbNext]_usbVars
  BY <1>2, ResetSteps
<1>3. ASSUME NEW t \in Threads, IoStep(t) PROVE [UsbNext]_usbVars
  BY <1>3 DEF UsbNext
<1>4. CASE CiCommand
  <2>1. Fetch("ci", {}, 2) \in Command /\ Fetch("ci", {}, 5) \in Command
    BY SendTypes, BitValues DEF Ops
  <2>2. \E c \in Command : Call("ci", c)
    BY <1>4, <2>1 DEF CiCommand
  <2> QED BY <1>0, <2>2 DEF UsbNext
<1>5. CASE CiDone
  BY <1>0, <1>5 DEF CiDone, UsbNext
<1>6. CASE \E op \in {"write", "read"}, size \in 0 .. MaxSize : I2cBegin(op, size)
  BY <1>6 DEF I2cBegin
<1>7. CASE I2cTxr \/ I2cCr \/ I2cPoll \/ I2cRxr
  BY <1>0, <1>7, I2cCommands DEF UsbNext
<1>8. CASE I2cWrote \/ I2cPolled \/ I2cRead
  BY <1>0, <1>8 DEF I2cWrote, I2cPolled, I2cRead, UsbNext
<1>9. CASE I2cPollEnds \/ I2cCheck \/ I2cReturn
  BY <1>9 DEF I2cPollEnds, I2cCheck, I2cReturn
<1>10. CASE FpgaExec
  BY <1>10, CardValue DEF UsbNext
<1>11. CASE I2cByteDone
  BY <1>11 DEF I2cByteDone
<1>12. CASE UNCHANGED vars
  BY <1>12 DEF vars
<1>13. CASE \E t \in Threads : \/ IoStep(t) \/ ResetStep(t)
                               \/ \E put \in BOOLEAN : ResetBegin(t, put)
  BY <1>13, <1>2, <1>3
<1> QED
  BY <1>1, <1>4, <1>5, <1>6, <1>7, <1>8, <1>9, <1>10, <1>11, <1>12, <1>13, Zenon
  DEF Next, FeStep

-----------------------------------------------------------------------------
(* Every step keeps the types of the variables of the clients. *)

LEMMA ResetTypes == TypeOK /\ [Next]_vars => ResetTypeOK'
<1> SUFFICES ASSUME TypeOK, [Next]_vars PROVE ResetTypeOK'
    OBVIOUS
<1> USE DEF TypeOK, ResetTypeOK
<1> HIDE DEF UsbAssumption
<1>0. \A t \in Threads : ChipOf[t] \subseteq Chips
  BY DEF ChipOf, Chips
<1>1. CASE OpenReset
  BY <1>1 DEF OpenReset
<1>2. CASE Down
  BY <1>2 DEF Down, NoReset
<1>3. ASSUME NEW t \in Threads, NEW put \in BOOLEAN, ResetBegin(t, put)
      PROVE  ResetTypeOK'
  <2>1. intended' \subseteq Chips
    BY <1>0, <1>3 DEF ResetBegin
  <2>2. torn' \in BOOLEAN
    BY <1>3 DEF ResetBegin
  <2>3. rst' \in [Threads -> [pc : {"idle", "load", "store", "write", "wait"},
                              put : BOOLEAN, mask : SUBSET Chips, tmp : SUBSET Chips]]
    BY <1>0, <1>3 DEF ResetBegin
  <2> QED BY <1>3, <2>1, <2>2, <2>3 DEF ResetBegin
<1>4. ASSUME NEW t \in Threads, ResetStep(t) PROVE ResetTypeOK'
  <2>1. CASE ResetLoad(t)
    BY <2>1 DEF ResetLoad
  <2>2. CASE ResetStore(t)
    BY <2>2 DEF ResetStore
  <2>3. CASE ResetWrite(t)
    BY <2>3 DEF ResetWrite
  <2>4. CASE ResetReturn(t)
    BY <2>4 DEF ResetReturn, NoReset, Consume, UsbTypeOK
  <2> QED BY <1>4, <2>1, <2>2, <2>3, <2>4 DEF ResetStep
<1>5. CASE FpgaExec
  <2> DEFINE S == [cmd : Command, n : Nat]
  <2>0. ep2 \in Seq(S) /\ ep2 # <<>>
    BY <1>5, Zenon DEF FpgaExec, UsbTypeOK
  <2>1. Head(ep2) \in S
    <3> HIDE DEF S
    <3> QED BY <2>0
  <2>2. Head(ep2).cmd.val \subseteq Bits
    BY <2>1 DEF Command, Values
  <2>3. hw' \subseteq Bits
    BY <1>5, <2>2 DEF FpgaExec
  <2> QED BY <1>5, <2>3 DEF FpgaExec
<1>6. CASE UNCHANGED resetVars
  BY <1>6 DEF resetVars
<1>7. OpenBegin \/ OpenCleanup \/ OpenCommand \/ OpenNext \/ OpenReturn => UNCHANGED resetVars
  BY DEF OpenBegin, OpenCleanup, OpenCommand, OpenNext, OpenReturn
<1>8. CiCommand \/ CiDone \/ I2cByteDone => UNCHANGED resetVars
  BY DEF CiCommand, CiDone, I2cByteDone
<1>9. /\ FeStep => UNCHANGED resetVars
      /\ \A op, size : I2cBegin(op, size) => UNCHANGED resetVars
  BY Zenon DEF FeStep, I2cBegin, I2cTxr, I2cCr, I2cWrote, I2cPoll, I2cPollEnds, I2cPolled,
     I2cCheck, I2cRxr, I2cRead, I2cReturn, I2cCall
<1>10. UNCHANGED vars \/ UNCHANGED ClientVars => UNCHANGED resetVars
  BY DEF vars, ClientVars
<1> QED
  BY <1>1, <1>2, <1>3, <1>4, <1>5, <1>6, <1>7, <1>8, <1>9, <1>10, Zenon
  DEF Next, OpenStep

LEMMA OpenTypes == TypeOK /\ [Next]_vars => OpenTypeOK'
<1> SUFFICES ASSUME TypeOK, [Next]_vars PROVE OpenTypeOK'
    OBVIOUS
<1> USE DEF TypeOK, OpenTypeOK
<1> HIDE DEF UsbAssumption
<1>1. CASE OpenBegin
  <2>1. OpenCommands \in Seq(Ops \cup {"return"})
    BY DEF OpenCommands, Ops
  <2> QED BY <1>1, <2>1 DEF OpenBegin
<1>2. CASE OpenNext
  <2>1. opening # <<>> => Tail(opening) \in Seq(Ops \cup {"return"})
    OBVIOUS
  <2>2. opening' \in Seq(Ops \cup {"return"})
    BY <1>2, <2>1 DEF OpenNext
  <2> QED BY <1>2, <2>2 DEF OpenNext
<1>3. CASE OpenReset \/ OpenReturn \/ Down
  <2>1. <<>> \in Seq(Ops \cup {"return"}) /\ <<"return">> \in Seq(Ops \cup {"return"})
    OBVIOUS
  <2>2. opening' \in {<<>>, <<"return">>} /\ up' \in BOOLEAN /\ UNCHANGED <<sessions, ops>>
    BY <1>3 DEF OpenReset, OpenReturn, Down
  <2> QED BY <2>1, <2>2
<1>4. ASSUME NEW t \in Threads, NEW put \in BOOLEAN, ResetBegin(t, put)
      PROVE  OpenTypeOK'
  BY <1>4 DEF ResetBegin, openVars, Kinds
<1>5. CASE CiCommand
  BY <1>5 DEF CiCommand, openVars, Kinds
<1>6. ASSUME NEW op, NEW size, I2cBegin(op, size) PROVE OpenTypeOK'
  <2>1. ops' = [ops EXCEPT !["i2c"] = @ + 1] /\ UNCHANGED openVars
    BY <1>6, Zenon DEF I2cBegin
  <2> QED BY <2>1 DEF openVars, Kinds
<1>7. CASE UNCHANGED <<openVars, ops>>
  BY <1>7 DEF openVars
<1>8. OpenCleanup \/ OpenCommand \/ CiDone \/ FpgaExec \/ I2cByteDone
      => UNCHANGED <<openVars, ops>>
  BY Zenon DEF OpenCleanup, OpenCommand, CiDone, FpgaExec, I2cByteDone
<1>9. /\ FeStep => UNCHANGED <<openVars, ops>>
      /\ \A t \in Threads : ResetStep(t) => UNCHANGED <<openVars, ops>>
  BY Zenon DEF FeStep, I2cTxr, I2cCr, I2cWrote, I2cPoll, I2cPollEnds, I2cPolled,
     I2cCheck, I2cRxr, I2cRead, I2cReturn, I2cCall, ResetStep, ResetLoad, ResetStore,
     ResetWrite, ResetReturn
<1>10. UNCHANGED vars \/ UNCHANGED ClientVars => UNCHANGED <<openVars, ops>>
  BY DEF vars, ClientVars
<1> QED
  BY <1>1, <1>2, <1>3, <1>4, <1>5, <1>6, <1>7, <1>8, <1>9, <1>10, Zenon
  DEF Next, OpenStep

LEMMA I2cTypes == TypeOK /\ [Next]_vars => I2cTypeOK'
<1> SUFFICES ASSUME TypeOK, [Next]_vars PROVE I2cTypeOK'
    OBVIOUS
<1> USE DEF TypeOK, I2cTypeOK
<1> HIDE DEF UsbAssumption, Values
<1> DEFINE Pcs == {"idle", "txr", "txr_wait", "cr", "cr_wait", "poll", "poll_wait",
                   "check", "rxr", "rxr_wait", "return"}
<1>1. i2c' = NoI2c => I2cTypeOK'
  BY BitValues DEF NoI2c
<1>2. CASE Down \/ I2cReturn
  BY <1>1, <1>2, Zenon DEF Down, I2cReturn
<1>3. ASSUME NEW op \in {"write", "read"}, NEW size \in 0 .. MaxSize, I2cBegin(op, size)
      PROVE  I2cTypeOK'
  <2>1. PICK sure \in BOOLEAN : i2c' = [NoI2c EXCEPT !.pc = "txr", !.op = op,
                                         !.size = size, !.sure = sure]
    BY <1>3, Zenon DEF I2cBegin
  <2>2. i2c' = [pc |-> "txr", op |-> op, size |-> size, i |-> 0, cnt |-> 0, buf |-> {},
                set |-> FALSE, res |-> "none", sure |-> sure]
    BY <2>1 DEF NoI2c
  <2>3. {} \in Values
    BY BitValues
  <2> QED BY <2>2, <2>3
<1>4. ASSUME NEW pc, NEW c, NEW next \in Pcs, I2cCall(pc, c, next) PROVE I2cTypeOK'
  BY <1>4 DEF I2cCall
<1>5. CASE I2cTxr \/ I2cCr \/ I2cRxr
  BY <1>4, <1>5, Zenon DEF I2cTxr, I2cCr, I2cRxr
<1>a. ASSUME NEW next \in Pcs, i2c' = [i2c EXCEPT !.pc = next] PROVE I2cTypeOK'
  BY <1>a
<1>b. ASSUME NEW next \in Pcs, NEW k \in Int, i2c' = [i2c EXCEPT !.pc = next, !.cnt = k]
      PROVE  I2cTypeOK'
  BY <1>b
<1>6. CASE I2cWrote \/ I2cPoll \/ I2cPollEnds
  <2>1. PollBudget \in Int /\ i2c.cnt - 1 \in Int
    OBVIOUS
  <2> QED BY <1>a, <1>b, <1>6, <2>1, Zenon DEF I2cWrote, I2cPoll, I2cPollEnds
<1>7. CASE I2cPolled
  <2>1. ret["fe"] \in [ok : BOOLEAN, n : Nat, reply : Reply \cup {NoReply}]
    BY DEF UsbTypeOK
  <2>2. ret["fe"].reply.val \in Values
    BY <2>1, BitValues DEF Reply, NoReply
  <2>3. \A b \in SUBSET {"tip", "nack", "al"} : b \in Values
    BY Zenon DEF Values, Bits
  <2>4. i2c.buf \in Values
    OBVIOUS
  <2>5. PICK b \in Values :
          i2c' = [i2c EXCEPT !.buf = b, !.set = TRUE,
                    !.pc  = IF "tip" \in b THEN "poll" ELSE "check",
                    !.cnt = IF "tip" \in b THEN @ - 1 ELSE @]
    <3> DEFINE Set(b) == i2c' = [i2c EXCEPT !.buf = b, !.set = TRUE,
                           !.pc  = IF "tip" \in b THEN "poll" ELSE "check",
                           !.cnt = IF "tip" \in b THEN @ - 1 ELSE @]
    <3>1. CASE ret["fe"].ok
      <4>1. Set(ret["fe"].reply.val)
        BY <1>7, <3>1, Zenon DEF I2cPolled
      <4> QED BY <2>2, <4>1, Zenon
    <3>2. CASE ~ret["fe"].ok /\ i2c.set
      <4>1. Set(i2c.buf)
        BY <1>7, <3>2, Zenon DEF I2cPolled
      <4> QED BY <2>4, <4>1, Zenon
    <3>3. CASE ~ret["fe"].ok /\ ~i2c.set
      <4>1. \E b \in SUBSET {"tip", "nack", "al"} : Set(b)
        BY <1>7, <3>3, Zenon DEF I2cPolled
      <4> QED BY <2>3, <4>1, Zenon
    <3> QED BY <3>1, <3>2, <3>3
  <2>6. PICK next \in Pcs, k \in Int :
          i2c' = [i2c EXCEPT !.buf = b, !.set = TRUE, !.pc = next, !.cnt = k]
    <3>1. i2c.cnt \in Int /\ i2c.cnt - 1 \in Int
      OBVIOUS
    <3>2. CASE "tip" \in b
      BY <2>5, <3>1, <3>2
    <3>3. CASE "tip" \notin b
      BY <2>5, <3>1, <3>3
    <3> QED BY <3>2, <3>3
  <2> QED BY <2>6
<1>8. CASE I2cCheck \/ I2cRead
  <2>1. ASSUME NEW r \in {"ok", "nodev", "eio"}, I2cResult(r) PROVE I2cTypeOK'
    BY <2>1 DEF I2cResult
  <2>2. ASSUME NEW next \in Pcs, ~Last, i2c' = [i2c EXCEPT !.i = @ + 1, !.pc = next]
        PROVE  I2cTypeOK'
    <3>1. i2c.i + 1 \in 0 .. MaxSize /\ i2c.i + 1 <= i2c.size
      BY <2>2 DEF Last
    <3> QED BY <2>2, <3>1
  <2>3. I2cAdvance => I2cTypeOK'
    BY <2>1, <2>2, Zenon DEF I2cAdvance
  <2> QED BY <1>8, <1>a, <2>1, <2>3, Zenon DEF I2cCheck, I2cRead
<1>9. CASE UNCHANGED i2c
  BY <1>9
<1>10. OpenBegin \/ OpenStep \/ CiCommand \/ CiDone \/ FpgaExec \/ I2cByteDone
       => UNCHANGED i2c
  BY Zenon DEF OpenBegin, OpenStep, OpenCleanup, OpenCommand, OpenNext, OpenReset,
     OpenReturn, CiCommand, CiDone, FpgaExec, I2cByteDone, i2cVars
<1>11. /\ \A t \in Threads : ResetStep(t) => UNCHANGED i2c
       /\ \A t \in Threads, put \in BOOLEAN : ResetBegin(t, put) => UNCHANGED i2c
  BY Zenon DEF ResetBegin, ResetStep, ResetLoad, ResetStore, ResetWrite, ResetReturn,
     i2cVars
<1>12. UNCHANGED vars \/ UNCHANGED ClientVars => UNCHANGED i2c
  BY DEF vars, ClientVars, i2cVars
<1> QED
  BY <1>2, <1>3, <1>5, <1>6, <1>7, <1>8, <1>9, <1>10, <1>11, <1>12, Zenon
  DEF Next, FeStep

-----------------------------------------------------------------------------

LEMMA DeviceStep == DInv /\ [Next]_vars => DInv'
<1> SUFFICES ASSUME DInv, [Next]_vars PROVE DInv'
    OBVIOUS
<1>1. UsbInv'
  BY NextIsUsb, StepInv DEF DInv
<1>2. ResetTypeOK' /\ OpenTypeOK' /\ I2cTypeOK'
  BY ResetTypes, OpenTypes, I2cTypes DEF DInv
<1> QED BY <1>1, <1>2 DEF DInv, TypeOK, UsbInv

THEOREM DeviceInvariant == Spec => []DInv
BY DeviceInit, DeviceStep, PTL DEF Spec

\* The types, the ownership of io_mux and the order of the replies, for any
\* number of failing transfers, commands, sessions and polls.
THEOREM IInvHolds == Spec => []IInv
<1>1. DInv => IInv
  BY DEF DInv, IInv, UsbInv
<1> QED BY <1>1, DeviceInvariant, PTL

\* How old the reply that joker_io hands out can be, in the whole system.
THEOREM SkewHolds == Spec => []SkewBounded
<1>1. DInv => SkewBounded
  BY DEF DInv, UsbInv
<1> QED BY <1>1, DeviceInvariant, PTL

\* The command channel keeps its promise whatever its clients do.
THEOREM DeviceImplements == Spec => ImplementsChannel
<1>1. Init => UsbInit
  BY DEF Init
<1>2. DInv /\ [Next]_vars => [UsbNext]_usbVars
  BY NextIsUsb DEF DInv
<1>3. Spec => UsbSpec
  BY <1>1, <1>2, DeviceInvariant, PTL DEF Spec, UsbSpec
<1> QED BY <1>3, UsbImplements, PTL

-----------------------------------------------------------------------------
(***************************************************************************)
(* The reset register: a call of joker_reset or joker_unreset changes the  *)
(* copy, sends all of it, and is alone while it does, unless torn.         *)
(***************************************************************************)

IsReset(j) == ep2[j].cmd.op = "reset"

\* The card, when done with its commands, has what was asked for in the register.
Reaches ==
  \/ hw = intended /\ \A j \in DOMAIN ep2 : ~IsReset(j)
  \/ \E j \in DOMAIN ep2 : /\ IsReset(j) /\ ep2[j].cmd.val = intended
                           /\ \A k \in DOMAIN ep2 : IsReset(k) => k <= j

\* What the call of t makes of s.
Changed(t, s) == IF rst[t].put THEN s \cup rst[t].mask ELSE s \ rst[t].mask

\* Before joker_open has returned there is no other client of the channel.
OpenInv ==
  /\ up => opening = <<>>
  /\ \A k \in DOMAIN opening : opening[k] = "return" => opening = <<"return">>
  /\ ~up => /\ i2c.pc = "idle" /\ rst["ci"].pc = "idle"
            /\ opening # <<"return">> => rst["fe"].pc = "idle"

\* A write of the reset register is the command of the thread that waits for it.
HandInv ==
  /\ InReset("fe") => i2c.pc = "idle"
  /\ \A t \in Threads :
       /\ cmd[t].op = "reset" => rst[t].pc = "wait"
       /\ rst[t].pc = "wait" => /\ ioPc[t] \in {"lock", "done"}
                                /\ cmd[t].op = "reset" /\ cmd[t].len = 0

\* How far the one call in progress has come.
StageInv(t) ==
  /\ rst[t].pc = "load" => intended = Changed(t, shadow)
  /\ rst[t].pc = "store" => intended = Changed(t, rst[t].tmp)
  /\ rst[t].pc \in {"write", "wait"} => shadow = intended
  /\ rst[t].pc = "wait" => /\ ioPc[t] = "lock" => cmd[t].val = intended
                           /\ ioPc[t] = "done" /\ ret[t].ok => Reaches

AskedInv ==
  ~torn =>
    /\ \A t, u \in Threads : InReset(t) /\ InReset(u) => t = u
    /\ \A t \in Threads : StageInv(t)
    /\ (up \/ opening = <<"return">>) /\ (\A t \in Threads : ~InReset(t)) =>
         shadow = intended /\ (lastWrite => Reaches)

ResetInv == OpenInv /\ HandInv /\ AskedInv

Sent == [cmd : Command, n : Nat]

\* The register keeps its final value when another command is sent, ...
LEMMA SentOther ==
  ASSUME NEW e \in Sent, e.cmd.op # "reset", ep2 \in Seq(Sent),
         ep2' = Append(ep2, e), hw' = hw, intended' = intended, Reaches
  PROVE  Reaches'
<1> HIDE DEF Sent
<1>1. /\ DOMAIN ep2' = DOMAIN ep2 \cup {Len(ep2) + 1} /\ ep2'[Len(ep2) + 1] = e
      /\ \A j \in DOMAIN ep2 : ep2'[j] = ep2[j]
  BY Appended
<1> QED BY <1>1 DEF Reaches, IsReset

\* ... has the value that was asked for when that is sent, ...
LEMMA SentReset ==
  ASSUME NEW e \in Sent, e.cmd.op = "reset", e.cmd.val = intended, ep2 \in Seq(Sent),
         ep2' = Append(ep2, e), intended' = intended
  PROVE  Reaches'
<1> HIDE DEF Sent
<1>1. /\ DOMAIN ep2' = DOMAIN ep2 \cup {Len(ep2) + 1} /\ ep2'[Len(ep2) + 1] = e
      /\ DOMAIN ep2 = 1 .. Len(ep2) /\ Len(ep2) \in Nat
  BY Appended
<1>2. \A k \in DOMAIN ep2' : k <= Len(ep2) + 1
  BY <1>1
<1> QED BY <1>1, <1>2 DEF Reaches, IsReset

\* ... and keeps it when the card carries out a command.
LEMMA CardTakes ==
  ASSUME ep2 \in Seq(Sent), ep2 # <<>>, ep2' = Tail(ep2),
         hw' = IF Head(ep2).cmd.op = "reset" THEN Head(ep2).cmd.val ELSE hw,
         intended' = intended, Reaches
  PROVE  Reaches'
<1> HIDE DEF Sent
<1>1. /\ Head(ep2) = ep2[1] /\ 1 \in DOMAIN ep2
      /\ DOMAIN ep2 \subseteq Nat /\ DOMAIN ep2' \subseteq Nat
      /\ \A i \in DOMAIN ep2 : i >= 1
      /\ \A i \in DOMAIN ep2' : i + 1 \in DOMAIN ep2 /\ ep2'[i] = ep2[i + 1] /\ i + 1 > 1
      /\ \A i \in DOMAIN ep2 : i = 1 \/ (i - 1 \in DOMAIN ep2' /\ ep2'[i - 1] = ep2[i])
  BY Shortened
<1>2. CASE hw = intended /\ \A j \in DOMAIN ep2 : ~IsReset(j)
  <2>1. hw' = intended' /\ \A j \in DOMAIN ep2' : ep2'[j].cmd.op # "reset"
    BY <1>1, <1>2 DEF IsReset
  <2> QED BY <2>1 DEF Reaches, IsReset
<1>3. ASSUME NEW j \in DOMAIN ep2, IsReset(j), ep2[j].cmd.val = intended,
             \A k \in DOMAIN ep2 : IsReset(k) => k <= j
      PROVE  Reaches'
  <2>1. CASE j = 1
    <3>1. hw' = intended'
      BY <1>1, <1>3, <2>1 DEF IsReset
    <3>2. ASSUME NEW k \in DOMAIN ep2' PROVE ep2'[k].cmd.op # "reset"
      <4>1. k + 1 \in DOMAIN ep2 /\ ep2'[k] = ep2[k + 1] /\ k + 1 > 1 /\ k \in Nat
        BY <1>1
      <4> QED BY <1>3, <2>1, <4>1 DEF IsReset
    <3> QED BY <3>1, <3>2 DEF Reaches, IsReset
  <2>2. CASE j # 1
    <3>1. j \in Nat /\ j - 1 \in DOMAIN ep2' /\ ep2'[j - 1] = ep2[j]
      BY <1>1, <2>2
    <3>2. ASSUME NEW k \in DOMAIN ep2', ep2'[k].cmd.op = "reset" PROVE k <= j - 1
      <4>1. k + 1 \in DOMAIN ep2 /\ ep2'[k] = ep2[k + 1] /\ k \in Nat
        BY <1>1
      <4>2. k + 1 <= j
        BY <1>3, <3>2, <4>1 DEF IsReset
      <4> QED BY <3>1, <4>1, <4>2
    <3> QED BY <1>3, <3>1, <3>2 DEF Reaches, IsReset
  <2> QED BY <2>1, <2>2
<1> QED BY <1>2, <1>3 DEF Reaches

\* HwFinal chooses the last write among the commands the card has.
LEMMA FinalIsAsked ==
  ASSUME ep2 \in Seq(Sent), Reaches
  PROVE  HwFinal = intended
<1> DEFINE js == {j \in DOMAIN ep2 : ep2[j].cmd.op = "reset"}
<1>1. CASE hw = intended /\ \A j \in DOMAIN ep2 : ~IsReset(j)
  <2>1. js = {}
    BY <1>1 DEF IsReset
  <2> QED BY <1>1, <2>1 DEF HwFinal
<1>2. ASSUME NEW j \in DOMAIN ep2, IsReset(j), ep2[j].cmd.val = intended,
             \A k \in DOMAIN ep2 : IsReset(k) => k <= j
      PROVE  HwFinal = intended
  <2>1. j \in js /\ \A k \in js : k <= j
    BY <1>2 DEF IsReset
  <2>2. js \subseteq Nat
    <3> HIDE DEF Sent
    <3>1. DOMAIN ep2 = 1 .. Len(ep2) /\ Len(ep2) \in Nat
      BY LenProperties
    <3> QED BY <3>1
  <2> DEFINE last == CHOOSE i \in js : \A k \in js : k <= i
  <2>3. HwFinal = IF js = {} THEN hw ELSE ep2[last].cmd.val
    BY DEF HwFinal
  <2> HIDE DEF js
  <2>4. last \in js /\ \A k \in js : k <= last
    BY <2>1
  <2> HIDE DEF last
  <2>5. last = j
    BY <2>1, <2>2, <2>4
  <2> QED BY <1>2, <2>1, <2>3, <2>5
<1> QED BY <1>1, <1>2 DEF Reaches

-----------------------------------------------------------------------------
(* The steps *)

LEMMA OpenKept ==
  ASSUME TypeOK, OpenInv, [Next]_vars
  PROVE  OpenInv'
<1> USE DEF OpenInv
<1> HIDE DEF UsbAssumption
<1>1. CASE OpenBegin
  <2>1. /\ opening' = OpenCommands /\ ~up /\ up' = up /\ opening = <<>>
        /\ UNCHANGED <<rst, i2c>>
    BY <1>1 DEF OpenBegin, resetVars, i2cVars
  <2>2. \A k \in DOMAIN OpenCommands : OpenCommands[k] # "return"
    BY DEF OpenCommands
  <2>3. rst["fe"].pc = "idle" /\ rst["ci"].pc = "idle" /\ i2c.pc = "idle"
    BY <2>1
  <2> QED BY <2>1, <2>2, <2>3
<1>2. CASE OpenNext
  <2>1. /\ opening # <<>> /\ Head(opening) # "return" /\ ~up /\ up' = up
        /\ opening' \in {Tail(opening), <<>>} /\ UNCHANGED <<rst, i2c>>
    BY <1>2 DEF OpenNext, resetVars, i2cVars
  <2>2. opening \in Seq(Ops \cup {"return"})
    BY DEF TypeOK, OpenTypeOK
  <2>3. opening # <<"return">>
    BY <2>1
  <2>4. \A k \in DOMAIN opening' : opening'[k] # "return"
    <3>1. \A k \in DOMAIN Tail(opening) : Tail(opening)[k] # "return"
      <4> HIDE DEF Ops
      <4> QED BY <2>1, <2>2, <2>3, Shortened
    <3> QED BY <2>1, <3>1
  <2> QED BY <2>1, <2>3, <2>4
<1>3. CASE OpenReset
  <2>1. /\ opening = <<"reset">> /\ opening' = <<"return">> /\ up' = up /\ i2c' = i2c
        /\ rst' = [rst EXCEPT !["fe"] = [pc |-> "load", put |-> TRUE, mask |-> Chips,
                                         tmp |-> {}]]
    BY <1>3 DEF OpenReset, i2cVars
  <2>2. rst'["ci"] = rst["ci"]
    BY <2>1 DEF TypeOK, ResetTypeOK
  <2>3. ~up
    BY <2>1
  <2> QED BY <2>1, <2>2, <2>3
<1>4. CASE OpenReturn
  BY <1>4 DEF OpenReturn
<1>5. CASE Down
  BY <1>5 DEF Down, NoReset, NoI2c
<1>6. ASSUME NEW t \in Threads, NEW put \in BOOLEAN, ResetBegin(t, put)
      PROVE  OpenInv'
  BY <1>6 DEF ResetBegin, MayCall, Free, openVars
<1>7. ASSUME NEW t \in Threads, ResetStep(t) PROVE OpenInv'
  <2>1. /\ rst[t].pc # "idle" /\ UNCHANGED <<opening, up, i2c>>
        /\ \A u \in Threads : u # t => rst'[u] = rst[u]
    BY <1>7 DEF ResetStep, ResetLoad, ResetStore, ResetWrite, ResetReturn, openVars,
                i2cVars, TypeOK, ResetTypeOK
  <2>2. CASE up
    BY <2>1, <2>2
  <2>3. CASE ~up
    <3>1. t = "fe" /\ opening = <<"return">>
      BY <2>1, <2>3
    <3> QED BY <2>1, <2>3, <3>1
  <2> QED BY <2>2, <2>3
<1>8. ASSUME NEW op, NEW size, I2cBegin(op, size) PROVE OpenInv'
  <2>1. up /\ UNCHANGED <<up, opening>>
    BY <1>8, Zenon DEF I2cBegin, MayCall, Free, openVars
  <2> QED BY <2>1
<1>9. CASE FeStep
  <2>1. i2c.pc # "idle" /\ UNCHANGED <<up, opening>>
    BY <1>9 DEF FeStep, I2cTxr, I2cCr, I2cWrote, I2cPoll, I2cPollEnds, I2cPolled,
       I2cCheck, I2cRxr, I2cRead, I2cReturn, I2cCall, openVars
  <2> QED BY <2>1
<1>10. CASE UNCHANGED <<up, opening, rst, i2c>>
  BY <1>10
<1>11. OpenCleanup \/ OpenCommand \/ CiCommand \/ CiDone \/ FpgaExec \/ I2cByteDone
       => UNCHANGED <<up, opening, rst, i2c>>
  BY Zenon DEF OpenCleanup, OpenCommand, CiCommand, CiDone, FpgaExec, I2cByteDone,
     resetVars, i2cVars, openVars
<1>12. UNCHANGED vars \/ UNCHANGED ClientVars => UNCHANGED <<up, opening, rst, i2c>>
  BY DEF vars, ClientVars, resetVars, i2cVars, openVars
<1> QED
  BY <1>1, <1>2, <1>3, <1>4, <1>5, <1>6, <1>7, <1>8, <1>9, <1>10, <1>11, <1>12, Zenon
  DEF Next, OpenStep

\* Most steps are none of a call of joker_reset or joker_unreset.
LEMMA Quiet ==
  ASSUME ResetInv, OpenInv', UNCHANGED <<shadow, intended, rst, torn, lastWrite>>,
         Reaches => Reaches',
         up' \/ opening' = <<"return">> => up \/ opening = <<"return">>,
         i2c'.pc = i2c.pc \/ i2c.pc # "idle" \/ ~InReset("fe"),
         \A t \in Threads :
           \/ ioPc'[t] = ioPc[t] /\ cmd'[t] = cmd[t] /\ ret'[t] = ret[t]
           \/ rst[t].pc # "wait" /\ cmd'[t].op # "reset"
  PROVE  ResetInv'
<1>1. HandInv'
  BY DEF ResetInv, HandInv, InReset
<1>2. AskedInv'
  <2> SUFFICES ASSUME ~torn PROVE AskedInv'
    BY DEF AskedInv
  <2>1. \A t \in Threads : StageInv(t)'
    BY DEF ResetInv, AskedInv, StageInv, Changed
  <2> QED BY <2>1 DEF ResetInv, AskedInv, InReset
<1> QED BY <1>1, <1>2 DEF ResetInv

\* What the two steps around an exchange do to the thread and to the others.
LEMMA CallEffect ==
  ASSUME TypeOK, NEW t \in Threads, NEW c, Call(t, c)
  PROVE  /\ cmd'[t] = c /\ ioPc'[t] = "lock" /\ UNCHANGED <<ret, ep2>>
         /\ \A u \in Threads : u # t => cmd'[u] = cmd[u] /\ ioPc'[u] = ioPc[u]
<1> HIDE DEF UsbAssumption, DeviceAssumption
<1> QED BY DEF Call, TypeOK, UsbTypeOK

LEMMA ConsumeEffect ==
  ASSUME TypeOK, NEW t \in Threads, Consume(t)
  PROVE  /\ cmd'[t] = NoCmd /\ UNCHANGED ep2 /\ ioPc[t] = "done" /\ ioPc'[t] = "idle"
         /\ \A u \in Threads : u # t => /\ cmd'[u] = cmd[u] /\ ioPc'[u] = ioPc[u]
                                        /\ ret'[u] = ret[u]
<1> HIDE DEF UsbAssumption, DeviceAssumption
<1> QED BY DEF Consume, TypeOK, UsbTypeOK

LEMMA IoEffect ==
  ASSUME TypeOK, NEW t \in Threads, IoStep(t)
  PROVE  /\ ioPc[t] \in {"lock", "in"} /\ ioPc'[t] \in {"in", "done"} /\ UNCHANGED cmd
         /\ \A u \in Threads : u # t => ioPc'[u] = ioPc[u] /\ ret'[u] = ret[u]
         /\ \/ ep2' = ep2 /\ (ioPc[t] = "lock" => ioPc'[t] = "done" /\ ~ret'[t].ok)
            \/ \E e \in Sent : ep2' = Append(ep2, e) /\ e.cmd = cmd[t]
         /\ ioPc[t] = "lock" /\ cmd[t].len = 0 => ioPc'[t] = "done"
<1> HIDE DEF UsbAssumption, DeviceAssumption
<1> USE DEF TypeOK, UsbTypeOK, IoReturn
<1>1. ASSUME Deliver(t) PROVE \E e \in Sent : ep2' = Append(ep2, e) /\ e.cmd = cmd[t]
  <2> DEFINE e == [cmd |-> cmd[t], n |-> IF WantsReply(t) THEN asked + 1 ELSE 0]
  <2>1. cmd[t] \in Command
    OBVIOUS
  <2>2. e \in Sent
    BY <2>1 DEF Sent
  <2>3. ep2' = Append(ep2, e) /\ e.cmd = cmd[t]
    BY <1>1 DEF Deliver
  <2> QED BY <2>2, <2>3
<1>2. CASE IoOut(t)
  BY <1>1, <1>2 DEF IoOut, WantsReply
<1>3. CASE IoOutFails(t)
  BY <1>1, <1>3 DEF IoOutFails
<1>4. CASE IoIn(t)
  BY <1>4 DEF IoIn
<1>5. CASE IoInFails(t)
  BY <1>5 DEF IoInFails
<1> QED BY <1>2, <1>3, <1>4, <1>5 DEF IoStep

LEMMA IoKept ==
  ASSUME TypeOK, ResetInv, OpenInv', NEW t \in Threads, IoStep(t), UNCHANGED ClientVars
  PROVE  ResetInv'
<1> HIDE DEF UsbAssumption, DeviceAssumption
<1>1. UNCHANGED <<shadow, hw, intended, rst, torn, lastWrite, up, opening, i2c>>
  BY DEF ClientVars, resetVars, i2cVars, openVars
<1>2. ep2 \in Seq(Sent)
  BY DEF TypeOK, UsbTypeOK, Sent
<1>3. ASSUME rst[t].pc # "wait" PROVE ResetInv'
  <2>1. cmd[t].op # "reset" /\ cmd' = cmd
    BY <1>3, IoEffect DEF ResetInv, HandInv
  <2>2. Reaches => Reaches'
    <3>1. CASE ep2' = ep2
      BY <1>1, <3>1 DEF Reaches, IsReset
    <3>2. ASSUME NEW e \in Sent, ep2' = Append(ep2, e), e.cmd = cmd[t]
          PROVE  Reaches => Reaches'
      BY <1>1, <1>2, <2>1, <3>2, SentOther
    <3> QED BY <3>1, <3>2, IoEffect
  <2> QED BY <1>1, <1>3, <2>1, <2>2, IoEffect, Quiet
<1>4. ASSUME rst[t].pc = "wait" PROVE ResetInv'
  <2>1. ioPc[t] = "lock" /\ cmd[t].op = "reset" /\ cmd[t].len = 0 /\ cmd' = cmd
    BY <1>4, IoEffect DEF ResetInv, HandInv
  <2>2. /\ ioPc'[t] = "done"
        /\ \A u \in Threads : u # t => ioPc'[u] = ioPc[u] /\ ret'[u] = ret[u]
    BY <2>1, IoEffect
  <2>3. HandInv'
    BY <1>1, <2>1, <2>2 DEF ResetInv, HandInv, InReset
  <2>4. ASSUME ~torn, ret'[t].ok PROVE Reaches'
    <3>1. intended = cmd[t].val
      BY <1>4, <2>1, <2>4 DEF ResetInv, AskedInv, StageInv
    <3>2. PICK e \in Sent : ep2' = Append(ep2, e) /\ e.cmd = cmd[t]
      BY <2>1, <2>4, IoEffect
    <3> QED BY <1>1, <1>2, <2>1, <3>1, <3>2, SentReset
  <2>5. ASSUME ~torn PROVE AskedInv'
    <3>1. \A u \in Threads : u # t => ~InReset(u)
      BY <1>4, <2>5 DEF ResetInv, AskedInv, InReset
    <3>2. StageInv(t)'
      BY <1>1, <1>4, <2>1, <2>2, <2>4, <2>5 DEF ResetInv, AskedInv, StageInv, Changed
    <3>3. \A u \in Threads : StageInv(u)'
      BY <1>1, <3>1, <3>2 DEF StageInv, InReset
    <3> QED BY <1>1, <1>4, <3>1, <3>3 DEF AskedInv, InReset
  <2> QED BY <1>1, <2>3, <2>5 DEF ResetInv, AskedInv
<1> QED BY <1>3, <1>4

\* joker_open and the end of the process.
LEMMA OpenResetKept ==
  ASSUME TypeOK, ResetInv, OpenInv', OpenReset
  PROVE  ResetInv'
<1> HIDE DEF UsbAssumption
<1>1. /\ opening = <<"reset">> /\ opening' = <<"return">> /\ intended' = Chips
      /\ rst' = [rst EXCEPT !["fe"] = [pc |-> "load", put |-> TRUE, mask |-> Chips,
                                       tmp |-> {}]]
      /\ UNCHANGED <<ioPc, cmd, ret, ep2, shadow, hw, torn, lastWrite, i2c, up>>
  BY DEF OpenReset, usbVars, i2cVars
<1>2. /\ ~up /\ i2c.pc = "idle" /\ rst["fe"].pc = "idle" /\ rst["ci"].pc = "idle"
  BY <1>1 DEF ResetInv, OpenInv
<1>3. /\ rst'["fe"] = [pc |-> "load", put |-> TRUE, mask |-> Chips, tmp |-> {}]
      /\ rst'["ci"] = rst["ci"]
  BY <1>1 DEF TypeOK, ResetTypeOK
<1>4. HandInv'
  BY <1>1, <1>2, <1>3 DEF ResetInv, HandInv, InReset
<1>5. AskedInv'
  <2>1. StageInv("fe")'
    <3>1. Changed("fe", shadow)' = Chips
      BY <1>1, <1>3 DEF Changed, TypeOK, ResetTypeOK
    <3> QED BY <1>1, <1>3, <3>1 DEF StageInv
  <2>2. StageInv("ci")'
    BY <1>2, <1>3 DEF StageInv
  <2> QED BY <1>2, <1>3, <2>1, <2>2 DEF AskedInv, InReset
<1> QED BY <1>4, <1>5 DEF ResetInv

LEMMA DownKept ==
  ASSUME TypeOK, ResetInv, OpenInv', Down
  PROVE  ResetInv'
<1> HIDE DEF UsbAssumption
<1>1. /\ up' = FALSE /\ opening' = <<>> /\ rst' = [t \in Threads |-> NoReset]
      /\ i2c' = NoI2c /\ cmd' = [t \in Threads |-> NoCmd]
  BY DEF Down, ProcessEnds
<1>2. HandInv'
  BY <1>1 DEF HandInv, InReset, NoReset, NoCmd
<1>3. AskedInv'
  BY <1>1 DEF AskedInv, StageInv, InReset, NoReset
<1> QED BY <1>2, <1>3 DEF ResetInv

\* The steps of joker_reset and joker_unreset.
LEMMA ResetBeginKept ==
  ASSUME TypeOK, ResetInv, OpenInv', NEW t \in Threads, NEW put \in BOOLEAN,
         ResetBegin(t, put)
  PROVE  ResetInv'
<1> HIDE DEF UsbAssumption
<1>1. /\ up /\ rst[t].pc = "idle" /\ (t = "fe" => i2c.pc = "idle") /\ ioPc[t] = "idle"
      /\ rst' = [rst EXCEPT ![t] = [pc |-> "load", put |-> put, mask |-> ChipOf[t],
                                    tmp |-> {}]]
      /\ intended' = IF put THEN intended \cup ChipOf[t] ELSE intended \ ChipOf[t]
      /\ torn' = (torn \/ \E u \in Threads : InReset(u))
      /\ UNCHANGED <<ioPc, cmd, ret, ep2, shadow, hw, lastWrite, i2c, up, opening>>
  BY DEF ResetBegin, MayCall, Free, usbVars, i2cVars, openVars
<1>2. /\ rst'[t] = [pc |-> "load", put |-> put, mask |-> ChipOf[t], tmp |-> {}]
      /\ \A u \in Threads : u # t => rst'[u] = rst[u]
  BY <1>1 DEF TypeOK, ResetTypeOK
<1>3. HandInv'
  <2>1. InReset("fe")' => i2c'.pc = "idle"
    BY <1>1, <1>2 DEF ResetInv, HandInv, InReset
  <2>2. ASSUME NEW u \in Threads
        PROVE  /\ cmd'[u].op = "reset" => rst'[u].pc = "wait"
               /\ rst'[u].pc = "wait" => /\ ioPc'[u] \in {"lock", "done"}
                                         /\ cmd'[u].op = "reset" /\ cmd'[u].len = 0
    BY <1>1, <1>2 DEF ResetInv, HandInv
  <2> QED BY <2>1, <2>2 DEF HandInv
<1>4. ASSUME ~torn' PROVE AskedInv'
  <2>1. ~torn /\ \A u \in Threads : ~InReset(u)
    BY <1>1, <1>4
  <2>2. shadow = intended
    BY <1>1, <2>1 DEF ResetInv, AskedInv
  <2>3. StageInv(t)'
    BY <1>1, <1>2, <2>2 DEF StageInv, Changed
  <2>4. \A u \in Threads : StageInv(u)'
    BY <1>2, <2>1, <2>3 DEF StageInv, InReset
  <2> QED BY <1>2, <2>1, <2>4 DEF AskedInv, InReset
<1> QED BY <1>3, <1>4 DEF ResetInv, AskedInv

\* What a step of the call of t has to show.
LEMMA OneCall ==
  ASSUME TypeOK, ResetInv, OpenInv', NEW t \in Threads, InReset(t),
         torn' = torn, intended' = intended, i2c' = i2c,
         \A u \in Threads : u # t => /\ rst'[u] = rst[u] /\ cmd'[u] = cmd[u]
                                     /\ ioPc'[u] = ioPc[u],
         cmd'[t].op = "reset" => rst'[t].pc = "wait",
         rst'[t].pc = "wait" => /\ ioPc'[t] \in {"lock", "done"}
                                /\ cmd'[t].op = "reset" /\ cmd'[t].len = 0,
         ~torn => StageInv(t)',
         ~torn /\ ~InReset(t)' => shadow' = intended' /\ (lastWrite' => Reaches')
  PROVE  ResetInv'
<1>1. HandInv'
  <2>1. InReset("fe")' => i2c'.pc = "idle"
    BY DEF ResetInv, HandInv, InReset
  <2>2. ASSUME NEW u \in Threads
        PROVE  /\ cmd'[u].op = "reset" => rst'[u].pc = "wait"
               /\ rst'[u].pc = "wait" => /\ ioPc'[u] \in {"lock", "done"}
                                         /\ cmd'[u].op = "reset" /\ cmd'[u].len = 0
    BY DEF ResetInv, HandInv
  <2> QED BY <2>1, <2>2 DEF HandInv
<1>2. ASSUME ~torn PROVE AskedInv'
  <2>1. \A u \in Threads : u # t => ~InReset(u) /\ ~InReset(u)'
    BY <1>2 DEF ResetInv, AskedInv, InReset
  <2>2. \A u \in Threads : StageInv(u)'
    BY <1>2, <2>1 DEF StageInv, InReset
  <2> QED BY <1>2, <2>1, <2>2 DEF AskedInv
<1> QED BY <1>1, <1>2 DEF ResetInv, AskedInv

LEMMA ResetStepKept ==
  ASSUME TypeOK, ResetInv, OpenInv', NEW t \in Threads, ResetStep(t)
  PROVE  ResetInv'
<1> HIDE DEF UsbAssumption, DeviceAssumption
<1>0. torn' = torn /\ intended' = intended /\ i2c' = i2c
  BY DEF ResetStep, ResetLoad, ResetStore, ResetWrite, ResetReturn, i2cVars
<1>1. \A u \in Threads : u # t => rst'[u] = rst[u]
  BY DEF ResetStep, ResetLoad, ResetStore, ResetWrite, ResetReturn, TypeOK, ResetTypeOK
<1>2. CASE ResetLoad(t)
  <2>1. /\ rst[t].pc = "load" /\ UNCHANGED <<ioPc, cmd, ret, ep2, shadow, lastWrite>>
        /\ rst'[t] = [rst[t] EXCEPT !.pc = "store", !.tmp = shadow]
    BY <1>2 DEF ResetLoad, usbVars, TypeOK, ResetTypeOK
  <2>2. /\ rst'[t].pc = "store" /\ rst'[t].put = rst[t].put /\ rst'[t].mask = rst[t].mask
        /\ rst'[t].tmp = shadow
    BY <2>1 DEF TypeOK, ResetTypeOK
  <2>3. ~torn => StageInv(t)'
    BY <1>0, <2>1, <2>2 DEF ResetInv, AskedInv, StageInv, Changed
  <2>4. InReset(t) /\ InReset(t)'
    BY <2>1, <2>2 DEF InReset
  <2>5. rst'[t].pc # "wait" /\ cmd'[t].op # "reset"
    BY <2>1, <2>2 DEF ResetInv, HandInv
  <2>6. \A u \in Threads : u # t => /\ rst'[u] = rst[u] /\ cmd'[u] = cmd[u]
                                    /\ ioPc'[u] = ioPc[u]
    BY <1>1, <2>1
  <2> QED BY <1>0, <2>3, <2>4, <2>5, <2>6, OneCall
<1>3. CASE ResetStore(t)
  <2>1. /\ rst[t].pc = "store" /\ UNCHANGED <<ioPc, cmd, ret, ep2, lastWrite>>
        /\ rst'[t] = [rst[t] EXCEPT !.pc = "write"]
        /\ shadow' = Changed(t, rst[t].tmp)
    BY <1>3 DEF ResetStore, usbVars, TypeOK, ResetTypeOK, Changed
  <2>2. rst'[t].pc = "write"
    BY <2>1 DEF TypeOK, ResetTypeOK
  <2>3. ~torn => StageInv(t)'
    BY <1>0, <2>1, <2>2 DEF ResetInv, AskedInv, StageInv
  <2>4. InReset(t) /\ InReset(t)'
    BY <2>1, <2>2 DEF InReset
  <2>5. rst'[t].pc # "wait" /\ cmd'[t].op # "reset"
    BY <2>1, <2>2 DEF ResetInv, HandInv
  <2>6. \A u \in Threads : u # t => /\ rst'[u] = rst[u] /\ cmd'[u] = cmd[u]
                                    /\ ioPc'[u] = ioPc[u]
    BY <1>1, <2>1
  <2> QED BY <1>0, <2>3, <2>4, <2>5, <2>6, OneCall
<1>4. CASE ResetWrite(t)
  <2>1. /\ rst[t].pc = "write" /\ UNCHANGED <<shadow, lastWrite>>
        /\ rst'[t].pc = "wait" /\ Call(t, Send("reset", shadow))
    BY <1>4 DEF ResetWrite, TypeOK, ResetTypeOK
  <2>2. /\ cmd'[t] = Send("reset", shadow) /\ ioPc'[t] = "lock"
        /\ \A u \in Threads : u # t => cmd'[u] = cmd[u] /\ ioPc'[u] = ioPc[u]
    BY <2>1, CallEffect
  <2>3. ~torn => StageInv(t)'
    BY <1>0, <2>1, <2>2 DEF ResetInv, AskedInv, StageInv, Send
  <2>4. InReset(t) /\ InReset(t)'
    BY <2>1 DEF InReset
  <2>5. ioPc'[t] = "lock" /\ cmd'[t].op = "reset" /\ cmd'[t].len = 0
    BY <2>2 DEF Send
  <2>6. \A u \in Threads : u # t => /\ rst'[u] = rst[u] /\ cmd'[u] = cmd[u]
                                    /\ ioPc'[u] = ioPc[u]
    BY <1>1, <2>2
  <2> QED BY <1>0, <2>1, <2>3, <2>4, <2>5, <2>6, OneCall
<1>5. CASE ResetReturn(t)
  <2>1. /\ rst[t].pc = "wait" /\ ioPc[t] = "done" /\ UNCHANGED <<shadow, hw>>
        /\ rst'[t] = NoReset /\ Consume(t) /\ lastWrite' = ret[t].ok
    BY <1>5 DEF ResetReturn, Consume, TypeOK, ResetTypeOK
  <2>2. /\ cmd'[t] = NoCmd /\ ep2' = ep2
        /\ \A u \in Threads : u # t => cmd'[u] = cmd[u] /\ ioPc'[u] = ioPc[u]
    BY <2>1, ConsumeEffect
  <2>3. StageInv(t)'
    BY <2>1 DEF StageInv, NoReset
  <2>4. ~torn => shadow = intended /\ (ret[t].ok => Reaches)
    BY <2>1 DEF ResetInv, AskedInv, StageInv
  <2>5. ~torn => shadow' = intended' /\ (lastWrite' => Reaches')
    BY <1>0, <2>1, <2>2, <2>4 DEF Reaches, IsReset
  <2>6. InReset(t) /\ rst'[t].pc # "wait" /\ cmd'[t].op # "reset"
    BY <2>1, <2>2 DEF InReset, NoReset, NoCmd
  <2>7. \A u \in Threads : u # t => /\ rst'[u] = rst[u] /\ cmd'[u] = cmd[u]
                                    /\ ioPc'[u] = ioPc[u]
    BY <1>1, <2>2
  <2> QED BY <1>0, <2>3, <2>5, <2>6, <2>7, OneCall
<1> QED BY <1>2, <1>3, <1>4, <1>5 DEF ResetStep

\* The steps of the other clients and of the card.
LEMMA QuietExchange ==
  ASSUME TypeOK, ResetInv, OpenInv', UNCHANGED resetVars,
         up' \/ opening' = <<"return">> => up \/ opening = <<"return">>,
         i2c'.pc = i2c.pc \/ i2c.pc # "idle" \/ ~InReset("fe"),
         NEW t \in Threads, rst[t].pc # "wait",
         Consume(t) \/ \E c : Call(t, c) /\ c.op # "reset"
  PROVE  ResetInv'
<1> HIDE DEF UsbAssumption, DeviceAssumption
<1>1. UNCHANGED <<shadow, hw, intended, rst, torn, lastWrite>>
  BY DEF resetVars
<1>2. CASE Consume(t)
  <2>1. cmd'[t].op # "reset" /\ ep2' = ep2
    BY <1>2, ConsumeEffect DEF NoCmd
  <2>2. Reaches => Reaches'
    BY <1>1, <2>1 DEF Reaches, IsReset
  <2> QED BY <1>1, <1>2, <2>1, <2>2, ConsumeEffect, Quiet
<1>3. ASSUME NEW c, Call(t, c), c.op # "reset" PROVE ResetInv'
  <2>1. cmd'[t].op # "reset" /\ ep2' = ep2 /\ ret' = ret
    BY <1>3, CallEffect
  <2>2. Reaches => Reaches'
    BY <1>1, <2>1 DEF Reaches, IsReset
  <2> QED BY <1>1, <1>3, <2>1, <2>2, CallEffect, Quiet
<1> QED BY <1>2, <1>3

LEMMA QuietUsb ==
  ASSUME ResetInv, OpenInv', UNCHANGED <<usbVars, resetVars>>,
         up' \/ opening' = <<"return">> => up \/ opening = <<"return">>,
         i2c'.pc = i2c.pc \/ i2c.pc # "idle" \/ ~InReset("fe")
  PROVE  ResetInv'
<1>1. UNCHANGED <<shadow, hw, intended, rst, torn, lastWrite, ep2, ioPc, cmd, ret>>
  BY DEF resetVars, usbVars
<1>2. Reaches => Reaches'
  BY <1>1 DEF Reaches, IsReset
<1> QED BY <1>1, <1>2, Quiet

LEMMA FpgaKept ==
  ASSUME TypeOK, ResetInv, OpenInv', FpgaExec
  PROVE  ResetInv'
<1>1. /\ ep2 # <<>> /\ ep2' = Tail(ep2)
      /\ hw' = IF Head(ep2).cmd.op = "reset" THEN Head(ep2).cmd.val ELSE hw
      /\ UNCHANGED <<shadow, intended, rst, torn, lastWrite, i2c, openVars>>
      /\ UNCHANGED <<ioPc, cmd, ret>>
  BY Zenon DEF FpgaExec, FpgaTake
<1>2. ep2 \in Seq(Sent)
  BY DEF TypeOK, UsbTypeOK, Sent
<1>3. Reaches => Reaches'
  BY <1>1, <1>2, CardTakes
<1> QED BY <1>1, <1>3, Quiet DEF openVars

LEMMA OtherOpenKept ==
  ASSUME TypeOK, ResetInv, OpenInv',
         OpenBegin \/ OpenCleanup \/ OpenCommand \/ OpenNext \/ OpenReturn
  PROVE  ResetInv'
<1> HIDE DEF UsbAssumption, DeviceAssumption
<1>0. "fe" \in Threads
  BY DeviceAssumption DEF DeviceAssumption
<1>1. CASE OpenBegin \/ OpenReturn
  <2>1. UNCHANGED <<usbVars, resetVars, i2c>>
    BY <1>1 DEF OpenBegin, OpenReturn, i2cVars
  <2>2. up' \/ opening' = <<"return">> => up \/ opening = <<"return">>
    BY <1>1 DEF OpenBegin, OpenReturn, OpenCommands
  <2> QED BY <2>1, <2>2, QuietUsb
<1>2. CASE OpenCleanup
  <2>1. UNCHANGED <<shadow, hw, intended, rst, torn, lastWrite, up, opening, i2c>>
    BY <1>2 DEF OpenCleanup, resetVars, openVars, i2cVars
  <2>2. UNCHANGED <<ioPc, cmd, ret, ep2>>
    BY <1>2 DEF OpenCleanup, CleanupRead
  <2>3. Reaches => Reaches'
    BY <2>1, <2>2 DEF Reaches, IsReset
  <2> QED BY <2>1, <2>2, <2>3, Quiet
<1>3. CASE OpenCommand \/ OpenNext
  <2>1. /\ opening # <<>> /\ opening # <<"return">>
        /\ UNCHANGED <<resetVars, i2c, up>>
        /\ opening' \in {opening, Tail(opening), <<>>}
    BY <1>3 DEF OpenCommand, OpenNext, openVars, i2cVars
  <2>2. ~up /\ rst["fe"].pc = "idle"
    BY <2>1 DEF ResetInv, OpenInv
  <2>3. opening' # <<"return">>
    <3>1. opening \in Seq(Ops \cup {"return"})
      BY DEF TypeOK, OpenTypeOK
    <3>2. \A k \in DOMAIN opening : opening[k] # "return"
      BY <2>1 DEF ResetInv, OpenInv
    <3>3. \A k \in DOMAIN Tail(opening) : Tail(opening)[k] # "return"
      <4> HIDE DEF Ops
      <4> QED BY <2>1, <3>1, <3>2, Shortened
    <3>4. 1 \in DOMAIN <<"return">> /\ <<"return">>[1] = "return"
      OBVIOUS
    <3> QED BY <2>1, <3>3, <3>4
  <2>4. Consume("fe") \/ \E c : Call("fe", c) /\ c.op # "reset"
    BY <1>3 DEF OpenCommand, OpenNext, Send
  <2> QED BY <1>0, <2>1, <2>2, <2>3, <2>4, QuietExchange
<1> QED BY <1>1, <1>2, <1>3

LEMMA ClientKept ==
  ASSUME TypeOK, ResetInv, OpenInv',
         CiCommand \/ CiDone \/ FeStep \/ (\E op, size : I2cBegin(op, size))
  PROVE  ResetInv'
<1> HIDE DEF UsbAssumption, DeviceAssumption
<1>0. "fe" \in Threads /\ "ci" \in Threads
  BY DeviceAssumption DEF DeviceAssumption
<1>1. CASE CiCommand
  <2>1. rst["ci"].pc = "idle" /\ UNCHANGED <<resetVars, i2c, up, opening>>
    BY <1>1 DEF CiCommand, MayCall, Free, i2cVars, openVars
  <2>2. \E c : Call("ci", c) /\ c.op # "reset"
    BY <1>1 DEF CiCommand, Fetch
  <2> QED BY <1>0, <2>1, <2>2, QuietExchange
<1>2. CASE CiDone
  BY <1>0, <1>2, QuietExchange DEF CiDone, InReset, i2cVars, openVars
<1>3. CASE FeStep
  <2>1. i2c.pc # "idle" /\ UNCHANGED <<resetVars, up, opening>>
    BY <1>3 DEF FeStep, I2cTxr, I2cCr, I2cWrote, I2cPoll, I2cPollEnds, I2cPolled,
       I2cCheck, I2cRxr, I2cRead, I2cReturn, I2cCall, openVars, resetVars
  <2>2. rst["fe"].pc # "wait"
    BY <2>1 DEF ResetInv, HandInv, InReset
  <2>3. \/ UNCHANGED usbVars
        \/ Consume("fe") \/ \E c : Call("fe", c) /\ c.op # "reset"
    <3>1. \A op, val : op # "reset" => Send(op, val).op # "reset"
      BY DEF Send
    <3>2. I2cTxr \/ I2cCr => \E c : Call("fe", c) /\ c.op # "reset"
      <4>1. ASSUME NEW pc, NEW c, NEW next, I2cCall(pc, c, next), c.op # "reset"
            PROVE  \E d : Call("fe", d) /\ d.op # "reset"
        BY <4>1, Zenon DEF I2cCall
      <4>2. \A val : Send("txr", val).op # "reset" /\ Send("cr", val).op # "reset"
        BY DEF Send
      <4>3. CASE I2cTxr
        BY <4>1, <4>2, <4>3 DEF I2cTxr
      <4>4. CASE I2cCr
        BY <4>1, <4>2, <4>4 DEF I2cCr
      <4> QED BY <4>3, <4>4
    <3>3. I2cPoll \/ I2cRxr => \E c : Call("fe", c) /\ c.op # "reset"
      BY DEF I2cPoll, I2cRxr, I2cCall, Fetch
    <3>4. I2cWrote \/ I2cPolled \/ I2cRead => Consume("fe")
      BY Zenon DEF I2cWrote, I2cPolled, I2cRead
    <3>5. I2cPollEnds \/ I2cCheck \/ I2cReturn => UNCHANGED usbVars
      BY Zenon DEF I2cPollEnds, I2cCheck, I2cReturn
    <3> QED BY <1>3, <3>2, <3>3, <3>4, <3>5, Zenon DEF FeStep
  <2> QED BY <1>0, <2>1, <2>2, <2>3, QuietExchange, QuietUsb
<1>4. ASSUME NEW op, NEW size, I2cBegin(op, size) PROVE ResetInv'
  <2>1. ~InReset("fe") /\ UNCHANGED <<usbVars, resetVars, up, opening>>
    BY <1>4, Zenon DEF I2cBegin, MayCall, Free, InReset, openVars
  <2> QED BY <2>1, QuietUsb
<1> QED BY <1>1, <1>2, <1>3, <1>4

LEMMA ResetKept ==
  ASSUME TypeOK, ResetInv, [Next]_vars
  PROVE  ResetInv'
<1> HIDE DEF UsbAssumption, DeviceAssumption
<1>0. OpenInv'
  BY OpenKept DEF ResetInv
<1>1. CASE OpenBegin \/ OpenStep
  BY <1>0, <1>1, OpenResetKept, OtherOpenKept DEF OpenStep
<1>2. CASE Down
  BY <1>0, <1>2, DownKept
<1>3. ASSUME NEW t \in Threads,
             \/ IoStep(t) /\ UNCHANGED ClientVars
             \/ \E put \in BOOLEAN : ResetBegin(t, put)
             \/ ResetStep(t)
      PROVE  ResetInv'
  BY <1>0, <1>3, IoKept, ResetBeginKept, ResetStepKept
<1>4. CASE \/ CiCommand \/ CiDone \/ FeStep
           \/ \E op \in {"write", "read"}, size \in 0 .. MaxSize : I2cBegin(op, size)
  BY <1>0, <1>4, ClientKept
<1>5. CASE FpgaExec
  BY <1>0, <1>5, FpgaKept
<1>6. CASE I2cByteDone \/ UNCHANGED vars
  <2>1. UNCHANGED <<usbVars, resetVars, i2c, openVars>>
    BY <1>6, Zenon DEF I2cByteDone, vars, i2cVars
  <2> QED BY <1>0, <2>1, QuietUsb DEF openVars
<1> QED BY <1>1, <1>2, <1>3, <1>4, <1>5, <1>6, Zenon DEF Next

LEMMA ResetInit == Init => ResetInv
<1> SUFFICES ASSUME Init PROVE ResetInv
    OBVIOUS
<1> HIDE DEF UsbAssumption
<1> USE DEF Init, UsbInit
<1>1. OpenInv
  BY DEF OpenInv, NoReset, NoI2c
<1>2. HandInv
  BY DEF HandInv, InReset, NoReset, NoCmd
<1>3. AskedInv
  BY DEF AskedInv, StageInv, InReset, NoReset
<1> QED BY <1>1, <1>2, <1>3 DEF ResetInv

\* The chips in reset are those the calls of joker_reset and joker_unreset asked
\* for, once the last call had its command delivered, unless two calls overlapped:
\* for any number of calls, of failing transfers and of commands the card still has
\* to carry out.
THEOREM ResetsAsAsked == Spec => []HardwareAsAsked
<1>1. DInv /\ ResetInv /\ [Next]_vars => ResetInv'
  BY ResetKept DEF DInv
<1>2. DInv /\ ResetInv => HardwareAsAsked
  <2> SUFFICES ASSUME DInv, ResetInv, up, ~torn, lastWrite, \A t \in Threads : ~InReset(t)
               PROVE  HwFinal = intended
    BY DEF HardwareAsAsked
  <2>1. Reaches
    BY DEF ResetInv, AskedInv
  <2>2. ep2 \in Seq(Sent)
    BY DEF DInv, TypeOK, UsbTypeOK, Sent
  <2> QED BY <2>1, <2>2, FinalIsAsked
<1> QED BY <1>1, <1>2, ResetInit, DeviceInvariant, PTL DEF Spec

-----------------------------------------------------------------------------
(***************************************************************************)
(* The I2C master: how far the byte has come that the transaction is at.   *)
(***************************************************************************)

OpAt(j) == ep2[j].cmd.op

\* A value of the reset register with the chip in reset only when asked for.
NackTrue == torn \/ "sony" \in intended
Right(v) == "sony" \in v => NackTrue

RightSince(k) == \A m \in DOMAIN ep2 : m >= k /\ IsReset(m) => Right(ep2[m].cmd.val)

\* The register is right, ...
AllRight == Right(hw) /\ RightSince(1)

\* ... or will be, ...
RightAtLast == AllRight \/ \E k \in DOMAIN ep2 : IsReset(k) /\ RightSince(k)

\* ... before the card comes to the next byte.
RightInTime ==
  \/ AllRight
  \/ \E k \in DOMAIN ep2 :
       IsReset(k) /\ RightSince(k) /\ \A c \in DOMAIN ep2 : OpAt(c) = "cr" => k < c

\* What the transaction puts on the bus: events of its bytes up to i.
ByteEvent(op, k) == IF op = "read" THEN On("read", {}) ELSE On("write", DataByte(k))
Bytes(op, i) ==
  [k \in 1 .. i + 1 |-> IF k = 1 THEN On("start", Address(op)) ELSE ByteEvent(op, k - 1)]

\* The two values of the byte, and whether the first is sent for it.
TxVal   == IF i2c.i = 0 THEN Address(i2c.op) ELSE DataByte(i2c.i)
CrVal   == (IF i2c.i = 0 THEN {"start", "write"}
            ELSE IF i2c.op = "write" THEN {"write"} ELSE {"read"})
           \cup (IF Last THEN {"stop"} ELSE {})
Sends   == i2c.i = 0 \/ i2c.op = "write"

NoOp(o) == \A j \in DOMAIN ep2 : OpAt(j) # o

\* The bytes before it are through, and nothing of this one is under way; ...
Before  == ~core.tip /\ RightInTime /\ (i2c.i > 0 => bus = Bytes(i2c.op, i2c.i - 1))
Fresh   == Before /\ NoOp("txr") /\ NoOp("cr")
\* ... the card has the byte, or needs none; ...
TxrSent ==
  IF Sends THEN /\ \A j \in DOMAIN ep2 : OpAt(j) = "txr" => ep2[j].cmd.val = TxVal
                /\ core.txr = TxVal \/ ~NoOp("txr")
  ELSE NoOp("txr")
Loaded  == Before /\ NoOp("cr") /\ TxrSent
\* ... and was told to transfer it; ...
CrSent  ==
  /\ Before /\ TxrSent
  /\ \E c \in DOMAIN ep2 :
       /\ OpAt(c) = "cr" /\ ep2[c].cmd.val = CrVal
       /\ \A j \in DOMAIN ep2 : /\ OpAt(j) = "txr" => j < c
                                /\ OpAt(j) = "cr" => j = c
\* ... does so; ...
OnBus ==
  /\ core.tip /\ NoOp("txr") /\ NoOp("cr") /\ AllRight
  /\ core.cr = CrVal /\ (Sends => core.shift = TxVal)
  /\ i2c.i > 0 => bus = Bytes(i2c.op, i2c.i - 1)
\* ... and has done so.
Through ==
  /\ ~core.tip /\ NoOp("txr") /\ NoOp("cr") /\ AllRight
  /\ bus = Bytes(i2c.op, i2c.i) \o (IF Last THEN <<On("stop", {})>> ELSE <<>>)
  /\ core.nack => NackTrue

UnderWay == CrSent \/ OnBus \/ Through

\* A value of the status register that the card gave after the byte was told to it.
StatusTrue(b) ==
  /\ "al" \notin b
  /\ "tip" \notin b => Through /\ ("nack" \in b => NackTrue)

SrCmd == Fetch("sr", {}, 2)
FeIo  == ioPc["fe"]

\* The status command of the thread that waits for it.
Asking ==
  /\ cmd["fe"] = SrCmd
  /\ FeIo = "in" =>
       \/ /\ ep1 = <<>> /\ ep2 # <<>>
          /\ ep2[Len(ep2)].cmd = SrCmd /\ ep2[Len(ep2)].n = asked /\ asked = answered + 1
       \/ /\ Len(ep1) = 1 /\ ep2 = <<>>
          /\ ep1[1].len = 2 /\ StatusTrue(ep1[1].val)
  /\ FeIo = "done" => ret["fe"].ok /\ StatusTrue(ret["fe"].reply.val)

\* The budget of joker_i2c_read_cycle goes down by two with every poll.
Polled == i2c.cnt = PollBudget \/ ("tip" \in i2c.buf /\ "al" \notin i2c.buf)
Budget == i2c.cnt \in Nat /\ i2c.cnt % 2 = 0 /\ Polled

\* The transaction at each line of joker_i2c_write and joker_i2c_read.
I2cAt ==
  CASE i2c.pc = "txr"       -> Fresh /\ Sends
    [] i2c.pc = "txr_wait"  -> \/ FeIo = "lock" /\ Fresh /\ Sends /\ cmd["fe"] = Send("txr", TxVal)
                               \/ FeIo = "done" /\ Loaded
    [] i2c.pc = "cr"        -> Loaded
    [] i2c.pc = "cr_wait"   -> \/ FeIo = "lock" /\ Loaded /\ cmd["fe"] = Send("cr", CrVal)
                               \/ FeIo = "done" /\ UnderWay
    [] i2c.pc = "poll"      -> UnderWay /\ Budget
    [] i2c.pc = "poll_wait" -> /\ UnderWay /\ Asking
                               /\ i2c.cnt \in Nat /\ i2c.cnt % 2 = 1
    [] i2c.pc = "check"     -> /\ UnderWay /\ StatusTrue(i2c.buf)
                               /\ i2c.cnt > 0 <=> "tip" \notin i2c.buf
    [] i2c.pc = "rxr"       -> Through /\ ~Sends
    [] i2c.pc = "rxr_wait"  -> Through /\ ~Sends /\ cmd["fe"].op = "rxr"
    [] i2c.pc = "return" ->
         /\ i2c.res = "ok" => Through /\ Last
         /\ i2c.res = "nodev" => NackTrue \/ "tip" \in i2c.buf
         /\ i2c.res = "eio" => "tip" \in i2c.buf
    [] OTHER -> TRUE

\* The registers of the I2C core.
CoreOK == core \in [txr : Values, shift : Values, cr : Values, tip : BOOLEAN, nack : BOOLEAN]

\* Only a command with a reply waits for one, and no other has a bad result.
HoldsInv ==
  \A t \in Threads :
    /\ ioPc[t] = "in" => cmd[t].len > 0
    /\ failed = 0 /\ ioPc[t] = "done" /\ cmd[t].len = 0 => ret[t].ok

\* An exchange of the I2C functions, and who sends commands to the I2C core.
WaitsInv ==
  /\ i2c.pc # "idle" =>
       (FeIo # "idle" <=> i2c.pc \in {"txr_wait", "cr_wait", "poll_wait", "rxr_wait"})
  /\ cmd["ci"].op \notin {"txr", "cr"}

\* The chip of the I2C master is in reset only when that was asked for, unless
\* two calls overlapped.
SonyInv ==
  failed = 0 /\ (up \/ opening = <<"return">>) /\ ~InReset("fe") => RightAtLast

Sure   == i2c.pc # "idle" /\ i2c.sure /\ failed = 0
I2cInv == Sure => start.owed = 0 /\ I2cAt

LEMMA BytesNext ==
  ASSUME NEW op, NEW i \in Nat
  PROVE  /\ Bytes(op, 0) = <<On("start", Address(op))>>
         /\ Append(Bytes(op, i), ByteEvent(op, i + 1)) = Bytes(op, i + 1)
         /\ Transaction(op, i) = Bytes(op, i) \o <<On("stop", {})>>
         /\ Bytes(op, i) \o <<>> = Bytes(op, i)
<1> HIDE DEF UsbAssumption, DeviceAssumption
<1> DEFINE S == {On("start", Address(op))} \cup {ByteEvent(op, k) : k \in Nat}
<1>0. /\ Bytes(op, i) \in Seq(S) /\ Len(Bytes(op, i)) = i + 1
      /\ Bytes(op, i + 1) \in Seq(S) /\ Len(Bytes(op, i + 1)) = i + 2
  BY DEF Bytes
<1>1. Bytes(op, 0) = <<On("start", Address(op))>>
  BY DEF Bytes
<1>2. Append(Bytes(op, i), ByteEvent(op, i + 1)) = Bytes(op, i + 1)
  BY DEF Bytes
<1>3. <<On("start", Address(op))>> \o [k \in 1 .. i |-> ByteEvent(op, k)] = Bytes(op, i)
  BY DEF Bytes
<1>4. Bytes(op, i) \o <<>> = Bytes(op, i)
  <2> HIDE DEF S
  <2> QED BY <1>0
<1> QED BY <1>1, <1>2, <1>3, <1>4, Zenon DEF Transaction, ByteEvent

\* The values and the bytes of a transaction that stays where it is.
SameI2c == i2c'.op = i2c.op /\ i2c'.size = i2c.size /\ i2c'.i = i2c.i

LEMMA SameByte ==
  ASSUME SameI2c
  PROVE  /\ TxVal' = TxVal /\ CrVal' = CrVal /\ Sends' = Sends /\ Last' = Last
         /\ Bytes(i2c.op, i2c.i)' = Bytes(i2c.op, i2c.i)
         /\ Bytes(i2c.op, i2c.i - 1)' = Bytes(i2c.op, i2c.i - 1)
BY DEF SameI2c, TxVal, CrVal, Sends, Last, Bytes, Address, DataByte, ByteEvent, On

\* What of the transaction holds still.
Kept ==
  /\ NackTrue => NackTrue'
  /\ RightAtLast => RightAtLast'
  /\ Fresh => Fresh'
  /\ Loaded => Loaded'
  /\ UnderWay => UnderWay'
  /\ Through => Through'

\* The commands the card has, and others after them.
Grown ==
  /\ DOMAIN ep2 \subseteq DOMAIN ep2' /\ DOMAIN ep2 \subseteq Nat
  /\ \A j \in DOMAIN ep2 : ep2'[j] = ep2[j] /\ j >= 1
  /\ \A j \in DOMAIN ep2' \ DOMAIN ep2 :
       /\ ep2'[j].cmd.op = "reset" => Right(ep2[j].cmd.val)'
       /\ j \in Nat /\ \A k \in DOMAIN ep2 : k < j

LEMMA GrownBy ==
  ASSUME ep2 \in Seq(Sent),
         \/ ep2' = ep2
         \/ \E e \in Sent : ep2' = Append(ep2, e) /\ (e.cmd.op = "reset" => Right(e.cmd.val)')
  PROVE  Grown
<1> HIDE DEF UsbAssumption, DeviceAssumption, Sent
<1>1. CASE ep2' = ep2
  <2>1. DOMAIN ep2 = 1 .. Len(ep2) /\ Len(ep2) \in Nat
    BY LenProperties
  <2> QED BY <2>1 DEF Grown
<1>2. ASSUME NEW e \in Sent, ep2' = Append(ep2, e),
             e.cmd.op = "reset" => Right(e.cmd.val)'
      PROVE  Grown
  <2>1. /\ DOMAIN ep2' = DOMAIN ep2 \cup {Len(ep2) + 1} /\ ep2'[Len(ep2) + 1] = e
        /\ \A j \in DOMAIN ep2 : ep2'[j] = ep2[j]
        /\ DOMAIN ep2 = 1 .. Len(ep2) /\ Len(ep2) \in Nat
    BY <1>2, Appended
  <2>2. ASSUME NEW j \in DOMAIN ep2' \ DOMAIN ep2
        PROVE  ep2'[j].cmd.op = "reset" => Right(ep2[j].cmd.val)'
    <3>1. ep2'[j] = e
      BY <2>1
    <3> QED BY <1>2, <3>1 DEF Right
  <2> QED BY <2>1, <2>2 DEF Grown
<1> QED BY <1>1, <1>2

\* The reset register, whatever is sent behind its writes.
LEMMA RightKeeps ==
  ASSUME Grown, hw' = hw, NackTrue => NackTrue'
  PROVE  /\ AllRight => AllRight'
         /\ RightAtLast => RightAtLast'
         /\ \A k \in DOMAIN ep2 : RightSince(k) => RightSince(k)'
<1> USE DEF Grown
<1>2. \A v : Right(v) => Right(v)'
  BY DEF Right
<1>3. \A k \in Nat : RightSince(k) => RightSince(k)'
  BY <1>2 DEF RightSince, IsReset, Right
<1>4. AllRight => AllRight'
  BY <1>2, <1>3 DEF AllRight
<1>6. RightAtLast => RightAtLast'
  <2>1. ASSUME NEW k \in DOMAIN ep2, IsReset(k), RightSince(k)
        PROVE  k \in DOMAIN ep2' /\ IsReset(k)' /\ RightSince(k)'
    BY <1>3, <2>1 DEF IsReset
  <2> QED BY <1>4, <2>1 DEF RightAtLast
<1> QED BY <1>3, <1>4, <1>6

\* The commands of the other thread come between those of the transaction.
LEMMA OtherKeeps ==
  ASSUME Grown, SameI2c, UNCHANGED <<core, bus, hw>>, NackTrue => NackTrue',
         \A j \in DOMAIN ep2' \ DOMAIN ep2 : ep2'[j].cmd.op \notin {"txr", "cr"}
  PROVE  Kept
<1> USE DEF Grown
<1>3. \A k \in DOMAIN ep2 : RightSince(k) => RightSince(k)'
  BY RightKeeps
<1>4. AllRight => AllRight'
  BY RightKeeps
<1>5. RightInTime => RightInTime'
  <2>1. ASSUME NEW k \in DOMAIN ep2, IsReset(k), RightSince(k),
               \A c \in DOMAIN ep2 : OpAt(c) = "cr" => k < c
        PROVE  RightInTime'
    <3>1. RightSince(k)' /\ k \in DOMAIN ep2' /\ ep2'[k].cmd.op = "reset"
      BY <1>3, <2>1 DEF IsReset
    <3>2. \A c \in DOMAIN ep2' : ep2'[c].cmd.op = "cr" => k < c
      BY <2>1 DEF OpAt
    <3> QED BY <3>1, <3>2 DEF RightInTime, IsReset, OpAt
  <2> QED BY <1>4, <2>1 DEF RightInTime
<1>6. /\ NoOp("txr") => NoOp("txr")'
      /\ ~NoOp("txr") => ~NoOp("txr")'
      /\ NoOp("cr") => NoOp("cr")'
  BY DEF NoOp, OpAt
<1>7. Before => Before'
  BY <1>5, SameByte DEF Before, SameI2c
<1>8. TxrSent => TxrSent'
  <2>1. CASE Sends
    <3>1. ASSUME TxrSent PROVE TxrSent'
      <4>1. \A j \in DOMAIN ep2' : ep2'[j].cmd.op = "txr" => ep2'[j].cmd.val = TxVal'
        BY <2>1, <3>1, SameByte DEF OpAt, TxrSent
      <4>2. (core.txr = TxVal)' \/ ~NoOp("txr")'
        BY <1>6, <2>1, <3>1, SameByte DEF TxrSent
      <4> QED BY <2>1, <4>1, <4>2, SameByte DEF TxrSent, OpAt
    <3> QED BY <3>1
  <2>2. CASE ~Sends
    BY <1>6, <2>2, SameByte DEF TxrSent
  <2> QED BY <2>1, <2>2
<1>9. CrSent => CrSent'
  <2>1. ASSUME NEW c \in DOMAIN ep2, OpAt(c) = "cr", ep2[c].cmd.val = CrVal,
               \A j \in DOMAIN ep2 : /\ OpAt(j) = "txr" => j < c
                                     /\ OpAt(j) = "cr" => j = c
        PROVE  /\ c \in DOMAIN ep2' /\ OpAt(c)' = "cr" /\ (ep2[c].cmd.val = CrVal)'
               /\ \A j \in DOMAIN ep2' : /\ OpAt(j)' = "txr" => j < c
                                         /\ OpAt(j)' = "cr" => j = c
    BY <2>1, SameByte DEF OpAt
  <2> QED BY <1>7, <1>8, <2>1 DEF CrSent
<1>10. Fresh => Fresh'
  BY <1>6, <1>7 DEF Fresh
<1>11. Loaded => Loaded'
  BY <1>6, <1>7, <1>8 DEF Loaded
<1>12. OnBus => OnBus'
  BY <1>4, <1>6, SameByte DEF OnBus, SameI2c
<1>13. Through => Through'
  BY <1>4, <1>6, SameByte DEF Through
<1> QED BY <1>9, <1>10, <1>11, <1>12, <1>13, RightKeeps DEF Kept, UnderWay

\* The card carries out its oldest command.
LEMMA CardKeeps ==
  ASSUME ep2 \in Seq(Sent), CoreOK, FpgaExec
  PROVE  Kept
<1> HIDE DEF UsbAssumption, DeviceAssumption, Sent, Values
<1> DEFINE op == ep2[1].cmd.op
           val == ep2[1].cmd.val
<1>1. /\ ep2 # <<>> /\ ep2' = Tail(ep2) /\ i2c' = i2c /\ torn' = torn /\ intended' = intended
      /\ hw' = IF op = "reset" THEN val ELSE hw
      /\ core' = CASE op = "txr" -> [core EXCEPT !.txr = val]
                   [] op = "cr" /\ ~core.tip ->
                        [core EXCEPT !.tip = TRUE, !.shift = core.txr, !.cr = val]
                   [] OTHER -> core
      /\ bus' = IF op = "cr" /\ core.tip THEN <<On("spoilt", {})>> ELSE bus
  <2>1. ep2 # <<>> /\ ep2' = Tail(ep2) /\ Head(ep2) = ep2[1]
    BY Shortened DEF FpgaExec, FpgaTake
  <2> QED BY <2>1 DEF FpgaExec
<1>same. /\ TxVal' = TxVal /\ CrVal' = CrVal /\ Sends' = Sends /\ Last' = Last
         /\ Bytes(i2c.op, i2c.i)' = Bytes(i2c.op, i2c.i)
         /\ Bytes(i2c.op, i2c.i - 1)' = Bytes(i2c.op, i2c.i - 1)
  BY <1>1, SameByte DEF SameI2c
<1>2. /\ 1 \in DOMAIN ep2 /\ DOMAIN ep2 \subseteq Nat /\ DOMAIN ep2' \subseteq Nat
      /\ \A i \in DOMAIN ep2 : i >= 1
      /\ \A i \in DOMAIN ep2' : i + 1 \in DOMAIN ep2 /\ ep2'[i] = ep2[i + 1] /\ i + 1 > 1
      /\ \A i \in DOMAIN ep2 : i = 1 \/ (i - 1 \in DOMAIN ep2' /\ ep2'[i - 1] = ep2[i])
  BY <1>1, Shortened
<1> HIDE DEF op, val
<1>3. NackTrue' = NackTrue /\ \A v : Right(v)' = Right(v)
  BY <1>1 DEF NackTrue, Right
<1>4. \A k \in DOMAIN ep2 : RightSince(k) => \A m \in Nat : m + 1 >= k => RightSince(m)'
  BY <1>2, <1>3 DEF RightSince, IsReset, Right
<1>5. AllRight => AllRight'
  <2>1. RightSince(1) => RightSince(1)'
    BY <1>2, <1>4
  <2>2. RightSince(1) /\ Right(hw) => Right(hw)'
    BY <1>1, <1>2 DEF RightSince, IsReset, Right, NackTrue, op, val
  <2> QED BY <2>1, <2>2 DEF AllRight
<1>16. RightAtLast => RightAtLast'
  <2> SUFFICES ASSUME NEW k \in DOMAIN ep2, IsReset(k), RightSince(k) PROVE RightAtLast'
      BY <1>5 DEF RightAtLast
  <2>1. CASE k = 1
    <3>1. hw' = val /\ Right(val)
      BY <1>1, <1>2, <2>1 DEF IsReset, RightSince, op, val
    <3>2. RightSince(1)' /\ Right(hw)'
      BY <1>1, <1>4, <2>1, <3>1 DEF Right, NackTrue
    <3> QED BY <3>2 DEF RightAtLast, AllRight
  <2>2. CASE k # 1
    <3>1. k - 1 \in DOMAIN ep2' /\ ep2'[k - 1] = ep2[k] /\ k - 1 \in Nat /\ k \in Nat
      BY <1>2, <2>2
    <3>2. RightSince(k - 1)' /\ IsReset(k - 1)'
      BY <1>4, <3>1 DEF IsReset
    <3> QED BY <3>1, <3>2 DEF RightAtLast
  <2> QED BY <2>1, <2>2
<1>6. ASSUME NEW k \in DOMAIN ep2, IsReset(k), RightSince(k),
             \A c \in DOMAIN ep2 : OpAt(c) = "cr" => k < c
      PROVE  RightInTime'
  <2>1. CASE k = 1
    <3>1. hw' = val /\ Right(val)
      BY <1>1, <1>2, <1>6, <2>1 DEF IsReset, RightSince, op, val
    <3>2. RightSince(1)' /\ Right(hw)'
      BY <1>1, <1>4, <1>6, <2>1, <3>1 DEF Right, NackTrue
    <3> QED BY <3>2 DEF RightInTime, AllRight
  <2>2. CASE k # 1
    <3>1. k - 1 \in DOMAIN ep2' /\ ep2'[k - 1] = ep2[k] /\ k - 1 \in Nat /\ k \in Nat
      BY <1>2, <2>2
    <3>2. RightSince(k - 1)' /\ IsReset(k - 1)'
      BY <1>4, <1>6, <3>1 DEF IsReset
    <3>3. ASSUME NEW c \in DOMAIN ep2', OpAt(c)' = "cr" PROVE k - 1 < c
      <4>1. OpAt(c + 1) = "cr" /\ c + 1 \in DOMAIN ep2 /\ c \in Nat
        BY <1>2, <3>3 DEF OpAt
      <4> QED BY <1>6, <3>1, <4>1
    <3> QED BY <3>1, <3>2, <3>3 DEF RightInTime
  <2> QED BY <2>1, <2>2
<1>7. RightInTime => RightInTime'
  BY <1>5, <1>6 DEF RightInTime
<1>8. /\ NoOp("txr") => NoOp("txr")' /\ op # "txr"
      /\ NoOp("cr") => NoOp("cr")' /\ op # "cr"
  BY <1>2 DEF NoOp, OpAt, op
<1>9. op # "cr" => /\ bus' = bus /\ core' \in {core, [core EXCEPT !.txr = val]}
                   /\ core'.tip = core.tip /\ core'.cr = core.cr /\ core'.shift = core.shift
                   /\ core'.nack = core.nack
                   /\ core'.txr = IF op = "txr" THEN val ELSE core.txr
  BY <1>1 DEF CoreOK
<1>10. op # "cr" => (Before => Before') /\ (TxrSent => TxrSent')
  <2> SUFFICES ASSUME op # "cr" PROVE (Before => Before') /\ (TxrSent => TxrSent')
      OBVIOUS
  <2>1. Before => Before'
    BY <1>1, <1>7, <1>9, <1>same DEF Before
  <2>2. CASE Sends
    <3> SUFFICES ASSUME TxrSent PROVE TxrSent'
        BY <2>1
    <3>1. \A j \in DOMAIN ep2' : ep2'[j].cmd.op = "txr" => ep2'[j].cmd.val = TxVal'
      BY <1>1, <1>2, <2>2, <1>same DEF TxrSent, OpAt
    <3>2. core'.txr = TxVal' \/ ~NoOp("txr")'
      <4>1. CASE op = "txr"
        BY <1>1, <1>2, <1>9, <2>2, <4>1, <1>same DEF TxrSent, OpAt, op, val
      <4>2. CASE op # "txr"
        <5>1. CASE core.txr = TxVal
          BY <1>1, <1>9, <4>2, <5>1, <1>same
        <5>2. ASSUME NEW j \in DOMAIN ep2, OpAt(j) = "txr" PROVE ~NoOp("txr")'
          <6>1. j - 1 \in DOMAIN ep2' /\ ep2'[j - 1].cmd.op = "txr"
            BY <1>2, <4>2, <5>2 DEF OpAt, op
          <6> QED BY <6>1 DEF NoOp, OpAt
        <5> QED BY <2>2, <5>1, <5>2 DEF TxrSent, NoOp
      <4> QED BY <4>1, <4>2
    <3> QED BY <1>1, <2>2, <3>1, <3>2, <1>same DEF TxrSent, OpAt
  <2>3. CASE ~Sends
    BY <1>1, <1>8, <2>1, <2>3, <1>same DEF TxrSent
  <2> QED BY <2>1, <2>2, <2>3
<1>11. Fresh => Fresh'
  BY <1>8, <1>10 DEF Fresh
<1>12. Loaded => Loaded'
  BY <1>8, <1>10 DEF Loaded
<1>13. OnBus => OnBus'
  BY <1>1, <1>5, <1>8, <1>9, <1>same DEF OnBus
<1>14. Through => Through'
  BY <1>1, <1>3, <1>5, <1>8, <1>9, <1>same DEF Through
<1>15. ASSUME CrSent PROVE CrSent' \/ OnBus'
  <2>1. PICK c \in DOMAIN ep2 :
          /\ OpAt(c) = "cr" /\ ep2[c].cmd.val = CrVal
          /\ \A j \in DOMAIN ep2 : (OpAt(j) = "txr" => j < c) /\ (OpAt(j) = "cr" => j = c)
    BY <1>15 DEF CrSent
  <2>2. CASE c = 1
    <3>1. op = "cr" /\ val = CrVal /\ ~core.tip /\ NoOp("txr")
      BY <1>2, <1>15, <2>1, <2>2 DEF OpAt, op, val, CrSent, Before, NoOp
    <3>2. core' = [core EXCEPT !.tip = TRUE, !.shift = core.txr, !.cr = val] /\ bus' = bus
      BY <1>1, <3>1
    <3>3. core'.tip /\ core'.cr = CrVal /\ core'.shift = core.txr
      BY <3>1, <3>2 DEF CoreOK
    <3>4. Sends => core.txr = TxVal
      BY <1>15, <3>1 DEF CrSent, TxrSent
    <3>5. AllRight
      <4>1. \A k \in DOMAIN ep2 : ~(k < 1)
        BY <1>2
      <4> QED BY <1>2, <1>15, <2>1, <2>2, <4>1 DEF CrSent, Before, RightInTime
    <3>6. NoOp("txr")' /\ NoOp("cr")'
      BY <1>2, <2>1, <2>2 DEF NoOp, OpAt
    <3> QED BY <1>1, <1>5, <1>15, <3>2, <3>3, <3>4, <3>5, <3>6, <1>same
            DEF OnBus, CrSent, Before
  <2>3. CASE c # 1
    <3>1. op # "cr"
      BY <1>2, <2>1, <2>3 DEF OpAt, op
    <3>2. /\ c - 1 \in DOMAIN ep2' /\ OpAt(c - 1)' = "cr" /\ ep2'[c - 1].cmd.val = CrVal'
      BY <1>1, <1>2, <2>1, <2>3, <1>same DEF OpAt
    <3>3. ASSUME NEW j \in DOMAIN ep2'
          PROVE  (OpAt(j)' = "txr" => j < c - 1) /\ (OpAt(j)' = "cr" => j = c - 1)
      <4>1. OpAt(j)' = OpAt(j + 1) /\ j + 1 \in DOMAIN ep2 /\ j \in Nat /\ c \in Nat
        BY <1>2 DEF OpAt
      <4> QED BY <2>1, <4>1
    <3> QED BY <1>10, <1>15, <3>1, <3>2, <3>3 DEF CrSent, OpAt
  <2> QED BY <2>2, <2>3
<1> QED BY <1>3, <1>11, <1>12, <1>13, <1>14, <1>15, <1>16 DEF Kept, UnderWay

\* The byte is through.
LEMMA ByteKeeps ==
  ASSUME TypeOK, CoreOK, I2cByteDone
  PROVE  Kept
<1> HIDE DEF UsbAssumption, DeviceAssumption, Values
<1>1. /\ core.tip /\ i2c' = i2c /\ ep2' = ep2 /\ hw' = hw /\ torn' = torn /\ intended' = intended
      /\ bus' = (CASE "start" \in core.cr -> <<On("start", core.shift)>>
                   [] "read" \in core.cr  -> Append(bus, On("read", {}))
                   [] OTHER               -> Append(bus, On("write", core.shift)))
                \o (IF "stop" \in core.cr THEN <<On("stop", {})>> ELSE <<>>)
      /\ core' = [core EXCEPT !.tip = FALSE, !.nack = "sony" \in hw]
  BY DEF I2cByteDone, usbVars, resetVars
<1>2. ~core'.tip /\ core'.nack = ("sony" \in hw)
  BY <1>1 DEF CoreOK
<1>3. /\ NackTrue' = NackTrue /\ (AllRight => AllRight') /\ (RightAtLast => RightAtLast')
  BY <1>1 DEF NackTrue, AllRight, RightAtLast, RightSince, Right, IsReset, OpAt
<1>4. ~Fresh /\ ~Loaded /\ ~CrSent /\ ~Through
  BY <1>1 DEF Fresh, Loaded, CrSent, Through, Before
<1>5. ASSUME OnBus PROVE Through'
  <2>1. i2c.i \in Nat /\ i2c.op \in {"write", "read"}
    BY DEF TypeOK, I2cTypeOK
  <2>2. /\ "start" \in core.cr <=> i2c.i = 0
        /\ i2c.i # 0 => ("read" \in core.cr <=> i2c.op = "read")
        /\ "stop" \in core.cr <=> Last
    BY <1>5, <2>1 DEF OnBus, CrVal
  <2> DEFINE done == CASE "start" \in core.cr -> <<On("start", core.shift)>>
                       [] "read" \in core.cr  -> Append(bus, On("read", {}))
                       [] OTHER               -> Append(bus, On("write", core.shift))
  <2>3. done = Bytes(i2c.op, i2c.i)
    <3>1. CASE i2c.i = 0
      <4>1. core.shift = Address(i2c.op)
        BY <1>5, <3>1 DEF OnBus, Sends, TxVal
      <4>2. Bytes(i2c.op, 0) = <<On("start", Address(i2c.op))>>
        BY BytesNext
      <4>3. done = <<On("start", core.shift)>>
        <5>1. "start" \in core.cr /\ "read" \notin core.cr
          BY <1>5, <3>1 DEF OnBus, CrVal
        <5> QED BY <5>1
      <4> HIDE DEF done
      <4> QED BY <3>1, <4>1, <4>2, <4>3
    <3>2. CASE i2c.i # 0
      <4>1. bus = Bytes(i2c.op, i2c.i - 1) /\ i2c.i - 1 \in Nat /\ (i2c.i - 1) + 1 = i2c.i
        BY <1>5, <2>1, <3>2 DEF OnBus
      <4>2. Append(bus, ByteEvent(i2c.op, i2c.i)) = Bytes(i2c.op, i2c.i)
        BY <4>1, BytesNext
      <4>3. i2c.op = "write" => core.shift = DataByte(i2c.i)
        BY <1>5, <3>2 DEF OnBus, Sends, TxVal
      <4>4. done = Append(bus, ByteEvent(i2c.op, i2c.i))
        BY <2>1, <2>2, <3>2, <4>3 DEF ByteEvent
      <4> QED BY <4>2, <4>4
    <3> QED BY <3>1, <3>2
  <2>4. bus' = done \o (IF "stop" \in core.cr THEN <<On("stop", {})>> ELSE <<>>)
    BY <1>1
  <2> HIDE DEF done
  <2>5. bus' = Bytes(i2c.op, i2c.i) \o (IF Last THEN <<On("stop", {})>> ELSE <<>>)
    BY <2>2, <2>3, <2>4
  <2>6. NoOp("txr")' /\ NoOp("cr")'
    BY <1>1, <1>5 DEF OnBus, NoOp, OpAt
  <2>7. core'.nack => NackTrue'
    BY <1>2, <1>3, <1>5 DEF OnBus, AllRight, Right
  <2>8. AllRight' /\ Last' = Last
    BY <1>1, <1>3, <1>5 DEF OnBus, Last
  <2>9. (bus = Bytes(i2c.op, i2c.i) \o (IF Last THEN <<On("stop", {})>> ELSE <<>>))'
    BY <1>1, <2>5, <2>8
  <2> QED BY <1>2, <2>6, <2>7, <2>8, <2>9 DEF Through
<1> QED BY <1>3, <1>4, <1>5 DEF Kept, UnderWay

\* The next byte.
LEMMA AdvanceKeeps ==
  ASSUME TypeOK, Through, UNCHANGED <<core, bus, ep2, hw, torn, intended>>, ~Last,
         i2c'.op = i2c.op, i2c'.i = i2c.i + 1
  PROVE  Fresh' /\ (~Sends' => Loaded')
<1> HIDE DEF UsbAssumption, DeviceAssumption, Values
<1>1. i2c.i \in Nat
  BY DEF TypeOK, I2cTypeOK
<1>2. AllRight' /\ NoOp("txr")' /\ NoOp("cr")' /\ ~core'.tip
  BY DEF Through, AllRight, Right, RightSince, NackTrue, IsReset, NoOp, OpAt
<1>3. bus' = Bytes(i2c.op, i2c.i) /\ (i2c.i - 1)' = i2c.i
  <2>1. Bytes(i2c.op, i2c.i) \o <<>> = Bytes(i2c.op, i2c.i)
    BY <1>1, BytesNext
  <2> QED BY <1>1, <2>1 DEF Through
<1>4. Bytes(i2c.op, i2c.i - 1)' = Bytes(i2c.op, i2c.i)
  BY <1>3 DEF Bytes, Address, DataByte, ByteEvent, On
<1>5. Before'
  BY <1>2, <1>3, <1>4 DEF Before, RightInTime
<1> QED BY <1>2, <1>5 DEF Fresh, Loaded, TxrSent

\* The commands of the transaction itself: the byte, ...
LEMMA TxrKeeps ==
  ASSUME ep2 \in Seq(Sent), Fresh, Sends, NEW e \in Sent, ep2' = Append(ep2, e),
         e.cmd = Send("txr", TxVal), UNCHANGED <<i2c, core, bus, hw, torn, intended>>
  PROVE  Loaded'
<1> HIDE DEF UsbAssumption, DeviceAssumption, Sent
<1>1. /\ DOMAIN ep2' = DOMAIN ep2 \cup {Len(ep2) + 1} /\ ep2'[Len(ep2) + 1] = e
      /\ \A j \in DOMAIN ep2 : ep2'[j] = ep2[j]
  BY Appended
<1>2. e.cmd.op = "txr" /\ e.cmd.val = TxVal
  BY DEF Send
<1>same. TxVal' = TxVal /\ Sends' /\ Bytes(i2c.op, i2c.i - 1)' = Bytes(i2c.op, i2c.i - 1)
  BY SameByte DEF SameI2c
<1>3. /\ \A j \in DOMAIN ep2' : OpAt(j)' = "txr" => (ep2[j].cmd.val = TxVal)'
      /\ ~NoOp("txr")' /\ NoOp("cr")'
  BY <1>1, <1>2, <1>same DEF Fresh, NoOp, OpAt
<1>4. TxrSent'
  BY <1>3, <1>same DEF TxrSent
<1>5. Grown
  BY <1>2, GrownBy
<1>6. AllRight => AllRight'
  BY <1>5, RightKeeps DEF NackTrue
<1>7. RightInTime'
  <2>1. ASSUME NEW k \in DOMAIN ep2, IsReset(k), RightSince(k) PROVE RightInTime'
    <3>1. RightSince(k)'
      BY <1>5, <2>1, RightKeeps DEF NackTrue
    <3>2. k \in DOMAIN ep2' /\ IsReset(k)'
      BY <1>1, <2>1 DEF IsReset
    <3> QED BY <1>3, <3>1, <3>2 DEF RightInTime, NoOp
  <2> QED BY <1>6, <2>1 DEF Fresh, Before, RightInTime
<1>8. Before'
  BY <1>7, <1>same DEF Fresh, Before
<1> QED BY <1>3, <1>4, <1>8 DEF Loaded

\* ... and what to do with it.
LEMMA CrKeeps ==
  ASSUME ep2 \in Seq(Sent), Loaded, NEW e \in Sent, ep2' = Append(ep2, e),
         e.cmd = Send("cr", CrVal), UNCHANGED <<i2c, core, bus, hw, torn, intended>>
  PROVE  CrSent'
<1> HIDE DEF UsbAssumption, DeviceAssumption, Sent
<1>1. PICK last \in Nat :
        /\ DOMAIN ep2' = DOMAIN ep2 \cup {last} /\ ep2'[last] = e
        /\ \A j \in DOMAIN ep2 : ep2'[j] = ep2[j] /\ j < last
        /\ last \notin DOMAIN ep2
  <2>1. DOMAIN ep2 = 1 .. Len(ep2) /\ Len(ep2) \in Nat
    BY LenProperties
  <2> QED BY <2>1, Appended
<1>2. e.cmd.op = "cr" /\ e.cmd.val = CrVal
  BY DEF Send
<1>same. /\ TxVal' = TxVal /\ CrVal' = CrVal /\ Sends' = Sends
         /\ Bytes(i2c.op, i2c.i - 1)' = Bytes(i2c.op, i2c.i - 1)
  BY SameByte DEF SameI2c
<1>3. /\ \A j \in DOMAIN ep2' : /\ OpAt(j)' = "txr" => j < last
                                /\ OpAt(j)' = "cr" => j = last
      /\ OpAt(last)' = "cr" /\ ep2'[last].cmd.val = CrVal'
  BY <1>1, <1>2, <1>same DEF Loaded, NoOp, OpAt
<1>4. TxrSent'
  <2>1. NoOp("txr") => NoOp("txr")'
    BY <1>1, <1>2 DEF NoOp, OpAt
  <2>2. ~NoOp("txr") => ~NoOp("txr")'
    BY <1>1 DEF NoOp, OpAt
  <2>3. CASE Sends
    <3>1. \A j \in DOMAIN ep2' : OpAt(j)' = "txr" => (ep2[j].cmd.val = TxVal)'
      BY <1>1, <1>2, <1>same, <2>3 DEF Loaded, TxrSent, OpAt
    <3> QED BY <1>same, <2>2, <2>3, <3>1 DEF Loaded, TxrSent
  <2>4. CASE ~Sends
    BY <1>same, <2>1, <2>4 DEF Loaded, TxrSent
  <2> QED BY <2>3, <2>4
<1>5. Grown
  BY <1>2, GrownBy
<1>6. AllRight => AllRight'
  BY <1>5, RightKeeps DEF NackTrue
<1>7. RightInTime'
  <2>1. ASSUME NEW k \in DOMAIN ep2, IsReset(k), RightSince(k) PROVE RightInTime'
    <3>1. RightSince(k)'
      BY <1>5, <2>1, RightKeeps DEF NackTrue
    <3>2. k \in DOMAIN ep2' /\ IsReset(k)' /\ k < last
      BY <1>1, <2>1 DEF IsReset
    <3>3. \A c \in DOMAIN ep2' : OpAt(c)' = "cr" => k < c
      BY <1>3, <3>2
    <3> QED BY <3>1, <3>2, <3>3 DEF RightInTime
  <2> QED BY <1>6, <2>1 DEF Loaded, Before, RightInTime
<1>8. Before'
  BY <1>7, <1>same DEF Loaded, Before
<1> QED BY <1>1, <1>3, <1>4, <1>8 DEF CrSent

-----------------------------------------------------------------------------
(* The threads, their commands and the registers. *)

LEMMA CoreKept ==
  ASSUME TypeOK, CoreOK, [Next]_vars
  PROVE  CoreOK'
<1> HIDE DEF UsbAssumption, DeviceAssumption, Values
<1>1. CASE FpgaExec
  <2>1. Head(ep2).cmd.val \in Values
    <3>1. ep2 # <<>> /\ ep2 \in Seq(Sent)
      BY <1>1, Zenon DEF FpgaExec, TypeOK, UsbTypeOK, Sent
    <3>2. Head(ep2) \in Sent
      BY <3>1
    <3> QED BY <3>2 DEF Sent, Command
  <2>2. \/ core' = core
        \/ core' = [core EXCEPT !.txr = Head(ep2).cmd.val]
        \/ core' = [core EXCEPT !.tip = TRUE, !.shift = core.txr, !.cr = Head(ep2).cmd.val]
    BY <1>1 DEF FpgaExec
  <2> QED BY <2>1, <2>2 DEF CoreOK
<1>2. CASE I2cByteDone
  <2>1. core' = [core EXCEPT !.tip = FALSE, !.nack = "sony" \in hw]
    BY <1>2 DEF I2cByteDone
  <2>2. core'.txr = core.txr /\ core'.nack \in BOOLEAN
    BY <2>1 DEF CoreOK
  <2> QED BY <2>1, <2>2 DEF CoreOK
<1>3. CASE ~FpgaExec /\ ~I2cByteDone
  <2>1. core' = core
    <3>1. FeStep => core' = core
      BY Zenon DEF FeStep, I2cTxr, I2cCr, I2cWrote, I2cPoll, I2cPollEnds, I2cPolled, I2cCheck,
         I2cRxr, I2cRead, I2cReturn, I2cCall
    <3>2. OpenBegin \/ OpenStep \/ Down => core' = core
      BY Zenon DEF OpenBegin, OpenStep, OpenCleanup, OpenCommand, OpenNext, OpenReset, OpenReturn,
         Down, i2cVars
    <3>3. ASSUME NEW t \in Threads,
                 \/ IoStep(t) /\ UNCHANGED ClientVars
                 \/ \E put \in BOOLEAN : ResetBegin(t, put)
                 \/ ResetStep(t)
          PROVE  core' = core
      BY <3>3, Zenon DEF ClientVars, ResetBegin, ResetStep, ResetLoad, ResetStore, ResetWrite,
         ResetReturn, i2cVars
    <3>4. CiCommand \/ CiDone \/ (\E op, size : I2cBegin(op, size)) => core' = core
      BY Zenon DEF CiCommand, CiDone, I2cBegin, i2cVars
    <3> QED BY <1>3, <3>1, <3>2, <3>3, <3>4, Zenon DEF Next, vars, i2cVars
  <2> QED BY <2>1 DEF CoreOK
<1> QED BY <1>1, <1>2, <1>3

LEMMA HoldsKept ==
  ASSUME UsbTypeOK, HoldsInv, [UsbNext]_usbVars
  PROVE  HoldsInv'
<1> HIDE DEF UsbAssumption, DeviceAssumption
<1> USE DEF UsbTypeOK, HoldsInv
<1>1. ASSUME NEW t \in Threads, IoStep(t) PROVE HoldsInv'
  <2>1. \A u \in Threads : u # t => ioPc'[u] = ioPc[u] /\ ret'[u] = ret[u]
    BY <1>1 DEF IoStep, IoOut, IoOutFails, IoIn, IoInFails, IoReturn
  <2>2. cmd' = cmd /\ failed \in Nat /\ (failed' = failed \/ failed' = failed + 1)
    BY <1>1 DEF IoStep, IoOut, IoOutFails, IoIn, IoInFails
  <2>3. /\ ioPc'[t] = "in" => cmd[t].len > 0
        /\ failed' = failed /\ ioPc'[t] = "done" /\ cmd[t].len = 0 => ret'[t].ok
    BY <1>1 DEF IoStep, IoOut, IoOutFails, IoIn, IoInFails, IoReturn, WantsReply
  <2> QED BY <2>1, <2>2, <2>3
<1>2. ASSUME NEW t \in Threads, Consume(t) \/ \E c \in Command : Call(t, c) PROVE HoldsInv'
  BY <1>2 DEF Consume, Call
<1>3. ASSUME NEW v \in Values, FpgaTake(v) PROVE HoldsInv'
  BY <1>3 DEF FpgaTake
<1>4. CASE CleanupRead \/ UNCHANGED usbVars
  BY <1>4 DEF CleanupRead, usbVars
<1>5. CASE ProcessEnds
  BY <1>5 DEF ProcessEnds
<1> QED BY <1>1, <1>2, <1>3, <1>4, <1>5, Zenon DEF UsbNext

LEMMA WaitsKept ==
  ASSUME TypeOK, ResetInv, WaitsInv, [Next]_vars
  PROVE  WaitsInv'
<1> HIDE DEF UsbAssumption, DeviceAssumption, Values
<1>0. "fe" \in Threads /\ "ci" \in Threads /\ "fe" # "ci"
  BY DeviceAssumption DEF DeviceAssumption
<1>1. CASE OpenBegin \/ OpenStep
  <2>1. i2c.pc = "idle" /\ i2c' = i2c
    BY <1>1 DEF ResetInv, OpenInv, OpenBegin, OpenStep, OpenCleanup, OpenCommand, OpenNext,
       OpenReset, OpenReturn, i2cVars
  <2>2. cmd'["ci"] = cmd["ci"]
    <3>1. OpenCommand => cmd'["ci"] = cmd["ci"]
      BY <1>0, CallEffect DEF OpenCommand
    <3>2. OpenNext => cmd'["ci"] = cmd["ci"]
      BY <1>0, ConsumeEffect DEF OpenNext
    <3>3. OpenBegin \/ OpenCleanup \/ OpenReset \/ OpenReturn => cmd' = cmd
      BY DEF OpenBegin, OpenCleanup, CleanupRead, OpenReset, OpenReturn, usbVars
    <3> QED BY <1>1, <3>1, <3>2, <3>3 DEF OpenStep
  <2> QED BY <2>1, <2>2 DEF WaitsInv
<1>2. CASE Down
  BY <1>0, <1>2 DEF Down, ProcessEnds, NoI2c, NoCmd, WaitsInv
<1>3. ASSUME NEW t \in Threads, IoStep(t), UNCHANGED ClientVars PROVE WaitsInv'
  <2>1. i2c' = i2c /\ cmd' = cmd
    BY <1>3, IoEffect DEF ClientVars, i2cVars
  <2>2. FeIo' = "idle" <=> FeIo = "idle"
    BY <1>0, <1>3, IoEffect DEF FeIo
  <2> QED BY <2>1, <2>2 DEF WaitsInv
<1>4. ASSUME NEW t \in Threads, NEW put \in BOOLEAN, ResetBegin(t, put) PROVE WaitsInv'
  BY <1>4 DEF ResetBegin, usbVars, i2cVars, WaitsInv, FeIo
<1>5. ASSUME NEW t \in Threads, ResetStep(t) PROVE WaitsInv'
  <2>1. i2c' = i2c /\ InReset(t)
    BY <1>5 DEF ResetStep, ResetLoad, ResetStore, ResetWrite, ResetReturn, i2cVars, InReset
  <2>2. i2c.pc = "idle" \/ (t # "fe" /\ FeIo' = FeIo)
    <3>1. CASE t = "fe"
      BY <2>1, <3>1 DEF ResetInv, HandInv
    <3>2. CASE t # "fe"
      <4>1. UNCHANGED usbVars \/ Consume(t) \/ \E c : Call(t, c)
        BY <1>5 DEF ResetStep, ResetLoad, ResetStore, ResetWrite, ResetReturn
      <4> QED BY <1>0, <3>2, <4>1, CallEffect, ConsumeEffect DEF FeIo, usbVars
    <3> QED BY <3>1, <3>2
  <2>3. cmd'["ci"].op \notin {"txr", "cr"}
    <3>1. UNCHANGED usbVars \/ Consume(t) \/ \E c : Call(t, c) /\ c.op = "reset"
      BY <1>5 DEF ResetStep, ResetLoad, ResetStore, ResetWrite, ResetReturn, Send
    <3>2. CASE UNCHANGED usbVars
      BY <3>2 DEF usbVars, WaitsInv
    <3>3. CASE Consume(t)
      BY <1>0, <3>3, ConsumeEffect DEF WaitsInv, NoCmd
    <3>4. ASSUME NEW c, Call(t, c), c.op = "reset" PROVE cmd'["ci"].op \notin {"txr", "cr"}
      BY <1>0, <3>4, CallEffect DEF WaitsInv
    <3> QED BY <3>1, <3>2, <3>3, <3>4
  <2> QED BY <2>1, <2>2, <2>3 DEF WaitsInv
<1>6. CASE CiCommand \/ CiDone
  <2>1. i2c' = i2c
    BY <1>6 DEF CiCommand, CiDone, i2cVars
  <2>2. Consume("ci") \/ \E c : Call("ci", c) /\ c.op = "ci"
    BY <1>6 DEF CiCommand, CiDone, Fetch
  <2>3. FeIo' = FeIo /\ cmd'["ci"].op \notin {"txr", "cr"}
    <3>1. CASE Consume("ci")
      BY <1>0, <3>1, ConsumeEffect DEF FeIo, NoCmd
    <3>2. ASSUME NEW c, Call("ci", c), c.op = "ci"
          PROVE  FeIo' = FeIo /\ cmd'["ci"].op \notin {"txr", "cr"}
      BY <1>0, <3>2, CallEffect DEF FeIo
    <3> QED BY <2>2, <3>1, <3>2
  <2> QED BY <2>1, <2>3 DEF WaitsInv
<1>7. ASSUME NEW op, NEW size, I2cBegin(op, size) PROVE WaitsInv'
  <2>1. i2c'.pc = "txr" /\ ioPc["fe"] = "idle" /\ ioPc' = ioPc /\ cmd' = cmd
    BY <1>7 DEF I2cBegin, MayCall, NoI2c, usbVars
  <2> QED BY <2>1 DEF WaitsInv, FeIo
<1>8. CASE FeStep
  <2> USE DEF TypeOK, I2cTypeOK
  <2>1. ASSUME \/ I2cTxr /\ i2c'.pc = "txr_wait"
               \/ I2cCr /\ i2c'.pc = "cr_wait"
               \/ I2cPoll /\ i2c'.pc = "poll_wait"
               \/ I2cRxr /\ i2c'.pc = "rxr_wait"
        PROVE  WaitsInv'
    <3>1. \E c : Call("fe", c)
      BY <2>1, Zenon DEF I2cTxr, I2cCr, I2cPoll, I2cRxr, I2cCall
    <3>2. FeIo' = "lock" /\ cmd'["ci"] = cmd["ci"]
      BY <1>0, <3>1, CallEffect DEF FeIo
    <3> QED BY <2>1, <3>2 DEF WaitsInv
  <2>2. /\ I2cTxr => i2c'.pc = "txr_wait"
        /\ I2cCr => i2c'.pc = "cr_wait"
        /\ I2cPoll => i2c'.pc = "poll_wait"
        /\ I2cRxr => i2c'.pc = "rxr_wait"
    BY DEF I2cTxr, I2cCr, I2cPoll, I2cRxr, I2cCall
  <2>3. CASE I2cWrote \/ I2cPolled \/ I2cRead
    <3>1. Consume("fe")
      BY <2>3, Zenon DEF I2cWrote, I2cPolled, I2cRead
    <3>2. FeIo' = "idle" /\ cmd'["ci"] = cmd["ci"]
      BY <1>0, <3>1, ConsumeEffect DEF FeIo
    <3>3. i2c'.pc \notin {"txr_wait", "cr_wait", "poll_wait", "rxr_wait"}
      <4>1. CASE I2cWrote
        BY <4>1 DEF I2cWrote
      <4>2. CASE I2cPolled
        BY <4>2 DEF I2cPolled
      <4>3. CASE I2cRead
        BY <4>3 DEF I2cRead, I2cAdvance, I2cResult
      <4> QED BY <2>3, <4>1, <4>2, <4>3
    <3> QED BY <3>2, <3>3 DEF WaitsInv
  <2>4. CASE I2cPollEnds \/ I2cCheck \/ I2cReturn
    <3>1. UNCHANGED usbVars
      BY <2>4, Zenon DEF I2cPollEnds, I2cCheck, I2cReturn
    <3>2. FeIo' = "idle" /\ cmd' = cmd
      BY <2>4, <3>1 DEF I2cPollEnds, I2cCheck, I2cReturn, usbVars, FeIo, WaitsInv
    <3>3. i2c'.pc \notin {"txr_wait", "cr_wait", "poll_wait", "rxr_wait"}
      <4>1. /\ I2cPollEnds => i2c'.pc = "check"
            /\ I2cReturn => i2c'.pc = "idle"
        <5>1. I2cPollEnds => i2c'.pc = "check"
          BY DEF I2cPollEnds
        <5>2. I2cReturn => i2c'.pc = "idle"
          BY DEF I2cReturn, NoI2c
        <5> QED BY <5>1, <5>2
      <4>2. (\E res : I2cResult(res)) \/ I2cAdvance => i2c'.pc \in {"return", "txr", "cr"}
        BY DEF I2cAdvance, I2cResult
      <4>3. I2cCheck => i2c'.pc \in {"return", "txr", "cr", "rxr"}
        BY <4>2 DEF I2cCheck
      <4> QED BY <2>4, <4>1, <4>3
    <3> QED BY <3>2, <3>3 DEF WaitsInv
  <2> QED BY <1>8, <2>1, <2>2, <2>3, <2>4, Zenon DEF FeStep
<1>9. CASE FpgaExec \/ I2cByteDone \/ UNCHANGED vars
  <2>1. UNCHANGED <<i2c, ioPc, cmd>>
    BY <1>9, Zenon DEF FpgaExec, FpgaTake, I2cByteDone, vars, usbVars, i2cVars
  <2> QED BY <2>1 DEF WaitsInv, FeIo
<1> QED BY <1>1, <1>2, <1>3, <1>4, <1>5, <1>6, <1>7, <1>8, <1>9, Zenon DEF Next

\* Before joker_open comes to its end it is not there.
LEMMA NotYetOpen ==
  ASSUME TypeOK, OpenInv, opening # <<>>, opening # <<"return">>,
         opening' \in {opening, Tail(opening), <<>>}
  PROVE  ~up /\ opening' # <<"return">>
<1>1. opening \in Seq(Ops \cup {"return"})
  BY DEF TypeOK, OpenTypeOK
<1>2. \A k \in DOMAIN opening : opening[k] # "return"
  BY DEF OpenInv
<1>3. \A k \in DOMAIN Tail(opening) : Tail(opening)[k] # "return"
  <2> HIDE DEF Ops
  <2> QED BY <1>1, <1>2, Shortened
<1>4. 1 \in DOMAIN <<"return">> /\ <<"return">>[1] = "return"
  OBVIOUS
<1>5. opening' # <<"return">>
  BY <1>3, <1>4
<1> QED BY <1>5 DEF OpenInv

\* What the threads send to the reset register has the chip in reset only when asked
\* for, unless it is the value of a call of the I2C master's own thread.
LEMMA RightSent ==
  ASSUME ResetInv, NEW t \in Threads, ioPc[t] = "lock", cmd[t].op = "reset",
         UNCHANGED <<cmd, torn, intended>>
  PROVE  Right(cmd[t].val)'
BY DEF ResetInv, HandInv, AskedInv, StageInv, Right, NackTrue

LEMMA IoGrows ==
  ASSUME TypeOK, ResetInv, NEW t \in Threads, IoStep(t), UNCHANGED <<torn, intended>>
  PROVE  /\ Grown
         /\ cmd[t].op \notin {"txr", "cr"} =>
              \A j \in DOMAIN ep2' \ DOMAIN ep2 : ep2'[j].cmd.op \notin {"txr", "cr"}
<1> HIDE DEF UsbAssumption, DeviceAssumption
<1>1. ep2 \in Seq(Sent)
  BY DEF TypeOK, UsbTypeOK, Sent
<1>2. ep2' = ep2 \/ (\E e \in Sent : ep2' = Append(ep2, e) /\ e.cmd = cmd[t] /\ ioPc[t] = "lock")
  BY IoEffect DEF IoStep, IoOut, IoOutFails, IoIn, IoInFails
<1>3. Grown
  <2>1. cmd' = cmd
    BY IoEffect
  <2>2. ASSUME NEW e \in Sent, ep2' = Append(ep2, e), e.cmd = cmd[t], ioPc[t] = "lock"
        PROVE  Grown
    <3>1. e.cmd.op = "reset" => Right(e.cmd.val)'
      BY <2>1, <2>2, RightSent DEF Right
    <3> QED BY <1>1, <2>2, <3>1, GrownBy
  <2> QED BY <1>1, <1>2, <2>2, GrownBy
<1>4. ASSUME NEW e \in Sent, ep2' = Append(ep2, e), e.cmd = cmd[t],
             NEW j \in DOMAIN ep2' \ DOMAIN ep2
      PROVE  ep2'[j].cmd = cmd[t]
  <2> HIDE DEF Sent
  <2>1. DOMAIN ep2' = DOMAIN ep2 \cup {Len(ep2) + 1} /\ ep2'[Len(ep2) + 1] = e
    BY <1>1, <1>4, Appended
  <2> QED BY <1>4, <2>1
<1> QED BY <1>2, <1>3, <1>4

LEMMA SonyKept ==
  ASSUME DInv, ResetInv, CoreOK, HoldsInv, SonyInv, [Next]_vars
  PROVE  SonyInv'
<1> HIDE DEF UsbAssumption, DeviceAssumption, Values
<1>0. /\ "fe" \in Threads /\ "ci" \in Threads /\ "fe" # "ci"
      /\ TypeOK /\ ep2 \in Seq(Sent) /\ failed \in Nat
  BY DeviceAssumption DEF DeviceAssumption, DInv, TypeOK, UsbTypeOK, Sent
<1> DEFINE Known == failed = 0 /\ (up \/ opening = <<"return">>) /\ ~InReset("fe")
<1>1. ASSUME ep2' = ep2, hw' = hw, NackTrue => NackTrue', Known' => Known
      PROVE  SonyInv'
  <2>1. Grown
    BY <1>0, <1>1, GrownBy
  <2> QED BY <1>1, <2>1, RightKeeps DEF SonyInv
<1>2. ASSUME ~Known' PROVE SonyInv'
  BY <1>2 DEF SonyInv
<1>3. CASE OpenBegin \/ OpenCleanup \/ OpenCommand \/ OpenNext \/ OpenReset
  <2>1. CASE OpenBegin
    <3>1. ~up' /\ opening' = OpenCommands
      BY <2>1 DEF OpenBegin
    <3>2. OpenCommands # <<"return">>
      BY DEF OpenCommands
    <3> QED BY <1>2, <3>1, <3>2
  <2>2. CASE OpenCleanup
    <3>1. UNCHANGED <<ep2, hw, intended, torn, rst, up, opening>>
      BY <2>2 DEF OpenCleanup, CleanupRead, resetVars, openVars
    <3>2. failed' = 0 => failed = 0
      <4>1. failed' \in {failed, failed + 1}
        BY <2>2 DEF OpenCleanup, CleanupRead
      <4> QED BY <1>0, <4>1
    <3> QED BY <1>1, <3>1, <3>2 DEF NackTrue, InReset
  <2>3. CASE OpenCommand \/ OpenNext
    <3>1. /\ opening # <<>> /\ opening # <<"return">> /\ up' = up
          /\ opening' \in {opening, Tail(opening), <<>>}
      BY <2>3 DEF OpenCommand, OpenNext, openVars
    <3>2. ~up' /\ opening' # <<"return">>
      BY <1>0, <3>1, NotYetOpen DEF ResetInv
    <3> QED BY <1>2, <3>2
  <2>4. CASE OpenReset
    <3>1. rst'["fe"].pc = "load"
      BY <1>0, <2>4 DEF OpenReset, TypeOK, ResetTypeOK
    <3> QED BY <1>2, <3>1 DEF InReset
  <2> QED BY <1>3, <2>1, <2>2, <2>3, <2>4
<1>4. CASE OpenReturn
  <2>1. /\ UNCHANGED <<ep2, hw, intended, torn, rst, failed>> /\ opening = <<"return">>
    BY <1>4 DEF OpenReturn, resetVars, usbVars
  <2> QED BY <1>1, <2>1 DEF NackTrue, InReset
<1>5. CASE Down
  BY <1>2, <1>5 DEF Down
<1>6. ASSUME NEW t \in Threads, IoStep(t), UNCHANGED ClientVars PROVE SonyInv'
  <2>1. UNCHANGED <<hw, intended, torn, rst, up, opening>>
    BY <1>6 DEF ClientVars, resetVars, openVars
  <2>2. failed' = 0 => failed = 0
    <3>1. failed' \in {failed, failed + 1}
      BY <1>6 DEF IoStep, IoOut, IoOutFails, IoIn, IoInFails
    <3> QED BY <1>0, <3>1
  <2>3. Grown
    BY <1>0, <1>6, <2>1, IoGrows
  <2> QED BY <2>1, <2>2, <2>3, RightKeeps DEF SonyInv, NackTrue, InReset
<1>7. ASSUME NEW t \in Threads, NEW put \in BOOLEAN, ResetBegin(t, put) PROVE SonyInv'
  <2>1. /\ UNCHANGED <<ep2, hw, failed, up, opening>> /\ (torn => torn')
        /\ rst' = [rst EXCEPT ![t] = [pc |-> "load", put |-> put, mask |-> ChipOf[t], tmp |-> {}]]
        /\ intended' = IF put THEN intended \cup ChipOf[t] ELSE intended \ ChipOf[t]
    BY <1>7 DEF ResetBegin, usbVars, openVars
  <2>2. CASE t = "fe"
    <3>1. rst'["fe"].pc = "load"
      BY <1>0, <2>1, <2>2 DEF TypeOK, ResetTypeOK
    <3> QED BY <1>2, <3>1 DEF InReset
  <2>3. CASE t # "fe"
    <3>1. rst'["fe"] = rst["fe"] /\ ("sony" \in intended => "sony" \in intended')
      BY <1>0, <2>1, <2>3 DEF TypeOK, ResetTypeOK, ChipOf
    <3> QED BY <1>1, <2>1, <3>1 DEF NackTrue, InReset
  <2> QED BY <2>2, <2>3
<1>8. ASSUME NEW t \in Threads, ResetLoad(t) \/ ResetStore(t) \/ ResetWrite(t) PROVE SonyInv'
  <2>1. UNCHANGED <<ep2, hw, intended, torn, failed, up, opening>>
    BY <1>8 DEF ResetLoad, ResetStore, ResetWrite, Call, usbVars, openVars
  <2>2. InReset("fe")' = InReset("fe")
    BY <1>0, <1>8 DEF ResetLoad, ResetStore, ResetWrite, InReset, TypeOK, ResetTypeOK
  <2> QED BY <1>1, <2>1, <2>2 DEF NackTrue
<1>9. ASSUME NEW t \in Threads, ResetReturn(t) PROVE SonyInv'
  <2>1. /\ UNCHANGED <<ep2, hw, intended, torn, failed, up, opening>>
        /\ ioPc[t] = "done" /\ rst[t].pc = "wait" /\ rst' = [rst EXCEPT ![t] = NoReset]
    BY <1>9 DEF ResetReturn, Consume, openVars
  <2>2. CASE t = "fe" /\ failed = 0
    <3>1. ret["fe"].ok
      BY <1>0, <2>1, <2>2 DEF ResetInv, HandInv, HoldsInv
    <3>2. ~torn => Reaches
      BY <1>0, <2>1, <2>2, <3>1 DEF ResetInv, AskedInv, StageInv
    <3>3. Right(intended)
      BY DEF Right, NackTrue
    <3>4. CASE torn
      BY <2>1, <3>4 DEF SonyInv, RightAtLast, AllRight, RightSince, Right, NackTrue
    <3>5. CASE hw = intended /\ \A j \in DOMAIN ep2 : ~IsReset(j)
      <4>1. AllRight
        BY <3>3, <3>5 DEF AllRight, RightSince
      <4> QED BY <2>1, <4>1 DEF SonyInv, RightAtLast, AllRight, RightSince, Right, NackTrue, IsReset
    <3>6. ASSUME NEW j \in DOMAIN ep2, IsReset(j), ep2[j].cmd.val = intended,
                 \A k \in DOMAIN ep2 : IsReset(k) => k <= j
          PROVE  SonyInv'
      <4>1. DOMAIN ep2 = 1 .. Len(ep2) /\ Len(ep2) \in Nat
        BY <1>0, LenProperties
      <4>2. \A m \in DOMAIN ep2 : m >= j /\ IsReset(m) => m = j
        BY <3>6, <4>1
      <4>3. RightSince(j)
        BY <3>3, <3>6, <4>2 DEF RightSince
      <4>4. RightAtLast
        BY <3>6, <4>3 DEF RightAtLast
      <4> QED BY <2>1, <4>4 DEF SonyInv, RightAtLast, AllRight, RightSince, Right, NackTrue, IsReset
    <3> QED BY <3>2, <3>4, <3>5, <3>6 DEF Reaches
  <2>3. CASE t # "fe"
    <3>1. rst'["fe"] = rst["fe"]
      BY <1>0, <2>1, <2>3 DEF TypeOK, ResetTypeOK
    <3> QED BY <1>1, <2>1, <3>1 DEF NackTrue, InReset
  <2>4. CASE failed # 0
    BY <1>2, <2>1, <2>4
  <2> QED BY <2>2, <2>3, <2>4
<1>10. CASE \/ CiCommand \/ CiDone \/ FeStep
            \/ \E op \in {"write", "read"}, size \in 0 .. MaxSize : I2cBegin(op, size)
  <2>1. UNCHANGED <<resetVars, up, opening>>
    BY <1>10, Zenon DEF CiCommand, CiDone, FeStep, I2cTxr, I2cCr, I2cWrote, I2cPoll, I2cPollEnds,
       I2cPolled, I2cCheck, I2cRxr, I2cRead, I2cReturn, I2cCall, I2cBegin, openVars
  <2>2. UNCHANGED usbVars \/ Consume("fe") \/ Consume("ci") \/ \E t \in Threads : \E c : Call(t, c)
    BY <1>0, <1>10, Zenon DEF CiCommand, CiDone, FeStep, I2cTxr, I2cCr, I2cWrote, I2cPoll, I2cPollEnds,
       I2cPolled, I2cCheck, I2cRxr, I2cRead, I2cReturn, I2cCall, I2cBegin
  <2>3. UNCHANGED <<ep2, failed>>
    BY <2>2, Zenon DEF usbVars, Consume, Call
  <2> QED BY <1>1, <2>1, <2>3 DEF resetVars, NackTrue, InReset
<1>11. CASE FpgaExec
  <2>1. RightAtLast => RightAtLast'
    BY <1>0, <1>11, CardKeeps DEF Kept
  <2>2. UNCHANGED <<rst, failed, up, opening>>
    BY <1>11, Zenon DEF FpgaExec, FpgaTake, openVars
  <2> QED BY <2>1, <2>2 DEF SonyInv, InReset
<1>12. CASE I2cByteDone
  <2>1. RightAtLast => RightAtLast'
    BY <1>0, <1>12, ByteKeeps DEF Kept
  <2>2. UNCHANGED <<rst, failed, up, opening>>
    BY <1>12, Zenon DEF I2cByteDone, resetVars, openVars, usbVars
  <2> QED BY <2>1, <2>2 DEF SonyInv, InReset
<1>13. CASE UNCHANGED vars
  <2>1. UNCHANGED <<ep2, hw, intended, torn, rst, failed, up, opening>>
    BY <1>13, Zenon DEF vars, resetVars, openVars, usbVars
  <2> QED BY <1>1, <2>1 DEF NackTrue, InReset
<1> QED BY <1>3, <1>4, <1>5, <1>6, <1>7, <1>8, <1>9, <1>10, <1>11, <1>12, <1>13, Zenon
        DEF Next, OpenStep, ResetStep

-----------------------------------------------------------------------------
(* The steps beside the transaction *)

LEMMA AtKept ==
  ASSUME I2cAt, Kept, i2c' = i2c, FeIo' = FeIo, cmd'["fe"] = cmd["fe"],
         UnderWay /\ Asking => Asking'
  PROVE  I2cAt'
<1>1. TxVal' = TxVal /\ CrVal' = CrVal /\ Sends' = Sends /\ Last' = Last
  BY SameByte DEF SameI2c
<1>2. StatusTrue(i2c.buf) => StatusTrue(i2c.buf)'
  BY DEF StatusTrue, Kept
<1>3. Budget => Budget'
  BY DEF Budget, Polled
<1> HIDE DEF UsbAssumption, DeviceAssumption
<1> QED BY <1>1, <1>2, <1>3 DEF I2cAt, Kept

LEMMA AsideKept ==
  ASSUME I2cInv, Kept, i2c' = i2c, FeIo' = FeIo, cmd'["fe"] = cmd["fe"],
         ret'["fe"] = ret["fe"], start' = start, failed' = 0 => failed = 0,
         FeIo = "in" /\ failed' = 0 => UNCHANGED <<ep1, ep2, asked, answered>>
  PROVE  I2cInv'
<1> SUFFICES ASSUME Sure' PROVE (start.owed = 0)' /\ I2cAt'
    BY DEF I2cInv
<1>1. Sure /\ failed' = 0
  BY DEF Sure
<1>2. \A b : StatusTrue(b) => StatusTrue(b)'
  BY DEF StatusTrue, Kept
<1>3. Asking => Asking'
  <2> SUFFICES ASSUME Asking PROVE Asking'
      OBVIOUS
  <2>1. FeIo = "in" => UNCHANGED <<ep1, ep2, asked, answered>>
    BY <1>1
  <2>3. FeIo' = "in" =>
          \/ /\ ep1' = <<>> /\ ep2' # <<>>
             /\ ep2'[Len(ep2')].cmd = SrCmd /\ ep2'[Len(ep2')].n = asked' /\ asked' = answered' + 1
          \/ /\ Len(ep1') = 1 /\ ep2' = <<>>
             /\ ep1'[1].len = 2 /\ StatusTrue(ep1[1].val)'
    BY <1>2, <2>1 DEF Asking
  <2>4. FeIo' = "done" => ret'["fe"].ok /\ StatusTrue(ret["fe"].reply.val)'
    BY <1>2 DEF Asking
  <2>5. SrCmd' = SrCmd
    BY DEF SrCmd, Fetch
  <2> QED BY <2>3, <2>4, <2>5 DEF Asking
<1>4. start.owed = 0 /\ I2cAt
  BY <1>1 DEF I2cInv
<1> QED BY <1>3, <1>4, AtKept

\* What keeps to itself the commands of the card.
LEMMA SameCommands ==
  ASSUME ep2 \in Seq(Sent), SameI2c, UNCHANGED <<ep2, core, bus, hw>>, NackTrue => NackTrue'
  PROVE  Kept
BY GrownBy, OtherKeeps

LEMMA CiStepKept ==
  ASSUME DInv, ResetInv, WaitsInv, I2cInv, IoStep("ci"), UNCHANGED ClientVars
  PROVE  I2cInv'
<1> HIDE DEF UsbAssumption, DeviceAssumption
<1>0. "fe" \in Threads /\ "ci" \in Threads /\ "fe" # "ci" /\ TypeOK /\ failed \in Nat
  BY DeviceAssumption DEF DeviceAssumption, DInv, TypeOK, UsbTypeOK
<1>1. UNCHANGED <<i2c, core, bus, hw, torn, intended>>
  BY DEF ClientVars, i2cVars, resetVars
<1>2. Kept
  BY <1>0, <1>1, IoGrows, OtherKeeps DEF SameI2c, NackTrue, WaitsInv
<1>3. FeIo' = FeIo /\ cmd' = cmd /\ ret'["fe"] = ret["fe"]
  BY <1>0, IoEffect DEF FeIo
<1>4. start' = start /\ failed' \in {failed, failed + 1}
  BY DEF IoStep, IoOut, IoOutFails, IoIn, IoInFails
<1>5. FeIo = "in" => failed' = failed + 1
  <2>1. FeIo = "in" => mux = "fe" /\ mux # NoThread /\ ioPc["ci"] # "in"
    BY <1>0, UsbAssumption DEF DInv, UsbInv, MuxInv, FeIo, UsbAssumption
  <2>2. IoOut("ci") \/ IoIn("ci") => FeIo # "in"
    BY <2>1 DEF IoOut, IoIn
  <2>3. IoOutFails("ci") \/ IoInFails("ci") => failed' = failed + 1
    BY DEF IoOutFails, IoInFails
  <2> QED BY <2>2, <2>3 DEF IoStep
<1> QED BY <1>0, <1>1, <1>2, <1>3, <1>4, <1>5, AsideKept

LEMMA OthersKept ==
  ASSUME DInv, ResetInv, CoreOK, WaitsInv, I2cInv,
         \/ OpenBegin \/ OpenStep \/ Down
         \/ \E t \in Threads : ResetStep(t) \/ \E put \in BOOLEAN : ResetBegin(t, put)
         \/ CiCommand \/ CiDone \/ I2cByteDone \/ UNCHANGED vars
  PROVE  I2cInv'
<1> HIDE DEF UsbAssumption, DeviceAssumption, Values
<1>0. /\ "fe" \in Threads /\ "ci" \in Threads /\ "fe" # "ci" /\ TypeOK
      /\ \A t \in Threads : t # "fe" => t = "ci"
      /\ ep2 \in Seq(Sent)
  BY DeviceAssumption DEF DeviceAssumption, DInv, TypeOK, UsbTypeOK, Sent
<1>1. ASSUME i2c'.pc = "idle" PROVE I2cInv'
  BY <1>1 DEF I2cInv, Sure
<1>2. CASE OpenBegin \/ OpenStep
  <2>1. i2c.pc = "idle" /\ i2c' = i2c
    BY <1>2 DEF ResetInv, OpenInv, OpenBegin, OpenStep, OpenCleanup, OpenCommand, OpenNext,
       OpenReset, OpenReturn, i2cVars
  <2> QED BY <1>1, <2>1
<1>3. CASE Down
  BY <1>1, <1>3 DEF Down, NoI2c
<1>4. ASSUME UNCHANGED <<i2cVars, hw>>, NackTrue => NackTrue',
             UNCHANGED usbVars \/ Consume("ci") \/ \E c : Call("ci", c)
      PROVE  I2cInv'
  <2>1. UNCHANGED <<i2c, core, bus, hw>>
    BY <1>4 DEF i2cVars
  <2>2. UNCHANGED <<ep1, ep2, asked, answered, failed, start>>
    BY <1>4, Zenon DEF usbVars, Consume, Call
  <2>3. FeIo' = FeIo /\ cmd'["fe"] = cmd["fe"] /\ ret'["fe"] = ret["fe"]
    <3>1. CASE UNCHANGED usbVars
      BY <3>1 DEF usbVars, FeIo
    <3>2. CASE Consume("ci")
      BY <1>0, <3>2, ConsumeEffect DEF FeIo
    <3>3. ASSUME NEW c, Call("ci", c)
          PROVE  FeIo' = FeIo /\ cmd'["fe"] = cmd["fe"] /\ ret'["fe"] = ret["fe"]
      BY <1>0, <3>3, CallEffect DEF FeIo
    <3> QED BY <1>4, <3>1, <3>2, <3>3
  <2>4. Kept
    BY <1>0, <1>4, <2>1, <2>2, SameCommands DEF SameI2c
  <2> QED BY <2>1, <2>2, <2>3, <2>4, AsideKept
<1>5. ASSUME NEW t \in Threads, NEW put \in BOOLEAN, ResetBegin(t, put) PROVE I2cInv'
  <2>1. /\ UNCHANGED <<usbVars, i2cVars, hw>> /\ (torn => torn') /\ Free(t)
        /\ intended' = IF put THEN intended \cup ChipOf[t] ELSE intended \ ChipOf[t]
    BY <1>5 DEF ResetBegin, MayCall
  <2>2. CASE t = "fe"
    BY <1>1, <2>1, <2>2 DEF Free, i2cVars
  <2>3. CASE t # "fe"
    <3>1. "sony" \in intended => "sony" \in intended'
      BY <1>0, <2>1, <2>3 DEF ChipOf
    <3> QED BY <1>4, <2>1, <3>1 DEF NackTrue
  <2> QED BY <2>2, <2>3
<1>6. ASSUME NEW t \in Threads, ResetStep(t) PROVE I2cInv'
  <2>1. /\ UNCHANGED <<i2cVars, hw, torn, intended>> /\ InReset(t)
        /\ UNCHANGED usbVars \/ Consume(t) \/ \E c : Call(t, c)
    BY <1>6 DEF ResetStep, ResetLoad, ResetStore, ResetWrite, ResetReturn, InReset
  <2>2. CASE t = "fe"
    BY <1>1, <2>1, <2>2 DEF ResetInv, HandInv, i2cVars
  <2>3. CASE t # "fe"
    BY <1>0, <1>4, <2>1, <2>3 DEF NackTrue
  <2> QED BY <2>2, <2>3
<1>7. CASE CiCommand \/ CiDone \/ UNCHANGED vars
  <2>1. UNCHANGED <<i2cVars, hw, torn, intended>>
    BY <1>7, Zenon DEF CiCommand, CiDone, vars, resetVars
  <2>2. UNCHANGED usbVars \/ Consume("ci") \/ \E c : Call("ci", c)
    BY <1>7, Zenon DEF CiCommand, CiDone, vars
  <2> QED BY <1>4, <2>1, <2>2 DEF NackTrue
<1>8. CASE I2cByteDone
  <2>1. UNCHANGED <<i2c, usbVars>>
    BY <1>8, Zenon DEF I2cByteDone
  <2> QED BY <1>0, <1>8, <2>1, ByteKeeps, AsideKept DEF usbVars, FeIo
<1> QED BY <1>2, <1>3, <1>5, <1>6, <1>7, <1>8

\* The card answers.
LEMMA CardKept ==
  ASSUME DInv, CoreOK, I2cInv, FpgaExec
  PROVE  I2cInv'
<1> HIDE DEF UsbAssumption, DeviceAssumption, Values
<1>0. TypeOK /\ ep2 \in Seq(Sent) /\ ep1 \in Seq(Reply) /\ asked \in Nat /\ answered \in Nat
  BY DEF DInv, TypeOK, UsbTypeOK, Sent
<1> SUFFICES ASSUME Sure' PROVE (start.owed = 0)' /\ I2cAt'
    BY DEF I2cInv
<1>1. /\ UNCHANGED <<i2c, ioPc, cmd, ret, start, failed, asked, answered>>
      /\ ep2 # <<>> /\ ep2' = Tail(ep2)
      /\ Head(ep2).n # 0 =>
           \E v : /\ ep1' = Append(ep1, [n |-> Head(ep2).n, val |-> v, len |-> Head(ep2).cmd.len])
                  /\ Head(ep2).cmd.op = "sr" => v = StatusRegister
      /\ Head(ep2).n = 0 => ep1' = ep1
  BY Zenon DEF FpgaExec, FpgaTake
<1>2. Sure /\ start.owed = 0 /\ I2cAt
  BY <1>1 DEF Sure, I2cInv
<1>3. Kept
  BY <1>0, CardKeeps
<1>4. ASSUME UnderWay, Asking PROVE Asking'
  <2>1. \A b : StatusTrue(b) => StatusTrue(b)'
    BY <1>3 DEF StatusTrue, Kept
  <2>2. CASE FeIo # "in"
    BY <1>1, <1>4, <2>1, <2>2 DEF Asking, FeIo, SrCmd, Fetch
  <2>3. CASE FeIo = "in"
    <3>1. /\ ep1 = <<>> /\ ep2[Len(ep2)].cmd = SrCmd /\ ep2[Len(ep2)].n = asked
          /\ asked = answered + 1 /\ cmd["fe"] = SrCmd
      BY <1>1, <1>4, <2>3 DEF Asking
    <3>2. /\ Len(ep2) \in Nat /\ Head(ep2) = ep2[1] /\ Len(ep2) >= 1 /\ DOMAIN ep2 = 1 .. Len(ep2)
          /\ Len(Tail(ep2)) = Len(ep2) - 1
          /\ \A i \in 1 .. Len(ep2) - 1 : Tail(ep2)[i] = ep2[i + 1]
      <4> HIDE DEF Sent
      <4> QED BY <1>0, <1>1
    <3>3. CASE Len(ep2) = 1
      <4>1. Head(ep2).cmd = SrCmd /\ Head(ep2).n = asked /\ Head(ep2).n # 0
        BY <1>0, <3>1, <3>2, <3>3
      <4>2. ep1' = <<[n |-> asked, val |-> StatusRegister, len |-> 2]>>
        BY <1>1, <3>1, <4>1 DEF SrCmd, Fetch
      <4>3. ep2' = <<>>
        <5> HIDE DEF Sent
        <5> QED BY <1>0, <1>1, <3>2, <3>3
      <4>4. ~CrSent
        BY <3>2, <3>3, <4>1 DEF CrSent, OpAt, SrCmd, Fetch
      <4>5. "tip" \notin StatusRegister => Through
        BY <1>4, <4>4 DEF UnderWay, OnBus, StatusRegister
      <4>6. StatusTrue(StatusRegister)
        BY <4>5 DEF StatusTrue, StatusRegister, Through
      <4>7. PICK b : b = StatusRegister
        OBVIOUS
      <4>8. StatusTrue(b)'
        BY <2>1, <4>6, <4>7
      <4>9. Len(ep1') = 1 /\ ep1'[1].len = 2 /\ ep1'[1].val = b
        BY <4>2, <4>7
      <4>10. StatusTrue(ep1[1].val)'
        BY <4>8, <4>9 DEF StatusTrue
      <4> QED BY <1>1, <2>3, <3>1, <4>3, <4>9, <4>10 DEF Asking, FeIo, SrCmd, Fetch
    <3>4. CASE Len(ep2) # 1
      <4>1. Head(ep2).n = 0
        <5>1. 1 \in DOMAIN ep2 /\ Len(ep2) \in DOMAIN ep2 /\ 1 < Len(ep2)
          BY <3>2, <3>4
        <5>2. ep2[1].n = 0 \/ ep2[1].n \in answered + 1 .. asked
          BY <5>1 DEF DInv, UsbInv, OrderInv
        <5>3. ep2[1].n < asked
          BY <1>0, <3>1, <5>1 DEF DInv, UsbInv, OrderInv
        <5> QED BY <1>0, <3>1, <3>2, <5>2, <5>3
      <4>2. ep2' # <<>> /\ ep2'[Len(ep2')] = ep2[Len(ep2)] /\ ep1' = <<>>
        <5>1. Len(ep2') = Len(ep2) - 1 /\ ep2'[Len(ep2) - 1] = ep2[Len(ep2)]
          BY <1>1, <3>2, <3>4
        <5>2. ep2' # <<>>
          BY <3>2, <3>4, <5>1
        <5> QED BY <1>1, <3>1, <4>1, <5>1, <5>2
      <4> QED BY <1>1, <2>3, <3>1, <4>2 DEF Asking, FeIo, SrCmd, Fetch
    <3> QED BY <3>3, <3>4
  <2> QED BY <2>2, <2>3
<1> QED BY <1>1, <1>2, <1>3, <1>4, AtKept DEF FeIo

\* The command of the transaction.
LEMMA FeIoKept ==
  ASSUME DInv, ResetInv, WaitsInv, HoldsInv, I2cInv, IoStep("fe"), UNCHANGED ClientVars
  PROVE  I2cInv'
<1> HIDE DEF UsbAssumption, DeviceAssumption, Values, Sent, Reply
<1>0. /\ "fe" \in Threads /\ TypeOK /\ failed \in Nat /\ ep2 \in Seq(Sent) /\ ep1 \in Seq(Reply)
      /\ asked \in Nat /\ answered \in Nat
  BY DeviceAssumption DEF DeviceAssumption, DInv, TypeOK, UsbTypeOK, Sent
<1>1. UNCHANGED <<i2c, core, bus, hw, torn, intended>>
  BY DEF ClientVars, i2cVars, resetVars
<1> SUFFICES ASSUME Sure' PROVE (start.owed = 0)' /\ I2cAt'
    BY DEF I2cInv
<1>2. cmd' = cmd /\ start' = start /\ FeIo \in {"lock", "in"} /\ FeIo' \in {"in", "done"}
  BY <1>0, IoEffect DEF IoStep, IoOut, IoOutFails, IoIn, IoInFails, FeIo
<1>3. IoOut("fe") \/ IoIn("fe")
  <2>1. IoOutFails("fe") \/ IoInFails("fe") => failed' = failed + 1
    BY DEF IoOutFails, IoInFails
  <2>2. failed' = 0
    BY DEF Sure
  <2> QED BY <1>0, <2>1, <2>2 DEF IoStep
<1>4. failed' = failed /\ Sure /\ start.owed = 0 /\ I2cAt
  <2>1. failed' = failed
    BY <1>3 DEF IoOut, IoIn
  <2> QED BY <1>1, <2>1 DEF Sure, I2cInv
<1>5. i2c.pc \in {"txr_wait", "cr_wait", "poll_wait", "rxr_wait"}
  BY <1>2, <1>4 DEF WaitsInv, Sure
<1>6. cmd["fe"].op \notin {"txr", "cr"} => Kept
  BY <1>0, <1>1, IoGrows, OtherKeeps DEF SameI2c, NackTrue
<1>7. IoOut("fe") =>
        /\ FeIo = "lock"
        /\ \E e \in Sent :
             ep2' = Append(ep2, e) /\ e.cmd = cmd["fe"] /\ (cmd["fe"].len > 0 => e.n = asked + 1)
        /\ cmd["fe"].len > 0 => FeIo' = "in" /\ asked' = asked + 1
        /\ cmd["fe"].len = 0 => FeIo' = "done"
        /\ ep1' = ep1 /\ answered' = answered /\ mux = NoThread
  <2> DEFINE e == [cmd |-> cmd["fe"], n |-> IF WantsReply("fe") THEN asked + 1 ELSE 0]
  <2>1. e \in Sent
    BY <1>0 DEF Sent, TypeOK, UsbTypeOK
  <2>2. IoOut("fe") => /\ ep2' = Append(ep2, e) /\ FeIo = "lock" /\ ep1' = ep1 /\ answered' = answered
                       /\ mux = NoThread /\ asked' = Numbered("fe")
                       /\ (cmd["fe"].len > 0 => FeIo' = "in")
                       /\ (~(cmd["fe"].len > 0) => FeIo' = "done")
    BY <1>0 DEF IoOut, Deliver, FeIo, IoReturn, WantsReply, TypeOK, UsbTypeOK
  <2>3. e.cmd = cmd["fe"] /\ (cmd["fe"].len > 0 => e.n = asked + 1 /\ Numbered("fe") = asked + 1)
    BY DEF WantsReply, Numbered
  <2> HIDE DEF e
  <2> QED BY <2>1, <2>2, <2>3
<1>8. CASE i2c.pc = "txr_wait"
  <2>1. FeIo = "lock" /\ Fresh /\ Sends /\ cmd["fe"] = Send("txr", TxVal) /\ cmd["fe"].len = 0
    BY <1>2, <1>4, <1>8 DEF I2cAt, Send
  <2>2. IoOut("fe")
    BY <1>3, <2>1 DEF IoIn, FeIo
  <2>3. Loaded'
    BY <1>0, <1>1, <1>7, <2>1, <2>2, TxrKeeps
  <2> QED BY <1>1, <1>2, <1>4, <1>7, <1>8, <2>1, <2>2, <2>3 DEF I2cAt
<1>9. CASE i2c.pc = "cr_wait"
  <2>1. FeIo = "lock" /\ Loaded /\ cmd["fe"] = Send("cr", CrVal) /\ cmd["fe"].len = 0
    BY <1>2, <1>4, <1>9 DEF I2cAt, Send
  <2>2. IoOut("fe")
    BY <1>3, <2>1 DEF IoIn, FeIo
  <2>3. CrSent'
    BY <1>0, <1>1, <1>7, <2>1, <2>2, CrKeeps
  <2> QED BY <1>1, <1>2, <1>4, <1>7, <1>9, <2>1, <2>2, <2>3 DEF I2cAt, UnderWay
<1>10. CASE i2c.pc = "poll_wait"
  <2>1. /\ UnderWay /\ Asking /\ cmd["fe"] = SrCmd /\ i2c.cnt \in Nat /\ i2c.cnt % 2 = 1
        /\ cmd["fe"].len = 2 /\ cmd["fe"].op = "sr"
    BY <1>4, <1>10 DEF I2cAt, Asking, SrCmd, Fetch
  <2>2. Kept
    BY <1>6, <2>1
  <2>3. CASE IoOut("fe")
    <3>1. asked - answered <= 0
      <4>1. \A t \in Threads : ioPc[t] # "in"
        BY <1>7, <2>3, UsbAssumption DEF DInv, UsbInv, MuxInv, UsbAssumption
      <4>2. failed = 0
        BY <1>4 DEF Sure
      <4> QED BY <1>0, <1>4, <4>1, <4>2 DEF DInv, UsbInv, OwedInv, Waiting
    <3>2. asked = answered
      BY <1>0, <3>1 DEF DInv, UsbInv, OrderInv
    <3>3. ep1 = <<>>
      <4>1. \A i \in DOMAIN ep1 : ep1[i].n \in answered + 1 .. asked
        BY DEF DInv, UsbInv, OrderInv
      <4>2. DOMAIN ep1 = {}
        BY <1>0, <3>2, <4>1
      <4> QED BY <1>0, <4>2
    <3>4. PICK e \in Sent : ep2' = Append(ep2, e) /\ e.cmd = SrCmd /\ e.n = asked + 1
      BY <1>7, <2>1, <2>3
    <3>5. ep2' # <<>> /\ ep2'[Len(ep2')] = e
      BY <1>0, <3>4
    <3>6. Asking'
      BY <1>2, <1>7, <2>1, <2>3, <3>2, <3>3, <3>4, <3>5 DEF Asking, SrCmd, Fetch
    <3> QED BY <1>1, <1>2, <1>4, <1>10, <2>1, <2>2, <3>6 DEF I2cAt, Kept
  <2>4. CASE IoIn("fe")
    <3>1. /\ FeIo = "in" /\ ep1 # <<>> /\ Head(ep1) = ep1[1]
      BY <1>0, <2>4 DEF IoIn, FeIo
    <3>2. ep1[1].len = 2 /\ StatusTrue(ep1[1].val)
      BY <2>1, <3>1 DEF Asking
    <3>3. FeIo' = "done" /\ ret'["fe"].ok = (ep1[1].len = 2) /\ ret'["fe"].reply = ep1[1]
      BY <1>0, <2>1, <2>4, <3>1 DEF IoIn, IoReturn, FeIo, TypeOK, UsbTypeOK
    <3>4. PICK b : b = ep1[1].val
      OBVIOUS
    <3>5. StatusTrue(b)'
      BY <2>2, <3>2, <3>4 DEF StatusTrue, Kept
    <3>6. StatusTrue(ret["fe"].reply.val)'
      BY <3>3, <3>4, <3>5 DEF StatusTrue
    <3>7. Asking'
      BY <1>2, <2>1, <3>2, <3>3, <3>6 DEF Asking, SrCmd, Fetch
    <3> QED BY <1>1, <1>2, <1>4, <1>10, <2>1, <2>2, <3>7 DEF I2cAt, Kept
  <2> QED BY <1>3, <2>3, <2>4
<1>11. CASE i2c.pc = "rxr_wait"
  <2>1. Through /\ ~Sends /\ cmd["fe"].op = "rxr"
    BY <1>4, <1>11 DEF I2cAt
  <2>2. Kept /\ Sends' = Sends
    BY <1>1, <1>6, <2>1, SameByte DEF SameI2c
  <2> QED BY <1>1, <1>2, <1>4, <1>11, <2>1, <2>2 DEF I2cAt, Kept
<1> QED BY <1>5, <1>8, <1>9, <1>10, <1>11

LEMMA I2cBeginKept ==
  ASSUME DInv, SonyInv, NEW op, NEW size, I2cBegin(op, size)
  PROVE  I2cInv'
<1> HIDE DEF UsbAssumption, DeviceAssumption, Values
<1>1. /\ i2c'.pc = "txr" /\ i2c'.i = 0
      /\ i2c'.sure = /\ failed = 0 /\ start.owed = 0 /\ ~core.tip
                     /\ \A j \in DOMAIN ep2 : ep2[j].cmd.op \notin {"txr", "cr"}
      /\ UNCHANGED <<usbVars, core, hw, torn, intended>> /\ up /\ ~InReset("fe")
  BY DEF I2cBegin, NoI2c, resetVars, MayCall, Free, InReset
<1>2. UNCHANGED <<failed, start, ep2>>
  BY <1>1 DEF usbVars
<1> SUFFICES ASSUME Sure' PROVE (start.owed = 0)' /\ I2cAt'
    BY DEF I2cInv
<1>3. /\ failed = 0 /\ start.owed = 0 /\ ~core.tip
      /\ \A j \in DOMAIN ep2 : ep2[j].cmd.op \notin {"txr", "cr"}
  BY <1>1, Zenon DEF Sure
<1>4. NoOp("txr")' /\ NoOp("cr")'
  BY <1>2, <1>3 DEF NoOp, OpAt
<1>5. RightAtLast
  BY <1>1, <1>3 DEF SonyInv
<1>6. RightInTime'
  <2>1. RightAtLast'
    BY <1>1, <1>2, <1>5 DEF RightAtLast, AllRight, RightSince, Right, NackTrue, IsReset
  <2> QED BY <1>4, <2>1 DEF RightAtLast, RightInTime, NoOp
<1>7. Before'
  BY <1>1, <1>3, <1>6 DEF Before
<1> QED BY <1>1, <1>2, <1>3, <1>4, <1>7 DEF I2cAt, Fresh, Sends

\* The lines of joker_i2c_write and joker_i2c_read.
LEMMA FeStepKept ==
  ASSUME PollBudget > 0, PollBudget % 2 = 0, DInv, WaitsInv, I2cInv, FeStep
  PROVE  I2cInv'
<1> HIDE DEF UsbAssumption, DeviceAssumption, Values, Sent
<1>0. /\ "fe" \in Threads /\ TypeOK /\ ep2 \in Seq(Sent) /\ PollBudget \in Nat
      /\ i2c.op \in {"write", "read"} /\ i2c.i \in Nat /\ I2cTypeOK
  BY DeviceAssumption DEF DeviceAssumption, DInv, TypeOK, UsbTypeOK, I2cTypeOK, Sent
<1>1. /\ UNCHANGED <<resetVars, core, bus>>
      /\ UNCHANGED usbVars \/ Consume("fe") \/ \E c : Call("fe", c)
  BY Zenon DEF FeStep, I2cTxr, I2cCr, I2cWrote, I2cPoll, I2cPollEnds, I2cPolled, I2cCheck, I2cRxr,
     I2cRead, I2cReturn, I2cCall
<1>2. UNCHANGED <<core, bus, hw, torn, intended, ep2, failed, start>>
  BY <1>1, Zenon DEF resetVars, usbVars, Consume, Call
<1> SUFFICES ASSUME Sure' PROVE (start.owed = 0)' /\ I2cAt'
    BY DEF I2cInv
<1>3. i2c.pc # "idle" /\ ~I2cReturn
  <2>1. I2cReturn => i2c'.pc = "idle"
    BY DEF I2cReturn, NoI2c
  <2>2. FeStep => i2c.pc # "idle"
    BY DEF FeStep, I2cTxr, I2cCr, I2cWrote, I2cPoll, I2cPollEnds, I2cPolled, I2cCheck, I2cRxr,
       I2cRead, I2cReturn, I2cCall
  <2> QED BY <2>1, <2>2 DEF Sure
<1>4. i2c'.sure = i2c.sure /\ i2c'.op = i2c.op /\ i2c'.size = i2c.size
  <2>1. CASE I2cTxr \/ I2cCr \/ I2cPoll \/ I2cRxr
    BY <1>0, <2>1 DEF I2cTxr, I2cCr, I2cPoll, I2cRxr, I2cCall, I2cTypeOK
  <2>2. CASE I2cWrote \/ I2cPollEnds \/ I2cPolled
    BY <1>0, <2>2 DEF I2cWrote, I2cPollEnds, I2cPolled, I2cTypeOK
  <2>3. CASE I2cCheck \/ I2cRead
    <3>1. I2cAdvance \/ (\E res : I2cResult(res)) \/ i2c' = [i2c EXCEPT !.pc = "rxr"]
      BY <2>3 DEF I2cCheck, I2cRead
    <3> QED BY <1>0, <3>1 DEF I2cTypeOK, I2cAdvance, I2cResult
  <2> QED BY <1>3, <2>1, <2>2, <2>3 DEF FeStep
<1>5. Sure /\ start.owed = 0 /\ I2cAt
  BY <1>2, <1>3, <1>4 DEF Sure, I2cInv
<1>6. i2c'.i = i2c.i => Kept /\ SameI2c
  BY <1>0, <1>2, <1>4, SameCommands DEF SameI2c, NackTrue
<1>7. start'.owed = 0
  BY <1>2, <1>5
<1>8. ASSUME NEW c, Call("fe", c) PROVE FeIo' = "lock" /\ cmd'["fe"] = c
  BY <1>0, <1>8, CallEffect DEF FeIo
<1>9. CASE I2cTxr
  <2>1. i2c.pc = "txr" /\ i2c'.pc = "txr_wait" /\ i2c'.i = i2c.i /\ Call("fe", Send("txr", TxVal))
    BY <1>0, <1>9 DEF I2cTxr, I2cCall, I2cTypeOK, TxVal
  <2>2. Fresh' /\ Sends' /\ TxVal' = TxVal
    BY <1>5, <1>6, <2>1, SameByte DEF I2cAt, Kept
  <2>3. FeIo' = "lock" /\ cmd'["fe"] = Send("txr", TxVal)
    BY <1>8, <2>1
  <2>4. Send("txr", TxVal)' = Send("txr", TxVal)
    BY <2>2 DEF Send
  <2> QED BY <1>7, <2>1, <2>2, <2>3, <2>4 DEF I2cAt
<1>10. CASE I2cCr
  <2>1. i2c.pc = "cr" /\ i2c'.pc = "cr_wait" /\ i2c'.i = i2c.i /\ Call("fe", Send("cr", CrVal))
    BY <1>0, <1>10 DEF I2cCr, I2cCall, I2cTypeOK, CrVal
  <2>2. Loaded' /\ CrVal' = CrVal
    BY <1>5, <1>6, <2>1, SameByte DEF I2cAt, Kept
  <2>3. FeIo' = "lock" /\ cmd'["fe"] = Send("cr", CrVal)
    BY <1>8, <2>1
  <2>4. Send("cr", CrVal)' = Send("cr", CrVal)
    BY <2>2 DEF Send
  <2> QED BY <1>7, <2>1, <2>2, <2>3, <2>4 DEF I2cAt
<1>11. CASE I2cWrote
  <2>1. /\ i2c.pc \in {"txr_wait", "cr_wait"} /\ i2c'.i = i2c.i
        /\ i2c.pc = "txr_wait" => i2c'.pc = "cr"
        /\ i2c.pc = "cr_wait" => i2c'.pc = "poll" /\ i2c'.cnt = PollBudget
    BY <1>0, <1>11 DEF I2cWrote, I2cTypeOK
  <2>2. FeIo = "done"
    BY <1>11 DEF I2cWrote, Consume, FeIo
  <2>3. CASE i2c.pc = "txr_wait"
    <3>1. Loaded
      BY <1>5, <2>2, <2>3 DEF I2cAt
    <3>2. Loaded'
      BY <1>6, <2>1, <3>1 DEF Kept
    <3> QED BY <1>7, <2>1, <2>3, <3>2 DEF I2cAt
  <2>4. CASE i2c.pc = "cr_wait"
    <3>1. UnderWay
      BY <1>5, <2>2, <2>4 DEF I2cAt
    <3>2. UnderWay'
      BY <1>6, <2>1, <3>1 DEF Kept
    <3>3. Budget'
      BY <1>0, <2>1, <2>4 DEF Budget, Polled
    <3> QED BY <1>7, <2>1, <2>4, <3>2, <3>3 DEF I2cAt
  <2> QED BY <2>1, <2>3, <2>4
<1>12. CASE I2cPoll
  <2>1. /\ i2c.pc = "poll" /\ i2c.cnt > 0 /\ i2c'.pc = "poll_wait" /\ i2c'.i = i2c.i
        /\ i2c'.cnt = i2c.cnt - 1 /\ Call("fe", SrCmd)
    BY <1>0, <1>12 DEF I2cPoll, I2cTypeOK, SrCmd
  <2>2. UnderWay' /\ i2c.cnt \in Nat /\ i2c.cnt % 2 = 0
    BY <1>5, <1>6, <2>1 DEF I2cAt, Kept, Budget
  <2>3. i2c'.cnt \in Nat /\ i2c'.cnt % 2 = 1
    BY <2>1, <2>2
  <2>4. FeIo' = "lock" /\ cmd'["fe"] = SrCmd
    BY <1>8, <2>1
  <2>5. Asking'
    BY <2>4 DEF Asking, SrCmd, Fetch
  <2> QED BY <1>7, <2>1, <2>2, <2>3, <2>5 DEF I2cAt
<1>13. CASE I2cPollEnds
  <2>1. /\ i2c.pc = "poll" /\ i2c.cnt <= 0 /\ i2c'.pc = "check" /\ i2c'.i = i2c.i
        /\ i2c'.cnt = i2c.cnt - 1 /\ i2c'.buf = i2c.buf
    BY <1>0, <1>13 DEF I2cPollEnds, I2cTypeOK
  <2>2. UnderWay' /\ i2c.cnt \in Nat /\ Polled
    BY <1>5, <1>6, <2>1 DEF I2cAt, Kept, Budget
  <2>3. "tip" \in i2c.buf /\ "al" \notin i2c.buf /\ ~(i2c'.cnt > 0)
    BY <1>0, <2>1, <2>2 DEF Polled
  <2>4. StatusTrue(i2c.buf)'
    BY <2>1, <2>3 DEF StatusTrue
  <2> QED BY <1>7, <2>1, <2>2, <2>3, <2>4 DEF I2cAt
<1>14. CASE I2cPolled
  <2>1. FeIo = "done" /\ i2c.pc = "poll_wait" /\ i2c'.i = i2c.i
    BY <1>0, <1>14 DEF I2cPolled, Consume, FeIo, I2cTypeOK
  <2>2. UnderWay /\ Asking /\ i2c.cnt \in Nat /\ i2c.cnt % 2 = 1
    BY <1>5, <2>1 DEF I2cAt
  <2>3. PICK b : b = ret["fe"].reply.val
    OBVIOUS
  <2>4. ret["fe"].ok /\ StatusTrue(b)
    BY <2>1, <2>2, <2>3 DEF Asking
  <2>5. /\ i2c'.buf = b
        /\ "tip" \in b => i2c'.pc = "poll" /\ i2c'.cnt = i2c.cnt - 1
        /\ "tip" \notin b => i2c'.pc = "check" /\ i2c'.cnt = i2c.cnt
    BY <1>0, <1>14, <2>3, <2>4 DEF I2cPolled, I2cTypeOK
  <2>6. UnderWay' /\ StatusTrue(b)'
    BY <1>6, <2>1, <2>2, <2>4 DEF Kept, StatusTrue
  <2>7. CASE "tip" \in b
    <3>1. i2c'.cnt \in Nat /\ i2c'.cnt % 2 = 0
      BY <2>2, <2>5, <2>7
    <3>2. Budget'
      BY <2>4, <2>5, <2>7, <3>1 DEF Budget, Polled, StatusTrue
    <3> QED BY <1>7, <2>5, <2>6, <2>7, <3>2 DEF I2cAt
  <2>8. CASE "tip" \notin b
    <3>1. i2c'.cnt > 0
      BY <2>2, <2>5, <2>8
    <3>2. StatusTrue(i2c.buf)'
      BY <2>5, <2>6 DEF StatusTrue
    <3> QED BY <1>7, <2>5, <2>6, <2>8, <3>1, <3>2 DEF I2cAt
  <2> QED BY <2>7, <2>8
<1>15. ASSUME Through, I2cAdvance PROVE I2cAt'
  <2>1. CASE Last /\ I2cResult("ok")
    <3>1. i2c'.pc = "return" /\ i2c'.res = "ok" /\ i2c'.i = i2c.i
      BY <1>0, <2>1 DEF I2cResult, I2cTypeOK
    <3>2. Through' /\ Last'
      BY <1>6, <1>15, <2>1, <3>1, SameByte DEF Kept
    <3> QED BY <3>1, <3>2 DEF I2cAt
  <2>2. CASE ~Last
    <3>1. i2c'.i = i2c.i + 1 /\ i2c'.pc = IF i2c.op = "write" THEN "txr" ELSE "cr"
      BY <1>0, <1>15, <2>2 DEF I2cAdvance, I2cTypeOK
    <3>2. Fresh' /\ (~Sends' => Loaded')
      BY <1>0, <1>2, <1>4, <1>15, <2>2, <3>1, AdvanceKeeps
    <3>3. CASE i2c.op = "write"
      BY <1>4, <3>1, <3>2, <3>3 DEF I2cAt, Sends
    <3>4. CASE i2c.op # "write"
      <4>1. ~Sends'
        BY <1>0, <1>4, <3>1, <3>4 DEF Sends
      <4> QED BY <3>1, <3>2, <3>4, <4>1 DEF I2cAt
    <3> QED BY <3>3, <3>4
  <2> QED BY <1>15, <2>1, <2>2 DEF I2cAdvance
<1>16. CASE I2cCheck
  <2>1. i2c.pc = "check" /\ UnderWay /\ StatusTrue(i2c.buf) /\ (i2c.cnt > 0 <=> "tip" \notin i2c.buf)
    BY <1>5, <1>16 DEF I2cCheck, I2cAt
  <2>2. ASSUME NEW res, I2cResult(res)
        PROVE  i2c'.pc = "return" /\ i2c'.res = res /\ i2c'.buf = i2c.buf /\ i2c'.i = i2c.i
    BY <1>0, <2>2 DEF I2cResult, I2cTypeOK
  <2>3. CASE "nack" \in i2c.buf /\ I2cResult("nodev")
    <3>1. NackTrue \/ "tip" \in i2c.buf
      BY <2>1, <2>3 DEF StatusTrue
    <3>2. NackTrue' \/ "tip" \in i2c'.buf
      BY <1>6, <2>2, <2>3, <3>1 DEF Kept
    <3> QED BY <1>7, <2>2, <2>3, <3>2 DEF I2cAt
  <2>4. CASE ("al" \in i2c.buf \/ i2c.cnt <= 0) /\ I2cResult("eio")
    <3>1. "tip" \in i2c'.buf
      <4>1. i2c.cnt \in Int
        BY <1>0 DEF I2cTypeOK
      <4> QED BY <2>1, <2>2, <2>4, <4>1 DEF StatusTrue
    <3> QED BY <1>7, <2>2, <2>4, <3>1 DEF I2cAt
  <2>5. CASE i2c.cnt > 0 /\ i2c.i > 0 /\ i2c.op = "read" /\ i2c' = [i2c EXCEPT !.pc = "rxr"]
    <3>1. i2c'.pc = "rxr" /\ i2c'.i = i2c.i
      BY <1>0, <2>5 DEF I2cTypeOK
    <3>2. Through' /\ ~Sends'
      BY <1>6, <2>1, <2>5, <3>1, SameByte DEF StatusTrue, Kept, Sends
    <3> QED BY <1>7, <3>1, <3>2 DEF I2cAt
  <2>6. CASE i2c.cnt > 0 /\ I2cAdvance
    BY <1>7, <1>15, <2>1, <2>6 DEF StatusTrue
  <2> QED BY <1>16, <2>3, <2>4, <2>5, <2>6 DEF I2cCheck
<1>17. CASE I2cRxr
  <2>1. /\ i2c.pc = "rxr" /\ i2c'.pc = "rxr_wait" /\ i2c'.i = i2c.i
        /\ Call("fe", Fetch("rxr", {}, 2))
    BY <1>0, <1>17 DEF I2cRxr, I2cCall, I2cTypeOK
  <2>2. Through' /\ ~Sends'
    BY <1>5, <1>6, <2>1, SameByte DEF I2cAt, Kept
  <2>3. cmd'["fe"].op = "rxr"
    BY <1>8, <2>1 DEF Fetch
  <2> QED BY <1>7, <2>1, <2>2, <2>3 DEF I2cAt
<1>18. CASE I2cRead
  <2>1. Through /\ I2cAdvance
    BY <1>5, <1>18 DEF I2cRead, I2cAt
  <2> QED BY <1>7, <1>15, <2>1
<1> QED BY <1>3, <1>9, <1>10, <1>11, <1>12, <1>13, <1>14, <1>16, <1>17, <1>18, Zenon DEF FeStep

LEMMA I2cInit == Init => CoreOK /\ HoldsInv /\ WaitsInv /\ SonyInv /\ I2cInv
<1> HIDE DEF UsbAssumption
<1> SUFFICES ASSUME Init PROVE CoreOK /\ HoldsInv /\ WaitsInv /\ SonyInv /\ I2cInv
    OBVIOUS
<1>1. CoreOK
  <2> HIDE DEF Values
  <2>1. {} \in Values
    BY BitValues
  <2> QED BY <2>1 DEF Init, IdleCore, CoreOK
<1>2. HoldsInv
  BY DEF Init, UsbInit, HoldsInv
<1>3. WaitsInv
  BY DEF Init, UsbInit, WaitsInv, NoI2c, NoCmd
<1>4. SonyInv
  <2>1. ~up /\ opening = <<>>
    BY Zenon DEF Init
  <2> QED BY <2>1 DEF SonyInv
<1>5. I2cInv
  <2>1. i2c.pc = "idle"
    BY DEF Init, NoI2c
  <2> QED BY <2>1 DEF I2cInv, Sure
<1> QED BY <1>1, <1>2, <1>3, <1>4, <1>5

\* An I2C function says what was on the bus, with any commands of the other thread in
\* between, for any number of bytes and any even budget of the polls (the code's is
\* 1000; with an odd one it gives up although the byte is through: cnt goes down by two
\* per poll).
THEOREM I2cTruthful ==
  ASSUME PollBudget > 0, PollBudget % 2 = 0
  PROVE  Spec => []I2cTruth
<1> DEFINE TInv == CoreOK /\ HoldsInv /\ WaitsInv /\ SonyInv /\ I2cInv
<1>1. DInv /\ ResetInv /\ TInv /\ [Next]_vars => TInv'
  <2> SUFFICES ASSUME DInv, ResetInv, TInv, [Next]_vars PROVE TInv'
      OBVIOUS
  <2> HIDE DEF UsbAssumption, DeviceAssumption
  <2>1. TypeOK /\ UsbTypeOK
    BY DEF DInv, UsbInv
  <2>2. CoreOK'
    BY <2>1, CoreKept
  <2>3. HoldsInv'
    BY <2>1, NextIsUsb, HoldsKept
  <2>4. WaitsInv'
    BY <2>1, WaitsKept
  <2>5. SonyInv'
    BY SonyKept
  <2>6. I2cInv'
    <3> HIDE DEF TInv
    <3>0. CoreOK /\ HoldsInv /\ WaitsInv /\ SonyInv /\ I2cInv
      BY DEF TInv
    <3>1. ASSUME NEW t \in Threads, IoStep(t), UNCHANGED ClientVars PROVE I2cInv'
      <4>1. t = "fe" \/ t = "ci"
        BY DeviceAssumption DEF DeviceAssumption
      <4> QED BY <3>0, <3>1, <4>1, FeIoKept, CiStepKept
    <3>2. CASE \/ OpenBegin \/ OpenStep \/ Down
               \/ \E t \in Threads : ResetStep(t) \/ \E put \in BOOLEAN : ResetBegin(t, put)
               \/ CiCommand \/ CiDone \/ I2cByteDone \/ UNCHANGED vars
      BY <3>0, <3>2, OthersKept
    <3>3. CASE \E op \in {"write", "read"}, size \in 0 .. MaxSize : I2cBegin(op, size)
      BY <3>0, <3>3, I2cBeginKept
    <3>4. CASE FeStep
      BY <3>0, <3>4, FeStepKept
    <3>5. CASE FpgaExec
      BY <3>0, <3>5, CardKept
    <3> QED BY <3>1, <3>2, <3>3, <3>4, <3>5, Zenon DEF Next
  <2> QED BY <2>2, <2>3, <2>4, <2>5, <2>6
<1>2. DInv /\ TInv => I2cTruth
  <2> SUFFICES ASSUME DInv, I2cInv, i2c.pc = "return", i2c.sure, failed = 0
               PROVE  /\ i2c.res = "ok" => bus = Transaction(i2c.op, i2c.size)
                      /\ i2c.res = "nodev" => torn \/ "sony" \in intended \/ "tip" \in i2c.buf
                      /\ i2c.res = "eio" => "tip" \in i2c.buf
      BY DEF I2cTruth
  <2>1. I2cAt
    BY DEF I2cInv, Sure
  <2>2. i2c.res = "ok" => Through /\ Last
    BY <2>1 DEF I2cAt
  <2>3. i2c.size \in Nat
    BY DEF DInv, TypeOK, I2cTypeOK
  <2>4. i2c.res = "ok" => bus = Transaction(i2c.op, i2c.size)
    BY <2>2, <2>3, BytesNext DEF Through, Last
  <2> QED BY <2>1, <2>4 DEF I2cAt, NackTrue
<1>3. Init => TInv
  BY I2cInit
<1>4. DInv /\ ResetInv /\ [Next]_vars => ResetInv'
  BY ResetKept DEF DInv
<1> HIDE DEF TInv
<1> QED BY <1>1, <1>2, <1>3, <1>4, ResetInit, DeviceInvariant, PTL DEF Spec

=============================================================================
