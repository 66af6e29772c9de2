-------------------------------- MODULE Device --------------------------------
(***************************************************************************)
(* The clients of the command channel that share registers of the card:    *)
(* joker_open (joker_fpga.c), the reset register (joker_utils.c) and the   *)
(* I2C master (joker_i2c.c).                                               *)
(*                                                                         *)
(* Two threads use them at the same time: "fe" is whoever has the frontend *)
(* (the application in tune, or the service thread: module ServiceThread   *)
(* keeps the two apart), "ci" is the CI worker, which switches the power   *)
(* of the CAM and exchanges bytes with it.  joker->reset, a copy of the    *)
(* reset register, is changed by both without a lock; an I2C transaction   *)
(* is a series of commands, between which those of the other thread come.  *)
(***************************************************************************)
EXTENDS UsbCommand

CONSTANTS
  MaxOps,      \* bound: calls of each kind
  MaxCalls,    \* bound: calls of all kinds
  MaxKilled,   \* bound: calls made by a process that is killed
  MaxSessions, \* bound: times the device is opened
  PollBudget,  \* initial cnt of joker_i2c_read_cycle (1000)
  MaxSize      \* bound: data bytes of an I2C transaction

Kinds == {"reset", "i2c", "ci"}

ASSUME DeviceAssumption ==
  /\ Threads = {"fe", "ci"}
  /\ MaxOps \in [Kinds -> Nat] /\ MaxSessions \in Nat
  /\ MaxCalls \in Nat /\ MaxKilled \in Nat
  /\ PollBudget \in Nat /\ MaxSize \in Nat

VARIABLES
  shadow,    \* joker->reset: bits of the chips in reset
  hw,        \* the reset register of the FPGA
  intended,  \* history: what the calls of joker_reset/joker_unreset asked for
  rst,       \* the call of joker_reset/joker_unreset of each thread
  torn,      \* history: two such calls overlapped since joker_open
  lastWrite, \* history: the write of the call that ended last succeeded
  i2c,       \* the I2C function "fe" is in
  core,      \* registers of the I2C core: txr, byte in shift, cr, tip, nack
  bus,       \* history: what was on the I2C bus since the last START
  opening,   \* commands of joker_open still to send; <<>>: none
  up,        \* joker_open has succeeded
  ops,       \* history: calls of each kind so far
  sessions   \* history: sessions begun

resetVars == <<shadow, hw, intended, rst, torn, lastWrite>>
i2cVars   == <<i2c, core, bus>>
openVars  == <<opening, up, sessions>>
vars == <<usbVars, resetVars, i2cVars, openVars, ops>>

Chips   == {"sony", "cam"}
ChipOf  == [t \in Threads |-> IF t = "fe" THEN {"sony"} ELSE {"cam"}]
Send(op, val)     == [op |-> op, val |-> val, len |-> 0]
Fetch(op, val, n) == [op |-> op, val |-> val, len |-> n]

NoReset == [pc |-> "idle", put |-> FALSE, mask |-> {}, tmp |-> {}]
\* cnt, buf and i as in joker_i2c.c; sure: the bus was idle and no transfer had
\* failed when the transaction began, so nothing stale can be read in it.
NoI2c   == [pc |-> "idle", op |-> "write", size |-> 0, i |-> 0, cnt |-> 0,
            buf |-> {}, set |-> FALSE, res |-> "none", sure |-> FALSE]
IdleCore == [txr |-> {}, shift |-> {}, cr |-> {}, tip |-> FALSE, nack |-> FALSE]

\* The commands joker_open sends after the cleanup; joker_reset comes last.
IsocCommands == {"isoc_len_hi", "isoc_len_lo"}
OpenCommands == <<"isoc_len_hi", "isoc_len_lo", "i2c_prelo", "i2c_prehi",
                  "i2c_ctr", "reset">>

Init ==
  /\ UsbInit
  /\ shadow = {} /\ hw = Chips /\ intended = {} /\ torn = FALSE
  /\ rst = [t \in Threads |-> NoReset] /\ lastWrite = TRUE
  /\ i2c = NoI2c /\ core = IdleCore /\ bus = <<>>
  /\ opening = <<>> /\ up = FALSE /\ sessions = 0
  /\ ops = [k \in Kinds |-> 0]

-----------------------------------------------------------------------------
(* joker_open and the end of the process *)

OpenBegin ==
  /\ ~up /\ cleanups = 0 /\ opening = <<>> /\ sessions < MaxSessions
  /\ sessions' = sessions + 1
  /\ opening' = OpenCommands
  /\ UNCHANGED <<usbVars, resetVars, i2cVars, up, ops>>

OpenCleanup ==
  /\ opening # <<>>
  /\ CleanupRead
  /\ UNCHANGED <<resetVars, i2cVars, openVars, ops>>

OpenCommand ==
  /\ opening # <<>> /\ Head(opening) \notin {"reset", "return"}
  /\ Call("fe", Send(Head(opening), {}))
  /\ UNCHANGED <<resetVars, i2cVars, openVars, ops>>

\* A failing isoc command ends joker_open, a failing command of joker_i2c_init
\* is not noticed (joker_i2c.c:59).
OpenNext ==
  /\ opening # <<>> /\ Head(opening) \notin {"reset", "return"}
  /\ Consume("fe")
  /\ opening' = IF ret["fe"].ok \/ Head(opening) \notin IsocCommands
                THEN Tail(opening) ELSE <<>>
  /\ UNCHANGED <<resetVars, i2cVars, up, sessions, ops>>

\* joker_reset(joker, 0xFF), whose result is not looked at.
OpenReset ==
  /\ opening = <<"reset">>
  /\ opening' = <<"return">>
  /\ rst' = [rst EXCEPT !["fe"] = [pc |-> "load", put |-> TRUE, mask |-> Chips,
                                  tmp |-> {}]]
  /\ intended' = Chips
  /\ UNCHANGED <<usbVars, shadow, hw, torn, lastWrite, i2cVars, up, sessions, ops>>

OpenReturn ==
  /\ opening = <<"return">> /\ rst["fe"].pc = "idle"
  /\ opening' = <<>>
  /\ up' = TRUE
  /\ UNCHANGED <<usbVars, resetVars, i2cVars, sessions, ops>>

Calls == ops["reset"] + ops["i2c"] + ops["ci"]

\* The process is killed or ends, wherever its threads are.
Down ==
  /\ cleanups > 0 /\ sessions < MaxSessions /\ Calls <= MaxKilled
  /\ ProcessEnds
  /\ up' = FALSE /\ opening' = <<>>
  /\ rst' = [t \in Threads |-> NoReset] /\ i2c' = NoI2c
  /\ shadow' = {} /\ intended' = {} /\ torn' = FALSE /\ lastWrite' = TRUE
  /\ UNCHANGED <<hw, core, bus, sessions, ops>>

-----------------------------------------------------------------------------
(* joker_reset and joker_unreset *)

InReset(t) == rst[t].pc # "idle"
Free(t)    == up /\ rst[t].pc = "idle" /\ (t = "fe" => i2c.pc = "idle")

MayCall(t, kind) ==
  /\ Free(t) /\ ioPc[t] = "idle"
  /\ ops[kind] < MaxOps[kind] /\ Calls < MaxCalls

ResetBegin(t, put) ==
  /\ MayCall(t, "reset")
  /\ ops' = [ops EXCEPT !["reset"] = @ + 1]
  /\ rst' = [rst EXCEPT ![t] = [pc |-> "load", put |-> put, mask |-> ChipOf[t],
                                tmp |-> {}]]
  /\ intended' = IF put THEN intended \cup ChipOf[t] ELSE intended \ ChipOf[t]
  /\ torn' = (torn \/ \E u \in Threads : InReset(u))
  /\ UNCHANGED <<usbVars, shadow, hw, lastWrite, i2cVars, openVars>>

\* "joker->reset |= mask" and "&= ~mask": a load and a store.
ResetLoad(t) ==
  /\ rst[t].pc = "load"
  /\ rst' = [rst EXCEPT ![t].pc = "store", ![t].tmp = shadow]
  /\ UNCHANGED <<usbVars, shadow, hw, intended, torn, lastWrite, i2cVars,
                 openVars, ops>>

ResetStore(t) ==
  /\ rst[t].pc = "store"
  /\ shadow' = IF rst[t].put THEN rst[t].tmp \cup rst[t].mask
               ELSE rst[t].tmp \ rst[t].mask
  /\ rst' = [rst EXCEPT ![t].pc = "write"]
  /\ UNCHANGED <<usbVars, hw, intended, torn, lastWrite, i2cVars, openVars, ops>>

\* Mutant: the mask is written in place of the whole register.
ResetWriteMask(t) ==
  /\ rst[t].pc = "write"
  /\ Call(t, Send("reset", rst[t].mask))
  /\ rst' = [rst EXCEPT ![t].pc = "wait"]
  /\ UNCHANGED <<shadow, hw, intended, torn, lastWrite, i2cVars, openVars, ops>>

\* joker_reset_write reads joker->reset once more.
ResetWrite(t) ==
  /\ rst[t].pc = "write"
  /\ Call(t, Send("reset", shadow))
  /\ rst' = [rst EXCEPT ![t].pc = "wait"]
  /\ UNCHANGED <<shadow, hw, intended, torn, lastWrite, i2cVars, openVars, ops>>

ResetReturn(t) ==
  /\ rst[t].pc = "wait"
  /\ Consume(t)
  /\ lastWrite' = ret[t].ok
  /\ rst' = [rst EXCEPT ![t] = NoReset]
  /\ UNCHANGED <<shadow, hw, intended, torn, i2cVars, openVars, ops>>

-----------------------------------------------------------------------------
(* The other commands of the CI worker: status, and bytes of the CAM *)

CiCommand ==
  /\ MayCall("ci", "ci")
  /\ \E len \in {2, 5} : Call("ci", Fetch("ci", {}, len))
  /\ ops' = [ops EXCEPT !["ci"] = @ + 1]
  /\ UNCHANGED <<resetVars, i2cVars, openVars>>

CiDone ==
  /\ ~InReset("ci")
  /\ Consume("ci")
  /\ UNCHANGED <<resetVars, i2cVars, openVars, ops>>

-----------------------------------------------------------------------------
(* joker_i2c_write, joker_i2c_read; joker_i2c_ping is a write of no bytes *)

\* The 8-bit address of the chip, and the data bytes of a write.
Address(op) == IF op = "write" THEN {"addr"} ELSE {"addr", "rd"}
DataByte(i) == IF i = 1 THEN {"d1"} ELSE {"d2"}
Last        == i2c.i = i2c.size

I2cBegin(op, size) ==
  /\ MayCall("fe", "i2c")
  /\ ops' = [ops EXCEPT !["i2c"] = @ + 1]
  /\ i2c' = [NoI2c EXCEPT !.pc = "txr", !.op = op, !.size = size,
               !.sure = /\ failed = 0 /\ start.owed = 0 /\ ~core.tip
                        /\ \A j \in DOMAIN ep2 : ep2[j].cmd.op \notin {"txr", "cr"}]
  /\ UNCHANGED <<usbVars, resetVars, core, bus, openVars>>

I2cCall(pc, c, next) ==
  /\ i2c.pc = pc
  /\ Call("fe", c)
  /\ i2c' = [i2c EXCEPT !.pc = next]
  /\ UNCHANGED <<resetVars, core, bus, openVars, ops>>

\* Address or data into the transmit register.
I2cTxr ==
  I2cCall("txr", Send("txr", IF i2c.i = 0 THEN Address(i2c.op)
                             ELSE DataByte(i2c.i)), "txr_wait")

\* Mutant: STOP is left out after the last byte.
I2cCrNoStop ==
  I2cCall("cr", Send("cr", IF i2c.i = 0 THEN {"start", "write"}
                           ELSE IF i2c.op = "write" THEN {"write"} ELSE {"read"}),
          "cr_wait")

\* The bus transfer, with STOP after the last byte.
I2cCr ==
  I2cCall("cr", Send("cr", (IF i2c.i = 0 THEN {"start", "write"}
                            ELSE IF i2c.op = "write" THEN {"write"} ELSE {"read"})
                           \cup (IF Last THEN {"stop"} ELSE {})), "cr_wait")

\* joker_i2c_write_cmd returns 0 whatever joker_io returned (line 59).
I2cWrote ==
  /\ i2c.pc \in {"txr_wait", "cr_wait"}
  /\ Consume("fe")
  /\ i2c' = IF i2c.pc = "txr_wait" THEN [i2c EXCEPT !.pc = "cr"]
            ELSE [i2c EXCEPT !.pc = "poll", !.cnt = PollBudget]
  /\ UNCHANGED <<resetVars, core, bus, openVars, ops>>

\* "while (cnt-- > 0)" of joker_i2c_read_cycle.
I2cPoll ==
  /\ i2c.pc = "poll" /\ i2c.cnt > 0
  /\ Call("fe", Fetch("sr", {}, 2))
  /\ i2c' = [i2c EXCEPT !.pc = "poll_wait", !.cnt = @ - 1]
  /\ UNCHANGED <<resetVars, core, bus, openVars, ops>>

I2cPollEnds ==
  /\ i2c.pc = "poll" /\ i2c.cnt <= 0
  /\ i2c' = [i2c EXCEPT !.pc = "check", !.cnt = @ - 1]
  /\ UNCHANGED <<usbVars, resetVars, core, bus, openVars, ops>>

\* A failed joker_io leaves buf as it was, at first uninitialised, and counts
\* as success (line 39); cnt is decremented again while TIP is set.
I2cPolled ==
  /\ i2c.pc = "poll_wait"
  /\ Consume("fe")
  /\ \E b \in IF ret["fe"].ok THEN {ret["fe"].reply.val}
              ELSE IF i2c.set THEN {i2c.buf} ELSE SUBSET {"tip", "nack", "al"} :
       i2c' = [i2c EXCEPT !.buf = b, !.set = TRUE,
                 !.pc  = IF "tip" \in b THEN "poll" ELSE "check",
                 !.cnt = IF "tip" \in b THEN @ - 1 ELSE @]
  /\ UNCHANGED <<resetVars, core, bus, openVars, ops>>

I2cResult(res) == i2c' = [i2c EXCEPT !.pc = "return", !.res = res]

\* The next byte, or the end of the transaction.
I2cAdvance ==
  \/ Last /\ I2cResult("ok")
  \/ ~Last /\ i2c' = [i2c EXCEPT !.i = @ + 1,
                        !.pc = IF i2c.op = "write" THEN "txr" ELSE "cr"]

\* Lines 88-104: no acknowledge (address only), arbitration lost, timeout.
I2cCheck ==
  /\ i2c.pc = "check"
  /\ \/ i2c.i = 0 /\ "nack" \in i2c.buf /\ I2cResult("nodev")
     \/ /\ ~(i2c.i = 0 /\ "nack" \in i2c.buf)
        /\ "al" \in i2c.buf \/ i2c.cnt <= 0
        /\ I2cResult("eio")
     \/ /\ ~(i2c.i = 0 /\ "nack" \in i2c.buf)
        /\ "al" \notin i2c.buf /\ i2c.cnt > 0
        /\ IF i2c.i > 0 /\ i2c.op = "read" THEN i2c' = [i2c EXCEPT !.pc = "rxr"]
           ELSE I2cAdvance
  /\ UNCHANGED <<usbVars, resetVars, core, bus, openVars, ops>>

I2cRxr == I2cCall("rxr", Fetch("rxr", {}, 2), "rxr_wait")

I2cRead ==
  /\ i2c.pc = "rxr_wait"
  /\ Consume("fe")
  /\ I2cAdvance
  /\ UNCHANGED <<resetVars, core, bus, openVars, ops>>

I2cReturn ==
  /\ i2c.pc = "return"
  /\ i2c' = NoI2c
  /\ UNCHANGED <<usbVars, resetVars, core, bus, openVars, ops>>

-----------------------------------------------------------------------------
(* External: the FPGA with its reset register and its I2C core *)

StatusRegister == (IF core.tip THEN {"tip"} ELSE {})
                  \cup (IF core.nack THEN {"nack"} ELSE {})

On(ev, val) == [ev |-> ev, val |-> val]

\* A command for the I2C core while a byte is on its way spoils it.
FpgaExec ==
  /\ ep2 # <<>>
  /\ LET c == Head(ep2).cmd
     IN /\ FpgaTake(CASE c.op = "sr"  -> StatusRegister
                      [] c.op = "rxr" -> {"rx"}
                      [] OTHER        -> {"other"})
        /\ hw' = IF c.op = "reset" THEN c.val ELSE hw
        /\ core' = CASE c.op = "txr" -> [core EXCEPT !.txr = c.val]
                     [] c.op = "cr" /\ ~core.tip ->
                          [core EXCEPT !.tip = TRUE, !.shift = core.txr, !.cr = c.val]
                     [] OTHER -> core
        /\ bus' = IF c.op = "cr" /\ core.tip THEN <<On("spoilt", {})>> ELSE bus
  /\ UNCHANGED <<shadow, intended, rst, torn, lastWrite, i2c, openVars, ops>>

\* The byte is through; a chip in reset does not acknowledge.
I2cByteDone ==
  /\ core.tip
  /\ bus' = (CASE "start" \in core.cr -> <<On("start", core.shift)>>
               [] "read" \in core.cr  -> Append(bus, On("read", {}))
               [] OTHER               -> Append(bus, On("write", core.shift)))
            \o (IF "stop" \in core.cr THEN <<On("stop", {})>> ELSE <<>>)
  /\ core' = [core EXCEPT !.tip = FALSE, !.nack = "sony" \in hw]
  /\ UNCHANGED <<usbVars, resetVars, i2c, openVars, ops>>

-----------------------------------------------------------------------------

FeStep ==
  \/ I2cTxr \/ I2cCr \/ I2cWrote \/ I2cPoll \/ I2cPollEnds \/ I2cPolled
  \/ I2cCheck \/ I2cRxr \/ I2cRead \/ I2cReturn

OpenStep == OpenCleanup \/ OpenCommand \/ OpenNext \/ OpenReset \/ OpenReturn

ResetStep(t) ==
  ResetLoad(t) \/ ResetStore(t) \/ ResetWrite(t) \/ ResetReturn(t)

ClientVars == <<resetVars, i2cVars, openVars, ops>>

Next ==
  \/ OpenBegin \/ OpenStep \/ Down
  \/ \E t \in Threads : \/ IoStep(t) /\ UNCHANGED ClientVars
                        \/ \E put \in BOOLEAN : ResetBegin(t, put)
                        \/ ResetStep(t)
  \/ CiCommand \/ CiDone
  \/ \E op \in {"write", "read"}, size \in 0 .. MaxSize : I2cBegin(op, size)
  \/ FeStep
  \/ FpgaExec \/ I2cByteDone

\* The threads run, and the card works on what it has.
Fairness ==
  /\ \A t \in Threads : WF_vars(IoStep(t) /\ UNCHANGED ClientVars)
  /\ WF_vars(FpgaExec)

Spec == Init /\ [][Next]_vars /\ Fairness

-----------------------------------------------------------------------------

ResetTypeOK ==
  /\ shadow \subseteq Chips /\ hw \subseteq Bits /\ intended \subseteq Chips
  /\ rst \in [Threads -> [pc : {"idle", "load", "store", "write", "wait"},
                          put : BOOLEAN, mask : SUBSET Chips, tmp : SUBSET Chips]]
  /\ torn \in BOOLEAN /\ lastWrite \in BOOLEAN

I2cTypeOK ==
  /\ i2c \in [pc : {"idle", "txr", "txr_wait", "cr", "cr_wait", "poll", "poll_wait",
                    "check", "rxr", "rxr_wait", "return"},
              op : {"write", "read"}, size : 0 .. MaxSize, i : 0 .. MaxSize,
              cnt : Int, buf : Values, set : BOOLEAN,
              res : {"none", "ok", "nodev", "eio"}, sure : BOOLEAN]
  /\ i2c.i <= i2c.size

OpenTypeOK ==
  /\ opening \in Seq(Ops \cup {"return"}) /\ up \in BOOLEAN
  /\ sessions \in Nat /\ ops \in [Kinds -> Nat]

\* The code keeps the types of the variables of its clients.
TypeOK == UsbTypeOK /\ ResetTypeOK /\ I2cTypeOK /\ OpenTypeOK

\* io_mux keeps the exchanges apart and endpoint 1 keeps the order of the
\* replies, whatever transfers fail and wherever a process is killed.
IInv == TypeOK /\ MuxInv /\ OrderInv /\ OwedInv

\* The value the reset register has when the card has done what it was sent.
HwFinal ==
  LET js == {j \in DOMAIN ep2 : ep2[j].cmd.op = "reset"}
  IN  IF js = {} THEN hw
      ELSE ep2[CHOOSE j \in js : \A k \in js : k <= j].cmd.val

\* The chips in reset are those the calls of joker_reset and joker_unreset asked
\* for, when none of the calls is in progress, the last one had its command
\* delivered and no two of them overlapped: every call writes all bits, so it
\* also repairs what a failed write before it left undone.
HardwareAsAsked ==
  up /\ ~torn /\ lastWrite /\ (\A t \in Threads : ~InReset(t)) => HwFinal = intended

\* What the I2C functions document: "Start/chip - data[0] - ... data[n]/Stop".
Transaction(op, size) ==
  <<On("start", Address(op))>>
  \o [i \in 1 .. size |-> IF op = "read" THEN On("read", {})
                          ELSE On("write", DataByte(i))]
  \o <<On("stop", {})>>

\* As long as no transfer has failed, and with the commands of the CI worker in
\* between, an I2C function that returns 0 has put its transaction on the bus,
\* ENODEV means that the chip was in reset (or that two writes of the reset
\* register overlapped), and EIO that a byte was on its way for all the polls.
I2cTruth ==
  i2c.pc = "return" /\ i2c.sure /\ failed = 0 =>
    /\ i2c.res = "ok" => bus = Transaction(i2c.op, i2c.size)
    /\ i2c.res = "nodev" => torn \/ "sony" \in intended \/ "tip" \in i2c.buf
    /\ i2c.res = "eio" => "tip" \in i2c.buf

\* joker_io returns: every path of it, the failing ones too, gives io_mux back.
EveryCallReturns ==
  \A t \in Threads : (ioPc[t] = "lock") ~> (ioPc[t] \in {"done", "idle"})
=============================================================================
