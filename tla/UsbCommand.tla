------------------------------ MODULE UsbCommand ------------------------------
(***************************************************************************)
(* Commands to the FPGA over USB (src/src/joker_fpga.c): joker_io sends a  *)
(* command to endpoint 2 and reads its reply, if it has one, from endpoint *)
(* 1, under io_mux.  Both transfers give up after two seconds; what a      *)
(* transfer that was given up leaves in the card is not taken back.        *)
(*                                                                         *)
(* The FPGA (external) takes commands in order and appends the reply of    *)
(* each to endpoint 1.  Commands that want a reply are numbered.  A        *)
(* register value is the set of the bits that are set.                     *)
(***************************************************************************)
EXTENDS Integers, Sequences

CONSTANTS
  Threads,       \* threads that send commands
  NoThread,
  MaxFails,      \* bound: transfers that fail or time out in a session
  CleanupReads,  \* reads joker_open makes to empty endpoint 1
  Depth          \* commands the card accepts before it has done the oldest

ASSUME UsbAssumption ==
  /\ NoThread \notin Threads
  /\ MaxFails \in Nat /\ CleanupReads \in Nat
  /\ Depth \in Nat \ {0}

VARIABLES
  mux,       \* owner of io_mux, between the two transfers of a command
  ioPc,      \* program counter of joker_io, per thread
  cmd,       \* its jcmd: operation, value, expected length of the reply
  ret,       \* what it returned: success, the reply in in_buf
  ep2,       \* commands the card has and has not carried out
  ep1,       \* replies that wait in endpoint 1
  asked,     \* history: number of the last command with a reply
  answered,  \* history: number of the last reply taken from endpoint 1
  failed,    \* history: transfers that failed since joker_open
  cleanups,  \* cleanup reads joker_open has made
  start      \* history: replies outstanding when the process before ended and
             \* after the cleanup; was the card still at work during the
             \* cleanup, or did one of its reads fail

usbVars == <<mux, ioPc, cmd, ret, ep2, ep1, asked, answered, failed, cleanups,
             start>>

\* The commands, and the bits of the registers they read and write.
Ops  == {"none", "isoc_len_hi", "isoc_len_lo", "reset", "ci",
         "i2c_prelo", "i2c_prehi", "i2c_ctr", "txr", "cr", "sr", "rxr"}
Bits == {"sony", "cam", "addr", "rd", "d1", "d2", "start", "write", "read", "stop",
         "tip", "nack", "al", "rx", "other"}

Values   == SUBSET Bits
Command  == [op : Ops, val : Values, len : Nat]
Reply    == [n : Nat \ {0}, val : Values, len : Nat]
NoReply  == [n |-> 0, val |-> {}, len |-> 0]
NoCmd    == [op |-> "none", val |-> {}, len |-> 0]
NoReturn == [ok |-> FALSE, n |-> 0, reply |-> NoReply]

UsbInit ==
  /\ mux = NoThread
  /\ ioPc = [t \in Threads |-> "idle"]
  /\ cmd = [t \in Threads |-> NoCmd] /\ ret = [t \in Threads |-> NoReturn]
  /\ ep2 = <<>> /\ ep1 = <<>>
  /\ asked = 0 /\ answered = 0 /\ failed = 0 /\ cleanups = 0
  /\ start = [left |-> 0, owed |-> 0, missed |-> FALSE]

WantsReply(t) == cmd[t].len > 0
Numbered(t)   == IF WantsReply(t) THEN asked + 1 ELSE asked

\* A thread calls joker_io (joker_cmd) with command c; before joker_open has
\* come to the commands there is no io_mux.
Call(t, c) ==
  /\ cleanups = CleanupReads
  /\ ioPc[t] = "idle"
  /\ ioPc' = [ioPc EXCEPT ![t] = "lock"]
  /\ cmd' = [cmd EXCEPT ![t] = c]
  /\ UNCHANGED <<mux, ret, ep2, ep1, asked, answered, failed, cleanups, start>>

\* The caller goes on with the result.
Consume(t) ==
  /\ ioPc[t] = "done"
  /\ ioPc' = [ioPc EXCEPT ![t] = "idle"]
  /\ cmd' = [cmd EXCEPT ![t] = NoCmd] /\ ret' = [ret EXCEPT ![t] = NoReturn]
  /\ UNCHANGED <<mux, ep2, ep1, asked, answered, failed, cleanups,
                 start>>

\* joker_io unlocks and returns: ok, or -EIO.
IoReturn(t, ok, reply) ==
  /\ mux' = NoThread
  /\ ioPc' = [ioPc EXCEPT ![t] = "done"]
  /\ ret' = [ret EXCEPT ![t] = [ok |-> ok, n |-> asked', reply |-> reply]]

Deliver(t) ==
  /\ Len(ep2) < Depth
  /\ asked' = Numbered(t)
  /\ ep2' = Append(ep2, [cmd |-> cmd[t],
                         n |-> IF WantsReply(t) THEN asked + 1 ELSE 0])

\* Mutant: io_mux is given back between the two transfers.
IoOutUnlocks(t) ==
  /\ ioPc[t] = "lock" /\ mux = NoThread
  /\ Deliver(t)
  /\ \/ /\ WantsReply(t)
        /\ ioPc' = [ioPc EXCEPT ![t] = "in"]
        /\ UNCHANGED <<mux, ret>>
     \/ ~WantsReply(t) /\ IoReturn(t, TRUE, NoReply)
  /\ UNCHANGED <<cmd, ep1, answered, failed, cleanups, start>>

\* Lines 240-248: io_mux is taken, the command is in the card.
IoOut(t) ==
  /\ ioPc[t] = "lock" /\ mux = NoThread
  /\ Deliver(t)
  /\ \/ /\ WantsReply(t)
        /\ mux' = t
        /\ ioPc' = [ioPc EXCEPT ![t] = "in"]
        /\ UNCHANGED ret
     \/ ~WantsReply(t) /\ IoReturn(t, TRUE, NoReply)
  /\ UNCHANGED <<cmd, ep1, answered, failed, cleanups, start>>

\* The transfer fails or times out; the card may have the command all the same.
IoOutFails(t) ==
  /\ ioPc[t] = "lock" /\ mux = NoThread
  /\ failed < MaxFails
  /\ failed' = failed + 1
  /\ Deliver(t) \/ UNCHANGED <<asked, ep2>>
  /\ IoReturn(t, FALSE, NoReply)
  /\ UNCHANGED <<cmd, ep1, answered, cleanups, start>>

\* Lines 251-261: the oldest reply in endpoint 1, an error when its length is
\* another than the one expected.
IoIn(t) ==
  /\ ioPc[t] = "in"
  /\ ep1 # <<>>
  /\ ep1' = Tail(ep1)
  /\ answered' = Head(ep1).n
  /\ UNCHANGED <<cmd, ep2, asked, failed, cleanups, start>>
  /\ IoReturn(t, Head(ep1).len = cmd[t].len, Head(ep1))

\* Mutant: the error path does not unlock.
IoInFailsLocked(t) ==
  /\ ioPc[t] = "in"
  /\ failed < MaxFails
  /\ failed' = failed + 1
  /\ ioPc' = [ioPc EXCEPT ![t] = "done"]
  /\ ret' = [ret EXCEPT ![t] = [ok |-> FALSE, n |-> asked, reply |-> NoReply]]
  /\ UNCHANGED <<mux, cmd, ep2, ep1, asked, answered, cleanups, start>>

\* No reply within two seconds, or a failing transfer: the reply is not awaited.
IoInFails(t) ==
  /\ ioPc[t] = "in"
  /\ failed < MaxFails
  /\ failed' = failed + 1
  /\ UNCHANGED <<cmd, ep2, ep1, asked, answered, cleanups, start>>
  /\ IoReturn(t, FALSE, NoReply)

\* External: the FPGA carries out its oldest command; v is the reply's value.
FpgaTake(v) ==
  /\ ep2 # <<>>
  /\ ep2' = Tail(ep2)
  /\ ep1' = IF Head(ep2).n = 0 THEN ep1
            ELSE Append(ep1, [n |-> Head(ep2).n, val |-> v,
                              len |-> Head(ep2).cmd.len])
  /\ UNCHANGED <<mux, ioPc, cmd, ret, asked, answered, failed, cleanups, start>>

-----------------------------------------------------------------------------
(* joker_open: endpoint 1 is read CleanupReads times, one millisecond each, *)
(* and the results of the reads are not looked at.                         *)

AllIdle == \A t \in Threads : ioPc[t] = "idle"

\* Mutant: the reads of joker_open are left out.
CleanupNone ==
  /\ AllIdle
  /\ cleanups < CleanupReads
  /\ cleanups' = cleanups + 1
  /\ UNCHANGED <<mux, ioPc, cmd, ret, ep2, ep1, asked, answered, failed, start>>

\* Nothing is there, the oldest reply is taken, or the read fails.
CleanupRead ==
  /\ AllIdle
  /\ cleanups < CleanupReads
  /\ cleanups' = cleanups + 1
  /\ \/ ep1 = <<>> /\ UNCHANGED <<ep1, answered, failed>>
     \/ /\ ep1 # <<>>
        /\ ep1' = Tail(ep1) /\ answered' = Head(ep1).n /\ UNCHANGED failed
     \/ /\ ep1 # <<>> /\ failed < MaxFails
        /\ failed' = failed + 1 /\ UNCHANGED <<ep1, answered>>
  /\ start' = [start EXCEPT !.owed = asked - answered',
                            !.missed = @ \/ ep2 # <<>> \/ failed' # failed]
  /\ UNCHANGED <<mux, ioPc, cmd, ret, ep2, asked>>

\* The process ends, or is killed: the card keeps what it has.
ProcessEnds ==
  /\ mux' = NoThread
  /\ ioPc' = [t \in Threads |-> "idle"]
  /\ cmd' = [t \in Threads |-> NoCmd] /\ ret' = [t \in Threads |-> NoReturn]
  /\ failed' = 0 /\ cleanups' = 0
  /\ start' = [left |-> asked - answered, owed |-> asked - answered,
               missed |-> FALSE]
  /\ UNCHANGED <<ep2, ep1, asked, answered>>

IoStep(t) == IoOut(t) \/ IoOutFails(t) \/ IoIn(t) \/ IoInFails(t)

\* Any threads with any commands: the clients of joker_io do some of this.
UsbNext ==
  \/ \E t \in Threads : \/ IoStep(t) \/ Consume(t)
                        \/ \E c \in Command : Call(t, c)
  \/ \E v \in Values : FpgaTake(v)
  \/ CleanupRead \/ ProcessEnds

UsbSpec == UsbInit /\ [][UsbNext]_usbVars

-----------------------------------------------------------------------------

Waiting == \E t \in Threads : ioPc[t] = "in"

\* The code keeps the types of its variables.
UsbTypeOK ==
  /\ mux \in Threads \cup {NoThread}
  /\ ioPc \in [Threads -> {"idle", "lock", "in", "done"}]
  /\ cmd \in [Threads -> Command]
  /\ ret \in [Threads -> [ok : BOOLEAN, n : Nat, reply : Reply \cup {NoReply}]]
  /\ ep2 \in Seq([cmd : Command, n : Nat]) /\ ep1 \in Seq(Reply)
  /\ asked \in Nat /\ answered \in Nat /\ failed \in Nat
  /\ cleanups \in 0 .. CleanupReads
  /\ start \in [left : Nat, owed : Nat, missed : BOOLEAN]

\* io_mux is held exactly between the two transfers of a command.
MuxInv == \A t \in Threads : mux = t <=> ioPc[t] = "in"

\* What the card holds is younger than what was taken from it, and the replies
\* are in the order of their commands.
OrderInv ==
  /\ answered <= asked
  /\ \A i \in DOMAIN ep1 : ep1[i].n \in answered + 1 .. asked
  /\ \A j \in DOMAIN ep2 : ep2[j].n = 0 \/ ep2[j].n \in answered + 1 .. asked
  /\ \A i, j \in DOMAIN ep1 : i < j => ep1[i].n < ep1[j].n
  /\ \A i, j \in DOMAIN ep2 : i < j /\ ep2[j].n # 0 => ep2[i].n < ep2[j].n
  /\ \A i \in DOMAIN ep1, j \in DOMAIN ep2 :
       ep2[j].n # 0 => ep1[i].n < ep2[j].n

\* The replies still to come: one per transfer given up, those found by
\* joker_open and not read by it, and the one that is waited for.
OwedInv ==
  asked - answered <= failed + start.owed + (IF Waiting THEN 1 ELSE 0)

\* joker_io hands out the reply of the command itself, or of one as many
\* commands earlier as transfers failed or joker_open left replies in the card;
\* it leaves none when at most CleanupReads were there, the card was done with
\* its commands and no read failed ("prophylactic cleanup EP1 IN", joker_fpga.c:114).
SkewBounded ==
  /\ \A t \in Threads :
       ioPc[t] = "done" /\ ret[t].ok /\ WantsReply(t) =>
         ret[t].n - ret[t].reply.n <= failed + start.owed
  /\ cleanups = CleanupReads /\ start.left <= CleanupReads /\ ~start.missed =>
       start.owed = 0

\* joker_io is the command channel (module CommandChannel).
Channel == INSTANCE CommandChannel WITH waiting <- Waiting
ImplementsChannel == Channel!ChannelSpec
=============================================================================
