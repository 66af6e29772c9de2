----------------------------- MODULE TsPipeline -----------------------------
(***************************************************************************)
(* The Transport Stream pipeline of libjokertv (src/src/u_drv_data.c):     *)
(*                                                                         *)
(*   record_callback --ts_list--> process_ts --ts_list_all--> read_ts_data *)
(*                                                                         *)
(* record_callback runs in whichever thread handles libusb events: the     *)
(* usb thread of the pipeline, or a foreign thread ("io") inside a         *)
(* synchronous transfer of joker_io, which handles events too.  libusb's   *)
(* event lock lets one callback run at a time.  The application thread     *)
(* ("app") calls start_ts, read_ts_data and stop_ts one after the other,   *)
(* as joker-tv.cc and joker_blind_scan.c do.                               *)
(*                                                                         *)
(* Data is identified by its position in the received stream: a ts_node is *)
(* the interval [pos, pos + size), off of which was already read.  One     *)
(* unit is one TS packet.  Every critical section under "mux" is one       *)
(* action; "mux_all" is held over several, so its owner is a variable.     *)
(***************************************************************************)
EXTENDS Integers, Sequences

CONSTANTS
  MaxNodes,      \* bound: callbacks that deliver data in one behaviour
  MaxSessions,   \* bound: calls of start_ts in one behaviour
  NodeSizes,     \* sizes a ts_node may have (0: no usable packet in it)
  ReadSizes,     \* sizes asked of read_ts_data
  SizeMax,       \* pool->ts_list_size_max
  EventThreads,  \* threads that handle libusb events: {"usb"} or {"usb","io"}
  Faults         \* what may fail: "start", "usb_thread", "ts_thread", "release"

ASSUME ConstantsAssumption ==
  /\ MaxNodes \in Nat
  /\ MaxSessions \in Nat
  /\ NodeSizes \subseteq Nat
  /\ ReadSizes \subseteq Nat
  /\ SizeMax \in Nat
  /\ EventThreads \subseteq {"usb", "io"}
  /\ Faults \subseteq {"start", "usb_thread", "ts_thread", "release"}

VARIABLES
  initialized,   \* pool->initialized = BIG_POOL_MAGIC: threading allocated
  cancel,        \* pool->cancel
  armed,         \* transfers are submitted and their user_data is the pool
  tsList,        \* pool->ts_list
  tsListAll,     \* pool->ts_list_all
  tsListSize,    \* pool->ts_list_size
  muxAll,        \* owner of threading->mux_all: "free", "ts" or "app"
  waiting,       \* "ts": blocked on threading->cond, "app": on cond_all
  cb,            \* the record_callback being run: [by, pc, node]
  usbPc,         \* program counter of process_usb
  tsPc,          \* program counter of process_ts
  tsNode,        \* local variable node of process_ts
  appPc,         \* program counter of the application thread
  remain,        \* local variable remain of read_ts_data
  sessions,      \* history: number of start_ts calls
  sessionStart,  \* history: rcvd when the current session was started
  rcvd,          \* history: packets received so far
  nodes,         \* history: nodes filled so far
  parsed,        \* history: end of the last node shown to the PSI hooks
  out            \* history: last interval copied out by read_ts_data

poolVars == <<initialized, cancel, armed, tsList, tsListAll, tsListSize>>
appVars  == <<appPc, remain, sessions, sessionStart, out>>
tsVars   == <<tsPc, tsNode, parsed>>
cbVars   == <<cb, usbPc, rcvd, nodes>>
vars     == <<poolVars, muxAll, waiting, appVars, tsVars, cbVars>>

Node    == [pos : Nat, size : Nat, off : Nat]
NoNode  == [pos |-> 0, size |-> 0, off |-> 0]
EndOf(n) == n.pos + n.size
IdleCallback == [by |-> "usb", pc |-> "none", node |-> NoNode]

Init ==
  /\ initialized = FALSE /\ cancel = FALSE /\ armed = FALSE
  /\ tsList = <<>> /\ tsListAll = <<>> /\ tsListSize = 0
  /\ muxAll = "free" /\ waiting = {}
  /\ cb = IdleCallback /\ usbPc = "none"
  /\ tsPc = "none" /\ tsNode = NoNode
  /\ appPc = "idle" /\ remain = 0
  /\ sessions = 0 /\ sessionStart = 0 /\ rcvd = 0 /\ nodes = 0 /\ parsed = 0
  /\ out = [from |-> 0, to |-> 0]

-----------------------------------------------------------------------------
(* start_ts *)

\* Mutant: pool_init leaves the nodes of the session before on ts_list.
PoolInitKeepsList ==
  IF initialized
  THEN UNCHANGED <<initialized, tsList, tsListAll, tsListSize>>
  ELSE initialized' = TRUE /\ tsListAll' = <<>> /\ tsListSize' = 0
       /\ UNCHANGED tsList

\* pool_init when the pool is not initialized: empty lists, new threading.
PoolInit ==
  IF initialized
  THEN UNCHANGED <<initialized, tsList, tsListAll, tsListSize>>
  ELSE /\ initialized' = TRUE
       /\ tsList' = <<>>
       /\ tsListAll' = <<>>
       /\ tsListSize' = 0

\* Lines 371-442: pool_init, FIFO and PID filter commands, submit transfers.
StartSubmit ==
  /\ appPc = "idle"
  /\ sessions < MaxSessions
  /\ PoolInit
  /\ armed' = TRUE
  /\ sessions' = sessions + 1
  /\ sessionStart' = rcvd
  /\ appPc' = "start_usb"
  /\ UNCHANGED <<cancel, muxAll, waiting, remain, out, tsVars, cbVars>>

\* Lines 373-376 and 404-405: pool_init finds no memory for threading, or the
\* last command fails.  No transfer is submitted; the caller may call again.
StartFails ==
  /\ "start" \in Faults
  /\ appPc = "idle"
  /\ sessions < MaxSessions
  /\ \/ PoolInit
     \/ /\ ~initialized /\ UNCHANGED initialized
        /\ tsList' = <<>> /\ tsListAll' = <<>> /\ tsListSize' = 0
  /\ sessions' = sessions + 1
  /\ UNCHANGED <<cancel, armed, muxAll, waiting, appPc, remain, sessionStart,
                 out, tsVars, cbVars>>

\* Lines 444-456: cancel is cleared, then process_usb is created.
StartUsbThread ==
  /\ appPc = "start_usb"
  /\ cancel' = FALSE
  /\ \/ usbPc' = "check" /\ appPc' = "start_ts"
     \/ "usb_thread" \in Faults /\ usbPc' = usbPc /\ appPc' = "failed"
  /\ UNCHANGED <<initialized, armed, tsList, tsListAll, tsListSize, muxAll,
                 waiting, remain, sessions, sessionStart, out, tsVars,
                 cb, rcvd, nodes>>

\* Mutant: the failure of the second pthread_create does not set cancel.
StartTsThreadNoCancel ==
  /\ appPc = "start_ts"
  /\ \/ tsPc' = "check" /\ appPc' = "run"
     \/ "ts_thread" \in Faults /\ appPc' = "failed" /\ UNCHANGED tsPc
  /\ UNCHANGED <<poolVars, muxAll, waiting, remain, sessions, sessionStart,
                 out, tsNode, parsed, cbVars>>

\* Lines 458-466: process_ts is created; on failure cancel stops process_usb.
StartTsThread ==
  /\ appPc = "start_ts"
  /\ \/ tsPc' = "check" /\ appPc' = "run" /\ UNCHANGED cancel
     \/ "ts_thread" \in Faults /\ cancel' = TRUE /\ appPc' = "failed"
        /\ UNCHANGED tsPc
  /\ UNCHANGED <<initialized, armed, tsList, tsListAll, tsListSize, muxAll,
                 waiting, remain, sessions, sessionStart, out, tsNode, parsed,
                 cbVars>>

-----------------------------------------------------------------------------
(* record_callback *)

\* The tail of the received stream is put into a new node.  A callback whose
\* transfer has no user_data (not armed) only frees the transfer.
CallbackFill(t) ==
  /\ t \in EventThreads
  /\ t = "usb" => usbPc = "events"
  /\ cb.pc = "none"
  /\ armed
  /\ nodes < MaxNodes
  /\ \E n \in NodeSizes :
       /\ cb' = [by |-> t, pc |-> "append",
                 node |-> [pos |-> rcvd, size |-> n, off |-> 0]]
       /\ rcvd' = rcvd + n
  /\ nodes' = nodes + 1
  /\ usbPc' = IF t = "usb" THEN "callback" ELSE usbPc
  /\ UNCHANGED <<poolVars, muxAll, waiting, appVars, tsVars>>

\* Mutant: list_add instead of list_add_tail.
CallbackPrepend ==
  /\ cb.pc = "append"
  /\ initialized
  /\ tsList' = <<cb.node>> \o tsList
  /\ cb' = [cb EXCEPT !.pc = "signal"]
  /\ UNCHANGED <<initialized, cancel, armed, tsListAll, tsListSize, muxAll,
                 waiting, appVars, tsVars, usbPc, rcvd, nodes>>

\* Lines 324-326, under mux.
CallbackAppend ==
  /\ cb.pc = "append"
  /\ initialized
  /\ tsList' = Append(tsList, cb.node)
  /\ cb' = [cb EXCEPT !.pc = "signal"]
  /\ UNCHANGED <<initialized, cancel, armed, tsListAll, tsListSize, muxAll,
                 waiting, appVars, tsVars, usbPc, rcvd, nodes>>

\* Mutant: the callback does not signal cond.
CallbackNoSignal ==
  /\ cb.pc = "signal"
  /\ initialized
  /\ cb' = IdleCallback
  /\ usbPc' = IF cb.by = "usb" THEN "check" ELSE usbPc
  /\ UNCHANGED <<poolVars, muxAll, waiting, appVars, tsVars, rcvd, nodes>>

\* Line 327, after the unlock; the resubmission loop leaves the pool alone.
CallbackSignal ==
  /\ cb.pc = "signal"
  /\ initialized
  /\ waiting' = waiting \ {"ts"}
  /\ cb' = IdleCallback
  /\ usbPc' = IF cb.by = "usb" THEN "check" ELSE usbPc
  /\ UNCHANGED <<poolVars, muxAll, appVars, tsVars, rcvd, nodes>>

\* The same statements on a pool whose threading was freed: undefined, the
\* callback is never heard of again.
CallbackWild ==
  /\ cb.pc \in {"append", "signal"}
  /\ ~initialized
  /\ cb' = [cb EXCEPT !.pc = IF @ = "append" THEN "wild_append"
                                              ELSE "wild_signal"]
  /\ UNCHANGED <<poolVars, muxAll, waiting, appVars, tsVars, usbPc, rcvd,
                 nodes>>
-----------------------------------------------------------------------------
(* process_usb *)

\* Mutant: process_usb does not look at cancel.
UsbCheckForever ==
  /\ usbPc = "check"
  /\ usbPc' = "events"
  /\ UNCHANGED <<poolVars, muxAll, waiting, appVars, tsVars, cb, rcvd, nodes>>

UsbCheck ==
  /\ usbPc = "check"
  /\ usbPc' = IF cancel THEN "exited" ELSE "events"
  /\ UNCHANGED <<poolVars, muxAll, waiting, appVars, tsVars, cb, rcvd, nodes>>

\* The event handling times out after 1 ms without a callback.
UsbTimeout ==
  /\ usbPc = "events"
  /\ usbPc' = "check"
  /\ UNCHANGED <<poolVars, muxAll, waiting, appVars, tsVars, cb, rcvd, nodes>>

-----------------------------------------------------------------------------
(* process_ts *)

TsCheck ==
  /\ tsPc = "check"
  /\ tsPc' = IF cancel THEN "exited" ELSE "take"
  /\ UNCHANGED <<poolVars, muxAll, waiting, appVars, tsNode, parsed, cbVars>>

\* Mutant: the last node is taken instead of the first.
TakeLast ==
  /\ tsNode' = tsList[Len(tsList)]
  /\ tsList' = SubSeq(tsList, 1, Len(tsList) - 1)
  /\ tsPc' = "hooks"

\* Mutant: the node goes to ts_list_all without a call of the hooks.
TakeWithoutHooks ==
  /\ tsNode' = Head(tsList)
  /\ tsList' = Tail(tsList)
  /\ tsPc' = "append"

\* Take the first node off ts_list.
TakeFirst ==
  /\ tsNode' = Head(tsList)
  /\ tsList' = Tail(tsList)
  /\ tsPc' = "hooks"

\* Lines 121-130: lock, wait on cond if the list is empty, else take a node.
TsTake ==
  /\ tsPc = "take"
  /\ \/ /\ tsList # <<>>
        /\ TakeFirst
        /\ UNCHANGED waiting
     \/ /\ tsList = <<>>
        /\ waiting' = waiting \cup {"ts"}
        /\ tsPc' = "woken"
        /\ UNCHANGED <<tsList, tsNode>>
  /\ UNCHANGED <<initialized, cancel, armed, tsListAll, tsListSize, muxAll,
                 appVars, parsed, cbVars>>

\* Mutant: the node taken after the wait is forgotten.
TsWokenForgets ==
  /\ tsPc = "woken"
  /\ "ts" \notin waiting
  /\ tsPc' = "check"
  /\ tsList' = IF tsList = <<>> THEN tsList ELSE Tail(tsList)
  /\ UNCHANGED <<initialized, cancel, armed, tsListAll, tsListSize, muxAll,
                 waiting, appVars, tsNode, parsed, cbVars>>

\* pthread_cond_wait has returned, once: take a node if there is one.
TsWoken ==
  /\ tsPc = "woken"
  /\ "ts" \notin waiting
  /\ \/ tsList # <<>> /\ TakeFirst
     \/ tsList = <<>> /\ tsPc' = "check" /\ UNCHANGED <<tsList, tsNode>>
  /\ UNCHANGED <<initialized, cancel, armed, tsListAll, tsListSize, muxAll,
                 waiting, appVars, parsed, cbVars>>

\* Lines 136-145: the PSI hooks see every packet of the node.
TsHooks ==
  /\ tsPc = "hooks"
  /\ parsed' = EndOf(tsNode)
  /\ tsPc' = "append"
  /\ UNCHANGED <<poolVars, muxAll, waiting, appVars, tsNode, cbVars>>

\* Lines 148-150.
TsAppend ==
  /\ tsPc = "append"
  /\ muxAll = "free"
  /\ muxAll' = "ts"
  /\ tsListAll' = Append(tsListAll, tsNode)
  /\ tsListSize' = tsListSize + tsNode.size
  /\ tsNode' = NoNode
  /\ tsPc' = "drop"
  /\ UNCHANGED <<initialized, cancel, armed, tsList, waiting, appVars, parsed,
                 cbVars>>

\* Mutant: the limit is compared with the size before the new node.
OverLimitBeforeAppend ==
  tsListAll # <<>> /\ tsListSize - tsListAll[Len(tsListAll)].size > SizeMax

OverLimit == tsListSize > SizeMax /\ tsListAll # <<>>

\* Lines 154-159, one iteration: the oldest node is dropped.
TsDrop ==
  /\ tsPc = "drop"
  /\ OverLimit
  /\ tsListSize' = tsListSize - Head(tsListAll).size
  /\ tsListAll' = Tail(tsListAll)
  /\ UNCHANGED <<initialized, cancel, armed, tsList, muxAll, waiting, appVars,
                 tsVars, cbVars>>

TsUnlock ==
  /\ tsPc = "drop"
  /\ ~OverLimit
  /\ muxAll' = "free"
  /\ tsPc' = "signal"
  /\ UNCHANGED <<poolVars, waiting, appVars, tsNode, parsed, cbVars>>

\* Mutant: cond_all is not signalled.
TsNoSignal ==
  /\ tsPc = "signal"
  /\ tsPc' = "check"
  /\ UNCHANGED <<poolVars, muxAll, waiting, appVars, tsNode, parsed, cbVars>>

TsSignal ==
  /\ tsPc = "signal"
  /\ waiting' = waiting \ {"app"}
  /\ tsPc' = "check"
  /\ UNCHANGED <<poolVars, muxAll, appVars, tsNode, parsed, cbVars>>

-----------------------------------------------------------------------------
(* read_ts_data *)

\* The sanity check of line 631 passes in every state the caller is in.
ReadBegin ==
  /\ appPc = "run"
  /\ initialized
  /\ \E n \in ReadSizes : remain' = n /\ n > 0
  /\ appPc' = "lock"
  /\ UNCHANGED <<poolVars, muxAll, waiting, sessions, sessionStart, out,
                 tsVars, cbVars>>

\* Lines 636-638.
ReadLock ==
  /\ appPc = "lock"
  /\ muxAll = "free"
  /\ \/ /\ tsListAll = <<>>
        /\ waiting' = waiting \cup {"app"}
        /\ appPc' = "woken"
        /\ UNCHANGED muxAll
     \/ /\ tsListAll # <<>>
        /\ muxAll' = "app"
        /\ appPc' = "copy"
        /\ UNCHANGED waiting
  /\ UNCHANGED <<poolVars, remain, sessions, sessionStart, out, tsVars, cbVars>>

ReadWoken ==
  /\ appPc = "woken"
  /\ "app" \notin waiting
  /\ muxAll = "free"
  /\ muxAll' = "app"
  /\ appPc' = IF tsListAll = <<>> THEN "unlock" ELSE "copy"
  /\ UNCHANGED <<poolVars, waiting, remain, sessions, sessionStart, out,
                 tsVars, cbVars>>

\* The packets [from, to) are copied to the caller's buffer.
CopyOut(from, to) == out' = IF from < to THEN [from |-> from, to |-> to] ELSE out

\* Mutant: the bytes still unread are subtracted instead of the node's size.
ReadWholeSubtractsLeft ==
  /\ appPc = "copy"
  /\ LET n    == Head(tsListAll)
         left == n.size - n.off
     IN /\ remain > left
        /\ CopyOut(n.pos + n.off, EndOf(n))
        /\ remain' = remain - left
        /\ tsListSize' = tsListSize - left
  /\ tsListAll' = Tail(tsListAll)
  /\ appPc' = IF tsListAll' = <<>> THEN "unlock" ELSE "copy"
  /\ UNCHANGED <<initialized, cancel, armed, tsList, muxAll, waiting,
                 sessions, sessionStart, tsVars, cbVars>>

\* Mutant: whole nodes are copied whatever space remains.
ReadWholeAlways ==
  /\ appPc = "copy"
  /\ LET n    == Head(tsListAll)
         left == n.size - n.off
     IN /\ CopyOut(n.pos + n.off, EndOf(n))
        /\ remain' = remain - left
        /\ tsListSize' = tsListSize - n.size
  /\ tsListAll' = Tail(tsListAll)
  /\ appPc' = IF tsListAll' = <<>> THEN "unlock" ELSE "copy"
  /\ UNCHANGED <<initialized, cancel, armed, tsList, muxAll, waiting,
                 sessions, sessionStart, tsVars, cbVars>>

\* Lines 654-661: the rest of the first node is less than what is asked.
ReadWhole ==
  /\ appPc = "copy"
  /\ LET n    == Head(tsListAll)
         left == n.size - n.off
     IN /\ remain > left
        /\ CopyOut(n.pos + n.off, EndOf(n))
        /\ remain' = remain - left
        /\ tsListSize' = tsListSize - n.size
  /\ tsListAll' = Tail(tsListAll)
  /\ appPc' = IF tsListAll' = <<>> THEN "unlock" ELSE "copy"
  /\ UNCHANGED <<initialized, cancel, armed, tsList, muxAll, waiting,
                 sessions, sessionStart, tsVars, cbVars>>

\* Mutant: read_off is not advanced.
ReadPartAgain ==
  /\ appPc = "copy"
  /\ LET n == Head(tsListAll)
     IN /\ remain <= n.size - n.off
        /\ CopyOut(n.pos + n.off, n.pos + n.off + remain)
  /\ remain' = 0
  /\ appPc' = "unlock"
  /\ UNCHANGED <<poolVars, muxAll, waiting, sessions, sessionStart, tsVars,
                 cbVars>>

\* Lines 662-667: the request ends inside (or at the end of) the first node,
\* which stays on the list.
ReadPart ==
  /\ appPc = "copy"
  /\ LET n == Head(tsListAll)
     IN /\ remain <= n.size - n.off
        /\ CopyOut(n.pos + n.off, n.pos + n.off + remain)
        /\ tsListAll' = [tsListAll EXCEPT ![1].off = @ + remain]
  /\ remain' = 0
  /\ appPc' = "unlock"
  /\ UNCHANGED <<initialized, cancel, armed, tsList, tsListSize, muxAll,
                 waiting, sessions, sessionStart, tsVars, cbVars>>

ReadUnlock ==
  /\ appPc = "unlock"
  /\ muxAll' = "free"
  /\ appPc' = IF remain = 0 THEN "run" ELSE "lock"
  /\ UNCHANGED <<poolVars, waiting, remain, sessions, sessionStart, out,
                 tsVars, cbVars>>

-----------------------------------------------------------------------------
(* stop_ts *)

\* Lines 478-494: every transfer loses its user_data and is cancelled.
StopDisarm ==
  /\ appPc = "run"
  /\ initialized /\ ~cancel
  /\ armed' = FALSE
  /\ appPc' = "cancel"
  /\ UNCHANGED <<initialized, cancel, tsList, tsListAll, tsListSize, muxAll,
                 waiting, remain, sessions, sessionStart, out, tsVars, cbVars>>

\* Line 497, without mux.
StopCancel ==
  /\ appPc = "cancel"
  /\ cancel' = TRUE
  /\ appPc' = "wakeup"
  /\ UNCHANGED <<initialized, armed, tsList, tsListAll, tsListSize, muxAll,
                 waiting, remain, sessions, sessionStart, out, tsVars, cbVars>>

\* Line 498, without mux.
StopWakeup ==
  /\ appPc = "wakeup"
  /\ waiting' = waiting \ {"ts"}
  /\ appPc' = "join_usb"
  /\ UNCHANGED <<poolVars, muxAll, remain, sessions, sessionStart, out,
                 tsVars, cbVars>>

\* Mutant: process_usb is not joined.
StopNoJoinUsb ==
  /\ appPc = "join_usb"
  /\ appPc' = "join_ts"
  /\ UNCHANGED <<poolVars, muxAll, waiting, remain, sessions, sessionStart,
                 out, tsVars, cbVars>>

StopJoinUsb ==
  /\ appPc = "join_usb"
  /\ usbPc = "exited"
  /\ appPc' = "join_ts"
  /\ UNCHANGED <<poolVars, muxAll, waiting, remain, sessions, sessionStart,
                 out, tsVars, cbVars>>

StopJoinTs ==
  /\ appPc = "join_ts"
  /\ tsPc = "exited"
  /\ appPc' = "release"
  /\ UNCHANGED <<poolVars, muxAll, waiting, remain, sessions, sessionStart,
                 out, tsVars, cbVars>>

\* Lines 504-512: a failure returns -EIO with the pool still initialized.
StopRelease ==
  /\ appPc = "release"
  /\ \/ appPc' = "clean"
     \/ "release" \in Faults /\ appPc' = "idle"
  /\ UNCHANGED <<poolVars, muxAll, waiting, remain, sessions, sessionStart,
                 out, tsVars, cbVars>>

\* Lines 515-520, one iteration.
StopClean ==
  /\ appPc = "clean"
  /\ tsListAll # <<>>
  /\ tsListSize' = tsListSize - Head(tsListAll).size
  /\ tsListAll' = Tail(tsListAll)
  /\ UNCHANGED <<initialized, cancel, armed, tsList, muxAll, waiting, appVars,
                 tsVars, cbVars>>

\* pool_uninit; the nodes left on ts_list are leaked.
StopUninit ==
  /\ appPc = "clean"
  /\ tsListAll = <<>>
  /\ initialized' = FALSE
  /\ appPc' = "idle"
  /\ UNCHANGED <<cancel, armed, tsList, tsListAll, tsListSize, muxAll, waiting,
                 remain, sessions, sessionStart, out, tsVars, cbVars>>

-----------------------------------------------------------------------------
\* POSIX lets pthread_cond_wait return without a signal.
SpuriousWakeup(t) ==
  /\ t \in waiting
  /\ waiting' = waiting \ {t}
  /\ UNCHANGED <<poolVars, muxAll, appVars, tsVars, cbVars>>

CallbackStep == CallbackAppend \/ CallbackSignal \/ CallbackWild
UsbThread == UsbCheck \/ UsbTimeout
TsThread == \/ TsCheck \/ TsTake \/ TsWoken \/ TsHooks \/ TsAppend \/ TsDrop
            \/ TsUnlock \/ TsSignal
AppStart == StartSubmit \/ StartFails \/ StartUsbThread \/ StartTsThread
AppRead == ReadLock \/ ReadWoken \/ ReadWhole \/ ReadPart \/ ReadUnlock
AppStop == \/ StopCancel \/ StopWakeup \/ StopJoinUsb \/ StopJoinTs
           \/ StopRelease \/ StopClean \/ StopUninit

Next ==
  \/ \E t \in EventThreads : CallbackFill(t)
  \/ CallbackStep
  \/ UsbThread
  \/ TsThread
  \/ AppStart \/ ReadBegin \/ AppRead \/ StopDisarm \/ AppStop
  \/ \E t \in {"ts", "app"} : SpuriousWakeup(t)

Spec == Init /\ [][Next]_vars

\* Every thread of the program is scheduled, and a thread that asks for mux_all
\* again and again gets it (SF: spurious wakeups may make the other user take it
\* for ever); the card sends when it likes, the caller calls when it likes, and
\* no spurious wakeup can be relied on.
Fairness ==
  /\ WF_vars(CallbackStep)
  /\ WF_vars(UsbThread)
  /\ SF_vars(TsThread)
  /\ SF_vars(AppRead)
  /\ WF_vars(AppStop)
  /\ WF_vars(StartUsbThread \/ StartTsThread)

FairSpec == Spec /\ Fairness

-----------------------------------------------------------------------------
(* Where the received data is.  A position of the stream that was received *)
(* and not yet delivered or lost is, oldest first, on ts_list_all, in the  *)
(* hands of process_ts, on ts_list, or in the callback's node.             *)

InCallback == cb.pc \in {"append", "wild_append"}
InHand == tsPc \in {"hooks", "append"}

CallbackStart == IF InCallback THEN cb.node.pos ELSE rcvd
TsListStart   == IF tsList # <<>> THEN tsList[1].pos ELSE CallbackStart
HandStart     == IF InHand THEN tsNode.pos ELSE TsListStart
\* The next packet read_ts_data can return.
ReadPosition  == IF tsListAll # <<>> THEN tsListAll[1].pos + tsListAll[1].off
                                     ELSE HandStart

\* The nodes of s are adjacent intervals and the last one ends at p.
ChainTo(s, p) ==
  \A i \in 1 .. Len(s) :
    EndOf(s[i]) = IF i = Len(s) THEN p ELSE s[i + 1].pos

\* No node of s reaches beyond p.
Within(s, p) == \A i \in 1 .. Len(s) : EndOf(s[i]) <= p

Untouched(s, first) == \A i \in first .. Len(s) : s[i].off = 0

\* The code keeps TypeOK: every variable has a value of its C type, and every
\* program counter is one of its thread's labels.
TypeOK ==
  /\ initialized \in BOOLEAN /\ cancel \in BOOLEAN /\ armed \in BOOLEAN
  /\ tsList \in Seq(Node) /\ tsListAll \in Seq(Node) /\ tsListSize \in Int
  /\ muxAll \in {"free", "ts", "app"}
  /\ waiting \subseteq {"ts", "app"}
  /\ cb \in [by : {"usb", "io"},
             pc : {"none", "append", "signal", "wild_append", "wild_signal"},
             node : Node]
  /\ usbPc \in {"none", "check", "events", "callback", "exited"}
  /\ tsPc \in {"none", "check", "take", "woken", "hooks", "append", "drop",
               "signal", "exited"}
  /\ tsNode \in Node
  /\ appPc \in {"idle", "start_usb", "start_ts", "failed", "run", "lock",
                "woken", "copy", "unlock", "cancel", "wakeup", "join_usb",
                "join_ts", "release", "clean"}
  /\ remain \in Nat /\ sessions \in Nat /\ sessionStart \in Nat
  /\ rcvd \in Nat /\ nodes \in Nat /\ parsed \in Nat
  /\ out \in [from : Nat, to : Nat]

\* mux_all is held exactly in the critical sections of its two users, so the
\* list and its byte count are never updated by two threads at once, and the
\* node the reader copies from stays on the list.  process_ts does not run
\* while the application starts the pipeline or cleans it.
ThreadInv ==
  /\ muxAll = "ts" <=> tsPc = "drop"
  /\ muxAll = "app" <=> appPc \in {"copy", "unlock"}
  /\ appPc = "copy" => tsListAll # <<>>
  /\ appPc \in {"idle", "start_usb", "start_ts", "release", "clean"} =>
       tsPc \in {"none", "exited"}

\* Nothing received is reordered, duplicated or lost between the queues: the
\* nodes of ts_list_all, of process_ts, of ts_list and of the callback are
\* adjacent intervals of the stream, in this order, up to the last packet
\* received, and only the oldest node can be partly read.
ChainInv ==
  /\ ChainTo(tsListAll, HandStart)
  /\ InHand => EndOf(tsNode) = TsListStart
  /\ ChainTo(tsList, CallbackStart)
  /\ Within(tsListAll, HandStart) /\ Within(tsList, CallbackStart)
  /\ InCallback => EndOf(cb.node) = rcvd
  /\ Untouched(tsListAll, 2) /\ Untouched(tsList, 1)
  /\ InHand => tsNode.off = 0
  /\ InCallback => cb.node.off = 0
  /\ tsListAll # <<>> => tsListAll[1].off <= tsListAll[1].size

\* ts_list_size is the number of bytes on ts_list_all: the nodes being
\* adjacent, that is the distance between the two ends of the list.
SizeInv ==
  tsListSize = IF tsListAll = <<>> THEN 0 ELSE HandStart - tsListAll[1].pos

\* The sizes of the nodes of a list together.
TotalSize(s) ==
  LET total[i \in 0 .. Len(s)] == IF i = 0 THEN 0 ELSE total[i - 1] + s[i].size
  IN  total[Len(s)]

\* ts_list_size is the sum of the sizes of the nodes on ts_list_all, whatever
\* process_ts, read_ts_data and stop_ts added to it and took from it.
SizeIsSum == tsListSize = TotalSize(tsListAll)

\* Whenever process_ts has released mux_all the memory limit is respected
\* ("keep list in desired memory limit", src/src/u_drv_data.c:152).
MemoryBound == muxAll # "ts" => tsListSize <= SizeMax

\* The reader is never ahead of the data: what was handed out ends at or before
\* the next packet it can be given.
DeliveredInv == out.from <= out.to /\ out.to <= ReadPosition

\* What read_ts_data hands out was seen by the PSI hooks before (the programs,
\* the generated PAT and the PID filters are derived from the same stream).
ParsedBeforeRead == out.to <= parsed

\* The hooks are ahead of the nodes process_ts passed on, behind the others.
ParsedInv ==
  /\ Within(tsListAll, parsed)
  /\ tsPc = "hooks" => parsed <= tsNode.pos
  /\ tsPc = "append" => parsed = EndOf(tsNode)
  /\ parsed <= TsListStart

\* A thread of the pipeline or a callback at work implies that the pool and its
\* threading exist: stop_ts frees them after everybody has left ("lock until
\* threads ended", u_drv_data.c:500).
NoUseAfterFree ==
  ~initialized => /\ usbPc \in {"none", "exited"}
                  /\ tsPc \in {"none", "exited"}
                  /\ cb.pc = "none"

\* The inductive invariant: what the data structures promise each other.
IInv ==
  /\ TypeOK
  /\ ThreadInv
  /\ ChainInv
  /\ SizeInv
  /\ MemoryBound
  /\ DeliveredInv
  /\ ParsedBeforeRead
  /\ ParsedInv

\* Successive reads return the stream in order and never the same data twice,
\* over restarts of the pipeline too.
InOrder == [][out' # out => out'.from >= out.to]_vars

\* A byte is skipped within a session only by the memory limit: when a read
\* does not continue where the one before it ended, the whole limit was in use.
NoSpuriousLoss ==
  [][ReadPosition' > ReadPosition /\ out' = out /\ appPc # "clean" /\ initialized
      => OverLimit]_vars

\* Data received before start_ts was called is not read after it.
FreshSession == [][out' # out => out'.from >= sessionStart]_vars

\* The pipeline is an ordered lossy stream (module TsStream).
Stream == INSTANCE TsStream WITH head <- ReadPosition
ImplementsStream == Stream!StreamSpec

\* process_ts empties ts_list unless it is told to stop: the signal sent after
\* mux is released is never missed.
EventuallyParsed == (tsList # <<>>) ~> (tsList = <<>> \/ cancel)

\* A reader asleep in read_ts_data does not sleep through the arrival of data.
ReaderWakes == (appPc = "woken" /\ tsListAll # <<>>) ~> (appPc # "woken")

\* stop_ts has one place to hang: process_ts asleep on cond.
StopOnlyWaitsForTs ==
  (appPc = "cancel") ~> (appPc = "idle" \/ (appPc = "join_ts" /\ "ts" \in waiting))

\* When process_ts can't be created, start_ts stops process_usb ("will stop usb
\* processing", u_drv_data.c:462).
FailedStartStopsUsb == (appPc = "failed") ~> (usbPc \in {"none", "exited"})

\* stop_ts returns: it has woken process_ts ("wakeup TS procesing thread",
\* u_drv_data.c:498) and waits for the two threads to end.
StopReturns == (appPc = "cancel") ~> (appPc = "idle")

\* read_ts_data returns: it hands out less, or nothing, when no data is
\* available (u_drv_data.h:137).
ReadReturns == (appPc = "lock") ~> (appPc = "run")
=============================================================================
