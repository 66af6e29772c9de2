-------------------------- MODULE TsPipelineProofs --------------------------
(***************************************************************************)
(* Theorems about TsPipeline, for every value of its constants: the types  *)
(* and the mutual exclusion, the life of the threads, and, from the        *)
(* inductive invariant IInv, the byte count of ts_list_all, the memory     *)
(* limit, the order of the data and the refinement of TsStream.            *)
(***************************************************************************)
EXTENDS TsPipeline, WellFoundedInduction, TLAPS

(***************************************************************************)
(* Type correctness.  That a node read under mux_all exists is needed for  *)
(* the types, so the mutual exclusion is proved along with them.           *)
(***************************************************************************)

LEMMA InitTyped == Init => TypeOK /\ ThreadInv
  <1> SUFFICES ASSUME Init
               PROVE  TypeOK /\ ThreadInv
    OBVIOUS
  <1>1. NoNode \in Node
    BY DEF NoNode, Node
  <1>2. tsList \in Seq(Node) /\ tsListAll \in Seq(Node)
    BY DEF Init
  <1>3. cb \in [by : {"usb", "io"},
               pc : {"none", "append", "signal", "wild_append", "wild_signal"},
               node : Node]
    BY <1>1 DEF Init, IdleCallback
  <1>4. out \in [from : Nat, to : Nat]
    BY DEF Init
  <1>5. TypeOK
    <2>1. initialized \in BOOLEAN /\ cancel \in BOOLEAN /\ armed \in BOOLEAN
      BY DEF Init
    <2>2. /\ tsListSize \in Int
          /\ remain \in Nat /\ sessions \in Nat /\ sessionStart \in Nat
          /\ rcvd \in Nat /\ nodes \in Nat /\ parsed \in Nat
      BY DEF Init
    <2>3. muxAll = "free" /\ waiting = {} /\ usbPc = "none" /\ tsPc = "none"
          /\ tsNode = NoNode /\ appPc = "idle"
      BY DEF Init
    <2> QED
      BY <1>1, <1>2, <1>3, <1>4, <2>1, <2>2, <2>3 DEF TypeOK
  <1>6. ThreadInv
    BY DEF Init, ThreadInv
  <1> QED
    BY <1>5, <1>6

\* The head of a nonempty sequence is an element, the tail a sequence.
LEMMA HeadTail ==
  ASSUME NEW S, NEW s \in Seq(S), s # <<>>
  PROVE  /\ Head(s) \in S /\ Head(s) = s[1] /\ Tail(s) \in Seq(S)
         /\ Len(s) \in Nat /\ Len(s) >= 1
         /\ Len(Tail(s)) = Len(s) - 1
         /\ \A i \in 1 .. Len(s) - 1 : Tail(s)[i] = s[i + 1]
  OBVIOUS

\* Reading a part of the first node keeps the list a list of nodes.
LEMMA ReadOffTyped ==
  ASSUME NEW s \in Seq(Node), s # <<>>, NEW k \in Nat
  PROVE  [s EXCEPT ![1].off = @ + k] \in Seq(Node)
  <1>1. s[1] \in Node /\ Len(s) \in Nat /\ 1 \in 1 .. Len(s)
    OBVIOUS
  <1>2. [s[1] EXCEPT !.off = @ + k] \in Node
    BY <1>1 DEF Node
  <1> DEFINE t == [s EXCEPT ![1].off = @ + k]
  <1>3. t = [s EXCEPT ![1] = [s[1] EXCEPT !.off = @ + k]]
    OBVIOUS
  <1> HIDE DEF t
  <1>4. t \in Seq(Node)
    BY <1>1, <1>2, <1>3
  <1> QED
    BY <1>4 DEF t

LEMMA StartTyped ==
  TypeOK /\ ThreadInv /\ AppStart => TypeOK' /\ ThreadInv'
  <1> SUFFICES ASSUME TypeOK, ThreadInv, AppStart
               PROVE  TypeOK' /\ ThreadInv'
    OBVIOUS
  <1> USE DEF poolVars, appVars, tsVars, cbVars
  <1>1. CASE StartSubmit
    <2>1. CASE initialized
      <3>1. UNCHANGED <<initialized, tsList, tsListAll, tsListSize>>
        BY <1>1, <2>1 DEF StartSubmit, PoolInit, TypeOK, ThreadInv
      <3> QED
        BY <1>1, <3>1 DEF StartSubmit, TypeOK, ThreadInv
    <2>2. CASE ~initialized
      <3>1. /\ initialized' = TRUE /\ tsListSize' = 0
            /\ tsList' \in Seq(Node) /\ tsListAll' \in Seq(Node)
        BY <1>1, <2>2 DEF StartSubmit, PoolInit, TypeOK, ThreadInv
      <3>2. TypeOK'
        BY <1>1, <3>1 DEF StartSubmit, TypeOK, ThreadInv
      <3>3. appPc' = "start_usb" /\ appPc = "idle" /\ UNCHANGED <<muxAll, tsPc>>
        BY <1>1 DEF StartSubmit, TypeOK, ThreadInv
      <3> QED
        BY <3>2, <3>3 DEF TypeOK, ThreadInv
    <2> QED
      BY <2>1, <2>2
  <1>4. CASE StartFails
    <2>1. /\ initialized' \in BOOLEAN /\ tsListSize' \in Int
          /\ tsList' \in Seq(Node) /\ tsListAll' \in Seq(Node)
          /\ appPc = "idle" /\ sessions' = sessions + 1
          /\ UNCHANGED <<cancel, armed, muxAll, waiting, appPc, remain, sessionStart,
                         out, tsPc, tsNode, parsed, cb, usbPc, rcvd, nodes>>
      <3>1. /\ appPc = "idle" /\ sessions' = sessions + 1
            /\ UNCHANGED <<cancel, armed, muxAll, waiting, appPc, remain, sessionStart,
                           out, tsPc, tsNode, parsed, cb, usbPc, rcvd, nodes>>
        BY <1>4 DEF StartFails
      <3> DEFINE Goal == initialized' \in BOOLEAN /\ tsListSize' \in Int
                         /\ tsList' \in Seq(Node) /\ tsListAll' \in Seq(Node)
      <3>2. ASSUME PoolInit, initialized PROVE Goal
        BY <3>2 DEF PoolInit, TypeOK
      <3>3. ASSUME PoolInit, ~initialized PROVE Goal
        <4>1. initialized' = TRUE /\ tsList' = <<>> /\ tsListAll' = <<>>
              /\ tsListSize' = 0
          BY <3>3 DEF PoolInit
        <4> QED BY <4>1
      <3>4. ASSUME ~initialized, UNCHANGED initialized,
                   tsList' = <<>>, tsListAll' = <<>>, tsListSize' = 0
            PROVE  Goal
        <4>1. initialized \in BOOLEAN
          BY DEF TypeOK
        <4> QED BY ONLY <3>4, <4>1
      <3>5. Goal
        BY <1>4, <3>2, <3>3, <3>4 DEF StartFails
      <3> QED BY ONLY <3>1, <3>5
    <2>2. TypeOK'
      BY <2>1 DEF TypeOK
    <2> QED
      BY <2>1, <2>2 DEF ThreadInv
  <1>2. CASE StartUsbThread
    <2>1. appPc = "start_usb" /\ appPc' \in {"start_ts", "failed"} /\ cancel' = FALSE
          /\ usbPc' \in {usbPc, "check"}
      BY <1>2 DEF StartUsbThread
    <2>2. UNCHANGED <<initialized, armed, tsList, tsListAll, tsListSize, muxAll, waiting,
                      remain, sessions, sessionStart, out, tsPc, tsNode, parsed, cb,
                      rcvd, nodes>>
      BY <1>2 DEF StartUsbThread, tsVars
    <2>3. appPc' \in {"start_ts", "failed"} /\ usbPc' \in {"none", "check", "events",
                                                          "callback", "exited"}
      BY <2>1 DEF TypeOK
    <2>4. TypeOK'
      <3>1. out' \in [from : Nat, to : Nat]
        BY <2>2 DEF TypeOK
      <3>2. cb' \in [by : {"usb", "io"}, node : Node,
                     pc : {"none", "append", "signal", "wild_append", "wild_signal"}]
        BY <2>2 DEF TypeOK
      <3> QED BY <2>1, <2>2, <2>3, <3>1, <3>2 DEF TypeOK
    <2> QED
      BY <2>1, <2>2, <2>4 DEF TypeOK, ThreadInv
  <1>3. CASE StartTsThread
    <2>1. CASE tsPc' = "check" /\ appPc' = "run" /\ UNCHANGED cancel
      <3>1. /\ appPc = "start_ts"
            /\ UNCHANGED <<initialized, armed, tsList, tsListAll, tsListSize,
                           muxAll, waiting, remain, sessions, sessionStart,
                           out, tsNode, parsed, cbVars>>
        BY <1>3 DEF StartTsThread
      <3>2. TypeOK'
        BY <2>1, <3>1 DEF TypeOK
      <3>3. tsPc # "drop"
        BY <3>1 DEF ThreadInv
      <3> QED
        BY <2>1, <3>1, <3>2, <3>3 DEF ThreadInv
    <2>2. CASE cancel' = TRUE /\ appPc' = "failed" /\ UNCHANGED tsPc
      BY <1>3, <2>2 DEF StartTsThread, TypeOK, ThreadInv
    <2> QED
      BY <1>3, <2>1, <2>2 DEF StartTsThread, TypeOK, ThreadInv
  <1> QED
    BY <1>1, <1>2, <1>3, <1>4 DEF AppStart

LEMMA CallbackTyped ==
  TypeOK /\ ThreadInv /\ (CallbackStep \/ UsbThread
                         \/ \E t \in EventThreads : CallbackFill(t))
    => TypeOK' /\ ThreadInv'
  <1> SUFFICES ASSUME TypeOK, ThreadInv,
                      CallbackStep \/ UsbThread
                        \/ \E t \in EventThreads : CallbackFill(t)
               PROVE  TypeOK' /\ ThreadInv'
    OBVIOUS
  <1> USE DEF poolVars, appVars, tsVars, cbVars
  <1>1. CASE CallbackAppend
    <2>1. cb.node \in Node /\ cb' \in [by : {"usb", "io"},
               pc : {"none", "append", "signal", "wild_append", "wild_signal"},
               node : Node]
      BY <1>1 DEF CallbackAppend, TypeOK, ThreadInv
    <2>2. tsList' \in Seq(Node)
      BY <1>1, <2>1 DEF CallbackAppend, TypeOK, ThreadInv
    <2> QED
      BY <1>1, <2>1, <2>2 DEF CallbackAppend, TypeOK, ThreadInv
  <1>2. CASE CallbackSignal
    BY <1>2 DEF CallbackSignal, IdleCallback, NoNode, Node, TypeOK, ThreadInv
  <1>3. CASE CallbackWild
    BY <1>3 DEF CallbackWild, TypeOK, ThreadInv
  <1>4. CASE UsbThread
    <2>1. usbPc' \in {"check", "events", "exited"}
      BY <1>4 DEF UsbThread, UsbCheck, UsbTimeout, TypeOK, ThreadInv
    <2>2. UNCHANGED <<poolVars, muxAll, waiting, appVars, tsVars, cb, rcvd,
                      nodes>>
      BY <1>4 DEF UsbThread, UsbCheck, UsbTimeout, TypeOK, ThreadInv
    <2> QED
      BY <2>1, <2>2 DEF TypeOK, ThreadInv
  <1>5. ASSUME NEW t \in EventThreads, CallbackFill(t)
        PROVE  TypeOK' /\ ThreadInv'
    <2>1. PICK n \in NodeSizes :
            /\ cb' = [by |-> t, pc |-> "append",
                      node |-> [pos |-> rcvd, size |-> n, off |-> 0]]
            /\ rcvd' = rcvd + n
      BY <1>5 DEF CallbackFill, TypeOK, ThreadInv
    <2>2. n \in Nat /\ t \in {"usb", "io"}
      BY ConstantsAssumption DEF TypeOK, ThreadInv
    <2>3. cb' \in [by : {"usb", "io"},
                   pc : {"none", "append", "signal", "wild_append",
                         "wild_signal"},
                   node : Node] /\ rcvd' \in Nat
      BY <2>1, <2>2 DEF Node, TypeOK, ThreadInv
    <2>4. /\ UNCHANGED <<poolVars, muxAll, waiting, appVars, tsVars>>
          /\ nodes' = nodes + 1
          /\ usbPc' = IF t = "usb" THEN "callback" ELSE usbPc
      BY <1>5 DEF CallbackFill, TypeOK, ThreadInv
    <2> QED
      BY <2>3, <2>4 DEF TypeOK, ThreadInv
  <1> QED
    BY <1>1, <1>2, <1>3, <1>4, <1>5 DEF CallbackStep

LEMMA TsThreadTyped ==
  TypeOK /\ ThreadInv /\ TsThread => TypeOK' /\ ThreadInv'
  <1> SUFFICES ASSUME TypeOK, ThreadInv, TsThread
               PROVE  TypeOK' /\ ThreadInv'
    OBVIOUS
  <1> USE DEF poolVars, appVars, tsVars, cbVars
  <1>1. CASE TsCheck
    BY <1>1 DEF TsCheck, TypeOK, ThreadInv
  <1>2. CASE TsTake
    <2>1. CASE tsList # <<>> /\ TakeFirst /\ UNCHANGED waiting
      BY <1>2, <2>1, HeadTail DEF TsTake, TakeFirst, TypeOK, ThreadInv
    <2>2. CASE /\ waiting' = waiting \cup {"ts"} /\ tsPc' = "woken"
               /\ UNCHANGED <<tsList, tsNode>>
      BY <1>2, <2>2 DEF TsTake, TypeOK, ThreadInv
    <2> QED
      BY <1>2, <2>1, <2>2 DEF TsTake, TypeOK, ThreadInv
  <1>3. CASE TsWoken
    <2>1. CASE tsList # <<>> /\ TakeFirst
      BY <1>3, <2>1, HeadTail DEF TsWoken, TakeFirst, TypeOK, ThreadInv
    <2>2. CASE tsPc' = "check" /\ UNCHANGED <<tsList, tsNode>>
      BY <1>3, <2>2 DEF TsWoken, TypeOK, ThreadInv
    <2> QED
      BY <1>3, <2>1, <2>2 DEF TsWoken, TypeOK, ThreadInv
  <1>4. CASE TsHooks
    <2>1. parsed' \in Nat
      BY <1>4 DEF TsHooks, EndOf, Node, TypeOK
    <2> QED
      BY <1>4, <2>1 DEF TsHooks, TypeOK, ThreadInv
  <1>5. CASE TsAppend
    BY <1>5 DEF TsAppend, NoNode, Node, TypeOK, ThreadInv
  <1>6. CASE TsDrop
    <2>1. tsListAll' \in Seq(Node) /\ tsListSize' \in Int
      <3>1. Head(tsListAll) \in Node /\ Tail(tsListAll) \in Seq(Node)
        BY <1>6, HeadTail DEF TsDrop, OverLimit, TypeOK
      <3>2. Head(tsListAll).size \in Int
        BY <3>1 DEF Node
      <3>3. tsListSize \in Int
        BY DEF TypeOK
      <3> QED
        BY <1>6, <3>1, <3>2, <3>3 DEF TsDrop
    <2>2. muxAll = "ts"
      BY <1>6 DEF TsDrop, ThreadInv
    <2> QED
      BY <1>6, <2>1, <2>2 DEF TsDrop, TypeOK, ThreadInv
  <1>7. CASE TsUnlock
    BY <1>7 DEF TsUnlock, TypeOK, ThreadInv
  <1>8. CASE TsSignal
    BY <1>8 DEF TsSignal, TypeOK, ThreadInv
  <1> QED
    BY <1>1, <1>2, <1>3, <1>4, <1>5, <1>6, <1>7, <1>8 DEF TsThread

LEMMA ReadTyped ==
  TypeOK /\ ThreadInv /\ (ReadBegin \/ AppRead) => TypeOK' /\ ThreadInv'
  <1> SUFFICES ASSUME TypeOK, ThreadInv, ReadBegin \/ AppRead
               PROVE  TypeOK' /\ ThreadInv'
    OBVIOUS
  <1> USE DEF poolVars, appVars, tsVars, cbVars
  <1>1. CASE ReadBegin
    BY <1>1, ConstantsAssumption DEF ReadBegin, TypeOK, ThreadInv
  <1>2. CASE ReadLock
    <2>1. CASE /\ waiting' = waiting \cup {"app"} /\ appPc' = "woken"
               /\ UNCHANGED muxAll
      BY <1>2, <2>1 DEF ReadLock, TypeOK, ThreadInv
    <2>2. CASE /\ tsListAll # <<>> /\ muxAll' = "app" /\ appPc' = "copy"
               /\ UNCHANGED waiting
      BY <1>2, <2>2 DEF ReadLock, TypeOK, ThreadInv
    <2> QED
      BY <1>2, <2>1, <2>2 DEF ReadLock, TypeOK, ThreadInv
  <1>3. CASE ReadWoken
    BY <1>3 DEF ReadWoken, TypeOK, ThreadInv
  <1>4. CASE ReadWhole
    <2> DEFINE n == Head(tsListAll)
    <2>1. n \in Node /\ Tail(tsListAll) \in Seq(Node)
      BY <1>4, HeadTail DEF ReadWhole, TypeOK, ThreadInv
    <2>2. /\ n.pos \in Nat /\ n.size \in Nat /\ n.off \in Nat
      BY <2>1 DEF Node, TypeOK, ThreadInv
    <2>3. /\ remain > n.size - n.off
          /\ CopyOut(n.pos + n.off, EndOf(n))
          /\ remain' = remain - (n.size - n.off)
          /\ tsListSize' = tsListSize - n.size
          /\ tsListAll' = Tail(tsListAll)
          /\ appPc' = IF tsListAll' = <<>> THEN "unlock" ELSE "copy"
          /\ appPc = "copy"
          /\ UNCHANGED <<initialized, cancel, armed, tsList, muxAll, waiting,
                         sessions, sessionStart, tsVars, cbVars>>
      BY <1>4 DEF ReadWhole, TypeOK, ThreadInv
    <2>0. /\ remain \in Nat /\ tsListSize \in Int
          /\ out \in [from : Nat, to : Nat]
      BY DEF TypeOK
    <2> HIDE DEF n
    <2>4. out' \in [from : Nat, to : Nat] /\ remain' \in Nat
          /\ tsListSize' \in Int
      <3>1. remain' \in Nat /\ tsListSize' \in Int
        BY <2>0, <2>2, <2>3
      <3> DEFINE a == n.pos + n.off
                 b == EndOf(n)
      <3>2. /\ a \in Nat /\ b \in Nat
            /\ out' = IF a < b THEN [from |-> a, to |-> b] ELSE out
        BY <2>2, <2>3 DEF EndOf, CopyOut
      <3> HIDE DEF a, b
      <3>3. out' \in [from : Nat, to : Nat]
        BY <2>0, <3>2
      <3> QED
        BY <3>1, <3>3
    <2> QED
      BY <2>1, <2>3, <2>4 DEF TypeOK, ThreadInv
  <1>5. CASE ReadPart
    <2> DEFINE n == Head(tsListAll)
    <2>1. n \in Node /\ tsListAll # <<>>
      BY <1>5, HeadTail DEF ReadPart, TypeOK, ThreadInv
    <2>2. tsListAll' \in Seq(Node) /\ tsListAll' # <<>>
      BY <1>5, <2>1, ReadOffTyped DEF ReadPart, TypeOK, ThreadInv
    <2>4. /\ remain \in Nat /\ out \in [from : Nat, to : Nat]
          /\ CopyOut(n.pos + n.off, n.pos + n.off + remain)
      BY <1>5 DEF ReadPart, TypeOK
    <2> HIDE DEF n
    <2>3. out' \in [from : Nat, to : Nat]
      <3> DEFINE a == n.pos + n.off
                 b == n.pos + n.off + remain
      <3>1. a \in Nat /\ b \in Nat
        BY <2>1, <2>4 DEF Node
      <3>2. out' = IF a < b THEN [from |-> a, to |-> b] ELSE out
        BY <2>4 DEF CopyOut
      <3> HIDE DEF a, b
      <3> QED
        BY <2>4, <3>1, <3>2
    <2> QED
      BY <1>5, <2>2, <2>3 DEF ReadPart, TypeOK, ThreadInv
  <1>6. CASE ReadUnlock
    BY <1>6 DEF ReadUnlock, TypeOK, ThreadInv
  <1> QED
    BY <1>1, <1>2, <1>3, <1>4, <1>5, <1>6 DEF AppRead

LEMMA StopTyped ==
  TypeOK /\ ThreadInv /\ (StopDisarm \/ AppStop) => TypeOK' /\ ThreadInv'
  <1> SUFFICES ASSUME TypeOK, ThreadInv, StopDisarm \/ AppStop
               PROVE  TypeOK' /\ ThreadInv'
    OBVIOUS
  <1> USE DEF poolVars, appVars, tsVars, cbVars
  <1>1. CASE StopDisarm
    BY <1>1 DEF StopDisarm, TypeOK, ThreadInv
  <1>2. CASE StopCancel
    BY <1>2 DEF StopCancel, TypeOK, ThreadInv
  <1>3. CASE StopWakeup
    BY <1>3 DEF StopWakeup, TypeOK, ThreadInv
  <1>4. CASE StopJoinUsb
    BY <1>4 DEF StopJoinUsb, TypeOK, ThreadInv
  <1>5. CASE StopJoinTs
    BY <1>5 DEF StopJoinTs, TypeOK, ThreadInv
  <1>6. CASE StopRelease
    BY <1>6 DEF StopRelease, TypeOK, ThreadInv
  <1>7. CASE StopClean
    <2>1. tsListAll' \in Seq(Node) /\ tsListSize' \in Int
      <3>1. Head(tsListAll) \in Node /\ Tail(tsListAll) \in Seq(Node)
        BY <1>7, HeadTail DEF StopClean, TypeOK
      <3>2. Head(tsListAll).size \in Int
        BY <3>1 DEF Node
      <3>3. tsListSize \in Int
        BY DEF TypeOK
      <3> QED
        BY <1>7, <3>1, <3>2, <3>3 DEF StopClean
    <2> QED
      BY <1>7, <2>1 DEF StopClean, TypeOK, ThreadInv
  <1>8. CASE StopUninit
    BY <1>8 DEF StopUninit, TypeOK, ThreadInv
  <1> QED
    BY <1>1, <1>2, <1>3, <1>4, <1>5, <1>6, <1>7, <1>8 DEF AppStop

LEMMA NextTyped ==
  TypeOK /\ ThreadInv /\ [Next]_vars => TypeOK' /\ ThreadInv'
  <1> SUFFICES ASSUME TypeOK, ThreadInv, [Next]_vars
               PROVE  TypeOK' /\ ThreadInv'
    OBVIOUS
  <1>1. CASE UNCHANGED vars
    BY <1>1 DEF TypeOK, ThreadInv, vars, poolVars, appVars, tsVars, cbVars
  <1>2. ASSUME NEW t \in {"ts", "app"}, SpuriousWakeup(t)
        PROVE  TypeOK' /\ ThreadInv'
    BY <1>2 DEF SpuriousWakeup, TypeOK, ThreadInv, poolVars, appVars, tsVars,
                cbVars
  <1> QED
    BY <1>1, <1>2, StartTyped, CallbackTyped, TsThreadTyped, ReadTyped,
       StopTyped DEF Next

\* Every variable of the pipeline keeps its type, and mux_all is owned exactly
\* in the critical sections of process_ts and read_ts_data.
THEOREM TypeCorrect == Spec => [](TypeOK /\ ThreadInv)
  <1>1. Init => TypeOK /\ ThreadInv
    BY InitTyped
  <1>2. TypeOK /\ ThreadInv /\ [Next]_vars => TypeOK' /\ ThreadInv'
    BY NextTyped
  <1> QED
    BY <1>1, <1>2, PTL DEF Spec
(***************************************************************************)
(* The life of the pool, when process_usb is the only thread that handles  *)
(* libusb events: the three threads use it only while it exists.           *)
(***************************************************************************)

\* The pool exists outside of the idle application thread, process_usb does not
\* run before it was created nor after it was joined, and a callback is one of
\* process_usb at work.
LifeInv ==
  /\ appPc # "idle" => initialized
  /\ appPc \in {"idle", "start_usb", "join_ts", "release", "clean"} =>
       usbPc \in {"none", "exited"}
  /\ cb.pc # "none" => usbPc = "callback"

LEMMA InitLife == Init => LifeInv
  BY DEF Init, LifeInv, IdleCallback

\* The steps of process_ts and the reads move none of the variables of LifeInv
\* but appPc, and that between labels where the pool exists.
LEMMA NextLife ==
  ASSUME "io" \notin EventThreads, TypeOK, LifeInv, [Next]_vars
  PROVE  LifeInv'
  <1> USE DEF poolVars, appVars, tsVars, cbVars
  <1>0. EventThreads \subseteq {"usb"}
    BY ConstantsAssumption
  <1>1. ASSUME NEW t \in EventThreads, CallbackFill(t)
        PROVE  LifeInv'
    <2>1. /\ usbPc = "events" /\ usbPc' = "callback"
          /\ UNCHANGED <<appPc, initialized>>
      BY <1>0, <1>1 DEF CallbackFill
    <2> QED
      BY <2>1 DEF LifeInv
  <1>2. CASE CallbackAppend
    <2>1. cb.pc = "append" /\ UNCHANGED <<appPc, usbPc, initialized>>
      BY <1>2 DEF CallbackAppend
    <2> QED
      BY <2>1 DEF LifeInv
  <1>3. CASE CallbackSignal
    <2>1. /\ cb.pc = "signal" /\ cb'.pc = "none"
          /\ UNCHANGED <<appPc, initialized>>
      BY <1>3 DEF CallbackSignal, IdleCallback
    <2>2. usbPc = "callback"
      BY <2>1 DEF LifeInv
    <2>3. appPc \notin {"idle", "start_usb", "join_ts", "release", "clean"}
      BY <2>2 DEF LifeInv
    <2> QED
      BY <2>1, <2>3 DEF LifeInv
  <1>4. CASE CallbackWild
    <2>1. cb.pc # "none" /\ UNCHANGED <<appPc, usbPc, initialized>>
      BY <1>4 DEF CallbackWild
    <2> QED
      BY <2>1 DEF LifeInv
  <1>5. CASE UsbThread
    <2>1. /\ usbPc \in {"check", "events"}
          /\ UNCHANGED <<appPc, cb, initialized>>
      BY <1>5 DEF UsbThread, UsbCheck, UsbTimeout
    <2> QED
      BY <2>1 DEF LifeInv
  <1>6. CASE TsThread
    <2>1. UNCHANGED <<appPc, cb, usbPc, initialized>>
      BY <1>6 DEF TsThread, TsCheck, TsTake, TsWoken, TsHooks, TsAppend, TsDrop,
                  TsUnlock, TsSignal
    <2> QED
      BY <2>1 DEF LifeInv
  <1>7. CASE AppStart
    <2>1. CASE StartSubmit
      <3>1. /\ appPc = "idle" /\ appPc' = "start_usb" /\ initialized'
            /\ UNCHANGED <<cb, usbPc>>
        BY <2>1 DEF StartSubmit, PoolInit, TypeOK
      <3> QED
        BY <3>1 DEF LifeInv
    <2>2. CASE StartUsbThread
      <3>1. /\ appPc = "start_usb" /\ UNCHANGED <<cb, initialized>>
            /\ appPc' \in {"start_ts", "failed"}
        BY <2>2 DEF StartUsbThread
      <3>2. usbPc \in {"none", "exited"}
        BY <3>1 DEF LifeInv
      <3> QED
        BY <3>1, <3>2 DEF LifeInv
    <2>3. CASE StartTsThread
      <3>1. /\ appPc = "start_ts" /\ UNCHANGED <<cb, usbPc, initialized>>
            /\ appPc' \in {"run", "failed"}
        BY <2>3 DEF StartTsThread
      <3> QED
        BY <3>1 DEF LifeInv
    <2>4. CASE StartFails
      <3>1. /\ appPc = "idle" /\ appPc' = "idle" /\ (initialized => initialized')
            /\ UNCHANGED <<cb, usbPc>>
        BY <2>4 DEF StartFails, PoolInit, TypeOK
      <3> QED
        BY <3>1 DEF LifeInv
    <2> QED
      BY <1>7, <2>1, <2>2, <2>3, <2>4 DEF AppStart
  <1>8. CASE ReadBegin \/ AppRead \/ StopDisarm
    <2>1. /\ appPc \in {"run", "lock", "woken", "copy", "unlock"}
          /\ appPc' \in {"run", "lock", "woken", "copy", "unlock", "cancel"}
          /\ UNCHANGED <<cb, usbPc, initialized>>
      BY <1>8 DEF ReadBegin, AppRead, ReadLock, ReadWoken, ReadWhole, ReadPart,
                  ReadUnlock, StopDisarm
    <2> QED
      BY <2>1 DEF LifeInv
  <1>9. CASE AppStop
    <2>1. CASE StopCancel \/ StopWakeup
      <3>1. /\ appPc \in {"cancel", "wakeup"} /\ appPc' \in {"wakeup", "join_usb"}
            /\ UNCHANGED <<cb, usbPc, initialized>>
        BY <2>1 DEF StopCancel, StopWakeup
      <3> QED
        BY <3>1 DEF LifeInv
    <2>2. CASE StopJoinUsb
      <3>1. /\ appPc = "join_usb" /\ appPc' = "join_ts" /\ usbPc = "exited"
            /\ UNCHANGED <<cb, usbPc, initialized>>
        BY <2>2 DEF StopJoinUsb
      <3> QED
        BY <3>1 DEF LifeInv
    <2>3. CASE StopJoinTs \/ StopRelease \/ StopClean
      <3>1. /\ appPc \in {"join_ts", "release", "clean"}
            /\ appPc' \in {"release", "clean", "idle"}
            /\ UNCHANGED <<cb, usbPc, initialized>>
        BY <2>3 DEF StopJoinTs, StopRelease, StopClean
      <3> QED
        BY <3>1 DEF LifeInv
    <2>4. CASE StopUninit
      <3>1. appPc = "clean" /\ appPc' = "idle" /\ UNCHANGED <<cb, usbPc>>
        BY <2>4 DEF StopUninit
      <3> QED
        BY <3>1 DEF LifeInv
    <2> QED
      BY <1>9, <2>1, <2>2, <2>3, <2>4 DEF AppStop
  <1>10. CASE UNCHANGED vars \/ \E t \in {"ts", "app"} : SpuriousWakeup(t)
    <2>1. UNCHANGED <<appPc, cb, usbPc, initialized>>
      BY <1>10 DEF vars, SpuriousWakeup
    <2> QED
      BY <2>1 DEF LifeInv
  <1> QED
    BY <1>1, <1>2, <1>3, <1>4, <1>5, <1>6, <1>7, <1>8, <1>9, <1>10
       DEF Next, CallbackStep

\* When all events are handled by process_usb, stop_ts frees the pool and its
\* threading after both threads and the last callback are through with it.
THEOREM PoolOutlivesItsUsers ==
  ASSUME "io" \notin EventThreads
  PROVE  Spec => []NoUseAfterFree
  <1>1. Init => TypeOK /\ ThreadInv /\ LifeInv
    BY InitTyped, InitLife
  <1>2. (TypeOK /\ ThreadInv /\ LifeInv) /\ [Next]_vars
          => (TypeOK /\ ThreadInv /\ LifeInv)'
    BY NextTyped, NextLife
  <1>3. TypeOK /\ ThreadInv /\ LifeInv => NoUseAfterFree
    BY DEF TypeOK, ThreadInv, LifeInv, NoUseAfterFree
  <1> QED
    BY <1>1, <1>2, <1>3, PTL DEF Spec

-----------------------------------------------------------------------------
(* Chains of nodes *)

LEMMA NodeTyped ==
  ASSUME NEW n \in Node
  PROVE  /\ n.pos \in Nat /\ n.size \in Nat /\ n.off \in Nat
         /\ EndOf(n) \in Nat /\ n.pos <= EndOf(n)
  BY DEF Node, EndOf

\* Taking the first node off a chain leaves a chain that begins at its end.
LEMMA ChainTail ==
  ASSUME NEW s \in Seq(Node), s # <<>>, NEW p \in Nat,
         ChainTo(s, p), Within(s, p), Untouched(s, 2)
  PROVE  /\ Tail(s) \in Seq(Node)
         /\ ChainTo(Tail(s), p) /\ Within(Tail(s), p) /\ Untouched(Tail(s), 1)
         /\ Tail(s) = <<>> => EndOf(s[1]) = p
         /\ Tail(s) # <<>> => Tail(s)[1].pos = EndOf(s[1])
                              /\ Tail(s)[1] = s[2] /\ s[2] \in Node
                              /\ s[2].off = 0
         /\ s[1] \in Node /\ Head(s) = s[1] /\ EndOf(s[1]) <= p
  <1> DEFINE t == Tail(s)
  <1>1. /\ t \in Seq(Node) /\ Head(s) = s[1]
        /\ Len(s) \in Nat /\ Len(s) >= 1 /\ Len(t) = Len(s) - 1
        /\ \A i \in 1 .. Len(s) - 1 : t[i] = s[i + 1]
    BY HeadTail
  <1>2. \A i \in 1 .. Len(s) : s[i] \in Node
    OBVIOUS
  <1> HIDE DEF t
  <1>0. t = <<>> <=> Len(t) = 0
    BY <1>1
  <1>3. t # <<>> => 2 \in 1 .. Len(s) /\ 1 # Len(s) /\ t[1] = s[2]
    BY <1>0, <1>1
  <1>4. ChainTo(t, p)
    <2> SUFFICES ASSUME NEW i \in 1 .. Len(t)
                 PROVE  EndOf(t[i]) = IF i = Len(t) THEN p ELSE t[i + 1].pos
      BY DEF ChainTo
    <2>1. i + 1 \in 1 .. Len(s) /\ t[i] = s[i + 1]
      BY <1>1
    <2>2. EndOf(s[i + 1]) = IF i + 1 = Len(s) THEN p ELSE s[i + 2].pos
      BY <2>1 DEF ChainTo
    <2>3. i # Len(t) => t[i + 1] = s[i + 2]
      BY <1>1
    <2> QED
      BY <1>1, <2>1, <2>2, <2>3
  <1>5. Within(t, p)
    BY <1>1 DEF Within
  <1>6. Untouched(t, 1)
    BY <1>1 DEF Untouched
  <1>7. 1 \in 1 .. Len(s) /\ (t = <<>> => 1 = Len(s))
    BY <1>0, <1>1
  <1>8. t = <<>> => EndOf(s[1]) = p
    BY <1>7 DEF ChainTo
  <1>9. t # <<>> => t[1].pos = EndOf(s[1]) /\ s[2].off = 0
    BY <1>0, <1>3, <1>7 DEF ChainTo, Untouched
  <1>10. EndOf(s[1]) <= p
    BY <1>7 DEF Within
  <1> QED
    BY <1>1, <1>2, <1>3, <1>4, <1>5, <1>6, <1>7, <1>8, <1>9, <1>10 DEF t

\* A node that begins where the chain ends can be appended to it.
LEMMA ChainAppend ==
  ASSUME NEW s \in Seq(Node), NEW n \in Node, n.off = 0, NEW k \in Nat \ {0},
         ChainTo(s, n.pos), Within(s, n.pos), Untouched(s, k)
  PROVE  /\ Append(s, n) \in Seq(Node) /\ Append(s, n) # <<>>
         /\ ChainTo(Append(s, n), EndOf(n)) /\ Within(Append(s, n), EndOf(n))
         /\ Untouched(Append(s, n), k)
         /\ s # <<>> => Append(s, n)[1] = s[1]
         /\ s = <<>> => Append(s, n)[1] = n
  <1> DEFINE t == Append(s, n)
  <1>1. /\ t \in Seq(Node) /\ t # <<>>
        /\ Len(s) \in Nat /\ Len(t) = Len(s) + 1 /\ t[Len(s) + 1] = n
        /\ \A i \in 1 .. Len(s) : t[i] = s[i] /\ s[i] \in Node
        /\ s # <<>> => Len(s) >= 1
        /\ s = <<>> => Len(s) = 0
    OBVIOUS
  <1>2. n.pos \in Nat /\ EndOf(n) \in Nat /\ n.pos <= EndOf(n)
        /\ \A i \in 1 .. Len(s) : EndOf(s[i]) \in Nat
    BY <1>1, NodeTyped
  <1> HIDE DEF t
  <1>3. ChainTo(t, EndOf(n))
    <2> SUFFICES ASSUME NEW i \in 1 .. Len(t)
                 PROVE  EndOf(t[i]) = IF i = Len(t) THEN EndOf(n)
                                                    ELSE t[i + 1].pos
      BY DEF ChainTo
    <2>1. CASE i = Len(t)
      BY <1>1, <2>1
    <2>2. CASE i # Len(t) /\ i = Len(s)
      BY <1>1, <2>2 DEF ChainTo
    <2>3. CASE i # Len(t) /\ i # Len(s)
      <3>1. i \in 1 .. Len(s) /\ i + 1 \in 1 .. Len(s)
        BY <1>1, <2>3
      <3> QED
        BY <1>1, <2>3, <3>1 DEF ChainTo
    <2> QED
      BY <2>1, <2>2, <2>3
  <1>4. Within(t, EndOf(n))
    BY <1>1, <1>2 DEF Within
  <1>5. Untouched(t, k)
    BY <1>1 DEF Untouched
  <1>6. (s # <<>> => t[1] = s[1]) /\ (s = <<>> => t[1] = n)
    BY <1>1
  <1> QED
    BY <1>1, <1>3, <1>4, <1>5, <1>6 DEF t

LEMMA ChainTailWithin ==
  ASSUME NEW s \in Seq(Node), s # <<>>, NEW p \in Nat, Within(s, p)
  PROVE  Within(Tail(s), p) /\ EndOf(s[1]) <= p
  <1> DEFINE t == Tail(s)
  <1>1. /\ Len(s) \in Nat /\ Len(s) >= 1 /\ Len(t) = Len(s) - 1
        /\ \A i \in 1 .. Len(s) - 1 : t[i] = s[i + 1]
    BY HeadTail
  <1> HIDE DEF t
  <1>2. Within(t, p) /\ EndOf(s[1]) <= p
    BY <1>1 DEF Within
  <1> QED
    BY <1>2 DEF t

\* The four positions are in order.
LEMMA Positions ==
  ASSUME TypeOK, ChainInv
  PROVE  /\ CallbackStart \in Nat /\ CallbackStart <= rcvd
         /\ TsListStart \in Nat /\ TsListStart <= CallbackStart
         /\ HandStart \in Nat /\ HandStart <= TsListStart
         /\ ReadPosition \in Nat /\ ReadPosition <= HandStart
  <1>1. /\ rcvd \in Nat /\ tsNode \in Node /\ cb.node \in Node
        /\ tsList \in Seq(Node) /\ tsListAll \in Seq(Node)
    BY DEF TypeOK
  <1>2. CallbackStart \in Nat /\ CallbackStart <= rcvd
    BY <1>1, NodeTyped DEF CallbackStart, ChainInv
  <1>3. TsListStart \in Nat /\ TsListStart <= CallbackStart
    <2>1. CASE tsList = <<>>
      BY <1>2, <2>1 DEF TsListStart
    <2>2. CASE tsList # <<>>
      <3>1. tsList[1] \in Node /\ 1 \in 1 .. Len(tsList)
        BY <1>1, <2>2
      <3>2. EndOf(tsList[1]) <= CallbackStart
        BY <3>1 DEF ChainInv, Within
      <3> QED
        BY <1>2, <2>2, <3>1, <3>2, NodeTyped DEF TsListStart
    <2> QED
      BY <2>1, <2>2
  <1>4. HandStart \in Nat /\ HandStart <= TsListStart
    BY <1>1, <1>3, NodeTyped DEF HandStart, ChainInv
  <1>5. ReadPosition \in Nat /\ ReadPosition <= HandStart
    <2>1. CASE tsListAll = <<>>
      BY <1>4, <2>1 DEF ReadPosition
    <2>2. CASE tsListAll # <<>>
      <3>1. tsListAll[1] \in Node /\ 1 \in 1 .. Len(tsListAll)
        BY <1>1, <2>2
      <3>2. /\ EndOf(tsListAll[1]) <= HandStart
            /\ tsListAll[1].off <= tsListAll[1].size
        BY <2>2, <3>1 DEF ChainInv, Within
      <3>3. /\ tsListAll[1].pos \in Nat /\ tsListAll[1].off \in Nat
            /\ EndOf(tsListAll[1]) = tsListAll[1].pos + tsListAll[1].size
            /\ tsListAll[1].size \in Nat
        BY <3>1 DEF Node, EndOf
      <3> QED
        BY <1>4, <2>2, <3>2, <3>3 DEF ReadPosition
    <2> QED
      BY <2>1, <2>2
  <1> QED
    BY <1>2, <1>3, <1>4, <1>5

-----------------------------------------------------------------------------
(* The steps.  Most of them leave the data where it is. *)

DataInv == ChainInv /\ SizeInv /\ DeliveredInv /\ ParsedInv /\ ParsedBeforeRead

SameCallback ==
  /\ InCallback' <=> InCallback
  /\ InCallback => cb'.node = cb.node
  /\ rcvd' = rcvd

SameHand ==
  /\ tsPc' = "hooks" <=> tsPc = "hooks"
  /\ tsPc' = "append" <=> tsPc = "append"
  /\ tsNode' = tsNode /\ parsed' = parsed

\* The positions behind ts_list_all, for the steps that only touch that list.
LEMMA SameBehind ==
  ASSUME SameCallback, SameHand, tsList' = tsList
  PROVE  /\ CallbackStart' = CallbackStart
         /\ TsListStart' = TsListStart
         /\ HandStart' = HandStart
  BY DEF SameCallback, SameHand, CallbackStart, TsListStart, HandStart, InHand

LEMMA Frame ==
  ASSUME DataInv, SameCallback, SameHand,
         UNCHANGED <<tsList, tsListAll, tsListSize, out>>
  PROVE  DataInv' /\ ReadPosition' = ReadPosition
  <1>1. /\ CallbackStart' = CallbackStart /\ TsListStart' = TsListStart
        /\ HandStart' = HandStart
    BY SameBehind
  <1>2. ReadPosition' = ReadPosition
    BY <1>1 DEF ReadPosition
  <1>3. ChainInv'
    BY <1>1 DEF DataInv, ChainInv, SameCallback, SameHand, InHand
  <1>4. SizeInv' /\ DeliveredInv'
    BY <1>1, <1>2 DEF DataInv, SizeInv, DeliveredInv
  <1>5. ParsedInv' /\ ParsedBeforeRead'
    BY <1>1 DEF DataInv, ParsedInv, ParsedBeforeRead, SameHand
  <1> QED
    BY <1>2, <1>3, <1>4, <1>5 DEF DataInv

\* The first node leaves ts_list_all: dropped, cleaned or read to its end.
LEMMA RemoveFirst ==
  ASSUME TypeOK, DataInv, SameCallback, SameHand, tsList' = tsList,
         tsListAll # <<>>,
         tsListAll' = Tail(tsListAll),
         tsListSize' = tsListSize - Head(tsListAll).size,
         \/ out' = out
         \/ /\ out' = [from |-> ReadPosition, to |-> EndOf(Head(tsListAll))]
            /\ ReadPosition < EndOf(Head(tsListAll))
  PROVE  /\ DataInv' /\ ReadPosition <= ReadPosition'
         /\ ReadPosition' = EndOf(Head(tsListAll))
  <1> DEFINE n == tsListAll[1]
  <1>1. /\ CallbackStart' = CallbackStart /\ TsListStart' = TsListStart
        /\ HandStart' = HandStart
    BY SameBehind
  <1>2. HandStart \in Nat /\ ReadPosition \in Nat
    BY Positions DEF DataInv
  <1>3. /\ tsListAll' \in Seq(Node)
        /\ ChainTo(tsListAll', HandStart) /\ Within(tsListAll', HandStart)
        /\ Untouched(tsListAll', 1)
        /\ tsListAll' = <<>> => EndOf(n) = HandStart
        /\ tsListAll' # <<>> => /\ tsListAll'[1].pos = EndOf(n)
                                /\ tsListAll'[1] \in Node
                                /\ tsListAll'[1].off = 0
        /\ n \in Node /\ Head(tsListAll) = n /\ EndOf(n) <= HandStart
    BY <1>2, ChainTail DEF TypeOK, DataInv, ChainInv
  <1>4. /\ n.pos \in Nat /\ n.size \in Nat /\ n.off \in Nat
        /\ EndOf(n) = n.pos + n.size
        /\ n.off <= n.size /\ ReadPosition = n.pos + n.off
        /\ tsListSize = HandStart - n.pos
    BY <1>3 DEF Node, EndOf, DataInv, ChainInv, ReadPosition, SizeInv
  <1>5. ReadPosition' = EndOf(n)
    <2>1. CASE tsListAll' = <<>>
      BY <1>1, <1>3, <2>1 DEF ReadPosition
    <2>2. CASE tsListAll' # <<>>
      BY <1>3, <1>4, <2>2 DEF ReadPosition
    <2> QED
      BY <2>1, <2>2
  <1>6. ReadPosition <= ReadPosition'
    BY <1>4, <1>5
  <1>7. ChainInv'
    <2>1. Untouched(tsListAll', 2)
      BY <1>3 DEF Untouched
    <2>2. tsListAll' # <<>> => tsListAll'[1].off <= tsListAll'[1].size
      <3>1. ASSUME NEW m \in Node, m.off = 0 PROVE m.off <= m.size
        BY ONLY <3>1, NodeTyped
      <3> QED
        BY ONLY <1>3, <3>1
    <2> QED
      BY <1>1, <1>3, <2>1, <2>2 DEF DataInv, ChainInv, SameCallback, SameHand,
                                    InHand
  <1>8. SizeInv'
    <2>0. tsListSize' = tsListSize - n.size
      BY <1>3, Zenon
    <2> HIDE DEF n
    <2>1. CASE tsListAll' = <<>>
      <3>1. tsListSize' = 0
        BY <1>2, <1>3, <1>4, <2>0, <2>1
      <3> QED
        BY <2>1, <3>1 DEF SizeInv
    <2>2. CASE tsListAll' # <<>>
      <3>2. tsListSize' = HandStart - EndOf(n)
        BY <1>2, <1>4, <2>0
      <3>3. tsListAll'[1].pos = EndOf(n)
        BY <1>3, <2>2
      <3> QED
        BY <1>1, <2>2, <3>2, <3>3 DEF SizeInv
    <2> QED
      BY <2>1, <2>2
  <1>9. DeliveredInv'
    <2>1. out.from \in Nat /\ out.to \in Nat /\ out.from <= out.to
          /\ out.to <= ReadPosition
      BY DEF DataInv, DeliveredInv, TypeOK
    <2>2. EndOf(n) \in Nat
      BY <1>4
    <2>3. CASE out' = out
      BY <1>2, <1>5, <1>6, <2>1, <2>2, <2>3 DEF DeliveredInv
    <2>4. CASE /\ out' = [from |-> ReadPosition, to |-> EndOf(n)]
               /\ ReadPosition < EndOf(n)
      BY <1>2, <1>5, <2>2, <2>4 DEF DeliveredInv
    <2> QED
      BY <1>3, <2>3, <2>4
  <1>10. Within(tsListAll', parsed) /\ EndOf(n) <= parsed
    BY ChainTailWithin, <1>3 DEF TypeOK, DataInv, ParsedInv
  <1>11. ParsedInv' /\ ParsedBeforeRead'
    <2>1. ParsedInv'
      BY <1>1, <1>10 DEF DataInv, ParsedInv, SameHand
    <2>2. ParsedBeforeRead'
      BY <1>3, <1>10 DEF DataInv, ParsedBeforeRead, SameHand
    <2> QED
      BY <2>1, <2>2
  <1> QED
    BY <1>3, <1>5, <1>6, <1>7, <1>8, <1>9, <1>11 DEF DataInv

\* read_ts_data takes k packets out of the first node, which stays.
LEMMA ReadPartData ==
  ASSUME TypeOK, DataInv, ThreadInv, ReadPart
  PROVE  /\ DataInv' /\ ReadPosition <= ReadPosition'
         /\ ReadPosition' = ReadPosition + remain
         /\ out' = IF 0 < remain
                   THEN [from |-> ReadPosition, to |-> ReadPosition'] ELSE out
  <1> DEFINE n == tsListAll[1]
  <1>1. /\ tsListAll # <<>> /\ Head(tsListAll) = n /\ n \in Node
        /\ Len(tsListAll) \in Nat /\ Len(tsListAll) >= 1
        /\ remain \in Nat
    BY HeadTail DEF ThreadInv, ReadPart, TypeOK
  <1>2. SameCallback /\ SameHand /\ tsList' = tsList /\ tsListSize' = tsListSize
    BY DEF ReadPart, SameCallback, SameHand, InCallback, tsVars, cbVars
  <1>3. /\ CallbackStart' = CallbackStart /\ TsListStart' = TsListStart
        /\ HandStart' = HandStart
    BY <1>2, SameBehind
  <1>4. /\ n.pos \in Nat /\ n.size \in Nat /\ n.off \in Nat
        /\ n.off <= n.size /\ ReadPosition = n.pos + n.off
        /\ EndOf(n) = n.pos + n.size
    BY <1>1 DEF Node, EndOf, DataInv, ChainInv, ReadPosition
  <1>5. /\ remain <= n.size - n.off
        /\ CopyOut(n.pos + n.off, n.pos + n.off + remain)
        /\ tsListAll' = [tsListAll EXCEPT ![1].off = @ + remain]
    BY <1>1 DEF ReadPart
  <1>6. /\ Len(tsListAll') = Len(tsListAll) /\ tsListAll' # <<>>
        /\ tsListAll'[1] = [n EXCEPT !.off = n.off + remain]
        /\ \A i \in 2 .. Len(tsListAll) : tsListAll'[i] = tsListAll[i]
        /\ \A i \in 1 .. Len(tsListAll) : /\ tsListAll'[i].pos = tsListAll[i].pos
                                          /\ EndOf(tsListAll'[i]) = EndOf(tsListAll[i])
    <2>1. /\ Len(tsListAll') = Len(tsListAll) /\ tsListAll' # <<>>
          /\ tsListAll'[1] = [n EXCEPT !.off = n.off + remain]
          /\ \A i \in 2 .. Len(tsListAll) : tsListAll'[i] = tsListAll[i]
      BY <1>1, <1>5 DEF TypeOK
    <2>2. /\ tsListAll'[1].pos = n.pos /\ EndOf(tsListAll'[1]) = EndOf(n)
      BY <1>1, <2>1 DEF Node, EndOf
    <2>3. ASSUME NEW i \in 1 .. Len(tsListAll)
          PROVE  /\ tsListAll'[i].pos = tsListAll[i].pos
                 /\ EndOf(tsListAll'[i]) = EndOf(tsListAll[i])
      <3>1. CASE i = 1
        BY <2>2, <3>1
      <3>2. CASE i # 1
        <4>1. i \in 2 .. Len(tsListAll)
          BY <1>1, <3>2
        <4> QED
          BY <2>1, <4>1
      <3> QED
        BY <3>1, <3>2
    <2> QED
      BY <2>1, <2>3
  <1>7. tsListAll'[1].off = n.off + remain /\ tsListAll'[1].size = n.size
        /\ tsListAll'[1].pos = n.pos
    BY <1>1, <1>6 DEF Node
  <1>8. ReadPosition' = ReadPosition + remain /\ ReadPosition \in Nat
    BY <1>1, <1>4, <1>6, <1>7 DEF ReadPosition
  <1>9. out' = IF 0 < remain THEN [from |-> ReadPosition, to |-> ReadPosition']
                             ELSE out
    BY <1>1, <1>4, <1>5, <1>8 DEF CopyOut
  <1>10. ChainInv'
    <2>1. ChainTo(tsListAll', HandStart) /\ Within(tsListAll', HandStart)
          /\ Untouched(tsListAll', 2)
      BY <1>1, <1>6 DEF DataInv, ChainInv, ChainTo, Within, Untouched
    <2>2. tsListAll'[1].off <= tsListAll'[1].size
      BY <1>1, <1>4, <1>5, <1>7
    <2> QED
      BY <1>2, <1>3, <2>1, <2>2 DEF DataInv, ChainInv, SameCallback, SameHand,
                                    InHand
  <1>11. SizeInv'
    BY <1>1, <1>2, <1>3, <1>6, <1>7 DEF DataInv, SizeInv
  <1>12. DeliveredInv'
    BY <1>1, <1>8, <1>9 DEF DataInv, DeliveredInv, TypeOK
  <1>13. Within(tsListAll', parsed) /\ EndOf(n) <= parsed
    BY <1>1, <1>6 DEF DataInv, ParsedInv, Within
  <1>14. ParsedInv' /\ ParsedBeforeRead'
    <2>1. ParsedInv'
      BY <1>2, <1>3, <1>13 DEF DataInv, ParsedInv, SameHand
    <2>2. ParsedBeforeRead'
      <3>1. parsed \in Nat /\ parsed' = parsed /\ out.to <= parsed
        BY <1>2 DEF DataInv, ParsedBeforeRead, SameHand, TypeOK
      <3>2. ReadPosition' \in Nat /\ ReadPosition' <= parsed
        <4>1. /\ remain \in Nat /\ remain <= n.size - n.off
              /\ ReadPosition' = n.pos + n.off + remain
          BY <1>1, <1>4, <1>5, <1>8
        <4>2. n.pos + n.size <= parsed
          BY <1>4, <1>13
        <4> HIDE DEF n
        <4> QED
          BY <1>4, <3>1, <4>1, <4>2
      <3>3. out'.to <= parsed
        BY <1>9, <3>1, <3>2
      <3> QED
        BY <3>1, <3>3 DEF ParsedBeforeRead
    <2> QED
      BY <2>1, <2>2
  <1> QED
    BY <1>1, <1>8, <1>9, <1>10, <1>11, <1>12, <1>14 DEF DataInv

-----------------------------------------------------------------------------
(* record_callback *)

LEMMA CallbackFillData ==
  ASSUME TypeOK, DataInv, NEW t \in EventThreads, CallbackFill(t),
         ConstantsAssumption
  PROVE  /\ DataInv' /\ ReadPosition' = ReadPosition
         /\ out' = out /\ rcvd' \in Nat /\ rcvd' >= rcvd
  <1>1. PICK n \in NodeSizes :
          /\ cb' = [by |-> t, pc |-> "append",
                    node |-> [pos |-> rcvd, size |-> n, off |-> 0]]
          /\ rcvd' = rcvd + n
    BY DEF CallbackFill
  <1>2. /\ UNCHANGED <<tsList, tsListAll, tsListSize, tsPc, tsNode, parsed, out>>
        /\ cb.pc = "none"
    BY DEF CallbackFill, poolVars, appVars, tsVars
  <1>3. rcvd \in Nat /\ n \in Nat
    BY DEF ConstantsAssumption, TypeOK
  <1>4. InCallback' /\ cb'.node = [pos |-> rcvd, size |-> n, off |-> 0]
        /\ ~InCallback
    BY <1>1, <1>2 DEF InCallback
  <1>5. CallbackStart' = CallbackStart
    BY <1>4 DEF CallbackStart
  <1>6. SameHand
    BY <1>2 DEF SameHand
  <1>7. TsListStart' = TsListStart /\ HandStart' = HandStart
    BY <1>2, <1>5 DEF TsListStart, HandStart, InHand
  <1>8. ReadPosition' = ReadPosition
    BY <1>2, <1>7 DEF ReadPosition
  <1>9. EndOf(cb'.node) = rcvd' /\ cb'.node.off = 0
    BY <1>1, <1>4 DEF EndOf
  <1>10. ChainInv'
    BY <1>2, <1>5, <1>7, <1>9 DEF DataInv, ChainInv, InHand
  <1>11. SizeInv' /\ DeliveredInv' /\ ParsedInv' /\ ParsedBeforeRead'
    BY <1>2, <1>7, <1>8 DEF DataInv, SizeInv, DeliveredInv, ParsedInv,
                            ParsedBeforeRead
  <1> QED
    BY <1>1, <1>2, <1>3, <1>8, <1>10, <1>11 DEF DataInv

LEMMA CallbackAppendData ==
  ASSUME TypeOK, DataInv, CallbackAppend
  PROVE  DataInv' /\ ReadPosition' = ReadPosition /\ out' = out /\ rcvd' = rcvd
  <1> DEFINE n == cb.node
  <1>1. /\ UNCHANGED <<tsListAll, tsListSize, tsPc, tsNode, parsed, out, rcvd>>
        /\ tsList' = Append(tsList, n) /\ InCallback /\ ~InCallback'
    BY DEF CallbackAppend, appVars, tsVars, InCallback, TypeOK
  <1>2. /\ n \in Node /\ tsList \in Seq(Node) /\ rcvd \in Nat
        /\ n.off = 0 /\ EndOf(n) = rcvd
        /\ CallbackStart = n.pos /\ CallbackStart' = rcvd
    BY <1>1 DEF TypeOK, DataInv, ChainInv, CallbackStart
  <1>3. /\ ChainTo(tsList, n.pos) /\ Within(tsList, n.pos) /\ Untouched(tsList, 1)
    BY <1>2 DEF DataInv, ChainInv
  <1>4. /\ tsList' # <<>>
        /\ ChainTo(tsList', rcvd) /\ Within(tsList', rcvd)
        /\ Untouched(tsList', 1)
        /\ tsList # <<>> => tsList'[1] = tsList[1]
        /\ tsList = <<>> => tsList'[1] = n
    BY <1>1, <1>2, <1>3, ChainAppend
  <1>5. TsListStart' = TsListStart
    BY <1>2, <1>4 DEF TsListStart
  <1>6. HandStart' = HandStart
    BY <1>1, <1>5 DEF HandStart, InHand
  <1>7. ReadPosition' = ReadPosition
    BY <1>1, <1>6 DEF ReadPosition
  <1>8. ChainInv'
    BY <1>1, <1>2, <1>4, <1>5, <1>6 DEF DataInv, ChainInv, InHand
  <1>9. SizeInv' /\ DeliveredInv' /\ ParsedInv' /\ ParsedBeforeRead'
    BY <1>1, <1>5, <1>6, <1>7 DEF DataInv, SizeInv, DeliveredInv, ParsedInv,
                                  ParsedBeforeRead
  <1> QED
    BY <1>1, <1>7, <1>8, <1>9 DEF DataInv

-----------------------------------------------------------------------------
(* process_ts *)

LEMMA TakeFirstData ==
  ASSUME TypeOK, DataInv, tsList # <<>>, TakeFirst, ~InHand, SameCallback,
         UNCHANGED <<tsListAll, tsListSize, parsed, out>>
  PROVE  DataInv' /\ ReadPosition' = ReadPosition
  <1> DEFINE n == tsList[1]
  <1>1. /\ CallbackStart \in Nat /\ TsListStart \in Nat /\ HandStart = TsListStart
        /\ CallbackStart' = CallbackStart
    BY Positions DEF DataInv, HandStart, SameCallback, CallbackStart
  <1>2. /\ n \in Node /\ Head(tsList) = n /\ EndOf(n) <= CallbackStart
        /\ ChainTo(tsList', CallbackStart) /\ Within(tsList', CallbackStart)
        /\ Untouched(tsList', 1)
        /\ tsList' = <<>> => EndOf(n) = CallbackStart
        /\ tsList' # <<>> => tsList'[1].pos = EndOf(n)
    <2>1. /\ tsList \in Seq(Node) /\ tsList' = Tail(tsList)
          /\ ChainTo(tsList, CallbackStart) /\ Within(tsList, CallbackStart)
          /\ Untouched(tsList, 1)
      BY DEF TypeOK, TakeFirst, DataInv, ChainInv
    <2>2. Untouched(tsList, 2)
      BY <2>1 DEF Untouched
    <2> QED
      BY <1>1, <2>1, <2>2, ChainTail
  <1>3. tsNode' = n /\ tsPc' = "hooks" /\ InHand'
    BY <1>2 DEF TakeFirst, InHand
  <1>4. n.off = 0 /\ TsListStart = n.pos
    <2>1. 1 \in 1 .. Len(tsList)
      BY HeadTail DEF TypeOK
    <2> QED
      BY <2>1 DEF DataInv, ChainInv, Untouched, TsListStart
  <1>5. TsListStart' = EndOf(n)
    BY <1>1, <1>2 DEF TsListStart
  <1>6. HandStart' = HandStart
    BY <1>1, <1>3, <1>4 DEF HandStart
  <1>7. ReadPosition' = ReadPosition
    BY <1>6 DEF ReadPosition
  <1>8. ChainInv'
    BY <1>1, <1>2, <1>3, <1>4, <1>5, <1>6 DEF DataInv, ChainInv, SameCallback
  <1>9. n.pos \in Nat /\ EndOf(n) \in Nat /\ n.pos <= EndOf(n) /\ parsed \in Nat
    BY <1>2, NodeTyped DEF TypeOK
  <1>10. ParsedInv'
    BY <1>3, <1>4, <1>5, <1>9 DEF DataInv, ParsedInv
  <1>11. SizeInv' /\ DeliveredInv' /\ ParsedBeforeRead'
    BY <1>6, <1>7 DEF DataInv, SizeInv, DeliveredInv, ParsedBeforeRead
  <1> QED
    BY <1>7, <1>8, <1>10, <1>11 DEF DataInv

LEMMA TsHooksData ==
  ASSUME TypeOK, DataInv, TsHooks
  PROVE  DataInv' /\ ReadPosition' = ReadPosition /\ out' = out /\ rcvd' = rcvd
  <1>1. /\ UNCHANGED <<tsList, tsListAll, tsListSize, tsNode, out, cb, rcvd>>
        /\ tsPc = "hooks" /\ tsPc' = "append" /\ parsed' = EndOf(tsNode)
        /\ InHand /\ InHand'
    BY DEF TsHooks, poolVars, appVars, cbVars, InHand
  <1>2. /\ InCallback' = InCallback /\ CallbackStart' = CallbackStart
        /\ TsListStart' = TsListStart
    BY <1>1 DEF InCallback, CallbackStart, TsListStart
  <1>3. HandStart' = HandStart /\ HandStart = tsNode.pos
    BY <1>1 DEF HandStart
  <1>4. ReadPosition' = ReadPosition
    BY <1>1, <1>3 DEF ReadPosition
  <1>5. ChainInv'
    BY <1>1, <1>2, <1>3 DEF DataInv, ChainInv
  <1>6. SizeInv' /\ DeliveredInv'
    BY <1>1, <1>3, <1>4 DEF DataInv, SizeInv, DeliveredInv
  <1>7. tsNode.pos \in Nat /\ EndOf(tsNode) \in Nat /\ tsNode.pos <= EndOf(tsNode)
    BY NodeTyped DEF TypeOK
  <1>8. Within(tsListAll, EndOf(tsNode))
    <2> SUFFICES ASSUME NEW i \in 1 .. Len(tsListAll)
                 PROVE  EndOf(tsListAll[i]) <= EndOf(tsNode)
      BY DEF Within
    <2>1. tsListAll[i] \in Node
      BY DEF TypeOK
    <2>2. EndOf(tsListAll[i]) \in Nat
      BY <2>1, NodeTyped
    <2>3. EndOf(tsListAll[i]) <= tsNode.pos
      BY <1>3 DEF DataInv, ChainInv, Within
    <2> QED
      BY <1>7, <2>2, <2>3
  <1>9. EndOf(tsNode) = TsListStart /\ TsListStart \in Nat
    BY <1>1, <1>7 DEF DataInv, ChainInv
  <1>10. ParsedInv'
    BY <1>1, <1>2, <1>8, <1>9 DEF ParsedInv
  <1>11. ParsedBeforeRead'
    BY <1>1, <1>7 DEF DataInv, ParsedInv, ParsedBeforeRead, TypeOK
  <1> QED
    BY <1>1, <1>4, <1>5, <1>6, <1>10, <1>11 DEF DataInv

LEMMA TsAppendData ==
  ASSUME TypeOK, DataInv, TsAppend
  PROVE  DataInv' /\ ReadPosition' = ReadPosition /\ out' = out /\ rcvd' = rcvd
  <1> DEFINE n == tsNode
  <1>1. /\ UNCHANGED <<tsList, parsed, out, cb, rcvd>>
        /\ tsPc = "append" /\ tsPc' = "drop"
        /\ tsListAll' = Append(tsListAll, n)
        /\ tsListSize' = tsListSize + n.size
        /\ InHand /\ ~InHand'
    BY DEF TsAppend, appVars, cbVars, InHand
  <1>2. /\ InCallback' = InCallback /\ CallbackStart' = CallbackStart
        /\ TsListStart' = TsListStart
    BY <1>1 DEF InCallback, CallbackStart, TsListStart
  <1>3. /\ HandStart = n.pos /\ HandStart' = TsListStart
        /\ EndOf(n) = TsListStart /\ n.off = 0 /\ n \in Node
        /\ parsed = EndOf(n)
    BY <1>1, <1>2 DEF HandStart, DataInv, ChainInv, ParsedInv, TypeOK
  <1>4. /\ n.pos \in Nat /\ n.size \in Nat /\ EndOf(n) = n.pos + n.size
    BY <1>3 DEF Node, EndOf
  <1>5. /\ tsListAll' # <<>>
        /\ ChainTo(tsListAll', EndOf(n)) /\ Within(tsListAll', EndOf(n))
        /\ Untouched(tsListAll', 2)
        /\ tsListAll # <<>> => tsListAll'[1] = tsListAll[1]
        /\ tsListAll = <<>> => tsListAll'[1] = n
    <2>1. tsListAll \in Seq(Node) /\ 2 \in Nat \ {0}
      BY DEF TypeOK
    <2>2. ChainTo(tsListAll, n.pos) /\ Within(tsListAll, n.pos)
          /\ Untouched(tsListAll, 2)
      BY <1>3 DEF DataInv, ChainInv
    <2> QED
      BY <1>1, <1>3, <2>1, <2>2, ChainAppend
  <1>6. ReadPosition' = ReadPosition
    BY <1>3, <1>4, <1>5 DEF ReadPosition
  <1>7. tsListAll'[1].off <= tsListAll'[1].size
    BY <1>3, <1>4, <1>5 DEF DataInv, ChainInv
  <1>8. ChainInv'
    BY <1>1, <1>2, <1>3, <1>5, <1>7 DEF DataInv, ChainInv
  <1>9. SizeInv'
    <2>1. CASE tsListAll = <<>>
      BY <1>1, <1>3, <1>4, <1>5, <2>1 DEF DataInv, SizeInv
    <2>2. CASE tsListAll # <<>>
      <3>1. tsListAll[1].pos \in Nat
        <4>1. tsListAll \in Seq(Node)
          BY DEF TypeOK
        <4>2. 1 \in 1 .. Len(tsListAll)
          BY <2>2, <4>1
        <4>3. tsListAll[1] \in Node
          BY <4>1, <4>2
        <4> QED
          BY <4>3, NodeTyped
      <3>2. tsListSize = n.pos - tsListAll[1].pos
        BY <1>3, <2>2 DEF DataInv, SizeInv
      <3>3. tsListSize' = HandStart' - tsListAll[1].pos
        BY <1>1, <1>3, <1>4, <3>1, <3>2
      <3> QED
        BY <1>5, <2>2, <3>3 DEF SizeInv
    <2> QED
      BY <2>1, <2>2
  <1>10. DeliveredInv' /\ ParsedBeforeRead'
    BY <1>1, <1>6 DEF DataInv, DeliveredInv, ParsedBeforeRead
  <1>11. ParsedInv'
    BY <1>1, <1>2, <1>3, <1>5 DEF DataInv, ParsedInv
  <1> QED
    BY <1>1, <1>6, <1>8, <1>9, <1>10, <1>11 DEF DataInv

-----------------------------------------------------------------------------
(* start_ts: a pool initialized anew has empty lists. *)

LEMMA StartSubmitData ==
  ASSUME TypeOK, DataInv, ThreadInv, StartSubmit \/ StartFails
  PROVE  /\ DataInv' /\ ReadPosition <= ReadPosition'
         /\ out' = out /\ rcvd' = rcvd
         /\ ReadPosition' = IF initialized THEN ReadPosition ELSE CallbackStart
  <1>1. /\ UNCHANGED <<out, tsPc, tsNode, parsed, cb, rcvd>>
        /\ appPc = "idle"
        /\ IF initialized THEN UNCHANGED <<tsList, tsListAll, tsListSize>>
           ELSE tsList' = <<>> /\ tsListAll' = <<>> /\ tsListSize' = 0
    BY DEF StartSubmit, StartFails, PoolInit, tsVars, cbVars
  <1>2. SameCallback /\ SameHand /\ ~InHand
    BY <1>1 DEF SameCallback, SameHand, InCallback, InHand, ThreadInv
  <1>3. /\ CallbackStart \in Nat /\ CallbackStart <= rcvd
        /\ TsListStart \in Nat /\ TsListStart <= CallbackStart
        /\ HandStart \in Nat /\ HandStart <= TsListStart
        /\ ReadPosition \in Nat /\ ReadPosition <= HandStart
    BY Positions DEF DataInv
  <1>4. CASE initialized
    BY <1>1, <1>2, <1>3, <1>4, Frame
  <1>5. CASE ~initialized
    <2>1. tsList' = <<>> /\ tsListAll' = <<>> /\ tsListSize' = 0
      BY <1>1, <1>5
    <2>2. CallbackStart' = CallbackStart
      BY <1>1 DEF CallbackStart, InCallback
    <2>3. TsListStart' = CallbackStart /\ HandStart' = CallbackStart
          /\ ReadPosition' = CallbackStart /\ ~InHand'
      BY <1>1, <1>2, <2>1, <2>2 DEF TsListStart, HandStart, ReadPosition, InHand
    <2>4. ReadPosition <= ReadPosition'
      BY <1>3, <2>3
    <2>5. ChainInv'
      BY <1>1, <1>2, <2>1, <2>3 DEF DataInv, ChainInv, SameCallback, ChainTo,
                                    Within, Untouched
    <2>6. SizeInv'
      BY <2>1 DEF SizeInv
    <2>7. DeliveredInv'
      BY <1>1, <1>3, <2>3 DEF DataInv, DeliveredInv, TypeOK
    <2>8. tsPc # "hooks" /\ tsPc # "append"
      BY <1>2 DEF InHand
    <2>9. parsed <= CallbackStart
      BY <1>3 DEF DataInv, ParsedInv, TypeOK
    <2>10. ParsedInv' /\ ParsedBeforeRead'
      BY <1>1, <2>1, <2>3, <2>8, <2>9 DEF DataInv, ParsedInv, ParsedBeforeRead,
                                          Within
    <2> QED
      BY <1>1, <1>5, <2>3, <2>4, <2>5, <2>6, <2>7, <2>10 DEF DataInv
  <1> QED
    BY <1>4, <1>5
-----------------------------------------------------------------------------
(* read_ts_data *)

LEMMA ReadWholeData ==
  ASSUME TypeOK, DataInv, ThreadInv, ReadWhole
  PROVE  /\ DataInv' /\ rcvd' = rcvd /\ ReadPosition <= ReadPosition'
         /\ \/ out' = out /\ ReadPosition' = ReadPosition
            \/ /\ out' = [from |-> ReadPosition, to |-> ReadPosition']
               /\ ReadPosition < ReadPosition'
  <1> DEFINE n == Head(tsListAll)
  <1>1. tsListAll # <<>> /\ n = tsListAll[1]
    BY HeadTail DEF ThreadInv, ReadWhole, TypeOK
  <1>2. /\ SameCallback /\ SameHand /\ tsList' = tsList /\ rcvd' = rcvd
        /\ tsListAll' = Tail(tsListAll) /\ tsListSize' = tsListSize - n.size
        /\ CopyOut(n.pos + n.off, EndOf(n))
    BY DEF ReadWhole, SameCallback, SameHand, InCallback, tsVars, cbVars
  <1>3. ReadPosition = n.pos + n.off
    BY <1>1 DEF ReadPosition
  <1>4. \/ out' = out /\ ~(ReadPosition < EndOf(n))
        \/ /\ out' = [from |-> ReadPosition, to |-> EndOf(n)]
           /\ ReadPosition < EndOf(n)
    BY <1>2, <1>3 DEF CopyOut
  <1>5. /\ DataInv' /\ ReadPosition <= ReadPosition'
        /\ ReadPosition' = EndOf(n)
    BY <1>1, <1>2, <1>4, RemoveFirst
  <1>6. n \in Node /\ EndOf(n) \in Nat /\ ReadPosition \in Nat
    BY <1>1, HeadTail, NodeTyped, Positions DEF TypeOK, DataInv
  <1> QED
    BY <1>2, <1>4, <1>5, <1>6

-----------------------------------------------------------------------------
(* Every step: the data stays consistent, and the stream is received, given  *)
(* up or delivered in order.                                                 *)

Received  == ReadPosition' = ReadPosition /\ out' = out
             /\ rcvd' \in Nat /\ rcvd' >= rcvd
GivenUp   == /\ ReadPosition <= ReadPosition' /\ out' = out /\ rcvd' = rcvd
             /\ \/ ReadPosition' = ReadPosition
                \/ OverLimit \/ appPc = "clean" \/ ~initialized
Delivered == /\ ReadPosition < ReadPosition' /\ rcvd' = rcvd
             /\ out' = [from |-> ReadPosition, to |-> ReadPosition']

LEMMA Still ==
  ASSUME TypeOK, DataInv,
         UNCHANGED <<tsList, tsListAll, tsListSize, out, rcvd, tsNode, parsed>>,
         InCallback' <=> InCallback, InCallback => cb'.node = cb.node,
         tsPc' = "hooks" <=> tsPc = "hooks",
         tsPc' = "append" <=> tsPc = "append"
  PROVE  DataInv' /\ GivenUp
  <1>1. ReadPosition \in Nat
    BY Positions DEF DataInv
  <1>2. DataInv' /\ ReadPosition' = ReadPosition
    BY Frame DEF SameCallback, SameHand
  <1> QED
    BY <1>1, <1>2 DEF GivenUp

LEMMA CallbackData ==
  ASSUME TypeOK, DataInv, ConstantsAssumption,
         CallbackStep \/ \E t \in EventThreads : CallbackFill(t)
  PROVE  DataInv' /\ (GivenUp \/ Received)
  <1>1. ReadPosition \in Nat
    BY Positions DEF DataInv
  <1>2. ASSUME NEW t \in EventThreads, CallbackFill(t)
        PROVE  DataInv' /\ Received
    BY <1>2, CallbackFillData DEF Received
  <1>3. CASE CallbackAppend
    BY <1>1, <1>3, CallbackAppendData DEF GivenUp
  <1>4. CASE CallbackSignal
    BY <1>4, Still DEF CallbackSignal, InCallback, IdleCallback, poolVars,
                       appVars, tsVars
  <1>5. CASE CallbackWild
    <2>1. cb' = [cb EXCEPT !.pc = IF cb.pc = "append" THEN "wild_append"
                                                      ELSE "wild_signal"]
          /\ cb.pc \in {"append", "signal"}
      BY <1>5 DEF CallbackWild
    <2>2. cb'.node = cb.node /\ (InCallback' <=> InCallback)
      BY <2>1 DEF TypeOK, InCallback
    <2> QED
      BY <1>5, <2>2, Still DEF CallbackWild, poolVars, appVars, tsVars
  <1> QED
    BY <1>2, <1>3, <1>4, <1>5 DEF CallbackStep

LEMMA TsThreadData ==
  ASSUME TypeOK, DataInv, ThreadInv, TsThread
  PROVE  DataInv' /\ GivenUp
  <1>1. ReadPosition \in Nat
    BY Positions DEF DataInv
  <1>2. CASE TsCheck
    BY <1>2, Still DEF TsCheck, InCallback, poolVars, appVars, cbVars
  <1>3. CASE TsTake
    <2>1. CASE tsList # <<>> /\ TakeFirst
      BY <1>1, <1>3, <2>1, TakeFirstData
         DEF TsTake, InHand, SameCallback, InCallback, appVars, cbVars, GivenUp
    <2>2. CASE tsPc' = "woken" /\ UNCHANGED <<tsList, tsNode>>
      BY <1>3, <2>2, Still DEF TsTake, InCallback, appVars, cbVars
    <2> QED
      BY <1>3, <2>1, <2>2 DEF TsTake
  <1>4. CASE TsWoken
    <2>1. CASE tsList # <<>> /\ TakeFirst
      BY <1>1, <1>4, <2>1, TakeFirstData
         DEF TsWoken, InHand, SameCallback, InCallback, appVars, cbVars, GivenUp
    <2>2. CASE tsPc' = "check" /\ UNCHANGED <<tsList, tsNode>>
      BY <1>4, <2>2, Still DEF TsWoken, InCallback, appVars, cbVars
    <2> QED
      BY <1>4, <2>1, <2>2 DEF TsWoken
  <1>5. CASE TsHooks
    BY <1>1, <1>5, TsHooksData DEF GivenUp
  <1>6. CASE TsAppend
    BY <1>1, <1>6, TsAppendData DEF GivenUp
  <1>7. CASE TsDrop
    <2>1. /\ tsListAll # <<>> /\ tsListAll' = Tail(tsListAll)
          /\ tsListSize' = tsListSize - Head(tsListAll).size
          /\ tsList' = tsList /\ out' = out /\ rcvd' = rcvd
          /\ SameCallback /\ SameHand
      BY <1>7 DEF TsDrop, OverLimit, SameCallback, SameHand, InCallback, appVars,
                  tsVars, cbVars
    <2>2. OverLimit
      BY <1>7 DEF TsDrop
    <2> QED
      BY <2>1, <2>2, RemoveFirst DEF GivenUp
  <1>8. CASE TsUnlock
    BY <1>8, Still DEF TsUnlock, InCallback, poolVars, appVars, cbVars
  <1>9. CASE TsSignal
    BY <1>9, Still DEF TsSignal, InCallback, poolVars, appVars, cbVars
  <1> QED
    BY <1>2, <1>3, <1>4, <1>5, <1>6, <1>7, <1>8, <1>9 DEF TsThread

LEMMA AppStartData ==
  ASSUME TypeOK, DataInv, ThreadInv, AppStart
  PROVE  DataInv' /\ GivenUp
  <1>1. CASE StartSubmit
    BY <1>1, StartSubmitData DEF GivenUp
  <1>2. CASE StartUsbThread
    BY <1>2, Still DEF StartUsbThread, InCallback, tsVars
  <1>3. CASE StartTsThread
    <2>1. tsPc' = tsPc \/ tsPc' = "check"
      BY <1>3 DEF StartTsThread
    <2>2. tsPc \in {"none", "exited"}
      BY <1>3 DEF StartTsThread, ThreadInv
    <2> QED
      BY <1>3, <2>1, <2>2, Still DEF StartTsThread, InCallback, cbVars
  <1>4. CASE StartFails
    BY <1>4, StartSubmitData DEF GivenUp
  <1> QED
    BY <1>1, <1>2, <1>3, <1>4 DEF AppStart

LEMMA AppReadData ==
  ASSUME TypeOK, DataInv, ThreadInv, ReadBegin \/ AppRead
  PROVE  DataInv' /\ (GivenUp \/ Delivered)
  <1>1. ReadPosition \in Nat /\ remain \in Nat
    BY Positions DEF DataInv, TypeOK
  <1>2. CASE ReadBegin
    BY <1>2, Still DEF ReadBegin, InCallback, poolVars, tsVars, cbVars
  <1>3. CASE ReadLock
    BY <1>3, Still DEF ReadLock, InCallback, poolVars, tsVars, cbVars
  <1>4. CASE ReadWoken
    BY <1>4, Still DEF ReadWoken, InCallback, poolVars, tsVars, cbVars
  <1>5. CASE ReadWhole
    BY <1>5, ReadWholeData DEF GivenUp, Delivered
  <1>6. CASE ReadPart
    <2>1. rcvd' = rcvd
      BY <1>6 DEF ReadPart, cbVars
    <2> QED
      BY <1>1, <1>6, <2>1, ReadPartData DEF GivenUp, Delivered
  <1>7. CASE ReadUnlock
    BY <1>7, Still DEF ReadUnlock, InCallback, poolVars, tsVars, cbVars
  <1> QED
    BY <1>2, <1>3, <1>4, <1>5, <1>6, <1>7 DEF AppRead

LEMMA AppStopData ==
  ASSUME TypeOK, DataInv, ThreadInv, StopDisarm \/ AppStop
  PROVE  DataInv' /\ GivenUp
  <1>1. CASE StopDisarm
    BY <1>1, Still DEF StopDisarm, InCallback, tsVars, cbVars
  <1>2. CASE StopCancel
    BY <1>2, Still DEF StopCancel, InCallback, tsVars, cbVars
  <1>3. CASE StopWakeup
    BY <1>3, Still DEF StopWakeup, InCallback, poolVars, tsVars, cbVars
  <1>4. CASE StopJoinUsb
    BY <1>4, Still DEF StopJoinUsb, InCallback, poolVars, tsVars, cbVars
  <1>5. CASE StopJoinTs
    BY <1>5, Still DEF StopJoinTs, InCallback, poolVars, tsVars, cbVars
  <1>6. CASE StopRelease
    BY <1>6, Still DEF StopRelease, InCallback, poolVars, tsVars, cbVars
  <1>7. CASE StopClean
    <2>1. /\ tsListAll # <<>> /\ tsListAll' = Tail(tsListAll)
          /\ tsListSize' = tsListSize - Head(tsListAll).size
          /\ tsList' = tsList /\ out' = out /\ rcvd' = rcvd
          /\ SameCallback /\ SameHand /\ appPc = "clean"
      BY <1>7 DEF StopClean, SameCallback, SameHand, InCallback, appVars,
                  tsVars, cbVars
    <2> QED
      BY <2>1, RemoveFirst DEF GivenUp
  <1>8. CASE StopUninit
    BY <1>8, Still DEF StopUninit, InCallback, tsVars, cbVars
  <1> QED
    BY <1>1, <1>2, <1>3, <1>4, <1>5, <1>6, <1>7, <1>8 DEF AppStop

LEMMA NextData ==
  ASSUME TypeOK, DataInv, ThreadInv, ConstantsAssumption, [Next]_vars
  PROVE  DataInv' /\ (Received \/ GivenUp \/ Delivered)
  <1>1. CASE CallbackStep \/ \E t \in EventThreads : CallbackFill(t)
    BY <1>1, CallbackData
  <1>2. CASE UsbThread
    BY <1>2, Still DEF UsbThread, UsbCheck, UsbTimeout, InCallback, poolVars,
                       appVars, tsVars
  <1>3. CASE TsThread
    BY <1>3, TsThreadData
  <1>4. CASE AppStart
    BY <1>4, AppStartData
  <1>5. CASE ReadBegin \/ AppRead
    BY <1>5, AppReadData
  <1>6. CASE StopDisarm \/ AppStop
    BY <1>6, AppStopData
  <1>7. CASE \E t \in {"ts", "app"} : SpuriousWakeup(t)
    BY <1>7, Still DEF SpuriousWakeup, InCallback, poolVars, appVars, tsVars,
                       cbVars
  <1>8. CASE UNCHANGED vars
    BY <1>8, Still DEF vars, InCallback, poolVars, appVars, tsVars, cbVars
  <1> QED
    BY <1>1, <1>2, <1>3, <1>4, <1>5, <1>6, <1>7, <1>8 DEF Next
-----------------------------------------------------------------------------
(* The memory limit *)

\* While process_ts or read_ts_data is at work on the list the limit may be
\* exceeded only inside the critical section of process_ts.
LEMMA NextMemory ==
  ASSUME TypeOK, DataInv, ThreadInv, MemoryBound, DataInv', TypeOK',
         ConstantsAssumption, [Next]_vars
  PROVE  MemoryBound'
  <1>1. /\ tsListSize \in Int /\ SizeMax \in Nat /\ tsListSize' \in Int
    BY DEF TypeOK, ConstantsAssumption
  <1>2. CASE UNCHANGED <<tsListSize, muxAll>>
    BY <1>2 DEF MemoryBound
  <1>3. ASSUME muxAll # "ts", tsListAll # <<>>,
               tsListSize' = tsListSize - Head(tsListAll).size
        PROVE  MemoryBound'
    <2>1. tsListAll \in Seq(Node)
      BY DEF TypeOK
    <2>2. Head(tsListAll) \in Node
      BY <1>3, <2>1, HeadTail
    <2>3. Head(tsListAll).size \in Nat
      BY <2>2 DEF Node
    <2> QED
      BY <1>1, <1>3, <2>3 DEF MemoryBound
  <1>4. CASE CallbackStep \/ \E t \in EventThreads : CallbackFill(t)
    BY <1>2, <1>4 DEF CallbackStep, CallbackAppend, CallbackSignal, CallbackWild,
                      CallbackFill, poolVars
  <1>5. CASE UsbThread
    BY <1>2, <1>5 DEF UsbThread, UsbCheck, UsbTimeout, poolVars
  <1>6. CASE TsThread
    <2>1. CASE TsCheck \/ TsTake \/ TsWoken \/ TsHooks \/ TsSignal
      BY <1>2, <2>1 DEF TsCheck, TsTake, TsWoken, TsHooks, TsSignal, poolVars
    <2>2. CASE TsAppend
      BY <2>2 DEF TsAppend, MemoryBound
    <2>3. CASE TsDrop
      BY <2>3 DEF TsDrop, MemoryBound, ThreadInv
    <2>4. CASE TsUnlock
      <3>1. tsListAll = <<>> \/ ~(tsListSize > SizeMax)
        BY <2>4 DEF TsUnlock, OverLimit
      <3>2. tsListAll = <<>> => tsListSize = 0
        BY DEF DataInv, SizeInv
      <3>3. tsListSize <= SizeMax /\ tsListSize' = tsListSize
        BY <1>1, <2>4, <3>1, <3>2 DEF TsUnlock, poolVars
      <3> QED
        BY <3>3 DEF MemoryBound
    <2> QED
      BY <1>6, <2>1, <2>2, <2>3, <2>4 DEF TsThread
  <1>7. CASE AppStart
    <2>1. CASE StartSubmit \/ StartFails
      <3>1. muxAll' = muxAll /\ (tsListSize' = tsListSize \/ tsListSize' = 0)
        BY <2>1 DEF StartSubmit, StartFails, PoolInit
      <3> QED
        BY <1>1, <3>1 DEF MemoryBound
    <2>2. CASE StartUsbThread \/ StartTsThread
      BY <1>2, <2>2 DEF StartUsbThread, StartTsThread
    <2> QED
      BY <1>7, <2>1, <2>2 DEF AppStart
  <1>8. CASE ReadBegin \/ AppRead
    <2>1. CASE ReadBegin
      BY <1>2, <2>1 DEF ReadBegin, poolVars
    <2>2. CASE ReadLock \/ ReadWoken \/ ReadUnlock \/ ReadPart
      <3>1. tsListSize' = tsListSize
        BY <2>2 DEF ReadLock, ReadWoken, ReadUnlock, ReadPart, poolVars
      <3>2. muxAll # "ts"
        BY <2>2 DEF ReadLock, ReadWoken, ReadUnlock, ReadPart, ThreadInv
      <3> QED
        BY <3>1, <3>2 DEF MemoryBound
    <2>3. CASE ReadWhole
      <3>1. /\ tsListAll # <<>> /\ muxAll # "ts"
            /\ tsListSize' = tsListSize - Head(tsListAll).size
        BY <2>3 DEF ReadWhole, ThreadInv
      <3> QED
        BY <1>3, <3>1
    <2> QED
      BY <1>8, <2>1, <2>2, <2>3 DEF AppRead
  <1>9. CASE StopDisarm \/ AppStop
    <2>1. CASE StopClean
      <3>1. /\ tsListAll # <<>> /\ muxAll # "ts"
            /\ tsListSize' = tsListSize - Head(tsListAll).size
        BY <2>1 DEF StopClean, ThreadInv
      <3> QED
        BY <1>3, <3>1
    <2>2. CASE StopDisarm \/ StopCancel \/ StopWakeup \/ StopJoinUsb
               \/ StopJoinTs \/ StopRelease \/ StopUninit
      BY <1>2, <2>2 DEF StopDisarm, StopCancel, StopWakeup, StopJoinUsb,
                        StopJoinTs, StopRelease, StopUninit, poolVars
    <2> QED
      BY <1>9, <2>1, <2>2 DEF AppStop
  <1>10. CASE \E t \in {"ts", "app"} : SpuriousWakeup(t)
    BY <1>2, <1>10 DEF SpuriousWakeup, poolVars
  <1>11. CASE UNCHANGED vars
    BY <1>2, <1>11 DEF vars, poolVars
  <1> QED
    BY <1>4, <1>5, <1>6, <1>7, <1>8, <1>9, <1>10, <1>11 DEF Next

-----------------------------------------------------------------------------
(* The theorems *)

LEMMA InitInv ==
  ASSUME ConstantsAssumption, Init
  PROVE  IInv
  <1>1. TypeOK /\ ThreadInv
    BY InitTyped
  <1>2. /\ CallbackStart = 0 /\ TsListStart = 0 /\ HandStart = 0
        /\ ReadPosition = 0
    BY DEF Init, CallbackStart, TsListStart, HandStart, ReadPosition, InHand,
           InCallback, IdleCallback
  <1>3. ChainInv
    BY <1>2 DEF Init, ChainInv, ChainTo, Within, Untouched, InHand, InCallback,
                IdleCallback
  <1>4. SizeInv /\ MemoryBound
    BY DEF Init, SizeInv, MemoryBound, ConstantsAssumption
  <1>5. DeliveredInv /\ ParsedInv /\ ParsedBeforeRead
    BY <1>2 DEF Init, DeliveredInv, ParsedInv, ParsedBeforeRead, Within
  <1> QED
    BY <1>1, <1>3, <1>4, <1>5 DEF IInv

\* A step from a state of the invariant leads to one, and moves the stream on.
LEMMA NextInv ==
  ASSUME ConstantsAssumption, IInv, [Next]_vars
  PROVE  IInv' /\ (Received \/ GivenUp \/ Delivered)
  <1>1. TypeOK /\ ThreadInv /\ DataInv /\ MemoryBound
    BY DEF IInv, DataInv
  <1>2. TypeOK' /\ ThreadInv'
    BY <1>1, NextTyped
  <1>3. DataInv' /\ (Received \/ GivenUp \/ Delivered)
    BY <1>1, NextData
  <1>4. MemoryBound'
    BY <1>1, <1>2, <1>3, NextMemory
  <1> QED
    BY <1>2, <1>3, <1>4 DEF IInv, DataInv

\* In every execution of the pipeline (process_usb, process_ts, read_ts_data,
\* start_ts and stop_ts interleaved in any way) the lists are chained, counted
\* and bounded, and what was read had been parsed.
THEOREM Invariant == Spec => []IInv
  <1>1. Init => IInv
    BY ConstantsAssumption, InitInv
  <1>2. IInv /\ [Next]_vars => IInv'
    BY ConstantsAssumption, NextInv
  <1> QED
    BY <1>1, <1>2, PTL DEF Spec

\* Two functions on 0 .. n that begin with the same value and add the same to the
\* one before are the same: there is no first place where they differ.
LEMMA SameSums ==
  ASSUME NEW n \in Nat, NEW add, NEW f, NEW g,
         f = [i \in 0 .. n |-> IF i = 0 THEN 0 ELSE f[i - 1] + add[i]],
         g = [i \in 0 .. n |-> IF i = 0 THEN 0 ELSE g[i - 1] + add[i]]
  PROVE  f = g
  <1> DEFINE Less   == {ss \in Nat \X Nat : ss[1] < ss[2]}
             Differ == {i \in 0 .. n : f[i] # g[i]}
  <1>1. Differ = {}
    <2> SUFFICES ASSUME Differ # {} PROVE FALSE
      OBVIOUS
    <2>1. Differ \subseteq Nat
      OBVIOUS
    <2>2. IsWellFoundedOn(Less, Nat)
      BY NatLessThanWellFounded DEF OpToRel
    <2>3. PICK i \in Differ : \A j \in Differ : ~ (<<j, i>> \in Less)
      <3> HIDE DEF Less, Differ
      <3> QED
        BY <2>1, <2>2, WFMin
    <2>4. i \in 0 .. n /\ f[i] # g[i]
      OBVIOUS
    <2>5. CASE i = 0
      <3>1. f[0] = 0 /\ g[0] = 0
        OBVIOUS
      <3> QED
        BY <2>4, <2>5, <3>1
    <2>6. CASE i # 0
      <3>1. i - 1 \in 0 .. n /\ i - 1 < i
        BY <2>4, <2>6
      <3>2. i - 1 \notin Differ
        <4>1. <<i - 1, i>> \in Less
          BY <2>4, <3>1
        <4> HIDE DEF Less, Differ
        <4> QED
          BY <2>3, <4>1
      <3>3. f[i - 1] = g[i - 1]
        BY <3>1, <3>2
      <3>4. f[i] = f[i - 1] + add[i] /\ g[i] = g[i - 1] + add[i]
        BY <2>4, <2>6
      <3> QED
        BY <2>4, <3>3, <3>4
    <2> QED
      BY <2>5, <2>6
  <1>2. \A i \in 0 .. n : f[i] = g[i]
    BY <1>1
  <1>3. f = [i \in 0 .. n |-> f[i]] /\ g = [i \in 0 .. n |-> g[i]]
    <2>1. ASSUME NEW h, h = [i \in 0 .. n |-> IF i = 0 THEN 0 ELSE h[i - 1] + add[i]]
          PROVE  h = [i \in 0 .. n |-> h[i]]
      BY <2>1, Zenon
    <2> QED
      BY <2>1
  <1> QED
    BY <1>2, <1>3

\* The sizes of adjacent nodes add up to the distance of the ends of their chain.
LEMMA ChainTotal ==
  ASSUME NEW s \in Seq(Node), s # <<>>, NEW p \in Nat, ChainTo(s, p)
  PROVE  TotalSize(s) = p - s[1].pos
  <1> DEFINE Adds(h) == [i \in 0 .. Len(s) |-> IF i = 0 THEN 0
                                                        ELSE h[i - 1] + s[i].size]
             reached == [i \in 0 .. Len(s) |-> IF i = 0 THEN 0
                                                        ELSE EndOf(s[i]) - s[1].pos]
             total   == CHOOSE h : h = Adds(h)
  <1>1. /\ Len(s) \in Nat /\ Len(s) >= 1
        /\ \A i \in 1 .. Len(s) : s[i] \in Node
    OBVIOUS
  <1>2. \A i \in 1 .. Len(s) : /\ s[i].pos \in Nat /\ s[i].size \in Nat
                               /\ EndOf(s[i]) = s[i].pos + s[i].size
    BY <1>1, NodeTyped DEF EndOf
  <1>3. \A i \in 1 .. Len(s) : i # 1 => EndOf(s[i - 1]) = s[i].pos
    <2> SUFFICES ASSUME NEW i \in 1 .. Len(s), i # 1
                 PROVE  EndOf(s[i - 1]) = s[i].pos
      OBVIOUS
    <2>1. i - 1 \in 1 .. Len(s) /\ i - 1 # Len(s) /\ (i - 1) + 1 = i
      BY <1>1
    <2> QED
      BY <2>1 DEF ChainTo
  <1>4. reached = Adds(reached)
    <2> SUFFICES ASSUME NEW i \in 1 .. Len(s)
                 PROVE  EndOf(s[i]) - s[1].pos = reached[i - 1] + s[i].size
      OBVIOUS
    <2>1. CASE i = 1
      <3>1. reached[i - 1] = 0
        BY <1>1, <2>1
      <3> QED
        BY <1>1, <1>2, <2>1, <3>1
    <2>2. CASE i # 1
      <3>1. i - 1 \in 1 .. Len(s)
        BY <1>1, <2>2
      <3>2. reached[i - 1] = EndOf(s[i - 1]) - s[1].pos
        BY <3>1
      <3>3. EndOf(s[i - 1]) = s[i].pos /\ 1 \in 1 .. Len(s)
        BY <1>1, <1>3, <2>2
      <3> HIDE DEF reached
      <3> QED
        BY <1>2, <3>2, <3>3
    <2> QED
      BY <2>1, <2>2
  <1>5. total = Adds(total)
    <2> HIDE DEF Adds, reached
    <2> QED
      BY <1>4
  <1>6. total = reached
    <2> DEFINE add == [i \in 1 .. Len(s) |-> s[i].size]
    <2>1. ASSUME NEW h, h = Adds(h)
          PROVE  h = [i \in 0 .. Len(s) |-> IF i = 0 THEN 0 ELSE h[i - 1] + add[i]]
      <3>1. \A i \in 0 .. Len(s) :
              (IF i = 0 THEN 0 ELSE h[i - 1] + s[i].size)
                = (IF i = 0 THEN 0 ELSE h[i - 1] + add[i])
        BY <1>1
      <3> QED
        BY <2>1, <3>1
    <2> HIDE DEF Adds, reached, total, add
    <2> QED
      BY <1>1, <1>4, <1>5, <2>1, SameSums
  <1>7. TotalSize(s) = total[Len(s)]
    BY DEF TotalSize
  <1>8. EndOf(s[Len(s)]) = p
    BY <1>1 DEF ChainTo
  <1>9. reached[Len(s)] = EndOf(s[Len(s)]) - s[1].pos
    BY <1>1
  <1> HIDE DEF total, reached
  <1> QED
    BY <1>6, <1>7, <1>8, <1>9

LEMMA EmptyTotal == TotalSize(<<>>) = 0
  <1> DEFINE Adds(h) == [i \in 0 .. Len(<<>>) |-> IF i = 0 THEN 0
                                             ELSE h[i - 1] + <<>>[i].size]
             total   == CHOOSE h : h = Adds(h)
             zero    == [i \in 0 .. Len(<<>>) |-> 0]
  <1>1. zero = Adds(zero)
    BY Len(<<>>) = 0
  <1>2. total = Adds(total)
    <2> HIDE DEF Adds, zero
    <2> QED
      BY <1>1
  <1>3. total[0] = 0
    <2> HIDE DEF total
    <2> QED
      BY <1>2
  <1> QED
    BY <1>3 DEF TotalSize

\* The byte count of ts_list_all is the sum of the sizes of its nodes.
THEOREM SizeHolds == Spec => []SizeIsSum
  <1>1. IInv => SizeIsSum
    <2> SUFFICES ASSUME IInv PROVE SizeIsSum
      OBVIOUS
    <2>1. tsListAll \in Seq(Node) /\ HandStart \in Nat
      BY Positions DEF IInv, TypeOK
    <2>2. CASE tsListAll = <<>>
      BY <2>2, EmptyTotal DEF IInv, SizeInv, SizeIsSum
    <2>3. CASE tsListAll # <<>>
      <3>1. TotalSize(tsListAll) = HandStart - tsListAll[1].pos
        BY <2>1, <2>3, ChainTotal DEF IInv, ChainInv
      <3> QED
        BY <2>3, <3>1 DEF IInv, SizeInv, SizeIsSum
    <2> QED
      BY <2>2, <2>3
  <1> QED
    BY <1>1, Invariant, PTL

\* process_ts never releases mux_all with more than ts_list_size_max on the list.
THEOREM MemoryBounded == Spec => []MemoryBound
  <1>1. IInv => MemoryBound
    BY DEF IInv
  <1> QED
    BY <1>1, Invariant, PTL

\* read_ts_data returns no packet the PSI hooks of process_ts have not seen.
THEOREM ParsedFirst == Spec => []ParsedBeforeRead
  <1>1. IInv => ParsedBeforeRead
    BY DEF IInv
  <1> QED
    BY <1>1, Invariant, PTL

\* read_ts_data returns the data in order and once, over restarts too.
THEOREM DeliveredInOrder == Spec => InOrder
  <1>1. IInv /\ [Next]_vars => (out' # out => out'.from >= out.to)
    <2> SUFFICES ASSUME IInv, [Next]_vars, out' # out
                 PROVE  out'.from >= out.to
      OBVIOUS
    <2>1. Delivered
      BY ConstantsAssumption, NextInv DEF Received, GivenUp
    <2>2. out.to <= ReadPosition /\ out.to \in Nat
      BY DEF IInv, DeliveredInv, TypeOK
    <2>3. ReadPosition \in Nat
      BY Positions DEF IInv
    <2> QED
      BY <2>1, <2>2, <2>3 DEF Delivered
  <1>2. IInv /\ [Next]_vars => [out' # out => out'.from >= out.to]_vars
    BY <1>1
  <1> QED
    BY <1>2, Invariant, PTL DEF Spec, InOrder

\* Data is given up only by process_ts over the limit of ts_list_all, by
\* stop_ts, and by start_ts with the pool of a session that was stopped.
THEOREM OnlyTheLimitLoses == Spec => NoSpuriousLoss
  <1>1. ASSUME IInv, [Next]_vars, ReadPosition' > ReadPosition, out' = out,
               appPc # "clean", initialized
        PROVE  OverLimit
    <2>1. Received \/ GivenUp \/ Delivered
      BY <1>1, ConstantsAssumption, NextInv
    <2>2. ReadPosition \in Nat /\ out.to <= ReadPosition /\ out.to \in Nat
      BY <1>1, Positions DEF IInv, DeliveredInv, TypeOK
    <2>3. ~Delivered
      <3> SUFFICES ASSUME Delivered
                   PROVE  FALSE
        OBVIOUS
      <3>1. out.to = ReadPosition'
        BY <1>1 DEF Delivered
      <3> QED
        BY <1>1, <2>2, <3>1
    <2>4. ReadPosition' # ReadPosition
      BY <1>1, <2>2
    <2> QED
      BY <1>1, <2>1, <2>3, <2>4 DEF Received, GivenUp
  <1>2. IInv /\ [Next]_vars
          => [ReadPosition' > ReadPosition /\ out' = out /\ appPc # "clean"
              /\ initialized => OverLimit]_vars
    BY <1>1
  <1> QED
    BY <1>2, Invariant, PTL DEF Spec, NoSpuriousLoss

\* The next packet to read is one of those received, or the next one to come.
ReadInRange == ReadPosition \in Nat /\ rcvd \in Nat /\ ReadPosition <= rcvd

LEMMA InvReadInRange == IInv => ReadInRange
  <1> SUFFICES ASSUME IInv
               PROVE  ReadInRange
    OBVIOUS
  <1>1. rcvd \in Nat /\ TypeOK /\ ChainInv
    BY DEF IInv, TypeOK
  <1> QED
    BY <1>1, Positions DEF ReadInRange

LEMMA NextReadInRange == IInv' => ReadInRange'
  BY InvReadInRange, PTL

\* A session begins with nothing to read: the pool is new, nobody holds a node
\* of the session before, and what is read later was received later.
FreshInv ==
  /\ appPc = "idle" /\ initialized => ReadPosition = rcvd
  /\ sessionStart <= ReadPosition

LEMMA NextFresh ==
  ASSUME "io" \notin EventThreads, "release" \notin Faults,
         IInv, LifeInv, FreshInv, [Next]_vars
  PROVE  FreshInv'
  <1> USE DEF poolVars, appVars, tsVars, cbVars
  <1>1. /\ ReadPosition \in Nat /\ sessionStart \in Nat
        /\ ReadPosition' \in Nat /\ ReadPosition <= ReadPosition'
    <2>1. IInv' /\ (Received \/ GivenUp \/ Delivered)
      BY ConstantsAssumption, NextInv
    <2>2. ReadPosition \in Nat /\ sessionStart \in Nat
      BY Positions DEF IInv, TypeOK
    <2>3. ReadPosition' \in Nat
      BY <2>1, NextReadInRange DEF ReadInRange
    <2> QED
      BY <2>1, <2>2, <2>3 DEF Received, GivenUp, Delivered
  <1>2. CASE StartSubmit
    <2>1. appPc = "idle" /\ appPc' = "start_usb" /\ sessionStart' = rcvd
      BY <1>2 DEF StartSubmit
    <2>2. ~InCallback
      BY <2>1 DEF LifeInv, InCallback
    <2>3. ReadPosition' = rcvd
      BY <1>2, <2>1, <2>2, StartSubmitData DEF IInv, DataInv, CallbackStart, FreshInv
    <2> QED
      BY <1>1, <2>1, <2>3 DEF FreshInv
  <1>4. CASE StartFails
    <2>1. appPc = "idle" /\ sessionStart' = sessionStart /\ rcvd' = rcvd
      BY <1>4 DEF StartFails
    <2>2. ~InCallback
      BY <2>1 DEF LifeInv, InCallback
    <2>3. initialized' => ReadPosition' = rcvd
      BY <1>4, <2>1, <2>2, StartSubmitData DEF IInv, DataInv, CallbackStart, FreshInv
    <2> QED
      BY <1>1, <2>1, <2>3 DEF FreshInv
  <1>3. CASE ~StartSubmit /\ ~StartFails
    <2>1. sessionStart' = sessionStart
      BY <1>3 DEF Next, vars, CallbackFill, CallbackStep, CallbackAppend,
             CallbackSignal, CallbackWild, UsbThread, UsbCheck, UsbTimeout,
             TsThread, TsCheck, TsTake, TsWoken, TsHooks, TsAppend, TsDrop,
             TsUnlock, TsSignal, AppStart, StartUsbThread, StartTsThread,
             ReadBegin, AppRead, ReadLock, ReadWoken, ReadWhole, ReadPart,
             ReadUnlock, StopDisarm, AppStop, StopCancel, StopWakeup,
             StopJoinUsb, StopJoinTs, StopRelease, StopClean, StopUninit,
             SpuriousWakeup
    <2>2. \/ appPc' # "idle"
          \/ initialized' = FALSE
          \/ appPc' = appPc /\ initialized' = initialized
      BY <1>3 DEF Next, vars, CallbackFill, CallbackStep, CallbackAppend,
             CallbackSignal, CallbackWild, UsbThread, UsbCheck, UsbTimeout,
             TsThread, TsCheck, TsTake, TsWoken, TsHooks, TsAppend, TsDrop,
             TsUnlock, TsSignal, AppStart, StartUsbThread, StartTsThread,
             ReadBegin, AppRead, ReadLock, ReadWoken, ReadWhole, ReadPart,
             ReadUnlock, StopDisarm, AppStop, StopCancel, StopWakeup,
             StopJoinUsb, StopJoinTs, StopRelease, StopClean, StopUninit,
             SpuriousWakeup
    <2>3. appPc = "idle" => rcvd' = rcvd
      <3>1. CASE \E t \in EventThreads : CallbackFill(t)
        <4>1. usbPc = "events"
          BY <3>1, ConstantsAssumption DEF CallbackFill
        <4> QED
          BY <4>1 DEF LifeInv
      <3>2. CASE ~\E t \in EventThreads : CallbackFill(t)
        BY <3>2 DEF Next, vars, CallbackStep, CallbackAppend,
             CallbackSignal, CallbackWild, UsbThread, UsbCheck, UsbTimeout,
             TsThread, TsCheck, TsTake, TsWoken, TsHooks, TsAppend, TsDrop,
             TsUnlock, TsSignal, AppStart, StartSubmit, StartFails, StartUsbThread,
             StartTsThread, ReadBegin, AppRead, ReadLock, ReadWoken, ReadWhole,
             ReadPart, ReadUnlock, StopDisarm, AppStop, StopCancel, StopWakeup,
             StopJoinUsb, StopJoinTs, StopRelease, StopClean, StopUninit,
             SpuriousWakeup
      <3> QED
        BY <3>1, <3>2
    <2>4. appPc' = "idle" /\ initialized' => ReadPosition' = rcvd'
      <3>1. SUFFICES ASSUME appPc' = "idle", initialized' PROVE ReadPosition' = rcvd'
        OBVIOUS
      <3>2. appPc = "idle" /\ initialized /\ rcvd' = rcvd
        BY <2>2, <2>3, <3>1
      <3>3. ReadPosition = rcvd /\ rcvd \in Nat
        BY <3>2 DEF FreshInv, IInv, TypeOK
      <3>4. ReadPosition' <= rcvd'
        BY ConstantsAssumption, NextInv, NextReadInRange DEF ReadInRange
      <3> QED
        BY <1>1, <3>2, <3>3, <3>4
    <2> QED
      BY <1>1, <2>1, <2>4 DEF FreshInv
  <1> QED
    BY <1>2, <1>3, <1>4

\* When process_usb handles all events and libusb takes the transfers back in
\* stop_ts, read_ts_data never returns data from before the last start_ts.
THEOREM SessionsAreFresh ==
  ASSUME "io" \notin EventThreads, "release" \notin Faults
  PROVE  Spec => FreshSession
  <1>1. Init => IInv /\ LifeInv /\ FreshInv
    <2>1. Init => FreshInv
      BY DEF Init, FreshInv, ReadPosition, HandStart, TsListStart,
             CallbackStart, InHand, InCallback, IdleCallback
    <2> QED
      BY <2>1, ConstantsAssumption, InitInv, InitLife
  <1>2. (IInv /\ LifeInv /\ FreshInv) /\ [Next]_vars
          => (IInv /\ LifeInv /\ FreshInv)'
    BY ConstantsAssumption, NextInv, NextLife, NextFresh DEF IInv
  <1>3. IInv /\ FreshInv /\ [Next]_vars
          => [out' # out => out'.from >= sessionStart]_vars
    <2> SUFFICES ASSUME IInv, FreshInv, [Next]_vars, out' # out
                 PROVE  out'.from >= sessionStart
      OBVIOUS
    <2>1. Delivered
      BY ConstantsAssumption, NextInv DEF Received, GivenUp
    <2>2. ReadPosition \in Nat /\ sessionStart \in Nat
      BY Positions DEF IInv, TypeOK
    <2> QED
      BY <2>1, <2>2 DEF Delivered, FreshInv
  <1> QED
    BY <1>1, <1>2, <1>3, PTL DEF Spec, FreshSession

\* The pipeline implements the ordered lossy stream of module TsStream.
THEOREM Implements == Spec => ImplementsStream
  <1>1. Init => Stream!StreamInit
    <2> SUFFICES ASSUME Init
                 PROVE  Stream!StreamInit
      OBVIOUS
    <2>1. ReadPosition = 0
      BY DEF Init, CallbackStart, TsListStart, HandStart, ReadPosition, InHand,
             InCallback, IdleCallback
    <2> QED
      BY <2>1 DEF Init, Stream!StreamInit
  <1>2. IInv => ReadInRange
    BY InvReadInRange
  <1>3. IInv' => ReadInRange'
    BY NextReadInRange
  <1>4. IInv /\ [Next]_vars => [Stream!StreamNext]_Stream!streamVars
    <2> SUFFICES ASSUME IInv, [Next]_vars
                 PROVE  Stream!StreamNext
      OBVIOUS
    <2>1. IInv' /\ (Received \/ GivenUp \/ Delivered)
      BY ConstantsAssumption, NextInv
    <2>2. /\ ReadPosition \in Nat /\ rcvd \in Nat
          /\ ReadPosition' \in Nat /\ ReadPosition' <= rcvd' /\ rcvd' \in Nat
      BY <1>2, <1>3, <2>1 DEF ReadInRange
    <2>3. CASE Received
      BY <2>3 DEF Received, Stream!StreamNext, Stream!Receive
    <2>4. CASE GivenUp
      BY <2>2, <2>4 DEF GivenUp, Stream!StreamNext, Stream!Skip
    <2>5. CASE Delivered
      BY <2>2, <2>5 DEF Delivered, Stream!StreamNext, Stream!Deliver
    <2> QED
      BY <2>1, <2>3, <2>4, <2>5
  <1> QED
    BY <1>1, <1>4, Invariant, PTL DEF Spec, ImplementsStream, Stream!StreamSpec
=============================================================================
