--------------------------- MODULE UsbCommandProofs ---------------------------
(***************************************************************************)
(* Proofs about UsbCommand: io_mux and the order of the replies, how many  *)
(* replies are owed, and that joker_io implements CommandChannel.          *)
(***************************************************************************)
EXTENDS UsbCommand, SequenceTheorems, TLAPS

\* The youngest reply that was not taken is still in the card.
LastInv ==
  \/ answered = asked
  \/ \E i \in DOMAIN ep1 : ep1[i].n = asked
  \/ \E j \in DOMAIN ep2 : ep2[j].n = asked

\* Until joker_open has made its reads nobody sends a command, and each read
\* takes a reply unless the card was still at work or the read failed.
CleanupInv ==
  /\ cleanups < CleanupReads => AllIdle /\ start.owed = asked - answered
  /\ start.owed <= start.left
  /\ ~start.missed => start.owed = 0 \/ start.owed <= start.left - cleanups

UsbInv ==
  UsbTypeOK /\ MuxInv /\ OrderInv /\ OwedInv /\ LastInv /\ CleanupInv /\ SkewBounded

USE UsbAssumption DEF UsbAssumption

LEMMA CmdTypes == NoCmd \in Command /\ NoReply.n = 0 /\ NoReply.len = 0
<1>1. {} \in Values
  BY Zenon DEF Values
<1>2. NoCmd \in Command
  <2> HIDE DEF Values
  <2> QED BY <1>1 DEF NoCmd, Command, Ops
<1> QED BY <1>2 DEF NoReply

\* What Append and Tail do, in terms of domains.
LEMMA Appended ==
  ASSUME NEW S, NEW s \in Seq(S), NEW e \in S
  PROVE  /\ Append(s, e) \in Seq(S) /\ Len(s) \in Nat /\ Len(s) + 1 \notin DOMAIN s
         /\ DOMAIN Append(s, e) = DOMAIN s \cup {Len(s) + 1}
         /\ Append(s, e)[Len(s) + 1] = e
         /\ DOMAIN s = 1 .. Len(s)
         /\ \A i \in DOMAIN s : Append(s, e)[i] = s[i] /\ s[i] \in S
<1>1. Append(s, e) \in Seq(S) /\ Len(Append(s, e)) = Len(s) + 1
      /\ \A i \in 1 .. Len(s) : Append(s, e)[i] = s[i]
  BY AppendProperties
<1>2. Append(s, e)[Len(s) + 1] = e
  BY AppendProperties
<1>3. DOMAIN Append(s, e) = 1 .. Len(Append(s, e)) /\ DOMAIN s = 1 .. Len(s) /\ Len(s) \in Nat
  BY <1>1, LenProperties
<1> QED BY <1>1, <1>2, <1>3, ElementOfSeq

LEMMA Shortened ==
  ASSUME NEW S, NEW s \in Seq(S), s # <<>>
  PROVE  /\ Tail(s) \in Seq(S) /\ Head(s) = s[1] /\ s[1] \in S /\ 1 \in DOMAIN s
         /\ DOMAIN s \subseteq Nat /\ DOMAIN Tail(s) \subseteq Nat
         /\ \A i \in DOMAIN s : i >= 1
         /\ \A i \in DOMAIN Tail(s) : /\ i + 1 \in DOMAIN s /\ Tail(s)[i] = s[i + 1]
                                     /\ i + 1 > 1
         /\ \A i \in DOMAIN s : i = 1 \/ (i - 1 \in DOMAIN Tail(s) /\ Tail(s)[i - 1] = s[i])
<1>1. /\ Head(s) \in S /\ Tail(s) \in Seq(S) /\ Len(Tail(s)) = Len(s) - 1
      /\ \A i \in 1 .. Len(Tail(s)) : Tail(s)[i] = s[i + 1]
  BY HeadTailProperties
<1>2. DOMAIN Tail(s) = 1 .. Len(Tail(s)) /\ DOMAIN s = 1 .. Len(s) /\ Len(s) \in Nat \ {0}
  BY <1>1, LenProperties, EmptySeq
<1>3. Head(s) = s[1]
  OBVIOUS
<1> QED BY <1>1, <1>2, <1>3

LEMMA InitInv == UsbInit => UsbInv
<1> SUFFICES ASSUME UsbInit PROVE UsbInv
    OBVIOUS
<1> USE DEF UsbInit
<1>1. UsbTypeOK
  BY CmdTypes DEF UsbTypeOK, NoReturn
<1>2. MuxInv /\ OrderInv /\ OwedInv /\ LastInv /\ CleanupInv
  BY DEF MuxInv, OrderInv, OwedInv, LastInv, CleanupInv, Waiting, AllIdle
<1>3. SkewBounded
  BY DEF SkewBounded, NoReturn
<1> QED BY <1>1, <1>2, <1>3 DEF UsbInv

-----------------------------------------------------------------------------
(* One lemma per action *)

LEMMA CallInv ==
  ASSUME UsbInv, NEW t \in Threads, NEW c \in Command, Call(t, c)
  PROVE  UsbInv'
<1> USE DEF UsbInv, Call
<1>1. UsbTypeOK'
  BY DEF UsbTypeOK
<1>2. (\A u \in Threads : ioPc'[u] = "in" <=> ioPc[u] = "in") /\ (Waiting' <=> Waiting)
  BY DEF UsbTypeOK, Waiting
<1>3. MuxInv' /\ OrderInv' /\ OwedInv' /\ LastInv'
  BY <1>2 DEF MuxInv, OrderInv, OwedInv, LastInv
<1>4. CleanupInv'
  BY DEF CleanupInv
<1>5. SkewBounded'
  BY DEF SkewBounded, UsbTypeOK, WantsReply
<1> QED BY <1>1, <1>3, <1>4, <1>5

LEMMA ConsumeInv ==
  ASSUME UsbInv, NEW t \in Threads, Consume(t)
  PROVE  UsbInv'
<1> USE DEF UsbInv, Consume
<1>1. UsbTypeOK'
  BY CmdTypes DEF UsbTypeOK, NoReturn
<1>2. (\A u \in Threads : ioPc'[u] = "in" <=> ioPc[u] = "in") /\ (Waiting' <=> Waiting)
  BY DEF UsbTypeOK, Waiting
<1>3. MuxInv' /\ OrderInv' /\ OwedInv' /\ LastInv'
  BY <1>2 DEF MuxInv, OrderInv, OwedInv, LastInv
<1>4. CleanupInv'
  BY DEF CleanupInv, AllIdle, UsbTypeOK
<1>5. SkewBounded'
  BY DEF SkewBounded, UsbTypeOK, WantsReply
<1> QED BY <1>1, <1>3, <1>4, <1>5

\* A command with a reply gets the next number, in endpoint 2.
LEMMA DeliverInv ==
  ASSUME UsbInv, NEW t \in Threads, Deliver(t), UNCHANGED <<cmd, ep1, answered>>
  PROVE  /\ asked' \in Nat /\ ep2' \in Seq([cmd : Command, n : Nat])
         /\ OrderInv' /\ LastInv'
         /\ asked' = asked + (IF WantsReply(t) THEN 1 ELSE 0)
<1> DEFINE e == [cmd |-> cmd[t], n |-> IF WantsReply(t) THEN asked + 1 ELSE 0]
<1> USE DEF UsbInv
<1>1. e \in [cmd : Command, n : Nat] /\ asked \in Nat /\ answered \in Nat
      /\ ep2 \in Seq([cmd : Command, n : Nat]) /\ ep1 \in Seq(Reply)
  BY DEF UsbTypeOK
<1>2. ep2' = Append(ep2, e) /\ asked' = asked + (IF WantsReply(t) THEN 1 ELSE 0)
  BY <1>1 DEF Deliver, Numbered
<1> HIDE DEF e
<1>3. /\ ep2' \in Seq([cmd : Command, n : Nat])
      /\ DOMAIN ep2' = DOMAIN ep2 \cup {Len(ep2) + 1} /\ DOMAIN ep2 = 1 .. Len(ep2)
      /\ Len(ep2) \in Nat /\ ep2'[Len(ep2) + 1] = e
      /\ \A j \in DOMAIN ep2 : ep2'[j] = ep2[j] /\ ep2[j].n \in Nat
  <2> DEFINE S == [cmd : Command, n : Nat]
  <2>1. \A q \in S : q.n \in Nat
    OBVIOUS
  <2>2. e \in S /\ ep2 \in Seq(S)
    BY <1>1
  <2> HIDE DEF S
  <2>3. /\ ep2' \in Seq(S)
        /\ DOMAIN ep2' = DOMAIN ep2 \cup {Len(ep2) + 1} /\ DOMAIN ep2 = 1 .. Len(ep2)
        /\ Len(ep2) \in Nat /\ ep2'[Len(ep2) + 1] = e
        /\ \A j \in DOMAIN ep2 : ep2'[j] = ep2[j] /\ ep2[j] \in S
    BY <1>2, <2>2, Appended
  <2> QED BY <2>1, <2>3 DEF S
<1>4. \A i \in DOMAIN ep1 : ep1[i].n \in Nat /\ ep1[i].n <= asked
  BY <1>1 DEF OrderInv
<1>5. e.n = IF WantsReply(t) THEN asked + 1 ELSE 0
  BY DEF e
<1>6. OrderInv'
  <2>1. answered' <= asked' /\ (\A i \in DOMAIN ep1 : ep1[i].n \in answered + 1 .. asked')
    BY <1>1, <1>2, <1>4 DEF OrderInv
  <2>2. \A j \in DOMAIN ep2' : ep2'[j].n = 0 \/ ep2'[j].n \in answered + 1 .. asked'
    BY <1>1, <1>2, <1>3, <1>5 DEF OrderInv
  <2>3. \A i, j \in DOMAIN ep2' : i < j /\ ep2'[j].n # 0 => ep2'[i].n < ep2'[j].n
    <3> SUFFICES ASSUME NEW i \in DOMAIN ep2', NEW j \in DOMAIN ep2',
                        i < j, ep2'[j].n # 0
                 PROVE  ep2'[i].n < ep2'[j].n
        OBVIOUS
    <3>1. i \in DOMAIN ep2
      BY <1>3
    <3>2. CASE j = Len(ep2) + 1
      BY <3>1, <3>2, <1>1, <1>3, <1>5 DEF OrderInv
    <3>3. CASE j \in DOMAIN ep2
      BY <3>1, <3>3, <1>3 DEF OrderInv
    <3> QED BY <3>2, <3>3, <1>3
  <2>4. \A i \in DOMAIN ep1, j \in DOMAIN ep2' : ep2'[j].n # 0 => ep1[i].n < ep2'[j].n
    BY <1>1, <1>3, <1>4, <1>5 DEF OrderInv
  <2> QED BY <2>1, <2>2, <2>3, <2>4 DEF OrderInv
<1>7. LastInv'
  BY <1>1, <1>2, <1>3, <1>5 DEF LastInv
<1> QED BY <1>1, <1>2, <1>6, <1>7, <1>3

\* joker_io keeps the invariant on each of its paths.
LEMMA IoReturnPc ==
  ASSUME UsbInv, NEW t \in Threads, NEW ok \in BOOLEAN,
         NEW r \in Reply \cup {NoReply}, IoReturn(t, ok, r), asked' \in Nat,
         mux \in {t, NoThread}
  PROVE  /\ mux' \in Threads \cup {NoThread}
         /\ ioPc' \in [Threads -> {"idle", "lock", "in", "done"}]
         /\ ret' \in [Threads -> [ok : BOOLEAN, n : Nat, reply : Reply \cup {NoReply}]]
         /\ MuxInv' /\ ~Waiting' /\ \A u \in Threads \ {t} : ret'[u] = ret[u] /\ ioPc'[u] = ioPc[u]
         /\ ret'[t] = [ok |-> ok, n |-> asked', reply |-> r]
<1> USE DEF UsbInv, IoReturn
<1>1. /\ mux' \in Threads \cup {NoThread}
      /\ ioPc' \in [Threads -> {"idle", "lock", "in", "done"}]
      /\ ret'[t] = [ok |-> ok, n |-> asked', reply |-> r]
      /\ \A u \in Threads \ {t} : ret'[u] = ret[u] /\ ioPc'[u] = ioPc[u]
  BY DEF UsbTypeOK
<1>2. ret' \in [Threads -> [ok : BOOLEAN, n : Nat, reply : Reply \cup {NoReply}]]
  BY DEF UsbTypeOK
<1>3. MuxInv' /\ ~Waiting'
  BY <1>1 DEF UsbTypeOK, MuxInv, Waiting
<1> QED BY <1>1, <1>2, <1>3

LEMMA IoOutInv ==
  ASSUME UsbInv, NEW t \in Threads, IoOut(t)
  PROVE  UsbInv'
<1> USE DEF UsbInv
<1>1. cleanups = CleanupReads /\ ~Waiting
  BY DEF IoOut, CleanupInv, AllIdle, UsbTypeOK, MuxInv, Waiting
<1>2. /\ asked' \in Nat /\ ep2' \in Seq([cmd : Command, n : Nat]) /\ OrderInv' /\ LastInv'
      /\ asked' = asked + (IF WantsReply(t) THEN 1 ELSE 0)
  BY DeliverInv DEF IoOut
<1>3. CASE WantsReply(t)
  <2>1. UsbTypeOK'
    BY <1>2, <1>3 DEF UsbTypeOK, IoOut
  <2>2. MuxInv' /\ Waiting'
    BY <1>3 DEF UsbTypeOK, IoOut, MuxInv, Waiting
  <2>3. OwedInv'
    BY <1>1, <1>2, <1>3, <2>2 DEF OwedInv, IoOut, UsbTypeOK
  <2>4. CleanupInv' /\ SkewBounded'
    <3>1. UNCHANGED <<ret, cmd, failed, start, cleanups>> /\ ioPc' = [ioPc EXCEPT ![t] = "in"]
      BY <1>3 DEF IoOut
    <3>2. CleanupInv'
      BY <1>1, <3>1 DEF CleanupInv, UsbTypeOK
    <3>3. SkewBounded'
      BY <3>1 DEF SkewBounded, UsbTypeOK, WantsReply
    <3> QED BY <3>2, <3>3
  <2> QED BY <1>2, <2>1, <2>2, <2>3, <2>4
<1>4. CASE ~WantsReply(t)
  <2>1. IoReturn(t, TRUE, NoReply)
    BY <1>4 DEF IoOut
  <2>2. /\ mux' \in Threads \cup {NoThread} /\ MuxInv' /\ ~Waiting'
        /\ ioPc' \in [Threads -> {"idle", "lock", "in", "done"}]
        /\ ret' \in [Threads -> [ok : BOOLEAN, n : Nat, reply : Reply \cup {NoReply}]]
        /\ \A u \in Threads \ {t} : ret'[u] = ret[u] /\ ioPc'[u] = ioPc[u]
    BY <1>2, <2>1, IoReturnPc DEF IoOut
  <2>3. UsbTypeOK'
    BY <1>2, <2>2 DEF UsbTypeOK, IoOut
  <2>4. OwedInv'
    BY <1>1, <1>2, <1>4, <2>2 DEF OwedInv, IoOut, UsbTypeOK
  <2>5. CleanupInv' /\ SkewBounded'
    <3>1. UNCHANGED <<cmd, failed, start, cleanups>>
      BY DEF IoOut
    <3>2. CleanupInv'
      BY <1>1, <3>1 DEF CleanupInv, UsbTypeOK
    <3>3. SkewBounded'
      BY <1>4, <2>2, <3>1 DEF SkewBounded, UsbTypeOK, WantsReply
    <3> QED BY <3>2, <3>3
  <2> QED BY <1>2, <2>2, <2>3, <2>4, <2>5
<1> QED BY <1>3, <1>4

LEMMA IoOutFailsInv ==
  ASSUME UsbInv, NEW t \in Threads, IoOutFails(t)
  PROVE  UsbInv'
<1> USE DEF UsbInv
<1>1. cleanups = CleanupReads /\ ~Waiting
  BY DEF IoOutFails, CleanupInv, AllIdle, UsbTypeOK, MuxInv, Waiting
<1>2. /\ asked' \in Nat /\ ep2' \in Seq([cmd : Command, n : Nat]) /\ OrderInv' /\ LastInv'
      /\ asked' \in asked .. asked + 1
  <2>1. CASE Deliver(t)
    <3>1. UNCHANGED <<cmd, ep1, answered>>
      BY DEF IoOutFails
    <3>2. /\ asked' \in Nat /\ ep2' \in Seq([cmd : Command, n : Nat]) /\ OrderInv' /\ LastInv'
          /\ asked' = asked + (IF WantsReply(t) THEN 1 ELSE 0)
      BY <2>1, <3>1, DeliverInv
    <3>3. asked' \in asked .. asked + 1
      BY <3>2 DEF UsbTypeOK
    <3> QED BY <3>2, <3>3
  <2>2. CASE UNCHANGED <<asked, ep2>>
    BY <2>2 DEF IoOutFails, UsbTypeOK, OrderInv, LastInv
  <2> QED BY <2>1, <2>2 DEF IoOutFails
<1>3. /\ mux' \in Threads \cup {NoThread} /\ MuxInv' /\ ~Waiting'
      /\ ioPc' \in [Threads -> {"idle", "lock", "in", "done"}]
      /\ ret' \in [Threads -> [ok : BOOLEAN, n : Nat, reply : Reply \cup {NoReply}]]
      /\ \A u \in Threads \ {t} : ret'[u] = ret[u] /\ ioPc'[u] = ioPc[u]
      /\ ~ret'[t].ok
  <2>1. IoReturn(t, FALSE, NoReply) /\ mux = NoThread
    BY DEF IoOutFails
  <2>2. /\ mux' \in Threads \cup {NoThread} /\ MuxInv' /\ ~Waiting'
        /\ ioPc' \in [Threads -> {"idle", "lock", "in", "done"}]
        /\ ret' \in [Threads -> [ok : BOOLEAN, n : Nat, reply : Reply \cup {NoReply}]]
        /\ \A u \in Threads \ {t} : ret'[u] = ret[u] /\ ioPc'[u] = ioPc[u]
        /\ ret'[t] = [ok |-> FALSE, n |-> asked', reply |-> NoReply]
    BY <1>2, <2>1, IoReturnPc
  <2> QED BY <2>2
<1>4. UsbTypeOK'
  BY <1>2, <1>3 DEF UsbTypeOK, IoOutFails
<1>5. OwedInv'
  BY <1>1, <1>2, <1>3 DEF OwedInv, IoOutFails, UsbTypeOK
<1>6. CleanupInv'
  BY <1>1 DEF CleanupInv, IoOutFails, UsbTypeOK
<1>7. SkewBounded'
  <2>1. failed' = failed + 1 /\ start' = start /\ cmd' = cmd /\ cleanups' = cleanups
    BY DEF IoOutFails
  <2>2. \A u \in Threads : ret[u].n \in Nat /\ ret[u].reply.n \in Nat
    BY DEF UsbTypeOK, Reply, NoReply
  <2>3. failed \in Nat /\ start.owed \in Nat
    BY DEF UsbTypeOK
  <2>4. ASSUME NEW u \in Threads, ioPc'[u] = "done", ret'[u].ok, WantsReply(u)'
        PROVE  ret'[u].n - ret'[u].reply.n <= failed' + start'.owed
    <3>1. u # t /\ ret'[u] = ret[u] /\ ioPc'[u] = ioPc[u] /\ WantsReply(u)
      BY <2>4, <1>3, <2>1 DEF WantsReply
    <3>2. ret[u].n - ret[u].reply.n <= failed + start.owed
      BY <2>4, <3>1 DEF SkewBounded
    <3> QED BY <2>1, <2>2, <2>3, <3>1, <3>2
  <2> QED BY <2>1, <2>4 DEF SkewBounded
<1> QED BY <1>2, <1>3, <1>4, <1>5, <1>6, <1>7

LEMMA IoInInv ==
  ASSUME UsbInv, NEW t \in Threads, IoIn(t)
  PROVE  UsbInv'
<1> USE DEF UsbInv
<1> DEFINE h == ep1[1]
<1>1. cleanups = CleanupReads /\ Waiting /\ mux = t
  BY DEF IoIn, CleanupInv, AllIdle, UsbTypeOK, MuxInv, Waiting
<1>2. /\ UNCHANGED <<cmd, ep2, asked, failed, cleanups, start>>
      /\ ep1' = Tail(ep1) /\ answered' = h.n
      /\ IoReturn(t, h.len = cmd[t].len, h)
      /\ h \in Reply /\ ep1' \in Seq(Reply)
      /\ 1 \in DOMAIN ep1 /\ DOMAIN ep1 \subseteq Nat /\ DOMAIN ep1' \subseteq Nat
      /\ \A i \in DOMAIN ep1' : i + 1 \in DOMAIN ep1 /\ ep1'[i] = ep1[i + 1] /\ i + 1 > 1
      /\ \A i \in DOMAIN ep1 : i = 1 \/ (i - 1 \in DOMAIN ep1' /\ ep1'[i - 1] = ep1[i])
  BY Shortened DEF IoIn, UsbTypeOK
<1>3. h.n \in answered + 1 .. asked /\ answered \in Nat /\ asked \in Nat /\ answered' \in Nat
  BY <1>2 DEF OrderInv, UsbTypeOK
<1>4. /\ mux' \in Threads \cup {NoThread} /\ MuxInv' /\ ~Waiting'
      /\ ioPc' \in [Threads -> {"idle", "lock", "in", "done"}]
      /\ ret' \in [Threads -> [ok : BOOLEAN, n : Nat, reply : Reply \cup {NoReply}]]
      /\ \A u \in Threads \ {t} : ret'[u] = ret[u] /\ ioPc'[u] = ioPc[u]
      /\ ret'[t] = [ok |-> (h.len = cmd[t].len), n |-> asked', reply |-> h]
  <2>1. (h.len = cmd[t].len) \in BOOLEAN /\ asked' \in Nat
    BY <1>2, <1>3
  <2> HIDE DEF h
  <2> QED BY <1>1, <1>2, <2>1, IoReturnPc
<1> HIDE DEF h
<1>5. UsbTypeOK'
  BY <1>2, <1>3, <1>4 DEF UsbTypeOK
<1>6. OrderInv'
  <2>1. answered' <= asked'
        /\ \A i \in DOMAIN ep1' : ep1'[i].n \in answered' + 1 .. asked'
    <3> SUFFICES ASSUME NEW i \in DOMAIN ep1' PROVE ep1'[i].n \in answered' + 1 .. asked'
        BY <1>2, <1>3
    <3>1. i + 1 \in DOMAIN ep1 /\ ep1'[i] = ep1[i + 1] /\ i + 1 > 1
      BY <1>2
    <3>2. ep1[i + 1].n \in answered + 1 .. asked /\ ep1[1].n < ep1[i + 1].n
      BY <1>2, <3>1 DEF OrderInv
    <3> QED BY <1>2, <1>3, <3>1, <3>2 DEF h
  <2>2. \A j \in DOMAIN ep2' : ep2'[j].n = 0 \/ ep2'[j].n \in answered' + 1 .. asked'
    BY <1>2, <1>3 DEF OrderInv, h
  <2>3. \A i, j \in DOMAIN ep1' : i < j => ep1'[i].n < ep1'[j].n
    <3> SUFFICES ASSUME NEW i \in DOMAIN ep1', NEW j \in DOMAIN ep1', i < j
                 PROVE  ep1'[i].n < ep1'[j].n
        OBVIOUS
    <3>1. i + 1 \in DOMAIN ep1 /\ j + 1 \in DOMAIN ep1 /\ i + 1 < j + 1
      BY <1>2
    <3>2. ep1[i + 1].n < ep1[j + 1].n
      BY <3>1 DEF OrderInv
    <3> QED BY <1>2, <3>2
  <2>4. \A i, j \in DOMAIN ep2' : i < j /\ ep2'[j].n # 0 => ep2'[i].n < ep2'[j].n
    BY <1>2 DEF OrderInv
  <2>5. \A i \in DOMAIN ep1', j \in DOMAIN ep2' : ep2'[j].n # 0 => ep1'[i].n < ep2'[j].n
    BY <1>2 DEF OrderInv
  <2> QED BY <2>1, <2>2, <2>3, <2>4, <2>5 DEF OrderInv
<1>7. LastInv'
  <2>1. CASE \E i \in DOMAIN ep1 : ep1[i].n = asked
    <3>1. PICK i \in DOMAIN ep1 : ep1[i].n = asked
      BY <2>1
    <3>2. i = 1 => answered' = asked'
      BY <1>2, <3>1 DEF h
    <3>3. i # 1 => i - 1 \in DOMAIN ep1' /\ ep1'[i - 1].n = asked'
      BY <1>2, <3>1
    <3> QED BY <3>2, <3>3 DEF LastInv
  <2>2. CASE \E j \in DOMAIN ep2 : ep2[j].n = asked
    BY <1>2, <2>2 DEF LastInv
  <2> QED BY <2>1, <2>2, <1>3 DEF LastInv
<1>8. OwedInv'
  <2>1. asked - answered <= failed + start.owed + 1
    BY <1>1 DEF OwedInv
  <2>2. asked' - answered' <= failed' + start'.owed + 0
    BY <1>2, <1>3, <2>1 DEF UsbTypeOK
  <2> QED BY <1>4, <2>2 DEF OwedInv
<1>9. CleanupInv'
  BY <1>1, <1>2 DEF CleanupInv, UsbTypeOK
<1>10. SkewBounded'
  <2>1. ASSUME NEW u \in Threads, ioPc'[u] = "done", ret'[u].ok, WantsReply(u)'
        PROVE  ret'[u].n - ret'[u].reply.n <= failed' + start'.owed
    <3>1. CASE u = t
      <4>1. asked - answered <= failed + start.owed + 1
            /\ failed \in Nat /\ start.owed \in Nat
        BY <1>1 DEF OwedInv, UsbTypeOK
      <4>2. ret'[u].n = asked /\ ret'[u].reply.n = h.n
        BY <3>1, <1>2, <1>4
      <4> QED BY <4>1, <4>2, <1>2, <1>3
    <3>2. CASE u # t
      BY <3>2, <2>1, <1>2, <1>4 DEF SkewBounded, WantsReply
    <3> QED BY <3>1, <3>2
  <2> QED BY <1>2, <2>1 DEF SkewBounded
<1> QED BY <1>4, <1>5, <1>6, <1>7, <1>8, <1>9, <1>10

LEMMA IoInFailsInv ==
  ASSUME UsbInv, NEW t \in Threads, IoInFails(t)
  PROVE  UsbInv'
<1> USE DEF UsbInv
<1>1. cleanups = CleanupReads /\ Waiting /\ mux = t
  BY DEF IoInFails, CleanupInv, AllIdle, UsbTypeOK, MuxInv, Waiting
<1>2. /\ UNCHANGED <<cmd, ep2, ep1, asked, answered, cleanups, start>> /\ failed' = failed + 1
      /\ IoReturn(t, FALSE, NoReply) /\ asked' \in Nat
  BY DEF IoInFails, UsbTypeOK
<1>3. /\ mux' \in Threads \cup {NoThread} /\ MuxInv' /\ ~Waiting'
      /\ ioPc' \in [Threads -> {"idle", "lock", "in", "done"}]
      /\ ret' \in [Threads -> [ok : BOOLEAN, n : Nat, reply : Reply \cup {NoReply}]]
      /\ \A u \in Threads \ {t} : ret'[u] = ret[u] /\ ioPc'[u] = ioPc[u]
      /\ ret'[t] = [ok |-> FALSE, n |-> asked', reply |-> NoReply]
  BY <1>1, <1>2, IoReturnPc
<1>4. UsbTypeOK'
  BY <1>2, <1>3 DEF UsbTypeOK
<1>5. OrderInv' /\ LastInv'
  BY <1>2 DEF OrderInv, LastInv
<1>6. OwedInv' /\ CleanupInv'
  BY <1>1, <1>2, <1>3 DEF OwedInv, CleanupInv, UsbTypeOK
<1>7. SkewBounded'
  <2>1. \A u \in Threads : ret[u].n \in Nat /\ ret[u].reply.n \in Nat
    BY DEF UsbTypeOK, Reply, NoReply
  <2>2. failed \in Nat /\ start.owed \in Nat
    BY DEF UsbTypeOK
  <2>3. ASSUME NEW u \in Threads, ioPc'[u] = "done", ret'[u].ok, WantsReply(u)'
        PROVE  ret'[u].n - ret'[u].reply.n <= failed' + start'.owed
    <3>1. u # t /\ ret'[u] = ret[u] /\ ioPc'[u] = ioPc[u] /\ WantsReply(u)
      BY <2>3, <1>3, <1>2 DEF WantsReply
    <3>2. ret[u].n - ret[u].reply.n <= failed + start.owed
      BY <2>3, <3>1 DEF SkewBounded
    <3> QED BY <1>2, <2>1, <2>2, <3>1, <3>2
  <2> QED BY <1>2, <2>3 DEF SkewBounded
<1> QED BY <1>3, <1>4, <1>5, <1>6, <1>7

-----------------------------------------------------------------------------
(* The card, joker_open, and the end of the process *)

LEMMA FpgaTakeInv ==
  ASSUME UsbInv, NEW v \in Values, FpgaTake(v)
  PROVE  UsbInv'
<1> USE DEF UsbInv
<1> DEFINE S == [cmd : Command, n : Nat]
           h == ep2[1]
<1>1. UNCHANGED <<mux, ioPc, cmd, ret, asked, answered, failed, cleanups, start>>
  BY DEF FpgaTake
<1>2. /\ ep2' = Tail(ep2) /\ ep2' \in Seq(S) /\ h \in S /\ Head(ep2) = h
      /\ 1 \in DOMAIN ep2 /\ DOMAIN ep2 \subseteq Nat /\ DOMAIN ep2' \subseteq Nat
      /\ \A i \in DOMAIN ep2' : i + 1 \in DOMAIN ep2 /\ ep2'[i] = ep2[i + 1] /\ i + 1 > 1
      /\ \A i \in DOMAIN ep2 : i = 1 \/ (i - 1 \in DOMAIN ep2' /\ ep2'[i - 1] = ep2[i])
  <2>1. ep2 \in Seq(S) /\ ep2 # <<>> /\ ep2' = Tail(ep2)
    BY DEF FpgaTake, UsbTypeOK
  <2> HIDE DEF S
  <2> QED BY <2>1, Shortened
<1>3. answered \in Nat /\ asked \in Nat /\ ep1 \in Seq(Reply) /\ h.n \in Nat /\ h.cmd.len \in Nat
  BY <1>2 DEF UsbTypeOK, Command
<1>4. \A i \in DOMAIN ep1 : ep1[i].n \in Nat
  BY <1>3 DEF OrderInv
<1>5. \A j \in DOMAIN ep2 : ep2[j].n \in Nat
  BY <1>3 DEF OrderInv
<1> HIDE DEF h, S
<1>6. \A i, j \in DOMAIN ep2' : i < j /\ ep2'[j].n # 0 => ep2'[i].n < ep2'[j].n
  <2> SUFFICES ASSUME NEW i \in DOMAIN ep2', NEW j \in DOMAIN ep2', i < j, ep2'[j].n # 0
               PROVE  ep2'[i].n < ep2'[j].n
      OBVIOUS
  <2>1. i + 1 \in DOMAIN ep2 /\ j + 1 \in DOMAIN ep2 /\ i + 1 < j + 1
        /\ ep2'[i] = ep2[i + 1] /\ ep2'[j] = ep2[j + 1]
    BY <1>2
  <2> QED BY <2>1 DEF OrderInv
<1>7. \A j \in DOMAIN ep2' : ep2'[j].n = 0 \/ ep2'[j].n \in answered + 1 .. asked
  BY <1>2 DEF OrderInv
<1>8. CASE h.n = 0
  <2>1. ep1' = ep1
    BY <1>2, <1>8 DEF FpgaTake
  <2>2. OrderInv'
    BY <1>1, <1>2, <1>6, <1>7, <2>1 DEF OrderInv
  <2>3. LastInv'
    <3>1. CASE answered = asked \/ \E i \in DOMAIN ep1 : ep1[i].n = asked
      BY <1>1, <2>1, <3>1 DEF LastInv
    <3>2. CASE answered # asked /\ \E j \in DOMAIN ep2 : ep2[j].n = asked
      <4>1. PICK j \in DOMAIN ep2 : ep2[j].n = asked
        BY <3>2
      <4>2. j # 1
        BY <4>1, <3>2, <1>3, <1>8 DEF OrderInv, h
      <4> QED BY <1>1, <1>2, <4>1, <4>2 DEF LastInv
    <3> QED BY <3>1, <3>2 DEF LastInv
  <2>4. UsbTypeOK'
    BY <1>1, <1>2, <2>1 DEF UsbTypeOK, S
  <2> QED BY <1>1, <2>1, <2>2, <2>3, <2>4 DEF MuxInv, OwedInv, Waiting, CleanupInv,
                                             AllIdle, SkewBounded, WantsReply
<1>9. CASE h.n # 0
  <2> DEFINE r == [n |-> h.n, val |-> v, len |-> h.cmd.len]
  <2>1. ep1' = Append(ep1, r) /\ r \in Reply /\ r.n = h.n
    BY <1>2, <1>3, <1>9 DEF FpgaTake, Reply
  <2> HIDE DEF r
  <2>2. /\ ep1' \in Seq(Reply) /\ Len(ep1) \in Nat /\ DOMAIN ep1 = 1 .. Len(ep1)
        /\ DOMAIN ep1' = DOMAIN ep1 \cup {Len(ep1) + 1} /\ ep1'[Len(ep1) + 1] = r
        /\ \A i \in DOMAIN ep1 : ep1'[i] = ep1[i]
    BY <1>3, <2>1, Appended
  <2>3. h.n \in answered + 1 .. asked
    BY <1>2, <1>9 DEF OrderInv, h
  <2>4. \A i \in DOMAIN ep1 : ep1[i].n < h.n
    BY <1>2, <1>9 DEF OrderInv, h
  <2>5. \A j \in DOMAIN ep2' : ep2'[j].n # 0 => h.n < ep2'[j].n
    BY <1>2 DEF OrderInv, h
  <2>6. OrderInv'
    <3>1. \A i \in DOMAIN ep1' : ep1'[i].n \in answered + 1 .. asked
      BY <2>1, <2>2, <2>3 DEF OrderInv
    <3>2. \A i, j \in DOMAIN ep1' : i < j => ep1'[i].n < ep1'[j].n
      <4> SUFFICES ASSUME NEW i \in DOMAIN ep1', NEW j \in DOMAIN ep1', i < j
                   PROVE  ep1'[i].n < ep1'[j].n
          OBVIOUS
      <4>1. i \in DOMAIN ep1
        BY <2>2
      <4>2. CASE j \in DOMAIN ep1
        BY <4>1, <4>2, <2>2 DEF OrderInv
      <4>3. CASE j = Len(ep1) + 1
        BY <4>1, <4>3, <2>1, <2>2, <2>4
      <4> QED BY <4>2, <4>3, <2>2
    <3>3. \A i \in DOMAIN ep1', j \in DOMAIN ep2' : ep2'[j].n # 0 => ep1'[i].n < ep2'[j].n
      <4> SUFFICES ASSUME NEW i \in DOMAIN ep1', NEW j \in DOMAIN ep2', ep2'[j].n # 0
                   PROVE  ep1'[i].n < ep2'[j].n
          OBVIOUS
      <4>1. CASE i \in DOMAIN ep1
        BY <4>1, <1>2, <2>2 DEF OrderInv
      <4>2. CASE i = Len(ep1) + 1
        BY <4>2, <2>1, <2>2, <2>5
      <4> QED BY <4>1, <4>2, <2>2
    <3> QED BY <1>1, <1>6, <1>7, <3>1, <3>2, <3>3 DEF OrderInv
  <2>7. LastInv'
    <3>1. CASE \E i \in DOMAIN ep1 : ep1[i].n = asked
      BY <1>1, <2>2, <3>1 DEF LastInv
    <3>2. CASE \E j \in DOMAIN ep2 : ep2[j].n = asked
      <4>1. PICK j \in DOMAIN ep2 : ep2[j].n = asked
        BY <3>2
      <4>2. CASE j = 1
        BY <1>1, <2>1, <2>2, <4>1, <4>2 DEF LastInv, h
      <4>3. CASE j # 1
        BY <1>1, <1>2, <4>1, <4>3 DEF LastInv
      <4> QED BY <4>2, <4>3
    <3> QED BY <1>1, <3>1, <3>2 DEF LastInv
  <2>8. UsbTypeOK'
    BY <1>1, <1>2, <2>2 DEF UsbTypeOK, S
  <2> QED BY <1>1, <2>6, <2>7, <2>8 DEF MuxInv, OwedInv, Waiting, CleanupInv,
                                       AllIdle, SkewBounded, WantsReply
<1> QED BY <1>8, <1>9

LEMMA CleanupReadInv ==
  ASSUME UsbInv, CleanupRead
  PROVE  UsbInv'
<1> USE DEF UsbInv
<1> DEFINE h == ep1[1]
<1>1. /\ AllIdle /\ cleanups < CleanupReads /\ cleanups' = cleanups + 1
      /\ UNCHANGED <<mux, ioPc, cmd, ret, ep2, asked>>
      /\ start' = [start EXCEPT !.owed = asked - answered',
                                !.missed = @ \/ ep2 # <<>> \/ failed' # failed]
  BY DEF CleanupRead
<1>2. /\ answered \in Nat /\ asked \in Nat /\ cleanups \in Nat /\ answered <= asked
      /\ start \in [left : Nat, owed : Nat, missed : BOOLEAN] /\ start.owed = asked - answered
      /\ ~Waiting
  BY <1>1 DEF UsbTypeOK, OrderInv, CleanupInv, AllIdle, Waiting
<1>3. CASE ep1 = <<>> /\ UNCHANGED <<ep1, answered, failed>>
  <2>1. start'.owed = start.owed /\ start'.left = start.left
        /\ (~start'.missed <=> ~start.missed /\ ep2 = <<>>)
        /\ start' \in [left : Nat, owed : Nat, missed : BOOLEAN]
    BY <1>1, <1>2, <1>3
  <2>2. ~start'.missed => start.owed = 0
    BY <2>1, <1>2, <1>3 DEF LastInv
  <2>3. CleanupInv'
    BY <1>1, <1>2, <1>3, <2>1, <2>2 DEF CleanupInv, AllIdle
  <2>4. UsbTypeOK'
    <3>1. answered' \in Nat /\ cleanups' \in 0 .. CleanupReads /\ ep1' \in Seq(Reply)
      BY <1>1, <1>2, <1>3 DEF UsbTypeOK
    <3> QED BY <1>1, <1>3, <2>1, <3>1 DEF UsbTypeOK
  <2>5. MuxInv' /\ OrderInv' /\ OwedInv' /\ LastInv'
    BY <1>1, <1>2, <1>3, <2>1 DEF MuxInv, OrderInv, OwedInv, LastInv, Waiting
  <2>6. SkewBounded'
    BY <1>1, <2>1, <2>2, <2>3 DEF SkewBounded, AllIdle, CleanupInv
  <2> QED BY <2>3, <2>4, <2>5, <2>6
<1>4. CASE ep1 # <<>> /\ ep1' = Tail(ep1) /\ answered' = Head(ep1).n /\ UNCHANGED failed
  <2>1. /\ ep1' = Tail(ep1) /\ answered' = h.n /\ h \in Reply /\ ep1' \in Seq(Reply)
        /\ 1 \in DOMAIN ep1 /\ DOMAIN ep1 \subseteq Nat /\ DOMAIN ep1' \subseteq Nat
        /\ \A i \in DOMAIN ep1' : i + 1 \in DOMAIN ep1 /\ ep1'[i] = ep1[i + 1] /\ i + 1 > 1
        /\ \A i \in DOMAIN ep1 : i = 1 \/ (i - 1 \in DOMAIN ep1' /\ ep1'[i - 1] = ep1[i])
    BY <1>4, Shortened DEF UsbTypeOK
  <2>2. h.n \in answered + 1 .. asked /\ answered' \in Nat
    BY <1>2, <2>1 DEF OrderInv
  <2> HIDE DEF h
  <2>3. start'.owed = asked - h.n /\ start'.left = start.left /\ start'.owed <= start.owed - 1
        /\ (~start'.missed => ~start.missed) /\ start'.owed \in Nat
        /\ start' \in [left : Nat, owed : Nat, missed : BOOLEAN]
    <3>1. start' = [start EXCEPT !.owed = asked - h.n, !.missed = @ \/ ep2 # <<>>]
      BY <1>1, <1>4, <2>1
    <3>2. asked - h.n \in Nat /\ asked - h.n <= start.owed - 1
      BY <1>2, <2>2
    <3>3. (start.missed \/ ep2 # <<>>) \in BOOLEAN
      BY <1>2
    <3> QED BY <1>2, <3>1, <3>2, <3>3
  <2>4. CleanupInv'
    <3>1. AllIdle' /\ cleanups' = cleanups + 1 /\ asked' - answered' = asked - h.n
      BY <1>1, <2>1 DEF AllIdle
    <3>2. start'.owed <= start'.left
      BY <1>2, <2>3 DEF CleanupInv
    <3>3. ~start'.missed => start'.owed = 0 \/ start'.owed <= start'.left - cleanups'
      BY <1>2, <2>3, <3>1 DEF CleanupInv
    <3> QED BY <2>3, <3>1, <3>2, <3>3 DEF CleanupInv
  <2>5. UsbTypeOK'
    <3>1. cleanups' \in 0 .. CleanupReads
      BY <1>1, <1>2
    <3> QED BY <1>1, <1>4, <2>1, <2>2, <2>3, <3>1 DEF UsbTypeOK
  <2>6. OrderInv'
    <3>1. \A i \in DOMAIN ep1' : ep1'[i].n \in answered' + 1 .. asked'
      <4> SUFFICES ASSUME NEW i \in DOMAIN ep1' PROVE ep1'[i].n \in answered' + 1 .. asked'
          OBVIOUS
      <4>1. i + 1 \in DOMAIN ep1 /\ ep1'[i] = ep1[i + 1] /\ i + 1 > 1
        BY <2>1
      <4>2. ep1[i + 1].n \in answered + 1 .. asked /\ ep1[1].n < ep1[i + 1].n
        <5>1. ep1[i + 1].n \in answered + 1 .. asked
          BY <4>1 DEF OrderInv
        <5>2. 1 \in DOMAIN ep1 /\ 1 < i + 1
          BY <2>1, <4>1
        <5> QED BY <4>1, <5>1, <5>2 DEF OrderInv
      <4>3. answered' = ep1[1].n /\ asked' = asked /\ ep1[1].n \in Nat
        BY <1>1, <2>1, <2>2, <1>2 DEF h
      <4> QED BY <1>2, <4>1, <4>2, <4>3
    <3>2. \A i, j \in DOMAIN ep1' : i < j => ep1'[i].n < ep1'[j].n
      <4> SUFFICES ASSUME NEW i \in DOMAIN ep1', NEW j \in DOMAIN ep1', i < j
                   PROVE  ep1'[i].n < ep1'[j].n
          OBVIOUS
      <4>1. i + 1 \in DOMAIN ep1 /\ j + 1 \in DOMAIN ep1 /\ i + 1 < j + 1
        BY <2>1
      <4>2. ep1[i + 1].n < ep1[j + 1].n
        BY <4>1 DEF OrderInv
      <4> QED BY <2>1, <4>2
    <3>3. \A j \in DOMAIN ep2' : ep2'[j].n = 0 \/ ep2'[j].n \in answered' + 1 .. asked'
      <4> SUFFICES ASSUME NEW j \in DOMAIN ep2, ep2[j].n # 0
                   PROVE  ep2[j].n \in h.n + 1 .. asked
          BY <1>1, <2>1
      <4>1. ep2[j].n \in answered + 1 .. asked /\ h.n < ep2[j].n
        BY <2>1 DEF OrderInv, h
      <4> QED BY <1>2, <2>2, <4>1
    <3>4. \A i, j \in DOMAIN ep2 : i < j /\ ep2[j].n # 0 => ep2[i].n < ep2[j].n
      BY DEF OrderInv
    <3>5. \A i \in DOMAIN ep1', j \in DOMAIN ep2 : ep2[j].n # 0 => ep1'[i].n < ep2[j].n
      BY <2>1 DEF OrderInv
    <3>6. answered' <= asked' /\ ep2' = ep2
      BY <1>1, <1>2, <2>1, <2>2
    <3> QED BY ONLY <3>1, <3>2, <3>3, <3>4, <3>5, <3>6 DEF OrderInv
  <2>7. LastInv'
    <3>1. CASE \E i \in DOMAIN ep1 : ep1[i].n = asked
      BY <1>1, <2>1, <3>1 DEF LastInv, h
    <3>2. CASE \E j \in DOMAIN ep2 : ep2[j].n = asked
      BY <1>1, <3>2 DEF LastInv
    <3> QED BY <3>1, <3>2, <1>2, <2>2 DEF LastInv
  <2>8. MuxInv' /\ OwedInv'
    <3>1. MuxInv' /\ ~Waiting'
      BY <1>1, <1>2 DEF MuxInv, Waiting
    <3>2. failed' \in Nat /\ start'.owed = asked' - answered' /\ start'.owed \in Nat
      BY <1>1, <1>4, <2>1, <2>3 DEF UsbTypeOK
    <3> HIDE DEF UsbInv
    <3> QED BY <3>1, <3>2 DEF OwedInv
  <2>9. SkewBounded'
    <3>1. \A u \in Threads : ioPc'[u] # "done"
      BY <1>1 DEF AllIdle
    <3>2. cleanups' = CleanupReads /\ start'.left <= CleanupReads /\ ~start'.missed =>
            start'.owed = 0
      <4> HIDE DEF UsbInv
      <4>1. start'.owed \in Nat /\ start'.left \in Nat
        BY <2>3
      <4> QED BY <2>4, <4>1 DEF CleanupInv
    <3> QED BY <3>1, <3>2 DEF SkewBounded
  <2> QED BY <2>4, <2>5, <2>6, <2>7, <2>8, <2>9
<1>5. CASE /\ ep1 # <<>> /\ failed < MaxFails /\ failed' = failed + 1
           /\ UNCHANGED <<ep1, answered>>
  <2>1. failed \in Nat /\ failed' = failed + 1 /\ failed' # failed
    BY <1>5 DEF UsbTypeOK
  <2>2. start'.owed = start.owed /\ start'.left = start.left /\ start'.missed = TRUE
        /\ start' \in [left : Nat, owed : Nat, missed : BOOLEAN]
    <3>1. start' = [start EXCEPT !.owed = start.owed, !.missed = TRUE]
      BY <1>1, <1>2, <1>5, <2>1
    <3> QED BY <3>1, <1>2
  <2>3. CleanupInv'
    BY <1>1, <1>2, <1>5, <2>2 DEF CleanupInv, AllIdle
  <2>4. UsbTypeOK'
    <3>1. answered' \in Nat /\ cleanups' \in 0 .. CleanupReads /\ ep1' \in Seq(Reply)
          /\ failed' \in Nat
      BY <1>1, <1>2, <1>5, <2>1 DEF UsbTypeOK
    <3> QED BY <1>1, <2>2, <3>1 DEF UsbTypeOK
  <2>5. MuxInv' /\ OrderInv' /\ LastInv'
    BY <1>1, <1>2, <1>5 DEF MuxInv, OrderInv, LastInv, Waiting
  <2>6. OwedInv'
    <3>1. ~Waiting' /\ start'.owed = asked' - answered' /\ start'.owed \in Nat
      BY <1>1, <1>2, <1>5, <2>2 DEF Waiting
    <3>2. failed' \in Nat
      BY <2>1
    <3> HIDE DEF UsbInv
    <3> QED BY <3>1, <3>2 DEF OwedInv
  <2>7. SkewBounded'
    BY <1>1, <2>2 DEF SkewBounded, AllIdle
  <2> QED BY <2>3, <2>4, <2>5, <2>6, <2>7
<1> QED BY <1>3, <1>4, <1>5 DEF CleanupRead

LEMMA ProcessEndsInv ==
  ASSUME UsbInv, ProcessEnds
  PROVE  UsbInv'
<1> USE DEF UsbInv, ProcessEnds
<1>1. asked \in Nat /\ answered \in Nat /\ answered <= asked /\ asked - answered \in Nat
  BY DEF UsbTypeOK, OrderInv
<1>2. UsbTypeOK'
  BY <1>1, CmdTypes DEF UsbTypeOK, NoReturn
<1>3. MuxInv' /\ OrderInv' /\ LastInv' /\ ~Waiting'
  BY DEF MuxInv, OrderInv, LastInv, Waiting
<1>4. OwedInv' /\ CleanupInv' /\ SkewBounded'
  BY <1>1, <1>3 DEF OwedInv, CleanupInv, SkewBounded, AllIdle
<1> QED BY <1>2, <1>3, <1>4

LEMMA StutterInv ==
  ASSUME UsbInv, UNCHANGED usbVars
  PROVE  UsbInv'
BY DEF UsbInv, usbVars, UsbTypeOK, MuxInv, OrderInv, OwedInv, LastInv, CleanupInv,
       SkewBounded, Waiting, AllIdle, WantsReply

LEMMA StepInv == UsbInv /\ [UsbNext]_usbVars => UsbInv'
<1> SUFFICES ASSUME UsbInv, [UsbNext]_usbVars PROVE UsbInv'
    OBVIOUS
<1>1. ASSUME NEW t \in Threads, IoStep(t) \/ Consume(t) PROVE UsbInv'
  BY <1>1, IoOutInv, IoOutFailsInv, IoInInv, IoInFailsInv, ConsumeInv DEF IoStep
<1>2. ASSUME NEW t \in Threads, NEW c \in Command, Call(t, c) PROVE UsbInv'
  BY <1>2, CallInv
<1>3. ASSUME NEW v \in Values, FpgaTake(v) PROVE UsbInv'
  BY <1>3, FpgaTakeInv
<1> QED BY <1>1, <1>2, <1>3, CleanupReadInv, ProcessEndsInv, StutterInv DEF UsbNext

\* io_mux is held between the transfers, the card keeps the replies in order, no
\* more of them are owed than transfers failed or were left by an earlier
\* process, and a reply is at most that many commands old.
THEOREM UsbInvariant == UsbSpec => []UsbInv
BY InitInv, StepInv, PTL DEF UsbSpec

-----------------------------------------------------------------------------
(* The refinement *)

LEMMA InitRefines == UsbInit => Channel!ChannelInit
BY DEF UsbInit, Channel!ChannelInit, Waiting

LEMMA StepRefines ==
  UsbInv /\ UsbInv' /\ [UsbNext]_usbVars => [Channel!ChannelNext]_(Channel!channelVars)
<1> SUFFICES ASSUME UsbInv, UsbInv', [UsbNext]_usbVars
             PROVE  [Channel!ChannelNext]_(Channel!channelVars)
    OBVIOUS
<1> USE DEF Channel!channelVars, Channel!ChannelNext
<1>1. asked \in Nat /\ answered \in Nat /\ answered <= asked
  BY DEF UsbInv, UsbTypeOK, OrderInv
<1>2. ASSUME NEW t \in Threads, IoOut(t) PROVE [Channel!ChannelNext]_(Channel!channelVars)
  <2>1. ~Waiting /\ answered' = answered
    BY <1>2 DEF IoOut, UsbInv, UsbTypeOK, MuxInv, Waiting
  <2>2. CASE WantsReply(t)
    <3>1. asked' = asked + 1
      BY <1>2, <2>2 DEF IoOut, Deliver, Numbered
    <3> QED BY <2>1, <3>1 DEF Channel!Ask, Waiting
  <2>3. CASE ~WantsReply(t)
    <3>1. asked' = asked /\ mux' = NoThread
      BY <1>2, <2>3 DEF IoOut, Deliver, Numbered, IoReturn
    <3>2. ~Waiting'
      BY <3>1 DEF UsbInv, MuxInv, Waiting
    <3> QED BY <2>1, <3>1, <3>2 DEF Waiting
  <2> QED BY <2>2, <2>3
<1>3. ASSUME NEW t \in Threads, IoOutFails(t) PROVE [Channel!ChannelNext]_(Channel!channelVars)
  <2>1. ~Waiting /\ answered' = answered /\ mux' = NoThread
    BY <1>3 DEF IoOutFails, IoReturn, UsbInv, UsbTypeOK, MuxInv, Waiting
  <2>2. ~Waiting'
    BY <2>1 DEF UsbInv, MuxInv, Waiting
  <2>3. asked' = asked \/ asked' = asked + 1
    BY <1>3 DEF IoOutFails, Deliver, Numbered
  <2> QED BY <2>1, <2>2, <2>3 DEF Channel!Ask, Waiting
<1>4. ASSUME NEW t \in Threads, IoIn(t) PROVE [Channel!ChannelNext]_(Channel!channelVars)
  <2>1. Waiting /\ asked' = asked /\ mux' = NoThread /\ answered' = Head(ep1).n /\ ep1 # <<>>
    BY <1>4 DEF IoIn, IoReturn, Waiting
  <2>2. ~Waiting'
    BY <2>1 DEF UsbInv, MuxInv, Waiting
  <2>3. 1 \in DOMAIN ep1 /\ Head(ep1) = ep1[1]
    BY <2>1, Shortened DEF UsbInv, UsbTypeOK
  <2>4. answered' \in answered + 1 .. asked
    BY <2>1, <2>3 DEF UsbInv, OrderInv
  <2> QED BY <2>1, <2>2, <2>4 DEF Channel!Answer, Waiting
<1>5. ASSUME NEW t \in Threads, IoInFails(t) PROVE [Channel!ChannelNext]_(Channel!channelVars)
  <2>1. Waiting /\ asked' = asked /\ mux' = NoThread /\ answered' = answered
    BY <1>5 DEF IoInFails, IoReturn, Waiting
  <2>2. ~Waiting'
    BY <2>1 DEF UsbInv, MuxInv, Waiting
  <2> QED BY <2>1, <2>2 DEF Channel!GiveUp, Waiting
<1>6. ASSUME NEW t \in Threads, Consume(t) \/ \E c \in Command : Call(t, c)
      PROVE  UNCHANGED Channel!channelVars
  <2>1. asked' = asked /\ answered' = answered /\ mux' = mux
    BY <1>6 DEF Consume, Call
  <2>2. Waiting' <=> Waiting
    BY <2>1 DEF UsbInv, MuxInv, Waiting
  <2> QED BY <2>1, <2>2 DEF Waiting
<1>7. ASSUME NEW v \in Values, FpgaTake(v) PROVE UNCHANGED Channel!channelVars
  BY <1>7 DEF FpgaTake, Waiting
<1>8. CASE CleanupRead
  <2>1. ~Waiting /\ ~Waiting' /\ asked' = asked
    BY <1>8 DEF CleanupRead, AllIdle, Waiting
  <2>2. CASE answered' = answered
    BY <2>1, <2>2 DEF Waiting
  <2>3. CASE ep1 # <<>> /\ answered' = Head(ep1).n
    <3>1. 1 \in DOMAIN ep1 /\ Head(ep1) = ep1[1]
      BY <2>3, Shortened DEF UsbInv, UsbTypeOK
    <3>2. answered' \in answered + 1 .. asked
      BY <2>3, <3>1 DEF UsbInv, OrderInv
    <3> QED BY <2>1, <3>2 DEF Channel!Discard, Waiting
  <2> QED BY <1>8, <2>2, <2>3 DEF CleanupRead
<1>9. CASE ProcessEnds
  <2>1. asked' = asked /\ answered' = answered /\ ~Waiting'
    BY <1>9 DEF ProcessEnds, Waiting
  <2> QED BY <2>1 DEF Channel!GiveUp, Waiting
<1>10. CASE UNCHANGED usbVars
  BY <1>10 DEF usbVars, Waiting
<1> QED BY <1>2, <1>3, <1>4, <1>5, <1>6, <1>7, <1>8, <1>9, <1>10 DEF UsbNext, IoStep

\* joker_io is one exchange at a time with the replies in the order of the
\* commands, whatever transfers fail and wherever a process ends.
THEOREM UsbImplements == UsbSpec => ImplementsChannel
<1>1. UsbInit => Channel!ChannelInit
  BY InitRefines
<1>2. UsbInv /\ UsbInv' /\ [UsbNext]_usbVars => [Channel!ChannelNext]_(Channel!channelVars)
  BY StepRefines
<1> QED BY <1>1, <1>2, UsbInvariant, PTL DEF UsbSpec, ImplementsChannel, Channel!ChannelSpec
=============================================================================
