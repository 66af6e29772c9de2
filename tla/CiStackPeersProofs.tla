-------------------------- MODULE CiStackPeersProofs --------------------------
(***************************************************************************)
(* Proofs about CiStack, for every number of connections, sessions, tries  *)
(* and whatever the CAM does: as long as nothing was lost, host and CAM    *)
(* take turns on each connection (LinkInv), and what is on its way         *)
(* explains each difference between the sessions they know of (AgreeInv);  *)
(* so when nothing is on its way they know of the same sessions.           *)
(***************************************************************************)
EXTENDS CiStackProofs, SequenceTheorems

-----------------------------------------------------------------------------
(***************************************************************************)
(* That host and CAM agree, as long as nothing was lost: first the link.   *)
(* On each connection host and CAM take turns: one of the two has the one  *)
(* message that calls for an answer, so nothing overtakes anything.        *)
(***************************************************************************)

Clean == fails = 0 /\ timeouts = 0 /\ ~stale

\* What a sequence holds, and that it holds at most one of the elements of T.
Elems(q)    == {q[i] : i \in DOMAIN q}
OneIn(q, T) == \A i, j \in DOMAIN q : q[i] \in T /\ q[j] \in T => i = j

\* The TPDUs the CAM has to answer, and its messages, on a connection.
Asks(t)       == t.tag \in {"create", "last", "rcv"}
TokensOf(c)   == {t \in Tpdus : Asks(t) /\ t.c = c}
MessagesOf(c) == {m \in Messages : m[1].c = c}

OneToken(c)   == OneIn(toCam, TokensOf(c))
OneMessage(c) == OneIn(fromCam, MessagesOf(c))

Asked(c)  == Elems(toCam) \cap TokensOf(c)
Told(c)   == Elems(fromCam) \cap MessagesOf(c)
Queued(c) == Elems(conn[c].queue)

\* The stack thread has the message of c, and those of c it has not looked into.
Held(c) == stk.rest # <<>> /\ stk.rest[1].c = c
Msgs(c) == Told(c) \cup (IF stk.pc = "tpdu" /\ Held(c) THEN {stk.rest} ELSE {})

\* The CAM has said the first part of what comes next.
WaitsPart(c) == cam.out[c] # <<>> /\ cam.out[c][1].k = "part"

Statuses == {"sb", "sb_data"}
Openers  == {"create_reply", "last", "more", "request"}
Shape(m) ==
  \/ Len(m) = 1 /\ m[1].tag \in Statuses \cup {"delete"}
  \/ Len(m) = 2 /\ m[1].tag \in Openers /\ m[2].c = m[1].c /\ m[2].tag \in Statuses

RestInv ==
  /\ stk.pc = "spdu" => /\ Len(stk.rest) = 2 /\ Shape(stk.rest) /\ stk.rest[1].c = stk.at
                        /\ conn[stk.at].chain = NoSpdu
  /\ stk.pc = "closing" => /\ Len(stk.rest) = 1 /\ stk.rest[1].c = stk.at
                           /\ conn[stk.at].st = "idle"
  /\ stk.pc \notin {"tpdu", "spdu", "closing"} => stk.rest = <<>>

OneTurn(c) ==
  /\ Asked(c) = {} \/ Told(c) = {}
  /\ Held(c) => Asked(c) = {} /\ Told(c) = {}
  /\ conn[c].wait # "late"
  /\ Asked(c) \cup Told(c) # {} => conn[c].wait = "yes"

\* Where the message is tells what each side thinks of the connection.
InState(c) ==
  /\ \A t \in Asked(c) : conn[c].st = IF t.tag = "create" THEN "creation" ELSE "active"
  /\ \A m \in Msgs(c) :
       /\ Shape(m)
       /\ conn[c].st = IF m[1].tag = "create_reply" THEN "creation" ELSE "active"
       /\ m[1].tag = "create_reply" => c \in cam.open
       /\ m[1].tag = "delete" => c \notin cam.open
  /\ conn[c].st = "active" => c \in cam.open \/ \E m \in Msgs(c) : m[1].tag = "delete"
  /\ c \in cam.open => conn[c].st = "active" \/ \E m \in Msgs(c) : m[1].tag = "create_reply"

Queues(c) ==
  /\ conn[c].st = "idle" => conn[c].queue = <<>>
  /\ conn[c].st = "creation" =>
       \/ conn[c].queue = <<>>
       \/ conn[c].queue = <<Plain("create", c)>> /\ Asked(c) = {} /\ Msgs(c) = {}
  /\ conn[c].st = "active" => \A t \in Queued(c) : t.tag = "last" /\ t.c = c

\* A chained SPDU is put together from its two parts and nothing else.
Chain(c) ==
  /\ \A m \in Msgs(c) :
       /\ m[1].tag = "delete" => conn[c].chain = NoSpdu
       /\ m[1].tag = "more" => conn[c].chain = NoSpdu /\ WaitsPart(c)
       /\ m[1].tag = "last" => conn[c].chain = NoSpdu \/ m[1].p.k = "part"
  /\ conn[c].chain # NoSpdu =>
       conn[c].st = "active" /\ (WaitsPart(c) \/ \E m \in Msgs(c) : m[1].tag = "last")

LinkOf(c) == OneTurn(c) /\ InState(c) /\ Queues(c) /\ Chain(c)
LinkInv ==
  /\ \A c \in Conns : OneToken(c) /\ OneMessage(c)
  /\ RestInv
  /\ \A c \in Conns : LinkOf(c)
-----------------------------------------------------------------------------
(* The sessions: what is on its way explains where the two sides differ. *)

Closings == {"close_ok", "close_err"}

\* Answers on their way that change what the CAM has open: sent, or due.
IsNotice(t) == t.tag = "last" /\ t.p.k \in {"open_ok"} \cup Closings
Sent(c)     == {t \in Asked(c) : IsNotice(t)}
Notices(c)  == Sent(c) \cup {t \in Queued(c) : IsNotice(t)}
OpenPends(n, c)  == \E t \in Notices(c) : t.p.k = "open_ok" /\ t.p.n = n
ClosePends(n, c) == \E t \in Notices(c) : t.p.k \in Closings /\ t.p.n = n

\* After the answer that opens a session comes no other about it.
About(s, n) == s.k \in {"open_ok"} \cup Closings /\ s.n = n
InOrder(c) ==
  /\ \A t \in Sent(c), u \in Queued(c) : t.p.k = "open_ok" => ~About(u.p, t.p.n)
  /\ \A k, l \in DOMAIN conn[c].queue :
       k < l /\ conn[c].queue[k].p.k = "open_ok" =>
         ~About(conn[c].queue[l].p, conn[c].queue[k].p.n)

\* The request of the CAM to close session n: to be said, or on its way.
IsClose(s, n) == s.k = "close_req" /\ s.n = n
ClosesOf(n)   == {s \in Spdus : IsClose(s, n)}
ToSay(n, c)   == Elems(cam.out[c]) \cap ClosesOf(n) # {}
Bearing(c)    == {m \in Msgs(c) : m[1].tag \in {"last", "more"}}
Ahead(n, c) ==
  \/ IsClose(conn[c].chain, n)
  \/ stk.pc = "spdu" /\ job.pc = "none" /\ stk.at = c /\ IsClose(stk.spdu, n)
  \/ \E m \in Bearing(c) : IsClose(m[1].p, n) /\ conn[c].chain = NoSpdu
AskedEnd(n, c) == ToSay(n, c) \/ Ahead(n, c)
OnceAsked(n, c) == OneIn(cam.out[c], ClosesOf(n)) /\ ~(ToSay(n, c) /\ Ahead(n, c))

\* Both sides have session n open, and no answer about it is on its way.
OpenBoth(n) ==
  LET c == session[n].conn
  IN /\ session[n].st = "active" /\ cam.sess[n].conn = c
     /\ ~OpenPends(n, c) /\ ~ClosePends(n, c)
     /\ \/ cam.sess[n].res = session[n].res
        \/ cam.sess[n].res = "ending" /\ AskedEnd(n, c)

\* The CAM alone has session n, and the answer that ends it is on its way.
Answering(n) == job.pc = "close_res" /\ job.ok /\ job.n = n
Ending(n) ==
  LET c == cam.sess[n].conn
  IN /\ cam.sess[n].res = "ending"
     /\ ClosePends(n, c) \/ (Answering(n) /\ stk.at = c)

\* The host has session n open: its answer is queued.
IsOpen(n) == session[n].st = "active"
             \/ (session[n].st = "creation" /\ job.pc = "opened" /\ job.n = n)

JobsInv ==
  /\ job.pc = "open_res" /\ job.ok =>
       session[job.n].conn = stk.at /\ session[job.n].res = stk.spdu.arg
  /\ job.pc = "opened" => session[job.n].conn = stk.at /\ job.ok
  /\ job.pc = "close_res" =>
       IF job.ok THEN session[job.n].st = "idle" ELSE ~Closable(job.n)

OpensOf(c) ==
  \A t \in Notices(c) : t.p.k = "open_ok" =>
    /\ t.p.n \in Sessions /\ IsOpen(t.p.n)
    /\ session[t.p.n].conn = c /\ session[t.p.n].res = t.p.arg

EndsOf(n, c) ==
  /\ OnceAsked(n, c)
  /\ AskedEnd(n, c) => /\ OpenBoth(n) /\ session[n].conn = c
                       /\ cam.sess[n].res = "ending"

Knows(n) ==
  /\ cam.sess[n] = NoSession \/ (cam.sess[n].conn \in cam.open /\ (OpenBoth(n) \/ Ending(n)))
  /\ IsOpen(n) => \/ OpenPends(n, session[n].conn) \/ OpenBoth(n)
                  \/ session[n].conn \notin cam.open

SessRecs == [res : {"none", "rm", "ca", "other", "ending"}, conn : Conns \cup {0}]
AgreeInv ==
  /\ cam.sess \in [Sessions -> SessRecs] /\ JobsInv
  /\ \A c \in Conns : InOrder(c) /\ OpensOf(c)
  /\ \A n \in Sessions : Knows(n) /\ \A c \in Conns : EndsOf(n, c)

PeersInv == timeouts \in Nat /\ (Clean => LinkInv /\ AgreeInv)

\* What a step leaves alone, on a connection: its data, or what it means.
Still(c) == /\ Sent(c)' = Sent(c) /\ Bearing(c)' = Bearing(c)
            /\ conn'[c].queue = conn[c].queue /\ conn'[c].chain = conn[c].chain
Steady(c) == /\ Notices(c)' = Notices(c) /\ (InOrder(c) => InOrder(c)')
             /\ \A n \in Sessions : Ahead(n, c)' <=> Ahead(n, c)
-----------------------------------------------------------------------------
LEMMA ElemsIn ==
  ASSUME NEW S, NEW q \in Seq(S)
  PROVE  Elems(q) \subseteq S /\ (q # <<>> => Head(q) = q[1] /\ q[1] \in Elems(q))
BY DEF Elems

LEMMA ElemsAppend ==
  ASSUME NEW S, NEW q \in Seq(S), NEW x \in S
  PROVE  /\ Elems(Append(q, x)) = Elems(q) \cup {x}
         /\ \A T : OneIn(q, T) /\ (x \in T => Elems(q) \cap T = {}) => OneIn(Append(q, x), T)
<1> DEFINE r == Append(q, x)
           n == Len(q) + 1
<1>1. DOMAIN r = DOMAIN q \cup {n} /\ n \notin DOMAIN q /\ r[n] = x
  OBVIOUS
<1>2. \A i \in DOMAIN q : r[i] = q[i]
  OBVIOUS
<1> HIDE DEF r, n
<1>3. Elems(r) = Elems(q) \cup {x}
  BY <1>1, <1>2 DEF Elems
<1>4. ASSUME NEW T, OneIn(q, T), x \in T => Elems(q) \cap T = {}
      PROVE  OneIn(r, T)
  <2>1. ASSUME x \in T, NEW i \in DOMAIN q PROVE q[i] \notin T
    BY <1>4, <2>1 DEF Elems
  <2> QED BY <1>1, <1>2, <1>4, <2>1 DEF OneIn
<1> QED BY <1>3, <1>4 DEF r

LEMMA ElemsTail ==
  ASSUME NEW S, NEW q \in Seq(S), q # <<>>
  PROVE  /\ Elems(q) = Elems(Tail(q)) \cup {Head(q)}
         /\ \A T : OneIn(q, T) => /\ OneIn(Tail(q), T)
                                  /\ Head(q) \in T => Elems(Tail(q)) \cap T = {}
<1> DEFINE r == Tail(q)
<1>1. /\ Len(q) \in Nat \ {0} /\ DOMAIN q = 1 .. Len(q) /\ DOMAIN r = 1 .. Len(q) - 1
      /\ \A i \in DOMAIN r : r[i] = q[i + 1]
  OBVIOUS
<1>2. Head(q) = q[1]
  OBVIOUS
<1> HIDE DEF r
<1>3. \A i \in DOMAIN q : i = 1 \/ (i - 1 \in DOMAIN r /\ q[i] = r[i - 1])
  BY <1>1
<1>4. \A i \in DOMAIN r : i + 1 \in DOMAIN q /\ i + 1 # 1 /\ r[i] = q[i + 1] /\ i \in Nat
  BY <1>1
<1>5. 1 \in DOMAIN q
  BY <1>1
<1>6. Elems(q) = Elems(r) \cup {q[1]}
  <2>1. \A i \in DOMAIN q : q[i] \in Elems(r) \cup {q[1]}
    BY <1>3 DEF Elems
  <2>2. \A i \in DOMAIN r : r[i] \in Elems(q)
    BY <1>4 DEF Elems
  <2>3. q[1] \in Elems(q)
    BY <1>5 DEF Elems
  <2> QED BY <2>1, <2>2, <2>3 DEF Elems
<1>7. ASSUME NEW T, OneIn(q, T) PROVE OneIn(r, T)
  <2>1. ASSUME NEW i \in DOMAIN r, NEW j \in DOMAIN r, r[i] \in T, r[j] \in T
        PROVE  i = j
    <3>1. i + 1 = j + 1
      BY <1>4, <1>7, <2>1 DEF OneIn
    <3> QED BY <1>4, <2>1, <3>1
  <2> QED BY <2>1 DEF OneIn
<1>8. ASSUME NEW T, OneIn(q, T), q[1] \in T PROVE Elems(r) \cap T = {}
  <2>1. ASSUME NEW i \in DOMAIN r PROVE r[i] \notin T
    BY <1>4, <1>5, <1>8, <2>1 DEF OneIn
  <2> QED BY <2>1 DEF Elems
<1> QED BY <1>2, <1>6, <1>7, <1>8 DEF r

\* One more message, or one less, on the link.
LEMMA AskedAppend ==
  ASSUME WireTypes, \A c \in Conns : OneToken(c),
         NEW x \in Tpdus, Asks(x) => Asked(x.c) = {}, toCam' = Append(toCam, x)
  PROVE  /\ \A c \in Conns : OneToken(c)'
         /\ \A c \in Conns : Asked(c)' = IF Asks(x) /\ x.c = c THEN {x} ELSE Asked(c)
<1> HIDE DEF Tpdus, Messages
<1>1. /\ Elems(toCam') = Elems(toCam) \cup {x}
      /\ \A T : OneIn(toCam, T) /\ (x \in T => Elems(toCam) \cap T = {}) => OneIn(toCam', T)
  BY ElemsAppend DEF WireTypes
<1>2. ASSUME NEW c \in Conns
      PROVE  OneToken(c)' /\ Asked(c)' = IF Asks(x) /\ x.c = c THEN {x} ELSE Asked(c)
  <2>1. x \in TokensOf(c) <=> Asks(x) /\ x.c = c
    BY DEF TokensOf
  <2>2. x \in TokensOf(c) => Elems(toCam) \cap TokensOf(c) = {}
    BY <2>1 DEF Asked
  <2>3. OneToken(c)'
    BY <1>1, <1>2, <2>2 DEF OneToken
  <2>4. Asked(c)' = IF Asks(x) /\ x.c = c THEN {x} ELSE Asked(c)
    BY <1>1, <2>1, <2>2 DEF Asked
  <2> QED BY <2>3, <2>4
<1> QED BY <1>2

LEMMA AskedTail ==
  ASSUME WireTypes, \A c \in Conns : OneToken(c), toCam # <<>>, toCam' = Tail(toCam)
  PROVE  LET x == Head(toCam)
         IN /\ x \in Tpdus /\ x.c \in Conns /\ (Asks(x) => Asked(x.c) = {x})
            /\ \A c \in Conns : OneToken(c)'
            /\ \A c \in Conns : Asked(c)' = IF Asks(x) /\ x.c = c THEN {} ELSE Asked(c)
<1> HIDE DEF Tpdus, Messages
<1> DEFINE x == Head(toCam)
<1>1. /\ Elems(toCam) = Elems(toCam') \cup {x}
      /\ \A T : OneIn(toCam, T) => /\ OneIn(toCam', T)
                                   /\ x \in T => Elems(toCam') \cap T = {}
  BY ElemsTail DEF WireTypes
<1>2. x \in Tpdus
  BY SeqParts DEF WireTypes
<1>3. x.c \in Conns
  BY <1>2, TpduIn
<1> HIDE DEF x
<1>4. ASSUME NEW c \in Conns
      PROVE  /\ OneToken(c)'
             /\ Asked(c)' = IF Asks(x) /\ x.c = c THEN {} ELSE Asked(c)
  <2>1. x \in TokensOf(c) <=> Asks(x) /\ x.c = c
    BY <1>2 DEF TokensOf
  <2>2. OneToken(c)'
    BY <1>1 DEF OneToken
  <2>3. x \in TokensOf(c) => Elems(toCam') \cap TokensOf(c) = {}
    BY <1>1 DEF OneToken
  <2>4. Asked(c)' = IF Asks(x) /\ x.c = c THEN {} ELSE Asked(c)
    BY <1>1, <2>1, <2>3 DEF Asked
  <2> QED BY <2>2, <2>4
<1>5. Asks(x) => Asked(x.c) = {x}
  <2> SUFFICES ASSUME Asks(x) PROVE Asked(x.c) = {x}
      OBVIOUS
  <2>1. x \in TokensOf(x.c)
    BY <1>2 DEF TokensOf
  <2>2. Elems(toCam') \cap TokensOf(x.c) = {}
    BY <1>1, <1>3, <2>1 DEF OneToken
  <2> QED BY <1>1, <2>1, <2>2 DEF Asked
<1> QED BY <1>2, <1>3, <1>4, <1>5 DEF x

LEMMA ToldAppend ==
  ASSUME WireTypes, \A c \in Conns : OneMessage(c),
         NEW m \in Messages, Told(m[1].c) = {}, fromCam' = Append(fromCam, m)
  PROVE  /\ \A c \in Conns : OneMessage(c)'
         /\ \A c \in Conns : Told(c)' = IF m[1].c = c THEN {m} ELSE Told(c)
<1> HIDE DEF Tpdus, Messages
<1>1. /\ Elems(fromCam') = Elems(fromCam) \cup {m}
      /\ \A T : OneIn(fromCam, T) /\ (m \in T => Elems(fromCam) \cap T = {}) =>
           OneIn(fromCam', T)
  BY ElemsAppend DEF WireTypes
<1>2. ASSUME NEW c \in Conns
      PROVE  OneMessage(c)' /\ Told(c)' = IF m[1].c = c THEN {m} ELSE Told(c)
  <2>1. m \in MessagesOf(c) <=> m[1].c = c
    BY DEF MessagesOf
  <2>2. m \in MessagesOf(c) => Elems(fromCam) \cap MessagesOf(c) = {}
    BY <2>1 DEF Told
  <2>3. OneMessage(c)'
    BY <1>1, <1>2, <2>2 DEF OneMessage
  <2>4. Told(c)' = IF m[1].c = c THEN {m} ELSE Told(c)
    BY <1>1, <2>1, <2>2 DEF Told
  <2> QED BY <2>3, <2>4
<1> QED BY <1>2

LEMMA MessageHead ==
  ASSUME NEW m \in Messages
  PROVE  m \in Seq(Tpdus) /\ m # <<>> /\ m[1] \in Tpdus /\ m[1].c \in Conns /\ m[1] = Head(m)
<1>1. m \in Seq(Tpdus) /\ m # <<>>
  BY DEF Messages
<1>2. m[1] \in Tpdus /\ m[1] = Head(m)
  <2> HIDE DEF Tpdus
  <2> QED BY <1>1
<1> QED BY <1>1, <1>2, TpduIn

LEMMA ToldTail ==
  ASSUME WireTypes, \A c \in Conns : OneMessage(c), fromCam # <<>>, fromCam' = Tail(fromCam)
  PROVE  LET m == Head(fromCam)
         IN /\ m \in Messages /\ m[1].c \in Conns /\ Told(m[1].c) = {m}
            /\ \A c \in Conns : OneMessage(c)'
            /\ \A c \in Conns : Told(c)' = IF m[1].c = c THEN {} ELSE Told(c)
<1> HIDE DEF Tpdus, Messages
<1> DEFINE m == Head(fromCam)
<1>1. /\ Elems(fromCam) = Elems(fromCam') \cup {m}
      /\ \A T : OneIn(fromCam, T) => /\ OneIn(fromCam', T)
                                     /\ m \in T => Elems(fromCam') \cap T = {}
  BY ElemsTail DEF WireTypes
<1>2. m \in Messages
  BY SeqParts DEF WireTypes
<1>3. m[1].c \in Conns
  BY <1>2, MessageHead
<1> HIDE DEF m
<1>4. ASSUME NEW c \in Conns
      PROVE  /\ OneMessage(c)'
             /\ Told(c)' = IF m[1].c = c THEN {} ELSE Told(c)
  <2>1. m \in MessagesOf(c) <=> m[1].c = c
    BY <1>2 DEF MessagesOf
  <2>2. OneMessage(c)'
    BY <1>1 DEF OneMessage
  <2>3. m \in MessagesOf(c) => Elems(fromCam') \cap MessagesOf(c) = {}
    BY <1>1 DEF OneMessage
  <2>4. Told(c)' = IF m[1].c = c THEN {} ELSE Told(c)
    BY <1>1, <2>1, <2>3 DEF Told
  <2> QED BY <2>2, <2>4
<1>5. Told(m[1].c) = {m}
  <2>1. m \in MessagesOf(m[1].c)
    BY <1>2 DEF MessagesOf
  <2>2. Elems(fromCam') \cap MessagesOf(m[1].c) = {}
    BY <1>1, <1>3, <2>1 DEF OneMessage
  <2> QED BY <1>1, <2>1, <2>2 DEF Told
<1> QED BY <1>2, <1>3, <1>4, <1>5 DEF m
-----------------------------------------------------------------------------
(* The link: the steps of the stack thread *)

LEMMA NoElems == Elems(<<>>) = {}
BY DEF Elems

\* A connection about which nothing changes.
LEMMA LinkFrame ==
  ASSUME NEW c \in Conns, LinkOf(c), conn'[c] = conn[c],
         Asked(c)' = Asked(c), Told(c)' = Told(c), Msgs(c)' = Msgs(c),
         Held(c)' => Held(c), WaitsPart(c)' <=> WaitsPart(c),
         c \in cam'.open <=> c \in cam.open
  PROVE  LinkOf(c)'
<1>1. OneTurn(c)' /\ InState(c)'
  BY DEF LinkOf, OneTurn, InState
<1>2. Queues(c)'
  BY DEF LinkOf, Queues, Queued
<1>3. Chain(c)'
  BY DEF LinkOf, Chain
<1> QED BY <1>1, <1>2, <1>3 DEF LinkOf

\* A connection with which nothing happens that matters to a session.
LEMMA StillFrame ==
  ASSUME NEW c \in Conns, conn'[c].queue = conn[c].queue, conn'[c].chain = conn[c].chain,
         Asked(c)' = Asked(c), Bearing(c)' = Bearing(c)
  PROVE  Still(c)
BY DEF Still, Sent

LEMMA StillSteady ==
  ASSUME NEW c \in Conns, Still(c), stk.pc # "spdu", stk'.pc # "spdu"
  PROVE  Steady(c)
<1>1. Queued(c)' = Queued(c)
  BY DEF Still, Queued
<1>2. Notices(c)' = Notices(c)
  BY <1>1 DEF Still, Notices
<1>3. InOrder(c)' <=> InOrder(c)
  BY <1>1 DEF Still, InOrder
<1>4. \A n \in Sessions : Ahead(n, c)' <=> Ahead(n, c)
  BY DEF Still, Ahead
<1> QED BY <1>2, <1>3, <1>4 DEF Steady

\* The link does not change.
LEMMA SameWire ==
  ASSUME LinkInv, UNCHANGED <<toCam, fromCam>>
  PROVE  \A c \in Conns : /\ OneToken(c)' /\ OneMessage(c)'
                          /\ Asked(c)' = Asked(c) /\ Told(c)' = Told(c)
BY DEF LinkInv, OneToken, OneMessage, Asked, Told

LEMMA SameTold ==
  ASSUME LinkInv, UNCHANGED fromCam
  PROVE  \A c \in Conns : OneMessage(c)' /\ Told(c)' = Told(c)
BY DEF LinkInv, OneMessage, Told

LEMMA SameCam ==
  ASSUME UNCHANGED cam
  PROVE  \A c \in Conns : /\ WaitsPart(c)' <=> WaitsPart(c)
                          /\ c \in cam'.open <=> c \in cam.open
BY DEF WaitsPart

LEMMA ConnStep ==
  ASSUME ConnTypes, NEW c \in Conns, NEW r, Update(c, r)
  PROVE  conn'[c] = r /\ \A d \in Conns : d # c => conn'[d] = conn[d]
BY DEF ConnTypes, Update

\* The message in hand is the only one of its connection.
LEMMA InHand ==
  ASSUME LinkTypes, LinkInv, stk.pc = "tpdu"
  PROVE  /\ Handled.c \in Conns /\ Handled = stk.rest[1] /\ Handled \in Tpdus
         /\ Of = conn[Handled.c] /\ Of \in ConnRecs /\ LinkOf(Handled.c)
         /\ Held(Handled.c) /\ Asked(Handled.c) = {} /\ Told(Handled.c) = {}
         /\ Msgs(Handled.c) = {stk.rest} /\ Shape(stk.rest) /\ stk.rest \in Seq(Tpdus)
         /\ \A d \in Conns : d # Handled.c => ~Held(d) /\ Msgs(d) = Told(d)
<1> HIDE DEF Tpdus, ConnRecs
<1>1. /\ Handled \in Tpdus /\ Handled.c \in Conns /\ Of = conn[Handled.c] /\ Of \in ConnRecs
  BY HandledTypes
<1>2. stk.rest \in Seq(Tpdus) /\ stk.rest # <<>>
  BY DEF LinkTypes, StkTypes
<1>3. Handled = stk.rest[1]
  BY <1>2 DEF Handled
<1>4. LinkOf(Handled.c) /\ Held(Handled.c)
  BY <1>1, <1>2, <1>3 DEF LinkInv, Held
<1>5. Asked(Handled.c) = {} /\ Told(Handled.c) = {}
  BY <1>4 DEF LinkOf, OneTurn
<1>6. Msgs(Handled.c) = {stk.rest}
  BY <1>4, <1>5 DEF Msgs
<1>7. Shape(stk.rest)
  BY <1>4, <1>6 DEF LinkOf, InState
<1>8. \A d \in Conns : d # Handled.c => ~Held(d) /\ Msgs(d) = Told(d)
  BY <1>3 DEF Held, Msgs
<1> QED BY <1>1, <1>2, <1>3, <1>4, <1>5, <1>6, <1>7, <1>8

\* The last TPDU of a message, and the first of two, is dealt with.
LEMMA OnwardLast ==
  ASSUME Len(stk.rest) = 1, Onward, UNCHANGED fromCam
  PROVE  /\ RestInv' /\ stk'.pc = "conns"
         /\ \A c \in Conns : ~Held(c)' /\ Msgs(c)' = Told(c)
<1>1. stk'.pc = "conns" /\ stk'.rest = <<>>
  BY DEF Onward, NoStack
<1> QED BY <1>1 DEF RestInv, Held, Msgs, Told

LEMMA TailOfTwo ==
  ASSUME NEW S, NEW s \in Seq(S), Len(s) = 2
  PROVE  Tail(s) = <<s[2]>>
<1>1. s # <<>>
  OBVIOUS
<1>2. /\ Tail(s) \in Seq(S) /\ Len(Tail(s)) = 1
      /\ \A i \in 1 .. Len(Tail(s)) : Tail(s)[i] = s[i + 1]
  BY <1>1, HeadTailProperties
<1>3. s[2] \in S
  OBVIOUS
<1>4. <<s[2]>> \in Seq(S) /\ Len(<<s[2]>>) = 1 /\ <<s[2]>>[1] = s[2]
  BY <1>3
<1>5. \A i \in 1 .. 1 : Tail(s)[i] = <<s[2]>>[i]
  BY <1>2
<1> QED BY <1>2, <1>4, <1>5, SeqEqual, Zenon

LEMMA OnwardFirst ==
  ASSUME LinkTypes, Len(stk.rest) = 2, Shape(stk.rest), Onward, UNCHANGED fromCam,
         NEW c \in Conns, stk.rest[1].c = c
  PROVE  LET m == <<stk.rest[2]>>
         IN /\ RestInv' /\ stk'.pc = "tpdu" /\ stk'.rest = m
            /\ Shape(m) /\ m[1].tag \in Statuses
            /\ Msgs(c)' = Told(c) \cup {m}
            /\ \A d \in Conns : d # c => ~Held(d)' /\ Msgs(d)' = Told(d)
<1> DEFINE m == <<stk.rest[2]>>
<1>1. Tail(stk.rest) = m
  <2> HIDE DEF Tpdus
  <2> QED BY TailOfTwo DEF LinkTypes, StkTypes
<1>2. stk.rest[2].c = c /\ stk.rest[2].tag \in Statuses
  BY DEF Shape
<1>3. stk'.pc = "tpdu" /\ stk'.rest = m
  BY <1>1 DEF Onward, NoStack
<1>4. m # <<>> /\ Len(m) = 1 /\ m[1] = stk.rest[2]
  OBVIOUS
<1> HIDE DEF m
<1>5. Shape(m) /\ m[1].tag \in Statuses
  BY <1>2, <1>4 DEF Shape
<1>6. RestInv'
  BY <1>3 DEF RestInv
<1>7. Msgs(c)' = Told(c) \cup {m}
  BY <1>2, <1>3, <1>4 DEF Msgs, Held, Told
<1>8. \A d \in Conns : d # c => ~Held(d)' /\ Msgs(d)' = Told(d)
  BY <1>2, <1>3, <1>4 DEF Msgs, Held, Told
<1> QED BY <1>3, <1>5, <1>6, <1>7, <1>8 DEF m

LEMMA CreateReplyLink ==
  ASSUME LinkTypes, LinkInv, HandleCreateReply, UNCHANGED cam
  PROVE  LinkInv' /\ \A d \in Conns : Still(d)
<1>0. stk.pc = "tpdu" /\ Handled.tag = "create_reply" /\ Onward /\ UNCHANGED <<toCam, fromCam>>
  BY DEF HandleCreateReply, Now
<1> PICK c \in Conns : c = Handled.c
  BY <1>0, InHand
<1>1. /\ LinkOf(c) /\ Held(c) /\ Asked(c) = {} /\ Told(c) = {}
      /\ Msgs(c) = {stk.rest} /\ Shape(stk.rest) /\ stk.rest[1] = Handled
      /\ \A d \in Conns : d # c => ~Held(d) /\ Msgs(d) = Told(d)
  BY <1>0, InHand
<1>2. Of = conn[c] /\ Of \in ConnRecs
  BY <1>0, InHand
<1>3. /\ conn'[c].st = "active" /\ conn'[c].wait = "no" /\ conn'[c].chain = conn[c].chain
      /\ conn'[c].queue = conn[c].queue
      /\ \A d \in Conns : d # c => conn'[d] = conn[d]
  <2> DEFINE r == [Of EXCEPT !.st = "active", !.wait = "no"]
  <2>1. /\ r.st = "active" /\ r.wait = "no" /\ r.chain = conn[c].chain
        /\ r.queue = conn[c].queue
    BY <1>2 DEF ConnRecs
  <2>2. Update(c, r)
    BY DEF HandleCreateReply
  <2> HIDE DEF r
  <2>3. conn'[c] = r /\ \A d \in Conns : d # c => conn'[d] = conn[d]
    BY <1>1, <2>2, ConnStep DEF LinkTypes
  <2> QED BY <2>1, <2>3
<1>4. conn[c].st = "creation" /\ c \in cam.open /\ conn[c].queue = <<>>
      /\ conn[c].chain = NoSpdu
  BY <1>0, <1>1 DEF LinkOf, InState, Queues, Chain
<1>5. Len(stk.rest) = 2
  BY <1>0, <1>1 DEF Shape, Statuses
<1> DEFINE m == <<stk.rest[2]>>
<1>6. /\ RestInv' /\ Shape(m) /\ m[1].tag \in Statuses /\ Msgs(c)' = {m}
      /\ \A d \in Conns : d # c => ~Held(d)' /\ Msgs(d)' = Told(d)
  BY <1>0, <1>1, <1>5, OnwardFirst
<1>7. \A d \in Conns : /\ OneToken(d)' /\ OneMessage(d)'
                       /\ Asked(d)' = Asked(d) /\ Told(d)' = Told(d)
  BY <1>0, SameWire
<1>8. \A d \in Conns : (WaitsPart(d)' <=> WaitsPart(d)) /\ (d \in cam'.open <=> d \in cam.open)
  BY SameCam
<1> HIDE DEF m
<1>9. ASSUME NEW d \in Conns, d # c PROVE LinkOf(d)'
  BY <1>1, <1>3, <1>6, <1>7, <1>8, <1>9, LinkFrame DEF LinkInv
<1>10. OneTurn(c)' /\ InState(c)'
  BY <1>1, <1>3, <1>4, <1>6, <1>7, <1>8 DEF OneTurn, InState, Statuses
<1>11. Queues(c)' /\ Chain(c)'
  BY <1>1, <1>3, <1>4, <1>6, <1>7, <1>8, NoElems DEF Queues, Queued, Chain, Statuses
<1>12. \A d \in Conns : Bearing(d)' = Bearing(d)
  BY <1>0, <1>1, <1>6, <1>7 DEF Bearing, Statuses
<1>13. \A d \in Conns : Still(d)
  BY <1>3, <1>7, <1>12, StillFrame
<1> QED BY <1>6, <1>7, <1>9, <1>10, <1>11, <1>13 DEF LinkInv, LinkOf

LEMMA DeleteLink ==
  ASSUME LinkTypes, LinkInv, HandleDelete, ~stale', fails' = fails, UNCHANGED cam,
         LifeTypes
  PROVE  LinkInv' /\ \A d \in Conns : Still(d)
<1>0. /\ stk.pc = "tpdu" /\ Handled.tag = "delete" /\ UNCHANGED fromCam /\ Of.queue = <<>>
      /\ toCam' = Append(toCam, Plain("delete_reply", Handled.c))
      /\ stk' = [stk EXCEPT !.pc = "closing", !.at = Handled.c]
  <2>1. ~WriteFails
    BY DEF WriteFails, LinkTypes, WireTypes
  <2>2. Write(Plain("delete_reply", Handled.c))
        /\ stk' = [stk EXCEPT !.pc = "closing", !.at = Handled.c]
    BY <2>1, Zenon DEF HandleDelete
  <2>3. stk.pc = "tpdu" /\ Handled.tag = "delete" /\ UNCHANGED fromCam /\ Of.queue = <<>>
    BY DEF HandleDelete, Now
  <2> QED BY <2>2, <2>3 DEF Write
<1> PICK c \in Conns : c = Handled.c
  BY <1>0, InHand
<1>1. /\ LinkOf(c) /\ Held(c) /\ Asked(c) = {} /\ Told(c) = {}
      /\ Msgs(c) = {stk.rest} /\ Shape(stk.rest) /\ stk.rest[1] = Handled
      /\ \A d \in Conns : d # c => ~Held(d) /\ Msgs(d) = Told(d)
  BY <1>0, InHand
<1>2. Of = conn[c] /\ Of \in ConnRecs
  BY <1>0, InHand
<1>3. /\ conn'[c].st = "idle" /\ conn'[c].wait = conn[c].wait /\ conn'[c].chain = NoSpdu
      /\ conn'[c].queue = <<>>
      /\ \A d \in Conns : d # c => conn'[d] = conn[d]
  <2> DEFINE r == [Of EXCEPT !.st = "idle", !.chain = NoSpdu]
  <2>1. r.st = "idle" /\ r.wait = conn[c].wait /\ r.chain = NoSpdu /\ r.queue = <<>>
    BY <1>0, <1>2 DEF ConnRecs
  <2>2. Update(c, r)
    BY DEF HandleDelete
  <2> HIDE DEF r
  <2>3. conn'[c] = r /\ \A d \in Conns : d # c => conn'[d] = conn[d]
    BY <2>2, ConnStep DEF LinkTypes
  <2> QED BY <2>1, <2>3
<1>4. c \notin cam.open
  BY <1>0, <1>1 DEF LinkOf, InState
<1>5. Len(stk.rest) = 1
  BY <1>0, <1>1 DEF Shape, Openers
<1>6. stk'.pc = "closing" /\ stk'.at = c /\ stk'.rest = stk.rest
  BY <1>0 DEF LifeTypes
<1>7. RestInv' /\ \A d \in Conns : (Held(d)' <=> Held(d)) /\ Msgs(d)' = Told(d)'
  BY <1>1, <1>3, <1>5, <1>6 DEF RestInv, Held, Msgs
<1>8. \A d \in Conns : /\ OneToken(d)' /\ OneMessage(d)'
                       /\ Asked(d)' = Asked(d) /\ Told(d)' = Told(d)
  <2>1. Plain("delete_reply", c) \in Tpdus /\ ~Asks(Plain("delete_reply", c))
    BY TpduIn DEF TpduTags, Asks, Plain, Tpdu
  <2>2. \A d \in Conns : OneToken(d)' /\ Asked(d)' = Asked(d)
    BY <1>0, <2>1, AskedAppend DEF LinkInv, LinkTypes
  <2> QED BY <1>0, <2>2, SameTold
<1>9. ASSUME NEW d \in Conns, d # c PROVE LinkOf(d)'
  BY <1>1, <1>3, <1>7, <1>8, <1>9, SameCam, LinkFrame DEF LinkInv
<1>10. OneTurn(c)' /\ InState(c)'
  <2>1. conn[c].wait # "late"
    BY <1>1 DEF LinkOf, OneTurn
  <2> QED BY <1>1, <1>3, <1>4, <1>7, <1>8, <2>1 DEF OneTurn, InState
<1>11. Queues(c)' /\ Chain(c)'
  BY <1>1, <1>3, <1>7, <1>8 DEF Queues, Chain
<1>12. \A d \in Conns : Bearing(d)' = Bearing(d)
  BY <1>0, <1>1, <1>7, <1>8 DEF Bearing
<1>13. conn[c].chain = NoSpdu /\ conn[c].queue = <<>>
  BY <1>0, <1>1, <1>2 DEF LinkOf, Chain
<1>14. \A d \in Conns : Still(d)
  BY <1>3, <1>8, <1>12, <1>13, StillFrame
<1> QED BY <1>7, <1>8, <1>9, <1>10, <1>11, <1>14 DEF LinkInv, LinkOf

LEMMA MoreLink ==
  ASSUME LinkTypes, LinkInv, HandleMore, UNCHANGED cam
  PROVE  LinkInv' /\ \A d \in Conns : Steady(d)
<1>0. stk.pc = "tpdu" /\ Handled.tag = "more" /\ Onward /\ UNCHANGED <<toCam, fromCam>>
  BY DEF HandleMore, Now
<1> PICK c \in Conns : c = Handled.c
  BY <1>0, InHand
<1>1. /\ LinkOf(c) /\ Held(c) /\ Asked(c) = {} /\ Told(c) = {}
      /\ Msgs(c) = {stk.rest} /\ Shape(stk.rest) /\ stk.rest[1] = Handled
      /\ \A d \in Conns : d # c => ~Held(d) /\ Msgs(d) = Told(d)
  BY <1>0, InHand
<1>2. Of = conn[c] /\ Of \in ConnRecs
  BY <1>0, InHand
<1>3. /\ conn'[c].st = conn[c].st /\ conn'[c].wait = "no" /\ conn'[c].queue = conn[c].queue
      /\ conn'[c].chain = Chained
      /\ \A d \in Conns : d # c => conn'[d] = conn[d]
  <2> DEFINE r == [Of EXCEPT !.wait = "no", !.chain = Chained]
  <2>1. r.st = conn[c].st /\ r.wait = "no" /\ r.queue = conn[c].queue /\ r.chain = Chained
    BY <1>2 DEF ConnRecs
  <2>2. Update(c, r)
    BY DEF HandleMore
  <2> HIDE DEF r
  <2>3. conn'[c] = r /\ \A d \in Conns : d # c => conn'[d] = conn[d]
    BY <2>2, ConnStep DEF LinkTypes
  <2> QED BY <2>1, <2>3
<1>4. conn[c].st = "active" /\ c \in cam.open /\ WaitsPart(c)
      /\ \A t \in Queued(c) : t.tag = "last" /\ t.c = c
  BY <1>0, <1>1 DEF LinkOf, InState, Queues, Chain
<1>5. Len(stk.rest) = 2
  BY <1>0, <1>1 DEF Shape, Statuses
<1> DEFINE m == <<stk.rest[2]>>
<1>6. /\ RestInv' /\ Shape(m) /\ m[1].tag \in Statuses /\ Msgs(c)' = {m}
      /\ \A d \in Conns : d # c => ~Held(d)' /\ Msgs(d)' = Told(d)
  BY <1>0, <1>1, <1>5, OnwardFirst
<1>7. \A d \in Conns : /\ OneToken(d)' /\ OneMessage(d)'
                       /\ Asked(d)' = Asked(d) /\ Told(d)' = Told(d)
  BY <1>0, SameWire
<1>8. \A d \in Conns : (WaitsPart(d)' <=> WaitsPart(d)) /\ (d \in cam'.open <=> d \in cam.open)
  BY SameCam
<1> HIDE DEF m
<1>9. ASSUME NEW d \in Conns, d # c PROVE LinkOf(d)'
  BY <1>1, <1>3, <1>6, <1>7, <1>8, <1>9, LinkFrame DEF LinkInv
<1>10. OneTurn(c)' /\ InState(c)'
  BY <1>1, <1>3, <1>4, <1>6, <1>7, <1>8 DEF OneTurn, InState, Statuses
<1>11. Queues(c)' /\ Chain(c)'
  BY <1>1, <1>3, <1>4, <1>6, <1>7, <1>8 DEF Queues, Queued, Chain, Statuses
<1>12. conn'[c].chain = Handled.p
  BY <1>0, <1>1, <1>2, <1>3 DEF LinkOf, Chain, Chained
<1>13. conn[c].chain = NoSpdu /\ Bearing(c) = {stk.rest} /\ Bearing(c)' = {}
  BY <1>0, <1>1, <1>6 DEF LinkOf, Chain, Bearing, Statuses
<1>14. stk.pc # "spdu" /\ stk'.pc # "spdu"
  BY <1>0 DEF Onward, NoStack
<1>15. \A n \in Sessions : Ahead(n, c)' <=> Ahead(n, c)
  BY <1>0, <1>1, <1>3, <1>12, <1>13, <1>14 DEF Ahead, IsClose, NoSpdu, Spdu
<1>16. Queued(c)' = Queued(c) /\ Sent(c)' = Sent(c)
  BY <1>3, <1>7 DEF Queued, Sent
<1>17. Steady(c)
  BY <1>3, <1>15, <1>16 DEF Steady, Notices, InOrder
<1>18. ASSUME NEW d \in Conns, d # c PROVE Steady(d)
  <2>1. Bearing(d)' = Bearing(d)
    BY <1>1, <1>6, <1>7, <1>18 DEF Bearing
  <2> QED BY <1>3, <1>7, <1>14, <1>18, <2>1, StillFrame, StillSteady
<1> QED BY <1>6, <1>7, <1>9, <1>10, <1>11, <1>17, <1>18 DEF LinkInv, LinkOf

LEMMA LastLink ==
  ASSUME LifeTypes, LinkTypes, LinkInv, HandleLast, UNCHANGED <<cam, job>>, job.pc = "none"
  PROVE  LinkInv' /\ \A d \in Conns : Steady(d)
<1>0. /\ stk.pc = "tpdu" /\ Handled.tag = "last" /\ UNCHANGED <<toCam, fromCam>>
      /\ stk' = [stk EXCEPT !.pc = "spdu", !.at = Handled.c, !.spdu = Chained]
  BY DEF HandleLast, Now
<1> PICK c \in Conns : c = Handled.c
  BY <1>0, InHand
<1>1. /\ LinkOf(c) /\ Held(c) /\ Asked(c) = {} /\ Told(c) = {}
      /\ Msgs(c) = {stk.rest} /\ Shape(stk.rest) /\ stk.rest[1] = Handled
      /\ \A d \in Conns : d # c => ~Held(d) /\ Msgs(d) = Told(d)
  BY <1>0, InHand
<1>2. Of = conn[c] /\ Of \in ConnRecs
  BY <1>0, InHand
<1>3. /\ conn'[c].st = conn[c].st /\ conn'[c].wait = "no" /\ conn'[c].chain = NoSpdu
      /\ conn'[c].queue = conn[c].queue
      /\ \A d \in Conns : d # c => conn'[d] = conn[d]
  <2> DEFINE r == [Of EXCEPT !.wait = "no", !.chain = NoSpdu]
  <2>1. r.st = conn[c].st /\ r.wait = "no" /\ r.chain = NoSpdu /\ r.queue = conn[c].queue
    BY <1>2 DEF ConnRecs
  <2>2. Update(c, r)
    BY DEF HandleLast
  <2> HIDE DEF r
  <2>3. conn'[c] = r /\ \A d \in Conns : d # c => conn'[d] = conn[d]
    BY <2>2, ConnStep DEF LinkTypes
  <2> QED BY <2>1, <2>3
<1>4. conn[c].st = "active" /\ c \in cam.open
      /\ \A t \in Queued(c) : t.tag = "last" /\ t.c = c
  BY <1>0, <1>1 DEF LinkOf, InState, Queues
<1>5. Len(stk.rest) = 2
  BY <1>0, <1>1 DEF Shape, Statuses
<1>6. stk'.pc = "spdu" /\ stk'.at = c /\ stk'.rest = stk.rest
  BY <1>0 DEF LifeTypes
<1>7. RestInv' /\ \A d \in Conns : (Held(d)' <=> Held(d)) /\ Msgs(d)' = Told(d)'
  BY <1>1, <1>3, <1>5, <1>6 DEF RestInv, Held, Msgs, Shape, Statuses, Openers
<1>8. \A d \in Conns : /\ OneToken(d)' /\ OneMessage(d)'
                       /\ Asked(d)' = Asked(d) /\ Told(d)' = Told(d)
  BY <1>0, SameWire
<1>9. ASSUME NEW d \in Conns, d # c PROVE LinkOf(d)'
  BY <1>1, <1>3, <1>7, <1>8, <1>9, SameCam, LinkFrame DEF LinkInv
<1>10. OneTurn(c)' /\ InState(c)'
  BY <1>1, <1>3, <1>4, <1>7, <1>8, SameCam DEF OneTurn, InState
<1>11. Queues(c)' /\ Chain(c)'
  BY <1>1, <1>3, <1>4, <1>7, <1>8 DEF Queues, Queued, Chain
<1>12. stk'.spdu = Chained
  BY <1>0 DEF LifeTypes
<1>13. Bearing(c) = {stk.rest} /\ Bearing(c)' = {} /\ NoSpdu.k = "none"
  BY <1>0, <1>1, <1>7, <1>8 DEF Bearing, NoSpdu, Spdu
<1>14. \A n \in Sessions : Ahead(n, c)' <=> Ahead(n, c)
  BY <1>0, <1>1, <1>2, <1>3, <1>6, <1>12, <1>13 DEF Ahead, IsClose, Chained
<1>15. Queued(c)' = Queued(c) /\ Sent(c)' = Sent(c)
  BY <1>3, <1>8 DEF Queued, Sent
<1>16. Steady(c)
  BY <1>3, <1>14, <1>15 DEF Steady, Notices, InOrder
<1>17. ASSUME NEW d \in Conns, d # c PROVE Steady(d)
  <2>1. Bearing(d)' = Bearing(d)
    BY <1>1, <1>7, <1>8, <1>17 DEF Bearing
  <2>2. Still(d)
    BY <1>3, <1>8, <1>17, <2>1, StillFrame
  <2>3. Queued(d)' = Queued(d)
    BY <1>3, <1>17 DEF Queued
  <2>4. \A n \in Sessions : Ahead(n, d)' <=> Ahead(n, d)
    BY <1>0, <1>3, <1>6, <1>17, <2>1 DEF Ahead
  <2> QED BY <2>2, <2>3, <2>4 DEF Still, Steady, Notices, InOrder
<1> QED BY <1>7, <1>8, <1>9, <1>10, <1>11, <1>16, <1>17 DEF LinkInv, LinkOf

LEMMA SbLink ==
  ASSUME LinkTypes, LinkInv, HandleSb, fails' = fails, UNCHANGED cam
  PROVE  LinkInv' /\ \A d \in Conns : Still(d)
<1>0. stk.pc = "tpdu" /\ Handled.tag \in Statuses /\ Onward /\ UNCHANGED fromCam
  BY DEF HandleSb, Statuses, WriteFails, LinkTypes, WireTypes
<1> PICK c \in Conns : c = Handled.c
  BY <1>0, InHand
<1>1. /\ LinkOf(c) /\ Held(c) /\ Asked(c) = {} /\ Told(c) = {}
      /\ Msgs(c) = {stk.rest} /\ Shape(stk.rest) /\ stk.rest[1] = Handled
      /\ \A d \in Conns : d # c => ~Held(d) /\ Msgs(d) = Told(d)
  BY <1>0, InHand
<1>2. Of = conn[c] /\ Of \in ConnRecs
  BY <1>0, InHand
<1> DEFINE x == Plain("rcv", c)
<1>3. \/ toCam' = Append(toCam, x) /\ Update(c, [Of EXCEPT !.wait = "yes"])
      \/ toCam' = toCam /\ Update(c, [Of EXCEPT !.wait = "no"])
  BY DEF HandleSb, Write, WriteFails, LinkTypes, WireTypes
<1>4. ASSUME NEW w, Update(c, [Of EXCEPT !.wait = w])
      PROVE  /\ conn'[c].wait = w /\ conn'[c].st = conn[c].st
             /\ conn'[c].chain = conn[c].chain /\ conn'[c].queue = conn[c].queue
             /\ \A d \in Conns : d # c => conn'[d] = conn[d]
  <2> DEFINE r == [Of EXCEPT !.wait = w]
  <2>1. r.st = conn[c].st /\ r.wait = w /\ r.chain = conn[c].chain /\ r.queue = conn[c].queue
    BY <1>2 DEF ConnRecs
  <2>2. Update(c, r)
    BY <1>4
  <2> HIDE DEF r
  <2>3. conn'[c] = r /\ \A d \in Conns : d # c => conn'[d] = conn[d]
    BY <2>2, ConnStep DEF LinkTypes
  <2> QED BY <2>1, <2>3
<1>5. conn[c].st = "active" /\ c \in cam.open
      /\ \A t \in Queued(c) : t.tag = "last" /\ t.c = c
  BY <1>0, <1>1 DEF LinkOf, InState, Queues, Statuses
<1>6. conn[c].chain # NoSpdu => WaitsPart(c)
  BY <1>0, <1>1 DEF LinkOf, Chain, Statuses
<1>7. Len(stk.rest) = 1
  BY <1>0, <1>1 DEF Shape, Openers, Statuses
<1>8. RestInv' /\ \A d \in Conns : ~Held(d)' /\ Msgs(d)' = Told(d)
  BY <1>0, <1>7, OnwardLast
<1>9. x \in Tpdus /\ Asks(x) /\ x.c = c /\ x.tag = "rcv"
  BY TpduIn DEF TpduTags, Asks, Plain, Tpdu
<1> HIDE DEF x
<1>10. /\ \A d \in Conns : /\ OneToken(d)' /\ OneMessage(d)' /\ Told(d)' = Told(d)
                           /\ d # c => Asked(d)' = Asked(d) /\ conn'[d] = conn[d]
       /\ \/ Asked(c)' = {x} /\ conn'[c].wait = "yes"
          \/ Asked(c)' = {} /\ conn'[c].wait = "no"
       /\ conn'[c].st = conn[c].st /\ conn'[c].chain = conn[c].chain
       /\ conn'[c].queue = conn[c].queue
  <2>1. \A d \in Conns : OneMessage(d)' /\ Told(d)' = Told(d)
    BY <1>0, SameTold
  <2>2. CASE toCam' = Append(toCam, x) /\ Update(c, [Of EXCEPT !.wait = "yes"])
    <3>1. /\ \A d \in Conns : OneToken(d)'
          /\ \A d \in Conns : Asked(d)' = IF Asks(x) /\ x.c = d THEN {x} ELSE Asked(d)
      BY <1>1, <1>9, <2>2, AskedAppend DEF LinkInv, LinkTypes
    <3> QED BY <1>4, <1>9, <2>1, <2>2, <3>1
  <2>3. CASE toCam' = toCam /\ Update(c, [Of EXCEPT !.wait = "no"])
    <3>1. \A d \in Conns : OneToken(d)' /\ Asked(d)' = Asked(d)
      BY <1>0, <2>3, SameWire
    <3> QED BY <1>1, <1>4, <2>1, <2>3, <3>1
  <2> QED BY <1>3, <2>2, <2>3
<1>11. ASSUME NEW d \in Conns, d # c PROVE LinkOf(d)'
  BY <1>1, <1>8, <1>10, <1>11, SameCam, LinkFrame DEF LinkInv
<1>12. OneTurn(c)' /\ InState(c)'
  BY <1>1, <1>5, <1>8, <1>9, <1>10, SameCam DEF OneTurn, InState
<1>13. Queues(c)' /\ Chain(c)'
  BY <1>1, <1>5, <1>6, <1>8, <1>10, SameCam DEF Queues, Queued, Chain
<1>14. \A d \in Conns : Bearing(d)' = Bearing(d)
  BY <1>0, <1>1, <1>8, <1>10 DEF Bearing, Statuses
<1>15. \A d \in Conns : Sent(d)' = Sent(d)
  BY <1>1, <1>9, <1>10 DEF Sent, IsNotice
<1>16. \A d \in Conns : Still(d)
  BY <1>10, <1>14, <1>15 DEF Still
<1> QED BY <1>8, <1>10, <1>11, <1>12, <1>13, <1>16 DEF LinkInv, LinkOf

LEMMA AskedTwo ==
  ASSUME WireTypes, \A c \in Conns : OneToken(c), NEW x \in Tpdus, NEW y \in Tpdus,
         ~Asks(x), Asks(y), Asked(y.c) = {}, toCam' = toCam \o <<x, y>>
  PROVE  /\ \A c \in Conns : OneToken(c)'
         /\ \A c \in Conns : Asked(c)' = IF y.c = c THEN {y} ELSE Asked(c)
<1> HIDE DEF Tpdus, Messages
<1> DEFINE q == Append(toCam, x)
<1>1. q \in Seq(Tpdus) /\ toCam' = Append(q, y)
  BY DEF WireTypes
<1>2. /\ Elems(q) = Elems(toCam) \cup {x}
      /\ \A T : OneIn(toCam, T) /\ (x \in T => Elems(toCam) \cap T = {}) => OneIn(q, T)
  BY ElemsAppend DEF WireTypes
<1> HIDE DEF q
<1>3. /\ Elems(toCam') = Elems(q) \cup {y}
      /\ \A T : OneIn(q, T) /\ (y \in T => Elems(q) \cap T = {}) => OneIn(toCam', T)
  <2>1. /\ Elems(Append(q, y)) = Elems(q) \cup {y}
        /\ \A T : OneIn(q, T) /\ (y \in T => Elems(q) \cap T = {}) => OneIn(Append(q, y), T)
    BY <1>1, ElemsAppend
  <2> QED BY <1>1, <2>1, Zenon
<1>4. ASSUME NEW c \in Conns
      PROVE  OneToken(c)' /\ Asked(c)' = IF y.c = c THEN {y} ELSE Asked(c)
  <2>1. x \notin TokensOf(c) /\ (y \in TokensOf(c) <=> y.c = c)
    BY DEF TokensOf
  <2>2. Elems(q) \cap TokensOf(c) = Asked(c)
    BY <1>2, <2>1 DEF Asked
  <2>3. OneIn(q, TokensOf(c))
    BY <1>2, <1>4, <2>1 DEF OneToken
  <2>4. y \in TokensOf(c) => Elems(q) \cap TokensOf(c) = {}
    BY <2>1, <2>2
  <2>5. OneToken(c)'
    BY <1>3, <2>3, <2>4 DEF OneToken
  <2>6. Asked(c)' = IF y.c = c THEN {y} ELSE Asked(c)
    BY <1>3, <2>1, <2>2, <2>4 DEF Asked
  <2> QED BY <2>5, <2>6
<1> QED BY <1>4

\* An idle connection is out of use: nothing is on its way.
LEMMA IdleLink ==
  ASSUME LinkInv, NEW c \in Conns, conn[c].st = "idle", stk.pc = "tpdu"
  PROVE  /\ Asked(c) = {} /\ Msgs(c) = {} /\ Told(c) = {} /\ ~Held(c)
         /\ conn[c].queue = <<>> /\ c \notin cam.open
<1>1. Asked(c) = {} /\ Msgs(c) = {} /\ conn[c].queue = <<>>
  BY DEF LinkInv, LinkOf, InState, Queues
<1>2. c \notin cam.open
  BY <1>1 DEF LinkInv, LinkOf, InState
<1> QED BY <1>1, <1>2 DEF Msgs

LEMMA RequestLink ==
  ASSUME LinkTypes, LinkInv, HandleRequest, fails' = fails, UNCHANGED cam
  PROVE  LinkInv' /\ \A d \in Conns : Still(d)
<1>0. stk.pc = "tpdu" /\ Handled.tag = "request" /\ UNCHANGED fromCam
  BY DEF HandleRequest, Now
<1> PICK c \in Conns : c = Handled.c
  BY <1>0, InHand
<1>1. /\ LinkOf(c) /\ Held(c) /\ Asked(c) = {} /\ Told(c) = {}
      /\ Msgs(c) = {stk.rest} /\ Shape(stk.rest) /\ stk.rest[1] = Handled
      /\ \A d \in Conns : d # c => ~Held(d) /\ Msgs(d) = Told(d)
  BY <1>0, InHand
<1>2. Of = conn[c] /\ Of \in ConnRecs
  BY <1>0, InHand
<1>3. conn[c].st = "active" /\ c \in cam.open
      /\ \A t \in Queued(c) : t.tag = "last" /\ t.c = c
  BY <1>0, <1>1 DEF LinkOf, InState, Queues
<1>4. conn[c].chain # NoSpdu => WaitsPart(c)
  BY <1>0, <1>1 DEF LinkOf, Chain
<1>5. Len(stk.rest) = 2
  BY <1>0, <1>1 DEF Shape, Statuses
<1> DEFINE m == <<stk.rest[2]>>
           new == Lowest(IdleConns)
           x == Tpdu("new", c, Spdu("conn", new, "none"))
           y == Plain("create", new)
<1>6. \A d \in Conns : OneMessage(d)' /\ Told(d)' = Told(d)
  BY <1>0, SameTold
<1>7. Onward =>
        /\ RestInv' /\ Shape(m) /\ m[1].tag \in Statuses /\ Msgs(c)' = {m}
        /\ \A d \in Conns : d # c => ~Held(d)' /\ Msgs(d)' = Told(d)
  BY <1>0, <1>1, <1>5, OnwardFirst
<1> HIDE DEF m
\* What the connection of the request is left with, in both cases.
<1>8. ASSUME Onward, \A d \in Conns : OneToken(d)', Asked(c)' = {},
             conn'[c].wait = "no", conn'[c].st = conn[c].st,
             conn'[c].chain = conn[c].chain, conn'[c].queue = conn[c].queue,
             \A d \in Conns : d # c => LinkOf(d)'
      PROVE  LinkInv' /\ Bearing(c)' = Bearing(c)
  <2>1. OneTurn(c)' /\ InState(c)'
    BY <1>1, <1>3, <1>6, <1>7, <1>8, SameCam DEF OneTurn, InState, Statuses
  <2>2. Queues(c)' /\ Chain(c)'
    BY <1>1, <1>3, <1>4, <1>6, <1>7, <1>8, SameCam DEF Queues, Queued, Chain, Statuses
  <2>3. Bearing(c)' = Bearing(c)
    BY <1>0, <1>1, <1>6, <1>7, <1>8 DEF Bearing, Statuses
  <2> QED BY <1>6, <1>7, <1>8, <2>1, <2>2, <2>3 DEF LinkInv, LinkOf
<1>9. CASE /\ Write(Plain("tc_error", c))
           /\ Update(c, [Of EXCEPT !.wait = "no"])
           /\ Onward
  <2>1. Plain("tc_error", c) \in Tpdus /\ ~Asks(Plain("tc_error", c))
    BY TpduIn DEF TpduTags, Asks, Plain, Tpdu
  <2>2. \A d \in Conns : OneToken(d)' /\ Asked(d)' = Asked(d)
    BY <1>9, <2>1, AskedAppend DEF LinkInv, LinkTypes, Write
  <2> DEFINE r == [Of EXCEPT !.wait = "no"]
  <2>3. r.st = conn[c].st /\ r.wait = "no" /\ r.chain = conn[c].chain /\ r.queue = conn[c].queue
    BY <1>2 DEF ConnRecs
  <2>4. Update(c, r)
    BY <1>9
  <2> HIDE DEF r
  <2>5. conn'[c] = r /\ \A d \in Conns : d # c => conn'[d] = conn[d]
    BY <2>4, ConnStep DEF LinkTypes
  <2>6. ASSUME NEW d \in Conns, d # c PROVE LinkOf(d)'
    BY <1>1, <1>6, <1>7, <1>9, <2>2, <2>5, <2>6, SameCam, LinkFrame DEF LinkInv
  <2>7. LinkInv' /\ Bearing(c)' = Bearing(c)
    BY <1>1, <1>8, <1>9, <2>2, <2>3, <2>5, <2>6
  <2>8. \A d \in Conns : d # c => Bearing(d)' = Bearing(d)
    BY <1>1, <1>6, <1>7, <1>9 DEF Bearing
  <2> QED BY <2>2, <2>3, <2>5, <2>7, <2>8, StillFrame
<1>10. CASE /\ IdleConns # {}
            /\ toCam' = toCam \o <<x, y>>
            /\ conn' = [conn EXCEPT ![c].wait = "no", ![new].st = "creation",
                                    ![new].wait = "yes", ![new].chain = NoSpdu]
            /\ Onward
  <2>1. new \in Conns /\ conn[new].st = "idle"
    BY <1>10, LowestConn DEF IdleConns
  <2> PICK e \in Conns : e = new
    BY <2>1
  <2>2. /\ x \in Tpdus /\ y \in Tpdus /\ ~Asks(x) /\ Asks(y) /\ y.c = e /\ y.tag = "create"
    <3>1. Spdu("conn", e, "none") \in Spdus
      BY SpduIn, ConnsNat DEF SpduKinds, SpduArgs
    <3>2. x \in Tpdus /\ y \in Tpdus
      BY <3>1, TpduIn DEF TpduTags
    <3> QED BY <3>2 DEF Asks, Plain, Tpdu
  <2>3. /\ conn[e].st = "idle" /\ e # c
        /\ conn' = [conn EXCEPT ![c].wait = "no", ![e].st = "creation",
                                ![e].wait = "yes", ![e].chain = NoSpdu]
        /\ toCam' = toCam \o <<x, y>>
    BY <1>3, <1>10, <2>1
  <2> HIDE DEF new, x, y
  <2>4. /\ Asked(e) = {} /\ Msgs(e) = {} /\ Told(e) = {} /\ ~Held(e)
        /\ conn[e].queue = <<>> /\ e \notin cam.open
    BY <1>0, <2>3, IdleLink
  <2>5. /\ \A d \in Conns : OneToken(d)'
        /\ \A d \in Conns : Asked(d)' = IF e = d THEN {y} ELSE Asked(d)
    BY <2>2, <2>3, <2>4, AskedTwo DEF LinkInv, LinkTypes
  <2>6. /\ conn'[c].wait = "no" /\ conn'[c].st = conn[c].st
        /\ conn'[c].chain = conn[c].chain /\ conn'[c].queue = conn[c].queue
    <3>1. conn \in [Conns -> ConnRecs] /\ conn[c] \in ConnRecs
      BY DEF LinkTypes, ConnTypes
    <3>2. conn'[c] = [conn[c] EXCEPT !.wait = "no"]
      <4> HIDE DEF ConnRecs
      <4> QED BY <2>3, <3>1
    <3> QED BY <3>1, <3>2 DEF ConnRecs
  <2>7. /\ conn'[e].st = "creation" /\ conn'[e].wait = "yes" /\ conn'[e].chain = NoSpdu
        /\ conn'[e].queue = <<>>
    <3>1. conn \in [Conns -> ConnRecs] /\ conn[e] \in ConnRecs
      BY DEF LinkTypes, ConnTypes
    <3>2. conn'[e] = [conn[e] EXCEPT !.st = "creation", !.wait = "yes", !.chain = NoSpdu]
      <4> HIDE DEF ConnRecs
      <4> QED BY <2>3, <3>1
    <3> QED BY <2>4, <3>1, <3>2 DEF ConnRecs
  <2>8. \A d \in Conns : d # c /\ d # e => conn'[d] = conn[d]
    BY <2>3 DEF LinkTypes, ConnTypes
  <2>9. ASSUME NEW d \in Conns, d # c, d # e PROVE LinkOf(d)'
    BY <1>1, <1>6, <1>7, <1>10, <2>5, <2>8, <2>9, SameCam, LinkFrame DEF LinkInv
  <2>10. LinkOf(e)'
    <3>1. Msgs(e)' = {} /\ Told(e)' = {} /\ ~Held(e)' /\ e \notin cam'.open /\ Asked(e)' = {y}
      BY <1>6, <1>7, <1>10, <2>3, <2>4, <2>5
    <3>2. OneTurn(e)' /\ InState(e)'
      BY <2>2, <2>7, <3>1 DEF OneTurn, InState
    <3>3. Queues(e)' /\ Chain(e)'
      BY <2>7, <3>1 DEF Queues, Chain
    <3> QED BY <3>2, <3>3 DEF LinkOf
  <2>11. LinkInv' /\ Bearing(c)' = Bearing(c)
    BY <1>1, <1>8, <1>10, <2>3, <2>5, <2>6, <2>9, <2>10
  <2>12. \A d \in Conns : d # c => Bearing(d)' = Bearing(d)
    BY <1>1, <1>6, <1>7, <1>10 DEF Bearing
  <2>13. Sent(e)' = {} /\ Sent(e) = {} /\ conn[e].chain = NoSpdu
    BY <1>6, <2>2, <2>3, <2>4, <2>5 DEF Sent, IsNotice, LinkInv, LinkOf, Chain
  <2>14. Still(e)
    BY <2>3, <2>4, <2>7, <2>12, <2>13 DEF Still
  <2>15. \A d \in Conns : d # e => Still(d)
    BY <2>5, <2>6, <2>8, <2>11, <2>12, StillFrame
  <2> QED BY <2>11, <2>14, <2>15
<1>11. ~WriteFails /\ fails' # fails + 1
  BY DEF WriteFails, LinkTypes, WireTypes
<1> QED BY <1>9, <1>10, <1>11, Zenon DEF HandleRequest

\* The stack thread puts its message away.
LEMMA Emptied ==
  ASSUME stk'.rest = <<>>, stk'.pc \notin {"tpdu", "spdu", "closing"}
  PROVE  RestInv' /\ \A c \in Conns : ~Held(c)' /\ Msgs(c)' = Told(c)'
BY DEF RestInv, Held, Msgs

\* Nothing but the places of the threads changes, the stack thread has no message.
LEMMA QuietLink ==
  ASSUME LinkInv, UNCHANGED <<conn, toCam, fromCam, cam>>,
         stk.rest = <<>>, stk.pc # "tpdu", stk'.rest = <<>>,
         stk'.pc \notin {"tpdu", "spdu", "closing"}
  PROVE  LinkInv' /\ \A d \in Conns : Still(d)
<1>1. \A c \in Conns : /\ OneToken(c)' /\ OneMessage(c)'
                       /\ Asked(c)' = Asked(c) /\ Told(c)' = Told(c)
  BY SameWire
<1>2. \A c \in Conns : Msgs(c)' = Msgs(c) /\ ~Held(c)'
  BY <1>1, Emptied DEF Msgs
<1>3. ASSUME NEW c \in Conns PROVE LinkOf(c)'
  BY <1>1, <1>2, SameCam, LinkFrame DEF LinkInv
<1>4. \A d \in Conns : Still(d)
  BY <1>1, <1>2 DEF Still, Sent, Bearing
<1> QED BY <1>1, <1>3, <1>4, Emptied DEF LinkInv

LEMMA ReadLink ==
  ASSUME LinkTypes, LinkInv, PollRead, fails' = fails, UNCHANGED cam
  PROVE  LinkInv' /\ \A d \in Conns : Still(d)
<1>0. /\ stk.pc = "poll" /\ stk.rest = <<>> /\ UNCHANGED <<conn, toCam>>
      /\ ~(fails' = fails + 1)
  BY DEF PollRead, LinkInv, RestInv, LinkTypes, WireTypes
<1>1. CASE fromCam = <<>>
  <2>1. stk' = [NoStack EXCEPT !.pc = "conns", !.at = 1] /\ UNCHANGED fromCam
    BY <1>1 DEF PollRead
  <2>2. stk'.rest = <<>> /\ stk'.pc = "conns"
    BY <2>1 DEF NoStack
  <2> QED BY <1>0, <2>1, <2>2, QuietLink
<1>2. CASE fromCam # <<>>
  <2>1. /\ fromCam' = Tail(fromCam)
        /\ stk' = [NoStack EXCEPT !.pc = "tpdu", !.rest = Head(fromCam)]
    BY <1>0, <1>2 DEF PollRead
  <2>2. stk'.pc = "tpdu" /\ stk'.rest = Head(fromCam)
    BY <2>1 DEF NoStack
  <2> PICK m : m = Head(fromCam)
    OBVIOUS
  <2>3. /\ m \in Messages /\ m[1].c \in Conns /\ Told(m[1].c) = {m}
        /\ \A d \in Conns : OneMessage(d)'
        /\ \A d \in Conns : Told(d)' = IF m[1].c = d THEN {} ELSE Told(d)
    BY <1>2, <2>1, ToldTail DEF LinkInv, LinkTypes
  <2> PICK c \in Conns : c = m[1].c
    BY <2>3
  <2>4. m # <<>>
    BY <2>3 DEF Messages
  <2>5. \A d \in Conns : OneToken(d)' /\ Asked(d)' = Asked(d)
    BY <1>0 DEF LinkInv, OneToken, Asked
  <2>6. \A d \in Conns : /\ Held(d)' <=> d = c
                         /\ Msgs(d)' = Msgs(d)
                         /\ Msgs(d) = Told(d)
    BY <1>0, <2>2, <2>3, <2>4 DEF Held, Msgs
  <2>7. ASSUME NEW d \in Conns, d # c PROVE LinkOf(d)'
    BY <1>0, <2>3, <2>5, <2>6, <2>7, SameCam, LinkFrame DEF LinkInv
  <2>8. OneTurn(c)'
    BY <1>0, <2>3, <2>5, <2>6 DEF LinkInv, LinkOf, OneTurn
  <2>9. InState(c)'
    BY <1>0, <2>5, <2>6, SameCam DEF LinkInv, LinkOf, InState
  <2>10. Queues(c)' /\ Chain(c)'
    BY <1>0, <2>5, <2>6, SameCam DEF LinkInv, LinkOf, Queues, Queued, Chain
  <2>11. RestInv'
    BY <2>2 DEF RestInv
  <2>12. \A d \in Conns : Still(d)
    BY <1>0, <2>5, <2>6 DEF Still, Sent, Bearing
  <2> QED BY <2>3, <2>5, <2>7, <2>8, <2>9, <2>10, <2>11, <2>12 DEF LinkInv, LinkOf
<1> QED BY <1>1, <1>2

LEMMA NextConnRest ==
  ASSUME LifeTypes, stk.pc = "conns", stk.rest = <<>>, NextConn
  PROVE  stk'.rest = <<>> /\ stk'.pc \notin {"tpdu", "spdu", "closing"}
<1>1. CASE PollReturns
  BY <1>1 DEF PollReturns, NoStack
<1>2. CASE stk' = [stk EXCEPT !.at = @ + 1]
  BY <1>2 DEF LifeTypes
<1> QED BY <1>1, <1>2 DEF NextConn

\* The connection of which it is the turn is asked something.
LEMMA ServeAsks ==
  ASSUME LifeTypes, LinkTypes, LinkInv, stk.pc = "conns", NextConn, UNCHANGED <<fromCam, cam>>,
         NEW c \in Conns, conn[c].wait = "no", conn[c].st # "idle",
         NEW x \in Tpdus, Asks(x), x.c = c, toCam' = Append(toCam, x),
         conn[c].st = IF x.tag = "create" THEN "creation" ELSE "active",
         \A d \in Conns : d # c => conn'[d] = conn[d],
         conn'[c].st = conn[c].st, conn'[c].wait = "yes", conn'[c].chain = conn[c].chain,
         conn'[c].st = "creation" => conn'[c].queue = <<>>,
         Queued(c)' \subseteq Queued(c)
  PROVE  /\ LinkInv' /\ \A d \in Conns : d # c => Still(d)
         /\ Sent(c) = {} /\ Sent(c)' = {t \in {x} : IsNotice(t)} /\ Bearing(c)' = Bearing(c)
<1>1. stk.rest = <<>> /\ LinkOf(c)
  BY DEF LinkInv, RestInv
<1>2. RestInv' /\ \A d \in Conns : ~Held(d)' /\ Msgs(d)' = Told(d)'
  BY <1>1, NextConnRest, Emptied
<1>3. Asked(c) = {} /\ Told(c) = {}
  BY <1>1 DEF LinkOf, OneTurn
<1>4. \A d \in Conns : OneMessage(d)' /\ Told(d)' = Told(d) /\ Msgs(d) = Told(d)
  BY SameTold DEF Msgs
<1>5. /\ \A d \in Conns : OneToken(d)'
      /\ \A d \in Conns : Asked(d)' = IF d = c THEN {x} ELSE Asked(d)
  BY <1>3, AskedAppend DEF LinkInv, LinkTypes
<1>6. ASSUME NEW d \in Conns, d # c PROVE LinkOf(d)'
  BY <1>2, <1>4, <1>5, <1>6, SameCam, LinkFrame DEF LinkInv
<1>7. OneTurn(c)' /\ InState(c)'
  BY <1>1, <1>2, <1>3, <1>4, <1>5, SameCam DEF LinkOf, OneTurn, InState
<1>8. Queues(c)' /\ Chain(c)'
  BY <1>1, <1>2, <1>3, <1>4, <1>5, SameCam DEF LinkOf, Queues, Chain
<1>9. \A d \in Conns : Bearing(d)' = Bearing(d)
  BY <1>2, <1>4 DEF Bearing
<1>10. \A d \in Conns : d # c => Still(d)
  BY <1>5, <1>9, StillFrame
<1>11. Sent(c) = {} /\ Sent(c)' = {t \in {x} : IsNotice(t)}
  BY <1>3, <1>5 DEF Sent
<1> QED BY <1>2, <1>4, <1>5, <1>6, <1>7, <1>8, <1>9, <1>10, <1>11 DEF LinkInv, LinkOf

\* The first message of a queue: what it is, by the state of the connection.
LEMMA QueueHead ==
  ASSUME ConnTypes, NEW c \in Conns, LinkOf(c), conn[c].st # "idle", conn[c].queue # <<>>,
         conn[c].wait = "no"
  PROVE  LET x == Head(conn[c].queue)
         IN /\ x \in Tpdus /\ Asks(x) /\ x.c = c /\ x.tag \in {"create", "last"}
            /\ conn[c].st = IF x.tag = "create" THEN "creation" ELSE "active"
            /\ Elems(Tail(conn[c].queue)) \cup {x} = Queued(c)
            /\ conn[c].st = "creation" => Tail(conn[c].queue) = <<>>
<1> DEFINE q == conn[c].queue
           x == Head(q)
<1>1. q \in Seq(Tpdus) /\ conn[c].st \in {"idle", "creation", "active"}
  BY DEF ConnTypes, ConnRecs
<1> HIDE DEF q
<1>2. x \in Tpdus /\ x \in Elems(q) /\ Elems(q) = Elems(Tail(q)) \cup {x}
  <2> HIDE DEF Tpdus
  <2>1. q # <<>>
    BY DEF q
  <2> QED BY <1>1, <2>1, ElemsIn, ElemsTail
<1>3. CASE conn[c].st = "creation"
  <2>1. q = <<Plain("create", c)>>
    BY <1>3 DEF LinkOf, Queues, q
  <2>2. x = Plain("create", c) /\ Tail(q) = <<>>
    BY <2>1
  <2>3. x.tag = "create" /\ x.c = c
    BY <2>2 DEF Plain, Tpdu
  <2> QED BY <1>2, <1>3, <2>2, <2>3 DEF Queued, q, Asks
<1>4. CASE conn[c].st = "active"
  <2>1. x.tag = "last" /\ x.c = c
    BY <1>2, <1>4 DEF LinkOf, Queues, Queued, q
  <2> QED BY <1>2, <1>4, <2>1 DEF Queued, q, Asks
<1> QED BY <1>1, <1>3, <1>4

\* Sending keeps the order of the answers.
LEMMA SendInOrder ==
  ASSUME ConnTypes, NEW c \in Conns, InOrder(c), conn[c].queue # <<>>,
         conn'[c].queue = Tail(conn[c].queue), \A t \in Sent(c)' : t = Head(conn[c].queue)
  PROVE  InOrder(c)'
<1> PICK q : q = conn[c].queue
  OBVIOUS
<1>1. q \in Seq(Tpdus) /\ q # <<>> /\ conn'[c].queue = Tail(q)
  BY DEF ConnTypes, ConnRecs
<1>2. /\ 1 \in DOMAIN q /\ Head(q) = q[1]
      /\ \A k \in DOMAIN Tail(q) : /\ k \in Nat \ {0} /\ k + 1 \in DOMAIN q
                                  /\ Tail(q)[k] = q[k + 1]
  <2> HIDE DEF Tpdus
  <2> QED BY <1>1
<1>3. \A k, l \in DOMAIN q : k < l /\ q[k].p.k = "open_ok" => ~About(q[l].p, q[k].p.n)
  BY DEF InOrder
<1>4. ASSUME NEW t \in Sent(c)', NEW u \in Queued(c)', t.p.k = "open_ok"
      PROVE  ~About(u.p, t.p.n)
  <2>1. t = q[1]
    BY <1>2
  <2>2. PICK k \in DOMAIN Tail(q) : u = Tail(q)[k]
    BY <1>1, <1>4 DEF Queued, Elems
  <2>3. k + 1 \in DOMAIN q /\ u = q[k + 1] /\ 1 < k + 1
    BY <1>2, <2>2
  <2> QED BY <1>2, <1>3, <1>4, <2>1, <2>3
<1>5. ASSUME NEW k \in DOMAIN Tail(q), NEW l \in DOMAIN Tail(q), k < l,
             Tail(q)[k].p.k = "open_ok"
      PROVE  ~About(Tail(q)[l].p, Tail(q)[k].p.n)
  <2>1. k + 1 \in DOMAIN q /\ l + 1 \in DOMAIN q /\ k + 1 < l + 1
    BY <1>2, <1>5
  <2> QED BY <1>2, <1>3, <1>5, <2>1
<1> QED BY <1>1, <1>4, <1>5 DEF InOrder

LEMMA ServeLink ==
  ASSUME LifeTypes, LinkTypes, LinkInv, Serve, fails' = fails, timeouts' = timeouts,
         UNCHANGED cam, timeouts = 0
  PROVE  LinkInv' /\ \A d \in Conns : Steady(d)
<1>0. stk.pc = "conns" /\ UNCHANGED fromCam /\ ~WriteFails /\ stk.rest = <<>>
  BY DEF Serve, ServeSend, ServePoll, ServeLate, ServeNothing, WriteFails, LinkTypes,
         WireTypes, LinkInv, RestInv
<1> PICK c \in Conns : c = stk.at
  BY <1>0 DEF LinkTypes, StkTypes
<1>00. stk'.pc # "spdu"
  BY <1>0, NextConnRest DEF Serve, ServeSend, ServePoll, ServeLate, ServeNothing, PollReturns, NoStack
<1>1. At = conn[c] /\ conn[c] \in ConnRecs /\ LinkOf(c)
  BY DEF At, LinkTypes, ConnTypes, LinkInv
<1>2. CASE ServeSend
  <2> DEFINE x == Head(conn[c].queue)
             r == [At EXCEPT !.queue = Tail(@), !.wait = "yes"]
  <2>1. conn[c].st # "idle" /\ conn[c].queue # <<>> /\ conn[c].wait = "no"
    BY <1>1, <1>2 DEF ServeSend, MaySend
  <2>2. toCam' = Append(toCam, x) /\ Update(c, r) /\ NextConn
    BY <1>0, <1>1, <1>2 DEF ServeSend, Write
  <2>3. r.st = conn[c].st /\ r.wait = "yes" /\ r.chain = conn[c].chain
        /\ r.queue = Tail(conn[c].queue)
    BY <1>1 DEF ConnRecs
  <2> HIDE DEF r
  <2>4. conn'[c] = r /\ \A d \in Conns : d # c => conn'[d] = conn[d]
    BY <2>2, ConnStep DEF LinkTypes
  <2>5. /\ x \in Tpdus /\ Asks(x) /\ x.c = c
        /\ conn[c].st = IF x.tag = "create" THEN "creation" ELSE "active"
        /\ Elems(Tail(conn[c].queue)) \cup {x} = Queued(c)
        /\ conn[c].st = "creation" => Tail(conn[c].queue) = <<>>
    BY <1>1, <2>1, QueueHead DEF LinkTypes
  <2>6. Queued(c)' \subseteq Queued(c)
    BY <2>3, <2>4, <2>5 DEF Queued
  <2>7. conn'[c].queue = Tail(conn[c].queue) /\ Queued(c)' \cup {x} = Queued(c)
    BY <2>3, <2>4, <2>5 DEF Queued
  <2>8. InOrder(c) /\ (\A t \in Sent(c)' : t = x) => InOrder(c)'
    BY <2>1, <2>7, SendInOrder DEF LinkTypes
  <2> HIDE DEF x
  <2>9. /\ LinkInv' /\ \A d \in Conns : d # c => Still(d)
        /\ Sent(c) = {} /\ Sent(c)' = {t \in {x} : IsNotice(t)} /\ Bearing(c)' = Bearing(c)
    BY <1>0, <2>1, <2>2, <2>3, <2>4, <2>5, <2>6, ServeAsks
  <2>10. Notices(c)' = Notices(c)
    BY <2>7, <2>9 DEF Notices
  <2>11. \A n \in Sessions : Ahead(n, c)' <=> Ahead(n, c)
    BY <1>0, <1>00, <2>3, <2>4, <2>9 DEF Ahead
  <2>12. Steady(c)
    BY <2>8, <2>9, <2>10, <2>11 DEF Steady
  <2> QED BY <1>0, <1>00, <2>9, <2>12, StillSteady
<1>3. CASE ServePoll
  <2> DEFINE x == Plain("last", c)
             r == [At EXCEPT !.wait = "yes"]
  <2>1. conn[c].st = "active" /\ conn[c].queue = <<>> /\ conn[c].wait = "no"
    BY <1>1, <1>3 DEF ServePoll
  <2>2. toCam' = Append(toCam, x) /\ Update(c, r) /\ NextConn
    BY <1>0, <1>1, <1>3 DEF ServePoll, Write
  <2>3. r.st = conn[c].st /\ r.wait = "yes" /\ r.chain = conn[c].chain
        /\ r.queue = conn[c].queue
    BY <1>1 DEF ConnRecs
  <2> HIDE DEF r
  <2>4. conn'[c] = r /\ \A d \in Conns : d # c => conn'[d] = conn[d]
    BY <2>2, ConnStep DEF LinkTypes
  <2>5. x \in Tpdus /\ Asks(x) /\ x.c = c /\ x.tag = "last" /\ ~IsNotice(x)
    BY TpduIn DEF TpduTags, Asks, Plain, Tpdu, IsNotice, Closings, NoSpdu, Spdu
  <2>6. Queued(c)' \subseteq Queued(c)
    BY <2>3, <2>4 DEF Queued
  <2> HIDE DEF x
  <2>7. /\ LinkInv' /\ \A d \in Conns : d # c => Still(d)
        /\ Sent(c) = {} /\ Sent(c)' = {t \in {x} : IsNotice(t)} /\ Bearing(c)' = Bearing(c)
    BY <1>0, <2>1, <2>2, <2>3, <2>4, <2>5, <2>6, ServeAsks
  <2>8. Still(c)
    BY <2>3, <2>4, <2>5, <2>7 DEF Still
  <2> QED BY <1>0, <1>00, <2>7, <2>8, StillSteady
<1>4. ~ServeLate
  <2>1. conn[c].wait # "late" /\ timeouts' # timeouts + 1
    BY <1>1 DEF LinkOf, OneTurn
  <2> QED BY <1>1, <2>1 DEF ServeLate
<1>5. CASE ServeNothing
  <2>1. NextConn /\ UNCHANGED <<conn, toCam, fromCam>>
    BY <1>5 DEF ServeNothing
  <2> QED BY <1>0, <1>00, <2>1, NextConnRest, QuietLink, StillSteady
<1> QED BY <1>2, <1>3, <1>4, <1>5 DEF Serve

\* A poll.
LEMMA PollLink ==
  ASSUME LifeTypes, LinkTypes, LinkInv, Poll, UNCHANGED <<cam, job>>, job.pc = "none",
         fails' = 0, fails = 0, timeouts' = 0, timeouts = 0, ~stale'
  PROVE  LinkInv' /\ \A d \in Conns : Steady(d)
<1>1. CASE HandleUnexpected
  <2>1. stk.pc = "tpdu" /\ ~Expected
    BY <1>1 DEF HandleUnexpected
  <2>2. /\ Of = conn[Handled.c] /\ Handled = stk.rest[1] /\ LinkOf(Handled.c)
        /\ Msgs(Handled.c) = {stk.rest}
    BY <2>1, InHand
  <2>3. Of.st = IF Handled.tag = "create_reply" THEN "creation" ELSE "active"
    BY <2>2 DEF LinkOf, InState
  <2> QED BY <2>1, <2>3 DEF Expected
<1>2. CASE HandleTpdu
  <2>1. stk.pc = "tpdu"
    BY <1>2 DEF HandleTpdu, HandleUnexpected, HandleCreateReply, HandleDelete, HandleRequest,
                HandleMore, HandleLast, HandleSb, Now
  <2>2. CASE HandleCreateReply \/ HandleDelete \/ HandleRequest \/ HandleSb
    <3>1. LinkInv' /\ \A d \in Conns : Still(d)
      BY <2>2, CreateReplyLink, DeleteLink, SbLink, RequestLink
    <3>2. stk'.pc # "spdu"
      BY <2>1, <2>2 DEF HandleCreateReply, HandleDelete, HandleRequest, HandleSb, Onward,
         PollReturns, NoStack, LifeTypes
    <3> QED BY <2>1, <3>1, <3>2, StillSteady
  <2> QED BY <1>1, <1>2, <2>2, MoreLink, LastLink DEF HandleTpdu
<1>3. CASE PollRead
  <2>1. LinkInv' /\ \A d \in Conns : Still(d)
    BY <1>3, ReadLink
  <2>2. stk.pc # "spdu" /\ stk'.pc # "spdu"
    BY <1>3 DEF PollRead, PollReturns, NoStack
  <2> QED BY <2>1, <2>2, StillSteady
<1> QED BY <1>2, <1>3, ServeLink DEF Poll

-----------------------------------------------------------------------------
(* The link: messages are queued *)

\* A message for the CAM is queued, or none.
Lengthened(c) ==
  /\ conn'[c].st = conn[c].st /\ conn'[c].wait = conn[c].wait /\ conn'[c].chain = conn[c].chain
  /\ \/ conn'[c].queue = conn[c].queue
     \/ /\ conn[c].st = "active"
        /\ \E s \in Spdus : conn'[c].queue = Append(conn[c].queue, Tpdu("last", c, s))

LEMMA SendEffect ==
  ASSUME ConnTypes, NEW c \in Conns, NEW s \in Spdus, SendData(c, s)
  PROVE  /\ \A d \in Conns : Lengthened(d)
         /\ \A d \in Conns : d # c => conn'[d] = conn[d]
         /\ IF conn[c].st = "active"
            THEN conn'[c].queue = Append(conn[c].queue, Tpdu("last", c, s))
            ELSE conn'[c] = conn[c]
<1>1. CASE ~Accepts(c)
  BY <1>1 DEF SendData, Accepts, Lengthened
<1>2. CASE Accepts(c)
  <2> DEFINE r == [conn[c] EXCEPT !.queue = Append(@, Tpdu("last", c, s))]
  <2>1. /\ r.st = conn[c].st /\ r.wait = conn[c].wait /\ r.chain = conn[c].chain
        /\ r.queue = Append(conn[c].queue, Tpdu("last", c, s))
    BY DEF ConnTypes, ConnRecs
  <2>2. Update(c, r)
    BY <1>2 DEF SendData
  <2> HIDE DEF r
  <2>3. conn'[c] = r /\ \A d \in Conns : d # c => conn'[d] = conn[d]
    BY <2>2, ConnStep
  <2>4. Lengthened(c)
    BY <1>2, <2>1, <2>3 DEF Lengthened, Accepts
  <2>5. \A d \in Conns : d # c => Lengthened(d)
    BY <2>3 DEF Lengthened
  <2> QED BY <1>2, <2>1, <2>3, <2>4, <2>5 DEF Accepts
<1> QED BY <1>1, <1>2

LEMMA QueuedAppend ==
  ASSUME ConnTypes, NEW c \in Conns, NEW t \in Tpdus, conn'[c].queue = Append(conn[c].queue, t)
  PROVE  Queued(c)' = Queued(c) \cup {t}
<1>1. conn[c].queue \in Seq(Tpdus)
  BY DEF ConnTypes, ConnRecs
<1>2. Elems(Append(conn[c].queue, t)) = Elems(conn[c].queue) \cup {t}
  <2> HIDE DEF Tpdus
  <2> QED BY <1>1, ElemsAppend
<1> QED BY <1>2 DEF Queued

LEMMA LengthenedQueues ==
  ASSUME ConnTypes, NEW c \in Conns, LinkOf(c), Lengthened(c), Asked(c)' = Asked(c),
         Msgs(c)' = Msgs(c) \/ conn[c].st # "creation"
  PROVE  Queues(c)'
<1>1. CASE conn'[c].queue = conn[c].queue
  BY <1>1 DEF LinkOf, Queues, Queued, Lengthened
<1>2. CASE conn'[c].queue # conn[c].queue
  <2>1. PICK s \in Spdus : conn'[c].queue = Append(conn[c].queue, Tpdu("last", c, s))
    BY <1>2 DEF Lengthened
  <2>2. /\ Tpdu("last", c, s) \in Tpdus /\ Tpdu("last", c, s).tag = "last"
        /\ Tpdu("last", c, s).c = c
    BY TpduIn DEF TpduTags, Tpdu
  <2>3. Queued(c)' = Queued(c) \cup {Tpdu("last", c, s)}
    BY <2>1, <2>2, QueuedAppend
  <2>4. conn[c].st = "active" /\ conn'[c].st = "active"
    BY <1>2 DEF Lengthened
  <2> QED BY <2>2, <2>3, <2>4 DEF LinkOf, Queues
<1> QED BY <1>1, <1>2

\* A connection of which only the queue grows.
LEMMA LinkLengthened ==
  ASSUME ConnTypes, NEW c \in Conns, LinkOf(c), Lengthened(c),
         Asked(c)' = Asked(c), Told(c)' = Told(c), Msgs(c)' = Msgs(c),
         Held(c)' => Held(c), WaitsPart(c)' <=> WaitsPart(c),
         c \in cam'.open <=> c \in cam.open
  PROVE  LinkOf(c)'
<1>1. OneTurn(c)' /\ InState(c)'
  BY DEF LinkOf, OneTurn, InState, Lengthened
<1>2. Queues(c)'
  BY LengthenedQueues
<1>3. Chain(c)'
  BY DEF LinkOf, Chain, Lengthened
<1> QED BY <1>1, <1>2, <1>3 DEF LinkOf

LEMMA LengthenedLink ==
  ASSUME LinkTypes, LinkInv, \A c \in Conns : Lengthened(c),
         UNCHANGED <<toCam, fromCam, cam, stk>>, stk.pc \in {"spdu", "closing"} => stk.at \in Conns
  PROVE  LinkInv'
<1>1. \A c \in Conns : /\ OneToken(c)' /\ OneMessage(c)'
                       /\ Asked(c)' = Asked(c) /\ Told(c)' = Told(c)
  BY SameWire
<1>2. \A c \in Conns : Msgs(c)' = Msgs(c) /\ (Held(c)' <=> Held(c))
  BY <1>1 DEF Msgs, Held
<1>3. ASSUME NEW c \in Conns PROVE LinkOf(c)'
  BY <1>1, <1>2, SameCam, LinkLengthened DEF LinkInv, LinkTypes
<1>4. RestInv'
  BY DEF LinkInv, RestInv, Lengthened
<1> QED BY <1>1, <1>3, <1>4 DEF LinkInv

\* What a callback does to the connections.
LEMMA CallbackLength ==
  ASSUME CiInv, LinkTypes, SpduStep
  PROVE  UNCHANGED linkVars /\ \A c \in Conns : Lengthened(c)
<1> USE DEF LinkTypes
<1> HIDE DEF Tpdus, Messages
<1>1. UNCHANGED conn => \A c \in Conns : Lengthened(c)
  BY DEF Lengthened
<1>2. stk.pc = "spdu" => stk.at \in Conns
  BY DEF StkTypes
<1>3. job.n \in Int /\ Spdu1.n \in Int /\ Spdu1.arg \in SpduArgs
  BY SpduIn DEF StkTypes, UserTypes, Spdu1
<1>4. CASE OpenRes
  <2>1. Spdu(IF job.ok THEN "open_ok" ELSE "open_refused", job.n, Spdu1.arg) \in Spdus
    BY <1>3, SpduIn DEF SpduKinds
  <2> QED BY <1>2, <1>4, <2>1, SendEffect, CallbackSends DEF OpenRes, InSpdu, Reply
<1>5. CASE OpenCallback
  <2>1. Spdu("apdu", job.n, "rm_enq") \in Spdus /\ Spdu("apdu", job.n, "ca_info_enq") \in Spdus
    BY <1>3, SpduIn DEF SpduKinds, SpduArgs
  <2> QED BY <1>2, <1>5, <2>1, SendEffect, CallbackSends DEF OpenCallback, InSpdu, Reply
<1>6. CASE CloseRes
  <2>1. Spdu(IF job.ok THEN "close_ok" ELSE "close_err", job.n, "none") \in Spdus
    BY <1>3, SpduIn DEF SpduKinds, SpduArgs
  <2> QED BY <1>2, <1>6, <2>1, SendEffect, CallbackSends DEF CloseRes, InSpdu, Reply
<1>7. CASE Package
  <2>1. Spdu1.arg \in DOMAIN RmAnswer
    BY <1>7 DEF Package, Understood
  <2>2. RmAnswer[Spdu1.arg] \in SpduArgs
    BY <2>1 DEF RmAnswer, SpduArgs
  <2>3. Spdu("apdu", Spdu1.n, RmAnswer[Spdu1.arg]) \in Spdus
    BY <1>3, <2>2, SpduIn DEF SpduKinds
  <2> QED BY <1>2, <1>7, <2>3, SendEffect, CallbackSends DEF Package, InSpdu, Reply
<1>8. CASE CaSync /\ Open(caNumber)
  <2>1. caNumber \in Sessions /\ session[caNumber].conn \in Conns /\ caNumber \in Int
    BY <1>8, SessionsInt DEF Open, UserTypes
  <2>2. Spdu("apdu", caNumber, "ca_pmt") \in Spdus
    BY <2>1, SpduIn DEF SpduKinds, SpduArgs
  <2> QED BY <1>8, <2>1, <2>2, SendEffect, CallbackSends DEF CaSync, Reply
<1>9. CASE CaSync /\ ~Open(caNumber)
  BY <1>1, <1>9, CallbackSends DEF CaSync
<1>10. OpenRequest \/ CloseRequest \/ CaInfo \/ Opened \/ OpenNumber \/ CloseCallback
       \/ ConnectionClose \/ Ignore => UNCHANGED conn
  BY Zenon DEF OpenRequest, CloseRequest, CaInfo, Opened, OpenNumber, CloseCallback,
     ConnectionClose, Ignore, transportVars
<1> QED BY <1>1, <1>4, <1>5, <1>6, <1>7, <1>8, <1>9, <1>10, CallbackSends DEF SpduStep

LEMMA CallbackLink ==
  ASSUME CiInv, LayerInv, LinkInv, SpduStep, UNCHANGED cam
  PROVE  LinkInv'
<1>0. LinkTypes /\ LiveInv
  BY DEF LayerInv
<1>1. UNCHANGED <<toCam, fromCam>> /\ \A c \in Conns : Lengthened(c)
  BY <1>0, CallbackLength DEF linkVars
<1>2. stk.pc \in {"spdu", "closing"} /\ stk.at \in Conns
  BY <1>0, SpduStk DEF LinkTypes, StkTypes
<1>3. \A d \in Conns : /\ OneToken(d)' /\ OneMessage(d)'
                       /\ Asked(d)' = Asked(d) /\ Told(d)' = Told(d) /\ Msgs(d) = Told(d)
  BY <1>1, <1>2, SameWire DEF Msgs
<1>4. CASE UNCHANGED stk
  BY <1>0, <1>1, <1>2, <1>4, LengthenedLink
<1>5. CASE Onward /\ stk.pc = "closing"
  <2>1. Len(stk.rest) = 1
    BY <1>5 DEF LinkInv, RestInv
  <2>2. RestInv' /\ \A d \in Conns : ~Held(d)' /\ Msgs(d)' = Told(d)
    BY <1>1, <1>5, <2>1, OnwardLast
  <2>3. ASSUME NEW d \in Conns PROVE LinkOf(d)'
    BY <1>0, <1>1, <1>3, <2>2, SameCam, LinkLengthened DEF LinkInv, LinkTypes
  <2> QED BY <1>3, <2>2, <2>3 DEF LinkInv
<1>6. CASE Onward /\ stk.pc = "spdu"
  <2> PICK c \in Conns : c = stk.at
    BY <1>2
  <2>1. /\ Len(stk.rest) = 2 /\ Shape(stk.rest) /\ stk.rest[1].c = c
        /\ conn[c].chain = NoSpdu /\ LinkOf(c)
    BY <1>6 DEF LinkInv, RestInv
  <2>2. conn[c].st = "active"
    BY <1>0, <1>6 DEF LiveInv, LiveConns
  <2>3. Held(c) /\ Asked(c) = {} /\ Told(c) = {} /\ c \in cam.open /\ conn[c].wait # "late"
    <3>1. Held(c)
      BY <2>1 DEF Held
    <3>2. Asked(c) = {} /\ Told(c) = {} /\ conn[c].wait # "late"
      BY <2>1, <3>1 DEF LinkOf, OneTurn
    <3> QED BY <1>3, <2>1, <2>2, <3>1, <3>2 DEF LinkOf, InState
  <2> DEFINE m == <<stk.rest[2]>>
  <2>4. /\ RestInv' /\ Shape(m) /\ m[1].tag \in Statuses
        /\ Msgs(c)' = {m} /\ \A d \in Conns : d # c => ~Held(d)' /\ Msgs(d)' = Told(d)
    BY <1>0, <1>1, <1>6, <2>1, <2>3, OnwardFirst
  <2> HIDE DEF m
  <2>5. ASSUME NEW d \in Conns, d # c PROVE LinkOf(d)'
    BY <1>0, <1>1, <1>3, <2>4, <2>5, SameCam, LinkLengthened DEF LinkInv, LinkTypes
  <2>6. conn'[c].st = "active" /\ conn'[c].wait = conn[c].wait /\ conn'[c].chain = NoSpdu
    BY <1>1, <2>1, <2>2 DEF Lengthened
  <2>7. OneTurn(c)' /\ InState(c)'
    BY <1>3, <2>3, <2>4, <2>6, SameCam DEF OneTurn, InState, Statuses
  <2>8. Queues(c)'
    BY <1>0, <1>1, <1>3, <2>1, <2>2, LengthenedQueues DEF LinkTypes
  <2>9. Chain(c)'
    BY <2>4, <2>6 DEF Chain, Statuses
  <2> QED BY <1>3, <2>4, <2>5, <2>7, <2>8, <2>9 DEF LinkInv, LinkOf
<1> QED BY <1>0, <1>2, <1>4, <1>5, <1>6, CallbackStk

LEMMA TsLink ==
  ASSUME CiInv, LayerInv, LinkInv, TsLock \/ TsStep, UNCHANGED cam
  PROVE  LinkInv'
<1>0. LinkTypes
  BY DEF LayerInv
<1>1. UNCHANGED <<toCam, fromCam, stk>>
  BY DEF TsLock, TsStep, TsRead, TsCheck, TsQueue, transportVars, linkVars
<1>2. \A c \in Conns : Lengthened(c)
  <2>1. CASE TsQueue
    <3>1. ts.c \in Conns /\ ts.n \in Int
      BY <1>0, <2>1 DEF TsQueue, LinkTypes, UserTypes, CiInv, SessionTypes
    <3>2. Spdu("apdu", ts.n, "ca_pmt") \in Spdus
      BY <3>1, SpduIn DEF SpduKinds, SpduArgs
    <3> QED BY <1>0, <2>1, <3>1, <3>2, SendEffect DEF TsQueue, LinkTypes
  <2>2. TsLock \/ TsRead \/ TsCheck => UNCHANGED conn
    BY DEF TsLock, TsRead, TsCheck, transportVars
  <2> QED BY <2>1, <2>2 DEF TsStep, Lengthened
<1>3. stk.pc \in {"spdu", "closing"} => stk.at \in Conns
  BY <1>0 DEF LinkTypes, StkTypes
<1> QED BY <1>0, <1>1, <1>2, <1>3, LengthenedLink

LEMMA NewTcLink ==
  ASSUME LinkTypes, LinkInv, NewTc, UNCHANGED <<stk, cam>>
  PROVE  LinkInv'
<1>0. UNCHANGED <<toCam, fromCam>> /\ stk.pc # "tpdu" /\ stk.pc # "closing"
  BY DEF NewTc, SlotLocked
<1>1. \A d \in Conns : /\ OneToken(d)' /\ OneMessage(d)'
                       /\ Asked(d)' = Asked(d) /\ Told(d)' = Told(d)
  BY <1>0, SameWire
<1>2. \A d \in Conns : Msgs(d)' = Msgs(d) /\ (Held(d)' <=> Held(d)) /\ Msgs(d) = Told(d)
  BY <1>0, <1>1 DEF Msgs, Held
<1>3. CASE IdleConns = {}
  <2>1. ASSUME NEW d \in Conns PROVE LinkOf(d)'
    <3>1. conn' = conn
      BY <1>3 DEF NewTc
    <3> QED BY <1>1, <1>2, <3>1, SameCam, LinkFrame DEF LinkInv
  <2>2. RestInv'
    BY <1>3 DEF NewTc, LinkInv, RestInv
  <2> QED BY <1>1, <2>1, <2>2 DEF LinkInv
<1>4. CASE IdleConns # {}
  <2> PICK c \in Conns : c = Lowest(IdleConns)
    BY <1>4, LowestConn DEF IdleConns
  <2>1. conn[c].st = "idle" /\ LinkOf(c) /\ conn[c] \in ConnRecs
    BY <1>4, LowestConn DEF IdleConns, LinkInv, LinkTypes, ConnTypes
  <2>2. Asked(c) = {} /\ Told(c) = {} /\ Msgs(c) = {} /\ conn[c].queue = <<>> /\ c \notin cam.open
    BY <1>2, <2>1 DEF LinkOf, InState, Queues
  <2> DEFINE r == [conn[c] EXCEPT !.st = "creation", !.chain = NoSpdu,
                                  !.queue = Append(@, Plain("create", c))]
  <2>3. /\ r.st = "creation" /\ r.wait = conn[c].wait /\ r.chain = NoSpdu
        /\ r.queue = <<Plain("create", c)>>
    BY <2>1, <2>2 DEF ConnRecs
  <2>4. Update(c, r)
    BY <1>4 DEF NewTc
  <2> HIDE DEF r
  <2>5. conn'[c] = r /\ \A d \in Conns : d # c => conn'[d] = conn[d]
    BY <2>4, ConnStep DEF LinkTypes
  <2>6. ASSUME NEW d \in Conns, d # c PROVE LinkOf(d)'
    BY <1>1, <1>2, <2>5, <2>6, SameCam, LinkFrame DEF LinkInv
  <2>7. OneTurn(c)' /\ InState(c)'
    BY <1>1, <1>2, <2>1, <2>2, <2>3, <2>5 DEF LinkOf, OneTurn, InState
  <2>8. Queues(c)' /\ Chain(c)'
    BY <1>1, <1>2, <2>2, <2>3, <2>5 DEF Queues, Chain
  <2>9. RestInv'
    BY <1>0, <2>3, <2>5 DEF LinkInv, RestInv, LinkTypes, StkTypes
  <2> QED BY <1>1, <2>6, <2>7, <2>8, <2>9 DEF LinkInv, LinkOf
<1> QED BY <1>3, <1>4

\* The application, the worker and the loop of the stack thread.
LEMMA LifeLink ==
  ASSUME CiInv, LayerInv, LinkInv, AppCi \/ AppClose \/ AppStep \/ WorkerStep \/ StackTop
  PROVE  LinkInv'
<1>1. CASE WorkerTc
  BY <1>1, NewTcLink DEF WorkerTc, LayerInv
<1>2. CASE ~WorkerTc
  <2>1. UNCHANGED <<conn, toCam, fromCam, cam>>
    BY <1>2 DEF AppCi, AppClose, AppStep, AppJoinStack, AppJoinWorker, AppFree, WorkerStep,
       WorkerStart, WorkerPower, WorkerStatus, WorkerNextTry, WorkerCheck, WorkerSetup,
       WorkerCreate, StackTop, transportVars, linkVars
  <2>2. CASE (WorkerCreate \/ StackTop) /\ ~UNCHANGED stk
    <3>1. \E pc \in {"top", "poll", "exit"} : stk' = [NoStack EXCEPT !.pc = pc]
      BY <2>2 DEF WorkerCreate, StackTop
    <3>2. stk'.rest = <<>> /\ stk'.pc \in {"top", "poll", "exit"}
      BY <3>1 DEF NoStack
    <3>3. stk.pc \in {"none", "top"}
      BY <2>2 DEF WorkerCreate, StackTop, CiInv, LifeInv
    <3>4. stk.rest = <<>>
      BY <3>3 DEF LinkInv, RestInv
    <3> QED BY <2>1, <3>2, <3>3, <3>4, QuietLink
  <2>3. CASE UNCHANGED stk \/ ~(WorkerCreate \/ StackTop)
    <3>1. UNCHANGED stk
      BY <1>2, <2>3 DEF AppCi, AppClose, AppStep, AppJoinStack, AppJoinWorker, AppFree,
         WorkerStep, WorkerStart, WorkerPower, WorkerStatus, WorkerNextTry, WorkerCheck,
         WorkerSetup, transportVars
    <3>2. \A c \in Conns : Lengthened(c)
      BY <2>1 DEF Lengthened
    <3>3. stk.pc \in {"spdu", "closing"} => stk.at \in Conns
      BY DEF LayerInv, LinkTypes, StkTypes
    <3> QED BY <2>1, <3>1, <3>2, <3>3, LengthenedLink DEF LayerInv
  <2> QED BY <2>2, <2>3
<1> QED BY <1>1, <1>2

\* What the CAM starts, and what that changes.
LEMMA ActsIn ==
  ASSUME NEW c \in Conns, NEW s \in Acts(c)
  PROVE  /\ s \in Spdus
         /\ s.k \in {"open_req", "close_req", "apdu", "request", "delete"}
         /\ s.k = "close_req" => s.n \in Sessions /\ cam.sess[s.n].conn = c
                                                  /\ cam.sess[s.n].res # "ending"
<1> HIDE DEF Spdus
<1>1. 0 \in Int /\ Sessions \subseteq Int
  BY SessionsInt
<1>2. \/ \E r \in {"rm", "ca", "other"} : s = Spdu("open_req", 0, r)
      \/ \E n \in Sessions : /\ s = Spdu("close_req", n, "none")
                             /\ cam.sess[n].conn = c /\ cam.sess[n].res # "ending"
      \/ \E n \in Sessions : s = Spdu("apdu", n, "rm_changed")
      \/ s \in {Spdu("request", 0, "none"), Spdu("delete", 0, "none")}
  BY Zenon DEF Acts
<1>3. CASE \E r \in {"rm", "ca", "other"} : s = Spdu("open_req", 0, r)
  <2> PICK r \in {"rm", "ca", "other"} : s = Spdu("open_req", 0, r)
    BY <1>3
  <2>1. s \in Spdus
    BY <1>1, SpduIn DEF SpduKinds, SpduArgs
  <2> QED BY <2>1 DEF Spdu
<1>4. CASE \E n \in Sessions : /\ s = Spdu("close_req", n, "none")
                               /\ cam.sess[n].conn = c /\ cam.sess[n].res # "ending"
  <2> PICK n \in Sessions : /\ s = Spdu("close_req", n, "none")
                            /\ cam.sess[n].conn = c /\ cam.sess[n].res # "ending"
    BY <1>4
  <2>1. s \in Spdus
    BY <1>1, SpduIn DEF SpduKinds, SpduArgs
  <2> QED BY <2>1 DEF Spdu
<1>5. CASE \E n \in Sessions : s = Spdu("apdu", n, "rm_changed")
  <2> PICK n \in Sessions : s = Spdu("apdu", n, "rm_changed")
    BY <1>5
  <2>1. s \in Spdus
    BY <1>1, SpduIn DEF SpduKinds, SpduArgs
  <2> QED BY <2>1 DEF Spdu
<1>6. CASE s \in {Spdu("request", 0, "none"), Spdu("delete", 0, "none")}
  <2>1. s \in Spdus
    BY <1>1, <1>6, SpduIn DEF SpduKinds, SpduArgs
  <2> QED BY <1>6, <2>1 DEF Spdu
<1> QED BY <1>2, <1>3, <1>4, <1>5, <1>6

LEMMA ActsCam ==
  ASSUME LinkTypes, NEW c \in Conns, NEW s, CamSays(c, s)
  PROVE  /\ cam'.open = cam.open /\ cam'.out = [cam.out EXCEPT ![c] = Append(@, s)]
         /\ cam'.sess = IF s.k = "close_req" THEN [cam.sess EXCEPT ![s.n].res = "ending"]
                        ELSE cam.sess
<1> HIDE DEF Spdus
<1> DEFINE out == [cam.out EXCEPT ![c] = Append(@, s)]
           sess == IF s.k = "close_req" THEN [cam.sess EXCEPT ![s.n].res = "ending"]
                   ELSE cam.sess
<1>1. cam' = [cam EXCEPT !.acts = cam.acts + 1, !.out = out, !.sess = sess]
  BY DEF CamSays
<1> HIDE DEF out, sess
<1>2. cam'.open = cam.open /\ cam'.out = out /\ cam'.sess = sess
  BY <1>1 DEF LinkTypes, CamTypes
<1> QED BY <1>2 DEF out, sess
-----------------------------------------------------------------------------
(* The link: the steps of the CAM *)

\* The CAM gets a TPDU; one it answers is the only message of its connection.
LEMMA CamTurn ==
  ASSUME LinkTypes, LinkInv, toCam # <<>>, toCam' = Tail(toCam), NEW t, t = Head(toCam)
  PROVE  /\ t \in Tpdus /\ t.c \in Conns
         /\ \A d \in Conns : OneToken(d)'
         /\ \A d \in Conns : Asked(d)' = IF Asks(t) /\ t.c = d THEN {} ELSE Asked(d)
         /\ Asks(t) => /\ Asked(t.c) = {t} /\ Told(t.c) = {} /\ ~Held(t.c) /\ Msgs(t.c) = {}
                       /\ conn[t.c].st = IF t.tag = "create" THEN "creation" ELSE "active"
                       /\ t.tag # "create" => t.c \in cam.open
                       /\ conn[t.c].chain # NoSpdu => t.tag # "create" /\ WaitsPart(t.c)
<1>1. /\ t \in Tpdus /\ t.c \in Conns /\ (Asks(t) => Asked(t.c) = {t})
      /\ \A d \in Conns : OneToken(d)'
      /\ \A d \in Conns : Asked(d)' = IF Asks(t) /\ t.c = d THEN {} ELSE Asked(d)
  BY AskedTail DEF LinkTypes, LinkInv
<1>2. ASSUME Asks(t)
      PROVE  /\ Told(t.c) = {} /\ ~Held(t.c) /\ Msgs(t.c) = {}
             /\ conn[t.c].st = IF t.tag = "create" THEN "creation" ELSE "active"
             /\ t.tag # "create" => t.c \in cam.open
             /\ conn[t.c].chain # NoSpdu => t.tag # "create" /\ WaitsPart(t.c)
  <2>1. LinkOf(t.c) /\ Asked(t.c) = {t}
    BY <1>1, <1>2 DEF LinkInv
  <2>2. Told(t.c) = {} /\ ~Held(t.c)
    BY <2>1 DEF LinkOf, OneTurn
  <2>3. Msgs(t.c) = {}
    BY <2>2 DEF Msgs
  <2>4. /\ conn[t.c].st = IF t.tag = "create" THEN "creation" ELSE "active"
        /\ t.tag # "create" => t.c \in cam.open
    BY <2>1, <2>3 DEF LinkOf, InState
  <2>5. conn[t.c].chain # NoSpdu => t.tag # "create" /\ WaitsPart(t.c)
    BY <2>1, <2>3, <2>4 DEF LinkOf, Chain
  <2> QED BY <2>2, <2>3, <2>4, <2>5
<1> QED BY <1>1, <1>2

\* The answer of the CAM.
LEMMA CamTells ==
  ASSUME LinkTypes, LinkInv, toCam # <<>>, toCam' = Tail(toCam), UNCHANGED <<conn, stk>>,
         NEW t, t = Head(toCam), Asks(t), NEW c \in Conns, c = t.c,
         NEW m \in Messages, m[1].c = c, fromCam' = Append(fromCam, m), Shape(m),
         m[1].tag = "create_reply" <=> t.tag = "create",
         m[1].tag = "delete" <=> c \notin cam'.open,
         \A d \in Conns : d # c => /\ cam'.out[d] = cam.out[d]
                                   /\ d \in cam'.open <=> d \in cam.open,
         m[1].tag \in {"delete", "more"} => conn[c].chain = NoSpdu,
         m[1].tag = "more" => WaitsPart(c)',
         m[1].tag = "last" => conn[c].chain = NoSpdu \/ m[1].p.k = "part",
         conn[c].chain # NoSpdu => WaitsPart(c)' \/ m[1].tag = "last"
  PROVE  LinkInv'
<1>1. /\ \A d \in Conns : OneToken(d)'
      /\ \A d \in Conns : Asked(d)' = IF d = c THEN {} ELSE Asked(d)
      /\ Asked(c) = {t} /\ Told(c) = {} /\ ~Held(c) /\ Msgs(c) = {} /\ LinkOf(c)
      /\ conn[c].st = IF t.tag = "create" THEN "creation" ELSE "active"
      /\ conn[c].chain # NoSpdu => t.tag # "create"
  BY CamTurn DEF LinkInv
<1>2. /\ \A d \in Conns : OneMessage(d)'
      /\ \A d \in Conns : Told(d)' = IF d = c THEN {m} ELSE Told(d)
  BY <1>1, ToldAppend DEF LinkInv, LinkTypes
<1>3. \A d \in Conns : Held(d)' <=> Held(d)
  BY DEF Held
<1>4. /\ Asked(c)' = {} /\ Told(c)' = {m} /\ ~Held(c)'
      /\ \A d \in Conns : d # c => Asked(d)' = Asked(d) /\ Told(d)' = Told(d)
  BY <1>1, <1>2, <1>3
<1>5. Msgs(c)' = {m} /\ \A d \in Conns : d # c => Msgs(d)' = Msgs(d)
  BY <1>3, <1>4 DEF Msgs
<1>6. RestInv'
  BY DEF LinkInv, RestInv
<1>7. ASSUME NEW d \in Conns, d # c PROVE LinkOf(d)'
  <2>1. LinkOf(d) /\ conn'[d] = conn[d]
    BY DEF LinkInv
  <2>2. WaitsPart(d)' <=> WaitsPart(d)
    BY <1>7 DEF WaitsPart
  <2> QED BY <1>3, <1>4, <1>5, <1>7, <2>1, <2>2, LinkFrame
<1>8. OneTurn(c)'
  <2>1. conn[c].wait = "yes"
    BY <1>1 DEF LinkOf, OneTurn
  <2> QED BY <1>4, <2>1 DEF OneTurn
<1>9. InState(c)'
  BY <1>1, <1>4, <1>5 DEF InState
<1>10. Queues(c)'
  BY <1>1, <1>4 DEF LinkOf, Queues, Queued
<1>11. Chain(c)'
  BY <1>1, <1>5 DEF LinkOf, Chain
<1> QED BY <1>1, <1>2, <1>6, <1>7, <1>8, <1>9, <1>10, <1>11 DEF LinkInv, LinkOf

\* Messages of one and of two parts.
LEMMA Pack ==
  ASSUME NEW x \in Tpdus, NEW y \in Tpdus
  PROVE  /\ <<x>> \in Messages /\ <<x, y>> \in Messages
         /\ <<x>>[1] = x /\ <<x, y>>[1] = x
         /\ x.tag \in Statuses \cup {"delete"} => Shape(<<x>>)
         /\ x.tag \in Openers /\ y.c = x.c /\ y.tag \in Statuses => Shape(<<x, y>>)
         /\ Answer(<<x>>) => fromCam' = Append(fromCam, <<x>>)
         /\ Answer(<<x, y>>) => fromCam' = Append(fromCam, <<x, y>>)
<1> HIDE DEF Tpdus
<1>1. <<x>> \in Seq(Tpdus) /\ <<x, y>> \in Seq(Tpdus) /\ <<x>> # <<>> /\ <<x, y>> # <<>>
  OBVIOUS
<1>2. <<x>>[1] = x /\ <<x, y>>[1] = x /\ <<x, y>>[2] = y /\ Len(<<x>>) = 1 /\ Len(<<x, y>>) = 2
  OBVIOUS
<1> QED BY <1>1, <1>2 DEF Messages, Shape, Answer

LEMMA StatusIn ==
  ASSUME NEW c \in Conns, NEW out
  PROVE  Status(c, out) \in Tpdus /\ Status(c, out).c = c /\ Status(c, out).tag \in Statuses
BY TpduIn DEF Status, TpduTags, Plain, Tpdu, Statuses

LEMMA ConcatFirst ==
  ASSUME NEW S, NEW q \in Seq(S), NEW r \in Seq(S), q # <<>>
  PROVE  q \o r # <<>> /\ (q \o r)[1] = q[1]
<1>1. Len(q) >= 1 /\ Len(q \o r) = Len(q) + Len(r) /\ Len(q) \in Nat /\ Len(r) \in Nat
  OBVIOUS
<1>2. (q \o r)[1] = q[1]
  BY <1>1
<1>3. Len(q \o r) # 0
  BY <1>1
<1> QED BY <1>2, <1>3

LEMMA CamCreateLink ==
  ASSUME LinkTypes, LinkInv, CamHears, NEW t, t = Head(toCam), CamCreate(t)
  PROVE  LinkInv'
<1>1. toCam # <<>> /\ toCam' = Tail(toCam) /\ UNCHANGED <<conn, stk>> /\ t.tag = "create" /\ Asks(t)
  BY DEF CamHears, notCam, CamCreate, Asks
<1> PICK c \in Conns : c = t.c
  BY <1>1, CamTurn
<1> DEFINE x == Plain("create_reply", c)
           y == Plain("sb", c)
<1>2. /\ x \in Tpdus /\ y \in Tpdus /\ x.c = c /\ y.c = c /\ x.tag = "create_reply" /\ y.tag = "sb"
  BY TpduIn DEF TpduTags, Plain, Tpdu
<1>3. Answer(<<x, y>>)
  BY DEF CamCreate
<1> HIDE DEF x, y
<1> PICK m : m = <<x, y>>
  OBVIOUS
<1>4. m \in Messages /\ m[1] = x /\ Shape(m) /\ fromCam' = Append(fromCam, m)
  BY <1>2, <1>3, Pack DEF Openers, Statuses
<1>5. conn[c].chain = NoSpdu
  BY <1>1, CamTurn
<1>6. /\ c \in cam'.open
      /\ \A d \in Conns : d # c => /\ cam'.out[d] = cam.out[d]
                                   /\ d \in cam'.open <=> d \in cam.open
  <2> DEFINE sess == Without(c)
  <2>1. cam' = [cam EXCEPT !.open = @ \cup {c}, !.sess = sess, !.out[c] = <<>>]
    BY DEF CamCreate
  <2> HIDE DEF sess, Spdus
  <2> QED BY <2>1 DEF LinkTypes, CamTypes
<1> QED BY <1>1, <1>2, <1>4, <1>5, <1>6, CamTells

LEMMA CamLastLink ==
  ASSUME LinkTypes, LinkInv, CamHears, NEW t, t = Head(toCam), CamLast(t)
  PROVE  LinkInv'
<1> HIDE DEF Tpdus, Spdus, Messages
<1>1. toCam # <<>> /\ toCam' = Tail(toCam) /\ UNCHANGED <<conn, stk>> /\ t.tag = "last" /\ Asks(t)
  BY DEF CamHears, notCam, CamLast, Asks
<1> PICK c \in Conns : c = t.c
  BY <1>1, CamTurn
<1> DEFINE out == [cam.out EXCEPT ![c] = @ \o Said(t.p)]
           x == Status(c, out)
           sess == CamSessions(c, t.p)
<1>2. /\ c \in cam.open /\ Answer(<<x>>)
      /\ cam' = [cam EXCEPT !.out = out, !.sess = sess]
  BY DEF CamLast
<1>3. x \in Tpdus /\ x.c = c /\ x.tag \in Statuses
  BY StatusIn
<1>4. cam.out \in [Conns -> Seq(Spdus)] /\ cam.out[c] \in Seq(Spdus) /\ Said(t.p) \in Seq(Spdus)
  BY <1>1, CamTurn, TpduIn, SaidTypes DEF LinkTypes, CamTypes
<1>5. /\ out[c] = cam.out[c] \o Said(t.p)
      /\ \A d \in Conns : d # c => out[d] = cam.out[d]
  BY <1>4
<1>6. cam.out[c] # <<>> => out[c] # <<>> /\ out[c][1] = cam.out[c][1]
  <2> PICK q \in Seq(Spdus) : q = cam.out[c]
    BY <1>4
  <2> PICK r \in Seq(Spdus) : r = Said(t.p)
    BY <1>4
  <2>1. q # <<>> => q \o r # <<>> /\ (q \o r)[1] = q[1]
    BY ConcatFirst
  <2> QED BY <1>5, <2>1
<1> HIDE DEF out, x, sess
<1>7. cam'.out = out /\ cam'.open = cam.open
  BY <1>2 DEF LinkTypes, CamTypes
<1> PICK m : m = <<x>>
  OBVIOUS
<1>8. m \in Messages /\ m[1] = x /\ Shape(m) /\ fromCam' = Append(fromCam, m)
  BY <1>2, <1>3, Pack
<1>9. WaitsPart(c) => WaitsPart(c)'
  BY <1>6, <1>7 DEF WaitsPart
<1>10. conn[c].chain # NoSpdu => WaitsPart(c)
  BY <1>1, CamTurn
<1>11. m[1].tag \in Statuses
  BY <1>3, <1>8
<1>12. /\ m \in Messages /\ m[1].c = c /\ fromCam' = Append(fromCam, m) /\ Shape(m)
       /\ m[1].tag \notin {"create_reply", "delete", "more", "last"} /\ t.tag # "create"
       /\ c \in cam'.open
  BY <1>1, <1>2, <1>3, <1>7, <1>8 DEF Statuses
<1>13. \A d \in Conns : d # c => cam'.out[d] = cam.out[d] /\ (d \in cam'.open <=> d \in cam.open)
  BY <1>5, <1>7
<1> QED BY <1>1, <1>9, <1>10, <1>12, <1>13, CamTells

LEMMA CamRcvLink ==
  ASSUME LinkTypes, LinkInv, CamHears, NEW t, t = Head(toCam), CamRcv(t)
  PROVE  LinkInv'
<1> HIDE DEF Tpdus, Spdus, Messages
<1>1. toCam # <<>> /\ toCam' = Tail(toCam) /\ UNCHANGED <<conn, stk>> /\ t.tag = "rcv" /\ Asks(t)
  BY DEF CamHears, notCam, CamRcv, Asks
<1> DEFINE c == t.c
           said == Head(cam.out[c])
           rest == [cam.out EXCEPT ![c] = Tail(@)]
           first == Spdu("part", said.n, said.arg)
           part == [cam.out EXCEPT ![c] = <<first>> \o Tail(@)]
           none == [rest EXCEPT ![c] = <<>>]
           sess == Without(c)
<1>2. cam.out[c] # <<>> /\ c \in cam.open /\ c \in Conns
  BY <1>1, CamTurn DEF CamRcv
<1>3. cam.out \in [Conns -> Seq(Spdus)] /\ cam.out[c] \in Seq(Spdus) /\ cam.open \in SUBSET Conns
  BY <1>2 DEF LinkTypes, CamTypes
<1>4. said \in Spdus /\ said = cam.out[c][1] /\ Tail(cam.out[c]) \in Seq(Spdus)
  BY <1>2, <1>3
<1>5. /\ \A d \in Conns : d # c => rest[d] = cam.out[d] /\ part[d] = cam.out[d] /\ none[d] = cam.out[d]
      /\ part[c] = <<first>> \o Tail(cam.out[c])
  BY <1>2, <1>3
<1>6. part[c] # <<>> /\ part[c][1] = first /\ first.k = "part"
  <2>1. first \in Spdus
    BY <1>4, SpduIn DEF SpduKinds
  <2>2. first.k = "part"
    BY DEF Spdu
  <2> PICK q \in Seq(Spdus) : q = Tail(cam.out[c])
    BY <1>4
  <2> HIDE DEF first
  <2>3. <<first>> \in Seq(Spdus) /\ <<first>> # <<>> /\ <<first>>[1] = first
    BY <2>1
  <2>4. <<first>> \o q # <<>> /\ (<<first>> \o q)[1] = first
    <3> PICK p : p = <<first>>
      OBVIOUS
    <3> QED BY <2>3, ConcatFirst
  <2> QED BY <1>5, <2>2, <2>4
<1> HIDE DEF first
<1>7. conn[c].chain # NoSpdu => said.k = "part"
  BY <1>1, <1>2, <1>4, CamTurn DEF WaitsPart
<1>8. /\ \A out : Status(c, out) \in Tpdus /\ Status(c, out).c = c /\ Status(c, out).tag \in Statuses
      /\ \A tag \in {"request", "delete"} : /\ Plain(tag, c) \in Tpdus /\ Plain(tag, c).c = c
                                            /\ Plain(tag, c).tag = tag
      /\ \A tag \in {"last", "more"} : /\ Tpdu(tag, c, said) \in Tpdus /\ Tpdu(tag, c, said).c = c
                                       /\ Tpdu(tag, c, said).tag = tag
                                       /\ Tpdu(tag, c, said).p = said
  <2>1. \A out : Status(c, out) \in Tpdus /\ Status(c, out).c = c /\ Status(c, out).tag \in Statuses
    BY <1>2, StatusIn
  <2> HIDE DEF said
  <2>2. \A tag \in {"request", "delete"} : /\ Plain(tag, c) \in Tpdus /\ Plain(tag, c).c = c
                                           /\ Plain(tag, c).tag = tag
    BY <1>2, TpduIn DEF TpduTags, Plain, Tpdu
  <2>3. \A tag \in {"last", "more"} : /\ Tpdu(tag, c, said) \in Tpdus /\ Tpdu(tag, c, said).c = c
                                      /\ Tpdu(tag, c, said).tag = tag
                                      /\ Tpdu(tag, c, said).p = said
    BY <1>2, <1>4, TpduIn DEF TpduTags, Tpdu
  <2> QED BY <2>1, <2>2, <2>3
<1>9. CASE /\ said.k = "request"
           /\ cam' = [cam EXCEPT !.out = rest]
           /\ Answer(<<Plain("request", c), Status(c, rest)>>)
  <2> PICK x \in Tpdus : x = Plain("request", c)
    BY <1>8
  <2> PICK y \in Tpdus : y = Status(c, rest)
    BY <1>8
  <2> PICK m : m = <<x, y>>
    OBVIOUS
  <2>0. Answer(<<x, y>>)
    BY <1>9
  <2>1. x.c = c /\ x.tag = "request" /\ y.c = c /\ y.tag \in Statuses
    BY <1>8
  <2>2. m \in Messages /\ m[1] = x /\ Shape(m) /\ fromCam' = Append(fromCam, m)
    BY <2>0, <2>1, Pack DEF Openers
  <2> HIDE DEF said, rest
  <2>3. cam'.out = rest /\ cam'.open = cam.open
    BY <1>9 DEF LinkTypes, CamTypes
  <2>5. \A d \in Conns : d # c => cam'.out[d] = cam.out[d]
    BY <1>5, <2>3
  <2>6. conn[c].chain = NoSpdu
    BY <1>7, <1>9
  <2> QED BY <1>1, <1>2, <2>1, <2>2, <2>3, <2>5, <2>6, CamTells
<1>10. CASE /\ said.k = "delete"
            /\ cam' = [cam EXCEPT !.out = none, !.open = @ \ {c}, !.sess = sess]
            /\ Answer(<<Plain("delete", c)>>)
  <2> PICK x \in Tpdus : x = Plain("delete", c)
    BY <1>8
  <2> PICK m : m = <<x>>
    OBVIOUS
  <2>0. Answer(<<x>>)
    BY <1>10
  <2>1. x.c = c /\ x.tag = "delete"
    BY <1>8
  <2>2. m \in Messages /\ m[1] = x /\ Shape(m) /\ fromCam' = Append(fromCam, m)
    BY <2>0, <2>1, Pack
  <2> HIDE DEF said, none, sess
  <2>3. cam'.out = none /\ cam'.open = cam.open \ {c}
    BY <1>10 DEF LinkTypes, CamTypes
  <2>5. \A d \in Conns : d # c => cam'.out[d] = cam.out[d]
    BY <1>5, <2>3
  <2>6. conn[c].chain = NoSpdu
    BY <1>7, <1>10
  <2> QED BY <1>1, <1>2, <2>1, <2>2, <2>3, <2>5, <2>6, CamTells
<1>11. CASE /\ said.k \notin {"request", "delete"}
            /\ cam' = [cam EXCEPT !.out = rest]
            /\ Answer(<<Tpdu("last", c, said), Status(c, rest)>>)
  <2> PICK x \in Tpdus : x = Tpdu("last", c, said)
    BY <1>8
  <2> PICK y \in Tpdus : y = Status(c, rest)
    BY <1>8
  <2> PICK m : m = <<x, y>>
    OBVIOUS
  <2>0. Answer(<<x, y>>)
    BY <1>11
  <2>1. x.c = c /\ x.tag = "last" /\ x.p = said /\ y.c = c /\ y.tag \in Statuses
    BY <1>8
  <2>2. m \in Messages /\ m[1] = x /\ Shape(m) /\ fromCam' = Append(fromCam, m)
    BY <2>0, <2>1, Pack DEF Openers
  <2> HIDE DEF said, rest
  <2>3. cam'.out = rest /\ cam'.open = cam.open
    BY <1>11 DEF LinkTypes, CamTypes
  <2>5. \A d \in Conns : d # c => cam'.out[d] = cam.out[d]
    BY <1>5, <2>3
  <2>6. conn[c].chain = NoSpdu \/ m[1].p.k = "part"
    BY <1>7, <2>1, <2>2
  <2> QED BY <1>1, <1>2, <2>1, <2>2, <2>3, <2>5, <2>6, CamTells
<1>12. CASE /\ said.k \notin {"request", "delete", "part"}
            /\ cam' = [cam EXCEPT !.out = part, !.acts = @ + 1]
            /\ Answer(<<Tpdu("more", c, said), Status(c, part)>>)
  <2> PICK x \in Tpdus : x = Tpdu("more", c, said)
    BY <1>8
  <2> PICK y \in Tpdus : y = Status(c, part)
    BY <1>8
  <2> PICK m : m = <<x, y>>
    OBVIOUS
  <2>0. Answer(<<x, y>>)
    BY <1>12
  <2>1. x.c = c /\ x.tag = "more" /\ y.c = c /\ y.tag \in Statuses
    BY <1>8
  <2>2. m \in Messages /\ m[1] = x /\ Shape(m) /\ fromCam' = Append(fromCam, m)
    BY <2>0, <2>1, Pack DEF Openers
  <2> HIDE DEF said, part
  <2>3. cam'.out = part /\ cam'.open = cam.open
    BY <1>12 DEF LinkTypes, CamTypes
  <2>4. WaitsPart(c)'
    BY <1>6, <2>3 DEF WaitsPart
  <2>5. \A d \in Conns : d # c => cam'.out[d] = cam.out[d]
    BY <1>5, <2>3
  <2>6. conn[c].chain = NoSpdu
    BY <1>7, <1>12
  <2> QED BY <1>1, <1>2, <2>1, <2>2, <2>3, <2>4, <2>5, <2>6, CamTells
<1>13. \/ /\ said.k = "request"
          /\ cam' = [cam EXCEPT !.out = rest]
          /\ Answer(<<Plain("request", c), Status(c, rest)>>)
       \/ /\ said.k = "delete"
          /\ cam' = [cam EXCEPT !.out = none, !.open = @ \ {c}, !.sess = sess]
          /\ Answer(<<Plain("delete", c)>>)
       \/ /\ said.k \notin {"request", "delete"}
          /\ cam' = [cam EXCEPT !.out = rest]
          /\ Answer(<<Tpdu("last", c, said), Status(c, rest)>>)
       \/ /\ said.k \notin {"request", "delete", "part"}
          /\ cam' = [cam EXCEPT !.out = part, !.acts = @ + 1]
          /\ Answer(<<Tpdu("more", c, said), Status(c, part)>>)
  BY Zenon DEF CamRcv, first
<1> QED BY <1>9, <1>10, <1>11, <1>12, <1>13

LEMMA CamHearsLink ==
  ASSUME LinkTypes, LinkInv, CamHears
  PROVE  LinkInv'
<1> PICK t : t = Head(toCam)
  OBVIOUS
<1>1. toCam # <<>> /\ toCam' = Tail(toCam) /\ UNCHANGED <<conn, stk>>
  BY DEF CamHears, notCam
<1> PICK c \in Conns : c = t.c
  BY <1>1, CamTurn
<1>2. CASE CamSilent(t)
  <2>1. ~Asks(t)
    BY <1>1, <1>2, CamTurn DEF Asks, CamSilent
  <2>2. \A d \in Conns : OneToken(d)' /\ Asked(d)' = Asked(d)
    BY <1>1, <2>1, CamTurn
  <2>3. UNCHANGED <<fromCam, cam>>
    BY <1>2 DEF CamSilent
  <2>4. \A d \in Conns : OneMessage(d)' /\ Told(d)' = Told(d)
    BY <2>3, SameTold
  <2>5. \A d \in Conns : Msgs(d)' = Msgs(d) /\ (Held(d)' <=> Held(d))
    BY <1>1, <2>4 DEF Msgs, Held
  <2>6. ASSUME NEW d \in Conns PROVE LinkOf(d)'
    BY <1>1, <2>2, <2>3, <2>4, <2>5, SameCam, LinkFrame DEF LinkInv
  <2>7. RestInv'
    BY <1>1 DEF LinkInv, RestInv
  <2> QED BY <2>2, <2>4, <2>6, <2>7 DEF LinkInv
<1>3. CASE CamEmpty(t)
  <2> PICK x \in Tpdus : x = Plain("sb", c)
    BY TpduIn DEF TpduTags
  <2> PICK m : m = <<x>>
    OBVIOUS
  <2>1. x.c = c /\ x.tag = "sb"
    BY DEF Plain, Tpdu
  <2>2. m \in Messages /\ m[1] = x /\ Shape(m) /\ fromCam' = Append(fromCam, m)
    BY <1>3, <2>1, Pack DEF Statuses, CamEmpty
  <2>3. Asks(t) /\ t.tag = "rcv" /\ c \in cam.open /\ cam' = cam /\ ~WaitsPart(c)
    BY <1>3 DEF CamEmpty, Asks, WaitsPart
  <2>4. conn[c].chain = NoSpdu
    BY <1>1, <2>3, CamTurn
  <2> QED BY <1>1, <2>1, <2>2, <2>3, <2>4, CamTells
<1>4. CamCreate(t) \/ CamLast(t) \/ CamRcv(t) \/ CamSilent(t) \/ CamEmpty(t)
  BY DEF CamHears
<1> QED BY <1>2, <1>3, <1>4, CamCreateLink, CamLastLink, CamRcvLink

LEMMA CamActsLink ==
  ASSUME LinkTypes, LinkInv, CamActs
  PROVE  LinkInv'
<1> HIDE DEF Tpdus, Spdus, Messages
<1>0. UNCHANGED <<conn, stk, toCam, fromCam>>
  BY Zenon DEF CamActs, notCam
<1>1. PICK c \in cam.open : \E s \in Acts(c) : CamSays(c, s)
  BY Zenon DEF CamActs, CamSays
<1>2. PICK s \in Acts(c) : CamSays(c, s)
  BY <1>1
<1>3. c \in Conns /\ cam.out \in [Conns -> Seq(Spdus)] /\ cam.out[c] \in Seq(Spdus)
  BY DEF LinkTypes, CamTypes
<1>4. s \in Spdus /\ s.k # "part"
  BY <1>3, ActsIn
<1>5. cam'.open = cam.open /\ cam'.out = [cam.out EXCEPT ![c] = Append(@, s)]
  BY <1>2, <1>3, ActsCam
<1>6. ASSUME NEW d \in Conns PROVE WaitsPart(d)' <=> WaitsPart(d)
  <2>1. CASE d # c
    BY <1>3, <1>5, <2>1 DEF WaitsPart
  <2>2. CASE d = c
    <3> PICK q \in Seq(Spdus) : q = cam.out[c]
      BY <1>3
    <3>1. /\ Append(q, s) # <<>> /\ (q = <<>> => Append(q, s)[1] = s)
          /\ q # <<>> => Append(q, s)[1] = q[1]
      BY <1>4
    <3>2. cam'.out[c] = Append(q, s)
      BY <1>3, <1>5
    <3> QED BY <1>4, <2>2, <3>1, <3>2 DEF WaitsPart
  <2> QED BY <2>1, <2>2
<1>7. \A d \in Conns : /\ OneToken(d)' /\ OneMessage(d)'
                       /\ Asked(d)' = Asked(d) /\ Told(d)' = Told(d)
  BY <1>0, SameWire
<1>8. \A d \in Conns : Msgs(d)' = Msgs(d) /\ (Held(d)' <=> Held(d))
  BY <1>0, <1>7 DEF Msgs, Held
<1>9. ASSUME NEW d \in Conns PROVE LinkOf(d)'
  BY <1>0, <1>5, <1>6, <1>7, <1>8, LinkFrame DEF LinkInv
<1>10. RestInv'
  BY <1>0 DEF LinkInv, RestInv
<1> QED BY <1>7, <1>9, <1>10 DEF LinkInv
-----------------------------------------------------------------------------
(* What is lost stays lost, and the link as a whole *)

history == <<fails, timeouts, stale>>

LEMMA CleanBefore ==
  ASSUME CiInv, LayerInv, timeouts \in Nat, [Next]_vars
  PROVE  timeouts' \in Nat /\ (Clean' => Clean)
<1>0. fails \in Nat
  BY DEF LayerInv, LinkTypes, WireTypes
<1>1. CASE UNCHANGED history
  BY <1>1 DEF history, Clean
<1>2. AppCi \/ AppClose \/ AppStep \/ WorkerStep \/ StackTop => UNCHANGED history
  BY DEF history, AppCi, AppClose, AppStep, AppJoinStack, AppJoinWorker, AppFree, WorkerStep,
     WorkerStart, WorkerPower, WorkerStatus, WorkerNextTry, WorkerCheck, WorkerSetup,
     WorkerCreate, WorkerTc, NewTc, StackTop, transportVars, linkVars
<1>3. SpduStep => UNCHANGED history
  BY CallbackSends DEF history, linkVars, LayerInv
<1>4. TsLock \/ TsStep => UNCHANGED history
  BY DEF history, TsLock, TsStep, TsRead, TsCheck, TsQueue, transportVars, linkVars
<1>5. CASE CamHears \/ CamMisses \/ CamActs
  <2>1. UNCHANGED <<timeouts, stale>> /\ fails' \in {fails, fails + 1}
    BY <1>5, Zenon DEF CamHears, CamMisses, CamActs, notCam
  <2> QED BY <1>0, <2>1 DEF Clean
<1>6. CASE Poll
  <2>1. CASE PollRead
    <3>1. UNCHANGED <<timeouts, stale>> /\ fails' \in {fails, fails + 1}
      BY <2>1 DEF PollRead
    <3> QED BY <1>0, <3>1 DEF Clean
  <2>2. CASE HandleTpdu
    <3>1. fails' \in {fails, fails + 1} /\ timeouts' = timeouts
      BY <2>2, Zenon DEF HandleTpdu, HandleUnexpected, HandleCreateReply, HandleDelete,
         HandleRequest, HandleMore, HandleLast, HandleSb, Write, WriteFails
    <3>2. stale' = stale \/ stale' = (stale \/ Of.queue # <<>>)
      BY <2>2, Zenon DEF HandleTpdu, HandleUnexpected, HandleCreateReply, HandleDelete,
         HandleRequest, HandleMore, HandleLast, HandleSb
    <3>3. ~stale' => ~stale
      BY <3>2, Zenon
    <3>4. timeouts' \in Nat /\ (fails' = 0 /\ timeouts' = 0 => fails = 0 /\ timeouts = 0)
      BY <1>0, <3>1
    <3> QED BY <3>3, <3>4, Zenon DEF Clean
  <2>3. CASE Serve
    <3>1. fails' \in {fails, fails + 1} /\ timeouts' \in {timeouts, timeouts + 1} /\ stale' = stale
      BY <2>3, Zenon DEF Serve, ServeSend, ServePoll, ServeLate, ServeNothing, Write, WriteFails
    <3> QED BY <1>0, <3>1 DEF Clean
  <2> QED BY <1>6, <2>1, <2>2, <2>3 DEF Poll
<1>7. UNCHANGED vars => UNCHANGED history
  BY DEF vars, transportVars, history
<1> QED BY <1>1, <1>2, <1>3, <1>4, <1>5, <1>6, <1>7 DEF Next, StackStep

LEMMA LinkInit == Init => LinkInv
<1> SUFFICES ASSUME Init PROVE LinkInv
    OBVIOUS
<1>1. /\ toCam = <<>> /\ fromCam = <<>> /\ stk.pc = "none" /\ stk.rest = <<>>
      /\ cam.open = {}
      /\ \A c \in Conns : conn[c] = IdleConn
  BY DEF Init, TransportInit, NoStack
<1>2. \A c \in Conns : Asked(c) = {} /\ Told(c) = {} /\ ~Held(c)
  BY <1>1, NoElems DEF Asked, Told, Held
<1>3. \A c \in Conns : Msgs(c) = {} /\ OneToken(c) /\ OneMessage(c)
  BY <1>1, <1>2 DEF Msgs, OneToken, OneMessage, OneIn
<1>4. ASSUME NEW c \in Conns PROVE LinkOf(c)
  <2>1. /\ conn[c].st = "idle" /\ conn[c].wait = "no" /\ conn[c].chain = NoSpdu
        /\ conn[c].queue = <<>>
    BY <1>1 DEF IdleConn
  <2> QED BY <1>1, <1>2, <1>3, <2>1 DEF LinkOf, OneTurn, InState, Queues, Chain
<1> QED BY <1>1, <1>3, <1>4 DEF LinkInv, RestInv

LEMMA LinkKept ==
  ASSUME CiInv, LayerInv, LinkInv, Clean, Clean', [Next]_vars
  PROVE  LinkInv'
<1>0. LinkTypes /\ LifeTypes /\ fails \in Nat
  BY DEF LayerInv, CiInv, LinkTypes, WireTypes
<1>1. CASE AppCi \/ AppClose \/ AppStep \/ WorkerStep \/ StackTop
  BY <1>1, LifeLink
<1>2. CASE Poll /\ UNCHANGED <<sessionVars, lifeVars, cam>>
  <2>1. job.pc = "none" /\ job' = job
    BY <1>2, PollStk DEF CiInv, JobInv, sessionVars
  <2> QED BY <1>0, <1>2, <2>1, PollLink DEF Clean
<1>3. CASE SpduStep /\ UNCHANGED <<lifeVars, cam>>
  BY <1>3, CallbackLink
<1>4. CASE (TsLock \/ TsStep) /\ UNCHANGED <<lifeVars, cam>>
  BY <1>4, TsLink
<1>5. ~CamMisses
  BY DEF CamMisses, Clean
<1>6. CASE UNCHANGED vars
  <2>1. UNCHANGED <<conn, stk, toCam, fromCam, cam>>
    BY <1>6 DEF vars, transportVars
  <2>2. \A c \in Conns : Lengthened(c)
    BY <2>1 DEF Lengthened
  <2>3. stk.pc \in {"spdu", "closing"} => stk.at \in Conns
    BY <1>0 DEF LinkTypes, StkTypes
  <2> QED BY <1>0, <2>1, <2>2, <2>3, LengthenedLink
<1> QED BY <1>0, <1>1, <1>2, <1>3, <1>4, <1>5, <1>6, CamHearsLink, CamActsLink DEF Next, StackStep
-----------------------------------------------------------------------------
(* The sessions: what a step leaves as it was *)

\* Nothing happens that sets host and CAM apart about session n.
Kept(n) ==
  /\ cam'.sess[n] = cam.sess[n]
  /\ OpenBoth(n) => session'[n] = session[n]
  /\ IsOpen(n)' => \/ OpenPends(n, session[n].conn)'
                   \/ IsOpen(n) /\ session'[n].conn = session[n].conn
  /\ \A c \in Conns :
       /\ AskedEnd(n, c)' <=> AskedEnd(n, c)
       /\ OnceAsked(n, c) => OnceAsked(n, c)'
       /\ OpenPends(n, c) => OpenPends(n, c)'
       /\ OpenBoth(n) /\ session[n].conn = c => ~OpenPends(n, c)' /\ ~ClosePends(n, c)'
       /\ cam.sess[n].conn = c =>
            /\ ClosePends(n, c) => ClosePends(n, c)'
            /\ Answering(n) /\ stk.at = c =>
                 ClosePends(n, c)' \/ (Answering(n)' /\ stk'.at = c)

LEMMA KeptAgrees ==
  ASSUME UserTypes, CamTypes, NEW n \in Sessions, Knows(n), \A c \in Conns : EndsOf(n, c), Kept(n),
         cam.sess[n] = NoSession \/ cam.sess[n].conn \in cam'.open,
         IsOpen(n) /\ session[n].conn \notin cam.open => session[n].conn \notin cam'.open
  PROVE  Knows(n)' /\ \A c \in Conns : EndsOf(n, c)'
<1>1. cam.open \subseteq Conns /\ cam'.sess[n] = cam.sess[n]
  BY DEF CamTypes, Kept
<1>2. OpenBoth(n) => OpenBoth(n)' /\ session'[n] = session[n]
  <2> SUFFICES ASSUME OpenBoth(n) PROVE OpenBoth(n)' /\ session'[n] = session[n]
      OBVIOUS
  <2>1. session'[n] = session[n] /\ session[n].st = "active"
    BY DEF Kept, OpenBoth
  <2> PICK c \in Conns : c = session[n].conn
    BY <2>1 DEF UserTypes
  <2>2. cam.sess[n].conn = c /\ session'[n].conn = c
    BY <2>1 DEF OpenBoth
  <2>3. ~OpenPends(n, c)' /\ ~ClosePends(n, c)' /\ (AskedEnd(n, c)' <=> AskedEnd(n, c))
    BY DEF Kept
  <2> QED BY <1>1, <2>1, <2>2, <2>3 DEF OpenBoth
<1>3. Ending(n) /\ cam.sess[n].conn \in cam.open => Ending(n)'
  <2> SUFFICES ASSUME Ending(n), cam.sess[n].conn \in cam.open PROVE Ending(n)'
      OBVIOUS
  <2> PICK c \in Conns : c = cam.sess[n].conn
    BY <1>1
  <2>1. ClosePends(n, c) \/ (Answering(n) /\ stk.at = c)
    BY DEF Ending
  <2>2. ClosePends(n, c)' \/ (Answering(n)' /\ stk'.at = c)
    BY <2>1 DEF Kept
  <2> QED BY <1>1, <2>2 DEF Ending
<1>4. IsOpen(n)' => \/ OpenPends(n, session[n].conn)' \/ OpenBoth(n)'
                    \/ session'[n].conn \notin cam'.open
  <2> SUFFICES ASSUME IsOpen(n), session'[n].conn = session[n].conn
               PROVE  \/ OpenPends(n, session[n].conn)' \/ OpenBoth(n)'
                      \/ session'[n].conn \notin cam'.open
    BY DEF Kept
  <2> PICK c \in Conns : c = session[n].conn
    BY DEF IsOpen, UserTypes
  <2>1. OpenPends(n, c) \/ OpenBoth(n) \/ c \notin cam.open
    BY DEF Knows
  <2>2. OpenPends(n, c) => OpenPends(n, session[n].conn)'
    BY DEF Kept
  <2> QED BY <1>2, <2>1, <2>2
<1>5. Knows(n)'
  BY <1>1, <1>2, <1>3, <1>4 DEF Knows
<1>6. ASSUME NEW c \in Conns PROVE EndsOf(n, c)'
  <2>1. (AskedEnd(n, c)' <=> AskedEnd(n, c)) /\ OnceAsked(n, c)'
    BY DEF Kept, EndsOf
  <2> QED BY <1>1, <1>2, <2>1 DEF EndsOf
<1> QED BY <1>5, <1>6

\* The answers on their way stay true to the sessions.
LEMMA OpensKept ==
  ASSUME NEW c \in Conns, OpensOf(c), Notices(c)' \subseteq Notices(c),
         \A n \in Sessions : OpenPends(n, c) /\ IsOpen(n) =>
           IsOpen(n)' /\ session'[n].conn = session[n].conn /\ session'[n].res = session[n].res
  PROVE  OpensOf(c)'
BY DEF OpensOf, OpenPends

\* What the answers and requests on the connections tell about a session.
Unmoved(n, c) ==
  /\ OpenPends(n, c)' <=> OpenPends(n, c)
  /\ ClosePends(n, c)' <=> ClosePends(n, c)
  /\ AskedEnd(n, c)' <=> AskedEnd(n, c)
  /\ OnceAsked(n, c) => OnceAsked(n, c)'

LEMMA SteadyUnmoved ==
  ASSUME NEW c \in Conns, Steady(c), NEW n \in Sessions, cam'.out[c] = cam.out[c]
  PROVE  Unmoved(n, c)
<1>1. ToSay(n, c)' <=> ToSay(n, c)
  BY DEF ToSay
<1>2. OneIn(cam.out[c], ClosesOf(n))' <=> OneIn(cam.out[c], ClosesOf(n))
  BY DEF OneIn, ClosesOf
<1>3. Ahead(n, c)' <=> Ahead(n, c)
  BY DEF Steady
<1>4. Notices(c)' = Notices(c)
  BY DEF Steady
<1>5. (OpenPends(n, c)' <=> OpenPends(n, c)) /\ (ClosePends(n, c)' <=> ClosePends(n, c))
  BY <1>4 DEF OpenPends, ClosePends
<1> QED BY <1>1, <1>2, <1>3, <1>5 DEF Unmoved, AskedEnd, OnceAsked

\* Nothing but the queues and the job changes, for session n.
LEMMA UnmovedKept ==
  ASSUME NEW n \in Sessions, \A c \in Conns : Unmoved(n, c), cam'.sess[n] = cam.sess[n],
         OpenBoth(n) => session'[n] = session[n],
         IsOpen(n)' => IsOpen(n) /\ session'[n].conn = session[n].conn,
         Answering(n) => Answering(n)' /\ stk'.at = stk.at
  PROVE  Kept(n)
<1>1. ASSUME NEW c \in Conns, OpenBoth(n), session[n].conn = c
      PROVE  ~OpenPends(n, c)' /\ ~ClosePends(n, c)'
  BY <1>1 DEF OpenBoth, Unmoved
<1> QED BY <1>1 DEF Unmoved, Kept

\* A step that leaves the sessions alone and sends nothing about them.
LEMMA SteadyAgree ==
  ASSUME LayerInv, AgreeInv, \A d \in Conns : Steady(d), UNCHANGED <<session, cam>>, JobsInv',
         \A n \in Sessions : IsOpen(n)' <=> IsOpen(n),
         \A n \in Sessions : Answering(n) => Answering(n)' /\ stk'.at = stk.at
  PROVE  AgreeInv'
<1>1. UserTypes /\ CamTypes
  BY DEF LayerInv, LinkTypes
<1>2. ASSUME NEW n \in Sessions PROVE Knows(n)' /\ \A c \in Conns : EndsOf(n, c)'
  <2>1. Knows(n) /\ \A c \in Conns : EndsOf(n, c)
    BY DEF AgreeInv
  <2>2. \A c \in Conns : Unmoved(n, c)
    BY SteadyUnmoved
  <2>3. Kept(n)
    BY <2>2, UnmovedKept
  <2>4. cam.sess[n] = NoSession \/ cam.sess[n].conn \in cam'.open
    BY <2>1 DEF Knows
  <2> QED BY <1>1, <2>1, <2>3, <2>4, KeptAgrees
<1>3. ASSUME NEW c \in Conns PROVE InOrder(c)' /\ OpensOf(c)'
  <2>1. InOrder(c) /\ OpensOf(c) /\ Steady(c)
    BY DEF AgreeInv
  <2>2. Notices(c)' \subseteq Notices(c) /\ InOrder(c)'
    BY <2>1 DEF Steady
  <2> QED BY <2>1, <2>2, OpensKept
<1>4. cam'.sess \in [Sessions -> SessRecs]
  BY DEF AgreeInv
<1> QED BY <1>2, <1>3, <1>4 DEF AgreeInv
-----------------------------------------------------------------------------
(* The sessions: steps that are not about them *)

LEMMA StillSame ==
  ASSUME NEW c \in Conns, Still(c), UNCHANGED <<stk, job>>
  PROVE  Steady(c)
<1>1. Queued(c)' = Queued(c)
  BY DEF Still, Queued
<1>2. Notices(c)' = Notices(c)
  BY <1>1 DEF Still, Notices
<1>3. InOrder(c)' <=> InOrder(c)
  BY <1>1 DEF Still, InOrder
<1>4. \A n \in Sessions : Ahead(n, c)' <=> Ahead(n, c)
  BY DEF Still, Ahead
<1> QED BY <1>1, <1>2, <1>3, <1>4 DEF Steady

\* Of the queue only: other than an answer about a session, or nothing, is added.
LEMMA QueueSteady ==
  ASSUME ConnTypes, NEW c \in Conns, LinkOf(c), conn[c].st = "active" \/ conn'[c].queue = conn[c].queue,
         NEW t \in Tpdus, ~About(t.p, t.p.n),
         conn'[c].queue \in {conn[c].queue, Append(conn[c].queue, t)}, Sent(c)' = Sent(c)
  PROVE  Notices(c)' = Notices(c) /\ (InOrder(c) => InOrder(c)')
<1> HIDE DEF Tpdus
<1>1. CASE conn'[c].queue = conn[c].queue
  <2>1. Queued(c)' = Queued(c)
    BY <1>1 DEF Queued
  <2> QED BY <1>1, <2>1 DEF Notices, InOrder
<1>2. CASE conn'[c].queue = Append(conn[c].queue, t)
  <2>1. conn[c].queue \in Seq(Tpdus)
    BY DEF ConnTypes, ConnRecs
  <2>2. Queued(c)' = Queued(c) \cup {t}
    BY <1>2, QueuedAppend
  <2>3. ~IsNotice(t)
    BY DEF IsNotice, About
  <2>4. Notices(c)' = Notices(c)
    BY <2>2, <2>3 DEF Notices
  <2>5. \A n : ~About(t.p, n)
    BY DEF About
  <2>6. InOrder(c) => InOrder(c)'
    <3> SUFFICES ASSUME InOrder(c) PROVE InOrder(c)'
        OBVIOUS
    <3>1. \A x \in Sent(c)', u \in Queued(c)' : x.p.k = "open_ok" => ~About(u.p, x.p.n)
      BY <2>2, <2>5 DEF InOrder
    <3> DEFINE q == conn[c].queue
               r == conn'[c].queue
    <3>2. DOMAIN r = DOMAIN q \cup {Len(q) + 1} /\ r[Len(q) + 1] = t /\ Len(q) \in Nat
          /\ DOMAIN q = 1 .. Len(q)
      BY <1>2, <2>1
    <3>3. \A k \in DOMAIN q : r[k] = q[k]
      BY <1>2, <2>1
    <3> HIDE DEF q, r
    <3>4. ASSUME NEW k \in DOMAIN r, NEW l \in DOMAIN r, k < l, r[k].p.k = "open_ok"
          PROVE  ~About(r[l].p, r[k].p.n)
      <4>1. CASE l = Len(q) + 1
        BY <2>5, <3>2, <4>1
      <4>2. CASE l \in DOMAIN q
        <5>1. k \in DOMAIN q
          BY <3>2, <3>4, <4>2
        <5>2. r[k] = q[k] /\ r[l] = q[l]
          BY <3>3, <4>2, <5>1
        <5> QED BY <3>4, <4>2, <5>1, <5>2 DEF InOrder, q
      <4> QED BY <3>2, <4>1, <4>2
    <3> QED BY <3>1, <3>4 DEF InOrder, r
  <2> QED BY <2>4, <2>6
<1> QED BY <1>1, <1>2

\* An answer about a session is added.
LEMMA QueueNotice ==
  ASSUME ConnTypes, NEW c \in Conns, LinkOf(c), conn[c].st = "active", InOrder(c),
         NEW t \in Tpdus, t.tag = "last", About(t.p, t.p.n), ~OpenPends(t.p.n, c),
         conn'[c].queue = Append(conn[c].queue, t), Sent(c)' = Sent(c)
  PROVE  Notices(c)' = Notices(c) \cup {t} /\ InOrder(c)'
<1> HIDE DEF Tpdus
<1>1. conn[c].queue \in Seq(Tpdus)
  BY DEF ConnTypes, ConnRecs
<1>2. Queued(c)' = Queued(c) \cup {t}
  BY QueuedAppend
<1>3. IsNotice(t)
  BY DEF IsNotice, About
<1>4. Notices(c)' = Notices(c) \cup {t}
  BY <1>2, <1>3 DEF Notices
<1>5. \A u \in Notices(c) : u.p.k = "open_ok" => ~About(t.p, u.p.n)
  BY DEF OpenPends, About
<1>6. \A x \in Sent(c)', u \in Queued(c)' : x.p.k = "open_ok" => ~About(u.p, x.p.n)
  BY <1>2, <1>5 DEF InOrder, Notices
<1> DEFINE q == conn[c].queue
           r == conn'[c].queue
<1>7. /\ DOMAIN r = DOMAIN q \cup {Len(q) + 1} /\ r[Len(q) + 1] = t /\ Len(q) \in Nat
      /\ DOMAIN q = 1 .. Len(q)
  BY <1>1
<1>8. \A k \in DOMAIN q : r[k] = q[k]
  BY <1>1
<1>9. \A k \in DOMAIN q : q[k] \in Queued(c) /\ q[k].tag = "last"
  BY DEF Queued, Elems, LinkOf, Queues
<1> HIDE DEF q, r
<1>10. ASSUME NEW k \in DOMAIN r, NEW l \in DOMAIN r, k < l, r[k].p.k = "open_ok"
       PROVE  ~About(r[l].p, r[k].p.n)
  <2>1. k \in DOMAIN q
    BY <1>7, <1>10
  <2>2. r[k] = q[k]
    BY <1>8, <2>1
  <2>3. CASE l = Len(q) + 1
    <3>1. q[k] \in Notices(c)
      BY <1>9, <1>10, <2>1, <2>2 DEF Notices, IsNotice
    <3> QED BY <1>5, <1>7, <1>10, <2>2, <2>3, <3>1
  <2>4. CASE l \in DOMAIN q
    BY <1>8, <1>10, <2>1, <2>2, <2>4 DEF InOrder, q
  <2> QED BY <1>7, <2>3, <2>4
<1> QED BY <1>4, <1>6, <1>10 DEF InOrder, r

\* The TS thread queues a CA PMT, which is no answer about a session.
LEMMA TsAgree ==
  ASSUME CiInv, LayerInv, LinkInv, AgreeInv, TsLock \/ TsStep, UNCHANGED cam
  PROVE  AgreeInv'
<1>0. LinkTypes /\ \A d \in Conns : LinkOf(d)
  BY DEF LayerInv, LinkInv
<1>1. UNCHANGED <<toCam, fromCam, stk, session, job>>
  BY DEF TsLock, TsStep, TsRead, TsCheck, TsQueue, transportVars, linkVars
<1>2. \A d \in Conns : Asked(d)' = Asked(d) /\ Told(d)' = Told(d)
  BY <1>1, SameWire
<1>3. \A d \in Conns : Sent(d)' = Sent(d) /\ Bearing(d)' = Bearing(d)
  BY <1>1, <1>2 DEF Sent, Bearing, Msgs, Held
<1>4. CASE UNCHANGED conn
  BY <1>1, <1>3, <1>4, StillSame, SteadyAgree DEF Still, AgreeInv, JobsInv, IsOpen, Answering,
     Closable
<1>5. CASE TsQueue
  <2>1. ts.c \in Conns /\ ts.n \in Int
    BY <1>0, <1>5 DEF TsQueue, LinkTypes, UserTypes, CiInv, SessionTypes
  <2> PICK c \in Conns : c = ts.c
    BY <2>1
  <2> DEFINE s == Spdu("apdu", ts.n, "ca_pmt")
             t == Tpdu("last", c, s)
  <2>2. s \in Spdus /\ s.k = "apdu"
    BY <2>1, SpduIn DEF SpduKinds, SpduArgs, Spdu
  <2>3. t \in Tpdus /\ t.p = s
    BY <2>2, TpduIn DEF TpduTags, Tpdu
  <2>4. SendData(c, s)
    BY <1>5 DEF TsQueue
  <2> HIDE DEF s
  <2>5. /\ \A d \in Conns : Lengthened(d)
        /\ \A d \in Conns : d # c => conn'[d] = conn[d]
        /\ IF conn[c].st = "active" THEN conn'[c].queue = Append(conn[c].queue, t)
           ELSE conn'[c] = conn[c]
    BY <1>0, <2>2, <2>4, SendEffect DEF LinkTypes
  <2> HIDE DEF t
  <2>6. ~About(t.p, t.p.n)
    BY <2>2, <2>3 DEF About, Closings
  <2>7. \A n \in Sessions, d \in Conns : Ahead(n, d)' <=> Ahead(n, d)
    BY <1>1, <1>3, <2>5 DEF Ahead, Lengthened
  <2>8. Notices(c)' = Notices(c) /\ (InOrder(c) => InOrder(c)')
    BY <1>0, <1>3, <2>3, <2>5, <2>6, QueueSteady DEF LinkTypes
  <2>9. ASSUME NEW d \in Conns, d # c PROVE Steady(d)
    BY <1>1, <1>3, <2>5, <2>9, StillSame DEF Still
  <2>10. \A d \in Conns : Steady(d)
    BY <2>7, <2>8, <2>9 DEF Steady
  <2> QED BY <1>1, <2>10, SteadyAgree DEF AgreeInv, JobsInv, IsOpen, Answering, Closable
<1>6. TsLock \/ TsRead \/ TsCheck => UNCHANGED conn
  BY DEF TsLock, TsRead, TsCheck, transportVars
<1> QED BY <1>4, <1>5, <1>6 DEF TsStep

LEMMA PollAgree ==
  ASSUME CiInv, LayerInv, LinkInv, AgreeInv, Poll, UNCHANGED <<session, cam, job>>, job.pc = "none",
         fails' = 0, fails = 0, timeouts' = 0, timeouts = 0, ~stale'
  PROVE  AgreeInv'
<1>1. \A d \in Conns : Steady(d)
  BY PollLink DEF LayerInv, CiInv
<1> QED BY <1>1, SteadyAgree DEF AgreeInv, JobsInv, IsOpen, Answering

\* A new connection, still to be created.
LEMMA LifeAgree ==
  ASSUME CiInv, LayerInv, LinkInv, AgreeInv, AppCi \/ AppClose \/ AppStep \/ WorkerStep \/ StackTop
  PROVE  AgreeInv'
<1>0. UNCHANGED <<session, job, cam, toCam, fromCam>>
  BY DEF AppCi, AppClose, AppStep, AppJoinStack, AppJoinWorker, AppFree, WorkerStep,
     WorkerStart, WorkerPower, WorkerStatus, WorkerNextTry, WorkerCheck, WorkerSetup,
     WorkerCreate, WorkerTc, NewTc, StackTop, transportVars, linkVars, sessionVars, notWorker
<1>1. \A d \in Conns : Asked(d)' = Asked(d) /\ Told(d)' = Told(d)
  BY <1>0, SameWire
<1>2. CASE (WorkerCreate \/ StackTop) /\ ~UNCHANGED stk
  <2>1. conn' = conn /\ stk.pc \in {"none", "top"}
    BY <1>2 DEF WorkerCreate, StackTop, CiInv, LifeInv
  <2>2. \E pc \in {"top", "poll", "exit"} : stk' = [NoStack EXCEPT !.pc = pc]
    BY <1>2 DEF WorkerCreate, StackTop
  <2>3. stk'.pc \in {"top", "poll", "exit"}
    BY <2>2 DEF NoStack
  <2>4. \A d \in Conns : Bearing(d)' = Bearing(d)
    BY <1>1, <2>1, <2>3 DEF Bearing, Msgs
  <2>5. \A d \in Conns : Still(d)
    BY <1>1, <2>1, <2>4, StillFrame
  <2>6. \A d \in Conns : Steady(d)
    BY <2>1, <2>3, <2>5, StillSteady
  <2>7. job.pc = "none"
    BY <2>1 DEF CiInv, JobInv
  <2> QED BY <1>0, <2>6, <2>7, SteadyAgree DEF AgreeInv, JobsInv, IsOpen, Answering
<1>3. CASE UNCHANGED stk \/ ~(WorkerCreate \/ StackTop)
  <2>1. UNCHANGED stk
    BY <1>3 DEF AppCi, AppClose, AppStep, AppJoinStack, AppJoinWorker, AppFree, WorkerStep,
       WorkerStart, WorkerPower, WorkerStatus, WorkerNextTry, WorkerCheck, WorkerSetup,
       WorkerTc, transportVars
  <2>2. \A d \in Conns : Bearing(d)' = Bearing(d)
    BY <1>1, <2>1 DEF Bearing, Msgs, Held
  <2>3. \A d \in Conns : Steady(d)
    <3>1. CASE UNCHANGED conn
      BY <1>0, <1>1, <2>1, <2>2, <3>1, StillFrame, StillSame
    <3>2. CASE WorkerTc /\ IdleConns # {}
      <4> PICK c \in Conns : c = Lowest(IdleConns)
        BY <3>2, LowestConn DEF IdleConns
      <4>1. conn[c].st = "idle" /\ LinkOf(c) /\ conn[c] \in ConnRecs
        BY <3>2, LowestConn DEF IdleConns, LinkInv, LayerInv, LinkTypes, ConnTypes
      <4>2. conn[c].queue = <<>> /\ conn[c].chain = NoSpdu
        BY <4>1 DEF LinkOf, Queues, Chain
      <4> DEFINE t == Plain("create", c)
                 r == [conn[c] EXCEPT !.st = "creation", !.chain = NoSpdu,
                                      !.queue = Append(@, Plain("create", c))]
      <4>3. r.chain = conn[c].chain /\ r.queue = <<t>>
        BY <4>1, <4>2 DEF ConnRecs
      <4>4. Update(c, r)
        BY <3>2 DEF WorkerTc, NewTc
      <4>5. ~IsNotice(t)
        BY DEF IsNotice, Plain, Tpdu
      <4> HIDE DEF r, t
      <4>6. conn'[c] = r /\ \A d \in Conns : d # c => conn'[d] = conn[d]
        BY <4>4, ConnStep DEF LayerInv, LinkTypes
      <4>7. Queued(c) = {} /\ Queued(c)' = {t}
        BY <4>2, <4>3, <4>6 DEF Queued, Elems
      <4>8. conn[c].st # "creation" /\ conn[c].st # "active"
        BY <4>1
      <4>9. Sent(c) = {} /\ Sent(c)' = {}
        BY <1>1, <4>1, <4>8 DEF Sent, LinkOf, InState
      <4>10. Notices(c)' = Notices(c)
        BY <4>5, <4>7, <4>9 DEF Notices
      <4>11. InOrder(c)'
        <5>1. DOMAIN conn'[c].queue = 1 .. 1
          BY <4>3, <4>6
        <5> QED BY <4>9, <5>1 DEF InOrder
      <4>12. \A n \in Sessions : Ahead(n, c)' <=> Ahead(n, c)
        BY <1>0, <2>1, <2>2, <4>3, <4>6 DEF Ahead
      <4>13. Steady(c)
        BY <4>10, <4>11, <4>12 DEF Steady
      <4>14. ASSUME NEW d \in Conns, d # c PROVE Steady(d)
        BY <1>0, <1>1, <2>1, <2>2, <4>6, <4>14, StillFrame, StillSame
      <4> QED BY <4>13, <4>14
    <3> QED BY <1>3, <3>1, <3>2 DEF AppCi, AppClose, AppStep, AppJoinStack, AppJoinWorker,
       AppFree, WorkerStep, WorkerStart, WorkerPower, WorkerStatus, WorkerNextTry,
       WorkerCheck, WorkerSetup, WorkerCreate, WorkerTc, NewTc, StackTop, transportVars
  <2> QED BY <1>0, <2>1, <2>3, SteadyAgree DEF AgreeInv, JobsInv, IsOpen, Answering, Closable
<1> QED BY <1>2, <1>3
-----------------------------------------------------------------------------
(* The sessions: the callbacks *)

\* The SPDU in hand is a request to close session n.
InHandClose(n, c) == stk.pc = "spdu" /\ job.pc = "none" /\ stk.at = c /\ IsClose(stk.spdu, n)

LEMMA CallbackBearing ==
  ASSUME CiInv, LayerInv, LinkInv, SpduStep
  PROVE  /\ \A d \in Conns : Asked(d)' = Asked(d) /\ Bearing(d)' = Bearing(d)
         /\ stk.pc = "spdu" => /\ stk.at \in Conns /\ Bearing(stk.at) = {} /\ Asked(stk.at) = {}
                               /\ conn[stk.at].chain = NoSpdu /\ conn[stk.at].st = "active"
<1>0. LinkTypes /\ LiveInv
  BY DEF LayerInv
<1>1. UNCHANGED <<toCam, fromCam>>
  BY <1>0, CallbackLength DEF linkVars
<1>2. stk.pc \in {"spdu", "closing"} /\ stk.at \in Conns
  BY <1>0, SpduStk DEF LinkTypes, StkTypes
<1>3. \A d \in Conns : Asked(d)' = Asked(d) /\ Told(d)' = Told(d) /\ Msgs(d) = Told(d)
  BY <1>1, <1>2, SameWire DEF Msgs
<1> PICK c \in Conns : c = stk.at
  BY <1>2
<1>4. ASSUME stk.pc = "spdu"
      PROVE  /\ Len(stk.rest) = 2 /\ Shape(stk.rest) /\ stk.rest[1].c = c
             /\ conn[c].chain = NoSpdu /\ conn[c].st = "active"
             /\ Asked(c) = {} /\ Told(c) = {} /\ Bearing(c) = {}
  <2>1. /\ Len(stk.rest) = 2 /\ Shape(stk.rest) /\ stk.rest[1].c = c
        /\ conn[c].chain = NoSpdu /\ LinkOf(c) /\ conn[c].st = "active"
    BY <1>0, <1>4 DEF LinkInv, RestInv, LiveInv, LiveConns
  <2>2. Held(c)
    BY <2>1 DEF Held
  <2>3. Asked(c) = {} /\ Told(c) = {}
    BY <2>1, <2>2 DEF LinkOf, OneTurn
  <2> QED BY <1>3, <2>1, <2>3 DEF Bearing
<1>5. CASE UNCHANGED stk
  BY <1>1, <1>2, <1>3, <1>4, <1>5 DEF Bearing, Msgs, Held
<1>6. CASE Onward /\ stk.pc = "closing"
  <2>1. Len(stk.rest) = 1
    BY <1>6 DEF LinkInv, RestInv
  <2>2. \A d \in Conns : Msgs(d)' = Told(d)
    BY <1>1, <1>3, <1>6, <2>1, OnwardLast
  <2> QED BY <1>3, <1>6, <2>2 DEF Bearing
<1>7. CASE Onward /\ stk.pc = "spdu"
  <2>1. /\ Len(stk.rest) = 2 /\ Shape(stk.rest) /\ stk.rest[1].c = c
        /\ Told(c) = {} /\ Bearing(c) = {}
    BY <1>4, <1>7
  <2> DEFINE m == <<stk.rest[2]>>
  <2>2. /\ m[1].tag \in Statuses /\ Msgs(c)' = Told(c) \cup {m}
        /\ \A d \in Conns : d # c => Msgs(d)' = Told(d)
    BY <1>0, <1>1, <1>3, <1>7, <2>1, OnwardFirst
  <2> HIDE DEF m
  <2>3. Bearing(c)' = {}
    BY <2>1, <2>2 DEF Bearing, Statuses
  <2>4. \A d \in Conns : d # c => Bearing(d)' = Bearing(d)
    BY <1>3, <2>2 DEF Bearing
  <2> QED BY <1>3, <1>4, <1>7, <2>1, <2>3, <2>4
<1> QED BY <1>0, <1>2, <1>5, <1>6, <1>7, CallbackStk

LEMMA CallbackAhead ==
  ASSUME CiInv, LayerInv, LinkInv, SpduStep
  PROVE  /\ \A d \in Conns : Sent(d)' = Sent(d) /\ Lengthened(d) /\ LinkOf(d)
         /\ \A n \in Sessions, d \in Conns :
              /\ Ahead(n, d)' <=> Ahead(n, d) /\ ~InHandClose(n, d)
              /\ InHandClose(n, d) => Ahead(n, d)
<1>1. \A d \in Conns : Sent(d)' = Sent(d) /\ Bearing(d)' = Bearing(d)
  BY CallbackBearing DEF Sent
<1>2. \A d \in Conns : Lengthened(d) /\ LinkOf(d)
  BY CallbackLength DEF LayerInv, LinkInv
<1>3. ~(stk'.pc = "spdu" /\ job'.pc = "none")
  <2>1. stk.pc \in {"spdu", "closing"} /\ (UNCHANGED stk \/ stk'.pc \in {"tpdu", "conns"})
    BY SpduStk
  <2>2. UNCHANGED stk /\ stk.pc = "spdu" => job'.pc # "none"
    <3> SUFFICES ASSUME UNCHANGED stk, stk.pc = "spdu" PROVE job'.pc # "none"
        OBVIOUS
    <3>1. ~Onward /\ ~CallbackEnds /\ ~ConnectionClose
      BY DEF CallbackEnds, Onward, NoStack, ConnectionClose
    <3>2. job \in [pc : JobPcs, n : {job.n}, ok : BOOLEAN]
      BY DEF CiInv, SessionTypes
    <3>3. \A pc : ToJob(pc) => job'.pc = pc
      BY <3>2 DEF ToJob
    <3>4. OpenRes => job'.pc = "opened"
      BY <3>1, <3>2 DEF OpenRes
    <3>5. OpenRequest \/ CloseRequest => job'.pc \in {"open_res", "close_res"}
      BY DEF OpenRequest, CloseRequest
    <3>6. Opened \/ OpenCallback \/ CloseRes \/ CaInfo =>
            job'.pc \in {"open_cb", "open_num", "close_cb", "sync"}
      BY <3>1, <3>3 DEF Opened, OpenCallback, CloseRes, CaInfo
    <3>7. ~OpenNumber /\ ~CloseCallback /\ ~Ignore /\ ~Package /\ ~CaSync
      BY <3>1, CloseCallbackStk DEF OpenNumber, Ignore, Package, CaSync
    <3> QED BY <3>1, <3>4, <3>5, <3>6, <3>7 DEF SpduStep
  <2> QED BY <2>1, <2>2
<1>4. ASSUME NEW n \in Sessions, NEW d \in Conns
      PROVE  /\ Ahead(n, d)' <=> Ahead(n, d) /\ ~InHandClose(n, d)
             /\ InHandClose(n, d) => Ahead(n, d)
  <2>1. Ahead(n, d)' <=> \/ IsClose(conn[d].chain, n)
                         \/ \E m \in Bearing(d) : IsClose(m[1].p, n) /\ conn[d].chain = NoSpdu
    <3>1. conn'[d].chain = conn[d].chain
      BY <1>2 DEF Lengthened
    <3> QED BY <1>1, <1>3, <3>1 DEF Ahead
  <2>2. InHandClose(n, d) => Bearing(d) = {} /\ ~IsClose(conn[d].chain, n)
    BY CallbackBearing DEF InHandClose, IsClose, NoSpdu, Spdu
  <2> QED BY <2>1, <2>2 DEF Ahead, InHandClose
<1> QED BY <1>1, <1>2, <1>4

\* What a callback sends to the CAM on its connection.
LEMMA ReplyQueue ==
  ASSUME CiInv, LayerInv, LinkInv, SpduStep, stk.pc = "spdu", NEW c \in Conns, c = stk.at,
         NEW s \in Spdus, SendData(c, s)
  PROVE  LET t == Tpdu("last", c, s)
         IN /\ t \in Tpdus /\ t.tag = "last" /\ t.p = s /\ conn[c].st = "active"
            /\ conn'[c].queue = Append(conn[c].queue, t)
            /\ \A d \in Conns : d # c => conn'[d] = conn[d]
<1>1. conn[c].st = "active"
  BY CallbackBearing
<1>2. /\ \A d \in Conns : d # c => conn'[d] = conn[d]
      /\ conn'[c].queue = Append(conn[c].queue, Tpdu("last", c, s))
  BY <1>1, SendEffect DEF LayerInv, LinkTypes
<1>3. Tpdu("last", c, s) \in Tpdus /\ Tpdu("last", c, s).tag = "last" /\ Tpdu("last", c, s).p = s
  BY TpduIn DEF TpduTags, Tpdu
<1> QED BY <1>1, <1>2, <1>3

\* A connection whose queue does not change, and one that gets no answer.
LEMMA SendsNothing ==
  ASSUME CiInv, LayerInv, LinkInv, SpduStep, NEW d \in Conns, conn'[d].queue = conn[d].queue
  PROVE  Notices(d)' = Notices(d) /\ (InOrder(d) => InOrder(d)')
<1>1. Queued(d)' = Queued(d) /\ Sent(d)' = Sent(d)
  BY CallbackAhead DEF Queued
<1> QED BY <1>1 DEF Notices, InOrder

LEMMA SendsOther ==
  ASSUME CiInv, LayerInv, LinkInv, SpduStep, NEW c \in Conns,
         NEW s \in Spdus, ~About(s, s.n), SendData(c, s)
  PROVE  \A d \in Conns : Notices(d)' = Notices(d) /\ (InOrder(d) => InOrder(d)')
<1>1. ConnTypes /\ LinkOf(c) /\ Sent(c)' = Sent(c)
  BY CallbackAhead DEF LayerInv, LinkTypes
<1> DEFINE t == Tpdu("last", c, s)
<1>2. t \in Tpdus /\ t.p = s
  BY TpduIn DEF TpduTags, Tpdu
<1>3. /\ \A d \in Conns : d # c => conn'[d] = conn[d]
      /\ IF conn[c].st = "active" THEN conn'[c].queue = Append(conn[c].queue, t)
         ELSE conn'[c] = conn[c]
  BY <1>1, SendEffect
<1> HIDE DEF t
<1>4. Notices(c)' = Notices(c) /\ (InOrder(c) => InOrder(c)')
  <2>1. ~About(t.p, t.p.n)
    BY <1>2
  <2>2. conn'[c].queue \in {conn[c].queue, Append(conn[c].queue, t)}
        /\ (conn[c].st = "active" \/ conn'[c].queue = conn[c].queue)
    BY <1>3
  <2> QED BY <1>1, <1>2, <2>1, <2>2, QueueSteady
<1>5. ASSUME NEW d \in Conns, d # c PROVE Notices(d)' = Notices(d) /\ (InOrder(d) => InOrder(d)')
  BY <1>3, <1>5, SendsNothing
<1> QED BY <1>4, <1>5

\* The callbacks that say nothing about a session: they leave host and CAM as they were.
LEMMA OtherCallbacks ==
  ASSUME CiInv, LayerInv, LinkInv, AgreeInv, UNCHANGED cam,
         OpenCallback \/ OpenNumber \/ CloseCallback \/ Ignore \/ Package \/ CaInfo \/ CaSync
  PROVE  AgreeInv'
<1>0. SpduStep
  BY DEF SpduStep
<1>00. stk.at \in Conns
  BY <1>0, SpduStk DEF LayerInv, LinkTypes, StkTypes
<1> PICK c \in Conns : c = stk.at
  BY <1>00
<1>1. job.n \in Int /\ Spdu1.n \in Int /\ Spdu1.arg \in SpduArgs
  BY SpduIn DEF LayerInv, LinkTypes, StkTypes, UserTypes, Spdu1
<1>2. \A n \in Int, arg \in SpduArgs : Spdu("apdu", n, arg) \in Spdus
                                       /\ ~About(Spdu("apdu", n, arg), Spdu("apdu", n, arg).n)
  BY SpduIn DEF SpduKinds, About, Closings, Spdu
<1>3. \A d \in Conns : Notices(d)' = Notices(d) /\ (InOrder(d) => InOrder(d)')
  <2>1. CASE UNCHANGED conn
    BY <1>0, <2>1, SendsNothing
  <2>2. CASE OpenCallback
    <3>1. \E arg \in {"rm_enq", "ca_info_enq"} : SendData(c, Spdu("apdu", job.n, arg))
      BY <2>2 DEF OpenCallback, Reply
    <3>2. {"rm_enq", "ca_info_enq"} \subseteq SpduArgs
      BY DEF SpduArgs
    <3> QED BY <1>0, <1>1, <1>2, <3>1, <3>2, SendsOther
  <2>3. CASE Package
    <3>1. SendData(c, Spdu("apdu", Spdu1.n, RmAnswer[Spdu1.arg])) /\ Spdu1.arg \in DOMAIN RmAnswer
      BY <2>3 DEF Package, Reply, Understood
    <3>2. RmAnswer[Spdu1.arg] \in SpduArgs
      BY <3>1 DEF RmAnswer, SpduArgs
    <3> QED BY <1>0, <1>1, <1>2, <3>1, <3>2, SendsOther
  <2>4. CASE CaSync /\ Open(caNumber)
    <3>1. caNumber \in Sessions /\ session[caNumber].conn \in Conns /\ caNumber \in Int
      BY <2>4, SessionsInt DEF Open, LayerInv, LinkTypes, UserTypes
    <3>2. SendData(session[caNumber].conn, Spdu("apdu", caNumber, "ca_pmt")) /\ "ca_pmt" \in SpduArgs
      BY <2>4 DEF CaSync, Reply, SpduArgs
    <3> QED BY <1>0, <1>2, <3>1, <3>2, SendsOther
  <2> QED BY <2>1, <2>2, <2>3, <2>4
          DEF OpenNumber, CloseCallback, Ignore, CaInfo, CaSync, transportVars
<1>4. \A n \in Sessions, d \in Conns : ~InHandClose(n, d)
  BY CloseCallbackStk DEF OpenCallback, OpenNumber, Ignore, Package, CaInfo, CaSync, InSpdu,
     InHandClose, IsClose, IsPackage, Spdu1
<1>5. \A d \in Conns : Steady(d)
  BY <1>0, <1>3, <1>4, CallbackAhead DEF Steady
<1>6. UNCHANGED session /\ job.pc \notin {"open_res", "opened", "close_res"}
      /\ job'.pc \notin {"open_res", "opened", "close_res"}
  <2>1. job \in [pc : JobPcs, n : {job.n}, ok : BOOLEAN]
    BY DEF CiInv, SessionTypes
  <2>2. CASE CloseCallback
    BY <2>2, CloseCallbackStk DEF CloseCallback, NoJob
  <2> QED BY <2>1, <2>2 DEF OpenCallback, OpenNumber, Ignore, Package, CaInfo, CaSync,
             InSpdu, CallbackEnds, ToJob, NoJob
<1>7. JobsInv' /\ \A n \in Sessions : (IsOpen(n)' <=> IsOpen(n)) /\ ~Answering(n)
  BY <1>6 DEF JobsInv, IsOpen, Answering
<1> QED BY <1>5, <1>6, <1>7, SteadyAgree
-----------------------------------------------------------------------------
(* The sessions: the callbacks that open and close them *)

LEMMA KeptAll ==
  ASSUME LayerInv, AgreeInv, UNCHANGED cam, JobsInv', \A n \in Sessions : Kept(n),
         \A d \in Conns : InOrder(d)' /\ OpensOf(d)'
  PROVE  AgreeInv'
<1>1. UserTypes /\ CamTypes
  BY DEF LayerInv, LinkTypes
<1>2. ASSUME NEW n \in Sessions PROVE Knows(n)' /\ \A c \in Conns : EndsOf(n, c)'
  <2>1. Knows(n) /\ (\A c \in Conns : EndsOf(n, c)) /\ Kept(n)
    BY DEF AgreeInv
  <2>2. cam.sess[n] = NoSession \/ cam.sess[n].conn \in cam'.open
    BY <2>1 DEF Knows
  <2> QED BY <1>1, <2>1, <2>2, KeptAgrees
<1>3. cam'.sess \in [Sessions -> SessRecs]
  BY DEF AgreeInv
<1> QED BY <1>2, <1>3 DEF AgreeInv

\* What the CAM asks, after a callback.
LEMMA CallbackAsks ==
  ASSUME CiInv, LayerInv, LinkInv, SpduStep, UNCHANGED cam, NEW n \in Sessions, NEW c \in Conns,
         ~InHandClose(n, c)
  PROVE  (AskedEnd(n, c)' <=> AskedEnd(n, c)) /\ (OnceAsked(n, c) => OnceAsked(n, c)')
<1>1. ToSay(n, c)' <=> ToSay(n, c)
  BY DEF ToSay
<1>2. OneIn(cam.out[c], ClosesOf(n))' <=> OneIn(cam.out[c], ClosesOf(n))
  BY DEF OneIn, ClosesOf
<1>3. Ahead(n, c)' <=> Ahead(n, c)
  BY CallbackAhead
<1> QED BY <1>1, <1>2, <1>3 DEF AskedEnd, OnceAsked

LEMMA PendsSame ==
  ASSUME NEW c \in Conns, Notices(c)' = Notices(c), NEW n
  PROVE  (OpenPends(n, c)' <=> OpenPends(n, c)) /\ (ClosePends(n, c)' <=> ClosePends(n, c))
BY DEF OpenPends, ClosePends

\* A callback that may change a session, and sends nothing about it.
LEMMA NothingSent ==
  ASSUME CiInv, LayerInv, LinkInv, AgreeInv, SpduStep, UNCHANGED cam, JobsInv',
         \A d \in Conns : Notices(d)' = Notices(d) /\ (InOrder(d) => InOrder(d)'),
         \A n \in Sessions :
           /\ \A c \in Conns : ~InHandClose(n, c)
           /\ OpenBoth(n) => session'[n] = session[n]
           /\ IsOpen(n)' => IsOpen(n) /\ session'[n].conn = session[n].conn
           /\ ~Answering(n)
           /\ \A c \in Conns : OpenPends(n, c) /\ IsOpen(n) =>
                IsOpen(n)' /\ session'[n].conn = session[n].conn /\ session'[n].res = session[n].res
  PROVE  AgreeInv'
<1>1. ASSUME NEW n \in Sessions PROVE Kept(n)
  <2>1. \A c \in Conns : Unmoved(n, c)
    BY CallbackAsks, PendsSame DEF Unmoved
  <2> QED BY <2>1, UnmovedKept
<1>2. ASSUME NEW d \in Conns PROVE InOrder(d)' /\ OpensOf(d)'
  BY OpensKept DEF AgreeInv
<1> QED BY <1>1, <1>2, KeptAll

LEMMA OpenRequestAgree ==
  ASSUME CiInv, LayerInv, LinkInv, AgreeInv, UNCHANGED cam, OpenRequest
  PROVE  AgreeInv'
<1>0. SpduStep /\ UNCHANGED <<conn, stk>> /\ stk.pc = "spdu" /\ job.pc = "none"
      /\ stk.spdu.k = "open_req"
  BY DEF SpduStep, OpenRequest, transportVars, InSpdu, Spdu1
<1>1. \A d \in Conns : Notices(d)' = Notices(d) /\ (InOrder(d) => InOrder(d)')
  BY <1>0, SendsNothing
<1>2. \A n \in Sessions : ~Answering(n) /\ \A c \in Conns : ~InHandClose(n, c)
  BY <1>0 DEF Answering, InHandClose, IsClose
<1>3. CASE Spdu1.arg \in Resources /\ FreeSessions # {}
  <2> PICK n \in Sessions : n = Lowest(FreeSessions)
    BY <1>3, LowestSession DEF FreeSessions
  <2>1. session[n].st = "idle"
    BY <1>3, LowestSession DEF FreeSessions, InUse
  <2> DEFINE s == [st |-> "creation", res |-> Spdu1.arg, conn |-> stk.at,
                   gen |-> session[n].gen + 1]
  <2>2. session' = [session EXCEPT ![n] = s] /\ job' = [pc |-> "open_res", n |-> n, ok |-> TRUE]
    BY <1>3 DEF OpenRequest
  <2>3. s.st = "creation" /\ s.res = Spdu1.arg /\ s.conn = stk.at
    OBVIOUS
  <2> HIDE DEF s
  <2>4. /\ session'[n] = s /\ job'.pc = "open_res" /\ job'.n = n
        /\ \A m \in Sessions : m # n => session'[m] = session[m]
    BY <2>2 DEF CiInv, SessionTypes
  <2>5. JobsInv'
    BY <1>0, <2>3, <2>4 DEF JobsInv, Spdu1
  <2>6. ~OpenBoth(n) /\ ~IsOpen(n) /\ ~IsOpen(n)'
    BY <2>1, <2>3, <2>4 DEF OpenBoth, IsOpen
  <2>7. ASSUME NEW m \in Sessions, m # n PROVE session'[m] = session[m] /\ (IsOpen(m)' <=> IsOpen(m))
    BY <1>0, <2>4, <2>7 DEF IsOpen
  <2> QED BY <1>0, <1>1, <1>2, <2>5, <2>6, <2>7, NothingSent
<1>4. CASE ~(Spdu1.arg \in Resources /\ FreeSessions # {})
  <2>1. job' = [pc |-> "open_res", n |-> 0, ok |-> FALSE] /\ UNCHANGED session
    BY <1>4 DEF OpenRequest
  <2>2. JobsInv' /\ \A m \in Sessions : IsOpen(m)' <=> IsOpen(m)
    BY <1>0, <2>1 DEF JobsInv, IsOpen
  <2> QED BY <1>0, <1>1, <1>2, <2>1, <2>2, NothingSent
<1> QED BY <1>3, <1>4

LEMMA OpenedAgree ==
  ASSUME CiInv, LayerInv, LinkInv, AgreeInv, UNCHANGED cam, Opened
  PROVE  AgreeInv'
<1>0. SpduStep /\ UNCHANGED conn /\ stk.pc = "spdu" /\ job.pc = "opened"
  BY DEF SpduStep, Opened, InSpdu
<1>1. \A d \in Conns : Notices(d)' = Notices(d) /\ (InOrder(d) => InOrder(d)')
  BY <1>0, SendsNothing
<1>2. \A n \in Sessions : ~Answering(n) /\ \A c \in Conns : ~InHandClose(n, c)
  BY <1>0 DEF Answering, InHandClose
<1> PICK n \in Sessions : n = job.n
  BY <1>0 DEF CiInv, JobInv
<1>3. session[n].st = "creation" /\ job.ok
  BY <1>0 DEF CiInv, JobInv, AgreeInv, JobsInv
<1> DEFINE s == [session[n] EXCEPT !.st = "active"]
<1>4. session' = [session EXCEPT ![n] = s] /\ ToJob("open_cb")
  BY <1>3 DEF Opened
<1>5. s.st = "active" /\ s.conn = session[n].conn /\ s.res = session[n].res
  BY DEF CiInv, SessionTypes
<1> HIDE DEF s
<1>6. /\ session'[n] = s /\ job'.pc = "open_cb"
      /\ \A m \in Sessions : m # n => session'[m] = session[m]
  BY <1>4 DEF CiInv, SessionTypes, ToJob
<1>7. JobsInv'
  BY <1>6 DEF JobsInv
<1>8. ~OpenBoth(n) /\ IsOpen(n) /\ IsOpen(n)'
  BY <1>0, <1>3, <1>5, <1>6 DEF OpenBoth, IsOpen
<1>9. ASSUME NEW m \in Sessions, m # n PROVE session'[m] = session[m] /\ (IsOpen(m)' <=> IsOpen(m))
  BY <1>0, <1>6, <1>9 DEF IsOpen
<1> QED BY <1>0, <1>1, <1>2, <1>5, <1>6, <1>7, <1>8, <1>9, NothingSent

LEMMA ConnectionCloseAgree ==
  ASSUME CiInv, LayerInv, LinkInv, AgreeInv, UNCHANGED cam, ConnectionClose
  PROVE  AgreeInv'
<1>0. /\ SpduStep /\ UNCHANGED conn /\ stk.pc = "closing" /\ job.pc = "none"
      /\ job'.pc \in {"none", "close_cb"}
  BY DEF SpduStep, ConnectionClose
<1>1. \A d \in Conns : Notices(d)' = Notices(d) /\ (InOrder(d) => InOrder(d)')
  BY <1>0, SendsNothing
<1>2. \A n \in Sessions : ~Answering(n) /\ \A c \in Conns : ~InHandClose(n, c)
  BY <1>0 DEF Answering, InHandClose
<1>3. JobsInv'
  BY <1>0 DEF JobsInv
<1>4. CASE UNCHANGED session
  <2>1. \A m \in Sessions : IsOpen(m)' <=> IsOpen(m)
    BY <1>0, <1>4 DEF IsOpen
  <2> QED BY <1>0, <1>1, <1>2, <1>3, <1>4, <2>1, NothingSent
<1>5. CASE OnConn(stk.at) # {}
  <2> PICK c \in Conns : c = stk.at
    BY <1>0 DEF LayerInv, LinkTypes, StkTypes
  <2> PICK n \in Sessions : n = Lowest(OnConn(c))
    BY <1>5, LowestSession DEF OnConn
  <2>1. session[n].conn = c
    BY <1>5, LowestSession DEF OnConn
  <2> DEFINE s == [session[n] EXCEPT !.st = "idle"]
  <2>2. session' = [session EXCEPT ![n] = s]
    BY <1>5 DEF ConnectionClose
  <2>3. s.st = "idle"
    BY DEF CiInv, SessionTypes
  <2> HIDE DEF s
  <2>4. session'[n] = s /\ \A m \in Sessions : m # n => session'[m] = session[m]
    BY <2>2 DEF CiInv, SessionTypes
  <2>5. conn[c].st = "idle" /\ LinkOf(c)
    BY <1>0 DEF LinkInv, RestInv
  <2>6. Msgs(c) = Told(c)
    BY <1>0 DEF Msgs
  <2>7. c \notin cam.open /\ Asked(c) = {} /\ conn[c].queue = <<>>
    BY <2>5 DEF LinkOf, InState, Queues
  <2>8. Notices(c) = {}
    BY <2>7, NoElems DEF Notices, Sent, Queued
  <2>9. ~OpenBoth(n)
    <3>1. cam.sess[n] = NoSession \/ cam.sess[n].conn \in cam.open
      BY DEF AgreeInv, Knows
    <3>2. NoSession.conn # c
      BY ConnsNat DEF NoSession
    <3> QED BY <2>1, <2>7, <3>1, <3>2 DEF OpenBoth
  <2>10. ~IsOpen(n)' /\ \A d \in Conns : ~(OpenPends(n, d) /\ IsOpen(n))
    <3>1. ~IsOpen(n)'
      BY <2>3, <2>4 DEF IsOpen
    <3>2. ASSUME NEW d \in Conns, OpenPends(n, d) PROVE FALSE
      <4>1. d = c
        BY <2>1, <3>2 DEF OpenPends, AgreeInv, OpensOf
      <4> QED BY <2>8, <3>2, <4>1 DEF OpenPends
    <3> QED BY <3>1, <3>2
  <2>11. ASSUME NEW m \in Sessions, m # n PROVE session'[m] = session[m] /\ (IsOpen(m)' <=> IsOpen(m))
    BY <1>0, <2>4, <2>11 DEF IsOpen
  <2> QED BY <1>0, <1>1, <1>2, <1>3, <2>9, <2>10, <2>11, NothingSent
<1> QED BY <1>4, <1>5 DEF ConnectionClose
-----------------------------------------------------------------------------
(* The sessions: the callbacks that answer and take leave *)

\* An answer about a session is queued on the connection of the callback.
LEMMA AnswerSent ==
  ASSUME CiInv, LayerInv, LinkInv, AgreeInv, SpduStep, stk.pc = "spdu", NEW c \in Conns, c = stk.at,
         NEW s \in Spdus, SendData(c, s), About(s, s.n), ~OpenPends(s.n, c)
  PROVE  LET t == Tpdu("last", c, s)
         IN /\ t.tag = "last" /\ t.p = s /\ IsNotice(t)
            /\ Notices(c)' = Notices(c) \cup {t} /\ InOrder(c)'
            /\ \A d \in Conns : d # c => Notices(d)' = Notices(d) /\ InOrder(d)'
            /\ \A n : n # s.n => \A d \in Conns : /\ OpenPends(n, d)' <=> OpenPends(n, d)
                                                  /\ ClosePends(n, d)' <=> ClosePends(n, d)
<1> DEFINE t == Tpdu("last", c, s)
<1>1. /\ t \in Tpdus /\ t.tag = "last" /\ t.p = s /\ conn[c].st = "active"
      /\ conn'[c].queue = Append(conn[c].queue, t)
      /\ \A d \in Conns : d # c => conn'[d] = conn[d]
  BY ReplyQueue
<1>2. ConnTypes /\ LinkOf(c) /\ Sent(c)' = Sent(c) /\ InOrder(c)
  BY CallbackAhead DEF LayerInv, LinkTypes, AgreeInv
<1> HIDE DEF t
<1>3. Notices(c)' = Notices(c) \cup {t} /\ InOrder(c)'
  BY <1>1, <1>2, QueueNotice
<1>4. ASSUME NEW d \in Conns, d # c PROVE Notices(d)' = Notices(d) /\ InOrder(d)'
  BY <1>1, <1>4, SendsNothing DEF AgreeInv
<1>5. IsNotice(t)
  BY <1>1 DEF IsNotice, About
<1>6. ASSUME NEW n, n # s.n, NEW d \in Conns
      PROVE  (OpenPends(n, d)' <=> OpenPends(n, d)) /\ (ClosePends(n, d)' <=> ClosePends(n, d))
  <2>1. CASE d = c
    BY <1>1, <1>3, <1>6, <2>1 DEF OpenPends, ClosePends
  <2>2. CASE d # c
    BY <1>4, <2>2, PendsSame
  <2> QED BY <2>1, <2>2
<1> QED BY <1>1, <1>3, <1>4, <1>5, <1>6 DEF t

LEMMA OpenResAgree ==
  ASSUME CiInv, LayerInv, LinkInv, AgreeInv, UNCHANGED cam, OpenRes
  PROVE  AgreeInv'
<1>0. SpduStep /\ UNCHANGED session /\ stk.pc = "spdu" /\ job.pc = "open_res"
  BY DEF SpduStep, OpenRes, InSpdu
<1> PICK c \in Conns : c = stk.at
  BY <1>0, CallbackBearing
<1>1. job.n \in Int /\ Spdu1.n \in Int /\ Spdu1.arg \in SpduArgs
  BY SpduIn DEF LayerInv, LinkTypes, StkTypes, UserTypes, Spdu1
<1>2. \A n \in Sessions : ~Answering(n) /\ \A d \in Conns : ~InHandClose(n, d)
  BY <1>0 DEF Answering, InHandClose
<1>3. CASE ~job.ok
  <2> DEFINE s == Spdu("open_refused", job.n, Spdu1.arg)
  <2>1. s \in Spdus /\ ~About(s, s.n)
    BY <1>1, SpduIn DEF SpduKinds, About, Closings, Spdu
  <2>2. SendData(c, s) /\ CallbackEnds
    BY <1>3 DEF OpenRes, Reply
  <2> HIDE DEF s
  <2>3. \A d \in Conns : Notices(d)' = Notices(d) /\ (InOrder(d) => InOrder(d)')
    BY <1>0, <2>1, <2>2, SendsOther
  <2>4. job'.pc = "none"
    BY <2>2 DEF CallbackEnds, NoJob
  <2>5. JobsInv' /\ \A n \in Sessions : IsOpen(n)' <=> IsOpen(n)
    BY <1>0, <2>4 DEF JobsInv, IsOpen
  <2> QED BY <1>0, <1>2, <2>3, <2>5, NothingSent
<1>4. CASE job.ok
  <2> PICK n \in Sessions : n = job.n
    BY <1>0, <1>4 DEF CiInv, JobInv
  <2>1. session[n].st = "creation" /\ session[n].conn = c /\ session[n].res = Spdu1.arg
    BY <1>0, <1>4 DEF CiInv, JobInv, AgreeInv, JobsInv, Spdu1
  <2> DEFINE s == Spdu("open_ok", n, Spdu1.arg)
             t == Tpdu("last", c, s)
  <2>2. s \in Spdus /\ s.k = "open_ok" /\ s.n = n /\ s.arg = Spdu1.arg
    BY <1>1, SpduIn DEF SpduKinds, Spdu
  <2>3. SendData(c, s) /\ UNCHANGED stk
    BY <1>4 DEF OpenRes, Reply
  <2>4. job'.pc = "opened" /\ job'.n = n /\ job'.ok
    <3>1. conn[c].st = "active"
      BY <1>0, CallbackBearing
    <3>2. job' = [job EXCEPT !.pc = "opened", !.ok = Accepts(c)] /\ Accepts(c)
      BY <1>4, <3>1 DEF OpenRes, Accepts
    <3> QED BY <3>2 DEF CiInv, SessionTypes
  <2> HIDE DEF s
  <2>5. ~IsOpen(n) /\ ~OpenBoth(n)
    BY <1>0, <2>1 DEF IsOpen, OpenBoth
  <2>6. \A d \in Conns : ~OpenPends(n, d)
    BY <2>5 DEF AgreeInv, OpensOf, OpenPends
  <2>7. About(s, s.n)
    BY <2>2 DEF About
  <2>8. /\ t.tag = "last" /\ t.p = s /\ IsNotice(t)
        /\ Notices(c)' = Notices(c) \cup {t} /\ InOrder(c)'
        /\ \A d \in Conns : d # c => Notices(d)' = Notices(d) /\ InOrder(d)'
        /\ \A m : m # n => \A d \in Conns : /\ OpenPends(m, d)' <=> OpenPends(m, d)
                                            /\ ClosePends(m, d)' <=> ClosePends(m, d)
    BY <1>0, <2>2, <2>3, <2>6, <2>7, AnswerSent
  <2> HIDE DEF t
  <2>9. JobsInv'
    BY <1>0, <2>1, <2>3, <2>4 DEF JobsInv
  <2>10. OpenPends(n, c)' /\ IsOpen(n)'
    BY <1>0, <2>1, <2>2, <2>4, <2>8 DEF OpenPends, IsOpen
  <2>11. \A m \in Sessions : m # n => (IsOpen(m)' <=> IsOpen(m))
    BY <1>0, <2>4 DEF IsOpen
  <2>12. Kept(n)
    <3>1. IsOpen(n)' => OpenPends(n, session[n].conn)'
      BY <1>0, <2>1, <2>10
    <3>2. ASSUME NEW d \in Conns, ClosePends(n, d) PROVE ClosePends(n, d)'
      BY <2>8, <3>2 DEF ClosePends
    <3> QED BY <1>0, <1>2, <2>5, <2>6, <3>1, <3>2, CallbackAsks DEF Kept
  <2>13. ASSUME NEW m \in Sessions, m # n PROVE Kept(m)
    <3>1. \A d \in Conns : Unmoved(m, d)
      BY <1>0, <1>2, <2>8, <2>13, CallbackAsks DEF Unmoved
    <3> QED BY <1>0, <1>2, <2>11, <2>13, <3>1, UnmovedKept
  <2>14. \A m \in Sessions : IsOpen(m) => IsOpen(m)'
    BY <2>5, <2>11
  <2>15. OpensOf(c)'
    <3> SUFFICES ASSUME NEW u \in Notices(c)', u.p.k = "open_ok"
                 PROVE  /\ u.p.n \in Sessions /\ IsOpen(u.p.n)'
                        /\ session'[u.p.n].conn = c /\ session'[u.p.n].res = u.p.arg
      BY DEF OpensOf
    <3>1. CASE u = t
      BY <1>0, <2>1, <2>2, <2>8, <2>10, <3>1
    <3>2. CASE u \in Notices(c)
      BY <1>0, <2>14, <3>2 DEF AgreeInv, OpensOf
    <3> QED BY <2>8, <3>1, <3>2
  <2>16. ASSUME NEW d \in Conns, d # c PROVE OpensOf(d)'
    BY <1>0, <2>8, <2>14, <2>16, OpensKept DEF AgreeInv
  <2> QED BY <2>8, <2>9, <2>12, <2>13, <2>15, <2>16, KeptAll
<1> QED BY <1>3, <1>4

LEMMA CloseResAgree ==
  ASSUME CiInv, LayerInv, LinkInv, AgreeInv, UNCHANGED cam, CloseRes
  PROVE  AgreeInv'
<1>0. SpduStep /\ UNCHANGED session /\ stk.pc = "spdu" /\ job.pc = "close_res"
  BY DEF SpduStep, CloseRes, InSpdu
<1> PICK c \in Conns : c = stk.at
  BY <1>0, CallbackBearing
<1> PICK n \in Int : n = job.n
  BY DEF LayerInv, LinkTypes, UserTypes
<1> DEFINE s == Spdu(IF job.ok THEN "close_ok" ELSE "close_err", n, "none")
           t == Tpdu("last", c, s)
<1>1. s \in Spdus /\ s.n = n /\ s.k \in Closings
  BY SpduIn DEF SpduKinds, SpduArgs, Spdu, Closings
<1>2. SendData(c, s) /\ job'.pc \in {"close_cb", "none"}
  <2>1. SendData(c, s)
    BY DEF CloseRes, Reply
  <2>2. ToJob("close_cb") \/ job' = NoJob
    BY DEF CloseRes, CallbackEnds
  <2>3. job'.pc \in {"close_cb", "none"}
    BY <2>2 DEF ToJob, NoJob, CiInv, SessionTypes
  <2> QED BY <2>1, <2>3
<1> HIDE DEF s
<1>3. About(s, s.n)
  BY <1>1 DEF About
<1>4. ~OpenPends(n, c) /\ (n \in Sessions /\ session[n].conn = c => ~OpenBoth(n))
  <2>1. CASE job.ok
    <3>1. n \in Sessions /\ session[n].st = "idle"
      BY <1>0, <2>1 DEF CiInv, JobInv, AgreeInv, JobsInv
    <3>2. ~IsOpen(n) /\ ~OpenBoth(n)
      BY <3>1 DEF IsOpen, OpenBoth
    <3> QED BY <3>2 DEF OpenPends, AgreeInv, OpensOf
  <2>2. CASE ~job.ok
    <3>1. ~(n \in Sessions /\ session[n].conn = c /\ session[n].st = "active")
      BY <1>0, <2>2 DEF AgreeInv, JobsInv, Closable
    <3>2. OpenPends(n, c) => n \in Sessions /\ session[n].conn = c /\ IsOpen(n)
      BY DEF OpenPends, AgreeInv, OpensOf
    <3>3. IsOpen(n) => session[n].st = "active"
      BY <1>0 DEF IsOpen
    <3> QED BY <3>1, <3>2, <3>3 DEF OpenBoth
  <2> QED BY <2>1, <2>2
<1>5. /\ t.tag = "last" /\ t.p = s /\ IsNotice(t)
      /\ Notices(c)' = Notices(c) \cup {t} /\ InOrder(c)'
      /\ \A d \in Conns : d # c => Notices(d)' = Notices(d) /\ InOrder(d)'
      /\ \A m : m # n => \A d \in Conns : /\ OpenPends(m, d)' <=> OpenPends(m, d)
                                          /\ ClosePends(m, d)' <=> ClosePends(m, d)
  BY <1>0, <1>1, <1>2, <1>3, <1>4, AnswerSent
<1> HIDE DEF t
<1>6. JobsInv' /\ \A m \in Sessions : IsOpen(m)' <=> IsOpen(m)
  BY <1>0, <1>2 DEF JobsInv, IsOpen
<1>7. \A m \in Sessions : m # n => ~Answering(m)
  BY DEF Answering
<1>8. \A m \in Sessions, d \in Conns : ~InHandClose(m, d)
  BY <1>0 DEF InHandClose
<1>9. t.p.k # "open_ok"
  BY <1>1, <1>5 DEF Closings
<1>10. ASSUME n \in Sessions PROVE Kept(n)
  <2>1. ClosePends(n, c)'
    BY <1>1, <1>5 DEF ClosePends
  <2>2. ASSUME NEW d \in Conns
        PROVE  /\ OpenPends(n, d)' <=> OpenPends(n, d)
               /\ ClosePends(n, d) => ClosePends(n, d)'
               /\ d # c => (ClosePends(n, d)' <=> ClosePends(n, d))
    <3>1. CASE d = c
      BY <1>5, <1>9, <2>1, <3>1 DEF OpenPends
    <3>2. CASE d # c
      BY <1>5, <3>2, PendsSame
    <3> QED BY <3>1, <3>2
  <2>3. ASSUME NEW d \in Conns, OpenBoth(n), session[n].conn = d
        PROVE  ~OpenPends(n, d)' /\ ~ClosePends(n, d)'
    BY <1>4, <1>10, <2>2, <2>3 DEF OpenBoth
  <2>4. \A d \in Conns : Answering(n) /\ stk.at = d => ClosePends(n, d)'
    BY <2>1
  <2> QED BY <1>0, <1>6, <1>8, <1>10, <2>2, <2>3, <2>4, CallbackAsks DEF Kept
<1>11. ASSUME NEW m \in Sessions, m # n PROVE Kept(m)
  <2>1. \A d \in Conns : Unmoved(m, d)
    BY <1>0, <1>5, <1>8, <1>11, CallbackAsks DEF Unmoved
  <2> QED BY <1>0, <1>6, <1>7, <1>11, <2>1, UnmovedKept
<1>12. ASSUME NEW d \in Conns PROVE OpensOf(d)'
  <2>1. \A u \in Notices(d)' : u.p.k = "open_ok" => u \in Notices(d)
    BY <1>5, <1>9
  <2> QED BY <1>0, <1>6, <2>1 DEF OpensOf, AgreeInv
<1> QED BY <1>5, <1>6, <1>10, <1>11, <1>12, KeptAll

LEMMA CloseRequestAgree ==
  ASSUME CiInv, LayerInv, LinkInv, AgreeInv, UNCHANGED cam, CloseRequest
  PROVE  AgreeInv'
<1>0. SpduStep /\ UNCHANGED <<conn, stk>> /\ stk.pc = "spdu" /\ job.pc = "none"
      /\ stk.spdu.k = "close_req"
  BY DEF SpduStep, CloseRequest, transportVars, InSpdu, Spdu1
<1> PICK c \in Conns : c = stk.at
  BY <1>0, CallbackBearing
<1> PICK n : n = stk.spdu.n
  OBVIOUS
<1>1. \A d \in Conns : Notices(d)' = Notices(d) /\ (InOrder(d) => InOrder(d)')
  BY <1>0, SendsNothing
<1>2. job'.pc = "close_res" /\ job'.n = n /\ job'.ok = Closable(n)
  BY DEF CloseRequest, Spdu1
<1>3. \A m \in Sessions, d \in Conns : InHandClose(m, d) <=> m = n /\ d = c
  BY <1>0 DEF InHandClose, IsClose
<1>4. n \in Sessions => /\ OpenBoth(n) /\ session[n].conn = c /\ cam.sess[n].res = "ending"
                        /\ Closable(n) /\ ~ToSay(n, c)
  <2> SUFFICES ASSUME n \in Sessions
               PROVE  /\ OpenBoth(n) /\ session[n].conn = c /\ cam.sess[n].res = "ending"
                      /\ Closable(n) /\ ~ToSay(n, c)
      OBVIOUS
  <2>1. Ahead(n, c)
    BY <1>0, <1>3, CallbackAhead
  <2>2. EndsOf(n, c)
    BY DEF AgreeInv
  <2>3. OpenBoth(n) /\ session[n].conn = c /\ cam.sess[n].res = "ending" /\ ~ToSay(n, c)
    BY <2>1, <2>2 DEF EndsOf, AskedEnd, OnceAsked
  <2> QED BY <2>3 DEF Closable, OpenBoth
<1>5. CASE n \notin Sessions
  <2>1. ~Closable(n)
    BY <1>5 DEF Closable
  <2>2. UNCHANGED session
    BY <2>1 DEF CloseRequest, Spdu1
  <2>3. JobsInv'
    <3>1. ~Closable(n)'
      BY <1>5 DEF Closable
    <3> QED BY <1>2, <2>1, <3>1 DEF JobsInv
  <2>4. \A m \in Sessions : (IsOpen(m)' <=> IsOpen(m)) /\ ~Answering(m)
    BY <1>0, <1>2, <2>2 DEF IsOpen, Answering
  <2> QED BY <1>0, <1>1, <1>3, <1>5, <2>2, <2>3, <2>4, NothingSent
<1>6. CASE n \in Sessions
  <2> PICK m0 \in Sessions : m0 = n
    BY <1>6
  <2> DEFINE s == [session[n] EXCEPT !.st = "idle"]
  <2>1. session' = [session EXCEPT ![n] = s]
    BY <1>4, <1>6 DEF CloseRequest, Spdu1
  <2>2. s.st = "idle"
    BY <1>6 DEF CiInv, SessionTypes
  <2> HIDE DEF s
  <2>3. session'[n] = s /\ \A m \in Sessions : m # n => session'[m] = session[m]
    BY <1>6, <2>1 DEF CiInv, SessionTypes
  <2>4. JobsInv'
    BY <1>2, <1>4, <1>6, <2>2, <2>3 DEF JobsInv
  <2>5. Answering(n)' /\ ~IsOpen(n)' /\ stk'.at = c
    BY <1>0, <1>2, <1>4, <1>6, <2>2, <2>3 DEF Answering, IsOpen
  <2>6. Knows(n)'
    <3>1. cam.sess[n].conn = c /\ cam.sess[n].conn \in cam.open
      <4>1. cam.sess[n].conn = c /\ cam.sess[n].res = "ending"
        BY <1>4, <1>6 DEF OpenBoth
      <4>2. cam.sess[n] # NoSession
        BY <4>1 DEF NoSession
      <4> QED BY <1>6, <4>1, <4>2 DEF AgreeInv, Knows
    <3>2. Ending(n)'
      BY <1>4, <1>6, <2>5, <3>1 DEF Ending
    <3> QED BY <2>5, <3>1, <3>2 DEF Knows
  <2>7. ASSUME NEW d \in Conns PROVE EndsOf(n, d)'
    <3>1. ~AskedEnd(n, d)'
      <4>1. CASE d = c
        <5>1. ~Ahead(n, c)' /\ ~ToSay(n, c)'
          BY <1>0, <1>3, <1>4, <1>6, CallbackAhead DEF ToSay
        <5> QED BY <4>1, <5>1 DEF AskedEnd
      <4>2. CASE d # c
        <5>1. ~AskedEnd(n, d)
          BY <1>4, <1>6, <4>2 DEF AgreeInv, EndsOf
        <5> QED BY <1>0, <1>3, <1>6, <4>2, <5>1, CallbackAsks
      <4> QED BY <4>1, <4>2
    <3>2. OneIn(cam.out[d], ClosesOf(n))
      BY <1>6 DEF AgreeInv, EndsOf, OnceAsked
    <3>3. OnceAsked(n, d)'
      BY <3>1, <3>2 DEF OnceAsked, AskedEnd, OneIn, ClosesOf
    <3> QED BY <3>1, <3>3 DEF EndsOf
  <2>8. ASSUME NEW m \in Sessions, m # n PROVE Knows(m)' /\ \A d \in Conns : EndsOf(m, d)'
    <3>1. Knows(m) /\ \A d \in Conns : EndsOf(m, d)
      BY DEF AgreeInv
    <3>2. \A d \in Conns : Unmoved(m, d)
      BY <1>0, <1>1, <1>3, <2>8, CallbackAsks, PendsSame DEF Unmoved
    <3>3. (IsOpen(m)' <=> IsOpen(m)) /\ ~Answering(m) /\ session'[m] = session[m]
      BY <1>0, <1>2, <2>3, <2>8 DEF IsOpen, Answering
    <3>4. Kept(m)
      BY <3>2, <3>3, UnmovedKept
    <3>5. cam.sess[m] = NoSession \/ cam.sess[m].conn \in cam'.open
      BY <3>1 DEF Knows
    <3> QED BY <3>1, <3>4, <3>5, KeptAgrees DEF LayerInv, LinkTypes
  <2>9. ASSUME NEW d \in Conns PROVE InOrder(d)' /\ OpensOf(d)'
    <3>1. ASSUME NEW m \in Sessions, OpenPends(m, d) PROVE m # n
      <4>1. m = n => d = c
        BY <1>4, <1>6, <3>1 DEF OpenPends, AgreeInv, OpensOf
      <4>2. ~OpenPends(n, c)
        BY <1>4, <1>6 DEF OpenBoth
      <4> QED BY <3>1, <4>1, <4>2
    <3>2. \A m \in Sessions : m # n => session'[m] = session[m] /\ (IsOpen(m)' <=> IsOpen(m))
      BY <1>0, <1>2, <2>3 DEF IsOpen
    <3> QED BY <1>1, <3>1, <3>2, OpensKept DEF AgreeInv
  <2>10. cam'.sess \in [Sessions -> SessRecs]
    BY DEF AgreeInv
  <2> QED BY <2>4, <2>6, <2>7, <2>8, <2>9, <2>10 DEF AgreeInv
<1> QED BY <1>5, <1>6

\* The callbacks, together.
LEMMA CallbackAgree ==
  ASSUME CiInv, LayerInv, LinkInv, AgreeInv, UNCHANGED cam, SpduStep
  PROVE  AgreeInv'
BY OpenRequestAgree, OpenResAgree, OpenedAgree, CloseRequestAgree, CloseResAgree,
   ConnectionCloseAgree, OtherCallbacks DEF SpduStep
-----------------------------------------------------------------------------
(* The sessions: the steps of the CAM *)

\* Nothing of the host changes, of the CAM what it has to say, and its sessions.
CamOnly == UNCHANGED <<conn, stk, session, job>>

LEMMA CamJobs ==
  ASSUME CamOnly, AgreeInv
  PROVE  JobsInv' /\ \A n \in Sessions : (IsOpen(n)' <=> IsOpen(n)) /\ (Answering(n)' <=> Answering(n))
BY DEF CamOnly, AgreeInv, JobsInv, IsOpen, Answering, Closable

\* A connection on which the CAM hears nothing.
LEMMA Elsewhere ==
  ASSUME CamOnly, NEW d \in Conns, Asked(d)' = Asked(d), Told(d)' = Told(d)
  PROVE  Still(d) /\ Steady(d)
<1>1. Bearing(d)' = Bearing(d)
  BY DEF CamOnly, Bearing, Msgs, Held
<1>2. Still(d)
  BY <1>1, StillFrame DEF CamOnly
<1> QED BY <1>2, StillSame DEF CamOnly

\* A message of the CAM, on the connection where it was asked.
LEMMA CamMessage ==
  ASSUME LinkTypes, LinkInv, CamOnly, toCam # <<>>, toCam' = Tail(toCam),
         NEW t, t = Head(toCam), Asks(t), NEW c \in Conns, c = t.c,
         NEW m \in Messages, m[1].c = c, fromCam' = Append(fromCam, m)
  PROVE  /\ \A d \in Conns : d # c => Still(d) /\ Steady(d)
         /\ t \in Tpdus /\ Asked(c) = {t} /\ Asked(c)' = {} /\ Sent(c)' = {}
         /\ Queued(c)' = Queued(c)
         /\ Bearing(c) = {} /\ Bearing(c)' = {x \in {m} : x[1].tag \in {"last", "more"}}
         /\ ~Held(c) /\ (stk.pc = "spdu" => stk.at # c)
<1>1. /\ t \in Tpdus
      /\ \A d \in Conns : OneToken(d)'
      /\ \A d \in Conns : Asked(d)' = IF d = c THEN {} ELSE Asked(d)
      /\ Asked(c) = {t} /\ Told(c) = {} /\ ~Held(c) /\ Msgs(c) = {}
  BY CamTurn DEF CamOnly
<1>2. \A d \in Conns : Told(d)' = IF d = c THEN {m} ELSE Told(d)
  BY <1>1, ToldAppend DEF LinkInv, LinkTypes
<1>3. ASSUME NEW d \in Conns, d # c PROVE Still(d) /\ Steady(d)
  BY <1>1, <1>2, <1>3, Elsewhere
<1>4. Bearing(c) = {} /\ Sent(c)' = {} /\ Queued(c)' = Queued(c)
  BY <1>1 DEF Bearing, Sent, CamOnly, Queued
<1>5. Msgs(c)' = {m}
  BY <1>1, <1>2 DEF Msgs, Held, CamOnly
<1>6. stk.pc = "spdu" => stk.at # c
  BY <1>1 DEF LinkInv, RestInv, Held
<1> QED BY <1>1, <1>3, <1>4, <1>5, <1>6 DEF Bearing

\* What is asked on a connection that keeps what the CAM has to say.
LEMMA SteadyAsks ==
  ASSUME NEW n \in Sessions, NEW c \in Conns, Ahead(n, c)' <=> Ahead(n, c),
         cam'.out[c] = cam.out[c]
  PROVE  (AskedEnd(n, c)' <=> AskedEnd(n, c)) /\ (OnceAsked(n, c) => OnceAsked(n, c)')
<1>1. ToSay(n, c)' <=> ToSay(n, c)
  BY DEF ToSay
<1>2. OneIn(cam.out[c], ClosesOf(n))' <=> OneIn(cam.out[c], ClosesOf(n))
  BY DEF OneIn, ClosesOf
<1> QED BY <1>1, <1>2 DEF AskedEnd, OnceAsked

\* The CAM hears nothing that changes anything about the sessions.
LEMMA CamHearsNothing ==
  ASSUME LayerInv, LinkInv, AgreeInv, CamHears, NEW t, t = Head(toCam), CamSilent(t) \/ CamEmpty(t)
  PROVE  AgreeInv'
<1>0. LinkTypes
  BY DEF LayerInv
<1>1. toCam # <<>> /\ toCam' = Tail(toCam) /\ CamOnly /\ UNCHANGED cam
  BY DEF CamHears, notCam, sessionVars, CamSilent, CamEmpty, CamOnly
<1> PICK c \in Conns : c = t.c
  BY <1>0, <1>1, CamTurn
<1>2. CASE CamSilent(t)
  <2>1. ~Asks(t)
    BY <1>0, <1>1, <1>2, CamTurn DEF Asks, CamSilent
  <2>2. \A d \in Conns : Asked(d)' = Asked(d)
    BY <1>0, <1>1, <2>1, CamTurn
  <2>3. \A d \in Conns : Told(d)' = Told(d)
    BY <1>2, SameTold DEF CamSilent
  <2>4. \A d \in Conns : Steady(d)
    BY <1>1, <2>2, <2>3, Elsewhere
  <2> QED BY <1>1, <2>4, CamJobs, SteadyAgree DEF CamOnly
<1>3. CASE CamEmpty(t)
  <2> PICK x \in Tpdus : x = Plain("sb", c)
    BY TpduIn DEF TpduTags
  <2> PICK m : m = <<x>>
    OBVIOUS
  <2>1. x.c = c /\ x.tag = "sb"
    BY DEF Plain, Tpdu
  <2>2. m \in Messages /\ m[1] = x /\ fromCam' = Append(fromCam, m)
    BY <1>3, <2>1, Pack DEF CamEmpty
  <2>3. Asks(t) /\ t.tag = "rcv"
    BY <1>3 DEF CamEmpty, Asks
  <2>4. /\ \A d \in Conns : d # c => Still(d) /\ Steady(d)
        /\ Asked(c) = {t} /\ Sent(c)' = {} /\ Bearing(c) = {}
        /\ Bearing(c)' = {y \in {m} : y[1].tag \in {"last", "more"}}
    BY <1>0, <1>1, <2>1, <2>2, <2>3, CamMessage
  <2>5. Still(c)
    <3>1. Sent(c) = {}
      BY <2>3, <2>4 DEF Sent, IsNotice
    <3>2. Bearing(c)' = {}
      BY <2>1, <2>2, <2>4
    <3> QED BY <1>1, <2>4, <3>1, <3>2 DEF Still, CamOnly
  <2>6. \A d \in Conns : Steady(d)
    BY <1>1, <2>4, <2>5, StillSame DEF CamOnly
  <2> QED BY <1>1, <2>6, CamJobs, SteadyAgree DEF CamOnly
<1> QED BY <1>2, <1>3

\* A new connection of the CAM: none of its sessions can be on it yet.
LEMMA CamCreateAgree ==
  ASSUME LayerInv, LinkInv, AgreeInv, CamHears, fails = 0, NEW t, t = Head(toCam), CamCreate(t)
  PROVE  AgreeInv'
<1>0. LinkTypes
  BY DEF LayerInv
<1>1. toCam # <<>> /\ toCam' = Tail(toCam) /\ CamOnly /\ t.tag = "create" /\ Asks(t)
  BY DEF CamHears, notCam, sessionVars, CamCreate, CamOnly, Asks
<1> PICK c \in Conns : c = t.c
  BY <1>0, <1>1, CamTurn
<1> PICK x \in Tpdus : x = Plain("create_reply", c)
  BY TpduIn DEF TpduTags
<1> PICK y \in Tpdus : y = Plain("sb", c)
  BY TpduIn DEF TpduTags
<1>2. x.c = c /\ x.tag = "create_reply"
  BY DEF Plain, Tpdu
<1>3. Answer(<<x, y>>)
  BY DEF CamCreate
<1> PICK m : m = <<x, y>>
  OBVIOUS
<1>4. m \in Messages /\ m[1] = x /\ m[1].c = c /\ fromCam' = Append(fromCam, m)
  BY <1>2, <1>3, Pack
<1>5. /\ \A d \in Conns : d # c => Still(d) /\ Steady(d)
      /\ Asked(c) = {t} /\ Sent(c)' = {} /\ Bearing(c) = {}
      /\ Bearing(c)' = {z \in {m} : z[1].tag \in {"last", "more"}}
  BY <1>0, <1>1, <1>2, <1>4, CamMessage
<1>6. Still(c)
  <2>1. Sent(c) = {}
    BY <1>1, <1>5 DEF Sent, IsNotice
  <2>2. Bearing(c)' = {}
    BY <1>2, <1>4, <1>5
  <2> QED BY <1>1, <1>5, <2>1, <2>2 DEF Still, CamOnly
<1>7. \A d \in Conns : Steady(d)
  BY <1>1, <1>5, <1>6, StillSame DEF CamOnly
<1>8. conn[c].st = "creation" /\ c \notin cam.open
  <2>1. conn[c].st = "creation" /\ Msgs(c) = {}
    BY <1>0, <1>1, CamTurn DEF CamOnly
  <2>2. LinkOf(c)
    BY DEF LinkInv
  <2> QED BY <2>1, <2>2 DEF LinkOf, InState
<1>9. \A n \in Sessions : cam.sess[n].conn # c
  <2>1. ASSUME NEW n \in Sessions, cam.sess[n].conn = c PROVE FALSE
    <3>1. cam.sess[n] # NoSession
      BY <2>1, ConnsNat DEF NoSession
    <3> QED BY <1>8, <2>1, <3>1 DEF AgreeInv, Knows
  <2> QED BY <2>1
<1>10. /\ cam'.open = cam.open \cup {c} /\ cam'.sess = Without(c)
       /\ cam'.out = [cam.out EXCEPT ![c] = <<>>]
  <2> DEFINE sess == Without(c)
  <2>1. cam' = [cam EXCEPT !.open = @ \cup {c}, !.sess = sess, !.out[c] = <<>>]
    BY DEF CamCreate
  <2> HIDE DEF sess, Spdus
  <2>2. cam'.open = cam.open \cup {c} /\ cam'.sess = sess /\ cam'.out = [cam.out EXCEPT ![c] = <<>>]
    BY <1>0, <2>1 DEF LinkTypes, CamTypes
  <2> QED BY <2>2 DEF sess
<1>11. cam'.out[c] = <<>> /\ \A d \in Conns : d # c => cam'.out[d] = cam.out[d]
  <2> HIDE DEF Spdus
  <2> QED BY <1>0, <1>10 DEF LinkTypes, CamTypes
<1>12. \A n \in Sessions : cam'.sess[n] = cam.sess[n]
  BY <1>9, <1>10 DEF Without
<1>13. ASSUME NEW n \in Sessions PROVE Knows(n)' /\ \A d \in Conns : EndsOf(n, d)'
  <2>1. Knows(n) /\ \A d \in Conns : EndsOf(n, d)
    BY DEF AgreeInv
  <2>2. ~AskedEnd(n, c)
    <3>1. ~(OpenBoth(n) /\ session[n].conn = c)
      BY <1>9 DEF OpenBoth
    <3> QED BY <2>1, <3>1 DEF EndsOf
  <2>3. (AskedEnd(n, c)' <=> AskedEnd(n, c)) /\ (OnceAsked(n, c) => OnceAsked(n, c)')
    <3>1. ~ToSay(n, c)' /\ OneIn(cam.out[c], ClosesOf(n))'
      BY <1>11, NoElems DEF ToSay, OneIn
    <3>2. ~Ahead(n, c)'
      BY <1>7, <2>2 DEF Steady, AskedEnd
    <3> QED BY <2>2, <3>1, <3>2 DEF AskedEnd, OnceAsked
  <2>4. \A d \in Conns : Unmoved(n, d)
    <3>1. ASSUME NEW d \in Conns, d # c
          PROVE  (AskedEnd(n, d)' <=> AskedEnd(n, d)) /\ (OnceAsked(n, d) => OnceAsked(n, d)')
      BY <1>7, <1>11, <3>1, SteadyAsks DEF Steady
    <3>2. \A d \in Conns : Notices(d)' = Notices(d)
      BY <1>7 DEF Steady
    <3> QED BY <2>3, <3>1, <3>2, PendsSame DEF Unmoved
  <2>5. Kept(n)
    BY <1>1, <1>12, <2>4, CamJobs, UnmovedKept DEF CamOnly
  <2>6. cam.sess[n] = NoSession \/ cam.sess[n].conn \in cam'.open
    BY <1>10, <2>1 DEF Knows
  <2>7. IsOpen(n) => session[n].conn # c
    <3>1. IsOpen(n) => session[n].st # "idle"
      BY DEF IsOpen
    <3>2. ~(stk.pc = "closing" /\ stk.at = c)
      BY <1>8 DEF LinkInv, RestInv
    <3> QED BY <1>8, <3>1, <3>2 DEF LayerInv, LiveInv, LiveConns
  <2>8. IsOpen(n) /\ session[n].conn \notin cam.open => session[n].conn \notin cam'.open
    BY <1>10, <2>7
  <2> QED BY <1>0, <2>1, <2>5, <2>6, <2>8, KeptAgrees DEF LinkTypes
<1>14. ASSUME NEW d \in Conns PROVE InOrder(d)' /\ OpensOf(d)'
  <2>1. InOrder(d) /\ OpensOf(d) /\ Steady(d)
    BY <1>7 DEF AgreeInv
  <2>2. Notices(d)' \subseteq Notices(d) /\ InOrder(d)'
    BY <2>1 DEF Steady
  <2> QED BY <1>1, <2>1, <2>2, CamJobs, OpensKept DEF CamOnly
<1>15. cam'.sess \in [Sessions -> SessRecs]
  <2>1. cam'.sess = [n \in Sessions |-> cam'.sess[n]]
    BY <1>10 DEF Without
  <2> QED BY <1>12, <2>1 DEF AgreeInv
<1> QED BY <1>1, <1>13, <1>14, <1>15, CamJobs DEF AgreeInv
-----------------------------------------------------------------------------
(* The sessions: the CAM hears an answer *)

LEMMA SaidIn ==
  ASSUME NEW p \in Spdus
  PROVE  \/ Said(p) = <<>>
         \/ \E s \in Spdus : s.k = "apdu" /\ Said(p) = <<s>>
<1>1. p.arg \in DOMAIN CamReply => CamReply[p.arg] \in SpduArgs
  BY DEF CamReply, SpduArgs
<1>2. p.k = "apdu" /\ p.arg \in DOMAIN CamReply =>
        LET s == Spdu("apdu", p.n, CamReply[p.arg]) IN s \in Spdus /\ s.k = "apdu"
  BY <1>1, SpduIn DEF SpduKinds, Spdu
<1> QED BY <1>2 DEF Said

LEMMA SaysMore ==
  ASSUME CamTypes, NEW c \in Conns, NEW n \in Sessions, Ahead(n, c)' <=> Ahead(n, c),
         NEW s \in Spdus, ~IsClose(s, n),
         cam'.out[c] \in {cam.out[c], Append(cam.out[c], s)}
  PROVE  (AskedEnd(n, c)' <=> AskedEnd(n, c)) /\ (OnceAsked(n, c) => OnceAsked(n, c)')
<1> HIDE DEF Spdus
<1>1. CASE cam'.out[c] = cam.out[c]
  BY <1>1, SteadyAsks
<1>2. CASE cam'.out[c] = Append(cam.out[c], s)
  <2>1. cam.out[c] \in Seq(Spdus) /\ s \notin ClosesOf(n)
    BY DEF CamTypes, ClosesOf
  <2>2. /\ Elems(cam'.out[c]) = Elems(cam.out[c]) \cup {s}
        /\ OneIn(cam.out[c], ClosesOf(n)) => OneIn(cam'.out[c], ClosesOf(n))
    BY <1>2, <2>1, ElemsAppend
  <2>3. ToSay(n, c)' <=> ToSay(n, c)
    BY <2>1, <2>2 DEF ToSay, ClosesOf
  <2>4. OneIn(cam.out[c], ClosesOf(n)) => OneIn(cam.out[c], ClosesOf(n))'
    BY <2>2 DEF OneIn, ClosesOf
  <2> QED BY <2>3, <2>4 DEF AskedEnd, OnceAsked
<1> QED BY <1>1, <1>2

LEMMA CamSessionsIs ==
  ASSUME NEW c, NEW p
  PROVE  /\ ~About(p, p.n) => CamSessions(c, p) = cam.sess
         /\ p.k = "open_ok" =>
              CamSessions(c, p) = [cam.sess EXCEPT ![p.n] = [res |-> p.arg, conn |-> c]]
         /\ p.k \in Closings =>
              CamSessions(c, p) = IF p.n \in Sessions /\ cam.sess[p.n].conn = c
                                  THEN [cam.sess EXCEPT ![p.n] = NoSession] ELSE cam.sess
BY DEF CamSessions, About, Closings

LEMMA CamLastAgree ==
  ASSUME CiInv, LayerInv, LinkInv, AgreeInv, CamHears, NEW t, t = Head(toCam), CamLast(t)
  PROVE  AgreeInv'
<1>0. LinkTypes /\ CamTypes /\ UserTypes
  BY DEF LayerInv, LinkTypes
<1>1. toCam # <<>> /\ toCam' = Tail(toCam) /\ CamOnly /\ t.tag = "last" /\ Asks(t)
  BY DEF CamHears, notCam, sessionVars, CamLast, CamOnly, Asks
<1> PICK c \in Conns : c = t.c
  BY <1>0, <1>1, CamTurn
<1> DEFINE out == [cam.out EXCEPT ![c] = @ \o Said(t.p)]
           sess == CamSessions(c, t.p)
<1> PICK x \in Tpdus : x = Status(c, out)
  BY StatusIn
<1>2. x.c = c /\ x.tag \in Statuses
  BY StatusIn
<1>3. /\ c \in cam.open /\ Answer(<<x>>)
      /\ cam' = [cam EXCEPT !.out = out, !.sess = sess]
  BY DEF CamLast
<1> HIDE DEF out
<1> PICK m : m = <<x>>
  OBVIOUS
<1>4. m \in Messages /\ m[1] = x /\ m[1].c = c /\ fromCam' = Append(fromCam, m)
  BY <1>2, <1>3, Pack
<1>5. /\ \A d \in Conns : d # c => Still(d) /\ Steady(d)
      /\ t \in Tpdus /\ Asked(c) = {t} /\ Sent(c)' = {} /\ Queued(c)' = Queued(c)
      /\ Bearing(c) = {} /\ Bearing(c)' = {z \in {m} : z[1].tag \in {"last", "more"}}
      /\ ~Held(c) /\ (stk.pc = "spdu" => stk.at # c)
  BY <1>0, <1>1, <1>4, CamMessage
<1>6. t.p \in Spdus
  BY <1>5, TpduIn
<1>7. cam'.open = cam.open /\ cam'.out = out /\ cam'.sess = sess
  <2> HIDE DEF sess, Spdus
  <2> QED BY <1>0, <1>3 DEF CamTypes
<1>8. \E s \in Spdus : s.k = "apdu" /\ cam'.out[c] \in {cam.out[c], Append(cam.out[c], s)}
  <2> PICK q \in Seq(Spdus) : q = cam.out[c]
    BY <1>0 DEF CamTypes
  <2>1. cam'.out[c] = q \o Said(t.p)
    <3> HIDE DEF Spdus
    <3> QED BY <1>0, <1>7 DEF CamTypes, out
  <2> HIDE DEF Spdus
  <2>2. q \o <<>> = q /\ \A s \in Spdus : q \o <<s>> = Append(q, s)
    BY ConcatEmptySeq, AppendIsConcat
  <2>3. CASE Said(t.p) = <<>>
    <3>1. Spdu("apdu", 0, "none") \in Spdus
      BY SpduIn DEF SpduKinds, SpduArgs
    <3>2. Spdu("apdu", 0, "none").k = "apdu"
      BY DEF Spdu
    <3> QED BY <2>1, <2>2, <2>3, <3>1, <3>2
  <2>4. CASE \E s \in Spdus : s.k = "apdu" /\ Said(t.p) = <<s>>
    <3> PICK s \in Spdus : s.k = "apdu" /\ Said(t.p) = <<s>>
      BY <2>4
    <3>1. cam'.out[c] = Append(q, s)
      BY <2>1, <2>2
    <3> QED BY <3>1
  <2> QED BY <1>6, <2>3, <2>4, SaidIn
<1>9. \A d \in Conns : d # c => cam'.out[d] = cam.out[d]
  <2> HIDE DEF Spdus
  <2> QED BY <1>0, <1>7 DEF CamTypes, out
<1>10. \A n \in Sessions : Ahead(n, c)' <=> Ahead(n, c)
  <2>1. Bearing(c)' = {}
    BY <1>2, <1>4, <1>5 DEF Statuses
  <2> QED BY <1>1, <1>5, <2>1 DEF Ahead, CamOnly
<1>11. ASSUME NEW n \in Sessions, NEW d \in Conns
       PROVE  (AskedEnd(n, d)' <=> AskedEnd(n, d)) /\ (OnceAsked(n, d) => OnceAsked(n, d)')
  <2>1. CASE d = c
    <3>1. \A s : s.k = "apdu" => ~IsClose(s, n)
      BY DEF IsClose
    <3> QED BY <1>0, <1>8, <1>10, <2>1, <3>1, SaysMore
  <2>2. CASE d # c
    BY <1>5, <1>9, <2>2, SteadyAsks DEF Steady
  <2> QED BY <2>1, <2>2
<1>12. /\ Sent(c) = IF IsNotice(t) THEN {t} ELSE {}
       /\ Notices(c)' \subseteq Notices(c) /\ Notices(c) \subseteq Notices(c)' \cup {t}
       /\ IsNotice(t) => t \in Notices(c)
       /\ ~IsNotice(t) => Notices(c)' = Notices(c)
       /\ IsNotice(t) <=> About(t.p, t.p.n)
  BY <1>1, <1>5 DEF Sent, Notices, IsNotice, About
<1>13. \A d \in Conns : d # c => Notices(d)' = Notices(d) /\ InOrder(d)'
  BY <1>5 DEF Steady, AgreeInv
<1>14. InOrder(c)'
  <2>1. InOrder(c)
    BY DEF AgreeInv
  <2>2. conn' = conn
    BY <1>1 DEF CamOnly
  <2>3. Sent(c)' = {}
    BY <1>5
  <2> QED BY <2>1, <2>2, <2>3 DEF InOrder
<1>15. ASSUME NEW d \in Conns PROVE OpensOf(d)'
  <2>1. Notices(d)' \subseteq Notices(d)
    BY <1>12, <1>13
  <2> QED BY <1>1, <2>1, CamJobs, OpensKept DEF AgreeInv, CamOnly
\* A session the answer is not about.
<1>16. ASSUME NEW n \in Sessions, ~IsNotice(t) \/ n # t.p.n, cam'.sess[n] = cam.sess[n]
       PROVE  Knows(n)' /\ \A d \in Conns : EndsOf(n, d)'
  <2>1. Knows(n) /\ \A d \in Conns : EndsOf(n, d)
    BY DEF AgreeInv
  <2>2. ASSUME NEW d \in Conns
        PROVE  (OpenPends(n, d)' <=> OpenPends(n, d)) /\ (ClosePends(n, d)' <=> ClosePends(n, d))
    <3>1. CASE d = c /\ IsNotice(t)
      BY <1>12, <1>16, <3>1 DEF OpenPends, ClosePends
    <3>2. CASE d # c \/ ~IsNotice(t)
      BY <1>12, <1>13, <3>2, PendsSame
    <3> QED BY <3>1, <3>2
  <2>3. \A d \in Conns : Unmoved(n, d)
    BY <1>11, <2>2 DEF Unmoved
  <2>4. Kept(n)
    BY <1>1, <1>16, <2>3, CamJobs, UnmovedKept DEF CamOnly
  <2>5. cam.sess[n] = NoSession \/ cam.sess[n].conn \in cam'.open
    BY <1>7, <2>1 DEF Knows
  <2> QED BY <1>0, <1>7, <2>1, <2>4, <2>5, KeptAgrees
<1>17. CASE ~IsNotice(t)
  <2>1. cam'.sess = cam.sess
    <3>1. ~About(t.p, t.p.n)
      BY <1>12, <1>17
    <3>2. CamSessions(c, t.p) = cam.sess
      BY <3>1, CamSessionsIs
    <3> QED BY <1>7, <3>2
  <2> QED BY <1>1, <1>13, <1>14, <1>15, <1>16, <1>17, <2>1, CamJobs DEF AgreeInv
<1> PICK n : n = t.p.n
  OBVIOUS
<1>18. CASE IsNotice(t) /\ t.p.k = "open_ok"
  <2>1. n \in Sessions /\ IsOpen(n) /\ session[n].conn = c /\ session[n].res = t.p.arg
    BY <1>12, <1>18 DEF AgreeInv, OpensOf
  <2> PICK n0 \in Sessions : n0 = n
    BY <2>1
  <2>2. session[n].st = "active"
    <3>1. ASSUME job.pc = "opened", job.n = n PROVE FALSE
      <4>1. stk.at = c
        BY <2>1, <3>1 DEF AgreeInv, JobsInv
      <4> QED BY <1>5, <3>1, <4>1 DEF CiInv, JobInv
    <3> QED BY <2>1, <3>1 DEF IsOpen
  <2>3. cam'.sess = [cam.sess EXCEPT ![n] = [res |-> t.p.arg, conn |-> c]]
    BY <1>7, <1>18, CamSessionsIs
  <2>4. /\ cam'.sess[n] = [res |-> t.p.arg, conn |-> c]
        /\ \A k \in Sessions : k # n => cam'.sess[k] = cam.sess[k]
        /\ cam'.sess \in [Sessions -> SessRecs]
    <3>1. cam.sess \in [Sessions -> SessRecs]
      BY DEF AgreeInv
    <3>2. t.p.arg \in {"none", "rm", "ca"}
      BY <2>1 DEF CiInv, SessionTypes
    <3>3. [res |-> t.p.arg, conn |-> c] \in SessRecs
      BY <3>2 DEF SessRecs
    <3> HIDE DEF SessRecs
    <3> QED BY <2>1, <2>3, <3>1, <3>3
  <2>5. ~OpenPends(n, c)' /\ ~ClosePends(n, c)'
    <3>1. \A u \in Queued(c) : ~About(u.p, n)
      BY <1>12, <1>18 DEF AgreeInv, InOrder
    <3> QED BY <1>5, <3>1 DEF OpenPends, ClosePends, Notices, About
  <2>6. OpenBoth(n)'
    <3>1. cam'.sess[n].conn = c /\ cam'.sess[n].res = session[n].res /\ session'[n] = session[n]
      BY <1>1, <2>1, <2>4 DEF CamOnly
    <3> QED BY <2>1, <2>2, <2>5, <3>1 DEF OpenBoth
  <2>7. Knows(n)'
    BY <1>3, <1>7, <2>4, <2>6 DEF Knows
  <2>8. \A d \in Conns : EndsOf(n, d)'
    <3>1. OpenPends(n, c)
      BY <1>12, <1>18 DEF OpenPends
    <3>2. ~OpenBoth(n)
      BY <2>1, <3>1 DEF OpenBoth
    <3>3. \A d \in Conns : ~AskedEnd(n, d) /\ OnceAsked(n, d)
      BY <2>1, <3>2 DEF AgreeInv, EndsOf
    <3> QED BY <1>11, <2>1, <3>3 DEF EndsOf
  <2>9. ASSUME NEW k \in Sessions, k # n PROVE Knows(k)' /\ \A d \in Conns : EndsOf(k, d)'
    BY <1>16, <2>4, <2>9
  <2> QED BY <1>1, <1>13, <1>14, <1>15, <2>4, <2>7, <2>8, <2>9, CamJobs DEF AgreeInv
<1>19. CASE IsNotice(t) /\ t.p.k \in Closings
  <2>1. t.p.k # "open_ok"
    BY <1>19 DEF Closings
  <2>2. CASE ~(n \in Sessions /\ cam.sess[n].conn = c)
    <3>1. cam'.sess = cam.sess
      <4>1. CamSessions(c, t.p) = cam.sess
        BY <1>19, <2>2, CamSessionsIs
      <4> QED BY <1>7, <4>1
    <3>2. ASSUME n \in Sessions PROVE Knows(n)' /\ \A d \in Conns : EndsOf(n, d)'
      <4>1. Knows(n) /\ \A d \in Conns : EndsOf(n, d)
        BY <3>2 DEF AgreeInv
      <4>2. ASSUME NEW d \in Conns
            PROVE  /\ OpenPends(n, d)' <=> OpenPends(n, d)
                   /\ ClosePends(n, d)' => ClosePends(n, d)
                   /\ d # c => (ClosePends(n, d)' <=> ClosePends(n, d))
        <5>1. CASE d = c
          BY <1>12, <2>1, <5>1 DEF OpenPends, ClosePends
        <5>2. CASE d # c
          BY <1>13, <5>2, PendsSame
        <5> QED BY <5>1, <5>2
      <4>3. \A d \in Conns : OpenBoth(n) /\ session[n].conn = d =>
                               ~OpenPends(n, d)' /\ ~ClosePends(n, d)'
        BY <4>2 DEF OpenBoth
      <4>4. cam.sess[n].conn # c
        BY <2>2, <3>2
      <4>5. Kept(n)
        BY <1>1, <1>11, <3>1, <3>2, <4>2, <4>3, <4>4, CamJobs DEF CamOnly, Kept
      <4>6. cam.sess[n] = NoSession \/ cam.sess[n].conn \in cam'.open
        BY <1>7, <4>1 DEF Knows
      <4> QED BY <1>0, <1>7, <3>2, <4>1, <4>5, <4>6, KeptAgrees
    <3>3. ASSUME NEW k \in Sessions, k # n PROVE Knows(k)' /\ \A d \in Conns : EndsOf(k, d)'
      BY <1>16, <3>1, <3>3
    <3> QED BY <1>1, <1>13, <1>14, <1>15, <3>1, <3>2, <3>3, CamJobs DEF AgreeInv
  <2>3. CASE n \in Sessions /\ cam.sess[n].conn = c
    <3> PICK n0 \in Sessions : n0 = n
      BY <2>3
    <3>1. cam'.sess = [cam.sess EXCEPT ![n] = NoSession]
      BY <1>7, <1>19, <2>3, CamSessionsIs
    <3>2. /\ cam'.sess[n] = NoSession
          /\ \A k \in Sessions : k # n => cam'.sess[k] = cam.sess[k]
          /\ cam'.sess \in [Sessions -> SessRecs]
      <4>1. cam.sess \in [Sessions -> SessRecs] /\ NoSession \in SessRecs
        BY DEF AgreeInv, SessRecs, NoSession
      <4> HIDE DEF SessRecs
      <4> QED BY <3>1, <4>1
    <3>3. ~OpenBoth(n)
      <4>1. ClosePends(n, c)
        BY <1>12, <1>19 DEF ClosePends
      <4> QED BY <2>3, <4>1 DEF OpenBoth
    <3>4. Knows(n)'
      <4>1. IsOpen(n)' => IsOpen(n) /\ session'[n] = session[n]
        BY <1>1, CamJobs DEF CamOnly
      <4>2. IsOpen(n) => OpenPends(n, session[n].conn) \/ session[n].conn \notin cam.open
        BY <3>3 DEF AgreeInv, Knows
      <4>3. ASSUME IsOpen(n), OpenPends(n, session[n].conn) PROVE OpenPends(n, session[n].conn)'
        <5> PICK d \in Conns : d = session[n].conn
          BY <1>0, <4>3 DEF IsOpen, UserTypes
        <5>1. OpenPends(n, d)'
          <6>1. CASE d = c
            BY <1>12, <2>1, <4>3, <6>1 DEF OpenPends
          <6>2. CASE d # c
            BY <1>13, <4>3, <6>2, PendsSame
          <6> QED BY <6>1, <6>2
        <5> QED BY <1>1, <5>1 DEF CamOnly
      <4> QED BY <1>7, <3>2, <4>1, <4>2, <4>3 DEF Knows
    <3>5. \A d \in Conns : EndsOf(n, d)'
      <4>1. \A d \in Conns : ~AskedEnd(n, d) /\ OnceAsked(n, d)
        BY <3>3 DEF AgreeInv, EndsOf
      <4> QED BY <1>11, <4>1 DEF EndsOf
    <3>6. ASSUME NEW k \in Sessions, k # n PROVE Knows(k)' /\ \A d \in Conns : EndsOf(k, d)'
      BY <1>16, <3>2, <3>6
    <3> QED BY <1>1, <1>13, <1>14, <1>15, <3>2, <3>4, <3>5, <3>6, CamJobs DEF AgreeInv
  <2> QED BY <2>2, <2>3
<1> QED BY <1>17, <1>18, <1>19 DEF IsNotice, Closings
-----------------------------------------------------------------------------
(* The sessions: the CAM is asked, or starts something *)

LEMMA ElemsCons ==
  ASSUME NEW S, NEW q \in Seq(S), NEW x \in S, NEW r, r = <<x>> \o q
  PROVE  /\ Elems(r) = Elems(q) \cup {x}
         /\ \A T : OneIn(q, T) /\ x \notin T => OneIn(r, T)
<1>1. /\ Len(q) \in Nat /\ DOMAIN q = 1 .. Len(q) /\ DOMAIN r = 1 .. Len(q) + 1
      /\ r[1] = x /\ \A i \in DOMAIN q : r[i + 1] = q[i]
  OBVIOUS
<1>2. \A i \in DOMAIN r : i = 1 \/ (i - 1 \in DOMAIN q /\ r[i] = q[i - 1])
  <2>1. ASSUME NEW i \in DOMAIN r, i # 1 PROVE i - 1 \in DOMAIN q /\ r[i] = q[i - 1]
    <3>1. i - 1 \in DOMAIN q /\ (i - 1) + 1 = i
      BY <1>1, <2>1
    <3> QED BY <1>1, <3>1
  <2> QED BY <2>1
<1>3. \A i \in DOMAIN q : i + 1 \in DOMAIN r /\ r[i + 1] = q[i]
  BY <1>1
<1>4. 1 \in DOMAIN r /\ r[1] = x
  BY <1>1
<1>5. Elems(r) = Elems(q) \cup {x}
  <2>1. \A i \in DOMAIN r : r[i] \in Elems(q) \cup {x}
    BY <1>2, <1>4 DEF Elems
  <2>2. \A i \in DOMAIN q : q[i] \in Elems(r)
    BY <1>3 DEF Elems
  <2>3. x \in Elems(r)
    BY <1>4 DEF Elems
  <2> QED BY <2>1, <2>2, <2>3 DEF Elems
<1>6. ASSUME NEW T, OneIn(q, T), x \notin T PROVE OneIn(r, T)
  <2>1. ASSUME NEW i \in DOMAIN r, NEW j \in DOMAIN r, r[i] \in T, r[j] \in T
        PROVE  i = j
    <3>1. i # 1 /\ j # 1
      BY <1>4, <1>6, <2>1
    <3>2. /\ i - 1 \in DOMAIN q /\ r[i] = q[i - 1]
          /\ j - 1 \in DOMAIN q /\ r[j] = q[j - 1]
      BY <1>2, <3>1
    <3>3. i - 1 = j - 1
      BY <1>6, <2>1, <3>2 DEF OneIn
    <3>4. i \in Nat /\ j \in Nat
      BY <1>1
    <3> QED BY <3>3, <3>4
  <2> QED BY <2>1 DEF OneIn
<1> QED BY <1>5, <1>6

\* The CAM says the first thing it has to say, whole or in two parts.
LEMMA RcvAsks ==
  ASSUME CamTypes, CamOnly, NEW c \in Conns, NEW n \in Sessions, cam.out[c] # <<>>,
         NEW said, said = Head(cam.out[c]),
         NEW part \in Spdus, part.k = "part",
         cam'.out[c] \in {Tail(cam.out[c]), <<part>> \o Tail(cam.out[c])},
         Bearing(c) = {},
         \/ Bearing(c)' = {} /\ said.k = "request"
         \/ \E m : /\ Bearing(c)' = {m} /\ m[1].p = said
                   /\ conn[c].chain = NoSpdu \/ said.k = "part"
  PROVE  (AskedEnd(n, c)' <=> AskedEnd(n, c)) /\ (OnceAsked(n, c) => OnceAsked(n, c)')
<1> HIDE DEF Spdus
<1> PICK q \in Seq(Spdus) : q = cam.out[c]
  BY DEF CamTypes
<1>0. q # <<>> /\ Tail(q) \in Seq(Spdus)
  <2>1. q # <<>>
    OBVIOUS
  <2> QED BY <2>1
<1> PICK r \in Seq(Spdus) : r = Tail(q)
  BY <1>0
<1> PICK T : T = ClosesOf(n)
  OBVIOUS
<1>1. said \in Spdus /\ part \notin T
  BY DEF ClosesOf, IsClose
<1>2. said \in T <=> IsClose(said, n)
  BY <1>1 DEF ClosesOf
<1>3. /\ Elems(q) = Elems(r) \cup {said}
      /\ OneIn(q, T) => OneIn(r, T) /\ (said \in T => Elems(r) \cap T = {})
  BY <1>0, ElemsTail
<1> PICK v : v = <<part>> \o r
  OBVIOUS
<1>4. Elems(v) = Elems(r) \cup {part} /\ (OneIn(r, T) => OneIn(v, T))
  <2>1. part \in Spdus /\ r \in Seq(Spdus) /\ v = <<part>> \o r /\ part \notin T
    BY <1>1
  <2> QED BY ONLY <2>1, ElemsCons
<1> PICK u : u = cam'.out[c]
  OBVIOUS
<1>5. Elems(u) \cap T = Elems(r) \cap T /\ (OneIn(r, T) => OneIn(u, T))
  BY <1>1, <1>4
<1>6. ToSay(n, c) <=> Elems(q) \cap T # {}
  BY DEF ToSay
<1>7. ToSay(n, c)' <=> Elems(u) \cap T # {}
  BY DEF ToSay, ClosesOf
<1>8. OneIn(cam.out[c], ClosesOf(n)) => OneIn(cam.out[c], ClosesOf(n))'
  <2>1. OneIn(q, T) => OneIn(u, T)
    BY <1>3, <1>5
  <2> QED BY <2>1 DEF OneIn, ClosesOf
<1>9. CASE IsClose(said, n)
  <2>1. ToSay(n, c) /\ (OneIn(q, T) => ~ToSay(n, c)')
    BY <1>2, <1>3, <1>5, <1>6, <1>7, <1>9
  <2>2. Ahead(n, c)'
    BY <1>9 DEF IsClose, Ahead, CamOnly
  <2> QED BY <1>8, <2>1, <2>2 DEF AskedEnd, OnceAsked
<1>10. CASE ~IsClose(said, n)
  <2>1. ToSay(n, c)' <=> ToSay(n, c)
    BY <1>2, <1>3, <1>5, <1>6, <1>7, <1>10
  <2>2. \A m \in Bearing(c)' : ~IsClose(m[1].p, n)
    BY <1>10
  <2>3. Ahead(n, c)' <=> Ahead(n, c)
    BY <2>2 DEF Ahead, CamOnly
  <2> QED BY <1>8, <2>1, <2>3 DEF AskedEnd, OnceAsked
<1> QED BY <1>9, <1>10

\* The sessions of the CAM stay.
LEMMA CamSessionsStay ==
  ASSUME LayerInv, AgreeInv, CamOnly, cam'.sess = cam.sess, cam'.open = cam.open,
         \A d \in Conns : Notices(d)' = Notices(d) /\ (InOrder(d) => InOrder(d)'),
         \A n \in Sessions, d \in Conns : /\ AskedEnd(n, d)' <=> AskedEnd(n, d)
                                          /\ OnceAsked(n, d) => OnceAsked(n, d)'
  PROVE  AgreeInv'
<1>1. UserTypes /\ CamTypes
  BY DEF LayerInv, LinkTypes
<1>2. ASSUME NEW n \in Sessions PROVE Knows(n)' /\ \A d \in Conns : EndsOf(n, d)'
  <2>1. Knows(n) /\ \A d \in Conns : EndsOf(n, d)
    BY DEF AgreeInv
  <2>2. \A d \in Conns : Unmoved(n, d)
    BY PendsSame DEF Unmoved
  <2>3. Kept(n)
    BY <2>2, CamJobs, UnmovedKept DEF CamOnly
  <2>4. cam.sess[n] = NoSession \/ cam.sess[n].conn \in cam'.open
    BY <2>1 DEF Knows
  <2> QED BY <1>1, <2>1, <2>3, <2>4, KeptAgrees
<1>3. ASSUME NEW d \in Conns PROVE InOrder(d)' /\ OpensOf(d)'
  BY CamJobs, OpensKept DEF AgreeInv, CamOnly
<1> QED BY <1>2, <1>3, CamJobs DEF AgreeInv

\* The CAM ends a connection, and its sessions on it.
LEMMA CamDeleteAgree ==
  ASSUME LayerInv, AgreeInv, CamOnly, NEW c \in Conns,
         cam'.sess = Without(c), cam'.open = cam.open \ {c}, cam'.out[c] = <<>>,
         \A d \in Conns : d # c => cam'.out[d] = cam.out[d], \A d \in Conns : Steady(d),
         \A n \in Sessions : ~Ahead(n, c)
  PROVE  AgreeInv'
<1>1. UserTypes /\ CamTypes
  BY DEF LayerInv, LinkTypes
<1>2. \A d \in Conns : Notices(d)' = Notices(d) /\ (InOrder(d) => InOrder(d)')
  BY DEF Steady
<1>3. \A n \in Sessions : cam'.sess[n] = IF cam.sess[n].conn = c THEN NoSession ELSE cam.sess[n]
  BY DEF Without
<1>4. ASSUME NEW n \in Sessions, NEW d \in Conns, ~AskedEnd(n, c)
      PROVE  (AskedEnd(n, d)' <=> AskedEnd(n, d)) /\ (OnceAsked(n, d) => OnceAsked(n, d)')
  <2>1. CASE d # c
    BY <2>1, SteadyAsks DEF Steady
  <2>2. CASE d = c
    <3>1. ~ToSay(n, c)' /\ OneIn(cam.out[c], ClosesOf(n))'
      BY NoElems DEF ToSay, OneIn
    <3>2. ~Ahead(n, c)'
      BY <1>4 DEF Steady, AskedEnd
    <3> QED BY <1>4, <2>2, <3>1, <3>2 DEF AskedEnd, OnceAsked
  <2> QED BY <2>1, <2>2
<1>5. ASSUME NEW n \in Sessions, cam.sess[n].conn # c
      PROVE  Knows(n)' /\ \A d \in Conns : EndsOf(n, d)'
  <2>1. Knows(n) /\ \A d \in Conns : EndsOf(n, d)
    BY DEF AgreeInv
  <2>2. ~AskedEnd(n, c)
    BY <1>5, <2>1 DEF EndsOf, OpenBoth
  <2>3. \A d \in Conns : Unmoved(n, d)
    BY <1>2, <1>4, <2>2, PendsSame DEF Unmoved
  <2>4. Kept(n)
    BY <1>3, <1>5, <2>3, CamJobs, UnmovedKept DEF CamOnly
  <2>5. cam.sess[n] = NoSession \/ cam.sess[n].conn \in cam'.open
    BY <1>5, <2>1 DEF Knows
  <2>6. IsOpen(n) /\ session[n].conn \notin cam.open => session[n].conn \notin cam'.open
    OBVIOUS
  <2> QED BY <1>1, <2>1, <2>4, <2>5, <2>6, KeptAgrees
<1>6. ASSUME NEW n \in Sessions, cam.sess[n].conn = c
      PROVE  Knows(n)' /\ \A d \in Conns : EndsOf(n, d)'
  <2>1. Knows(n) /\ \A d \in Conns : EndsOf(n, d)
    BY DEF AgreeInv
  <2>2. session'[n] = session[n] /\ (IsOpen(n)' <=> IsOpen(n)) /\ cam'.sess[n] = NoSession
    BY <1>3, <1>6, CamJobs DEF CamOnly
  <2>3. ASSUME IsOpen(n), OpenPends(n, session[n].conn) PROVE OpenPends(n, session[n].conn)'
    <3> PICK d \in Conns : d = session[n].conn
      BY <1>1, <2>3 DEF IsOpen, UserTypes
    <3>1. OpenPends(n, d)'
      BY <1>2, <2>3, PendsSame
    <3> QED BY <2>2, <3>1
  <2>4. IsOpen(n) => OpenPends(n, session[n].conn) \/ session[n].conn \notin cam'.open
    BY <1>6, <2>1 DEF Knows, OpenBoth
  <2>5. Knows(n)'
    BY <2>2, <2>3, <2>4 DEF Knows
  <2>6. ASSUME NEW d \in Conns PROVE ~AskedEnd(n, d)' /\ OnceAsked(n, d)'
    <3>1. CASE d = c
      <4>1. ~ToSay(n, c)' /\ OneIn(cam.out[c], ClosesOf(n))'
        BY NoElems DEF ToSay, OneIn
      <4>2. ~Ahead(n, c)'
        BY DEF Steady
      <4> QED BY <3>1, <4>1, <4>2 DEF AskedEnd, OnceAsked
    <3>2. CASE d # c
      <4>1. ~AskedEnd(n, d) /\ OnceAsked(n, d)
        BY <1>6, <2>1, <3>2 DEF EndsOf, OpenBoth
      <4> QED BY <3>2, <4>1, SteadyAsks DEF Steady
    <3> QED BY <3>1, <3>2
  <2> QED BY <2>5, <2>6 DEF EndsOf
<1>7. ASSUME NEW d \in Conns PROVE InOrder(d)' /\ OpensOf(d)'
  BY <1>2, CamJobs, OpensKept DEF AgreeInv, CamOnly
<1>8. cam'.sess \in [Sessions -> SessRecs]
  <2>1. cam.sess \in [Sessions -> SessRecs] /\ NoSession \in SessRecs
    BY DEF AgreeInv, SessRecs, NoSession
  <2> QED BY <2>1 DEF Without
<1> QED BY <1>5, <1>6, <1>7, <1>8, CamJobs DEF AgreeInv

\* What the CAM has to say is on its way; its sessions stay.
LEMMA CamSaidAgree ==
  ASSUME LayerInv, LinkInv, AgreeInv, CamOnly, toCam # <<>>, toCam' = Tail(toCam),
         NEW t, t = Head(toCam), t.tag = "rcv", NEW c \in Conns, c = t.c,
         NEW m \in Messages, m[1].c = c, fromCam' = Append(fromCam, m),
         cam.out[c] # <<>>, NEW said, said = Head(cam.out[c]),
         NEW part \in Spdus, part.k = "part",
         cam'.out[c] \in {Tail(cam.out[c]), <<part>> \o Tail(cam.out[c])},
         \A d \in Conns : d # c => cam'.out[d] = cam.out[d],
         cam'.sess = cam.sess, cam'.open = cam.open,
         \/ m[1].tag = "request" /\ said.k = "request"
         \/ /\ m[1].tag \in {"last", "more"} /\ m[1].p = said
            /\ conn[c].chain = NoSpdu \/ said.k = "part"
  PROVE  AgreeInv'
<1>0. LinkTypes /\ CamTypes /\ Asks(t)
  BY DEF LayerInv, LinkTypes, Asks
<1>1. /\ \A d \in Conns : d # c => Still(d) /\ Steady(d)
      /\ Asked(c) = {t} /\ Sent(c)' = {} /\ Bearing(c) = {}
      /\ Bearing(c)' = {x \in {m} : x[1].tag \in {"last", "more"}}
  <2>1. /\ LinkTypes /\ LinkInv /\ CamOnly /\ toCam # <<>> /\ toCam' = Tail(toCam)
        /\ t = Head(toCam) /\ Asks(t) /\ c \in Conns /\ c = t.c
        /\ m \in Messages /\ m[1].c = c /\ fromCam' = Append(fromCam, m)
    BY <1>0
  <2> QED BY ONLY <2>1, CamMessage
<1>2. Sent(c) = {}
  BY <1>1 DEF Sent, IsNotice
<1>3. Notices(c)' = Notices(c) /\ (InOrder(c) => InOrder(c)')
  <2>1. Queued(c)' = Queued(c) /\ conn' = conn
    BY DEF Queued, CamOnly
  <2> QED BY <1>1, <1>2, <2>1 DEF Notices, InOrder
<1>4. \/ Bearing(c)' = {} /\ said.k = "request"
      \/ \E x : /\ Bearing(c)' = {x} /\ x[1].p = said
                /\ conn[c].chain = NoSpdu \/ said.k = "part"
  BY <1>1
<1>5. ASSUME NEW n \in Sessions, NEW d \in Conns
      PROVE  (AskedEnd(n, d)' <=> AskedEnd(n, d)) /\ (OnceAsked(n, d) => OnceAsked(n, d)')
  <2>1. CASE d = c
    <3>1. /\ CamTypes /\ CamOnly /\ c \in Conns /\ n \in Sessions /\ cam.out[c] # <<>>
          /\ said = Head(cam.out[c]) /\ part \in Spdus /\ part.k = "part" /\ Bearing(c) = {}
          /\ cam'.out[c] \in {Tail(cam.out[c]), <<part>> \o Tail(cam.out[c])}
      BY <1>0, <1>1
    <3>2. (AskedEnd(n, c)' <=> AskedEnd(n, c)) /\ (OnceAsked(n, c) => OnceAsked(n, c)')
      BY ONLY <1>4, <3>1, RcvAsks
    <3> QED BY <2>1, <3>2
  <2>2. CASE d # c
    BY <1>1, <2>2, SteadyAsks DEF Steady
  <2> QED BY <2>1, <2>2
<1>6. \A d \in Conns : Notices(d)' = Notices(d) /\ (InOrder(d) => InOrder(d)')
  BY <1>1, <1>3 DEF Steady
<1> QED BY <1>5, <1>6, CamSessionsStay

LEMMA CamRcvAgree ==
  ASSUME LayerInv, LinkInv, AgreeInv, CamHears, NEW t, t = Head(toCam), CamRcv(t)
  PROVE  AgreeInv'
<1> HIDE DEF Tpdus, Spdus, Messages
<1>0. LinkTypes /\ CamTypes
  BY DEF LayerInv, LinkTypes
<1>1. toCam # <<>> /\ toCam' = Tail(toCam) /\ CamOnly /\ t.tag = "rcv" /\ Asks(t)
  BY DEF CamHears, notCam, sessionVars, CamRcv, Asks, CamOnly
<1> PICK c \in Conns : c = t.c
  BY <1>0, <1>1, CamTurn
<1>2. cam.out[c] # <<>> /\ c \in cam.open
  BY DEF CamRcv
<1>3. cam.out \in [Conns -> Seq(Spdus)] /\ cam.out[c] \in Seq(Spdus) /\ cam.open \in SUBSET Conns
  BY <1>0 DEF CamTypes
<1>4. /\ Head(cam.out[c]) \in Spdus /\ Head(cam.out[c]) = cam.out[c][1]
      /\ Tail(cam.out[c]) \in Seq(Spdus)
  BY <1>2, <1>3
<1> PICK said \in Spdus : said = Head(cam.out[c])
  BY <1>4
<1>5. Spdu("part", said.n, said.arg) \in Spdus /\ Spdu("part", said.n, said.arg).k = "part"
  <2>1. Spdu("part", said.n, said.arg) \in Spdus
    BY SpduIn DEF SpduKinds
  <2> QED BY <2>1 DEF Spdu
<1> PICK first \in Spdus : first = Spdu("part", said.n, said.arg)
  BY <1>5
<1> DEFINE rest == [cam.out EXCEPT ![c] = Tail(@)]
           part == [cam.out EXCEPT ![c] = <<first>> \o Tail(@)]
           none == [rest EXCEPT ![c] = <<>>]
           sess == Without(c)
<1>6. /\ \A d \in Conns : d # c => rest[d] = cam.out[d] /\ part[d] = cam.out[d] /\ none[d] = cam.out[d]
      /\ part[c] = <<first>> \o Tail(cam.out[c]) /\ rest[c] = Tail(cam.out[c]) /\ none[c] = <<>>
  BY <1>3
<1>7. conn[c].chain # NoSpdu => said.k = "part"
  BY <1>0, <1>1, <1>4, CamTurn DEF WaitsPart
<1>8. /\ \A out : Status(c, out) \in Tpdus /\ Status(c, out).c = c /\ Status(c, out).tag \in Statuses
      /\ \A tag \in {"request", "delete"} : /\ Plain(tag, c) \in Tpdus /\ Plain(tag, c).c = c
                                            /\ Plain(tag, c).tag = tag
      /\ \A tag \in {"last", "more"} : /\ Tpdu(tag, c, said) \in Tpdus /\ Tpdu(tag, c, said).c = c
                                       /\ Tpdu(tag, c, said).tag = tag
                                       /\ Tpdu(tag, c, said).p = said
  <2>1. \A out : Status(c, out) \in Tpdus /\ Status(c, out).c = c /\ Status(c, out).tag \in Statuses
    BY StatusIn
  <2>2. \A tag \in {"request", "delete"} : /\ Plain(tag, c) \in Tpdus /\ Plain(tag, c).c = c
                                           /\ Plain(tag, c).tag = tag
    BY TpduIn DEF TpduTags, Plain, Tpdu
  <2>3. \A tag \in {"last", "more"} : /\ Tpdu(tag, c, said) \in Tpdus /\ Tpdu(tag, c, said).c = c
                                      /\ Tpdu(tag, c, said).tag = tag
                                      /\ Tpdu(tag, c, said).p = said
    BY TpduIn DEF TpduTags, Tpdu
  <2> QED BY <2>1, <2>2, <2>3
<1> DEFINE common == /\ LayerInv /\ LinkInv /\ AgreeInv /\ CamOnly
                     /\ toCam # <<>> /\ toCam' = Tail(toCam) /\ t = Head(toCam) /\ t.tag = "rcv"
                     /\ c \in Conns /\ c = t.c /\ cam.out[c] # <<>> /\ said = Head(cam.out[c])
                     /\ first \in Spdus /\ first.k = "part"
<1>9. common
  BY <1>1, <1>2, <1>5
<1>10. CASE /\ said.k = "request"
           /\ cam' = [cam EXCEPT !.out = rest]
           /\ Answer(<<Plain("request", c), Status(c, rest)>>)
  <2> PICK x \in Tpdus : x = Plain("request", c)
    BY <1>8
  <2> PICK y \in Tpdus : y = Status(c, rest)
    BY <1>8
  <2> PICK m : m = <<x, y>>
    OBVIOUS
  <2>1. Answer(<<x, y>>)
    BY <1>10
  <2>2. x.c = c /\ x.tag = "request"
    BY <1>8
  <2>3. m \in Messages /\ m[1] = x /\ m[1].c = c /\ fromCam' = Append(fromCam, m)
    <3>1. x \in Tpdus /\ y \in Tpdus /\ m = <<x, y>> /\ x.c = c
      BY <2>2
    <3> QED BY ONLY <2>1, <3>1, Pack
  <2> HIDE DEF rest
  <2>4. cam'.out = rest /\ cam'.open = cam.open /\ cam'.sess = cam.sess
    BY <1>0, <1>10 DEF CamTypes
  <2>5. /\ cam'.out[c] \in {Tail(cam.out[c]), <<first>> \o Tail(cam.out[c])}
        /\ \A d \in Conns : d # c => cam'.out[d] = cam.out[d]
    BY <1>6, <2>4
  <2>6. m[1].tag = "request" /\ said.k = "request"
    BY <1>10, <2>2, <2>3
  <2> QED BY ONLY <1>9, <2>3, <2>4, <2>5, <2>6, CamSaidAgree
<1>11. CASE /\ said.k = "delete"
            /\ cam' = [cam EXCEPT !.out = none, !.open = @ \ {c}, !.sess = sess]
            /\ Answer(<<Plain("delete", c)>>)
  <2> PICK x \in Tpdus : x = Plain("delete", c)
    BY <1>8
  <2> PICK m : m = <<x>>
    OBVIOUS
  <2>1. Answer(<<x>>)
    BY <1>11
  <2>2. x.c = c /\ x.tag = "delete"
    BY <1>8
  <2>3. m \in Messages /\ m[1] = x /\ m[1].c = c /\ fromCam' = Append(fromCam, m)
    <3>1. x \in Tpdus /\ m = <<x>> /\ x.c = c
      BY <2>2
    <3> QED BY ONLY <2>1, <3>1, Pack
  <2> HIDE DEF none, sess
  <2>4. cam'.out = none /\ cam'.open = cam.open \ {c} /\ cam'.sess = sess
    BY <1>0, <1>11 DEF CamTypes
  <2>5. cam'.out[c] = <<>> /\ \A d \in Conns : d # c => cam'.out[d] = cam.out[d]
    BY <1>6, <2>4
  <2>6. cam'.sess = Without(c)
    BY <2>4 DEF sess
  <2>7. /\ \A d \in Conns : d # c => Still(d) /\ Steady(d)
        /\ Asked(c) = {t} /\ Sent(c)' = {} /\ Bearing(c) = {}
        /\ Bearing(c)' = {z \in {m} : z[1].tag \in {"last", "more"}}
        /\ stk.pc = "spdu" => stk.at # c
    <3>1. LinkTypes /\ Asks(t)
      BY <1>0, <1>1
    <3> QED BY ONLY <1>9, <2>3, <3>1, CamMessage
  <2>8. Still(c)
    <3>1. Sent(c) = {}
      BY <1>1, <2>7 DEF Sent, IsNotice
    <3>2. Bearing(c)' = {}
      BY <2>2, <2>3, <2>7
    <3> QED BY <1>1, <2>7, <3>1, <3>2 DEF Still, CamOnly
  <2>9. \A d \in Conns : Steady(d)
    BY <1>1, <2>7, <2>8, StillSame DEF CamOnly
  <2>10. \A n \in Sessions : ~Ahead(n, c)
    <3>1. conn[c].chain = NoSpdu
      BY <1>7, <1>11
    <3> QED BY <2>7, <3>1 DEF Ahead, IsClose, NoSpdu, Spdu
  <2> QED BY <1>1, <2>4, <2>5, <2>6, <2>9, <2>10, CamDeleteAgree
<1>12. CASE /\ said.k \notin {"request", "delete"}
            /\ cam' = [cam EXCEPT !.out = rest]
            /\ Answer(<<Tpdu("last", c, said), Status(c, rest)>>)
  <2> PICK x \in Tpdus : x = Tpdu("last", c, said)
    BY <1>8
  <2> PICK y \in Tpdus : y = Status(c, rest)
    BY <1>8
  <2> PICK m : m = <<x, y>>
    OBVIOUS
  <2>1. Answer(<<x, y>>)
    BY <1>12
  <2>2. x.c = c /\ x.tag = "last" /\ x.p = said
    BY <1>8
  <2>3. /\ m \in Messages /\ m[1] = x /\ m[1].c = c /\ fromCam' = Append(fromCam, m)
    <3>1. x \in Tpdus /\ y \in Tpdus /\ m = <<x, y>> /\ x.c = c
      BY <2>2
    <3> QED BY ONLY <2>1, <3>1, Pack
  <2> HIDE DEF rest
  <2>4. cam'.out = rest /\ cam'.open = cam.open /\ cam'.sess = cam.sess
    BY <1>0, <1>12 DEF CamTypes
  <2>5. /\ cam'.out[c] \in {Tail(cam.out[c]), <<first>> \o Tail(cam.out[c])}
        /\ \A d \in Conns : d # c => cam'.out[d] = cam.out[d]
    BY <1>6, <2>4
  <2>6. /\ m[1].tag \in {"last", "more"} /\ m[1].p = said
        /\ conn[c].chain = NoSpdu \/ said.k = "part"
    BY <1>7, <2>2, <2>3
  <2> QED BY ONLY <1>9, <2>3, <2>4, <2>5, <2>6, CamSaidAgree
<1>13. CASE /\ said.k \notin {"request", "delete", "part"}
            /\ cam' = [cam EXCEPT !.out = part, !.acts = @ + 1]
            /\ Answer(<<Tpdu("more", c, said), Status(c, part)>>)
  <2> PICK x \in Tpdus : x = Tpdu("more", c, said)
    BY <1>8
  <2> PICK y \in Tpdus : y = Status(c, part)
    BY <1>8
  <2> PICK m : m = <<x, y>>
    OBVIOUS
  <2>1. Answer(<<x, y>>)
    BY <1>13
  <2>2. x.c = c /\ x.tag = "more" /\ x.p = said
    BY <1>8
  <2>3. m \in Messages /\ m[1] = x /\ m[1].c = c /\ fromCam' = Append(fromCam, m)
    <3>1. x \in Tpdus /\ y \in Tpdus /\ m = <<x, y>> /\ x.c = c
      BY <2>2
    <3> QED BY ONLY <2>1, <3>1, Pack
  <2> HIDE DEF part
  <2>4. cam'.out = part /\ cam'.open = cam.open /\ cam'.sess = cam.sess
    BY <1>0, <1>13 DEF CamTypes
  <2>5. /\ cam'.out[c] \in {Tail(cam.out[c]), <<first>> \o Tail(cam.out[c])}
        /\ \A d \in Conns : d # c => cam'.out[d] = cam.out[d]
    BY <1>6, <2>4
  <2>6. /\ m[1].tag \in {"last", "more"} /\ m[1].p = said
        /\ conn[c].chain = NoSpdu \/ said.k = "part"
    BY <1>7, <2>2, <2>3
  <2> QED BY ONLY <1>9, <2>3, <2>4, <2>5, <2>6, CamSaidAgree
<1>14. \/ /\ said.k = "request"
          /\ cam' = [cam EXCEPT !.out = rest]
          /\ Answer(<<Plain("request", c), Status(c, rest)>>)
       \/ /\ said.k = "delete"
          /\ cam' = [cam EXCEPT !.out = none, !.open = @ \ {c}, !.sess = sess]
          /\ Answer(<<Plain("delete", c)>>)
       \/ /\ said.k \notin {"request", "delete"}
          /\ cam' = [cam EXCEPT !.out = rest]
          /\ Answer(<<Tpdu("last", c, said), Status(c, rest)>>)
       \/ /\ said.k \notin {"request", "delete", "part"}
          /\ cam' = [cam EXCEPT !.out = part, !.acts = @ + 1]
          /\ Answer(<<Tpdu("more", c, said), Status(c, part)>>)
  BY Zenon DEF CamRcv
<1> QED BY <1>10, <1>11, <1>12, <1>13, <1>14

\* The CAM starts something: the end of a session is asked for once.
LEMMA CamActsAgree ==
  ASSUME LayerInv, LinkInv, AgreeInv, CamActs
  PROVE  AgreeInv'
<1>0. LinkTypes /\ CamTypes /\ UserTypes
  BY DEF LayerInv, LinkTypes
<1>1. UNCHANGED <<conn, stk, toCam, fromCam>> /\ CamOnly
  BY Zenon DEF CamActs, notCam, sessionVars, CamOnly
<1>2. PICK c \in cam.open : \E s \in Acts(c) : CamSays(c, s)
  BY Zenon DEF CamActs, CamSays
<1>3. PICK s \in Acts(c) : CamSays(c, s)
  BY <1>2
<1>4. c \in Conns
  BY <1>0 DEF CamTypes
<1>5. /\ s \in Spdus
      /\ s.k = "close_req" => s.n \in Sessions /\ cam.sess[s.n].conn = c
                                               /\ cam.sess[s.n].res # "ending"
  BY <1>4, ActsIn
<1>6. /\ cam'.open = cam.open /\ cam'.out = [cam.out EXCEPT ![c] = Append(@, s)]
      /\ cam'.sess = IF s.k = "close_req" THEN [cam.sess EXCEPT ![s.n].res = "ending"]
                     ELSE cam.sess
  BY <1>0, <1>3, <1>4, ActsCam
<1>7. /\ cam'.out[c] = Append(cam.out[c], s)
      /\ \A d \in Conns : d # c => cam'.out[d] = cam.out[d]
  <2> HIDE DEF Spdus
  <2> QED BY <1>0, <1>4, <1>6 DEF CamTypes
<1>8. \A d \in Conns : Steady(d)
  <2>1. \A d \in Conns : Asked(d)' = Asked(d) /\ Told(d)' = Told(d)
    BY <1>1, SameWire
  <2> QED BY <1>1, <2>1, Elsewhere
<1>9. \A d \in Conns : Notices(d)' = Notices(d) /\ (InOrder(d) => InOrder(d)')
  BY <1>8 DEF Steady
<1>10. ASSUME NEW n \in Sessions, NEW d \in Conns, ~IsClose(s, n) \/ d # c
       PROVE  (AskedEnd(n, d)' <=> AskedEnd(n, d)) /\ (OnceAsked(n, d) => OnceAsked(n, d)')
  <2>1. Ahead(n, d)' <=> Ahead(n, d)
    BY <1>8 DEF Steady
  <2>2. CASE d = c
    BY <1>0, <1>5, <1>7, <1>10, <2>1, <2>2, SaysMore
  <2>3. CASE d # c
    BY <1>7, <2>1, <2>3, SteadyAsks
  <2> QED BY <2>2, <2>3
<1>11. CASE s.k # "close_req"
  <2>1. \A n \in Sessions : ~IsClose(s, n)
    BY <1>11 DEF IsClose
  <2>2. cam'.sess = cam.sess
    BY <1>6, <1>11
  <2> QED BY <1>1, <1>6, <1>9, <1>10, <2>1, <2>2, CamSessionsStay
<1>12. CASE s.k = "close_req"
  <2> PICK n \in Sessions : n = s.n
    BY <1>5, <1>12
  <2>1. cam.sess[n].conn = c /\ cam.sess[n].res # "ending" /\ IsClose(s, n)
    BY <1>5, <1>12 DEF IsClose
  <2>2. cam.sess \in [Sessions -> SessRecs]
    BY DEF AgreeInv
  <2>3. /\ cam'.sess[n].conn = c /\ cam'.sess[n].res = "ending"
        /\ \A m \in Sessions : m # n => cam'.sess[m] = cam.sess[m]
        /\ cam'.sess \in [Sessions -> SessRecs]
    <3>1. cam'.sess = [cam.sess EXCEPT ![n].res = "ending"]
      BY <1>6, <1>12
    <3>2. [cam.sess[n] EXCEPT !.res = "ending"] \in SessRecs
      BY <2>2 DEF SessRecs
    <3>3. /\ [cam.sess[n] EXCEPT !.res = "ending"].conn = c
          /\ [cam.sess[n] EXCEPT !.res = "ending"].res = "ending"
      BY <2>1, <2>2 DEF SessRecs
    <3> HIDE DEF SessRecs
    <3> QED BY <2>2, <3>1, <3>2, <3>3
  <2>4. OpenBoth(n) /\ session[n].conn = c /\ session'[n] = session[n]
    <3>1. cam.sess[n] # NoSession
      BY <1>4, <2>1, ConnsNat DEF NoSession
    <3> QED BY <1>1, <2>1, <3>1 DEF AgreeInv, Knows, Ending, OpenBoth, CamOnly
  <2>5. \A d \in Conns : ~AskedEnd(n, d) /\ OnceAsked(n, d)
    BY <2>1 DEF AgreeInv, EndsOf
  <2>6. ToSay(n, c)' /\ OneIn(cam.out[c], ClosesOf(n))'
    <3> HIDE DEF Spdus
    <3>1. cam.out[c] \in Seq(Spdus) /\ s \in ClosesOf(n)
      BY <1>0, <1>4, <1>5, <2>1 DEF CamTypes, ClosesOf
    <3>2. Elems(cam.out[c]) \cap ClosesOf(n) = {} /\ OneIn(cam.out[c], ClosesOf(n))
      BY <1>4, <2>5 DEF AskedEnd, OnceAsked, ToSay
    <3>3. /\ s \in Elems(cam'.out[c])
          /\ OneIn(cam'.out[c], ClosesOf(n))
      BY <1>5, <1>7, <3>1, <3>2, ElemsAppend
    <3>4. ToSay(n, c)'
      BY <3>1, <3>3 DEF ToSay, ClosesOf
    <3>5. OneIn(cam.out[c], ClosesOf(n))'
      BY <3>3 DEF OneIn, ClosesOf
    <3> QED BY <3>4, <3>5
  <2>7. ~Ahead(n, c)'
    BY <1>4, <1>8, <2>5 DEF Steady, AskedEnd
  <2>8. OpenBoth(n)'
    <3>1. ~OpenPends(n, c) /\ ~ClosePends(n, c) /\ session[n].st = "active"
      BY <2>4 DEF OpenBoth
    <3>2. ~OpenPends(n, c)' /\ ~ClosePends(n, c)'
      BY <1>4, <1>9, <3>1, PendsSame
    <3>3. AskedEnd(n, c)'
      BY <2>6 DEF AskedEnd
    <3> QED BY <2>3, <2>4, <3>1, <3>2, <3>3 DEF OpenBoth
  <2>9. Knows(n)'
    BY <1>6, <2>3, <2>8 DEF Knows
  <2>10. ASSUME NEW d \in Conns PROVE EndsOf(n, d)'
    <3>1. CASE d = c
      BY <2>3, <2>4, <2>6, <2>7, <2>8, <3>1 DEF EndsOf, OnceAsked
    <3>2. CASE d # c
      BY <1>10, <2>5, <3>2 DEF EndsOf
    <3> QED BY <3>1, <3>2
  <2>11. ASSUME NEW m \in Sessions, m # n PROVE Knows(m)' /\ \A d \in Conns : EndsOf(m, d)'
    <3>1. Knows(m) /\ \A d \in Conns : EndsOf(m, d)
      BY DEF AgreeInv
    <3>2. ~IsClose(s, m)
      BY <2>11 DEF IsClose
    <3>3. \A d \in Conns : Unmoved(m, d)
      BY <1>9, <1>10, <3>2, PendsSame DEF Unmoved
    <3>4. Kept(m)
      BY <1>1, <2>3, <2>11, <3>3, CamJobs, UnmovedKept DEF CamOnly
    <3>5. cam.sess[m] = NoSession \/ cam.sess[m].conn \in cam'.open
      BY <1>6, <3>1 DEF Knows
    <3> QED BY <1>0, <1>6, <3>1, <3>4, <3>5, KeptAgrees
  <2>12. ASSUME NEW d \in Conns PROVE InOrder(d)' /\ OpensOf(d)'
    BY <1>1, <1>9, CamJobs, OpensKept DEF AgreeInv, CamOnly
  <2> QED BY <1>1, <2>3, <2>9, <2>10, <2>11, <2>12, CamJobs DEF AgreeInv
<1> QED BY <1>11, <1>12
-----------------------------------------------------------------------------
(* The sessions, as a whole *)

LEMMA AgreeInit == Init => AgreeInv
<1> SUFFICES ASSUME Init PROVE AgreeInv
    OBVIOUS
<1>1. /\ toCam = <<>> /\ fromCam = <<>> /\ stk.pc = "none" /\ stk.rest = <<>> /\ job.pc = "none"
      /\ \A c \in Conns : conn[c] = IdleConn
      /\ \A n \in Sessions : session[n].st = "idle"
  BY DEF Init, TransportInit, SessionInit, NoStack, NoJob, FreeSession
<1>2. /\ cam.sess = [n \in Sessions |-> NoSession]
      /\ \A c \in Conns : cam.out[c] = <<>>
  BY DEF Init, Reset
<1>3. \A c \in Conns : conn[c].queue = <<>> /\ conn[c].chain = NoSpdu
  BY <1>1 DEF IdleConn
<1>4. \A c \in Conns : Sent(c) = {} /\ Notices(c) = {} /\ Bearing(c) = {}
  BY <1>1, <1>3, NoElems DEF Sent, Notices, Asked, Queued, Bearing, Msgs, Told
<1>5. ASSUME NEW c \in Conns PROVE InOrder(c) /\ OpensOf(c)
  BY <1>3, <1>4 DEF InOrder, OpensOf
<1>6. ASSUME NEW n \in Sessions PROVE Knows(n)
  BY <1>1, <1>2 DEF Knows, IsOpen
<1>7. ASSUME NEW n \in Sessions, NEW c \in Conns PROVE EndsOf(n, c)
  <2>1. ~ToSay(n, c) /\ OneIn(cam.out[c], ClosesOf(n))
    BY <1>2, NoElems DEF ToSay, OneIn
  <2>2. ~Ahead(n, c)
    BY <1>1, <1>3, <1>4 DEF Ahead, IsClose, NoSpdu, Spdu
  <2> QED BY <2>1, <2>2 DEF EndsOf, AskedEnd, OnceAsked
<1>8. JobsInv
  BY <1>1 DEF JobsInv
<1>9. cam.sess \in [Sessions -> SessRecs]
  BY <1>2 DEF SessRecs, NoSession
<1> QED BY <1>5, <1>6, <1>7, <1>8, <1>9 DEF AgreeInv

LEMMA AgreeKept ==
  ASSUME CiInv, LayerInv, LinkInv, AgreeInv, Clean, Clean', [Next]_vars
  PROVE  AgreeInv'
<1>1. CASE AppCi \/ AppClose \/ AppStep \/ WorkerStep \/ StackTop
  BY <1>1, LifeAgree
<1>2. CASE Poll /\ UNCHANGED <<sessionVars, lifeVars, cam>>
  <2>1. job.pc = "none" /\ UNCHANGED <<session, cam, job>>
    BY <1>2, PollStk DEF CiInv, JobInv, sessionVars
  <2> QED BY <1>2, <2>1, PollAgree DEF Clean
<1>3. CASE SpduStep /\ UNCHANGED <<lifeVars, cam>>
  BY <1>3, CallbackAgree
<1>4. CASE (TsLock \/ TsStep) /\ UNCHANGED <<lifeVars, cam>>
  BY <1>4, TsAgree
<1>5. CASE CamHears
  <2> PICK t : t = Head(toCam)
    OBVIOUS
  <2>1. CamCreate(t) \/ CamLast(t) \/ CamRcv(t) \/ CamSilent(t) \/ CamEmpty(t)
    BY <1>5 DEF CamHears
  <2>2. CASE CamCreate(t)
    BY <1>5, <2>2, CamCreateAgree DEF Clean
  <2>3. CASE CamLast(t)
    BY <1>5, <2>3, CamLastAgree
  <2>4. CASE CamRcv(t)
    BY <1>5, <2>4, CamRcvAgree
  <2>5. CASE CamSilent(t) \/ CamEmpty(t)
    BY <1>5, <2>5, CamHearsNothing
  <2> QED BY <2>1, <2>2, <2>3, <2>4, <2>5
<1>6. fails \in Nat
  BY DEF LayerInv, LinkTypes, WireTypes
<1>7. ~CamMisses
  BY <1>6 DEF CamMisses, Clean
<1>8. CASE CamActs
  BY <1>8, CamActsAgree
<1>9. CASE UNCHANGED vars
  <2>1. UNCHANGED <<conn, stk, toCam, fromCam, session, job, cam>>
    BY <1>9 DEF vars, transportVars, sessionVars
  <2>2. CamOnly /\ \A d \in Conns : Asked(d)' = Asked(d) /\ Told(d)' = Told(d)
    BY <2>1, SameWire DEF CamOnly
  <2>3. \A d \in Conns : Steady(d)
    BY <2>2, Elsewhere
  <2> QED BY <2>1, <2>2, <2>3, CamJobs, SteadyAgree DEF CamOnly
<1> QED BY <1>1, <1>2, <1>3, <1>4, <1>5, <1>7, <1>8, <1>9 DEF Next, StackStep

LEMMA PeersInit == Init => PeersInv
<1>1. Init => timeouts = 0
  BY DEF Init, TransportInit
<1> QED BY <1>1, LinkInit, AgreeInit DEF PeersInv

LEMMA PeersKept ==
  ASSUME CiInv, LayerInv, PeersInv, [Next]_vars
  PROVE  PeersInv'
<1>1. timeouts' \in Nat /\ (Clean' => Clean)
  BY CleanBefore DEF PeersInv
<1>2. Clean' => LinkInv' /\ AgreeInv'
  <2> SUFFICES ASSUME Clean' PROVE LinkInv' /\ AgreeInv'
      OBVIOUS
  <2>1. Clean /\ LinkInv /\ AgreeInv
    BY <1>1 DEF PeersInv
  <2> QED BY <2>1, LinkKept, AgreeKept
<1> QED BY <1>1, <1>2 DEF PeersInv

\* When all is quiet nothing is on its way that could explain a difference.
LEMMA QuietAgrees ==
  ASSUME CiInv, LayerInv, PeersInv
  PROVE  PeersAgree
<1> SUFFICES ASSUME Quiet, NEW n \in Sessions
             PROVE  cam.sess[n] = IF n \in ActiveSessions
                                  THEN [res |-> session[n].res, conn |-> session[n].conn]
                                  ELSE NoSession
  BY DEF PeersAgree
<1>1. /\ stk.pc = "top" /\ toCam = <<>> /\ fromCam = <<>> /\ fails = 0
      /\ \A c \in Conns : conn[c].queue = <<>> /\ cam.out[c] = <<>>
  BY DEF Quiet
<1>2. LinkInv /\ AgreeInv
  BY DEF Quiet, Clean, PeersInv
<1>3. job.pc = "none"
  BY <1>1 DEF CiInv, JobInv
<1>4. \A c \in Conns : Msgs(c) = {} /\ Notices(c) = {}
  BY <1>1, NoElems DEF Msgs, Told, Notices, Sent, Asked, Queued
<1>5. \A c \in Conns : conn[c].chain = NoSpdu
  <2>1. \A c \in Conns : Chain(c)
    BY <1>2 DEF LinkInv, LinkOf
  <2> QED BY <1>1, <1>4, <2>1 DEF Chain, WaitsPart
<1>6. ASSUME NEW c \in Conns
      PROVE  ~OpenPends(n, c) /\ ~ClosePends(n, c) /\ ~AskedEnd(n, c)
  <2>1. ~OpenPends(n, c) /\ ~ClosePends(n, c)
    BY <1>4 DEF OpenPends, ClosePends
  <2>2. ~ToSay(n, c)
    BY <1>1, NoElems DEF ToSay
  <2>3. ~Ahead(n, c)
    BY <1>1, <1>4, <1>5 DEF Ahead, Bearing, IsClose, NoSpdu, Spdu
  <2> QED BY <2>1, <2>2, <2>3 DEF AskedEnd
<1>7. Knows(n) /\ cam.sess[n] \in SessRecs
  BY <1>2 DEF AgreeInv
<1>8. CASE session[n].st = "active"
  <2>1. session[n].conn \in Conns /\ conn[session[n].conn].st = "active"
    BY <1>1, <1>8 DEF LayerInv, LiveInv, LiveConns
  <2> PICK c \in Conns : c = session[n].conn
    BY <2>1
  <2>2. c \in cam.open
    <3>1. InState(c)
      BY <1>2 DEF LinkInv, LinkOf
    <3> QED BY <1>4, <2>1, <3>1 DEF InState
  <2>3. OpenBoth(n)
    BY <1>6, <1>7, <1>8, <2>2 DEF Knows, IsOpen
  <2>4. cam.sess[n].conn = c /\ cam.sess[n].res = session[n].res
    BY <1>6, <2>3 DEF OpenBoth
  <2>5. cam.sess[n] = [res |-> session[n].res, conn |-> c]
    BY <1>7, <2>4 DEF SessRecs
  <2> QED BY <1>8, <2>5 DEF ActiveSessions
<1>9. CASE session[n].st # "active"
  <2>1. ~OpenBoth(n)
    BY <1>9 DEF OpenBoth
  <2>2. ASSUME cam.sess[n] # NoSession PROVE FALSE
    <3>1. cam.sess[n].conn \in cam.open /\ Ending(n)
      BY <1>7, <2>1, <2>2 DEF Knows
    <3> PICK c \in Conns : c = cam.sess[n].conn
      BY <3>1 DEF LayerInv, LinkTypes, CamTypes
    <3>2. ClosePends(n, c) \/ Answering(n)
      BY <3>1 DEF Ending
    <3> QED BY <1>3, <1>6, <3>2 DEF Answering
  <2> QED BY <1>9, <2>2 DEF ActiveSessions
<1> QED BY <1>8, <1>9

\* When nothing is under way and nothing was lost, the host and the CAM agree on the
\* sessions that are open: every way sessions are opened, closed, ended with their
\* connection or refused keeps the two sides together.
THEOREM PeersHold == Spec => []PeersAgree
<1>1. CiInv /\ LayerInv /\ [Next]_vars => LayerInv'
  BY LayerKept
<1>2. CiInv /\ LayerInv /\ PeersInv /\ [Next]_vars => PeersInv'
  BY PeersKept
<1>3. CiInv /\ LayerInv /\ PeersInv => PeersAgree
  BY QuietAgrees
<1> QED BY <1>1, <1>2, <1>3, LayerInit, PeersInit, CiInvariant, PTL DEF Spec
===============================================================================
