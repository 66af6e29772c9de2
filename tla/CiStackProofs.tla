---------------------------- MODULE CiStackProofs ----------------------------
(***************************************************************************)
(* Proofs about CiStack, for every number of connections, sessions, tries, *)
(* events of the CAM and faults: the stack thread is never in a poll       *)
(* without its CAM state or after joker_ci_close, ca_session_number is an  *)
(* open CA session between two callbacks, and a CA PMT of the TS thread is *)
(* not queued for a session of another resource; messages keep their       *)
(* types, and sessions are on live connections unless a transfer failed.   *)
(***************************************************************************)
EXTENDS CiStack, WellFoundedInduction, TLAPS

AppPcs    == {"open", "running", "join_stack", "join_worker", "free", "closed", "crashed"}
WorkerPcs == {"none", "start", "power", "status", "check", "setup", "create", "tc", "done"}
StackPcs  == {"none", "top", "poll", "tpdu", "conns", "spdu", "closing", "exit"}
JobPcs    == {"none", "open_res", "opened", "open_cb", "open_num", "close_res",
              "close_cb", "sync"}

\* The shape of the records; a field whose values do not matter has its own type.
LifeTypes ==
  /\ app \in AppPcs
  /\ worker \in [pc : WorkerPcs, try : {worker.try}, polls : {worker.polls},
                 seen : {worker.seen}]
  /\ started \in BOOLEAN /\ handle \in BOOLEAN
  /\ stop \in [worker : BOOLEAN, stack : BOOLEAN]
  /\ stk \in [pc : StackPcs, rest : {stk.rest}, at : {stk.at}, spdu : {stk.spdu}]

SessionTypes ==
  /\ job \in [pc : JobPcs, n : {job.n}, ok : BOOLEAN]
  /\ DOMAIN session = Sessions
  /\ session = [n \in Sessions |-> session[n]]
  /\ \A n \in Sessions :
       session[n] \in [st : {"idle", "creation", "active"}, res : {"none", "rm", "ca"},
                       conn : {session[n].conn}, gen : Nat]
  /\ caNumber \in {-1, 0} \cup Sessions
  /\ ts \in [pc : {"idle", "read", "check", "queue"}, n : Int, c : {ts.c}, gen : Nat]

\* The threads of the CI: the worker sets ci and creates the stack thread; the
\* application frees ci after both have ended, or will not poll any more.
Left == {"join_worker", "free", "closed"}

LifeInv ==
  /\ worker.pc # "none" => started
  /\ app = "open" => ~started
  /\ worker.pc \in {"power", "status", "check", "setup", "create", "tc"} => ci = "set"
  /\ handle => worker.pc \in {"tc", "done"}
  /\ handle <=> stk.pc # "none"
  /\ handle /\ app # "closed" => ci = "set"
  /\ app \in {"free", "closed"} /\ started => worker.pc \in {"none", "done"}
  /\ app \in {"join_stack"} \cup Left =>
       (started => stop.stack \/ stk.pc = "exit")
  /\ app \in Left => stk.pc \in {"none", "top", "exit"}

\* The stack thread in a callback: the session it works on.
JobInv ==
  /\ job.pc # "none" =>
       stk.pc = "spdu" \/ (stk.pc = "closing" /\ job.pc = "close_cb")
  /\ (job.pc = "open_res" /\ job.ok) \/ job.pc = "opened" =>
       job.n \in Sessions /\ session[job.n].st = "creation"
  /\ job.pc \in {"open_cb", "open_num"} =>
       job.n \in Sessions /\ session[job.n].st = "active"
  /\ job.pc = "open_num" => session[job.n].res = "ca"
  /\ (job.pc = "close_res" /\ job.ok) \/ job.pc = "close_cb" => job.n \in Sessions

\* ca_session_number may point to a session that is being closed, until the
\* callback of that.
BeingClosed(n) ==
  job.n = n /\ (job.pc = "close_cb" \/ (job.pc = "close_res" /\ job.ok))

NumberInv ==
  caNumber \in Sessions =>
    /\ session[caNumber].res = "ca"
    /\ session[caNumber].st = "active" \/ BeingClosed(caNumber)

\* What the TS thread read is the CA session it was, or an older one.
TsInv ==
  /\ ts.pc \in {"check", "queue"} /\ ts.n \in Sessions =>
       /\ ts.gen <= session[ts.n].gen
       /\ ts.gen = session[ts.n].gen => session[ts.n].res = "ca"
  /\ ts.pc = "queue" => ts.n \in Sessions

CiInv == LifeTypes /\ SessionTypes /\ LifeInv /\ JobInv /\ NumberInv /\ TsInv

lifecycle == <<lifeVars, stk>>
sessions  == <<session, job, caNumber, ts>>

-----------------------------------------------------------------------------
LEMMA SessionsInt == Sessions \subseteq Int /\ 0 \notin Sessions /\ -1 \notin Sessions
BY DEF Sessions

LEMMA InitInv == Init => CiInv
<1> SUFFICES ASSUME Init PROVE CiInv
    OBVIOUS
<1> USE DEF Init, TransportInit, SessionInit, NoStack, NoJob, NoTs, IdleWorker
<1>1. LifeTypes
  BY DEF LifeTypes, AppPcs, WorkerPcs, StackPcs
<1>2. SessionTypes
  BY SessionsInt DEF SessionTypes, FreeSession, JobPcs
<1>3. LifeInv
  BY DEF LifeInv, Left
<1>4. JobInv /\ NumberInv /\ TsInv
  BY SessionsInt DEF JobInv, NumberInv, TsInv
<1> QED BY <1>1, <1>2, <1>3, <1>4 DEF CiInv

-----------------------------------------------------------------------------
(* The stack thread's own record *)

LEMMA OnwardStk ==
  ASSUME LifeTypes, Onward
  PROVE  /\ stk'.pc \in {"tpdu", "conns"}
         /\ stk' \in [pc : StackPcs, rest : {stk'.rest}, at : {stk'.at}, spdu : {stk'.spdu}]
BY DEF LifeTypes, Onward, NoStack, StackPcs

LEMMA PollReturnsStk ==
  ASSUME LifeTypes, PollReturns
  PROVE  /\ stk'.pc = "top"
         /\ stk' \in [pc : StackPcs, rest : {stk'.rest}, at : {stk'.at}, spdu : {stk'.spdu}]
BY DEF LifeTypes, PollReturns, NoStack, StackPcs

\* A poll goes from one of its places to another, or to a callback.
LEMMA PollStk ==
  ASSUME LifeTypes, Poll
  PROVE  /\ stk.pc \in {"poll", "tpdu", "conns"}
         /\ stk'.pc \in StackPcs \ {"none", "exit"}
         /\ stk' \in [pc : StackPcs, rest : {stk'.rest}, at : {stk'.at}, spdu : {stk'.spdu}]
<1> USE DEF LifeTypes, StackPcs, NoStack
<1>1. CASE PollRead
  BY <1>1, PollReturnsStk DEF PollRead
<1>2. CASE HandleTpdu
  <2>1. CASE HandleUnexpected
    BY <2>1, PollReturnsStk DEF HandleUnexpected
  <2>2. CASE HandleCreateReply
    BY <2>2, OnwardStk DEF HandleCreateReply, Now
  <2>3. CASE HandleDelete
    BY <2>3, PollReturnsStk DEF HandleDelete, Now
  <2>4. CASE HandleRequest
    BY <2>4, OnwardStk, PollReturnsStk DEF HandleRequest, Now
  <2>5. CASE HandleMore
    BY <2>5, OnwardStk DEF HandleMore, Now
  <2>6. CASE HandleLast
    BY <2>6 DEF HandleLast, Now
  <2>7. CASE HandleSb
    BY <2>7, OnwardStk, PollReturnsStk DEF HandleSb
  <2> QED BY <1>2, <2>1, <2>2, <2>3, <2>4, <2>5, <2>6, <2>7 DEF HandleTpdu
<1>3. CASE Serve
  <2>1. NextConn => /\ stk'.pc \in {stk.pc, "top"}
                    /\ stk' \in [pc : StackPcs, rest : {stk'.rest}, at : {stk'.at},
                                 spdu : {stk'.spdu}]
    BY PollReturnsStk DEF NextConn
  <2> QED BY <1>3, <2>1, PollReturnsStk
          DEF Serve, ServeSend, ServePoll, ServeLate, ServeNothing
<1> QED BY <1>1, <1>2, <1>3 DEF Poll

-----------------------------------------------------------------------------
(* Life cycle *)

LEMMA LifeUnchanged ==
  ASSUME CiInv, UNCHANGED lifecycle
  PROVE  LifeTypes' /\ LifeInv'
BY DEF CiInv, LifeTypes, LifeInv, lifecycle, lifeVars, AppPcs, WorkerPcs, StackPcs, Left

\* The places of the stack thread that only the stack thread itself leaves.
LEMMA LifeStack ==
  ASSUME CiInv, UNCHANGED lifeVars,
         stk.pc \notin {"none", "top", "exit"},
         stk'.pc \in StackPcs \ {"none", "exit"},
         stk' \in [pc : StackPcs, rest : {stk'.rest}, at : {stk'.at}, spdu : {stk'.spdu}]
  PROVE  LifeTypes' /\ LifeInv'
BY DEF CiInv, LifeTypes, LifeInv, lifeVars, AppPcs, WorkerPcs, StackPcs, Left

LEMMA LifeApp ==
  ASSUME CiInv, AppCi \/ AppClose \/ AppStep
  PROVE  LifeTypes' /\ LifeInv' /\ UNCHANGED <<sessionVars, stk>>
<1> USE DEF CiInv, LifeTypes, LifeInv, AppPcs, WorkerPcs, Left
<1>0. UNCHANGED <<sessionVars, stk>>
  BY DEF AppCi, AppClose, AppStep, AppJoinStack, AppJoinWorker, AppFree, transportVars
<1>1. CASE AppCi
  BY <1>0, <1>1 DEF AppCi, IdleWorker
<1>2. CASE AppClose
  BY <1>0, <1>2 DEF AppClose
<1>3. CASE AppJoinStack
  BY <1>0, <1>3 DEF AppJoinStack, Joins
<1>4. CASE AppJoinWorker
  BY <1>0, <1>4 DEF AppJoinWorker, Joins
<1>5. CASE AppFree
  BY <1>0, <1>5 DEF AppFree
<1> QED BY <1>0, <1>1, <1>2, <1>3, <1>4, <1>5 DEF AppStep

LEMMA LifeWorker ==
  ASSUME CiInv, WorkerStep
  PROVE  /\ LifeTypes' /\ LifeInv' /\ UNCHANGED sessionVars
         /\ UNCHANGED stk \/ stk.pc = "none"
<1> USE DEF CiInv, LifeTypes, LifeInv, AppPcs, WorkerPcs, Left, notWorker
<1>1. CASE WorkerStart \/ WorkerPower \/ WorkerStatus \/ WorkerNextTry \/ WorkerCheck
           \/ WorkerSetup
  <2>1. UNCHANGED <<sessionVars, app, started, stop, handle, stk>>
    BY <1>1 DEF WorkerStart, WorkerPower, WorkerStatus, WorkerNextTry, WorkerCheck,
                WorkerSetup, transportVars
  <2>2. /\ worker'.pc \in WorkerPcs \ {"none", "start", "tc"}
        /\ worker' \in [pc : WorkerPcs, try : {worker'.try}, polls : {worker'.polls},
                        seen : {worker'.seen}]
    <3>0. worker \in [pc : WorkerPcs, try : {worker.try}, polls : {worker.polls},
                      seen : {worker.seen}]
      OBVIOUS
    <3>1. CASE WorkerStart \/ WorkerPower
      <4>1. \/ \E pc \in {"power", "done", "check"} : worker' = [worker EXCEPT !.pc = pc]
            \/ worker' = [worker EXCEPT !.pc = "status", !.try = @ - 1, !.polls = Polls]
        BY ONLY <3>1 DEF WorkerStart, WorkerPower
      <4> QED BY ONLY <3>0, <4>1 DEF WorkerPcs
    <3>2. CASE WorkerStatus
      <4>1. CASE Fail
        BY <4>1 DEF Fail
      <4>2. ASSUME NEW seen,
                   worker' = [worker EXCEPT !.polls = @ - 1, !.seen = seen,
                                !.pc = IF seen = "yes" THEN "check" ELSE "status"]
            PROVE  <2>2!:
        BY <4>2
      <4> QED BY <3>2, <4>1, <4>2, Zenon DEF WorkerStatus
    <3>3. CASE WorkerNextTry \/ WorkerCheck
      <4>1. \E pc \in {"check", "power", "setup", "done"} : worker' = [worker EXCEPT !.pc = pc]
        BY ONLY <3>3 DEF WorkerNextTry, WorkerCheck
      <4> QED BY ONLY <3>0, <4>1 DEF WorkerPcs
    <3>4. CASE WorkerSetup
      BY <3>4 DEF WorkerSetup, Fail
    <3> QED BY <1>1, <3>1, <3>2, <3>3, <3>4
  <2>3. worker.pc \in {"start", "power", "status", "check", "setup"}
    BY <1>1 DEF WorkerStart, WorkerPower, WorkerStatus, WorkerNextTry, WorkerCheck,
                WorkerSetup
  <2>4. worker'.pc # "done" => ci' = "set"
    BY <1>1 DEF WorkerStart, WorkerPower, WorkerStatus, WorkerNextTry, WorkerCheck,
                WorkerSetup, Fail
  <2> QED BY <2>1, <2>2, <2>3, <2>4
<1>2. CASE WorkerCreate
  <2>1. UNCHANGED <<sessionVars, app, started, stop, ci>>
    BY <1>2 DEF WorkerCreate
  <2>2. /\ worker.pc = "create" /\ ~handle /\ stk.pc = "none"
        /\ \E pc \in {"tc", "done"} : worker' = [worker EXCEPT !.pc = pc]
    BY <1>2 DEF WorkerCreate
  <2>3. CASE worker' = [worker EXCEPT !.pc = "tc"] /\ handle' = TRUE
             /\ stk' = [NoStack EXCEPT !.pc = "top"]
    <3>1. stk' = [pc |-> "top", rest |-> <<>>, at |-> 0, spdu |-> NoSpdu]
      BY <2>3 DEF NoStack
    <3> QED BY <2>1, <2>2, <2>3, <3>1 DEF StackPcs
  <2>4. CASE UNCHANGED <<handle, stk>>
    BY <2>1, <2>2, <2>4
  <2> QED BY <1>2, <2>3, <2>4 DEF WorkerCreate
<1>3. CASE WorkerTc
  <2>1. UNCHANGED <<sessionVars, app, started, stop, stk, handle, ci>>
    BY <1>3 DEF WorkerTc
  <2>2. worker.pc = "tc" /\ worker' = [worker EXCEPT !.pc = "done"]
    BY <1>3 DEF WorkerTc
  <2> QED BY <2>1, <2>2
<1> QED BY <1>1, <1>2, <1>3 DEF WorkerStep

LEMMA LifeTop ==
  ASSUME CiInv, StackTop
  PROVE  LifeTypes' /\ LifeInv' /\ UNCHANGED sessionVars /\ stk'.pc # "spdu"
BY DEF StackTop, CiInv, LifeTypes, LifeInv, AppPcs, WorkerPcs, StackPcs, Left, NoStack

-----------------------------------------------------------------------------
(* Sessions *)

LEMMA SessionsUnchanged ==
  ASSUME CiInv, UNCHANGED sessions, job.pc = "none" \/ UNCHANGED stk
  PROVE  SessionTypes' /\ JobInv' /\ NumberInv' /\ TsInv'
BY DEF CiInv, SessionTypes, JobInv, NumberInv, TsInv, BeingClosed, sessions

\* The callback of a session that is closed runs for an SPDU or for the end of
\* its connection.
LEMMA CloseCallbackStk ==
  ASSUME CiInv, CloseCallback
  PROVE  /\ job.pc = "close_cb" /\ job' = NoJob
         /\ \/ stk.pc = "closing" /\ UNCHANGED stk
            \/ stk.pc = "spdu" /\ Onward
BY DEF CloseCallback, CloseCallbackEnds, CallbackEnds, CiInv, JobInv

\* What the callbacks leave of the stack thread's record.
LEMMA SpduStk ==
  ASSUME CiInv, SpduStep
  PROVE  /\ stk.pc \in {"spdu", "closing"}
         /\ \/ UNCHANGED stk
            \/ stk'.pc \in {"tpdu", "conns"}
         /\ stk' \in [pc : StackPcs, rest : {stk'.rest}, at : {stk'.at}, spdu : {stk'.spdu}]
<1>1. stk.pc \in {"spdu", "closing"}
  BY CloseCallbackStk DEF SpduStep, OpenRequest, OpenRes, Opened, OpenCallback, OpenNumber,
         CloseRequest, CloseRes, ConnectionClose, Ignore, Package, CaInfo, CaSync, InSpdu
<1>2. UNCHANGED stk \/ Onward
  BY CloseCallbackStk DEF SpduStep, OpenRequest, OpenRes, Opened, OpenCallback, OpenNumber,
         CloseRequest, CloseRes, ConnectionClose, Ignore, Package, CaInfo, CaSync,
         CallbackEnds, transportVars
<1>3. stk \in [pc : StackPcs, rest : {stk.rest}, at : {stk.at}, spdu : {stk.spdu}]
  BY DEF CiInv, LifeTypes
<1> QED BY <1>1, <1>2, <1>3, OnwardStk DEF CiInv

LEMMA LowestIn ==
  ASSUME NEW S \in SUBSET Nat, S # {}
  PROVE  Lowest(S) \in S
<1> DEFINE R == {ss \in Nat \X Nat : ss[1] < ss[2]}
<1>1. IsWellFoundedOn(R, Nat)
  BY NatLessThanWellFounded DEF OpToRel
<1>2. PICK c \in S : \A d \in S : ~ (<<d, c>> \in R)
  <2> HIDE DEF R
  <2> QED BY <1>1, WFMin
<1>3. \A d \in S : c <= d
  <2> TAKE d \in S
  <2>1. d \in Nat /\ c \in Nat /\ <<d, c>> \in Nat \X Nat
    OBVIOUS
  <2>2. d < c => <<d, c>> \in R
    BY <2>1
  <2>3. ~(d < c)
    <3> HIDE DEF R
    <3> QED BY <1>2, <2>2
  <2> QED BY <2>1, <2>3
<1> QED BY <1>3 DEF Lowest

\* The lowest of some sessions is one of them.
LEMMA LowestSession ==
  ASSUME NEW S \in SUBSET Sessions, S # {}
  PROVE  Lowest(S) \in S
BY LowestIn DEF Sessions

\* A step on one session and the record of the job: what has to be shown of it.
LEMMA OneSession ==
  ASSUME CiInv, NEW n \in Sessions, NEW s,
         session' = [session EXCEPT ![n] = s]
  PROVE  /\ DOMAIN session' = Sessions
         /\ session'[n] = s
         /\ \A m \in Sessions \ {n} : session'[m] = session[m]
         /\ session' = [m \in Sessions |-> session'[m]]
BY DEF CiInv, SessionTypes

LEMMA OpenRequestInv ==
  ASSUME CiInv, OpenRequest
  PROVE  SessionTypes' /\ JobInv' /\ NumberInv' /\ TsInv'
<1>0. UNCHANGED <<stk, caNumber, ts>> /\ stk.pc = "spdu" /\ job.pc = "none"
  BY DEF OpenRequest, InSpdu, transportVars, tsVars
<1> DEFINE n == Lowest(FreeSessions)
<1>1. CASE Spdu1.arg \in Resources /\ FreeSessions # {}
  <2>1. n \in Sessions /\ session[n].st = "idle"
    BY <1>1, LowestSession DEF FreeSessions, InUse
  <2> HIDE DEF n
  <2> DEFINE s == [st |-> "creation", res |-> Spdu1.arg, conn |-> stk.at,
                   gen |-> session[n].gen + 1]
  <2>2. session' = [session EXCEPT ![n] = s]
    BY <1>1 DEF OpenRequest, n
  <2>3. job' = [pc |-> "open_res", n |-> n, ok |-> TRUE]
    BY <1>1 DEF OpenRequest, n
  <2>4. session[n].gen \in Nat /\ Spdu1.arg \in {"rm", "ca"}
    BY <1>1, <2>1 DEF CiInv, SessionTypes, Resources
  <2>5. s.st = "creation" /\ s.gen = session[n].gen + 1 /\ s.conn = stk.at
    OBVIOUS
  <2>6. s \in [st : {"idle", "creation", "active"}, res : {"none", "rm", "ca"},
                conn : {s.conn}, gen : Nat]
    BY <2>4
  <2> HIDE DEF s
  <2>7. /\ DOMAIN session' = Sessions /\ session' = [m \in Sessions |-> session'[m]]
        /\ session'[n] = s
        /\ \A m \in Sessions \ {n} : session'[m] = session[m]
    BY <2>1, <2>2, OneSession
  <2>8. SessionTypes'
    BY <1>0, <2>3, <2>6, <2>7 DEF CiInv, SessionTypes, JobPcs
  <2>9. JobInv'
    BY <1>0, <2>1, <2>3, <2>5, <2>7 DEF JobInv
  <2>10. NumberInv'
    BY <1>0, <2>1, <2>7 DEF CiInv, NumberInv, BeingClosed
  <2>11. TsInv'
    BY <1>0, <2>1, <2>4, <2>5, <2>7 DEF CiInv, TsInv, SessionTypes
  <2> QED BY <2>8, <2>9, <2>10, <2>11
<1>2. CASE ~(Spdu1.arg \in Resources /\ FreeSessions # {})
  <2>1. job' = [pc |-> "open_res", n |-> 0, ok |-> FALSE] /\ UNCHANGED session
    BY <1>2 DEF OpenRequest
  <2> QED BY <1>0, <2>1 DEF CiInv, SessionTypes, JobPcs, JobInv, NumberInv, BeingClosed, TsInv
<1> QED BY <1>1, <1>2

\* The job goes to another place, with the session it has.
LEMMA JobEdit ==
  ASSUME CiInv, NEW pc \in JobPcs, NEW ok \in BOOLEAN,
         job' = [job EXCEPT !.pc = pc, !.ok = ok]
  PROVE  /\ job'.pc = pc /\ job'.n = job.n /\ job'.ok = ok
         /\ job' \in [pc : JobPcs, n : {job'.n}, ok : BOOLEAN]
BY DEF CiInv, SessionTypes

LEMMA JobMove ==
  ASSUME CiInv, NEW pc \in JobPcs, job' = [job EXCEPT !.pc = pc]
  PROVE  /\ job'.pc = pc /\ job'.n = job.n /\ job'.ok = job.ok
         /\ job' \in [pc : JobPcs, n : {job'.n}, ok : BOOLEAN]
BY DEF CiInv, SessionTypes

LEMMA JobEnds ==
  ASSUME CiInv, job' = NoJob
  PROVE  /\ job'.pc = "none"
         /\ job' \in [pc : JobPcs, n : {job'.n}, ok : BOOLEAN]
BY DEF NoJob, JobPcs

\* The steps that leave the sessions alone: where the job goes.
LEMMA JobStepInv ==
  ASSUME CiInv, OpenRes \/ OpenCallback \/ OpenNumber \/ CloseRes \/ CloseCallback
                \/ Ignore \/ Package \/ CaInfo \/ CaSync
  PROVE  SessionTypes' /\ JobInv' /\ NumberInv' /\ TsInv'
<1>0. UNCHANGED <<session, ts>>
  BY DEF OpenRes, OpenCallback, OpenNumber, CloseRes, CloseCallback, Ignore, Package,
         CaInfo, CaSync, tsVars
<1>1. /\ job'.pc = "none" \/ (UNCHANGED stk /\ stk.pc = "spdu")
      /\ job' \in [pc : JobPcs, n : {job'.n}, ok : BOOLEAN]
      /\ \/ job'.pc \in {"none", "sync"}
         \/ job.pc = "open_res" /\ job.ok /\ job'.pc = "opened" /\ job'.n = job.n
         \/ /\ job.pc = "open_cb" /\ job'.pc = "open_num" /\ job'.n = job.n
            /\ session[job.n].res = "ca"
         \/ job.pc = "close_res" /\ job.ok /\ job'.pc = "close_cb" /\ job'.n = job.n
  <2>1. CASE job' = NoJob
    BY <2>1, JobEnds
  <2>2. CASE job' # NoJob
    <3>1. CASE OpenRes
      <4>1. /\ job.ok /\ job' = [job EXCEPT !.pc = "opened", !.ok = Accepts(stk.at)]
            /\ UNCHANGED stk /\ stk.pc = "spdu" /\ job.pc = "open_res"
        BY <2>2, <3>1 DEF OpenRes, CallbackEnds, InSpdu
      <4>2. Accepts(stk.at) \in BOOLEAN /\ "opened" \in JobPcs
        BY DEF Accepts, JobPcs
      <4> QED BY <4>1, <4>2, JobEdit
    <3>2. CASE OpenCallback
      <4>1. /\ session[job.n].res = "ca" /\ UNCHANGED stk /\ stk.pc = "spdu"
            /\ job' = [job EXCEPT !.pc = "open_num"] /\ job.pc = "open_cb"
        BY <2>2, <3>2 DEF OpenCallback, CallbackEnds, InSpdu, ToJob
      <4>2. "open_num" \in JobPcs
        BY DEF JobPcs
      <4> QED BY <4>1, <4>2, JobMove
    <3>3. CASE CloseRes
      <4>1. /\ job.ok /\ UNCHANGED stk /\ stk.pc = "spdu"
            /\ job' = [job EXCEPT !.pc = "close_cb"] /\ job.pc = "close_res"
        BY <2>2, <3>3 DEF CloseRes, CallbackEnds, InSpdu, ToJob
      <4>2. "close_cb" \in JobPcs
        BY DEF JobPcs
      <4> QED BY <4>1, <4>2, JobMove
    <3>4. CASE CaInfo
      <4>1. /\ job' = [job EXCEPT !.pc = "sync"] /\ UNCHANGED stk /\ stk.pc = "spdu"
        BY <3>4 DEF CaInfo, ToJob, InSpdu, transportVars
      <4>2. "sync" \in JobPcs
        BY DEF JobPcs
      <4> QED BY <4>1, <4>2, JobMove
    <3>5. ~(OpenNumber \/ CloseCallback \/ Ignore \/ Package \/ CaSync)
      BY <2>2, CloseCallbackStk DEF OpenNumber, Ignore, Package, CaSync, CallbackEnds
    <3> QED BY <3>1, <3>2, <3>3, <3>4, <3>5
  <2> QED BY <2>1, <2>2
<1>2. \/ UNCHANGED caNumber /\ job.pc # "close_cb"
      \/ job.pc = "open_num" /\ caNumber' = job.n /\ job'.pc = "none"
      \/ /\ job.pc = "close_cb"
         /\ caNumber' = IF session[job.n].res = "ca" THEN -1 ELSE caNumber
  BY JobEnds DEF OpenRes, OpenCallback, OpenNumber, CloseRes, CloseCallback, Ignore, Package,
         CaInfo, CaSync, InSpdu, CallbackEnds
<1>2_1. job.pc = "close_res" /\ job.ok => job'.pc = "close_cb"
  <2> SUFFICES ASSUME job.pc = "close_res", job.ok PROVE job'.pc = "close_cb"
      OBVIOUS
  <2>1. CloseRes
    BY DEF OpenRes, OpenCallback, OpenNumber, CloseCallback, Ignore, Package, CaInfo, CaSync,
           InSpdu
  <2>2. job' = [job EXCEPT !.pc = "close_cb"]
    BY <2>1 DEF CloseRes, ToJob
  <2> QED BY <2>2, JobMove DEF JobPcs
<1>3. SessionTypes'
  <2>1. caNumber' \in {-1, 0} \cup Sessions
    BY <1>2 DEF CiInv, SessionTypes, JobInv
  <2> QED BY <1>0, <1>1, <2>1 DEF CiInv, SessionTypes
<1>4. JobInv'
  BY <1>0, <1>1 DEF CiInv, JobInv
<1>5. NumberInv'
  <2>1. CASE UNCHANGED caNumber /\ job.pc # "close_cb"
    BY <1>0, <1>1, <1>2_1, <2>1 DEF CiInv, NumberInv, BeingClosed
  <2>2. CASE job.pc = "open_num" /\ caNumber' = job.n /\ job'.pc = "none"
    BY <1>0, <2>2 DEF CiInv, NumberInv, JobInv
  <2>3. CASE /\ job.pc = "close_cb"
             /\ caNumber' = IF session[job.n].res = "ca" THEN -1 ELSE caNumber
    BY <1>0, <2>3, SessionsInt DEF CiInv, NumberInv, BeingClosed
  <2> QED BY <1>2, <2>1, <2>2, <2>3
<1>6. TsInv'
  BY <1>0 DEF CiInv, TsInv
<1> QED BY <1>3, <1>4, <1>5, <1>6

\* A session goes from one state to another.
LEMMA StateChange ==
  ASSUME CiInv, NEW n \in Sessions, NEW st \in {"idle", "active"},
         session' = [session EXCEPT ![n].st = st]
  PROVE  /\ DOMAIN session' = Sessions /\ session' = [m \in Sessions |-> session'[m]]
         /\ \A m \in Sessions \ {n} : session'[m] = session[m]
         /\ session'[n].st = st /\ session'[n].res = session[n].res
         /\ session'[n].gen = session[n].gen
         /\ session'[n] \in [st : {"idle", "creation", "active"},
              res : {"none", "rm", "ca"}, conn : {session'[n].conn}, gen : Nat]
BY DEF CiInv, SessionTypes

LEMMA OpenedInv ==
  ASSUME CiInv, Opened
  PROVE  SessionTypes' /\ JobInv' /\ NumberInv' /\ TsInv'
<1>1. /\ UNCHANGED <<caNumber, ts>> /\ job.pc = "opened" /\ stk.pc = "spdu"
      /\ \/ job.ok /\ job' = [job EXCEPT !.pc = "open_cb"] /\ UNCHANGED stk
         \/ ~job.ok /\ job' = [pc |-> "none", n |-> 0, ok |-> TRUE]
  BY DEF Opened, InSpdu, ToJob, CallbackEnds, NoJob, tsVars
<1>2. PICK st \in {"idle", "active"} :
        session' = [session EXCEPT ![job.n].st = st] /\ (job.ok => st = "active")
  BY DEF Opened
<1>3. job.n \in Sessions /\ session[job.n].st = "creation"
  BY <1>1 DEF CiInv, JobInv
<1>4. /\ DOMAIN session' = Sessions /\ session' = [m \in Sessions |-> session'[m]]
      /\ \A m \in Sessions \ {job.n} : session'[m] = session[m]
      /\ session'[job.n].st = st /\ session'[job.n].res = session[job.n].res
      /\ session'[job.n].gen = session[job.n].gen
      /\ session'[job.n] \in [st : {"idle", "creation", "active"},
           res : {"none", "rm", "ca"}, conn : {session'[job.n].conn}, gen : Nat]
  BY <1>2, <1>3, StateChange
<1>5. SessionTypes'
  <2>1. job' \in [pc : JobPcs, n : {job'.n}, ok : BOOLEAN]
    <3>1. CASE job' = [job EXCEPT !.pc = "open_cb"]
      BY <3>1, JobMove DEF JobPcs
    <3>2. CASE job' = [pc |-> "none", n |-> 0, ok |-> TRUE]
      BY <3>2 DEF JobPcs
    <3> QED BY <1>1, <3>1, <3>2
  <2>2. \A m \in Sessions :
          session'[m] \in [st : {"idle", "creation", "active"}, res : {"none", "rm", "ca"},
                            conn : {session'[m].conn}, gen : Nat]
    BY <1>3, <1>4 DEF CiInv, SessionTypes
  <2> QED BY <1>1, <1>4, <2>1, <2>2 DEF CiInv, SessionTypes
<1>6. JobInv'
  <2>1. CASE job.ok /\ job' = [job EXCEPT !.pc = "open_cb"] /\ UNCHANGED stk
    <3>1. job'.pc = "open_cb" /\ job'.n = job.n /\ session'[job.n].st = "active"
      BY <1>2, <1>4, <2>1, JobMove DEF JobPcs
    <3> QED BY <1>1, <1>3, <2>1, <3>1 DEF JobInv
  <2>2. CASE job' = [pc |-> "none", n |-> 0, ok |-> TRUE]
    BY <2>2 DEF JobInv
  <2> QED BY <1>1, <2>1, <2>2
<1>7. NumberInv'
  BY <1>1, <1>3, <1>4 DEF CiInv, NumberInv, BeingClosed
<1>8. TsInv'
  BY <1>1, <1>3, <1>4 DEF CiInv, TsInv
<1> QED BY <1>5, <1>6, <1>7, <1>8

LEMMA CloseRequestInv ==
  ASSUME CiInv, CloseRequest
  PROVE  SessionTypes' /\ JobInv' /\ NumberInv' /\ TsInv'
<1> DEFINE n == Spdu1.n
<1>1. /\ UNCHANGED <<caNumber, ts, stk>> /\ job.pc = "none" /\ stk.pc = "spdu"
      /\ job' = [pc |-> "close_res", n |-> n, ok |-> Closable(n)]
  BY DEF CloseRequest, InSpdu, transportVars, tsVars
<1>2. CASE Closable(n)
  <2>1. n \in Sessions /\ session[n].st = "active"
        /\ session' = [session EXCEPT ![n].st = "idle"]
    BY <1>2 DEF CloseRequest, Closable
  <2> HIDE DEF n
  <2>2. /\ DOMAIN session' = Sessions /\ session' = [m \in Sessions |-> session'[m]]
        /\ \A m \in Sessions \ {n} : session'[m] = session[m]
        /\ session'[n].st = "idle" /\ session'[n].res = session[n].res
        /\ session'[n].gen = session[n].gen
        /\ session'[n] \in [st : {"idle", "creation", "active"},
             res : {"none", "rm", "ca"}, conn : {session'[n].conn}, gen : Nat]
    BY <2>1, StateChange
  <2>3. job' = [pc |-> "close_res", n |-> n, ok |-> TRUE]
    <3>1. Closable(n) = TRUE
      BY <1>2 DEF Closable
    <3> QED BY <1>1, <3>1
  <2>4. SessionTypes'
    <3>1. job' \in [pc : JobPcs, n : {job'.n}, ok : BOOLEAN]
      BY <2>3 DEF JobPcs
    <3>2. \A m \in Sessions :
            session'[m] \in [st : {"idle", "creation", "active"}, res : {"none", "rm", "ca"},
                              conn : {session'[m].conn}, gen : Nat]
      BY <2>2 DEF CiInv, SessionTypes
    <3> QED BY <1>1, <2>2, <3>1, <3>2 DEF CiInv, SessionTypes
  <2>5. JobInv' /\ NumberInv'
    BY <1>1, <2>1, <2>2, <2>3 DEF CiInv, JobInv, NumberInv, BeingClosed
  <2>6. TsInv'
    BY <1>1, <2>1, <2>2 DEF CiInv, TsInv
  <2> QED BY <2>4, <2>5, <2>6
<1>3. CASE ~Closable(n)
  <2>1. session' = session /\ job' = [pc |-> "close_res", n |-> n, ok |-> FALSE]
    <3>1. Closable(n) = FALSE
      BY <1>3 DEF Closable
    <3> QED BY <1>1, <3>1 DEF CloseRequest
  <2> HIDE DEF n
  <2>2. SessionTypes'
    <3>1. job' \in [pc : JobPcs, n : {job'.n}, ok : BOOLEAN]
      BY <2>1 DEF JobPcs
    <3> QED BY <1>1, <2>1, <3>1 DEF CiInv, SessionTypes
  <2>3. JobInv' /\ NumberInv' /\ TsInv'
    BY <1>1, <2>1 DEF CiInv, JobInv, NumberInv, BeingClosed, TsInv
  <2> QED BY <2>2, <2>3
<1> QED BY <1>2, <1>3

LEMMA ConnectionCloseInv ==
  ASSUME CiInv, ConnectionClose
  PROVE  SessionTypes' /\ JobInv' /\ NumberInv' /\ TsInv'
<1> DEFINE S == OnConn(stk.at)
           n == Lowest(S)
<1>1. UNCHANGED <<caNumber, ts>> /\ job.pc = "none" /\ stk.pc = "closing"
  BY DEF ConnectionClose, tsVars
<1>2. CASE S = {}
  <2>1. UNCHANGED <<session, job>>
    BY <1>2 DEF ConnectionClose
  <2> QED BY <1>1, <2>1 DEF CiInv, SessionTypes, JobInv, NumberInv, BeingClosed, TsInv
<1>3. CASE S # {}
  <2>1. n \in Sessions
    BY <1>3, LowestSession DEF OnConn
  <2>2. /\ session' = [session EXCEPT ![n].st = "idle"]
        /\ job' = [pc |-> "close_cb", n |-> n, ok |-> TRUE] /\ UNCHANGED stk
    BY <1>3 DEF ConnectionClose
  <2> HIDE DEF n
  <2>3. /\ DOMAIN session' = Sessions /\ session' = [m \in Sessions |-> session'[m]]
        /\ \A m \in Sessions \ {n} : session'[m] = session[m]
        /\ session'[n].st = "idle" /\ session'[n].res = session[n].res
        /\ session'[n].gen = session[n].gen
        /\ session'[n] \in [st : {"idle", "creation", "active"},
             res : {"none", "rm", "ca"}, conn : {session'[n].conn}, gen : Nat]
    BY <2>1, <2>2, StateChange
  <2>4. SessionTypes'
    <3>1. job' \in [pc : JobPcs, n : {job'.n}, ok : BOOLEAN]
      BY <2>2 DEF JobPcs
    <3> QED BY <1>1, <2>3, <3>1 DEF CiInv, SessionTypes
  <2>5. JobInv'
    BY <1>1, <2>1, <2>2 DEF JobInv
  <2>6. NumberInv'
    <3>1. job'.pc = "close_cb" /\ job'.n = n
      BY <2>2
    <3>2. \A m \in Sessions : session'[m].res = session[m].res
                            /\ (session'[m].st = session[m].st \/ m = n)
      BY <2>3
    <3>3. ~BeingClosed(caNumber)
      BY <1>1 DEF BeingClosed
    <3> QED BY <1>1, <3>1, <3>2, <3>3 DEF CiInv, NumberInv, BeingClosed
  <2>7. TsInv'
    BY <1>1, <2>1, <2>3 DEF CiInv, TsInv
  <2> QED BY <2>4, <2>5, <2>6, <2>7
<1> QED BY <1>2, <1>3

-----------------------------------------------------------------------------
(* The TS thread *)

LEMMA TsStepInv ==
  ASSUME CiInv, TsLock \/ TsStep
  PROVE  SessionTypes' /\ JobInv' /\ NumberInv' /\ TsInv' /\ UNCHANGED stk
<1>1. UNCHANGED <<session, job, caNumber, stk>>
  BY DEF TsLock, TsStep, TsRead, TsCheck, TsQueue, transportVars
<1>2. /\ ts' \in [pc : {"idle", "read", "check", "queue"}, n : Int, c : {ts'.c}, gen : Nat]
      /\ TsInv'
  <2> USE DEF CiInv, SessionTypes, TsInv
  <2>1. CASE TsLock
    BY <1>1, <2>1 DEF TsLock
  <2>2. CASE TsRead
    <3>1. /\ ts' = [ts EXCEPT !.pc = "check", !.n = caNumber,
                     !.gen = IF caNumber \in Sessions THEN session[caNumber].gen ELSE 0]
      BY <2>2 DEF TsRead
    <3>2. caNumber \in Int
      BY SessionsInt
    <3>3. (IF caNumber \in Sessions THEN session[caNumber].gen ELSE 0) \in Nat
      OBVIOUS
    <3>4. /\ ts'.pc = "check" /\ ts'.n = caNumber
          /\ ts'.gen = IF caNumber \in Sessions THEN session[caNumber].gen ELSE 0
          /\ ts' \in [pc : {"idle", "read", "check", "queue"}, n : Int, c : {ts'.c}, gen : Nat]
      BY <3>1, <3>2, <3>3
    <3> QED BY <1>1, <3>4 DEF NumberInv
  <2>3. CASE TsCheck
    <3>1. CASE Open(ts.n)
      <4>1. ts' = [ts EXCEPT !.pc = "queue", !.c = session[ts.n].conn] /\ ts.pc = "check"
        BY <2>3, <3>1 DEF TsCheck
      <4>2. /\ ts'.pc = "queue" /\ ts'.n = ts.n /\ ts'.gen = ts.gen
            /\ ts' \in [pc : {"idle", "read", "check", "queue"}, n : Int, c : {ts'.c}, gen : Nat]
        BY <4>1
      <4> QED BY <1>1, <3>1, <4>1, <4>2 DEF Open
    <3>2. CASE ~Open(ts.n)
      BY <1>1, <2>3, <3>2 DEF TsCheck, TsEnds, NoTs
    <3> QED BY <3>1, <3>2
  <2>4. CASE TsQueue
    BY <1>1, <2>4 DEF TsQueue, TsEnds, NoTs
  <2> QED BY <2>1, <2>2, <2>3, <2>4 DEF TsStep
<1> QED BY <1>1, <1>2 DEF CiInv, SessionTypes, JobInv, NumberInv, BeingClosed

-----------------------------------------------------------------------------
LEMMA SpduInv ==
  ASSUME CiInv, SpduStep
  PROVE  SessionTypes' /\ JobInv' /\ NumberInv' /\ TsInv'
BY OpenRequestInv, JobStepInv, OpenedInv, CloseRequestInv, ConnectionCloseInv DEF SpduStep

\* Every step keeps the invariant.
LEMMA StepInv ==
  ASSUME CiInv, [Next]_vars
  PROVE  CiInv'
<1>1. CASE AppCi \/ AppClose \/ AppStep
  <2>1. LifeTypes' /\ LifeInv' /\ UNCHANGED <<sessionVars, stk>>
    BY <1>1, LifeApp
  <2>2. SessionTypes' /\ JobInv' /\ NumberInv' /\ TsInv'
    BY <2>1, SessionsUnchanged DEF sessions, sessionVars, CiInv, JobInv
  <2> QED BY <2>1, <2>2 DEF CiInv
<1>2. CASE WorkerStep
  <2>1. LifeTypes' /\ LifeInv' /\ UNCHANGED sessionVars /\ (UNCHANGED stk \/ stk.pc = "none")
    BY <1>2, LifeWorker
  <2>2. job.pc = "none" \/ UNCHANGED stk
    BY <2>1 DEF CiInv, JobInv
  <2>3. SessionTypes' /\ JobInv' /\ NumberInv' /\ TsInv'
    BY <2>1, <2>2, SessionsUnchanged DEF sessions, sessionVars
  <2> QED BY <2>1, <2>3 DEF CiInv
<1>3. CASE StackTop
  <2>1. LifeTypes' /\ LifeInv' /\ UNCHANGED sessionVars
    BY <1>3, LifeTop
  <2>2. job.pc = "none"
    BY <1>3 DEF StackTop, CiInv, JobInv
  <2>3. SessionTypes' /\ JobInv' /\ NumberInv' /\ TsInv'
    BY <2>1, <2>2, SessionsUnchanged DEF sessions, sessionVars
  <2> QED BY <2>1, <2>3 DEF CiInv
<1>4. CASE Poll /\ UNCHANGED <<sessionVars, lifeVars, cam>>
  <2>1. LifeTypes' /\ LifeInv'
    BY <1>4, PollStk, LifeStack DEF CiInv
  <2>2. job.pc = "none"
    BY <1>4, PollStk DEF CiInv, JobInv
  <2>3. SessionTypes' /\ JobInv' /\ NumberInv' /\ TsInv'
    BY <1>4, <2>2, SessionsUnchanged DEF sessions, sessionVars
  <2> QED BY <2>1, <2>3 DEF CiInv
<1>5. CASE SpduStep /\ UNCHANGED <<lifeVars, cam>>
  <2>1. LifeTypes' /\ LifeInv'
    <3>1. stk'.pc \in StackPcs \ {"none", "exit"}
      BY <1>5, SpduStk DEF StackPcs
    <3> QED BY <1>5, <3>1, SpduStk, LifeStack
  <2>2. SessionTypes' /\ JobInv' /\ NumberInv' /\ TsInv'
    BY <1>5, SpduInv
  <2> QED BY <2>1, <2>2 DEF CiInv
<1>6. CASE (TsLock \/ TsStep) /\ UNCHANGED <<lifeVars, cam>>
  <2>1. SessionTypes' /\ JobInv' /\ NumberInv' /\ TsInv' /\ UNCHANGED stk
    BY <1>6, TsStepInv
  <2>2. LifeTypes' /\ LifeInv'
    BY <1>6, <2>1, LifeUnchanged DEF lifecycle
  <2> QED BY <2>1, <2>2 DEF CiInv
<1>7. CASE CamHears \/ CamMisses \/ CamActs
  <2>1. UNCHANGED <<lifeVars, stk, sessionVars>>
    BY <1>7 DEF CamHears, CamMisses, CamActs, notCam
  <2>2. LifeTypes' /\ LifeInv'
    BY <2>1, LifeUnchanged DEF lifecycle
  <2>3. SessionTypes' /\ JobInv' /\ NumberInv' /\ TsInv'
    BY <2>1, SessionsUnchanged DEF sessions, sessionVars, CiInv, JobInv
  <2> QED BY <2>2, <2>3 DEF CiInv
<1>8. CASE UNCHANGED vars
  <2>1. UNCHANGED <<lifeVars, stk, sessionVars>>
    BY <1>8 DEF vars, transportVars
  <2>2. LifeTypes' /\ LifeInv'
    BY <2>1, LifeUnchanged DEF lifecycle
  <2>3. SessionTypes' /\ JobInv' /\ NumberInv' /\ TsInv'
    BY <2>1, SessionsUnchanged DEF sessions, sessionVars, CiInv, JobInv
  <2> QED BY <2>2, <2>3 DEF CiInv
<1> QED BY <1>1, <1>2, <1>3, <1>4, <1>5, <1>6, <1>7, <1>8 DEF Next, StackStep

\* The invariant of the life cycle, the sessions and the TS thread's copy holds
\* in every state.
THEOREM CiInvariant == Spec => []CiInv
<1>1. Init => CiInv
  BY InitInv
<1>2. CiInv /\ [Next]_vars => CiInv'
  BY StepInv
<1> QED BY <1>1, <1>2, PTL DEF Spec

\* ca_session_number is an open CA session between two callbacks, for every
\* number of sessions and connections.
THEOREM CaNumberHolds == Spec => []CaNumberValid
<1>1. CiInv => CaNumberValid
  BY DEF CiInv, NumberInv, BeingClosed, CaNumberValid, ActiveSessions
<1> QED BY <1>1, CiInvariant, PTL

\* The stack thread polls the CAM only with joker_ci_opaque set and before
\* joker_ci_close has returned, whenever the application closes.
THEOREM NoUseAfterCloseHolds == Spec => []NoUseAfterClose
<1>1. CiInv => NoUseAfterClose
  BY DEF CiInv, LifeInv, Left, NoUseAfterClose
<1> QED BY <1>1, CiInvariant, PTL

\* A CA PMT of the TS thread is queued for a CA session, unless the session it
\* read was closed since.
THEOREM CaMessagesHold == Spec => CaMessagesToCa
<1>1. CiInv /\ [Next]_vars =>
        [ts.pc = "queue" /\ ts'.pc = "idle" /\ session[ts.n].gen = ts.gen =>
           session[ts.n].res = "ca"]_vars
  BY DEF CiInv, TsInv
<1> QED BY <1>1, CiInvariant, PTL DEF Spec, CaMessagesToCa

-----------------------------------------------------------------------------
(***************************************************************************)
(* The layers: what goes over the link has the types of its messages, the  *)
(* stack thread is in a callback for a live connection, and a session in   *)
(* use is on a live connection.                                            *)
(***************************************************************************)

SpduKinds == {"none", "open_req", "open_ok", "open_refused", "close_req", "close_ok",
              "close_err", "apdu", "part", "conn", "request", "delete"}
SpduArgs  == {"none", "rm", "ca", "other", "rm_enq", "rm_reply", "rm_changed",
              "ca_info_enq", "ca_info", "ca_pmt"}
TpduTags  == {"create", "create_reply", "delete", "delete_reply", "request", "new",
              "tc_error", "last", "more", "rcv", "sb", "sb_data"}
Spdus    == [k : SpduKinds, n : Int, arg : SpduArgs]
Tpdus    == [tag : TpduTags, c : Conns, p : Spdus]
Messages == Seq(Tpdus) \ {<<>>}
ConnRecs == [st : {"idle", "creation", "active"}, wait : {"no", "yes", "late"},
             chain : Spdus, queue : Seq(Tpdus)]

ConnTypes == conn \in [Conns -> ConnRecs]
WireTypes == toCam \in Seq(Tpdus) /\ fromCam \in Seq(Messages) /\ fails \in Nat
StkTypes ==
  /\ stk.rest \in Seq(Tpdus) /\ stk.spdu \in Spdus
  /\ stk.pc = "tpdu" => stk.rest # <<>>
  /\ stk.pc \in {"conns", "spdu", "closing"} => stk.at \in Conns
UserTypes ==
  /\ job.n \in Int
  /\ \A n \in Sessions : session[n].st # "idle" => session[n].conn \in Conns
  /\ ts.pc = "queue" => ts.c \in Conns
CamTypes ==
  cam \in [here : {cam.here}, acts : {cam.acts}, open : SUBSET Conns, sess : {cam.sess},
           out : [Conns -> Seq(Spdus)]]

LinkTypes == ConnTypes /\ WireTypes /\ StkTypes /\ UserTypes /\ CamTypes

\* The stack thread and the sessions on the connections.
LiveInv ==
  /\ stk.pc = "spdu" => stk.at \in LiveConns
  /\ \A n \in Sessions : session[n].st # "idle" =>
       \/ session[n].conn \in LiveConns
       \/ stk.pc = "closing" /\ stk.at = session[n].conn
       \/ fails > 0

\* The thread that has jen->mux.
MuxOwner ==
  /\ mux = "stack" <=> job.pc = "sync"
  /\ mux = "ts" <=> ts.pc # "idle"

LayerInv == LinkTypes /\ LiveInv /\ MuxOwner

LEMMA SpduIn ==
  /\ \A k \in SpduKinds, n \in Int, arg \in SpduArgs : Spdu(k, n, arg) \in Spdus
  /\ NoSpdu \in Spdus
  /\ \A s \in Spdus : s.k \in SpduKinds /\ s.n \in Int /\ s.arg \in SpduArgs
BY DEF Spdu, NoSpdu, Spdus, SpduKinds, SpduArgs

LEMMA TpduIn ==
  /\ \A tag \in TpduTags, c \in Conns, p \in Spdus : Tpdu(tag, c, p) \in Tpdus
  /\ \A tag \in TpduTags, c \in Conns : Plain(tag, c) \in Tpdus
  /\ \A t \in Tpdus : t.tag \in TpduTags /\ t.c \in Conns /\ t.p \in Spdus
<1>1. NoSpdu \in Spdus
  BY SpduIn
<1> QED BY <1>1 DEF Tpdu, Plain, Tpdus

LEMMA SeqParts ==
  ASSUME NEW S, NEW s \in Seq(S)
  PROVE  /\ \A e \in S : Append(s, e) \in Seq(S) /\ Append(s, e) # <<>>
         /\ s # <<>> => Head(s) \in S /\ Tail(s) \in Seq(S)
         /\ Len(s) > 1 => Tail(s) # <<>>
         /\ <<>> \in Seq(S)
<1>1. ASSUME NEW e \in S PROVE Append(s, e) \in Seq(S) /\ Append(s, e) # <<>>
  <2>1. Len(Append(s, e)) = Len(s) + 1 /\ Len(s) \in Nat
    OBVIOUS
  <2>2. Append(s, e) # <<>>
    BY <2>1
  <2> QED BY <2>2
<1>2. s # <<>> => Head(s) \in S /\ Tail(s) \in Seq(S)
  OBVIOUS
<1>3. ASSUME Len(s) > 1 PROVE Tail(s) # <<>>
  <2>1. s # <<>>
    BY <1>3
  <2>2. DOMAIN Tail(s) = 1 .. Len(s) - 1 /\ Len(s) \in Nat
    BY <2>1
  <2>3. 1 \in DOMAIN Tail(s)
    BY <1>3, <2>2
  <2>4. 1 \notin DOMAIN <<>>
    OBVIOUS
  <2> QED BY <2>3, <2>4, Zenon
<1> QED BY <1>1, <1>2, <1>3

LEMMA ConnsNat == Conns \subseteq Nat /\ 1 \in Conns /\ 0 \notin Conns
BY TransportAssumption DEF TransportAssumption, Conns

\* A connection is given another record.
LEMMA ConnSet ==
  ASSUME ConnTypes, NEW c \in Conns, NEW r \in ConnRecs, conn' = [conn EXCEPT ![c] = r]
  PROVE  /\ ConnTypes'
         /\ r.st = "active" \/ conn[c].st # "active" => LiveConns \subseteq LiveConns'
BY DEF ConnTypes, ConnRecs, LiveConns

LEMMA LayerInit == Init => LayerInv
<1> SUFFICES ASSUME Init PROVE LayerInv
    OBVIOUS
<1> USE DEF Init, TransportInit, SessionInit, NoStack, NoJob, NoTs, FreeSession
<1>1. ConnTypes
  <2>1. NoSpdu \in Spdus /\ <<>> \in Seq(Tpdus)
    BY SpduIn
  <2>2. IdleConn \in ConnRecs
    BY <2>1 DEF IdleConn, ConnRecs
  <2> QED BY <2>2 DEF ConnTypes
<1>2. WireTypes
  BY DEF WireTypes
<1>3. StkTypes
  BY SpduIn DEF StkTypes
<1>4. UserTypes
  BY DEF UserTypes
<1>5. CamTypes
  BY DEF CamTypes, Reset
<1>6. LiveInv /\ MuxOwner
  BY DEF LiveInv, MuxOwner
<1> QED BY <1>1, <1>2, <1>3, <1>4, <1>5, <1>6 DEF LayerInv, LinkTypes

-----------------------------------------------------------------------------
(* The transport layer *)

LEMMA OnwardTypes ==
  ASSUME LifeTypes, StkTypes, Onward
  PROVE  StkTypes' /\ stk'.pc \in {"tpdu", "conns"}
<1>1. CASE Len(stk.rest) <= 1
  BY <1>1, SpduIn, ConnsNat DEF Onward, StkTypes, NoStack
<1>2. CASE ~(Len(stk.rest) <= 1)
  <2>1. Len(stk.rest) > 1
    BY <1>2 DEF StkTypes
  <2>2. Tail(stk.rest) \in Seq(Tpdus) /\ Tail(stk.rest) # <<>>
    <3> HIDE DEF Tpdus
    <3> QED BY <2>1, SeqParts DEF StkTypes
  <2> QED BY <1>2, <2>2, SpduIn DEF Onward, StkTypes, NoStack
<1> QED BY <1>1, <1>2

LEMMA ReturnTypes ==
  ASSUME LifeTypes, PollReturns
  PROVE  StkTypes' /\ stk'.pc = "top"
BY SpduIn DEF PollReturns, StkTypes, NoStack

LEMMA NextConnTypes ==
  ASSUME LifeTypes, StkTypes, stk.pc = "conns", NextConn
  PROVE  StkTypes' /\ stk'.pc \in {"conns", "top"}
<1>1. CASE stk.at = MaxConn
  BY <1>1, ReturnTypes DEF NextConn
<1>2. CASE stk.at # MaxConn
  <2>1. stk.at \in Conns
    BY DEF StkTypes
  <2>2. stk.at + 1 \in Conns
    BY <1>2, <2>1, TransportAssumption DEF TransportAssumption, Conns
  <2> QED BY <1>2, <2>2 DEF NextConn, StkTypes, LifeTypes
<1> QED BY <1>1, <1>2

\* The parts of the invariant a poll may change, and what it may not do to a
\* live connection.
PollKept ==
  /\ ConnTypes' /\ WireTypes' /\ StkTypes'
  /\ LiveConns \subseteq LiveConns' \/ stk'.pc = "closing" \/ fails' > 0
  /\ fails' >= fails
  /\ stk'.pc = "spdu" => stk'.at \in LiveConns'
  /\ stk'.pc = "closing" => LiveConns \ {stk'.at} \subseteq LiveConns'

LEMMA WriteTypes ==
  ASSUME WireTypes, fromCam' = fromCam
  PROVE  /\ \A t \in Tpdus : Write(t) => WireTypes' /\ fails' = fails
         /\ WriteFails => WireTypes' /\ fails' > 0 /\ fails' >= fails
<1> HIDE DEF Tpdus, Messages
<1>1. ASSUME NEW t \in Tpdus, Write(t) PROVE WireTypes' /\ fails' = fails
  BY <1>1, SeqParts DEF WireTypes, Write
<1>2. ASSUME WriteFails PROVE WireTypes' /\ fails' > 0 /\ fails' >= fails
  BY <1>2 DEF WireTypes, WriteFails
<1> QED BY <1>1, <1>2

LEMMA ReadTypes ==
  ASSUME LifeTypes, LinkTypes, PollRead
  PROVE  PollKept
<1> USE DEF LinkTypes
<1> HIDE DEF Tpdus, Messages
<1>1. ConnTypes' /\ LiveConns' = LiveConns /\ toCam' = toCam
  BY DEF PollRead, ConnTypes, LiveConns
<1>2. CASE fromCam = <<>>
  <2>1. fromCam' = fromCam /\ fails' = fails /\ stk' = [NoStack EXCEPT !.pc = "conns", !.at = 1]
    BY <1>2 DEF PollRead
  <2>2. StkTypes' /\ stk'.pc = "conns"
    BY <2>1, SpduIn, ConnsNat DEF StkTypes, NoStack
  <2> QED BY <1>1, <2>1, <2>2 DEF PollKept, WireTypes
<1>3. CASE fromCam # <<>>
  <2>1. Head(fromCam) \in Messages /\ Tail(fromCam) \in Seq(Messages)
    BY <1>3, SeqParts DEF WireTypes
  <2>2. fromCam' = Tail(fromCam) /\ fails' \in {fails, fails + 1}
    BY <1>3 DEF PollRead
  <2>3. WireTypes' /\ fails' >= fails
    BY <1>1, <2>1, <2>2 DEF WireTypes
  <2>4. StkTypes' /\ stk'.pc \in {"tpdu", "top"}
    <3>1. CASE PollReturns
      BY <3>1, ReturnTypes
    <3>2. CASE stk' = [NoStack EXCEPT !.pc = "tpdu", !.rest = Head(fromCam)]
      BY <2>1, <3>2, SpduIn DEF StkTypes, NoStack, Messages
    <3> QED BY <1>3, <3>1, <3>2 DEF PollRead
  <2> QED BY <1>1, <2>3, <2>4 DEF PollKept
<1> QED BY <1>2, <1>3

\* The TPDU that is handled, and the record of its connection.
LEMMA HandledTypes ==
  ASSUME LinkTypes, stk.pc = "tpdu"
  PROVE  /\ Handled \in Tpdus /\ Handled.c \in Conns /\ Handled.p \in Spdus
         /\ Of \in ConnRecs /\ Of = conn[Handled.c] /\ Chained \in Spdus
<1>1. Handled \in Tpdus
  <2> HIDE DEF Tpdus
  <2> QED BY SeqParts DEF LinkTypes, StkTypes, Handled
<1>2. Handled.c \in Conns /\ Handled.p \in Spdus
  BY <1>1, TpduIn
<1>3. Of \in ConnRecs
  BY <1>2 DEF LinkTypes, ConnTypes, Of
<1>4. Of.chain \in Spdus
  BY <1>3 DEF ConnRecs
<1> QED BY <1>1, <1>2, <1>3, <1>4 DEF Chained, Of

LEMMA PlainSteps ==
  ASSUME LifeTypes, LinkTypes,
         HandleUnexpected \/ HandleCreateReply \/ HandleMore \/ HandleLast
  PROVE  PollKept
<1> USE DEF LinkTypes
<1> HIDE DEF Tpdus, Messages
<1>0. stk.pc = "tpdu" /\ UNCHANGED <<toCam, fromCam, fails>>
  BY DEF HandleUnexpected, HandleCreateReply, HandleMore, HandleLast, Now
<1>1. WireTypes' /\ fails' >= fails
  BY <1>0 DEF WireTypes
<1>2. /\ Handled.c \in Conns /\ Of \in ConnRecs /\ Of = conn[Handled.c] /\ Chained \in Spdus
  BY <1>0, HandledTypes
<1>3. CASE HandleUnexpected
  <2>1. ConnTypes' /\ LiveConns' = LiveConns
    BY <1>3 DEF HandleUnexpected, ConnTypes, LiveConns
  <2> QED BY <1>1, <1>3, <2>1, ReturnTypes DEF HandleUnexpected, PollKept
<1>4. CASE HandleCreateReply
  <2> DEFINE r == [Of EXCEPT !.st = "active", !.wait = "no"]
  <2>1. r \in ConnRecs /\ r.st = "active"
    BY <1>2 DEF ConnRecs
  <2>2. conn' = [conn EXCEPT ![Handled.c] = r]
    BY <1>4 DEF HandleCreateReply, Update
  <2> HIDE DEF r
  <2>3. ConnTypes' /\ LiveConns \subseteq LiveConns'
    BY <1>2, <2>1, <2>2, ConnSet
  <2> QED BY <1>1, <1>4, <2>3, OnwardTypes DEF HandleCreateReply, PollKept
<1>5. CASE HandleMore
  <2> DEFINE r == [Of EXCEPT !.wait = "no", !.chain = Chained]
  <2>1. r \in ConnRecs /\ r.st = Of.st
    BY <1>2 DEF ConnRecs
  <2>2. conn' = [conn EXCEPT ![Handled.c] = r]
    BY <1>5 DEF HandleMore, Update
  <2> HIDE DEF r
  <2>3. ConnTypes' /\ LiveConns \subseteq LiveConns'
    BY <1>2, <2>1, <2>2, ConnSet
  <2> QED BY <1>1, <1>5, <2>3, OnwardTypes DEF HandleMore, PollKept
<1>6. CASE HandleLast
  <2> DEFINE r == [Of EXCEPT !.wait = "no", !.chain = NoSpdu]
  <2>1. r \in ConnRecs /\ r.st = Of.st
    BY <1>2, SpduIn DEF ConnRecs
  <2>2. conn' = [conn EXCEPT ![Handled.c] = r]
    BY <1>6 DEF HandleLast, Update
  <2> HIDE DEF r
  <2>3. ConnTypes' /\ LiveConns \subseteq LiveConns'
    BY <1>2, <2>1, <2>2, ConnSet
  <2>4. Of.st = "active"
    BY <1>6 DEF HandleLast, Now, Expected
  <2>5. Handled.c \in LiveConns'
    BY <1>2, <2>3, <2>4 DEF LiveConns
  <2>6. stk' = [stk EXCEPT !.pc = "spdu", !.at = Handled.c, !.spdu = Chained]
    BY <1>6 DEF HandleLast
  <2>7. stk'.pc = "spdu" /\ stk'.at = Handled.c /\ stk'.rest = stk.rest /\ stk'.spdu = Chained
    BY <2>6 DEF LifeTypes
  <2>8. StkTypes'
    BY <1>2, <2>7 DEF StkTypes
  <2> QED BY <1>1, <2>3, <2>5, <2>7, <2>8 DEF PollKept
<1> QED BY <1>3, <1>4, <1>5, <1>6

LEMMA DeleteTypes ==
  ASSUME LifeTypes, LinkTypes, HandleDelete
  PROVE  PollKept
<1> USE DEF LinkTypes
<1> HIDE DEF Tpdus, Messages
<1>0. stk.pc = "tpdu" /\ fromCam' = fromCam
  BY DEF HandleDelete, Now
<1>1. Handled.c \in Conns /\ Of \in ConnRecs /\ Of = conn[Handled.c]
  BY <1>0, HandledTypes
<1> DEFINE r == [Of EXCEPT !.st = "idle", !.chain = NoSpdu]
<1>2. r \in ConnRecs
  BY <1>1, SpduIn DEF ConnRecs
<1>3. conn' = [conn EXCEPT ![Handled.c] = r]
  BY DEF HandleDelete, Update
<1> HIDE DEF r
<1>4. ConnTypes'
  BY <1>1, <1>2, <1>3, ConnSet
<1>5. LiveConns \ {Handled.c} \subseteq LiveConns'
  BY <1>1, <1>3 DEF LiveConns, ConnTypes
<1>6. CASE /\ Write(Plain("delete_reply", Handled.c))
           /\ stk' = [stk EXCEPT !.pc = "closing", !.at = Handled.c]
  <2>1. Plain("delete_reply", Handled.c) \in Tpdus
    BY <1>1, TpduIn DEF TpduTags
  <2>2. WireTypes' /\ fails' = fails
    BY <1>0, <1>6, <2>1, WriteTypes
  <2>3. stk'.pc = "closing" /\ stk'.at = Handled.c /\ stk'.rest = stk.rest /\ stk'.spdu = stk.spdu
    BY <1>6 DEF LifeTypes
  <2>4. StkTypes'
    BY <1>1, <2>3 DEF StkTypes
  <2>5. fails' >= fails
    BY <2>2 DEF WireTypes
  <2> QED BY <1>4, <1>5, <2>2, <2>3, <2>4, <2>5 DEF PollKept
<1>7. CASE WriteFails /\ PollReturns
  <2>1. WireTypes' /\ fails' > 0 /\ fails' >= fails
    BY <1>0, <1>7, WriteTypes
  <2> QED BY <1>4, <1>7, <2>1, ReturnTypes DEF PollKept
<1> QED BY <1>6, <1>7 DEF HandleDelete

LEMMA SbTypes ==
  ASSUME LifeTypes, LinkTypes, HandleSb
  PROVE  PollKept
<1> USE DEF LinkTypes
<1> HIDE DEF Tpdus, Messages
<1>0. stk.pc = "tpdu" /\ fromCam' = fromCam
  BY DEF HandleSb
<1>1. Handled.c \in Conns /\ Of \in ConnRecs /\ Of = conn[Handled.c]
  BY <1>0, HandledTypes
<1>2. ASSUME NEW w \in {"no", "yes"}, Update(Handled.c, [Of EXCEPT !.wait = w])
      PROVE  ConnTypes' /\ LiveConns \subseteq LiveConns'
  <2> DEFINE r == [Of EXCEPT !.wait = w]
  <2>1. r \in ConnRecs /\ r.st = Of.st
    BY <1>1 DEF ConnRecs
  <2>2. conn' = [conn EXCEPT ![Handled.c] = r]
    BY <1>2 DEF Update
  <2> HIDE DEF r
  <2> QED BY <1>1, <2>1, <2>2, ConnSet
<1>3. CASE /\ Write(Plain("rcv", Handled.c))
           /\ Update(Handled.c, [Of EXCEPT !.wait = "yes"])
           /\ Onward
  <2>1. Plain("rcv", Handled.c) \in Tpdus
    BY <1>1, TpduIn DEF TpduTags
  <2>2. WireTypes' /\ fails' >= fails
    BY <1>0, <1>3, <2>1, WriteTypes DEF WireTypes
  <2> QED BY <1>2, <1>3, <2>2, OnwardTypes DEF PollKept
<1>4. CASE WriteFails /\ PollReturns /\ UNCHANGED conn
  <2>1. WireTypes' /\ fails' >= fails
    BY <1>0, <1>4, WriteTypes
  <2>2. ConnTypes' /\ LiveConns' = LiveConns
    BY <1>4 DEF ConnTypes, LiveConns
  <2> QED BY <1>4, <2>1, <2>2, ReturnTypes DEF PollKept
<1>5. CASE /\ Update(Handled.c, [Of EXCEPT !.wait = "no"])
           /\ Onward
           /\ UNCHANGED <<toCam, fails>>
  <2>1. WireTypes' /\ fails' >= fails
    BY <1>0, <1>5 DEF WireTypes
  <2> QED BY <1>2, <1>5, <2>1, OnwardTypes DEF PollKept
<1> QED BY <1>3, <1>4, <1>5 DEF HandleSb

LEMMA LowestConn ==
  ASSUME NEW S \in SUBSET Conns, S # {}
  PROVE  Lowest(S) \in S
BY LowestIn, ConnsNat

LEMMA RequestTypes ==
  ASSUME LifeTypes, LinkTypes, HandleRequest
  PROVE  PollKept
<1> USE DEF LinkTypes
<1> HIDE DEF Tpdus, Messages
<1> DEFINE c      == Handled.c
           new    == Lowest(IdleConns)
           newTc  == Tpdu("new", c, Spdu("conn", new, "none"))
           create == Plain("create", new)
<1>0. stk.pc = "tpdu" /\ fromCam' = fromCam
  BY DEF HandleRequest, Now
<1>1. Handled.c \in Conns /\ Of \in ConnRecs /\ Of = conn[Handled.c]
  BY <1>0, HandledTypes
<1>2. ASSUME IdleConns # {}
      PROVE  new \in Conns /\ conn[new].st = "idle" /\ newTc \in Tpdus /\ create \in Tpdus
  <2>1. new \in Conns /\ conn[new].st = "idle"
    BY <1>2, LowestConn DEF IdleConns
  <2> HIDE DEF new
  <2>2. Spdu("conn", new, "none") \in Spdus
    BY <2>1, SpduIn, ConnsNat DEF SpduKinds, SpduArgs
  <2> QED BY <1>1, <2>1, <2>2, TpduIn DEF TpduTags
<1>3. CASE /\ Write(Plain("tc_error", c))
           /\ Update(c, [Of EXCEPT !.wait = "no"])
           /\ Onward
  <2> DEFINE r == [Of EXCEPT !.wait = "no"]
  <2>1. r \in ConnRecs /\ r.st = Of.st
    BY <1>1 DEF ConnRecs
  <2>2. conn' = [conn EXCEPT ![Handled.c] = r]
    BY <1>3 DEF Update
  <2> HIDE DEF r
  <2>3. ConnTypes' /\ LiveConns \subseteq LiveConns'
    BY <1>1, <2>1, <2>2, ConnSet
  <2>4. Plain("tc_error", c) \in Tpdus
    BY <1>1, TpduIn DEF TpduTags
  <2>5. WireTypes' /\ fails' >= fails
    BY <1>0, <1>3, <2>4, WriteTypes DEF WireTypes
  <2> QED BY <1>3, <2>3, <2>5, OnwardTypes DEF PollKept
<1>4. CASE /\ IdleConns # {}
           /\ toCam' = toCam \o <<newTc, create>>
           /\ conn' = [conn EXCEPT ![c].wait = "no", ![new].st = "creation",
                                   ![new].wait = "yes", ![new].chain = NoSpdu]
           /\ UNCHANGED fails
           /\ Onward
  <2>1. new \in Conns /\ conn[new].st = "idle" /\ newTc \in Tpdus /\ create \in Tpdus
    BY <1>2, <1>4
  <2> HIDE DEF new, newTc, create
  <2>2. <<newTc, create>> \in Seq(Tpdus)
    BY <2>1
  <2>3. WireTypes' /\ fails' >= fails
    BY <1>0, <1>4, <2>2 DEF WireTypes
  <2>4. ConnTypes' /\ LiveConns \subseteq LiveConns'
    <3>1. conn' = [d \in Conns |-> conn'[d]]
      BY <1>1, <1>4 DEF ConnTypes
    <3>2. ASSUME NEW d \in Conns
          PROVE  conn'[d] \in ConnRecs /\ (conn[d].st = "active" => conn'[d].st = "active")
      <4>1. conn[d] \in ConnRecs
        BY DEF ConnTypes
      <4>2. CASE d = new
        BY <1>1, <1>4, <2>1, <4>1, <4>2, SpduIn DEF ConnTypes, ConnRecs
      <4>3. CASE d # new
        BY <1>1, <1>4, <2>1, <4>1, <4>3 DEF ConnTypes, ConnRecs
      <4> QED BY <4>2, <4>3
    <3> QED BY <3>1, <3>2 DEF ConnTypes, LiveConns
  <2> QED BY <1>4, <2>3, <2>4, OnwardTypes DEF PollKept
<1>5. CASE WriteFails /\ UNCHANGED conn /\ PollReturns
  <2>1. WireTypes' /\ fails' >= fails
    BY <1>0, <1>5, WriteTypes
  <2>2. ConnTypes' /\ LiveConns' = LiveConns
    BY <1>5 DEF ConnTypes, LiveConns
  <2> QED BY <1>5, <2>1, <2>2, ReturnTypes DEF PollKept
<1>6. CASE /\ IdleConns # {} /\ fails' = fails + 1
           /\ toCam' = Append(toCam, newTc)
           /\ conn' = [conn EXCEPT ![c].wait = "no", ![new].chain = NoSpdu]
           /\ PollReturns
  <2>1. new \in Conns /\ newTc \in Tpdus
    BY <1>2, <1>6
  <2> HIDE DEF new, newTc, create
  <2>2. WireTypes' /\ fails' >= fails
    BY <1>0, <1>6, <2>1, SeqParts DEF WireTypes
  <2>3. ConnTypes' /\ LiveConns \subseteq LiveConns'
    BY <1>1, <1>6, <2>1, SpduIn DEF ConnTypes, ConnRecs, LiveConns
  <2> QED BY <1>6, <2>2, <2>3, ReturnTypes DEF PollKept
<1> QED BY <1>3, <1>4, <1>5, <1>6, Zenon DEF HandleRequest

LEMMA ServeTypes ==
  ASSUME LifeTypes, LinkTypes, Serve
  PROVE  PollKept
<1> USE DEF LinkTypes
<1> HIDE DEF Tpdus, Messages
<1>0. stk.pc = "conns" /\ fromCam' = fromCam
  BY DEF Serve, ServeSend, ServePoll, ServeLate, ServeNothing
<1>1. stk.at \in Conns /\ At \in ConnRecs /\ At = conn[stk.at]
  BY <1>0 DEF StkTypes, ConnTypes, At
<1>2. ASSUME NEW r \in ConnRecs, Update(stk.at, r),
             r.st = "active" \/ At.st # "active"
      PROVE  ConnTypes' /\ LiveConns \subseteq LiveConns'
  BY <1>1, <1>2, ConnSet DEF Update
<1>3. \A w \in {"no", "yes", "late"}, s \in {"idle", At.st}, q \in Seq(Tpdus) :
        /\ [At EXCEPT !.queue = q] \in ConnRecs
        /\ [At EXCEPT !.queue = q, !.wait = w] \in ConnRecs
        /\ [At EXCEPT !.wait = w] \in ConnRecs
        /\ [At EXCEPT !.st = s, !.wait = w] \in ConnRecs
        /\ [At EXCEPT !.queue = q].st = At.st
        /\ [At EXCEPT !.queue = q, !.wait = w].st = At.st
        /\ [At EXCEPT !.wait = w].st = At.st
  BY <1>1 DEF ConnRecs
<1>4. NextConn \/ PollReturns => StkTypes' /\ stk'.pc \in {"conns", "top"}
  BY <1>0, NextConnTypes, ReturnTypes
<1>5. CASE ServeSend
  <2>1. Head(At.queue) \in Tpdus /\ Tail(At.queue) \in Seq(Tpdus)
    BY <1>1, <1>5, SeqParts DEF ServeSend, MaySend, ConnRecs
  <2>2. WireTypes' /\ fails' >= fails
    BY <1>0, <1>5, <2>1, WriteTypes DEF ServeSend, WireTypes
  <2>3. ConnTypes' /\ LiveConns \subseteq LiveConns'
    BY <1>2, <1>3, <1>5, <2>1 DEF ServeSend
  <2> QED BY <1>4, <1>5, <2>2, <2>3 DEF ServeSend, PollKept
<1>6. CASE ServePoll
  <2>1. Plain("last", stk.at) \in Tpdus
    BY <1>1, TpduIn DEF TpduTags
  <2>2. WireTypes' /\ fails' >= fails
    BY <1>0, <1>6, <2>1, WriteTypes DEF ServePoll, WireTypes
  <2>3. <<>> \in Seq(Tpdus)
    BY SeqParts
  <2>4. ConnTypes' /\ LiveConns \subseteq LiveConns'
    BY <1>2, <1>3, <1>6, <2>3 DEF ServePoll
  <2> QED BY <1>4, <1>6, <2>2, <2>4 DEF ServePoll, PollKept
<1>7. CASE ServeLate
  <2>1. WireTypes' /\ fails' >= fails
    BY <1>0, <1>7 DEF ServeLate, WireTypes
  <2>2. <<>> \in Seq(Tpdus)
    BY SeqParts
  <2>3. ConnTypes' /\ LiveConns \subseteq LiveConns'
    BY <1>2, <1>3, <1>7, <2>2 DEF ServeLate
  <2> QED BY <1>4, <1>7, <2>1, <2>3 DEF ServeLate, PollKept
<1>8. CASE ServeNothing
  <2>1. WireTypes' /\ fails' >= fails /\ ConnTypes' /\ LiveConns' = LiveConns
    BY <1>0, <1>8 DEF ServeNothing, WireTypes, ConnTypes, LiveConns
  <2> QED BY <1>4, <1>8, <2>1 DEF ServeNothing, PollKept
<1> QED BY <1>5, <1>6, <1>7, <1>8 DEF Serve

LEMMA PollTypes ==
  ASSUME LifeTypes, LinkTypes, Poll
  PROVE  PollKept
BY ReadTypes, PlainSteps, DeleteTypes, SbTypes, RequestTypes, ServeTypes DEF Poll, HandleTpdu

LEMMA NewTcTypes ==
  ASSUME LinkTypes, NewTc
  PROVE  ConnTypes' /\ LiveConns \subseteq LiveConns' /\ UNCHANGED <<toCam, fromCam, fails>>
<1> USE DEF LinkTypes
<1> HIDE DEF Tpdus
<1>1. CASE IdleConns = {}
  BY <1>1 DEF NewTc, ConnTypes, LiveConns
<1>2. CASE IdleConns # {}
  <2> DEFINE c == Lowest(IdleConns)
             r == [conn[c] EXCEPT !.st = "creation", !.chain = NoSpdu,
                                  !.queue = Append(@, Plain("create", c))]
  <2>1. c \in Conns /\ conn[c].st = "idle"
    BY <1>2, LowestConn DEF IdleConns
  <2>2. conn' = [conn EXCEPT ![c] = r]
    BY <1>2 DEF NewTc, Update
  <2> HIDE DEF c
  <2>3. Append(conn[c].queue, Plain("create", c)) \in Seq(Tpdus)
    BY <2>1, TpduIn, SeqParts DEF ConnTypes, ConnRecs, TpduTags
  <2>4. r \in ConnRecs
    BY <2>1, <2>3, SpduIn DEF ConnTypes, ConnRecs
  <2> HIDE DEF r
  <2>5. ConnTypes' /\ LiveConns \subseteq LiveConns'
    BY <2>1, <2>2, <2>4, ConnSet
  <2> QED BY <2>5 DEF NewTc
<1> QED BY <1>1, <1>2

LEMMA SendTypes ==
  ASSUME ConnTypes, NEW c \in Conns, NEW s \in Spdus, SendData(c, s)
  PROVE  ConnTypes' /\ LiveConns \subseteq LiveConns'
<1> HIDE DEF Tpdus
<1>1. CASE ~Accepts(c)
  BY <1>1 DEF SendData, ConnTypes, LiveConns
<1>2. CASE Accepts(c)
  <2> DEFINE r == [conn[c] EXCEPT !.queue = Append(@, Tpdu("last", c, s))]
  <2>1. Append(conn[c].queue, Tpdu("last", c, s)) \in Seq(Tpdus)
    BY TpduIn, SeqParts DEF ConnTypes, ConnRecs, TpduTags
  <2>2. r \in ConnRecs /\ r.st = "active"
    BY <1>2, <2>1 DEF Accepts, ConnTypes, ConnRecs
  <2>3. conn' = [conn EXCEPT ![c] = r]
    BY <1>2 DEF SendData, Update
  <2> HIDE DEF r
  <2> QED BY <2>2, <2>3, ConnSet
<1> QED BY <1>1, <1>2

-----------------------------------------------------------------------------
(* The session layer and its users *)

\* The answers of a callback.
LEMMA CallbackSends ==
  ASSUME CiInv, LinkTypes, SpduStep
  PROVE  /\ ConnTypes' /\ LiveConns \subseteq LiveConns'
         /\ WireTypes' /\ UNCHANGED linkVars
<1> USE DEF LinkTypes
<1> HIDE DEF Tpdus, Messages
<1>1. ASSUME UNCHANGED conn PROVE ConnTypes' /\ LiveConns \subseteq LiveConns'
  BY <1>1 DEF ConnTypes, LiveConns
<1>2. stk.pc = "spdu" => stk.at \in Conns
  BY DEF StkTypes
<1>3. /\ job.n \in Int /\ Spdu1.n \in Int /\ Spdu1.arg \in SpduArgs /\ stk.pc \in {"spdu", "closing"}
      /\ caNumber \in Sessions => caNumber \in Int
  BY SpduIn, SpduStk, SessionsInt DEF StkTypes, UserTypes, Spdu1
<1>4. CASE OpenRes
  <2>1. Spdu(IF job.ok THEN "open_ok" ELSE "open_refused", job.n, Spdu1.arg) \in Spdus
    BY <1>3, SpduIn DEF SpduKinds
  <2> QED BY <1>2, <1>4, <2>1, SendTypes DEF OpenRes, InSpdu, Reply, WireTypes, linkVars
<1>5. CASE OpenCallback
  <2>1. Spdu("apdu", job.n, "rm_enq") \in Spdus /\ Spdu("apdu", job.n, "ca_info_enq") \in Spdus
    BY <1>3, SpduIn DEF SpduKinds, SpduArgs
  <2> QED BY <1>2, <1>5, <2>1, SendTypes DEF OpenCallback, InSpdu, Reply, WireTypes, linkVars
<1>6. CASE CloseRes
  <2>1. Spdu(IF job.ok THEN "close_ok" ELSE "close_err", job.n, "none") \in Spdus
    BY <1>3, SpduIn DEF SpduKinds, SpduArgs
  <2> QED BY <1>2, <1>6, <2>1, SendTypes DEF CloseRes, InSpdu, Reply, WireTypes, linkVars
<1>7. CASE Package
  <2>1. Spdu1.arg \in DOMAIN RmAnswer
    BY <1>7 DEF Package, Understood
  <2>2. RmAnswer[Spdu1.arg] \in SpduArgs
    BY <2>1 DEF RmAnswer, SpduArgs
  <2>3. Spdu("apdu", Spdu1.n, RmAnswer[Spdu1.arg]) \in Spdus
    BY <1>3, <2>2, SpduIn DEF SpduKinds
  <2> QED BY <1>2, <1>7, <2>3, SendTypes DEF Package, InSpdu, Reply, WireTypes, linkVars
<1>8. CASE CaSync
  <2>1. CASE Open(caNumber)
    <3>1. caNumber \in Sessions /\ session[caNumber].conn \in Conns
      BY <2>1 DEF Open, UserTypes
    <3>2. Spdu("apdu", caNumber, "ca_pmt") \in Spdus
      BY <1>3, <3>1, SpduIn DEF SpduKinds, SpduArgs
    <3> QED BY <1>8, <2>1, <3>1, <3>2, SendTypes DEF CaSync, Reply, WireTypes, linkVars
  <2>2. CASE ~Open(caNumber)
    BY <1>1, <1>8, <2>2 DEF CaSync, WireTypes, linkVars
  <2> QED BY <2>1, <2>2
<1>9. CASE UNCHANGED <<conn, linkVars>>
  BY <1>1, <1>9 DEF WireTypes, linkVars
<1>10. OpenRequest \/ CloseRequest \/ CaInfo \/ Opened \/ OpenNumber \/ CloseCallback
       \/ ConnectionClose \/ Ignore => UNCHANGED <<conn, linkVars>>
  BY Zenon DEF OpenRequest, CloseRequest, CaInfo, Opened, OpenNumber, CloseCallback,
     ConnectionClose, Ignore, transportVars, linkVars
<1> QED BY <1>4, <1>5, <1>6, <1>7, <1>8, <1>9, <1>10 DEF SpduStep

LEMMA CallbackStk ==
  ASSUME CiInv, LinkTypes, SpduStep
  PROVE  /\ StkTypes'
         /\ \/ UNCHANGED stk
            \/ stk'.pc \in {"tpdu", "conns"} /\ Onward
<1>1. UNCHANGED stk \/ Onward
  BY CloseCallbackStk DEF SpduStep, OpenRequest, OpenRes, Opened, OpenCallback, OpenNumber,
         CloseRequest, CloseRes, ConnectionClose, Ignore, Package, CaInfo, CaSync,
         CallbackEnds, transportVars
<1>2. CASE UNCHANGED stk
  BY <1>2 DEF LinkTypes, StkTypes
<1>3. CASE Onward
  BY <1>3, OnwardTypes DEF CiInv, LinkTypes
<1> QED BY <1>1, <1>2, <1>3

\* Which sessions a callback opens or closes, and where the job goes.
LEMMA CallbackUsers ==
  ASSUME CiInv, LinkTypes, SpduStep
  PROVE  /\ UserTypes'
         /\ \A m \in Sessions : session'[m].st # "idle" =>
              /\ \/ session[m].st # "idle" /\ session'[m].conn = session[m].conn
                 \/ stk.pc = "spdu" /\ session'[m].conn = stk.at
              /\ stk.pc = "closing" => stk' = stk \/ session[m].conn # stk.at
<1> USE DEF LinkTypes, UserTypes
<1>1. ts' = ts
  BY Zenon DEF SpduStep, OpenRequest, OpenRes, Opened, OpenCallback, OpenNumber, CloseRequest,
         CloseRes, CloseCallback, ConnectionClose, Ignore, Package, CaInfo, CaSync, tsVars
<1>2. stk.pc = "spdu" => stk.at \in Conns
  BY DEF StkTypes
<1>3. Sessions \subseteq Int /\ Spdu1.n \in Int
  BY SpduIn, SessionsInt DEF StkTypes, Spdu1
<1>4. CASE OpenRequest
  <2>1. stk.pc = "spdu"
    BY <1>4 DEF OpenRequest, InSpdu
  <2>2. CASE Spdu1.arg \in Resources /\ FreeSessions # {}
    <3> DEFINE n == Lowest(FreeSessions)
               s == [st |-> "creation", res |-> Spdu1.arg, conn |-> stk.at,
                     gen |-> session[n].gen + 1]
    <3>1. n \in Sessions
      BY <2>2, LowestSession DEF FreeSessions
    <3>2. session' = [session EXCEPT ![n] = s] /\ job'.n = n
      BY <1>4, <2>2 DEF OpenRequest
    <3>3. s.conn = stk.at
      OBVIOUS
    <3> HIDE DEF n, s
    <3>4. session'[n] = s /\ \A m \in Sessions \ {n} : session'[m] = session[m]
      BY <3>1, <3>2, OneSession
    <3> QED BY <1>1, <1>2, <1>3, <2>1, <3>1, <3>2, <3>3, <3>4
  <2>3. CASE ~(Spdu1.arg \in Resources /\ FreeSessions # {})
    <3>1. job'.n = 0 /\ session' = session
      BY <1>4, <2>3 DEF OpenRequest
    <3> QED BY <1>1, <2>1, <3>1
  <2> QED BY <2>2, <2>3
<1>5. ASSUME NEW n \in Sessions, NEW st \in {"idle", "active"},
             st = "active" => session[n].st # "idle",
             session' = [session EXCEPT ![n].st = st], job'.n \in Int,
             stk.pc = "spdu" \/ stk' = stk
      PROVE  /\ UserTypes'
             /\ \A m \in Sessions : session'[m].st # "idle" =>
                  /\ session[m].st # "idle" /\ session'[m].conn = session[m].conn
                  /\ stk.pc = "closing" => stk' = stk
  <2>1. /\ \A m \in Sessions \ {n} : session'[m] = session[m]
        /\ session'[n].st = st
    BY <1>5, StateChange
  <2>2. session'[n].conn = session[n].conn
    BY <1>5 DEF CiInv, SessionTypes
  <2> QED BY <1>1, <1>5, <2>1, <2>2
<1>6. CASE Opened
  <2>1. /\ job.n \in Sessions /\ session[job.n].st = "creation" /\ stk.pc = "spdu"
        /\ session' = [session EXCEPT ![job.n].st = IF job.ok THEN "active" ELSE "idle"]
    BY <1>6 DEF Opened, InSpdu, CiInv, JobInv
  <2>2. job'.n \in {job.n, 0}
    <3>1. CASE job.ok
      BY <1>6, <3>1, JobMove DEF Opened, ToJob, JobPcs
    <3>2. CASE ~job.ok
      BY <1>6, <3>2 DEF Opened, CallbackEnds, NoJob
    <3> QED BY <3>1, <3>2
  <2>3. job'.n \in Int
    BY <2>2
  <2>4. CASE job.ok
    BY <1>5, <2>1, <2>3, <2>4
  <2>5. CASE ~job.ok
    BY <1>5, <2>1, <2>3, <2>5
  <2> QED BY <2>4, <2>5
<1>7. CASE CloseRequest
  <2>1. stk.pc = "spdu" /\ job'.n = Spdu1.n
    BY <1>7 DEF CloseRequest, InSpdu
  <2>2. CASE Closable(Spdu1.n)
    BY <1>3, <1>5, <1>7, <2>1, <2>2 DEF CloseRequest, Closable
  <2>3. CASE ~Closable(Spdu1.n)
    <3>1. session' = session
      BY <1>7, <2>3 DEF CloseRequest
    <3> QED BY <1>1, <1>3, <2>1, <3>1
  <2> QED BY <2>2, <2>3
<1>8. CASE ConnectionClose
  <2>1. stk.pc = "closing"
    BY <1>8 DEF ConnectionClose
  <2>2. CASE OnConn(stk.at) = {}
    <3>1. session' = session /\ job' = job /\ \A m \in Sessions : session[m].st # "idle" => session[m].conn # stk.at
      BY <1>8, <2>2 DEF ConnectionClose, OnConn, InUse
    <3> QED BY <1>1, <2>1, <3>1
  <2>3. CASE OnConn(stk.at) # {}
    <3>1. Lowest(OnConn(stk.at)) \in Sessions
      BY <2>3, LowestSession DEF OnConn
    <3>2. session' = [session EXCEPT ![Lowest(OnConn(stk.at))].st = "idle"] /\ stk' = stk
          /\ job'.n = Lowest(OnConn(stk.at))
      BY <1>8, <2>3 DEF ConnectionClose
    <3>3. job'.n \in Int
      BY <1>3, <3>1, <3>2
    <3> QED BY <1>5, <2>1, <3>1, <3>2, <3>3
  <2> QED BY <2>2, <2>3
<1>9. CASE \/ OpenRes \/ OpenCallback \/ OpenNumber \/ CloseRes \/ CloseCallback
           \/ Ignore \/ Package \/ CaInfo \/ CaSync
  <2>0. session' = session
    BY <1>9 DEF OpenRes, OpenCallback, OpenNumber, CloseRes, CloseCallback, Ignore, Package,
                CaInfo, CaSync
  <2>1. session' = session /\ (stk.pc = "spdu" \/ stk' = stk)
    BY <1>9, <2>0, CloseCallbackStk DEF OpenRes, OpenCallback, OpenNumber, CloseRes, Ignore,
                Package, CaInfo, CaSync, InSpdu
  <2>2. \/ job' = NoJob
        \/ \E pc, ok : job' = [job EXCEPT !.pc = pc, !.ok = ok]
        \/ \E pc : job' = [job EXCEPT !.pc = pc]
    BY <1>9, Zenon DEF OpenRes, OpenCallback, OpenNumber, CloseRes, CloseCallback, Ignore, Package,
                CaInfo, CaSync, CallbackEnds, CloseCallbackEnds, ToJob
  <2>3. ASSUME NEW pc, job' = [job EXCEPT !.pc = pc] PROVE job'.n \in Int
    BY <2>3 DEF CiInv, SessionTypes
  <2>4. ASSUME NEW pc, NEW ok, job' = [job EXCEPT !.pc = pc, !.ok = ok] PROVE job'.n \in Int
    BY <2>4 DEF CiInv, SessionTypes
  <2>5. job'.n \in Int
    <3>1. job' = NoJob => job'.n \in Int
      BY DEF NoJob
    <3> QED BY <2>2, <2>3, <2>4, <3>1, Zenon
  <2> QED BY <1>1, <2>1, <2>5
<1> QED BY <1>4, <1>6, <1>7, <1>8, <1>9 DEF SpduStep

LEMMA CallbackLayers ==
  ASSUME CiInv, LayerInv, SpduStep, cam' = cam
  PROVE  LinkTypes' /\ LiveInv'
<1> USE DEF LayerInv
<1>1. LinkTypes'
  BY CallbackSends, CallbackStk, CallbackUsers DEF LinkTypes, CamTypes
<1>2. LiveInv'
  <2>1. LiveConns \subseteq LiveConns' /\ fails' = fails
    BY CallbackSends DEF linkVars
  <2>2. stk'.pc = "spdu" => stk' = stk
    BY CallbackStk
  <2>3. ASSUME NEW m \in Sessions, session'[m].st # "idle"
        PROVE  \/ session'[m].conn \in LiveConns'
               \/ stk'.pc = "closing" /\ stk'.at = session'[m].conn
               \/ fails' > 0
    BY <2>1, <2>3, CallbackUsers DEF LiveInv
  <2> QED BY <2>1, <2>2, <2>3 DEF LiveInv
<1> QED BY <1>1, <1>2

LEMMA TsLayers ==
  ASSUME CiInv, LayerInv, TsLock \/ TsStep, cam' = cam
  PROVE  LinkTypes' /\ LiveInv'
<1> USE DEF LayerInv, LinkTypes
<1> HIDE DEF Tpdus, Messages
<1>1. UNCHANGED <<session, job, stk, toCam, fromCam, fails>>
  BY DEF TsLock, TsStep, TsRead, TsCheck, TsQueue, transportVars, linkVars
<1>2. ConnTypes' /\ LiveConns \subseteq LiveConns'
  <2>1. CASE TsQueue
    <3>1. ts.c \in Conns /\ ts.n \in Int
      BY <2>1 DEF TsQueue, UserTypes, CiInv, SessionTypes
    <3>2. Spdu("apdu", ts.n, "ca_pmt") \in Spdus
      BY <3>1, SpduIn DEF SpduKinds, SpduArgs
    <3> QED BY <2>1, <3>1, <3>2, SendTypes DEF TsQueue
  <2>2. CASE UNCHANGED conn
    BY <2>2 DEF ConnTypes, LiveConns
  <2>3. TsLock \/ TsRead \/ TsCheck => UNCHANGED conn
    BY DEF TsLock, TsRead, TsCheck, transportVars
  <2> QED BY <2>1, <2>2, <2>3 DEF TsStep
<1>3. ts'.pc = "queue" => ts'.c \in Conns
  <2>1. CASE TsCheck
    <3>1. CASE Open(ts.n)
      <4>1. ts' = [ts EXCEPT !.pc = "queue", !.c = session[ts.n].conn]
        BY <2>1, <3>1 DEF TsCheck
      <4>2. session[ts.n].conn \in Conns
        BY <3>1 DEF Open, UserTypes
      <4> QED BY <4>1, <4>2 DEF CiInv, SessionTypes
    <3>2. CASE ~Open(ts.n)
      BY <2>1, <3>2 DEF TsCheck, TsEnds, NoTs
    <3> QED BY <3>1, <3>2
  <2>2. CASE TsLock \/ TsRead
    BY <2>2 DEF TsLock, TsRead, CiInv, SessionTypes
  <2>3. CASE TsQueue
    BY <2>3 DEF TsQueue, TsEnds, NoTs
  <2> QED BY <2>1, <2>2, <2>3 DEF TsStep
<1>4. LinkTypes'
  BY <1>1, <1>2, <1>3 DEF WireTypes, StkTypes, UserTypes, CamTypes
<1>5. LiveInv'
  BY <1>1, <1>2 DEF LiveInv
<1> QED BY <1>4, <1>5

LEMMA PollLayers ==
  ASSUME CiInv, LayerInv, Poll, UNCHANGED <<sessionVars, lifeVars, cam>>
  PROVE  LinkTypes' /\ LiveInv'
<1> USE DEF LayerInv
<1>1. PollKept /\ stk.pc \in {"poll", "tpdu", "conns"}
  BY PollTypes, PollStk DEF CiInv
<1>2. LinkTypes'
  BY <1>1 DEF LinkTypes, PollKept, UserTypes, CamTypes, sessionVars
<1>3. session' = session /\ fails \in Nat
  BY DEF sessionVars, LinkTypes, WireTypes
<1>4. ASSUME NEW m \in Sessions, session'[m].st # "idle"
      PROVE  \/ session'[m].conn \in LiveConns'
             \/ stk'.pc = "closing" /\ stk'.at = session'[m].conn
             \/ fails' > 0
  <2>1. session[m].conn \in LiveConns \/ fails > 0
    BY <1>1, <1>3, <1>4 DEF LiveInv
  <2>2. fails > 0 => fails' > 0
    BY <1>1, <1>2, <1>3 DEF PollKept, LinkTypes, WireTypes
  <2> QED BY <1>1, <1>3, <2>1, <2>2 DEF PollKept
<1>5. LiveInv'
  BY <1>1, <1>4 DEF LiveInv, PollKept
<1> QED BY <1>2, <1>5

-----------------------------------------------------------------------------
(* The CAM *)

LEMMA AnswerTypes ==
  ASSUME fromCam \in Seq(Messages), NEW msgs \in Seq(Tpdus), Answer(msgs)
  PROVE  fromCam' \in Seq(Messages)
<1> HIDE DEF Tpdus
<1>1. CASE msgs = <<>>
  BY <1>1 DEF Answer
<1>2. CASE msgs # <<>>
  <2>1. msgs \in Messages
    BY <1>2 DEF Messages
  <2> HIDE DEF Messages
  <2> QED BY <1>2, <2>1, SeqParts DEF Answer
<1> QED BY <1>1, <1>2

LEMMA SaidTypes ==
  ASSUME NEW p \in Spdus
  PROVE  Said(p) \in Seq(Spdus)
<1>1. CASE p.k = "apdu" /\ p.arg \in DOMAIN CamReply
  <2>1. CamReply[p.arg] \in SpduArgs
    BY <1>1 DEF CamReply, SpduArgs
  <2>2. Spdu("apdu", p.n, CamReply[p.arg]) \in Spdus
    BY <2>1, SpduIn DEF SpduKinds
  <2> HIDE DEF Spdus
  <2> QED BY <1>1, <2>2 DEF Said
<1>2. CASE ~(p.k = "apdu" /\ p.arg \in DOMAIN CamReply)
  BY <1>2 DEF Said
<1> QED BY <1>1, <1>2

\* The CAM's record after a step: what it says and which connections it has.
LEMMA CamSet ==
  ASSUME CamTypes, NEW open \in SUBSET Conns, NEW out \in [Conns -> Seq(Spdus)],
         NEW acts, NEW sess,
         \/ cam' = [cam EXCEPT !.open = open, !.sess = sess, !.out = out]
         \/ cam' = [cam EXCEPT !.out = out, !.sess = sess]
         \/ cam' = [cam EXCEPT !.out = out, !.open = open, !.sess = sess]
         \/ cam' = [cam EXCEPT !.out = out, !.acts = acts]
         \/ cam' = [cam EXCEPT !.acts = acts, !.out = out, !.sess = sess]
         \/ cam' = [cam EXCEPT !.out = out]
  PROVE  CamTypes'
<1> HIDE DEF Spdus
<1> QED BY DEF CamTypes

LEMMA CamHearsTypes ==
  ASSUME LinkTypes, CamHears
  PROVE  WireTypes' /\ CamTypes'
<1> USE DEF LinkTypes
<1> HIDE DEF Tpdus, Spdus, Messages
<1> DEFINE t == Head(toCam)
<1>1. t \in Tpdus /\ Tail(toCam) \in Seq(Tpdus)
  BY SeqParts DEF CamHears, WireTypes
<1>2. t.c \in Conns /\ t.p \in Spdus
  BY <1>1, TpduIn
<1>3. cam.out \in [Conns -> Seq(Spdus)] /\ cam.open \in SUBSET Conns
  BY DEF CamTypes
<1>4. toCam' = Tail(toCam) /\ fails' = fails
  BY DEF CamHears
<1>5. \A tag \in TpduTags : Plain(tag, t.c) \in Tpdus
  BY <1>2, TpduIn
<1>6. \A out : Status(t.c, out) \in Tpdus
  BY <1>5 DEF Status, TpduTags
<1>7. <<>> \in Seq(Spdus) /\ fromCam \in Seq(Messages)
  BY DEF WireTypes
<1>8. ASSUME CamCreate(t) PROVE fromCam' \in Seq(Messages) /\ CamTypes'
  <2>1. Plain("create_reply", t.c) \in Tpdus /\ Plain("sb", t.c) \in Tpdus
    BY <1>5 DEF TpduTags
  <2>2. <<Plain("create_reply", t.c), Plain("sb", t.c)>> \in Seq(Tpdus)
    BY <2>1
  <2>3. fromCam' \in Seq(Messages)
    BY <1>7, <1>8, <2>2, AnswerTypes DEF CamCreate
  <2> DEFINE out == [cam.out EXCEPT ![t.c] = <<>>]
             open == cam.open \cup {t.c}
             sess == Without(t.c)
  <2>4. out \in [Conns -> Seq(Spdus)] /\ open \in SUBSET Conns
    BY <1>2, <1>3, <1>7
  <2>5. cam' = [cam EXCEPT !.open = open, !.sess = sess, !.out = out]
    BY <1>8 DEF CamCreate
  <2> HIDE DEF out, open, sess
  <2> QED BY <2>3, <2>4, <2>5, CamSet
<1>9. ASSUME CamLast(t) PROVE fromCam' \in Seq(Messages) /\ CamTypes'
  <2> DEFINE out == [cam.out EXCEPT ![t.c] = @ \o Said(t.p)]
             sess == CamSessions(t.c, t.p)
  <2>1. cam.out[t.c] \o Said(t.p) \in Seq(Spdus)
    BY <1>2, <1>3, SaidTypes
  <2>2. out \in [Conns -> Seq(Spdus)]
    BY <1>2, <1>3, <2>1
  <2>3. cam' = [cam EXCEPT !.out = out, !.sess = sess]
    BY <1>9 DEF CamLast
  <2>4. Answer(<<Status(t.c, out)>>)
    BY <1>9 DEF CamLast
  <2>5. <<Status(t.c, out)>> \in Seq(Tpdus)
    BY <1>6
  <2> HIDE DEF out, sess
  <2> QED BY <1>7, <2>2, <2>3, <2>4, <2>5, CamSet, AnswerTypes
<1>10. ASSUME CamRcv(t) PROVE fromCam' \in Seq(Messages) /\ CamTypes'
  <2> DEFINE said == Head(cam.out[t.c])
             rest == [cam.out EXCEPT ![t.c] = Tail(@)]
             part == [cam.out EXCEPT ![t.c] = <<Spdu("part", said.n, said.arg)>> \o Tail(@)]
             none == [rest EXCEPT ![t.c] = <<>>]
             sess == Without(t.c)
  <2>1. said \in Spdus /\ Tail(cam.out[t.c]) \in Seq(Spdus)
    BY <1>2, <1>3, <1>10, SeqParts DEF CamRcv
  <2>2. Spdu("part", said.n, said.arg) \in Spdus
    BY <2>1, SpduIn DEF SpduKinds
  <2>3. <<Spdu("part", said.n, said.arg)>> \o Tail(cam.out[t.c]) \in Seq(Spdus)
    BY <2>1, <2>2
  <2>4. rest \in [Conns -> Seq(Spdus)]
    BY <1>2, <1>3, <2>1
  <2>5. part \in [Conns -> Seq(Spdus)]
    BY <1>2, <1>3, <2>3
  <2>6. none \in [Conns -> Seq(Spdus)]
    BY <1>2, <1>7, <2>4
  <2>7. /\ <<Plain("request", t.c), Status(t.c, rest)>> \in Seq(Tpdus)
        /\ <<Plain("delete", t.c)>> \in Seq(Tpdus)
        /\ <<Tpdu("last", t.c, said), Status(t.c, rest)>> \in Seq(Tpdus)
        /\ <<Tpdu("more", t.c, said), Status(t.c, part)>> \in Seq(Tpdus)
    <3>1. Tpdu("last", t.c, said) \in Tpdus /\ Tpdu("more", t.c, said) \in Tpdus
      BY <1>2, <2>1, TpduIn DEF TpduTags
    <3>2. Plain("request", t.c) \in Tpdus /\ Plain("delete", t.c) \in Tpdus
      BY <1>5 DEF TpduTags
    <3>3. Status(t.c, rest) \in Tpdus /\ Status(t.c, part) \in Tpdus
      BY <1>6
    <3>4. \A x, y \in Tpdus : <<x>> \in Seq(Tpdus) /\ <<x, y>> \in Seq(Tpdus)
      OBVIOUS
    <3> QED BY <3>1, <3>2, <3>3, <3>4, Zenon
  <2>8. CASE /\ cam' = [cam EXCEPT !.out = rest]
             /\ \/ Answer(<<Plain("request", t.c), Status(t.c, rest)>>)
                \/ Answer(<<Tpdu("last", t.c, said), Status(t.c, rest)>>)
    <3> HIDE DEF said, rest, part, none
    <3> QED BY <1>3, <1>7, <2>4, <2>7, <2>8, CamSet, AnswerTypes
  <2>9. CASE /\ cam' = [cam EXCEPT !.out = none, !.open = @ \ {t.c}, !.sess = sess]
             /\ Answer(<<Plain("delete", t.c)>>)
    <3>1. cam.open \ {t.c} \in SUBSET Conns
      BY <1>3
    <3> HIDE DEF said, rest, part, none, sess
    <3> QED BY <1>7, <2>6, <2>7, <2>9, <3>1, CamSet, AnswerTypes
  <2>10. CASE /\ cam' = [cam EXCEPT !.out = part, !.acts = @ + 1]
              /\ Answer(<<Tpdu("more", t.c, said), Status(t.c, part)>>)
    <3> HIDE DEF said, rest, part, none
    <3> QED BY <1>3, <1>7, <2>5, <2>7, <2>10, CamSet, AnswerTypes
  <2> QED BY <1>10, <2>8, <2>9, <2>10, Zenon DEF CamRcv
<1>11. ASSUME CamSilent(t) \/ CamEmpty(t) PROVE fromCam' \in Seq(Messages) /\ CamTypes'
  <2>1. Plain("sb", t.c) \in Tpdus
    BY <1>5 DEF TpduTags
  <2>2. <<Plain("sb", t.c)>> \in Seq(Tpdus)
    BY <2>1
  <2> QED BY <1>7, <1>11, <2>2, AnswerTypes DEF CamSilent, CamEmpty, CamTypes
<1>12. fromCam' \in Seq(Messages) /\ CamTypes'
  BY <1>8, <1>9, <1>10, <1>11, Zenon DEF CamHears
<1> QED BY <1>1, <1>4, <1>12 DEF WireTypes

\* The CAM has something to say on connection c.
CamSays(c, s) ==
  cam' = [cam EXCEPT !.acts = @ + 1, !.out[c] = Append(@, s),
                     !.sess = IF s.k = "close_req"
                              THEN [@ EXCEPT ![s.n].res = "ending"] ELSE @]

LEMMA CamLayers ==
  ASSUME LayerInv, CamHears \/ CamMisses \/ CamActs
  PROVE  LinkTypes' /\ LiveInv'
<1> USE DEF LayerInv, LinkTypes
<1> HIDE DEF Tpdus, Spdus, Messages
<1>1. UNCHANGED <<conn, stk, sessionVars>>
  BY DEF CamHears, CamMisses, CamActs, notCam
<1>2. WireTypes' /\ CamTypes'
  <2>1. CASE CamHears
    BY <2>1, CamHearsTypes
  <2>2. CASE CamMisses
    <3>1. Tail(toCam) \in Seq(Tpdus)
      BY <2>2, SeqParts DEF CamMisses, WireTypes
    <3> QED BY <2>2, <3>1 DEF CamMisses, WireTypes, CamTypes
  <2>3. CASE CamActs
    <3>0. PICK c \in cam.open : \E s \in Acts(c) : CamSays(c, s)
      BY <2>3, Zenon DEF CamActs, CamSays
    <3>1. PICK s \in Acts(c) : CamSays(c, s)
      BY <3>0
    <3>2. s \in Spdus
      <4>1. 0 \in Int /\ Sessions \subseteq Int
        BY SessionsInt
      <4>2. \A r \in {"rm", "ca", "other"} : Spdu("open_req", 0, r) \in Spdus
        BY <4>1, SpduIn DEF SpduKinds, SpduArgs
      <4>3. \A n \in Sessions : /\ Spdu("close_req", n, "none") \in Spdus
                                /\ Spdu("apdu", n, "rm_changed") \in Spdus
        BY <4>1, SpduIn DEF SpduKinds, SpduArgs
      <4>4. Spdu("request", 0, "none") \in Spdus /\ Spdu("delete", 0, "none") \in Spdus
        BY <4>1, SpduIn DEF SpduKinds, SpduArgs
      <4>5. \/ \E r \in {"rm", "ca", "other"} : s = Spdu("open_req", 0, r)
            \/ \E n \in Sessions : s = Spdu("close_req", n, "none")
            \/ \E n \in Sessions : s = Spdu("apdu", n, "rm_changed")
            \/ s \in {Spdu("request", 0, "none"), Spdu("delete", 0, "none")}
        BY Zenon DEF Acts
      <4> QED BY <4>2, <4>3, <4>4, <4>5, Zenon
    <3>3. c \in Conns /\ cam.out \in [Conns -> Seq(Spdus)]
      BY DEF CamTypes
    <3>4. Append(cam.out[c], s) \in Seq(Spdus)
      BY <3>2, <3>3, SeqParts
    <3> DEFINE out == [cam.out EXCEPT ![c] = Append(@, s)]
    <3>5. out \in [Conns -> Seq(Spdus)]
      BY <3>3, <3>4
    <3> DEFINE sess == IF s.k = "close_req" THEN [cam.sess EXCEPT ![s.n].res = "ending"]
                       ELSE cam.sess
    <3>6. cam' = [cam EXCEPT !.acts = cam.acts + 1, !.out = out, !.sess = sess]
      BY <3>1 DEF CamSays
    <3> HIDE DEF out, sess
    <3>7. CamTypes'
      BY <3>5, <3>6 DEF CamTypes
    <3> QED BY <2>3, <3>7 DEF CamActs, WireTypes
  <2> QED BY <2>1, <2>2, <2>3
<1>3. LinkTypes'
  BY <1>1, <1>2 DEF ConnTypes, StkTypes, UserTypes, sessionVars
<1>4. fails \in Nat /\ fails' >= fails
  <2>1. fails \in Nat
    BY DEF WireTypes
  <2>2. CASE CamHears
    BY <2>1, <2>2 DEF CamHears
  <2>3. CASE CamMisses
    BY <2>1, <2>3 DEF CamMisses
  <2>4. CASE CamActs
    <3>1. UNCHANGED <<notCam, toCam, fromCam, fails>>
      BY <2>4, Zenon DEF CamActs
    <3> QED BY <2>1, <3>1
  <2> QED BY <2>2, <2>3, <2>4
<1>5. LiveInv'
  BY <1>1, <1>2, <1>4 DEF LiveInv, LiveConns, WireTypes, sessionVars
<1> QED BY <1>3, <1>5

-----------------------------------------------------------------------------

\* The mutex goes from free to a thread and back.
LEMMA MuxKept ==
  ASSUME CiInv, LayerInv, [Next]_vars
  PROVE  MuxOwner'
<1> USE DEF LayerInv, MuxOwner
<1>1. CASE UNCHANGED sessionVars
  BY <1>1 DEF sessionVars
<1>2. CASE TsLock \/ TsStep
  <2>1. job' = job
    BY <1>2 DEF TsLock, TsStep, TsRead, TsCheck, TsQueue
  <2>2. CASE TsLock
    BY <2>1, <2>2 DEF TsLock, CiInv, SessionTypes
  <2>3. CASE TsRead
    BY <2>1, <2>3 DEF TsRead, CiInv, SessionTypes
  <2>4. CASE TsCheck
    <3>1. \A c : [ts EXCEPT !.pc = "queue", !.c = c].pc = "queue"
      BY DEF CiInv, SessionTypes
    <3>2. CASE Open(ts.n)
      BY <2>1, <2>4, <3>1, <3>2 DEF TsCheck
    <3>3. CASE ~Open(ts.n)
      BY <2>1, <2>4, <3>3 DEF TsCheck, TsEnds, NoTs
    <3> QED BY <3>2, <3>3
  <2>5. CASE TsQueue
    BY <2>1, <2>5 DEF TsQueue, TsEnds, NoTs
  <2> QED BY <1>2, <2>2, <2>3, <2>4, <2>5 DEF TsStep
<1>3. CASE SpduStep
  <2>1. CASE CaInfo
    BY <2>1 DEF CaInfo, ToJob, CiInv, SessionTypes, tsVars
  <2>2. CASE CaSync
    BY <2>2 DEF CaSync, InSpdu, CallbackEnds, NoJob, tsVars
  <2>3. CASE ~CaInfo /\ ~CaSync
    <3>1. mux' = mux /\ ts' = ts
      BY <1>3, <2>3, Zenon DEF SpduStep, OpenRequest, OpenRes, Opened, OpenCallback, OpenNumber,
         CloseRequest, CloseRes, CloseCallback, ConnectionClose, Ignore, Package, tsVars
    <3>2. job.pc # "sync"
      BY <1>3, <2>3 DEF SpduStep, OpenRequest, OpenRes, Opened, OpenCallback, OpenNumber,
         CloseRequest, CloseRes, CloseCallback, ConnectionClose, Ignore, Package, InSpdu
    <3>3. /\ \A pc \in {"opened", "open_cb", "open_num", "close_cb"} :
               [job EXCEPT !.pc = pc].pc # "sync"
          /\ NoJob.pc # "sync"
      BY DEF CiInv, SessionTypes, NoJob
    <3>4. job'.pc # "sync"
      <4>1. CASE OpenRequest
        BY <4>1 DEF OpenRequest
      <4>2. CASE OpenRes
        <5> DEFINE ok == Accepts(stk.at)
        <5>1. job' = NoJob \/ job' = [job EXCEPT !.pc = "opened", !.ok = ok]
          BY <4>2, Zenon DEF OpenRes, CallbackEnds
        <5> HIDE DEF ok
        <5>2. [job EXCEPT !.pc = "opened", !.ok = ok].pc # "sync"
          BY DEF CiInv, SessionTypes
        <5> QED BY <3>3, <5>1, <5>2
      <4>3. CASE Opened
        <5>1. job' = NoJob \/ job' = [job EXCEPT !.pc = "open_cb"]
          BY <4>3, Zenon DEF Opened, CallbackEnds, ToJob
        <5> QED BY <3>3, <5>1
      <4>4. CASE OpenCallback
        <5>1. job' = NoJob \/ job' = [job EXCEPT !.pc = "open_num"]
          BY <4>4, Zenon DEF OpenCallback, CallbackEnds, ToJob
        <5> QED BY <3>3, <5>1
      <4>5. CASE CloseRequest
        BY <4>5 DEF CloseRequest
      <4>6. CASE CloseRes
        <5>1. job' = NoJob \/ job' = [job EXCEPT !.pc = "close_cb"]
          BY <4>6, Zenon DEF CloseRes, CallbackEnds, ToJob
        <5> QED BY <3>3, <5>1
      <4>7. CASE OpenNumber \/ CloseCallback \/ Ignore \/ Package
        BY <4>7, CloseCallbackStk DEF OpenNumber, Ignore, Package, CallbackEnds, NoJob
      <4>8. CASE ConnectionClose
        BY <3>2, <4>8 DEF ConnectionClose
      <4> QED BY <1>3, <2>3, <4>1, <4>2, <4>3, <4>4, <4>5, <4>6, <4>7, <4>8 DEF SpduStep
    <3>5. (mux = "stack" <=> FALSE) /\ (mux = "ts" <=> ts.pc # "idle")
      BY <3>2
    <3> QED BY <3>1, <3>4, <3>5
  <2> QED BY <2>1, <2>2, <2>3
<1>4. AppCi \/ AppClose \/ AppStep \/ WorkerStep \/ StackTop => UNCHANGED sessionVars
  BY DEF AppCi, AppClose, AppStep, AppJoinStack, AppJoinWorker, AppFree, WorkerStep,
     WorkerStart, WorkerPower, WorkerStatus, WorkerNextTry, WorkerCheck, WorkerSetup,
     WorkerCreate, WorkerTc, StackTop, notWorker
<1>5. CamHears \/ CamMisses \/ CamActs \/ UNCHANGED vars => UNCHANGED sessionVars
  BY DEF CamHears, CamMisses, CamActs, notCam, vars
<1>6. UNCHANGED <<sessionVars, lifeVars, cam>> => UNCHANGED sessionVars
  OBVIOUS
<1>7. StackStep => StackTop \/ SpduStep \/ UNCHANGED sessionVars
  BY <1>6 DEF StackStep
<1> QED BY <1>1, <1>2, <1>3, <1>4, <1>5, <1>7 DEF Next

\* The steps of the application, of the worker and of the loop of the stack thread.
LEMMA LifeLayers ==
  ASSUME CiInv, LayerInv, AppCi \/ AppClose \/ AppStep \/ WorkerStep \/ StackTop
  PROVE  LinkTypes' /\ LiveInv'
<1> USE DEF LayerInv, LinkTypes
<1>1. UNCHANGED <<toCam, fromCam, fails, sessionVars, cam>>
  BY DEF AppCi, AppClose, AppStep, AppJoinStack, AppJoinWorker, AppFree, WorkerStep,
     WorkerStart, WorkerPower, WorkerStatus, WorkerNextTry, WorkerCheck, WorkerSetup,
     WorkerCreate, WorkerTc, NewTc, StackTop, transportVars, linkVars, notWorker
<1>2. ConnTypes' /\ LiveConns \subseteq LiveConns'
  <2>1. CASE WorkerTc
    BY <2>1, NewTcTypes DEF WorkerTc
  <2>2. CASE UNCHANGED conn
    BY <2>2 DEF ConnTypes, LiveConns
  <2>3. UNCHANGED conn \/ WorkerTc
    BY DEF AppCi, AppClose, AppStep, AppJoinStack, AppJoinWorker, AppFree, WorkerStep,
       WorkerStart, WorkerPower, WorkerStatus, WorkerNextTry, WorkerCheck, WorkerSetup,
       WorkerCreate, StackTop, transportVars
  <2> QED BY <2>1, <2>2, <2>3
<1>3. /\ StkTypes'
      /\ UNCHANGED stk \/ (stk.pc \in {"none", "top"} /\ stk'.pc \in {"top", "poll", "exit"})
  <2>1. CASE (WorkerCreate \/ StackTop) /\ ~UNCHANGED stk
    <3>1. \E pc \in {"top", "poll", "exit"} : stk' = [NoStack EXCEPT !.pc = pc]
      BY <2>1 DEF WorkerCreate, StackTop
    <3>2. stk.pc \in {"none", "top"}
      BY <2>1 DEF WorkerCreate, StackTop, CiInv, LifeInv
    <3> QED BY <3>1, <3>2, SpduIn DEF NoStack, StkTypes
  <2>2. CASE UNCHANGED stk
    BY <2>2 DEF StkTypes
  <2>3. UNCHANGED stk \/ WorkerCreate \/ StackTop
    BY DEF AppCi, AppClose, AppStep, AppJoinStack, AppJoinWorker, AppFree, WorkerStep,
       WorkerStart, WorkerPower, WorkerStatus, WorkerNextTry, WorkerCheck, WorkerSetup,
       WorkerTc, transportVars
  <2> QED BY <2>1, <2>2, <2>3
<1>4. LinkTypes'
  BY <1>1, <1>2, <1>3 DEF WireTypes, UserTypes, CamTypes, sessionVars
<1>5. LiveInv'
  BY <1>1, <1>2, <1>3 DEF LiveInv, sessionVars
<1> QED BY <1>4, <1>5

LEMMA LayerKept ==
  ASSUME CiInv, LayerInv, [Next]_vars
  PROVE  LayerInv'
<1>1. MuxOwner'
  BY MuxKept
<1>2. CASE UNCHANGED vars
  <2>1. UNCHANGED <<conn, stk, toCam, fromCam, fails, sessionVars, cam>>
    BY <1>2 DEF vars, transportVars
  <2>2. LinkTypes'
    BY <2>1 DEF LayerInv, LinkTypes, ConnTypes, WireTypes, StkTypes, UserTypes, CamTypes,
                sessionVars
  <2>3. LiveInv'
    BY <2>1 DEF LayerInv, LiveInv, LiveConns, sessionVars
  <2> QED BY <1>1, <2>2, <2>3 DEF LayerInv
<1>3. CASE Next
  <2>1. LinkTypes' /\ LiveInv'
    BY <1>3, LifeLayers, PollLayers, CallbackLayers, TsLayers, CamLayers, Zenon
    DEF Next, StackStep
  <2> QED BY <1>1, <2>1 DEF LayerInv
<1> QED BY <1>2, <1>3

\* The layers of the stack hang together in every state: types, callbacks only for
\* live connections, sessions on live connections unless a reply was lost, and the
\* mutex with the thread that says so.
THEOREM LayersHold == Spec => []IInv
<1>1. CiInv /\ LayerInv /\ [Next]_vars => LayerInv'
  BY LayerKept
<1>2. CiInv /\ LayerInv => IInv
  <2> SUFFICES ASSUME CiInv, LayerInv PROVE IInv
      OBVIOUS
  <2>1. ASSUME NEW c \in Conns
        PROVE  /\ conn[c].st \in {"idle", "creation", "active"}
               /\ conn[c].wait \in {"no", "yes", "late"}
               /\ SomeSpdu(conn[c].chain)
    <3>1. conn[c] \in ConnRecs
      BY DEF LayerInv, LinkTypes, ConnTypes
    <3>2. /\ conn[c].st \in {"idle", "creation", "active"}
          /\ conn[c].wait \in {"no", "yes", "late"} /\ conn[c].chain \in Spdus
      BY <3>1 DEF ConnRecs
    <3> QED BY <3>2, SpduIn DEF SomeSpdu, SpduKinds
  <2>2. stk.pc \in StackPcs /\ handle \in BOOLEAN /\ (handle <=> stk.pc # "none")
    BY DEF CiInv, LifeTypes, LifeInv
  <2>3. (stk.pc = "none") = (~handle)
    BY <2>2
  <2> QED BY <2>1, <2>2, <2>3
          DEF IInv, CiInv, SessionTypes, JobInv, LayerInv, LiveInv, MuxOwner, StackPcs
<1> QED BY <1>1, <1>2, LayerInit, CiInvariant, PTL DEF Spec

=============================================================================
