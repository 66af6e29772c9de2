------------------------------- MODULE CiStack -------------------------------
(***************************************************************************)
(* The CI of libjokertv from joker_ci to joker_ci_close: the worker that   *)
(* powers the CAM and starts the EN 50221 stack (src/joker_ci.c), the      *)
(* stack thread with its transport and session layers (modules Transport   *)
(* and Session), the TS thread that sends CA PMTs, the application that    *)
(* closes the device, and a CAM.                                           *)
(***************************************************************************)
EXTENDS Session

CONSTANTS
  Tries,    \* power cycles of the CAM (10)
  Polls,    \* status reads per power cycle (70)
  MaxActs,  \* bound: what the CAM does unasked
  MaxEvents \* bound: that, failed transfers and late answers together

ASSUME CiAssumption == {Tries, Polls, MaxActs, MaxEvents} \subseteq Nat

VARIABLES
  app,      \* application: where it is in joker_ci and joker_ci_close
  worker,   \* joker_ci_worker: pc; try, polls: what is left; seen: in_buf[1]
  started,  \* joker->ci_threading is set
  stop,     \* shutdown flags: stop.worker, stop.stack
  handle,   \* jen->stackthread is set
  ci,       \* joker->joker_ci_opaque: "nil" or "set"
  cam       \* CAM: present, open connections, its sessions, what it has to say
            \* per connection, acts (history)

lifeVars == <<app, worker, started, stop, handle, ci>>
vars     == <<transportVars, sessionVars, lifeVars, cam>>

IdleWorker == [pc |-> "none", try |-> 0, polls |-> 0, seen |-> "never"]
NoSession  == [res |-> "none", conn |-> 0]
Reset      == [open |-> {}, sess |-> [n \in Sessions |-> NoSession],
               out |-> [c \in Conns |-> <<>>]]

Init ==
  /\ TransportInit /\ SessionInit
  /\ app = "open" /\ worker = IdleWorker /\ started = FALSE
  /\ stop = [worker |-> FALSE, stack |-> FALSE]
  /\ handle = FALSE /\ ci = "nil"
  /\ \E here \in BOOLEAN : cam = [here |-> here, acts |-> 0, open |-> {},
                                   sess |-> Reset.sess, out |-> Reset.out]

-----------------------------------------------------------------------------
(* joker_ci and joker_ci_close *)

\* pthread_create may fail: ci_threading stays.  A second call does nothing.
AppCi ==
  /\ app = "open"
  /\ app' = "running"
  /\ started' = TRUE
  /\ \/ worker' = [IdleWorker EXCEPT !.pc = "start", !.try = Tries]
     \/ UNCHANGED worker
  /\ UNCHANGED <<transportVars, sessionVars, stop, handle, ci, cam>>

AppClose ==
  /\ app \in {"open", "running"}
  /\ IF started THEN app' = "join_stack" /\ stop' = [stop EXCEPT !.stack = TRUE]
     ELSE app' = "closed" /\ UNCHANGED stop
  /\ UNCHANGED <<transportVars, sessionVars, worker, started, handle, ci, cam>>

\* pthread_join of a thread; of one that was never created it is undefined: it
\* fails at once, or the process crashes.
Joins(created, ended, then) ==
  \/ created /\ ended /\ app' = then
  \/ ~created /\ app' \in {then, "crashed"}

\* Mutant: the stack thread is not waited for.
AppJoinStackNot ==
  /\ app = "join_stack"
  /\ app' = "join_worker"
  /\ stop' = [stop EXCEPT !.worker = TRUE]
  /\ UNCHANGED <<transportVars, sessionVars, worker, started, handle, ci, cam>>

AppJoinStack ==
  /\ app = "join_stack"
  /\ Joins(handle, stk.pc = "exit", "join_worker")
  /\ stop' = [stop EXCEPT !.worker = TRUE]
  /\ UNCHANGED <<transportVars, sessionVars, worker, started, handle, ci, cam>>

AppJoinWorker ==
  /\ app = "join_worker"
  /\ Joins(worker.pc # "none", worker.pc = "done", "free")
  /\ UNCHANGED <<transportVars, sessionVars, worker, started, stop, handle, ci, cam>>

AppFree ==
  /\ app = "free"
  /\ app' = "closed" /\ ci' = "nil"
  /\ UNCHANGED <<transportVars, sessionVars, worker, started, stop, handle, cam>>

AppStep == AppJoinStack \/ AppJoinWorker \/ AppFree

-----------------------------------------------------------------------------
(* joker_ci_worker *)

notWorker == <<sessionVars, app, started, stop>>

\* The state of the CI is allocated, which may fail.
WorkerStart ==
  /\ worker.pc = "start"
  /\ \/ worker' = [worker EXCEPT !.pc = "power"] /\ ci' = "set"
     \/ worker' = [worker EXCEPT !.pc = "done"] /\ UNCHANGED ci
  /\ UNCHANGED <<transportVars, notWorker, handle, cam>>

\* One power cycle, unless the budget is used up or the application closes.
WorkerPower ==
  /\ worker.pc = "power"
  /\ IF worker.try > 0 /\ ~stop.worker
     THEN worker' = [worker EXCEPT !.pc = "status", !.try = @ - 1, !.polls = Polls]
     ELSE worker' = [worker EXCEPT !.pc = "check"]
  /\ UNCHANGED <<transportVars, notWorker, handle, ci, cam>>

Fail == worker' = [worker EXCEPT !.pc = "done"] /\ ci' = "nil"

\* A status command: it fails, or tells whether the CAM is there and ready.
WorkerStatus ==
  /\ worker.pc = "status" /\ worker.polls > 0 /\ ~stop.worker
  /\ \/ Fail
     \/ \E seen \in {"no"} \cup (IF cam.here THEN {"yes"} ELSE {}) :
          worker' = [worker EXCEPT !.polls = @ - 1, !.seen = seen,
                       !.pc = IF seen = "yes" THEN "check" ELSE "status"]
        /\ UNCHANGED ci
  /\ UNCHANGED <<transportVars, notWorker, handle, cam>>

WorkerNextTry ==
  /\ worker.pc = "status" /\ (worker.polls = 0 \/ stop.worker)
  /\ \E yes \in IF worker.seen = "never" THEN BOOLEAN ELSE {FALSE} :
       worker' = [worker EXCEPT !.pc = IF yes THEN "check" ELSE "power"]
  /\ UNCHANGED <<transportVars, notWorker, handle, ci, cam>>

\* in_buf is undefined when the application closed before the first status.
WorkerCheck ==
  /\ worker.pc = "check"
  /\ \E yes \in CASE worker.seen = "yes" -> {TRUE}
                  [] worker.seen = "no" -> {FALSE}
                  [] OTHER -> BOOLEAN :
       worker' = [worker EXCEPT !.pc = IF yes THEN "setup" ELSE "done"]
  /\ UNCHANGED <<transportVars, notWorker, handle, ci, cam>>

\* Attributes, interface and link are set up, which needs a CAM and may fail.
WorkerSetup ==
  /\ worker.pc = "setup"
  /\ \/ Fail
     \/ cam.here /\ worker' = [worker EXCEPT !.pc = "create"] /\ UNCHANGED ci
  /\ UNCHANGED <<transportVars, notWorker, handle, cam>>

\* joker_ci_en50221_start: the stack thread, then the first connection.  A layer
\* may fail to be created; so may the thread, which is not noticed (line 376).
WorkerCreate ==
  /\ worker.pc = "create"
  /\ \/ /\ worker' = [worker EXCEPT !.pc = "tc"]
        /\ \/ handle' = TRUE /\ stk' = [NoStack EXCEPT !.pc = "top"]
           \/ UNCHANGED <<handle, stk>>
     \/ worker' = [worker EXCEPT !.pc = "done"] /\ UNCHANGED <<handle, stk>>
  /\ UNCHANGED <<conn, linkVars, notWorker, ci, cam>>

WorkerTc ==
  /\ worker.pc = "tc"
  /\ NewTc
  /\ worker' = [worker EXCEPT !.pc = "done"]
  /\ UNCHANGED <<stk, notWorker, handle, ci, cam>>

WorkerStep ==
  \/ WorkerStart \/ WorkerPower \/ WorkerStatus \/ WorkerNextTry \/ WorkerCheck
  \/ WorkerSetup \/ WorkerCreate \/ WorkerTc

-----------------------------------------------------------------------------
(* ci_poll_func *)

StackTop ==
  /\ stk.pc = "top"
  /\ IF stop.stack
     THEN /\ stk' = [NoStack EXCEPT !.pc = "exit"]
          /\ stop' = [stop EXCEPT !.stack = FALSE]
     ELSE /\ stk' = [NoStack EXCEPT !.pc = "poll"]
          /\ UNCHANGED stop
  /\ UNCHANGED <<conn, linkVars, sessionVars, app, worker, started, handle, ci, cam>>

Poll == PollRead \/ HandleTpdu \/ Serve

StackStep ==
  \/ StackTop
  \/ Poll /\ UNCHANGED <<sessionVars, lifeVars, cam>>
  \/ SpduStep /\ UNCHANGED <<lifeVars, cam>>

-----------------------------------------------------------------------------
(* The CAM (external): it answers every TPDU of an open connection with its *)
(* status, hands over what it has when asked, and does MaxActs things of    *)
(* its own.                                                                 *)

notCam == <<conn, stk, stale, timeouts, sessionVars, lifeVars>>

Status(c, out) == Plain(IF out[c] = <<>> THEN "sb" ELSE "sb_data", c)

\* What the CAM has to say to an SPDU p, and its sessions after it.
CamReply ==
  [rm_enq |-> "rm_reply", rm_changed |-> "rm_enq", ca_info_enq |-> "ca_info"]

Said(p) == IF p.k = "apdu" /\ p.arg \in DOMAIN CamReply
           THEN <<Spdu("apdu", p.n, CamReply[p.arg])>> ELSE <<>>

CamSessions(c, p) ==
  CASE p.k = "open_ok" -> [cam.sess EXCEPT ![p.n] = [res |-> p.arg, conn |-> c]]
    [] p.k \in {"close_ok", "close_err"} /\ p.n \in {n \in Sessions : cam.sess[n].conn = c} ->
         [cam.sess EXCEPT ![p.n] = NoSession]
    [] OTHER -> cam.sess

Without(c) == [n \in Sessions |-> IF cam.sess[n].conn = c THEN NoSession ELSE cam.sess[n]]

Answer(msgs) == fromCam' = IF msgs = <<>> THEN fromCam ELSE Append(fromCam, msgs)

CamCreate(t) ==
  /\ t.tag = "create"
  /\ cam' = [cam EXCEPT !.open = @ \cup {t.c}, !.sess = Without(t.c),
               !.out[t.c] = <<>>]
  /\ Answer(<<Plain("create_reply", t.c), Plain("sb", t.c)>>)

CamLast(t) ==
  /\ t.tag = "last" /\ t.c \in cam.open
  /\ LET out == [cam.out EXCEPT ![t.c] = @ \o Said(t.p)]
     IN /\ cam' = [cam EXCEPT !.out = out, !.sess = CamSessions(t.c, t.p)]
        /\ Answer(<<Status(t.c, out)>>)

\* T_RCV: the first thing it has to say, whole or in two parts.
CamRcv(t) ==
  /\ t.tag = "rcv" /\ t.c \in cam.open /\ cam.out[t.c] # <<>>
  /\ LET said == Head(cam.out[t.c])
         rest == [cam.out EXCEPT ![t.c] = Tail(@)]
         part == [cam.out EXCEPT ![t.c] = <<Spdu("part", said.n, said.arg)>> \o Tail(@)]
     IN \/ /\ said.k = "request"
           /\ cam' = [cam EXCEPT !.out = rest]
           /\ Answer(<<Plain("request", t.c), Status(t.c, rest)>>)
        \/ /\ said.k = "delete"
           /\ cam' = [cam EXCEPT !.out = [rest EXCEPT ![t.c] = <<>>],
                        !.open = @ \ {t.c}, !.sess = Without(t.c)]
           /\ Answer(<<Plain("delete", t.c)>>)
        \/ /\ said.k \notin {"request", "delete"}
           /\ cam' = [cam EXCEPT !.out = rest]
           /\ Answer(<<Tpdu("last", t.c, said), Status(t.c, rest)>>)
        \/ /\ said.k \notin {"request", "delete", "part"} /\ cam.acts < MaxActs
           /\ cam' = [cam EXCEPT !.out = part, !.acts = @ + 1]
           /\ Answer(<<Tpdu("more", t.c, said), Status(t.c, part)>>)

\* Nothing to answer.
CamSilent(t) ==
  /\ \/ t.tag \in {"new", "tc_error", "delete_reply"}
     \/ t.tag \in {"last", "rcv"} /\ t.c \notin cam.open
  /\ UNCHANGED <<cam, fromCam>>

CamEmpty(t) ==
  /\ t.tag = "rcv" /\ t.c \in cam.open /\ cam.out[t.c] = <<>>
  /\ Answer(<<Plain("sb", t.c)>>)
  /\ UNCHANGED cam

CamHears ==
  /\ toCam # <<>>
  /\ toCam' = Tail(toCam)
  /\ LET t == Head(toCam)
     IN CamCreate(t) \/ CamLast(t) \/ CamRcv(t) \/ CamSilent(t) \/ CamEmpty(t)
  /\ UNCHANGED <<notCam, fails>>

\* The CAM never gets the TPDU.
CamMisses ==
  /\ toCam # <<>> /\ fails < MaxFails
  /\ toCam' = Tail(toCam) /\ fails' = fails + 1
  /\ UNCHANGED <<notCam, fromCam, cam>>

\* What the CAM may start: a session, the end of one (for which it asks once),
\* another connection, the end of this one, or news of the resource manager.
Acts(c) ==
  {Spdu("open_req", 0, r) : r \in {"rm", "ca", "other"}}
  \cup {Spdu("close_req", n, "none") : n \in {m \in Sessions :
          cam.sess[m].conn = c /\ cam.sess[m].res # "ending"}}
  \cup {Spdu("apdu", n, "rm_changed") : n \in {m \in Sessions :
          cam.sess[m].conn = c /\ cam.sess[m].res = "rm"}}
  \cup {Spdu("request", 0, "none"), Spdu("delete", 0, "none")}

CamActs ==
  /\ cam.acts < MaxActs
  /\ \E c \in cam.open : \E s \in Acts(c) :
       /\ cam' = [cam EXCEPT !.acts = @ + 1, !.out[c] = Append(@, s),
                             !.sess = IF s.k = "close_req"
                                      THEN [@ EXCEPT ![s.n].res = "ending"] ELSE @]
  /\ UNCHANGED <<notCam, toCam, fromCam, fails>>

-----------------------------------------------------------------------------
Next ==
  /\ app # "crashed"
  /\ \/ AppCi \/ AppClose \/ AppStep
     \/ WorkerStep
     \/ StackStep
     \/ (TsLock \/ TsStep) /\ UNCHANGED <<lifeVars, cam>>
     \/ CamHears \/ CamMisses \/ CamActs
  /\ cam'.acts + fails' + timeouts' <= MaxEvents

\* Threads run, and so does the CAM; nothing makes the application close, a
\* PMT arrive, or a transfer fail.
Fairness ==
  /\ WF_vars(AppStep) /\ WF_vars(WorkerStep) /\ WF_vars(StackStep)
  /\ WF_vars(TsStep /\ UNCHANGED <<lifeVars, cam>>) /\ WF_vars(CamHears)

Spec == Init /\ [][Next]_vars /\ Fairness

-----------------------------------------------------------------------------
(* Safety *)

SomeSpdu(s) ==
  /\ s.k \in {"none", "open_req", "open_ok", "open_refused", "close_req",
              "close_ok", "close_err", "apdu", "part", "conn", "request", "delete"}
  /\ s.n \in Int

ActiveSessions == {n \in Sessions : session[n].st = "active"}
LiveConns      == {c \in Conns : conn[c].st = "active"}

\* Types, and what ties the layers together: the stack thread is in a callback
\* for a live connection; a session in use is on a live connection, unless the
\* reply to its T_DELETE_T_C could not be written; the mutex is with the thread
\* that says so.
IInv ==
  /\ \A c \in Conns : /\ conn[c].st \in {"idle", "creation", "active"}
                      /\ conn[c].wait \in {"no", "yes", "late"}
                      /\ SomeSpdu(conn[c].chain)
  /\ stk.pc \in {"none", "top", "poll", "tpdu", "conns", "spdu", "closing", "exit"}
  /\ stk.pc = "spdu" => stk.at \in LiveConns
  /\ job.pc # "none" =>
       stk.pc = "spdu" \/ (stk.pc = "closing" /\ job.pc = "close_cb")
  /\ \A n \in Sessions : session[n].st # "idle" =>
       \/ session[n].conn \in LiveConns
       \/ stk.pc = "closing" /\ stk.at = session[n].conn
       \/ fails > 0
  /\ caNumber \in {-1, 0} \cup Sessions
  /\ mux = "stack" <=> job.pc = "sync"
  /\ mux = "ts" <=> ts.pc # "idle"
  /\ (stk.pc = "none") = (~handle)

\* ca_session_number is an open CA session, or none, whenever the stack thread
\* is not in the middle of a callback.
CaNumberValid ==
  job.pc = "none" /\ caNumber \in Sessions =>
    caNumber \in ActiveSessions /\ session[caNumber].res = "ca"

\* When nothing is under way and nothing was lost, the host and the CAM agree
\* on the sessions that are open.
Quiet ==
  /\ stk.pc = "top" /\ toCam = <<>> /\ fromCam = <<>>
  /\ \A c \in Conns : conn[c].queue = <<>> /\ cam.out[c] = <<>>
  /\ fails = 0 /\ timeouts = 0 /\ ~stale

PeersAgree ==
  Quiet => \A n \in Sessions :
    cam.sess[n] = IF n \in ActiveSessions
                  THEN [res |-> session[n].res, conn |-> session[n].conn]
                  ELSE NoSession

\* The CAM is polled only with its state allocated, and never once
\* joker_ci_close has returned.
NoUseAfterClose ==
  stk.pc \notin {"none", "top", "exit"} => ci = "set" /\ app # "closed"

\* A CA PMT of the TS thread is queued for a CA session, unless the session was
\* closed since ca_session_number was read.
CaMessagesToCa ==
  [][ts.pc = "queue" /\ ts'.pc = "idle" /\ session[ts.n].gen = ts.gen =>
       session[ts.n].res = "ca"]_vars

\* Liveness: a queued message leaves its queue as long as the CAM answers and
\* the application does not close, once the stack thread was created.
Delivered ==
  \A c \in Conns :
    handle /\ conn[c].queue # <<>> ~> \/ conn[c].queue = <<>> \/ conn[c].st = "idle"
                            \/ fails + timeouts > 0 \/ app # "running"

\* joker_ci_close returns once the stack thread was created, however far the
\* worker and that thread are.  When no CAM was found there is no such thread,
\* the pthread_join (joker_en50221.c:260) is undefined, and nothing is claimed.
CloseTerminates == (app = "join_stack" /\ handle) ~> app = "closed"
=============================================================================
