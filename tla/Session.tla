------------------------------- MODULE Session -------------------------------
(***************************************************************************)
(* The EN 50221 session layer (3party/libdvben50221/en50221_session.c) and *)
(* its users in src/joker_en50221.c: the callbacks for the resources       *)
(* "rm" (resource manager) and "ca" (conditional access), on the stack     *)
(* thread, and the updates of CA PMTs by the TS thread.                    *)
(*                                                                         *)
(* Only the stack thread opens and closes sessions; the TS thread reads    *)
(* ca_session_number, checks that session and queues its message in three  *)
(* steps, under jen->mux, which the stack thread has only in the answer to *)
(* the CAM's CA info.  What is sent for which program is module CaPmt.     *)
(***************************************************************************)
EXTENDS Transport

CONSTANTS MaxPmts   \* bound: PMTs of the TS thread

ASSUME SessionAssumption == MaxPmts \in Nat

VARIABLES
  session,     \* per session: state, resource, connection; gen (history): how
               \* many sessions had the number before
  job,         \* what the stack thread does with its SPDU: pc, session, status
  caNumber,    \* jen->ca_session_number
  caConnected, \* jen->ca_connected
  mux,         \* owner of jen->mux
  ts,          \* TS thread: pc, session and connection it sends to; gen of it
  pmts         \* history: PMTs so far

sessionVars == <<session, job, caNumber, caConnected, mux, ts, pmts>>

Resources == {"rm", "ca"}
FreeSession == [st |-> "idle", res |-> "none", conn |-> 0, gen |-> 0]
NoJob == [pc |-> "none", n |-> 0, ok |-> TRUE]
NoTs  == [pc |-> "idle", n |-> 0, c |-> 0, gen |-> 0]

SessionInit ==
  /\ session = [n \in Sessions |-> FreeSession]
  /\ job = NoJob /\ caNumber = 0 /\ caConnected = FALSE
  /\ mux = "free" /\ ts = NoTs /\ pmts = 0

InSpdu(pc) == stk.pc = "spdu" /\ job.pc = pc
Spdu1      == stk.spdu
ToJob(pc)  == job' = [job EXCEPT !.pc = pc]
InUse(n)   == session[n].st # "idle"

\* The callback returns; slot_lock is taken again.
CallbackEnds == job' = NoJob /\ Onward

linkVars == <<toCam, fromCam, fails, timeouts, stale>>
tsVars   == <<ts, pmts>>

\* en50221_sl_send_data by the stack thread, for a session that is active.
Reply(c, k, n, arg) == SendData(c, Spdu(k, n, arg)) /\ UNCHANGED linkVars

-----------------------------------------------------------------------------
(* en50221_sl_handle_open_session_request and test_session_callback *)

FreeSessions == {n \in Sessions : ~InUse(n)}

\* The lookup, and the first free session when the resource is known.
OpenRequest ==
  /\ InSpdu("none") /\ Spdu1.k = "open_req"
  /\ IF Spdu1.arg \in Resources /\ FreeSessions # {}
     THEN LET n == Lowest(FreeSessions)
          IN /\ session' = [session EXCEPT ![n] =
                  [st |-> "creation", res |-> Spdu1.arg, conn |-> stk.at,
                   gen |-> @.gen + 1]]
             /\ job' = [pc |-> "open_res", n |-> n, ok |-> TRUE]
     ELSE /\ job' = [pc |-> "open_res", n |-> 0, ok |-> FALSE]
          /\ UNCHANGED session
  /\ UNCHANGED <<transportVars, caNumber, caConnected, mux, tsVars>>

OpenRes ==
  /\ InSpdu("open_res")
  /\ Reply(stk.at, IF job.ok THEN "open_ok" ELSE "open_refused", job.n, Spdu1.arg)
  /\ IF job.ok
     THEN job' = [job EXCEPT !.pc = "opened", !.ok = Accepts(stk.at)] /\ UNCHANGED stk
     ELSE CallbackEnds
  /\ UNCHANGED <<session, caNumber, caConnected, mux, tsVars>>

Opened ==
  /\ InSpdu("opened")
  /\ session' = [session EXCEPT ![job.n].st = IF job.ok THEN "active" ELSE "idle"]
  /\ IF job.ok THEN ToJob("open_cb") /\ UNCHANGED stk ELSE CallbackEnds
  /\ UNCHANGED <<conn, linkVars, caNumber, caConnected, mux, tsVars>>

\* CAMCONNECTED: the first question to the CAM goes out before its session
\* number is stored.
OpenCallback ==
  /\ InSpdu("open_cb")
  /\ \/ /\ session[job.n].res = "rm"
        /\ Reply(stk.at, "apdu", job.n, "rm_enq")
        /\ CallbackEnds
     \/ /\ session[job.n].res = "ca"
        /\ Reply(stk.at, "apdu", job.n, "ca_info_enq")
        /\ ToJob("open_num") /\ UNCHANGED stk
  /\ UNCHANGED <<session, caNumber, caConnected, mux, tsVars>>

OpenNumber ==
  /\ InSpdu("open_num")
  /\ caNumber' = job.n
  /\ CallbackEnds
  /\ UNCHANGED <<conn, linkVars, session, caConnected, mux, tsVars>>

-----------------------------------------------------------------------------
(* en50221_sl_handle_close_session_request, and the end of a connection *)

Closable(n) == n \in Sessions /\ session[n].conn = stk.at /\ session[n].st = "active"

\* Mutant: the session is told closed and stays open.
CloseRequestKeeps ==
  /\ InSpdu("none") /\ Spdu1.k = "close_req"
  /\ job' = [pc |-> "close_res", n |-> Spdu1.n, ok |-> Closable(Spdu1.n)]
  /\ UNCHANGED <<transportVars, session, caNumber, caConnected, mux, tsVars>>

CloseRequest ==
  /\ InSpdu("none") /\ Spdu1.k = "close_req"
  /\ job' = [pc |-> "close_res", n |-> Spdu1.n, ok |-> Closable(Spdu1.n)]
  /\ session' = IF Closable(Spdu1.n) THEN [session EXCEPT ![Spdu1.n].st = "idle"]
                ELSE session
  /\ UNCHANGED <<transportVars, caNumber, caConnected, mux, tsVars>>

CloseRes ==
  /\ InSpdu("close_res")
  /\ Reply(stk.at, IF job.ok THEN "close_ok" ELSE "close_err", job.n, "none")
  /\ IF job.ok THEN ToJob("close_cb") /\ UNCHANGED stk ELSE CallbackEnds
  /\ UNCHANGED <<session, caNumber, caConnected, mux, tsVars>>

\* Back to the loop of CONNECTIONCLOSE, or the SPDU is done.
CloseCallbackEnds ==
  IF stk.pc = "closing" THEN job' = NoJob /\ UNCHANGED stk ELSE CallbackEnds

\* Mutant: the CA session number is kept.
CloseCallbackKeeps ==
  /\ job.pc = "close_cb"
  /\ UNCHANGED caNumber
  /\ CloseCallbackEnds
  /\ UNCHANGED <<conn, linkVars, session, caConnected, mux, tsVars>>

\* Whichever CA session it was; ca_connected stays set.
CloseCallback ==
  /\ job.pc = "close_cb"
  /\ caNumber' = IF session[job.n].res = "ca" THEN -1 ELSE caNumber
  /\ CloseCallbackEnds
  /\ UNCHANGED <<conn, linkVars, session, caConnected, mux, tsVars>>

OnConn(c) == {n \in Sessions : InUse(n) /\ session[n].conn = c}

\* Mutant: the sessions of the connection stay.
ConnectionCloseNot ==
  /\ stk.pc = "closing" /\ job.pc = "none"
  /\ Onward
  /\ UNCHANGED <<conn, linkVars, sessionVars>>

\* CONNECTIONCLOSE: its sessions one after the other, each idle before its
\* callback runs.
ConnectionClose ==
  /\ stk.pc = "closing" /\ job.pc = "none"
  /\ IF OnConn(stk.at) = {} THEN Onward /\ UNCHANGED <<session, job>>
     ELSE LET n == Lowest(OnConn(stk.at))
          IN /\ session' = [session EXCEPT ![n].st = "idle"]
             /\ job' = [pc |-> "close_cb", n |-> n, ok |-> TRUE]
             /\ UNCHANGED stk
  /\ UNCHANGED <<conn, linkVars, caNumber, caConnected, mux, tsVars>>

-----------------------------------------------------------------------------
(* en50221_sl_handle_session_package and the resource callbacks *)

\* What the resource manager of the host answers.
RmAnswer == [rm_enq |-> "rm_reply", rm_reply |-> "rm_changed",
             rm_changed |-> "rm_enq"]

\* A package of an active session of this connection.
IsPackage == Spdu1.k = "apdu" /\ Closable(Spdu1.n)

Understood(n, arg) ==
  IF session[n].res = "rm" THEN arg \in DOMAIN RmAnswer ELSE arg = "ca_info"

\* Any other package, one its resource does not know (the number of a session
\* is given to the next), and data that is no SPDU are ignored.
Ignore ==
  /\ InSpdu("none")
  /\ \/ Spdu1.k = "apdu" /\ ~Closable(Spdu1.n)
     \/ IsPackage /\ ~Understood(Spdu1.n, Spdu1.arg)
     \/ Spdu1.k = "part"
  /\ CallbackEnds
  /\ UNCHANGED <<conn, linkVars, session, caNumber, caConnected, mux, tsVars>>

Package ==
  /\ InSpdu("none") /\ IsPackage
  /\ session[Spdu1.n].res = "rm" /\ Understood(Spdu1.n, Spdu1.arg)
  /\ Reply(stk.at, "apdu", Spdu1.n, RmAnswer[Spdu1.arg])
  /\ CallbackEnds
  /\ UNCHANGED <<session, caNumber, caConnected, mux, tsVars>>

\* test_ca_info_callback: the CA PMT list goes to ca_session_number.
CaInfo ==
  /\ InSpdu("none") /\ IsPackage
  /\ session[Spdu1.n].res = "ca" /\ Understood(Spdu1.n, Spdu1.arg)
  /\ mux = "free"
  /\ mux' = "stack"
  /\ caConnected' = TRUE
  /\ ToJob("sync")
  /\ UNCHANGED <<transportVars, session, caNumber, tsVars>>

\* The checks of en50221_sl_send_data.
Open(n) == n \in Sessions /\ session[n].st = "active"

CaSync ==
  /\ InSpdu("sync")
  /\ IF Open(caNumber) THEN Reply(session[caNumber].conn, "apdu", caNumber, "ca_pmt")
     ELSE UNCHANGED <<conn, linkVars>>
  /\ mux' = "free"
  /\ CallbackEnds
  /\ UNCHANGED <<session, caNumber, caConnected, tsVars>>

SpduStep ==
  \/ OpenRequest \/ OpenRes \/ Opened \/ OpenCallback \/ OpenNumber
  \/ CloseRequest \/ CloseRes \/ CloseCallback \/ ConnectionClose
  \/ Ignore \/ Package \/ CaInfo \/ CaSync

-----------------------------------------------------------------------------
(* joker_en50221_pmt_update on the TS thread *)

TsLock ==
  /\ ts.pc = "idle" /\ pmts < MaxPmts
  /\ mux = "free" /\ caConnected
  /\ pmts' = pmts + 1
  /\ mux' = "ts"
  /\ ts' = [ts EXCEPT !.pc = "read"]
  /\ UNCHANGED <<transportVars, session, job, caNumber, caConnected>>

TsRead ==
  /\ ts.pc = "read"
  /\ ts' = [ts EXCEPT !.pc = "check", !.n = caNumber,
              !.gen = IF caNumber \in Sessions THEN session[caNumber].gen ELSE 0]
  /\ UNCHANGED <<transportVars, session, job, caNumber, caConnected, mux, pmts>>

TsEnds == mux' = "free" /\ ts' = NoTs

\* Mutant: the mutex is kept when the message can't be sent.
TsCheckKeepsLock ==
  /\ ts.pc = "check"
  /\ IF Open(ts.n)
     THEN /\ ts' = [ts EXCEPT !.pc = "queue", !.c = session[ts.n].conn]
          /\ UNCHANGED mux
     ELSE ts' = NoTs /\ UNCHANGED mux
  /\ UNCHANGED <<transportVars, session, job, caNumber, caConnected, pmts>>

TsCheck ==
  /\ ts.pc = "check"
  /\ IF Open(ts.n)
     THEN /\ ts' = [ts EXCEPT !.pc = "queue", !.c = session[ts.n].conn]
          /\ UNCHANGED mux
     ELSE TsEnds
  /\ UNCHANGED <<transportVars, session, job, caNumber, caConnected, pmts>>

TsQueue ==
  /\ ts.pc = "queue"
  /\ SendData(ts.c, Spdu("apdu", ts.n, "ca_pmt"))
  /\ TsEnds
  /\ UNCHANGED <<stk, linkVars, session, job, caNumber, caConnected, pmts>>

TsStep == TsRead \/ TsCheck \/ TsQueue
=============================================================================
