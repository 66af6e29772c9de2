---------------------------- MODULE ServiceThread ----------------------------
(***************************************************************************)
(* The service thread of libjokertv (src/src/u_drv_tune.c), which reads    *)
(* the lock status and the signal statistics of the frontend periodically, *)
(* and the application thread, which tunes, uses the frontend through      *)
(* set_lnb_voltage and read_status, pauses the thread (set_refresh in      *)
(* stop_ts) and finally stops it (joker_close).  A sweep over transponders *)
(* (joker_xml.c) calls tune while the service thread is at work.           *)
(*                                                                         *)
(* The frontend is not protected by a lock of its own: service_threading-> *)
(* mux and the flag stat.refresh_enable keep the two threads apart.  A     *)
(* tune is known by its number; what matters of a status read is whether   *)
(* it says LOCK and which tune the frontend was configured for.            *)
(***************************************************************************)
EXTENDS Naturals

CONSTANTS
  MaxTunes,  \* bound: calls of tune in one behaviour
  Faults     \* "thread": pthread_create may fail, "frontend": so may the rest

ASSUME ConstantsAssumption ==
  /\ MaxTunes \in Nat
  /\ Faults \subseteq {"thread", "frontend"}

VARIABLES
  allocated,  \* joker->service_threading is not NULL
  cancel,     \* service_threading->cancel
  refresh,    \* stat.refresh_enable
  mux,        \* owner of service_threading->mux: "free", "service" or "app"
  sleeping,   \* the service thread is blocked on service_threading->cond
  svcPc,      \* program counter of process_service
  appPc,      \* program counter of the application thread
  status,     \* stat.status: "LOCK" or "NOLOCK"
  statusOf,   \* history: the tune that stat.status tells about
  config,     \* the tune the frontend is configured for, 0: none
  tunes       \* history: calls of tune so far

threadVars == <<allocated, cancel, refresh, mux, sleeping>>
vars == <<threadVars, svcPc, appPc, status, statusOf, config, tunes>>

Init ==
  /\ allocated = FALSE /\ cancel = FALSE /\ refresh = FALSE
  /\ mux = "free" /\ sleeping = FALSE
  /\ svcPc = "none" /\ appPc = "idle"
  /\ status = "NOLOCK" /\ statusOf = 0 /\ config = 0 /\ tunes = 0

-----------------------------------------------------------------------------
(* process_service *)

\* Line 77: cancel is read without mux.
SvcCheck ==
  /\ svcPc = "check"
  /\ svcPc' = IF cancel THEN "exited" ELSE "lock"
  /\ UNCHANGED <<threadVars, appPc, status, statusOf, config, tunes>>

SvcLock ==
  /\ svcPc = "lock"
  /\ mux = "free"
  /\ mux' = "service"
  /\ svcPc' = "decide"
  /\ UNCHANGED <<allocated, cancel, refresh, sleeping, appPc, status, statusOf,
                 config, tunes>>

\* Lines 80-89: sleep while paused, leave when cancelled, else go on.
SvcDecide ==
  /\ svcPc = "decide"
  /\ \/ ~refresh /\ ~cancel /\ svcPc' = "sleep" /\ UNCHANGED mux
     \/ cancel /\ svcPc' = "exited" /\ mux' = "free"
     \/ refresh /\ ~cancel /\ svcPc' = "read" /\ UNCHANGED mux
  /\ UNCHANGED <<allocated, cancel, refresh, sleeping, appPc, status, statusOf,
                 config, tunes>>

\* pthread_cond_wait gives mux back and blocks; cancel may have been set since.
SvcSleep ==
  /\ svcPc = "sleep"
  /\ mux' = "free"
  /\ sleeping' = TRUE
  /\ svcPc' = "blocked"
  /\ UNCHANGED <<allocated, cancel, refresh, appPc, status, statusOf, config,
                 tunes>>

\* Mutant: "if" in place of "while" around pthread_cond_wait.
SvcWokenReads ==
  /\ svcPc = "blocked"
  /\ ~sleeping
  /\ mux = "free"
  /\ mux' = "service"
  /\ svcPc' = "read"
  /\ UNCHANGED <<allocated, cancel, refresh, sleeping, appPc, status, statusOf,
                 config, tunes>>

\* Woken: mux is taken again and the condition evaluated again.
SvcWoken ==
  /\ svcPc = "blocked"
  /\ ~sleeping
  /\ mux = "free"
  /\ mux' = "service"
  /\ svcPc' = "decide"
  /\ UNCHANGED <<allocated, cancel, refresh, sleeping, appPc, status, statusOf,
                 config, tunes>>

\* Lines 92-114: status, statistics and LNB health of the frontend as it is.
SvcRead ==
  /\ svcPc = "read"
  /\ status' \in {"LOCK", "NOLOCK"}
  /\ statusOf' = config
  /\ svcPc' = "callback"
  /\ UNCHANGED <<threadVars, appPc, config, tunes>>

\* Mutant: mux is not released.
SvcCallbackKeepsMux ==
  /\ svcPc = "callback"
  /\ svcPc' = "pause"
  /\ UNCHANGED <<threadVars, appPc, status, statusOf, config, tunes>>

\* Lines 117-120: the application's callback, then unlock.
SvcCallback ==
  /\ svcPc = "callback"
  /\ mux' = "free"
  /\ svcPc' = "pause"
  /\ UNCHANGED <<allocated, cancel, refresh, sleeping, appPc, status, statusOf,
                 config, tunes>>

\* Lines 123-130: pthread_cond_timedwait.
SvcTimedWait ==
  /\ svcPc = "pause"
  /\ mux = "free"
  /\ sleeping' = TRUE
  /\ svcPc' = "timedwait"
  /\ UNCHANGED <<allocated, cancel, refresh, mux, appPc, status, statusOf,
                 config, tunes>>

\* Mutant: pthread_cond_wait in place of pthread_cond_timedwait.
SvcTimeoutOnlySignal ==
  /\ svcPc = "timedwait"
  /\ ~sleeping
  /\ mux = "free"
  /\ svcPc' = "check"
  /\ UNCHANGED <<threadVars, appPc, status, statusOf, config, tunes>>

\* It returns after a signal or after refresh_ms; mux is taken and released.
SvcTimeout ==
  /\ svcPc = "timedwait"
  /\ mux = "free"
  /\ sleeping' = FALSE
  /\ svcPc' = "check"
  /\ UNCHANGED <<allocated, cancel, refresh, mux, appPc, status, statusOf,
                 config, tunes>>

SvcSpurious ==
  /\ svcPc = "blocked"
  /\ sleeping
  /\ sleeping' = FALSE
  /\ UNCHANGED <<allocated, cancel, refresh, mux, svcPc, appPc, status,
                 statusOf, config, tunes>>

-----------------------------------------------------------------------------
(* tune *)

\* Lines 671-704: the first call creates the service thread.  When that fails
\* service_threading stays allocated, so no later call tries again.
TuneBegin ==
  /\ appPc = "idle"
  /\ tunes < MaxTunes
  /\ tunes' = tunes + 1
  /\ \/ /\ allocated
        /\ appPc' = "tune"
        /\ UNCHANGED <<threadVars, svcPc, status, statusOf>>
     \/ /\ ~allocated
        /\ allocated' = TRUE /\ cancel' = FALSE /\ refresh' = FALSE
        /\ status' = "NOLOCK" /\ statusOf' = 0
        /\ \/ svcPc' = "check" /\ appPc' = "tune"
           \/ "thread" \in Faults /\ appPc' = "idle" /\ UNCHANGED svcPc
        /\ UNCHANGED <<mux, sleeping>>
  /\ UNCHANGED config

\* Line 705, without mux.
TuneNoLock ==
  /\ appPc = "tune"
  /\ status' = "NOLOCK"
  /\ statusOf' = tunes
  /\ appPc' = "stop_refresh"
  /\ UNCHANGED <<threadVars, svcPc, config, tunes>>

\* Mutant: the flag is cleared without mux.
TunePauseUnlocked ==
  /\ appPc = "stop_refresh"
  /\ refresh' = FALSE
  /\ sleeping' = FALSE
  /\ appPc' = "configure"
  /\ UNCHANGED <<allocated, cancel, mux, svcPc, status, statusOf, config, tunes>>

\* Lines 710-713.
TunePause ==
  /\ appPc = "stop_refresh"
  /\ mux = "free"
  /\ refresh' = FALSE
  /\ sleeping' = FALSE
  /\ appPc' = "configure"
  /\ UNCHANGED <<allocated, cancel, mux, svcPc, status, statusOf, config, tunes>>

\* Lines 717-854: reset lines, TS input, attach, init, LNB, ops.tune.
TuneConfigure ==
  /\ appPc = "configure"
  /\ config' = tunes
  /\ appPc' = "resume"
  /\ UNCHANGED <<threadVars, svcPc, status, statusOf, tunes>>

\* The early returns in between, errors and blind scan: refresh stays off, the
\* frontend may have been attached anew (with no tune) or not.
TuneFails ==
  /\ appPc = "configure"
  /\ "frontend" \in Faults
  /\ config' \in {config, tunes}
  /\ appPc' = "idle"
  /\ UNCHANGED <<threadVars, svcPc, status, statusOf, tunes>>

\* Mutant: the thread is not signalled.
TuneResumeNoSignal ==
  /\ appPc = "resume"
  /\ mux = "free"
  /\ refresh' = TRUE
  /\ appPc' = "idle"
  /\ UNCHANGED <<allocated, cancel, mux, sleeping, svcPc, status, statusOf,
                 config, tunes>>

\* Lines 858-863.
TuneResume ==
  /\ appPc = "resume"
  /\ mux = "free"
  /\ refresh' = TRUE
  /\ sleeping' = FALSE
  /\ appPc' = "idle"
  /\ UNCHANGED <<allocated, cancel, mux, svcPc, status, statusOf, config, tunes>>

-----------------------------------------------------------------------------
(* The other calls of the application *)

\* set_refresh(joker, 0), from stop_ts.
SetRefreshOff ==
  /\ appPc = "idle"
  /\ allocated
  /\ mux = "free"
  /\ refresh' = FALSE
  /\ sleeping' = FALSE
  /\ UNCHANGED <<allocated, cancel, mux, svcPc, appPc, status, statusOf, config,
                 tunes>>

\* set_lnb_voltage and read_status: use of the frontend under mux.
CallBegin ==
  /\ appPc = "idle"
  /\ allocated /\ config # 0
  /\ mux = "free"
  /\ mux' = "app"
  /\ appPc' = "call"
  /\ UNCHANGED <<allocated, cancel, refresh, sleeping, svcPc, status, statusOf,
                 config, tunes>>

CallEnd ==
  /\ appPc = "call"
  /\ mux' = "free"
  /\ appPc' = "idle"
  /\ UNCHANGED <<allocated, cancel, refresh, sleeping, svcPc, status, statusOf,
                 config, tunes>>

\* stop_service_thread, line 147, without mux.
StopCancel ==
  /\ appPc = "idle"
  /\ allocated
  /\ svcPc # "none"
  /\ cancel' = TRUE
  /\ appPc' = "wakeup"
  /\ UNCHANGED <<allocated, refresh, mux, sleeping, svcPc, status, statusOf,
                 config, tunes>>

\* Line 148, without mux.
StopWakeup ==
  /\ appPc = "wakeup"
  /\ sleeping' = FALSE
  /\ appPc' = "join"
  /\ UNCHANGED <<allocated, cancel, refresh, mux, svcPc, status, statusOf,
                 config, tunes>>

\* Line 149; joker_close goes on to release the device.
StopJoin ==
  /\ appPc = "join"
  /\ svcPc = "exited"
  /\ appPc' = "closed"
  /\ UNCHANGED <<threadVars, svcPc, status, statusOf, config, tunes>>

-----------------------------------------------------------------------------
Service == \/ SvcCheck \/ SvcLock \/ SvcDecide \/ SvcSleep \/ SvcWoken
           \/ SvcRead \/ SvcCallback \/ SvcTimedWait \/ SvcTimeout
Tune == TuneNoLock \/ TunePause \/ TuneConfigure \/ TuneFails \/ TuneResume
Stop == StopWakeup \/ StopJoin

Next ==
  \/ Service
  \/ SvcSpurious
  \/ TuneBegin \/ Tune
  \/ SetRefreshOff \/ CallBegin \/ CallEnd
  \/ StopCancel \/ Stop

Spec == Init /\ [][Next]_vars

\* Both threads are scheduled, and a thread that asks for mux again and again
\* gets it in the end: the service thread gives it back between two refreshes
\* and sleeps, the application between two calls.  The wait of refresh_ms ends.
Fairness ==
  /\ SF_vars(Service)
  /\ SF_vars(Tune)
  /\ WF_vars(CallEnd)
  /\ WF_vars(Stop)

FairSpec == Spec /\ Fairness

-----------------------------------------------------------------------------
\* Every variable has a value of its C type, every program counter is a label.
TypeOK ==
  /\ allocated \in BOOLEAN /\ cancel \in BOOLEAN /\ refresh \in BOOLEAN
  /\ mux \in {"free", "service", "app"} /\ sleeping \in BOOLEAN
  /\ svcPc \in {"none", "check", "lock", "decide", "sleep", "blocked", "read",
                "callback", "pause", "timedwait", "exited"}
  /\ appPc \in {"idle", "tune", "stop_refresh", "configure", "resume", "call",
                "wakeup", "join", "closed"}
  /\ status \in {"LOCK", "NOLOCK"}
  /\ statusOf \in Nat /\ config \in Nat /\ tunes \in Nat

\* mux is held exactly in the critical sections, and the flag that lets the
\* service thread into the frontend is on until it leaves and off while tune
\* configures.
MuxInv ==
  /\ mux = "service" <=> svcPc \in {"decide", "sleep", "read", "callback"}
  /\ mux = "app" <=> appPc = "call"
  /\ sleeping => svcPc \in {"blocked", "timedwait"}
  /\ svcPc \in {"read", "callback"} => refresh
  /\ appPc \in {"configure", "resume"} => ~refresh
  /\ ~allocated => svcPc = "none"
  /\ cancel => appPc \in {"wakeup", "join", "closed"}

IInv == TypeOK /\ MuxInv

\* The service thread never talks to the frontend while the application does:
\* tune works without mux, after "pause service thread while we configure
\* frontend" (u_drv_tune.c:709).
FrontendExclusive == ~(svcPc = "read" /\ appPc \in {"configure", "call"})

\* A frontend that was tuned is monitored: while refresh stays enabled its
\* status is read again and again.
Monitored ==
  [](refresh /\ svcPc # "none" => <>(svcPc = "read" \/ ~refresh \/ cancel))

\* A status left over from the tune before is replaced by one of this tune.
StaleStatusPasses ==
  (refresh /\ appPc = "idle" /\ svcPc # "none" /\ statusOf # tunes)
     ~> (statusOf = tunes \/ appPc # "idle" \/ ~refresh)

\* The service thread can't keep tune from configuring the frontend.
TuneGetsFrontend == (appPc = "stop_refresh") ~> (appPc = "configure")

\* stop_service_thread has one place to hang: the service thread paused and
\* asleep; one that refreshes wakes by its timeout.
StopOnlyWaitsForPaused ==
  (appPc = "wakeup") ~> (appPc = "closed" \/ (sleeping /\ svcPc = "blocked"))

\* After tune a LOCK is one of the transponder tuned to: the status was set to
\* NOLOCK and the service thread was paused before the frontend was configured.
LockIsCurrent ==
  (appPc = "idle" /\ refresh /\ status = "LOCK") => statusOf = tunes
=============================================================================
