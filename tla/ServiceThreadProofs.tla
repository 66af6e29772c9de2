------------------------- MODULE ServiceThreadProofs -------------------------
(***************************************************************************)
(* The service thread and the application never use the frontend together, *)
(* for any number of calls of tune and whatever fails.                     *)
(***************************************************************************)
EXTENDS ServiceThread, TLAPS

LEMMA InitService == Init => IInv
  <1> SUFFICES ASSUME Init
               PROVE  IInv
    OBVIOUS
  <1>1. TypeOK
    BY DEF Init, TypeOK
  <1>2. MuxInv
    BY DEF Init, MuxInv
  <1> QED
    BY <1>1, <1>2 DEF IInv

\* The flag read under mux is what keeps the two apart: each side changes it,
\* or acts on it, only while it holds mux.
LEMMA NextService ==
  ASSUME IInv, [Next]_vars
  PROVE  IInv'
  <1> USE DEF IInv, TypeOK, MuxInv
  <1>1. CASE Service
    <2>1. CASE SvcCheck
      BY <2>1 DEF SvcCheck, threadVars
    <2>2. CASE SvcLock
      BY <2>2 DEF SvcLock
    <2>3. CASE SvcDecide
      BY <2>3 DEF SvcDecide
    <2>4. CASE SvcSleep
      BY <2>4 DEF SvcSleep
    <2>5. CASE SvcWoken
      BY <2>5 DEF SvcWoken
    <2>6. CASE SvcRead
      BY <2>6 DEF SvcRead, threadVars
    <2>7. CASE SvcCallback
      BY <2>7 DEF SvcCallback
    <2>8. CASE SvcTimedWait
      BY <2>8 DEF SvcTimedWait
    <2>9. CASE SvcTimeout
      BY <2>9 DEF SvcTimeout
    <2> QED
      BY <1>1, <2>1, <2>2, <2>3, <2>4, <2>5, <2>6, <2>7, <2>8, <2>9 DEF Service
  <1>2. CASE SvcSpurious
    BY <1>2 DEF SvcSpurious
  <1>3. CASE TuneBegin
    <2>1. CASE allocated
      BY <1>3, <2>1 DEF TuneBegin, threadVars
    <2>2. CASE ~allocated
      <3>1. /\ allocated' = TRUE /\ cancel' = FALSE /\ refresh' = FALSE
            /\ UNCHANGED <<mux, sleeping, config>>
            /\ status' = "NOLOCK" /\ statusOf' = 0
            /\ tunes' = tunes + 1 /\ appPc = "idle" /\ svcPc = "none"
        BY <1>3, <2>2 DEF TuneBegin
      <3>2. \/ svcPc' = "check" /\ appPc' = "tune"
            \/ svcPc' = "none" /\ appPc' = "idle"
        BY <1>3, <2>2, <3>1 DEF TuneBegin
      <3>3. TypeOK'
        <4>1. allocated' \in BOOLEAN /\ cancel' \in BOOLEAN /\ refresh' \in BOOLEAN
          BY <3>1
        <4>2. svcPc' \in {"none", "check"} /\ appPc' \in {"idle", "tune"}
          BY <3>2
        <4> QED
          BY <3>1, <4>1, <4>2
      <3>4. MuxInv'
        BY <3>1, <3>2 DEF MuxInv
      <3> QED
        BY <3>3, <3>4 DEF IInv
    <2> QED
      BY <2>1, <2>2
  <1>4. CASE Tune
    <2>1. CASE TuneNoLock
      BY <2>1 DEF TuneNoLock, threadVars
    <2>2. CASE TunePause
      BY <2>2 DEF TunePause
    <2>3. CASE TuneConfigure
      BY <2>3 DEF TuneConfigure, threadVars
    <2>4. CASE TuneFails
      BY <2>4 DEF TuneFails, threadVars
    <2>5. CASE TuneResume
      BY <2>5 DEF TuneResume
    <2> QED
      BY <1>4, <2>1, <2>2, <2>3, <2>4, <2>5 DEF Tune
  <1>5. CASE SetRefreshOff
    BY <1>5 DEF SetRefreshOff
  <1>6. CASE CallBegin
    BY <1>6 DEF CallBegin
  <1>7. CASE CallEnd
    BY <1>7 DEF CallEnd
  <1>8. CASE StopCancel
    BY <1>8 DEF StopCancel
  <1>9. CASE Stop
    <2>1. CASE StopWakeup
      BY <2>1 DEF StopWakeup
    <2>2. CASE StopJoin
      BY <2>2 DEF StopJoin, threadVars
    <2> QED
      BY <1>9, <2>1, <2>2 DEF Stop
  <1>10. CASE UNCHANGED vars
    BY <1>10 DEF vars, threadVars
  <1> QED
    BY <1>1, <1>2, <1>3, <1>4, <1>5, <1>6, <1>7, <1>8, <1>9, <1>10 DEF Next

\* The owner of mux and the refresh flag stay consistent in every execution of
\* process_service, tune, set_refresh, set_lnb_voltage and stop_service_thread.
THEOREM ServiceInvariant == Spec => []IInv
  BY InitService, NextService, PTL DEF Spec

\* process_service is never inside the frontend while tune configures it or
\* set_lnb_voltage or read_status uses it.
THEOREM FrontendIsExclusive == Spec => []FrontendExclusive
  <1>1. IInv => FrontendExclusive
    BY DEF IInv, MuxInv, FrontendExclusive
  <1> QED
    BY <1>1, ServiceInvariant, PTL
=============================================================================
