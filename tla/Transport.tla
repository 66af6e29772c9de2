------------------------------ MODULE Transport ------------------------------
(***************************************************************************)
(* The EN 50221 transport layer (3party/libdvben50221/en50221_transport.c) *)
(* as the stack thread of libjokertv runs it: one slot, en50221_tl_poll in *)
(* a loop.  A poll reads one link message of the CAM, handles its TPDUs,   *)
(* then serves the connections one after the other.  slot_lock is held all *)
(* the while, except around the callback for data of the CAM.              *)
(*                                                                         *)
(* The host never deletes a connection (nobody calls en50221_tl_del_tc),   *)
(* so a connection is idle, in creation or active.                         *)
(***************************************************************************)
EXTENDS Integers, Sequences

CONSTANTS
  MaxConn,     \* connections of the slot: 1 .. MaxConn (31)
  MaxSess,     \* sessions: 1 .. MaxSess (255)
  MaxFails,    \* bound: link transfers that fail, or that the CAM ignores
  MaxTimeouts  \* bound: waits of more than response_timeout

ASSUME TransportAssumption ==
  /\ MaxConn \in Nat \ {0} /\ MaxSess \in Nat \ {0}
  /\ MaxFails \in Nat /\ MaxTimeouts \in Nat

Conns    == 1 .. MaxConn
Sessions == 1 .. MaxSess

VARIABLES
  conn,     \* per connection: state; wait: is a response awaited (tx_time);
            \* chain: first part of a chained SPDU; queue: TPDUs to send
  stk,      \* stack thread: pc; rest: TPDUs of the link message not handled;
            \* at: connection it is busy with; spdu: data it is handling
  toCam,    \* TPDUs on their way to the CAM
  fromCam,  \* link messages of the CAM: sequences of TPDUs
  fails,    \* history: transfers that failed
  timeouts, \* history: waits that took too long
  stale     \* history: a connection was deleted with messages in its queue

transportVars == <<conn, stk, toCam, fromCam, fails, timeouts, stale>>

\* Session and application data: what it is, of which session, its argument.
Spdu(k, n, arg) == [k |-> k, n |-> n, arg |-> arg]
NoSpdu          == Spdu("none", 0, "none")
Tpdu(tag, c, p) == [tag |-> tag, c |-> c, p |-> p]
Plain(tag, c)   == Tpdu(tag, c, NoSpdu)

IdleConn == [st |-> "idle", wait |-> "no", chain |-> NoSpdu, queue |-> <<>>]
NoStack  == [pc |-> "none", rest |-> <<>>, at |-> 0, spdu |-> NoSpdu]

TransportInit ==
  /\ conn = [c \in Conns |-> IdleConn]
  /\ stk = NoStack
  /\ toCam = <<>> /\ fromCam = <<>>
  /\ fails = 0 /\ timeouts = 0 /\ stale = FALSE

\* The stack thread has slot_lock.
SlotLocked == stk.pc \in {"tpdu", "conns", "closing"}

\* dvbca_link_write, which may fail.
Write(t) == toCam' = Append(toCam, t) /\ UNCHANGED fails
WriteFails == fails < MaxFails /\ fails' = fails + 1 /\ UNCHANGED toCam

\* en50221_tl_poll returns: with an error the rest of the message is dropped.
PollReturns == stk' = [NoStack EXCEPT !.pc = "top"]

\* The next TPDU of the message; after the last one the connections.
Onward ==
  stk' = IF Len(stk.rest) <= 1 THEN [NoStack EXCEPT !.pc = "conns", !.at = 1]
         ELSE [NoStack EXCEPT !.pc = "tpdu", !.rest = Tail(stk.rest)]

-----------------------------------------------------------------------------
(* Entries of the other threads *)

Update(c, f) == conn' = [conn EXCEPT ![c] = f]

IdleConns == {c \in Conns : conn[c].st = "idle"}
\* en50221_tl_alloc_new_tc takes the first idle connection.
Lowest(S) == CHOOSE c \in S : \A d \in S : c <= d

\* en50221_tl_new_tc
NewTc ==
  /\ ~SlotLocked
  /\ IF IdleConns = {} THEN UNCHANGED conn
     ELSE LET c == Lowest(IdleConns)
          IN Update(c, [conn[c] EXCEPT !.st = "creation", !.chain = NoSpdu,
                          !.queue = Append(@, Plain("create", c))])
  /\ UNCHANGED <<toCam, fromCam, fails, timeouts, stale>>

\* en50221_tl_send_data and _datav: an error unless the connection is active.
Accepts(c) == conn[c].st = "active"

SendData(c, s) ==
  /\ ~SlotLocked
  /\ IF Accepts(c)
     THEN Update(c, [conn[c] EXCEPT !.queue = Append(@, Tpdu("last", c, s))])
     ELSE UNCHANGED conn

-----------------------------------------------------------------------------
(* en50221_tl_poll: the link message *)

PollRead ==
  /\ stk.pc = "poll"
  /\ \/ /\ fromCam = <<>>
        /\ stk' = [NoStack EXCEPT !.pc = "conns", !.at = 1]
        /\ UNCHANGED <<fromCam, fails>>
     \/ /\ fromCam # <<>>
        /\ fromCam' = Tail(fromCam)
        /\ stk' = [NoStack EXCEPT !.pc = "tpdu", !.rest = Head(fromCam)]
        /\ UNCHANGED fails
     \/ /\ fromCam # <<>> /\ fails < MaxFails
        /\ fails' = fails + 1
        /\ fromCam' = Tail(fromCam)
        /\ PollReturns
  /\ UNCHANGED <<conn, toCam, timeouts, stale>>

Handled == Head(stk.rest)
Now(tag) == stk.pc = "tpdu" /\ Handled.tag = tag
Of       == conn[Handled.c]

\* The states in which a TPDU of the CAM is expected; a request is not checked.
Expected ==
  CASE Handled.tag = "create_reply" -> Of.st = "creation"
    [] Handled.tag = "request"      -> TRUE
    [] OTHER                        -> Of.st = "active"

HandleUnexpected ==
  /\ stk.pc = "tpdu" /\ ~Expected
  /\ PollReturns
  /\ UNCHANGED <<conn, toCam, fromCam, fails, timeouts, stale>>

HandleCreateReply ==
  /\ Now("create_reply") /\ Expected
  /\ Update(Handled.c, [Of EXCEPT !.st = "active", !.wait = "no"])
  /\ Onward
  /\ UNCHANGED <<toCam, fromCam, fails, timeouts, stale>>

\* The upper layer is told only when the reply could be written; tx_time and
\* the queue stay as they are.
HandleDelete ==
  /\ Now("delete") /\ Expected
  /\ Update(Handled.c, [Of EXCEPT !.st = "idle", !.chain = NoSpdu])
  /\ stale' = (stale \/ Of.queue # <<>>)
  /\ \/ Write(Plain("delete_reply", Handled.c))
        /\ stk' = [stk EXCEPT !.pc = "closing", !.at = Handled.c]
     \/ WriteFails /\ PollReturns
  /\ UNCHANGED <<fromCam, timeouts>>

\* NEW_T_C on the connection of the request, CREATE_T_C on the new one, which is
\* idle again when either can't be written.
HandleRequest ==
  /\ Now("request")
  /\ LET c      == Handled.c
         new    == Lowest(IdleConns)
         newTc  == Tpdu("new", c, Spdu("conn", new, "none"))
         create == Plain("create", new)
     IN \/ /\ IdleConns = {}
           /\ Write(Plain("tc_error", c))
           /\ Update(c, [Of EXCEPT !.wait = "no"])
           /\ Onward
        \/ /\ IdleConns # {}
           /\ toCam' = toCam \o <<newTc, create>>
           /\ conn' = [conn EXCEPT ![c].wait = "no", ![new].st = "creation",
                                   ![new].wait = "yes", ![new].chain = NoSpdu]
           /\ UNCHANGED fails
           /\ Onward
        \/ /\ WriteFails
           /\ UNCHANGED conn
           /\ PollReturns
        \/ /\ IdleConns # {} /\ fails < MaxFails
           /\ fails' = fails + 1
           /\ toCam' = Append(toCam, newTc)
           /\ conn' = [conn EXCEPT ![c].wait = "no", ![new].chain = NoSpdu]
           /\ PollReturns
  /\ UNCHANGED <<fromCam, timeouts, stale>>

\* What a chained SPDU is, its first part tells.
Chained == IF Of.chain = NoSpdu THEN Handled.p ELSE Of.chain

HandleMore ==
  /\ Now("more") /\ Expected
  /\ Update(Handled.c, [Of EXCEPT !.wait = "no", !.chain = Chained])
  /\ Onward
  /\ UNCHANGED <<toCam, fromCam, fails, timeouts, stale>>

\* The callback (module Session) runs without slot_lock.
HandleLast ==
  /\ Now("last") /\ Expected
  /\ Update(Handled.c, [Of EXCEPT !.wait = "no", !.chain = NoSpdu])
  /\ stk' = [stk EXCEPT !.pc = "spdu", !.at = Handled.c, !.spdu = Chained]
  /\ UNCHANGED <<toCam, fromCam, fails, timeouts, stale>>

\* Mutant: a status without data leaves the response awaited.
HandleSbWaits ==
  /\ stk.pc = "tpdu" /\ Handled.tag \in {"sb", "sb_data"} /\ Expected
  /\ \/ /\ Handled.tag = "sb_data"
        /\ Write(Plain("rcv", Handled.c))
        /\ Update(Handled.c, [Of EXCEPT !.wait = "yes"])
        /\ Onward
     \/ /\ Handled.tag = "sb"
        /\ Onward
        /\ UNCHANGED <<conn, toCam, fails>>
  /\ UNCHANGED <<fromCam, timeouts, stale>>

\* The status: "sb_data" when the CAM has data, which is then asked for.
HandleSb ==
  /\ stk.pc = "tpdu" /\ Handled.tag \in {"sb", "sb_data"} /\ Expected
  /\ \/ /\ Handled.tag = "sb_data"
        /\ Write(Plain("rcv", Handled.c))
        /\ Update(Handled.c, [Of EXCEPT !.wait = "yes"])
        /\ Onward
     \/ /\ Handled.tag = "sb_data" /\ WriteFails
        /\ PollReturns
        /\ UNCHANGED conn
     \/ /\ Handled.tag = "sb"
        /\ Update(Handled.c, [Of EXCEPT !.wait = "no"])
        /\ Onward
        /\ UNCHANGED <<toCam, fails>>
  /\ UNCHANGED <<fromCam, timeouts, stale>>

HandleTpdu ==
  \/ HandleUnexpected \/ HandleCreateReply \/ HandleDelete \/ HandleRequest
  \/ HandleMore \/ HandleLast \/ HandleSb

-----------------------------------------------------------------------------
(* en50221_tl_poll: the connections *)

At == conn[stk.at]
NextConn == IF stk.at = MaxConn THEN PollReturns
            ELSE stk' = [stk EXCEPT !.at = @ + 1]
MaySend == At.st # "idle" /\ At.queue # <<>> /\ At.wait = "no"

\* A message that could not be written is lost.
ServeSend ==
  /\ stk.pc = "conns" /\ MaySend
  /\ \/ /\ Write(Head(At.queue))
        /\ Update(stk.at, [At EXCEPT !.queue = Tail(@), !.wait = "yes"])
        /\ NextConn
     \/ /\ WriteFails
        /\ Update(stk.at, [At EXCEPT !.queue = Tail(@)])
        /\ PollReturns
  /\ UNCHANGED <<fromCam, timeouts, stale>>

\* poll_delay has elapsed: an empty T_DATA_LAST.
ServePoll ==
  /\ stk.pc = "conns" /\ At.st = "active" /\ At.wait = "no" /\ At.queue = <<>>
  /\ Update(stk.at, [At EXCEPT !.wait = "yes"])
  /\ \/ Write(Plain("last", stk.at)) /\ NextConn
     \/ WriteFails /\ PollReturns
  /\ UNCHANGED <<fromCam, timeouts, stale>>

\* More than response_timeout: what is being created is given up; an active
\* connection makes every poll fail here, until the CAM answers after all.
ServeLate ==
  /\ stk.pc = "conns" /\ At.st # "idle"
  /\ \/ At.wait = "yes" /\ timeouts < MaxTimeouts /\ timeouts' = timeouts + 1
     \/ At.wait = "late" /\ UNCHANGED timeouts
  /\ IF At.st = "creation"
     THEN Update(stk.at, [At EXCEPT !.st = "idle", !.wait = "late"]) /\ NextConn
     ELSE Update(stk.at, [At EXCEPT !.wait = "late"]) /\ PollReturns
  /\ UNCHANGED <<toCam, fromCam, fails, stale>>

\* Nothing to do: idle, or a response is awaited, or poll_delay has not elapsed.
ServeNothing ==
  /\ stk.pc = "conns"
  /\ \/ At.st = "idle"
     \/ At.wait = "yes"
     \/ At.wait = "no" /\ At.queue = <<>>
  /\ NextConn
  /\ UNCHANGED <<conn, toCam, fromCam, fails, timeouts, stale>>

Serve == ServeSend \/ ServePoll \/ ServeLate \/ ServeNothing

=============================================================================
