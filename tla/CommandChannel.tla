--------------------------- MODULE CommandChannel ---------------------------
(***************************************************************************)
(* What joker_io (src/src/joker_fpga.c) promises to the threads that       *)
(* exchange commands and replies with the FPGA: one exchange at a time,    *)
(* and replies in the order of their commands, each handed out at most     *)
(* once.  A command number answered - 1 behind gets its own reply; while   *)
(* replies of earlier commands are owed (their read timed out) a caller    *)
(* may be handed one of those in place of its own.                         *)
(***************************************************************************)
EXTENDS Naturals

VARIABLES
  asked,     \* number of the last command that was sent and wants a reply
  answered,  \* number of the last command whose reply was taken
  waiting    \* a caller is between its command and its reply

channelVars == <<asked, answered, waiting>>

ChannelInit ==
  /\ asked \in Nat /\ answered \in 0 .. asked
  /\ waiting = FALSE

\* A command is sent; a caller told that it failed does not wait.
Ask ==
  /\ ~waiting
  /\ asked' = asked + 1
  /\ waiting' \in BOOLEAN
  /\ UNCHANGED answered

\* The caller is handed the oldest reply there is: its own when none is owed.
Answer ==
  /\ waiting
  /\ answered' \in answered + 1 .. asked
  /\ waiting' = FALSE
  /\ UNCHANGED asked

\* The caller stops to wait (timeout, error, end of the process).
GiveUp ==
  /\ waiting
  /\ waiting' = FALSE
  /\ UNCHANGED <<asked, answered>>

\* Replies nobody waits for are thrown away.
Discard ==
  /\ ~waiting
  /\ answered' \in answered + 1 .. asked
  /\ UNCHANGED <<asked, waiting>>

ChannelNext == Ask \/ Answer \/ GiveUp \/ Discard

ChannelSpec == ChannelInit /\ [][ChannelNext]_channelVars
=============================================================================
