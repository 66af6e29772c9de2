------------------------------ MODULE TsStream ------------------------------
(***************************************************************************)
(* What the TS pipeline of libjokertv promises to the caller of            *)
(* read_ts_data: a lossy, ordered stream.  The stream received from the    *)
(* card is the numbers 0, 1, 2, ... (a number stands for one TS packet);   *)
(* the reader is handed increasing, disjoint intervals of it.  Data may be *)
(* skipped (memory limit, restart), never repeated and never reordered.    *)
(***************************************************************************)
EXTENDS Naturals

VARIABLES
  rcvd,   \* number of packets received from the card so far
  head,   \* position of the next packet the reader may be handed
  out     \* the last interval handed to the reader: [from, to)

streamVars == <<rcvd, head, out>>

StreamInit ==
  /\ rcvd = 0
  /\ head = 0
  /\ out = [from |-> 0, to |-> 0]

\* The card delivers more data (none at all is possible).
Receive ==
  /\ rcvd' \in Nat
  /\ rcvd' >= rcvd
  /\ UNCHANGED <<head, out>>

\* Undelivered data is given up, oldest first.
Skip ==
  /\ head' \in head .. rcvd
  /\ UNCHANGED <<rcvd, out>>

\* The reader gets the next k packets.
Deliver ==
  /\ head' \in (head + 1) .. rcvd
  /\ out' = [from |-> head, to |-> head']
  /\ UNCHANGED rcvd

StreamNext == Receive \/ Skip \/ Deliver

StreamSpec == StreamInit /\ [][StreamNext]_streamVars
=============================================================================
