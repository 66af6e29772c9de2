-------------------------------- MODULE CaPmt --------------------------------
(***************************************************************************)
(* How libjokertv tells the CAM which programs to descramble               *)
(* (src/src/joker_en50221.c).  The list of programs is shared by           *)
(*   - the application: descramble_add, descramble_clear,                  *)
(*   - process_ts: pmt_update, when a new PMT was decoded, and             *)
(*   - the EN 50221 stack thread: the CA session and its info reply.       *)
(* jen->mux protects the list; the number of the CA session is written by  *)
(* the session callback without it, so a session may be closed or opened   *)
(* between two CA PMT objects of one list.                                 *)
(*                                                                         *)
(* A section is a PMT as far as the code compares it: its version number   *)
(* and its current_next indicator.  The CAM is outside the repository:     *)
(* CamReceive is what EN 50221 asks of it, and what sync_cam relies on.    *)
(***************************************************************************)
EXTENDS Naturals, SequencesExt

CONSTANTS
  Programs,   \* program numbers
  Sections,   \* PMT sections a program may be announced with
  NoPmt,      \* no section
  Faults      \* "send": formatting or sending a CA PMT object may fail

FirstKnown == <<0, 0>>   \* i_version and b_current_next of a new program

ASSUME ConstantsAssumption ==
  /\ IsFiniteSet(Programs)
  /\ Sections \subseteq Nat \X {0, 1}
  /\ NoPmt \notin Sections
  /\ Faults \subseteq {"send"}

VARIABLES
  programs,     \* jen->programs_list
  ciStatus,     \* ci_status of each program: CI_NONE, CI_INIT or CI_CAM_SENT
  pmt,          \* pmt of each program
  known,        \* i_version and b_current_next of each program
  caConnected,  \* jen->ca_connected
  session,      \* jen->ca_session_number is one of an open session
  asked,        \* the CAM was asked for its CA info and has not replied
  mux,          \* owner of jen->mux: "free", "ts" or "cam" (in sync_cam)
  sync,         \* sync_cam: next position of the list, count and i
  cam,          \* CAM: the section each program is descrambled by
  camList,      \* CAM: the list being received
  synced        \* history: the info reply of this session was followed up

hostVars == <<programs, ciStatus, pmt, known>>
camVars  == <<cam, camList>>
vars == <<hostVars, caConnected, session, asked, mux, sync, camVars, synced>>

Nothing == [p \in Programs |-> NoPmt]
NoList  == [open |-> FALSE, content |-> Nothing]
NoSync  == [next |-> 1, count |-> 0, i |-> 0]

Init ==
  /\ programs = <<>>
  /\ ciStatus = [p \in Programs |-> "CI_NONE"]
  /\ pmt = Nothing
  /\ known = [p \in Programs |-> FirstKnown]
  /\ caConnected = FALSE /\ session = FALSE /\ asked = FALSE
  /\ mux = "free" /\ sync = NoSync
  /\ cam = Nothing /\ camList = NoList /\ synced = FALSE

-----------------------------------------------------------------------------
(* The CAM *)

CamReceive(p, mgmt) ==
  CASE mgmt = "only" ->
         cam' = [Nothing EXCEPT ![p] = pmt'[p]] /\ camList' = NoList
    [] mgmt = "first" ->
         /\ camList' = [open |-> TRUE, content |-> [Nothing EXCEPT ![p] = pmt'[p]]]
         /\ UNCHANGED cam
    [] mgmt = "more" ->
         /\ camList' = IF camList.open
                       THEN [camList EXCEPT !.content[p] = pmt'[p]] ELSE camList
         /\ UNCHANGED cam
    [] mgmt = "last" ->
         /\ cam' = IF camList.open
                   THEN [camList.content EXCEPT ![p] = pmt'[p]] ELSE cam
         /\ camList' = NoList
    [] mgmt = "update" ->
         /\ cam' = IF cam[p] # NoPmt THEN [cam EXCEPT ![p] = pmt'[p]] ELSE cam
         /\ UNCHANGED camList

\* The number of the session is -1 when there is none: nothing is sent.
SendFails == (~session \/ "send" \in Faults) /\ UNCHANGED camVars

-----------------------------------------------------------------------------
(* sync_cam *)

\* Mutant: programs the application does not want descrambled are counted.
WantedAll == {p \in ToSet(programs) : pmt[p] # NoPmt}

\* The programs counted, and then sent, by sync_cam.
Wanted == {p \in ToSet(programs) : ciStatus[p] # "CI_NONE" /\ pmt[p] # NoPmt}

\* Lines 1324-1339: nothing is done while the CAM is not ready.
StartSync(by) ==
  IF caConnected' /\ Wanted' # {}
  THEN /\ mux' = by
       /\ sync' = [next |-> 1, count |-> Cardinality(Wanted'), i |-> 0]
  ELSE UNCHANGED <<mux, sync>>

\* Mutant: the last of the list is not announced as such.
ListMgmtNoLast ==
  IF sync.count = 1 THEN "only" ELSE IF sync.i = 0 THEN "first" ELSE "more"

ListMgmt ==
  CASE sync.count = 1 -> "only"
    [] sync.count > 1 /\ sync.i = 0 -> "first"
    [] sync.count > 1 /\ sync.i > 0 /\ sync.i + 1 = sync.count -> "last"
    [] OTHER -> "more"

\* Lines 1341-1384, one iteration.  A program that can't be formatted or sent
\* is skipped; the list goes on with the next.
SyncProgram ==
  /\ mux # "free"
  /\ sync.next <= Len(programs)
  /\ UNCHANGED <<programs, pmt, known, caConnected, session, asked, mux, synced>>
  /\ LET p == programs[sync.next] IN
     \/ /\ p \notin Wanted
        /\ sync' = [sync EXCEPT !.next = @ + 1]
        /\ UNCHANGED <<ciStatus, camVars>>
     \/ /\ p \in Wanted /\ session
        /\ CamReceive(p, ListMgmt)
        /\ ciStatus' = [ciStatus EXCEPT ![p] = "CI_CAM_SENT"]
        /\ sync' = [next |-> sync.next + 1, count |-> sync.count, i |-> sync.i + 1]
     \/ /\ p \in Wanted
        /\ SendFails
        /\ sync' = [sync EXCEPT !.next = @ + 1]
        /\ UNCHANGED ciStatus

\* Lines 1387-1429 (queries and the TS switch leave the list alone), then the
\* caller's unlock.
SyncDone ==
  /\ mux # "free"
  /\ sync.next > Len(programs)
  /\ mux' = "free"
  /\ sync' = NoSync
  /\ synced' = (synced \/ (mux = "cam" /\ session))
  /\ UNCHANGED <<hostVars, caConnected, session, asked, camVars>>

-----------------------------------------------------------------------------
(* The application and process_ts *)

\* Mutant: the program is appended without being searched for.
AddAlways(p) == programs' = Append(programs, p)

AddOrFind(p) ==
  programs' = IF p \in ToSet(programs) THEN programs ELSE Append(programs, p)

DescrambleAdd(p) ==
  /\ mux = "free"
  /\ AddOrFind(p)
  /\ ciStatus' = [ciStatus EXCEPT ![p] = "CI_INIT"]
  /\ UNCHANGED <<pmt, known, caConnected, session, asked, mux, sync, camVars,
                 synced>>

DescrambleClear ==
  /\ mux = "free"
  /\ ciStatus' = [p \in Programs |->
                    IF p \in ToSet(programs) THEN "CI_NONE" ELSE ciStatus[p]]
  /\ UNCHANGED <<programs, pmt, known, caConnected, session, asked, mux, sync,
                 camVars, synced>>

\* Lines 1524-1554: what a new PMT means for the CAM.
PmtToCam(p) ==
  CASE ciStatus[p] = "CI_CAM_SENT" ->
         /\ \/ session /\ CamReceive(p, "update")
            \/ SendFails
         /\ UNCHANGED <<mux, sync>>
    [] ciStatus[p] = "CI_INIT" -> StartSync("ts") /\ UNCHANGED camVars
    [] OTHER -> UNCHANGED <<mux, sync, camVars>>

\* pmt_update: only a change of version or current_next matters.
PmtUpdate(p, s) ==
  /\ mux = "free"
  /\ AddOrFind(p)
  /\ UNCHANGED <<ciStatus, caConnected, session, asked, synced>>
  /\ IF known[p] = s
     THEN UNCHANGED <<pmt, known, mux, sync, camVars>>
     ELSE /\ pmt' = [pmt EXCEPT ![p] = s]
          /\ known' = [known EXCEPT ![p] = s]
          /\ PmtToCam(p)

-----------------------------------------------------------------------------
(* The EN 50221 stack thread: it runs its callbacks one after the other. *)

\* test_session_callback, CAMCONNECTED: CA info is asked for, without mux.
CaConnected ==
  /\ mux # "cam"
  /\ ~session
  /\ session' = TRUE
  /\ asked' = TRUE
  /\ UNCHANGED <<hostVars, caConnected, mux, sync, camVars, synced>>

\* test_session_callback, CLOSE, without mux; the CAM forgets what it was sent.
\* ca_connected stays set.
CaClosed ==
  /\ mux # "cam"
  /\ session
  /\ session' = FALSE
  /\ asked' = FALSE
  /\ cam' = Nothing /\ camList' = NoList /\ synced' = FALSE
  /\ UNCHANGED <<hostVars, caConnected, mux, sync>>

\* Mutant: the CAM's reply is not followed by sync_cam.
CaInfoOnly ==
  /\ mux = "free"
  /\ asked
  /\ asked' = FALSE
  /\ caConnected' = TRUE
  /\ synced' = TRUE
  /\ UNCHANGED <<hostVars, mux, sync, session, camVars>>

\* test_ca_info_callback; with no program to send sync_cam is over at once.
CaInfo ==
  /\ mux = "free"
  /\ asked
  /\ asked' = FALSE
  /\ caConnected' = TRUE
  /\ UNCHANGED hostVars
  /\ StartSync("cam")
  /\ synced' = (mux' = "free")
  /\ UNCHANGED <<session, camVars>>

-----------------------------------------------------------------------------
Sync == SyncProgram \/ SyncDone

Next ==
  \/ Sync
  \/ \E p \in Programs : DescrambleAdd(p) \/ \E s \in Sections : PmtUpdate(p, s)
  \/ DescrambleClear
  \/ CaConnected \/ CaClosed \/ CaInfo

Spec == Init /\ [][Next]_vars

\* The threads run on, and the stack thread gets jen->mux in the end when the
\* CAM's reply is there: the others hold it for the length of a call.
FairSpec == Spec /\ WF_vars(Sync) /\ SF_vars(CaInfo)

-----------------------------------------------------------------------------
\* Types, and a list where each program has one entry and only programs of the
\* list have data.
TypeOK ==
  /\ programs \in Seq(Programs)
  /\ ciStatus \in [Programs -> {"CI_NONE", "CI_INIT", "CI_CAM_SENT"}]
  /\ pmt \in [Programs -> Sections \cup {NoPmt}]
  /\ known \in [Programs -> Sections \cup {FirstKnown}]
  /\ caConnected \in BOOLEAN /\ session \in BOOLEAN /\ asked \in BOOLEAN
  /\ mux \in {"free", "ts", "cam"}
  /\ sync \in [next : Nat \ {0}, count : Nat, i : Nat]
  /\ cam \in [Programs -> Sections \cup {NoPmt}]
  /\ camList \in [open : BOOLEAN, content : [Programs -> Sections \cup {NoPmt}]]
  /\ synced \in BOOLEAN

ListInv ==
  /\ IsInjective(programs)
  /\ \A p \in Programs \ ToSet(programs) : ciStatus[p] = "CI_NONE" /\ pmt[p] = NoPmt

IInv == TypeOK /\ ListInv

\* A program marked as sent is descrambled by the CAM, with its latest PMT:
\* "now program is inside CAM we should update CAM if PMT changes for this
\* program" (joker_en50221.c:1379-1380).
SentIsInside ==
  (mux = "free" /\ synced) =>
     \A p \in Programs : ciStatus[p] = "CI_CAM_SENT" => cam[p] = pmt[p]

\* The CAM starts to descramble a program, or gets a new PMT of one, only while
\* the application wants it.
OnlyIntended ==
  [][\A p \in Programs : cam'[p] # cam[p] /\ cam'[p] # NoPmt
       => ciStatus[p] # "CI_NONE"]_vars

\* A CAM that was asked for its CA info ends up with every program the
\* application wants, each with its latest PMT, unless its session is closed.
CamIsServed ==
  asked ~> \/ ~session
           \/ ~asked /\ mux = "free" /\ \A p \in Wanted : cam[p] = pmt[p]
=============================================================================
