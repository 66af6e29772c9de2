----------------------------- MODULE CaPmtProofs -----------------------------
(***************************************************************************)
(* The list of programs of joker_en50221.c has one entry per program, and  *)
(* only programs of the list have data, for any finite set of programs and *)
(* whatever is sent, opened and closed meanwhile; the CAM gets no program  *)
(* that was not asked for, and when nothing fails it has every program the *)
(* list says it has.                                                       *)
(***************************************************************************)
EXTENDS CaPmt, FiniteSetTheorems, SequenceTheorems, TLAPS

(* The list *)

LEMMA ToSetOfSeq ==
  ASSUME NEW s \in Seq(Programs)
  PROVE  ToSet(s) \subseteq Programs
  BY ElementOfSeq DEF ToSet

\* A program that is not on the list is appended: no entry is repeated.
LEMMA AppendNew ==
  ASSUME NEW s \in Seq(Programs), IsInjective(s),
         NEW p \in Programs, p \notin ToSet(s)
  PROVE  /\ Append(s, p) \in Seq(Programs)
         /\ IsInjective(Append(s, p))
         /\ ToSet(Append(s, p)) = ToSet(s) \cup {p}
  <1> DEFINE t == Append(s, p)
  <1>1. /\ t \in Seq(Programs)
        /\ DOMAIN t = 1 .. Len(s) + 1
        /\ \A i \in 1 .. Len(s) : t[i] = s[i]
        /\ t[Len(s) + 1] = p
    BY AppendProperties
  <1>2. DOMAIN s = 1 .. Len(s) /\ Len(s) \in Nat
    OBVIOUS
  <1>3. \A i \in 1 .. Len(s) : s[i] # p
    BY <1>2 DEF ToSet
  <1>4. \A i \in DOMAIN t : i = Len(s) + 1 \/ i \in 1 .. Len(s)
    BY <1>1, <1>2
  <1> HIDE DEF t
  <1>5. IsInjective(t)
    BY <1>1, <1>2, <1>3, <1>4 DEF IsInjective
  <1>6. ToSet(t) = ToSet(s) \cup {p}
    <2>1. \A x \in ToSet(t) : x \in ToSet(s) \cup {p}
      BY <1>1, <1>2, <1>4 DEF ToSet
    <2>2. \A i \in DOMAIN s : s[i] \in ToSet(t)
      <3> SUFFICES ASSUME NEW i \in DOMAIN s
                   PROVE  s[i] \in ToSet(t)
        OBVIOUS
      <3>1. i \in DOMAIN t /\ t[i] = s[i]
        BY <1>1, <1>2
      <3> QED
        BY <3>1 DEF ToSet
    <2>3. p \in ToSet(t)
      <3>1. Len(s) + 1 \in DOMAIN t
        BY <1>1, <1>2
      <3> QED
        BY <1>1, <3>1 DEF ToSet
    <2> QED
      BY <2>1, <2>2, <2>3 DEF ToSet
  <1> QED
    BY <1>1, <1>5, <1>6 DEF t

ListTyped == programs \in Seq(Programs) /\ IsInjective(programs)

LEMMA AddOrFindKeepsList ==
  ASSUME ListTyped, NEW p \in Programs, AddOrFind(p)
  PROVE  ListTyped' /\ ToSet(programs)' = ToSet(programs) \cup {p}
  <1>1. CASE p \in ToSet(programs)
    BY <1>1 DEF ListTyped, AddOrFind, ToSet
  <1>2. CASE p \notin ToSet(programs)
    <2>1. programs' = Append(programs, p)
      BY <1>2 DEF AddOrFind
    <2> QED
      BY <1>2, <2>1, AppendNew DEF ListTyped
  <1> QED
    BY <1>1, <1>2

\* sync_cam counts programs of the list: a natural number of them.
LEMMA WantedCounted ==
  ASSUME programs \in Seq(Programs)
  PROVE  Cardinality(Wanted) \in Nat
  <1>1. Wanted \subseteq Programs
    BY ToSetOfSeq DEF Wanted
  <1> QED
    BY <1>1, FS_Subset, FS_CardinalityType, ConstantsAssumption

-----------------------------------------------------------------------------
(* The CAM *)

Content == [Programs -> Sections \cup {NoPmt}]

CamTyped ==
  /\ cam \in Content
  /\ camList \in [open : BOOLEAN, content : Content]

LEMMA CamReceiveTyped ==
  ASSUME CamTyped, pmt' \in Content, NEW p \in Programs,
         NEW mgmt \in {"only", "first", "more", "last", "update"},
         CamReceive(p, mgmt)
  PROVE  CamTyped'
  <1>1. /\ Nothing \in Content
        /\ NoList \in [open : BOOLEAN, content : Content]
    BY DEF Nothing, NoList, Content
  <1>2. /\ pmt'[p] \in Sections \cup {NoPmt}
        /\ camList.content \in Content
    BY DEF CamTyped, Content
  <1>3. /\ [Nothing EXCEPT ![p] = pmt'[p]] \in Content
        /\ [camList.content EXCEPT ![p] = pmt'[p]] \in Content
        /\ [cam EXCEPT ![p] = pmt'[p]] \in Content
    BY <1>1, <1>2 DEF CamTyped, Content
  <1>4. CASE mgmt = "only"
    <2>1. cam' = [Nothing EXCEPT ![p] = pmt'[p]] /\ camList' = NoList
      BY <1>4 DEF CamReceive
    <2> QED
      BY <1>1, <1>3, <2>1 DEF CamTyped
  <1>5. CASE mgmt = "first"
    <2>1. /\ camList' = [open |-> TRUE, content |-> [Nothing EXCEPT ![p] = pmt'[p]]]
          /\ cam' = cam
      BY <1>5 DEF CamReceive
    <2> QED
      BY <1>3, <2>1 DEF CamTyped
  <1>6. CASE mgmt = "more"
    <2>1. [camList EXCEPT !.content[p] = pmt'[p]]
            \in [open : BOOLEAN, content : Content]
      BY <1>2, <1>3 DEF CamTyped
    <2> QED
      BY <1>6, <2>1 DEF CamReceive, CamTyped
  <1>7. CASE mgmt = "last"
    BY <1>1, <1>3, <1>7 DEF CamReceive, CamTyped
  <1>8. CASE mgmt = "update"
    BY <1>3, <1>8 DEF CamReceive, CamTyped
  <1> QED
    BY <1>4, <1>5, <1>6, <1>7, <1>8

LEMMA SendFailsTyped ==
  ASSUME CamTyped, SendFails
  PROVE  CamTyped'
  BY DEF SendFails, CamTyped, camVars

-----------------------------------------------------------------------------
(* The invariant *)

SyncTyped ==
  /\ mux \in {"free", "ts", "cam"}
  /\ sync \in [next : Nat \ {0}, count : Nat, i : Nat]

StackTyped ==
  /\ caConnected \in BOOLEAN /\ session \in BOOLEAN /\ asked \in BOOLEAN
  /\ synced \in BOOLEAN

DataTyped ==
  /\ ciStatus \in [Programs -> {"CI_NONE", "CI_INIT", "CI_CAM_SENT"}]
  /\ pmt \in Content
  /\ known \in [Programs -> Sections \cup {FirstKnown}]

OnlyListed ==
  \A p \in Programs \ ToSet(programs) : ciStatus[p] = "CI_NONE" /\ pmt[p] = NoPmt

Parts == ListTyped /\ DataTyped /\ OnlyListed /\ StackTyped /\ SyncTyped /\ CamTyped

LEMMA InvariantParts == IInv <=> Parts
  BY DEF IInv, Parts, TypeOK, ListInv, ListTyped, DataTyped, OnlyListed,
         StackTyped, SyncTyped, CamTyped, Content

LEMMA InitList == Init => Parts
  <1> SUFFICES ASSUME Init
               PROVE  Parts
    OBVIOUS
  <1>1. ListTyped
    BY DEF Init, ListTyped, IsInjective
  <1>2. DataTyped
    BY DEF Init, DataTyped, Nothing, Content
  <1>3. OnlyListed
    BY DEF Init, OnlyListed, Nothing
  <1>4. StackTyped
    BY DEF Init, StackTyped
  <1>5. SyncTyped
    BY DEF Init, SyncTyped, NoSync
  <1>6. CamTyped
    BY DEF Init, CamTyped, Nothing, NoList, Content
  <1> QED
    BY <1>1, <1>2, <1>3, <1>4, <1>5, <1>6 DEF Parts

\* The start of sync_cam leaves a well-formed position behind.
LEMMA StartSyncTyped ==
  ASSUME SyncTyped, programs' \in Seq(Programs), NEW by \in {"ts", "cam"},
         StartSync(by)
  PROVE  SyncTyped'
  <1>1. Cardinality(Wanted') \in Nat
    <2>1. Wanted' \subseteq Programs
      BY ToSetOfSeq DEF Wanted
    <2> QED
      BY <2>1, FS_Subset, FS_CardinalityType, ConstantsAssumption
  <1> QED
    BY <1>1 DEF StartSync, SyncTyped

LEMMA NextList ==
  ASSUME Parts, [Next]_vars
  PROVE  Parts'
  <1> USE DEF Parts
  <1>1. CASE SyncProgram
    <2>1. ListTyped' /\ StackTyped' /\ UNCHANGED <<programs, pmt, known, mux>>
      BY <1>1 DEF SyncProgram, ListTyped, StackTyped
    <2> DEFINE p == programs[sync.next]
    <2>2. p \in Programs /\ p \in ToSet(programs)
      <3>1. programs \in Seq(Programs) /\ sync.next \in 1 .. Len(programs)
        BY <1>1 DEF SyncProgram, ListTyped, SyncTyped
      <3> QED
        BY <3>1, ElementOfSeq DEF ToSet
    <2>3. /\ ciStatus' \in {ciStatus, [ciStatus EXCEPT ![p] = "CI_CAM_SENT"]}
          /\ sync' \in {[sync EXCEPT !.next = @ + 1],
                        [next |-> sync.next + 1, count |-> sync.count, i |-> sync.i + 1]}
      BY <1>1 DEF SyncProgram
    <2> HIDE DEF p
    <2>4. DataTyped' /\ OnlyListed'
      BY <2>1, <2>2, <2>3 DEF DataTyped, OnlyListed
    <2>5. SyncTyped'
      <3>1. sync' \in [next : Nat \ {0}, count : Nat, i : Nat]
        <4> DEFINE Position == [next : Nat \ {0}, count : Nat, i : Nat]
        <4>1. [sync EXCEPT !.next = @ + 1] \in Position
          BY DEF SyncTyped
        <4>2. [next |-> sync.next + 1, count |-> sync.count, i |-> sync.i + 1]
                \in Position
          BY DEF SyncTyped
        <4> QED
          BY <2>3, <4>1, <4>2
      <3> QED
        BY <2>1, <3>1 DEF SyncTyped
    <2>6. CamTyped'
      <3>1. ListMgmt \in {"only", "first", "more", "last"}
        BY DEF ListMgmt
      <3>2. \/ UNCHANGED camVars
            \/ CamReceive(p, ListMgmt)
            \/ SendFails
        BY <1>1 DEF SyncProgram, p
      <3>3. pmt' \in Content
        BY <2>4 DEF DataTyped
      <3>4. CASE UNCHANGED camVars
        BY <3>4 DEF CamTyped, camVars
      <3> QED
        BY <2>2, <3>1, <3>2, <3>3, <3>4, CamReceiveTyped, SendFailsTyped
    <2> QED
      BY <2>1, <2>4, <2>5, <2>6
  <1>2. CASE SyncDone
    <2>1. ListTyped' /\ DataTyped' /\ OnlyListed' /\ CamTyped'
      BY <1>2 DEF SyncDone, hostVars, camVars, ListTyped, DataTyped, OnlyListed, CamTyped
    <2>2. StackTyped' /\ SyncTyped'
      BY <1>2 DEF SyncDone, StackTyped, SyncTyped, NoSync
    <2> QED
      BY <2>1, <2>2
  <1>3. CASE \E p \in Programs : DescrambleAdd(p)
    <2>1. PICK p \in Programs : DescrambleAdd(p)
      BY <1>3
    <2>2. ListTyped' /\ ToSet(programs)' = ToSet(programs) \cup {p}
      BY <2>1, AddOrFindKeepsList DEF DescrambleAdd
    <2>3. DataTyped' /\ OnlyListed'
      BY <2>1, <2>2 DEF DescrambleAdd, DataTyped, OnlyListed
    <2>4. StackTyped' /\ SyncTyped' /\ CamTyped'
      BY <2>1 DEF DescrambleAdd, camVars, StackTyped, SyncTyped, CamTyped
    <2> QED
      BY <2>2, <2>3, <2>4
  <1>4. CASE \E p \in Programs : \E s \in Sections : PmtUpdate(p, s)
    <2>1. PICK p \in Programs, s \in Sections : PmtUpdate(p, s)
      BY <1>4
    <2>2. ListTyped' /\ ToSet(programs)' = ToSet(programs) \cup {p}
      BY <2>1, AddOrFindKeepsList DEF PmtUpdate
    <2>3. StackTyped'
      BY <2>1 DEF PmtUpdate, StackTyped
    <2>4. /\ ciStatus' = ciStatus
          /\ \/ pmt' = pmt /\ known' = known
             \/ pmt' = [pmt EXCEPT ![p] = s] /\ known' = [known EXCEPT ![p] = s]
      BY <2>1 DEF PmtUpdate
    <2>5. DataTyped' /\ OnlyListed'
      BY <2>2, <2>4 DEF DataTyped, OnlyListed, Content
    <2>6. CASE UNCHANGED <<mux, sync, camVars>>
      BY <2>2, <2>3, <2>5, <2>6 DEF SyncTyped, CamTyped, camVars
    <2>7. CASE PmtToCam(p)
      <3>1. pmt' \in Content /\ programs' \in Seq(Programs)
        BY <2>2, <2>5 DEF DataTyped, ListTyped
      <3>2. CASE ciStatus[p] = "CI_CAM_SENT"
        <4>1. UNCHANGED <<mux, sync>> /\ (CamReceive(p, "update") \/ SendFails)
          BY <2>7, <3>2 DEF PmtToCam
        <4>2. SyncTyped'
          BY <4>1 DEF SyncTyped
        <4>3. CamTyped'
          BY <3>1, <4>1, CamReceiveTyped, SendFailsTyped
        <4> QED
          BY <2>2, <2>3, <2>5, <4>2, <4>3
      <3>3. CASE ciStatus[p] = "CI_INIT"
        <4>1. StartSync("ts") /\ UNCHANGED camVars
          BY <2>7, <3>3 DEF PmtToCam
        <4>2. SyncTyped'
          BY <3>1, <4>1, StartSyncTyped
        <4>3. CamTyped'
          BY <4>1 DEF CamTyped, camVars
        <4> QED
          BY <2>2, <2>3, <2>5, <4>2, <4>3
      <3>4. CASE ciStatus[p] \notin {"CI_CAM_SENT", "CI_INIT"}
        BY <2>2, <2>3, <2>5, <2>7, <3>4 DEF PmtToCam, SyncTyped, CamTyped, camVars
      <3> QED
        BY <3>2, <3>3, <3>4
    <2> QED
      BY <2>1, <2>6, <2>7 DEF PmtUpdate
  <1>5. CASE DescrambleClear
    <2>1. ListTyped' /\ StackTyped' /\ SyncTyped' /\ CamTyped'
      BY <1>5 DEF DescrambleClear, ListTyped, StackTyped, SyncTyped, CamTyped, camVars
    <2>2. DataTyped' /\ OnlyListed'
      BY <1>5 DEF DescrambleClear, DataTyped, OnlyListed
    <2> QED
      BY <2>1, <2>2
  <1>6. CASE CaConnected \/ CaClosed
    <2>1. ListTyped' /\ DataTyped' /\ OnlyListed' /\ SyncTyped'
      BY <1>6 DEF CaConnected, CaClosed, hostVars, ListTyped, DataTyped, OnlyListed, SyncTyped
    <2>2. StackTyped'
      BY <1>6 DEF CaConnected, CaClosed, StackTyped
    <2>3. CamTyped'
      <3>1. CASE CaConnected
        BY <3>1 DEF CaConnected, camVars, CamTyped
      <3>2. CASE CaClosed
        <4>1. cam' = Nothing /\ camList' = NoList
          BY <3>2 DEF CaClosed
        <4> QED
          BY <4>1 DEF CamTyped, Nothing, NoList, Content
      <3> QED
        BY <1>6, <3>1, <3>2
    <2> QED
      BY <2>1, <2>2, <2>3
  <1>7. CASE CaInfo
    <2>1. ListTyped' /\ DataTyped' /\ OnlyListed' /\ CamTyped'
      BY <1>7 DEF CaInfo, hostVars, camVars, ListTyped, DataTyped, OnlyListed, CamTyped
    <2>2. StackTyped'
      BY <1>7 DEF CaInfo, StackTyped
    <2>3. SyncTyped'
      BY <1>7, <2>1, StartSyncTyped DEF CaInfo, ListTyped
    <2> QED
      BY <2>1, <2>2, <2>3
  <1>8. CASE UNCHANGED vars
    BY <1>8 DEF vars, hostVars, camVars, ListTyped, DataTyped, OnlyListed,
                StackTyped, SyncTyped, CamTyped
  <1> QED
    BY <1>1, <1>2, <1>3, <1>4, <1>5, <1>6, <1>7, <1>8 DEF Next, Sync

\* The list of programs shared by the application, process_ts and the CAM stack
\* keeps one entry per program, and data only for listed programs.
THEOREM ListInvariant == Spec => []IInv
  BY InitList, NextList, InvariantParts, PTL DEF Spec

(***************************************************************************)
(* What a list of CA PMT objects holds while sync_cam sends it.            *)
(***************************************************************************)

\* The CAM collects only programs the application wants: a list that sync_cam
\* has begun was opened by this call, or was thrown away with its session.
IntendedInv ==
  mux # "free" =>
     /\ sync.count > 0
     /\ sync.i > 0 /\ camList.open =>
          \A p \in Programs : camList.content[p] # NoPmt => ciStatus[p] # "CI_NONE"

\* The programs sync_cam sends that stand before its position.
Passed == {p \in Wanted : \E k \in 1 .. sync.next - 1 : programs[k] = p}

\* A call of sync_cam whose session was open from its beginning.
Followed == mux = "cam" \/ (mux = "ts" /\ synced)

\* Such a call has sent every program it passed, on the list it announced.
ProgressInv ==
  Followed =>
     /\ sync.next <= Len(programs) + 1
     /\ sync.count = Cardinality(Wanted) /\ sync.i = Cardinality(Passed)
     /\ 0 < sync.i /\ sync.i < sync.count =>
          camList.open /\ \A p \in Passed : camList.content[p] = pmt[p]
     /\ sync.i = sync.count => \A p \in Passed : cam[p] = pmt[p]

\* What is known of a session: it was opened before anything is asked or sent.
SessionInv ==
  /\ asked \/ synced \/ mux = "cam" => session
  /\ \A p \in Programs : ciStatus[p] = "CI_CAM_SENT" => pmt[p] # NoPmt


-----------------------------------------------------------------------------
(* sync_cam *)

LEMMA Counted ==
  ASSUME NEW W, W \subseteq Programs
  PROVE  /\ IsFiniteSet(W) /\ Cardinality(W) \in Nat
         /\ Cardinality(W) = 0 <=> W = {}
  BY FS_Subset, FS_CardinalityType, FS_EmptySet, ConstantsAssumption

\* One iteration: where it stands, and what it leaves as it was.
LEMMA SyncIteration ==
  ASSUME Parts, SyncProgram, NEW p, p = programs[sync.next]
  PROVE  /\ sync.next \in 1 .. Len(programs) /\ p \in Programs
         /\ p \in ToSet(programs) /\ p \notin Passed
         /\ Wanted \subseteq Programs /\ Passed \subseteq Wanted
         /\ Wanted' = Wanted /\ sync'.next = sync.next + 1
         /\ sync'.count = sync.count
         /\ UNCHANGED <<programs, pmt, mux, synced, session>>
         /\ p \in Wanted => Passed' = Passed \cup {p}
         /\ p \notin Wanted => Passed' = Passed
  <1>1. /\ programs \in Seq(Programs) /\ IsInjective(programs)
        /\ sync.next \in 1 .. Len(programs)
        /\ Len(programs) \in Nat /\ DOMAIN programs = 1 .. Len(programs)
    BY DEF SyncProgram, Parts, ListTyped, SyncTyped
  <1>2. p \in Programs /\ p \in ToSet(programs)
    BY <1>1, ElementOfSeq DEF ToSet
  <1>3. Wanted \subseteq Programs /\ Passed \subseteq Wanted
    BY <1>1, ToSetOfSeq DEF Wanted, Passed
  <1>4. UNCHANGED <<programs, pmt, mux, synced, session>>
    BY DEF SyncProgram
  <1>5. sync'.next = sync.next + 1 /\ sync'.count = sync.count
    <2>1. \/ sync' = [sync EXCEPT !.next = @ + 1]
          \/ sync' = [next |-> sync.next + 1, count |-> sync.count, i |-> sync.i + 1]
      BY DEF SyncProgram
    <2> QED
      BY <2>1 DEF Parts, SyncTyped
  <1>6. Wanted' = Wanted
    <2>1. \/ ciStatus' = ciStatus
          \/ p \in Wanted /\ ciStatus' = [ciStatus EXCEPT ![p] = "CI_CAM_SENT"]
      BY DEF SyncProgram
    <2>2. \A q \in Programs : ciStatus'[q] = "CI_NONE" <=> ciStatus[q] = "CI_NONE"
      BY <1>2, <2>1 DEF Wanted, Parts, DataTyped
    <2> QED
      BY <1>1, <1>4, <2>2, ToSetOfSeq DEF Wanted
  <1>7. \A k \in 1 .. sync.next - 1 : programs[k] # p
    <2> SUFFICES ASSUME NEW k \in 1 .. sync.next - 1
                 PROVE  programs[k] # p
      OBVIOUS
    <2>1. k \in DOMAIN programs /\ sync.next \in DOMAIN programs /\ k # sync.next
      BY <1>1
    <2> QED
      BY <1>1, <2>1 DEF IsInjective
  <1>8. \A q : (\E k \in 1 .. sync'.next - 1 : programs'[k] = q)
               <=> q = p \/ \E k \in 1 .. sync.next - 1 : programs[k] = q
    <2>1. \A k : k \in 1 .. sync'.next - 1
                 <=> k = sync.next \/ k \in 1 .. sync.next - 1
      BY <1>1, <1>5
    <2> QED
      BY <1>4, <2>1
  <1>9. /\ p \in Wanted => Passed' = Passed \cup {p}
        /\ p \notin Wanted => Passed' = Passed
    BY <1>6, <1>8 DEF Passed
  <1> QED
    BY <1>1, <1>2, <1>3, <1>4, <1>5, <1>6, <1>7, <1>9 DEF Passed

\* sync_cam begins with everything still to be sent.
LEMMA SyncStarts ==
  ASSUME programs' \in Seq(Programs), NEW by, by # "free", mux = "free", StartSync(by)
  PROVE  \/ mux' = "free" /\ (~caConnected' \/ Wanted' = {})
         \/ /\ mux' = by /\ sync' = [next |-> 1, count |-> Cardinality(Wanted'), i |-> 0]
            /\ Cardinality(Wanted') \in Nat /\ Cardinality(Wanted') > 0
            /\ sync'.i = 0 /\ sync'.count = Cardinality(Wanted') /\ sync'.next = 1
            /\ Cardinality(Passed') = 0
  <1>1. Wanted' \subseteq Programs
    BY ToSetOfSeq DEF Wanted
  <1>2. CASE caConnected' /\ Wanted' # {}
    <2>1. mux' = by /\ sync' = [next |-> 1, count |-> Cardinality(Wanted'), i |-> 0]
      BY <1>2 DEF StartSync
    <2>2. Cardinality(Wanted') \in Nat /\ Cardinality(Wanted') > 0
      BY <1>1, <1>2, Counted
    <2>3. Passed' = {}
      BY <2>1 DEF Passed
    <2> QED
      BY <2>1, <2>2, <2>3, FS_EmptySet
  <1>3. CASE ~(caConnected' /\ Wanted' # {})
    BY <1>3 DEF StartSync
  <1> QED
    BY <1>2, <1>3

-----------------------------------------------------------------------------
(* Only programs the application wants *)

OnlyWantedChange ==
  \A q \in Programs : cam'[q] # cam[q] /\ cam'[q] # NoPmt => ciStatus[q] # "CI_NONE"

LEMMA SyncIntended ==
  ASSUME Parts, IntendedInv, SyncProgram
  PROVE  IntendedInv' /\ OnlyWantedChange
  <1> DEFINE p == programs[sync.next]
  <1>1. /\ p \in Programs /\ sync'.count = sync.count /\ mux' = mux /\ mux # "free"
        /\ pmt' = pmt
    BY SyncIteration DEF SyncProgram
  <1>2. /\ sync.count \in Nat /\ sync.i \in Nat /\ sync.count > 0
        /\ sync.i > 0 /\ camList.open =>
             \A q \in Programs : camList.content[q] # NoPmt => ciStatus[q] # "CI_NONE"
    BY <1>1 DEF Parts, SyncTyped, IntendedInv
  <1>3. CASE sync'.i = sync.i /\ UNCHANGED <<ciStatus, camVars>>
    BY <1>1, <1>2, <1>3 DEF IntendedInv, OnlyWantedChange, camVars
  <1>4. CASE /\ p \in Wanted /\ CamReceive(p, ListMgmt)
             /\ ciStatus' = [ciStatus EXCEPT ![p] = "CI_CAM_SENT"]
             /\ sync' = [next |-> sync.next + 1, count |-> sync.count, i |-> sync.i + 1]
    <2>1. /\ \A q \in Programs : ciStatus[q] # "CI_NONE" => ciStatus'[q] # "CI_NONE"
          /\ ciStatus[p] # "CI_NONE" /\ ciStatus'[p] # "CI_NONE"
          /\ \A q \in Programs : Nothing[q] = NoPmt
      BY <1>1, <1>4 DEF Wanted, Parts, DataTyped, Nothing
    <2>2. cam \in Content /\ camList.content \in Content
          /\ camList \in [open : BOOLEAN, content : Content] /\ Nothing \in Content
      BY DEF Parts, CamTyped, Nothing, Content
    <2>3. CASE ListMgmt = "only"
      <3>1. cam' = [Nothing EXCEPT ![p] = pmt'[p]] /\ camList' = NoList
        BY <1>4, <2>3 DEF CamReceive
      <3> QED
        BY <1>1, <1>2, <2>1, <2>2, <3>1
           DEF IntendedInv, OnlyWantedChange, NoList, Content
    <2>4. CASE ListMgmt = "first"
      <3>1. /\ camList' = [open |-> TRUE, content |-> [Nothing EXCEPT ![p] = pmt'[p]]]
            /\ cam' = cam
        BY <1>4, <2>4 DEF CamReceive
      <3>2. camList'.content = [Nothing EXCEPT ![p] = pmt'[p]]
        BY <3>1
      <3>3. \A q \in Programs : camList'.content[q] # NoPmt => ciStatus'[q] # "CI_NONE"
        BY <1>1, <2>1, <2>2, <3>2 DEF Content
      <3> QED
        BY <1>1, <1>2, <3>1, <3>3 DEF IntendedInv, OnlyWantedChange
    <2>5. CASE ListMgmt = "more"
      <3>1. /\ camList' = IF camList.open
                          THEN [camList EXCEPT !.content[p] = pmt'[p]] ELSE camList
            /\ cam' = cam
        BY <1>4, <2>5 DEF CamReceive
      <3>2. sync.i > 0
        BY <1>2, <2>5 DEF ListMgmt
      <3>3. camList'.open => camList.open
                /\ camList'.content = [camList.content EXCEPT ![p] = pmt'[p]]
        BY <2>2, <3>1
      <3>4. camList'.open =>
              \A q \in Programs : camList'.content[q] # NoPmt => ciStatus'[q] # "CI_NONE"
        BY <1>1, <1>2, <2>1, <2>2, <3>2, <3>3 DEF Content
      <3> QED
        BY <1>1, <1>2, <3>1, <3>4 DEF IntendedInv, OnlyWantedChange
    <2>6. CASE ListMgmt = "last"
      <3>1. /\ cam' = IF camList.open
                      THEN [camList.content EXCEPT ![p] = pmt'[p]] ELSE cam
            /\ camList' = NoList
        BY <1>4, <2>6 DEF CamReceive
      <3>2. sync.i > 0
        BY <1>2, <2>6 DEF ListMgmt
      <3>3. OnlyWantedChange
        BY <1>1, <1>2, <2>1, <2>2, <3>1, <3>2 DEF OnlyWantedChange, Content
      <3> QED
        BY <1>1, <1>2, <3>1, <3>3 DEF IntendedInv, NoList
    <2>7. ListMgmt \in {"only", "first", "more", "last"}
      BY DEF ListMgmt
    <2> QED
      BY <2>3, <2>4, <2>5, <2>6, <2>7
  <1>5. \/ sync' = [sync EXCEPT !.next = @ + 1] /\ UNCHANGED <<ciStatus, camVars>>
        \/ /\ p \in Wanted /\ CamReceive(p, ListMgmt)
           /\ ciStatus' = [ciStatus EXCEPT ![p] = "CI_CAM_SENT"]
           /\ sync' = [next |-> sync.next + 1, count |-> sync.count, i |-> sync.i + 1]
    BY DEF SyncProgram, SendFails
  <1>6. sync' = [sync EXCEPT !.next = @ + 1] => sync'.i = sync.i
    BY DEF Parts, SyncTyped
  <1> QED
    BY <1>3, <1>4, <1>5, <1>6

LEMMA NextIntended ==
  ASSUME Parts, IntendedInv, [Next]_vars
  PROVE  IntendedInv' /\ OnlyWantedChange
  <1>0. programs' \in Seq(Programs)
    BY NextList DEF Parts, ListTyped
  <1>1. CASE SyncProgram
    BY <1>1, SyncIntended
  <1>2. CASE SyncDone
    BY <1>2 DEF SyncDone, camVars, IntendedInv, OnlyWantedChange
  <1>3. CASE \E p \in Programs : DescrambleAdd(p)
    BY <1>3 DEF DescrambleAdd, camVars, IntendedInv, OnlyWantedChange
  <1>4. CASE \E p \in Programs : \E s \in Sections : PmtUpdate(p, s)
    <2>1. PICK p \in Programs, s \in Sections : PmtUpdate(p, s)
      BY <1>4
    <2>2. mux = "free"
      BY <2>1 DEF PmtUpdate
    <2>3. CASE UNCHANGED <<mux, sync, camVars>>
      BY <2>2, <2>3 DEF IntendedInv, OnlyWantedChange, camVars
    <2>4. CASE ciStatus[p] = "CI_CAM_SENT" /\ PmtToCam(p)
      <3>1. mux' = "free" /\ (CamReceive(p, "update") \/ UNCHANGED cam)
        BY <2>2, <2>4 DEF PmtToCam, SendFails, camVars
      <3>2. cam' = cam \/ cam' = [cam EXCEPT ![p] = pmt'[p]]
        BY <3>1 DEF CamReceive
      <3>3. \A q \in Programs : cam'[q] # cam[q] => q = p
        BY <3>2 DEF Parts, CamTyped, Content
      <3> QED
        BY <2>4, <3>1, <3>3 DEF IntendedInv, OnlyWantedChange
    <2>5. CASE StartSync("ts") /\ UNCHANGED camVars
      <3>1. mux' = "free" \/ (sync'.i = 0 /\ sync'.count > 0)
        <4>1. StartSync("ts") /\ "ts" # "free"
          BY <2>5
        <4> QED
          BY <1>0, <2>2, <4>1, SyncStarts
      <3> QED
        BY <2>5, <3>1 DEF IntendedInv, OnlyWantedChange, camVars
    <2> QED
      BY <2>1, <2>3, <2>4, <2>5 DEF PmtUpdate, PmtToCam
  <1>5. CASE DescrambleClear
    BY <1>5 DEF DescrambleClear, camVars, IntendedInv, OnlyWantedChange
  <1>6. CASE CaConnected
    BY <1>6 DEF CaConnected, hostVars, camVars, IntendedInv, OnlyWantedChange
  <1>7. CASE CaClosed
    BY <1>7 DEF CaClosed, hostVars, NoList, Nothing, IntendedInv, OnlyWantedChange
  <1>8. CASE CaInfo
    <2>1. mux' = "free" \/ (sync'.i = 0 /\ sync'.count > 0)
      <3>1. StartSync("cam") /\ "cam" # "free" /\ mux = "free"
        BY <1>8 DEF CaInfo
      <3> QED
        BY <1>0, <3>1, SyncStarts
    <2> QED
      BY <1>8, <2>1 DEF CaInfo, camVars, IntendedInv, OnlyWantedChange
  <1>9. CASE UNCHANGED vars
    BY <1>9 DEF vars, hostVars, camVars, IntendedInv, OnlyWantedChange
  <1> QED
    BY <1>1, <1>2, <1>3, <1>4, <1>5, <1>6, <1>7, <1>8, <1>9 DEF Next, Sync

\* Whatever fails and whenever the session closes, the CAM never starts to
\* descramble a program the application did not ask for.
THEOREM NeverUnasked == Spec => OnlyIntended
  <1>1. Init => Parts /\ IntendedInv
    BY InitList DEF Init, IntendedInv
  <1>2. (Parts /\ IntendedInv) /\ [Next]_vars => (Parts /\ IntendedInv)'
    BY NextList, NextIntended
  <1>3. Parts /\ IntendedInv /\ [Next]_vars
          => [\A p \in Programs : cam'[p] # cam[p] /\ cam'[p] # NoPmt
                => ciStatus[p] # "CI_NONE"]_vars
    BY NextIntended DEF OnlyWantedChange
  <1> QED
    BY <1>1, <1>2, <1>3, PTL DEF Spec, OnlyIntended


-----------------------------------------------------------------------------
(* Every program marked as sent is inside the CAM *)

LEMMA NextSession ==
  ASSUME Parts, SessionInv, [Next]_vars
  PROVE  SessionInv'
  <1> USE DEF SessionInv
  <1>1. CASE SyncProgram
    <2> DEFINE p == programs[sync.next]
    <2>1. p \in Programs /\ UNCHANGED <<pmt, mux, synced, session, asked>>
      BY <1>1, SyncIteration DEF SyncProgram
    <2>2. \/ ciStatus' = ciStatus
          \/ p \in Wanted /\ ciStatus' = [ciStatus EXCEPT ![p] = "CI_CAM_SENT"]
      BY <1>1 DEF SyncProgram
    <2> QED
      BY <2>1, <2>2 DEF Wanted, Parts, DataTyped
  <1>2. CASE SyncDone
    BY <1>2 DEF SyncDone, hostVars
  <1>3. CASE \E p \in Programs : DescrambleAdd(p)
    BY <1>3 DEF DescrambleAdd, Parts, DataTyped
  <1>4. CASE \E p \in Programs : \E s \in Sections : PmtUpdate(p, s)
    <2>1. PICK p \in Programs, s \in Sections : PmtUpdate(p, s)
      BY <1>4
    <2>2. /\ UNCHANGED <<ciStatus, session, asked, synced>>
          /\ pmt' = pmt \/ pmt' = [pmt EXCEPT ![p] = s]
          /\ mux = "free"
      BY <2>1 DEF PmtUpdate
    <2>3. mux' = mux \/ mux' = "ts"
      BY <2>1 DEF PmtUpdate, PmtToCam, StartSync
    <2>4. s # NoPmt
      BY ConstantsAssumption
    <2> QED
      BY <2>2, <2>3, <2>4 DEF Parts, DataTyped, Content
  <1>5. CASE DescrambleClear
    BY <1>5 DEF DescrambleClear
  <1>6. CASE CaConnected \/ CaClosed
    BY <1>6 DEF CaConnected, CaClosed, hostVars
  <1>7. CASE CaInfo
    BY <1>7 DEF CaInfo, hostVars
  <1>8. CASE UNCHANGED vars
    BY <1>8 DEF vars, hostVars
  <1> QED
    BY <1>1, <1>2, <1>3, <1>4, <1>5, <1>6, <1>7, <1>8 DEF Next, Sync

\* While nothing fails, one more program of the list reaches the CAM.
LEMMA SyncProgress ==
  ASSUME Faults = {}, Parts, SessionInv, ProgressInv, SyncProgram
  PROVE  ProgressInv'
  <1> SUFFICES ASSUME Followed
               PROVE  ProgressInv'
    <2>1. Followed' <=> Followed
      BY SyncIteration DEF Followed
    <2> QED
      BY <2>1 DEF ProgressInv
  <1> DEFINE p == programs[sync.next]
  <1>1. /\ sync.next \in 1 .. Len(programs) /\ p \in Programs /\ p \notin Passed
        /\ Wanted \subseteq Programs /\ Passed \subseteq Wanted
        /\ Wanted' = Wanted /\ sync'.next = sync.next + 1 /\ sync'.count = sync.count
        /\ UNCHANGED <<programs, pmt>>
        /\ p \in Wanted => Passed' = Passed \cup {p}
        /\ p \notin Wanted => Passed' = Passed
    BY SyncIteration
  <1>2. session
    BY DEF SessionInv, Followed
  <1>3. /\ sync.count = Cardinality(Wanted) /\ sync.i = Cardinality(Passed)
        /\ 0 < sync.i /\ sync.i < sync.count =>
             camList.open /\ \A q \in Passed : camList.content[q] = pmt[q]
        /\ sync.i = sync.count => \A q \in Passed : cam[q] = pmt[q]
    BY DEF ProgressInv
  <1>4. sync'.next <= Len(programs) + 1 /\ Len(programs') = Len(programs)
    BY <1>1 DEF Parts, ListTyped
  <1>5. CASE p \notin Wanted
    <2>1. UNCHANGED camVars /\ sync' = [sync EXCEPT !.next = @ + 1]
      BY <1>5 DEF SyncProgram
    <2>2. sync'.i = sync.i
      BY <2>1 DEF Parts, SyncTyped
    <2> QED
      BY <1>1, <1>3, <1>4, <1>5, <2>1, <2>2 DEF ProgressInv, camVars
  <1>6. CASE p \in Wanted
    <2>1. /\ CamReceive(p, ListMgmt)
          /\ sync' = [next |-> sync.next + 1, count |-> sync.count, i |-> sync.i + 1]
      BY <1>2, <1>6 DEF SyncProgram, SendFails
    <2>2. sync'.i = sync.i + 1 /\ sync.i \in Nat /\ sync.count \in Nat
      BY <2>1 DEF Parts, SyncTyped
    <2>3. IsFiniteSet(Wanted) /\ IsFiniteSet(Passed) /\ Passed \cup {p} \subseteq Wanted
      BY <1>1, <1>6, Counted
    <2>4. Cardinality(Passed') = sync.i + 1
      <3>1. Passed' = Passed \cup {p} /\ p \notin Passed
        BY <1>1, <1>6, Zenon
      <3>2. Cardinality(Passed \cup {p}) = Cardinality(Passed) + 1
        BY <2>3, <3>1, FS_AddElement
      <3>3. Cardinality(Passed) = sync.i
        BY <1>3, Zenon
      <3> HIDE DEF p
      <3> QED BY <3>1, <3>2, <3>3
    <2>5. sync.i + 1 <= sync.count
      BY <1>1, <1>3, <1>6, <2>3, <2>4, FS_Subset
    <2>6. sync.i = 0 => Passed = {}
      BY <1>1, <1>3, Counted
    <2>7. /\ cam \in Content /\ camList.content \in Content /\ Nothing \in Content
          /\ camList \in [open : BOOLEAN, content : Content]
      BY DEF Parts, CamTyped, Nothing, Content
    <2>8. \A q \in Passed : q \in Programs /\ q # p
      BY <1>1
    <2> DEFINE Open == camList'.open /\ \A q \in Passed' : camList'.content[q] = pmt[q]
               Inside == \A q \in Passed' : cam'[q] = pmt[q]
    <2>9. CASE sync.i + 1 = sync.count
      <3>1. ASSUME sync.i = 0 PROVE Inside
        <4>1. ListMgmt = "only"
          BY <2>2, <2>9, <3>1 DEF ListMgmt
        <4>2. cam' = [Nothing EXCEPT ![p] = pmt'[p]]
          BY <2>1, <4>1 DEF CamReceive
        <4> QED
          BY <1>1, <1>6, <2>6, <2>7, <3>1, <4>2 DEF Content
      <3>2. ASSUME sync.i > 0 PROVE Inside
        <4>1. ListMgmt = "last"
          BY <2>2, <2>9, <3>2 DEF ListMgmt
        <4>2. camList.open /\ \A q \in Passed : camList.content[q] = pmt[q]
          BY <1>3, <2>2, <2>9, <3>2
        <4>3. cam' = [camList.content EXCEPT ![p] = pmt'[p]]
          BY <2>1, <4>1, <4>2 DEF CamReceive
        <4> QED
          BY <1>1, <1>6, <2>7, <2>8, <4>2, <4>3 DEF Content
      <3>3. Inside
        BY <2>2, <3>1, <3>2
      <3> QED
        BY <1>1, <1>4, <1>3, <2>2, <2>4, <2>9, <3>3 DEF ProgressInv
    <2>10. CASE sync.i + 1 # sync.count
      <3>1. ASSUME sync.i = 0 PROVE Open
        <4>1. ListMgmt = "first"
          BY <2>2, <2>5, <2>10, <3>1 DEF ListMgmt
        <4>2. camList' = [open |-> TRUE, content |-> [Nothing EXCEPT ![p] = pmt'[p]]]
          BY <2>1, <4>1 DEF CamReceive
        <4>3. camList'.open /\ camList'.content = [Nothing EXCEPT ![p] = pmt'[p]]
          BY <4>2
        <4> QED
          BY <1>1, <1>6, <2>6, <2>7, <3>1, <4>3 DEF Content
      <3>2. ASSUME sync.i > 0 PROVE Open
        <4>1. ListMgmt = "more"
          BY <2>2, <2>5, <2>10, <3>2 DEF ListMgmt
        <4>2. camList.open /\ \A q \in Passed : camList.content[q] = pmt[q]
          BY <1>3, <2>2, <2>5, <2>10, <3>2
        <4>3. camList' = [camList EXCEPT !.content[p] = pmt'[p]]
          BY <2>1, <4>1, <4>2 DEF CamReceive
        <4>4. camList'.open /\ camList'.content = [camList.content EXCEPT ![p] = pmt'[p]]
          BY <2>7, <4>2, <4>3
        <4> QED
          BY <1>1, <1>6, <2>7, <2>8, <4>2, <4>4 DEF Content
      <3>3. Open
        BY <2>2, <3>1, <3>2
      <3> QED
        BY <1>1, <1>4, <1>3, <2>2, <2>4, <2>10, <3>3 DEF ProgressInv
    <2> QED
      BY <2>9, <2>10
  <1> QED
    BY <1>5, <1>6

\* A list that was followed to its end holds every program marked as sent.
LEMMA SyncComplete ==
  ASSUME Parts, SessionInv, ProgressInv, SyncDone
  PROVE  SentIsInside'
  <1>1. /\ mux \in {"ts", "cam"} /\ sync.next > Len(programs)
        /\ synced' = (synced \/ (mux = "cam" /\ session))
        /\ UNCHANGED <<ciStatus, pmt, cam>>
    BY DEF SyncDone, hostVars, camVars, Parts, SyncTyped
  <1>2. CASE ~Followed
    BY <1>1, <1>2 DEF Followed, SentIsInside
  <1>3. CASE Followed
    <2>1. /\ sync.next <= Len(programs) + 1
          /\ sync.count = Cardinality(Wanted) /\ sync.i = Cardinality(Passed)
          /\ sync.i = sync.count => \A q \in Passed : cam[q] = pmt[q]
      BY <1>3 DEF ProgressInv
    <2>2. programs \in Seq(Programs) /\ sync.next - 1 = Len(programs)
      BY <1>1, <2>1 DEF Parts, ListTyped, SyncTyped
    <2>3. \A q \in ToSet(programs) : \E k \in 1 .. Len(programs) : programs[k] = q
      BY <2>2 DEF ToSet
    <2>4. Passed = Wanted
      BY <2>2, <2>3 DEF Passed, Wanted
    <2>5. \A q \in Wanted : cam[q] = pmt[q]
      BY <2>1, <2>4
    <2>6. \A q \in Programs : ciStatus[q] = "CI_CAM_SENT" => q \in Wanted
      BY DEF Wanted, SessionInv, Parts, OnlyListed
    <2> QED
      BY <1>1, <2>5, <2>6 DEF SentIsInside
  <1> QED
    BY <1>2, <1>3

\* sync_cam begins with a list of its own.
LEMMA StartProgress ==
  ASSUME programs' \in Seq(Programs), NEW by \in {"ts", "cam"}, mux = "free",
         StartSync(by)
  PROVE  ProgressInv' /\ (mux' = "free" => ~caConnected' \/ Wanted' = {})
  <1>1. CASE mux' = "free"
    BY <1>1, SyncStarts DEF ProgressInv, Followed
  <1>2. CASE mux' # "free"
    <2>1. /\ sync'.i = 0 /\ sync'.next = 1 /\ sync'.count = Cardinality(Wanted')
          /\ Cardinality(Wanted') \in Nat /\ Cardinality(Wanted') > 0
          /\ Cardinality(Passed') = 0
      BY <1>2, SyncStarts
    <2>2. Len(programs') \in Nat
      OBVIOUS
    <2> QED
      BY <1>2, <2>1, <2>2 DEF ProgressInv
  <1> QED
    BY <1>1, <1>2

LEMMA NextServed ==
  ASSUME Faults = {}, Parts, SessionInv, ProgressInv, SentIsInside, [Next]_vars
  PROVE  ProgressInv' /\ SentIsInside'
  <1>0. programs' \in Seq(Programs)
    BY NextList DEF Parts, ListTyped
  <1>1. CASE SyncProgram
    <2>1. mux' # "free"
      BY <1>1 DEF SyncProgram
    <2> QED
      BY <1>1, <2>1, SyncProgress DEF SentIsInside
  <1>2. CASE SyncDone
    <2>1. ~Followed'
      BY <1>2 DEF SyncDone, Followed
    <2> QED
      BY <1>2, <2>1, SyncComplete DEF ProgressInv
  <1>3. CASE (\E p \in Programs : DescrambleAdd(p)) \/ DescrambleClear
    <2>1. /\ mux = "free" /\ UNCHANGED <<mux, synced, pmt, cam>>
          /\ \A q \in Programs : ciStatus'[q] = "CI_CAM_SENT"
                                   => ciStatus[q] = "CI_CAM_SENT"
      BY <1>3 DEF DescrambleAdd, DescrambleClear, camVars, Parts, DataTyped
    <2> QED
      BY <2>1 DEF ProgressInv, Followed, SentIsInside
  <1>4. CASE \E p \in Programs : \E s \in Sections : PmtUpdate(p, s)
    <2>1. PICK p \in Programs, s \in Sections : PmtUpdate(p, s)
      BY <1>4
    <2>2. mux = "free" /\ UNCHANGED <<ciStatus, session, synced>>
      BY <2>1 DEF PmtUpdate
    <2>3. CASE UNCHANGED <<pmt, mux, sync, camVars>>
      BY <2>2, <2>3 DEF ProgressInv, Followed, SentIsInside, camVars
    <2>4. CASE pmt' = [pmt EXCEPT ![p] = s] /\ PmtToCam(p)
      <3>1. pmt'[p] = s /\ \A q \in Programs : q # p => pmt'[q] = pmt[q]
        BY <2>4 DEF Parts, DataTyped, Content
      <3>2. CASE ciStatus[p] = "CI_CAM_SENT"
        <4>1. /\ mux' = "free"
              /\ (session /\ CamReceive(p, "update")) \/ ~session
          BY <2>2, <2>4, <3>2 DEF PmtToCam, SendFails
        <4>2. ASSUME synced
              PROVE  \A q \in Programs : ciStatus'[q] = "CI_CAM_SENT" => cam'[q] = pmt'[q]
          <5>1. /\ \A q \in Programs : ciStatus[q] = "CI_CAM_SENT" => cam[q] = pmt[q]
                /\ pmt[p] # NoPmt /\ session
            BY <2>2, <3>2, <4>2 DEF SentIsInside, SessionInv
          <5>2. cam' = [cam EXCEPT ![p] = s]
            BY <3>1, <3>2, <4>1, <5>1 DEF CamReceive
          <5>3. cam'[p] = s /\ \A q \in Programs : q # p => cam'[q] = cam[q]
            BY <5>2 DEF Parts, CamTyped, Content
          <5> QED
            BY <2>2, <3>1, <5>1, <5>3
        <4> QED
          BY <2>2, <4>1, <4>2 DEF ProgressInv, Followed, SentIsInside
      <3>3. CASE ciStatus[p] # "CI_CAM_SENT"
        <4>1. UNCHANGED cam /\ (StartSync("ts") \/ UNCHANGED mux)
          BY <2>4, <3>3 DEF PmtToCam, camVars
        <4>2. SentIsInside'
          BY <2>2, <3>1, <3>3, <4>1 DEF SentIsInside
        <4>3. ProgressInv'
          <5>1. CASE StartSync("ts")
            BY <1>0, <2>2, <5>1, StartProgress
          <5>2. CASE UNCHANGED mux
            BY <2>2, <5>2 DEF ProgressInv, Followed
          <5> QED
            BY <4>1, <5>1, <5>2
        <4> QED
          BY <4>2, <4>3
      <3> QED
        BY <3>2, <3>3
    <2> QED
      BY <2>1, <2>3, <2>4 DEF PmtUpdate
  <1>5. CASE CaConnected \/ CaClosed
    <2>1. ~synced' /\ mux # "cam" /\ mux' = mux
      BY <1>5 DEF CaConnected, CaClosed, SessionInv
    <2> QED
      BY <2>1 DEF ProgressInv, Followed, SentIsInside
  <1>6. CASE CaInfo
    <2>1. /\ mux = "free" /\ StartSync("cam") /\ caConnected'
          /\ synced' = (mux' = "free") /\ UNCHANGED <<programs, ciStatus, pmt, cam>>
      BY <1>6 DEF CaInfo, hostVars, camVars
    <2>2. ProgressInv' /\ (mux' = "free" => Wanted' = {})
      BY <1>0, <2>1, StartProgress
    <2>3. \A q \in Programs : ciStatus[q] = "CI_CAM_SENT" => q \in Wanted'
      BY <2>1 DEF Wanted, SessionInv, Parts, OnlyListed
    <2> QED
      BY <2>1, <2>2, <2>3 DEF SentIsInside
  <1>7. CASE UNCHANGED vars
    BY <1>7 DEF vars, hostVars, camVars, ProgressInv, Followed, SentIsInside,
                Passed, Wanted
  <1> QED
    BY <1>1, <1>2, <1>3, <1>4, <1>5, <1>6, <1>7 DEF Next, Sync

\* When no CA PMT object fails to be formatted or sent, a program marked as sent
\* is descrambled with its latest PMT, after each answer of the CAM.
THEOREM SentReachesCam ==
  ASSUME Faults = {}
  PROVE  Spec => []SentIsInside
  <1>1. Init => Parts /\ SessionInv /\ ProgressInv /\ SentIsInside
    BY InitList DEF Init, SessionInv, ProgressInv, Followed, SentIsInside
  <1>2. (Parts /\ SessionInv /\ ProgressInv /\ SentIsInside) /\ [Next]_vars
          => (Parts /\ SessionInv /\ ProgressInv /\ SentIsInside)'
    BY NextList, NextSession, NextServed
  <1> QED
    BY <1>1, <1>2, PTL DEF Spec

=============================================================================
