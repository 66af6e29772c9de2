-------------------------- MODULE ProgramTablesProofs --------------------------
(***************************************************************************)
(* The three invariants of ProgramTables for any programs, PIDs, tables,   *)
(* waits, changes on the air and failed commands.                          *)
(*                                                                         *)
(* A program is adopted in one step of process_ts, after it is in the list *)
(* without a lock: what get_programs may conclude from the list rests on   *)
(* its streams, which come from the PMT hook, and that on the adoption.    *)
(***************************************************************************)
EXTENDS ProgramTables, TLAPS

AppPcs  == {"start", "service", "hooks", "pat", "check", "walk", "sdt", "generate", "done"}
Before  == {"start", "service", "hooks"}
Ended   == {"sdt", "generate", "done"}
Recs    == [k : {"es", "ca"}, pid : StreamPids]
PatTables == [Programs -> PmtPids \cup {NoPid}]
Tables  == [ver : Int, cn : Int, services : SUBSET Programs]

TypeOK ==
  /\ air \in [pat : PatTables, pmt : [Programs -> Pmts], cat : SUBSET StreamPids, sdt : Tables]
  /\ changes \in Nat /\ fails \in Nat
  /\ selected \in SUBSET Programs
  /\ app \in [pc : AppPcs, cnt : Nat, i : Nat \ {0}, notready : BOOLEAN,
              walked : SUBSET Programs, late : BOOLEAN]
  /\ ts.pc \in {"idle", "pat", "adopt", "pmt", "cat"}
  /\ ts = [pc |-> ts.pc, p |-> ts.p, todo |-> ts.todo]
  /\ ts.pc \in {"adopt", "pmt"} => ts.p \in Programs
  /\ ts.pc \in {"pat", "adopt"} => ts.todo \subseteq Programs
  /\ ts.pc = "pmt" => ts.todo \subseteq Recs
  /\ ts.pc = "cat" => ts.todo \subseteq StreamPids
  /\ hooks \in [pat : BOOLEAN, cat : BOOLEAN, sdt : BOOLEAN, pmt : [PmtPids -> SUBSET Programs]]
  /\ list \in Seq(Programs)
  /\ prog \in [Programs -> [pid : PmtPids \cup {NoPid}, streams : SUBSET Recs,
                            seen : Pmts \cup {NoPmt}]]
  /\ seen \in [pat : PatTables, cat : SUBSET StreamPids, sdt : Tables]
  /\ stored \in Tables
  /\ named \in SUBSET Programs /\ ca_list \in SUBSET StreamPids
  /\ pat \in [gen : SUBSET Programs, pkt : SUBSET Programs]

\* Nothing is parsed before get_programs has installed the PAT hook.
Quiet ==
  app.pc \in Before => /\ ts.pc = "idle" /\ list = <<>> /\ ~hooks.pat /\ ~hooks.cat /\ ca_list = {}
                       /\ app.walked = {}

\* process_ts has a hook, a PMT or a stream only of an adopted program.
OfAdopted ==
  /\ \A p \in Programs : prog[p].streams # {} => p \in Adopted
  /\ \A pid \in PmtPids : hooks.pmt[pid] \subseteq Adopted
  /\ ts.pc = "pmt" => ts.p \in Adopted
  /\ ts.pc = "adopt" => ts.p \in Listed

\* The PAT in the making has the adopted programs that are selected.
PatOfAdopted ==
  /\ Adopted \cap selected \subseteq pat.gen
  /\ pat.gen \subseteq selected
  /\ app.pc # "done" => pat.pkt = {}
  /\ pat.pkt \subseteq pat.gen

\* The walk of get_programs: what it has found ready is adopted.
Walk ==
  /\ app.walked \subseteq Listed
  /\ app.late => app.pc \in Ended
  /\ app.pc \in {"walk"} \cup Ended /\ ~app.notready /\ ~app.late
       => app.walked \subseteq Adopted
  /\ app.pc \in Ended /\ ~app.late => ~app.notready

\* The SDT hook comes after the walk.
SdtLast ==
  /\ hooks.sdt => app.pc \in {"generate", "done"}
  /\ ~hooks.sdt => stored = NoSdt
  /\ app.walked \cap stored.services \subseteq named

\* The filter while start_ts builds it, and FilterMatches.
Filter ==
  /\ app.pc = "start" => spoilt = {} /\ filter \subseteq AllPids
  /\ app.pc = "service" => /\ selected # {} /\ spoilt = {}
                            /\ filter \in {{}, {PatPid}, {PatPid, CatPid}}
  /\ FilterMatches

IInv == TypeOK /\ Quiet /\ OfAdopted /\ PatOfAdopted /\ Walk /\ SdtLast /\ Filter
       /\ PatComplete

-----------------------------------------------------------------------------
\* The list after an Append, and what it means for the adopted programs.
LEMMA AppendListed ==
  ASSUME TypeOK, NEW p \in Programs, list' = Append(list, p)
  PROVE  list' \in Seq(Programs) /\ Listed' = Listed \cup {p}
<1>1. list \in Seq(Programs)
  BY DEF TypeOK
<1>2. /\ list' \in Seq(Programs) /\ Len(list') = Len(list) + 1
      /\ \A i \in 1 .. Len(list) : list'[i] = list[i]
      /\ list'[Len(list) + 1] = p
  BY <1>1
<1>3. DOMAIN list = 1 .. Len(list) /\ DOMAIN list' = 1 .. Len(list')
  BY <1>1, <1>2
<1>4. DOMAIN list' = DOMAIN list \cup {Len(list) + 1} /\ Len(list) \in Nat
  BY <1>1, <1>2, <1>3
<1> QED
  BY <1>2, <1>3, <1>4 DEF Listed

\* Only programs are listed.
LEMMA ListedTyped ==
  ASSUME TypeOK
  PROVE  Listed \subseteq Programs /\ Adopted \subseteq Listed
  BY DEF TypeOK, Listed, Adopted

\* The initial states satisfy the invariant.
LEMMA InitInv == ASSUME Init PROVE IInv
<1> USE DEF Init
<1>1. TypeOK
  <2>1. air \in [pat : PatTables, pmt : [Programs -> Pmts], cat : SUBSET StreamPids, sdt : Tables]
    BY TablesAssumption DEF PatTables, Tables
  <2>2. selected \in SUBSET Programs
    BY TablesAssumption
  <2>3. prog \in [Programs -> [pid : PmtPids \cup {NoPid}, streams : SUBSET Recs,
                               seen : Pmts \cup {NoPmt}]]
    OBVIOUS
  <2>4. seen \in [pat : PatTables, cat : SUBSET StreamPids, sdt : Tables] /\ stored \in Tables
    BY DEF PatTables, NoPat, NoSdt, Tables
  <2>5. app \in [pc : AppPcs, cnt : Nat, i : Nat \ {0}, notready : BOOLEAN,
                 walked : SUBSET Programs, late : BOOLEAN]
    BY TablesAssumption DEF AppPcs
  <2>6. hooks \in [pat : BOOLEAN, cat : BOOLEAN, sdt : BOOLEAN, pmt : [PmtPids -> SUBSET Programs]]
    OBVIOUS
  <2>7. pat \in [gen : SUBSET Programs, pkt : SUBSET Programs]
    OBVIOUS
  <2> QED
    BY <2>1, <2>2, <2>3, <2>4, <2>5, <2>6, <2>7 DEF TypeOK, Idle
<1>2. Listed = {} /\ Adopted = {}
  BY DEF Listed, Adopted, Idle
<1>3. Quiet /\ OfAdopted
  BY <1>2 DEF Quiet, OfAdopted, Idle
<1>4. PatOfAdopted /\ Walk /\ SdtLast
  BY <1>2 DEF PatOfAdopted, Walk, SdtLast, NoSdt, Ended
<1>5. Filter /\ PatComplete
  BY DEF Filter, FilterMatches, PatComplete, AllPids, ServicePids
<1> QED
  BY <1>1, <1>3, <1>4, <1>5 DEF IInv

-----------------------------------------------------------------------------
(* The application *)

\* A step of the application leaves the list and the adopted programs alone.
LEMMA AppKeeps ==
  ASSUME IInv, UNCHANGED notApp
  PROVE  /\ Listed' = Listed /\ Adopted' = Adopted
         /\ hooks'.pmt = hooks.pmt => OfAdopted'
  BY DEF IInv, notApp, Listed, Adopted, OfAdopted

\* ts_filter_only_service_pids goes on with the lowest PID that is left.
LEMMA NextServiceIs ==
  ASSUME filter \in {{}, {PatPid}, {PatPid, CatPid}}
  PROVE  NextService = IF PatPid \notin filter THEN PatPid
                       ELSE IF CatPid \notin filter THEN CatPid ELSE SdtPid
<1> DEFINE Left == ServicePids \ filter
           next == IF PatPid \notin filter THEN PatPid
                   ELSE IF CatPid \notin filter THEN CatPid ELSE SdtPid
<1>1. next \in Left /\ \A q \in Left : next <= q
  BY DEF ServicePids, PatPid, CatPid, SdtPid
<1>2. Left \subseteq Int
  BY DEF ServicePids, PatPid, CatPid, SdtPid
<1>3. \A pid \in Left : (\A q \in Left : pid <= q) => pid = next
  BY <1>1, <1>2
<1> QED
  BY <1>1, <1>3 DEF NextService

\* What an unblocked PID is to what the filter should pass.
LEMMA UnblockKeeps ==
  ASSUME NEW pid, NEW N, Unblock(pid), filter \ spoilt = N \ spoilt, fails \in Nat
  PROVE  filter' \ spoilt' = (N \cup {pid}) \ spoilt' /\ fails' \in Nat
<1>1. CASE filter' = filter \cup {pid} /\ spoilt' = spoilt \ {pid} /\ fails' = fails
  BY <1>1
<1>2. CASE filter' \in {filter, filter \cup {pid}} /\ spoilt' = spoilt \cup {pid} /\ fails' = fails + 1
  BY <1>2
<1> QED
  BY <1>1, <1>2 DEF Unblock, Done, Fails

LEMMA FilterStep ==
  ASSUME IInv, StartFilter \/ StartService
  PROVE  IInv'
<1> USE DEF IInv, notApp, airVars, filterVars
<1>0. UNCHANGED <<notApp, hooks, pat>> /\ app.pc \in Before
  BY DEF StartFilter, StartService, Before
<1>1. Listed' = Listed /\ Adopted' = Adopted /\ OfAdopted'
  BY <1>0, AppKeeps
<1>2. /\ app' = [app EXCEPT !.pc = app'.pc] /\ app'.pc \in {"hooks", "service"}
      /\ fails' \in Nat
  BY <1>0 DEF StartFilter, StartService, To, Done, Fails, TypeOK
<1>3. TypeOK'
  BY <1>0, <1>2 DEF TypeOK, AppPcs
<1>4. Listed = {} /\ Adopted = {} /\ ca_list = {}
  BY <1>0 DEF Quiet, Listed, Adopted, Before
<1>5. Quiet' /\ PatOfAdopted' /\ Walk' /\ SdtLast' /\ PatComplete'
  BY <1>0, <1>1, <1>2, <1>4, <1>3
  DEF Quiet, PatOfAdopted, Walk, SdtLast, PatComplete, Before, Ended, TypeOK
<1>6. Filter'
  <2>1. Needed' = IF selected = {} THEN AllPids ELSE ServicePids
    BY <1>0, <1>1, <1>4 DEF Needed
  <2>2. CASE StartFilter
    <3>1. app.pc = "start" /\ spoilt = {} /\ filter \subseteq AllPids
      BY <2>2 DEF StartFilter, Filter
    <3>2. ServicePids \subseteq AllPids
      BY DEF AllPids
    <3>3. CASE selected = {}
      <4>1. /\ app'.pc = "hooks" /\ filter' \subseteq AllPids
            /\ filter' = AllPids \/ AllPids \subseteq spoilt'
        BY <2>2, <3>1, <3>3, <1>2 DEF StartFilter, To, Done, Fails, TypeOK
      <4> QED
        BY <4>1, <2>1, <3>3, <1>0 DEF Filter, FilterMatches
    <3>4. CASE selected # {}
      <4>1. \/ app'.pc = "service" /\ filter' = {} /\ spoilt' = {}
            \/ app'.pc = "hooks" /\ filter' \subseteq AllPids /\ AllPids \subseteq spoilt'
        BY <2>2, <3>1, <3>4, <1>2 DEF StartFilter, To, Done, Fails, TypeOK
      <4> QED
        BY <4>1, <2>1, <3>2, <3>4, <1>0 DEF Filter, FilterMatches
    <3> QED
      BY <3>3, <3>4
  <2>3. CASE StartService
    <3>1. /\ app.pc = "service" /\ spoilt = {} /\ selected # {}
          /\ filter \in {{}, {PatPid}, {PatPid, CatPid}}
      BY <2>3 DEF StartService, Filter
    <3>2. NextService = IF PatPid \notin filter THEN PatPid
                        ELSE IF CatPid \notin filter THEN CatPid ELSE SdtPid
      BY <3>1, NextServiceIs
    <3>3. \/ /\ filter' = filter \cup {NextService} /\ spoilt' = {}
             /\ IF ServicePids \subseteq filter' THEN app'.pc = "hooks" ELSE app'.pc = "service"
          \/ /\ app'.pc = "hooks" /\ filter' \in {filter, filter \cup {NextService}}
             /\ spoilt' = ServicePids \ filter
      BY <2>3, <3>1, <1>2 DEF StartService, To, Done, Fails, TypeOK
    <3> QED
      BY <2>1, <3>1, <3>2, <3>3, <1>0
      DEF Filter, FilterMatches, ServicePids, PatPid, CatPid, SdtPid
  <2> QED
    BY <2>2, <2>3
<1> QED
  BY <1>1, <1>3, <1>5, <1>6

\* The steps of get_programs between the hooks and the generated PAT.
LEMMA GetStep ==
  ASSUME IInv, GetHooks \/ GetPat \/ GetCheck \/ GetWalk \/ GetSdt
  PROVE  IInv'
<1> USE DEF IInv, notApp, airVars, filterVars
<1>0. UNCHANGED <<notApp, filter, spoilt, fails, pat>> /\ hooks'.pmt = hooks.pmt
  BY DEF GetHooks, GetPat, GetCheck, GetWalk, GetSdt, TypeOK
<1>1. Listed' = Listed /\ Adopted' = Adopted /\ OfAdopted'
  BY <1>0, AppKeeps
<1>2. Filter' /\ PatOfAdopted' /\ app'.pc \notin {"start", "service", "done"}
  <2>1. app'.pc \notin {"start", "service", "done"} /\ app.pc \notin {"start", "service", "done"}
    <3>1. CASE GetHooks
      BY <3>1 DEF GetHooks, To, TypeOK
    <3>2. CASE GetPat
      BY <3>2 DEF GetPat, TypeOK
    <3>3. CASE GetCheck
      BY <3>3 DEF GetCheck, To, TypeOK
    <3>4. CASE GetWalk
      BY <3>4 DEF GetWalk, WalkOf, To, TypeOK
    <3>5. CASE GetSdt
      BY <3>5 DEF GetSdt, To, TypeOK
    <3> QED BY <3>1, <3>2, <3>3, <3>4, <3>5
  <2> QED
    BY <2>1, <1>0, <1>1, TablesAssumption
    DEF Filter, FilterMatches, Needed, PidsOf, PatOfAdopted, AllPids
<1>3. PatComplete'
  BY <1>0, <1>2 DEF PatComplete
<1>4. CASE GetHooks
  <2>1. TypeOK' /\ Quiet'
    BY <1>4, <1>0 DEF GetHooks, To, TypeOK, Quiet, AppPcs, Before
  <2>2. Walk' /\ SdtLast'
    BY <1>4, <1>0, <1>1 DEF GetHooks, To, TypeOK, Walk, SdtLast, Ended
  <2> QED
    BY <2>1, <2>2, <1>1, <1>2, <1>3
<1>5. CASE GetPat
  <2>1. TypeOK' /\ Quiet'
    <3>1. app.cnt \in Nat /\ app.i \in Nat \ {0} /\ Waits \in Nat /\ app.pc = "pat"
      BY <1>5, TablesAssumption DEF GetPat, TypeOK
    <3>2. \/ app.cnt > 0 /\ app' = [app EXCEPT !.cnt = app.cnt - 1]
          \/ app' = [app EXCEPT !.pc = "check", !.cnt = Waits]
      BY <1>5 DEF GetPat
    <3>3. app.cnt > 0 => app.cnt - 1 \in Nat
      BY <3>1
    <3>4. app' \in [pc : AppPcs, cnt : Nat, i : Nat \ {0}, notready : BOOLEAN,
                    walked : SUBSET Programs, late : BOOLEAN]
      <4>1. app \in [pc : AppPcs, cnt : Nat, i : Nat \ {0}, notready : BOOLEAN,
                     walked : SUBSET Programs, late : BOOLEAN]
        BY DEF TypeOK
      <4>2. {"pat", "check"} \subseteq AppPcs
        BY DEF AppPcs
      <4> QED
        BY ONLY <3>1, <3>2, <3>3, <4>1, <4>2
    <3> QED
      BY <1>5, <1>0, <3>4, <1>2 DEF GetPat, TypeOK, Quiet, Before
  <2>2. Walk' /\ SdtLast'
    BY <1>5, <1>0, <1>1 DEF GetPat, TypeOK, Walk, SdtLast, Ended
  <2> QED
    BY <2>1, <2>2, <1>1, <1>2, <1>3
<1>6. CASE GetCheck
  <2>1. TypeOK' /\ Quiet'
    <3>1. app.cnt \in Nat /\ app.pc = "check"
      BY <1>6 DEF GetCheck, TypeOK
    <3>2. \/ app.cnt > 0 /\ app' = [app EXCEPT !.pc = "walk", !.cnt = app.cnt - 1, !.i = 1,
                                           !.notready = FALSE, !.walked = {}]
          \/ app' = [app EXCEPT !.pc = "sdt", !.late = TRUE]
      BY <1>6 DEF GetCheck
    <3>3. app.cnt > 0 => app.cnt - 1 \in Nat
      BY <3>1
    <3>4. app \in [pc : AppPcs, cnt : Nat, i : Nat \ {0}, notready : BOOLEAN,
                   walked : SUBSET Programs, late : BOOLEAN]
      BY DEF TypeOK
    <3>5. app' \in [pc : AppPcs, cnt : Nat, i : Nat \ {0}, notready : BOOLEAN,
                    walked : SUBSET Programs, late : BOOLEAN] /\ app'.pc \in {"walk", "sdt"}
      <4>1. 1 \in Nat \ {0} /\ {} \in SUBSET Programs
        OBVIOUS
      <4>2. CASE app' = [app EXCEPT !.pc = "sdt", !.late = TRUE]
        BY <3>4, <4>2 DEF AppPcs
      <4>3. CASE app.cnt > 0 /\ app' = [app EXCEPT !.pc = "walk", !.cnt = app.cnt - 1, !.i = 1,
                                                  !.notready = FALSE, !.walked = {}]
        BY <3>4, <3>3, <4>1, <4>3 DEF AppPcs
      <4> QED
        BY <3>2, <4>2, <4>3
    <3> QED
      BY <1>6, <1>0, <3>5, <1>2 DEF GetCheck, TypeOK, Quiet, Before
  <2>2. Walk' /\ SdtLast'
    BY <1>6, <1>0, <1>1 DEF GetCheck, TypeOK, Walk, SdtLast, Ended
  <2> QED
    BY <2>1, <2>2, <1>1, <1>2, <1>3
<1>7. CASE GetWalk
  <2>1. CASE app.i <= Len(list)
    <3>1. list[app.i] \in Listed /\ list[app.i] \in Programs
      BY <2>1 DEF TypeOK, Listed
    <3>2. app' = WalkOf(list[app.i])
      BY <1>7, <2>1 DEF GetWalk
    <3>3. /\ app' = [app EXCEPT !.i = app.i + 1, !.walked = app.walked \cup {list[app.i]},
                                !.notready = app.notready \/ ~HasEs(list[app.i])]
          /\ HasEs(list[app.i]) \in BOOLEAN
      BY <3>2 DEF WalkOf, HasEs
    <3>4. HasEs(list[app.i]) => list[app.i] \in Adopted
      BY <3>1 DEF HasEs, OfAdopted
    <3>5. TypeOK' /\ Quiet'
      <4>1. app.i + 1 \in Nat \ {0} /\ app.notready \in BOOLEAN /\ app.pc = "walk"
        BY <1>7 DEF GetWalk, TypeOK
      <4>2. (app.notready \/ ~HasEs(list[app.i])) \in BOOLEAN
        OBVIOUS
      <4>3. app.walked \cup {list[app.i]} \in SUBSET Programs
        BY <3>1 DEF TypeOK
      <4>4. app' \in [pc : AppPcs, cnt : Nat, i : Nat \ {0}, notready : BOOLEAN,
                      walked : SUBSET Programs, late : BOOLEAN] /\ app'.pc = "walk"
        BY <3>3, <4>1, <4>2, <4>3 DEF TypeOK, AppPcs
      <4> QED
        BY <1>7, <1>0, <4>4 DEF GetWalk, TypeOK, Quiet, Before
    <3>6. /\ app'.pc = "walk" /\ app.pc = "walk" /\ app'.late = app.late
          /\ app'.walked = app.walked \cup {list[app.i]}
          /\ ~app'.notready => ~app.notready /\ HasEs(list[app.i])
      BY <1>7, <3>3 DEF GetWalk, TypeOK
    <3>7. Walk'
      BY <1>1, <3>1, <3>4, <3>6 DEF Walk, Ended
    <3>8. SdtLast'
      BY <1>7, <1>0, <3>6 DEF GetWalk, SdtLast, NoSdt
    <3> QED
      BY <3>5, <3>7, <3>8, <1>1, <1>2, <1>3
  <2>2. CASE ~(app.i <= Len(list))
    <3>1. TypeOK' /\ Quiet'
      BY <1>7, <2>2, <1>0 DEF GetWalk, TypeOK, Quiet, AppPcs, Before
    <3>2. Walk' /\ SdtLast'
      BY <1>7, <2>2, <1>0, <1>1 DEF GetWalk, TypeOK, Walk, SdtLast, Ended
    <3> QED
      BY <3>1, <3>2, <1>1, <1>2, <1>3
  <2> QED
    BY <2>1, <2>2
<1>8. CASE GetSdt
  <2>1. TypeOK' /\ Quiet'
    BY <1>8, <1>0 DEF GetSdt, To, TypeOK, Quiet, AppPcs, Before
  <2>2. Walk' /\ SdtLast'
    BY <1>8, <1>0, <1>1 DEF GetSdt, To, TypeOK, Walk, SdtLast, Ended
  <2> QED
    BY <2>1, <2>2, <1>1, <1>2, <1>3
<1> QED
  BY <1>4, <1>5, <1>6, <1>7, <1>8

\* generate_pat_pkt takes every adopted program that is selected.
LEMMA GenerateStep ==
  ASSUME IInv, GetGenerate
  PROVE  IInv'
<1> USE DEF IInv, notApp, airVars, filterVars
<1>0. UNCHANGED <<notApp, filter, spoilt, fails, hooks>>
  BY DEF GetGenerate
<1>1. Listed' = Listed /\ Adopted' = Adopted /\ OfAdopted'
  BY <1>0, AppKeeps
<1>2. /\ app.pc = "generate" /\ app' = [app EXCEPT !.pc = "done"] /\ pat.pkt = {}
      /\ pat' = IF selected # {} THEN [pat EXCEPT !.pkt = pat.gen] ELSE pat
  BY DEF GetGenerate, To, PatOfAdopted
<1>3. TypeOK' /\ Quiet'
  BY <1>0, <1>2 DEF TypeOK, Quiet, AppPcs, Before
<1>4. Walk' /\ SdtLast'
  BY <1>0, <1>1, <1>2 DEF TypeOK, Walk, SdtLast, Ended
<1>5. PatOfAdopted' /\ Filter'
  BY <1>0, <1>1, <1>2
  DEF TypeOK, PatOfAdopted, Filter, FilterMatches, Needed, PidsOf
<1>6. PatComplete'
  <2>1. pat'.pkt = IF selected # {} THEN pat.gen ELSE {}
    BY <1>2 DEF TypeOK
  <2>2. app'.late = app.late /\ app'.walked = app.walked
    BY <1>2 DEF TypeOK
  <2>3. ~app.late => app.walked \subseteq Adopted
    BY <1>2 DEF Walk, Ended
  <2> QED
    BY <1>0, <2>1, <2>2, <2>3 DEF PatOfAdopted, PatComplete
<1> QED
  BY <1>1, <1>3, <1>4, <1>5, <1>6

-----------------------------------------------------------------------------
(* The hooks in process_ts *)

\* What a step of process_ts has to keep when it leaves the filter, the list,
\* the streams, the names and the generated PAT alone.
LEMMA HookKeeps ==
  ASSUME IInv, TypeOK', app.pc \notin Before,
         UNCHANGED <<app, selected, filter, spoilt, fails, list, hooks, stored, named, ca_list, pat>>,
         \A p \in Programs : prog'[p].pid = prog[p].pid /\ prog'[p].streams = prog[p].streams,
         ts.pc # "adopt", ts'.pc # "adopt",
         ts'.pc = "pmt" => ts'.p \in Adopted
  PROVE  IInv'
<1> USE DEF IInv
<1>1. Listed' = Listed /\ Adopted' = Adopted /\ Listed \subseteq Programs /\ Adopted = Listed
  BY ListedTyped DEF Listed, Adopted
<1>2. Quiet' /\ OfAdopted' /\ PatOfAdopted'
  BY <1>1 DEF Quiet, OfAdopted, PatOfAdopted
<1>3. Walk' /\ SdtLast' /\ PatComplete'
  BY <1>1 DEF Walk, SdtLast, PatComplete
<1>4. \A p \in Adopted : PidsOf(p)' = PidsOf(p)
  BY <1>1 DEF PidsOf
<1>5. Filter'
  BY <1>1, <1>4 DEF Filter, FilterMatches, Needed
<1> QED
  BY <1>2, <1>3, <1>5

\* A program is listed, and not yet adopted.
LEMMA ListStep ==
  ASSUME IInv, PatList
  PROVE  IInv'
<1> USE DEF IInv
<1>1. PICK p \in ts.todo \ Listed :
        /\ list' = Append(list, p)
        /\ prog' = [prog EXCEPT ![p].pid = seen.pat[p]]
        /\ ts' = [Rest(p) EXCEPT !.pc = "adopt", !.p = p]
  BY DEF PatList
<1>2. /\ p \in Programs /\ ts.pc = "pat" /\ app.pc \notin Before
      /\ ts' = [pc |-> "adopt", p |-> p, todo |-> ts.todo \ {p}]
      /\ UNCHANGED <<air, changes, filter, spoilt, fails, selected, app, hooks, seen, stored, named, ca_list, pat>>
  BY <1>1 DEF PatList, TypeOK, Quiet, Rest, airVars, filterVars, appVars
<1>3. list' \in Seq(Programs) /\ Listed' = Listed \cup {p}
  BY <1>1, <1>2, AppendListed
<1>4. Adopted = Listed /\ Adopted' = Adopted /\ Listed \subseteq Programs
  BY <1>1, <1>2, <1>3, ListedTyped DEF Adopted
<1>5. seen.pat[p] \in PmtPids \cup {NoPid}
  BY <1>2 DEF TypeOK, PatTables
<1>6. /\ \A q \in Programs : prog'[q].streams = prog[q].streams
      /\ \A q \in Programs \ {p} : prog'[q].pid = prog[q].pid
      /\ prog' \in [Programs -> [pid : PmtPids \cup {NoPid}, streams : SUBSET Recs,
                                 seen : Pmts \cup {NoPmt}]]
  <2>1. prog \in [Programs -> [pid : PmtPids \cup {NoPid}, streams : SUBSET Recs,
                               seen : Pmts \cup {NoPmt}]]
    BY DEF TypeOK
  <2>2. /\ p \in Programs /\ seen.pat[p] \in PmtPids \cup {NoPid}
        /\ prog' = [prog EXCEPT ![p] = [prog[p] EXCEPT !.pid = seen.pat[p]]]
    BY <1>1, <1>2, <1>5
  <2> QED
    BY ONLY <2>1, <2>2
<1>7. TypeOK'
  BY <1>2, <1>3, <1>6 DEF TypeOK
<1>8. Quiet' /\ OfAdopted' /\ PatOfAdopted'
  BY <1>2, <1>3, <1>4, <1>6 DEF Quiet, OfAdopted, PatOfAdopted
<1>9. Walk' /\ SdtLast' /\ PatComplete'
  BY <1>2, <1>3, <1>4 DEF Walk, SdtLast, PatComplete
<1>10. \A q \in Adopted : PidsOf(q)' = PidsOf(q)
  BY <1>1, <1>4, <1>6 DEF PidsOf
<1>11. Filter'
  BY <1>2, <1>4, <1>10 DEF Filter, FilterMatches, Needed
<1> QED
  BY <1>7, <1>8, <1>9, <1>11

\* What passes for the sake of the selected programs.
Passing == UNION {PidsOf(p) : p \in Adopted \cap selected}

\* A program is adopted: its PMT PID passes, the PAT and the hooks have it.
LEMMA AdoptStep ==
  ASSUME IInv, PatAdopt
  PROVE  IInv'
<1> USE DEF IInv
<1> DEFINE p == ts.p
<1>1. /\ p \in Programs /\ p \in Listed /\ ts.pc = "adopt" /\ app.pc \notin Before
      /\ ts' = [pc |-> "pat", p |-> p, todo |-> ts.todo]
      /\ UNCHANGED <<air, changes, selected, app, list, prog, seen, stored, named, ca_list>>
  BY DEF PatAdopt, TypeOK, Quiet, OfAdopted, airVars, filterVars, appVars
<1>2. /\ Listed' = Listed /\ Adopted' = Listed /\ Adopted = Listed \ {p}
      /\ Listed \subseteq Programs
  BY <1>1, ListedTyped DEF Listed, Adopted
<1>3. /\ pat' = IF p \in selected THEN [pat EXCEPT !.gen = pat.gen \cup {p}] ELSE pat
      /\ hooks' = [hooks EXCEPT !.pmt[prog[p].pid] = {p}]
  BY DEF PatAdopt
<1>4. /\ IF p \in selected THEN Unblock(prog[p].pid) ELSE UNCHANGED <<filter, spoilt, fails>>
      /\ fails \in Nat
  BY DEF PatAdopt, filterVars, TypeOK
<1>40. fails' \in Nat
  BY <1>4 DEF Unblock, Done, Fails
<1>5. hooks' \in [pat : BOOLEAN, cat : BOOLEAN, sdt : BOOLEAN, pmt : [PmtPids -> SUBSET Programs]]
  BY <1>1, <1>3 DEF TypeOK
<1>6. pat' \in [gen : SUBSET Programs, pkt : SUBSET Programs]
  BY <1>1, <1>3 DEF TypeOK
<1>7. TypeOK'
  BY <1>1, <1>40, <1>5, <1>6 DEF TypeOK
<1>8. /\ \A pid \in PmtPids : hooks'.pmt[pid] \subseteq hooks.pmt[pid] \cup {p}
      /\ hooks'.pat = hooks.pat /\ hooks'.sdt = hooks.sdt
  BY <1>3 DEF TypeOK
<1>9. Quiet' /\ OfAdopted'
  BY <1>1, <1>2, <1>8 DEF Quiet, OfAdopted
<1>10. PatOfAdopted' /\ PatComplete'
  BY <1>1, <1>2, <1>3 DEF PatOfAdopted, PatComplete, TypeOK
<1>11. Walk' /\ SdtLast'
  BY <1>1, <1>2, <1>8 DEF Walk, SdtLast
<1>12. prog[p].streams = {} /\ \A q \in Programs : PidsOf(q)' = PidsOf(q)
  BY <1>1, <1>2 DEF OfAdopted, PidsOf
<1>13. PidsOf(p) = {prog[p].pid}
  BY <1>12 DEF PidsOf
<1>14. \A x : x \in Passing' <=> x \in Passing \/ (p \in selected /\ x = prog[p].pid)
  <2>1. \A q \in Adopted : q \in Programs /\ q \in Adopted'
    BY <1>2
  <2> QED
    BY <1>1, <1>2, <1>12, <1>13, <2>1 DEF Passing
<1>15. Passing' = Passing \cup (IF p \in selected THEN {prog[p].pid} ELSE {})
  BY <1>14
<1>16. /\ Needed = IF selected = {} THEN AllPids ELSE ServicePids \cup ca_list \cup Passing
       /\ Needed' = IF selected = {} THEN AllPids ELSE ServicePids \cup ca_list \cup Passing'
  BY <1>1 DEF Needed, Passing
<1>17. filter \ spoilt = Needed \ spoilt
  BY <1>1 DEF Filter, FilterMatches, Before
<1>18. Filter'
  <2>1. CASE p \in selected
    <3>1. filter' \ spoilt' = (Needed \cup {prog[p].pid}) \ spoilt'
      BY <2>1, <1>4, <1>17, UnblockKeeps
    <3>2. Needed' = Needed \cup {prog[p].pid}
      BY <2>1, <1>15, <1>16
    <3> QED
      BY <3>1, <3>2, <1>1 DEF Filter, FilterMatches, Before
  <2>2. CASE p \notin selected
    <3>1. Needed' = Needed
      BY <2>2, <1>15, <1>16
    <3> QED
      BY <2>2, <3>1, <1>1, <1>4, <1>17 DEF Filter, FilterMatches, Before
  <2> QED
    BY <2>1, <2>2
<1> QED
  BY <1>7, <1>9, <1>10, <1>11, <1>18

\* A stream of an adopted program: its PID passes when the program is selected.
LEMMA StreamStep ==
  ASSUME IInv, PmtStream
  PROVE  IInv'
<1> USE DEF IInv
<1> DEFINE p == ts.p
<1>1. PICK s \in ts.todo \ prog[p].streams :
        /\ NextStream(s) /\ ts' = Rest(s)
        /\ prog' = [prog EXCEPT ![p].streams = prog[p].streams \cup {s}]
        /\ IF p \in selected THEN Unblock(s.pid) ELSE UNCHANGED <<filter, spoilt, fails>>
  BY DEF PmtStream, filterVars
<1>2. /\ p \in Programs /\ p \in Adopted /\ ts.pc = "pmt" /\ app.pc \notin Before
      /\ s \in Recs
      /\ ts' = [pc |-> "pmt", p |-> p, todo |-> ts.todo \ {s}]
      /\ UNCHANGED <<air, changes, selected, app, list, hooks, seen, stored, named, ca_list, pat>>
  BY <1>1 DEF PmtStream, TypeOK, Quiet, OfAdopted, Rest, airVars, filterVars, appVars
<1>3. Listed' = Listed /\ Adopted' = Adopted /\ Adopted \subseteq Programs
  BY <1>2, ListedTyped DEF Listed, Adopted
<1>4. /\ prog' \in [Programs -> [pid : PmtPids \cup {NoPid}, streams : SUBSET Recs,
                                 seen : Pmts \cup {NoPmt}]]
      /\ \A q \in Programs \ {p} : prog'[q] = prog[q]
      /\ prog'[p].pid = prog[p].pid /\ prog'[p].streams = prog[p].streams \cup {s}
  <2>1. prog[p] \in [pid : PmtPids \cup {NoPid}, streams : SUBSET Recs, seen : Pmts \cup {NoPmt}]
    BY <1>2 DEF TypeOK
  <2>2. prog[p].streams \cup {s} \in SUBSET Recs
    BY <2>1, <1>2
  <2> QED
    <3>1. prog \in [Programs -> [pid : PmtPids \cup {NoPid}, streams : SUBSET Recs,
                                 seen : Pmts \cup {NoPmt}]]
      BY DEF TypeOK
    <3>2. /\ p \in Programs
          /\ prog' = [prog EXCEPT ![p] = [prog[p] EXCEPT !.streams = prog[p].streams \cup {s}]]
      BY <1>1, <1>2
    <3> HIDE DEF p
    <3> QED
      BY ONLY <2>1, <2>2, <3>1, <3>2
<1>5. fails \in Nat /\ fails' \in Nat
  BY <1>1 DEF Unblock, Done, Fails, TypeOK
<1>6. TypeOK'
  BY <1>2, <1>4, <1>5 DEF TypeOK
<1>7. Quiet' /\ OfAdopted' /\ PatOfAdopted'
  BY <1>2, <1>3, <1>4 DEF Quiet, OfAdopted, PatOfAdopted
<1>8. Walk' /\ SdtLast' /\ PatComplete'
  BY <1>2, <1>3 DEF Walk, SdtLast, PatComplete
<1>9. PidsOf(p)' = PidsOf(p) \cup {s.pid} /\ \A q \in Programs \ {p} : PidsOf(q)' = PidsOf(q)
  BY <1>2, <1>4 DEF PidsOf
<1>10. \A x : x \in Passing' <=> x \in Passing \/ (p \in selected /\ x = s.pid)
  BY <1>2, <1>3, <1>9 DEF Passing
<1>11. Passing' = Passing \cup (IF p \in selected THEN {s.pid} ELSE {})
  BY <1>10
<1>12. /\ Needed = IF selected = {} THEN AllPids ELSE ServicePids \cup ca_list \cup Passing
       /\ Needed' = IF selected = {} THEN AllPids ELSE ServicePids \cup ca_list \cup Passing'
  BY <1>2 DEF Needed, Passing
<1>13. filter \ spoilt = Needed \ spoilt
  BY <1>2 DEF Filter, FilterMatches, Before
<1>14. Filter'
  <2>1. CASE p \in selected
    <3>1. filter' \ spoilt' = (Needed \cup {s.pid}) \ spoilt'
      BY <2>1, <1>1, <1>5, <1>13, UnblockKeeps
    <3>2. Needed' = Needed \cup {s.pid}
      BY <2>1, <1>11, <1>12
    <3> QED
      BY <3>1, <3>2, <1>2 DEF Filter, FilterMatches, Before
  <2>2. CASE p \notin selected
    <3>1. Needed' = Needed
      BY <2>2, <1>11, <1>12
    <3> QED
      BY <2>2, <3>1, <1>1, <1>2, <1>13 DEF Filter, FilterMatches, Before
  <2> QED
    BY <2>1, <2>2
<1> QED
  BY <1>6, <1>7, <1>8, <1>14

\* A new SDT names every program of the list.
LEMMA SdtStep ==
  ASSUME IInv, SdtPacket
  PROVE  IInv'
<1> USE DEF IInv
<1>1. UNCHANGED <<air, changes, filter, spoilt, fails, selected, app, ts, hooks, list, prog, ca_list, pat>>
  BY DEF SdtPacket, airVars, filterVars, appVars
<1>2. hooks.sdt /\ seen' = [seen EXCEPT !.sdt = air.sdt] /\ air.sdt.services \subseteq Programs
  BY DEF SdtPacket, TypeOK, Tables
<1>3. \/ UNCHANGED <<stored, named>>
      \/ stored' = air.sdt /\ named' = named \cup (Listed \cap air.sdt.services)
  BY DEF SdtPacket
<1>4. Listed' = Listed /\ Adopted' = Adopted
  BY <1>1 DEF Listed, Adopted
<1>5. TypeOK'
  BY <1>1, <1>2, <1>3 DEF TypeOK
<1>6. Quiet' /\ OfAdopted' /\ PatOfAdopted' /\ PatComplete'
  BY <1>1, <1>4 DEF Quiet, OfAdopted, PatOfAdopted, PatComplete
<1>7. Walk' /\ Filter'
  BY <1>1, <1>4 DEF Walk, Filter, FilterMatches, Needed, PidsOf
<1>8. SdtLast'
  BY <1>1, <1>2, <1>3 DEF SdtLast, Walk
<1> QED
  BY <1>5, <1>6, <1>7, <1>8

\* The steps of the hooks that only take up an entry.
LEMMA HookStep ==
  ASSUME IInv,
         PatPacket \/ PatKnown \/ TableEnds \/ PmtPacket \/ PmtKnown \/ CatPacket \/ CatKnown
  PROVE  IInv'
<1> USE DEF IInv
<1>1. UNCHANGED <<air, changes, selected, app, filter, spoilt, fails, list, hooks, stored, named, ca_list, pat>>
  BY DEF PatPacket, PatKnown, TableEnds, PmtPacket, PmtKnown, CatPacket, CatKnown, airVars, filterVars, appVars
<1>2. CASE PatPacket
  <2>1. /\ ts.pc = "idle" /\ prog' = prog /\ hooks.pat
        /\ ts' = [pc |-> "pat", p |-> 0, todo |-> {q \in Programs : air.pat[q] # NoPid}]
        /\ seen' = [seen EXCEPT !.pat = air.pat]
    BY <1>2 DEF PatPacket
  <2>2. TypeOK'
    BY <1>1, <2>1 DEF TypeOK
  <2> QED
    BY <1>1, <2>1, <2>2, HookKeeps DEF Quiet
<1>3. CASE PatKnown
  <2>1. PICK e \in ts.todo : ts' = Rest(e) /\ ts.pc = "pat" /\ prog' = prog /\ seen' = seen
    BY <1>3 DEF PatKnown
  <2>2. ts' = [pc |-> "pat", p |-> ts.p, todo |-> ts.todo \ {e}]
    BY <2>1 DEF Rest, TypeOK
  <2>3. TypeOK'
    BY <1>1, <2>1, <2>2 DEF TypeOK
  <2> QED
    BY <1>1, <2>1, <2>2, <2>3, HookKeeps DEF Quiet
<1>4. CASE TableEnds
  <2>1. ts' = Idle /\ ts.pc \in {"pat", "pmt", "cat"} /\ prog' = prog /\ seen' = seen
    BY <1>4 DEF TableEnds
  <2>2. TypeOK'
    BY <1>1, <2>1 DEF TypeOK, Idle
  <2> QED
    BY <1>1, <2>1, <2>2, HookKeeps DEF Quiet, Idle
<1>5. CASE PmtPacket
  <2>1. PICK pid \in PmtPids \cap filter : \E q \in hooks.pmt[pid] :
          /\ ts.pc = "idle" /\ seen' = seen
          /\ ts' = [pc |-> "pmt", p |-> q, todo |-> Streams(air.pmt[q])]
          /\ prog' = [prog EXCEPT ![q].seen = air.pmt[q]]
    BY <1>5 DEF PmtPacket
  <2>2. PICK q \in hooks.pmt[pid] :
          /\ ts.pc = "idle" /\ seen' = seen
          /\ ts' = [pc |-> "pmt", p |-> q, todo |-> Streams(air.pmt[q])]
          /\ prog' = [prog EXCEPT ![q].seen = air.pmt[q]]
    BY <2>1
  <2>3. q \in Adopted /\ q \in Programs
    BY <2>1, <2>2 DEF OfAdopted, TypeOK
  <2>4. air.pmt[q] \in Pmts /\ air.pmt[q].es \subseteq StreamPids /\ air.pmt[q].ca \subseteq StreamPids
    BY <2>3, TablesAssumption DEF TypeOK
  <2>5. Streams(air.pmt[q]) \subseteq Recs
    BY <2>4 DEF Streams, Recs
  <2>6. /\ prog' \in [Programs -> [pid : PmtPids \cup {NoPid}, streams : SUBSET Recs,
                                   seen : Pmts \cup {NoPmt}]]
        /\ \A r \in Programs : prog'[r].pid = prog[r].pid /\ prog'[r].streams = prog[r].streams
    <3>1. prog \in [Programs -> [pid : PmtPids \cup {NoPid}, streams : SUBSET Recs,
                                 seen : Pmts \cup {NoPmt}]]
      BY DEF TypeOK
    <3>2. /\ q \in Programs /\ air.pmt[q] \in Pmts
          /\ prog' = [prog EXCEPT ![q] = [prog[q] EXCEPT !.seen = air.pmt[q]]]
      BY <2>2, <2>3, <2>4
    <3> QED
      BY ONLY <3>1, <3>2
  <2>7. TypeOK'
    BY <1>1, <2>2, <2>3, <2>5, <2>6 DEF TypeOK
  <2>8. app.pc \notin Before
    BY <1>1, <2>1, <2>2, <2>3, ListedTyped DEF Quiet, Adopted, Listed
  <2> QED
    BY <1>1, <2>2, <2>3, <2>6, <2>7, <2>8, HookKeeps
<1>6. CASE PmtKnown
  <2>1. PICK e \in prog[ts.p].streams :
          NextStream(e) /\ ts' = Rest(e) /\ ts.pc = "pmt" /\ prog' = prog /\ seen' = seen
    BY <1>6 DEF PmtKnown
  <2>2. ts' = [pc |-> "pmt", p |-> ts.p, todo |-> ts.todo \ {e}]
    BY <2>1 DEF Rest, TypeOK
  <2>3. TypeOK'
    BY <1>1, <2>1, <2>2 DEF TypeOK
  <2> QED
    BY <1>1, <2>1, <2>2, <2>3, HookKeeps DEF Quiet, OfAdopted
<1>7. CASE CatPacket
  <2>1. /\ ts.pc = "idle" /\ prog' = prog /\ hooks.cat
        /\ ts' = [pc |-> "cat", p |-> 0, todo |-> air.cat]
        /\ seen' = [seen EXCEPT !.cat = air.cat]
    BY <1>7 DEF CatPacket
  <2>2. TypeOK'
    BY <1>1, <2>1 DEF TypeOK
  <2> QED
    BY <1>1, <2>1, <2>2, HookKeeps DEF Quiet
<1>8. CASE CatKnown
  <2>1. PICK e \in ts.todo : ts' = Rest(e) /\ ts.pc = "cat" /\ prog' = prog /\ seen' = seen
    BY <1>8 DEF CatKnown
  <2>2. ts' = [pc |-> "cat", p |-> ts.p, todo |-> ts.todo \ {e}]
    BY <2>1 DEF Rest, TypeOK
  <2>3. TypeOK'
    BY <1>1, <2>1, <2>2 DEF TypeOK
  <2> QED
    BY <1>1, <2>1, <2>2, <2>3, HookKeeps DEF Quiet
<1> QED
  BY <1>2, <1>3, <1>4, <1>5, <1>6, <1>7, <1>8

\* A CA descriptor of the CAT: its PID passes when programs are selected.
LEMMA CatStep ==
  ASSUME IInv, CatStream
  PROVE  IInv'
<1> USE DEF IInv
<1>1. PICK pid \in ts.todo \ ca_list :
        /\ ts' = Rest(pid) /\ ca_list' = ca_list \cup {pid}
        /\ IF selected # {} THEN Unblock(pid) ELSE UNCHANGED <<filter, spoilt, fails>>
  BY DEF CatStream, filterVars
<1>2. /\ ts.pc = "cat" /\ pid \in StreamPids /\ app.pc \notin Before
      /\ ts' = [pc |-> "cat", p |-> ts.p, todo |-> ts.todo \ {pid}]
      /\ UNCHANGED <<air, changes, selected, app, hooks, list, prog, seen, stored, named, pat>>
  BY <1>1 DEF CatStream, TypeOK, Quiet, Rest, airVars, appVars
<1>3. Listed' = Listed /\ Adopted' = Adopted
  BY <1>2 DEF Listed, Adopted
<1>4. fails \in Nat /\ fails' \in Nat
  BY <1>1 DEF Unblock, Done, Fails, TypeOK
<1>5. TypeOK'
  BY <1>1, <1>2, <1>4 DEF TypeOK
<1>6. Quiet' /\ OfAdopted' /\ PatOfAdopted'
  BY <1>2, <1>3 DEF Quiet, OfAdopted, PatOfAdopted
<1>7. Walk' /\ SdtLast' /\ PatComplete'
  BY <1>2, <1>3 DEF Walk, SdtLast, PatComplete
<1>8. /\ filter \ spoilt = Needed \ spoilt
      /\ Needed' = IF selected = {} THEN Needed ELSE Needed \cup {pid}
  <2>1. filter \ spoilt = Needed \ spoilt
    BY <1>2 DEF Filter, FilterMatches, Before
  <2>2. \A p \in Programs : PidsOf(p)' = PidsOf(p)
    BY <1>2 DEF PidsOf
  <2>3. Passing' = Passing
    BY <1>2, <1>3, <2>2 DEF Passing, PidsOf
  <2> QED
    BY <1>1, <1>2, <2>1, <2>3 DEF Needed, Passing
<1>9. filter' \ spoilt' = Needed' \ spoilt'
  <2>1. CASE selected = {}
    BY <2>1, <1>1, <1>8
  <2>2. CASE selected # {}
    BY <2>2, <1>1, <1>4, <1>8, UnblockKeeps
  <2> QED
    BY <2>1, <2>2
<1>10. Filter'
  BY <1>2, <1>9 DEF Filter, FilterMatches, Before
<1> QED
  BY <1>5, <1>6, <1>7, <1>10

\* What is on the air is not part of the invariant but for its type.
LEMMA AirStep ==
  ASSUME IInv, Broadcast
  PROVE  IInv'
<1> USE DEF IInv
<1>1. UNCHANGED <<filter, spoilt, fails, selected, app, ts, hooks, list, prog, seen, stored, named, ca_list, pat>>
  BY DEF Broadcast, appVars, filterVars
<1>2. changes' = changes + 1 /\ changes \in Nat
  BY DEF Broadcast, TypeOK
<1>3. air' \in [pat : PatTables, pmt : [Programs -> Pmts], cat : SUBSET StreamPids, sdt : Tables]
  <2>1. CASE \E t \in Pats : air' = [air EXCEPT !.pat = t]
    <3>1. PICK t \in PatTables : air' = [air EXCEPT !.pat = t]
      BY <2>1, TablesAssumption DEF PatTables
    <3> QED
      BY <3>1 DEF TypeOK
  <2>2. CASE \E p \in Programs, t \in Pmts : air' = [air EXCEPT !.pmt[p] = t]
    <3>1. PICK p \in Programs, t \in Pmts :
            air' = [air EXCEPT !.pmt = [air.pmt EXCEPT ![p] = t]]
      BY <2>2
    <3>2. [air.pmt EXCEPT ![p] = t] \in [Programs -> Pmts]
      BY <3>1 DEF TypeOK
    <3> QED
      BY <3>1, <3>2 DEF TypeOK
  <2>3. CASE \E cn \in {0, 1}, names \in Services :
               air' = [air EXCEPT !.sdt = [ver |-> changes + 1, cn |-> cn, services |-> names]]
    <3>1. PICK cn \in {0, 1}, names \in Services :
            air' = [air EXCEPT !.sdt = [ver |-> changes + 1, cn |-> cn, services |-> names]]
      BY <2>3
    <3>2. [ver |-> changes + 1, cn |-> cn, services |-> names] \in Tables
      BY <1>2, TablesAssumption DEF Tables
    <3>3. air \in [pat : PatTables, pmt : [Programs -> Pmts], cat : SUBSET StreamPids, sdt : Tables]
      BY DEF TypeOK
    <3> QED
      BY <3>1, <3>2, <3>3
  <2>4. CASE \E t \in Cats : air' = [air EXCEPT !.cat = t]
    <3>0. Cats \subseteq SUBSET StreamPids
      BY TablesAssumption
    <3>1. PICK t \in SUBSET StreamPids : air' = [air EXCEPT !.cat = t]
      BY ONLY <2>4, <3>0
    <3> QED
      BY <3>1 DEF TypeOK
  <2> QED
    BY <2>1, <2>2, <2>3, <2>4 DEF Broadcast
<1>4. TypeOK'
  BY <1>1, <1>2, <1>3 DEF TypeOK
<1>5. Listed' = Listed /\ Adopted' = Adopted
  BY <1>1 DEF Listed, Adopted
<1>6. Quiet' /\ OfAdopted' /\ PatOfAdopted' /\ Walk' /\ SdtLast' /\ PatComplete'
  BY <1>1, <1>5 DEF Quiet, OfAdopted, PatOfAdopted, Walk, SdtLast, PatComplete
<1>7. Filter'
  BY <1>1, <1>5 DEF Filter, FilterMatches, Needed, PidsOf
<1> QED
  BY <1>4, <1>6, <1>7

-----------------------------------------------------------------------------
\* The strengthened invariant of get_programs and the hooks.
THEOREM TablesInvariant == Spec => []IInv
<1>1. Init => IInv
  BY InitInv
<1>2. IInv /\ [Next]_vars => IInv'
  <2> SUFFICES ASSUME IInv, [Next]_vars PROVE IInv'
    OBVIOUS
  <2>1. CASE AppStep
    BY <2>1, FilterStep, GetStep, GenerateStep DEF AppStep
  <2>2. CASE TsStep
    BY <2>2, HookStep, ListStep, AdoptStep, StreamStep, CatStep, SdtStep DEF TsStep
  <2>3. CASE Broadcast
    BY <2>3, AirStep
  <2>4. CASE UNCHANGED vars
    <3>1. UNCHANGED <<air, changes, filter, spoilt, fails, selected, app, ts, hooks, list, prog,
                      seen, stored, named, ca_list, pat>>
      BY <2>4 DEF vars, airVars, filterVars, appVars
    <3>2. Listed' = Listed /\ Adopted' = Adopted
      BY <3>1 DEF Listed, Adopted
    <3>3. TypeOK' /\ Quiet' /\ OfAdopted' /\ PatOfAdopted'
      BY <3>1, <3>2 DEF IInv, TypeOK, Quiet, OfAdopted, PatOfAdopted
    <3>4. Walk' /\ SdtLast' /\ Filter' /\ PatComplete'
      BY <3>1, <3>2 DEF IInv, Walk, SdtLast, Filter, FilterMatches, Needed, PidsOf, PatComplete
    <3> QED
      BY <3>3, <3>4 DEF IInv
  <2> QED
    BY <2>1, <2>2, <2>3, <2>4 DEF Next
<1> QED
  BY <1>1, <1>2, PTL DEF Spec

\* The filter passes exactly what has to pass (ts_filter_one in DumpPAT, DumpPMT
\* and DumpCAT), but for the PIDs whose own command failed.
THEOREM FilterHolds == Spec => []FilterMatches
<1>1. IInv => FilterMatches
  BY DEF IInv, Filter
<1> QED
  BY <1>1, TablesInvariant, PTL

\* The generated PAT has every selected program get_programs found ready
\* (generate_pat_pkt).
THEOREM PatHolds == Spec => []PatComplete
<1>1. IInv => PatComplete
  BY DEF IInv
<1> QED
  BY <1>1, TablesInvariant, PTL

\* The programs get_programs has looked at are named by the stored SDT
\* (DumpSDT, installed after the walk).
THEOREM NamedHolds == Spec => []Named
<1>1. IInv => Named
  BY DEF IInv, SdtLast, Named
<1> QED
  BY <1>1, TablesInvariant, PTL
=============================================================================
