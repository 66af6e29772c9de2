---------------------------- MODULE ProgramTables ----------------------------
(***************************************************************************)
(* From the tables of a Transport Stream to the list of programs, the      *)
(* generated PAT and the PID filter of the FPGA (src/joker_ts.c,           *)
(* src/joker_ts_filter.c): the application is in start_ts and              *)
(* get_programs, the hooks run in process_ts.  The lists have no lock.     *)
(*                                                                         *)
(* A table is what the callbacks read of it; a decoder of libdvbpsi calls  *)
(* back when the table on its PID is not the one it had.                   *)
(***************************************************************************)
EXTENDS Integers, Sequences

CONSTANTS
  Programs,    \* program numbers
  PmtPids, StreamPids, \* PIDs of PMTs, of elementary and of CA streams
  Pats,        \* PATs: the PMT PID of each program, NoPid when it is not listed
  Pmts,        \* PMTs: es, ca: sets of StreamPids
  Services,    \* services of an SDT: sets of programs
  Cats,        \* CATs: the PIDs of their CA descriptors, sets of StreamPids
  Selections,  \* what the application may select
  Waits,       \* checks of get_programs before it gives up (20)
  MaxChanges,  \* bound: changes of the tables on the air
  MaxFails     \* bound: filter commands that fail

PatPid == 0
CatPid == 1
SdtPid == 17
NoPid  == 8191
ServicePids == {PatPid, CatPid, SdtPid}
AllPids     == ServicePids \cup PmtPids \cup StreamPids

ASSUME TablesAssumption ==
  /\ PmtPids \cup StreamPids \subseteq 32 .. 8190
  /\ PmtPids \cap StreamPids = {}
  /\ Pats \subseteq [Programs -> PmtPids \cup {NoPid}]
  /\ Pmts \subseteq [es : SUBSET StreamPids, ca : SUBSET StreamPids]
  /\ Services \subseteq SUBSET Programs /\ Programs \in Services
  /\ Cats \subseteq SUBSET StreamPids
  /\ Selections \subseteq SUBSET Programs
  /\ Waits \in Nat /\ MaxChanges \in Nat /\ MaxFails \in Nat

VARIABLES
  air,      \* tables on the air: pat, pmt, cat; sdt: version, current_next,
            \* services
  changes,  \* history: how often they changed
  filter,   \* FPGA: PIDs that pass
  spoilt,   \* history: PIDs whose last filter command failed or was given up
  fails,    \* history: filter commands that failed
  selected, \* pool->selected_programs_list
  app,      \* application: pc; cnt; i, notready: its walk through the list;
            \* walked: programs of the walk; late (history): it gave up
  ts,       \* process_ts: pc; p: program; todo: entries of the table left
  hooks,    \* pool->hooks: pat, cat, sdt; pmt: the program on a PMT PID, if any
  list,     \* pool->programs_list
  prog,     \* per program: pmt_pid, streams of es_list and ca_list; seen: PMT
            \* its decoder had
  seen,     \* PAT, CAT and SDT the other decoders had
  stored,   \* pool->stored_sdt
  named,    \* programs with a name
  ca_list,  \* pool->ca_list: PIDs
  pat       \* pool->generated_pat and generated_pat_pkt

airVars == <<air, changes>>
filterVars == <<filter, spoilt, fails>>
appVars == <<selected, app>>
vars == <<airVars, filterVars, appVars, ts, hooks, list, prog, seen, stored,
          named, ca_list, pat>>

NoPmt == [es |-> {}, ca |-> {}]
NoPat == [p \in Programs |-> NoPid]
NoSdt == [ver |-> -1, cn |-> 0, services |-> {}]
Idle  == [pc |-> "idle", p |-> 0, todo |-> {}]

\* The filter is as whatever used the card before left it.
Init ==
  /\ air \in [pat : Pats, pmt : [Programs -> Pmts],
              cat : Cats, sdt : {[ver |-> 0, cn |-> 1, services |-> Programs]}]
  /\ changes = 0 /\ fails = 0
  /\ filter \in {{}, ServicePids, AllPids} /\ spoilt = {}
  /\ selected \in Selections
  /\ app = [pc |-> "start", cnt |-> Waits, i |-> 1, notready |-> FALSE,
            walked |-> {}, late |-> FALSE]
  /\ ts = Idle
  /\ hooks = [pat |-> FALSE, cat |-> FALSE, sdt |-> FALSE, pmt |-> [pid \in PmtPids |-> {}]]
  /\ list = <<>> /\ named = {} /\ ca_list = {}
  /\ prog = [p \in Programs |-> [pid |-> NoPid, streams |-> {}, seen |-> NoPmt]]
  /\ seen = [pat |-> NoPat, cat |-> {}, sdt |-> NoSdt]
  /\ stored = NoSdt
  /\ pat = [gen |-> {}, pkt |-> {}]

Listed == {list[i] : i \in DOMAIN list}

-----------------------------------------------------------------------------
(* The PID filter *)

\* joker_cmd for some PIDs: the card may have done a command that failed.
Done(f, pids) == filter' = f /\ spoilt' = spoilt \ pids /\ UNCHANGED fails
Fails(f, pids) ==
  /\ fails < MaxFails /\ fails' = fails + 1
  /\ filter' \in {filter, f} /\ spoilt' = spoilt \cup pids

\* ts_filter_one with TS_FILTER_UNBLOCK, by callers that ignore its result.
Unblock(pid) == LET f == filter \cup {pid} IN Done(f, {pid}) \/ Fails(f, {pid})

-----------------------------------------------------------------------------
(* start_ts and get_programs *)

To(pc) == app' = [app EXCEPT !.pc = pc]
notApp == <<airVars, selected, ts, list, prog, seen, stored, named, ca_list>>

\* ts_filter_all
StartFilter ==
  /\ app.pc = "start"
  /\ IF selected = {}
     THEN (Done(AllPids, AllPids) \/ Fails(AllPids, AllPids)) /\ To("hooks")
     ELSE \/ Done({}, AllPids) /\ To("service")
          \/ Fails({}, AllPids) /\ To("hooks")
  /\ UNCHANGED <<notApp, hooks, pat>>

\* ts_filter_only_service_pids: in ascending order; it ends at the first error,
\* which start_ts ignores.
NextService ==
  CHOOSE pid \in ServicePids \ filter : \A q \in ServicePids \ filter : pid <= q

StartService ==
  /\ app.pc = "service"
  /\ LET f == filter \cup {NextService}
     IN \/ Done(f, {}) /\ IF ServicePids \subseteq f THEN To("hooks") ELSE UNCHANGED app
        \/ Fails(f, ServicePids \ filter) /\ To("hooks")
  /\ UNCHANGED <<notApp, hooks, pat>>

\* Mutant: the SDT hook is installed with the others.
GetHooksAll ==
  /\ app.pc = "hooks"
  /\ hooks' = [hooks EXCEPT !.pat = TRUE, !.cat = TRUE, !.sdt = TRUE]
  /\ To("pat")
  /\ UNCHANGED <<notApp, filterVars, pat>>

GetHooks ==
  /\ app.pc = "hooks"
  /\ hooks' = [hooks EXCEPT !.pat = TRUE, !.cat = TRUE]
  /\ To("pat")
  /\ UNCHANGED <<notApp, filterVars, pat>>

\* usleep while the list is empty.
GetPat ==
  /\ app.pc = "pat"
  /\ app' = IF app.cnt > 0 /\ list = <<>> THEN [app EXCEPT !.cnt = @ - 1]
            ELSE [app EXCEPT !.pc = "check", !.cnt = Waits]
  /\ UNCHANGED <<notApp, filterVars, hooks, pat>>

GetCheck ==
  /\ app.pc = "check"
  /\ app' = IF app.cnt > 0
            THEN [app EXCEPT !.pc = "walk", !.cnt = @ - 1, !.i = 1,
                             !.notready = FALSE, !.walked = {}]
            ELSE [app EXCEPT !.pc = "sdt", !.late = TRUE]
  /\ UNCHANGED <<notApp, filterVars, hooks, pat>>

HasEs(p) == \E s \in prog[p].streams : s.k = "es"

\* Mutant: one program with streams is enough.
WalkOfAny(p) == [app EXCEPT !.i = @ + 1, !.walked = @ \cup {p},
                            !.notready = (@ \/ app.i = 1) /\ ~HasEs(p)]

\* One program of the list, which process_ts may extend meanwhile.
WalkOf(p) == [app EXCEPT !.i = @ + 1, !.walked = @ \cup {p},
                         !.notready = @ \/ ~HasEs(p)]

GetWalk ==
  /\ app.pc = "walk"
  /\ app' = IF app.i <= Len(list) THEN WalkOf(list[app.i])
            ELSE [app EXCEPT !.pc = IF app.notready THEN "check" ELSE "sdt"]
  /\ UNCHANGED <<notApp, filterVars, hooks, pat>>

GetSdt ==
  /\ app.pc = "sdt"
  /\ hooks' = [hooks EXCEPT !.sdt = TRUE]
  /\ To("generate")
  /\ UNCHANGED <<notApp, filterVars, pat>>

\* generate_pat_pkt: once, and nothing when no program was added.
GetGenerate ==
  /\ app.pc = "generate"
  /\ pat' = IF selected # {} /\ pat.pkt = {} THEN [pat EXCEPT !.pkt = pat.gen] ELSE pat
  /\ To("done")
  /\ UNCHANGED <<notApp, filterVars, hooks>>

AppStep ==
  StartFilter \/ StartService \/ GetHooks \/ GetPat \/ GetCheck \/ GetWalk
  \/ GetSdt \/ GetGenerate

-----------------------------------------------------------------------------
(* The hooks in process_ts: a packet on a PID that passes the filter *)

Rest(e) == [ts EXCEPT !.todo = @ \ {e}]

\* A new PAT.
PatPacket ==
  /\ ts.pc = "idle" /\ hooks.pat /\ PatPid \in filter /\ air.pat # seen.pat
  /\ ts' = [pc |-> "pat", p |-> 0, todo |-> {p \in Programs : air.pat[p] # NoPid}]
  /\ seen' = [seen EXCEPT !.pat = air.pat]
  /\ UNCHANGED <<airVars, filterVars, appVars, hooks, list, prog, stored, named, ca_list, pat>>

\* DumpPAT: a program that is known stays as it is, on the PID it had.
PatKnown ==
  /\ ts.pc = "pat"
  /\ \E p \in ts.todo \cap Listed : ts' = Rest(p)
  /\ UNCHANGED <<airVars, filterVars, appVars, hooks, list, prog, seen, stored,
                 named, ca_list, pat>>

PatList ==
  /\ ts.pc = "pat"
  /\ \E p \in ts.todo \ Listed :
       /\ list' = Append(list, p)
       /\ prog' = [prog EXCEPT ![p].pid = seen.pat[p]]
       /\ ts' = [Rest(p) EXCEPT !.pc = "adopt", !.p = p]
  /\ UNCHANGED <<airVars, filterVars, appVars, hooks, seen, stored, named, ca_list, pat>>

PatAdopt ==
  /\ ts.pc = "adopt"
  /\ IF ts.p \in selected
     THEN Unblock(prog[ts.p].pid) /\ pat' = [pat EXCEPT !.gen = @ \cup {ts.p}]
     ELSE UNCHANGED <<filterVars, pat>>
  /\ hooks' = [hooks EXCEPT !.pmt[prog[ts.p].pid] = {ts.p}]
  /\ ts' = [ts EXCEPT !.pc = "pat"]
  /\ UNCHANGED <<airVars, appVars, list, prog, seen, stored, named, ca_list>>

TableEnds ==
  /\ ts.pc \in {"pat", "pmt", "cat"} /\ ts.todo = {}
  /\ ts' = Idle
  /\ UNCHANGED <<airVars, filterVars, appVars, hooks, list, prog, seen, stored,
                 named, ca_list, pat>>

Streams(pmt) == [k : {"es"}, pid : pmt.es] \cup [k : {"ca"}, pid : pmt.ca]

\* A new PMT of the program whose hook is on the PID.
PmtPacket ==
  /\ ts.pc = "idle"
  /\ \E pid \in PmtPids \cap filter : \E p \in hooks.pmt[pid] :
       /\ air.pat[p] = pid /\ air.pmt[p] # prog[p].seen
       /\ ts' = [pc |-> "pmt", p |-> p, todo |-> Streams(air.pmt[p])]
       /\ prog' = [prog EXCEPT ![p].seen = air.pmt[p]]
  /\ UNCHANGED <<airVars, filterVars, appVars, hooks, list, seen, stored, named, ca_list, pat>>

\* DumpPMT: the elementary streams, then the CA descriptors; what is known is
\* skipped.
NextStream(s) == s \in ts.todo /\ (s.k = "ca" => \A r \in ts.todo : r.k = "ca")

PmtKnown ==
  /\ ts.pc = "pmt"
  /\ \E s \in prog[ts.p].streams : NextStream(s) /\ ts' = Rest(s)
  /\ UNCHANGED <<airVars, filterVars, appVars, hooks, list, prog, seen, stored,
                 named, ca_list, pat>>

\* Mutant: the PID of every stream is unblocked.
PmtStreamAll ==
  /\ ts.pc = "pmt"
  /\ \E s \in ts.todo \ prog[ts.p].streams :
       /\ NextStream(s) /\ ts' = Rest(s)
       /\ prog' = [prog EXCEPT ![ts.p].streams = @ \cup {s}]
       /\ Unblock(s.pid)
  /\ UNCHANGED <<airVars, appVars, hooks, list, seen, stored, named, ca_list, pat>>

PmtStream ==
  /\ ts.pc = "pmt"
  /\ \E s \in ts.todo \ prog[ts.p].streams :
       /\ NextStream(s) /\ ts' = Rest(s)
       /\ prog' = [prog EXCEPT ![ts.p].streams = @ \cup {s}]
       /\ IF ts.p \in selected THEN Unblock(s.pid) ELSE UNCHANGED filterVars
  /\ UNCHANGED <<airVars, appVars, hooks, list, seen, stored, named, ca_list, pat>>

\* A new CAT.
CatPacket ==
  /\ ts.pc = "idle" /\ hooks.cat /\ CatPid \in filter /\ air.cat # seen.cat
  /\ ts' = [pc |-> "cat", p |-> 0, todo |-> air.cat]
  /\ seen' = [seen EXCEPT !.cat = air.cat]
  /\ UNCHANGED <<airVars, filterVars, appVars, hooks, list, prog, stored, named, ca_list, pat>>

\* DumpCAT: a CA descriptor that is known is skipped.
CatKnown ==
  /\ ts.pc = "cat"
  /\ \E pid \in ts.todo \cap ca_list : ts' = Rest(pid)
  /\ UNCHANGED <<airVars, filterVars, appVars, hooks, list, prog, seen, stored,
                 named, ca_list, pat>>

CatStream ==
  /\ ts.pc = "cat"
  /\ \E pid \in ts.todo \ ca_list :
       /\ ts' = Rest(pid)
       /\ ca_list' = ca_list \cup {pid}
       /\ IF selected # {} THEN Unblock(pid) ELSE UNCHANGED filterVars
  /\ UNCHANGED <<airVars, appVars, hooks, list, prog, seen, stored, named, pat>>

\* DumpSDT: dropped when its version is stored, or when it is only the next one.
Dropped(sdt) == stored.ver = sdt.ver \/ stored.cn > sdt.cn

SdtPacket ==
  /\ ts.pc = "idle" /\ hooks.sdt /\ SdtPid \in filter /\ air.sdt # seen.sdt
  /\ seen' = [seen EXCEPT !.sdt = air.sdt]
  /\ IF Dropped(air.sdt) THEN UNCHANGED <<stored, named, ca_list>>
     ELSE /\ stored' = air.sdt
          /\ named' = named \cup (Listed \cap air.sdt.services)
  /\ UNCHANGED <<airVars, filterVars, appVars, ts, hooks, list, prog, ca_list, pat>>

TsStep ==
  PatPacket \/ PatKnown \/ PatList \/ PatAdopt \/ TableEnds \/ PmtPacket
  \/ PmtKnown \/ PmtStream \/ CatPacket \/ CatKnown \/ CatStream \/ SdtPacket

-----------------------------------------------------------------------------
\* The broadcaster changes a table.
Broadcast ==
  /\ changes < MaxChanges
  /\ changes' = changes + 1
  /\ \/ \E t \in Pats : air' = [air EXCEPT !.pat = t]
     \/ \E p \in Programs, t \in Pmts : air' = [air EXCEPT !.pmt[p] = t]
     \/ \E t \in Cats : air' = [air EXCEPT !.cat = t]
     \/ \E cn \in {0, 1}, names \in Services :
          air' = [air EXCEPT !.sdt = [ver |-> changes + 1, cn |-> cn, services |-> names]]
  /\ UNCHANGED <<filterVars, appVars, ts, hooks, list, prog, seen, stored, named, ca_list, pat>>

Next == AppStep \/ TsStep \/ Broadcast
Spec == Init /\ [][Next]_vars

-----------------------------------------------------------------------------
(* Safety *)

\* Programs whose PMT PID is passed on to the filter, the PAT and the hooks.
Adopted == Listed \ (IF ts.pc = "adopt" THEN {ts.p} ELSE {})
PidsOf(p) == {prog[p].pid} \cup {s.pid : s \in prog[p].streams}

\* What has to pass: everything when nothing is selected, else the service PIDs,
\* of the selected programs the PMT and every stream that is known, and the PIDs
\* of the CAT (joker_ts_filter.c:69-72, u_drv_data.c:391-393).
Needed ==
  IF selected = {} THEN AllPids
  ELSE ServicePids \cup ca_list \cup UNION {PidsOf(p) : p \in Adopted \cap selected}

\* After start_ts the filter passes exactly what has to pass, but for the PIDs
\* whose own command failed (or comes after one that failed in
\* ts_filter_only_service_pids): the callers ignore a failure, and it reaches no
\* other PID.
FilterMatches ==
  app.pc \notin {"start", "service"} => filter \ spoilt = Needed \ spoilt

\* The generated PAT lists selected programs only, and every one that get_programs
\* found ready, unless it gave up ("All PAT/PMT parse done", joker_ts.c:1191).
PatComplete ==
  /\ pat.pkt \subseteq selected
  /\ app.pc = "done" /\ ~app.late => app.walked \cap selected \subseteq pat.pkt

\* Every program get_programs has looked at is named by the SDT that is stored
\* ("parse SDT only after PAT and PMT !", joker_ts.c:1193): it is not looked at
\* again.
Named ==
  app.pc = "done" => app.walked \cap stored.services \subseteq named
=============================================================================
