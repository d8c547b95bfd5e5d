---------------------------- MODULE JobLifecycle ----------------------------
(***************************************************************************)
(* What the driver promises about one job, without its processes: the     *)
(* life cycle of the job's compute unit and of its task record (spec.md,  *)
(* sections 3 and 4).  A unit is started in prepare, at most one per job;  *)
(* the record names only that unit, gets its address only over its handle, *)
(* and is complete when prepare succeeds; scripts connect only to the      *)
(* recorded address; the record is deleted only when no unit of the job   *)
(* is live any more.  Units may stop at any time (ECS, or the driver).     *)
(***************************************************************************)
EXTENDS Naturals

CONSTANTS
    Arns,     \* the handles of the units the orchestrator may start
    NoArn,    \* the empty handle
    NoIp      \* the empty address

VARIABLES
    units,      \* the life of every unit: "NONE", "LIVE", "STOPPED"
    record,     \* the task record: absent, unreadable, or a handle and address
    phase,      \* the stage of the job: "prepare", "scripts", "cleanup", "done"
    released,   \* the record was deleted after the job's units stopped
    connected   \* the addresses scripts were run on

jlVars == << units, record, phase, released, connected >>

Rec(t, ip) == [kind |-> "data", data |-> [arn |-> t, ip |-> ip]]

Started(t) == units[t] # "NONE"

JLInit ==
    /\ units = [t \in Arns |-> "NONE"]
    /\ record = [kind |-> "absent", data |-> [arn |-> NoArn, ip |-> NoIp]]
    /\ phase = "prepare"
    /\ released = FALSE
    /\ connected = {}

\* prepare starts the job's unit; no unit was started before
StartUnit ==
    /\ phase = "prepare"
    /\ \A t \in Arns : ~Started(t)
    /\ \E t \in Arns : units' = [units EXCEPT ![t] = "LIVE"]
    /\ UNCHANGED << record, phase, released, connected >>

\* a live unit stops: ECS stops it, or the driver does
UnitStops ==
    /\ \E t \in Arns :
         /\ units[t] = "LIVE"
         /\ units' = [units EXCEPT ![t] = "STOPPED"]
    /\ UNCHANGED << record, phase, released, connected >>

\* prepare records the handle of the started unit, address unknown
SaveHandle ==
    /\ phase = "prepare"
    /\ \E t \in Arns : Started(t) /\ record' = Rec(t, NoIp)
    /\ UNCHANGED << units, phase, released, connected >>

\* a write of prepare fails after truncating the record
LoseRecord ==
    /\ phase = "prepare"
    /\ record' = [kind |-> "corrupt", data |-> [arn |-> NoArn, ip |-> NoIp]]
    /\ UNCHANGED << units, phase, released, connected >>

\* prepare succeeds by writing the address over the unit's handle record
PrepareSucceeds ==
    /\ phase = "prepare"
    /\ \E t \in Arns :
         /\ Started(t)
         /\ record = Rec(t, NoIp)
         /\ record' = Rec(t, t)
    /\ phase' = "scripts"
    /\ UNCHANGED << units, released, connected >>

\* prepare fails (or is killed), stopping at most one live unit on its way
PrepareFails ==
    /\ phase = "prepare"
    /\ phase' = "cleanup"
    /\ \/ UNCHANGED units
       \/ \E t \in Arns :
            /\ units[t] = "LIVE"
            /\ units' = [units EXCEPT ![t] = "STOPPED"]
    /\ UNCHANGED << record, released, connected >>

\* a script runs on the address the record holds
RunScript ==
    /\ phase = "scripts"
    /\ record.kind = "data"
    /\ connected' = connected \cup {record.data.ip}
    /\ UNCHANGED << units, record, phase, released >>

EndScripts ==
    /\ phase = "scripts"
    /\ phase' = "cleanup"
    /\ UNCHANGED << units, record, released, connected >>

\* cleanup deletes the record once no unit of the job is live
DeleteRecord ==
    /\ phase = "cleanup"
    /\ record.kind = "data"
    /\ \A t \in Arns : units[t] # "LIVE"
    /\ record' = [kind |-> "absent", data |-> [arn |-> NoArn, ip |-> NoIp]]
    /\ released' = TRUE
    /\ UNCHANGED << units, phase, connected >>

EndJob ==
    /\ phase = "cleanup"
    /\ phase' = "done"
    /\ UNCHANGED << units, record, released, connected >>

JLNext ==
    \/ StartUnit \/ UnitStops \/ SaveHandle \/ LoseRecord \/ PrepareSucceeds
    \/ PrepareFails \/ RunScript \/ EndScripts \/ DeleteRecord \/ EndJob

JLSpec == JLInit /\ [][JLNext]_jlVars

-----------------------------------------------------------------------------
(* What the life cycle guarantees                                          *)

\* A job starts at most one unit.
OneUnitPerJob ==
    \A t, u \in Arns : Started(t) /\ Started(u) => t = u

\* Scripts run only on the address of the job's own unit.
ScriptsOnJobUnit ==
    \A ip \in connected : ip \in Arns /\ Started(ip)

\* Once the record is released no unit of the job is live, and none is
\* started again.
ReleasedAfterUnitsStop ==
    released => \A t \in Arns : units[t] # "LIVE"

JobSafety == OneUnitPerJob /\ ScriptsOnJobUnit /\ ReleasedAfterUnitsStop

=============================================================================
