------------------------- MODULE JobLifecycleProofs -------------------------
(***************************************************************************)
(* Proof that the abstract job life cycle is safe, for every set of unit   *)
(* handles: one unit per job, scripts only on its address, the record      *)
(* released only once no unit is live.  JLInv adds what makes these        *)
(* inductive: the record only names a started unit, it holds that unit's  *)
(* own address while scripts run, and a released job never goes back to   *)
(* prepare, where units are started.                                       *)
(***************************************************************************)
EXTENDS JobLifecycle, TLAPS

UnitState == {"NONE", "LIVE", "STOPPED"}

RecordType ==
    [kind : {"absent", "corrupt", "data"},
     data : [arn : Arns \cup {NoArn}, ip : Arns \cup {NoIp}]]

JLTypeOK ==
    /\ units \in [Arns -> UnitState]
    /\ record \in RecordType
    /\ phase \in {"prepare", "scripts", "cleanup", "done"}
    /\ released \in BOOLEAN
    /\ connected \subseteq Arns

JLInv ==
    /\ JLTypeOK
    /\ JobSafety
    /\ record.kind = "data" => record.data.arn \in Arns /\ Started(record.data.arn)
    /\ phase = "scripts" => record.kind = "data" /\ record.data.ip = record.data.arn
    /\ released => phase \in {"cleanup", "done"}

LEMMA InitJLInv == JLInit => JLInv
<1> SUFFICES ASSUME JLInit PROVE JLInv
  OBVIOUS
<1>1. JLTypeOK
  BY DEF JLInit, JLTypeOK, RecordType, UnitState
<1>2. \A t \in Arns : ~Started(t)
  BY DEF JLInit, Started
<1>3. QED
  BY <1>1, <1>2 DEF JLInit, JLInv, JobSafety, OneUnitPerJob, ScriptsOnJobUnit,
                    ReleasedAfterUnitsStop

LEMMA NextJLInv == JLInv /\ [JLNext]_jlVars => JLInv'
<1> SUFFICES ASSUME JLInv, [JLNext]_jlVars PROVE JLInv'
  OBVIOUS
<1> USE DEF JLInv, JLTypeOK, RecordType, UnitState, JobSafety, OneUnitPerJob,
            ScriptsOnJobUnit, ReleasedAfterUnitsStop, Started, Rec
<1>1. CASE StartUnit
  BY <1>1 DEF StartUnit
<1>2. CASE UnitStops
  BY <1>2 DEF UnitStops
<1>3. CASE SaveHandle
  BY <1>3 DEF SaveHandle
<1>4. CASE LoseRecord
  BY <1>4 DEF LoseRecord
<1>5. CASE PrepareSucceeds
  BY <1>5 DEF PrepareSucceeds
<1>6. CASE PrepareFails
  BY <1>6 DEF PrepareFails
<1>7. CASE RunScript
  BY <1>7 DEF RunScript
<1>8. CASE EndScripts
  BY <1>8 DEF EndScripts
<1>9. CASE DeleteRecord
  BY <1>9 DEF DeleteRecord
<1>10. CASE EndJob
  BY <1>10 DEF EndJob
<1>11. CASE UNCHANGED jlVars
  BY <1>11 DEF jlVars
<1>12. QED
  BY <1>1, <1>2, <1>3, <1>4, <1>5, <1>6, <1>7, <1>8, <1>9, <1>10, <1>11
  DEF JLNext

\* The job life cycle is safe: one unit per job, scripts only on that
\* unit's address, and no live unit once the record is released.
THEOREM JobLifecycleSafe == JLSpec => []JobSafety
<1>1. JLInv => JobSafety
  BY DEF JLInv
<1>2. QED
  BY <1>1, InitJLInv, NextJLInv, PTL DEF JLSpec

=============================================================================
