------------------------- MODULE SshExecutorProofs -------------------------
(***************************************************************************)
(* Proofs about one Execute call of the SSH executor: the connection and  *)
(* its session are released on every path, Execute reports the script's  *)
(* outcome, and a running command is interrupted before its session is    *)
(* closed.  None of these is inductive as stated; ExecInv records where   *)
(* Execute can be with which resources and which errors.                  *)
(***************************************************************************)
EXTENDS SshExecutor, TLAPS

\* the steps before the session exists, and those before the select ended
Connecting == {"parseKey", "dial", "handshake"}

Selecting == {"newSession", "spawn", "select", "waiting", "received",
              "cancelled"}

\* the connection is open only while the executor's client holds it; it is
\* not opened before the handshake, and the session only after it
ResourcesInv ==
    /\ conn = "open" =>
          clientSet /\ pc \in Selecting \cup {"closeSession", "disconnect"}
    /\ pc \in Connecting => conn = "none" /\ ~clientSet
    /\ pc \in Connecting \cup {"newSession"} => session = "none"
    /\ session = "open" => pc \in (Selecting \ {"newSession"}) \cup {"closeSession"}

\* the errors Execute merges, as far as it has come
OutcomeInv ==
    /\ pc # "done" => err = "none"
    /\ pc \in Connecting \cup Selecting => scriptErr = "none" /\ branch = "none"
    /\ pc = "received" => worker = "sent"
    /\ pc = "closeSession" => branch # "none"
    /\ branch = "finished" =>
          worker = "sent" /\ scriptErr = IF runErr THEN "exec" ELSE "none"
    /\ branch = "cancelled" =>
          \/ scriptErr = "none" /\ sigint
          \/ scriptErr = "signal"
    /\ branch = "none" /\ pc = "disconnect" => scriptErr = "session"
    /\ branch = "none" /\ pc = "done" =>
          \/ scriptErr = "none" /\ err \in {"invalidKey", "connect"}
          \/ scriptErr = "session" /\ err = "session"
    /\ branch # "none" /\ pc = "done" =>
          err = IF scriptErr = "none" /\ discErr THEN "disconnect" ELSE scriptErr

ExecInv == TypeOK /\ ResourcesInv /\ OutcomeInv

-----------------------------------------------------------------------------

LEMMA InitExecInv == Init => ExecInv
BY DEF Init, ExecInv, TypeOK, Steps, Errors, ResourcesInv, OutcomeInv,
       Connecting, Selecting

LEMMA NextExecInv == ExecInv /\ [Next]_vars => ExecInv'
<1> SUFFICES ASSUME ExecInv, [Next]_vars PROVE ExecInv'
  OBVIOUS
<1> USE DEF ExecInv, TypeOK, Steps, Errors, ResourcesInv, OutcomeInv,
            Connecting, Selecting
<1>1. CASE ParsePrivateKey
  BY <1>1 DEF ParsePrivateKey
<1>2. CASE Dial
  BY <1>2 DEF Dial
<1>3. CASE HandshakeAnswered
  BY <1>3 DEF HandshakeAnswered
<1>4. CASE NewSession
  BY <1>4 DEF NewSession
<1>5. CASE Spawn
  BY <1>5 DEF Spawn
<1>6. CASE EnterSelect
  BY <1>6 DEF EnterSelect
<1>7. CASE ReceiveResult
  BY <1>7 DEF ReceiveResult
<1>8. CASE SignalInterrupt
  <2>1. CASE sigint' = TRUE /\ UNCHANGED scriptErr
    BY <1>8, <2>1 DEF SignalInterrupt
  <2>2. CASE scriptErr' = "signal" /\ UNCHANGED sigint
    BY <1>8, <2>2 DEF SignalInterrupt
  <2>3. QED
    BY <1>8, <2>1, <2>2 DEF SignalInterrupt
<1>9. CASE CloseSession
  BY <1>9 DEF CloseSession
<1>10. CASE Disconnect
  <2>1. CASE clientSet
    <3>1. CASE discErr'
      BY <1>10, <2>1, <3>1 DEF Disconnect, CloseClient
    <3>2. CASE ~discErr'
      BY <1>10, <2>1, <3>2 DEF Disconnect, CloseClient
    <3>3. QED
      BY <3>1, <3>2
  <2>2. CASE ~clientSet
    BY <1>10, <2>2 DEF Disconnect, CloseClient
  <2>3. QED
    BY <2>1, <2>2
<1>11. CASE RemoteReturns
  <2>1. runErr' \in BOOLEAN /\ worker = "running" /\ branch # "finished"
    BY <1>11 DEF RemoteReturns
  <2>2. CASE pc = "waiting" /\ worker' = "sent" /\ pc' = "received"
    BY <1>11, <2>1, <2>2 DEF RemoteReturns
  <2>3. CASE pc # "waiting" /\ worker' = "sending" /\ UNCHANGED pc
    BY <1>11, <2>1, <2>3 DEF RemoteReturns
  <2>4. QED
    BY <1>11, <2>2, <2>3 DEF RemoteReturns
<1>12. CASE ContextCancelled
  BY <1>12 DEF ContextCancelled
<1>13. CASE UNCHANGED vars
  BY <1>13 DEF vars
<1>14. QED
  BY <1>1, <1>2, <1>3, <1>4, <1>5, <1>6, <1>7, <1>8, <1>9, <1>10, <1>11,
     <1>12, <1>13 DEF Next, ExecuteStep

LEMMA SpecExecInv == Spec => []ExecInv
BY InitExecInv, NextExecInv, PTL DEF Spec

-----------------------------------------------------------------------------

\* Execute's deferred disconnect and executeScript's deferred Close leave
\* no session or connection open when Execute returns, on any path.
THEOREM ReleasedOnEveryPathHolds == Spec => []ReleasedOnEveryPath
<1>1. ExecInv => ReleasedOnEveryPath
  BY DEF ExecInv, ResourcesInv, ReleasedOnEveryPath, Connecting, Selecting
<1>2. QED
  BY <1>1, SpecExecInv, PTL

\* Execute returns nil only for a script that exited 0 or was interrupted
\* with SIGINT, and the disconnect's error never replaces the script's.
THEOREM ReportsOutcome == Spec => []ReportsScriptOutcome
<1>1. ExecInv => ReportsScriptOutcome
  BY DEF ExecInv, TypeOK, Errors, OutcomeInv, ReportsScriptOutcome
<1>2. QED
  BY <1>1, SpecExecInv, PTL

\* executeScript's deferred Close never tears down the session of a running
\* command before the cancel case sent it SIGINT (or failed to).
THEOREM InterruptPrecedesClose == Spec => InterruptBeforeClose
<1>1. ExecInv /\ [Next]_vars =>
        [ (worker = "running" /\ session = "open" /\ session' = "closed")
            => (sigint \/ scriptErr = "signal") ]_vars
  <2> SUFFICES ASSUME ExecInv, [Next]_vars,
                      worker = "running", session = "open",
                      session' = "closed"
               PROVE  sigint \/ scriptErr = "signal"
    BY DEF vars
  <2>1. CloseSession
    BY DEF Next, ExecuteStep, ParsePrivateKey, Dial, HandshakeAnswered,
           NewSession, Spawn, EnterSelect, ReceiveResult, SignalInterrupt,
           Disconnect, CloseClient, RemoteReturns, ContextCancelled, vars
  <2>2. branch = "cancelled"
    BY <2>1 DEF CloseSession, ExecInv, OutcomeInv, TypeOK
  <2>3. QED
    BY <2>2 DEF ExecInv, OutcomeInv
<1>2. QED
  BY <1>1, SpecExecInv, PTL DEF Spec, InterruptBeforeClose


=============================================================================
