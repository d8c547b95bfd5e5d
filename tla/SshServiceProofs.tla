-------------------------- MODULE SshServiceProofs --------------------------
(***************************************************************************)
(* Proof that the SSH service of the task image stops only on a signal or *)
(* a real failure.  The property is not inductive: an exit comes from a    *)
(* value sent on a server's channel, or from the context's end, and        *)
(* ServiceInv records why each of those can only follow a signal or a     *)
(* failure.                                                                *)
(***************************************************************************)
EXTENDS SshService, TLAPS

\* a goroutine of a server holds an error for run's select
ErrorPending == "sending" \in {sshd, closer, listener}

\* the context is cancelled only by the signal goroutine after SIGTERM, the
\* HTTP server is closed only after the context ended, and an error is
\* pending only after a signal or a failure
ServiceInv ==
    /\ TypeOK
    /\ StopsOnlyWhenAsked
    /\ sigPending => signalled
    /\ ctxDone => signalled
    /\ server = "closed" => ctxDone
    /\ ErrorPending => signalled \/ failed

LEMMA InitServiceInv == Init => ServiceInv
BY DEF Init, ServiceInv, TypeOK, MainSteps, StopsOnlyWhenAsked, ErrorPending

LEMMA NextServiceInv == ServiceInv /\ [Next]_vars => ServiceInv'
<1> SUFFICES ASSUME ServiceInv, [Next]_vars PROVE ServiceInv'
  OBVIOUS
<1> USE DEF ServiceInv, TypeOK, MainSteps, StopsOnlyWhenAsked, ErrorPending,
            Running
<1>1. CASE GenerateHostKey \/ GenerateUserKey \/ CreateConfigFile
           \/ WriteAuthorizedKeys
  <2>1. ASSUME NEW from \in MainSteps, NEW to \in MainSteps, Setup(from, to)
        PROVE  ServiceInv'
    <3>1. CASE main' = to /\ UNCHANGED << failed, exit >>
      BY <2>1, <3>1 DEF Setup
    <3>2. CASE exit' = "panic" /\ failed' = TRUE /\ UNCHANGED main
      BY <2>1, <3>2 DEF Setup
    <3>3. QED
      BY <2>1, <3>1, <3>2 DEF Setup
  <2>2. QED
    BY <1>1, <2>1 DEF GenerateHostKey, GenerateUserKey, CreateConfigFile,
                      WriteAuthorizedKeys
<1>2. CASE StartServers
  BY <1>2 DEF StartServers
<1>3. CASE EnterSelect
  BY <1>3 DEF EnterSelect, Ready
<1>4. CASE Notify
  BY <1>4 DEF Notify
<1>5. CASE NotifierCancels
  BY <1>5 DEF NotifierCancels
<1>6. CASE SshdStart
  BY <1>6 DEF SshdStart, Send
<1>7. CASE SshdKilled
  BY <1>7 DEF SshdKilled, Send
<1>8. CASE CloserCloses
  BY <1>8 DEF CloserCloses, Send
<1>9. CASE ListenerStart
  <2>1. CASE main = "waiting"
    <3>1. CASE server = "closed" /\ Send(listener) /\ UNCHANGED failed
      BY <1>9, <2>1, <3>1 DEF ListenerStart, Send
    <3>2. CASE server = "open" /\ listener' = "serving"
               /\ UNCHANGED << exit, failed >>
      BY <1>9, <2>1, <3>2 DEF ListenerStart
    <3>3. CASE server = "open" /\ Send(listener) /\ failed' = TRUE
      BY <1>9, <2>1, <3>3 DEF ListenerStart, Send
    <3>4. QED
      BY <1>9, <3>1, <3>2, <3>3 DEF ListenerStart
  <2>2. CASE main # "waiting"
    <3>1. CASE server = "closed" /\ Send(listener) /\ UNCHANGED failed
      BY <1>9, <2>2, <3>1 DEF ListenerStart, Send
    <3>2. CASE server = "open" /\ listener' = "serving"
               /\ UNCHANGED << exit, failed >>
      BY <1>9, <2>2, <3>2 DEF ListenerStart
    <3>3. CASE server = "open" /\ Send(listener) /\ failed' = TRUE
      BY <1>9, <2>2, <3>3 DEF ListenerStart, Send
    <3>4. QED
      BY <1>9, <3>1, <3>2, <3>3 DEF ListenerStart
  <2>3. QED
    BY <2>1, <2>2
<1>10. CASE ListenerStops
  BY <1>10 DEF ListenerStops, Send
<1>11. CASE StopSignal
  <2>1. CASE notifier = "start"
    BY <1>11, <2>1 DEF StopSignal
  <2>2. CASE notifier # "start"
    BY <1>11, <2>2 DEF StopSignal
  <2>3. QED
    BY <2>1, <2>2
<1>12. CASE StopTimeoutKill
  BY <1>12 DEF StopTimeoutKill
<1>13. CASE SshdDies
  BY <1>13 DEF SshdDies, Send
<1>14. CASE UNCHANGED vars
  BY <1>14 DEF vars
<1>15. QED
  BY <1>1, <1>2, <1>3, <1>4, <1>5, <1>6, <1>7, <1>8, <1>9, <1>10, <1>11,
     <1>12, <1>13, <1>14 DEF Next, ServiceStep

\* The service exits only after ECS's SIGTERM or a real failure: the HTTP
\* server's closing goroutine waits for the context, and sshd's and the
\* listener's errors after a cancelled context follow the signal.
THEOREM StopsOnlyOnRequest == Spec => []StopsOnlyWhenAsked
<1>1. ServiceInv => StopsOnlyWhenAsked
  BY DEF ServiceInv
<1>2. QED
  BY <1>1, InitServiceInv, NextServiceInv, PTL DEF Spec

=============================================================================
