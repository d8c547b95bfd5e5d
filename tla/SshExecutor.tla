---------------------------- MODULE SshExecutor ----------------------------
(***************************************************************************)
(* One call of the SSH executor's Execute (executors/ssh), as the run      *)
(* stage makes it: connect (parse the key, dial), register the deferred    *)
(* disconnect, open a session and run the script in it, then close the    *)
(* session and disconnect.  Running the script is session.ExecuteScript:   *)
(* a goroutine runs the remote command and sends its result on an         *)
(* unbuffered channel, while Execute's goroutine selects on that channel  *)
(* and on the context's Done channel.  The caller's context may be        *)
(* cancelled at any time (SIGTERM to the run stage), and the remote        *)
(* command may finish at any time, or never.                               *)
(*                                                                         *)
(* The unbuffered channel is a rendezvous: a select already blocked on it  *)
(* takes the first of the two events; a select entered when both are      *)
(* ready picks one of them at random (the Go specification).              *)
(***************************************************************************)

VARIABLES
    pc,             \* Execute's next step
    ctxDone,        \* the caller's context has ended
    clientSet,      \* executor.client != nil
    conn,           \* the SSH connection: "none", "open", "closed"
    session,        \* the SSH session: "none", "open", "closed"
    worker,         \* the goroutine of ExecuteScript: "none", "running"
                    \* (in session.Run), "sending" (blocked on the send),
                    \* "sent"
    runErr,         \* session.Run returned an error
    finishedFirst,  \* the remote command returned before the context ended
    branch,         \* the case the select took: "none", "finished", "cancelled"
    sigint,         \* Signal(SIGINT) was sent to the remote command
    scriptErr,      \* the error executeScript returned
    discErr,        \* the deferred disconnect failed
    err             \* Execute's named result err

vars == << pc, ctxDone, clientSet, conn, session, worker, runErr,
           finishedFirst, branch, sigint, scriptErr, discErr, err >>

Steps == {"parseKey", "dial", "handshake", "newSession", "spawn", "select",
          "waiting", "received", "cancelled", "closeSession", "disconnect", "done"}

Errors == {"none", "invalidKey", "connect", "session", "exec", "signal",
           "disconnect"}

Init ==
    /\ pc = "parseKey"
    /\ ctxDone = FALSE
    /\ clientSet = FALSE
    /\ conn = "none"
    /\ session = "none"
    /\ worker = "none"
    /\ runErr = FALSE
    /\ finishedFirst = FALSE
    /\ branch = "none"
    /\ sigint = FALSE
    /\ scriptErr = "none"
    /\ discErr = FALSE
    /\ err = "none"

-----------------------------------------------------------------------------
(* Execute's goroutine                                                      *)

\* connect: ssh.ParsePrivateKey; a malformed key is errInvalidPrivateKey,
\* returned before the deferred disconnect is registered
ParsePrivateKey ==
    /\ pc = "parseKey"
    /\ \/ pc' = "dial" /\ UNCHANGED err
       \/ pc' = "done" /\ err' = "invalidKey"
    /\ UNCHANGED << ctxDone, clientSet, conn, session, worker, runErr,
                    finishedFirst, branch, sigint, scriptErr, discErr >>

\* connect: client.NewConnectClient, i.e. ssh.Dial with no timeout and no
\* context: the TCP connect succeeds or fails (the OS times it out), then
\* the SSH handshake waits for the server's answer
Dial ==
    /\ pc = "dial"
    /\ \/ pc' = "handshake" /\ UNCHANGED err
       \/ pc' = "done" /\ err' = "connect"
    /\ UNCHANGED << ctxDone, clientSet, conn, session, worker, runErr,
                    finishedFirst, branch, sigint, scriptErr, discErr >>

\* (mutant) the deferred disconnect registered after executeScript: an
\* error of executeScript returns without disconnecting
NewSessionBeforeDefer ==
    /\ pc = "newSession"
    /\ \/ /\ ~clientSet
          /\ scriptErr' = "session" /\ err' = "session" /\ pc' = "done"
          /\ UNCHANGED session
       \/ /\ clientSet
          /\ \/ /\ session' = "open" /\ pc' = "spawn"
                /\ UNCHANGED << scriptErr, err >>
             \/ /\ scriptErr' = "session" /\ err' = "session" /\ pc' = "done"
                /\ UNCHANGED session
    /\ UNCHANGED << ctxDone, clientSet, conn, worker, runErr, finishedFirst,
                    branch, sigint, discErr >>

\* executeScript: ErrNotConnected when s.client is nil, then
\* client.NewSession; on error executeScript returns it and the deferred
\* disconnect runs
NewSession ==
    /\ pc = "newSession"
    /\ \/ /\ ~clientSet
          /\ scriptErr' = "session" /\ pc' = "disconnect"
          /\ UNCHANGED session
       \/ /\ clientSet
          /\ \/ session' = "open" /\ pc' = "spawn" /\ UNCHANGED scriptErr
             \/ scriptErr' = "session" /\ pc' = "disconnect" /\ UNCHANGED session
    /\ UNCHANGED << ctxDone, clientSet, conn, worker, runErr, finishedFirst,
                    branch, sigint, discErr, err >>

\* session.ExecuteScript: go func() { waitErr <- s.internal.Run(script) }()
Spawn ==
    /\ pc = "spawn"
    /\ worker' = "running"
    /\ pc' = "select"
    /\ UNCHANGED << ctxDone, clientSet, conn, session, runErr, finishedFirst,
                    branch, sigint, scriptErr, discErr, err >>

\* (mutant) a select that only waits for the remote command
EnterSelectIgnoringContext ==
    /\ pc = "select"
    /\ \/ worker = "sending" /\ worker' = "sent" /\ pc' = "received"
       \/ worker # "sending" /\ pc' = "waiting" /\ UNCHANGED worker
    /\ UNCHANGED << ctxDone, clientSet, conn, session, runErr, finishedFirst,
                    branch, sigint, scriptErr, discErr, err >>

\* select on waitErr and ctx.Done(): a ready case is taken (one of the two
\* at random when both are ready); with none ready the goroutine blocks
EnterSelect ==
    /\ pc = "select"
    /\ \/ worker = "sending" /\ worker' = "sent" /\ pc' = "received"
       \/ ctxDone /\ pc' = "cancelled" /\ UNCHANGED worker
       \/ worker # "sending" /\ ~ctxDone /\ pc' = "waiting" /\ UNCHANGED worker
    /\ UNCHANGED << ctxDone, clientSet, conn, session, runErr, finishedFirst,
                    branch, sigint, scriptErr, discErr, err >>

\* case err := <-waitErr: the command's error, wrapped, or nil
ReceiveResult ==
    /\ pc = "received"
    /\ branch' = "finished"
    /\ scriptErr' = IF runErr THEN "exec" ELSE "none"
    /\ pc' = "closeSession"
    /\ UNCHANGED << ctxDone, clientSet, conn, session, worker, runErr,
                    finishedFirst, sigint, discErr, err >>

\* (mutant) the transport is closed without interrupting the command first
SignalInterruptSkipped ==
    /\ pc = "cancelled"
    /\ branch' = "cancelled"
    /\ pc' = "closeSession"
    /\ UNCHANGED << ctxDone, clientSet, conn, session, worker, runErr,
                    finishedFirst, sigint, scriptErr, discErr, err >>

\* case <-ctx.Done(): s.internal.Signal(ssh.SIGINT); its error is
\* returned, otherwise nil (no wait for the command to exit)
SignalInterrupt ==
    /\ pc = "cancelled"
    /\ branch' = "cancelled"
    /\ \/ sigint' = TRUE /\ UNCHANGED scriptErr
       \/ scriptErr' = "signal" /\ UNCHANGED sigint
    /\ pc' = "closeSession"
    /\ UNCHANGED << ctxDone, clientSet, conn, session, worker, runErr,
                    finishedFirst, discErr, err >>

\* executeScript's defer session.Close()
CloseSession ==
    /\ pc = "closeSession"
    /\ session' = "closed"
    /\ pc' = "disconnect"
    /\ UNCHANGED << ctxDone, clientSet, conn, worker, runErr, finishedFirst,
                    branch, sigint, scriptErr, discErr, err >>

\* executor.disconnect: a no-op when s.client is nil; otherwise
\* client.Close(), and s.client = nil only when that succeeds
CloseClient ==
    /\ conn' = IF clientSet THEN "closed" ELSE conn
    /\ discErr' \in IF clientSet THEN BOOLEAN ELSE {FALSE}
    /\ clientSet' = (clientSet /\ discErr')

\* (mutant) the disconnect error replaces whatever err holds
DisconnectOverridesError ==
    /\ pc = "disconnect"
    /\ CloseClient
    /\ err' = IF discErr' THEN "disconnect" ELSE scriptErr
    /\ pc' = "done"
    /\ UNCHANGED << ctxDone, session, worker, runErr, finishedFirst, branch,
                    sigint, scriptErr >>

\* Execute's deferred func: disconnect, whose error becomes err only when
\* err is nil
Disconnect ==
    /\ pc = "disconnect"
    /\ CloseClient
    /\ err' = IF scriptErr = "none" /\ discErr' THEN "disconnect" ELSE scriptErr
    /\ pc' = "done"
    /\ UNCHANGED << ctxDone, session, worker, runErr, finishedFirst, branch,
                    sigint, scriptErr >>

-----------------------------------------------------------------------------
(* The environment: the remote command and the caller's context            *)

\* session.Run returns: the command exited (0 or not), or the session or
\* connection was closed under it.  The goroutine then sends; a select
\* already blocked on the channel takes the value at once.
RemoteReturns ==
    /\ worker = "running"
    /\ runErr' \in IF session = "closed" THEN {TRUE} ELSE BOOLEAN
    /\ finishedFirst' = ~ctxDone
    /\ \/ pc = "waiting" /\ worker' = "sent" /\ pc' = "received"
       \/ pc # "waiting" /\ worker' = "sending" /\ UNCHANGED pc
    /\ UNCHANGED << ctxDone, clientSet, conn, session, branch, sigint,
                    scriptErr, discErr, err >>

\* the run stage's context is cancelled (SIGTERM); a select blocked on
\* ctx.Done() wakes up in that case
ContextCancelled ==
    /\ ~ctxDone
    /\ ctxDone' = TRUE
    /\ pc' = IF pc = "waiting" THEN "cancelled" ELSE pc
    /\ UNCHANGED << clientSet, conn, session, worker, runErr, finishedFirst,
                    branch, sigint, scriptErr, discErr, err >>

\* the server answers the handshake: ssh.Dial returns a client, or an
\* error (authentication refused, connection reset); on success s.client
\* is set
HandshakeAnswered ==
    /\ pc = "handshake"
    /\ \/ /\ conn' = "open" /\ clientSet' = TRUE /\ pc' = "newSession"
          /\ UNCHANGED err
       \/ /\ pc' = "done" /\ err' = "connect"
          /\ UNCHANGED << conn, clientSet >>
    /\ UNCHANGED << ctxDone, session, worker, runErr, finishedFirst, branch,
                    sigint, scriptErr, discErr >>

-----------------------------------------------------------------------------

ExecuteStep ==
    \/ ParsePrivateKey \/ Dial \/ NewSession \/ Spawn \/ EnterSelect
    \/ ReceiveResult \/ SignalInterrupt \/ CloseSession \/ Disconnect

Next == ExecuteStep \/ HandshakeAnswered \/ RemoteReturns \/ ContextCancelled

Spec == Init /\ [][Next]_vars

\* Execute's goroutine runs until it returns; the remote command and the
\* cancellation are not forced, and nothing forces the server to answer
\* the handshake (ssh.Dial has no timeout).
ExecuteFairSpec == Spec /\ WF_vars(ExecuteStep)

\* As above, with a server that answers every handshake: the task's sshd
\* is up once the task is RUNNING and prepare has found its address.
FairSpec == ExecuteFairSpec /\ WF_vars(HandshakeAnswered)

-----------------------------------------------------------------------------
(* Properties                                                              *)

TypeOK ==
    /\ pc \in Steps
    /\ ctxDone \in BOOLEAN
    /\ clientSet \in BOOLEAN
    /\ conn \in {"none", "open", "closed"}
    /\ session \in {"none", "open", "closed"}
    /\ worker \in {"none", "running", "sending", "sent"}
    /\ runErr \in BOOLEAN
    /\ finishedFirst \in BOOLEAN
    /\ branch \in {"none", "finished", "cancelled"}
    /\ sigint \in BOOLEAN
    /\ scriptErr \in Errors
    /\ discErr \in BOOLEAN
    /\ err \in Errors

\* Spec (remote execution engine): Execute reports the outcome of the
\* script.  It returns nil only if the script exited 0, or the context
\* ended and SIGINT was sent; and an error of the script (or of the
\* session, or of the signal) is never replaced by the disconnect's error.
ReportsScriptOutcome ==
    pc = "done" =>
        /\ err = "none" =>
              \/ branch = "finished" /\ ~runErr
              \/ branch = "cancelled" /\ sigint
        /\ scriptErr # "none" => err = scriptErr

\* Spec: the connection and its session are released on every exit path
\* of Execute before it returns (whatever failed, was cancelled or raced).
ReleasedOnEveryPath ==
    pc = "done" => session # "open" /\ conn # "open"

\* Spec (cancellation): while the remote command runs, its session is
\* never closed before SIGINT was sent to it (no abrupt transport close),
\* unless sending the signal itself failed.
InterruptBeforeClose ==
    [][ (worker = "running" /\ session = "open" /\ session' = "closed")
          => (sigint \/ scriptErr = "signal") ]_vars

\* Once the caller's context has ended, Execute returns, whether or not
\* the remote command ever finishes.
CancellationEndsExecute ==
    ctxDone ~> (pc = "done")

\* Spec (concurrency): the race between "remote command finishes" and
\* "caller context ends" is resolved so that the first signal wins: a
\* command that failed before the context ended is reported as failed.
FirstSignalWins ==
    pc = "done" /\ finishedFirst /\ runErr
        => scriptErr = "exec"

=============================================================================
