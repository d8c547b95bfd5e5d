----------------------------- MODULE SshService -----------------------------
(***************************************************************************)
(* The SSH service of the task image (dockerfiles/ssh_service/main.go):   *)
(* main generates the host and user keys, writes the sshd configuration   *)
(* and authorized_keys, then starts sshd and the HTTP configuration       *)
(* server, each in goroutines, and selects on their two error channels    *)
(* and on the context that a signal goroutine cancels on SIGTERM/SIGINT.  *)
(*                                                                         *)
(* Goroutines are the variables notifier, sshd, closer and listener.  A    *)
(* select entered with several cases ready takes any of them; a select    *)
(* that blocked is woken by the first case to become ready (the sender    *)
(* hands its value over, or the context's channel is closed).  When main  *)
(* returns or panics the process exits and every goroutine with it.       *)
(* ECS sends one SIGTERM to stop the task and a SIGKILL after its stop     *)
(* timeout.                                                                *)
(***************************************************************************)

VARIABLES
    main,        \* main's next step
    notifier,    \* the goroutine of getSignalContext
    sshd,        \* the goroutine of startSSHServer running sshd
    closer,      \* the goroutine of startHTTPServer closing the server
    listener,    \* the goroutine of startHTTPServer running ListenAndServe
    server,      \* the http.Server: "open" or "closed"
    ctxDone,     \* the context was cancelled
    sigPending,  \* a signal waits in the buffered channel of signal.Notify
    signalled,   \* ECS has sent SIGTERM
    failed,      \* a step or a server failed on its own
    exit         \* how the process ended: "none", "ok", "panic", "killed"

vars == << main, notifier, sshd, closer, listener, server, ctxDone,
           sigPending, signalled, failed, exit >>

MainSteps == {"hostKey", "userKey", "config", "authKeys", "run", "select",
              "waiting"}

Init ==
    /\ main = "hostKey"
    /\ notifier = "start"
    /\ sshd = "none" /\ closer = "none" /\ listener = "none"
    /\ server = "open"
    /\ ctxDone = FALSE
    /\ sigPending = FALSE
    /\ signalled = FALSE
    /\ failed = FALSE
    /\ exit = "none"

Running == exit = "none"

\* a step of main before run: it succeeds, or its error makes main panic
Setup(from, to) ==
    /\ Running /\ main = from
    /\ \/ main' = to /\ UNCHANGED << failed, exit >>
       \/ exit' = "panic" /\ failed' = TRUE /\ UNCHANGED main
    /\ UNCHANGED << notifier, sshd, closer, listener, server, ctxDone,
                    sigPending, signalled >>

\* generateKey("host"): ssh-keygen, then reading both key files
GenerateHostKey == Setup("hostKey", "userKey")

\* generateKey("user")
GenerateUserKey == Setup("userKey", "config")

\* createConfigFile(hostKey)
CreateConfigFile == Setup("config", "authKeys")

\* writeAuthorizedKeys(userKey)
WriteAuthorizedKeys == Setup("authKeys", "run")

\* run: startSSHServer and startHTTPServer start their goroutines
StartServers ==
    /\ Running /\ main = "run"
    /\ main' = "select"
    /\ sshd' = "start" /\ closer' = "wait" /\ listener' = "start"
    /\ UNCHANGED << notifier, server, ctxDone, sigPending, signalled, failed,
                    exit >>

\* the cases of run's select ready now
Ready ==
    { c \in {"ssh", "http", "ctx"} :
        \/ c = "ssh" /\ sshd = "sending"
        \/ c = "http" /\ "sending" \in {closer, listener}
        \/ c = "ctx" /\ ctxDone }

\* run's select: a server's error makes main panic, the context's end
\* returns from run and main; with no case ready, main blocks
EnterSelect ==
    /\ Running /\ main = "select"
    /\ \/ /\ Ready = {}
          /\ main' = "waiting"
          /\ UNCHANGED exit
       \/ \E c \in Ready :
            /\ exit' = IF c = "ctx" THEN "ok" ELSE "panic"
            /\ UNCHANGED main
    /\ UNCHANGED << notifier, sshd, closer, listener, server, ctxDone,
                    sigPending, signalled, failed >>

\* a goroutine sends its error on an unbuffered channel: to a blocked run,
\* which takes it and panics, or it waits until run's select takes it
Send(g) ==
    IF main = "waiting" THEN exit' = "panic" /\ g' = "done"
                        ELSE g' = "sending" /\ UNCHANGED exit

\* getSignalContext's goroutine registers for SIGINT and SIGTERM
Notify ==
    /\ Running /\ notifier = "start"
    /\ notifier' = "select"
    /\ UNCHANGED << main, sshd, closer, listener, server, ctxDone, sigPending,
                    signalled, failed, exit >>

\* (mutant) the signal is received but cancel() is not called
NotifierIgnores ==
    /\ Running /\ notifier = "select" /\ sigPending
    /\ notifier' = "done"
    /\ sigPending' = FALSE
    /\ UNCHANGED << main, sshd, closer, listener, server, ctxDone, signalled,
                    failed, exit >>

\* it receives the signal and cancels the context; a blocked run returns
NotifierCancels ==
    /\ Running /\ notifier = "select" /\ sigPending
    /\ notifier' = "done"
    /\ sigPending' = FALSE
    /\ ctxDone' = TRUE
    /\ exit' = IF main = "waiting" THEN "ok" ELSE exit
    /\ UNCHANGED << main, sshd, closer, listener, server, signalled, failed >>

\* exec.CommandContext(ctx, "/usr/sbin/sshd", "-D", ...).Run(): Start fails
\* on a context already cancelled; otherwise sshd runs
SshdStart ==
    /\ Running /\ sshd = "start"
    /\ IF ctxDone THEN Send(sshd) ELSE sshd' = "running" /\ UNCHANGED exit
    /\ UNCHANGED << main, notifier, closer, listener, server, ctxDone,
                    sigPending, signalled, failed >>

\* the context's end kills sshd, and Run returns its error
SshdKilled ==
    /\ Running /\ sshd = "running" /\ ctxDone
    /\ Send(sshd)
    /\ UNCHANGED << main, notifier, closer, listener, server, ctxDone,
                    sigPending, signalled, failed >>

\* (mutant) the closing goroutine does not wait for the context
CloserClosesAtOnce ==
    /\ Running /\ closer = "wait"
    /\ server' = "closed"
    /\ \/ closer' = "done" /\ UNCHANGED << exit, failed >>
       \/ Send(closer) /\ failed' = TRUE
    /\ UNCHANGED << main, notifier, sshd, listener, ctxDone, sigPending,
                    signalled >>

\* the closing goroutine: <-ctx.Done(), then s.Close(); its error is sent
CloserCloses ==
    /\ Running /\ closer = "wait" /\ ctxDone
    /\ server' = "closed"
    /\ \/ closer' = "done" /\ UNCHANGED << exit, failed >>
       \/ Send(closer) /\ failed' = TRUE
    /\ UNCHANGED << main, notifier, sshd, listener, ctxDone, sigPending,
                    signalled >>

\* the serving goroutine: ListenAndServe returns ErrServerClosed at once on
\* a closed server; otherwise it serves, or fails to listen
ListenerStart ==
    /\ Running /\ listener = "start"
    /\ \/ server = "closed" /\ Send(listener) /\ UNCHANGED failed
       \/ server = "open" /\ listener' = "serving" /\ UNCHANGED << exit, failed >>
       \/ server = "open" /\ Send(listener) /\ failed' = TRUE
    /\ UNCHANGED << main, notifier, sshd, closer, server, ctxDone, sigPending,
                    signalled >>

\* Close makes a serving ListenAndServe return ErrServerClosed
ListenerStops ==
    /\ Running /\ listener = "serving" /\ server = "closed"
    /\ Send(listener)
    /\ UNCHANGED << main, notifier, sshd, closer, server, ctxDone, sigPending,
                    signalled, failed >>

-----------------------------------------------------------------------------
(* The environment: ECS stopping the task, sshd dying on its own.          *)

\* SIGTERM: before signal.Notify its default action ends the process
StopSignal ==
    /\ Running /\ ~signalled
    /\ signalled' = TRUE
    /\ IF notifier = "start"
          THEN exit' = "killed" /\ UNCHANGED sigPending
          ELSE sigPending' = TRUE /\ UNCHANGED exit
    /\ UNCHANGED << main, notifier, sshd, closer, listener, server, ctxDone,
                    failed >>

\* SIGKILL once the stop timeout after SIGTERM is over
StopTimeoutKill ==
    /\ Running /\ signalled
    /\ exit' = "killed"
    /\ UNCHANGED << main, notifier, sshd, closer, listener, server, ctxDone,
                    sigPending, signalled, failed >>

SshdDies ==
    /\ Running /\ sshd = "running"
    /\ Send(sshd)
    /\ failed' = TRUE
    /\ UNCHANGED << main, notifier, closer, listener, server, ctxDone,
                    sigPending, signalled >>

-----------------------------------------------------------------------------

ServiceStep ==
    \/ GenerateHostKey \/ GenerateUserKey \/ CreateConfigFile
    \/ WriteAuthorizedKeys \/ StartServers \/ EnterSelect \/ Notify
    \/ NotifierCancels \/ SshdStart \/ SshdKilled \/ CloserCloses
    \/ ListenerStart \/ ListenerStops

Next == ServiceStep \/ StopSignal \/ StopTimeoutKill \/ SshdDies

Spec == Init /\ [][Next]_vars

\* The Go scheduler runs every runnable goroutine; ECS and sshd are not
\* forced to do anything.
FairSpec == Spec /\ WF_vars(ServiceStep)

-----------------------------------------------------------------------------
(* Properties                                                              *)

TypeOK ==
    /\ main \in MainSteps
    /\ notifier \in {"start", "select", "done"}
    /\ sshd \in {"none", "start", "running", "sending", "done"}
    /\ closer \in {"none", "wait", "sending", "done"}
    /\ listener \in {"none", "start", "serving", "sending", "done"}
    /\ server \in {"open", "closed"}
    /\ {ctxDone, sigPending, signalled, failed} \subseteq BOOLEAN
    /\ exit \in {"none", "ok", "panic", "killed"}

\* The service never stops on its own: while no signal came and nothing
\* failed, it keeps running (the closing goroutine waits for the context,
\* the servers' goroutines report only real errors).
StopsOnlyWhenAsked ==
    exit # "none" => signalled \/ failed

\* Stopping the task ends the service: after SIGTERM the process exits,
\* without waiting for ECS's SIGKILL (the signal goroutine cancels the
\* context, and run's select or the servers' goroutines return).
SignalEndsService ==
    signalled ~> exit # "none"

\* The select's ctx.Done() case and the "Received %v, exitting" message:
\* a service stopped by a signal exits through that case, not by a panic
\* reporting a server error, unless a server really failed.
ShutdownIsClean ==
    exit = "panic" => failed

=============================================================================
