--------------------------- MODULE DriverProcess ---------------------------
(***************************************************************************)
(* The driver's processes, from start to end: main of main.go, NewDriver   *)
(* and Driver.Run of pkg/driver/driver.go, with the goroutine that waits   *)
(* for a signal and the one that waits for the context.                    *)
(***************************************************************************)
CONSTANTS Processes

VARIABLES
    proc,       \* process -> where main is, and what its goroutines share
    socket,     \* process -> the file of its socket exists
    calls       \* process -> the gRPC handlers that run in it

\* The container runs main again whenever its process has ended.  driver and
\* cluster say which of main's two pointers are not nil.
Starting == [pc |-> "starting", driver |-> FALSE, cluster |-> FALSE,
             ctx |-> "live", stopped |-> FALSE]

Init ==
    /\ proc = [p \in Processes |-> Starting]
    /\ socket = [p \in Processes |-> FALSE]

At(p, label) == proc[p].pc = label
Ends(p) == proc' = [proc EXCEPT ![p] = Starting]

Listening(p, d, c) ==
    proc' = [proc EXCEPT ![p].pc = "listening", ![p].driver = d, ![p].cluster = c]

\* A socket left behind is removed before the process listens on its own.
RemoveAndListen(p, d, c) ==
    Listening(p, d, c) /\ socket' = [socket EXCEPT ![p] = TRUE]

---------------------------------------------------------------------------
(* main, up to the socket that Run listens on.                             *)

\* NewDriver and GetKubernetesCluster answer; then main is ready for signals, and
\* Run listens. A signal between these two acts like one that comes after them.
Start(p) == At(p, "starting") /\ RemoveAndListen(p, TRUE, TRUE)

\* One of them returns an error, and so a pointer is nil. log.Fatal().Err(err) without Msg
\* does not exit: main goes on. (Without an API key NewDriver itself panics: a Kill.)
GoesOnWithout(p, d) ==
    /\ At(p, "starting")
    /\ proc' = [proc EXCEPT ![p].pc = "failed", ![p].driver = d]
    /\ UNCHANGED socket

ReadOfAnyDriver(p) == proc[p].driver
\* The lookup goes by way of the driver, and the volume type is read from the
\* cluster: each panics when there is none.
VolumeTypeRead(p) == proc[p].driver /\ proc[p].cluster

FailedStart(p) ==
    /\ At(p, "failed")
    /\ IF VolumeTypeRead(p)
       THEN RemoveAndListen(p, proc[p].driver, proc[p].cluster)
       ELSE Ends(p) /\ UNCHANGED socket

\* The old socket can not be removed, or the new one not be listened on: Run and
\* with it main return.
RunFails(p) ==
    /\ At(p, "starting")
    /\ Ends(p)
    /\ socket' \in {socket, [socket EXCEPT ![p] = FALSE]}

StartFails(p) == RunFails(p) \/ \E d \in BOOLEAN : GoesOnWithout(p, d)

---------------------------------------------------------------------------
(* Run, and its goroutines.                                                *)

\* Serve, unless GracefulStop came before it: then Run returns an error.
Serve(p) ==
    /\ At(p, "listening") /\ ~proc[p].stopped
    /\ proc' = [proc EXCEPT ![p].pc = "serving"]
    /\ UNCHANGED socket

\* SIGINT or SIGTERM; before main listens for signals it is a Kill.
Signal(p) ==
    /\ proc[p].pc \in {"listening", "serving"} /\ proc[p].ctx = "live"
    /\ proc' = [proc EXCEPT ![p].ctx = "cancelled"]
    /\ UNCHANGED socket

\* The goroutine that Run starts calls GracefulStop, which closes the listener
\* that is served and with it its file: no further calls.
GracefulStop(p) ==
    /\ proc[p].ctx = "cancelled" /\ ~proc[p].stopped
    /\ proc' = [proc EXCEPT ![p].stopped = TRUE]
    /\ socket' = [socket EXCEPT ![p] = @ /\ ~At(p, "serving")]

ReturnsAtOnce(p) == TRUE
ReturnsOnceServed(p) == At(p, "serving") /\ calls[p] = {}
\* Serve returns at once when it comes after GracefulStop, and with it, when the
\* handlers have finished, when it comes before.
ServeReturns(p) == At(p, "serving") => calls[p] = {}

\* Serve, Run and main return; a listener never served is closed by Serve.
Exit(p) ==
    /\ proc[p].stopped /\ ServeReturns(p)
    /\ Ends(p)
    /\ socket' = [socket EXCEPT ![p] = FALSE]

\* A crash or SIGKILL: the socket stays behind.
Kill(p) == Ends(p) /\ UNCHANGED socket

\* What the process does by itself.
Step(p) == Start(p) \/ FailedStart(p) \/ Serve(p) \/ GracefulStop(p) \/ Exit(p)

AcceptsCalls(p) == At(p, "serving") /\ ~proc[p].stopped

TypeInvariant ==
    /\ proc \in [Processes -> [pc : {"starting", "failed", "listening", "serving"},
                               driver : BOOLEAN, cluster : BOOLEAN,
                               ctx : {"live", "cancelled"},
                               stopped : BOOLEAN]]
    /\ socket \in [Processes -> BOOLEAN]
===========================================================================
