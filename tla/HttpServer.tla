------------------------------ MODULE HttpServer ------------------------------
(***************************************************************************)
(* The program around Signaling: main, which builds the manager and the    *)
(* HTTP server and takes them down after SIGINT, the handlers that connect *)
(* the server's threads to the API functions, and the signal handler.      *)
(*                                                                         *)
(* The signal handler deletes the manager while the server still runs, its *)
(* peers are left behind, and the server's handlers are deleted before its *)
(* threads are stopped.  A use of a deleted object is undefined behaviour: *)
(* `process' is then "undefined" and nothing more is said of it.  (The     *)
(* outcomes of the build are a crash, a thread that hangs, and memory that *)
(* still looks alive, so this is no end of the process.)  What the         *)
(* properties say is which executions never get there.                     *)
(***************************************************************************)
EXTENDS Signaling

CONSTANT WebSocket  \* the HTTP threads that serve a WebSocket connection

ASSUME HttpAssumption == WebSocket \subseteq Http

VARIABLES
    main,           \* where the main thread is
    server,         \* the CivetServer base: "off", "on"
    handlers,       \* m_handlers: "none", "registered", "deleted"
    manager,        \* *webRtcServer: "none", "alive", "dying", "deleted"
    pointer,        \* webRtcServer # NULL
    counted,        \* m_audioDeviceModule counts its references: it is not the fake one
    process,        \* "up", "exited", "undefined"
    overlap         \* what runs beside the shutdown and needs the manager or the handlers:
                    \* "nothing", "something", or "handler" in another thread (history)

mainVars == <<main, server, handlers, manager, pointer, counted>>
progVars == <<mainVars, process, overlap>>
vars == <<sigVars, progVars>>

Init ==
    /\ SigInit
    /\ main = "start"
    /\ server = "off" /\ handlers = "none" /\ manager = "none" /\ pointer = FALSE
    /\ counted = FALSE
    /\ process = "up" /\ overlap = "nothing"

Up == process = "up"

\* A deleted object is used; main is no longer described.
UseAfterDelete ==
    /\ process' = "undefined"
    /\ main' = "start" /\ server' = "off" /\ handlers' = "none" /\ manager' = "none"
    /\ pointer' = FALSE
    /\ UNCHANGED <<sigVars, counted, overlap>>

MainStep(from, to) ==
    /\ Up
    /\ main = from /\ main' = to
    /\ UNCHANGED <<sigVars, process, overlap>>

-----------------------------------------------------------------------------
(* main.                                                                   *)

\* The constructor of the manager, with createAudioModule, which falls back on the fake
\* module.
CreateManager ==
    /\ MainStep("start", "initialize")
    /\ manager' = "alive" /\ pointer' = TRUE
    /\ counted' \in BOOLEAN
    /\ UNCHANGED <<server, handlers>>

\* InitializePeerConnection may fail; the program then ends.
InitializePeerConnection ==
    /\ MainStep("initialize", "listen") \/ MainStep("initialize", "cleanup")
    /\ UNCHANGED <<server, handlers, manager, pointer, counted>>

\* The constructor of CivetServer starts the threads, or throws and the program ends.
StartServer ==
    \/ MainStep("listen", "register") /\ server' = "on"
       /\ UNCHANGED <<handlers, manager, pointer, counted>>
    \/ MainStep("listen", "cleanup") /\ UNCHANGED <<server, handlers, manager, pointer, counted>>

\* The handlers are added to a server that already runs; the STUN and TURN servers
\* follow, which only wire libraries together, then signal() and Run().
AddHandlersAndRun ==
    /\ MainStep("register", "run")
    /\ handlers' = "registered"
    /\ UNCHANGED <<server, manager, pointer, counted>>

\* ~HttpServerRequestHandler deletes the handlers, then ~CivetServer waits for the
\* server's threads.
DeleteHandlers ==
    /\ MainStep("quit", "stop")
    /\ handlers' = "deleted"
    /\ UNCHANGED <<server, manager, pointer, counted>>

StopServer ==
    /\ \A t \in Http : at[t] = "idle"
    /\ MainStep("stop", "cleanup")
    /\ server' = "off"
    /\ UNCHANGED <<handlers, manager, pointer, counted>>

Exit ==
    /\ Up /\ main = "cleanup"
    /\ process' = "exited"
    /\ UNCHANGED <<sigVars, mainVars, overlap>>

-----------------------------------------------------------------------------
(* SIGINT.                                                                 *)

InHandler == main = "dying"

\* Only a WebSocket thread that has nothing but its reply left needs neither the manager
\* nor m_handlers.
Needy(t) == at[t] # "idle" /\ ~(t \in WebSocket /\ at[t] = "return")

\* The observers in the map are not deleted with it: their connections stay.
Leaked == peerMap # {}

\* The references to the audio module, of the manager and of its two factories, and how
\* often it is released: by the body of ~PeerConnectionManager, by the factories, of which
\* connections keep one alive, and by the manager's member.
References == 1 + 2
Releases == 1 + (IF Leaked THEN 1 ELSE 2) + 1

\* ~PeerConnectionManager and its members but for m_signalingThread; the worker thread is
\* stopped.
DeleteManager ==
    IF counted /\ Releases > References
    THEN process' = "undefined" /\ UNCHANGED mainVars
    ELSE /\ main' = "dying" /\ manager' = "dying"
         /\ UNCHANGED <<server, handlers, pointer, counted, process>>

\* Before signal() was called SIGINT ends the process.  Afterwards it makes the main
\* thread leave Run for the handler, which deletes the manager.
Sigint ==
    /\ Up
    /\ \/ /\ main \in {"start", "initialize", "listen", "register"}
          /\ process' = "exited" /\ UNCHANGED <<mainVars, overlap>>
       \/ /\ main = "run"
          /\ DeleteManager
          /\ overlap' = IF \E t \in Thread : Needy(t) THEN "something" ELSE "nothing"
    /\ UNCHANGED sigVars

\* A connection that was left behind uses the worker thread.
LeakedConnection ==
    /\ Up /\ main \in {"dying", "quit", "stop"}
    /\ Leaked /\ UseAfterDelete

\* Once the handler has returned, another SIGINT runs it again: it deletes the null
\* pointer, and Quit has no effect on a thread that has quit.
SigintAgain ==
    /\ Up /\ main \in {"quit", "stop"}
    /\ IF pointer THEN UseAfterDelete ELSE UNCHANGED vars

\* While the main thread is in the handler it blocks SIGINT, so that another thread may
\* get it: the manager is then deleted twice, or Thread::Current() is null.  (Bound: only
\* when nothing else overlaps the shutdown.)
SigintElsewhere ==
    /\ Up /\ InHandler /\ overlap = "nothing"
    /\ overlap' = "handler"
    /\ UNCHANGED <<sigVars, mainVars, process>>

HandlerElsewhere == Up /\ overlap = "handler" /\ UseAfterDelete

\* A mutant of Quit: the handler forgets Quit().
Quit_Forgotten ==
    /\ at[Sig] = "idle"
    /\ MainStep("dying", "run")
    /\ manager' = "deleted" /\ pointer' = FALSE
    /\ UNCHANGED <<server, handlers, counted>>

\* A mutant of Quit: the handler leaves a dangling pointer.
Quit_Dangling ==
    /\ at[Sig] = "idle"
    /\ MainStep("dying", "quit")
    /\ manager' = "deleted"
    /\ UNCHANGED <<server, handlers, pointer, counted>>

\* The signaling thread is stopped when its callback has returned; then
\* webRtcServer = NULL, and Quit() lets Run() return.
Quit ==
    /\ at[Sig] = "idle"
    /\ MainStep("dying", "quit")
    /\ manager' = "deleted" /\ pointer' = FALSE
    /\ UNCHANGED <<server, handlers, counted>>

-----------------------------------------------------------------------------
(* The server's threads.                                                   *)

\* Something begins that needs the manager or the handlers; it overlaps the shutdown if
\* that has begun.
Overlap ==
    overlap' = IF overlap # "nothing" \/ main \in {"start", "initialize", "listen", "register", "run"}
               THEN overlap ELSE "something"

Serving(t) ==
    /\ Up /\ server = "on" /\ handlers # "none" /\ t \in Http
    /\ UNCHANGED <<mainVars, process>>

\* One of the API functions; with the manager gone they do not differ.
Function(t) == IF manager = "alive" THEN BeginFunction(t) ELSE Begin(t, "list", None, <<>>)

\* A request reaches its handler: an API function, or /metrics, which does not use the
\* manager.
HandleRequest(t) ==
    /\ Serving(t) /\ t \notin WebSocket
    /\ Function(t) \/ Begin(t, "return", None, <<>>)
    /\ Overlap

\* A message on a WebSocket, whose handler is never deleted, names one of the same
\* functions; when it names another one it is answered at once.
HandleData(t) ==
    /\ Serving(t) /\ t \in WebSocket
    /\ \/ Function(t) /\ Overlap
       \/ Begin(t, "return", None, <<>>) /\ UNCHANGED overlap

\* What the next step of a thread uses is alive: the handler of its request, from which the
\* function is called and the reply written, and the manager, which a callback needs only
\* for m_extraHost.
Safe(t) ==
    /\ t \in Http \ WebSocket => handlers = "registered"
    /\ at[t] \in {"return", "lockAppend", "lockClear"} \/ manager = "alive"

\* The reply is written.
Reply(t) ==
    /\ t \in Http /\ at[t] = "return"
    /\ Goto(t, "idle")
    /\ peer' = [peer EXCEPT ![t] = None]
    /\ got' = [got EXCEPT ![t] = <<>>]
    /\ UNCHANGED <<peerMap, mutex, cursor, todo, lines, observerVars, budget>>

\* A thread goes on in its function, its callback or its handler.
Worker(t) ==
    /\ Up /\ at[t] # "idle"
    /\ IF Safe(t)
       THEN (InFunction(t) \/ Served(t) \/ Reply(t) \/ Ends(t)) /\ UNCHANGED progVars
       ELSE UseAfterDelete

\* Callbacks come once there are peers and as long as the signaling thread lives.
Callbacks(p) ==
    /\ Up /\ handlers # "none" /\ manager \in {"alive", "dying"}
    /\ OnIceCandidate(p) \/ OnIceConnectionChange(p)
    /\ Overlap
    /\ UNCHANGED <<mainVars, process>>

-----------------------------------------------------------------------------
Main ==
    \/ CreateManager \/ InitializePeerConnection \/ StartServer \/ AddHandlersAndRun
    \/ Quit
    \/ DeleteHandlers \/ StopServer \/ Exit

\* Nothing happens any more in a process that has ended.
Ended == ~Up /\ UNCHANGED vars

Next ==
    \/ Main
    \/ Sigint \/ SigintAgain \/ SigintElsewhere \/ HandlerElsewhere
    \/ LeakedConnection
    \/ \E t \in Http : HandleRequest(t) \/ HandleData(t)
    \/ \E t \in Thread : Worker(t)
    \/ \E p \in Peers : Callbacks(p)
    \/ Ended

\* The main thread and each thread with something to do go on, and the signaling thread
\* serves calls.  No client, network or user needs to do anything.
Spec ==
    /\ Init /\ [][Next]_vars
    /\ WF_vars(Main)
    /\ \A t \in Thread : WF_vars(Worker(t))

-----------------------------------------------------------------------------
\* Every request is answered, although threads hold the mutex while they wait for the
\* signaling thread, unless the process ends or uses a deleted object first.
RequestsReturn == \A t \in Http : at[t] # "idle" ~> at[t] = "idle" \/ ~Up

\* What makes a shutdown unsafe: it is not alone, peers are left in the map, or the audio
\* module counts its references and is released once too often.
Disturbed == overlap # "nothing" \/ Leaked \/ counted

\* The shutdown by itself is well defined, another SIGINT behind the handler included: a
\* deleted object is used only when the shutdown is disturbed.
QuietShutdownIsClean == process = "undefined" => Disturbed

\* After SIGINT the process ends, unless the shutdown is disturbed: it waits for the
\* server's threads, some of which may still be answering, and all of them come back.
ProcessEnds == InHandler ~> process = "exited" \/ Disturbed
=============================================================================
