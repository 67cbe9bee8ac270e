--------------------------- MODULE SessionPromise ---------------------------
(***************************************************************************)
(* How createOffer, setAnswer and getAnswer wait for WebRTC.  A handler    *)
(* puts a std::promise on its stack, hands a reference to it to a session  *)
(* description observer, and waits for at most five seconds.  The          *)
(* observer's callbacks run on the signaling thread; when the wait ends    *)
(* early the handler sets m_cancelled and returns, which destroys the      *)
(* promise.  CreateSessionDescriptionObserver::OnSuccess goes on with      *)
(* SetLocalDescription and a second observer of the same promise.          *)
(*                                                                         *)
(* One peer connection is modelled with several handlers on it.  WebRTC    *)
(* itself (external) is a FIFO chain of operations, each of which ends in  *)
(* one callback that reports success or failure.                           *)
(***************************************************************************)
EXTENDS Naturals, Sequences

CONSTANTS
    Call,        \* the handlers that may run on the connection
    Function     \* what they may be, of Functions

Functions == {"createOffer", "setAnswer", "getAnswer"}

ASSUME FunctionAssumption == Function \subseteq Functions

Observers    == {"SetRemote", "Create", "SetLocal"}
Descriptions == {"offer", "answer"}
None         == "none"

\* The promise an observer refers to: remotepromise or localpromise.
PromiseOf(obs) == IF obs = "SetRemote" THEN "remote" ELSE "local"

VARIABLES
    fun,        \* the function that each handler runs, or None
    at,         \* "off", waiting for "remote" or "local", or "done"
    reply,      \* what the handler returned: a description, "null", "error" or None
    late,       \* handlers whose last wait timed out
    cancelled,  \* the observers <<c, obs>> with m_cancelled set
    promise,    \* promises by handler and name: None, "empty", a value or "gone"
    local,      \* local_description() of the connection, or None
    remote,     \* remote_description() of the connection, or None
    chain,      \* WebRTC's operations that have not been run
    sig,        \* the callback that the signaling thread is in
    broken      \* a callback has set a value in a promise that was destroyed

handlerVars == <<fun, at, reply, late, cancelled>>
webrtcVars  == <<local, remote>>
vars        == <<handlerVars, promise, webrtcVars, chain, sig, broken>>

Operation == [call : Call, obs : Observers]

\* The signaling thread: between callbacks, at the start of one, or about to call
\* set_value with a value.
Signaling ==
    [stage : {"idle"}]
      \cup [stage : {"callback"}, call : Call, obs : Observers, ok : BOOLEAN]
      \cup [stage : {"store"}, call : Call, obs : Observers, val : Descriptions \cup {"null"}]

Idle == [stage |-> "idle"]

\* The types; a handler never returns a promise that has no value as its reply.
TypeOK ==
    /\ fun \in [Call -> Function \cup {None}]
    /\ at \in [Call -> {"off", "remote", "local", "done"}]
    /\ reply \in [Call -> Descriptions \cup {None, "null", "error"}]
    /\ late \in SUBSET Call
    /\ cancelled \in SUBSET (Call \X Observers)
    /\ promise \in [Call -> [{"remote", "local"} ->
                      Descriptions \cup {None, "empty", "null", "gone"}]]
    /\ local \in Descriptions \cup {None}
    /\ remote \in Descriptions \cup {None}
    /\ chain \in Seq(Operation)
    /\ sig \in Signaling
    /\ broken \in BOOLEAN

Init ==
    /\ fun = [c \in Call |-> None]
    /\ at = [c \in Call |-> "off"]
    /\ reply = [c \in Call |-> None]
    /\ late = {}
    /\ cancelled = {}
    /\ promise = [c \in Call |-> [p \in {"remote", "local"} |-> None]]
    /\ local = None
    /\ remote = None
    /\ chain = <<>>
    /\ sig = Idle
    /\ broken = FALSE

-----------------------------------------------------------------------------
(* The handlers.                                                           *)

\* A promise is made, an observer with a reference to it, and the operation is
\* given to WebRTC.
Issue(c, obs) ==
    /\ chain' = Append(chain, [call |-> c, obs |-> obs])
    /\ promise' = [promise EXCEPT ![c][PromiseOf(obs)] = "empty"]
    /\ at' = [at EXCEPT ![c] = PromiseOf(obs)]

\* createOffer and getAnswer work on a new connection, setAnswer on any.
Begin(c, f) ==
    /\ at[c] = "off"
    /\ f # "setAnswer" => \A d \in Call : fun[d] \in {None, "setAnswer"}
    /\ fun' = [fun EXCEPT ![c] = f]
    /\ Issue(c, IF f = "createOffer" THEN "Create" ELSE "SetRemote")
    /\ UNCHANGED <<reply, late, cancelled, webrtcVars, sig, broken>>

\* The promises of a handler that returns are destroyed.
Finish(c, r) ==
    /\ at' = [at EXCEPT ![c] = "done"]
    /\ reply' = [reply EXCEPT ![c] = r]
    /\ promise' = [promise EXCEPT ![c] = [p \in {"remote", "local"} |-> "gone"]]

\* A mutant of Awaited: getAnswer looks at the future of the first promise again.
Awaited_First(c) == IF fun[c] = "getAnswer" THEN "remote" ELSE at[c]

\* The promise whose future the handler waits for.
Awaited(c) == at[c]

Ready(c) == promise[c][Awaited(c)] \notin {"empty", None, "gone"}

\* getAnswer has waited for the remote description and asks for an answer, whether
\* it came or not.
AskAnswer(c) ==
    /\ at[c] = "remote" /\ fun[c] = "getAnswer"
    /\ Issue(c, "Create")
    /\ UNCHANGED <<fun, reply, late, webrtcVars, sig, broken>>

\* The value came in time.
WaitReady(c) ==
    /\ at[c] \in {"remote", "local"}
    /\ Ready(c)
    /\ \/ AskAnswer(c) /\ UNCHANGED cancelled
       \/ /\ ~(at[c] = "remote" /\ fun[c] = "getAnswer")
          /\ Finish(c, promise[c][Awaited(c)])
          /\ UNCHANGED <<fun, late, cancelled, webrtcVars, chain, sig, broken>>

\* A mutant of WaitTimeout: the handlers wait for as long as it takes.
WaitTimeout_Never(c) == FALSE /\ UNCHANGED vars

\* Five seconds have passed: cancel() on the observer of this wait.
WaitTimeout(c) ==
    /\ at[c] \in {"remote", "local"}
    /\ ~Ready(c)
    /\ cancelled' = cancelled \cup
                    {<<c, IF at[c] = "remote" THEN "SetRemote" ELSE "Create">>}
    /\ \/ AskAnswer(c)
       \/ /\ ~(at[c] = "remote" /\ fun[c] = "getAnswer")
          /\ late' = late \cup {c}
          /\ Finish(c, "error")
          /\ UNCHANGED <<fun, webrtcVars, chain, sig, broken>>

-----------------------------------------------------------------------------
(* The signaling thread.                                                   *)

\* The description that an operation of a handler is about.
Subject(c) == IF fun[c] = "createOffer" THEN "offer" ELSE "answer"

\* Can WebRTC carry the operation out in the connection's signaling state?
Possible(op) ==
    CASE op.obs = "SetRemote" /\ fun[op.call] = "setAnswer" -> local = "offer" /\ remote = None
      [] op.obs = "SetRemote" /\ fun[op.call] = "getAnswer" -> local = None /\ remote = None
      [] op.obs # "SetRemote" /\ fun[op.call] = "createOffer" -> local = None /\ remote = None
      [] OTHER -> local = None /\ remote = "offer"

\* WebRTC (external) runs its next operation; the observer will be called.
RunOperation(ok) ==
    /\ sig = Idle
    /\ chain # <<>>
    /\ ok => Possible(Head(chain))
    /\ chain' = Tail(chain)
    /\ sig' = [stage |-> "callback", call |-> Head(chain).call, obs |-> Head(chain).obs,
               ok |-> ok]
    /\ local' = IF ok /\ Head(chain).obs = "SetLocal" THEN Subject(Head(chain).call) ELSE local
    /\ remote' = IF ok /\ Head(chain).obs = "SetRemote"
                 THEN IF fun[Head(chain).call] = "setAnswer" THEN "answer" ELSE "offer"
                 ELSE remote
    /\ UNCHANGED <<handlerVars, promise, broken>>

\* The callback reads m_cancelled of its observer.
Live(obs) == <<sig.call, obs>> \notin cancelled

Cancelled ==
    /\ sig.stage = "callback"
    /\ ~Live(sig.obs)
    /\ sig' = Idle
    /\ UNCHANGED <<handlerVars, promise, webrtcVars, chain, broken>>

\* OnFailure of both observers.
OnFailure ==
    /\ sig.stage = "callback" /\ ~sig.ok
    /\ Live(sig.obs)
    /\ sig' = [stage |-> "store", call |-> sig.call, obs |-> sig.obs, val |-> "null"]
    /\ UNCHANGED <<handlerVars, promise, webrtcVars, chain, broken>>

\* A mutant of CreateOnSuccess: the value is set before SetLocalDescription too.
CreateOnSuccess_Twice ==
    /\ sig.stage = "callback" /\ sig.ok /\ sig.obs = "Create"
    /\ Live("Create")
    /\ chain' = Append(chain, [call |-> sig.call, obs |-> "SetLocal"])
    /\ sig' = [stage |-> "store", call |-> sig.call, obs |-> "Create",
               val |-> Subject(sig.call)]
    /\ UNCHANGED <<handlerVars, promise, webrtcVars, broken>>

\* CreateSessionDescriptionObserver::OnSuccess: SetLocalDescription with a new
\* observer, which nobody can cancel.
CreateOnSuccess ==
    /\ sig.stage = "callback" /\ sig.ok /\ sig.obs = "Create"
    /\ Live("Create")
    /\ chain' = Append(chain, [call |-> sig.call, obs |-> "SetLocal"])
    /\ sig' = Idle
    /\ UNCHANGED <<handlerVars, promise, webrtcVars, broken>>

\* A mutant of Delivered: the remote description is looked at first.
Delivered_RemoteFirst == IF remote # None THEN remote ELSE local

\* SetSessionDescriptionObserver::OnSuccess delivers the local description if there
\* is one, the remote one otherwise.
Delivered == IF local # None THEN local ELSE remote

SetOnSuccess ==
    /\ sig.stage = "callback" /\ sig.ok /\ sig.obs # "Create"
    /\ Live(sig.obs)
    /\ sig' = IF Delivered = None
              THEN Idle
              ELSE [stage |-> "store", call |-> sig.call, obs |-> sig.obs, val |-> Delivered]
    /\ UNCHANGED <<handlerVars, promise, webrtcVars, chain, broken>>

\* m_promise.set_value(...): the promise may have been destroyed since m_cancelled
\* was read.
SetValue ==
    LET p == PromiseOf(sig.obs) IN
    /\ sig.stage = "store"
    /\ IF promise[sig.call][p] = "gone"
       THEN broken' = TRUE /\ UNCHANGED promise
       ELSE /\ promise' = [promise EXCEPT ![sig.call][p] = sig.val]
            /\ UNCHANGED broken
    /\ sig' = Idle
    /\ UNCHANGED <<handlerVars, webrtcVars, chain>>

Next ==
    \/ \E c \in Call : \/ \E f \in Function : Begin(c, f)
                       \/ WaitReady(c)
                       \/ WaitTimeout(c)
    \/ \E ok \in BOOLEAN : RunOperation(ok)
    \/ Cancelled
    \/ OnFailure
    \/ CreateOnSuccess
    \/ SetOnSuccess
    \/ SetValue

\* wait_for returns after five seconds whatever WebRTC does; nothing is assumed of
\* the signaling thread.
Fairness == \A c \in Call : WF_vars(WaitReady(c) \/ WaitTimeout(c))

Spec == Init /\ [][Next]_vars /\ Fairness

-----------------------------------------------------------------------------
\* No promise is given a second value, which would throw on the signaling thread:
\* the two observers that share localpromise never both set it.
SingleValue ==
    sig.stage = "store" =>
        promise[sig.call][PromiseOf(sig.obs)] \in {"empty", "gone"}

\* A handler that got its value leaves nothing behind that refers to its promises:
\* neither an operation in WebRTC nor a running callback.  Only after a timeout can
\* set_value reach a promise that is gone.
PunctualHandlersLeaveNothing ==
    /\ \A c \in Call : at[c] = "done" /\ c \notin late =>
          /\ \A i \in DOMAIN chain : chain[i].call # c
          /\ sig.stage # "idle" => sig.call # c
    /\ broken => late # {}

\* createOffer returns an offer and getAnswer (call, whep) an answer, or an error,
\* also when setAnswer is called on the same connection at the same time.
RepliesAreOfTheRightType ==
    \A c \in Call : reply[c] \in Descriptions /\ fun[c] # "setAnswer" => reply[c] = Subject(c)

\* Every handler returns, even if WebRTC never calls back.
HandlersReturn == \A c \in Call : at[c] # "off" ~> at[c] = "done"
=============================================================================
