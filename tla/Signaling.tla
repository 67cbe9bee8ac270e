------------------------------ MODULE Signaling ------------------------------
(***************************************************************************)
(* How the API functions of PeerConnectionManager and the callbacks of its *)
(* observers meet on m_peerMapMutex, on the observers' m_iceCandidateMutex *)
(* and on WebRTC's signaling thread.                                       *)
(*                                                                         *)
(* Every method of a PeerConnection is a blocking call to the signaling    *)
(* thread, and several functions make such calls with m_peerMapMutex held. *)
(* PeerConnectionManager.tla takes these critical sections as single steps;*)
(* here a thread that holds the mutex and waits, for the signaling thread  *)
(* or for a list of candidates, is a state.                                *)
(*                                                                         *)
(* The peers are registered from the start, or there has been no call:     *)
(* calls that make new peers, the stream map and the descriptions are the  *)
(* matter of other modules.                                                *)
(***************************************************************************)
EXTENDS Integers, Sequences

CONSTANTS
    Http,           \* the worker threads of the HTTP server
    Peers,          \* peer ids; a detached thread has the name of its peer
    Sig,            \* the signaling thread
    None,           \* no thread
    ExtraHost,      \* m_extraHost is not empty
    Bodies,         \* bodies of trickled candidates, as sequences of lines
    MaxRequests,    \* bound: requests in all
    MaxCallbacks    \* bound: callbacks in all

Thread == Http \cup Peers \cup {Sig}

ASSUME SignalingAssumption ==
    /\ Http \cap Peers = {} /\ Sig \notin Http \cup Peers /\ None \notin Thread
    /\ ExtraHost \in BOOLEAN
    /\ Bodies \subseteq Seq({"candidate", "other"})
    /\ MaxRequests \in Nat /\ MaxCallbacks \in Nat

VARIABLES
    peerMap,        \* keys of m_peer_connectionobs_map
    mutex,          \* holder of m_peerMapMutex, or None
    at,             \* where a thread is; "idle" when it has nothing to do
    peer,           \* the peerid argument of a thread's function
    cursor,         \* the entry a loop over the map has reached
    todo,           \* the entries it has still to visit
    lines,          \* the lines of a body, or the candidate, still to be handled
    got,            \* the candidates a thread has copied for its reply
    observer,       \* state of a peer's observer
    closed,         \* the peers whose PeerConnection is closed
    ice,            \* m_iceCandidateList of an observer
    iceMutex,       \* holder of its m_iceCandidateMutex, or None
    requests, callbacks

threadVars == <<at, peer, cursor, todo, lines, got>>
observerVars == <<observer, closed, ice, iceMutex>>
budget == <<requests, callbacks>>
sigVars == <<peerMap, mutex, threadVars, observerVars, budget>>

SigInit ==
    /\ peerMap \in {{}, Peers}
    /\ mutex = None
    /\ at = [t \in Thread |-> "idle"]
    /\ peer = [t \in Thread |-> None]
    /\ cursor = [t \in Thread |-> None]
    /\ todo = [t \in Thread |-> {}]
    /\ lines = [t \in Thread |-> <<>>]
    /\ got = [t \in Thread |-> <<>>]
    /\ observer = [p \in Peers |-> IF p \in peerMap THEN "alive" ELSE "deleted"]
    /\ closed = Peers \ peerMap
    /\ ice = [p \in Peers |-> <<>>]
    /\ iceMutex = [p \in Peers |-> None]
    /\ requests = 0 /\ callbacks = 0

Goto(t, a) == at' = [at EXCEPT ![t] = a]

\* A step of a thread that changes nothing but its own place.
Move(t, a) ==
    /\ Goto(t, a)
    /\ UNCHANGED <<peerMap, mutex, peer, cursor, todo, lines, got, observerVars, budget>>

Lock(t) == mutex = None /\ mutex' = t

\* A mutant of Unlock: the mutex is kept.
Unlock_Forgotten(t) == mutex' = t

Unlock(t) == mutex' = None

\* A mutant of IceFree: m_iceCandidateMutex is not taken.
IceFree_Unlocked(p) == TRUE

\* m_iceCandidateMutex of the observer can be taken.
IceFree(p) == iceMutex[p] = None

LockIce(t, p) == IceFree(p) /\ iceMutex' = [iceMutex EXCEPT ![p] = t]
UnlockIce(p) == iceMutex' = [iceMutex EXCEPT ![p] = None]

-----------------------------------------------------------------------------
(* The requests: at most MaxRequests in all.                               *)

Begin(t, a, p, ls) ==
    /\ t \in Http /\ at[t] = "idle"
    /\ requests < MaxRequests
    /\ requests' = requests + 1
    /\ Goto(t, a)
    /\ peer' = [peer EXCEPT ![t] = p]
    /\ lines' = [lines EXCEPT ![t] = ls]
    /\ UNCHANGED <<peerMap, mutex, cursor, todo, got, observerVars, callbacks>>

\* The API functions.  addIceCandidate has a body of one line; a whep PATCH may have
\* several, some of which are no candidates that can be parsed.
BeginFunction(t) ==
    \/ \E p \in Peers : \/ \E ls \in Bodies : Begin(t, "line", p, ls)
                       \/ Begin(t, "getIce", p, <<>>)
                       \/ Begin(t, "hangUp", p, <<>>)
    \/ Begin(t, "list", None, <<>>)

-----------------------------------------------------------------------------
(* addIceCandidate and whep PATCH.                                         *)

NextLine(t) ==
    /\ at[t] = "line"
    /\ \/ lines[t] = <<>> /\ Move(t, "return")
       \/ lines[t] # <<>> /\ Head(lines[t]) = "candidate" /\ Move(t, "lockAdd")
       \/ /\ lines[t] # <<>> /\ Head(lines[t]) = "other"
          /\ lines' = [lines EXCEPT ![t] = Tail(@)]
          /\ UNCHANGED <<peerMap, mutex, at, peer, cursor, todo, got, observerVars, budget>>

\* The mutex is kept during AddIceCandidate; without a PeerConnection it is released
\* at once.
LockAdd(t) ==
    /\ at[t] = "lockAdd"
    /\ IF peer[t] \in peerMap
       THEN Lock(t) /\ Goto(t, "callAdd") /\ UNCHANGED lines
       ELSE /\ mutex = None /\ UNCHANGED mutex
            /\ Goto(t, "line") /\ lines' = [lines EXCEPT ![t] = Tail(@)]
    /\ UNCHANGED <<peerMap, peer, cursor, todo, got, observerVars, budget>>

-----------------------------------------------------------------------------
(* getIceCandidateList and getPeerConnectionList.                          *)

\* m_peerMapMutex is kept while the thread waits for the observer's list and copies it.
GetIceCandidateList(t) ==
    /\ at[t] = "getIce"
    /\ IF peer[t] \in peerMap
       THEN Lock(t) /\ Goto(t, "lockCopy")
       ELSE mutex = None /\ UNCHANGED mutex /\ Goto(t, "return")
    /\ UNCHANGED <<peerMap, peer, cursor, todo, lines, got, observerVars, budget>>

LockCopy(t) ==
    /\ at[t] = "lockCopy"
    /\ LockIce(t, peer[t])
    /\ Goto(t, "copy")
    /\ UNCHANGED <<peerMap, mutex, peer, cursor, todo, lines, got, observer, closed, ice, budget>>

CopyList(t) ==
    /\ at[t] = "copy"
    /\ got' = [got EXCEPT ![t] = ice[peer[t]]]
    /\ UnlockIce(peer[t]) /\ Unlock(t)
    /\ Goto(t, "return")
    /\ UNCHANGED <<peerMap, peer, cursor, todo, lines, observer, closed, ice, budget>>

\* The start of a loop over the map, with the mutex.
LockMap(t, from, to) ==
    /\ at[t] = from
    /\ Lock(t)
    /\ todo' = [todo EXCEPT ![t] = peerMap]
    /\ Goto(t, to)
    /\ UNCHANGED <<peerMap, peer, cursor, lines, got, observerVars, budget>>

\* The loop goes on with another entry, or ends and the mutex is released.
NextEntry(t, from, to, end) ==
    /\ at[t] = from
    /\ \/ /\ todo[t] = {}
          /\ Unlock(t) /\ Goto(t, end)
          /\ cursor' = [cursor EXCEPT ![t] = None] /\ UNCHANGED todo
       \/ \E p \in todo[t] :
             /\ cursor' = [cursor EXCEPT ![t] = p]
             /\ todo' = [todo EXCEPT ![t] = @ \ {p}]
             /\ Goto(t, to) /\ UNCHANGED mutex
    /\ UNCHANGED <<peerMap, peer, lines, got, observerVars, budget>>

LockList(t) == LockMap(t, "list", "nextListed")
NextListed(t) == NextEntry(t, "nextListed", "callEntry", "return")

-----------------------------------------------------------------------------
(* hangUp, of a peer with one stream or none.                              *)

\* A mutant of HangUp: the map is changed without the mutex.
HangUp_Unlocked(t) ==
    /\ at[t] = "hangUp"
    /\ peerMap' = peerMap \ {peer[t]}
    /\ Goto(t, IF peer[t] \in peerMap THEN "callSenders" ELSE "return")
    /\ UNCHANGED <<mutex, peer, cursor, todo, lines, got, observerVars, budget>>

HangUp(t) ==
    /\ at[t] = "hangUp"
    /\ mutex = None
    /\ peerMap' = peerMap \ {peer[t]}
    /\ Goto(t, IF peer[t] \in peerMap THEN "callSenders" ELSE "return")
    /\ UNCHANGED <<mutex, peer, cursor, todo, lines, got, observerVars, budget>>

StreamStillUsed(t) == LockMap(t, "lockUsed", "nextUsed")
NextUsed(t) == NextEntry(t, "nextUsed", "callUsed", "callRemove")

\* The end of ~PeerConnectionObserver.
FreeObserver(t) ==
    /\ at[t] = "free"
    /\ observer' = [observer EXCEPT ![peer[t]] = "deleted"]
    /\ Goto(t, "return")
    /\ UNCHANGED <<peerMap, mutex, peer, cursor, todo, lines, got, budget>>
    /\ UNCHANGED <<closed, ice, iceMutex>>

\* A detached thread ends.
Ends(t) == t \notin Http /\ at[t] = "return" /\ Move(t, "idle")

-----------------------------------------------------------------------------
(* The signaling thread serves the blocking calls, one at a time.          *)

Free(t) == at[Sig] = "idle" \/ t = Sig

\* The calls that only read, and what their callers do next.  The calls that
\* getPeerConnectionList makes for one entry count as one.
Reading == [callEntry |-> "nextListed", callUsed |-> "nextUsed", callSenders |-> "lockUsed"]

Calls == DOMAIN Reading \cup {"callAdd", "callRemove", "callClose"}

ServeReading(t) ==
    /\ Free(t)
    /\ at[t] \in DOMAIN Reading
    /\ Move(t, Reading[at[t]])

\* AddIceCandidate, after which the mutex is released.
ServeAdd(t) ==
    /\ Free(t)
    /\ at[t] = "callAdd"
    /\ Unlock(t)
    /\ Goto(t, "line")
    /\ lines' = [lines EXCEPT ![t] = Tail(@)]
    /\ UNCHANGED <<peerMap, peer, cursor, todo, got, observerVars, budget>>

\* RemoveTrackOrError, or GetSenders when there is no sender; ~PeerConnectionObserver then
\* sets m_deleting.
ServeLast(t) ==
    /\ Free(t)
    /\ at[t] \in {"callRemove", "callSenders"}
    /\ observer' = [observer EXCEPT ![peer[t]] = "deleting"]
    /\ Goto(t, "callClose")
    /\ UNCHANGED <<peerMap, mutex, peer, cursor, todo, lines, got, budget>>
    /\ UNCHANGED <<closed, ice, iceMutex>>

\* Close runs OnIceConnectionChange before it returns; m_deleting is set.  No thread can
\* find the observer in the map any more, so none has its list.
ServeClose(t) ==
    /\ Free(t)
    /\ at[t] = "callClose"
    /\ IceFree(peer[t])
    /\ closed' = closed \cup {peer[t]}
    /\ ice' = [ice EXCEPT ![peer[t]] = <<>>]
    /\ Goto(t, "free")
    /\ UNCHANGED <<peerMap, mutex, peer, cursor, todo, lines, got, budget>>
    /\ UNCHANGED <<observer, iceMutex>>

-----------------------------------------------------------------------------
(* Callbacks of an open PeerConnection, on the signaling thread.           *)

Callback(p, a, ls) ==
    /\ at[Sig] = "idle"
    /\ p \notin closed
    /\ callbacks < MaxCallbacks
    /\ callbacks' = callbacks + 1
    /\ Goto(Sig, a)
    /\ peer' = [peer EXCEPT ![Sig] = p]
    /\ lines' = [lines EXCEPT ![Sig] = ls]
    /\ UNCHANGED <<peerMap, mutex, cursor, todo, got, observerVars, requests>>

OnIceCandidate(p) == \E c \in {"host", "reflexive"} : Callback(p, "lockAppend", <<c>>)

\* The candidate is listed, with the mutex of the list, which is kept.
AppendCandidate(t) ==
    /\ at[t] = "lockAppend"
    /\ LockIce(t, peer[t])
    /\ ice' = [ice EXCEPT ![peer[t]] = Append(@, Head(lines[t]))]
    /\ Goto(t, "twin")
    /\ UNCHANGED <<peerMap, mutex, peer, cursor, todo, lines, got, observer, closed, budget>>

\* A host candidate is followed by its twin at m_extraHost.
Twin(c) == IF ExtraHost /\ c = "host" THEN <<"extra">> ELSE <<>>

AppendTwin(t) ==
    /\ at[t] = "twin"
    /\ ice' = [ice EXCEPT ![peer[t]] = @ \o Twin(Head(lines[t]))]
    /\ UnlockIce(peer[t])
    /\ Goto(t, "idle")
    /\ peer' = [peer EXCEPT ![t] = None] /\ lines' = [lines EXCEPT ![t] = <<>>]
    /\ UNCHANGED <<peerMap, mutex, cursor, todo, got, observer, closed, budget>>

\* A mutant of HangUpThread: the callback hangs up itself.
HangUpThread_Inline(p) == Sig

\* The thread that hangs up a failed peer: a new one, detached.
HangUpThread(p) == p

\* The connection failed.  (One detached thread per peer at a time.)
OnIceConnectionChange(p) == at[HangUpThread(p)] = "idle" /\ Callback(p, "lockClear", <<>>)

\* The list is cleared; unless the observer is being deleted its peer is hung up.
ClearList(t) ==
    LET p == peer[t]
        u == HangUpThread(p)
    IN
    /\ at[t] = "lockClear"
    /\ IceFree(p)
    /\ ice' = [ice EXCEPT ![p] = <<>>]
    /\ IF observer[p] = "alive"
       THEN /\ at' = [at EXCEPT ![t] = "idle", ![u] = "hangUp"]
            /\ peer' = [peer EXCEPT ![t] = None, ![u] = p]
       ELSE Goto(t, "idle") /\ peer' = [peer EXCEPT ![t] = None]
    /\ UNCHANGED <<peerMap, mutex, cursor, todo, lines, got, observer, closed, iceMutex, budget>>

-----------------------------------------------------------------------------
\* A step of the function or of the callback that a thread is in.
InFunction(t) ==
    \/ NextLine(t) \/ LockAdd(t)
    \/ GetIceCandidateList(t) \/ LockCopy(t) \/ CopyList(t)
    \/ LockList(t) \/ NextListed(t)
    \/ HangUp(t) \/ StreamStillUsed(t) \/ NextUsed(t) \/ FreeObserver(t)
    \/ AppendCandidate(t) \/ AppendTwin(t) \/ ClearList(t)

\* A blocking call of a thread is served.
Served(t) ==
    ServeReading(t) \/ ServeAdd(t) \/ ServeLast(t) \/ ServeClose(t)

-----------------------------------------------------------------------------
SigTypeOK ==
    /\ peerMap \subseteq Peers /\ closed \subseteq Peers
    /\ mutex \in Thread \cup {None}
    /\ peer \in [Thread -> Peers \cup {None}] /\ cursor \in [Thread -> Peers \cup {None}]
    /\ todo \in [Thread -> SUBSET Peers]
    /\ observer \in [Peers -> {"alive", "deleting", "deleted"}]
    /\ iceMutex \in [Peers -> Thread \cup {None}]

\* Whom a thread waits for: the holder of a mutex, or a busy signaling thread.
Waiting == {"lockAdd", "getIce", "list", "hangUp", "lockUsed"}
WaitingForList == {"lockCopy", "lockAppend", "lockClear"}
Blockers(t) ==
    IF at[t] \in Waiting /\ mutex # None THEN {mutex}
    ELSE IF at[t] \in Calls /\ ~Free(t) THEN {Sig}
    ELSE IF at[t] \in WaitingForList /\ ~IceFree(peer[t]) THEN {iceMutex[peer[t]]} ELSE {}

\* Every chain of waits ends, so there is no circle of threads, of any length, that wait
\* for each other: a thread may wait for the holder of m_peerMapMutex, that one for the
\* signaling thread or for a list of candidates, and the signaling thread for a list in
\* turn, whose holder waits for nobody.  The signaling thread is called with m_peerMapMutex
\* held, so no callback may ever wait for that mutex: this is why OnIceConnectionChange
\* hangs up on a thread of its own.
NoCircularWait ==
    \A t \in Thread : \A u \in Blockers(t) : \A v \in Blockers(u) : Blockers(v) = {}

\* The observers that a loop over the map, an addIceCandidate or a getIceCandidateList is
\* using are alive and their connections open, although other threads hang up at the same
\* time: holding the mutex across the waits keeps hangUp from taking them.  A callback's
\* observer is not deleted before the callback has returned: Close waits for it.
ObserversInUseAreAlive ==
    \A t \in Thread :
        /\ cursor[t] # None => observer[cursor[t]] = "alive" /\ cursor[t] \notin closed
        /\ at[t] \in {"callAdd", "lockCopy", "copy"} => peer[t] \notin closed
        /\ at[t] \in {"lockAppend", "twin", "lockClear"} => observer[peer[t]] # "deleted"

\* A client that is told of a host candidate is told of its twin at --extra-host too,
\* and of no other twins, although the callback lists the two one after the other while
\* requests copy the list.
RepliesListTwins ==
    \A t \in Thread : \A i \in DOMAIN got[t] :
        (got[t][i] = "host" /\ ExtraHost) <=> (i < Len(got[t]) /\ got[t][i + 1] = "extra")
=============================================================================
