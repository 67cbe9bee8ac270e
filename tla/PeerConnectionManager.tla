------------------------ MODULE PeerConnectionManager ------------------------
(***************************************************************************)
(* The two shared maps of src/src/PeerConnectionManager.cpp and every      *)
(* thread that works on them: m_peer_connectionobs_map (peer id to         *)
(* PeerConnectionObserver, guarded by m_peerMapMutex), m_stream_map        *)
(* (stream label to capturer, guarded by m_streamMapMutex), the HTTP       *)
(* threads that run call, whep, createOffer, setAnswer and hangUp, and the *)
(* detached threads that OnIceConnectionChange starts to hang a peer up.   *)
(*                                                                         *)
(* Each action is one critical section, or one call made outside both      *)
(* mutexes; a thread may be overtaken by any other between two of its      *)
(* steps.  What the maps hold is kept exactly.  URLs, options and SDP are  *)
(* abstracted to a label per stream, a source to the observer its request  *)
(* created it for, and the outcome of a negotiation to success or failure. *)
(* The promises behind a negotiation are the subject of SessionPromise.    *)
(***************************************************************************)
EXTENDS Naturals, FiniteSets

CONSTANTS
    Worker,        \* the threads of the HTTP server
    Reaper,        \* the detached hangUp threads that may exist at once
    PeerId,        \* the peer ids that clients send
    Empty,         \* the empty string: no peer to evict, and the id of a call without one
    Label,         \* stream labels, as computed by AddStreams
    Kind,          \* the kinds of media a label may have a source for
    Op,            \* the API functions that clients call
    MaxPc,         \* m_maxpc: the --maxpc option, 0 when it is not given
    MaxObs,        \* bound: PeerConnectionObservers created in a behaviour
    ReusePeerIds   \* may two requests carry the same peer id?

Making == {"call", "whep", "createOffer"}   \* the operations that create an observer
Ops    == Making \cup {"setAnswer", "hangup"}
Thread == Worker \cup Reaper
Obs    == 1..MaxObs
Null   == 0                                  \* the null pointer, and "no map entry"

ASSUME ConstantsAssumption ==
    /\ MaxPc \in Nat
    /\ MaxObs \in Nat
    /\ IsFiniteSet(Kind)
    /\ Worker \cap Reaper = {}
    /\ ReusePeerIds \in BOOLEAN
    /\ Op \subseteq Ops

VARIABLES
    peerMap,     \* m_peer_connectionobs_map: the observer of each peer id, or Null
    streamMap,   \* m_stream_map: who created the sources of each label, or Null
    created,     \* the number of observers created; m_creationTime is their rank
    freed,       \* the observers that have been deleted
    peerOf,      \* PeerConnectionObserver::m_peerid
    hasPc,       \* does m_pc hold a PeerConnection?
    lbl,         \* the stream label of the request that created the observer
    made,        \* the kinds of source that AddStreams created for the observer
    src,         \* the entry whose sources are the observer's senders, or Null
    ice,         \* how far the ICE connection is
    pc,          \* where each thread is
    op,          \* the API function the thread runs, "reap" for a detached thread
    ptr,         \* the PeerConnectionObserver pointer of the thread
    hup,         \* the argument of the hangUp that the thread runs
    todo,        \* the senders that hangUp's loop has not handled yet
    up           \* FALSE once a null or dangling pointer has ended the process

obsVars    == <<created, freed, peerOf, hasPc, lbl, made, src, ice>>
threadVars == <<pc, op, ptr, hup, todo>>
vars       == <<peerMap, streamMap, obsVars, threadVars, up>>

Location ==
    {"idle", "oldest", "create", "discard", "register", "lookup", "insert",
     "attach", "negotiate", "gather", "setremote", "spawned", "find",
     "senders", "check", "erase", "delete"}

\* The types; hangUp's loop never counts below zero.
TypeOK ==
    /\ peerMap \in [PeerId -> Obs \cup {Null}]
    /\ streamMap \in [Label -> Obs \cup {Null}]
    /\ created \in 0..MaxObs
    /\ freed \in SUBSET Obs
    /\ peerOf \in [Obs -> PeerId \cup {Empty}]
    /\ hasPc \in [Obs -> BOOLEAN]
    /\ lbl \in [Obs -> Label \cup {Null}]
    /\ made \in [Obs -> SUBSET Kind]
    /\ src \in [Obs -> Obs \cup {Null}]
    /\ ice \in [Obs -> {"new", "offered", "active", "failed"}]
    /\ pc \in [Thread -> Location]
    /\ op \in [Thread -> Ops \cup {"none", "reap"}]
    /\ ptr \in [Thread -> Obs \cup {Null}]
    /\ hup \in [Thread -> PeerId \cup {Empty}]
    /\ todo \in [Thread -> Nat]
    /\ up \in BOOLEAN

Init ==
    /\ peerMap = [p \in PeerId |-> Null]
    /\ streamMap = [l \in Label |-> Null]
    /\ created = 0
    /\ freed = {}
    /\ peerOf = [o \in Obs |-> Empty]
    /\ hasPc = [o \in Obs |-> FALSE]
    /\ lbl = [o \in Obs |-> Null]
    /\ made = [o \in Obs |-> {}]
    /\ src = [o \in Obs |-> Null]
    /\ ice = [o \in Obs |-> "new"]
    /\ pc = [t \in Thread |-> "idle"]
    /\ op = [t \in Thread |-> "none"]
    /\ ptr = [t \in Thread |-> Null]
    /\ hup = [t \in Thread |-> Empty]
    /\ todo = [t \in Thread |-> 0]
    /\ up = TRUE

-----------------------------------------------------------------------------
(* Control flow of a thread.                                               *)

\* A value of m_peer_connectionobs_map's second field: the observers in the map.
Registered == {peerMap[p] : p \in PeerId} \ {Null}

\* The observers that exist.
Live == (1..created) \ freed

\* Thread t of the running process is about to do step l.
At(t, l) == up /\ pc[t] = l

Goto(t, l) == pc' = [pc EXCEPT ![t] = l]

\* The handler returns and its locals are gone.
Return(t) ==
    /\ Goto(t, "idle")
    /\ op' = [op EXCEPT ![t] = "none"]
    /\ ptr' = [ptr EXCEPT ![t] = Null]
    /\ hup' = [hup EXCEPT ![t] = Empty]
    /\ todo' = [todo EXCEPT ![t] = 0]

\* hangUp returns: to CreatePeerConnection when it evicts the oldest peer, to the
\* HTTP server or to the end of the detached thread otherwise.
HangUpReturns(t) ==
    IF op[t] \in Making
    THEN /\ Goto(t, "create")
         /\ ptr' = [ptr EXCEPT ![t] = Null]
         /\ hup' = [hup EXCEPT ![t] = Empty]
         /\ todo' = [todo EXCEPT ![t] = 0]
         /\ UNCHANGED op
    ELSE Return(t)

\* A null or dangling pointer is used and the process ends.
Crash ==
    /\ up' = FALSE
    /\ UNCHANGED <<peerMap, streamMap, obsVars, threadVars>>

-----------------------------------------------------------------------------
(* Requests.  The bound MaxObs is spent when the request starts, so that a *)
(* request that has started can always create its observer.                *)

\* The requests that have started and will create an observer.
Pending ==
    {t \in Worker : /\ op[t] \in Making
                    /\ pc[t] \in {"oldest", "find", "senders", "check", "erase",
                                  "delete", "create"}}

\* /api/call, /api/whep (POST) and /api/createOffer enter CreatePeerConnection.
StartMaking(t, f) ==
    /\ At(t, "idle")
    /\ created + Cardinality(Pending) < MaxObs
    /\ Goto(t, "oldest")
    /\ op' = [op EXCEPT ![t] = f]
    /\ UNCHANGED <<peerMap, streamMap, obsVars, ptr, hup, todo, up>>

\* /api/hangup and /api/whep (DELETE).
StartHangUp(t, p) ==
    /\ At(t, "idle")
    /\ Goto(t, "find")
    /\ op' = [op EXCEPT ![t] = "hangup"]
    /\ hup' = [hup EXCEPT ![t] = p]
    /\ UNCHANGED <<peerMap, streamMap, obsVars, ptr, todo, up>>

\* /api/setAnswer: the PeerConnection is looked up under m_peerMapMutex.  A
\* reference to it is kept, not the observer, so ptr is not dereferenced later.
SetAnswerLookup(t, p) ==
    /\ At(t, "idle")
    /\ peerMap[p] # Null
    /\ Goto(t, "setremote")
    /\ op' = [op EXCEPT ![t] = "setAnswer"]
    /\ ptr' = [ptr EXCEPT ![t] = peerMap[p]]
    /\ UNCHANGED <<peerMap, streamMap, obsVars, hup, todo, up>>

\* SetRemoteDescription succeeds only on an open connection that made an offer.
SetAnswerApply(t) ==
    /\ At(t, "setremote")
    /\ \/ UNCHANGED ice
       \/ /\ ice[ptr[t]] = "offered"
          /\ ptr[t] \notin freed
          /\ ice' = [ice EXCEPT ![ptr[t]] = "active"]
    /\ Return(t)
    /\ UNCHANGED <<peerMap, streamMap, created, freed, peerOf, hasPc, lbl, made, src, up>>

-----------------------------------------------------------------------------
(* CreatePeerConnection.                                                   *)

\* A mutant of MapIsFull: the limit is compared with > instead of >=.
MapIsFull_OneTooMany == MaxPc > 0 /\ Cardinality(Registered) > MaxPc

MapIsFull == MaxPc > 0 /\ Cardinality(Registered) >= MaxPc

\* getOldestPeerCannection: the peer id of the registered observer that was created
\* first when the map is full, the empty string otherwise.
OldestPeer ==
    IF MapIsFull
    THEN {peerOf[o] : o \in {x \in Registered : \A q \in Registered : x <= q}}
    ELSE {Empty}

\* An oldest peer whose id is empty is not hung up.
GetOldest(t) ==
    /\ At(t, "oldest")
    /\ \E p \in OldestPeer :
          IF p = Empty
          THEN Goto(t, "create") /\ UNCHANGED hup
          ELSE Goto(t, "find") /\ hup' = [hup EXCEPT ![t] = p]
    /\ UNCHANGED <<peerMap, streamMap, obsVars, op, ptr, todo, up>>

\* A mutant of AfterCreate: getAnswer does not test the PeerConnection either.
AfterCreate_Untested(f, ok) == IF f = "createOffer" THEN "lookup" ELSE "register"

\* Where function f goes on with its new observer: createOffer adds the streams
\* first, getAnswer tests for a null PeerConnection and registers.
AfterCreate(f, ok) ==
    CASE f = "createOffer" -> "lookup"
      [] f # "createOffer" /\ ok -> "register"
      [] OTHER -> "discard"

\* The constructor of PeerConnectionObserver; the factory may fail to make a
\* PeerConnection, which getAnswer notices and createOffer does not.  The peer id
\* and the label are the request's arguments, chosen here at their first use.
CreatePeerConnection(t, p, l, ok) ==
    LET o == created + 1 IN
    /\ At(t, "create")
    /\ created < MaxObs
    /\ ReusePeerIds \/ \A q \in 1..created : peerOf[q] # p
    /\ created' = o
    /\ peerOf' = [peerOf EXCEPT ![o] = p]
    /\ hasPc' = [hasPc EXCEPT ![o] = ok]
    /\ lbl' = [lbl EXCEPT ![o] = l]
    /\ ptr' = [ptr EXCEPT ![t] = o]
    /\ Goto(t, AfterCreate(op[t], ok))
    /\ UNCHANGED <<peerMap, streamMap, freed, made, src, ice, op, hup, todo, up>>

\* getAnswer deletes an observer that has no PeerConnection.
Discard(t) ==
    /\ At(t, "discard")
    /\ freed' = freed \cup {ptr[t]}
    /\ Return(t)
    /\ UNCHANGED <<peerMap, streamMap, created, peerOf, hasPc, lbl, made, src, ice, up>>

\* A mutant of InsertPeer: operator[] replaces the entry.
InsertPeer_Replace(o) == [peerMap EXCEPT ![peerOf[o]] = o]

\* std::map::insert leaves an entry that is already there as it is.
InsertPeer(o) ==
    IF peerMap[peerOf[o]] = Null
    THEN [peerMap EXCEPT ![peerOf[o]] = o]
    ELSE peerMap

\* getAnswer registers before AddStreams, createOffer after it.
Register(t) ==
    /\ At(t, "register")
    /\ peerMap' = InsertPeer(ptr[t])
    /\ Goto(t, IF op[t] = "createOffer" THEN "negotiate" ELSE "lookup")
    /\ UNCHANGED <<streamMap, obsVars, op, ptr, hup, todo, up>>

-----------------------------------------------------------------------------
(* AddStreams.                                                             *)

\* needToCreate.  The bitrate option is applied before it, to whatever pointer
\* createOffer passed.
LookupStream(t) ==
    /\ At(t, "lookup")
    /\ \/ /\ Goto(t, IF streamMap[lbl[ptr[t]]] = Null THEN "insert" ELSE "attach")
          /\ UNCHANGED <<peerMap, streamMap, obsVars, op, ptr, hup, todo, up>>
       \/ ~hasPc[ptr[t]] /\ Crash

\* The double-checked insertion: an entry that another thread made in the
\* meantime is kept, and the sources just created are released.
InsertStream(o) ==
    IF streamMap[lbl[o]] = Null
    THEN [streamMap EXCEPT ![lbl[o]] = o]
    ELSE streamMap

\* Sources of kinds ks could be created (ks may be empty), then the pair goes to
\* the map: a pair of null sources too.
CreateSources(t, ks) ==
    /\ At(t, "insert")
    /\ made' = [made EXCEPT ![ptr[t]] = ks]
    /\ streamMap' = InsertStream(ptr[t])
    /\ Goto(t, "attach")
    /\ UNCHANGED <<peerMap, created, freed, peerOf, hasPc, lbl, src, ice, op, ptr, hup,
                   todo, up>>

\* A mutant of AttachableSources: the null test of the sources is missing.
AttachableSources_NullToo(e) == IF e = Null THEN {} ELSE Kind

\* The sources of entry e of the map that AddStreams makes tracks of.
AttachableSources(e) == IF e = Null THEN {} ELSE made[e]

\* One AddTrack per source of the entry, under m_streamMapMutex.  All senders of a
\* connection carry the same label, so the two AddTrack calls are one step.  AddTrack
\* fails on a connection that ~PeerConnectionObserver has closed.  When AddStreams
\* fails, getAnswer leaves the observer registered and createOffer forgets it.
AttachTracks(t) ==
    LET o == ptr[t]
        e == streamMap[lbl[o]]
        sources == AttachableSources(e)
    IN
    /\ At(t, "attach")
    /\ IF sources # {} /\ ~hasPc[o]
       THEN Crash
       ELSE /\ IF sources # {} /\ o \notin freed
               THEN /\ src' = [src EXCEPT ![o] = e]
                    /\ Goto(t, IF op[t] = "createOffer" THEN "register" ELSE "negotiate")
                    /\ UNCHANGED <<op, ptr, hup, todo>>
               ELSE /\ Return(t)
                    /\ UNCHANGED src
            /\ UNCHANGED <<peerMap, streamMap, created, freed, peerOf, hasPc, lbl, made,
                           ice, up>>

-----------------------------------------------------------------------------
(* Negotiation and ICE.                                                    *)

\* CreateOffer, or SetRemoteDescription and CreateAnswer, through a reference to
\* the PeerConnection; both fail on a closed one.
Negotiate(t) ==
    /\ At(t, "negotiate")
    /\ \/ UNCHANGED ice
       \/ /\ ptr[t] \notin freed
          /\ ice' = [ice EXCEPT ![ptr[t]] =
                       IF op[t] = "createOffer" THEN "offered" ELSE "active"]
    /\ IF op[t] = "whep"
       THEN Goto(t, "gather") /\ UNCHANGED <<op, ptr, hup, todo>>
       ELSE Return(t)
    /\ UNCHANGED <<peerMap, streamMap, created, freed, peerOf, hasPc, lbl, made, src, up>>

\* whep's waiting loop reads m_gatheringState through the observer pointer, which
\* hangUp may have deleted: then the read returns anything or ends the process.
WaitGathering(t) ==
    /\ At(t, "gather")
    /\ \/ Return(t) /\ UNCHANGED <<peerMap, streamMap, obsVars, up>>
       \/ ptr[t] \in freed /\ Crash

\* A mutant of OnIceConnectionChange: the failure is only logged.
OnIceConnectionChange_LogOnly(o, r) ==
    /\ o \in Live
    /\ ice[o] = "active"
    /\ At(r, "idle")
    /\ ice' = [ice EXCEPT ![o] = "failed"]
    /\ UNCHANGED <<peerMap, streamMap, created, freed, peerOf, hasPc, lbl, made, src,
                   threadVars, up>>

\* Another one: any trouble of an active connection starts a thread, so that one
\* observer may start several.
OnIceConnectionChange_EveryTrouble(o, r) ==
    /\ o \in Live
    /\ ice[o] = "active"
    /\ At(r, "idle")
    /\ Goto(r, "spawned")
    /\ op' = [op EXCEPT ![r] = "reap"]
    /\ ptr' = [ptr EXCEPT ![r] = o]
    /\ UNCHANGED <<peerMap, streamMap, obsVars, hup, todo, up>>

\* OnIceConnectionChange(failed) on the signaling thread: a detached thread is
\* started that captured the observer.  An observer being deleted has m_deleting
\* set before Close, so closing it starts no thread.
OnIceConnectionChange(o, r) ==
    /\ o \in Live
    /\ ice[o] = "active"
    /\ At(r, "idle")
    /\ ice' = [ice EXCEPT ![o] = "failed"]
    /\ Goto(r, "spawned")
    /\ op' = [op EXCEPT ![r] = "reap"]
    /\ ptr' = [ptr EXCEPT ![r] = o]
    /\ UNCHANGED <<peerMap, streamMap, created, freed, peerOf, hasPc, lbl, made, src, hup,
                   todo, up>>

\* The detached thread reads m_peerConnectionManager and m_peerid of the observer
\* it captured.  If that one has been deleted the reads return anything.
ReaperRuns(r) ==
    /\ At(r, "spawned")
    /\ \/ /\ \E p \in PeerId :
                /\ ptr[r] \in freed \/ p = peerOf[ptr[r]]
                /\ hup' = [hup EXCEPT ![r] = p]
          /\ Goto(r, "find")
          /\ ptr' = [ptr EXCEPT ![r] = Null]
          /\ UNCHANGED <<peerMap, streamMap, obsVars, op, todo, up>>
       \/ ptr[r] \in freed /\ Crash

-----------------------------------------------------------------------------
(* hangUp.                                                                 *)

\* A mutant of HangUpFind: the entry stays in the map.
HangUpFind_KeepEntry(t) ==
    /\ At(t, "find")
    /\ IF peerMap[hup[t]] = Null
       THEN HangUpReturns(t)
       ELSE /\ ptr' = [ptr EXCEPT ![t] = peerMap[hup[t]]]
            /\ Goto(t, "senders")
            /\ UNCHANGED <<op, hup, todo>>
    /\ UNCHANGED <<peerMap, streamMap, obsVars, up>>

\* The entry is found and erased under m_peerMapMutex; the observer now belongs to
\* this thread alone.
HangUpFind(t) ==
    /\ At(t, "find")
    /\ IF peerMap[hup[t]] = Null
       THEN HangUpReturns(t) /\ UNCHANGED peerMap
       ELSE /\ ptr' = [ptr EXCEPT ![t] = peerMap[hup[t]]]
            /\ peerMap' = [peerMap EXCEPT ![hup[t]] = Null]
            /\ Goto(t, "senders")
            /\ UNCHANGED <<op, hup, todo>>
    /\ UNCHANGED <<streamMap, obsVars, up>>

\* GetSenders: a sender for every track attached so far.
HangUpSenders(t) ==
    LET o == ptr[t]
        n == IF src[o] = Null THEN 0 ELSE Cardinality(made[src[o]])
    IN
    /\ At(t, "senders")
    /\ todo' = [todo EXCEPT ![t] = n]
    /\ Goto(t, IF n = 0 THEN "delete" ELSE "check")
    /\ UNCHANGED <<peerMap, streamMap, obsVars, op, ptr, hup, up>>

\* Mutants of StreamStillUsed: observers that left the map count too, and none does.
StreamStillUsed_AnyLive(l) == \E o \in Live : src[o] # Null /\ lbl[o] = l
StreamStillUsed_Never(l) == FALSE

\* streamStillUsed: some registered observer has a sender with the label.  The scan
\* runs under m_peerMapMutex.
StreamStillUsed(l) == \E o \in Registered : src[o] # Null /\ lbl[o] = l

\* RemoveTrack, and the loop goes on with the next sender or ends.
NextSender(t) ==
    /\ todo' = [todo EXCEPT ![t] = @ - 1]
    /\ Goto(t, IF todo[t] = 1 THEN "delete" ELSE "check")

\* One round of the loop when the stream is still used: only RemoveTrack.
HangUpCheck(t) ==
    /\ At(t, "check")
    /\ IF StreamStillUsed(lbl[ptr[t]])
       THEN NextSender(t)
       ELSE /\ Goto(t, "erase")
            /\ UNCHANGED todo
    /\ UNCHANGED <<peerMap, streamMap, obsVars, op, ptr, hup, up>>

\* The other one: the entry is erased under m_streamMapMutex, taken only now, so
\* the answer of streamStillUsed may be old; then RemoveTrack.
HangUpErase(t) ==
    /\ At(t, "erase")
    /\ streamMap' = [streamMap EXCEPT ![lbl[ptr[t]]] = Null]
    /\ NextSender(t)
    /\ UNCHANGED <<peerMap, obsVars, op, ptr, hup, up>>

HangUpDelete(t) ==
    /\ At(t, "delete")
    /\ freed' = freed \cup {ptr[t]}
    /\ HangUpReturns(t)
    /\ UNCHANGED <<peerMap, streamMap, created, peerOf, hasPc, lbl, made, src, ice, up>>

-----------------------------------------------------------------------------
\* A client's request reaches an idle HTTP thread.
Request(t) ==
    \/ \E f \in Op \cap Making : StartMaking(t, f)
    \/ \E p \in PeerId : /\ "hangup" \in Op
                         /\ StartHangUp(t, p)
    \/ \E p \in PeerId : /\ "setAnswer" \in Op
                         /\ SetAnswerLookup(t, p)

\* The next step of a request that an HTTP thread has begun, hangUp left out.
Handle(t) ==
    \/ GetOldest(t)
    \/ \E p \in PeerId, l \in Label, ok \in BOOLEAN : CreatePeerConnection(t, p, l, ok)
    \/ Discard(t)
    \/ Register(t)
    \/ LookupStream(t)
    \/ \E ks \in SUBSET Kind : CreateSources(t, ks)
    \/ AttachTracks(t)
    \/ Negotiate(t)
    \/ WaitGathering(t)
    \/ SetAnswerApply(t)

HangUp(t) ==
    \/ HangUpFind(t)
    \/ HangUpSenders(t)
    \/ HangUpCheck(t)
    \/ HangUpErase(t)
    \/ HangUpDelete(t)

\* A process that has crashed does nothing.
Crashed == ~up /\ UNCHANGED vars

Next ==
    \/ \E t \in Worker : Request(t) \/ Handle(t)
    \/ \E r \in Reaper : ReaperRuns(r) \/ \E o \in Obs : OnIceConnectionChange(o, r)
    \/ \E t \in Thread : HangUp(t)
    \/ Crashed

\* A thread that has work goes on with it: the waits of a negotiation end after five
\* seconds, the gathering loop after five rounds, and no mutex is held across a step.
\* Nothing makes a client send a request or an ICE connection fail.
Fairness ==
    /\ \A t \in Worker : WF_vars(Handle(t) \/ HangUp(t))
    /\ \A r \in Reaper : WF_vars(ReaperRuns(r) \/ HangUp(r))

Spec     == Init /\ [][Next]_vars
FairSpec == Spec /\ Fairness

-----------------------------------------------------------------------------
(* Ownership of observers.                                                 *)

HangingUp == {"senders", "check", "erase", "delete"}

\* The thread holds the only pointer to an observer that is not in the map.
Owns(t) ==
    \/ pc[t] \in HangingUp \cup {"discard", "register"}
    \/ op[t] = "createOffer" /\ pc[t] \in {"lookup", "insert", "attach"}

\* Where ObserverOwnership sees an observer.
OwnerOf(o) ==
    IF o > created THEN "unborn"
    ELSE IF o \in freed THEN "deleted"
    ELSE IF o \in Registered THEN "map"
    ELSE IF \E t \in Thread : Owns(t) /\ ptr[t] = o
         THEN CHOOSE t \in Thread : Owns(t) /\ ptr[t] = o
         ELSE "lost"

Ownership == INSTANCE ObserverOwnership
             WITH slot <- peerMap, owner <- [o \in Obs |-> OwnerOf(o)]

\* Whatever the threads do, each observer is created, published, taken and deleted
\* as ObserverOwnership says: hangUp erases the entry under the lock before it
\* touches the observer, so two hangUps of a peer never delete it twice.
ImplementsOwnership == Ownership!Spec

\* Every pointer in the map is to an observer that has not been deleted, that has
\* a PeerConnection (streamStillUsed, hangUp and getIceCandidateList do not test
\* for null) and that is filed under its own peer id (which getOldestPeerCannection
\* relies on to find the key from the observer).
RegisteredObservers ==
    \A p \in PeerId : peerMap[p] # Null =>
        /\ peerMap[p] \in Live
        /\ hasPc[peerMap[p]]
        /\ peerOf[peerMap[p]] = p

\* A thread that is about to delete or publish an observer is the only one that
\* holds it: it is not deleted, not in the map, and no other such thread has it.
\* The observers that hangUp works on have a PeerConnection.
ExclusiveOwnership ==
    \A t \in Thread : Owns(t) =>
        /\ ptr[t] \in Live \ Registered
        /\ pc[t] \in HangingUp => hasPc[ptr[t]]
        /\ \A u \in Thread \ {t} : Owns(u) => ptr[u] # ptr[t]

-----------------------------------------------------------------------------
(* Streams.                                                                *)

\* A sender's source was created for the sender's own label and really exists, even
\* when the entry it came from has been erased and made again since.
SendersHaveSources ==
    \A o \in 1..created : src[o] # Null =>
        /\ src[o] \in 1..created
        /\ lbl[src[o]] = lbl[o]
        /\ made[src[o]] # {}

Quiet == \A t \in Thread : pc[t] = "idle"

\* A detached hangUp thread still finds the observer that started it.
DetachedThreadsFindObserver ==
    \A r \in Reaper : pc[r] = "spawned" => ptr[r] \in Live

\* Once no request and no hangUp is running, a capturer that runs (an entry with a
\* source) has a registered viewer: whatever the order in which the last viewers of
\* a stream left, one of their hangUps erased the entry.
CapturersAreWatched ==
    Quiet /\ up =>
        \A l \in Label : streamMap[l] # Null /\ made[streamMap[l]] # {} =>
            \E o \in Registered : lbl[o] = l /\ src[o] # Null

\* All registered viewers of a stream share the source of its entry, so a camera is
\* opened once.
OneSourcePerStream ==
    \A o, q \in Registered :
        src[o] # Null /\ src[q] # Null /\ lbl[o] = lbl[q] => src[o] = src[q]

\* The thread is attaching a viewer to a stream, or registers one that is attached.
Joins(t) == pc[t] = "attach" \/ (pc[t] = "register" /\ src[ptr[t]] # Null)

\* Nobody joins a stream whose entry a hangUp is about to erase.
ErasuresAreCurrent ==
    \A t, u \in Thread : pc[t] = "erase" /\ Joins(u) => lbl[ptr[u]] # lbl[ptr[t]]

\* A camera is opened once for all registered viewers, however requests and hangUps
\* interleave, as long as nobody joins the stream between the answer of streamStillUsed
\* and the erasure that follows it: nothing else makes a second source.
SourcesAreShared == []ErasuresAreCurrent => []OneSourcePerStream

-----------------------------------------------------------------------------
(* Limits and progress.                                                    *)

\* --maxpc is the number of peer connections the server keeps.
MaxPcRespected == MaxPc > 0 => Cardinality(Registered) <= MaxPc

\* The thread has room for the observer it is going to register.
Reserves(t) == op[t] \in Making /\ (pc[t] = "create" \/ Owns(t))

\* The thread is going to evict a peer to make room.
Evicts(t) == op[t] \in Making /\ pc[t] = "find"

\* At most one request is between the test of the map's size and the registration of
\* its observer.
OneMakesRoom ==
    \A t, u \in Thread :
        (Reserves(t) \/ Evicts(t)) /\ (Reserves(u) \/ Evicts(u)) => t = u

\* The peer to evict has a name.  A call without the peerid parameter is filed under the
\* empty string, which CreatePeerConnection takes for "no peer": while it is the oldest,
\* nobody is evicted and the map grows.
OldestIsNamed == MapIsFull => Empty \notin OldestPeer

\* The server keeps at most --maxpc connections, whatever the threads do, unless two
\* requests make room at the same time or the oldest peer is the unnamed one: these two
\* are the only ways past the limit.
LimitHolds == []OneMakesRoom /\ []OldestIsNamed => []MaxPcRespected

\* A call that was hung up is closed: no undeleted observer of a peer id is left when
\* its hangUp has returned and nothing else is running.
HangUpClosesCall ==
    [][\A t \in Worker :
          /\ op[t] = "hangup" /\ pc[t] = "delete" /\ pc'[t] = "idle"
          /\ \A u \in Thread \ {t} : pc[u] = "idle"
          => \A o \in Live' : peerOf[o] # hup[t]]_vars

\* A registered peer whose ICE connection failed leaves the map.
FailedPeersAreReaped ==
    \A o \in Obs : ice[o] = "failed" /\ o \in Registered ~> o \notin Registered \/ ~up
=============================================================================
