-------------------------- MODULE HttpServer_proofs --------------------------
(***************************************************************************)
(* Proofs about HttpServer and Signaling, for any number of HTTP threads,  *)
(* WebSocket connections, peers, requests and callbacks.                   *)
(*                                                                         *)
(* The argument has two layers.  SigInv is about the mutexes, the map, the *)
(* observers and their lists of candidates, whatever the program around    *)
(* them does; ShutdownInv is about the order in which main and the signal  *)
(* handler take the program down.                                          *)
(***************************************************************************)
EXTENDS HttpServer, TLAPS

Places ==
    {"idle", "line", "lockAdd", "callAdd", "getIce", "lockCopy", "copy", "list", "nextListed",
     "callEntry", "hangUp", "callSenders", "lockUsed", "nextUsed", "callUsed", "callRemove",
     "callClose", "free", "return", "lockAppend", "twin", "lockClear"}

\* The loops over the map, and all the places with the mutex held.
Looping == {"nextListed", "callEntry", "nextUsed", "callUsed"}
Holding == Looping \cup {"callAdd", "lockCopy", "copy"}

\* The places of the callbacks.
Called == {"lockAppend", "twin", "lockClear"}

\* The places of hangUp behind the critical section that takes the peer from the map.
Leaving ==
    {"callSenders", "lockUsed", "nextUsed", "callUsed", "callRemove", "callClose", "free"}

Candidates == {"host", "reflexive", "extra"}

SigTypes ==
    /\ SigTypeOK
    /\ at \in [Thread -> Places]
    /\ ice \in [Peers -> Seq(Candidates)]
    /\ got \in [Thread -> Seq(Candidates)]
    /\ DOMAIN lines = Thread

\* m_peerMapMutex is held exactly in the critical sections, and never by the signaling
\* thread, which runs the callbacks and no API function.
MutexInv ==
    /\ at[Sig] \in Called \cup {"idle"}
    /\ \A t \in Thread : mutex = t <=> at[t] \in Holding
    /\ \A t \in Thread : at[t] \in Called => t = Sig

\* A loop only has entries of the map, which has not changed since it began; and a thread
\* is about to use the observer of its own peer in one of two ways: it found it in the
\* map, or it took it from there.
LoopInv ==
    \A t \in Thread :
        /\ todo[t] \subseteq peerMap
        /\ todo[t] # {} => at[t] \in Looping
        /\ cursor[t] # None => cursor[t] \in peerMap /\ at[t] \in Looping
        /\ at[t] \in {"callAdd", "lockCopy", "copy"} => peer[t] \in peerMap
        /\ at[t] \in Leaving => peer[t] \in Peers \ peerMap

\* Only what was taken from the map is closed and deleted.
MapInv == \A p \in peerMap : observer[p] = "alive" /\ p \notin closed

\* A list is locked exactly while it is copied and between a candidate and its twin.  The
\* observer of a callback is still there: it is deleted only when its connection is closed,
\* and Close waits for the callback.
ListInv ==
    /\ \A t \in Thread, p \in Peers : iceMutex[p] = t <=> at[t] \in {"copy", "twin"} /\ peer[t] = p
    /\ at[Sig] \in Called => peer[Sig] \in Peers \ closed
    /\ at[Sig] \in {"lockAppend", "twin"} => \E c \in {"host", "reflexive"} : lines[Sig] = <<c>>
    /\ at[Sig] = "lockClear" => at[peer[Sig]] = "idle"
    /\ \A t \in Thread : at[t] = "free" => peer[t] \in closed
    /\ \A p \in Peers : observer[p] = "deleted" => p \in closed

\* Each host candidate in a list is followed by its twin, when there is an extra host.
Twins(s) ==
    \A i \in DOMAIN s : (s[i] = "host" /\ ExtraHost) <=> (i < Len(s) /\ s[i + 1] = "extra")

\* The list that a callback has locked gets its twin in the callback's next step.
TwinsInv ==
    /\ \A p \in Peers : ~(at[Sig] = "twin" /\ peer[Sig] = p) => Twins(ice[p])
    /\ at[Sig] = "twin" => Twins(ice[peer[Sig]] \o Twin(Head(lines[Sig])))
    /\ \A t \in Thread : Twins(got[t])

SigInv == SigTypes /\ MutexInv /\ LoopInv /\ MapInv /\ ListInv /\ TwinsInv

\* What main has set up so far, and that nothing runs beside an undisturbed shutdown but
\* answers on WebSockets.
ShutdownInv ==
    /\ process = "undefined" => Disturbed
    /\ Up =>
        /\ main \in {"start", "initialize", "listen", "register", "run", "dying", "quit",
                     "stop", "cleanup"}
        /\ main \in {"start", "initialize", "listen", "register"} => handlers = "none"
        /\ main \in {"initialize", "listen", "register", "run"} => manager = "alive"
        /\ main = "run" => handlers = "registered"
        /\ main \in {"quit", "stop"} => ~pointer
        /\ handlers = "none" => \A t \in Thread : at[t] = "idle"
        /\ main \in {"dying", "quit", "stop", "cleanup"} /\ overlap = "nothing"
              => \A t \in Thread : ~Needy(t)

Inv == SigInv /\ ShutdownInv

-----------------------------------------------------------------------------
(* The lists of candidates.                                                *)

\* A candidate and then its twin keep a list of candidates with their twins.
LEMMA TwinKeepsTwins ==
    ASSUME NEW s \in Seq(Candidates), Twins(s), NEW c \in {"host", "reflexive"}
    PROVE  /\ Append(s, c) \in Seq(Candidates)
           /\ Append(s, c) \o Twin(c) \in Seq(Candidates)
           /\ Twins(Append(s, c) \o Twin(c))
<1> USE DEF Candidates
<1>1. ExtraHost \in BOOLEAN
    BY SignalingAssumption
<1>2. CASE ExtraHost /\ c = "host"
    <2>1. Twin(c) = <<"extra">>
        BY <1>2 DEF Twin
    <2> DEFINE new == Append(s, "host") \o <<"extra">>
    <2>2. /\ new \in Seq(Candidates) /\ Append(s, c) \in Seq(Candidates)
          /\ Len(new) = Len(s) + 2 /\ DOMAIN new = 1..Len(s) + 2 /\ DOMAIN s = 1..Len(s)
          /\ new[Len(s) + 1] = "host" /\ new[Len(s) + 2] = "extra"
          /\ \A i \in 1..Len(s) : new[i] = s[i]
          /\ Len(s) \in Nat
        BY <1>2
    <2> HIDE DEF new
    <2>3. ASSUME NEW i \in DOMAIN new
          PROVE  (new[i] = "host" /\ ExtraHost) <=> (i < Len(new) /\ new[i + 1] = "extra")
        <3>1. CASE i \in 1..Len(s) - 1
            BY <1>2, <2>2, <3>1 DEF Twins
        <3>2. CASE i = Len(s)
            <4>1. i \in DOMAIN s /\ ~(i < Len(s)) /\ new[i] = s[i] /\ new[i + 1] = "host"
                BY <2>2, <3>2
            <4>2. ~(s[i] = "host" /\ ExtraHost)
                BY <4>1 DEF Twins
            <4> QED
                BY <4>1, <4>2
        <3>3. CASE i = Len(s) + 1 \/ i = Len(s) + 2
            BY <1>2, <2>2, <3>3
        <3> QED
            BY <2>2, <3>1, <3>2, <3>3
    <2>4. Twins(new)
        BY <2>3 DEF Twins
    <2> QED
        BY <1>2, <2>1, <2>2, <2>4 DEF new
<1>3. CASE ~(ExtraHost /\ c = "host")
    <2>1. Twin(c) = <<>>
        BY <1>3 DEF Twin
    <2>2. Append(s, c) \o <<>> = Append(s, c)
        OBVIOUS
    <2>3. Twins(Append(s, c))
        BY <1>3 DEF Twins
    <2> QED
        BY <2>1, <2>2, <2>3
<1> QED
    BY <1>2, <1>3

\* The empty list has nothing without a twin.
LEMMA EmptyTwins == <<>> \in Seq(Candidates) /\ Twins(<<>>)
    BY DEF Twins

-----------------------------------------------------------------------------
(* The mutex, the map and the observers.                                   *)

\* The threads have different names, and None is nobody's.
LEMMA Names ==
    /\ Sig \in Thread /\ None \notin Thread /\ Sig \notin Peers /\ Sig \notin Http
    /\ Http \subseteq Thread /\ Peers \subseteq Thread /\ None \notin Peers
    BY SignalingAssumption DEF Thread

\* SigInv is about the variables of Signaling.
LEMMA SigStutter == ASSUME SigInv, UNCHANGED sigVars PROVE SigInv'
<1> USE DEF SigInv, sigVars, threadVars, observerVars
<1>1. SigTypes' /\ MutexInv' /\ LoopInv' /\ MapInv'
    BY DEF SigTypes, SigTypeOK, MutexInv, LoopInv, MapInv
<1>2. ListInv'
    BY DEF ListInv
<1>3. TwinsInv'
    BY DEF TwinsInv, Twins
<1> QED
    BY <1>1, <1>2, <1>3

\* A step of a thread outside the critical sections of the lists, from one such place to
\* another, leaves the lists and the callbacks alone.
LEMMA ListsKept ==
    ASSUME SigInv, NEW t \in Thread \ {Sig}, at[t] # "copy", at[t] = "idle" => t \notin Peers,
           NEW a \in Places \ (Called \cup {"copy", "free"}), Goto(t, a),
           \A u \in Thread \ {t} : peer'[u] = peer[u],
           lines'[Sig] = lines[Sig], UNCHANGED <<ice, iceMutex, closed>>,
           \A p \in Peers : observer'[p] = "deleted" => p \in closed,
           \A u \in Thread : Twins(got'[u])
    PROVE  ListInv' /\ TwinsInv'
<1> USE Names DEF SigInv, Goto
<1>1. at \in [Thread -> Places] /\ at' = [at EXCEPT ![t] = a]
    BY DEF SigTypes
<1>2. at[t] \notin Called
    BY DEF MutexInv
<1>3. at'[Sig] = at[Sig] /\ peer'[Sig] = peer[Sig] /\ \A u \in Thread \ {t} : at'[u] = at[u]
    BY <1>1
<1>4. at[Sig] = "lockClear" => at'[peer[Sig]] = "idle"
    BY <1>1 DEF ListInv, Called
<1>5. ListInv'
    <2>1. ASSUME NEW u \in Thread, NEW p \in Peers
          PROVE  iceMutex'[p] = u <=> at'[u] \in {"copy", "twin"} /\ peer'[u] = p
        BY <1>1, <1>2, <1>3, <2>1 DEF ListInv, Called
    <2>2. ASSUME NEW u \in Thread, at'[u] = "free" PROVE peer'[u] \in closed'
        BY <1>1, <1>3, <2>2 DEF ListInv
    <2> QED
        BY <1>3, <1>4, <2>1, <2>2 DEF ListInv
<1>6. TwinsInv'
    BY <1>3 DEF TwinsInv
<1> QED
    BY <1>5, <1>6

\* A request keeps SigInv: it begins with nothing locked and nothing taken.
LEMMA SigBegin ==
    ASSUME SigInv, NEW t \in Http, NEW a \in {"line", "getIce", "hangUp", "list", "return"},
           NEW p \in Peers \cup {None}, NEW ls, Begin(t, a, p, ls)
    PROVE  SigInv'
<1> USE Names DEF SigInv, Begin, Goto, observerVars
<1>1. SigTypes'
    BY DEF SigTypes, SigTypeOK, Places
<1>2. MutexInv' /\ LoopInv'
    BY DEF MutexInv, LoopInv, SigTypes, SigTypeOK, Holding, Looping, Leaving, Called
<1>3. MapInv'
    BY DEF MapInv
<1>4. ListInv' /\ TwinsInv'
    <2>1. t \in Thread \ {Sig} /\ at[t] = "idle" /\ t \notin Peers
        BY SignalingAssumption
    <2>2. a \in Places \ (Called \cup {"copy", "free"})
        BY DEF Places, Called
    <2>3. /\ \A u \in Thread \ {t} : peer'[u] = peer[u]
          /\ lines'[Sig] = lines[Sig]
        BY <2>1 DEF SigTypes, SigTypeOK
    <2>4. /\ \A x \in Peers : observer'[x] = "deleted" => x \in closed
          /\ \A u \in Thread : Twins(got'[u])
        BY DEF ListInv, TwinsInv
    <2> QED
        BY <2>1, <2>2, <2>3, <2>4, ListsKept
<1> QED
    BY <1>1, <1>2, <1>3, <1>4

\* getIceCandidateList keeps SigInv: with the mutex of the list it meets no callback there.
LEMMA SigCopy == ASSUME SigInv, NEW t \in Thread, LockCopy(t) \/ CopyList(t) PROVE SigInv'
<1> USE Names DEF SigInv, Goto, Unlock, LockIce, UnlockIce, IceFree, budget
<1>1. at[t] \in {"lockCopy", "copy"} /\ peer[t] \in peerMap /\ peer[t] \in Peers /\ t # Sig
    BY DEF LockCopy, CopyList, LoopInv, MutexInv, Called, SigTypes, SigTypeOK
<1>2. CASE LockCopy(t)
    <2>1. SigTypes'
        BY <1>2, <1>1 DEF LockCopy, SigTypes, SigTypeOK, Places
    <2>2. MutexInv' /\ LoopInv' /\ MapInv'
        BY <1>2, <1>1 DEF LockCopy, MutexInv, LoopInv, MapInv, SigTypes, SigTypeOK, Holding,
                          Looping, Leaving, Called
    <2>3. ListInv'
        BY <1>2, <1>1 DEF LockCopy, ListInv, SigTypes, SigTypeOK, Called
    <2>4. TwinsInv'
        BY <1>2, <1>1 DEF LockCopy, TwinsInv, SigTypes
    <2> QED
        BY <2>1, <2>2, <2>3, <2>4
<1>3. CASE CopyList(t)
    <2>1. ~(at[Sig] = "twin" /\ peer[Sig] = peer[t])
        BY <1>1, <1>3 DEF CopyList, ListInv
    <2>2. Twins(ice[peer[t]]) /\ ice[peer[t]] \in Seq(Candidates)
        BY <1>1, <2>1 DEF TwinsInv, SigTypes
    <2>3. SigTypes'
        BY <1>3, <1>1, <2>2 DEF CopyList, SigTypes, SigTypeOK, Places
    <2>4. MutexInv' /\ LoopInv' /\ MapInv'
        BY <1>3, <1>1 DEF CopyList, MutexInv, LoopInv, MapInv, SigTypes, SigTypeOK, Holding,
                          Looping, Leaving, Called
    <2>5. ListInv'
        BY <1>3, <1>1 DEF CopyList, ListInv, SigTypes, SigTypeOK, Called
    <2>6. TwinsInv'
        BY <1>3, <1>1, <2>2 DEF CopyList, TwinsInv, SigTypes
    <2> QED
        BY <2>3, <2>4, <2>5, <2>6
<1> QED
    BY <1>2, <1>3

\* The callbacks keep SigInv: the list is locked between a candidate and its twin, and the
\* thread that hangs up is a new one.
LEMMA SigCalled ==
    ASSUME SigInv, NEW t \in Thread, AppendCandidate(t) \/ AppendTwin(t) \/ ClearList(t)
    PROVE  SigInv'
<1> USE Names DEF SigInv, Goto, LockIce, UnlockIce, IceFree, budget
<1>1. t = Sig
    BY DEF AppendCandidate, AppendTwin, ClearList, MutexInv, Called
<1> DEFINE p == peer[Sig]
<1>2. p \in Peers /\ p \in Thread /\ p # Sig
    BY <1>1 DEF AppendCandidate, AppendTwin, ClearList, ListInv, Called
<1>3. CASE AppendCandidate(t)
    <2>1. PICK c \in {"host", "reflexive"} : lines[Sig] = <<c>>
        BY <1>1, <1>3 DEF AppendCandidate, ListInv
    <2>2. Head(lines[Sig]) = c
        BY <2>1
    <2>3. ice[p] \in Seq(Candidates) /\ Twins(ice[p])
        BY <1>1, <1>2, <1>3 DEF AppendCandidate, SigTypes, TwinsInv
    <2>4. Append(ice[p], c) \in Seq(Candidates) /\ Twins(Append(ice[p], c) \o Twin(c))
        BY <2>3, TwinKeepsTwins
    <2>5. ice' = [ice EXCEPT ![p] = Append(ice[p], c)]
        BY <1>1, <1>3, <2>2 DEF AppendCandidate
    <2>6. SigTypes'
        BY <1>1, <1>2, <1>3, <2>4, <2>5 DEF AppendCandidate, SigTypes, SigTypeOK, Places
    <2>7. MutexInv' /\ LoopInv' /\ MapInv'
        BY <1>1, <1>3 DEF AppendCandidate, MutexInv, LoopInv, MapInv, SigTypes, SigTypeOK,
                          Holding, Looping, Leaving, Called
    <2>8. ListInv'
        BY <1>1, <1>2, <1>3 DEF AppendCandidate, ListInv, SigTypes, SigTypeOK, Called
    <2>9. TwinsInv'
        <3>1. at'[Sig] = "twin" /\ peer' = peer /\ lines' = lines /\ got' = got
            BY <1>1, <1>3 DEF AppendCandidate, SigTypes
        <3>2. ice'[p] = Append(ice[p], c) /\ \A x \in Peers \ {p} : ice'[x] = ice[x]
            BY <1>2, <2>5 DEF SigTypes
        <3>3. \A x \in Peers : Twins(ice[x])
            BY <1>1, <1>3 DEF AppendCandidate, TwinsInv
        <3> QED
            BY <2>2, <2>4, <3>1, <3>2, <3>3 DEF TwinsInv
    <2> QED
        BY <2>6, <2>7, <2>8, <2>9
<1>4. CASE AppendTwin(t)
    <2> DEFINE new == ice[p] \o Twin(Head(lines[Sig]))
    <2>1. Twins(new) /\ ice' = [ice EXCEPT ![p] = new]
        BY <1>1, <1>4 DEF AppendTwin, TwinsInv
    <2>2. new \in Seq(Candidates)
        <3>1. PICK c \in {"host", "reflexive"} : lines[Sig] = <<c>>
            BY <1>1, <1>4 DEF AppendTwin, ListInv
        <3>2. ice[p] \in Seq(Candidates)
            BY <1>2 DEF SigTypes
        <3>3. Twin(Head(lines[Sig])) \in Seq(Candidates)
            <4>1. <<"extra">> \in Seq(Candidates) /\ <<>> \in Seq(Candidates)
                BY DEF Candidates
            <4> QED
                BY <4>1 DEF Twin
        <3> QED
            BY <3>2, <3>3
    <2> HIDE DEF new
    <2>3. SigTypes'
        <3>1. ice' \in [Peers -> Seq(Candidates)]
            BY <1>2, <2>1, <2>2 DEF SigTypes
        <3> QED
            BY <1>1, <1>2, <1>4, <3>1 DEF AppendTwin, SigTypes, SigTypeOK, Places
    <2>4. MutexInv' /\ LoopInv' /\ MapInv'
        BY <1>1, <1>4 DEF AppendTwin, MutexInv, LoopInv, MapInv, SigTypes, SigTypeOK, Holding,
                          Looping, Leaving, Called
    <2>5. ListInv'
        BY <1>1, <1>2, <1>4 DEF AppendTwin, ListInv, SigTypes, SigTypeOK, Called
    <2>6. TwinsInv'
        <3>1. at'[Sig] = "idle" /\ got' = got
            BY <1>1, <1>4 DEF AppendTwin, SigTypes
        <3>2. ice'[p] = new /\ \A x \in Peers \ {p} : ice'[x] = ice[x]
            BY <1>2, <2>1 DEF SigTypes
        <3>3. \A x \in Peers \ {p} : Twins(ice[x])
            BY DEF TwinsInv
        <3> QED
            BY <2>1, <3>1, <3>2, <3>3 DEF TwinsInv
    <2> QED
        BY <2>3, <2>4, <2>5, <2>6
<1>5. CASE ClearList(t)
    <2> USE DEF ClearList, HangUpThread
    <2>1. /\ at[Sig] = "lockClear" /\ at[p] = "idle" /\ iceMutex[p] = None
          /\ ice' = [ice EXCEPT ![p] = <<>>]
          /\ UNCHANGED <<peerMap, mutex, cursor, todo, lines, got, observer, closed, iceMutex>>
        BY <1>1, <1>5 DEF ListInv
    <2>2. ice' \in [Peers -> Seq(Candidates)] /\ \A x \in Peers : Twins(ice'[x])
        BY <1>2, <2>1, EmptyTwins DEF SigTypes, TwinsInv
    <2>3. PICK a \in {"idle", "hangUp"}, q \in Peers \cup {None} :
             /\ at' = [at EXCEPT ![Sig] = "idle", ![p] = a]
             /\ peer' = [peer EXCEPT ![Sig] = None, ![p] = q]
        <3>1. CASE observer[p] = "alive"
            BY <1>1, <1>2, <1>5, <3>1
        <3>2. CASE observer[p] # "alive"
            <4>1. at' = [at EXCEPT ![Sig] = "idle"] /\ peer' = [peer EXCEPT ![Sig] = None]
                BY <1>1, <1>5, <3>2
            <4>2. at' = [at EXCEPT ![Sig] = "idle", ![p] = "idle"]
                BY <1>2, <2>1, <4>1 DEF SigTypes
            <4>3. peer' = [peer EXCEPT ![Sig] = None, ![p] = peer[p]] /\ peer[p] \in Peers \cup {None}
                BY <1>2, <4>1 DEF SigTypes, SigTypeOK
            <4> QED
                BY <4>2, <4>3
        <3> QED
            BY <3>1, <3>2
    <2>4. SigTypes'
        BY <1>2, <2>1, <2>2, <2>3 DEF SigTypes, SigTypeOK, Places
    <2>5. MutexInv'
        BY <1>2, <2>1, <2>3 DEF MutexInv, SigTypes, SigTypeOK, Holding, Looping, Called
    <2>a. /\ at'[Sig] = "idle" /\ at'[p] = a /\ peer'[Sig] = None /\ peer'[p] = q
          /\ \A u \in Thread \ {Sig, p} : at'[u] = at[u] /\ peer'[u] = peer[u]
        BY <1>2, <2>3 DEF SigTypes, SigTypeOK
    <2>6. LoopInv' /\ MapInv'
        <3>1. ASSUME NEW u \in Thread
              PROVE  /\ todo[u] \subseteq peerMap
                     /\ todo[u] # {} => at'[u] \in Looping
                     /\ cursor[u] # None => cursor[u] \in peerMap /\ at'[u] \in Looping
                     /\ at'[u] \in {"callAdd", "lockCopy", "copy"} => peer'[u] \in peerMap
                     /\ at'[u] \in Leaving => peer'[u] \in Peers \ peerMap
            <4>1. CASE u \in {Sig, p}
                BY <1>2, <2>1, <2>a, <4>1 DEF LoopInv, Looping, Leaving
            <4>2. CASE u \notin {Sig, p}
                BY <2>a, <4>2 DEF LoopInv
            <4> QED
                BY <4>1, <4>2
        <3> QED
            BY <2>1, <3>1 DEF LoopInv, MapInv
    <2>7. ListInv'
        <3>1. ASSUME NEW u \in Thread, NEW x \in Peers
              PROVE  iceMutex[x] = u <=> at'[u] \in {"copy", "twin"} /\ peer'[u] = x
            BY <1>2, <2>1, <2>a DEF ListInv
        <3>2. ASSUME NEW u \in Thread, at'[u] = "free" PROVE peer'[u] \in closed
            BY <1>2, <2>1, <2>a, <3>2 DEF ListInv
        <3> QED
            BY <2>1, <2>a, <3>1, <3>2 DEF ListInv, Called
    <2>8. TwinsInv'
        <3>1. at'[Sig] = "idle"
            BY <1>2, <2>3 DEF SigTypes
        <3> QED
            BY <2>1, <2>2, <3>1 DEF TwinsInv
    <2> QED
        BY <2>4, <2>5, <2>6, <2>7, <2>8
<1> QED
    BY <1>3, <1>4, <1>5

\* A step of an API function keeps SigInv.
LEMMA SigFunction == ASSUME SigInv, NEW t \in Thread, InFunction(t) PROVE SigInv'
<1> USE Names DEF SigInv, Goto, Move, Lock, Unlock, observerVars, budget
<1>0. at[t] \notin Called \cup {"idle"} => t # Sig
    BY DEF MutexInv
<1>a. ASSUME at[t] \notin Called \cup {"idle", "copy"},
             NEW a \in Places \ (Called \cup {"copy", "free"}), Goto(t, a),
             lines' = lines \/ lines' = [lines EXCEPT ![t] = Tail(@)],
             UNCHANGED <<peer, got, ice, iceMutex, closed, observer>>
      PROVE  ListInv' /\ TwinsInv'
    <2>1. t \in Thread \ {Sig} /\ at[t] # "copy" /\ at[t] # "idle"
        BY <1>a, <1>0
    <2>2. lines'[Sig] = lines[Sig]
        BY <1>a, <2>1 DEF SigTypes
    <2>3. /\ \A x \in Peers : observer'[x] = "deleted" => x \in closed
          /\ \A u \in Thread : Twins(got'[u])
          /\ \A u \in Thread \ {t} : peer'[u] = peer[u]
        BY <1>a DEF ListInv, TwinsInv
    <2> QED
        BY <1>a, <2>1, <2>2, <2>3, ListsKept
<1>1. CASE NextLine(t)
    <2>1. SigTypes'
        BY <1>1 DEF NextLine, SigTypes, SigTypeOK, Places
    <2>2. MutexInv' /\ MapInv'
        BY <1>1 DEF NextLine, MutexInv, MapInv, SigTypes, SigTypeOK, Holding, Looping, Called
    <2>0. LoopInv'
        BY <1>1 DEF NextLine, LoopInv, SigTypes, SigTypeOK, Looping, Leaving
    <2>3. PICK a \in {"line", "return", "lockAdd"} : Goto(t, a)
        BY <1>1 DEF NextLine, SigTypes
    <2>4. a \in Places \ (Called \cup {"copy", "free"}) /\ at[t] \notin Called \cup {"idle", "copy"}
        BY <1>1 DEF NextLine, Places, Called
    <2>5. /\ lines' = lines \/ lines' = [lines EXCEPT ![t] = Tail(@)]
          /\ UNCHANGED <<peer, got, ice, iceMutex, closed, observer>>
        BY <1>1 DEF NextLine
    <2>6. ListInv' /\ TwinsInv'
        BY <1>a, <2>3, <2>4, <2>5
    <2> QED
        BY <2>0, <2>1, <2>2, <2>6
<1>2. CASE LockAdd(t)
    <2>1. SigTypes'
        BY <1>2 DEF LockAdd, SigTypes, SigTypeOK, Places
    <2>2. MutexInv' /\ LoopInv' /\ MapInv'
        BY <1>2 DEF LockAdd, MutexInv, LoopInv, MapInv, SigTypes, SigTypeOK, Holding, Looping,
                    Leaving, Called
    <2>3. PICK a \in {"line", "callAdd"} : Goto(t, a)
        BY <1>2 DEF LockAdd
    <2>4. a \in Places \ (Called \cup {"copy", "free"}) /\ at[t] \notin Called \cup {"idle", "copy"}
        BY <1>2 DEF LockAdd, Places, Called
    <2>5. /\ lines' = lines \/ lines' = [lines EXCEPT ![t] = Tail(@)]
          /\ UNCHANGED <<peer, got, ice, iceMutex, closed, observer>>
        BY <1>2 DEF LockAdd
    <2>6. ListInv' /\ TwinsInv'
        BY <1>a, <2>3, <2>4, <2>5
    <2> QED
        BY <2>1, <2>2, <2>6
<1>3. CASE GetIceCandidateList(t)
    <2>1. SigTypes'
        BY <1>3 DEF GetIceCandidateList, SigTypes, SigTypeOK, Places
    <2>2. MutexInv' /\ LoopInv' /\ MapInv'
        BY <1>3 DEF GetIceCandidateList, MutexInv, LoopInv, MapInv, SigTypes, SigTypeOK,
                    Holding, Looping, Leaving, Called
    <2>3. PICK a \in {"lockCopy", "return"} : Goto(t, a)
        BY <1>3 DEF GetIceCandidateList
    <2>4. a \in Places \ (Called \cup {"copy", "free"}) /\ at[t] \notin Called \cup {"idle", "copy"}
        BY <1>3 DEF GetIceCandidateList, Places, Called
    <2>5. ListInv' /\ TwinsInv'
        BY <1>a, <1>3, <2>3, <2>4 DEF GetIceCandidateList
    <2> QED
        BY <2>1, <2>2, <2>5
<1>4. ASSUME NEW from, NEW to \in Looping, LockMap(t, from, to),
             from \in {"list", "lockUsed"}, from = "lockUsed" <=> to \in Leaving
      PROVE  SigInv'
    <2>1. SigTypes'
        BY <1>4 DEF LockMap, SigTypes, SigTypeOK, Places, Looping
    <2>2. MutexInv' /\ LoopInv' /\ MapInv'
        BY <1>4 DEF LockMap, MutexInv, LoopInv, MapInv, SigTypes, SigTypeOK, Holding, Looping,
                    Leaving, Called
    <2>3. to \in Places \ (Called \cup {"copy", "free"}) /\ at[t] \notin Called \cup {"idle", "copy"}
        BY <1>4 DEF LockMap, Places, Called, Looping
    <2>4. ListInv' /\ TwinsInv'
        BY <1>a, <1>4, <2>3 DEF LockMap
    <2> QED
        BY <2>1, <2>2, <2>4
<1>5. ASSUME NEW from \in Looping, NEW to \in Looping, NEW end, NextEntry(t, from, to, end),
             end \in {"return", "callRemove"}, from \in Leaving <=> to \in Leaving,
             from \in Leaving <=> end \in Leaving
      PROVE  SigInv'
    <2>0. MapInv'
        BY <1>5 DEF NextEntry, MapInv
    <2>1. ListInv' /\ TwinsInv'
        <3>1. PICK a \in {to, end} : Goto(t, a)
            BY <1>5 DEF NextEntry
        <3>2. a \in Places \ (Called \cup {"copy", "free"}) /\ at[t] \notin Called \cup {"idle", "copy"}
            BY <1>5 DEF NextEntry, Places, Called, Looping
        <3> QED
            BY <1>a, <1>5, <3>1, <3>2 DEF NextEntry
    <2>2. CASE /\ todo[t] = {}
               /\ mutex' = None /\ at' = [at EXCEPT ![t] = end]
               /\ cursor' = [cursor EXCEPT ![t] = None] /\ UNCHANGED todo
        <3>1. SigTypes'
            BY <1>5, <2>2 DEF NextEntry, SigTypes, SigTypeOK, Places, Looping
        <3>2. MutexInv'
            BY <1>5, <2>2 DEF NextEntry, MutexInv, SigTypes, SigTypeOK, Holding, Looping, Called
        <3>3. LoopInv'
            BY <1>5, <2>2 DEF NextEntry, LoopInv, SigTypes, SigTypeOK, Looping, Leaving
        <3> QED
            BY <2>0, <2>1, <3>1, <3>2, <3>3
    <2>3. ASSUME NEW p \in todo[t],
                 cursor' = [cursor EXCEPT ![t] = p],
                 todo' = [todo EXCEPT ![t] = @ \ {p}],
                 at' = [at EXCEPT ![t] = to], UNCHANGED mutex
          PROVE  SigInv'
        <3>1. p \in peerMap /\ p \in Peers
            BY DEF LoopInv, SigTypes, SigTypeOK
        <3>2. SigTypes'
            BY <1>5, <2>3, <3>1 DEF NextEntry, SigTypes, SigTypeOK, Places, Looping
        <3>3. MutexInv'
            BY <1>5, <2>3 DEF NextEntry, MutexInv, SigTypes, SigTypeOK, Holding, Looping, Called
        <3>4. LoopInv'
            BY <1>5, <2>3, <3>1 DEF NextEntry, LoopInv, SigTypes, SigTypeOK, Looping, Leaving
        <3> QED
            BY <2>0, <2>1, <3>2, <3>3, <3>4
    <2> QED
        BY <1>5, <2>2, <2>3 DEF NextEntry
<1>6. CASE HangUp(t)
    <2>1. SigTypes'
        BY <1>6 DEF HangUp, SigTypes, SigTypeOK, Places
    <2>2. MutexInv' /\ LoopInv' /\ MapInv'
        BY <1>6 DEF HangUp, MutexInv, LoopInv, MapInv, SigTypes, SigTypeOK, Holding, Looping,
                    Leaving, Called
    <2>3. PICK a \in {"callSenders", "return"} : Goto(t, a)
        BY <1>6 DEF HangUp
    <2>4. a \in Places \ (Called \cup {"copy", "free"}) /\ at[t] \notin Called \cup {"idle", "copy"}
        BY <1>6 DEF HangUp, Places, Called
    <2>5. ListInv' /\ TwinsInv'
        BY <1>a, <1>6, <2>3, <2>4 DEF HangUp
    <2> QED
        BY <2>1, <2>2, <2>5
<1>7. CASE FreeObserver(t)
    <2>1. SigTypes'
        BY <1>7 DEF FreeObserver, SigTypes, SigTypeOK, Places
    <2>2. MutexInv' /\ LoopInv'
        BY <1>7 DEF FreeObserver, MutexInv, LoopInv, SigTypes, SigTypeOK, Holding, Looping,
                    Leaving, Called
    <2>3. MapInv'
        BY <1>7 DEF FreeObserver, MapInv, LoopInv, Leaving, SigTypes, SigTypeOK
    <2>4. /\ t \in Thread \ {Sig} /\ at[t] # "copy" /\ at[t] # "idle"
          /\ "return" \in Places \ (Called \cup {"copy", "free"})
        BY <1>0, <1>7 DEF FreeObserver, Places, Called
    <2>5. \A x \in Peers : observer'[x] = "deleted" => x \in closed
        BY <1>7 DEF FreeObserver, ListInv, SigTypes, SigTypeOK
    <2>6. ListInv' /\ TwinsInv'
        BY <1>7, <2>4, <2>5, ListsKept DEF FreeObserver, TwinsInv
    <2> QED
        BY <2>1, <2>2, <2>3, <2>6
<1>8. CASE LockList(t) \/ StreamStillUsed(t)
    BY <1>8, <1>4 DEF LockList, StreamStillUsed, Looping, Leaving
<1>9. CASE NextListed(t) \/ NextUsed(t)
    BY <1>9, <1>5 DEF NextListed, NextUsed, Looping, Leaving
<1>10. CASE LockCopy(t) \/ CopyList(t)
    BY <1>10, SigCopy
<1>11. CASE AppendCandidate(t) \/ AppendTwin(t) \/ ClearList(t)
    BY <1>11, SigCalled
<1> QED
    BY <1>1, <1>2, <1>3, <1>6, <1>7, <1>8, <1>9, <1>10, <1>11 DEF InFunction

\* A call that the signaling thread serves keeps SigInv: what it closes or deletes was
\* taken from the map, and no callback is running.
LEMMA SigServed == ASSUME SigInv, NEW t \in Thread, Served(t) PROVE SigInv'
<1> USE Names DEF SigInv, Goto, Move, Unlock, observerVars, budget
<1>1. /\ at[t] \in {"callEntry", "callUsed", "callSenders", "callAdd", "callRemove", "callClose"}
      /\ t \in Thread \ {Sig} /\ at[Sig] = "idle"
    BY DEF Served, ServeReading, ServeAdd, ServeLast, ServeClose, Reading, Free, MutexInv, Called
<1>a. ASSUME NEW a \in Places \ (Called \cup {"copy", "free"}), Goto(t, a),
             lines' = lines \/ lines' = [lines EXCEPT ![t] = Tail(@)],
             UNCHANGED <<peer, got, ice, iceMutex, closed>>,
             \A x \in Peers : observer'[x] = "deleted" => x \in closed
      PROVE  ListInv' /\ TwinsInv'
    <2>1. lines'[Sig] = lines[Sig]
        BY <1>a, <1>1 DEF SigTypes
    <2>2. /\ \A u \in Thread : Twins(got'[u])
          /\ \A u \in Thread \ {t} : peer'[u] = peer[u]
        BY <1>a DEF TwinsInv
    <2> QED
        BY <1>a, <1>1, <2>1, <2>2, ListsKept
<1>2. CASE ServeReading(t)
    <2>1. SigTypes'
        BY <1>2 DEF ServeReading, Reading, SigTypes, SigTypeOK, Places
    <2>2. MutexInv' /\ LoopInv' /\ MapInv'
        BY <1>2 DEF ServeReading, Reading, MutexInv, LoopInv, MapInv, SigTypes, SigTypeOK,
                    Holding, Looping, Leaving, Called
    <2>3. Reading[at[t]] \in Places \ (Called \cup {"copy", "free"})
        BY <1>2 DEF ServeReading, Reading, Places, Called
    <2>4. ListInv' /\ TwinsInv'
        BY <1>a, <1>2, <2>3 DEF ServeReading, ListInv
    <2> QED
        BY <2>1, <2>2, <2>4
<1>3. CASE ServeAdd(t)
    <2>1. SigTypes'
        BY <1>3 DEF ServeAdd, SigTypes, SigTypeOK, Places
    <2>2. MutexInv' /\ LoopInv' /\ MapInv'
        BY <1>3 DEF ServeAdd, MutexInv, LoopInv, MapInv, SigTypes, SigTypeOK, Holding, Looping,
                    Leaving, Called
    <2>3. "line" \in Places \ (Called \cup {"copy", "free"})
        BY DEF Places, Called
    <2>4. ListInv' /\ TwinsInv'
        BY <1>a, <1>3, <2>3 DEF ServeAdd, ListInv
    <2> QED
        BY <2>1, <2>2, <2>4
<1>4. CASE ServeLast(t)
    <2>1. SigTypes'
        BY <1>4 DEF ServeLast, SigTypes, SigTypeOK, Places
    <2>2. MutexInv' /\ LoopInv'
        BY <1>4 DEF ServeLast, MutexInv, LoopInv, SigTypes, SigTypeOK, Holding, Looping, Leaving,
                    Called
    <2>3. MapInv'
        BY <1>4 DEF ServeLast, MapInv, LoopInv, Leaving, SigTypes, SigTypeOK
    <2>4. "callClose" \in Places \ (Called \cup {"copy", "free"})
        BY DEF Places, Called
    <2>5. \A x \in Peers : observer'[x] = "deleted" => x \in closed
        BY <1>4 DEF ServeLast, ListInv, SigTypes, SigTypeOK
    <2>6. ListInv' /\ TwinsInv'
        BY <1>a, <1>4, <2>4, <2>5 DEF ServeLast
    <2> QED
        BY <2>1, <2>2, <2>3, <2>6
<1>5. CASE ServeClose(t)
    <2>1. peer[t] \in Peers \ peerMap
        BY <1>1, <1>5 DEF ServeClose, LoopInv, Leaving
    <2>2. SigTypes'
        BY <1>5, <2>1, EmptyTwins DEF ServeClose, SigTypes, SigTypeOK, Places
    <2>3. MutexInv' /\ LoopInv' /\ MapInv'
        BY <1>5, <2>1 DEF ServeClose, MutexInv, LoopInv, MapInv, SigTypes, SigTypeOK, Holding,
                          Looping, Leaving, Called
    <2>4. ListInv'
        BY <1>1, <1>5 DEF ServeClose, ListInv, SigTypes, SigTypeOK, Called
    <2>5. TwinsInv'
        BY <1>1, <1>5, EmptyTwins DEF ServeClose, TwinsInv, SigTypes
    <2> QED
        BY <2>2, <2>3, <2>4, <2>5
<1> QED
    BY <1>2, <1>3, <1>4, <1>5 DEF Served

\* A callback that begins keeps SigInv.
LEMMA SigCallback ==
    ASSUME SigInv, NEW p \in Peers, OnIceCandidate(p) \/ OnIceConnectionChange(p)
    PROVE  SigInv'
<1> USE Names DEF SigInv, Goto, Callback, observerVars
<1>1. PICK a \in {"lockAppend", "lockClear"}, ls \in {<<>>, <<"host">>, <<"reflexive">>} :
         /\ Callback(p, a, ls)
         /\ a = "lockAppend" => \E c \in {"host", "reflexive"} : ls = <<c>>
         /\ a = "lockClear" => at[p] = "idle"
    BY DEF OnIceCandidate, OnIceConnectionChange, HangUpThread
<1>2. SigTypes'
    BY <1>1 DEF SigTypes, SigTypeOK, Places
<1>3. MutexInv' /\ LoopInv' /\ MapInv'
    BY <1>1 DEF MutexInv, LoopInv, MapInv, SigTypes, SigTypeOK, Holding, Looping, Leaving, Called
<1>4. ListInv'
    <2>1. at' = [at EXCEPT ![Sig] = a] /\ at[Sig] = "idle" /\ p # Sig /\ p \in Thread
        BY <1>1
    <2>2. peer'[Sig] = p /\ lines'[Sig] = ls /\ \A u \in Thread \ {Sig} : peer'[u] = peer[u]
        BY <1>1 DEF SigTypes, SigTypeOK
    <2>3. at'[Sig] = a /\ \A u \in Thread \ {Sig} : at'[u] = at[u]
        BY <2>1 DEF SigTypes
    <2> QED
        BY <1>1, <2>1, <2>2, <2>3 DEF ListInv, Called
<1>5. TwinsInv'
    BY <1>1 DEF TwinsInv, SigTypes
<1> QED
    BY <1>2, <1>3, <1>4, <1>5

\* The end of a request or of a detached thread keeps SigInv.
LEMMA SigReturn ==
    ASSUME SigInv, NEW t \in Thread, at[t] = "return", Goto(t, "idle"),
           UNCHANGED <<peerMap, mutex, cursor, todo, lines, observerVars, budget>>,
           \/ UNCHANGED <<peer, got>>
           \/ peer' = [peer EXCEPT ![t] = None] /\ got' = [got EXCEPT ![t] = <<>>]
    PROVE  SigInv'
<1> USE Names DEF SigInv, Goto, observerVars
<1>1. /\ got' \in [Thread -> Seq(Candidates)] /\ \A u \in Thread : Twins(got'[u])
      /\ \A u \in Thread \ {t} : peer'[u] = peer[u]
    <2>1. CASE UNCHANGED <<peer, got>>
        BY <2>1 DEF SigTypes, TwinsInv
    <2>2. CASE peer' = [peer EXCEPT ![t] = None] /\ got' = [got EXCEPT ![t] = <<>>]
        BY <2>2, EmptyTwins DEF SigTypes, SigTypeOK, TwinsInv
    <2> QED
        BY <2>1, <2>2
<1>2. SigTypes'
    BY <1>1 DEF SigTypes, SigTypeOK, Places
<1>3. MutexInv' /\ LoopInv' /\ MapInv'
    BY DEF MutexInv, LoopInv, MapInv, SigTypes, SigTypeOK, Holding, Looping, Leaving, Called
<1>4. ListInv' /\ TwinsInv'
    <2>1. t \in Thread \ {Sig} /\ at[t] # "copy" /\ at[t] # "idle"
        BY DEF MutexInv, Called
    <2>2. "idle" \in Places \ (Called \cup {"copy", "free"})
        BY DEF Places, Called
    <2>3. \A x \in Peers : observer'[x] = "deleted" => x \in closed
        BY DEF ListInv
    <2> QED
        BY <1>1, <2>1, <2>2, <2>3, ListsKept
<1> QED
    BY <1>2, <1>3, <1>4

-----------------------------------------------------------------------------
(* The whole program.                                                      *)

LEMMA InitInv == Init => Inv
<1> SUFFICES ASSUME Init PROVE Inv
    OBVIOUS
<1> USE Names DEF Init, SigInit
<1>1. SigTypes /\ TwinsInv
    BY EmptyTwins DEF SigTypes, SigTypeOK, Places, TwinsInv
<1>2. MutexInv /\ LoopInv /\ MapInv /\ ListInv
    BY DEF MutexInv, LoopInv, MapInv, ListInv, Holding, Looping, Leaving, Called
<1>3. ShutdownInv
    BY DEF ShutdownInv, Up
<1> QED
    BY <1>1, <1>2, <1>3 DEF Inv, SigInv

\* A step of main or of the signal handler keeps both layers.
LEMMA MainInv ==
    ASSUME Inv,
           Main \/ Sigint \/ SigintAgain \/ SigintElsewhere \/ HandlerElsewhere
             \/ LeakedConnection \/ Ended
    PROVE  Inv'
<1>1. UNCHANGED sigVars
    BY DEF Main, CreateManager, InitializePeerConnection, StartServer, AddHandlersAndRun,
           Quit, DeleteHandlers, StopServer, Exit, Sigint, SigintAgain, SigintElsewhere,
           HandlerElsewhere, LeakedConnection, Ended, MainStep, UseAfterDelete, vars
<1>2. SigInv'
    BY <1>1, SigStutter DEF Inv
<1>3. at' = at /\ Leaked' = Leaked
    BY <1>1 DEF Leaked, sigVars, threadVars
<1> USE <1>3 DEF Inv, ShutdownInv, Up, Needy
<1>4. CASE Main
    <2> USE DEF MainStep, Disturbed
    <2>1. CASE CreateManager \/ AddHandlersAndRun
        BY <2>1, <1>2 DEF CreateManager, AddHandlersAndRun
    <2>2. CASE InitializePeerConnection
        BY <2>2, <1>2 DEF InitializePeerConnection
    <2>3. CASE StartServer
        BY <2>3, <1>2 DEF StartServer
    <2>4. CASE Quit
        BY <2>4, <1>2 DEF Quit
    <2>5. CASE DeleteHandlers \/ StopServer \/ Exit
        BY <2>5, <1>2 DEF DeleteHandlers, StopServer, Exit, mainVars
    <2> QED
        BY <1>4, <2>1, <2>2, <2>3, <2>4, <2>5 DEF Main
<1>5. CASE Sigint
    BY <1>5, <1>2 DEF Sigint, DeleteManager, Disturbed, mainVars
<1>6. CASE SigintAgain
    BY <1>6, <1>2 DEF SigintAgain, vars, progVars, mainVars, Disturbed
<1>7. CASE SigintElsewhere
    BY <1>7, <1>2 DEF SigintElsewhere, mainVars
<1>8. CASE HandlerElsewhere \/ LeakedConnection
    BY <1>8, <1>2 DEF HandlerElsewhere, LeakedConnection, UseAfterDelete, Disturbed
<1>9. CASE Ended
    BY <1>9, <1>2 DEF Ended, vars, progVars, mainVars, Disturbed
<1> QED
    BY <1>4, <1>5, <1>6, <1>7, <1>8, <1>9

\* A request keeps both layers: one that needs what the shutdown deletes is an overlap.
LEMMA RequestInv ==
    ASSUME Inv, NEW t \in Http, HandleRequest(t) \/ HandleData(t)
    PROVE  Inv'
<1> USE DEF Inv
<1>1. PICK a \in {"line", "getIce", "hangUp", "list", "return"}, p \in Peers \cup {None},
           ls \in Bodies \cup {<<>>} : Begin(t, a, p, ls)
    BY DEF HandleRequest, HandleData, Function, BeginFunction
<1>2. SigInv'
    BY <1>1, SigBegin
<1>3. /\ Up /\ handlers # "none" /\ UNCHANGED <<mainVars, process>>
      /\ \/ Overlap
         \/ t \in WebSocket /\ Begin(t, "return", None, <<>>) /\ UNCHANGED overlap
    BY DEF HandleRequest, HandleData, Serving
<1>4. at \in [Thread -> Places] /\ t \in Thread
    BY Names DEF SigInv, SigTypes
<1>5. CASE Overlap
    BY <1>1, <1>2, <1>3, <1>5 DEF ShutdownInv, Up, Overlap, mainVars
<1>6. CASE t \in WebSocket /\ Begin(t, "return", None, <<>>) /\ UNCHANGED overlap
    <2>1. \A u \in Thread : ~Needy(u) => ~Needy(u)'
        BY <1>4, <1>6 DEF Begin, Goto, Needy
    <2> QED
        BY <1>2, <1>3, <1>6, <2>1 DEF ShutdownInv, Up, mainVars
<1> QED
    BY <1>3, <1>5, <1>6

\* A thread that goes on or ends keeps both layers: it is not alone with the shutdown,
\* or what it uses is alive.
LEMMA WorkerInv == ASSUME Inv, NEW t \in Thread, Worker(t) PROVE Inv'
<1> USE DEF Inv
<1>1. at[t] # "idle" /\ Up
    BY DEF Worker
<1>2. overlap = "nothing" => Safe(t)
    BY <1>1 DEF ShutdownInv, Safe, Needy
<1>3. CASE ~Safe(t)
    BY <1>2, <1>3, SigStutter DEF Worker, UseAfterDelete, ShutdownInv, Up, Disturbed
<1>4. CASE Safe(t)
    <2>1. /\ InFunction(t) \/ Served(t) \/ Reply(t) \/ Ends(t)
          /\ UNCHANGED progVars
        BY <1>4 DEF Worker
    <2>2. SigInv'
        <3>1. CASE InFunction(t)
            BY <3>1, SigFunction
        <3>2. CASE Served(t)
            BY <3>2, SigServed
        <3>3. CASE Reply(t)
            BY <3>3, SigReturn DEF Reply
        <3>4. CASE Ends(t)
            BY <3>4, SigReturn DEF Ends, Move
        <3> QED
            BY <2>1, <3>1, <3>2, <3>3, <3>4
    <2>3. handlers # "none"
        BY <1>1 DEF ShutdownInv
    <2>4. ASSUME main \in {"dying", "quit", "stop", "cleanup"}, overlap = "nothing"
          PROVE  \A u \in Thread : ~Needy(u)'
        <3>1. at[t] = "return" /\ t \in WebSocket /\ \A u \in Thread : ~Needy(u)
            BY <1>1, <2>4 DEF ShutdownInv, Needy
        <3>2. Goto(t, "idle")
            BY <2>1, <3>1 DEF InFunction, NextLine, LockAdd, GetIceCandidateList, LockCopy,
                  CopyList, LockList, LockMap, NextListed, NextUsed, NextEntry, HangUp,
                  StreamStillUsed, FreeObserver, AppendCandidate, AppendTwin, ClearList,
                  Served, ServeReading, Reading, ServeAdd, ServeLast, ServeClose, Reply, Ends,
                  Move
        <3>3. at \in [Thread -> Places]
            BY DEF SigInv, SigTypes
        <3> QED
            BY <3>1, <3>2, <3>3 DEF Goto, Needy
    <2>5. ShutdownInv'
        BY <1>1, <2>1, <2>3, <2>4 DEF ShutdownInv, Up, progVars, mainVars
    <2> QED
        BY <2>2, <2>5
<1> QED
    BY <1>3, <1>4

\* A callback keeps both layers: one that meets the shutdown is an overlap.
LEMMA CallbackInv == ASSUME Inv, NEW p \in Peers, Callbacks(p) PROVE Inv'
<1> USE DEF Inv
<1>1. SigInv'
    BY SigCallback DEF Callbacks
<1>2. ShutdownInv'
    BY DEF Callbacks, ShutdownInv, Up, Overlap, mainVars
<1> QED
    BY <1>1, <1>2

\* Inv is inductive.
LEMMA InvStep == Inv /\ [Next]_vars => Inv'
<1> SUFFICES ASSUME Inv, [Next]_vars PROVE Inv'
    OBVIOUS
<1>1. CASE UNCHANGED vars
    BY <1>1, SigStutter DEF Inv, vars, progVars, mainVars, ShutdownInv, Up, Needy, Disturbed,
                            Leaked, sigVars, threadVars
<1>2. CASE Next
    BY <1>2, MainInv, RequestInv, WorkerInv, CallbackInv DEF Next
<1> QED
    BY <1>1, <1>2

LEMMA InvAlways == Spec => []Inv
    BY InitInv, InvStep, PTL DEF Spec

-----------------------------------------------------------------------------
\* The types of Signaling's variables.
THEOREM SigTypeCorrect == Spec => []SigTypeOK
<1>1. Inv => SigTypeOK
    BY DEF Inv, SigInv, SigTypes
<1> QED
    BY <1>1, InvAlways, PTL

\* Every chain of waits ends, however many threads there are: who holds m_peerMapMutex
\* waits at most for the signaling thread or a list, the signaling thread at most for a list
\* that is being copied, and OnIceConnectionChange hangs up on a thread of its own.
THEOREM NoCircularWaitTheorem == Spec => []NoCircularWait
<1>1. Inv => NoCircularWait
    <2> SUFFICES ASSUME Inv, NEW t \in Thread, NEW u \in Blockers(t), NEW v \in Blockers(u)
                 PROVE  Blockers(v) = {}
        BY DEF NoCircularWait
    <2> USE Names DEF Inv, SigInv
    <2>1. ASSUME NEW x \in Thread, at[x] \in {"copy", "twin", "idle"} PROVE Blockers(x) = {}
        BY <2>1 DEF Blockers, Waiting, Calls, Reading, WaitingForList
    <2>2. ASSUME NEW x \in Thread, at[x] \in WaitingForList, NEW y \in Blockers(x)
          PROVE  y \in Thread /\ at[y] \in {"copy", "twin"}
        <3>1. peer[x] \in Peers
            BY <2>2 DEF WaitingForList, LoopInv, ListInv, MutexInv, Called, SigTypes, SigTypeOK
        <3>2. y = iceMutex[peer[x]] /\ y # None
            BY <2>2 DEF WaitingForList, Blockers, Waiting, Calls, Reading, IceFree
        <3> QED
            BY <3>1, <3>2 DEF ListInv, SigTypes, SigTypeOK
    <2>3. ASSUME NEW x \in Thread, at[x] \in Waiting, NEW y \in Blockers(x)
          PROVE  y = mutex /\ y \in Thread /\ at[y] \in Holding
        <3>1. y = mutex /\ y # None
            BY <2>3 DEF Blockers, Waiting, Calls, Reading, WaitingForList
        <3> QED
            BY <3>1 DEF MutexInv, SigTypes, SigTypeOK
    <2>4. ASSUME NEW x \in Thread, at[x] \in Calls, NEW y \in Blockers(x)
          PROVE  y = Sig /\ at[Sig] \in Called
        BY <2>4 DEF Blockers, Waiting, Calls, Reading, WaitingForList, Free, MutexInv
    <2>5. \A x \in Thread : Blockers(x) # {} => at[x] \in Waiting \cup Calls \cup WaitingForList
        BY DEF Blockers
    <2>6. CASE at[t] \in WaitingForList
        BY <2>1, <2>2, <2>6
    <2>7. CASE at[t] \in Calls
        <3>1. u = Sig /\ at[u] \in WaitingForList
            BY <2>1, <2>4, <2>7 DEF Called, WaitingForList
        <3> QED
            BY <2>1, <2>2, <3>1
    <2>8. CASE at[t] \in Waiting
        <3>1. u = mutex /\ u \in Thread /\ at[u] \in Holding
            BY <2>3, <2>8
        <3>2. CASE at[u] = "lockCopy"
            BY <2>1, <2>2, <3>1, <3>2 DEF WaitingForList
        <3>3. CASE at[u] # "lockCopy"
            <4>1. at[u] \in Calls
                BY <2>5, <3>1, <3>3 DEF Holding, Looping, Waiting, Calls, Reading, WaitingForList
            <4>2. v = Sig /\ at[Sig] \in Called
                BY <2>4, <3>1, <4>1
            <4>3. ASSUME NEW w \in Blockers(Sig) PROVE FALSE
                <5>1. at[Sig] \in WaitingForList
                    BY <2>1, <4>2, <4>3 DEF Called, WaitingForList
                <5>2. w \in Thread /\ at[w] \in {"copy", "twin"}
                    BY <2>2, <4>3, <5>1
                <5>3. at[w] = "copy"
                    BY <5>1, <5>2 DEF MutexInv, Called, WaitingForList
                <5>4. mutex = w
                    BY <5>2, <5>3 DEF MutexInv, Holding
                <5> QED
                    BY <3>1, <4>1, <5>3, <5>4 DEF Calls, Reading
            <4> QED
                BY <4>2, <4>3
        <3> QED
            BY <3>2, <3>3
    <2> QED
        BY <2>5, <2>6, <2>7, <2>8
<1> QED
    BY <1>1, InvAlways, PTL

\* What getPeerConnectionList, streamStillUsed, addIceCandidate and getIceCandidateList use
\* through the map is alive and open, however many threads hang up at the same time, and a
\* callback's observer is there until it has returned.
THEOREM ObserversTheorem == Spec => []ObserversInUseAreAlive
<1>1. Inv => ObserversInUseAreAlive
    <2> SUFFICES ASSUME Inv, NEW t \in Thread
                 PROVE  /\ cursor[t] # None => observer[cursor[t]] = "alive" /\ cursor[t] \notin closed
                        /\ at[t] \in {"callAdd", "lockCopy", "copy"} => peer[t] \notin closed
                        /\ at[t] \in Called => observer[peer[t]] # "deleted"
        BY DEF ObserversInUseAreAlive, Called
    <2>1. at[t] \in Called => t = Sig /\ peer[t] \in Peers \ closed
        BY DEF Inv, SigInv, MutexInv, ListInv
    <2> QED
        BY <2>1 DEF Inv, SigInv, LoopInv, MapInv, ListInv
<1> QED
    BY <1>1, InvAlways, PTL

\* A reply to getIceCandidateList has each host candidate with its twin at m_extraHost:
\* m_iceCandidateMutex is held between the two.
THEOREM TwinsTheorem == Spec => []RepliesListTwins
<1>1. Inv => RepliesListTwins
    BY DEF Inv, SigInv, TwinsInv, Twins, RepliesListTwins
<1> QED
    BY <1>1, InvAlways, PTL

\* The signal handler and the end of main use nothing that was deleted, unless something
\* overlaps them, peers are left in the map or the audio module counts its references.
THEOREM QuietShutdownTheorem == Spec => []QuietShutdownIsClean
<1>1. Inv => QuietShutdownIsClean
    BY DEF Inv, ShutdownInv, QuietShutdownIsClean
<1> QED
    BY <1>1, InvAlways, PTL
=============================================================================
