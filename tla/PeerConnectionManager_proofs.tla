--------------------- MODULE PeerConnectionManager_proofs ---------------------
(***************************************************************************)
(* What holds of PeerConnectionManager for any number of HTTP threads,     *)
(* detached threads, peers, labels and observers.                          *)
(***************************************************************************)
EXTENDS PeerConnectionManager, FiniteSetTheorems, TLAPS

\* The locations at which a thread's pointer is set.
Pointing ==
    {"discard", "register", "lookup", "insert", "attach", "negotiate", "gather",
     "setremote", "spawned"} \cup HangingUp

\* What TypeOK leaves open: pointers are to observers that have been created, which
\* have a label and a peer id, hangUp has an argument, its loop has a sender left,
\* and a connection that is about to be registered exists.
Allocated ==
    /\ freed \subseteq 1..created
    /\ \A o \in 1..created : lbl[o] \in Label /\ peerOf[o] \in PeerId
    /\ \A t \in Thread : pc[t] \in Pointing => ptr[t] \in 1..created
    /\ \A t \in Thread : pc[t] = "find" => hup[t] \in PeerId
    /\ \A t \in Thread : pc[t] \in {"check", "erase"} => todo[t] # 0
    /\ \A t \in Thread : pc[t] = "register" => hasPc[ptr[t]]

Inv == TypeOK /\ Allocated

\* Created observers are observers, and the null pointer is not one.
LEMMA ObsFacts ==
    ASSUME TypeOK
    PROVE  /\ 1..created \subseteq Obs
           /\ Null \notin Obs
           /\ created < MaxObs => created + 1 \in Obs
BY ConstantsAssumption DEF TypeOK, Obs, Null

\* The state that the constructor leaves satisfies the invariant.
LEMMA InitInv == Init => Inv /\ RegisteredObservers /\ ExclusiveOwnership
BY ConstantsAssumption DEF Init, Inv, TypeOK, Allocated, Pointing, HangingUp, Location,
   RegisteredObservers, ExclusiveOwnership, Owns, Obs, Null

\* A PeerConnection has finitely many senders, so hangUp's loop has a length.
LEMMA SenderCount ==
    ASSUME NEW S, S \subseteq Kind
    PROVE  Cardinality(S) \in Nat
BY ConstantsAssumption, FS_Subset, FS_CardinalityType

\* No step of any thread breaks the types, or makes a thread's pointer one that was
\* never allocated.
LEMMA InvStep ==
    ASSUME Inv, RegisteredObservers, [Next]_vars
    PROVE  Inv'
<1> USE DEF Inv, TypeOK, Allocated, Pointing, HangingUp, Location, obsVars, threadVars,
            At, Goto
<1> USE ObsFacts
<1>0. ASSUME NEW t \in Thread, Return(t), up' = up,
             UNCHANGED <<streamMap, created, peerOf, hasPc, lbl, made, src>>,
             freed' \subseteq 1..created,
             peerMap' \in [PeerId -> Obs \cup {Null}],
             ice' \in [Obs -> {"new", "offered", "active", "failed"}]
      PROVE  Inv'
  <2>1. TypeOK'
    BY <1>0 DEF Return
  <2>2. Allocated'
    BY <1>0 DEF Return
  <2>3. QED
    BY <2>1, <2>2
<1>00. ASSUME NEW t \in Thread, HangUpReturns(t), up' = up,
              UNCHANGED <<streamMap, created, peerOf, hasPc, lbl, made, src, ice>>,
              freed' \subseteq 1..created,
              peerMap' \in [PeerId -> Obs \cup {Null}]
       PROVE  Inv'
  <2>1. CASE op[t] \in Making
    BY <1>00, <2>1 DEF HangUpReturns
  <2>2. CASE op[t] \notin Making
    BY <1>0, <1>00, <2>2 DEF HangUpReturns
  <2>3. QED
    BY <2>1, <2>2
<1>1. ASSUME NEW t \in Thread, NEW f \in Op \cap Making, StartMaking(t, f)
      PROVE  Inv'
  BY <1>1 DEF StartMaking, Ops
<1>2. ASSUME NEW t \in Thread, NEW p \in PeerId, StartHangUp(t, p)
      PROVE  Inv'
  BY <1>2 DEF StartHangUp, Ops
<1>3. ASSUME NEW t \in Thread, NEW p \in PeerId, SetAnswerLookup(t, p)
      PROVE  Inv'
  BY <1>3 DEF SetAnswerLookup, Ops, RegisteredObservers, Live
<1>4. ASSUME NEW t \in Thread, SetAnswerApply(t)
      PROVE  Inv'
  BY <1>0, <1>4 DEF SetAnswerApply
<1>5. ASSUME NEW t \in Thread, GetOldest(t)
      PROVE  Inv'
  <2>1. PICK p \in OldestPeer :
            IF p = Empty
            THEN Goto(t, "create") /\ UNCHANGED hup
            ELSE Goto(t, "find") /\ hup' = [hup EXCEPT ![t] = p]
    BY <1>5 DEF GetOldest
  <2>2. p \in PeerId \cup {Empty}
    BY DEF OldestPeer, Registered, RegisteredObservers
  <2>3. QED
    BY <1>5, <2>1, <2>2 DEF GetOldest
<1>6. ASSUME NEW t \in Thread, NEW p \in PeerId, NEW l \in Label, NEW ok \in BOOLEAN,
             CreatePeerConnection(t, p, l, ok)
      PROVE  Inv'
  <2>1. /\ created + 1 \in Obs
        /\ created' \in 0..MaxObs
        /\ 1..created' = 1..created \cup {created + 1}
    BY <1>6, ConstantsAssumption DEF CreatePeerConnection
  <2>2. AfterCreate(op[t], ok) \in {"lookup", "register", "discard"}
    BY DEF AfterCreate
  <2>3. AfterCreate(op[t], ok) = "register" => ok
    BY DEF AfterCreate
  <2>4. TypeOK'
    BY <1>6, <2>1, <2>2 DEF CreatePeerConnection
  <2>5. Allocated'
    BY <1>6, <2>1, <2>2, <2>3 DEF CreatePeerConnection
  <2>6. QED
    BY <2>4, <2>5
<1>7. ASSUME NEW t \in Thread, Discard(t)
      PROVE  Inv'
  BY <1>0, <1>7 DEF Discard
<1>8. ASSUME NEW t \in Thread, Register(t)
      PROVE  Inv'
  BY <1>8 DEF Register, InsertPeer
<1>9. ASSUME Crash
      PROVE  Inv'
  BY <1>9 DEF Crash
<1>10. ASSUME NEW t \in Thread, LookupStream(t)
       PROVE  Inv'
  <2>1. CASE Crash
    BY <1>9, <2>1
  <2>2. CASE ~Crash
    <3>1. /\ \E l \in {"insert", "attach"} : pc' = [pc EXCEPT ![t] = l]
          /\ pc[t] = "lookup"
          /\ UNCHANGED <<peerMap, streamMap, obsVars, op, ptr, hup, todo, up>>
      BY <1>10, <2>2 DEF LookupStream
    <3>2. TypeOK'
      BY <3>1
    <3>3. Allocated'
      BY <3>1
    <3>4. QED
      BY <3>2, <3>3
  <2>3. QED
    BY <2>1, <2>2
<1>11. ASSUME NEW t \in Thread, NEW ks \in SUBSET Kind, CreateSources(t, ks)
       PROVE  Inv'
  BY <1>11 DEF CreateSources, InsertStream
<1>12. ASSUME NEW t \in Thread, AttachTracks(t)
       PROVE  Inv'
  <2> DEFINE o == ptr[t]
             e == streamMap[lbl[o]]
  <2>1. /\ pc[t] = "attach"
        /\ o \in 1..created
        /\ o \in Obs
        /\ e \in Obs \cup {Null}
    BY <1>12 DEF AttachTracks
  <2>2. CASE AttachableSources(e) # {} /\ ~hasPc[o]
    BY <1>9, <1>12, <2>2 DEF AttachTracks
  <2>3. CASE AttachableSources(e) # {} /\ hasPc[o] /\ o \notin freed
    <3>1. /\ src' = [src EXCEPT ![o] = e]
          /\ pc' = [pc EXCEPT ![t] = IF op[t] = "createOffer" THEN "register"
                                                             ELSE "negotiate"]
          /\ UNCHANGED <<peerMap, streamMap, created, freed, peerOf, hasPc, lbl, made, ice,
                         op, ptr, hup, todo, up>>
      BY <1>12, <2>3 DEF AttachTracks
    <3>2. TypeOK'
      BY <2>1, <3>1
    <3>3. Allocated'
      BY <2>1, <2>3, <3>1
    <3>4. QED
      BY <3>2, <3>3
  <2>4. CASE ~(AttachableSources(e) # {} /\ (~hasPc[o] \/ o \notin freed))
    BY <1>0, <1>12, <2>4 DEF AttachTracks
  <2>5. QED
    BY <2>2, <2>3, <2>4
<1>13. ASSUME NEW t \in Thread, Negotiate(t)
       PROVE  Inv'
  <2>1. ice' \in [Obs -> {"new", "offered", "active", "failed"}]
    BY <1>13 DEF Negotiate
  <2>2. CASE op[t] = "whep"
    BY <1>13, <2>1, <2>2 DEF Negotiate
  <2>3. CASE op[t] # "whep"
    BY <1>0, <1>13, <2>1, <2>3 DEF Negotiate
  <2>4. QED
    BY <2>2, <2>3
<1>14. ASSUME NEW t \in Thread, WaitGathering(t)
       PROVE  Inv'
  <2>1. CASE Crash
    BY <1>9, <2>1
  <2>2. CASE ~Crash
    BY <1>0, <1>14, <2>2 DEF WaitGathering
  <2>3. QED
    BY <2>1, <2>2
<1>15. ASSUME NEW o \in Obs, NEW r \in Thread, OnIceConnectionChange(o, r)
       PROVE  Inv'
  BY <1>15 DEF OnIceConnectionChange, Live
<1>16. ASSUME NEW r \in Thread, ReaperRuns(r)
       PROVE  Inv'
  <2>1. CASE Crash
    BY <1>9, <2>1
  <2>2. CASE ~Crash
    <3>1. /\ \E p \in PeerId : hup' = [hup EXCEPT ![r] = p]
          /\ pc' = [pc EXCEPT ![r] = "find"]
          /\ ptr' = [ptr EXCEPT ![r] = Null]
          /\ UNCHANGED <<peerMap, streamMap, obsVars, op, todo, up>>
      BY <1>16, <2>2 DEF ReaperRuns
    <3>2. TypeOK'
      BY <3>1
    <3>3. Allocated'
      BY <3>1
    <3>4. QED
      BY <3>2, <3>3
  <2>3. QED
    BY <2>1, <2>2
<1>17. ASSUME NEW t \in Thread, HangUpFind(t)
       PROVE  Inv'
  <2>1. CASE peerMap[hup[t]] = Null
    BY <1>00, <1>17, <2>1 DEF HangUpFind
  <2>2. CASE peerMap[hup[t]] # Null
    BY <1>17, <2>2 DEF HangUpFind, RegisteredObservers, Live
  <2>3. QED
    BY <2>1, <2>2
<1>18. ASSUME NEW t \in Thread, HangUpSenders(t)
       PROVE  Inv'
  BY <1>18, SenderCount DEF HangUpSenders
<1>19. ASSUME NEW t \in Thread, NextSender(t), pc[t] \in {"check", "erase"},
              UNCHANGED <<peerMap, obsVars, op, ptr, hup, up>>,
              streamMap' \in [Label -> Obs \cup {Null}]
       PROVE  Inv'
  BY <1>19 DEF NextSender
<1>20. ASSUME NEW t \in Thread, HangUpCheck(t)
       PROVE  Inv'
  BY <1>19, <1>20 DEF HangUpCheck
<1>21. ASSUME NEW t \in Thread, HangUpErase(t)
       PROVE  Inv'
  BY <1>19, <1>21 DEF HangUpErase
<1>22. ASSUME NEW t \in Thread, HangUpDelete(t)
       PROVE  Inv'
  BY <1>00, <1>22 DEF HangUpDelete
<1>23. CASE UNCHANGED vars
  BY <1>23 DEF vars
<1> HIDE DEF Inv, TypeOK, Allocated, Pointing, HangingUp, Location, obsVars, threadVars,
             At, Goto
<1>24. QED
  BY <1>1, <1>2, <1>3, <1>4, <1>5, <1>6, <1>7, <1>8, <1>10, <1>11, <1>12, <1>13, <1>14,
     <1>15, <1>16, <1>17, <1>18, <1>20, <1>21, <1>22, <1>23
  DEF Next, Request, Handle, HangUp, Crashed, Thread

-----------------------------------------------------------------------------
(* Every step does one of six things with the observers.                   *)

\* Only thread t moves.
Alone(t) == \A u \in Thread \ {t} : pc'[u] = pc[u] /\ op'[u] = op[u] /\ ptr'[u] = ptr[u]

\* What t owns, the map and the observers stay as they are.
Stays(t) ==
    /\ UNCHANGED <<peerMap, created, freed, peerOf, hasPc>>
    /\ Owns(t)' <=> Owns(t)
    /\ Owns(t) => ptr'[t] = ptr[t]
    /\ pc'[t] \in HangingUp => pc[t] \in HangingUp

Makes(t) ==
    /\ ~Owns(t) /\ Owns(t)'
    /\ created' = created + 1
    /\ ptr'[t] = created + 1
    /\ \A o \in 1..created : peerOf'[o] = peerOf[o] /\ hasPc'[o] = hasPc[o]
    /\ pc'[t] \notin HangingUp
    /\ UNCHANGED <<peerMap, freed>>

Publishes(t) ==
    /\ Owns(t) /\ ~Owns(t)'
    /\ pc[t] = "register"
    /\ peerMap[peerOf[ptr[t]]] = Null
    /\ peerMap' = [peerMap EXCEPT ![peerOf[ptr[t]]] = ptr[t]]
    /\ UNCHANGED <<created, freed, peerOf, hasPc>>

Loses(t) ==
    /\ Owns(t) /\ ~Owns(t)'
    /\ pc[t] \notin HangingUp
    /\ UNCHANGED <<peerMap, created, freed, peerOf, hasPc>>

Takes(t) ==
    /\ ~Owns(t) /\ Owns(t)'
    /\ \E p \in PeerId : /\ peerMap[p] # Null
                         /\ peerMap' = [peerMap EXCEPT ![p] = Null]
                         /\ ptr'[t] = peerMap[p]
    /\ UNCHANGED <<created, freed, peerOf, hasPc>>

Deletes(t) ==
    /\ Owns(t) /\ ~Owns(t)'
    /\ freed' = freed \cup {ptr[t]}
    /\ UNCHANGED <<peerMap, created, peerOf, hasPc>>

Effect(t) ==
    /\ Alone(t)
    /\ \/ Stays(t) \/ Makes(t) \/ Publishes(t) \/ Loses(t) \/ Takes(t) \/ Deletes(t)

\* Nothing that ownership depends on changes.
Idles == UNCHANGED <<peerMap, created, freed, peerOf, hasPc, pc, op, ptr>>

\* Seen from the observers, every step of a thread is one of six: it leaves them
\* alone, makes one, registers one, loses one that is not registered, takes one out
\* of the map, or deletes one.
LEMMA EffectOfStep ==
    ASSUME Inv, [Next]_vars
    PROVE  Idles \/ \E t \in Thread : Effect(t)
<1> USE DEF Effect, Alone, At, Goto, Owns, HangingUp, Inv, obsVars, threadVars
<1> TypeOK
  BY DEF Inv
<1> USE DEF TypeOK
<1>0. ASSUME NEW t \in Thread, Return(t), ~Owns(t),
             UNCHANGED <<peerMap, created, freed, peerOf, hasPc>>
      PROVE  Effect(t)
  BY <1>0 DEF Return, Stays
<1>1. ASSUME NEW t \in Thread, NEW f \in Op \cap Making, StartMaking(t, f)
      PROVE  Effect(t)
  BY <1>1 DEF StartMaking, Stays
<1>2. ASSUME NEW t \in Thread, NEW p \in PeerId, StartHangUp(t, p)
      PROVE  Effect(t)
  BY <1>2 DEF StartHangUp, Stays
<1>3. ASSUME NEW t \in Thread, NEW p \in PeerId, SetAnswerLookup(t, p)
      PROVE  Effect(t)
  BY <1>3 DEF SetAnswerLookup, Stays
<1>4. ASSUME NEW t \in Thread, SetAnswerApply(t)
      PROVE  Effect(t)
  BY <1>0, <1>4 DEF SetAnswerApply
<1>5. ASSUME NEW t \in Thread, GetOldest(t)
      PROVE  Effect(t)
  BY <1>5 DEF GetOldest, Stays
<1>6. ASSUME NEW t \in Thread, NEW p \in PeerId, NEW l \in Label, NEW ok \in BOOLEAN,
             CreatePeerConnection(t, p, l, ok)
      PROVE  Effect(t)
  <2>1. Owns(t)' /\ pc'[t] \notin HangingUp
    BY <1>6 DEF CreatePeerConnection, AfterCreate
  <2>2. QED
    BY <1>6, <2>1 DEF CreatePeerConnection, Makes
<1>7. ASSUME NEW t \in Thread, Discard(t)
      PROVE  Effect(t)
  BY <1>7 DEF Discard, Return, Deletes
<1>8. ASSUME NEW t \in Thread, Register(t)
      PROVE  Effect(t)
  <2>1. CASE peerMap[peerOf[ptr[t]]] = Null
    BY <1>8, <2>1 DEF Register, InsertPeer, Publishes
  <2>2. CASE peerMap[peerOf[ptr[t]]] # Null
    BY <1>8, <2>2 DEF Register, InsertPeer, Loses
  <2>3. QED
    BY <2>1, <2>2
<1>9. ASSUME Crash
      PROVE  Idles
  BY <1>9 DEF Crash, Idles
<1>10. ASSUME NEW t \in Thread, LookupStream(t), ~Crash
       PROVE  Effect(t)
  BY <1>10 DEF LookupStream, Stays
<1>11. ASSUME NEW t \in Thread, NEW ks \in SUBSET Kind, CreateSources(t, ks)
       PROVE  Effect(t)
  BY <1>11 DEF CreateSources, Stays
<1>12. ASSUME NEW t \in Thread, AttachTracks(t), ~Crash
       PROVE  Effect(t)
  <2>1. /\ pc[t] = "attach"
        /\ UNCHANGED <<peerMap, created, freed, peerOf, hasPc>>
    BY <1>12 DEF AttachTracks
  <2>2. CASE Return(t)
    <3>1. CASE op[t] = "createOffer"
      BY <2>1, <2>2, <3>1 DEF Return, Loses
    <3>2. CASE op[t] # "createOffer"
      BY <1>0, <2>1, <2>2, <3>2
    <3>3. QED
      BY <3>1, <3>2
  <2>3. CASE ~Return(t)
    <3>1. /\ pc' = [pc EXCEPT ![t] = IF op[t] = "createOffer" THEN "register"
                                                            ELSE "negotiate"]
          /\ UNCHANGED <<op, ptr>>
      BY <1>12, <2>3 DEF AttachTracks
    <3>2. QED
      BY <2>1, <3>1 DEF Stays
  <2>4. QED
    BY <2>2, <2>3
<1>13. ASSUME NEW t \in Thread, Negotiate(t)
       PROVE  Effect(t)
  <2>1. CASE op[t] = "whep"
    BY <1>13, <2>1 DEF Negotiate, Stays
  <2>2. CASE op[t] # "whep"
    BY <1>0, <1>13, <2>2 DEF Negotiate
  <2>3. QED
    BY <2>1, <2>2
<1>14. ASSUME NEW t \in Thread, WaitGathering(t), ~Crash
       PROVE  Effect(t)
  BY <1>0, <1>14 DEF WaitGathering
<1>15. ASSUME NEW o \in Obs, NEW r \in Thread, OnIceConnectionChange(o, r)
       PROVE  Effect(r)
  BY <1>15 DEF OnIceConnectionChange, Stays
<1>16. ASSUME NEW r \in Thread, ReaperRuns(r), ~Crash
       PROVE  Effect(r)
  BY <1>16 DEF ReaperRuns, Stays
<1>17. ASSUME NEW t \in Thread, HangUpFind(t)
       PROVE  Effect(t)
  <2>1. CASE peerMap[hup[t]] = Null
    BY <1>17, <2>1 DEF HangUpFind, HangUpReturns, Return, Stays
  <2>2. CASE peerMap[hup[t]] # Null
    <3>1. hup[t] \in PeerId
      BY <1>17 DEF HangUpFind, Allocated
    <3>2. QED
      BY <1>17, <2>2, <3>1 DEF HangUpFind, Takes
  <2>3. QED
    BY <2>1, <2>2
<1>18. ASSUME NEW t \in Thread, HangUpSenders(t)
       PROVE  Effect(t)
  BY <1>18 DEF HangUpSenders, Stays
<1>19. ASSUME NEW t \in Thread, HangUpCheck(t)
       PROVE  Effect(t)
  BY <1>19 DEF HangUpCheck, NextSender, Stays
<1>20. ASSUME NEW t \in Thread, HangUpErase(t)
       PROVE  Effect(t)
  BY <1>20 DEF HangUpErase, NextSender, Stays
<1>21. ASSUME NEW t \in Thread, HangUpDelete(t)
       PROVE  Effect(t)
  BY <1>21 DEF HangUpDelete, HangUpReturns, Return, Deletes
<1>22. CASE UNCHANGED vars
  BY <1>22 DEF vars, Idles
<1> HIDE DEF Effect, Alone, At, Goto, Owns, HangingUp, Inv, obsVars, threadVars, TypeOK
<1>23. QED
  BY <1>1, <1>2, <1>3, <1>4, <1>5, <1>6, <1>7, <1>8, <1>9, <1>10, <1>11, <1>12, <1>13,
     <1>14, <1>15, <1>16, <1>17, <1>18, <1>19, <1>20, <1>21, <1>22
  DEF Next, Request, Handle, HangUp, Crashed, Thread

-----------------------------------------------------------------------------
(* Ownership is preserved, whatever a step does with the observers.        *)

OwnershipInv == Inv /\ RegisteredObservers /\ ExclusiveOwnership

\* No effect puts into m_peer_connectionobs_map an observer that was deleted, has no
\* PeerConnection or is filed under another peer id.
LEMMA RegisteredStep ==
    ASSUME OwnershipInv, Inv', NEW t \in Thread, Effect(t)
    PROVE  RegisteredObservers'
<1> USE DEF RegisteredObservers, OwnershipInv, Inv, Live
<1> TypeOK /\ Allocated /\ Allocated' /\ TypeOK'
  OBVIOUS
<1>1. CASE Stays(t)
  BY <1>1 DEF Stays
<1>2. CASE Makes(t)
  <2>1. 1..created \subseteq 1..created'
    BY <1>2 DEF Makes, TypeOK
  <2>2. QED
    BY <1>2, <2>1 DEF Makes
<1>3. CASE Publishes(t)
  <2>1. ptr[t] \in 1..created /\ ptr[t] \notin freed /\ hasPc[ptr[t]]
    BY <1>3 DEF Publishes, ExclusiveOwnership, Allocated
  <2>2. QED
    BY <1>3, <2>1 DEF Publishes, TypeOK
<1>4. CASE Loses(t)
  BY <1>4 DEF Loses
<1>5. CASE Takes(t)
  BY <1>5 DEF Takes, TypeOK
<1>6. CASE Deletes(t)
  <2>1. \A p \in PeerId : peerMap[p] # Null => peerMap[p] # ptr[t]
    BY <1>6 DEF Deletes, ExclusiveOwnership, Registered
  <2>2. QED
    BY <1>6, <2>1 DEF Deletes
<1>7. QED
  BY <1>1, <1>2, <1>3, <1>4, <1>5, <1>6 DEF Effect

\* No effect gives an observer a second owner.
LEMMA ExclusiveStep ==
    ASSUME OwnershipInv, Inv', NEW t \in Thread, Effect(t)
    PROVE  ExclusiveOwnership'
<1> USE DEF OwnershipInv, Inv
<1> TypeOK /\ Allocated
  OBVIOUS
<1>1. ASSUME NEW u \in Thread, u # t
      PROVE  /\ pc'[u] = pc[u] /\ ptr'[u] = ptr[u]
             /\ Owns(u)' <=> Owns(u)
  BY <1>1 DEF Effect, Alone, Owns
<1>2. CASE Stays(t)
  <2>1. Live' = Live /\ Registered' = Registered
    BY <1>2 DEF Stays, Live, Registered
  <2>2. QED
    BY <1>1, <1>2, <2>1 DEF Stays, ExclusiveOwnership
<1>3. CASE Makes(t)
  <2>0. created \in Nat /\ created' = created + 1
    BY <1>3, ConstantsAssumption DEF Makes, TypeOK
  <2>1. 1..created' = 1..created \cup {created + 1} /\ created + 1 \notin 1..created
    BY <2>0
  <2>2. Live' = Live \cup {created + 1} /\ Registered' = Registered
    BY <1>3, <2>1 DEF Makes, Live, Registered, Allocated
  <2>3. created + 1 \notin Registered
    BY <2>1 DEF Registered, RegisteredObservers, Live
  <2>4. \A u \in Thread : Owns(u) => ptr[u] \in 1..created
    BY DEF ExclusiveOwnership, Live
  <2>5. QED
    BY <1>1, <1>3, <2>1, <2>2, <2>3, <2>4 DEF Makes, ExclusiveOwnership
<1>4. CASE Publishes(t)
  <2>1. Live' = Live /\ Registered' \subseteq Registered \cup {ptr[t]}
    BY <1>4 DEF Publishes, Live, Registered, TypeOK
  <2>2. QED
    BY <1>1, <1>4, <2>1 DEF Publishes, ExclusiveOwnership
<1>5. CASE Loses(t)
  <2>1. Live' = Live /\ Registered' = Registered
    BY <1>5 DEF Loses, Live, Registered
  <2>2. QED
    BY <1>1, <1>5, <2>1 DEF Loses, ExclusiveOwnership
<1>6. CASE Takes(t)
  <2>1. PICK p \in PeerId : /\ peerMap[p] # Null
                            /\ peerMap' = [peerMap EXCEPT ![p] = Null]
                            /\ ptr'[t] = peerMap[p]
    BY <1>6 DEF Takes
  <2>2. Live' = Live /\ Registered' \subseteq Registered
    BY <1>6, <2>1 DEF Takes, Live, Registered, TypeOK
  <2>3. peerMap[p] \in Registered /\ peerMap[p] \in Live /\ hasPc[peerMap[p]]
    BY <2>1 DEF Registered, RegisteredObservers
  <2>4. peerMap[p] \notin Registered'
    <3>1. \A q \in PeerId : q # p /\ peerMap[q] # Null => peerMap[q] # peerMap[p]
      BY <2>1 DEF RegisteredObservers
    <3>2. \A q \in PeerId : peerMap'[q] # Null => peerMap'[q] # peerMap[p]
      BY <2>1, <3>1 DEF TypeOK
    <3>3. QED
      BY <2>1, <3>2 DEF Registered
  <2>5. QED
    BY <1>1, <1>6, <2>1, <2>2, <2>3, <2>4 DEF Takes, ExclusiveOwnership
<1>7. CASE Deletes(t)
  <2>1. Live' = Live \ {ptr[t]} /\ Registered' = Registered
    BY <1>7 DEF Deletes, Live, Registered
  <2>2. QED
    BY <1>1, <1>7, <2>1 DEF Deletes, ExclusiveOwnership
<1>8. QED
  BY <1>2, <1>3, <1>4, <1>5, <1>6, <1>7 DEF Effect

\* The inductive step of OwnershipInv, from the two lemmas above.
LEMMA OwnershipStep ==
    ASSUME OwnershipInv, [Next]_vars
    PROVE  OwnershipInv'
<1>1. Inv'
  BY InvStep DEF OwnershipInv
<1>2. CASE Idles
  BY <1>1, <1>2 DEF Idles, OwnershipInv, RegisteredObservers, ExclusiveOwnership, Owns, Live,
                    Registered
<1>3. CASE \E t \in Thread : Effect(t)
  BY <1>1, <1>3, RegisteredStep, ExclusiveStep DEF OwnershipInv
<1>4. QED
  BY <1>2, <1>3, EffectOfStep DEF OwnershipInv

\* OwnershipInv is inductive: it holds in every reachable state.
THEOREM OwnershipAlways == Spec => []OwnershipInv
<1>1. Init => OwnershipInv
  BY InitInv DEF OwnershipInv
<1>2. OwnershipInv /\ [Next]_vars => OwnershipInv'
  BY OwnershipStep
<1>3. QED
  BY <1>1, <1>2, PTL DEF Spec

\* The variables of PeerConnectionManager keep their types.
THEOREM TypeCorrect == Spec => []TypeOK
<1>1. OwnershipInv => TypeOK
  BY DEF OwnershipInv, Inv
<1>2. QED
  BY <1>1, OwnershipAlways, PTL

\* Under m_peerMapMutex every pointer of the map may be dereferenced: it is to an
\* observer that exists, has a PeerConnection and is filed under its own peer id.
THEOREM RegisteredAlways == Spec => []RegisteredObservers
<1>1. OwnershipInv => RegisteredObservers
  BY DEF OwnershipInv
<1>2. QED
  BY <1>1, OwnershipAlways, PTL

\* Whoever publishes or deletes an observer is its only owner: hangUp never deletes
\* an observer twice and never one that is in the map.
THEOREM ExclusiveAlways == Spec => []ExclusiveOwnership
<1>1. OwnershipInv => ExclusiveOwnership
  BY DEF OwnershipInv
<1>2. QED
  BY <1>1, OwnershipAlways, PTL

-----------------------------------------------------------------------------
(* Refinement: every step is a step of ObserverOwnership or stutters.      *)

\* Where an observer is, as OwnershipInv determines it.
OwnerFacts(o) ==
    /\ o \notin 1..created => OwnerOf(o) = "unborn"
    /\ o \in freed => OwnerOf(o) = "deleted"
    /\ o \in Registered => OwnerOf(o) = "map"
    /\ \A t \in Thread : Owns(t) /\ ptr[t] = o => OwnerOf(o) = t
    /\ o \in Live \ Registered /\ (\A t \in Thread : ~(Owns(t) /\ ptr[t] = o))
       => OwnerOf(o) = "lost"

OwnersAreKnown == \A o \in Obs : OwnerFacts(o)

\* Under the invariant the mapping gives every observer the owner it really has.
LEMMA OwnerIsKnown == OwnershipInv => OwnersAreKnown
<1> SUFFICES ASSUME OwnershipInv, NEW o \in Obs
             PROVE  OwnerFacts(o)
  BY DEF OwnersAreKnown
<1> USE DEF OwnershipInv, Inv, TypeOK
<1>1. o \in Nat /\ o >= 1 /\ created \in Nat
  BY ConstantsAssumption DEF Obs
<1>2. o \in 1..created <=> ~(o > created)
  BY <1>1
<1>3. freed \subseteq 1..created /\ Registered \subseteq Live
  BY DEF Allocated, Registered, RegisteredObservers
<1>4. ASSUME NEW t \in Thread, Owns(t), ptr[t] = o
      PROVE  OwnerOf(o) = t
  <2>1. o \in Live \ Registered
    BY <1>4 DEF ExclusiveOwnership
  <2>2. \A u \in Thread : Owns(u) /\ ptr[u] = o => u = t
    BY <1>4 DEF ExclusiveOwnership
  <2>3. (CHOOSE u \in Thread : Owns(u) /\ ptr[u] = o) = t
    BY <1>4, <2>2
  <2>4. QED
    BY <1>2, <1>4, <2>1, <2>3 DEF OwnerOf, Live
<1> HIDE DEF OwnershipInv, Inv, TypeOK
<1>5. o \notin 1..created => OwnerOf(o) = "unborn"
  BY <1>2 DEF OwnerOf
<1>6. o \in freed => OwnerOf(o) = "deleted"
  BY <1>2, <1>3 DEF OwnerOf
<1>7. o \in Registered => OwnerOf(o) = "map"
  BY <1>2, <1>3 DEF OwnerOf, Live
<1>8. o \in Live \ Registered /\ (\A t \in Thread : ~(Owns(t) /\ ptr[t] = o))
      => OwnerOf(o) = "lost"
  BY <1>2 DEF OwnerOf, Live
<1>9. QED
  BY <1>4, <1>5, <1>6, <1>7, <1>8 DEF OwnerFacts

\* The same after a step.
LEMMA OwnerIsKnownNext == OwnershipInv' => OwnersAreKnown'
BY OwnerIsKnown, PTL

Owner == [o \in Obs |-> OwnerOf(o)]

\* Observers that thread t does not hold before or after its step keep their owner.
LEMMA OtherOwners ==
    ASSUME OwnershipInv, OwnershipInv', NEW t \in Thread, Alone(t), NEW o \in Obs,
           ~(Owns(t) /\ ptr[t] = o), ~(Owns(t)' /\ ptr'[t] = o),
           o \in 1..created <=> o \in 1..created',
           o \in freed <=> o \in freed',
           o \in Registered <=> o \in Registered'
    PROVE  OwnerOf(o)' = OwnerOf(o)
<1>0. OwnerFacts(o) /\ OwnerFacts(o)'
  BY OwnerIsKnown, OwnerIsKnownNext DEF OwnersAreKnown
<1>1. \A u \in Thread : u # t => ((Owns(u) /\ ptr[u] = o) <=> (Owns(u)' /\ ptr'[u] = o))
  BY DEF Alone, Owns
<1>2. CASE \E u \in Thread : Owns(u) /\ ptr[u] = o
  BY <1>0, <1>1, <1>2 DEF OwnerFacts
<1>3. CASE ~\E u \in Thread : Owns(u) /\ ptr[u] = o
  BY <1>0, <1>1, <1>3 DEF OwnerFacts, Live
<1>4. QED
  BY <1>2, <1>3

\* Every effect of a thread is a step of ObserverOwnership or leaves its variables
\* alone.
LEMMA RefinementStep ==
    ASSUME OwnershipInv, OwnershipInv', NEW t \in Thread, Effect(t)
    PROVE  Ownership!Next \/ UNCHANGED Ownership!vars
<1> USE DEF Ownership!Next, Ownership!vars
<1>0. OwnersAreKnown /\ OwnersAreKnown' /\ Alone(t) /\ TypeOK /\ Allocated
  BY OwnerIsKnown, OwnerIsKnownNext DEF OwnershipInv, Inv, Effect
<1>1. ASSUME NEW o \in Obs, NEW v, OwnerOf(o)' = v,
             \A q \in Obs : q # o => OwnerOf(q)' = OwnerOf(q)
      PROVE  Owner' = [Owner EXCEPT ![o] = v]
  BY <1>1 DEF Owner
<1>2. Owns(t) => ptr[t] \in Obs /\ ptr[t] \in Live \ Registered /\ OwnerOf(ptr[t]) = t
  BY <1>0, ObsFacts DEF OwnershipInv, ExclusiveOwnership, OwnersAreKnown, OwnerFacts, Live
<1>3. CASE Stays(t)
  <2>1. Registered' = Registered
    BY <1>3 DEF Stays, Registered
  <2>2. ASSUME NEW o \in Obs
        PROVE  OwnerOf(o)' = OwnerOf(o)
    <3>1. CASE Owns(t) /\ ptr[t] = o
      BY <1>0, <1>3, <3>1 DEF Stays, OwnersAreKnown, OwnerFacts
    <3>2. CASE ~(Owns(t) /\ ptr[t] = o)
      BY <1>0, <1>3, <2>1, <3>2, OtherOwners DEF Stays
    <3>3. QED
      BY <3>1, <3>2
  <2>3. QED
    BY <1>3, <2>2 DEF Stays
<1>4. CASE Makes(t)
  <2>0. /\ created \in Nat /\ created' \in 0..MaxObs /\ created' = created + 1
        /\ created + 1 \in Obs
    BY <1>0, <1>4, ConstantsAssumption DEF Makes, TypeOK, OwnershipInv, Inv, Obs
  <2>1. PICK o \in Obs : o = created + 1
    BY <2>0
  <2>2. 1..created' = 1..created \cup {o} /\ o \notin 1..created
    BY <2>0, <2>1
  <2>3. OwnerOf(o) = "unborn" /\ OwnerOf(o)' = t
    BY <1>0, <1>4, <2>1, <2>2 DEF Makes, OwnersAreKnown, OwnerFacts
  <2>4. Registered' = Registered
    BY <1>4 DEF Makes, Registered
  <2>5. \A q \in Obs : q # o => OwnerOf(q)' = OwnerOf(q)
    BY <1>0, <1>4, <2>1, <2>2, <2>4, OtherOwners DEF Makes
  <2>6. Ownership!Create(t, o)
    BY <1>1, <1>4, <2>1, <2>3, <2>5 DEF Ownership!Create, Owner, Makes
  <2>7. QED
    BY <2>6
<1>5. CASE Publishes(t)
  <2>0. PICK o \in Obs, p \in PeerId : o = ptr[t] /\ p = peerOf[ptr[t]]
    BY <1>0, <1>2, <1>5 DEF Publishes, Allocated, Live
  <2>1. o \in Live \ Registered /\ OwnerOf(o) = t
    BY <1>2, <1>5, <2>0 DEF Publishes
  <2>2. Registered' = Registered \cup {o}
    <3>1. peerMap'[p] = o /\ \A q \in PeerId : q # p => peerMap'[q] = peerMap[q]
      BY <1>0, <1>5, <2>0 DEF Publishes, TypeOK
    <3>2. o # Null /\ peerMap[p] = Null
      BY <1>0, <1>5, <2>0, ObsFacts DEF Publishes
    <3>3. QED
      BY <3>1, <3>2 DEF Registered
  <2>3. OwnerOf(o)' = "map"
    BY <1>0, <2>1, <2>2 DEF OwnersAreKnown, OwnerFacts
  <2>4. \A q \in Obs : q # o => OwnerOf(q)' = OwnerOf(q)
    BY <1>0, <1>5, <2>0, <2>2, OtherOwners DEF Publishes
  <2>5. Ownership!Publish(t, o, p)
    BY <1>1, <1>5, <2>0, <2>1, <2>3, <2>4 DEF Ownership!Publish, Owner, Publishes
  <2>6. QED
    BY <2>5
<1>6. CASE Loses(t)
  <2>0. PICK o \in Obs : o = ptr[t]
    BY <1>2, <1>6 DEF Loses
  <2>1. o \in Live \ Registered /\ OwnerOf(o) = t
    BY <1>2, <1>6, <2>0 DEF Loses
  <2>2. Registered' = Registered /\ Live' = Live
    BY <1>6 DEF Loses, Registered, Live
  <2>3. \A u \in Thread : ~(Owns(u)' /\ ptr'[u] = o)
    BY <1>0, <1>6, <2>0 DEF Loses, Alone, Owns, OwnershipInv, ExclusiveOwnership
  <2>4. OwnerOf(o)' = "lost"
    BY <1>0, <2>1, <2>2, <2>3 DEF OwnersAreKnown, OwnerFacts
  <2>5. \A q \in Obs : q # o => OwnerOf(q)' = OwnerOf(q)
    BY <1>0, <1>6, <2>0, <2>2, OtherOwners DEF Loses
  <2>6. Ownership!Lose(t, o)
    BY <1>1, <1>6, <2>0, <2>1, <2>4, <2>5 DEF Ownership!Lose, Owner, Loses
  <2>7. QED
    BY <2>6
<1>7. CASE Takes(t)
  <2>1. PICK p \in PeerId : /\ peerMap[p] # Null
                            /\ peerMap' = [peerMap EXCEPT ![p] = Null]
                            /\ ptr'[t] = peerMap[p]
    BY <1>7 DEF Takes
  <2>0. PICK o \in Obs : o = peerMap[p]
    BY <1>0, <2>1 DEF TypeOK
  <2>2. o \in Registered /\ OwnerOf(o) = "map"
    BY <1>0, <2>0, <2>1 DEF Registered, OwnersAreKnown, OwnerFacts
  <2>3. OwnerOf(o)' = t
    BY <1>0, <1>7, <2>0, <2>1 DEF Takes, OwnersAreKnown, OwnerFacts
  <2>4. ASSUME NEW q \in Obs, q # o
        PROVE  q \in Registered <=> q \in Registered'
    BY <1>0, <2>0, <2>1, <2>4 DEF Registered, TypeOK
  <2>5. \A q \in Obs : q # o => OwnerOf(q)' = OwnerOf(q)
    BY <1>0, <1>7, <2>0, <2>1, <2>4, OtherOwners DEF Takes
  <2>6. Ownership!Take(t, p)
    BY <1>1, <2>0, <2>1, <2>2, <2>3, <2>5 DEF Ownership!Take, Owner
  <2>7. QED
    BY <2>6
<1>8. CASE Deletes(t)
  <2>0. PICK o \in Obs : o = ptr[t]
    BY <1>2, <1>8 DEF Deletes
  <2>1. OwnerOf(o) = t
    BY <1>2, <1>8, <2>0 DEF Deletes
  <2>2. Registered' = Registered
    BY <1>8 DEF Deletes, Registered
  <2>3. OwnerOf(o)' = "deleted"
    BY <1>0, <1>8, <2>0 DEF Deletes, OwnersAreKnown, OwnerFacts
  <2>4. \A q \in Obs : q # o => OwnerOf(q)' = OwnerOf(q)
    BY <1>0, <1>8, <2>0, <2>2, OtherOwners DEF Deletes
  <2>5. Ownership!Delete(t, o)
    BY <1>1, <1>8, <2>0, <2>1, <2>3, <2>4 DEF Ownership!Delete, Owner, Deletes
  <2>6. QED
    BY <2>5
<1>9. QED
  BY <1>3, <1>4, <1>5, <1>6, <1>7, <1>8 DEF Effect

\* PeerConnectionManager implements ObserverOwnership: whatever requests, ICE failures
\* and hangUps interleave, observers are handed from thread to map to thread, and each
\* is deleted at most once, by the thread that took it.
THEOREM Refinement == Spec => ImplementsOwnership
<1>1. Init => Ownership!Init
  <2>1. Init => \A o \in Obs : OwnerOf(o) = "unborn"
    BY ConstantsAssumption DEF Init, OwnerOf, Obs
  <2>2. QED
    BY <2>1 DEF Init, Ownership!Init
<1>2. OwnershipInv /\ OwnershipInv' /\ [Next]_vars => [Ownership!Next]_(Ownership!vars)
  <2> SUFFICES ASSUME OwnershipInv, OwnershipInv', [Next]_vars
               PROVE  Ownership!Next \/ UNCHANGED Ownership!vars
    OBVIOUS
  <2>1. CASE Idles
    BY <2>1 DEF Idles, Ownership!vars, OwnerOf, Owns, Registered
  <2>2. CASE \E t \in Thread : Effect(t)
    BY <2>2, RefinementStep
  <2>3. QED
    BY <2>1, <2>2, EffectOfStep DEF OwnershipInv
<1>3. QED
  BY <1>1, <1>2, OwnershipAlways, PTL DEF Spec, ImplementsOwnership, Ownership!Spec

-----------------------------------------------------------------------------
(* Sources: every step does one of five things with them.                  *)

\* The thread will create the sources of its observer, or may yet.
Fresh(t) ==
    \/ pc[t] \in {"lookup", "insert"}
    \/ pc[t] = "register" /\ op[t] # "createOffer"

\* The thread runs hangUp.
HangsUp(t) == pc[t] \in {"find"} \cup HangingUp

\* Threads run hangUp: a client asks for it, --maxpc evicts, or ICE failed.
HangUpsHappen == "hangup" \in Op \/ MaxPc # 0 \/ Reaper # {}

\* Thread t moves and leaves sources, senders and m_stream_map alone.
Passes(t) ==
    /\ Alone(t)
    /\ UNCHANGED <<streamMap, created, lbl, made, src>>
    /\ Fresh(t)' => Fresh(t) /\ ptr'[t] = ptr[t]
    /\ \A o \in Registered' : o \in Registered \/ (pc[t] = "register" /\ o = ptr[t])
    /\ pc'[t] # "register"
    /\ pc'[t] = "erase" => /\ UNCHANGED <<peerMap, ptr>>
                           /\ ~StreamStillUsed(lbl[ptr[t]])
    /\ HangsUp(t)' => HangsUp(t) \/ HangUpsHappen

\* The tracks of t's observer are made of the sources of entry e.
Attaches(t) ==
    LET o == ptr[t]
        e == streamMap[lbl[o]]
    IN
    /\ pc[t] = "attach"
    /\ e # Null /\ made[e] # {}
    /\ src' = [src EXCEPT ![o] = e]
    /\ pc' = [pc EXCEPT ![t] = IF op[t] = "createOffer" THEN "register" ELSE "negotiate"]
    /\ UNCHANGED <<peerMap, streamMap, created, freed, peerOf, hasPc, lbl, made, ice, op, ptr, up>>

\* What a step does to the sources.
SourceEffect(t) ==
    \/ Passes(t)
    \/ \E p \in PeerId, l \in Label, ok \in BOOLEAN : CreatePeerConnection(t, p, l, ok)
    \/ \E ks \in SUBSET Kind : CreateSources(t, ks)
    \/ Attaches(t)
    \/ HangUpErase(t)

\* Nothing that sources depend on changes.
Rests == UNCHANGED <<peerMap, streamMap, created, lbl, made, src, pc, op, ptr>>

\* Seen from the sources, every step of a thread is one of five: it leaves them
\* alone, makes an observer, makes sources, attaches tracks, or erases an entry.
LEMMA SourceEffectOfStep ==
    ASSUME Inv, [Next]_vars
    PROVE  Rests \/ \E t \in Thread : SourceEffect(t)
<1> USE DEF Alone, At, Goto, HangingUp, obsVars, threadVars, Fresh, HangsUp, HangUpsHappen,
            Passes
<1> TypeOK /\ Allocated
  BY DEF Inv
<1> USE DEF TypeOK
<1>0. ASSUME NEW t \in Thread, Return(t),
             UNCHANGED <<peerMap, streamMap, created, lbl, made, src>>
      PROVE  Passes(t)
  BY <1>0 DEF Return, Registered
<1>00. ASSUME NEW t \in Thread, HangUpReturns(t), HangsUp(t),
              UNCHANGED <<peerMap, streamMap, created, lbl, made, src>>
       PROVE  Passes(t)
  BY <1>00 DEF HangUpReturns, Return, Registered
<1>1. ASSUME NEW t \in Thread, NEW f \in Op \cap Making, StartMaking(t, f)
      PROVE  Passes(t)
  BY <1>1 DEF StartMaking, Registered
<1>2. ASSUME NEW t \in Thread, NEW p \in PeerId, "hangup" \in Op, StartHangUp(t, p)
      PROVE  Passes(t)
  BY <1>2 DEF StartHangUp, Registered
<1>3. ASSUME NEW t \in Thread, NEW p \in PeerId, SetAnswerLookup(t, p)
      PROVE  Passes(t)
  BY <1>3 DEF SetAnswerLookup, Registered
<1>4. ASSUME NEW t \in Thread, SetAnswerApply(t)
      PROVE  Passes(t)
  BY <1>0, <1>4 DEF SetAnswerApply
<1>5. ASSUME NEW t \in Thread, GetOldest(t)
      PROVE  Passes(t)
  <2>1. /\ pc[t] = "oldest"
        /\ \E l \in {"create", "find"} : pc' = [pc EXCEPT ![t] = l]
        /\ UNCHANGED <<peerMap, streamMap, created, lbl, made, src, op, ptr>>
    BY <1>5 DEF GetOldest
  <2>2. pc'[t] = "find" => MaxPc # 0
    BY <1>5, ConstantsAssumption DEF GetOldest, OldestPeer, MapIsFull
  <2>3. QED
    BY <2>1, <2>2 DEF Registered
<1>6. ASSUME NEW t \in Thread, Discard(t)
      PROVE  Passes(t)
  BY <1>0, <1>6 DEF Discard
<1>7. ASSUME NEW t \in Thread, Register(t)
      PROVE  Passes(t)
  <2>1. /\ pc[t] = "register"
        /\ pc' = [pc EXCEPT ![t] = IF op[t] = "createOffer" THEN "negotiate" ELSE "lookup"]
        /\ UNCHANGED <<streamMap, created, lbl, made, src, op, ptr>>
    BY <1>7 DEF Register
  <2>2. \A o \in Registered' : o \in Registered \/ o = ptr[t]
    BY <1>7 DEF Register, InsertPeer, Registered
  <2>3. QED
    BY <2>1, <2>2
<1>8. ASSUME Crash
      PROVE  Rests
  BY <1>8 DEF Crash, Rests
<1>9. ASSUME NEW t \in Thread, LookupStream(t), ~Crash
      PROVE  Passes(t)
  <2>1. /\ \E l \in {"insert", "attach"} : pc' = [pc EXCEPT ![t] = l]
        /\ pc[t] = "lookup"
        /\ UNCHANGED <<peerMap, streamMap, created, lbl, made, src, op, ptr>>
    BY <1>9 DEF LookupStream
  <2>2. QED
    BY <2>1 DEF Registered
<1>10. ASSUME NEW t \in Thread, AttachTracks(t), ~Crash
       PROVE  Passes(t) \/ Attaches(t)
  <2> DEFINE e == streamMap[lbl[ptr[t]]]
  <2>1. CASE AttachableSources(e) # {} /\ hasPc[ptr[t]] /\ ptr[t] \notin freed
    BY <1>10, <2>1 DEF AttachTracks, Attaches, AttachableSources
  <2>2. CASE ~(AttachableSources(e) # {} /\ hasPc[ptr[t]] /\ ptr[t] \notin freed)
    BY <1>0, <1>10, <2>2 DEF AttachTracks
  <2>3. QED
    BY <2>1, <2>2
<1>11. ASSUME NEW t \in Thread, Negotiate(t)
       PROVE  Passes(t)
  <2>1. CASE op[t] = "whep"
    BY <1>11, <2>1 DEF Negotiate, Registered
  <2>2. CASE op[t] # "whep"
    BY <1>0, <1>11, <2>2 DEF Negotiate
  <2>3. QED
    BY <2>1, <2>2
<1>12. ASSUME NEW t \in Thread, WaitGathering(t), ~Crash
       PROVE  Passes(t)
  BY <1>0, <1>12 DEF WaitGathering
<1>13. ASSUME NEW o \in Obs, NEW r \in Reaper, OnIceConnectionChange(o, r)
       PROVE  Passes(r)
  BY <1>13 DEF OnIceConnectionChange, Registered, Thread
<1>14. ASSUME NEW r \in Reaper, ReaperRuns(r), ~Crash
       PROVE  Passes(r)
  <2>1. /\ pc' = [pc EXCEPT ![r] = "find"]
        /\ ptr' = [ptr EXCEPT ![r] = Null]
        /\ UNCHANGED <<peerMap, streamMap, created, lbl, made, src, op>>
    BY <1>14 DEF ReaperRuns
  <2>2. QED
    BY <1>14, <2>1 DEF Registered, Thread
<1>15. ASSUME NEW t \in Thread, HangUpFind(t)
       PROVE  Passes(t)
  <2>1. CASE peerMap[hup[t]] = Null
    BY <1>00, <1>15, <2>1 DEF HangUpFind
  <2>2. CASE peerMap[hup[t]] # Null
    <3>1. \A p \in PeerId : peerMap'[p] # Null => peerMap'[p] = peerMap[p]
      BY <1>15, <2>2 DEF HangUpFind
    <3>2. Registered' \subseteq Registered
      BY <3>1 DEF Registered
    <3>3. QED
      BY <1>15, <2>2, <3>2 DEF HangUpFind
  <2>3. QED
    BY <2>1, <2>2
<1>16. ASSUME NEW t \in Thread, HangUpSenders(t)
       PROVE  Passes(t)
  BY <1>16 DEF HangUpSenders, Registered
<1>17. ASSUME NEW t \in Thread, HangUpCheck(t)
       PROVE  Passes(t)
  BY <1>17 DEF HangUpCheck, NextSender, Registered
<1>18. ASSUME NEW t \in Thread, HangUpDelete(t)
       PROVE  Passes(t)
  BY <1>00, <1>18 DEF HangUpDelete
<1>19. CASE UNCHANGED vars
  BY <1>19 DEF vars, Rests
<1> HIDE DEF Alone, At, Goto, HangingUp, obsVars, threadVars, Fresh, HangsUp, HangUpsHappen,
             Passes, TypeOK
<1>20. QED
  BY <1>1, <1>2, <1>3, <1>4, <1>5, <1>6, <1>7, <1>8, <1>9, <1>10, <1>11, <1>12, <1>13,
     <1>14, <1>15, <1>16, <1>17, <1>18, <1>19
  DEF Next, Request, Handle, HangUp, Crashed, Thread, SourceEffect

-----------------------------------------------------------------------------
(* Senders keep sources that exist, whatever the threads do.               *)

\* An entry of m_stream_map was made for its own label, an observer that does not
\* exist has no sources and no senders, and a thread that may still create sources
\* is the only one to do so for its observer, which has none yet.
StreamInv ==
    /\ \A l \in Label : streamMap[l] # Null =>
           streamMap[l] \in 1..created /\ lbl[streamMap[l]] = l
    /\ \A o \in Obs : o \notin 1..created => made[o] = {} /\ src[o] = Null
    /\ \A t \in Thread : Fresh(t) =>
           /\ made[ptr[t]] = {}
           /\ \A u \in Thread \ {t} : Fresh(u) => ptr[u] # ptr[t]
    /\ SendersHaveSources

\* What StreamInv, TypeOK and Allocated say of one thread's observer.
LEMMA FreshFacts ==
    ASSUME Inv, NEW t \in Thread, Fresh(t)
    PROVE  ptr[t] \in 1..created /\ ptr[t] \in Obs /\ lbl[ptr[t]] \in Label
BY ObsFacts DEF Inv, Allocated, Pointing, Fresh

\* No step breaks StreamInv.
LEMMA StreamStep ==
    ASSUME Inv, StreamInv, [Next]_vars
    PROVE  StreamInv'
<1> TypeOK /\ Allocated
  BY DEF Inv
<1> USE ObsFacts
<1>1. CASE Rests
  BY <1>1 DEF Rests, StreamInv, SendersHaveSources, Fresh
<1>2. ASSUME NEW t \in Thread, Passes(t)
      PROVE  StreamInv'
  <2>1. \A u \in Thread : Fresh(u)' => Fresh(u) /\ ptr'[u] = ptr[u]
    BY <1>2 DEF Passes, Alone, Fresh
  <2>2. UNCHANGED <<streamMap, created, lbl, made, src>>
    BY <1>2 DEF Passes
  <2>3. QED
    BY <2>1, <2>2 DEF StreamInv, SendersHaveSources
<1>3. ASSUME NEW t \in Thread, NEW p \in PeerId, NEW l \in Label, NEW ok \in BOOLEAN,
             CreatePeerConnection(t, p, l, ok)
      PROVE  StreamInv'
  <2> DEFINE o == created + 1
  <2>1. /\ created \in Nat /\ created' = o /\ o \in Obs
        /\ 1..created' = 1..created \cup {o} /\ o \notin 1..created
    BY <1>3, ConstantsAssumption DEF CreatePeerConnection, TypeOK
  <2>2. /\ lbl' = [lbl EXCEPT ![o] = l] /\ ptr' = [ptr EXCEPT ![t] = o]
        /\ UNCHANGED <<streamMap, made, src>>
    BY <1>3 DEF CreatePeerConnection
  <2>3. made[o] = {} /\ src[o] = Null
    BY <2>1 DEF StreamInv
  <2>4. \A u \in Thread : u # t => (Fresh(u)' <=> Fresh(u)) /\ ptr'[u] = ptr[u]
    BY <1>3 DEF CreatePeerConnection, Goto, Fresh, TypeOK
  <2>5. \A u \in Thread : u # t /\ Fresh(u) => ptr[u] \in 1..created
    BY FreshFacts
  <2>6. \A q \in 1..created : lbl'[q] = lbl[q]
    BY <2>1, <2>2 DEF TypeOK
  <2> HIDE DEF o
  <2>7. \A k \in Label : streamMap'[k] # Null =>
            streamMap'[k] \in 1..created' /\ lbl'[streamMap'[k]] = k
    BY <2>1, <2>2, <2>6 DEF StreamInv
  <2>8. \A q \in Obs : q \notin 1..created' => made'[q] = {} /\ src'[q] = Null
    BY <2>1, <2>2 DEF StreamInv
  <2>9. \A u \in Thread : Fresh(u)' =>
            /\ made'[ptr'[u]] = {}
            /\ \A v \in Thread \ {u} : Fresh(v)' => ptr'[v] # ptr'[u]
    BY <2>1, <2>2, <2>3, <2>4, <2>5 DEF StreamInv, TypeOK
  <2>10. SendersHaveSources'
    BY <2>1, <2>2, <2>3, <2>6 DEF StreamInv, SendersHaveSources
  <2>11. QED
    BY <2>7, <2>8, <2>9, <2>10 DEF StreamInv
<1>4. ASSUME NEW t \in Thread, NEW ks \in SUBSET Kind, CreateSources(t, ks)
      PROVE  StreamInv'
  <2>0. Fresh(t) /\ ~Fresh(t)'
    BY <1>4 DEF CreateSources, At, Goto, Fresh, TypeOK
  <2>1. ptr[t] \in 1..created /\ lbl[ptr[t]] \in Label
    BY <2>0, FreshFacts
  <2>2. /\ made' = [made EXCEPT ![ptr[t]] = ks]
        /\ streamMap' = InsertStream(ptr[t])
        /\ UNCHANGED <<created, lbl, src, ptr, op>>
        /\ \A u \in Thread : u # t => pc'[u] = pc[u]
    BY <1>4 DEF CreateSources, Goto, TypeOK
  <2>3. \A u \in Thread : u # t => (Fresh(u)' <=> Fresh(u))
    BY <2>2 DEF Fresh
  <2>4. \A l \in Label : streamMap'[l] # Null =>
            streamMap'[l] \in 1..created' /\ lbl'[streamMap'[l]] = l
    BY <2>1, <2>2 DEF StreamInv, InsertStream, TypeOK
  <2>5. \A o \in Obs : o # ptr[t] => made'[o] = made[o]
    BY <2>2 DEF TypeOK
  <2>6. \A o \in Obs : o \notin 1..created' => made'[o] = {} /\ src'[o] = Null
    BY <2>1, <2>2, <2>5 DEF StreamInv
  <2>7. \A u \in Thread : Fresh(u)' =>
            /\ made'[ptr'[u]] = {}
            /\ \A v \in Thread \ {u} : Fresh(v)' => ptr'[v] # ptr'[u]
    BY <2>0, <2>2, <2>3, <2>5, FreshFacts DEF StreamInv
  <2>8. made[ptr[t]] = {}
    BY <2>0 DEF StreamInv
  <2>9. SendersHaveSources'
    BY <2>2, <2>5, <2>8 DEF StreamInv, SendersHaveSources
  <2>10. QED
    BY <2>4, <2>6, <2>7, <2>9 DEF StreamInv
<1>5. ASSUME NEW t \in Thread, Attaches(t)
      PROVE  StreamInv'
  <2> DEFINE o == ptr[t]
             e == streamMap[lbl[o]]
  <2>1. o \in 1..created /\ lbl[o] \in Label
    BY <1>5 DEF Attaches, Allocated, Pointing
  <2>2. /\ e # Null /\ made[e] # {}
        /\ src' = [src EXCEPT ![o] = e]
        /\ UNCHANGED <<streamMap, created, lbl, made, op, ptr>>
    BY <1>5 DEF Attaches
  <2>3. e \in 1..created /\ lbl[e] = lbl[o]
    BY <2>1, <2>2 DEF StreamInv
  <2>4. \A u \in Thread : Fresh(u)' => Fresh(u)
    BY <1>5 DEF Attaches, Fresh, TypeOK
  <2>5. SendersHaveSources'
    BY <2>1, <2>2, <2>3 DEF StreamInv, SendersHaveSources, TypeOK
  <2>6. QED
    BY <2>1, <2>2, <2>4, <2>5 DEF StreamInv, TypeOK
<1>6. ASSUME NEW t \in Thread, HangUpErase(t)
      PROVE  StreamInv'
  <2>1. /\ streamMap' = [streamMap EXCEPT ![lbl[ptr[t]]] = Null]
        /\ UNCHANGED <<created, lbl, made, src, op, ptr>>
    BY <1>6 DEF HangUpErase, obsVars
  <2>2. \A u \in Thread : Fresh(u)' => Fresh(u)
    BY <1>6 DEF HangUpErase, NextSender, Goto, Fresh, TypeOK
  <2>3. \A l \in Label : streamMap'[l] # Null => streamMap'[l] = streamMap[l]
    BY <2>1 DEF TypeOK
  <2>4. QED
    BY <2>1, <2>2, <2>3 DEF StreamInv, SendersHaveSources
<1>7. QED
  BY <1>1, <1>2, <1>3, <1>4, <1>5, <1>6, SourceEffectOfStep DEF SourceEffect

\* StreamInv holds in every reachable state.
THEOREM StreamAlways == Spec => []StreamInv
<1>1. Init => StreamInv
  BY ConstantsAssumption DEF Init, StreamInv, SendersHaveSources, Fresh
<1>2. OwnershipInv /\ StreamInv /\ [Next]_vars => StreamInv'
  BY StreamStep DEF OwnershipInv
<1>3. QED
  BY <1>1, <1>2, OwnershipAlways, PTL DEF Spec

\* However AddStreams, its double-checked insertion and the erasures of hangUp
\* interleave, a sender's source was created for the sender's own label and exists.
THEOREM SendersTheorem == Spec => []SendersHaveSources
<1>1. StreamInv => SendersHaveSources
  BY DEF StreamInv
<1>2. QED
  BY <1>1, StreamAlways, PTL

-----------------------------------------------------------------------------
(* Viewers share a source unless one joins the stream between the answer   *)
(* of streamStillUsed and the erasure that follows it: then hangUp erases  *)
(* the entry that the other thread has just attached tracks from.          *)

\* The HTTP server has a single thread and ICE failures start none.
Sequential == \A t, u \in Thread : t = u

\* The senders of registered observers, and of one about to be registered, are made
\* of the sources of the entry of their label; an entry about to be erased is unused.
SharedInv ==
    /\ \A o \in Registered : src[o] # Null => streamMap[lbl[o]] = src[o]
    /\ \A t \in Thread : pc[t] = "register" /\ src[ptr[t]] # Null
                         => streamMap[lbl[ptr[t]]] = src[ptr[t]]
    /\ \A t \in Thread : pc[t] = "erase" => ~StreamStillUsed(lbl[ptr[t]])
    /\ \A t \in Thread : HangsUp(t) => HangUpsHappen

\* No step breaks SharedInv: the insertion of AddStreams never replaces an entry, and
\* an erasure finds the stream as streamStillUsed left it.
LEMMA SharedStep ==
    ASSUME ErasuresAreCurrent, OwnershipInv, StreamInv, SharedInv, [Next]_vars
    PROVE  SharedInv'
<1> TypeOK /\ Allocated /\ Inv /\ RegisteredObservers
  BY DEF OwnershipInv, Inv
<1> USE ObsFacts
<1>0. Registered \subseteq 1..created
  BY DEF Registered, RegisteredObservers, Live
<1>1. CASE Rests
  BY <1>1 DEF Rests, SharedInv, Registered, StreamStillUsed, HangsUp
<1>2. ASSUME NEW t \in Thread, Passes(t)
      PROVE  SharedInv'
  <2>1. /\ UNCHANGED <<streamMap, lbl, src>>
        /\ \A o \in Registered' : o \in Registered \/ (pc[t] = "register" /\ o = ptr[t])
        /\ pc'[t] # "register"
    BY <1>2 DEF Passes
  <2>2. \A u \in Thread : u # t => pc'[u] = pc[u] /\ ptr'[u] = ptr[u]
    BY <1>2 DEF Passes, Alone
  <2>3. \A o \in Registered' : src'[o] # Null => streamMap'[lbl'[o]] = src'[o]
    BY <2>1 DEF SharedInv
  <2>4. \A u \in Thread : pc'[u] = "register" /\ src'[ptr'[u]] # Null
                          => streamMap'[lbl'[ptr'[u]]] = src'[ptr'[u]]
    BY <2>1, <2>2 DEF SharedInv
  <2>5. ASSUME NEW u \in Thread, pc'[u] = "erase"
        PROVE  ~StreamStillUsed(lbl[ptr[u]])'
    <3>1. CASE u = t
      BY <1>2, <2>5, <3>1 DEF Passes, StreamStillUsed, Registered
    <3>2. CASE u # t
      <4>1. pc[u] = "erase" /\ ptr'[u] = ptr[u]
        BY <2>2, <2>5, <3>2
      <4>2. ~StreamStillUsed(lbl[ptr[u]])
        BY <4>1 DEF SharedInv
      <4>3. \A o \in Registered' : src[o] # Null =>
                o \in Registered \/ lbl[o] # lbl[ptr[u]]
        BY <2>1, <4>1 DEF ErasuresAreCurrent, Joins
      <4>4. QED
        BY <2>1, <4>1, <4>2, <4>3 DEF StreamStillUsed
    <3>3. QED
      BY <3>1, <3>2
  <2>6. \A u \in Thread : HangsUp(u)' => HangUpsHappen
    BY <1>2, <2>2 DEF Passes, SharedInv, HangsUp
  <2>7. QED
    BY <2>3, <2>4, <2>5, <2>6 DEF SharedInv, HangUpsHappen
<1>3. ASSUME NEW t \in Thread, NEW p \in PeerId, NEW l \in Label, NEW ok \in BOOLEAN,
             CreatePeerConnection(t, p, l, ok)
      PROVE  SharedInv'
  <2> DEFINE o == created + 1
  <2>1. o \in Obs /\ o \notin 1..created
    BY <1>3, ConstantsAssumption DEF CreatePeerConnection, TypeOK
  <2>2. /\ lbl' = [lbl EXCEPT ![o] = l] /\ ptr' = [ptr EXCEPT ![t] = o]
        /\ UNCHANGED <<peerMap, streamMap, src>>
    BY <1>3 DEF CreatePeerConnection
  <2>3. src[o] = Null
    BY <2>1 DEF StreamInv
  <2>4. \A u \in Thread : u # t => pc'[u] = pc[u] /\ ptr'[u] = ptr[u]
    BY <1>3 DEF CreatePeerConnection, Goto, TypeOK
  <2>5. pc'[t] \in {"lookup", "register", "discard"} /\ ptr'[t] = o
    BY <1>3 DEF CreatePeerConnection, AfterCreate, Goto, TypeOK
  <2>6. \A q \in 1..created : lbl'[q] = lbl[q]
    BY <2>1, <2>2 DEF TypeOK
  <2>7. Registered' = Registered
    BY <2>2 DEF Registered
  <2>8. \A u \in Thread : u # t /\ pc[u] \in {"register", "erase"} => ptr[u] \in 1..created
    BY DEF Allocated, Pointing, HangingUp
  <2> HIDE DEF o
  <2>9. \A q \in Registered' : src'[q] # Null => streamMap'[lbl'[q]] = src'[q]
    BY <1>0, <2>2, <2>6, <2>7 DEF SharedInv
  <2>10. \A u \in Thread : pc'[u] = "register" /\ src'[ptr'[u]] # Null
                           => streamMap'[lbl'[ptr'[u]]] = src'[ptr'[u]]
    BY <2>2, <2>3, <2>4, <2>5, <2>6, <2>8 DEF SharedInv
  <2>11. ASSUME NEW u \in Thread, pc'[u] = "erase"
         PROVE  ~StreamStillUsed(lbl[ptr[u]])'
    <3>1. u # t /\ pc[u] = "erase" /\ ptr'[u] = ptr[u] /\ ptr[u] \in 1..created
      BY <2>4, <2>5, <2>8, <2>11
    <3>2. ~StreamStillUsed(lbl[ptr[u]])
      BY <3>1 DEF SharedInv
    <3>3. QED
      BY <1>0, <2>2, <2>6, <2>7, <3>1, <3>2 DEF StreamStillUsed
  <2>12. \A u \in Thread : HangsUp(u)' => HangUpsHappen
    BY <2>4, <2>5 DEF SharedInv, HangsUp, HangingUp
  <2>13. QED
    BY <2>9, <2>10, <2>11, <2>12 DEF SharedInv, HangUpsHappen
<1>4. ASSUME NEW t \in Thread, NEW ks \in SUBSET Kind, CreateSources(t, ks)
      PROVE  SharedInv'
  <2>1. /\ streamMap' = InsertStream(ptr[t])
        /\ pc' = [pc EXCEPT ![t] = "attach"]
        /\ UNCHANGED <<peerMap, lbl, src, ptr>>
    BY <1>4 DEF CreateSources, Goto
  <2>2. \A l \in Label : streamMap[l] # Null => streamMap'[l] = streamMap[l]
    BY <2>1 DEF InsertStream, TypeOK
  <2>3. Registered' = Registered
    BY <2>1 DEF Registered
  <2>4. \A u \in Thread : u # t => pc'[u] = pc[u]
    BY <2>1 DEF TypeOK
  <2>5. pc'[t] = "attach"
    BY <2>1 DEF TypeOK
  <2>6. \A q \in Registered' : src'[q] # Null => streamMap'[lbl'[q]] = src'[q]
    BY <1>0, <2>1, <2>2, <2>3 DEF SharedInv, Allocated
  <2>7. \A u \in Thread : pc'[u] = "register" /\ src'[ptr'[u]] # Null
                          => streamMap'[lbl'[ptr'[u]]] = src'[ptr'[u]]
    BY <2>1, <2>2, <2>4, <2>5 DEF SharedInv, Allocated, Pointing
  <2>8. \A u \in Thread : pc'[u] = "erase" => ~StreamStillUsed(lbl[ptr[u]])'
    BY <2>1, <2>3, <2>4, <2>5 DEF SharedInv, StreamStillUsed
  <2>9. \A u \in Thread : HangsUp(u)' => HangUpsHappen
    BY <2>4, <2>5 DEF SharedInv, HangsUp, HangingUp
  <2>10. QED
    BY <2>6, <2>7, <2>8, <2>9 DEF SharedInv, HangUpsHappen
<1>5. ASSUME NEW t \in Thread, Attaches(t)
      PROVE  SharedInv'
  <2> DEFINE o == ptr[t]
             e == streamMap[lbl[o]]
  <2>1. /\ src' = [src EXCEPT ![o] = e]
        /\ UNCHANGED <<peerMap, streamMap, lbl, ptr>>
        /\ pc[t] = "attach"
    BY <1>5 DEF Attaches
  <2>2. o \in Obs
    BY <2>1 DEF Allocated, Pointing
  <2>3. src'[o] = e /\ \A q \in Obs : q # o => src'[q] = src[q]
    BY <2>1, <2>2 DEF TypeOK
  <2>4. pc'[t] \in {"register", "negotiate"} /\ \A u \in Thread : u # t => pc'[u] = pc[u]
    BY <1>5 DEF Attaches, TypeOK
  <2>5. Registered' = Registered /\ Registered \subseteq Obs
    BY <1>0, <2>1 DEF Registered
  <2>6. \A q \in Registered' : src'[q] # Null => streamMap'[lbl'[q]] = src'[q]
    BY <2>1, <2>3, <2>5 DEF SharedInv
  <2>7. \A u \in Thread : pc'[u] = "register" => ptr[u] \in Obs
    BY <2>2, <2>4 DEF Allocated, Pointing
  <2>8. \A u \in Thread : pc'[u] = "register" /\ src'[ptr'[u]] # Null
                          => streamMap'[lbl'[ptr'[u]]] = src'[ptr'[u]]
    BY <2>1, <2>3, <2>4, <2>7 DEF SharedInv
  <2>9. ASSUME NEW u \in Thread, pc'[u] = "erase"
        PROVE  ~StreamStillUsed(lbl[ptr[u]])'
    <3>1. pc[u] = "erase" /\ ptr'[u] = ptr[u]
      BY <2>1, <2>4, <2>9
    <3>2. ~StreamStillUsed(lbl[ptr[u]]) /\ lbl[o] # lbl[ptr[u]]
      BY <2>1, <3>1 DEF SharedInv, ErasuresAreCurrent, Joins
    <3>3. QED
      BY <2>1, <2>3, <2>5, <3>1, <3>2 DEF StreamStillUsed
  <2>10. \A u \in Thread : HangsUp(u)' => HangUpsHappen
    BY <2>4 DEF SharedInv, HangsUp, HangingUp
  <2>11. QED
    BY <2>6, <2>8, <2>9, <2>10 DEF SharedInv, HangUpsHappen
<1>6. ASSUME NEW t \in Thread, HangUpErase(t)
      PROVE  SharedInv'
  <2>1. /\ streamMap' = [streamMap EXCEPT ![lbl[ptr[t]]] = Null]
        /\ UNCHANGED <<peerMap, lbl, src, ptr>>
        /\ pc[t] = "erase"
    BY <1>6 DEF HangUpErase, obsVars, At
  <2>2. \A u \in Thread : u # t => pc'[u] = pc[u]
    BY <1>6 DEF HangUpErase, NextSender, Goto, TypeOK
  <2>3. pc'[t] \in {"check", "delete"}
    BY <1>6 DEF HangUpErase, NextSender, Goto, TypeOK
  <2>4. Registered' = Registered
    BY <2>1 DEF Registered
  <2>5. \A q \in Registered' : src'[q] # Null => streamMap'[lbl'[q]] = src'[q]
    BY <1>0, <2>1, <2>4 DEF SharedInv, StreamStillUsed, TypeOK, Allocated
  <2>6. \A u \in Thread : HangsUp(u)' => HangUpsHappen
    BY <2>1, <2>2 DEF SharedInv, HangsUp, HangingUp
  <2>7. ASSUME NEW u \in Thread, pc'[u] = "register", src'[ptr'[u]] # Null
        PROVE  streamMap'[lbl'[ptr'[u]]] = src'[ptr'[u]]
    <3>1. pc[u] = "register" /\ ptr'[u] = ptr[u] /\ src[ptr[u]] # Null
      BY <2>1, <2>2, <2>3, <2>7
    <3>2. lbl[ptr[u]] # lbl[ptr[t]] /\ streamMap[lbl[ptr[u]]] = src[ptr[u]]
      BY <2>1, <3>1 DEF ErasuresAreCurrent, Joins, SharedInv
    <3>3. lbl[ptr[u]] \in Label
      BY <3>1 DEF Allocated, Pointing
    <3>4. QED
      BY <2>1, <3>1, <3>2, <3>3 DEF TypeOK
  <2>8. \A u \in Thread : pc'[u] = "erase" => ~StreamStillUsed(lbl[ptr[u]])'
    BY <2>1, <2>2, <2>3, <2>4 DEF SharedInv, StreamStillUsed
  <2>9. QED
    BY <2>5, <2>6, <2>7, <2>8 DEF SharedInv, HangUpsHappen
<1>7. QED
  BY <1>1, <1>2, <1>3, <1>4, <1>5, <1>6, SourceEffectOfStep DEF SourceEffect

LEMMA SharedInit == Init => SharedInv
BY DEF Init, SharedInv, Registered, HangsUp, HangingUp

LEMMA SharedSource == SharedInv => OneSourcePerStream
BY DEF SharedInv, OneSourcePerStream

\* For any number of threads, a camera is opened once for all registered viewers of a
\* stream, as long as nobody joins the stream between streamStillUsed and the erasure
\* that follows it: this window is the only race that can make a second source.
THEOREM OneSourceTheorem == Spec => SourcesAreShared
<1>1. ErasuresAreCurrent /\ OwnershipInv /\ StreamInv /\ SharedInv /\ [Next]_vars
      => SharedInv'
  BY SharedStep
<1>2. QED
  BY <1>1, SharedInit, SharedSource, OwnershipAlways, StreamAlways, PTL
  DEF Spec, SourcesAreShared

\* The window is never hit if requests come one after the other; nor if no hangUp runs,
\* however many threads call AddStreams at the same time: the double-checked insertion
\* is sound by itself.
THEOREM OneSourceWithoutRace ==
    ASSUME Sequential \/ ~HangUpsHappen
    PROVE  Spec => []OneSourcePerStream
<1>1. SharedInv => ErasuresAreCurrent
  BY DEF SharedInv, ErasuresAreCurrent, Joins, HangsUp, HangingUp, Sequential
<1>2. OwnershipInv /\ StreamInv /\ SharedInv /\ [Next]_vars => SharedInv'
  BY <1>1, SharedStep
<1>3. QED
  BY <1>2, SharedInit, SharedSource, OwnershipAlways, StreamAlways, PTL DEF Spec

-----------------------------------------------------------------------------
(* --maxpc holds when the requests make room one after the other.          *)

\* Whoever is about to create or register an observer runs one of the functions that
\* do; a detached thread does not.
Serves(t) ==
    /\ pc[t] \in {"oldest", "create", "discard", "register"} => op[t] \in Making
    /\ pc[t] = "spawned" => op[t] \notin Making

\* The map is below the limit.
HasRoom == MaxPc > 0 => Cardinality(Registered) < MaxPc

\* Room was made for an observer before it is created and is kept until it is
\* registered; the peer to evict is in the map, so that evicting it makes room, or
\* another thread has hung it up meanwhile and made the room.
LimitInv ==
    /\ MaxPcRespected
    /\ \A t \in Thread :
          /\ Serves(t)
          /\ Reserves(t) => HasRoom
          /\ Evicts(t) => peerMap[hup[t]] # Null \/ HasRoom

\* The map has finitely many entries.
LEMMA RegisteredIsFinite ==
    ASSUME TypeOK
    PROVE  IsFiniteSet(Registered) /\ Cardinality(Registered) \in Nat
<1>1. IsFiniteSet(Obs)
  BY ConstantsAssumption, FS_Interval DEF Obs
<1>2. Registered \subseteq Obs
  BY DEF TypeOK, Registered
<1>3. QED
  BY <1>1, <1>2, FS_Subset, FS_CardinalityType

\* The other threads stay where they are.
OthersStay(t) ==
    \A u \in Thread : u # t => pc'[u] = pc[u] /\ op'[u] = op[u] /\ hup'[u] = hup[u]

\* A step that leaves the map alone keeps LimitInv, if the thread had room already or
\* has just found the map not full.
LEMMA LimitFrame ==
    ASSUME TypeOK, LimitInv, NEW t \in Thread, UNCHANGED peerMap,
           OthersStay(t),
           Serves(t)',
           Reserves(t)' => Reserves(t) \/ ~MapIsFull,
           Evicts(t)' => peerMap[hup'[t]] # Null
    PROVE  LimitInv'
<1>1. Registered' = Registered /\ Cardinality(Registered) \in Nat
  BY RegisteredIsFinite DEF Registered
<1>2. MaxPcRespected' /\ HasRoom' = HasRoom
  BY <1>1 DEF LimitInv, MaxPcRespected, HasRoom
<1>3. Reserves(t)' => HasRoom'
  BY <1>1, <1>2, ConstantsAssumption DEF LimitInv, MapIsFull, HasRoom
<1>4. ASSUME NEW u \in Thread, u # t
      PROVE  /\ Serves(u)' = Serves(u)
             /\ Reserves(u)' = Reserves(u)
             /\ Evicts(u)' = Evicts(u)
             /\ hup'[u] = hup[u]
  BY <1>4 DEF OthersStay, Serves, Reserves, Evicts, Owns
<1>5. QED
  BY <1>2, <1>3, <1>4 DEF LimitInv

\* No step breaks LimitInv: registering takes the room of the only request that has
\* some, and erasing an entry makes room.
LEMMA LimitStep ==
    ASSUME OneMakesRoom, OldestIsNamed, OwnershipInv, LimitInv, [Next]_vars
    PROVE  LimitInv'
<1> TypeOK /\ Allocated /\ Inv /\ RegisteredObservers
  BY DEF OwnershipInv, Inv
<1> USE DEF At, Goto, Owns, HangingUp, Reserves, Evicts, Serves, TypeOK, obsVars, threadVars,
            OthersStay
<1>0. ASSUME NEW t \in Thread, Return(t), UNCHANGED peerMap
      PROVE  LimitInv'
  <2>1. op'[t] \notin Making /\ pc'[t] = "idle" /\ OthersStay(t)
    BY <1>0 DEF Return, Making
  <2>2. QED
    BY <1>0, <2>1, LimitFrame
<1>00. ASSUME NEW t \in Thread, HangUpReturns(t), UNCHANGED peerMap,
              op[t] \in Making => Reserves(t) \/ ~MapIsFull
       PROVE  LimitInv'
  <2>1. CASE op[t] \in Making
    BY <1>00, <2>1, LimitFrame DEF HangUpReturns
  <2>2. CASE op[t] \notin Making
    BY <1>0, <1>00, <2>2 DEF HangUpReturns
  <2>3. QED
    BY <2>1, <2>2
<1>1. ASSUME NEW t \in Thread, NEW f \in Op \cap Making, StartMaking(t, f)
      PROVE  LimitInv'
  BY <1>1, LimitFrame DEF StartMaking
<1>2. ASSUME NEW t \in Thread, NEW p \in PeerId, StartHangUp(t, p)
      PROVE  LimitInv'
  BY <1>2, LimitFrame DEF StartHangUp, Making
<1>3. ASSUME NEW t \in Thread, NEW p \in PeerId, SetAnswerLookup(t, p)
      PROVE  LimitInv'
  BY <1>3, LimitFrame DEF SetAnswerLookup, Making
<1>4. ASSUME NEW t \in Thread, SetAnswerApply(t)
      PROVE  LimitInv'
  BY <1>0, <1>4 DEF SetAnswerApply
<1>5. ASSUME NEW t \in Thread, GetOldest(t)
      PROVE  LimitInv'
  <2>1. /\ pc[t] = "oldest"
        /\ UNCHANGED <<peerMap, op>>
        /\ op[t] \in Making
    BY <1>5 DEF GetOldest, LimitInv
  <2>2. PICK p \in OldestPeer :
            IF p = Empty
            THEN Goto(t, "create") /\ UNCHANGED hup
            ELSE Goto(t, "find") /\ hup' = [hup EXCEPT ![t] = p]
    BY <1>5 DEF GetOldest
  <2>3. CASE ~MapIsFull
    <3>1. p = Empty
      BY <2>3 DEF OldestPeer
    <3>2. QED
      BY <2>1, <2>2, <2>3, <3>1, LimitFrame
  <2>4. CASE MapIsFull
    <3>1. PICK o \in Registered : p = peerOf[o]
      BY <2>4 DEF OldestPeer
    <3>2. PICK q \in PeerId : o = peerMap[q] /\ o # Null
      BY <3>1 DEF Registered
    <3>3. p = q
      BY <3>1, <3>2 DEF RegisteredObservers
    <3>4. p # Empty /\ p \in PeerId /\ peerMap[p] # Null
      BY <2>4, <3>2, <3>3 DEF OldestIsNamed
    <3>5. pc'[t] = "find" /\ hup'[t] = p /\ OthersStay(t)
      BY <2>1, <2>2, <3>4
    <3>6. QED
      BY <2>1, <3>4, <3>5, LimitFrame
  <2>5. QED
    BY <2>3, <2>4
<1>6. ASSUME NEW t \in Thread, NEW p \in PeerId, NEW l \in Label, NEW ok \in BOOLEAN,
             CreatePeerConnection(t, p, l, ok)
      PROVE  LimitInv'
  <2>1. /\ Reserves(t) /\ pc'[t] \notin {"find", "spawned"}
        /\ UNCHANGED <<peerMap, op>> /\ OthersStay(t)
    BY <1>6 DEF CreatePeerConnection, LimitInv, AfterCreate
  <2>2. QED
    BY <2>1, LimitFrame
<1>7. ASSUME NEW t \in Thread, Discard(t)
      PROVE  LimitInv'
  BY <1>0, <1>7 DEF Discard
<1>8. ASSUME NEW t \in Thread, Register(t)
      PROVE  LimitInv'
  <2>1. /\ pc[t] = "register"
        /\ op[t] \in Making /\ op' = op
        /\ ~Owns(t)' /\ pc'[t] \in {"negotiate", "lookup"}
        /\ OthersStay(t)
    BY <1>8 DEF Register, LimitInv
  <2>2. Registered' \subseteq Registered \cup {ptr[t]}
    BY <1>8 DEF Register, InsertPeer, Registered
  <2>3. /\ IsFiniteSet(Registered) /\ Cardinality(Registered) \in Nat
        /\ MaxPc > 0 => Cardinality(Registered) < MaxPc
    BY <2>1, RegisteredIsFinite DEF LimitInv, HasRoom
  <2>4. /\ IsFiniteSet(Registered \cup {ptr[t]})
        /\ Cardinality(Registered \cup {ptr[t]})
             \in {Cardinality(Registered), Cardinality(Registered) + 1}
    BY <2>3, FS_AddElement
  <2>5. /\ Cardinality(Registered') \in Nat
        /\ Cardinality(Registered') <= Cardinality(Registered \cup {ptr[t]})
    BY <2>2, <2>4, FS_Subset, FS_CardinalityType
  <2>6. MaxPcRespected'
    BY <2>3, <2>4, <2>5, ConstantsAssumption DEF MaxPcRespected
  <2>7. \A u \in Thread : u # t => ~Reserves(u) /\ ~Evicts(u) /\ Serves(u)
    BY <2>1 DEF OneMakesRoom, LimitInv
  <2>8. \A u \in Thread : u # t => ~Reserves(u)' /\ ~Evicts(u)' /\ Serves(u)'
    BY <2>1, <2>7
  <2>9. ~Reserves(t)' /\ ~Evicts(t)' /\ Serves(t)'
    BY <2>1
  <2>10. QED
    BY <2>6, <2>8, <2>9 DEF LimitInv
<1>9. ASSUME NEW t \in Thread, NEW l \in Location, pc' = [pc EXCEPT ![t] = l],
             UNCHANGED <<peerMap, op, hup>>,
             l \notin {"oldest", "create", "discard", "find", "spawned"},
             l = "register" => op[t] \in Making,
             Owns(t)' => Owns(t)
      PROVE  LimitInv'
  BY <1>9, LimitFrame
<1>10. ASSUME UNCHANGED <<peerMap, pc, op, ptr, hup>>
       PROVE  LimitInv'
  <2>1. Registered' = Registered
    BY <1>10 DEF Registered
  <2>2. MaxPcRespected'
    BY <2>1 DEF LimitInv, MaxPcRespected
  <2>3. ASSUME NEW t \in Thread
        PROVE  /\ Serves(t)'
               /\ Reserves(t)' => HasRoom'
               /\ Evicts(t)' => peerMap'[hup'[t]] # Null \/ HasRoom'
    BY <1>10, <2>1 DEF LimitInv, HasRoom
  <2>4. QED
    BY <2>2, <2>3 DEF LimitInv
<1>11. ASSUME NEW t \in Thread, LookupStream(t), ~Crash
       PROVE  LimitInv'
  <2>1. PICK l \in {"insert", "attach"} :
            /\ pc' = [pc EXCEPT ![t] = l]
            /\ pc[t] = "lookup"
            /\ UNCHANGED <<peerMap, op, hup>>
    BY <1>11 DEF LookupStream
  <2>2. QED
    BY <1>9, <2>1 DEF Location
<1>12. ASSUME NEW t \in Thread, NEW ks \in SUBSET Kind, CreateSources(t, ks)
       PROVE  LimitInv'
  BY <1>9, <1>12 DEF CreateSources, Location
<1>13. ASSUME NEW t \in Thread, AttachTracks(t), ~Crash
       PROVE  LimitInv'
  <2>1. pc[t] = "attach" /\ UNCHANGED peerMap
    BY <1>13 DEF AttachTracks
  <2>2. CASE Return(t)
    BY <1>0, <2>1, <2>2
  <2>3. CASE ~Return(t)
    <3>1. /\ pc' = [pc EXCEPT ![t] = IF op[t] = "createOffer" THEN "register"
                                                            ELSE "negotiate"]
          /\ UNCHANGED <<op, hup>>
      BY <1>13, <2>3 DEF AttachTracks
    <3>2. QED
      BY <1>9, <2>1, <3>1 DEF Location, Making
  <2>4. QED
    BY <2>2, <2>3
<1>14. ASSUME NEW t \in Thread, Negotiate(t)
       PROVE  LimitInv'
  <2>1. CASE op[t] = "whep"
    BY <1>9, <1>14, <2>1 DEF Negotiate, Location
  <2>2. CASE op[t] # "whep"
    BY <1>0, <1>14, <2>2 DEF Negotiate
  <2>3. QED
    BY <2>1, <2>2
<1>15. ASSUME NEW t \in Thread, WaitGathering(t), ~Crash
       PROVE  LimitInv'
  BY <1>0, <1>15 DEF WaitGathering
<1>16. ASSUME NEW o \in Obs, NEW r \in Thread, OnIceConnectionChange(o, r)
       PROVE  LimitInv'
  BY <1>16, LimitFrame DEF OnIceConnectionChange, Making
<1>17. ASSUME NEW r \in Thread, ReaperRuns(r), ~Crash
       PROVE  LimitInv'
  <2>1. /\ pc[r] = "spawned" /\ pc' = [pc EXCEPT ![r] = "find"]
        /\ UNCHANGED <<peerMap, op>> /\ OthersStay(r)
    BY <1>17 DEF ReaperRuns
  <2>2. op[r] \notin Making
    BY <2>1 DEF LimitInv
  <2>3. QED
    BY <2>1, <2>2, LimitFrame
<1>18. ASSUME NEW t \in Thread, HangUpFind(t)
       PROVE  LimitInv'
  <2>1. CASE peerMap[hup[t]] = Null
    <3>1. op[t] \in Making => HasRoom
      BY <1>18, <2>1 DEF HangUpFind, LimitInv
    <3>2. HasRoom => ~MapIsFull
      BY RegisteredIsFinite, ConstantsAssumption DEF HasRoom, MapIsFull
    <3>3. QED
      BY <1>00, <1>18, <2>1, <3>1, <3>2 DEF HangUpFind
  <2>2. CASE peerMap[hup[t]] # Null
    <3>1. PICK p \in PeerId : p = hup[t]
      BY <1>18 DEF HangUpFind, Allocated
    <3>2. /\ peerMap' = [peerMap EXCEPT ![p] = Null]
          /\ pc' = [pc EXCEPT ![t] = "senders"]
          /\ peerMap[p] \in Registered
      BY <1>18, <2>2, <3>1 DEF HangUpFind, Registered
    <3>3. \A q \in PeerId : peerMap'[q] # Null =>
              peerMap'[q] = peerMap[q] /\ peerMap[q] # peerMap[p]
      BY <2>2, <3>1, <3>2 DEF RegisteredObservers
    <3>4. Registered' \subseteq Registered \ {peerMap[p]}
      BY <3>3 DEF Registered
    <3>5. IsFiniteSet(Registered) /\ Cardinality(Registered) \in Nat
      BY RegisteredIsFinite
    <3>6. /\ IsFiniteSet(Registered \ {peerMap[p]})
          /\ Cardinality(Registered \ {peerMap[p]}) = Cardinality(Registered) - 1
      BY <3>2, <3>5, FS_RemoveElement
    <3>7. /\ Cardinality(Registered') \in Nat
          /\ Cardinality(Registered') <= Cardinality(Registered) - 1
      BY <3>4, <3>6, FS_Subset, FS_CardinalityType
    <3>8. MaxPcRespected' /\ HasRoom'
      BY <3>5, <3>7, ConstantsAssumption DEF LimitInv, MaxPcRespected, HasRoom
    <3>9. UNCHANGED op /\ \A u \in Thread : u # t => pc'[u] = pc[u]
      BY <1>18, <2>2 DEF HangUpFind
    <3>10. \A u \in Thread : Serves(u)'
      BY <3>2, <3>9 DEF LimitInv
    <3>11. QED
      BY <3>8, <3>10 DEF LimitInv
  <2>3. QED
    BY <2>1, <2>2
<1>19. ASSUME NEW t \in Thread, HangUpSenders(t)
       PROVE  LimitInv'
  BY <1>9, <1>19 DEF HangUpSenders, Location
<1>20. ASSUME NEW t \in Thread, HangUpCheck(t)
       PROVE  LimitInv'
  BY <1>9, <1>20 DEF HangUpCheck, NextSender, Location
<1>21. ASSUME NEW t \in Thread, HangUpErase(t)
       PROVE  LimitInv'
  BY <1>9, <1>21 DEF HangUpErase, NextSender, Location
<1>22. ASSUME NEW t \in Thread, HangUpDelete(t)
       PROVE  LimitInv'
  BY <1>00, <1>22 DEF HangUpDelete
<1>23. CASE UNCHANGED vars
  BY <1>10, <1>23 DEF vars
<1> HIDE DEF At, Goto, Owns, HangingUp, Reserves, Evicts, Serves, TypeOK, obsVars, threadVars,
             OthersStay
<1>24. CASE Crash
  BY <1>10, <1>24 DEF Crash, threadVars
<1>25. QED
  BY <1>1, <1>2, <1>3, <1>4, <1>5, <1>6, <1>7, <1>8, <1>11, <1>12, <1>13, <1>14,
     <1>15, <1>16, <1>17, <1>18, <1>19, <1>20, <1>21, <1>22, <1>23, <1>24
  DEF Next, Request, Handle, HangUp, Crashed, Thread

LEMMA LimitInit == Init => LimitInv
<1> SUFFICES ASSUME Init
             PROVE  LimitInv
  OBVIOUS
<1>1. Registered = {}
  BY DEF Init, Registered
<1>2. Cardinality(Registered) = 0
  BY <1>1, FS_EmptySet
<1>3. QED
  BY <1>2, ConstantsAssumption
  DEF Init, LimitInv, MaxPcRespected, Reserves, Evicts, Serves, Making

\* For any number of threads, with hangups and ICE failures at any time, the server never
\* keeps more than --maxpc connections as long as at most one request is between
\* getOldestPeerCannection's test and its registration and the oldest peer is not the one
\* of a call without peerid: the missing lock and the empty id are the only two causes.
THEOREM MaxPcTheorem == Spec => LimitHolds
<1>1. OneMakesRoom /\ OldestIsNamed /\ OwnershipInv /\ LimitInv /\ [Next]_vars => LimitInv'
  BY LimitStep
<1>2. LimitInv => MaxPcRespected
  BY DEF LimitInv
<1>3. QED
  BY <1>1, <1>2, LimitInit, OwnershipAlways, PTL DEF Spec, LimitHolds

\* When requests come one after the other, the unnamed peer alone can break --maxpc.
THEOREM MaxPcSequential ==
    ASSUME Sequential
    PROVE  Spec /\ []OldestIsNamed => []MaxPcRespected
<1>1. OneMakesRoom
  BY DEF Sequential, OneMakesRoom
<1>2. OldestIsNamed /\ OwnershipInv /\ LimitInv /\ [Next]_vars => LimitInv'
  BY <1>1, LimitStep
<1>3. LimitInv => MaxPcRespected
  BY DEF LimitInv
<1>4. QED
  BY <1>2, <1>3, LimitInit, OwnershipAlways, PTL DEF Spec

-----------------------------------------------------------------------------
(* /api/hangup closes the call, unless two undeleted observers share its   *)
(* peer id.                                                                *)

\* hangUp works on an observer of the peer it was called for.
ArgumentInv == \A t \in Thread : pc[t] \in HangingUp => peerOf[ptr[t]] = hup[t]

\* A thread gets to the part of hangUp that has an observer by taking it from the map
\* under hangUp's argument; from there on, neither changes.
LEMMA ArgumentsOfStep ==
    ASSUME TypeOK, [Next]_vars, NEW t \in Thread, pc'[t] \in HangingUp
    PROVE  /\ hup'[t] = hup[t]
           /\ \/ pc[t] \in HangingUp /\ ptr'[t] = ptr[t]
              \/ /\ pc[t] = "find"
                 /\ peerMap[hup[t]] # Null
                 /\ ptr'[t] = peerMap[hup[t]]
<1> DEFINE Kept == /\ hup'[t] = hup[t]
                   /\ \/ pc[t] \in HangingUp /\ ptr'[t] = ptr[t]
                      \/ /\ pc[t] = "find"
                         /\ peerMap[hup[t]] # Null
                         /\ ptr'[t] = peerMap[hup[t]]
<1> SUFFICES Kept
  OBVIOUS
<1> USE DEF TypeOK, At, Goto, HangingUp
<1>1. ASSUME NEW u \in Thread, Return(u)
      PROVE  Kept
  BY <1>1 DEF Return
<1>2. ASSUME NEW u \in Thread, HangUpReturns(u)
      PROVE  Kept
  BY <1>1, <1>2 DEF HangUpReturns
<1>3. CASE UNCHANGED threadVars
  BY <1>3 DEF threadVars
<1>4. ASSUME NEW u \in Worker, Request(u)
      PROVE  Kept
  BY <1>4 DEF Request, StartMaking, StartHangUp, SetAnswerLookup, Thread
<1>5. ASSUME NEW u \in Worker, Handle(u)
      PROVE  Kept
  <2>0. u \in Thread
    BY DEF Thread
  <2>1. CASE GetOldest(u)
    BY <2>0, <2>1 DEF GetOldest
  <2>2. ASSUME NEW p \in PeerId, NEW l \in Label, NEW ok \in BOOLEAN,
               CreatePeerConnection(u, p, l, ok)
        PROVE  Kept
    BY <2>0, <2>2 DEF CreatePeerConnection, AfterCreate
  <2>3. CASE Discard(u) \/ SetAnswerApply(u)
    BY <1>1, <2>0, <2>3 DEF Discard, SetAnswerApply
  <2>4. CASE Register(u) \/ \E ks \in SUBSET Kind : CreateSources(u, ks)
    BY <2>0, <2>4 DEF Register, CreateSources
  <2>5. CASE LookupStream(u)
    BY <1>3, <2>0, <2>5 DEF LookupStream, Crash
  <2>6. CASE AttachTracks(u)
    <3>1. \/ Crash \/ Return(u)
          \/ /\ \E l \in {"register", "negotiate"} : pc' = [pc EXCEPT ![u] = l]
             /\ UNCHANGED <<ptr, hup>>
      BY <2>6 DEF AttachTracks
    <3>2. QED
      BY <1>1, <1>3, <2>0, <3>1 DEF Crash
  <2>7. CASE Negotiate(u) \/ WaitGathering(u)
    BY <1>1, <1>3, <2>0, <2>7 DEF Negotiate, WaitGathering, Crash
  <2>8. QED
    BY <1>5, <2>1, <2>2, <2>3, <2>4, <2>5, <2>6, <2>7 DEF Handle
<1>6. ASSUME NEW r \in Reaper, ReaperRuns(r) \/ \E o \in Obs : OnIceConnectionChange(o, r)
      PROVE  Kept
  BY <1>3, <1>6 DEF ReaperRuns, OnIceConnectionChange, Crash, Thread
<1>7. ASSUME NEW u \in Thread, HangUp(u)
      PROVE  Kept
  <2>1. CASE HangUpFind(u)
    BY <1>2, <2>1 DEF HangUpFind
  <2>2. CASE HangUpSenders(u) \/ HangUpCheck(u) \/ HangUpErase(u)
    BY <2>2 DEF HangUpSenders, HangUpCheck, HangUpErase, NextSender
  <2>3. CASE HangUpDelete(u)
    BY <1>2, <2>3 DEF HangUpDelete
  <2>4. QED
    BY <1>7, <2>1, <2>2, <2>3 DEF HangUp
<1>8. CASE UNCHANGED vars
  BY <1>3, <1>8 DEF vars
<1> HIDE DEF Kept
<1>9. QED
  BY <1>4, <1>5, <1>6, <1>7, <1>8 DEF Next, Crashed

\* Only CreatePeerConnection makes an observer, and peer ids do not change.
LEMMA IdsOfStep ==
    ASSUME Inv, [Next]_vars
    PROVE  \/ UNCHANGED <<created, peerOf>>
           \/ \E t \in Thread, p \in PeerId, l \in Label, ok \in BOOLEAN :
                 CreatePeerConnection(t, p, l, ok)
BY DEF Next, Request, Handle, HangUp, Crashed, Crash, Thread, vars, obsVars, StartMaking,
       StartHangUp, SetAnswerLookup, SetAnswerApply, GetOldest, Discard, Register,
       LookupStream, CreateSources, AttachTracks, Negotiate, WaitGathering, ReaperRuns,
       OnIceConnectionChange, HangUpFind, HangUpSenders, HangUpCheck, HangUpErase,
       HangUpDelete

\* No step makes hangUp work on the observer of another peer.
LEMMA ArgumentStep ==
    ASSUME OwnershipInv, ArgumentInv, [Next]_vars
    PROVE  ArgumentInv'
<1> Inv /\ TypeOK /\ Allocated /\ RegisteredObservers
  BY DEF OwnershipInv, Inv
<1>1. \A o \in 1..created : peerOf'[o] = peerOf[o]
  BY IdsOfStep, ConstantsAssumption DEF CreatePeerConnection, TypeOK, Obs
<1>2. SUFFICES ASSUME NEW t \in Thread, pc'[t] \in HangingUp
               PROVE  peerOf'[ptr'[t]] = hup'[t]
  BY DEF ArgumentInv
<1>3. CASE pc[t] \in HangingUp /\ ptr'[t] = ptr[t] /\ hup'[t] = hup[t]
  BY <1>1, <1>3 DEF ArgumentInv, Allocated, Pointing
<1>4. CASE /\ pc[t] = "find" /\ peerMap[hup[t]] # Null
           /\ ptr'[t] = peerMap[hup[t]] /\ hup'[t] = hup[t]
  BY <1>1, <1>4 DEF Allocated, RegisteredObservers, Live
<1>5. QED
  BY <1>2, <1>3, <1>4, ArgumentsOfStep

THEOREM ArgumentAlways == Spec => []ArgumentInv
<1>1. Init => ArgumentInv
  BY DEF Init, ArgumentInv, HangingUp
<1>2. OwnershipInv /\ ArgumentInv /\ [Next]_vars => ArgumentInv'
  BY ArgumentStep
<1>3. QED
  BY <1>1, <1>2, OwnershipAlways, PTL DEF Spec

\* Two undeleted observers never have the same peer id.
LiveIdsDiffer == \A o, q \in Live : peerOf[o] = peerOf[q] => o = q

\* For any number of threads, no observer of the peer is left when its hangUp has deleted
\* one, as long as no two undeleted observers share a peer id: a call that is hung up and
\* stays is one whose peer id was used again while an observer still had it.
THEOREM HangUpClosesTheorem == Spec /\ []LiveIdsDiffer => HangUpClosesCall
<1> DEFINE Closes(t) == /\ op[t] = "hangup" /\ pc[t] = "delete" /\ pc'[t] = "idle"
                        /\ \A u \in Thread \ {t} : pc[u] = "idle"
                        => \A o \in Live' : peerOf[o] # hup[t]
<1>1. OwnershipInv /\ ArgumentInv /\ LiveIdsDiffer /\ [Next]_vars
      => [\A t \in Worker : Closes(t)]_vars
  <2> SUFFICES ASSUME OwnershipInv, ArgumentInv, LiveIdsDiffer, Next,
                      NEW t \in Worker, pc[t] = "delete", pc'[t] = "idle",
                      NEW o \in Live', peerOf[o] = hup[t]
               PROVE  FALSE
    OBVIOUS
  <2> TypeOK /\ Inv /\ t \in Thread
    BY DEF OwnershipInv, Inv, Thread
  <2>1. Owns(t) /\ ptr[t] \in Live /\ peerOf[ptr[t]] = hup[t]
    BY DEF OwnershipInv, ExclusiveOwnership, Owns, HangingUp, ArgumentInv
  <2>2. ~Owns(t)' /\ pc[t] \in HangingUp
    BY DEF Owns, HangingUp
  <2>3. Effect(t)
    BY EffectOfStep DEF Effect, Alone, Idles
  <2>4. freed' = freed \cup {ptr[t]} /\ created' = created
    BY <2>1, <2>2, <2>3
    DEF Effect, Stays, Makes, Publishes, Loses, Takes, Deletes, HangingUp
  <2>5. o \in Live /\ o # ptr[t]
    BY <2>4 DEF Live
  <2>6. QED
    BY <2>1, <2>5 DEF LiveIdsDiffer
<1>2. QED
  BY <1>1, OwnershipAlways, ArgumentAlways, PTL DEF Spec, HangUpClosesCall

\* When no peer id is used twice, every hangup of a client closes its call.
THEOREM HangUpClosesWithoutReuse ==
    ASSUME ~ReusePeerIds
    PROVE  Spec => HangUpClosesCall
<1> DEFINE IdsDiffer == \A o, q \in 1..created : peerOf[o] = peerOf[q] => o = q
<1>1. Init => IdsDiffer
  BY DEF Init
<1>2. OwnershipInv /\ IdsDiffer /\ [Next]_vars => IdsDiffer'
  <2> SUFFICES ASSUME OwnershipInv, IdsDiffer, [Next]_vars
               PROVE  IdsDiffer'
    OBVIOUS
  <2> Inv /\ TypeOK
    BY DEF OwnershipInv, Inv
  <2>1. CASE UNCHANGED <<created, peerOf>>
    BY <2>1
  <2>2. ASSUME NEW t \in Thread, NEW p \in PeerId, NEW l \in Label, NEW ok \in BOOLEAN,
               CreatePeerConnection(t, p, l, ok)
        PROVE  IdsDiffer'
    <3>1. /\ created' = created + 1
          /\ created + 1 \in Obs
          /\ peerOf' = [peerOf EXCEPT ![created + 1] = p]
          /\ \A q \in 1..created : peerOf[q] # p
      BY <2>2, ObsFacts DEF CreatePeerConnection
    <3>2. /\ peerOf'[created + 1] = p
          /\ \A q \in 1..created : peerOf'[q] = peerOf[q]
      BY <3>1 DEF TypeOK, Obs
    <3>3. \A q \in 1..created' : q \in 1..created \/ q = created + 1
      BY <3>1 DEF TypeOK
    <3>4. QED
      BY <3>1, <3>2, <3>3
  <2>3. QED
    BY <2>1, <2>2, IdsOfStep
<1>3. IdsDiffer => LiveIdsDiffer
  BY DEF LiveIdsDiffer, Live
<1> HIDE DEF IdsDiffer
<1>4. Spec => []IdsDiffer
  BY <1>1, <1>2, OwnershipAlways, PTL DEF Spec
<1>5. QED
  BY <1>3, <1>4, HangUpClosesTheorem, PTL

-----------------------------------------------------------------------------
(* Viewers that leave by ICE failure: peer ids are unique and nothing but a *)
(* detached thread hangs a peer up.                                         *)

OnlyReaped == "hangup" \notin Op /\ MaxPc = 0 /\ ~ReusePeerIds

\* A request has an observer and has not negotiated yet, so ICE has not begun.
Opening == {"discard", "register", "lookup", "insert", "attach", "negotiate"}

\* AddStreams is running.
Adding == {"lookup", "insert", "attach"}

\* The observers of requests that have not negotiated are new, one each, and getAnswer
\* has registered its own.
OpeningInv ==
    \A t \in Thread :
       /\ pc[t] \in Opening =>
             /\ ice[ptr[t]] = "new"
             /\ \A u \in Thread \ {t} : pc[u] \in Opening => ptr[u] # ptr[t]
       /\ pc[t] \in Adding /\ op[t] # "createOffer" => ptr[t] \in Registered

\* A detached thread that has not run yet holds a failed observer that nobody else is
\* about to hang up.
SpawnedInv ==
    \A r \in Thread : pc[r] = "spawned" =>
       /\ ptr[r] \in Live
       /\ ice[ptr[r]] = "failed"
       /\ \A u \in Thread : pc[u] = "spawned" /\ u # r => ptr[u] # ptr[r]
       /\ \A u \in Thread : pc[u] = "find" => hup[u] # peerOf[ptr[r]]
       /\ \A u \in Thread : pc[u] \in HangingUp => ptr[u] # ptr[r]

\* Whoever is hung up is a peer whose ICE connection failed.
DoomedInv ==
    \A u \in Thread :
       /\ pc[u] = "find" =>
             \E o \in 1..created : peerOf[o] = hup[u] /\ ice[o] = "failed"
       /\ pc[u] \in HangingUp => ice[ptr[u]] = "failed"

ReapInv ==
    /\ \A o, q \in 1..created : o # q => peerOf[o] # peerOf[q]
    /\ \A o \in Obs : o \notin 1..created => ice[o] = "new"
    /\ OpeningInv
    /\ SpawnedInv
    /\ DoomedInv

\* Thread t moves without starting or meeting a hangUp; ICE may make progress on an
\* observer that has not failed, and that no request is still opening.
Proceeds(t) ==
    /\ Alone(t)
    /\ \A u \in Thread \ {t} : hup'[u] = hup[u]
    /\ UNCHANGED <<created, peerOf, freed, peerMap>>
    /\ \A o \in Obs : \/ ice'[o] = ice[o]
                      \/ /\ ice[o] # "failed"
                         /\ o \in 1..created
                         /\ \A u \in Thread : pc'[u] \in Opening => ptr'[u] # o
    /\ pc'[t] \in Opening => pc[t] \in Opening /\ ptr'[t] = ptr[t]
    /\ pc'[t] \in Adding => pc[t] \in Adding /\ op'[t] = op[t]
    /\ pc'[t] \notin {"spawned", "find"}
    /\ pc'[t] \in HangingUp => pc[t] \in HangingUp /\ ptr'[t] = ptr[t]

\* Such a step keeps ReapInv.
LEMMA ReapFrame ==
    ASSUME Inv, ReapInv, NEW t \in Thread, Proceeds(t)
    PROVE  ReapInv'
<1> TypeOK /\ Allocated
  BY DEF Inv
<1> USE ObsFacts DEF Proceeds
<1>1. \A u \in Thread : u # t => pc'[u] = pc[u] /\ op'[u] = op[u] /\ ptr'[u] = ptr[u]
                                 /\ hup'[u] = hup[u]
  BY DEF Alone
<1>2. \A o \in 1..created : ice[o] = "failed" => ice'[o] = "failed"
  OBVIOUS
<1>3. Registered' = Registered /\ Live' = Live
  BY DEF Registered, Live
<1>4. \A o \in Obs : o \notin 1..created' => ice'[o] = "new"
  BY DEF ReapInv
<1>5. OpeningInv'
  <2>1. \A u \in Thread : pc'[u] \in Opening =>
            pc[u] \in Opening /\ ptr'[u] = ptr[u] /\ ptr[u] \in Obs
    BY <1>1 DEF Opening, Allocated, Pointing
  <2>2. \A u \in Thread : pc'[u] \in Adding =>
            pc[u] \in Adding /\ op'[u] = op[u] /\ pc'[u] \in Opening
    BY <1>1 DEF Adding, Opening
  <2>3. ASSUME NEW u \in Thread, pc'[u] \in Opening
        PROVE  ice'[ptr'[u]] = "new"
    BY <2>1, <2>3 DEF ReapInv, OpeningInv
  <2>4. \A u \in Thread : pc'[u] \in Opening =>
            \A v \in Thread \ {u} : pc'[v] \in Opening => ptr'[v] # ptr'[u]
    BY <2>1 DEF ReapInv, OpeningInv
  <2>5. \A u \in Thread : pc'[u] \in Adding /\ op'[u] # "createOffer"
                          => ptr'[u] \in Registered'
    BY <1>3, <2>1, <2>2 DEF ReapInv, OpeningInv
  <2>6. QED
    BY <2>3, <2>4, <2>5 DEF OpeningInv
<1>6. SpawnedInv'
  <2>1. \A u \in Thread : pc'[u] = "spawned" =>
            pc[u] = "spawned" /\ ptr'[u] = ptr[u] /\ ptr[u] \in 1..created
    BY <1>1 DEF Allocated, Pointing
  <2>2. \A u \in Thread : pc'[u] = "find" => pc[u] = "find" /\ hup'[u] = hup[u]
    BY <1>1
  <2>3. \A u \in Thread : pc'[u] \in HangingUp => pc[u] \in HangingUp /\ ptr'[u] = ptr[u]
    BY <1>1
  <2>4. QED
    BY <1>2, <1>3, <2>1, <2>2, <2>3 DEF ReapInv, SpawnedInv
<1>7. DoomedInv'
  <2>1. \A u \in Thread : pc'[u] \in HangingUp =>
            pc[u] \in HangingUp /\ ptr'[u] = ptr[u] /\ ptr[u] \in 1..created
    BY <1>1 DEF Allocated, Pointing
  <2>2. \A u \in Thread : pc'[u] = "find" => pc[u] = "find" /\ hup'[u] = hup[u]
    BY <1>1
  <2>3. QED
    BY <1>2, <2>1, <2>2 DEF ReapInv, DoomedInv
<1>8. QED
  BY <1>4, <1>5, <1>6, <1>7 DEF ReapInv

\* A constructor that gives the observer a peer id nobody had keeps ReapInv.
LEMMA ReapCreate ==
    ASSUME OnlyReaped, OwnershipInv, ReapInv, NEW t \in Thread, NEW p \in PeerId,
           NEW l \in Label, NEW ok \in BOOLEAN, CreatePeerConnection(t, p, l, ok)
    PROVE  ReapInv'
<1> DEFINE o == created + 1
<1> TypeOK /\ Allocated
  BY DEF OwnershipInv, Inv
<1>1. /\ created \in Nat /\ created' = o /\ o \in Obs
      /\ 1..created' = 1..created \cup {o} /\ o \notin 1..created
      /\ 1..created \subseteq Obs
  BY ConstantsAssumption, ObsFacts DEF CreatePeerConnection, TypeOK
<1>2. /\ pc'[t] \in {"lookup", "register", "discard"}
      /\ op'[t] = op[t] /\ ptr'[t] = o
      /\ pc'[t] = "lookup" => op[t] = "createOffer"
  BY DEF CreatePeerConnection, AfterCreate, Goto, TypeOK
<1>3. \A u \in Thread : u # t => /\ pc'[u] = pc[u] /\ ptr'[u] = ptr[u]
                                 /\ op'[u] = op[u] /\ hup'[u] = hup[u]
  BY DEF CreatePeerConnection, Goto, TypeOK
<1>4. /\ peerOf'[o] = p
      /\ \A q \in 1..created : peerOf'[q] = peerOf[q] /\ peerOf[q] # p
      /\ UNCHANGED <<ice, freed, peerMap>>
  BY <1>1 DEF CreatePeerConnection, OnlyReaped, TypeOK
<1>5. ice[o] = "new"
  BY <1>1 DEF ReapInv
<1>6. Registered' = Registered /\ Live \subseteq Live'
  BY <1>1, <1>4 DEF Registered, Live
<1>7. \A u \in Thread : u # t /\ pc[u] \in Pointing => ptr[u] \in 1..created
  BY DEF Allocated
<1> HIDE DEF o
<1>8. \A a, b \in 1..created' : a # b => peerOf'[a] # peerOf'[b]
  BY <1>1, <1>4 DEF ReapInv
<1>9. \A q \in Obs : q \notin 1..created' => ice'[q] = "new"
  BY <1>1, <1>4 DEF ReapInv
<1>10. OpeningInv'
  <2>1. \A u \in Thread : pc'[u] \in Opening => ice'[ptr'[u]] = "new"
    BY <1>2, <1>3, <1>4, <1>5 DEF ReapInv, OpeningInv
  <2>2. \A u \in Thread : u # t /\ pc[u] \in Opening => ptr[u] # o
    BY <1>1, <1>7 DEF Opening, Pointing
  <2>3. \A u \in Thread : pc'[u] \in Opening =>
            \A v \in Thread \ {u} : pc'[v] \in Opening => ptr'[v] # ptr'[u]
    BY <1>2, <1>3, <2>2 DEF ReapInv, OpeningInv
  <2>4. \A u \in Thread : pc'[u] \in Adding /\ op'[u] # "createOffer"
                          => ptr'[u] \in Registered'
    BY <1>2, <1>3, <1>6 DEF ReapInv, OpeningInv, Adding
  <2>5. QED
    BY <2>1, <2>3, <2>4 DEF OpeningInv
<1>11. SpawnedInv'
  <2>1. \A u \in Thread : pc'[u] \in {"spawned", "find"} \cup HangingUp =>
            u # t /\ pc'[u] = pc[u] /\ ptr'[u] = ptr[u] /\ hup'[u] = hup[u]
    BY <1>2, <1>3 DEF HangingUp
  <2>2. \A u \in Thread : pc'[u] = "spawned" => peerOf'[ptr[u]] = peerOf[ptr[u]]
    BY <1>4, <1>7, <2>1 DEF Pointing
  <2>3. QED
    BY <1>4, <1>6, <2>1, <2>2 DEF ReapInv, SpawnedInv
<1>12. DoomedInv'
  BY <1>1, <1>2, <1>3, <1>4 DEF ReapInv, DoomedInv, HangingUp
<1>13. QED
  BY <1>8, <1>9, <1>10, <1>11, <1>12 DEF ReapInv

\* Deleting the observer of a thread that is opening or hanging up keeps ReapInv.
LEMMA ReapDelete ==
    ASSUME Inv, ReapInv, NEW t \in Thread, Alone(t),
           pc[t] \in {"discard"} \cup HangingUp,
           freed' = freed \cup {ptr[t]},
           UNCHANGED <<created, peerOf, peerMap, ice>>,
           \A u \in Thread \ {t} : hup'[u] = hup[u],
           pc'[t] \in {"idle", "create"}
    PROVE  ReapInv'
<1> TypeOK /\ Allocated
  BY DEF Inv
<1>1. \A u \in Thread : u # t => pc'[u] = pc[u] /\ op'[u] = op[u] /\ ptr'[u] = ptr[u]
                                 /\ hup'[u] = hup[u]
  BY DEF Alone
<1>2. Registered' = Registered /\ Live' = Live \ {ptr[t]}
  BY DEF Registered, Live
<1>3. \A u \in Thread : pc[u] = "spawned" => ptr[u] # ptr[t]
  BY DEF ReapInv, OpeningInv, SpawnedInv, Opening
<1>4. pc'[t] \notin Opening \cup Adding \cup HangingUp \cup {"spawned", "find"}
  BY DEF Opening, Adding, HangingUp
<1>5. OpeningInv'
  BY <1>1, <1>2, <1>4 DEF ReapInv, OpeningInv
<1>6. SpawnedInv'
  BY <1>1, <1>2, <1>3, <1>4 DEF ReapInv, SpawnedInv
<1>7. DoomedInv'
  BY <1>1, <1>4 DEF ReapInv, DoomedInv
<1>8. QED
  BY <1>5, <1>6, <1>7 DEF ReapInv

\* An observer with a peer id of its own is really registered by insert.
LEMMA ReapRegister ==
    ASSUME OwnershipInv, ReapInv, NEW t \in Thread, Register(t)
    PROVE  /\ ReapInv'
           /\ Registered' = Registered \cup {ptr[t]}
<1> TypeOK /\ Allocated
  BY DEF OwnershipInv, Inv
<1>1. /\ pc[t] = "register"
      /\ pc' = [pc EXCEPT ![t] = IF op[t] = "createOffer" THEN "negotiate" ELSE "lookup"]
      /\ peerMap' = InsertPeer(ptr[t])
      /\ UNCHANGED <<created, peerOf, ice, freed, op, ptr, hup>>
  BY DEF Register, At, Goto, obsVars
<1>2. PICK o \in 1..created : o = ptr[t] /\ peerOf[o] \in PeerId
  BY <1>1 DEF Allocated, Pointing
<1>3. o \notin Registered /\ o # Null
  BY <1>1, <1>2, ObsFacts DEF OwnershipInv, ExclusiveOwnership, Owns
<1>4. peerMap[peerOf[o]] = Null
  <2> SUFFICES ASSUME peerMap[peerOf[o]] # Null
               PROVE  FALSE
    OBVIOUS
  <2>1. /\ peerMap[peerOf[o]] \in 1..created
        /\ peerOf[peerMap[peerOf[o]]] = peerOf[o]
        /\ peerMap[peerOf[o]] \in Registered
    BY <1>2 DEF OwnershipInv, RegisteredObservers, Live, Registered
  <2>2. QED
    BY <1>3, <2>1 DEF ReapInv
<1>5. peerMap'[peerOf[o]] = o /\ \A q \in PeerId : q # peerOf[o] => peerMap'[q] = peerMap[q]
  BY <1>1, <1>2, <1>4 DEF InsertPeer, TypeOK
<1>6. Registered' = Registered \cup {o}
  BY <1>2, <1>3, <1>4, <1>5 DEF Registered
<1>7. /\ pc'[t] \in {"negotiate", "lookup"}
      /\ \A u \in Thread : u # t => pc'[u] = pc[u]
  BY <1>1 DEF TypeOK
<1>8. Live' = Live
  BY <1>1 DEF Live
<1>9. \A u \in Thread : pc'[u] \in Opening => pc[u] \in Opening
  BY <1>1, <1>7 DEF Opening
<1>10. OpeningInv'
  <2>1. \A u \in Thread : pc'[u] \in Adding /\ op'[u] # "createOffer" => ptr[u] \in Registered'
    BY <1>1, <1>2, <1>6, <1>7 DEF ReapInv, OpeningInv
  <2>2. QED
    BY <1>1, <1>9, <2>1 DEF ReapInv, OpeningInv
<1>11. SpawnedInv'
  BY <1>1, <1>7, <1>8 DEF ReapInv, SpawnedInv, HangingUp
<1>12. DoomedInv'
  BY <1>1, <1>7 DEF ReapInv, DoomedInv, HangingUp
<1>13. QED
  BY <1>1, <1>2, <1>6, <1>10, <1>11, <1>12 DEF ReapInv

\* An ICE failure starts one detached thread for an observer that had none.
LEMMA ReapFailure ==
    ASSUME OwnershipInv, ReapInv, NEW o \in Obs, NEW r \in Thread,
           OnIceConnectionChange(o, r)
    PROVE  ReapInv'
<1> TypeOK /\ Allocated
  BY DEF OwnershipInv, Inv
<1>1. /\ o \in Live /\ o \in 1..created /\ ice[o] = "active"
      /\ ice'[o] = "failed" /\ \A q \in Obs : q # o => ice'[q] = ice[q]
      /\ UNCHANGED <<created, peerOf, freed, peerMap, hup>>
  BY DEF OnIceConnectionChange, Live, TypeOK
<1>2. /\ pc'[r] = "spawned" /\ ptr'[r] = o
      /\ \A u \in Thread : u # r => pc'[u] = pc[u] /\ op'[u] = op[u] /\ ptr'[u] = ptr[u]
  BY DEF OnIceConnectionChange, Goto, TypeOK
<1>3. Registered' = Registered /\ Live' = Live
  BY <1>1 DEF Registered, Live
<1>4. \A u \in Thread : pc[u] \in Pointing => ptr[u] \in Obs
  BY ObsFacts DEF Allocated
<1>5. \A q \in Obs : ice[q] = "failed" => ice'[q] = "failed" /\ q # o
  BY <1>1
<1>6. \A q \in Obs : ice[q] = "new" => ice'[q] = "new"
  BY <1>1
<1>7. \A u \in Thread : pc'[u] \in Opening \cup Adding \cup HangingUp \cup {"find"} => u # r
  BY <1>2 DEF Opening, Adding, HangingUp
<1>8. OpeningInv'
  <2>1. \A u \in Thread : pc[u] \in Opening => ptr[u] \in Obs
    BY <1>4 DEF Opening, Pointing
  <2>2. QED
    BY <1>2, <1>3, <1>6, <1>7, <2>1 DEF ReapInv, OpeningInv
<1>9. \A u \in Thread : pc[u] = "spawned" => ptr[u] \in Obs /\ ptr[u] # o
  BY <1>4, <1>5 DEF Pointing, ReapInv, SpawnedInv
<1>10. \A u \in Thread : pc[u] = "find" => hup[u] # peerOf[o]
  BY <1>1, ObsFacts DEF ReapInv, DoomedInv
<1>11. \A u \in Thread : pc[u] \in HangingUp => ptr[u] \in Obs /\ ptr[u] # o
  BY <1>4, <1>5 DEF Pointing, ReapInv, DoomedInv
<1>12. SpawnedInv'
  BY <1>1, <1>2, <1>3, <1>5, <1>7, <1>9, <1>10, <1>11 DEF ReapInv, SpawnedInv
<1>13. DoomedInv'
  BY <1>1, <1>2, <1>5, <1>7, <1>11, ObsFacts DEF ReapInv, DoomedInv
<1>14. QED
  BY <1>1, <1>6, <1>8, <1>12, <1>13 DEF ReapInv

\* The detached thread reads the peer id of an observer that still exists, and no other
\* thread is hanging that peer up.
LEMMA ReapRun ==
    ASSUME OwnershipInv, ReapInv, NEW r \in Thread, ReaperRuns(r)
    PROVE  ReapInv'
<1> TypeOK /\ Allocated
  BY DEF OwnershipInv, Inv
<1>1. /\ pc[r] = "spawned" /\ ptr[r] \in Live /\ ptr[r] \in 1..created /\ ptr[r] \notin freed
      /\ ice[ptr[r]] = "failed"
  BY DEF ReaperRuns, At, ReapInv, SpawnedInv, Live
<1>2. /\ hup' = [hup EXCEPT ![r] = peerOf[ptr[r]]]
      /\ pc' = [pc EXCEPT ![r] = "find"]
      /\ ptr' = [ptr EXCEPT ![r] = Null]
      /\ UNCHANGED <<created, peerOf, freed, peerMap, ice, op>>
  BY <1>1 DEF ReaperRuns, Goto, obsVars
<1>3. /\ pc'[r] = "find" /\ hup'[r] = peerOf[ptr[r]]
      /\ \A u \in Thread : u # r => pc'[u] = pc[u] /\ ptr'[u] = ptr[u] /\ hup'[u] = hup[u]
  BY <1>2 DEF TypeOK
<1>4. Registered' = Registered /\ Live' = Live
  BY <1>2 DEF Registered, Live
<1>5. \A u \in Thread : pc'[u] \in Opening \cup Adding \cup HangingUp \cup {"spawned"} => u # r
  BY <1>3 DEF Opening, Adding, HangingUp
<1>6. OpeningInv'
  BY <1>2, <1>3, <1>4, <1>5 DEF ReapInv, OpeningInv
<1>7. \A u \in Thread : u # r /\ pc[u] = "spawned" => peerOf[ptr[u]] # peerOf[ptr[r]]
  BY <1>1 DEF ReapInv, SpawnedInv, Live
<1>8. SpawnedInv'
  BY <1>2, <1>3, <1>4, <1>5, <1>7 DEF ReapInv, SpawnedInv
<1>9. DoomedInv'
  BY <1>1, <1>2, <1>3, <1>5 DEF ReapInv, DoomedInv
<1>10. QED
  BY <1>2, <1>6, <1>8, <1>9 DEF ReapInv

\* hangUp takes the failed observer out of the map, and none that is still opening.
LEMMA ReapFind ==
    ASSUME OwnershipInv, ReapInv, NEW t \in Thread, HangUpFind(t), peerMap[hup[t]] # Null
    PROVE  /\ ReapInv'
           /\ Registered' = Registered \ {ptr'[t]}
<1> TypeOK /\ Allocated
  BY DEF OwnershipInv, Inv
<1>1. /\ pc[t] = "find" /\ hup[t] \in PeerId
      /\ peerMap' = [peerMap EXCEPT ![hup[t]] = Null]
      /\ pc' = [pc EXCEPT ![t] = "senders"]
      /\ ptr' = [ptr EXCEPT ![t] = peerMap[hup[t]]]
      /\ UNCHANGED <<created, peerOf, freed, ice, op, hup>>
  BY DEF HangUpFind, At, Goto, obsVars, Allocated
<1>2. PICK o \in 1..created : o = peerMap[hup[t]]
  BY <1>1 DEF OwnershipInv, RegisteredObservers, Live
<1>3. peerOf[o] = hup[t]
  BY <1>1, <1>2 DEF OwnershipInv, RegisteredObservers
<1>4. ice[o] = "failed"
  BY <1>1, <1>3 DEF ReapInv, DoomedInv
<1>5. \A q \in PeerId : q # hup[t] => peerMap'[q] = peerMap[q] /\ peerMap[q] # o
  <2>1. \A q \in PeerId : peerMap[q] # Null => peerOf[peerMap[q]] = q
    BY DEF OwnershipInv, RegisteredObservers
  <2>2. o # Null
    BY <1>2
  <2>3. QED
    BY <1>1, <1>3, <2>1, <2>2 DEF TypeOK
<1>6. peerMap'[hup[t]] = Null
  BY <1>1 DEF TypeOK
<1>7. Registered' = Registered \ {o}
  BY <1>1, <1>2, <1>5, <1>6 DEF Registered
<1>8. /\ pc'[t] = "senders" /\ ptr'[t] = o
      /\ \A u \in Thread : u # t => pc'[u] = pc[u] /\ ptr'[u] = ptr[u]
  BY <1>1, <1>2 DEF TypeOK
<1>9. Live' = Live
  BY <1>1 DEF Live
<1>10. \A u \in Thread : pc'[u] \in Opening \cup Adding \cup {"spawned", "find"} => u # t
  BY <1>8 DEF Opening, Adding
<1>11. OpeningInv'
  <2>1. \A u \in Thread : pc[u] \in Opening \cup Adding => ptr[u] # o
    BY <1>4 DEF ReapInv, OpeningInv, Opening, Adding
  <2>2. QED
    BY <1>1, <1>7, <1>8, <1>10, <2>1 DEF ReapInv, OpeningInv
<1>12. \A u \in Thread : pc[u] = "spawned" => ptr[u] # o
  BY <1>1, <1>3 DEF ReapInv, SpawnedInv
<1>13. SpawnedInv'
  BY <1>1, <1>8, <1>9, <1>10, <1>12 DEF ReapInv, SpawnedInv
<1>14. DoomedInv'
  BY <1>1, <1>4, <1>8, <1>10 DEF ReapInv, DoomedInv
<1>15. QED
  BY <1>1, <1>7, <1>8, <1>11, <1>13, <1>14 DEF ReapInv

\* No step breaks ReapInv.
LEMMA ReapStep ==
    ASSUME OnlyReaped, OwnershipInv, ReapInv, [Next]_vars
    PROVE  ReapInv'
<1> TypeOK /\ Allocated /\ Inv
  BY DEF OwnershipInv, Inv
<1> USE DEF At, Goto, HangingUp, Opening, Adding, Alone, obsVars, threadVars, TypeOK
<1>0. ASSUME NEW t \in Thread, Return(t),
             UNCHANGED <<created, peerOf, freed, peerMap, ice>>
      PROVE  ReapInv'
  <2>1. Proceeds(t)
    BY <1>0 DEF Return, Proceeds
  <2>2. QED
    BY <2>1, ReapFrame
<1>1. ASSUME NEW t \in Thread, NEW l \in Location, pc' = [pc EXCEPT ![t] = l],
             UNCHANGED <<created, peerOf, freed, peerMap, ice, hup>>,
             \A u \in Thread \ {t} : op'[u] = op[u] /\ ptr'[u] = ptr[u],
             l \in Opening => pc[t] \in Opening /\ ptr'[t] = ptr[t],
             l \in Adding => pc[t] \in Adding /\ op'[t] = op[t],
             l \notin {"spawned", "find"},
             l \in HangingUp => pc[t] \in HangingUp /\ ptr'[t] = ptr[t]
      PROVE  ReapInv'
  <2>1. Proceeds(t)
    BY <1>1 DEF Proceeds
  <2>2. QED
    BY <2>1, ReapFrame
<1>2. ASSUME NEW t \in Thread, NEW f \in Op \cap Making, StartMaking(t, f)
      PROVE  ReapInv'
  BY <1>1, <1>2 DEF StartMaking, Location
<1>3. ASSUME NEW t \in Thread, NEW p \in PeerId, SetAnswerLookup(t, p)
      PROVE  ReapInv'
  BY <1>1, <1>3 DEF SetAnswerLookup, Location
<1>4. ASSUME NEW t \in Thread, SetAnswerApply(t)
      PROVE  ReapInv'
  <2>1. CASE UNCHANGED ice
    BY <1>0, <1>4, <2>1 DEF SetAnswerApply
  <2>2. CASE ~UNCHANGED ice
    <3>1. /\ pc[t] = "setremote" /\ ice[ptr[t]] = "offered"
          /\ ice' = [ice EXCEPT ![ptr[t]] = "active"]
          /\ UNCHANGED <<created, peerOf, freed, peerMap>>
          /\ Return(t)
      BY <1>4, <2>2 DEF SetAnswerApply
    <3>2. ptr[t] \in 1..created
      BY <3>1 DEF Allocated, Pointing
    <3>3. \A u \in Thread : pc'[u] \in Opening =>
              u # t /\ pc[u] \in Opening /\ ptr'[u] = ptr[u]
      BY <3>1 DEF Return
    <3>4. \A u \in Thread : pc'[u] \in Opening => ptr'[u] # ptr[t]
      BY <3>1, <3>3 DEF ReapInv, OpeningInv
    <3>5. \A o \in Obs : \/ ice'[o] = ice[o]
                         \/ /\ ice[o] # "failed"
                            /\ o \in 1..created
                            /\ \A u \in Thread : pc'[u] \in Opening => ptr'[u] # o
      BY <3>1, <3>2, <3>4
    <3>6. Proceeds(t)
      BY <3>1, <3>5 DEF Return, Proceeds
    <3>7. QED
      BY <3>6, ReapFrame
  <2>3. QED
    BY <2>1, <2>2
<1>5. ASSUME NEW t \in Thread, GetOldest(t)
      PROVE  ReapInv'
  <2>1. OldestPeer = {Empty}
    BY ConstantsAssumption DEF OldestPeer, MapIsFull, OnlyReaped
  <2>2. QED
    BY <1>1, <1>5, <2>1 DEF GetOldest, Location
<1>6. ASSUME NEW t \in Thread, Discard(t)
      PROVE  ReapInv'
  BY <1>6, ReapDelete DEF Discard, Return
<1>7. ASSUME NEW t \in Thread, LookupStream(t), ~Crash
      PROVE  ReapInv'
  <2>1. PICK l \in {"insert", "attach"} :
            /\ pc' = [pc EXCEPT ![t] = l]
            /\ pc[t] = "lookup"
            /\ UNCHANGED <<created, peerOf, freed, peerMap, ice, op, ptr, hup>>
    BY <1>7 DEF LookupStream
  <2>2. QED
    BY <1>1, <2>1 DEF Location
<1>8. ASSUME NEW t \in Thread, NEW ks \in SUBSET Kind, CreateSources(t, ks)
      PROVE  ReapInv'
  BY <1>1, <1>8 DEF CreateSources, Location
<1>9. ASSUME NEW t \in Thread, AttachTracks(t), ~Crash
      PROVE  ReapInv'
  <2>1. pc[t] = "attach" /\ UNCHANGED <<created, peerOf, freed, peerMap, ice>>
    BY <1>9 DEF AttachTracks
  <2>2. CASE Return(t)
    BY <1>0, <2>1, <2>2
  <2>3. CASE ~Return(t)
    <3>1. PICK l \in {"register", "negotiate"} :
              /\ pc' = [pc EXCEPT ![t] = l]
              /\ UNCHANGED <<op, ptr, hup>>
      BY <1>9, <2>3 DEF AttachTracks
    <3>2. QED
      BY <1>1, <2>1, <3>1 DEF Location
  <2>4. QED
    BY <2>2, <2>3
<1>10. ASSUME NEW t \in Thread, Negotiate(t)
       PROVE  ReapInv'
  <2>1. /\ pc[t] = "negotiate"
        /\ UNCHANGED <<created, peerOf, freed, peerMap>>
        /\ \A u \in Thread : u # t => /\ pc'[u] = pc[u] /\ op'[u] = op[u]
                                      /\ ptr'[u] = ptr[u] /\ hup'[u] = hup[u]
        /\ pc'[t] \in {"gather", "idle"}
    BY <1>10 DEF Negotiate, Return
  <2>2. ptr[t] \in 1..created /\ ice[ptr[t]] = "new"
    BY <2>1 DEF Allocated, Pointing, ReapInv, OpeningInv
  <2>3. \A u \in Thread : pc'[u] \in Opening => ptr'[u] # ptr[t]
    BY <2>1 DEF ReapInv, OpeningInv
  <2>4. \A o \in Obs : o # ptr[t] => ice'[o] = ice[o]
    BY <1>10 DEF Negotiate
  <2>5. Proceeds(t)
    BY <2>1, <2>2, <2>3, <2>4 DEF Proceeds
  <2>6. QED
    BY <2>5, ReapFrame
<1>11. ASSUME NEW t \in Thread, WaitGathering(t), ~Crash
       PROVE  ReapInv'
  BY <1>0, <1>11 DEF WaitGathering
<1>12. ASSUME NEW t \in Thread, HangUpFind(t)
       PROVE  ReapInv'
  <2>1. CASE peerMap[hup[t]] # Null
    BY <1>12, <2>1, ReapFind
  <2>2. CASE peerMap[hup[t]] = Null
    <3>1. Proceeds(t)
      BY <1>12, <2>2 DEF HangUpFind, HangUpReturns, Return, Proceeds
    <3>2. QED
      BY <3>1, ReapFrame
  <2>3. QED
    BY <2>1, <2>2
<1>13. ASSUME NEW t \in Thread, HangUpSenders(t)
       PROVE  ReapInv'
  BY <1>1, <1>13 DEF HangUpSenders, Location
<1>14. ASSUME NEW t \in Thread, HangUpCheck(t)
       PROVE  ReapInv'
  BY <1>1, <1>14 DEF HangUpCheck, NextSender, Location
<1>15. ASSUME NEW t \in Thread, HangUpErase(t)
       PROVE  ReapInv'
  BY <1>1, <1>15 DEF HangUpErase, NextSender, Location
<1>16. ASSUME NEW t \in Thread, HangUpDelete(t)
       PROVE  ReapInv'
  BY <1>16, ReapDelete DEF HangUpDelete, HangUpReturns, Return
<1>17. ASSUME UNCHANGED <<peerMap, created, freed, peerOf, ice, pc, op, ptr, hup>>
       PROVE  ReapInv'
  BY <1>17 DEF ReapInv, OpeningInv, SpawnedInv, DoomedInv, Registered, Live
<1>18. CASE Crash \/ UNCHANGED vars
  BY <1>17, <1>18 DEF Crash, vars
<1> HIDE DEF At, Goto, HangingUp, Opening, Adding, Alone, obsVars, threadVars, TypeOK
<1>19. QED
  BY <1>2, <1>3, <1>4, <1>5, <1>6, <1>7, <1>8, <1>9, <1>10, <1>11, <1>12, <1>13, <1>14,
     <1>15, <1>16, <1>18, ReapCreate, ReapRegister, ReapFailure, ReapRun
  DEF Next, Request, Handle, HangUp, Crashed, Thread, OnlyReaped

\* ReapInv holds in every reachable state.
THEOREM ReapAlways ==
    ASSUME OnlyReaped
    PROVE  Spec => []ReapInv
<1>1. Init => ReapInv
  BY ConstantsAssumption
  DEF Init, ReapInv, OpeningInv, SpawnedInv, DoomedInv, Opening, Adding, HangingUp
<1>2. OwnershipInv /\ ReapInv /\ [Next]_vars => ReapInv'
  BY ReapStep
<1>3. QED
  BY <1>1, <1>2, OwnershipAlways, PTL DEF Spec

\* When peers leave by ICE failure alone and peer ids are unique, the detached thread
\* never reads m_peerid of an observer that has been deleted: one failure starts one
\* thread, and only that thread hangs the peer up.
THEOREM DetachedTheorem ==
    ASSUME OnlyReaped
    PROVE  Spec => []DetachedThreadsFindObserver
<1>1. ReapInv => DetachedThreadsFindObserver
  BY DEF ReapInv, SpawnedInv, DetachedThreadsFindObserver, Thread
<1>2. QED
  BY <1>1, ReapAlways, PTL

-----------------------------------------------------------------------------
(* Capturers stop when their last viewer has gone.                          *)

\* Somebody uses the sources of label l, or will look at them again: a registered
\* viewer, a request that is about to attach tracks or to register its observer, or
\* a hangUp whose loop has not come to the end.
Watched(l) ==
    \/ \E o \in Registered : lbl[o] = l /\ src[o] # Null
    \/ \E t \in Thread : pc[t] = "attach" /\ lbl[ptr[t]] = l
    \/ \E t \in Thread : /\ pc[t] \in {"register", "senders", "check", "erase"}
                         /\ lbl[ptr[t]] = l
                         /\ src[ptr[t]] # Null

Running(l) == streamMap[l] # Null /\ made[streamMap[l]] # {}

WatchInv == up => \A l \in Label : Running(l) => Watched(l)

\* The locations that make a thread a witness of Watched.
Watching == {"attach", "register", "senders", "check", "erase"}

\* A step of a thread that was not a witness, and that leaves sources and registered
\* observers where they are, keeps WatchInv.
LEMMA WatchFrame ==
    ASSUME WatchInv, up, NEW t \in Thread, Alone(t), pc[t] \notin Watching,
           Registered \subseteq Registered', UNCHANGED <<streamMap, lbl, made, src>>
    PROVE  WatchInv'
<1>1. \A u \in Thread : pc[u] \in Watching => pc'[u] = pc[u] /\ ptr'[u] = ptr[u]
  BY DEF Alone
<1>2. \A l \in Label : Watched(l) => Watched(l)'
  BY <1>1 DEF Watched, Watching
<1>3. \A l \in Label : Running(l)' => Running(l)
  BY DEF Running
<1>4. QED
  BY <1>2, <1>3 DEF WatchInv

\* No step breaks WatchInv.
LEMMA WatchStep ==
    ASSUME OnlyReaped, OwnershipInv, StreamInv, ReapInv, WatchInv, [Next]_vars
    PROVE  WatchInv'
<1> TypeOK /\ Allocated /\ Inv
  BY DEF OwnershipInv, Inv
<1> USE DEF At, Goto, HangingUp, obsVars, threadVars
<1>0. \A l \in Label : up /\ Running(l) => Watched(l)
  BY DEF WatchInv
<1>1. ASSUME NEW t \in Thread, up, pc[t] \notin Watching, Alone(t),
             UNCHANGED <<peerMap, streamMap, lbl, made, src>>
      PROVE  WatchInv'
  BY <1>1, WatchFrame DEF Registered
<1>2. ASSUME NEW t \in Thread, NEW p \in PeerId, NEW l \in Label, NEW ok \in BOOLEAN,
             CreatePeerConnection(t, p, l, ok)
      PROVE  WatchInv'
  <2>1. /\ up /\ pc[t] = "create" /\ created + 1 \notin 1..created
        /\ lbl' = [lbl EXCEPT ![created + 1] = l]
        /\ UNCHANGED <<peerMap, streamMap, made, src>>
    BY <1>2, ConstantsAssumption DEF CreatePeerConnection, TypeOK
  <2>2. \A u \in Thread : pc[u] \in Watching =>
            pc'[u] = pc[u] /\ ptr'[u] = ptr[u] /\ ptr[u] \in 1..created
    BY <1>2, <2>1 DEF CreatePeerConnection, TypeOK, Watching, Allocated, Pointing
  <2>3. \A o \in 1..created : lbl'[o] = lbl[o]
    BY <2>1 DEF TypeOK
  <2>4. Registered' = Registered /\ Registered \subseteq 1..created
    BY <2>1 DEF Registered, OwnershipInv, RegisteredObservers, Live
  <2>5. \A k \in Label : Watched(k) => Watched(k)'
    BY <2>1, <2>2, <2>3, <2>4 DEF Watched, Watching
  <2>6. \A k \in Label : Running(k)' => Running(k)
    BY <2>1 DEF Running
  <2>7. QED
    BY <1>0, <2>1, <2>5, <2>6 DEF WatchInv
<1>3. ASSUME NEW t \in Thread, NEW ks \in SUBSET Kind, CreateSources(t, ks)
      PROVE  WatchInv'
  <2>1. /\ up /\ pc[t] = "insert"
        /\ made' = [made EXCEPT ![ptr[t]] = ks]
        /\ streamMap' = InsertStream(ptr[t])
        /\ UNCHANGED <<peerMap, lbl, src, ptr>>
    BY <1>3 DEF CreateSources
  <2>2. pc'[t] = "attach" /\ \A u \in Thread : pc[u] \in Watching => pc'[u] = pc[u]
    BY <1>3, <2>1 DEF CreateSources, TypeOK, Watching
  <2>3. ptr[t] \in Obs /\ lbl[ptr[t]] \in Label
    BY <2>1, FreshFacts DEF Fresh
  <2>4. Watched(lbl[ptr[t]])'
    BY <2>1, <2>2 DEF Watched
  <2>5. ASSUME NEW l \in Label, l # lbl[ptr[t]], Running(l)'
        PROVE  Watched(l)'
    <3>1. streamMap'[l] = streamMap[l]
      BY <2>1, <2>3, <2>5 DEF InsertStream, TypeOK
    <3>2. streamMap[l] # Null /\ lbl[streamMap[l]] = l
      BY <2>5, <3>1 DEF Running, StreamInv
    <3>3. made'[streamMap[l]] = made[streamMap[l]]
      BY <2>1, <2>3, <2>5, <3>2 DEF TypeOK
    <3>4. Watched(l)
      BY <1>0, <2>1, <2>5, <3>1, <3>3 DEF Running
    <3>5. QED
      BY <2>1, <2>2, <3>4 DEF Watched, Watching, Registered
  <2>6. QED
    BY <2>1, <2>4, <2>5 DEF WatchInv
<1>4. ASSUME NEW t \in Thread, AttachTracks(t), ~Crash
      PROVE  WatchInv'
  <2> DEFINE o == ptr[t]
             e == streamMap[lbl[o]]
  <2>1. /\ up /\ pc[t] = "attach" /\ o \in Obs /\ lbl[o] \in Label
        /\ UNCHANGED <<peerMap, streamMap, lbl, made, up>>
    BY <1>4, ObsFacts DEF AttachTracks, Allocated, Pointing
  <2>0. PICK k \in Label : k = lbl[o]
    BY <2>1
  <2>2. Registered' = Registered
    BY <2>1 DEF Registered
  <2>3. o \notin freed /\ (op[t] # "createOffer" => o \in Registered)
    <3>1. op[t] # "createOffer" => o \in Registered
      BY <2>1 DEF ReapInv, OpeningInv, Adding
    <3>2. op[t] = "createOffer" => o \in Live
      BY <2>1 DEF OwnershipInv, ExclusiveOwnership, Owns
    <3>3. Registered \subseteq Live
      BY DEF Registered, OwnershipInv, RegisteredObservers
    <3>4. QED
      BY <3>1, <3>2, <3>3 DEF Live
  <2>4. CASE AttachableSources(e) # {}
    <3>1. /\ src' = [src EXCEPT ![o] = e]
          /\ pc' = [pc EXCEPT ![t] = IF op[t] = "createOffer" THEN "register"
                                                             ELSE "negotiate"]
          /\ UNCHANGED ptr
      BY <1>4, <2>3, <2>4 DEF AttachTracks
    <3>2. e # Null /\ src'[o] = e /\ \A q \in Obs : q # o => src'[q] = src[q]
      BY <2>1, <2>4, <3>1 DEF AttachableSources, TypeOK
    <3>3. \A u \in Thread : u # t => pc'[u] = pc[u]
      BY <3>1 DEF TypeOK
    <3>4. op[t] = "createOffer" => pc'[t] = "register"
      BY <3>1 DEF TypeOK
    <3>5. Watched(k)'
      BY <2>0, <2>1, <2>2, <2>3, <3>1, <3>2, <3>4 DEF Watched
    <3>6. ASSUME NEW l \in Label, l # k, Watched(l)
          PROVE  Watched(l)'
      <4>1. \A q \in Obs : src[q] # Null => src'[q] # Null
        BY <3>2
      <4>2. Registered \subseteq Obs
        BY DEF TypeOK, Registered
      <4>3. \A u \in Thread : pc[u] \in Watching => ptr[u] \in Obs
        BY ObsFacts DEF Allocated, Pointing, Watching
      <4>4. QED
        BY <2>0, <2>1, <2>2, <3>1, <3>3, <3>6, <4>1, <4>2, <4>3 DEF Watched, Watching
    <3>7. \A l \in Label : Running(l)' => Running(l)
      BY <2>1 DEF Running
    <3>8. QED
      BY <1>0, <2>1, <3>5, <3>6, <3>7 DEF WatchInv
  <2>5. CASE AttachableSources(e) = {}
    <3>1. Return(t) /\ UNCHANGED src
      BY <1>4, <2>5 DEF AttachTracks
    <3>2. \A u \in Thread : u # t => pc'[u] = pc[u] /\ ptr'[u] = ptr[u]
      BY <3>1 DEF Return, TypeOK
    <3>3. \A l \in Label : l # k /\ Watched(l) => Watched(l)'
      BY <2>0, <2>1, <2>2, <3>1, <3>2 DEF Watched
    <3>4. ~Running(k)'
      BY <2>0, <2>1, <2>5 DEF Running, AttachableSources
    <3>5. \A l \in Label : Running(l)' => Running(l)
      BY <2>1 DEF Running
    <3>6. QED
      BY <1>0, <2>1, <3>3, <3>4, <3>5 DEF WatchInv
  <2>6. QED
    BY <2>4, <2>5
<1>5. ASSUME NEW t \in Thread, Register(t)
      PROVE  WatchInv'
  <2>1. /\ up /\ UNCHANGED <<streamMap, lbl, made, src, ptr>>
        /\ \A u \in Thread : u # t => pc'[u] = pc[u]
        /\ pc[t] = "register"
    BY <1>5 DEF Register, TypeOK
  <2>2. Registered' = Registered \cup {ptr[t]}
    BY <1>5, ReapRegister
  <2>3. \A l \in Label : Watched(l) => Watched(l)'
    BY <2>1, <2>2 DEF Watched
  <2>4. \A l \in Label : Running(l)' => Running(l)
    BY <2>1 DEF Running
  <2>5. QED
    BY <1>0, <2>1, <2>3, <2>4 DEF WatchInv
<1>6. ASSUME NEW t \in Thread, HangUpFind(t), peerMap[hup[t]] # Null
      PROVE  WatchInv'
  <2>1. /\ up /\ UNCHANGED <<streamMap, lbl, made, src>>
        /\ \A u \in Thread : u # t => pc'[u] = pc[u] /\ ptr'[u] = ptr[u]
        /\ pc[t] = "find" /\ pc'[t] = "senders"
    BY <1>6 DEF HangUpFind, TypeOK
  <2>2. Registered' = Registered \ {ptr'[t]}
    BY <1>6, ReapFind
  <2>3. \A l \in Label : Watched(l) => Watched(l)'
    BY <2>1, <2>2 DEF Watched
  <2>4. \A l \in Label : Running(l)' => Running(l)
    BY <2>1 DEF Running
  <2>5. QED
    BY <1>0, <2>1, <2>3, <2>4 DEF WatchInv
<1>7. ASSUME NEW t \in Thread, up, UNCHANGED <<peerMap, streamMap, lbl, made, src, ptr>>,
             \A u \in Thread : u # t => pc'[u] = pc[u],
             pc[t] \in {"senders", "check"},
             \/ pc'[t] \in {"check", "erase"}
             \/ src[ptr[t]] = Null
             \/ StreamStillUsed(lbl[ptr[t]])
      PROVE  WatchInv'
  <2>1. Registered' = Registered
    BY <1>7 DEF Registered
  <2>2. \A l \in Label : Watched(l) => Watched(l)'
    BY <1>7, <2>1 DEF Watched, StreamStillUsed
  <2>3. \A l \in Label : Running(l)' => Running(l)
    BY <1>7 DEF Running
  <2>4. QED
    BY <1>0, <1>7, <2>2, <2>3 DEF WatchInv
<1>8. ASSUME NEW t \in Thread, HangUpSenders(t)
      PROVE  WatchInv'
  <2>1. pc[t] = "senders" /\ ptr[t] \in 1..created
    BY <1>8 DEF HangUpSenders, Allocated, Pointing
  <2>2. CASE src[ptr[t]] = Null
    BY <1>7, <1>8, <2>1, <2>2 DEF HangUpSenders, TypeOK
  <2>3. CASE src[ptr[t]] # Null
    <3>1. made[src[ptr[t]]] # {} /\ made[src[ptr[t]]] \subseteq Kind
      BY <2>1, <2>3, ObsFacts DEF StreamInv, SendersHaveSources, TypeOK
    <3>2. Cardinality(made[src[ptr[t]]]) # 0
      BY <3>1, ConstantsAssumption, FS_Subset, FS_EmptySet
    <3>3. pc' = [pc EXCEPT ![t] = "check"]
      BY <1>8, <2>3, <3>2 DEF HangUpSenders
    <3>4. QED
      BY <1>7, <1>8, <2>1, <3>3 DEF HangUpSenders, TypeOK
  <2>4. QED
    BY <2>2, <2>3
<1>9. ASSUME NEW t \in Thread, HangUpCheck(t)
      PROVE  WatchInv'
  <2>1. CASE StreamStillUsed(lbl[ptr[t]])
    BY <1>7, <1>9, <2>1 DEF HangUpCheck, NextSender, TypeOK
  <2>2. CASE ~StreamStillUsed(lbl[ptr[t]])
    BY <1>7, <1>9, <2>2 DEF HangUpCheck, TypeOK
  <2>3. QED
    BY <2>1, <2>2
<1>10. ASSUME NEW t \in Thread, HangUpErase(t)
       PROVE  WatchInv'
  <2>1. /\ up /\ pc[t] = "erase" /\ lbl[ptr[t]] \in Label
        /\ streamMap' = [streamMap EXCEPT ![lbl[ptr[t]]] = Null]
        /\ UNCHANGED <<peerMap, lbl, made, src, ptr>>
    BY <1>10 DEF HangUpErase, Allocated, Pointing
  <2>2. \A u \in Thread : u # t => pc'[u] = pc[u]
    BY <1>10 DEF HangUpErase, NextSender, TypeOK
  <2>3. \A l \in Label : l # lbl[ptr[t]] /\ Watched(l) => Watched(l)'
    BY <2>1, <2>2 DEF Watched, Registered
  <2>4. \A l \in Label : Running(l)' => Running(l) /\ l # lbl[ptr[t]]
    BY <2>1 DEF Running, TypeOK
  <2>5. QED
    BY <1>0, <2>1, <2>3, <2>4 DEF WatchInv
<1>11. CASE Crash
  BY <1>11 DEF Crash, WatchInv
<1>12. CASE UNCHANGED vars
  <2>1. Registered' = Registered
    BY <1>12 DEF vars, Registered
  <2>2. \A l \in Label : Watched(l) => Watched(l)'
    BY <1>12, <2>1 DEF vars, Watched
  <2>3. \A l \in Label : Running(l)' => Running(l)
    BY <1>12 DEF vars, Running
  <2>4. QED
    BY <1>0, <1>12, <2>2, <2>3 DEF vars, WatchInv
<1>13. ASSUME NEW t \in Thread, Request(t)
       PROVE  WatchInv'
  BY <1>1, <1>13
  DEF Request, StartMaking, StartHangUp, SetAnswerLookup, Alone, TypeOK, Watching
<1>14. ASSUME NEW t \in Thread, GetOldest(t)
       PROVE  WatchInv'
  BY <1>1, <1>14 DEF GetOldest, Alone, TypeOK, Watching
<1>15. ASSUME NEW t \in Thread,
              \/ Discard(t) \/ SetAnswerApply(t) \/ HangUpDelete(t)
              \/ WaitGathering(t) /\ ~Crash
              \/ HangUpFind(t) /\ peerMap[hup[t]] = Null
       PROVE  WatchInv'
  <2>1. up /\ pc[t] \notin Watching /\ UNCHANGED <<peerMap, streamMap, lbl, made, src>>
    BY <1>15 DEF Discard, SetAnswerApply, HangUpDelete, WaitGathering, HangUpFind, Watching
  <2>2. Return(t) \/ HangUpReturns(t)
    BY <1>15 DEF Discard, SetAnswerApply, HangUpDelete, WaitGathering, HangUpFind
  <2>3. Alone(t)
    BY <2>2 DEF Return, HangUpReturns, Alone, TypeOK
  <2>4. QED
    BY <1>1, <2>1, <2>3
<1>16. ASSUME NEW t \in Thread, LookupStream(t), ~Crash
       PROVE  WatchInv'
  <2>1. /\ up /\ pc[t] = "lookup"
        /\ \E l \in Location : pc' = [pc EXCEPT ![t] = l]
        /\ UNCHANGED <<peerMap, streamMap, lbl, made, src, op, ptr>>
    BY <1>16 DEF LookupStream, Location
  <2>2. QED
    BY <1>1, <2>1 DEF Alone, TypeOK, Watching
<1>17. ASSUME NEW t \in Thread, Negotiate(t)
       PROVE  WatchInv'
  <2>1. /\ up /\ pc[t] \notin Watching
        /\ UNCHANGED <<peerMap, streamMap, lbl, made, src>>
    BY <1>17 DEF Negotiate, Watching
  <2>2. Alone(t)
    BY <1>17 DEF Negotiate, Return, Alone, TypeOK
  <2>3. QED
    BY <1>1, <2>1, <2>2
<1>18. ASSUME NEW o \in Obs, NEW r \in Thread, OnIceConnectionChange(o, r)
       PROVE  WatchInv'
  BY <1>1, <1>18 DEF OnIceConnectionChange, Alone, TypeOK, Watching
<1>19. ASSUME NEW r \in Thread, ReaperRuns(r), ~Crash
       PROVE  WatchInv'
  <2>1. /\ up /\ pc[r] = "spawned"
        /\ pc' = [pc EXCEPT ![r] = "find"]
        /\ ptr' = [ptr EXCEPT ![r] = Null]
        /\ UNCHANGED <<peerMap, streamMap, lbl, made, src, op>>
    BY <1>19 DEF ReaperRuns
  <2>2. QED
    BY <1>1, <2>1 DEF Alone, TypeOK, Watching
<1> HIDE DEF At, Goto, HangingUp, obsVars, threadVars
<1>20. QED
  BY <1>2, <1>3, <1>4, <1>5, <1>6, <1>8, <1>9, <1>10, <1>11, <1>12, <1>13, <1>14, <1>15,
     <1>16, <1>17, <1>18, <1>19
  DEF Next, Handle, HangUp, Crashed, Thread

\* When peers leave by ICE failure alone and peer ids are unique, a capturer whose last
\* viewer has gone is stopped, whatever the order in which viewers came and left: a
\* hangUp that finds no other viewer erases the entry, and one that does leaves it to
\* that viewer's own.
THEOREM WatchedTheorem ==
    ASSUME OnlyReaped
    PROVE  Spec => []CapturersAreWatched
<1>1. Init => WatchInv
  BY DEF Init, WatchInv, Running
<1>2. OwnershipInv /\ StreamInv /\ ReapInv /\ WatchInv /\ [Next]_vars => WatchInv'
  BY WatchStep
<1>3. WatchInv => CapturersAreWatched
  BY DEF WatchInv, CapturersAreWatched, Quiet, Running, Watched
<1>4. QED
  BY <1>1, <1>2, <1>3, OwnershipAlways, StreamAlways, ReapAlways, PTL DEF Spec

-----------------------------------------------------------------------------
(* Null and dangling pointers.                                             *)

\* The gathering loop of whep still has its observer.
GatheringFindsObserver == \A t \in Thread : pc[t] = "gather" => ptr[t] \notin freed

\* The process runs; AddStreams has a PeerConnection, and only whep gathers.
SurvivalInv ==
    /\ up
    /\ \A t \in Thread :
          /\ op[t] \in Making => op[t] \in Op
          /\ pc[t] \in Adding => hasPc[ptr[t]]
          /\ pc[t] = "gather" => op[t] = "whep"

\* A step of thread t that ends with a PeerConnection where AddStreams needs one keeps
\* SurvivalInv.
LEMMA SurvivalFrame ==
    ASSUME Allocated, SurvivalInv, NEW t \in Thread, Alone(t), up',
           \A o \in 1..created : hasPc'[o] = hasPc[o],
           op'[t] \in Making => op'[t] \in Op,
           pc'[t] \in Adding => hasPc'[ptr'[t]],
           pc'[t] = "gather" => op'[t] = "whep"
    PROVE  SurvivalInv'
<1>1. ASSUME NEW u \in Thread, u # t
      PROVE  /\ op'[u] \in Making => op'[u] \in Op
             /\ pc'[u] \in Adding => hasPc'[ptr'[u]]
             /\ pc'[u] = "gather" => op'[u] = "whep"
  BY <1>1 DEF Alone, SurvivalInv, Allocated, Pointing, Adding
<1>2. QED
  BY <1>1 DEF SurvivalInv

\* Without createOffer, only a read through a deleted observer could end the process.
LEMMA SurvivalStep ==
    ASSUME "createOffer" \notin Op, OwnershipInv, SurvivalInv, [Next]_vars,
           DetachedThreadsFindObserver, GatheringFindsObserver
    PROVE  SurvivalInv'
<1> TypeOK /\ Allocated
  BY DEF OwnershipInv, Inv
<1> USE DEF At, Goto, Alone, Adding, TypeOK, obsVars, threadVars
<1>0. ASSUME NEW t \in Thread, Return(t), UNCHANGED <<hasPc, up>>
      PROVE  SurvivalInv'
  BY <1>0, SurvivalFrame DEF Return, SurvivalInv, Making
<1>00. ASSUME NEW t \in Thread, HangUpReturns(t), UNCHANGED <<hasPc, up>>
       PROVE  SurvivalInv'
  BY <1>0, <1>00, SurvivalFrame DEF HangUpReturns, SurvivalInv
<1>1. ASSUME NEW t \in Thread, NEW l \in Location, pc' = [pc EXCEPT ![t] = l],
             UNCHANGED <<hasPc, up>>, \A u \in Thread \ {t} : ptr'[u] = ptr[u],
             \/ UNCHANGED op
             \/ \E f \in (Op \cap Making) \cup {"hangup", "setAnswer", "reap"} :
                   op' = [op EXCEPT ![t] = f],
             l # "gather",
             l \in Adding => hasPc[ptr'[t]]
      PROVE  SurvivalInv'
  BY <1>1, SurvivalFrame DEF SurvivalInv, Making
<1>2. ASSUME NEW t \in Worker, Request(t)
      PROVE  SurvivalInv'
  BY <1>1, <1>2 DEF Request, StartMaking, StartHangUp, SetAnswerLookup, Thread, Location
<1>3. ASSUME NEW t \in Thread, GetOldest(t)
      PROVE  SurvivalInv'
  BY <1>1, <1>3 DEF GetOldest, Location
<1>4. ASSUME NEW t \in Thread, NEW p \in PeerId, NEW l \in Label, NEW ok \in BOOLEAN,
             CreatePeerConnection(t, p, l, ok)
      PROVE  SurvivalInv'
  <2>1. \A o \in 1..created : hasPc'[o] = hasPc[o]
    BY <1>4 DEF CreatePeerConnection
  <2>2. op[t] # "createOffer" /\ pc'[t] \notin Adding \cup {"gather"}
    BY <1>4 DEF CreatePeerConnection, AfterCreate, SurvivalInv, Making
  <2>3. QED
    BY <1>4, <2>1, <2>2, SurvivalFrame DEF CreatePeerConnection, SurvivalInv
<1>5. ASSUME NEW t \in Thread, Discard(t) \/ SetAnswerApply(t)
      PROVE  SurvivalInv'
  BY <1>0, <1>5 DEF Discard, SetAnswerApply
<1>6. ASSUME NEW t \in Thread, Register(t)
      PROVE  SurvivalInv'
  <2>1. hasPc[ptr[t]]
    BY <1>6 DEF Register, Allocated
  <2>2. QED
    BY <1>1, <1>6, <2>1 DEF Register, Location
<1>7. ASSUME NEW t \in Thread, pc[t] \in Adding
      PROVE  hasPc[ptr[t]]
  BY <1>7 DEF SurvivalInv
<1>8. ASSUME NEW t \in Thread, LookupStream(t)
      PROVE  SurvivalInv'
  BY <1>1, <1>7, <1>8 DEF LookupStream, Location
<1>9. ASSUME NEW t \in Thread, NEW ks \in SUBSET Kind, CreateSources(t, ks)
      PROVE  SurvivalInv'
  BY <1>1, <1>7, <1>9 DEF CreateSources, Location
<1>10. ASSUME NEW t \in Thread, AttachTracks(t)
       PROVE  SurvivalInv'
  <2>1. /\ UNCHANGED <<hasPc, up>>
        /\ \/ Return(t)
           \/ \E l \in {"register", "negotiate"} :
                 pc' = [pc EXCEPT ![t] = l] /\ UNCHANGED <<op, ptr>>
    BY <1>7, <1>10 DEF AttachTracks
  <2>2. QED
    BY <1>0, <1>1, <2>1 DEF Location
<1>11. ASSUME NEW t \in Thread, Negotiate(t)
       PROVE  SurvivalInv'
  <2>1. CASE op[t] = "whep"
    BY <1>11, <2>1, SurvivalFrame DEF Negotiate, SurvivalInv
  <2>2. CASE op[t] # "whep"
    BY <1>0, <1>11, <2>2 DEF Negotiate
  <2>3. QED
    BY <2>1, <2>2
<1>12. ASSUME NEW t \in Thread, WaitGathering(t)
       PROVE  SurvivalInv'
  BY <1>0, <1>12 DEF WaitGathering, GatheringFindsObserver
<1>13. ASSUME NEW r \in Reaper, ReaperRuns(r)
       PROVE  SurvivalInv'
  <2>1. ptr[r] \notin freed
    BY <1>13 DEF ReaperRuns, DetachedThreadsFindObserver, Live
  <2>2. QED
    BY <1>1, <1>13, <2>1 DEF ReaperRuns, Thread, Location
<1>14. ASSUME NEW o \in Obs, NEW r \in Reaper, OnIceConnectionChange(o, r)
       PROVE  SurvivalInv'
  BY <1>1, <1>14 DEF OnIceConnectionChange, Thread, Location
<1>15. ASSUME NEW t \in Thread, HangUp(t)
       PROVE  SurvivalInv'
  <2>1. CASE HangUpFind(t)
    BY <1>00, <1>1, <2>1 DEF HangUpFind, Location
  <2>2. CASE HangUpSenders(t)
    BY <1>1, <2>2 DEF HangUpSenders, Location
  <2>3. CASE HangUpCheck(t) \/ HangUpErase(t)
    BY <1>1, <2>3 DEF HangUpCheck, HangUpErase, NextSender, Location
  <2>4. CASE HangUpDelete(t)
    BY <1>00, <2>4 DEF HangUpDelete
  <2>5. QED
    BY <1>15, <2>1, <2>2, <2>3, <2>4 DEF HangUp
<1>16. CASE UNCHANGED vars
  BY <1>16 DEF vars, SurvivalInv
<1> HIDE DEF At, Goto, Alone, Adding, TypeOK, obsVars, threadVars
<1>17. QED
  BY <1>2, <1>3, <1>4, <1>5, <1>6, <1>8, <1>9, <1>10, <1>11, <1>12, <1>13, <1>14, <1>15,
     <1>16
  DEF Next, Handle, Crashed, Thread

LEMMA SurvivalInit == Init => SurvivalInv
BY DEF Init, SurvivalInv, Adding, Making

\* For any number of threads, clients, hangups and ICE failures: without createOffer no
\* null pointer is ever used, and the process can only end at a detached thread or a
\* gathering loop of whep whose observer has been deleted.
THEOREM SurvivalTheorem ==
    ASSUME "createOffer" \notin Op
    PROVE  Spec /\ []DetachedThreadsFindObserver /\ []GatheringFindsObserver => []up
<1>1. /\ OwnershipInv /\ SurvivalInv /\ [Next]_vars
      /\ DetachedThreadsFindObserver /\ GatheringFindsObserver
      => SurvivalInv'
  BY SurvivalStep
<1>2. SurvivalInv => up
  BY DEF SurvivalInv
<1>3. QED
  BY <1>1, <1>2, SurvivalInit, OwnershipAlways, PTL DEF Spec

\* A server that is only asked for call, setAnswer and hangup survives if no ICE
\* connection fails; and so it does if viewers leave by ICE failure alone.
THEOREM CallsSurvive ==
    ASSUME Op \cap {"createOffer", "whep"} = {}, OnlyReaped \/ Reaper = {}
    PROVE  Spec => []up
<1>1. SurvivalInv => GatheringFindsObserver /\ up
  BY DEF SurvivalInv, GatheringFindsObserver, Making
<1>2. Spec => []DetachedThreadsFindObserver
  <2>1. CASE OnlyReaped
    BY <2>1, DetachedTheorem
  <2>2. CASE Reaper = {}
    <3>1. DetachedThreadsFindObserver
      BY <2>2 DEF DetachedThreadsFindObserver
    <3>2. QED
      BY <3>1, PTL
  <2>3. QED
    BY <2>1, <2>2
<1>3. OwnershipInv /\ SurvivalInv /\ [Next]_vars /\ DetachedThreadsFindObserver
      => SurvivalInv'
  BY <1>1, SurvivalStep
<1>4. QED
  BY <1>1, <1>2, <1>3, SurvivalInit, OwnershipAlways, PTL DEF Spec
=============================================================================
