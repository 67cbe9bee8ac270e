-------------------------- MODULE ObserverOwnership --------------------------
(***************************************************************************)
(* What PeerConnectionManager promises about the raw pointers it keeps.    *)
(* A PeerConnectionObserver is created by one thread, which either puts it *)
(* in the map (m_peer_connectionobs_map), deletes it or loses it; from the *)
(* map exactly one thread takes it, and only a thread that has taken it    *)
(* deletes it.  Nothing is deleted twice, nothing in the map is deleted,   *)
(* and an entry of the map is never replaced by another observer.          *)
(***************************************************************************)
EXTENDS Naturals

CONSTANTS Thread, PeerId, Obs, Null

VARIABLES
    slot,    \* the observer registered under each peer id, or Null
    owner    \* the thread that may use and delete an observer, or where it is

vars == <<slot, owner>>

Init ==
    /\ slot = [p \in PeerId |-> Null]
    /\ owner = [o \in Obs |-> "unborn"]

Create(t, o) ==
    /\ owner[o] = "unborn"
    /\ owner' = [owner EXCEPT ![o] = t]
    /\ UNCHANGED slot

Publish(t, o, p) ==
    /\ owner[o] = t
    /\ slot[p] = Null
    /\ slot' = [slot EXCEPT ![p] = o]
    /\ owner' = [owner EXCEPT ![o] = "map"]

Take(t, p) ==
    /\ slot[p] # Null
    /\ owner[slot[p]] = "map"
    /\ owner' = [owner EXCEPT ![slot[p]] = t]
    /\ slot' = [slot EXCEPT ![p] = Null]

Delete(t, o) ==
    /\ owner[o] = t
    /\ owner' = [owner EXCEPT ![o] = "deleted"]
    /\ UNCHANGED slot

\* The last pointer to an observer that is not in the map goes out of scope.
Lose(t, o) ==
    /\ owner[o] = t
    /\ owner' = [owner EXCEPT ![o] = "lost"]
    /\ UNCHANGED slot

Next ==
    \E t \in Thread :
       \/ \E o \in Obs : Create(t, o) \/ Delete(t, o) \/ Lose(t, o)
       \/ \E o \in Obs, p \in PeerId : Publish(t, o, p)
       \/ \E p \in PeerId : Take(t, p)

Spec == Init /\ [][Next]_vars
=============================================================================
