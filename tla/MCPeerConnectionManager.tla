----------------------- MODULE MCPeerConnectionManager -----------------------
(* Instances of PeerConnectionManager for TLC.                             *)
EXTENDS PeerConnectionManager, TLC

\* Threads, labels and peer ids are interchangeable in safety runs.
Symmetry == Permutations(Worker) \cup Permutations(Reaper)
            \cup Permutations(PeerId) \cup Permutations(Label)
=============================================================================
