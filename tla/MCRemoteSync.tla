---------------------------- MODULE MCRemoteSync ----------------------------
(* Two trees, two workflow URLs, one CI job at a time.                       *)
EXTENDS RemoteSync

CONSTANTS a, b, u1, u2, j1, j2

MCContent == {a, b}
MCDeployed == {a}
MCUrl == {u1, u2}
MCJob == {j1, j2}
=============================================================================
