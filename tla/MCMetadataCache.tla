-------------------------- MODULE MCMetadataCache --------------------------
(* Small instances of MetadataCache for TLC.                               *)
EXTENDS MetadataCache, TLC

CONSTANTS c1, c2, c3, s1, u1, u2

TwoCallers == {c1, c2}
ThreeCallers == {c1, c2, c3}
OneService == {s1}
TwoUrls == {u1, u2}

(* The client understands contract 1, and 2 as well.                       *)
FirstTwo == {1, 2}
=============================================================================
