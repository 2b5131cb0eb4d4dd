-------------------------- MODULE MCPyMetadataCache --------------------------
(* Small instances of PyMetadataCache for TLC.                             *)
EXTENDS PyMetadataCache, TLC

CONSTANTS t1, t2, t3, s1, u1, u2

ThreeThreads == {t1, t2, t3}
OneService == {s1}
TwoUrls == {u1, u2}

(* The client understands contracts 1 and 2, and not the third.            *)
FirstTwo == {1, 2}
=============================================================================
