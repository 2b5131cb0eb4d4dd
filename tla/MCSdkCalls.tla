----------------------------- MODULE MCSdkCalls -----------------------------
(* Small instances of SdkCalls for TLC.                                    *)
EXTENDS SdkCalls, TLC

CONSTANTS c1, c2, s1, u1

TwoCallers == {c1, c2}
OneService == {s1}
OneUrl == {u1}
FirstTwo == {1, 2}
=============================================================================
