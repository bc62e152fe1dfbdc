---------------------------- MODULE HubStreamsMC ----------------------------
(* Two hosts, the first with two connections and the second with one; an    *)
(* administrator and another caller.                                        *)
EXTENDS HubStreams

CONSTANTS h1, h2, s1, s2, s3

MCHostOf == [s \in Streams |-> IF s = s3 THEN h2 ELSE h1]
=============================================================================
