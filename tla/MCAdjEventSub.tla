---------------------------- MODULE MCAdjEventSub ----------------------------
(* AdjEventSub on small instances: two parties, the last version final.    *)
EXTENDS AdjEventSub

MCFinalVersions == {MaxVersion}
=============================================================================
