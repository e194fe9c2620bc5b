------------------------- MODULE MCConfirmPipeline -------------------------
EXTENDS ConfirmPipeline

TopA2 == [br \in {"a"} |-> 2]
TopAB == [br \in {"a", "b"} |-> IF br = "a" THEN 2 ELSE 3]
NoBad == {}
AnyBad == Block \X {"load", "script", "write"}
============================================================================
