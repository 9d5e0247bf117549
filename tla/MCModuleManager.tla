--------------------------- MODULE MCModuleManager ---------------------------
(* Instances of ModuleManager for TLC. *)
EXTENDS ModuleManager, TLC

CONSTANTS m1, m2, t1, t2, pause, resume

TwoModules == {m1, m2}
TwoTypes == {t1, t2}
MCTypeOf == (m1 :> t1) @@ (m2 :> t2)
OneModule == {m1}
OtherModule == {m2}
OneType == {t1}
MCTypeOfOne == m1 :> t1

NoCustom == {}
NoStates == [c \in {} |-> "paused"]
PauseResume == {pause, resume}
PauseTransition == (pause :> "pausing") @@ (resume :> "resuming")
PauseTarget == (pause :> "paused") @@ (resume :> "running")
=============================================================================
