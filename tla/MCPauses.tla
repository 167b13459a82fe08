----------------------------- MODULE MCPauses -----------------------------
(* Pause configurations for TLC: three events for the pause, two of     *)
(* which satisfy a wait's expression.                                     *)
EXTENDS Pauses

MCEvents == {"e1", "e2", "e3"}
MCMatching == {"e1", "e2"}
MCNoEvents == {}
MCBothKinds == {"wait", "invoke"}
MCWait == {"wait"}
MCInvoke == {"invoke"}
MCLostWakeupSites == {"timeout", "consume", "enqueue"}
MCSendSite == {"send"}
MCRecoveredSites == {"save", "send", "lease"}
=============================================================================
