------------------------------- MODULE UbtLock -------------------------------
(***************************************************************************)
(* CmdUtils: the one lock under which the back end runs Unreal's build     *)
(* tools.  Waiting for it cannot be cancelled; a tool that is running ends *)
(* by itself, is killed when the lifetime of its caller ends, or, if it    *)
(* was given a time, when that is up.                                      *)
(***************************************************************************)
CONSTANT Nobody
VARIABLE ubtHolder  \* who runs a tool under the lock

UbtInit == ubtHolder = Nobody
RunWithLock(t) == ubtHolder = Nobody /\ ubtHolder' = t
Exited(t) == ubtHolder = t /\ ubtHolder' = Nobody

\* (Broken: a tool that does not exit is left alone, with the lock.)
KeptByHung(t) == FALSE /\ UNCHANGED ubtHolder
TimedOut(t) == Exited(t)
=============================================================================
