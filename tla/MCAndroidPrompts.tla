-------------------------- MODULE MCAndroidPrompts --------------------------
(* Small instances of AndroidPrompts for TLC.                              *)
EXTENDS AndroidPrompts, TLC

CONSTANTS scan, connect

\* Android 12: a scan, a connect, and the default pair.
AndroidTwelve == {{scan}, {connect}, {scan, connect}}

\* One permission, and the calls that need none before Android 12.
AndroidEleven == {{scan}, {}}

\* Callers are interchangeable; used by the run without liveness.
CallerSymmetry == Permutations(Callers)
=============================================================================
