-------------------------- MODULE BackendContract ---------------------------
(***************************************************************************)
(* A backend as the daemon knows it: VPNBackend's outcomes, one call or    *)
(* one worker's message at a time.  A detailed backend implements it.      *)
(***************************************************************************)
EXTENDS VPNBackend

CONSTANT Kind

VARIABLES bk,       \* the backend
          posted    \* what its last call or message reported

Init == bk = IdleBackend /\ posted = <<>>

Takes(o) == bk' = o.bk /\ posted' = o.posts

Connect == \E o \in ConnectOutcomes(Kind, bk) : Takes(o)

Disconnect == Takes(DisconnectOutcome(Kind, bk))

Work == \E o \in WorkerSteps(Kind, bk) : Takes(o)

\* The daemon died and another process has taken its place.
Restart == bk' = IdleBackend /\ posted' = <<>>

Next == Connect \/ Disconnect \/ Work \/ Restart

Spec == Init /\ [][Next]_<<bk, posted>>
=============================================================================
