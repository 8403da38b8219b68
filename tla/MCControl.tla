----------------------------- MODULE MCControl ------------------------------
(* What an operator works with: the diagnosis, the sessions of the API, the recovery of a plan, and *)
(* the vertical slice.  They share no state here; a behaviour is one of one of them.                *)
EXTENDS MCDiagnosis, Recovery, Sessions, VerticalSlice

MCInit == Init /\ RecoveryInit /\ SessionsInit /\ SliceInit

NoPlan == stage = "planned" /\ steps = 1 /\ undo = 1
NoTime == clock = 0 /\ logins = 0
ViewersOnly == \A u \in Users, r \in Roles : lastHeld[u][r] = IF r = "viewer" THEN 0 ELSE Never
NoSlice == slices = 0
NoReads == pc = "collect" /\ snapshot = <<>> /\ calls = 0 /\ hypothesizer = "rules"

MCNext ==
    \/ NoPlan /\ NoTime /\ ViewersOnly /\ NoSlice /\ Next /\ UNCHANGED <<rvars, svars, sliceVars>>
    \/ NoReads /\ NoTime /\ ViewersOnly /\ NoSlice /\ RecoveryNext /\ UNCHANGED <<vars, svars, sliceVars>>
    \/ NoReads /\ NoPlan /\ NoSlice /\ SessionsNext /\ UNCHANGED <<vars, rvars, sliceVars>>
    \/ NoReads /\ NoPlan /\ NoTime /\ ViewersOnly /\ SliceNext /\ UNCHANGED <<vars, rvars, svars>>

MCSpec == MCInit /\ [][MCNext]_<<vars, rvars, svars, sliceVars>>
=============================================================================
