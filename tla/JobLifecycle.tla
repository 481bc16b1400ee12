---------------------------- MODULE JobLifecycle ----------------------------
(***************************************************************************)
(* What an accepted speech job promises its client: it is queued, a worker *)
(* begins it once, and it ends once, either with audio that can be played  *)
(* or with a failure.  An ended job never changes again.                   *)
(***************************************************************************)
CONSTANT Jobs

VARIABLES status,    \* status[j] as generation.proto names it, or "none"
          playable   \* jobs whose row names an audio object

vars == <<status, playable>>

Init == /\ status = [j \in Jobs |-> "none"]
        /\ playable = {}

\* The job moves between two statuses and its audio stays as it was.
Move(j, from, to) == /\ status[j] = from
                     /\ status' = [status EXCEPT ![j] = to]
                     /\ UNCHANGED playable

Submit(j) == Move(j, "none", "queued")
Begin(j)  == Move(j, "queued", "processing")
Fail(j)   == Move(j, "processing", "failed")

Succeed(j) == /\ status[j] = "processing"
              /\ status' = [status EXCEPT ![j] = "completed"]
              /\ playable' = playable \cup {j}

Next == \E j \in Jobs : Submit(j) \/ Begin(j) \/ Fail(j) \/ Succeed(j)

Spec == Init /\ [][Next]_vars
=============================================================================
