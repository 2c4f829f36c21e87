---------------------------- MODULE MCMutexLive ----------------------------
(***************************************************************************)
(* The mutex with clients that make at most MaxRequests requests between   *)
(* them: spinning on the queue word is only lock-free, so progress of one  *)
(* process is promised against finitely many interfering requests.         *)
(***************************************************************************)
EXTENDS Mutex

CONSTANT MaxRequests

VARIABLE requests   \* how many requests have been made

lvars == <<vars, requests>>

LiveInit == Init /\ requests = 0

Request(p) ==
    /\ requests < MaxRequests
    /\ Lock(p) \/ PollFirst(p)
    /\ requests' = requests + 1

(* Steps a running thread or executor takes by itself: a parked thread and  *)
(* a pending task move when woken, every other step when scheduled.         *)
Progress(p) ==
    /\ \/ awake[p] /\ (ParkReturn(p) \/ Poll(p))
       \/ Acquiring(p) \/ Waiting(p) \/ Leaving(p) \/ Releasing(p)
    /\ UNCHANGED requests

(* Spurious returns of park, unsolicited polls, and dropped requests. *)
Whim(p) ==
    /\ ParkReturn(p) \/ Poll(p) \/ DropRequest(p)
    /\ UNCHANGED requests

LiveNext == \E p \in Procs : Request(p) \/ Progress(p) \/ Whim(p)

LiveSpec ==
    /\ LiveInit /\ [][LiveNext]_lvars
    /\ \A p \in Procs : WF_lvars(Progress(p))

(* Every lock call returns, every dropped request finishes its drop and     *)
(* every guard drop completes, without help from spurious wake-ups.         *)
EveryRequestFinishes == \A p \in Procs : pc[p] # "idle" ~> pc[p] = "idle"
=============================================================================
