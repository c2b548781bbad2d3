--------------------------- MODULE ProducerPromise ----------------------------
(***************************************************************************)
(* What CueProxy promises to producers, whatever happens between a request *)
(* and its answer: batches, retries, timeouts and late answers are not     *)
(* visible here. ProducerPath implements this specification.               *)
(*                                                                         *)
(* The leader judges requests, some of them more than once since they may  *)
(* be delivered twice. A request is answered once. Success and refusal are *)
(* the leader's words; a request that was turned away is never judged, so  *)
(* it can be submitted again; of any other answer nothing follows.         *)
(***************************************************************************)

CONSTANT Requests

VARIABLES
    status,          \* of each request: open while it waits for its answer
    accepted,        \* requests the leader has said yes to
    refused          \* requests the leader has said no to

vars == <<status, accepted, refused>>

Answers == {"success", "refused", "turnedAway", "unknown"}

Init ==
    /\ status = [r \in Requests |-> "idle"]
    /\ accepted = {}
    /\ refused = {}

Submit(r) ==
    /\ status[r] = "idle"
    /\ status' = [status EXCEPT ![r] = "open"]
    /\ UNCHANGED <<accepted, refused>>

\* One message of the leader may be about several requests.
Judge ==
    /\ UNCHANGED status
    /\ accepted \subseteq accepted'
    /\ refused \subseteq refused'
    /\ \A r \in (accepted' \ accepted) \union (refused' \ refused) :
          r \in Requests /\ status[r] \notin {"idle", "turnedAway"}

MayBeTold(r, answer) ==
    /\ answer = "success" => r \in accepted
    /\ answer = "refused" => r \in refused
    /\ answer = "turnedAway" => r \notin accepted \union refused

Answer(r, answer) ==
    /\ status[r] \in {"idle", "open"}
    /\ MayBeTold(r, answer)
    /\ status' = [status EXCEPT ![r] = answer]
    /\ UNCHANGED <<accepted, refused>>

Next ==
    \/ Judge
    \/ \E r \in Requests : Submit(r) \/ \E answer \in Answers : Answer(r, answer)

Spec == Init /\ [][Next]_vars

=============================================================================
