------------------------------ MODULE Notices ------------------------------
(***************************************************************************)
(* What the backend promises about the notification of a payout, without   *)
(* calls, queues, locks or worker processes: only a payout that was made   *)
(* gets a notice; the notice is tried a bounded number of times, and sent  *)
(* at most once a try; it is settled only after it was sent, and then not  *)
(* tried again, though a try that is still on may yet send it once more.   *)
(***************************************************************************)
EXTENDS Naturals

CONSTANTS Ids, MaxTries

VARIABLES
  stage, \* how far the notice of each payout has come
  tries, \* how often it was tried
  sent   \* how often it was sent

noticeVars == <<stage, tries, sent>>

Init ==
  /\ stage = [i \in Ids |-> "none"]
  /\ tries = [i \in Ids |-> 0]
  /\ sent = [i \in Ids |-> 0]

Moves(i, from, to) ==
  /\ stage[i] = from
  /\ stage' = [stage EXCEPT ![i] = to]
  /\ UNCHANGED <<tries, sent>>

Make(i)  == Moves(i, "none", "made")
Queue(i) == Moves(i, "made", "queued")

Try(i) ==
  /\ stage[i] = "queued"
  /\ tries[i] < MaxTries
  /\ tries' = [tries EXCEPT ![i] = @ + 1]
  /\ UNCHANGED <<stage, sent>>

Send(i) ==
  /\ sent[i] < tries[i]
  /\ sent' = [sent EXCEPT ![i] = @ + 1]
  /\ UNCHANGED <<stage, tries>>

Settle(i) == sent[i] > 0 /\ Moves(i, "queued", "done")

Next == \E i \in Ids : Make(i) \/ Queue(i) \/ Try(i) \/ Send(i) \/ Settle(i)

Spec == Init /\ [][Next]_noticeVars
=============================================================================
