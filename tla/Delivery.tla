------------------------------ MODULE Delivery ------------------------------
(***************************************************************************)
(* What reaches the user's sockets: the requests of TelegramLink and a     *)
(* sweep whose signal fires push to the sockets of ConnectionManager       *)
(* before their sessions commit.  Nobody but the webhook's route           *)
(* (api/v1/telegram.py) and the scheduler catches what a push raises.  The *)
(* alert row and its message are Sweep's.                                  *)
(***************************************************************************)
EXTENDS TelegramLink, ConnectionManager

CONSTANT Sweep      \* the sweep whose signal fires

ASSUME DeliveryAssumption == Pushers = Requests \union {Sweep} /\ Sweep \notin Requests

VARIABLE sweepPc    \* where the sweep is, from its signal on

deliveryvars == <<linkvars, connvars, sweepPc>>

\* The row, the requests, the sockets and the pushes stay in their types.
DeliveryTypeOK == /\ LinkTypeOK /\ ConnTypeOK
                  /\ sweepPc \in {"push", "pushing", "commit"} \union Ended

DeliveryInit == LinkInit /\ ConnInit /\ sweepPc = "push"

PcOf(p)   == IF p = Sweep THEN sweepPc ELSE req[p].pc
KindOf(p) == IF p = Sweep THEN "alert" ELSE req[p].kind

\* The pusher p goes on to pc.
GoesTo(p, pc) ==
  IF p = Sweep THEN sweepPc' = pc /\ UNCHANGED req
               ELSE req' = [req EXCEPT ![p].pc = pc] /\ UNCHANGED sweepPc

-----------------------------------------------------------------------------
SweepEnds(from, pc) ==
  /\ sweepPc \in from
  /\ sweepPc' = pc
  /\ UNCHANGED <<linkvars, connvars>>

\* json.dumps refuses the datetime in the payload of an ALERT.
Dumps(kind) == kind # "alert"

Pushes(p) ==
  /\ PcOf(p) = "push"
  /\ StartPush(p, Dumps(KindOf(p)))
  /\ GoesTo(p, "pushing")
  /\ UNCHANGED <<user, minted, expired, holder, mixed>>

\* Slip: the route lets the exception through.
OnlySchedulerCatches(kind) == kind = "alert"

Catches(kind) == kind \in {"alert", "webhook"}

\* push_to_user has ended or raised.
Pushed(p) ==
  /\ PcOf(p) = "pushing"
  /\ \/ /\ \/ push[p].pc = "ended"
           \/ push[p].pc = "raised" /\ Catches(KindOf(p))
        /\ GoesTo(p, "commit")
        /\ UNCHANGED <<user, minted, expired, holder, mixed>>
     \/ /\ push[p].pc = "raised" /\ ~Catches(KindOf(p))
        /\ Rollback(p, "failed")
        /\ UNCHANGED sweepPc
  /\ UNCHANGED connvars

Step(p) ==
  \/ Pushes(p) \/ Pushed(p)
  \/ PcOf(p) = "pushing" /\ PushStep(p) /\ UNCHANGED <<linkvars, sweepPc>>
  \/ /\ p \in Requests
     /\ (Flush(p) \/ Commit(p))
     /\ UNCHANGED <<connvars, sweepPc>>
  \/ p = Sweep /\ SweepEnds({"commit"}, "done")

Arrives(r) ==
  /\ \/ \E t \in Tokens : Generate(r, t)
     \/ \E t \in Tokens, c \in Chats : Webhook(r, c, t)
     \/ Unlink(r)
  /\ UNCHANGED <<connvars, sweepPc>>

DeliveryNext ==
  \/ \E p \in Pushers : Step(p)
  \/ SweepEnds({"push", "pushing", "commit"}, "broken")
  \/ \E r \in Requests : Arrives(r) \/ (Breaks(r) /\ UNCHANGED <<connvars, sweepPc>>)
  \/ \E t \in Tokens : Expire(t) /\ UNCHANGED <<connvars, sweepPc>>
  \/ SocketStep /\ UNCHANGED <<linkvars, sweepPc>>

DeliverySpec == DeliveryInit /\ [][DeliveryNext]_deliveryvars

-----------------------------------------------------------------------------
\* Telling the sockets undoes nothing: a request or sweep that has sent its
\* message and then fails was failed by the database or a crash, never by its
\* push, whose payload for an ALERT raises whenever the user is connected
\* (scheduler_service.py:395-403) and whose loop raises when sockets come and
\* go.  Only a disconnect, which nobody shields (api/v1/telegram.py:28-30), is
\* undone by such a loop; a user with one steady set of sockets is unlinked.
FailsForAReason ==
  /\ sweepPc # "failed"
  /\ \A r \in Requests :
       req[r].pc = "failed" => \/ req[r].kind = "connect"
                               \/ req[r].kind = "disconnect" /\ push[r].churn # "none"
=============================================================================
