------------------------- MODULE ConnectionManager -------------------------
(***************************************************************************)
(* The open WebSockets of one user (app/websocket): the endpoint adds and  *)
(* removes them, and a push iterates over the live set with an await at    *)
(* every send, during which sockets may come and go.  CPython checks only  *)
(* the size of a set under iteration: with another size the iteration      *)
(* raises, and if the size is the same again it goes on over the changed   *)
(* table, where it may skip or repeat any socket.                          *)
(***************************************************************************)
EXTENDS Naturals, FiniteSets

CONSTANTS Sockets,    \* WebSockets that may be opened, each once
          Pushers     \* those who push to the user

VARIABLES socket,     \* each socket: "new", "open", "broken" or "closed"
          conns,      \* _connections[user_id]
          push        \* each pusher's call of push_to_user

connvars == <<socket, conns, push>>

(***************************************************************************)
(* A call of push_to_user: `left' are the sockets its iteration has still  *)
(* to visit, `size' what the iteration checks, `stale' those whose send    *)
(* failed, `got' those that took the message.  `churn' is whether another  *)
(* party changed the set meanwhile: "gone" if it was empty in between, for *)
(* the call then iterates over a set no longer in the dictionary.          *)
(***************************************************************************)
NoPush == [pc |-> "none", left |-> {}, size |-> 0, stale |-> {}, got |-> {},
           churn |-> "none"]

PushPc == {"none", "sending", "ended", "raised"}

ConnTypeOK ==
  /\ socket \in [Sockets -> {"new", "open", "broken", "closed"}]
  /\ conns \subseteq Sockets
  /\ push \in [Pushers -> [pc : PushPc, left : SUBSET Sockets, size : Nat,
                           stale : SUBSET Sockets, got : SUBSET Sockets,
                           churn : {"none", "changed", "gone"}]]

ConnInit == /\ socket = [s \in Sockets |-> "new"]
            /\ conns = {}
            /\ push = [p \in Pushers |-> NoPush]

\* The calls in P, told that the set of sockets becomes `new'.
Churned(P, new) ==
  [p \in Pushers |->
     IF p \notin P \/ push[p].pc # "sending" \/ new = conns THEN push[p]
     ELSE [push[p] EXCEPT !.churn = IF new = {} \/ @ = "gone" THEN "gone" ELSE "changed"]]

Connect(s) ==
  /\ socket[s] = "new"
  /\ socket' = [socket EXCEPT ![s] = "open"]
  /\ conns' = conns \union {s}
  /\ push' = Churned(Pushers, conns')

\* The client closes the socket and the endpoint takes it out.
Disconnect(s) ==
  /\ socket[s] \in {"open", "broken"}
  /\ socket' = [socket EXCEPT ![s] = "closed"]
  /\ conns' = conns \ {s}
  /\ push' = Churned(Pushers, conns')

\* The connection breaks, or the endpoint dies of anything but a
\* WebSocketDisconnect: the socket stays in the set and takes no message.
Break(s) ==
  /\ socket[s] = "open"
  /\ socket' = [socket EXCEPT ![s] = "broken"]
  /\ UNCHANGED <<conns, push>>

\* push_to_user as far as its first await.  A payload that json.dumps refuses
\* raises, but only when there is someone to send it to.
StartPush(p, dumps) ==
  /\ push' = [push EXCEPT ![p] =
       IF conns = {} THEN [NoPush EXCEPT !.pc = "ended"]
       ELSE IF ~dumps THEN [NoPush EXCEPT !.pc = "raised"]
       ELSE [NoPush EXCEPT !.pc = "sending", !.left = conns, !.size = Cardinality(conns)]]
  /\ UNCHANGED <<socket, conns>>

\* The call is over; of what it did, only `churn' is kept.
Over(f, p, pc) == [f EXCEPT ![p] = [NoPush EXCEPT !.pc = pc, !.churn = f[p].churn]]

SizeChanged(p) == push[p].churn = "gone" \/ Cardinality(conns) # push[p].size

PushRaises(p) ==
  /\ push[p].pc = "sending" /\ SizeChanged(p)
  /\ push' = Over(push, p, "raised")
  /\ UNCHANGED <<socket, conns>>

\* Slip: the first failed send ends the loop.
AfterFailedSendBreak(p, s, left) ==
  [push EXCEPT ![p].stale = @ \union {s}, ![p].left = {}]

AfterFailedSend(p, s, left) ==
  [push EXCEPT ![p].stale = @ \union {s}, ![p].left = left \ {s}]

\* What is left to visit: after a change that the iteration does not notice,
\* any of the sockets there are.
MayBeLeft(p) ==
  IF push[p].churn = "none" THEN {push[p].left} ELSE SUBSET conns

\* One more send.
Send(p, s) ==
  /\ push[p].pc = "sending" /\ ~SizeChanged(p)
  /\ \E left \in MayBeLeft(p) :
       /\ s \in left
       /\ push' = IF socket[s] = "open"
                  THEN [push EXCEPT ![p].got = @ \union {s}, ![p].left = left \ {s}]
                  ELSE AfterFailedSend(p, s, left)
  /\ UNCHANGED <<socket, conns>>

Pruned(p) == conns \ push[p].stale

\* The loop is over and the stale sockets are taken out.
EndPush(p) ==
  /\ push[p].pc = "sending" /\ ~SizeChanged(p)
  /\ {} \in MayBeLeft(p)
  /\ conns' = Pruned(p)
  /\ push' = Over(Churned(Pushers \ {p}, conns'), p, "ended")
  /\ UNCHANGED socket

PushStep(p) == PushRaises(p) \/ EndPush(p) \/ \E s \in Sockets : Send(p, s)

SocketStep == \E s \in Sockets : Connect(s) \/ Disconnect(s) \/ Break(s)

-----------------------------------------------------------------------------
\* A dead socket costs the others nothing: a push during which nobody else
\* changed the set does not raise in its loop, reaches every socket that is
\* still open, and leaves none of those that failed (connection_manager.py:33-43).
DeadSocketsCostNothing ==
  [][\A p \in Pushers :
       push[p].pc = "sending" /\ push[p].churn = "none" /\ push'[p].pc # "sending" =>
         /\ push'[p].pc = "ended"
         /\ \A s \in conns : socket[s] = "open" => s \in push[p].got
         /\ conns' \intersect push[p].stale = {}]_connvars
=============================================================================
