--------------------------- MODULE DeliveryProofs ---------------------------
(***************************************************************************)
(* Proofs about Delivery, TelegramLink and ConnectionManager, for any      *)
(* requests, chats, tokens and sockets.                                    *)
(***************************************************************************)
EXTENDS Delivery, FiniteSetTheorems, TLAPS

\* A request writes some columns of some row.
Cols == {Restrict(row, K) : row \in RowType, K \in SUBSET Column}

Request == [pc : ReqPc, kind : {"none", "connect", "webhook", "disconnect"},
            cols : Cols, alone : BOOLEAN]

\* Column k of the row, once request r commits.
After(r, k) == IF k \in DOMAIN req[r].cols THEN req[r].cols[k] ELSE user[k]

\* A request no other crossed commits the row it meant to.
LinkInv ==
  /\ LinkTypeOK
  /\ req \in [Requests -> Request]
  /\ \A r \in Requests : req[r].pc # "new" => req[r].kind # "none"
  /\ \A r \in Requests : InFlight(r) /\ req[r].alone =>
       /\ \A q \in Requests \ {r} : ~InFlight(q)
       /\ After(r, "chat") = Nothing \/ After(r, "token") = Nothing
  /\ LinkedHasNoToken

\* A push nobody disturbs visits every socket once; what it cannot reach is dead,
\* and no request's push raises undisturbed.
PushInv ==
  /\ ConnTypeOK
  /\ IsFiniteSet(conns)
  /\ \A s \in conns : socket[s] # "new"
  /\ \A p \in Pushers : push[p].pc = "sending" =>
       /\ \A s \in push[p].stale : socket[s] \in {"broken", "closed"}
       /\ push[p].churn = "none" =>
            /\ push[p].left \subseteq conns
            /\ conns \subseteq push[p].left \union push[p].got \union push[p].stale
            /\ push[p].size = Cardinality(conns)
  /\ \A r \in Requests : push[r].pc = "raised" => push[r].churn # "none"

\* A push belongs to a request or sweep that has come to it.
PlaceInv ==
  /\ \A p \in Pushers : PcOf(p) \in {"new", "flush", "push"} => push[p].pc = "none"
  /\ sweepPc \in {"push", "pushing", "commit"} \union Ended

DeliveryInv == LinkInv /\ PushInv /\ PlaceInv /\ FailsForAReason

-----------------------------------------------------------------------------
(***************************************************************************)
(* The pushes.                                                             *)
(***************************************************************************)
PushRecord == [pc : PushPc, left : SUBSET Sockets, size : Nat,
               stale : SUBSET Sockets, got : SUBSET Sockets,
               churn : {"none", "changed", "gone"}]

\* A call told of a changed set differs in its churn only
\* (connection_manager.py:19-31).
LEMMA ChurnedCalls ==
  ASSUME PushInv, NEW P, NEW new, NEW f, f = Churned(P, new)
  PROVE  /\ f \in [Pushers -> PushRecord]
         /\ \A p \in Pushers :
              /\ f[p].pc = push[p].pc /\ f[p].left = push[p].left /\ f[p].got = push[p].got
              /\ f[p].stale = push[p].stale /\ f[p].size = push[p].size
              /\ p \in P /\ push[p].pc = "sending" /\ new # conns => f[p].churn # "none"
              /\ f[p].churn = "none" => push[p].churn = "none"
              /\ f[p].churn = push[p].churn \/ push[p].pc = "sending"
  <1>1. push \in [Pushers -> PushRecord]  BY DEF PushInv, ConnTypeOK, PushRecord
  <1>2. ASSUME NEW x \in PushRecord
        PROVE  LET y == [x EXCEPT !.churn = IF new = {} \/ @ = "gone" THEN "gone" ELSE "changed"]
               IN  /\ y \in PushRecord
                   /\ y.pc = x.pc /\ y.left = x.left /\ y.got = x.got /\ y.stale = x.stale
                   /\ y.size = x.size /\ y.churn # "none"
    BY DEF PushRecord
  <1> QED BY <1>1, <1>2 DEF Churned

\* A call that is over has let go of everything but its churn.
LEMMA CallOver ==
  ASSUME NEW f \in [Pushers -> PushRecord], NEW p \in Pushers, NEW pc \in PushPc
  PROVE  /\ Over(f, p, pc) \in [Pushers -> PushRecord]
         /\ Over(f, p, pc)[p].pc = pc /\ Over(f, p, pc)[p].churn = f[p].churn
         /\ \A r \in Pushers \ {p} : Over(f, p, pc)[r] = f[r]
  <1>1. [NoPush EXCEPT !.pc = pc, !.churn = f[p].churn] \in PushRecord
    BY DEF NoPush, PushRecord
  <1>2. /\ [NoPush EXCEPT !.pc = pc, !.churn = f[p].churn].pc = pc
        /\ [NoPush EXCEPT !.pc = pc, !.churn = f[p].churn].churn = f[p].churn
    BY DEF NoPush
  <1> QED BY <1>1, <1>2 DEF Over

\* Sockets that come, go or break disturb a push or leave it sound
\* (ws_router.py:9-20, connection_manager.py:19-31).
LEMMA SocketsKeep ==
  ASSUME PushInv, SocketStep
  PROVE  /\ PushInv'
         /\ \A p \in Pushers : /\ push'[p].pc = push[p].pc
                               /\ push'[p].churn = "none" => push[p].churn = "none"
  <1>1. PICK s \in Sockets : Connect(s) \/ Disconnect(s) \/ Break(s)  BY DEF SocketStep
  <1>2. push \in [Pushers -> PushRecord] /\ IsFiniteSet(conns) /\ ConnTypeOK
    BY DEF PushInv, ConnTypeOK, PushRecord
  <1>3. socket' \in [Sockets -> {"new", "open", "broken", "closed"}] /\ conns' \subseteq Sockets
    BY <1>1, <1>2 DEF ConnTypeOK, Connect, Disconnect, Break
  <1>4. IsFiniteSet(conns')
    <2>1. IsFiniteSet(conns \union {s}) /\ IsFiniteSet(conns \ {s})
      BY <1>2, FS_AddElement, FS_RemoveElement
    <2> QED BY <1>1, <1>2, <2>1 DEF Connect, Disconnect, Break
  <1>5. \A x \in conns' : socket'[x] # "new"
    BY <1>1, <1>2 DEF PushInv, ConnTypeOK, Connect, Disconnect, Break
  <1>6. (push' = push /\ conns' = conns) \/ push' = Churned(Pushers, conns')
    BY <1>1 DEF Connect, Disconnect, Break
  <1>7. \A x \in Sockets : socket[x] \in {"broken", "closed"} => socket'[x] \in {"broken", "closed"}
    BY <1>1, <1>2 DEF ConnTypeOK, Connect, Disconnect, Break
  <1>8. /\ push' \in [Pushers -> PushRecord]
        /\ \A p \in Pushers :
             /\ push'[p].pc = push[p].pc /\ push'[p].left = push[p].left
             /\ push'[p].got = push[p].got /\ push'[p].stale = push[p].stale
             /\ push'[p].size = push[p].size
             /\ push[p].pc = "sending" /\ push'[p].churn = "none" =>
                  conns' = conns /\ push[p].churn = "none"
             /\ push'[p].churn = push[p].churn \/ push[p].pc = "sending"
             /\ push'[p].churn = "none" => push[p].churn = "none"
    <2>1. CASE push' = push /\ conns' = conns  BY <1>2, <2>1
    <2>2. CASE push' = Churned(Pushers, conns')
      BY <2>2, ChurnedCalls
    <2> QED BY <1>6, <2>1, <2>2
  <1>9. ConnTypeOK'  BY <1>3, <1>8 DEF ConnTypeOK, PushRecord
  <1>10. ASSUME NEW p \in Pushers, push'[p].pc = "sending"
         PROVE  /\ \A x \in push'[p].stale : socket'[x] \in {"broken", "closed"}
                /\ push'[p].churn = "none" =>
                     /\ push'[p].left \subseteq conns'
                     /\ conns' \subseteq push'[p].left \union push'[p].got \union push'[p].stale
                     /\ push'[p].size = Cardinality(conns')
    <2>1. push[p].pc = "sending" /\ push[p].stale \subseteq Sockets
      BY <1>2, <1>8, <1>10 DEF PushRecord
    <2>2. \A x \in push[p].stale : socket[x] \in {"broken", "closed"}  BY <2>1 DEF PushInv
    <2>3. push'[p].churn = "none" => conns' = conns /\ push[p].churn = "none"  BY <1>8, <2>1
    <2> QED BY <1>7, <1>8, <2>1, <2>2, <2>3 DEF PushInv
  <1>11. ASSUME NEW r \in Requests, push'[r].pc = "raised" PROVE push'[r].churn # "none"
    <2>1. r \in Pushers  BY DeliveryAssumption
    <2> QED BY <1>8, <1>11, <2>1 DEF PushInv
  <1> QED BY <1>4, <1>5, <1>8, <1>9, <1>10, <1>11 DEF PushInv

\* A call begins on the sockets there are, or is over at once; it raises at once
\* for an alert only (connection_manager.py:27-30, scheduler_service.py:395-403).
LEMMA StartKeeps ==
  ASSUME PushInv, NEW p \in Pushers, NEW dumps \in BOOLEAN, StartPush(p, dumps),
         dumps \/ p \notin Requests
  PROVE  PushInv' /\ \A r \in Pushers \ {p} : push'[r] = push[r]
  <1> DEFINE call == IF conns = {} THEN [NoPush EXCEPT !.pc = "ended"]
                     ELSE IF ~dumps THEN [NoPush EXCEPT !.pc = "raised"]
                     ELSE [NoPush EXCEPT !.pc = "sending", !.left = conns,
                                         !.size = Cardinality(conns)]
  <1>1. /\ push \in [Pushers -> PushRecord] /\ IsFiniteSet(conns) /\ conns \subseteq Sockets
        /\ Cardinality(conns) \in Nat
    BY FS_CardinalityType DEF PushInv, ConnTypeOK, PushRecord
  <1>2. push' = [push EXCEPT ![p] = call] /\ UNCHANGED <<socket, conns>>  BY DEF StartPush
  <1>3. call \in PushRecord  BY <1>1 DEF NoPush, PushRecord, PushPc
  <1>4. /\ call.pc = "sending" => call.stale = {} /\ call.left = conns
                                  /\ call.size = Cardinality(conns)
        /\ p \in Requests => call.pc # "raised"
    BY DEF NoPush
  <1> HIDE DEF call
  <1>5. push' \in [Pushers -> PushRecord] /\ push'[p] = call
        /\ \A r \in Pushers \ {p} : push'[r] = push[r]
    BY <1>1, <1>2, <1>3
  <1>6. ConnTypeOK'  BY <1>2, <1>5 DEF PushInv, ConnTypeOK, PushRecord
  <1>7. ASSUME NEW r \in Pushers, push'[r].pc = "sending"
        PROVE  /\ \A x \in push'[r].stale : socket'[x] \in {"broken", "closed"}
               /\ push'[r].churn = "none" =>
                    /\ push'[r].left \subseteq conns'
                    /\ conns' \subseteq push'[r].left \union push'[r].got \union push'[r].stale
                    /\ push'[r].size = Cardinality(conns')
    <2>1. CASE r = p  BY <1>2, <1>4, <1>5, <1>7, <2>1
    <2>2. CASE r # p  BY <1>2, <1>5, <1>7, <2>2 DEF PushInv
    <2> QED BY <2>1, <2>2
  <1>8. ASSUME NEW r \in Requests, push'[r].pc = "raised" PROVE push'[r].churn # "none"
    <2>1. r \in Pushers  BY DeliveryAssumption
    <2> QED BY <1>4, <1>5, <1>8, <2>1 DEF PushInv
  <1> QED BY <1>2, <1>5, <1>6, <1>7, <1>8 DEF PushInv

\* One more turn of a call's loop: it raises only if others changed the set, and it
\* ends having reached every open socket and dropped the ones that failed
\* (connection_manager.py:33-43).
LEMMA PushStepKeeps ==
  ASSUME PushInv, NEW p \in Pushers, PushStep(p)
  PROVE  /\ PushInv'
         /\ push[p].pc = "sending"
         /\ \A r \in Pushers \ {p} : push'[r].pc = push[r].pc
         /\ \A r \in Pushers : push'[r].churn = "none" => push[r].churn = "none"
         /\ push[p].churn = "none" /\ push'[p].pc # "sending" =>
              /\ push'[p].pc = "ended"
              /\ \A s \in conns : socket[s] = "open" => s \in push[p].got
              /\ conns' \intersect push[p].stale = {}
  <1>1. /\ push \in [Pushers -> PushRecord] /\ IsFiniteSet(conns) /\ conns \subseteq Sockets
        /\ socket \in [Sockets -> {"new", "open", "broken", "closed"}]
    BY DEF PushInv, ConnTypeOK, PushRecord
  <1>2. push[p].pc = "sending"  BY DEF PushStep, PushRaises, EndPush, Send
  <1>3. /\ \A s \in push[p].stale : socket[s] \in {"broken", "closed"}
        /\ push[p].churn = "none" =>
             /\ push[p].left \subseteq conns
             /\ conns \subseteq push[p].left \union push[p].got \union push[p].stale
             /\ push[p].size = Cardinality(conns)
    BY <1>2 DEF PushInv
  <1>4. Requests \subseteq Pushers  BY DeliveryAssumption
  <1>a. ASSUME PushRaises(p)
        PROVE  /\ PushInv' /\ push[p].churn # "none"
               /\ \A r \in Pushers \ {p} : push'[r].pc = push[r].pc
               /\ \A r \in Pushers : push'[r].churn = "none" => push[r].churn = "none"
    <2>1. push' = Over(push, p, "raised") /\ UNCHANGED <<socket, conns>>
      BY <1>a DEF PushRaises
    <2>2. /\ push' \in [Pushers -> PushRecord]
          /\ push'[p].pc = "raised" /\ push'[p].churn = push[p].churn
          /\ \A r \in Pushers \ {p} : push'[r] = push[r]
      BY <1>1, <2>1, CallOver DEF PushPc
    <2>3. push[p].churn # "none"  BY <1>a, <1>3 DEF PushRaises, SizeChanged
    <2>4. ConnTypeOK'  BY <1>1, <2>1, <2>2 DEF ConnTypeOK, PushRecord
    <2>5. ASSUME NEW r \in Pushers, push'[r].pc = "sending" PROVE push'[r] = push[r]
      BY <2>2, <2>5
    <2>6. \A r \in Requests : push'[r].pc = "raised" => push'[r].churn # "none"
      BY <1>4, <2>2, <2>3 DEF PushInv
    <2> QED BY <2>1, <2>2, <2>3, <2>4, <2>5, <2>6 DEF PushInv
  <1>b. ASSUME NEW s \in Sockets, Send(p, s)
        PROVE  /\ PushInv' /\ push'[p].pc = "sending"
               /\ \A r \in Pushers \ {p} : push'[r].pc = push[r].pc
               /\ \A r \in Pushers : push'[r].churn = "none" => push[r].churn = "none"
    <2>1. PICK left \in MayBeLeft(p) :
            /\ s \in left
            /\ push' = IF socket[s] = "open"
                       THEN [push EXCEPT ![p].got = @ \union {s}, ![p].left = left \ {s}]
                       ELSE [push EXCEPT ![p].stale = @ \union {s}, ![p].left = left \ {s}]
      BY <1>b DEF Send, AfterFailedSend
    <2>2. UNCHANGED <<socket, conns>>  BY <1>b DEF Send
    <2>3. left \subseteq Sockets /\ s \in conns /\ (push[p].churn = "none" => left = push[p].left)
      <3>1. CASE push[p].churn = "none"  BY <1>1, <1>3, <2>1, <3>1 DEF MayBeLeft
      <3>2. CASE push[p].churn # "none"  BY <1>1, <2>1, <3>2 DEF MayBeLeft
      <3> QED BY <3>1, <3>2
    <2>4. socket[s] # "open" => socket[s] \in {"broken", "closed"}
      BY <1>1, <2>3 DEF PushInv
    <2> DEFINE x == push[p]
               y == push'[p]
    <2>5. /\ push' \in [Pushers -> PushRecord]
          /\ \A r \in Pushers \ {p} : push'[r] = push[r]
      <3>1. \A z \in PushRecord :
              /\ [z EXCEPT !.got = @ \union {s}, !.left = left \ {s}] \in PushRecord
              /\ [z EXCEPT !.stale = @ \union {s}, !.left = left \ {s}] \in PushRecord
        BY <2>3 DEF PushRecord
      <3>2. CASE socket[s] = "open"  BY <1>1, <2>1, <3>1, <3>2
      <3>3. CASE socket[s] # "open"  BY <1>1, <2>1, <3>1, <3>3
      <3> QED BY <3>2, <3>3
    <2>6. /\ y.pc = x.pc /\ y.churn = x.churn /\ y.size = x.size /\ y.left = left \ {s}
          /\ IF socket[s] = "open" THEN y.got = x.got \union {s} /\ y.stale = x.stale
                                   ELSE y.got = x.got /\ y.stale = x.stale \union {s}
      BY <1>1, <2>1 DEF PushRecord
    <2>7. ConnTypeOK'  BY <1>1, <2>2, <2>5 DEF ConnTypeOK, PushRecord
    <2>8. ASSUME NEW r \in Pushers, push'[r].pc = "sending"
          PROVE  /\ \A z \in push'[r].stale : socket'[z] \in {"broken", "closed"}
                 /\ push'[r].churn = "none" =>
                      /\ push'[r].left \subseteq conns'
                      /\ conns' \subseteq push'[r].left \union push'[r].got \union push'[r].stale
                      /\ push'[r].size = Cardinality(conns')
      <3>1. CASE r # p  BY <2>2, <2>5, <2>8, <3>1 DEF PushInv
      <3>2. CASE r = p
        <4>1. \A z \in y.stale : socket[z] \in {"broken", "closed"}  BY <1>3, <2>4, <2>6
        <4>2. y.churn = "none" =>
                /\ y.left \subseteq conns
                /\ conns \subseteq y.left \union y.got \union y.stale
                /\ y.size = Cardinality(conns)
          BY <1>3, <2>3, <2>6
        <4> HIDE DEF y
        <4>3. y = push'[r]  BY <3>2 DEF y
        <4> QED BY <2>2, <4>1, <4>2, <4>3
      <3> QED BY <3>1, <3>2
    <2>9. \A r \in Requests : push'[r].pc = "raised" => push'[r].churn # "none"
      BY <1>2, <1>4, <2>5, <2>6 DEF PushInv
    <2> QED BY <1>2, <2>2, <2>5, <2>6, <2>7, <2>8, <2>9 DEF PushInv
  <1>c. ASSUME EndPush(p)
        PROVE  /\ PushInv' /\ push'[p].pc = "ended"
               /\ \A r \in Pushers \ {p} : push'[r].pc = push[r].pc
               /\ \A r \in Pushers : push'[r].churn = "none" => push[r].churn = "none"
               /\ conns' \intersect push[p].stale = {}
               /\ push[p].churn = "none" =>
                    \A s \in conns : socket[s] = "open" => s \in push[p].got
    <2> DEFINE f == Churned(Pushers \ {p}, conns')
    <2>1. conns' = conns \ push[p].stale /\ push' = Over(f, p, "ended") /\ socket' = socket
      BY <1>c DEF EndPush, Pruned
    <2>2. /\ f \in [Pushers -> PushRecord]
          /\ \A r \in Pushers :
               /\ f[r].pc = push[r].pc /\ f[r].left = push[r].left /\ f[r].got = push[r].got
               /\ f[r].stale = push[r].stale /\ f[r].size = push[r].size
               /\ r # p /\ push[r].pc = "sending" /\ conns' # conns => f[r].churn # "none"
               /\ f[r].churn = "none" => push[r].churn = "none"
               /\ f[r].churn = push[r].churn \/ push[r].pc = "sending"
      BY ChurnedCalls
    <2> HIDE DEF f
    <2>3. /\ push' \in [Pushers -> PushRecord]
          /\ push'[p].pc = "ended" /\ push'[p].churn = f[p].churn
          /\ \A r \in Pushers \ {p} : push'[r] = f[r]
      BY <2>1, <2>2, CallOver DEF PushPc
    <2>4. IsFiniteSet(conns')  BY <1>1, <2>1, FS_Difference
    <2>5. ConnTypeOK'  BY <1>1, <2>1, <2>3 DEF ConnTypeOK, PushRecord
    <2>6. ASSUME NEW r \in Pushers, push'[r].pc = "sending"
          PROVE  /\ \A z \in push'[r].stale : socket'[z] \in {"broken", "closed"}
                 /\ push'[r].churn = "none" =>
                      /\ push'[r].left \subseteq conns'
                      /\ conns' \subseteq push'[r].left \union push'[r].got \union push'[r].stale
                      /\ push'[r].size = Cardinality(conns')
      <3>1. r # p /\ push'[r] = f[r] /\ push[r].pc = "sending"  BY <2>2, <2>3, <2>6
      <3>2. push'[r].churn = "none" => conns' = conns /\ push[r].churn = "none"
        BY <2>2, <3>1
      <3>3. \A z \in push[r].stale : socket[z] \in {"broken", "closed"}  BY <3>1 DEF PushInv
      <3>4. push[r].churn = "none" =>
              /\ push[r].left \subseteq conns
              /\ conns \subseteq push[r].left \union push[r].got \union push[r].stale
              /\ push[r].size = Cardinality(conns)
        BY <3>1 DEF PushInv
      <3>5. /\ push'[r].left = push[r].left /\ push'[r].got = push[r].got
            /\ push'[r].stale = push[r].stale /\ push'[r].size = push[r].size
        BY <2>2, <3>1
      <3> QED BY <2>1, <3>2, <3>3, <3>4, <3>5
    <2>7. ASSUME NEW r \in Requests, push'[r].pc = "raised" PROVE push'[r].churn # "none"
      <3>1. r # p /\ push'[r] = f[r]  BY <1>4, <2>3, <2>7
      <3> QED BY <1>4, <2>2, <2>7, <3>1 DEF PushInv
    <2>8. push[p].churn = "none" => \A s \in conns : socket[s] = "open" => s \in push[p].got
      <3>1. push[p].churn = "none" => push[p].left = {}  BY <1>c DEF EndPush, MayBeLeft
      <3> QED BY <1>3, <3>1
    <2>9. /\ \A r \in Pushers \ {p} : push'[r].pc = push[r].pc
          /\ \A r \in Pushers : push'[r].churn = "none" => push[r].churn = "none"
      BY <2>2, <2>3
    <2> QED BY <2>1, <2>3, <2>4, <2>5, <2>6, <2>7, <2>8, <2>9 DEF PushInv
  <1> QED BY <1>2, <1>a, <1>b, <1>c DEF PushStep

-----------------------------------------------------------------------------
(***************************************************************************)
(* The requests.                                                           *)
(***************************************************************************)
\* What a request writes of a row.
LEMMA RowParts ==
  ASSUME NEW row \in RowType, NEW K \in SUBSET Column
  PROVE  /\ Restrict(row, K) \in Cols
         /\ DOMAIN Restrict(row, K) = K
         /\ \A k \in K : Restrict(row, K)[k] = row[k]
  BY DEF Restrict, Cols

\* The columns of a request are columns.
LEMMA ColsFields ==
  ASSUME NEW cols \in Cols
  PROVE  /\ DOMAIN cols \subseteq Column
         /\ "chat" \in DOMAIN cols => cols["chat"] \in Chats \union {Nothing}
         /\ "token" \in DOMAIN cols => cols["token"] \in Tokens \union {Nothing}
  <1>1. PICK row \in RowType, K \in SUBSET Column : cols = Restrict(row, K)  BY DEF Cols
  <1>2. /\ DOMAIN cols = K
        /\ "chat" \in K => cols["chat"] = row.chat
        /\ "token" \in K => cols["token"] = row.token
    BY <1>1 DEF Restrict
  <1> QED BY <1>2 DEF RowType

\* A request that goes on, or ends, without a commit leaves the row as it means to
\* leave it (telegram_service.py:44-121, database_session.py:25-36).
LEMMA LinkMoves ==
  ASSUME LinkInv, NEW r \in Requests, InFlight(r), NEW pc \in ReqPc \ {"new"},
         req' = [req EXCEPT ![r].pc = pc],
         UNCHANGED <<user, minted, expired, mixed>>,
         \/ holder' = Released(r)
         \/ pc \notin Ended /\ (holder' = holder \/ holder' = r)
  PROVE  /\ LinkInv'
         /\ req'[r].pc = pc /\ req'[r].kind = req[r].kind
         /\ \A q \in Requests \ {r} : req'[q] = req[q]
  <1>1. req \in [Requests -> Request] /\ LinkTypeOK  BY DEF LinkInv
  <1>2. /\ req' \in [Requests -> Request]
        /\ req'[r].pc = pc /\ req'[r].kind = req[r].kind /\ req'[r].cols = req[r].cols
        /\ req'[r].alone = req[r].alone
        /\ \A q \in Requests \ {r} : req'[q] = req[q]
    BY <1>1 DEF Request
  <1>3. \A q \in Requests : InFlight(q)' => InFlight(q)  BY <1>2 DEF InFlight
  <1>4. LinkTypeOK'
    <2>1. holder' \in Requests \union {Nothing}  BY <1>1 DEF LinkTypeOK, Released
    <2>2. \A q \in Requests : holder' = q => InFlight(q)'
      BY <1>1, <1>2, NothingAssumption DEF LinkTypeOK, Released, InFlight
    <2>3. \A q \in Requests : req'[q].pc \in ReqPc
            /\ req'[q].kind \in {"none", "connect", "webhook", "disconnect"}
            /\ DOMAIN req'[q].cols \subseteq Column
      BY <1>2, ColsFields DEF Request
    <2> QED BY <1>1, <2>1, <2>2, <2>3 DEF LinkTypeOK
  <1>5. \A q \in Requests : req'[q].pc # "new" => req'[q].kind # "none"
    BY <1>2 DEF LinkInv, InFlight
  <1>6. ASSUME NEW q \in Requests, InFlight(q)', req'[q].alone
        PROVE  /\ \A o \in Requests \ {q} : ~InFlight(o)'
               /\ After(q, "chat")' = Nothing \/ After(q, "token")' = Nothing
    <2>1. InFlight(q) /\ req[q].alone /\ req'[q].cols = req[q].cols  BY <1>2, <1>3, <1>6
    <2>2. /\ \A o \in Requests \ {q} : ~InFlight(o)
          /\ After(q, "chat") = Nothing \/ After(q, "token") = Nothing
      BY <2>1 DEF LinkInv
    <2> QED BY <1>3, <2>1, <2>2 DEF After
  <1>7. LinkedHasNoToken'  BY DEF LinkInv, LinkedHasNoToken
  <1> QED BY <1>2, <1>4, <1>5, <1>6, <1>7 DEF LinkInv

\* A request that begins knows whether it is alone, and tells those it crosses.
LEMMA LinkStarts ==
  ASSUME LinkInv, NEW r \in Requests, req[r].pc = "new",
         NEW kind \in {"connect", "webhook", "disconnect"}, NEW pc \in {"flush"} \union Ended,
         NEW row \in RowType, row.chat = Nothing \/ row.token = Nothing,
         NEW cols, cols = IF pc = "flush" THEN Changed(row) ELSE <<>>,
         Starts(r, kind, pc, cols), UNCHANGED <<user, expired, holder, mixed>>,
         minted \subseteq minted', minted' \subseteq Tokens
  PROVE  /\ LinkInv'
         /\ req'[r].pc = pc /\ req'[r].kind = kind
         /\ \A q \in Requests \ {r} : req'[q].pc = req[q].pc /\ req'[q].kind = req[q].kind
  <1>1. req \in [Requests -> Request] /\ LinkTypeOK  BY DEF LinkInv
  <1> DEFINE K == IF pc = "flush" THEN {k \in Column : row[k] # user[k]} ELSE {}
  <1>2. cols \in Cols /\ DOMAIN cols = K /\ (\A k \in K : cols[k] = row[k])
    <2>1. CASE pc = "flush"  BY <2>1, RowParts DEF Changed
    <2>2. CASE pc # "flush"
      <3>1. <<>> = Restrict(row, {})  BY DEF Restrict
      <3>2. cols = Restrict(row, {}) /\ K = {}  BY <2>2, <3>1
      <3>3. Restrict(row, {}) \in Cols /\ DOMAIN Restrict(row, {}) = {}  BY RowParts
      <3> HIDE DEF K
      <3> QED BY <3>2, <3>3
    <2> QED BY <2>1, <2>2
  <1>3. \A k \in Column : pc = "flush" => (IF k \in DOMAIN cols THEN cols[k] ELSE user[k]) = row[k]
    BY <1>2
  <1>4. /\ req' \in [Requests -> Request]
        /\ req'[r].pc = pc /\ req'[r].kind = kind /\ req'[r].cols = cols
        /\ req'[r].alone = \A p \in Requests : ~InFlight(p)
        /\ \A q \in Requests \ {r} :
             /\ req'[q].pc = req[q].pc /\ req'[q].kind = req[q].kind /\ req'[q].cols = req[q].cols
             /\ req'[q].alone <=> req[q].alone /\ (InFlight(q) => pc \in Ended)
    <2> DEFINE mine == [pc |-> pc, kind |-> kind, cols |-> cols,
                        alone |-> \A p \in Requests : ~InFlight(p)]
    <2>1. req' = [q \in Requests |->
                    IF q = r THEN mine
                    ELSE [req[q] EXCEPT !.alone = @ /\ (InFlight(q) => pc \in Ended)]]
      BY DEF Starts
    <2>2. pc \in ReqPc  BY DEF ReqPc
    <2>3. mine \in Request  BY <1>2, <2>2 DEF Request
    <2>4. /\ mine.pc = pc /\ mine.kind = kind /\ mine.cols = cols
          /\ mine.alone = \A p \in Requests : ~InFlight(p)
      OBVIOUS
    <2>5. ASSUME NEW x \in Request, NEW q \in Requests
          PROVE  LET y == [x EXCEPT !.alone = @ /\ (InFlight(q) => pc \in Ended)]
                 IN  /\ y \in Request /\ y.pc = x.pc /\ y.kind = x.kind /\ y.cols = x.cols
                     /\ y.alone <=> x.alone /\ (InFlight(q) => pc \in Ended)
      BY DEF Request
    <2> HIDE DEF mine
    <2>6. \A q \in Requests \ {r} :
            /\ req'[q] = [req[q] EXCEPT !.alone = @ /\ (InFlight(q) => pc \in Ended)]
            /\ req[q] \in Request
      BY <1>1, <2>1
    <2>7. \A q \in Requests \ {r} :
            /\ req'[q] \in Request
            /\ req'[q].pc = req[q].pc /\ req'[q].kind = req[q].kind /\ req'[q].cols = req[q].cols
            /\ req'[q].alone <=> req[q].alone /\ (InFlight(q) => pc \in Ended)
      <3> TAKE q \in Requests \ {r}
      <3>1. req[q] \in Request  BY <2>6
      <3> DEFINE y == [req[q] EXCEPT !.alone = @ /\ (InFlight(q) => pc \in Ended)]
      <3>2. /\ y \in Request /\ y.pc = req[q].pc /\ y.kind = req[q].kind /\ y.cols = req[q].cols
            /\ y.alone <=> req[q].alone /\ (InFlight(q) => pc \in Ended)
        BY <2>5, <3>1
      <3>3. req'[q] = y  BY <2>6
      <3> HIDE DEF y
      <3> QED BY <3>2, <3>3
    <2>8. req'[r] = mine  BY <2>1
    <2> QED BY <2>1, <2>3, <2>4, <2>7, <2>8
  <1>5. /\ InFlight(r)' <=> pc = "flush"
        /\ \A q \in Requests \ {r} : InFlight(q)' <=> InFlight(q)
    BY <1>4 DEF InFlight, Ended
  <1>6. LinkTypeOK'
    <2>1. \A q \in Requests : holder' = q => InFlight(q)'
      BY <1>1, <1>5 DEF LinkTypeOK, InFlight, Ended
    <2>2. \A q \in Requests : req'[q].pc \in ReqPc
            /\ req'[q].kind \in {"none", "connect", "webhook", "disconnect"}
            /\ DOMAIN req'[q].cols \subseteq Column
      BY <1>4, ColsFields DEF Request
    <2> QED BY <1>1, <2>1, <2>2 DEF LinkTypeOK
  <1>7. \A q \in Requests : req'[q].pc # "new" => req'[q].kind # "none"
    BY <1>4 DEF LinkInv
  <1>8. ASSUME NEW q \in Requests, InFlight(q)', req'[q].alone
        PROVE  /\ \A o \in Requests \ {q} : ~InFlight(o)'
               /\ After(q, "chat")' = Nothing \/ After(q, "token")' = Nothing
    <2>1. CASE q = r
      <3>1. \A o \in Requests : ~InFlight(o)  BY <1>4, <1>8, <2>1
      <3>2. pc = "flush"  BY <1>5, <1>8, <2>1
      <3>3. After(q, "chat")' = row["chat"] /\ After(q, "token")' = row["token"]
        BY <1>3, <1>4, <2>1, <3>2 DEF After, Column
      <3> QED BY <1>5, <2>1, <3>1, <3>3
    <2>2. CASE q # r
      <3>1. InFlight(q) /\ req[q].alone /\ pc \in Ended  BY <1>4, <1>5, <1>8, <2>2
      <3>2. /\ \A o \in Requests \ {q} : ~InFlight(o)
            /\ After(q, "chat") = Nothing \/ After(q, "token") = Nothing
        BY <3>1 DEF LinkInv
      <3>3. ~InFlight(r)'  BY <1>5, <3>1 DEF Ended
      <3> QED BY <1>4, <1>5, <2>2, <3>2, <3>3 DEF After
    <2> QED BY <2>1, <2>2
  <1>9. LinkedHasNoToken'  BY DEF LinkInv, LinkedHasNoToken
  <1> QED BY <1>4, <1>6, <1>7, <1>8, <1>9 DEF LinkInv

\* A request that commits writes the row it meant to, if it was alone
\* (user_repository.py, telegram_service.py:50-51, 96-97).
LEMMA LinkCommits ==
  ASSUME LinkInv, NEW r \in Requests, Commit(r)
  PROVE  /\ LinkInv'
         /\ req'[r].pc = "done" /\ req'[r].kind = req[r].kind
         /\ \A q \in Requests \ {r} : req'[q] = req[q]
  <1>1. req \in [Requests -> Request] /\ LinkTypeOK  BY DEF LinkInv
  <1>2. /\ req' \in [Requests -> Request]
        /\ req'[r].pc = "done" /\ req'[r].kind = req[r].kind /\ req'[r].cols = req[r].cols
        /\ \A q \in Requests \ {r} : req'[q] = req[q]
    BY <1>1 DEF Commit, Request, ReqPc, Ended
  <1>3. InFlight(r) /\ ~InFlight(r)' /\ \A q \in Requests \ {r} : InFlight(q)' <=> InFlight(q)
    BY <1>2 DEF InFlight, Commit, Ended
  <1>4. user'.chat = After(r, "chat") /\ user'.token = After(r, "token") /\ user' \in RowType
    <2>1. user' = [k \in Column |-> After(r, k)]  BY DEF Commit, After
    <2>2. After(r, "chat") \in Chats \union {Nothing} /\ After(r, "token") \in Tokens \union {Nothing}
      BY <1>1, ColsFields DEF After, Request, LinkTypeOK, RowType
    <2>3. user' = [chat |-> After(r, "chat"), token |-> After(r, "token")]
      BY <2>1 DEF Column
    <2> QED BY <2>2, <2>3 DEF RowType
  <1>5. LinkTypeOK'
    <2>1. holder' \in Requests \union {Nothing}  BY <1>1 DEF LinkTypeOK, Commit, Released
    <2>2. \A q \in Requests : holder' = q => InFlight(q)'
      BY <1>1, <1>3, NothingAssumption DEF LinkTypeOK, Commit, Released
    <2>3. \A q \in Requests : req'[q].pc \in ReqPc
            /\ req'[q].kind \in {"none", "connect", "webhook", "disconnect"}
            /\ DOMAIN req'[q].cols \subseteq Column
      BY <1>2, ColsFields DEF Request
    <2> QED BY <1>1, <1>4, <2>1, <2>2, <2>3 DEF LinkTypeOK, Commit
  <1>6. \A q \in Requests : req'[q].pc # "new" => req'[q].kind # "none"
    BY <1>2, <1>3 DEF LinkInv, InFlight
  <1>7. ASSUME NEW q \in Requests, InFlight(q)', req'[q].alone PROVE FALSE
    BY <1>2, <1>3, <1>7 DEF LinkInv
  <1>8. LinkedHasNoToken'
    <2>1. CASE DOMAIN req[r].cols = {}
      <3>1. user'.chat = user.chat /\ user'.token = user.token  BY <1>4, <2>1 DEF After
      <3> QED BY <2>1, <3>1 DEF Commit, LinkInv, LinkedHasNoToken
    <2>2. CASE DOMAIN req[r].cols # {} /\ req[r].alone
      BY <1>3, <1>4, <2>2 DEF LinkInv, LinkedHasNoToken
    <2>3. CASE DOMAIN req[r].cols # {} /\ ~req[r].alone
      BY <2>3 DEF Commit, LinkedHasNoToken
    <2> QED BY <2>1, <2>2, <2>3
  <1> QED BY <1>2, <1>5, <1>6, <1>7, <1>8 DEF LinkInv

-----------------------------------------------------------------------------
(***************************************************************************)
(* The whole.                                                              *)
(***************************************************************************)
\* Where a pusher is before its push.
Early == {"new", "flush", "push"}

\* A step that leaves the sockets and their calls alone keeps the whole sound if
\* no request or sweep goes back, and none fails but for a reason.
LEMMA NoPushStep ==
  ASSUME DeliveryInv, UNCHANGED connvars, LinkInv',
         \A p \in Pushers : PcOf(p)' \in Early => PcOf(p) \in Early,
         sweepPc' \in {"push", "pushing", "commit", "done", "broken"},
         \A r \in Requests : req'[r].pc = "failed" =>
           \/ req[r].pc = "failed" /\ req'[r].kind = req[r].kind
           \/ req'[r].kind = "connect"
           \/ req'[r].kind = "disconnect" /\ push[r].churn # "none"
  PROVE  DeliveryInv'
  <1>1. push' = push  BY DEF connvars
  <1>2. PushInv'  BY DEF DeliveryInv, PushInv, ConnTypeOK, connvars
  <1>3. PlaceInv'
    <2>1. \A p \in Pushers : PcOf(p)' \in Early => push'[p].pc = "none"
      BY <1>1 DEF DeliveryInv, PlaceInv, Early
    <2>2. sweepPc' \in {"push", "pushing", "commit"} \union Ended  BY DEF Ended
    <2> QED BY <2>1, <2>2 DEF PlaceInv, Early
  <1>4. FailsForAReason'  BY <1>1 DEF DeliveryInv, FailsForAReason
  <1> QED BY <1>2, <1>3, <1>4 DEF DeliveryInv

\* A step of the requests alone, in one line per request.
LEMMA RequestStep ==
  ASSUME DeliveryInv, NEW r \in Requests, UNCHANGED <<connvars, sweepPc>>, LinkInv',
         \A q \in Requests \ {r} : req'[q].pc = req[q].pc /\ req'[q].kind = req[q].kind,
         req'[r].pc \in Early => req[r].pc \in Early,
         req'[r].pc = "failed" => \/ req'[r].kind = "connect"
                                  \/ req'[r].kind = "disconnect" /\ push[r].churn # "none"
  PROVE  DeliveryInv'
  <1>1. \A p \in Pushers : PcOf(p)' \in Early => PcOf(p) \in Early
    <2> TAKE p \in Pushers
    <2>1. CASE p = Sweep  BY <2>1 DEF PcOf
    <2>2. CASE p \in Requests /\ p # Sweep  BY <2>2 DEF PcOf
    <2> QED BY <2>1, <2>2, DeliveryAssumption
  <1>2. sweepPc' \in {"push", "pushing", "commit", "done", "broken"}
    BY DEF DeliveryInv, PlaceInv, FailsForAReason, Ended
  <1>3. \A q \in Requests : req'[q].pc = "failed" =>
           \/ req[q].pc = "failed" /\ req'[q].kind = req[q].kind
           \/ req'[q].kind = "connect"
           \/ req'[q].kind = "disconnect" /\ push[q].churn # "none"
    OBVIOUS
  <1>4. UNCHANGED connvars  OBVIOUS
  <1> QED BY <1>1, <1>2, <1>3, <1>4, NoPushStep

\* The sweep's signal goes its way (scheduler_service.py:395-403).
LEMMA SweepSteps ==
  ASSUME DeliveryInv, UNCHANGED <<linkvars, connvars>>,
         sweepPc' \in {"commit", "done", "broken"}
  PROVE  DeliveryInv'
  <1>1. LinkInv'
    BY DEF DeliveryInv, LinkInv, LinkTypeOK, LinkedHasNoToken, InFlight, After, linkvars
  <1>2. req' = req  BY DEF linkvars
  <1>3. \A p \in Pushers : PcOf(p)' \in Early => PcOf(p) \in Early
    BY <1>2 DEF PcOf, Early
  <1> QED BY <1>1, <1>2, <1>3, NoPushStep

\* A push that begins, for a request or for the sweep's alert.
LEMMA PushesSound ==
  ASSUME DeliveryInv, NEW p \in Pushers, Pushes(p)
  PROVE  DeliveryInv' /\ push[p].pc = "none"
  <1>1. push[p].pc = "none"  BY DEF Pushes, DeliveryInv, PlaceInv
  <1>2. p \in Requests => p # Sweep /\ KindOf(p) # "alert"
    BY DeliveryAssumption DEF DeliveryInv, LinkInv, LinkTypeOK, KindOf
  <1>3. PushInv' /\ \A o \in Pushers \ {p} : push'[o] = push[o]
    <2>1. Dumps(KindOf(p)) \in BOOLEAN /\ (Dumps(KindOf(p)) \/ p \notin Requests)
      BY <1>2 DEF Dumps
    <2>2. StartPush(p, Dumps(KindOf(p)))  BY DEF Pushes
    <2> QED BY <2>1, <2>2, StartKeeps DEF DeliveryInv
  <1>4. CASE p = Sweep
    <2>1. sweepPc' = "pushing" /\ UNCHANGED linkvars
      BY <1>4 DEF Pushes, GoesTo, linkvars
    <2>2. LinkInv'
      BY <2>1 DEF DeliveryInv, LinkInv, LinkTypeOK, LinkedHasNoToken, InFlight, After, linkvars
    <2>3. PlaceInv'
      BY <1>3, <1>4, <2>1, DeliveryAssumption DEF DeliveryInv, PlaceInv, PcOf, linkvars
    <2>4. FailsForAReason'
      BY <1>3, <1>4, <2>1, DeliveryAssumption DEF DeliveryInv, FailsForAReason, linkvars
    <2> QED BY <1>1, <1>3, <2>2, <2>3, <2>4 DEF DeliveryInv
  <1>5. CASE p \in Requests
    <2>1. /\ req[p].pc = "push" /\ req' = [req EXCEPT ![p].pc = "pushing"] /\ sweepPc' = sweepPc
          /\ UNCHANGED <<user, minted, expired, holder, mixed>>
      BY <1>2, <1>5 DEF Pushes, GoesTo, PcOf
    <2>2. InFlight(p)  BY <2>1 DEF InFlight, Ended
    <2>3. "pushing" \in ReqPc \ {"new"} /\ "pushing" \notin Ended  BY DEF ReqPc, Ended
    <2>4. /\ LinkInv' /\ req'[p].pc = "pushing"
          /\ \A q \in Requests \ {p} : req'[q] = req[q]
      BY <1>5, <2>1, <2>2, <2>3, LinkMoves DEF DeliveryInv
    <2>5. PlaceInv'
      <3>1. \A o \in Pushers : PcOf(o)' \in {"new", "flush", "push"} => push'[o].pc = "none"
        BY <1>2, <1>3, <1>5, <2>1, <2>4, DeliveryAssumption DEF DeliveryInv, PlaceInv, PcOf
      <3> QED BY <2>1, <3>1 DEF DeliveryInv, PlaceInv
    <2>6. FailsForAReason'
      BY <1>3, <2>1, <2>4, DeliveryAssumption DEF DeliveryInv, FailsForAReason
    <2> QED BY <1>1, <1>3, <2>4, <2>5, <2>6 DEF DeliveryInv
  <1> QED BY <1>4, <1>5, DeliveryAssumption

\* A push that has ended or raised: only a disconnect is undone by what it raised,
\* and only when sockets came and went (api/v1/telegram.py:28-30).
LEMMA PushedSound ==
  ASSUME DeliveryInv, NEW p \in Pushers, Pushed(p)
  PROVE  DeliveryInv' /\ UNCHANGED connvars
  <1>1. UNCHANGED connvars  BY DEF Pushed
  <1>2. CASE p = Sweep
    <2>1. sweepPc' = "commit" /\ UNCHANGED linkvars
      BY <1>2 DEF Pushed, GoesTo, KindOf, Catches, linkvars
    <2> QED BY <1>1, <2>1, SweepSteps
  <1>3. CASE p \in Requests
    <2>1. /\ p # Sweep /\ req[p].pc = "pushing" /\ InFlight(p)
          /\ KindOf(p) = req[p].kind /\ req[p].kind \in {"connect", "webhook", "disconnect"}
      BY <1>3, DeliveryAssumption
         DEF Pushed, PcOf, KindOf, InFlight, Ended, DeliveryInv, LinkInv, LinkTypeOK
    <2>2. CASE GoesTo(p, "commit") /\ UNCHANGED <<user, minted, expired, holder, mixed>>
      <3>1. req' = [req EXCEPT ![p].pc = "commit"] /\ sweepPc' = sweepPc
        BY <2>1, <2>2 DEF GoesTo
      <3>2. "commit" \in ReqPc \ {"new"} /\ "commit" \notin Ended  BY DEF ReqPc, Ended
      <3>3. LinkInv' /\ req'[p].pc = "commit" /\ \A q \in Requests \ {p} : req'[q] = req[q]
        BY <1>3, <2>1, <2>2, <3>1, <3>2, LinkMoves DEF DeliveryInv
      <3> QED BY <1>1, <1>3, <3>1, <3>3, RequestStep DEF Early
    <2>3. CASE /\ push[p].pc = "raised" /\ ~Catches(KindOf(p))
               /\ Rollback(p, "failed")
               /\ UNCHANGED sweepPc
      <3>1. "failed" \in ReqPc \ {"new"}  BY DEF ReqPc, Ended
      <3>2. /\ LinkInv' /\ req'[p].pc = "failed" /\ req'[p].kind = req[p].kind
            /\ \A q \in Requests \ {p} : req'[q] = req[q]
        BY <1>3, <2>1, <2>3, <3>1, LinkMoves DEF DeliveryInv, Rollback, RolledBack
      <3>3. push[p].churn # "none"  BY <1>3, <2>3 DEF DeliveryInv, PushInv
      <3>4. req[p].kind \in {"connect", "disconnect"}  BY <2>1, <2>3 DEF Catches
      <3> QED BY <1>1, <1>3, <2>3, <3>2, <3>3, <3>4, RequestStep DEF Early
    <2> QED BY <2>2, <2>3 DEF Pushed
  <1> QED BY <1>1, <1>2, <1>3, DeliveryAssumption

\* A turn of a push's loop and a socket that comes or goes.
LEMMA SocketsSound ==
  ASSUME DeliveryInv, UNCHANGED <<linkvars, sweepPc>>,
         SocketStep \/ \E p \in Pushers : PcOf(p) = "pushing" /\ PushStep(p)
  PROVE  DeliveryInv'
  <1>1. PushInv'  BY SocketsKeep, PushStepKeeps DEF DeliveryInv
  <1>2. LinkInv'
    BY DEF DeliveryInv, LinkInv, LinkTypeOK, LinkedHasNoToken, InFlight, After, linkvars
  <1>3. \A p \in Pushers : PcOf(p)' = PcOf(p)  BY DEF PcOf, linkvars
  <1>4. \A r \in Pushers : push'[r].churn = "none" => push[r].churn = "none"
    BY SocketsKeep, PushStepKeeps DEF DeliveryInv
  <1>5. PlaceInv'
    <2>1. ASSUME NEW p \in Pushers, PcOf(p) \in {"new", "flush", "push"}
          PROVE  push'[p].pc = "none"
      <3>1. push[p].pc = "none"  BY <2>1 DEF DeliveryInv, PlaceInv
      <3> QED BY <2>1, <3>1, SocketsKeep, PushStepKeeps DEF DeliveryInv
    <2> QED BY <1>3, <2>1 DEF DeliveryInv, PlaceInv
  <1>6. FailsForAReason'
    BY <1>4, DeliveryAssumption DEF DeliveryInv, FailsForAReason, linkvars
  <1> QED BY <1>1, <1>2, <1>5, <1>6 DEF DeliveryInv

\* A request that comes in.
LEMMA ArrivesSound ==
  ASSUME DeliveryInv, NEW r \in Requests, Arrives(r)
  PROVE  DeliveryInv'
  <1>1. UNCHANGED <<connvars, sweepPc>> /\ LinkInv  BY DEF Arrives, DeliveryInv
  <1>2. Nothing \in Chats \union {Nothing} /\ Nothing \in Tokens \union {Nothing}  OBVIOUS
  <1>3. minted \subseteq Tokens  BY DEF DeliveryInv, LinkInv, LinkTypeOK
  <1> DEFINE Good == /\ LinkInv' /\ (req'[r].pc = "failed" => req'[r].kind = "connect")
                     /\ req[r].pc = "new"
                     /\ \A q \in Requests \ {r} : req'[q].pc = req[q].pc /\ req'[q].kind = req[q].kind
  <1>4. ASSUME NEW t \in Tokens, Generate(r, t) PROVE Good
    <2> DEFINE row == [chat |-> Nothing, token |-> t]
    <2>1. row \in RowType /\ row.chat = Nothing  BY DEF RowType
    <2> HIDE DEF row
    <2>2. CASE user.chat = Nothing
      <3>1. Starts(r, "connect", "flush", Changed(row)) /\ minted' = minted \union {t}
        BY <1>4, <2>2 DEF Generate, row
      <3> QED BY <1>1, <1>3, <1>4, <2>1, <3>1, LinkStarts DEF Generate
    <2>3. CASE user.chat # Nothing
      <3>1. Starts(r, "connect", "failed", <<>>) /\ minted' = minted
        BY <1>4, <2>3 DEF Generate
      <3> QED BY <1>1, <1>3, <1>4, <2>1, <3>1, LinkStarts DEF Generate, Ended
    <2> QED BY <2>2, <2>3
  <1>5. ASSUME NEW t \in Tokens, NEW c \in Chats, Webhook(r, c, t) PROVE Good
    <2>1. LinkedRow(c, t) \in RowType /\ LinkedRow(c, t).token = Nothing
      BY DEF LinkedRow, RowType
    <2>2. CASE user.token = t /\ t \notin expired
      <3>1. Starts(r, "webhook", "flush", Changed(LinkedRow(c, t))) /\ minted' = minted
        BY <1>5, <2>2 DEF Webhook
      <3> QED BY <1>1, <1>3, <1>5, <2>1, <3>1, LinkStarts DEF Webhook
    <2>3. CASE ~(user.token = t /\ t \notin expired)
      <3>1. Starts(r, "webhook", "done", <<>>) /\ minted' = minted
        BY <1>5, <2>3 DEF Webhook
      <3> QED BY <1>1, <1>3, <1>5, <2>1, <3>1, LinkStarts DEF Webhook, Ended
    <2> QED BY <2>2, <2>3
  <1>6. ASSUME Unlink(r) PROVE Good
    <2> DEFINE row == [chat |-> Nothing, token |-> Nothing]
    <2>1. row \in RowType /\ row.chat = Nothing  BY DEF RowType
    <2> HIDE DEF row
    <2>2. Starts(r, "disconnect", "flush", Changed(row)) /\ minted' = minted
      BY <1>6 DEF Unlink, row
    <2> QED BY <1>1, <1>3, <1>6, <2>1, <2>2, LinkStarts DEF Unlink
  <1>7. Good  BY <1>4, <1>5, <1>6 DEF Arrives
  <1> QED BY <1>1, <1>7, RequestStep DEF Early

\* Every step of a pusher.
LEMMA StepSound ==
  ASSUME DeliveryInv, NEW p \in Pushers, Step(p)
  PROVE  DeliveryInv'
  <1>1. CASE Pushes(p)  BY <1>1, PushesSound
  <1>2. CASE Pushed(p)  BY <1>2, PushedSound
  <1>3. CASE PcOf(p) = "pushing" /\ PushStep(p) /\ UNCHANGED <<linkvars, sweepPc>>
    BY <1>3, SocketsSound
  <1>4. CASE p \in Requests /\ Flush(p) /\ UNCHANGED <<connvars, sweepPc>>
    <2> DEFINE pc == IF req[p].kind = "connect" THEN "commit" ELSE "push"
    <2>1. /\ req[p].pc = "flush" /\ req' = [req EXCEPT ![p].pc = pc]
          /\ UNCHANGED <<user, minted, expired, mixed>>
          /\ holder' = holder \/ holder' = p
      BY <1>4 DEF Flush
    <2>2. InFlight(p)  BY <2>1 DEF InFlight, Ended
    <2>3. pc \in ReqPc \ {"new"} /\ pc \notin Ended /\ pc # "failed"  BY DEF ReqPc, Ended
    <2> HIDE DEF pc
    <2>4. LinkInv' /\ req'[p].pc = pc /\ \A q \in Requests \ {p} : req'[q] = req[q]
      BY <1>4, <2>1, <2>2, <2>3, LinkMoves DEF DeliveryInv
    <2> QED BY <1>4, <2>1, <2>3, <2>4, RequestStep DEF Early
  <1>5. CASE p \in Requests /\ Commit(p) /\ UNCHANGED <<connvars, sweepPc>>
    <2>1. LinkInv' /\ req'[p].pc = "done" /\ \A q \in Requests \ {p} : req'[q] = req[q]
      BY <1>5, LinkCommits DEF DeliveryInv
    <2> QED BY <1>5, <2>1, RequestStep DEF Early
  <1>6. CASE SweepEnds({"commit"}, "done")
    BY <1>6, SweepSteps DEF SweepEnds
  <1> QED BY <1>1, <1>2, <1>3, <1>4, <1>5, <1>6 DEF Step

\* No step breaks the whole.
LEMMA DeliveryStep == DeliveryInv /\ [DeliveryNext]_deliveryvars => DeliveryInv'
  <1> SUFFICES ASSUME DeliveryInv, [DeliveryNext]_deliveryvars PROVE DeliveryInv'
    OBVIOUS
  <1>1. CASE \E p \in Pushers : Step(p)  BY <1>1, StepSound
  <1>2. CASE SweepEnds({"push", "pushing", "commit"}, "broken")
    BY <1>2, SweepSteps DEF SweepEnds
  <1>3. CASE \E r \in Requests : Arrives(r)  BY <1>3, ArrivesSound
  <1>4. ASSUME NEW r \in Requests, Breaks(r), UNCHANGED <<connvars, sweepPc>> PROVE DeliveryInv'
    <2>1. "broken" \in ReqPc \ {"new"}  BY DEF ReqPc, Ended
    <2>2. LinkInv' /\ req'[r].pc = "broken" /\ \A q \in Requests \ {r} : req'[q] = req[q]
      BY <1>4, <2>1, LinkMoves DEF DeliveryInv, Breaks, Rollback, RolledBack
    <2> QED BY <1>4, <2>2, RequestStep DEF Early
  <1>5. ASSUME NEW t \in Tokens, Expire(t), UNCHANGED <<connvars, sweepPc>> PROVE DeliveryInv'
    <2>1. UNCHANGED <<user, minted, holder, req, mixed>> /\ expired' \subseteq minted
      BY <1>5 DEF Expire, DeliveryInv, LinkInv, LinkTypeOK
    <2>2. LinkInv'
      BY <2>1 DEF DeliveryInv, LinkInv, LinkTypeOK, LinkedHasNoToken, InFlight, After
    <2>3. \A p \in Pushers : PcOf(p)' = PcOf(p)  BY <1>5, <2>1 DEF PcOf
    <2>4. sweepPc' \in {"push", "pushing", "commit", "done", "broken"}
      BY <1>5 DEF DeliveryInv, PlaceInv, FailsForAReason, Ended
    <2>5. \A r \in Requests : req'[r].pc = "failed" =>
            req[r].pc = "failed" /\ req'[r].kind = req[r].kind
      BY <2>1
    <2>6. UNCHANGED connvars  BY <1>5
    <2> QED BY <2>2, <2>3, <2>4, <2>5, <2>6, NoPushStep
  <1>6. CASE SocketStep /\ UNCHANGED <<linkvars, sweepPc>>  BY <1>6, SocketsSound
  <1>7. CASE UNCHANGED deliveryvars
    BY <1>7 DEF deliveryvars, linkvars, connvars, DeliveryInv, LinkInv, LinkTypeOK,
       LinkedHasNoToken, InFlight, After, PushInv, ConnTypeOK, PlaceInv, PcOf, FailsForAReason
  <1> QED BY <1>1, <1>2, <1>3, <1>4, <1>5, <1>6, <1>7 DEF DeliveryNext

\* A user who has never linked, is about to, or has, and has no socket open.
LEMMA DeliveryBegins == DeliveryInit => DeliveryInv
  <1> SUFFICES ASSUME DeliveryInit PROVE DeliveryInv
    OBVIOUS
  <1>1. /\ user \in RowType /\ (user.chat = Nothing \/ user.token = Nothing)
        /\ minted = {user.token} \ {Nothing} /\ expired = {} /\ holder = Nothing
        /\ req = [r \in Requests |-> NewRequest] /\ mixed = FALSE
    BY DEF DeliveryInit, LinkInit
  <1>2. NewRequest \in Request
    <2>1. <<>> = Restrict(user, {})  BY DEF Restrict
    <2>2. <<>> \in Cols  BY <1>1, <2>1, RowParts
    <2> QED BY <2>2 DEF NewRequest, Request, ReqPc
  <1>3. \A r \in Requests : req[r] = NewRequest /\ req[r].pc = "new" /\ ~InFlight(r)
    BY <1>1 DEF NewRequest, InFlight
  <1>4. LinkTypeOK
    BY <1>1, <1>2, <1>3, ColsFields, NothingAssumption DEF LinkTypeOK, RowType, Request
  <1>5. LinkInv
    BY <1>1, <1>2, <1>3, <1>4 DEF LinkInv, LinkedHasNoToken
  <1>6. /\ conns = {} /\ push = [p \in Pushers |-> NoPush]
        /\ socket = [s \in Sockets |-> "new"]
        /\ sweepPc = "push"
    BY DEF DeliveryInit, ConnInit
  <1>7. PushInv /\ PlaceInv
    <2>1. NoPush \in PushRecord /\ NoPush.pc = "none"  BY DEF NoPush, PushRecord, PushPc
    <2>2. ConnTypeOK  BY <1>6, <2>1 DEF ConnTypeOK, PushRecord
    <2>3. \A p \in Pushers : push[p].pc = "none"  BY <1>6, <2>1
    <2> QED BY <1>6, <2>2, <2>3, FS_EmptySet, DeliveryAssumption DEF PushInv, PlaceInv
  <1>8. FailsForAReason  BY <1>3, <1>6 DEF FailsForAReason
  <1> QED BY <1>5, <1>7, <1>8 DEF DeliveryInv

\* The linked row, the requests, the sockets and the pushes only ever hold what the
\* code puts there (telegram_service.py:44-121, connection_manager.py:13-43).
THEOREM DeliveryTypeCorrect == DeliverySpec => []DeliveryTypeOK
  <1>1. DeliveryInv => DeliveryTypeOK
    BY DEF DeliveryInv, LinkInv, PushInv, PlaceInv, DeliveryTypeOK
  <1> QED BY <1>1, DeliveryBegins, DeliveryStep, PTL DEF DeliverySpec

\* However many requests link and unlink at once, a linked user has a token only
\* after two of them crossed (telegram_service.py:50-51, 96-97).
THEOREM OneLinkAtATime == DeliverySpec => []LinkedHasNoToken
  <1>1. DeliveryInv => LinkedHasNoToken  BY DEF DeliveryInv, LinkInv
  <1> QED BY <1>1, DeliveryBegins, DeliveryStep, PTL DEF DeliverySpec

\* No push undoes what its request or sweep did, but a disconnect's while sockets
\* come and go, for any number of sockets and pushes
\* (scheduler_service.py:395-403, api/v1/telegram.py:28-30).
THEOREM PushUndoesNothing == DeliverySpec => []FailsForAReason
  <1>1. DeliveryInv => FailsForAReason  BY DEF DeliveryInv
  <1> QED BY <1>1, DeliveryBegins, DeliveryStep, PTL DEF DeliverySpec

\* What a step does to a push it ends or goes on with.
LEMMA UndisturbedPush ==
  ASSUME DeliveryInv, [DeliveryNext]_deliveryvars, NEW p \in Pushers,
         push[p].pc = "sending", push[p].churn = "none", push'[p].pc # "sending"
  PROVE  /\ push'[p].pc = "ended"
         /\ \A s \in conns : socket[s] = "open" => s \in push[p].got
         /\ conns' \intersect push[p].stale = {}
  <1> USE DEF DeliveryInv
  <1>1. CASE PushStep(p)  BY <1>1, PushStepKeeps
  <1>2. ASSUME NEW o \in Pushers, PushStep(o), o # p PROVE FALSE
    BY <1>2, PushStepKeeps
  <1>3. ASSUME NEW o \in Pushers, Pushes(o) PROVE FALSE
    <2>1. o # p  BY <1>3, PushesSound
    <2>2. push'[p] = push[p]
      BY <1>3, <2>1 DEF Pushes, StartPush, PushInv, ConnTypeOK
    <2> QED BY <2>2
  <1>4. CASE UNCHANGED push  BY <1>4
  <1>5. CASE SocketStep  BY <1>5, SocketsKeep
  <1>6. ASSUME NEW o \in Pushers, Step(o), ~Pushes(o), ~PushStep(o) PROVE UNCHANGED push
    BY <1>6 DEF Step, Pushed, SweepEnds, connvars
  <1>7. ASSUME ~(\E o \in Pushers : Step(o)), ~SocketStep PROVE UNCHANGED push
    BY <1>7 DEF DeliveryNext, Arrives, SweepEnds, connvars, deliveryvars
  <1> QED BY <1>1, <1>2, <1>3, <1>4, <1>5, <1>6, <1>7

\* A dead socket costs the others nothing, for any number of sockets and pushes
\* (connection_manager.py:33-43).
THEOREM DeadSocketsHarmless == DeliverySpec => DeadSocketsCostNothing
  <1>1. DeliveryInv /\ [DeliveryNext]_deliveryvars =>
          [\A p \in Pushers :
             push[p].pc = "sending" /\ push[p].churn = "none" /\ push'[p].pc # "sending" =>
               /\ push'[p].pc = "ended"
               /\ \A s \in conns : socket[s] = "open" => s \in push[p].got
               /\ conns' \intersect push[p].stale = {}]_connvars
    BY UndisturbedPush
  <1> QED BY <1>1, DeliveryBegins, DeliveryStep, PTL DEF DeliverySpec, DeadSocketsCostNothing
=============================================================================
