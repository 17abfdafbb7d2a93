---------------------------- MODULE TelegramLink ----------------------------
(***************************************************************************)
(* One user's row and the requests that link and unlink a Telegram chat:   *)
(* POST /telegram/connect mints a token, the webhook redeems it for the    *)
(* chat that sent it, DELETE /telegram/disconnect clears both              *)
(* (telegram_service, user_repository).  Every request is a READ COMMITTED *)
(* session: it reads the row, flushes the columns that differ from what it *)
(* read, which takes the row's lock, and commits at its end.  Handle and   *)
(* expiry are written with chat and token, and the messages the chat gets  *)
(* in between are left out.  What a request pushes to the user's sockets   *)
(* is module Delivery's.                                                   *)
(***************************************************************************)
EXTENDS Naturals, FiniteSets, Functions

CONSTANTS Requests, Chats, Tokens,
          Nothing               \* NULL

ASSUME NothingAssumption == Nothing \notin Requests \union Chats \union Tokens

VARIABLES user,      \* the committed row
          minted,    \* tokens generated so far
          expired,   \* tokens past their expiry
          holder,    \* the request that holds the row's lock
          req,       \* the requests
          mixed      \* bookkeeping: the row was last written by a crossed request

linkvars == <<user, minted, expired, holder, req, mixed>>

Column == {"chat", "token"}
RowType == [chat : Chats \union {Nothing}, token : Tokens \union {Nothing}]

\* A request that ends without a commit was refused or failed by what it
\* called ("failed"), or broken by the database or a crash ("broken").
Ended    == {"done", "failed", "broken"}
ReqPc    == {"new", "flush", "push", "pushing", "commit"} \union Ended
InFlight(r) == req[r].pc \notin Ended \union {"new"}

\* A request: `cols' are the columns it writes, `alone' whether no other was
\* in flight with it.
NewRequest == [pc |-> "new", kind |-> "none", cols |-> <<>>, alone |-> TRUE]

LinkTypeOK ==
  /\ user \in RowType
  /\ minted \subseteq Tokens /\ expired \subseteq minted
  /\ holder \in Requests \union {Nothing}
  /\ \A r \in Requests :
       /\ req[r].pc \in ReqPc
       /\ req[r].kind \in {"none", "connect", "webhook", "disconnect"}
       /\ DOMAIN req[r].cols \subseteq Column
       /\ holder = r => InFlight(r)

\* A user who has never linked, is about to, or has.
LinkInit ==
  /\ user \in {u \in RowType : u.chat = Nothing \/ u.token = Nothing}
  /\ minted = {user.token} \ {Nothing}
  /\ expired = {}
  /\ holder = Nothing
  /\ req = [r \in Requests |-> NewRequest]
  /\ mixed = FALSE

Expire(t) ==
  /\ t \in minted \ expired
  /\ expired' = expired \union {t}
  /\ UNCHANGED <<user, minted, holder, req, mixed>>

\* The columns SQLAlchemy writes: those given a value that differs.
Changed(row) == Restrict(row, {k \in Column : row[k] # user[k]})

\* The request r begins, with what it is going to write.
Starts(r, kind, pc, cols) ==
  req' = [q \in Requests |->
            IF q = r THEN [pc |-> pc, kind |-> kind, cols |-> cols,
                           alone |-> \A p \in Requests : ~InFlight(p)]
            ELSE [req[q] EXCEPT !.alone = @ /\ (InFlight(q) => pc \in Ended)]]

\* generate_token, refused to a linked user.
Generate(r, t) ==
  /\ req[r].pc = "new"
  /\ t \notin minted
  /\ IF user.chat = Nothing
     THEN /\ Starts(r, "connect", "flush", Changed([chat |-> Nothing, token |-> t]))
          /\ minted' = minted \union {t}
     ELSE /\ Starts(r, "connect", "failed", <<>>)
          /\ minted' = minted
  /\ UNCHANGED <<user, expired, holder, mixed>>

\* Slip: the token stays in the row.
LinkedRowKeepsToken(c, t) == [chat |-> c, token |-> t]

LinkedRow(c, t) == [chat |-> c, token |-> Nothing]

\* handle_webhook up to its flush: chat c sends `/authorize t'.  A token that
\* is not, or no longer, the user's gets an answer that says so.
Webhook(r, c, t) ==
  /\ req[r].pc = "new"
  /\ IF user.token = t /\ t \notin expired
     THEN Starts(r, "webhook", "flush", Changed(LinkedRow(c, t)))
     ELSE Starts(r, "webhook", "done", <<>>)
  /\ UNCHANGED <<user, minted, expired, holder, mixed>>

\* disconnect up to its flush.
Unlink(r) ==
  /\ req[r].pc = "new"
  /\ Starts(r, "disconnect", "flush", Changed([chat |-> Nothing, token |-> Nothing]))
  /\ UNCHANGED <<user, minted, expired, holder, mixed>>

\* The flush, which waits for the row's lock if it writes anything.  The
\* webhook goes on to tell the chat that it is connected, and to push.
Flush(r) ==
  /\ req[r].pc = "flush"
  /\ \/ DOMAIN req[r].cols = {} /\ holder' = holder
     \/ DOMAIN req[r].cols # {} /\ holder = Nothing /\ holder' = r
  /\ req' = [req EXCEPT ![r].pc =
       IF req[r].kind = "connect" THEN "commit" ELSE "push"]
  /\ UNCHANGED <<user, minted, expired, mixed>>

Released(r) == IF holder = r THEN Nothing ELSE holder

\* Slip: a session that fails is left as it is.
NotReleased(r) == holder

RolledBack(r) == Released(r)

Commit(r) ==
  /\ req[r].pc = "commit"
  /\ user' = [k \in Column |-> IF k \in DOMAIN req[r].cols THEN req[r].cols[k] ELSE user[k]]
  /\ mixed' = IF DOMAIN req[r].cols = {} THEN mixed ELSE ~req[r].alone
  /\ holder' = Released(r)
  /\ req' = [req EXCEPT ![r].pc = "done"]
  /\ UNCHANGED <<minted, expired>>

Rollback(r, pc) ==
  /\ holder' = RolledBack(r)
  /\ req' = [req EXCEPT ![r].pc = pc]
  /\ UNCHANGED <<user, minted, expired, mixed>>

\* The database fails the request, or its process dies, at any point.
Breaks(r) == InFlight(r) /\ Rollback(r, "broken")

-----------------------------------------------------------------------------
\* A linked user has no token that could link another chat: generate_token
\* refuses one and the webhook clears the redeemed one
\* (telegram_service.py:50-51, 96-97), unless a request that wrote the row
\* crossed with another, since nothing checks the row again at the write.
LinkedHasNoToken ==
  user.chat # Nothing /\ user.token # Nothing => mixed
=============================================================================
