--------------------------- MODULE ProposalProofs ---------------------------
(***************************************************************************)
(* Proofs about ProposalLifecycle for any rows and terms, and any number   *)
(* of sweeps, suggestions and requests in flight at once.                  *)
(***************************************************************************)
EXTENDS ProposalLifecycle, TLAPS

\* A suggestion whose row, if it is about one, has been there.
Sound(a, seen) == a \in Ask /\ (a.type # "ADD" => seen[a.target] # NoRow)

\* Rows stay, so what a sweep saw or suggested can still be acted on; only a
\* sweep that is over has proposals in the queue, and only those get answers.
ShapeInv ==
  /\ TypeOK
  /\ \A v \in Reviews, r \in RowId : saw[v][r] # NoRow => rows[r] # NoRow
  /\ \A v \in Reviews : \A i \in DOMAIN draft[v] : Sound(draft[v][i], rows)
  /\ \A p \in ProposalId : status[p] # "none" => Sound(asked[p], rows)
  /\ \A p \in ProposalId : sweep[p[1]] # "over" => status[p] = "none"
  /\ \A q \in Requests : pc[q] \in Deciding =>
       of[q] \in ProposalId /\ status[of[q]] # "none"
  /\ \A q \in Requests : pc[q] \in {"written", "rivals"} => asked[of[q]].type # "ADD"
  /\ \A q \in Requests : \A p \in todo[q] \union held[q] : status[p] # "none"

\* A proposal no requests crossed on is in one request's hand, and pending there.
HandsInv ==
  /\ \A q \in Requests : pc[q] # "rivals" => todo[q] = {} /\ held[q] = {}
  /\ \A p \in ProposalId \ contended : \A q \in InHand(p) :
       /\ status[p] = "PENDING"
       /\ \A r \in InHand(p) : q = r

\* Updates of one row from one sweep.
Rival(p, x) ==
  /\ p # x /\ p[1] = x[1]
  /\ asked[p].type = "UPDATE" /\ asked[x].type = "UPDATE"
  /\ asked[p].target = asked[x].target

\* A rival of an approved update is no longer pending, and one of an update
\* being approved is about to be rejected.
RivalsInv ==
  /\ \A p, x \in ProposalId : Rival(p, x) /\ status[x] = "APPROVED" => status[p] # "PENDING"
  /\ \A q \in Requests : pc[q] = "rivals" =>
       \A p \in ProposalId :
         Rival(p, of[q]) /\ status[p] = "PENDING" => p \in todo[q] \union held[q]

Open(p) == status[p] = "PENDING" \/ (status[p] = "REJECTED" /\ p \in recent)

\* What a sweep is about to queue differs from what sweeps before it queued.
RepeatsInv ==
  /\ \A v, w \in Reviews :
       v # w /\ sweep[v] \in {"began", "reviewed"} /\ sweep[w] \in {"began", "reviewed"} =>
         v \in overlapped
  /\ \A v \in Reviews \ overlapped : sweep[v] = "reviewed" =>
       \A i \in DOMAIN draft[v], p \in ProposalId \ contended :
         p[1] # v /\ p[1] \notin overlapped /\ Open(p) => asked[p] # draft[v][i]

-----------------------------------------------------------------------------
(***************************************************************************)
(* Terms, rows and suggestions.                                            *)
(***************************************************************************)
LiveRow == [enabled : BOOLEAN, term : Term]

\* A row that is there says something (entity rows have no null term).
LEMMA RowFields ==
  ASSUME NEW x \in Row
  PROVE  /\ x # NoRow => x \in LiveRow
         /\ x \in LiveRow => x # NoRow
  <1>1. ASSUME x \in LiveRow PROVE x # NoRow
    <2>1. x.term \in Term  BY <1>1 DEF LiveRow
    <2>2. NoRow.term = NoTerm  BY DEF NoRow
    <2> QED BY <2>1, <2>2, BlankAssumption
  <1> QED BY <1>1 DEF Row, LiveRow

\* What a proposal of each type holds (pipeline/proposals.py:64-137).
LEMMA AskFields ==
  ASSUME NEW a \in Ask
  PROVE  /\ a.type \in {"ADD", "UPDATE", "REMOVE"}
         /\ a.type # "REMOVE" => a.term \in Term
         /\ a.type # "ADD" => a.target \in RowId
  BY DEF Ask, Add, Update, Remove

\* Updating a live row leaves a live row (proposal_service.py:203-208).
LEMMA Rewritten ==
  ASSUME NEW a \in Ask, a.type = "UPDATE", NEW x \in LiveRow, NEW columns,
         NEW y, y = [topic |-> IF "topic" \in columns THEN a.term.topic ELSE x.term.topic,
                     says  |-> IF "says"  \in columns THEN a.term.says  ELSE x.term.says]
  PROVE  y \in Term
  <1>1. a.term \in Term  BY AskFields
  <1>2. x.term \in Term  BY DEF LiveRow
  <1> QED BY <1>1, <1>2 DEF Term

-----------------------------------------------------------------------------
(***************************************************************************)
(* Every step keeps the shape.                                             *)
(***************************************************************************)
\* What a request in flight answers is a suggestion, and its row a row id.
LEMMA InFlight ==
  ASSUME ShapeInv, NEW q \in Requests, pc[q] \in Deciding
  PROVE  /\ of[q] \in ProposalId
         /\ asked[of[q]] \in Ask
         /\ asked[of[q]].type \in {"ADD", "UPDATE", "REMOVE"}
         /\ asked[of[q]].type # "REMOVE" => asked[of[q]].term \in Term
         /\ asked[of[q]].type # "ADD" =>
              Target(q) \in RowId /\ rows[Target(q)] # NoRow /\ rows[Target(q)] \in LiveRow
  <1>1. of[q] \in ProposalId /\ Sound(asked[of[q]], rows)  BY DEF ShapeInv
  <1>2. asked[of[q]] \in Ask  BY <1>1 DEF Sound
  <1>3. ASSUME asked[of[q]].type # "ADD"
        PROVE  Target(q) \in RowId /\ rows[Target(q)] # NoRow
    BY <1>1, <1>2, <1>3, AskFields DEF Sound, Target
  <1>4. \A r \in RowId : rows[r] \in Row  BY DEF ShapeInv, TypeOK
  <1> QED BY <1>1, <1>2, <1>3, <1>4, AskFields, RowFields

\* A sweep's steps keep every variable in its type
\* (proposal_generator.py:31-75, scheduler_service.py:196-214).
LEMMA SweepingTypes ==
  ASSUME ShapeInv, NEW v \in Reviews, Sweeping(v)
  PROVE  TypeOK'
  <1> USE DEF queue, sweeps, session
  <1>1. TypeOK  BY DEF ShapeInv
  <1>2. Blank \in [RowId -> Row]  BY DEF Blank, Row
  <1>3. <<>> \in UNION {[1..n -> Ask] : n \in 0..MaxSuggestions}
    <2>1. 0 \in 0..MaxSuggestions  BY BoundsAssumption
    <2>2. <<>> \in [1..0 -> Ask]  OBVIOUS
    <2> QED BY <2>1, <2>2
  <1>a. CASE Begin(v)  BY <1>a, <1>1 DEF Begin, TypeOK
  <1>b. CASE Review(v)
    <2>1. PICK n \in 0..MaxSuggestions :
            \E made \in [1..n -> {a \in Ask \ Known : Fits(a, saw[v])}] :
              draft' = [draft EXCEPT ![v] = made]
      BY <1>b DEF Review
    <2>2. PICK made \in [1..n -> {a \in Ask \ Known : Fits(a, saw[v])}] :
            draft' = [draft EXCEPT ![v] = made]
      BY <2>1
    <2>3. made \in [1..n -> Ask]  BY <2>2
    <2>4. made \in UNION {[1..k -> Ask] : k \in 0..MaxSuggestions}  BY <2>1, <2>3
    <2>5. draft' \in [Reviews -> UNION {[1..k -> Ask] : k \in 0..MaxSuggestions}]
      BY <1>1, <2>2, <2>4 DEF TypeOK
    <2> QED BY <1>b, <1>1, <1>2, <2>5 DEF Review, TypeOK
  <1>c. CASE Publish(v)
    <2> DEFINE new == {p \in ProposalId : p[1] = v /\ p[2] \in DOMAIN draft[v]}
    <2>1. PICK n \in 0..MaxSuggestions : draft[v] \in [1..n -> Ask]  BY <1>1 DEF TypeOK
    <2>2. asked' = [p \in ProposalId |-> IF p \in new THEN draft[v][p[2]] ELSE asked[p]]
          /\ status' = [p \in ProposalId |-> IF p \in new THEN "PENDING" ELSE status[p]]
      BY <1>c DEF Publish
    <2>3. \A p \in new : draft[v][p[2]] \in Ask  BY <2>1
    <2>4. asked' \in [ProposalId -> Ask \union {NoAsk}]  BY <1>1, <2>2, <2>3 DEF TypeOK
    <2>5. status' \in [ProposalId -> {"none", "PENDING", "APPROVED", "REJECTED"}]
      BY <1>1, <2>2 DEF TypeOK
    <2> QED BY <1>c, <1>1, <1>3, <2>4, <2>5 DEF Publish, TypeOK
  <1>d. CASE SweepFails(v)  BY <1>d, <1>1, <1>2, <1>3 DEF SweepFails, TypeOK
  <1> QED BY <1>a, <1>b, <1>c, <1>d DEF Sweeping

\* So do a request's (proposal_service.py:104-213).
LEMMA AnsweringTypes ==
  ASSUME ShapeInv, NEW q \in Requests, Answering(q)
  PROVE  TypeOK'
  <1> USE DEF queue, sweeps, session
  <1>1. TypeOK  BY DEF ShapeInv
  <1>2. NoRow \in Row  BY DEF Row
  <1>a. ASSUME NEW p \in ProposalId, NEW answer \in {"approving", "rejecting"},
               Load(q, p, answer)
        PROVE  TypeOK'
    <2>1. status[p] = "PENDING"  BY <1>a DEF Load, CheckStatus
    <2>2. asked[p] \in Ask  BY <2>1 DEF ShapeInv, Sound
    <2>3. (IF asked[p].type = "ADD" THEN NoRow ELSE rows[asked[p].target]) \in Row
      BY <1>1, <1>2, <2>2, AskFields DEF TypeOK
    <2>4. loaded' \in [Requests -> Row]  BY <1>a, <1>1, <2>3 DEF Load, TypeOK
    <2>5. pc' \in [Requests -> {"waiting", "done"} \union Deciding]
      BY <1>a, <1>1 DEF Load, TypeOK, Deciding
    <2> QED BY <1>a, <1>1, <2>4, <2>5 DEF Load, TypeOK
  <1>3. ASSUME EndSession(q)
        PROVE  /\ pc' \in [Requests -> {"waiting", "done"} \union Deciding]
               /\ of' \in [Requests -> ProposalId \union {NoProposal}]
               /\ loaded' \in [Requests -> Row]
               /\ todo' \in [Requests -> SUBSET ProposalId]
               /\ held' \in [Requests -> SUBSET ProposalId]
    BY <1>1, <1>2, <1>3 DEF EndSession, TypeOK
  <1>b. CASE Reject(q)
    <2>1. of[q] \in ProposalId  BY <1>b, InFlight DEF Reject, Deciding
    <2> QED BY <1>b, <1>1, <1>3, <2>1 DEF Reject, TypeOK
  <1>c. CASE ApproveAdd(q)
    <2>1. of[q] \in ProposalId /\ asked[of[q]].term \in Term
      BY <1>c, InFlight DEF ApproveAdd, Deciding
    <2>2. [enabled |-> TRUE, term |-> asked[of[q]].term] \in Row  BY <2>1 DEF Row
    <2>3. rows' \in [RowId -> Row]  BY <1>c, <1>1, <2>2 DEF ApproveAdd, TypeOK, RowId
    <2> QED BY <1>c, <1>1, <1>3, <2>1, <2>3 DEF ApproveAdd, TypeOK
  <1>d. CASE WriteRow(q)  BY <1>d, <1>1 DEF WriteRow, TypeOK, Deciding
  <1>e. CASE FindRivals(q)
    <2>1. Rivals(q) \subseteq ProposalId  BY DEF Rivals
    <2> QED BY <1>e, <1>1, <2>1 DEF FindRivals, TypeOK, Deciding
  <1>f. ASSUME NEW p \in ProposalId, RejectRival(q, p) PROVE TypeOK'
    BY <1>f, <1>1 DEF RejectRival, TypeOK
  <1>g. CASE Approve(q)
    <2> DEFINE r == Target(q)
               a == asked[of[q]]
               t == [topic |-> IF "topic" \in Written(q) THEN a.term.topic ELSE rows[r].term.topic,
                     says  |-> IF "says"  \in Written(q) THEN a.term.says  ELSE rows[r].term.says]
    <2>1. /\ of[q] \in ProposalId /\ EndSession(q) /\ pc[q] \in Deciding
          /\ status' = [p \in ProposalId |-> IF p = of[q] THEN "APPROVED"
                           ELSE IF p \in held[q] THEN RivalStatus ELSE status[p]]
      BY <1>g, InFlight DEF Approve, Deciding
    <2>2. a \in Ask /\ r \in RowId /\ rows[r] \in LiveRow /\ a.type \in {"UPDATE", "REMOVE"}
      <3>1. a.type # "ADD"  BY <1>g DEF Approve, ShapeInv
      <3> QED BY <2>1, <3>1, InFlight
    <2>3. ASSUME a.type = "REMOVE" PROVE rows' \in [RowId -> Row]
      <3>1. rows' = [rows EXCEPT ![r].enabled = @ /\ Written(q) = {}]  BY <1>g, <2>3 DEF Approve
      <3>2. [rows[r] EXCEPT !.enabled = @ /\ Written(q) = {}] \in LiveRow  BY <2>2 DEF LiveRow
      <3> QED BY <1>1, <2>2, <3>1, <3>2 DEF TypeOK, Row, LiveRow
    <2>4. ASSUME a.type = "UPDATE" PROVE rows' \in [RowId -> Row]
      <3>1. rows' = [rows EXCEPT ![r].term = t]  BY <1>g, <2>4 DEF Approve
      <3>2. t \in Term  BY <2>2, <2>4, Rewritten
      <3>3. [rows[r] EXCEPT !.term = t] \in LiveRow  BY <2>2, <3>2 DEF LiveRow
      <3> HIDE DEF t
      <3> QED BY <1>1, <2>2, <3>1, <3>3 DEF TypeOK, Row, LiveRow
    <2>5. status' \in [ProposalId -> {"none", "PENDING", "APPROVED", "REJECTED"}]
      BY <1>1, <2>1 DEF TypeOK, RivalStatus
    <2>6. rows' \in [RowId -> Row]  BY <2>2, <2>3, <2>4
    <2> QED BY <1>g, <1>1, <1>3, <2>1, <2>5, <2>6 DEF Approve, TypeOK
  <1>h. CASE RequestFails(q)  BY <1>h, <1>1, <1>3 DEF RequestFails, TypeOK
  <1> QED BY <1>a, <1>b, <1>c, <1>d, <1>e, <1>f, <1>g, <1>h DEF Answering

\* No row ever goes: an answer or an edit rewrites the row, a removal disables it
\* (quant_condition_repository.py:73-87).
LEMMA RowsStay ==
  ASSUME ShapeInv, [Next]_vars
  PROVE  \A r \in RowId : rows[r] # NoRow => rows'[r] # NoRow
  <1> SUFFICES ASSUME NEW r \in RowId, rows[r] # NoRow  PROVE rows'[r] # NoRow
    OBVIOUS
  <1>1. rows[r] \in LiveRow  BY RowFields DEF ShapeInv, TypeOK
  <1>2. rows \in [RowId -> Row]  BY DEF ShapeInv, TypeOK
  <1>3. CASE rows' = rows  BY <1>3
  <1>4. ASSUME NEW q \in Requests, ApproveAdd(q) PROVE rows'[r] # NoRow
    <2>1. asked[of[q]].term \in Term  BY <1>4, InFlight DEF ApproveAdd, Deciding
    <2>2. [enabled |-> TRUE, term |-> asked[of[q]].term] \in LiveRow  BY <2>1 DEF LiveRow
    <2>3. rows'[r] \in LiveRow  BY <1>1, <1>2, <1>4, <2>2 DEF ApproveAdd
    <2> QED BY <2>3, RowFields DEF Row, LiveRow
  <1>5. ASSUME NEW q \in Requests, Approve(q) PROVE rows'[r] # NoRow
    <2> DEFINE a == asked[of[q]]
               x == rows[Target(q)]
               t == [topic |-> IF "topic" \in Written(q) THEN a.term.topic ELSE x.term.topic,
                     says  |-> IF "says"  \in Written(q) THEN a.term.says  ELSE x.term.says]
    <2>1. a \in Ask /\ a.type \in {"UPDATE", "REMOVE"} /\ x \in LiveRow
      <3>1. pc[q] \in Deciding  BY <1>5 DEF Approve, Deciding
      <3>2. a.type # "ADD"  BY <1>5 DEF Approve, ShapeInv
      <3> QED BY <3>1, <3>2, InFlight
    <2>2. ASSUME a.type = "REMOVE" PROVE rows'[r] \in LiveRow
      <3>1. rows' = [rows EXCEPT ![Target(q)].enabled = @ /\ Written(q) = {}]
        BY <1>5, <2>2 DEF Approve
      <3>2. [x EXCEPT !.enabled = @ /\ Written(q) = {}] \in LiveRow  BY <2>1 DEF LiveRow
      <3> QED BY <1>1, <1>2, <3>1, <3>2
    <2>3. ASSUME a.type = "UPDATE" PROVE rows'[r] \in LiveRow
      <3>1. rows' = [rows EXCEPT ![Target(q)].term = t]  BY <1>5, <2>3 DEF Approve
      <3>2. t \in Term  BY <2>1, <2>3, Rewritten
      <3>3. [x EXCEPT !.term = t] \in LiveRow  BY <2>1, <3>2 DEF LiveRow
      <3> HIDE DEF t
      <3> QED BY <1>1, <1>2, <3>1, <3>3
    <2> QED BY <2>1, <2>2, <2>3, RowFields DEF Row, LiveRow
  <1>6. ASSUME NEW e \in RowId, EditRow(e) PROVE rows'[r] # NoRow
    <2>1. PICK enabled \in BOOLEAN, t \in Term :
            rows' = [rows EXCEPT ![e] = [enabled |-> enabled, term |-> t]]
      BY <1>6 DEF EditRow
    <2>2. rows'[r] \in LiveRow  BY <1>1, <1>2, <2>1 DEF LiveRow
    <2> QED BY <2>2, RowFields DEF Row, LiveRow
  <1>7. ASSUME NEW v \in Reviews, Sweeping(v) PROVE rows' = rows
    BY <1>7 DEF Sweeping, Begin, Review, Publish, SweepFails
  <1>8. ASSUME NEW q \in Requests, Answering(q), ~ApproveAdd(q), ~Approve(q) PROVE rows' = rows
    BY <1>8 DEF Answering, Load, Reject, WriteRow, FindRivals, RejectRival, RequestFails
  <1>9. ASSUME NEW p \in ProposalId, RejectionAges(p) PROVE rows' = rows
    BY <1>9 DEF RejectionAges
  <1>10. CASE UNCHANGED vars  BY <1>10 DEF vars
  <1> QED BY <1>3, <1>4, <1>5, <1>6, <1>7, <1>8, <1>9, <1>10 DEF Next

\* An answer leaves the suggestions and the sweeps alone and gives only queued
\* proposals another status; the other requests stay where they are.
LEMMA AnswerMoves ==
  ASSUME ShapeInv, NEW q \in Requests, Answering(q)
  PROVE  /\ asked' = asked /\ sweep' = sweep /\ saw' = saw /\ draft' = draft
         /\ overlapped' = overlapped
         /\ \A p \in ProposalId : status[p] = "none" <=> status'[p] = "none"
         /\ \A r \in Requests \ {q} :
              pc'[r] = pc[r] /\ of'[r] = of[r] /\ todo'[r] = todo[r] /\ held'[r] = held[r]
  <1> USE DEF queue, sweeps, session
  <1>1. TypeOK  BY DEF ShapeInv
  <1>2. asked' = asked /\ sweep' = sweep /\ saw' = saw /\ draft' = draft
        /\ overlapped' = overlapped
    BY DEF Answering, Load, Reject, ApproveAdd, WriteRow, FindRivals, RejectRival, Approve,
           RequestFails
  <1>3. \A r \in Requests \ {q} :
          pc'[r] = pc[r] /\ of'[r] = of[r] /\ todo'[r] = todo[r] /\ held'[r] = held[r]
    BY <1>1 DEF TypeOK, Answering, Load, Reject, ApproveAdd, WriteRow, FindRivals, RejectRival,
           Approve, RequestFails, EndSession
  <1>4. pc[q] \in Deciding => of[q] \in ProposalId /\ status[of[q]] # "none"
    BY DEF ShapeInv
  <1>5. ASSUME NEW p \in ProposalId PROVE status[p] = "none" <=> status'[p] = "none"
    <2>1. CASE Reject(q)  BY <2>1, <1>1, <1>4 DEF Reject, TypeOK, Deciding
    <2>2. CASE ApproveAdd(q)  BY <2>2, <1>1, <1>4 DEF ApproveAdd, TypeOK, Deciding
    <2>3. CASE Approve(q)
      <3>1. p \in held[q] => status[p] # "none"  BY DEF ShapeInv
      <3>2. status'[p] = IF p = of[q] THEN "APPROVED"
                         ELSE IF p \in held[q] THEN "REJECTED" ELSE status[p]
        BY <2>3 DEF Approve, RivalStatus
      <3>3. pc[q] \in Deciding  BY <2>3 DEF Approve, Deciding
      <3> QED BY <1>4, <3>1, <3>2, <3>3
    <2>4. CASE UNCHANGED status  BY <2>4
    <2> QED BY <2>1, <2>2, <2>3, <2>4
            DEF Answering, Load, WriteRow, FindRivals, RejectRival, RequestFails
  <1> QED BY <1>2, <1>3, <1>5

\* A suggestion stays one as the rows change.
LEMMA SoundStays ==
  ASSUME ShapeInv, [Next]_vars, NEW a, Sound(a, rows)
  PROVE  Sound(a, rows')
  BY RowsStay, AskFields DEF Sound

\* What a sweep drafts is about rows it saw.
LEMMA DraftsSound ==
  ASSUME ShapeInv, [Next]_vars, NEW v \in Reviews, Review(v),
         NEW i \in DOMAIN draft'[v]
  PROVE  Sound(draft'[v][i], rows)
  <1>1. PICK n \in 0..MaxSuggestions :
          \E made \in [1..n -> {a \in Ask \ Known : Fits(a, saw[v])}] :
            draft' = [draft EXCEPT ![v] = made]
    BY DEF Review
  <1>2. PICK made \in [1..n -> {a \in Ask \ Known : Fits(a, saw[v])}] :
          draft' = [draft EXCEPT ![v] = made]
    BY <1>1
  <1>3. draft'[v] = made  BY <1>2 DEF ShapeInv, TypeOK
  <1>4. made[i] \in Ask /\ Fits(made[i], saw[v])  BY <1>2, <1>3
  <1>5. ASSUME made[i].type # "ADD" PROVE rows[made[i].target] # NoRow
    <2>1. made[i].target \in RowId /\ saw[v][made[i].target].enabled
      BY <1>4, <1>5, AskFields DEF Fits
    <2>2. saw[v][made[i].target] # NoRow  BY <2>1 DEF NoRow
    <2> QED BY <2>1, <2>2 DEF ShapeInv
  <1> QED BY <1>3, <1>4, <1>5 DEF Sound

\* What each of a sweep's steps does to the queue.
LEMMA SweepMoves ==
  ASSUME ShapeInv, NEW v \in Reviews, Sweeping(v)
  PROVE  /\ \A w \in Reviews \ {v} :
              sweep'[w] = sweep[w] /\ saw'[w] = saw[w] /\ draft'[w] = draft[w]
         /\ \A p \in ProposalId : p[1] # v \/ ~Publish(v) =>
              asked'[p] = asked[p] /\ status'[p] = status[p]
         /\ \A p \in ProposalId : status[p] # "none" =>
              asked'[p] = asked[p] /\ status'[p] = status[p]
         /\ sweep[v] # "over" /\ (sweep'[v] = "over" <=> Publish(v) \/ SweepFails(v))
         /\ UNCHANGED <<session, recent, applied, contended, edits, rows>>
  <1> USE DEF queue, sweeps
  <1>1. TypeOK  BY DEF ShapeInv
  <1>2. CASE Publish(v)
    <2> DEFINE new == {p \in ProposalId : p[1] = v /\ p[2] \in DOMAIN draft[v]}
    <2>1. asked' = [p \in ProposalId |-> IF p \in new THEN draft[v][p[2]] ELSE asked[p]]
          /\ status' = [p \in ProposalId |-> IF p \in new THEN "PENDING" ELSE status[p]]
      BY <1>2 DEF Publish
    <2>2. sweep[v] = "reviewed"  BY <1>2 DEF Publish
    <2>3. \A p \in ProposalId : p[1] = v => status[p] = "none"  BY <2>2 DEF ShapeInv
    <2>4. \A p \in ProposalId : p \notin new => asked'[p] = asked[p] /\ status'[p] = status[p]
      BY <2>1
    <2>5. \A p \in ProposalId : status[p] # "none" => p \notin new  BY <2>3
    <2>6. \A w \in Reviews \ {v} :
            sweep'[w] = sweep[w] /\ saw'[w] = saw[w] /\ draft'[w] = draft[w]
      BY <1>2, <1>1 DEF Publish, TypeOK
    <2>7. sweep'[v] = "over"  BY <1>2, <1>1 DEF Publish, TypeOK
    <2>8. UNCHANGED <<session, recent, applied, contended, edits, rows>>  BY <1>2 DEF Publish
    <2> QED BY <1>2, <2>2, <2>4, <2>5, <2>6, <2>7, <2>8
  <1>3. CASE ~Publish(v)
    BY <1>3, <1>1 DEF Sweeping, Begin, Review, SweepFails, TypeOK
  <1> QED BY <1>2, <1>3

\* A sweep's step keeps the shape.
LEMMA SweepingShape ==
  ASSUME ShapeInv, [Next]_vars, NEW v \in Reviews, Sweeping(v)
  PROVE  ShapeInv'
  <1> USE DEF queue, sweeps, session
  <1>1. TypeOK /\ TypeOK'  BY SweepingTypes DEF ShapeInv
  <1>2. ASSUME NEW w \in Reviews, NEW r \in RowId, saw'[w][r] # NoRow PROVE rows'[r] # NoRow
    <2>1. rows' = rows  BY SweepMoves
    <2>2. CASE Begin(v)
      BY <1>1, <1>2, <2>1, <2>2 DEF Begin, TypeOK, ShapeInv
    <2>3. CASE Review(v) \/ SweepFails(v)
      <3>1. saw' = [saw EXCEPT ![v] = Blank]  BY <2>3 DEF Review, SweepFails
      <3>2. w # v  BY <1>1, <1>2, <3>1 DEF Blank, TypeOK
      <3> QED BY <1>2, <2>1, <3>2, SweepMoves DEF ShapeInv
    <2>4. CASE Publish(v)
      BY <1>2, <2>1, <2>4 DEF Publish, ShapeInv
    <2> QED BY <2>2, <2>3, <2>4 DEF Sweeping
  <1>3. ASSUME NEW w \in Reviews, NEW i \in DOMAIN draft'[w] PROVE Sound(draft'[w][i], rows')
    <2>1. rows' = rows  BY SweepMoves
    <2>2. Sound(draft'[w][i], rows)
      <3>1. CASE Review(v) /\ w = v  BY <3>1, <1>3, DraftsSound
      <3>2. CASE draft'[w] = draft[w]  BY <3>2, <1>3 DEF ShapeInv
      <3>3. CASE (Publish(v) \/ SweepFails(v)) /\ w = v
        BY <3>3, <1>1, <1>3 DEF Publish, SweepFails, TypeOK
      <3>4. CASE Begin(v)  BY <3>4, <1>3 DEF Begin, ShapeInv
      <3> QED BY <3>1, <3>2, <3>3, <3>4, SweepMoves DEF Sweeping
    <2> QED BY <2>1, <2>2 DEF Sound
  <1>4. ASSUME NEW p \in ProposalId, status'[p] # "none" PROVE Sound(asked'[p], rows')
    <2>1. rows' = rows  BY SweepMoves
    <2>2. CASE status[p] # "none"
      <3>1. Sound(asked[p], rows)  BY <2>2 DEF ShapeInv
      <3>2. asked'[p] = asked[p]  BY <2>2, SweepMoves
      <3> QED BY <2>1, <3>1, <3>2 DEF Sound
    <2>3. CASE status[p] = "none"
      <3>1. Publish(v) /\ p[1] = v  BY <1>4, <2>3, SweepMoves
      <3>2. p[2] \in DOMAIN draft[v] /\ asked'[p] = draft[v][p[2]]
        BY <3>1, <1>4, <2>3 DEF Publish
      <3>3. Sound(draft[v][p[2]], rows)  BY <3>2 DEF ShapeInv
      <3> QED BY <2>1, <3>2, <3>3 DEF Sound
    <2> QED BY <2>2, <2>3
  <1>5. ASSUME NEW p \in ProposalId, sweep'[p[1]] # "over" PROVE status'[p] = "none"
    <2>1. p[1] \in Reviews  BY DEF ProposalId
    <2>2. sweep[p[1]] # "over"  BY <1>5, <2>1, SweepMoves
    <2>3. p[1] # v \/ ~Publish(v)  BY <1>5, SweepMoves
    <2> QED BY <2>2, <2>3, SweepMoves DEF ShapeInv
  <1>6. /\ \A q \in Requests : pc'[q] \in Deciding =>
             of'[q] \in ProposalId /\ status'[of'[q]] # "none"
        /\ \A q \in Requests : pc'[q] \in {"written", "rivals"} => asked'[of'[q]].type # "ADD"
    <2>1. pc' = pc /\ of' = of  BY SweepMoves
    <2>2. \A q \in Requests : pc[q] \in {"written", "rivals"} => pc[q] \in Deciding
      BY DEF Deciding
    <2> QED BY <2>1, <2>2, SweepMoves DEF ShapeInv
  <1>7. \A q \in Requests : \A p \in todo'[q] \union held'[q] : status'[p] # "none"
    <2>1. todo' = todo /\ held' = held  BY SweepMoves
    <2>2. \A q \in Requests : todo[q] \union held[q] \subseteq ProposalId  BY <1>1 DEF TypeOK
    <2> QED BY <2>1, <2>2, SweepMoves DEF ShapeInv
  <1> QED BY <1>1, <1>2, <1>3, <1>4, <1>5, <1>6, <1>7 DEF ShapeInv

\* A request's step keeps the shape.
LEMMA AnsweringShape ==
  ASSUME ShapeInv, [Next]_vars, NEW q \in Requests, Answering(q)
  PROVE  ShapeInv'
  <1> USE DEF queue, sweeps
  <1>1. TypeOK /\ TypeOK'  BY AnsweringTypes DEF ShapeInv
  <1>2. /\ \A v \in Reviews, r \in RowId : saw'[v][r] # NoRow => rows'[r] # NoRow
        /\ \A v \in Reviews : \A i \in DOMAIN draft'[v] : Sound(draft'[v][i], rows')
        /\ \A p \in ProposalId : status'[p] # "none" => Sound(asked'[p], rows')
    BY AnswerMoves, RowsStay, SoundStays DEF ShapeInv
  <1>3. \A p \in ProposalId : sweep'[p[1]] # "over" => status'[p] = "none"
    BY AnswerMoves DEF ShapeInv
  <1> DEFINE Placed == /\ pc'[q] \in Deciding => of'[q] \in ProposalId /\ status[of'[q]] # "none"
                       /\ pc'[q] \in {"written", "rivals"} => asked[of'[q]].type # "ADD"
                       /\ \A p \in todo'[q] \union held'[q] : status[p] # "none"
  <1>4. Placed
    <2>1. ASSUME NEW p \in ProposalId, NEW answer \in {"approving", "rejecting"},
                 Load(q, p, answer)
          PROVE  Placed
      BY <1>1, <2>1 DEF Load, CheckStatus, TypeOK, ShapeInv
    <2>2. CASE EndSession(q)  BY <1>1, <2>2 DEF EndSession, TypeOK, Deciding
    <2>3. CASE WriteRow(q)  BY <1>1, <2>3 DEF WriteRow, TypeOK, ShapeInv, Deciding
    <2>4. CASE FindRivals(q)
      BY <1>1, <2>4 DEF FindRivals, TypeOK, ShapeInv, Deciding, Rivals
    <2>5. ASSUME NEW p \in ProposalId, RejectRival(q, p)
          PROVE  Placed
      BY <1>1, <2>5 DEF RejectRival, TypeOK, ShapeInv
    <2> QED BY <2>1, <2>2, <2>3, <2>4, <2>5
            DEF Answering, Reject, ApproveAdd, Approve, RequestFails
  <1>5. ASSUME NEW r \in Requests
        PROVE  /\ pc'[r] \in Deciding => of'[r] \in ProposalId /\ status'[of'[r]] # "none"
               /\ pc'[r] \in {"written", "rivals"} => asked'[of'[r]].type # "ADD"
               /\ \A p \in todo'[r] \union held'[r] : status'[p] # "none"
    <2>1. todo'[r] \union held'[r] \subseteq ProposalId  BY <1>1 DEF TypeOK
    <2>2. CASE r = q  BY <1>4, <2>1, <2>2, AnswerMoves
    <2>3. CASE r # q  BY <2>1, <2>3, AnswerMoves DEF ShapeInv
    <2> QED BY <2>2, <2>3
  <1> QED BY <1>1, <1>2, <1>3, <1>5 DEF ShapeInv

\* No step changes the shape.
LEMMA ShapeStep == ShapeInv /\ [Next]_vars => ShapeInv'
  <1> SUFFICES ASSUME ShapeInv, [Next]_vars PROVE ShapeInv'
    OBVIOUS
  <1>1. CASE \E v \in Reviews : Sweeping(v)  BY <1>1, SweepingShape
  <1>2. CASE \E q \in Requests : Answering(q)  BY <1>2, AnsweringShape
  <1>3. ASSUME NEW p \in ProposalId, RejectionAges(p) PROVE ShapeInv'
    BY <1>3 DEF RejectionAges, sweeps, session, ShapeInv, TypeOK
  <1>4. ASSUME NEW e \in RowId, EditRow(e) PROVE ShapeInv'
    <2>1. UNCHANGED <<queue, sweeps, session, applied, contended>>  BY <1>4 DEF EditRow
    <2>2. PICK enabled \in BOOLEAN, t \in Term :
            rows' = [rows EXCEPT ![e] = [enabled |-> enabled, term |-> t]]
      BY <1>4 DEF EditRow
    <2>3. rows' \in [RowId -> Row]  BY <2>2 DEF ShapeInv, TypeOK, Row
    <2>4. edits' \in 0..MaxEdits  BY <1>4, BoundsAssumption DEF EditRow, ShapeInv, TypeOK
    <2>5. TypeOK'
      BY <2>1, <2>3, <2>4 DEF ShapeInv, TypeOK, queue, sweeps, session
    <2> QED BY <2>1, <2>5, RowsStay, SoundStays DEF ShapeInv, queue, sweeps, session
  <1>5. CASE UNCHANGED vars
    BY <1>5 DEF vars, ShapeInv, TypeOK, Deciding
  <1> QED BY <1>1, <1>2, <1>3, <1>4, <1>5 DEF Next

\* The shape holds of a thesis just created.
LEMMA ShapeInit == Init => ShapeInv
  <1> SUFFICES ASSUME Init PROVE ShapeInv
    OBVIOUS
  <1>1. PICK terms \in [Rows -> Term] :
          rows = [r \in RowId |-> IF r \in Rows
                   THEN [enabled |-> TRUE, term |-> terms[r]] ELSE NoRow]
    BY DEF Init
  <1>2. rows \in [RowId -> Row]  BY <1>1 DEF Row
  <1>3. draft \in [Reviews -> UNION {[1..n -> Ask] : n \in 0..MaxSuggestions}]
    <2>1. 0 \in 0..MaxSuggestions  BY BoundsAssumption
    <2>2. <<>> \in [1..0 -> Ask]  OBVIOUS
    <2>3. <<>> \in UNION {[1..n -> Ask] : n \in 0..MaxSuggestions}  BY <2>1, <2>2
    <2> QED BY <2>3 DEF Init
  <1>4. /\ asked \in [ProposalId -> Ask \union {NoAsk}]
        /\ saw \in [Reviews -> [RowId -> Row]]
        /\ loaded \in [Requests -> Row]
    BY DEF Init, Blank, Row
  <1>5. /\ pc \in [Requests -> {"waiting", "done"} \union Deciding]
        /\ status \in [ProposalId -> {"none", "PENDING", "APPROVED", "REJECTED"}]
        /\ sweep \in [Reviews -> {"waiting", "began", "reviewed", "over"}]
        /\ edits \in 0..MaxEdits
    BY BoundsAssumption DEF Init
  <1>6. TypeOK  BY <1>2, <1>3, <1>4, <1>5 DEF Init, TypeOK
  <1> QED BY <1>6 DEF Init, ShapeInv, Blank, Deciding

\* The queue, the requests and the sweeps of a thesis only ever hold what their
\* columns allow, and no row a suggestion is about was ever missing
\* (proposal_service.py:104-213, proposal_generator.py:31-75).
THEOREM TypeCorrect == Spec => []TypeOK
  <1>1. ShapeInv => TypeOK  BY DEF ShapeInv
  <1> QED BY <1>1, ShapeInit, ShapeStep, PTL DEF Spec

-----------------------------------------------------------------------------
(***************************************************************************)
(* A proposal is dealt with by one request at a time, unless two crossed.  *)
(***************************************************************************)
\* Request q's step leaves the standing of proposal p as it is.
Leaves(p) ==
  /\ status'[p] = status[p]
  /\ p \in recent' <=> p \in recent
  /\ \A r \in Requests : <<r, p>> \in applied' <=> <<r, p>> \in applied

\* Request q's step approves proposal p, or turns it down.
Approves(q, p) ==
  /\ status'[p] = "APPROVED"
  /\ \A r \in Requests : <<r, p>> \in applied' <=> <<r, p>> \in applied \/ r = q
Declines(p) ==
  /\ status'[p] = "REJECTED"
  /\ p \in recent'
  /\ \A r \in Requests : <<r, p>> \in applied' <=> <<r, p>> \in applied

\* A request whose session ends has nothing left in hand.
LEMMA HandsEmptied ==
  ASSUME TypeOK, NEW q \in Requests, EndSession(q), NEW p \in ProposalId
  PROVE  q \notin InHand(p)'
  BY DEF TypeOK, EndSession, InHand, Deciding

\* What a request's step does to a proposal: it takes a pending one in hand, and
\* decides only what it had in hand and lets go of (proposal_service.py:104-213).
LEMMA Settles ==
  ASSUME ShapeInv, HandsInv, NEW q \in Requests, Answering(q), NEW p \in ProposalId
  PROVE  /\ contended \subseteq contended'
         /\ \A r \in Requests \ {q} : r \in InHand(p)' <=> r \in InHand(p)
         /\ q \in InHand(p)' /\ q \notin InHand(p) =>
              status[p] = "PENDING" /\ (InHand(p) # {} => p \in contended')
         /\ \/ Leaves(p)
            \/ /\ q \in InHand(p) /\ q \notin InHand(p)'
               /\ Approves(q, p) \/ Declines(p)
  <1> USE DEF queue, sweeps, session
  <1>1. TypeOK  BY DEF ShapeInv
  <1>2. contended \subseteq contended'
    BY DEF Answering, Load, Reject, ApproveAdd, WriteRow, FindRivals, RejectRival, Approve,
           RequestFails
  <1>3. \A r \in Requests \ {q} : r \in InHand(p)' <=> r \in InHand(p)
    BY AnswerMoves DEF InHand
  <1>4. pc[q] \in Deciding => of[q] \in ProposalId /\ q \in InHand(of[q])
    BY DEF ShapeInv, InHand
  <1>a. ASSUME NEW x \in ProposalId, NEW answer \in {"approving", "rejecting"},
               Load(q, x, answer)
        PROVE  /\ q \in InHand(p)' => p = x
               /\ status[x] = "PENDING" /\ (InHand(x) # {} => x \in contended')
               /\ Leaves(p)
    <2>1. todo[q] = {} /\ held[q] = {}  BY <1>a DEF Load, HandsInv
    <2>2. todo' = todo /\ held' = held /\ of'[q] = x  BY <1>1, <1>a DEF Load, TypeOK
    <2>3. Leaves(p)  BY <1>a DEF Load, Leaves
    <2>4. q \in InHand(p)' => p = x  BY <2>1, <2>2 DEF InHand
    <2>5. status[x] = "PENDING" /\ (InHand(x) # {} => x \in contended')
      BY <1>a DEF Load, CheckStatus
    <2> QED BY <2>3, <2>4, <2>5
  <1>b. ASSUME Reject(q)
        PROVE  q \notin InHand(p)' /\ (Leaves(p) \/ (q \in InHand(p) /\ Declines(p)))
    <2>1. q \notin InHand(p)'  BY <1>1, <1>b, HandsEmptied DEF Reject
    <2>2. of[q] \in ProposalId /\ q \in InHand(of[q])  BY <1>4, <1>b DEF Reject, Deciding
    <2>3. CASE p = of[q]
      <3>1. Declines(p)  BY <1>1, <1>b, <2>3 DEF Reject, Declines, TypeOK
      <3> QED BY <2>1, <2>2, <2>3, <3>1
    <2>4. CASE p # of[q]
      BY <1>1, <1>b, <2>1, <2>2, <2>4 DEF Reject, Leaves, TypeOK
    <2> QED BY <2>3, <2>4, <2>1
  <1>c. ASSUME ApproveAdd(q)
        PROVE  q \notin InHand(p)' /\ (Leaves(p) \/ (q \in InHand(p) /\ Approves(q, p)))
    <2>1. q \notin InHand(p)'  BY <1>1, <1>c, HandsEmptied DEF ApproveAdd
    <2>2. of[q] \in ProposalId /\ q \in InHand(of[q])  BY <1>4, <1>c DEF ApproveAdd, Deciding
    <2>3. CASE p = of[q]
      <3>1. Approves(q, p)  BY <1>1, <1>c, <2>3 DEF ApproveAdd, Approves, TypeOK
      <3> QED BY <2>1, <2>2, <2>3, <3>1
    <2>4. CASE p # of[q]
      BY <1>1, <1>c, <2>1, <2>2, <2>4 DEF ApproveAdd, Leaves, TypeOK
    <2> QED BY <2>3, <2>4, <2>1
  <1>d. ASSUME Approve(q)
        PROVE  /\ q \notin InHand(p)'
               /\ Leaves(p) \/ (q \in InHand(p) /\ (Approves(q, p) \/ Declines(p)))
    <2>1. q \notin InHand(p)'  BY <1>1, <1>d, HandsEmptied DEF Approve
    <2>2. pc[q] \in Deciding /\ of[q] \in ProposalId /\ q \in InHand(of[q])
      BY <1>4, <1>d DEF Approve, Deciding
    <2>3. /\ status' = [x \in ProposalId |-> IF x = of[q] THEN "APPROVED"
                          ELSE IF x \in held[q] THEN "REJECTED" ELSE status[x]]
          /\ recent' = recent \union held[q]
          /\ applied' = applied \union {<<q, of[q]>>}
      BY <1>d DEF Approve, RivalStatus
    <2>4. CASE p = of[q]  BY <2>1, <2>2, <2>3, <2>4 DEF Approves
    <2>5. CASE p # of[q] /\ p \in held[q]
      <3>1. q \in InHand(p)  BY <2>2, <2>5 DEF InHand
      <3>2. Declines(p)  BY <2>3, <2>5 DEF Declines
      <3> QED BY <2>1, <3>1, <3>2
    <2>6. CASE p # of[q] /\ p \notin held[q]
      <3>1. Leaves(p)  BY <2>3, <2>6 DEF Leaves
      <3> QED BY <2>1, <3>1
    <2> QED BY <2>4, <2>5, <2>6
  <1>e. ASSUME WriteRow(q) PROVE Leaves(p) /\ (q \in InHand(p)' => q \in InHand(p))
    BY <1>1, <1>e DEF WriteRow, Leaves, InHand, Deciding, TypeOK
  <1>f. ASSUME FindRivals(q)
        PROVE  /\ Leaves(p)
               /\ q \in InHand(p)' /\ q \notin InHand(p) =>
                    status[p] = "PENDING" /\ (InHand(p) # {} => p \in contended')
    <2>1. Leaves(p)  BY <1>f DEF FindRivals, Leaves
    <2>2. todo'[q] = Rivals(q) /\ held' = held /\ of' = of /\ pc[q] \in Deciding
      BY <1>1, <1>f DEF FindRivals, TypeOK, Deciding
    <2>3. q \in InHand(p)' /\ q \notin InHand(p) => p \in Rivals(q)  BY <2>2 DEF InHand
    <2> QED BY <1>f, <2>1, <2>3 DEF FindRivals, Rivals
  <1>g. ASSUME NEW x \in ProposalId, RejectRival(q, x)
        PROVE  Leaves(p) /\ (q \in InHand(p)' => q \in InHand(p))
    BY <1>1, <1>g DEF RejectRival, Leaves, InHand, TypeOK
  <1>h. ASSUME RequestFails(q) PROVE Leaves(p) /\ q \notin InHand(p)'
    BY <1>1, <1>h, HandsEmptied DEF RequestFails, Leaves
  <1> QED BY <1>2, <1>3, <1>a, <1>b, <1>c, <1>d, <1>e, <1>f, <1>g, <1>h DEF Answering

\* What is not a request's step leaves the requests' hands and decisions alone.
LEMMA HandsKept ==
  ASSUME ShapeInv, [Next]_vars, \A q \in Requests : ~Answering(q)
  PROVE  /\ UNCHANGED <<session, applied, contended>>
         /\ \A p \in ProposalId : InHand(p)' = InHand(p)
         /\ \A p \in ProposalId : status[p] # "none" => status'[p] = status[p]
         /\ \A p \in ProposalId : status[p] = "none" => status'[p] \in {"none", "PENDING"}
  <1> USE DEF queue, sweeps, session
  <1>1. ASSUME NEW v \in Reviews, Sweeping(v)
        PROVE  /\ UNCHANGED <<session, applied, contended>>
               /\ \A p \in ProposalId : status[p] # "none" => status'[p] = status[p]
               /\ \A p \in ProposalId : status[p] = "none" => status'[p] \in {"none", "PENDING"}
    <2>1. ASSUME NEW p \in ProposalId PROVE status'[p] \in {status[p], "PENDING"}
      BY <1>1 DEF Sweeping, Begin, Review, Publish, SweepFails
    <2> QED BY <1>1, <2>1, SweepMoves
  <1>2. ASSUME \/ \E p \in ProposalId : RejectionAges(p)
               \/ \E r \in RowId : EditRow(r)
               \/ UNCHANGED vars
        PROVE  UNCHANGED <<session, status, applied, contended>>
    BY <1>2 DEF RejectionAges, EditRow, vars
  <1>3. /\ UNCHANGED <<session, applied, contended>>
        /\ \A p \in ProposalId : status[p] # "none" => status'[p] = status[p]
        /\ \A p \in ProposalId : status[p] = "none" => status'[p] \in {"none", "PENDING"}
    <2>1. CASE \E v \in Reviews : Sweeping(v)  BY <2>1, <1>1
    <2>2. CASE ~(\E v \in Reviews : Sweeping(v))  BY <2>2, <1>2 DEF Next
    <2> QED BY <2>1, <2>2
  <1> QED BY <1>3 DEF InHand

\* The hands stay apart.
LEMMA HandsStep == ShapeInv /\ HandsInv /\ [Next]_vars => HandsInv'
  <1> SUFFICES ASSUME ShapeInv, HandsInv, [Next]_vars PROVE HandsInv'
    OBVIOUS
  <1>1. TypeOK  BY DEF ShapeInv
  <1>2. ASSUME NEW q \in Requests, Answering(q) PROVE HandsInv'
    <2>1. pc'[q] # "rivals" => todo'[q] = {} /\ held'[q] = {}
      <3>1. CASE EndSession(q)  BY <1>1, <3>1 DEF EndSession, TypeOK
      <3>2. CASE \E p \in ProposalId, answer \in {"approving", "rejecting"} : Load(q, p, answer)
        BY <1>1, <3>2 DEF Load, HandsInv, TypeOK
      <3>3. CASE WriteRow(q)  BY <1>1, <3>3 DEF WriteRow, HandsInv, TypeOK
      <3>4. CASE FindRivals(q)  BY <1>1, <3>4 DEF FindRivals, TypeOK
      <3>5. CASE \E p \in ProposalId : RejectRival(q, p)  BY <1>1, <3>5 DEF RejectRival, TypeOK
      <3> QED BY <1>2, <3>1, <3>2, <3>3, <3>4, <3>5
              DEF Answering, Reject, ApproveAdd, Approve, RequestFails
    <2>2. \A r \in Requests : pc'[r] # "rivals" => todo'[r] = {} /\ held'[r] = {}
      BY <1>2, <2>1, AnswerMoves DEF HandsInv
    <2>3. ASSUME NEW p \in ProposalId, p \notin contended', NEW r \in InHand(p)'
          PROVE  status'[p] = "PENDING" /\ \A o \in InHand(p)' : r = o
      <3>1. /\ p \notin contended
            /\ \A o \in Requests \ {q} : o \in InHand(p)' <=> o \in InHand(p)
            /\ q \in InHand(p)' /\ q \notin InHand(p) => status[p] = "PENDING" /\ InHand(p) = {}
            /\ status'[p] = status[p] \/ (q \in InHand(p) /\ q \notin InHand(p)')
        BY <1>2, <2>3, Settles DEF Leaves
      <3>2. \A o \in InHand(p) : status[p] = "PENDING" /\ \A s \in InHand(p) : o = s
        BY <3>1 DEF HandsInv
      <3>3. InHand(p)' \subseteq Requests  BY DEF InHand
      <3> QED BY <2>3, <3>1, <3>2, <3>3
    <2> QED BY <2>2, <2>3 DEF HandsInv
  <1>3. CASE \A q \in Requests : ~Answering(q)
    BY <1>3, HandsKept DEF HandsInv, session
  <1> QED BY <1>2, <1>3

\* What is in no request's hand any more stays as it was decided.
LEMMA AppliedStep ==
  ShapeInv /\ HandsInv /\ AppliedIffApproved /\ [Next]_vars => AppliedIffApproved'
  <1> SUFFICES ASSUME ShapeInv, HandsInv, AppliedIffApproved, [Next]_vars,
                      NEW p \in ProposalId, p \notin contended'
               PROVE  /\ \A q, r \in Requests :
                           <<q, p>> \in applied' /\ <<r, p>> \in applied' => q = r
                      /\ status'[p] = "APPROVED" <=> \E q \in Requests : <<q, p>> \in applied'
    BY DEF AppliedIffApproved
  <1>1. ASSUME p \notin contended
        PROVE  /\ \A q, r \in Requests : <<q, p>> \in applied /\ <<r, p>> \in applied => q = r
               /\ status[p] = "APPROVED" <=> \E q \in Requests : <<q, p>> \in applied
    BY <1>1 DEF AppliedIffApproved
  <1>2. ASSUME NEW q \in Requests, Answering(q)
        PROVE  /\ \A o, r \in Requests :
                    <<o, p>> \in applied' /\ <<r, p>> \in applied' => o = r
               /\ status'[p] = "APPROVED" <=> \E o \in Requests : <<o, p>> \in applied'
    <2>1. p \notin contended  BY <1>2, Settles
    <2>2. CASE Leaves(p)  BY <1>1, <2>1, <2>2 DEF Leaves
    <2>3. CASE q \in InHand(p) /\ (Approves(q, p) \/ Declines(p))
      <3>1. status[p] = "PENDING"  BY <2>1, <2>3 DEF HandsInv
      <3>2. \A r \in Requests : <<r, p>> \notin applied  BY <1>1, <2>1, <3>1
      <3> QED BY <2>3, <3>2 DEF Approves, Declines
    <2> QED BY <1>2, <2>2, <2>3, Settles
  <1>3. CASE \A q \in Requests : ~Answering(q)
    <2>1. contended' = contended /\ applied' = applied  BY <1>3, HandsKept
    <2>2. status'[p] = "APPROVED" <=> status[p] = "APPROVED"  BY <1>3, HandsKept
    <2> QED BY <1>1, <2>1, <2>2
  <1> QED BY <1>2, <1>3

\* An approved proposal was applied, once, and no other was: for any number of
\* requests that answer the queue at once and fail half way, unless two had the
\* same proposal in hand (proposal_service.py:104-153, 210-213).
THEOREM AppliedOnce == Spec => []AppliedIffApproved
  <1>1. Init => HandsInv /\ AppliedIffApproved
    BY DEF Init, HandsInv, AppliedIffApproved, InHand, Deciding
  <1> QED BY <1>1, ShapeInit, ShapeStep, HandsStep, AppliedStep, PTL DEF Spec

-----------------------------------------------------------------------------
(***************************************************************************)
(* Approving an update rejects its rivals.                                 *)
(***************************************************************************)
\* Only the proposal a request answers is approved by it, and with an update go
\* the rivals the request has rejected (proposal_service.py:128-153).
LEMMA ApprovesOwn ==
  ASSUME ShapeInv, HandsInv, NEW q \in Requests, Answering(q), NEW x \in ProposalId,
         status[x] # "APPROVED", status'[x] = "APPROVED"
  PROVE  /\ x = of[q]
         /\ asked[x].type = "UPDATE" =>
              /\ pc[q] = "rivals" /\ todo[q] = {}
              /\ \A p \in held[q] : p # x => status'[p] = "REJECTED"
  <1>1. TypeOK  BY DEF ShapeInv
  <1>2. CASE Reject(q)  BY <1>1, <1>2 DEF Reject, TypeOK
  <1>3. CASE ApproveAdd(q)  BY <1>1, <1>3 DEF ApproveAdd, TypeOK
  <1>4. CASE Approve(q)
    <2>1. status' = [p \in ProposalId |-> IF p = of[q] THEN "APPROVED"
                       ELSE IF p \in held[q] THEN "REJECTED" ELSE status[p]]
      BY <1>4 DEF Approve, RivalStatus
    <2>2. x = of[q]  BY <2>1
    <2>3. asked[x].type = "UPDATE" => pc[q] = "rivals" /\ todo[q] = {}  BY <1>4, <2>2 DEF Approve
    <2>4. held[q] \subseteq ProposalId  BY <1>1 DEF TypeOK
    <2> QED BY <2>1, <2>2, <2>3, <2>4
  <1>5. CASE status' = status  BY <1>5
  <1> QED BY <1>2, <1>3, <1>4, <1>5
          DEF Answering, Load, WriteRow, FindRivals, RejectRival, RequestFails, queue

\* Nothing an answer does puts a proposal back in the queue.
LEMMA NotReopened ==
  ASSUME ShapeInv, HandsInv, NEW q \in Requests, Answering(q), NEW p \in ProposalId
  PROVE  status'[p] = "PENDING" => status[p] = "PENDING"
  BY Settles DEF Leaves, Approves, Declines

\* Rivals stay exclusive.
LEMMA RivalsStep == ShapeInv /\ HandsInv /\ RivalsInv /\ [Next]_vars => RivalsInv'
  <1> SUFFICES ASSUME ShapeInv, HandsInv, RivalsInv, [Next]_vars PROVE RivalsInv'
    OBVIOUS
  <1> USE DEF queue, sweeps, session
  <1>1. TypeOK  BY DEF ShapeInv
  <1>2. ASSUME NEW q \in Requests, Answering(q) PROVE RivalsInv'
    <2>1. \A p, x \in ProposalId : Rival(p, x)' <=> Rival(p, x)  BY <1>2, AnswerMoves DEF Rival
    <2>2. ASSUME NEW p \in ProposalId, NEW x \in ProposalId, Rival(p, x),
                 status'[x] = "APPROVED", status'[p] = "PENDING"
          PROVE  FALSE
      <3>1. status[p] = "PENDING"  BY <1>2, <2>2, NotReopened
      <3>2. status[x] # "APPROVED"  BY <2>2, <3>1 DEF RivalsInv
      <3>3. x = of[q] /\ pc[q] = "rivals" /\ todo[q] = {}
            /\ \A y \in held[q] : y # x => status'[y] = "REJECTED"
        BY <1>2, <2>2, <3>2, ApprovesOwn DEF Rival
      <3>4. p \in held[q]  BY <2>2, <3>1, <3>3 DEF RivalsInv
      <3>5. p # x  BY <2>2 DEF Rival
      <3> QED BY <2>2, <3>3, <3>4, <3>5
    <2>3. ASSUME pc'[q] = "rivals", NEW p \in ProposalId, Rival(p, of'[q]),
                 status'[p] = "PENDING"
          PROVE  p \in todo'[q] \union held'[q]
      <3>1. status[p] = "PENDING"  BY <1>2, <2>3, NotReopened
      <3>2. CASE FindRivals(q)
        <4>1. of' = of /\ todo'[q] = Rivals(q)  BY <1>1, <3>2 DEF FindRivals, TypeOK
        <4>2. p \in Rivals(q)  BY <2>3, <3>1, <4>1 DEF Rivals, Rival, Target
        <4> QED BY <4>1, <4>2
      <3>3. CASE \E x \in ProposalId : RejectRival(q, x)
        BY <1>1, <2>3, <3>1, <3>3 DEF RejectRival, RivalsInv, TypeOK
      <3>4. ASSUME NEW x \in ProposalId, NEW answer \in {"approving", "rejecting"},
                   Load(q, x, answer)
            PROVE  FALSE
        BY <1>1, <2>3, <3>4 DEF Load, TypeOK
      <3>5. CASE WriteRow(q)  BY <1>1, <2>3, <3>5 DEF WriteRow, TypeOK
      <3>6. CASE EndSession(q)  BY <1>1, <2>3, <3>6 DEF EndSession, TypeOK
      <3> QED BY <1>2, <3>2, <3>3, <3>4, <3>5, <3>6
              DEF Answering, Reject, ApproveAdd, Approve, RequestFails
    <2>4. ASSUME NEW r \in Requests, pc'[r] = "rivals", NEW p \in ProposalId,
                 Rival(p, of[r])', status'[p] = "PENDING"
          PROVE  p \in todo'[r] \union held'[r]
      <3>1. Rival(p, of'[r])  BY <1>2, <2>4, AnswerMoves DEF Rival
      <3>2. status[p] = "PENDING"  BY <1>2, <2>4, NotReopened
      <3>3. CASE r = q  BY <2>3, <2>4, <3>1, <3>3
      <3>4. CASE r # q  BY <1>2, <2>4, <3>1, <3>2, <3>4, AnswerMoves DEF RivalsInv
      <3> QED BY <3>3, <3>4
    <2> QED BY <2>1, <2>2, <2>4 DEF RivalsInv
  <1>3. ASSUME NEW v \in Reviews, Sweeping(v) PROVE RivalsInv'
    <2>1. /\ \A p \in ProposalId : p[1] # v \/ ~Publish(v) =>
               asked'[p] = asked[p] /\ status'[p] = status[p]
          /\ UNCHANGED session
          /\ \A p \in ProposalId : status[p] # "none" => asked'[p] = asked[p] /\ status'[p] = status[p]
      BY <1>3, SweepMoves
    <2>2. ASSUME NEW p \in ProposalId, NEW x \in ProposalId, Rival(p, x)',
                 p[1] # v \/ ~Publish(v)
          PROVE  Rival(p, x) /\ status'[p] = status[p] /\ status'[x] = status[x]
      BY <2>1, <2>2 DEF Rival
    <2>3. ASSUME NEW p \in ProposalId, Publish(v), p[1] = v
          PROVE  status[p] = "none" /\ status'[p] # "APPROVED"
      <3>1. status[p] = "none"  BY <2>3 DEF Publish, ShapeInv
      <3> QED BY <2>3, <3>1 DEF Publish
    <2>4. ASSUME NEW p \in ProposalId, NEW x \in ProposalId, Rival(p, x)',
                 status'[x] = "APPROVED"
          PROVE  status'[p] # "PENDING"
      <3>1. CASE p[1] # v \/ ~Publish(v)  BY <2>2, <2>4, <3>1 DEF RivalsInv
      <3>2. CASE p[1] = v /\ Publish(v)  BY <2>3, <2>4, <3>2 DEF Rival
      <3> QED BY <3>1, <3>2
    <2>5. ASSUME NEW q \in Requests, pc'[q] = "rivals", NEW p \in ProposalId,
                 Rival(p, of[q])', status'[p] = "PENDING"
          PROVE  p \in todo'[q] \union held'[q]
      <3>1. pc[q] = "rivals" /\ of'[q] = of[q] /\ todo'[q] = todo[q] /\ held'[q] = held[q]
        BY <2>1, <2>5
      <3>2. of[q] \in ProposalId /\ status[of[q]] # "none"  BY <3>1 DEF ShapeInv, Deciding
      <3>3. of[q][1] # v \/ ~Publish(v)  BY <2>3, <3>2
      <3>4. p[1] = of[q][1]  BY <2>5, <3>1 DEF Rival
      <3>5. Rival(p, of[q])'  BY <2>5
      <3>6. asked'[p] = asked[p] /\ asked'[of[q]] = asked[of[q]] /\ status'[p] = status[p]
        BY <2>1, <3>2, <3>3, <3>4
      <3>7. Rival(p, of[q]) /\ status[p] = "PENDING"  BY <2>5, <3>1, <3>5, <3>6 DEF Rival
      <3> QED BY <3>1, <3>7 DEF RivalsInv
    <2> QED BY <2>4, <2>5 DEF RivalsInv
  <1>4. ASSUME \/ \E p \in ProposalId : RejectionAges(p)
               \/ \E r \in RowId : EditRow(r)
               \/ UNCHANGED vars
        PROVE  RivalsInv'
    <2>1. UNCHANGED <<session, status, asked>>  BY <1>4 DEF RejectionAges, EditRow, vars
    <2> QED BY <2>1 DEF RivalsInv, Rival
  <1> QED BY <1>2, <1>3, <1>4 DEF Next

\* Of two rivals no second one is approved while neither was contended.
LEMMA ExclusiveStep ==
  ShapeInv /\ HandsInv /\ RivalsInv /\ RivalsNotBothApproved /\ [Next]_vars
    => RivalsNotBothApproved'
  <1> SUFFICES ASSUME ShapeInv, HandsInv, RivalsInv, RivalsNotBothApproved, [Next]_vars,
                      NEW p \in ProposalId \ contended', NEW x \in ProposalId \ contended',
                      Rival(p, x)', status'[p] = "APPROVED", status'[x] = "APPROVED"
               PROVE  FALSE
    BY DEF RivalsNotBothApproved, Rival
  <1>1. CASE status[p] = "none" \/ status[x] = "none"
    <2>1. \A y \in ProposalId : status[y] = "none" => status'[y] # "APPROVED"
      <3>1. CASE \E q \in Requests : Answering(q)  BY <3>1, AnswerMoves
      <3>2. CASE \A q \in Requests : ~Answering(q)  BY <3>2, HandsKept
      <3> QED BY <3>1, <3>2
    <2> QED BY <1>1, <2>1
  <1>2. CASE status[p] # "none" /\ status[x] # "none"
    <2>1. asked'[p] = asked[p] /\ asked'[x] = asked[x]
      <3>1. CASE \E q \in Requests : Answering(q)  BY <3>1, AnswerMoves
      <3>2. CASE \E v \in Reviews : Sweeping(v)  BY <1>2, <3>2, SweepMoves
      <3>3. CASE (\E y \in ProposalId : RejectionAges(y)) \/ (\E r \in RowId : EditRow(r))
                 \/ UNCHANGED vars
        BY <3>3 DEF RejectionAges, EditRow, vars, queue
      <3> QED BY <3>1, <3>2, <3>3 DEF Next
    <2>2. Rival(p, x) /\ Rival(x, p)  BY <2>1 DEF Rival
    <2>3. CASE \A q \in Requests : ~Answering(q)
      <3>1. status[p] = "APPROVED" /\ status[x] = "APPROVED" /\ contended' = contended
        BY <1>2, <2>3, HandsKept
      <3> QED BY <2>2, <3>1 DEF RivalsNotBothApproved, Rival
    <2>4. ASSUME NEW q \in Requests, Answering(q) PROVE FALSE
      <3>1. contended \subseteq contended'  BY <2>4, Settles
      <3>2. ASSUME NEW y \in {p, x}, status[y] # "APPROVED"
            PROVE  status[y] = "PENDING" /\ y = of[q]
        <4>1. q \in InHand(y)  BY <2>4, <3>2, Settles DEF Leaves
        <4>2. y \in ProposalId \ contended  BY <3>1
        <4>3. y = of[q]  BY <2>4, <3>2, ApprovesOwn
        <4> QED BY <4>1, <4>2, <4>3 DEF HandsInv
      <3>3. p # x  BY <2>2 DEF Rival
      <3>4. CASE status[p] = "APPROVED" /\ status[x] = "APPROVED"
        BY <2>2, <3>1, <3>4 DEF RivalsNotBothApproved, Rival
      <3>5. CASE status[p] = "PENDING" /\ status[x] = "APPROVED"
        BY <2>2, <3>5 DEF RivalsInv
      <3>6. CASE status[p] = "APPROVED" /\ status[x] = "PENDING"
        BY <2>2, <3>6 DEF RivalsInv
      <3> QED BY <3>2, <3>3, <3>4, <3>5, <3>6
    <2> QED BY <2>3, <2>4
  <1> QED BY <1>1, <1>2

\* Approving an update turns down the other updates of the row from its sweep, so
\* that the owner never gets both, whichever requests answer them meanwhile, unless
\* two had one of them in hand (quant_proposal_repository.py:101-107).
THEOREM RivalsExclusive == Spec => []RivalsNotBothApproved
  <1>1. Init => HandsInv /\ RivalsInv /\ RivalsNotBothApproved
    BY DEF Init, HandsInv, RivalsInv, RivalsNotBothApproved, InHand, Deciding
  <1> QED BY <1>1, ShapeInit, ShapeStep, HandsStep, RivalsStep, ExclusiveStep, PTL DEF Spec

-----------------------------------------------------------------------------
(***************************************************************************)
(* No suggestion is made twice.                                            *)
(***************************************************************************)
\* Apart from a sweep's commit, no step opens a proposal no requests crossed on.
LEMMA OpenKept ==
  ASSUME ShapeInv, HandsInv, [Next]_vars, \A v \in Reviews : ~Publish(v),
         NEW p \in ProposalId, p \notin contended', Open(p)'
  PROVE  p \notin contended /\ Open(p) /\ asked'[p] = asked[p]
  <1>1. ASSUME NEW q \in Requests, Answering(q)
        PROVE  p \notin contended /\ Open(p) /\ asked'[p] = asked[p]
    <2>1. p \notin contended /\ asked' = asked  BY <1>1, Settles, AnswerMoves
    <2>2. CASE Leaves(p)  BY <2>1, <2>2 DEF Leaves, Open
    <2>3. CASE q \in InHand(p)  BY <2>1, <2>3 DEF HandsInv, Open
    <2> QED BY <1>1, <2>2, <2>3, Settles
  <1>2. ASSUME NEW v \in Reviews, Sweeping(v)
        PROVE  p \notin contended /\ Open(p) /\ asked'[p] = asked[p]
    <2>1. asked'[p] = asked[p] /\ status'[p] = status[p]  BY <1>2, SweepMoves
    <2>2. recent' = recent /\ contended' = contended  BY <1>2, SweepMoves
    <2> QED BY <2>1, <2>2 DEF Open
  <1>3. ASSUME \/ \E y \in ProposalId : RejectionAges(y)
               \/ \E r \in RowId : EditRow(r)
               \/ UNCHANGED vars
        PROVE  p \notin contended /\ Open(p) /\ asked'[p] = asked[p]
    <2>1. contended' = contended /\ status' = status /\ asked' = asked /\ recent' \subseteq recent
      BY <1>3 DEF RejectionAges, EditRow, vars, queue
    <2> QED BY <2>1 DEF Open
  <1> QED BY <1>1, <1>2, <1>3 DEF Next

\* Sweeps that are under way at once are marked (scheduler_service.py:196-214).
LEMMA OverlapsMarked ==
  ASSUME ShapeInv, RepeatsInv, [Next]_vars
  PROVE  /\ overlapped \subseteq overlapped'
         /\ \A v, w \in Reviews :
              v # w /\ sweep'[v] \in {"began", "reviewed"} /\ sweep'[w] \in {"began", "reviewed"} =>
                v \in overlapped'
  <1> USE DEF sweeps
  <1>1. TypeOK  BY DEF ShapeInv
  <1>2. ASSUME NEW b \in Reviews, Begin(b)
        PROVE  /\ overlapped \subseteq overlapped'
               /\ \A v, w \in Reviews :
                    /\ v # w
                    /\ sweep'[v] \in {"began", "reviewed"} /\ sweep'[w] \in {"began", "reviewed"}
                    => v \in overlapped'
    <2> DEFINE others == {w \in Reviews : sweep[w] \in {"began", "reviewed"}}
    <2>1. overlapped' = IF others = {} THEN overlapped ELSE overlapped \union others \union {b}
      BY <1>2 DEF Begin
    <2>2. \A v \in Reviews : sweep'[v] \in {"began", "reviewed"} => v \in others \union {b}
      BY <1>1, <1>2 DEF Begin, TypeOK
    <2> QED BY <2>1, <2>2
  <1>3. ASSUME NEW s \in Reviews, Review(s) \/ Publish(s) \/ SweepFails(s)
        PROVE  /\ overlapped' = overlapped
               /\ \A v \in Reviews :
                    sweep'[v] \in {"began", "reviewed"} => sweep[v] \in {"began", "reviewed"}
    BY <1>1, <1>3 DEF Review, Publish, SweepFails, TypeOK
  <1>4. ASSUME NEW q \in Requests, Answering(q) PROVE sweep' = sweep /\ overlapped' = overlapped
    BY <1>4, AnswerMoves
  <1>5. ASSUME \/ \E y \in ProposalId : RejectionAges(y)
               \/ \E r \in RowId : EditRow(r)
               \/ UNCHANGED vars
        PROVE  sweep' = sweep /\ overlapped' = overlapped
    BY <1>5 DEF RejectionAges, EditRow, vars
  <1> QED BY <1>2, <1>3, <1>4, <1>5 DEF Next, Sweeping, RepeatsInv

\* What a sweep is about to queue stays new.
LEMMA RepeatsStep == ShapeInv /\ HandsInv /\ RepeatsInv /\ [Next]_vars => RepeatsInv'
  <1> SUFFICES ASSUME ShapeInv, HandsInv, RepeatsInv, [Next]_vars,
                      NEW v \in Reviews, v \notin overlapped', sweep'[v] = "reviewed",
                      NEW i \in DOMAIN draft'[v],
                      NEW p \in ProposalId, p \notin contended',
                      p[1] # v, p[1] \notin overlapped', Open(p)'
               PROVE  asked'[p] # draft'[v][i]
    BY OverlapsMarked DEF RepeatsInv
  <1> USE DEF queue, sweeps, session
  <1>1. TypeOK /\ v \notin overlapped /\ p[1] \notin overlapped  BY OverlapsMarked DEF ShapeInv
  <1>2. ASSUME NEW w \in Reviews, Publish(w) PROVE FALSE
    <2>1. w # v /\ sweep[w] = "reviewed" /\ sweep[v] = "reviewed"
      BY <1>1, <1>2 DEF Publish, TypeOK
    <2> QED BY <1>1, <2>1 DEF RepeatsInv
  <1>3. p \notin contended /\ Open(p) /\ asked'[p] = asked[p]  BY <1>2, OpenKept
  <1>4. CASE Review(v)
    <2>1. PICK n \in 0..MaxSuggestions :
            \E made \in [1..n -> {a \in Ask \ Known : Fits(a, saw[v])}] :
              draft' = [draft EXCEPT ![v] = made]
      BY <1>4 DEF Review
    <2>2. PICK made \in [1..n -> {a \in Ask \ Known : Fits(a, saw[v])}] :
            draft' = [draft EXCEPT ![v] = made]
      BY <2>1
    <2>3. draft'[v] = made  BY <1>1, <2>2 DEF TypeOK
    <2>4. draft'[v][i] \notin Known  BY <2>2, <2>3
    <2>5. asked[p] \in Known  BY <1>3 DEF Known, Open
    <2> QED BY <1>3, <2>4, <2>5
  <1>5. CASE sweep[v] = "reviewed" /\ draft'[v] = draft[v]
    BY <1>1, <1>3, <1>5 DEF RepeatsInv
  <1>6. ASSUME NEW w \in Reviews, Begin(w) \/ SweepFails(w) \/ (Review(w) /\ w # v)
        PROVE  sweep[v] = "reviewed" /\ draft'[v] = draft[v]
    BY <1>1, <1>6 DEF Begin, SweepFails, Review, TypeOK
  <1>7. ASSUME NEW q \in Requests, Answering(q)
        PROVE  sweep[v] = "reviewed" /\ draft'[v] = draft[v]
    BY <1>7, AnswerMoves
  <1>8. ASSUME \/ \E y \in ProposalId : RejectionAges(y)
               \/ \E r \in RowId : EditRow(r)
               \/ UNCHANGED vars
        PROVE  sweep[v] = "reviewed" /\ draft'[v] = draft[v]
    BY <1>8 DEF RejectionAges, EditRow, vars
  <1> QED BY <1>2, <1>4, <1>5, <1>6, <1>7, <1>8 DEF Next, Sweeping

\* The open proposals of sweeps that did not overlap stay different.
LEMMA NoRepeatStep ==
  ShapeInv /\ HandsInv /\ RepeatsInv /\ NoRepeatedSuggestion /\ [Next]_vars
    => NoRepeatedSuggestion'
  <1> SUFFICES ASSUME ShapeInv, HandsInv, RepeatsInv, NoRepeatedSuggestion, [Next]_vars,
                      NEW p \in ProposalId, p \notin contended', Open(p)',
                      NEW x \in ProposalId, x \notin contended', Open(x)',
                      p[1] # x[1], p[1] \notin overlapped', x[1] \notin overlapped'
               PROVE  asked'[p] # asked'[x]
    BY DEF NoRepeatedSuggestion, Open
  <1>1. p[1] \notin overlapped /\ x[1] \notin overlapped  BY OverlapsMarked
  <1>2. ASSUME p \notin contended, x \notin contended, Open(p), Open(x)
        PROVE  asked[p] # asked[x]
    BY <1>1, <1>2 DEF NoRepeatedSuggestion, Open
  <1>3. CASE \A v \in Reviews : ~Publish(v)  BY <1>2, <1>3, OpenKept
  <1>4. ASSUME NEW v \in Reviews, Publish(v) PROVE asked'[p] # asked'[x]
    <2>1. contended' = contended /\ recent' = recent  BY <1>4 DEF Publish
    <2>2. sweep[v] = "reviewed"  BY <1>4 DEF Publish
    <2>3. ASSUME NEW y \in ProposalId, Open(y)', y[1] # v
          PROVE  asked'[y] = asked[y] /\ Open(y)
      <3>1. asked'[y] = asked[y] /\ status'[y] = status[y]
        BY <1>4, <2>3, SweepMoves DEF Sweeping
      <3> QED BY <2>1, <2>3, <3>1 DEF Open
    <2>4. ASSUME NEW y \in ProposalId, Open(y)', y[1] = v
          PROVE  y[2] \in DOMAIN draft[v] /\ asked'[y] = draft[v][y[2]]
      <3>1. status[y] = "none"  BY <2>2, <2>4 DEF ShapeInv
      <3> QED BY <1>4, <2>4, <3>1 DEF Publish, Open
    <2>5. CASE p[1] # v /\ x[1] # v  BY <1>2, <2>1, <2>3, <2>5
    <2>6. CASE p[1] = v  BY <1>1, <2>1, <2>2, <2>3, <2>4, <2>6 DEF RepeatsInv
    <2>7. CASE x[1] = v  BY <1>1, <2>1, <2>2, <2>3, <2>4, <2>7 DEF RepeatsInv
    <2> QED BY <2>5, <2>6, <2>7
  <1> QED BY <1>3, <1>4

\* The owner is not shown a suggestion that is pending, or that was turned down not
\* long ago, again by a sweep that ran alone, whatever the reviewer answers and
\* however the requests interleave (proposal_generator.py:42-45, 153-160, 283-308).
THEOREM NoRepeats == Spec => []NoRepeatedSuggestion
  <1>1. Init => HandsInv /\ RepeatsInv /\ NoRepeatedSuggestion
    BY DEF Init, HandsInv, RepeatsInv, NoRepeatedSuggestion, InHand, Deciding
  <1> QED BY <1>1, ShapeInit, ShapeStep, HandsStep, RepeatsStep, NoRepeatStep, PTL DEF Spec

-----------------------------------------------------------------------------
(***************************************************************************)
(* The queue as the owner sees it.                                         *)
(***************************************************************************)
\* Only queued proposals are crossed on, and what an approving request has taken
\* are updates of the row that its own proposal is about.
TakenInv ==
  /\ \A p \in contended : status[p] # "none"
  /\ \A q \in Requests : pc[q] = "rivals" =>
       /\ asked[of[q]].type = "UPDATE"
       /\ \A p \in todo[q] \union held[q] :
            p # of[q] /\ asked[p].type = "UPDATE" /\ asked[p].target = asked[of[q]].target

\* Where proposal p stands, by the promise.
Stands(p) == IF p \in contended THEN "CROSSED" ELSE status[p]

\* What is queued keeps what it asks.
LEMMA AskedStays ==
  ASSUME ShapeInv, [Next]_vars, NEW p \in ProposalId, status[p] # "none"
  PROVE  asked'[p] = asked[p] /\ status'[p] # "none"
  <1>1. CASE \E q \in Requests : Answering(q)  BY <1>1, AnswerMoves
  <1>2. CASE \E v \in Reviews : Sweeping(v)  BY <1>2, SweepMoves
  <1>3. CASE (\E y \in ProposalId : RejectionAges(y)) \/ (\E r \in RowId : EditRow(r))
             \/ UNCHANGED vars
    BY <1>3 DEF RejectionAges, EditRow, vars, queue
  <1> QED BY <1>1, <1>2, <1>3 DEF Next

\* A request takes only what it found pending.
LEMMA CrossedArePending ==
  ASSUME ShapeInv, NEW q \in Requests, Answering(q)
  PROVE  /\ contended \subseteq contended'
         /\ \A p \in contended' \ contended : status[p] = "PENDING"
         /\ contended' # contended => status' = status
  <1> USE DEF queue, sweeps, session
  <1>1. CASE \E p \in ProposalId, answer \in {"approving", "rejecting"} : Load(q, p, answer)
    BY <1>1 DEF Load, CheckStatus
  <1>2. CASE FindRivals(q)
    BY <1>2 DEF FindRivals, Rivals
  <1>3. CASE contended' = contended
    BY <1>3
  <1> QED BY <1>1, <1>2, <1>3
          DEF Answering, Reject, ApproveAdd, WriteRow, RejectRival, Approve, RequestFails

\* What is taken stays what it is.
LEMMA TakenStep == ShapeInv /\ HandsInv /\ TakenInv /\ [Next]_vars => TakenInv'
  <1> SUFFICES ASSUME ShapeInv, HandsInv, TakenInv, [Next]_vars PROVE TakenInv'
    OBVIOUS
  <1>1. TypeOK /\ contended \subseteq ProposalId  BY DEF ShapeInv, TypeOK
  <1>2. \A p \in contended' : status'[p] # "none"
    <2>1. CASE \A q \in Requests : ~Answering(q)
      BY <1>1, <2>1, HandsKept, AskedStays DEF TakenInv
    <2>2. ASSUME NEW q \in Requests, Answering(q), NEW p \in contended'
          PROVE  status'[p] # "none"
      <3>1. contended' \subseteq ProposalId  BY ShapeStep DEF ShapeInv, TypeOK
      <3>2. status[p] # "none"  BY <2>2, CrossedArePending DEF TakenInv
      <3> QED BY <3>1, <3>2, AskedStays
    <2> QED BY <2>1, <2>2
  <1>3. ASSUME NEW r \in Requests, pc'[r] = "rivals", pc[r] = "rivals", of'[r] = of[r],
               todo'[r] \union held'[r] \subseteq todo[r] \union held[r]
        PROVE  /\ asked'[of'[r]].type = "UPDATE"
               /\ \A p \in todo'[r] \union held'[r] :
                    /\ p # of'[r] /\ asked'[p].type = "UPDATE"
                    /\ asked'[p].target = asked'[of'[r]].target
    <2>1. of[r] \in ProposalId /\ status[of[r]] # "none"  BY <1>3 DEF ShapeInv, Deciding
    <2>2. asked'[of[r]] = asked[of[r]]  BY <2>1, AskedStays
    <2>3. \A p \in todo[r] \union held[r] : p \in ProposalId /\ status[p] # "none"
      BY <1>1 DEF ShapeInv, TypeOK
    <2>4. \A p \in todo[r] \union held[r] : asked'[p] = asked[p]  BY <2>3, AskedStays
    <2> QED BY <1>3, <2>2, <2>4 DEF TakenInv
  <1>4. ASSUME NEW q \in Requests, Answering(q), pc'[q] = "rivals",
               ~(pc[q] = "rivals" /\ of'[q] = of[q]
                 /\ todo'[q] \union held'[q] \subseteq todo[q] \union held[q])
        PROVE  FindRivals(q)
    <2>1. ASSUME NEW p \in ProposalId, RejectRival(q, p) PROVE FALSE
      BY <1>1, <1>4, <2>1 DEF RejectRival, TypeOK
    <2>2. ASSUME NEW p \in ProposalId, NEW answer \in {"approving", "rejecting"},
                 Load(q, p, answer)
          PROVE  FALSE
      BY <1>1, <1>4, <2>2 DEF Load, TypeOK
    <2>3. CASE WriteRow(q)  BY <1>1, <1>4, <2>3 DEF WriteRow, TypeOK
    <2>4. CASE EndSession(q)  BY <1>1, <1>4, <2>4 DEF EndSession, TypeOK
    <2> QED BY <1>4, <2>1, <2>2, <2>3, <2>4
            DEF Answering, Reject, ApproveAdd, Approve, RequestFails
  <1>5. ASSUME NEW q \in Requests, FindRivals(q)
        PROVE  /\ asked'[of'[q]].type = "UPDATE"
               /\ \A p \in todo'[q] \union held'[q] :
                    /\ p # of'[q] /\ asked'[p].type = "UPDATE"
                    /\ asked'[p].target = asked'[of'[q]].target
    <2>1. /\ todo'[q] = Rivals(q) /\ held'[q] = {} /\ of' = of /\ asked' = asked
          /\ asked[of[q]].type = "UPDATE"
      BY <1>1, <1>5 DEF FindRivals, TypeOK, HandsInv, queue
    <2> QED BY <2>1 DEF Rivals, Target
  <1>6. ASSUME NEW r \in Requests, pc'[r] = "rivals"
        PROVE  /\ asked'[of'[r]].type = "UPDATE"
               /\ \A p \in todo'[r] \union held'[r] :
                    /\ p # of'[r] /\ asked'[p].type = "UPDATE"
                    /\ asked'[p].target = asked'[of'[r]].target
    <2>1. CASE \A q \in Requests : ~Answering(q)
      BY <1>3, <1>6, <2>1, HandsKept DEF session
    <2>2. ASSUME NEW q \in Requests \ {r}, Answering(q)
          PROVE  /\ pc[r] = "rivals" /\ of'[r] = of[r]
                 /\ todo'[r] = todo[r] /\ held'[r] = held[r]
      BY <1>6, <2>2, AnswerMoves
    <2>3. CASE Answering(r)
      BY <1>3, <1>4, <1>5, <1>6, <2>3
    <2> QED BY <1>3, <1>6, <2>1, <2>2, <2>3
  <1> QED BY <1>2, <1>6 DEF TakenInv

\* The promise's own words, said of Stands.
LEMMA Said ==
  /\ \A st : PQ!Standing(st) = {p \in ProposalId : Stands(p) = st}
  /\ \A moved, st :
       (\A p \in ProposalId : Stands(p)' = IF p \in moved THEN st ELSE Stands(p))
       => PQ!Move(moved, st)
  BY DEF Stands, PQ!Standing, PQ!Move

\* A promise's step at most, whichever way a request goes on.
LEMMA AnswersAsPromised ==
  ASSUME ShapeInv, HandsInv, RivalsInv, TakenInv, NEW q \in Requests, Answering(q)
  PROVE  [PQ!Next]_<<asked, [p \in ProposalId |-> Stands(p)]>>
  <1>1. TypeOK  BY DEF ShapeInv
  <1>2. asked' = asked  BY AnswerMoves
  <1>3. CASE contended' # contended
    <2>1. status' = status /\ contended \subseteq contended'
      BY <1>3, CrossedArePending
    <2>2. PICK crossed : crossed = {p \in ProposalId : p \in contended' /\ p \notin contended}
      OBVIOUS
    <2>3. crossed \in SUBSET PQ!Standing("PENDING")
      BY <2>2, Said, CrossedArePending DEF Stands
    <2>4. \A p \in ProposalId : Stands(p)' = IF p \in crossed THEN "CROSSED" ELSE Stands(p)
      BY <2>1, <2>2 DEF Stands
    <2>5. PQ!Cross(crossed)  BY <1>2, <2>4, Said DEF PQ!Cross
    <2> QED BY <2>3, <2>5 DEF PQ!Next
  <1>4. CASE contended' = contended /\ status' = status
    BY <1>2, <1>4 DEF Stands
  <1>5. CASE contended' = contended /\ Reject(q)
    <2>1. of[q] \in ProposalId /\ q \in InHand(of[q])
      BY <1>5 DEF Reject, ShapeInv, InHand, Deciding
    <2>2. \A p \in ProposalId : status'[p] = IF p = of[q] THEN "REJECTED" ELSE status[p]
      BY <1>1, <1>5, <2>1 DEF Reject, TypeOK
    <2>3. CASE of[q] \in contended
      <3>1. \A p \in ProposalId : Stands(p)' = Stands(p)  BY <1>5, <2>2, <2>3 DEF Stands
      <3> QED BY <1>2, <3>1
    <2>4. CASE of[q] \notin contended
      <3>1. Stands(of[q]) = "PENDING"  BY <2>1, <2>4 DEF HandsInv, Stands
      <3>2. PICK p \in ProposalId : p = of[q]  BY <2>1
      <3>3. p \in PQ!Standing("PENDING")  BY <3>1, <3>2, Said
      <3>4. \A x \in ProposalId : Stands(x)' = IF x \in {p} THEN "REJECTED" ELSE Stands(x)
        BY <1>5, <2>2, <2>4, <3>2 DEF Stands
      <3>5. PQ!Move({p}, "REJECTED")  BY <3>4, Said
      <3>6. PQ!Reject(p)  BY <1>2, <3>5 DEF PQ!Reject
      <3> QED BY <3>3, <3>6 DEF PQ!Next
    <2> QED BY <2>3, <2>4
  <1>6. ASSUME contended' = contended, NEW superseded, superseded \subseteq held[q],
               superseded = {p \in held[q] : p \notin contended},
               pc[q] \in Deciding,
               held[q] # {} => pc[q] = "rivals",
               asked[of[q]].type = "UPDATE" => pc[q] = "rivals" /\ todo[q] = {},
               \A p \in ProposalId : status'[p] = IF p = of[q] THEN "APPROVED"
                 ELSE IF p \in held[q] THEN "REJECTED" ELSE status[p]
        PROVE  PQ!Next
    <2>1. of[q] \in ProposalId /\ q \in InHand(of[q])
      BY <1>6 DEF ShapeInv, InHand
    <2>2. Stands(of[q]) \in {"PENDING", "CROSSED"}  BY <2>1 DEF HandsInv, Stands
    <2>3. PICK a \in ProposalId : a = of[q]  BY <2>1
    <2>4. a \in PQ!Standing("PENDING") \union PQ!Standing("CROSSED")
      BY <2>2, <2>3, Said
    <2>5. ASSUME NEW p \in held[q]
          PROVE  /\ p \in ProposalId /\ p # a
                 /\ asked[a].type = "UPDATE" /\ asked[p].type = "UPDATE"
                 /\ asked[p].target = asked[a].target
                 /\ p \notin contended => status[p] = "PENDING"
      <3>1. p \in ProposalId  BY <1>1 DEF TypeOK
      <3>2. q \in InHand(p)  BY <1>6 DEF InHand
      <3> QED BY <1>6, <2>3, <3>1, <3>2 DEF TakenInv, HandsInv
    <2>6. superseded \in SUBSET PQ!Rivals(a)
      BY <1>6, <2>5, Said DEF PQ!Rivals, Stands
    <2>7. ASSUME NEW x \in PQ!Rivals(a), x[1] = a[1] PROVE x \in superseded
      <3>1. /\ x \in ProposalId /\ x # a /\ Stands(x) = "PENDING"
            /\ asked[a].type = "UPDATE" /\ asked[x].type = "UPDATE"
            /\ asked[a].target = asked[x].target
        BY <2>7, Said DEF PQ!Rivals
      <3>2. x \notin contended /\ status[x] = "PENDING"  BY <3>1 DEF Stands
      <3>3. Rival(x, of[q])  BY <2>3, <2>7, <3>1 DEF Rival
      <3>4. x \in todo[q] \union held[q]  BY <1>6, <2>3, <3>1, <3>2, <3>3 DEF RivalsInv
      <3> QED BY <1>6, <2>3, <3>1, <3>2, <3>4
    <2>8. \A p \in ProposalId :
            Stands(p)' = IF p = a /\ Stands(a) = "PENDING" THEN "APPROVED"
                         ELSE IF p \in superseded THEN "REJECTED" ELSE Stands(p)
      <3>1. ASSUME NEW p \in ProposalId, p \in contended
            PROVE  Stands(p)' = Stands(p) /\ Stands(p) = "CROSSED" /\ p \notin superseded
        BY <1>6, <3>1 DEF Stands
      <3>2. ASSUME NEW p \in ProposalId, p \notin contended
            PROVE  Stands(p)' = status'[p] /\ Stands(p) = status[p]
                   /\ (p \in superseded <=> p \in held[q])
        BY <1>6, <3>2 DEF Stands
      <3>3. a \notin contended => Stands(a) = "PENDING"
        BY <2>1, <2>3 DEF HandsInv, Stands
      <3> QED BY <1>6, <2>3, <3>1, <3>2, <3>3
    <2>9. {x \in PQ!Rivals(a) : [p \in ProposalId |-> p[1]][x] = [p \in ProposalId |-> p[1]][a]}
            \subseteq superseded
      <3>1. PQ!Rivals(a) \subseteq ProposalId  BY Said DEF PQ!Rivals
      <3> QED BY <2>7, <3>1
    <2>10. PQ!Approve(a, superseded)
      BY <1>2, <2>8, <2>9 DEF PQ!Approve, Stands
    <2> QED BY <2>4, <2>6, <2>10 DEF PQ!Next
  <1>7. CASE contended' = contended /\ ApproveAdd(q)
    <2>1. pc[q] = "approving" /\ held[q] = {} /\ asked[of[q]].type = "ADD"
      BY <1>7 DEF ApproveAdd, HandsInv
    <2>2. \A p \in ProposalId : status'[p] = IF p = of[q] THEN "APPROVED" ELSE status[p]
      BY <1>1, <1>7 DEF ApproveAdd, TypeOK
    <2> QED BY <1>6, <1>7, <2>1, <2>2 DEF Deciding
  <1>8. CASE contended' = contended /\ Approve(q)
    <2>1. \A p \in ProposalId : status'[p] = IF p = of[q] THEN "APPROVED"
            ELSE IF p \in held[q] THEN "REJECTED" ELSE status[p]
      BY <1>8 DEF Approve, RivalStatus
    <2>2. /\ pc[q] \in {"written", "rivals"}
          /\ asked[of[q]].type = "UPDATE" => pc[q] = "rivals" /\ todo[q] = {}
      BY <1>8 DEF Approve
    <2>3. held[q] # {} => pc[q] = "rivals"  BY DEF HandsInv
    <2> QED BY <1>6, <1>8, <2>1, <2>2, <2>3 DEF Deciding
  <1> QED BY <1>3, <1>4, <1>5, <1>7, <1>8
          DEF Answering, Load, WriteRow, FindRivals, RejectRival, RequestFails, queue

\* Every step of the lifecycle is one the promise allows, or none.
LEMMA QueueStep ==
  ASSUME ShapeInv, HandsInv, RivalsInv, TakenInv, [Next]_vars
  PROVE  [PQ!Next]_<<asked, [p \in ProposalId |-> Stands(p)]>>
  <1>1. CASE \E q \in Requests : Answering(q)  BY <1>1, AnswersAsPromised
  <1>2. ASSUME NEW v \in Reviews, Publish(v) PROVE PQ!Next
    <2>1. PICK new : new = {p \in ProposalId : p[1] = v /\ p[2] \in DOMAIN draft[v]}
      OBVIOUS
    <2>2. /\ asked' = [p \in ProposalId |-> IF p \in new THEN draft[v][p[2]] ELSE asked[p]]
          /\ status' = [p \in ProposalId |-> IF p \in new THEN "PENDING" ELSE status[p]]
          /\ contended' = contended
      BY <1>2, <2>1 DEF Publish
    <2>3. ASSUME NEW p \in new
          PROVE  /\ status[p] = "none" /\ p \notin contended
                 /\ draft[v][p[2]] \in Ask
      BY <1>2, <2>1, <2>3 DEF Publish, ShapeInv, TakenInv, Sound
    <2>4. new \in SUBSET PQ!Standing("none")  BY <2>1, <2>3, Said DEF Stands
    <2>5. \A p \in ProposalId : Stands(p)' = IF p \in new THEN "PENDING" ELSE Stands(p)
      BY <2>2, <2>3 DEF Stands
    <2>6. \A p \in ProposalId : IF p \in new THEN asked'[p] \in Ask ELSE asked'[p] = asked[p]
      BY <2>2, <2>3
    <2>7. PQ!Queue(new)  BY <2>5, <2>6, Said DEF PQ!Queue
    <2> QED BY <2>4, <2>7 DEF PQ!Next
  <1>3. ASSUME NEW v \in Reviews, Sweeping(v), ~Publish(v)
        PROVE  UNCHANGED <<asked, status, contended>>
    BY <1>3 DEF Sweeping, Begin, Review, SweepFails, queue
  <1>4. ASSUME \/ \E p \in ProposalId : RejectionAges(p)
               \/ \E r \in RowId : EditRow(r)
               \/ UNCHANGED vars
        PROVE  UNCHANGED <<asked, status, contended>>
    BY <1>4 DEF RejectionAges, EditRow, vars, queue
  <1>5. CASE UNCHANGED <<asked, status, contended>>
    BY <1>5 DEF Stands
  <1> QED BY <1>1, <1>2, <1>3, <1>4, <1>5 DEF Next

\* To the owner every proposal is answered once and for good, and the rivals of
\* an approved update go with it, although sessions that may fail half way and
\* wait for each other do the work (proposal_service.py:104-213).
THEOREM LifecycleKeepsPromise == Spec => ImplementsQueue
  <1>1. Init => HandsInv /\ RivalsInv /\ TakenInv
    BY DEF Init, HandsInv, RivalsInv, TakenInv, InHand, Deciding
  <1>2. Init => PQ!Init
    BY DEF Init, PQ!Init
  <1>3. ShapeInv /\ HandsInv /\ RivalsInv /\ TakenInv /\ [Next]_vars =>
          [PQ!Next]_<<asked, [p \in ProposalId |->
                                IF p \in contended THEN "CROSSED" ELSE status[p]]>>
    BY QueueStep DEF Stands
  <1> QED BY <1>1, <1>2, <1>3, ShapeInit, ShapeStep, HandsStep, RivalsStep, TakenStep, PTL
          DEF Spec, ImplementsQueue, PQ!Spec
=============================================================================
