--------------------------- MODULE ProposalQueue ---------------------------
(***************************************************************************)
(* What the proposal service promises the owner: proposals arrive pending, *)
(* with what they ask; each is answered once and for good; and approving   *)
(* an update rejects, in that same moment, pending updates of the same row *)
(* and nothing else, all those included that were suggested along with it  *)
(* (proposal_service.py:104-213).  The promise ends for a proposal on      *)
(* which two requests have crossed.                                        *)
(***************************************************************************)
CONSTANTS Proposals, Asks, NoAsk,
          Batch       \* the review each proposal comes from

VARIABLES asked,      \* what each proposal asks
          standing    \* its status, or "CROSSED"

Init == /\ asked = [p \in Proposals |-> NoAsk]
        /\ standing = [p \in Proposals |-> "none"]

Standing(s) == {p \in Proposals : standing[p] = s}

\* Proposals move to s.
Move(moved, s) ==
  standing' = [p \in Proposals |-> IF p \in moved THEN s ELSE standing[p]]

Queue(new) ==
  /\ Move(new, "PENDING")
  /\ \A p \in Proposals : IF p \in new THEN asked'[p] \in Asks ELSE asked'[p] = asked[p]

Cross(crossed) == Move(crossed, "CROSSED") /\ UNCHANGED asked

Reject(p) == Move({p}, "REJECTED") /\ UNCHANGED asked

Rivals(p) == {x \in Standing("PENDING") \ {p} :
                /\ asked[p].type = "UPDATE" /\ asked[x].type = "UPDATE"
                /\ asked[p].target = asked[x].target}

Approve(p, superseded) ==
  /\ {x \in Rivals(p) : Batch[x] = Batch[p]} \subseteq superseded
  /\ standing' = [x \in Proposals |-> IF x = p /\ standing[p] = "PENDING" THEN "APPROVED"
                                      ELSE IF x \in superseded THEN "REJECTED"
                                      ELSE standing[x]]
  /\ UNCHANGED asked

Next == \/ \E new \in SUBSET Standing("none") : Queue(new)
        \/ \E crossed \in SUBSET Standing("PENDING") : Cross(crossed)
        \/ \E p \in Standing("PENDING") : Reject(p)
        \/ \E p \in Standing("PENDING") \union Standing("CROSSED") :
             \E superseded \in SUBSET Rivals(p) : Approve(p, superseded)

Spec == Init /\ [][Next]_<<asked, standing>>
=============================================================================
