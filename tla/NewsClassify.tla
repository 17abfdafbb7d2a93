---------------------------- MODULE NewsClassify ----------------------------
(***************************************************************************)
(* From the news sources to the trail of one catalyst: a sweep fetches     *)
(* what the sources list (pipeline/news.py), drops what some trail of the  *)
(* thesis already holds, lets Pass 1 pair the fresh articles with          *)
(* catalysts chunk by chunk and Pass 2 judge every pair                    *)
(* (pipeline/llm.py), and records the verdicts                             *)
(* (scheduler_service._process_thesis).  The trail is CatalystTrail's, as  *)
(* the sweep's session sees it; `saved' is the committed copy.             *)
(*                                                                         *)
(* An article is named by the instant it was published, so articles are    *)
(* numbers and a copy from a second source is the same article.  What      *)
(* Pass 1 says of unknown catalysts or indices adds no pair and is left    *)
(* out.  Pass 2 and the recording of its verdict are one step: nothing     *)
(* else reads or writes the session in between.  The world moves between   *)
(* two sweeps, since a sweep looks at it once.                             *)
(***************************************************************************)
EXTENDS CatalystTrail, SequencesExt

CONSTANTS
  Sources,       \* the `sources' argument of news.fetch
  Articles,      \* instants of publication
  Bodied,        \* the articles with a body (Article.has_body)
  Answers,       \* what Pass 2 may say of a pair, its body field aside
  Relevant,      \* articles Pass 1 pairs with the catalyst whenever it sees them
  PASS1_CHUNK,   \* articles per Pass 1 call
  MaxPairs,      \* bound of the model: pairs one Pass 1 call names
  MaxFaults      \* bound of the model: failures and misnamed verdicts

ASSUME NewsAssumption == /\ IsFiniteSet(Sources)
                         /\ Articles \subseteq Nat
                         /\ Bodied \subseteq Articles
                         /\ Relevant \subseteq Articles
                         /\ Answers \subseteq Answer
                         /\ PASS1_CHUNK \in Nat \ {0}
                         /\ MaxPairs \in Nat /\ MaxFaults \in Nat

Watched == {"this", "other"}            \* catalyst ids of the thesis
Named   == Watched \union {"unknown"}   \* catalyst ids Pass 2 may answer

VARIABLES
  listed,      \* what each source lists
  since,       \* start of the lookback window
  pc,          \* where the sweep is: "idle", "pass1", "pass2", "commit"
  fresh,       \* the sweep's fresh articles, as classify_batch gets them
  shown,       \* how many of them Pass 1 has seen
  pairs,       \* (article, catalyst) pairs Pass 2 has still to judge
  about,       \* the article of each entry of `evidence'
  others,      \* articles on the evidence of the thesis's other catalysts
  saved,       \* the committed state, evidence, about and others
  faults,      \* bookkeeping: faults so far
  shuffled,    \* bookkeeping: articles this sweep's Pass 1 named after a newer one
  heldUp       \* bookkeeping: articles that had a reason to come after a newer one

world   == <<listed, since>>
session == <<state, evidence, about, others>>
newsvars == <<vars, listed, since, pc, fresh, shown, pairs, about, others,
              saved, faults, shuffled, heldUp>>

\* The session, the sweep's progress and the committed copy stay in their types.
NewsTypeOK ==
  /\ TypeOK
  /\ listed \in [Sources -> SUBSET Articles]
  /\ since \in Nat
  /\ pc \in {"idle", "pass1", "pass2", "commit"}
  /\ fresh \in Seq(Articles) /\ IsInjective(fresh)
  /\ shown \in 0..Len(fresh)
  /\ pairs \in Seq(ToSet(fresh) \X Watched)
  /\ about \in Seq(Articles) /\ Len(about) = Len(evidence)
  /\ others \subseteq Articles
  /\ faults \in 0..MaxFaults

NewsInit ==
  /\ Init
  /\ listed = [s \in Sources |-> {}] /\ since = 0
  /\ pc = "idle" /\ fresh = <<>> /\ shown = 0 /\ pairs = <<>>
  /\ about = <<>> /\ others = {}
  /\ saved = [state |-> state, evidence |-> <<>>, about |-> <<>>, others |-> {}]
  /\ faults = 0 /\ shuffled = {} /\ heldUp = {}

-----------------------------------------------------------------------------
(***************************************************************************)
(* The world                                                               *)
(***************************************************************************)
\* A source lists an article, possibly after newer ones.
List(s, a) ==
  /\ pc = "idle" /\ a \notin listed[s]
  /\ listed' = [listed EXCEPT ![s] = @ \union {a}]
  /\ heldUp' = IF \E t \in Sources, b \in Articles : b > a /\ b \in listed[t]
               THEN heldUp \union {a} ELSE heldUp
  /\ UNCHANGED <<session, since, pc, fresh, shown, pairs, saved, faults, shuffled>>

\* Time passes, and the lookback window leaves an article behind.
Age ==
  /\ pc = "idle" /\ \E a \in Articles : a >= since
  /\ since' = since + 1
  /\ UNCHANGED <<session, listed, pc, fresh, shown, pairs, saved, faults, shuffled, heldUp>>

-----------------------------------------------------------------------------
(***************************************************************************)
(* The sweep                                                               *)
(***************************************************************************)
Fault(n) == faults + n <= MaxFaults /\ faults' = faults + n

Enumerations(S) == {q \in [1..Cardinality(S) -> S] : ToSet(q) = S}

\* Slip: the articles in the order the source lists them, newest first.
ByListing(S) == {q \in Enumerations(S) : \A i, j \in DOMAIN q : i < j => q[i] > q[j]}

\* The articles of S oldest first, in the one order there is.
ByPublication(S) == {q \in Enumerations(S) : \A i, j \in DOMAIN q : i < j => q[i] < q[j]}

\* Slip: everything up to the newest article judged counts as seen.
SeenByDate == {a \in Articles : \E b \in ToSet(about) \union others : a <= b}

\* Articles on the evidence of any catalyst of the thesis.
Seen == ToSet(about) \union others

\* The articles of the lookback window that these sources list.
Window(answering) == {a \in UNION {listed[s] : s \in answering} : a >= since}

\* news.fetch and the dedup across polls.  A source that fails among several
\* is skipped, and what it alone lists comes later; when all fail, or nothing
\* is fresh, the trail stays as it is.
Fetch(answering) ==
  /\ pc = "idle"
  /\ fresh' \in ByPublication(Window(answering) \ Seen)
  /\ fresh' # <<>>
  /\ heldUp' = heldUp \union (Window(Sources) \ Window(answering))
  /\ Fault(IF answering = Sources THEN 0 ELSE 1)
  /\ pc' = "pass1"
  /\ UNCHANGED <<session, world, shown, pairs, saved, shuffled>>

\* Slip: the last chunk is taken to be full.
FullChunk == shown + PASS1_CHUNK

ChunkEnd == IF shown + PASS1_CHUNK < Len(fresh) THEN shown + PASS1_CHUNK ELSE Len(fresh)

\* What one Pass 1 call may yield for a chunk: pairs in any order, even twice.
Pairings(chunk) ==
  {ps \in BoundedSeq(chunk \X Watched, MaxPairs) :
     \A a \in Relevant \intersect chunk : <<a, "this">> \in ToSet(ps)}

\* Pass 1 on the next chunk.
Pass1 ==
  LET chunk == {fresh[i] : i \in DOMAIN fresh \intersect (shown + 1)..ChunkEnd}
  IN  /\ pc = "pass1"
      /\ shown' = ChunkEnd
      /\ \E ps \in Pairings(chunk) :
           /\ pairs' = pairs \o ps
           /\ shuffled' = shuffled \union
                {ps[j][1] : j \in {j \in DOMAIN ps :
                                     \E i \in DOMAIN ps : i < j /\ ps[i][1] > ps[j][1]}}
      /\ pc' = IF shown' < Len(fresh) THEN "pass1"
               ELSE IF pairs' = <<>> THEN "commit" ELSE "pass2"
      /\ UNCHANGED <<session, world, fresh, saved, faults, heldUp>>

\* The verdict of Pass 2 is filed under the catalyst it names, if there is one.
File(a, named, answer) ==
  \/ /\ named = "this"
     /\ RecordVerdict([answer EXCEPT !.body = a \in Bodied])
     /\ about' = Append(about, a)
     /\ others' = others
  \/ /\ named = "other"
     /\ others' = others \union {a}
     /\ UNCHANGED <<vars, about>>
  \/ named = "unknown" /\ UNCHANGED session

\* Pass 2 on the next pair: it fails and the pair is skipped, or it answers.
Pass2 ==
  /\ pc = "pass2"
  /\ \/ Fault(1) /\ UNCHANGED session
     \/ \E named \in Named, answer \in Answers :
          /\ Fault(IF named = Head(pairs)[2] THEN 0 ELSE 1)
          /\ File(Head(pairs)[1], named, answer)
  /\ pairs' = Tail(pairs)
  /\ pc' = IF pairs' = <<>> THEN "commit" ELSE "pass2"
  /\ UNCHANGED <<world, fresh, shown, saved, shuffled, heldUp>>

\* The sweep commits.  A fresh article that got no entry here had a reason to
\* come later: Pass 1 did not pair it, or its Pass 2 failed or named another.
Commit ==
  /\ pc = "commit"
  /\ saved' = [state |-> state, evidence |-> evidence, about |-> about, others |-> others]
  /\ heldUp' = heldUp \union shuffled \union (ToSet(fresh) \ ToSet(about))
  /\ pc' = "idle" /\ fresh' = <<>> /\ shown' = 0 /\ shuffled' = {}
  /\ UNCHANGED <<session, world, pairs, faults>>

\* Pass 1 or the database raises, or the process dies: the session rolls back.
Abort ==
  /\ pc # "idle"
  /\ Fault(1)
  /\ state' = saved.state /\ evidence' = saved.evidence
  /\ about' = saved.about /\ others' = saved.others
  /\ pc' = "idle" /\ fresh' = <<>> /\ shown' = 0 /\ pairs' = <<>> /\ shuffled' = {}
  /\ UNCHANGED <<world, saved, heldUp>>

NewsNext ==
  \/ \E s \in Sources, a \in Articles : List(s, a)
  \/ Age
  \/ \E answering \in SUBSET Sources : Fetch(answering)
  \/ Pass1 \/ Pass2 \/ Commit \/ Abort

\* The loop keeps sweeping, and a sweep that does not fail goes on to its end.
NewsSpec ==
  /\ NewsInit /\ [][NewsNext]_newsvars
  /\ WF_newsvars(\E answering \in SUBSET Sources : Fetch(answering))
  /\ WF_newsvars(Pass1) /\ WF_newsvars(Pass2) /\ WF_newsvars(Commit)

-----------------------------------------------------------------------------
Newest(i) ==
  /\ i \in DOMAIN evidence /\ Decides(evidence[i])
  /\ \A j \in DOMAIN evidence :
       Decides(evidence[j]) => about[j] < about[i] \/ (about[j] = about[i] /\ j <= i)

\* The newest deciding article decides the catalyst ("the final state reflects
\* the LATEST article", news.py:105-109), unless an older one that also
\* decides came after it for a reason: its source listed it late or failed an
\* earlier sweep, that sweep fetched it and got no verdict, or Pass 1 named it
\* after the newer one (llm.py:150-156, whose order nothing restores).
LatestArticleDecides ==
  \A i \in DOMAIN evidence :
    Newest(i) => \/ state = evidence[i].proposed
                 \/ \E j \in DOMAIN evidence :
                      /\ j > i /\ Decides(evidence[j])
                      /\ about[j] \in heldUp \union shuffled

\* An article the classifier holds relevant, once listed, is in the end judged
\* for this catalyst, unless it leaves the window first or a verdict on it for
\* another catalyst takes it out of the fresh ones, as happens when this pair's
\* own Pass 2 failed (scheduler_service.py:234-238, llm.py:116-120).
RelevantNewsIsHeard ==
  \A a \in Relevant :
    (\E s \in Sources : a \in listed[s])
      ~> (a \in ToSet(saved.about) \/ a < since \/ a \in saved.others)
=============================================================================
