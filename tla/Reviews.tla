-------------------------------- MODULE Reviews --------------------------------
(***************************************************************************)
(* The reviews, votes, questions and answers of one product                *)
(* (modules/reviews/service.js).  Rows carry counters that are recomputed  *)
(* in the transaction that changes what they count: votes on a review,     *)
(* published reviews of the product, published answers to a question.  The *)
(* update that recomputes reads the rows committed when it starts, and     *)
(* then may wait for the row it writes.  The average rating is computed    *)
(* with the number of reviews and stands or falls with it.                 *)
(***************************************************************************)
EXTENDS Naturals, FiniteSets

CONSTANTS
    Author,  \* customers, with at most one review of the product each
    Voter,   \* voter hashes
    Answer,  \* answers to one question about the product
    Clerk    \* requests in progress

ASSUME ReviewAssumption ==
    IsFiniteSet(Author) /\ IsFiniteSet(Voter) /\ IsFiniteSet(Answer) /\ Author \cap Answer = {}

VARIABLES
    content,  \* status of each review and answer
    question, \* status of the question
    votes,    \* review_votes
    tally,    \* helpful_count and not_helpful_count of each review
    counts,   \* review_count of the product, answer_count of the question
    clerk,    \* the transaction of each request
    drifted   \* whether the last recount was overtaken before it committed (history)

reviewVars == <<content, question, votes, tally, counts, clerk, drifted>>

\* "hidden" stands for rejected too: nothing but the reason told to the author differs.
Moderated == {"pending", "published", "hidden"}
VoteTypes == {"helpful", "not_helpful"}
Parents == {"product", "question"}
Parent(item) == IF item \in Author THEN "product" ELSE "question"
Items(parent) == IF parent = "product" THEN Author ELSE Answer

NoClerk == [pc |-> "idle", op |-> "vote", item |-> CHOOSE a \in Author : TRUE,
            voter |-> CHOOSE v \in Voter : TRUE, to |-> "none", count |-> 0, late |-> FALSE]

\* for update: the review of a vote or a moderation, the answer of a moderation, the question
\* of a new answer.
RowLocks(c) ==
    IF clerk[c].pc = "idle" THEN {}
    ELSE IF clerk[c].op = "answer" THEN {"question"} ELSE {clerk[c].item}
RowIsFree(row) == \A c \in Clerk : row \notin RowLocks(c)

\* Contents and votes as the transaction of c sees them: what is committed and its own change.
SeenContent(c) ==
    IF clerk[c].op = "vote" THEN content ELSE [content EXCEPT ![clerk[c].item] = clerk[c].to]
SeenVotes(c) == [votes[clerk[c].item] EXCEPT ![clerk[c].voter] = clerk[c].to]

-----------------------------------------------------------------------------
(* Customers *)

\* createReview: on conflict do nothing.
CreateReview(a) ==
    /\ content[a] = "none"
    /\ content' = [content EXCEPT ![a] = "pending"]
    /\ UNCHANGED <<question, votes, tally, counts, clerk, drifted>>

AskQuestion ==
    /\ question = "none"
    /\ question' = "pending"
    /\ UNCHANGED <<content, votes, tally, counts, clerk, drifted>>

-----------------------------------------------------------------------------
(* Transactions that recount *)

Begin(c, row, tx) ==
    /\ clerk[c].pc = "idle"
    /\ RowIsFree(row)
    /\ clerk' = [clerk EXCEPT ![c] = tx]
    /\ UNCHANGED <<content, question, votes, tally, counts, drifted>>

\* Mutant of Vote: the review is read without a lock.
VoteUnlocked(c, a, v, to) ==
    /\ content[a] = "published" /\ votes[a][v] # to
    /\ clerk[c].pc = "idle"
    /\ clerk' = [clerk EXCEPT ![c] =
           [NoClerk EXCEPT !.pc = "open", !.item = a, !.voter = v, !.to = to]]
    /\ UNCHANGED <<content, question, votes, tally, counts, drifted>>

\* voteReview: only a published review; the same vote again changes nothing.
Vote(c, a, v, to) ==
    /\ content[a] = "published" /\ votes[a][v] # to
    /\ Begin(c, a, [NoClerk EXCEPT !.pc = "open", !.item = a, !.voter = v, !.to = to])

\* moderateReview and moderateAnswer, from any status to any.
Moderate(c, item, to) ==
    /\ content[item] # "none"
    /\ Begin(c, item, [NoClerk EXCEPT !.pc = "open", !.op = "moderate", !.item = item, !.to = to])

\* answerQuestion: an answer of the store is published at once, a customer's waits.
AnswerQuestion(c, item, to) ==
    /\ question # "none" /\ content[item] = "none"
    /\ \A d \in Clerk : clerk[d].pc # "idle" => clerk[d].item # item
    /\ Begin(c, "question", [NoClerk EXCEPT !.pc = "open", !.op = "answer", !.item = item, !.to = to])

\* The statement that recounts takes its snapshot.
Recount(c) ==
    LET q == clerk[c]
    IN /\ q.pc = "open"
       /\ clerk' = [clerk EXCEPT ![c].pc = "counted", ![c].count =
              IF q.op = "vote"
              THEN [t \in VoteTypes |-> Cardinality({v \in Voter : SeenVotes(c)[v] = t})]
              ELSE Cardinality({i \in Items(Parent(q.item)) : SeenContent(c)[i] = "published"})]
       /\ UNCHANGED <<content, question, votes, tally, counts, drifted>>

\* It has the row it writes, which no other transaction in progress has locked, and the
\* transaction commits.  Recounts of the same parent that had their snapshot are late now.
Commit(c) ==
    LET q == clerk[c]
        parent == Parent(q.item)
    IN /\ q.pc = "counted"
       /\ q.op = "moderate" /\ parent = "question" => RowIsFree("question")
       /\ IF q.op = "vote"
          THEN /\ votes' = [votes EXCEPT ![q.item] = SeenVotes(c)]
               /\ tally' = [tally EXCEPT ![q.item] = q.count]
               /\ clerk' = [clerk EXCEPT ![c] = NoClerk]
               /\ UNCHANGED <<content, question, counts, drifted>>
          ELSE /\ content' = SeenContent(c)
               /\ counts' = [counts EXCEPT ![parent] = q.count]
               /\ drifted' = [drifted EXCEPT ![parent] = q.late]
               /\ clerk' = [d \in Clerk |->
                      IF d = c THEN NoClerk
                      ELSE IF /\ clerk[d].pc = "counted" /\ clerk[d].op # "vote"
                              /\ Parent(clerk[d].item) = parent
                      THEN [clerk[d] EXCEPT !.late = TRUE] ELSE clerk[d]]
               /\ question' = IF q.op = "answer" /\ q.to = "published" /\ question = "pending"
                              THEN "published" ELSE question
               /\ UNCHANGED <<votes, tally>>

\* moderateQuestion
ModerateQuestion(to) ==
    /\ question # "none" /\ RowIsFree("question")
    /\ question' = to
    /\ UNCHANGED <<content, votes, tally, counts, clerk, drifted>>

-----------------------------------------------------------------------------
ReviewInit ==
    /\ content = [i \in Author \cup Answer |-> "none"]
    /\ question = "none"
    /\ votes = [a \in Author |-> [v \in Voter |-> "none"]]
    /\ tally = [a \in Author |-> [t \in VoteTypes |-> 0]]
    /\ counts = [parent \in Parents |-> 0]
    /\ clerk = [c \in Clerk |-> NoClerk]
    /\ drifted = [parent \in Parents |-> FALSE]

ReviewNext ==
    \/ \E a \in Author : CreateReview(a)
    \/ AskQuestion
    \/ \E to \in Moderated : ModerateQuestion(to)
    \/ \E c \in Clerk :
         \/ \E a \in Author, v \in Voter, to \in VoteTypes : Vote(c, a, v, to)
         \/ \E item \in Author \cup Answer, to \in Moderated : Moderate(c, item, to)
         \/ \E item \in Answer, to \in {"pending", "published"} : AnswerQuestion(c, item, to)
         \/ Recount(c) \/ Commit(c)

ReviewSpec == ReviewInit /\ [][ReviewNext]_reviewVars

-----------------------------------------------------------------------------
(* Properties *)

\* Rows, counters and transactions hold values of their kind.
ReviewTypeOK ==
    /\ content \in [Author \cup Answer -> Moderated \cup {"none"}]
    /\ question \in Moderated \cup {"none"}
    /\ votes \in [Author -> [Voter -> VoteTypes \cup {"none"}]]
    /\ tally \in [Author -> [VoteTypes -> 0..Cardinality(Voter)]]
    /\ counts \in [Parents -> 0..Cardinality(Author \cup Answer)]
    /\ \A c \in Clerk :
         /\ clerk[c].pc \in {"idle", "open", "counted"}
         /\ clerk[c].op \in {"vote", "moderate", "answer"}
         /\ clerk[c].to \in Moderated \cup VoteTypes \cup {"none"}
    /\ drifted \in [Parents -> BOOLEAN]

\* The counters on a review are its votes, however voters and moderators overlap.  The
\* number of reviews of the product and of answers to the question are exact too, unless the
\* last recount was overtaken by another one: moderations lock the row they change and not
\* the row that counts it.
CountersMatchRows ==
    /\ \A a \in Author, t \in VoteTypes : tally[a][t] = Cardinality({v \in Voter : votes[a][v] = t})
    /\ \A parent \in Parents :
         ~drifted[parent] =>
             counts[parent] = Cardinality({i \in Items(parent) : content[i] = "published"})

\* modules/reviews/service.js:92: recomputed inside the same transaction as any status change,
\* the count of reviews of a product never drifts.  Refuted by two moderations at once.
RatingNeverDrifts ==
    counts["product"] = Cardinality({a \in Author : content[a] = "published"})
=============================================================================
