------------------------------- MODULE Reviews ------------------------------
(***************************************************************************)
(* The review of one booking (reviews.ts): staff invite the traveller, who *)
(* writes and corrects it through a private link; the platform moderates   *)
(* it; the operator answers it in public.                                  *)
(*                                                                         *)
(* Every request reads first and writes by id afterwards, except for the   *)
(* operator's answer, which is one conditional update: a decision applies  *)
(* to whatever words the row holds by then.  Ratings and titles travel     *)
(* with the words.                                                         *)
(***************************************************************************)
CONSTANTS
  Words,       \* what a traveller may write
  Travellers,  \* requests through a link
  Inviters,    \* requests of staff
  Moderators,
  NoWords

ASSUME ReviewsAssumption == NoWords \notin Words

VARIABLES
  journey,     \* the booking and its trip
  review,      \* the row of reviews
  traveller,   \* where each request through a link stands
  inviter,     \* where each invitation stands
  moderator,   \* what each moderator is about to decide
  approved     \* history: words the row held when a moderator published it

reviewVars == <<journey, review, traveller, inviter, moderator, approved>>

ReviewStatuses == {"NONE", "PENDING", "PUBLISHED", "HIDDEN", "REJECTED"}

\* answered: the words the operator's answer was given to.
Review == [status : ReviewStatuses, words : Words \cup {NoWords}, lapsed : BOOLEAN,
           answered : Words \cup {NoWords}]

Traveller == [at : {"idle", "eligible", "submit", "edit"}, words : Words \cup {NoWords}]

Moderator == [at : {"idle", "looked", "decided"}, to : ReviewStatuses]

ReviewsTypeOK ==
  /\ journey \in {"ahead", "finished", "dead"}
  /\ review \in Review
  /\ traveller \in [Travellers -> Traveller]
  /\ inviter \in [Inviters -> {"idle", "insert", "reissue"}]
  /\ moderator \in [Moderators -> Moderator]
  /\ approved \subseteq Words

NoReview == [status |-> "NONE", words |-> NoWords, lapsed |-> FALSE, answered |-> NoWords]

ReviewsInit ==
  /\ journey = "ahead"
  /\ review = NoReview
  /\ traveller = [w \in Travellers |-> [at |-> "idle", words |-> NoWords]]
  /\ inviter = [s \in Inviters |-> "idle"]
  /\ moderator = [m \in Moderators |-> [at |-> "idle", to |-> "NONE"]]
  /\ approved = {}

-----------------------------------------------------------------------------
Invited == review.status # "NONE"

Written == review.words # NoWords

\* checkReviewEligibility, apart from whether there is a review already.
Reviewable == journey = "finished"

\* The trip or the booking is completed; the booking is cancelled or refunded.
JourneyMoves ==
  /\ \/ journey = "ahead" /\ journey' \in {"finished", "dead"}
     \/ journey = "finished" /\ journey' = "dead"
  /\ UNCHANGED <<review, traveller, inviter, moderator, approved>>

(* inviteReview                                                             *)

InviteRead(s) ==
  /\ inviter[s] = "idle"
  /\ \/ Invited /\ ~Written /\ inviter' = [inviter EXCEPT ![s] = "reissue"]
     \/ ~Invited /\ Reviewable /\ inviter' = [inviter EXCEPT ![s] = "insert"]
  /\ UNCHANGED <<journey, review, traveller, moderator, approved>>

\* The unique index on the booking refuses a second row.
InviteInsert(s) ==
  /\ inviter[s] = "insert"
  /\ inviter' = [inviter EXCEPT ![s] = "idle"]
  /\ review' = IF Invited THEN review ELSE [NoReview EXCEPT !.status = "PENDING"]
  /\ UNCHANGED <<journey, traveller, moderator, approved>>

\* Another link to the same review; the one before stops working.
InviteReissue(s) ==
  /\ inviter[s] = "reissue"
  /\ inviter' = [inviter EXCEPT ![s] = "idle"]
  /\ review' = [review EXCEPT !.lapsed = FALSE]
  /\ UNCHANGED <<journey, traveller, moderator, approved>>

\* 180 days pass.
LinkLapses ==
  /\ Invited /\ ~review.lapsed
  /\ review' = [review EXCEPT !.lapsed = TRUE]
  /\ UNCHANGED <<journey, traveller, inviter, moderator, approved>>

-----------------------------------------------------------------------------
(* submitReview, updateCustomerReview: whoever holds the row's link finds   *)
(* the row; once a request found it, the link no longer matters.            *)

Pass(w, step, words) == traveller' = [traveller EXCEPT ![w] = [at |-> step, words |-> words]]

OpenLink(w, words) ==
  /\ traveller[w].at = "idle"
  /\ Invited /\ ~review.lapsed
  /\ \/ ~Written /\ Pass(w, "eligible", words)
     \/ Written /\ review.status # "REJECTED" /\ Pass(w, "edit", words)
  /\ UNCHANGED <<journey, review, inviter, moderator, approved>>

SubmitCheck(w) ==
  /\ traveller[w].at = "eligible"
  /\ IF Reviewable THEN Pass(w, "submit", traveller[w].words) ELSE Pass(w, "idle", NoWords)
  /\ UNCHANGED <<journey, review, inviter, moderator, approved>>

SubmitWrite(w) ==
  /\ traveller[w].at = "submit"
  /\ review' = [review EXCEPT !.words = traveller[w].words, !.status = "PENDING"]
  /\ Pass(w, "idle", NoWords)
  /\ UNCHANGED <<journey, inviter, moderator, approved>>

\* Mutant: a review that was published stays public while it is corrected.
EditedStatusMutant == review.status

EditedStatus == "PENDING"

CorrectWrite(w) ==
  /\ traveller[w].at = "edit"
  /\ review' = [review EXCEPT !.words = traveller[w].words, !.status = EditedStatus]
  /\ Pass(w, "idle", NoWords)
  /\ UNCHANGED <<journey, inviter, moderator, approved>>

-----------------------------------------------------------------------------
(* moderateReview: publish and restore, hide, reject; respondToReview.      *)

\* The queue leaves out what is not written yet.
Look(m) ==
  /\ moderator[m].at = "idle"
  /\ Written
  /\ moderator' = [moderator EXCEPT ![m].at = "looked"]
  /\ UNCHANGED <<journey, review, traveller, inviter, approved>>

Decide(m, to) ==
  /\ moderator[m].at = "looked"
  /\ Written
  /\ moderator' = [moderator EXCEPT ![m] = [at |-> "decided", to |-> to]]
  /\ UNCHANGED <<journey, review, traveller, inviter, approved>>

DecideWrite(m) ==
  /\ moderator[m].at = "decided"
  /\ review' = [review EXCEPT !.status = moderator[m].to]
  /\ approved' = IF moderator[m].to = "PUBLISHED" THEN {review.words} ELSE approved
  /\ moderator' = [moderator EXCEPT ![m] = [at |-> "idle", to |-> "NONE"]]
  /\ UNCHANGED <<journey, traveller, inviter>>

Respond ==
  /\ review.status = "PUBLISHED"
  /\ review' = [review EXCEPT !.answered = review.words]
  /\ UNCHANGED <<journey, traveller, inviter, moderator, approved>>

ReviewsNext ==
  \/ JourneyMoves \/ LinkLapses \/ Respond
  \/ \E s \in Inviters : InviteRead(s) \/ InviteInsert(s) \/ InviteReissue(s)
  \/ \E w \in Travellers :
       \/ SubmitCheck(w) \/ SubmitWrite(w) \/ CorrectWrite(w)
       \/ \E words \in Words : OpenLink(w, words)
  \/ \E m \in Moderators :
       \/ Look(m) \/ DecideWrite(m)
       \/ \E to \in {"PUBLISHED", "HIDDEN", "REJECTED"} : Decide(m, to)

ReviewsSpec == ReviewsInit /\ [][ReviewsNext]_reviewVars

-----------------------------------------------------------------------------
(* Properties.                                                             *)

\* "Editing returns it to PENDING" (updateCustomerReview): what is public is, word
\* for word, what the row held when a moderator last published it - never an
\* invitation's placeholder, never a later correction - however corrections,
\* second submissions and decisions overlap.  That the moderator had looked at those
\* words is not so: a correction may come between the look and the decision.
PublicWordsAreApproved ==
  review.status = "PUBLISHED" => Written /\ review.words \in approved
=============================================================================
