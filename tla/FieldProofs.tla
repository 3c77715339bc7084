----------------------------- MODULE FieldProofs ----------------------------
(***************************************************************************)
(* Of reviews, listings, companies, orders and messages, for any number of *)
(* each and of those who work on them: that what is public was approved,   *)
(* that a founder has one company, that a token places one order, that a   *)
(* message Meta is known to have taken is not sent again.  The components  *)
(* share no state; each has its inductive invariant, and the composed      *)
(* specification is a behaviour of each.                                   *)
(***************************************************************************)
EXTENDS MCField, TripsProofs, SumLemmas

-----------------------------------------------------------------------------
(* Reviews.                                                                *)

\* A request through a link carries words; a moderator only looks at a review that is
\* written, and a row that is written stays so.
ReviewsInv ==
  /\ ReviewsTypeOK
  /\ PublicWordsAreApproved
  /\ Written => Invited
  /\ \A w \in Travellers : traveller[w].at # "idle" => traveller[w].words \in Words
  /\ \A m \in Moderators : moderator[m].at # "idle" => Written
  /\ \A m \in Moderators : moderator[m].at = "decided" => moderator[m].to # "NONE"

LEMMA ReviewsStart == ReviewsInit => ReviewsInv
<1> USE ReviewsAssumption
<1> SUFFICES ASSUME ReviewsInit PROVE ReviewsInv
  OBVIOUS
<1>1. ReviewsTypeOK
  BY DEF ReviewsInit, ReviewsTypeOK, Review, ReviewStatuses, Traveller, Moderator, NoReview
<1> QED
  BY <1>1 DEF ReviewsInit, ReviewsInv, PublicWordsAreApproved, Written, Invited, NoReview

\* The row before and after: what a moderator looks at stays written, and what
\* is public is approved.
RowFollows(row) ==
  /\ row \in Review
  /\ row.words # NoWords => row.status # "NONE"
  /\ Written => row.words # NoWords
  /\ row.status = "PUBLISHED" => row.words # NoWords /\ row.words \in approved'

LEMMA ReviewRowKept ==
  ASSUME ReviewsInv, RowFollows(review'), approved' \subseteq Words,
         journey' \in {"ahead", "finished", "dead"},
         inviter' \in [Inviters -> {"idle", "insert", "reissue"}],
         traveller' \in [Travellers -> Traveller],
         \A w \in Travellers : traveller'[w].at # "idle" => traveller'[w].words \in Words,
         moderator' \in [Moderators -> Moderator],
         \A m \in Moderators :
           moderator'[m].at # "idle" => (Written \/ moderator[m].at # "idle")
                                        /\ (moderator'[m].at = "decided" => moderator'[m].to # "NONE")
  PROVE  ReviewsInv'
BY DEF ReviewsInv, ReviewsTypeOK, RowFollows, PublicWordsAreApproved, Written, Invited

LEMMA SameReviewFollows ==
  ASSUME ReviewsInv, review' = review, approved' = approved PROVE RowFollows(review')
BY DEF ReviewsInv, ReviewsTypeOK, RowFollows, PublicWordsAreApproved, Written, Invited

LEMMA ReviewsStep == ReviewsInv /\ [ReviewsNext]_reviewVars => ReviewsInv'
<1> SUFFICES ASSUME ReviewsInv, [ReviewsNext]_reviewVars PROVE ReviewsInv'
  OBVIOUS
<1> USE ReviewsAssumption
<1>0. /\ review \in Review /\ traveller \in [Travellers -> Traveller]
      /\ moderator \in [Moderators -> Moderator] /\ approved \subseteq Words
      /\ journey \in {"ahead", "finished", "dead"}
      /\ inviter \in [Inviters -> {"idle", "insert", "reissue"}]
      /\ \A w \in Travellers : traveller[w].at # "idle" => traveller[w].words \in Words
      /\ \A m \in Moderators : moderator[m].at = "decided" => moderator[m].to # "NONE"
      /\ \A m \in Moderators : moderator[m].at # "idle" => Written
  BY DEF ReviewsInv, ReviewsTypeOK
<1>1. CASE JourneyMoves \/ UNCHANGED reviewVars
  BY <1>0, <1>1, ReviewRowKept, SameReviewFollows DEF JourneyMoves, reviewVars
<1>2. CASE LinkLapses \/ Respond \/ \E s \in Inviters : InviteInsert(s) \/ InviteReissue(s)
  <2>1. UNCHANGED <<journey, traveller, moderator, approved>>
    BY <1>2 DEF LinkLapses, Respond, InviteInsert, InviteReissue
  <2>2. inviter' \in [Inviters -> {"idle", "insert", "reissue"}]
    BY <1>0, <1>2 DEF LinkLapses, Respond, InviteInsert, InviteReissue
  <2>3. RowFollows(review')
    <3>1. RowFollows(review)
      BY <2>1 DEF ReviewsInv, ReviewsTypeOK, RowFollows, PublicWordsAreApproved, Written, Invited
    <3>2. ASSUME NEW b \in BOOLEAN, review' = [review EXCEPT !.lapsed = b] PROVE RowFollows(review')
      BY <1>0, <3>1, <3>2 DEF RowFollows, Review
    <3>3. CASE Respond
      BY <1>0, <3>1, <3>3 DEF RowFollows, Review, Respond
    <3>4. ASSUME NEW s \in Inviters, InviteInsert(s) PROVE RowFollows(review')
      <4>1. CASE Invited
        BY <3>1, <3>4, <4>1 DEF InviteInsert
      <4>2. CASE ~Invited
        <5>1. review' = [status |-> "PENDING", words |-> NoWords, lapsed |-> FALSE, answered |-> NoWords]
          BY <3>4, <4>2 DEF InviteInsert, NoReview
        <5>2. ~Written
          BY <4>2 DEF ReviewsInv
        <5> QED
          BY <5>1, <5>2 DEF RowFollows, Review, ReviewStatuses
      <4> QED
        BY <4>1, <4>2
    <3> QED
      BY <1>2, <3>1, <3>2, <3>3, <3>4 DEF LinkLapses, InviteReissue
  <2> QED
    BY <1>0, <2>1, <2>2, <2>3, ReviewRowKept
<1>3. ASSUME NEW s \in Inviters, InviteRead(s) PROVE ReviewsInv'
  <2>1. inviter' \in [Inviters -> {"idle", "insert", "reissue"}]
    BY <1>0, <1>3 DEF InviteRead
  <2> QED
    BY <1>0, <1>3, <2>1, ReviewRowKept, SameReviewFollows DEF InviteRead
<1>4. ASSUME NEW w \in Travellers, NEW step, NEW words \in Words \cup {NoWords}, Pass(w, step, words),
             step \in {"idle", "eligible", "submit", "edit"}, step # "idle" => words \in Words
      PROVE  /\ traveller' \in [Travellers -> Traveller]
             /\ \A v \in Travellers : traveller'[v].at # "idle" => traveller'[v].words \in Words
  <2>1. [at |-> step, words |-> words] \in Traveller
    BY <1>4 DEF Traveller
  <2> QED
    BY <1>0, <1>4, <2>1 DEF Pass
<1>5. ASSUME NEW w \in Travellers, SubmitCheck(w) \/ \E words \in Words : OpenLink(w, words)
      PROVE  ReviewsInv'
  <2>1. UNCHANGED <<journey, review, inviter, moderator, approved>>
    BY <1>5 DEF SubmitCheck, OpenLink
  <2>2. /\ traveller' \in [Travellers -> Traveller]
        /\ \A v \in Travellers : traveller'[v].at # "idle" => traveller'[v].words \in Words
    BY <1>0, <1>4, <1>5 DEF SubmitCheck, OpenLink
  <2> QED
    BY <1>0, <2>1, <2>2, ReviewRowKept, SameReviewFollows
<1>6. ASSUME NEW w \in Travellers, SubmitWrite(w) \/ CorrectWrite(w) PROVE ReviewsInv'
  <2>1. /\ UNCHANGED <<journey, inviter, moderator, approved>>
        /\ traveller[w].words \in Words
        /\ review' = [review EXCEPT !.words = traveller[w].words, !.status = "PENDING"]
        /\ Pass(w, "idle", NoWords)
    BY <1>0, <1>6 DEF SubmitWrite, CorrectWrite, EditedStatus
  <2>2. /\ traveller' \in [Travellers -> Traveller]
        /\ \A v \in Travellers : traveller'[v].at # "idle" => traveller'[v].words \in Words
    BY <1>4, <2>1
  <2>3. RowFollows(review')
    BY <1>0, <2>1 DEF RowFollows, Review, ReviewStatuses
  <2> QED
    BY <1>0, <2>1, <2>2, <2>3, ReviewRowKept
<1>7. ASSUME NEW m \in Moderators, Look(m) \/ \E to \in {"PUBLISHED", "HIDDEN", "REJECTED"} : Decide(m, to)
      PROVE  ReviewsInv'
  <2>1. UNCHANGED <<journey, review, traveller, inviter, approved>> /\ Written
    BY <1>7 DEF Look, Decide
  <2>2. PICK e \in Moderator : moderator' = [moderator EXCEPT ![m] = e] /\ (e.at = "decided" => e.to # "NONE")
    <3>1. CASE Look(m)
      <4>1. [moderator[m] EXCEPT !.at = "looked"] \in Moderator
        BY <1>0 DEF Moderator
      <4>2. moderator' = [moderator EXCEPT ![m] = [moderator[m] EXCEPT !.at = "looked"]]
        BY <3>1 DEF Look
      <4> QED
        BY <1>0, <4>1, <4>2 DEF Moderator
    <3>2. ASSUME NEW to \in {"PUBLISHED", "HIDDEN", "REJECTED"}, Decide(m, to)
          PROVE \E e \in Moderator : moderator' = [moderator EXCEPT ![m] = e] /\ (e.at = "decided" => e.to # "NONE")
      <4>1. [at |-> "decided", to |-> to] \in Moderator
        BY DEF Moderator, ReviewStatuses
      <4> QED
        BY <3>2, <4>1 DEF Decide
    <3> QED
      BY <1>7, <3>1, <3>2
  <2>3. moderator' \in [Moderators -> Moderator]
    BY <1>0, <2>2
  <2> QED
    BY <1>0, <2>1, <2>2, <2>3, ReviewRowKept, SameReviewFollows
<1>8. ASSUME NEW m \in Moderators, DecideWrite(m) PROVE ReviewsInv'
  <2>1. UNCHANGED <<journey, traveller, inviter>> /\ Written /\ moderator[m].to \in ReviewStatuses \ {"NONE"}
    BY <1>0, <1>8 DEF DecideWrite, Moderator
  <2>2. approved' \subseteq Words
    BY <1>0, <1>8, <2>1 DEF DecideWrite, Written, Review
  <2>3. RowFollows(review')
    BY <1>0, <1>8, <2>1 DEF DecideWrite, RowFollows, Written, Review
  <2>4. [at |-> "idle", to |-> "NONE"] \in Moderator
    BY DEF Moderator, ReviewStatuses
  <2>5. moderator' \in [Moderators -> Moderator]
        /\ \A n \in Moderators : moderator'[n].at # "idle" => moderator'[n] = moderator[n]
    BY <1>0, <1>8, <2>4 DEF DecideWrite
  <2> QED
    BY <1>0, <2>1, <2>2, <2>3, <2>5, ReviewRowKept
<1> QED
  BY <1>1, <1>2, <1>3, <1>5, <1>6, <1>7, <1>8 DEF ReviewsNext

\* What is public is, word for word, what the row held when a moderator last
\* published it, however corrections, second submissions and decisions overlap:
\* every write of words takes the review off the page (updateCustomerReview,
\* submitReview, moderateReview).
THEOREM PublicIsApproved == ReviewsSpec => []PublicWordsAreApproved
<1>1. ReviewsInit => ReviewsInv
  BY ReviewsStart
<1>2. ReviewsInv /\ [ReviewsNext]_reviewVars => ReviewsInv'
  BY ReviewsStep
<1>3. ReviewsInv => PublicWordsAreApproved
  BY DEF ReviewsInv
<1> QED
  BY <1>1, <1>2, <1>3, PTL DEF ReviewsSpec

LEMMA ReviewsTypesCorrect == ReviewsSpec => []ReviewsTypeOK
<1>1. ReviewsInv => ReviewsTypeOK
  BY DEF ReviewsInv
<1> QED
  BY <1>1, ReviewsStart, ReviewsStep, PTL DEF ReviewsSpec

-----------------------------------------------------------------------------
(* Listings.                                                               *)

\* A transition remembers a status its action moves from.
Remembers(q) ==
  q.at \in {"fields", "parts", "move"} =>
    q.action \in TourActions /\ q.from \in MovesFrom(q.action) \cap ListingStatuses

Carries(q) ==
  /\ q.at = "days" => q.list \in Itineraries
  /\ q.at = "places" => q.list \in SUBSET Places

ListingsInv ==
  /\ listing \in Listing /\ request \in [Requests -> Request]
  /\ \A r \in Requests : Remembers(request[r]) /\ Carries(request[r])
  /\ PublishedWasApproved

LEMMA ListingsStart ==
  ASSUME ListingsInit
  PROVE  /\ listing \in Listing /\ PublishedWasApproved
         /\ request \in [Requests -> Request]
         /\ \A r \in Requests : Remembers(request[r]) /\ Carries(request[r])
<1>1. request \in [Requests -> Request] /\ \A r \in Requests : Remembers(request[r]) /\ Carries(request[r])
  BY DEF ListingsInit, Request, Idle, Remembers, Carries
<1>2. listing \in Listing /\ PublishedWasApproved
  BY DEF ListingsInit, Listing, ListingStatuses, PublishedWasApproved
<1> QED
  BY <1>1, <1>2

\* A step of a request goes on from what it remembers and carries, or begins anew.
LEMMA RequestsStep ==
  ASSUME request \in [Requests -> Request], [ListingsNext]_listingVars,
         listing \in Listing,
         \A r \in Requests : Remembers(request[r]) /\ Carries(request[r])
  PROVE  /\ request' \in [Requests -> Request]
         /\ \A r \in Requests : Remembers(request'[r]) /\ Carries(request'[r])
<1>1. Idle \in Request /\ Remembers(Idle) /\ Carries(Idle)
  BY DEF Request, Idle, Remembers, Carries
<1>2. CASE UNCHANGED request
  BY <1>2
<1>3. ASSUME NEW r \in Requests, NEW q \in Request, Step(r, q), Remembers(q), Carries(q)
      PROVE  /\ request' \in [Requests -> Request]
             /\ \A s \in Requests : Remembers(request'[s]) /\ Carries(request'[s])
  BY <1>3 DEF Step
<1>4. ASSUME NEW r \in Requests, GiveUp(r) \/ TransitionWrite(r)
      PROVE  Step(r, Idle)
  BY <1>4 DEF GiveUp, TransitionWrite
<1>5. ASSUME NEW r \in Requests, NEW what \in {"days", "places"}, NEW list \in Itineraries \cup SUBSET Places,
             what = "days" => list \in Itineraries, what = "places" => list \in SUBSET Places,
             ReplaceOwned(r, what, list)
      PROVE  \E q \in Request : Step(r, q) /\ Remembers(q) /\ Carries(q)
  <2> DEFINE q == [at |-> what, list |-> list, deleted |-> "no"]
  <2>1. q \in Request /\ Remembers(q) /\ Carries(q)
    BY <1>5 DEF Request, Remembers, Carries
  <2>2. Step(r, q)
    BY <1>5 DEF ReplaceOwned
  <2> HIDE DEF q
  <2> QED
    BY <2>1, <2>2
<1>6. ASSUME NEW q \in Request, q.at \in {"days", "places"}, NEW d \in {"no", "all", "gone"}, Carries(q)
      PROVE  /\ [q EXCEPT !.deleted = d] \in Request
             /\ Remembers([q EXCEPT !.deleted = d]) /\ Carries([q EXCEPT !.deleted = d])
  <2>1. q \in [at : {"days", "places"}, list : Itineraries \cup SUBSET Places, deleted : {"no", "all", "gone"}]
    BY <1>6 DEF Request, Idle
  <2> DEFINE e == [q EXCEPT !.deleted = d]
  <2>2. e \in [at : {"days", "places"}, list : Itineraries \cup SUBSET Places, deleted : {"no", "all", "gone"}]
        /\ e.at = q.at /\ e.list = q.list
    BY <2>1
  <2> HIDE DEF e
  <2>3. e \in Request /\ Remembers(e) /\ Carries(e)
    BY <1>6, <2>2 DEF Request, Remembers, Carries
  <2> QED
    BY <2>3 DEF e
<1>7. ASSUME NEW r \in Requests, ReplaceDelete(r)
      PROVE  \E q \in Request : Step(r, q) /\ Remembers(q) /\ Carries(q)
  BY <1>6, <1>7 DEF ReplaceDelete
<1>8. ASSUME NEW r \in Requests, NEW what \in {"days", "places"}, Committed(r, what)
      PROVE  /\ request' \in [Requests -> Request]
             /\ \A s \in Requests : Remembers(request'[s]) /\ Carries(request'[s])
  <2>1. \A s \in Requests : \/ request'[s] = Idle \/ request'[s] = request[s]
                            \/ request[s].at = what /\ request'[s] = [request[s] EXCEPT !.deleted = "gone"]
    BY <1>8 DEF Committed
  <2>2. \A s \in Requests : request'[s] \in Request /\ Remembers(request'[s]) /\ Carries(request'[s])
    <3>1. ASSUME NEW s \in Requests, request[s].at = what
          PROVE  LET q == [request[s] EXCEPT !.deleted = "gone"]
                 IN  q \in Request /\ Remembers(q) /\ Carries(q)
      BY <1>6, <3>1
    <3> QED
      BY <1>1, <2>1, <3>1
  <2>3. request' = [s \in Requests |-> request'[s]]
    BY <1>8 DEF Committed
  <2> QED
    BY <2>2, <2>3
<1>9. ASSUME NEW r \in Requests, NEW action \in TourActions, TransitionRead(r, action)
      PROVE  \E q \in Request : Step(r, q) /\ Remembers(q) /\ Carries(q)
  <2>1. PICK at \in {"fields", "move"} : Step(r, [at |-> at, action |-> action, from |-> listing.status])
    BY <1>9 DEF TransitionRead
  <2>2. listing.status \in ListingStatuses /\ listing.status \in MovesFrom(action)
    BY <1>9 DEF TransitionRead, Listing
  <2> DEFINE q == [at |-> at, action |-> action, from |-> listing.status]
  <2>3. q \in Request /\ Remembers(q) /\ Carries(q)
    BY <2>2 DEF Request, Remembers, Carries
  <2> HIDE DEF q
  <2> QED
    BY <2>1, <2>3 DEF q
<1>10. ASSUME NEW r \in Requests, NEW at \in {"parts", "move"}, request[r].at \in {"fields", "parts"},
              Step(r, [request[r] EXCEPT !.at = at])
       PROVE  \E q \in Request : Step(r, q) /\ Remembers(q) /\ Carries(q)
  <2>1. request[r] \in [at : {"fields", "parts", "move"}, action : TourActions, from : ListingStatuses]
    BY <1>10 DEF Request, Idle
  <2> DEFINE q == [request[r] EXCEPT !.at = at]
  <2>2. q \in [at : {"fields", "parts", "move"}, action : TourActions, from : ListingStatuses]
        /\ q.at = at /\ q.action = request[r].action /\ q.from = request[r].from
    BY <2>1
  <2> HIDE DEF q
  <2>3. q \in Request /\ Remembers(q) /\ Carries(q)
    BY <1>10, <2>2 DEF Request, Remembers, Carries
  <2> QED
    BY <1>10, <2>3 DEF q
<1>11. ASSUME NEW r \in Requests, PublishableFields(r) \/ PublishableParts(r)
       PROVE  \E q \in Request : Step(r, q) /\ Remembers(q) /\ Carries(q)
  BY <1>10, <1>11 DEF PublishableFields, PublishableParts
<1>12. \/ UNCHANGED request
       \/ \E r \in Requests, what \in {"days", "places"} : Committed(r, what)
       \/ \E r \in Requests, q \in Request : Step(r, q) /\ Remembers(q) /\ Carries(q)
  <2>1. CASE SoftDeleteTour \/ \E fields \in BOOLEAN : CreateTour(fields) \/ UpdateTour(fields)
    BY <2>1 DEF SoftDeleteTour, CreateTour, UpdateTour
  <2>2. CASE UNCHANGED listingVars
    BY <2>2 DEF listingVars
  <2>3. ASSUME NEW r \in Requests, ReplaceItinerary(r) \/ SetTourDestinations(r)
        PROVE  \E what \in {"days", "places"} : Committed(r, what)
    BY <2>3 DEF ReplaceItinerary, SetTourDestinations
  <2> QED
    BY <1>1, <1>4, <1>5, <1>7, <1>9, <1>11, <2>1, <2>2, <2>3 DEF ListingsNext
<1> QED
  BY <1>2, <1>3, <1>8, <1>12

LEMMA ListingKept ==
  ASSUME listing \in Listing, request \in [Requests -> Request],
         \A r \in Requests : Remembers(request[r]), PublishedWasApproved, [ListingsNext]_listingVars
  PROVE  listing' \in Listing /\ PublishedWasApproved'
<1>1. CASE UNCHANGED <<listing, cleared>>
  BY <1>1 DEF PublishedWasApproved
<1>2. CASE SoftDeleteTour \/ \E fields \in BOOLEAN : CreateTour(fields) \/ UpdateTour(fields)
  <2>1. ASSUME NEW b \in BOOLEAN
        PROVE  /\ [listing EXCEPT !.live = b] \in Listing /\ [listing EXCEPT !.live = b].status = listing.status
               /\ [listing EXCEPT !.fields = b] \in Listing /\ [listing EXCEPT !.fields = b].status = listing.status
               /\ [status |-> "DRAFT", live |-> TRUE, fields |-> b] \in Listing
    BY DEF Listing, ListingStatuses
  <2> QED
    <3>1. CASE SoftDeleteTour
      BY <2>1, <3>1 DEF SoftDeleteTour, PublishedWasApproved
    <3>2. ASSUME NEW fields \in BOOLEAN, CreateTour(fields) PROVE listing' \in Listing /\ PublishedWasApproved'
      BY <2>1, <3>2 DEF CreateTour, PublishedWasApproved
    <3>3. ASSUME NEW fields \in BOOLEAN, UpdateTour(fields) PROVE listing' \in Listing /\ PublishedWasApproved'
      BY <2>1, <3>3 DEF UpdateTour, PublishedWasApproved
    <3> QED
      BY <1>2, <3>1, <3>2, <3>3
<1>3. ASSUME NEW r \in Requests, TransitionWrite(r)
      PROVE  listing' \in Listing /\ PublishedWasApproved'
  <2>1. PICK action \in TourActions : action = request[r].action /\ listing.status \in MovesFrom(action)
    BY <1>3 DEF TransitionWrite, StillIn, Remembers
  <2>2. MovesTo(action) \in ListingStatuses
    BY <2>1 DEF MovesTo, TourActions, ListingStatuses
  <2>3. listing' = [listing EXCEPT !.status = MovesTo(action)]
    BY <1>3, <2>1 DEF TransitionWrite
  <2>4. listing' \in Listing /\ listing'.status = MovesTo(action)
    BY <2>2, <2>3 DEF Listing
  <2>5. MovesTo(action) \in {"APPROVED", "PUBLISHED", "UNPUBLISHED"} =>
          action = "approve"
          \/ (action \in {"publish", "unpublish"} /\ listing.status \in {"APPROVED", "PUBLISHED", "UNPUBLISHED"})
    BY <2>1 DEF MovesTo, MovesFrom, TourActions
  <2>6. (action = "approve" => cleared') /\ (action \in {"publish", "unpublish"} => cleared' = cleared)
    BY <1>3, <2>1 DEF TransitionWrite
  <2> QED
    BY <2>4, <2>5, <2>6 DEF PublishedWasApproved
<1>4. ASSUME NEW r \in Requests,
             \/ GiveUp(r) \/ ReplaceDelete(r) \/ ReplaceItinerary(r) \/ SetTourDestinations(r)
             \/ PublishableFields(r) \/ PublishableParts(r)
             \/ \E what \in {"days", "places"}, list \in Itineraries \cup SUBSET Places : ReplaceOwned(r, what, list)
             \/ \E action \in TourActions : TransitionRead(r, action)
      PROVE  UNCHANGED <<listing, cleared>>
  BY <1>4 DEF GiveUp, ReplaceDelete, ReplaceItinerary, SetTourDestinations, PublishableFields,
    PublishableParts, ReplaceOwned, TransitionRead
<1>5. UNCHANGED listingVars => UNCHANGED <<listing, cleared>>
  BY DEF listingVars
<1> QED
  BY <1>1, <1>2, <1>3, <1>4, <1>5 DEF ListingsNext

\* A list of days that is not empty has a first day, so that of two lists that go
\* together one is empty.
LEMMA DaysFitTogether ==
  ASSUME NEW old \in Itineraries, NEW new \in Itineraries, DaysFit(old, new)
  PROVE  old \cup new \in Itineraries
<1>1. ASSUME NEW list \in Itineraries, list # {} PROVE \E e : <<1, e>> \in list
  <2>1. PICK l \in 0 .. MaxDays, e \in Editions : list = {<<n, e>> : n \in 1 .. l}
    BY <1>1 DEF Itineraries
  <2>2. 1 \in 1 .. l
    BY <1>1, <2>1, ListingsAssumption
  <2> QED
    BY <2>1, <2>2
<1>2. old = {} \/ new = {}
  <2>1. SUFFICES ASSUME old # {}, new # {} PROVE FALSE
    OBVIOUS
  <2>2. PICK d : <<1, d>> \in old
    BY <1>1, <2>1
  <2>3. PICK e : <<1, e>> \in new
    BY <1>1, <2>1
  <2>4. <<1, d>>[1] # <<1, e>>[1]
    BY <2>2, <2>3 DEF DaysFit
  <2> QED
    BY <2>4
<1>3. old \cup new = new \/ old \cup new = old
  BY <1>2
<1> QED
  BY <1>3

\* "Only the marketplace team can review or publish a listing": what is approved,
\* on sale or off sale again was approved since it was last submitted, because a
\* transition is written only while the listing is in the status it was checked
\* against (transitionTour).
THEOREM PublishedIsApproved == ListingsSpec => []PublishedWasApproved
<1>1. ListingsInit => ListingsInv
  BY ListingsStart DEF ListingsInv
<1>2. ListingsInv /\ [ListingsNext]_listingVars => ListingsInv'
  BY RequestsStep, ListingKept DEF ListingsInv
<1>3. ListingsInv => PublishedWasApproved
  BY DEF ListingsInv
<1> QED
  BY <1>1, <1>2, <1>3, PTL DEF ListingsSpec

\* The rows of a tour, and what the platform said of it, stay what they can be.
LEMMA ListingsTyped ==
  ASSUME ListingsInv, ListingsTypeOK, [ListingsNext]_listingVars PROVE ListingsTypeOK'
<1>1. Itineraries \subseteq SUBSET Days
  <2>1. ASSUME NEW l \in 0 .. MaxDays, NEW e \in Editions PROVE {<<n, e>> : n \in 1 .. l} \in SUBSET Days
    BY ListingsAssumption DEF Days
  <2> QED
    BY <2>1 DEF Itineraries
<1>2. days' \subseteq Days
  <2>1. ASSUME NEW r \in Requests, ReplaceItinerary(r) PROVE days' \subseteq Days
    BY <1>1, <2>1 DEF ListingsInv, ListingsTypeOK, ReplaceItinerary, Carries, Left
  <2>2. CASE UNCHANGED days
    BY <2>2 DEF ListingsTypeOK
  <2> QED
    BY <2>1, <2>2 DEF ListingsNext, SoftDeleteTour, CreateTour, UpdateTour, GiveUp, ReplaceOwned, ReplaceDelete,
      SetTourDestinations, TransitionRead, PublishableFields, PublishableParts, TransitionWrite, listingVars
<1>3. places' \subseteq Places
  <2>1. ASSUME NEW r \in Requests, SetTourDestinations(r) PROVE places' \subseteq Places
    BY <2>1 DEF ListingsInv, ListingsTypeOK, SetTourDestinations, Carries, Left
  <2>2. CASE UNCHANGED places
    BY <2>2 DEF ListingsTypeOK
  <2> QED
    BY <2>1, <2>2 DEF ListingsNext, SoftDeleteTour, CreateTour, UpdateTour, GiveUp, ReplaceOwned, ReplaceDelete,
      ReplaceItinerary, TransitionRead, PublishableFields, PublishableParts, TransitionWrite, listingVars
<1>4. cleared' \in BOOLEAN
  <2>1. ASSUME NEW r \in Requests, TransitionWrite(r) PROVE cleared' \in BOOLEAN
    BY <2>1 DEF ListingsTypeOK, TransitionWrite
  <2>2. CASE UNCHANGED cleared
    BY <2>2 DEF ListingsTypeOK
  <2> QED
    BY <2>1, <2>2 DEF ListingsNext, SoftDeleteTour, CreateTour, UpdateTour, GiveUp, ReplaceOwned, ReplaceDelete,
      ReplaceItinerary, SetTourDestinations, TransitionRead, PublishableFields, PublishableParts, listingVars
<1>5. listing' \in Listing /\ request' \in [Requests -> Request]
  BY ListingKept, RequestsStep DEF ListingsInv
<1> QED
  BY <1>2, <1>3, <1>4, <1>5 DEF ListingsTypeOK

LEMMA ListingsTypesCorrect == ListingsSpec => []ListingsTypeOK
<1>1. ListingsInit => ListingsInv /\ ListingsTypeOK
  BY ListingsStart DEF ListingsInv, ListingsTypeOK, ListingsInit
<1>2. ListingsInv /\ ListingsTypeOK /\ [ListingsNext]_listingVars => (ListingsInv /\ ListingsTypeOK)'
  BY ListingsTyped, RequestsStep, ListingKept DEF ListingsInv
<1> QED
  BY <1>1, <1>2, PTL DEF ListingsSpec

\* "Replace the itinerary as one list, atomically": a tour shows one edition,
\* every day of it once and without a gap, however transactions that replace it
\* overlap: of two lists the unique index admits together, one has no days
\* (replaceItinerary).
THEOREM ItineraryStaysWhole == ListingsSpec => []ItineraryIsWhole
<1> DEFINE J == /\ listing \in Listing /\ request \in [Requests -> Request]
                /\ \A r \in Requests : Remembers(request[r]) /\ Carries(request[r])
                /\ PublishedWasApproved /\ ItineraryIsWhole
<1>1. ListingsInit => J
  <2>1. ASSUME ListingsInit PROVE {} \in Itineraries
    <3>1. PICK e : e \in Editions
      BY ListingsAssumption
    <3>2. 0 \in 0 .. MaxDays /\ {<<n, e>> : n \in 1 .. 0} = {}
      BY ListingsAssumption
    <3> QED
      BY <3>1, <3>2 DEF Itineraries
  <2> QED
    BY <2>1, ListingsStart DEF ListingsInit, ItineraryIsWhole
<1>2. J /\ [ListingsNext]_listingVars => J'
  <2> SUFFICES ASSUME J, [ListingsNext]_listingVars PROVE ItineraryIsWhole'
    BY RequestsStep, ListingKept
  <2>1. ASSUME NEW r \in Requests, ReplaceItinerary(r) PROVE ItineraryIsWhole'
    <3>1. request[r].list \in Itineraries
      BY <2>1 DEF ReplaceItinerary, Carries
    <3>2. {} \cup request[r].list = request[r].list
      OBVIOUS
    <3> QED
      BY <2>1, <3>1, <3>2, DaysFitTogether DEF ReplaceItinerary, Left, ItineraryIsWhole
  <2>2. ASSUME NEW r \in Requests,
               \/ GiveUp(r) \/ ReplaceDelete(r) \/ SetTourDestinations(r)
               \/ PublishableFields(r) \/ PublishableParts(r) \/ TransitionWrite(r)
               \/ \E what \in {"days", "places"}, list \in Itineraries \cup SUBSET Places : ReplaceOwned(r, what, list)
               \/ \E action \in TourActions : TransitionRead(r, action)
        PROVE  UNCHANGED days
    BY <2>2 DEF GiveUp, ReplaceDelete, SetTourDestinations, PublishableFields, PublishableParts,
      TransitionWrite, ReplaceOwned, TransitionRead
  <2>3. SoftDeleteTour \/ (\E fields \in BOOLEAN : CreateTour(fields) \/ UpdateTour(fields))
          \/ UNCHANGED listingVars => UNCHANGED days
    BY DEF SoftDeleteTour, CreateTour, UpdateTour, listingVars
  <2> QED
    BY <2>1, <2>2, <2>3 DEF ListingsNext, ItineraryIsWhole
<1>3. J => ItineraryIsWhole
  OBVIOUS
<1> QED
  BY <1>1, <1>2, <1>3, PTL DEF ListingsSpec

-----------------------------------------------------------------------------
(* Companies, seats and invitations.                                       *)

\* A seat is in a company that exists; its founder keeps his; one founder per
\* company, one company per founder.
SeatsInv ==
  /\ company \subseteq Companies
  /\ seat \in [Companies \X People -> Seat]
  /\ \A k \in Companies, p \in People : seat[k, p].row => k \in company
  /\ \A k \in Companies, p \in People : seat[k, p].owner => seat[k, p].row /\ ~seat[k, p].off
  /\ \A k \in company : \E p \in People : seat[k, p].owner
  /\ \A k, l \in Companies, p \in People : seat[k, p].owner /\ seat[l, p].owner => k = l
  /\ \A k \in Companies, p, q \in People : seat[k, p].owner /\ seat[k, q].owner => p = q

\* What call c, in state d, relies on: that the company it seats somebody in exists,
\* that it takes no founder's seat, that it holds the lock to found, and that the
\* person it founds for has no company.
Sound(c, d) ==
  /\ d.at \in {"look", "insert"} => d.company \in company
  /\ d.at \in {"off", "remove"} =>
       d.company \in company /\ (d.person \in People => ~seat[d.company, d.person].owner)
  /\ d.at \in {"found", "create"} => d.person \in People /\ founding[d.person] = c
  /\ d.at = "create" => \A k \in Companies : ~seat[k, d.person].owner

TeamInv ==
  /\ SeatsInv
  /\ founding \in [People -> Calls \cup {NoCall}]
  /\ invitation \in [Invitations -> Invitation]
  /\ call \in [Calls -> Call]
  /\ \A c \in Calls : Sound(c, call[c])

LEMMA TeamStart == TeamInit => TeamInv
<1> SUFFICES ASSUME TeamInit PROVE TeamInv
  OBVIOUS
<1>1. SeatsInv
  BY DEF TeamInit, SeatsInv, Seat, NoSeat
<1>2. founding \in [People -> Calls \cup {NoCall}]
  BY DEF TeamInit
<1>3. invitation \in [Invitations -> Invitation]
  BY DEF TeamInit, Invitation, NoOneInvited
<1>4. call \in [Calls -> Call]
  BY DEF TeamInit, Call, CallSteps, Resting
<1>5. \A c \in Calls : Sound(c, call[c])
  BY DEF TeamInit, Sound, Resting
<1> QED
  BY <1>1, <1>2, <1>3, <1>4, <1>5 DEF TeamInv

\* Nobody becomes or ceases to be a founder, and no company appears.
OwnersKept ==
  /\ UNCHANGED company
  /\ \A k \in Companies, p \in People : seat'[k, p].owner = seat[k, p].owner

\* The lock of every other call stays where it is.
LocksKept(c) ==
  \A p \in People, d \in Calls \ {c} : founding[p] = d => founding'[p] = d

\* One call moves on; the others rely on what they relied on.
LEMMA CallMoves ==
  ASSUME TeamInv, NEW c \in Calls, NEW e \in Call, call' = [call EXCEPT ![c] = e],
         SeatsInv', founding' \in [People -> Calls \cup {NoCall}],
         invitation' \in [Invitations -> Invitation],
         OwnersKept, LocksKept(c), Sound(c, e)'
  PROVE  TeamInv'
<1>1. call' \in [Calls -> Call] /\ \A d \in Calls : call'[d] = (IF d = c THEN e ELSE call[d])
  BY DEF TeamInv
<1>2. ASSUME NEW d \in Calls \ {c} PROVE Sound(d, call[d])'
  <2>1. call'[d] = call[d] /\ Sound(d, call[d])
    BY <1>1 DEF TeamInv
  <2>2. company \subseteq Companies
    BY DEF TeamInv, SeatsInv
  <2> QED
    <3>1. call[d].at \in {"off", "remove"} /\ call[d].person \in People =>
            ~seat'[call[d].company, call[d].person].owner
      <4> SUFFICES ASSUME call[d].at \in {"off", "remove"}, call[d].person \in People
                   PROVE  ~seat'[call[d].company, call[d].person].owner
        OBVIOUS
      <4>1. PICK k \in Companies, p \in People : k = call[d].company /\ p = call[d].person
        BY <2>1, <2>2 DEF Sound
      <4>2. ~seat[k, p].owner
        BY <2>1, <4>1 DEF Sound
      <4>3. seat'[k, p].owner = seat[k, p].owner
        BY DEF OwnersKept
      <4> QED
        BY <4>1, <4>2, <4>3
    <3>2. call[d].at = "create" => \A k \in Companies : ~seat'[k, call[d].person].owner
      BY <2>1 DEF Sound, OwnersKept
    <3>3. call[d].at \in {"found", "create"} => founding'[call[d].person] = d
      BY <2>1 DEF Sound, LocksKept
    <3>4. \A k : k \in company => k \in company'
      BY DEF OwnersKept
    <3> QED
      BY <2>1, <3>1, <3>2, <3>3, <3>4 DEF Sound
<1>3. Sound(c, call[c])'
  BY <1>1 DEF Sound
<1> QED
  BY <1>1, <1>2, <1>3 DEF TeamInv

LEMMA SeatsSame == ASSUME SeatsInv, UNCHANGED <<company, seat>> PROVE SeatsInv' /\ OwnersKept
BY DEF SeatsInv, OwnersKept

LEMMA SeatWritten ==
  ASSUME SeatsInv, UNCHANGED company, NEW k \in Companies, NEW p \in People, NEW row \in Seat,
         seat' = [seat EXCEPT ![<<k, p>>] = row],
         row.row => k \in company,
         row.owner = seat[k, p].owner, row.owner => row.row /\ ~row.off
  PROVE  SeatsInv' /\ OwnersKept
<1>1. seat' \in [Companies \X People -> Seat]
  BY DEF SeatsInv
<1>2. \A l \in Companies, q \in People : seat'[l, q] = IF l = k /\ q = p THEN row ELSE seat[l, q]
  BY DEF SeatsInv
<1>3. OwnersKept
  BY <1>2, ZenonT(40) DEF OwnersKept
<1>4. company' \subseteq Companies /\ \A l \in company' : \E q \in People : seat'[l, q].owner
  BY <1>3 DEF OwnersKept, SeatsInv
<1>5. \A j, l \in Companies, q \in People : seat'[j, q].owner /\ seat'[l, q].owner => j = l
  BY <1>3 DEF OwnersKept, SeatsInv
<1>8. \A l \in Companies, o, q \in People : seat'[l, o].owner /\ seat'[l, q].owner => o = q
  BY <1>3 DEF OwnersKept, SeatsInv
<1>6. \A l \in Companies, q \in People : seat'[l, q].row => l \in company'
  BY <1>2, ZenonT(40) DEF SeatsInv
<1>7. \A l \in Companies, q \in People : seat'[l, q].owner => seat'[l, q].row /\ ~seat'[l, q].off
  BY <1>2 DEF SeatsInv
<1> QED
  BY <1>1, <1>3, <1>4, <1>5, <1>6, <1>7, <1>8 DEF SeatsInv

\* An update by id changes a seat that is there, and never makes or unmakes a founder.
LEMMA SeatUpdated ==
  ASSUME TeamInv, UNCHANGED company, NEW c \in Calls, NEW row, Update(Of(c), row),
         Of(c) \in Companies \X People /\ seat[Of(c)].row =>
           row \in Seat /\ row.owner = seat[Of(c)].owner /\ (row.owner => row.row /\ ~row.off)
  PROVE  SeatsInv' /\ OwnersKept
<1>0. SeatsInv /\ seat \in [Companies \X People -> Seat]
  BY DEF TeamInv, SeatsInv
<1>1. CASE Of(c) \notin Companies \X People
  <2>1. seat' = seat
    BY <1>0, <1>1 DEF Update
  <2> QED
    BY <1>0, <2>1, SeatsSame
<1>2. CASE Of(c) \in Companies \X People
  <2>1. PICK k \in Companies, p \in People : Of(c) = <<k, p>>
    BY <1>2
  <2>2. CASE seat[k, p].row
    <3>1. seat' = [seat EXCEPT ![<<k, p>>] = row]
      BY <1>0, <2>1, <2>2 DEF Update
    <3>2. k \in company
      BY <1>0, <2>2 DEF SeatsInv
    <3>3. row \in Seat /\ row.owner = seat[k, p].owner /\ (row.owner => row.row /\ ~row.off)
      BY <1>2, <2>1, <2>2
    <3> QED
      BY <1>0, <3>1, <3>2, <3>3, SeatWritten
  <2>3. CASE ~seat[k, p].row
    <3>1. seat' = seat
      BY <1>0, <2>1, <2>3 DEF Update
    <3> QED
      BY <1>0, <3>1, SeatsSame
  <2> QED
    BY <2>2, <2>3
<1> QED
  BY <1>1, <1>2

LEMMA Unlocking ==
  ASSUME TeamInv, NEW c \in Calls, founding' = Unlocked(c)
  PROVE  LocksKept(c) /\ founding' \in [People -> Calls \cup {NoCall}]
BY DEF TeamInv, Unlocked, LocksKept

LEMMA RestingIsSound ==
  ASSUME NEW c \in Calls PROVE Resting \in Call /\ Sound(c, Resting)'
BY DEF Resting, Call, CallSteps, Sound

\* A call that begins.
LEMMA CallBegins ==
  ASSUME TeamInv, NEW c \in Calls, NEW step \in CallSteps, NEW k \in Companies \cup {NoCompany}, NEW p \in People,
         Begin(c, step, k, p), UNCHANGED <<company, seat, invitation>>,
         step \in {"look", "off", "remove"} => k \in company,
         step \in {"off", "remove"} => ~seat[k, p].owner,
         step \notin {"insert", "create"},
         founding' \in [People -> Calls \cup {NoCall}], LocksKept(c),
         step = "found" => founding'[p] = c
  PROVE  TeamInv'
<1> DEFINE e == [Resting EXCEPT !.at = step, !.company = k, !.person = p]
<1>1. e \in Call /\ e.at = step /\ e.company = k /\ e.person = p
  BY DEF Call, Resting
<1>2. call' = [call EXCEPT ![c] = e]
  BY DEF Begin
<1> HIDE DEF e
<1>3. Sound(c, e)'
  BY <1>1 DEF Sound
<1> QED
  BY <1>1, <1>2, <1>3, CallMoves, SeatsSame DEF TeamInv

\* A call that goes on with what it is about, or hangs up.
LEMMA CallGoesOn ==
  ASSUME TeamInv, NEW c \in Calls,
         NEW step \in {"insert", "revive", "retire", "mint", "activate"}, CallTo(c, step) \/ Hang(c),
         step = "insert" => CallAt(c, "look"),
         SeatsInv', OwnersKept, UNCHANGED founding, invitation' \in [Invitations -> Invitation]
  PROVE  TeamInv'
<1>1. LocksKept(c) /\ founding' \in [People -> Calls \cup {NoCall}]
  BY DEF TeamInv, LocksKept
<1>2. CASE Hang(c)
  BY <1>1, <1>2, CallMoves, RestingIsSound DEF Hang
<1>3. CASE CallTo(c, step)
  <2>0. LET f == [call[c] EXCEPT !.at = step]
        IN  f \in Call /\ f.at = step /\ f.company = call[c].company
    BY DEF Call, CallSteps, TeamInv
  <2>1. PICK e \in Call : e = [call[c] EXCEPT !.at = step] /\ e.at = step /\ e.company = call[c].company
    BY <2>0
  <2>2. call' = [call EXCEPT ![c] = e]
    BY <1>3, <2>1 DEF CallTo, TeamInv
  <2>3. Sound(c, e)'
    <3>1. step = "insert" => call[c].company \in company
      BY DEF Sound, TeamInv, CallAt
    <3>2. \A k : k \in company => k \in company'
      BY DEF OwnersKept
    <3> QED
      BY <2>1, <3>1, <3>2 DEF Sound
  <2> QED
    BY <1>1, <2>1, <2>2, <2>3, CallMoves
<1> QED
  BY <1>2, <1>3

LEMMA CompanyFounded ==
  ASSUME TeamInv, NEW c \in Calls, ProvisionCommit(c) PROVE TeamInv'
<1>0. /\ SeatsInv /\ seat \in [Companies \X People -> Seat] /\ company \subseteq Companies
      /\ call \in [Calls -> Call] /\ \A d \in Calls : Sound(d, call[d])
  BY DEF TeamInv, SeatsInv
<1>1. PICK p \in People : p = call[c].person /\ founding[p] = c /\ \A k \in Companies : ~seat[k, p].owner
  BY <1>0 DEF ProvisionCommit, CallAt, Sound
<1> DEFINE row == [row |-> TRUE, owner |-> TRUE, joined |-> TRUE, off |-> FALSE]
<1>2. PICK k \in Companies \ company : company' = company \cup {k} /\ seat' = [seat EXCEPT ![<<k, p>>] = row]
  BY <1>1 DEF ProvisionCommit
<1>3. row \in Seat /\ row.row /\ row.owner /\ ~row.off
  BY DEF Seat
<1> HIDE DEF row
<1>4. \A l \in Companies, q \in People : seat'[l, q] = IF l = k /\ q = p THEN row ELSE seat[l, q]
  BY <1>0, <1>2
<1>5. \A q \in People : ~seat[k, q].row /\ ~seat[k, q].owner
  BY <1>0, <1>2 DEF SeatsInv
<1>6. SeatsInv'
  <2>1. company' \subseteq Companies /\ seat' \in [Companies \X People -> Seat]
    BY <1>0, <1>2, <1>3
  <2>2. \A l \in Companies, q \in People : seat'[l, q].row => l \in company'
    BY <1>0, <1>2, <1>4 DEF SeatsInv
  <2>3. \A l \in Companies, q \in People : seat'[l, q].owner => seat'[l, q].row /\ ~seat'[l, q].off
    BY <1>0, <1>3, <1>4, ZenonT(40) DEF SeatsInv
  <2>4. ASSUME NEW l \in company' PROVE \E q \in People : seat'[l, q].owner
    <3>1. CASE l = k
      BY <1>3, <1>4, <3>1
    <3>2. CASE l # k
      <4>1. l \in company /\ l \in Companies
        BY <1>0, <1>2, <3>2
      <4>2. PICK q \in People : seat[l, q].owner
        BY <1>0, <4>1 DEF SeatsInv
      <4> QED
        BY <1>4, <3>2, <4>1, <4>2
    <3> QED
      BY <3>1, <3>2
  <2>5. \A j, l \in Companies, q \in People : seat'[j, q].owner /\ seat'[l, q].owner => j = l
    <3>1. ASSUME NEW j \in Companies, NEW l \in Companies, NEW q \in People, seat'[j, q].owner, seat'[l, q].owner
          PROVE  j = l
      <4>1. CASE q = p
        BY <1>1, <1>4, <3>1, <4>1
      <4>2. CASE q # p
        <5>1. seat[j, q].owner /\ seat[l, q].owner
          BY <1>4, <3>1, <4>2
        <5> QED
          BY <1>0, <5>1 DEF SeatsInv
      <4> QED
        BY <4>1, <4>2
    <3> QED
      BY <3>1
  <2>6. ASSUME NEW l \in Companies, NEW o \in People, NEW q \in People, seat'[l, o].owner, seat'[l, q].owner
        PROVE  o = q
    <3>1. CASE l = k
      BY <1>4, <1>5, <2>6, <3>1
    <3>2. CASE l # k
      BY <1>0, <1>4, <2>6, <3>2, ZenonT(40) DEF SeatsInv
    <3> QED
      BY <3>1, <3>2
  <2> QED
    BY <2>1, <2>2, <2>3, <2>4, <2>5, <2>6 DEF SeatsInv
<1>7. founding' \in [People -> Calls \cup {NoCall}] /\ LocksKept(c)
  BY Unlocking DEF ProvisionCommit
<1>8. /\ call' \in [Calls -> Call] /\ Resting.at = "idle"
      /\ \A d \in Calls : call'[d] = (IF d = c THEN Resting ELSE call[d])
  BY <1>0, RestingIsSound DEF ProvisionCommit, Hang, Resting
<1>9. ASSUME NEW d \in Calls PROVE Sound(d, call[d])'
  <2>1. CASE d = c
      BY <1>8, <2>1, RestingIsSound
  <2>2. CASE d # c
    <3>1. call'[d] = call[d] /\ Sound(d, call[d])
      BY <1>0, <1>8, <2>2
    <3>2. call[d].at \in {"found", "create"} => call[d].person # p
      BY <1>1, <2>2, <3>1 DEF Sound
    <3>3. call[d].at \in {"off", "remove"} => call[d].company # k
      BY <1>2, <3>1 DEF Sound
    <3>4. call[d].at = "create" => \A l \in Companies : ~seat'[l, call[d].person].owner
      BY <1>4, <3>1, <3>2 DEF Sound
    <3>5. call[d].at \in {"off", "remove"} /\ call[d].person \in People => ~seat'[call[d].company, call[d].person].owner
      <4>1. SUFFICES ASSUME call[d].at \in {"off", "remove"}, call[d].person \in People
                     PROVE  ~seat'[call[d].company, call[d].person].owner
        OBVIOUS
      <4>2. call[d].company \in Companies /\ ~seat[call[d].company, call[d].person].owner
        BY <1>0, <3>1, <4>1 DEF Sound
      <4> QED
        BY <1>4, <3>3, <4>1, <4>2
    <3>6. call[d].at \in {"found", "create"} => founding'[call[d].person] = d
      BY <1>7, <2>2, <3>1 DEF Sound, LocksKept
    <3> QED
      BY <1>2, <3>1, <3>4, <3>5, <3>6 DEF Sound
  <2> QED
    BY <2>1, <2>2
<1> QED
  BY <1>6, <1>7, <1>8, <1>9 DEF TeamInv, ProvisionCommit

LEMMA TeamStep == TeamInv /\ [TeamNext]_teamVars => TeamInv'
<1> SUFFICES ASSUME TeamInv, [TeamNext]_teamVars PROVE TeamInv'
  OBVIOUS
<1>0. /\ SeatsInv /\ seat \in [Companies \X People -> Seat] /\ company \subseteq Companies
      /\ call \in [Calls -> Call] /\ \A d \in Calls : Sound(d, call[d])
      /\ invitation \in [Invitations -> Invitation]
      /\ founding \in [People -> Calls \cup {NoCall}]
  BY DEF TeamInv, SeatsInv
<1>1. CASE UNCHANGED teamVars
  <2>1. SeatsInv'
    BY <1>0, <1>1, SeatsSame DEF teamVars
  <2>2. \A c \in Calls : Sound(c, call[c])'
    BY <1>0, <1>1 DEF teamVars, Sound
  <2> QED
    BY <1>0, <1>1, <2>1, <2>2 DEF teamVars, TeamInv
<1>2. ASSUME NEW c \in Calls, NEW p \in People, Provision(c, p) PROVE TeamInv'
  <2>1. founding' \in [People -> Calls \cup {NoCall}] /\ founding'[p] = c /\ LocksKept(c)
    BY <1>0, <1>2, TeamAssumption DEF Provision, MayFound, LocksKept
  <2>2. Begin(c, "found", NoCompany, p) /\ UNCHANGED <<company, seat, invitation>>
    BY <1>2 DEF Provision
  <2> QED
    BY <2>1, <2>2, CallBegins DEF CallSteps
<1>3. ASSUME NEW c \in Calls, ProvisionRead(c) PROVE TeamInv'
  <2>0. SeatsInv' /\ OwnersKept /\ invitation' \in [Invitations -> Invitation]
    BY <1>0, <1>3, SeatsSame DEF ProvisionRead
  <2>1. CASE \E k \in Companies : OwnerOf(k, call[c].person)
    BY <1>3, <2>0, <2>1, Unlocking, RestingIsSound, CallMoves DEF ProvisionRead, Hang
  <2>2. CASE ~\E k \in Companies : OwnerOf(k, call[c].person)
    <3>0. LET f == [call[c] EXCEPT !.at = "create"]
          IN  f \in Call /\ f.at = "create" /\ f.person = call[c].person
      BY <1>0 DEF Call, CallSteps
    <3>1. PICK e \in Call : e = [call[c] EXCEPT !.at = "create"] /\ e.at = "create" /\ e.person = call[c].person
      BY <3>0
    <3>2. call' = [call EXCEPT ![c] = e]
      BY <1>0, <1>3, <2>2, <3>1 DEF ProvisionRead, CallTo
    <3>3. founding' = founding
      BY <1>3, <2>2 DEF ProvisionRead
    <3>4. call[c].person \in People /\ founding[call[c].person] = c
      BY <1>0, <1>3 DEF ProvisionRead, CallAt, Sound
    <3>5. \A k \in Companies : ~seat'[k, e.person].owner
      <4>1. \A k \in Companies : ~seat[k, call[c].person].owner
        BY <1>0, <2>2, <3>4 DEF OwnerOf, SeatsInv
      <4> QED
        BY <2>0, <3>1, <3>4, <4>1, ZenonT(40) DEF OwnersKept
    <3>6. Sound(c, e)'
      BY <3>1, <3>3, <3>4, <3>5 DEF Sound
    <3>7. LocksKept(c)
      BY <3>3 DEF LocksKept
    <3> QED
      BY <1>0, <2>0, <3>1, <3>2, <3>3, <3>6, <3>7, CallMoves
  <2> QED
    BY <2>1, <2>2
<1>4. ASSUME NEW c \in Calls, CallDies(c) PROVE TeamInv'
  BY <1>0, <1>4, SeatsSame, Unlocking, RestingIsSound, CallMoves DEF CallDies, Hang
<1>5. ASSUME NEW c \in Calls, NEW k \in Companies, NEW p \in People, Invite(c, k, p) \/ Resend(c, k, p)
      PROVE  TeamInv'
  <2>1. LocksKept(c) /\ founding' \in [People -> Calls \cup {NoCall}]
    BY <1>0, <1>5 DEF Invite, Resend, LocksKept
  <2>2. CASE Invite(c, k, p)
    BY <2>1, <2>2, CallBegins DEF Invite, CallSteps
  <2>3. CASE Resend(c, k, p)
    BY <2>1, <2>3, CallBegins DEF Resend, CallSteps
  <2> QED
    BY <1>5, <2>2, <2>3
<1>6. ASSUME NEW c \in Calls, NEW k \in Companies, NEW p \in People, NEW step \in {"on", "off", "remove"},
             ChangeSeat(c, k, p, step)
      PROVE  TeamInv'
  <2>1. LocksKept(c) /\ founding' \in [People -> Calls \cup {NoCall}]
    BY <1>0, <1>6 DEF ChangeSeat, LocksKept
  <2>2. k \in company
    BY <1>0, <1>6 DEF ChangeSeat, SeatsInv
  \* The founder is the only owner there is, and so the last.
  <2>3. step \in {"off", "remove"} => ~seat[k, p].owner
    <3>1. SUFFICES ASSUME step \in {"off", "remove"}, seat[k, p].owner PROVE FALSE
      OBVIOUS
    <3>2. PICK o \in People \ {p} : seat[k, o].owner
      BY <1>6, <3>1 DEF ChangeSeat, IsLastActiveOwner
    <3> QED
      BY <1>0, <3>1, <3>2 DEF SeatsInv
  <2> QED
    BY <1>6, <2>1, <2>2, <2>3, CallBegins DEF ChangeSeat, CallSteps
<1>7. ASSUME NEW c \in Calls, InviteLook(c) PROVE TeamInv'
  <2>1. SeatsInv' /\ OwnersKept /\ invitation' \in [Invitations -> Invitation]
    BY <1>0, <1>7, SeatsSame DEF InviteLook
  <2> QED
    BY <1>7, <2>1, CallGoesOn DEF InviteLook
<1>8. ASSUME NEW c \in Calls, SeatInsert(c) PROVE TeamInv'
  <2>1. SeatsInv' /\ OwnersKept
    <3>1. CASE seat' = seat
      BY <1>0, <1>8, <3>1, SeatsSame DEF SeatInsert
    <3>2. CASE seat' # seat
      <4>1. ~seat[Of(c)].row /\ seat' = [seat EXCEPT ![Of(c)] = [NoSeat EXCEPT !.row = TRUE]]
        BY <1>8, <3>2 DEF SeatInsert
      <4>2. Of(c) \in Companies \X People
        BY <1>0, <3>2, <4>1
      <4>3. PICK k \in Companies, p \in People : Of(c) = <<k, p>>
        BY <4>2
      <4>4. k \in company
        BY <1>0, <1>8, <4>3 DEF SeatInsert, CallAt, Of, Sound
      <4>5. ~seat[k, p].owner
        BY <1>0, <4>1, <4>3 DEF SeatsInv
      <4>6. LET f == [NoSeat EXCEPT !.row = TRUE] IN f \in Seat /\ f.owner = FALSE
        BY DEF NoSeat, Seat
      <4>7. PICK row \in Seat : row = [NoSeat EXCEPT !.row = TRUE] /\ row.owner = FALSE
        BY <4>6
      <4>8. seat[k, p].owner \in BOOLEAN
        BY <1>0 DEF Seat
      <4> QED
        BY <1>0, <1>8, <4>1, <4>3, <4>4, <4>5, <4>7, <4>8, SeatWritten DEF SeatInsert
    <3> QED
      BY <3>1, <3>2
  <2> QED
    BY <1>0, <1>8, <2>1, CallGoesOn DEF SeatInsert
<1>9. ASSUME NEW c \in Calls, NEW joined \in BOOLEAN, UNCHANGED company,
             Update(Of(c), [seat[Of(c)] EXCEPT !.joined = joined, !.off = FALSE])
      PROVE  SeatsInv' /\ OwnersKept
  <2> DEFINE row == [seat[Of(c)] EXCEPT !.joined = joined, !.off = FALSE]
  <2>1. Of(c) \in Companies \X People =>
          row \in Seat /\ row.owner = seat[Of(c)].owner /\ row.row = seat[Of(c)].row /\ row.off = FALSE
    BY <1>0 DEF Seat
  <2> HIDE DEF row
  <2> QED
    BY <1>9, <2>1, SeatUpdated DEF row
<1>10. ASSUME NEW c \in Calls, InviteRevive(c) \/ Activate(c) PROVE TeamInv'
  <2>1. Of(c) \in Companies \X People =>
          [seat[Of(c)] EXCEPT !.off = FALSE, !.joined = FALSE] = [seat[Of(c)] EXCEPT !.joined = FALSE, !.off = FALSE]
    BY <1>0 DEF Seat
  <2>2. \E joined \in BOOLEAN : Update(Of(c), [seat[Of(c)] EXCEPT !.joined = joined, !.off = FALSE])
    BY <1>0, <1>10, <2>1 DEF InviteRevive, Activate, Update
  <2>3. SeatsInv' /\ OwnersKept
    BY <1>9, <1>10, <2>2 DEF InviteRevive, Activate
  <2> QED
    BY <1>0, <1>10, <2>3, CallGoesOn DEF InviteRevive, Activate
<1>11. ASSUME NEW c \in Calls, ChangeSeatWrite(c) PROVE TeamInv'
  <2> DEFINE row == IF CallAt(c, "remove") THEN NoSeat ELSE [seat[Of(c)] EXCEPT !.off = CallAt(c, "off")]
  <2>1. Of(c) \in Companies \X People /\ seat[Of(c)].row =>
          row \in Seat /\ row.owner = seat[Of(c)].owner /\ (row.owner => row.row /\ ~row.off)
    <3>1. SUFFICES ASSUME Of(c) \in Companies \X People, seat[Of(c)].row
                   PROVE  row \in Seat /\ row.owner = seat[Of(c)].owner /\ (row.owner => row.row /\ ~row.off)
      OBVIOUS
    <3>2. PICK s \in Seat : s = seat[Of(c)] /\ s.row
      BY <1>0, <3>1
    <3>3. CallAt(c, "off") \/ CallAt(c, "remove") => ~s.owner
      BY <1>0, <3>1, <3>2 DEF CallAt, Of, Sound
    <3>4. [s EXCEPT !.off = TRUE] \in Seat /\ [s EXCEPT !.off = TRUE].owner = s.owner
      BY DEF Seat
    <3>5. [s EXCEPT !.off = FALSE] \in Seat /\ [s EXCEPT !.off = FALSE].owner = s.owner
          /\ [s EXCEPT !.off = FALSE].row = s.row /\ [s EXCEPT !.off = FALSE].off = FALSE
      BY DEF Seat
    <3>6. NoSeat \in Seat /\ NoSeat.owner = FALSE /\ s.owner \in BOOLEAN
      BY DEF Seat, NoSeat
    <3>7. CASE CallAt(c, "remove")
      BY <3>2, <3>3, <3>6, <3>7
    <3>8. CASE CallAt(c, "off")
      <4>1. row = [s EXCEPT !.off = TRUE]
        BY <3>2, <3>8 DEF CallAt
      <4> HIDE DEF row
      <4> QED
        BY <3>2, <3>3, <3>4, <3>8, <4>1
    <3>9. CASE ~CallAt(c, "remove") /\ ~CallAt(c, "off")
      <4>1. row = [s EXCEPT !.off = FALSE]
        BY <3>2, <3>9 DEF CallAt
      <4> HIDE DEF row
      <4> QED
        BY <3>2, <3>5, <4>1
    <3> QED
      BY <3>7, <3>8, <3>9
  <2>2. Update(Of(c), row) /\ UNCHANGED <<company, invitation, founding>> /\ Hang(c)
    BY <1>11 DEF ChangeSeatWrite
  <2> HIDE DEF row
  <2>3. SeatsInv' /\ OwnersKept
    BY <2>1, <2>2, SeatUpdated
  <2> QED
    BY <1>0, <2>2, <2>3, CallGoesOn
<1>12. ASSUME NEW i \in Invitations, NEW row \in Invitation, invitation' = [invitation EXCEPT ![i] = row]
       PROVE  invitation' \in [Invitations -> Invitation]
  BY <1>0, <1>12
<1>13. ASSUME NEW i \in Invitations
       PROVE  [invitation[i] EXCEPT !.status = "DEAD"] \in Invitation
  BY <1>0 DEF Invitation
<1>14. ASSUME NEW c \in Calls, Retire(c) PROVE TeamInv'
  <2>1. invitation' \in [Invitations -> Invitation]
    BY <1>0, <1>13, <1>14 DEF Retire
  <2>2. SeatsInv' /\ OwnersKept
    BY <1>0, <1>14, SeatsSame DEF Retire
  <2> QED
    BY <1>14, <2>1, <2>2, CallGoesOn DEF Retire
<1>15. ASSUME NEW c \in Calls, Mint(c) PROVE TeamInv'
  <2>1. [status |-> "LIVE", company |-> call[c].company, person |-> call[c].person] \in Invitation
    BY <1>0 DEF Invitation, Call
  <2>2. invitation' \in [Invitations -> Invitation]
    BY <1>12, <1>15, <2>1 DEF Mint
  <2>3. SeatsInv' /\ OwnersKept
    BY <1>0, <1>15, SeatsSame DEF Mint
  <2> QED
    BY <1>15, <2>2, <2>3, CallGoesOn DEF Mint
<1>16. ASSUME NEW c \in Calls, ConsumeInviteToken(c) PROVE TeamInv'
  <2>1. invitation' \in [Invitations -> Invitation]
    BY <1>0, <1>13, <1>16 DEF ConsumeInviteToken
  <2>2. SeatsInv' /\ OwnersKept
    BY <1>0, <1>16, SeatsSame DEF ConsumeInviteToken
  <2> QED
    BY <1>16, <2>1, <2>2, CallGoesOn DEF ConsumeInviteToken
<1>17. ASSUME NEW c \in Calls, NEW i \in Invitations, Accept(c, i) PROVE TeamInv'
  <2> DEFINE e == [at |-> "consume", company |-> invitation[i].company,
                   person |-> invitation[i].person, invitation |-> i]
  <2>0. e \in Call /\ e.at = "consume"
    BY <1>0 DEF Call, CallSteps, Invitation
  <2>1. PICK f \in Call : f = e /\ f.at = "consume"
    BY <2>0
  <2>2. call' = [call EXCEPT ![c] = f]
    BY <1>17, <2>1 DEF Accept
  <2>3. SeatsInv' /\ OwnersKept /\ LocksKept(c) /\ UNCHANGED <<invitation, founding>>
    BY <1>0, <1>17, SeatsSame DEF Accept, LocksKept
  <2>4. Sound(c, f)'
    BY <2>1 DEF Sound
  <2> QED
    BY <1>0, <2>2, <2>3, <2>4, CallMoves
<1>18. ASSUME NEW i \in Invitations, InvitationExpires(i) PROVE TeamInv'
  <2>1. invitation' \in [Invitations -> Invitation]
    BY <1>0, <1>13, <1>18 DEF InvitationExpires
  <2>2. SeatsInv' /\ UNCHANGED <<company, seat, call, founding>>
    BY <1>0, <1>18, SeatsSame DEF InvitationExpires
  <2>3. \A c \in Calls : Sound(c, call[c])'
    BY <1>0, <2>2 DEF Sound
  <2> QED
    BY <1>0, <2>1, <2>2, <2>3 DEF TeamInv
<1> QED
  BY <1>1, <1>2, <1>3, <1>4, <1>5, <1>6, <1>7, <1>8, <1>10, <1>11, <1>14, <1>15, <1>16, <1>17, <1>18,
    CompanyFounded DEF TeamNext, CallStep

\* An invitation that was accepted is spent.
SpentInv ==
  /\ accepted \in [Invitations -> {0, 1}]
  /\ \A i \in Invitations : accepted[i] = 1 => invitation[i].status = "DEAD"

LEMMA SpentStep == TeamInv /\ SpentInv /\ [TeamNext]_teamVars => SpentInv'
<1> SUFFICES ASSUME TeamInv, SpentInv, [TeamNext]_teamVars PROVE SpentInv'
  OBVIOUS
<1>0. invitation \in [Invitations -> Invitation]
  BY DEF TeamInv
<1>1. ASSUME UNCHANGED accepted, \A i \in Invitations : invitation[i].status = "DEAD" => invitation'[i].status = "DEAD"
      PROVE  SpentInv'
  BY <1>1 DEF SpentInv
<1>2. ASSUME NEW c \in Calls, ConsumeInviteToken(c) PROVE SpentInv'
  <2>1. CASE UNCHANGED <<invitation, accepted>>
    BY <1>1, <2>1
  <2>2. CASE ~UNCHANGED <<invitation, accepted>>
    <3>1. PICK i : /\ i = call[c].invitation /\ invitation[i].status = "LIVE"
                   /\ invitation' = [invitation EXCEPT ![i].status = "DEAD"]
                   /\ accepted' = [accepted EXCEPT ![i] = @ + 1]
      BY <1>2, <2>2 DEF ConsumeInviteToken, Spendable
    <3>2. CASE i \notin Invitations
      BY <1>0, <1>1, <2>2, <3>1, <3>2 DEF SpentInv
    <3>3. CASE i \in Invitations
      <4>1. accepted[i] = 0
        BY <3>1, <3>3 DEF SpentInv
      <4>2. accepted' = [accepted EXCEPT ![i] = 1]
        BY <3>1, <3>3, <4>1 DEF SpentInv
      <4>3. \A j \in Invitations : invitation'[j].status = IF j = i THEN "DEAD" ELSE invitation[j].status
        BY <1>0, <3>1, <3>3 DEF Invitation
      <4> QED
        BY <3>3, <4>2, <4>3 DEF SpentInv
    <3> QED
      BY <3>2, <3>3
  <2> QED
    BY <2>1, <2>2
<1>3. ASSUME NEW c \in Calls, Retire(c) PROVE SpentInv'
  BY <1>0, <1>1, <1>3 DEF Retire
<1>4. ASSUME NEW c \in Calls, Mint(c) PROVE SpentInv'
  <2>1. PICK i \in Invitations : invitation[i].status = "NONE" /\ \E row : invitation' = [invitation EXCEPT ![i] = row]
    BY <1>4 DEF Mint
  <2> QED
    BY <1>0, <1>1, <1>4, <2>1 DEF Mint
<1>5. ASSUME NEW i \in Invitations, InvitationExpires(i) PROVE SpentInv'
  BY <1>0, <1>1, <1>5 DEF InvitationExpires, Invitation
<1>6. UNCHANGED <<invitation, accepted>> => SpentInv'
  BY <1>1
<1>7. ASSUME NEW c \in Calls,
             \/ ProvisionRead(c) \/ ProvisionCommit(c) \/ CallDies(c) \/ InviteLook(c) \/ SeatInsert(c)
             \/ InviteRevive(c) \/ Activate(c) \/ ChangeSeatWrite(c)
             \/ \E i \in Invitations : Accept(c, i)
             \/ \E p \in People : \/ Provision(c, p)
                                  \/ \E k \in Companies : Invite(c, k, p) \/ Resend(c, k, p)
                                  \/ \E k \in Companies, step \in {"on", "off", "remove"} : ChangeSeat(c, k, p, step)
      PROVE  UNCHANGED <<invitation, accepted>>
  BY <1>7 DEF ProvisionRead, ProvisionCommit, CallDies, InviteLook, SeatInsert, InviteRevive, Activate,
    ChangeSeatWrite, Accept, Provision, Invite, Resend, ChangeSeat
<1>8. UNCHANGED teamVars => UNCHANGED <<invitation, accepted>>
  BY DEF teamVars
<1> QED
  BY <1>2, <1>3, <1>4, <1>5, <1>6, <1>7, <1>8 DEF TeamNext, CallStep

\* At most one of what there is at most one of.
LEMMA AtMostOne ==
  ASSUME NEW S, \A x, y \in S : x = y PROVE Cardinality(S) <= 1
<1>1. CASE S = {}
  BY <1>1, FS_EmptySet
<1>2. CASE S # {}
  <2>1. PICK x : S = {x}
    BY <1>2
  <2> QED
    BY <2>1, FS_Singleton
<1> QED
  BY <1>1, <1>2

\* "One owner, one tenant": however often a signup is sent, at once or again after
\* a transaction died, a person founds one company, whose founder nobody can take
\* the seat of (provisionTenant, setMemberActive, removeMember).
THEOREM OneCompany == TeamSpec => []OneCompanyPerFounder
<1>1. TeamInit => TeamInv
  BY TeamStart
<1>2. TeamInv /\ [TeamNext]_teamVars => TeamInv'
  BY TeamStep
<1>3. TeamInv => OneCompanyPerFounder
  <2> SUFFICES ASSUME SeatsInv PROVE OneCompanyPerFounder
    BY DEF TeamInv
  <2>1. ASSUME NEW p \in People PROVE Cardinality({k \in Companies : OwnerOf(k, p)}) <= 1
    BY AtMostOne DEF SeatsInv, OwnerOf
  <2>2. ASSUME NEW k \in company PROVE \E p \in People : OwnerOf(k, p) /\ ~seat[k, p].off
    <3>1. k \in Companies
      BY DEF SeatsInv
    <3>2. PICK p \in People : seat[k, p].owner
      BY DEF SeatsInv
    <3> QED
      BY <3>1, <3>2 DEF SeatsInv, OwnerOf
  <2> QED
    BY <2>1, <2>2 DEF OneCompanyPerFounder
<1> QED
  BY <1>1, <1>2, <1>3, PTL DEF TeamSpec

\* "The atomic single-use guard that stops two browsers accepting the same
\* invitation": it is accepted at most once (consumeInviteToken).
THEOREM InvitationSpentOnce == TeamSpec => []InvitationIsSpentOnce
<1> DEFINE I == TeamInv /\ SpentInv
<1>1. TeamInit => I
  BY TeamStart DEF TeamInit, SpentInv
<1>2. I /\ [TeamNext]_teamVars => I'
  BY TeamStep, SpentStep
<1>3. I => InvitationIsSpentOnce
  BY DEF SpentInv, InvitationIsSpentOnce
<1> QED
  BY <1>1, <1>2, <1>3, PTL DEF TeamSpec

\* Without calls nothing is accepted.
Uncalled == Calls = {} => \A i \in Invitations : accepted[i] = 0

LEMMA TeamTypesCorrect == TeamSpec => []TeamTypeOK
<1> DEFINE I == TeamInv /\ SpentInv /\ Uncalled
<1>1. TeamInit => I
  BY TeamStart DEF TeamInit, SpentInv, Uncalled
<1>2. I /\ [TeamNext]_teamVars => I'
  <2>1. Uncalled /\ [TeamNext]_teamVars => Uncalled'
    BY DEF Uncalled, TeamNext, InvitationExpires, teamVars
  <2> QED
    BY <2>1, TeamStep, SpentStep
<1>3. I => TeamTypeOK
  <2> SUFFICES ASSUME I PROVE accepted \in [Invitations -> 0 .. Cardinality(Calls)]
    BY DEF TeamInv, SeatsInv, TeamTypeOK
  <2>1. CASE Calls = {}
    <3>1. Cardinality(Calls) = 0
      BY <2>1, FS_EmptySet
    <3> QED
      BY <2>1, <3>1 DEF SpentInv, Uncalled
  <2>2. CASE Calls # {}
    <3>1. Cardinality(Calls) \in Nat /\ Cardinality(Calls) # 0
      BY <2>2, TeamAssumption, FS_CardinalityType, FS_EmptySet
    <3> QED
      BY <3>1 DEF SpentInv
  <2> QED
    BY <2>1, <2>2
<1> QED
  BY <1>1, <1>2, <1>3, PTL DEF TeamSpec

-----------------------------------------------------------------------------
(* Orders.                                                                 *)

\* An order, whatever its items add up to.
OrderRow == [status : OrderStatuses \cup {"NONE"}, token : Tokens \cup {NoToken}, items : Nat]

\* A buyer at the items holds an order of his token; an order staff are at work on was
\* placed; an order carries its token alone.
TokensInv ==
  /\ order \in [Orders -> OrderRow]
  /\ buyer \in [Buyers -> Buyer]
  /\ clerk \in [Clerks -> Clerk]
  /\ receipt \in [Tokens -> SUBSET Orders]
  /\ \A b \in Buyers : ~BuyerAt(b, "idle") => buyer[b].token \in Tokens
  /\ \A b \in Buyers : BuyerAt(b, "items") => buyer[b].order \in WithToken(buyer[b].token)
  /\ \A c \in Clerks : clerk[c].at # "idle" => clerk[c].order \in Orders /\ Placed(clerk[c].order)
  /\ \A k \in Tokens, o, p \in Orders : o \in WithToken(k) /\ p \in WithToken(k) => o = p
  /\ \A k \in Tokens : receipt[k] \subseteq WithToken(k)

\* Orders keep their tokens, and none is placed.
OrdersKept ==
  /\ order' \in [Orders -> OrderRow]
  /\ \A o \in Orders : order'[o].token = order[o].token /\ (Placed(o) <=> order'[o].status # "NONE")

\* What a submission may have become.
BuyerWritten(b) ==
  \E e \in Buyer :
    /\ buyer' = [buyer EXCEPT ![b] = e]
    /\ e.at # "idle" => e.token \in Tokens
    /\ e.at = "items" => e.order \in WithToken(e.token)'

ClerkWritten(c) ==
  \E e \in Clerk :
    /\ clerk' = [clerk EXCEPT ![c] = e]
    /\ e.at # "idle" => e.order \in Orders /\ Placed(e.order)

LEMMA OrdersStart == OrdersInit => TokensInv
<1> USE OrderLinksAssumption
<1> SUFFICES ASSUME OrdersInit PROVE TokensInv
  OBVIOUS
<1>1. order \in [Orders -> OrderRow] /\ \A o \in Orders : order[o].status = "NONE"
  BY DEF OrdersInit, OrderRow, NotPlaced
<1>2. NoBuyer \in Buyer /\ NoClerk \in Clerk
  BY DEF NoBuyer, NoClerk, Buyer, Clerk, OrderStatuses
<1>3. buyer \in [Buyers -> Buyer] /\ clerk \in [Clerks -> Clerk]
  BY <1>2 DEF OrdersInit
<1>4. receipt \in [Tokens -> SUBSET Orders]
  BY DEF OrdersInit
<1> QED
  BY <1>1, <1>3, <1>4 DEF OrdersInit, TokensInv, BuyerAt, NoBuyer, NoClerk, WithToken, Placed

LEMMA NobodyIsSound == NoBuyer \in Buyer /\ NoClerk \in Clerk /\ NoBuyer.at = "idle" /\ NoClerk.at = "idle"
BY OrderLinksAssumption DEF NoBuyer, NoClerk, Buyer, Clerk, OrderStatuses

\* A step that leaves the tokens of the orders alone.
LEMMA TokensStay ==
  ASSUME TokensInv, OrdersKept,
         UNCHANGED buyer \/ \E b \in Buyers : BuyerWritten(b),
         UNCHANGED clerk \/ \E c \in Clerks : ClerkWritten(c),
         receipt' \in [Tokens -> SUBSET Orders],
         \A k \in Tokens : receipt'[k] \subseteq WithToken(k)
  PROVE  TokensInv'
<1>1. \A k : WithToken(k)' = WithToken(k)
  BY DEF OrdersKept, WithToken, Placed
<1>2. \A o \in Orders : Placed(o)' <=> Placed(o)
  BY DEF OrdersKept, Placed
<1>3. /\ buyer' \in [Buyers -> Buyer]
      /\ \A b \in Buyers : buyer'[b].at # "idle" => buyer'[b].token \in Tokens
      /\ \A b \in Buyers : buyer'[b].at = "items" => buyer'[b].order \in WithToken(buyer'[b].token)
  <2>1. CASE UNCHANGED buyer
    BY <2>1 DEF TokensInv, BuyerAt
  <2>2. ASSUME NEW b \in Buyers, BuyerWritten(b)
        PROVE  /\ buyer' \in [Buyers -> Buyer]
               /\ \A d \in Buyers : buyer'[d].at # "idle" => buyer'[d].token \in Tokens
               /\ \A d \in Buyers : buyer'[d].at = "items" => buyer'[d].order \in WithToken(buyer'[d].token)
    <3>1. PICK e \in Buyer : /\ buyer' = [buyer EXCEPT ![b] = e]
                             /\ e.at # "idle" => e.token \in Tokens
                             /\ e.at = "items" => e.order \in WithToken(e.token)
      BY <1>1, <2>2 DEF BuyerWritten
    <3> QED
      BY <3>1 DEF TokensInv, BuyerAt
  <2> QED
    BY <2>1, <2>2
<1>4. /\ clerk' \in [Clerks -> Clerk]
      /\ \A c \in Clerks : clerk'[c].at # "idle" => clerk'[c].order \in Orders /\ Placed(clerk'[c].order)
  <2>1. CASE UNCHANGED clerk
    BY <2>1 DEF TokensInv
  <2>2. ASSUME NEW c \in Clerks, ClerkWritten(c)
        PROVE  /\ clerk' \in [Clerks -> Clerk]
               /\ \A d \in Clerks : clerk'[d].at # "idle" => clerk'[d].order \in Orders /\ Placed(clerk'[d].order)
    <3>1. PICK e \in Clerk : /\ clerk' = [clerk EXCEPT ![c] = e]
                             /\ e.at # "idle" => e.order \in Orders /\ Placed(e.order)
      BY <2>2 DEF ClerkWritten
    <3> QED
      BY <3>1 DEF TokensInv
  <2> QED
    BY <2>1, <2>2
<1>5. (\A b \in Buyers : BuyerAt(b, "items") => buyer[b].order \in WithToken(buyer[b].token))'
  BY <1>1, <1>3 DEF BuyerAt
<1>6. (\A c \in Clerks : clerk[c].at # "idle" => clerk[c].order \in Orders /\ Placed(clerk[c].order))'
  BY <1>2, <1>4
<1>7. (\A k \in Tokens, o, p \in Orders : o \in WithToken(k) /\ p \in WithToken(k) => o = p)'
  BY <1>1 DEF TokensInv
<1>8. (\A k \in Tokens : receipt[k] \subseteq WithToken(k))'
  BY <1>1
<1>9. (\A b \in Buyers : ~BuyerAt(b, "idle") => buyer[b].token \in Tokens)'
  BY <1>3 DEF BuyerAt
<1> QED
  BY <1>3, <1>4, <1>5, <1>6, <1>7, <1>8, <1>9 DEF TokensInv, OrdersKept

LEMMA SameOrdersKept == ASSUME TokensInv, UNCHANGED order PROVE OrdersKept
BY DEF TokensInv, OrdersKept, Placed

\* One order changes its status or its items.
LEMMA OrderChanged ==
  ASSUME TokensInv, NEW o \in Orders, NEW row \in OrderRow, order' = [order EXCEPT ![o] = row],
         row.token = order[o].token, Placed(o) <=> row.status # "NONE"
  PROVE  OrdersKept
BY DEF TokensInv, OrdersKept, Placed

\* The form's order is placed: the unique index saw none of its token.
LEMMA OrderPlaced ==
  ASSUME TokensInv, NEW b \in Buyers, InsertOrder(b) PROVE TokensInv'
<1>0. /\ order \in [Orders -> OrderRow] /\ buyer \in [Buyers -> Buyer] /\ clerk \in [Clerks -> Clerk]
      /\ buyer[b].token \in Tokens /\ buyer[b].at = "insert" /\ UNCHANGED <<clerk, receipt>>
  BY DEF TokensInv, InsertOrder, BuyerAt
<1>1. CASE UNCHANGED order /\ BuyerTo(b, "raced")
  <2>1. LET f == [buyer[b] EXCEPT !.at = "raced"]
        IN  f \in Buyer /\ f.at = "raced" /\ f.token = buyer[b].token /\ buyer' = [buyer EXCEPT ![b] = f]
    BY <1>0, <1>1 DEF Buyer, BuyerTo
  <2>2. BuyerWritten(b)
    BY <1>0, <2>1 DEF BuyerWritten
  <2> QED
    BY <1>0, <1>1, <2>2, SameOrdersKept, TokensStay DEF TokensInv
<1>2. ASSUME FreshToken(buyer[b].token), NEW o \in Orders, ~Placed(o),
             order' = [order EXCEPT ![o] = [status |-> "PENDING_CONFIRMATION", token |-> buyer[b].token, items |-> 0]],
             buyer' = [buyer EXCEPT ![b].at = "items", ![b].order = o]
      PROVE  TokensInv'
  <2>1. PICK k \in Tokens : k = buyer[b].token /\ WithToken(k) = {}
    BY <1>0, <1>2 DEF FreshToken
  <2>2. [status |-> "PENDING_CONFIRMATION", token |-> k, items |-> 0] \in OrderRow
    BY DEF OrderRow, OrderStatuses
  <2>3. PICK row \in OrderRow : order' = [order EXCEPT ![o] = row] /\ row.token = k /\ row.status # "NONE"
    BY <1>2, <2>1, <2>2
  <2>4. order' \in [Orders -> OrderRow] /\ \A p \in Orders : order'[p] = IF p = o THEN row ELSE order[p]
    BY <1>0, <2>3
  <2>5. WithToken(k)' = {o} /\ \A j \in Tokens \ {k} : WithToken(j)' = WithToken(j)
    BY <1>2, <2>1, <2>3, <2>4 DEF WithToken, Placed
  <2>6. \A p \in Orders : Placed(p) => Placed(p)'
    BY <1>2, <2>4 DEF Placed
  <2>7. LET f == [buyer[b] EXCEPT !.at = "items", !.order = o]
        IN  f \in Buyer /\ f.at = "items" /\ f.token = k /\ f.order = o /\ buyer' = [buyer EXCEPT ![b] = f]
    BY <1>0, <1>2, <2>1 DEF Buyer
  <2>8. PICK e \in Buyer : e.at = "items" /\ e.token = k /\ e.order = o /\ buyer' = [buyer EXCEPT ![b] = e]
    BY <2>7
  <2>9. /\ buyer' \in [Buyers -> Buyer]
        /\ \A d \in Buyers : buyer'[d].at # "idle" => buyer'[d].token \in Tokens
        /\ \A d \in Buyers : buyer'[d].at = "items" =>
             (buyer'[d].token = k /\ buyer'[d].order = o)
             \/ (buyer'[d].token \in Tokens /\ buyer'[d].order \in WithToken(buyer'[d].token))
    BY <1>0, <2>8 DEF TokensInv, BuyerAt
  <2>10. (\A d \in Buyers : BuyerAt(d, "items") => buyer[d].order \in WithToken(buyer[d].token))'
    BY <2>1, <2>5, <2>9 DEF BuyerAt
  <2>11. (\A j \in Tokens, p, q \in Orders : p \in WithToken(j) /\ q \in WithToken(j) => p = q)'
    BY <2>5 DEF TokensInv
  <2>12. (\A j \in Tokens : receipt[j] \subseteq WithToken(j))'
    <3>1. \A j \in Tokens : receipt[j] \subseteq WithToken(j)
      BY DEF TokensInv
    <3> QED
      BY <1>0, <2>1, <2>5, <3>1
  <2>13. (\A c \in Clerks : clerk[c].at # "idle" => clerk[c].order \in Orders /\ Placed(clerk[c].order))'
    BY <1>0, <2>6 DEF TokensInv
  <2>14. (\A d \in Buyers : ~BuyerAt(d, "idle") => buyer[d].token \in Tokens)'
    BY <2>9 DEF BuyerAt
  <2> QED
    BY <1>0, <2>4, <2>9, <2>10, <2>11, <2>12, <2>13, <2>14 DEF TokensInv
<1> QED
  BY <1>1, <1>2 DEF InsertOrder

LEMMA OrdersStep == TokensInv /\ [OrdersNext]_orderVars => TokensInv'
<1> SUFFICES ASSUME TokensInv, [OrdersNext]_orderVars PROVE TokensInv'
  OBVIOUS
<1>0. /\ order \in [Orders -> OrderRow] /\ buyer \in [Buyers -> Buyer] /\ clerk \in [Clerks -> Clerk]
      /\ receipt \in [Tokens -> SUBSET Orders] /\ \A k \in Tokens : receipt[k] \subseteq WithToken(k)
      /\ \A b \in Buyers : buyer[b].at # "idle" => buyer[b].token \in Tokens
      /\ \A c \in Clerks : clerk[c].at # "idle" => clerk[c].order \in Orders /\ Placed(clerk[c].order)
  BY DEF TokensInv, BuyerAt
<1>q. \A q \in {0} \cup Quantities : q \in Nat
  BY OrderLinksAssumption
<1>1. CASE UNCHANGED <<order, buyer, clerk, receipt>>
  BY <1>0, <1>1, SameOrdersKept, TokensStay
<1>2. ASSUME NEW b \in Buyers, NEW e \in Buyer, buyer' = [buyer EXCEPT ![b] = e],
             e.at # "idle" => e.token \in Tokens, e.at # "items"
      PROVE  BuyerWritten(b)
  BY <1>2 DEF BuyerWritten
<1>3. ASSUME NEW b \in Buyers, BuyerDone(b) PROVE BuyerWritten(b)
  BY <1>2, <1>3, NobodyIsSound DEF BuyerDone
<1>4. ASSUME NEW b \in Buyers, buyer[b].at # "idle", NEW step \in {"room", "batch", "recheck"}, BuyerTo(b, step)
      PROVE  BuyerWritten(b)
  <2>1. LET f == [buyer[b] EXCEPT !.at = step]
        IN  f \in Buyer /\ f.at = step /\ f.token = buyer[b].token /\ buyer' = [buyer EXCEPT ![b] = f]
    BY <1>0, <1>4 DEF Buyer, BuyerTo
  <2> QED
    BY <1>0, <1>2, <1>4, <2>1
<1>5. ASSUME NEW b \in Buyers, BuyerWritten(b), UNCHANGED <<order, clerk, receipt>> PROVE TokensInv'
  BY <1>0, <1>5, SameOrdersKept, TokensStay
<1>6. ASSUME NEW b \in Buyers, NEW k \in Tokens, NEW q \in Quantities, Submit(b, k, q) PROVE TokensInv'
  <2>1. LET f == [NoBuyer EXCEPT !.at = "replay", !.token = k, !.quantity = q]
        IN  f \in Buyer /\ f.at = "replay" /\ f.token = k
    BY DEF NoBuyer, Buyer
  <2>2. BuyerWritten(b)
    BY <1>2, <1>6, <2>1 DEF Submit
  <2> QED
    BY <1>5, <1>6, <2>2 DEF Submit
<1>7. ASSUME NEW b \in Buyers, Replay(b) PROVE TokensInv'
  <2>1. buyer[b].at # "idle" /\ buyer[b].token \in Tokens
    BY <1>0, <1>7 DEF Replay
  <2>2. BuyerWritten(b)
    BY <1>3, <1>4, <1>7, <2>1 DEF Replay
  <2>3. receipt' \in [Tokens -> SUBSET Orders] /\ \A k \in Tokens : receipt'[k] \subseteq WithToken(k)
    BY <1>0, <1>7, <2>1 DEF Replay, GiveReceipt, WithToken
  <2> QED
    BY <1>7, <2>2, <2>3, SameOrdersKept, TokensStay DEF Replay
<1>8. ASSUME NEW b \in Buyers, CheckRoom(b) \/ BuyerLost(b) PROVE TokensInv'
  <2>1. buyer[b].at # "idle" /\ UNCHANGED <<order, clerk, receipt>>
    BY <1>8 DEF CheckRoom, BuyerLost, BuyerAt
  <2>2. BuyerDone(b) \/ BuyerTo(b, "batch")
    BY <1>8 DEF CheckRoom, BuyerLost
  <2> QED
    BY <1>3, <1>4, <1>5, <2>1, <2>2
<1>9. ASSUME NEW b \in Buyers, ReadBatch(b) PROVE TokensInv'
  <2>1. LET f == [buyer[b] EXCEPT !.at = "recheck", !.inBatch = (link.batch = "OPEN")]
        IN  f \in Buyer /\ f.at = "recheck" /\ f.token = buyer[b].token /\ buyer' = [buyer EXCEPT ![b] = f]
    <3>1. buyer' = [buyer EXCEPT ![b] = [buyer[b] EXCEPT !.at = "recheck", !.inBatch = (link.batch = "OPEN")]]
      BY <1>0, <1>9 DEF ReadBatch
    <3>2. (link.batch = "OPEN") \in BOOLEAN
      OBVIOUS
    <3>3. \A open \in BOOLEAN : LET f == [buyer[b] EXCEPT !.at = "recheck", !.inBatch = open]
                                IN  f \in Buyer /\ f.at = "recheck" /\ f.token = buyer[b].token
      BY <1>0 DEF Buyer
    <3> QED
      BY <3>1, <3>2, <3>3
  <2>2. buyer[b].token \in Tokens
    BY <1>0, <1>9 DEF ReadBatch, BuyerAt
  <2>3. BuyerWritten(b)
    BY <1>2, <2>1, <2>2
  <2> QED
    BY <1>5, <1>9, <2>3 DEF ReadBatch
<1>10. ASSUME NEW b \in Buyers, RecheckBatch(b) PROVE TokensInv'
  <2>1. buyer[b].token \in Tokens
    BY <1>0, <1>10 DEF RecheckBatch, BuyerAt
  <2>2. CASE BuyerDone(b)
    BY <1>3, <1>5, <1>10, <2>2 DEF RecheckBatch
  <2>3. CASE buyer' = [buyer EXCEPT ![b].at = "insert", ![b].inBatch = FALSE]
    <3>1. LET f == [buyer[b] EXCEPT !.at = "insert", !.inBatch = FALSE]
          IN  f \in Buyer /\ f.at = "insert" /\ f.token = buyer[b].token /\ buyer' = [buyer EXCEPT ![b] = f]
      BY <1>0, <2>3 DEF Buyer
    <3>2. BuyerWritten(b)
      BY <1>2, <2>1, <3>1
    <3> QED
      BY <1>5, <1>10, <3>2 DEF RecheckBatch
  <2> QED
    BY <1>10, <2>2, <2>3 DEF RecheckBatch
<1>11. ASSUME NEW b \in Buyers, InsertItems(b) PROVE TokensInv'
  <2>1. PICK o \in Orders, k \in Tokens : o = buyer[b].order /\ k = buyer[b].token /\ o \in WithToken(k)
    BY <1>0, <1>11 DEF InsertItems, TokensInv, BuyerAt, WithToken
  <2>2. LET f == [order[o] EXCEPT !.items = @ + buyer[b].quantity]
        IN  f \in OrderRow /\ f.token = order[o].token /\ f.status = order[o].status /\ order' = [order EXCEPT ![o] = f]
    <3>1. buyer[b].quantity \in Nat /\ order[o].items \in Nat
      BY <1>0, <1>q DEF Buyer, OrderRow
    <3>2. order[o].items + buyer[b].quantity \in Nat
      BY <3>1
    <3>3. order' = [order EXCEPT ![o] = [order[o] EXCEPT !.items = order[o].items + buyer[b].quantity]]
      BY <1>0, <1>11, <2>1 DEF InsertItems
    <3> QED
      BY <1>0, <3>2, <3>3 DEF OrderRow
  <2>3. OrdersKept
    BY <2>2, OrderChanged DEF Placed
  <2>4. receipt' \in [Tokens -> SUBSET Orders] /\ \A j \in Tokens : receipt'[j] \subseteq WithToken(j)
    BY <1>0, <1>11, <2>1 DEF InsertItems, GiveReceipt
  <2>5. BuyerWritten(b)
    BY <1>3, <1>11 DEF InsertItems
  <2> QED
    BY <1>11, <2>3, <2>4, <2>5, TokensStay DEF InsertItems
<1>12. ASSUME NEW c \in Clerks, NEW o \in Orders,
              (\E to \in OrderTargets : MoveOrderRead(c, o, to)) \/ (\E q \in Quantities : EditOrderRead(c, o, q))
       PROVE  TokensInv'
  <2>1. UNCHANGED <<order, buyer, receipt>> /\ Placed(o)
    <3>1. CASE \E to \in OrderTargets : MoveOrderRead(c, o, to)
      BY <3>1 DEF MoveOrderRead
    <3>2. CASE \E q \in Quantities : EditOrderRead(c, o, q)
      BY <3>2 DEF EditOrderRead, Placed
    <3> QED
      BY <1>12, <3>1, <3>2
  <2>2. ClerkWritten(c)
    <3>1. ASSUME NEW to, MoveOrderRead(c, o, to) PROVE ClerkWritten(c)
      <4>1. to \in OrderStatuses
        BY <1>0, <2>1, <3>1 DEF MoveOrderRead, OrderTransitions, OrderRow, OrderStatuses, Placed
      <4>2. LET f == [NoClerk EXCEPT !.at = "move", !.order = o, !.to = to]
            IN  f \in Clerk /\ f.order = o /\ clerk' = [clerk EXCEPT ![c] = f]
        BY <3>1, <4>1 DEF MoveOrderRead, NoClerk, Clerk
      <4> QED
        BY <2>1, <4>2 DEF ClerkWritten
    <3>2. ASSUME NEW q \in Quantities, EditOrderRead(c, o, q) PROVE ClerkWritten(c)
      <4>1. LET f == [NoClerk EXCEPT !.at = "clear", !.order = o, !.quantity = q]
            IN  f \in Clerk /\ f.order = o /\ clerk' = [clerk EXCEPT ![c] = f]
        BY <3>2 DEF EditOrderRead, NoClerk, Clerk, OrderStatuses
      <4> QED
        BY <2>1, <4>1 DEF ClerkWritten
    <3> QED
      BY <1>12, <3>1, <3>2
  <2> QED
    BY <1>0, <2>1, <2>2, SameOrdersKept, TokensStay
<1>13. ASSUME NEW c \in Clerks, MoveOrderWrite(c) \/ EditOrderClear(c) \/ EditOrderFill(c) PROVE TokensInv'
  <2>1. PICK o \in Orders : o = clerk[c].order /\ Placed(o)
    BY <1>0, <1>13 DEF MoveOrderWrite, EditOrderClear, EditOrderFill
  <2>2. UNCHANGED <<buyer, receipt>>
    BY <1>13 DEF MoveOrderWrite, EditOrderClear, EditOrderFill
  <2>3. CASE MoveOrderWrite(c)
    <3>1. clerk[c].to \in OrderStatuses /\ clerk[c].to # "NONE"
      BY <1>0 DEF Clerk, OrderStatuses
    <3>2. LET f == [order[o] EXCEPT !.status = clerk[c].to]
          IN  f \in OrderRow /\ f.token = order[o].token /\ f.status # "NONE" /\ order' = [order EXCEPT ![o] = f]
      BY <1>0, <2>1, <2>3, <3>1 DEF MoveOrderWrite, OrderRow
    <3>3. OrdersKept
      BY <2>1, <3>2, OrderChanged
    <3>4. ClerkWritten(c)
      BY <2>3, NobodyIsSound DEF MoveOrderWrite, ClerkWritten
    <3> QED
      BY <1>0, <2>2, <3>3, <3>4, TokensStay
  <2>4. ASSUME NEW n \in Nat, order' = [order EXCEPT ![o] = [order[o] EXCEPT !.items = n]]
        PROVE  OrdersKept
    <3>1. LET f == [order[o] EXCEPT !.items = n]
          IN  f \in OrderRow /\ f.token = order[o].token /\ f.status = order[o].status
      BY <1>0 DEF OrderRow
    <3> QED
      BY <2>4, <3>1, OrderChanged DEF Placed
  <2>5. CASE EditOrderClear(c)
    <3>1. OrdersKept
      BY <1>0, <2>1, <2>4, <2>5 DEF EditOrderClear
    <3>2. LET f == [clerk[c] EXCEPT !.at = "fill"]
          IN  f \in Clerk /\ f.order = clerk[c].order /\ clerk' = [clerk EXCEPT ![c] = f]
      BY <1>0, <2>5 DEF EditOrderClear, Clerk
    <3>3. ClerkWritten(c)
      BY <2>1, <3>2 DEF ClerkWritten
    <3> QED
      BY <1>0, <2>2, <3>1, <3>3, TokensStay
  <2>6. CASE EditOrderFill(c)
    <3>1. order[o].items \in Nat /\ clerk[c].quantity \in Nat
      BY <1>0, <1>q DEF OrderRow, Clerk
    <3>2. PICK n \in Nat : n = order[o].items + clerk[c].quantity
      BY <3>1
    <3>3. order' = [order EXCEPT ![o] = [order[o] EXCEPT !.items = n]]
      BY <1>0, <2>1, <2>6, <3>2 DEF EditOrderFill
    <3>4. ClerkWritten(c)
      BY <2>6, NobodyIsSound DEF EditOrderFill, ClerkWritten
    <3> QED
      BY <1>0, <2>2, <2>4, <3>3, <3>4, TokensStay
  <2> QED
    BY <1>13, <2>3, <2>5, <2>6
<1>14. (\E to \in DOMAIN LinkTransitions : SetLinkStatus(to)) \/ (\E to \in {"OPEN", "CLOSED"} : UpdateBatch(to))
         \/ UNCHANGED orderVars => UNCHANGED <<order, buyer, clerk, receipt>>
  BY DEF SetLinkStatus, UpdateBatch, orderVars
<1> QED
  BY <1>1, <1>6, <1>7, <1>8, <1>9, <1>10, <1>11, <1>12, <1>13, <1>14, OrderPlaced DEF OrdersNext, BuyerStep

\* "Concurrent use of the same submission token creates one order": every receipt
\* ever given for a token names the one order that carries it, whether the form was
\* sent twice at once or again after a process died, whatever staff do to the order
\* meanwhile (submitOrderLink, createOrder).
THEOREM OneOrder == OrdersSpec => []OneOrderPerToken
<1>1. OrdersInit => TokensInv
  BY OrdersStart
<1>2. TokensInv /\ [OrdersNext]_orderVars => TokensInv'
  BY OrdersStep
<1>3. TokensInv => OneOrderPerToken
  <2> SUFFICES ASSUME TokensInv, NEW k \in Tokens
               PROVE  Cardinality(WithToken(k)) <= 1 /\ receipt[k] \subseteq WithToken(k)
    BY DEF OneOrderPerToken
  <2>1. \A o, p \in WithToken(k) : o = p
    BY DEF TokensInv, WithToken
  <2> QED
    BY <2>1, AtMostOne DEF TokensInv
<1> QED
  BY <1>1, <1>2, <1>3, PTL DEF OrdersSpec

\* What was sold through the form and left alone, and what submissions that found
\* room may still add to it.
Items == [o \in Orders |-> order[o].items]

Sold == {o \in Orders \ edited : Counted(o)}

PastTheCheck == {"batch", "recheck", "insert", "items"}

Pledge == [b \in Buyers |-> IF buyer[b].at \in PastTheCheck THEN buyer[b].quantity ELSE 0]

Bound == Capacity + (Cardinality(Buyers) - 1) * LargestFit

Fits(i, S, p) == SumOver(i, S) + SumOver(p, Buyers) <= Bound

\* Together they stay within the bound; one that found room asked for no more than
\* fits; staff at an order's items have marked it.
RoomInv ==
  /\ TokensInv
  /\ \A c \in Clerks : clerk[c].at \in {"clear", "fill"} => clerk[c].order \in edited
  /\ \A b \in Buyers : buyer[b].at \in PastTheCheck => buyer[b].quantity <= LargestFit
  /\ Fits(Items, Sold, Pledge)

LEMMA LargestIsLargest == Largest \in Quantities /\ \A q \in Quantities : q <= Largest
<1> DEFINE T == {n \in Nat : \A q \in Quantities : q <= n}
<1>0. Quantities \subseteq Nat \ {0} /\ IsFiniteSet(Quantities) /\ Quantities # {}
  BY OrderLinksAssumption
<1>1. PICK v \in [Quantities -> Nat] : v = [q \in Quantities |-> q]
  BY <1>0
<1>2. SumOver(v, Quantities) \in Nat
  BY <1>0, <1>1, SumType
<1>3. ASSUME NEW q \in Quantities PROVE q <= SumOver(v, Quantities)
  <2>1. v[q] <= SumOver(v, Quantities)
    BY <1>0, SumCovers
  <2> QED
    BY <1>1, <2>1
<1>4. PICK n \in T : \A k \in T : n <= k
  <2>1. T # {} /\ T \subseteq Nat
    BY <1>2, <1>3
  <2> HIDE DEF T
  <2> QED
    BY <2>1, Smallest
<1>5. n \in Quantities
  <2>1. SUFFICES ASSUME n \notin Quantities PROVE FALSE
    OBVIOUS
  <2>2. n > 0
    <3>1. PICK q \in Quantities : TRUE
      BY <1>0
    <3> QED
      BY <1>0, <1>4, <3>1
  <2>3. n - 1 \in T
    BY <1>0, <1>4, <2>1, <2>2
  <2> QED
    BY <1>4, <2>2, <2>3
<1>6. \E q \in Quantities : \A p \in Quantities : p <= q
  BY <1>4, <1>5
<1> QED
  BY <1>6 DEF Largest

LEMMA FitType ==
  /\ LargestFit \in Nat /\ (\A q \in Quantities : q <= Capacity => q <= LargestFit)
  /\ LargestFit <= Capacity /\ Cardinality(Buyers) \in Nat
  /\ Bound \in Int /\ Bound >= 0
<1>1. Capacity \in Nat /\ IsFiniteSet(Buyers) /\ Quantities \subseteq Nat
  BY OrderLinksAssumption
<1>2. /\ LargestFit \in Nat /\ (\A q \in Quantities : q <= Capacity => q <= LargestFit)
      /\ LargestFit <= Capacity
  BY <1>1, LargestIsLargest DEF LargestFit
<1>3. Cardinality(Buyers) \in Nat
  BY <1>1, FS_CardinalityType
<1>4. \A n, k, c \in Nat : k <= c => c + (n - 1) * k \in Int /\ c + (n - 1) * k >= 0
  <2>1. SUFFICES ASSUME NEW n \in Nat, NEW k \in Nat, NEW c \in Nat, k <= c
                 PROVE  c + (n - 1) * k \in Int /\ c + (n - 1) * k >= 0
    OBVIOUS
  <2>2. (n - 1) * k = n * k - k /\ n * k \in Nat
    OBVIOUS
  <2> QED
    BY <2>1, <2>2
<1> QED
  BY <1>1, <1>2, <1>3, <1>4 DEF Bound

\* Less of what there was.
LEMMA FitsStill ==
  ASSUME NEW i \in [Orders -> Nat], NEW j \in [Orders -> Nat], NEW S \in SUBSET Orders, NEW T \in SUBSET Orders,
         NEW p \in [Buyers -> Nat], NEW r \in [Buyers -> Nat], T \subseteq S, \A o \in T : j[o] <= i[o],
         \A b \in Buyers : r[b] <= p[b], Fits(i, S, p)
  PROVE  Fits(j, T, r)
<1>0. IsFiniteSet(Orders) /\ IsFiniteSet(Buyers)
  BY OrderLinksAssumption
<1>1. SumOver(j, T) <= SumOver(i, S) /\ SumOver(r, Buyers) <= SumOver(p, Buyers)
  BY <1>0, SumGrows
<1>2. SumOver(j, T) \in Nat /\ SumOver(i, S) \in Nat /\ SumOver(r, Buyers) \in Nat /\ SumOver(p, Buyers) \in Nat
  BY <1>0, SumType
<1> QED
  BY <1>1, <1>2, FitType DEF Fits

\* An order without items is placed.
LEMMA FitsEmptyOrder ==
  ASSUME NEW i \in [Orders -> Nat], NEW j \in [Orders -> Nat], NEW S \in SUBSET Orders, NEW T \in SUBSET Orders,
         NEW p \in [Buyers -> Nat], NEW x \in Orders, T \subseteq S \cup {x}, j[x] = 0,
         \A o \in T \ {x} : j[o] = i[o], Fits(i, S, p)
  PROVE  Fits(j, T, p)
<1>0. IsFiniteSet(Orders)
  BY OrderLinksAssumption
<1>1. Fits(j, T \ {x}, p)
  BY FitsStill
<1>2. SumOver(j, T) = SumOver(j, T \ {x})
  <2>1. CASE x \in T
    <3>1. SumOver(j, T) = j[x] + SumOver(j, T \ {x})
      BY <1>0, <2>1, SumTakes
    <3>2. SumOver(j, T \ {x}) \in Nat
      BY <1>0, SumType
    <3> QED
      BY <3>1, <3>2
  <2>2. CASE x \notin T
    <3>1. T \ {x} = T
      BY <2>2
    <3> QED
      BY <3>1
  <2> QED
    BY <2>1, <2>2
<1> QED
  BY <1>1, <1>2 DEF Fits

\* A submission's items become those of its order.
LEMMA FitsItems ==
  ASSUME NEW i \in [Orders -> Nat], NEW j \in [Orders -> Nat], NEW S \in SUBSET Orders,
         NEW p \in [Buyers -> Nat], NEW r \in [Buyers -> Nat], NEW x \in Orders, NEW b \in Buyers,
         \A o \in Orders \ {x} : j[o] = i[o], j[x] = i[x] + p[b],
         \A d \in Buyers \ {b} : r[d] = p[d], r[b] = 0, Fits(i, S, p)
  PROVE  Fits(j, S, r)
<1>0. IsFiniteSet(Orders) /\ IsFiniteSet(Buyers)
  BY OrderLinksAssumption
<1>1. SumOver(p, Buyers) + r[b] = SumOver(r, Buyers) + p[b]
  BY <1>0, SumChanges
<1>2. SumOver(j, S) \in Nat /\ SumOver(i, S) \in Nat /\ SumOver(r, Buyers) \in Nat /\ SumOver(p, Buyers) \in Nat
  BY <1>0, SumType
<1>3. SumOver(j, S) <= SumOver(i, S) + p[b]
  <2>1. CASE x \in S
    <3>1. SumOver(i, S) + j[x] = SumOver(j, S) + i[x]
      BY <1>0, <2>1, SumChanges
    <3> QED
      BY <1>2, <3>1
  <2>2. CASE x \notin S
    <3>1. SumOver(i, S) = SumOver(j, S)
      BY <1>0, <2>2, SumSame
    <3> QED
      BY <1>2, <3>1
  <2> QED
    BY <2>1, <2>2
<1> QED
  BY <1>1, <1>2, <1>3, FitType DEF Fits

\* A submission finds room: the others may have found some that is left no more.
LEMMA FitsAfterTheCheck ==
  ASSUME NEW i \in [Orders -> Nat], NEW S \in SUBSET Orders, NEW r \in [Buyers -> Nat], NEW b \in Buyers,
         SumOver(i, S) + r[b] <= Capacity, \A d \in Buyers : r[d] <= LargestFit
  PROVE  Fits(i, S, r)
<1>0. IsFiniteSet(Orders) /\ IsFiniteSet(Buyers) /\ Capacity \in Nat
  BY OrderLinksAssumption
<1>1. SumOver(r, Buyers) = r[b] + SumOver(r, Buyers \ {b})
  BY <1>0, SumTakes
<1>2. SumOver(r, Buyers \ {b}) <= Cardinality(Buyers \ {b}) * LargestFit
  BY <1>0, SumWithin, FitType
<1>3. Cardinality(Buyers \ {b}) = Cardinality(Buyers) - 1
  BY <1>0, FS_RemoveElement
<1>4. SumOver(i, S) \in Nat /\ SumOver(r, Buyers \ {b}) \in Nat /\ r[b] \in Nat
  BY <1>0, SumType
<1>5. PICK n \in Int : n = (Cardinality(Buyers) - 1) * LargestFit
  BY FitType
<1>6. SumOver(r, Buyers \ {b}) <= n
  BY <1>2, <1>3, <1>5
<1> QED
  BY <1>0, <1>1, <1>4, <1>5, <1>6 DEF Fits, Bound

\* What the program adds up.
AddsItems(ms, g) ==
  g = [s \in SUBSET ms |-> IF s = {} THEN 0 ELSE order[Chosen(s)].items + g[s \ {Chosen(s)}]]

LEMMA QuantityIsSum ==
  ASSUME order \in [Orders -> OrderRow], NEW S \in SUBSET Orders
  PROVE  QuantityOf(S) = SumOver(Items, S) /\ QuantityOf(S) \in Nat /\ Items \in [Orders -> Nat]
<1>0. IsFiniteSet(Orders) /\ Items \in [Orders -> Nat] /\ IsFiniteSet(S)
  BY OrderLinksAssumption, FS_Subset DEF Items, OrderRow
<1>1. PICK g : IsTable(Items, Orders, g)
  BY <1>0, SumsTable
<1>2. \A s \in SUBSET Orders : s # {} => Items[Chosen(s)] = order[Chosen(s)].items
  BY ChosenIn DEF Items
<1>3. \E f : AddsItems(S, f)
  <2> DEFINE f == [s \in SUBSET S |-> g[s]]
  <2>1. ASSUME NEW s \in SUBSET S
        PROVE  f[s] = IF s = {} THEN 0 ELSE order[Chosen(s)].items + f[s \ {Chosen(s)}]
    BY <1>1, <1>2 DEF IsTable, Adds, Entry
  <2>2. AddsItems(S, f)
    BY <2>1 DEF AddsItems
  <2> QED
    BY <2>2
<1>4. PICK f : f = (CHOOSE x : AddsItems(S, x))
  OBVIOUS
<1>5. AddsItems(S, f)
  BY <1>3, <1>4, Zenon
<1>6. Adds(Items, S, f)
  BY <1>2, <1>5 DEF AddsItems, Adds, Entry
<1>7. f[S] = g[S]
  BY <1>0, <1>1, <1>6, TablesAgree DEF IsTable
<1>8. QuantityOf(S) = f[S]
  BY <1>4 DEF QuantityOf, MapThenFoldSet, AddsItems, Chosen
<1>9. QuantityOf(S) = SumOver(Items, S)
  BY <1>1, <1>7, <1>8 DEF IsTable
<1> QED
  BY <1>0, <1>9, SumType

\* A buyer's step that finds no room leaves the pledges as they are, or less.
LEMMA PledgesStay ==
  ASSUME TokensInv, NEW b \in Buyers,
         \/ Replay(b) \/ (CheckRoom(b) /\ BuyerDone(b)) \/ ReadBatch(b) \/ RecheckBatch(b) \/ InsertOrder(b)
         \/ BuyerLost(b) \/ \E k \in Tokens, q \in Quantities : Submit(b, k, q),
         NEW d \in Buyers, buyer'[d].at \in PastTheCheck
  PROVE  buyer[d].at \in PastTheCheck /\ buyer'[d].quantity = buyer[d].quantity
<1>0. buyer \in [Buyers -> Buyer] /\ buyer[b] \in Buyer
  BY DEF TokensInv
<1>1. CASE BuyerDone(b)
  BY <1>0, <1>1 DEF BuyerDone, NoBuyer, PastTheCheck
<1>2. ASSUME NEW e, buyer' = [buyer EXCEPT ![b] = e],
             e.at \in PastTheCheck => buyer[b].at \in PastTheCheck /\ e.quantity = buyer[b].quantity
      PROVE  buyer[d].at \in PastTheCheck /\ buyer'[d].quantity = buyer[d].quantity
  BY <1>0, <1>2
<1>3. CASE Replay(b) /\ BuyerTo(b, "room")
  <2>1. [buyer[b] EXCEPT !.at = "room"].at = "room"
    BY <1>0 DEF Buyer
  <2> QED
    BY <1>2, <1>3, <2>1 DEF BuyerTo, PastTheCheck
<1>4. CASE ReadBatch(b)
  <2>1. LET e == [buyer[b] EXCEPT !.at = "recheck", !.inBatch = (link.batch = "OPEN")]
        IN  e.quantity = buyer[b].quantity /\ buyer' = [buyer EXCEPT ![b] = e]
    BY <1>0, <1>4 DEF ReadBatch, Buyer
  <2> QED
    BY <1>2, <1>4, <2>1 DEF ReadBatch, BuyerAt, PastTheCheck
<1>5. CASE RecheckBatch(b) /\ ~BuyerDone(b)
  <2>1. LET e == [buyer[b] EXCEPT !.at = "insert", !.inBatch = FALSE]
        IN  e.quantity = buyer[b].quantity /\ buyer' = [buyer EXCEPT ![b] = e]
    BY <1>0, <1>5 DEF RecheckBatch, Buyer
  <2> QED
    BY <1>2, <1>5, <2>1 DEF RecheckBatch, BuyerAt, PastTheCheck
<1>6. CASE InsertOrder(b) /\ BuyerTo(b, "raced")
  <2>1. [buyer[b] EXCEPT !.at = "raced"].at = "raced"
    BY <1>0 DEF Buyer
  <2> QED
    BY <1>2, <1>6, <2>1 DEF BuyerTo, PastTheCheck
<1>7. CASE InsertOrder(b) /\ ~BuyerTo(b, "raced")
  <2>1. PICK o \in Orders : buyer' = [buyer EXCEPT ![b].at = "items", ![b].order = o]
    BY <1>7 DEF InsertOrder
  <2>2. LET e == [buyer[b] EXCEPT !.at = "items", !.order = o]
        IN  e.quantity = buyer[b].quantity /\ buyer' = [buyer EXCEPT ![b] = e]
    BY <1>0, <2>1 DEF Buyer
  <2> QED
    BY <1>2, <1>7, <2>2 DEF InsertOrder, BuyerAt, PastTheCheck
<1>8. ASSUME NEW k \in Tokens, NEW q \in Quantities, Submit(b, k, q)
      PROVE  buyer[d].at \in PastTheCheck /\ buyer'[d].quantity = buyer[d].quantity
  <2>1. [NoBuyer EXCEPT !.at = "replay", !.token = k, !.quantity = q].at = "replay"
    BY DEF NoBuyer
  <2> QED
    BY <1>2, <1>8, <2>1 DEF Submit, PastTheCheck
<1> QED
  BY <1>1, <1>3, <1>4, <1>5, <1>6, <1>7, <1>8 DEF Replay, BuyerLost

\* What staff do takes orders and items away from what was sold and left alone.
LEMMA SoldStays ==
  ASSUME TokensInv,
         \/ UNCHANGED order /\ edited \subseteq edited'
         \/ \E c \in Clerks : MoveOrderWrite(c)
         \/ \E c \in Clerks : (EditOrderClear(c) \/ EditOrderFill(c)) /\ clerk[c].order \in edited,
         NEW o \in Sold'
  PROVE  o \in Sold /\ order'[o].items = order[o].items
<1>0. order \in [Orders -> OrderRow] /\ o \in Orders /\ o \notin edited' /\ order'[o].status \notin Ended \cup {"NONE"}
  BY DEF TokensInv, Sold, Counted, Placed, Killed
<1>1. CASE UNCHANGED order /\ edited \subseteq edited'
  BY <1>0, <1>1 DEF Sold, Counted, Placed, Killed
<1>2. ASSUME NEW c \in Clerks, MoveOrderWrite(c) PROVE o \in Sold /\ order'[o].items = order[o].items
  <2>1. clerk[c].order \in Orders /\ Placed(clerk[c].order)
    BY <1>2 DEF MoveOrderWrite, TokensInv
  <2>2. order' = [order EXCEPT ![clerk[c].order].status = clerk[c].to]
    BY <1>2 DEF MoveOrderWrite
  <2>3. order'[o].items = order[o].items /\ (o # clerk[c].order => order'[o].status = order[o].status)
    BY <1>0, <2>1, <2>2 DEF OrderRow
  <2>4. o \notin edited /\ o \notin Killed
    BY <1>0, <1>2 DEF MoveOrderWrite
  <2>5. Placed(o)
    BY <1>0, <2>1, <2>3 DEF Placed
  <2> QED
    BY <1>0, <2>3, <2>4, <2>5 DEF Sold, Counted
<1>3. ASSUME NEW c \in Clerks, EditOrderClear(c) \/ EditOrderFill(c), clerk[c].order \in edited
      PROVE  o \in Sold /\ order'[o].items = order[o].items
  <2>1. o # clerk[c].order /\ UNCHANGED edited
    <3>1. UNCHANGED edited
      BY <1>3 DEF EditOrderClear, EditOrderFill
    <3> QED
      BY <1>0, <1>3, <3>1
  <2>2. order'[o] = order[o]
    BY <1>0, <1>3, <2>1 DEF EditOrderClear, EditOrderFill
  <2> QED
    BY <1>0, <2>1, <2>2 DEF Sold, Counted, Placed, Killed
<1> QED
  BY <1>1, <1>2, <1>3

\* The parts of RoomInv after a step, with the sums of the new state given.
LEMMA RoomNext ==
  ASSUME TokensInv',
         \A c \in Clerks : clerk'[c].at \in {"clear", "fill"} => clerk'[c].order \in edited',
         \A b \in Buyers : buyer'[b].at \in PastTheCheck => buyer'[b].quantity <= LargestFit,
         NEW j, j = Items', NEW T, T = Sold', NEW r, r = Pledge', Fits(j, T, r)
  PROVE  RoomInv'
<1>1. (SumOver(Items, Sold))' = SumOver(j, T)
  <2>1. (SumOver(Items, Sold))' = SumOver(Items', Sold')
    BY DEF SumOver, MapThenSumSet, MapThenFoldSet
  <2> QED
    BY <2>1
<1>2. (SumOver(Pledge, Buyers))' = SumOver(r, Buyers)
  <2>1. (SumOver(Pledge, Buyers))' = SumOver(Pledge', Buyers)
    BY DEF SumOver, MapThenSumSet, MapThenFoldSet
  <2> QED
    BY <2>1
<1>3. Fits(Items, Sold, Pledge)'
  BY <1>1, <1>2 DEF Fits
<1> QED
  BY <1>3 DEF RoomInv

LEMMA RoomTypes ==
  ASSUME TokensInv
  PROVE  /\ Items \in [Orders -> Nat] /\ Sold \in SUBSET Orders /\ Pledge \in [Buyers -> Nat]
         /\ \A o \in Orders : Items[o] = order[o].items
         /\ \A b \in Buyers : Pledge[b] = IF buyer[b].at \in PastTheCheck THEN buyer[b].quantity ELSE 0
<1>1. \A q \in {0} \cup Quantities : q \in Nat
  BY OrderLinksAssumption
<1>2. \A b \in Buyers : buyer[b].quantity \in Nat
  BY <1>1 DEF TokensInv, Buyer
<1>3. \A o \in Orders : order[o].items \in Nat
  BY DEF TokensInv, OrderRow
<1> QED
  BY <1>2, <1>3 DEF Items, Sold, Pledge

LEMMA RoomTypesNext ==
  ASSUME TokensInv'
  PROVE  /\ Items' \in [Orders -> Nat] /\ Sold' \in SUBSET Orders /\ Pledge' \in [Buyers -> Nat]
         /\ \A o \in Orders : Items'[o] = order'[o].items
         /\ \A b \in Buyers : Pledge'[b] = IF buyer'[b].at \in PastTheCheck THEN buyer'[b].quantity ELSE 0
<1>1. \A q \in {0} \cup Quantities : q \in Nat
  BY OrderLinksAssumption
<1>2. \A b \in Buyers : buyer'[b].quantity \in Nat
  BY <1>1 DEF TokensInv, Buyer
<1>3. \A o \in Orders : order'[o].items \in Nat
  BY DEF TokensInv, OrderRow
<1> QED
  BY <1>2, <1>3 DEF Items, Sold, Pledge

\* A step after which no more is sold or pledged.
LEMMA RoomKept ==
  ASSUME RoomInv, TokensInv',
         \A c \in Clerks : clerk'[c].at \in {"clear", "fill"} => clerk'[c].order \in edited',
         \A o \in Sold' : o \in Sold /\ order'[o].items = order[o].items,
         \A d \in Buyers : buyer'[d].at \in PastTheCheck =>
           buyer[d].at \in PastTheCheck /\ buyer'[d].quantity = buyer[d].quantity
  PROVE  RoomInv'
<1>0. TokensInv
  BY DEF RoomInv
<1>1. PICK i \in [Orders -> Nat], S \in SUBSET Orders, p \in [Buyers -> Nat] : i = Items /\ S = Sold /\ p = Pledge
  BY <1>0, RoomTypes
<1>2. PICK j \in [Orders -> Nat], T \in SUBSET Orders, r \in [Buyers -> Nat] : j = Items' /\ T = Sold' /\ r = Pledge'
  BY RoomTypesNext
<1>3. T \subseteq S /\ \A o \in T : j[o] = i[o]
  BY <1>0, <1>1, <1>2, RoomTypes, RoomTypesNext
<1>4. \A o \in T : j[o] <= i[o]
  BY <1>3
<1>5. \A b \in Buyers : r[b] <= p[b]
  <2> SUFFICES ASSUME NEW b \in Buyers PROVE r[b] <= p[b]
    OBVIOUS
  <2>1. /\ r[b] = IF buyer'[b].at \in PastTheCheck THEN buyer'[b].quantity ELSE 0
        /\ p[b] = IF buyer[b].at \in PastTheCheck THEN buyer[b].quantity ELSE 0
    BY <1>0, <1>1, <1>2, RoomTypes, RoomTypesNext
  <2>2. p[b] \in Nat /\ r[b] \in Nat
    OBVIOUS
  <2> QED
    BY <2>1, <2>2
<1>6. Fits(j, T, r)
  BY <1>1, <1>3, <1>4, <1>5, FitsStill DEF RoomInv
<1>7. \A b \in Buyers : buyer'[b].at \in PastTheCheck => buyer'[b].quantity <= LargestFit
  BY DEF RoomInv
<1> QED
  BY <1>2, <1>6, <1>7, RoomNext

LEMMA RoomStep == RoomInv /\ [OrdersNext]_orderVars => RoomInv'
<1> SUFFICES ASSUME RoomInv, [OrdersNext]_orderVars PROVE RoomInv'
  OBVIOUS
<1>0. /\ TokensInv /\ TokensInv'
      /\ order \in [Orders -> OrderRow] /\ buyer \in [Buyers -> Buyer] /\ clerk \in [Clerks -> Clerk]
  BY OrdersStep DEF RoomInv, TokensInv
<1>c. \A c \in Clerks : clerk[c].at \in {"clear", "fill"} => clerk[c].order \in edited
  BY DEF RoomInv
<1>1. CASE UNCHANGED <<order, buyer, clerk, edited>>
  <2>1. Sold' = Sold
    BY <1>1 DEF Sold, Counted, Placed, Killed
  <2> QED
    BY <1>0, <1>1, <1>c, <2>1, RoomKept
<1>2. ASSUME NEW b \in Buyers, UNCHANGED <<order, clerk, edited>>,
             \/ Replay(b) \/ (CheckRoom(b) /\ BuyerDone(b)) \/ ReadBatch(b) \/ RecheckBatch(b) \/ InsertOrder(b)
             \/ BuyerLost(b) \/ \E k \in Tokens, q \in Quantities : Submit(b, k, q)
      PROVE  RoomInv'
  <2>1. Sold' = Sold
    BY <1>2 DEF Sold, Counted, Placed, Killed
  <2>2. \A d \in Buyers : buyer'[d].at \in PastTheCheck =>
           buyer[d].at \in PastTheCheck /\ buyer'[d].quantity = buyer[d].quantity
    BY <1>0, <1>2, PledgesStay
  <2> QED
    BY <1>0, <1>2, <1>c, <2>1, <2>2, RoomKept
<1>3. ASSUME NEW b \in Buyers, CheckRoom(b), ~BuyerDone(b) PROVE RoomInv'
  <2>1. /\ UNCHANGED <<order, clerk, edited>> /\ HasRoom(buyer[b].quantity)
        /\ buyer' = [buyer EXCEPT ![b] = [buyer[b] EXCEPT !.at = "batch"]]
    BY <1>0, <1>3 DEF CheckRoom, BuyerTo
  <2>2. /\ \A d \in Buyers \ {b} : buyer'[d] = buyer[d]
        /\ buyer'[b].at = "batch" /\ buyer'[b].quantity = buyer[b].quantity
        /\ buyer[b].quantity \in {0} \cup Quantities
    BY <1>0, <2>1 DEF Buyer
  <2>3. PICK q \in Nat : q = buyer[b].quantity /\ q \in {0} \cup Quantities
    BY <2>2, OrderLinksAssumption
  <2>4. PICK i \in [Orders -> Nat], S \in SUBSET Orders : i = Items /\ S = Sold
    BY <1>0, RoomTypes
  <2>5. PICK r \in [Buyers -> Nat] : r = Pledge'
    BY <1>0, RoomTypesNext
  <2>6. Items' = i /\ Sold' = S
    BY <2>1, <2>4 DEF Items, Sold, Counted, Placed, Killed
  <2>7. SumOver(i, S) + q <= Capacity
    <3> DEFINE C == {o \in Orders : Counted(o)}
    <3>1. Taken = SumOver(i, C) /\ Taken \in Nat
      BY <1>0, <2>4, QuantityIsSum DEF Taken
    <3>2. SumOver(i, S) <= SumOver(i, C) /\ SumOver(i, S) \in Nat
      <4>1. S \subseteq C /\ C \subseteq Orders /\ IsFiniteSet(Orders) /\ \A o \in S : i[o] <= i[o]
        BY <2>4, OrderLinksAssumption DEF Sold
      <4> HIDE DEF C
      <4> QED
        BY <4>1, SumGrows, SumType
    <3>3. Taken + q <= Capacity /\ Capacity \in Nat
      BY <2>1, <2>3, OrderLinksAssumption DEF HasRoom
    <3> QED
      BY <3>1, <3>2, <3>3
  <2>8. q <= LargestFit
    <3>1. SumOver(i, S) \in Nat /\ Capacity \in Nat
      BY OrderLinksAssumption, SumType
    <3>2. q <= Capacity
      BY <2>7, <3>1
    <3> QED
      BY <2>3, <3>2, FitType
  <2>9. \A d \in Buyers : buyer'[d].at \in PastTheCheck => buyer'[d].quantity <= LargestFit
    BY <2>2, <2>3, <2>8 DEF RoomInv
  <2>10. r[b] = q /\ \A d \in Buyers : r[d] <= LargestFit
    <3>1. \A d \in Buyers : r[d] = IF buyer'[d].at \in PastTheCheck THEN buyer'[d].quantity ELSE 0
      BY <1>0, <2>5, RoomTypesNext
    <3>2. 0 <= LargestFit
      BY FitType
    <3> QED
      BY <2>2, <2>3, <2>9, <3>1, <3>2 DEF PastTheCheck
  <2>11. Fits(i, S, r)
    BY <2>7, <2>10, FitsAfterTheCheck
  <2> QED
    BY <1>0, <1>c, <2>1, <2>5, <2>6, <2>9, <2>11, RoomNext
<1>4. ASSUME NEW b \in Buyers, InsertOrder(b), order' # order PROVE RoomInv'
  <2>1. PICK x \in Orders : ~Placed(x) /\ order' = [order EXCEPT ![x] = [status |-> "PENDING_CONFIRMATION",
                                                      token |-> buyer[b].token, items |-> 0]]
    BY <1>4 DEF InsertOrder
  <2>2. UNCHANGED <<clerk, edited>>
    BY <1>4 DEF InsertOrder
  <2>3. PICK i \in [Orders -> Nat], S \in SUBSET Orders, p \in [Buyers -> Nat] : i = Items /\ S = Sold /\ p = Pledge
    BY <1>0, RoomTypes
  <2>4. PICK j \in [Orders -> Nat], T \in SUBSET Orders, r \in [Buyers -> Nat] : j = Items' /\ T = Sold' /\ r = Pledge'
    BY <1>0, RoomTypesNext
  <2>5. order'[x].items = 0 /\ \A o \in Orders \ {x} : order'[o] = order[o]
    BY <1>0, <2>1
  <2>6. j[x] = 0 /\ \A o \in Orders \ {x} : j[o] = i[o]
    BY <1>0, <2>3, <2>4, <2>5, RoomTypes, RoomTypesNext
  <2>7. T \subseteq S \cup {x}
    BY <2>2, <2>3, <2>4, <2>5 DEF Sold, Counted, Placed, Killed
  <2>8. \A d \in Buyers : buyer'[d].at \in PastTheCheck =>
           buyer[d].at \in PastTheCheck /\ buyer'[d].quantity = buyer[d].quantity
    BY <1>0, <1>4, PledgesStay
  <2>9. \A d \in Buyers : r[d] <= p[d]
    <3> SUFFICES ASSUME NEW d \in Buyers PROVE r[d] <= p[d]
      OBVIOUS
    <3>1. /\ r[d] = IF buyer'[d].at \in PastTheCheck THEN buyer'[d].quantity ELSE 0
          /\ p[d] = IF buyer[d].at \in PastTheCheck THEN buyer[d].quantity ELSE 0
      BY <1>0, <2>3, <2>4, RoomTypes, RoomTypesNext
    <3>2. p[d] \in Nat /\ r[d] \in Nat
      OBVIOUS
    <3> QED
      BY <2>8, <3>1, <3>2
  <2>10. Fits(j, T, p)
    BY <2>3, <2>6, <2>7, FitsEmptyOrder DEF RoomInv
  <2>11. Fits(j, T, r)
    <3>1. \A o \in T : j[o] <= j[o]
      OBVIOUS
    <3> QED
      BY <2>9, <2>10, <3>1, FitsStill
  <2>12. \A d \in Buyers : buyer'[d].at \in PastTheCheck => buyer'[d].quantity <= LargestFit
    BY <2>8 DEF RoomInv
  <2> QED
    BY <1>0, <1>c, <2>2, <2>4, <2>11, <2>12, RoomNext
<1>5. ASSUME NEW b \in Buyers, InsertItems(b) PROVE RoomInv'
  <2>1. PICK x \in Orders : x = buyer[b].order
    BY <1>5 DEF InsertItems, TokensInv, RoomInv, WithToken
  <2>2. /\ UNCHANGED <<clerk, edited>> /\ buyer[b].at = "items"
        /\ buyer' = [buyer EXCEPT ![b] = NoBuyer]
        /\ order' = [order EXCEPT ![x] = [order[x] EXCEPT !.items = order[x].items + buyer[b].quantity]]
    BY <1>0, <1>5, <2>1 DEF InsertItems, BuyerAt, BuyerDone
  <2>3. PICK i \in [Orders -> Nat], S \in SUBSET Orders, p \in [Buyers -> Nat] : i = Items /\ S = Sold /\ p = Pledge
    BY <1>0, RoomTypes
  <2>4. PICK j \in [Orders -> Nat], T \in SUBSET Orders, r \in [Buyers -> Nat] : j = Items' /\ T = Sold' /\ r = Pledge'
    BY <1>0, RoomTypesNext
  <2>5. /\ order'[x].items = order[x].items + buyer[b].quantity /\ order'[x].status = order[x].status
        /\ \A o \in Orders \ {x} : order'[o] = order[o]
    BY <1>0, <2>2 DEF OrderRow
  <2>6. buyer'[b].at = "idle" /\ \A d \in Buyers \ {b} : buyer'[d] = buyer[d]
    BY <1>0, <2>2 DEF NoBuyer
  <2>7. T = S
    BY <2>2, <2>3, <2>4, <2>5 DEF Sold, Counted, Placed, Killed
  <2>8. p[b] = buyer[b].quantity /\ r[b] = 0 /\ \A d \in Buyers \ {b} : r[d] = p[d]
    BY <1>0, <2>2, <2>3, <2>4, <2>6, RoomTypes, RoomTypesNext DEF PastTheCheck
  <2>9. j[x] = i[x] + p[b] /\ \A o \in Orders \ {x} : j[o] = i[o]
    BY <1>0, <2>3, <2>4, <2>5, <2>8, RoomTypes, RoomTypesNext
  <2>10. Fits(j, T, r)
    BY <2>3, <2>7, <2>8, <2>9, FitsItems DEF RoomInv
  <2>11. \A d \in Buyers : buyer'[d].at \in PastTheCheck => buyer'[d].quantity <= LargestFit
    BY <2>6 DEF RoomInv, PastTheCheck
  <2> QED
    BY <1>0, <1>c, <2>2, <2>4, <2>10, <2>11, RoomNext
<1>6. ASSUME NEW c \in Clerks, NEW o \in Orders,
             (\E to \in OrderTargets : MoveOrderRead(c, o, to)) \/ (\E q \in Quantities : EditOrderRead(c, o, q))
      PROVE  RoomInv'
  <2>1. UNCHANGED <<order, buyer>> /\ edited' \in {edited, edited \cup {o}}
    BY <1>6 DEF MoveOrderRead, EditOrderRead
  <2>2. \A x \in Sold' : x \in Sold /\ order'[x].items = order[x].items
    BY <2>1 DEF Sold, Counted, Placed, Killed
  <2>3. ASSUME NEW d \in Clerks, clerk'[d].at \in {"clear", "fill"} PROVE clerk'[d].order \in edited'
    <3>1. \A e \in Clerks \ {c} : clerk'[e] = clerk[e]
      BY <1>0, <1>6 DEF MoveOrderRead, EditOrderRead
    <3>2. CASE \E to \in OrderTargets : MoveOrderRead(c, o, to)
      <4>1. clerk'[c].at = "move"
        BY <1>0, <3>2 DEF MoveOrderRead, NoClerk
      <4> QED
        BY <1>c, <2>1, <2>3, <3>1, <4>1
    <3>3. CASE \E q \in Quantities : EditOrderRead(c, o, q)
      <4>1. clerk'[c].order = o /\ edited' = edited \cup {o}
        BY <1>0, <3>3 DEF EditOrderRead, NoClerk
      <4> QED
        BY <1>c, <2>3, <3>1, <4>1
    <3> QED
      BY <1>6, <3>2, <3>3
  <2> QED
    BY <1>0, <2>1, <2>2, <2>3, RoomKept
<1>7. ASSUME NEW c \in Clerks, MoveOrderWrite(c) \/ EditOrderClear(c) \/ EditOrderFill(c) PROVE RoomInv'
  <2>1. UNCHANGED buyer /\ edited \subseteq edited'
    BY <1>7 DEF MoveOrderWrite, EditOrderClear, EditOrderFill
  <2>2. \A x \in Sold' : x \in Sold /\ order'[x].items = order[x].items
    <3>1. EditOrderClear(c) \/ EditOrderFill(c) => clerk[c].order \in edited
      BY <1>c DEF EditOrderClear, EditOrderFill
    <3> QED
      BY <1>0, <1>7, <3>1, SoldStays
  <2>3. ASSUME NEW d \in Clerks, clerk'[d].at \in {"clear", "fill"} PROVE clerk'[d].order \in edited'
    <3>1. CASE d # c
      BY <1>0, <1>7, <1>c, <2>1, <2>3, <3>1 DEF MoveOrderWrite, EditOrderClear, EditOrderFill
    <3>2. CASE d = c
      <4>1. clerk'[c].at # "idle"
        BY <2>3, <3>2
      <4>2. EditOrderClear(c)
        BY <1>0, <1>7, <4>1 DEF MoveOrderWrite, EditOrderFill, NoClerk
      <4>3. clerk'[c].order = clerk[c].order /\ clerk[c].at = "clear"
        BY <1>0, <4>2 DEF EditOrderClear, Clerk
      <4> QED
        BY <1>c, <2>1, <3>2, <4>3
    <3> QED
      BY <3>1, <3>2
  <2> QED
    BY <1>0, <2>1, <2>2, <2>3, RoomKept
<1>8. (\E to \in DOMAIN LinkTransitions : SetLinkStatus(to)) \/ (\E to \in {"OPEN", "CLOSED"} : UpdateBatch(to))
         \/ UNCHANGED orderVars => UNCHANGED <<order, buyer, clerk, edited>>
  BY DEF SetLinkStatus, UpdateBatch, orderVars
<1>9. ASSUME NEW b \in Buyers,
             \/ Replay(b) \/ CheckRoom(b) \/ ReadBatch(b) \/ RecheckBatch(b) \/ InsertOrder(b)
             \/ BuyerLost(b) \/ \E k \in Tokens, q \in Quantities : Submit(b, k, q)
      PROVE  RoomInv'
  <2>1. UNCHANGED <<clerk, edited>> /\ (UNCHANGED order \/ InsertOrder(b))
    BY <1>9 DEF Replay, CheckRoom, ReadBatch, RecheckBatch, InsertOrder, BuyerLost, Submit
  <2> QED
    BY <1>2, <1>3, <1>4, <1>9, <2>1
<1> QED
  BY <1>1, <1>5, <1>6, <1>7, <1>8, <1>9 DEF OrdersNext, BuyerStep

\* "A rare concurrent race can nudge past the cap", but by no more than the other
\* submissions under way can ask for: together with what they may still add, what was
\* sold through the form stays within the capacity and one largest submission for
\* each buyer but one (submitOrderLink, acceptedQuantity).
THEOREM OversellBounded == OrdersSpec => []OversellIsBounded
<1>1. OrdersInit => RoomInv
  <2> SUFFICES ASSUME OrdersInit PROVE RoomInv
    OBVIOUS
  <2>0. TokensInv
    BY OrdersStart
  <2>1. /\ \A c \in Clerks : clerk[c].at = "idle"
        /\ \A b \in Buyers : buyer[b].at = "idle"
        /\ \A o \in Orders : order[o].status = "NONE"
    BY DEF OrdersInit, NoClerk, NoBuyer, NotPlaced
  <2>2. Sold = {} /\ IsFiniteSet(Buyers) /\ Pledge \in [Buyers -> Nat]
    BY <2>0, <2>1, RoomTypes, OrderLinksAssumption DEF Sold, Counted, Placed
  <2>3. SumOver(Items, Sold) = 0
    BY <2>2, SumEmpty
  <2>4. SumOver(Pledge, Buyers) <= Cardinality(Buyers) * 0
    <3>1. \A b \in Buyers : Pledge[b] <= 0
      BY <2>0, <2>1, RoomTypes DEF PastTheCheck
    <3>2. PICK p \in [Buyers -> Nat] : p = Pledge
      BY <2>2
    <3> QED
      BY <2>2, <3>1, <3>2, SumWithin
  <2>5. SumOver(Pledge, Buyers) \in Nat
    BY <2>2, SumType
  <2>6. Fits(Items, Sold, Pledge)
    BY <2>3, <2>4, <2>5, FitType DEF Fits
  <2> QED
    BY <2>0, <2>1, <2>6 DEF RoomInv, PastTheCheck
<1>2. RoomInv /\ [OrdersNext]_orderVars => RoomInv'
  BY RoomStep
<1>3. RoomInv => OversellIsBounded
  <2> SUFFICES ASSUME RoomInv PROVE QuantityOf(Sold) <= Bound
    BY DEF OversellIsBounded, Sold, Bound
  <2>1. QuantityOf(Sold) = SumOver(Items, Sold) /\ QuantityOf(Sold) \in Nat
    BY QuantityIsSum DEF RoomInv, TokensInv, Sold
  <2>2. SumOver(Pledge, Buyers) \in Nat
    BY RoomTypes, OrderLinksAssumption, SumType DEF RoomInv
  <2> QED
    BY <2>1, <2>2, FitType DEF RoomInv, Fits
<1> QED
  BY <1>1, <1>2, <1>3, PTL DEF OrdersSpec

-----------------------------------------------------------------------------
(* The items of an order.                                                  *)

\* What staff between their two statements, and the form that placed the order, may
\* still add to its items.
FillDue(o) == [c \in Clerks |-> IF clerk[c].at = "fill" /\ clerk[c].order = o THEN Largest ELSE 0]

Buying(b, o) == BuyerAt(b, "items") /\ buyer[b].order = o

BuyDue(o) == IF \E b \in Buyers : Buying(b, o) THEN Largest ELSE 0

LoadFits(n, f, y) == n + SumOver(f, Clerks) + y <= (Cardinality(Clerks) + 1) * Largest

\* One largest edit of each member of staff, and what the form asked for.
ItemsInv ==
  /\ link \in [status : DOMAIN LinkTransitions, batch : {"OPEN", "CLOSED"}]
  /\ edited \subseteq Orders
  /\ \A o \in Orders, b, d \in Buyers : Buying(b, o) /\ Buying(d, o) => b = d
  /\ \A o \in Orders : LoadFits(order[o].items, FillDue(o), BuyDue(o))

LEMMA LoadTypes ==
  /\ Largest \in Nat /\ \A q \in {0} \cup Quantities : q \in Nat /\ q <= Largest
  /\ IsFiniteSet(Clerks) /\ Cardinality(Clerks) \in Nat
  /\ (Cardinality(Clerks) + 1) * Largest \in Nat
  /\ (Cardinality(Clerks) + 1) * Largest = Cardinality(Clerks) * Largest + Largest
  /\ \A f \in [Clerks -> Nat] : SumOver(f, Clerks) \in Nat
<1>1. Quantities \subseteq Nat /\ IsFiniteSet(Clerks)
  BY OrderLinksAssumption
<1>2. Largest \in Nat /\ \A q \in {0} \cup Quantities : q \in Nat /\ q <= Largest
  BY <1>1, LargestIsLargest
<1>3. Cardinality(Clerks) \in Nat
  BY <1>1, FS_CardinalityType
<1>4. \A n, k \in Nat : (n + 1) * k \in Nat
  <2> SUFFICES ASSUME NEW n \in Nat, NEW k \in Nat PROVE (n + 1) * k \in Nat
    OBVIOUS
  <2>1. n * k \in Nat
    OBVIOUS
  <2> QED
    BY <2>1, OneMoreTimes
<1>5. \A f \in [Clerks -> Nat] : SumOver(f, Clerks) \in Nat
  BY <1>1, SumType
<1> QED
  BY <1>1, <1>2, <1>3, <1>4, <1>5, OneMoreTimes

\* No more items, and no more to come.
LEMMA LoadLess ==
  ASSUME NEW n \in Nat, NEW m \in Nat, NEW f \in [Clerks -> Nat], NEW g \in [Clerks -> Nat],
         NEW y \in Nat, NEW z \in Nat, m <= n, z <= y, \A c \in Clerks : g[c] <= f[c], LoadFits(n, f, y)
  PROVE  LoadFits(m, g, z)
<1>1. SumOver(g, Clerks) <= SumOver(f, Clerks)
  BY LoadTypes, SumGrows
<1>2. PICK a \in Nat, b \in Nat, l \in Nat :
        a = SumOver(g, Clerks) /\ b = SumOver(f, Clerks) /\ l = (Cardinality(Clerks) + 1) * Largest
  BY LoadTypes
<1>3. a <= b /\ n + b + y <= l
  BY <1>1, <1>2 DEF LoadFits
<1>4. m + a + z <= l
  BY <1>3
<1> QED
  BY <1>2, <1>4 DEF LoadFits

\* An order without items.
LEMMA LoadEmpty ==
  ASSUME NEW f \in [Clerks -> Nat], \A c \in Clerks : f[c] <= Largest, NEW y \in Nat, y <= Largest
  PROVE  LoadFits(0, f, y)
<1>1. SumOver(f, Clerks) <= Cardinality(Clerks) * Largest
  BY LoadTypes, SumWithin
<1>2. PICK a \in Nat, l \in Nat, k \in Nat :
        a = SumOver(f, Clerks) /\ l = (Cardinality(Clerks) + 1) * Largest /\ k = Largest
  BY LoadTypes
<1>3. PICK m \in Nat : m = Cardinality(Clerks) * Largest /\ l = m + k
  <2>1. \A i, j \in Nat : i * j \in Nat
    OBVIOUS
  <2> QED
    BY <1>2, <2>1, LoadTypes
<1>4. a <= m /\ y <= k
  BY <1>1, <1>2, <1>3
<1>5. 0 + a + y <= l
  BY <1>3, <1>4
<1> QED
  BY <1>2, <1>5 DEF LoadFits

\* The form inserts its items.
LEMMA LoadBought ==
  ASSUME NEW n \in Nat, NEW q \in Nat, q <= Largest, NEW f \in [Clerks -> Nat], LoadFits(n, f, Largest)
  PROVE  LoadFits(n + q, f, 0)
<1>1. PICK a \in Nat, l \in Nat, k \in Nat :
        a = SumOver(f, Clerks) /\ l = (Cardinality(Clerks) + 1) * Largest /\ k = Largest
  BY LoadTypes
<1>2. n + a + k <= l /\ q <= k
  BY <1>1 DEF LoadFits
<1>3. (n + q) + a + 0 <= l
  BY <1>2
<1> QED
  BY <1>1, <1>3 DEF LoadFits

\* A member of staff inserts the items of an edit.
LEMMA LoadFilled ==
  ASSUME NEW n \in Nat, NEW q \in Nat, q <= Largest, NEW f \in [Clerks -> Nat], NEW g \in [Clerks -> Nat],
         NEW y \in Nat, NEW c \in Clerks, f[c] = Largest, g[c] = 0, \A d \in Clerks \ {c} : f[d] = g[d],
         LoadFits(n, f, y)
  PROVE  LoadFits(n + q, g, y)
<1>1. SumOver(f, Clerks) + g[c] = SumOver(g, Clerks) + f[c]
  BY LoadTypes, SumChanges
<1>2. PICK a \in Nat, b \in Nat, l \in Nat, k \in Nat :
        /\ a = SumOver(f, Clerks) /\ b = SumOver(g, Clerks)
        /\ l = (Cardinality(Clerks) + 1) * Largest /\ k = Largest
  BY LoadTypes
<1>3. n + a + y <= l /\ q <= k /\ a + 0 = b + k
  BY <1>1, <1>2 DEF LoadFits
<1>4. (n + q) + b + y <= l
  BY <1>3
<1> QED
  BY <1>2, <1>4 DEF LoadFits

LEMMA DueTypes ==
  ASSUME NEW o \in Orders
  PROVE  /\ FillDue(o) \in [Clerks -> Nat] /\ \A c \in Clerks : FillDue(o)[c] <= Largest
         /\ BuyDue(o) \in Nat /\ BuyDue(o) <= Largest
BY LoadTypes DEF FillDue, BuyDue

LEMMA DueTypesNext ==
  ASSUME NEW o \in Orders
  PROVE  /\ FillDue(o)' \in [Clerks -> Nat] /\ \A c \in Clerks : FillDue(o)'[c] <= Largest
         /\ BuyDue(o)' \in Nat /\ BuyDue(o)' <= Largest
BY LoadTypes DEF FillDue, BuyDue

\* The state of one order after a step, with its sum given.
LEMMA LoadNext ==
  ASSUME NEW o \in Orders, NEW n, n = order'[o].items, NEW f, f = FillDue(o)', NEW y, y = BuyDue(o)',
         LoadFits(n, f, y)
  PROVE  LoadFits(order[o].items, FillDue(o), BuyDue(o))'
<1>1. SumOver(FillDue(o), Clerks)' = SumOver(FillDue(o)', Clerks)
  BY DEF SumOver, MapThenSumSet, MapThenFoldSet
<1>2. SumOver(FillDue(o), Clerks)' = SumOver(f, Clerks)
  BY <1>1
<1> QED
  BY <1>2 DEF LoadFits

\* A step after which no order has more items, nor more to come.
LEMMA ItemsKept ==
  ASSUME TokensInv, TokensInv', ItemsInv, NEW o \in Orders,
         order'[o].items <= order[o].items,
         \A c \in Clerks : clerk'[c].at = "fill" => clerk[c].at = "fill" /\ clerk'[c].order = clerk[c].order,
         \A b \in Buyers : Buying(b, o)' => Buying(b, o)
  PROVE  /\ LoadFits(order[o].items, FillDue(o), BuyDue(o))'
         /\ \A b, d \in Buyers : Buying(b, o)' /\ Buying(d, o)' => b = d
<1>1. PICK n \in Nat, m \in Nat : n = order[o].items /\ m = order'[o].items
  BY DEF TokensInv, OrderRow
<1>2. PICK f \in [Clerks -> Nat], g \in [Clerks -> Nat], y \in Nat, z \in Nat :
        f = FillDue(o) /\ g = FillDue(o)' /\ y = BuyDue(o) /\ z = BuyDue(o)'
  BY DueTypes, DueTypesNext
<1>3. \A c \in Clerks : g[c] <= f[c]
  BY <1>2, LoadTypes DEF FillDue
<1>4. z <= y
  BY <1>2, LoadTypes DEF BuyDue
<1>5. LoadFits(n, f, y)
  BY <1>1, <1>2 DEF ItemsInv
<1>6. LoadFits(m, g, z)
  BY <1>1, <1>3, <1>4, <1>5, LoadLess
<1> QED
  BY <1>1, <1>2, <1>6, LoadNext DEF ItemsInv

\* Only the form that is placing its order gets to its items.
LEMMA BuyersStay ==
  ASSUME TokensInv, NEW b \in Buyers,
         \/ Replay(b) \/ CheckRoom(b) \/ ReadBatch(b) \/ RecheckBatch(b)
         \/ InsertOrder(b) /\ BuyerTo(b, "raced")
         \/ InsertItems(b) \/ BuyerLost(b) \/ \E k \in Tokens, q \in Quantities : Submit(b, k, q)
  PROVE  /\ \A d \in Buyers \ {b} : buyer'[d] = buyer[d]
         /\ buyer'[b].at # "items"
<1>0. buyer \in [Buyers -> Buyer]
  BY DEF TokensInv
<1>1. ASSUME NEW e, buyer' = [buyer EXCEPT ![b] = e], e.at # "items"
      PROVE  (\A d \in Buyers \ {b} : buyer'[d] = buyer[d]) /\ buyer'[b].at # "items"
  BY <1>0, <1>1
<1>2. CASE BuyerDone(b)
  BY <1>1, <1>2, NobodyIsSound DEF BuyerDone
<1>3. ASSUME NEW step \in {"room", "batch", "raced"}, BuyerTo(b, step)
      PROVE  (\A d \in Buyers \ {b} : buyer'[d] = buyer[d]) /\ buyer'[b].at # "items"
  <2>1. [buyer[b] EXCEPT !.at = step].at # "items"
    BY <1>0 DEF Buyer
  <2> QED
    BY <1>1, <1>3, <2>1 DEF BuyerTo
<1>4. CASE ReadBatch(b)
  <2>1. LET e == [buyer[b] EXCEPT !.at = "recheck", !.inBatch = (link.batch = "OPEN")]
        IN  e.at # "items" /\ buyer' = [buyer EXCEPT ![b] = e]
    BY <1>0, <1>4 DEF ReadBatch, Buyer
  <2> QED
    BY <1>1, <2>1
<1>5. CASE buyer' = [buyer EXCEPT ![b].at = "insert", ![b].inBatch = FALSE]
  <2>1. LET e == [buyer[b] EXCEPT !.at = "insert", !.inBatch = FALSE]
        IN  e.at # "items" /\ buyer' = [buyer EXCEPT ![b] = e]
    BY <1>0, <1>5 DEF Buyer
  <2> QED
    BY <1>1, <2>1
<1>6. ASSUME NEW k \in Tokens, NEW q \in Quantities, Submit(b, k, q)
      PROVE  (\A d \in Buyers \ {b} : buyer'[d] = buyer[d]) /\ buyer'[b].at # "items"
  <2>1. [NoBuyer EXCEPT !.at = "replay", !.token = k, !.quantity = q].at = "replay"
    BY DEF NoBuyer
  <2> QED
    BY <1>1, <1>6, <2>1 DEF Submit
<1> QED
  BY <1>2, <1>3, <1>4, <1>5, <1>6 DEF Replay, CheckRoom, RecheckBatch, InsertItems, BuyerLost

LEMMA LinkStep ==
  ASSUME ItemsInv, [OrdersNext]_orderVars
  PROVE  /\ link' \in [status : DOMAIN LinkTransitions, batch : {"OPEN", "CLOSED"}]
         /\ edited' \subseteq Orders
<1>0. link \in [status : DOMAIN LinkTransitions, batch : {"OPEN", "CLOSED"}] /\ edited \subseteq Orders
  BY DEF ItemsInv
<1>1. ASSUME NEW to \in DOMAIN LinkTransitions, SetLinkStatus(to)
      PROVE  link' \in [status : DOMAIN LinkTransitions, batch : {"OPEN", "CLOSED"}] /\ UNCHANGED edited
  BY <1>0, <1>1 DEF SetLinkStatus
<1>2. ASSUME NEW to \in {"OPEN", "CLOSED"}, UpdateBatch(to)
      PROVE  link' \in [status : DOMAIN LinkTransitions, batch : {"OPEN", "CLOSED"}] /\ UNCHANGED edited
  BY <1>0, <1>2 DEF UpdateBatch
<1>3. ASSUME NEW b \in Buyers, BuyerStep(b) \/ \E k \in Tokens, q \in Quantities : Submit(b, k, q)
      PROVE  UNCHANGED <<link, edited>>
  BY <1>3 DEF BuyerStep, Replay, CheckRoom, ReadBatch, RecheckBatch, InsertOrder, InsertItems, BuyerLost, Submit
<1>4. ASSUME NEW c \in Clerks, MoveOrderWrite(c) \/ EditOrderClear(c) \/ EditOrderFill(c)
      PROVE  UNCHANGED link /\ edited' \subseteq Orders
  BY <1>0, <1>4 DEF MoveOrderWrite, EditOrderClear, EditOrderFill, Killed
<1>5. ASSUME NEW c \in Clerks, NEW o \in Orders,
             (\E to \in OrderTargets : MoveOrderRead(c, o, to)) \/ (\E q \in Quantities : EditOrderRead(c, o, q))
      PROVE  UNCHANGED link /\ edited' \subseteq Orders
  BY <1>0, <1>5 DEF MoveOrderRead, EditOrderRead
<1>6. CASE UNCHANGED orderVars
  BY <1>0, <1>6 DEF orderVars
<1> QED
  BY <1>0, <1>1, <1>2, <1>3, <1>4, <1>5, <1>6 DEF OrdersNext

\* The form's order is new: no other submission inserts items for it.
LEMMA ItemsOfNewOrder ==
  ASSUME TokensInv, TokensInv', ItemsInv, NEW b \in Buyers, InsertOrder(b), ~BuyerTo(b, "raced"), NEW o \in Orders
  PROVE  /\ LoadFits(order[o].items, FillDue(o), BuyDue(o))'
         /\ \A d, e \in Buyers : Buying(d, o)' /\ Buying(e, o)' => d = e
<1>1. PICK x \in Orders :
        /\ ~Placed(x)
        /\ order' = [order EXCEPT ![x] = [status |-> "PENDING_CONFIRMATION", token |-> buyer[b].token, items |-> 0]]
        /\ buyer' = [buyer EXCEPT ![b].at = "items", ![b].order = x]
  BY DEF InsertOrder
<1>2. order \in [Orders -> OrderRow] /\ buyer \in [Buyers -> Buyer] /\ UNCHANGED clerk
  BY DEF TokensInv, InsertOrder
<1>3. buyer'[b].order = x /\ \A d \in Buyers \ {b} : buyer'[d] = buyer[d]
  BY <1>1, <1>2 DEF Buyer
<1>4. \A d \in Buyers : Buying(d, o) => Placed(o)
  BY DEF TokensInv, Buying, WithToken
<1>5. CASE o = x
  <2>1. order'[o].items = 0
    BY <1>1, <1>2, <1>5
  <2>2. \A d \in Buyers \ {b} : ~Buying(d, o)'
    BY <1>1, <1>3, <1>4, <1>5 DEF Buying, BuyerAt
  <2>3. PICK f \in [Clerks -> Nat], y \in Nat :
          f = FillDue(o)' /\ y = BuyDue(o)' /\ y <= Largest /\ \A c \in Clerks : f[c] <= Largest
    BY DueTypesNext
  <2>4. LoadFits(0, f, y)
    BY <2>3, LoadEmpty
  <2> QED
    BY <2>1, <2>2, <2>3, <2>4, LoadNext
<1>6. CASE o # x
  <2>1. order'[o] = order[o] /\ order[o].items \in Nat
    BY <1>1, <1>2, <1>6 DEF OrderRow
  <2>2. \A d \in Buyers : Buying(d, o)' => Buying(d, o)
    BY <1>3, <1>6 DEF Buying, BuyerAt
  <2> QED
    BY <1>2, <2>1, <2>2, ItemsKept
<1> QED
  BY <1>5, <1>6

\* The items of the form: what was to come is there.
LEMMA ItemsBought ==
  ASSUME TokensInv, TokensInv', ItemsInv, NEW b \in Buyers, InsertItems(b), NEW o \in Orders
  PROVE  /\ LoadFits(order[o].items, FillDue(o), BuyDue(o))'
         /\ \A d, e \in Buyers : Buying(d, o)' /\ Buying(e, o)' => d = e
<1>1. order \in [Orders -> OrderRow] /\ buyer \in [Buyers -> Buyer] /\ UNCHANGED clerk
  BY DEF TokensInv, InsertItems
<1>2. PICK x \in Orders : x = buyer[b].order
  BY DEF InsertItems, TokensInv, WithToken
<1>3. buyer'[b].at # "items" /\ \A d \in Buyers \ {b} : buyer'[d] = buyer[d]
  BY BuyersStay
<1>4. PICK q \in Nat : q = buyer[b].quantity /\ q <= Largest
  BY <1>1, LoadTypes DEF Buyer
<1>5. order' = [order EXCEPT ![x] = [order[x] EXCEPT !.items = order[x].items + q]]
  BY <1>1, <1>2, <1>4 DEF InsertItems
<1>6. \A d \in Buyers : Buying(d, o)' => Buying(d, o)
  BY <1>3 DEF Buying, BuyerAt
<1>7. CASE o = x
  <2>1. Buying(b, o)
    BY <1>2, <1>7 DEF Buying, InsertItems
  <2>2. BuyDue(o) = Largest /\ BuyDue(o)' = 0
    <3>1. \A d \in Buyers : ~Buying(d, o)'
      BY <1>3, <1>6, <2>1 DEF ItemsInv, Buying, BuyerAt
    <3> QED
      BY <2>1, <3>1 DEF BuyDue
  <2>3. PICK n \in Nat : n = order[o].items /\ order'[o].items = n + q
    BY <1>1, <1>5, <1>7 DEF OrderRow
  <2>4. PICK f \in [Clerks -> Nat] : f = FillDue(o) /\ f = FillDue(o)'
    BY <1>1, DueTypes DEF FillDue
  <2>5. LoadFits(n, f, Largest)
    BY <2>2, <2>3, <2>4 DEF ItemsInv
  <2>6. LoadFits(n + q, f, 0)
    BY <1>4, <2>5, LoadBought
  <2> QED
    BY <1>6, <2>2, <2>3, <2>4, <2>6, LoadNext DEF ItemsInv
<1>8. CASE o # x
  <2>1. order'[o] = order[o] /\ order[o].items \in Nat
    BY <1>1, <1>5, <1>8 DEF OrderRow
  <2> QED
    BY <1>1, <1>6, <2>1, ItemsKept
<1> QED
  BY <1>7, <1>8

\* An edit deletes the items and then inserts its own.
LEMMA ItemsEdited ==
  ASSUME TokensInv, TokensInv', ItemsInv, NEW c \in Clerks, EditOrderClear(c) \/ EditOrderFill(c), NEW o \in Orders
  PROVE  LoadFits(order[o].items, FillDue(o), BuyDue(o))'
<1>1. order \in [Orders -> OrderRow] /\ clerk \in [Clerks -> Clerk] /\ UNCHANGED buyer
  BY DEF TokensInv, EditOrderClear, EditOrderFill
<1>2. PICK x \in Orders : x = clerk[c].order
  BY DEF EditOrderClear, EditOrderFill, TokensInv
<1>3. /\ clerk'[c].at = "fill" => clerk'[c].order = x
      /\ \A d \in Clerks \ {c} : clerk'[d] = clerk[d]
  BY <1>1, <1>2 DEF EditOrderClear, EditOrderFill, NoClerk, Clerk
<1>4. \A b \in Buyers : Buying(b, o)' => Buying(b, o)
  BY <1>1 DEF Buying, BuyerAt
<1>5. CASE o # x
  <2>1. order'[o] = order[o] /\ order[o].items \in Nat
    BY <1>1, <1>2, <1>5 DEF EditOrderClear, EditOrderFill, OrderRow
  <2>2. PICK f \in [Clerks -> Nat], n \in Nat, y \in Nat :
          f = FillDue(o) /\ n = order[o].items /\ y = BuyDue(o)
    BY <2>1, DueTypes
  <2>3. f = FillDue(o)' /\ y = BuyDue(o)' /\ n = order'[o].items
    <3>1. \A d \in Clerks : clerk'[d].at = "fill" /\ clerk'[d].order = o
                              <=> clerk[d].at = "fill" /\ clerk[d].order = o
      BY <1>2, <1>3, <1>5
    <3> QED
      BY <1>1, <2>1, <2>2, <3>1 DEF FillDue, BuyDue, Buying, BuyerAt
  <2>4. LoadFits(n, f, y)
    BY <2>2 DEF ItemsInv
  <2> QED
    BY <2>3, <2>4, LoadNext
<1>6. CASE o = x /\ EditOrderClear(c)
  <2>1. order'[o].items = 0
    BY <1>1, <1>2, <1>6 DEF EditOrderClear, OrderRow
  <2>2. PICK f \in [Clerks -> Nat], y \in Nat :
          f = FillDue(o)' /\ y = BuyDue(o)' /\ y <= Largest /\ \A d \in Clerks : f[d] <= Largest
    BY DueTypesNext
  <2>3. LoadFits(0, f, y)
    BY <2>2, LoadEmpty
  <2> QED
    BY <2>1, <2>2, <2>3, LoadNext
<1>7. CASE o = x /\ EditOrderFill(c)
  <2>1. PICK q \in Nat : q = clerk[c].quantity /\ q <= Largest
    BY <1>1, LoadTypes DEF Clerk
  <2>2. PICK n \in Nat : n = order[o].items /\ order'[o].items = n + q
    BY <1>1, <1>2, <1>7, <2>1 DEF EditOrderFill, OrderRow
  <2>3. PICK f \in [Clerks -> Nat], g \in [Clerks -> Nat], y \in Nat :
          f = FillDue(o) /\ g = FillDue(o)' /\ y = BuyDue(o)
    BY DueTypes, DueTypesNext
  <2>4. y = BuyDue(o)'
    BY <1>1, <2>3 DEF BuyDue, Buying, BuyerAt
  <2>5. clerk[c].at = "fill" /\ clerk'[c].at = "idle"
    BY <1>1, <1>7 DEF EditOrderFill, NoClerk
  <2>6. f[c] = Largest /\ g[c] = 0 /\ \A d \in Clerks \ {c} : f[d] = g[d]
    BY <1>2, <1>3, <1>7, <2>3, <2>5 DEF FillDue
  <2>7. LoadFits(n, f, y)
    BY <2>2, <2>3 DEF ItemsInv
  <2>8. LoadFits(n + q, g, y)
    BY <2>1, <2>6, <2>7, LoadFilled
  <2> QED
    BY <2>2, <2>3, <2>4, <2>8, LoadNext
<1> QED
  BY <1>5, <1>6, <1>7

LEMMA ItemsStep == TokensInv /\ ItemsInv /\ [OrdersNext]_orderVars => ItemsInv'
<1> SUFFICES ASSUME TokensInv, ItemsInv, [OrdersNext]_orderVars PROVE ItemsInv'
  OBVIOUS
<1>0. /\ TokensInv' /\ order \in [Orders -> OrderRow] /\ buyer \in [Buyers -> Buyer]
      /\ clerk \in [Clerks -> Clerk]
  BY OrdersStep DEF TokensInv
<1>n. \A o \in Orders : order[o].items \in Nat
  BY <1>0 DEF OrderRow
<1> DEFINE Good(o) == /\ LoadFits(order[o].items, FillDue(o), BuyDue(o))'
                      /\ \A b, d \in Buyers : Buying(b, o)' /\ Buying(d, o)' => b = d
<1>g. SUFFICES ASSUME NEW o \in Orders PROVE Good(o)
  <2>1. /\ link' \in [status : DOMAIN LinkTransitions, batch : {"OPEN", "CLOSED"}]
        /\ edited' \subseteq Orders
    BY LinkStep
  <2>2. \A o \in Orders : LoadFits(order[o].items, FillDue(o), BuyDue(o))'
    BY <1>g
  <2>3. \A o \in Orders, b, d \in Buyers : Buying(b, o)' /\ Buying(d, o)' => b = d
    BY <1>g
  <2> QED
    BY <2>1, <2>2, <2>3 DEF ItemsInv
<1>1. CASE UNCHANGED <<order, buyer, clerk>>
  <2>1. \A b \in Buyers : Buying(b, o)' => Buying(b, o)
    BY <1>1 DEF Buying, BuyerAt
  <2>2. order'[o].items <= order[o].items
    BY <1>1, <1>n
  <2> QED
    BY <1>0, <1>1, <2>1, <2>2, ItemsKept
<1>2. ASSUME NEW b \in Buyers,
             \/ Replay(b) \/ CheckRoom(b) \/ ReadBatch(b) \/ RecheckBatch(b)
             \/ InsertOrder(b) /\ BuyerTo(b, "raced")
             \/ BuyerLost(b) \/ \E k \in Tokens, q \in Quantities : Submit(b, k, q),
             UNCHANGED <<order, clerk>>
      PROVE  Good(o)
  <2>1. \A d \in Buyers : Buying(d, o)' => Buying(d, o)
    BY <1>2, BuyersStay DEF Buying, BuyerAt
  <2>2. order'[o].items <= order[o].items
    BY <1>2, <1>n
  <2> QED
    BY <1>0, <1>2, <2>1, <2>2, ItemsKept
<1>3. ASSUME NEW b \in Buyers, BuyerStep(b) \/ \E k \in Tokens, q \in Quantities : Submit(b, k, q)
      PROVE  Good(o)
  <2>1. CASE InsertOrder(b) /\ ~BuyerTo(b, "raced")
    BY <1>0, <2>1, ItemsOfNewOrder
  <2>2. CASE InsertItems(b)
    BY <1>0, <2>2, ItemsBought
  <2>3. CASE ~InsertItems(b) /\ ~(InsertOrder(b) /\ ~BuyerTo(b, "raced"))
    <3>1. \/ Replay(b) \/ CheckRoom(b) \/ ReadBatch(b) \/ RecheckBatch(b)
          \/ InsertOrder(b) /\ BuyerTo(b, "raced")
          \/ BuyerLost(b) \/ \E k \in Tokens, q \in Quantities : Submit(b, k, q)
      BY <1>3, <2>3 DEF BuyerStep
    <3>2. InsertOrder(b) /\ BuyerTo(b, "raced") => UNCHANGED <<order, clerk>>
      <4>1. ASSUME NEW x \in Orders, buyer' = [buyer EXCEPT ![b].at = "items", ![b].order = x],
                   BuyerTo(b, "raced")
            PROVE  FALSE
        <5>1. buyer'[b].at = "items"
          BY <1>0, <4>1 DEF Buyer
        <5>2. buyer'[b].at = "raced"
          BY <1>0, <4>1 DEF Buyer, BuyerTo
        <5> QED
          BY <5>1, <5>2
      <4> QED
        BY <4>1 DEF InsertOrder
    <3>3. UNCHANGED <<order, clerk>>
      BY <3>1, <3>2 DEF Replay, CheckRoom, ReadBatch, RecheckBatch, BuyerLost, Submit
    <3> QED
      BY <1>2, <3>1, <3>3
  <2> QED
    BY <2>1, <2>2, <2>3
<1>4. ASSUME NEW c \in Clerks, MoveOrderWrite(c) PROVE Good(o)
  <2>1. order'[o].items <= order[o].items /\ UNCHANGED buyer
    BY <1>0, <1>4, <1>n DEF MoveOrderWrite, OrderRow
  <2>2. \A d \in Clerks : clerk'[d].at = "fill" => clerk[d].at = "fill" /\ clerk'[d].order = clerk[d].order
    BY <1>0, <1>4 DEF MoveOrderWrite, NoClerk
  <2>3. \A b \in Buyers : Buying(b, o)' => Buying(b, o)
    BY <2>1 DEF Buying, BuyerAt
  <2> QED
    BY <1>0, <2>1, <2>2, <2>3, ItemsKept
<1>5. ASSUME NEW c \in Clerks, NEW x \in Orders,
             (\E to \in OrderTargets : MoveOrderRead(c, x, to)) \/ (\E q \in Quantities : EditOrderRead(c, x, q))
      PROVE  Good(o)
  <2>1. UNCHANGED <<order, buyer>> /\ \A d \in Clerks \ {c} : clerk'[d] = clerk[d]
    BY <1>0, <1>5 DEF MoveOrderRead, EditOrderRead
  <2>2. clerk'[c].at # "fill"
    BY <1>0, <1>5 DEF MoveOrderRead, EditOrderRead, NoClerk
  <2>3. \A b \in Buyers : Buying(b, o)' => Buying(b, o)
    BY <2>1 DEF Buying, BuyerAt
  <2>4. order'[o].items <= order[o].items
    BY <1>n, <2>1
  <2> QED
    BY <1>0, <2>1, <2>2, <2>3, <2>4, ItemsKept
<1>6. ASSUME NEW c \in Clerks, EditOrderClear(c) \/ EditOrderFill(c) PROVE Good(o)
  <2>1. \A b, d \in Buyers : Buying(b, o)' /\ Buying(d, o)' => b = d
    BY <1>6 DEF EditOrderClear, EditOrderFill, ItemsInv, Buying, BuyerAt
  <2> QED
    BY <1>0, <1>6, <2>1, ItemsEdited
<1>7. (\E to \in DOMAIN LinkTransitions : SetLinkStatus(to)) \/ (\E to \in {"OPEN", "CLOSED"} : UpdateBatch(to))
         \/ UNCHANGED orderVars => UNCHANGED <<order, buyer, clerk>>
  BY DEF SetLinkStatus, UpdateBatch, orderVars
<1> HIDE DEF Good
<1> QED
  BY <1>1, <1>3, <1>4, <1>5, <1>6, <1>7 DEF OrdersNext

\* The items of an order stay within one largest edit of each member of staff and what
\* the form asked for: an edit deletes them before it inserts its own, and the form
\* inserts once (updateDraftOrder, insertItems).
LEMMA OrdersTypesCorrect == OrdersSpec => []OrdersTypeOK
<1>1. OrdersInit => TokensInv /\ ItemsInv
  <2> SUFFICES ASSUME OrdersInit PROVE TokensInv /\ ItemsInv
    OBVIOUS
  <2>1. TokensInv
    BY OrdersStart
  <2>2. link \in [status : DOMAIN LinkTransitions, batch : {"OPEN", "CLOSED"}] /\ edited \subseteq Orders
    BY DEF OrdersInit, LinkTransitions
  <2>3. \A o \in Orders, b \in Buyers : ~Buying(b, o)
    BY DEF OrdersInit, Buying, BuyerAt, NoBuyer
  <2>4. ASSUME NEW o \in Orders PROVE LoadFits(order[o].items, FillDue(o), BuyDue(o))
    <3>1. order[o].items = 0
      BY DEF OrdersInit, NotPlaced
    <3> QED
      BY <3>1, DueTypes, LoadEmpty
  <2> QED
    BY <2>1, <2>2, <2>3, <2>4 DEF ItemsInv
<1>2. TokensInv /\ ItemsInv /\ [OrdersNext]_orderVars => (TokensInv /\ ItemsInv)'
  BY OrdersStep, ItemsStep
<1>3. TokensInv /\ ItemsInv => OrdersTypeOK
  <2> SUFFICES ASSUME TokensInv, ItemsInv PROVE OrdersTypeOK
    OBVIOUS
  <2>1. ASSUME NEW o \in Orders PROVE order[o] \in Order
    <3>1. PICK n \in Nat, f \in [Clerks -> Nat], y \in Nat :
            n = order[o].items /\ f = FillDue(o) /\ y = BuyDue(o)
      BY DueTypes DEF TokensInv, OrderRow
    <3>2. PICK a \in Nat, l \in Nat : a = SumOver(f, Clerks) /\ l = (Cardinality(Clerks) + 1) * Largest
      BY LoadTypes
    <3>3. n + a + y <= l
      BY <3>1, <3>2 DEF ItemsInv, LoadFits
    <3>4. n \in 0..l
      BY <3>3
    <3> QED
      BY <3>1, <3>2, <3>4 DEF TokensInv, OrderRow, Order
  <2>2. order \in [Orders -> Order]
    BY <2>1 DEF TokensInv
  <2> QED
    BY <2>2 DEF TokensInv, ItemsInv, OrdersTypeOK
<1> QED
  BY <1>1, <1>2, <1>3, PTL DEF OrdersSpec

-----------------------------------------------------------------------------
(* Messages.                                                               *)

Tasks == Outs \cup Ins

OutRow == [call : {"idle", "checked", "threaded", "stored", "over"},
           status : {"NONE", "QUEUED", "SENT"} \cup Verdicts, wa : Nat]

TaskRow == [at : {"absent", "due", "running", "over"}, tries : Nat]

HandRow == [at : {"idle"} \cup SendSteps \cup ReceiveSteps, on : Tasks \cup {NoTask}]

\* One handler runs a job, as what it is; a message has a job once queueMessage is over.
HandsInv ==
  /\ out \in [Outs -> OutRow]
  /\ copies \in [Outs -> Nat]
  /\ task \in [Tasks -> TaskRow]
  /\ hand \in [Hands -> HandRow]
  /\ \A h \in Hands : hand[h].at \in SendSteps => hand[h].on \in Outs
  /\ \A h \in Hands : hand[h].at \in ReceiveSteps => hand[h].on \in Ins
  /\ \A h \in Hands : hand[h].at # "idle" => task[hand[h].on].at = "running"
  /\ \A h, g \in Hands : hand[h].at # "idle" /\ hand[g].at # "idle" /\ hand[h].on = hand[g].on => h = g
  /\ \A m \in Outs : task[m].at # "absent" => out[m].call = "over"

\* Meta reported every copy whose id was written down as failed.
Forgiven(m) == \A i \in Nat : <<m, i>> \in recorded => <<m, i, "FAILED">> \in reported

\* A copy whose id was written down and that did not fail is the one the row names, as
\* sent; who is past the check of the row, or failed behind it, knows of none.
RowTells(m) ==
  \A i \in Nat : <<m, i>> \in recorded =>
    /\ out[m].call = "over"
    /\ <<m, i, "FAILED">> \in reported \/ (out[m].wa = i /\ out[m].status \in {"SENT", "DELIVERED"})

Trying == {"post", "record", "fail", "error", "fail401", "error401"}

HandTells(h) ==
  /\ hand[h].at \in Trying => Forgiven(hand[h].on)
  /\ hand[h].at = "mark" =>
       \A i \in Nat : <<hand[h].on, i>> \in recorded /\ i # copies[hand[h].on]
                        => <<hand[h].on, i, "FAILED">> \in reported

MessagesInv ==
  /\ HandsInv
  /\ \A m \in Outs : RowTells(m)
  /\ \A h \in Hands : HandTells(h)

LEMMA MessagesStart == MessagingInit => MessagesInv
<1> USE MessagingAssumption
<1> SUFFICES ASSUME MessagingInit PROVE MessagesInv
  OBVIOUS
<1>1. out \in [Outs -> OutRow] /\ copies \in [Outs -> Nat]
  BY DEF MessagingInit, OutRow
<1>2. task \in [Tasks -> TaskRow] /\ hand \in [Hands -> HandRow]
  BY DEF MessagingInit, TaskRow, HandRow, Tasks
<1>3. \A h \in Hands : hand[h].at = "idle"
  BY DEF MessagingInit
<1>4. \A m \in Outs : task[m].at = "absent"
  BY DEF MessagingInit
<1>5. HandsInv
  BY <1>1, <1>2, <1>3, <1>4 DEF HandsInv, SendSteps, ReceiveSteps
<1>6. \A m \in Outs : RowTells(m)
  BY DEF MessagingInit, RowTells
<1>7. \A h \in Hands : HandTells(h)
  BY <1>3 DEF HandTells, Trying
<1> QED
  BY <1>5, <1>6, <1>7 DEF MessagesInv

\* What a step does to the queue: a job comes, a handler goes on with its own, or ends it.
Comes(t) == t \in Tasks /\ task[t].at = "absent" /\ Enqueued(t) /\ UNCHANGED hand

Goes(h) ==
  \E step : /\ GoOn(h, step)
            /\ \/ hand[h].at \in SendSteps /\ step \in SendSteps
               \/ hand[h].at \in ReceiveSteps /\ step \in ReceiveSteps

Ends(h) ==
  /\ hand[h].at # "idle" /\ Free(h)
  /\ \E at \in {"due", "over"} : task' = [task EXCEPT ![hand[h].on].at = at]

QueueMoves ==
  \/ UNCHANGED <<task, hand>>
  \/ \E t \in Tasks : Comes(t) /\ (t \in Outs => out'[t].call = "over")
  \/ \E h \in Hands : Goes(h) \/ Ends(h) \/ \E t \in Tasks : TakeUp(h, t)

LEMMA HandsKept ==
  ASSUME HandsInv, QueueMoves, out' \in [Outs -> OutRow], copies' \in [Outs -> Nat],
         \A m \in Outs : out[m].call = "over" => out'[m].call = "over"
  PROVE  HandsInv'
<1>0. /\ task \in [Tasks -> TaskRow] /\ hand \in [Hands -> HandRow]
      /\ \A h \in Hands : hand[h].at # "idle" => hand[h].on \in Tasks /\ task[hand[h].on].at = "running"
      /\ \A m \in Outs : m \in Tasks
  BY DEF HandsInv, Tasks, HandRow
<1>1. CASE UNCHANGED <<task, hand>>
  BY <1>1 DEF HandsInv
<1>2. ASSUME NEW t \in Tasks, Comes(t), t \in Outs => out'[t].call = "over" PROVE HandsInv'
  <2>1. LET f == [task[t] EXCEPT !.at = "due"] IN f \in TaskRow /\ f.at = "due" /\ task' = [task EXCEPT ![t] = f]
    BY <1>0, <1>2 DEF Comes, Enqueued, TaskRow
  <2>2. task' \in [Tasks -> TaskRow] /\ task'[t].at = "due" /\ \A s \in Tasks \ {t} : task'[s] = task[s]
    BY <1>0, <2>1
  <2>3. \A h \in Hands : hand[h].at # "idle" => hand[h].on # t
    BY <1>0, <1>2 DEF Comes
  <2>4. \A h \in Hands : hand[h].at # "idle" => task'[hand[h].on].at = "running"
    BY <1>0, <2>2, <2>3
  <2>5. \A m \in Outs : task'[m].at # "absent" => out'[m].call = "over"
    BY <1>0, <1>2, <2>2 DEF HandsInv
  <2> QED
    BY <1>2, <2>2, <2>4, <2>5 DEF HandsInv, Comes
<1>3. ASSUME NEW h \in Hands, Goes(h) PROVE HandsInv'
  <2>1. PICK step : /\ GoOn(h, step)
                    /\ \/ hand[h].at \in SendSteps /\ step \in SendSteps
                       \/ hand[h].at \in ReceiveSteps /\ step \in ReceiveSteps
    BY <1>3 DEF Goes
  <2>2. LET f == [hand[h] EXCEPT !.at = step]
        IN  f \in HandRow /\ f.at = step /\ f.on = hand[h].on /\ hand' = [hand EXCEPT ![h] = f]
    BY <1>0, <2>1 DEF HandRow, GoOn
  <2>3. /\ hand' \in [Hands -> HandRow] /\ \A g \in Hands : hand'[g].on = hand[g].on
        /\ \A g \in Hands : hand'[g].at = IF g = h THEN step ELSE hand[g].at
    BY <1>0, <2>2
  <2>4. hand[h].at # "idle" /\ step # "idle"
    BY <2>1 DEF SendSteps, ReceiveSteps
  <2>5. \A g \in Hands : hand'[g].at # "idle" => hand[g].at # "idle"
    BY <2>3, <2>4
  <2>6. \A g \in Hands : hand'[g].at \in SendSteps => hand'[g].on \in Outs
    BY <2>1, <2>3 DEF HandsInv, SendSteps, ReceiveSteps
  <2>7. \A g \in Hands : hand'[g].at \in ReceiveSteps => hand'[g].on \in Ins
    BY <2>1, <2>3 DEF HandsInv, SendSteps, ReceiveSteps
  <2> QED
    BY <2>1, <2>3, <2>5, <2>6, <2>7 DEF HandsInv, GoOn
<1>4. ASSUME NEW h \in Hands, Ends(h) PROVE HandsInv'
  <2>1. PICK t \in Tasks, at \in {"due", "over"} :
          t = hand[h].on /\ task[t].at = "running" /\ task' = [task EXCEPT ![t].at = at]
    BY <1>0, <1>4 DEF Ends
  <2>2. LET f == [task[t] EXCEPT !.at = at] IN f \in TaskRow /\ f.at = at /\ task' = [task EXCEPT ![t] = f]
    BY <1>0, <2>1 DEF TaskRow
  <2>3. task' \in [Tasks -> TaskRow] /\ task'[t].at = at /\ \A s \in Tasks \ {t} : task'[s] = task[s]
    BY <1>0, <2>2
  <2>4. [at |-> "idle", on |-> NoTask] \in HandRow
    BY DEF HandRow
  <2>5. /\ hand' \in [Hands -> HandRow] /\ hand'[h].at = "idle"
        /\ \A g \in Hands \ {h} : hand'[g] = hand[g]
    BY <1>0, <1>4, <2>4 DEF Ends, Free
  <2>6. \A g \in Hands : hand'[g].at # "idle" => hand'[g] = hand[g] /\ hand[g].on # t /\ hand[g].on \in Tasks
    BY <1>0, <1>4, <2>1, <2>5 DEF HandsInv, Ends
  <2>7. \A m \in Outs : task'[m].at # "absent" => out'[m].call = "over"
    BY <1>0, <2>1, <2>3 DEF HandsInv
  <2>8. \A g \in Hands : hand'[g].at # "idle" => task'[hand'[g].on].at = "running"
    BY <1>0, <2>3, <2>6
  <2>9. "idle" \notin SendSteps /\ "idle" \notin ReceiveSteps
    BY DEF SendSteps, ReceiveSteps
  <2> QED
    BY <2>3, <2>5, <2>6, <2>7, <2>8, <2>9 DEF HandsInv
<1>5. ASSUME NEW h \in Hands, NEW t \in Tasks, TakeUp(h, t) PROVE HandsInv'
  <2>1. LET f == [at |-> "running", tries |-> task[t].tries + 1]
        IN  f \in TaskRow /\ f.at = "running" /\ task' = [task EXCEPT ![t] = f]
    BY <1>0, <1>5 DEF TakeUp, TaskRow
  <2>2. task' \in [Tasks -> TaskRow] /\ task'[t].at = "running" /\ \A s \in Tasks \ {t} : task'[s] = task[s]
    BY <1>0, <2>1
  <2>3. PICK step : step = (IF t \in Outs THEN "read" ELSE "claim") /\ hand' = [hand EXCEPT ![h] = [at |-> step, on |-> t]]
    BY <1>5 DEF TakeUp
  <2>4. [at |-> step, on |-> t] \in HandRow
    BY <2>3 DEF HandRow, SendSteps, ReceiveSteps
  <2>5. /\ hand' \in [Hands -> HandRow] /\ hand'[h] = [at |-> step, on |-> t]
        /\ \A g \in Hands \ {h} : hand'[g] = hand[g]
    BY <1>0, <2>3, <2>4
  <2>6. \A g \in Hands : hand[g].at # "idle" => hand[g].on # t
    BY <1>0, <1>5 DEF TakeUp
  <2>7. \A g \in Hands : hand'[g].at # "idle" => task'[hand'[g].on].at = "running"
    BY <1>0, <2>2, <2>5, <2>6
  <2>8. \A g, i \in Hands : hand'[g].at # "idle" /\ hand'[i].at # "idle" /\ hand'[g].on = hand'[i].on => g = i
    BY <2>5, <2>6 DEF HandsInv
  <2>9. \A g \in Hands : hand'[g].at \in SendSteps => hand'[g].on \in Outs
    BY <2>3, <2>5 DEF HandsInv, SendSteps
  <2>10. \A g \in Hands : hand'[g].at \in ReceiveSteps => hand'[g].on \in Ins
    BY <2>3, <2>5 DEF HandsInv, ReceiveSteps, Tasks
  <2>11. \A m \in Outs : task'[m].at # "absent" => out'[m].call = "over"
    BY <1>0, <1>5, <2>2 DEF HandsInv, TakeUp
  <2> QED
    BY <2>2, <2>5, <2>7, <2>8, <2>9, <2>10, <2>11 DEF HandsInv
<1> QED
  BY <1>1, <1>2, <1>3, <1>4, <1>5 DEF QueueMoves

LEMMA HandGoes ==
  ASSUME HandsInv, NEW h \in Hands, NEW step, GoOn(h, step)
  PROVE  /\ hand'[h].at = step /\ hand'[h].on = hand[h].on
         /\ \A g \in Hands \ {h} : hand'[g] = hand[g]
BY DEF HandsInv, HandRow, GoOn

LEMMA HandFreed ==
  ASSUME HandsInv, NEW h \in Hands, Free(h)
  PROVE  hand'[h].at = "idle" /\ \A g \in Hands \ {h} : hand'[g] = hand[g]
BY DEF HandsInv, HandRow, Free

\* A step of a handler, as one of those.
LEMMA HandlerQueues ==
  ASSUME HandsInv, NEW h \in Hands, SendStep(h) \/ InboundStep(h) \/ Die(h) \/ Fail(h)
  PROVE  Goes(h) \/ Ends(h)
<1>1. ASSUME Finish(h), hand[h].at # "idle" PROVE Ends(h)
  BY <1>1 DEF Finish, Ends
<1>2. ASSUME Throw(h), hand[h].at # "idle" PROVE Ends(h)
  <2>1. PICK at \in {"due", "over"} : at = IF task[hand[h].on].at = "running" /\ TriesLeft(hand[h].on) THEN "due" ELSE "over"
    OBVIOUS
  <2>2. hand[h].on \in Tasks /\ task \in [Tasks -> TaskRow]
    BY <1>2 DEF HandsInv, HandRow, Tasks
  <2>3. task' = [task EXCEPT ![hand[h].on].at = at]
    BY <1>2, <2>1, <2>2 DEF Throw
  <2> QED
    BY <1>2, <2>3 DEF Throw, Ends
<1>3. CASE Die(h)
  BY <1>3 DEF Die, Enqueued, Ends
<1>4. hand \in [Hands -> HandRow]
  BY DEF HandsInv
<1>5. CASE Fail(h)
  <2>1. CASE hand[h].at \in {"record", "mark"}
    BY <1>5, <2>1 DEF Fail, Goes, SendSteps
  <2>2. CASE hand[h].at \notin {"record", "mark"}
    BY <1>2, <1>5, <2>2 DEF Fail
  <2> QED
    BY <2>1, <2>2
<1>6. CASE SendRead(h) \/ SendMark(h) \/ SendError(h)
  <2>1. hand[h].at \in {"read", "mark", "error", "error401"}
    BY <1>6 DEF SendRead, SendMark, SendError, At
  <2>2. Finish(h) \/ Throw(h) \/ (hand[h].at = "read" /\ GoOn(h, "post"))
    BY <1>6 DEF SendRead, SendMark, SendError, At
  <2> QED
    BY <1>1, <1>2, <2>1, <2>2 DEF Goes, SendSteps
<1>7. CASE SendPost(h) \/ SendRecord(h) \/ SendFail(h)
  <2>1. hand[h].at \in SendSteps /\ \E step \in SendSteps : GoOn(h, step)
    BY <1>7 DEF SendPost, SendRecord, SendFail, At, SendSteps
  <2> QED
    BY <2>1 DEF Goes
<1>8. CASE InboundStep(h)
  <2>1. hand[h].at \in ReceiveSteps
    BY <1>8 DEF InboundStep, InboundClaim, InboundLookUp, InboundCustomer, InboundConversation,
      InboundMessage, InboundComply, At, ReceiveSteps
  <2>2. Finish(h) \/ Throw(h) \/ \E step \in ReceiveSteps : GoOn(h, step)
    BY <1>8 DEF InboundStep, InboundClaim, InboundLookUp, InboundCustomer, InboundConversation,
      InboundMessage, InboundComply, ReceiveSteps
  <2>3. hand[h].at # "idle"
    BY <2>1 DEF ReceiveSteps
  <2> QED
    BY <1>1, <1>2, <2>1, <2>2, <2>3 DEF Goes
<1> QED
  BY <1>3, <1>5, <1>6, <1>7, <1>8 DEF SendStep

LEMMA HandsStep == HandsInv /\ [MessagingNext]_messageVars => HandsInv'
<1> SUFFICES ASSUME HandsInv, [MessagingNext]_messageVars PROVE HandsInv'
  OBVIOUS
<1>0. /\ out \in [Outs -> OutRow] /\ copies \in [Outs -> Nat] /\ task \in [Tasks -> TaskRow]
      /\ \A h \in Hands : hand[h].at \in SendSteps => hand[h].on \in Outs
      /\ \A m \in Outs : task[m].at # "absent" => out[m].call = "over"
  BY DEF HandsInv
<1>r. ASSUME NEW m \in Outs, NEW row \in OutRow, out' = [out EXCEPT ![m] = row], out[m].call = "over" => row.call = "over"
      PROVE  out' \in [Outs -> OutRow] /\ \A x \in Outs : out[x].call = "over" => out'[x].call = "over"
  BY <1>0, <1>r
<1>1. CASE UNCHANGED <<out, copies>> /\ QueueMoves
  BY <1>0, <1>1, HandsKept
<1>2. ASSUME NEW h \in Hands, SendStep(h) \/ InboundStep(h) \/ Die(h) \/ Fail(h) PROVE HandsInv'
  <2>1. QueueMoves
    BY <1>2, HandlerQueues DEF QueueMoves
  <2>2. CASE SendPost(h)
    <3>1. copies' \in [Outs -> Nat] /\ UNCHANGED out
      BY <1>0, <2>2 DEF SendPost
    <3> QED
      BY <1>0, <2>1, <3>1, HandsKept
  <2>3. CASE SendRecord(h)
    <3>1. PICK m \in Outs : m = hand[h].on
      BY <1>0, <2>3 DEF SendRecord, At, SendSteps
    <3>2. LET f == [out[m] EXCEPT !.status = "SENT", !.wa = copies[m]]
          IN  f \in OutRow /\ f.call = out[m].call /\ out' = [out EXCEPT ![m] = f]
      <4>1. LET f == [out[m] EXCEPT !.status = "SENT", !.wa = copies[m]]
            IN  f \in OutRow /\ f.call = out[m].call
        <5>1. PICK n \in Nat : n = copies[m]
          BY <1>0
        <5>2. out[m] \in OutRow
          BY <1>0
        <5> QED
          BY <5>1, <5>2 DEF OutRow
      <4>2. out' = [out EXCEPT ![m] = [out[m] EXCEPT !.status = "SENT", !.wa = copies[m]]]
        BY <2>3, <3>1 DEF SendRecord
      <4> QED
        BY <4>1, <4>2
    <3> QED
      BY <1>0, <1>r, <2>1, <2>3, <3>2, HandsKept DEF SendRecord
  <2>4. CASE SendFail(h)
    <3>1. PICK m \in Outs : m = hand[h].on
      BY <1>0, <2>4 DEF SendFail, SendSteps
    <3>2. LET f == [out[m] EXCEPT !.status = "FAILED"]
          IN  f \in OutRow /\ f.call = out[m].call /\ out' = [out EXCEPT ![m] = f]
      BY <1>0, <2>4, <3>1 DEF SendFail, OutRow, Verdicts
    <3> QED
      BY <1>0, <1>r, <2>1, <2>4, <3>2, HandsKept DEF SendFail
  <2>5. CASE SendRead(h) \/ SendMark(h) \/ SendError(h) \/ InboundStep(h) \/ Die(h) \/ Fail(h)
    BY <1>1, <2>1, <2>5 DEF SendRead, SendMark, SendError, InboundStep, InboundClaim, InboundLookUp,
      InboundCustomer, InboundConversation, InboundMessage, InboundComply, Quiet, Die, Fail
  <2> QED
    BY <1>2, <2>2, <2>3, <2>4, <2>5 DEF SendStep
<1>3. ASSUME NEW h \in Hands, NEW t \in Outs \cup Ins, TakeUp(h, t) PROVE HandsInv'
  BY <1>1, <1>3 DEF TakeUp, QueueMoves, Tasks
<1>4. ASSUME NEW e \in Ins, Receive(e) PROVE HandsInv'
  <2>1. Comes(e)
    BY <1>4 DEF Receive, Comes, Tasks
  <2>2. e \in Tasks /\ e \notin Outs
    BY MessagingAssumption DEF Tasks
  <2> QED
    BY <1>1, <1>4, <2>1, <2>2 DEF Receive, QueueMoves
<1>5. ASSUME NEW m \in Outs, NEW to \in {"checked", "threaded", "over"}, NEW from \in {"idle", "checked", "stored"},
             Advance(m, from, to)
      PROVE  /\ out' \in [Outs -> OutRow] /\ out'[m].call = to
             /\ \A x \in Outs : out[x].call = "over" => out'[x].call = "over"
  <2>1. LET f == [out[m] EXCEPT !.call = to] IN f \in OutRow /\ f.call = to /\ out' = [out EXCEPT ![m] = f]
    BY <1>0, <1>5 DEF Advance, OutRow
  <2> QED
    BY <1>0, <1>5, <2>1 DEF Advance
<1>6. ASSUME NEW m \in Outs, QueueCheck(m) \/ QueueThread(m) PROVE HandsInv'
  <2>1. UNCHANGED <<task, hand, copies>>
    BY <1>6 DEF QueueCheck, QueueThread
  <2> QED
    BY <1>0, <1>5, <1>6, <2>1, HandsKept DEF QueueCheck, QueueThread, QueueMoves
<1>7. ASSUME NEW m \in Outs, QueueRow(m) PROVE HandsInv'
  <2>1. [call |-> "stored", status |-> "QUEUED", wa |-> 0] \in OutRow
    BY DEF OutRow
  <2>2. out' \in [Outs -> OutRow] /\ \A x \in Outs : out[x].call = "over" => out'[x].call = "over"
    BY <1>0, <1>7, <2>1 DEF QueueRow
  <2> QED
    BY <1>0, <1>7, <2>2, HandsKept DEF QueueRow, QueueMoves
<1>8. ASSUME NEW m \in Outs, QueueJob(m) PROVE HandsInv'
  <2>1. /\ out' \in [Outs -> OutRow] /\ out'[m].call = "over"
        /\ \A x \in Outs : out[x].call = "over" => out'[x].call = "over"
    BY <1>5, <1>8 DEF QueueJob
  <2>2. Comes(m)
    BY <1>0, <1>8 DEF QueueJob, Comes, Advance, Tasks
  <2>3. QueueMoves
    BY <2>1, <2>2 DEF QueueMoves, Comes
  <2> QED
    BY <1>0, <1>8, <2>1, <2>3, HandsKept DEF QueueJob
<1>9. ASSUME NEW m \in Outs, NEW i \in 1..MaxCopies, NEW v \in Verdicts, Report(m, i, v) PROVE HandsInv'
  <2>1. LET f == [out[m] EXCEPT !.status = v] IN f \in OutRow /\ f.call = out[m].call
    BY <1>0 DEF OutRow
  <2>2. UNCHANGED out \/ out' = [out EXCEPT ![m] = [out[m] EXCEPT !.status = v]]
    BY <1>0, <1>9 DEF Report
  <2>3. out' \in [Outs -> OutRow] /\ \A x \in Outs : out[x].call = "over" => out'[x].call = "over"
    BY <1>0, <1>r, <2>1, <2>2
  <2> QED
    BY <1>0, <1>9, <2>3, HandsKept DEF Report, QueueMoves
<1>10. UpsertConnection \/ Disconnect \/ CheckTokenHealth \/ UNCHANGED messageVars
         => UNCHANGED <<out, copies, task, hand>>
  BY DEF UpsertConnection, Disconnect, CheckTokenHealth, Connection, messageVars
<1> QED
  BY <1>1, <1>2, <1>3, <1>4, <1>6, <1>7, <1>8, <1>9, <1>10 DEF MessagingNext, QueueMoves

\* What is written down of message m, and what Meta told of it: nothing is added to the
\* former, nothing taken from the latter.
Calm == /\ \A m \in Outs, i \in Nat : <<m, i>> \in recorded' => <<m, i>> \in recorded
        /\ reported \subseteq reported'

LEMMA ForgivenStays == ASSUME Calm, NEW m \in Outs, Forgiven(m) PROVE Forgiven(m)'
BY DEF Calm, Forgiven

LEMMA RowTellsStays ==
  ASSUME Calm, NEW m \in Outs, RowTells(m),
         \/ out'[m] = out[m]
         \/ Forgiven(m) /\ out'[m].call = out[m].call
         \/ \A i \in Nat : <<m, i>> \notin recorded
  PROVE  RowTells(m)'
BY DEF Calm, RowTells, Forgiven

\* Hands that are not trying a message, or were before.
HandsCalm ==
  \A h \in Hands : hand'[h].at \in Trying \cup {"mark"} => hand'[h] = hand[h]

LEMMA HandsTellStays ==
  ASSUME HandsInv, \A h \in Hands : HandTells(h), Calm, UNCHANGED copies, NEW h \in Hands, hand'[h] = hand[h]
  PROVE  HandTells(h)'
<1>1. CASE hand[h].at \in Trying \cup {"mark"}
  <2>1. PICK m \in Outs : m = hand[h].on
    BY <1>1 DEF HandsInv, Trying, SendSteps
  <2> QED
    BY <2>1, ForgivenStays DEF HandTells, Calm
<1>2. CASE hand[h].at \notin Trying \cup {"mark"}
  BY <1>2 DEF HandTells
<1> QED
  BY <1>1, <1>2

\* Steps that write nothing down and give Meta nothing.
LEMMA CalmStep ==
  ASSUME MessagesInv, HandsInv', Calm, HandsCalm, UNCHANGED copies,
         \A m \in Outs : out'[m] = out[m] \/ (Forgiven(m) /\ out'[m].call = out[m].call)
                         \/ \A i \in Nat : <<m, i>> \notin recorded
  PROVE  MessagesInv'
<1>1. \A m \in Outs : RowTells(m)'
  BY RowTellsStays DEF MessagesInv
<1>2. ASSUME NEW h \in Hands PROVE HandTells(h)'
  <2>1. CASE hand'[h].at \in Trying \cup {"mark"}
    BY <2>1, HandsTellStays DEF MessagesInv, HandsCalm
  <2>2. CASE hand'[h].at \notin Trying \cup {"mark"}
    BY <2>2 DEF HandTells
  <2> QED
    BY <2>1, <2>2
<1> QED
  BY <1>1, <1>2 DEF MessagesInv

LEMMA FreedCalm == ASSUME HandsInv, NEW h \in Hands, Free(h) PROVE HandsCalm
<1>1. "idle" \notin Trying \cup {"mark"}
  BY DEF Trying
<1> QED
  BY <1>1, HandFreed DEF HandsCalm

LEMMA HandOverCalm ==
  ASSUME HandsInv, NEW h \in Hands, NEW step, step \notin Trying \cup {"mark"}, GoOn(h, step) \/ Free(h)
  PROVE  HandsCalm
<1>1. "idle" \notin Trying \cup {"mark"}
  BY DEF Trying
<1> QED
  BY <1>1, HandGoes, HandFreed DEF HandsCalm

\* Past the check of the row, h is the only handler of the message, and knows of no
\* copy that Meta may have delivered.
LEMMA TryingStep ==
  ASSUME MessagesInv, HandsInv', NEW h \in Hands, hand[h].at \in SendSteps,
         NEW m \in Outs, m = hand[h].on, Forgiven(m)',
         \E step \in Trying : GoOn(h, step), Calm,
         \A x \in Outs \ {m} : copies'[x] = copies[x],
         \A x \in Outs : out'[x] = out[x] \/ (Forgiven(x) /\ out'[x].call = out[x].call)
  PROVE  MessagesInv'
<1>1. \A x \in Outs : RowTells(x)'
  BY RowTellsStays DEF MessagesInv
<1>2. /\ hand'[h].at \in Trying /\ hand'[h].on = m /\ \A g \in Hands \ {h} : hand'[g] = hand[g]
  BY HandGoes DEF MessagesInv
<1>3. HandTells(h)'
  BY <1>2 DEF HandTells, Trying, Forgiven
<1>4. ASSUME NEW g \in Hands \ {h} PROVE HandTells(g)'
  <2>1. CASE hand[g].at \in Trying \cup {"mark"}
    <3>1. hand[g].at \in SendSteps /\ hand[g].at # "idle" /\ hand[h].at # "idle"
      BY <2>1 DEF Trying, SendSteps
    <3>2. PICK x \in Outs : x = hand[g].on /\ x # m
      BY <3>1 DEF MessagesInv, HandsInv
    <3>3. copies'[x] = copies[x] /\ hand'[g] = hand[g] /\ HandTells(g)
      BY <1>2, <3>2 DEF MessagesInv
    <3> QED
      BY <3>2, <3>3, ForgivenStays DEF HandTells, Calm
  <2>2. CASE hand[g].at \notin Trying \cup {"mark"}
    BY <1>2, <2>2 DEF HandTells
  <2> QED
    BY <2>1, <2>2
<1> QED
  BY <1>1, <1>3, <1>4 DEF MessagesInv

\* The id is written down: every other copy of the message has failed.
LEMMA RecordStep ==
  ASSUME MessagesInv, HandsInv', NEW h \in Hands, SendRecord(h) PROVE MessagesInv'
<1>1. PICK m \in Outs, n \in Nat : m = hand[h].on /\ n = copies[m]
  BY DEF MessagesInv, HandsInv, SendRecord, At, SendSteps
<1>2. /\ Forgiven(m) /\ hand[h].at = "record" /\ UNCHANGED <<copies, reported>>
      /\ recorded' = recorded \cup {<<m, n>>} /\ out' = [out EXCEPT ![m].status = "SENT", ![m].wa = n]
      /\ GoOn(h, "mark")
  BY <1>1 DEF MessagesInv, HandTells, SendRecord, At, Trying
<1>3. out[m].call = "over"
  <2>1. task[m].at = "running"
    BY <1>1, <1>2 DEF MessagesInv, HandsInv
  <2> QED
    BY <1>1, <2>1 DEF MessagesInv, HandsInv
<1>4. /\ out'[m].call = "over" /\ out'[m].status = "SENT" /\ out'[m].wa = n
      /\ \A x \in Outs \ {m} : out'[x] = out[x]
  <2>1. LET f == [out[m] EXCEPT !.status = "SENT", !.wa = n]
        IN  f.call = out[m].call /\ f.status = "SENT" /\ f.wa = n
    BY <1>1 DEF MessagesInv, HandsInv, OutRow
  <2>2. out' = [out EXCEPT ![m] = [out[m] EXCEPT !.status = "SENT", !.wa = n]]
    BY <1>2
  <2> QED
    BY <1>1, <1>3, <2>1, <2>2 DEF MessagesInv, HandsInv
<1>5. \A x \in Outs : RowTells(x)'
  <2>1. RowTells(m)'
    BY <1>2, <1>4 DEF RowTells, Forgiven
  <2>2. ASSUME NEW x \in Outs \ {m} PROVE RowTells(x)'
    <3>1. \A i \in Nat : <<x, i>> \in recorded' => <<x, i>> \in recorded
      BY <1>2
    <3>2. RowTells(x) /\ out'[x] = out[x]
      BY <1>4 DEF MessagesInv
    <3> QED
      BY <1>2, <3>1, <3>2 DEF RowTells
  <2> QED
    BY <2>1, <2>2
<1>6. /\ hand'[h].at = "mark" /\ hand'[h].on = m /\ \A g \in Hands \ {h} : hand'[g] = hand[g]
  BY <1>1, <1>2, HandGoes DEF MessagesInv
<1>7. HandTells(h)'
  BY <1>1, <1>2, <1>6 DEF HandTells, Trying, Forgiven
<1>8. ASSUME NEW g \in Hands \ {h} PROVE HandTells(g)'
  <2>1. CASE hand[g].at \in Trying \cup {"mark"}
    <3>1. hand[g].at \in SendSteps /\ hand[g].at # "idle"
      BY <2>1 DEF Trying, SendSteps
    <3>2. PICK x \in Outs : x = hand[g].on /\ x # m
      BY <1>1, <1>2, <3>1 DEF MessagesInv, HandsInv
    <3> QED
      BY <1>2, <1>6, <3>2 DEF HandTells, Forgiven, MessagesInv
  <2>2. CASE hand[g].at \notin Trying \cup {"mark"}
    BY <1>6, <2>2 DEF HandTells
  <2> QED
    BY <2>1, <2>2
<1> QED
  BY <1>5, <1>7, <1>8 DEF MessagesInv

LEMMA MessagesStep == MessagesInv /\ [MessagingNext]_messageVars => MessagesInv'
<1> SUFFICES ASSUME MessagesInv, [MessagingNext]_messageVars PROVE MessagesInv'
  OBVIOUS
<1>0. HandsInv /\ HandsInv' /\ (\A m \in Outs : RowTells(m)) /\ \A h \in Hands : HandTells(h)
  BY HandsStep DEF MessagesInv
<1>1. UNCHANGED <<recorded, reported>> => Calm
  BY DEF Calm
<1>2. UNCHANGED hand => HandsCalm
  BY DEF HandsCalm
<1>3. CASE UNCHANGED <<out, hand, copies, recorded, reported>>
  BY <1>0, <1>1, <1>2, <1>3, CalmStep
<1>4. ASSUME NEW h \in Hands, NEW t \in Outs \cup Ins, TakeUp(h, t) PROVE MessagesInv'
  <2>1. HandsCalm
    BY <1>0, <1>4 DEF TakeUp, HandsCalm, Trying, HandsInv
  <2> QED
    BY <1>0, <1>1, <1>4, <2>1, CalmStep DEF TakeUp
<1>5. ASSUME NEW m \in Outs, QueueCheck(m) \/ QueueThread(m) \/ QueueRow(m) \/ QueueJob(m) PROVE MessagesInv'
  <2>1. out[m].call # "over" /\ UNCHANGED <<hand, copies, recorded, reported>>
    BY <1>5 DEF QueueCheck, QueueThread, QueueRow, QueueJob, Advance
  <2>2. \A x \in Outs \ {m} : out'[x] = out[x]
    BY <1>0, <1>5 DEF QueueCheck, QueueThread, QueueRow, QueueJob, Advance, HandsInv
  <2>3. \A i \in Nat : <<m, i>> \notin recorded
    BY <1>0, <2>1 DEF RowTells
  <2> QED
    BY <1>0, <1>1, <1>2, <2>1, <2>2, <2>3, CalmStep
<1>6. ASSUME NEW h \in Hands, InboundStep(h) \/ SendMark(h) \/ SendError(h) \/ Die(h) PROVE MessagesInv'
  <2>1. UNCHANGED <<out, copies, recorded, reported>>
    BY <1>6 DEF SendMark, SendError, InboundStep, InboundClaim, InboundLookUp, InboundCustomer,
      InboundConversation, InboundMessage, InboundComply, Quiet, Die
  <2>2. Free(h) \/ \E step \in ReceiveSteps : GoOn(h, step)
    BY <1>6 DEF SendMark, SendError, InboundStep, InboundClaim, InboundLookUp, InboundCustomer,
      InboundConversation, InboundMessage, InboundComply, Die, Finish, Throw, ReceiveSteps
  <2>3. HandsCalm
    BY <1>0, <2>2, HandOverCalm DEF ReceiveSteps, Trying
  <2> QED
    BY <1>0, <1>1, <2>1, <2>3, CalmStep
<1>7. ASSUME NEW h \in Hands, SendRead(h) PROVE MessagesInv'
  <2>1. UNCHANGED <<out, copies, recorded, reported>> /\ hand[h].at = "read"
    BY <1>7 DEF SendRead, At
  <2>2. CASE Free(h)
    BY <1>0, <1>1, <2>1, <2>2, CalmStep, HandOverCalm DEF Trying
  <2>3. CASE Sendable(hand[h].on) /\ GoOn(h, "post")
    <3>1. PICK m \in Outs : m = hand[h].on
      BY <1>0, <2>1 DEF HandsInv, SendSteps
    <3>2. Forgiven(m)
      BY <1>0, <2>3, <3>1 DEF RowTells, Forgiven, Sendable
    <3>3. Forgiven(m)'
      BY <1>1, <2>1, <3>2, ForgivenStays
    <3>4. "post" \in Trying /\ hand[h].at \in SendSteps
      BY <2>1 DEF Trying, SendSteps
    <3> QED
      BY <1>0, <1>1, <2>1, <2>3, <3>1, <3>3, <3>4, TryingStep
  <2> QED
    BY <1>7, <2>2, <2>3 DEF SendRead, Finish, Throw
<1>8. ASSUME NEW h \in Hands, SendPost(h) \/ SendFail(h) PROVE MessagesInv'
  <2>1. hand[h].at \in Trying /\ hand[h].at \in SendSteps /\ UNCHANGED <<recorded, reported>>
    BY <1>8 DEF SendPost, SendFail, At, Trying, SendSteps
  <2>2. PICK m \in Outs : m = hand[h].on
    BY <1>0, <2>1 DEF HandsInv
  <2>3. Forgiven(m) /\ Forgiven(m)'
    BY <1>0, <1>1, <2>1, <2>2, ForgivenStays DEF HandTells
  <2>4. \A x \in Outs \ {m} : copies'[x] = copies[x]
    BY <1>0, <1>8, <2>2 DEF SendPost, SendFail, HandsInv
  <2>5. \A x \in Outs : out'[x] = out[x] \/ (Forgiven(x) /\ out'[x].call = out[x].call)
    BY <1>0, <1>8, <2>2, <2>3 DEF SendPost, SendFail, HandsInv, OutRow
  <2>6. \E step \in Trying : GoOn(h, step)
    BY <1>8 DEF SendPost, SendFail, Trying
  <2> QED
    BY <1>0, <1>1, <2>1, <2>2, <2>3, <2>4, <2>5, <2>6, TryingStep
<1>9. ASSUME NEW m \in Outs, NEW i \in 1..MaxCopies, NEW v \in Verdicts, Report(m, i, v) PROVE MessagesInv'
  <2>1. Calm /\ UNCHANGED <<hand, copies, recorded>>
    BY <1>9 DEF Report, Calm
  <2>2. \A h \in Hands : HandTells(h)'
    BY <1>0, <2>1, HandsTellStays
  <2>3. ASSUME NEW x \in Outs, x # m \/ out' = out PROVE RowTells(x)'
    <3>1. out'[x] = out[x]
      BY <1>0, <1>9, <2>3 DEF Report, HandsInv
    <3> QED
      BY <1>0, <2>1, <3>1, RowTellsStays
  <2>4. CASE out' # out
    <3>1. /\ out[m].wa = i /\ out' = [out EXCEPT ![m] = [out[m] EXCEPT !.status = v]]
          /\ reported' = reported \cup {<<m, i, v>>}
      BY <1>0, <1>9, <2>4 DEF Report
    <3>2. out'[m].wa = i /\ out'[m].status = v /\ out'[m].call = out[m].call
      BY <1>0, <3>1 DEF HandsInv, OutRow
    <3>3. RowTells(m)
      BY <1>0
    <3>4. v = "FAILED" => <<m, i, "FAILED">> \in reported'
      BY <3>1
    <3>5. v \in {"FAILED", "SENT", "DELIVERED"}
      BY DEF Verdicts
    <3>6. ASSUME NEW j \in Nat, <<m, j>> \in recorded'
          PROVE  /\ out'[m].call = "over"
                 /\ (<<m, j, "FAILED">> \in reported') \/ (out'[m].wa = j /\ out'[m].status \in {"SENT", "DELIVERED"})
      <4>1. /\ out[m].call = "over"
            /\ <<m, j, "FAILED">> \in reported \/ out[m].wa = j
        BY <2>1, <3>3, <3>6 DEF RowTells
      <4> QED
        BY <3>1, <3>2, <3>4, <3>5, <4>1
    <3>7. RowTells(m)'
      BY <3>6 DEF RowTells
    <3> QED
      BY <1>0, <2>2, <2>3, <3>7 DEF MessagesInv
  <2> QED
    BY <1>0, <2>2, <2>3, <2>4 DEF MessagesInv
<1>10. ASSUME NEW h \in Hands, Fail(h) PROVE MessagesInv'
  <2>1. UNCHANGED <<out, copies, reported>>
    BY <1>10 DEF Fail
  <2>2. CASE hand[h].at \notin {"record", "mark"}
    <3>1. Free(h) /\ UNCHANGED recorded
      BY <1>10, <2>2 DEF Fail, Throw, At
    <3>2. HandsCalm
      BY <1>0, <3>1, FreedCalm
    <3> QED
      BY <1>0, <1>1, <2>1, <3>1, <3>2, CalmStep
  <2>3. CASE hand[h].at \in {"record", "mark"}
    <3>1. PICK m \in Outs : m = hand[h].on
      BY <1>0, <2>3 DEF HandsInv, SendSteps
    <3>2. GoOn(h, "fail")
      BY <1>10, <2>3 DEF Fail
    <3>3. \/ hand[h].at = "record" /\ UNCHANGED recorded
          \/ hand[h].at = "mark" /\ recorded' = recorded \ {<<m, copies[m]>>}
      BY <1>10, <2>3, <3>1 DEF Fail, At
    <3>4. Calm
      BY <2>1, <3>3 DEF Calm
    <3>5. Forgiven(m)'
      BY <1>0, <2>1, <3>1, <3>3 DEF HandTells, Forgiven, Trying
    <3>6. "fail" \in Trying /\ hand[h].at \in SendSteps
      BY <2>3 DEF Trying, SendSteps
    <3> QED
      BY <1>0, <2>1, <3>1, <3>2, <3>4, <3>5, <3>6, TryingStep
  <2> QED
    BY <2>2, <2>3
<1>11. (\E e \in Ins : Receive(e)) \/ UpsertConnection \/ Disconnect \/ CheckTokenHealth \/ UNCHANGED messageVars
         => UNCHANGED <<out, hand, copies, recorded, reported>>
  BY DEF Receive, UpsertConnection, Disconnect, CheckTokenHealth, Connection, messageVars
<1> QED
  BY <1>0, <1>3, <1>4, <1>5, <1>6, <1>7, <1>8, <1>9, <1>10, <1>11, RecordStep DEF MessagingNext, SendStep

\* "A retry would double-send": however handlers throw and die, Meta is not given a
\* message again whose id was written down, unless Meta reported that copy failed or
\* the catch behind the post took the writing back. A message has one job, the job
\* one handler, and the handler read the row before it posts (sendQueuedMessage).
THEOREM NothingSentTwice == MessagingSpec => NoDoubleSend
<1> DEFINE Resent == \A m \in Outs : copies'[m] # copies[m] =>
                       \A i \in 1..copies[m] : <<m, i>> \in recorded => <<m, i, "FAILED">> \in reported
<1>1. MessagingInit => MessagesInv
  BY MessagesStart
<1>2. MessagesInv /\ [MessagingNext]_messageVars => MessagesInv'
  BY MessagesStep
<1>3. MessagesInv /\ [MessagingNext]_messageVars => [Resent]_messageVars
  <2> SUFFICES ASSUME MessagesInv, MessagingNext, NEW m \in Outs, copies'[m] # copies[m]
               PROVE  Forgiven(m) /\ copies[m] \in Nat
    BY DEF Forgiven
  <2>1. copies \in [Outs -> Nat]
    BY DEF MessagesInv, HandsInv
  <2>2. PICK h \in Hands : SendPost(h)
    BY DEF MessagingNext, SendStep, SendRead, SendRecord, SendMark, SendFail, SendError, InboundStep,
      InboundClaim, InboundLookUp, InboundCustomer, InboundConversation, InboundMessage, InboundComply,
      Quiet, Die, Fail, TakeUp, QueueCheck, QueueThread, QueueRow, QueueJob, Report, Receive,
      UpsertConnection, Disconnect, CheckTokenHealth, Connection
  <2>3. hand[h].on = m
    BY <2>1, <2>2 DEF SendPost
  <2> QED
    BY <2>1, <2>2, <2>3 DEF SendPost, At, MessagesInv, HandTells, Trying
<1> QED
  BY <1>1, <1>2, <1>3, PTL DEF MessagingSpec, NoDoubleSend

-----------------------------------------------------------------------------
(* How often a message is tried.                                           *)

\* A job that may be taken up has a try left, or a death to blame; Meta took a
\* message no more often than its job was taken up.
TriesPaid(t) ==
  /\ task[t].tries <= MaxTries + mishaps.deaths
  /\ task[t].at \in {"absent", "due"} => task[t].tries < MaxTries + mishaps.deaths

HandPaid(h) ==
  /\ hand[h].at \in {"read", "post"} => copies[hand[h].on] < task[hand[h].on].tries
  /\ hand[h].at = "record" => copies[hand[h].on] > 0

MishapsTyped == mishaps \in [deaths : 0..MaxDeaths, errors : 0..MaxErrors]

PaidInv ==
  /\ HandsInv
  /\ MishapsTyped
  /\ \A t \in Tasks : TriesPaid(t)
  /\ \A m \in Outs : copies[m] <= task[m].tries
  /\ \A h \in Hands : HandPaid(h)

\* What becomes of a job.
TaskMoves(t) ==
  \/ task'[t] = task[t]
  \/ /\ task[t].at = "due" /\ task'[t].at = "running"
     /\ task'[t].tries = task[t].tries + 1
  \/ /\ task'[t].tries = task[t].tries
     /\ \/ task'[t].at = "over"
        \/ /\ task'[t].at = "due"
           /\ task[t].at = "absent" \/ task[t].tries < MaxTries \/ mishaps'.deaths > mishaps.deaths

LEMMA MishapsStep ==
  ASSUME MishapsTyped, [MessagingNext]_messageVars
  PROVE  MishapsTyped' /\ mishaps'.deaths >= mishaps.deaths
<1> USE MessagingAssumption DEF MishapsTyped
<1>1. CASE UNCHANGED mishaps
  BY <1>1
<1>2. ASSUME mishaps.deaths < MaxDeaths, mishaps' = [mishaps EXCEPT !.deaths = @ + 1]
      PROVE  MishapsTyped' /\ mishaps'.deaths >= mishaps.deaths
  BY <1>2
<1>3. ASSUME mishaps.errors < MaxErrors, mishaps' = [mishaps EXCEPT !.errors = @ + 1]
      PROVE  MishapsTyped' /\ mishaps'.deaths >= mishaps.deaths
  BY <1>3
<1>4. ASSUME NEW h \in Hands, SendStep(h) \/ InboundStep(h) \/ (\E t \in Outs \cup Ins : TakeUp(h, t))
      PROVE  UNCHANGED mishaps
  BY <1>4 DEF SendStep, SendRead, SendPost, SendRecord, SendMark, SendFail, SendError, InboundStep,
    InboundClaim, InboundLookUp, InboundCustomer, InboundConversation, InboundMessage, InboundComply, Quiet, TakeUp
<1>5. ASSUME NEW m \in Outs, QueueCheck(m) \/ QueueThread(m) \/ QueueRow(m) \/ QueueJob(m) PROVE UNCHANGED mishaps
  BY <1>5 DEF QueueCheck, QueueThread, QueueRow, QueueJob
<1>6. ASSUME NEW m \in Outs, NEW i \in 1..MaxCopies, NEW v \in Verdicts, Report(m, i, v)
      PROVE  MishapsTyped' /\ mishaps'.deaths >= mishaps.deaths
  BY <1>1, <1>2, <1>6 DEF Report
<1>7. (\E e \in Ins : Receive(e)) \/ UpsertConnection \/ Disconnect \/ CheckTokenHealth \/ UNCHANGED messageVars
        => UNCHANGED mishaps
  BY DEF Receive, UpsertConnection, Disconnect, CheckTokenHealth, Connection, messageVars
<1>8. ASSUME NEW h \in Hands, Die(h) \/ Fail(h) PROVE MishapsTyped' /\ mishaps'.deaths >= mishaps.deaths
  BY <1>2, <1>3, <1>8 DEF Die, Fail
<1> QED
  BY <1>1, <1>4, <1>5, <1>6, <1>7, <1>8 DEF MessagingNext

\* A job that goes back to the queue has a try left, or its handler died.
LEMMA TasksMove ==
  ASSUME HandsInv, MishapsTyped, [MessagingNext]_messageVars, NEW t \in Tasks PROVE TaskMoves(t)
<1>0. task \in [Tasks -> TaskRow] /\ \A h \in Hands : hand[h].at # "idle" => hand[h].on \in Tasks
  BY DEF HandsInv, HandRow, Tasks
<1>1. CASE UNCHANGED task
  BY <1>1 DEF TaskMoves
<1>2. ASSUME NEW s \in Tasks, NEW at \in {"due", "over"}, task' = [task EXCEPT ![s].at = at],
             at = "due" => task[s].at = "absent" \/ task[s].tries < MaxTries \/ mishaps'.deaths > mishaps.deaths
      PROVE  TaskMoves(t)
  <2>1. CASE s = t
    <3>1. task'[t].at = at /\ task'[t].tries = task[t].tries
      BY <1>0, <1>2, <2>1 DEF TaskRow
    <3> QED
      BY <1>2, <2>1, <3>1 DEF TaskMoves
  <2>2. CASE s # t
    BY <1>0, <1>2, <2>2 DEF TaskMoves
  <2> QED
    BY <2>1, <2>2
<1>3. ASSUME NEW h \in Hands, hand[h].at # "idle", Finish(h) PROVE TaskMoves(t)
  BY <1>0, <1>2, <1>3 DEF Finish
<1>4. ASSUME NEW h \in Hands, hand[h].at # "idle", Throw(h) PROVE TaskMoves(t)
  <2>1. PICK s \in Tasks : s = hand[h].on
    BY <1>0, <1>4
  <2>2. PICK at \in {"due", "over"} : at = IF task[s].at = "running" /\ TriesLeft(s) THEN "due" ELSE "over"
    OBVIOUS
  <2>3. task' = [task EXCEPT ![s].at = at]
    BY <1>0, <1>4, <2>1, <2>2 DEF Throw
  <2> QED
    BY <1>2, <2>2, <2>3 DEF TriesLeft
<1>5. ASSUME NEW h \in Hands, Die(h) PROVE TaskMoves(t)
  <2>1. mishaps'.deaths > mishaps.deaths
    BY <1>5 DEF Die, MishapsTyped
  <2> QED
    BY <1>0, <1>2, <1>5, <2>1 DEF Die, Enqueued
<1>6. ASSUME NEW h \in Hands, Fail(h) PROVE TaskMoves(t)
  BY <1>1, <1>4, <1>6 DEF Fail, GoOn
<1>7. ASSUME NEW h \in Hands, SendStep(h) PROVE TaskMoves(t)
  <2>1. hand[h].at # "idle"
    BY <1>7 DEF SendStep, SendRead, SendPost, SendRecord, SendMark, SendFail, SendError, At
  <2>2. UNCHANGED task \/ Finish(h) \/ Throw(h)
    BY <1>7 DEF SendStep, SendRead, SendPost, SendRecord, SendMark, SendFail, SendError, GoOn
  <2> QED
    BY <1>1, <1>3, <1>4, <2>1, <2>2
<1>8. ASSUME NEW h \in Hands, InboundStep(h) PROVE TaskMoves(t)
  <2>1. hand[h].at # "idle"
    BY <1>8 DEF InboundStep, InboundClaim, InboundLookUp, InboundCustomer, InboundConversation,
      InboundMessage, InboundComply, At
  <2>2. UNCHANGED task \/ Finish(h) \/ Throw(h)
    BY <1>8 DEF InboundStep, InboundClaim, InboundLookUp, InboundCustomer, InboundConversation,
      InboundMessage, InboundComply, GoOn
  <2> QED
    BY <1>1, <1>3, <1>4, <2>1, <2>2
<1>9. ASSUME NEW h \in Hands, NEW s \in Outs \cup Ins, TakeUp(h, s) PROVE TaskMoves(t)
  <2>1. s \in Tasks /\ task' = [task EXCEPT ![s] = [at |-> "running", tries |-> task[s].tries + 1]] /\ task[s].at = "due"
    BY <1>0, <1>9 DEF TakeUp, Tasks
  <2> QED
    BY <1>0, <2>1 DEF TaskMoves
<1>10. ASSUME NEW s \in Tasks, task[s].at = "absent", Enqueued(s) PROVE TaskMoves(t)
  BY <1>2, <1>10 DEF Enqueued
<1>11. ASSUME NEW m \in Outs, QueueJob(m) PROVE TaskMoves(t)
  <2>1. m \in Tasks /\ task[m].at = "absent"
    BY <1>11 DEF QueueJob, Advance, HandsInv, Tasks
  <2> QED
    BY <1>10, <1>11, <2>1 DEF QueueJob
<1>12. ASSUME NEW e \in Ins, Receive(e) PROVE TaskMoves(t)
  BY <1>10, <1>12 DEF Receive, Tasks
<1>13. ASSUME NEW m \in Outs, \/ QueueCheck(m) \/ QueueThread(m) \/ QueueRow(m)
                              \/ \E i \in 1..MaxCopies, v \in Verdicts : Report(m, i, v)
       PROVE  UNCHANGED task
  BY <1>13 DEF QueueCheck, QueueThread, QueueRow, Report
<1>14. UpsertConnection \/ Disconnect \/ CheckTokenHealth \/ UNCHANGED messageVars => UNCHANGED task
  BY DEF UpsertConnection, Disconnect, CheckTokenHealth, Connection, messageVars
<1> QED
  BY <1>1, <1>5, <1>6, <1>7, <1>8, <1>9, <1>11, <1>12, <1>13, <1>14 DEF MessagingNext

\* Who is about to post, or has posted, came there step by step.
LEMMA HandsMove ==
  ASSUME HandsInv, [MessagingNext]_messageVars, NEW h \in Hands
  PROVE  \/ hand'[h] = hand[h]
         \/ hand'[h].at \notin {"read", "post", "record"}
         \/ \E t \in Tasks : TakeUp(h, t)
         \/ SendRead(h) /\ hand'[h].on = hand[h].on /\ hand'[h].at = "post"
         \/ SendPost(h) /\ hand'[h].on = hand[h].on /\ hand'[h].at = "record"
<1> DEFINE Moved ==
      \/ hand'[h] = hand[h]
      \/ hand'[h].at \notin {"read", "post", "record"}
      \/ \E t \in Tasks : TakeUp(h, t)
      \/ SendRead(h) /\ hand'[h].on = hand[h].on /\ hand'[h].at = "post"
      \/ SendPost(h) /\ hand'[h].on = hand[h].on /\ hand'[h].at = "record"
<1>1. CASE UNCHANGED hand
  BY <1>1
<1>2. ASSUME NEW g \in Hands, Free(g) PROVE Moved
  BY <1>2, HandFreed
<1>3. ASSUME NEW g \in Hands, NEW step, GoOn(g, step), g # h \/ step \notin {"read", "post", "record"} PROVE Moved
  BY <1>3, HandGoes
<1>4. ASSUME NEW g \in Hands, SendStep(g) PROVE Moved
  <2>1. CASE SendRead(g)
    <3>1. CASE GoOn(g, "post") /\ g = h
      BY <2>1, <3>1, HandGoes
    <3> QED
      BY <1>2, <1>3, <2>1, <3>1 DEF SendRead, Finish, Throw
  <2>2. CASE SendPost(g)
    <3>1. CASE GoOn(g, "record") /\ g = h
      BY <2>2, <3>1, HandGoes
    <3> QED
      BY <1>3, <2>2, <3>1 DEF SendPost
  <2>3. CASE SendRecord(g) \/ SendMark(g) \/ SendFail(g) \/ SendError(g)
    BY <1>2, <1>3, <2>3 DEF SendRecord, SendMark, SendFail, SendError, Finish, Throw
  <2> QED
    BY <1>4, <2>1, <2>2, <2>3 DEF SendStep
<1>5. ASSUME NEW g \in Hands, InboundStep(g) PROVE Moved
  BY <1>2, <1>3, <1>5 DEF InboundStep, InboundClaim, InboundLookUp, InboundCustomer, InboundConversation,
    InboundMessage, InboundComply, Finish, Throw
<1>6. ASSUME NEW g \in Hands, Die(g) \/ Fail(g) PROVE Moved
  BY <1>2, <1>3, <1>6 DEF Die, Fail, Throw
<1>7. ASSUME NEW g \in Hands, NEW t \in Outs \cup Ins, TakeUp(g, t) PROVE Moved
  <2>1. CASE g = h
    BY <1>7, <2>1 DEF Tasks
  <2>2. CASE g # h
    BY <1>7, <2>2 DEF TakeUp, HandsInv
  <2> QED
    BY <2>1, <2>2
<1>8. ASSUME NEW m \in Outs, \/ QueueCheck(m) \/ QueueThread(m) \/ QueueRow(m) \/ QueueJob(m)
                             \/ \E i \in 1..MaxCopies, v \in Verdicts : Report(m, i, v)
      PROVE  UNCHANGED hand
  BY <1>8 DEF QueueCheck, QueueThread, QueueRow, QueueJob, Report
<1>9. (\E e \in Ins : Receive(e)) \/ UpsertConnection \/ Disconnect \/ CheckTokenHealth \/ UNCHANGED messageVars
        => UNCHANGED hand
  BY DEF Receive, UpsertConnection, Disconnect, CheckTokenHealth, Connection, messageVars
<1>10. Moved
  BY <1>1, <1>4, <1>5, <1>6, <1>7, <1>8, <1>9 DEF MessagingNext
<1> QED
  BY <1>10

\* Only a post gives Meta another copy.
LEMMA CopiesMove ==
  ASSUME HandsInv, [MessagingNext]_messageVars
  PROVE  \/ UNCHANGED copies
         \/ \E h \in Hands : /\ SendPost(h) /\ UNCHANGED task
                             /\ hand'[h].at # "post"
                             /\ copies' = [copies EXCEPT ![hand[h].on] = @ + 1]
<1>1. ASSUME NEW h \in Hands, SendPost(h), ~UNCHANGED copies
      PROVE  /\ UNCHANGED task /\ hand'[h].at # "post"
             /\ copies' = [copies EXCEPT ![hand[h].on] = @ + 1]
  <2>1. PICK step \in {"record", "fail"} : GoOn(h, step) /\ copies' = [copies EXCEPT ![hand[h].on] = @ + 1]
    BY <1>1 DEF SendPost
  <2> QED
    BY <2>1, HandGoes DEF GoOn
<1>2. ASSUME NEW h \in Hands, \/ SendRead(h) \/ SendRecord(h) \/ SendMark(h) \/ SendFail(h) \/ SendError(h)
                              \/ InboundStep(h) \/ Die(h) \/ Fail(h) \/ \E t \in Outs \cup Ins : TakeUp(h, t)
      PROVE  UNCHANGED copies
  BY <1>2 DEF SendRead, SendRecord, SendMark, SendFail, SendError, InboundStep, InboundClaim, InboundLookUp,
    InboundCustomer, InboundConversation, InboundMessage, InboundComply, Quiet, Die, Fail, TakeUp
<1>3. ASSUME NEW m \in Outs, \/ QueueCheck(m) \/ QueueThread(m) \/ QueueRow(m) \/ QueueJob(m)
                             \/ \E i \in 1..MaxCopies, v \in Verdicts : Report(m, i, v)
      PROVE  UNCHANGED copies
  BY <1>3 DEF QueueCheck, QueueThread, QueueRow, QueueJob, Report
<1>4. (\E e \in Ins : Receive(e)) \/ UpsertConnection \/ Disconnect \/ CheckTokenHealth \/ UNCHANGED messageVars
        => UNCHANGED copies
  BY DEF Receive, UpsertConnection, Disconnect, CheckTokenHealth, Connection, messageVars
<1> QED
  BY <1>1, <1>2, <1>3, <1>4 DEF MessagingNext, SendStep

LEMMA PaidStep == PaidInv /\ [MessagingNext]_messageVars => PaidInv'
<1> SUFFICES ASSUME PaidInv, [MessagingNext]_messageVars PROVE PaidInv'
  OBVIOUS
<1> USE MessagingAssumption
<1>0. /\ HandsInv /\ HandsInv'
      /\ task \in [Tasks -> TaskRow] /\ task' \in [Tasks -> TaskRow]
      /\ copies \in [Outs -> Nat] /\ Outs \subseteq Tasks
      /\ mishaps.deaths \in Nat /\ mishaps'.deaths \in Nat /\ mishaps'.deaths >= mishaps.deaths /\ MishapsTyped'
  BY HandsStep, MishapsStep DEF PaidInv, HandsInv, Tasks, MishapsTyped
<1>1. \A t \in Tasks : task[t].tries \in Nat /\ task'[t].tries \in Nat /\ task'[t].tries >= task[t].tries
  BY <1>0, TasksMove DEF PaidInv, TaskMoves, TaskRow
<1>2. ASSUME NEW t \in Tasks PROVE TriesPaid(t)'
  <2>1. TaskMoves(t) /\ TriesPaid(t)
    BY TasksMove DEF PaidInv
  <2>2. CASE task'[t] = task[t]
    BY <1>0, <1>1, <2>1, <2>2 DEF TriesPaid
  <2>3. CASE task[t].at = "due" /\ task'[t].at = "running" /\ task'[t].tries = task[t].tries + 1
    BY <1>0, <1>1, <2>1, <2>3 DEF TriesPaid
  <2>4. CASE task'[t].tries = task[t].tries /\ task'[t].at = "over"
    BY <1>0, <1>1, <2>1, <2>4 DEF TriesPaid
  <2>5. CASE /\ task'[t].tries = task[t].tries /\ task'[t].at = "due"
             /\ task[t].at = "absent" \/ task[t].tries < MaxTries \/ mishaps'.deaths > mishaps.deaths
    BY <1>0, <1>1, <2>1, <2>5 DEF TriesPaid
  <2> QED
    BY <2>1, <2>2, <2>3, <2>4, <2>5 DEF TaskMoves
<1>3. ASSUME NEW m \in Outs PROVE copies'[m] <= task'[m].tries /\ copies'[m] >= copies[m]
  <2>1. CASE copies'[m] = copies[m]
    BY <1>0, <1>1, <2>1 DEF PaidInv
  <2>2. CASE copies'[m] # copies[m]
    <3>1. PICK h \in Hands : SendPost(h) /\ UNCHANGED task /\ copies' = [copies EXCEPT ![hand[h].on] = @ + 1]
      BY <2>2, CopiesMove DEF PaidInv
    <3>2. hand[h].on = m /\ copies'[m] = copies[m] + 1 /\ copies[m] < task[m].tries
      BY <1>0, <2>2, <3>1 DEF PaidInv, HandPaid, SendPost, At
    <3> QED
      BY <1>0, <1>1, <3>1, <3>2
  <2> QED
    BY <2>1, <2>2
<1>4. ASSUME NEW h \in Hands PROVE HandPaid(h)'
  <2>0. hand'[h].at \in {"read", "post", "record"} => hand'[h].on \in Outs
    BY <1>0 DEF HandsInv, SendSteps
  <2>1. CASE hand'[h].at \notin {"read", "post", "record"}
    BY <2>1 DEF HandPaid
  <2>2. CASE hand'[h] = hand[h] /\ hand[h].at \in {"read", "post", "record"}
    <3>1. PICK m \in Outs : hand[h].on = m
      BY <2>0, <2>2
    <3>2. HandPaid(h)
      BY DEF PaidInv
    <3>3. hand[h].at \in {"read", "post"} => copies'[m] = copies[m]
      <4>1. SUFFICES ASSUME hand[h].at \in {"read", "post"}, copies'[m] # copies[m] PROVE FALSE
        OBVIOUS
      <4>2. PICK g \in Hands : SendPost(g) /\ hand'[g].at # "post" /\ copies' = [copies EXCEPT ![hand[g].on] = @ + 1]
        BY <4>1, CopiesMove DEF PaidInv
      <4>3. hand[g].at = "post" /\ hand[g].on = m
        BY <1>0, <4>1, <4>2 DEF SendPost, At
      <4>4. g = h
        BY <3>1, <4>1, <4>3 DEF PaidInv, HandsInv
      <4> QED
        BY <2>2, <4>2, <4>3, <4>4
    <3>4. m \in Tasks /\ copies[m] \in Nat /\ copies'[m] \in Nat /\ copies'[m] >= copies[m]
      BY <1>0, <1>3, <3>1 DEF HandsInv
    <3>5. hand'[h].at \in {"read", "post"} => copies'[m] < task'[m].tries
      BY <1>1, <2>2, <3>1, <3>2, <3>3, <3>4 DEF HandPaid
    <3>6. hand'[h].at = "record" => copies'[m] > 0
      BY <2>2, <3>1, <3>2, <3>4 DEF HandPaid
    <3> QED
      BY <2>2, <3>1, <3>5, <3>6 DEF HandPaid
  <2>3. ASSUME NEW t \in Tasks, TakeUp(h, t), hand'[h].at \in {"read", "post", "record"} PROVE HandPaid(h)'
    <3>1. hand'[h].on = t /\ hand'[h].at \in {"read", "claim"} /\ task'[t].tries = task[t].tries + 1 /\ UNCHANGED copies
      BY <1>0, <2>3 DEF TakeUp, HandsInv, TaskRow
    <3>2. t \in Outs
      BY <2>0, <2>3, <3>1
    <3>3. copies[t] <= task[t].tries
      BY <3>2 DEF PaidInv
    <3> QED
      BY <1>0, <1>1, <3>1, <3>2, <3>3 DEF HandPaid
  <2>4. CASE SendRead(h) /\ hand'[h].on = hand[h].on /\ hand'[h].at = "post"
    <3>1. PICK m \in Outs : hand[h].on = m /\ hand'[h].on = m
      BY <2>0, <2>4
    <3>2. hand[h].at = "read" /\ UNCHANGED copies
      BY <2>4 DEF SendRead, At
    <3>3. copies[m] < task[m].tries
      BY <3>1, <3>2 DEF PaidInv, HandPaid
    <3> QED
      BY <1>0, <1>1, <2>4, <3>1, <3>2, <3>3 DEF HandPaid
  <2>5. CASE SendPost(h) /\ hand'[h].on = hand[h].on /\ hand'[h].at = "record"
    <3>1. PICK m \in Outs : hand[h].on = m /\ hand'[h].on = m
      BY <2>0, <2>5
    <3>2. copies' = [copies EXCEPT ![m] = @ + 1]
      <4>1. ~(GoOn(h, "fail") \/ GoOn(h, "fail401"))
        BY <1>0, <2>5, HandGoes
      <4> QED
        BY <2>5, <3>1, <4>1 DEF SendPost
    <3>3. copies'[m] > 0
      BY <1>0, <3>2
    <3> QED
      BY <2>5, <3>1, <3>3 DEF HandPaid
  <2> QED
    BY <2>1, <2>2, <2>3, <2>4, <2>5, HandsMove DEF PaidInv
<1> QED
  BY <1>0, <1>2, <1>3, <1>4 DEF PaidInv

\* What the rows and Meta's reports speak of.
HeardInv ==
  /\ inbox \subseteq Ins /\ claimed \subseteq Ins
  /\ thread \in [customer : BOOLEAN, conversation : BOOLEAN, optedOut : BOOLEAN]
  /\ connection \in {"CONNECTED", "REAUTH_REQUIRED", "DISCONNECTED"}
  /\ \A m \in Outs : out[m].wa \in 0..MaxCopies
  /\ recorded \subseteq Outs \X (1..MaxCopies)
  /\ reported \subseteq Outs \X (1..MaxCopies) \X Verdicts

LEMMA CopiesCapped == ASSUME PaidInv, NEW m \in Outs PROVE copies[m] \in 0..MaxCopies
<1>1. task[m].tries \in Nat /\ copies[m] \in Nat /\ m \in Tasks /\ mishaps.deaths \in 0..MaxDeaths
  BY DEF PaidInv, HandsInv, Tasks, TaskRow, MishapsTyped
<1>2. copies[m] <= task[m].tries /\ task[m].tries <= MaxTries + mishaps.deaths
  BY <1>1 DEF PaidInv, TriesPaid
<1> QED
  BY <1>1, <1>2, MessagingAssumption DEF MaxCopies

LEMMA HeardStep == PaidInv /\ HeardInv /\ [MessagingNext]_messageVars => HeardInv'
<1> SUFFICES ASSUME PaidInv, HeardInv, [MessagingNext]_messageVars PROVE HeardInv'
  OBVIOUS
<1>0. /\ out \in [Outs -> OutRow] /\ MaxCopies \in Nat
      /\ \A h \in Hands : hand[h].at \in SendSteps => hand[h].on \in Outs
      /\ \A h \in Hands : hand[h].at \in ReceiveSteps => hand[h].on \in Ins
  BY MessagingAssumption DEF PaidInv, HandsInv, MaxCopies
<1>1. inbox' \subseteq Ins /\ claimed' \subseteq Ins /\ thread' \in [customer : BOOLEAN, conversation : BOOLEAN, optedOut : BOOLEAN]
  <2>1. CASE UNCHANGED <<inbox, claimed, thread>>
    BY <2>1 DEF HeardInv
  <2>2. ASSUME NEW h \in Hands, InboundStep(h)
        PROVE  /\ inbox' \subseteq Ins /\ claimed' \subseteq Ins
               /\ thread' \in [customer : BOOLEAN, conversation : BOOLEAN, optedOut : BOOLEAN]
    <3>1. hand[h].on \in Ins
      BY <1>0, <2>2 DEF InboundStep, InboundClaim, InboundLookUp, InboundCustomer, InboundConversation,
        InboundMessage, InboundComply, At, ReceiveSteps
    <3>2. inbox' \subseteq Ins /\ claimed' \subseteq Ins
      BY <2>2, <3>1 DEF InboundStep, InboundClaim, InboundLookUp, InboundCustomer, InboundConversation,
        InboundMessage, InboundComply, HeardInv
    <3>3. CASE UNCHANGED thread
      BY <3>2, <3>3 DEF HeardInv
    <3>4. CASE InboundCustomer(h) \/ InboundConversation(h)
      BY <3>2, <3>4 DEF InboundCustomer, InboundConversation, HeardInv
    <3>5. CASE InboundComply(h)
      <4>1. PICK says : says = Saying[hand[h].on]
        OBVIOUS
      <4>2. PICK opted \in BOOLEAN : opted = (says = "stop" \/ (thread.optedOut /\ says # "start"))
        OBVIOUS
      <4>3. thread' = [thread EXCEPT !.optedOut = opted]
        BY <3>5, <4>1, <4>2 DEF InboundComply, HeardInv
      <4> QED
        BY <3>2, <4>3 DEF HeardInv
    <3> QED
      BY <2>2, <3>3, <3>4, <3>5 DEF InboundStep, InboundClaim, InboundLookUp, InboundMessage
  <2>3. ASSUME NEW m \in Outs, QueueThread(m)
        PROVE  /\ inbox' \subseteq Ins /\ claimed' \subseteq Ins
               /\ thread' \in [customer : BOOLEAN, conversation : BOOLEAN, optedOut : BOOLEAN]
    BY <2>3 DEF QueueThread, HeardInv
  <2>4. ASSUME NEW h \in Hands, SendStep(h) \/ Die(h) \/ Fail(h) \/ (\E t \in Outs \cup Ins : TakeUp(h, t))
        PROVE  UNCHANGED <<inbox, claimed, thread>>
    BY <2>4 DEF SendStep, SendRead, SendPost, SendRecord, SendMark, SendFail, SendError, Die, Fail, TakeUp
  <2>5. ASSUME NEW m \in Outs, \/ QueueCheck(m) \/ QueueRow(m) \/ QueueJob(m)
                               \/ \E i \in 1..MaxCopies, v \in Verdicts : Report(m, i, v)
        PROVE  UNCHANGED <<inbox, claimed, thread>>
    BY <2>5 DEF QueueCheck, QueueRow, QueueJob, Report
  <2>6. (\E e \in Ins : Receive(e)) \/ UpsertConnection \/ Disconnect \/ CheckTokenHealth \/ UNCHANGED messageVars
          => UNCHANGED <<inbox, claimed, thread>>
    BY DEF Receive, UpsertConnection, Disconnect, CheckTokenHealth, Connection, messageVars
  <2> QED
    BY <2>1, <2>2, <2>3, <2>4, <2>5, <2>6 DEF MessagingNext
<1>2. connection' \in {"CONNECTED", "REAUTH_REQUIRED", "DISCONNECTED"}
  <2>1. ASSUME NEW h \in Hands, SendStep(h) \/ InboundStep(h) \/ Die(h) \/ Fail(h) \/ (\E t \in Outs \cup Ins : TakeUp(h, t))
        PROVE  UNCHANGED connection \/ connection' = "REAUTH_REQUIRED"
    BY <2>1 DEF SendStep, SendRead, SendPost, SendRecord, SendMark, SendFail, SendError, InboundStep, InboundClaim,
      InboundLookUp, InboundCustomer, InboundConversation, InboundMessage, InboundComply, Quiet, Die, Fail, TakeUp
  <2>2. ASSUME NEW m \in Outs, \/ QueueCheck(m) \/ QueueThread(m) \/ QueueRow(m) \/ QueueJob(m)
                               \/ \E i \in 1..MaxCopies, v \in Verdicts : Report(m, i, v)
        PROVE  UNCHANGED connection
    BY <2>2 DEF QueueCheck, QueueThread, QueueRow, QueueJob, Report
  <2>3. (\E e \in Ins : Receive(e)) \/ UpsertConnection \/ Disconnect \/ CheckTokenHealth \/ UNCHANGED messageVars
          => connection' \in {connection, "CONNECTED", "REAUTH_REQUIRED", "DISCONNECTED"}
    BY DEF Receive, UpsertConnection, Disconnect, CheckTokenHealth, Connection, messageVars
  <2> QED
    BY <2>1, <2>2, <2>3 DEF MessagingNext, HeardInv
<1>3. /\ \A m \in Outs : out'[m].wa \in 0..MaxCopies
      /\ recorded' \subseteq Outs \X (1..MaxCopies)
      /\ reported' \subseteq Outs \X (1..MaxCopies) \X Verdicts
  <2>1. CASE UNCHANGED <<out, recorded, reported>>
    BY <2>1 DEF HeardInv
  <2>2. ASSUME NEW m \in Outs, NEW row \in OutRow, row.wa \in 0..MaxCopies, out' = [out EXCEPT ![m] = row]
        PROVE  \A x \in Outs : out'[x].wa \in 0..MaxCopies
    BY <1>0, <2>2 DEF HeardInv
  <2>3. ASSUME NEW h \in Hands, SendRecord(h)
        PROVE  /\ \A m \in Outs : out'[m].wa \in 0..MaxCopies
               /\ recorded' \subseteq Outs \X (1..MaxCopies) /\ UNCHANGED reported
    <3>1. PICK m \in Outs : m = hand[h].on
      BY <1>0, <2>3 DEF SendRecord, At, SendSteps
    <3>2. copies[m] \in 1..MaxCopies
      <4>1. copies[m] > 0
        BY <2>3, <3>1 DEF PaidInv, HandPaid, SendRecord, At
      <4> QED
        BY <1>0, <4>1, CopiesCapped
    <3>3. copies[m] \in Nat /\ copies[m] \in 0..MaxCopies
      BY <1>0, <3>2
    <3>4. LET f == [out[m] EXCEPT !.status = "SENT", !.wa = copies[m]]
          IN  f \in OutRow /\ f.wa = copies[m] /\ out' = [out EXCEPT ![m] = f]
      BY <1>0, <2>3, <3>1, <3>3 DEF SendRecord, OutRow
    <3>5. \A x \in Outs : out'[x].wa \in 0..MaxCopies
      BY <2>2, <3>4, <3>3
    <3>6. recorded' = recorded \cup {<<m, copies[m]>>} /\ UNCHANGED reported
      BY <2>3, <3>1 DEF SendRecord
    <3> QED
      BY <3>2, <3>5, <3>6 DEF HeardInv
  <2>4. ASSUME NEW h \in Hands, SendFail(h)
        PROVE  (\A m \in Outs : out'[m].wa \in 0..MaxCopies) /\ UNCHANGED <<recorded, reported>>
    <3>1. PICK m \in Outs : m = hand[h].on
      BY <1>0, <2>4 DEF SendFail, SendSteps
    <3>2. LET f == [out[m] EXCEPT !.status = "FAILED"]
          IN  f \in OutRow /\ f.wa = out[m].wa /\ out' = [out EXCEPT ![m] = f]
      BY <1>0, <2>4, <3>1 DEF SendFail, OutRow, Verdicts
    <3> QED
      BY <2>2, <2>4, <3>2 DEF SendFail, HeardInv
  <2>5. ASSUME NEW m \in Outs, NEW from, NEW to \in {"checked", "threaded", "over"}, Advance(m, from, to)
        PROVE  \A x \in Outs : out'[x].wa \in 0..MaxCopies
    <3>1. LET f == [out[m] EXCEPT !.call = to] IN f \in OutRow /\ f.wa = out[m].wa /\ out' = [out EXCEPT ![m] = f]
      BY <1>0, <2>5 DEF Advance, OutRow
    <3> QED
      BY <2>2, <3>1 DEF HeardInv
  <2>6. ASSUME NEW m \in Outs, QueueCheck(m) \/ QueueThread(m) \/ QueueJob(m)
        PROVE  (\A x \in Outs : out'[x].wa \in 0..MaxCopies) /\ UNCHANGED <<recorded, reported>>
    BY <2>5, <2>6 DEF QueueCheck, QueueThread, QueueJob
  <2>7. ASSUME NEW m \in Outs, QueueRow(m)
        PROVE  (\A x \in Outs : out'[x].wa \in 0..MaxCopies) /\ UNCHANGED <<recorded, reported>>
    <3>1. LET f == [call |-> "stored", status |-> "QUEUED", wa |-> 0]
          IN  f \in OutRow /\ f.wa \in 0..MaxCopies /\ out' = [out EXCEPT ![m] = f]
      BY <1>0, <2>7 DEF QueueRow, OutRow
    <3> QED
      BY <2>2, <2>7, <3>1 DEF QueueRow
  <2>8. ASSUME NEW m \in Outs, NEW i \in 1..MaxCopies, NEW v \in Verdicts, Report(m, i, v)
        PROVE  /\ \A x \in Outs : out'[x].wa \in 0..MaxCopies
               /\ reported' \subseteq Outs \X (1..MaxCopies) \X Verdicts /\ UNCHANGED recorded
    <3>1. LET f == [out[m] EXCEPT !.status = v] IN f \in OutRow /\ f.wa = out[m].wa
      BY <1>0 DEF OutRow
    <3>2. UNCHANGED out \/ out' = [out EXCEPT ![m] = [out[m] EXCEPT !.status = v]]
      BY <1>0, <2>8 DEF Report
    <3>3. \A x \in Outs : out'[x].wa \in 0..MaxCopies
      BY <2>2, <3>1, <3>2 DEF HeardInv
    <3> QED
      BY <2>8, <3>3 DEF Report, HeardInv
  <2>9. ASSUME NEW h \in Hands, Fail(h) PROVE recorded' \subseteq recorded /\ UNCHANGED <<out, reported>>
    BY <2>9 DEF Fail
  <2>10. ASSUME NEW h \in Hands, \/ SendRead(h) \/ SendPost(h) \/ SendMark(h) \/ SendError(h) \/ InboundStep(h) \/ Die(h)
                                 \/ \E t \in Outs \cup Ins : TakeUp(h, t)
         PROVE  UNCHANGED <<out, recorded, reported>>
    BY <2>10 DEF SendRead, SendPost, SendMark, SendError, InboundStep, InboundClaim,
      InboundLookUp, InboundCustomer, InboundConversation, InboundMessage, InboundComply, Quiet, Die, TakeUp
  <2>11. (\E e \in Ins : Receive(e)) \/ UpsertConnection \/ Disconnect \/ CheckTokenHealth \/ UNCHANGED messageVars
          => UNCHANGED <<out, recorded, reported>>
    BY DEF Receive, UpsertConnection, Disconnect, CheckTokenHealth, Connection, messageVars
  <2>12. CASE (\A m \in Outs : out'[m].wa \in 0..MaxCopies) /\ UNCHANGED <<recorded, reported>>
    BY <2>12 DEF HeardInv
  <2>13. ASSUME NEW h \in Hands, SendRecord(h) \/ Fail(h)
         PROVE  /\ \A m \in Outs : out'[m].wa \in 0..MaxCopies
                /\ recorded' \subseteq Outs \X (1..MaxCopies)
                /\ reported' \subseteq Outs \X (1..MaxCopies) \X Verdicts
    BY <2>3, <2>9, <2>13 DEF HeardInv
  <2>14. ASSUME NEW m \in Outs, NEW i \in 1..MaxCopies, NEW v \in Verdicts, Report(m, i, v)
         PROVE  /\ \A x \in Outs : out'[x].wa \in 0..MaxCopies
                /\ recorded' \subseteq Outs \X (1..MaxCopies)
                /\ reported' \subseteq Outs \X (1..MaxCopies) \X Verdicts
    BY <2>8, <2>14 DEF HeardInv
  <2> QED
    BY <2>1, <2>4, <2>6, <2>7, <2>10, <2>11, <2>12, <2>13, <2>14 DEF MessagingNext, SendStep
<1> QED
  BY <1>1, <1>2, <1>3 DEF HeardInv

LEMMA MessagingTyped == PaidInv /\ HeardInv => MessagingTypeOK
<1> SUFFICES ASSUME PaidInv, HeardInv PROVE MessagingTypeOK
  OBVIOUS
<1>1. \A m \in Outs : out[m] \in Out
  BY DEF PaidInv, HandsInv, HeardInv, OutRow, Out
<1>2. \A t \in Tasks : task[t].at \in {"absent", "due", "running", "over"} /\ task[t].tries \in 0..MaxCopies
  <2> TAKE t \in Tasks
  <2>1. task[t] \in TaskRow /\ mishaps.deaths \in 0..MaxDeaths
    BY DEF PaidInv, HandsInv, MishapsTyped
  <2>2. task[t].tries \in Nat /\ task[t].tries <= MaxTries + mishaps.deaths
    BY <2>1 DEF PaidInv, TriesPaid, TaskRow
  <2> QED
    BY <2>1, <2>2, MessagingAssumption DEF MaxCopies, TaskRow
<1>3. task \in [Outs \cup Ins -> [at : {"absent", "due", "running", "over"}, tries : 0..MaxCopies]]
  <2>1. \A t \in Tasks : task[t] \in [at : {"absent", "due", "running", "over"}, tries : 0..MaxCopies]
    BY <1>2 DEF PaidInv, HandsInv, TaskRow
  <2> QED
    BY <2>1 DEF PaidInv, HandsInv, Tasks
<1>4. copies \in [Outs -> 0..MaxCopies]
  BY CopiesCapped DEF PaidInv, HandsInv
<1>5. out \in [Outs -> Out]
  BY <1>1 DEF PaidInv, HandsInv
<1>6. hand \in [Hands -> [at : {"idle"} \cup SendSteps \cup ReceiveSteps, on : Outs \cup Ins \cup {NoTask}]]
  BY DEF PaidInv, HandsInv, HandRow, Tasks
<1> QED
  BY <1>3, <1>4, <1>5, <1>6 DEF MessagingTypeOK, HeardInv, PaidInv, MishapsTyped

LEMMA MessagingTypesCorrect == MessagingSpec => []MessagingTypeOK
<1>1. MessagingInit => PaidInv /\ HeardInv
  <2> SUFFICES ASSUME MessagingInit PROVE PaidInv /\ HeardInv
    OBVIOUS
  <2> USE MessagingAssumption
  <2>1. HandsInv
    BY MessagesStart DEF MessagesInv
  <2>2. MaxCopies \in Nat
    BY DEF MaxCopies
  <2>3. MishapsTyped
    BY DEF MessagingInit, MishapsTyped
  <2>4. (\A t \in Tasks : TriesPaid(t)) /\ (\A m \in Outs : copies[m] <= task[m].tries)
    BY DEF MessagingInit, TriesPaid, Tasks
  <2>5. \A h \in Hands : HandPaid(h)
    BY DEF MessagingInit, HandPaid
  <2>6. HeardInv
    BY <2>2 DEF MessagingInit, HeardInv
  <2> QED
    BY <2>1, <2>3, <2>4, <2>5, <2>6 DEF PaidInv
<1> QED
  BY <1>1, PaidStep, HeardStep, MessagingTyped, PTL DEF MessagingSpec

-----------------------------------------------------------------------------
(* All of them.                                                            *)

\* A behaviour of the six is one of each, with the steps of the others as stuttering.
LEMMA EachScene ==
  FieldSpec => TripsSpec /\ OrdersSpec /\ MessagingSpec /\ ReviewsSpec /\ TeamSpec /\ ListingsSpec
<1> DEFINE fieldVars == <<scene, tripVars, orderVars, messageVars, reviewVars, teamVars, listingVars>>
<1>1. FieldInit => TripsInit /\ OrdersInit /\ MessagingInit /\ ReviewsInit /\ TeamInit /\ ListingsInit
  BY DEF FieldInit
<1>2. [FieldNext]_fieldVars => [TripsNext]_tripVars
  BY DEF FieldNext
<1>3. [FieldNext]_fieldVars => [OrdersNext]_orderVars
  BY DEF FieldNext
<1>4. [FieldNext]_fieldVars => [MessagingNext]_messageVars
  BY DEF FieldNext
<1>5. [FieldNext]_fieldVars => [ReviewsNext]_reviewVars
  BY DEF FieldNext
<1>6. [FieldNext]_fieldVars => [TeamNext]_teamVars
  BY DEF FieldNext
<1>7. [FieldNext]_fieldVars => [ListingsNext]_listingVars
  BY DEF FieldNext
<1> QED
  BY <1>1, <1>2, <1>3, <1>4, <1>5, <1>6, <1>7, PTL
    DEF FieldSpec, TripsSpec, OrdersSpec, MessagingSpec, ReviewsSpec, TeamSpec, ListingsSpec

\* Trips, orders, messages, reviews, seats and listings keep to their ranges, however
\* many of each and whoever works on them: the items of an order and the copies of a
\* message do not grow without bound, and no step writes a status the code has no
\* word for.
THEOREM FieldTypesCorrect == FieldSpec => []FieldTypeOK
<1>1. TripsTypeOK /\ OrdersTypeOK /\ MessagingTypeOK /\ ReviewsTypeOK /\ TeamTypeOK /\ ListingsTypeOK
        => FieldTypeOK
  BY DEF FieldTypeOK
<1> QED
  BY <1>1, EachScene, TripsTypeCorrect, OrdersTypesCorrect, MessagingTypesCorrect, ReviewsTypesCorrect,
    TeamTypesCorrect, ListingsTypesCorrect, PTL
=============================================================================
