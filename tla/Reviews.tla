------------------------------ MODULE Reviews -------------------------------
(***************************************************************************)
(* apps/api/src/reviews/reviews.service.ts and the moderation endpoints of *)
(* admin.service.ts, for the review of one stay, whose booking is a row of *)
(* the reservation core.  Posting a review and reporting one are a read    *)
(* and a write, between which other requests may come.                     *)
(***************************************************************************)
EXTENDS Reservations

CONSTANTS
  Reviewed,    \* the booking the review is about
  Reporter,    \* guests with a report in progress
  MaxReports   \* bound on the reports made

ASSUME ReviewedAssumption == Reviewed \in Booking
ASSUME ReporterAssumption == MaxReports \in Nat

VARIABLES
  over,        \* the check-out date has passed
  posting,     \* a request to post has passed its checks and not written yet
  review,      \* posted, reportCount, and who has hidden it
  reading,     \* what each report has read of the review
  reports      \* reports the API has taken on so far

postVars == <<over, posting>>
reviewVars == <<over, posting, review, reading, reports>>
reviewedVars == <<vars, reviewVars>>

REPORT_AUTO_HIDE_THRESHOLD == 3

InitReviews ==
  /\ over = FALSE
  /\ posting = FALSE
  /\ review = [posted |-> FALSE, reportCount |-> 0, hidden |-> "no"]
  /\ reading = [g \in Reporter |-> NULL]
  /\ reports = 0

\* Days go by; no hold is left running then.
StayEnds ==
  /\ hold[Reviewed] # "running"
  /\ over' = TRUE
  /\ UNCHANGED <<posting, review, reading, reports>>

\* A mutant: any booking whose dates have passed counts as a stay.
hasStayedByDates == status[Reviewed] = "CHECKED_OUT" \/ over

hasStayed ==
  \/ status[Reviewed] = "CHECKED_OUT"
  \/ status[Reviewed] \in {"PAID", "CHECKED_IN"} /\ over

\* POST /reviews: one review for each booking, of a stay that has ended ...
\* (A request that is refused changes nothing.)
CreateRead ==
  /\ ~review.posted /\ hasStayed
  /\ posting' = TRUE
  /\ UNCHANGED <<over, review, reading, reports>>

\* ... and the row, which may describe a booking cancelled meanwhile.
CreateWrite ==
  /\ posting
  /\ posting' = FALSE
  /\ review' = [review EXCEPT !.posted = TRUE]
  /\ UNCHANGED <<over, reading, reports>>

\* POST /reviews/:id/report reads the review ...
ReportRead(g) ==
  /\ review.posted /\ reading[g] = NULL /\ reports < MaxReports
  /\ reading' = [reading EXCEPT ![g] = review]
  /\ reports' = reports + 1
  /\ UNCHANGED <<postVars, review>>

\* ... and writes one more than it has read.  It hides the review when that
\* is enough and it had not read that the review is hidden already.
\* (First a mutant that hides a report too early.)
ReportWriteEarly(g) ==
  /\ reading[g] # NULL
  /\ LET newCount == reading[g].reportCount + 1
         hides == /\ newCount + 1 >= REPORT_AUTO_HIDE_THRESHOLD
                  /\ reading[g].hidden = "no"
     IN review' = [review EXCEPT !.reportCount = newCount,
                                 !.hidden = IF hides THEN "auto" ELSE @]
  /\ reading' = [reading EXCEPT ![g] = NULL]
  /\ UNCHANGED <<postVars, reports>>

ReportWrite(g) ==
  /\ reading[g] # NULL
  /\ LET newCount == reading[g].reportCount + 1
         hides == /\ newCount >= REPORT_AUTO_HIDE_THRESHOLD
                  /\ reading[g].hidden = "no"
     IN review' = [review EXCEPT !.reportCount = newCount,
                                 !.hidden = IF hides THEN "auto" ELSE @]
  /\ reading' = [reading EXCEPT ![g] = NULL]
  /\ UNCHANGED <<postVars, reports>>

\* PUT /admin/reviews/:id/hidden, either way; the count stays.
setReviewHidden ==
  /\ review.posted
  /\ review' = [review EXCEPT !.hidden = IF @ = "no" THEN "admin" ELSE "no"]
  /\ UNCHANGED <<postVars, reading, reports>>

-----------------------------------------------------------------------------
(* The reviews over the core, without pages: whoever may, posts.           *)

ReviewsInit == Init /\ InitReviews

ReviewStep ==
  \/ StayEnds \/ CreateRead \/ CreateWrite \/ setReviewHidden
  \/ \E g \in Reporter : ReportRead(g) \/ ReportWrite(g)

ReviewsNext ==
  \/ Next /\ UNCHANGED reviewVars
  \/ ReviewStep /\ UNCHANGED vars

ReviewsSpec == ReviewsInit /\ [][ReviewsNext]_reviewedVars

-----------------------------------------------------------------------------

ReviewRow == [posted : BOOLEAN, reportCount : 0..MaxReports,
              hidden : {"no", "auto", "admin"}]

ReviewsTypeOK ==
  /\ over \in BOOLEAN /\ posting \in BOOLEAN
  /\ review \in ReviewRow /\ reports \in 0..MaxReports
  /\ reading \in [Reporter -> ReviewRow \cup {NULL}]

\* A review on the property's page is of a stay somebody has paid for, whatever
\* page asks for it, and though the booking may change between the check and
\* the insert, or be cancelled afterwards.
ReviewsArePaidStays == review.posted => PaidFor(Reviewed)

\* A review hidden by reports has been reported three times at least; reports
\* that overlap are lost, never counted twice.
HiddenForReason ==
  /\ review.reportCount <= reports
  /\ review.hidden = "auto" => reports >= REPORT_AUTO_HIDE_THRESHOLD
=============================================================================
