------------------------------ MODULE Reviews ------------------------------
(***************************************************************************)
(* The review one client writes about one station: posted from the         *)
(* station's page or about a visit (apps/reviews/services.py,              *)
(* stations/views.py, users/cabinet_views.py), edited for a day, answered  *)
(* and complained about by the owner (stations/owner_views.py), hidden and *)
(* published by administrators (erp/views.py, reviews/admin.py).           *)
(*                                                                         *)
(* An administrator's save touches the moderation columns only; an edit    *)
(* saves the whole row it loaded.                                          *)
(***************************************************************************)
EXTENDS Workers

CONSTANTS Complaints \* primary keys of ReviewComplaint rows

VARIABLES review,    \* the Review row, its reply, and whether it is under a day old
          complaint  \* the ReviewComplaint rows

reviewVars == <<review, complaint>>

NoReview == [status |-> "none", ofVisit |-> FALSE, fresh |-> FALSE, replied |-> FALSE]
ReviewRow == [status : {"ok", "hidden"}, ofVisit : BOOLEAN, fresh : BOOLEAN, replied : BOOLEAN]
                \cup {NoReview}

ReviewRequest ==
    [op : {"review_save"}, ofVisit : BOOLEAN]
      \cup [op : {"review_edit"}, loaded : {"ok", "hidden"}]
      \cup [op : {"complaint_resolve"}, of : Complaints]

ReviewsInit ==
    /\ review = NoReview
    /\ complaint = [c \in Complaints |-> "none"]

-----------------------------------------------------------------------------
\* user_has_station_review, by either way.
MayWriteReview == review = NoReview

\* station_review_create: from the page of the station.
StationReviewRead(p) ==
    MayWriteReview /\ Begin(p, [op |-> "review_save", ofVisit |-> FALSE]) /\ UNCHANGED reviewVars

\* ClientReviewCreateView: about a visit that is completed.
VisitReviewRead(p) ==
    MayWriteReview /\ Begin(p, [op |-> "review_save", ofVisit |-> TRUE]) /\ UNCHANGED reviewVars

\* create_station_review: the unique constraint refuses the second of two.

ReviewSave(p) ==
    /\ At(p, "review_save")
    /\ review' = IF review # NoReview THEN review
                 ELSE [status |-> "ok", ofVisit |-> req[p].ofVisit, fresh |-> TRUE, replied |-> FALSE]
    /\ End(p)
    /\ UNCHANGED complaint

\* ClientReviewUpdateView: the client edits the review of a visit, hidden or
\* not, and saves it with the status it had when it was loaded.
ReviewEditRead(p) ==
    /\ review.ofVisit /\ review.fresh
    /\ Begin(p, [op |-> "review_edit", loaded |-> review.status])
    /\ UNCHANGED reviewVars

SetStatus(status) == review' = [review EXCEPT !.status = status]

\* Mutant: an edited review is fit to be seen again.
ReviewEditSaveAsOk(p) == At(p, "review_edit") /\ SetStatus("ok") /\ End(p) /\ UNCHANGED complaint
ReviewEditSave(p) ==
    At(p, "review_edit") /\ SetStatus(req[p].loaded) /\ End(p) /\ UNCHANGED complaint

\* Bound: requests take seconds, a day passes between them.
ReviewAges ==
    /\ AllIdle /\ review.fresh
    /\ review' = [review EXCEPT !.fresh = FALSE]
    /\ UNCHANGED <<complaint, workerVars>>

\* OwnerReviewReplyView.
ReviewReply(p) ==
    /\ review # NoReview /\ req[p] = Idle
    /\ review' = [review EXCEPT !.replied = TRUE]
    /\ UNCHANGED <<complaint, workerVars>>

\* review_complaint.
ReviewComplaint(p, c) ==
    /\ review # NoReview /\ req[p] = Idle
    /\ complaint[c] = "none"
    /\ complaint' = [complaint EXCEPT ![c] = "pending"]
    /\ UNCHANGED <<review, workerVars>>

-----------------------------------------------------------------------------
\* The administrators.  What is made of the request after the save, an entry in
\* the audit log, is left out; it fails for a review that is not of a visit.
ReviewHide(p) ==
    /\ review # NoReview /\ req[p] = Idle
    /\ SetStatus("hidden")
    /\ UNCHANGED <<complaint, workerVars>>

ReviewPublish(p) ==
    /\ review # NoReview /\ req[p] = Idle
    /\ SetStatus("ok")
    /\ UNCHANGED <<complaint, workerVars>>

\* complaint_accept saves the review, then the complaint, of whatever status.
ComplaintAccept(p, c) ==
    /\ complaint[c] # "none"
    /\ SetStatus("hidden")
    /\ Begin(p, [op |-> "complaint_resolve", of |-> c])
    /\ UNCHANGED complaint

ComplaintResolve(p) ==
    /\ At(p, "complaint_resolve")
    /\ complaint' = [complaint EXCEPT ![req[p].of] = "resolved"]
    /\ End(p)
    /\ UNCHANGED review

ComplaintReject(p, c) ==
    /\ complaint[c] # "none" /\ req[p] = Idle
    /\ complaint' = [complaint EXCEPT ![c] = "resolved"]
    /\ UNCHANGED <<review, workerVars>>

-----------------------------------------------------------------------------
ReviewStep(p) ==
    \/ StationReviewRead(p) \/ VisitReviewRead(p) \/ ReviewSave(p) \/ ReviewEditRead(p) \/ ReviewEditSave(p)
    \/ ReviewReply(p) \/ ReviewHide(p) \/ ReviewPublish(p) \/ ComplaintResolve(p)
    \/ \E c \in Complaints : ReviewComplaint(p, c) \/ ComplaintAccept(p, c) \/ ComplaintReject(p, c)

ReviewsCrash(p) == Crash(p) /\ UNCHANGED reviewVars

ReviewsNext == ReviewAges \/ \E p \in Procs : ReviewStep(p) \/ ReviewsCrash(p)

ReviewsSpec == WorkersInit /\ ReviewsInit /\ [][ReviewsNext]_<<workerVars, reviewVars>>

-----------------------------------------------------------------------------
ReviewsTypeOK ==
    /\ review \in ReviewRow
    /\ complaint \in [Complaints -> {"none", "pending", "resolved"}]
    /\ req \in [Procs -> ReviewRequest \cup {Idle}]

\* One at a time, a review that was hidden comes back on the site by a decision
\* of an administrator and by nothing else: not by an edit of its author, not by
\* a complaint that is turned down.
HiddenUntilPublished ==
    [][review.status = "hidden" /\ review'.status # "hidden" =>
          \E p \in Procs : ReviewPublish(p)]_reviewVars
=============================================================================
