-------------------------------- MODULE Ads --------------------------------
(***************************************************************************)
(* One ad: its owner creates, edits and withdraws it                       *)
(* (apps/classifieds/views.py, forms.py), contacts in its text send it to  *)
(* moderation, other users report it (api_views.py) and enough reports in  *)
(* a week take it off the site.                                            *)
(*                                                                         *)
(* Nothing is locked.  An edit writes the posted form over the whole row;  *)
(* the report handler tests the row it loaded.  Only ads whose owner may   *)
(* write contacts (an account of some days) are looked at: the form of a   *)
(* younger account is refused and changes nothing.                         *)
(***************************************************************************)
EXTENDS Workers, FiniteSets

CONSTANTS Reporters,   \* users who may report the ad
          ReportLimit, \* reports that hide an ad (3)
          PhotoLimit   \* MAX_PHOTOS_PER_AD (15)

ASSUME AdsAssumption == ReportLimit \in Nat \ {0} /\ PhotoLimit \in Nat

VARIABLES ad,       \* the Ad row, and whether its text is free of contacts
          reports,  \* AdReport rows, one per user
          recent,   \* those of the last seven days
          reported, \* a report came in since the owner last saved the ad
          photos    \* how many AdPhoto rows the ad has

adVars == <<ad, reports, recent, reported, photos>>

NoAd == [published |-> FALSE, clean |-> TRUE, moderation |-> "none"]
AdRow == [published : BOOLEAN, clean : BOOLEAN, moderation : {"none", "ok", "pending"}]

AdRequest ==
    [op : {"ad_photos"}, posted : 0..PhotoLimit]
      \cup [op : {"ad_attach"}, posted : 0..PhotoLimit]
      \cup [op : {"ad_withdraw", "report_count", "report_hide"}]
      \cup [op : {"report_insert"}, user : Reporters]

AdsInit ==
    /\ ad = NoAd
    /\ reports = {}
    /\ recent = {}
    /\ reported = FALSE
    /\ photos = 0

-----------------------------------------------------------------------------
\* AdForm.clean and save: an ad with contacts in its text is neither published
\* nor approved, whatever was ticked.
\* Mutant: the text only decides the moderation status.
FormRowAsTicked(ticked, clean) ==
    [published |-> ticked, clean |-> clean, moderation |-> IF clean THEN "ok" ELSE "pending"]
FormRow(ticked, clean) ==
    [published |-> ticked /\ clean, clean |-> clean, moderation |-> IF clean THEN "ok" ELSE "pending"]

\* MyAdCreateView: the photos are attached without being counted.
AdPosted(p) ==
    /\ ad = NoAd
    /\ \E ticked, clean \in BOOLEAN : ad' = FormRow(ticked, clean)
    /\ \E n \in 0..PhotoLimit : Begin(p, [op |-> "ad_attach", posted |-> n])
    /\ UNCHANGED <<reports, recent, reported, photos>>

\* MyAdUpdateView: what the handler loaded of these columns is overwritten by
\* the form, so that its read is not a step of its own.
AdEdited(p) ==
    /\ ad # NoAd
    /\ \E ticked, clean \in BOOLEAN : ad' = FormRow(ticked, clean)
    /\ reported' = FALSE
    /\ \E n \in 0..PhotoLimit : Begin(p, [op |-> "ad_photos", posted |-> n])
    /\ UNCHANGED <<reports, recent, photos>>

\* Mutant: the photos there already are not taken off.
PhotoRoomOfANewAd == PhotoLimit
\* Mutant: an ad that has too many has less than no room.
PhotoRoomBelowZero == PhotoLimit - photos
PhotoRoom == IF photos > PhotoLimit THEN 0 ELSE PhotoLimit - photos

PhotosCounted(p) ==
    LET kept == IF req[p].posted <= PhotoRoom THEN req[p].posted ELSE PhotoRoom
    IN  /\ At(p, "ad_photos")
        /\ Continue(p, [op |-> "ad_attach", posted |-> kept])
        /\ UNCHANGED adVars

PhotosAttached(p) ==
    /\ At(p, "ad_attach")
    /\ photos' = photos + req[p].posted
    /\ End(p)
    /\ UNCHANGED <<ad, reports, recent, reported>>

AdPhotoDelete(p) ==
    /\ photos > 0 /\ req[p] = Idle
    /\ photos' = photos - 1
    /\ UNCHANGED <<ad, reports, recent, reported, workerVars>>

\* MyAdUnpublishView.
WithdrawAdRead(p) ==
    /\ ad.published
    /\ Begin(p, [op |-> "ad_withdraw"])
    /\ UNCHANGED adVars

Unpublish ==
    /\ ad' = [ad EXCEPT !.published = FALSE]
    /\ UNCHANGED <<reports, recent, reported, photos>>

WithdrawAdSave(p) == At(p, "ad_withdraw") /\ Unpublish /\ End(p)

-----------------------------------------------------------------------------
\* AdReportAPIView.
ReportRead(p, u) ==
    /\ ad.published
    /\ Begin(p, [op |-> "report_insert", user |-> u])
    /\ UNCHANGED adVars

\* A second report of a user is refused by the unique constraint; the handler
\* goes on with the first.
ReportInsert(p) ==
    /\ At(p, "report_insert")
    /\ reports' = reports \cup {req[p].user}
    /\ recent' = IF req[p].user \in reports THEN recent ELSE recent \cup {req[p].user}
    /\ reported' = TRUE
    /\ Continue(p, [op |-> "report_count"])
    /\ UNCHANGED <<ad, photos>>

\* The ad was published when it was loaded.
\* Mutant: one report more than the limit is needed.
ReportCountOneMore(p) ==
    /\ At(p, "report_count")
    /\ IF Cardinality(recent) > ReportLimit THEN Goto(p, "report_hide") ELSE End(p)
    /\ UNCHANGED adVars
ReportCount(p) ==
    /\ At(p, "report_count")
    /\ IF Cardinality(recent) >= ReportLimit THEN Goto(p, "report_hide") ELSE End(p)
    /\ UNCHANGED adVars

ReportHide(p) == At(p, "report_hide") /\ Unpublish /\ End(p)

\* Bound: requests take seconds, a week passes between them.
WeekPasses ==
    /\ AllIdle
    /\ recent # {}
    /\ recent' = {}
    /\ UNCHANGED <<ad, reports, reported, photos, workerVars>>

-----------------------------------------------------------------------------
AdStep(p) ==
    \/ AdPosted(p) \/ AdEdited(p) \/ PhotosCounted(p) \/ PhotosAttached(p) \/ AdPhotoDelete(p)
    \/ WithdrawAdRead(p) \/ WithdrawAdSave(p)
    \/ \E u \in Reporters : ReportRead(p, u)
    \/ ReportInsert(p) \/ ReportCount(p) \/ ReportHide(p)

AdsCrash(p) == Crash(p) /\ UNCHANGED adVars

AdsNext == WeekPasses \/ \E p \in Procs : AdStep(p) \/ AdsCrash(p)

AdsSpec == WorkersInit /\ AdsInit /\ [][AdsNext]_<<workerVars, adVars>>

-----------------------------------------------------------------------------
AdsTypeOK ==
    /\ ad \in AdRow
    /\ reports \subseteq Reporters /\ recent \subseteq reports
    /\ reported \in BOOLEAN
    /\ photos \in Nat
    /\ req \in [Procs -> AdRequest \cup {Idle}]

\* However edits, withdrawals and reports overlap, at rest an ad on the site has
\* no contacts in its text, and unless its owner has put it back or a worker died
\* it is not one that enough users have reported in the week.
WhatIsPublished ==
    AllIdle /\ ad.published =>
        /\ ad.clean
        /\ reported /\ crashes = 0 => Cardinality(recent) < ReportLimit

\* One at a time, however the photos of an ad are added and deleted, it never has
\* more than MAX_PHOTOS_PER_AD.
PhotosWithinLimit == photos <= PhotoLimit
=============================================================================
