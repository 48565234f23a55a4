------------------------------ MODULE Consents ------------------------------
(***************************************************************************)
(* The offer to business owners: the versions of the document, put on the  *)
(* site by the entrypoint of a container and by administrators             *)
(* (seed_legal_documents.py, docker/entrypoint.py, legal/admin.py), the    *)
(* version in force (legal/models.py), and the consent of one owner        *)
(* (legal/views.py, services.py).  Gates has where he is sent without one. *)
(***************************************************************************)
EXTENDS Workers, FiniteSets

CONSTANTS Editions,    \* keys of LegalDocumentVersion rows, in order of creation
          SeedEdition, \* the row of the label LEGAL_DOCS_VERSION
          Texts,
          NoText,
          MaxDeployDay \* bound on the days that pass

ASSUME ConsentsAssumption ==
    /\ Editions \subseteq Nat /\ SeedEdition \in Editions
    /\ \A e \in Editions : SeedEdition <= e
    /\ NoText \notin Texts /\ MaxDeployDay \in Nat

VARIABLES edition,     \* the rows: the text and the day it takes effect
          file,        \* the text in the release that is deployed
          day,
          consent,     \* the editions the owner has consented to
          consentPage, \* the text the owner's page of consent shows
          accepted     \* the text the owner was shown when he consented to each

consentVars == <<edition, file, day, consent, consentPage, accepted>>

Days == 0..MaxDeployDay
NoEdition == [text |-> NoText, since |-> 0]
Edition == [text : Texts, since : Days]

ConsentRequest == [op : {"consent_save"}, of : Editions, shown : Texts]

Published == {e \in Editions : edition[e] # NoEdition}

\* The entrypoint has run: there is always an offer.
ConsentsInit ==
    /\ file \in Texts
    /\ edition = [e \in Editions |-> IF e = SeedEdition THEN [text |-> file, since |-> 0] ELSE NoEdition]
    /\ day = 0
    /\ consent = {}
    /\ consentPage = NoText
    /\ accepted = [e \in Editions |-> NoText]

\* get_current_version: the last to take effect, the last created of those.
Effective == {e \in Published : edition[e].since <= day}
Current ==
    CHOOSE e \in Effective :
        \A o \in Effective : \/ edition[o].since < edition[e].since
                             \/ edition[o].since = edition[e].since /\ o <= e

-----------------------------------------------------------------------------
\* The container starts: update_or_create of the label, in force from now.
SeedDocuments ==
    /\ edition' = [edition EXCEPT ![SeedEdition] = [text |-> file, since |-> day]]
    /\ UNCHANGED <<file, day, consent, consentPage, accepted, workerVars>>

\* A release with another text is deployed.
Deploy ==
    /\ \E t \in Texts \ {file} :
          /\ file' = t
          /\ edition' = [edition EXCEPT ![SeedEdition] = [text |-> t, since |-> day]]
    /\ UNCHANGED <<day, consent, consentPage, accepted, workerVars>>

\* An administrator adds an edition, now or for later, edits one, or deletes one
\* nobody has consented to.
Publish ==
    /\ \E e \in Editions \ Published, new \in Edition :
          /\ \A o \in Editions \ Published : e <= o
          /\ edition' = [edition EXCEPT ![e] = new]
    /\ UNCHANGED <<file, day, consent, consentPage, accepted, workerVars>>

Edit ==
    /\ \E e \in Published \ {SeedEdition}, new \in Edition : edition' = [edition EXCEPT ![e] = new]
    /\ UNCHANGED <<file, day, consent, consentPage, accepted, workerVars>>

\* Mutant: the consents go with the edition.
WithdrawableAnyhow(e) == consent' = consent \ {e}
Withdrawable(e) == e \notin consent /\ UNCHANGED consent

Withdraw ==
    /\ \E e \in Published \ {SeedEdition} :
          /\ Withdrawable(e)
          /\ edition' = [edition EXCEPT ![e] = NoEdition]
    /\ UNCHANGED <<file, day, consentPage, accepted, workerVars>>

\* Bound: requests take seconds, a day passes between them.
ADayPasses ==
    /\ AllIdle /\ day < MaxDeployDay
    /\ day' = day + 1
    /\ UNCHANGED <<edition, file, consent, consentPage, accepted, workerVars>>

-----------------------------------------------------------------------------
\* StoConsentView.dispatch sends an owner who has consented to the cabinet.
Consented == Current \in consent

\* The page names the edition in force, and links to its text.
OpenConsent(p) ==
    /\ req[p] = Idle /\ ~Consented
    /\ consentPage' = edition[Current].text
    /\ UNCHANGED <<edition, file, day, consent, accepted, workerVars>>

\* The owner ticks the box: the edition in force is read again, then recorded.
PostConsent(p) ==
    /\ consentPage # NoText
    /\ IF Consented
       THEN /\ req[p] = Idle
            /\ UNCHANGED workerVars
       ELSE Begin(p, [op |-> "consent_save", of |-> Current, shown |-> consentPage])
    /\ consentPage' = NoText
    /\ UNCHANGED <<edition, file, day, consent, accepted>>

\* record_user_consents ignores a second consent to an edition.  The edition
\* may have been deleted: the foreign key refuses the consent.
SaveConsent(p) ==
    LET e == req[p].of
        new == edition[e] # NoEdition /\ e \notin consent
    IN  /\ At(p, "consent_save")
        /\ consent' = IF new THEN consent \cup {e} ELSE consent
        /\ accepted' = IF new THEN [accepted EXCEPT ![e] = req[p].shown] ELSE accepted
        /\ End(p)
        /\ UNCHANGED <<edition, file, day, consentPage>>

-----------------------------------------------------------------------------
ConsentsCrash(p) == Crash(p) /\ UNCHANGED consentVars

ConsentsNext ==
    \/ SeedDocuments \/ Deploy \/ Publish \/ Edit \/ Withdraw \/ ADayPasses
    \/ \E p \in Procs : OpenConsent(p) \/ PostConsent(p) \/ SaveConsent(p) \/ ConsentsCrash(p)

ConsentsSpec == WorkersInit /\ ConsentsInit /\ [][ConsentsNext]_<<workerVars, consentVars>>

-----------------------------------------------------------------------------
ConsentsTypeOK ==
    /\ edition \in [Editions -> Edition \cup {NoEdition}]
    /\ file \in Texts
    /\ day \in Days
    /\ consent \subseteq Editions
    /\ consentPage \in Texts \cup {NoText}
    /\ accepted \in [Editions -> Texts \cup {NoText}]
    /\ req \in [Procs -> ConsentRequest \cup {Idle}]

\* A consent stays: no release, edit or withdrawal takes one back.
ConsentIsKept == [][consent \subseteq consent']_consentVars

\* The command is idempotent: to start the container once more, with the text
\* that is already there, changes nothing about which text is in force.
SeedIsIdempotent ==
    [][SeedDocuments /\ edition[SeedEdition].text = file
          => edition'[Current'].text = edition[Current].text]_consentVars

\* A consent stands for the acceptance of a definite edition: the text the owner
\* was shown is the one the edition has, whenever he is held to it.
ConsentIsToTextShown == \A e \in consent : edition[e].text = accepted[e]
=============================================================================
