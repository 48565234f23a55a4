------------------------------- MODULE Gates -------------------------------
(***************************************************************************)
(* Where an account is sent: the page each way of registering leads to     *)
(* (apps/users/views.py, onboarding_views.py, allauth_adapters.py), and    *)
(* the gates that send it on to another page - of the offer and the        *)
(* moderation (legal/middleware.py, legal/views.py), of the telephone      *)
(* (onboarding_access.py), of the e-mail (email_verification_access.py),   *)
(* of a role (stations/owner_views.py, shop_owner_views.py,                *)
(* driving_instructors/views.py) - as the account, the offer and the       *)
(* decisions of the ERP (erp/views.py) change.                             *)
(***************************************************************************)
EXTENDS Naturals, FiniteSets

VARIABLES moderation, \* REGISTRATION_MODERATION_ENABLED
          lite,      \* DRIVER_REGISTRATION_LITE
          user,      \* the row, its profiles, whether it has consented to the offer in force
          sentTo     \* the page the last registration led to

gateVars == <<moderation, lite, user, sentTo>>

Roles == {"driver", "master", "autoservice", "autoshop", "instructor"}
StationRoles == {"master", "autoservice"}
Decisions == {"pending", "approved", "rejected"}

\* "sto_cabinet" stands for the pages of the cabinet of a station.
CabinetPages == {"sto_cabinet", "pending_moderation", "moderation_rejected"}
Pages == CabinetPages \cup
    {"home", "hub", "profile", "email_notice", "complete_profile", "sto_register", "sto_consent",
     "shop_dashboard", "shop_profile", "instructor_profile"}

Nobody == [here |-> FALSE, role |-> "driver", chosen |-> FALSE, owner |-> FALSE, applied |-> FALSE,
           decision |-> "approved", phone |-> FALSE, email |-> FALSE, verified |-> FALSE,
           consent |-> FALSE, shop |-> FALSE, instructor |-> FALSE]
UserRow == [here : BOOLEAN, role : Roles, chosen : BOOLEAN, owner : BOOLEAN, applied : BOOLEAN,
            decision : Decisions, phone : BOOLEAN, email : BOOLEAN, verified : BOOLEAN,
            consent : BOOLEAN, shop : BOOLEAN, instructor : BOOLEAN]

GatesInit ==
    /\ moderation \in BOOLEAN /\ lite \in BOOLEAN
    /\ user = Nobody
    /\ sentTo = "home"

-----------------------------------------------------------------------------
\* The gates.
OnboardingNeeded == ~user.phone

BusinessApproved ==
    user.owner /\ user.decision = "approved" /\ user.role \in StationRoles \cup {"autoshop"}
EmailNeeded == ~BusinessApproved /\ user.email /\ ~user.verified

\* StoOfferConsentMiddleware, on the pages of the cabinet.
Middleware(page) ==
    CASE ~user.owner -> page
      [] user.owner /\ user.decision = "pending" -> "pending_moderation"
      [] user.owner /\ user.decision = "rejected" -> "moderation_rejected"
      [] user.owner /\ user.decision = "approved" -> IF user.consent THEN page ELSE "sto_consent"

\* StoOwnerRequiredMixin, StoModerationPendingView, StoModerationRejectedView:
\* each shows itself to the owners of its decision.
DecisionPage(decision) ==
    CASE decision = "approved" -> "sto_cabinet"
      [] decision = "pending" -> "pending_moderation"
      [] decision = "rejected" -> "moderation_rejected"
\* Mutant: the cabinet of a station does not tell the owners of a shop.
CabinetViewForAll(page) ==
    IF OnboardingNeeded THEN "profile"
    ELSE IF ~user.owner THEN "refused"
    ELSE IF page = DecisionPage(user.decision)
         THEN IF user.role = "autoshop" THEN "refused" ELSE "shown"
         ELSE IF page = "sto_cabinet" THEN "refused" ELSE DecisionPage(user.decision)
CabinetView(page) ==
    IF OnboardingNeeded THEN "profile"
    ELSE IF ~user.owner THEN "refused"
    ELSE IF user.role = "autoshop" THEN "shop_dashboard"
    ELSE IF page = DecisionPage(user.decision) THEN "shown"
    ELSE IF page = "sto_cabinet" THEN "refused" ELSE DecisionPage(user.decision)

\* StoConsentView.  Mutant: back to the cabinet whoever has no business there.
StoConsentViewLoosely == IF user.consent \/ OnboardingNeeded THEN "sto_cabinet" ELSE "shown"
StoConsentView ==
    IF ~user.owner THEN "refused" ELSE IF user.consent THEN "sto_cabinet" ELSE "shown"

ShopDashboard ==
    IF OnboardingNeeded THEN "profile"
    ELSE IF EmailNeeded THEN "email_notice"
    ELSE IF user.role = "autoshop" /\ user.shop THEN "shown" ELSE "refused"

EmailNotice == IF ~user.email THEN "profile" ELSE IF user.verified THEN "home" ELSE "shown"

\* What a signed-in account gets for a page: another page, itself, or an error.
AnswerTo(page) ==
    CASE page \in CabinetPages ->
             IF Middleware(page) = page THEN CabinetView(page) ELSE Middleware(page)
      [] page = "sto_consent" -> StoConsentView
      [] page = "shop_dashboard" -> ShopDashboard
      [] page = "shop_profile" -> IF user.role = "autoshop" /\ user.shop THEN "shown" ELSE "refused"
      [] page = "instructor_profile" ->
             IF user.role = "instructor" /\ user.instructor THEN "shown" ELSE "refused"
      [] page = "email_notice" -> EmailNotice
      [] page = "complete_profile" -> IF user.phone /\ user.chosen THEN "home" ELSE "shown"
      [] page = "sto_register" -> IF user.owner THEN DecisionPage(user.decision) ELSE "shown"
      [] page \in {"home", "hub", "profile"} -> "shown"

\* Where a browser is after sixteen redirects, which is more than there are pages.
Followed(page) == IF AnswerTo(page) \in Pages THEN AnswerTo(page) ELSE page
Twice(step) == [page \in Pages |-> step[step[page]]]
Visit(page) == Twice(Twice(Twice(Twice([p \in Pages |-> Followed(p)]))))[page]

-----------------------------------------------------------------------------
\* CaptchaLoginView.get_success_url, get_login_redirect_url of a social login.
LoginPage == IF user.owner THEN DecisionPage(user.decision) ELSE "home"
SocialLoginPage == IF OnboardingNeeded THEN "profile" ELSE "hub"

\* _create_business_profile_from_registration, _apply_business_role_side_effects.
WithRole(row, role) ==
    LET station == role \in StationRoles \cup {"autoshop"}
    IN  [row EXCEPT !.role = role, !.chosen = TRUE, !.phone = TRUE,
             !.owner = @ \/ station, !.applied = @ \/ station,
             !.decision = IF ~station THEN @ ELSE IF moderation THEN "pending" ELSE "approved",
             !.shop = @ \/ role = "autoshop", !.instructor = @ \/ role = "instructor"]

\* _redirect_after_business_registration.
ProfilePage(role) ==
    CASE role = "instructor" -> "instructor_profile"
      [] role = "autoshop" -> "shop_profile"
      [] role \in StationRoles -> "sto_cabinet"

\* Without the moderation page for shops and instructors: register_start,
\* complete_profile.  Mutant: they wait as the others do.
FormPageOfAll(role) ==
    IF role = "driver" THEN "home" ELSE IF moderation THEN "pending_moderation" ELSE ProfilePage(role)
FormPage(role) ==
    CASE role = "driver" -> "home"
      [] role = "autoshop" /\ moderation -> "shop_dashboard"
      [] role = "instructor" \/ (role = "autoshop" /\ ~moderation) -> ProfilePage(role)
      [] role \in StationRoles -> IF moderation THEN "pending_moderation" ELSE ProfilePage(role)

\* _register_lite.
LitePage(role) ==
    IF role = "driver" THEN "home" ELSE IF moderation THEN "pending_moderation" ELSE ProfilePage(role)

RegisterStart ==
    /\ ~user.here
    /\ \E role \in Roles, email \in BOOLEAN :
          /\ lite => ~email
          /\ user' = [WithRole(Nobody, role) EXCEPT !.here = TRUE, !.email = email, !.verified = ~email]
          /\ sentTo' = IF lite THEN LitePage(role) ELSE FormPage(role)
    /\ UNCHANGED <<moderation, lite>>

\* The role stays the default one.
StoRegister ==
    /\ ~user.here
    /\ \E email \in BOOLEAN :
          user' = [Nobody EXCEPT !.here = TRUE, !.chosen = TRUE, !.phone = TRUE, !.owner = TRUE,
                       !.applied = TRUE, !.email = email, !.verified = ~email,
                       !.decision = IF moderation THEN "pending" ELSE "approved"]
    /\ sentTo' = IF moderation THEN "pending_moderation" ELSE "sto_cabinet"
    /\ UNCHANGED <<moderation, lite>>

SocialSignUp ==
    /\ ~user.here
    /\ \E email \in BOOLEAN : user' = [Nobody EXCEPT !.here = TRUE, !.email = email, !.verified = email]
    /\ sentTo' = "profile"
    /\ UNCHANGED <<moderation, lite>>

\* A second shop of one owner undoes the transaction.
CompleteProfile ==
    /\ user.here /\ AnswerTo("complete_profile") = "shown"
    /\ \E role \in Roles :
          /\ ~(role = "autoshop" /\ user.shop)
          /\ user' = WithRole(user, role)
          /\ sentTo' = FormPage(role)
    /\ UNCHANGED <<moderation, lite>>

-----------------------------------------------------------------------------
\* ClientProfileView: the telephone is entered once.
ProfilePost ==
    /\ user.here
    /\ \E email, phone \in BOOLEAN :
          user' = [user EXCEPT !.email = email, !.phone = @ \/ phone]
    /\ UNCHANGED <<moderation, lite, sentTo>>

\* verify_email: the form to send a letter is on the page that asks for it.
VerifyEmail ==
    /\ user.here /\ user.email /\ ~user.verified
    /\ user' = [user EXCEPT !.verified = TRUE]
    /\ UNCHANGED <<moderation, lite, sentTo>>

GiveConsent ==
    /\ user.here /\ StoConsentView = "shown"
    /\ user' = [user EXCEPT !.consent = TRUE]
    /\ UNCHANGED <<moderation, lite, sentTo>>

\* Another edition of the offer takes effect.
NewEdition ==
    /\ user.consent
    /\ user' = [user EXCEPT !.consent = FALSE]
    /\ UNCHANGED <<moderation, lite, sentTo>>

\* user_set_role, user_sto_approve, user_sto_set_moderation.
ErpDecides ==
    /\ user.here
    /\ \/ \E owner \in BOOLEAN : user' = [user EXCEPT !.owner = owner]
       \/ user' = [user EXCEPT !.owner = TRUE, !.decision = "approved"]
       \/ \E decision \in Decisions : user' = [user EXCEPT !.decision = decision]
    /\ UNCHANGED <<moderation, lite, sentTo>>

GatesNext ==
    \/ RegisterStart \/ StoRegister \/ SocialSignUp \/ CompleteProfile
    \/ ProfilePost \/ VerifyEmail \/ GiveConsent \/ NewEdition \/ ErpDecides

GatesSpec == GatesInit /\ [][GatesNext]_gateVars

-----------------------------------------------------------------------------
GatesTypeOK ==
    /\ moderation \in BOOLEAN /\ lite \in BOOLEAN
    /\ user \in UserRow
    /\ sentTo \in Pages

\* However the offer, the decisions and the account change, the gates never send
\* an account round in circles: every page ends in a page or in an error.
NoRedirectLoop == user.here => \A page \in Pages : AnswerTo(Visit(page)) \in {"shown", "refused"}

\* Whoever logs in, with the password or by a social account, is shown a page in
\* the end, and no error.
LoginLands == user.here => \A page \in {LoginPage, SocialLoginPage} : AnswerTo(Visit(page)) = "shown"

\* Whoever registers, or completes a profile, is shown a page in the end, but for
\* an instructor of the short form where applications are moderated.
RegistrationLands ==
    [][sentTo' # sentTo \/ (user'.chosen /\ ~user.chosen)
        => \/ AnswerTo(Visit(sentTo))' = "shown"
           \/ lite /\ moderation /\ user'.role = "instructor"]_gateVars

\* A business whose application an administrator has approved is not asked to
\* confirm its e-mail.
ApprovedNeedsNoEmail ==
    moderation /\ user.applied /\ user.owner /\ user.decision = "approved" => ~EmailNeeded

\* While its application is on moderation, a shop is not let into its cabinet.
PendingShopWaits ==
    user.role = "autoshop" /\ user.owner /\ user.decision = "pending" => AnswerTo("shop_dashboard") # "shown"
=============================================================================
