------------------------------ MODULE Contacts ------------------------------
(***************************************************************************)
(* The contact number of one user: given at registration or in the         *)
(* cabinet (apps/users/views.py, onboarding_views.py, cabinet_forms.py),   *)
(* then changed by request (cabinet_views.py) and the decision of an       *)
(* administrator (users/admin.py).                                         *)
(*                                                                         *)
(* The profile form shows the number once it is given, disabled, and saves *)
(* the whole row with the number it loaded.                                *)
(***************************************************************************)
EXTENDS Workers, FiniteSets

CONSTANTS Numbers,
          NoNumber,     \* an empty contact_phone
          PhoneRequests \* primary keys of ContactPhoneChangeRequest rows, in order

ASSUME ContactsAssumption == NoNumber \notin Numbers /\ PhoneRequests \subseteq Nat

VARIABLES contact,      \* contact_phone and business_role_chosen of the User row
          phoneRequest, \* the ContactPhoneChangeRequest rows
          inForce       \* the number the user gave or an administrator last approved

contactVars == <<contact, phoneRequest, inForce>>

NoPhoneRequest == [status |-> "none", number |-> NoNumber]
Contact == [number : Numbers \cup {NoNumber}, chosen : BOOLEAN]

ContactRequest ==
    [op : {"contact_save"}, number : Numbers \cup {NoNumber}, loaded : Numbers \cup {NoNumber}]
      \cup [op : {"onboard_save", "ask_save"}, number : Numbers]
      \cup [op : {"phone_apply", "phone_approve"}, of : PhoneRequests]

Asked(status) == {i \in PhoneRequests : phoneRequest[i].status = status}

\* A user of a registration form, who has given a number and a role, or of a
\* social login, who has not.
ContactsInit ==
    /\ contact \in [number : Numbers, chosen : {TRUE}] \cup [number : {NoNumber}, chosen : {FALSE}]
    /\ phoneRequest = [i \in PhoneRequests |-> NoPhoneRequest]
    /\ inForce = contact.number

-----------------------------------------------------------------------------
\* ClientProfileView: what the form makes of the number that is posted.
\* Mutant: the field is not disabled.
PostedNumberAsTyped(loaded) == Numbers \cup {loaded}
PostedNumber(loaded) == IF loaded = NoNumber THEN Numbers \cup {NoNumber} ELSE {loaded}

ContactFormRead(p) ==
    /\ \E number \in PostedNumber(contact.number) :
          Begin(p, [op |-> "contact_save", number |-> number, loaded |-> contact.number])
    /\ UNCHANGED contactVars

ContactFormSave(p) ==
    /\ At(p, "contact_save")
    /\ contact' = [contact EXCEPT !.number = req[p].number]
    /\ inForce' = IF req[p].loaded = NoNumber THEN req[p].number ELSE inForce
    /\ End(p)
    /\ UNCHANGED phoneRequest

\* complete_profile, until both the number and the role are given: the number
\* may be given once more.
OnboardRead(p) ==
    /\ contact.number = NoNumber \/ ~contact.chosen
    /\ \E number \in Numbers : Begin(p, [op |-> "onboard_save", number |-> number])
    /\ UNCHANGED contactVars

OnboardSave(p) ==
    /\ At(p, "onboard_save")
    /\ contact' = [number |-> req[p].number, chosen |-> TRUE]
    /\ inForce' = req[p].number
    /\ End(p)
    /\ UNCHANGED phoneRequest

-----------------------------------------------------------------------------
\* ContactPhoneChangeRequestView: one request at a time.
AskRead(p) ==
    /\ contact.number # NoNumber
    /\ Asked("pending") = {}
    /\ \E number \in Numbers : Begin(p, [op |-> "ask_save", number |-> number])
    /\ UNCHANGED contactVars

AskSave(p) ==
    /\ At(p, "ask_save")
    /\ \E i \in Asked("none") :
          /\ \A j \in Asked("none") : i <= j
          /\ phoneRequest' = [phoneRequest EXCEPT ![i] = [status |-> "pending", number |-> req[p].number]]
    /\ End(p)
    /\ UNCHANGED <<contact, inForce>>

\* Bound: no key is left for the request.
AskRefused(p) ==
    /\ At(p, "ask_save") /\ Asked("none") = {}
    /\ End(p)
    /\ UNCHANGED contactVars

\* approve_requests: the number, then the request.
ApproveNumberRead(p, i) ==
    /\ phoneRequest[i].status = "pending"
    /\ Begin(p, [op |-> "phone_apply", of |-> i])
    /\ UNCHANGED contactVars

ApplyNumber(p) ==
    /\ At(p, "phone_apply")
    /\ contact' = [contact EXCEPT !.number = phoneRequest[req[p].of].number]
    /\ inForce' = contact'.number
    /\ Goto(p, "phone_approve")
    /\ UNCHANGED phoneRequest

ApproveNumber(p) ==
    /\ At(p, "phone_approve")
    /\ phoneRequest' = [phoneRequest EXCEPT ![req[p].of].status = "approved"]
    /\ End(p)
    /\ UNCHANGED <<contact, inForce>>

\* reject_requests: one update of those still pending.
RejectNumber(p) ==
    /\ req[p] = Idle /\ Asked("pending") # {}
    /\ phoneRequest' = [i \in PhoneRequests |->
           IF i \in Asked("pending") THEN [phoneRequest[i] EXCEPT !.status = "rejected"] ELSE phoneRequest[i]]
    /\ UNCHANGED <<contact, inForce, workerVars>>

-----------------------------------------------------------------------------
ContactStep(p) ==
    \/ ContactFormRead(p) \/ ContactFormSave(p) \/ OnboardRead(p) \/ OnboardSave(p)
    \/ AskRead(p) \/ AskSave(p) \/ AskRefused(p)
    \/ \E i \in PhoneRequests : ApproveNumberRead(p, i)
    \/ ApplyNumber(p) \/ ApproveNumber(p) \/ RejectNumber(p)

ContactsCrash(p) == Crash(p) /\ UNCHANGED contactVars

ContactsNext == \E p \in Procs : ContactStep(p) \/ ContactsCrash(p)

ContactsSpec == WorkersInit /\ ContactsInit /\ [][ContactsNext]_<<workerVars, contactVars>>

-----------------------------------------------------------------------------
ContactsTypeOK ==
    /\ contact \in Contact
    /\ phoneRequest \in [PhoneRequests ->
           {NoPhoneRequest} \cup [status : {"pending", "approved", "rejected"}, number : Numbers]]
    /\ inForce \in Numbers \cup {NoNumber}
    /\ req \in [Procs -> ContactRequest \cup {Idle}]

\* One at a time, the number others see is the one its user gave, at first or
\* with the role, or an administrator last approved: no form brings an old number
\* back or a new one in.
ContactIsInForce == AllIdle => contact.number = inForce
=============================================================================
