------------------------------ MODULE Accounts ------------------------------
(***************************************************************************)
(* One account that may become the owner of stations: registration         *)
(* (apps/users/views.py) and the profile a social login completes          *)
(* (onboarding_views.py), moderation by administrators (erp/views.py,      *)
(* users/admin.py), the forms of the owner's cabinet that save a station   *)
(* (stations/owner_views.py) and what switches a station on in the         *)
(* catalogue (profile_completion.py).                                      *)
(*                                                                         *)
(* A transaction that locks nothing is a read step and a save step; the    *)
(* forms of the cabinet save the whole row they loaded.                    *)
(***************************************************************************)
EXTENDS Workers, FiniteSets

CONSTANTS StationIds, \* primary keys a ServiceStation row may get
          NoStation

ASSUME AccountsAssumption == NoStation \notin StationIds

VARIABLES moderated,  \* REGISTRATION_MODERATION_ENABLED
          account,    \* the User row
          stations,   \* its ServiceStation rows
          approved,   \* an administrator has approved the account
          switchedOn, \* stations an administrator has switched on, and their masters
          filled      \* where nobody is moderated: the parts of each station's profile
                      \* that have been filled in

accountVars == <<moderated, account, stations, approved, switchedOn, filled>>

\* What a complete profile has: a real address, and services or prices.
Parts == {"address", "prices"}
Moderation == {"pending", "approved", "rejected"}

NoAccount == [state |-> "none", owner |-> FALSE, chosen |-> FALSE, moderation |-> "approved"]
Account ==
    [state : {"none", "active", "inactive"}, owner : BOOLEAN, chosen : BOOLEAN, moderation : Moderation]

Nowhere == [made |-> FALSE, active |-> FALSE, parts |-> {}, parent |-> NoStation]
StationOf == [made : BOOLEAN, active : BOOLEAN, parts : SUBSET Parts, parent : StationIds \cup {NoStation}]

Made == {s \in StationIds : stations[s].made}

AccountRequest ==
    [op : {"complete_save", "approve_stations"}]
      \cup [op : {"profile_save", "profile_activate", "form_save", "master_save"},
            of : StationIds, loaded : [active : BOOLEAN, parts : SUBSET {"address"}]]

AccountsInit ==
    /\ moderated \in BOOLEAN
    /\ account = NoAccount
    /\ stations = [s \in StationIds |-> Nowhere]
    /\ approved = FALSE
    /\ switchedOn = {}
    /\ filled = [s \in StationIds |-> {}]

-----------------------------------------------------------------------------
\* Registration.

\* A business account waits for an administrator; its station is off, its
\* address a placeholder.
Business(row) ==
    [row EXCEPT !.state = "active", !.owner = TRUE, !.chosen = TRUE,
                !.moderation = IF moderated THEN "pending" ELSE "approved"]

\* A shop has a page of its own instead of a station.
NewStation ==
    \/ \E s \in StationIds \ Made : stations' = [stations EXCEPT ![s].made = TRUE]
    \/ UNCHANGED stations

\* _register_lite, register_start, sto_register; or a social login.
Register(p) ==
    /\ account.state = "none" /\ req[p] = Idle
    /\ \/ account' = Business(account) /\ NewStation
       \/ \E chosen \in BOOLEAN : account' = [account EXCEPT !.state = "active", !.chosen = chosen]
          /\ UNCHANGED stations
    /\ UNCHANGED <<moderated, approved, switchedOn, filled, workerVars>>

\* complete_profile, for whom the role is not chosen yet.
\* Mutant: for everybody.
CompleteReadAgain(p) ==
    /\ account.state = "active"
    /\ Begin(p, [op |-> "complete_save"])
    /\ UNCHANGED accountVars
CompleteRead(p) ==
    /\ account.state = "active" /\ ~account.chosen
    /\ Begin(p, [op |-> "complete_save"])
    /\ UNCHANGED accountVars

CompleteSave(p) ==
    /\ At(p, "complete_save")
    /\ \/ account' = [Business(account) EXCEPT !.state = account.state] /\ NewStation
       \/ account' = [account EXCEPT !.chosen = TRUE] /\ UNCHANGED stations
    /\ End(p)
    /\ UNCHANGED <<moderated, approved, switchedOn, filled>>

\* anonymize_user.
AccountDelete(p) ==
    /\ account.state = "active" /\ req[p] = Idle
    /\ account' = [account EXCEPT !.state = "inactive"]
    /\ UNCHANGED <<moderated, stations, approved, switchedOn, filled, workerVars>>

-----------------------------------------------------------------------------
\* The owner's cabinet.

\* _sto_owner_approved.
\* Mutant: an owner whose application is not decided is let in.
OwnerOfAnyStatus == account.state = "active" /\ account.owner
OwnerApproved == account.state = "active" /\ account.owner /\ account.moderation = "approved"

\* What is loaded with the row: services and prices are rows of their own.
Address(parts) == parts \cap {"address"}
Prices(parts) == parts \cap {"prices"}

CabinetRead(p, s, op) ==
    /\ OwnerApproved /\ s \in Made
    /\ Begin(p, [op |-> op, of |-> s,
                 loaded |-> [active |-> stations[s].active, parts |-> Address(stations[s].parts)]])
    /\ UNCHANGED accountVars

Counted(parts) == IF moderated THEN {} ELSE parts

\* The whole row is saved with what the form has changed in it.
SaveStation(s, active, parts) ==
    /\ stations' = [stations EXCEPT ![s].active = active, ![s].parts = parts]
    /\ filled' = [filled EXCEPT ![s] = @ \cup Counted(parts)]

\* StationProfileEditView.post.
ProfileRead(p, s) == CabinetRead(p, s, "profile_save")

ProfileSave(p) ==
    LET r == req[p]
    IN  /\ At(p, "profile_save")
        /\ \E parts \in SUBSET Parts :
              /\ SaveStation(r.of, r.loaded.active, parts)
              /\ Continue(p, [r EXCEPT !.op = "profile_activate", !.loaded.parts = Address(parts)])
        /\ UNCHANGED <<moderated, account, approved, switchedOn>>

\* maybe_activate_station_after_profile_save: the address is the one just saved,
\* services and prices are looked up.
\* Mutant: whatever is filled in.
ReadyWithAPart(r) == "address" \in r.loaded.parts \/ "prices" \in stations[r.of].parts
Ready(r) == "address" \in r.loaded.parts /\ "prices" \in stations[r.of].parts

ProfileActivate(p) ==
    LET r == req[p]
    IN  /\ At(p, "profile_activate")
        /\ stations' = [stations EXCEPT ![r.of].active = @ \/ (~r.loaded.active /\ Ready(r))]
        /\ End(p)
        /\ UNCHANGED <<moderated, account, approved, switchedOn, filled>>

\* StationBrandsUpdateView, master_update: other columns of the row.
FormRead(p, s) == CabinetRead(p, s, "form_save")

FormSave(p) ==
    LET r == req[p]
    IN  /\ At(p, "form_save")
        /\ SaveStation(r.of, r.loaded.active, r.loaded.parts \cup Prices(stations[r.of].parts))
        /\ End(p)
        /\ UNCHANGED <<moderated, account, approved, switchedOn>>

\* MasterCreateView: a master of the station, at its address, on if the station
\* was on.
MasterRead(p, s) == stations[s].parent = NoStation /\ CabinetRead(p, s, "master_save")

MasterSave(p) ==
    LET r == req[p]
    IN  /\ At(p, "master_save")
        /\ \E m \in StationIds \ Made, prices \in SUBSET {"prices"} :
              LET parts == r.loaded.parts \cup prices
              IN  /\ stations' = [stations EXCEPT ![m] = [made |-> TRUE, active |-> r.loaded.active,
                                                          parts |-> parts, parent |-> r.of]]
                  /\ filled' = [filled EXCEPT ![m] = filled[r.of] \cup Counted(parts)]
              /\ switchedOn' = IF r.of \in switchedOn THEN switchedOn \cup {m} ELSE switchedOn
        /\ End(p)
        /\ UNCHANGED <<moderated, account, approved>>

\* master_inherit: the address of the station.
MasterInherit(p, m) ==
    LET parent == stations[m].parent
    IN  /\ OwnerApproved /\ parent # NoStation /\ req[p] = Idle
        /\ SaveStation(m, stations[m].active,
                       Address(stations[parent].parts) \cup Prices(stations[m].parts))
        /\ UNCHANGED <<moderated, account, approved, switchedOn, workerVars>>

\* Bound: no key is left for the master.
MasterRefused(p) ==
    /\ At(p, "master_save") /\ Made = StationIds
    /\ End(p)
    /\ UNCHANGED accountVars

-----------------------------------------------------------------------------
\* Administrators; each saves the columns it changes.

\* user_sto_approve, approve_sto_moderation: the account, then its stations.
StoApprove(p) ==
    /\ account.state # "none"
    /\ account' = [account EXCEPT !.owner = TRUE, !.moderation = "approved"]
    /\ approved' = TRUE
    /\ Begin(p, [op |-> "approve_stations"])
    /\ UNCHANGED <<moderated, stations, switchedOn, filled>>

ApproveStations(p) ==
    /\ At(p, "approve_stations")
    /\ stations' = [s \in StationIds |-> [stations[s] EXCEPT !.active = stations[s].made]]
    /\ End(p)
    /\ UNCHANGED <<moderated, account, approved, switchedOn, filled>>

\* user_sto_set_moderation: the stations stay as they are.
SetModeration(p, status) ==
    /\ account.state # "none" /\ req[p] = Idle
    /\ account' = [account EXCEPT !.moderation = status]
    /\ approved' = (approved \/ status = "approved")
    /\ UNCHANGED <<moderated, stations, switchedOn, filled, workerVars>>

\* user_set_role, user_activate, user_deactivate.
UserSet(p) ==
    /\ account.state # "none" /\ req[p] = Idle
    /\ \/ \E owner \in BOOLEAN : account' = [account EXCEPT !.owner = owner]
       \/ \E state \in {"active", "inactive"} : account' = [account EXCEPT !.state = state]
    /\ UNCHANGED <<moderated, stations, approved, switchedOn, filled, workerVars>>

\* station_activate, station_deactivate.
StationActivate(p, s) ==
    /\ s \in Made /\ req[p] = Idle
    /\ stations' = [stations EXCEPT ![s].active = TRUE]
    /\ switchedOn' = switchedOn \cup {s}
    /\ UNCHANGED <<moderated, account, approved, filled, workerVars>>

StationDeactivate(p, s) ==
    /\ s \in Made /\ req[p] = Idle
    /\ stations' = [stations EXCEPT ![s].active = FALSE]
    /\ UNCHANGED <<moderated, account, approved, switchedOn, filled, workerVars>>

-----------------------------------------------------------------------------
AccountStep(p) ==
    \/ Register(p) \/ CompleteRead(p) \/ CompleteSave(p) \/ AccountDelete(p)
    \/ ProfileSave(p) \/ ProfileActivate(p) \/ FormSave(p) \/ MasterSave(p) \/ MasterRefused(p)
    \/ StoApprove(p) \/ ApproveStations(p) \/ UserSet(p)
    \/ \E status \in Moderation : SetModeration(p, status)
    \/ \E s \in StationIds :
          \/ ProfileRead(p, s) \/ FormRead(p, s) \/ MasterRead(p, s) \/ MasterInherit(p, s)
          \/ StationActivate(p, s) \/ StationDeactivate(p, s)

AccountsCrash(p) == Crash(p) /\ UNCHANGED accountVars

AccountsNext == \E p \in Procs : AccountStep(p) \/ AccountsCrash(p)

AccountsSpec == WorkersInit /\ AccountsInit /\ [][AccountsNext]_<<workerVars, accountVars>>

-----------------------------------------------------------------------------
AccountsTypeOK ==
    /\ moderated \in BOOLEAN
    /\ account \in Account
    /\ stations \in [StationIds -> StationOf]
    /\ approved \in BOOLEAN
    /\ switchedOn \subseteq StationIds
    /\ filled \in [StationIds -> SUBSET Parts]
    /\ req \in [Procs -> AccountRequest \cup {Idle}]

\* However forms, registrations and decisions overlap, a station is in the
\* catalogue only by right: an administrator has approved its owner or switched
\* it (or the station it works at) on, or, where nobody is moderated, its
\* profile has been filled in.
ByRight(s) == approved \/ s \in switchedOn \/ (~moderated /\ filled[s] = Parts)

StationComesOnByRight == \A s \in StationIds : stations[s].active => ByRight(s)

\* One at a time, an account is given one station when it registers or completes
\* its profile, and no more: every other one is a master of a station.
OnboardedOnce == Cardinality({s \in Made : stations[s].parent = NoStation}) <= 1
=============================================================================
