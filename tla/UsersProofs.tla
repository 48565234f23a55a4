----------------------------- MODULE UsersProofs -----------------------------
(***************************************************************************)
(* Theorems about the accounts of users: their stations (Accounts), the    *)
(* identities and mailboxes they sign in with (SignIn), the numbers they   *)
(* are shown (RevealLimits) and others see (Contacts), and what they have  *)
(* consented to (Consents), for every set of them.  What holds however     *)
(* many workers overlap comes first; what holds of one at a time follows,  *)
(* and then the import of masters, which makes accounts beside them.       *)
(***************************************************************************)
EXTENDS Accounts, SignIn, RevealLimits, Contacts, Consents, MasterImport,
        FiniteSetTheorems, WellFoundedInduction, TLAPS

-----------------------------------------------------------------------------
(* Stations and the right to switch them on.                               *)

USE DEF accountVars, workerVars

CabinetOps == {"profile_save", "profile_activate", "form_save", "master_save"}

\* What a form of the cabinet goes on with.
CabinetRequest ==
    [op : CabinetOps, of : StationIds, loaded : [active : BOOLEAN, parts : SUBSET {"address"}]]

\* A form in flight holds what it has loaded.
LEMMA CabinetRequestTyped ==
    ASSUME AccountsTypeOK, NEW p \in Procs, req[p].op \in CabinetOps
    PROVE  /\ req[p] \in CabinetRequest
           /\ req[p].of \in StationIds
           /\ req[p].loaded.active \in BOOLEAN /\ req[p].loaded.parts \subseteq {"address"}
BY DEF AccountsTypeOK, AccountRequest, CabinetOps, CabinetRequest, Idle

\* A request that ends, or whose worker dies, is a request no more.
LEMMA EndTyped ==
    ASSUME req \in [Procs -> AccountRequest \cup {Idle}], NEW p \in Procs, End(p) \/ Crash(p)
    PROVE  req' \in [Procs -> AccountRequest \cup {Idle}]
BY DEF End, Continue, Crash

\* A form loads a station of an account that may enter the cabinet.
LEMMA CabinetReadTyped ==
    ASSUME AccountsTypeOK, NEW p \in Procs, NEW s \in StationIds,
           NEW op \in CabinetOps, CabinetRead(p, s, op)
    PROVE  req' \in [Procs -> AccountRequest \cup {Idle}]
<1>1. stations[s].active \in BOOLEAN /\ Address(stations[s].parts) \in SUBSET {"address"}
  BY DEF AccountsTypeOK, StationOf, Address
<1>2. [op |-> op, of |-> s, loaded |-> [active |-> stations[s].active,
                                        parts |-> Address(stations[s].parts)]] \in AccountRequest
  BY <1>1 DEF AccountRequest, CabinetOps
<1>3. QED
  BY <1>2 DEF CabinetRead, Begin, AccountsTypeOK

\* A step keeps the types of the columns.
LEMMA AccountsTyped ==
    /\ WorkersInit /\ AccountsInit => AccountsTypeOK
    /\ AccountsTypeOK /\ [AccountsNext]_<<workerVars, accountVars>> => AccountsTypeOK'
<1>1. WorkersInit /\ AccountsInit => AccountsTypeOK
  <2> SUFFICES ASSUME WorkersInit, AccountsInit PROVE AccountsTypeOK
    OBVIOUS
  <2>1. req \in [Procs -> AccountRequest \cup {Idle}]
    BY DEF WorkersInit
  <2>2. stations \in [StationIds -> StationOf]
    BY DEF AccountsInit, StationOf, Nowhere
  <2>3. account \in Account
    BY DEF AccountsInit, Account, NoAccount, Moderation
  <2>4. QED
    BY <2>1, <2>2, <2>3 DEF AccountsInit, AccountsTypeOK
<1>2. AccountsTypeOK /\ [AccountsNext]_<<workerVars, accountVars>> => AccountsTypeOK'
  <2> SUFFICES ASSUME AccountsTypeOK, [AccountsNext]_<<workerVars, accountVars>>
               PROVE  AccountsTypeOK'
    OBVIOUS
  <2>a. /\ moderated \in BOOLEAN /\ account \in Account
        /\ stations \in [StationIds -> StationOf] /\ approved \in BOOLEAN
        /\ switchedOn \subseteq StationIds /\ filled \in [StationIds -> SUBSET Parts]
        /\ req \in [Procs -> AccountRequest \cup {Idle}]
    BY DEF AccountsTypeOK
  <2>b. ASSUME NEW s \in StationIds, NEW active \in BOOLEAN, NEW parts \in SUBSET Parts,
               SaveStation(s, active, parts)
        PROVE  stations' \in [StationIds -> StationOf] /\ filled' \in [StationIds -> SUBSET Parts]
    <3>1. [stations[s] EXCEPT !.active = active, !.parts = parts] \in StationOf
      BY <2>a, ZenonT(40) DEF StationOf
    <3>2. stations' = [stations EXCEPT ![s] = [stations[s] EXCEPT !.active = active, !.parts = parts]]
      BY <2>a, <2>b DEF SaveStation
    <3>3. stations' \in [StationIds -> StationOf]
      BY <2>a, <3>1, <3>2
    <3>4. filled' \in [StationIds -> SUBSET Parts]
      BY <2>a, <2>b DEF SaveStation, Counted
    <3>5. QED
      BY <3>3, <3>4
  <2>c. Business(account) \in Account
    BY <2>a DEF Business, Account, Moderation
  <2>d. NewStation => stations' \in [StationIds -> StationOf]
    <3>1. ASSUME NEW s \in StationIds, stations' = [stations EXCEPT ![s].made = TRUE]
          PROVE  stations' \in [StationIds -> StationOf]
      <4>1. [stations[s] EXCEPT !.made = TRUE] \in StationOf
        BY <2>a, ZenonT(40) DEF StationOf
      <4>2. QED
        BY <2>a, <3>1, <4>1
    <3>2. QED
      BY <2>a, <3>1 DEF NewStation, Made
  <2>1. ASSUME NEW p \in Procs, Register(p) PROVE AccountsTypeOK'
    <3>1. account' \in Account /\ stations' \in [StationIds -> StationOf]
      BY <2>1, <2>a, <2>c, <2>d DEF Register, Account
    <3>2. QED
      BY <2>1, <2>a, <3>1 DEF Register, AccountsTypeOK
  <2>2. ASSUME NEW p \in Procs, CompleteRead(p) PROVE AccountsTypeOK'
    <3>1. [op |-> "complete_save"] \in AccountRequest
      BY DEF AccountRequest
    <3>2. QED
      BY <2>2, <2>a, <3>1 DEF CompleteRead, Begin, AccountsTypeOK
  <2>3. ASSUME NEW p \in Procs, CompleteSave(p) PROVE AccountsTypeOK'
    <3>1. account' \in Account
      BY <2>3, <2>a, <2>c DEF CompleteSave, Account
    <3>2. stations' \in [StationIds -> StationOf]
      BY <2>3, <2>a, <2>d DEF CompleteSave
    <3>3. QED
      BY <2>3, <2>a, <3>1, <3>2, EndTyped DEF CompleteSave, AccountsTypeOK
  <2>4. ASSUME NEW p \in Procs, AccountDelete(p) PROVE AccountsTypeOK'
    BY <2>4, <2>a DEF AccountDelete, AccountsTypeOK, Account
  <2>5. ASSUME NEW p \in Procs, NEW s \in StationIds, ProfileRead(p, s) \/ FormRead(p, s) \/ MasterRead(p, s)
        PROVE  AccountsTypeOK'
    <3>1. PICK op \in CabinetOps : CabinetRead(p, s, op)
      BY <2>5 DEF ProfileRead, FormRead, MasterRead, CabinetOps
    <3>2. QED
      BY <2>a, <3>1, CabinetReadTyped DEF CabinetRead, AccountsTypeOK
  <2>6. ASSUME NEW p \in Procs, ProfileSave(p) PROVE AccountsTypeOK'
    <3> DEFINE r == req[p]
    <3>1. r \in CabinetRequest /\ r.of \in StationIds /\ r.loaded.active \in BOOLEAN
      BY <2>6, CabinetRequestTyped DEF ProfileSave, At, CabinetOps
    <3>2. PICK parts \in SUBSET Parts :
                 /\ SaveStation(r.of, r.loaded.active, parts)
                 /\ Continue(p, [r EXCEPT !.op = "profile_activate", !.loaded.parts = Address(parts)])
      BY <2>6 DEF ProfileSave
    <3>3. [r EXCEPT !.op = "profile_activate", !.loaded.parts = Address(parts)] \in AccountRequest
      BY <3>1 DEF CabinetRequest, CabinetOps, AccountRequest, Address
    <3>4. req' \in [Procs -> AccountRequest \cup {Idle}]
      BY <2>a, <3>2, <3>3 DEF Continue
    <3>5. QED
      BY <2>6, <2>a, <2>b, <3>1, <3>2, <3>4 DEF ProfileSave, AccountsTypeOK
  <2>7. ASSUME NEW p \in Procs, ProfileActivate(p) PROVE AccountsTypeOK'
    <3>1. req[p].of \in StationIds
      BY <2>7, CabinetRequestTyped DEF ProfileActivate, At, CabinetOps
    <3>2. PICK on \in BOOLEAN : stations' = [stations EXCEPT ![req[p].of].active = on]
      BY <2>7, <2>a, <3>1 DEF ProfileActivate, StationOf
    <3>3. stations' \in [StationIds -> StationOf]
      BY <2>a, <3>1, <3>2 DEF StationOf
    <3>4. QED
      BY <2>7, <2>a, <3>3, EndTyped DEF ProfileActivate, AccountsTypeOK
  <2>8. ASSUME NEW p \in Procs, FormSave(p) PROVE AccountsTypeOK'
    <3> DEFINE r == req[p]
    <3>1. r.of \in StationIds /\ r.loaded.active \in BOOLEAN /\ r.loaded.parts \subseteq {"address"}
      BY <2>8, CabinetRequestTyped DEF FormSave, At, CabinetOps
    <3>2. r.loaded.parts \cup Prices(stations[r.of].parts) \in SUBSET Parts
      BY <3>1 DEF Prices, Parts
    <3>3. QED
      BY <2>8, <2>a, <2>b, <3>1, <3>2, EndTyped DEF FormSave, AccountsTypeOK
  <2>9. ASSUME NEW p \in Procs, MasterSave(p) PROVE AccountsTypeOK'
    <3> DEFINE r == req[p]
    <3>1. r.of \in StationIds /\ r.loaded.active \in BOOLEAN /\ r.loaded.parts \subseteq {"address"}
      BY <2>9, CabinetRequestTyped DEF MasterSave, At, CabinetOps
    <3>2. PICK m \in StationIds, prices \in SUBSET {"prices"} :
                 /\ stations' = [stations EXCEPT ![m] =
                       [made |-> TRUE, active |-> r.loaded.active,
                        parts |-> r.loaded.parts \cup prices, parent |-> r.of]]
                 /\ filled' = [filled EXCEPT ![m] = filled[r.of] \cup Counted(r.loaded.parts \cup prices)]
                 /\ switchedOn' = IF r.of \in switchedOn THEN switchedOn \cup {m} ELSE switchedOn
      BY <2>9 DEF MasterSave, Made
    <3>3. r.loaded.parts \cup prices \in SUBSET Parts
      BY <3>1 DEF Parts
    <3>4. [made |-> TRUE, active |-> r.loaded.active,
           parts |-> r.loaded.parts \cup prices, parent |-> r.of] \in StationOf
      BY <3>1, <3>3 DEF StationOf
    <3>5. stations' \in [StationIds -> StationOf]
      BY <2>a, <3>2, <3>4
    <3>6. filled' \in [StationIds -> SUBSET Parts]
      BY <2>a, <3>1, <3>2, <3>3 DEF Counted
    <3>7. QED
      BY <2>9, <2>a, <3>2, <3>5, <3>6, EndTyped DEF MasterSave, AccountsTypeOK
  <2>10. ASSUME NEW p \in Procs, NEW m \in StationIds, MasterInherit(p, m) PROVE AccountsTypeOK'
    <3>1. Address(stations[stations[m].parent].parts) \cup Prices(stations[m].parts) \in SUBSET Parts
      BY DEF Address, Prices, Parts
    <3>2. stations[m].active \in BOOLEAN
      BY <2>a DEF StationOf
    <3>3. QED
      BY <2>10, <2>a, <2>b, <3>1, <3>2 DEF MasterInherit, AccountsTypeOK
  <2>11. ASSUME NEW p \in Procs, MasterRefused(p) PROVE AccountsTypeOK'
    BY <2>11, <2>a, EndTyped DEF MasterRefused, AccountsTypeOK
  <2>12. ASSUME NEW p \in Procs, StoApprove(p) PROVE AccountsTypeOK'
    <3>1. [op |-> "approve_stations"] \in AccountRequest
      BY DEF AccountRequest
    <3>2. account' \in Account
      BY <2>12, <2>a DEF StoApprove, Account, Moderation
    <3>3. QED
      BY <2>12, <2>a, <3>1, <3>2 DEF StoApprove, Begin, AccountsTypeOK
  <2>13. ASSUME NEW p \in Procs, ApproveStations(p) PROVE AccountsTypeOK'
    <3>1. stations' \in [StationIds -> StationOf]
      <4>1. \A s \in StationIds : [stations[s] EXCEPT !.active = stations[s].made] \in StationOf
        BY <2>a DEF StationOf
      <4>2. QED
        BY <2>13, <4>1 DEF ApproveStations
    <3>2. QED
      BY <2>13, <2>a, <3>1, EndTyped DEF ApproveStations, AccountsTypeOK
  <2>14. ASSUME NEW p \in Procs, NEW status \in Moderation, SetModeration(p, status) PROVE AccountsTypeOK'
    <3>1. approved' \in BOOLEAN
      BY <2>14, <2>a DEF SetModeration
    <3>2. account' \in Account
      BY <2>14, <2>a DEF SetModeration, Account
    <3>3. QED
      BY <2>14, <2>a, <3>1, <3>2 DEF SetModeration, AccountsTypeOK
  <2>15. ASSUME NEW p \in Procs, UserSet(p) PROVE AccountsTypeOK'
    <3>1. account' \in Account
      BY <2>15, <2>a DEF UserSet, Account
    <3>2. QED
      BY <2>15, <2>a, <3>1 DEF UserSet, AccountsTypeOK
  <2>16. ASSUME NEW p \in Procs, NEW s \in StationIds, StationActivate(p, s) \/ StationDeactivate(p, s)
         PROVE  AccountsTypeOK'
    <3>1. stations' \in [StationIds -> StationOf]
      <4>1. PICK on \in BOOLEAN : stations' = [stations EXCEPT ![s].active = on]
        BY <2>16 DEF StationActivate, StationDeactivate
      <4>2. QED
        BY <2>a, <4>1 DEF StationOf
    <3>2. switchedOn' \subseteq StationIds
      BY <2>16, <2>a DEF StationActivate, StationDeactivate
    <3>3. QED
      BY <2>16, <2>a, <3>1, <3>2 DEF StationActivate, StationDeactivate, AccountsTypeOK
  <2>17. ASSUME NEW p \in Procs, AccountsCrash(p) PROVE AccountsTypeOK'
    BY <2>17, <2>a, EndTyped DEF AccountsCrash, AccountsTypeOK
  <2>18. CASE UNCHANGED <<workerVars, accountVars>>
    BY <2>18, <2>a DEF AccountsTypeOK
  <2>19. QED
    BY <2>1, <2>2, <2>3, <2>4, <2>5, <2>6, <2>7, <2>8, <2>9, <2>10, <2>11, <2>12, <2>13, <2>14, <2>15,
       <2>16, <2>17, <2>18 DEF AccountsNext, AccountStep
<1>3. QED
  BY <1>1, <1>2

\* Every state keeps to the types of its columns, and a form saves what it can
\* have loaded.
THEOREM AccountsTypeCorrect == AccountsSpec => []AccountsTypeOK
BY AccountsTyped, PTL DEF AccountsSpec

-----------------------------------------------------------------------------
\* StationComesOnByRight is not inductive: a form may write an old `active` back.
\* It is with what the rights rest on: a station that is not made is off and empty
\* (and nobody's), and where nobody is moderated, what a station has was filled in;
StationSound(s) ==
    /\ s \notin Made =>
          ~stations[s].active /\ stations[s].parts = {} /\ stations[s].parent = NoStation
    /\ stations[s].active => ByRight(s)
    /\ ~moderated => stations[s].parts \subseteq filled[s]

\* a form in flight is one of a station that there is, of an owner who was let in,
\* and the station was on by right if it was on;
FormSound(p) ==
    req[p].op \in CabinetOps =>
        /\ req[p].of \in Made
        /\ moderated => approved
        /\ req[p].loaded.active => ByRight(req[p].of)
        /\ ~moderated => req[p].loaded.parts \subseteq filled[req[p].of]

\* an approval in flight is of an account that is approved;
ApprovalSound(p) == req[p].op = "approve_stations" => approved

\* and where applications are moderated, an account counts as approved and has
\* stations only when an administrator has approved it.
ApprovedInDeed == moderated /\ account.moderation = "approved" /\ Made # {} => approved

RightsInv ==
    /\ \A s \in StationIds : StationSound(s)
    /\ \A p \in Procs : FormSound(p) /\ ApprovalSound(p)
    /\ ApprovedInDeed

\* What a step leaves of the rights that there are: all of them.
Grown ==
    /\ moderated' = moderated
    /\ approved => approved'
    /\ switchedOn \subseteq switchedOn'
    /\ \A s \in Made : stations'[s].made /\ filled[s] \subseteq filled'[s]

\* A right once there stays.
LEMMA RightsStay ==
    ASSUME AccountsTypeOK, AccountsTypeOK', Grown, NEW s \in Made, ByRight(s)
    PROVE  ByRight(s)'
BY DEF AccountsTypeOK, Grown, ByRight, Made

\* So what a step does not touch stays sound: a station,
LEMMA StationStaysSound ==
    ASSUME AccountsTypeOK, AccountsTypeOK', Grown, NEW s \in StationIds, StationSound(s),
           stations'[s] = stations[s], ~moderated /\ s \notin Made => stations[s].parts \subseteq filled'[s]
    PROVE  StationSound(s)'
<1>1. CASE s \in Made
  <2>1. stations[s].active => ByRight(s)'
    BY <1>1, RightsStay DEF StationSound
  <2>2. s \in Made'
    BY <1>1 DEF Made
  <2>3. QED
    BY <1>1, <2>1, <2>2 DEF StationSound, Grown
<1>2. CASE s \notin Made
  BY <1>2 DEF StationSound, Grown, Made
<1>3. QED
  BY <1>1, <1>2

\* and a request.
LEMMA RequestStaysSound ==
    ASSUME AccountsTypeOK, AccountsTypeOK', Grown, NEW p \in Procs, FormSound(p), ApprovalSound(p),
           req'[p] = req[p]
    PROVE  FormSound(p)' /\ ApprovalSound(p)'
<1>1. CASE req[p].op \in CabinetOps
  <2>1. req[p].of \in Made
    BY <1>1 DEF FormSound
  <2>2. req[p].loaded.active => ByRight(req[p].of)'
    BY <1>1, <2>1, RightsStay DEF FormSound
  <2>3. req[p].of \in Made'
    BY <2>1 DEF Grown, Made
  <2>4. QED
    BY <1>1, <2>1, <2>2, <2>3 DEF FormSound, ApprovalSound, Grown
<1>2. CASE req[p].op \notin CabinetOps
  BY <1>2 DEF FormSound, ApprovalSound, Grown
<1>3. QED
  BY <1>1, <1>2

\* A step of one worker that leaves it with no request.
LEMMA OneIdle ==
    ASSUME AccountsTypeOK, AccountsTypeOK', Grown, NEW p \in Procs,
           \A q \in Procs : FormSound(q) /\ ApprovalSound(q),
           req' = [req EXCEPT ![p] = Idle] \/ req' = req
    PROVE  \A q \in Procs : FormSound(q)' /\ ApprovalSound(q)'
<1> SUFFICES ASSUME NEW q \in Procs PROVE FormSound(q)' /\ ApprovalSound(q)'
  OBVIOUS
<1>1. CASE req'[q] = req[q]
  BY <1>1, RequestStaysSound
<1>2. CASE req'[q] # req[q]
  <2>1. req'[q] = Idle
    BY <1>2 DEF AccountsTypeOK
  <2>2. QED
    BY <2>1 DEF FormSound, ApprovalSound, Idle, CabinetOps
<1>3. QED
  BY <1>1, <1>2

\* A form that saves a station saves what is the station's by right.
LEMMA SavedByRight ==
    ASSUME AccountsTypeOK, AccountsTypeOK', NEW s \in Made, NEW active, NEW parts \in SUBSET Parts,
           SaveStation(s, active, parts), UNCHANGED <<moderated, approved, switchedOn>>,
           \A t \in StationIds : StationSound(t), active => ByRight(s)
    PROVE  Grown /\ \A t \in StationIds : StationSound(t)'
<1>1. /\ stations' = [stations EXCEPT ![s].active = active, ![s].parts = parts]
      /\ filled' = [filled EXCEPT ![s] = @ \cup Counted(parts)]
  BY DEF SaveStation
<1>2. Grown
  BY <1>1 DEF AccountsTypeOK, StationOf, Grown, Made
<1>3. ASSUME NEW t \in StationIds, t # s PROVE StationSound(t)'
  <2>1. stations'[t] = stations[t] /\ filled'[t] = filled[t]
    BY <1>1, <1>3 DEF AccountsTypeOK
  <2>2. QED
    BY <1>2, <2>1, StationStaysSound DEF StationSound
<1>4. StationSound(s)'
  <2>1. s \in Made'
    BY <1>2 DEF Grown, Made
  <2>2. stations'[s].active = active /\ stations'[s].parts = parts
    BY <1>1 DEF AccountsTypeOK, StationOf, Made
  <2>3. ~moderated => parts \subseteq filled'[s]
    BY <1>1 DEF AccountsTypeOK, Counted, Made
  <2>4. active => ByRight(s)'
    BY <1>2, RightsStay
  <2>5. QED
    BY <2>1, <2>2, <2>3, <2>4 DEF StationSound
<1>5. QED
  BY <1>2, <1>3, <1>4

\* However registrations, forms of the cabinet and decisions of administrators
\* overlap, no station comes into the catalogue but by right: a stale form writes
\* back a station that was on by right when it was loaded, and rights only grow.
THEOREM OnByRight == AccountsSpec => []StationComesOnByRight
<1>1. WorkersInit /\ AccountsInit => RightsInv
  <2> SUFFICES ASSUME WorkersInit, AccountsInit PROVE RightsInv
    OBVIOUS
  <2>1. \A s \in StationIds : stations[s] = Nowhere
    BY DEF AccountsInit
  <2>2. \A p \in Procs : req[p] = Idle
    BY DEF WorkersInit
  <2>3. Made = {}
    BY <2>1 DEF Made, Nowhere
  <2>4. QED
    BY <2>1, <2>2, <2>3 DEF RightsInv, StationSound, FormSound, ApprovalSound, ApprovedInDeed,
         Nowhere, Idle, CabinetOps
<1>2. AccountsTypeOK /\ AccountsTypeOK' /\ RightsInv /\ [AccountsNext]_<<workerVars, accountVars>>
        => RightsInv'
  <2> SUFFICES ASSUME AccountsTypeOK, AccountsTypeOK', RightsInv,
                      [AccountsNext]_<<workerVars, accountVars>>
               PROVE  RightsInv'
    OBVIOUS
  <2>a. /\ \A s \in StationIds : StationSound(s)
        /\ \A p \in Procs : FormSound(p) /\ ApprovalSound(p)
        /\ ApprovedInDeed
    BY DEF RightsInv
  <2>b. ASSUME UNCHANGED <<moderated, approved, switchedOn, stations, filled>>
        PROVE  Grown /\ (\A s \in StationIds : StationSound(s)') /\ Made' = Made
    <3>1. Grown /\ Made' = Made
      BY <2>b DEF Grown, Made
    <3>2. QED
      BY <2>a, <2>b, <3>1, StationStaysSound DEF StationSound
  \* Registration.
  <2>c. ASSUME NewStation, UNCHANGED <<moderated, approved, switchedOn, filled>>
        PROVE  Grown /\ (\A s \in StationIds : StationSound(s)')
    <3>1. CASE UNCHANGED stations
      BY <2>b, <2>c, <3>1
    <3>2. ASSUME NEW s \in StationIds \ Made, stations' = [stations EXCEPT ![s].made = TRUE]
          PROVE  Grown /\ (\A t \in StationIds : StationSound(t)')
      <4>1. Grown
        BY <2>c, <3>2 DEF Grown, Made, AccountsTypeOK
      <4>2. ASSUME NEW t \in StationIds, t # s PROVE StationSound(t)'
        <5>1. stations'[t] = stations[t] /\ filled'[t] = filled[t]
          BY <2>c, <3>2, <4>2 DEF AccountsTypeOK
        <5>2. QED
          BY <2>a, <4>1, <5>1, StationStaysSound DEF StationSound
      <4>3. ~stations'[s].active /\ stations'[s].parts = {} /\ s \in Made'
        BY <2>a, <3>2 DEF StationSound, AccountsTypeOK, StationOf, Made
      <4>4. StationSound(s)'
        BY <4>3 DEF StationSound
      <4>5. QED
        BY <4>1, <4>2, <4>4
    <3>3. QED
      BY <2>c, <3>1, <3>2 DEF NewStation
  <2>d. moderated => Business(account).moderation = "pending"
    BY DEF AccountsTypeOK, Account, Business
  <2>1. ASSUME NEW p \in Procs, Register(p) PROVE RightsInv'
    <3>1. Grown /\ (\A s \in StationIds : StationSound(s)')
      BY <2>1, <2>b, <2>c DEF Register
    <3>2. ApprovedInDeed'
      <4>1. CASE account' = Business(account)
        BY <2>1, <2>d, <4>1 DEF Register, ApprovedInDeed
      <4>2. CASE UNCHANGED stations /\ account'.moderation = account.moderation
        BY <2>1, <2>a, <4>2 DEF Register, ApprovedInDeed, Made
      <4>3. QED
        BY <2>1, <4>1, <4>2 DEF Register, AccountsTypeOK, Account
    <3>3. QED
      BY <2>1, <2>a, <3>1, <3>2, OneIdle DEF Register, RightsInv
  <2>2. ASSUME NEW p \in Procs, CompleteSave(p) PROVE RightsInv'
    <3>1. Grown /\ (\A s \in StationIds : StationSound(s)')
      BY <2>2, <2>b, <2>c DEF CompleteSave
    <3>2. ApprovedInDeed'
      <4>1. CASE account' = [Business(account) EXCEPT !.state = account.state]
        <5>1. moderated => account'.moderation = "pending"
          BY <4>1 DEF AccountsTypeOK, Account, Business
        <5>2. QED
          BY <2>2, <5>1 DEF CompleteSave, ApprovedInDeed
      <4>2. CASE UNCHANGED stations /\ account'.moderation = account.moderation
        BY <2>2, <2>a, <4>2 DEF CompleteSave, ApprovedInDeed, Made
      <4>3. QED
        BY <2>2, <4>1, <4>2 DEF CompleteSave, AccountsTypeOK, Account
    <3>3. QED
      BY <2>2, <2>a, <3>1, <3>2, OneIdle DEF CompleteSave, End, Continue, RightsInv
  <2>3. ASSUME NEW p \in Procs, CompleteRead(p) PROVE RightsInv'
    <3>1. Grown /\ (\A s \in StationIds : StationSound(s)') /\ Made' = Made
      BY <2>3, <2>b DEF CompleteRead
    <3>2. ASSUME NEW q \in Procs PROVE FormSound(q)' /\ ApprovalSound(q)'
      <4>1. CASE q = p
        <5>1. req'[p] = [op |-> "complete_save"]
          BY <2>3 DEF CompleteRead, Begin, AccountsTypeOK
        <5>2. QED
          BY <4>1, <5>1 DEF FormSound, ApprovalSound, CabinetOps
      <4>2. CASE q # p
        BY <2>3, <2>a, <3>1, <4>2, RequestStaysSound DEF CompleteRead, Begin, AccountsTypeOK
      <4>3. QED
        BY <4>1, <4>2
    <3>3. QED
      BY <2>3, <2>a, <3>1, <3>2 DEF CompleteRead, RightsInv, ApprovedInDeed
  <2>4. ASSUME NEW p \in Procs, AccountDelete(p) \/ UserSet(p) PROVE RightsInv'
    <3>1. Grown /\ (\A s \in StationIds : StationSound(s)') /\ Made' = Made
      BY <2>4, <2>b DEF AccountDelete, UserSet
    <3>2. account'.moderation = account.moderation
      BY <2>4 DEF AccountDelete, UserSet, AccountsTypeOK, Account
    <3>3. QED
      BY <2>4, <2>a, <3>1, <3>2, OneIdle DEF AccountDelete, UserSet, RightsInv, ApprovedInDeed
  <2>5. ASSUME NEW p \in Procs, NEW status \in Moderation, SetModeration(p, status) PROVE RightsInv'
    <3>1. UNCHANGED <<moderated, stations, switchedOn, filled, req>> /\ approved' = (approved \/ status = "approved")
      BY <2>5 DEF SetModeration
    <3>2. Grown /\ Made' = Made
      BY <3>1 DEF Grown, Made
    <3>3. \A s \in StationIds : StationSound(s)'
      BY <2>a, <3>1, <3>2, StationStaysSound DEF StationSound
    <3>4. account'.moderation = status
      BY <2>5 DEF SetModeration, AccountsTypeOK, Account
    <3>5. ApprovedInDeed'
      BY <3>1, <3>4 DEF ApprovedInDeed
    <3>6. QED
      BY <2>5, <2>a, <3>1, <3>2, <3>3, <3>5, OneIdle DEF RightsInv
  <2>6. ASSUME NEW p \in Procs, NEW s \in StationIds, NEW op \in CabinetOps, CabinetRead(p, s, op)
        PROVE  RightsInv'
    <3>1. Grown /\ (\A t \in StationIds : StationSound(t)') /\ Made' = Made
      BY <2>6, <2>b DEF CabinetRead
    <3>2. ApprovalSound(p)' /\ FormSound(p)'
      <4>1. req'[p] = [op |-> op, of |-> s, loaded |-> [active |-> stations[s].active,
                                                      parts |-> Address(stations[s].parts)]]
        BY <2>6 DEF CabinetRead, Begin, AccountsTypeOK
      <4>2. s \in Made /\ (moderated => approved) /\ UNCHANGED accountVars
        BY <2>6, <2>a DEF CabinetRead, OwnerApproved, ApprovedInDeed
      <4>3. stations[s].active => ByRight(s)'
        BY <2>a, <3>1, <4>2, RightsStay DEF StationSound
      <4>4. ~moderated => Address(stations[s].parts) \subseteq filled'[s]
        BY <2>a, <4>2 DEF StationSound, Address, Made
      <4>5. s \in Made'
        BY <3>1, <4>2
      <4>6. QED
        BY <4>1, <4>2, <4>3, <4>4, <4>5 DEF FormSound, ApprovalSound, CabinetOps
    <3>3. \A q \in Procs \ {p} : FormSound(q)' /\ ApprovalSound(q)'
      BY <2>6, <2>a, <3>1, RequestStaysSound DEF CabinetRead, Begin, AccountsTypeOK
    <3>4. QED
      BY <2>6, <2>a, <3>1, <3>2, <3>3 DEF CabinetRead, RightsInv, ApprovedInDeed
  <2>7. ASSUME NEW p \in Procs, ProfileSave(p) PROVE RightsInv'
    <3> DEFINE r == req[p]
    <3>1. /\ r \in CabinetRequest /\ r.of \in StationIds /\ r.loaded.active \in BOOLEAN
          /\ r.loaded.parts \subseteq {"address"}
      BY <2>7, CabinetRequestTyped DEF ProfileSave, At, CabinetOps
    <3>2. r.of \in Made /\ (moderated => approved) /\ (r.loaded.active => ByRight(r.of))
      BY <2>7, <2>a DEF ProfileSave, At, FormSound, CabinetOps
    <3>3. PICK parts \in SUBSET Parts :
                 /\ SaveStation(r.of, r.loaded.active, parts)
                 /\ Continue(p, [r EXCEPT !.op = "profile_activate", !.loaded.parts = Address(parts)])
      BY <2>7 DEF ProfileSave
    <3>4. UNCHANGED <<moderated, account, approved, switchedOn>>
      BY <2>7 DEF ProfileSave
    <3>5. Grown /\ (\A t \in StationIds : StationSound(t)')
      BY <2>a, <3>2, <3>3, <3>4, SavedByRight
    <3>6. FormSound(p)' /\ ApprovalSound(p)'
      <4>1. req'[p] = [r EXCEPT !.op = "profile_activate", !.loaded.parts = Address(parts)]
        BY <3>3 DEF Continue, AccountsTypeOK
      <4>2. /\ req'[p].op = "profile_activate" /\ req'[p].of = r.of
            /\ req'[p].loaded.active = r.loaded.active /\ req'[p].loaded.parts = Address(parts)
        BY <3>1, <4>1 DEF CabinetRequest
      <4>3. \A s \in Made : s \in Made' /\ (ByRight(s) => ByRight(s)')
        BY <3>5, RightsStay DEF Grown, Made
      <4>4. ~moderated => Address(parts) \subseteq filled'[r.of]
        BY <3>1, <3>3 DEF SaveStation, Counted, Address, AccountsTypeOK
      <4>5. QED
        BY <3>2, <3>4, <4>2, <4>3, <4>4 DEF FormSound, ApprovalSound, ByRight
    <3>7. \A q \in Procs \ {p} : FormSound(q)' /\ ApprovalSound(q)'
      BY <2>a, <3>3, <3>5, RequestStaysSound DEF Continue, AccountsTypeOK
    <3>8. ApprovedInDeed'
      BY <3>2, <3>4 DEF ApprovedInDeed
    <3>9. QED
      BY <3>5, <3>6, <3>7, <3>8 DEF RightsInv
  <2>8. ASSUME NEW p \in Procs, ProfileActivate(p) PROVE RightsInv'
    <3> DEFINE r == req[p]
    <3>1. r.of \in StationIds /\ r.loaded.active \in BOOLEAN /\ r.loaded.parts \subseteq {"address"}
      BY <2>8, CabinetRequestTyped DEF ProfileActivate, At, CabinetOps
    <3>2. /\ r.of \in Made /\ (moderated => approved)
          /\ ~moderated => r.loaded.parts \subseteq filled[r.of]
      BY <2>8, <2>a DEF ProfileActivate, At, FormSound, CabinetOps
    <3> DEFINE on == stations[r.of].active \/ (~r.loaded.active /\ Ready(r))
    <3>3. stations' = [stations EXCEPT ![r.of].active = on] /\ UNCHANGED <<moderated, account, approved, switchedOn, filled>>
      BY <2>8, <3>1 DEF ProfileActivate, AccountsTypeOK
    <3>4. on => ByRight(r.of)
      <4>1. CASE stations[r.of].active
        BY <2>a, <3>1, <4>1 DEF StationSound
      <4>2. CASE Ready(r) /\ ~moderated
        <5>1. "address" \in filled[r.of] /\ "prices" \in filled[r.of]
          BY <2>a, <3>1, <3>2, <4>2 DEF Ready, StationSound
        <5>2. QED
          BY <3>1, <4>2, <5>1 DEF ByRight, Parts, AccountsTypeOK
      <4>3. CASE moderated
        BY <3>2, <4>3 DEF ByRight
      <4>4. QED
        BY <4>1, <4>2, <4>3
    <3> HIDE DEF on
    <3>5. Grown
      BY <3>1, <3>3 DEF Grown, Made, AccountsTypeOK
    <3>6. ASSUME NEW t \in StationIds PROVE StationSound(t)'
      <4>1. CASE t # r.of
        <5>1. stations'[t] = stations[t] /\ filled'[t] = filled[t]
          BY <3>3, <4>1 DEF AccountsTypeOK
        <5>2. QED
          BY <2>a, <3>5, <5>1, StationStaysSound DEF StationSound
      <4>2. CASE t = r.of
        <5>1. stations'[t].active = on /\ stations'[t].parts = stations[t].parts /\ filled'[t] = filled[t]
          BY <3>1, <3>3, <4>2 DEF AccountsTypeOK, StationOf
        <5>2. t \in Made /\ (on => ByRight(t))
          BY <3>2, <3>4, <4>2
        <5>3. t \in Made' /\ (on => ByRight(t)')
          BY <3>5, <5>2, RightsStay DEF Grown, Made
        <5>4. ~moderated' => stations'[t].parts \subseteq filled'[t]
          BY <2>a, <3>3, <5>1 DEF StationSound
        <5>5. QED
          BY <5>1, <5>3, <5>4 DEF StationSound
      <4>3. QED
        BY <4>1, <4>2
    <3>7. ApprovedInDeed'
      BY <3>2, <3>3 DEF ApprovedInDeed
    <3>8. QED
      BY <2>8, <2>a, <3>5, <3>6, <3>7, OneIdle DEF ProfileActivate, End, Continue, RightsInv
  <2>9. ASSUME NEW p \in Procs, FormSave(p) PROVE RightsInv'
    <3> DEFINE r == req[p]
               parts == r.loaded.parts \cup Prices(stations[r.of].parts)
    <3>1. r.of \in StationIds /\ r.loaded.active \in BOOLEAN /\ r.loaded.parts \subseteq {"address"}
      BY <2>9, CabinetRequestTyped DEF FormSave, At, CabinetOps
    <3>2. r.of \in Made /\ (moderated => approved) /\ (r.loaded.active => ByRight(r.of))
      BY <2>9, <2>a DEF FormSave, At, FormSound, CabinetOps
    <3>3. parts \in SUBSET Parts
      BY <3>1 DEF Prices, Parts
    <3>4. SaveStation(r.of, r.loaded.active, parts) /\ UNCHANGED <<moderated, account, approved, switchedOn>>
      BY <2>9 DEF FormSave
    <3>5. Grown /\ (\A t \in StationIds : StationSound(t)')
      BY <2>a, <3>2, <3>3, <3>4, SavedByRight
    <3>6. ApprovedInDeed'
      BY <3>2, <3>4 DEF ApprovedInDeed
    <3>7. QED
      BY <2>9, <2>a, <3>5, <3>6, OneIdle DEF FormSave, End, Continue, RightsInv
  <2>10. ASSUME NEW p \in Procs, MasterSave(p) PROVE RightsInv'
    <3> DEFINE r == req[p]
    <3>1. r.of \in StationIds /\ r.loaded.active \in BOOLEAN /\ r.loaded.parts \subseteq {"address"}
      BY <2>10, CabinetRequestTyped DEF MasterSave, At, CabinetOps
    <3>2. r.of \in Made /\ (moderated => approved) /\ (r.loaded.active => ByRight(r.of))
      BY <2>10, <2>a DEF MasterSave, At, FormSound, CabinetOps
    <3>3. PICK m \in StationIds \ Made, prices \in SUBSET {"prices"} :
                 /\ stations' = [stations EXCEPT ![m] =
                       [made |-> TRUE, active |-> r.loaded.active,
                        parts |-> r.loaded.parts \cup prices, parent |-> r.of]]
                 /\ filled' = [filled EXCEPT ![m] = filled[r.of] \cup Counted(r.loaded.parts \cup prices)]
                 /\ switchedOn' = IF r.of \in switchedOn THEN switchedOn \cup {m} ELSE switchedOn
      BY <2>10 DEF MasterSave
    <3>4. UNCHANGED <<moderated, account, approved>>
      BY <2>10 DEF MasterSave
    <3>5. Grown
      <4>1. \A s \in Made : stations'[s] = stations[s] /\ filled'[s] = filled[s]
        BY <3>3 DEF AccountsTypeOK, Made
      <4>2. switchedOn \subseteq switchedOn'
        BY <3>3
      <4>3. QED
        BY <3>4, <4>1, <4>2 DEF Grown, Made
    <3>6. ASSUME NEW t \in StationIds PROVE StationSound(t)'
      <4>1. CASE t # m
        BY <2>a, <3>3, <3>5, <4>1, StationStaysSound DEF StationSound, AccountsTypeOK
      <4>2. CASE t = m
        <5>1. /\ stations'[m].made /\ stations'[m].active = r.loaded.active
              /\ stations'[m].parts = r.loaded.parts \cup prices
          BY <3>3 DEF AccountsTypeOK
        <5>2. filled'[m] = filled[r.of] \cup Counted(r.loaded.parts \cup prices)
          BY <3>3 DEF AccountsTypeOK
        <5>3. r.loaded.active => ByRight(m)'
          <6>1. CASE approved
            BY <3>4, <6>1 DEF ByRight
          <6>2. CASE r.of \in switchedOn
            BY <3>3, <6>2 DEF ByRight
          <6>3. CASE ~moderated /\ filled[r.of] = Parts
            BY <3>4, <5>2, <6>3 DEF ByRight, AccountsTypeOK
          <6>4. QED
            BY <3>2, <6>1, <6>2, <6>3 DEF ByRight
        <5>4. QED
          BY <3>4, <4>2, <5>1, <5>2, <5>3 DEF StationSound, Counted, Made
      <4>3. QED
        BY <4>1, <4>2
    <3>7. ApprovedInDeed'
      BY <3>2, <3>4 DEF ApprovedInDeed
    <3>8. QED
      BY <2>10, <2>a, <3>5, <3>6, <3>7, OneIdle DEF MasterSave, End, Continue, RightsInv
  <2>11. ASSUME NEW p \in Procs, NEW m \in StationIds, MasterInherit(p, m) PROVE RightsInv'
    <3> DEFINE parts == Address(stations[stations[m].parent].parts) \cup Prices(stations[m].parts)
    <3>1. SaveStation(m, stations[m].active, parts) /\ UNCHANGED <<moderated, account, approved, switchedOn, req>>
      BY <2>11 DEF MasterInherit
    <3>2. parts \in SUBSET Parts
      BY DEF Address, Prices, Parts
    <3>3. stations[m].active => ByRight(m)
      BY <2>a DEF StationSound
    <3>4. stations[m].parent # NoStation
      BY <2>11 DEF MasterInherit
    <3>5. CASE m \in Made
      <4>1. Grown /\ (\A t \in StationIds : StationSound(t)')
        BY <2>a, <3>1, <3>2, <3>3, <3>5, SavedByRight
      <4>2. moderated => approved
        BY <2>11, <2>a, <3>5 DEF MasterInherit, OwnerApproved, ApprovedInDeed
      <4>3. ApprovedInDeed'
        BY <3>1, <4>2 DEF ApprovedInDeed
      <4>4. QED
        BY <2>a, <3>1, <4>1, <4>3, OneIdle DEF RightsInv
    <3>6. QED
      BY <2>a, <3>4, <3>5 DEF StationSound
  <2>12. ASSUME NEW p \in Procs, StoApprove(p) PROVE RightsInv'
    <3>1. UNCHANGED <<moderated, stations, switchedOn, filled>> /\ approved' = TRUE
      BY <2>12 DEF StoApprove
    <3>2. Grown
      BY <3>1 DEF Grown, Made
    <3>3. \A s \in StationIds : StationSound(s)'
      BY <2>a, <3>1, <3>2, StationStaysSound DEF StationSound
    <3>4. ApprovedInDeed'
      BY <3>1 DEF ApprovedInDeed
    <3>5. ASSUME NEW q \in Procs PROVE FormSound(q)' /\ ApprovalSound(q)'
      <4>1. CASE q = p
        <5>1. req'[p] = [op |-> "approve_stations"]
          BY <2>12 DEF StoApprove, Begin, AccountsTypeOK
        <5>2. QED
          BY <3>1, <4>1, <5>1 DEF FormSound, ApprovalSound, CabinetOps
      <4>2. CASE q # p
        BY <2>12, <2>a, <3>2, <4>2, RequestStaysSound DEF StoApprove, Begin, AccountsTypeOK
      <4>3. QED
        BY <4>1, <4>2
    <3>6. QED
      BY <3>3, <3>4, <3>5 DEF RightsInv
  <2>13. ASSUME NEW p \in Procs, ApproveStations(p) PROVE RightsInv'
    <3>1. /\ approved /\ UNCHANGED <<moderated, account, approved, switchedOn, filled>>
          /\ stations' = [s \in StationIds |-> [stations[s] EXCEPT !.active = stations[s].made]]
      BY <2>13, <2>a DEF ApproveStations, ApprovalSound, At
    <3>2. \A s \in StationIds : /\ stations'[s].made = stations[s].made
                                /\ stations'[s].active = stations[s].made
                                /\ stations'[s].parts = stations[s].parts
                                /\ stations'[s].parent = stations[s].parent
      BY <3>1 DEF AccountsTypeOK, StationOf
    <3>3. Grown
      BY <3>1, <3>2 DEF Grown, Made
    <3>4. \A s \in StationIds : StationSound(s)'
      <4> SUFFICES ASSUME NEW s \in StationIds PROVE StationSound(s)'
        OBVIOUS
      <4>1. StationSound(s)
        BY <2>a
      <4>2. ByRight(s)'
        BY <3>1 DEF ByRight
      <4>3. s \in Made' <=> s \in Made
        BY <3>2 DEF Made
      <4>4. s \notin Made => ~stations'[s].active
        BY <3>2 DEF Made
      <4>5. QED
        BY <3>1, <3>2, <4>1, <4>2, <4>3, <4>4 DEF StationSound
    <3>5. ApprovedInDeed'
      BY <3>1 DEF ApprovedInDeed
    <3>6. QED
      BY <2>13, <2>a, <3>3, <3>4, <3>5, OneIdle DEF ApproveStations, End, Continue, RightsInv
  <2>14. ASSUME NEW p \in Procs, NEW s \in StationIds, StationActivate(p, s) \/ StationDeactivate(p, s)
         PROVE  RightsInv'
    <3>1. PICK on \in BOOLEAN : /\ stations' = [stations EXCEPT ![s].active = on]
                                /\ on => s \in switchedOn'
      BY <2>14 DEF StationActivate, StationDeactivate
    <3>2. s \in Made /\ UNCHANGED <<moderated, account, approved, filled, req>> /\ switchedOn \subseteq switchedOn'
      BY <2>14 DEF StationActivate, StationDeactivate
    <3>3. /\ \A t \in StationIds : stations'[t].made = stations[t].made /\ stations'[t].parts = stations[t].parts
          /\ \A t \in StationIds \ {s} : stations'[t] = stations[t]
          /\ stations'[s].active = on
      BY <3>1 DEF AccountsTypeOK, StationOf
    <3>4. Grown /\ Made' = Made
      BY <3>2, <3>3 DEF Grown, Made
    <3>5. ASSUME NEW t \in StationIds PROVE StationSound(t)'
      <4>1. CASE t # s
        BY <2>a, <3>2, <3>3, <3>4, <4>1, StationStaysSound DEF StationSound
      <4>2. CASE t = s
        BY <2>a, <3>1, <3>2, <3>3, <3>4, <4>2 DEF StationSound, ByRight
      <4>3. QED
        BY <4>1, <4>2
    <3>6. QED
      BY <2>a, <3>2, <3>4, <3>5, OneIdle DEF RightsInv, ApprovedInDeed
  <2>15. ASSUME NEW p \in Procs, MasterRefused(p) \/ AccountsCrash(p) PROVE RightsInv'
    <3>1. Grown /\ (\A s \in StationIds : StationSound(s)') /\ Made' = Made
      BY <2>15, <2>b DEF MasterRefused, AccountsCrash
    <3>2. QED
      BY <2>15, <2>a, <3>1, OneIdle
         DEF MasterRefused, AccountsCrash, Crash, End, Continue, RightsInv, ApprovedInDeed
  <2>16. CASE UNCHANGED <<workerVars, accountVars>>
    <3>1. Grown /\ (\A s \in StationIds : StationSound(s)') /\ Made' = Made
      BY <2>16, <2>b
    <3>2. \A q \in Procs : FormSound(q)' /\ ApprovalSound(q)'
      BY <2>16, <2>a, <3>1, RequestStaysSound
    <3>3. QED
      BY <2>16, <2>a, <3>1, <3>2 DEF RightsInv, ApprovedInDeed
  <2>17. ASSUME NEW p \in Procs, NEW s \in StationIds, ProfileRead(p, s) \/ FormRead(p, s) \/ MasterRead(p, s)
         PROVE  RightsInv'
    BY <2>17, <2>6 DEF ProfileRead, FormRead, MasterRead, CabinetOps
  <2>18. QED
    BY <2>1, <2>2, <2>3, <2>4, <2>5, <2>7, <2>8, <2>9, <2>10, <2>11, <2>12, <2>13, <2>14,
       <2>15, <2>16, <2>17 DEF AccountsNext, AccountStep
<1>3. RightsInv => StationComesOnByRight
  BY DEF RightsInv, StationSound, StationComesOnByRight
<1>4. QED
  BY <1>1, <1>2, <1>3, AccountsTypeCorrect, PTL DEF AccountsSpec

-----------------------------------------------------------------------------
(* Identities and mailboxes.                                               *)

USE DEF signInVars

\* The requests in flight are requests the handlers make.
Flights == req \in [Procs -> SignInRequest \cup {Idle}]

\* A request that ends, or whose worker dies, is a request no more.
LEMMA EndKeepsFlights ==
    ASSUME Flights, NEW p \in Procs, End(p) \/ Crash(p)
    PROVE  Flights'
BY DEF Flights, End, Continue, Crash

\* What a sequence holds.
LEMMA Held ==
    ASSUME NEW S, NEW s \in Seq(S), NEW i \in 1..Len(s)
    PROVE  s[i] \in S
OBVIOUS

\* What is put at the end of one.
LEMMA LetterAppended ==
    ASSUME NEW S, NEW s \in Seq(S), NEW x \in S
    PROVE  Append(s, x) \in Seq(S)
OBVIOUS

\* No handler deletes an account.
LEMMA AccountsStay ==
    ASSUME SignInTypeOK, NEW p \in Procs, SignInStep(p)
    PROVE  \A m \in Members : member[m].here => member'[m].here
<1>1. Flights
  BY DEF SignInTypeOK, Flights
<1>2. ASSUME NEW m \in Members, NEW row, row.here, member' = [member EXCEPT ![m] = row]
      PROVE  \A n \in Members : member[n].here => member'[n].here
  BY <1>2 DEF SignInTypeOK
<1>6. CASE RegisterSave(p)
  <2>1. req[p].of \in Members
    BY <1>1, <1>6 DEF Flights, RegisterSave, At, SignInRequest, Idle
  <2>2. CASE UNCHANGED member
    BY <2>2
  <2>3. CASE ~UNCHANGED member
    BY <1>6, <2>1, <2>3, <1>2 DEF RegisterSave
  <2>4. QED
    BY <2>2, <2>3
<1>7. CASE ResendSave(p)
  BY <1>7 DEF SignInTypeOK, ResendSave, Member, Absent
<1>8. CASE FollowSave(p)
  BY <1>8 DEF SignInTypeOK, FollowSave, Member, Absent
<1>9. CASE VkCreate(p)
  <2>1. req[p].of \in Members
    BY <1>1, <1>9 DEF Flights, VkCreate, At, SignInRequest, Idle
  <2>2. CASE UNCHANGED member
    BY <2>2
  <2>3. CASE ~UNCHANGED member
    BY <1>9, <2>1, <2>3, <1>2 DEF VkCreate
  <2>4. QED
    BY <2>2, <2>3
<1>3. CASE AddressSave(p)
  <2>1. req[p].of \in Members /\ req[p].row \in Member
    BY <1>1, <1>3 DEF Flights, AddressSave, At, SignInRequest, Idle
  <2>2. req[p].row.here
    BY <2>1 DEF Member
  <2>3. QED
    BY <1>2, <1>3, <2>1, <2>2 DEF AddressSave
<1>4. CASE UNCHANGED member
  BY <1>4
<1>5. QED
  BY <1>3, <1>4, <1>6, <1>7, <1>8, <1>9 DEF SignInStep, RegisterRead, ResendRead, ResendRefused, FollowRead,
       AddressRead, EnterLinked, EnterByAddress, VkLink, VkSignUpRead

\* Types alone are not inductive: a letter is sent, or a link is followed, for an
\* account that is there.
LettersHaveAccounts ==
    \A p \in Procs : At(p, "resend_save") \/ At(p, "link_save") => member[req[p].of].here

\* An account that is there has a row.
LEMMA HereIsMember ==
    ASSUME SignInTypeOK, NEW m \in Members, member[m].here
    PROVE  member[m] \in Member
BY DEF SignInTypeOK, Absent

\* A step keeps the types of the columns, and what the requests in flight go on with.
LEMMA SignInTyped ==
    /\ WorkersInit /\ SignInInit => SignInTypeOK /\ LettersHaveAccounts
    /\ SignInTypeOK /\ LettersHaveAccounts /\ [SignInNext]_<<workerVars, signInVars>>
         => SignInTypeOK' /\ LettersHaveAccounts'
<1>1. WorkersInit /\ SignInInit => SignInTypeOK /\ LettersHaveAccounts
  <2> SUFFICES ASSUME WorkersInit, SignInInit PROVE SignInTypeOK /\ LettersHaveAccounts
    OBVIOUS
  <2>1. req \in [Procs -> SignInRequest \cup {Idle}]
    BY DEF WorkersInit
  <2>2. letter \in Seq([to : Members, address : Addresses])
    BY DEF SignInInit
  <2>3. LettersHaveAccounts
    BY DEF WorkersInit, LettersHaveAccounts, At, Idle
  <2>4. QED
    BY <2>1, <2>2, <2>3 DEF SignInInit, SignInTypeOK
<1>2. SignInTypeOK /\ LettersHaveAccounts /\ [SignInNext]_<<workerVars, signInVars>> => SignInTypeOK'
  <2> SUFFICES ASSUME SignInTypeOK, LettersHaveAccounts,
                      [SignInNext]_<<workerVars, signInVars>>
               PROVE  SignInTypeOK'
    OBVIOUS
  <2> USE SignInAssumption
  <2>1. Flights
    BY DEF SignInTypeOK, Flights
  <2>2. ASSUME UNCHANGED signInVars, Flights' PROVE SignInTypeOK'
    BY <2>2 DEF SignInTypeOK, Flights
  <2>3. ASSUME NEW p \in Procs, RegisterRead(p) PROVE SignInTypeOK'
    <3>1. Flights'
      BY <2>1, <2>3 DEF RegisterRead, Begin, Flights, SignInRequest, Lower
    <3>2. QED
      BY <2>2, <2>3, <3>1 DEF RegisterRead
  <2>4. ASSUME NEW p \in Procs, RegisterSave(p) PROVE SignInTypeOK'
    <3>1. Flights'
      BY <2>1, <2>4, EndKeepsFlights DEF RegisterSave
    <3>2. CASE UNCHANGED <<member, letter>>
      BY <2>2, <2>4, <3>1, <3>2 DEF RegisterSave
    <3> DEFINE m == req[p].of
               a == req[p].address
    <3>3. CASE ~UNCHANGED <<member, letter>>
      <4>1. req[p] \in SignInRequest \cup {Idle} /\ req[p].op = "register_save"
        BY <2>1, <2>4 DEF Flights, RegisterSave, At
      <4>2. m \in Members /\ a \in Addresses \cup {NoAddress}
        BY <4>1 DEF SignInRequest, Idle, Lower
      <4>3. member' = [member EXCEPT ![m] =
                  [address |-> a, verified |-> ~(a # NoAddress), here |-> TRUE,
                   link |-> IF a # NoAddress THEN NextLetter ELSE 0]]
        BY <2>4, <3>3 DEF RegisterSave
      <4>7. NextLetter \in Nat
        BY DEF SignInTypeOK, NextLetter
      <4>4. a # NoAddress => NextLetter <= MaxLetters
        BY <2>4, <3>3, <4>7 DEF RegisterSave
      <4>5. letter' = letter \/ (a # NoAddress /\ letter' = Append(letter, [to |-> m, address |-> a]))
        BY <2>4, <3>3 DEF RegisterSave, SendLetter
      <4>6. letter' \in Seq([to : Members, address : Addresses])
        <5>1. a # NoAddress => [to |-> m, address |-> a] \in [to : Members, address : Addresses]
          BY <4>2
        <5>2. a # NoAddress => Append(letter, [to |-> m, address |-> a])
                                 \in Seq([to : Members, address : Addresses])
          BY <5>1, LetterAppended DEF SignInTypeOK
        <5>3. QED
          BY <4>5, <5>2 DEF SignInTypeOK
      <4>8. [address |-> a, verified |-> ~(a # NoAddress), here |-> TRUE,
             link |-> IF a # NoAddress THEN NextLetter ELSE 0] \in Member
        <5>1. (IF a # NoAddress THEN NextLetter ELSE 0) \in 0..MaxLetters
          BY <4>4, <4>7
        <5>2. QED
          BY <4>2, <5>1 DEF Member
      <4> HIDE DEF a
      <4>9. member' \in [Members -> Member \cup {Absent}]
        BY <4>2, <4>3, <4>8 DEF SignInTypeOK
      <4>10. QED
        BY <2>4, <3>1, <4>6, <4>9 DEF SignInTypeOK, Flights, RegisterSave
    <3>4. QED
      BY <3>2, <3>3
  <2>5. ASSUME NEW p \in Procs, ResendRead(p) PROVE SignInTypeOK'
    <3>1. Flights'
      <4>1. PICK m \in Members :
                   /\ member[m].address # NoAddress
                   /\ req' = [req EXCEPT ![p] =
                         [op |-> "resend_save", of |-> m, address |-> member[m].address]]
        BY <2>5 DEF ResendRead, Begin
      <4>2. member[m].address \in Addresses
        <5>1. member[m] \in Member
          BY <4>1 DEF SignInTypeOK, Absent
        <5>2. QED
          BY <4>1, <5>1 DEF Member
      <4>3. [op |-> "resend_save", of |-> m, address |-> member[m].address] \in SignInRequest
        BY <4>2 DEF SignInRequest
      <4>4. QED
        BY <2>1, <4>1, <4>3 DEF Flights
    <3>2. QED
      BY <2>2, <2>5, <3>1 DEF ResendRead
  <2>6. ASSUME NEW p \in Procs, ResendSave(p) PROVE SignInTypeOK'
    <3>1. Flights'
      BY <2>1, <2>6, EndKeepsFlights DEF ResendSave
    <3>2. req[p].of \in Members /\ req[p].address \in Addresses
      BY <2>1, <2>6 DEF Flights, ResendSave, At, SignInRequest, Idle
    <3>3. letter' \in Seq([to : Members, address : Addresses])
      BY <2>6, <3>2 DEF ResendSave, SendLetter, SignInTypeOK
    <3>4. NextLetter \in 0..MaxLetters
      BY <2>6 DEF SignInTypeOK, ResendSave, NextLetter
    <3>5. member' \in [Members -> Member \cup {Absent}]
      <4>2. member[req[p].of] \in Member
        BY <2>6, <3>2, HereIsMember DEF ResendSave, LettersHaveAccounts
      <4>3. [member[req[p].of] EXCEPT !.link = NextLetter] \in Member
        BY <3>4, <4>2 DEF Member
      <4>4. QED
        BY <2>6, <3>2, <4>3 DEF ResendSave, SignInTypeOK
    <3>6. QED
      BY <2>6, <3>1, <3>3, <3>5 DEF SignInTypeOK, Flights, ResendSave
  <2>7. ASSUME NEW p \in Procs, ResendRefused(p) PROVE SignInTypeOK'
    BY <2>1, <2>2, <2>7, EndKeepsFlights DEF ResendRefused
  <2>8. ASSUME NEW p \in Procs, FollowRead(p) PROVE SignInTypeOK'
    <3>1. Flights'
      <4>1. PICK i \in 1..Len(letter) :
                   req' = [req EXCEPT ![p] = [op |-> "link_save", of |-> letter[i].to,
                                              address |-> letter[i].address]]
        BY <2>8 DEF FollowRead, Begin
      <4>2. letter[i] \in [to : Members, address : Addresses]
        BY Held DEF SignInTypeOK
      <4>3. [op |-> "link_save", of |-> letter[i].to, address |-> letter[i].address] \in SignInRequest
        BY <4>2 DEF SignInRequest
      <4>4. QED
        BY <2>1, <4>1, <4>3 DEF Flights
    <3>2. QED
      BY <2>2, <2>8, <3>1 DEF FollowRead
  <2>9. ASSUME NEW p \in Procs, FollowSave(p) PROVE SignInTypeOK'
    <3>1. Flights'
      BY <2>1, <2>9, EndKeepsFlights DEF FollowSave
    <3>2. req[p].of \in Members /\ req[p].address \in Addresses
      BY <2>1, <2>9 DEF Flights, FollowSave, At, SignInRequest, Idle
    <3>3. member[req[p].of] \in Member
      BY <2>9, <3>2, HereIsMember DEF FollowSave, LettersHaveAccounts
    <3>4. [member[req[p].of] EXCEPT !.verified = TRUE, !.link = 0] \in Member
      <4>1. 0 \in 0..MaxLetters
        OBVIOUS
      <4>2. QED
        BY <3>3, <4>1 DEF Member
    <3>5. member' = [member EXCEPT ![req[p].of] = [member[req[p].of] EXCEPT !.verified = TRUE, !.link = 0]]
      BY <2>9, <3>2 DEF FollowSave, SignInTypeOK
    <3>6. QED
      BY <2>9, <3>1, <3>2, <3>4, <3>5 DEF SignInTypeOK, Flights, FollowSave
  <2>10. ASSUME NEW p \in Procs, AddressRead(p) PROVE SignInTypeOK'
    <3>1. Flights'
      <4>1. PICK m \in Members, a \in Addresses \cup {NoAddress} :
                   /\ member[m].here
                   /\ req' = [req EXCEPT ![p] =
                         [op |-> "profile_save", of |-> m, row |-> [member[m] EXCEPT !.address = a]]]
        BY <2>10 DEF AddressRead, Begin
      <4>2. member[m] \in Member
        BY <4>1 DEF SignInTypeOK, Absent
      <4>3. [member[m] EXCEPT !.address = a] \in Member
        BY <4>2 DEF Member
      <4>4. QED
        BY <2>1, <4>1, <4>3 DEF Flights, SignInRequest
    <3>2. QED
      BY <2>2, <2>10, <3>1 DEF AddressRead
  <2>11. ASSUME NEW p \in Procs, AddressSave(p) PROVE SignInTypeOK'
    <3>1. Flights'
      BY <2>1, <2>11, EndKeepsFlights DEF AddressSave
    <3>2. req[p].of \in Members /\ req[p].row \in Member
      BY <2>1, <2>11 DEF Flights, AddressSave, At, SignInRequest, Idle
    <3>3. QED
      BY <2>11, <3>1, <3>2 DEF SignInTypeOK, Flights, AddressSave
  <2>12. ASSUME NEW p \in Procs, EnterLinked(p) PROVE SignInTypeOK'
    BY <2>12 DEF EnterLinked, SignInTypeOK
  <2>13. ASSUME NEW p \in Procs, EnterByAddress(p) PROVE SignInTypeOK'
    <3>1. Flights'
      BY <2>1, <2>13 DEF EnterByAddress, Begin, Flights, SignInRequest
    <3>2. QED
      BY <2>2, <2>13, <3>1 DEF EnterByAddress
  <2>14. ASSUME NEW p \in Procs, VkLink(p) PROVE SignInTypeOK'
    <3>1. Flights'
      BY <2>1, <2>14, EndKeepsFlights DEF VkLink
    <3>2. req[p].of \in Members /\ req[p].vk \in VkIds
      BY <2>1, <2>14 DEF Flights, VkLink, At, SignInRequest, Idle
    <3>3. QED
      BY <2>14, <3>1, <3>2 DEF SignInTypeOK, Flights, VkLink, LetIn
  <2>15. ASSUME NEW p \in Procs, VkSignUpRead(p) PROVE SignInTypeOK'
    <3>1. Flights'
      BY <2>1, <2>15 DEF VkSignUpRead, Begin, Flights, SignInRequest
    <3>2. QED
      BY <2>2, <2>15, <3>1 DEF VkSignUpRead
  <2>16. ASSUME NEW p \in Procs, VkCreate(p) PROVE SignInTypeOK'
    <3>1. Flights'
      BY <2>1, <2>16, EndKeepsFlights DEF VkCreate
    <3>2. req[p].of \in Members /\ req[p].vk \in VkIds /\ req[p].address \in Addresses
      BY <2>1, <2>16 DEF Flights, VkCreate, At, SignInRequest, Idle, Lower
    <3>3. [address |-> req[p].address, verified |-> TRUE, link |-> 0, here |-> TRUE] \in Member
      BY <3>2 DEF Member
    <3>4. QED
      BY <2>16, <3>1, <3>2, <3>3 DEF SignInTypeOK, Flights, VkCreate
  <2>17. ASSUME NEW p \in Procs, SignInCrash(p) PROVE SignInTypeOK'
    BY <2>1, <2>2, <2>17, EndKeepsFlights DEF SignInCrash
  <2>18. CASE UNCHANGED <<workerVars, signInVars>>
    BY <2>1, <2>2, <2>18 DEF Flights
  <2>19. QED
    BY <2>3, <2>4, <2>5, <2>6, <2>7, <2>8, <2>9, <2>10, <2>11, <2>12, <2>13, <2>14, <2>15, <2>16,
       <2>17, <2>18 DEF SignInNext, SignInStep
<1>3. SignInTypeOK /\ SignInTypeOK' /\ LettersHaveAccounts /\ [SignInNext]_<<workerVars, signInVars>>
        => LettersHaveAccounts'
  <2> SUFFICES ASSUME SignInTypeOK, SignInTypeOK', LettersHaveAccounts,
                      [SignInNext]_<<workerVars, signInVars>>
               PROVE  LettersHaveAccounts'
    OBVIOUS
  <2>1. CASE UNCHANGED <<workerVars, signInVars>>
    BY <2>1 DEF LettersHaveAccounts, At
  <2>2. ASSUME NEW p \in Procs, SignInCrash(p) PROVE LettersHaveAccounts'
    BY <2>2 DEF SignInTypeOK, SignInCrash, Crash, LettersHaveAccounts, At, Idle
  <2>3. ASSUME NEW p \in Procs, SignInStep(p) PROVE LettersHaveAccounts'
    <3>1. ASSUME NEW q \in Procs \ {p}, At(q, "resend_save")' \/ At(q, "link_save")'
          PROVE  member'[req'[q].of].here
      <4>1. req'[q] = req[q]
        BY <2>3 DEF SignInTypeOK, SignInStep, Begin, End, Continue, RegisterRead, RegisterSave, ResendRead,
             ResendSave, ResendRefused, FollowRead, FollowSave, AddressRead, AddressSave, EnterLinked,
             EnterByAddress, VkLink, VkSignUpRead, VkCreate
      <4>2. req[q].of \in Members
        BY <3>1, <4>1 DEF SignInTypeOK, At, SignInRequest, Idle
      <4>3. QED
        BY <2>3, <3>1, <4>1, <4>2, AccountsStay DEF LettersHaveAccounts, At
    <3>2. ASSUME At(p, "resend_save")' \/ At(p, "link_save")'
          PROVE  member'[req'[p].of].here
      <4>1. CASE ResendRead(p)
        <5>1. PICK m \in Members :
                     /\ member[m].address # NoAddress /\ UNCHANGED member
                     /\ req'[p].of = m
          BY <4>1 DEF ResendRead, Begin, SignInTypeOK
        <5>2. member[m] \in Member
          BY <5>1 DEF SignInTypeOK, Absent
        <5>3. QED
          BY <5>1, <5>2 DEF Member
      <4>2. CASE FollowRead(p)
        <5>1. PICK i \in 1..Len(letter) : Opens(i) /\ req'[p].of = letter[i].to /\ UNCHANGED member
          BY <4>2 DEF FollowRead, Begin, SignInTypeOK
        <5>2. letter[i] \in [to : Members, address : Addresses]
          BY Held DEF SignInTypeOK
        <5>3. member[letter[i].to] \in Member
          BY <5>1, <5>2 DEF Opens, SignInTypeOK, Absent
        <5>4. QED
          BY <5>1, <5>3 DEF Member
      <4>3. ~ResendRead(p) /\ ~FollowRead(p) => req'[p].op \notin {"resend_save", "link_save"}
        <5>1. CASE RegisterRead(p) \/ RegisterSave(p) \/ ResendSave(p) \/ ResendRefused(p)
          BY <2>3, <5>1 DEF SignInTypeOK, Begin, End, Continue, RegisterRead, RegisterSave, ResendSave,
             ResendRefused, Idle
        <5>2. CASE FollowSave(p) \/ AddressRead(p) \/ AddressSave(p)
          BY <2>3, <5>2 DEF SignInTypeOK, Begin, End, Continue, FollowSave, AddressRead, AddressSave, Idle
        <5>3. CASE EnterLinked(p) \/ EnterByAddress(p) \/ VkLink(p)
          BY <2>3, <5>3 DEF SignInTypeOK, Begin, End, Continue, EnterLinked, EnterByAddress, VkLink, Idle
        <5>4. CASE VkSignUpRead(p) \/ VkCreate(p)
          BY <2>3, <5>4 DEF SignInTypeOK, Begin, End, Continue, VkSignUpRead, VkCreate, Idle
        <5>5. QED
          BY <2>3, <5>1, <5>2, <5>3, <5>4 DEF SignInStep
      <4>4. QED
        BY <3>2, <4>1, <4>2, <4>3 DEF At
    <3>3. QED
      BY <3>1, <3>2 DEF LettersHaveAccounts
  <2>4. QED
    BY <2>1, <2>2, <2>3 DEF SignInNext
<1>4. QED
  BY <1>1, <1>2, <1>3

\* Every state of the accounts keeps to the types of its columns, and a request
\* in flight goes on with what its handler has loaded.
THEOREM SignInTypeCorrect == SignInSpec => []SignInTypeOK
BY SignInTyped, PTL DEF SignInSpec

\* An identity is let into the account it is linked to and into no other; while it
\* is not linked it has not been let in at all.
EnteredIsLinked ==
    \A v \in VkIds :
        /\ entered[v] \subseteq {linked[v]}
        /\ linked[v] = NoMember => entered[v] = {}

\* However the sign-ins of one VK identity overlap, whatever happens to the addresses
\* of the accounts meanwhile, and although several handlers may have found several
\* accounts for it, it enters one account only: the link is made once and never
\* moved, and who comes late is let in by the link there is.
THEOREM OneAccountEntered == SignInSpec => []VkEntersOneAccount
<1>1. WorkersInit /\ SignInInit => EnteredIsLinked
  BY DEF SignInInit, EnteredIsLinked
<1>2. SignInTypeOK /\ EnteredIsLinked /\ [SignInNext]_<<workerVars, signInVars>> => EnteredIsLinked'
  <2> SUFFICES ASSUME SignInTypeOK, EnteredIsLinked, [SignInNext]_<<workerVars, signInVars>>
               PROVE  EnteredIsLinked'
    OBVIOUS
  <2> USE SignInAssumption DEF EnteredIsLinked
  <2>1. CASE UNCHANGED <<linked, entered>>
    BY <2>1
  <2>2. ASSUME NEW p \in Procs, EnterLinked(p) PROVE EnteredIsLinked'
    BY <2>2 DEF EnterLinked, SignInTypeOK
  <2>3. ASSUME NEW p \in Procs, VkLink(p) PROVE EnteredIsLinked'
    <3>1. req[p].of \in Members /\ req[p].vk \in VkIds
      BY <2>3 DEF SignInTypeOK, VkLink, At, SignInRequest, Idle
    <3>2. QED
      BY <2>3, <3>1 DEF VkLink, LetIn, SignInTypeOK
  <2>4. ASSUME NEW p \in Procs, VkCreate(p) PROVE EnteredIsLinked'
    <3>1. req[p].of \in Members /\ req[p].vk \in VkIds
      BY <2>4 DEF SignInTypeOK, VkCreate, At, SignInRequest, Idle
    <3>2. QED
      BY <2>4, <3>1 DEF VkCreate, SignInTypeOK
  <2>5. QED
    BY <2>1, <2>2, <2>3, <2>4 DEF SignInNext, SignInStep, SignInCrash, RegisterRead, RegisterSave,
       ResendRead, ResendSave, ResendRefused, FollowRead, FollowSave, AddressRead, AddressSave,
       EnterByAddress, VkSignUpRead
<1>3. EnteredIsLinked => VkEntersOneAccount
  <2> SUFFICES ASSUME EnteredIsLinked, NEW v \in VkIds PROVE Cardinality(entered[v]) <= 1
    BY DEF VkEntersOneAccount
  <2>1. entered[v] = {} \/ entered[v] = {linked[v]}
    BY DEF EnteredIsLinked
  <2>2. QED
    BY <2>1, FS_EmptySet, FS_Singleton, 0 <= 1, 1 <= 1
<1>4. QED
  BY <1>1, <1>2, <1>3, SignInTypeCorrect, PTL DEF SignInSpec

-----------------------------------------------------------------------------
(* Numbers within the limits.                                              *)

USE DEF revealVars

LEMMA RevealTypeInit == WorkersInit /\ RevealLimitsInit => RevealLimitsTypeOK
<1> SUFFICES ASSUME WorkersInit, RevealLimitsInit PROVE RevealLimitsTypeOK
  OBVIOUS
<1>1. req \in [Procs -> [op : {"reveal_log"}] \cup {Idle}]
  BY DEF WorkersInit
<1>2. hourCount = 0 /\ dayCount = 0 /\ blocked \in BOOLEAN /\ mayLook \in BOOLEAN
  BY DEF RevealLimitsInit
<1>3. QED
  BY <1>1, <1>2 DEF RevealLimitsTypeOK

LEMMA RevealTypeStep == RevealLimitsTypeOK /\ [RevealLimitsNext]_<<workerVars, revealVars>> => RevealLimitsTypeOK'
<1> SUFFICES ASSUME RevealLimitsTypeOK, [RevealLimitsNext]_<<workerVars, revealVars>>
             PROVE  RevealLimitsTypeOK'
  OBVIOUS
<1> USE DEF RevealLimitsTypeOK
<1>1. ASSUME NEW p \in Procs, RevealRefused(p) PROVE RevealLimitsTypeOK'
  BY <1>1 DEF RevealRefused
<1>2. ASSUME NEW p \in Procs, RevealRead(p) PROVE RevealLimitsTypeOK'
  BY <1>2 DEF RevealRead, Begin
<1>3. ASSUME NEW p \in Procs, RevealLogged(p) PROVE RevealLimitsTypeOK'
  BY <1>3 DEF RevealLogged, End, Continue
<1>4. ASSUME NEW p \in Procs, Crash(p), UNCHANGED revealVars PROVE RevealLimitsTypeOK'
  BY <1>4 DEF Crash
<1>5. CASE HourPasses /\ UNCHANGED workerVars
  BY <1>5 DEF HourPasses
<1>6. CASE DayPasses /\ UNCHANGED workerVars
  BY <1>6 DEF DayPasses
<1>7. CASE (BlockEnds \/ RevealAllowed) /\ UNCHANGED workerVars
  BY <1>7 DEF BlockEnds, RevealAllowed
<1>8. CASE UNCHANGED <<workerVars, revealVars>>
  BY <1>8
<1>9. QED
  BY <1>1, <1>2, <1>3, <1>4, <1>5, <1>6, <1>7, <1>8 DEF RevealLimitsNext

\* Counts stay counts: no row leaves the hour that is not there, and the day
\* has every row of the hour.
THEOREM RevealTypeCorrect == RevealLimitsSpec => []RevealLimitsTypeOK
BY RevealTypeInit, RevealTypeStep, PTL DEF RevealLimitsSpec

\* The requests that have passed the test and have not logged yet.
OnTheirWay == InFlight("reveal_log")

\* With those, the counts are below the limits by a worker: this is inductive,
\* where NumbersWithinLimit is not.
Reserved ==
    /\ hourCount + Cardinality(OnTheirWay) < HourLimit + Cardinality(Procs)
    /\ dayCount + Cardinality(OnTheirWay) < DayLimit + Cardinality(Procs)

\* There are no more requests on their way than workers.
LEMMA OnTheirWayFinite ==
    /\ IsFiniteSet(OnTheirWay)
    /\ Cardinality(OnTheirWay) \in Nat /\ Cardinality(Procs) \in Nat
    /\ Cardinality(OnTheirWay) <= Cardinality(Procs)
BY RevealLimitsAssumption, FS_Subset, FS_CardinalityType DEF OnTheirWay, InFlight

\* The same after a step.
LEMMA OnTheirWayFiniteNext ==
    /\ IsFiniteSet(OnTheirWay')
    /\ Cardinality(OnTheirWay') \in Nat
    /\ Cardinality(OnTheirWay') <= Cardinality(Procs)
BY RevealLimitsAssumption, FS_Subset, FS_CardinalityType DEF OnTheirWay, InFlight

\* A request that ends leaves one less on its way.
LEMMA OneLess ==
    ASSUME RevealLimitsTypeOK, NEW p \in Procs, At(p, "reveal_log"),
           req' = [req EXCEPT ![p] = Idle]
    PROVE  Cardinality(OnTheirWay') = Cardinality(OnTheirWay) - 1
<1>1. p \in OnTheirWay
  BY DEF OnTheirWay, InFlight
<1>2. OnTheirWay' = OnTheirWay \ {p}
  BY DEF OnTheirWay, InFlight, At, RevealLimitsTypeOK, Idle
<1>3. QED
  BY <1>1, <1>2, OnTheirWayFinite, FS_RemoveElement

LEMMA ReservedInit == WorkersInit /\ RevealLimitsInit => Reserved
<1> SUFFICES ASSUME WorkersInit, RevealLimitsInit PROVE Reserved
  OBVIOUS
<1>1. hourCount = 0 /\ dayCount = 0
  BY DEF RevealLimitsInit
<1>2. OnTheirWay = {}
  BY DEF WorkersInit, OnTheirWay, InFlight, At, Idle
<1>3. QED
  BY <1>1, <1>2, FS_EmptySet, OnTheirWayFinite, RevealLimitsAssumption DEF Reserved

LEMMA ReservedStep ==
    RevealLimitsTypeOK /\ Reserved /\ [RevealLimitsNext]_<<workerVars, revealVars>> => Reserved'
<1> SUFFICES ASSUME RevealLimitsTypeOK, Reserved,
                    [RevealLimitsNext]_<<workerVars, revealVars>>
             PROVE  Reserved'
  OBVIOUS
<1> USE RevealLimitsAssumption, OnTheirWayFinite, OnTheirWayFiniteNext
        DEF Reserved, RevealLimitsTypeOK
<1>1. ASSUME UNCHANGED req, hourCount' <= hourCount, dayCount' <= dayCount,
             hourCount' \in Nat, dayCount' \in Nat
      PROVE  Reserved'
  <2>1. OnTheirWay' = OnTheirWay
    BY <1>1 DEF OnTheirWay, InFlight, At
  <2>2. QED
    BY <1>1, <2>1
<1>2. ASSUME NEW p \in Procs, RevealRead(p) PROVE Reserved'
  <2>1. hourCount < HourLimit /\ dayCount < DayLimit /\ UNCHANGED revealVars
    BY <1>2 DEF RevealRead, OverLimit
  <2>2. QED
    BY <2>1
<1>3. ASSUME NEW p \in Procs, RevealLogged(p) PROVE Reserved'
  <2>1. Cardinality(OnTheirWay') = Cardinality(OnTheirWay) - 1
    BY <1>3, OneLess DEF RevealLogged, End, Continue
  <2>2. hourCount' = hourCount + 1 /\ dayCount' = dayCount + 1
    BY <1>3 DEF RevealLogged
  <2>3. QED
    BY <2>1, <2>2
<1>4. ASSUME NEW p \in Procs, Crash(p), UNCHANGED revealVars PROVE Reserved'
  <2>1. At(p, "reveal_log")
    BY <1>4 DEF Crash, At, Idle
  <2>2. Cardinality(OnTheirWay') = Cardinality(OnTheirWay) - 1
    BY <1>4, <2>1, OneLess DEF Crash
  <2>3. QED
    BY <1>4, <2>2
<1>5. CASE \E p \in Procs : RevealRefused(p)
  BY <1>1, <1>5 DEF RevealRefused
<1>6. CASE (HourPasses \/ DayPasses \/ BlockEnds \/ RevealAllowed) /\ UNCHANGED workerVars
  BY <1>1, <1>6 DEF HourPasses, DayPasses, BlockEnds, RevealAllowed
<1>7. CASE UNCHANGED <<workerVars, revealVars>>
  BY <1>1, <1>7
<1>8. QED
  BY <1>2, <1>3, <1>4, <1>5, <1>6, <1>7 DEF RevealLimitsNext

LEMMA ReservedIsWithin == RevealLimitsTypeOK /\ Reserved => NumbersWithinLimit
BY OnTheirWayFinite, RevealLimitsAssumption DEF Reserved, RevealLimitsTypeOK, NumbersWithinLimit

\* However the requests of a buyer overlap, and wherever their workers die, he is
\* taken over a limit by no more than the requests that were on their way together.
THEOREM NumbersStayWithinLimit == RevealLimitsSpec => []NumbersWithinLimit
BY RevealTypeInit, RevealTypeStep, ReservedInit, ReservedStep, ReservedIsWithin, PTL
   DEF RevealLimitsSpec

-----------------------------------------------------------------------------
(* The number in force.                                                    *)

USE DEF contactVars

\* With one worker the form that is being saved has loaded the number in force, and
\* gives another one only where there is none.
NumberIsInForce ==
    /\ DOMAIN req = Procs
    /\ "number" \in DOMAIN contact /\ contact.number = inForce
    /\ \A p \in Procs : At(p, "contact_save") =>
          /\ req[p].loaded = inForce
          /\ req[p].loaded # NoNumber => req[p].number = req[p].loaded

LEMMA NumberInit == WorkersInit /\ ContactsInit => NumberIsInForce
<1> SUFFICES ASSUME WorkersInit, ContactsInit PROVE NumberIsInForce
  OBVIOUS
<1>1. contact \in Contact
  BY DEF ContactsInit, Contact
<1>2. QED
  BY <1>1 DEF WorkersInit, ContactsInit, NumberIsInForce, Contact, At, Idle

LEMMA NumberStepKeeps ==
    ASSUME \A p, q \in Procs : p = q, NumberIsInForce, [ContactsNext]_<<workerVars, contactVars>>
    PROVE  NumberIsInForce'
<1>1. ASSUME NEW p \in Procs, UNCHANGED contactVars, req'[p].op # "contact_save", DOMAIN req' = Procs
      PROVE  NumberIsInForce'
  BY <1>1 DEF NumberIsInForce, At
<1>2. Idle.op # "contact_save"
  BY DEF Idle
<1>3. ASSUME NEW p \in Procs, End(p) \/ Crash(p)
      PROVE  req'[p] = Idle /\ DOMAIN req' = Procs
  BY <1>3 DEF End, Continue, Crash, NumberIsInForce
<1>4. ASSUME NEW p \in Procs, ContactFormRead(p) PROVE NumberIsInForce'
  <2>1. PICK number \in PostedNumber(contact.number) :
               Begin(p, [op |-> "contact_save", number |-> number, loaded |-> contact.number])
    BY <1>4 DEF ContactFormRead
  <2>2. contact.number # NoNumber => number = contact.number
    BY <2>1 DEF PostedNumber
  <2>3. /\ req'[p] = [op |-> "contact_save", number |-> number, loaded |-> contact.number]
        /\ DOMAIN req' = Procs
    BY <2>1 DEF Begin, NumberIsInForce
  <2>4. QED
    BY <1>4, <2>2, <2>3 DEF ContactFormRead, NumberIsInForce, At
<1>5. ASSUME NEW p \in Procs, ContactFormSave(p) PROVE NumberIsInForce'
  BY <1>2, <1>3, <1>5 DEF ContactFormSave, NumberIsInForce, At
<1>6. ASSUME NEW p \in Procs, OnboardRead(p) PROVE NumberIsInForce'
  BY <1>1, <1>6 DEF OnboardRead, Begin, NumberIsInForce
<1>7. ASSUME NEW p \in Procs, OnboardSave(p) PROVE NumberIsInForce'
  BY <1>2, <1>3, <1>7 DEF OnboardSave, NumberIsInForce, At
<1>8. ASSUME NEW p \in Procs, AskRead(p) PROVE NumberIsInForce'
  BY <1>1, <1>8 DEF AskRead, Begin, NumberIsInForce
<1>9. ASSUME NEW p \in Procs, ApplyNumber(p) PROVE NumberIsInForce'
  BY <1>9 DEF ApplyNumber, Goto, Continue, NumberIsInForce, At
<1>10. ASSUME NEW p \in Procs, NEW i \in PhoneRequests, ApproveNumberRead(p, i) PROVE NumberIsInForce'
  BY <1>1, <1>10 DEF ApproveNumberRead, Begin, NumberIsInForce
<1>11. ASSUME NEW p \in Procs, AskSave(p) \/ AskRefused(p) \/ ApproveNumber(p) \/ ContactsCrash(p)
       PROVE  NumberIsInForce'
  BY <1>2, <1>3, <1>11 DEF AskSave, AskRefused, ApproveNumber, ContactsCrash, NumberIsInForce, At
<1>12. CASE UNCHANGED <<req, contact, inForce>>
  BY <1>12 DEF NumberIsInForce, At
<1>13. QED
  BY <1>4, <1>5, <1>6, <1>7, <1>8, <1>9, <1>10, <1>11, <1>12
     DEF ContactsNext, ContactStep, RejectNumber

LEMMA NumberHolds == NumberIsInForce => ContactIsInForce
BY DEF NumberIsInForce, ContactIsInForce

-----------------------------------------------------------------------------
(* Mailboxes and letters, one at a time.                                   *)

\* No account but `m` holds the mailbox of the address.
BoxIsFree(m, a) ==
    a # NoAddress => \A n \in Members \ {m} :
        member[n].address # NoAddress => member[n].address.box # a.box

BoxesDiffer == \A m \in Members : BoxIsFree(m, member[m].address)

\* The address a request is about to save is still nobody else's, and the row of a
\* profile still has the token of the account.
SavesAFreeBox(p) ==
    /\ At(p, "register_save") \/ At(p, "vk_create") => BoxIsFree(req[p].of, req[p].address)
    /\ At(p, "profile_save") => /\ BoxIsFree(req[p].of, req[p].row.address)
                                /\ req[p].row.link = member[req[p].of].link

\* The link of an account is the one of the last letter to it.
LinkIsLast ==
    \A i \in 1..Len(letter) :
        member[letter[i].to].link = i => \A j \in i + 1..Len(letter) : letter[j].to # letter[i].to

SignInSerial ==
    /\ SignInTypeOK /\ LettersHaveAccounts
    /\ BoxesDiffer /\ LinkIsLast
    /\ \A p \in Procs : SavesAFreeBox(p)

LEMMA SignInInitSound == WorkersInit /\ SignInInit => SignInSerial
<1> SUFFICES ASSUME WorkersInit, SignInInit PROVE SignInSerial
  OBVIOUS
<1>1. \A p \in Procs : SavesAFreeBox(p)
  BY DEF WorkersInit, SavesAFreeBox, At, Idle
<1>2. BoxesDiffer
  BY DEF SignInInit, BoxesDiffer, BoxIsFree, Absent
<1>3. LinkIsLast
  BY DEF SignInInit, LinkIsLast
<1>4. QED
  BY <1>1, <1>2, <1>3, SignInTyped DEF SignInSerial

\* Without a change of address the boxes stay free.
LEMMA FreeStaysFree ==
    ASSUME \A n \in Members : member'[n].address = member[n].address, NEW m \in Members, NEW a,
           BoxIsFree(m, a)
    PROVE  BoxIsFree(m, a)'
BY DEF BoxIsFree

\* An account that takes a free address leaves the boxes different.
LEMMA FreeBoxTaken ==
    ASSUME BoxesDiffer, NEW m \in Members, BoxIsFree(m, member'[m].address),
           \A n \in Members \ {m} : member'[n].address = member[n].address
    PROVE  BoxesDiffer'
<1>1. \A n \in Members \ {m} : BoxIsFree(n, member[n].address)
  BY DEF BoxesDiffer
<1>2. QED
  BY <1>1 DEF BoxesDiffer, BoxIsFree

\* Who writes no letter and no other link than none leaves the links with the last.
LEMMA LinkStaysLast ==
    ASSUME SignInTypeOK, LinkIsLast, UNCHANGED letter,
           \A n \in Members : member'[n].link \in {member[n].link, 0}
    PROVE  LinkIsLast'
<1>1. ASSUME NEW i \in 1..Len(letter) PROVE letter[i].to \in Members /\ i # 0
  <2>1. letter[i] \in [to : Members, address : Addresses]
    BY Held DEF SignInTypeOK
  <2>2. QED
    BY <2>1
<1>2. QED
  BY <1>1 DEF LinkIsLast

\* Who writes one gives its token.
LEMMA NewLinkIsLast ==
    ASSUME SignInTypeOK, LinkIsLast, NEW m \in Members, NEW a \in Addresses, SendLetter(m, a),
           member'[m].link = NextLetter,
           \A n \in Members \ {m} : member'[n].link = member[n].link
    PROVE  LinkIsLast'
<1> DEFINE new == [to |-> m, address |-> a]
<1>1. letter' = Append(letter, new) /\ letter \in Seq([to : Members, address : Addresses])
  BY DEF SendLetter, SignInTypeOK
<1>2. /\ Len(letter') = Len(letter) + 1 /\ Len(letter) \in Nat
      /\ \A i \in 1..Len(letter) : letter'[i] = letter[i]
      /\ letter'[Len(letter) + 1] = new
  BY <1>1
<1>3. ASSUME NEW i \in 1..Len(letter) PROVE letter[i].to \in Members
  <2>1. letter[i] \in [to : Members, address : Addresses]
    BY <1>1, Held
  <2>2. QED
    BY <2>1
<1>4. SUFFICES ASSUME NEW i \in 1..Len(letter'), member'[letter'[i].to].link = i,
                      NEW j \in i + 1..Len(letter')
               PROVE  letter'[j].to # letter'[i].to
  BY DEF LinkIsLast
<1>5. i \in 1..Len(letter) /\ i < j
  BY <1>2, <1>4
<1>6. letter'[i] = letter[i] /\ letter[i].to \in Members
  BY <1>2, <1>3, <1>5
<1>7. letter[i].to # m
  BY <1>2, <1>4, <1>5, <1>6 DEF NextLetter
<1>8. CASE j = Len(letter) + 1
  BY <1>2, <1>6, <1>7, <1>8
<1>9. CASE j # Len(letter) + 1
  <2>1. j \in i + 1..Len(letter) /\ letter'[j] = letter[j]
    BY <1>2, <1>4, <1>5, <1>9
  <2>2. member[letter[i].to].link = i
    BY <1>4, <1>6, <1>7
  <2>3. QED
    BY <1>5, <1>6, <2>1, <2>2 DEF LinkIsLast
<1>10. QED
  BY <1>8, <1>9

LEMMA SignInStepKeeps ==
    ASSUME \A p, q \in Procs : p = q, SignInSerial, [SignInNext]_<<workerVars, signInVars>>
    PROVE  SignInSerial'
<1> USE SignInAssumption
<1>1. SignInTypeOK /\ LettersHaveAccounts /\ SignInTypeOK' /\ LettersHaveAccounts'
  BY SignInTyped DEF SignInSerial
<1>2. BoxesDiffer /\ LinkIsLast /\ \A p \in Procs : SavesAFreeBox(p)
  BY DEF SignInSerial
<1>3. SUFFICES BoxesDiffer' /\ LinkIsLast' /\ \A p \in Procs : SavesAFreeBox(p)'
  BY <1>1 DEF SignInSerial
<1>4. ASSUME UNCHANGED <<member, letter>> PROVE BoxesDiffer' /\ LinkIsLast'
  BY <1>2, <1>4 DEF BoxesDiffer, BoxIsFree, LinkIsLast
<1>5. ASSUME NEW p \in Procs, End(p) \/ Crash(p) PROVE \A q \in Procs : SavesAFreeBox(q)'
  <2>1. req'[p] = Idle /\ Idle.op = "idle"
    BY <1>1, <1>5 DEF End, Continue, Crash, SignInTypeOK, Idle
  <2>2. QED
    BY <2>1 DEF SavesAFreeBox, At
<1>6. ASSUME NEW p \in Procs, req'[p].op \notin {"register_save", "vk_create", "profile_save"}
      PROVE  \A q \in Procs : SavesAFreeBox(q)'
  BY <1>6 DEF SavesAFreeBox, At
\* Requests that read.
<1>7. ASSUME NEW p \in Procs, RegisterRead(p) \/ VkSignUpRead(p)
      PROVE  \A q \in Procs : SavesAFreeBox(q)'
  <2>1. PICK m \in Members, a \in Addresses \cup {NoAddress} :
               /\ OthersWith(m, a) = {} \/ OthersWith(NoMember, a) = {}
               /\ req'[p].of = m /\ req'[p].address = a
               /\ req'[p].op \in {"register_save", "vk_create"} /\ UNCHANGED member
    <3>1. CASE RegisterRead(p)
      BY <1>1, <3>1 DEF RegisterRead, Begin, SignInTypeOK, Lower
    <3>2. CASE VkSignUpRead(p)
      BY <1>1, <3>2 DEF VkSignUpRead, Begin, SignInTypeOK, Lower
    <3>3. QED
      BY <1>7, <3>1, <3>2
  <2>2. BoxIsFree(m, a)
    BY <2>1 DEF OthersWith, BoxIsFree
  <2>3. BoxIsFree(m, a)'
    BY <2>1, <2>2, FreeStaysFree
  <2>4. QED
    BY <2>1, <2>3 DEF SavesAFreeBox, At, BoxIsFree
<1>8. ASSUME NEW p \in Procs, AddressRead(p)
      PROVE  \A q \in Procs : SavesAFreeBox(q)'
  <2>1. PICK m \in Members, a \in Addresses \cup {NoAddress} :
               /\ member[m].here /\ OthersWith(m, a) = {}
               /\ req'[p] = [op |-> "profile_save", of |-> m, row |-> [member[m] EXCEPT !.address = a]]
    BY <1>1, <1>8 DEF AddressRead, Begin, SignInTypeOK
  <2>2. UNCHANGED member
    BY <1>8 DEF AddressRead
  <2>3. member[m] \in Member
    BY <1>1, <2>1, HereIsMember
  <2>4. [member[m] EXCEPT !.address = a].address = a /\ [member[m] EXCEPT !.address = a].link = member[m].link
    BY <2>3 DEF Member
  <2>5. BoxIsFree(m, a)
    BY <2>1 DEF OthersWith, BoxIsFree
  <2>6. BoxIsFree(m, a)'
    BY <2>2, <2>5, FreeStaysFree
  <2>7. /\ req'[p].op = "profile_save" /\ req'[p].of = m
        /\ req'[p].row = [member[m] EXCEPT !.address = a]
    BY <2>1
  <2>9. req'[p].row.address = a /\ req'[p].row.link = member'[m].link
    BY <2>2, <2>4, <2>7
  <2>8. QED
    BY <2>6, <2>7, <2>9 DEF SavesAFreeBox, At, BoxIsFree
<1>9. ASSUME NEW p \in Procs,
             ResendRead(p) \/ FollowRead(p) \/ EnterByAddress(p) \/ RegisterRead(p) \/ VkSignUpRead(p) \/ AddressRead(p)
      PROVE  UNCHANGED <<member, letter>>
  BY <1>9 DEF ResendRead, FollowRead, EnterByAddress, RegisterRead, VkSignUpRead, AddressRead
<1>10. ASSUME NEW p \in Procs, ResendRead(p) \/ FollowRead(p) \/ EnterByAddress(p)
       PROVE  req'[p].op \notin {"register_save", "vk_create", "profile_save"}
  BY <1>1, <1>10 DEF ResendRead, FollowRead, EnterByAddress, Begin, SignInTypeOK
\* Requests that save.
<1>11. ASSUME NEW p \in Procs, RegisterSave(p) PROVE BoxesDiffer' /\ LinkIsLast'
  <2> DEFINE m == req[p].of
             a == req[p].address
  <2>1. m \in Members /\ a \in Addresses \cup {NoAddress} /\ At(p, "register_save")
    BY <1>1, <1>11 DEF SignInTypeOK, RegisterSave, At, SignInRequest, Idle, Lower
  <2>2. CASE ~UNCHANGED <<member, letter>>
    <3> DEFINE wanted == a # NoAddress
               row == [address |-> a, verified |-> ~wanted, here |-> TRUE,
                       link |-> IF wanted THEN NextLetter ELSE 0]
    <3>1. /\ member' = [member EXCEPT ![m] = row]
          /\ IF wanted THEN SendLetter(m, a) ELSE UNCHANGED letter
      BY <1>11, <2>2 DEF RegisterSave
    <3>2. row.address = a /\ row.link = IF wanted THEN NextLetter ELSE 0
      OBVIOUS
    <3> HIDE DEF row, m, a
    <3>3. member'[m] = row /\ \A n \in Members \ {m} : member'[n] = member[n]
      BY <1>1, <2>1, <3>1 DEF SignInTypeOK
    <3>4. BoxIsFree(m, a)
      BY <1>2, <2>1 DEF SavesAFreeBox, m, a
    <3>5. BoxesDiffer'
      BY <1>2, <2>1, <3>2, <3>3, <3>4, FreeBoxTaken
    <3>6. LinkIsLast'
      <4>1. CASE wanted
        BY <1>1, <1>2, <2>1, <3>1, <3>2, <3>3, <4>1, NewLinkIsLast
      <4>2. CASE ~wanted
        BY <1>1, <1>2, <3>1, <3>2, <3>3, <4>2, LinkStaysLast
      <4>3. QED
        BY <4>1, <4>2
    <3>7. QED
      BY <3>5, <3>6
  <2>3. QED
    BY <1>4, <2>2
<1>12. ASSUME NEW p \in Procs, ResendSave(p) PROVE BoxesDiffer' /\ LinkIsLast'
  <2>1. PICK m \in Members, a \in Addresses :
               /\ m = req[p].of /\ SendLetter(m, a) /\ member[m].here
               /\ member' = [member EXCEPT ![m].link = NextLetter]
    <3>1. req[p].of \in Members /\ req[p].address \in Addresses
      <4>1. req[p] \in SignInRequest \cup {Idle} /\ req[p].op = "resend_save"
        BY <1>1, <1>12 DEF SignInTypeOK, ResendSave, At
      <4>2. QED
        BY <4>1 DEF SignInRequest, Idle
    <3>2. member[req[p].of].here
      BY <1>1, <1>12 DEF ResendSave, LettersHaveAccounts
    <3>3. QED
      BY <1>12, <3>1, <3>2 DEF ResendSave
  <2>2. member[m] \in Member
    BY <1>1, <2>1, HereIsMember
  <2>3. /\ member'[m].link = NextLetter /\ member'[m].address = member[m].address
        /\ \A n \in Members \ {m} : member'[n] = member[n]
    BY <1>1, <2>1, <2>2 DEF SignInTypeOK, Member
  <2>4. BoxesDiffer'
    BY <1>2, <2>3, FreeBoxTaken DEF BoxesDiffer
  <2>5. LinkIsLast'
    BY <1>1, <1>2, <2>1, <2>3, NewLinkIsLast
  <2>6. QED
    BY <2>4, <2>5
<1>13. ASSUME NEW p \in Procs, FollowSave(p) PROVE BoxesDiffer' /\ LinkIsLast'
  <2>1. PICK m \in Members :
               /\ m = req[p].of /\ member[m].here
               /\ member' = [member EXCEPT ![m].verified = TRUE, ![m].link = 0]
    <3>1. req[p].of \in Members /\ req[p].address \in Addresses
      BY <1>1, <1>13 DEF SignInTypeOK, FollowSave, At, SignInRequest, Idle
    <3>2. member[req[p].of].here
      BY <1>1, <1>13 DEF FollowSave, LettersHaveAccounts
    <3>3. QED
      BY <1>13, <3>1, <3>2 DEF FollowSave
  <2>2. member[m] \in Member
    BY <1>1, <2>1, HereIsMember
  <2>3. /\ member'[m].link = 0 /\ member'[m].address = member[m].address
        /\ \A n \in Members \ {m} : member'[n] = member[n]
    BY <1>1, <2>1, <2>2 DEF SignInTypeOK, Member
  <2>4. BoxesDiffer'
    BY <1>2, <2>3, FreeBoxTaken DEF BoxesDiffer
  <2>5. LinkIsLast'
    BY <1>1, <1>2, <1>13, <2>3, LinkStaysLast DEF FollowSave
  <2>6. QED
    BY <2>4, <2>5
<1>14. ASSUME NEW p \in Procs, AddressSave(p) PROVE BoxesDiffer' /\ LinkIsLast'
  <2>1. CASE ~UNCHANGED member
    <3>1. PICK m \in Members, row \in Member :
                 /\ m = req[p].of /\ row = req[p].row
                 /\ member' = [member EXCEPT ![m] = row]
      <4>1. req[p].of \in Members /\ req[p].row \in Member
        BY <1>1, <1>14 DEF SignInTypeOK, AddressSave, At, SignInRequest, Idle
      <4>2. QED
        BY <1>14, <2>1, <4>1 DEF AddressSave
    <3>2. member'[m] = row /\ \A n \in Members \ {m} : member'[n] = member[n]
      BY <1>1, <3>1 DEF SignInTypeOK
    <3>3. BoxIsFree(m, row.address) /\ row.link = member[m].link
      BY <1>2, <1>14, <3>1 DEF SavesAFreeBox, AddressSave
    <3>4. BoxesDiffer'
      BY <1>2, <3>2, <3>3, FreeBoxTaken
    <3>5. LinkIsLast'
      BY <1>1, <1>2, <1>14, <3>2, <3>3, LinkStaysLast DEF AddressSave
    <3>6. QED
      BY <3>4, <3>5
  <2>2. QED
    BY <1>4, <1>14, <2>1 DEF AddressSave
<1>15. ASSUME NEW p \in Procs, VkCreate(p) PROVE BoxesDiffer' /\ LinkIsLast'
  <2>1. CASE ~UNCHANGED member
    <3>1. PICK m \in Members, a \in Addresses :
                 /\ m = req[p].of /\ a = req[p].address
                 /\ member' = [member EXCEPT ![m] =
                       [address |-> a, verified |-> TRUE, link |-> 0, here |-> TRUE]]
      BY <1>1, <1>15, <2>1 DEF SignInTypeOK, VkCreate, At, SignInRequest, Idle, Lower
    <3>2. /\ member'[m].address = a /\ member'[m].link = 0
          /\ \A n \in Members \ {m} : member'[n] = member[n]
      BY <1>1, <3>1 DEF SignInTypeOK
    <3>3. BoxIsFree(m, a)
      BY <1>2, <1>15, <3>1 DEF SavesAFreeBox, VkCreate
    <3>4. BoxesDiffer'
      BY <1>2, <3>2, <3>3, FreeBoxTaken
    <3>5. LinkIsLast'
      BY <1>1, <1>2, <1>15, <3>2, LinkStaysLast DEF VkCreate
    <3>6. QED
      BY <3>4, <3>5
  <2>2. QED
    BY <1>4, <1>15, <2>1 DEF VkCreate
<1>16. ASSUME NEW p \in Procs, ResendRefused(p) \/ VkLink(p) \/ SignInCrash(p)
       PROVE  UNCHANGED <<member, letter>> /\ (End(p) \/ Crash(p))
  BY <1>16 DEF ResendRefused, VkLink, SignInCrash
<1>17. ASSUME NEW p \in Procs, RegisterSave(p) \/ ResendSave(p) \/ FollowSave(p) \/ AddressSave(p) \/ VkCreate(p)
       PROVE  End(p)
  BY <1>17 DEF RegisterSave, ResendSave, FollowSave, AddressSave, VkCreate
<1>18. CASE UNCHANGED <<member, letter, req>>
  <2>1. \A p \in Procs : SavesAFreeBox(p)'
    BY <1>2, <1>18 DEF SavesAFreeBox, At, BoxIsFree
  <2>2. QED
    BY <1>4, <1>18, <2>1
<1>19. ASSUME NEW p \in Procs, EnterLinked(p) PROVE UNCHANGED <<member, letter, req>>
  BY <1>19 DEF EnterLinked
<1>20. QED
  BY <1>4, <1>5, <1>6, <1>7, <1>8, <1>9, <1>10, <1>11, <1>12, <1>13, <1>14, <1>15, <1>16, <1>17, <1>18, <1>19
     DEF SignInNext, SignInStep

LEMMA BoxesAreTheirs == BoxesDiffer /\ LinkIsLast => MailboxesDiffer /\ OnlyTheLastLetterConfirms
BY DEF BoxesDiffer, BoxIsFree, LinkIsLast, MailboxesDiffer, OnlyTheLastLetterConfirms, Opens

-----------------------------------------------------------------------------
(* One station with the profile, one at a time.                            *)

\* A station that is nobody's master.
Own(s) == stations[s].made /\ stations[s].parent = NoStation

\* Who has not chosen a role has no station of his own, and a profile that is being
\* completed belongs to one who has not.
OneOfHisOwn ==
    /\ AccountsTypeOK
    /\ \A s, t \in StationIds : Own(s) /\ Own(t) => s = t
    /\ account.state = "none" => ~account.chosen
    /\ ~account.chosen => \A s \in StationIds : ~Own(s)
    /\ \A p \in Procs : At(p, "complete_save") => ~account.chosen /\ account.state # "none"

LEMMA OwnInit == WorkersInit /\ AccountsInit => OneOfHisOwn
<1> SUFFICES ASSUME WorkersInit, AccountsInit PROVE OneOfHisOwn
  OBVIOUS
<1>1. \A s \in StationIds : ~Own(s)
  BY DEF AccountsInit, Own, Nowhere
<1>2. \A p \in Procs : ~At(p, "complete_save")
  BY DEF WorkersInit, At, Idle
<1>3. ~account.chosen
  BY DEF AccountsInit, NoAccount
<1>4. QED
  BY <1>1, <1>2, <1>3, AccountsTyped DEF OneOfHisOwn

LEMMA OwnStepKeeps ==
    ASSUME \A p, q \in Procs : p = q, OneOfHisOwn, [AccountsNext]_<<workerVars, accountVars>>
    PROVE  OneOfHisOwn'
<1> USE AccountsAssumption
<1>1. AccountsTypeOK /\ AccountsTypeOK'
  BY AccountsTyped DEF OneOfHisOwn
<1>2. /\ \A s, t \in StationIds : Own(s) /\ Own(t) => s = t
      /\ account.state = "none" => ~account.chosen
      /\ ~account.chosen => \A s \in StationIds : ~Own(s)
      /\ \A p \in Procs : At(p, "complete_save") => ~account.chosen /\ account.state # "none"
  BY DEF OneOfHisOwn
\* Nobody gets a station of his own but by a registration or a profile.
<1>3. ASSUME \A s \in StationIds : Own(s)' => Own(s), account'.chosen = account.chosen,
             account'.state = "none" => account.state = "none",
             \A p \in Procs : req'[p].op # "complete_save" \/ req'[p] = req[p]
      PROVE  OneOfHisOwn'
  <2>1. \A s, t \in StationIds : Own(s)' /\ Own(t)' => s = t
    BY <1>2, <1>3
  <2>2. ~account'.chosen => \A s \in StationIds : ~Own(s)'
    BY <1>2, <1>3
  <2>3. account'.state = "none" => ~account'.chosen
    BY <1>2, <1>3
  <2>4. \A p \in Procs : At(p, "complete_save")' => ~account'.chosen /\ account'.state # "none"
    BY <1>2, <1>3 DEF At
  <2>5. QED
    BY <1>1, <2>1, <2>2, <2>3, <2>4 DEF OneOfHisOwn
<1>4. ASSUME UNCHANGED stations PROVE \A s \in StationIds : Own(s)' => Own(s)
  BY <1>4 DEF Own
<1>5. ASSUME NEW p \in Procs, End(p) \/ Crash(p)
      PROVE  \A q \in Procs : req'[q].op # "complete_save" \/ req'[q] = req[q]
  <2>1. req'[p] = Idle /\ Idle.op = "idle"
    BY <1>1, <1>5 DEF End, Continue, Crash, AccountsTypeOK, Idle
  <2>2. QED
    BY <2>1
<1>6. ASSUME NEW s \in StationIds, NEW active, NEW parts, SaveStation(s, active, parts)
      PROVE  \A t \in StationIds : Own(t)' => Own(t)
  <2>1. stations' = [stations EXCEPT ![s] = [stations[s] EXCEPT !.active = active, !.parts = parts]]
    BY <1>1, <1>6 DEF SaveStation, AccountsTypeOK
  <2>2. stations[s] \in StationOf
    BY <1>1 DEF AccountsTypeOK
  <2>3. /\ [stations[s] EXCEPT !.active = active, !.parts = parts].made = stations[s].made
        /\ [stations[s] EXCEPT !.active = active, !.parts = parts].parent = stations[s].parent
    BY <2>2 DEF StationOf
  <2>4. QED
    BY <1>1, <2>1, <2>3 DEF Own, AccountsTypeOK
\* Registration.
<1>7. ASSUME NewStation, \A s \in StationIds : ~Own(s)
      PROVE  \A s, t \in StationIds : Own(s)' /\ Own(t)' => s = t
  BY <1>1, <1>7 DEF NewStation, Own, AccountsTypeOK
<1>8. Business(account).chosen /\ Business(account).state = "active"
  BY <1>1 DEF Business, AccountsTypeOK, Account
<1>9. ASSUME NEW p \in Procs, Register(p) PROVE OneOfHisOwn'
  <2>1. account.state = "none" /\ req' = req /\ req[p] = Idle
    BY <1>9 DEF Register
  <2>2. \A s \in StationIds : ~Own(s)
    BY <1>2, <2>1
  <2>3. \A s, t \in StationIds : Own(s)' /\ Own(t)' => s = t
    BY <1>4, <1>7, <1>9, <2>2 DEF Register
  <2>4. account'.state = "active"
    BY <1>1, <1>8, <1>9 DEF Register, AccountsTypeOK, Account
  <2>5. ~account'.chosen => UNCHANGED stations
    BY <1>8, <1>9 DEF Register
  <2>6. \A q \in Procs : ~At(q, "complete_save")'
    BY <2>1 DEF At, Idle
  <2>7. QED
    BY <1>1, <1>4, <2>2, <2>3, <2>4, <2>5, <2>6 DEF OneOfHisOwn
<1>10. ASSUME NEW p \in Procs, CompleteRead(p) PROVE OneOfHisOwn'
  <2>1. ~account.chosen /\ account.state = "active" /\ UNCHANGED <<account, stations>>
    BY <1>10 DEF CompleteRead
  <2>2. QED
    BY <1>1, <1>2, <2>1 DEF OneOfHisOwn, Own
<1>11. ASSUME NEW p \in Procs, CompleteSave(p) PROVE OneOfHisOwn'
  <2>1. ~account.chosen /\ account.state # "none"
    BY <1>2, <1>11 DEF CompleteSave
  <2>2. \A s \in StationIds : ~Own(s)
    BY <1>2, <2>1
  <2>3. \A s, t \in StationIds : Own(s)' /\ Own(t)' => s = t
    BY <1>4, <1>7, <1>11, <2>2 DEF CompleteSave
  <2>4. account'.chosen
    BY <1>1, <1>8, <1>11 DEF CompleteSave, AccountsTypeOK, Account, Business
  <2>5. account'.state # "none"
    BY <1>1, <1>11, <2>1 DEF CompleteSave, AccountsTypeOK, Account, Business
  <2>6. \A q \in Procs : ~At(q, "complete_save")'
    <3>1. req'[p] = Idle
      BY <1>1, <1>11 DEF CompleteSave, End, Continue, AccountsTypeOK
    <3>2. QED
      BY <3>1 DEF At, Idle
  <2>7. QED
    BY <1>1, <2>3, <2>4, <2>5, <2>6 DEF OneOfHisOwn
\* The cabinet.
<1>12. ASSUME NEW p \in Procs, NEW s \in StationIds, NEW op \in CabinetOps, CabinetRead(p, s, op)
       PROVE  OneOfHisOwn'
  <2>1. req'[p].op = op /\ op # "complete_save"
    BY <1>1, <1>12 DEF CabinetRead, Begin, AccountsTypeOK, CabinetOps
  <2>2. QED
    BY <1>3, <1>4, <1>12, <2>1 DEF CabinetRead
<1>13. ASSUME NEW p \in Procs, NEW s \in StationIds, ProfileRead(p, s) \/ FormRead(p, s) \/ MasterRead(p, s)
       PROVE  OneOfHisOwn'
  BY <1>12, <1>13 DEF ProfileRead, FormRead, MasterRead, CabinetOps
<1>14. ASSUME NEW p \in Procs, ProfileSave(p) PROVE OneOfHisOwn'
  <2>1. req[p] \in CabinetRequest /\ req[p].of \in StationIds
    BY <1>1, <1>14, CabinetRequestTyped DEF ProfileSave, At, CabinetOps
  <2>2. PICK parts \in SUBSET Parts :
               /\ SaveStation(req[p].of, req[p].loaded.active, parts)
               /\ Continue(p, [req[p] EXCEPT !.op = "profile_activate", !.loaded.parts = Address(parts)])
    BY <1>14 DEF ProfileSave
  <2>3. req'[p].op = "profile_activate"
    BY <1>1, <2>1, <2>2 DEF Continue, AccountsTypeOK, CabinetRequest
  <2>4. QED
    BY <1>3, <1>6, <1>14, <2>1, <2>2, <2>3 DEF ProfileSave
<1>15. ASSUME NEW p \in Procs, ProfileActivate(p) PROVE OneOfHisOwn'
  <2>1. PICK s \in StationIds : \E on : stations' = [stations EXCEPT ![s].active = on]
    BY <1>1, <1>15, CabinetRequestTyped DEF ProfileActivate, At, CabinetOps
  <2>2. stations[s] \in StationOf
    BY <1>1 DEF AccountsTypeOK
  <2>3. \A t \in StationIds : Own(t)' => Own(t)
    BY <1>1, <2>1, <2>2 DEF Own, AccountsTypeOK, StationOf
  <2>4. QED
    BY <1>3, <1>5, <1>15, <2>3 DEF ProfileActivate
<1>16. ASSUME NEW p \in Procs, FormSave(p) PROVE OneOfHisOwn'
  <2>1. req[p].of \in StationIds
    BY <1>1, <1>16, CabinetRequestTyped DEF FormSave, At, CabinetOps
  <2>2. QED
    BY <1>3, <1>5, <1>6, <1>16, <2>1 DEF FormSave
<1>17. ASSUME NEW p \in Procs, MasterSave(p) PROVE OneOfHisOwn'
  <2>1. req[p].of \in StationIds
    BY <1>1, <1>17, CabinetRequestTyped DEF MasterSave, At, CabinetOps
  <2>2. PICK m \in StationIds : \E active, parts :
               stations' = [stations EXCEPT ![m] = [made |-> TRUE, active |-> active, parts |-> parts,
                                                    parent |-> req[p].of]]
    BY <1>17 DEF MasterSave
  <2>3. \A t \in StationIds : Own(t)' => Own(t)
    BY <1>1, <2>1, <2>2 DEF Own, AccountsTypeOK
  <2>4. QED
    BY <1>3, <1>5, <1>17, <2>3 DEF MasterSave
<1>18. ASSUME NEW p \in Procs, NEW m \in StationIds, MasterInherit(p, m) PROVE OneOfHisOwn'
  BY <1>3, <1>6, <1>18 DEF MasterInherit
\* Administrators.
<1>19. ASSUME NEW p \in Procs, StoApprove(p) PROVE OneOfHisOwn'
  <2>1. account'.chosen = account.chosen /\ account'.state = account.state
    BY <1>1, <1>19 DEF StoApprove, AccountsTypeOK, Account
  <2>2. req'[p].op # "complete_save"
    BY <1>1, <1>19 DEF StoApprove, Begin, AccountsTypeOK
  <2>3. QED
    BY <1>3, <1>4, <1>19, <2>1, <2>2 DEF StoApprove
<1>20. ASSUME NEW p \in Procs, ApproveStations(p) PROVE OneOfHisOwn'
  <2>1. \A s \in StationIds : stations[s] \in StationOf
    BY <1>1 DEF AccountsTypeOK
  <2>2. \A s \in StationIds : Own(s)' => Own(s)
    BY <1>20, <2>1 DEF ApproveStations, Own, StationOf
  <2>3. QED
    BY <1>3, <1>5, <1>20, <2>2 DEF ApproveStations
<1>21. ASSUME NEW p \in Procs, NEW s \in StationIds, StationActivate(p, s) \/ StationDeactivate(p, s)
       PROVE  OneOfHisOwn'
  <2>1. PICK on : stations' = [stations EXCEPT ![s].active = on]
    BY <1>21 DEF StationActivate, StationDeactivate
  <2>2. stations[s] \in StationOf
    BY <1>1 DEF AccountsTypeOK
  <2>3. \A t \in StationIds : Own(t)' => Own(t)
    BY <1>1, <2>1, <2>2 DEF Own, AccountsTypeOK, StationOf
  <2>4. QED
    BY <1>3, <1>21, <2>3 DEF StationActivate, StationDeactivate
<1>22. ASSUME NEW p \in Procs, AccountDelete(p) \/ UserSet(p) \/ \E status \in Moderation : SetModeration(p, status)
       PROVE  OneOfHisOwn'
  <2>1. account'.chosen = account.chosen /\ (account'.state = "none" => account.state = "none")
    BY <1>1, <1>22 DEF AccountDelete, UserSet, SetModeration, AccountsTypeOK, Account
  <2>2. QED
    BY <1>3, <1>4, <1>22, <2>1 DEF AccountDelete, UserSet, SetModeration
<1>23. ASSUME NEW p \in Procs, MasterRefused(p) \/ AccountsCrash(p) PROVE OneOfHisOwn'
  BY <1>3, <1>4, <1>5, <1>23 DEF MasterRefused, AccountsCrash
<1>24. CASE UNCHANGED <<workerVars, accountVars>>
  BY <1>3, <1>4, <1>24
<1>25. QED
  BY <1>9, <1>10, <1>11, <1>13, <1>14, <1>15, <1>16, <1>17, <1>18, <1>19, <1>20, <1>21, <1>22, <1>23, <1>24
     DEF AccountsNext, AccountStep

LEMMA OwnIsOne == OneOfHisOwn => OnboardedOnce
<1> SUFFICES ASSUME OneOfHisOwn PROVE Cardinality({s \in Made : stations[s].parent = NoStation}) <= 1
  BY DEF OnboardedOnce
<1> DEFINE own == {s \in Made : stations[s].parent = NoStation}
<1>1. own = {} \/ \E s : own = {s}
  BY DEF OneOfHisOwn, Own, Made
<1>2. QED
  BY <1>1, FS_EmptySet, FS_Singleton, 0 <= 1, 1 <= 1

-----------------------------------------------------------------------------
(* Consents.                                                               *)

USE DEF consentVars

LEMMA ConsentsAreKept == [ConsentsNext]_<<workerVars, consentVars>> => consent \subseteq consent'
BY DEF ConsentsNext, SeedDocuments, Deploy, Publish, Edit, Withdraw, Withdrawable, ADayPasses,
       OpenConsent, PostConsent, SaveConsent, ConsentsCrash

-----------------------------------------------------------------------------
(* Masters taken over from a list.                                         *)

ImportRuns == {r \in ImportRun : r.at <= Len(r.list) + 1 /\ r.at >= 1}
QuotesOffered(card) == card # NoWorkshop /\ card.services # {} => card.services \cap card.quoted # {}

\* The next entry of a run.
LEMMA NextEntryIs ==
    ASSUME NEW r \in ImportRun
    PROVE  /\ NextEntry(r) \in ImportRun
           /\ NextEntry(r).at = r.at + 1 /\ NextEntry(r).list = r.list
           /\ NextEntry(r).op = "import_next" /\ NextEntry(r).lines = r.lines
<1> DEFINE s == NextEntry(r)
<1>1. r = [f \in {"op", "list", "at", "update", "lines", "found"} |-> r[f]] /\ r.at \in Nat
      /\ r.list \in ImportLists /\ r.update \in BOOLEAN /\ r.lines \in SUBSET Phones /\ r.found \in BOOLEAN
  BY DEF ImportRun
<1>2. /\ s.at = r.at + 1 /\ s.list = r.list /\ s.op = "import_next" /\ s.lines = r.lines
      /\ s.update = r.update /\ s.found = r.found
  BY <1>1 DEF NextEntry
<1>3. s = [f \in {"op", "list", "at", "update", "lines", "found"} |-> s[f]]
  BY <1>1 DEF NextEntry
<1> HIDE DEF s
<1>4. s \in ImportRun
  BY <1>1, <1>2, <1>3 DEF ImportRun
<1>5. QED
  BY <1>2, <1>4 DEF s

\* Cards go with roles, passwords in the file or to be written open, and a run that is
\* about to save has an entry with a telephone.
CardsAreKept ==
    /\ user \in [Phones -> UserRow \cup {Unknown}]
    /\ workshop \in [Phones -> Workshop \cup {NoWorkshop}]
    /\ store \subseteq Phones /\ matching \subseteq Services
    /\ written \subseteq Phones /\ changed \subseteq Phones
    /\ req \in [Procs -> ImportRuns \cup {Idle}]
    /\ \A p \in Procs : At(p, "import_save") => More(p) /\ Entry(p).phone \in Phones
    /\ CardGoesWithRole
    /\ WrittenPasswordsOpen
    /\ \A p \in Procs : req[p] # Idle =>
          \A f \in req[p].lines : Known(f) /\ (f \in changed \/ user[f].password = MadePassword)

LEMMA CardsInit == WorkersInit /\ ImportInit => CardsAreKept
<1> SUFFICES ASSUME WorkersInit, ImportInit PROVE CardsAreKept
  OBVIOUS
<1>0. \A p \in Procs : req[p] = Idle
  BY DEF WorkersInit
<1>1. req \in [Procs -> ImportRuns \cup {Idle}]
  BY DEF WorkersInit
<1>2. \A p \in Procs : ~At(p, "import_save")
  BY DEF WorkersInit, At, Idle
<1>3. \A f \in Phones : user[f].role = "none" /\ workshop[f] = NoWorkshop
  BY DEF ImportInit, Unknown
<1>4. CardGoesWithRole
  BY <1>3 DEF CardGoesWithRole
<1>5. QED
  BY <1>0, <1>1, <1>2, <1>4 DEF CardsAreKept, ImportInit, WrittenPasswordsOpen

\* Services that are not empty have a first one, and it gets a price.
LEMMA FirstIsQuoted ==
    ASSUME NEW S \in SUBSET Services, S # {}
    PROVE  S \cap QuotedOf(S) # {} /\ QuotedOf(S) \subseteq S
<1>1. S \subseteq Nat
  BY MasterImportAssumption
<1>2. PICK n \in S : \A m \in S : ~(<<m, n>> \in OpToRel(<, Nat))
  BY <1>1, NatLessThanWellFounded, WFMin
<1>3. {t \in S : t < n} = {}
  BY <1>1, <1>2 DEF OpToRel
<1>4. Cardinality({t \in S : t < n}) < MaxQuoted
  <2>1. Cardinality({t \in S : t < n}) = 0
    BY <1>3, FS_EmptySet, Zenon
  <2>2. 0 < MaxQuoted
    BY MasterImportAssumption
  <2>3. QED
    BY <2>1, <2>2
<1>5. QED
  BY <1>4 DEF QuotedOf

\* The card an entry gets.
LEMMA CardRenewed ==
    ASSUME NEW card \in Workshop \cup {NoWorkshop}, QuotesOffered(card), NEW seed \in Seed, matching \subseteq Services
    PROVE  /\ CardOf(card, seed) \in Workshop
           /\ CardOf(card, seed).kind = KindOfRole(seed.role)
           /\ QuotesOffered(CardOf(card, seed))
<1> DEFINE base == IF card = NoWorkshop THEN Bare ELSE card
           services == IF matching = {} THEN base.services ELSE matching
           quoted == base.quoted \cup QuotedOf(matching)
           new == [made |-> TRUE, kind |-> KindOfRole(seed.role), listed |-> TRUE, services |-> services,
                   quoted |-> quoted, all |-> seed.mode = "all", makes |-> MakesOf(seed)]
<1>1. CardOf(card, seed) = new
  BY DEF CardOf, Renewed
<1>2. base.services \subseteq Services /\ base.quoted \subseteq Services
      /\ (base.services # {} => base.services \cap base.quoted # {})
  <2>1. CASE card = NoWorkshop
    BY <2>1 DEF Bare
  <2>2. CASE card # NoWorkshop
    BY <2>2 DEF QuotesOffered, Workshop
  <2>3. QED
    BY <2>1, <2>2
<1>3. QuotedOf(matching) \subseteq Services
  BY DEF QuotedOf
<1> HIDE DEF base
<1>4. services \subseteq Services /\ quoted \subseteq Services
  BY <1>2, <1>3
<1>5. services # {} => services \cap quoted # {}
  <2>1. CASE matching = {}
    BY <1>2, <2>1
  <2>2. CASE matching # {}
    BY <2>2, FirstIsQuoted
  <2>3. QED
    BY <2>1, <2>2
<1>6. KindOfRole(seed.role) \in {"sto", "private"} /\ (seed.mode = "all") \in BOOLEAN
  BY DEF KindOfRole
<1>7. MakesOf(seed) \subseteq Makes
  BY DEF MakesOf, Seed
<1> HIDE DEF services, quoted
<1>8. /\ new.made = TRUE /\ new.kind = KindOfRole(seed.role) /\ new.services = services /\ new.quoted = quoted
  OBVIOUS
<1>9. new \in Workshop
  <2> DEFINE yes == TRUE
             every == (seed.mode = "all")
             makes == MakesOf(seed)
             kindOf == KindOfRole(seed.role)
  <2>1. yes \in {TRUE} /\ yes \in BOOLEAN /\ every \in BOOLEAN /\ makes \subseteq Makes /\ kindOf \in {"sto", "private"}
    BY <1>6, <1>7
  <2>2. new = [made |-> yes, kind |-> kindOf, listed |-> yes, services |-> services,
                quoted |-> quoted, all |-> every, makes |-> makes]
    OBVIOUS
  <2> HIDE DEF yes, every, makes, kindOf, new
  <2>3. QED
    BY <1>4, <2>1, <2>2 DEF Workshop
<1> HIDE DEF new
<1>10. QED
  BY <1>1, <1>5, <1>8, <1>9 DEF QuotesOffered

LEMMA CardsStep == CardsAreKept /\ [ImportNext]_<<workerVars, importVars>> => CardsAreKept'
<1> SUFFICES ASSUME CardsAreKept, [ImportNext]_<<workerVars, importVars>> PROVE CardsAreKept'
  OBVIOUS
<1> USE DEF workerVars, importVars
<1> DEFINE PasswordOpens(f) == Known(f) /\ (f \in changed \/ user[f].password = MadePassword)
           Goes(f) ==
              /\ user[f].role = "autoshop" => f \in store
              /\ user[f].role \in {"master", "autoservice"} =>
                    workshop[f] # NoWorkshop /\ workshop[f].kind = KindOfRole(user[f].role)
              /\ QuotesOffered(workshop[f])
           Rows == /\ user \in [Phones -> UserRow \cup {Unknown}]
                   /\ workshop \in [Phones -> Workshop \cup {NoWorkshop}]
                   /\ store \subseteq Phones /\ matching \subseteq Services
                   /\ written \subseteq Phones /\ changed \subseteq Phones
           Runs == /\ req \in [Procs -> ImportRuns \cup {Idle}]
                   /\ \A p \in Procs : At(p, "import_save") => More(p) /\ Entry(p).phone \in Phones
<1>0. /\ Rows /\ Runs
      /\ \A f \in Phones : Goes(f)
      /\ \A f \in written : PasswordOpens(f)
      /\ \A p \in Procs : req[p] # Idle => \A f \in req[p].lines : PasswordOpens(f)
  BY DEF CardsAreKept, CardGoesWithRole, WrittenPasswordsOpen, QuotesOffered
<1>a. ASSUME Rows', Runs', \A f \in Phones : Goes(f)', \A f \in written' : PasswordOpens(f)',
             \A p \in Procs : req'[p] # Idle => \A f \in req'[p].lines : PasswordOpens(f)'
      PROVE  CardsAreKept'
  BY <1>a DEF CardsAreKept, CardGoesWithRole, WrittenPasswordsOpen, QuotesOffered
\* A telephone in the file or to be written is one.
<1>b. ASSUME NEW p \in Procs, req[p] # Idle
      PROVE  /\ req[p] \in ImportRun /\ req[p].list \in ImportLists /\ req[p].list \in Seq(Seed)
             /\ req[p].at \in 1..Len(req[p].list) + 1 /\ req[p].lines \subseteq Phones
             /\ req[p].op \in {"import_next", "import_save"} /\ Len(req[p].list) \in Nat
  <2>1. req[p] \in ImportRuns
    BY <1>0, <1>b
  <2>2. req[p] \in ImportRun /\ req[p].at <= Len(req[p].list) + 1 /\ req[p].at >= 1
    BY <2>1 DEF ImportRuns
  <2>3. req[p].list \in ImportLists /\ req[p].at \in Nat /\ req[p].lines \subseteq Phones
        /\ req[p].op \in {"import_next", "import_save"}
    BY <2>2 DEF ImportRun
  <2>4. req[p].list \in Seq(Seed)
    BY <2>3, MasterImportAssumption
  <2>5. Len(req[p].list) \in Nat
    BY <2>4
  <2>6. QED
    BY <2>2, <2>3, <2>4, <2>5
\* A run that goes on, with its rows as they are.
<1>c. ASSUME NEW p \in Procs, NEW r, r \in ImportRuns, req' = [req EXCEPT ![p] = r],
             r.op = "import_save" => r.at <= Len(r.list) /\ r.list[r.at].phone \in Phones
      PROVE  Runs'
  <2>1. \A q \in Procs : req'[q] = IF q = p THEN r ELSE req[q]
    BY <1>0, <1>c
  <2>2. req' \in [Procs -> ImportRuns \cup {Idle}]
    BY <1>0, <1>c
  <2>3. ASSUME NEW q \in Procs, At(q, "import_save")' PROVE More(q)' /\ Entry(q)'.phone \in Phones
    <3>1. CASE q = p
      BY <1>c, <2>1, <2>3, <3>1 DEF At, More, Entry
    <3>2. CASE q # p
      BY <1>0, <2>1, <2>3, <3>2 DEF At, More, Entry
    <3>3. QED
      BY <3>1, <3>2
  <2>4. QED
    BY <2>2, <2>3
<1>d. ASSUME NEW p \in Procs, req' = [req EXCEPT ![p] = Idle] PROVE Runs'
  <2>1. \A q \in Procs : req'[q] = IF q = p THEN Idle ELSE req[q]
    BY <1>0, <1>d
  <2>2. req' \in [Procs -> ImportRuns \cup {Idle}]
    BY <1>0, <1>d
  <2>3. ASSUME NEW q \in Procs, At(q, "import_save")' PROVE More(q)' /\ Entry(q)'.phone \in Phones
    <3>1. q # p
      BY <2>1, <2>3 DEF At, Idle
    <3>2. QED
      BY <1>0, <2>1, <2>3, <3>1 DEF At, More, Entry
  <2>4. QED
    BY <2>2, <2>3
<1>1. CASE UNCHANGED <<workerVars, importVars>>
  BY <1>1 DEF CardsAreKept, CardGoesWithRole, WrittenPasswordsOpen, At, More, Entry, Known
<1>2. ASSUME NEW p \in Procs, NEW f \in Phones, PasswordChanged(p, f) PROVE CardsAreKept'
  <2>1. /\ Known(f) /\ user' = [user EXCEPT ![f].password = "own"]
        /\ changed' = IF user[f].password = MadePassword THEN changed \cup {f} ELSE changed
        /\ UNCHANGED <<req, crashes, workshop, store, matching, written, imports>>
    BY <1>2 DEF PasswordChanged
  <2>2. user[f] \in UserRow
    BY <1>0, <2>1 DEF Known
  <2>3. /\ user'[f] \in UserRow /\ user'[f].role = user[f].role /\ user'[f] # Unknown
        /\ \A g \in Phones : g # f => user'[g] = user[g]
        /\ user' \in [Phones -> UserRow \cup {Unknown}]
    <3>1. user'[f] = [user[f] EXCEPT !.password = "own"] /\ \A g \in Phones : g # f => user'[g] = user[g]
      BY <1>0, <2>1
    <3>2. user'[f] \in UserRow /\ user'[f].role = user[f].role /\ user'[f].password = "own"
      BY <2>2, <3>1 DEF UserRow
    <3>3. user'[f] # Unknown
      BY <3>2 DEF Unknown
    <3>4. user' \in [Phones -> UserRow \cup {Unknown}]
      BY <1>0, <2>1, <3>1, <3>2
    <3>5. QED
      BY <3>1, <3>2, <3>3, <3>4
  <2>4. \A g \in Phones : Goes(g)'
    BY <1>0, <2>1, <2>3 DEF QuotesOffered
  <2>5. \A g \in Phones : PasswordOpens(g) => PasswordOpens(g)'
    BY <2>1, <2>3 DEF Known
  <2>6. Rows' /\ Runs'
    BY <1>0, <2>1, <2>3 DEF At, More, Entry
  <2>7. \A q \in Procs : req[q] # Idle => req[q].lines \subseteq Phones
    BY <1>b
  <2>8. QED
    BY <1>0, <1>a, <2>1, <2>4, <2>5, <2>6, <2>7
<1>3. ASSUME NEW p \in Procs, NEW f \in Phones, NEW role \in Registrations, SelfRegistered(p, f, role)
      PROVE  CardsAreKept'
  <2> DEFINE row == [role |-> role, password |-> "own"]
             card == [made |-> TRUE, kind |-> KindOfRole(role), listed |-> FALSE, services |-> {},
                      quoted |-> {}, all |-> FALSE, makes |-> {}]
  <2>1. /\ ~Known(f) /\ user' = [user EXCEPT ![f] = row]
        /\ workshop' = IF role \in {"master", "autoservice"} THEN [workshop EXCEPT ![f] = card] ELSE workshop
        /\ store' = IF role = "autoshop" THEN store \cup {f} ELSE store
        /\ UNCHANGED <<req, crashes, matching, written, changed, imports>>
    BY <1>3 DEF SelfRegistered
  <2>2. row \in UserRow /\ row.role = role /\ row # Unknown
    BY DEF UserRow, Unknown
  <2>3. card \in Workshop /\ card.kind = KindOfRole(role) /\ card.services = {}
    <3> DEFINE yes == TRUE
               no == FALSE
               kindOf == KindOfRole(role)
    <3>1. yes \in {TRUE} /\ no \in BOOLEAN /\ kindOf \in {"sto", "private"}
      BY DEF KindOfRole
    <3>2. card = [made |-> yes, kind |-> kindOf, listed |-> no, services |-> {},
                  quoted |-> {}, all |-> no, makes |-> {}]
      OBVIOUS
    <3> HIDE DEF yes, no, kindOf, card
    <3>3. QED
      BY <3>1, <3>2 DEF Workshop, kindOf
  <2>4. card # NoWorkshop
    BY DEF NoWorkshop
  <2> HIDE DEF row, card
  <2>5. /\ user' \in [Phones -> UserRow \cup {Unknown}] /\ user'[f] = row
        /\ \A g \in Phones : g # f => user'[g] = user[g]
    BY <1>0, <2>1, <2>2
  <2>6. /\ workshop' \in [Phones -> Workshop \cup {NoWorkshop}]
        /\ \A g \in Phones : g # f => workshop'[g] = workshop[g]
        /\ role \in {"master", "autoservice"} => workshop'[f] = card
        /\ QuotesOffered(workshop'[f])
    BY <1>0, <2>1, <2>3 DEF QuotesOffered
  <2>7. ASSUME NEW g \in Phones PROVE Goes(g)'
    <3>1. CASE g = f
      BY <2>1, <2>2, <2>3, <2>4, <2>5, <2>6, <3>1 DEF QuotesOffered
    <3>2. CASE g # f
      BY <1>0, <2>1, <2>5, <2>6, <3>2 DEF QuotesOffered
    <3>3. QED
      BY <3>1, <3>2
  <2>8. \A g \in Phones : PasswordOpens(g) => PasswordOpens(g)'
    BY <2>1, <2>5 DEF Known
  <2>9. Rows' /\ Runs'
    <3>1. store' \subseteq Phones
      BY <1>0, <2>1
    <3>2. QED
      BY <1>0, <2>1, <2>5, <2>6, <3>1 DEF At, More, Entry
  <2>10. \A q \in Procs : req[q] # Idle => req[q].lines \subseteq Phones
    BY <1>b
  <2>11. QED
    BY <1>0, <1>a, <2>1, <2>7, <2>8, <2>9, <2>10
<1>4. ASSUME NEW p \in Procs, ServicesRenamed(p) PROVE CardsAreKept'
  BY <1>0, <1>4 DEF ServicesRenamed, CardsAreKept, CardGoesWithRole, WrittenPasswordsOpen, At, More, Entry, Known
<1>5. ASSUME NEW p \in Procs, ImportBegun(p) PROVE CardsAreKept'
  <2>1. PICK list \in ImportLists, update \in BOOLEAN :
            /\ req[p] = Idle
            /\ req' = [req EXCEPT ![p] = [op |-> "import_next", list |-> list, at |-> 1, update |-> update,
                                          lines |-> {}, found |-> FALSE]]
            /\ UNCHANGED <<user, workshop, store, matching, written, changed>>
    BY <1>5 DEF ImportBegun, Begin
  <2> DEFINE no == FALSE
             r == [op |-> "import_next", list |-> list, at |-> 1, update |-> update, lines |-> {}, found |-> no]
  <2>2. r \in ImportRun
    <3>1. no \in BOOLEAN
      OBVIOUS
    <3> HIDE DEF no
    <3>2. QED
      BY <3>1 DEF ImportRun
  <2>3. Len(list) \in Nat
    BY MasterImportAssumption
  <2>4. r.op = "import_next" /\ r.at = 1 /\ r.list = list /\ r.lines = {}
    OBVIOUS
  <2>5. req' = [req EXCEPT ![p] = r]
    BY <2>1
  <2> HIDE DEF r
  <2>6. r \in ImportRuns
    BY <2>2, <2>3, <2>4 DEF ImportRuns
  <2>7. Runs'
    BY <1>c, <2>4, <2>5, <2>6
  <2>8. \A q \in Procs : req'[q] = IF q = p THEN r ELSE req[q]
    BY <1>0, <2>5
  <2>9. Rows' /\ (\A f \in Phones : Goes(f)') /\ \A f : PasswordOpens(f)' <=> PasswordOpens(f)
    BY <1>0, <2>1 DEF Known, QuotesOffered
  <2>10. QED
    BY <1>0, <1>a, <2>1, <2>4, <2>7, <2>8, <2>9
<1>6. ASSUME NEW p \in Procs, EntrySkipped(p) PROVE CardsAreKept'
  <2> DEFINE r == NextEntry(req[p])
  <2>1. At(p, "import_next") /\ More(p) /\ req' = [req EXCEPT ![p] = r] /\ UNCHANGED importVars
    BY <1>6 DEF EntrySkipped, Continue
  <2>2. req[p] # Idle
    BY <2>1 DEF At, Idle
  <2>3. r \in ImportRuns /\ r.op = "import_next" /\ r.lines = req[p].lines
    <3>1. req[p] \in ImportRun /\ req[p].at \in 1..Len(req[p].list) /\ Len(req[p].list) \in Nat
      BY <1>b, <2>1, <2>2 DEF More
    <3>2. r \in ImportRun /\ r.at = req[p].at + 1 /\ r.list = req[p].list /\ r.op = "import_next"
          /\ r.lines = req[p].lines
      BY <3>1, NextEntryIs
    <3> HIDE DEF r
    <3>3. QED
      BY <3>1, <3>2 DEF ImportRuns
  <2> HIDE DEF r
  <2>4. Runs'
    BY <1>c, <2>1, <2>3
  <2>5. \A q \in Procs : req'[q] = IF q = p THEN r ELSE req[q]
    BY <1>0, <2>1
  <2>6. Rows' /\ (\A f \in Phones : Goes(f)') /\ \A f : PasswordOpens(f)' <=> PasswordOpens(f)
    BY <1>0, <2>1 DEF Known, QuotesOffered
  <2>7. QED
    BY <1>0, <1>a, <2>1, <2>2, <2>3, <2>4, <2>5, <2>6
<1>7. ASSUME NEW p \in Procs, EntryRead(p) PROVE CardsAreKept'
  <2> DEFINE known == Known(Entry(p).phone)
             r == [req[p] EXCEPT !.op = "import_save", !.found = known]
  <2>1. At(p, "import_next") /\ More(p) /\ ~Skipped(p) /\ req' = [req EXCEPT ![p] = r] /\ UNCHANGED importVars
    BY <1>7 DEF EntryRead, Continue
  <2>2. req[p] # Idle
    BY <2>1 DEF At, Idle
  <2>3. known \in BOOLEAN
    BY DEF Known
  <2> HIDE DEF known
  <2>4. r \in ImportRuns /\ r.lines = req[p].lines /\ r.list = req[p].list /\ r.at = req[p].at
    <3>1. req[p] \in ImportRun /\ req[p].at \in 1..Len(req[p].list) + 1
      BY <1>b, <2>2
    <3>2. r \in ImportRun /\ r.at = req[p].at /\ r.list = req[p].list /\ r.lines = req[p].lines
      BY <2>3, <3>1 DEF ImportRun
    <3> HIDE DEF r
    <3>3. QED
      BY <3>1, <3>2 DEF ImportRuns
  <2> HIDE DEF r
  <2>5. r.at <= Len(r.list) /\ r.list[r.at].phone \in Phones
    BY <2>1, <2>4 DEF More, Skipped, Entry
  <2>6. Runs'
    BY <1>c, <2>1, <2>4, <2>5
  <2>7. \A q \in Procs : req'[q] = IF q = p THEN r ELSE req[q]
    BY <1>0, <2>1
  <2>8. Rows' /\ (\A f \in Phones : Goes(f)') /\ \A f : PasswordOpens(f)' <=> PasswordOpens(f)
    BY <1>0, <2>1 DEF Known, QuotesOffered
  <2>9. QED
    BY <1>0, <1>a, <2>1, <2>2, <2>4, <2>6, <2>7, <2>8
<1>8. ASSUME NEW p \in Procs, EntrySaved(p) PROVE CardsAreKept'
  <2> DEFINE seed == Entry(p)
             f == seed.phone
             row == [role |-> seed.role, password |-> MadePassword]
             card == CardOf(workshop[f], seed)
             r == NextEntry([req[p] EXCEPT !.lines = @ \cup {f}])
  <2>1. /\ At(p, "import_save") /\ user' = [user EXCEPT ![f] = row]
        /\ store' = IF seed.role = "autoshop" THEN store \cup {f} ELSE store
        /\ workshop' = IF seed.role = "autoshop" THEN workshop ELSE [workshop EXCEPT ![f] = card]
        /\ changed' = changed \ {f} /\ req' = [req EXCEPT ![p] = r] /\ UNCHANGED <<matching, written>>
    BY <1>8 DEF EntrySaved, Continue
  <2>2. req[p] # Idle
    BY <2>1 DEF At, Idle
  <2>3. More(p) /\ f \in Phones
    BY <1>0, <2>1
  <2>4. seed \in Seed /\ seed.role \in Roles
    <3>1. req[p].list \in Seq(Seed) /\ req[p].at \in 1..Len(req[p].list)
      BY <1>b, <2>2, <2>3 DEF More
    <3>2. seed \in Seed
      BY <3>1 DEF Entry
    <3>3. QED
      BY <3>2 DEF Seed
  <2>5. row \in UserRow /\ row.role = seed.role /\ row.password = MadePassword /\ row # Unknown
    BY <2>4 DEF UserRow, Unknown, MadePassword
  <2>6. card \in Workshop /\ card.kind = KindOfRole(seed.role) /\ QuotesOffered(card)
    <3>1. workshop[f] \in Workshop \cup {NoWorkshop} /\ QuotesOffered(workshop[f]) /\ matching \subseteq Services
      BY <1>0, <2>3
    <3> HIDE DEF seed, f
    <3>2. QED
      BY <2>4, <3>1, CardRenewed
  <2>7. \A c \in Workshop : c # NoWorkshop
    BY DEF Workshop, NoWorkshop
  <2>8. r \in ImportRuns /\ r.op = "import_next" /\ r.lines = req[p].lines \cup {f}
    <3> DEFINE s == [req[p] EXCEPT !.lines = @ \cup {f}]
    <3>1. req[p] \in ImportRun /\ req[p].at \in 1..Len(req[p].list) /\ Len(req[p].list) \in Nat
      BY <1>b, <2>2, <2>3 DEF More
    <3>2. s \in ImportRun /\ s.at = req[p].at /\ s.list = req[p].list /\ s.lines = req[p].lines \cup {f}
      BY <2>3, <3>1 DEF ImportRun
    <3> HIDE DEF s
    <3>3. NextEntry(s) \in ImportRun /\ NextEntry(s).at = s.at + 1 /\ NextEntry(s).list = s.list
          /\ NextEntry(s).op = "import_next" /\ NextEntry(s).lines = s.lines
      BY <3>2, NextEntryIs
    <3>4. NextEntry(s) \in ImportRuns
      BY <3>1, <3>2, <3>3 DEF ImportRuns
    <3>5. QED
      BY <3>2, <3>3, <3>4 DEF s
  <2> HIDE DEF row, card, r, f, seed
  <2>9. /\ user' \in [Phones -> UserRow \cup {Unknown}] /\ user'[f] = row
        /\ \A g \in Phones : g # f => user'[g] = user[g]
    BY <1>0, <2>1, <2>3, <2>5
  <2>10. /\ workshop' \in [Phones -> Workshop \cup {NoWorkshop}]
         /\ \A g \in Phones : g # f => workshop'[g] = workshop[g]
         /\ seed.role # "autoshop" => workshop'[f] = card
         /\ QuotesOffered(workshop'[f])
    BY <1>0, <2>1, <2>3, <2>6
  <2>11. ASSUME NEW g \in Phones PROVE Goes(g)'
    <3>1. CASE g = f
      BY <2>1, <2>5, <2>6, <2>7, <2>9, <2>10, <3>1 DEF QuotesOffered
    <3>2. CASE g # f
      BY <1>0, <2>1, <2>9, <2>10, <3>2 DEF QuotesOffered
    <3>3. QED
      BY <3>1, <3>2
  <2>12. /\ \A g \in Phones : PasswordOpens(g) => PasswordOpens(g)'
         /\ \A g \in Phones : g = f => PasswordOpens(g)'
    BY <2>1, <2>5, <2>9 DEF Known
  <2>13. Runs'
    BY <1>c, <2>1, <2>8
  <2>14. Rows'
    <3>1. store' \subseteq Phones
      BY <1>0, <2>1, <2>3
    <3>2. QED
      BY <1>0, <2>1, <2>9, <2>10, <3>1
  <2>15. \A q \in Procs : req'[q] = IF q = p THEN r ELSE req[q]
    BY <1>0, <2>1
  <2>16. ASSUME NEW q \in Procs, req'[q] # Idle, NEW g \in req'[q].lines PROVE PasswordOpens(g)'
    <3>1. CASE q = p
      <4>1. g = f \/ g \in req[p].lines
        BY <2>8, <2>15, <2>16, <3>1
      <4>2. req[p].lines \subseteq Phones
        BY <1>b, <2>2
      <4>3. QED
        BY <1>0, <2>2, <2>3, <2>12, <4>1, <4>2
    <3>2. CASE q # p
      <4>1. req[q] # Idle /\ g \in req[q].lines
        BY <2>15, <2>16, <3>2
      <4>2. g \in Phones
        BY <1>b, <4>1
      <4>3. QED
        BY <1>0, <2>12, <4>1, <4>2
    <3>3. QED
      BY <3>1, <3>2
  <2>17. \A g \in written' : PasswordOpens(g)'
    BY <1>0, <2>1, <2>12
  <2>18. QED
    BY <1>a, <2>11, <2>13, <2>14, <2>16, <2>17
<1>9. ASSUME NEW p \in Procs, EntryRefused(p) \/ ImportCrash(p) PROVE CardsAreKept'
  <2>1. req' = [req EXCEPT ![p] = Idle] /\ UNCHANGED importVars
    BY <1>9 DEF EntryRefused, ImportCrash, Crash, End, Continue
  <2>2. Runs'
    BY <1>d, <2>1
  <2>3. \A q \in Procs : req'[q] = IF q = p THEN Idle ELSE req[q]
    BY <1>0, <2>1
  <2>4. Rows' /\ (\A f \in Phones : Goes(f)') /\ \A f : PasswordOpens(f)' <=> PasswordOpens(f)
    BY <1>0, <2>1 DEF Known, QuotesOffered
  <2>5. QED
    BY <1>0, <1>a, <2>1, <2>2, <2>3, <2>4
<1>10. ASSUME NEW p \in Procs, ImportEnded(p) PROVE CardsAreKept'
  <2>1. /\ At(p, "import_next") /\ written' = IF req[p].lines = {} THEN written ELSE req[p].lines
        /\ req' = [req EXCEPT ![p] = Idle] /\ UNCHANGED <<user, workshop, store, matching, changed>>
    BY <1>10 DEF ImportEnded, End, Continue
  <2>2. req[p] # Idle
    BY <2>1 DEF At, Idle
  <2>3. req[p].lines \subseteq Phones
    BY <1>b, <2>2
  <2>4. Runs'
    BY <1>d, <2>1
  <2>5. \A q \in Procs : req'[q] = IF q = p THEN Idle ELSE req[q]
    BY <1>0, <2>1
  <2>6. (\A f \in Phones : Goes(f)') /\ \A f : PasswordOpens(f)' <=> PasswordOpens(f)
    BY <1>0, <2>1 DEF Known, QuotesOffered
  <2>7. Rows'
    BY <1>0, <2>1, <2>3
  <2>8. \A f \in written' : PasswordOpens(f)'
    BY <1>0, <2>1, <2>2, <2>6
  <2>9. QED
    BY <1>0, <1>a, <2>4, <2>5, <2>6, <2>7, <2>8
<1>11. QED
  BY <1>1, <1>2, <1>3, <1>4, <1>5, <1>6, <1>7, <1>8, <1>9, <1>10 DEF ImportNext

LEMMA CardsTyped == CardsAreKept => MasterImportTypeOK
<1> SUFFICES ASSUME CardsAreKept PROVE MasterImportTypeOK
  OBVIOUS
<1>1. \A p \in Procs : req[p] = Idle \/ (req[p] \in ImportRun /\ req[p].at <= Len(req[p].list) + 1)
  BY DEF CardsAreKept, ImportRuns
<1>2. QED
  BY <1>1 DEF CardsAreKept, MasterImportTypeOK

\* Whatever runs of the import overlap or die, and whoever registers meanwhile: a role has
\* its card, and a password in the file opens its account until its owner changes it.
THEOREM ImportKeepsCards ==
    ImportSpec => [](MasterImportTypeOK /\ CardGoesWithRole /\ WrittenPasswordsOpen)
<1>1. CardsAreKept => MasterImportTypeOK /\ CardGoesWithRole /\ WrittenPasswordsOpen
  BY CardsTyped DEF CardsAreKept
<1>2. QED
  BY CardsInit, CardsStep, <1>1, PTL DEF ImportSpec
=============================================================================
