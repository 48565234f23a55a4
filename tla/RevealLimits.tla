---------------------------- MODULE RevealLimits ----------------------------
(***************************************************************************)
(* How many telephones of sellers a buyer may look at: RevealPhoneAPIView  *)
(* (apps/classifieds/api_views.py) counts his PhoneRevealLog rows of the   *)
(* last hour and the last day, blocks him for a day when he is at a limit, *)
(* and otherwise logs one more, all without a lock.                        *)
(*                                                                         *)
(* Time is what it ends: the hour and the day of a row, and the block.     *)
(***************************************************************************)
EXTENDS Workers, FiniteSets

CONSTANTS HourLimit, DayLimit \* 5 and 20

ASSUME RevealLimitsAssumption ==
    HourLimit \in Nat \ {0} /\ DayLimit \in Nat \ {0} /\ IsFiniteSet(Procs)

VARIABLES hourCount, dayCount, \* PhoneRevealLog rows of the buyer, of an hour and of a day
          blocked, \* contact_view_blocked_until is ahead
          mayLook  \* the ad is published with a telephone; profile, e-mail and
                   \* is_suspicious let the buyer look

revealVars == <<hourCount, dayCount, blocked, mayLook>>

RevealLimitsInit == hourCount = 0 /\ dayCount = 0 /\ blocked = FALSE /\ mayLook = TRUE

-----------------------------------------------------------------------------
\* Mutant: one too many.
OverLimitAfter == hourCount > HourLimit \/ dayCount > DayLimit
OverLimit == hourCount >= HourLimit \/ dayCount >= DayLimit

\* The tests of get(): whoever is at a limit is blocked, and the others go on.
RevealRefused(p) ==
    /\ req[p] = Idle
    /\ mayLook /\ ~blocked /\ OverLimit
    /\ blocked' = TRUE
    /\ UNCHANGED <<hourCount, dayCount, mayLook, workerVars>>

RevealRead(p) ==
    /\ mayLook /\ ~blocked /\ ~OverLimit
    /\ Begin(p, [op |-> "reveal_log"])
    /\ UNCHANGED revealVars

RevealLogged(p) ==
    /\ At(p, "reveal_log")
    /\ hourCount' = hourCount + 1 /\ dayCount' = dayCount + 1
    /\ End(p)
    /\ UNCHANGED <<blocked, mayLook>>

-----------------------------------------------------------------------------
\* A row leaves the hour, and later the day; the block ends.
HourPasses == hourCount > 0 /\ hourCount' = hourCount - 1 /\ UNCHANGED <<dayCount, blocked, mayLook>>
DayPasses ==
    dayCount > hourCount /\ dayCount' = dayCount - 1 /\ UNCHANGED <<hourCount, blocked, mayLook>>
BlockEnds == blocked /\ blocked' = FALSE /\ UNCHANGED <<hourCount, dayCount, mayLook>>

\* Moderators, reports, the anti-fraud task and the buyer's own profile.
RevealAllowed == mayLook' = ~mayLook /\ UNCHANGED <<hourCount, dayCount, blocked>>

RevealLimitsNext ==
    \/ \E p \in Procs : RevealRefused(p) \/ RevealRead(p) \/ RevealLogged(p)
                          \/ (Crash(p) /\ UNCHANGED revealVars)
    \/ (HourPasses \/ DayPasses \/ BlockEnds \/ RevealAllowed) /\ UNCHANGED workerVars

RevealLimitsSpec ==
    WorkersInit /\ RevealLimitsInit /\ [][RevealLimitsNext]_<<workerVars, revealVars>>

-----------------------------------------------------------------------------
RevealLimitsTypeOK ==
    /\ hourCount \in Nat /\ dayCount \in Nat /\ hourCount <= dayCount
    /\ blocked \in BOOLEAN /\ mayLook \in BOOLEAN
    /\ req \in [Procs -> [op : {"reveal_log"}] \cup {Idle}]

\* Requests that overlap take a buyer over a limit by as many as were on their
\* way together, and no further, whatever the order they are counted and logged
\* in: one at a time, he stays within it.
NumbersWithinLimit ==
    /\ hourCount < HourLimit + Cardinality(Procs)
    /\ dayCount < DayLimit + Cardinality(Procs)
=============================================================================
