------------------------------ MODULE RoadHelp ------------------------------
(***************************************************************************)
(* The two boards of drivers in trouble: calls for help on the road, which *)
(* anybody else answers (apps/driver_help), and problems with a car, which *)
(* a master takes (apps/driver_problems).  Who answers is told the         *)
(* telephone of the author.                                                *)
(*                                                                         *)
(* No handler locks a row: each is split at what it loads and saves.  The  *)
(* texts, and the events that take a card off the open pages, are left     *)
(* out.                                                                    *)
(***************************************************************************)
EXTENDS Workers, FiniteSets

CONSTANTS RoadPosts, \* primary keys of DriverHelpRequest and DriverProblemPost rows, in order
          Drivers,   \* accounts
          Masters,   \* those of masters and services
          NoDriver,
          MostHelp   \* calls for help a driver may keep open

ASSUME RoadHelpAssumption ==
    RoadPosts \subseteq Nat /\ Masters \subseteq Drivers /\ NoDriver \notin Drivers
      /\ MostHelp \in Nat \ {0}

VARIABLES roadPost, \* the rows
          told      \* who was told the telephone of the author of which row

roadVars == <<roadPost, told>>

Boards == {"help", "problem"}
NoRoadPost == [board |-> "none"]
RoadPost == [board : Boards, author : Drivers, open : BOOLEAN, by : Drivers \cup {NoDriver}]

RoadRequest ==
    [op : {"road_save"}, board : Boards, author : Drivers]
      \cup [op : {"road_answer", "road_tell"}, of : RoadPosts, by : Drivers]

RoadHelpInit ==
    /\ roadPost = [t \in RoadPosts |-> NoRoadPost]
    /\ told = {}

Posted == {t \in RoadPosts : roadPost[t] # NoRoadPost}
OpenPosts(board) == {t \in Posted : roadPost[t].board = board /\ roadPost[t].open}
OpenOf(board, a) == {t \in OpenPosts(board) : roadPost[t].author = a}

-----------------------------------------------------------------------------
\* create_help_request counts, create_problem looks for one; then the row is saved.
\* Mutant: one call for help too many.
MayAskLoosely(board, a) ==
    IF board = "help" THEN Cardinality(OpenOf(board, a)) <= MostHelp ELSE OpenOf(board, a) = {}
MayAsk(board, a) ==
    IF board = "help" THEN Cardinality(OpenOf(board, a)) < MostHelp ELSE OpenOf(board, a) = {}

PostRead(p, board, a) ==
    /\ MayAsk(board, a)
    /\ Begin(p, [op |-> "road_save", board |-> board, author |-> a])
    /\ UNCHANGED roadVars

RoadPostSave(p) ==
    /\ At(p, "road_save")
    /\ \E t \in RoadPosts \ Posted :
          /\ \A o \in RoadPosts \ Posted : t <= o
          /\ roadPost' = [roadPost EXCEPT ![t] =
                 [board |-> req[p].board, author |-> req[p].author, open |-> TRUE, by |-> NoDriver]]
    /\ End(p)
    /\ UNCHANGED told

\* Bound: no key is left for what the handler saves.
RoadStops(p) == At(p, "road_save") /\ Posted = RoadPosts /\ End(p) /\ UNCHANGED roadVars

\* help_resolve, problem_claim: an open row is loaded, and who may answer is tested.
\* Mutant: whoever sees the board takes a problem.
MayAnswerAnyProblem(u, row) == row.board = "help" => u # row.author
MayAnswer(u, row) == IF row.board = "help" THEN u # row.author ELSE u \in Masters

AnswerRead(p, t, u) ==
    /\ t \in Posted /\ roadPost[t].open
    /\ MayAnswer(u, roadPost[t])
    /\ Begin(p, [op |-> "road_answer", of |-> t, by |-> u])
    /\ UNCHANGED roadVars

\* resolve_help_request, claim_problem: the status is tested on what was loaded.
AnswerSave(p) ==
    /\ At(p, "road_answer")
    /\ roadPost' = [roadPost EXCEPT ![req[p].of].open = FALSE, ![req[p].of].by = req[p].by]
    /\ Goto(p, "road_tell")
    /\ UNCHANGED told

\* The events go out, then the page with the telephone.
AnswerTold(p) ==
    /\ At(p, "road_tell")
    /\ told' = told \cup {[of |-> req[p].of, to |-> req[p].by]}
    /\ End(p)
    /\ UNCHANGED roadPost

-----------------------------------------------------------------------------
RoadHelpStep(p) ==
    \/ RoadPostSave(p) \/ RoadStops(p) \/ AnswerSave(p) \/ AnswerTold(p)
    \/ \E board \in Boards, a \in Drivers : PostRead(p, board, a)
    \/ \E t \in RoadPosts, u \in Drivers : AnswerRead(p, t, u)

RoadHelpCrash(p) == Crash(p) /\ UNCHANGED roadVars

RoadHelpNext == \E p \in Procs : RoadHelpStep(p) \/ RoadHelpCrash(p)

RoadHelpSpec == WorkersInit /\ RoadHelpInit /\ [][RoadHelpNext]_<<workerVars, roadVars>>

-----------------------------------------------------------------------------
\* help_feed, problems_board.  Bound: no more rows are open than a page shows.
BoardPage(board) == OpenPosts(board)

RoadHelpTypeOK ==
    /\ roadPost \in [RoadPosts -> RoadPost \cup {NoRoadPost}]
    /\ told \subseteq [of : RoadPosts, to : Drivers]
    /\ req \in [Procs -> RoadRequest \cup {Idle}]

\* However handlers overlap, a telephone is told of a row that has been answered and
\* has left the board, and only to one who may: to somebody else, to a master.
NumberGoesToHelper ==
    \A x \in told :
        /\ x.of \in Posted
        /\ x.of \notin BoardPage(roadPost[x.of].board)
        /\ IF roadPost[x.of].board = "help" THEN x.to # roadPost[x.of].author ELSE x.to \in Masters

\* One at a time, no driver has more open than the boards allow him.
OpenWithinLimit ==
    AllIdle => \A a \in Drivers :
        Cardinality(OpenOf("help", a)) <= MostHelp /\ Cardinality(OpenOf("problem", a)) <= 1

\* One at a time, a row that has been answered stays with the one who did, and he
\* alone is told the telephone.
HelperStays ==
    [][/\ \A t \in Posted : ~roadPost[t].open => roadPost'[t] = roadPost[t]
       /\ \A x \in told' : roadPost'[x.of].by = x.to]_roadVars

\* Refuted by TLC (see README): a problem is taken once, and the second master is
\* told so.
TakenOnce == \A x, y \in told : x.of = y.of => x = y
=============================================================================
