------------------------------ MODULE Workers ------------------------------
(***************************************************************************)
(* The web and Celery workers that run the handlers of the platform.  A    *)
(* handler that takes no lock is split at its reads and saves: between two *)
(* of its steps its worker is "in the middle of a request", a record that  *)
(* names the next step and carries what the handler has loaded.            *)
(*                                                                         *)
(* The components that share this module share no other state.             *)
(***************************************************************************)
EXTENDS Naturals

CONSTANTS Procs,      \* workers
          MaxCrashes  \* bound on the workers that die

ASSUME MaxCrashesAssumption == MaxCrashes \in Nat

VARIABLES req,     \* the request each worker is in the middle of
          crashes  \* how many workers have died

workerVars == <<req, crashes>>

Idle == [op |-> "idle"]

WorkersInit ==
    /\ req = [p \in Procs |-> Idle]
    /\ crashes = 0

At(p, op) == req[p].op = op
InFlight(op) == {p \in Procs : At(p, op)}
AllIdle == \A p \in Procs : req[p] = Idle

Begin(p, r) == req[p] = Idle /\ req' = [req EXCEPT ![p] = r] /\ UNCHANGED crashes
Continue(p, r) == req' = [req EXCEPT ![p] = r] /\ UNCHANGED crashes
Goto(p, op) == Continue(p, [req[p] EXCEPT !.op = op])
End(p) == Continue(p, Idle)

\* A worker dies between two steps: what it has loaded is lost, what it has
\* saved stays.
Crash(p) ==
    /\ req[p] # Idle
    /\ crashes < MaxCrashes
    /\ crashes' = crashes + 1
    /\ req' = [req EXCEPT ![p] = Idle]
=============================================================================
