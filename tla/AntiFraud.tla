----------------------------- MODULE AntiFraud -----------------------------
(***************************************************************************)
(* Duplicate pictures: every photo of an ad is hashed by a Celery task     *)
(* (apps/classifieds/tasks.py) that marks its owner as suspicious when     *)
(* another owner already has a photo with the same hash.                   *)
(*                                                                         *)
(* The task reads the photo, saves the hash in a transaction and then      *)
(* looks for the others.  A task whose worker dies is not run again, and   *)
(* one that the broker does not take is given up                           *)
(* (_schedule_compute_ad_photo_hash).                                      *)
(***************************************************************************)
EXTENDS Workers

CONSTANTS Photos,     \* primary keys of AdPhoto rows, in the order they are made
          Sellers,
          Pictures,   \* values of the hash
          Unreadable  \* a file that is not a picture

ASSUME AntiFraudAssumption == Photos \subseteq Nat /\ Unreadable \notin Pictures

VARIABLES photo,      \* the AdPhoto rows and whether each has an ImageHash row
          hashQueue,  \* photos whose task is on its way
          suspicious  \* users with is_suspicious

fraudVars == <<photo, hashQueue, suspicious>>

NoPhoto == [state |-> "none"]
DeletedPhoto == [state |-> "deleted"]
PhotoRow ==
    [state : {"stored", "hashed"}, owner : Sellers, picture : Pictures \cup {Unreadable}]
      \cup {NoPhoto, DeletedPhoto}

Stored(i) == photo[i].state \in {"stored", "hashed"}
Readable(i) == Stored(i) /\ photo[i].picture # Unreadable
Hashed == {i \in Photos : photo[i].state = "hashed"}

FraudRequest == [op : {"hash_save", "hash_check"}, photo : Photos, owner : Sellers, picture : Pictures]

AntiFraudInit ==
    /\ photo = [i \in Photos |-> NoPhoto]
    /\ hashQueue = {}
    /\ suspicious = {}

-----------------------------------------------------------------------------
\* MyAdCreateView, MyAdUpdateView: the task is queued after the commit.
PhotoPosted(u, picture) ==
    /\ \E i \in Photos :
          /\ photo[i] = NoPhoto
          /\ \A j \in Photos : j < i => photo[j] # NoPhoto
          /\ photo' = [photo EXCEPT ![i] = [state |-> "stored", owner |-> u, picture |-> picture]]
          /\ hashQueue' \in {hashQueue, hashQueue \cup {i}}
    /\ UNCHANGED <<suspicious, workerVars>>

\* ad_photo_delete; the hash goes with the photo.
PhotoDeleted(i) ==
    /\ Stored(i)
    /\ photo' = [photo EXCEPT ![i] = DeletedPhoto]
    /\ UNCHANGED <<hashQueue, suspicious, workerVars>>

-----------------------------------------------------------------------------
\* compute_ad_photo_hash.
HashRead(p, i) ==
    /\ i \in hashQueue
    /\ hashQueue' = hashQueue \ {i}
    /\ \/ /\ Readable(i)
          /\ Begin(p, [op |-> "hash_save", photo |-> i, owner |-> photo[i].owner,
                       picture |-> photo[i].picture])
       \/ /\ ~Readable(i)
          /\ req[p] = Idle
          /\ UNCHANGED workerVars
    /\ UNCHANGED <<photo, suspicious>>

HashSave(p) ==
    LET i == req[p].photo
    IN  /\ At(p, "hash_save")
        /\ \/ /\ Stored(i)
              /\ photo' = [photo EXCEPT ![i].state = "hashed"]
              /\ Goto(p, "hash_check")
           \/ /\ ~Stored(i)   \* the foreign key is refused, the task ends
              /\ End(p)
              /\ UNCHANGED photo
        /\ UNCHANGED <<hashQueue, suspicious>>

\* Photos of others with the same hash.
\* Mutant: only the ones posted before.
EarlierDuplicates(r) ==
    {j \in Hashed : j < r.photo /\ photo[j].picture = r.picture /\ photo[j].owner # r.owner}
Duplicates(r) ==
    {j \in Hashed : j # r.photo /\ photo[j].picture = r.picture /\ photo[j].owner # r.owner}

HashCheck(p) ==
    /\ At(p, "hash_check")
    /\ suspicious' = IF Duplicates(req[p]) = {} THEN suspicious ELSE suspicious \cup {req[p].owner}
    /\ End(p)
    /\ UNCHANGED <<photo, hashQueue>>

-----------------------------------------------------------------------------
AntiFraudStep(p) == HashSave(p) \/ HashCheck(p) \/ \E i \in Photos : HashRead(p, i)

AntiFraudCrash(p) == Crash(p) /\ UNCHANGED fraudVars

AntiFraudNext ==
    \/ \E u \in Sellers, picture \in Pictures \cup {Unreadable} : PhotoPosted(u, picture)
    \/ \E i \in Photos : PhotoDeleted(i)
    \/ \E p \in Procs : AntiFraudStep(p) \/ AntiFraudCrash(p)

AntiFraudSpec ==
    WorkersInit /\ AntiFraudInit /\ [][AntiFraudNext]_<<workerVars, fraudVars>>

-----------------------------------------------------------------------------
AntiFraudTypeOK ==
    /\ photo \in [Photos -> PhotoRow]
    /\ hashQueue \subseteq Photos
    /\ suspicious \subseteq Sellers
    /\ req \in [Procs -> FraudRequest \cup {Idle}]

\* In whatever order the tasks of two photos run, and however they overlap: of
\* two users who both have the same hashed picture at least one is marked,
\* unless a worker died.
DuplicateIsFlagged ==
    AllIdle /\ crashes = 0 =>
        \A i, j \in Hashed : photo[i].picture = photo[j].picture /\ photo[i].owner # photo[j].owner
            => {photo[i].owner, photo[j].owner} \cap suspicious # {}
=============================================================================
