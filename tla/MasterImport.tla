---------------------------- MODULE MasterImport ----------------------------
(***************************************************************************)
(* The command that takes a list of masters, services and shops over into  *)
(* the site (stations/management/commands/import_masters_batch.py): it     *)
(* makes or, when told to, updates an account and its card for each entry, *)
(* one transaction for an entry, and writes the passwords down when it has *)
(* come to the end of the list.                                            *)
(*                                                                         *)
(* Nothing keeps two runs apart, nor those who register meanwhile.  Names, *)
(* texts and addresses of a card are left out, and what its owner does to  *)
(* it afterwards.  Entries have one speciality, and keep their name from   *)
(* one run to another.                                                     *)
(***************************************************************************)
EXTENDS Workers, Sequences, FiniteSets

CONSTANTS Phones, NoPhone,
          ImportLists,  \* MASTER_ENTRIES, as it is edited from one run to another
          Services,     \* keys of ServiceCategory rows, in the order of their names
          MaxQuoted,    \* how many of them get a price
          Makes,        \* keys of CarBrand rows
          Registrations, \* the roles that users choose themselves
          MaxImports    \* bound on the runs

Roles == {"master", "autoservice", "autoshop"}
Seed == [phone : Phones \cup {NoPhone}, role : Roles, skip : BOOLEAN,
         mode : {"all", "all_except", "only"}, makes : SUBSET Makes]

ASSUME MasterImportAssumption ==
    /\ NoPhone \notin Phones /\ Services \subseteq Nat /\ MaxQuoted \in Nat \ {0} /\ MaxImports \in Nat
    /\ Registrations \subseteq Roles \cup {"driver"}
    /\ \A list \in ImportLists : list \in Seq(Seed)

VARIABLES user,     \* User rows by telephone
          workshop, \* and the first ServiceStation of each
          store,    \* those with an AutoShopProfile
          matching, \* the categories whose names match the speciality
          written,  \* telephones in the file of passwords
          changed,  \* those of them who have changed their password since
          imports   \* how many runs have begun

importVars == <<user, workshop, store, matching, written, changed, imports>>

\* _make_password: the entry's, or made of its name and telephone, so that every run
\* that meets the entry makes the same.
MadePassword == "seed"
Unknown == [role |-> "none", password |-> "none"]
UserRow == [role : Roles \cup Registrations, password : {"own", MadePassword}]
NoWorkshop == [made |-> FALSE]
Workshop == [made : {TRUE}, kind : {"sto", "private"}, listed : BOOLEAN, services : SUBSET Services,
             quoted : SUBSET Services, all : BOOLEAN, makes : SUBSET Makes]

Known(f) == user[f] # Unknown

ImportRun == [op : {"import_next", "import_save"}, list : ImportLists, at : Nat, update : BOOLEAN,
              lines : SUBSET Phones, found : BOOLEAN]

ImportInit ==
    /\ user = [f \in Phones |-> Unknown]
    /\ workshop = [f \in Phones |-> NoWorkshop]
    /\ store = {}
    /\ matching \in SUBSET Services
    /\ written = {} /\ changed = {}
    /\ imports = 0

-----------------------------------------------------------------------------
\* Meanwhile: a user registers, or changes the password; staff rename categories.
KindOfRole(role) == IF role = "autoservice" THEN "sto" ELSE "private"
SelfRegistered(p, f, role) ==
    /\ req[p] = Idle /\ ~Known(f)
    /\ user' = [user EXCEPT ![f] = [role |-> role, password |-> "own"]]
    /\ IF role \in {"master", "autoservice"}
       THEN workshop' = [workshop EXCEPT ![f] =
                [made |-> TRUE, kind |-> KindOfRole(role), listed |-> FALSE, services |-> {},
                 quoted |-> {}, all |-> FALSE, makes |-> {}]]
       ELSE UNCHANGED workshop
    /\ store' = IF role = "autoshop" THEN store \cup {f} ELSE store
    /\ UNCHANGED <<workerVars, matching, written, changed, imports>>

PasswordChanged(p, f) ==
    /\ req[p] = Idle /\ Known(f)
    /\ user' = [user EXCEPT ![f].password = "own"]
    /\ changed' = IF user[f].password = MadePassword THEN changed \cup {f} ELSE changed
    /\ UNCHANGED <<workerVars, workshop, store, matching, written, imports>>

ServicesRenamed(p) ==
    /\ req[p] = Idle
    /\ matching' \in SUBSET Services
    /\ UNCHANGED <<workerVars, user, workshop, store, written, changed, imports>>

-----------------------------------------------------------------------------
\* The command.

ImportBegun(p) ==
    /\ imports < MaxImports
    /\ \E list \in ImportLists, update \in BOOLEAN :
          Begin(p, [op |-> "import_next", list |-> list, at |-> 1, update |-> update,
                    lines |-> {}, found |-> FALSE])
    /\ imports' = imports + 1
    /\ UNCHANGED <<user, workshop, store, matching, written, changed>>

Entry(p) == req[p].list[req[p].at]
More(p) == req[p].at <= Len(req[p].list)
NextEntry(r) == [r EXCEPT !.op = "import_next", !.at = @ + 1]

\* Skipped are entries marked so, those without a telephone and, unless the run
\* updates, those of users who are known.
Skipped(p) == Entry(p).skip \/ Entry(p).phone \notin {f \in Phones : Known(f) => req[p].update}

\* Mutant: with a line in the file all the same.
EntrySkippedButWritten(p) ==
    /\ At(p, "import_next") /\ More(p) /\ Skipped(p)
    /\ Continue(p, NextEntry([req[p] EXCEPT !.lines = @ \cup ({Entry(p).phone} \ {NoPhone})]))
    /\ UNCHANGED importVars
EntrySkipped(p) ==
    /\ At(p, "import_next") /\ More(p) /\ Skipped(p)
    /\ Continue(p, NextEntry(req[p]))
    /\ UNCHANGED importVars

\* The transaction finds the user, or none.
EntryRead(p) ==
    /\ At(p, "import_next") /\ More(p) /\ ~Skipped(p)
    /\ Continue(p, [req[p] EXCEPT !.op = "import_save", !.found = Known(Entry(p).phone)])
    /\ UNCHANGED importVars

\* _find_categories, up to those that get a price; _apply_brands.
QuotedOf(services) == {s \in services : Cardinality({t \in services : t < s}) < MaxQuoted}
MakesOf(seed) ==
    CASE seed.mode = "all" -> {}
      [] seed.mode = "only" -> seed.makes
      [] seed.mode = "all_except" -> Makes \ seed.makes

\* The card of an entry.  What was quoted stays when the services change.
\* Mutant: a card that was there keeps its prices.
Renewed(card, seed) ==
    LET services == IF matching = {} THEN card.services ELSE matching
    IN  [made |-> TRUE, kind |-> KindOfRole(seed.role), listed |-> TRUE, services |-> services,
         quoted |-> card.quoted \cup QuotedOf(matching), all |-> seed.mode = "all", makes |-> MakesOf(seed)]
Bare == [services |-> {}, quoted |-> {}]
CardAsQuoted(card, seed) ==
    IF card = NoWorkshop THEN Renewed(Bare, seed) ELSE [Renewed(card, seed) EXCEPT !.quoted = card.quoted]
CardOf(card, seed) == Renewed(IF card = NoWorkshop THEN Bare ELSE card, seed)

\* Mutant: only a new user gets a card.
EntrySavedForNew(p) ==
    LET seed == Entry(p)
        f == seed.phone
    IN  /\ At(p, "import_save") /\ (Known(f) => req[p].found)
        /\ user' = [user EXCEPT ![f] = [role |-> seed.role, password |-> MadePassword]]
        /\ IF req[p].found THEN UNCHANGED <<workshop, store>>
           ELSE IF seed.role = "autoshop" THEN store' = store \cup {f} /\ UNCHANGED workshop
           ELSE workshop' = [workshop EXCEPT ![f] = CardOf(@, seed)] /\ UNCHANGED store
        /\ changed' = changed \ {f}
        /\ Continue(p, NextEntry([req[p] EXCEPT !.lines = @ \cup {f}]))
        /\ UNCHANGED <<matching, written, imports>>
EntrySaved(p) ==
    LET seed == Entry(p)
        f == seed.phone
    IN  /\ At(p, "import_save") /\ (Known(f) => req[p].found)
        /\ user' = [user EXCEPT ![f] = [role |-> seed.role, password |-> MadePassword]]
        /\ IF seed.role = "autoshop" THEN store' = store \cup {f} /\ UNCHANGED workshop
           ELSE workshop' = [workshop EXCEPT ![f] = CardOf(@, seed)] /\ UNCHANGED store
        /\ changed' = changed \ {f}
        /\ Continue(p, NextEntry([req[p] EXCEPT !.lines = @ \cup {f}]))
        /\ UNCHANGED <<matching, written, imports>>

\* Someone has registered with the telephone since: the run ends with an error.
EntryRefused(p) ==
    /\ At(p, "import_save") /\ Known(Entry(p).phone) /\ ~req[p].found
    /\ End(p)
    /\ UNCHANGED importVars

\* --save-credentials overwrites the file, unless there is nothing to write.
ImportEnded(p) ==
    /\ At(p, "import_next") /\ ~More(p)
    /\ written' = IF req[p].lines = {} THEN written ELSE req[p].lines
    /\ End(p)
    /\ UNCHANGED <<user, workshop, store, matching, changed, imports>>

ImportCrash(p) == Crash(p) /\ UNCHANGED importVars

-----------------------------------------------------------------------------
ImportNext ==
    \E p \in Procs :
        \/ \E f \in Phones : PasswordChanged(p, f) \/ \E role \in Registrations : SelfRegistered(p, f, role)
        \/ ServicesRenamed(p)
        \/ ImportBegun(p) \/ EntrySkipped(p) \/ EntryRead(p) \/ EntrySaved(p) \/ EntryRefused(p)
        \/ ImportEnded(p) \/ ImportCrash(p)

ImportSpec == WorkersInit /\ ImportInit /\ [][ImportNext]_<<workerVars, importVars>>

-----------------------------------------------------------------------------
MasterImportTypeOK ==
    /\ user \in [Phones -> UserRow \cup {Unknown}]
    /\ workshop \in [Phones -> Workshop \cup {NoWorkshop}]
    /\ store \subseteq Phones /\ matching \subseteq Services
    /\ written \subseteq Phones /\ changed \subseteq Phones
    /\ \A p \in Procs : req[p] = Idle \/ (req[p] \in ImportRun /\ req[p].at <= Len(req[p].list) + 1)

\* Whatever runs overlap or die, an account has the card that goes with its role, and
\* a card that offers services quotes a price for one of them.
CardGoesWithRole ==
    \A f \in Phones :
        /\ user[f].role = "autoshop" => f \in store
        /\ user[f].role \in {"master", "autoservice"} =>
              workshop[f] # NoWorkshop /\ workshop[f].kind = KindOfRole(user[f].role)
        /\ workshop[f] # NoWorkshop /\ workshop[f].services # {} =>
              workshop[f].services \cap workshop[f].quoted # {}

\* A password in the file opens its account until the user changes it: a user whom a
\* run has passed by is not in the file.
WrittenPasswordsOpen ==
    \A f \in written : Known(f) /\ (f \in changed \/ user[f].password = MadePassword)

\* Refuted by TLC (see README): whoever has got a password from a run finds it in
\* the file, or in the file to be, of some run.
EveryPasswordIsWritten ==
    \A f \in Phones :
        user[f].password = MadePassword => f \in written \cup UNION {req[p].lines : p \in {q \in Procs : req[q] # Idle}}
=============================================================================
