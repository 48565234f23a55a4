------------------------------- MODULE SignIn -------------------------------
(***************************************************************************)
(* Who an account belongs to: its e-mail address, the link that confirms   *)
(* it (apps/users/views.py, email_verification.py, cabinet_forms.py), and  *)
(* the VK identities that enter it (vkid.py, allauth_adapters.py).         *)
(*                                                                         *)
(* A registration form keeps an address in lower case, the profile form as *)
(* it is typed: an address is a mailbox and whether it is in lower case.   *)
(* Forms look a mailbox up whatever the case; the unique column compares   *)
(* addresses exactly.                                                      *)
(***************************************************************************)
EXTENDS Workers, FiniteSets, Sequences

CONSTANTS Members,     \* primary keys of User rows
          NoMember,
          Mailboxes,
          NoAddress,   \* a null e-mail
          VkIds,       \* uids of VK profiles
          MaxLetters   \* bound on the confirmation letters that are sent

ASSUME SignInAssumption == NoMember \notin Members /\ MaxLetters \in Nat

VARIABLES member,    \* the User rows: address, email_verified, the token of the link (0: none)
          letter,    \* the confirmation letters: whose, to what address
          linked,    \* the SocialAccount rows: the account of each VK identity
          confirmed, \* the addresses of each member that a link or VK has vouched for
          entered    \* the accounts each VK identity was let into

signInVars == <<member, letter, linked, confirmed, entered>>

Addresses == [box : Mailboxes, lower : BOOLEAN]
Lower == {a \in Addresses : a.lower}
Absent == [address |-> NoAddress, verified |-> FALSE, link |-> 0, here |-> FALSE]
Member == [address : Addresses \cup {NoAddress}, verified : BOOLEAN, link : 0..MaxLetters, here : {TRUE}]

SignInRequest ==
    [op : {"register_save"}, of : Members, address : Lower \cup {NoAddress}]
      \cup [op : {"resend_save"}, of : Members, address : Addresses]
      \cup [op : {"link_save"}, of : Members, address : Addresses]
      \cup [op : {"profile_save"}, of : Members, row : Member]
      \cup [op : {"vk_link", "vk_connect"}, of : Members, vk : VkIds]
      \cup [op : {"vk_create"}, of : Members, vk : VkIds, address : Lower]

SignInInit ==
    /\ member = [m \in Members |-> Absent]
    /\ letter = <<>>
    /\ linked = [v \in VkIds |-> NoMember]
    /\ confirmed = [m \in Members |-> {}]
    /\ entered = [v \in VkIds |-> {}]

-----------------------------------------------------------------------------
\* clean_email: the accounts, but for `m`, that hold the mailbox, in any case.
\* Mutant: the address as it stands.
OthersWithExactly(m, a) == {n \in Members \ {m} : member[n].address = a}
OthersWith(m, a) ==
    {n \in Members \ {m} : a # NoAddress /\ member[n].address # NoAddress /\ member[n].address.box = a.box}

\* The unique column.
Taken(m, a) == a # NoAddress /\ \E n \in Members \ {m} : member[n].address = a

SendLetter(m, a) == letter' = Append(letter, [to |-> m, address |-> a])
NextLetter == Len(letter) + 1

\* register_start, sto_register: without an address there is nothing to verify.
RegisterRead(p) ==
    \E m \in Members, a \in Lower \cup {NoAddress} :
        /\ ~member[m].here
        /\ OthersWith(m, a) = {}
        /\ Begin(p, [op |-> "register_save", of |-> m, address |-> a])
        /\ UNCHANGED signInVars

\* A taken key or address undoes the transaction.
\* Bound: so does a letter too many.
RegisterSave(p) ==
    LET m == req[p].of
        a == req[p].address
        wanted == a # NoAddress
    IN  /\ At(p, "register_save")
        /\ End(p)
        /\ IF member[m].here \/ Taken(m, a) \/ (wanted /\ NextLetter > MaxLetters)
           THEN UNCHANGED <<member, letter>>
           ELSE /\ member' = [member EXCEPT ![m] =
                       [address |-> a, verified |-> ~wanted, here |-> TRUE,
                        link |-> IF wanted THEN NextLetter ELSE 0]]
                /\ IF wanted THEN SendLetter(m, a) ELSE UNCHANGED letter
        /\ UNCHANGED <<linked, confirmed, entered>>

-----------------------------------------------------------------------------
\* resend_verification_email.  Mutant: for whoever asks.
ResendReadOfAll(p) ==
    \E m \in Members :
        /\ member[m].here
        /\ Begin(p, [op |-> "resend_save", of |-> m, address |-> member[m].address])
        /\ UNCHANGED signInVars
ResendRead(p) ==
    \E m \in Members :
        /\ member[m].address # NoAddress /\ ~member[m].verified
        /\ Begin(p, [op |-> "resend_save", of |-> m, address |-> member[m].address])
        /\ UNCHANGED signInVars

ResendSave(p) ==
    /\ At(p, "resend_save")
    /\ NextLetter <= MaxLetters
    /\ member' = [member EXCEPT ![req[p].of].link = NextLetter]
    /\ SendLetter(req[p].of, req[p].address)
    /\ End(p)
    /\ UNCHANGED <<linked, confirmed, entered>>

\* Bound: no letter is left.
ResendRefused(p) ==
    /\ At(p, "resend_save") /\ NextLetter > MaxLetters
    /\ End(p)
    /\ UNCHANGED signInVars

\* verify_email, by the link of a letter.  Mutant: by any letter to the member.
OpensByAny(i) == ~member[letter[i].to].verified
Opens(i) == member[letter[i].to].link = i /\ member[letter[i].to].address # NoAddress

FollowRead(p) ==
    \E i \in 1..Len(letter) :
        /\ Opens(i)
        /\ Begin(p, [op |-> "link_save", of |-> letter[i].to, address |-> letter[i].address])
        /\ UNCHANGED signInVars

FollowSave(p) ==
    /\ At(p, "link_save")
    /\ member' = [member EXCEPT ![req[p].of].verified = TRUE, ![req[p].of].link = 0]
    /\ confirmed' = [confirmed EXCEPT ![req[p].of] = @ \cup {req[p].address}]
    /\ End(p)
    /\ UNCHANGED <<letter, linked, entered>>

\* ClientProfileView saves the whole row with the address that is posted.
AddressRead(p) ==
    \E m \in Members, a \in Addresses \cup {NoAddress} :
        /\ member[m].here
        /\ OthersWith(m, a) = {}
        /\ Begin(p, [op |-> "profile_save", of |-> m, row |-> [member[m] EXCEPT !.address = a]])
        /\ UNCHANGED signInVars

AddressSave(p) ==
    /\ At(p, "profile_save")
    /\ member' = IF Taken(req[p].of, req[p].row.address) THEN member
                 ELSE [member EXCEPT ![req[p].of] = req[p].row]
    /\ End(p)
    /\ UNCHANGED <<letter, linked, confirmed, entered>>

-----------------------------------------------------------------------------
\* A VK profile shows an address, in lower case.
\* complete_vkid_session, pre_social_login: the identity is known.
EnterLinked(p) ==
    /\ req[p] = Idle
    /\ \E v \in VkIds :
          /\ linked[v] # NoMember
          /\ entered' = [entered EXCEPT ![v] = @ \cup {linked[v]}]
    /\ UNCHANGED <<member, letter, linked, confirmed, workerVars>>

\* The account that holds the mailbox is the one to link: by create() when one
\* logs in with VK ID, by connect() when one signs up or comes by OAuth.
EnterByAddress(p) ==
    \E v \in VkIds, a \in Lower, m \in Members, by \in {"vk_link", "vk_connect"} :
        /\ linked[v] = NoMember
        /\ m \in OthersWith(NoMember, a)
        /\ Begin(p, [op |-> by, of |-> m, vk |-> v])
        /\ UNCHANGED signInVars

\* Who is let in when the identity has been linked meanwhile.
\* Mutant: the account that was found.
LetInFound(v, m) == {m}
LetIn(v, m) == {m} \cap {linked[v]}

VkLink(p) ==
    LET v == req[p].vk
        m == req[p].of
    IN  /\ At(p, "vk_link") \/ At(p, "vk_connect")
        /\ linked' = IF linked[v] = NoMember THEN [linked EXCEPT ![v] = m] ELSE linked
        /\ entered' = [entered EXCEPT ![v] = @ \cup
               (IF linked[v] = NoMember THEN {m} ELSE IF At(p, "vk_link") THEN LetIn(v, m) ELSE {})]
        /\ End(p)
        /\ UNCHANGED <<member, letter, confirmed>>

\* save_user: no account holds the mailbox.
VkSignUpRead(p) ==
    \E v \in VkIds, a \in Lower, m \in Members :
        /\ linked[v] = NoMember
        /\ ~member[m].here
        /\ OthersWith(NoMember, a) = {}
        /\ Begin(p, [op |-> "vk_create", of |-> m, vk |-> v, address |-> a])
        /\ UNCHANGED signInVars

\* The account and the link are one transaction, which a taken address, key or
\* identity undoes.
VkCreate(p) ==
    LET v == req[p].vk
        m == req[p].of
        a == req[p].address
        free == ~member[m].here /\ ~Taken(m, a) /\ linked[v] = NoMember
    IN  /\ At(p, "vk_create")
        /\ End(p)
        /\ IF free
           THEN /\ member' = [member EXCEPT ![m] =
                       [address |-> a, verified |-> TRUE, link |-> 0, here |-> TRUE]]
                /\ linked' = [linked EXCEPT ![v] = m]
                /\ confirmed' = [confirmed EXCEPT ![m] = @ \cup {a}]
                /\ entered' = [entered EXCEPT ![v] = @ \cup {m}]
           ELSE UNCHANGED <<member, linked, confirmed, entered>>
        /\ UNCHANGED letter

-----------------------------------------------------------------------------
SignInStep(p) ==
    \/ RegisterRead(p) \/ RegisterSave(p)
    \/ ResendRead(p) \/ ResendSave(p) \/ ResendRefused(p) \/ FollowRead(p) \/ FollowSave(p)
    \/ AddressRead(p) \/ AddressSave(p)
    \/ EnterLinked(p) \/ EnterByAddress(p) \/ VkLink(p) \/ VkSignUpRead(p) \/ VkCreate(p)

SignInCrash(p) == Crash(p) /\ UNCHANGED signInVars

SignInNext == \E p \in Procs : SignInStep(p) \/ SignInCrash(p)

SignInSpec == WorkersInit /\ SignInInit /\ [][SignInNext]_<<workerVars, signInVars>>

-----------------------------------------------------------------------------
SignInTypeOK ==
    /\ member \in [Members -> Member \cup {Absent}]
    /\ letter \in Seq([to : Members, address : Addresses])
    /\ linked \in [VkIds -> Members \cup {NoMember}]
    /\ confirmed \in [Members -> SUBSET Addresses]
    /\ entered \in [VkIds -> SUBSET Members]
    /\ req \in [Procs -> SignInRequest \cup {Idle}]

\* However the sign-ins of one VK identity overlap, and whatever happens to the
\* addresses of the accounts meanwhile, it enters one account only.
VkEntersOneAccount == \A v \in VkIds : Cardinality(entered[v]) <= 1

\* One at a time, no two accounts hold the same mailbox in any spelling: the look
\* ups by address, which take the first account they find, find the only one.
MailboxesDiffer ==
    AllIdle => \A m, n \in Members :
        m # n /\ NoAddress \notin {member[m].address, member[n].address} =>
            member[m].address.box # member[n].address.box

\* One at a time, a letter that was followed by another one to the same account
\* confirms nothing any more.
OnlyTheLastLetterConfirms ==
    AllIdle => \A i \in 1..Len(letter) :
        Opens(i) => \A j \in i + 1..Len(letter) : letter[j].to # letter[i].to

\* What the column email_verified stands for: an account whose address counts as
\* verified has confirmed that address, by its link or through VK.
VerifiedIsConfirmed ==
    \A m \in Members :
        member[m].here /\ member[m].verified /\ member[m].address # NoAddress =>
            \E a \in confirmed[m] : a.box = member[m].address.box
=============================================================================
