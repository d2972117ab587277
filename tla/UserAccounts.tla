---------------------------- MODULE UserAccounts ----------------------------
(***************************************************************************)
(* The accounts of sozia/server/api/auth_router.py: the dictionary _users, *)
(* the JSON file it is written to as a whole after every registration and  *)
(* read from when the server starts, and the tokens, which a restart       *)
(* forgets.  A request that is refused changes nothing and is left out.    *)
(*                                                                         *)
(* register and login never wait, so each is one step; but writing the     *)
(* file is not atomic outside the process: it truncates the file first, so *)
(* a write that fails or a process that dies in it may leave it broken,    *)
(* and a server that finds it so does not start.                           *)
(***************************************************************************)
EXTENDS Naturals

CONSTANTS
  Emails,       \* the addresses that register
  MaxAccounts,  \* bound: accounts made
  Nobody        \* no account

ASSUME AccountsAssumption == Nobody \notin Nat /\ MaxAccounts \in Nat

VARIABLES
  up,         \* the server runs
  users,      \* _users: the account of each address; accounts are numbered
  file,       \* what the file says of them ...
  broken,     \* ... unless it is broken
  tokens,     \* the accounts that _tokens has tokens of
  made,       \* accounts made so far
  confirmed   \* the accounts whose registration was answered with a token

vars == <<up, users, file, broken, tokens, made, confirmed>>

NoUsers == [e \in Emails |-> Nobody]
Accounts(us) == {us[e] : e \in Emails} \ {Nobody}

Init ==
  /\ up = TRUE
  /\ users = NoUsers /\ file = NoUsers /\ broken = FALSE
  /\ tokens = {}
  /\ made = 0 /\ confirmed = NoUsers

\* The address is not taken: a new account is put into _users ...
Enter(e) ==
  /\ up /\ users[e] = Nobody
  /\ made < MaxAccounts /\ made' = made + 1
  /\ users' = [users EXCEPT ![e] = made']

\* Definitions named Bug... are what a plausible mistake would make of the
\* definition after them, for the runs that show that a property notices it.
BugSavedBefore == users

\* ... and _save_users writes all of it ...
Saved == users'

\* ... whole, so that the client gets its token, ...
Register(e) ==
  /\ Enter(e)
  /\ file' = Saved /\ broken' = FALSE
  /\ tokens' = tokens \cup {made'}
  /\ confirmed' = [confirmed EXCEPT ![e] = made']
  /\ UNCHANGED up

\* ... or not, before or after it has truncated the file: register raises, and the
\* account stays in _users.
RegisterFails(e) ==
  /\ Enter(e)
  /\ broken' \in {broken, TRUE}
  /\ UNCHANGED <<up, file, tokens, confirmed>>

\* The process dies before, while or after it writes.
DiesSaving(e) ==
  /\ Enter(e)
  /\ \/ file' = file /\ broken' \in {broken, TRUE}
     \/ file' = Saved /\ broken' = FALSE
  /\ up' = FALSE
  /\ UNCHANGED <<tokens, confirmed>>

\* The address and its password are right: a token is issued.
Login(e) ==
  /\ up /\ users[e] # Nobody
  /\ tokens' = tokens \cup {users[e]}
  /\ UNCHANGED <<up, users, file, broken, made, confirmed>>

\* The process ends.
Dies ==
  /\ up
  /\ up' = FALSE
  /\ UNCHANGED <<users, file, broken, tokens, made, confirmed>>

\* What a process that is importing the module starts with.
BugForgets == up' = TRUE /\ users' = NoUsers /\ tokens' = {}

Fresh == up' = TRUE /\ users' = file /\ tokens' = {}

\* It starts with the users in the file, if that can be parsed.
Restart ==
  /\ ~up /\ ~broken
  /\ Fresh
  /\ UNCHANGED <<file, broken, made, confirmed>>

Next ==
  \/ \E e \in Emails :
       Register(e) \/ RegisterFails(e) \/ DiesSaving(e) \/ Login(e)
  \/ Dies \/ Restart

Spec == Init /\ [][Next]_vars

-----------------------------------------------------------------------------
\* Every variable has its type.
Numbered == [Emails -> (1 .. MaxAccounts) \cup {Nobody}]

TypeOK ==
  /\ up \in BOOLEAN /\ broken \in BOOLEAN
  /\ users \in Numbered /\ file \in Numbered /\ confirmed \in Numbered
  /\ tokens \subseteq 1 .. MaxAccounts /\ made \in 0 .. MaxAccounts

\* A server that runs knows every account it has confirmed, whatever writes failed
\* and however often it died and came back since: the address stays with the
\* account that got the token.  (One that finds its file broken does not run.)
ConfirmedIsKnown ==
  up => \A e \in Emails : confirmed[e] # Nobody => users[e] = confirmed[e]

\* What a whole file says is never older than the last confirmation, nor does it
\* say more than memory: a restart loses only accounts that were never confirmed.
FileIsCurrent ==
  up /\ ~broken =>
    \A e \in Emails :
      file[e] # confirmed[e] => confirmed[e] = Nobody /\ file[e] = users[e]

\* A token belongs to an account that exists: one that a restart has lost cannot
\* be named by a token from before.  Part of the invariant that the proofs use.
TokensOfUsers == up => tokens \subseteq Accounts(users)

-----------------------------------------------------------------------------
\* auth_router.py:3 says that users are persisted: with the file as it is, a
\* restart would find whoever was confirmed.
UsersArePersisted == broken => confirmed = NoUsers

\* auth_router.py:111 refuses an address as registered: it is one whose
\* registration has been answered with success.
RefusedIsRegistered ==
  up => \A e \in Emails : users[e] # Nobody => confirmed[e] = users[e]
=============================================================================
