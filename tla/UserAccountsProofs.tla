------------------------- MODULE UserAccountsProofs -------------------------
(***************************************************************************)
(* A server that runs knows every account it has confirmed, for any set of *)
(* addresses and however often writes fail and processes die.              *)
(***************************************************************************)
EXTENDS UserAccounts, TLAPS

\* What memory and a whole file say of confirmed accounts, whether or not a server
\* runs: the file must have them for the next one to know them.
Known == \A e \in Emails : confirmed[e] # Nobody => users[e] = confirmed[e]
Filed == ~broken => \A e \in Emails : confirmed[e] # Nobody => file[e] = confirmed[e]
FiledIsKnown ==
  up /\ ~broken => \A e \in Emails : file[e] # Nobody => file[e] = users[e]

AccountsInv == TypeOK /\ Known /\ Filed /\ FiledIsKnown /\ TokensOfUsers

-----------------------------------------------------------------------------
\* A new account is one that memory, confirmations and a whole file have nothing of.
LEMMA EnterAdds ==
  ASSUME AccountsInv, NEW e \in Emails, Enter(e)
  PROVE  /\ made' \in 1 .. MaxAccounts /\ made' # Nobody
         /\ users' \in Numbered /\ users'[e] = made'
         /\ \A x \in Emails : x # e => users'[x] = users[x]
         /\ users[e] = Nobody /\ confirmed[e] = Nobody
         /\ ~broken => file[e] = Nobody
  <1>1. made' \in 1 .. MaxAccounts /\ made' # Nobody
    BY AccountsAssumption DEF AccountsInv, TypeOK, Enter
  <1>2. users' = [users EXCEPT ![e] = made'] /\ users[e] = Nobody /\ up
    BY DEF Enter
  <1>3. users' \in Numbered /\ users'[e] = made'
    BY <1>1, <1>2 DEF AccountsInv, TypeOK, Numbered
  <1>4. \A x \in Emails : x # e => users'[x] = users[x]
    BY <1>2 DEF AccountsInv, TypeOK, Numbered
  <1>5. confirmed[e] = Nobody /\ (~broken => file[e] = Nobody)
    BY <1>2 DEF AccountsInv, Known, FiledIsKnown
  <1> QED BY <1>1, <1>2, <1>3, <1>4, <1>5

\* The accounts in memory keep their tokens when one is added.
LEMMA EnterKeepsAccounts ==
  ASSUME AccountsInv, NEW e \in Emails, Enter(e)
  PROVE  Accounts(users) \cup {made'} \subseteq Accounts(users)'
  <1>1. made' \in Accounts(users)'
    BY EnterAdds DEF Accounts
  <1>2. ASSUME NEW a \in Accounts(users) PROVE a \in Accounts(users)'
    <2>1. PICK x \in Emails : users[x] = a /\ a # Nobody  BY <1>2 DEF Accounts
    <2>2. x # e  BY <2>1, EnterAdds
    <2>3. users'[x] = a  BY <2>1, <2>2, EnterAdds
    <2> QED BY <2>1, <2>3 DEF Accounts
  <1> QED BY <1>1, <1>2

\* A registration that is confirmed.
LEMMA RegisterKeeps ==
  ASSUME AccountsInv, NEW e \in Emails, Register(e)
  PROVE  AccountsInv'
  <1>0. Enter(e)  BY DEF Register
  <1>1. /\ file' = users' /\ broken' = FALSE /\ up' = up
        /\ tokens' = tokens \cup {made'}
        /\ confirmed' = [confirmed EXCEPT ![e] = made']
    BY DEF Register, Saved
  <1>2. up /\ tokens \subseteq Accounts(users)
    BY <1>0 DEF Enter, AccountsInv, TokensOfUsers
  <1>3. confirmed' \in Numbered /\ confirmed'[e] = made'
    BY <1>0, <1>1, EnterAdds DEF AccountsInv, TypeOK, Numbered
  <1>4. \A x \in Emails : x # e => confirmed'[x] = confirmed[x]
    BY <1>1 DEF AccountsInv, TypeOK, Numbered
  <1>5. TypeOK'
    <2>1. made' \in 1 .. MaxAccounts  BY <1>0, EnterAdds
    <2>2. tokens \subseteq 1 .. MaxAccounts  BY DEF AccountsInv, TypeOK
    <2>3. tokens' \subseteq 1 .. MaxAccounts  BY <2>1, <2>2, <1>1
    <2>4. made' \in 0 .. MaxAccounts  BY <2>1
    <2> QED BY <2>3, <2>4, <1>0, <1>1, <1>2, <1>3, EnterAdds DEF AccountsInv, TypeOK
  <1>6. Known'
    BY <1>0, <1>3, <1>4, EnterAdds DEF AccountsInv, Known
  <1>7. Filed' /\ FiledIsKnown'
    BY <1>1, <1>6 DEF Known, Filed, FiledIsKnown
  <1>8. TokensOfUsers'
    BY <1>0, <1>1, <1>2, EnterKeepsAccounts DEF TokensOfUsers
  <1> QED BY <1>5, <1>6, <1>7, <1>8 DEF AccountsInv

\* One that is not: the write fails or the process dies.
LEMMA UnconfirmedKeeps ==
  ASSUME AccountsInv, NEW e \in Emails, RegisterFails(e) \/ DiesSaving(e)
  PROVE  AccountsInv'
  <1>0. Enter(e)  BY DEF RegisterFails, DiesSaving
  <1>1. confirmed' = confirmed /\ tokens' = tokens
    BY DEF RegisterFails, DiesSaving
  <1>2. \/ file' = file /\ (~broken' => ~broken)
        \/ file' = users' /\ broken' = FALSE
    BY DEF RegisterFails, DiesSaving, Saved, AccountsInv, TypeOK
  <1>3. up' \in BOOLEAN /\ broken' \in BOOLEAN /\ (up' => up /\ file' = file)
    <2>1. up \in BOOLEAN /\ broken \in BOOLEAN  BY DEF AccountsInv, TypeOK
    <2>2. CASE RegisterFails(e)  BY <2>1, <2>2, Zenon DEF RegisterFails, Enter
    <2>3. CASE DiesSaving(e)  BY <2>1, <2>3, Zenon DEF DiesSaving
    <2> QED BY <2>2, <2>3
  <1>4. TypeOK'
    <2>1. file' \in Numbered
      BY <1>0, <1>2, EnterAdds DEF AccountsInv, TypeOK
    <2> QED BY <2>1, <1>0, <1>1, <1>3, EnterAdds DEF AccountsInv, TypeOK
  <1>5. Known'
    BY <1>0, <1>1, EnterAdds DEF AccountsInv, Known
  <1>6. Filed'
    BY <1>1, <1>2, <1>5 DEF AccountsInv, Known, Filed
  <1>7. FiledIsKnown'
    <2> SUFFICES ASSUME up', ~broken', NEW x \in Emails, file'[x] # Nobody
                 PROVE  file'[x] = users'[x]
      BY DEF FiledIsKnown
    <2>1. CASE file' = users'  BY <2>1
    <2>2. CASE file' = file /\ ~broken
      <3>1. x # e  BY <2>2, <1>0, EnterAdds
      <3>2. file[x] = users[x]  BY <2>2, <1>3 DEF AccountsInv, FiledIsKnown
      <3> QED BY <2>2, <3>1, <3>2, <1>0, EnterAdds
    <2> QED BY <2>1, <2>2, <1>2
  <1>8. TokensOfUsers'
    BY <1>0, <1>1, <1>3, EnterKeepsAccounts DEF AccountsInv, TokensOfUsers
  <1> QED BY <1>4, <1>5, <1>6, <1>7, <1>8 DEF AccountsInv

\* Every step keeps the invariant.
LEMMA AccountsStep == AccountsInv /\ [Next]_vars => AccountsInv'
  <1> SUFFICES ASSUME AccountsInv, [Next]_vars PROVE AccountsInv'
    OBVIOUS
  <1>1. ASSUME NEW e \in Emails, Register(e) PROVE AccountsInv'
    BY <1>1, RegisterKeeps
  <1>2. ASSUME NEW e \in Emails, RegisterFails(e) \/ DiesSaving(e) PROVE AccountsInv'
    BY <1>2, UnconfirmedKeeps
  <1>3. ASSUME NEW e \in Emails, Login(e) PROVE AccountsInv'
    <2>1. users[e] \in Accounts(users)  BY <1>3 DEF Login, Accounts
    <2>2. users[e] \in 1 .. MaxAccounts
      BY <1>3 DEF Login, AccountsInv, TypeOK, Numbered
    <2>3. TokensOfUsers'
      BY <1>3, <2>1 DEF Login, AccountsInv, TokensOfUsers, Accounts
    <2>4. TypeOK'  BY <1>3, <2>2 DEF Login, AccountsInv, TypeOK
    <2> QED BY <1>3, <2>3, <2>4 DEF Login, AccountsInv, Known, Filed, FiledIsKnown
  <1>4. CASE Dies
    BY <1>4 DEF Dies, AccountsInv, TypeOK, Known, Filed, FiledIsKnown, TokensOfUsers
  <1>5. CASE Restart
    BY <1>5 DEF Restart, Fresh, AccountsInv, TypeOK, Known, Filed, FiledIsKnown,
         TokensOfUsers
  <1>6. CASE UNCHANGED vars
    BY <1>6 DEF vars, AccountsInv, TypeOK, Known, Filed, FiledIsKnown,
         TokensOfUsers, Accounts
  <1> QED BY <1>1, <1>2, <1>3, <1>4, <1>5, <1>6 DEF Next

LEMMA AccountsInit == Init => AccountsInv
  <1> SUFFICES ASSUME Init PROVE AccountsInv
    OBVIOUS
  <1>1. NoUsers \in Numbered  BY DEF NoUsers, Numbered
  <1>2. 0 \in 0 .. MaxAccounts /\ {} \subseteq 1 .. MaxAccounts
    BY AccountsAssumption
  <1>3. TypeOK  BY <1>1, <1>2, Zenon DEF Init, TypeOK
  <1> QED BY <1>3 DEF Init, NoUsers, AccountsInv, Known, Filed, FiledIsKnown, TokensOfUsers

LEMMA AccountsInvariant == Spec => []AccountsInv
  BY AccountsInit, AccountsStep, PTL DEF Spec

\* A server that runs knows every account it has confirmed (register, _save_users
\* and _load_users together).
THEOREM ConfirmedAreKnown == Spec => []ConfirmedIsKnown
  <1>1. AccountsInv => ConfirmedIsKnown
    BY DEF AccountsInv, Known, ConfirmedIsKnown
  <1> QED BY <1>1, AccountsInvariant, PTL

\* A whole file has every confirmed account, and nothing that memory has not.
THEOREM FileStaysCurrent == Spec => []FileIsCurrent
  <1>1. AccountsInv => FileIsCurrent
    <2> SUFFICES ASSUME AccountsInv, up, ~broken, NEW e \in Emails,
                        file[e] # confirmed[e]
                 PROVE  confirmed[e] = Nobody /\ file[e] = users[e]
      BY DEF FileIsCurrent
    <2>1. confirmed[e] = Nobody  BY DEF AccountsInv, Filed
    <2>2. file[e] = users[e]  BY <2>1 DEF AccountsInv, FiledIsKnown
    <2> QED BY <2>1, <2>2
  <1> QED BY <1>1, AccountsInvariant, PTL
=============================================================================
