---------------------- MODULE AccountGeneratorProofs ----------------------
(***************************************************************************)
(* Proof that accounts.json, whenever it exists, is the complete list of   *)
(* one run's funded accounts, for every NUMBER_OF_ACCOUNTS and MaxRuns.    *)
(*                                                                         *)
(* AccountsFileComplete is not inductive alone: WriteAccounts copies the   *)
(* in-memory list, so the invariant must also say what that list is while  *)
(* the loop runs (LoopInv): its k-th entry is the account the current run  *)
(* created at index k - 1, funded, and it has one entry per index so far.  *)
(***************************************************************************)
EXTENDS AccountGenerator, TLAPS

LoopInv ==
  pc = "loop" =>
    /\ run \in 1..MaxRuns
    /\ Len(accounts) = index
    /\ \A k \in 1..Len(accounts) : accounts[k] = <<run, k - 1>> /\ accounts[k] \in funded

IInv == AccountTypeOK /\ AccountsFileComplete /\ LoopInv

-----------------------------------------------------------------------------
THEOREM AccountInitIInv == Init => IInv
<1>. SUFFICES ASSUME Init PROVE IInv
  OBVIOUS
<1>1. AccountTypeOK
  BY AccountAssumption DEF Init, AccountTypeOK, Account
<1>2. AccountsFileComplete
  BY DEF Init, AccountsFileComplete
<1>3. LoopInv
  BY DEF Init, LoopInv
<1>. QED  BY <1>1, <1>2, <1>3 DEF IInv

THEOREM AccountNextIInv == IInv /\ [Next]_vars => IInv'
<1>. SUFFICES ASSUME IInv, [Next]_vars PROVE IInv'
  OBVIOUS
<1>. USE AccountAssumption
<1>1. CASE StartRun
  <2>1. AccountTypeOK'
    BY <1>1 DEF IInv, StartRun, AccountTypeOK
  <2>2. AccountsFileComplete'
    BY <1>1 DEF IInv, StartRun, AccountsFileComplete
  <2>3. LoopInv'
    BY <1>1 DEF IInv, StartRun, AccountTypeOK, LoopInv
  <2>. QED  BY <2>1, <2>2, <2>3 DEF IInv
<1>2. CASE DepositSucceeded
  <2>. DEFINE a == <<run, index>>
  <2>1. /\ pc = "loop" /\ index < NUMBER_OF_ACCOUNTS
        /\ funded' = funded \cup {a} /\ accounts' = Append(accounts, a)
        /\ index' = index + 1 /\ UNCHANGED <<run, pc, accounts_file>>
    BY <1>2 DEF DepositSucceeded
  <2>2. /\ run \in 1..MaxRuns
        /\ Len(accounts) = index
        /\ \A k \in 1..Len(accounts) : accounts[k] = <<run, k - 1>> /\ accounts[k] \in funded
    BY <2>1 DEF IInv, LoopInv
  <2>3. a \in Account
    BY <2>1, <2>2 DEF IInv, AccountTypeOK, Account
  <2>4. /\ Len(accounts') = index + 1
        /\ \A k \in 1..index : accounts'[k] = accounts[k]
        /\ accounts'[index + 1] = a
        /\ accounts' \in Seq(Account)
    BY <2>1, <2>2, <2>3 DEF IInv, AccountTypeOK
  <2>5. AccountTypeOK'
    <3>1. funded' \subseteq Account
      BY <2>1, <2>3 DEF IInv, AccountTypeOK
    <3>2. index' \in 0..NUMBER_OF_ACCOUNTS
      BY <2>1 DEF IInv, AccountTypeOK
    <3>3. /\ run' \in 0..MaxRuns /\ pc' \in {"idle", "loop"}
          /\ accounts_file' \in Seq(Account)
      BY <2>1 DEF IInv, AccountTypeOK
    <3>. QED  BY <2>4, <3>1, <3>2, <3>3 DEF AccountTypeOK
  <2>6. AccountsFileComplete'
    <3>1. accounts_file' = accounts_file /\ funded \subseteq funded'
      BY <2>1
    <3>. QED  BY <3>1 DEF IInv, AccountsFileComplete
  <2>7. LoopInv'
    <3>1. \A k \in 1..Len(accounts') : accounts'[k] = <<run', k - 1>> /\ accounts'[k] \in funded'
      BY <2>1, <2>2, <2>4
    <3>. QED  BY <2>1, <2>2, <2>4, <3>1 DEF LoopInv
  <2>. QED  BY <2>5, <2>6, <2>7 DEF IInv
<1>3. CASE DepositFailed
  BY <1>3 DEF IInv, DepositFailed, AccountTypeOK, AccountsFileComplete, LoopInv
<1>4. CASE WriteAccounts
  <2>1. /\ pc = "loop" /\ index = NUMBER_OF_ACCOUNTS
        /\ accounts_file' = accounts /\ pc' = "idle"
        /\ UNCHANGED <<run, index, accounts, funded>>
    BY <1>4 DEF WriteAccounts
  <2>2. /\ run \in 1..MaxRuns
        /\ Len(accounts) = NUMBER_OF_ACCOUNTS
        /\ \A k \in 1..Len(accounts) : accounts[k] = <<run, k - 1>> /\ accounts[k] \in funded
    BY <2>1 DEF IInv, LoopInv
  <2>3. AccountTypeOK'
    BY <2>1 DEF IInv, AccountTypeOK
  <2>4. \A j, k \in 1..Len(accounts) : accounts[j] = accounts[k] => j = k
    BY <2>2
  <2>5. \A k \in 1..Len(accounts) : accounts[k][1] = accounts[1][1]
    BY <2>2
  <2>6. AccountsFileComplete'
    BY <2>1, <2>2, <2>4, <2>5 DEF AccountsFileComplete
  <2>7. LoopInv'
    BY <2>1 DEF LoopInv
  <2>. QED  BY <2>3, <2>6, <2>7 DEF IInv
<1>5. CASE UNCHANGED vars
  BY <1>5 DEF IInv, vars, AccountTypeOK, AccountsFileComplete, LoopInv
<1>. QED  BY <1>1, <1>2, <1>3, <1>4, <1>5 DEF Next

(***************************************************************************)
(* accounts.json, whenever the script has written it, lists exactly        *)
(* NUMBER_OF_ACCOUNTS distinct accounts of one run, all funded on chain:   *)
(* the file is all or nothing, for every number of accounts and runs.      *)
(***************************************************************************)
THEOREM AccountsFileCompleteThm == Spec => [](AccountTypeOK /\ AccountsFileComplete)
<1>1. IInv => AccountTypeOK /\ AccountsFileComplete
  BY DEF IInv
<1>. QED  BY AccountInitIInv, AccountNextIInv, <1>1, PTL DEF Spec

(***************************************************************************)
(* The generator's state is always well formed: the loop index stays       *)
(* within 0..NUMBER_OF_ACCOUNTS (the range of line 13), and the in-memory   *)
(* list, the file and the funded set hold accounts of the runs so far.     *)
(***************************************************************************)
THEOREM AccountTypeCorrect == Spec => []AccountTypeOK
BY AccountsFileCompleteThm, PTL

=============================================================================
