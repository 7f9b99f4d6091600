-------------------------- MODULE AccountGenerator --------------------------
(***************************************************************************)
(* src/prototype/client/account_generator.py, run again and again against  *)
(* the same out/ directory.  A run creates NUMBER_OF_ACCOUNTS key pairs one *)
(* at a time; each new account is funded on chain by a "wasp-cli chain     *)
(* deposit" subprocess and kept in memory if the command returns 0; on the *)
(* first non-zero return the script prints the error and calls exit().     *)
(* Only after the loop are the addresses and private keys written to       *)
(* out/accounts.json (overwriting the previous file).                      *)
(* An account is named by the run and the loop index that created it; the *)
(* chain is modelled by the set of accounts funded on it.                  *)
(***************************************************************************)
EXTENDS Naturals, Sequences

CONSTANTS
  NUMBER_OF_ACCOUNTS,
  MaxRuns             \* number of runs explored

ASSUME AccountAssumption ==
  /\ NUMBER_OF_ACCOUNTS \in Nat \ {0}
  /\ MaxRuns \in Nat \ {0}

VARIABLES
  run,
  pc,             \* "idle" between runs, "loop" in the account loop
  index,          \* the loop index
  accounts,       \* the in-memory list of funded accounts of this run
  funded,         \* accounts funded on chain, over all runs
  accounts_file   \* the records in out/accounts.json (<< >>: never written)

vars == <<run, pc, index, accounts, funded, accounts_file>>

-----------------------------------------------------------------------------
Init ==
  /\ run = 0
  /\ pc = "idle"
  /\ index = 0
  /\ accounts = << >>
  /\ funded = {}
  /\ accounts_file = << >>

\* The script starts: accounts = [].
StartRun ==
  /\ pc = "idle"
  /\ run < MaxRuns
  /\ run' = run + 1
  /\ pc' = "loop"
  /\ index' = 0
  /\ accounts' = << >>
  /\ UNCHANGED <<funded, accounts_file>>

\* Mutation variant: the loop runs one index too far.
DepositSucceeded_extra ==
  /\ pc = "loop"
  /\ index <= NUMBER_OF_ACCOUNTS
  /\ LET account == <<run, index>>
     IN /\ funded' = funded \cup {account}
        /\ accounts' = Append(accounts, account)
  /\ index' = index + 1
  /\ UNCHANGED <<run, pc, accounts_file>>

\* w3.eth.account.create() and a deposit that returns 0: the account is
\* funded and appended.
DepositSucceeded ==
  /\ pc = "loop"
  /\ index < NUMBER_OF_ACCOUNTS
  /\ LET account == <<run, index>>
     IN /\ funded' = funded \cup {account}
        /\ accounts' = Append(accounts, account)
  /\ index' = index + 1
  /\ UNCHANGED <<run, pc, accounts_file>>

\* Mutation variant: the error is printed but the loop goes on.
DepositFailed_no_exit ==
  /\ pc = "loop"
  /\ index < NUMBER_OF_ACCOUNTS
  /\ index' = index + 1
  /\ UNCHANGED <<run, pc, accounts, funded, accounts_file>>

\* The deposit returns non-zero: the error is printed and exit() ends the
\* process; the in-memory accounts are gone.
DepositFailed ==
  /\ pc = "loop"
  /\ index < NUMBER_OF_ACCOUNTS
  /\ pc' = "idle"
  /\ UNCHANGED <<run, index, accounts, funded, accounts_file>>

\* After the loop: the DataFrame of addresses and keys goes to accounts.json.
WriteAccounts ==
  /\ pc = "loop"
  /\ index = NUMBER_OF_ACCOUNTS
  /\ accounts_file' = accounts
  /\ pc' = "idle"
  /\ UNCHANGED <<run, index, accounts, funded>>

Next == StartRun \/ DepositSucceeded \/ DepositFailed \/ WriteAccounts

Spec == Init /\ [][Next]_vars

-----------------------------------------------------------------------------
Account == (1..MaxRuns) \X (0..NUMBER_OF_ACCOUNTS - 1)

AccountTypeOK ==
  /\ run \in 0..MaxRuns
  /\ pc \in {"idle", "loop"}
  /\ index \in 0..NUMBER_OF_ACCOUNTS
  /\ accounts \in Seq(Account)
  /\ funded \subseteq Account
  /\ accounts_file \in Seq(Account)

(* accounts.json, once written, lists exactly NUMBER_OF_ACCOUNTS distinct  *)
(* accounts, all created by one run and all funded on chain: the file is   *)
(* written only by a run whose every deposit returned 0 (lines 13-38).     *)
AccountsFileComplete ==
  accounts_file # << >> =>
    /\ Len(accounts_file) = NUMBER_OF_ACCOUNTS
    /\ \A j, k \in 1..Len(accounts_file) :
         accounts_file[j] = accounts_file[k] => j = k
    /\ \A k \in 1..Len(accounts_file) :
         /\ accounts_file[k] \in funded
         /\ accounts_file[k][1] = accounts_file[1][1]

(* Between runs, the private key of every account funded on chain is in    *)
(* accounts.json: no funds are stranded on an account whose key only the   *)
(* ended process held.                                                     *)
FundedKeysSaved ==
  pc = "idle" => funded \subseteq {accounts_file[k] : k \in 1..Len(accounts_file)}

=============================================================================
