------------------------------- MODULE Execution -------------------------------
(***************************************************************************)
(* The executor of a node: validation and conversion of transactions, the  *)
(* MoveOS session that runs one (pre_execute, the action, respawn after a  *)
(* failure, post_execute), its gas meter, the cost table, the native       *)
(* functions and the code cache MoveOS keeps between sessions, dry runs,   *)
(* and the reader executor with a MoveOS of its own.                       *)
(*                                                                         *)
(* A state root is content addressed, so it is modelled by the state it    *)
(* names, projected to what fees, replay protection and upgrades read and  *)
(* write: accounts and their sequence numbers, gas coin stores, the fee    *)
(* pool, the gas schedule and the published packages.  A Move program is   *)
(* any sequence of operations on that state, each charged to the meter.    *)
(* How a commit reaches the disk is the subject of Pipeline.               *)
(***************************************************************************)
EXTENDS Integers, FiniteSets, FiniteSetsExt

CONSTANTS
  Accounts,       \* user addresses
  Packages,       \* the accounts with a package address
  Sequencer,      \* the account onchain_config names as sequencer
  Codes,          \* byte codes of a package
  None,           \* no code, no transaction, no flag
  LocalOrDev,     \* chain_id::is_local_or_dev
  InitialCoins,   \* gas coins of each funded account at the start
  Funded,         \* the accounts with gas coins at the start
  Amounts,        \* amounts programs transfer
  FaucetCoins,    \* gas coins a new account is given on a local or dev chain
  MaxGasAmounts,  \* max_gas_amount of the transactions submitted
  GasLimit,       \* gas_schedule_max_gas_amount
  Sizes,          \* sizes of the transactions submitted
  MaxVersion,     \* bound: versions of the gas schedule
  MaxSeq,         \* bound: sequence numbers
  MaxTx,          \* bound: transactions submitted
  MaxOps,         \* bound: operations of a transaction
  MaxRestarts,    \* bound: restarts of the node
  MaxDryRuns      \* bound: dry runs clients ask for

VARIABLES
  startup,   \* the committed state, named by the startup info
  exec,      \* ExecutorActor: [root, table, natives, cache, invalid]
  reader,    \* ReaderExecutorActor: the same fields
  verified,  \* the validated transaction the pipeline will execute, or None
  converted, \* the transaction of a dry run request, or None
  session,   \* the session in progress, or None
  refresh,   \* the RefreshStateMessage on its way to the reader, or None
  panicked,  \* the call in which an expect of MoveOS fired, or None
  taint,     \* history: which caches a discarded or twice publishing session may have spoilt
  txs, restarts, dryruns  \* counters behind the bounds

vars == <<startup, exec, reader, verified, converted, session, refresh, panicked,
          taint, txs, restarts, dryruns>>

ASSUME ExecutionAssumption ==
  /\ Sequencer \in Accounts /\ Funded \subseteq Accounts /\ Packages \subseteq Accounts
  /\ IsFiniteSet(Accounts) /\ LocalOrDev \in BOOLEAN
  /\ {InitialCoins, FaucetCoins, GasLimit, MaxVersion, MaxSeq, MaxTx, MaxOps,
      MaxRestarts, MaxDryRuns} \subseteq Nat
  /\ MaxGasAmounts \subseteq Nat /\ Amounts \subseteq Nat /\ Sizes \subseteq Nat

States == [acct : SUBSET Accounts, seq : [Accounts -> 0..(MaxSeq + 1)], bal : [Accounts -> Nat],
           store : SUBSET Accounts, refuse : SUBSET Accounts, pool : Nat,
           supply : Nat, sched : 0..MaxVersion, code : [Packages -> Codes \cup {None}]]
Tx == [sender : Accounts, seq : 0..MaxSeq, max : MaxGasAmounts, size : Sizes]
MoveOSes == [root : States, table : (0..MaxVersion) \cup {None}, natives : 0..MaxVersion,
             cache : [Packages -> Codes \cup {None}], invalid : BOOLEAN]
Pendings == [tx : Tx, root : States]
Sessions == [tx : Tx, root : States, st : States, left : Nat,
             phase : {"action", "init", "cleanup"}, status : {None, "executed", "failed"},
             updated : BOOLEAN, flag : BOOLEAN \cup {None}, inits : SUBSET Packages,
             foreign : BOOLEAN, dry : BOOLEAN, ops : Nat]
Refreshes == [root : States, upgrade : BOOLEAN]
Calls == {"execute", "dry_run", "cleanup"}

\* None is none of the values it stands for the absence of.
ASSUME NoneAssumption ==
  /\ None \notin Codes /\ None \notin BOOLEAN
  /\ None \notin {"executed", "failed"} \cup Calls /\ None \notin 0..MaxVersion
  /\ None \notin Pendings /\ None \notin Sessions /\ None \notin Refreshes

\* Nothing looks at the sequence number of a dry run; its size is that of the request.
DryTx == {t \in Tx : t.seq = 0 /\ t.size = Max(Sizes)}

\* A version of the gas schedule prices an instruction, a native function and a byte.
Fee(version) == version + 1

--------------------------------------------------------------------------------
(* Gas coins: account_coin_store and coin_store.  The gas coin is never    *)
(* frozen, so a store fails only by being absent, refused or too small.    *)

CanWithdraw(s, a, n) == a \in s.store /\ s.bal[a] >= n
Withdraw(s, a, n) == [s EXCEPT !.bal[a] = @ - n]
CanDeposit(s, a) == a \in s.store \/ a \notin s.refuse
Deposit(s, a, n) == [s EXCEPT !.bal[a] = @ + n, !.store = @ \cup {a}]

\* gas_coin::faucet mints, burn takes from the supply.
Minted(s, a, n) == [Deposit(s, a, n) EXCEPT !.supply = @ + n]

Coins(s) == MapThenSumSet(LAMBDA a : s.bal[a], Accounts) + s.pool

--------------------------------------------------------------------------------
(* transaction_validator.                                                  *)

\* account::sequence_number: an account that does not exist has 0.
sequence_number(s, a) == IF a \in s.acct THEN s.seq[a] ELSE 0

\* Mutant: the sequence number is only checked not to be too new.
validate_Old(s, t) ==
  /\ t.seq <= sequence_number(s, t.sender)
  /\ t.max <= GasLimit
  /\ LocalOrDev \/ s.bal[t.sender] >= t.max

\* Mutant: the account's gas balance is not checked.
validate_NoBalance(s, t) == t.seq = sequence_number(s, t.sender) /\ t.max <= GasLimit

\* validate: the sequence number and the gas deposit; a correct authenticator is assumed.
validate(s, t) ==
  /\ t.seq = sequence_number(s, t.sender)
  /\ t.max <= GasLimit
  /\ LocalOrDev \/ s.bal[t.sender] >= t.max

\* pre_execute creates the account and moves the maximal fee to the pool.
Created(s, a) ==
  IF a \in s.acct THEN s
  ELSE LET n == [s EXCEPT !.acct = @ \cup {a}]
       IN IF LocalOrDev THEN Minted(n, a, FaucetCoins) ELSE n

CanPreExecute(s, t) ==
  /\ t.sender \in s.acct \/ ~LocalOrDev \/ CanDeposit(s, t.sender)
  /\ CanWithdraw(Created(s, t.sender), t.sender, t.max)

pre_execute(s, t) ==
  [Withdraw(Created(s, t.sender), t.sender, t.max) EXCEPT !.pool = @ + t.max]

\* Mutant: nothing is refunded.
post_execute_NoRefund(s, t, used) == [s EXCEPT !.seq[t.sender] = @ + 1]

\* Mutant: the refund is not taken from the pool.
post_execute_FromNowhere(s, t, used) ==
  LET n == [s EXCEPT !.seq[t.sender] = @ + 1]
  IN IF used < t.max THEN Deposit(n, t.sender, t.max - used) ELSE n

\* post_execute counts the transaction and refunds the gas it did not use.
post_execute(s, t, used) ==
  LET n == [s EXCEPT !.seq[t.sender] = @ + 1]
  IN IF used < t.max THEN [Deposit(n, t.sender, t.max - used) EXCEPT !.pool = @ - (t.max - used)]
     ELSE n

CanPostExecute(s, t, used) ==
  used < t.max => /\ s.pool >= t.max - used
                  /\ CanDeposit(s, t.sender)

--------------------------------------------------------------------------------
(* MoveOS: what it keeps between sessions.                                 *)

\* The Move VM's loader keeps every package it loaded until its cache is flushed.
Empty == [p \in Packages |-> None]

\* MoveOS::new: the natives are priced at once, the cost table when it is first needed.
NewMoveOS(root, natives) ==
  [root |-> root, table |-> None, natives |-> natives, cache |-> Empty, invalid |-> FALSE]

\* load_cost_table: the first root it is asked for decides, until the table is taken.
load_cost_table(m, root) == IF m.table = None THEN [m EXCEPT !.table = root.sched] ELSE m

\* new_inner_session flushes the loader's cache if it was marked invalid.
NewSession(m) == IF m.invalid THEN [m EXCEPT !.cache = Empty, !.invalid = FALSE] ELSE m

\* Code is taken from the cache, and loaded from the session's state when it is not there.
Load(m, s, p) == IF m.cache[p] = None THEN [m EXCEPT !.cache[p] = s.code[p]] ELSE m

mark_loader_cache_as_invalid(m) == [m EXCEPT !.invalid = TRUE]

\* What an operation costs: its instructions by the cost table, its natives by their parameters.
OpCost(m) == Fee(m.table) + Fee(m.natives)

--------------------------------------------------------------------------------
(* Messages of the executor.                                               *)

Idle == session = None /\ panicked = None

\* execute_readonly_function for validate, then verify: both load the cost table.  The
\* validator's own code is metered with the transaction's budget.
Validate(t) ==
  LET m == NewSession(load_cost_table(exec, exec.root))
  IN /\ Idle /\ verified = None /\ refresh = None /\ txs < MaxTx
     /\ txs' = txs + 1
     /\ exec' = m
     /\ verified' = IF validate(exec.root, t) /\ OpCost(m) <= t.max
                    THEN [tx |-> t, root |-> exec.root] ELSE None
     /\ UNCHANGED <<startup, reader, converted, session, refresh, panicked, taint,
                    restarts, dryruns>>

\* convert_to_verified_tx: the data of a dry run is not validated.
Convert(t) ==
  /\ Idle /\ converted = None /\ dryruns < MaxDryRuns
  /\ dryruns' = dryruns + 1
  /\ converted' = [tx |-> t, root |-> exec.root]
  /\ UNCHANGED <<startup, exec, reader, verified, session, refresh, panicked, taint,
                 txs, restarts>>

\* A session of transaction t on root r after pre_execute; io is what its bytes cost.
Session(t, r, io, d) ==
  [tx |-> t, root |-> r, st |-> pre_execute(r, t), left |-> t.max - io, phase |-> "action",
   status |-> None, updated |-> FALSE, flag |-> None, inits |-> {}, foreign |-> FALSE,
   dry |-> d, ops |-> 0]

\* MoveOS::execute up to the action: charge_io_write may end it with an error, and
\* pre_execute is expected not to fail.
Begin(v, d) ==
  LET m == load_cost_table(exec, v.root)
      io == v.tx.size * Fee(m.table)
      able == CanPreExecute(v.root, v.tx)
  IN /\ Idle
     /\ IF io > v.tx.max
        THEN /\ exec' = m
             /\ UNCHANGED <<session, panicked>>
        ELSE /\ exec' = NewSession(m)
             /\ panicked' = IF able THEN None ELSE IF d THEN "dry_run" ELSE "execute"
             /\ session' = IF able THEN Session(v.tx, v.root, io, d) ELSE None
     /\ taint' = IF exec.table = None /\ v.root # exec.root THEN taint \cup {"table"} ELSE taint
     /\ UNCHANGED <<startup, reader, refresh, txs, restarts, dryruns>>

Execute == verified # None /\ Begin(verified, FALSE) /\ verified' = None /\ UNCHANGED converted
DryRun == converted # None /\ Begin(converted, TRUE) /\ converted' = None /\ UNCHANGED verified

--------------------------------------------------------------------------------
(* The action of a transaction.                                            *)

\* Mutant: a failed action is settled on the state it left behind.
Respawned_KeepsEffects(x, left) ==
  [x EXCEPT !.left = left, !.phase = "cleanup", !.status = "failed"]

\* respawn: a new object runtime and context on the same root, the same gas meter, and
\* pre_execute once more.
Respawned(x, left) ==
  [Session(x.tx, x.root, 0, x.dry) EXCEPT !.left = left, !.phase = "cleanup",
                                          !.status = "failed"]

\* What a session that is thrown away leaves in the loader's cache.
Discarded(x) == IF x.foreign THEN taint \cup {"load"} ELSE taint

\* The action fails with left gas units left.
Fails(m, x, left) ==
  /\ exec' = NewSession(m)
  /\ session' = Respawned(x, left)
  /\ taint' = Discarded(x)
  /\ UNCHANGED <<startup, reader, verified, converted, refresh, panicked, txs, restarts,
                 dryruns>>

Cost == OpCost(exec)

\* One operation of a script or a function: deduct_gas first, then its effect.  A ModuleBundle,
\* which genesis publishes from a system reserved address, is left out.
Op(m, x) ==
  /\ exec' = m
  /\ session' = [x EXCEPT !.left = @ - Cost, !.ops = @ + 1]
  /\ UNCHANGED <<startup, reader, verified, converted, refresh, panicked, txs, restarts,
                 dryruns>>

In(phase) == session # None /\ panicked = None /\ session.phase = phase
Running == In("action") /\ session.ops < MaxOps

\* Mutant: the meter is not checked before an operation.
Paid_Unchecked == TRUE

\* deduct_gas fails when less is left than the operation costs.
Paid == session.left >= Cost

OutOfGas == Running /\ ~Paid /\ Fails(exec, session, 0)

Abort == Running /\ Paid /\ Fails(exec, session, session.left - Cost)

Transfer(to, n) ==
  LET s == session.st
      from == session.tx.sender
  IN /\ Running /\ Paid
     /\ CanWithdraw(s, from, n) /\ CanDeposit(s, to)
     /\ Op(exec, [session EXCEPT !.st = Deposit(Withdraw(s, from, n), to, n)])
     /\ UNCHANGED taint

\* gas_coin::faucet_entry.
Faucet ==
  LET a == session.tx.sender
  IN /\ Running /\ Paid
     /\ LocalOrDev \/ a = Sequencer
     /\ CanDeposit(session.st, a)
     /\ Op(exec, [session EXCEPT !.st = Minted(session.st, a, FaucetCoins)])
     /\ UNCHANGED taint

set_auto_accept_coin(accept) ==
  LET a == session.tx.sender
  IN /\ Running /\ Paid
     /\ Op(exec, [session EXCEPT !.st.refuse = IF accept THEN @ \ {a} ELSE @ \cup {a}])
     /\ UNCHANGED taint

\* coin_store::remove_coin_store of the sender's own store, and burn of its coins.
remove_coin_store ==
  LET a == session.tx.sender
      s == session.st
  IN /\ Running /\ Paid
     /\ a \in s.store
     /\ Op(exec, [session EXCEPT !.st = [s EXCEPT !.store = @ \ {a}, !.bal[a] = 0,
                                                  !.supply = @ - s.bal[a]]])
     /\ UNCHANGED taint

\* upgrade::upgrade_gas_schedule leaves GasScheduleUpdated in the context.
upgrade_gas_schedule ==
  /\ Running /\ Paid
  /\ session.tx.sender = Sequencer
  /\ session.st.sched < MaxVersion
  /\ Op(exec, [session EXCEPT !.st.sched = @ + 1, !.updated = TRUE])
  /\ UNCHANGED taint

\* Session x after it needed the code of package p.
Loads(x, p) ==
  [x EXCEPT !.foreign = @ \/ (exec.cache[p] = None /\ x.st.code[p] # exec.root.code[p])]

\* Mutant: the flag is never set.
set_module_upgrade_flag_Never(flag, upgrade) == FALSE

\* tx_context::set_module_upgrade_flag: a flag that is already there is copied, set in the
\* copy and not written back.
set_module_upgrade_flag(flag, upgrade) == IF flag = None THEN upgrade ELSE flag

\* module_store::publish_modules under the sender's address, or by the code of package p under
\* its own; the init function of a new package is run when the action has returned.
publish_modules(p, c, init) ==
  LET s == session.st
      own == p = session.tx.sender
      upgrade == s.code[p] # None
  IN /\ Running /\ Paid
     /\ own \/ upgrade
     /\ Op(IF own THEN exec ELSE Load(exec, s, p),
           [(IF own THEN session ELSE Loads(session, p)) EXCEPT
              !.st.code[p] = c,
              !.inits = IF init /\ ~upgrade THEN @ \cup {p} ELSE @,
              !.flag = set_module_upgrade_flag(@, upgrade)])
     /\ taint' = IF upgrade /\ session.flag = FALSE THEN taint \cup {"flag"} ELSE taint

\* A call of a function of package p.
Call(p) ==
  /\ Running /\ Paid
  /\ session.st.code[p] # None
  /\ Op(Load(exec, session.st, p), Loads(session, p))
  /\ UNCHANGED taint

Returns ==
  /\ In("action")
  /\ session' = [session EXCEPT !.phase = "init"]
  /\ UNCHANGED <<startup, exec, reader, verified, converted, refresh, panicked, taint,
                 txs, restarts, dryruns>>

\* resolve_pending_init_functions: an init function that fails fails the action.
RunInit(p) ==
  /\ In("init") /\ p \in session.inits /\ Paid
  /\ Op(Load(exec, session.st, p), [Loads(session, p) EXCEPT !.inits = @ \ {p}])
  /\ UNCHANGED taint

\* execute_init_modules stops at the first that fails: out of gas, or an abort in it.
FailInit(p, left) ==
  /\ In("init") /\ p \in session.inits
  /\ left = IF Paid THEN session.left - Cost ELSE 0
  /\ Fails(Load(exec, session.st, p), Loads(session, p), left)

\* The end of execute_move_action: a module upgrade invalidates the loader's cache.
Executed ==
  /\ In("init") /\ session.inits = {}
  /\ session' = [session EXCEPT !.phase = "cleanup", !.status = "executed"]
  /\ exec' = IF session.flag = TRUE THEN mark_loader_cache_as_invalid(exec) ELSE exec
  /\ UNCHANGED <<startup, reader, verified, converted, refresh, panicked, taint,
                 txs, restarts, dryruns>>

--------------------------------------------------------------------------------
(* execution_cleanup, and what the executor does with the output.          *)

query_gas_used(x) == x.tx.max - x.left

\* Mutant: the cost table is kept.
Cleaned_TableKept(x) == exec

\* A gas schedule update takes the cost table, in a dry run too.
Cleaned(x) == IF x.updated THEN [exec EXCEPT !.table = None] ELSE exec

\* post_execute is expected not to fail.
Settles == CanPostExecute(session.st, session.tx, query_gas_used(session))

\* A dry run returns its output and applies nothing.
FinishDryRun ==
  /\ In("cleanup") /\ session.dry
  /\ exec' = Cleaned(session)
  /\ session' = None
  /\ taint' = Discarded(session)
  /\ panicked' = IF Settles THEN None ELSE "cleanup"
  /\ UNCHANGED <<startup, reader, verified, converted, refresh, txs, restarts, dryruns>>

\* Mutant: MoveOS is built again with the natives it has.
Reloaded_SameNatives(m, new) ==
  [(IF m.table = None THEN NewMoveOS(m.root, m.natives) ELSE m) EXCEPT !.root = new]

\* ExecutorActor::execute: an upgraded cost table makes it build MoveOS again, natives priced by
\* the root it still holds, before it moves to the new root.
Reloaded(m, new) ==
  [(IF m.table = None THEN NewMoveOS(m.root, m.root.sched) ELSE m) EXCEPT !.root = new]

\* apply_transaction_output makes the new state the startup state; the pipeline then sends the
\* reader a refresh.
Commit ==
  LET new == post_execute(session.st, session.tx, query_gas_used(session))
  IN /\ In("cleanup") /\ ~session.dry
     /\ IF Settles
        THEN /\ startup' = new
             /\ exec' = Reloaded(Cleaned(session), new)
             /\ refresh' = [root |-> new, upgrade |-> session.flag = TRUE]
             /\ UNCHANGED <<panicked, taint>>
        ELSE /\ panicked' = "cleanup"
             /\ taint' = Discarded(session)
             /\ UNCHANGED <<startup, exec, refresh>>
     /\ session' = None
     /\ UNCHANGED <<reader, verified, converted, txs, restarts, dryruns>>

--------------------------------------------------------------------------------
(* The reader, and restarts.                                               *)

\* Mutant: the reader moves to the new root with the code it has.
Refreshed_KeepsCode(m, msg) == [m EXCEPT !.root = msg.root]

\* refresh_state; the reader's cost table and natives stay what they are.
Refreshed(m, msg) ==
  [(IF msg.upgrade THEN mark_loader_cache_as_invalid(m) ELSE m) EXCEPT !.root = msg.root]

refresh_state ==
  /\ refresh # None
  /\ reader' = Refreshed(reader, refresh)
  /\ refresh' = None
  /\ UNCHANGED <<startup, exec, verified, converted, session, panicked, taint,
                 txs, restarts, dryruns>>

\* execute_view_function of a function of package p.
View(p) ==
  /\ reader.root.code[p] # None
  /\ reader' = Load(NewSession(load_cost_table(reader, reader.root)), reader.root, p)
  /\ UNCHANGED <<startup, exec, verified, converted, session, refresh, panicked, taint,
                 txs, restarts, dryruns>>

\* The process stops at any point and is started again.
Restart ==
  /\ restarts < MaxRestarts
  /\ restarts' = restarts + 1
  /\ exec' = NewMoveOS(startup, startup.sched)
  /\ reader' = NewMoveOS(startup, startup.sched)
  /\ verified' = None /\ converted' = None /\ session' = None /\ refresh' = None
  /\ panicked' = None /\ taint' = {}
  /\ UNCHANGED <<startup, txs, dryruns>>

--------------------------------------------------------------------------------

GenesisState ==
  [acct |-> {}, seq |-> [a \in Accounts |-> 0],
   bal |-> [a \in Accounts |-> IF a \in Funded THEN InitialCoins ELSE 0],
   store |-> Funded, refuse |-> {}, pool |-> 0, supply |-> InitialCoins * Cardinality(Funded),
   sched |-> 0, code |-> Empty]

InitExecution ==
  /\ startup = GenesisState
  /\ exec = NewMoveOS(GenesisState, 0) /\ reader = NewMoveOS(GenesisState, 0)
  /\ verified = None /\ converted = None /\ session = None /\ refresh = None
  /\ panicked = None /\ taint = {} /\ txs = 0 /\ restarts = 0 /\ dryruns = 0

Program ==
  \/ OutOfGas \/ Abort \/ Faucet \/ remove_coin_store \/ upgrade_gas_schedule
  \/ Returns \/ Executed
  \/ \E to \in Accounts, n \in Amounts : Transfer(to, n)
  \/ \E accept \in BOOLEAN : set_auto_accept_coin(accept)
  \/ \E p \in Packages, c \in Codes, init \in BOOLEAN : publish_modules(p, c, init)
  \/ \E p \in Packages : Call(p) \/ RunInit(p)
  \/ \E p \in Packages, left \in 0..GasLimit : FailInit(p, left)

NextExecution ==
  \/ \E t \in Tx : Validate(t)
  \/ \E t \in DryTx : Convert(t)
  \/ Execute \/ DryRun \/ Program
  \/ FinishDryRun \/ Commit
  \/ refresh_state \/ \E p \in Packages : View(p)
  \/ Restart

SpecExecution == InitExecution /\ [][NextExecution]_vars

--------------------------------------------------------------------------------
(* Properties.                                                             *)

\* Types of the executors, the pending messages and the session; no transaction uses more gas
\* than it allowed.
TypeOKExecution ==
  /\ startup \in States
  /\ exec \in MoveOSes /\ reader \in MoveOSes
  /\ verified \in Pendings \cup {None} /\ converted \in Pendings \cup {None}
  /\ session \in Sessions \cup {None}
  /\ session # None => session.left <= session.tx.max
  /\ refresh \in Refreshes \cup {None}
  /\ panicked \in Calls \cup {None}

\* Every committed transaction carried the sequence number its sender's account had, and a commit
\* counts one transaction, of that sender only, whether the action succeeded or failed.
CountedOnce ==
  /\ session.tx.seq = sequence_number(startup, session.tx.sender)
  /\ startup'.seq = [startup.seq EXCEPT ![session.tx.sender] = @ + 1]

\* A transaction whose action failed leaves nothing behind but its fee: the gas used up to the
\* failure, however the action moved coins, changed settings, upgraded or published before it.
FailurePaysOnly ==
  session.status = "failed" =>
    LET t == session.tx
        used == query_gas_used(session)
    IN startup' = [Created(startup, t.sender) EXCEPT
                     !.seq[t.sender] = @ + 1, !.bal[t.sender] = @ - used, !.pool = @ + used]

\* The fee pool takes exactly the gas a transaction used, refunded from what it deposited.
FeesAreExact == startup'.pool = startup.pool + query_gas_used(session)

\* Every commit settles the transaction it belongs to: counted once, paid exactly, and if it
\* failed nothing but paid (execution_cleanup, post_execute, apply_transaction_output).
TransactionsSettle == [][startup' # startup => CountedOnce /\ FailurePaysOnly /\ FeesAreExact]_vars

\* The gas coins of all accounts and of the fee pool are the supply CoinInfo records.
SupplyIsBacked ==
  /\ Coins(startup) = startup.supply
  /\ session # None => Coins(session.st) = session.st.supply

\* The cost table a node charges with is that of the schedule of the state it executes on: an
\* upgraded schedule takes effect with the next transaction.  Not so after a dry run that was
\* converted before an upgrade and was the first to need the new table.
TableIsCurrent == exec.table # None /\ "table" \notin taint => exec.table = exec.root.sched

\* Code that a session on the executor's root would run from the loader's cache is the code that
\* state has published.  Not so after a session with code of its own was thrown away, or one
\* transaction created one package and upgraded another.
LoaderIsCurrent ==
  session = None /\ ~exec.invalid /\ taint \cap {"load", "flag"} = {} =>
    \A p \in Packages : exec.cache[p] # None => exec.cache[p] = exec.root.code[p]

\* The same for view functions of the reader, which learns of an upgrade from a message.
ReaderIsCurrent ==
  ~reader.invalid /\ "flag" \notin taint =>
    \A p \in Packages : reader.cache[p] # None => reader.cache[p] = reader.root.code[p]

\* Nothing takes the reader's cost table, so the first view decides what views are charged until
\* the node restarts: after an upgrade by an older schedule than that of the state they read, but
\* never by one that state has not reached.
ReaderTableLags == reader.table # None => reader.table <= reader.root.sched

\* What MoveOS keeps between sessions is current: the writer's cost table and the code in the
\* loader caches of writer and reader.  The reader's cost table is only not ahead.
CachesAreCurrent == TableIsCurrent /\ LoaderIsCurrent /\ ReaderIsCurrent /\ ReaderTableLags

\* What validate checked is enough for pre_execute, at the start and after a respawn, on a chain
\* where it checks the balance.
DepositIsCovered == ~LocalOrDev => panicked # "execute"

\* Coins: typed, all accounted for, and enough for the deposit that was validated.
ExecutionInv == TypeOKExecution /\ SupplyIsBacked /\ DepositIsCovered

\* Natives lag by one upgrade at most: execute reloads them from the root it still holds, so a
\* transaction that changes the schedule leaves them priced by the schedule it ran under, however
\* many came before it and whatever dry runs did to the cost table (ExecutorActor::execute).
NativesFollow ==
  [][exec'.root.sched # exec.root.sched => exec'.natives \in {exec.root.sched, exec'.root.sched}]_vars

================================================================================
