---------------------------- MODULE ExecutionProofs ----------------------------
(***************************************************************************)
(* Proofs about the executor of module Execution: the coins of all         *)
(* accounts and the fee pool are the supply, every commit settles its      *)
(* transaction exactly, and the caches between sessions are current, for   *)
(* all sets of accounts, packages and codes, all prices and all bounds.    *)
(***************************************************************************)
EXTENDS Execution, FiniteSetTheorems, WellFoundedInduction, TLAPS

--------------------------------------------------------------------------------
(* Sums over the accounts.                                                 *)

(* A set of natural numbers has a least element: the form in which the     *)
(* proofs below use induction.                                             *)
LEMMA LeastElement ==
  ASSUME NEW S \in SUBSET Nat, S # {}
  PROVE  \E x \in S : \A y \in S : x <= y
<1> DEFINE R == OpToRel(<, Nat)
<1>1. IsWellFoundedOn(R, Nat)
  BY NatLessThanWellFounded
<1>2. \A x, y \in Nat : <<y, x>> \in R <=> y < x
  BY DEF OpToRel
<1> HIDE DEF R
<1>3. PICK x \in S : \A y \in S : ~(<<y, x>> \in R)
  BY <1>1, WFMin
<1>4. x \in Nat /\ \A y \in S : y \in Nat /\ ~(y < x)
  BY <1>2, <1>3
<1> QED BY <1>4

(* The element a sum takes from a set first.                               *)
Any(s) == CHOOSE x \in s : TRUE

(* Taking an element from a set of accounts makes it smaller by one.       *)
LEMMA TakeAny ==
  ASSUME NEW s \in SUBSET Accounts, s # {}
  PROVE  /\ Any(s) \in s /\ s \ {Any(s)} \in SUBSET Accounts
         /\ Cardinality(s) \in Nat /\ Cardinality(s \ {Any(s)}) \in Nat
         /\ Cardinality(s \ {Any(s)}) = Cardinality(s) - 1
<1>1. Any(s) \in s
  BY DEF Any
<1>2. IsFiniteSet(s)
  BY FS_Subset, ExecutionAssumption
<1>3. IsFiniteSet(s \ {Any(s)}) /\ Cardinality(s \ {Any(s)}) = Cardinality(s) - 1
  BY <1>1, <1>2, FS_RemoveElement
<1>4. Cardinality(s) \in Nat /\ Cardinality(s \ {Any(s)}) \in Nat
  BY <1>2, <1>3, FS_CardinalityType
<1> QED BY <1>1, <1>3, <1>4

(* Induction over the sets of accounts, one chosen element at a time.      *)
LEMMA AccountInduction ==
  ASSUME NEW P \in SUBSET (SUBSET Accounts), {} \in P,
         \A s \in SUBSET Accounts : s # {} /\ s \ {Any(s)} \in P => s \in P
  PROVE  Accounts \in P
<1> SUFFICES ASSUME Accounts \notin P PROVE FALSE
  OBVIOUS
<1> DEFINE sizes == {Cardinality(s) : s \in (SUBSET Accounts) \ P}
<1>1. \A s \in SUBSET Accounts : Cardinality(s) \in Nat
  BY FS_Subset, FS_CardinalityType, ExecutionAssumption
<1>2. sizes \in SUBSET Nat /\ Cardinality(Accounts) \in sizes
  BY <1>1
<1>3. PICK n \in sizes : \A k \in sizes : n <= k
  <2> HIDE DEF sizes
  <2> QED BY <1>2, LeastElement
<1>4. PICK s \in (SUBSET Accounts) \ P : n = Cardinality(s)
  BY <1>3
<1>5. s # {}
  BY <1>4
<1>6. Cardinality(s \ {Any(s)}) < n /\ s \ {Any(s)} \in SUBSET Accounts /\ n \in Nat
      /\ Cardinality(s \ {Any(s)}) \in Nat
  BY <1>4, <1>5, TakeAny
<1>7. s \ {Any(s)} \in P
  BY <1>3, <1>6
<1> QED BY <1>4, <1>5, <1>7

(* it sums f over every set of accounts.                                   *)
Adds(f, it) ==
  it = [s \in SUBSET Accounts |-> IF s = {} THEN 0 ELSE f[Any(s)] + it[s \ {Any(s)}]]

(* There is such a function.                                               *)
LEMMA AddsExists ==
  ASSUME NEW f
  PROVE  \E it : Adds(f, it)
<1> DEFINE Upto(n) == {s \in SUBSET Accounts : Cardinality(s) <= n}
           Plus(s, it) == IF s = {} THEN 0 ELSE f[Any(s)] + it[s \ {Any(s)}]
           bad == {n \in Nat : ~\E it : \A s \in Upto(n) : it[s] = Plus(s, it)}
<1>1. \A s \in SUBSET Accounts : Cardinality(s) \in Nat /\ Cardinality(s) <= Cardinality(Accounts)
  BY FS_Subset, FS_CardinalityType, ExecutionAssumption
<1>2. bad = {}
  <2> SUFFICES ASSUME bad # {} PROVE FALSE
    OBVIOUS
  <2>1. PICK n \in bad : \A k \in bad : n <= k
    <3>1. bad \in SUBSET Nat
      OBVIOUS
    <3> HIDE DEF bad
    <3> QED BY <3>1, LeastElement
  <2>2. PICK it : n > 0 => \A s \in Upto(n - 1) : it[s] = Plus(s, it)
    <3>1. CASE n > 0
      <4>1. n - 1 \in Nat /\ n - 1 \notin bad
        <5>1. n \in Nat /\ \A k \in bad : n <= k
          BY <2>1
        <5> HIDE DEF bad
        <5> QED BY <3>1, <5>1
      <4> QED BY <4>1
    <3> QED BY <3>1
  <2> DEFINE g == [s \in Upto(n) |-> Plus(s, it)]
  <2>3. ASSUME NEW s \in Upto(n) PROVE g[s] = Plus(s, g)
    <3>1. CASE s = {}
      BY <3>1
    <3>2. CASE s # {}
      <4>1. s \ {Any(s)} \in SUBSET Accounts /\ Cardinality(s) \in Nat
            /\ Cardinality(s \ {Any(s)}) \in Nat /\ Cardinality(s \ {Any(s)}) = Cardinality(s) - 1
        BY <3>2, TakeAny
      <4>2. n \in Nat /\ Cardinality(s) <= n
        BY <2>1, <2>3
      <4>3. n > 0 /\ s \ {Any(s)} \in Upto(n - 1) /\ s \ {Any(s)} \in Upto(n)
        BY <4>1, <4>2
      <4>4. g[s \ {Any(s)}] = Plus(s \ {Any(s)}, it)
        BY <4>3
      <4>5. it[s \ {Any(s)}] = Plus(s \ {Any(s)}, it)
        BY <2>2, <4>3
      <4> HIDE DEF Upto
      <4>6. g[s] = f[Any(s)] + it[s \ {Any(s)}]
        BY <3>2
      <4>7. Plus(s, g) = f[Any(s)] + g[s \ {Any(s)}]
        BY <3>2
      <4> QED BY <4>4, <4>5, <4>6, <4>7
    <3> QED BY <3>1, <3>2
  <2>4. n \notin bad
    <3> HIDE DEF Upto, Plus, g
    <3> QED BY <2>3
  <2> QED BY <2>1, <2>4
<1>3. PICK it : \A s \in Upto(Cardinality(Accounts)) : it[s] = Plus(s, it)
  BY <1>1, <1>2
<1>4. Upto(Cardinality(Accounts)) = SUBSET Accounts
  BY <1>1
<1> DEFINE h == [s \in SUBSET Accounts |-> it[s]]
<1>5. ASSUME NEW s \in SUBSET Accounts PROVE h[s] = Plus(s, h)
  <2>1. s # {} => s \ {Any(s)} \in SUBSET Accounts
    OBVIOUS
  <2>2. it[s] = Plus(s, it)
    BY <1>3, <1>4
  <2>3. s # {} => h[s \ {Any(s)}] = it[s \ {Any(s)}]
    BY <2>1
  <2> QED BY <2>2, <2>3
<1>6. h = [s \in SUBSET Accounts |-> Plus(s, h)]
  <2>1. \A s \in SUBSET Accounts : h[s] = Plus(s, h)
    BY <1>5
  <2>2. h = [s \in SUBSET Accounts |-> h[s]]
    OBVIOUS
  <2> HIDE DEF h, Plus
  <2> QED BY <2>1, <2>2
<1> QED BY <1>6 DEF Adds

(* The sum of f over all accounts, as Coins takes it.                      *)
Total(f) == MapThenSumSet(LAMBDA a : f[a], Accounts)

\* Total is the value at Accounts of a function that adds its entries one by one.
LEMMA TotalAdds ==
  ASSUME NEW f
  PROVE  \E it : Adds(f, it) /\ Total(f) = it[Accounts]
<1> DEFINE sum == CHOOSE it : it = [s \in SUBSET Accounts |->
                    IF s = {} THEN 0 ELSE f[Any(s)] + it[s \ {Any(s)}]]
<1>1. Total(f) = sum[Accounts]
  BY DEF Total, MapThenSumSet, MapThenFoldSet, Any
<1>2. Adds(f, sum)
  BY AddsExists DEF Adds
<1> QED BY <1>1, <1>2

(* The empty sum.                                                          *)
LEMMA AddsNothing ==
  ASSUME NEW f, NEW it, Adds(f, it)
  PROVE  it[{}] = 0
<1>1. {} \in SUBSET Accounts
  OBVIOUS
<1> QED BY <1>1 DEF Adds

(* One step of a sum.                                                      *)
LEMMA AddsStep ==
  ASSUME NEW f, NEW it, Adds(f, it), NEW s \in SUBSET Accounts, s # {}
  PROVE  it[s] = f[Any(s)] + it[s \ {Any(s)}]
BY DEF Adds

(* A sum of natural numbers is one.                                        *)
LEMMA TotalType ==
  ASSUME NEW f \in [Accounts -> Nat]
  PROVE  Total(f) \in Nat
<1>1. PICK it : Adds(f, it) /\ Total(f) = it[Accounts]
  BY TotalAdds
<1> DEFINE P == {s \in SUBSET Accounts : it[s] \in Nat}
<1>2. {} \in P
  BY <1>1, AddsNothing
<1>3. ASSUME NEW s \in SUBSET Accounts, s # {}, s \ {Any(s)} \in P PROVE s \in P
  <2>1. Any(s) \in Accounts
    BY <1>3, TakeAny
  <2>2. it[s] = f[Any(s)] + it[s \ {Any(s)}]
    BY <1>1, <1>3, AddsStep
  <2>3. f[Any(s)] \in Nat /\ it[s \ {Any(s)}] \in Nat
    BY <1>3, <2>1
  <2> QED BY <2>2, <2>3
<1>4. P \in SUBSET (SUBSET Accounts)
  OBVIOUS
<1>5. Accounts \in P
  <2> HIDE DEF P
  <2> QED BY <1>2, <1>3, <1>4, AccountInduction
<1> QED BY <1>1, <1>5

(* A sum changes by what one account's value changes.                      *)
LEMMA TotalChange ==
  ASSUME NEW f \in [Accounts -> Nat], NEW g \in [Accounts -> Nat], NEW a \in Accounts,
         \A b \in Accounts \ {a} : g[b] = f[b]
  PROVE  Total(g) = Total(f) + (g[a] - f[a])
<1>1. PICK it : Adds(f, it) /\ Total(f) = it[Accounts]
  BY TotalAdds
<1>2. PICK jt : Adds(g, jt) /\ Total(g) = jt[Accounts]
  BY TotalAdds
<1> DEFINE P == {s \in SUBSET Accounts : /\ it[s] \in Int /\ jt[s] \in Int
                                         /\ jt[s] = it[s] + (IF a \in s THEN g[a] - f[a] ELSE 0)}
<1>3. {} \in P
  <2>1. it[{}] = 0 /\ jt[{}] = 0
    BY <1>1, <1>2, AddsNothing
  <2> QED BY <2>1
<1>4. ASSUME NEW s \in SUBSET Accounts, s # {}, s \ {Any(s)} \in P PROVE s \in P
  <2> DEFINE x == Any(s)
             t == s \ {x}
  <2>1. x \in s /\ x \in Accounts /\ it[s] = f[x] + it[t] /\ jt[s] = g[x] + jt[t]
    <3>1. x \in s /\ x \in Accounts
      BY <1>4, TakeAny
    <3>2. it[s] = f[x] + it[t]
      BY <1>1, <1>4, AddsStep
    <3>3. jt[s] = g[x] + jt[t]
      BY <1>2, <1>4, AddsStep
    <3> QED BY <3>1, <3>2, <3>3
  <2>2. f[x] \in Nat /\ g[x] \in Nat /\ f[a] \in Nat /\ g[a] \in Nat
    BY <2>1
  <2>3. it[t] \in Int /\ jt[t] \in Int /\ jt[t] = it[t] + (IF a \in t THEN g[a] - f[a] ELSE 0)
    BY <1>4
  <2>4. a \notin {x} => (a \in t <=> a \in s) /\ g[x] = f[x]
    BY <2>1
  <2>5. a \in {x} => a \notin t /\ a \in s /\ x = a
    BY <2>1
  <2> HIDE DEF x, t
  <2>6. jt[s] = it[s] + (IF a \in s THEN g[a] - f[a] ELSE 0)
    BY <2>1, <2>2, <2>3, <2>4, <2>5
  <2>7. it[s] \in Int /\ jt[s] \in Int
    BY <2>1, <2>2, <2>3
  <2> QED BY <2>6, <2>7
<1>5. P \in SUBSET (SUBSET Accounts)
  OBVIOUS
<1>6. Accounts \in P
  <2> HIDE DEF P
  <2> QED BY <1>3, <1>4, <1>5, AccountInduction
<1> QED BY <1>1, <1>2, <1>6

(* What every account of a set has adds up to their number times it.       *)
LEMMA TotalUniform ==
  ASSUME NEW c \in Nat, NEW T \in SUBSET Accounts
  PROVE  Total([a \in Accounts |-> IF a \in T THEN c ELSE 0]) = c * Cardinality(T)
<1> DEFINE f == [a \in Accounts |-> IF a \in T THEN c ELSE 0]
<1>1. PICK it : Adds(f, it) /\ Total(f) = it[Accounts]
  BY TotalAdds
<1> DEFINE P == {s \in SUBSET Accounts : it[s] = c * Cardinality(s \cap T)}
<1>2. {} \in P
  <2>1. it[{}] = 0
    BY <1>1, AddsNothing
  <2>2. {} \cap T = {} /\ Cardinality({}) = 0 /\ c * 0 = 0
    BY FS_EmptySet
  <2> QED BY <2>1, <2>2
<1>3. ASSUME NEW s \in SUBSET Accounts, s # {}, s \ {Any(s)} \in P PROVE s \in P
  <2> DEFINE x == Any(s)
             t == s \ {x}
  <2>1. x \in s /\ x \in Accounts /\ it[s] = f[x] + it[t]
    <3>1. x \in s /\ x \in Accounts
      BY <1>3, TakeAny
    <3> HIDE DEF f, P
    <3>2. it[s] = f[x] + it[t]
      BY <1>1, <1>3, AddsStep
    <3> QED BY <3>1, <3>2
  <2>2. IsFiniteSet(s \cap T) /\ IsFiniteSet(t \cap T)
    BY FS_Subset, ExecutionAssumption
  <2>3. Cardinality(s \cap T) \in Nat /\ Cardinality(t \cap T) \in Nat
    BY <2>2, FS_CardinalityType
  <2>4. it[t] = c * Cardinality(t \cap T)
    BY <1>3
  <2>5. CASE x \in T
    <3>1. t \cap T = (s \cap T) \ {x} /\ x \in s \cap T
      BY <2>1, <2>5
    <3>2. Cardinality(t \cap T) = Cardinality(s \cap T) - 1
      BY <2>2, <3>1, FS_RemoveElement
    <3>3. f[x] = c
      BY <2>1, <2>5
    <3>4. \A k \in Int : c + c * (k - 1) = c * k
      OBVIOUS
    <3> HIDE DEF x, t, f
    <3> QED BY <2>1, <2>3, <2>4, <3>2, <3>3, <3>4
  <2>6. CASE x \notin T
    <3>1. t \cap T = s \cap T
      BY <2>6
    <3>2. f[x] = 0
      BY <2>1, <2>6
    <3>3. c * Cardinality(s \cap T) \in Int
      BY <2>3
    <3> HIDE DEF x, t, f
    <3> QED BY <2>1, <2>4, <3>1, <3>2, <3>3
  <2> QED BY <2>5, <2>6
<1>4. P \in SUBSET (SUBSET Accounts)
  OBVIOUS
<1>5. Accounts \in P
  <2> HIDE DEF P, f
  <2> QED BY <1>2, <1>3, <1>4, AccountInduction
<1>6. Accounts \cap T = T
  OBVIOUS
<1> QED BY <1>1, <1>5, <1>6

(* The coins of a state, and how paying, crediting and burning change      *)
(* them.                                                                   *)
LEMMA CoinsOfState ==
  ASSUME NEW s \in States
  PROVE  Coins(s) = Total(s.bal) + s.pool /\ Coins(s) \in Nat /\ Total(s.bal) \in Nat
<1>1. s.bal \in [Accounts -> Nat] /\ s.pool \in Nat
  BY DEF States
<1>2. Coins(s) = Total(s.bal) + s.pool
  BY DEF Coins, Total
<1> QED BY <1>1, <1>2, TotalType

--------------------------------------------------------------------------------
(* The inductive invariant.                                                *)

(* A state with no transaction counted for an account that was never       *)
(* created, no coins outside a store, and all coins in the supply.         *)
Sound(s) ==
  /\ s \in States
  /\ \A a \in Accounts : a \notin s.acct => s.seq[a] = 0
  /\ \A a \in Accounts : a \notin s.store => s.bal[a] = 0
  /\ Coins(s) = s.supply

(* What a session's draft has in common with the root it started from, and *)
(* all of it once the action failed.                                       *)
OnItsRoot(x) ==
  /\ CanPreExecute(x.root, x.tx)
  /\ x.st.acct = x.root.acct \cup {x.tx.sender}
  /\ x.st.seq = x.root.seq
  /\ x.st.pool = x.root.pool + x.tx.max
  /\ ~x.updated => x.st.sched = x.root.sched
  /\ x.phase # "cleanup" => x.status = None
  /\ x.status = "failed" => x.st = pre_execute(x.root, x.tx)

(* Every state in use is sound, and every session sits on its root.        *)
StatesSound ==
  /\ Sound(startup)
  /\ converted # None => Sound(converted.root)
  /\ session # None => Sound(session.root) /\ Sound(session.st) /\ OnItsRoot(session)

(* Transactions are executed one at a time: what was validated, and what   *)
(* is executed, was validated against the committed state, and the reader  *)
(* is at most one refresh behind.                                          *)
OneAtATime ==
  /\ exec.root = startup
  /\ IF refresh = None THEN reader.root = startup ELSE refresh.root = startup
  /\ verified # None => /\ verified.root = startup /\ refresh = None
                        /\ validate(startup, verified.tx) /\ verified.tx.max > 0
  /\ session # None /\ ~session.dry =>
       /\ session.root = startup /\ verified = None /\ refresh = None
       /\ session.tx.seq = sequence_number(startup, session.tx.sender)

(* The code in the cache of m is the code of state s.                      *)
Cached(m, s) == \A p \in Packages : m.cache[p] # None => m.cache[p] = s.code[p]

(* State t has every package of state s as it is there.                    *)
Extends(s, t) == \A p \in Packages : s.code[p] # None => t.code[p] = s.code[p]

(* What a session x may find in the cache of m and what it may leave there *)
(* when the sessions in t were thrown away.                                *)
SessionCode(m, x, t) ==
  /\ m.table # None
  /\ m.invalid <=> x.flag = TRUE /\ x.phase = "cleanup"
  /\ x.flag # TRUE /\ "flag" \notin t => Extends(x.root, x.st)
  /\ t \cap {"load", "flag"} = {} =>
       /\ ~m.invalid /\ ~x.foreign => Cached(m, m.root)
       /\ ~x.dry /\ x.flag # TRUE => Cached(m, x.st)

(* The session's code, and what the refresh on its way tells the reader.   *)
CodeFollows ==
  /\ session # None => SessionCode(exec, session, taint)
  /\ refresh # None /\ ~refresh.upgrade /\ "flag" \notin taint => Extends(reader.root, refresh.root)

(* The caches that follow every upgrade.                                   *)
CurrentCaches == TableIsCurrent /\ LoaderIsCurrent /\ ReaderIsCurrent

(* The strengthening the theorems of this module rest on.                  *)
SettlementInv ==
  TypeOKExecution /\ StatesSound /\ OneAtATime /\ CodeFollows /\ CurrentCaches /\ DepositIsCovered

--------------------------------------------------------------------------------
(* The operations on states keep them sound.                               *)

(* A state with other coins is a state.                                    *)
LEMMA OtherCoins ==
  ASSUME NEW s \in States, NEW b \in [Accounts -> Nat], NEW h \in SUBSET Accounts,
         NEW p \in Nat, NEW u \in Nat
  PROVE  [s EXCEPT !.bal = b, !.store = h, !.pool = p, !.supply = u] \in States
BY DEF States

(* Crediting an account with new coins.                                    *)
LEMMA MintedSound ==
  ASSUME NEW s, Sound(s), NEW a \in Accounts, NEW n \in Nat
  PROVE  LET r == Minted(s, a, n)
         IN /\ Sound(r)
            /\ r.acct = s.acct /\ r.seq = s.seq /\ r.pool = s.pool /\ r.sched = s.sched
            /\ r.code = s.code
<1> DEFINE r == Minted(s, a, n)
           b == [s.bal EXCEPT ![a] = @ + n]
<1>1. s \in States /\ s.bal \in [Accounts -> Nat] /\ s.supply \in Nat /\ s.pool \in Nat
      /\ s.store \in SUBSET Accounts
  BY DEF Sound, States
<1>2. b \in [Accounts -> Nat] /\ b[a] = s.bal[a] + n /\ s.bal[a] \in Nat
      /\ \A c \in Accounts \ {a} : b[c] = s.bal[c]
  BY <1>1
<1>3. r = [s EXCEPT !.bal = b, !.store = s.store \cup {a}, !.supply = s.supply + n]
  BY <1>1 DEF Minted, Deposit, States
<1> HIDE DEF r, b
<1>4. /\ r.acct = s.acct /\ r.seq = s.seq /\ r.pool = s.pool /\ r.sched = s.sched
      /\ r.code = s.code /\ r.bal = b /\ r.store = s.store \cup {a}
      /\ r.supply = s.supply + n
  BY <1>1, <1>3 DEF States
<1>5. r \in States
  <2>1. r = [s EXCEPT !.bal = b, !.store = s.store \cup {a}, !.pool = s.pool,
                      !.supply = s.supply + n]
    BY <1>1, <1>3 DEF States
  <2>2. s.supply + n \in Nat /\ s.store \cup {a} \in SUBSET Accounts
    BY <1>1
  <2> QED BY <1>1, <1>2, <2>1, <2>2, OtherCoins
<1>6. Total(b) = Total(s.bal) + n
  <2>1. Total(b) = Total(s.bal) + (b[a] - s.bal[a])
    BY <1>1, <1>2, TotalChange
  <2> QED BY <1>2, <2>1
<1>7. Coins(r) = r.supply
  <2>1. Coins(r) = Total(b) + s.pool /\ Coins(s) = Total(s.bal) + s.pool /\ Total(s.bal) \in Nat
    BY <1>1, <1>4, <1>5, CoinsOfState
  <2>2. Coins(s) = s.supply
    BY DEF Sound
  <2> QED BY <1>1, <1>4, <1>6, <2>1, <2>2
<1>8. \A c \in Accounts : c \notin r.acct => r.seq[c] = 0
  BY <1>4 DEF Sound
<1>9. \A c \in Accounts : c \notin r.store => r.bal[c] = 0
  BY <1>2, <1>4 DEF Sound
<1>10. Sound(r)
  BY <1>5, <1>7, <1>8, <1>9 DEF Sound
<1> QED BY <1>4, <1>10 DEF r

(* Creating an account, with its faucet coins on a local or dev chain.     *)
LEMMA CreatedSound ==
  ASSUME NEW s, Sound(s), NEW a \in Accounts
  PROVE  LET r == Created(s, a)
         IN /\ Sound(r)
            /\ r.acct = s.acct \cup {a} /\ r.seq = s.seq /\ r.pool = s.pool
            /\ r.sched = s.sched /\ r.code = s.code
<1> DEFINE n == [s EXCEPT !.acct = @ \cup {a}]
           r == Created(s, a)
<1>1. s \in States
  BY DEF Sound
<1>2. n.acct = s.acct \cup {a} /\ n.seq = s.seq /\ n.pool = s.pool /\ n.sched = s.sched
      /\ n.code = s.code /\ n.bal = s.bal /\ n.store = s.store /\ n.supply = s.supply
      /\ n \in States
  BY <1>1 DEF States
<1> HIDE DEF n
<1>3. Sound(n)
  <2>1. Coins(n) = Coins(s)
    BY <1>1, <1>2, CoinsOfState
  <2>2. \A c \in Accounts : c \notin n.acct => n.seq[c] = 0
    BY <1>2 DEF Sound
  <2>3. \A c \in Accounts : c \notin n.store => n.bal[c] = 0
    BY <1>2 DEF Sound
  <2>4. Coins(s) = s.supply
    BY DEF Sound
  <2> QED BY <1>2, <2>1, <2>2, <2>3, <2>4 DEF Sound
<1>4. CASE a \in s.acct
  <2>1. r = s /\ s.acct = s.acct \cup {a}
    BY <1>4 DEF Created
  <2> QED BY <2>1
<1>5. CASE a \notin s.acct /\ LocalOrDev
  <2>1. r = Minted(n, a, FaucetCoins)
    BY <1>5 DEF Created, n
  <2>2. FaucetCoins \in Nat
    BY ExecutionAssumption
  <2> QED BY <1>2, <1>3, <2>1, <2>2, MintedSound
<1>6. CASE a \notin s.acct /\ ~LocalOrDev
  <2>1. r = n
    BY <1>6 DEF Created, n
  <2> QED BY <1>2, <1>3, <2>1
<1> QED BY <1>4, <1>5, <1>6

(* The deposit of a transaction moves from its sender to the pool.         *)
LEMMA PreExecuteSound ==
  ASSUME NEW s, Sound(s), NEW t \in Tx, CanPreExecute(s, t)
  PROVE  LET r == pre_execute(s, t)
         IN /\ Sound(r)
            /\ r.acct = s.acct \cup {t.sender} /\ r.seq = s.seq /\ r.pool = s.pool + t.max
            /\ r.sched = s.sched /\ r.code = s.code
<1> DEFINE n == Created(s, t.sender)
           a == t.sender
           r == pre_execute(s, t)
           b == [n.bal EXCEPT ![a] = @ - t.max]
<1>1. a \in Accounts /\ t.max \in Nat
  BY ExecutionAssumption DEF Tx
<1>2. Sound(n) /\ n.acct = s.acct \cup {a} /\ n.seq = s.seq /\ n.pool = s.pool
      /\ n.sched = s.sched /\ n.code = s.code
  BY <1>1, CreatedSound
<1>3. a \in n.store /\ n.bal[a] >= t.max
  BY DEF CanPreExecute, CanWithdraw
<1>4. r = [[n EXCEPT !.bal[a] = @ - t.max] EXCEPT !.pool = @ + t.max]
  BY DEF pre_execute, Withdraw
<1> HIDE DEF n, a, r
<1>5. n \in States /\ n.bal \in [Accounts -> Nat] /\ n.pool \in Nat /\ n.bal[a] \in Nat
  BY <1>1, <1>2 DEF Sound, States
<1>6. b \in [Accounts -> Nat] /\ b[a] = n.bal[a] - t.max
      /\ \A c \in Accounts \ {a} : b[c] = n.bal[c]
  BY <1>1, <1>3, <1>5
<1>7. r = [n EXCEPT !.bal = b, !.pool = n.pool + t.max]
  BY <1>4, <1>5 DEF States
<1> HIDE DEF b
<1>8. r.acct = n.acct /\ r.seq = n.seq /\ r.pool = n.pool + t.max /\ r.sched = n.sched
      /\ r.code = n.code /\ r.bal = b /\ r.store = n.store /\ r.supply = n.supply
  BY <1>5, <1>7 DEF States
<1>9. r \in States
  <2>1. n.store \in SUBSET Accounts /\ n.supply \in Nat /\ n.pool + t.max \in Nat
    BY <1>1, <1>5 DEF States
  <2>2. r = [n EXCEPT !.bal = b, !.store = n.store, !.pool = n.pool + t.max,
                      !.supply = n.supply]
    BY <1>5, <1>7 DEF States
  <2> QED BY <1>5, <1>6, <2>1, <2>2, OtherCoins
<1>10. Coins(r) = r.supply
  <2>1. Total(b) = Total(n.bal) + (b[a] - n.bal[a])
    BY <1>1, <1>5, <1>6, TotalChange
  <2>2. Coins(r) = Total(b) + r.pool /\ Coins(n) = Total(n.bal) + n.pool
        /\ Total(n.bal) \in Nat
    BY <1>5, <1>8, <1>9, CoinsOfState
  <2>3. Coins(n) = n.supply
    BY <1>2 DEF Sound
  <2> QED BY <1>1, <1>5, <1>6, <1>8, <2>1, <2>2, <2>3
<1>11. \A c \in Accounts : c \notin r.acct => r.seq[c] = 0
  BY <1>2, <1>8 DEF Sound
<1>12. \A c \in Accounts : c \notin r.store => r.bal[c] = 0
  BY <1>2, <1>3, <1>6, <1>8 DEF Sound
<1>13. Sound(r)
  BY <1>9, <1>10, <1>11, <1>12 DEF Sound
<1> QED BY <1>2, <1>8, <1>13 DEF r, a

(* Settings, the gas schedule and code are no coins.                       *)
LEMMA SameCoinsSound ==
  ASSUME NEW s, Sound(s), NEW r \in States,
         r.acct = s.acct, r.seq = s.seq, r.bal = s.bal, r.store = s.store, r.pool = s.pool,
         r.supply = s.supply
  PROVE  Sound(r)
<1>1. Coins(r) = Coins(s)
  BY CoinsOfState DEF Sound
<1> QED BY <1>1 DEF Sound

(* A transfer moves coins between two accounts, or leaves them with one.   *)
LEMMA TransferSound ==
  ASSUME NEW s, Sound(s), NEW from \in Accounts, NEW to \in Accounts, NEW n \in Nat,
         CanWithdraw(s, from, n)
  PROVE  LET r == Deposit(Withdraw(s, from, n), to, n)
         IN /\ Sound(r)
            /\ r.acct = s.acct /\ r.seq = s.seq /\ r.pool = s.pool /\ r.sched = s.sched
            /\ r.code = s.code
<1> DEFINE r == Deposit(Withdraw(s, from, n), to, n)
           b == [s.bal EXCEPT ![from] = @ - n]
           c == [b EXCEPT ![to] = @ + n]
<1>1. s \in States /\ s.bal \in [Accounts -> Nat] /\ s.supply \in Nat /\ s.pool \in Nat
      /\ s.store \in SUBSET Accounts /\ s.bal[from] \in Nat
  BY DEF Sound, States
<1>2. b \in [Accounts -> Nat] /\ b[from] = s.bal[from] - n
      /\ \A d \in Accounts \ {from} : b[d] = s.bal[d]
  BY <1>1 DEF CanWithdraw
<1>3. r = [s EXCEPT !.bal = c, !.store = s.store \cup {to}]
  BY <1>1 DEF Deposit, Withdraw, States
<1> HIDE DEF b, r
<1>4. c \in [Accounts -> Nat] /\ c[to] = b[to] + n /\ b[to] \in Nat
      /\ \A d \in Accounts \ {to} : c[d] = b[d]
  BY <1>2
<1> HIDE DEF c
<1>5. r.acct = s.acct /\ r.seq = s.seq /\ r.pool = s.pool /\ r.sched = s.sched
      /\ r.code = s.code /\ r.bal = c /\ r.store = s.store \cup {to} /\ r.supply = s.supply
  BY <1>1, <1>3 DEF States
<1>6. r \in States
  <2>1. r = [s EXCEPT !.bal = c, !.store = s.store \cup {to}, !.pool = s.pool,
                      !.supply = s.supply]
    BY <1>1, <1>3 DEF States
  <2>2. s.store \cup {to} \in SUBSET Accounts
    BY <1>1
  <2> QED BY <1>1, <1>4, <2>1, <2>2, OtherCoins
<1>7. Coins(r) = r.supply
  <2>1. Total(b) = Total(s.bal) + (b[from] - s.bal[from])
    BY <1>1, <1>2, TotalChange
  <2>2. Total(c) = Total(b) + (c[to] - b[to])
    BY <1>2, <1>4, TotalChange
  <2>3. Coins(r) = Total(c) + s.pool /\ Coins(s) = Total(s.bal) + s.pool /\ Total(s.bal) \in Nat
    BY <1>1, <1>5, <1>6, CoinsOfState
  <2>4. Coins(s) = s.supply
    BY DEF Sound
  <2> QED BY <1>1, <1>2, <1>4, <1>5, <2>1, <2>2, <2>3, <2>4
<1>8. \A d \in Accounts : d \notin r.acct => r.seq[d] = 0
  BY <1>5 DEF Sound
<1>9. \A d \in Accounts : d \notin r.store => r.bal[d] = 0
  <2> SUFFICES ASSUME NEW d \in Accounts, d \notin r.store PROVE r.bal[d] = 0
    OBVIOUS
  <2>1. d \notin s.store /\ d # to /\ s.bal[d] = 0
    BY <1>5 DEF Sound
  <2>2. d # from
    BY <2>1 DEF CanWithdraw
  <2> QED BY <1>2, <1>4, <1>5, <2>1, <2>2
<1>10. Sound(r)
  BY <1>6, <1>7, <1>8, <1>9 DEF Sound
<1> QED BY <1>5, <1>10 DEF r

(* Removing a coin store burns what is in it.                              *)
LEMMA RemoveStoreSound ==
  ASSUME NEW s, Sound(s), NEW a \in Accounts
  PROVE  LET r == [s EXCEPT !.store = @ \ {a}, !.bal[a] = 0, !.supply = @ - s.bal[a]]
         IN /\ Sound(r)
            /\ r.acct = s.acct /\ r.seq = s.seq /\ r.pool = s.pool /\ r.sched = s.sched
            /\ r.code = s.code
<1> DEFINE r == [s EXCEPT !.store = @ \ {a}, !.bal[a] = 0, !.supply = @ - s.bal[a]]
           b == [s.bal EXCEPT ![a] = 0]
<1>1. s \in States /\ s.bal \in [Accounts -> Nat] /\ s.supply \in Nat /\ s.pool \in Nat
      /\ s.store \in SUBSET Accounts /\ s.bal[a] \in Nat
  BY DEF Sound, States
<1>2. b \in [Accounts -> Nat] /\ b[a] = 0 /\ \A d \in Accounts \ {a} : b[d] = s.bal[d]
  BY <1>1
<1>3. r = [s EXCEPT !.bal = b, !.store = s.store \ {a}, !.supply = s.supply - s.bal[a]]
  BY <1>1 DEF States
<1> HIDE DEF b, r
<1>4. r.acct = s.acct /\ r.seq = s.seq /\ r.pool = s.pool /\ r.sched = s.sched
      /\ r.code = s.code /\ r.bal = b /\ r.store = s.store \ {a}
      /\ r.supply = s.supply - s.bal[a]
  BY <1>1, <1>3 DEF States
<1>5. Total(b) = Total(s.bal) - s.bal[a] /\ Total(b) \in Nat
  <2>1. Total(b) = Total(s.bal) + (b[a] - s.bal[a])
    BY <1>1, <1>2, TotalChange
  <2>2. Total(b) \in Nat /\ Total(s.bal) \in Nat
    BY <1>1, <1>2, TotalType
  <2> QED BY <1>1, <1>2, <2>1, <2>2
<1>6. Coins(s) = s.supply /\ Coins(s) = Total(s.bal) + s.pool /\ Total(s.bal) \in Nat
  BY <1>1, CoinsOfState DEF Sound
<1>7. s.supply - s.bal[a] = Total(b) + s.pool /\ s.supply - s.bal[a] \in Nat
  BY <1>1, <1>5, <1>6
<1>8. r \in States
  <2>1. r = [s EXCEPT !.bal = b, !.store = s.store \ {a}, !.pool = s.pool,
                      !.supply = s.supply - s.bal[a]]
    BY <1>1, <1>3 DEF States
  <2>2. s.store \ {a} \in SUBSET Accounts
    BY <1>1
  <2> QED BY <1>1, <1>2, <1>7, <2>1, <2>2, OtherCoins
<1>9. Coins(r) = r.supply
  BY <1>4, <1>7, <1>8, CoinsOfState
<1>10. \A d \in Accounts : d \notin r.acct => r.seq[d] = 0
  BY <1>4 DEF Sound
<1>11. \A d \in Accounts : d \notin r.store => r.bal[d] = 0
  BY <1>2, <1>4 DEF Sound
<1>12. Sound(r)
  BY <1>8, <1>9, <1>10, <1>11 DEF Sound
<1> QED BY <1>4, <1>12 DEF r

(* Counting a transaction of an account that exists.                       *)
LEMMA CountedSound ==
  ASSUME NEW s, Sound(s), NEW a \in s.acct, s.seq[a] <= MaxSeq
  PROVE  LET n == [s EXCEPT !.seq[a] = @ + 1]
         IN /\ Sound(n) /\ n.seq = [s.seq EXCEPT ![a] = @ + 1]
            /\ n.acct = s.acct /\ n.bal = s.bal /\ n.store = s.store /\ n.pool = s.pool
            /\ n.sched = s.sched /\ n.code = s.code /\ n.refuse = s.refuse
<1> DEFINE n == [s EXCEPT !.seq[a] = @ + 1]
           q == [s.seq EXCEPT ![a] = @ + 1]
<1>1. s \in States /\ a \in Accounts /\ MaxSeq \in Nat /\ s.seq \in [Accounts -> 0..(MaxSeq + 1)]
  BY ExecutionAssumption DEF Sound, States
<1>2. q \in [Accounts -> 0..(MaxSeq + 1)] /\ \A c \in Accounts \ {a} : q[c] = s.seq[c]
  BY <1>1
<1>3. n = [s EXCEPT !.seq = q]
  BY <1>1 DEF States
<1> HIDE DEF n, q
<1>4. n \in States
  BY <1>1, <1>2, <1>3 DEF States
<1>5. n.seq = q /\ n.acct = s.acct /\ n.bal = s.bal /\ n.store = s.store /\ n.pool = s.pool
      /\ n.supply = s.supply /\ n.sched = s.sched /\ n.code = s.code /\ n.refuse = s.refuse
  BY <1>1, <1>3 DEF States
<1>6. Coins(n) = n.supply
  <2>1. Coins(n) = Coins(s)
    BY <1>1, <1>4, <1>5, CoinsOfState
  <2> QED BY <1>5, <2>1 DEF Sound
<1>7. \A c \in Accounts : c \notin n.acct => n.seq[c] = 0
  BY <1>2, <1>5 DEF Sound
<1>8. \A c \in Accounts : c \notin n.store => n.bal[c] = 0
  BY <1>5 DEF Sound
<1>9. Sound(n)
  BY <1>4, <1>6, <1>7, <1>8 DEF Sound
<1> QED BY <1>5, <1>9 DEF n, q

(* r is state s with transaction t counted and refunded.                   *)
Refunded(s, t, used, r) ==
  /\ Sound(r)
  /\ r.acct = s.acct /\ r.seq = [s.seq EXCEPT ![t.sender] = @ + 1]
  /\ r.pool = s.pool - (t.max - used) /\ r.sched = s.sched /\ r.code = s.code
  /\ r.refuse = s.refuse /\ r.supply = s.supply
  /\ r.bal = [s.bal EXCEPT ![t.sender] = @ + (t.max - used)]
  /\ r.store = IF used < t.max THEN s.store \cup {t.sender} ELSE s.store

(* post_execute counts the transaction and refunds from the pool.          *)
LEMMA PostExecuteSound ==
  ASSUME NEW s, Sound(s), NEW t \in Tx, NEW used \in Nat, used <= t.max,
         t.sender \in s.acct, s.seq[t.sender] <= MaxSeq, CanPostExecute(s, t, used)
  PROVE  Refunded(s, t, used, post_execute(s, t, used))
<1> DEFINE a == t.sender
           n == [s EXCEPT !.seq[a] = @ + 1]
           k == t.max - used
           r == post_execute(s, t, used)
           b == [n.bal EXCEPT ![a] = @ + k]
<1>1. a \in Accounts /\ t.max \in Nat /\ k \in Nat
  <2>1. a \in Accounts /\ t.max \in Nat
    BY ExecutionAssumption DEF Tx
  <2> QED BY <2>1
<1>2. Sound(n) /\ n.seq = [s.seq EXCEPT ![a] = @ + 1]
      /\ n.acct = s.acct /\ n.bal = s.bal /\ n.store = s.store /\ n.pool = s.pool
      /\ n.sched = s.sched /\ n.code = s.code /\ n.refuse = s.refuse
  BY CountedSound
<1>3. n.supply = s.supply
  BY DEF Sound, States
<1>4. used < t.max => r = [Deposit(n, a, k) EXCEPT !.pool = @ - k] /\ s.pool >= k
  BY DEF post_execute, CanPostExecute
<1>5. ~(used < t.max) => r = n /\ k = 0
  BY <1>1 DEF post_execute
<1> HIDE DEF n, r, a, k
<1>6. n \in States /\ n.bal \in [Accounts -> Nat] /\ n.pool \in Nat /\ n.supply \in Nat
      /\ n.store \in SUBSET Accounts /\ n.bal[a] \in Nat
  BY <1>1, <1>2 DEF Sound, States
<1>7. CASE used < t.max
  <2>1. b \in [Accounts -> Nat] /\ b[a] = n.bal[a] + k
        /\ \A c \in Accounts \ {a} : b[c] = n.bal[c]
    BY <1>1, <1>6
  <2>2. r = [n EXCEPT !.bal = b, !.store = n.store \cup {a}, !.pool = n.pool - k]
    BY <1>4, <1>6, <1>7 DEF Deposit, States
  <2>3. r.acct = n.acct /\ r.seq = n.seq /\ r.pool = n.pool - k /\ r.sched = n.sched
        /\ r.code = n.code /\ r.bal = b /\ r.store = n.store \cup {a} /\ r.supply = n.supply
        /\ r.refuse = n.refuse
    BY <1>6, <2>2 DEF States
  <2> HIDE DEF b
  <2>4. r \in States
    <3>1. r = [n EXCEPT !.bal = b, !.store = n.store \cup {a}, !.pool = n.pool - k,
                        !.supply = n.supply]
      BY <1>6, <2>2 DEF States
    <3>2. n.store \cup {a} \in SUBSET Accounts /\ n.pool - k \in Nat
      BY <1>1, <1>2, <1>4, <1>6, <1>7
    <3> QED BY <1>6, <2>1, <3>1, <3>2, OtherCoins
  <2>5. Coins(r) = r.supply
    <3>1. Total(b) = Total(n.bal) + (b[a] - n.bal[a])
      BY <1>1, <1>6, <2>1, TotalChange
    <3>2. Coins(r) = Total(b) + r.pool /\ Coins(n) = Total(n.bal) + n.pool
          /\ Total(n.bal) \in Nat
      BY <1>6, <2>3, <2>4, CoinsOfState
    <3>3. Coins(n) = n.supply
      BY <1>2 DEF Sound
    <3> QED BY <1>1, <1>6, <2>1, <2>3, <3>1, <3>2, <3>3
  <2>6. \A c \in Accounts : c \notin r.acct => r.seq[c] = 0
    BY <1>2, <2>3 DEF Sound
  <2>7. \A c \in Accounts : c \notin r.store => r.bal[c] = 0
    BY <1>2, <2>1, <2>3 DEF Sound
  <2>8. Sound(r)
    BY <2>4, <2>5, <2>6, <2>7 DEF Sound
  <2> QED BY <1>2, <1>3, <1>7, <2>3, <2>8 DEF r, a, b, k, Refunded
<1>8. CASE ~(used < t.max)
  <2>1. n.bal = [n.bal EXCEPT ![a] = @ + 0] /\ n.pool = n.pool - 0
    BY <1>1, <1>6
  <2> QED BY <1>2, <1>3, <1>5, <1>8, <2>1 DEF r, a, k, Refunded
<1> QED BY <1>7, <1>8

--------------------------------------------------------------------------------
(* Steps of a session.                                                     *)

(* What the parts of the invariant say of a session in progress.           *)
LEMMA SessionParts ==
  ASSUME SettlementInv, session # None
  PROVE  /\ session \in Sessions /\ session.left <= session.tx.max /\ exec \in MoveOSes
         /\ Sound(session.root) /\ Sound(session.st) /\ OnItsRoot(session)
         /\ SessionCode(exec, session, taint) /\ exec.root = startup
         /\ ~session.dry => session.root = startup
BY DEF SettlementInv, TypeOKExecution, StatesSound, OneAtATime, CodeFollows

(* Fields of a session and of a transaction.                               *)
LEMMA SessionFields ==
  ASSUME NEW x \in Sessions
  PROVE  /\ x.tx \in Tx /\ x.root \in States /\ x.st \in States /\ x.left \in Nat
         /\ x.tx.sender \in Accounts /\ x.tx.max \in Nat
         /\ x.phase \in {"action", "init", "cleanup"} /\ x.status \in {None, "executed", "failed"}
         /\ x.updated \in BOOLEAN /\ x.flag \in BOOLEAN \cup {None} /\ x.inits \in SUBSET Packages
         /\ x.foreign \in BOOLEAN /\ x.dry \in BOOLEAN /\ x.ops \in Nat
<1>1. x.tx \in Tx
  BY DEF Sessions
<1>2. x.tx.sender \in Accounts /\ x.tx.max \in Nat
  BY <1>1, ExecutionAssumption DEF Tx
<1> QED BY <1>1, <1>2 DEF Sessions

(* Fields of a MoveOS, and what an operation costs.                        *)
LEMMA MoveOSFields ==
  ASSUME NEW m \in MoveOSes
  PROVE  /\ m.root \in States /\ m.table \in (0..MaxVersion) \cup {None} /\ m.natives \in 0..MaxVersion
         /\ m.cache \in [Packages -> Codes \cup {None}] /\ m.invalid \in BOOLEAN
         /\ m.table # None => OpCost(m) \in Nat /\ OpCost(m) > 0 /\ Fee(m.table) \in Nat
<1>1. m.table \in (0..MaxVersion) \cup {None} /\ m.natives \in 0..MaxVersion
  BY DEF MoveOSes
<1>2. m.table # None => OpCost(m) \in Nat /\ OpCost(m) > 0 /\ Fee(m.table) \in Nat
  BY <1>1 DEF OpCost, Fee
<1> QED BY <1>1, <1>2 DEF MoveOSes

(* A step that changes only the session, what the loader cached and what   *)
(* was thrown away keeps the invariant if the session does.                *)
LEMMA SessionStep ==
  ASSUME SettlementInv, session # None,
         UNCHANGED <<startup, reader, verified, converted, refresh, panicked>>,
         session' \in Sessions, session'.left <= session'.tx.max,
         session'.tx = session.tx, session'.root = session.root, session'.dry = session.dry,
         Sound(session'.st), OnItsRoot(session'),
         exec' \in MoveOSes, exec'.root = exec.root, exec'.table = exec.table,
         taint \subseteq taint', SessionCode(exec', session', taint')
  PROVE  SettlementInv'
<1>1. session' # None
  BY NoneAssumption
<1>2. TypeOKExecution'
  BY DEF SettlementInv, TypeOKExecution
<1>3. StatesSound'
  <2>1. Sound(startup) /\ (converted # None => Sound(converted.root)) /\ Sound(session.root)
    BY DEF SettlementInv, StatesSound
  <2>2. Sound(startup') /\ (converted' # None => Sound(converted'.root)) /\ Sound(session'.root)
    BY <2>1
  <2> QED BY <2>2 DEF StatesSound
<1>4. OneAtATime'
  <2>1. OneAtATime
    BY DEF SettlementInv
  <2> QED BY <2>1 DEF OneAtATime
<1>5. CodeFollows'
  <2>1. CodeFollows
    BY DEF SettlementInv
  <2> QED BY <2>1 DEF CodeFollows
<1>6. CurrentCaches'
  <2>1. CurrentCaches
    BY DEF SettlementInv
  <2>2. TableIsCurrent'
    BY <2>1 DEF CurrentCaches, TableIsCurrent
  <2>3. LoaderIsCurrent'
    BY <1>1 DEF LoaderIsCurrent
  <2>4. ReaderIsCurrent'
    BY <2>1 DEF CurrentCaches, ReaderIsCurrent
  <2> QED BY <2>2, <2>3, <2>4 DEF CurrentCaches
<1>7. DepositIsCovered'
  BY DEF SettlementInv, DepositIsCovered
<1> QED BY <1>2, <1>3, <1>4, <1>5, <1>6, <1>7 DEF SettlementInv

(* One operation of the program.                                           *)
LEMMA OpStep ==
  ASSUME SettlementInv, session # None, session.phase # "cleanup", Paid,
         NEW m \in MoveOSes, m.root = exec.root, m.table = exec.table,
         NEW x \in Sessions, x.tx = session.tx, x.root = session.root, x.dry = session.dry,
         x.left = session.left, x.phase = session.phase, x.status = session.status,
         Sound(x.st), x.st.acct = session.st.acct, x.st.seq = session.st.seq,
         x.st.pool = session.st.pool,
         ~x.updated => x.st.sched = session.st.sched /\ ~session.updated,
         taint \subseteq taint', SessionCode(m, x, taint'), Op(m, x)
  PROVE  SettlementInv'
<1>1. session \in Sessions /\ session.left <= session.tx.max /\ exec \in MoveOSes
      /\ OnItsRoot(session) /\ exec.table # None
  BY SessionParts DEF SessionCode
<1>2. Cost \in Nat /\ session.left \in Nat /\ session.tx.max \in Nat
  BY <1>1, MoveOSFields, SessionFields DEF Cost
<1> DEFINE y == [x EXCEPT !.left = @ - Cost, !.ops = @ + 1]
<1>3. session' = y /\ exec' = m
      /\ UNCHANGED <<startup, reader, verified, converted, refresh, panicked>>
  BY DEF Op
<1>4. y.tx = x.tx /\ y.root = x.root /\ y.st = x.st /\ y.phase = x.phase /\ y.status = x.status
      /\ y.updated = x.updated /\ y.flag = x.flag /\ y.foreign = x.foreign /\ y.dry = x.dry
      /\ y.left = x.left - Cost
  BY DEF Sessions
<1>5. x.left - Cost \in Nat /\ x.left - Cost <= x.tx.max /\ x.ops + 1 \in Nat
  BY <1>1, <1>2, SessionFields DEF Paid
<1>6. y \in Sessions
  BY <1>5 DEF Sessions
<1> HIDE DEF y
<1>7. OnItsRoot(y)
  <2>1. x.status # "failed"
    BY <1>1, NoneAssumption DEF OnItsRoot
  <2> QED BY <1>1, <1>4, <2>1 DEF OnItsRoot
<1>8. SessionCode(m, y, taint')
  BY <1>4 DEF SessionCode
<1>9. session' \in Sessions /\ session'.left <= session'.tx.max /\ session'.tx = session.tx
      /\ session'.root = session.root /\ session'.dry = session.dry /\ Sound(session'.st)
      /\ OnItsRoot(session')
  BY <1>3, <1>4, <1>5, <1>6, <1>7
<1>10. SessionCode(exec', session', taint')
  BY <1>3, <1>8
<1> QED BY <1>3, <1>9, <1>10, SessionStep

(* An operation on coins and settings.                                     *)
LEMMA CoinStep ==
  ASSUME SettlementInv, session # None, session.phase # "cleanup", Paid,
         NEW r, Sound(r), r.acct = session.st.acct, r.seq = session.st.seq,
         r.pool = session.st.pool, r.sched = session.st.sched, r.code = session.st.code,
         Op(exec, [session EXCEPT !.st = r]), taint' = taint
  PROVE  SettlementInv'
<1> DEFINE x == [session EXCEPT !.st = r]
<1>1. session \in Sessions /\ exec \in MoveOSes /\ SessionCode(exec, session, taint)
  BY SessionParts
<1>2. r \in States
  BY DEF Sound
<1>3. x.tx = session.tx /\ x.root = session.root /\ x.st = r /\ x.phase = session.phase
      /\ x.status = session.status /\ x.updated = session.updated /\ x.flag = session.flag
      /\ x.foreign = session.foreign /\ x.dry = session.dry /\ x.left = session.left
  BY <1>1 DEF Sessions
<1>4. x \in Sessions
  BY <1>1, <1>2 DEF Sessions
<1> HIDE DEF x
<1>5. SessionCode(exec, x, taint')
  BY <1>1, <1>3 DEF SessionCode, Extends, Cached
<1>6. Op(exec, x)
  BY DEF x
<1> QED BY <1>1, <1>3, <1>4, <1>5, <1>6, OpStep

(* The operations on coins and settings.                                   *)
LEMMA CoinOperations ==
  ASSUME SettlementInv,
         \/ \E to \in Accounts, n \in Amounts : Transfer(to, n)
         \/ Faucet \/ remove_coin_store
         \/ \E accept \in BOOLEAN : set_auto_accept_coin(accept)
  PROVE  SettlementInv'
<1> DEFINE a == session.tx.sender
           s == session.st
<1>1. session # None /\ session.phase # "cleanup" /\ Paid /\ taint' = taint
  BY DEF Transfer, Faucet, remove_coin_store, set_auto_accept_coin, Running, In
<1>2. a \in Accounts /\ Sound(s) /\ session \in Sessions /\ s \in States
  BY <1>1, SessionParts, SessionFields
<1>3. CASE \E to \in Accounts, n \in Amounts : Transfer(to, n)
  <2>1. PICK to \in Accounts, n \in Amounts : Transfer(to, n)
    BY <1>3
  <2> DEFINE r == Deposit(Withdraw(s, a, n), to, n)
  <2>2. CanWithdraw(s, a, n) /\ Op(exec, [session EXCEPT !.st = r]) /\ n \in Nat
    BY <2>1, ExecutionAssumption DEF Transfer
  <2>3. Sound(r) /\ r.acct = s.acct /\ r.seq = s.seq /\ r.pool = s.pool /\ r.sched = s.sched
        /\ r.code = s.code
    BY <1>2, <2>2, TransferSound
  <2> HIDE DEF r
  <2> QED BY <1>1, <2>2, <2>3, CoinStep
<1>4. CASE Faucet
  <2> DEFINE r == Minted(s, a, FaucetCoins)
  <2>1. Op(exec, [session EXCEPT !.st = r]) /\ FaucetCoins \in Nat
    BY <1>4, ExecutionAssumption DEF Faucet
  <2>2. Sound(r) /\ r.acct = s.acct /\ r.seq = s.seq /\ r.pool = s.pool /\ r.sched = s.sched
        /\ r.code = s.code
    BY <1>2, <2>1, MintedSound
  <2> HIDE DEF r
  <2> QED BY <1>1, <2>1, <2>2, CoinStep
<1>5. CASE remove_coin_store
  <2> DEFINE r == [s EXCEPT !.store = @ \ {a}, !.bal[a] = 0, !.supply = @ - s.bal[a]]
  <2>1. Op(exec, [session EXCEPT !.st = r])
    BY <1>5 DEF remove_coin_store
  <2>2. Sound(r) /\ r.acct = s.acct /\ r.seq = s.seq /\ r.pool = s.pool /\ r.sched = s.sched
        /\ r.code = s.code
    BY <1>2, RemoveStoreSound
  <2> HIDE DEF r
  <2> QED BY <1>1, <2>1, <2>2, CoinStep
<1>6. CASE \E accept \in BOOLEAN : set_auto_accept_coin(accept)
  <2>1. PICK accept \in BOOLEAN : set_auto_accept_coin(accept)
    BY <1>6
  <2> DEFINE f == IF accept THEN s.refuse \ {a} ELSE s.refuse \cup {a}
             r == [s EXCEPT !.refuse = f]
  <2>2. Op(exec, [session EXCEPT !.st.refuse = IF accept THEN @ \ {a} ELSE @ \cup {a}])
    BY <2>1 DEF set_auto_accept_coin
  <2>3. [session EXCEPT !.st.refuse = IF accept THEN @ \ {a} ELSE @ \cup {a}]
          = [session EXCEPT !.st = r]
    BY <1>2 DEF Sessions, States
  <2>4. f \in SUBSET Accounts
    BY <1>2 DEF States
  <2>5. r \in States /\ r.acct = s.acct /\ r.seq = s.seq /\ r.pool = s.pool /\ r.sched = s.sched
        /\ r.code = s.code /\ r.bal = s.bal /\ r.store = s.store /\ r.supply = s.supply
    BY <1>2, <2>4 DEF States
  <2>6. Op(exec, [session EXCEPT !.st = r])
    BY <2>2, <2>3
  <2> HIDE DEF r, s
  <2>7. Sound(r)
    BY <1>2, <2>5, SameCoinsSound
  <2> QED BY <1>1, <2>5, <2>6, <2>7, CoinStep DEF s
<1> QED BY <1>3, <1>4, <1>5, <1>6

(* An upgrade of the gas schedule is noted in the session.                 *)
LEMMA UpgradeSchedule ==
  ASSUME SettlementInv, upgrade_gas_schedule
  PROVE  SettlementInv'
<1> DEFINE s == session.st
           x == [session EXCEPT !.st.sched = @ + 1, !.updated = TRUE]
           r == [s EXCEPT !.sched = @ + 1]
<1>1. session # None /\ session.phase # "cleanup" /\ Paid /\ taint' = taint /\ Op(exec, x)
      /\ s.sched < MaxVersion
  BY DEF upgrade_gas_schedule, Running, In
<1>2. Sound(s) /\ session \in Sessions /\ s \in States /\ exec \in MoveOSes
      /\ SessionCode(exec, session, taint)
  BY <1>1, SessionParts, SessionFields
<1>3. s.sched + 1 \in 0..MaxVersion
  BY <1>1, <1>2, ExecutionAssumption DEF States
<1>4. r \in States /\ r.acct = s.acct /\ r.seq = s.seq /\ r.pool = s.pool
      /\ r.code = s.code /\ r.bal = s.bal /\ r.store = s.store /\ r.supply = s.supply
  BY <1>2, <1>3 DEF States
<1>5. x.st = r /\ x.tx = session.tx /\ x.root = session.root /\ x.phase = session.phase
      /\ x.status = session.status /\ x.updated = TRUE /\ x.flag = session.flag
      /\ x.foreign = session.foreign /\ x.dry = session.dry /\ x.left = session.left
  BY <1>2 DEF Sessions, States
<1>6. x \in Sessions
  BY <1>2, <1>4, <1>5 DEF Sessions
<1> HIDE DEF r, x, s
<1>7. Sound(r)
  BY <1>2, <1>4, SameCoinsSound
<1>8. SessionCode(exec, x, taint')
  <2>1. x.st.code = session.st.code
    BY <1>4, <1>5 DEF s
  <2>2. SessionCode(exec, session, taint) /\ taint' = taint
    BY <1>1, <1>2
  <2> QED BY <1>5, <2>1, <2>2, ZenonT(30) DEF SessionCode, Extends, Cached
<1> QED BY <1>1, <1>2, <1>4, <1>5, <1>6, <1>7, <1>8, OpStep DEF s

(* Code that a session needs is in the cache afterwards, and the session   *)
(* knows whether it is code of its own.                                    *)
LEMMA LoadStep ==
  ASSUME SettlementInv, session # None, session.phase # "cleanup", NEW p \in Packages
  PROVE  LET m == Load(exec, session.st, p)
             x == Loads(session, p)
         IN /\ m \in MoveOSes /\ m.root = exec.root /\ m.table = exec.table
            /\ m.invalid = FALSE
            /\ x \in Sessions /\ SessionCode(m, x, taint)
            /\ x.tx = session.tx /\ x.root = session.root /\ x.st = session.st
            /\ x.phase = session.phase /\ x.status = session.status /\ x.left = session.left
            /\ x.updated = session.updated /\ x.flag = session.flag /\ x.dry = session.dry
            /\ x.inits = session.inits
<1> DEFINE m == Load(exec, session.st, p)
           x == Loads(session, p)
           code == session.st.code[p]
<1>1. session \in Sessions /\ exec \in MoveOSes /\ SessionCode(exec, session, taint)
      /\ session.st \in States
  BY SessionParts, SessionFields
<1>2. code \in Codes \cup {None} /\ exec.invalid = FALSE
  BY <1>1, MoveOSFields DEF States, SessionCode
<1>3. m \in MoveOSes /\ m.root = exec.root /\ m.table = exec.table /\ m.invalid = exec.invalid
      /\ \A q \in Packages : m.cache[q] = IF q = p /\ exec.cache[p] = None THEN code ELSE exec.cache[q]
  <2>1. CASE exec.cache[p] = None
    <3>1. m = [exec EXCEPT !.cache[p] = code]
      BY <2>1 DEF Load
    <3> HIDE DEF m, code
    <3> QED BY <1>1, <1>2, <2>1, <3>1 DEF MoveOSes
  <2>2. CASE exec.cache[p] # None
    BY <1>1, <2>2 DEF Load
  <2> QED BY <2>1, <2>2
<1>4. x = [session EXCEPT !.foreign = @ \/ (exec.cache[p] = None /\ code # exec.root.code[p])]
  BY DEF Loads
<1>5. x.foreign = (session.foreign \/ (exec.cache[p] = None /\ code # exec.root.code[p]))
      /\ x.tx = session.tx /\ x.root = session.root /\ x.st = session.st
      /\ x.phase = session.phase /\ x.status = session.status /\ x.left = session.left
      /\ x.updated = session.updated /\ x.flag = session.flag /\ x.dry = session.dry
      /\ x.inits = session.inits
  BY <1>1, <1>4 DEF Sessions
<1>6. x \in Sessions
  BY <1>1, <1>4 DEF Sessions
<1> HIDE DEF m, x
<1>7. SessionCode(m, x, taint)
  <2>1. m.table # None /\ ~m.invalid /\ x.phase # "cleanup"
    BY <1>1, <1>2, <1>3, <1>5 DEF SessionCode
  <2>2. x.flag # TRUE /\ "flag" \notin taint => Extends(x.root, x.st)
    BY <1>1, <1>5 DEF SessionCode
  <2>3. ASSUME taint \cap {"load", "flag"} = {}, ~x.foreign PROVE Cached(m, m.root)
    <3>1. Cached(exec, exec.root) /\ (exec.cache[p] = None => code = exec.root.code[p])
      BY <1>1, <1>2, <1>5, <2>3 DEF SessionCode
    <3> QED BY <1>3, <3>1 DEF Cached
  <2>4. ASSUME taint \cap {"load", "flag"} = {}, ~x.dry, x.flag # TRUE PROVE Cached(m, x.st)
    <3>1. Cached(exec, session.st)
      BY <1>1, <1>5, <2>4 DEF SessionCode
    <3> QED BY <1>3, <1>5, <3>1 DEF Cached
  <2> QED BY <2>1, <2>2, <2>3, <2>4 DEF SessionCode
<1> QED BY <1>2, <1>3, <1>5, <1>6, <1>7 DEF m, x

(* A call, and the init function of a new package.                         *)
LEMMA CallStep ==
  ASSUME SettlementInv, NEW p \in Packages, Call(p) \/ RunInit(p)
  PROVE  SettlementInv'
<1> DEFINE m == Load(exec, session.st, p)
           x == Loads(session, p)
           y == [x EXCEPT !.inits = @ \ {p}]
<1>1. session # None /\ session.phase # "cleanup" /\ Paid /\ taint' = taint
      /\ (Op(m, x) \/ Op(m, y))
  BY DEF Call, RunInit, Running, In
<1>2. /\ m \in MoveOSes /\ m.root = exec.root /\ m.table = exec.table
      /\ x \in Sessions /\ SessionCode(m, x, taint)
      /\ x.tx = session.tx /\ x.root = session.root /\ x.st = session.st
      /\ x.phase = session.phase /\ x.status = session.status /\ x.left = session.left
      /\ x.updated = session.updated /\ x.flag = session.flag /\ x.dry = session.dry
  BY <1>1, LoadStep
<1>3. Sound(session.st)
  BY <1>1, SessionParts
<1>4. y \in Sessions /\ y.tx = x.tx /\ y.root = x.root /\ y.st = x.st /\ y.foreign = x.foreign
      /\ y.phase = x.phase /\ y.status = x.status /\ y.left = x.left
      /\ y.updated = x.updated /\ y.flag = x.flag /\ y.dry = x.dry
  <2> HIDE DEF x
  <2> QED BY <1>2 DEF Sessions
<1> HIDE DEF m, x, y
<1>5. SessionCode(m, y, taint)
  BY <1>2, <1>4 DEF SessionCode
<1>6. CASE Op(m, x)
  BY <1>1, <1>2, <1>3, <1>6, OpStep
<1>7. CASE Op(m, y)
  <2>1. y.tx = session.tx /\ y.root = session.root /\ y.st = session.st /\ y.dry = session.dry
        /\ y.phase = session.phase /\ y.status = session.status /\ y.left = session.left
        /\ y.updated = session.updated
    BY <1>2, <1>4
  <2> QED BY <1>1, <1>2, <1>3, <1>4, <1>5, <1>7, <2>1, OpStep
<1> QED BY <1>1, <1>6, <1>7

(* Publishing: the flag tells of every upgrade, but for the one the taint  *)
(* tells of.                                                               *)
LEMMA PublishStep ==
  ASSUME SettlementInv, NEW p \in Packages, NEW c \in Codes, NEW init \in BOOLEAN,
         publish_modules(p, c, init)
  PROVE  SettlementInv'
<1> DEFINE s == session.st
           own == p = session.tx.sender
           upgrade == s.code[p] # None
           m == IF own THEN exec ELSE Load(exec, s, p)
           y == IF own THEN session ELSE Loads(session, p)
           in == IF init /\ ~upgrade THEN y.inits \cup {p} ELSE y.inits
           f == set_module_upgrade_flag(y.flag, upgrade)
           r == [s EXCEPT !.code[p] = c]
           x == [y EXCEPT !.st.code[p] = c,
                          !.inits = IF init /\ ~upgrade THEN @ \cup {p} ELSE @,
                          !.flag = set_module_upgrade_flag(@, upgrade)]
<1>1. session # None /\ session.phase # "cleanup" /\ Paid /\ Op(m, x)
      /\ taint' = IF upgrade /\ session.flag = FALSE THEN taint \cup {"flag"} ELSE taint
  BY DEF publish_modules, Running, In
<1>2. Sound(s) /\ session \in Sessions /\ s \in States /\ exec \in MoveOSes
      /\ SessionCode(exec, session, taint) /\ exec.invalid \in BOOLEAN
  BY <1>1, SessionParts, SessionFields, MoveOSFields
<1>3. /\ m \in MoveOSes /\ m.root = exec.root /\ m.table = exec.table /\ m.invalid = FALSE
      /\ y \in Sessions /\ SessionCode(m, y, taint)
      /\ y.tx = session.tx /\ y.root = session.root /\ y.st = s
      /\ y.phase = session.phase /\ y.status = session.status /\ y.left = session.left
      /\ y.updated = session.updated /\ y.flag = session.flag /\ y.dry = session.dry
  <2>1. CASE own
    BY <1>1, <1>2, <2>1 DEF SessionCode
  <2>2. CASE ~own
    BY <1>1, <2>2, LoadStep
  <2> QED BY <2>1, <2>2
<1> HIDE DEF y, m, s
<1>4. r \in States /\ r.acct = s.acct /\ r.seq = s.seq /\ r.pool = s.pool /\ r.sched = s.sched
      /\ r.bal = s.bal /\ r.store = s.store /\ r.supply = s.supply
      /\ r.code = [s.code EXCEPT ![p] = c] /\ s.code \in [Packages -> Codes \cup {None}]
  BY <1>2 DEF States
<1>5. f \in BOOLEAN \cup {None} /\ in \in SUBSET Packages
  BY <1>3, SessionFields DEF set_module_upgrade_flag
<1>6. x = [y EXCEPT !.st = r, !.inits = in, !.flag = f]
  BY <1>3, <1>4 DEF Sessions
<1> HIDE DEF r, x, f, in
<1>7. x \in Sessions /\ x.tx = y.tx /\ x.root = y.root /\ x.st = r /\ x.foreign = y.foreign
      /\ x.phase = y.phase /\ x.status = y.status /\ x.left = y.left
      /\ x.updated = y.updated /\ x.flag = f /\ x.dry = y.dry
  BY <1>3, <1>4, <1>5, <1>6 DEF Sessions
<1>8. Sound(r)
  BY <1>2, <1>4, SameCoinsSound
<1>9. SessionCode(m, x, taint')
  <2>1. m.table # None /\ ~m.invalid /\ x.phase # "cleanup"
    BY <1>1, <1>3, <1>7 DEF SessionCode
  <2>2. ASSUME x.flag # TRUE, "flag" \notin taint'
        PROVE  s.code[p] = None /\ y.flag # TRUE /\ "flag" \notin taint
    <3>1. f # TRUE /\ session.flag \in BOOLEAN \cup {None} /\ y.flag = session.flag
      BY <1>2, <1>3, <1>7, <2>2, SessionFields
    <3>2. ~upgrade
      <4>1. CASE session.flag = None
        BY <3>1, <4>1 DEF f, set_module_upgrade_flag
      <4>2. CASE session.flag = FALSE
        BY <1>1, <2>2, <4>2
      <4>3. CASE session.flag = TRUE
        BY <3>1, <4>3, NoneAssumption DEF f, set_module_upgrade_flag
      <4> QED BY <3>1, <4>1, <4>2, <4>3
    <3>3. y.flag # TRUE
      BY <3>1, NoneAssumption DEF f, set_module_upgrade_flag
    <3> QED BY <1>1, <2>2, <3>2, <3>3
  <2>3. ASSUME x.flag # TRUE, "flag" \notin taint' PROVE Extends(x.root, x.st)
    <3>1. s.code[p] = None /\ Extends(y.root, s)
      BY <1>3, <2>2, <2>3 DEF SessionCode
    <3> QED BY <1>3, <1>4, <1>7, <3>1 DEF Extends
  <2>4. taint' \cap {"load", "flag"} = {} => "flag" \notin taint' /\ taint \cap {"load", "flag"} = {}
    BY <1>1
  <2>5. ASSUME taint' \cap {"load", "flag"} = {}, ~x.foreign PROVE Cached(m, m.root)
    BY <1>3, <1>7, <2>4, <2>5 DEF SessionCode
  <2>6. ASSUME taint' \cap {"load", "flag"} = {}, ~x.dry, x.flag # TRUE PROVE Cached(m, x.st)
    <3>1. s.code[p] = None /\ y.flag # TRUE
      BY <2>2, <2>4, <2>6
    <3>2. Cached(m, s)
      BY <1>3, <1>7, <2>4, <2>6, <3>1 DEF SessionCode
    <3> QED BY <1>4, <1>7, <3>1, <3>2 DEF Cached
  <2> QED BY <2>1, <2>3, <2>5, <2>6 DEF SessionCode
<1>10. taint \subseteq taint'
  BY <1>1
<1> QED BY <1>1, <1>3, <1>4, <1>7, <1>8, <1>9, <1>10, OpStep DEF s

(* A failed action: the session starts again from its root.                *)
LEMMA FailStep ==
  ASSUME SettlementInv, session # None, session.phase # "cleanup",
         NEW m \in MoveOSes, m.root = exec.root, m.table = exec.table,
         NEW x \in Sessions, x.tx = session.tx, x.root = session.root, x.dry = session.dry,
         x.phase = session.phase, x.flag = session.flag, SessionCode(m, x, taint),
         NEW left \in Nat, left <= session.left, Fails(m, x, left)
  PROVE  SettlementInv'
<1>1. session \in Sessions /\ session.left <= session.tx.max /\ Sound(session.root)
      /\ OnItsRoot(session) /\ exec.root = startup /\ (~session.dry => session.root = startup)
      /\ exec.table # None
  BY SessionParts DEF SessionCode
<1>2. session.tx \in Tx /\ session.tx.max \in Nat /\ session.left \in Nat /\ m.invalid = FALSE
      /\ session.root \in States /\ session.dry \in BOOLEAN
  BY <1>1, SessionFields, MoveOSFields DEF SessionCode
<1> DEFINE st == pre_execute(session.root, session.tx)
           y == Respawned(x, left)
<1>3. Sound(st) /\ st.acct = session.root.acct \cup {session.tx.sender} /\ st.seq = session.root.seq
      /\ st.pool = session.root.pool + session.tx.max
      /\ st.sched = session.root.sched /\ st.code = session.root.code
  BY <1>1, <1>2, PreExecuteSound DEF OnItsRoot
<1>4. exec' = m /\ session' = y /\ taint' = Discarded(x)
      /\ UNCHANGED <<startup, reader, verified, converted, refresh, panicked>>
  BY <1>2 DEF Fails, NewSession
<1>5. y.tx = session.tx /\ y.root = session.root /\ y.st = st /\ y.left = left
      /\ y.phase = "cleanup" /\ y.status = "failed" /\ y.updated = FALSE /\ y.flag = None
      /\ y.foreign = FALSE /\ y.dry = session.dry /\ y.inits = {} /\ y.ops = 0
  BY DEF Respawned, Session
<1>6. y \in Sessions
  <2>1. st \in States
    BY <1>3 DEF Sound
  <2> DEFINE w == Session(x.tx, x.root, 0, x.dry)
  <2>2. x.tx.max - 0 \in Nat
    BY <1>2
  <2> HIDE DEF st
  <2>3. w \in Sessions
    BY <1>2, <2>1, <2>2 DEF Sessions, Session, st
  <2>4. y = [w EXCEPT !.left = left, !.phase = "cleanup", !.status = "failed"]
    BY DEF Respawned
  <2> HIDE DEF w, y
  <2> QED BY <2>3, <2>4 DEF Sessions
<1> HIDE DEF y
<1>7. OnItsRoot(y)
  BY <1>1, <1>3, <1>5 DEF OnItsRoot
<1> HIDE DEF st
<1>8. taint \subseteq taint'
  BY <1>4 DEF Discarded
<1>9. SessionCode(m, y, taint')
  <2>1. m.table # None /\ ~m.invalid /\ y.flag # TRUE
    BY <1>1, <1>2, <1>5, NoneAssumption
  <2>2. Extends(y.root, y.st)
    BY <1>3, <1>5 DEF Extends
  <2>3. ASSUME taint' \cap {"load", "flag"} = {} PROVE Cached(m, m.root)
    <3>1. ~x.foreign /\ taint \cap {"load", "flag"} = {}
      BY <1>4, <2>3 DEF Discarded
    <3> QED BY <2>1, <3>1 DEF SessionCode
  <2>4. ASSUME taint' \cap {"load", "flag"} = {}, ~y.dry PROVE Cached(m, y.st)
    <3>1. m.root.code = y.st.code
      BY <1>1, <1>3, <1>5, <2>4
    <3> QED BY <2>3, <2>4, <3>1 DEF Cached
  <2> QED BY <2>1, <2>2, <2>3, <2>4 DEF SessionCode
<1>10. left <= session.tx.max
  BY <1>1, <1>2
<1>11. session' \in Sessions /\ session'.left <= session'.tx.max
       /\ session'.tx = session.tx /\ session'.root = session.root /\ session'.dry = session.dry
       /\ Sound(session'.st) /\ OnItsRoot(session')
  BY <1>3, <1>4, <1>5, <1>6, <1>7, <1>10
<1>12. SessionCode(exec', session', taint') /\ exec' \in MoveOSes /\ exec'.root = exec.root
       /\ exec'.table = exec.table
  BY <1>4, <1>9
<1> QED BY <1>4, <1>8, <1>11, <1>12, SessionStep

(* The three ways an action fails.                                         *)
LEMMA FailureSteps ==
  ASSUME SettlementInv,
         \/ OutOfGas \/ Abort
         \/ \E p \in Packages, left \in 0..GasLimit : FailInit(p, left)
  PROVE  SettlementInv'
<1>1. session # None /\ session.phase # "cleanup"
  BY DEF OutOfGas, Abort, FailInit, Running, In
<1>2. session \in Sessions /\ exec \in MoveOSes /\ SessionCode(exec, session, taint)
      /\ exec.table # None /\ session.left \in Nat
  BY <1>1, SessionParts, SessionFields DEF SessionCode
<1>3. Cost \in Nat
  BY <1>2, MoveOSFields DEF Cost
<1>4. CASE OutOfGas
  <2>1. Fails(exec, session, 0) /\ 0 <= session.left /\ 0 \in Nat
    BY <1>2, <1>4 DEF OutOfGas
  <2> QED BY <1>1, <1>2, <2>1, FailStep
<1>5. CASE Abort
  <2>1. Fails(exec, session, session.left - Cost) /\ session.left >= Cost
    BY <1>5 DEF Abort, Paid
  <2>2. session.left - Cost \in Nat /\ session.left - Cost <= session.left
    BY <1>2, <1>3, <2>1
  <2> QED BY <1>1, <1>2, <2>1, <2>2, FailStep
<1>6. CASE \E p \in Packages, left \in 0..GasLimit : FailInit(p, left)
  <2>1. PICK p \in Packages, left \in 0..GasLimit : FailInit(p, left)
    BY <1>6
  <2> DEFINE m == Load(exec, session.st, p)
             x == Loads(session, p)
  <2>2. Fails(m, x, left) /\ left = IF session.left >= Cost THEN session.left - Cost ELSE 0
    BY <2>1 DEF FailInit, Paid
  <2>3. left \in Nat /\ left <= session.left
    BY <1>2, <1>3, <2>2
  <2>4. /\ m \in MoveOSes /\ m.root = exec.root /\ m.table = exec.table
        /\ x \in Sessions /\ SessionCode(m, x, taint)
        /\ x.tx = session.tx /\ x.root = session.root /\ x.dry = session.dry
        /\ x.phase = session.phase /\ x.flag = session.flag
    BY <1>1, LoadStep
  <2> HIDE DEF m, x
  <2> QED BY <1>1, <2>2, <2>3, <2>4, FailStep
<1> QED BY <1>4, <1>5, <1>6

(* The end of the action, and of its init functions.                       *)
LEMMA ReturnStep ==
  ASSUME SettlementInv, Returns \/ Executed
  PROVE  SettlementInv'
<1>1. session # None /\ session.phase # "cleanup"
  BY DEF Returns, Executed, In
<1>2. session \in Sessions /\ session.left <= session.tx.max /\ exec \in MoveOSes
      /\ Sound(session.root) /\ Sound(session.st) /\ OnItsRoot(session)
      /\ SessionCode(exec, session, taint) /\ ~exec.invalid
  BY <1>1, SessionParts DEF SessionCode
<1>3. UNCHANGED <<startup, reader, verified, converted, refresh, panicked, taint>>
  BY DEF Returns, Executed
<1>4. session.status = None /\ None # "failed" /\ "executed" # "failed"
  BY <1>1, <1>2, NoneAssumption DEF OnItsRoot
<1>5. CASE Returns
  <2> DEFINE y == [session EXCEPT !.phase = "init"]
  <2>1. session' = y /\ exec' = exec
    BY <1>5 DEF Returns
  <2>2. y \in Sessions /\ y.tx = session.tx /\ y.root = session.root /\ y.st = session.st
        /\ y.left = session.left /\ y.phase = "init" /\ y.status = session.status
        /\ y.updated = session.updated /\ y.flag = session.flag /\ y.foreign = session.foreign
        /\ y.dry = session.dry
    BY <1>2 DEF Sessions
  <2> HIDE DEF y
  <2>3. OnItsRoot(y)
    BY <1>2, <1>4, <2>2 DEF OnItsRoot
  <2>4. SessionCode(exec, y, taint)
    BY <1>2, <2>2 DEF SessionCode
  <2>5. session' \in Sessions /\ session'.left <= session'.tx.max
        /\ session'.tx = session.tx /\ session'.root = session.root /\ session'.dry = session.dry
        /\ Sound(session'.st) /\ OnItsRoot(session') /\ SessionCode(exec', session', taint')
    BY <1>2, <1>3, <2>1, <2>2, <2>3, <2>4
  <2> QED BY <1>1, <1>2, <1>3, <2>1, <2>5, SessionStep
<1>6. CASE Executed
  <2> DEFINE y == [session EXCEPT !.phase = "cleanup", !.status = "executed"]
             m == IF session.flag = TRUE THEN mark_loader_cache_as_invalid(exec) ELSE exec
  <2>1. session' = y /\ exec' = m
    BY <1>6 DEF Executed
  <2>2. y \in Sessions /\ y.tx = session.tx /\ y.root = session.root /\ y.st = session.st
        /\ y.left = session.left /\ y.phase = "cleanup" /\ y.status = "executed"
        /\ y.updated = session.updated /\ y.flag = session.flag /\ y.foreign = session.foreign
        /\ y.dry = session.dry
    BY <1>2 DEF Sessions
  <2>3. m \in MoveOSes /\ m.root = exec.root /\ m.table = exec.table /\ m.cache = exec.cache
        /\ m.invalid = (session.flag = TRUE)
    BY <1>2 DEF mark_loader_cache_as_invalid, MoveOSes
  <2> HIDE DEF y, m
  <2>4. OnItsRoot(y)
    BY <1>2, <1>4, <2>2 DEF OnItsRoot
  <2>5. SessionCode(m, y, taint)
    BY <1>2, <2>2, <2>3 DEF SessionCode, Cached
  <2>6. session' \in Sessions /\ session'.left <= session'.tx.max
        /\ session'.tx = session.tx /\ session'.root = session.root /\ session'.dry = session.dry
        /\ Sound(session'.st) /\ OnItsRoot(session') /\ SessionCode(exec', session', taint')
        /\ exec' \in MoveOSes /\ exec'.root = exec.root /\ exec'.table = exec.table
    BY <1>2, <1>3, <2>1, <2>2, <2>3, <2>4, <2>5
  <2> QED BY <1>1, <1>3, <2>6, SessionStep
<1> QED BY <1>5, <1>6

--------------------------------------------------------------------------------
(* Messages of the executor and of the reader.                             *)

(* load_cost_table leaves a table, the one it had if it had one.           *)
LEMMA TableLoaded ==
  ASSUME NEW m \in MoveOSes, NEW r \in States
  PROVE  LET n == load_cost_table(m, r)
         IN /\ n \in MoveOSes /\ n.root = m.root /\ n.natives = m.natives /\ n.cache = m.cache
            /\ n.invalid = m.invalid
            /\ n.table = IF m.table = None THEN r.sched ELSE m.table
            /\ n.table # None /\ n.table \in 0..MaxVersion
<1>1. r.sched \in 0..MaxVersion /\ m.table \in (0..MaxVersion) \cup {None}
  BY DEF States, MoveOSes
<1>2. CASE m.table = None
  <2> DEFINE n == [m EXCEPT !.table = r.sched]
  <2>1. load_cost_table(m, r) = n
    BY <1>2 DEF load_cost_table
  <2>2. n \in MoveOSes /\ n.root = m.root /\ n.natives = m.natives /\ n.cache = m.cache
        /\ n.invalid = m.invalid /\ n.table = r.sched
    BY <1>1 DEF MoveOSes
  <2> HIDE DEF n
  <2> QED BY <1>1, <1>2, <2>1, <2>2, NoneAssumption
<1>3. CASE m.table # None
  <2>1. load_cost_table(m, r) = m
    BY <1>3 DEF load_cost_table
  <2> QED BY <1>1, <1>3, <2>1
<1> QED BY <1>2, <1>3

(* A new session starts with a cache that is valid.                        *)
LEMMA SessionOpened ==
  ASSUME NEW m \in MoveOSes
  PROVE  LET n == NewSession(m)
         IN /\ n \in MoveOSes /\ n.root = m.root /\ n.natives = m.natives /\ n.table = m.table
            /\ n.invalid = FALSE
            /\ \A s : m.invalid \/ Cached(m, s) => Cached(n, s)
<1>1. CASE m.invalid
  <2> DEFINE n == [m EXCEPT !.cache = Empty, !.invalid = FALSE]
  <2>1. NewSession(m) = n
    BY <1>1 DEF NewSession
  <2>2. Empty \in [Packages -> Codes \cup {None}] /\ \A p \in Packages : Empty[p] = None
    BY DEF Empty
  <2>3. n \in MoveOSes /\ n.root = m.root /\ n.natives = m.natives /\ n.table = m.table
        /\ n.invalid = FALSE /\ n.cache = Empty
    BY <2>2 DEF MoveOSes
  <2> HIDE DEF n
  <2> QED BY <2>1, <2>2, <2>3 DEF Cached
<1>2. CASE ~m.invalid
  <2>1. NewSession(m) = m /\ m.invalid = FALSE
    BY <1>2 DEF NewSession, MoveOSes
  <2> QED BY <1>2, <2>1
<1> QED BY <1>1, <1>2

(* The caches say of an idle executor: its code is current unless marked.  *)
LEMMA IdleParts ==
  ASSUME SettlementInv, session = None
  PROVE  /\ exec \in MoveOSes /\ exec.root = startup /\ startup \in States /\ Sound(startup)
         /\ taint \cap {"load", "flag"} = {} => exec.invalid \/ Cached(exec, exec.root)
BY DEF SettlementInv, TypeOKExecution, StatesSound, OneAtATime, CurrentCaches,
       LoaderIsCurrent, Cached

(* Validation remembers the state it validated against.                    *)
LEMMA ValidateStep ==
  ASSUME SettlementInv, NEW t \in Tx, Validate(t)
  PROVE  SettlementInv'
<1> DEFINE l == load_cost_table(exec, exec.root)
           m == NewSession(l)
           v == [tx |-> t, root |-> exec.root]
<1>1. session = None /\ panicked = None /\ verified = None /\ refresh = None /\ exec' = m
      /\ verified' = (IF validate(exec.root, t) /\ OpCost(m) <= t.max THEN v ELSE None)
      /\ UNCHANGED <<startup, reader, converted, session, refresh, panicked, taint>>
  BY DEF Validate, Idle
<1>2. exec \in MoveOSes /\ exec.root = startup /\ startup \in States
      /\ (taint \cap {"load", "flag"} = {} => exec.invalid \/ Cached(exec, exec.root))
  BY <1>1, IdleParts
<1>3. l \in MoveOSes /\ l.root = exec.root /\ l.cache = exec.cache /\ l.invalid = exec.invalid
      /\ l.table = (IF exec.table = None THEN exec.root.sched ELSE exec.table) /\ l.table # None
  BY <1>2, TableLoaded
<1> HIDE DEF l
<1>4. m \in MoveOSes /\ m.root = l.root /\ m.table = l.table
      /\ (l.invalid \/ Cached(l, exec.root) => Cached(m, exec.root))
  BY <1>3, SessionOpened
<1>5. OpCost(m) \in Nat /\ OpCost(m) > 0 /\ t.max \in Nat
  BY <1>3, <1>4, MoveOSFields, ExecutionAssumption DEF Tx
<1> HIDE DEF m
<1>6. v \in Pendings /\ v.tx = t /\ v.root = startup
  BY <1>2 DEF Pendings
<1> HIDE DEF v
<1>7. verified' # None => verified' = v /\ validate(startup, t) /\ t.max > 0
  BY <1>1, <1>2, <1>5
<1>8. TypeOKExecution'
  <2>1. TypeOKExecution
    BY DEF SettlementInv
  <2>2. verified' \in Pendings \cup {None}
    BY <1>6, <1>7
  <2> QED BY <1>1, <1>4, <2>1, <2>2 DEF TypeOKExecution
<1>9. StatesSound'
  BY <1>1 DEF SettlementInv, StatesSound
<1>10. OneAtATime'
  <2>1. OneAtATime
    BY DEF SettlementInv
  <2> QED BY <1>1, <1>2, <1>3, <1>4, <1>6, <1>7, <2>1 DEF OneAtATime
<1>11. CodeFollows'
  BY <1>1 DEF CodeFollows
<1>12. CurrentCaches'
  <2>1. CurrentCaches
    BY DEF SettlementInv
  <2>2. TableIsCurrent'
    BY <1>1, <1>3, <1>4, <2>1 DEF CurrentCaches, TableIsCurrent
  <2>3. taint \cap {"load", "flag"} = {} => Cached(m, exec.root)
    BY <1>2, <1>3, <1>4 DEF Cached
  <2>4. LoaderIsCurrent'
    BY <1>1, <1>3, <1>4, <2>3 DEF LoaderIsCurrent, Cached
  <2>5. ReaderIsCurrent'
    BY <1>1, <2>1 DEF CurrentCaches, ReaderIsCurrent
  <2> QED BY <2>2, <2>4, <2>5 DEF CurrentCaches
<1>13. DepositIsCovered'
  BY <1>1 DEF SettlementInv, DepositIsCovered
<1> QED BY <1>8, <1>9, <1>10, <1>11, <1>12, <1>13 DEF SettlementInv

(* A dry run request remembers the state it was converted on.              *)
LEMMA ConvertStep ==
  ASSUME SettlementInv, NEW t \in Tx, Convert(t)
  PROVE  SettlementInv'
<1>1. session = None /\ converted' = [tx |-> t, root |-> exec.root]
      /\ UNCHANGED <<startup, exec, reader, verified, session, refresh, panicked, taint>>
  BY DEF Convert, Idle
<1>2. exec.root = startup /\ startup \in States /\ Sound(startup)
  BY <1>1, IdleParts
<1>3. converted' \in Pendings /\ converted'.root = startup
  BY <1>1, <1>2 DEF Pendings
<1>4. TypeOKExecution'
  BY <1>1, <1>3 DEF SettlementInv, TypeOKExecution
<1>5. StatesSound'
  <2>1. Sound(startup') /\ Sound(converted'.root)
    BY <1>1, <1>2, <1>3
  <2> QED BY <1>1, <2>1 DEF StatesSound
<1>6. OneAtATime'
  BY <1>1 DEF SettlementInv, OneAtATime
<1>7. CodeFollows'
  BY <1>1 DEF SettlementInv, CodeFollows
<1>8. CurrentCaches'
  BY <1>1 DEF SettlementInv, CurrentCaches, TableIsCurrent, LoaderIsCurrent, ReaderIsCurrent
<1>9. DepositIsCovered'
  BY <1>1 DEF SettlementInv, DepositIsCovered
<1> QED BY <1>4, <1>5, <1>6, <1>7, <1>8, <1>9 DEF SettlementInv

(* A validated transaction can pay its deposit where validate checks the   *)
(* balance.                                                                *)
LEMMA ValidatedCanPay ==
  ASSUME NEW s, Sound(s), NEW t \in Tx, validate(s, t), t.max > 0, ~LocalOrDev
  PROVE  CanPreExecute(s, t)
<1> DEFINE a == t.sender
           n == Created(s, a)
<1>1. a \in Accounts /\ t.max \in Nat /\ s \in States /\ s.bal[a] >= t.max
  BY ExecutionAssumption DEF Tx, Sound, validate
<1>2. a \in s.store
  BY <1>1 DEF Sound
<1>3. n.store = s.store /\ n.bal = s.bal
  BY <1>1 DEF Created, States
<1> QED BY <1>1, <1>2, <1>3 DEF CanPreExecute, CanWithdraw

(* The session that begins.                                                *)
LEMMA SessionBegun ==
  ASSUME NEW r, Sound(r), NEW t \in Tx, CanPreExecute(r, t), NEW io \in Nat, io <= t.max,
         NEW d \in BOOLEAN
  PROVE  LET x == Session(t, r, io, d)
         IN /\ x \in Sessions /\ x.left <= x.tx.max /\ x.tx = t /\ x.root = r /\ x.dry = d
            /\ x.flag = None /\ x.phase = "action"
            /\ Sound(x.st) /\ OnItsRoot(x) /\ x.st.code = r.code
<1> DEFINE st == pre_execute(r, t)
           x == Session(t, r, io, d)
<1>1. Sound(st) /\ st.acct = r.acct \cup {t.sender} /\ st.seq = r.seq /\ st.pool = r.pool + t.max
      /\ st.sched = r.sched /\ st.code = r.code
  BY PreExecuteSound
<1>2. t.max \in Nat /\ r \in States /\ st \in States
  BY <1>1, ExecutionAssumption DEF Sound, Tx
<1>3. t.max - io \in Nat /\ t.max - io <= t.max
  BY <1>2
<1> HIDE DEF st
<1>4. x \in Sessions
  BY <1>2, <1>3 DEF Sessions, Session, st
<1>5. x.tx = t /\ x.root = r /\ x.st = st /\ x.left = t.max - io /\ x.phase = "action"
      /\ x.status = None /\ x.flag = None /\ x.updated = FALSE /\ x.dry = d
  BY DEF Session, st
<1> HIDE DEF x
<1>6. OnItsRoot(x)
  BY <1>1, <1>5, NoneAssumption DEF OnItsRoot
<1> QED BY <1>1, <1>3, <1>4, <1>5, <1>6 DEF x

(* MoveOS::execute up to the action, of a transaction or of a dry run.     *)
LEMMA BeginStep ==
  ASSUME SettlementInv, NEW v \in Pendings, NEW d \in BOOLEAN, Begin(v, d), Sound(v.root),
         ~d => /\ v.root = startup /\ refresh = None /\ verified' = None
               /\ validate(startup, v.tx) /\ v.tx.max > 0,
         verified' \in {verified, None}, converted' \in {converted, None}
  PROVE  SettlementInv'
<1> DEFINE m == load_cost_table(exec, v.root)
           n == NewSession(m)
           io == v.tx.size * Fee(m.table)
           able == CanPreExecute(v.root, v.tx)
           x == Session(v.tx, v.root, io, d)
<1>1. session = None /\ panicked = None /\ UNCHANGED <<startup, reader, refresh>>
      /\ taint' = (IF exec.table = None /\ v.root # exec.root THEN taint \cup {"table"} ELSE taint)
  BY DEF Begin, Idle
<1>2. exec \in MoveOSes /\ exec.root = startup /\ startup \in States
      /\ (taint \cap {"load", "flag"} = {} => exec.invalid \/ Cached(exec, exec.root))
  BY <1>1, IdleParts
<1>3. v.tx \in Tx /\ v.root \in States
  BY DEF Pendings
<1>4. m \in MoveOSes /\ m.root = exec.root /\ m.cache = exec.cache /\ m.invalid = exec.invalid
      /\ m.table = (IF exec.table = None THEN v.root.sched ELSE exec.table)
      /\ m.table # None /\ m.table \in 0..MaxVersion
  BY <1>2, <1>3, TableLoaded
<1>5. io > v.tx.max => exec' = m /\ session' = None /\ panicked' = None
  BY <1>1 DEF Begin
<1>6. ~(io > v.tx.max) => /\ exec' = n
                          /\ panicked' = IF able THEN None ELSE IF d THEN "dry_run" ELSE "execute"
                          /\ session' = IF able THEN x ELSE None
  BY DEF Begin
<1> HIDE DEF m
<1>7. n \in MoveOSes /\ n.root = m.root /\ n.table = m.table /\ n.invalid = FALSE
      /\ (m.invalid \/ Cached(m, exec.root) => Cached(n, exec.root))
  BY <1>4, SessionOpened
<1>8. io \in Nat /\ v.tx.max \in Nat
  <2>1. v.tx.size \in Nat /\ v.tx.max \in Nat
    BY <1>3, ExecutionAssumption DEF Tx
  <2>2. Fee(m.table) \in Nat
    BY <1>4 DEF Fee
  <2> QED BY <2>1, <2>2
<1> HIDE DEF n, io, able, x
<1>9. exec' \in MoveOSes /\ exec'.root = exec.root /\ exec'.table = m.table
  BY <1>4, <1>5, <1>6, <1>7
<1>10. taint' \cap {"load", "flag"} = {} => exec'.invalid \/ Cached(exec', exec.root)
  <2>1. Cached(exec, exec.root) => Cached(m, exec.root)
    BY <1>4 DEF Cached
  <2>2. taint' \cap {"load", "flag"} = {} => taint \cap {"load", "flag"} = {}
    BY <1>1
  <2> QED BY <1>2, <1>4, <1>5, <1>6, <1>7, <2>1, <2>2
<1>11. session' # None =>
         /\ session' \in Sessions /\ session'.left <= session'.tx.max
         /\ session'.tx = v.tx /\ session'.root = v.root /\ session'.dry = d
         /\ session'.flag = None /\ session'.phase = "action"
         /\ Sound(session'.st) /\ OnItsRoot(session') /\ session'.st.code = v.root.code
         /\ exec'.invalid = FALSE
  <2> SUFFICES ASSUME session' # None
               PROVE  /\ session' \in Sessions /\ session'.left <= session'.tx.max
                      /\ session'.tx = v.tx /\ session'.root = v.root /\ session'.dry = d
                      /\ session'.flag = None /\ session'.phase = "action"
                      /\ Sound(session'.st) /\ OnItsRoot(session')
                      /\ session'.st.code = v.root.code /\ exec'.invalid = FALSE
    OBVIOUS
  <2>1. io <= v.tx.max /\ able /\ session' = x /\ exec' = n
    BY <1>5, <1>6, <1>8
  <2>2. /\ x \in Sessions /\ x.left <= x.tx.max /\ x.tx = v.tx /\ x.root = v.root /\ x.dry = d
        /\ x.flag = None /\ x.phase = "action" /\ Sound(x.st) /\ OnItsRoot(x)
        /\ x.st.code = v.root.code
    BY <1>3, <1>8, <2>1, SessionBegun DEF able, x
  <2> QED BY <1>7, <2>1, <2>2
<1>12. TypeOKExecution'
  <2>1. TypeOKExecution
    BY DEF SettlementInv
  <2>2. session' \in Sessions \cup {None} /\ (session' # None => session'.left <= session'.tx.max)
    BY <1>11
  <2>3. panicked' \in Calls \cup {None}
    BY <1>5, <1>6 DEF Calls
  <2>4. verified' \in Pendings \cup {None} /\ converted' \in Pendings \cup {None}
    BY <2>1 DEF TypeOKExecution
  <2> QED BY <1>1, <1>9, <2>1, <2>2, <2>3, <2>4 DEF TypeOKExecution
<1>13. StatesSound'
  <2>1. Sound(startup) /\ (converted # None => Sound(converted.root))
    BY DEF SettlementInv, StatesSound
  <2>2. Sound(startup') /\ (converted' # None => Sound(converted'.root))
    BY <1>1, <2>1
  <2>3. session' # None => Sound(session'.root) /\ Sound(session'.st) /\ OnItsRoot(session')
    BY <1>11
  <2> QED BY <2>2, <2>3 DEF StatesSound
<1>14. OneAtATime'
  <2>1. OneAtATime
    BY DEF SettlementInv
  <2>2. session' # None /\ ~session'.dry =>
          /\ session'.root = startup' /\ verified' = None /\ refresh' = None
          /\ session'.tx.seq = sequence_number(startup', session'.tx.sender)
    BY <1>1, <1>11 DEF validate
  <2>3. verified' # None => verified' = verified
    OBVIOUS
  <2>4. exec'.root = startup'
    BY <1>1, <1>2, <1>9
  <2> QED BY <1>1, <2>1, <2>2, <2>3, <2>4 DEF OneAtATime
<1>15. CodeFollows'
  <2>1. ASSUME session' # None PROVE SessionCode(exec', session', taint')
    <3>1. session'.flag # TRUE
      BY <1>11, <2>1, NoneAssumption
    <3>2. Extends(session'.root, session'.st)
      BY <1>11, <2>1 DEF Extends
    <3>3. taint' \cap {"load", "flag"} = {} => Cached(exec', exec'.root)
      BY <1>9, <1>10, <1>11, <2>1
    <3>4. taint' \cap {"load", "flag"} = {} /\ ~session'.dry => Cached(exec', session'.st)
      BY <1>2, <1>9, <1>11, <2>1, <3>3 DEF Cached
    <3>5. exec'.table # None /\ exec'.invalid = FALSE
      BY <1>4, <1>9, <1>11, <2>1
    <3> QED BY <3>1, <3>2, <3>3, <3>4, <3>5 DEF SessionCode
  <2>2. CodeFollows /\ ("flag" \notin taint' => "flag" \notin taint)
    BY <1>1 DEF SettlementInv
  <2> QED BY <1>1, <2>1, <2>2 DEF CodeFollows
<1>16. CurrentCaches'
  <2>1. CurrentCaches /\ taint \subseteq taint'
    BY <1>1 DEF SettlementInv
  <2>2. TableIsCurrent'
    BY <1>1, <1>4, <1>9, <2>1 DEF CurrentCaches, TableIsCurrent
  <2>3. LoaderIsCurrent'
    BY <1>9, <1>10 DEF LoaderIsCurrent, Cached
  <2>4. ReaderIsCurrent'
    BY <1>1, <2>1 DEF CurrentCaches, ReaderIsCurrent
  <2> QED BY <2>2, <2>3, <2>4 DEF CurrentCaches
<1>17. DepositIsCovered'
  <2>1. ASSUME ~LocalOrDev, ~d PROVE able
    <3>1. v.root = startup /\ Sound(startup) /\ validate(startup, v.tx) /\ v.tx.max > 0
      BY <1>1, <2>1, IdleParts
    <3> QED BY <1>3, <2>1, <3>1, ValidatedCanPay DEF able
  <2>2. None # "execute" /\ "dry_run" # "execute"
    BY NoneAssumption DEF Calls
  <2> QED BY <1>5, <1>6, <2>1, <2>2 DEF DepositIsCovered
<1> QED BY <1>12, <1>13, <1>14, <1>15, <1>16, <1>17 DEF SettlementInv

(* Execution begins, and a dry run begins.                                 *)
LEMMA BeginSteps ==
  ASSUME SettlementInv, Execute \/ DryRun
  PROVE  SettlementInv'
<1>1. CASE Execute
  <2>1. verified # None /\ Begin(verified, FALSE) /\ verified' = None /\ converted' = converted
    BY <1>1 DEF Execute
  <2>2. verified \in Pendings /\ verified.root = startup /\ refresh = None
        /\ validate(startup, verified.tx) /\ verified.tx.max > 0 /\ Sound(startup)
    BY <2>1 DEF SettlementInv, TypeOKExecution, OneAtATime, StatesSound
  <2> QED BY <2>1, <2>2, BeginStep
<1>2. CASE DryRun
  <2>1. converted # None /\ Begin(converted, TRUE) /\ converted' = None /\ verified' = verified
    BY <1>2 DEF DryRun
  <2>2. converted \in Pendings /\ Sound(converted.root)
    BY <2>1 DEF SettlementInv, TypeOKExecution, StatesSound
  <2> QED BY <2>1, <2>2, BeginStep
<1> QED BY <1>1, <1>2

(* The executor when a session is over without a new state.                *)
LEMMA SessionDropped ==
  ASSUME SettlementInv, session # None, session' = None, panicked' \in {None, "cleanup"},
         exec' \in {exec, Cleaned(session)}, taint' = Discarded(session),
         UNCHANGED <<startup, reader, verified, converted, refresh>>
  PROVE  SettlementInv'
<1>1. exec \in MoveOSes /\ SessionCode(exec, session, taint) /\ exec.root = startup
      /\ session \in Sessions
  BY SessionParts
<1>2. exec' \in MoveOSes /\ exec'.root = exec.root /\ exec'.cache = exec.cache
      /\ exec'.invalid = exec.invalid /\ exec'.table \in {exec.table, None}
  BY <1>1 DEF Cleaned, MoveOSes
<1>3. taint \subseteq taint' /\ (session.foreign => "load" \in taint')
  BY DEF Discarded
<1>4. TypeOKExecution'
  <2>1. panicked' \in Calls \cup {None}
    BY DEF Calls
  <2> QED BY <1>2, <2>1 DEF SettlementInv, TypeOKExecution
<1>5. StatesSound'
  <2>1. Sound(startup) /\ (converted # None => Sound(converted.root))
    BY DEF SettlementInv, StatesSound
  <2>2. Sound(startup') /\ (converted' # None => Sound(converted'.root))
    BY <2>1
  <2> QED BY <2>2 DEF StatesSound
<1>6. OneAtATime'
  BY <1>2 DEF SettlementInv, OneAtATime
<1>7. CodeFollows'
  BY <1>3 DEF SettlementInv, CodeFollows
<1>8. CurrentCaches'
  <2>1. CurrentCaches
    BY DEF SettlementInv
  <2>2. TableIsCurrent'
    BY <1>2, <1>3, <2>1 DEF CurrentCaches, TableIsCurrent
  <2>3. LoaderIsCurrent'
    <3>1. ~exec.invalid /\ taint' \cap {"load", "flag"} = {} => Cached(exec, exec.root)
      BY <1>1, <1>3 DEF SessionCode
    <3> QED BY <1>2, <3>1 DEF LoaderIsCurrent, Cached
  <2>4. ReaderIsCurrent'
    BY <1>3, <2>1 DEF CurrentCaches, ReaderIsCurrent
  <2> QED BY <2>2, <2>3, <2>4 DEF CurrentCaches
<1>9. DepositIsCovered'
  BY NoneAssumption DEF DepositIsCovered, Calls
<1> QED BY <1>4, <1>5, <1>6, <1>7, <1>8, <1>9 DEF SettlementInv

(* A session that settles: the state it commits.                           *)
LEMMA SettlementRefunds ==
  ASSUME SettlementInv, session # None, ~session.dry, Settles
  PROVE  /\ Refunded(session.st, session.tx, query_gas_used(session),
                     post_execute(session.st, session.tx, query_gas_used(session)))
         /\ session.tx.seq = sequence_number(startup, session.tx.sender)
         /\ query_gas_used(session) \in Nat /\ query_gas_used(session) <= session.tx.max
         /\ session.tx.max \in Nat
<1> DEFINE used == query_gas_used(session)
           t == session.tx
           st == session.st
<1>1. session \in Sessions /\ session.left <= session.tx.max /\ Sound(st) /\ OnItsRoot(session)
      /\ session.root = startup
  BY SessionParts
<1>2. t \in Tx /\ t.max \in Nat /\ session.left \in Nat /\ t.sender \in Accounts
  BY <1>1, SessionFields
<1>3. used \in Nat /\ used <= t.max
  BY <1>1, <1>2 DEF query_gas_used
<1>4. t.seq = sequence_number(startup, t.sender)
  BY DEF SettlementInv, OneAtATime
<1>5. t.sender \in st.acct /\ st.seq = startup.seq
  BY <1>1 DEF OnItsRoot
<1>6. st.seq[t.sender] <= MaxSeq
  <2>1. t.seq \in 0..MaxSeq /\ Sound(startup)
    BY <1>2 DEF Tx, SettlementInv, StatesSound
  <2>2. startup.seq[t.sender] = t.seq
    BY <1>2, <1>4, <2>1 DEF sequence_number, Sound
  <2> QED BY <1>5, <2>1, <2>2
<1>7. CanPostExecute(st, t, used)
  BY DEF Settles
<1> HIDE DEF used, t, st
<1>8. Refunded(st, t, used, post_execute(st, t, used))
  BY <1>1, <1>2, <1>3, <1>5, <1>6, <1>7, PostExecuteSound, Zenon
<1> QED BY <1>2, <1>3, <1>4, <1>8 DEF used, t, st

(* What it is next to the state committed before.                          *)
LEMMA Settlement ==
  ASSUME SettlementInv, session # None, ~session.dry, Settles
  PROVE  LET new == post_execute(session.st, session.tx, query_gas_used(session))
         IN /\ Sound(new)
            /\ new.seq = [startup.seq EXCEPT ![session.tx.sender] = @ + 1]
            /\ new.pool = startup.pool + query_gas_used(session)
            /\ new.sched = session.st.sched /\ new.code = session.st.code
            /\ session.tx.seq = sequence_number(startup, session.tx.sender)
            /\ query_gas_used(session) \in Nat /\ query_gas_used(session) <= session.tx.max
<1> DEFINE used == query_gas_used(session)
           st == session.st
           new == post_execute(st, session.tx, used)
<1>1. Refunded(st, session.tx, used, new) /\ session.tx.max \in Nat
      /\ session.tx.seq = sequence_number(startup, session.tx.sender)
      /\ used \in Nat /\ used <= session.tx.max
  BY SettlementRefunds
<1>2. st.seq = startup.seq /\ st.pool = startup.pool + session.tx.max
  BY SessionParts DEF OnItsRoot
<1>3. startup.pool \in Nat
  BY DEF SettlementInv, TypeOKExecution, States
<1> HIDE DEF used, new, st
<1>4. Sound(new) /\ new.seq = [st.seq EXCEPT ![session.tx.sender] = @ + 1]
      /\ new.pool = st.pool - (session.tx.max - used) /\ new.sched = st.sched /\ new.code = st.code
  BY <1>1 DEF Refunded
<1>5. new.pool = startup.pool + used
  BY <1>1, <1>2, <1>3, <1>4
<1> QED BY <1>1, <1>2, <1>4, <1>5 DEF used, new, st

(* The executor that moves to a new state.                                 *)
LEMMA ReloadedFields ==
  ASSUME NEW m \in MoveOSes, NEW new \in States
  PROVE  LET n == Reloaded(m, new)
         IN /\ n \in MoveOSes /\ n.root = new /\ n.table = m.table
            /\ m.table = None => n.natives = m.root.sched /\ Cached(n, new)
            /\ m.table # None => n.cache = m.cache /\ n.invalid = m.invalid
<1>1. CASE m.table = None
  <2> DEFINE k == NewMoveOS(m.root, m.root.sched)
             n == [k EXCEPT !.root = new]
  <2>1. Reloaded(m, new) = n
    BY <1>1 DEF Reloaded
  <2>2. Empty \in [Packages -> Codes \cup {None}] /\ \A p \in Packages : Empty[p] = None
    BY DEF Empty
  <2>3. m.root.sched \in 0..MaxVersion /\ m.root \in States
    BY DEF MoveOSes, States
  <2>4. k \in MoveOSes /\ k.table = None /\ k.natives = m.root.sched /\ k.cache = Empty
    BY <2>2, <2>3 DEF NewMoveOS, MoveOSes
  <2> HIDE DEF k
  <2>5. n \in MoveOSes /\ n.root = new /\ n.table = k.table /\ n.natives = k.natives
        /\ n.cache = k.cache
    BY <2>4 DEF MoveOSes
  <2> HIDE DEF n
  <2> QED BY <1>1, <2>1, <2>2, <2>4, <2>5 DEF Cached
<1>2. CASE m.table # None
  <2> DEFINE n == [m EXCEPT !.root = new]
  <2>1. Reloaded(m, new) = n
    BY <1>2 DEF Reloaded
  <2>2. n \in MoveOSes /\ n.root = new /\ n.table = m.table /\ n.cache = m.cache
        /\ n.invalid = m.invalid
    BY DEF MoveOSes
  <2> HIDE DEF n
  <2> QED BY <1>2, <2>1, <2>2
<1> QED BY <1>1, <1>2

(* A commit makes the new state the startup state.                         *)
LEMMA CommitStep ==
  ASSUME SettlementInv, Commit
  PROVE  SettlementInv'
<1>1. session # None /\ session.phase = "cleanup" /\ ~session.dry /\ session' = None
      /\ UNCHANGED <<reader, verified, converted>> /\ panicked = None
  BY DEF Commit, In
<1>2. CASE ~Settles
  <2>1. panicked' = "cleanup" /\ taint' = Discarded(session)
        /\ UNCHANGED <<startup, exec, refresh>>
    BY <1>2 DEF Commit
  <2> QED BY <1>1, <2>1, SessionDropped
<1>3. CASE Settles
  <2> DEFINE new == post_execute(session.st, session.tx, query_gas_used(session))
             m == Cleaned(session)
             msg == [root |-> new, upgrade |-> session.flag = TRUE]
  <2>1. startup' = new /\ exec' = Reloaded(m, new) /\ refresh' = msg
        /\ UNCHANGED <<panicked, taint>>
    BY <1>3 DEF Commit
  <2>2. Sound(new) /\ new.sched = session.st.sched /\ new.code = session.st.code
    BY <1>1, <1>3, Settlement
  <2> HIDE DEF new
  <2>3. new \in States
    BY <2>2 DEF Sound
  <2>4. msg \in Refreshes /\ msg.root = new /\ msg.upgrade = (session.flag = TRUE)
    BY <2>3 DEF Refreshes
  <2>5. session \in Sessions /\ exec \in MoveOSes /\ OnItsRoot(session) /\ exec.root = startup
        /\ SessionCode(exec, session, taint) /\ session.root = startup
    BY <1>1, SessionParts
  <2>6. m \in MoveOSes /\ m.cache = exec.cache /\ m.invalid = exec.invalid
        /\ m.table = IF session.updated THEN None ELSE exec.table
    BY <2>5 DEF Cleaned, MoveOSes
  <2> HIDE DEF m, msg
  <2>7. exec' \in MoveOSes /\ exec'.root = new /\ exec'.table = m.table
        /\ (m.table = None => Cached(exec', new))
        /\ (m.table # None => exec'.cache = m.cache /\ exec'.invalid = m.invalid)
    BY <2>1, <2>3, <2>6, ReloadedFields
  <2>8. refresh' # None /\ refresh'.root = startup' /\ verified' = None
        /\ refresh = None /\ reader.root = startup
    BY <1>1, <2>1, <2>4, NoneAssumption DEF SettlementInv, OneAtATime
  <2>9. TypeOKExecution'
    BY <1>1, <2>1, <2>3, <2>4, <2>7 DEF SettlementInv, TypeOKExecution
  <2>10. StatesSound'
    <3>1. converted # None => Sound(converted.root)
      BY DEF SettlementInv, StatesSound
    <3>2. Sound(startup') /\ (converted' # None => Sound(converted'.root))
      BY <1>1, <2>1, <2>2, <3>1
    <3> QED BY <1>1, <3>2 DEF StatesSound
  <2>11. OneAtATime'
    BY <1>1, <2>1, <2>7, <2>8 DEF OneAtATime
  <2>12. CodeFollows'
    <3>1. ASSUME ~refresh'.upgrade, "flag" \notin taint' PROVE Extends(reader'.root, refresh'.root)
      <4>1. session.flag # TRUE /\ "flag" \notin taint
        BY <2>1, <2>4, <3>1
      <4>2. Extends(session.root, session.st)
        BY <2>5, <4>1 DEF SessionCode
      <4>3. reader'.root = session.root /\ refresh'.root.code = session.st.code
        BY <1>1, <2>1, <2>2, <2>4, <2>5, <2>8
      <4> QED BY <4>2, <4>3 DEF Extends
    <3> QED BY <1>1, <3>1 DEF CodeFollows
  <2>13. CurrentCaches'
    <3>1. CurrentCaches
      BY DEF SettlementInv
    <3>2. TableIsCurrent'
      <4>1. exec'.table # None => ~session.updated /\ exec'.table = exec.table
        BY <2>6, <2>7
      <4>2. ~session.updated => new.sched = exec.root.sched
        BY <2>2, <2>5 DEF OnItsRoot
      <4> QED BY <2>1, <2>7, <3>1, <4>1, <4>2 DEF CurrentCaches, TableIsCurrent
    <3>3. ASSUME ~exec'.invalid, taint' \cap {"load", "flag"} = {} PROVE Cached(exec', new)
      <4>1. CASE m.table # None
        <5>1. session.flag # TRUE /\ taint \cap {"load", "flag"} = {}
          BY <1>1, <2>1, <2>5, <2>6, <2>7, <3>3, <4>1 DEF SessionCode
        <5>2. Cached(exec, session.st)
          BY <1>1, <2>5, <5>1 DEF SessionCode
        <5> QED BY <2>2, <2>6, <2>7, <4>1, <5>2 DEF Cached
      <4>2. CASE m.table = None
        BY <2>7, <4>2
      <4> QED BY <4>1, <4>2
    <3>4. LoaderIsCurrent'
      BY <2>7, <3>3 DEF LoaderIsCurrent, Cached
    <3>5. ReaderIsCurrent'
      BY <1>1, <2>1, <3>1 DEF CurrentCaches, ReaderIsCurrent
    <3> QED BY <3>2, <3>4, <3>5 DEF CurrentCaches
  <2>14. DepositIsCovered'
    BY <2>1 DEF SettlementInv, DepositIsCovered
  <2> QED BY <2>9, <2>10, <2>11, <2>12, <2>13, <2>14 DEF SettlementInv
<1> QED BY <1>2, <1>3

(* The reader learns of the new state.                                     *)
LEMMA RefreshStep ==
  ASSUME SettlementInv, refresh_state
  PROVE  SettlementInv'
<1> DEFINE m == Refreshed(reader, refresh)
<1>1. refresh # None /\ reader' = m /\ refresh' = None
      /\ UNCHANGED <<startup, exec, verified, converted, session, panicked, taint>>
  BY DEF refresh_state
<1>2. reader \in MoveOSes /\ refresh \in Refreshes /\ refresh.root = startup
  BY <1>1 DEF SettlementInv, TypeOKExecution, OneAtATime
<1>3. m \in MoveOSes /\ m.root = refresh.root /\ m.cache = reader.cache
      /\ m.invalid = (reader.invalid \/ refresh.upgrade)
  <2>1. refresh.root \in States /\ refresh.upgrade \in BOOLEAN
    BY <1>2 DEF Refreshes
  <2> QED BY <1>2, <2>1 DEF Refreshed, mark_loader_cache_as_invalid, MoveOSes
<1> HIDE DEF m
<1>4. TypeOKExecution'
  BY <1>1, <1>3 DEF SettlementInv, TypeOKExecution
<1>5. StatesSound'
  <2>1. StatesSound
    BY DEF SettlementInv
  <2> QED BY <1>1, <2>1 DEF StatesSound
<1>6. OneAtATime'
  <2>1. OneAtATime
    BY DEF SettlementInv
  <2>2. verified' = None /\ reader'.root = startup'
    BY <1>1, <1>2, <1>3, <2>1 DEF OneAtATime
  <2> QED BY <1>1, <2>1, <2>2 DEF OneAtATime
<1>7. CodeFollows'
  BY <1>1 DEF SettlementInv, CodeFollows
<1>8. CurrentCaches'
  <2>1. CurrentCaches
    BY DEF SettlementInv
  <2>2. TableIsCurrent' /\ LoaderIsCurrent'
    BY <1>1, <2>1 DEF CurrentCaches, TableIsCurrent, LoaderIsCurrent
  <2>3. ReaderIsCurrent'
    <3> SUFFICES ASSUME ~m.invalid, "flag" \notin taint, NEW p \in Packages, m.cache[p] # None
                 PROVE  m.cache[p] = m.root.code[p]
      BY <1>1 DEF ReaderIsCurrent
    <3>1. reader.cache[p] = reader.root.code[p] /\ reader.cache[p] # None
      BY <1>3, <2>1 DEF CurrentCaches, ReaderIsCurrent
    <3>2. Extends(reader.root, refresh.root)
      BY <1>1, <1>3 DEF SettlementInv, CodeFollows
    <3> QED BY <1>3, <3>1, <3>2 DEF Extends
  <2> QED BY <2>2, <2>3 DEF CurrentCaches
<1>9. DepositIsCovered'
  BY <1>1 DEF SettlementInv, DepositIsCovered
<1> QED BY <1>4, <1>5, <1>6, <1>7, <1>8, <1>9 DEF SettlementInv

(* A view function of the reader.                                          *)
LEMMA ViewStep ==
  ASSUME SettlementInv, NEW p \in Packages, View(p)
  PROVE  SettlementInv'
<1> DEFINE l == load_cost_table(reader, reader.root)
           n == NewSession(l)
           r == reader.root
           m == Load(n, r, p)
<1>1. reader' = m
      /\ UNCHANGED <<startup, exec, verified, converted, session, refresh, panicked, taint>>
  BY DEF View
<1>2. reader \in MoveOSes /\ r \in States
  BY DEF SettlementInv, TypeOKExecution, MoveOSes
<1>3. l \in MoveOSes /\ l.root = r /\ l.cache = reader.cache /\ l.invalid = reader.invalid
  BY <1>2, TableLoaded
<1> HIDE DEF l, r
<1>4. n \in MoveOSes /\ n.root = l.root /\ (l.invalid \/ Cached(l, r) => Cached(n, r))
  BY <1>3, SessionOpened
<1> HIDE DEF n
<1>5. m \in MoveOSes /\ m.root = n.root /\ (Cached(n, r) => Cached(m, r))
  <2>1. r.code[p] \in Codes \cup {None}
    BY <1>2 DEF States
  <2>2. CASE n.cache[p] = None
    <3> DEFINE k == [n EXCEPT !.cache[p] = r.code[p]]
    <3>1. m = k
      BY <2>2 DEF Load
    <3>2. k \in MoveOSes /\ k.root = n.root
          /\ \A q \in Packages : k.cache[q] = IF q = p THEN r.code[p] ELSE n.cache[q]
      BY <1>4, <2>1 DEF MoveOSes
    <3> HIDE DEF k, m
    <3> QED BY <3>1, <3>2 DEF Cached
  <2>3. CASE n.cache[p] # None
    BY <1>4, <2>3 DEF Load
  <2> QED BY <2>2, <2>3
<1> HIDE DEF m
<1>6. reader'.root = reader.root /\ reader' \in MoveOSes
  BY <1>1, <1>3, <1>4, <1>5 DEF r
<1>7. TypeOKExecution'
  BY <1>1, <1>6 DEF SettlementInv, TypeOKExecution
<1>8. StatesSound'
  <2>1. StatesSound
    BY DEF SettlementInv
  <2> QED BY <1>1, <2>1 DEF StatesSound
<1>9. OneAtATime'
  BY <1>1, <1>6 DEF SettlementInv, OneAtATime
<1>10. CodeFollows'
  BY <1>1, <1>6 DEF SettlementInv, CodeFollows
<1>11. CurrentCaches'
  <2>1. CurrentCaches
    BY DEF SettlementInv
  <2>2. TableIsCurrent' /\ LoaderIsCurrent'
    BY <1>1, <2>1 DEF CurrentCaches, TableIsCurrent, LoaderIsCurrent
  <2>3. "flag" \notin taint => l.invalid \/ Cached(l, r)
    BY <1>3, <2>1 DEF CurrentCaches, ReaderIsCurrent, Cached, r
  <2>4. "flag" \notin taint => Cached(m, r)
    BY <1>4, <1>5, <2>3
  <2>5. ReaderIsCurrent'
    BY <1>1, <1>3, <1>4, <1>5, <2>4 DEF ReaderIsCurrent, Cached
  <2> QED BY <2>2, <2>5 DEF CurrentCaches
<1>12. DepositIsCovered'
  BY <1>1 DEF SettlementInv, DepositIsCovered
<1> QED BY <1>7, <1>8, <1>9, <1>10, <1>11, <1>12 DEF SettlementInv

(* The process starts again from the committed state.                      *)
LEMMA RestartStep ==
  ASSUME SettlementInv, Restart
  PROVE  SettlementInv'
<1> DEFINE m == NewMoveOS(startup, startup.sched)
<1>1. exec' = m /\ reader' = m /\ verified' = None /\ converted' = None /\ session' = None
      /\ refresh' = None /\ panicked' = None /\ taint' = {} /\ startup' = startup
  BY DEF Restart
<1>2. startup \in States /\ Sound(startup)
  BY DEF SettlementInv, TypeOKExecution, StatesSound
<1>3. m \in MoveOSes /\ m.root = startup /\ m.table = None
      /\ \A p \in Packages : m.cache[p] = None
  <2>1. startup.sched \in 0..MaxVersion
    BY <1>2 DEF States
  <2> QED BY <1>2, <2>1 DEF NewMoveOS, Empty, MoveOSes
<1> HIDE DEF m
<1>4. TypeOKExecution'
  BY <1>1, <1>2, <1>3 DEF TypeOKExecution
<1>5. StatesSound'
  <2>1. Sound(startup')
    BY <1>1, <1>2
  <2> QED BY <1>1, <2>1 DEF StatesSound
<1>6. OneAtATime'
  BY <1>1, <1>3 DEF OneAtATime
<1>7. CodeFollows'
  BY <1>1 DEF CodeFollows
<1>8. CurrentCaches'
  BY <1>1, <1>3 DEF CurrentCaches, TableIsCurrent, LoaderIsCurrent, ReaderIsCurrent
<1>9. DepositIsCovered'
  BY <1>1, NoneAssumption DEF DepositIsCovered, Calls
<1> QED BY <1>4, <1>5, <1>6, <1>7, <1>8, <1>9 DEF SettlementInv

(* The genesis state is sound.                                             *)
LEMMA GenesisSound == Sound(GenesisState)
<1> DEFINE g == GenesisState
           b == [a \in Accounts |-> IF a \in Funded THEN InitialCoins ELSE 0]
<1>1. InitialCoins \in Nat /\ MaxSeq \in Nat /\ MaxVersion \in Nat /\ Funded \in SUBSET Accounts
  BY ExecutionAssumption
<1>2. Cardinality(Funded) \in Nat
  BY <1>1, FS_Subset, FS_CardinalityType, ExecutionAssumption
<1>3. InitialCoins * Cardinality(Funded) \in Nat
  BY <1>1, <1>2
<1>4. Empty \in [Packages -> Codes \cup {None}]
  BY DEF Empty
<1>5. b \in [Accounts -> Nat] /\ Total(b) = InitialCoins * Cardinality(Funded)
  BY <1>1, TotalUniform
<1>6. g.seq = [a \in Accounts |-> 0] /\ g.bal = b /\ g.store = Funded /\ g.pool = 0
      /\ g.supply = InitialCoins * Cardinality(Funded)
  BY DEF GenesisState
<1>7. g \in States
  <2>1. [a \in Accounts |-> 0] \in [Accounts -> 0..(MaxSeq + 1)] /\ 0 \in 0..MaxVersion
    BY <1>1
  <2> QED BY <1>1, <1>3, <1>4, <1>5, <2>1 DEF GenesisState, States
<1>8. Coins(g) = g.supply
  <2>1. Coins(g) = Total(g.bal) + g.pool
    BY <1>7, CoinsOfState
  <2> HIDE DEF g, b
  <2> QED BY <1>3, <1>5, <1>6, <2>1
<1>9. \A a \in Accounts : (a \notin g.acct => g.seq[a] = 0) /\ (a \notin g.store => g.bal[a] = 0)
  BY <1>6
<1> QED BY <1>7, <1>8, <1>9 DEF Sound

(* The node starts with the invariant.                                     *)
LEMMA SettlementInit == InitExecution => SettlementInv
<1> SUFFICES ASSUME InitExecution PROVE SettlementInv
  OBVIOUS
<1> DEFINE m == NewMoveOS(GenesisState, 0)
<1>1. startup = GenesisState /\ exec = m /\ reader = m /\ verified = None /\ converted = None
      /\ session = None /\ refresh = None /\ panicked = None /\ taint = {}
  BY DEF InitExecution
<1>2. Sound(startup) /\ startup \in States
  BY <1>1, GenesisSound DEF Sound
<1>3. m \in MoveOSes /\ m.root = startup /\ m.table = None
      /\ \A p \in Packages : m.cache[p] = None
  <2>1. 0 \in 0..MaxVersion
    BY ExecutionAssumption
  <2> QED BY <1>1, <1>2, <2>1 DEF NewMoveOS, Empty, MoveOSes
<1> HIDE DEF m
<1>4. TypeOKExecution
  BY <1>1, <1>2, <1>3 DEF TypeOKExecution
<1>5. StatesSound
  BY <1>1, <1>2 DEF StatesSound
<1>6. OneAtATime
  BY <1>1, <1>3 DEF OneAtATime
<1>7. CodeFollows
  BY <1>1 DEF CodeFollows
<1>8. CurrentCaches
  BY <1>1, <1>3 DEF CurrentCaches, TableIsCurrent, LoaderIsCurrent, ReaderIsCurrent
<1>9. DepositIsCovered
  BY <1>1, NoneAssumption DEF DepositIsCovered, Calls
<1> QED BY <1>4, <1>5, <1>6, <1>7, <1>8, <1>9 DEF SettlementInv

(* Every step of the node keeps it.                                        *)
LEMMA SettlementNext == SettlementInv /\ [NextExecution]_vars => SettlementInv'
<1> SUFFICES ASSUME SettlementInv, [NextExecution]_vars PROVE SettlementInv'
  OBVIOUS
<1>1. CASE \E t \in Tx : Validate(t)
  BY <1>1, ValidateStep
<1>2. CASE \E t \in DryTx : Convert(t)
  BY <1>2, ConvertStep DEF DryTx
<1>3. CASE Execute \/ DryRun
  BY <1>3, BeginSteps
<1>4. CASE Program
  <2>1. CASE OutOfGas \/ Abort \/ \E p \in Packages, left \in 0..GasLimit : FailInit(p, left)
    BY <2>1, FailureSteps
  <2>2. CASE \/ Faucet \/ remove_coin_store
             \/ \E to \in Accounts, n \in Amounts : Transfer(to, n)
             \/ \E accept \in BOOLEAN : set_auto_accept_coin(accept)
    BY <2>2, CoinOperations
  <2>3. CASE upgrade_gas_schedule
    BY <2>3, UpgradeSchedule
  <2>4. CASE Returns \/ Executed
    BY <2>4, ReturnStep
  <2>5. CASE \E p \in Packages, c \in Codes, init \in BOOLEAN : publish_modules(p, c, init)
    BY <2>5, PublishStep
  <2>6. CASE \E p \in Packages : Call(p) \/ RunInit(p)
    BY <2>6, CallStep
  <2> QED BY <1>4, <2>1, <2>2, <2>3, <2>4, <2>5, <2>6 DEF Program
<1>5. CASE FinishDryRun
  <2>1. session # None /\ session' = None /\ panicked' \in {None, "cleanup"}
        /\ exec' = Cleaned(session) /\ taint' = Discarded(session)
        /\ UNCHANGED <<startup, reader, verified, converted, refresh>>
    BY <1>5 DEF FinishDryRun, In
  <2> QED BY <2>1, SessionDropped
<1>6. CASE Commit
  BY <1>6, CommitStep
<1>7. CASE refresh_state
  BY <1>7, RefreshStep
<1>8. CASE \E p \in Packages : View(p)
  BY <1>8, ViewStep
<1>9. CASE Restart
  BY <1>9, RestartStep
<1>10. CASE UNCHANGED vars
  <2>1. UNCHANGED <<startup, exec, reader, verified, converted, session, refresh, panicked, taint>>
    BY <1>10 DEF vars
  <2>2. TypeOKExecution' /\ OneAtATime' /\ CodeFollows' /\ DepositIsCovered'
    BY <2>1 DEF SettlementInv, TypeOKExecution, OneAtATime, CodeFollows, DepositIsCovered
  <2>3. StatesSound'
    BY <2>1 DEF SettlementInv, StatesSound
  <2>4. CurrentCaches'
    BY <2>1 DEF SettlementInv, CurrentCaches, TableIsCurrent, LoaderIsCurrent, ReaderIsCurrent
  <2> QED BY <2>2, <2>3, <2>4 DEF SettlementInv
<1> QED BY <1>1, <1>2, <1>3, <1>4, <1>5, <1>6, <1>7, <1>8, <1>9, <1>10 DEF NextExecution

--------------------------------------------------------------------------------
(* Theorems.                                                               *)

(* The strengthening holds for ever, whatever programs run.                *)
THEOREM SettlementInvariant == SpecExecution => []SettlementInv
<1> QED BY SettlementInit, SettlementNext, PTL DEF SpecExecution

(* The gas coins of all accounts and the fee pool are the supply after     *)
(* every step of every program, commit, respawn and refund, everything is  *)
(* typed, and the deposit validate promised is there for pre_execute.      *)
THEOREM CoinsAreAccountedFor == SpecExecution => []ExecutionInv
<1>1. SettlementInv => ExecutionInv
  BY DEF SettlementInv, StatesSound, Sound, ExecutionInv, SupplyIsBacked
<1> QED BY <1>1, SettlementInvariant, PTL

(* Versions of the gas schedule only grow, in a session and from one state *)
(* to the next, so the table the reader once loaded is not ahead of it.    *)
PricesGrow ==
  /\ ReaderTableLags
  /\ reader.root.sched <= startup.sched
  /\ session # None => session.root.sched <= session.st.sched

\* A session that goes on never prices by an older schedule than before.
LEMMA SessionPrices ==
  ASSUME SettlementInv, SettlementInv', NextExecution, session' # None, session'.updated
  PROVE  /\ session # None /\ session'.root = session.root
         /\ session'.st.sched >= session.st.sched
<1>t. /\ session # None => session \in Sessions /\ session.st \in States /\ session.st.sched \in Nat
      /\ verified # None => verified \in Pendings
      /\ converted # None => converted \in Pendings
  BY ExecutionAssumption DEF SettlementInv, TypeOKExecution, Sessions, States
<1>1. CASE Execute \/ DryRun
  <2>1. \E v, io, d : session' = Session(v.tx, v.root, io, d)
    BY <1>1 DEF Execute, DryRun, Begin, Idle
  <2> QED BY <2>1 DEF Session
<1>2. CASE OutOfGas \/ Abort \/ \E p \in Packages, left \in 0..GasLimit : FailInit(p, left)
  <2>1. \E x, left : session' = Respawned(x, left)
    BY <1>2 DEF OutOfGas, Abort, FailInit, Fails
  <2>2. ~session'.updated
    BY <2>1 DEF Respawned, Session
  <2> QED BY <2>2
<1>3. CASE \E to \in Accounts, n \in Amounts : Transfer(to, n)
  <2>1. PICK to \in Accounts, n \in Amounts : Transfer(to, n)
    BY <1>3
  <2> DEFINE r == Deposit(Withdraw(session.st, session.tx.sender, n), to, n)
             x == [session EXCEPT !.st = r]
  <2>2. session # None /\ Op(exec, x)
    BY <2>1 DEF Transfer, Running, In
  <2>3. r.sched = session.st.sched
    BY <2>2, <1>t DEF Deposit, Withdraw, States
  <2> HIDE DEF r
  <2>4. x.st = r /\ x.root = session.root /\ session' = [x EXCEPT !.left = @ - Cost, !.ops = @ + 1]
    BY <2>2, <1>t DEF Sessions, Op
  <2>5. session'.root = session.root /\ session'.st = r
    BY <2>2, <2>4, <1>t DEF Sessions
  <2> QED BY <2>2, <2>3, <2>5, <1>t
<1>4. CASE Faucet
  <2> DEFINE r == Minted(session.st, session.tx.sender, FaucetCoins)
             x == [session EXCEPT !.st = r]
  <2>2. session # None /\ Op(exec, x)
    BY <1>4 DEF Faucet, Running, In
  <2>3. r.sched = session.st.sched
    BY <2>2, <1>t DEF Minted, Deposit, States
  <2> HIDE DEF r
  <2>4. x.st = r /\ x.root = session.root /\ session' = [x EXCEPT !.left = @ - Cost, !.ops = @ + 1]
    BY <2>2, <1>t DEF Sessions, Op
  <2>5. session'.root = session.root /\ session'.st = r
    BY <2>2, <2>4, <1>t DEF Sessions
  <2> QED BY <2>2, <2>3, <2>5, <1>t
<1>5. CASE remove_coin_store
  <2> DEFINE s == session.st
             a == session.tx.sender
             r == [s EXCEPT !.store = @ \ {a}, !.bal[a] = 0, !.supply = @ - s.bal[a]]
             x == [session EXCEPT !.st = r]
  <2>2. session # None /\ Op(exec, x)
    BY <1>5 DEF remove_coin_store, Running, In
  <2>3. r.sched = session.st.sched
    BY <2>2, <1>t DEF States
  <2> HIDE DEF r
  <2>4. x.st = r /\ x.root = session.root /\ session' = [x EXCEPT !.left = @ - Cost, !.ops = @ + 1]
    BY <2>2, <1>t DEF Sessions, Op
  <2>5. session'.root = session.root /\ session'.st = r
    BY <2>2, <2>4, <1>t DEF Sessions
  <2> QED BY <2>2, <2>3, <2>5, <1>t
<1>6. CASE \E accept \in BOOLEAN : set_auto_accept_coin(accept)
  <2>1. PICK accept \in BOOLEAN : set_auto_accept_coin(accept)
    BY <1>6
  <2> DEFINE a == session.tx.sender
             x == [session EXCEPT !.st.refuse = IF accept THEN @ \ {a} ELSE @ \cup {a}]
  <2>2. session # None /\ Op(exec, x)
    BY <2>1 DEF set_auto_accept_coin, Running, In
  <2>3. x.st.sched = session.st.sched /\ x.root = session.root
    BY <2>2, <1>t DEF Sessions, States
  <2>4. session'.root = x.root /\ session'.st = x.st
    BY <2>2, <1>t DEF Sessions, Op
  <2> QED BY <2>2, <2>3, <2>4, <1>t
<1>7. CASE upgrade_gas_schedule
  <2> DEFINE x == [session EXCEPT !.st.sched = @ + 1, !.updated = TRUE]
  <2>2. session # None /\ Op(exec, x)
    BY <1>7 DEF upgrade_gas_schedule, Running, In
  <2>3. x.st.sched = session.st.sched + 1 /\ x.root = session.root
    BY <2>2, <1>t DEF Sessions, States
  <2>4. session'.root = x.root /\ session'.st = x.st
    BY <2>2, <1>t DEF Sessions, Op
  <2> QED BY <2>2, <2>3, <2>4, <1>t
<1>8. CASE \E p \in Packages, c \in Codes, init \in BOOLEAN : publish_modules(p, c, init)
  <2>1. PICK p \in Packages, c \in Codes, init \in BOOLEAN : publish_modules(p, c, init)
    BY <1>8
  <2> DEFINE upgrade == session.st.code[p] # None
             y == IF p = session.tx.sender THEN session ELSE Loads(session, p)
             x == [y EXCEPT !.st.code[p] = c,
                            !.inits = IF init /\ ~upgrade THEN @ \cup {p} ELSE @,
                            !.flag = set_module_upgrade_flag(@, upgrade)]
  <2>2. session # None /\ \E m : Op(m, x)
    BY <2>1 DEF publish_modules, Running, In
  <2>3. DOMAIN y = DOMAIN session /\ y.st = session.st /\ y.root = session.root
    BY <2>2, <1>t DEF Loads, Sessions
  <2> HIDE DEF y
  <2>4. x.st.sched = session.st.sched /\ x.root = session.root /\ DOMAIN x = DOMAIN session
    BY <2>2, <2>3, <1>t DEF Sessions, States
  <2>5. session'.root = x.root /\ session'.st = x.st
    BY <2>2, <2>4, <1>t DEF Sessions, Op
  <2> QED BY <2>2, <2>4, <2>5, <1>t
<1>9. CASE \E p \in Packages : Call(p) \/ RunInit(p)
  <2>1. PICK p \in Packages : Call(p) \/ RunInit(p)
    BY <1>9
  <2> DEFINE y == Loads(session, p)
  <2>2. session # None /\ \E m, x : Op(m, x) /\ (x = y \/ x = [y EXCEPT !.inits = @ \ {p}])
    BY <2>1 DEF Call, RunInit, Running, In
  <2>3. DOMAIN y = DOMAIN session /\ y.st = session.st /\ y.root = session.root
    BY <2>2, <1>t DEF Loads, Sessions
  <2> HIDE DEF y
  <2>5. session'.root = y.root /\ session'.st = y.st
    BY <2>2, <2>3, <1>t DEF Sessions, Op
  <2> QED BY <2>2, <2>3, <2>5, <1>t
<1>10. CASE Returns \/ Executed
  <2>1. session # None /\ session'.root = session.root /\ session'.st = session.st
    BY <1>10, <1>t DEF Returns, Executed, In, Sessions
  <2> QED BY <2>1, <1>t
<1>12. CASE FinishDryRun \/ Commit \/ Restart
  BY <1>12 DEF FinishDryRun, Commit, Restart
<1>13. CASE Program
  BY <1>13, <1>2, <1>3, <1>4, <1>5, <1>6, <1>7, <1>8, <1>9, <1>10, Zenon DEF Program
<1>14. CASE session' = session
  BY <1>14, <1>t
<1>15. CASE (\E t \in Tx : Validate(t)) \/ (\E t \in DryTx : Convert(t))
  BY <1>15, <1>14 DEF Validate, Convert
<1>16. CASE refresh_state \/ \E p \in Packages : View(p)
  BY <1>16, <1>14 DEF refresh_state, View
<1> QED BY <1>1, <1>12, <1>13, <1>15, <1>16, Zenon DEF NextExecution

\* Every step keeps the order of the versions.
LEMMA PricesNext ==
  ASSUME SettlementInv, SettlementInv', PricesGrow, [NextExecution]_vars
  PROVE  PricesGrow'
<1>t. /\ startup.sched \in Nat /\ reader \in MoveOSes /\ reader.root.sched \in Nat
      /\ reader.table # None => reader.table \in Nat
      /\ session # None => /\ session \in Sessions /\ session.st \in States
                           /\ session.root.sched \in Nat /\ session.st.sched \in Nat
      /\ session' # None => session'.root.sched \in Nat /\ session'.st.sched \in Nat
  BY ExecutionAssumption DEF SettlementInv, TypeOKExecution, Sessions, States, MoveOSes
<1>1. session' # None => session'.root.sched <= session'.st.sched
  <2> SUFFICES ASSUME session' # None PROVE session'.root.sched <= session'.st.sched
    OBVIOUS
  <2>1. CASE ~session'.updated
    BY <2>1, <1>t DEF SettlementInv, StatesSound, OnItsRoot
  <2>2. CASE session'.updated /\ NextExecution
    BY <2>2, <1>t, SessionPrices DEF PricesGrow
  <2>3. CASE UNCHANGED vars
    BY <2>3 DEF vars, PricesGrow
  <2> QED BY <2>1, <2>2, <2>3
<1>2. startup' = startup \/ (Commit /\ startup.sched <= startup'.sched)
  <2>1. startup' = startup \/ Commit
    BY DEF NextExecution, Program, Validate, Convert, Execute, DryRun, Begin, OutOfGas, Abort, Faucet,
       remove_coin_store, upgrade_gas_schedule, Returns, Executed, Transfer, set_auto_accept_coin,
       publish_modules, Call, RunInit, FailInit, Fails, Op, FinishDryRun, refresh_state, View,
       Restart, vars
  <2>2. ASSUME Commit, startup' # startup PROVE startup.sched <= startup'.sched
    <3>1. /\ session # None /\ ~session.dry
          /\ startup' = post_execute(session.st, session.tx, query_gas_used(session))
      BY <2>2 DEF Commit, In
    <3>2. startup'.sched = session.st.sched
      BY <3>1, <1>t DEF post_execute, Deposit, States
    <3>3. session.root = startup
      BY <3>1 DEF SettlementInv, OneAtATime
    <3> QED BY <3>1, <3>2, <3>3 DEF PricesGrow
  <2> QED BY <2>1, <2>2
<1>3. startup'.sched \in Nat
  BY ExecutionAssumption DEF SettlementInv, TypeOKExecution, States
<1>4. startup.sched <= startup'.sched
  BY <1>2, <1>t
<1>5. CASE reader' = reader
  BY <1>1, <1>3, <1>4, <1>5, <1>t DEF PricesGrow, ReaderTableLags
<1>6. CASE refresh_state
  <2>1. reader' = Refreshed(reader, refresh) /\ refresh.root = startup /\ startup' = startup
    BY <1>6 DEF refresh_state, SettlementInv, OneAtATime
  <2>2. reader'.table = reader.table /\ reader'.root = startup
    BY <2>1, <1>t DEF Refreshed, mark_loader_cache_as_invalid, MoveOSes
  <2> QED BY <1>1, <2>1, <2>2, <1>t DEF PricesGrow, ReaderTableLags
<1>7. CASE \E p \in Packages : View(p)
  <2>1. PICK p \in Packages : View(p)
    BY <1>7
  <2> DEFINE l == load_cost_table(reader, reader.root)
             n == NewSession(l)
  <2>2. reader' = Load(n, reader.root, p) /\ startup' = startup
    BY <2>1 DEF View
  <2>3. /\ DOMAIN l = DOMAIN reader /\ l.root = reader.root
        /\ l.table = IF reader.table = None THEN reader.root.sched ELSE reader.table
    BY <1>t DEF load_cost_table, MoveOSes
  <2> HIDE DEF l
  <2>4. DOMAIN n = DOMAIN reader /\ n.root = l.root /\ n.table = l.table
    BY <2>3, <1>t DEF NewSession, MoveOSes
  <2> HIDE DEF n
  <2>5. reader'.root = reader.root /\ reader'.table = l.table
    BY <2>2, <2>3, <2>4, <1>t DEF Load, MoveOSes
  <2> QED BY <1>1, <2>2, <2>3, <2>5, <1>t DEF PricesGrow, ReaderTableLags
<1>8. CASE Restart
  <2>1. reader' = NewMoveOS(startup, startup.sched) /\ startup' = startup
    BY <1>8 DEF Restart
  <2>2. reader'.root = startup /\ reader'.table = None
    BY <2>1 DEF NewMoveOS
  <2> QED BY <1>1, <2>1, <2>2, <1>t DEF PricesGrow, ReaderTableLags
<1>9. reader' = reader \/ refresh_state \/ (\E p \in Packages : View(p)) \/ Restart
  BY DEF NextExecution, Program, Validate, Convert, Execute, DryRun, Begin, OutOfGas, Abort, Faucet,
     remove_coin_store, upgrade_gas_schedule, Returns, Executed, Transfer, set_auto_accept_coin,
     publish_modules, Call, RunInit, FailInit, Fails, Op, FinishDryRun, Commit, vars
<1> QED BY <1>5, <1>6, <1>7, <1>8, <1>9

(* The writer's cost table and the loader caches of writer and reader are  *)
(* current, but after what the history variable names, and the reader's    *)
(* cost table, which no upgrade takes, is never ahead of the state it      *)
(* reads: load_cost_table, mark_loader_cache_as_invalid, refresh_state.    *)
THEOREM CachesStayCurrent == SpecExecution => []CachesAreCurrent
<1>1. InitExecution => PricesGrow
  <2> SUFFICES ASSUME InitExecution PROVE PricesGrow
    OBVIOUS
  <2>1. /\ startup.sched = 0 /\ reader = NewMoveOS(GenesisState, 0) /\ session = None
        /\ GenesisState.sched = 0
    BY DEF InitExecution, GenesisState
  <2>2. reader.root = GenesisState /\ reader.table = None
    BY <2>1 DEF NewMoveOS
  <2> QED BY <2>1, <2>2 DEF PricesGrow, ReaderTableLags
<1>2. SettlementInv /\ SettlementInv' /\ PricesGrow /\ [NextExecution]_vars => PricesGrow'
  BY PricesNext
<1>3. SettlementInv /\ PricesGrow => CachesAreCurrent
  BY DEF SettlementInv, CurrentCaches, PricesGrow, CachesAreCurrent
<1> QED BY <1>1, <1>2, <1>3, SettlementInvariant, PTL DEF SpecExecution

(* Only a commit and a restart change the executor's root, and only a      *)
(* commit the committed state.                                             *)
LEMMA WhoMovesTheRoot ==
  ASSUME SettlementInv, [NextExecution]_vars
  PROVE  \/ Commit
         \/ startup' = startup /\ exec'.root = exec.root
<1>1. exec \in MoveOSes /\ exec.root = startup
  BY DEF SettlementInv, TypeOKExecution, OneAtATime
<1>2. SettlementInv'
  BY SettlementNext
<1>3. exec'.root = startup'
  BY <1>2 DEF SettlementInv, OneAtATime
<1>4. Commit \/ startup' = startup
  <2>1. CASE \E t \in Tx : Validate(t)
    BY <2>1 DEF Validate
  <2>2. CASE \E t \in DryTx : Convert(t)
    BY <2>2 DEF Convert
  <2>3. CASE Execute \/ DryRun
    BY <2>3 DEF Execute, DryRun, Begin
  <2>4. CASE Program
    BY <2>4, ZenonT(30) DEF Program, OutOfGas, Abort, Faucet, remove_coin_store, upgrade_gas_schedule, Returns,
       Executed, Transfer, set_auto_accept_coin, publish_modules, Call, RunInit, FailInit, Fails, Op
  <2>5. CASE FinishDryRun \/ refresh_state \/ (\E p \in Packages : View(p)) \/ Restart
    BY <2>5 DEF FinishDryRun, refresh_state, View, Restart
  <2>6. CASE UNCHANGED vars
    BY <2>6 DEF vars
  <2> QED BY <2>1, <2>2, <2>3, <2>4, <2>5, <2>6 DEF NextExecution
<1> QED BY <1>1, <1>3, <1>4

(* A commit that changes the schedule leaves the natives priced by the     *)
(* schedule it ran under (ExecutorActor::execute).                         *)
THEOREM NativesLagByOne == SpecExecution => NativesFollow
<1>1. ASSUME SettlementInv, [NextExecution]_vars, exec'.root.sched # exec.root.sched
      PROVE  exec'.natives \in {exec.root.sched, exec'.root.sched}
  <2>1. Commit
    BY <1>1, WhoMovesTheRoot
  <2> DEFINE new == post_execute(session.st, session.tx, query_gas_used(session))
             m == Cleaned(session)
  <2>2. session # None /\ ~session.dry
    BY <2>1 DEF Commit, In
  <2>3. Settles /\ exec' = Reloaded(m, new)
    BY <1>1, <2>1 DEF Commit
  <2>4. Sound(new) /\ new.sched = session.st.sched
    BY <1>1, <2>2, <2>3, Settlement
  <2> HIDE DEF new
  <2>5. new \in States
    BY <2>4 DEF Sound
  <2>6. session \in Sessions /\ exec \in MoveOSes /\ OnItsRoot(session)
        /\ exec.root = startup /\ session.root = startup
    BY <1>1, <2>2, SessionParts
  <2>7. m \in MoveOSes /\ m.root = exec.root /\ (session.updated => m.table = None)
    BY <2>6 DEF Cleaned, MoveOSes
  <2> HIDE DEF m
  <2>8. exec'.root = new /\ (m.table = None => exec'.natives = m.root.sched)
    BY <2>3, <2>5, <2>7, ReloadedFields
  <2>9. session.updated
    BY <1>1, <2>4, <2>6, <2>8 DEF OnItsRoot
  <2> QED BY <2>7, <2>8, <2>9
<1>2. SettlementInv /\ [NextExecution]_vars =>
        [exec'.root.sched # exec.root.sched => exec'.natives \in {exec.root.sched, exec'.root.sched}]_vars
  BY <1>1
<1> QED BY <1>2, SettlementInvariant, PTL DEF SpecExecution, NativesFollow

(* States are equal when their fields are.                                 *)
LEMMA SameState ==
  ASSUME NEW r \in States, NEW s \in States,
         r.acct = s.acct, r.seq = s.seq, r.bal = s.bal, r.store = s.store, r.refuse = s.refuse,
         r.pool = s.pool, r.supply = s.supply, r.sched = s.sched, r.code = s.code
  PROVE  r = s
BY DEF States

(* State s with transaction t counted and used gas units paid for it.      *)
PaidOnly(s, t, used) ==
  [Created(s, t.sender) EXCEPT
     !.seq[t.sender] = @ + 1, !.bal[t.sender] = @ - used, !.pool = @ + used]

(* Refunding right after the deposit takes exactly the gas used.           *)
LEMMA DepositAndRefund ==
  ASSUME NEW s, Sound(s), NEW t \in Tx, CanPreExecute(s, t), NEW used \in Nat, used <= t.max,
         NEW new \in States, Refunded(pre_execute(s, t), t, used, new)
  PROVE  new = PaidOnly(s, t, used)
<1> DEFINE a == t.sender
           c == Created(s, a)
           pre == pre_execute(s, t)
           z == [c EXCEPT !.seq = new.seq, !.bal = new.bal, !.pool = new.pool]
<1>1. a \in Accounts /\ t.max \in Nat
  BY ExecutionAssumption DEF Tx
<1>2. Sound(c)
  BY <1>1, CreatedSound
<1>3. a \in c.store /\ c.bal[a] >= t.max
  BY DEF CanPreExecute, CanWithdraw
<1>4. pre = [[c EXCEPT !.bal[a] = @ - t.max] EXCEPT !.pool = @ + t.max]
  BY DEF pre_execute, Withdraw
<1> HIDE DEF c, pre
<1>5. c \in States /\ c.bal \in [Accounts -> Nat] /\ c.pool \in Nat /\ c.bal[a] \in Nat
      /\ c.seq \in [Accounts -> 0..(MaxSeq + 1)]
  BY <1>1, <1>2 DEF Sound, States
<1>6. pre.acct = c.acct /\ pre.seq = c.seq /\ pre.bal = [c.bal EXCEPT ![a] = @ - t.max]
      /\ pre.store = c.store /\ pre.refuse = c.refuse /\ pre.pool = c.pool + t.max
      /\ pre.supply = c.supply /\ pre.sched = c.sched /\ pre.code = c.code
  BY <1>4, <1>5 DEF States
<1>7. /\ new.acct = pre.acct /\ new.seq = [pre.seq EXCEPT ![a] = @ + 1]
      /\ new.pool = pre.pool - (t.max - used) /\ new.sched = pre.sched /\ new.code = pre.code
      /\ new.refuse = pre.refuse /\ new.supply = pre.supply
      /\ new.bal = [pre.bal EXCEPT ![a] = @ + (t.max - used)]
      /\ new.store = IF used < t.max THEN pre.store \cup {a} ELSE pre.store
  BY DEF Refunded, pre
<1>8. new.store = c.store
  <2>1. c.store \cup {a} = c.store
    BY <1>3
  <2> QED BY <1>6, <1>7, <2>1
<1>9. new.pool = c.pool + used
  BY <1>1, <1>5, <1>6, <1>7
<1>10. new.bal = [c.bal EXCEPT ![a] = @ - used]
  <2> DEFINE b == [c.bal EXCEPT ![a] = @ - t.max]
  <2>1. b[a] + (t.max - used) = c.bal[a] - used
    BY <1>1, <1>5
  <2>2. [b EXCEPT ![a] = b[a] + (t.max - used)] = [c.bal EXCEPT ![a] = b[a] + (t.max - used)]
    BY <1>1, <1>5
  <2> QED BY <1>6, <1>7, <2>1, <2>2
<1>11. new.seq = [c.seq EXCEPT ![a] = @ + 1]
  BY <1>6, <1>7
<1>12. z \in States /\ z.acct = c.acct /\ z.seq = new.seq /\ z.bal = new.bal /\ z.store = c.store
       /\ z.refuse = c.refuse /\ z.pool = new.pool /\ z.supply = c.supply /\ z.sched = c.sched
       /\ z.code = c.code
  <2>1. new.seq \in [Accounts -> 0..(MaxSeq + 1)] /\ new.bal \in [Accounts -> Nat]
        /\ new.pool \in Nat
    BY DEF States
  <2> QED BY <1>5, <2>1 DEF States
<1>13. z = [c EXCEPT !.seq[a] = @ + 1, !.bal[a] = @ - used, !.pool = @ + used]
  BY <1>5, <1>9, <1>10, <1>11 DEF States
<1> HIDE DEF z
<1>14. new = z
  BY <1>6, <1>7, <1>8, <1>12, SameState
<1> QED BY <1>13, <1>14 DEF c, PaidOnly

(* Every commit counts its transaction once, takes exactly the gas used,   *)
(* and leaves nothing but the fee behind when the action failed            *)
(* (execution_cleanup, post_execute, respawn, apply_transaction_output).   *)
THEOREM CommitsSettle == SpecExecution => TransactionsSettle
<1>1. ASSUME SettlementInv, [NextExecution]_vars, startup' # startup
      PROVE  CountedOnce /\ FailurePaysOnly /\ FeesAreExact
  <2> DEFINE t == session.tx
             used == query_gas_used(session)
             new == post_execute(session.st, t, used)
  <2>1. Commit
    BY <1>1, WhoMovesTheRoot
  <2>2. session # None /\ ~session.dry
    BY <2>1 DEF Commit, In
  <2>3. Settles /\ startup' = new
    BY <1>1, <2>1 DEF Commit
  <2>4. /\ Sound(new)
        /\ new.seq = [startup.seq EXCEPT ![t.sender] = @ + 1]
        /\ new.pool = startup.pool + used
        /\ t.seq = sequence_number(startup, t.sender)
        /\ used \in Nat /\ used <= t.max
    BY <1>1, <2>2, <2>3, Settlement
  <2>5. CountedOnce
    BY <2>3, <2>4 DEF CountedOnce
  <2>6. FeesAreExact
    BY <2>3, <2>4 DEF FeesAreExact
  <2>7. ASSUME session.status = "failed"
        PROVE  startup' = PaidOnly(startup, t, used)
    <3>1. session \in Sessions /\ OnItsRoot(session) /\ session.root = startup
          /\ Sound(session.st) /\ Sound(startup)
      BY <1>1, <2>2, SessionParts
    <3>2. session.st = pre_execute(startup, t) /\ CanPreExecute(startup, t) /\ t \in Tx
      BY <2>7, <3>1, SessionFields DEF OnItsRoot
    <3>3. Refunded(session.st, t, used, new)
      BY <1>1, <2>2, <2>3, SettlementRefunds
    <3>4. new \in States
      BY <2>4 DEF Sound
    <3> HIDE DEF new, used, t
    <3>5. Refunded(pre_execute(startup, t), t, used, new)
      BY <3>2, <3>3
    <3>6. new = PaidOnly(startup, t, used)
      BY <2>4, <3>1, <3>2, <3>4, <3>5, DepositAndRefund, Zenon
    <3> QED BY <2>3, <3>6
  <2>8. FailurePaysOnly
    BY <2>7 DEF FailurePaysOnly, PaidOnly
  <2> QED BY <2>5, <2>6, <2>8
<1>2. SettlementInv /\ [NextExecution]_vars =>
        [startup' # startup => CountedOnce /\ FailurePaysOnly /\ FeesAreExact]_vars
  BY <1>1
<1> QED BY <1>2, SettlementInvariant, PTL DEF SpecExecution, TransactionsSettle
================================================================================
