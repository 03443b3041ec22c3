------------------------ MODULE EscrowContractProofs ------------------------
(***************************************************************************)
(* The two contracts.  First the reputation contract by itself, for every  *)
(* set of addresses, amounts and ratings and every width of its counters;  *)
(* then the escrow contract, which calls it, for any number of wallets,    *)
(* tokens and escrows; last the cancellation of an escrow, which rests on  *)
(* what the contract lets the status of an escrow do.                      *)
(***************************************************************************)
EXTENDS EscrowContract, Cancellations, FiniteSetTheorems, TLAPS

-----------------------------------------------------------------------------
(***************************************************************************)
(* What SumTo returns: it follows its recurrence, and changing one summand *)
(* or adding one changes it by exactly that much.  Induction over the      *)
(* naturals is derived from the well-foundedness of the finite sets 0..n.  *)
(***************************************************************************)

\* Induction, stated for a set of naturals.
LEMMA InductiveSet ==
    ASSUME NEW S \in SUBSET Nat, 0 \in S, \A n \in S : n + 1 \in S
    PROVE  S = Nat
<1> DEFINE R == StrictSubsetOrdering(Nat)
           B == {0..m : m \in Nat \ S}
<1>1. SUFFICES ASSUME Nat \ S # {} PROVE FALSE
  OBVIOUS
<1>2. B # {} /\ B \subseteq FiniteSubsetsOf(Nat)
  <2>1. B # {} /\ B \subseteq SUBSET Nat
    BY <1>1
  <2>2. \A T \in B : IsFiniteSet(T)
    BY FS_Interval
  <2>3. QED
    BY <2>1, <2>2 DEF FiniteSubsetsOf
<1>3. PICK x \in B : \A y \in B : <<y, x>> \notin R
  <2>1. IsWellFoundedOn(R, FiniteSubsetsOf(Nat))
    BY FS_StrictSubsetOrderingWellFounded
  <2> HIDE DEF R, B
  <2>2. QED
    BY <2>1, <1>2, WFMin
<1>4. PICK m \in Nat \ S : x = 0..m
  OBVIOUS
<1>5. m # 0 /\ m - 1 \in Nat \ S
  OBVIOUS
<1>6. 0..(m - 1) \in B
  BY <1>5
<1>7. <<0..(m - 1), x>> \in R
  BY <1>4, <1>5 DEF StrictSubsetOrdering
<1>8. QED
  BY <1>3, <1>6, <1>7

\* t is the sequence of running totals of H.
Totals(t, H, n) ==
    /\ t \in [0..n -> Int]
    /\ t[0] = 0
    /\ \A i \in 1..n : t[i] = t[i - 1] + H[i]

LEMMA TotalsExist ==
    ASSUME NEW m \in Nat, NEW H \in [1..m -> Int]
    PROVE  \E t : Totals(t, H, m)
<1> DEFINE S == {n \in Nat : n <= m => \E t : Totals(t, H, n)}
<1>1. 0 \in S
  <2>1. Totals([i \in 0..0 |-> 0], H, 0)
    BY DEF Totals
  <2>2. QED
    BY <2>1
<1>2. ASSUME NEW n \in S PROVE n + 1 \in S
  <2>1. SUFFICES ASSUME n + 1 <= m PROVE \E t : Totals(t, H, n + 1)
    OBVIOUS
  <2>2. PICK t : Totals(t, H, n)
    BY <2>1
  <2> DEFINE u == [i \in 0..(n + 1) |-> IF i = n + 1 THEN t[n] + H[i]
                                                     ELSE t[i]]
  <2>3. H[n + 1] \in Int
    BY <2>1
  <2>4. u \in [0..(n + 1) -> Int] /\ u[0] = 0
    BY <2>2, <2>3 DEF Totals
  <2>5. ASSUME NEW i \in 1..(n + 1) PROVE u[i] = u[i - 1] + H[i]
    <3>1. CASE i = n + 1
      BY <3>1
    <3>2. CASE i \in 1..n
      <4>1. t[i] = t[i - 1] + H[i]
        BY <3>2, <2>2 DEF Totals
      <4>2. u[i] = t[i] /\ u[i - 1] = t[i - 1]
        BY <3>2
      <4>3. QED
        BY <4>1, <4>2
    <3>3. QED
      BY <3>1, <3>2
  <2>6. QED
    BY <2>4, <2>5 DEF Totals
<1>3. S = Nat
  <2> HIDE DEF S
  <2>1. S \in SUBSET Nat
    BY DEF S
  <2>2. QED
    BY <1>1, <1>2, <2>1, InductiveSet
<1>4. QED
  BY <1>3, SMTT(30)

\* The recursive function is the sequence of running totals, so any such
\* sequence ends in SumTo.
LEMMA SumIsTotal ==
    ASSUME NEW n \in Nat, NEW H \in [1..n -> Int],
           NEW t, Totals(t, H, n)
    PROVE  SumTo(H, n) = t[n]
<1> DEFINE F(g) == [i \in 0..n |-> IF i = 0 THEN 0 ELSE g[i - 1] + H[i]]
           c == CHOOSE g : g = F(g)
<1>1. t = F(t)
  BY DEF Totals
<1>2. c = F(c)
  <2> HIDE DEF F
  <2>1. QED
    BY <1>1
<1>3. SumTo(H, n) = c[n]
  BY DEF SumTo
<1> HIDE DEF c
<1>4. DOMAIN c = 0..n /\ c = [i \in 0..n |-> c[i]]
  BY <1>2
<1>5. c[0] = 0 /\ \A i \in 1..n : c[i] = c[i - 1] + H[i]
  BY <1>2
<1> DEFINE S == {k \in Nat : k <= n => c[k] = t[k]}
<1>6. S = Nat
  <2>1. 0 \in S
    BY <1>5 DEF Totals
  <2>2. ASSUME NEW k \in S PROVE k + 1 \in S
    <3>1. SUFFICES ASSUME k + 1 <= n PROVE c[k + 1] = t[k + 1]
      OBVIOUS
    <3>2. k + 1 \in 1..n /\ (k + 1) - 1 = k /\ c[k] = t[k]
      BY <3>1
    <3>3. QED
      BY <3>2, <1>5 DEF Totals
  <2> HIDE DEF S
  <2>3. S \in SUBSET Nat
    BY DEF S
  <2>4. QED
    BY <2>1, <2>2, <2>3, InductiveSet
<1>7. QED
  BY <1>3, <1>6

\* SumTo follows its recurrence from the totals of any function on 1..n.
LEMMA SumTotals ==
    ASSUME NEW n \in Nat, NEW H \in [1..n -> Int]
    PROVE  \E t : Totals(t, H, n) /\ SumTo(H, n) = t[n]
<1>1. PICK t : Totals(t, H, n)
  BY TotalsExist
<1>2. SumTo(H, n) = t[n]
  BY <1>1, SumIsTotal
<1>3. QED
  BY <1>1, <1>2

LEMMA SumType ==
    ASSUME NEW n \in Nat, NEW H \in [1..n -> Int]
    PROVE  SumTo(H, n) \in Int
BY SumTotals DEF Totals

LEMMA SumZero ==
    ASSUME NEW n \in Nat
    PROVE  SumTo([i \in 1..n |-> 0], n) = 0
<1> DEFINE t == [i \in 0..n |-> 0]
           H == [i \in 1..n |-> 0]
<1>1. Totals(t, H, n)
  BY DEF Totals
<1>2. H \in [1..n -> Int] /\ t[n] = 0
  OBVIOUS
<1> HIDE DEF t, H
<1>3. SumTo(H, n) = t[n]
  BY <1>1, <1>2, SumIsTotal
<1>4. QED
  BY <1>2, <1>3 DEF H

\* One summand changes: the sum changes by the difference.
LEMMA SumUpdate ==
    ASSUME NEW n \in Nat, NEW H \in [1..n -> Int], NEW G \in [1..n -> Int],
           NEW k \in 1..n, \A i \in 1..n : i # k => G[i] = H[i]
    PROVE  SumTo(G, n) = SumTo(H, n) - H[k] + G[k]
<1>1. PICK t : Totals(t, H, n) /\ SumTo(H, n) = t[n]
  BY SumTotals
<1> DEFINE u == [i \in 0..n |-> IF i < k THEN t[i] ELSE t[i] - H[k] + G[k]]
<1>2. Totals(u, G, n)
  <2>1. u \in [0..n -> Int] /\ u[0] = 0
    <3>1. H[k] \in Int /\ G[k] \in Int
      OBVIOUS
    <3>2. t \in [0..n -> Int] /\ t[0] = 0 /\ 0 < k
      BY <1>1 DEF Totals
    <3>3. QED
      BY <3>1, <3>2
  <2>2. ASSUME NEW i \in 1..n PROVE u[i] = u[i - 1] + G[i]
    <3>1. t[i] = t[i - 1] + H[i] /\ t[i - 1] \in Int /\ t[i] \in Int
          /\ H[i] \in Int /\ G[i] \in Int /\ H[k] \in Int /\ G[k] \in Int
      BY <1>1, SMTT(30) DEF Totals
    <3>2. CASE i < k
      BY <3>1, <3>2
    <3>3. CASE i = k
      BY <3>1, <3>3
    <3>4. CASE i > k
      <4>1. u[i] = t[i] - H[k] + G[k] /\ u[i - 1] = t[i - 1] - H[k] + G[k]
        BY <3>4
      <4>2. QED
        BY <3>1, <3>4, <4>1
    <3>5. QED
      BY <3>2, <3>3, <3>4
  <2>3. QED
    BY <2>1, <2>2 DEF Totals
<1>3. SumTo(G, n) = u[n]
  <2> HIDE DEF u
  <2>1. QED
    BY <1>2, SumIsTotal
<1>4. QED
  BY <1>1, <1>3

\* One more summand.
LEMMA SumExtend ==
    ASSUME NEW n \in Nat, NEW H \in [1..n -> Int],
           NEW G \in [1..(n + 1) -> Int], \A i \in 1..n : G[i] = H[i]
    PROVE  SumTo(G, n + 1) = SumTo(H, n) + G[n + 1]
<1>1. PICK t : Totals(t, H, n) /\ SumTo(H, n) = t[n]
  BY SumTotals
<1> DEFINE u == [i \in 0..(n + 1) |-> IF i = n + 1 THEN t[n] + G[i] ELSE t[i]]
<1>2. Totals(u, G, n + 1)
  <2>1. u \in [0..(n + 1) -> Int] /\ u[0] = 0
    BY <1>1 DEF Totals
  <2>2. ASSUME NEW i \in 1..(n + 1) PROVE u[i] = u[i - 1] + G[i]
    <3>1. CASE i = n + 1
      BY <3>1
    <3>2. CASE i \in 1..n
      <4>1. t[i] = t[i - 1] + H[i] /\ G[i] = H[i]
        BY <3>2, <1>1 DEF Totals
      <4>2. u[i] = t[i] /\ u[i - 1] = t[i - 1]
        BY <3>2
      <4>3. QED
        BY <4>1, <4>2
    <3>3. QED
      BY <3>1, <3>2
  <2>3. QED
    BY <2>1, <2>2 DEF Totals
<1>3. n + 1 \in Nat
  OBVIOUS
<1>4. SumTo(G, n + 1) = u[n + 1]
  <2> HIDE DEF u
  <2>1. QED
    BY <1>2, <1>3, SumIsTotal
<1>5. QED
  BY <1>1, <1>4

\* A sum of naturals is at least each of its summands.
LEMMA SumCovers ==
    ASSUME NEW n \in Nat, NEW H \in [1..n -> Nat], NEW k \in 1..n
    PROVE  H[k] <= SumTo(H, n)
<1>1. H \in [1..n -> Int]
  OBVIOUS
<1>2. PICK t : Totals(t, H, n) /\ SumTo(H, n) = t[n]
  BY <1>1, SumTotals
<1> DEFINE S == {i \in Nat : i <= n => t[i] >= 0 /\ (i >= k => t[i] >= H[k])}
<1>3. 0 \in S
  BY <1>2 DEF Totals
<1>4. ASSUME NEW i \in S PROVE i + 1 \in S
  <2>1. SUFFICES ASSUME i + 1 <= n
                 PROVE  t[i + 1] >= 0 /\ (i + 1 >= k => t[i + 1] >= H[k])
    OBVIOUS
  <2>2. i + 1 \in 1..n /\ (i + 1) - 1 = i /\ t[i] \in Int /\ H[i + 1] \in Nat
    BY <2>1, <1>2 DEF Totals
  <2>3. t[i + 1] = t[i] + H[i + 1]
    BY <2>2, <1>2 DEF Totals
  <2>4. t[i] >= 0 /\ (i >= k => t[i] >= H[k])
    BY <2>1
  <2>5. CASE i + 1 = k
    BY <2>2, <2>3, <2>4, <2>5
  <2>6. CASE i + 1 # k
    BY <2>2, <2>3, <2>4, <2>6
  <2>7. QED
    BY <2>5, <2>6
<1>5. S = Nat
  <2> HIDE DEF S
  <2>1. S \in SUBSET Nat
    BY DEF S
  <2>2. QED
    BY <1>3, <1>4, <2>1, InductiveSet
<1>6. QED
  BY <1>2, <1>5

\* A sum grows with its summands.
LEMMA SumAtMost ==
    ASSUME NEW n \in Nat, NEW H \in [1..n -> Int], NEW G \in [1..n -> Int],
           \A k \in 1..n : H[k] <= G[k]
    PROVE  SumTo(H, n) <= SumTo(G, n)
<1>1. PICK t : Totals(t, H, n) /\ SumTo(H, n) = t[n]
  BY SumTotals
<1>2. PICK u : Totals(u, G, n) /\ SumTo(G, n) = u[n]
  BY SumTotals
<1> DEFINE S == {i \in Nat : i <= n => t[i] <= u[i]}
<1>3. 0 \in S
  BY <1>1, <1>2 DEF Totals
<1>4. ASSUME NEW i \in S PROVE i + 1 \in S
  <2> SUFFICES ASSUME i + 1 <= n PROVE t[i + 1] <= u[i + 1]
    OBVIOUS
  <2>1. i + 1 \in 1..n /\ (i + 1) - 1 = i
    OBVIOUS
  <2>2. /\ t[i] \in Int /\ u[i] \in Int /\ H[i + 1] \in Int /\ G[i + 1] \in Int
        /\ t[i + 1] = t[i] + H[i + 1] /\ u[i + 1] = u[i] + G[i + 1]
    BY <2>1, <1>1, <1>2 DEF Totals
  <2>3. t[i] <= u[i] /\ H[i + 1] <= G[i + 1]
    BY <2>1
  <2> QED BY <2>2, <2>3
<1>5. S = Nat
  <2> HIDE DEF S
  <2>1. S \in SUBSET Nat
    BY DEF S
  <2> QED BY <1>3, <1>4, <2>1, InductiveSet
<1> QED BY <1>1, <1>2, <1>5

-----------------------------------------------------------------------------
(* The contract.                                                           *)

LEMMA StepOfRep ==
    ASSUME [RepNext]_repVars
    PROVE  \/ \E addr \in Address : InitializeReputation(addr)
           \/ \E caller, client, freelancer \in Address, id \in 1..MaxEscrows,
                 asset \in Asset, amount \in Amounts, rating \in Ratings :
                  RecordCompletion(caller, id, client, freelancer, asset,
                                   amount, rating)
           \/ UNCHANGED repVars
BY DEF RepNext

\* RepTypeOK: the records are well formed and every total fits its width.
THEOREM RepTypeCorrect == RepSpec => []RepTypeOK
<1>1. RepInit => RepTypeOK
  BY ReputationConstants DEF RepInit, RepTypeOK, Stats,
     default_freelancer_stats
<1>2. RepTypeOK /\ [RepNext]_repVars => RepTypeOK'
  <2> SUFFICES ASSUME RepTypeOK, [RepNext]_repVars PROVE RepTypeOK'
    OBVIOUS
  <2>1. CASE \E addr \in Address : InitializeReputation(addr)
    BY <2>1 DEF InitializeReputation, RepTypeOK
  <2>2. ASSUME NEW caller \in Address, NEW client \in Address,
               NEW f \in Address, NEW id \in 1..MaxEscrows,
               NEW asset \in Asset, NEW amount \in Amounts,
               NEW rating \in Ratings,
               RecordCompletion(caller, id, client, f, asset, amount, rating)
        PROVE  RepTypeOK'
    <3>1. amount \in Nat \ {0} /\ rating \in 1..5
      BY <2>2, ReputationConstants
         DEF RecordCompletion, validate_amount, validate_rating
    <3>2. completions' \in [DOMAIN completions' -> Completion]
          /\ DOMAIN completions' \subseteq 1..MaxEscrows
      BY <2>2, <3>1 DEF RecordCompletion, RepTypeOK, Completion
    <3>3. stats' \in [Address -> Stats]
      <4>1. stats[f] \in Stats
        BY DEF RepTypeOK
      <4>2. [completed_jobs_count |-> stats[f].completed_jobs_count + 1,
             total_earned |-> stats[f].total_earned + amount,
             total_rating |-> stats[f].total_rating + rating] \in Stats
        BY <2>2, <3>1, <4>1, ReputationConstants
           DEF RecordCompletion, checked_stats, Stats
      <4>3. stats' = [stats EXCEPT ![f] =
                [completed_jobs_count |-> stats[f].completed_jobs_count + 1,
                 total_earned |-> stats[f].total_earned + amount,
                 total_rating |-> stats[f].total_rating + rating]]
        BY <2>2 DEF RecordCompletion, AddToStats
      <4>4. QED
        BY <4>2, <4>3 DEF RepTypeOK
    <3>4. authorized' = authorized
      BY <2>2 DEF RecordCompletion
    <3>5. QED
      BY <3>2, <3>3, <3>4 DEF RepTypeOK
  <2>3. CASE UNCHANGED repVars
    BY <2>3 DEF repVars, RepTypeOK
  <2>4. QED
    BY <2>1, <2>2, <2>3, StepOfRep
<1>3. QED
  BY <1>1, <1>2, PTL DEF RepSpec

-----------------------------------------------------------------------------
\* What one call of record_completion does to the contributions that the
\* totals are sums of: that of the freelancer under the new id appears, no
\* other changes.
LEMMA ContributionsAfterRecord ==
    ASSUME RepTypeOK,
           NEW caller \in Address, NEW client \in Address, NEW f \in Address,
           NEW id \in 1..MaxEscrows, NEW asset \in Asset,
           NEW amount \in Amounts, NEW rating \in Ratings,
           RecordCompletion(caller, id, client, f, asset, amount, rating),
           NEW g \in Address
    PROVE  /\ \A i \in 1..MaxEscrows :
                  /\ i # id => CompletedBy(g, i)' = CompletedBy(g, i)
                  /\ i # id /\ CompletedBy(g, i) =>
                         completions'[i] = completions[i]
           /\ ~CompletedBy(g, id)
           /\ CompletedBy(g, id)' <=> g = f
           /\ completions'[id].amount = amount
           /\ completions'[id].rating = rating
BY DEF RecordCompletion, CompletedBy, has_completion, RepTypeOK

\* The contributions are sums of numbers, before and after.
LEMMA ContributionTypes ==
    ASSUME RepTypeOK, NEW f \in Address
    PROVE  /\ JobsOf(f) \in [1..MaxEscrows -> Int]
           /\ EarnedOf(f) \in [1..MaxEscrows -> Int]
           /\ RatingsOf(f) \in [1..MaxEscrows -> Int]
<1>1. ASSUME NEW id \in 1..MaxEscrows, CompletedBy(f, id)
      PROVE  completions[id].amount \in Int /\ completions[id].rating \in Int
  BY <1>1 DEF CompletedBy, has_completion, RepTypeOK, Completion
<1>2. QED
  BY <1>1 DEF JobsOf, EarnedOf, RatingsOf

\* StatsMatchCompletions: the totals that checked_add keeps are the sums over
\* the records.
THEOREM StatsCorrect == RepSpec => []StatsMatchCompletions
<1>1. RepInit => StatsMatchCompletions
  <2> SUFFICES ASSUME RepInit, NEW f \in Address
               PROVE  /\ stats[f].completed_jobs_count =
                             SumTo(JobsOf(f), MaxEscrows)
                      /\ stats[f].total_earned =
                             SumTo(EarnedOf(f), MaxEscrows)
                      /\ stats[f].total_rating =
                             SumTo(RatingsOf(f), MaxEscrows)
    BY DEF StatsMatchCompletions
  <2>1. /\ JobsOf(f) = [i \in 1..MaxEscrows |-> 0]
        /\ EarnedOf(f) = [i \in 1..MaxEscrows |-> 0]
        /\ RatingsOf(f) = [i \in 1..MaxEscrows |-> 0]
    BY DEF RepInit, JobsOf, EarnedOf, RatingsOf, CompletedBy, has_completion
  <2>2. SumTo([i \in 1..MaxEscrows |-> 0], MaxEscrows) = 0
    BY SumZero, ReputationConstants
  <2>3. QED
    BY <2>1, <2>2 DEF RepInit, default_freelancer_stats
<1>2. RepTypeOK /\ RepTypeOK' /\ StatsMatchCompletions /\ [RepNext]_repVars
          => StatsMatchCompletions'
  <2> SUFFICES ASSUME RepTypeOK, RepTypeOK', StatsMatchCompletions,
                      [RepNext]_repVars
               PROVE  StatsMatchCompletions'
    OBVIOUS
  <2>1. CASE /\ UNCHANGED <<completions, stats>>
    BY <2>1 DEF StatsMatchCompletions, JobsOf, EarnedOf, RatingsOf,
       CompletedBy, has_completion
  <2>2. ASSUME NEW caller \in Address, NEW client \in Address,
               NEW f \in Address, NEW id \in 1..MaxEscrows,
               NEW asset \in Asset, NEW amount \in Amounts,
               NEW rating \in Ratings,
               RecordCompletion(caller, id, client, f, asset, amount, rating),
               NEW g \in Address
        PROVE  /\ stats'[g].completed_jobs_count =
                      SumTo(JobsOf(g)', MaxEscrows)
               /\ stats'[g].total_earned = SumTo(EarnedOf(g)', MaxEscrows)
               /\ stats'[g].total_rating = SumTo(RatingsOf(g)', MaxEscrows)
    <3> DEFINE new(v) == IF g = f THEN v ELSE 0
    <3>1. /\ stats'[g].completed_jobs_count =
                 stats[g].completed_jobs_count + new(1)
          /\ stats'[g].total_earned = stats[g].total_earned + new(amount)
          /\ stats'[g].total_rating = stats[g].total_rating + new(rating)
      BY <2>2 DEF RecordCompletion, AddToStats, RepTypeOK, Stats
    <3>2. /\ JobsOf(g)[id] = 0 /\ JobsOf(g)'[id] = new(1)
          /\ EarnedOf(g)[id] = 0 /\ EarnedOf(g)'[id] = new(amount)
          /\ RatingsOf(g)[id] = 0 /\ RatingsOf(g)'[id] = new(rating)
      BY <2>2, ContributionsAfterRecord DEF JobsOf, EarnedOf, RatingsOf
    <3>3. \A i \in 1..MaxEscrows : i # id =>
              /\ JobsOf(g)'[i] = JobsOf(g)[i]
              /\ EarnedOf(g)'[i] = EarnedOf(g)[i]
              /\ RatingsOf(g)'[i] = RatingsOf(g)[i]
      BY <2>2, ContributionsAfterRecord DEF JobsOf, EarnedOf, RatingsOf
    <3>4. /\ JobsOf(g) \in [1..MaxEscrows -> Int]
          /\ EarnedOf(g) \in [1..MaxEscrows -> Int]
          /\ RatingsOf(g) \in [1..MaxEscrows -> Int]
      BY ContributionTypes
    <3>5. /\ JobsOf(g)' \in [1..MaxEscrows -> Int]
          /\ EarnedOf(g)' \in [1..MaxEscrows -> Int]
          /\ RatingsOf(g)' \in [1..MaxEscrows -> Int]
      <4>1. new(1) \in Int /\ new(amount) \in Int /\ new(rating) \in Int
        BY ReputationConstants
      <4> HIDE DEF new
      <4>2. \A i \in 1..MaxEscrows : /\ JobsOf(g)'[i] \in Int
                                     /\ EarnedOf(g)'[i] \in Int
                                     /\ RatingsOf(g)'[i] \in Int
        BY <4>1, <3>2, <3>3, <3>4
      <4>3. QED
        BY <4>2 DEF JobsOf, EarnedOf, RatingsOf
    <3>6. /\ SumTo(JobsOf(g), MaxEscrows) \in Int
          /\ SumTo(EarnedOf(g), MaxEscrows) \in Int
          /\ SumTo(RatingsOf(g), MaxEscrows) \in Int
      BY <3>4, SumType, ReputationConstants
    <3> HIDE DEF new
    <3>7. SumTo(JobsOf(g)', MaxEscrows) = SumTo(JobsOf(g), MaxEscrows) + new(1)
      <4>1. \A i \in 1..MaxEscrows : i # id => JobsOf(g)'[i] = JobsOf(g)[i]
        BY <3>3
      <4>2. SumTo(JobsOf(g)', MaxEscrows) =
                SumTo(JobsOf(g), MaxEscrows) - JobsOf(g)[id] + JobsOf(g)'[id]
        BY <4>1, <3>4, <3>5, SumUpdate, ReputationConstants, ZenonT(30)
      <4>3. QED
        BY <4>2, <3>2, <3>6
    <3>8. SumTo(EarnedOf(g)', MaxEscrows) = SumTo(EarnedOf(g), MaxEscrows) + new(amount)
      <4>1. \A i \in 1..MaxEscrows : i # id => EarnedOf(g)'[i] = EarnedOf(g)[i]
        BY <3>3
      <4>2. SumTo(EarnedOf(g)', MaxEscrows) =
                SumTo(EarnedOf(g), MaxEscrows) - EarnedOf(g)[id] + EarnedOf(g)'[id]
        BY <4>1, <3>4, <3>5, SumUpdate, ReputationConstants, ZenonT(30)
      <4>3. QED
        BY <4>2, <3>2, <3>6
    <3>9. SumTo(RatingsOf(g)', MaxEscrows) = SumTo(RatingsOf(g), MaxEscrows) + new(rating)
      <4>1. \A i \in 1..MaxEscrows : i # id => RatingsOf(g)'[i] = RatingsOf(g)[i]
        BY <3>3
      <4>2. SumTo(RatingsOf(g)', MaxEscrows) =
                SumTo(RatingsOf(g), MaxEscrows) - RatingsOf(g)[id] + RatingsOf(g)'[id]
        BY <4>1, <3>4, <3>5, SumUpdate, ReputationConstants, ZenonT(30)
      <4>3. QED
        BY <4>2, <3>2, <3>6
    <3>10. QED
      BY <3>1, <3>6, <3>7, <3>8, <3>9 DEF StatsMatchCompletions
  <2>3. CASE \E addr \in Address : InitializeReputation(addr)
    BY <2>1, <2>3 DEF InitializeReputation
  <2>4. CASE UNCHANGED repVars
    BY <2>1, <2>4 DEF repVars
  <2>5. QED
    BY <2>2, <2>3, <2>4, StepOfRep DEF StatsMatchCompletions
<1>3. QED
  BY <1>1, <1>2, RepTypeCorrect, PTL DEF RepSpec

-----------------------------------------------------------------------------
\* Every completed job adds between one and five to the rating total.
RatingBounds ==
    \A f \in Address :
        /\ stats[f].total_rating >= stats[f].completed_jobs_count
        /\ stats[f].total_rating <= 5 * stats[f].completed_jobs_count

LEMMA QuotientIsARating ==
    ASSUME NEW n \in Nat \ {0}, NEW r \in Nat, r >= n, r <= 5 * n
    PROVE  r \div n \in 1..5
<1> DEFINE q == r \div n
           m == r % n
<1>1. q \in Int /\ m \in 0..(n - 1) /\ r = n * q + m
  OBVIOUS
<1> HIDE DEF q, m
<1>2. q >= 1
  <2>1. SUFFICES ASSUME q <= 0 PROVE FALSE
    BY <1>1
  <2>2. n * q <= 0
    BY <1>1, <2>1
  <2>3. QED
    BY <1>1, <2>2
<1>3. q <= 5
  <2>1. SUFFICES ASSUME q >= 6 PROVE FALSE
    BY <1>1
  <2>2. n * q >= n * 6
    BY <1>1, <2>1
  <2>3. QED
    BY <1>1, <2>2
<1>4. QED
  BY <1>1, <1>2, <1>3 DEF q

\* AverageIsARating: get_freelancer_stats reports an average from 1 to 5 of
\* every freelancer with a completed job.
THEOREM AverageCorrect == RepSpec => []AverageIsARating
<1>1. RepInit => RatingBounds
  BY DEF RepInit, RatingBounds, default_freelancer_stats
<1>2. RepTypeOK /\ RatingBounds /\ [RepNext]_repVars => RatingBounds'
  <2> SUFFICES ASSUME RepTypeOK, RatingBounds, [RepNext]_repVars
               PROVE  RatingBounds'
    OBVIOUS
  <2>1. CASE UNCHANGED stats
    BY <2>1 DEF RatingBounds
  <2>2. ASSUME NEW caller \in Address, NEW client \in Address,
               NEW f \in Address, NEW id \in 1..MaxEscrows,
               NEW asset \in Asset, NEW amount \in Amounts,
               NEW rating \in Ratings,
               RecordCompletion(caller, id, client, f, asset, amount, rating),
               NEW g \in Address
        PROVE  /\ stats'[g].total_rating >= stats'[g].completed_jobs_count
               /\ stats'[g].total_rating <= 5 * stats'[g].completed_jobs_count
    <3>1. rating \in 1..5
      BY <2>2 DEF RecordCompletion, validate_rating
    <3>2. stats[g] \in Stats
      BY DEF RepTypeOK
    <3>3. IF g = f
          THEN /\ stats'[g].total_rating = stats[g].total_rating + rating
               /\ stats'[g].completed_jobs_count =
                      stats[g].completed_jobs_count + 1
          ELSE stats'[g] = stats[g]
      BY <2>2 DEF RecordCompletion, AddToStats, RepTypeOK
    <3>4. QED
      BY <3>1, <3>2, <3>3, ReputationConstants DEF RatingBounds, Stats
  <2>3. CASE \E addr \in Address : InitializeReputation(addr)
    BY <2>1, <2>3 DEF InitializeReputation
  <2>4. CASE UNCHANGED repVars
    BY <2>1, <2>4 DEF repVars
  <2>5. QED
    BY <2>2, <2>3, <2>4, StepOfRep DEF RatingBounds
<1>3. RepTypeOK /\ RatingBounds => AverageIsARating
  <2> SUFFICES ASSUME RepTypeOK, RatingBounds, NEW f \in Address,
                      stats[f].completed_jobs_count > 0
               PROVE  average_rating(stats[f]) \in 1..5
    BY DEF AverageIsARating
  <2>1. /\ stats[f].completed_jobs_count \in Nat \ {0}
        /\ stats[f].total_rating \in Nat
    BY ReputationConstants DEF RepTypeOK, Stats
  <2>2. stats[f].total_rating \div stats[f].completed_jobs_count \in 1..5
    BY <2>1, QuotientIsARating DEF RatingBounds
  <2>3. QED
    BY <2>1, <2>2 DEF average_rating
<1>4. QED
  BY <1>1, <1>2, <1>3, RepTypeCorrect, PTL DEF RepSpec

\* RecordsArePermanent: a second record for an escrow id, or a second
\* initialize, changes nothing.
THEOREM RecordsPermanent == RepSpec => RecordsArePermanent
<1>1. [RepNext]_repVars =>
          [/\ \A id \in DOMAIN completions :
                  has_completion(id)' /\ completions'[id] = completions[id]
           /\ authorized \in {NoAddress, authorized'}]_repVars
  <2> SUFFICES ASSUME [RepNext]_repVars, ~UNCHANGED repVars
               PROVE  /\ \A id \in DOMAIN completions :
                             /\ has_completion(id)'
                             /\ completions'[id] = completions[id]
                      /\ authorized \in {NoAddress, authorized'}
    OBVIOUS
  <2>1. CASE \E addr \in Address : InitializeReputation(addr)
    BY <2>1 DEF InitializeReputation, has_completion
  <2>2. ASSUME NEW caller \in Address, NEW client \in Address,
               NEW f \in Address, NEW id \in 1..MaxEscrows,
               NEW asset \in Asset, NEW amount \in Amounts,
               NEW rating \in Ratings,
               RecordCompletion(caller, id, client, f, asset, amount, rating)
        PROVE  /\ \A i \in DOMAIN completions :
                      has_completion(i)' /\ completions'[i] = completions[i]
               /\ authorized \in {NoAddress, authorized'}
    BY <2>2 DEF RecordCompletion, has_completion
  <2>3. QED
    BY <2>1, <2>2, StepOfRep
<1>2. QED
  BY <1>1, PTL DEF RepSpec, RecordsArePermanent

-----------------------------------------------------------------------------
(* The payout of a resolved dispute. *)

\* The split that resolve_dispute computes without a large product is the
\* share of the amount rounded down, and lies between nothing and all of it.
LEMMA SplitIsFloor ==
    ASSUME NEW amount \in Nat, NEW share \in Nat, share <= 10000
    PROVE  /\ FreelancerAmount(amount, share) = FloorShare(amount, share)
           /\ FreelancerAmount(amount, share) \in 0..amount
<1> DEFINE q == amount \div 10000
           r == amount % 10000
<1>1. q \in Nat /\ r \in 0..9999 /\ amount = 10000 * q + r
  OBVIOUS
<1>2. FreelancerAmount(amount, share) = q * share + (r * share) \div 10000
  BY DEF FreelancerAmount
<1> HIDE DEF q, r
<1>3. PICK p \in Nat : p = r * share
  BY <1>1, r * share \in Nat
<1>4. PICK z \in Nat : z = q * share
  BY <1>1, q * share \in Nat
<1>5. amount * share = 10000 * z + p
  BY <1>1, <1>3, <1>4
<1>6. (10000 * z + p) \div 10000 = z + p \div 10000
  OBVIOUS
<1>7. p <= r * 10000 /\ z <= q * 10000
  BY <1>1, <1>3, <1>4
<1>8. p \div 10000 \in 0..r
  BY <1>1, <1>7
<1>9. z + p \div 10000 \in 0..amount
  BY <1>1, <1>7, <1>8
<1>10. FloorShare(amount, share) = z + p \div 10000
  BY <1>5, <1>6 DEF FloorShare
<1>11. QED
  BY <1>2, <1>3, <1>4, <1>9, <1>10

\* The two parts are both amounts.
LEMMA SplitParts ==
    ASSUME NEW amount \in Nat, NEW share \in Nat, share <= 10000
    PROVE  /\ FreelancerAmount(amount, share) \in Nat
           /\ amount - FreelancerAmount(amount, share) \in Nat
<1> DEFINE f == FreelancerAmount(amount, share)
<1>1. f \in 0..amount
  BY SplitIsFloor
<1> HIDE DEF f
<1>2. f \in Nat /\ amount - f \in Nat
  BY <1>1
<1>3. QED
  BY <1>2 DEF f

-----------------------------------------------------------------------------
(* Type correctness, and the reputation contract inside the system. *)

LEMMA EscrowAmount ==
    ASSUME NEW e \in Escrow
    PROVE  e.amount \in Nat \ {0}
<1>1. e.amount \in Amounts /\ e.amount > 0
  BY DEF Escrow, validate_amount
<1>2. e.amount \in Int
  BY <1>1, ReputationConstants
<1>3. QED
  BY <1>1, <1>2

LEMMA CreditType ==
    ASSUME NEW b \in [Address -> [Asset -> Nat]], NEW to \in Address,
           NEW asset \in Asset, NEW amount \in Int, b[to][asset] + amount >= 0
    PROVE  Credit(b, to, asset, amount) \in [Address -> [Asset -> Nat]]
BY DEF Credit

LEMMA TransferType ==
    ASSUME ChainTypeOK, NEW from \in Address, NEW to \in Address,
           NEW asset \in Asset, NEW amount \in Nat,
           Transfer(from, to, asset, amount)
    PROVE  balance' \in [Address -> [Asset -> Nat]]
<1> DEFINE b == Credit(balance, from, asset, -amount)
<1>1. balance \in [Address -> [Asset -> Nat]]
  BY DEF ChainTypeOK
<1>2. balance[from][asset] + (-amount) >= 0
  BY <1>1 DEF Transfer
<1>3. b \in [Address -> [Asset -> Nat]]
  BY <1>1, <1>2, CreditType
<1>4. balance' = Credit(b, to, asset, amount)
  BY DEF Transfer
<1> HIDE DEF b
<1>5. b[to][asset] + amount >= 0
  BY <1>3
<1>6. QED
  BY <1>3, <1>4, <1>5, CreditType

LEMMA CreateType ==
    ASSUME ChainTypeOK, NEW client \in Account,
           NEW f \in Address \cup {NoAddress},
           NEW asset \in Asset, NEW amount \in Amounts, NEW status \in Status,
           create_escrow_internal(client, f, asset, amount, status)
    PROVE  /\ nextEscrowId' \in 1..(MaxEscrows + 1)
           /\ escrow' \in [1..(nextEscrowId' - 1) -> Escrow]
<1>1. [client |-> client, freelancer |-> f, asset |-> asset,
       amount |-> amount, status |-> status] \in Escrow
  BY DEF Escrow, create_escrow_internal
<1>2. nextEscrowId' - 1 = nextEscrowId
      /\ nextEscrowId' \in 1..(MaxEscrows + 1)
  BY ReputationConstants DEF create_escrow_internal, ChainTypeOK
<1>3. escrow' \in [1..nextEscrowId -> Escrow]
  BY <1>1, <1>2 DEF create_escrow_internal, ChainTypeOK
<1>4. QED
  BY <1>2, <1>3

\* ChainTypeOK is inductive: every value the contract stores is of its type.
LEMMA ChainTypeStep == ChainTypeOK /\ [Next]_vars => ChainTypeOK'
<1> SUFFICES ASSUME ChainTypeOK, [Next]_vars PROVE ChainTypeOK'
  OBVIOUS
<1> USE EscrowConstants
<1>1. CASE UNCHANGED chainVars
  BY <1>1 DEF chainVars, ChainTypeOK
<1>2. ASSUME NEW w \in Account, Initialize(w) PROVE ChainTypeOK'
  BY <1>2 DEF Initialize, ChainTypeOK
<1>3. ASSUME NEW w \in Account, NEW f \in Address, NEW asset \in Asset,
             NEW amount \in Amounts, CreateEscrow(w, f, asset, amount)
      PROVE  ChainTypeOK'
  <2>1. create_escrow_internal(w, f, asset, amount, "Created")
        /\ "Created" \in Status
    BY <1>3 DEF CreateEscrow, Status
  <2>2. /\ nextEscrowId' \in 1..(MaxEscrows + 1)
        /\ escrow' \in [1..(nextEscrowId' - 1) -> Escrow]
    BY <2>1, CreateType
  <2>3. QED
    BY <1>3, <2>2 DEF CreateEscrow, ChainTypeOK
<1>4. ASSUME NEW w \in Account, NEW asset \in Asset, NEW amount \in Amounts,
             CreateOpenEscrow(w, asset, amount)
      PROVE  ChainTypeOK'
  <2>1. create_escrow_internal(w, NoAddress, asset, amount, "Created")
        /\ "Created" \in Status
    BY <1>4 DEF CreateOpenEscrow, Status
  <2>2. /\ nextEscrowId' \in 1..(MaxEscrows + 1)
        /\ escrow' \in [1..(nextEscrowId' - 1) -> Escrow]
    BY <2>1, CreateType
  <2>3. QED
    BY <1>4, <2>2 DEF CreateOpenEscrow, ChainTypeOK
<1>5. ASSUME NEW w \in Account, NEW asset \in Asset, NEW amount \in Amounts,
             CreateAndFundOpenEscrow(w, asset, amount)
      PROVE  ChainTypeOK'
  <2>1. create_escrow_internal(w, NoAddress, asset, amount, "Funded")
        /\ "Funded" \in Status
    BY <1>5 DEF CreateAndFundOpenEscrow, Status
  <2>2. /\ nextEscrowId' \in 1..(MaxEscrows + 1)
        /\ escrow' \in [1..(nextEscrowId' - 1) -> Escrow]
    BY <2>1, CreateType
  <2>3. amount \in Nat /\ Transfer(w, EscrowAddress, asset, amount)
    BY <1>5, <2>1, ReputationConstants
       DEF CreateAndFundOpenEscrow, create_escrow_internal, validate_amount
  <2>4. balance' \in [Address -> [Asset -> Nat]]
    BY <2>3, TransferType
  <2>5. QED
    BY <1>5, <2>2, <2>4 DEF CreateAndFundOpenEscrow, ChainTypeOK
<1>6. ASSUME NEW asset \in Asset,
             AddAllowedAsset(asset) \/ RemoveAllowedAsset(asset)
      PROVE  ChainTypeOK'
  BY <1>6 DEF AddAllowedAsset, RemoveAllowedAsset, ChainTypeOK
<1>7. ASSUME NEW w \in Account, AddDisputeAdmin(w) \/ RemoveDisputeAdmin(w)
      PROVE  ChainTypeOK'
  BY <1>7 DEF AddDisputeAdmin, RemoveDisputeAdmin, ChainTypeOK
<1>8. ASSUME NEW id \in Ids
      PROVE  /\ escrow[id] \in Escrow
             /\ escrow[id].amount \in Nat \ {0}
             /\ escrow[id].asset \in Asset
             /\ id \in 1..MaxEscrows
             /\ \A s \in Status : SetStatus(id, s) =>
                    escrow' \in [1..(nextEscrowId - 1) -> Escrow]
  <2>1. id \in 1..(nextEscrowId - 1) /\ escrow[id] \in Escrow
    BY DEF ChainTypeOK, Ids
  <2>2. id \in 1..MaxEscrows
    BY <2>1, ReputationConstants DEF ChainTypeOK
  <2>3. escrow[id].amount \in Nat \ {0} /\ escrow[id].asset \in Asset
    BY <2>1, EscrowAmount DEF Escrow
  <2>4. ASSUME NEW s \in Status, SetStatus(id, s)
        PROVE  escrow' \in [1..(nextEscrowId - 1) -> Escrow]
    <3>1. [escrow[id] EXCEPT !.status = s] \in Escrow
      BY <2>1 DEF Escrow
    <3>2. escrow' = [escrow EXCEPT ![id] = [escrow[id] EXCEPT !.status = s]]
      BY <2>1, <2>4 DEF SetStatus, ChainTypeOK
    <3>3. QED
      BY <2>1, <3>1, <3>2 DEF ChainTypeOK
  <2>5. QED
    BY <2>1, <2>2, <2>3, <2>4
<1>9. ASSUME NEW w \in Account, NEW id \in Ids, FundEscrow(w, id)
      PROVE  ChainTypeOK'
  <2>1. balance' \in [Address -> [Asset -> Nat]]
    BY <1>8, <1>9, TransferType DEF FundEscrow
  <2>2. QED
    BY <1>8, <1>9, <2>1 DEF FundEscrow, ChainTypeOK, Status
<1>10. ASSUME NEW w \in Account, NEW id \in Ids,
              SubmitWork(w, id) \/ MarkDisputed(w, id)
       PROVE  ChainTypeOK'
  BY <1>8, <1>10 DEF SubmitWork, MarkDisputed, ChainTypeOK, Status
<1>11. ASSUME NEW w \in Account, NEW id \in Ids, CancelEscrow(w, id)
       PROVE  ChainTypeOK'
  <2>1. balance' \in [Address -> [Asset -> Nat]]
    <3>1. CASE UNCHANGED balance
      BY <3>1 DEF ChainTypeOK
    <3>2. CASE Transfer(EscrowAddress, w, escrow[id].asset, escrow[id].amount)
      BY <1>8, <3>2, TransferType
    <3>3. QED
      BY <1>11, <3>1, <3>2 DEF CancelEscrow
  <2>2. QED
    BY <1>8, <1>11, <2>1 DEF CancelEscrow, ChainTypeOK, Status
<1>12. ASSUME NEW w \in Account, NEW id \in Ids, NEW f \in Address,
              AssignFreelancer(w, id, f)
       PROVE  ChainTypeOK'
  <2>1. escrow' \in [1..(nextEscrowId - 1) -> Escrow]
    <3>1. f \in Address \cup {NoAddress} /\ escrow \in [1..(nextEscrowId - 1) -> Escrow]
      BY <1>12 DEF ChainTypeOK
    <3>2. \A e \in Escrow : [e EXCEPT !.freelancer = f] \in Escrow
      BY <3>1 DEF Escrow
    <3>3. escrow' = [escrow EXCEPT ![id] = [escrow[id] EXCEPT !.freelancer = f]]
      BY <1>12 DEF AssignFreelancer
    <3>4. id \in 1..(nextEscrowId - 1)
      BY <1>12, <3>1 DEF Ids
    <3> QED BY <3>1, <3>2, <3>3, <3>4
  <2>2. QED
    BY <1>12, <2>1 DEF AssignFreelancer, ChainTypeOK
<1>13. ASSUME NEW w \in Account, NEW id \in Ids, NEW rating \in Ratings,
              ApproveAndRelease(w, id, rating)
       PROVE  ChainTypeOK'
  <2>1. escrow[id].freelancer \in Address
    BY <1>8, <1>13 DEF ApproveAndRelease, Escrow
  <2>2. balance' \in [Address -> [Asset -> Nat]]
    BY <1>8, <1>13, <2>1, TransferType DEF ApproveAndRelease
  <2>3. QED
    BY <1>8, <1>13, <2>2 DEF ApproveAndRelease, ChainTypeOK, Status
<1>14. ASSUME NEW w \in Account, NEW id \in Ids, NEW share \in Shares,
              ResolveDispute(w, id, share)
       PROVE  ChainTypeOK'
  <2> DEFINE e == escrow[id]
             toFree == FreelancerAmount(e.amount, share)
             toCl == e.amount - toFree
  <2>1. /\ e.freelancer \in Address /\ e.client \in Address
        /\ e.asset \in Asset
    BY <1>8, <1>14 DEF ResolveDispute, Resolvable, Escrow
  <2>2. share \in 0..10000 /\ share \in Nat
    <3>1. share \in Nat
      BY EscrowConstants
    <3>2. share <= 10000
      BY <1>14, SMTT(30) DEF ResolveDispute, Resolvable
    <3>3. QED
      BY <3>1, <3>2
  <2>3. toFree \in Nat /\ toCl \in Nat /\ toFree \in Int /\ toCl \in Int
    <3>1. PICK a \in Nat : a = e.amount
      BY <1>8
    <3>2. PICK s \in Nat : s = share /\ s <= 10000
      BY <2>2
    <3>3. FreelancerAmount(a, s) \in Nat /\ a - FreelancerAmount(a, s) \in Nat
      <4>1. s <= 10000
        BY <3>2
      <4>2. QED
        BY <4>1, SplitParts
    <3>4. toFree = FreelancerAmount(a, s)
      BY <3>1, <3>2 DEF FreelancerAmount
    <3>5. toFree \in Nat /\ toCl \in Nat
      BY <3>1, <3>3, <3>4
    <3> HIDE DEF toFree, toCl
    <3>6. QED
      BY <3>5
  <2> DEFINE b == Credit(balance, EscrowAddress, e.asset, -(toFree + toCl))
             c == Credit(b, e.freelancer, e.asset, toFree)
  <2>4. /\ balance[EscrowAddress][e.asset] >= toFree + toCl
        /\ balance' = Credit(c, e.client, e.asset, toCl)
    BY <1>14 DEF ResolveDispute, Resolvable
  <2>5. balance' \in [Address -> [Asset -> Nat]]
    <3> HIDE DEF e, toFree, toCl
    <3>1. /\ balance \in [Address -> [Asset -> Nat]]
          /\ EscrowAddress \in Address
      BY DEF ChainTypeOK
    <3>2. balance[EscrowAddress][e.asset] + (-(toFree + toCl)) >= 0
          /\ -(toFree + toCl) \in Int
      <4>1. balance[EscrowAddress][e.asset] \in Nat
        BY <2>1, <3>1
      <4>2. QED
        BY <4>1, <2>3, <2>4
    <3>3. b \in [Address -> [Asset -> Nat]]
      BY <2>1, <3>1, <3>2, CreditType
    <3> HIDE DEF b
    <3>4. b[e.freelancer][e.asset] + toFree >= 0
      BY <2>1, <2>3, <3>3
    <3>5. c \in [Address -> [Asset -> Nat]]
      BY <2>1, <2>3, <3>3, <3>4, CreditType
    <3> HIDE DEF c
    <3>6. c[e.client][e.asset] + toCl >= 0
      BY <2>1, <2>3, <3>5
    <3>7. QED
      BY <2>1, <2>3, <2>4, <3>5, <3>6, CreditType
  <2>6. escrow' \in [1..(nextEscrowId - 1) -> Escrow]
    BY <1>8, <1>14 DEF ResolveDispute, Status
  <2>7. resolved' \subseteq ResolvedEvent
    <3> DEFINE final == IF share = 0 THEN "Cancelled" ELSE "Released"
    <3>1. final \in Status
      BY DEF Status
    <3>2. [escrow_id |-> id, actor |-> w, share |-> share, status |-> final,
           freelancer_amount |-> toFree, client_amount |-> toCl]
              \in ResolvedEvent
      <4> HIDE DEF toFree, toCl, final
      <4>1. QED
        BY <1>8, <2>2, <2>3, <3>1, SMTT(30) DEF ResolvedEvent
    <3>3. QED
      BY <1>14, <3>2 DEF ResolveDispute, ChainTypeOK
  <2>8. UNCHANGED <<platformAdmin, nextEscrowId, allowedAssets, allowedCount,
                    disputeAdmins>>
    BY <1>14 DEF ResolveDispute
  <2>9. QED
    BY <2>5, <2>6, <2>7, <2>8 DEF ChainTypeOK
<1>15. CASE UNCHANGED vars
  BY <1>15 DEF vars, chainVars, ChainTypeOK
<1>16. QED
  BY <1>1, <1>2, <1>3, <1>4, <1>5, <1>6, <1>7, <1>9, <1>10, <1>11, <1>12,
     <1>13, <1>14, <1>15 DEF Next, RecordDirectly

LEMMA ChainTypeInit == Init => ChainTypeOK
<1> SUFFICES ASSUME Init PROVE ChainTypeOK
  OBVIOUS
<1>1. nextEscrowId = 1 /\ nextEscrowId \in 1..(MaxEscrows + 1)
  BY ReputationConstants DEF Init
<1>2. escrow \in [1..(nextEscrowId - 1) -> Escrow]
  <2>1. 1..(nextEscrowId - 1) = {}
    BY <1>1
  <2>2. QED
    BY <2>1 DEF Init
<1>3. balance \in [Address -> [Asset -> Nat]]
  BY EscrowConstants DEF Init
<1>4. QED
  BY <1>1, <1>2, <1>3 DEF Init, ChainTypeOK

THEOREM ChainTypeCorrect == Spec => []ChainTypeOK
BY ChainTypeInit, ChainTypeStep, PTL DEF Spec

\* Inside the system the reputation contract is called in no way its own
\* specification does not allow.
THEOREM ReputationRefined == Spec => RepSpec
<1>1. Init => RepInit
  BY DEF Init
<1>2. ChainTypeOK /\ [Next]_vars => [RepNext]_repVars
  <2> SUFFICES ASSUME ChainTypeOK, [Next]_vars PROVE [RepNext]_repVars
    OBVIOUS
  <2>1. CASE \E addr \in Address : InitializeReputation(addr)
                                   /\ UNCHANGED chainVars
    BY <2>1 DEF RepNext
  <2>2. ASSUME NEW w \in Account, NEW id \in Ids, NEW rating \in Ratings,
               ApproveAndRelease(w, id, rating)
        PROVE  RepNext
    <3> DEFINE e == escrow[id]
    <3>1. e \in Escrow /\ id \in 1..MaxEscrows
      BY ReputationConstants DEF ChainTypeOK, Ids
    <3>2. /\ e.client \in Address /\ e.freelancer \in Address
          /\ e.asset \in Asset /\ e.amount \in Amounts
          /\ EscrowAddress \in Address
      BY <2>2, <3>1, EscrowConstants DEF ApproveAndRelease, Escrow
    <3>3. RecordCompletion(EscrowAddress, id, e.client, e.freelancer, e.asset,
                           e.amount, rating)
      BY <2>2 DEF ApproveAndRelease
    <3> HIDE DEF e
    <3>4. QED
      BY <3>1, <3>2, <3>3 DEF RepNext
  <2>3. ASSUME NEW w \in Account, NEW id \in 1..MaxEscrows, NEW c \in Claims,
               RecordDirectly(w, id, c)
        PROVE  RepNext
    <3>1. /\ c.client \in Address /\ c.freelancer \in Address
          /\ c.asset \in Asset /\ c.amount \in Amounts /\ c.rating \in Ratings
          /\ w \in Address
      BY EscrowConstants
    <3> QED BY <2>3, <3>1 DEF RepNext, RecordDirectly
  <2>4. ASSUME ~ \E addr \in Address : InitializeReputation(addr)
                                       /\ UNCHANGED chainVars,
               ~ \E w \in Account, id \in 1..MaxEscrows, c \in Claims :
                     RecordDirectly(w, id, c),
               ~ \E w \in Account, id \in Ids, rating \in Ratings :
                     ApproveAndRelease(w, id, rating)
        PROVE  UNCHANGED repVars
    BY <2>4 DEF Next, Initialize, CreateEscrow, CreateOpenEscrow,
       CreateAndFundOpenEscrow, AddAllowedAsset, RemoveAllowedAsset,
       AddDisputeAdmin, RemoveDisputeAdmin, FundEscrow, AssignFreelancer,
       SubmitWork, CancelEscrow, MarkDisputed, ResolveDispute, vars
  <2>5. QED
    BY <2>1, <2>2, <2>3, <2>4
<1>3. QED
  BY <1>1, <1>2, ChainTypeCorrect, PTL DEF Spec, RepSpec

\* TypeOK: everything the two contracts store is of its type, the balances
\* are never negative and the reputation totals stay within their widths.
THEOREM TypeCorrect == Spec => []TypeOK
BY ChainTypeCorrect, ReputationRefined, RepTypeCorrect, PTL DEF TypeOK

-----------------------------------------------------------------------------
(* The life of an escrow. *)

\* Setting the status of one escrow leaves the rest of every escrow alone.
LEMMA SetStatusEffect ==
    ASSUME ChainTypeOK, NEW id \in Ids, NEW s, SetStatus(id, s)
    PROVE  /\ DOMAIN escrow' = Ids
           /\ \A i \in Ids : i # id => escrow'[i] = escrow[i]
           /\ escrow'[id].status = s
           /\ escrow'[id].client = escrow[id].client
           /\ escrow'[id].freelancer = escrow[id].freelancer
           /\ escrow'[id].asset = escrow[id].asset
           /\ escrow'[id].amount = escrow[id].amount
BY DEF SetStatus, Ids, ChainTypeOK, Escrow

\* A new escrow leaves the others alone.
LEMMA CreateEffect ==
    ASSUME ChainTypeOK, NEW client, NEW f, NEW asset, NEW amount, NEW status,
           create_escrow_internal(client, f, asset, amount, status)
    PROVE  /\ DOMAIN escrow' = Ids \cup {nextEscrowId}
           /\ nextEscrowId \notin Ids
           /\ \A i \in Ids : escrow'[i] = escrow[i]
           /\ escrow'[nextEscrowId] =
                  [client |-> client, freelancer |-> f, asset |-> asset,
                   amount |-> amount, status |-> status]
<1>1. Ids = 1..(nextEscrowId - 1) /\ nextEscrowId \in Nat \ {0}
  BY ReputationConstants DEF ChainTypeOK, Ids
<1>2. 1..nextEscrowId = Ids \cup {nextEscrowId} /\ nextEscrowId \notin Ids
  BY <1>1
<1>3. QED
  BY <1>2 DEF create_escrow_internal, Ids

LEMMA LifecycleStep ==
    ASSUME ChainTypeOK, [Next]_vars, NEW i \in Ids
    PROVE  KeepsToLifecycle(i)
<1>1. CASE UNCHANGED escrow
  BY <1>1 DEF KeepsToLifecycle, Ids
<1>2. ASSUME NEW client, NEW f, NEW asset, NEW amount, NEW status,
             create_escrow_internal(client, f, asset, amount, status)
      PROVE  KeepsToLifecycle(i)
  BY <1>2, CreateEffect DEF KeepsToLifecycle
<1>3. ASSUME NEW id \in Ids, NEW s, SetStatus(id, s),
             <<escrow[id].status, s>> \in StatusSteps
      PROVE  KeepsToLifecycle(i)
  <2>1. CASE i = id
    BY <1>3, <2>1, SetStatusEffect DEF KeepsToLifecycle
  <2>2. CASE i # id
    BY <1>3, <2>2, SetStatusEffect DEF KeepsToLifecycle
  <2>3. QED
    BY <2>1, <2>2
<1>4. ASSUME NEW w \in Account, NEW id \in Ids
      PROVE  /\ FundEscrow(w, id) => KeepsToLifecycle(i)
             /\ SubmitWork(w, id) => KeepsToLifecycle(i)
             /\ CancelEscrow(w, id) => KeepsToLifecycle(i)
             /\ MarkDisputed(w, id) => KeepsToLifecycle(i)
  BY <1>3 DEF FundEscrow, SubmitWork, CancelEscrow, MayCancel, MarkDisputed, MayMarkDisputed, StatusSteps
<1>5. ASSUME NEW w \in Account, NEW id \in Ids, NEW rating \in Ratings,
             ApproveAndRelease(w, id, rating)
      PROVE  KeepsToLifecycle(i)
  BY <1>3, <1>5 DEF ApproveAndRelease, StatusSteps
<1>6. ASSUME NEW w \in Account, NEW id \in Ids, NEW share \in Shares,
             ResolveDispute(w, id, share)
      PROVE  KeepsToLifecycle(i)
  <2>1. PICK s \in {"Released", "Cancelled"} : SetStatus(id, s)
    BY <1>6 DEF ResolveDispute
  <2>2. <<escrow[id].status, s>> \in StatusSteps
    BY <1>6 DEF ResolveDispute, Resolvable, StatusSteps
  <2>3. QED
    BY <1>3, <2>1, <2>2
<1>7. ASSUME NEW w \in Account, NEW id \in Ids, NEW f \in Address,
             AssignFreelancer(w, id, f)
      PROVE  KeepsToLifecycle(i)
  BY <1>7 DEF AssignFreelancer, KeepsToLifecycle, ChainTypeOK, Escrow, Ids
<1>8. /\ \A w \in Account :
             Initialize(w) \/ AddDisputeAdmin(w) \/ RemoveDisputeAdmin(w)
                 => UNCHANGED escrow
      /\ \A asset \in Asset :
             AddAllowedAsset(asset) \/ RemoveAllowedAsset(asset)
                 => UNCHANGED escrow
  BY DEF Initialize, AddAllowedAsset, RemoveAllowedAsset, AddDisputeAdmin,
     RemoveDisputeAdmin
<1>9. ASSUME NEW w \in Account, NEW asset \in Asset, NEW amount \in Amounts
      PROVE  /\ \A f \in Address :
                    CreateEscrow(w, f, asset, amount) => KeepsToLifecycle(i)
             /\ CreateOpenEscrow(w, asset, amount) => KeepsToLifecycle(i)
             /\ CreateAndFundOpenEscrow(w, asset, amount)
                    => KeepsToLifecycle(i)
  BY <1>2 DEF CreateEscrow, CreateOpenEscrow, CreateAndFundOpenEscrow
<1>10. UNCHANGED vars \/ UNCHANGED chainVars => UNCHANGED escrow
  BY DEF vars, chainVars
<1>11. QED
  BY <1>1, <1>4, <1>5, <1>6, <1>7, <1>8, <1>9, <1>10 DEF Next, RecordDirectly

\* Lifecycle: the status only moves along the lifecycle and the terms of an
\* escrow never change.
THEOREM LifecycleCorrect == Spec => Lifecycle
<1>1. ChainTypeOK /\ [Next]_vars => [\A id \in Ids : KeepsToLifecycle(id)]_vars
  BY LifecycleStep
<1>2. QED
  BY <1>1, ChainTypeCorrect, PTL DEF Spec, Lifecycle

-----------------------------------------------------------------------------
(* Who is paid, and for which reason.                                       *)

\* The steps that change neither completions nor resolutions.
Opens(client, f, asset, amount, status) ==
    /\ create_escrow_internal(client, f, asset, amount, status)
    /\ client \in Account /\ f # client
    /\ status \in {"Created", "Funded"}
    /\ UNCHANGED <<authorized, completions, resolved>>

Moves(id, status) ==
    /\ id \in Ids /\ SetStatus(id, status)
    /\ status \in {"Funded", "Submitted", "Cancelled", "Disputed"}
    /\ escrow[id].status \notin Final
    /\ status \in {"Submitted", "Disputed"} => escrow[id].freelancer # NoAddress
    /\ UNCHANGED <<authorized, completions, resolved>>

\* The steps that leave what approvals and resolutions recorded: a completion
\* that a wallet makes up is not one of an approval.
SameTraces ==
    /\ UNCHANGED resolved
    /\ \A id : Approved(id)' <=> Approved(id)
    /\ \A id : Approved(id) => completions'[id] = completions[id]

LEMMA SameRecords ==
    ASSUME UNCHANGED <<authorized, completions, resolved>>
    PROVE  SameTraces
BY DEF SameTraces, Approved, has_completion

\* Nothing is recorded before the reputation contract knows whom to obey.
ObeysBeforeRecords == authorized = NoAddress => DOMAIN completions = {}

LEMMA NoRecordsBefore == Spec => []ObeysBeforeRecords
<1>1. RepInit => ObeysBeforeRecords
  BY DEF RepInit, ObeysBeforeRecords
<1>2. ObeysBeforeRecords /\ [RepNext]_repVars => ObeysBeforeRecords'
  BY ReputationConstants
     DEF ObeysBeforeRecords, RepNext, repVars, InitializeReputation, RecordCompletion
<1>3. RepSpec => []ObeysBeforeRecords
  BY <1>1, <1>2, PTL DEF RepSpec
<1> QED BY <1>3, ReputationRefined, PTL

\* The calls that change an escrow, and those that leave it and its traces.
LEMMA StepsInGroups ==
    ASSUME ChainTypeOK, ObeysBeforeRecords, [Next]_vars
    PROVE  \/ UNCHANGED <<escrow, nextEscrowId, balance>> /\ SameTraces
           \/ \E w \in Account, asset \in Asset, amount \in Amounts :
                  \/ \E f \in Address : CreateEscrow(w, f, asset, amount)
                  \/ CreateOpenEscrow(w, asset, amount)
                  \/ CreateAndFundOpenEscrow(w, asset, amount)
           \/ \E w \in Account, id \in Ids :
                  \/ FundEscrow(w, id) \/ SubmitWork(w, id)
                  \/ CancelEscrow(w, id) \/ MarkDisputed(w, id)
                  \/ \E f \in Address : AssignFreelancer(w, id, f)
                  \/ \E rating \in Ratings : ApproveAndRelease(w, id, rating)
                  \/ \E share \in Shares : ResolveDispute(w, id, share)
<1> USE ReputationConstants, EscrowConstants
<1> DEFINE Nothing == UNCHANGED <<escrow, nextEscrowId, balance>> /\ SameTraces
<1>3. /\ \A w \in Account :
             Initialize(w) \/ AddDisputeAdmin(w) \/ RemoveDisputeAdmin(w)
                 => Nothing
      /\ \A asset \in Asset :
             AddAllowedAsset(asset) \/ RemoveAllowedAsset(asset)
                 => Nothing
  BY SameRecords
     DEF Initialize, AddAllowedAsset, RemoveAllowedAsset, AddDisputeAdmin,
         RemoveDisputeAdmin, repVars
<1>4. UNCHANGED vars => Nothing
  BY SameRecords DEF vars, chainVars, repVars
<1>5. ASSUME NEW addr, InitializeReputation(addr), UNCHANGED chainVars
      PROVE  Nothing
  <2>1. DOMAIN completions = {} /\ UNCHANGED completions
    BY <1>5 DEF InitializeReputation, ObeysBeforeRecords
  <2> QED BY <1>5, <2>1 DEF SameTraces, Approved, has_completion, chainVars
<1>6. ASSUME NEW w \in Account, NEW id, NEW c, RecordDirectly(w, id, c)
      PROVE  Nothing
  <2>1. authorized # EscrowAddress /\ authorized' # EscrowAddress
    BY <1>6 DEF RecordDirectly, RecordCompletion
  <2> QED BY <1>6, <2>1 DEF SameTraces, Approved, RecordDirectly, chainVars
<1>7. CASE UNCHANGED vars
  BY <1>4, <1>7
<1>8. CASE Next
  <2> HIDE DEF Nothing
  <2> QED BY <1>3, <1>5, <1>6, <1>8 DEF Next, Nothing
<1> QED BY <1>7, <1>8

LEMMA WhatAStepDoes ==
    ASSUME ChainTypeOK, ObeysBeforeRecords, [Next]_vars
    PROVE  \/ UNCHANGED escrow /\ SameTraces
           \/ \E client, f, asset, amount, status :
                  Opens(client, f, asset, amount, status)
           \/ \E id, status : Moves(id, status)
           \/ \E w \in Account, f \in Address, id \in Ids : AssignFreelancer(w, id, f)
           \/ \E w \in Account, id \in Ids, rating \in Ratings :
                  ApproveAndRelease(w, id, rating)
           \/ \E w \in Account, id \in Ids, share \in Shares :
                  ResolveDispute(w, id, share)
<1> USE ReputationConstants, EscrowConstants
<1>1. ASSUME NEW w \in Account, NEW asset \in Asset, NEW amount \in Amounts
      PROVE  /\ \A f \in Address : CreateEscrow(w, f, asset, amount)
                    => Opens(w, f, asset, amount, "Created")
             /\ CreateOpenEscrow(w, asset, amount)
                    => Opens(w, NoAddress, asset, amount, "Created")
             /\ CreateAndFundOpenEscrow(w, asset, amount)
                    => Opens(w, NoAddress, asset, amount, "Funded")
  BY DEF Opens, CreateEscrow, CreateOpenEscrow, CreateAndFundOpenEscrow, repVars
<1>2. ASSUME NEW w \in Account, NEW id \in Ids
      PROVE  /\ FundEscrow(w, id) => Moves(id, "Funded")
             /\ SubmitWork(w, id) => Moves(id, "Submitted")
             /\ CancelEscrow(w, id) => Moves(id, "Cancelled")
             /\ MarkDisputed(w, id) => Moves(id, "Disputed")
  BY DEF Moves, FundEscrow, SubmitWork, CancelEscrow, MayCancel, MarkDisputed, MayMarkDisputed, repVars, Final
<1> QED BY <1>1, <1>2, StepsInGroups

\* An assignment touches one escrow that is not final.
LEMMA AssignEffect ==
    ASSUME ChainTypeOK, NEW w \in Account, NEW f \in Address, NEW id \in Ids,
           AssignFreelancer(w, id, f)
    PROVE  /\ DOMAIN escrow' = Ids
           /\ \A i \in Ids : i # id => escrow'[i] = escrow[i]
           /\ escrow'[id].client = w /\ escrow'[id].freelancer = f /\ f # w
           /\ escrow'[id].status = escrow[id].status
           /\ escrow[id].status \in {"Created", "Funded"}
           /\ UNCHANGED <<authorized, completions, resolved>>
BY DEF AssignFreelancer, ChainTypeOK, Escrow, Ids, repVars

LEMMA PartiesStep ==
    ASSUME ChainTypeOK, ObeysBeforeRecords, PartiesAreDistinct, [Next]_vars
    PROVE  PartiesAreDistinct'
<1> USE ReputationConstants, EscrowConstants
<1> DEFINE Fair(e) == /\ e.client # e.freelancer
                      /\ e.status \in {"Submitted", "Released", "Disputed"} =>
                             e.freelancer # NoAddress
<1>1. CASE UNCHANGED escrow
  BY <1>1 DEF PartiesAreDistinct, Ids
<1>2. ASSUME NEW client, NEW f, NEW asset, NEW amount, NEW status,
             Opens(client, f, asset, amount, status)
      PROVE  PartiesAreDistinct'
  <2>1. /\ DOMAIN escrow' = Ids \cup {nextEscrowId}
        /\ \A i \in Ids : escrow'[i] = escrow[i]
        /\ escrow'[nextEscrowId] =
               [client |-> client, freelancer |-> f, asset |-> asset,
                amount |-> amount, status |-> status]
    <3>1. create_escrow_internal(client, f, asset, amount, status)
      BY <1>2 DEF Opens
    <3> QED BY <3>1, CreateEffect
  <2>2. Fair(escrow'[nextEscrowId])
    BY <1>2, <2>1 DEF Opens
  <2> QED BY <2>1, <2>2 DEF PartiesAreDistinct, Ids
\* The status of one escrow is set.
<1>3. ASSUME NEW id \in Ids, NEW status, SetStatus(id, status),
             status \in {"Submitted", "Released", "Disputed"} =>
                 escrow[id].freelancer # NoAddress
      PROVE  PartiesAreDistinct'
  BY <1>3, SetStatusEffect DEF PartiesAreDistinct, Ids
<1>4. ASSUME NEW id, NEW status, Moves(id, status)
      PROVE  PartiesAreDistinct'
  BY <1>3, <1>4 DEF Moves
<1>5. ASSUME NEW w \in Account, NEW f \in Address, NEW id \in Ids,
             AssignFreelancer(w, id, f)
      PROVE  PartiesAreDistinct'
  BY <1>5, AssignEffect DEF PartiesAreDistinct, Ids
<1>6. ASSUME NEW w \in Account, NEW id \in Ids, NEW rating \in Ratings,
             ApproveAndRelease(w, id, rating)
      PROVE  PartiesAreDistinct'
  BY <1>3, <1>6 DEF ApproveAndRelease
<1>7. ASSUME NEW w \in Account, NEW id \in Ids, NEW share \in Shares,
             ResolveDispute(w, id, share)
      PROVE  PartiesAreDistinct'
  <2>1. PICK s \in {"Released", "Cancelled"} : SetStatus(id, s)
    BY <1>7 DEF ResolveDispute
  <2> QED BY <1>3, <1>7, <2>1 DEF ResolveDispute, Resolvable
<1> QED BY <1>1, <1>2, <1>4, <1>5, <1>6, <1>7, WhatAStepDoes

\* No escrow is worked on, disputed or paid out without a freelancer who is
\* somebody else than the client, however late the freelancer was assigned.
THEOREM PartiesCorrect == Spec => []PartiesAreDistinct
<1>1. Init => PartiesAreDistinct
  BY DEF Init, PartiesAreDistinct, Ids
<1>2. ChainTypeOK /\ ObeysBeforeRecords /\ PartiesAreDistinct /\ [Next]_vars
      => PartiesAreDistinct'
  BY PartiesStep
<1> QED BY <1>1, <1>2, ChainTypeCorrect, NoRecordsBefore, PTL DEF Spec

-----------------------------------------------------------------------------
(* What approvals and resolutions leave behind.                             *)

\* A resolution ends an escrow.
ResolvedIsFinal == \A r \in resolved : r.status \in Final

Traces == ReleasedForOneReason /\ ResolutionIsFairAndComplete /\ ResolvedIsFinal

\* A step that makes no completion and no resolution keeps what they say, when
\* it leaves final escrows alone and releases none.
LEMMA TracesStay ==
    ASSUME Traces, SameTraces, Ids \subseteq Ids',
           \A i \in Ids : escrow[i].status \in Final => escrow'[i] = escrow[i],
           \A i \in Ids' : escrow'[i].status = "Released" =>
                               i \in Ids /\ escrow[i].status = "Released"
    PROVE  Traces'
<1> USE DEF SameTraces
<1>1. \A r \in resolved : /\ r.escrow_id \in Ids
                          /\ escrow'[r.escrow_id] = escrow[r.escrow_id]
  BY DEF Traces, ReleasedForOneReason, ResolvedIsFinal
<1>2. \A i : Approved(i) => i \in Ids /\ escrow'[i] = escrow[i]
  BY DEF Traces, ReleasedForOneReason, Final, Approved, has_completion
<1>3. ReleasedForOneReason'
  <2>1. \A i \in Ids' : escrow'[i].status = "Released" =>
            (Approved(i)' <=> ~ \E r \in resolved : r.escrow_id = i)
    BY DEF Traces, ReleasedForOneReason
  <2>2. \A r \in resolved :
            /\ escrow'[r.escrow_id].status = r.status
            /\ \A q \in resolved : q.escrow_id = r.escrow_id => q = r
    BY <1>1 DEF Traces, ReleasedForOneReason
  <2>3. ASSUME NEW i \in DOMAIN completions', Approved(i)'
        PROVE  /\ i \in Ids' /\ escrow'[i].status = "Released"
               /\ <<escrow'[i].client, escrow'[i].freelancer,
                    escrow'[i].asset, escrow'[i].amount>> =
                  <<completions'[i].client, completions'[i].freelancer,
                    completions'[i].asset, completions'[i].amount>>
    <3>1. Approved(i) /\ i \in DOMAIN completions
      BY <2>3 DEF Approved, has_completion
    <3>2. completions'[i] = completions[i] /\ i \in Ids /\ escrow'[i] = escrow[i]
      BY <1>2, <3>1
    <3> QED BY <3>1, <3>2 DEF Traces, ReleasedForOneReason
  <2> QED BY <1>1, <2>1, <2>2, <2>3 DEF ReleasedForOneReason
<1>4. ResolutionIsFairAndComplete'
  BY <1>1 DEF Traces, ResolutionIsFairAndComplete
<1>5. ResolvedIsFinal'
  BY DEF Traces, ResolvedIsFinal
<1> QED BY <1>3, <1>4, <1>5 DEF Traces

LEMMA TracesOfApproval ==
    ASSUME ChainTypeOK, Traces, NEW w \in Account, NEW id \in Ids,
           NEW rating \in Ratings, ApproveAndRelease(w, id, rating)
    PROVE  Traces'
<1> DEFINE e == escrow[id]
           c == [client |-> e.client, freelancer |-> e.freelancer,
                 asset |-> e.asset, amount |-> e.amount, rating |-> rating]
<1>1. /\ SetStatus(id, "Released") /\ e.status = "Submitted"
      /\ UNCHANGED <<authorized, resolved>> /\ authorized = EscrowAddress
      /\ completions' = [i \in DOMAIN completions \cup {id} |->
                            IF i = id THEN c ELSE completions[i]]
  BY DEF ApproveAndRelease, RecordCompletion
<1>2. /\ Ids' = Ids
      /\ \A i \in Ids : i # id => escrow'[i] = escrow[i]
      /\ escrow'[id].status = "Released"
      /\ escrow'[id].client = e.client /\ escrow'[id].freelancer = e.freelancer
      /\ escrow'[id].asset = e.asset /\ escrow'[id].amount = e.amount
  BY <1>1, SetStatusEffect DEF Ids
<1>3. \A r \in resolved : /\ r.escrow_id \in Ids /\ r.escrow_id # id
                          /\ escrow'[r.escrow_id] = escrow[r.escrow_id]
  BY <1>1, <1>2 DEF Traces, ReleasedForOneReason, ResolvedIsFinal, Final
<1>4. /\ DOMAIN completions' = DOMAIN completions \cup {id}
      /\ completions'[id] = c
      /\ \A i \in DOMAIN completions : i # id => completions'[i] = completions[i]
  BY <1>1
<1>5. /\ c.client = e.client /\ c.freelancer = e.freelancer
      /\ c.asset = e.asset /\ c.amount = e.amount
  OBVIOUS
<1> HIDE DEF e, c
<1>6. ReleasedForOneReason'
  <2>1. \A i \in Ids : escrow'[i].status = "Released" =>
            (Approved(i)' <=> ~ \E r \in resolved : r.escrow_id = i)
    BY <1>1, <1>2, <1>3, <1>4
       DEF Traces, ReleasedForOneReason, Approved, has_completion
  <2>2. \A r \in resolved :
            /\ escrow'[r.escrow_id].status = r.status
            /\ \A q \in resolved : q.escrow_id = r.escrow_id => q = r
    BY <1>3 DEF Traces, ReleasedForOneReason
  <2>3. ASSUME NEW i \in DOMAIN completions'
        PROVE  /\ i \in Ids /\ escrow'[i].status = "Released"
               /\ <<escrow'[i].client, escrow'[i].freelancer,
                    escrow'[i].asset, escrow'[i].amount>> =
                  <<completions'[i].client, completions'[i].freelancer,
                    completions'[i].asset, completions'[i].amount>>
    <3>1. CASE i = id
      BY <1>2, <1>4, <1>5, <3>1
    <3>2. CASE i # id
      BY <1>1, <1>2, <1>4, <3>2 DEF Traces, ReleasedForOneReason, Approved, has_completion
    <3> QED BY <3>1, <3>2
  <2> QED BY <1>1, <1>2, <1>3, <2>1, <2>2, <2>3
          DEF ReleasedForOneReason
<1>7. ResolutionIsFairAndComplete' /\ ResolvedIsFinal'
  BY <1>1, <1>3 DEF Traces, ResolutionIsFairAndComplete, ResolvedIsFinal
<1> QED BY <1>6, <1>7 DEF Traces

LEMMA TracesOfResolution ==
    ASSUME ChainTypeOK, Traces, NEW w \in Account, NEW id \in Ids,
           NEW share \in Shares, ResolveDispute(w, id, share)
    PROVE  Traces'
<1> DEFINE e == escrow[id]
           toFree == FreelancerAmount(e.amount, share)
           toCl == e.amount - toFree
           final == IF share = 0 THEN "Cancelled" ELSE "Released"
           new == [escrow_id |-> id, actor |-> w, share |-> share,
                   status |-> final, freelancer_amount |-> toFree,
                   client_amount |-> toCl]
<1>1. /\ SetStatus(id, final) /\ e.status = "Disputed"
      /\ w \notin {e.client, e.freelancer} /\ share <= 10000
      /\ resolved' = resolved \cup {new} /\ UNCHANGED <<authorized, completions>>
  BY DEF ResolveDispute, Resolvable, repVars
<1>2. /\ Ids' = Ids
      /\ \A i \in Ids : i # id => escrow'[i] = escrow[i]
      /\ escrow'[id].status = final
      /\ escrow'[id].client = e.client /\ escrow'[id].freelancer = e.freelancer
      /\ escrow'[id].amount = e.amount
  BY <1>1, SetStatusEffect DEF Ids
<1>3. final \in Final
  BY DEF Final
<1>4. e.amount \in Nat /\ share \in Nat
  <2>1. e \in Escrow
    BY DEF ChainTypeOK, Ids
  <2> QED BY <2>1, EscrowAmount, EscrowConstants
<1>5. toFree = FloorShare(e.amount, share) /\ toFree + toCl = e.amount
  <2>1. PICK a \in Nat : a = e.amount
    BY <1>4
  <2>2. PICK s \in Nat : s = share
    BY <1>4
  <2>0. s <= 10000
    BY <1>1, <2>2
  <2>3. /\ FreelancerAmount(a, s) = FloorShare(a, s)
        /\ FreelancerAmount(a, s) \in 0..a
    BY <2>0, SplitIsFloor
  <2>4. toFree = FreelancerAmount(a, s) /\ FloorShare(e.amount, share) = FloorShare(a, s)
    BY <2>1, <2>2
  <2> HIDE DEF toFree
  <2>5. toFree \in Int /\ e.amount \in Int
    BY <2>1, <2>3, <2>4
  <2> QED BY <2>3, <2>4, <2>5
<1>6. /\ new.escrow_id = id /\ new.actor = w /\ new.share = share
      /\ new.status = final /\ new.freelancer_amount = toFree
      /\ new.client_amount = toCl
  OBVIOUS
<1> HIDE DEF e, toFree, toCl, final, new
<1>7. \A r \in resolved : /\ r.escrow_id \in Ids /\ r.escrow_id # id
                          /\ escrow'[r.escrow_id] = escrow[r.escrow_id]
  BY <1>1, <1>2 DEF Traces, ReleasedForOneReason, ResolvedIsFinal, Final, e
<1>8. /\ \A i : Approved(i)' <=> Approved(i)
      /\ \A i : Approved(i) => i \in Ids /\ i # id /\ escrow'[i] = escrow[i]
  BY <1>1, <1>2 DEF Traces, ReleasedForOneReason, Approved, has_completion, e
<1>9. ReleasedForOneReason'
  <2>1. \A i \in Ids : escrow'[i].status = "Released" =>
            (Approved(i)' <=> ~ \E r \in resolved' : r.escrow_id = i)
    BY <1>1, <1>2, <1>6, <1>8 DEF Traces, ReleasedForOneReason
  <2>2. \A r \in resolved' :
            /\ r.escrow_id \in Ids
            /\ escrow'[r.escrow_id].status = r.status
            /\ \A q \in resolved' : q.escrow_id = r.escrow_id => q = r
    BY <1>1, <1>2, <1>6, <1>7 DEF Traces, ReleasedForOneReason
  <2>3. \A i \in DOMAIN completions : Approved(i) =>
            /\ escrow'[i].status = "Released"
            /\ <<escrow'[i].client, escrow'[i].freelancer,
                 escrow'[i].asset, escrow'[i].amount>> =
               <<completions[i].client, completions[i].freelancer,
                 completions[i].asset, completions[i].amount>>
    BY <1>8 DEF Traces, ReleasedForOneReason
  <2> QED BY <1>1, <1>2, <1>8, <2>1, <2>2, <2>3
          DEF ReleasedForOneReason
<1>10. ResolutionIsFairAndComplete'
  <2> SUFFICES ASSUME NEW r \in resolved'
               PROVE  /\ r.freelancer_amount + r.client_amount
                             = escrow'[r.escrow_id].amount
                      /\ r.freelancer_amount
                             = FloorShare(escrow'[r.escrow_id].amount, r.share)
                      /\ r.actor \notin {escrow'[r.escrow_id].client,
                                         escrow'[r.escrow_id].freelancer}
    BY DEF ResolutionIsFairAndComplete
  <2>1. CASE r = new
    BY <1>1, <1>2, <1>5, <1>6, <2>1
  <2>2. CASE r \in resolved
    BY <1>7, <2>2 DEF Traces, ResolutionIsFairAndComplete
  <2> QED BY <1>1, <2>1, <2>2
<1>11. ResolvedIsFinal'
  BY <1>1, <1>3, <1>6 DEF Traces, ResolvedIsFinal
<1> QED BY <1>9, <1>10, <1>11 DEF Traces

LEMMA TracesStep ==
    ASSUME ChainTypeOK, ObeysBeforeRecords, Traces, [Next]_vars
    PROVE  Traces'
<1>1. CASE UNCHANGED escrow /\ SameTraces
  BY <1>1, TracesStay DEF Ids
<1>2. ASSUME NEW client, NEW f, NEW asset, NEW amount, NEW status,
             Opens(client, f, asset, amount, status)
      PROVE  Traces'
  <2>1. /\ Ids' = Ids \cup {nextEscrowId}
        /\ \A i \in Ids : escrow'[i] = escrow[i]
        /\ escrow'[nextEscrowId] =
               [client |-> client, freelancer |-> f, asset |-> asset,
                amount |-> amount, status |-> status]
    BY <1>2, CreateEffect DEF Opens, Ids
  <2>2. escrow'[nextEscrowId].status # "Released"
    BY <1>2, <2>1 DEF Opens
  <2> QED BY <1>2, <2>1, <2>2, SameRecords, TracesStay DEF Opens
<1>3. ASSUME NEW id, NEW status, Moves(id, status)
      PROVE  Traces'
  <2>1. /\ Ids' = Ids /\ escrow'[id].status = status
        /\ \A i \in Ids : i # id => escrow'[i] = escrow[i]
    BY <1>3, SetStatusEffect DEF Moves, Ids
  <2> QED BY <1>3, <2>1, SameRecords, TracesStay DEF Moves
<1>4. ASSUME NEW w \in Account, NEW f \in Address, NEW id \in Ids,
             AssignFreelancer(w, id, f)
      PROVE  Traces'
  <2>1. /\ Ids' = Ids /\ escrow'[id].status = escrow[id].status
        /\ \A i \in Ids : i # id => escrow'[i] = escrow[i]
        /\ escrow[id].status \in {"Created", "Funded"}
        /\ UNCHANGED <<authorized, completions, resolved>>
    BY <1>4, AssignEffect DEF Ids
  <2> QED BY <2>1, SameRecords, TracesStay DEF Final
<1> QED BY <1>1, <1>2, <1>3, <1>4, TracesOfApproval, TracesOfResolution, WhatAStepDoes

LEMMA TracesCorrect == Spec => []Traces
<1>1. Init => Traces
  BY DEF Init, RepInit, Traces, ReleasedForOneReason, ResolutionIsFairAndComplete,
     ResolvedIsFinal, Ids
<1>2. ChainTypeOK /\ ObeysBeforeRecords /\ Traces /\ [Next]_vars => Traces'
  BY TracesStep
<1> QED BY <1>1, <1>2, ChainTypeCorrect, NoRecordsBefore, PTL DEF Spec

\* An escrow is released for exactly one reason, and only that leaves a trace:
\* a completion recorded by the approval, or a resolution - also when some
\* wallet has the reputation contract and records what it likes.
THEOREM OneReason == Spec => []ReleasedForOneReason
<1>1. Traces => ReleasedForOneReason
  BY DEF Traces
<1> QED BY <1>1, TracesCorrect, PTL

\* A resolution pays the whole escrow out, rounded for the freelancer downwards,
\* and was made by neither of the parties the escrow has.
THEOREM ResolutionsAreFair == Spec => []ResolutionIsFairAndComplete
<1>1. Traces => ResolutionIsFairAndComplete
  BY DEF Traces
<1> QED BY <1>1, TracesCorrect, PTL

-----------------------------------------------------------------------------
(* The allow-list.                                                          *)

LEMMA CountStep ==
    ASSUME IsFiniteSet(allowedAssets), AllowlistCountIsExact, [Next]_vars
    PROVE  IsFiniteSet(allowedAssets') /\ AllowlistCountIsExact'
<1>1. ASSUME NEW asset \in Asset, AddAllowedAsset(asset)
      PROVE  IsFiniteSet(allowedAssets') /\ AllowlistCountIsExact'
  BY <1>1, FS_AddElement DEF AddAllowedAsset, AllowlistCountIsExact
<1>2. ASSUME NEW asset \in Asset, RemoveAllowedAsset(asset)
      PROVE  IsFiniteSet(allowedAssets') /\ AllowlistCountIsExact'
  <2>1. /\ IsFiniteSet(allowedAssets \ {asset})
        /\ Cardinality(allowedAssets \ {asset}) = Cardinality(allowedAssets) - 1
    BY <1>2, FS_RemoveElement DEF RemoveAllowedAsset
  <2>2. Cardinality(allowedAssets) # 0
    BY <1>2, FS_EmptySet DEF RemoveAllowedAsset
  <2> QED BY <1>2, <2>1, <2>2 DEF RemoveAllowedAsset, AllowlistCountIsExact
<1>3. CASE UNCHANGED <<allowedAssets, allowedCount>>
  BY <1>3 DEF AllowlistCountIsExact
<1>4. CASE UNCHANGED vars
  BY <1>3, <1>4 DEF vars, chainVars
<1>5. CASE Next
  BY <1>1, <1>2, <1>3, <1>5, SMTT(30)
     DEF Next, chainVars, Initialize, CreateEscrow, CreateOpenEscrow,
         CreateAndFundOpenEscrow, AddDisputeAdmin, RemoveDisputeAdmin,
         FundEscrow, SubmitWork, CancelEscrow, MarkDisputed, AssignFreelancer,
         ApproveAndRelease, ResolveDispute, RecordDirectly
<1> QED BY <1>4, <1>5

\* The counter that switches the allow-list on is the number of its entries.
THEOREM CountCorrect == Spec => []AllowlistCountIsExact
<1>1. Init => IsFiniteSet(allowedAssets) /\ AllowlistCountIsExact
  BY FS_EmptySet DEF Init, AllowlistCountIsExact
<1>2. IsFiniteSet(allowedAssets) /\ AllowlistCountIsExact /\ [Next]_vars =>
          IsFiniteSet(allowedAssets') /\ AllowlistCountIsExact'
  BY CountStep
<1> DEFINE Finite == IsFiniteSet(allowedAssets)
<1>3. Init => Finite /\ AllowlistCountIsExact
  BY <1>1
<1>4. Finite /\ AllowlistCountIsExact /\ [Next]_vars =>
          Finite' /\ AllowlistCountIsExact'
  BY <1>2
<1> HIDE DEF Finite
<1> QED BY <1>3, <1>4, PTL DEF Spec
-----------------------------------------------------------------------------
(* Who got the money.                                                       *)

\* What the token contracts keep.
Balances == [Address -> [Asset -> Int]]

\* What a payment to `to` adds to the balance of w in the token a.
Reaches(w, a, to, asset, amount) == IF w = to /\ a = asset THEN amount ELSE 0

\* The token contract: what a payment does to each balance.
LEMMA CreditEffect ==
    ASSUME NEW b \in Balances, NEW to \in Address,
           NEW asset \in Asset, NEW amount \in Int
    PROVE  /\ Credit(b, to, asset, amount) \in Balances
           /\ \A w \in Address, a \in Asset :
                  Credit(b, to, asset, amount)[w][a] =
                      b[w][a] + Reaches(w, a, to, asset, amount)
<1> USE DEF Balances, Reaches
<1>1. /\ b[to] \in [Asset -> Int] /\ b[to][asset] \in Int
      /\ \A w \in Address, a \in Asset : b[w][a] \in Int
  OBVIOUS
<1>2. Credit(b, to, asset, amount) =
          [b EXCEPT ![to] = [b[to] EXCEPT ![asset] = b[to][asset] + amount]]
  BY <1>1 DEF Credit
<1>3. [b[to] EXCEPT ![asset] = b[to][asset] + amount] \in [Asset -> Int]
  BY <1>1
<1>4. Credit(b, to, asset, amount) \in Balances
  BY <1>2, <1>3
<1>5. ASSUME NEW w \in Address, NEW a \in Asset
      PROVE  Credit(b, to, asset, amount)[w][a] =
                 b[w][a] + Reaches(w, a, to, asset, amount)
  <2>1. CASE w = to
    BY <1>1, <1>2, <2>1
  <2>2. CASE w # to
    BY <1>1, <1>2, <2>2
  <2> QED BY <2>1, <2>2
<1> QED BY <1>4, <1>5

\* The same, for one balance.
LEMMA CreditOne ==
    \A b \in Balances : \A to \in Address : \A asset \in Asset : \A amount \in Int :
    \A w \in Address : \A a \in Asset :
        Credit(b, to, asset, amount)[w][a] = b[w][a] + Reaches(w, a, to, asset, amount)
BY CreditEffect

\* A payment leaves balances.
LEMMA CreditKeeps ==
    \A b \in Balances : \A to \in Address : \A asset \in Asset : \A amount \in Int :
        Credit(b, to, asset, amount) \in Balances
BY CreditEffect

\* A transfer moves `amount` of one token from one balance to another, and
\* nothing at all when both are the same.
LEMMA TransferEffect ==
    ASSUME ChainTypeOK, NEW from \in Address, NEW to \in Address,
           NEW asset \in Asset, NEW amount \in Nat,
           Transfer(from, to, asset, amount),
           NEW w \in Address, NEW a \in Asset
    PROVE  balance'[w][a] = balance[w][a]
               - (IF w = from /\ a = asset THEN amount ELSE 0)
               + (IF w = to /\ a = asset THEN amount ELSE 0)
<1> DEFINE b == Credit(balance, from, asset, -amount)
<1>1. balance \in Balances /\ balance[w][a] \in Int
  BY DEF ChainTypeOK, Balances
<1>0. -amount \in Int /\ amount \in Int
  OBVIOUS
<1>2. /\ b \in Balances
      /\ b[w][a] = balance[w][a] + Reaches(w, a, from, asset, -amount)
  BY <1>0, <1>1, CreditKeeps, CreditOne
<1>3. balance' = Credit(b, to, asset, amount)
  BY DEF Transfer
<1> HIDE DEF b
<1>4. balance'[w][a] = b[w][a] + Reaches(w, a, to, asset, amount)
  BY <1>0, <1>2, <1>3, CreditOne
<1>5. b[w][a] \in Int
  BY <1>2 DEF Balances
<1> QED BY <1>1, <1>2, <1>4, <1>5 DEF Reaches

\* Three payments in one token, one after the other.
LEMMA ThreePayments ==
    ASSUME NEW b0 \in Balances, NEW asset \in Asset,
           NEW f \in Address, NEW g \in Address, NEW h \in Address,
           NEW x \in Int, NEW y \in Int, NEW z \in Int,
           NEW w \in Address, NEW a \in Asset
    PROVE  Credit(Credit(Credit(b0, f, asset, x), g, asset, y), h, asset, z)[w][a] =
               b0[w][a] + Reaches(w, a, f, asset, x) + Reaches(w, a, g, asset, y)
                        + Reaches(w, a, h, asset, z)
<1> DEFINE b == Credit(b0, f, asset, x)
           c == Credit(b, g, asset, y)
<1>1. b \in Balances
  BY CreditKeeps
<1>2. b[w][a] = b0[w][a] + Reaches(w, a, f, asset, x)
  BY CreditOne
<1> HIDE DEF b
<1>3. c \in Balances
  BY <1>1, CreditKeeps
<1>4. c[w][a] = b[w][a] + Reaches(w, a, g, asset, y)
  BY <1>1, CreditOne
<1> HIDE DEF c
<1>5. Credit(c, h, asset, z)[w][a] = c[w][a] + Reaches(w, a, h, asset, z)
  BY <1>3, CreditOne
<1> QED BY <1>2, <1>4, <1>5 DEF b, c

\* A resolution takes the whole amount of the escrow out of the contract and
\* gives each party its part; the contract may be one of them.
LEMMA ResolutionReaches ==
    ASSUME ChainTypeOK, NEW admin \in Account, NEW id \in Ids, NEW share \in Shares,
           ResolveDispute(admin, id, share),
           escrow[id] \in Escrow, escrow[id].freelancer # NoAddress,
           NEW w \in Address, NEW a \in Asset
    PROVE  LET e == escrow[id]
               toFree == FreelancerAmount(e.amount, share)
           IN  balance'[w][a] = balance[w][a]
                   - (IF w = EscrowAddress /\ a = e.asset THEN e.amount ELSE 0)
                   + (IF w = e.freelancer /\ a = e.asset THEN toFree ELSE 0)
                   + (IF w = e.client /\ a = e.asset THEN e.amount - toFree ELSE 0)
<1> DEFINE e == escrow[id]
           toFree == FreelancerAmount(e.amount, share)
           toCl == e.amount - toFree
<1>1. balance' = Credit(Credit(Credit(balance, EscrowAddress, e.asset,
                                      -(toFree + toCl)),
                               e.freelancer, e.asset, toFree),
                        e.client, e.asset, toCl)
  BY DEF ResolveDispute
<1>2. /\ balance \in Balances /\ EscrowAddress \in Address
      /\ e.client \in Address /\ e.freelancer \in Address /\ e.asset \in Asset
      /\ e.amount \in Int /\ balance[w][a] \in Int /\ share \in Int
  <2>1. balance \in Balances /\ balance[w][a] \in Int
    BY DEF ChainTypeOK, Balances
  <2>2. e.amount \in Int
    BY EscrowAmount
  <2>3. Account \subseteq Address /\ EscrowAddress \in Address /\ share \in Int
    BY EscrowConstants
  <2>4. e.client \in Account /\ e.asset \in Asset /\ e.freelancer \in Address
    BY DEF Escrow
  <2> QED BY <2>1, <2>2, <2>3, <2>4
<1>3. toFree \in Int
  BY <1>2 DEF FreelancerAmount
<1> HIDE DEF toFree
<1>4. toCl \in Int /\ -(toFree + toCl) \in Int /\ -(toFree + toCl) = -e.amount
  BY <1>2, <1>3
<1> HIDE DEF toCl, e
<1>5. balance'[w][a] = balance[w][a]
          + Reaches(w, a, EscrowAddress, e.asset, -(toFree + toCl))
          + Reaches(w, a, e.freelancer, e.asset, toFree)
          + Reaches(w, a, e.client, e.asset, toCl)
  BY <1>1, <1>2, <1>3, <1>4, ThreePayments
<1>8. balance'[w][a] = balance[w][a]
          - (IF w = EscrowAddress /\ a = e.asset THEN e.amount ELSE 0)
          + (IF w = e.freelancer /\ a = e.asset THEN toFree ELSE 0)
          + (IF w = e.client /\ a = e.asset THEN toCl ELSE 0)
  BY <1>2, <1>3, <1>4, <1>5 DEF Reaches
<1> QED BY <1>8 DEF e, toCl, toFree

\* What the records say that the freelancer of an escrow earned.
EarnedAsRecorded(id) ==
    /\ Earned(id) \in Nat
    /\ escrow[id].status \notin Final => Earned(id) = 0
    /\ \A r \in resolved : r.escrow_id = id => Earned(id) = r.freelancer_amount
    /\ Approved(id) => Earned(id) = escrow[id].amount
    /\ ~Approved(id) /\ (\A r \in resolved : r.escrow_id # id) => Earned(id) = 0

LEMMA EarnedIs == ChainTypeOK /\ Traces => \A id \in Ids : EarnedAsRecorded(id)
<1> SUFFICES ASSUME ChainTypeOK, Traces, NEW id \in Ids
             PROVE  EarnedAsRecorded(id)
  OBVIOUS
<1>1. escrow[id].amount \in Nat
  BY EscrowAmount DEF ChainTypeOK, Ids
<1>0. Approved(id) => /\ escrow[id].status = "Released"
                      /\ completions[id].amount = escrow[id].amount
  BY DEF Traces, ReleasedForOneReason, Approved, has_completion
<1>2. CASE \E r \in resolved : r.escrow_id = id
  <2> DEFINE event == CHOOSE r \in resolved : r.escrow_id = id
  <2>1. event \in resolved /\ event.escrow_id = id
    BY <1>2
  <2>2. escrow[id].status \in Final /\ ~Approved(id)
    BY <1>0, <1>2, <2>1 DEF Traces, ReleasedForOneReason, ResolvedIsFinal
  <2>3. Earned(id) = event.freelancer_amount
    BY <1>2, <2>2 DEF Earned
  <2> HIDE DEF event
  <2>4. Earned(id) \in Nat
    BY <2>1, <2>3 DEF ChainTypeOK, ResolvedEvent
  <2>5. \A r \in resolved : r.escrow_id = id => r = event
    BY <2>1 DEF Traces, ReleasedForOneReason
  <2> QED BY <2>1, <2>2, <2>3, <2>4, <2>5 DEF EarnedAsRecorded
<1>3. CASE ~ \E r \in resolved : r.escrow_id = id
  <2>1. CASE Approved(id)
    <3>2. Earned(id) = escrow[id].amount
      BY <1>0, <1>3, <2>1 DEF Earned
    <3> QED BY <1>0, <1>1, <1>3, <2>1, <3>2 DEF EarnedAsRecorded, Final
  <2>2. CASE ~Approved(id)
    <3>1. Earned(id) = 0
      BY <1>3, <2>2 DEF Earned
    <3> QED BY <1>3, <2>2, <3>1 DEF EarnedAsRecorded
  <2> QED BY <2>1, <2>2
<1> QED BY <1>2, <1>3

LEMMA EarnedIsNext ==
    ASSUME ChainTypeOK', Traces'
    PROVE  \A id \in DOMAIN escrow' : EarnedAsRecorded(id)'
<1>1. (ChainTypeOK /\ Traces => \A id \in Ids : EarnedAsRecorded(id))'
  BY EarnedIs, PTL
<1> QED BY <1>1 DEF Ids

\* A step that completes or resolves another escrow, or none.
LEMMA EarnedStays ==
    ASSUME ChainTypeOK, Traces, ChainTypeOK', Traces',
           NEW i \in Ids, i \in DOMAIN escrow',
           escrow'[i].amount = escrow[i].amount,
           \A r : r.escrow_id = i => (r \in resolved' <=> r \in resolved),
           Approved(i)' <=> Approved(i)
    PROVE  Earned(i)' = Earned(i)
<1>1. EarnedAsRecorded(i) /\ EarnedAsRecorded(i)'
  BY EarnedIs, EarnedIsNext
<1> QED BY <1>1 DEF EarnedAsRecorded

LEMMA GainTypes ==
    ASSUME ChainTypeOK, Traces, NEW w \in Address, NEW asset \in Asset
    PROVE  /\ nextEscrowId - 1 \in Nat /\ Ids = 1..(nextEscrowId - 1)
           /\ \A id \in Ids : Gain(w, id) \in Int
           /\ Gains(w, asset) \in [1..(nextEscrowId - 1) -> Int]
           /\ balance[w][asset] \in Nat /\ Start(w) \in Int
<1>1. nextEscrowId - 1 \in Nat /\ Ids = 1..(nextEscrowId - 1)
  BY ReputationConstants DEF ChainTypeOK, Ids
<1>2. ASSUME NEW id \in Ids PROVE Gain(w, id) \in Int
  <2>1. Earned(id) \in Nat /\ escrow[id].amount \in Nat
    BY EarnedIs, EscrowAmount DEF EarnedAsRecorded, ChainTypeOK, Ids
  <2>2. HeldFor(id) \in Nat
    BY <2>1 DEF HeldFor
  <2> QED BY <2>1, <2>2 DEF Gain
<1>3. balance[w][asset] \in Nat /\ Start(w) \in Int
  BY EscrowConstants DEF ChainTypeOK, Start
<1> QED BY <1>1, <1>2, <1>3 DEF Gains

GainsTyped ==
    \A w \in Address, asset \in Asset :
        /\ \A id \in Ids : Gain(w, id) \in Int
        /\ Gains(w, asset) \in [1..(nextEscrowId - 1) -> Int]

LEMMA GainsAreTyped == ChainTypeOK /\ Traces => GainsTyped
BY GainTypes DEF GainsTyped

LEMMA GainTypesNext ==
    ASSUME ChainTypeOK', Traces', NEW w \in Address, NEW asset \in Asset
    PROVE  /\ \A id \in DOMAIN escrow' : Gain(w, id)' \in Int
           /\ Gains(w, asset)' \in [1..(nextEscrowId' - 1) -> Int]
<1>1. (ChainTypeOK /\ Traces => GainsTyped)'
  BY GainsAreTyped, PTL
<1> QED BY <1>1 DEF GainsTyped, Ids

\* A step that changes what one escrow cost or earned its parties, and pays
\* the difference.
LEMMA BalancesOnUpdate ==
    ASSUME ChainTypeOK, ChainTypeOK', Traces, Traces', BalancesAddUp,
           NEW id \in Ids, UNCHANGED nextEscrowId,
           \A i \in Ids : i # id => /\ escrow'[i] = escrow[i]
                                    /\ Earned(i)' = Earned(i),
           escrow'[id].asset = escrow[id].asset,
           \A w \in Address, asset \in Asset :
               balance'[w][asset] = balance[w][asset]
                   + IF asset = escrow[id].asset
                     THEN Gain(w, id)' - Gain(w, id) ELSE 0
    PROVE  BalancesAddUp'
<1> SUFFICES ASSUME NEW w \in Address, NEW asset \in Asset
             PROVE  balance'[w][asset] =
                        Start(w) + SumTo(Gains(w, asset)', nextEscrowId - 1)
  BY DEF BalancesAddUp
<1> DEFINE n == nextEscrowId - 1
           H == Gains(w, asset)
           G == Gains(w, asset)'
           old == Gain(w, id)
           new == Gain(w, id)'
<1>1. /\ n \in Nat /\ Ids = 1..n /\ H \in [1..n -> Int]
      /\ G \in [1..n -> Int] /\ balance[w][asset] \in Nat /\ old \in Int
  BY GainTypes, GainTypesNext
<1>2. DOMAIN escrow' = 1..n /\ new \in Int
  <2>1. DOMAIN escrow' = 1..n
    BY DEF ChainTypeOK
  <2> QED BY <1>1, <2>1, GainTypesNext
<1>3. \A i \in 1..n : i # id => G[i] = H[i]
  BY <1>1 DEF Gains, Gain, HeldFor
<1>4. /\ H[id] = IF escrow[id].asset = asset THEN old ELSE 0
      /\ G[id] = IF escrow[id].asset = asset THEN new ELSE 0
  BY <1>1 DEF Gains
<1>5. balance[w][asset] = Start(w) + SumTo(H, n)
  BY DEF BalancesAddUp
<1>6. balance'[w][asset] = balance[w][asset]
          + IF asset = escrow[id].asset THEN new - old ELSE 0
  OBVIOUS
<1> HIDE DEF n, H, G, old, new
<1>7. SumTo(G, n) = SumTo(H, n) - H[id] + G[id]
  BY <1>1, <1>3, SumUpdate
<1>8. SumTo(H, n) \in Int /\ Start(w) \in Int
  BY <1>1, SumType, EscrowConstants DEF Start
<1>9. balance'[w][asset] = Start(w) + SumTo(G, n)
  <2>1. CASE escrow[id].asset = asset
    BY <1>1, <1>2, <1>4, <1>5, <1>6, <1>7, <1>8, <2>1
  <2>2. CASE escrow[id].asset # asset
    BY <1>1, <1>2, <1>4, <1>5, <1>6, <1>7, <1>8, <2>2, SMTT(30)
  <2> QED BY <2>1, <2>2
<1> QED BY <1>9 DEF G, n

\* A step that opens an escrow, and takes what it costs.
LEMMA BalancesOnCreate ==
    ASSUME ChainTypeOK, ChainTypeOK', Traces, Traces', BalancesAddUp,
           NEW id, id = nextEscrowId, nextEscrowId' = nextEscrowId + 1,
           \A i \in Ids : /\ escrow'[i] = escrow[i]
                          /\ Earned(i)' = Earned(i),
           \A w \in Address, asset \in Asset :
               balance'[w][asset] = balance[w][asset]
                   + IF asset = escrow'[id].asset
                     THEN Gain(w, id)' ELSE 0
    PROVE  BalancesAddUp'
<1> SUFFICES ASSUME NEW w \in Address, NEW asset \in Asset
             PROVE  balance'[w][asset] =
                        Start(w) + SumTo(Gains(w, asset)', nextEscrowId' - 1)
  BY DEF BalancesAddUp
<1> DEFINE n == nextEscrowId - 1
           H == Gains(w, asset)
           G == Gains(w, asset)'
           new == Gain(w, id)'
<1>1. /\ n \in Nat /\ Ids = 1..n /\ H \in [1..n -> Int]
      /\ balance[w][asset] \in Nat
  BY GainTypes
<1>2. /\ nextEscrowId' - 1 = n + 1 /\ id = n + 1
      /\ id \in 1..(nextEscrowId' - 1)
  BY ReputationConstants DEF ChainTypeOK
<1>3. G \in [1..(n + 1) -> Int] /\ new \in Int
  <2>1. DOMAIN escrow' = 1..(nextEscrowId' - 1)
    BY DEF ChainTypeOK
  <2>2. id \in DOMAIN escrow'
    BY <1>2, <2>1
  <2>3. G \in [1..(nextEscrowId' - 1) -> Int] /\ new \in Int
    BY <2>2, GainTypesNext
  <2> HIDE DEF G, new
  <2> QED BY <1>2, <2>3
<1>4. \A i \in 1..n : G[i] = H[i]
  <2>1. \A i \in 1..n : i \in 1..(nextEscrowId' - 1) /\ i \in 1..(nextEscrowId - 1)
    BY <1>1, <1>2
  <2> QED BY <1>1, <2>1 DEF Gains, Gain, HeldFor
<1>5. G[id] = IF escrow'[id].asset = asset THEN new ELSE 0
  BY <1>2 DEF Gains
<1>6. balance[w][asset] = Start(w) + SumTo(H, n)
  BY DEF BalancesAddUp
<1>7. balance'[w][asset] = balance[w][asset]
          + IF asset = escrow'[id].asset THEN new ELSE 0
  OBVIOUS
<1> HIDE DEF n, H, G, new
<1>8. SumTo(G, n + 1) = SumTo(H, n) + G[n + 1]
  BY <1>1, <1>3, <1>4, SumExtend
<1>9. SumTo(H, n) \in Int /\ Start(w) \in Int
  BY <1>1, SumType, EscrowConstants DEF Start
<1>10. balance'[w][asset] = Start(w) + SumTo(G, n + 1)
  BY <1>1, <1>2, <1>3, <1>5, <1>6, <1>7, <1>8, <1>9
<1> QED BY <1>2, <1>10 DEF G

\* What a new status of an escrow means for a balance, when its money is paid
\* by the client or goes back.
HeldIn(id, s) == IF s \in Holding THEN escrow[id].amount ELSE 0

PaidOrBack(w, id, s) ==
    IF w = escrow[id].client THEN HeldFor(id) - HeldIn(id, s)
    ELSE IF w = EscrowAddress THEN HeldIn(id, s) - HeldFor(id) ELSE 0

\* A status is set, and the client pays or gets back what the escrow holds.
LEMMA BalancesOnStatus ==
    ASSUME ChainTypeOK, ChainTypeOK', Traces, Traces', BalancesAddUp,
           NEW id \in Ids, NEW s, SetStatus(id, s),
           UNCHANGED <<nextEscrowId, authorized, completions, resolved>>,
           escrow[id].status \notin Final,
           \A w \in Address, a \in Asset :
               balance'[w][a] = balance[w][a]
                   + IF a = escrow[id].asset THEN PaidOrBack(w, id, s) ELSE 0
    PROVE  BalancesAddUp'
<1>1. /\ DOMAIN escrow' = Ids
      /\ \A i \in Ids : i # id => escrow'[i] = escrow[i]
      /\ escrow'[id].status = s /\ escrow'[id].client = escrow[id].client
      /\ escrow'[id].freelancer = escrow[id].freelancer
      /\ escrow'[id].asset = escrow[id].asset
      /\ escrow'[id].amount = escrow[id].amount
  BY SetStatusEffect
<1>2. \A i \in Ids : Earned(i)' = Earned(i)
  BY <1>1, EarnedStays DEF Approved, has_completion
<1>3. /\ Earned(id) = 0 /\ Earned(id)' = 0 /\ escrow[id].amount \in Nat
      /\ escrow[id].client \in Account
  <2>1. escrow[id] \in Escrow
    BY DEF ChainTypeOK, Ids
  <2> QED BY <1>2, <2>1, EarnedIs, EscrowAmount DEF EarnedAsRecorded, Escrow
<1>4. /\ HeldFor(id) \in Nat /\ HeldIn(id, s) \in Nat
      /\ HeldFor(id)' = HeldIn(id, s)
  BY <1>1, <1>3 DEF HeldFor, HeldIn
<1> DEFINE before == HeldFor(id)
           after == HeldFor(id)'
<1>5. ASSUME NEW w \in Address
      PROVE  Gain(w, id)' - Gain(w, id) = PaidOrBack(w, id, s)
  <2>1. /\ Gain(w, id) = IF w = escrow[id].client THEN -(before + 0)
                         ELSE (IF w = EscrowAddress THEN before ELSE 0) + 0
        /\ Gain(w, id)' = IF w = escrow[id].client THEN -(after + 0)
                          ELSE (IF w = EscrowAddress THEN after ELSE 0) + 0
    BY <1>1, <1>3 DEF Gain
  <2>2. /\ before \in Nat /\ after \in Nat
        /\ PaidOrBack(w, id, s) =
               IF w = escrow[id].client THEN before - after
               ELSE IF w = EscrowAddress THEN after - before ELSE 0
    BY <1>4 DEF PaidOrBack
  <2> HIDE DEF before, after
  <2> QED BY <2>1, <2>2
<1>6. \A w \in Address, a \in Asset :
          balance'[w][a] = balance[w][a]
              + IF a = escrow[id].asset THEN Gain(w, id)' - Gain(w, id) ELSE 0
  BY <1>5
<1> QED BY <1>1, <1>2, <1>6, BalancesOnUpdate

LEMMA BalancesOnApproval ==
    ASSUME ChainTypeOK, ChainTypeOK', Traces, Traces', PartiesAreDistinct,
           BalancesAddUp, NEW client \in Account, NEW id \in Ids,
           NEW rating \in Ratings, ApproveAndRelease(client, id, rating)
    PROVE  BalancesAddUp'
<1> DEFINE e == escrow[id]
<1>1. /\ SetStatus(id, "Released") /\ e.status = "Submitted"
      /\ e.freelancer # NoAddress
      /\ Transfer(EscrowAddress, e.freelancer, e.asset, e.amount)
      /\ DOMAIN completions' = DOMAIN completions \cup {id}
      /\ UNCHANGED <<nextEscrowId, resolved, authorized>>
      /\ authorized = EscrowAddress
  BY DEF ApproveAndRelease, RecordCompletion
<1>2. /\ DOMAIN escrow' = Ids
      /\ \A i \in Ids : i # id => escrow'[i] = escrow[i]
      /\ escrow'[id].status = "Released" /\ escrow'[id].client = e.client
      /\ escrow'[id].freelancer = e.freelancer
      /\ escrow'[id].asset = e.asset /\ escrow'[id].amount = e.amount
  BY <1>1, SetStatusEffect
<1>3. \A i \in Ids : i # id => Earned(i)' = Earned(i)
  <2>1. \A i \in Ids : i # id => (Approved(i)' <=> Approved(i))
    BY <1>1 DEF Approved, has_completion
  <2> QED BY <1>1, <1>2, <2>1, EarnedStays
<1>4. /\ Earned(id) = 0 /\ Earned(id)' = e.amount /\ e.amount \in Nat
      /\ e.freelancer \in Address /\ e.client \in Account /\ e.asset \in Asset
      /\ e.freelancer # e.client
  <2>1. e \in Escrow
    BY DEF ChainTypeOK, Ids
  <2>2. Earned(id) = 0
    BY <1>1, EarnedIs DEF EarnedAsRecorded, Final
  <2>3. Earned(id)' = e.amount
    BY <1>1, <1>2, EarnedIsNext DEF EarnedAsRecorded, Approved, has_completion
  <2> QED BY <1>1, <2>1, <2>2, <2>3, EscrowAmount DEF Escrow, PartiesAreDistinct
<1>5. HeldFor(id) = e.amount /\ HeldFor(id)' = 0
  BY <1>1, <1>2 DEF HeldFor, Holding
<1>6. \A w \in Address, a \in Asset :
          balance'[w][a] = balance[w][a]
              - (IF w = EscrowAddress /\ a = e.asset THEN e.amount ELSE 0)
              + (IF w = e.freelancer /\ a = e.asset THEN e.amount ELSE 0)
  BY <1>1, <1>4, EscrowConstants, TransferEffect
<1>7. \A w \in Address, a \in Asset : balance[w][a] \in Nat
  BY DEF ChainTypeOK
<1>8. ASSUME NEW w \in Address
      PROVE  Gain(w, id)' - Gain(w, id) =
                 (IF w = e.freelancer THEN e.amount ELSE 0)
                 - (IF w = EscrowAddress THEN e.amount ELSE 0)
  <2>1. e.client # EscrowAddress
    BY <1>4, EscrowConstants
  <2>2. /\ Gain(w, id) = IF w = e.client THEN -(e.amount + 0)
                         ELSE (IF w = EscrowAddress THEN e.amount ELSE 0) + 0
        /\ Gain(w, id)' = IF w = e.client THEN -(0 + e.amount)
                          ELSE (IF w = EscrowAddress THEN 0 ELSE 0)
                               + (IF w = e.freelancer THEN e.amount ELSE 0)
    BY <1>2, <1>4, <1>5 DEF Gain
  <2> HIDE DEF e
  <2> QED BY <1>4, <2>1, <2>2
<1>9. ASSUME NEW w \in Address, NEW a \in Asset
      PROVE  balance'[w][a] = balance[w][a]
                 + IF a = e.asset THEN Gain(w, id)' - Gain(w, id) ELSE 0
  <2> DEFINE gain == Gain(w, id)' - Gain(w, id)
  <2>1. /\ gain = (IF w = e.freelancer THEN e.amount ELSE 0)
                  - (IF w = EscrowAddress THEN e.amount ELSE 0)
        /\ balance[w][a] \in Nat /\ e.amount \in Nat
    BY <1>4, <1>7, <1>8
  <2>2. balance'[w][a] = balance[w][a]
            - (IF w = EscrowAddress /\ a = e.asset THEN e.amount ELSE 0)
            + (IF w = e.freelancer /\ a = e.asset THEN e.amount ELSE 0)
    BY <1>6
  <2> HIDE DEF gain, e
  <2> QED BY <2>1, <2>2 DEF gain
<1> HIDE DEF e
<1> QED BY <1>1, <1>2, <1>3, <1>9, BalancesOnUpdate DEF e

LEMMA BalancesOnResolution ==
    ASSUME ChainTypeOK, ChainTypeOK', Traces, Traces', PartiesAreDistinct,
           BalancesAddUp, NEW admin \in Account, NEW id \in Ids,
           NEW share \in Shares, ResolveDispute(admin, id, share)
    PROVE  BalancesAddUp'
<1> DEFINE e == escrow[id]
           toFree == FreelancerAmount(e.amount, share)
           final == IF share = 0 THEN "Cancelled" ELSE "Released"
           new == [escrow_id |-> id, actor |-> admin, share |-> share,
                   status |-> final, freelancer_amount |-> toFree,
                   client_amount |-> e.amount - toFree]
<1>1. /\ SetStatus(id, final) /\ e.status = "Disputed"
      /\ e.freelancer # NoAddress /\ resolved' = resolved \cup {new}
      /\ UNCHANGED <<nextEscrowId, authorized, completions>>
  BY DEF ResolveDispute, Resolvable, repVars
<1>2. /\ DOMAIN escrow' = Ids
      /\ \A i \in Ids : i # id => escrow'[i] = escrow[i]
      /\ escrow'[id].status = final /\ escrow'[id].client = e.client
      /\ escrow'[id].freelancer = e.freelancer
      /\ escrow'[id].asset = e.asset /\ escrow'[id].amount = e.amount
  BY <1>1, SetStatusEffect
<1>3. new.escrow_id = id /\ new.freelancer_amount = toFree /\ final \notin Holding
  BY DEF Holding
<1>4. /\ \A w \in Address, a \in Asset :
             balance'[w][a] = balance[w][a]
                 - (IF w = EscrowAddress /\ a = e.asset THEN e.amount ELSE 0)
                 + (IF w = e.freelancer /\ a = e.asset THEN toFree ELSE 0)
                 + (IF w = e.client /\ a = e.asset THEN e.amount - toFree ELSE 0)
      /\ e.client \in Account /\ e.freelancer # e.client /\ e.amount \in Nat
  <2>1. e \in Escrow
    BY DEF ChainTypeOK, Ids
  <2> QED BY <1>1, <2>1, ResolutionReaches, EscrowAmount DEF Escrow, PartiesAreDistinct
<1> HIDE DEF toFree, final, new
<1>5. \A i \in Ids : i # id => Earned(i)' = Earned(i)
  <2>1. \A i \in Ids : i # id =>
            \A r : r.escrow_id = i => (r \in resolved' <=> r \in resolved)
    BY <1>1, <1>3
  <2> QED BY <1>1, <1>2, <2>1, EarnedStays DEF Approved, has_completion
<1>6. Earned(id) = 0 /\ Earned(id)' = toFree /\ toFree \in Nat
  <2>1. Earned(id) = 0
    BY <1>1, EarnedIs DEF EarnedAsRecorded, Final
  <2>2. new \in resolved' /\ EarnedAsRecorded(id)'
    BY <1>1, <1>2, EarnedIsNext
  <2>3. Earned(id)' = toFree /\ Earned(id)' \in Nat
    BY <1>3, <2>2 DEF EarnedAsRecorded
  <2> QED BY <2>1, <2>3
<1>7. HeldFor(id) = e.amount /\ HeldFor(id)' = 0
  BY <1>1, <1>2, <1>3 DEF HeldFor, Holding
<1>8. ASSUME NEW w \in Address
      PROVE  Gain(w, id)' - Gain(w, id) =
                 (IF w = e.freelancer THEN toFree ELSE 0)
                 + (IF w = e.client THEN e.amount - toFree ELSE 0)
                 - (IF w = EscrowAddress THEN e.amount ELSE 0)
  <2>1. e.client # EscrowAddress
    BY <1>4, EscrowConstants
  <2>2. /\ Gain(w, id) = IF w = e.client THEN -(e.amount + 0)
                         ELSE (IF w = EscrowAddress THEN e.amount ELSE 0) + 0
        /\ Gain(w, id)' = IF w = e.client THEN -(0 + toFree)
                          ELSE (IF w = EscrowAddress THEN 0 ELSE 0)
                               + (IF w = e.freelancer THEN toFree ELSE 0)
    BY <1>2, <1>4, <1>6, <1>7 DEF Gain
  <2>3. e.amount \in Nat /\ toFree \in Nat /\ e.freelancer # e.client
    BY <1>4, <1>6
  <2> HIDE DEF e
  <2> QED BY <2>1, <2>2, <2>3
<1>9. ASSUME NEW w \in Address, NEW a \in Asset
      PROVE  balance'[w][a] = balance[w][a]
                 + IF a = e.asset THEN Gain(w, id)' - Gain(w, id) ELSE 0
  <2> DEFINE gain == Gain(w, id)' - Gain(w, id)
  <2>1. /\ gain = (IF w = e.freelancer THEN toFree ELSE 0)
                  + (IF w = e.client THEN e.amount - toFree ELSE 0)
                  - (IF w = EscrowAddress THEN e.amount ELSE 0)
        /\ balance[w][a] \in Nat /\ e.amount \in Nat /\ toFree \in Nat
    BY <1>4, <1>6, <1>8 DEF ChainTypeOK
  <2>2. balance'[w][a] = balance[w][a]
            - (IF w = EscrowAddress /\ a = e.asset THEN e.amount ELSE 0)
            + (IF w = e.freelancer /\ a = e.asset THEN toFree ELSE 0)
            + (IF w = e.client /\ a = e.asset THEN e.amount - toFree ELSE 0)
    BY <1>4
  <2> HIDE DEF gain, e
  <2> QED BY <2>1, <2>2 DEF gain
<1> HIDE DEF e
<1> QED BY <1>1, <1>2, <1>5, <1>9, BalancesOnUpdate DEF e

\* A freelancer who comes late has earned nothing yet.
LEMMA BalancesOnAssignment ==
    ASSUME ChainTypeOK, ChainTypeOK', Traces, Traces', BalancesAddUp,
           NEW client \in Account, NEW f \in Address, NEW id \in Ids,
           AssignFreelancer(client, id, f)
    PROVE  BalancesAddUp'
<1>1. /\ DOMAIN escrow' = Ids
      /\ \A i \in Ids : i # id => escrow'[i] = escrow[i]
      /\ escrow'[id].client = escrow[id].client
      /\ escrow'[id].status = escrow[id].status
      /\ escrow[id].status \in {"Created", "Funded"}
      /\ UNCHANGED <<authorized, completions, resolved>>
  BY AssignEffect DEF AssignFreelancer
<1>2. /\ escrow'[id].asset = escrow[id].asset
      /\ escrow'[id].amount = escrow[id].amount
      /\ UNCHANGED <<nextEscrowId, balance>>
  BY DEF AssignFreelancer, ChainTypeOK, Escrow, Ids
<1>3. \A i \in Ids : Earned(i)' = Earned(i)
  BY <1>1, <1>2, EarnedStays DEF Approved, has_completion
<1>4. Earned(id) = 0
  BY <1>1, EarnedIs DEF EarnedAsRecorded, Final
<1>5. ASSUME NEW w \in Address
      PROVE  Gain(w, id)' = Gain(w, id)
  BY <1>1, <1>2, <1>3, <1>4 DEF Gain, HeldFor
<1>6. \A w \in Address, a \in Asset :
          /\ balance[w][a] \in Nat /\ Gain(w, id) \in Int
          /\ balance'[w][a] = balance[w][a]
  BY <1>2, GainTypes
<1>7. \A w \in Address, a \in Asset :
          balance'[w][a] = balance[w][a]
              + IF a = escrow[id].asset THEN Gain(w, id)' - Gain(w, id) ELSE 0
  BY <1>5, <1>6
<1> QED BY <1>1, <1>2, <1>3, <1>7, BalancesOnUpdate

LEMMA BalancesOnOpening ==
    ASSUME ChainTypeOK, ChainTypeOK', Traces, Traces', BalancesAddUp,
           NEW client \in Account, NEW f, NEW asset \in Asset,
           NEW amount \in Amounts, NEW status \in {"Created", "Funded"},
           create_escrow_internal(client, f, asset, amount, status),
           UNCHANGED <<authorized, completions, resolved>>,
           \/ status = "Created" /\ UNCHANGED balance
           \/ status = "Funded" /\ Transfer(client, EscrowAddress, asset, amount)
    PROVE  BalancesAddUp'
<1>1. PICK id \in Nat : id = nextEscrowId
  BY DEF ChainTypeOK
<1>2. /\ DOMAIN escrow' = Ids \cup {id} /\ id \notin Ids
      /\ \A i \in Ids : escrow'[i] = escrow[i]
      /\ escrow'[id] = [client |-> client, freelancer |-> f, asset |-> asset,
                        amount |-> amount, status |-> status]
  BY <1>1, CreateEffect
<1>3. /\ nextEscrowId' = nextEscrowId + 1 /\ amount \in Nat
      /\ client \in Address /\ EscrowAddress \in Address /\ client # EscrowAddress
  BY ReputationConstants, EscrowConstants DEF create_escrow_internal, validate_amount
<1>4. \A i \in Ids : Earned(i)' = Earned(i)
  BY <1>2, EarnedStays DEF Approved, has_completion
<1>5. Earned(id)' = 0
  BY <1>2, EarnedIsNext DEF EarnedAsRecorded, Final
<1>6. ASSUME NEW w \in Address
      PROVE  Gain(w, id)' = IF status # "Funded" THEN 0
                            ELSE IF w = client THEN -amount
                            ELSE IF w = EscrowAddress THEN amount ELSE 0
  <2>1. HeldFor(id)' = IF status = "Funded" THEN amount ELSE 0
    BY <1>2 DEF HeldFor, Holding
  <2>2. escrow'[id].client = client /\ escrow'[id].freelancer = f
    BY <1>2
  <2> QED BY <1>3, <1>5, <2>1, <2>2 DEF Gain
<1>7. ASSUME NEW w \in Address, NEW a \in Asset
      PROVE  balance'[w][a] = balance[w][a]
                 + IF a = asset
                   THEN IF status # "Funded" THEN 0
                        ELSE IF w = client THEN -amount
                        ELSE IF w = EscrowAddress THEN amount ELSE 0
                   ELSE 0
  <2>1. balance[w][a] \in Nat
    BY GainTypes
  <2>2. CASE status = "Created"
    BY <2>1, <2>2
  <2>3. CASE status = "Funded"
    <3>1. balance'[w][a] = balance[w][a]
              - (IF w = client /\ a = asset THEN amount ELSE 0)
              + (IF w = EscrowAddress /\ a = asset THEN amount ELSE 0)
      BY <1>3, <2>3, TransferEffect
    <3> QED BY <1>3, <2>1, <2>3, <3>1
  <2> QED BY <2>2, <2>3
<1>8. \A w \in Address, a \in Asset :
          balance'[w][a] = balance[w][a]
              + IF a = escrow'[id].asset THEN Gain(w, id)' ELSE 0
  <2>1. escrow'[id].asset = asset
    BY <1>2
  <2> QED BY <1>6, <1>7, <2>1
<1> QED BY <1>1, <1>2, <1>3, <1>4, <1>8, BalancesOnCreate

\* The steps that set a status, with the payment that goes with each.
LEMMA BalancesOnMove ==
    ASSUME ChainTypeOK, ChainTypeOK', Traces, Traces', BalancesAddUp,
           NEW w \in Account, NEW id \in Ids,
           \/ FundEscrow(w, id) \/ SubmitWork(w, id)
           \/ CancelEscrow(w, id) \/ MarkDisputed(w, id)
    PROVE  BalancesAddUp'
<1> DEFINE e == escrow[id]
<1>1. /\ e.amount \in Nat /\ e.asset \in Asset /\ e.client \in Account
      /\ e.client # EscrowAddress /\ EscrowAddress \in Address
      /\ e.client \in Address
  BY EscrowAmount, EscrowConstants DEF ChainTypeOK, Ids, Escrow
<1>2. \A v \in Address, a \in Asset : balance[v][a] \in Nat
  BY GainTypes
<1>3. /\ HeldFor(id) = HeldIn(id, e.status)
      /\ HeldIn(id, "Created") = 0 /\ HeldIn(id, "Cancelled") = 0
      /\ HeldIn(id, "Funded") = e.amount /\ HeldIn(id, "Submitted") = e.amount
      /\ HeldIn(id, "Disputed") = e.amount
  BY DEF Holding, HeldIn, HeldFor
<1>5. CASE FundEscrow(w, id)
  <2>1. /\ SetStatus(id, "Funded") /\ e.status = "Created" /\ e.client = w
        /\ Transfer(w, EscrowAddress, e.asset, e.amount)
        /\ UNCHANGED <<nextEscrowId, authorized, completions, resolved>>
    BY <1>5 DEF FundEscrow, repVars
  <2>2. ASSUME NEW v \in Address, NEW a \in Asset
        PROVE  balance'[v][a] = balance[v][a]
                   + IF a = e.asset THEN PaidOrBack(v, id, "Funded") ELSE 0
    <3>1. balance'[v][a] = balance[v][a]
              - (IF v = e.client /\ a = e.asset THEN e.amount ELSE 0)
              + (IF v = EscrowAddress /\ a = e.asset THEN e.amount ELSE 0)
      BY <1>1, <2>1, TransferEffect
    <3>2. PaidOrBack(v, id, "Funded") =
              IF v = e.client THEN 0 - e.amount
              ELSE IF v = EscrowAddress THEN e.amount - 0 ELSE 0
      BY <1>3, <2>1 DEF PaidOrBack
    <3>3. balance[v][a] \in Nat
      BY <1>2
    <3> HIDE DEF e
    <3> QED BY <1>1, <3>1, <3>2, <3>3
  <2> QED BY <2>1, <2>2, BalancesOnStatus DEF Final
<1>6. CASE SubmitWork(w, id) \/ MarkDisputed(w, id)
  <2>1. PICK s \in {"Submitted", "Disputed"} :
            /\ SetStatus(id, s) /\ e.status \in {"Funded", "Submitted"}
            /\ UNCHANGED <<nextEscrowId, authorized, completions, resolved, balance>>
    BY <1>6 DEF SubmitWork, MarkDisputed, MayMarkDisputed, repVars
  <2>2. \A v \in Address : PaidOrBack(v, id, s) = 0
    BY <1>1, <1>3, <2>1 DEF PaidOrBack
  <2>3. \A v \in Address, a \in Asset :
            balance'[v][a] = balance[v][a]
                + IF a = e.asset THEN PaidOrBack(v, id, s) ELSE 0
    BY <1>2, <2>1, <2>2
  <2> QED BY <2>1, <2>3, BalancesOnStatus DEF Final
<1>7. CASE CancelEscrow(w, id)
  <2>1. /\ SetStatus(id, "Cancelled") /\ e.client = w
        /\ \/ e.status = "Created" /\ UNCHANGED balance
           \/ e.status = "Funded" /\ Transfer(EscrowAddress, w, e.asset, e.amount)
        /\ UNCHANGED <<nextEscrowId, authorized, completions, resolved>>
    BY <1>7 DEF CancelEscrow, MayCancel, repVars
  <2>2. ASSUME NEW v \in Address, NEW a \in Asset
        PROVE  balance'[v][a] = balance[v][a]
                   + IF a = e.asset THEN PaidOrBack(v, id, "Cancelled") ELSE 0
    <3>0. balance[v][a] \in Nat
      BY <1>2
    <3>1. CASE e.status = "Created" /\ UNCHANGED balance
      <4>1. PaidOrBack(v, id, "Cancelled") = 0
        BY <1>1, <1>3, <3>1 DEF PaidOrBack
      <4> QED BY <3>0, <3>1, <4>1
    <3>2. CASE e.status = "Funded" /\ Transfer(EscrowAddress, w, e.asset, e.amount)
      <4>1. balance'[v][a] = balance[v][a]
                - (IF v = EscrowAddress /\ a = e.asset THEN e.amount ELSE 0)
                + (IF v = e.client /\ a = e.asset THEN e.amount ELSE 0)
        BY <1>1, <2>1, <3>2, TransferEffect
      <4>2. PaidOrBack(v, id, "Cancelled") =
                IF v = e.client THEN e.amount - 0
                ELSE IF v = EscrowAddress THEN 0 - e.amount ELSE 0
        BY <1>3, <3>2 DEF PaidOrBack
      <4> HIDE DEF e
      <4> QED BY <1>1, <3>0, <4>1, <4>2
    <3> QED BY <2>1, <3>1, <3>2
  <2> QED BY <2>1, <2>2, BalancesOnStatus DEF Final
<1> QED BY <1>5, <1>6, <1>7

\* A step that leaves the escrows, the balances and the traces alone.
LEMMA BalancesStay ==
    ASSUME ChainTypeOK, ChainTypeOK', Traces, Traces', BalancesAddUp,
           UNCHANGED <<escrow, nextEscrowId, balance>>, SameTraces
    PROVE  BalancesAddUp'
<1>1. \A id \in Ids : Earned(id)' = Earned(id)
  BY EarnedStays DEF SameTraces, Ids
<1>2. \A w \in Address, asset \in Asset : Gains(w, asset)' = Gains(w, asset)
  <2>1. Ids = 1..(nextEscrowId - 1)
    BY DEF ChainTypeOK, Ids
  <2> QED BY <1>1, <2>1 DEF Gains, Gain, HeldFor
<1> QED BY <1>2 DEF BalancesAddUp

LEMMA BalancesStep ==
    ASSUME ChainTypeOK, ChainTypeOK', Traces, Traces', PartiesAreDistinct,
           ObeysBeforeRecords, BalancesAddUp, [Next]_vars
    PROVE  BalancesAddUp'
<1>1. CASE UNCHANGED <<escrow, nextEscrowId, balance>> /\ SameTraces
  BY <1>1, BalancesStay
<1>2. ASSUME NEW w \in Account, NEW asset \in Asset, NEW amount \in Amounts
      PROVE  /\ \A f \in Address :
                    CreateEscrow(w, f, asset, amount) => BalancesAddUp'
             /\ CreateOpenEscrow(w, asset, amount) => BalancesAddUp'
             /\ CreateAndFundOpenEscrow(w, asset, amount) => BalancesAddUp'
  BY BalancesOnOpening
     DEF CreateEscrow, CreateOpenEscrow, CreateAndFundOpenEscrow, repVars
<1>3. \/ UNCHANGED <<escrow, nextEscrowId, balance>> /\ SameTraces
      \/ \E w \in Account, asset \in Asset, amount \in Amounts :
             \/ \E f \in Address : CreateEscrow(w, f, asset, amount)
             \/ CreateOpenEscrow(w, asset, amount)
             \/ CreateAndFundOpenEscrow(w, asset, amount)
      \/ \E w \in Account, id \in Ids :
             \/ FundEscrow(w, id) \/ SubmitWork(w, id)
             \/ CancelEscrow(w, id) \/ MarkDisputed(w, id)
             \/ \E f \in Address : AssignFreelancer(w, id, f)
             \/ \E rating \in Ratings : ApproveAndRelease(w, id, rating)
             \/ \E share \in Shares : ResolveDispute(w, id, share)
  BY StepsInGroups
<1> QED BY <1>1, <1>2, <1>3, BalancesOnMove, BalancesOnAssignment,
           BalancesOnApproval, BalancesOnResolution

\* Every address has exactly what the escrows cost it or earned it.
LEMMA BalancesCorrect == Spec => []BalancesAddUp
<1>1. Init => BalancesAddUp
  <2> SUFFICES ASSUME Init, NEW w \in Address, NEW asset \in Asset
               PROVE  balance[w][asset] =
                          Start(w) + SumTo(Gains(w, asset), nextEscrowId - 1)
    BY DEF BalancesAddUp
  <2>1. nextEscrowId - 1 = 0 /\ 1..0 = {} /\ 0 \in Nat
    BY DEF Init
  <2>2. Gains(w, asset) = [i \in 1..0 |-> 0]
    BY <2>1 DEF Gains
  <2>3. SumTo([i \in 1..0 |-> 0], 0) = 0
    BY <2>1, SumZero
  <2>4. balance[w][asset] = Start(w) /\ Start(w) \in Int
    BY EscrowConstants DEF Init, Start
  <2> QED BY <2>1, <2>2, <2>3, <2>4
<1>2. /\ ChainTypeOK /\ ChainTypeOK' /\ Traces /\ Traces' /\ PartiesAreDistinct
      /\ ObeysBeforeRecords /\ BalancesAddUp /\ [Next]_vars
      => BalancesAddUp'
  BY BalancesStep
<1> QED BY <1>1, <1>2, ChainTypeCorrect, TracesCorrect, PartiesCorrect,
           NoRecordsBefore, PTL DEF Spec

LEMMA HeldType ==
    ASSUME ChainTypeOK, NEW asset \in Asset
    PROVE  /\ nextEscrowId - 1 \in Nat
           /\ Ids = 1..(nextEscrowId - 1)
           /\ Held(asset) \in [1..(nextEscrowId - 1) -> Nat]
           /\ balance[EscrowAddress][asset] \in Nat
<1>1. nextEscrowId - 1 \in Nat /\ Ids = 1..(nextEscrowId - 1)
  BY ReputationConstants DEF ChainTypeOK, Ids
<1>2. ASSUME NEW id \in 1..(nextEscrowId - 1)
      PROVE  escrow[id].amount \in Nat
  <2>1. escrow[id] \in Escrow
    BY DEF ChainTypeOK
  <2>2. QED
    BY <2>1, EscrowAmount
<1>3. balance[EscrowAddress][asset] \in Nat
  BY EscrowConstants DEF ChainTypeOK
<1>4. QED
  BY <1>1, <1>2, <1>3 DEF Held, HeldFor

\* Solvency: the contract owns at least what it holds for its escrows, and
\* exactly that where no escrow names the contract itself as its freelancer,
\* for any number of wallets, tokens and escrows.
THEOREM SolvencyCorrect == Spec => []Solvency
<1>1. ChainTypeOK /\ Traces /\ BalancesAddUp => Solvency
  <2> SUFFICES ASSUME ChainTypeOK, Traces, BalancesAddUp, NEW asset \in Asset
               PROVE  /\ balance[EscrowAddress][asset]
                             >= SumTo(Held(asset), nextEscrowId - 1)
                      /\ (\A id \in Ids : escrow[id].asset = asset =>
                                 escrow[id].freelancer # EscrowAddress)
                             => balance[EscrowAddress][asset]
                                    = SumTo(Held(asset), nextEscrowId - 1)
    BY DEF Solvency
  <2> DEFINE n == nextEscrowId - 1
             H == Held(asset)
             G == Gains(EscrowAddress, asset)
  <2>1. /\ n \in Nat /\ Ids = 1..n /\ H \in [1..n -> Int]
        /\ EscrowAddress \in Address /\ G \in [1..n -> Int]
    BY HeldType, GainTypes, EscrowConstants
  <2>2. balance[EscrowAddress][asset] = SumTo(G, n)
    <3>1. SumTo(G, n) \in Int /\ Start(EscrowAddress) = 0
      BY <2>1, SumType DEF Start
    <3> QED BY <2>1, <3>1 DEF BalancesAddUp
  <2>3. ASSUME NEW id \in 1..n
        PROVE  /\ H[id] <= G[id]
               /\ (escrow[id].asset = asset => escrow[id].freelancer # EscrowAddress)
                      => H[id] = G[id]
    <3>1. /\ escrow[id] \in Escrow /\ id \in Ids
          /\ HeldFor(id) \in Nat /\ Earned(id) \in Nat
      BY <2>1, EarnedIs, EscrowAmount DEF ChainTypeOK, HeldFor, EarnedAsRecorded
    <3>2. escrow[id].client # EscrowAddress
      BY <3>1, EscrowConstants DEF Escrow
    <3>3. Gain(EscrowAddress, id) = HeldFor(id)
              + IF escrow[id].freelancer = EscrowAddress THEN Earned(id) ELSE 0
      BY <3>2 DEF Gain
    <3>4. /\ H[id] = IF escrow[id].asset = asset THEN HeldFor(id) ELSE 0
          /\ G[id] = IF escrow[id].asset = asset THEN Gain(EscrowAddress, id) ELSE 0
      BY DEF Held, Gains
    <3> QED BY <3>1, <3>3, <3>4
  <2>4. (\A id \in Ids : escrow[id].asset = asset =>
                 escrow[id].freelancer # EscrowAddress) => H = G
    <3>1. H = [i \in 1..n |-> H[i]] /\ G = [i \in 1..n |-> G[i]]
      BY <2>1
    <3> QED BY <2>1, <2>3, <3>1
  <2> HIDE DEF n, H, G
  <2>5. SumTo(H, n) <= SumTo(G, n)
    BY <2>1, <2>3, SumAtMost
  <2> QED BY <2>2, <2>4, <2>5, <2>1, SumType DEF n, H
<1> QED BY <1>1, ChainTypeCorrect, TracesCorrect, BalancesCorrect, PTL

\* Every token is where the records say, for any number of wallets, tokens and
\* escrows: nobody is paid what another earned, nothing is paid twice, and
\* what stays behind is what the contract was awarded itself.
THEOREM TokensAccountedFor == Spec => []EveryTokenIsAccountedFor
BY SolvencyCorrect, BalancesCorrect, PTL DEF EveryTokenIsAccountedFor

-----------------------------------------------------------------------------
(* The ways out for held money.                                             *)

\* What the conditions of cancel, mark_disputed, add_dispute_admin and
\* resolve_dispute ask of the state, whoever calls.
ExitsAreOpen ==
    \A id \in Ids : LET e == escrow[id] IN
        e.status \in Holding =>
            /\ is_initialized
            /\ balance[EscrowAddress][e.asset] >= e.amount
            /\ e.status # "Funded" => e.freelancer \in Address \ {e.client}

InitializedFirst == Ids # {} => is_initialized

LEMMA InitializedStep ==
    ASSUME InitializedFirst, ChainTypeOK, [Next]_vars
    PROVE  InitializedFirst'
<1>1. CASE is_initialized
  <2>1. \/ UNCHANGED platformAdmin
        \/ \E w \in Account : Initialize(w)
    BY DEF Next, vars, chainVars, CreateEscrow, CreateOpenEscrow,
           CreateAndFundOpenEscrow, AddAllowedAsset, RemoveAllowedAsset,
           AddDisputeAdmin, RemoveDisputeAdmin, FundEscrow, SubmitWork,
           CancelEscrow, MarkDisputed, AssignFreelancer, ApproveAndRelease,
           ResolveDispute, RecordDirectly
  <2> QED BY <1>1, <2>1 DEF InitializedFirst, is_initialized, Initialize
<1>2. CASE ~is_initialized
  <2>1. Ids = {}
    BY <1>2 DEF InitializedFirst
  <2>2. UNCHANGED escrow
    BY <1>2, <2>1
       DEF Next, vars, chainVars, Initialize, CreateEscrow, CreateOpenEscrow,
           CreateAndFundOpenEscrow, AddAllowedAsset, RemoveAllowedAsset,
           AddDisputeAdmin, RemoveDisputeAdmin,
           RecordDirectly
  <2> QED BY <2>1, <2>2 DEF InitializedFirst, Ids
<1> QED BY <1>1, <1>2

\* Money held for an escrow can be paid out of what the contract owns, and from
\* the submission on there is a freelancer to dispute with: nothing that the
\* state decides stands in the way of a refund, a dispute or its resolution.
LEMMA ExitsOpen == Spec => []ExitsAreOpen
<1>1. Init => InitializedFirst
  BY DEF Init, InitializedFirst, Ids
<1>2. Spec => []InitializedFirst
  BY <1>1, InitializedStep, ChainTypeCorrect, PTL DEF Spec
<1>3. ChainTypeOK /\ Solvency /\ PartiesAreDistinct /\ InitializedFirst => ExitsAreOpen
  <2> SUFFICES ASSUME ChainTypeOK, Solvency, PartiesAreDistinct, InitializedFirst,
                      NEW id \in Ids, escrow[id].status \in Holding
               PROVE  /\ is_initialized
                      /\ balance[EscrowAddress][escrow[id].asset] >= escrow[id].amount
                      /\ escrow[id].status # "Funded" =>
                             escrow[id].freelancer \in Address \ {escrow[id].client}
    BY DEF ExitsAreOpen
  <2> DEFINE asset == escrow[id].asset
             n == nextEscrowId - 1
  <2>1. escrow[id] \in Escrow
    BY DEF ChainTypeOK, Ids
  <2>2. asset \in Asset /\ escrow[id].amount \in Nat
    BY <2>1, EscrowAmount DEF Escrow
  <2>3. n \in Nat /\ id \in 1..n /\ Held(asset) \in [1..n -> Nat]
    BY <2>2, HeldType
  <2>4. Held(asset)[id] = escrow[id].amount
    BY <2>3 DEF Held, HeldFor
  <2>5. balance[EscrowAddress][asset] >= SumTo(Held(asset), n)
    BY <2>2 DEF Solvency
  <2>6. Held(asset)[id] <= SumTo(Held(asset), n)
    BY <2>3, SumCovers
  <2>7. balance[EscrowAddress][asset] >= escrow[id].amount
    <3>1. SumTo(Held(asset), n) \in Int /\ balance[EscrowAddress][asset] \in Nat
      BY <2>2, <2>3, HeldType, SumType
    <3> QED BY <2>2, <2>4, <2>5, <2>6, <3>1
  <2>8. escrow[id].status # "Funded" =>
            escrow[id].freelancer \in Address \ {escrow[id].client}
    BY <2>1 DEF PartiesAreDistinct, Holding, Escrow
  <2> QED BY <2>7, <2>8 DEF InitializedFirst
<1> QED BY <1>2, <1>3, ChainTypeCorrect, SolvencyCorrect, PartiesCorrect, PTL

\* A freelancer's part is a natural number, in the form the next step asks for.
LEMMA FreelancerPart ==
    \A amount, share \in Nat : share <= 10000 => FreelancerAmount(amount, share) \in Nat
<1> SUFFICES ASSUME NEW amount \in Nat, NEW share \in Nat, share <= 10000
             PROVE  FreelancerAmount(amount, share) \in Nat
  OBVIOUS
<1> QED BY SplitParts

\* Any share of a dispute, to be resolved by any wallet that is no party.
LEMMA DisputesAreResolvable ==
    ASSUME ChainTypeOK, ExitsAreOpen, NEW id \in Ids,
           escrow[id].status = "Disputed", NEW s \in Shares, s <= 10000,
           NEW w \in Account \ {escrow[id].client, escrow[id].freelancer}
    PROVE  Resolvable(w, id, s)
<1> DEFINE e == escrow[id]
           toFree == FreelancerAmount(e.amount, s)
<1>1. e.amount \in Nat /\ balance[EscrowAddress][e.asset] \in Nat
  BY EscrowAmount, EscrowConstants DEF ChainTypeOK, Ids, Escrow
<1>2. s \in Nat
  BY EscrowConstants
<1>3. toFree \in Nat
  BY <1>1, <1>2, FreelancerPart
<1>4. /\ balance[EscrowAddress][e.asset] >= e.amount
      /\ e.freelancer \in Address
  BY DEF ExitsAreOpen, Holding
<1>5. e.freelancer # NoAddress
  BY <1>4, ReputationConstants, EscrowConstants
<1> HIDE DEF toFree
<1>6. toFree + (e.amount - toFree) = e.amount
  BY <1>1, <1>3
<1> QED BY <1>4, <1>5, <1>6 DEF Resolvable, toFree

\* Held money can always leave the contract: a refund, a dispute opened by
\* either party alone and its resolution by any neutral wallet are never
\* refused for what the state is, for any number of escrows and any shares.
THEOREM MoneyHasAnExit == Spec => []HeldFundsHaveAnExit
<1>1. ChainTypeOK /\ PartiesAreDistinct /\ ExitsAreOpen => HeldFundsHaveAnExit
  <2> SUFFICES ASSUME ChainTypeOK, PartiesAreDistinct, ExitsAreOpen, NEW id \in Ids
      PROVE  LET e == escrow[id] IN
             /\ e.status = "Funded" => MayCancel(e.client, id)
             /\ e.status \in {"Funded", "Submitted"} =>
                    \/ e.status = "Funded" /\ e.freelancer = NoAddress
                    \/ \A w \in Account \cap {e.client, e.freelancer, platformAdmin} :
                           MayMarkDisputed(w, id)
             /\ e.status = "Disputed" =>
                    \A w \in Account \ {e.client, e.freelancer}, s \in Shares :
                        s <= 10000 =>
                            /\ Resolvable(w, id, s)
                            /\ is_dispute_admin(w) \/ MayAddDisputeAdmin(w)
    BY DEF HeldFundsHaveAnExit
  <2> DEFINE e == escrow[id]
  <2>1. ASSUME e.status = "Funded"
        PROVE  MayCancel(e.client, id)
    BY <2>1 DEF ExitsAreOpen, Holding, MayCancel, Covered
  <2>2. ASSUME e.status \in {"Funded", "Submitted"},
               ~ (e.status = "Funded" /\ e.freelancer = NoAddress),
               NEW w \in Account \cap {e.client, e.freelancer, platformAdmin}
        PROVE  MayMarkDisputed(w, id)
    BY <2>2 DEF PartiesAreDistinct, MayMarkDisputed
  <2>3. ASSUME e.status = "Disputed", NEW s \in Shares, s <= 10000,
               NEW w \in Account \ {e.client, e.freelancer}
        PROVE  Resolvable(w, id, s) /\ (is_dispute_admin(w) \/ MayAddDisputeAdmin(w))
    <3>1. is_initialized
      BY <2>3 DEF ExitsAreOpen, Holding
    <3>2. is_dispute_admin(w) \/ MayAddDisputeAdmin(w)
      BY <3>1 DEF is_dispute_admin, MayAddDisputeAdmin
    <3> QED BY <2>3, <3>2, DisputesAreResolvable
  <2> QED BY <2>1, <2>2, <2>3
<1> QED BY <1>1, ExitsOpen, ChainTypeCorrect, PartiesCorrect, PTL

-----------------------------------------------------------------------------
(* The contract implements Custody.                                         *)

StageOfId(id) == IF id \in Ids THEN StageOf(escrow[id].status) ELSE "none"
WorkerOf(id) == IF id \in Ids THEN escrow[id].freelancer ELSE NoAddress

StageView == [id \in 1..MaxEscrows |-> StageOfId(id)]
WorkerView == [id \in 1..MaxEscrows |-> WorkerOf(id)]

LEMMA IdsAreEscrows ==
    ASSUME ChainTypeOK
    PROVE  Ids = 1..(nextEscrowId - 1) /\ Ids \subseteq 1..MaxEscrows
BY ReputationConstants DEF ChainTypeOK, Ids

\* A step that touches one escrow changes one entry of each.
LEMMA OneEscrowMoves ==
    ASSUME NEW id \in 1..MaxEscrows, id \in DOMAIN escrow',
           \A i \in 1..MaxEscrows \ {id} :
               /\ i \in Ids <=> i \in DOMAIN escrow'
               /\ i \in Ids => escrow'[i] = escrow[i]
    PROVE  /\ StageView' = [StageView EXCEPT ![id] = StageOf(escrow'[id].status)]
           /\ WorkerView' = [WorkerView EXCEPT ![id] = escrow'[id].freelancer]
<1>1. \A i \in 1..MaxEscrows : StageView[i] = StageOfId(i) /\ WorkerView[i] = WorkerOf(i)
  BY DEF StageView, WorkerView
<1>2. \A i \in 1..MaxEscrows \ {id} :
          StageOfId(i)' = StageOfId(i) /\ WorkerOf(i)' = WorkerOf(i)
  BY DEF StageOfId, WorkerOf, Ids
<1>3. /\ StageOfId(id)' = StageOf(escrow'[id].status)
      /\ WorkerOf(id)' = escrow'[id].freelancer
  BY DEF StageOfId, WorkerOf, Ids
<1>4. StageView' = [StageView EXCEPT ![id] = StageOf(escrow'[id].status)]
  BY <1>2, <1>3 DEF StageView
<1>5. WorkerView' = [WorkerView EXCEPT ![id] = escrow'[id].freelancer]
  BY <1>2, <1>3 DEF WorkerView
<1> QED BY <1>4, <1>5

LEMMA SameEntry ==
    ASSUME NEW D, NEW f, f = [i \in D |-> f[i]], NEW d \in D
    PROVE  [f EXCEPT ![d] = f[d]] = f
OBVIOUS

\* The step of one escrow along its lifecycle, as Custody has it.
LEMMA StageStep ==
    ASSUME NEW from, NEW to, <<from, to>> \in StatusSteps
    PROVE  \/ StageOf(from) = StageOf(to)
           \/ StageOf(from) = "open" /\ StageOf(to) = "held"
           \/ StageOf(from) = "held" /\ StageOf(to) = "disputed" /\ to = "Disputed"
           \/ StageOf(from) \in {"open", "held", "disputed"} /\ StageOf(to) = "closed"
BY DEF StatusSteps, StageOf

LEMMA CustodyStep ==
    ASSUME ChainTypeOK, ChainTypeOK', PartiesAreDistinct', [Next]_vars
    PROVE  [Keeping!Next]_(<<StageView, WorkerView>>)
<1> USE DEF Keeping!Move
<1> DEFINE E == 1..MaxEscrows
<1>0. /\ Ids \subseteq E
      /\ StageView = [i \in E |-> StageView[i]] /\ WorkerView = [i \in E |-> WorkerView[i]]
  BY IdsAreEscrows DEF StageView, WorkerView
<1>1. CASE UNCHANGED escrow
  <2>1. UNCHANGED <<StageView, WorkerView>>
    BY <1>1 DEF StageView, WorkerView, StageOfId, WorkerOf, Ids
  <2> QED BY <2>1
<1>2. ASSUME NEW client, NEW f, NEW asset, NEW amount, NEW status,
             Opens(client, f, asset, amount, status),
             status = "Funded" => f = NoAddress
      PROVE  Keeping!Next
  <2> DEFINE id == nextEscrowId
  <2>1. /\ DOMAIN escrow' = Ids \cup {id} /\ id \notin Ids
        /\ \A i \in Ids : escrow'[i] = escrow[i]
        /\ escrow'[id] = [client |-> client, freelancer |-> f, asset |-> asset,
                          amount |-> amount, status |-> status]
    BY <1>2, CreateEffect DEF Opens
  <2>2. escrow'[id].status = status /\ escrow'[id].freelancer = f
    BY <2>1
  <2>3. id \in E
    BY <1>2, ReputationConstants DEF Opens, create_escrow_internal, ChainTypeOK
  <2>4. f \in Address \cup {NoAddress}
    BY <2>1, <2>2 DEF ChainTypeOK, Escrow
  <2> HIDE DEF id
  <2>5. /\ StageView' = [StageView EXCEPT ![id] = StageOf(status)]
        /\ WorkerView' = [WorkerView EXCEPT ![id] = f]
    BY <2>1, <2>3, <2>2, OneEscrowMoves
  <2>6. StageView[id] = "none"
    BY <2>1, <2>3 DEF StageView, StageOfId
  <2>7. /\ StageOf(status) \in {"open", "held"}
        /\ StageOf(status) = "held" => f = NoAddress
    BY <1>2 DEF Opens, StageOf
  <2>8. Keeping!Create(id, StageOf(status), f)
    BY <2>5, <2>6, <2>7 DEF Keeping!Create, StageView, WorkerView, StageOfId, WorkerOf
  <2> QED BY <2>3, <2>4, <2>7, <2>8 DEF Keeping!Next
\* The status of one escrow is set.
<1>3. ASSUME NEW id \in Ids, NEW status, SetStatus(id, status)
      PROVE  [Keeping!Next]_(<<StageView, WorkerView>>)
  <2> DEFINE from == StageOf(escrow[id].status)
             to   == StageOf(status)
  <2>1. /\ DOMAIN escrow' = Ids
        /\ \A i \in Ids : i # id => escrow'[i] = escrow[i]
        /\ escrow'[id].status = status
        /\ escrow'[id].freelancer = escrow[id].freelancer
    BY <1>3, SetStatusEffect
  <2>2. /\ StageView' = [StageView EXCEPT ![id] = to]
        /\ WorkerView' = [WorkerView EXCEPT ![id] = escrow[id].freelancer]
    BY <1>0, <2>1, OneEscrowMoves
  <2>3. StageView[id] = from /\ WorkerView[id] = escrow[id].freelancer /\ id \in E
    BY <1>0 DEF StageView, WorkerView, StageOfId, WorkerOf
  <2>4. UNCHANGED WorkerView
    BY <1>0, <2>2, <2>3, SameEntry
  <2>5. status = escrow[id].status \/ <<escrow[id].status, status>> \in StatusSteps
    BY <2>1, LifecycleStep DEF KeepsToLifecycle
  <2>6. status = "Disputed" => WorkerView[id] # NoAddress
    BY <2>1, <2>3 DEF PartiesAreDistinct, Ids
  <2>7. CASE from = to
    <3>1. UNCHANGED StageView
      BY <1>0, <2>2, <2>3, <2>7, SameEntry
    <3> QED BY <2>4, <3>1
  <2>8. CASE from = "open" /\ to = "held"
    <3>1. Keeping!Fund(id)
      BY <2>2, <2>3, <2>4, <2>8
         DEF Keeping!Fund, StageView, WorkerView, StageOfId, WorkerOf
    <3> QED BY <2>3, <3>1 DEF Keeping!Next
  <2>9. CASE from = "held" /\ to = "disputed" /\ status = "Disputed"
    <3>1. Keeping!Dispute(id)
      BY <2>2, <2>3, <2>4, <2>6, <2>9
         DEF Keeping!Dispute, StageView, WorkerView, StageOfId, WorkerOf
    <3> QED BY <2>3, <3>1 DEF Keeping!Next
  <2>10. CASE from \in {"open", "held", "disputed"} /\ to = "closed"
    <3>1. Keeping!Close(id)
      BY <2>2, <2>3, <2>4, <2>10
         DEF Keeping!Close, StageView, WorkerView, StageOfId, WorkerOf
    <3> QED BY <2>3, <3>1 DEF Keeping!Next
  <2> HIDE DEF from, to
  <2>11. \/ from = to
         \/ from = "open" /\ to = "held"
         \/ from = "held" /\ to = "disputed" /\ status = "Disputed"
         \/ from \in {"open", "held", "disputed"} /\ to = "closed"
    BY <2>5, StageStep DEF from, to
  <2> QED BY <2>7, <2>8, <2>9, <2>10, <2>11
<1>4. ASSUME NEW w \in Account, NEW f \in Address, NEW id \in Ids,
             AssignFreelancer(w, id, f)
      PROVE  Keeping!Next
  <2>1. /\ DOMAIN escrow' = Ids
        /\ \A i \in Ids : i # id => escrow'[i] = escrow[i]
        /\ escrow'[id].freelancer = f
        /\ escrow'[id].status = escrow[id].status
        /\ escrow[id].status \in {"Created", "Funded"}
    BY <1>4, AssignEffect
  <2>2. escrow[id].freelancer = NoAddress
    BY <1>4 DEF AssignFreelancer
  <2>3. /\ StageView' = [StageView EXCEPT ![id] = StageOf(escrow[id].status)]
        /\ WorkerView' = [WorkerView EXCEPT ![id] = f]
    BY <1>0, <2>1, OneEscrowMoves
  <2>4. /\ StageView[id] = StageOf(escrow[id].status)
        /\ WorkerView[id] = NoAddress /\ id \in E
    BY <1>0, <2>2 DEF StageView, WorkerView, StageOfId, WorkerOf
  <2>5. UNCHANGED StageView /\ StageView[id] \in {"open", "held"}
    <3>1. UNCHANGED StageView
      BY <1>0, <2>3, <2>4, SameEntry
    <3>2. StageView[id] \in {"open", "held"}
      BY <2>1, <2>4 DEF StageOf
    <3> QED BY <3>1, <3>2
  <2>6. Keeping!Assign(id, f)
    BY <2>3, <2>4, <2>5 DEF Keeping!Assign, StageView, WorkerView, StageOfId, WorkerOf
  <2> QED BY <2>4, <2>6 DEF Keeping!Next
<1>5. CASE UNCHANGED vars
  BY <1>1, <1>5 DEF vars, chainVars
<1>6. CASE Next
  <2>1. ASSUME NEW w \in Account, NEW asset \in Asset, NEW amount \in Amounts
        PROVE  /\ \A f \in Address :
                      CreateEscrow(w, f, asset, amount) => Keeping!Next
               /\ CreateOpenEscrow(w, asset, amount) => Keeping!Next
               /\ CreateAndFundOpenEscrow(w, asset, amount) => Keeping!Next
    <3>1. /\ \A f \in Address : CreateEscrow(w, f, asset, amount)
                  => Opens(w, f, asset, amount, "Created")
          /\ CreateOpenEscrow(w, asset, amount)
                  => Opens(w, NoAddress, asset, amount, "Created")
          /\ CreateAndFundOpenEscrow(w, asset, amount)
                  => Opens(w, NoAddress, asset, amount, "Funded")
      BY ReputationConstants, EscrowConstants
         DEF Opens, CreateEscrow, CreateOpenEscrow, CreateAndFundOpenEscrow, repVars
    <3> QED BY <1>2, <3>1
  <2>2. ASSUME NEW w \in Account, NEW id \in Ids,
               \/ FundEscrow(w, id) \/ SubmitWork(w, id) \/ CancelEscrow(w, id)
               \/ MarkDisputed(w, id)
               \/ \E rating \in Ratings : ApproveAndRelease(w, id, rating)
               \/ \E share \in Shares : ResolveDispute(w, id, share)
        PROVE  [Keeping!Next]_(<<StageView, WorkerView>>)
    <3>1. \E status : SetStatus(id, status)
      BY <2>2 DEF FundEscrow, SubmitWork, CancelEscrow, MarkDisputed,
                 ApproveAndRelease, ResolveDispute
    <3> QED BY <1>3, <3>1
  <2>3. ASSUME \/ \E addr \in Address : InitializeReputation(addr) /\ UNCHANGED chainVars
               \/ \E w \in Account, id \in 1..MaxEscrows, c \in Claims :
                     RecordDirectly(w, id, c)
               \/ \E w \in Account : \/ Initialize(w) \/ AddDisputeAdmin(w)
                                      \/ RemoveDisputeAdmin(w)
               \/ \E asset \in Asset :
                     AddAllowedAsset(asset) \/ RemoveAllowedAsset(asset)
        PROVE  UNCHANGED escrow
    BY <2>3 DEF chainVars, Initialize, AddDisputeAdmin, RemoveDisputeAdmin,
               AddAllowedAsset, RemoveAllowedAsset, RecordDirectly
  <2> QED BY <1>1, <1>4, <1>6, <2>1, <2>2, <2>3 DEF Next
<1> QED BY <1>5, <1>6

\* Every call of every wallet is a step of Custody or changes nothing in it:
\* the contract keeps, for each escrow, the promise that the other modules
\* rely on.
THEOREM ContractKeepsCustody == Spec => KeepsCustody
<1>1. Init => Keeping!Init
  BY DEF Init, Keeping!Init, Ids
<1>2. ChainTypeOK /\ ChainTypeOK' /\ PartiesAreDistinct' /\ [Next]_vars
      => [Keeping!Next]_(Keeping!vars)
  BY CustodyStep DEF Keeping!vars, StageView, WorkerView, StageOfId, WorkerOf
<1> QED BY <1>1, <1>2, ChainTypeCorrect, PartiesCorrect, PTL
        DEF Spec, KeepsCustody, Keeping!Spec, Keeping!Kept

-----------------------------------------------------------------------------
(***************************************************************************)
(* Cancellations, which sees the contract as the status of one escrow.     *)
(* That it sees it rightly is shown first.  Then its two properties: a     *)
(* request under way was answered, an answer is never taken back, and a    *)
(* page that records a success has seen the escrow cancelled.              *)
(***************************************************************************)

\* The statuses of the contract as the rows name them.
Shown ==
    [s \in Status |->
        CASE s = "Created" -> "created"     [] s = "Funded" -> "funded"
          [] s = "Submitted" -> "submitted" [] s = "Released" -> "released"
          [] s = "Cancelled" -> "cancelled" [] s = "Disputed" -> "disputed"]

\* The changes of status that Cancellations lets the ledger make: Advance,
\* Cancel and Land, and Settle.
LedgerMoves ==
    {move \in EscrowStatus \X EscrowStatus :
        \/ move[2] \in Advances[move[1]]
        \/ move[1] \in Cancellable /\ move[2] = "cancelled"
        \/ move[1] = "disputed" /\ move[2] \in {"released", "cancelled"}}

LEMMA MovesAreStatusSteps ==
    LedgerMoves = {<<Shown[move[1]], Shown[move[2]]>> : move \in StatusSteps}
BY DEF LedgerMoves, EscrowStatus, Advances, Cancellable, Shown, Status, StatusSteps

\* The contract moves the status of an escrow only as Cancellations lets the
\* ledger move it.
MovesAsCancellationsAssumes ==
    [][\A id \in Ids :
          escrow'[id].status # escrow[id].status =>
              <<Shown[escrow[id].status], Shown[escrow'[id].status]>>
                  \in LedgerMoves]_vars

\* What Cancellations assumes of create_escrow, fund_escrow, submit_work,
\* approve_and_release, cancel_escrow, mark_disputed and resolve_dispute is
\* what the contract does, for every escrow and any other traffic.
THEOREM ContractMovesAsAssumed == Spec => MovesAsCancellationsAssumes
<1>1. ASSUME NEW id \in Ids, KeepsToLifecycle(id), escrow'[id].status # escrow[id].status
      PROVE  <<Shown[escrow[id].status], Shown[escrow'[id].status]>> \in LedgerMoves
  <2>1. <<escrow[id].status, escrow'[id].status>> \in StatusSteps
    BY <1>1 DEF KeepsToLifecycle
  <2> QED BY <2>1, MovesAreStatusSteps
<1>2. [\A id \in Ids : KeepsToLifecycle(id)]_vars =>
        [\A id \in Ids :
            escrow'[id].status # escrow[id].status =>
                <<Shown[escrow[id].status], Shown[escrow'[id].status]>>
                  \in LedgerMoves]_vars
  BY <1>1
<1> QED BY <1>2, LifecycleCorrect, PTL DEF Lifecycle, MovesAsCancellationsAssumes

-----------------------------------------------------------------------------
(* The inductive invariant of Cancellations.                               *)

Answered(r) ==
    r \in Existing /\ requests[r].response \in {"accepted", "not_required"}

Confirmed(r) == r \in Existing /\ requests[r].chain = "confirmed"

\* A page works on a request that exists; before it goes to the ledger it has
\* seen the answer, before it records a success the cancelled escrow.
RunOK(p) ==
    /\ page[p].step # "idle" => page[p].request \in Existing
    /\ page[p].step \in {"signing", "recording"} => Answered(page[p].request)
    /\ page[p].step = "recording" => ledger = "cancelled"

CancelInv ==
    /\ CancelTypeOK
    /\ \A p \in Pages : RunOK(p)
    /\ \A r \in lost : Answered(r)
    /\ ConfirmedIsCancelled

LEMMA CancelTypes ==
    ASSUME CancelTypeOK
    PROVE  /\ requests \in [Requests -> Request \cup {None}]
           /\ page \in [Pages -> [step : {"idle", "starting", "signing", "recording",
                                          "noting", "failing"},
                                  request : Requests \cup {None}]]
           /\ \A r \in Existing : r \in Requests /\ requests[r] \in Request
BY DEF CancelTypeOK, Existing

-----------------------------------------------------------------------------
(* What no step takes back.                                                *)

RequestsLast ==
    /\ requests' \in [Requests -> Request \cup {None}]
    /\ Existing \subseteq Existing'
    /\ \A r \in Requests : Answered(r) => Answered(r)'
    /\ \A r \in Requests : Confirmed(r)' => Confirmed(r) \/ ledger' = "cancelled"

CancelledLasts == ledger = "cancelled" => ledger' = "cancelled"

LEMMA RequestsKept ==
    ASSUME CancelTypeOK, UNCHANGED requests
    PROVE  RequestsLast
BY CancelTypes DEF RequestsLast, Existing, Answered, Confirmed

\* One row is written: its answer stays if it was given, and it is confirmed
\* only with the escrow cancelled.
LEMMA RequestWritten ==
    ASSUME CancelTypeOK, NEW r \in Requests, NEW request \in Request,
           requests' = [requests EXCEPT ![r] = request],
           Answered(r) => request.response \in {"accepted", "not_required"},
           request.chain = "confirmed" => Confirmed(r) \/ ledger' = "cancelled"
    PROVE  RequestsLast
<1>1. requests \in [Requests -> Request \cup {None}]
  BY CancelTypes
<1>2. /\ requests' \in [Requests -> Request \cup {None}]
      /\ requests'[r] = request /\ request # None
      /\ \A s \in Requests : s # r => requests'[s] = requests[s]
  BY <1>1, NoRequestIsNone
<1>3. Existing \subseteq Existing' /\ r \in Existing'
  BY <1>2 DEF Existing
<1>4. ASSUME NEW s \in Requests
      PROVE  /\ Answered(s) => Answered(s)'
             /\ Confirmed(s)' => Confirmed(s) \/ ledger' = "cancelled"
  <2>1. CASE s = r
    BY <1>2, <1>3, <2>1 DEF Answered, Confirmed
  <2>2. CASE s # r
    BY <1>2, <2>2 DEF Answered, Confirmed, Existing
  <2> QED BY <2>1, <2>2
<1> QED BY <1>2, <1>3, <1>4 DEF RequestsLast

LEMMA FailLasts ==
    ASSUME CancelTypeOK, NEW r \in Existing, Fail(r)
    PROVE  RequestsLast
<1> DEFINE request == [requests[r] EXCEPT !.status = "cancel_failed", !.chain = "failed"]
<1>1. requests[r] \in Request /\ r \in Requests
  BY CancelTypes
<1>2. requests' = [requests EXCEPT ![r] = request]
  BY <1>1, CancelTypes DEF Fail
<1>3. request \in Request /\ request.chain = "failed"
      /\ request.response = requests[r].response
  BY <1>1 DEF Request, Statuses
<1> HIDE DEF request
<1> QED BY <1>1, <1>2, <1>3, RequestWritten DEF Answered

LEMMA StatusSetLasts ==
    ASSUME CancelTypeOK, NEW r \in Existing, NEW status \in Statuses,
           SetRequestStatus(r, status)
    PROVE  RequestsLast
<1> DEFINE request == [requests[r] EXCEPT !.status = status]
<1>1. requests[r] \in Request /\ r \in Requests
  BY CancelTypes
<1>2. requests' = [requests EXCEPT ![r] = request]
  BY <1>1, CancelTypes DEF SetRequestStatus
<1>3. /\ request \in Request /\ request.chain = requests[r].chain
      /\ request.response = requests[r].response
  BY <1>1 DEF Request, Statuses
<1> HIDE DEF request
<1> QED BY <1>1, <1>2, <1>3, RequestWritten DEF Answered, Confirmed

\* The answer comes once, while it is pending.
LEMMA AnswerLasts ==
    ASSUME CancelTypeOK, NEW r \in Existing, NEW status \in Statuses,
           NEW response \in {"lapsed", "accepted", "rejected", "expired"},
           requests[r].response \in {"pending", "lapsed"},
           requests' = [requests EXCEPT ![r].response = response,
                                        ![r].status = status]
    PROVE  RequestsLast
<1> DEFINE request == [requests[r] EXCEPT !.response = response, !.status = status]
<1>1. requests[r] \in Request /\ r \in Requests
  BY CancelTypes
<1>2. requests' = [requests EXCEPT ![r] = request]
  BY <1>1, CancelTypes
<1>3. request \in Request /\ request.chain = requests[r].chain
  BY <1>1 DEF Request, Statuses
<1>4. ~Answered(r)
  BY DEF Answered
<1> HIDE DEF request
<1> QED BY <1>1, <1>2, <1>3, <1>4, RequestWritten DEF Confirmed

LEMMA CreateRequestLasts ==
    ASSUME CancelTypeOK, NEW r \in Requests \ Existing, NEW parent \in Parents,
           CreateRequest(r, parent)
    PROVE  RequestsLast
<1> DEFINE verdict == Eligibility(parent)
           request ==
             [parent |-> parent,
              escrow |-> IF row = "none" THEN "unlinked" ELSE "linked",
              kind |-> IF IsPostDispute THEN "post_dispute" ELSE "other",
              status |-> CASE verdict = "off_ledger" -> "cancelled_on_chain"
                           [] verdict = "ask" -> "pending_freelancer_response"
                           [] OTHER -> "approved_for_cancel",
              response |-> IF verdict = "ask" THEN "pending" ELSE "not_required",
              chain |-> IF verdict = "off_ledger" THEN "not_required"
                        ELSE "not_submitted"]
<1>1. requests' = [requests EXCEPT ![r] = request]
  BY DEF CreateRequest, Put
<1> HIDE DEF verdict
<1>2. request \in Request /\ request.chain # "confirmed"
  BY DEF Request, Statuses
<1>3. ~Answered(r)
  BY DEF Answered
<1> HIDE DEF request
<1> QED BY <1>1, <1>2, <1>3, RequestWritten

LEMMA RequestStepLasts ==
    ASSUME CancelTypeOK, RequestStep
    PROVE  RequestsLast /\ UNCHANGED <<escrowVars, workVars, clientVars>>
<1>1. ASSUME NEW r \in Requests \ Existing, NEW parent \in Parents,
             CreateRequest(r, parent)
      PROVE  RequestsLast /\ UNCHANGED <<escrowVars, workVars, clientVars>>
  BY <1>1, CreateRequestLasts DEF CreateRequest
<1>2. ASSUME NEW r \in Existing, Withdraw(r) \/ MarkApproved(r)
      PROVE  RequestsLast /\ UNCHANGED <<escrowVars, workVars, clientVars>>
  BY <1>2, StatusSetLasts DEF Withdraw, MarkApproved, Statuses
<1>3. ASSUME NEW r \in Existing, Lapse(r)
      PROVE  RequestsLast /\ UNCHANGED <<escrowVars, workVars, clientVars>>
  <2>1. requests[r] \in Request
    BY CancelTypes
  <2>2. requests' = [requests EXCEPT ![r].response = "lapsed",
                                     ![r].status = requests[r].status]
    BY <1>3, <2>1, CancelTypes DEF Lapse, Request
  <2>3. requests[r].status \in Statuses
    BY <2>1 DEF Request
  <2> QED BY <1>3, <2>2, <2>3, AnswerLasts DEF Lapse
<1>4. ASSUME NEW r \in Existing, Expire(r)
      PROVE  RequestsLast /\ UNCHANGED <<escrowVars, workVars, clientVars>>
  <2>1. requests[r] \in Request
    BY CancelTypes
  <2>2. requests' = [requests EXCEPT ![r].response = "expired",
                                     ![r].status = "expired"]
    BY <1>4, <2>1, CancelTypes DEF Expire, Request
  <2> QED BY <1>4, <2>2, AnswerLasts DEF Expire, Statuses
<1>5. ASSUME NEW r \in Existing, NEW answer \in {"accepted", "rejected"},
             Respond(r, answer)
      PROVE  RequestsLast /\ UNCHANGED <<escrowVars, workVars, clientVars>>
  BY <1>5, AnswerLasts DEF Respond, Statuses
<1>6. ASSUME NEW r \in Existing, ReportFailure(r)
      PROVE  RequestsLast /\ UNCHANGED <<escrowVars, workVars, clientVars>>
  BY <1>6, FailLasts DEF ReportFailure
<1> QED BY <1>1, <1>2, <1>3, <1>4, <1>5, <1>6 DEF RequestStep

-----------------------------------------------------------------------------
(* The steps keep the invariant.                                           *)

\* A run that does not move keeps what it knows.
LEMMA RunLasts ==
    ASSUME CancelTypeOK, RequestsLast, CancelledLasts,
           NEW p \in Pages, RunOK(p), page'[p] = page[p]
    PROVE  RunOK(p)'
BY CancelTypes DEF RunOK, RequestsLast, CancelledLasts, Answered

LEMMA InvLasts ==
    ASSUME CancelInv, CancelTypeOK', RequestsLast, CancelledLasts,
           \A p \in Pages : page'[p] = page[p] \/ RunOK(p)',
           \A r \in lost' : r \in lost \/ Answered(r)'
    PROVE  CancelInv'
<1>1. \A p \in Pages : RunOK(p)'
  BY RunLasts DEF CancelInv
<1>2. \A r \in lost' : Answered(r)'
  BY DEF CancelInv, CancelTypeOK, RequestsLast
<1>3. ConfirmedIsCancelled'
  <2> SUFFICES ASSUME NEW r \in Existing', Confirmed(r)'
               PROVE  ledger' = "cancelled"
    BY DEF ConfirmedIsCancelled, Confirmed
  <2>1. Confirmed(r) \/ ledger' = "cancelled"
    BY DEF Confirmed, RequestsLast, Existing
  <2>2. Confirmed(r) => ledger = "cancelled"
    BY DEF CancelInv, ConfirmedIsCancelled, Confirmed
  <2> QED BY <2>1, <2>2 DEF CancelledLasts
<1> QED BY <1>1, <1>2, <1>3 DEF CancelInv

LEMMA RequestStepKeeps ==
    ASSUME CancelInv, RequestStep
    PROVE  CancelInv'
<1>1. RequestsLast /\ UNCHANGED <<escrowVars, workVars, clientVars>>
  BY RequestStepLasts DEF CancelInv
<1>2. CancelTypeOK'
  BY <1>1 DEF CancelInv, CancelTypeOK, RequestsLast, escrowVars, workVars, clientVars
<1> QED
  BY <1>1, <1>2, InvLasts DEF CancelledLasts, escrowVars, clientVars, CancelInv

LEMMA WorkStepKeeps ==
    ASSUME CancelInv, WorkStep
    PROVE  CancelInv'
<1>1. CancelTypeOK /\ past \subseteq EscrowStatus
  BY DEF CancelInv, CancelTypeOK
<1>2. ASSUME NEW status \in EscrowStatus, Advance(status)
      PROVE  /\ ledger # "cancelled" /\ ledger' = status
             /\ past' = past \cup {status}
             /\ UNCHANGED <<row, engaged, workVars, requests, clientVars>>
  BY <1>2 DEF Advance, Advances
<1>3. /\ UNCHANGED <<requests, clientVars>>
      /\ CancelledLasts
      /\ ledger' \in EscrowStatus \cup {"none"} /\ past' \subseteq EscrowStatus
      /\ row' \in EscrowStatus \cup {"none"}
      /\ engaged' \in {"yes", "no"}
      /\ work' \in {"none", "proof", "revising"}
      /\ dispute' \in {"none", "active", "resolved_client"}
      /\ deadline' \in {"ahead", "passed"}
  <2>1. CASE \E freelancer \in {"yes", "no"} : OpenEscrow(freelancer)
    BY <2>1, <1>1 DEF OpenEscrow, CancelTypeOK, CancelledLasts, EscrowStatus, workVars
  <2>2. CASE \E status \in EscrowStatus : Advance(status)
    BY <2>2, <1>1, <1>2 DEF CancelTypeOK, CancelledLasts, workVars
  <2>3. CASE \E status \in EscrowStatus : Record(status)
    BY <2>3, <1>1 DEF Record, CancelTypeOK, CancelledLasts, workVars
  <2>4. CASE Engage
    BY <2>4, <1>1 DEF Engage, CancelTypeOK, CancelledLasts, workVars
  <2>5. CASE Deliver
    BY <2>5, <1>1 DEF Deliver, CancelTypeOK, CancelledLasts, escrowVars
  <2>6. CASE Dispute
    BY <2>6, <1>1 DEF Dispute, CancelTypeOK, CancelledLasts, escrowVars
  <2>7. CASE PassDeadline
    BY <2>7, <1>1 DEF PassDeadline, CancelTypeOK, CancelledLasts, escrowVars
  <2>8. CASE \E status \in {"released", "cancelled"} : Settle(status)
    BY <2>8, <1>1 DEF Settle, CancelTypeOK, CancelledLasts, EscrowStatus
  <2> QED
    BY <2>1, <2>2, <2>3, <2>4, <2>5, <2>6, <2>7, <2>8 DEF WorkStep
<1>4. CancelTypeOK'
  BY <1>1, <1>3 DEF CancelTypeOK, clientVars
<1> QED
  BY <1>1, <1>3, <1>4, RequestsKept, InvLasts DEF clientVars

-----------------------------------------------------------------------------
(* The page.                                                               *)

\* A page moves to another step of its run.
LEMMA GoMoves ==
    ASSUME CancelTypeOK, NEW p \in Pages, NEW step, Go(p, step)
    PROVE  /\ page'[p].step = step /\ page'[p].request = page[p].request
           /\ \A q \in Pages : q # p => page'[q] = page[q]
           /\ step \in {"starting", "signing", "recording", "noting", "failing"} =>
                page' \in [Pages -> [step : {"idle", "starting", "signing", "recording",
                                             "noting", "failing"},
                                     request : Requests \cup {None}]]
BY CancelTypes DEF Go

\* A page that stops, and one that does not go on to the ledger, needs no more
\* than that its request exists.
LEMMA RunStops ==
    ASSUME CancelInv, RequestsLast, NEW p \in Pages,
           \/ page'[p].step = "idle"
           \/ /\ page[p].step # "idle" /\ page'[p].request = page[p].request
              /\ page'[p].step \in {"noting", "failing"}
    PROVE  RunOK(p)'
BY DEF CancelInv, RunOK, RequestsLast

LEMMA ExecuteKeeps ==
    ASSUME CancelInv, NEW p \in Pages, NEW r \in Existing, Execute(p, r)
    PROVE  CancelInv'
<1>1. CancelTypeOK /\ r \in Requests
  BY CancelTypes DEF CancelInv
<1>2. /\ page' = [page EXCEPT ![p] = [step |-> "starting", request |-> r]]
      /\ UNCHANGED <<escrowVars, workVars, requests, lost>>
  BY DEF Execute
<1>3. RequestsLast /\ CancelledLasts
  BY <1>1, <1>2, RequestsKept DEF CancelledLasts, escrowVars
<1>4. CancelTypeOK'
  BY <1>1, <1>2 DEF CancelTypeOK, escrowVars, workVars
<1>5. /\ RunOK(p)'
      /\ \A q \in Pages : q # p => page'[q] = page[q]
  BY <1>1, <1>2, <1>3, CancelTypes DEF RunOK, RequestsLast
<1> QED BY <1>2, <1>3, <1>4, <1>5, InvLasts

LEMMA MarkStartedKeeps ==
    ASSUME CancelInv, NEW p \in Pages, MarkStarted(p)
    PROVE  CancelInv'
<1> DEFINE r == page[p].request
           request == [requests[r] EXCEPT !.status = "cancel_pending_on_chain",
                                          !.chain = "pending"]
<1>1. /\ CancelTypeOK /\ r \in Existing /\ r \in Requests
      /\ requests[r] \in Request
  BY CancelTypes DEF CancelInv, MarkStarted, At, RunOK
<1>2. /\ Go(p, "signing")
      /\ requests' = [requests EXCEPT ![r].status = "cancel_pending_on_chain",
                                      ![r].chain = "pending"]
      /\ UNCHANGED <<escrowVars, workVars, lost>>
  BY DEF MarkStarted
<1>3. requests' = [requests EXCEPT ![r] = request]
  BY <1>1, <1>2, CancelTypes
<1>4. /\ request \in Request /\ request.chain = "pending"
      /\ request.response = requests[r].response
  BY <1>1 DEF Request, Statuses
<1>5. Answered(r)
  BY <1>1 DEF Answered, MarkStarted, StillCancellable, MayUse
<1>6. page'[p].step = "signing" /\ page'[p].request = r
      /\ \A q \in Pages : q # p => page'[q] = page[q]
  BY <1>1, <1>2, GoMoves
<1>7. page' \in [Pages -> [step : {"idle", "starting", "signing", "recording",
                                   "noting", "failing"},
                           request : Requests \cup {None}]]
  BY <1>1, <1>2, GoMoves
<1> HIDE DEF r, request
<1>8. RequestsLast /\ CancelledLasts
  BY <1>1, <1>2, <1>3, <1>4, RequestWritten DEF Answered, CancelledLasts, escrowVars
<1>9. CancelTypeOK'
  BY <1>1, <1>2, <1>7, <1>8 DEF CancelTypeOK, RequestsLast, escrowVars, workVars
<1>10. RunOK(p)'
  BY <1>1, <1>5, <1>6, <1>8 DEF RunOK, RequestsLast
<1> QED BY <1>2, <1>6, <1>8, <1>9, <1>10, InvLasts

LEMMA CancelKeeps ==
    ASSUME CancelInv, NEW p \in Pages, Cancel(p)
    PROVE  CancelInv'
<1>1. /\ CancelTypeOK /\ Go(p, "recording") /\ page[p].step = "signing"
      /\ ledger' = "cancelled" /\ past' = past \cup {"cancelled"}
      /\ UNCHANGED <<row, engaged, workVars, requests, lost>>
  BY DEF Cancel, CancelInv, At
<1>2. RequestsLast /\ CancelledLasts
  BY <1>1, RequestsKept DEF CancelledLasts
<1>3. CancelTypeOK'
  BY <1>1, GoMoves DEF CancelTypeOK, EscrowStatus, workVars
<1>4. RunOK(p)' /\ \A q \in Pages : q # p => page'[q] = page[q]
  BY <1>1, <1>2, GoMoves, CancelTypes DEF CancelInv, RunOK, RequestsLast, Answered
<1> QED BY <1>1, <1>2, <1>3, <1>4, InvLasts

LEMMA MarkSucceededKeeps ==
    ASSUME CancelInv, NEW p \in Pages, MarkSucceeded(p)
    PROVE  CancelInv'
<1> DEFINE r == page[p].request
           request == [requests[r] EXCEPT !.status = "cancelled_on_chain",
                                          !.chain = "confirmed"]
<1>1. /\ CancelTypeOK /\ r \in Existing /\ r \in Requests
      /\ requests[r] \in Request /\ ledger = "cancelled" /\ page[p].step = "recording"
  BY CancelTypes DEF CancelInv, MarkSucceeded, At, RunOK
<1>2. /\ Go(p, "noting") /\ row' = "cancelled"
      /\ requests' = [requests EXCEPT ![r].status = "cancelled_on_chain",
                                      ![r].chain = "confirmed"]
      /\ UNCHANGED <<ledger, past, engaged, workVars, lost>>
  BY DEF MarkSucceeded
<1>3. requests' = [requests EXCEPT ![r] = request]
  BY <1>1, <1>2, CancelTypes
<1>4. request \in Request /\ request.response = requests[r].response
  BY <1>1 DEF Request, Statuses
<1> HIDE DEF r, request
<1>5. RequestsLast /\ CancelledLasts
  BY <1>1, <1>2, <1>3, <1>4, RequestWritten DEF Answered, CancelledLasts
<1>6. CancelTypeOK'
  BY <1>1, <1>2, <1>5, GoMoves DEF CancelTypeOK, RequestsLast, EscrowStatus, workVars
<1>7. RunOK(p)' /\ \A q \in Pages : q # p => page'[q] = page[q]
  BY <1>1, <1>2, <1>5, GoMoves, RunStops
<1> QED BY <1>2, <1>5, <1>6, <1>7, InvLasts

\* The steps of a run that ends, or fails, with the ledger left alone.
LEMMA EndKeeps ==
    ASSUME CancelInv, NEW p \in Pages,
           LoseTrack(p) \/ Note(p) \/ Throw(p) \/ MarkFailed(p) \/ ClosePage(p)
    PROVE  CancelInv'
<1>1. page[p].step # "idle" => page[p].request \in Existing
  BY DEF CancelInv, RunOK
<1>2. RequestsLast
  <2>1. CASE UNCHANGED requests
    BY <2>1, RequestsKept DEF CancelInv
  <2>2. CASE MarkFailed(p) /\ Fail(page[p].request)
    BY <2>2, <1>1, FailLasts DEF MarkFailed, At, CancelInv
  <2> QED BY <2>1, <2>2 DEF LoseTrack, Note, Throw, MarkFailed, ClosePage
<1>3. UNCHANGED <<escrowVars, workVars>>
  BY DEF LoseTrack, Note, Throw, MarkFailed, ClosePage
<1>4. \/ lost' = lost
      \/ page[p].step = "signing" /\ lost' = lost \cup {page[p].request}
  BY DEF LoseTrack, Note, Throw, MarkFailed, ClosePage, At
<1>5. /\ \A r \in lost' : r \in lost \/ Answered(r)'
      /\ lost' \subseteq Requests
  BY <1>2, <1>4, CancelTypes DEF CancelInv, RunOK, RequestsLast, Answered, CancelTypeOK
<1>6. \/ page' = [page EXCEPT ![p] = Idle]
      \/ Go(p, "failing") /\ page[p].step # "idle"
  BY DEF LoseTrack, Note, Throw, MarkFailed, ClosePage, At
<1>7. /\ page' \in [Pages -> [step : {"idle", "starting", "signing", "recording",
                                      "noting", "failing"},
                              request : Requests \cup {None}]]
      /\ \A q \in Pages : q # p => page'[q] = page[q]
      /\ RunOK(p)'
  <2>1. CASE page' = [page EXCEPT ![p] = Idle]
    BY <2>1, <1>2, CancelTypes, RunStops DEF CancelInv, Idle
  <2>2. CASE Go(p, "failing") /\ page[p].step # "idle"
    BY <2>2, <1>2, GoMoves, RunStops DEF CancelInv
  <2> QED BY <1>6, <2>1, <2>2
<1>8. CancelTypeOK'
  BY <1>2, <1>3, <1>5, <1>7
     DEF CancelInv, CancelTypeOK, RequestsLast, escrowVars, workVars
<1> QED
  BY <1>2, <1>3, <1>5, <1>7, <1>8, InvLasts DEF CancelledLasts, escrowVars

LEMMA LandKeeps ==
    ASSUME CancelInv, NEW r, Land(r)
    PROVE  CancelInv'
<1>1. /\ CancelTypeOK /\ lost' = lost \ {r}
      /\ UNCHANGED <<row, engaged, workVars, requests, page>>
      /\ \/ ledger' = "cancelled" /\ past' = past \cup {"cancelled"}
         \/ UNCHANGED <<ledger, past>>
  BY DEF Land, CancelInv
<1>2. RequestsLast /\ CancelledLasts
  BY <1>1, RequestsKept DEF CancelledLasts
<1>3. CancelTypeOK'
  BY <1>1, ZenonT(30) DEF CancelTypeOK, EscrowStatus, workVars
<1> QED BY <1>1, <1>2, <1>3, InvLasts

\* The invariant holds at the start and in every step, for any number of
\* pages and requests.
LEMMA CancelInvariant == CancelSpec => []CancelInv
<1>1. CancelInit => CancelInv
  BY DEF CancelInit, CancelInv, CancelTypeOK, RunOK, ConfirmedIsCancelled, Existing,
         Idle, EscrowStatus
<1>2. CancelInv /\ [CancelNext]_cancelVars => CancelInv'
  <2> SUFFICES ASSUME CancelInv, [CancelNext]_cancelVars PROVE CancelInv'
    OBVIOUS
  <2>1. CASE RequestStep
    BY <2>1, RequestStepKeeps
  <2>2. CASE PageStep
    BY <2>2, ExecuteKeeps, MarkStartedKeeps, CancelKeeps, MarkSucceededKeeps,
       EndKeeps, LandKeeps DEF PageStep
  <2>3. CASE WorkStep
    BY <2>3, WorkStepKeeps
  <2>4. CASE UNCHANGED cancelVars
    BY <2>4 DEF cancelVars, escrowVars, workVars, clientVars, CancelInv, CancelTypeOK,
                RunOK, ConfirmedIsCancelled, Existing, Answered
  <2> QED BY <2>1, <2>2, <2>3, <2>4 DEF CancelNext
<1> QED BY <1>1, <1>2, PTL DEF CancelSpec

\* Types of the requests, the pages and the escrow.
THEOREM CancelTypeCorrect == CancelSpec => []CancelTypeOK
<1>1. CancelInv => CancelTypeOK
  BY DEF CancelInv
<1> QED BY <1>1, CancelInvariant, PTL

\* The only changes that Cancellations makes to the status on the ledger.
LedgerMovesOnly ==
    [][ledger' # ledger =>
          \/ ledger = "none" /\ ledger' = "created"
          \/ <<ledger, ledger'>> \in LedgerMoves]_cancelVars

\* The pages, the transactions nobody watches and the other handlers change the
\* status on the ledger in no other way than those calls of the contract do.
THEOREM LedgerMovesAsContract == CancelSpec => LedgerMovesOnly
<1>1. ASSUME CancelTypeOK, CancelNext, ledger' # ledger
      PROVE  \/ ledger = "none" /\ ledger' = "created"
             \/ <<ledger, ledger'>> \in LedgerMoves
  <2>1. CASE RequestStep
    BY <1>1, <2>1 DEF RequestStep, CreateRequest, Withdraw, Lapse, Expire, Respond,
       MarkApproved, ReportFailure, escrowVars
  <2>2. CASE PageStep
    <3>1. ledger \in Cancellable /\ ledger' = "cancelled"
      BY <1>1, <2>2 DEF PageStep, Execute, MarkStarted, Cancel, LoseTrack,
         MarkSucceeded, Note, Throw, MarkFailed, ClosePage, Land, escrowVars
    <3> QED BY <3>1 DEF LedgerMoves, Cancellable, EscrowStatus
  <2>3. CASE \E freelancer \in {"yes", "no"} : OpenEscrow(freelancer)
    BY <2>3 DEF OpenEscrow
  <2>4. ASSUME NEW status \in EscrowStatus, Advance(status)
        PROVE  <<ledger, ledger'>> \in LedgerMoves
    BY <1>1, <2>4 DEF Advance, Advances, LedgerMoves, EscrowStatus, CancelTypeOK
  <2>5. ASSUME NEW status \in {"released", "cancelled"}, Settle(status)
        PROVE  <<ledger, ledger'>> \in LedgerMoves
    BY <2>5 DEF Settle, LedgerMoves, EscrowStatus
  <2>6. ASSUME \/ \E status \in EscrowStatus : Record(status)
               \/ Engage \/ Deliver \/ Dispute \/ PassDeadline
        PROVE  UNCHANGED ledger
    BY <2>6 DEF Record, Engage, Deliver, Dispute, PassDeadline, escrowVars
  <2> QED BY <1>1, <2>1, <2>2, <2>3, <2>4, <2>5, <2>6 DEF CancelNext, WorkStep
<1>2. CancelTypeOK /\ [CancelNext]_cancelVars =>
        [ledger' # ledger =>
            \/ ledger = "none" /\ ledger' = "created"
            \/ <<ledger, ledger'>> \in LedgerMoves]_cancelVars
  BY <1>1
<1> QED BY <1>2, CancelTypeCorrect, PTL DEF CancelSpec, LedgerMovesOnly

\* No cancellation is signed or in flight over a refusal or a silence: the
\* answer is looked at when the run starts, and once given it stays, whatever
\* the parties and other pages report about the request.
THEOREM NotOverRefusal == CancelSpec => []NeverOverRefusal
<1>1. CancelInv => NeverOverRefusal
  BY DEF CancelInv, NeverOverRefusal, RunOK, Answered
<1> QED BY <1>1, CancelInvariant, PTL

\* A request is confirmed only when the ledger has cancelled the escrow, since
\* only a page that has seen that records it, and cancelled is final.
THEOREM ConfirmedCorrect == CancelSpec => []ConfirmedIsCancelled
<1>1. CancelInv => ConfirmedIsCancelled
  BY DEF CancelInv
<1> QED BY <1>1, CancelInvariant, PTL

=============================================================================
