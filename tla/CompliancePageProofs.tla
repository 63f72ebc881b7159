------------------------- MODULE CompliancePageProofs -------------------------
(***************************************************************************)
(* What the percentages and the tables of compliance can be trusted for,   *)
(* for every set of frameworks, rules and resources, and any number of     *)
(* changes to the results while the statements of a request run.           *)
(***************************************************************************)
EXTENDS CompliancePage, FiniteSetTheorems, TLAPS

(* The rules counted so far that are in S.                                 *)
Before(f, n, S) == {i \in 1 .. n - 1 : RulesOf(f)[i] \in S}

Requests == [state: {"none", "asked", "answered"}, at: Nat, passing: Nat,
             ever: SUBSET Rules, always: SUBSET Rules]

(* At each statement the count is between what passed all along and what   *)
(* passed at some moment, of the rules that were looked at; and what       *)
(* passes now did at some moment.                                          *)
Counted(f, s, b) ==
    /\ s \in Requests
    /\ s.state # "none" =>
          /\ s.at \in 1 .. Len(RulesOf(f)) + 1
          /\ Cardinality(Before(f, s.at, s.always)) <= s.passing
          /\ s.passing <= Cardinality(Before(f, s.at, s.ever))
    /\ s.state = "asked" => s.always \subseteq Passing(b) /\ Passing(b) \subseteq s.ever
    /\ s.state = "answered" => s.at = Len(RulesOf(f)) + 1

(* A card loads until its answer is there, and shows the rounded count.    *)
Shown(f, s, c) ==
    /\ s.state = "asked" => c.loading
    /\ s.state = "answered" /\ ~c.loading => c.percent = Percent(s.passing, Len(RulesOf(f)))

(* While a report is open, cards are as they are when they come up.        *)
CountInv ==
    /\ stats \in [Ids -> Requests] /\ cards = [f \in Ids |-> cards[f]]
    /\ \A f \in Ids : Counted(f, stats[f], board) /\ Shown(f, stats[f], cards[f])
    /\ page # "cards" => \A f \in Ids : stats[f].state = "none" /\ cards[f].loading

-----------------------------------------------------------------------------
(* Rounding.                                                               *)

(* No framework of fewer than 200 rules is shown complete while a rule of  *)
(* it fails, or as 0% while one passes: the rounding does not reach the    *)
(* ends (get_compliance_framework_stats.go:72).                            *)
THEOREM PercentEndsAreExact ==
    ASSUME NEW total \in 1 .. 199, NEW passing \in 0 .. total
    PROVE  /\ Percent(passing, total) \in 0 .. 100
           /\ Percent(passing, total) = 100 <=> passing = total
           /\ Percent(passing, total) = 0 <=> passing = 0
<1> DEFINE n == 200 * passing + total
           d == 2 * total
           q == n \div d
<1>1. n \in Nat /\ d \in Nat /\ d > 0
    OBVIOUS
<1>2. q \in Nat /\ d * q <= n /\ n < d * q + d
    BY <1>1
<1>3. n <= 100 * d + total
    OBVIOUS
<1>4. ASSUME q >= 101 PROVE FALSE
    <2>1. d * q >= d * 101
        BY <1>1, <1>2, <1>4
    <2> QED
        BY <2>1, <1>2, <1>3
<1>5. ASSUME q = 100, passing # total PROVE FALSE
    <2>1. 200 * passing + total <= 200 * (total - 1) + total
        BY <1>5
    <2>2. 200 * total <= 200 * passing + total
        BY <1>2, <1>5
    <2> QED
        BY <2>1, <2>2
<1>6. ASSUME passing = total PROVE q = 100
    <2>1. n = 201 * total
        BY <1>6
    <2>2. d * q < 202 * total
        BY <1>2, <2>1
    <2>3. q < 101
        BY <1>2, <1>4
    <2>4. ASSUME q <= 99 PROVE FALSE
        <3>1. d * q <= d * 99
            BY <1>1, <1>2, <2>4
        <3> QED
            BY <3>1, <2>1, <1>2
    <2> QED
        BY <2>3, <2>4, <1>2
<1>7. ASSUME q = 0, passing # 0 PROVE FALSE
    BY <1>2, <1>7
<1>8. ASSUME passing = 0 PROVE q = 0
    <2>1. ASSUME q >= 1 PROVE FALSE
        <3>1. d * q >= d
            BY <1>1, <1>2, <2>1
        <3> QED
            BY <3>1, <1>2, <1>8
    <2> QED
        BY <2>1, <1>2
<1> QED
    BY <1>2, <1>4, <1>5, <1>6, <1>7, <1>8 DEF Percent

-----------------------------------------------------------------------------
(* Counting.                                                               *)

LEMMA RulesAreListed ==
    ConstantsFit => \A f \in Ids : /\ RulesOf(f) \in Seq(Rules) /\ Len(RulesOf(f)) \in Nat
                                   /\ DOMAIN RulesOf(f) = 1 .. Len(RulesOf(f))
                                   /\ \A i \in 1 .. Len(RulesOf(f)) : RulesOf(f)[i] \in Rules
  <1>1. ASSUME NEW f, RulesOf(f) \in Seq(Rules)
        PROVE  /\ Len(RulesOf(f)) \in Nat
               /\ DOMAIN RulesOf(f) = 1 .. Len(RulesOf(f))
               /\ \A i \in 1 .. Len(RulesOf(f)) : RulesOf(f)[i] \in Rules
    BY <1>1
  <1> QED
    BY <1>1 DEF ConstantsFit

LEMMA BeforeIsFinite ==
    ASSUME NEW f, NEW n \in Nat, NEW S
    PROVE  IsFiniteSet(Before(f, n, S)) /\ Cardinality(Before(f, n, S)) \in Nat
  <1>1. n - 1 \in Int /\ 1 \in Int
    OBVIOUS
  <1>2. IsFiniteSet(1 .. n - 1)
    BY <1>1, FS_Interval
  <1>3. Before(f, n, S) \in SUBSET (1 .. n - 1)
    BY DEF Before
  <1> QED
    BY <1>2, <1>3, FS_Subset, FS_CardinalityType

LEMMA BeforeGrows ==
    ASSUME NEW f, NEW n \in Nat, NEW S, NEW T, S \subseteq T
    PROVE  Cardinality(Before(f, n, S)) <= Cardinality(Before(f, n, T))
  <1>1. Before(f, n, S) \in SUBSET Before(f, n, T)
    BY DEF Before
  <1> QED
    BY <1>1, BeforeIsFinite, FS_Subset

LEMMA BeforeFirst ==
    ASSUME NEW f, NEW S
    PROVE  Cardinality(Before(f, 1, S)) = 0
  <1>1. Before(f, 1, S) = {}
    BY DEF Before
  <1> QED
    BY <1>1, FS_EmptySet

(* One more statement counts one more rule, if that is in S.               *)
LEMMA BeforeNext ==
    ASSUME NEW f, NEW n \in Nat \ {0}, NEW S
    PROVE  Cardinality(Before(f, n + 1, S)) =
               Cardinality(Before(f, n, S)) + (IF RulesOf(f)[n] \in S THEN 1 ELSE 0)
  <1>1. CASE RulesOf(f)[n] \in S
    <2>1. Before(f, n + 1, S) = Before(f, n, S) \cup {n} /\ n \notin Before(f, n, S)
      BY <1>1 DEF Before
    <2> QED
      BY <1>1, <2>1, BeforeIsFinite, FS_AddElement
  <1>2. CASE RulesOf(f)[n] \notin S
    <2>1. Before(f, n + 1, S) = Before(f, n, S)
      BY <1>2 DEF Before
    <2> QED
      BY <1>2, <2>1, BeforeIsFinite
  <1> QED
    BY <1>1, <1>2

(* When all are counted, that is how often S occurs in the framework.      *)
LEMMA BeforeAll ==
    ASSUME ConstantsFit, NEW f \in Ids, NEW S
    PROVE  /\ Before(f, Len(RulesOf(f)) + 1, S) = {i \in DOMAIN RulesOf(f) : RulesOf(f)[i] \in S}
           /\ Cardinality(Before(f, Len(RulesOf(f)) + 1, S)) = Occurrences(f, S)
  <1>1. DOMAIN RulesOf(f) = 1 .. Len(RulesOf(f)) /\ Len(RulesOf(f)) \in Nat
    BY RulesAreListed
  <1>2. Before(f, Len(RulesOf(f)) + 1, S) = {i \in DOMAIN RulesOf(f) : RulesOf(f)[i] \in S}
    BY <1>1 DEF Before
  <1> QED
    BY <1>2 DEF Occurrences

-----------------------------------------------------------------------------
(* The invariant of the count.                                             *)

(* A request that was just asked, or is not under way.                     *)
LEMMA AskedIsCounted ==
    ASSUME ConstantsFit, NEW f \in Ids
    PROVE  /\ Asked \in Requests /\ Asked.state = "asked" /\ Counted(f, Asked, board)
           /\ Idle \in Requests /\ Idle.state = "none"
           /\ \A b : Counted(f, Idle, b)
  <1>1. Passing(board) \in SUBSET Rules
    BY DEF Passing
  <1>2. Idle \in Requests /\ Idle.state = "none"
    BY DEF Idle, Requests
  <1>3. /\ Asked \in Requests /\ Asked.state = "asked"
        /\ Asked.at = 1 /\ Asked.passing = 0
        /\ Asked.always = Passing(board) /\ Asked.ever = Passing(board)
    BY <1>1 DEF Asked, Idle, Requests
  <1>4. Len(RulesOf(f)) \in Nat
    BY RulesAreListed
  <1>5. Counted(f, Asked, board)
    BY <1>3, <1>4, BeforeFirst DEF Counted
  <1>6. \A b : Counted(f, Idle, b)
    BY <1>2 DEF Counted
  <1> QED
    BY <1>2, <1>3, <1>5, <1>6

(* A change of the results narrows what passed all along, and widens what  *)
(* passed at some moment.                                                  *)
LEMMA WriteIsCounted ==
    ASSUME ConstantsFit, NEW f \in Ids, NEW s, NEW b, NEW c, Counted(f, s, b), s.state = "asked",
           NEW t, t = [s EXCEPT !.ever = @ \cup Passing(c), !.always = @ \cap Passing(c)]
    PROVE  t.state = "asked" /\ t \in Requests /\ Counted(f, t, c)
  <1>1. Passing(c) \in SUBSET Rules /\ s \in Requests
    BY DEF Passing, Counted
  <1>2. /\ t \in Requests /\ t.state = "asked" /\ t.at = s.at /\ t.passing = s.passing
        /\ t.ever = s.ever \cup Passing(c) /\ t.always = s.always \cap Passing(c)
    BY <1>1 DEF Requests
  <1>3. /\ s.at \in Nat /\ s.passing \in Nat
        /\ s.at \in 1 .. Len(RulesOf(f)) + 1
        /\ Cardinality(Before(f, s.at, s.always)) <= s.passing
        /\ s.passing <= Cardinality(Before(f, s.at, s.ever))
    BY <1>1 DEF Counted, Requests
  <1>4. /\ Cardinality(Before(f, s.at, t.always)) <= Cardinality(Before(f, s.at, s.always))
        /\ Cardinality(Before(f, s.at, s.ever)) <= Cardinality(Before(f, s.at, t.ever))
    BY <1>2, <1>3, BeforeGrows
  <1>5. /\ Cardinality(Before(f, s.at, t.always)) \in Nat
        /\ Cardinality(Before(f, s.at, s.always)) \in Nat
        /\ Cardinality(Before(f, s.at, t.ever)) \in Nat
        /\ Cardinality(Before(f, s.at, s.ever)) \in Nat
    BY <1>3, BeforeIsFinite
  <1>6. /\ Cardinality(Before(f, t.at, t.always)) <= t.passing
        /\ t.passing <= Cardinality(Before(f, t.at, t.ever))
    BY <1>2, <1>3, <1>4, <1>5
  <1> QED
    BY <1>2, <1>3, <1>6 DEF Counted

(* The statement for the next rule sees the results as they are now.       *)
Adds(f, s, b) == IF Passes(b, RulesOf(f)[s.at]) THEN 1 ELSE 0

LEMMA RuleIsCounted ==
    ASSUME ConstantsFit, NEW f \in Ids, NEW s, NEW b, Counted(f, s, b), s.state = "asked",
           s.at <= Len(RulesOf(f)),
           NEW t \in Requests, t.state = s.state, t.ever = s.ever, t.always = s.always,
           t.at = s.at + 1, t.passing = s.passing + Adds(f, s, b)
    PROVE  Counted(f, t, b)
  <1> DEFINE r == RulesOf(f)[s.at]
             one == Adds(f, s, b)
  <1>0. one \in 0 .. 1 /\ (Passes(b, r) => one = 1) /\ (one = 1 => Passes(b, r))
    BY DEF Adds, Passes
  <1>1. /\ s \in Requests /\ s.at \in Nat \ {0} /\ s.passing \in Nat
        /\ Len(RulesOf(f)) \in Nat
        /\ Cardinality(Before(f, s.at, s.always)) <= s.passing
        /\ s.passing <= Cardinality(Before(f, s.at, s.ever))
        /\ s.always \subseteq Passing(b) /\ Passing(b) \subseteq s.ever
    BY RulesAreListed DEF Counted, Requests
  <1> HIDE DEF one, r
  <1>2. t.passing = s.passing + one
    BY DEF one
  <1>3. t.at \in 1 .. Len(RulesOf(f)) + 1
    BY <1>1, <1>2
  <1>4. r \in Rules
    BY <1>1, RulesAreListed DEF r
  <1>5. (r \in s.always => one = 1) /\ (one = 1 => r \in s.ever)
    BY <1>0, <1>1, <1>4 DEF Passing
  <1>6. /\ Cardinality(Before(f, t.at, t.always)) =
               Cardinality(Before(f, s.at, s.always)) + (IF r \in s.always THEN 1 ELSE 0)
        /\ Cardinality(Before(f, t.at, t.ever)) =
               Cardinality(Before(f, s.at, s.ever)) + (IF r \in s.ever THEN 1 ELSE 0)
    BY <1>1, <1>2, BeforeNext DEF r
  <1>7. /\ Cardinality(Before(f, s.at, s.always)) \in Nat
        /\ Cardinality(Before(f, s.at, s.ever)) \in Nat
    BY <1>1, BeforeIsFinite
  <1>8. /\ Cardinality(Before(f, t.at, t.always)) <= t.passing
        /\ t.passing <= Cardinality(Before(f, t.at, t.ever))
    BY <1>0, <1>1, <1>2, <1>5, <1>6, <1>7
  <1> QED
    BY <1>1, <1>2, <1>3, <1>8 DEF Counted

-----------------------------------------------------------------------------
(* The steps of the page and of the backend.                               *)

LEMMA CountInit == ConstantsFit /\ Init => CountInv
  <1> SUFFICES ASSUME ConstantsFit, Init PROVE CountInv
    OBVIOUS
  <1>1. stats = [f \in Ids |-> Asked] /\ cards = [f \in Ids |-> NoCard]
    BY DEF Init
  <1>2. \A f \in Ids : Shown(f, stats[f], cards[f])
    BY <1>1, AskedIsCounted DEF Shown, NoCard
  <1> QED
    BY <1>1, <1>2, AskedIsCounted DEF CountInv, Init

LEMMA WritePreserves == ConstantsFit /\ CountInv /\ Write => CountInv'
  <1> SUFFICES ASSUME ConstantsFit, CountInv, Write PROVE CountInv'
    OBVIOUS
  <1>1. cards' = cards /\ stats' = [f \in Ids |-> stats'[f]]
    BY DEF Write
  <1>2. ASSUME NEW f \in Ids
        PROVE  /\ stats'[f] \in Requests /\ Counted(f, stats'[f], board')
               /\ Shown(f, stats'[f], cards[f])
    <2> DEFINE s == stats[f]
    <2>1. s \in Requests /\ Counted(f, s, board) /\ Shown(f, s, cards[f])
      BY DEF CountInv
    <2>2. CASE s.state # "asked"
      <3>1. stats'[f] = s
        BY <2>2 DEF Write
      <3> QED
        BY <2>1, <2>2, <3>1 DEF Counted
    <2>3. CASE s.state = "asked"
      <3>1. stats'[f] = [s EXCEPT !.ever = @ \cup Passing(board'), !.always = @ \cap Passing(board')]
        BY <2>3 DEF Write
      <3>2. /\ stats'[f].state = "asked" /\ stats'[f] \in Requests
            /\ Counted(f, stats'[f], board')
        BY <2>1, <2>3, <3>1, WriteIsCounted
      <3> QED
        BY <2>1, <2>3, <3>2 DEF Shown
    <2> QED
      BY <2>2, <2>3
  <1>3. page' # "cards" => \A f \in Ids : stats'[f].state = "none" /\ cards'[f].loading
    BY DEF Write, CountInv
  <1> QED
    BY <1>1, <1>2, <1>3 DEF CountInv

(* A step that leaves the results alone, and changes the request and the   *)
(* card of one framework.                                                  *)
LEMMA OneStep ==
    ASSUME CountInv, board' = board, page' = page,
           NEW f \in Ids, stats[f].state # "none", NEW t, NEW c,
           stats' = [stats EXCEPT ![f] = t], cards' = [cards EXCEPT ![f] = c],
           t \in Requests, Counted(f, t, board), Shown(f, t, c)
    PROVE  CountInv'
  <1>1. stats' \in [Ids -> Requests] /\ cards' = [g \in Ids |-> cards'[g]]
    BY DEF CountInv
  <1>2. \A g \in Ids : Counted(g, stats'[g], board') /\ Shown(g, stats'[g], cards'[g])
    BY DEF CountInv
  <1>3. page' = "cards"
    BY DEF CountInv
  <1> QED
    BY <1>1, <1>2, <1>3 DEF CountInv

LEMMA BackendPreserves ==
    ASSUME ConstantsFit, CountInv, NEW f \in Ids,
           CountRule(f) \/ StatsAnswer(f) \/ getComplianceFrameworkStats(f) \/ StatsFail(f)
    PROVE  CountInv'
  <1> DEFINE s == stats[f]
  <1>1. /\ s \in Requests /\ Counted(f, s, board) /\ Shown(f, s, cards[f])
        /\ stats = [stats EXCEPT ![f] = s] /\ cards = [cards EXCEPT ![f] = cards[f]]
    BY DEF CountInv
  <1>2. CASE CountRule(f)
    <2>0. PICK n, m, t : /\ n = s.at + 1 /\ m = s.passing + Adds(f, s, board)
                         /\ t = [s EXCEPT !.at = n, !.passing = m]
      OBVIOUS
    <2>1. /\ s.state = "asked" /\ s.at <= Len(RulesOf(f)) /\ board' = board /\ page' = page
          /\ stats' = [stats EXCEPT ![f] = t] /\ cards' = [cards EXCEPT ![f] = cards[f]]
      BY <1>1, <1>2, <2>0 DEF CountRule, CountInv, Adds
    <2>2. s.at \in Nat /\ s.passing \in Nat /\ Adds(f, s, board) \in Nat
      BY <1>1 DEF Requests, Adds
    <2>3. n \in Nat /\ m \in Nat
      BY <2>0, <2>2
    <2>4. /\ t \in Requests /\ t.state = s.state /\ t.at = n /\ t.passing = m
          /\ t.ever = s.ever /\ t.always = s.always
      <3>1. s \in Requests /\ t = [s EXCEPT !.at = n, !.passing = m]
        BY <1>1, <2>0
      <3> HIDE DEF s
      <3> QED
        BY ONLY <2>3, <3>1 DEF Requests
    <2>5. Counted(f, t, board)
      BY <1>1, <2>0, <2>1, <2>4, RuleIsCounted
    <2>6. Shown(f, t, cards[f])
      BY <1>1, <2>1, <2>4 DEF Shown
    <2> QED
      BY <1>1, <2>1, <2>4, <2>5, <2>6, OneStep
  <1>3. CASE StatsAnswer(f)
    <2> DEFINE t == [s EXCEPT !.state = "answered"]
    <2>1. /\ s.state = "asked" /\ s.at = Len(RulesOf(f)) + 1 /\ board' = board /\ page' = page
          /\ stats' = [stats EXCEPT ![f] = t] /\ cards' = [cards EXCEPT ![f] = cards[f]]
      BY <1>1, <1>3 DEF StatsAnswer, CountInv
    <2>2. /\ t \in Requests /\ t.state = "answered" /\ t.at = s.at /\ t.passing = s.passing
          /\ t.always = s.always /\ t.ever = s.ever
      BY <1>1 DEF Requests
    <2>3. Counted(f, t, board) /\ Shown(f, t, cards[f])
      BY <1>1, <2>1, <2>2 DEF Counted, Shown
    <2> HIDE DEF t
    <2> QED
      BY <2>1, <2>2, <2>3, OneStep
  <1>4. CASE getComplianceFrameworkStats(f)
    <2> DEFINE c == [percent |-> Percent(s.passing, Len(RulesOf(f))), loading |-> FALSE]
    <2>1. /\ s.state = "answered" /\ board' = board /\ page' = page
          /\ stats' = [stats EXCEPT ![f] = s] /\ cards' = [cards EXCEPT ![f] = c]
      BY <1>1, <1>4 DEF getComplianceFrameworkStats
    <2>2. Shown(f, s, c)
      BY <2>1 DEF Shown
    <2> QED
      BY <1>1, <2>1, <2>2, OneStep
  <1>5. CASE StatsFail(f)
    <2> DEFINE c == [percent |-> 0, loading |-> FALSE]
    <2>1. /\ s.state = "asked" /\ board' = board /\ page' = page
          /\ stats' = [stats EXCEPT ![f] = Idle] /\ cards' = [cards EXCEPT ![f] = c]
      BY <1>5 DEF StatsFail
    <2>2. Shown(f, Idle, c)
      BY AskedIsCounted DEF Shown
    <2> QED
      BY <2>1, <2>2, AskedIsCounted, OneStep
  <1> QED
    BY <1>2, <1>3, <1>4, <1>5

LEMMA PagesPreserve ==
    ASSUME ConstantsFit, CountInv, OpenCards \/ \E f \in Ids : OpenReport(f)
    PROVE  CountInv'
  <1>1. CASE OpenCards
    <2>1. /\ stats' = [f \in Ids |-> Asked] /\ cards' = cards /\ board' = board
          /\ page' = "cards" /\ page # "cards"
      BY <1>1 DEF OpenCards
    <2>2. \A f \in Ids : Shown(f, stats'[f], cards'[f])
      BY <2>1, AskedIsCounted DEF Shown, CountInv
    <2> QED
      BY <2>1, <2>2, AskedIsCounted DEF CountInv
  <1>2. CASE \E f \in Ids : OpenReport(f)
    <2>1. /\ stats' = [f \in Ids |-> Idle] /\ cards' = [f \in Ids |-> NoCard] /\ board' = board
      BY <1>2 DEF OpenReport
    <2>2. \A f \in Ids : Shown(f, stats'[f], cards'[f]) /\ cards'[f].loading
      BY <2>1, AskedIsCounted DEF Shown, NoCard
    <2> QED
      BY <2>1, <2>2, AskedIsCounted DEF CountInv
  <1> QED
    BY <1>1, <1>2

LEMMA CountStep == ConstantsFit /\ CountInv /\ [Next]_vars => CountInv'
  <1> SUFFICES ASSUME ConstantsFit, CountInv, [Next]_vars PROVE CountInv'
    OBVIOUS
  <1>1. ASSUME UNCHANGED <<board, page, stats, cards>> PROVE CountInv'
    BY <1>1 DEF CountInv
  <1>2. CASE ReadResults \/ ReadRules \/ getComplianceFramework \/ ReportFails
    BY <1>1, <1>2 DEF ReadResults, ReadRules, getComplianceFramework, ReportFails
  <1>3. ASSUME NEW c, NEW i, flipOpenControl(c) \/ flipOpenRule(c, i) PROVE CountInv'
    BY <1>1, <1>3 DEF flipOpenControl, flipOpenRule
  <1>4. CASE UNCHANGED vars
    BY <1>1, <1>4 DEF vars
  <1> QED
    BY <1>2, <1>3, <1>4, WritePreserves, BackendPreserves, PagesPreserve DEF Next, Backend

(* What is known of the counts at any moment.                              *)
THEOREM CountInvariant == ConstantsFit => (Spec => []CountInv)
  <1> SUFFICES ASSUME ConstantsFit PROVE Spec => []CountInv
    OBVIOUS
  <1>1. Init => CountInv
    BY CountInit
  <1>2. CountInv /\ [Next]_vars => CountInv'
    BY CountStep
  <1> QED
    BY <1>1, <1>2, PTL DEF Spec

LEMMA CountsAreWitnessed == ConstantsFit /\ CountInv => PercentIsWitnessed
  <1> SUFFICES ASSUME ConstantsFit, CountInv, NEW f \in Ids, stats[f].state = "answered"
               PROVE  /\ stats[f].passing >= Occurrences(f, stats[f].always)
                      /\ stats[f].passing <= Occurrences(f, stats[f].ever)
    BY DEF PercentIsWitnessed
  <1>1. /\ stats[f] \in Requests /\ stats[f].at = Len(RulesOf(f)) + 1
        /\ Cardinality(Before(f, stats[f].at, stats[f].always)) <= stats[f].passing
        /\ stats[f].passing <= Cardinality(Before(f, stats[f].at, stats[f].ever))
    BY DEF CountInv, Counted
  <1>2. /\ Cardinality(Before(f, stats[f].at, stats[f].always)) = Occurrences(f, stats[f].always)
        /\ Cardinality(Before(f, stats[f].at, stats[f].ever)) = Occurrences(f, stats[f].ever)
    BY <1>1, BeforeAll
  <1>3. stats[f].passing \in Nat /\ stats[f].at \in Nat
    BY <1>1 DEF Requests
  <1>4. /\ Cardinality(Before(f, stats[f].at, stats[f].always)) \in Nat
        /\ Cardinality(Before(f, stats[f].at, stats[f].ever)) \in Nat
    BY <1>3, BeforeIsFinite
  <1> QED
    BY <1>1, <1>2, <1>3, <1>4

(* The backend's count for a card is at least the rules that passed all    *)
(* along and at most those that passed at some moment of the request,      *)
(* although scans write between its statements                             *)
(* (get_compliance_framework_stats.go:51).                                 *)
THEOREM PercentsAreWitnessed == ConstantsFit => (Spec => []PercentIsWitnessed)
  <1> SUFFICES ASSUME ConstantsFit PROVE Spec => []PercentIsWitnessed
    OBVIOUS
  <1>1. CountInv => PercentIsWitnessed
    BY CountsAreWitnessed
  <1>2. Spec => []CountInv
    BY CountInvariant
  <1> QED
    BY <1>1, <1>2, PTL

-----------------------------------------------------------------------------
(* The ends of the percentage.                                             *)

(* A framework has rules, and fewer than the rounding can hide, as those   *)
(* of the repository have (backend/compliance).                            *)
FewRules == \A f \in Ids : Len(RulesOf(f)) \in 1 .. 199

LEMMA PartsOfInterval ==
    ASSUME NEW n \in Nat, NEW E \in SUBSET (1 .. n)
    PROVE  /\ Cardinality(E) \in Nat /\ Cardinality(E) <= n
           /\ Cardinality(E) = n => E = 1 .. n
           /\ Cardinality(E) = 0 => E = {}
  <1>1. IsFiniteSet(1 .. n) /\ Cardinality(1 .. n) = IF 1 > n THEN 0 ELSE n - 1 + 1
    BY FS_Interval
  <1>2. Cardinality(1 .. n) = n
    BY <1>1
  <1>3. IsFiniteSet(E) /\ Cardinality(E) <= n /\ (Cardinality(E) = n => E = 1 .. n)
    BY <1>1, <1>2, FS_Subset
  <1> QED
    BY <1>3, FS_CardinalityType, FS_EmptySet

LEMMA EndsAreWitnessed ==
    ConstantsFit /\ FewRules /\ CountInv => NoFalseEnds
  <1> SUFFICES ASSUME ConstantsFit, FewRules, CountInv,
                      NEW f \in Ids, stats[f].state = "answered", ~cards[f].loading
               PROVE  /\ cards[f].percent = 100 => Range(RulesOf(f)) \subseteq stats[f].ever
                      /\ cards[f].percent = 0 => Range(RulesOf(f)) \cap stats[f].always = {}
    BY DEF NoFalseEnds
  <1> DEFINE n == Len(RulesOf(f))
             passing == stats[f].passing
             Of1(S) == {i \in DOMAIN RulesOf(f) : RulesOf(f)[i] \in S}
             ever == Of1(stats[f].ever)
             always == Of1(stats[f].always)
  <1>1. /\ n \in 1 .. 199 /\ passing \in Nat /\ DOMAIN RulesOf(f) = 1 .. n
        /\ cards[f].percent = Percent(passing, n)
    BY RulesAreListed DEF FewRules, CountInv, Counted, Shown, Requests
  <1>2. passing >= Cardinality(always) /\ passing <= Cardinality(ever)
    BY CountsAreWitnessed DEF PercentIsWitnessed, Occurrences
  <1>3. n \in Nat /\ ever \in SUBSET (1 .. n) /\ always \in SUBSET (1 .. n)
    BY <1>1
  <1> HIDE DEF n, passing, ever, always
  <1>4. /\ Cardinality(ever) \in Nat /\ Cardinality(ever) <= n
        /\ Cardinality(ever) = n => ever = 1 .. n
    BY <1>3, PartsOfInterval
  <1>5. Cardinality(always) \in Nat /\ (Cardinality(always) = 0 => always = {})
    BY <1>3, PartsOfInterval
  <1>6. Range(RulesOf(f)) = {RulesOf(f)[i] : i \in 1 .. n}
    BY <1>1 DEF Range, n
  <1>7. passing \in 0 .. n
    BY <1>1, <1>2, <1>4
  <1>8. /\ cards[f].percent = 100 => passing = n
        /\ cards[f].percent = 0 => passing = 0
    <2>1. n \in 1 .. 199
      BY <1>1
    <2>2. /\ Percent(passing, n) = 100 <=> passing = n
          /\ Percent(passing, n) = 0 <=> passing = 0
      BY <1>7, <2>1, PercentEndsAreExact
    <2> QED
      BY <1>1, <2>2
  <1>9. ASSUME cards[f].percent = 100 PROVE Range(RulesOf(f)) \subseteq stats[f].ever
    <2>1. ever = 1 .. n
      BY <1>1, <1>2, <1>4, <1>8, <1>9
    <2> QED
      BY <1>6, <2>1 DEF ever
  <1>10. ASSUME cards[f].percent = 0 PROVE Range(RulesOf(f)) \cap stats[f].always = {}
    <2>1. always = {}
      BY <1>2, <1>5, <1>7, <1>8, <1>10
    <2> QED
      BY <1>1, <1>6, <2>1 DEF always
  <1> QED
    BY <1>9, <1>10

(* A card says 100% only if every rule of the framework passed at some     *)
(* moment of the request, and 0% only if each did not at some other, in    *)
(* frameworks of fewer than 200 rules                                      *)
(* (get_compliance_framework_stats.go:72).                                 *)
THEOREM EndsAreTrue == ConstantsFit /\ FewRules => (Spec => []NoFalseEnds)
  <1> SUFFICES ASSUME ConstantsFit, FewRules PROVE Spec => []NoFalseEnds
    OBVIOUS
  <1>1. CountInv => NoFalseEnds
    BY EndsAreWitnessed
  <1>2. Spec => []CountInv
    BY CountInvariant
  <1> QED
    BY <1>1, <1>2, PTL

-----------------------------------------------------------------------------
(* The report.                                                             *)

Boards == [Rules -> [Resources -> [verdict: Verdicts \cup {"absent"}, muted: BOOLEAN]]]
ReportStates == {"none", "asked", "read", "answered", "shown"}

(* A report is of a framework, and of results as a scan may leave them.    *)
ReportInv ==
    /\ board \in Boards
    /\ report \in [state: ReportStates, got: Boards]
    /\ page \in Ids \cup {"cards"}
    /\ page = "cards" => report.state = "none"

LEMMA BoardStep == board \in Boards /\ Alerts!Next => board' \in Boards
  <1> SUFFICES ASSUME board \in Boards, Alerts!Next PROVE board' \in Boards
    OBVIOUS
  <1> DEFINE Alert == [verdict: Verdicts \cup {"absent"}, muted: BOOLEAN]
  <1>1. ASSUME NEW r \in Rules, NEW row \in [Resources -> Alert],
               board' = [board EXCEPT ![r] = row]
        PROVE  board' \in Boards
    BY <1>1 DEF Boards
  <1>2. ASSUME NEW a \in Alert, NEW v \in Verdicts \cup {"absent"}
        PROVE  [a EXCEPT !.verdict = v] \in Alert
    BY <1>2
  <1>3. ASSUME NEW a \in Alert, NEW m \in BOOLEAN
        PROVE  [a EXCEPT !.muted = m] \in Alert
    BY <1>3, Zenon
  <1>4. Alerts!NoAlert \in Alert
    BY Zenon DEF Alerts!NoAlert
  <1>5. \A r \in Rules, x \in Resources : board[r] \in [Resources -> Alert] /\ board[r][x] \in Alert
    BY DEF Boards
  <1> HIDE DEF Alert
  <1>6. PICK r \in Rules : Alerts!Report(r) \/ Alerts!Retire(r) \/ \E x \in Resources : Alerts!Mute(r, x)
    BY DEF Alerts!Next
  <1>7. CASE Alerts!Report(r)
    <2>1. PICK found \in [Resources -> Verdicts \cup {"absent"}] :
            board' = [board EXCEPT ![r] = [x \in Resources |->
                        IF found[x] = "absent" THEN board[r][x]
                        ELSE [board[r][x] EXCEPT !.verdict = found[x]]]]
      BY <1>7 DEF Alerts!Report, Boards
    <2>2. \A x \in Resources : [board[r][x] EXCEPT !.verdict = found[x]] \in Alert
      BY <1>2, <1>5
    <2> DEFINE new == [x \in Resources |-> IF found[x] = "absent" THEN board[r][x]
                                            ELSE [board[r][x] EXCEPT !.verdict = found[x]]]
    <2>3. new \in [Resources -> Alert]
      BY <1>5, <2>2
    <2>4. board' = [board EXCEPT ![r] = new]
      BY <2>1
    <2> HIDE DEF new
    <2> QED
      BY <1>1, <2>3, <2>4
  <1>8. CASE Alerts!Retire(r)
    <2>1. board' = [board EXCEPT ![r] = [x \in Resources |->
                      IF latest[r][x] = "absent" THEN Alerts!NoAlert ELSE board[r][x]]]
      BY <1>8 DEF Alerts!Retire, Boards
    <2> QED
      BY <1>1, <1>4, <1>5, <2>1
  <1>9. ASSUME NEW x \in Resources, Alerts!Mute(r, x) PROVE board' \in Boards
    <2>1. PICK m \in BOOLEAN : board' = [board EXCEPT ![r][x].muted = m]
      BY <1>9 DEF Alerts!Mute
    <2>2. board' = [board EXCEPT ![r] = [board[r] EXCEPT ![x] = [board[r][x] EXCEPT !.muted = m]]]
      BY <2>1
    <2>3. [board[r] EXCEPT ![x] = [board[r][x] EXCEPT !.muted = m]] \in [Resources -> Alert]
      BY <1>3, <1>5
    <2> QED
      BY <1>1, <2>2, <2>3
  <1> QED
    BY <1>6, <1>7, <1>8, <1>9

LEMMA ReportInit == ConstantsFit /\ Init => ReportInv
  <1> SUFFICES ASSUME ConstantsFit, Init PROVE ReportInv
    OBVIOUS
  <1>1. Alerts!NoAlert \in [verdict: Verdicts \cup {"absent"}, muted: BOOLEAN]
    BY Zenon DEF Alerts!NoAlert
  <1>2. board \in Boards
    BY <1>1 DEF Init, Alerts!Init, Boards
  <1>3. report \in [state: ReportStates, got: Boards] /\ report.state = "none"
    BY <1>2 DEF Init, NoReport, ReportStates
  <1> QED
    BY <1>2, <1>3 DEF Init, ReportInv

LEMMA ReportStep == ConstantsFit /\ ReportInv /\ [Next]_vars => ReportInv'
  <1> SUFFICES ASSUME ConstantsFit, ReportInv, [Next]_vars PROVE ReportInv'
    OBVIOUS
  <1>1. "cards" \notin Ids
    BY DEF ConstantsFit
  <1>2. ASSUME UNCHANGED <<board, page, report>> PROVE ReportInv'
    BY <1>2 DEF ReportInv
  <1>3. ASSUME NEW state \in ReportStates, report' = [report EXCEPT !.state = state],
               report.state # "none", UNCHANGED <<board, page>>
        PROVE  ReportInv'
    BY <1>3 DEF ReportInv
  <1>4. ASSUME NEW state \in ReportStates, report' = [state |-> state, got |-> board],
               board' = board, page' \in Ids \cup {"cards"}, page' = "cards" => state = "none"
        PROVE  ReportInv'
    BY <1>4 DEF ReportInv
  <1>5. ReportStates = {"none", "asked", "read", "answered", "shown"}
    BY DEF ReportStates
  <1>6. CASE Write
    BY <1>6, BoardStep DEF Write, ReportInv
  <1>7. CASE ReadResults
    <2>1. page \in Ids \cup {"cards"} /\ page # "cards"
      BY <1>7 DEF ReadResults, ReportInv
    <2> QED
      BY <1>4, <1>5, <1>7, <2>1 DEF ReadResults
  <1>8. CASE ReadRules
    <2>1. page \in Ids \cup {"cards"} /\ page # "cards"
      BY <1>8 DEF ReadRules, ReportInv
    <2>2. \/ report' = [report EXCEPT !.state = "answered"]
          \/ report' = [state |-> "none", got |-> board]
      BY <1>8 DEF ReadRules, NoReport
    <2> QED
      BY <1>3, <1>4, <1>5, <1>8, <2>1, <2>2 DEF ReadRules
  <1>9. CASE getComplianceFramework
    BY <1>3, <1>5, <1>9 DEF getComplianceFramework
  <1>10. CASE ReportFails \/ OpenCards
    <2>1. /\ report' = [state |-> "none", got |-> board] /\ board' = board
          /\ page' \in Ids \cup {"cards"}
      BY <1>10 DEF ReportFails, OpenCards, NoReport, ReportInv
    <2> QED
      BY <1>4, <1>5, <2>1
  <1>11. ASSUME NEW f \in Ids, OpenReport(f) PROVE ReportInv'
    <2>1. page' = f /\ report' = [state |-> "asked", got |-> board] /\ board' = board
      BY <1>11 DEF OpenReport
    <2> QED
      BY <1>1, <1>4, <1>5, <2>1
  <1>12. ASSUME NEW f \in Ids, CountRule(f) \/ StatsAnswer(f)
                \/ getComplianceFrameworkStats(f) \/ StatsFail(f)
         PROVE  ReportInv'
    BY <1>2, <1>12 DEF CountRule, StatsAnswer, getComplianceFrameworkStats, StatsFail
  <1>13. ASSUME NEW c, NEW i, flipOpenControl(c) \/ flipOpenRule(c, i) PROVE ReportInv'
    BY <1>2, <1>13 DEF flipOpenControl, flipOpenRule
  <1>14. CASE UNCHANGED vars
    BY <1>2, <1>14 DEF vars
  <1> QED
    BY <1>6, <1>7, <1>8, <1>9, <1>10, <1>11, <1>12, <1>13, <1>14 DEF Next, Backend

(* Rows are as many as the resources they are of.                          *)
LEMMA RowsAreResources ==
    ASSUME ConstantsFit, NEW b, NEW r, NEW Y \in SUBSET Resources
    PROVE  Cardinality({[resource |-> x, status |-> b[r][x].verdict] : x \in Y}) = Cardinality(Y)
  <1> DEFINE row(x) == [resource |-> x, status |-> b[r][x].verdict]
             T == {row(x) : x \in Y}
             g == [x \in Y |-> row(x)]
  <1>1. IsFiniteSet(Y)
    BY FS_Subset DEF ConstantsFit
  <1>2. \A x, y \in Y : row(x) = row(y) => x = y
    <2>1. \A x : row(x).resource = x
      OBVIOUS
    <2> HIDE DEF row
    <2> QED
      BY <2>1
  <1> HIDE DEF row
  <1>3. g \in [Y -> T] /\ \A x \in Y : g[x] = row(x)
    OBVIOUS
  <1>4. (\A x, y \in Y : g[x] = g[y] => x = y) /\ (\A t \in T : \E x \in Y : g[x] = t)
    BY <1>2, <1>3
  <1> HIDE DEF g, T
  <1>5. g \in Bijection(Y, T)
    BY <1>3, <1>4 DEF Bijection, Injection, Surjection, IsInjective
  <1>6. ExistsBijection(Y, T)
    BY <1>5 DEF ExistsBijection
  <1>7. Cardinality(T) = Cardinality(Y)
    BY <1>1, <1>6, FS_Bijection
  <1> QED
    BY <1>7 DEF T, row

LEMMA TablesOfOneRule ==
    ASSUME ConstantsFit, NEW b \in Boards, NEW r \in Rules
    PROVE  LET rows == ResourceRows(b, r)
               n == computePassingAlerts(b, r)
           IN  /\ n = [passing |-> Cardinality({row \in rows : row.status = "passed"}),
                       total |-> Cardinality(rows)]
               /\ n.passing = n.total <=> Passes(b, r)
               /\ Of(b, r, "failed") = {} <=> Passes(b, r)
  <1> DEFINE P == Of(b, r, "passed")
             F == Of(b, r, "failed")
             Image(Y) == {[resource |-> x, status |-> b[r][x].verdict] : x \in Y}
  <1>1. \A x \in Resources : b[r][x].verdict \in {"failed", "passed", "absent"}
    BY DEF Boards, Verdicts
  <1>2. /\ P \in SUBSET Resources /\ F \in SUBSET Resources /\ P \cup F \in SUBSET Resources
        /\ P \cap F = {}
        /\ F = {} <=> Passes(b, r)
    BY DEF Of, Passes
  <1>3. P \cup F = {y \in Resources : b[r][y].verdict # "absent"}
    BY <1>1 DEF Of
  <1>4. ResourceRows(b, r) = Image(P \cup F)
    BY <1>3 DEF ResourceRows
  <1>5. {row \in Image(P \cup F) : row.status = "passed"} = Image(P)
    BY DEF Of
  <1>6. Cardinality(Image(P)) = Cardinality(P) /\ Cardinality(Image(P \cup F)) = Cardinality(P \cup F)
    BY <1>2, RowsAreResources
  <1>7. IsFiniteSet(P \cup F) /\ P \in SUBSET (P \cup F)
    BY <1>2, FS_Subset DEF ConstantsFit
  <1>8. Cardinality(P) = Cardinality(P \cup F) <=> F = {}
    <2>1. ASSUME Cardinality(P) = Cardinality(P \cup F) PROVE F = {}
      <3>1. P \cup F = P
        BY <1>7, <2>1, FS_Subset
      <3> QED
        BY <1>2, <3>1
    <2> QED
      BY <2>1
  <1> HIDE DEF P, F, Image
  <1>9. computePassingAlerts(b, r) = [passing |-> Cardinality(P), total |-> Cardinality(P \cup F)]
    BY DEF computePassingAlerts, P, F
  <1> QED
    BY <1>2, <1>4, <1>5, <1>6, <1>8, <1>9 DEF F

LEMMA ReportTablesAgree == ConstantsFit /\ ReportInv => TablesAgree
  <1> SUFFICES ASSUME ConstantsFit, ReportInv, report.state = "shown",
                      NEW c \in DOMAIN Controls(page)
               PROVE  LET rules == Controls(page)[c]
                          full == {i \in DOMAIN rules :
                              LET n == computePassingAlerts(report.got, rules[i])
                              IN  n.passing = n.total}
                      IN  /\ \A i \in DOMAIN rules :
                                LET rows == ResourceRows(report.got, rules[i]) IN
                                computePassingAlerts(report.got, rules[i]) =
                                    [passing |-> Cardinality({row \in rows : row.status = "passed"}),
                                     total |-> Cardinality(rows)]
                          /\ computePassingRules(report.got, rules) = Cardinality(full)
                          /\ full = {i \in DOMAIN rules : Passes(report.got, rules[i])}
    BY DEF TablesAgree
  <1>1. page \in Ids /\ report.got \in Boards
    BY DEF ReportInv
  <1>2. Controls(page) \in Seq(Seq(Rules))
    BY <1>1 DEF ConstantsFit
  <1> DEFINE rules == Controls(page)[c]
  <1>3. rules \in Seq(Rules)
    BY <1>2
  <1>4. \A i \in DOMAIN rules : rules[i] \in Rules
    BY <1>3
  <1> HIDE DEF rules
  <1> DEFINE got == report.got
             passing == {i \in DOMAIN rules : Passes(got, rules[i])}
  <1>5. \A i \in DOMAIN rules :
          LET rows == ResourceRows(got, rules[i])
              n == computePassingAlerts(got, rules[i])
          IN  /\ n = [passing |-> Cardinality({row \in rows : row.status = "passed"}),
                      total |-> Cardinality(rows)]
              /\ n.passing = n.total <=> Passes(got, rules[i])
              /\ Of(got, rules[i], "failed") = {} <=> Passes(got, rules[i])
    BY <1>1, <1>4, TablesOfOneRule
  <1>6. {i \in DOMAIN rules : Of(got, rules[i], "failed") = {}} = passing
    BY <1>5
  <1>7. {i \in DOMAIN rules : LET n == computePassingAlerts(got, rules[i])
                              IN  n.passing = n.total} = passing
    BY <1>5
  <1>8. computePassingRules(got, rules) = Cardinality(passing)
    BY <1>6 DEF computePassingRules
  <1> QED
    BY <1>5, <1>7, <1>8 DEF rules

(* The three tables of a report and the backend's count agree: a rule      *)
(* passes for its control iff all its resources do, and so for the backend *)
(* (ComplianceTable.tsx:7, ComplianceRuleTable.tsx:7).                     *)
THEOREM ReportsAgree == ConstantsFit => (Spec => []TablesAgree)
  <1> SUFFICES ASSUME ConstantsFit PROVE Spec => []TablesAgree
    OBVIOUS
  <1>1. Init => ReportInv
    BY ReportInit
  <1>2. ReportInv /\ [Next]_vars => ReportInv'
    BY ReportStep
  <1>3. ReportInv => TablesAgree
    BY ReportTablesAgree
  <1> QED
    BY <1>1, <1>2, <1>3, PTL DEF Spec

-----------------------------------------------------------------------------
(* Types.                                                                  *)

(* What is counted and reported has its type by the invariants above; this *)
(* is the rest.                                                            *)
RestTyped ==
    /\ \A f \in Ids : /\ stats[f].at <= Len(RulesOf(f)) + 1
                      /\ cards[f] \in [percent: 0 .. 100, loading: BOOLEAN]
    /\ open # {} => report.state = "shown"
    /\ writes \in 0 .. MaxWrites /\ faults \in 0 .. MaxFaults

LEMMA TypesInParts == CountInv /\ ReportInv /\ RestTyped => TypeOK
  <1> SUFFICES ASSUME CountInv, ReportInv, RestTyped PROVE TypeOK
    OBVIOUS
  <1>1. cards \in [Ids -> [percent: 0 .. 100, loading: BOOLEAN]]
    BY DEF CountInv, RestTyped
  <1> QED
    BY <1>1 DEF CountInv, ReportInv, RestTyped, TypeOK, Requests, ReportStates

LEMMA RestInit == ConstantsFit /\ Init => RestTyped
  <1> SUFFICES ASSUME ConstantsFit, Init PROVE RestTyped
    OBVIOUS
  <1>1. ASSUME NEW f \in Ids
        PROVE  stats[f].at <= Len(RulesOf(f)) + 1 /\ cards[f] \in [percent: 0 .. 100, loading: BOOLEAN]
    <2>1. stats[f].at = 1 /\ cards[f] = [percent |-> 0, loading |-> TRUE]
      BY DEF Init, Asked, Idle, NoCard
    <2>2. Len(RulesOf(f)) \in Nat
      BY RulesAreListed
    <2> QED
      BY <2>1, <2>2
  <1>2. open = {} /\ writes = 0 /\ faults = 0 /\ MaxWrites \in Nat /\ MaxFaults \in Nat
    BY DEF Init, ConstantsFit
  <1> QED
    BY <1>1, <1>2 DEF RestTyped

(* A card shows a percentage.                                              *)
LEMMA PercentIsOne ==
    ASSUME ConstantsFit, FewRules, CountInv, NEW f \in Ids, stats[f].state = "answered"
    PROVE  Percent(stats[f].passing, Len(RulesOf(f))) \in 0 .. 100
  <1> DEFINE n == Len(RulesOf(f))
             passing == stats[f].passing
             ever == {i \in DOMAIN RulesOf(f) : RulesOf(f)[i] \in stats[f].ever}
  <1>1. n \in 1 .. 199 /\ passing \in Nat /\ DOMAIN RulesOf(f) = 1 .. n
    BY RulesAreListed DEF FewRules, CountInv, Counted, Requests
  <1>2. passing <= Cardinality(ever)
    BY CountsAreWitnessed DEF PercentIsWitnessed, Occurrences
  <1>3. n \in Nat /\ ever \in SUBSET (1 .. n)
    BY <1>1
  <1> HIDE DEF n, passing, ever
  <1>4. Cardinality(ever) \in Nat /\ Cardinality(ever) <= n
    BY <1>3, PartsOfInterval
  <1>5. passing \in 0 .. n
    <2>1. \A k \in Nat : passing <= k /\ k <= n => passing \in 0 .. n
      BY <1>1, <1>3
    <2> QED
      BY <1>2, <1>4, <2>1
  <1> QED
    BY <1>1, <1>5, PercentEndsAreExact DEF n, passing

LEMMA RestStep ==
    ASSUME ConstantsFit, FewRules, CountInv, ReportInv, RestTyped, [Next]_vars
    PROVE  RestTyped'
  <1> DEFINE Limit(f) == Len(RulesOf(f)) + 1
             Card == [percent: 0 .. 100, loading: BOOLEAN]
  <1>1. /\ stats \in [Ids -> Requests] /\ cards = [f \in Ids |-> cards[f]]
        /\ \A f \in Ids : stats[f].at \in Nat /\ stats[f].at <= Limit(f)
        /\ \A f \in Ids : cards[f] \in Card
        /\ \A f \in Ids : Limit(f) \in Nat /\ 1 <= Limit(f)
        /\ open # {} => report.state = "shown"
        /\ writes \in 0 .. MaxWrites /\ faults \in 0 .. MaxFaults
        /\ MaxWrites \in Nat /\ MaxFaults \in Nat
    BY RulesAreListed DEF CountInv, RestTyped, Requests, ConstantsFit
  <1>2. SUFFICES /\ \A f \in Ids : stats'[f].at <= Limit(f) /\ cards'[f] \in Card
                 /\ open' # {} => report'.state = "shown"
                 /\ writes' \in 0 .. MaxWrites /\ faults' \in 0 .. MaxFaults
    BY DEF RestTyped
  <1>3. Idle.at = 1 /\ Asked.at = 1 /\ NoCard \in Card /\ [percent |-> 0, loading |-> FALSE] \in Card
    BY DEF Idle, Asked, NoCard
  <1> HIDE DEF Limit, Card
  <1>4. CASE Write
    <2>1. /\ UNCHANGED <<faults, cards, report, open>>
          /\ writes < MaxWrites /\ writes' = writes + 1
      BY <1>4 DEF Write
    <2>2. \A f \in Ids : stats'[f].at = stats[f].at
      BY <1>1, <1>4 DEF Write, Requests
    <2>3. writes' \in 0 .. MaxWrites
      BY <1>1, <2>1
    <2> QED
      BY <1>1, <2>1, <2>2, <2>3
  <1>5. ASSUME NEW f \in Ids, CountRule(f) \/ StatsAnswer(f) PROVE <1>2!1
    <2>1. UNCHANGED <<writes, faults, cards, report, open>>
      BY <1>5 DEF CountRule, StatsAnswer
    <2>2. \A g \in Ids : stats'[g].at <= Limit(g)
      <3>1. CASE CountRule(f)
        <4>1. /\ \A g \in Ids : g # f => stats'[g] = stats[g]
              /\ stats'[f].at = stats[f].at + 1 /\ stats[f].at <= Len(RulesOf(f))
          BY <1>1, <3>1 DEF CountRule, Requests
        <4>2. Len(RulesOf(f)) \in Nat /\ Limit(f) = Len(RulesOf(f)) + 1
          BY RulesAreListed DEF Limit
        <4>3. stats'[f].at <= Limit(f)
          BY <1>1, <4>1, <4>2
        <4> QED
          BY <1>1, <4>1, <4>3
      <3>2. CASE StatsAnswer(f)
        <4>1. \A g \in Ids : stats'[g].at = stats[g].at
          BY <1>1, <3>2 DEF StatsAnswer, Requests
        <4> QED
          BY <1>1, <4>1
      <3> QED
        BY <1>5, <3>1, <3>2
    <2> QED
      BY <1>1, <2>1, <2>2
  <1>6. ASSUME NEW f \in Ids, getComplianceFrameworkStats(f) PROVE <1>2!1
    <2> DEFINE p == Percent(stats[f].passing, Len(RulesOf(f)))
    <2>1. UNCHANGED <<writes, faults, stats, report, open>> /\ stats[f].state = "answered"
          /\ cards' = [cards EXCEPT ![f] = [percent |-> p, loading |-> FALSE]]
      BY <1>6 DEF getComplianceFrameworkStats
    <2>2. p \in 0 .. 100
      BY <2>1, PercentIsOne
    <2> HIDE DEF p
    <2>3. [percent |-> p, loading |-> FALSE] \in Card
      BY <2>2 DEF Card
    <2>4. \A g \in Ids : cards'[g] \in Card
      BY <1>1, <2>1, <2>3
    <2> QED
      BY <1>1, <2>1, <2>4
  <1>7. ASSUME NEW f \in Ids, StatsFail(f) PROVE <1>2!1
    <2>1. UNCHANGED <<writes, report, open>> /\ stats' = [stats EXCEPT ![f] = Idle]
          /\ cards' = [cards EXCEPT ![f] = [percent |-> 0, loading |-> FALSE]]
          /\ faults < MaxFaults /\ faults' = faults + 1
      BY <1>7 DEF StatsFail
    <2>2. \A g \in Ids : stats'[g].at <= Limit(g) /\ cards'[g] \in Card
      BY <1>1, <1>3, <2>1
    <2>3. faults' \in 0 .. MaxFaults
      BY <1>1, <2>1
    <2> QED
      BY <1>1, <2>1, <2>2, <2>3
  <1>8. ASSUME NEW f \in Ids, OpenReport(f) PROVE <1>2!1
    <2>1. /\ stats' = [g \in Ids |-> Idle] /\ cards' = [g \in Ids |-> NoCard] /\ open' = {}
          /\ UNCHANGED <<writes, faults>>
      BY <1>8 DEF OpenReport
    <2> QED
      BY <1>1, <1>3, <2>1
  <1>9. CASE OpenCards
    <2>1. /\ stats' = [f \in Ids |-> Asked] /\ open' = {} /\ UNCHANGED <<writes, faults, cards>>
      BY <1>9 DEF OpenCards
    <2> QED
      BY <1>1, <1>3, <2>1
  <1>10. CASE ReadResults \/ ReadRules \/ getComplianceFramework
    <2>1. UNCHANGED <<writes, faults, stats, cards, open>> /\ report.state # "shown"
      BY <1>10 DEF ReadResults, ReadRules, getComplianceFramework
    <2> QED
      BY <1>1, <2>1
  <1>11. CASE ReportFails
    <2>1. UNCHANGED <<writes, stats, cards, open>> /\ report.state # "shown"
          /\ faults < MaxFaults /\ faults' = faults + 1
      BY <1>11 DEF ReportFails
    <2>2. faults' \in 0 .. MaxFaults
      BY <1>1, <2>1
    <2> QED
      BY <1>1, <2>1, <2>2
  <1>12. ASSUME NEW c, NEW i, report.state = "shown", flipOpenControl(c) \/ flipOpenRule(c, i)
         PROVE  <1>2!1
    <2>1. UNCHANGED <<writes, faults, stats, cards, report>>
      BY <1>12 DEF flipOpenControl, flipOpenRule
    <2> QED
      BY <1>1, <1>12, <2>1
  <1>13. CASE UNCHANGED vars
    BY <1>1, <1>13 DEF vars
  <1> QED
    BY <1>4, <1>5, <1>6, <1>7, <1>8, <1>9, <1>10, <1>11, <1>12, <1>13 DEF Next, Backend
=============================================================================
