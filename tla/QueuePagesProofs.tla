-------------------------- MODULE QueuePagesProofs --------------------------
(***************************************************************************)
(* What the pages of the queue and the dashboard promise the admin, for    *)
(* every number of rows, tokens and page sizes.                            *)
(*                                                                         *)
(* The walk is about the order of the rows: the rank of a row is how many  *)
(* rows of the selection are newer, and the walk has covered the ranks     *)
(* below a number that only a page moves. New rows raise ranks (a row may  *)
(* be shown again, none is jumped over), rows that leave lower them.       *)
(***************************************************************************)
EXTENDS QueuePages, FiniteSetTheorems, WellFoundedInduction, TLAPS

-----------------------------------------------------------------------------
(* The inductive invariant.                                                *)

\* Ids are given in sequence, and no id has a clock that ticked more often.
Inserted ==
  /\ \E n \in 0..MaxId : \A m \in Ids : status[m] # "none" <=> m <= n
  /\ \A m \in Ids : second[m] <= m

\* Each page of the walk shows a row at most once, and none is shown before.
ShownPerPage ==
  /\ place = "idle" => page = 1
  /\ \A m \in Ids : shown[m] <= IF place \in {"listed", "end"} THEN page ELSE page - 1

MustThere == \A m \in must : status[m] # "none"

TypeInv == TypeOK /\ Inserted /\ ShownPerPage /\ MustThere

Newer(S, m) == {k \in S : second[k] > second[m]}

Rank(m) == Cardinality(Newer(Match, m))

Distinct(S) == \A m, n \in S : m # n => second[m] # second[n]

Walking == place \in {"counted", "listed", "end"}

\* The ranks below this one have been on a page.
Covered == IF place = "counted" THEN (page-1) * PerPage ELSE page * PerPage

\* While no row comes in, a row that has been shown stays among the covered ones.
Repeats ==
  Walking /\ ~entered /\ Distinct(must) =>
    /\ Match \subseteq must
    /\ \A m \in Ids : shown[m] <= 1
    /\ \A m \in Match : shown[m] > 0 => Rank(m) < Covered

\* While no row leaves, a row that is covered has been shown; and the count of
\* a page is right when its rows are listed.
Misses ==
  Walking /\ ~left /\ ~slipped /\ Distinct(Match) =>
    /\ must \subseteq Match
    /\ \A m \in must : Rank(m) < Covered => shown[m] > 0
    /\ place = "counted" => total = Cardinality(Match)
    /\ place # "counted" /\ total <= page * PerPage => \A m \in must : shown[m] > 0

Ended == place = "end" => total <= page * PerPage

\* What has been read of the dashboard is what a query would say now.
Fresh ==
  ~changed =>
    /\ "stats" \in DOMAIN dashboard => dashboard["stats"] = GetDashboardStats
    /\ "hourly" \in DOMAIN dashboard => dashboard["hourly"] = GetHourlyStats
    /\ "recent" \in DOMAIN dashboard => dashboard["recent"] \in GetRecentMessages
    /\ "tokens" \in DOMAIN dashboard => dashboard["tokens"] = GetTokenStats

\* A dashboard has the totals; nothing is read before.
PartsThere ==
  /\ place = "idle" => DOMAIN dashboard = {}
  /\ place \in {"stats", "hourly", "recent", "tokens"} => "stats" \in DOMAIN dashboard

-----------------------------------------------------------------------------
(* Numbers and sets.                                                       *)

USE PageAssumption, BoundsAssumption, HourAssumption

\* The smaller of two numbers.
LEMMA MinOfTwo ==
  ASSUME NEW a \in Int, NEW b \in Int
  PROVE  Min({a, b}) = IF a <= b THEN a ELSE b
<1> DEFINE min == IF a <= b THEN a ELSE b
<1>1. min \in {a, b} /\ \A y \in {a, b} : min <= y  OBVIOUS
<1>2. ASSUME NEW x \in {a, b}, \A y \in {a, b} : x <= y  PROVE x = min  BY <1>2
<1> QED BY <1>1, <1>2 DEF Min

\* A page that is not the last one ends before the last row.
LEMMA PagesLemma ==
  ASSUME NEW p \in Nat \ {0}, NEW n \in Nat
  PROVE  p < Pages(n) <=> p * PerPage < n
<1> DEFINE q == n \div PerPage
           r == n % PerPage
<1>1. q \in Nat /\ r \in 0..(PerPage-1) /\ n = q * PerPage + r  OBVIOUS
<1> HIDE DEF q, r
<1>2. ASSUME p < q  PROVE p * PerPage < n
  <2>1. PICK d \in Nat : q = p + 1 + d  BY <1>2, <1>1
  <2>2. q * PerPage = p * PerPage + PerPage + d * PerPage  BY <2>1
  <2>3. d * PerPage \in Nat /\ p * PerPage \in Nat  BY <2>1
  <2> QED BY <1>1, <2>2, <2>3
<1>3. ASSUME p > q  PROVE p * PerPage >= n
  <2>1. PICK d \in Nat : p = q + 1 + d  BY <1>3, <1>1
  <2>2. p * PerPage = q * PerPage + PerPage + d * PerPage  BY <2>1, <1>1
  <2>3. d * PerPage \in Nat /\ q * PerPage \in Nat  BY <2>1, <1>1
  <2> QED BY <1>1, <2>2, <2>3
<1>4. ASSUME p = q  PROVE p * PerPage < n <=> r > 0
  BY <1>1, <1>4
<1>5. Pages(n) = LET full == q + (IF r > 0 THEN 1 ELSE 0) IN IF full < 1 THEN 1 ELSE full
  BY DEF Pages, q, r
<1>6. CASE p < q  BY <1>1, <1>2, <1>5, <1>6
<1>7. CASE p > q  BY <1>1, <1>3, <1>5, <1>7
<1>8. CASE p = q  BY <1>1, <1>4, <1>5, <1>8
<1> QED BY <1>1, <1>6, <1>7, <1>8

\* More rows have no fewer pages.
LEMMA PagesGrow ==
  ASSUME NEW k \in Nat, NEW n \in Nat, k <= n, NEW p \in Nat \ {0}, p < Pages(k)
  PROVE  p + 1 \in 1..Pages(n)
<1>1. Pages(n) \in Nat \ {0}
  <2>1. n \div PerPage \in Nat /\ n % PerPage \in 0..(PerPage-1)  OBVIOUS
  <2> QED BY <2>1 DEF Pages
<1>2. p * PerPage < k  BY PagesLemma
<1>3. p * PerPage \in Nat  OBVIOUS
<1>4. p < Pages(n)  BY <1>2, <1>3, PagesLemma
<1> QED BY <1>1, <1>4

\* Ids are finitely many, and so are their subsets.
LEMMA IdsFinite ==
  /\ IsFiniteSet(Ids)
  /\ Cardinality(Ids) = MaxId
  /\ \A S \in SUBSET Ids : IsFiniteSet(S) /\ Cardinality(S) \in 0..MaxId
<1>1. IsFiniteSet(Ids) /\ Cardinality(Ids) = MaxId  BY FS_Interval DEF Ids
<1> QED BY <1>1, FS_Subset, FS_CardinalityType

\* A proper subset is smaller.
LEMMA ProperSubset ==
  ASSUME NEW S, IsFiniteSet(S), NEW T \in SUBSET S, T # S
  PROVE  Cardinality(T) < Cardinality(S)
BY FS_Subset, FS_CardinalityType

-----------------------------------------------------------------------------
(* The newest rows.                                                        *)

\* The n newest rows of S: as many as there are, and if no two of S have the same
\* second, those with fewer than n newer ones.
LEMMA NewestIsRank ==
  ASSUME NEW S, IsFiniteSet(S), \A m \in S : second[m] \in Nat, NEW n \in Nat,
         Distinct(S), NEW A \in Newest(S, n)
  PROVE  /\ A \subseteq S
         /\ \A m \in S : m \in A <=> Cardinality(Newer(S, m)) < n
         /\ A # S => Cardinality(A) = n
<1>1. Cardinality(S) \in Nat  BY FS_CardinalityType
<1>2. /\ A \in SUBSET S
      /\ Cardinality(A) = IF n <= Cardinality(S) THEN n ELSE Cardinality(S)
      /\ \A a \in A, b \in S \ A : second[a] >= second[b]
  BY <1>1, MinOfTwo DEF Newest, kSubset
<1>3. IsFiniteSet(A) /\ Cardinality(A) \in Nat  BY <1>2, FS_Subset, FS_CardinalityType
<1>4. A # S => Cardinality(A) = n  BY <1>1, <1>2, <1>3, ProperSubset
<1>5. ASSUME NEW m \in A  PROVE Cardinality(Newer(S, m)) < n
  <2>1. Newer(S, m) \subseteq A \ {m}  BY <1>2 DEF Newer
  <2>2. IsFiniteSet(A \ {m}) /\ Cardinality(A \ {m}) = Cardinality(A) - 1
    BY <1>3, FS_RemoveElement
  <2>3. Cardinality(Newer(S, m)) <= Cardinality(A) - 1  BY <2>1, <2>2, FS_Subset
  <2>4. Cardinality(Newer(S, m)) \in Nat  BY <2>1, <2>2, FS_Subset, FS_CardinalityType
  <2> QED BY <1>1, <1>2, <1>3, <2>3, <2>4
<1>6. ASSUME NEW m \in S \ A  PROVE ~(Cardinality(Newer(S, m)) < n)
  <2>1. A \subseteq Newer(S, m)
    <3> SUFFICES ASSUME NEW k \in A  PROVE second[k] > second[m]  BY <1>2 DEF Newer
    <3>1. second[k] >= second[m] /\ second[k] # second[m]  BY <1>2, <1>6 DEF Distinct
    <3>2. second[k] \in Nat /\ second[m] \in Nat  BY <1>2, <1>6
    <3> QED BY <3>1, <3>2
  <2>2. IsFiniteSet(Newer(S, m)) /\ Cardinality(Newer(S, m)) \in Nat
    BY FS_Subset, FS_CardinalityType DEF Newer
  <2>3. Cardinality(A) <= Cardinality(Newer(S, m))  BY <2>1, <2>2, FS_Subset
  <2>4. Cardinality(A) = n  BY <1>4, <1>6
  <2> QED BY <2>2, <2>3, <2>4
<1> QED BY <1>2, <1>4, <1>5, <1>6

\* So page p has the rows with ranks from (p-1) * PerPage to p * PerPage - 1.
LEMMA PageIsRanks ==
  ASSUME NEW S, IsFiniteSet(S), \A m \in S : second[m] \in Nat, Distinct(S),
         NEW a \in Nat, NEW b \in Nat,
         NEW skipped \in Newest(S, a), NEW onPage \in Newest(S \ skipped, b)
  PROVE  /\ onPage \subseteq S
         /\ \A m \in S : /\ m \in skipped <=> Cardinality(Newer(S, m)) < a
                         /\ m \in onPage <=> Cardinality(Newer(S, m)) \in a..(a+b-1)
<1> DEFINE R == S \ skipped
<1>1. /\ skipped \subseteq S
      /\ \A m \in S : m \in skipped <=> Cardinality(Newer(S, m)) < a
      /\ skipped # S => Cardinality(skipped) = a
  BY NewestIsRank
<1>2. IsFiniteSet(R) /\ Distinct(R) /\ \A m \in R : second[m] \in Nat
  BY FS_Subset DEF Distinct
<1>3. onPage \subseteq R /\ \A m \in R : m \in onPage <=> Cardinality(Newer(R, m)) < b
  <2> HIDE DEF R
  <2>1. onPage \in Newest(R, b)  BY DEF R
  <2> QED BY <1>2, <2>1, NewestIsRank
<1>4. ASSUME NEW m \in R
      PROVE  /\ Cardinality(Newer(S, m)) = a + Cardinality(Newer(R, m))
             /\ Cardinality(Newer(R, m)) \in Nat
  <2>1. IsFiniteSet(Newer(S, m)) /\ Cardinality(Newer(S, m)) \in Nat
    BY FS_Subset, FS_CardinalityType DEF Newer
  <2>2. IsFiniteSet(Newer(R, m)) /\ Cardinality(Newer(R, m)) \in Nat
    BY <1>2, FS_Subset, FS_CardinalityType DEF Newer
  <2>3. skipped \subseteq Newer(S, m)
    <3> SUFFICES ASSUME NEW k \in skipped  PROVE second[k] > second[m]
      BY <1>1 DEF Newer
    <3>1. Cardinality(skipped) \in Nat /\ IsFiniteSet(skipped)
      BY <1>1, FS_Subset, FS_CardinalityType
    <3>2. \A x \in skipped, y \in S \ skipped : second[x] >= second[y]  BY DEF Newest
    <3>3. second[k] # second[m] /\ second[k] \in Nat /\ second[m] \in Nat
      BY <1>1 DEF Distinct
    <3>4. second[k] >= second[m]  BY <3>2
    <3> QED BY <3>3, <3>4
  <2>4. IsFiniteSet(skipped)  BY <1>1, FS_Subset
  <2>5. Newer(S, m) = skipped \cup Newer(R, m) /\ skipped \cap Newer(R, m) = {}
    BY <1>1, <2>3 DEF Newer
  <2>6. Cardinality(Newer(S, m)) = Cardinality(skipped) + Cardinality(Newer(R, m)) - 0
    BY <2>2, <2>4, <2>5, FS_Union, FS_EmptySet
  <2>7. Cardinality(skipped) = a  BY <1>1
  <2> QED BY <2>2, <2>6, <2>7
<1>5. ASSUME NEW m \in S
      PROVE  m \in onPage <=> Cardinality(Newer(S, m)) \in a..(a+b-1)
  <2>1. CASE m \in R
    <3>1. m \in onPage <=> Cardinality(Newer(R, m)) < b  BY <1>3, <2>1
    <3>2. /\ Cardinality(Newer(S, m)) = a + Cardinality(Newer(R, m))
          /\ Cardinality(Newer(R, m)) \in Nat
      BY <1>4, <2>1
    <3> QED BY <3>1, <3>2
  <2>2. CASE m \in skipped
    <3>1. m \notin onPage  BY <1>3, <2>2
    <3> QED BY <1>1, <2>2, <3>1
  <2> QED BY <2>1, <2>2
<1> QED BY <1>1, <1>3, <1>5

-----------------------------------------------------------------------------
(* What the others do to the table, as the walk sees it.                   *)

Others == InsertRow \/ \E m \in Ids : ChangeRow(m)

\* The last id in use is the number of ids in use.
LEMMA LastIdLemma ==
  ASSUME TypeInv
  PROVE  /\ LastId \in 0..MaxId
         /\ \A m \in Ids : status[m] # "none" <=> m <= LastId
<1>1. PICK n \in 0..MaxId : \A m \in Ids : status[m] # "none" <=> m <= n
  BY DEF TypeInv, Inserted
<1>2. {m \in Ids : status[m] # "none"} = 1..n  BY <1>1 DEF Ids
<1>3. LastId = n
  <2>1. 1 \in Int /\ n \in Int /\ n >= 0  OBVIOUS
  <2>2. Cardinality(1..n) = n  BY <2>1, FS_Interval
  <2> QED BY <1>2, <2>2 DEF LastId
<1> QED BY <1>1, <1>3

\* Rows stay what they were, but for their status; the history tells what came
\* in and what left.
LEMMA OthersLemma ==
  ASSUME TypeInv, Others
  PROVE  /\ UNCHANGED <<place, filter, page, total, shown, dashboard, must>>
         /\ place \notin {"idle", "end", "tokens"}
         /\ \A m \in Ids : status[m] # "none" =>
              status'[m] # "none" /\ second'[m] = second[m]
         /\ left' = (left \/ Match \ Match' # {})
         /\ entered' = (entered \/ Match' \ Match # {})
         /\ slipped' = (slipped \/ (Match' \ Match # {} /\ place = "counted"))
         /\ changed' = TRUE
         /\ events' \in 0..MaxEvents
<1>1. Noticed(status') /\ place \notin {"idle", "end", "tokens"}
  BY DEF Others, InsertRow, ChangeRow, Reading
<1>2. /\ UNCHANGED <<place, filter, page, total, shown, dashboard, must>>
      /\ changed' = TRUE
  BY <1>1 DEF Noticed, walk
<1>3. Match' = Matching(status', filter)  BY <1>2 DEF Match
<1>4. /\ left' = (left \/ Match \ Match' # {})
      /\ entered' = (entered \/ Match' \ Match # {})
      /\ slipped' = (slipped \/ (Match' \ Match # {} /\ place = "counted"))
  BY <1>1, <1>3 DEF Noticed
<1>5. events' \in 0..MaxEvents  BY <1>1 DEF Noticed, TypeInv, TypeOK
<1>6. ASSUME NEW m \in Ids, status[m] # "none"
      PROVE  status'[m] # "none" /\ second'[m] = second[m]
  <2>1. CASE InsertRow
    <3>1. m <= LastId /\ LastId \in 0..MaxId  BY <1>6, LastIdLemma
    <3>2. status'[m] = status[m] /\ second'[m] = second[m]
      BY <2>1, <3>1 DEF InsertRow, TypeInv, TypeOK, Ids
    <3> QED BY <3>2, <1>6
  <2>2. ASSUME NEW k \in Ids, ChangeRow(k)  PROVE status'[m] # "none" /\ second'[m] = second[m]
    <3>1. PICK s \in Statuses \union {"deleted"} : status' = [status EXCEPT ![k] = s]
      BY <2>2 DEF ChangeRow, Progress
    <3>2. second' = second /\ status \in [Ids -> Statuses \union {"none", "deleted"}]
      BY <2>2 DEF ChangeRow, TypeInv, TypeOK
    <3>3. "none" \notin Statuses \union {"deleted"}
      BY DEF Statuses
    <3> QED BY <3>1, <3>2, <3>3, <1>6
  <2> QED BY <2>1, <2>2 DEF Others
<1> QED BY <1>1, <1>2, <1>4, <1>5, <1>6

-----------------------------------------------------------------------------
(* The type invariant.                                                     *)

\* The selections of the walk are sets of ids.
LEMMA MatchingLemma ==
  ASSUME NEW st, NEW f
  PROVE  /\ Matching(st, f) \subseteq Ids
         /\ \A m \in Matching(st, f) : st[m] \in Statuses
         /\ Cardinality(Matching(st, f)) \in 0..MaxId
<1>1. Matching(st, f) \in SUBSET Ids  BY DEF Matching
<1> QED BY <1>1, IdsFinite DEF Matching

\* Initially no page has been opened, and the clock ticked at most once per row.
LEMMA TypeInit == Init => TypeInv
<1> SUFFICES ASSUME Init  PROVE TypeInv  OBVIOUS
<1>0. PICK n \in 0..MaxRows :
        \E st \in [1..n -> Statuses], ticks \in SUBSET (2..n) :
          /\ status = [m \in Ids |-> IF m <= n THEN st[m] ELSE "none"]
          /\ second = [m \in Ids |->
                         IF m <= n THEN Cardinality({k \in ticks : k <= m}) ELSE 0]
  BY DEF Init
<1>1. PICK st \in [1..n -> Statuses], ticks \in SUBSET (2..n) :
        /\ status = [m \in Ids |-> IF m <= n THEN st[m] ELSE "none"]
        /\ second = [m \in Ids |->
                       IF m <= n THEN Cardinality({k \in ticks : k <= m}) ELSE 0]
  BY <1>0
<1> DEFINE T(m) == {k \in ticks : k <= m}
<1>2. /\ n \in Nat /\ n <= MaxId
      /\ IsFiniteSet(ticks) /\ \A k \in ticks : k \in Nat /\ k > 0
  <2>1. n \in Nat /\ n <= MaxId  OBVIOUS
  <2>2. IsFiniteSet(2..n)  BY <2>1, FS_Interval
  <2>3. IsFiniteSet(ticks)  BY <2>2, FS_Subset
  <2>4. \A k \in 2..n : k \in Nat /\ k > 0  BY <2>1
  <2>5. ticks \subseteq 2..n  OBVIOUS
  <2> QED BY <2>1, <2>3, <2>4, <2>5
<1>3. ASSUME NEW m \in Ids
      PROVE  Cardinality(T(m)) \in Nat /\ Cardinality(T(m)) <= m
  <2>1. m \in Nat \ {0}  BY DEF Ids
  <2>2. T(m) \subseteq 1..m
    <3> SUFFICES ASSUME NEW k \in ticks, k <= m  PROVE k \in 1..m  OBVIOUS
    <3> QED BY <1>2, <2>1
  <2>3. IsFiniteSet(1..m) /\ Cardinality(1..m) = m  BY <2>1, FS_Interval
  <2>4. IsFiniteSet(T(m)) /\ Cardinality(T(m)) <= m  BY <2>2, <2>3, FS_Subset
  <2> QED BY <2>4, FS_CardinalityType
<1>4. ASSUME NEW m \in Ids, NEW k \in Ids, m < k
      PROVE  Cardinality(T(m)) <= Cardinality(T(k))
  <2>1. T(m) \subseteq T(k)
    <3> SUFFICES ASSUME NEW i \in ticks, i <= m  PROVE i <= k  OBVIOUS
    <3> QED BY <1>2, <1>4 DEF Ids
  <2>2. IsFiniteSet(T(k))  BY <1>2, FS_Subset
  <2> QED BY <2>1, <2>2, FS_Subset
<1> HIDE DEF T
<1>5. \A m \in Ids : second[m] = IF m <= n THEN Cardinality(T(m)) ELSE 0
  BY <1>1 DEF T
<1>6. \A m \in Ids : status[m] = (IF m <= n THEN st[m] ELSE "none")
                     /\ (m <= n => st[m] \in Statuses)
  BY <1>1 DEF Ids
<1>7. status \in [Ids -> Statuses \union {"none", "deleted"}]  BY <1>1, <1>6
<1>8. second \in [Ids -> 0..MaxId]
  <2>1. \A m \in Ids : second[m] \in 0..MaxId  BY <1>3, <1>5 DEF Ids
  <2>2. second = [m \in Ids |-> second[m]]  BY <1>1
  <2> QED BY <2>1, <2>2
<1>9. \A m, k \in Ids : m < k /\ status[k] # "none" => second[m] <= second[k]
  <2> SUFFICES ASSUME NEW m \in Ids, NEW k \in Ids, m < k, status[k] # "none"
               PROVE  second[m] <= second[k]
    OBVIOUS
  <2>1. k <= n /\ m <= n  BY <1>6 DEF Ids
  <2> QED BY <2>1, <1>4, <1>5
<1>10. Inserted
  <2>1. \A m \in Ids : status[m] # "none" <=> m <= n  BY <1>6 DEF Statuses
  <2>2. \A m \in Ids : second[m] <= m  BY <1>3, <1>5 DEF Ids
  <2>3. n \in 0..MaxId  OBVIOUS
  <2> QED BY <2>1, <2>2, <2>3 DEF Inserted
<1>11. /\ place = "idle" /\ filter = "all" /\ page = 1 /\ total = 0 /\ events = 0
       /\ shown = [m \in Ids |-> 0] /\ DOMAIN dashboard = {}
       /\ must = {} /\ left = FALSE /\ entered = FALSE /\ slipped = FALSE /\ changed = FALSE
  BY DEF Init
<1>12. 1 \in 1..Pages(MaxId)
  <2>1. MaxId \div PerPage \in Nat /\ MaxId % PerPage \in 0..(PerPage-1)  OBVIOUS
  <2> QED BY <2>1 DEF Pages
<1>13. TypeOK
  <2>1. shown \in [Ids -> 0..page]  BY <1>11
  <2>2. total \in 0..MaxId /\ events \in 0..MaxEvents  BY <1>11
  <2>3. page \in 1..Pages(MaxId)  BY <1>11, <1>12
  <2>4. DOMAIN dashboard \subseteq {"stats", "hourly", "recent", "tokens"}  BY <1>11
  <2> QED BY <1>7, <1>8, <1>9, <1>11, <2>1, <2>2, <2>3, <2>4 DEF TypeOK, Filters
<1> QED BY <1>10, <1>11, <1>13 DEF TypeInv, ShownPerPage, MustThere

\* A row is inserted after all others, at the second of the last one or later.
LEMMA TypeInsert == ASSUME TypeInv, InsertRow  PROVE TypeInv'
<1> DEFINE m == LastId + 1
           now == IF m = 1 THEN 0 ELSE second[LastId]
<1>1. /\ LastId \in 0..(MaxId - 1)
      /\ \A k \in Ids : status[k] # "none" <=> k <= LastId
  BY LastIdLemma DEF InsertRow
<1>2. PICK t \in {now, now + 1} : second' = [second EXCEPT ![m] = t]  BY DEF InsertRow
<1>3. status' = [status EXCEPT ![m] = "queued"]  BY DEF InsertRow
<1>4. m \in Ids /\ (m # 1 => LastId \in Ids)  BY <1>1 DEF Ids
<1>5. now \in Nat /\ now <= LastId /\ t \in Nat /\ t <= m /\ now <= t
  BY <1>1, <1>2, <1>4 DEF TypeInv, TypeOK, Inserted
<1>6. \A k \in Ids : k < m => second[k] <= now
  <2> SUFFICES ASSUME NEW k \in Ids, k < m  PROVE second[k] <= now  OBVIOUS
  <2>1. m # 1 /\ k <= LastId  BY <1>1 DEF Ids
  <2>2. CASE k = LastId  BY <2>1, <2>2 DEF TypeInv, TypeOK
  <2>3. CASE k < LastId
    <3>1. status[LastId] # "none"  BY <1>1, <1>4, <2>1
    <3> QED BY <1>4, <2>1, <2>3, <3>1 DEF TypeInv, TypeOK
  <2> QED BY <1>1, <2>1, <2>2, <2>3 DEF Ids
<1> HIDE DEF now
<1>7. status' \in [Ids -> Statuses \union {"none", "deleted"}]
  BY <1>3 DEF TypeInv, TypeOK, Statuses
<1>8. second' \in [Ids -> 0..MaxId]
  <2>1. t \in 0..MaxId  BY <1>1, <1>5
  <2> QED BY <1>2, <2>1 DEF TypeInv, TypeOK
<1>9. \A k \in Ids : status'[k] # "none" <=> k <= m
  BY <1>1, <1>3, <1>4 DEF TypeInv, TypeOK, Ids
<1>10. \A k \in Ids : second'[k] = IF k = m THEN t ELSE second[k]
  BY <1>2, <1>4 DEF TypeInv, TypeOK
<1>11. \A i, k \in Ids : i < k /\ status'[k] # "none" => second'[i] <= second'[k]
  <2> SUFFICES ASSUME NEW i \in Ids, NEW k \in Ids, i < k, status'[k] # "none"
               PROVE  second'[i] <= second'[k]
    OBVIOUS
  <2>1. k <= m  BY <1>9
  <2>2. i # m  BY <2>1, <1>1 DEF Ids
  <2>3. CASE k = m
    <3>1. second[i] <= now /\ second[i] \in Nat  BY <2>3, <1>6 DEF TypeInv, TypeOK
    <3> QED BY <1>5, <1>10, <2>2, <2>3, <3>1
  <2>4. CASE k # m
    <3>1. status[k] # "none"  BY <1>1, <2>1, <2>4 DEF Ids
    <3> QED BY <1>10, <2>2, <2>4, <3>1 DEF TypeInv, TypeOK
  <2> QED BY <2>3, <2>4
<1>12. Inserted'
  <2>1. \A k \in Ids : second'[k] <= k  BY <1>5, <1>10 DEF TypeInv, Inserted
  <2>2. m \in 0..MaxId  BY <1>1
  <2> QED BY <1>9, <2>1, <2>2 DEF Inserted
<1>13. /\ UNCHANGED <<place, filter, page, total, shown, dashboard, must>>
       /\ events' \in 0..MaxEvents /\ changed' = TRUE
       /\ {left', entered', slipped'} \subseteq BOOLEAN
       /\ \A k \in Ids : status[k] # "none" => status'[k] # "none"
  BY OthersLemma DEF Others, TypeInv, TypeOK
<1>14. TypeOK'  BY <1>7, <1>8, <1>11, <1>13 DEF TypeInv, TypeOK
<1> QED BY <1>12, <1>13, <1>14 DEF TypeInv, ShownPerPage, MustThere, TypeOK

\* A change leaves the row in the table of ids.
LEMMA TypeChange == ASSUME TypeInv, NEW m \in Ids, ChangeRow(m)  PROVE TypeInv'
<1>1. /\ UNCHANGED <<place, filter, page, total, shown, dashboard, must>>
      /\ events' \in 0..MaxEvents /\ changed' = TRUE
      /\ {left', entered', slipped'} \subseteq BOOLEAN
      /\ \A k \in Ids : status[k] # "none" => status'[k] # "none"
  BY OthersLemma DEF Others, TypeInv, TypeOK
<1>2. UNCHANGED second  BY DEF ChangeRow
<1>3. /\ status' \in [Ids -> Statuses \union {"none", "deleted"}]
      /\ \A k \in Ids : status'[k] # "none" <=> status[k] # "none"
  <2>1. status[m] # "none"  BY DEF ChangeRow, Progress, Rows, Statuses
  <2>2. PICK new \in Statuses \union {"deleted"} : status' = [status EXCEPT ![m] = new]
    BY DEF ChangeRow, Progress, Statuses
  <2>3. new # "none"  BY DEF Statuses
  <2> QED BY <2>1, <2>2, <2>3 DEF TypeInv, TypeOK
<1>4. TypeOK'  BY <1>1, <1>2, <1>3 DEF TypeInv, TypeOK
<1>5. Inserted'  BY <1>2, <1>3 DEF TypeInv, Inserted
<1> QED BY <1>1, <1>4, <1>5 DEF TypeInv, ShownPerPage, MustThere, TypeOK

\* A page counts the rows of its selection.
LEMMA TypeOpen == ASSUME TypeInv, OpenQueue  PROVE TypeInv'
<1>1. PICK f \in Selections : Count(f, 1) /\ must' = Matching(status, f)  BY DEF OpenQueue
<1>2. /\ place = "idle" /\ place' = "counted" /\ filter' = f /\ page' = 1 /\ page = 1
      /\ total' = Cardinality(Matching(status, f))
      /\ UNCHANGED <<status, second, events, shown, dashboard, left, entered, slipped, changed>>
  BY <1>1 DEF OpenQueue, Count, table, TypeInv, ShownPerPage
<1>3. total' \in 0..MaxId /\ must' \subseteq Ids /\ \A m \in must' : status[m] # "none"
  BY <1>1, <1>2, MatchingLemma DEF Statuses
<1>4. f \in Filters  BY SelectionsAssumption
<1>5. TypeOK'  BY <1>2, <1>3, <1>4 DEF TypeInv, TypeOK
<1>6. Inserted'  BY <1>2 DEF TypeInv, Inserted
<1>7. ShownPerPage'  BY <1>2 DEF TypeInv, ShownPerPage
<1>8. MustThere'  BY <1>2, <1>3 DEF MustThere
<1> QED BY <1>5, <1>6, <1>7, <1>8 DEF TypeInv

\* The list of a page shows each of its rows once.
LEMMA TypeList == ASSUME TypeInv, List  PROVE TypeInv'
<1>1. /\ place = "counted" /\ place' = "listed"
      /\ UNCHANGED <<status, second, events, filter, page, total, dashboard, must, left,
                     entered, slipped, changed>>
  BY DEF List, table, history
<1>2. PICK onPage :
        shown' = [m \in Ids |-> shown[m] + IF m \in onPage THEN 1 ELSE 0]
  BY DEF List
<1>3. page \in Nat  BY DEF TypeInv, TypeOK
<1>4. ASSUME NEW m \in Ids  PROVE shown'[m] \in 0..page
  <2>1. shown[m] \in Nat /\ shown[m] <= page - 1
    BY <1>1, <1>3 DEF TypeInv, TypeOK, ShownPerPage
  <2> QED BY <1>2, <1>3, <2>1
<1>5. shown' \in [Ids -> 0..page']
  <2>1. shown' = [m \in Ids |-> shown'[m]]  BY <1>2
  <2> QED BY <1>1, <1>4, <2>1
<1>6. TypeOK'  BY <1>1, <1>5 DEF TypeInv, TypeOK
<1>7. Inserted'  BY <1>1 DEF TypeInv, Inserted
<1>8. ShownPerPage'  BY <1>1, <1>3, <1>4 DEF ShownPerPage
<1>9. MustThere'  BY <1>1 DEF TypeInv, MustThere
<1> QED BY <1>6, <1>7, <1>8, <1>9 DEF TypeInv

\* There is a next page only up to the last one of all rows there can be.
LEMMA TypeNext == ASSUME TypeInv, NextPage  PROVE TypeInv'
<1>1. /\ place = "listed" /\ place' = "counted" /\ page' = page + 1
      /\ total' = Cardinality(Matching(status, filter))
      /\ page < Pages(total)
      /\ UNCHANGED <<status, second, events, filter, shown, dashboard, must, left, entered,
                     slipped, changed>>
  BY DEF NextPage, Count, HasNext, table
<1>2. total' \in 0..MaxId  BY <1>1, MatchingLemma
<1>3. page \in Nat \ {0} /\ total \in 0..MaxId  BY DEF TypeInv, TypeOK
<1>4. page' \in 1..Pages(MaxId)  BY <1>1, <1>3, PagesGrow
<1>5. shown' \in [Ids -> 0..page']
  <2>1. 0..page \subseteq 0..page'  BY <1>1, <1>3
  <2> QED BY <1>1, <2>1 DEF TypeInv, TypeOK
<1>6. TypeOK'  BY <1>1, <1>2, <1>4, <1>5 DEF TypeInv, TypeOK
<1>7. Inserted'  BY <1>1 DEF TypeInv, Inserted
<1>8. ShownPerPage'  BY <1>1, <1>3 DEF TypeInv, TypeOK, ShownPerPage
<1>9. MustThere'  BY <1>1 DEF TypeInv, MustThere
<1> QED BY <1>6, <1>7, <1>8, <1>9 DEF TypeInv

\* Reading a part of the dashboard adds it to what has been read.
LEMMA ReadLemma ==
  ASSUME NEW before, NEW part, NEW content, ReadPart(before, part, content)
  PROVE  /\ place = before /\ place' = part
         /\ DOMAIN dashboard' = DOMAIN dashboard \union {part}
         /\ dashboard'[part] = content
         /\ \A p \in DOMAIN dashboard : p # part => dashboard'[p] = dashboard[p]
         /\ UNCHANGED <<status, second, events, filter, page, total, shown, must, left,
                        entered, slipped>>
BY DEF ReadPart, table, walk

\* A part whose query fails: nothing but the place changes.
Lost == LosePart("stats", "hourly") \/ LosePart("hourly", "recent") \/ LosePart("recent", "tokens")

LEMMA LostLemma ==
  Lost => /\ place \in {"stats", "hourly", "recent"} /\ place' \in {"hourly", "recent", "tokens"}
          /\ UNCHANGED <<status, second, events, filter, page, total, shown, dashboard,
                         must, left, entered, slipped, changed>>
BY DEF Lost, LosePart, table, walk, history

\* A part of the dashboard is read where the walk has not begun.
LEMMA TypeDashboard == ASSUME TypeInv, Dashboard  PROVE TypeInv'
<1> SUFFICES ASSUME ~Lost  PROVE TypeInv'
  BY LostLemma DEF TypeInv, TypeOK, Inserted, ShownPerPage, MustThere
<1>1. \E before \in {"idle", "stats", "hourly", "recent"},
         part \in {"stats", "hourly", "recent", "tokens"} :
        \E content : ReadPart(before, part, content) /\ changed' \in {FALSE, changed}
  BY DEF Dashboard, Lost
<1>2. PICK before \in {"idle", "stats", "hourly", "recent"},
           part \in {"stats", "hourly", "recent", "tokens"} :
        \E content : ReadPart(before, part, content) /\ changed' \in {FALSE, changed}
  BY <1>1
<1>3. PICK content : ReadPart(before, part, content) /\ changed' \in {FALSE, changed}
  BY <1>2
<1>4. /\ place = before /\ place' = part
      /\ DOMAIN dashboard' = DOMAIN dashboard \union {part}
      /\ UNCHANGED <<status, second, events, filter, page, total, shown, must, left,
                     entered, slipped>>
  BY <1>3, ReadLemma
<1>5. TypeOK'  BY <1>3, <1>4 DEF TypeInv, TypeOK
<1>6. Inserted' /\ ShownPerPage' /\ MustThere'
  BY <1>4 DEF TypeInv, Inserted, ShownPerPage, MustThere
<1> QED BY <1>5, <1>6 DEF TypeInv

\* Every step preserves the types.
LEMMA TypeStep == TypeInv /\ [Next]_vars => TypeInv'
<1> SUFFICES ASSUME TypeInv, [Next]_vars  PROVE TypeInv'  OBVIOUS
<1>1. CASE LastPage
  BY <1>1 DEF LastPage, table, walk, history, TypeInv, TypeOK, Inserted, ShownPerPage, MustThere
<1>2. CASE UNCHANGED vars
  BY <1>2 DEF vars, table, walk, history, TypeInv, TypeOK, Inserted, ShownPerPage, MustThere
<1> QED BY <1>1, <1>2, TypeInsert, TypeChange, TypeOpen, TypeList, TypeNext, TypeDashboard
        DEF Next

\* Every variable has its type in every reachable state; and with it: ids are given
\* in sequence, the clock does not run ahead of them, and a page shows no row twice.
THEOREM TypeCorrect == Spec => []TypeOK
<1>1. TypeInv => TypeOK  BY DEF TypeInv
<1> QED BY <1>1, TypeInit, TypeStep, PTL DEF Spec

-----------------------------------------------------------------------------
(* The walk through the pages.                                             *)

WalkInv == TypeInv /\ Repeats /\ Misses /\ Ended

\* What is known of the rows of the selection and of their ranks.
LEMMA MatchLemma ==
  ASSUME TypeInv
  PROVE  /\ Match \subseteq Ids /\ IsFiniteSet(Match) /\ Cardinality(Match) \in 0..MaxId
         /\ \A m \in Match : status[m] # "none" /\ second[m] \in Nat
         /\ \A m \in Ids : /\ IsFiniteSet(Newer(Match, m)) /\ Rank(m) \in Nat
                           /\ m \in Match => Rank(m) < Cardinality(Match)
<1>1. /\ Match \subseteq Ids /\ Cardinality(Match) \in 0..MaxId
      /\ \A m \in Match : status[m] # "none"
  BY MatchingLemma DEF Match, Statuses
<1>2. IsFiniteSet(Match)  BY <1>1, IdsFinite
<1>3. \A m \in Ids : second[m] \in Nat  BY DEF TypeInv, TypeOK
<1>4. ASSUME NEW m \in Ids
      PROVE  /\ IsFiniteSet(Newer(Match, m)) /\ Rank(m) \in Nat
             /\ m \in Match => Rank(m) < Cardinality(Match)
  <2>1. Newer(Match, m) \subseteq Match /\ m \notin Newer(Match, m)  BY <1>3 DEF Newer
  <2>2. IsFiniteSet(Newer(Match, m))  BY <1>2, <2>1, FS_Subset
  <2> QED BY <1>2, <2>1, <2>2, FS_CardinalityType, ProperSubset DEF Rank
<1> QED BY <1>1, <1>2, <1>3, <1>4

\* A rank is a number, before a step and after it.
LEMMA RankType ==
  ASSUME NEW m
  PROVE  /\ IsFiniteSet(Newer(Match, m)) /\ Rank(m) \in Nat
         /\ IsFiniteSet(Newer(Match, m)') /\ Rank(m)' \in Nat
         /\ Match' \subseteq Ids
<1>1. Match \subseteq Ids /\ Match' \subseteq Ids  BY MatchingLemma DEF Match
<1>2. Newer(Match, m) \in SUBSET Ids /\ Newer(Match, m)' \in SUBSET Ids
  BY <1>1 DEF Newer
<1> QED BY <1>1, <1>2, IdsFinite DEF Rank

\* Rows that come in raise the ranks of the others, rows that leave lower them.
LEMMA RankLemma ==
  ASSUME TypeInv, TypeInv', Others, NEW m \in Ids, status[m] # "none"
  PROVE  /\ Match' \subseteq Match => Rank(m)' <= Rank(m)
         /\ Match \subseteq Match' => Rank(m) <= Rank(m)'
<1>1. \A k \in Ids : status[k] # "none" => second'[k] = second[k]  BY OthersLemma
<1>2. \A k \in Match : k \in Ids /\ status[k] # "none"  BY MatchLemma
<1>3. IsFiniteSet(Newer(Match, m)) /\ IsFiniteSet(Newer(Match, m)')  BY RankType
<1>4. ASSUME Match' \subseteq Match  PROVE Rank(m)' <= Rank(m)
  <2>1. Newer(Match, m)' \subseteq Newer(Match, m)  BY <1>1, <1>2, <1>4 DEF Newer
  <2> QED BY <1>3, <2>1, FS_Subset DEF Rank
<1>5. ASSUME Match \subseteq Match'  PROVE Rank(m) <= Rank(m)'
  <2>1. Newer(Match, m) \subseteq Newer(Match, m)'  BY <1>1, <1>2, <1>5 DEF Newer
  <2> QED BY <1>3, <2>1, FS_Subset DEF Rank
<1> QED BY <1>4, <1>5

\* No walk has begun.
LEMMA WalkInit == Init => Repeats /\ Misses /\ Ended
BY DEF Init, Repeats, Misses, Ended, Walking

\* No row comes in: those that stay keep or lower their rank.
LEMMA RepeatsOthers == ASSUME TypeInv, TypeInv', Repeats, Others  PROVE Repeats'
<1> SUFFICES ASSUME Walking', ~entered', Distinct(must)'
             PROVE  /\ Match' \subseteq must'
                    /\ \A m \in Ids : shown'[m] <= 1
                    /\ \A m \in Match' : shown'[m] > 0 => Rank(m)' < Covered'
  BY DEF Repeats
<1>1. /\ UNCHANGED <<place, page, shown, must>>
      /\ \A m \in Ids : status[m] # "none" => second'[m] = second[m]
      /\ ~entered /\ Match' \subseteq Match
  BY OthersLemma
<1>2. Walking /\ Covered' = Covered  BY <1>1 DEF Walking, Covered
<1>3. Distinct(must)  BY <1>1 DEF Distinct, TypeInv, TypeOK, MustThere
<1>4. /\ Match \subseteq must
      /\ \A m \in Ids : shown[m] <= 1
      /\ \A m \in Match : shown[m] > 0 => Rank(m) < Covered
  BY <1>1, <1>2, <1>3 DEF Repeats
<1>5. ASSUME NEW m \in Match', shown'[m] > 0  PROVE Rank(m)' < Covered'
  <2>1. m \in Match /\ m \in Ids /\ status[m] # "none"  BY <1>1, MatchLemma
  <2>2. Rank(m) < Covered /\ Rank(m)' <= Rank(m)
    BY <1>1, <1>4, <1>5, <2>1, RankLemma
  <2>3. Rank(m) \in Nat /\ Rank(m)' \in Nat /\ Covered \in Int
    BY RankType DEF Covered, TypeInv, TypeOK
  <2> QED BY <1>2, <2>2, <2>3
<1> QED BY <1>1, <1>4, <1>5

\* No row leaves: those that are there keep or raise their rank, and between count
\* and list nothing comes in either.
LEMMA MissesOthers == ASSUME TypeInv, TypeInv', Misses, Others  PROVE Misses'
<1> SUFFICES ASSUME Walking', ~left', ~slipped', Distinct(Match)'
             PROVE  /\ must' \subseteq Match'
                    /\ \A m \in must' : Rank(m)' < Covered' => shown'[m] > 0
                    /\ place' = "counted" => total' = Cardinality(Match')
                    /\ place' # "counted" /\ total' <= page' * PerPage =>
                         \A m \in must' : shown'[m] > 0
  BY DEF Misses
<1>1. /\ UNCHANGED <<place, page, total, shown, must>>
      /\ \A m \in Ids : status[m] # "none" => second'[m] = second[m]
      /\ ~left /\ ~slipped /\ Match \subseteq Match'
      /\ place = "counted" => Match' = Match
  BY OthersLemma
<1>2. Walking /\ Covered' = Covered  BY <1>1 DEF Walking, Covered
<1>3. Distinct(Match)
  <2>1. \A m \in Match : m \in Ids /\ status[m] # "none"  BY MatchLemma
  <2> QED BY <1>1, <2>1 DEF Distinct
<1>4. /\ must \subseteq Match
      /\ \A m \in must : Rank(m) < Covered => shown[m] > 0
      /\ place = "counted" => total = Cardinality(Match)
      /\ place # "counted" /\ total <= page * PerPage => \A m \in must : shown[m] > 0
  BY <1>1, <1>2, <1>3 DEF Misses
<1>5. ASSUME NEW m \in must', Rank(m)' < Covered'  PROVE shown'[m] > 0
  <2>1. m \in must /\ m \in Match /\ m \in Ids /\ status[m] # "none"
    BY <1>1, <1>4, MatchLemma
  <2>2. Rank(m) <= Rank(m)'  BY <1>1, <2>1, RankLemma
  <2>3. Rank(m) \in Nat /\ Rank(m)' \in Nat /\ Covered \in Int
    BY RankType DEF Covered, TypeInv, TypeOK
  <2>4. Rank(m) < Covered  BY <1>2, <1>5, <2>2, <2>3
  <2> QED BY <1>1, <1>4, <2>1, <2>4
<1> QED BY <1>1, <1>4, <1>5

\* The walk begins with the rows that match, and has covered none.
LEMMA WalkOpen == ASSUME TypeInv, TypeInv', OpenQueue  PROVE Repeats' /\ Misses' /\ Ended'
<1>1. /\ place = "idle" /\ place' = "counted" /\ page' = 1 /\ must' = Match'
      /\ total' = Cardinality(Match') /\ UNCHANGED shown
  BY DEF OpenQueue, Count, table, Match
<1>2. Covered' = 0  BY <1>1 DEF Covered
<1>3. \A m \in Ids : shown'[m] = 0
  BY <1>1 DEF TypeInv, TypeOK, ShownPerPage
<1>4. \A m \in Match' : m \in Ids /\ Rank(m)' \in Nat  BY RankType
<1> QED BY <1>1, <1>2, <1>3, <1>4 DEF Repeats, Misses, Ended

\* A list covers the ranks of its page.
LEMMA WalkList ==
  ASSUME TypeInv, Repeats, Misses, List
  PROVE  Repeats' /\ Misses' /\ Ended'
<1>1. /\ place = "counted" /\ place' = "listed"
      /\ UNCHANGED <<status, second, filter, page, total, must, left, entered, slipped>>
  BY DEF List, table, history
<1>2. PICK skipped \in Newest(Match, (page-1) * PerPage) :
        \E onPage \in Newest(Match \ skipped, PerPage) :
          shown' = [m \in Ids |-> shown[m] + IF m \in onPage THEN 1 ELSE 0]
  BY DEF List
<1>3. PICK onPage \in Newest(Match \ skipped, PerPage) :
        shown' = [m \in Ids |-> shown[m] + IF m \in onPage THEN 1 ELSE 0]
  BY <1>2
<1>4. page \in Nat \ {0} /\ total \in Nat /\ \A m \in Ids : shown[m] \in Nat
  BY DEF TypeInv, TypeOK
<1> DEFINE a == (page-1) * PerPage
<1>5. a \in Nat /\ page * PerPage = a + PerPage /\ page * PerPage \in Nat  BY <1>4
<1>6. Covered = a /\ Covered' = a + PerPage  BY <1>1, <1>5 DEF Covered
<1> HIDE DEF a
<1>7. /\ Match' = Match /\ Walking
      /\ \A m \in Ids : Rank(m)' = Rank(m)
      /\ Distinct(must)' <=> Distinct(must)
      /\ Distinct(Match)' <=> Distinct(Match)
  BY <1>1 DEF Match, Walking, Rank, Newer, Distinct
<1>8. ASSUME Distinct(Match)
      PROVE  \A m \in Ids : m \in onPage <=> m \in Match /\ Rank(m) \in a..(a+PerPage-1)
  <2>1. IsFiniteSet(Match) /\ \A m \in Match : second[m] \in Nat  BY MatchLemma
  <2>2. skipped \in Newest(Match, a)  BY DEF a
  <2>3. PerPage \in Nat  OBVIOUS
  <2>4. /\ onPage \subseteq Match
        /\ \A m \in Match : m \in onPage <=> Cardinality(Newer(Match, m)) \in a..(a+PerPage-1)
    BY <1>5, <1>8, <2>1, <2>2, <2>3, PageIsRanks
  <2> QED BY <2>4 DEF Rank
<1>9. \A m \in Ids : shown'[m] = shown[m] + IF m \in onPage THEN 1 ELSE 0  BY <1>3
<1>10. \A m \in Ids : Rank(m) \in Nat /\ (m \in Match => Rank(m) < Cardinality(Match))
  BY MatchLemma
<1>11. Match \subseteq Ids /\ Cardinality(Match) \in Nat /\ must \subseteq Ids
  BY MatchLemma DEF TypeInv, TypeOK
<1>12. Repeats'
  <2> SUFFICES ASSUME ~entered, Distinct(must)
               PROVE  /\ Match \subseteq must
                      /\ \A m \in Ids : shown'[m] <= 1
                      /\ \A m \in Match : shown'[m] > 0 => Rank(m) < a + PerPage
    BY <1>1, <1>6, <1>7, <1>11 DEF Repeats
  <2>1. /\ Match \subseteq must
        /\ \A m \in Ids : shown[m] <= 1
        /\ \A m \in Match : shown[m] > 0 => Rank(m) < a
    BY <1>6, <1>7 DEF Repeats
  <2>2. Distinct(Match)  BY <2>1 DEF Distinct
  <2>3. ASSUME NEW m \in Ids  PROVE shown'[m] <= 1
    BY <1>4, <1>5, <1>8, <1>9, <1>10, <2>1, <2>2
  <2>4. ASSUME NEW m \in Match, shown'[m] > 0  PROVE Rank(m) < a + PerPage
    <3>1. m \in Ids  BY <1>11
    <3>2. CASE m \in onPage  BY <1>5, <1>8, <1>10, <2>2, <3>1, <3>2
    <3>3. CASE m \notin onPage
      <4>1. shown[m] > 0  BY <1>4, <1>9, <2>4, <3>1, <3>3
      <4> QED BY <1>5, <1>10, <2>1, <3>1, <4>1
    <3> QED BY <3>2, <3>3
  <2> QED BY <2>1, <2>3, <2>4
<1>13. Misses'
  <2> SUFFICES ASSUME ~left, ~slipped, Distinct(Match)
               PROVE  /\ must \subseteq Match
                      /\ \A m \in must : Rank(m) < a + PerPage => shown'[m] > 0
                      /\ total <= page * PerPage => \A m \in must : shown'[m] > 0
    BY <1>1, <1>6, <1>7, <1>11 DEF Misses
  <2>1. /\ must \subseteq Match
        /\ \A m \in must : Rank(m) < a => shown[m] > 0
        /\ total = Cardinality(Match)
    BY <1>1, <1>6, <1>7 DEF Misses
  <2>2. ASSUME NEW m \in must, Rank(m) < a + PerPage  PROVE shown'[m] > 0
    <3>1. m \in Ids /\ m \in Match  BY <1>11, <2>1
    <3>2. CASE Rank(m) < a  BY <1>4, <1>9, <2>1, <3>1, <3>2
    <3>3. CASE ~(Rank(m) < a)
      <4>1. m \in onPage  BY <1>5, <1>8, <1>10, <2>2, <3>1, <3>3
      <4> QED BY <1>4, <1>9, <3>1, <4>1
    <3> QED BY <3>2, <3>3
  <2>3. ASSUME total <= page * PerPage, NEW m \in must  PROVE shown'[m] > 0
    <3>1. Rank(m) < a + PerPage  BY <1>5, <1>10, <1>11, <2>1, <2>3
    <3> QED BY <2>2, <3>1
  <2> QED BY <2>1, <2>2, <2>3
<1>14. Ended'  BY <1>1 DEF Ended
<1> QED BY <1>12, <1>13, <1>14

\* The next page begins where this one ended.
LEMMA WalkNext ==
  ASSUME TypeInv, Repeats, Misses, NextPage
  PROVE  Repeats' /\ Misses' /\ Ended'
<1>1. /\ place = "listed" /\ place' = "counted" /\ page' = page + 1
      /\ total' = Cardinality(Match)
      /\ UNCHANGED <<status, second, filter, shown, must, left, entered, slipped>>
  BY DEF NextPage, Count, table, Match
<1>2. page \in Nat  BY DEF TypeInv, TypeOK
<1>3. Covered' = Covered  BY <1>1, <1>2 DEF Covered
<1>4. /\ Match' = Match /\ Walking
      /\ \A m \in Ids : Rank(m)' = Rank(m)
      /\ Distinct(must)' <=> Distinct(must)
      /\ Distinct(Match)' <=> Distinct(Match)
  BY <1>1 DEF Match, Walking, Rank, Newer, Distinct
<1>5. Match \subseteq Ids /\ must \subseteq Ids  BY MatchLemma DEF TypeInv, TypeOK
<1>6. Repeats'  BY <1>1, <1>3, <1>4, <1>5 DEF Repeats
<1>7. Misses'  BY <1>1, <1>3, <1>4, <1>5 DEF Misses
<1> QED BY <1>1, <1>6, <1>7 DEF Ended

\* The last page is the one that covers what was counted.
LEMMA WalkEnd ==
  ASSUME TypeInv, Repeats, Misses, LastPage
  PROVE  Repeats' /\ Misses' /\ Ended'
<1>1. /\ place = "listed" /\ place' = "end" /\ ~(page < Pages(total))
      /\ UNCHANGED <<status, second, filter, page, total, shown, must, left, entered, slipped>>
  BY DEF LastPage, HasNext, table, walk, history
<1>2. page \in Nat \ {0} /\ total \in Nat /\ page * PerPage \in Nat
  BY DEF TypeInv, TypeOK
<1>3. total <= page * PerPage  BY <1>1, <1>2, PagesLemma
<1>4. Covered' = Covered  BY <1>1 DEF Covered
<1>5. /\ Match' = Match /\ Walking
      /\ \A m \in Ids : Rank(m)' = Rank(m)
      /\ Distinct(must)' <=> Distinct(must)
      /\ Distinct(Match)' <=> Distinct(Match)
  BY <1>1 DEF Match, Walking, Rank, Newer, Distinct
<1>6. Match \subseteq Ids /\ must \subseteq Ids  BY MatchLemma DEF TypeInv, TypeOK
<1>7. Repeats'  BY <1>1, <1>4, <1>5, <1>6 DEF Repeats
<1>8. Misses'  BY <1>1, <1>4, <1>5, <1>6 DEF Misses
<1> QED BY <1>1, <1>3, <1>7, <1>8 DEF Ended

\* Every step preserves what is known of the walk.
LEMMA WalkStep == WalkInv /\ [Next]_vars => WalkInv'
<1> SUFFICES ASSUME WalkInv, [Next]_vars  PROVE WalkInv'  OBVIOUS
<1>1. TypeInv /\ Repeats /\ Misses /\ Ended /\ TypeInv'  BY TypeStep DEF WalkInv
<1>2. CASE Others
  <2>1. Ended'  BY <1>1, <1>2, OthersLemma DEF Ended
  <2> QED BY <1>1, <1>2, <2>1, RepeatsOthers, MissesOthers DEF WalkInv
<1>3. CASE OpenQueue  BY <1>1, <1>3, WalkOpen DEF WalkInv
<1>4. CASE List  BY <1>1, <1>4, WalkList DEF WalkInv
<1>5. CASE NextPage  BY <1>1, <1>5, WalkNext DEF WalkInv
<1>6. CASE LastPage  BY <1>1, <1>6, WalkEnd DEF WalkInv
<1>7. CASE Dashboard
  <2>1. place' \in {"stats", "hourly", "recent", "tokens"}
    BY <1>7 DEF Dashboard, ReadPart, LosePart
  <2> QED BY <1>1, <2>1 DEF WalkInv, Repeats, Misses, Ended, Walking
<1>8. CASE UNCHANGED vars
  BY <1>1, <1>8 DEF WalkInv, vars, table, walk, history, Repeats, Misses, Ended, Walking,
     Match, Rank, Newer, Distinct, Covered
<1> QED BY <1>2, <1>3, <1>4, <1>5, <1>6, <1>7, <1>8 DEF Next, Others

\* Who walks from the first page to the last sees every row that matched at the
\* beginning, however many rows come in meanwhile, unless a row left the selection,
\* two rows share a second or one came in between the count and the list of a page.
THEOREM MissesNothingCorrect == Spec => []WalkMissesNothing
<1>1. WalkInv => WalkMissesNothing
  <2> SUFFICES ASSUME WalkInv, place = "end", ~left, ~slipped, ~Tied
               PROVE  \A m \in must : shown[m] > 0
    BY DEF WalkMissesNothing
  <2>1. Distinct(Match)  BY DEF Tied, Distinct
  <2> QED BY <2>1 DEF WalkInv, Misses, Ended, Walking
<1>2. Init => WalkInv  BY TypeInit, WalkInit DEF WalkInv
<1> QED BY <1>1, <1>2, WalkStep, PTL DEF Spec

\* And sees no row twice, however many leave, unless one came in.
THEOREM RepeatsNothingCorrect == Spec => []WalkRepeatsNothing
<1>1. WalkInv => WalkRepeatsNothing
  <2> SUFFICES ASSUME WalkInv, place = "end", ~entered, ~Tied
               PROVE  \A m \in Ids : shown[m] <= 1
    BY DEF WalkRepeatsNothing
  <2>1. Distinct(must)  BY DEF Tied, Distinct
  <2> QED BY <2>1 DEF WalkInv, Repeats, Walking
<1>2. Init => WalkInv  BY TypeInit, WalkInit DEF WalkInv
<1> QED BY <1>1, <1>2, WalkStep, PTL DEF Spec

-----------------------------------------------------------------------------
(* Sums.                                                                   *)

\* g grows by the value of an element whenever the element is added to a set.
Accumulates(g, f, field) ==
  /\ g \in [SUBSET DOMAIN f -> Nat]
  /\ g[{}] = 0
  /\ \A s \in SUBSET DOMAIN f : \A x \in s : g[s] = f[x][field] + g[s \ {x}]

\* Then g is the sum over the records of a finite function.
LEMMA SumIs ==
  ASSUME NEW f, IsFiniteSet(DOMAIN f), NEW field, NEW g, Accumulates(g, f, field)
  PROVE  Over(f, field) = g[DOMAIN f]
<1> DEFINE S == DOMAIN f
<1> USE DEF Accumulates
<1> DEFINE F(i) == i = [s \in SUBSET S |-> IF s = {} THEN 0
                          ELSE LET x == CHOOSE x \in s : TRUE IN f[x][field] + i[s \ {x}]]
<1> DEFINE it == CHOOSE i : F(i)
<1>1. F(g)
  <2>1. ASSUME NEW s \in SUBSET S
        PROVE  g[s] = IF s = {} THEN 0
                 ELSE LET x == CHOOSE x \in s : TRUE IN f[x][field] + g[s \ {x}]
    <3>1. CASE s = {} BY <3>1
    <3>2. CASE s # {}
      <4>1. (CHOOSE x \in s : TRUE) \in s BY <3>2
      <4> QED BY <4>1, <3>2
    <3> QED BY <3>1, <3>2
  <2> QED BY <2>1
<1>2. F(it)
  <2> HIDE DEF F
  <2>1. \E i : F(i) BY <1>1, Zenon
  <2> QED BY <2>1 DEF it
<1> HIDE DEF it
<1>3. \A s \in SUBSET S : it[s] = g[s]
  <2> DEFINE T == {s \in SUBSET S : it[s] # g[s]}
  <2> SUFFICES ASSUME T # {} PROVE FALSE OBVIOUS
  <2>1. IsWellFoundedOn(StrictSubsetOrdering(S), FiniteSubsetsOf(S)) BY FS_StrictSubsetOrderingWellFounded
  <2>2. T \subseteq FiniteSubsetsOf(S) BY FS_Subset DEF FiniteSubsetsOf
  <2>3. PICK s \in T : \A u \in T : <<u, s>> \notin StrictSubsetOrdering(S)
    <3> HIDE DEF T
    <3> QED BY <2>1, <2>2, WFMin
  <2>4. CASE s = {} BY <2>4, <1>2
  <2>5. CASE s # {}
    <3> DEFINE x == CHOOSE x \in s : TRUE
    <3>1. x \in s BY <2>5
    <3>2. it[s] = f[x][field] + it[s \ {x}] BY <1>2, <2>5
    <3>3. <<s \ {x}, s>> \in StrictSubsetOrdering(S) BY <3>1 DEF StrictSubsetOrdering
    <3>4. it[s \ {x}] = g[s \ {x}] BY <2>3, <3>3
    <3>5. g[s] = f[x][field] + g[s \ {x}] BY <3>1
    <3> QED BY <3>2, <3>4, <3>5
  <2> QED BY <2>4, <2>5
<1>4. Over(f, field) = it[DOMAIN f]
  BY DEF Over, MapThenSumSet, MapThenFoldSet, it
<1> QED BY <1>3, <1>4

\* The rows of S add up over the classes they fall into.
LEMMA SumOfClasses ==
  ASSUME NEW S, IsFiniteSet(S), NEW D, IsFiniteSet(D), NEW class \in [S -> D],
         NEW f, NEW field, DOMAIN f = D,
         \A d \in D : f[d][field] = Cardinality({m \in S : class[m] = d})
  PROVE  Over(f, field) = Cardinality(S)
<1> DEFINE Of(s) == {m \in S : class[m] \in s}
           g == [s \in SUBSET D |-> Cardinality(Of(s))]
<1>1. \A s \in SUBSET D : IsFiniteSet(Of(s)) /\ Cardinality(Of(s)) \in Nat
  BY FS_Subset, FS_CardinalityType
<1>2. g \in [SUBSET D -> Nat]  BY <1>1
<1>3. g[{}] = 0
  <2>1. Of({}) = {}  OBVIOUS
  <2> QED BY <2>1, FS_EmptySet
<1>4. ASSUME NEW s \in SUBSET D, NEW x \in s  PROVE g[s] = f[x][field] + g[s \ {x}]
  <2>1. /\ Of(s) = Of({x}) \cup Of(s \ {x})
        /\ Of({x}) \cap Of(s \ {x}) = {}
    OBVIOUS
  <2>2. Of({x}) = {m \in S : class[m] = x} /\ {x} \in SUBSET D /\ s \ {x} \in SUBSET D
    OBVIOUS
  <2>3. Cardinality(Of({x})) = f[x][field]  BY <2>2
  <2>4. g[s] = Cardinality(Of(s)) /\ g[s \ {x}] = Cardinality(Of(s \ {x}))  BY <2>2
  <2> HIDE DEF Of, g
  <2>5. /\ IsFiniteSet(Of({x})) /\ IsFiniteSet(Of(s \ {x}))
        /\ Cardinality(Of(s \ {x})) \in Nat /\ Cardinality(Of({x})) \in Nat
    BY <1>1, <2>2
  <2>6. Cardinality(Of(s)) = Cardinality(Of({x})) + Cardinality(Of(s \ {x})) - 0
    BY <2>1, <2>5, FS_Union, FS_EmptySet
  <2> QED BY <2>3, <2>4, <2>5, <2>6
<1>5. g[D] = Cardinality(S)
  <2>1. Of(D) = S  OBVIOUS
  <2> QED BY <2>1
<1> HIDE DEF g, Of
<1>6. \A s \in SUBSET D : \A x \in s : g[s] = f[x][field] + g[s \ {x}]  BY <1>4
<1>7. Over(f, field) = g[DOMAIN f]
  <2>1. Accumulates(g, f, field)  BY <1>2, <1>3, <1>6 DEF Accumulates
  <2> QED BY <2>1, SumIs
<1> QED BY <1>5, <1>7

\* Every row is sent, failed or still to be delivered.
LEMMA StatesAddUp ==
  ASSUME NEW X \in SUBSET Rows
  PROVE  /\ HowMany(X, {"sent"}) \in Nat /\ HowMany(X, {"failed"}) \in Nat
         /\ HowMany(X, {"queued", "sending"}) \in Nat
         /\ IsFiniteSet(X)
         /\ Cardinality(X) = HowMany(X, {"sent"}) + HowMany(X, {"failed"})
                             + HowMany(X, {"queued", "sending"})
<1> DEFINE A == {m \in X : status[m] \in {"sent"}}
           B == {m \in X : status[m] \in {"failed"}}
           C == {m \in X : status[m] \in {"queued", "sending"}}
<1>1. X \subseteq Ids /\ \A m \in X : status[m] \in Statuses  BY DEF Rows
<1>2. X = (A \cup B) \cup C /\ A \cap B = {} /\ (A \cup B) \cap C = {}
  BY <1>1 DEF Statuses
<1>3. A \in SUBSET Ids /\ B \in SUBSET Ids /\ C \in SUBSET Ids /\ A \cup B \in SUBSET Ids
      /\ X \in SUBSET Ids
  BY <1>1
<1>4. HowMany(X, {"sent"}) = Cardinality(A) /\ HowMany(X, {"failed"}) = Cardinality(B)
      /\ HowMany(X, {"queued", "sending"}) = Cardinality(C)
  BY DEF HowMany
<1> HIDE DEF A, B, C
<1>5. /\ IsFiniteSet(A) /\ IsFiniteSet(B) /\ IsFiniteSet(C) /\ IsFiniteSet(A \cup B)
      /\ IsFiniteSet(X)
      /\ Cardinality(A) \in Nat /\ Cardinality(B) \in Nat /\ Cardinality(C) \in Nat
  BY <1>3, IdsFinite
<1>6. Cardinality(A \cup B) = Cardinality(A) + Cardinality(B) - 0
  BY <1>2, <1>5, FS_Union, FS_EmptySet
<1>7. Cardinality(X) = Cardinality(A \cup B) + Cardinality(C) - 0
  BY <1>2, <1>5, FS_Union, FS_EmptySet
<1> QED BY <1>4, <1>5, <1>6, <1>7

-----------------------------------------------------------------------------
(* The dashboard.                                                          *)

DashInv == TypeInv /\ Fresh /\ PartsThere

\* A query says the same while the table is the same.
LEMMA QueriesStable ==
  ASSUME UNCHANGED <<status, second>>
  PROVE  /\ GetDashboardStats' = GetDashboardStats /\ GetHourlyStats' = GetHourlyStats
         /\ GetRecentMessages' = GetRecentMessages /\ GetTokenStats' = GetTokenStats
<1>1. Rows' = Rows  BY DEF Rows
<1>2. \A S, states : HowMany(S, states)' = HowMany(S, states)  BY DEF HowMany
<1>3. GetDashboardStats' = GetDashboardStats
  BY <1>1 DEF GetDashboardStats, QueueDepth, HowMany
<1>4. GetHourlyStats' = GetHourlyStats
  BY <1>1 DEF GetHourlyStats, Hour, HowMany
<1>5. GetRecentMessages' = GetRecentMessages
  BY <1>1 DEF GetRecentMessages, Newest
<1>6. GetTokenStats' = GetTokenStats
  BY <1>1 DEF GetTokenStats, HowMany
<1> QED BY <1>3, <1>4, <1>5, <1>6

\* Every step but a change of the table keeps what was read true.
LEMMA DashStep == DashInv /\ [Next]_vars => DashInv'
<1> SUFFICES ASSUME DashInv, [Next]_vars  PROVE Fresh' /\ PartsThere'
  BY TypeStep DEF DashInv
<1>1. CASE Others
  <2>1. changed' = TRUE /\ UNCHANGED <<place, dashboard>>
    BY <1>1, OthersLemma DEF DashInv
  <2> QED BY <2>1 DEF DashInv, Fresh, PartsThere
<1>2. CASE OpenQueue \/ List \/ NextPage \/ LastPage
  <2>1. /\ place' \in {"counted", "listed", "end"}
        /\ UNCHANGED <<status, second, dashboard, changed>>
    BY <1>2 DEF OpenQueue, List, NextPage, LastPage, Count, table, history
  <2> QED BY <2>1, QueriesStable DEF DashInv, Fresh, PartsThere
<1>3. CASE ReadPart("idle", "stats", GetDashboardStats) /\ changed' = FALSE
  <2>1. /\ place' = "stats" /\ dashboard'["stats"] = GetDashboardStats
        /\ DOMAIN dashboard' = {"stats"} /\ UNCHANGED <<status, second>>
    BY <1>3, ReadLemma DEF DashInv, PartsThere
  <2> QED BY <2>1, QueriesStable DEF Fresh, PartsThere
<1>4. CASE ReadPart("stats", "hourly", GetHourlyStats) /\ UNCHANGED changed
  <2>1. /\ place = "stats" /\ place' = "hourly" /\ dashboard'["hourly"] = GetHourlyStats
        /\ DOMAIN dashboard' = DOMAIN dashboard \union {"hourly"}
        /\ \A p \in DOMAIN dashboard : p # "hourly" => dashboard'[p] = dashboard[p]
        /\ UNCHANGED <<status, second>>
    BY <1>4, ReadLemma
  <2> QED BY <1>4, <2>1, QueriesStable DEF DashInv, Fresh, PartsThere
<1>5. CASE \E recent \in GetRecentMessages :
             ReadPart("hourly", "recent", recent) /\ UNCHANGED changed
  <2>1. PICK recent \in GetRecentMessages :
          ReadPart("hourly", "recent", recent) /\ UNCHANGED changed
    BY <1>5
  <2>2. /\ place = "hourly" /\ place' = "recent" /\ dashboard'["recent"] = recent
        /\ DOMAIN dashboard' = DOMAIN dashboard \union {"recent"}
        /\ \A p \in DOMAIN dashboard : p # "recent" => dashboard'[p] = dashboard[p]
        /\ UNCHANGED <<status, second>>
    BY <2>1, ReadLemma
  <2> QED BY <2>1, <2>2, QueriesStable DEF DashInv, Fresh, PartsThere
<1>6. CASE ReadPart("recent", "tokens", GetTokenStats) /\ UNCHANGED changed
  <2>1. /\ place = "recent" /\ place' = "tokens" /\ dashboard'["tokens"] = GetTokenStats
        /\ DOMAIN dashboard' = DOMAIN dashboard \union {"tokens"}
        /\ \A p \in DOMAIN dashboard : p # "tokens" => dashboard'[p] = dashboard[p]
        /\ UNCHANGED <<status, second>>
    BY <1>6, ReadLemma
  <2> QED BY <1>6, <2>1, QueriesStable DEF DashInv, Fresh, PartsThere
<1>7. CASE UNCHANGED vars
  <2>1. UNCHANGED <<status, second, place, dashboard, changed>>
    BY <1>7 DEF vars, table, history
  <2> QED BY <2>1, QueriesStable DEF DashInv, Fresh, PartsThere
<1>8. CASE Dashboard
  <2>1. \/ ReadPart("idle", "stats", GetDashboardStats) /\ changed' = FALSE
        \/ ReadPart("stats", "hourly", GetHourlyStats) /\ UNCHANGED changed
        \/ \E recent \in GetRecentMessages :
             ReadPart("hourly", "recent", recent) /\ UNCHANGED changed
        \/ ReadPart("recent", "tokens", GetTokenStats) /\ UNCHANGED changed
        \/ Lost
    BY <1>8 DEF Dashboard, Lost
  <2>2. CASE Lost
    BY <2>2, LostLemma, QueriesStable DEF DashInv, Fresh, PartsThere
  <2> QED BY <1>3, <1>4, <1>5, <1>6, <2>1, <2>2
<1> QED BY <1>1, <1>2, <1>7, <1>8 DEF Next, Others

\* The rows in some states add up over hours, tokens, or any other classes of rows.
LEMMA HowManyAddsUp ==
  ASSUME NEW D, IsFiniteSet(D), NEW class \in [Rows -> D], NEW states,
         NEW f, DOMAIN f = D, NEW field,
         \A d \in D : f[d][field] = HowMany({m \in Rows : class[m] = d}, states)
  PROVE  Over(f, field) = HowMany(Rows, states)
<1> DEFINE S == {m \in Rows : status[m] \in states}
           c == [m \in S |-> class[m]]
<1>1. IsFiniteSet(S)
  <2>1. S \in SUBSET Ids  BY DEF Rows
  <2> QED BY <2>1, IdsFinite
<1>2. c \in [S -> D]  OBVIOUS
<1>3. ASSUME NEW d \in D  PROVE f[d][field] = Cardinality({m \in S : c[m] = d})
  <2>1. {m \in {k \in Rows : class[k] = d} : status[m] \in states} = {m \in S : c[m] = d}
    OBVIOUS
  <2> QED BY <2>1 DEF HowMany
<1>4. HowMany(Rows, states) = Cardinality(S)  BY DEF HowMany
<1> HIDE DEF S, c
<1> QED BY <1>1, <1>2, <1>3, <1>4, SumOfClasses

\* All rows have one of the states.
LEMMA AllStates ==
  ASSUME NEW X \in SUBSET Rows  PROVE HowMany(X, Statuses) = Cardinality(X)
<1>1. {m \in X : status[m] \in Statuses} = X  BY DEF Rows
<1> QED BY <1>1 DEF HowMany

\* The hours add up to the totals.
LEMMA HoursAddUp ==
  ASSUME TypeInv
  PROVE  /\ Over(GetHourlyStats, "sent") = HowMany(Rows, {"sent"})
         /\ Over(GetHourlyStats, "failed") = HowMany(Rows, {"failed"})
         /\ Over(GetHourlyStats, "total") = Cardinality(Rows)
<1> DEFINE D == {Hour(m) : m \in Rows}
           class == [m \in Rows |-> Hour(m)]
           Of(d) == {m \in Rows : Hour(m) = d}
<1>1. IsFiniteSet(D)
  <2>1. ASSUME NEW m \in Rows  PROVE Hour(m) \in 0..MaxId
    <3>1. second[m] \in 0..MaxId  BY DEF Rows, TypeInv, TypeOK
    <3> QED BY <3>1 DEF Hour
  <2>2. IsFiniteSet(0..MaxId)  BY FS_Interval
  <2> QED BY <2>1, <2>2, FS_Subset
<1>2. class \in [Rows -> D]  OBVIOUS
<1>3. DOMAIN GetHourlyStats = D  BY DEF GetHourlyStats
<1>4. \A d \in D : {m \in Rows : class[m] = d} = Of(d) /\ Of(d) \in SUBSET Rows  OBVIOUS
<1>5. ASSUME NEW d \in D
      PROVE  /\ GetHourlyStats[d]["sent"] = HowMany(Of(d), {"sent"})
             /\ GetHourlyStats[d]["failed"] = HowMany(Of(d), {"failed"})
             /\ GetHourlyStats[d]["total"] = Cardinality(Of(d))
  BY DEF GetHourlyStats
<1> HIDE DEF D, class, Of
<1>6. Over(GetHourlyStats, "sent") = HowMany(Rows, {"sent"})
  <2>1. \A d \in D : GetHourlyStats[d]["sent"]
                       = HowMany({m \in Rows : class[m] = d}, {"sent"})
    BY <1>4, <1>5
  <2> QED BY <1>1, <1>2, <1>3, <2>1, HowManyAddsUp
<1>7. Over(GetHourlyStats, "failed") = HowMany(Rows, {"failed"})
  <2>1. \A d \in D : GetHourlyStats[d]["failed"]
                       = HowMany({m \in Rows : class[m] = d}, {"failed"})
    BY <1>4, <1>5
  <2> QED BY <1>1, <1>2, <1>3, <2>1, HowManyAddsUp
<1>8. Over(GetHourlyStats, "total") = HowMany(Rows, Statuses)
  <2>1. \A d \in D : GetHourlyStats[d]["total"]
                       = HowMany({m \in Rows : class[m] = d}, Statuses)
    BY <1>4, <1>5, AllStates
  <2> QED BY <1>1, <1>2, <1>3, <2>1, HowManyAddsUp
<1> QED BY <1>6, <1>7, <1>8, AllStates

\* The tokens add up to the totals, and each one's states to its own.
LEMMA TokensAddUp ==
  /\ Over(GetTokenStats, "sent") = HowMany(Rows, {"sent"})
  /\ Over(GetTokenStats, "failed") = HowMany(Rows, {"failed"})
  /\ Over(GetTokenStats, "queued") = HowMany(Rows, {"queued", "sending"})
  /\ \A t \in Tokens :
       LET s == GetTokenStats[t]
           sum == s.sent + s.failed + s.queued
       IN s.total = IF sum = 0 THEN 1 ELSE sum
<1> DEFINE class == [m \in Rows |-> Owner[m]]
           Of(t) == {m \in Rows : Owner[m] = t}
<1>1. class \in [Rows -> Tokens]  BY OwnerAssumption DEF Rows
<1>2. DOMAIN GetTokenStats = Tokens  BY DEF GetTokenStats
<1>3. \A t \in Tokens : {m \in Rows : class[m] = t} = Of(t) /\ Of(t) \in SUBSET Rows
  OBVIOUS
<1>4. ASSUME NEW t \in Tokens
      PROVE  /\ GetTokenStats[t]["sent"] = HowMany(Of(t), {"sent"})
             /\ GetTokenStats[t]["failed"] = HowMany(Of(t), {"failed"})
             /\ GetTokenStats[t]["queued"] = HowMany(Of(t), {"queued", "sending"})
             /\ GetTokenStats[t]["total"]
                  = IF Of(t) = {} THEN 1 ELSE Cardinality(Of(t))
  BY DEF GetTokenStats
<1> HIDE DEF class, Of
<1>5. Over(GetTokenStats, "sent") = HowMany(Rows, {"sent"})
  <2>1. \A t \in Tokens : GetTokenStats[t]["sent"]
                            = HowMany({m \in Rows : class[m] = t}, {"sent"})
    BY <1>3, <1>4
  <2> QED BY <1>1, <1>2, <2>1, HowManyAddsUp, TokensAssumption
<1>6. Over(GetTokenStats, "failed") = HowMany(Rows, {"failed"})
  <2>1. \A t \in Tokens : GetTokenStats[t]["failed"]
                            = HowMany({m \in Rows : class[m] = t}, {"failed"})
    BY <1>3, <1>4
  <2> QED BY <1>1, <1>2, <2>1, HowManyAddsUp, TokensAssumption
<1>7. Over(GetTokenStats, "queued") = HowMany(Rows, {"queued", "sending"})
  <2>1. \A t \in Tokens : GetTokenStats[t]["queued"]
                            = HowMany({m \in Rows : class[m] = t}, {"queued", "sending"})
    BY <1>3, <1>4
  <2> QED BY <1>1, <1>2, <2>1, HowManyAddsUp, TokensAssumption
<1>8. ASSUME NEW t \in Tokens
      PROVE  LET s == GetTokenStats[t]
                 sum == s.sent + s.failed + s.queued
             IN s.total = IF sum = 0 THEN 1 ELSE sum
  <2>1. /\ Cardinality(Of(t)) = HowMany(Of(t), {"sent"}) + HowMany(Of(t), {"failed"})
                                + HowMany(Of(t), {"queued", "sending"})
        /\ IsFiniteSet(Of(t))
    BY <1>3, StatesAddUp
  <2>2. Cardinality(Of(t)) = 0 <=> Of(t) = {}  BY <2>1, FS_EmptySet
  <2> QED BY <1>4, <2>1, <2>2
<1> QED BY <1>5, <1>6, <1>7, <1>8

\* The parts of a dashboard agree if the table did not change while they were read,
\* whichever of them are missing: hours and tokens add up to the totals, and the list
\* has the newest rows.
THEOREM DashboardCorrect == Spec => []DashboardAgrees
<1>1. DashInv => DashboardAgrees
  <2> SUFFICES ASSUME DashInv, place = "tokens", ~changed  PROVE DashboardAgrees
    BY DEF DashboardAgrees
  <2> DEFINE recent == dashboard["recent"]
             hours  == dashboard["hourly"]
             tokens == dashboard["tokens"]
             stats  == dashboard["stats"]
             all == HowMany(Rows, {"sent"}) + HowMany(Rows, {"failed"})
                    + HowMany(Rows, {"queued", "sending"})
  <2>1. TypeInv /\ stats = GetDashboardStats
    BY DEF DashInv, Fresh, PartsThere
  <2>2. /\ stats["sent"] = HowMany(Rows, {"sent"})
        /\ stats["failed"] = HowMany(Rows, {"failed"})
        /\ stats["queued"] = HowMany(Rows, {"queued", "sending"})
    BY <2>1 DEF GetDashboardStats, QueueDepth
  <2>3. Cardinality(Rows) = all /\ all \in Nat /\ IsFiniteSet(Rows)
    BY StatesAddUp
  <2>4. ASSUME "recent" \in DOMAIN dashboard
        PROVE  /\ Cardinality(recent) = Min({MaxRecent, all})
               /\ \A m \in recent, n \in Rows \ recent : second[m] >= second[n]
    <3>1. recent \in GetRecentMessages
      BY <2>4 DEF DashInv, Fresh
    <3> QED BY <2>3, <3>1 DEF GetRecentMessages, Newest, kSubset
  <2>5. ASSUME "hourly" \in DOMAIN dashboard
        PROVE  /\ \A field \in {"sent", "failed"} : Over(hours, field) = stats[field]
               /\ Over(hours, "total") = all
    <3>1. hours = GetHourlyStats
      BY <2>5 DEF DashInv, Fresh
    <3> QED BY <2>1, <2>2, <2>3, <3>1, HoursAddUp
  <2>6. ASSUME "tokens" \in DOMAIN dashboard
        PROVE  /\ \A field \in {"sent", "failed", "queued"} : Over(tokens, field) = stats[field]
               /\ \A t \in Tokens :
                    LET sum == tokens[t].sent + tokens[t].failed + tokens[t].queued
                    IN tokens[t].total = IF sum = 0 THEN 1 ELSE sum
    <3>1. tokens = GetTokenStats
      BY <2>6 DEF DashInv, Fresh
    <3> QED BY <2>1, <2>2, <3>1, TokensAddUp
  <2>7. stats.sent + stats.failed + stats.queued = all
    BY <2>2
  <2> QED BY <2>4, <2>5, <2>6, <2>7 DEF DashboardAgrees
<1>2. Init => DashInv
  <2>1. Init => Fresh /\ PartsThere  BY DEF Init, Fresh, PartsThere
  <2> QED BY <2>1, TypeInit DEF DashInv
<1> QED BY <1>1, <1>2, DashStep, PTL DEF Spec
=============================================================================
