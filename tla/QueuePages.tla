----------------------------- MODULE QueuePages -----------------------------
(***************************************************************************)
(* What the admin reads: the pages of the queue and of a token's messages, *)
(* walked from the first to the last, and the dashboard. A page takes two  *)
(* statements (count, list) and the dashboard takes four, each without a   *)
(* transaction, while workers, webhooks and other admins change the table. *)
(*                                                                         *)
(* The live JSON endpoints run the same statements as their pages.         *)
(***************************************************************************)
EXTENDS Naturals, FiniteSets, FiniteSetsExt

CONSTANTS
  MaxId,        \* bound: rows ever inserted; their ids are 1..MaxId
  MaxRows,      \* bound: rows in the table when the admin begins
  Tokens,       \* API tokens
  Owner,        \* the token of each row
  Selections,   \* bound: filters explored
  PerPage,      \* rows on a page (25)
  MaxRecent,    \* rows in the dashboard's list (10)
  HourLength,   \* seconds that share an hour
  MaxEvents     \* bound: changes of the table while the admin reads

Ids      == 1..MaxId
Statuses == {"queued", "sending", "sent", "failed"}
Filters  == {"all"} \union Statuses \union Tokens

ASSUME SelectionsAssumption == Selections \subseteq Filters
ASSUME TokensAssumption == IsFiniteSet(Tokens)
ASSUME OwnerAssumption == Owner \in [Ids -> Tokens]
ASSUME PageAssumption == PerPage \in Nat \ {0}
ASSUME HourAssumption == HourLength \in Nat \ {0}
ASSUME BoundsAssumption ==
  MaxId \in Nat /\ MaxRows \in 0..MaxId /\ MaxRecent \in Nat /\ MaxEvents \in Nat

VARIABLES
  status,       \* of each row: its status, "none" before it is there, or "deleted"
  second,       \* created_at, which has a resolution of one second
  events,
  \* the admin's walk through the pages
  place,        \* "idle", "counted", "listed" or "end"; on the dashboard, the part read last
  filter, page, total,
  shown,        \* of each row: how often the walk showed it
  \* the dashboard
  dashboard,    \* of each part that has been read: its content; a part whose
                \* query failed is empty on the page, and absent here
  \* history
  must,         \* rows that matched when the walk began
  left,         \* rows that stopped matching have been noticed during the walk
  entered,      \* and rows that began to match
  slipped,      \* some of them between the count and the list of a page
  changed       \* the table changed while the dashboard was read

table   == <<status, second>>
walk    == <<filter, page, total, shown>>
history == <<must, left, entered, slipped, changed>>
vars    == <<table, events, place, walk, dashboard, history>>

Rows == {m \in Ids : status[m] \in Statuses}

Matching(st, f) ==
  {m \in Ids : /\ st[m] \in Statuses
               /\ f = "all" \/ st[m] = f \/ Owner[m] = f}

Match == Matching(status, filter)

Init ==
  /\ \E n \in 0..MaxRows : \E st \in [1..n -> Statuses], ticks \in SUBSET (2..n) :
       /\ status = [m \in Ids |-> IF m <= n THEN st[m] ELSE "none"]
       /\ second = [m \in Ids |->
                      IF m <= n THEN Cardinality({k \in ticks : k <= m}) ELSE 0]
  /\ events = 0
  /\ place = "idle"
  /\ filter = "all" /\ page = 1 /\ total = 0
  /\ shown = [m \in Ids |-> 0]
  /\ dashboard = <<>>
  /\ must = {} /\ left = FALSE /\ entered = FALSE /\ slipped = FALSE
  /\ changed = FALSE

-----------------------------------------------------------------------------
(* What the others do to the table.                                        *)

\* The history of a change to the statuses st.
Noticed(st) ==
  LET after  == Matching(st, filter)
      enters == after \ Match # {}
  IN /\ events < MaxEvents
     /\ events' = events + 1
     /\ left' = (left \/ Match \ after # {})
     /\ entered' = (entered \/ enters)
     /\ slipped' = (slipped \/ (enters /\ place = "counted"))
     /\ changed' = TRUE
     /\ UNCHANGED <<place, walk, dashboard, must>>

\* A change before the admin begins makes another initial table.
Reading == place \notin {"idle", "end", "tokens"}

LastId == Cardinality({m \in Ids : status[m] # "none"})

\* mutant: created_at is what the client says, not the clock of the database
InsertRowDated ==
  /\ Reading
  /\ LastId < MaxId
  /\ LET m == LastId + 1
     IN /\ status' = [status EXCEPT ![m] = "queued"]
        /\ \E t \in 0..m : second' = [second EXCEPT ![m] = t]
  /\ Noticed(status')

InsertRow ==
  /\ Reading
  /\ LastId < MaxId
  /\ LET m == LastId + 1
         now == IF m = 1 THEN 0 ELSE second[LastId]
     IN /\ status' = [status EXCEPT ![m] = "queued"]
        /\ \E t \in {now, now + 1} : second' = [second EXCEPT ![m] = t]
  /\ Noticed(status')

\* The dispatcher claims queued rows only. A worker's mark and an admin's Retry
\* are by id, and look at no status.
Progress ==
  {step \in Statuses \X Statuses :
     step[1] # step[2] /\ (step[2] = "sending" => step[1] = "queued")}

ChangeRow(m) ==
  /\ Reading
  /\ \/ \E step \in Progress : status[m] = step[1] /\ status' = [status EXCEPT ![m] = step[2]]
     \/ m \in Rows /\ status' = [status EXCEPT ![m] = "deleted"]
  /\ UNCHANGED second
  /\ Noticed(status')

-----------------------------------------------------------------------------
(* A page of the queue, or of a token's messages.                          *)

\* mutant: the last page that is not full has no number
PagesFloor(n) == IF n \div PerPage < 1 THEN 1 ELSE n \div PerPage

Pages(n) ==
  LET full == n \div PerPage + (IF n % PerPage > 0 THEN 1 ELSE 0)
  IN IF full < 1 THEN 1 ELSE full

\* mutant: without ORDER BY
AnyOf(S, n) == kSubset(Min({n, Cardinality(S)}), S)

\* ORDER BY created_at DESC LIMIT n: which rows of the same second are taken is
\* not said.
Newest(S, n) ==
  {A \in kSubset(Min({n, Cardinality(S)}), S) :
     \A a \in A, b \in S \ A : second[a] >= second[b]}

\* The first statement of the handler on page p of the filter f.
Count(f, p) ==
  /\ place' = "counted"
  /\ filter' = f /\ page' = p
  /\ total' = Cardinality(Matching(status, f))
  /\ UNCHANGED <<table, events, shown, dashboard, left, entered, slipped, changed>>

OpenQueue ==
  /\ place = "idle"
  /\ \E f \in Selections : Count(f, 1) /\ must' = Matching(status, f)

\* The second one, of ListMessages or GetTokenMessages: LIMIT PerPage OFFSET
\* (page-1)*PerPage.
List ==
  /\ place = "counted"
  /\ \E skipped \in Newest(Match, (page-1) * PerPage) :
       \E onPage \in Newest(Match \ skipped, PerPage) :
         shown' = [m \in Ids |-> shown[m] + IF m \in onPage THEN 1 ELSE 0]
  /\ place' = "listed"
  /\ UNCHANGED <<table, events, filter, page, total, dashboard, history>>

HasNext == page < Pages(total)

\* The link to the next page, if there is one.
NextPage ==
  /\ place = "listed"
  /\ HasNext
  /\ Count(filter, page + 1)
  /\ UNCHANGED must

LastPage ==
  /\ place = "listed"
  /\ ~HasNext
  /\ place' = "end"
  /\ UNCHANGED <<table, events, walk, dashboard, history>>

-----------------------------------------------------------------------------
(* The dashboard.                                                          *)

HowMany(S, states) == Cardinality({m \in S : status[m] \in states})

\* mutant: rows in delivery are left out
DepthOfQueued == HowMany(Rows, {"queued"})

QueueDepth == HowMany(Rows, {"queued", "sending"})

GetDashboardStats ==
  [sent |-> HowMany(Rows, {"sent"}), failed |-> HowMany(Rows, {"failed"}),
   queued |-> QueueDepth]

Hour(m) == second[m] \div HourLength

GetHourlyStats ==
  [h \in {Hour(m) : m \in Rows} |->
     LET rows == {m \in Rows : Hour(m) = h}
     IN [sent |-> HowMany(rows, {"sent"}), failed |-> HowMany(rows, {"failed"}),
         total |-> Cardinality(rows)]]

GetRecentMessages == Newest(Rows, MaxRecent)

\* COUNT(*) over a LEFT JOIN: a token without messages has one row, of NULLs.
GetTokenStats ==
  [t \in Tokens |->
     LET rows == {m \in Rows : Owner[m] = t}
     IN [sent |-> HowMany(rows, {"sent"}), failed |-> HowMany(rows, {"failed"}),
         queued |-> HowMany(rows, {"queued", "sending"}),
         total |-> IF rows = {} THEN 1 ELSE Cardinality(rows)]]

ReadPart(before, part, content) ==
  /\ place = before
  /\ place' = part
  /\ dashboard' = [p \in DOMAIN dashboard \union {part} |->
                     IF p = part THEN content ELSE dashboard[p]]
  /\ UNCHANGED <<table, events, walk, must, left, entered, slipped>>

\* The handler drops the errors of the last three queries, and goes on. (An
\* error of the first ends the request.)
LosePart(before, part) ==
  /\ place = before
  /\ place' = part
  /\ UNCHANGED <<table, events, walk, dashboard, history>>

Dashboard ==
  \/ ReadPart("idle", "stats", GetDashboardStats) /\ changed' = FALSE
  \/ ReadPart("stats", "hourly", GetHourlyStats) /\ UNCHANGED changed
  \/ /\ \E recent \in GetRecentMessages : ReadPart("hourly", "recent", recent)
     /\ UNCHANGED changed
  \/ ReadPart("recent", "tokens", GetTokenStats) /\ UNCHANGED changed
  \/ LosePart("stats", "hourly") \/ LosePart("hourly", "recent") \/ LosePart("recent", "tokens")

Next ==
  \/ InsertRow \/ (\E m \in Ids : ChangeRow(m))
  \/ OpenQueue \/ List \/ NextPage \/ LastPage \/ Dashboard

Spec == Init /\ [][Next]_vars

-----------------------------------------------------------------------------
(* Properties.                                                             *)

\* Every variable has its type; ids grow with the time of the insertion, and
\* no link leads beyond the last page of the rows there can be.
TypeOK ==
  /\ status \in [Ids -> Statuses \union {"none", "deleted"}]
  /\ second \in [Ids -> 0..MaxId]
  /\ \A m, n \in Ids : m < n /\ status[n] # "none" => second[m] <= second[n]
  /\ place \in {"idle", "counted", "listed", "end", "stats", "hourly", "recent", "tokens"}
  /\ filter \in Filters /\ total \in 0..MaxId
  /\ page \in 1..Pages(MaxId)
  /\ shown \in [Ids -> 0..page]
  /\ DOMAIN dashboard \subseteq {"stats", "hourly", "recent", "tokens"}
  /\ events \in 0..MaxEvents
  /\ must \subseteq Ids /\ {left, entered, slipped, changed} \subseteq BOOLEAN

\* Two of the rows that the walk is about have the same created_at.
Tied ==
  \E m, n \in Match \union must : m # n /\ second[m] = second[n]

\* Who walks from the first page to the last sees every row that matched at
\* the beginning, also while new rows push the others down, unless a row left
\* the selection (which moves later ones to a page already seen), rows share a
\* second (no order among them is stable), or a row came in between the count
\* and the list of a page (then the last page may have no link).
WalkMissesNothing ==
  place = "end" /\ ~left /\ ~slipped /\ ~Tied => \A m \in must : shown[m] > 0

\* And sees no row twice, also while rows leave, unless one came in.
WalkRepeatsNothing ==
  place = "end" /\ ~entered /\ ~Tied => \A m \in Ids : shown[m] <= 1

\* The sum of a field over the records of a function.
Over(f, field) == MapThenSumSet(LAMBDA x : f[x][field], DOMAIN f)

\* The parts of a dashboard agree if the table did not change while they were
\* read, whichever of them are missing because their query failed: the hours
\* and the tokens add up to the totals, the list has the newest rows, and a
\* token's total is the sum of its states. (The total of a token that was never
\* used is 1: COUNT(*) counts the row of the LEFT JOIN. The messages of a
\* deleted token are in the totals and of no token; every row here has its
\* token.)
DashboardAgrees ==
  place = "tokens" /\ ~changed =>
    LET stats  == dashboard["stats"]
        hours  == dashboard["hourly"]
        tokens == dashboard["tokens"]
        all == stats.sent + stats.failed + stats.queued
        recent == dashboard["recent"]
    IN /\ "hourly" \in DOMAIN dashboard =>
            /\ \A field \in {"sent", "failed"} : Over(hours, field) = stats[field]
            /\ Over(hours, "total") = all
       /\ "recent" \in DOMAIN dashboard =>
            /\ Cardinality(recent) = Min({MaxRecent, all})
            /\ \A m \in recent, n \in Rows \ recent : second[m] >= second[n]
       /\ "tokens" \in DOMAIN dashboard =>
            /\ \A field \in {"sent", "failed", "queued"} : Over(tokens, field) = stats[field]
            /\ \A t \in Tokens :
                 LET sum == tokens[t].sent + tokens[t].failed + tokens[t].queued
                 IN tokens[t].total = IF sum = 0 THEN 1 ELSE sum
=============================================================================
