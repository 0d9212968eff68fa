--------------------------- MODULE Ledger_proofs ---------------------------
(***************************************************************************)
(* What the release managers never do, for any number of managers, stories *)
(* and tasks and any bound on operations and faults: merge what nobody     *)
(* approved; or let the cache of a manager behind whose back nobody wrote  *)
(* differ from the ledger in a row that it has not still to write.         *)
(***************************************************************************)
EXTENDS Ledger, TLAPS

----------------------------------------------------------------------------
(* The inductive invariant *)

\* The row k is of its type; an approval in it was given by one of the people
\* P; a task that is there belongs to a story.
RowOK(k, row, P) ==
    /\ row \in Row
    /\ row.approval = "approved" => k \in P
    /\ k \in Tasks /\ row.status # "absent" => row.story \in Stories

TableOK(c, P) == c \in [Keys -> Row] /\ \A k \in Keys : RowOK(k, c[k], P)

\* Everything the manager x holds is a sound row of its key.
Loyal(x, P) ==
    /\ x \in Manager
    /\ TableOK(x.cache, P)
    /\ RowOK(x.task, x.row, P)
    /\ x.at = "read" => x.row.status # "absent"

\* What Coherent needs of the states it does not speak of: a load that nobody
\* wrote behind has read the rows as they are, and the row that a save found to
\* be absent still is.
Fresh(x, d, g) ==
    x.sole =>
       /\ x.at = "load" => \A k \in Keys \ x.todo : x.cache[k] = d[k]
       /\ x.at \in {"idle", "read", "save"} => \A k \in Keys : x.cache[k] # d[k] =>
             (x.at = "save" /\ k \in x.todo) \/ k \in g
       /\ x.at = "save" => \A k \in x.creating : ~Has(d, k)

MgrOK(x, d, g, P) == Loyal(x, P) /\ Fresh(x, d, g)

ManagersOK(f, d, g, P) ==
    /\ f \in [Managers -> Manager]
    /\ \A m \in Managers : MgrOK(f[m], d, g[m], P)

\* What is merged was approved.
MergeOK(M, s, P) == ApprovalEnabled => M \subseteq P /\ (s => Release \in P)

Scalars ==
    /\ merged \subseteq Stories /\ shipped \in BOOLEAN /\ receipt \in BOOLEAN
    /\ people \subseteq Keys /\ gone \in [Managers -> SUBSET Keys]
    /\ ops \in 0..MaxOps /\ faults \in 0..MaxFaults

Inv == /\ Scalars
       /\ TableOK(db, people)
       /\ MergeOK(merged, shipped, people)
       /\ ManagersOK(mgr, db, gone, people)

USE DEF repo, history

----------------------------------------------------------------------------
(* Rows and tables *)

\* Releases, stories and tasks are keys, and no two of a kind.
LEMMA KeyFacts ==
    /\ Release \in Keys /\ Stories \subseteq Keys /\ Tasks \subseteq Keys
    /\ Release \notin Tasks /\ \A s \in Stories : s \notin Tasks
BY LedgerAssumption DEF Keys

\* No row is a sound row ...
LEMMA AbsentOK ==
    ASSUME NEW k, NEW P
    PROVE  RowOK(k, Absent, P)
BY DEF RowOK, Absent, Row, Status

\* ... and no rows are a sound table.
LEMMA NothingOK ==
    ASSUME NEW P
    PROVE  TableOK(Nothing, P)
<1>1. Absent \in Row
  BY DEF Absent, Row, Status
<1> QED BY <1>1, AbsentOK DEF TableOK, Nothing

\* The rows that are written for new stories and releases are sound ...
LEMMA StoryRowOK ==
    ASSUME NEW P, NEW k \in Stories \cup {Release}, NEW L \in SUBSET (Stories \cup Tasks),
           NEW st \in Status
    PROVE  /\ RowOK(k, [Absent EXCEPT !.status = st, !.list = L], P)
           /\ RowOK(k, StoryRow(L), P)
BY LedgerAssumption DEF RowOK, StoryRow, Absent, Row, Status

\* ... and so are those for new tasks.
LEMMA TaskRowOK ==
    ASSUME NEW P, NEW k \in Tasks, NEW s \in Stories, NEW st \in Status
    PROVE  /\ RowOK(k, TaskRow(s), P)
           /\ RowOK(k, [TaskRow(s) EXCEPT !.status = st], P)
BY LedgerAssumption DEF RowOK, TaskRow, Absent, Row, Status

\* A sound row with another status is sound ...
LEMMA StatusOK ==
    ASSUME NEW P, NEW k, NEW r, RowOK(k, r, P), NEW st \in Status \ {"absent"},
           r.status # "absent"
    PROVE  /\ RowOK(k, [r EXCEPT !.status = st], P)
           /\ [r EXCEPT !.status = st].status # "absent"
BY DEF RowOK, Row, Status

\* ... and so is one with another list.
LEMMA ListOK ==
    ASSUME NEW P, NEW k, NEW r, RowOK(k, r, P), NEW L \in SUBSET (Stories \cup Tasks)
    PROVE  /\ RowOK(k, [r EXCEPT !.list = L], P)
           /\ [r EXCEPT !.list = L].status = r.status
BY DEF RowOK, Row

\* Further approvals leave every row sound.
LEMMA MoreApproved ==
    ASSUME NEW P, NEW Q, P \subseteq Q
    PROVE  /\ \A k, r : RowOK(k, r, P) => RowOK(k, r, Q)
           /\ \A c : TableOK(c, P) => TableOK(c, Q)
           /\ \A x : Loyal(x, P) => Loyal(x, Q)
           /\ \A x, d, g : MgrOK(x, d, g, P) => MgrOK(x, d, g, Q)
           /\ \A f, d, g : ManagersOK(f, d, g, P) => ManagersOK(f, d, g, Q)
<1>1. \A k, r : RowOK(k, r, P) => RowOK(k, r, Q)
  BY DEF RowOK
<1>2. \A c : TableOK(c, P) => TableOK(c, Q)
  BY <1>1 DEF TableOK
<1>3. \A x : Loyal(x, P) => Loyal(x, Q)
  BY <1>1, <1>2 DEF Loyal
<1>4. \A x, d, g : MgrOK(x, d, g, P) => MgrOK(x, d, g, Q)
  BY <1>3 DEF MgrOK
<1> QED BY <1>1, <1>2, <1>3, <1>4 DEF ManagersOK

\* The rows of a sound table are sound.
LEMMA TableRow ==
    ASSUME NEW P, NEW c, TableOK(c, P), NEW k \in Keys
    PROVE  RowOK(k, c[k], P) /\ c[k] \in Row
BY DEF TableOK

\* A table is sound when each of its rows is.
LEMMA TableByRow ==
    ASSUME NEW P, NEW n, n = [k \in Keys |-> n[k]], \A k \in Keys : RowOK(k, n[k], P)
    PROVE  TableOK(n, P)
BY DEF TableOK, RowOK

\* Overwriting one row with a sound one.
LEMMA PutOK ==
    ASSUME NEW P, NEW c, TableOK(c, P), NEW k \in Keys, NEW r, RowOK(k, r, P)
    PROVE  /\ TableOK([c EXCEPT ![k] = r], P)
           /\ [c EXCEPT ![k] = r][k] = r
           /\ \A j \in Keys \ {k} : [c EXCEPT ![k] = r][j] = c[j]
BY DEF TableOK, RowOK

\* Sound rows inserted into a sound table.
LEMMA InsertAllOK ==
    ASSUME NEW P, NEW d, TableOK(d, P), NEW K, NEW rows,
           \A k \in K : RowOK(k, rows[k], P)
    PROVE  TableOK(InsertAll(d, K, rows), P)
<1> DEFINE n == InsertAll(d, K, rows)
<1>1. n = [k \in Keys |-> n[k]]
  BY DEF InsertAll
<1>2. \A k \in Keys : (n[k] = rows[k] /\ k \in K) \/ n[k] = d[k]
  BY DEF InsertAll
<1> HIDE DEF n
<1>3. \A k \in Keys : RowOK(k, n[k], P)
  BY <1>2, TableRow
<1>4. TableOK(n, P)
  BY <1>1, <1>3, TableByRow
<1> QED BY <1>4 DEF n

----------------------------------------------------------------------------
(* Changes of a cache *)

\* The cache c that an operation makes of b: its rows are sound, it drops no
\* rows but those of G, and has those of K.
Edit(b, c, P, K, G) ==
    /\ TableOK(c, P)
    /\ \A k \in Keys : Has(c, k) \/ c[k] = b[k] \/ k \in G
    /\ \A k \in K : Has(c, k)

\* Overwriting a row by one that is there.
LEMMA EditPut ==
    ASSUME NEW P, NEW b, NEW c, NEW G, NEW K, Edit(b, c, P, K, G), NEW k \in Keys, NEW r,
           RowOK(k, r, P), r.status # "absent", K \subseteq Keys
    PROVE  Edit(b, [c EXCEPT ![k] = r], P, K \cup {k}, G)
<1> DEFINE n == [c EXCEPT ![k] = r]
<1>1. TableOK(n, P) /\ n[k] = r /\ \A j \in Keys \ {k} : n[j] = c[j]
  BY PutOK DEF Edit
<1> HIDE DEF n
<1>2. Has(n, k) /\ \A j \in Keys \ {k} : Has(n, j) <=> Has(c, j)
  BY <1>1 DEF Has
<1>3. Edit(b, n, P, K \cup {k}, G)
  BY <1>1, <1>2 DEF Edit
<1> QED BY <1>3 DEF n

\* A cache that is left as it is.
LEMMA EditNone ==
    ASSUME NEW P, NEW b, NEW G, TableOK(b, P)
    PROVE  Edit(b, b, P, {}, G)
BY DEF Edit

\* Dropping the rows D of a changed cache.
LEMMA EditDrop ==
    ASSUME NEW P, NEW b, NEW c, NEW D, Edit(b, c, P, {}, {})
    PROVE  Edit(b, [k \in Keys |-> IF k \in D THEN Absent ELSE c[k]], P, {}, D)
<1> DEFINE n == [k \in Keys |-> IF k \in D THEN Absent ELSE c[k]]
<1>1. n = [k \in Keys |-> n[k]]
  OBVIOUS
<1>2. /\ \A k \in Keys \ D : n[k] = c[k]
      /\ \A k \in Keys : n[k] = Absent \/ n[k] = c[k]
  OBVIOUS
<1> HIDE DEF n
<1>3. TableOK(n, P)
  <2>1. \A k \in Keys : RowOK(k, n[k], P)
    BY <1>2, TableRow, AbsentOK DEF Edit
  <2> QED BY <1>1, <2>1, TableByRow
<1>4. Edit(b, n, P, {}, D)
  BY <1>2, <1>3 DEF Edit, Has
<1> QED BY <1>4 DEF n

\* A change of some rows to rows that are there.
LEMMA EditByRow ==
    ASSUME NEW P, NEW b, TableOK(b, P), NEW n, n = [k \in Keys |-> n[k]],
           \A k \in Keys : n[k] = b[k] \/ (RowOK(k, n[k], P) /\ Has(n, k))
    PROVE  Edit(b, n, P, {}, {})
<1>1. \A k \in Keys : RowOK(k, n[k], P)
  BY TableRow
<1>2. TableOK(n, P)
  BY <1>1, TableByRow
<1> QED BY <1>2 DEF Edit

----------------------------------------------------------------------------
(* Managers *)

\* The manager x that begins to save c.
Saved(x, c) ==
    LET rows == {k \in Keys : Has(c, k)}
    IN  [x EXCEPT !.at = IF rows = {} THEN "idle" ELSE "save",
                  !.cache = c, !.creating = {}, !.todo = rows]

\* A manager that goes on to save a changed cache.
LEMMA SavedOK ==
    ASSUME NEW x, NEW c, NEW P, NEW K, NEW G, NEW d, NEW g, NEW h,
           MgrOK(x, d, g, P), x.at \in {"idle", "read"},
           Edit(x.cache, c, P, K, G), (g \ K) \cup G \subseteq h
    PROVE  MgrOK(Saved(x, c), d, h, P)
<1> DEFINE y == Saved(x, c)
<1> DEFINE rows == {k \in Keys : Has(c, k)}
<1>1. /\ y.cache = c /\ y.creating = {} /\ y.todo = rows
      /\ y.at = IF rows = {} THEN "idle" ELSE "save"
      /\ y.task = x.task /\ y.row = x.row /\ y.sole = x.sole
  BY DEF Saved, MgrOK, Loyal, Manager
<1>2. y \in Manager
  BY DEF Saved, MgrOK, Loyal, Manager, Edit, TableOK
<1> HIDE DEF y
<1>3. Loyal(y, P)
  BY <1>1, <1>2 DEF MgrOK, Loyal, Edit
<1>4. ASSUME x.sole, NEW k \in Keys, c[k] # d[k]
      PROVE  (y.at = "save" /\ k \in y.todo) \/ k \in h
  <2>1. CASE Has(c, k)
    BY <2>1, <1>1
  <2>2. CASE ~Has(c, k) /\ k \notin G
    <3>1. c[k] = x.cache[k] /\ k \notin K
      BY <2>2 DEF Edit
    <3>2. k \in g
      BY <3>1, <1>4 DEF MgrOK, Fresh
    <3> QED BY <3>1, <3>2
  <2> QED BY <2>1, <2>2
<1>5. Fresh(y, d, h)
  BY <1>1, <1>4 DEF Fresh
<1> QED BY <1>3, <1>5 DEF MgrOK, y

\* A step of m that leaves the other managers as they are.
LEMMA OneManager ==
    ASSUME NEW P, NEW d, NEW h, NEW m \in Managers, NEW f, NEW y,
           f = [mgr EXCEPT ![m] = y],
           ManagersOK(mgr, d, gone, P), MgrOK(y, d, h[m], P),
           \A x \in Managers \ {m} : h[x] = gone[x]
    PROVE  ManagersOK(f, d, h, P)
BY DEF ManagersOK, MgrOK, Loyal

\* A step of m that changes the rows to d takes "sole" from the others, unless
\* it changes nothing.
LEMMA OthersOK ==
    ASSUME NEW P, NEW d, NEW h, NEW m \in Managers, NEW y,
           ManagersOK(mgr, db, gone, P), MgrOK(y, d, h[m], P),
           \A x \in Managers \ {m} : h[x] = gone[x]
    PROVE  ManagersOK(Others(m, d, y), d, h, P)
<1> DEFINE z(x) == [mgr[x] EXCEPT !.sole = @ /\ d = db]
<1>1. ASSUME NEW x \in Managers \ {m}
      PROVE  z(x) \in Manager /\ MgrOK(z(x), d, h[x], P)
  <2>1. MgrOK(mgr[x], db, gone[x], P) /\ mgr[x] \in Manager
    BY DEF ManagersOK
  <2>2. /\ z(x) \in Manager
        /\ z(x).at = mgr[x].at /\ z(x).cache = mgr[x].cache /\ z(x).todo = mgr[x].todo
        /\ z(x).creating = mgr[x].creating /\ z(x).task = mgr[x].task
        /\ z(x).row = mgr[x].row
        /\ z(x).sole => mgr[x].sole /\ d = db
    BY <2>1 DEF Manager
  <2> HIDE DEF z
  <2>3. Loyal(z(x), P)
    BY <2>1, <2>2 DEF MgrOK, Loyal
  <2>4. Fresh(z(x), d, h[x])
    BY <2>1, <2>2 DEF MgrOK, Fresh
  <2> QED BY <2>2, <2>3, <2>4 DEF MgrOK
<1>2. y \in Manager
  BY DEF MgrOK, Loyal
<1> DEFINE f == Others(m, d, y)
<1>3. f = [x \in Managers |-> IF x = m THEN y ELSE z(x)]
  BY DEF Others
<1> HIDE DEF f, z
<1>4. ManagersOK(f, d, h, P)
  BY <1>1, <1>2, <1>3 DEF ManagersOK
<1> QED BY <1>4 DEF f

\* An operation that edits m's cache and saves.
LEMMA SavingOK ==
    ASSUME NEW P, NEW h, NEW m \in Managers, NEW c, NEW K, NEW G,
           ManagersOK(mgr, db, gone, P), mgr[m].at \in {"idle", "read"},
           Edit(mgr[m].cache, c, P, K, G), Saving(m, c),
           (gone[m] \ K) \cup G \subseteq h[m],
           \A x \in Managers \ {m} : h[x] = gone[x]
    PROVE  ManagersOK(mgr', db, h, P)
<1>1. MgrOK(mgr[m], db, gone[m], P) /\ mgr[m] \in Manager
  BY DEF ManagersOK
<1>2. MgrOK(Saved(mgr[m], c), db, h[m], P)
  BY <1>1, SavedOK
<1>3. mgr' = [mgr EXCEPT ![m] = Saved(mgr[m], c)]
  BY <1>1 DEF Saving, Saved, ManagersOK, Manager
<1> QED BY <1>2, <1>3, OneManager

\* An operation that only edits its cache.
LEMMA OperateOK ==
    ASSUME Inv, NEW m \in Managers, NEW c, NEW K \in SUBSET Keys, NEW G \in SUBSET Keys,
           Edit(mgr[m].cache, c, people, K, G), Operate(m, c, K, G)
    PROVE  Inv'
<1>1. ManagersOK(mgr', db, gone', people)
  <2>1. /\ gone'[m] = (gone[m] \ K) \cup G
        /\ \A x \in Managers \ {m} : gone'[x] = gone[x]
    BY DEF Operate, Inv, Scalars
  <2>2. mgr[m].at = "idle" /\ Saving(m, c)
    BY DEF Operate, Idle
  <2> DEFINE h == gone'
  <2> HIDE DEF h
  <2>3. ManagersOK(mgr', db, h, people)
    BY <2>1, <2>2, SavingOK DEF Inv, h
  <2> QED BY <2>3 DEF h
<1>2. Scalars'
  BY LedgerAssumption DEF Operate, Inv, Scalars, Counted
<1> QED BY <1>1, <1>2 DEF Inv, Operate

\* What the invariant says of one manager.
LEMMA Cached ==
    ASSUME Inv, NEW m \in Managers
    PROVE  /\ mgr[m] \in Manager /\ MgrOK(mgr[m], db, gone[m], people)
           /\ TableOK(mgr[m].cache, people)
           /\ mgr[m].cache \in [Keys -> Row]
BY DEF Inv, ManagersOK, MgrOK, Loyal, TableOK

----------------------------------------------------------------------------
(* Operations that edit the cache *)

\* CreateRelease writes a draft.
LEMMA CreateReleaseStep ==
    ASSUME Inv, NEW m \in Managers, CreateRelease(m)
    PROVE  Inv'
<1> DEFINE r == [Absent EXCEPT !.status = "draft"]
<1>1. RowOK(Release, r, people) /\ r.status # "absent"
  BY LedgerAssumption DEF RowOK, Absent, Row, Status
<1> HIDE DEF r
<1>2. Edit(mgr[m].cache, [mgr[m].cache EXCEPT ![Release] = r], people, {Release}, {})
  BY <1>1, Cached, EditNone, EditPut, KeyFacts
<1>3. Edit(mgr[m].cache, [mgr[m].cache EXCEPT ![Release] = r], people, {}, {})
  BY <1>2 DEF Edit
<1>4. Operate(m, [mgr[m].cache EXCEPT ![Release] = r], {}, {})
  BY DEF CreateRelease, r
<1> QED BY <1>3, <1>4, OperateOK

\* Save writes the cache as it is.
LEMMA SaveStep ==
    ASSUME Inv, NEW m \in Managers, Save(m)
    PROVE  Inv'
BY Cached, EditNone, OperateOK DEF Save

\* A row of the cache that is there gets another status.
LEMMA EditStatus ==
    ASSUME NEW P, NEW b, NEW k \in Keys, TableOK(b, P), Has(b, k),
           NEW st \in Status \ {"absent"}
    PROVE  /\ Edit(b, [b EXCEPT ![k].status = st], P, {}, {})
           /\ TableOK([b EXCEPT ![k].status = st], P)
<1> DEFINE r == [b[k] EXCEPT !.status = st]
<1>1. RowOK(k, r, P) /\ r.status # "absent"
  BY TableRow, StatusOK DEF Has
<1>2. [b EXCEPT ![k].status = st] = [b EXCEPT ![k] = r]
  OBVIOUS
<1> HIDE DEF r
<1>3. Edit(b, [b EXCEPT ![k] = r], P, {} \cup {k}, {})
  BY <1>1, EditNone, EditPut
<1> QED BY <1>2, <1>3 DEF Edit

\* ClaimStory changes the story's status.
LEMMA ClaimStoryStep ==
    ASSUME Inv, NEW m \in Managers, NEW s \in Stories, ClaimStory(m, s)
    PROVE  Inv'
<1> DEFINE c == [mgr[m].cache EXCEPT ![s].status = "in_progress"]
<1>1. Edit(mgr[m].cache, c, people, {}, {})
  BY Cached, EditStatus, KeyFacts DEF ClaimStory, Status
<1>2. Operate(m, c, {}, {})
  BY DEF ClaimStory
<1> HIDE DEF c
<1> QED BY <1>1, <1>2, OperateOK

\* CompleteStory changes the story's status.
LEMMA CompleteStoryStep ==
    ASSUME Inv, NEW m \in Managers, NEW s \in Stories, CompleteStory(m, s)
    PROVE  Inv'
<1> DEFINE c == [mgr[m].cache EXCEPT ![s].status = "done"]
<1>1. Edit(mgr[m].cache, c, people, {}, {})
  BY Cached, EditStatus, KeyFacts DEF CompleteStory, Status
<1>2. Operate(m, c, {}, {})
  BY DEF CompleteStory
<1> HIDE DEF c
<1> QED BY <1>1, <1>2, OperateOK

\* CreateStory adds the story, and lists it in the release.
LEMMA CreateStoryStep ==
    ASSUME Inv, NEW m \in Managers, NEW s \in Stories, CreateStory(m, s)
    PROVE  Inv'
<1> DEFINE b == mgr[m].cache
           c1 == [b EXCEPT ![s] = StoryRow({})]
           L == b[Release].list \cup {s}
           r == [b[Release] EXCEPT !.list = L]
           c == [b EXCEPT ![s] = StoryRow({}),
                          ![Release].list = IF Has(b, Release) THEN @ \cup {s} ELSE @]
<1>1. TableOK(b, people) /\ b \in [Keys -> Row]
  BY Cached
<1>2. s \in Keys /\ Release \in Keys /\ s # Release
  BY LedgerAssumption, KeyFacts
<1>3. Edit(b, c1, people, {s}, {})
  <2>1. RowOK(s, StoryRow({}), people) /\ StoryRow({}).status # "absent"
    <3>1. "pending" \in Status
      BY DEF Status
    <3>2. RowOK(s, StoryRow({}), people)
      BY <3>1, StoryRowOK
    <3> QED BY <3>2 DEF StoryRow, Absent
  <2>2. Edit(b, c1, people, {} \cup {s}, {})
    <3> HIDE DEF b
    <3> QED BY <2>1, <1>1, <1>2, EditNone, EditPut
  <2> QED BY <2>2
<1>4. CASE ~Has(b, Release)
  <2>1. c = c1
    BY <1>1, <1>2, <1>4 DEF Row
  <2> QED BY <1>2, <1>3, <1>4, <2>1, OperateOK DEF CreateStory
<1>5. CASE Has(b, Release)
  <2>1. c = [c1 EXCEPT ![Release] = r]
    BY <1>1, <1>2, <1>5
  <2>2. RowOK(Release, r, people) /\ r.status # "absent"
    <3>1. RowOK(Release, b[Release], people)
      BY <1>1, <1>2, TableRow
    <3>2. L \in SUBSET (Stories \cup Tasks)
      BY <1>1, <1>2 DEF Row
    <3> HIDE DEF b, L
    <3>3. RowOK(Release, r, people) /\ r.status = b[Release].status
      BY <3>1, <3>2, ListOK
    <3> QED BY <3>3, <1>5 DEF Has
  <2> HIDE DEF c1, r, b
  <2>3. Edit(b, [c1 EXCEPT ![Release] = r], people, {s} \cup {Release}, {})
    BY <1>2, <1>3, <2>2, EditPut
  <2>4. Edit(b, c, people, {s}, {})
    BY <2>1, <2>3 DEF Edit
  <2> QED BY <1>2, <2>4, OperateOK DEF CreateStory, b, c
<1> QED BY <1>4, <1>5

\* CreateTask adds the task, and lists it in its story.
LEMMA CreateTaskStep ==
    ASSUME Inv, NEW m \in Managers, NEW t \in Tasks, CreateTask(m, t)
    PROVE  Inv'
<1> DEFINE b == mgr[m].cache
           s == Home[t]
           row == [TaskRow(s) EXCEPT !.status = IF b[s].status = "done" THEN "done" ELSE "pending"]
           c1 == [b EXCEPT ![t] = row]
           L == b[s].list \cup {t}
           r == [b[s] EXCEPT !.list = L]
           c == [b EXCEPT ![t] = row, ![s].list = @ \cup {t}]
<1>1. TableOK(b, people) /\ b \in [Keys -> Row] /\ Has(b, s)
  BY Cached DEF CreateTask
<1>2. s \in Stories /\ s \in Keys /\ t \in Keys /\ s # t
  BY LedgerAssumption, KeyFacts
<1>3. RowOK(t, row, people) /\ row.status # "absent"
  <2>1. (IF b[s].status = "done" THEN "done" ELSE "pending") \in Status \ {"absent"}
    BY DEF Status
  <2> QED BY <1>2, <2>1, TaskRowOK DEF TaskRow, Absent
<1>4. RowOK(s, r, people) /\ r.status # "absent"
  <2>1. RowOK(s, b[s], people)
    BY <1>1, <1>2, TableRow
  <2>2. L \in SUBSET (Stories \cup Tasks)
    BY <1>1, <1>2 DEF Row
  <2> HIDE DEF b, L
  <2>3. RowOK(s, r, people) /\ r.status = b[s].status
    BY <2>1, <2>2, ListOK
  <2> QED BY <2>3, <1>1 DEF Has
<1>5. c = [c1 EXCEPT ![s] = r]
  BY <1>1, <1>2
<1>6. Operate(m, c, {t}, {})
  BY DEF CreateTask
<1> HIDE DEF c, r, row, b
<1>7. Edit(b, c1, people, {} \cup {t}, {})
  BY <1>1, <1>2, <1>3, EditNone, EditPut
<1> HIDE DEF c1
<1>8. Edit(b, [c1 EXCEPT ![s] = r], people, {t} \cup {s}, {})
  BY <1>2, <1>4, <1>7, EditPut
<1>9. Edit(b, c, people, {t}, {})
  BY <1>5, <1>8 DEF Edit
<1> QED BY <1>2, <1>6, <1>9, OperateOK DEF b

\* ResetStatuses changes statuses only.
LEMMA ResetStatusesStep ==
    ASSUME Inv, NEW m \in Managers, ResetStatuses(m)
    PROVE  Inv'
<1> DEFINE b == mgr[m].cache
           c == [k \in Keys |-> IF Has(b, k) /\ k # Release
                                THEN [b[k] EXCEPT !.status = "pending"] ELSE b[k]]
<1>1. TableOK(b, people) /\ b \in [Keys -> Row]
  BY Cached
<1>2. ASSUME NEW k \in Keys
      PROVE  c[k] = b[k] \/ (RowOK(k, c[k], people) /\ Has(c, k))
  <2>1. "pending" \in Status \ {"absent"}
    BY DEF Status
  <2>2. CASE Has(b, k) /\ k # Release
    <3>1. RowOK(k, b[k], people)
      BY <1>1, TableRow
    <3>2. c[k] = [b[k] EXCEPT !.status = "pending"]
      BY <2>2
    <3> HIDE DEF c, b
    <3> QED BY <3>1, <3>2, <2>1, <2>2, StatusOK DEF Has
  <2> QED BY <2>2
<1>3. c = [k \in Keys |-> c[k]] /\ Operate(m, c, {}, {})
  BY DEF ResetStatuses
<1> HIDE DEF c
<1>4. Edit(b, c, people, {}, {})
  <2> HIDE DEF b
  <2> QED BY <1>1, <1>2, <1>3, EditByRow
<1> QED BY <1>3, <1>4, OperateOK

\* RejectTask writes a rejection.
LEMMA RejectTaskStep ==
    ASSUME Inv, NEW m \in Managers, NEW t \in Tasks, RejectTask(m, t)
    PROVE  Inv'
<1> DEFINE b == mgr[m].cache
           r == [b[t] EXCEPT !.approval = "rejected", !.status = "needs_review"]
           c == [b EXCEPT ![t].approval = "rejected", ![t].status = "needs_review"]
<1>1. TableOK(b, people) /\ b \in [Keys -> Row] /\ t \in Keys
  BY Cached, KeyFacts
<1>2. c = [b EXCEPT ![t] = r]
  BY <1>1
<1>3. RowOK(t, r, people) /\ r.status # "absent"
  <2>1. RowOK(t, b[t], people) /\ b[t].status # "absent"
    BY <1>1, TableRow DEF RejectTask, Has
  <2> HIDE DEF b
  <2> QED BY <2>1 DEF RowOK, Row, Status
<1>4. Operate(m, c, {}, {})
  BY DEF RejectTask
<1> HIDE DEF r, c
<1>5. Edit(b, [b EXCEPT ![t] = r], people, {} \cup {t}, {})
  <2> HIDE DEF b
  <2> QED BY <1>1, <1>3, EditNone, EditPut
<1>6. Edit(b, c, people, {}, {})
  BY <1>2, <1>5 DEF Edit
<1> QED BY <1>4, <1>6, OperateOK

\* A list of a row that is there gets another value.
LEMMA EditList ==
    ASSUME NEW P, NEW b, NEW k \in Keys, TableOK(b, P), Has(b, k),
           NEW L \in SUBSET (Stories \cup Tasks)
    PROVE  Edit(b, [b EXCEPT ![k].list = L], P, {}, {})
<1> DEFINE r == [b[k] EXCEPT !.list = L]
<1>1. RowOK(k, b[k], P)
  BY TableRow
<1>2. RowOK(k, r, P) /\ r.status # "absent"
  BY <1>1, ListOK DEF Has
<1>3. [b EXCEPT ![k].list = L] = [b EXCEPT ![k] = r]
  OBVIOUS
<1> HIDE DEF r
<1>4. Edit(b, [b EXCEPT ![k] = r], P, {} \cup {k}, {})
  BY <1>2, EditNone, EditPut
<1> QED BY <1>3, <1>4 DEF Edit

\* DeleteTask drops the task from the cache and leaves its row.
LEMMA DeleteTaskStep ==
    ASSUME Inv, NEW m \in Managers, NEW t \in Tasks, DeleteTask(m, t)
    PROVE  Inv'
<1> DEFINE b == mgr[m].cache
           s == b[t].story
           L == b[s].list \ {t}
           c == IF Has(b, s) THEN [b EXCEPT ![s].list = @ \ {t}] ELSE b
           n == [k \in Keys |-> IF k \in {t} THEN Absent ELSE c[k]]
<1>1. TableOK(b, people) /\ b \in [Keys -> Row] /\ t \in Keys
  BY Cached, KeyFacts
<1>2. s \in Keys
  <2>1. RowOK(t, b[t], people) /\ b[t].status # "absent"
    BY <1>1, TableRow DEF DeleteTask, Has
  <2> QED BY <2>1, KeyFacts DEF RowOK
<1>3. Edit(b, c, people, {}, {})
  <2>1. CASE Has(b, s)
    <3>1. c = [b EXCEPT ![s].list = L]
      BY <2>1
    <3>2. L \in SUBSET (Stories \cup Tasks)
      BY <1>1, <1>2 DEF Row
    <3> HIDE DEF b, s, L, c
    <3> QED BY <1>1, <1>2, <2>1, <3>1, <3>2, EditList
  <2>2. CASE ~Has(b, s)
    BY <1>1, <2>2, EditNone
  <2> QED BY <2>1, <2>2
<1>4. Operate(m, n, {}, {t})
  BY DEF DeleteTask, Deleted
<1> HIDE DEF b, c
<1>5. Edit(b, n, people, {}, {t})
  BY <1>3, EditDrop
<1> QED BY <1>1, <1>4, <1>5, OperateOK DEF b

\* DeleteStory drops the story from the cache and leaves its row.
LEMMA DeleteStoryStep ==
    ASSUME Inv, NEW m \in Managers, NEW s \in Stories, DeleteStory(m, s)
    PROVE  Inv'
<1> DEFINE b == mgr[m].cache
           D == {s} \cup b[s].list
           n == [k \in Keys |-> IF k \in D THEN Absent ELSE b[k]]
<1>1. TableOK(b, people) /\ b \in [Keys -> Row] /\ s \in Keys
  BY Cached, KeyFacts
<1>2. D \in SUBSET Keys
  BY <1>1, KeyFacts DEF Row
<1>3. Operate(m, n, {}, D)
  BY DEF DeleteStory, Deleted
<1> HIDE DEF D, b
<1>4. Edit(b, n, people, {}, D)
  BY <1>1, EditNone, EditDrop
<1> QED BY <1>2, <1>3, <1>4, OperateOK DEF b

\* An approval is written by the person that gives it.
LEMMA ApproveStep ==
    ASSUME Inv, NEW m \in Managers, NEW k \in Keys, Approve(m, k)
    PROVE  Inv'
<1> DEFINE b == mgr[m].cache
           P == people \cup {k}
           r == [b[k] EXCEPT !.approval = "approved", !.status = "approved"]
           c == [b EXCEPT ![k].approval = "approved", ![k].status = "approved"]
<1>1. TableOK(b, people) /\ b \in [Keys -> Row] /\ people \subseteq P
  BY Cached
<1>2. TableOK(b, P) /\ TableOK(db, P) /\ ManagersOK(mgr, db, gone, P)
  BY <1>1, MoreApproved DEF Inv
<1>3. c = [b EXCEPT ![k] = r]
  BY <1>1
<1>4. RowOK(k, r, P) /\ r.status # "absent"
  <2>1. RowOK(k, b[k], P) /\ b[k].status # "absent"
    BY <1>2, TableRow DEF Approve, Has
  <2> HIDE DEF b
  <2> QED BY <2>1 DEF RowOK, Row, Status
<1>5. mgr[m].at = "idle" /\ Saving(m, c) /\ people' = P /\ gone' = gone /\ db' = db
  BY DEF Approve, Idle
<1> HIDE DEF r, c, P
<1>6. Edit(b, [b EXCEPT ![k] = r], P, {} \cup {k}, {})
  <2> HIDE DEF b
  <2> QED BY <1>2, <1>4, EditNone, EditPut
<1>7. Edit(b, c, P, {}, {})
  BY <1>3, <1>6 DEF Edit
<1>8. ManagersOK(mgr', db, gone, P)
  <2>1. mgr[m].at = "idle" /\ Saving(m, c)
    BY <1>5
  <2>2. (gone[m] \ {}) \cup {} \subseteq gone[m]
    OBVIOUS
  <2> QED BY <1>2, <1>7, <2>1, <2>2, SavingOK
<1>9. Scalars'
  BY LedgerAssumption DEF Inv, Scalars, Approve, Counted
<1>10. MergeOK(merged', shipped', people')
  BY <1>1, <1>5 DEF Inv, MergeOK, Approve
<1> QED BY <1>2, <1>5, <1>8, <1>9, <1>10 DEF Inv

----------------------------------------------------------------------------
(* Task-local updates *)

\* The cache of a task that moved to another story.
LEMMA MovedOK ==
    ASSUME NEW P, NEW b, TableOK(b, P), NEW t \in Tasks, NEW from, NEW row,
           RowOK(t, row, P), row.status # "absent"
    PROVE  Edit(b, Moved(b, t, from, row), P, {}, {})
<1> DEFINE n == Moved(b, t, from, row)
<1>1. n = [k \in Keys |-> n[k]]
  BY DEF Moved
<1>2. ASSUME NEW k \in Keys
      PROVE  n[k] = b[k] \/ (RowOK(k, n[k], P) /\ Has(n, k))
  <2> DEFINE L1 == b[k].list \ {t}
             L2 == b[k].list \cup {t}
  <2>1. RowOK(k, b[k], P) /\ b[k] \in Row
    BY TableRow
  <2>2. L1 \in SUBSET (Stories \cup Tasks) /\ L2 \in SUBSET (Stories \cup Tasks)
    BY <2>1 DEF Row
  <2>3. \/ k = t /\ n[k] = row
        \/ n[k] = [b[k] EXCEPT !.list = L1] /\ Has(b, k)
        \/ n[k] = [b[k] EXCEPT !.list = L2] /\ Has(b, k)
        \/ n[k] = b[k]
    BY DEF Moved
  <2> HIDE DEF L1, L2, n
  <2>4. CASE k = t /\ n[k] = row
    BY <2>4 DEF Has
  <2>5. CASE n[k] = [b[k] EXCEPT !.list = L1] /\ Has(b, k)
    BY <2>1, <2>2, <2>5, ListOK DEF Has
  <2>6. CASE n[k] = [b[k] EXCEPT !.list = L2] /\ Has(b, k)
    BY <2>1, <2>2, <2>6, ListOK DEF Has
  <2> QED BY <2>3, <2>4, <2>5, <2>6
<1> HIDE DEF n
<1>3. Edit(b, n, P, {}, {})
  BY <1>1, <1>2, EditByRow
<1> QED BY <1>3 DEF n

\* UpdateTask with a row of t that is there.
LEMMA UpdateTaskOK ==
    ASSUME Inv, NEW m \in Managers, NEW t \in Tasks, NEW row,
           RowOK(t, row, people), row.status # "absent",
           mgr[m].at \in {"idle", "read"}, UpdateTask(m, t, row)
    PROVE  TableOK(db', people) /\ ManagersOK(mgr', db', gone, people)
<1> DEFINE x == mgr[m]
           d == Overwrite(db, t, row)
           y == [x EXCEPT !.at = "idle", !.row = Absent, !.cache[t] = row]
           z == [x EXCEPT !.at = "idle", !.row = Absent]
<1>1. /\ x \in Manager /\ MgrOK(x, db, gone[m], people) /\ TableOK(x.cache, people)
      /\ TableOK(db, people) /\ t \in Keys /\ ManagersOK(mgr, db, gone, people)
  BY Cached, KeyFacts DEF Inv
<1>2. row \in Row /\ Absent \in Row
  BY DEF RowOK, Absent, Row, Status
<1>3. CASE db' = d /\ mgr' = Others(m, d, y)
  <2>1. TableOK(d, people) /\ d[t] = row /\ \A k \in Keys \ {t} : d[k] = db[k]
    BY <1>1, PutOK DEF Overwrite
  <2> DEFINE c == [x.cache EXCEPT ![t] = row]
  <2>2. TableOK(c, people) /\ c[t] = row /\ \A k \in Keys \ {t} : c[k] = x.cache[k]
    BY <1>1, PutOK
  <2>3. /\ y.at = "idle" /\ y.cache = c /\ y.row = Absent
        /\ y.task = x.task /\ y.sole = x.sole
    BY <1>1 DEF Manager
  <2>4. y \in Manager
    BY <1>1, <1>2 DEF Manager
  <2> HIDE DEF y, d, c
  <2>5. Loyal(y, people)
    BY <2>2, <2>3, <2>4, AbsentOK DEF Loyal
  <2>6. Fresh(y, d, gone[m])
    BY <1>1, <2>1, <2>2, <2>3 DEF Fresh, MgrOK
  <2>7. ManagersOK(Others(m, d, y), d, gone, people)
    BY <1>1, <2>5, <2>6, OthersOK DEF MgrOK
  <2> QED BY <1>3, <2>1, <2>7
<1>4. CASE mgr' = [mgr EXCEPT ![m].at = "idle", ![m].row = Absent] /\ db' = db
  <2>1. mgr' = [mgr EXCEPT ![m] = z]
    BY <1>1, <1>4 DEF ManagersOK
  <2>2. /\ z.at = "idle" /\ z.cache = x.cache /\ z.row = Absent
        /\ z.task = x.task /\ z.sole = x.sole /\ z \in Manager
    BY <1>1, <1>2 DEF Manager
  <2> HIDE DEF z
  <2>3. Loyal(z, people)
    BY <1>1, <2>2, AbsentOK DEF Loyal
  <2>4. Fresh(z, db, gone[m])
    BY <1>1, <2>2 DEF Fresh, MgrOK
  <2>5. ManagersOK(mgr', db, gone, people)
    BY <1>1, <2>1, <2>3, <2>4, OneManager DEF MgrOK
  <2> QED BY <1>1, <1>4, <2>5
<1>5. CASE Saving(m, Moved(x.cache, t, db[t].story, row)) /\ db' = db
  <2> DEFINE n == Moved(x.cache, t, db[t].story, row)
  <2>1. Edit(x.cache, n, people, {}, {})
    BY <1>1, MovedOK
  <2> HIDE DEF n
  <2>2. ManagersOK(mgr', db, gone, people)
    BY <1>1, <1>5, <2>1, SavingOK DEF n
  <2> QED BY <1>1, <1>5, <2>2
<1>6. \/ db' = d /\ mgr' = Others(m, d, y)
      \/ mgr' = [mgr EXCEPT ![m].at = "idle", ![m].row = Absent] /\ db' = db
      \/ Saving(m, Moved(x.cache, t, db[t].story, row)) /\ db' = db
  BY DEF UpdateTask
<1> QED BY <1>3, <1>4, <1>5, <1>6

\* The second half of SetTaskStatus writes the row that the first has read.
LEMMA SetTaskStatusWriteStep ==
    ASSUME Inv, NEW m \in Managers, NEW st \in {"in_progress", "done"},
           SetTaskStatusWrite(m, st)
    PROVE  Inv'
<1> DEFINE x == mgr[m]
           row == [x.row EXCEPT !.status = st]
<1>1. x.at = "read" /\ UpdateTask(m, x.task, row)
  BY DEF SetTaskStatusWrite
<1>2. RowOK(x.task, x.row, people) /\ x.row.status # "absent" /\ x.task \in Tasks
  BY <1>1, Cached DEF MgrOK, Loyal, Manager
<1>3. RowOK(x.task, row, people) /\ row.status # "absent"
  <2>1. st \in Status \ {"absent"}
    BY DEF Status
  <2> QED BY <1>2, <2>1, StatusOK
<1> HIDE DEF row
<1>4. TableOK(db', people) /\ ManagersOK(mgr', db', gone, people)
  BY <1>1, <1>2, <1>3, UpdateTaskOK
<1> QED BY <1>4 DEF SetTaskStatusWrite, Inv, Scalars

\* ReassignTask hands the cached row with another story to UpdateTask.
LEMMA ReassignTaskStep ==
    ASSUME Inv, NEW m \in Managers, NEW t \in Tasks, NEW s \in Stories,
           ReassignTask(m, t, s)
    PROVE  Inv'
<1> DEFINE r == mgr[m].cache[t]
           row == [r EXCEPT !.story = s]
<1>1. mgr[m].at = "idle" /\ UpdateTask(m, t, row) /\ r.status # "absent"
  BY DEF ReassignTask, Idle, Has
<1>2. RowOK(t, r, people)
  BY Cached, KeyFacts, TableRow
<1>3. RowOK(t, row, people) /\ row.status # "absent"
  <2> HIDE DEF r
  <2> QED BY <1>1, <1>2 DEF RowOK, Row
<1> HIDE DEF row
<1>4. TableOK(db', people) /\ ManagersOK(mgr', db', gone, people)
  BY <1>1, <1>3, UpdateTaskOK
<1> QED BY <1>4, LedgerAssumption DEF ReassignTask, Counted, Inv, Scalars

\* The first half of SetTaskStatus reads the row.
LEMMA SetTaskStatusStep ==
    ASSUME Inv, NEW m \in Managers, NEW t \in Tasks, SetTaskStatus(m, t)
    PROVE  Inv'
<1> DEFINE x == mgr[m]
           y == [x EXCEPT !.at = "read", !.task = t, !.row = db[t]]
<1>1. /\ x \in Manager /\ MgrOK(x, db, gone[m], people) /\ TableOK(x.cache, people)
      /\ TableOK(db, people) /\ t \in Keys /\ ManagersOK(mgr, db, gone, people)
  BY Cached, KeyFacts DEF Inv
<1>2. x.at = "idle" /\ db[t].status # "absent"
  BY DEF SetTaskStatus, Idle, Has
<1>3. RowOK(t, db[t], people) /\ db[t] \in Row
  BY <1>1, TableRow
<1>4. mgr' = [mgr EXCEPT ![m] = y]
  BY <1>1 DEF SetTaskStatus, ManagersOK
<1>5. /\ y.at = "read" /\ y.cache = x.cache /\ y.row = db[t] /\ y.task = t
      /\ y.sole = x.sole /\ y \in Manager
  BY <1>1, <1>3 DEF Manager
<1> HIDE DEF y
<1>6. Loyal(y, people)
  BY <1>1, <1>2, <1>3, <1>5 DEF Loyal
<1>7. Fresh(y, db, gone[m])
  BY <1>1, <1>2, <1>5 DEF Fresh, MgrOK
<1>8. ManagersOK(mgr', db, gone, people)
  BY <1>1, <1>4, <1>6, <1>7, OneManager DEF MgrOK
<1> QED BY <1>8, LedgerAssumption DEF SetTaskStatus, Counted, Inv, Scalars

----------------------------------------------------------------------------
(* Merging *)

\* Two changes are a change.
LEMMA EditTwice ==
    ASSUME NEW P, NEW b, NEW c, NEW n, Edit(b, c, P, {}, {}), Edit(c, n, P, {}, {})
    PROVE  Edit(b, n, P, {}, {})
BY DEF Edit, Has

\* Merging stories that the changed cache says are approved.
LEMMA MergeAllOK ==
    ASSUME Inv, NEW m \in Managers, NEW c, NEW S \in SUBSET Stories, NEW outcome, NEW main,
           Edit(mgr[m].cache, c, people, {}, {}),
           \A s \in S : Has(c, s) /\ Approved(c, s),
           MergeAll(m, c, S, outcome, main)
    PROVE  Inv'
<1> DEFINE ok == {s \in S : outcome[s] = "merged"}
           c1 == [k \in Keys |->
                    IF k \in S /\ outcome[k] \in {"merged", "conflict"}
                    THEN [c[k] EXCEPT !.status = IF k \in ok THEN "done" ELSE "conflict"]
                    ELSE c[k]]
           ship == /\ ok # {} /\ ReleaseComplete(c1) /\ Approved(c1, Release)
                   /\ AutoMerge /\ main
           n == IF ship THEN [c1 EXCEPT ![Release].status = "deployed"] ELSE c1
<1>1. /\ mgr[m].at = "idle" /\ Saving(m, n)
      /\ merged' = merged \cup ok /\ shipped' = (shipped \/ ship)
      /\ ops' \in 0..MaxOps /\ db' = db /\ receipt' = receipt
      /\ people' = people /\ gone' = gone /\ faults' = faults
  BY LedgerAssumption DEF MergeAll, Idle, Counted, Inv, Scalars
<1>2. TableOK(c, people)
  BY DEF Edit
<1>3. Edit(c, c1, people, {}, {})
  <2>1. c1 = [k \in Keys |-> c1[k]]
    OBVIOUS
  <2>2. ASSUME NEW k \in Keys
        PROVE  c1[k] = c[k] \/ (RowOK(k, c1[k], people) /\ Has(c1, k))
    <3> DEFINE st == IF k \in ok THEN "done" ELSE "conflict"
    <3>1. RowOK(k, c[k], people)
      BY <1>2, TableRow
    <3>2. st \in Status \ {"absent"}
      BY DEF Status
    <3>3. c1[k] = c[k] \/ (k \in S /\ c1[k] = [c[k] EXCEPT !.status = st])
      OBVIOUS
    <3>4. k \in S => c[k].status # "absent"
      BY DEF Has
    <3> HIDE DEF st, c1
    <3>5. CASE k \in S /\ c1[k] = [c[k] EXCEPT !.status = st]
      BY <3>1, <3>2, <3>4, <3>5, StatusOK DEF Has
    <3> QED BY <3>3, <3>5
  <2> HIDE DEF c1
  <2> QED BY <1>2, <2>1, <2>2, EditByRow
<1>4. ok \subseteq Stories /\ (ApprovalEnabled => ok \subseteq people)
  <2>1. \A s \in ok : RowOK(s, c[s], people)
    BY <1>2, TableRow, KeyFacts
  <2> QED BY <2>1 DEF Approved, RowOK
<1>5. ship \in BOOLEAN /\ (ApprovalEnabled /\ ship => Release \in people)
  <2>1. RowOK(Release, c1[Release], people)
    <3> HIDE DEF c1
    <3> QED BY <1>3, TableRow, KeyFacts DEF Edit
  <2> HIDE DEF c1
  <2> QED BY <2>1 DEF Approved, RowOK
<1>6. Edit(c, n, people, {}, {})
  <2>1. CASE ship
    <3>1. Has(c1, Release) /\ TableOK(c1, people) /\ Release \in Keys
      <4> HIDE DEF c1
      <4> QED BY <2>1, <1>3, KeyFacts DEF ReleaseComplete, Edit
    <3> DEFINE c2 == [c1 EXCEPT ![Release].status = "deployed"]
    <3>2. n = c2
      BY <2>1
    <3>3. "deployed" \in Status \ {"absent"}
      BY DEF Status
    <3> HIDE DEF c1, n, ship
    <3>4. Edit(c1, c2, people, {}, {})
      BY <3>1, <3>3, EditStatus
    <3> HIDE DEF c2
    <3> QED BY <1>3, <3>2, <3>4, EditTwice
  <2>2. CASE ~ship
    BY <1>3, <2>2
  <2> QED BY <2>1, <2>2
<1> HIDE DEF n, ok, ship
<1>7. Edit(mgr[m].cache, n, people, {}, {})
  BY <1>6, EditTwice
<1>8. ManagersOK(mgr', db, gone, people)
  <2>1. mgr[m].at = "idle" /\ Saving(m, n)
    BY <1>1
  <2>2. (gone[m] \ {}) \cup {} \subseteq gone[m]
    OBVIOUS
  <2> QED BY <1>7, <2>1, <2>2, SavingOK DEF Inv
<1>9. MergeOK(merged', shipped', people')
  BY <1>1, <1>4, <1>5 DEF Inv, MergeOK
<1>10. Scalars'
  BY <1>1, <1>4, <1>5 DEF Inv, Scalars
<1> QED BY <1>1, <1>8, <1>9, <1>10 DEF Inv

\* CompleteTask merges the story that it completes, if that is approved.
LEMMA CompleteTaskStep ==
    ASSUME Inv, NEW m \in Managers, NEW t \in Tasks, NEW outcome, NEW main,
           CompleteTask(m, t, outcome, main)
    PROVE  Inv'
<1> DEFINE b == mgr[m].cache
           c == [b EXCEPT ![t].status = "done"]
           s == c[t].story
           S == IF /\ AutoMerge /\ StoryComplete(c, s) /\ Approved(c, s) /\ Mergeable(c, s)
                THEN {s} ELSE {}
<1>1. TableOK(b, people) /\ Has(b, t) /\ t \in Keys /\ MergeAll(m, c, S, outcome, main)
  BY Cached, KeyFacts DEF CompleteTask
<1>2. Edit(b, c, people, {}, {}) /\ TableOK(c, people)
  <2>1. "done" \in Status \ {"absent"}
    BY DEF Status
  <2> HIDE DEF b
  <2> QED BY <1>1, <2>1, EditStatus
<1>3. c[t].status = "done"
  BY <1>1 DEF TableOK, Row
<1>4. s \in Stories
  <2> HIDE DEF c
  <2> QED BY <1>1, <1>2, <1>3, TableRow DEF RowOK
<1>5. S \in SUBSET Stories /\ \A x \in S : Has(c, x) /\ Approved(c, x)
  BY <1>4 DEF StoryComplete
<1> HIDE DEF c, S
<1> QED BY <1>1, <1>2, <1>5, MergeAllOK

\* ProcessApprovedStories merges what is approved.
LEMMA ProcessApprovedStoriesStep ==
    ASSUME Inv, NEW m \in Managers, NEW outcome, NEW main,
           ProcessApprovedStories(m, outcome, main)
    PROVE  Inv'
<1> DEFINE c == mgr[m].cache
           S == {s \in Stories : /\ StoryComplete(c, s) /\ c[s].status # "done"
                                 /\ Approved(c, s) /\ Mergeable(c, s)}
<1>1. MergeAll(m, c, S, outcome, main)
  BY DEF ProcessApprovedStories
<1>2. S \in SUBSET Stories /\ \A x \in S : Has(c, x) /\ Approved(c, x)
  BY DEF StoryComplete
<1>3. Edit(c, c, people, {}, {})
  BY Cached, EditNone
<1> HIDE DEF S
<1> QED BY <1>1, <1>2, <1>3, MergeAllOK

\* MergeStoryToRelease refuses what is not approved.
LEMMA MergeStoryToReleaseStep ==
    ASSUME Inv, NEW m \in Managers, NEW s \in Stories, MergeStoryToRelease(m, s)
    PROVE  Inv'
<1> DEFINE b == mgr[m].cache
           c == [b EXCEPT ![s].status = "done"]
<1>1. TableOK(b, people) /\ s \in Keys
  BY Cached, KeyFacts
<1>2. mgr[m].at = "idle" /\ Saving(m, c) /\ Has(b, s) /\ Approved(b, s)
  BY DEF MergeStoryToRelease, Idle
<1>3. Edit(b, c, people, {}, {})
  <2>1. "done" \in Status \ {"absent"}
    BY DEF Status
  <2> HIDE DEF b
  <2> QED BY <1>1, <1>2, <2>1, EditStatus
<1>4. ApprovalEnabled => s \in people
  <2>1. RowOK(s, b[s], people)
    BY <1>1, TableRow
  <2> QED BY <1>2, <2>1 DEF RowOK, Approved
<1>5. ManagersOK(mgr', db, gone, people)
  <2>1. mgr[m].at = "idle" /\ Saving(m, c)
    BY <1>2
  <2>2. (gone[m] \ {}) \cup {} \subseteq gone[m]
    OBVIOUS
  <2> HIDE DEF c
  <2> QED BY <1>3, <2>1, <2>2, SavingOK DEF Inv
<1>6. MergeOK(merged', shipped', people')
  BY <1>4 DEF MergeStoryToRelease, Inv, MergeOK
<1>7. Scalars'
  BY LedgerAssumption DEF MergeStoryToRelease, Inv, Scalars, Counted
<1> QED BY <1>5, <1>6, <1>7 DEF MergeStoryToRelease, Inv

----------------------------------------------------------------------------
(* The reviewed plan, loading and saving *)

\* A manager that is not there holds nothing.
LEMMA DownOK ==
    ASSUME NEW d, NEW g, NEW P
    PROVE  /\ Down \in Manager /\ Loyal(Down, P) /\ MgrOK(Down, d, g, P)
           /\ Nothing \in [Keys -> Row]
<1>1. TableOK(Nothing, P)
  BY NothingOK
<1>2. Nothing \in [Keys -> Row]
  BY <1>1 DEF TableOK
<1>3. RowOK(Down.task, Absent, P) /\ Absent \in Row
  BY AbsentOK DEF RowOK
<1>4. (CHOOSE t \in Tasks : TRUE) \in Tasks
  BY LedgerAssumption
<1>5. Down \in Manager
  BY <1>2, <1>3, <1>4 DEF Down, Manager
<1>6. Down.cache = Nothing /\ Down.row = Absent /\ Down.at = "down" /\ ~Down.sole
  BY DEF Down
<1> QED BY <1>1, <1>2, <1>3, <1>5, <1>6 DEF Loyal, MgrOK, Fresh

\* A manager that is about to read all rows has no duty to any of them.
LEMMA ReloadOK ==
    ASSUME NEW x, NEW d, NEW g, NEW P, Loyal(x, P), NEW y, y \in Manager,
           y.at \in {"boot", "load"}, y.at = "load" => y.todo = Keys,
           TableOK(y.cache, P), y.task = x.task, y.row = x.row
    PROVE  MgrOK(y, d, g, P)
BY DEF Loyal, MgrOK, Fresh

\* NewManager, or Load of a manager that is up, starts with an empty cache.
LEMMA LoadStep ==
    ASSUME Inv, NEW m \in Managers, Load(m)
    PROVE  Inv'
<1> DEFINE empty == \A s \in Stories : ~Has(db, s)
           a == IF empty THEN "boot" ELSE "load"
           y == [Down EXCEPT !.at = a, !.todo = Keys, !.sole = TRUE]
<1>1. mgr' = [mgr EXCEPT ![m] = y]
  BY DEF Load
<1>2. a \in {"boot", "load"}
  OBVIOUS
<1> HIDE DEF a
<1>3. Down \in Manager /\ Loyal(Down, people)
  BY DownOK
<1>4. /\ y \in Manager /\ y.at = a /\ y.todo = Keys /\ y.cache = Down.cache
      /\ y.task = Down.task /\ y.row = Down.row
  BY <1>2, <1>3 DEF Manager
<1> HIDE DEF y
<1>5. MgrOK(y, db, gone[m], people)
  BY <1>2, <1>3, <1>4, ReloadOK DEF Loyal
<1>6. ManagersOK(mgr', db, gone, people)
  BY <1>1, <1>5, OneManager DEF Inv
<1> QED BY <1>6, LedgerAssumption DEF Load, Counted, Inv, Scalars

\* ImportReviewedPlan inserts its rows in one transaction.
LEMMA ImportReviewedPlanStep ==
    ASSUME Inv, NEW m \in Managers, ImportReviewedPlan(m)
    PROVE  Inv'
<1> DEFINE plan == PlanStories \cup PlanTasks
           d == InsertAll(db, plan, PlanRows)
           y == [mgr[m] EXCEPT !.at = "load", !.todo = Keys, !.sole = TRUE,
                               !.cache = Nothing]
<1>1. /\ db' = d /\ mgr' = Others(m, d, y) /\ people' = people
      /\ gone' = [gone EXCEPT ![m] = @ \ plan]
  BY DEF ImportReviewedPlan
<1>2. TableOK(d, people)
  <2>1. PlanStories \subseteq Stories /\ PlanTasks \subseteq Tasks
    BY LedgerAssumption DEF PlanStories
  <2>2. ASSUME NEW k \in plan
        PROVE  RowOK(k, PlanRows[k], people)
    <3> DEFINE L == {t \in PlanTasks : Home[t] = k}
    <3>1. L \in SUBSET (Stories \cup Tasks) /\ "pending" \in Status
      BY <2>1 DEF Status
    <3>2. CASE k \in Stories
      <4>1. PlanRows[k] = StoryRow(L)
        BY <3>2 DEF PlanRows
      <4> HIDE DEF L
      <4> QED BY <3>1, <3>2, <4>1, StoryRowOK
    <3>3. CASE k \notin Stories
      <4>1. PlanRows[k] = TaskRow(Home[k]) /\ k \in Tasks /\ Home[k] \in Stories
        BY <2>1, <3>3, LedgerAssumption DEF PlanRows
      <4> QED BY <3>1, <4>1, TaskRowOK
    <3> QED BY <3>2, <3>3
  <2> HIDE DEF plan
  <2> QED BY <2>2, InsertAllOK DEF Inv
<1>3. /\ y \in Manager /\ y.at = "load" /\ y.todo = Keys /\ y.cache = Nothing
      /\ y.task = mgr[m].task /\ y.row = mgr[m].row
  BY Cached, DownOK DEF Manager
<1> HIDE DEF y, d, plan
<1>4. MgrOK(y, d, gone'[m], people)
  <2>1. Loyal(mgr[m], people)
    BY Cached DEF MgrOK
  <2> DEFINE g == gone'[m]
  <2> HIDE DEF g
  <2>2. MgrOK(y, d, g, people)
    BY <1>3, <2>1, NothingOK, ReloadOK
  <2> QED BY <2>2 DEF g
<1>5. ManagersOK(mgr', db', gone', people)
  <2> DEFINE h == gone'
  <2>1. \A x \in Managers \ {m} : h[x] = gone[x]
    BY <1>1 DEF Inv, Scalars
  <2>2. MgrOK(y, d, h[m], people)
    BY <1>4
  <2> HIDE DEF h
  <2>3. ManagersOK(Others(m, d, y), d, h, people)
    BY <2>1, <2>2, OthersOK DEF Inv
  <2> QED BY <1>1, <2>3 DEF h
<1>6. Scalars'
  BY <1>1, LedgerAssumption DEF ImportReviewedPlan, Counted, Inv, Scalars
<1> QED BY <1>1, <1>2, <1>5, <1>6 DEF ImportReviewedPlan, Inv

\* An empty ledger is filled from the JSON files.
LEMMA BootstrapStep ==
    ASSUME Inv, NEW m \in Managers, Bootstrap(m)
    PROVE  Inv'
<1>1. PICK now \in SUBSET Keys :
          LET d == InsertAll(db, now \cap JsonKeys, JsonRows)
              rest == mgr[m].todo \ now
          IN  /\ db' = d
              /\ mgr' = Others(m, d, [mgr[m] EXCEPT
                            !.at = IF rest = {} THEN "load" ELSE "boot",
                            !.todo = IF rest = {} THEN Keys ELSE rest])
  BY KeyFacts DEF Bootstrap
<1> DEFINE rest == mgr[m].todo \ now
           d == InsertAll(db, now \cap JsonKeys, JsonRows)
           a == IF rest = {} THEN "load" ELSE "boot"
           todo == IF rest = {} THEN Keys ELSE rest
           y == [mgr[m] EXCEPT !.at = a, !.todo = todo]
<1>2. db' = d /\ mgr' = Others(m, d, y)
  BY <1>1
<1>3. TableOK(d, people)
  <2>1. JsonKeys \subseteq Keys
    BY LedgerAssumption DEF JsonKeys, JsonStories, Keys
  <2>2. ASSUME NEW k \in Keys
        PROVE  RowOK(k, JsonRows[k], people)
    <3> DEFINE L == {t \in JsonTasks : Home[t] = k}
    <3>1. /\ L \in SUBSET (Stories \cup Tasks) /\ JsonStories \in SUBSET (Stories \cup Tasks)
          /\ "pending" \in Status /\ "draft" \in Status
      BY LedgerAssumption DEF JsonStories, Status
    <3>2. CASE k = Release
      <4> DEFINE r == [Absent EXCEPT !.status = "draft", !.list = JsonStories]
      <4>1. JsonRows = [j \in Keys |-> CASE j = Release -> r
                           [] j \in Stories -> StoryRow({t \in JsonTasks : Home[t] = j})
                           [] OTHER -> TaskRow(Home[j])]
        BY DEF JsonRows
      <4>2. RowOK(k, r, people)
        BY <3>1, <3>2, LedgerAssumption DEF RowOK, Absent, Row, Status
      <4> HIDE DEF r
      <4>3. JsonRows[k] = r
        BY <3>2, <4>1, LedgerAssumption
      <4> QED BY <4>2, <4>3
    <3>3. CASE k \in Stories
      <4>1. JsonRows[k] = StoryRow(L)
        BY <3>3, LedgerAssumption DEF JsonRows
      <4> HIDE DEF L
      <4> QED BY <3>1, <3>3, <4>1, StoryRowOK
    <3>4. CASE k \in Tasks
      <4>1. JsonRows[k] = TaskRow(Home[k]) /\ Home[k] \in Stories
        BY <3>4, LedgerAssumption DEF JsonRows
      <4> QED BY <3>1, <3>4, <4>1, TaskRowOK
    <3> QED BY <3>2, <3>3, <3>4 DEF Keys
  <2> QED BY <2>1, <2>2, InsertAllOK DEF Inv
<1>4. a \in {"boot", "load"} /\ (a = "load" => todo = Keys) /\ todo \in SUBSET Keys
  BY Cached DEF Manager
<1> HIDE DEF a, todo, d
<1>5. /\ y \in Manager /\ y.at = a /\ y.todo = todo /\ y.cache = mgr[m].cache
      /\ y.task = mgr[m].task /\ y.row = mgr[m].row
  BY Cached, <1>4 DEF Manager
<1> HIDE DEF y
<1>6. MgrOK(y, d, gone[m], people)
  BY <1>4, <1>5, Cached, ReloadOK DEF MgrOK
<1>7. ManagersOK(mgr', db', gone, people)
  BY <1>2, <1>6, OthersOK DEF Inv
<1> QED BY <1>2, <1>3, <1>7 DEF Bootstrap, Inv, Scalars

\* A query of the load puts the rows it reads into the cache.
LEMMA RefreshStep ==
    ASSUME Inv, NEW m \in Managers, Refresh(m)
    PROVE  Inv'
<1>1. PICK now \in SUBSET Keys :
          LET rest == mgr[m].todo \ now
          IN  mgr' = [mgr EXCEPT
                 ![m].cache = Query(db, mgr[m].cache, now),
                 ![m].at = IF rest = {} THEN "idle" ELSE "load",
                 ![m].todo = rest]
  BY KeyFacts DEF Refresh
<1> DEFINE x == mgr[m]
           rest == x.todo \ now
           c == Query(db, x.cache, now)
           a == IF rest = {} THEN "idle" ELSE "load"
           y == [x EXCEPT !.cache = c, !.at = a, !.todo = rest]
<1>2. /\ x \in Manager /\ MgrOK(x, db, gone[m], people) /\ TableOK(x.cache, people)
      /\ TableOK(db, people) /\ ManagersOK(mgr, db, gone, people) /\ x.at = "load"
  BY Cached DEF Inv, Refresh
<1>3. mgr' = [mgr EXCEPT ![m] = y]
  BY <1>1, <1>2 DEF ManagersOK
<1>4. TableOK(c, people) /\ \A k \in Keys : c[k] = IF k \in now THEN db[k] ELSE x.cache[k]
  <2>1. \A k \in Keys : c[k] = IF k \in now THEN db[k] ELSE x.cache[k]
    BY DEF Query
  <2>2. c = [k \in Keys |-> c[k]]
    BY DEF Query
  <2> HIDE DEF c
  <2>3. \A k \in Keys : RowOK(k, c[k], people)
    BY <1>2, <2>1, TableRow
  <2>4. TableOK(c, people)
    BY <2>2, <2>3, TableByRow
  <2> QED BY <2>1, <2>4
<1> HIDE DEF c
<1>5. /\ y \in Manager /\ y.at = a /\ y.todo = rest /\ y.cache = c
      /\ y.task = x.task /\ y.row = x.row /\ y.sole = x.sole
  BY <1>2, <1>4 DEF Manager, TableOK
<1> HIDE DEF y
<1>6. Loyal(y, people)
  BY <1>2, <1>4, <1>5 DEF Loyal, MgrOK
<1>7. x.sole => \A k \in Keys \ rest : c[k] = db[k]
  BY <1>2, <1>4 DEF MgrOK, Fresh
<1>8. Fresh(y, db, gone[m])
  BY <1>5, <1>7 DEF Fresh
<1>9. ManagersOK(mgr', db, gone, people)
  BY <1>2, <1>3, <1>6, <1>8, OneManager DEF MgrOK
<1> QED BY <1>9 DEF Refresh, Inv, Scalars

\* A statement of m's save has written the row k: m and the ledger agree on it.
LEMMA WroteOK ==
    ASSUME NEW m \in Managers, NEW n, NEW P, NEW k \in Keys,
           MgrOK(mgr[m], db, gone[m], P), mgr[m].at = "save",
           mgr[m].sole => n[k] = mgr[m].cache[k],
           \A j \in Keys \ {k} : n[j] = db[j]
    PROVE  MgrOK(Wrote(m, k, "idle"), n, gone[m], P)
<1> DEFINE x == mgr[m]
           g == gone[m]
           y == Wrote(m, k, "idle")
           a == IF x.todo = {k} THEN "idle" ELSE "save"
<1>1. x \in Manager /\ Loyal(x, P) /\ Fresh(x, db, g)
  BY DEF MgrOK, Loyal
<1>2. /\ y \in Manager /\ y.at = a /\ y.todo = x.todo \ {k} /\ y.creating = {}
      /\ y.cache = x.cache /\ y.task = x.task /\ y.row = x.row /\ y.sole = x.sole
  BY <1>1 DEF Manager, Wrote
<1> HIDE DEF y
<1>3. Loyal(y, P)
  BY <1>1, <1>2 DEF Loyal
<1>4. ASSUME x.sole, NEW j \in Keys, x.cache[j] # n[j]
      PROVE  (y.at = "save" /\ j \in y.todo) \/ j \in g
  <2>1. j # k /\ n[j] = db[j]
    BY <1>4
  <2>2. j \in x.todo \/ j \in g
    BY <1>1, <1>4, <2>1 DEF Fresh
  <2> QED BY <1>2, <2>1, <2>2
<1>5. Fresh(y, n, g)
  BY <1>2, <1>4 DEF Fresh
<1> QED BY <1>3, <1>5 DEF MgrOK, y

\* A save updates a row ...
LEMMA SaveUpdateStep ==
    ASSUME Inv, NEW m \in Managers, NEW k \in Keys, SaveUpdate(m, k)
    PROVE  Inv'
<1> DEFINE r == mgr[m].cache[k]
           d == Overwrite(db, k, r)
           y == Wrote(m, k, "idle")
<1>1. db' = d /\ mgr' = Others(m, d, y) /\ mgr[m].at = "save"
  BY DEF SaveUpdate, Turn
<1>2. RowOK(k, r, people)
  BY Cached, TableRow
<1> HIDE DEF r
<1>3. TableOK(d, people) /\ d[k] = r /\ \A j \in Keys \ {k} : d[j] = db[j]
  BY <1>2, PutOK DEF Inv, Overwrite
<1> HIDE DEF d
<1>4. MgrOK(y, d, gone[m], people)
  <2>1. d[k] = mgr[m].cache[k]
    BY <1>3 DEF r
  <2>2. mgr[m].at = "save" /\ MgrOK(mgr[m], db, gone[m], people)
    BY <1>1, Cached
  <2> QED BY <1>3, <2>1, <2>2, WroteOK
<1> HIDE DEF y
<1>5. ManagersOK(mgr', db', gone, people)
  BY <1>1, <1>4, OthersOK DEF Inv
<1> QED BY <1>1, <1>3, <1>5 DEF SaveUpdate, Inv, Scalars

\* ... or finds that it is not there ...
LEMMA SaveMissingStep ==
    ASSUME Inv, NEW m \in Managers, NEW k \in Keys, SaveMissing(m, k)
    PROVE  Inv'
<1> DEFINE x == mgr[m]
           y == [x EXCEPT !.creating = {k}]
<1>1. /\ x \in Manager /\ MgrOK(x, db, gone[m], people)
      /\ ManagersOK(mgr, db, gone, people)
  BY Cached DEF Inv
<1>2. mgr' = [mgr EXCEPT ![m] = y] /\ x.at = "save" /\ ~Has(db, k)
  BY DEF SaveMissing, Turn
<1>3. /\ y \in Manager /\ y.at = x.at /\ y.todo = x.todo /\ y.creating = {k}
      /\ y.cache = x.cache /\ y.task = x.task /\ y.row = x.row /\ y.sole = x.sole
  BY <1>1 DEF Manager
<1> HIDE DEF y
<1>4. Loyal(y, people)
  BY <1>1, <1>3 DEF Loyal, MgrOK
<1>5. Fresh(y, db, gone[m])
  BY <1>1, <1>2, <1>3 DEF Fresh, MgrOK
<1>6. ManagersOK(mgr', db, gone, people)
  BY <1>1, <1>2, <1>4, <1>5, OneManager DEF MgrOK
<1> QED BY <1>6 DEF SaveMissing, Inv, Scalars

\* A save that gives up.
LEMMA GivesUpOK ==
    ASSUME NEW m \in Managers, NEW P, ManagersOK(mgr, db, gone, P), NEW f,
           f = [mgr EXCEPT ![m].at = "idle", ![m].todo = {}, ![m].creating = {},
                           ![m].sole = FALSE]
    PROVE  ManagersOK(f, db, gone, P)
<1> DEFINE x == mgr[m]
           y == [x EXCEPT !.at = "idle", !.todo = {}, !.creating = {}, !.sole = FALSE]
<1>1. x \in Manager /\ Loyal(x, P)
  BY DEF ManagersOK, MgrOK
<1>2. f = [mgr EXCEPT ![m] = y]
  BY DEF ManagersOK
<1>3. /\ y \in Manager /\ y.at = "idle" /\ y.cache = x.cache
      /\ y.task = x.task /\ y.row = x.row /\ ~y.sole
  BY <1>1 DEF Manager
<1> HIDE DEF y
<1>4. MgrOK(y, db, gone[m], P)
  BY <1>1, <1>3 DEF Loyal, MgrOK, Fresh
<1> QED BY <1>2, <1>4, OneManager

\* ... and then creates it ...
LEMMA SaveCreateStep ==
    ASSUME Inv, NEW m \in Managers, NEW k \in Keys, SaveCreate(m, k)
    PROVE  Inv'
<1> DEFINE x == mgr[m]
           y == Wrote(m, k, "idle")
<1>1. /\ x \in Manager /\ MgrOK(x, db, gone[m], people) /\ x.at = "save"
      /\ k \in x.creating /\ ManagersOK(mgr, db, gone, people) /\ TableOK(db, people)
  BY Cached DEF Inv, SaveCreate, Turn
<1>2. CASE Has(db, k) /\ k = Release
  <2>1. /\ mgr' = [mgr EXCEPT ![m].at = "idle", ![m].todo = {}, ![m].creating = {},
                              ![m].sole = FALSE]
        /\ db' = db
    BY <1>2 DEF SaveCreate
  <2>2. ManagersOK(mgr', db, gone, people)
    BY <1>1, <2>1, GivesUpOK
  <2> QED BY <2>1, <2>2 DEF SaveCreate, Inv, Scalars
<1>3. CASE Has(db, k) /\ k # Release
  <2>1. mgr' = [mgr EXCEPT ![m] = y] /\ db' = db
    BY <1>3 DEF SaveCreate
  <2>2. ~x.sole
    BY <1>1, <1>3 DEF MgrOK, Fresh
  <2>3. MgrOK(y, db, gone[m], people)
    BY <1>1, <2>2, WroteOK
  <2> HIDE DEF y
  <2>4. ManagersOK(mgr', db, gone, people)
    BY <1>1, <2>1, <2>3, OneManager
  <2> QED BY <2>1, <2>4 DEF SaveCreate, Inv, Scalars
<1>4. CASE ~Has(db, k)
  <2> DEFINE r == mgr[m].cache[k]
             d == Insert(db, k, r)
  <2>1. db' = d /\ mgr' = Others(m, d, y)
    BY <1>4 DEF SaveCreate
  <2>2. RowOK(k, r, people)
    BY Cached, TableRow
  <2> HIDE DEF r
  <2>3. TableOK(d, people) /\ d[k] = r /\ \A j \in Keys \ {k} : d[j] = db[j]
    BY <1>1, <1>4, <2>2, PutOK DEF Insert
  <2> HIDE DEF d
  <2>4. MgrOK(y, d, gone[m], people)
    <3>1. d[k] = mgr[m].cache[k]
      BY <2>3 DEF r
    <3> QED BY <1>1, <2>3, <3>1, WroteOK
  <2> HIDE DEF y
  <2>5. ManagersOK(mgr', db', gone, people)
    BY <2>1, <2>4, OthersOK DEF Inv
  <2> QED BY <2>1, <2>3, <2>5 DEF SaveCreate, Inv, Scalars
<1> QED BY <1>2, <1>3, <1>4

\* ... or fails, and the cache is no longer known to agree.
LEMMA SaveFailsStep ==
    ASSUME Inv, NEW m \in Managers, SaveFails(m)
    PROVE  Inv'
<1>1. ManagersOK(mgr', db, gone, people)
  BY GivesUpOK DEF SaveFails, Inv
<1>2. Scalars'
  BY LedgerAssumption DEF SaveFails, Inv, Scalars
<1> QED BY <1>1, <1>2 DEF SaveFails, Inv

\* A crash takes the manager's cache.
LEMMA CrashStep ==
    ASSUME Inv, NEW m \in Managers, Crash(m)
    PROVE  Inv'
<1>1. ManagersOK(mgr', db, gone, people)
  BY DownOK, OneManager DEF Crash, Inv
<1>2. Scalars'
  BY LedgerAssumption DEF Crash, Inv, Scalars
<1> QED BY <1>1, <1>2 DEF Crash, Inv

----------------------------------------------------------------------------
(* The theorems *)

\* Nothing is filed, approved or merged.
LEMMA InvInit == Init => Inv
<1> SUFFICES ASSUME Init PROVE Inv
  OBVIOUS
<1>1. TableOK(db, people)
  BY NothingOK DEF Init
<1>2. ManagersOK(mgr, db, gone, people)
  BY DownOK DEF Init, ManagersOK
<1>3. Scalars
  <2>1. 0 \in 0..MaxOps /\ 0 \in 0..MaxFaults
    BY LedgerAssumption
  <2> QED BY <2>1 DEF Init, Scalars
<1> QED BY <1>1, <1>2, <1>3 DEF Init, Inv, MergeOK

\* Every step keeps the invariant.
LEMMA InvNext == Inv /\ [Next]_vars => Inv'
<1> SUFFICES ASSUME Inv, [Next]_vars PROVE Inv'
  OBVIOUS
<1>1. CASE UNCHANGED vars
  BY <1>1 DEF vars, Inv, Scalars
<1>2. ASSUME NEW m \in Managers, Statement(m)
      PROVE  Inv'
  BY <1>2, BootstrapStep, RefreshStep, SaveUpdateStep, SaveMissingStep, SaveCreateStep,
     SaveFailsStep, CrashStep DEF Statement
<1>3. ASSUME NEW m \in Managers, Operation(m)
      PROVE  Inv'
  BY <1>3, LoadStep, CreateReleaseStep, ApproveStep, SaveStep, ResetStatusesStep,
     ImportReviewedPlanStep, SetTaskStatusWriteStep, ProcessApprovedStoriesStep, KeyFacts
     DEF Operation
<1>4. ASSUME NEW m \in Managers, NEW t \in Tasks, TaskOperation(m, t)
      PROVE  Inv'
  BY <1>4, SetTaskStatusStep, CreateTaskStep, DeleteTaskStep, ApproveStep, RejectTaskStep,
     ReassignTaskStep, CompleteTaskStep, KeyFacts DEF TaskOperation
<1>5. ASSUME NEW m \in Managers, NEW s \in Stories, StoryOperation(m, s)
      PROVE  Inv'
  BY <1>5, CreateStoryStep, DeleteStoryStep, ClaimStoryStep, CompleteStoryStep, ApproveStep,
     MergeStoryToReleaseStep, KeyFacts DEF StoryOperation
<1> QED BY <1>1, <1>2, <1>3, <1>4, <1>5 DEF Next

\* The invariant holds of every run.
LEMMA InvHolds == Spec => []Inv
BY InvInit, InvNext, PTL DEF Spec

\* Every row, cache and history variable of every manager keeps its type, for
\* any number of managers and any bounds.
THEOREM TypeCorrect == Spec => []TypeOK
<1>1. Inv => TypeOK
  BY DEF Inv, TypeOK, Scalars, ManagersOK, TableOK
<1> QED BY <1>1, InvHolds, PTL

\* With approvals enabled git merges only what a person approved, however many
\* managers race and whatever saves are torn: an approval in any row, stored,
\* cached or just read, was given by somebody (RowOK), and every merge asks such
\* a row.
THEOREM NothingUnapprovedIsMerged == Spec => []MergesAreApproved
<1>1. Inv => MergesAreApproved
  BY DEF Inv, MergeOK, MergesAreApproved
<1> QED BY <1>1, InvHolds, PTL

\* A manager nobody has written behind since it loaded differs from the ledger
\* in nothing but what it is about to write, or has deleted: its whole-cache
\* save undoes no one's work.
THEOREM SoleManagersAreCoherent == Spec => []Coherent
<1>1. Inv => Coherent
  BY DEF Inv, ManagersOK, MgrOK, Fresh, Coherent
<1> QED BY <1>1, InvHolds, PTL
=============================================================================
