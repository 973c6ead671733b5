------------------------ MODULE SessionRecords_proofs ------------------------
(* Theorems about SessionRecords, for any sessions, any requests of any kind *)
(* and in any company.                                                       *)
EXTENDS SessionRecords, TLAPS

-----------------------------------------------------------------------------
(* The plans: which statement is which step of which kind of request.        *)

LEMMA PlanIs ==
    /\ Plan["realign"] = <<"readSession", "detachReviews", "deleteFindings", "deleteAlignments",
                           "insertAlignments", "commit">>
    /\ Plan["analyse"] = <<"predict", "readExisting", "readAlignments", "insertFindings",
                           "commit">>
    /\ Plan["review"] = <<"readFinding", "insertReview", "promote", "commit">>
    /\ Plan["send"] = <<"readStatus", "markSent", "commit">>
    /\ Plan["erase"] = <<"eraseAudio", "readRecords", "deleteReviews", "deleteFindings",
                         "deleteAlignments", "deleteSessions", "commit">>
BY DEF Plan, PlanOf

Last == [realign |-> 6, analyse |-> 5, review |-> 4, send |-> 3, erase |-> 7]
Steps(r) == 1 .. Last[Kind[r]]

LEMMA KindIsOne == \A r \in Request : Kind[r] \in Kinds
BY KindAssumption

\* Where a request is when it runs a statement.
LEMMA Statements ==
    ASSUME NEW r \in Request, req[r].step \in Steps(r)
    PROVE  /\ At(r, "readSession") => Kind[r] = "realign" /\ req[r].step = 1
           /\ At(r, "detachReviews") => Kind[r] = "realign" /\ req[r].step = 2
           /\ At(r, "deleteFindings") =>
                \/ Kind[r] = "realign" /\ req[r].step = 3
                \/ Kind[r] = "erase" /\ req[r].step = 4
           /\ At(r, "deleteAlignments") =>
                \/ Kind[r] = "realign" /\ req[r].step = 4
                \/ Kind[r] = "erase" /\ req[r].step = 5
           /\ At(r, "insertAlignments") => Kind[r] = "realign" /\ req[r].step = 5
           /\ At(r, "predict") => Kind[r] = "analyse" /\ req[r].step = 1
           /\ At(r, "readExisting") => Kind[r] = "analyse" /\ req[r].step = 2
           /\ At(r, "readAlignments") => Kind[r] = "analyse" /\ req[r].step = 3
           /\ At(r, "insertFindings") => Kind[r] = "analyse" /\ req[r].step = 4
           /\ At(r, "readFinding") => Kind[r] = "review" /\ req[r].step = 1
           /\ At(r, "insertReview") => Kind[r] = "review" /\ req[r].step = 2
           /\ At(r, "promote") => Kind[r] = "review" /\ req[r].step = 3
           /\ At(r, "readStatus") => Kind[r] = "send" /\ req[r].step = 1
           /\ At(r, "markSent") => Kind[r] = "send" /\ req[r].step = 2
           /\ At(r, "eraseAudio") => Kind[r] = "erase" /\ req[r].step = 1
           /\ At(r, "readRecords") => Kind[r] = "erase" /\ req[r].step = 2
           /\ At(r, "deleteReviews") => Kind[r] = "erase" /\ req[r].step = 3
           /\ At(r, "deleteSessions") => Kind[r] = "erase" /\ req[r].step = 6
           /\ At(r, "commit") => req[r].step = Last[Kind[r]]
<1>1. CASE Kind[r] = "realign"
  <2>1. req[r].step \in {1, 2, 3, 4, 5, 6}
    BY <1>1 DEF Steps, Last
  <2> QED
    BY <1>1, <2>1, PlanIs DEF At, Last
<1>2. CASE Kind[r] = "analyse"
  <2>1. req[r].step \in {1, 2, 3, 4, 5}
    BY <1>2 DEF Steps, Last
  <2> QED
    BY <1>2, <2>1, PlanIs DEF At, Last
<1>3. CASE Kind[r] = "review"
  <2>1. req[r].step \in {1, 2, 3, 4}
    BY <1>3 DEF Steps, Last
  <2> QED
    BY <1>3, <2>1, PlanIs DEF At, Last
<1>4. CASE Kind[r] = "send"
  <2>1. req[r].step \in {1, 2, 3}
    BY <1>4 DEF Steps, Last
  <2> QED
    BY <1>4, <2>1, PlanIs DEF At, Last
<1>5. CASE Kind[r] = "erase"
  <2>1. req[r].step \in {1, 2, 3, 4, 5, 6, 7}
    BY <1>5 DEF Steps, Last
  <2> QED
    BY <1>5, <2>1, PlanIs DEF At, Last
<1> QED
  BY <1>1, <1>2, <1>3, <1>4, <1>5, KindIsOne DEF Kinds

-----------------------------------------------------------------------------
(* Types.                                                                  *)

Changes == Statuses \cup {"delete", "detach"}
RowRecord == [ref : Row \cup {None}, status : Statuses, sourced : BOOLEAN,
              lock : Request \cup {None}, change : Changes]
ReqRecord == [step : 1..7, end : {"none", "committed", "over"}, sess : Session \cup {None},
              ref : Request \cup {None}, decision : DOMAIN Promoted \cup {"none"},
              waits : BOOLEAN, seen : SUBSET Row, before : SUBSET Request, receipt : SUBSET Row]

RowType == row \in [Row -> RowRecord]
ReqType == req \in [Request -> ReqRecord] /\ \A r \in Request : req[r].step \in Steps(r)
TypeInv == RowType /\ ReqType

LEMMA TypeImplies == TypeInv => TypeOK
BY DEF TypeInv, RowType, ReqType, TypeOK, RowRecord, ReqRecord, Changes

LEMMA NamesDiffer == None \notin Row /\ \A s \in Session, r \in Request : s # r
BY NameAssumption DEF Row

LEMMA NoRowType == NoRow \in RowRecord /\ GoneRow \in RowRecord
BY DEF NoRow, GoneRow, RowRecord, Statuses, Changes

LEMMA NoRequestType ==
    /\ NoRequest \in ReqRecord /\ NoRequest.step = 1 /\ NoRequest.end = "none"
    /\ [NoRequest EXCEPT !.end = "over"] \in ReqRecord
    /\ [NoRequest EXCEPT !.end = "over"].step = 1
    /\ [NoRequest EXCEPT !.end = "over"].end = "over"
    /\ [NoRequest EXCEPT !.end = "over"].receipt = {}
    /\ [NoRequest EXCEPT !.end = "over"].before = {}
<1> DEFINE Decisions == DOMAIN Promoted \cup {"none"}
<1>1. "none" \in Decisions
  OBVIOUS
<1> HIDE DEF Decisions
<1>2. ReqRecord = [step : 1..7, end : {"none", "committed", "over"}, sess : Session \cup {None},
                   ref : Request \cup {None}, decision : Decisions, waits : BOOLEAN,
                   seen : SUBSET Row, before : SUBSET Request, receipt : SUBSET Row]
  BY DEF ReqRecord, Decisions
<1>3. NoRequest \in ReqRecord
  BY <1>1, <1>2 DEF NoRequest
<1>4. [NoRequest EXCEPT !.end = "over"] \in ReqRecord
  BY <1>2, <1>3
<1> QED
  BY <1>3, <1>4 DEF NoRequest

LEMMA FirstStep == \A r \in Request : 1 \in Steps(r)
BY KindIsOne DEF Steps, Last, Kinds

\* The next statement of a request that is not at its last.
LEMMA StepType ==
    ASSUME ReqType, NEW r \in Request, req[r].step # Last[Kind[r]]
    PROVE  /\ Step(r) \in ReqRecord /\ Step(r).step \in Steps(r)
           /\ Step(r).step = req[r].step + 1 /\ Step(r).end = req[r].end
           /\ Step(r).sess = req[r].sess /\ Step(r).ref = req[r].ref
           /\ Step(r).decision = req[r].decision /\ Step(r).before = req[r].before
           /\ Step(r).receipt = req[r].receipt /\ Step(r).waits = FALSE
<1>1. req[r] \in ReqRecord /\ req[r].step \in Steps(r) /\ Kind[r] \in Kinds
  BY KindIsOne DEF ReqType
<1>2. req[r].step + 1 \in Steps(r) /\ req[r].step + 1 \in 1 .. 7
  BY <1>1 DEF Steps, Last, Kinds
<1> QED
  BY <1>1, <1>2 DEF Step, ReqRecord

LEMMA OneRequest ==
    ASSUME ReqType, NEW r \in Request, NEW record \in ReqRecord, record.step \in Steps(r),
           req' = [req EXCEPT ![r] = record]
    PROVE  ReqType' /\ req'[r] = record /\ \A q \in Request \ {r} : req'[q] = req[q]
BY DEF ReqType, Steps

-----------------------------------------------------------------------------
(* What a step may do to the rows.                                         *)

Undoes(r) == row' = [x \in Row |-> Undone(x, r)]
Settles(r) == row' = [x \in Row |-> Settled(x, r)]
Marks(r, mine, change) ==
    row' = [x \in Row |-> IF x \in mine THEN [row[x] EXCEPT !.lock = r, !.change = change]
                          ELSE row[x]]
Inserts(r, parent, sourced) ==
    row' = [row EXCEPT ![r] = [NoRow EXCEPT !.ref = parent, !.sourced = sourced]]
Creates(s) == row' = [row EXCEPT ![s] = [NoRow EXCEPT !.ref = s, !.status = "draft"]]

\* What each of them makes of a row.
LEMMA OfUndoes ==
    ASSUME RowType, NEW r \in Request, Undoes(r)
    PROVE  /\ RowType'
           /\ row'[r] = NoRow
           /\ \A x \in Row \ {r} :
                /\ row'[x].ref = row[x].ref /\ row'[x].status = row[x].status
                /\ row'[x].sourced = row[x].sourced
                /\ row[x].lock = r => row'[x].lock = None /\ row'[x].change = "none"
                /\ row[x].lock # r => row'[x] = row[x]
<1>0. "none" \in Changes
  BY DEF Changes, Statuses
<1>1. \A x \in Row : row[x] \in RowRecord /\ [row[x] EXCEPT !.lock = None, !.change = "none"] \in RowRecord
  BY <1>0 DEF RowType, RowRecord
<1>2. \A x \in Row : Undone(x, r) \in RowRecord
  BY <1>1, NoRowType DEF Undone
<1>3. r \in Row
  BY DEF Row
<1>4. Undone(r, r) = NoRow
  BY DEF Undone
<1>5. \A x \in Row \ {r} : row[x].lock # r => Undone(x, r) = row[x]
  BY DEF Undone
<1>6. \A x \in Row \ {r} : row[x].lock = r =>
        Undone(x, r) = [row[x] EXCEPT !.lock = None, !.change = "none"]
  BY DEF Undone
<1>7. row' \in [Row -> RowRecord]
  BY <1>2 DEF Undoes
<1> QED
  BY <1>1, <1>3, <1>4, <1>5, <1>6, <1>7 DEF Undoes, RowType, RowRecord

LEMMA OfSettles ==
    ASSUME RowType, NEW r \in Request, Settles(r)
    PROVE  /\ RowType'
           /\ \A x \in Row :
                /\ row[x].lock # r => row'[x] = row[x]
                /\ row[x].lock = r /\ row[x].change = "delete" => row'[x] = GoneRow
                /\ row[x].lock = r /\ row[x].change = "detach" =>
                     row'[x] = [NoRow EXCEPT !.ref = x, !.status = "superseded"]
                /\ row[x].lock = r /\ row[x].change \notin {"delete", "detach"} =>
                     /\ row'[x].ref = row[x].ref /\ row'[x].sourced = row[x].sourced
                     /\ row'[x].status = row[x].change
                     /\ row'[x].lock = None /\ row'[x].change = "none"
<1>1. \A x \in Row : row[x] \in RowRecord
  BY DEF RowType
<1>2. \A x \in Row :
        /\ row[x].lock # r => Settled(x, r) = row[x]
        /\ row[x].lock = r /\ row[x].change = "delete" => Settled(x, r) = GoneRow
        /\ row[x].lock = r /\ row[x].change = "detach" =>
             Settled(x, r) = [NoRow EXCEPT !.ref = x, !.status = "superseded"]
  BY DEF Settled
<1>3. \A x \in Row : row[x].lock = r /\ row[x].change \notin {"delete", "detach"} =>
        Settled(x, r) = [row[x] EXCEPT !.status = row[x].change, !.lock = None, !.change = "none"]
  BY DEF Settled
<1>4. \A x \in Row : row[x].change \notin {"delete", "detach"} =>
        [row[x] EXCEPT !.status = row[x].change, !.lock = None, !.change = "none"] \in RowRecord
  <2>1. "none" \in Changes
    BY DEF Changes, Statuses
  <2>2. \A change \in Changes : change \notin {"delete", "detach"} => change \in Statuses
    BY DEF Changes
  <2> QED
    BY <1>1, <2>1, <2>2 DEF RowRecord
<1>5. \A x \in Row : [NoRow EXCEPT !.ref = x, !.status = "superseded"] \in RowRecord
  BY DEF NoRow, RowRecord, Changes, Statuses
<1>6. \A x \in Row : Settled(x, r) \in RowRecord
  BY <1>1, <1>2, <1>3, <1>4, <1>5, NoRowType
<1>7. row' \in [Row -> RowRecord] /\ \A x \in Row : row'[x] = Settled(x, r)
  BY <1>6 DEF Settles
<1>8. \A x \in Row : row[x].lock = r /\ row[x].change \notin {"delete", "detach"} =>
        /\ row'[x].ref = row[x].ref /\ row'[x].sourced = row[x].sourced
        /\ row'[x].status = row[x].change
        /\ row'[x].lock = None /\ row'[x].change = "none"
  <2> SUFFICES ASSUME NEW x \in Row, row[x].lock = r, row[x].change \notin {"delete", "detach"}
               PROVE  /\ row'[x].ref = row[x].ref /\ row'[x].sourced = row[x].sourced
                      /\ row'[x].status = row[x].change
                      /\ row'[x].lock = None /\ row'[x].change = "none"
    OBVIOUS
  <2>1. row'[x] = [row[x] EXCEPT !.status = row[x].change, !.lock = None, !.change = "none"]
    BY <1>3, <1>7
  <2>2. row[x] \in [ref : Row \cup {None}, status : Statuses, sourced : BOOLEAN,
                    lock : Request \cup {None}, change : Changes]
    BY <1>1 DEF RowRecord
  <2> QED
    BY <2>1, <2>2
<1>9. RowType'
  BY <1>7 DEF RowType
<1>10. \A x \in Row :
         /\ row[x].lock # r => row'[x] = row[x]
         /\ row[x].lock = r /\ row[x].change = "delete" => row'[x] = GoneRow
         /\ row[x].lock = r /\ row[x].change = "detach" =>
              row'[x] = [NoRow EXCEPT !.ref = x, !.status = "superseded"]
  BY <1>2, <1>7
<1> QED
  BY <1>8, <1>9, <1>10

LEMMA OfMarks ==
    ASSUME RowType, NEW r \in Request, NEW mine, NEW change \in Changes, Marks(r, mine, change)
    PROVE  /\ RowType'
           /\ \A x \in Row : row'[x].ref = row[x].ref /\ row'[x].status = row[x].status
                           /\ row'[x].sourced = row[x].sourced
           /\ \A x \in Row : x \notin mine => row'[x] = row[x]
           /\ \A x \in Row : x \in mine => row'[x].lock = r /\ row'[x].change = change
<1>1. \A x \in Row : row[x] \in RowRecord /\ [row[x] EXCEPT !.lock = r, !.change = change] \in RowRecord
  BY DEF RowType, RowRecord
<1>2. row' \in [Row -> RowRecord]
  BY <1>1 DEF Marks
<1> QED
  BY <1>1, <1>2 DEF Marks, RowType, RowRecord

LEMMA OfInserts ==
    ASSUME RowType, NEW r \in Request, NEW parent \in Row, NEW sourced \in BOOLEAN,
           Inserts(r, parent, sourced)
    PROVE  /\ RowType'
           /\ row'[r].ref = parent /\ row'[r].lock = None /\ row'[r].change = "none"
           /\ row'[r].status = "none" /\ row'[r].sourced = sourced
           /\ \A x \in Row \ {r} : row'[x] = row[x]
<1>1. [NoRow EXCEPT !.ref = parent, !.sourced = sourced] \in RowRecord
  BY DEF NoRow, RowRecord, Statuses, Changes
<1>2. r \in Row
  BY DEF Row
<1> QED
  BY <1>1, <1>2 DEF Inserts, RowType, NoRow

LEMMA OfCreates ==
    ASSUME RowType, NEW s \in Session, Creates(s)
    PROVE  /\ RowType'
           /\ row'[s].ref = s /\ row'[s].lock = None /\ row'[s].change = "none"
           /\ row'[s].status = "draft"
           /\ \A x \in Row \ {s} : row'[x] = row[x]
<1>1. s \in Row
  BY DEF Row
<1>2. [NoRow EXCEPT !.ref = s, !.status = "draft"] \in RowRecord
  BY <1>1 DEF NoRow, RowRecord, Statuses, Changes
<1> QED
  BY <1>1, <1>2 DEF Creates, RowType, NoRow

-----------------------------------------------------------------------------
(* The tables.  A row refers to a committed row of the kind above its own; it *)
(* is locked by a running request, whose kind says what it can be doing; and  *)
(* its parent is there, unless both leave together.                           *)

InsertStep == [realign |-> 5, analyse |-> 4, review |-> 2, send |-> 7, erase |-> 7]

Refers(x) ==
    /\ x \in Session => row[x].ref = x
    /\ x \in Request =>
         /\ Committed(x) \/ (Running(x) /\ req[x].step > InsertStep[Kind[x]])
         /\ \/ Kind[x] = "realign" /\ row[x].ref \in Session
            \/ Kind[x] = "analyse" /\ row[x].ref \in Of("realign") /\ Committed(row[x].ref)
            \/ Kind[x] = "review" /\ \/ row[x].ref = x
                                     \/ row[x].ref \in Of("analyse") /\ Committed(row[x].ref)
Holds(x, r) ==
    /\ Present(x) /\ Running(r)
    /\ Kind[r] # "analyse"
    /\ Kind[r] = "send" => req[r].step = 3
    /\ Kind[r] \in {"realign", "erase"} => row[x].change \in {"delete", "detach"}
    /\ row[x].change = "delete" =>
         \/ Kind[r] = "erase"
         \/ Kind[r] = "realign" /\ x \in Of("realign") \cup Of("analyse")
LockOf(x) ==
    /\ row[x].lock = None => row[x].change = "none"
    /\ row[x].lock # None => Holds(x, row[x].lock)
    /\ row[x].change = "detach" => x \in Of("review")
    /\ row[x].change # "superseded"
    /\ row[x].status = "superseded" => x \in Of("review")
Together(c) ==
    Present(c) /\ row[c].ref # c =>
      /\ Present(row[c].ref)
      /\ Deleting(row[c].ref) => /\ row[c].lock = row[row[c].ref].lock
                                 /\ row[c].change \in {"delete", "detach"}

Refs == \A x \in Row : Present(x) => Refers(x)
Locks == \A x \in Row : LockOf(x)
Family == \A c \in Request : Together(c)
Tables == Refs /\ Locks /\ Family

\* A parent is a row.
LEMMA ParentIsRow ==
    ASSUME Refs, NEW c \in Request, Present(c)
    PROVE  row[c].ref \in Row
BY DEF Refs, Refers, Row, Of

\* Requests other than r stay what they are, and r goes on or ends.
GoesOn(r) ==
    /\ \A q \in Request \ {r} : req'[q] = req[q]
    /\ Running(r) /\ req'[r].end = "none" /\ req'[r].step >= req[r].step
    /\ Kind[r] = "send" /\ req[r].step = 3 => req'[r].step = 3
Stops(r) ==
    /\ \A q \in Request \ {r} : req'[q] = req[q]
    /\ Running(r) /\ req'[r].end = "over"
Commits(r) ==
    /\ \A q \in Request \ {r} : req'[q] = req[q]
    /\ Running(r) /\ req'[r].end = "committed"

LEMMA GoesOnKeeps ==
    ASSUME TypeInv, ReqType', NEW r \in Request, GoesOn(r)
    PROVE  \A q \in Request : /\ Running(q)' <=> Running(q)
                              /\ Committed(q)' <=> Committed(q)
                              /\ req'[q].step >= req[q].step
                              /\ Kind[q] = "send" /\ req[q].step = 3 => req'[q].step = 3
<1>1. \A q \in Request : req[q].step \in Nat /\ req'[q].step \in Nat
  BY DEF TypeInv, ReqType, ReqRecord
<1>2. \A q \in Request : req'[q].step >= req[q].step
  BY <1>1 DEF GoesOn
<1> QED
  BY <1>2 DEF GoesOn, Running, Committed

LEMMA InsertSteps == \A r \in Request : InsertStep[Kind[r]] \in Nat
BY KindIsOne DEF InsertStep, Kinds

\* A reference that was good stays so while its row and the request stay.
LEMMA RefersKept ==
    ASSUME TypeInv, ReqType', NEW x \in Row, Refers(x), row'[x].ref = row[x].ref,
           \A q \in Request : Committed(q) => Committed(q)',
           \A q \in Request : Running(q) => Running(q)' \/ Committed(q)' \/ q # x,
           \A q \in Request : req'[q].step >= req[q].step \/ Committed(q)'
    PROVE  Refers(x)'
<1>1. CASE x \in Session
  BY <1>1, NamesDiffer DEF Refers
<1>2. CASE x \in Request
  <2>1. req[x].step \in Nat /\ req'[x].step \in Nat /\ InsertStep[Kind[x]] \in Nat
    BY <1>2, InsertSteps DEF TypeInv, ReqType, ReqRecord
  <2>2. Committed(x)' \/ (Running(x)' /\ req'[x].step > InsertStep[Kind[x]])
    BY <1>2, <2>1 DEF Refers, Running, Committed
  <2>3. \/ Kind[x] = "realign" /\ row'[x].ref \in Session
        \/ Kind[x] = "analyse" /\ row'[x].ref \in Of("realign") /\ Committed(row[x].ref)'
        \/ Kind[x] = "review" /\ \/ row'[x].ref = x
                                 \/ row'[x].ref \in Of("analyse") /\ Committed(row[x].ref)'
    BY <1>2 DEF Refers, Of, Committed
  <2> QED
    BY <1>2, <2>2, <2>3, NamesDiffer DEF Refers
<1> QED
  BY <1>1, <1>2 DEF Row

\* So does a lock, while its holder runs.
LEMMA LockKept ==
    ASSUME NEW x \in Row, row \in [Row -> RowRecord], LockOf(x), row'[x] = row[x],
           row[x].lock # None =>
             /\ Running(row[x].lock)'
             /\ Kind[row[x].lock] = "send" /\ req[row[x].lock].step = 3
                  => req'[row[x].lock].step = 3
    PROVE  LockOf(x)'
BY DEF LockOf, Holds, Present

LEMMA SameTables ==
    ASSUME TypeInv, ReqType', Tables, row' = row, NEW r \in Request, GoesOn(r)
    PROVE  Tables'
<1>1. \A q \in Request : /\ Running(q)' <=> Running(q)
                         /\ Committed(q)' <=> Committed(q)
                         /\ req'[q].step >= req[q].step
                         /\ Kind[q] = "send" /\ req[q].step = 3 => req'[q].step = 3
  BY GoesOnKeeps
<1>2. row \in [Row -> RowRecord] /\ \A x \in Row : row[x].lock # None => row[x].lock \in Request
  BY DEF TypeInv, RowType, RowRecord
<1>3. Refs'
  <2> SUFFICES ASSUME NEW x \in Row, Present(x)' PROVE Refers(x)'
    BY DEF Refs
  <2>1. Refers(x) /\ row'[x].ref = row[x].ref
    BY DEF Tables, Refs, Present
  <2>2. /\ \A q \in Request : Committed(q) => Committed(q)'
        /\ \A q \in Request : Running(q) => Running(q)' \/ Committed(q)' \/ q # x
        /\ \A q \in Request : req'[q].step >= req[q].step \/ Committed(q)'
    BY <1>1
  <2> QED
    BY <2>1, <2>2, RefersKept
<1>4. Locks'
  <2> SUFFICES ASSUME NEW x \in Row PROVE LockOf(x)'
    BY DEF Locks
  <2>1. LockOf(x) /\ row'[x] = row[x]
    BY DEF Tables, Locks
  <2>2. row[x].lock # None =>
          /\ Running(row[x].lock)'
          /\ Kind[row[x].lock] = "send" /\ req[row[x].lock].step = 3
               => req'[row[x].lock].step = 3
    BY <1>1, <1>2, <2>1 DEF LockOf, Holds, Running
  <2> QED
    BY <1>2, <2>1, <2>2, LockKept
<1>5. Family'
  BY DEF Tables, Family, Together, Present, Deleting
<1> QED
  BY <1>3, <1>4, <1>5 DEF Tables

LEMMA UndoneTables ==
    ASSUME TypeInv, ReqType', Tables, NEW r \in Request, Stops(r), Undoes(r)
    PROVE  Tables'
<1>1. RowType /\ Refs /\ Locks /\ Family /\ r \in Row
  BY DEF TypeInv, Tables, Row
<1>2. /\ row'[r] = NoRow
      /\ \A x \in Row \ {r} :
           /\ row'[x].ref = row[x].ref /\ row'[x].status = row[x].status
           /\ row[x].lock = r => row'[x].lock = None /\ row'[x].change = "none"
           /\ row[x].lock # r => row'[x] = row[x]
  BY <1>1, OfUndoes
<1>3. /\ ~Committed(r) /\ Running(r)
      /\ \A q \in Request \ {r} : /\ Running(q)' <=> Running(q)
                                  /\ Committed(q)' <=> Committed(q)
                                  /\ req'[q] = req[q]
  BY DEF Stops, Running, Committed
<1>4. ~Present(r)' /\ \A x \in Row \ {r} : Present(x)' <=> Present(x)
  BY <1>2 DEF Present, NoRow
<1>5. Refs'
  <2> SUFFICES ASSUME NEW x \in Row, Present(x)' PROVE Refers(x)'
    BY DEF Refs
  <2>1. x # r /\ Refers(x) /\ row'[x].ref = row[x].ref
    BY <1>1, <1>2, <1>4 DEF Refs
  <2>2. CASE x \in Session
    BY <2>1, <2>2, NamesDiffer DEF Refers
  <2>3. CASE x \in Request
    <3>1. row[x].ref \in Request \ {r} => (Committed(row[x].ref)' <=> Committed(row[x].ref))
      BY <1>3, <2>1 DEF Committed
    <3>2. row[x].ref = r => ~Committed(row[x].ref)
      BY <1>3
    <3> QED
      BY <1>3, <2>1, <2>3, <3>1, <3>2, NamesDiffer DEF Refers, Committed, Running, Of
  <2> QED
    BY <2>2, <2>3 DEF Row
<1>6. Locks'
  <2> SUFFICES ASSUME NEW x \in Row PROVE LockOf(x)'
    BY DEF Locks
  <2>1. LockOf(x) /\ row[x] \in RowRecord
    BY <1>1 DEF Locks, RowType
  <2>2. CASE x = r
    BY <1>2, <2>2 DEF LockOf, NoRow
  <2>3. CASE x # r /\ row[x].lock = r
    BY <1>2, <2>1, <2>3 DEF LockOf
  <2>4. CASE x # r /\ row[x].lock # r
    <3>1. row[x].lock # None =>
            /\ Running(row[x].lock)'
            /\ Kind[row[x].lock] = "send" /\ req[row[x].lock].step = 3
                 => req'[row[x].lock].step = 3
      BY <1>2, <1>3, <2>1, <2>4 DEF LockOf, Holds, RowRecord, Running
    <3> QED
      BY <1>1, <1>2, <2>1, <2>4, <3>1, LockKept DEF RowType
  <2> QED
    BY <2>2, <2>3, <2>4
<1>7. Family'
  <2> SUFFICES ASSUME NEW c \in Request, Present(c)', row'[c].ref # c PROVE Together(c)'
    BY DEF Family, Together
  <2>1. /\ c # r /\ c \in Row /\ Present(c) /\ row'[c].ref = row[c].ref /\ Together(c)
        /\ Refers(c)
    BY <1>1, <1>2, <1>4 DEF Family, Refs, Row
  <2> DEFINE p == row[c].ref
  <2>2. p \in Row \ {r}
    BY <1>1, <1>3, <2>1, NamesDiffer DEF Refers, Row, Of
  <2>3. Present(p)'
    BY <1>4, <2>1, <2>2 DEF Together
  <2>4. ASSUME row'[p].change = "delete"
        PROVE  row'[c].lock = row'[p].lock /\ row'[c].change \in {"delete", "detach"}
    <3>1. row[p].lock # r /\ row'[p] = row[p]
      BY <1>2, <2>2, <2>4
    <3>2. row[c].lock = row[p].lock /\ row[c].change \in {"delete", "detach"}
      BY <2>1, <2>4, <3>1 DEF Together, Deleting
    <3> QED
      BY <1>2, <2>1, <3>1, <3>2
  <2> QED
    BY <2>1, <2>3, <2>4 DEF Together, Deleting
<1> QED
  BY <1>5, <1>6, <1>7 DEF Tables

LEMMA SettledTables ==
    ASSUME TypeInv, ReqType', Tables, NEW r \in Request, Commits(r), Settles(r)
    PROVE  Tables'
<1>1. RowType /\ Refs /\ Locks /\ Family
  BY DEF TypeInv, Tables
<1>2. \A x \in Row :
        /\ row[x].lock # r => row'[x] = row[x]
        /\ row[x].lock = r /\ row[x].change = "delete" => row'[x] = GoneRow
        /\ row[x].lock = r /\ row[x].change = "detach" =>
             row'[x] = [NoRow EXCEPT !.ref = x, !.status = "superseded"]
        /\ row[x].lock = r /\ row[x].change \notin {"delete", "detach"} =>
             /\ row'[x].ref = row[x].ref /\ row'[x].status = row[x].change
             /\ row'[x].lock = None /\ row'[x].change = "none"
  BY <1>1, OfSettles
<1>3. /\ Committed(r)' /\ Running(r)
      /\ \A q \in Request \ {r} : /\ Running(q)' <=> Running(q)
                                  /\ Committed(q)' <=> Committed(q)
                                  /\ req'[q] = req[q]
  BY DEF Commits, Running, Committed
<1>4. \A x \in Row : Present(x)' =>
        /\ Present(x)
        /\ ~(row[x].lock = r /\ row[x].change = "delete")
        /\ \/ row'[x].ref = row[x].ref
           \/ row'[x].ref = x /\ x \in Of("review")
  <2> SUFFICES ASSUME NEW x \in Row, Present(x)'
               PROVE  /\ Present(x)
                      /\ ~(row[x].lock = r /\ row[x].change = "delete")
                      /\ \/ row'[x].ref = row[x].ref
                         \/ row'[x].ref = x /\ x \in Of("review")
    OBVIOUS
  <2>1. LockOf(x)
    BY <1>1 DEF Locks
  <2>2. CASE row[x].lock # r
    BY <1>2, <2>2 DEF Present
  <2>3. CASE row[x].lock = r
    <3>1. Present(x)
      BY <2>1, <2>3, NamesDiffer DEF LockOf, Holds, Row
    <3>2. row[x].change # "delete"
      BY <1>2, <2>3 DEF Present, GoneRow, NoRow
    <3>3. row[x].change = "detach" => row'[x].ref = x /\ x \in Of("review")
      BY <1>2, <2>1, <2>3 DEF LockOf, NoRow
    <3> QED
      BY <1>2, <2>3, <3>1, <3>2, <3>3
  <2> QED
    BY <2>2, <2>3
<1>5. Refs'
  <2> SUFFICES ASSUME NEW x \in Row, Present(x)' PROVE Refers(x)'
    BY DEF Refs
  <2>1. Refers(x) /\ (row'[x].ref = row[x].ref \/ (row'[x].ref = x /\ x \in Of("review")))
    BY <1>1, <1>4 DEF Refs
  <2>2. CASE x \in Session
    BY <2>1, <2>2, NamesDiffer DEF Refers, Of
  <2>3. CASE x \in Request
    <3>1. \A q \in Request : Committed(q) => Committed(q)'
      BY <1>3
    <3>2. Committed(x)' \/ (Running(x)' /\ req'[x].step > InsertStep[Kind[x]])
      BY <1>3, <2>1, <2>3 DEF Refers
    <3> QED
      BY <2>1, <2>3, <3>1, <3>2, NamesDiffer DEF Refers, Of, Committed
  <2> QED
    BY <2>2, <2>3 DEF Row
<1>6. Locks'
  <2> SUFFICES ASSUME NEW x \in Row PROVE LockOf(x)'
    BY DEF Locks
  <2>1. LockOf(x) /\ row[x] \in RowRecord
    BY <1>1 DEF Locks, RowType
  <2>2. CASE row[x].lock = r
    <3>1. CASE row[x].change = "delete"
      BY <1>2, <2>2, <3>1 DEF LockOf, GoneRow, NoRow
    <3>2. CASE row[x].change = "detach"
      BY <1>2, <2>1, <2>2, <3>2 DEF LockOf, NoRow
    <3>3. CASE row[x].change \notin {"delete", "detach"}
      BY <1>2, <2>1, <2>2, <3>3 DEF LockOf
    <3> QED
      BY <3>1, <3>2, <3>3
  <2>3. CASE row[x].lock # r
    <3>2. row'[x] = row[x]
      BY <1>2, <2>3
    <3>3. row[x].lock # None => row[x].lock \in Request \ {r} /\ Running(row[x].lock)
      BY <2>1, <2>3 DEF LockOf, Holds, RowRecord
    <3>1. row[x].lock # None =>
            /\ Running(row[x].lock)'
            /\ Kind[row[x].lock] = "send" /\ req[row[x].lock].step = 3
                 => req'[row[x].lock].step = 3
      BY <1>3, <3>2, <3>3 DEF Running
    <3> QED
      BY <1>1, <1>2, <2>1, <2>3, <3>1, LockKept DEF RowType
  <2> QED
    BY <2>2, <2>3
<1>7. Family'
  <2> SUFFICES ASSUME NEW c \in Request, Present(c)', row'[c].ref # c PROVE Together(c)'
    BY DEF Family, Together
  <2>1. /\ c \in Row /\ Present(c) /\ row'[c].ref = row[c].ref /\ Together(c)
        /\ ~(row[c].lock = r /\ row[c].change = "delete")
    BY <1>1, <1>4 DEF Family, Row
  <2> DEFINE p == row[c].ref
  <2>2. p \in Row /\ Present(p) /\ LockOf(p) /\ LockOf(c)
    BY <1>1, <2>1, ParentIsRow DEF Together, Locks
  <2>3. ~(row[c].lock = r /\ row[c].change = "detach")
    BY <1>2, <2>1 DEF NoRow
  <2>4. ~(row[p].lock = r /\ row[p].change = "delete")
    BY <2>1, <2>3 DEF Together, Deleting
  <2>5. Present(p)'
    <3>1. CASE row[p].lock # r
      BY <1>2, <2>1, <2>2, <3>1 DEF Present
    <3>2. CASE row[p].lock = r /\ row[p].change = "detach"
      <4>1. row'[p] = [NoRow EXCEPT !.ref = p, !.status = "superseded"]
        BY <1>2, <2>2, <3>2
      <4>2. row'[p].ref = p /\ p # None
        BY <2>2, <4>1, NamesDiffer DEF NoRow
      <4> QED
        BY <2>1, <4>2 DEF Present
    <3>3. CASE row[p].lock = r /\ row[p].change \notin {"delete", "detach"}
      BY <1>2, <2>1, <2>2, <3>3 DEF Present
    <3> QED
      BY <2>4, <3>1, <3>2, <3>3
  <2>6. ASSUME row'[p].change = "delete"
        PROVE  row'[c].lock = row'[p].lock /\ row'[c].change \in {"delete", "detach"}
    <3>1. row[p].lock # r
      BY <1>2, <2>2, <2>4, <2>6 DEF NoRow
    <3>2. row'[p] = row[p]
      BY <1>2, <2>2, <3>1
    <3>3. row[c].lock = row[p].lock /\ row[c].change \in {"delete", "detach"}
      BY <2>1, <2>6, <3>2 DEF Together, Deleting
    <3> QED
      BY <1>2, <2>1, <3>1, <3>2, <3>3
  <2> QED
    BY <2>1, <2>5, <2>6 DEF Together, Deleting
<1> QED
  BY <1>5, <1>6, <1>7 DEF Tables

\* What a request may mark: rows nobody else has locked, as its kind allows; and a
\* row it deletes has no child but those it is taking away as well.
MayMark(r, mine, change) ==
    /\ mine \subseteq Row /\ change \in Changes \ {"superseded"}
    /\ \A x \in mine : Present(x) /\ row[x].lock \in {None, r}
    /\ Kind[r] # "analyse"
    /\ Kind[r] = "send" => req'[r].step = 3
    /\ Kind[r] \in {"realign", "erase"} <=> change \in {"delete", "detach"}
    /\ change = "delete" =>
         /\ Kind[r] = "realign" => mine \subseteq Of("realign") \cup Of("analyse")
         /\ \A x \in mine, c \in Request :
              Present(c) /\ row[c].ref = x /\ c # x => row[c].lock = r
    /\ change = "detach" => mine \subseteq Of("review")

LEMMA MarkedTables ==
    ASSUME TypeInv, ReqType', Tables, NEW r \in Request, GoesOn(r),
           NEW mine, NEW change, MayMark(r, mine, change), Marks(r, mine, change)
    PROVE  Tables'
<1>1. RowType /\ Refs /\ Locks /\ Family /\ change \in Changes /\ mine \subseteq Row
      /\ Kind[r] \in Kinds
  BY KindIsOne DEF TypeInv, Tables, MayMark
<1>2. /\ \A x \in Row : row'[x].ref = row[x].ref /\ row'[x].status = row[x].status
      /\ \A x \in Row : x \notin mine => row'[x] = row[x]
      /\ \A x \in Row : x \in mine => row'[x].lock = r /\ row'[x].change = change
  BY <1>1, OfMarks
<1>3. \A q \in Request : /\ Running(q)' <=> Running(q)
                         /\ Committed(q)' <=> Committed(q)
                         /\ req'[q].step >= req[q].step
                         /\ Kind[q] = "send" /\ req[q].step = 3 => req'[q].step = 3
  BY GoesOnKeeps
<1>4. \A x \in Row : Present(x)' <=> Present(x)
  BY <1>2 DEF Present
<1>5. Refs'
  <2> SUFFICES ASSUME NEW x \in Row, Present(x)' PROVE Refers(x)'
    BY DEF Refs
  <2>1. Refers(x) /\ row'[x].ref = row[x].ref
    BY <1>1, <1>2, <1>4 DEF Refs
  <2>2. /\ \A q \in Request : Committed(q) => Committed(q)'
        /\ \A q \in Request : Running(q) => Running(q)' \/ Committed(q)' \/ q # x
        /\ \A q \in Request : req'[q].step >= req[q].step \/ Committed(q)'
    BY <1>3
  <2> QED
    BY <2>1, <2>2, RefersKept
<1>6. Locks'
  <2> SUFFICES ASSUME NEW x \in Row PROVE LockOf(x)'
    BY DEF Locks
  <2>1. LockOf(x) /\ row[x] \in RowRecord
    BY <1>1 DEF Locks, RowType
  <2>2. CASE x \notin mine
    <3>1. row'[x] = row[x]
      BY <1>2, <2>2
    <3>2. row[x].lock # None => row[x].lock \in Request /\ Running(row[x].lock)
      BY <2>1 DEF LockOf, Holds, RowRecord
    <3>3. row[x].lock # None =>
            /\ Running(row[x].lock)'
            /\ Kind[row[x].lock] = "send" /\ req[row[x].lock].step = 3
                 => req'[row[x].lock].step = 3
      BY <1>3, <3>1, <3>2 DEF Running
    <3> QED
      BY <1>1, <2>1, <3>1, <3>3, LockKept DEF RowType
  <2>3. CASE x \in mine
    <3>1. row'[x].lock = r /\ row'[x].change = change /\ row'[x].status = row[x].status
      BY <1>2, <2>3
    <3>2. Present(x)' /\ Running(r)'
      BY <1>3, <1>4, <2>3 DEF MayMark, GoesOn
    <3>3. /\ Kind[r] # "analyse" /\ (Kind[r] = "send" => req'[r].step = 3)
          /\ Kind[r] \in {"realign", "erase"} <=> change \in {"delete", "detach"}
          /\ change = "delete" /\ Kind[r] = "realign" => x \in Of("realign") \cup Of("analyse")
          /\ change = "detach" => x \in Of("review")
          /\ change # "superseded"
      BY <2>3 DEF MayMark
    <3>4. Holds(x, r)'
      BY <3>1, <3>2, <3>3 DEF Holds, Of
    <3>5. r # None
      BY NamesDiffer DEF Row
    <3> QED
      BY <2>1, <3>1, <3>3, <3>4, <3>5 DEF LockOf, Of, Holds
  <2> QED
    BY <2>2, <2>3
<1>7. Family'
  <2> SUFFICES ASSUME NEW c \in Request, Present(c)', row'[c].ref # c PROVE Together(c)'
    BY DEF Family, Together
  <2>1. /\ c \in Row /\ Present(c) /\ row'[c].ref = row[c].ref /\ Together(c)
    BY <1>1, <1>2, <1>4 DEF Family, Row
  <2> DEFINE p == row[c].ref
  <2>2. p \in Row /\ Present(p) /\ LockOf(p) /\ LockOf(c)
    BY <1>1, <2>1, ParentIsRow DEF Together, Locks
  <2>3. Present(p)'
    BY <1>4, <2>1, <2>2 DEF Present
  <2>4. ASSUME row'[p].change = "delete"
        PROVE  row'[c].lock = row'[p].lock /\ row'[c].change \in {"delete", "detach"}
    <3>1. CASE p \in mine
      <4>1. change = "delete" /\ row'[p].lock = r
        BY <1>2, <2>2, <2>4, <3>1
      <4>2. row[c].lock = r
        BY <2>1, <3>1, <4>1 DEF MayMark
      <4>3. row[c].change \in {"delete", "detach"}
        <5>1. Holds(c, r) /\ Kind[r] \in {"realign", "erase"}
          BY <2>2, <4>1, <4>2, NamesDiffer DEF LockOf, MayMark, Row
        <5> QED
          BY <4>2, <5>1 DEF Holds
      <4> QED
        BY <1>2, <2>1, <4>1, <4>2, <4>3
    <3>2. CASE p \notin mine
      <4>1. row'[p] = row[p]
        BY <1>2, <2>2, <3>2
      <4>2. row[c].lock = row[p].lock /\ row[c].change \in {"delete", "detach"}
        BY <2>1, <2>4, <4>1 DEF Together, Deleting
      <4>3. CASE c \notin mine
        BY <1>2, <2>1, <4>1, <4>2, <4>3
      <4>4. CASE c \in mine
        <5>1. row[p].change = "delete" /\ row[p].lock # None
          BY <2>2, <2>4, <4>1 DEF LockOf
        <5>2. row[p].lock = r
          BY <4>2, <4>4, <5>1 DEF MayMark
        <5>3. Kind[r] \in {"realign", "erase"}
          BY <2>2, <5>1, <5>2 DEF LockOf, Holds
        <5>4. change \in {"delete", "detach"}
          BY <5>3 DEF MayMark
        <5> QED
          BY <1>2, <2>1, <4>1, <4>4, <5>2, <5>4
      <4> QED
        BY <4>3, <4>4
    <3> QED
      BY <3>1, <3>2
  <2> QED
    BY <2>1, <2>3, <2>4 DEF Together, Deleting
<1> QED
  BY <1>5, <1>6, <1>7 DEF Tables

\* What a request may insert: a row whose parent is there, and not on its way out.
MayInsert(r, parent) ==
    /\ parent \in Row \ {r} /\ Present(parent)
    /\ row[parent].lock \notin {None, r} => ~Deleting(parent)
    /\ req'[r].step > InsertStep[Kind[r]]
    /\ \/ Kind[r] = "realign" /\ parent \in Session
       \/ Kind[r] = "analyse" /\ parent \in Of("realign") /\ Committed(parent)
       \/ Kind[r] = "review" /\ parent \in Of("analyse") /\ Committed(parent)

LEMMA InsertedTables ==
    ASSUME TypeInv, ReqType', Tables, NEW r \in Request, GoesOn(r), NEW sourced \in BOOLEAN,
           NEW parent, MayInsert(r, parent), Inserts(r, parent, sourced)
    PROVE  Tables'
<1>1. RowType /\ Refs /\ Locks /\ Family /\ parent \in Row \ {r} /\ r \in Row
  BY DEF TypeInv, Tables, MayInsert, Row
<1>2. /\ row'[r].ref = parent /\ row'[r].lock = None /\ row'[r].change = "none"
      /\ row'[r].status = "none"
      /\ \A x \in Row \ {r} : row'[x] = row[x]
  BY <1>1, OfInserts
<1>3. \A q \in Request : /\ Running(q)' <=> Running(q)
                         /\ Committed(q)' <=> Committed(q)
                         /\ req'[q].step >= req[q].step
                         /\ Kind[q] = "send" /\ req[q].step = 3 => req'[q].step = 3
  BY GoesOnKeeps
<1>4. Present(r)' /\ \A x \in Row \ {r} : Present(x)' <=> Present(x)
  BY <1>1, <1>2, NamesDiffer DEF Present
<1>5. Refs'
  <2> SUFFICES ASSUME NEW x \in Row, Present(x)' PROVE Refers(x)'
    BY DEF Refs
  <2>1. CASE x # r
    <3>1. Refers(x) /\ row'[x].ref = row[x].ref
      BY <1>1, <1>2, <1>4, <2>1 DEF Refs
    <3>2. /\ \A q \in Request : Committed(q) => Committed(q)'
          /\ \A q \in Request : Running(q) => Running(q)' \/ Committed(q)' \/ q # x
          /\ \A q \in Request : req'[q].step >= req[q].step \/ Committed(q)'
      BY <1>3
    <3> QED
      BY <3>1, <3>2, RefersKept
  <2>2. CASE x = r
    <3>1. Running(r)' /\ req'[r].step > InsertStep[Kind[r]]
      BY <1>3 DEF GoesOn, MayInsert
    <3>2. parent \in Request => (Committed(parent) <=> Committed(parent)')
      BY <1>3
    <3>3. \/ Kind[r] = "realign" /\ parent \in Session
          \/ Kind[r] = "analyse" /\ parent \in Of("realign") /\ req'[parent].end = "committed"
          \/ Kind[r] = "review" /\ parent \in Of("analyse") /\ req'[parent].end = "committed"
      BY <3>2 DEF MayInsert, Of, Committed
    <3>4. r \notin Session
      BY NamesDiffer
    <3> QED
      BY <1>2, <2>2, <3>1, <3>3, <3>4 DEF Refers, Committed, Of
  <2> QED
    BY <2>1, <2>2
<1>6. Locks'
  <2> SUFFICES ASSUME NEW x \in Row PROVE LockOf(x)'
    BY DEF Locks
  <2>1. LockOf(x) /\ row[x] \in RowRecord
    BY <1>1 DEF Locks, RowType
  <2>2. CASE x = r
    BY <1>2, <2>2 DEF LockOf
  <2>3. CASE x # r
    <3>1. row'[x] = row[x]
      BY <1>2, <2>3
    <3>2. row[x].lock # None => row[x].lock \in Request /\ Running(row[x].lock)
      BY <2>1 DEF LockOf, Holds, RowRecord
    <3>3. row[x].lock # None =>
            /\ Running(row[x].lock)'
            /\ Kind[row[x].lock] = "send" /\ req[row[x].lock].step = 3
                 => req'[row[x].lock].step = 3
      BY <1>3, <3>1, <3>2 DEF Running
    <3> QED
      BY <1>1, <2>1, <3>1, <3>3, LockKept DEF RowType
  <2> QED
    BY <2>2, <2>3
<1>7. Family'
  <2> SUFFICES ASSUME NEW c \in Request, Present(c)', row'[c].ref # c PROVE Together(c)'
    BY DEF Family, Together
  <2>1. CASE c = r
    <3>1. row[parent].change # "delete"
      <4>1. LockOf(parent)
        BY <1>1 DEF Locks
      <4>2. row[parent].lock = r => ~Deleting(parent)
        BY <4>1, NamesDiffer DEF LockOf, Holds, MayInsert, Deleting, Of, Row
      <4> QED
        BY <4>1, <4>2 DEF MayInsert, Deleting, LockOf
    <3> QED
      BY <1>1, <1>2, <1>4, <2>1, <3>1 DEF Together, Deleting, MayInsert, Present
  <2>2. CASE c # r
    <3>1. /\ c \in Row /\ Present(c) /\ row'[c] = row[c] /\ Together(c)
      BY <1>1, <1>2, <1>4, <2>2 DEF Family, Row
    <3>2. CASE row[c].ref = r
      BY <1>1, <1>2, <1>4, <3>1, <3>2 DEF Together, Deleting, Present
    <3>3. CASE row[c].ref # r
      <4>1. row[c].ref \in Row \ {r}
        BY <1>1, <3>1, <3>3, ParentIsRow
      <4> QED
        BY <1>2, <3>1, <4>1 DEF Together, Deleting, Present
    <3> QED
      BY <3>2, <3>3
  <2> QED
    BY <2>1, <2>2
<1> QED
  BY <1>5, <1>6, <1>7 DEF Tables

LEMMA CreatedTables ==
    ASSUME TypeInv, Tables, NEW s \in Session, req' = req, Creates(s)
    PROVE  Tables'
<1>1. RowType /\ Refs /\ Locks /\ Family /\ s \in Row /\ s \notin Request
  BY NamesDiffer DEF TypeInv, Tables, Row
<1>2. /\ row'[s].ref = s /\ row'[s].lock = None /\ row'[s].change = "none"
      /\ row'[s].status = "draft"
      /\ \A x \in Row \ {s} : row'[x] = row[x]
  BY <1>1, OfCreates
<1>3. Present(s)' /\ \A x \in Row \ {s} : Present(x)' <=> Present(x)
  BY <1>1, <1>2, NamesDiffer DEF Present
<1>4. Refs'
  <2> SUFFICES ASSUME NEW x \in Row, Present(x)' PROVE Refers(x)'
    BY DEF Refs
  <2>1. CASE x = s
    BY <1>1, <1>2, <2>1 DEF Refers
  <2>2. CASE x # s
    <3>1. Refers(x) /\ row'[x] = row[x]
      BY <1>1, <1>2, <1>3, <2>2 DEF Refs
    <3> QED
      BY <3>1 DEF Refers, Committed, Running
  <2> QED
    BY <2>1, <2>2
<1>5. Locks'
  <2> SUFFICES ASSUME NEW x \in Row PROVE LockOf(x)'
    BY DEF Locks
  <2>1. CASE x = s
    BY <1>2, <2>1 DEF LockOf
  <2>2. CASE x # s
    <3>1. LockOf(x) /\ row'[x] = row[x]
      BY <1>1, <1>2, <2>2 DEF Locks
    <3> QED
      BY <3>1 DEF LockOf, Holds, Running, Present
  <2> QED
    BY <2>1, <2>2
<1>6. Family'
  <2> SUFFICES ASSUME NEW c \in Request, Present(c)', row'[c].ref # c PROVE Together(c)'
    BY DEF Family, Together
  <2>1. /\ c \in Row /\ Present(c) /\ row'[c] = row[c] /\ Together(c)
    BY <1>1, <1>2, <1>3 DEF Family, Row
  <2>2. CASE row[c].ref = s
    BY <1>1, <1>2, <1>3, <2>1, <2>2 DEF Together, Deleting, Present
  <2>3. CASE row[c].ref # s
    <3>1. row[c].ref \in Row \ {s}
      BY <1>1, <2>1, <2>3, ParentIsRow
    <3> QED
      BY <1>2, <2>1, <3>1 DEF Together, Deleting, Present
  <2> QED
    BY <2>2, <2>3
<1> QED
  BY <1>4, <1>5, <1>6 DEF Tables

-----------------------------------------------------------------------------
(* The requests.  What one has read bears on the rows it goes on to write.    *)

Picked(r) ==
    /\ Kind[r] \in {"realign", "analyse", "send"} /\ req[r].step >= 2 => req[r].sess \in Session
    /\ Kind[r] = "analyse" /\ req[r].step >= 4 =>
         req[r].ref \in Of("realign") /\ Committed(req[r].ref)
    /\ Kind[r] = "review" /\ req[r].step >= 2 =>
         /\ req[r].ref \in Of("analyse") /\ Committed(req[r].ref)
         /\ req[r].decision \in DOMAIN Promoted
    /\ req[r].waits /\ Kind[r] = "realign" =>
         /\ req[r].step = 2 => req[r].seen \subseteq Of("review")
         /\ req[r].step = 3 => req[r].seen \subseteq Of("analyse")
         /\ req[r].step = 4 => req[r].seen \subseteq Of("realign")
Picks == \A r \in Request : Running(r) => Picked(r)

Base == TypeInv /\ Tables /\ Picks

\* What the step of a request does to the rows.
Nothing(r) == row' = row /\ ~Present(r) /\ \A x \in Row : row[x].lock # r
Effect(r) ==
    \/ Stops(r) /\ (Undoes(r) \/ Nothing(r))
    \/ Commits(r) /\ Settles(r)
    \/ GoesOn(r) /\ row' = row
    \/ GoesOn(r) /\ \E mine, change : MayMark(r, mine, change) /\ Marks(r, mine, change)
    \/ GoesOn(r) /\ \E parent : \E sourced \in BOOLEAN :
                      MayInsert(r, parent) /\ Inserts(r, parent, sourced)

LEMMA NothingTables ==
    ASSUME TypeInv, ReqType', Tables, NEW r \in Request, Stops(r), Nothing(r)
    PROVE  Tables'
<1>1. RowType /\ Refs /\ Locks /\ Family /\ r \in Row /\ row' = row /\ ~Present(r)
      /\ \A x \in Row : row[x].lock # r
  BY DEF TypeInv, Tables, Row, Nothing
<1>2. /\ ~Committed(r) /\ Running(r)
      /\ \A q \in Request \ {r} : /\ Running(q)' <=> Running(q)
                                  /\ Committed(q)' <=> Committed(q)
                                  /\ req'[q] = req[q]
  BY DEF Stops, Running, Committed
<1>3. Refs'
  <2> SUFFICES ASSUME NEW x \in Row, Present(x)' PROVE Refers(x)'
    BY DEF Refs
  <2>1. x # r /\ Refers(x) /\ row'[x].ref = row[x].ref
    BY <1>1 DEF Refs, Present
  <2>2. CASE x \in Session
    BY <2>1, <2>2, NamesDiffer DEF Refers
  <2>3. CASE x \in Request
    <3>1. row[x].ref \in Request \ {r} => (Committed(row[x].ref)' <=> Committed(row[x].ref))
      BY <1>2, <2>1 DEF Committed
    <3>2. row[x].ref = r => ~Committed(row[x].ref)
      BY <1>2
    <3> QED
      BY <1>2, <2>1, <2>3, <3>1, <3>2, NamesDiffer DEF Refers, Committed, Running, Of
  <2> QED
    BY <2>2, <2>3 DEF Row
<1>4. Locks'
  <2> SUFFICES ASSUME NEW x \in Row PROVE LockOf(x)'
    BY DEF Locks
  <2>1. LockOf(x) /\ row[x] \in RowRecord /\ row'[x] = row[x] /\ row[x].lock # r
    BY <1>1 DEF Locks, RowType
  <2>2. row[x].lock # None => row[x].lock \in Request \ {r} /\ Running(row[x].lock)
    BY <2>1 DEF LockOf, Holds, RowRecord
  <2>3. row[x].lock # None =>
          /\ Running(row[x].lock)'
          /\ Kind[row[x].lock] = "send" /\ req[row[x].lock].step = 3
               => req'[row[x].lock].step = 3
    BY <1>2, <2>1, <2>2 DEF Running
  <2> QED
    BY <1>1, <2>1, <2>3, LockKept DEF RowType
<1>5. Family'
  BY <1>1 DEF Family, Together, Present, Deleting
<1> QED
  BY <1>3, <1>4, <1>5 DEF Tables

LEMMA EffectTables ==
    ASSUME Base, ReqType', NEW r \in Request, Effect(r)
    PROVE  Tables' /\ RowType'
<1>1. TypeInv /\ Tables /\ RowType
  BY DEF Base, TypeInv
<1>2. CASE Stops(r) /\ Undoes(r)
  BY <1>1, <1>2, UndoneTables, OfUndoes
<1>3. CASE Stops(r) /\ Nothing(r)
  <2>1. RowType'
    BY <1>1, <1>3 DEF RowType, Nothing
  <2> QED
    BY <1>1, <1>3, <2>1, NothingTables
<1>4. CASE Commits(r) /\ Settles(r)
  BY <1>1, <1>4, SettledTables, OfSettles
<1>5. CASE GoesOn(r) /\ row' = row
  <2>1. RowType'
    BY <1>1, <1>5 DEF RowType
  <2> QED
    BY <1>1, <1>5, <2>1, SameTables
<1>6. ASSUME GoesOn(r), NEW mine, NEW change, MayMark(r, mine, change), Marks(r, mine, change)
      PROVE  Tables' /\ RowType'
  <2>1. change \in Changes
    BY <1>6 DEF MayMark
  <2> QED
    BY <1>1, <1>6, <2>1, MarkedTables, OfMarks
<1>7. ASSUME GoesOn(r), NEW parent, NEW sourced \in BOOLEAN, MayInsert(r, parent),
             Inserts(r, parent, sourced)
      PROVE  Tables' /\ RowType'
  <2>1. parent \in Row
    BY <1>7 DEF MayInsert
  <2> QED
    BY <1>1, <1>7, <2>1, InsertedTables, OfInserts
<1> QED
  BY <1>2, <1>3, <1>4, <1>5, <1>6, <1>7 DEF Effect

\* The requests a step is not of keep what they have picked.
LEMMA OthersPicked ==
    ASSUME Base, NEW r \in Request, Effect(r), Running(r)' => Picked(r)'
    PROVE  Picks'
<1>1. \A q \in Request \ {r} : req'[q] = req[q]
  BY DEF Effect, Stops, Commits, GoesOn
<1>2. \A q \in Request : Committed(q) => Committed(q)'
  BY DEF Effect, Stops, Commits, GoesOn, Running, Committed
<1> SUFFICES ASSUME NEW q \in Request \ {r}, Running(q)' PROVE Picked(q)'
  BY DEF Picks
<1>3. Running(q) /\ req'[q] = req[q] /\ Picked(q)
  BY <1>1 DEF Running, Base, Picks
<1>4. req[q].ref \in Request /\ Committed(req[q].ref) => req'[req[q].ref].end = "committed"
  BY <1>2 DEF Committed
<1> QED
  BY <1>3, <1>4 DEF Picked, Committed, Of

-----------------------------------------------------------------------------
(* The steps of requests, one by one: each has an effect on the rows, and     *)
(* leaves its request with what it has picked.                                *)

Fits(r) == ReqType' /\ Effect(r) /\ (Running(r)' => Picked(r)')

LEMMA FitsBase ==
    ASSUME Base, NEW r \in Request, Fits(r)
    PROVE  Base'
<1>1. ReqType' /\ Effect(r)
  BY DEF Fits
<1>2. Tables' /\ RowType'
  BY <1>1, EffectTables
<1>3. Picks'
  BY <1>1, OthersPicked DEF Fits
<1> QED
  BY <1>1, <1>2, <1>3 DEF Base, TypeInv

LEMMA RefuseFits ==
    ASSUME Base, NEW r \in Request, Running(r), Refuse(r)
    PROVE  Fits(r) /\ Stops(r) /\ Undoes(r) /\ req'[r] = [NoRequest EXCEPT !.end = "over"]
<1> DEFINE record == [NoRequest EXCEPT !.end = "over"]
<1>1. record \in ReqRecord /\ record.step = 1 /\ record.end = "over"
  BY NoRequestType
<1>2. ReqType /\ req' = [req EXCEPT ![r] = record] /\ 1 \in Steps(r)
  BY FirstStep DEF Base, TypeInv, Refuse, Over
<1> HIDE DEF record
<1>3. ReqType' /\ req'[r] = record /\ \A q \in Request \ {r} : req'[q] = req[q]
  BY <1>1, <1>2, OneRequest
<1>4. Stops(r) /\ Undoes(r) /\ ~Running(r)'
  BY <1>1, <1>3 DEF Stops, Undoes, Refuse, Running
<1> QED
  BY <1>3, <1>4 DEF Fits, Effect, record

LEMMA AnswerFits ==
    ASSUME Base, NEW r \in Request, Running(r), Answer(r),
           \/ Kind[r] = "analyse" /\ req[r].step <= 3
           \/ Kind[r] = "send" /\ req[r].step = 1
    PROVE  Fits(r) /\ Stops(r) /\ row' = row /\ req'[r] = [NoRequest EXCEPT !.end = "over"]
<1> DEFINE record == [NoRequest EXCEPT !.end = "over"]
<1>1. record \in ReqRecord /\ record.step = 1 /\ record.end = "over"
  BY NoRequestType
<1>2. ReqType /\ req' = [req EXCEPT ![r] = record] /\ 1 \in Steps(r) /\ row' = row
  BY FirstStep DEF Base, TypeInv, Answer, Over
<1> HIDE DEF record
<1>3. ReqType' /\ req'[r] = record /\ \A q \in Request \ {r} : req'[q] = req[q]
  BY <1>1, <1>2, OneRequest
<1>4. Stops(r) /\ ~Running(r)'
  BY <1>1, <1>3 DEF Stops, Running
<1>5. Refs /\ Locks /\ r \in Row /\ req[r].step \in Nat
  BY DEF Base, Tables, Row, TypeInv, ReqType, ReqRecord
<1>6. ~Present(r)
  BY <1>5, NamesDiffer DEF Refs, Refers, Committed, Running, InsertStep
<1>7. ASSUME NEW x \in Row, row[x].lock = r PROVE FALSE
  <2>1. Holds(x, r)
    BY <1>5, <1>7, NamesDiffer DEF Locks, LockOf
  <2> QED
    BY <2>1 DEF Holds
<1>8. Nothing(r)
  BY <1>2, <1>6, <1>7 DEF Nothing
<1> QED
  BY <1>2, <1>3, <1>4, <1>8 DEF Fits, Effect, record

\* A request that goes on: its new record, if it is at its last statement no more.
LEMMA RecordFits ==
    ASSUME Base, NEW r \in Request, Running(r), req[r].step # Last[Kind[r]],
           NEW record \in ReqRecord, record.step \in Steps(r), record.end = "none",
           record.step >= req[r].step, req' = [req EXCEPT ![r] = record]
    PROVE  ReqType' /\ GoesOn(r) /\ req'[r] = record
<1>1. ReqType' /\ req'[r] = record /\ \A q \in Request \ {r} : req'[q] = req[q]
  BY OneRequest DEF Base, TypeInv
<1>2. ~(Kind[r] = "send" /\ req[r].step = 3)
  BY DEF Last
<1> QED
  BY <1>1, <1>2 DEF GoesOn

LEMMA GoFits ==
    ASSUME Base, NEW r \in Request, Running(r), req[r].step # Last[Kind[r]], Go(r)
    PROVE  /\ ReqType' /\ GoesOn(r) /\ req'[r].step = req[r].step + 1
           /\ req'[r].sess = req[r].sess /\ req'[r].ref = req[r].ref
           /\ req'[r].decision = req[r].decision /\ req'[r].before = req[r].before
           /\ req'[r].receipt = req[r].receipt /\ req'[r].waits = FALSE
<1>1. ReqType /\ req[r].step \in Nat
  BY DEF Base, TypeInv, ReqType, ReqRecord
<1>2. /\ Step(r) \in ReqRecord /\ Step(r).step \in Steps(r)
      /\ Step(r).step = req[r].step + 1 /\ Step(r).end = req[r].end
      /\ Step(r).sess = req[r].sess /\ Step(r).ref = req[r].ref
      /\ Step(r).decision = req[r].decision /\ Step(r).before = req[r].before
      /\ Step(r).receipt = req[r].receipt /\ Step(r).waits = FALSE
  BY <1>1, StepType
<1>3. req' = [req EXCEPT ![r] = Step(r)] /\ Step(r).end = "none"
  BY <1>2 DEF Go, Running
<1>4. Step(r).step >= req[r].step
  BY <1>1, <1>2
<1>5. ReqType' /\ GoesOn(r) /\ req'[r] = Step(r)
  BY <1>2, <1>3, <1>4, RecordFits
<1> QED
  BY <1>2, <1>5

\* What was picked before is enough after a step on which nothing new is needed.
LEMMA StillPicked ==
    ASSUME Base, NEW r \in Request, Running(r), GoesOn(r),
           req'[r].step = req[r].step + 1, req'[r].sess = req[r].sess, req'[r].ref = req[r].ref,
           req'[r].decision = req[r].decision, req'[r].waits = FALSE,
           req[r].step >= 2 \/ Kind[r] = "erase",
           ~(Kind[r] = "analyse" /\ req[r].step = 3)
    PROVE  Picked(r)'
<1>1. req[r].step \in Nat /\ Picked(r)
  BY DEF Base, Picks, TypeInv, ReqType, ReqRecord
<1>2. \A q \in Request : Committed(q) => req'[q].end = "committed"
  BY DEF GoesOn, Committed, Running
<1> QED
  BY <1>1, <1>2 DEF Picked, Of, Committed

-----------------------------------------------------------------------------
\* A DELETE, or the detaching UPDATE: it waits, fails, or takes its rows.
Mine(r, rows) == {x \in IF req[r].waits THEN req[r].seen ELSE rows :
                    Present(x) /\ row[x].status # "superseded"}
Waits(r, rows) ==
    /\ ~req[r].waits /\ row' = row
    /\ req' = [req EXCEPT ![r].waits = TRUE, ![r].seen = Mine(r, rows)]
Takes(r, rows, change) ==
    /\ Go(r) /\ Marks(r, Mine(r, rows), change)
    /\ \A x \in Mine(r, rows) : ~Locked(r, x)
    /\ change = "delete" => \A x \in Mine(r, rows) : ~KeyHeld(r, x) /\ Orphans(r, x) = {}

LEMMA ChangeIs ==
    ASSUME NEW r \in Request, NEW statement, NEW rows, NEW change,
           Change(r, statement, rows, change)
    PROVE  /\ At(r, statement) /\ Running(r)
           /\ Waits(r, rows) \/ Refuse(r) \/ Takes(r, rows, change)
<1>1. At(r, statement) /\ Running(r)
  BY DEF Change, At
<1>2. Waits(r, rows) \/ Refuse(r) \/ Takes(r, rows, change)
  BY DEF Change, Waits, Takes, Mine, Marks, Go
<1> QED
  BY <1>1, <1>2

LEMMA MineIs ==
    ASSUME NEW r \in Request, NEW rows, NEW domain, rows \subseteq domain,
           req[r].waits => req[r].seen \subseteq domain
    PROVE  Mine(r, rows) \subseteq domain /\ \A x \in Mine(r, rows) : Present(x)
BY DEF Mine

LEMMA WaitsFits ==
    ASSUME Base, NEW r \in Request, NEW rows, NEW domain, Running(r), Waits(r, rows),
           req[r].step # Last[Kind[r]], rows \subseteq domain, domain \subseteq Row,
           Kind[r] \in {"realign", "erase"},
           Kind[r] = "realign" => /\ req[r].step = 2 => domain \subseteq Of("review")
                                  /\ req[r].step = 3 => domain \subseteq Of("analyse")
                                  /\ req[r].step = 4 => domain \subseteq Of("realign")
    PROVE  /\ Fits(r) /\ GoesOn(r) /\ row' = row
           /\ req'[r] = [req[r] EXCEPT !.waits = TRUE, !.seen = Mine(r, rows)]
<1> DEFINE mine == Mine(r, rows)
           record == [req[r] EXCEPT !.waits = TRUE, !.seen = mine]
<1>1. mine \subseteq domain
  BY MineIs DEF Waits
<1>2. req[r] \in ReqRecord /\ req[r].step \in Steps(r) /\ req[r].step \in Nat /\ Picked(r)
      /\ req[r].end = "none" /\ req \in [Request -> ReqRecord]
  BY DEF Base, TypeInv, ReqType, ReqRecord, Picks, Running
<1> HIDE DEF mine
<1>3. record \in ReqRecord
  BY <1>1, <1>2 DEF ReqRecord
<1>4. /\ record.step = req[r].step /\ record.end = "none" /\ record.sess = req[r].sess
      /\ record.ref = req[r].ref /\ record.decision = req[r].decision
      /\ record.seen = mine /\ record.waits = TRUE
  BY <1>2 DEF ReqRecord
<1>5. req' = [req EXCEPT ![r] = record] /\ row' = row
  BY <1>2 DEF Waits, mine
<1> HIDE DEF record
<1>5a. record.step \in Steps(r) /\ record.step >= req[r].step
  BY <1>2, <1>4
<1>6. ReqType' /\ GoesOn(r) /\ req'[r] = record
  BY <1>3, <1>4, <1>5, <1>5a, RecordFits
<1>7. \A q \in Request : Committed(q) => req'[q].end = "committed"
  BY <1>6 DEF GoesOn, Committed, Running
<1>8. Picked(r)'
  BY <1>1, <1>2, <1>4, <1>6, <1>7 DEF Picked, Of, Committed
<1>9. Effect(r)
  BY <1>5, <1>6 DEF Effect
<1> QED
  BY <1>5, <1>6, <1>8, <1>9 DEF Fits, record, mine

\* The lists of rows a request deletes are rid of children by then: a foreign key
\* would refuse, or wait.
LEMMA TakesFits ==
    ASSUME Base, NEW r \in Request, NEW rows, NEW domain, NEW change \in {"delete", "detach"},
           Running(r), Takes(r, rows, change),
           req[r].step # Last[Kind[r]], rows \subseteq domain, domain \subseteq Row,
           req[r].waits => req[r].seen \subseteq domain,
           Kind[r] = "erase" \/ (Kind[r] = "realign" /\ req[r].step \in 2 .. 4),
           change = "delete" /\ Kind[r] = "realign" =>
             domain \subseteq Of("realign") \cup Of("analyse"),
           change = "detach" => domain \subseteq Of("review")
    PROVE  Fits(r) /\ GoesOn(r) /\ MayMark(r, Mine(r, rows), change)
<1> DEFINE mine == Mine(r, rows)
<1>1. mine \subseteq domain /\ \A x \in mine : Present(x)
  BY MineIs
<1>2. Go(r) /\ Marks(r, mine, change) /\ \A x \in mine : ~Locked(r, x)
  BY DEF Takes
<1>3. change = "delete" => \A x \in mine : ~KeyHeld(r, x) /\ Orphans(r, x) = {}
  BY DEF Takes
<1> HIDE DEF mine
<1>4. /\ ReqType' /\ GoesOn(r) /\ req'[r].step = req[r].step + 1
      /\ req'[r].sess = req[r].sess /\ req'[r].ref = req[r].ref
      /\ req'[r].decision = req[r].decision /\ req'[r].waits = FALSE
  BY <1>2, GoFits
<1>5. Picked(r)'
  <2>1. req[r].step >= 2 \/ Kind[r] = "erase"
    OBVIOUS
  <2>2. ~(Kind[r] = "analyse" /\ req[r].step = 3)
    OBVIOUS
  <2> QED
    BY <1>4, <2>1, <2>2, StillPicked
<1>6. Refs /\ r \in Row /\ req[r].step \in Nat
  BY DEF Base, Tables, Row, TypeInv, ReqType, ReqRecord
<1>7. ~Present(r)
  BY <1>6, NamesDiffer DEF Refs, Refers, Committed, Running, InsertStep
<1>8. ASSUME change = "delete", NEW x \in mine, NEW c \in Request, Present(c), row[c].ref = x
      PROVE  row[c].lock = r
  <2>1. c # r /\ c \in Children(x)
    BY <1>7, <1>8 DEF Children
  <2>2. Committed(c) \/ Running(c)
    BY <1>6, <1>8 DEF Refs, Refers, Row
  <2>3. ~Running(c)
    BY <1>3, <1>8, <2>1 DEF KeyHeld
  <2> QED
    BY <1>3, <1>8, <2>1, <2>2, <2>3 DEF Orphans
<1>9. change \in Changes \ {"superseded"}
  BY DEF Changes
<1>10. MayMark(r, mine, change)
  BY <1>1, <1>2, <1>8, <1>9 DEF MayMark, Locked
<1>11. Effect(r)
  BY <1>2, <1>4, <1>10 DEF Effect
<1> QED
  BY <1>4, <1>5, <1>10, <1>11 DEF Fits, mine

\* The rows a statement is about are of its table.
LEMMA RowsOf ==
    ASSUME NEW r \in Request
    PROVE  /\ AlignmentsOf(r) \subseteq Of("realign") /\ FindingsOf(r) \subseteq Of("analyse")
           /\ ReviewsOf(r) \subseteq Of("review")
           /\ \A kind \in Kinds : Of(kind) \subseteq Row
BY DEF AlignmentsOf, FindingsOf, ReviewsOf, Below, Of, Row

\* Each DELETE of a realignment or an erasure.
LEMMA DeletesFit ==
    ASSUME Base, NEW r \in Request, NEW statement, NEW rows, NEW domain,
           NEW change \in {"delete", "detach"},
           Change(r, statement, rows, change),
           req[r].step # Last[Kind[r]], rows \subseteq domain, domain \subseteq Row,
           req[r].waits => req[r].seen \subseteq domain,
           Kind[r] = "erase" \/ (Kind[r] = "realign" /\ req[r].step \in 2 .. 4),
           Kind[r] = "realign" => /\ req[r].step = 2 => domain \subseteq Of("review")
                                  /\ req[r].step = 3 => domain \subseteq Of("analyse")
                                  /\ req[r].step = 4 => domain \subseteq Of("realign"),
           change = "delete" /\ Kind[r] = "realign" => req[r].step \in {3, 4},
           change = "detach" => Kind[r] = "realign" /\ req[r].step = 2
    PROVE  Fits(r)
<1>1. Running(r) /\ (Waits(r, rows) \/ Refuse(r) \/ Takes(r, rows, change))
  BY ChangeIs
<1>2. Kind[r] \in {"realign", "erase"}
  OBVIOUS
<1>3. CASE Waits(r, rows)
  BY <1>1, <1>2, <1>3, WaitsFits
<1>4. CASE Refuse(r)
  BY <1>1, <1>4, RefuseFits
<1>5. CASE Takes(r, rows, change)
  <2>1. change = "delete" /\ Kind[r] = "realign" => domain \subseteq Of("realign") \cup Of("analyse")
    OBVIOUS
  <2>2. change = "detach" => domain \subseteq Of("review")
    OBVIOUS
  <2> QED
    BY <1>1, <1>5, <2>1, <2>2, TakesFits
<1> QED
  BY <1>1, <1>3, <1>4, <1>5

LEMMA RealignDeletes ==
    ASSUME Base, NEW r \in Request, Kind[r] = "realign",
           DetachReviews(r) \/ DeleteFindings(r) \/ DeleteAlignments(r)
    PROVE  Fits(r)
<1>1. req[r].step \in Steps(r) /\ (Running(r) => Picked(r))
  BY DEF Base, TypeInv, ReqType, Picks
<1>2. CASE DetachReviews(r)
  <2>1. Change(r, "detachReviews", ReviewsOf(r), "detach")
    BY <1>2 DEF DetachReviews
  <2>2. req[r].step = 2 /\ Running(r)
    BY <1>1, <2>1, ChangeIs, Statements
  <2>3. req[r].step # Last[Kind[r]] /\ req[r].step \in 2 .. 4
    BY <2>2 DEF Last
  <2>4. ReviewsOf(r) \subseteq Of("review") /\ Of("review") \subseteq Row
    BY RowsOf DEF Kinds
  <2>5. req[r].waits => req[r].seen \subseteq Of("review")
    BY <1>1, <2>2 DEF Picked
  <2> QED
    BY <2>1, <2>2, <2>3, <2>4, <2>5, DeletesFit
<1>3. CASE DeleteFindings(r)
  <2>1. Change(r, "deleteFindings", FindingsOf(r), "delete")
    BY <1>3 DEF DeleteFindings
  <2>2. req[r].step = 3 /\ Running(r)
    BY <1>1, <2>1, ChangeIs, Statements
  <2>3. req[r].step # Last[Kind[r]] /\ req[r].step \in 2 .. 4
    BY <2>2 DEF Last
  <2>4. FindingsOf(r) \subseteq Of("analyse") /\ Of("analyse") \subseteq Row
    BY RowsOf DEF Kinds
  <2>5. req[r].waits => req[r].seen \subseteq Of("analyse")
    BY <1>1, <2>2 DEF Picked
  <2> QED
    BY <2>1, <2>2, <2>3, <2>4, <2>5, DeletesFit
<1>4. CASE DeleteAlignments(r)
  <2>1. Change(r, "deleteAlignments", AlignmentsOf(r), "delete")
    BY <1>4 DEF DeleteAlignments
  <2>2. req[r].step = 4 /\ Running(r)
    BY <1>1, <2>1, ChangeIs, Statements
  <2>3. req[r].step # Last[Kind[r]] /\ req[r].step \in 2 .. 4
    BY <2>2 DEF Last
  <2>4. AlignmentsOf(r) \subseteq Of("realign") /\ Of("realign") \subseteq Row
    BY RowsOf DEF Kinds
  <2>5. req[r].waits => req[r].seen \subseteq Of("realign")
    BY <1>1, <2>2 DEF Picked
  <2> QED
    BY <2>1, <2>2, <2>3, <2>4, <2>5, DeletesFit
<1> QED
  BY <1>2, <1>3, <1>4

LEMMA EraseDeletes ==
    ASSUME Base, NEW r \in Request, NEW statement, NEW rows \in SUBSET Row, Kind[r] = "erase",
           Change(r, statement, rows, "delete"), req[r].step # 7
    PROVE  Fits(r)
<1>1. req[r].waits => req[r].seen \subseteq Row
  BY DEF Base, TypeInv, ReqType, ReqRecord
<1>2. req[r].step # Last[Kind[r]]
  BY DEF Last
<1> QED
  BY <1>1, <1>2, DeletesFit

-----------------------------------------------------------------------------
\* Reads: the record of the request changes, the rows do not.
LEMMA ReadFits ==
    ASSUME Base, NEW r \in Request, Running(r), req[r].step # Last[Kind[r]], row' = row,
           NEW record \in ReqRecord, record.step = req[r].step + 1, record.end = "none",
           req' = [req EXCEPT ![r] = record]
    PROVE  ReqType' /\ GoesOn(r) /\ req'[r] = record /\ Effect(r)
<1>1. ReqType /\ req[r].step \in Nat
  BY DEF Base, TypeInv, ReqType, ReqRecord
<1>2. Step(r).step \in Steps(r) /\ Step(r).step = req[r].step + 1
  BY <1>1, StepType
<1>3. record.step \in Steps(r) /\ record.step >= req[r].step
  BY <1>1, <1>2
<1>4. ReqType' /\ GoesOn(r) /\ req'[r] = record
  BY <1>3, RecordFits
<1> QED
  BY <1>4 DEF Effect

LEMMA InsertFits ==
    ASSUME Base, NEW r \in Request, NEW statement, NEW parent \in Row \ {r},
           NEW sourced \in BOOLEAN, Insert(r, statement, parent, sourced),
           req[r].step # Last[Kind[r]], req[r].step = InsertStep[Kind[r]],
           \/ Kind[r] = "realign" /\ parent \in Session
           \/ Kind[r] = "analyse" /\ parent \in Of("realign") /\ Committed(parent)
           \/ Kind[r] = "review" /\ parent \in Of("analyse") /\ Committed(parent)
    PROVE  Fits(r)
<1>1. Running(r) /\ ~(Locked(r, parent) /\ Deleting(parent))
  BY DEF Insert, At
<1>2. CASE Refuse(r)
  BY <1>1, <1>2, RefuseFits
<1>3. CASE Present(parent) /\ Inserts(r, parent, sourced) /\ Go(r)
  <2>1. /\ ReqType' /\ GoesOn(r) /\ req'[r].step = req[r].step + 1
        /\ req'[r].sess = req[r].sess /\ req'[r].ref = req[r].ref
        /\ req'[r].decision = req[r].decision /\ req'[r].waits = FALSE
    BY <1>1, <1>3, GoFits
  <2>2. req[r].step >= 2 /\ ~(Kind[r] = "analyse" /\ req[r].step = 3)
    BY DEF InsertStep
  <2>3. Picked(r)'
    BY <1>1, <2>1, <2>2, StillPicked
  <2>4. req'[r].step > InsertStep[Kind[r]]
    <3>1. req[r].step \in Nat
      BY DEF Base, TypeInv, ReqType, ReqRecord
    <3> QED
      BY <2>1, <3>1
  <2>5. MayInsert(r, parent)
    BY <1>1, <1>3, <2>4 DEF MayInsert, Locked
  <2>6. Effect(r)
    <3>1. \E p : \E s \in BOOLEAN : MayInsert(r, p) /\ Inserts(r, p, s)
      BY <1>3, <2>5
    <3> QED
      BY <2>1, <3>1 DEF Effect
  <2> QED
    BY <2>1, <2>3, <2>6 DEF Fits
<1> QED
  BY <1>2, <1>3 DEF Insert, Inserts

LEMMA RealignFits ==
    ASSUME Base, NEW r \in Request, persistSessionAlignments(r)
    PROVE  Fits(r)
<1>0. ReqType /\ req[r].step \in Steps(r) /\ (Running(r) => Picked(r))
  BY DEF Base, TypeInv, ReqType, Picks
<1>1. CASE ReadSession(r)
  <2>1. Running(r) /\ Kind[r] = "realign" /\ req[r].step = 1 /\ req[r].step # Last[Kind[r]]
    BY <1>0, <1>1, Statements DEF ReadSession, At, Last
  <2>2. CASE Refuse(r)
    BY <2>1, <2>2, RefuseFits
  <2>3. ASSUME NEW s \in Session, row' = row,
               req' = [req EXCEPT ![r] = [Step(r) EXCEPT !.sess = s, !.before = CommittedOf("realign")]]
        PROVE  Fits(r)
    <3> DEFINE record == [Step(r) EXCEPT !.sess = s, !.before = CommittedOf("realign")]
    <3>0. /\ Step(r) \in ReqRecord /\ Step(r).step = req[r].step + 1
          /\ Step(r).end = req[r].end /\ Step(r).waits = FALSE
      BY <1>0, <2>1, StepType
    <3>1. Step(r) \in ReqRecord /\ Step(r).step = 2 /\ Step(r).end = "none" /\ Step(r).waits = FALSE
      BY <2>1, <3>0 DEF Running
    <3>2. CommittedOf("realign") \in SUBSET Request
      BY DEF CommittedOf, Of
    <3>3. record \in ReqRecord /\ record.step = 2 /\ record.end = "none" /\ record.waits = FALSE
          /\ record.sess = s
      BY <3>1, <3>2 DEF ReqRecord
    <3>4. req' = [req EXCEPT ![r] = record]
      BY <2>3
    <3> HIDE DEF record
    <3>9. record.step = req[r].step + 1
      BY <2>1, <3>3
    <3>5. ReqType' /\ GoesOn(r) /\ req'[r] = record /\ Effect(r)
      BY <2>1, <2>3, <3>3, <3>4, <3>9, ReadFits
    <3>6. Picked(r)'
      BY <2>1, <3>3, <3>5 DEF Picked
    <3> QED
      BY <3>5, <3>6 DEF Fits
  <2> QED
    BY <1>1, <2>2, <2>3 DEF ReadSession
<1>2. CASE DetachReviews(r)
  <2>1. Kind[r] = "realign"
    BY <1>0, <1>2, ChangeIs, Statements DEF DetachReviews
  <2> QED
    BY <1>2, <2>1, RealignDeletes
<1>3. CASE InsertAlignments(r)
  <2>1. At(r, "insertAlignments")
    BY <1>3 DEF InsertAlignments, Insert
  <2>2. /\ Running(r) /\ Kind[r] = "realign" /\ req[r].step = 5 /\ req[r].step # Last[Kind[r]]
        /\ req[r].step = InsertStep[Kind[r]] /\ req[r].sess \in Session
    BY <1>0, <2>1, Statements DEF At, Last, InsertStep, Picked
  <2>3. CASE Insert(r, "insertAlignments", req[r].sess, FALSE)
    <3>1. req[r].sess \in Row \ {r}
      BY <2>2, NamesDiffer DEF Row
    <3> QED
      BY <2>2, <2>3, <3>1, InsertFits
  <2>4. CASE Go(r) /\ row' = row
    <3>1. /\ ReqType' /\ GoesOn(r) /\ req'[r].step = req[r].step + 1
          /\ req'[r].sess = req[r].sess /\ req'[r].ref = req[r].ref
          /\ req'[r].decision = req[r].decision /\ req'[r].waits = FALSE
      BY <2>2, <2>4, GoFits
    <3>2. req[r].step >= 2 /\ ~(Kind[r] = "analyse" /\ req[r].step = 3)
      BY <2>2
    <3>3. Picked(r)'
      BY <2>2, <3>1, <3>2, StillPicked
    <3> QED
      BY <2>4, <3>1, <3>3 DEF Fits, Effect
  <2> QED
    BY <1>3, <2>3, <2>4 DEF InsertAlignments
<1> QED
  BY <1>1, <1>2, <1>3 DEF persistSessionAlignments

LEMMA AnalyseFits ==
    ASSUME Base, NEW r \in Request, proxyMl(r) \/ persistTajweedFindings(r)
    PROVE  Fits(r)
<1>0. ReqType /\ req[r].step \in Steps(r) /\ (Running(r) => Picked(r))
  BY DEF Base, TypeInv, ReqType, Picks
<1>1. CASE proxyMl(r)
  <2>1. Running(r) /\ Kind[r] = "analyse" /\ req[r].step = 1 /\ req[r].step # Last[Kind[r]]
    BY <1>0, <1>1, Statements DEF proxyMl, At, Last
  <2>2. CASE Refuse(r)
    BY <2>1, <2>2, RefuseFits
  <2>3. CASE Answer(r)
    BY <2>1, <2>3, AnswerFits
  <2>4. ASSUME NEW s \in Session, row' = row, req' = [req EXCEPT ![r] = [Step(r) EXCEPT !.sess = s]]
        PROVE  Fits(r)
    <3> DEFINE record == [Step(r) EXCEPT !.sess = s]
    <3>0. /\ Step(r) \in ReqRecord /\ Step(r).step = req[r].step + 1
          /\ Step(r).end = req[r].end /\ Step(r).waits = FALSE
      BY <1>0, <2>1, StepType
    <3>1. Step(r) \in ReqRecord /\ Step(r).step = 2 /\ Step(r).end = "none" /\ Step(r).waits = FALSE
      BY <2>1, <3>0 DEF Running
    <3>2. record \in ReqRecord /\ record.step = 2 /\ record.end = "none" /\ record.waits = FALSE
          /\ record.sess = s
      BY <3>1 DEF ReqRecord
    <3>3. req' = [req EXCEPT ![r] = record]
      BY <2>4
    <3> HIDE DEF record
    <3>9. record.step = req[r].step + 1
      BY <2>1, <3>2
    <3>4. ReqType' /\ GoesOn(r) /\ req'[r] = record /\ Effect(r)
      BY <2>1, <2>4, <3>2, <3>3, <3>9, ReadFits
    <3>5. Picked(r)'
      BY <2>1, <3>2, <3>4 DEF Picked
    <3> QED
      BY <3>4, <3>5 DEF Fits
  <2> QED
    BY <1>1, <2>2, <2>3, <2>4 DEF proxyMl
<1>2. CASE ReadExisting(r)
  <2>1. Running(r) /\ Kind[r] = "analyse" /\ req[r].step = 2 /\ req[r].step # Last[Kind[r]]
        /\ req[r].sess \in Session
    BY <1>0, <1>2, Statements DEF ReadExisting, At, Last, Picked
  <2>2. CASE Answer(r)
    BY <2>1, <2>2, AnswerFits
  <2>3. CASE row' = row /\ req' = [req EXCEPT ![r] = [Step(r) EXCEPT !.before = CommittedOf("analyse")]]
    <3> DEFINE record == [Step(r) EXCEPT !.before = CommittedOf("analyse")]
    <3>0. /\ Step(r) \in ReqRecord /\ Step(r).step = req[r].step + 1
          /\ Step(r).end = req[r].end /\ Step(r).waits = FALSE /\ Step(r).sess = req[r].sess
      BY <1>0, <2>1, StepType
    <3>1. Step(r) \in ReqRecord /\ Step(r).step = 3 /\ Step(r).end = "none" /\ Step(r).waits = FALSE
          /\ Step(r).sess = req[r].sess
      BY <2>1, <3>0 DEF Running
    <3>2. CommittedOf("analyse") \in SUBSET Request
      BY DEF CommittedOf, Of
    <3>3. record \in ReqRecord /\ record.step = 3 /\ record.end = "none" /\ record.waits = FALSE
          /\ record.sess = req[r].sess
      BY <3>1, <3>2 DEF ReqRecord
    <3>4. req' = [req EXCEPT ![r] = record]
      BY <2>3
    <3> HIDE DEF record
    <3>9. record.step = req[r].step + 1
      BY <2>1, <3>3
    <3>5. ReqType' /\ GoesOn(r) /\ req'[r] = record /\ Effect(r)
      BY <2>1, <2>3, <3>3, <3>4, <3>9, ReadFits
    <3>6. Picked(r)'
      BY <2>1, <3>3, <3>5 DEF Picked
    <3> QED
      BY <3>5, <3>6 DEF Fits
  <2> QED
    BY <1>2, <2>2, <2>3 DEF ReadExisting
<1>3. CASE ReadAlignments(r)
  <2>1. Running(r) /\ Kind[r] = "analyse" /\ req[r].step = 3 /\ req[r].step # Last[Kind[r]]
        /\ req[r].sess \in Session
    BY <1>0, <1>3, Statements DEF ReadAlignments, At, Last, Picked
  <2>2. CASE Answer(r)
    BY <2>1, <2>2, AnswerFits
  <2>3. ASSUME NEW a \in AlignmentsOf(r), row' = row,
               req' = [req EXCEPT ![r] = [Step(r) EXCEPT !.ref = a]]
        PROVE  Fits(r)
    <3> DEFINE record == [Step(r) EXCEPT !.ref = a]
    <3>0. /\ Step(r) \in ReqRecord /\ Step(r).step = req[r].step + 1
          /\ Step(r).end = req[r].end /\ Step(r).waits = FALSE /\ Step(r).sess = req[r].sess
      BY <1>0, <2>1, StepType
    <3>1. Step(r) \in ReqRecord /\ Step(r).step = 4 /\ Step(r).end = "none" /\ Step(r).waits = FALSE
          /\ Step(r).sess = req[r].sess
      BY <2>1, <3>0 DEF Running
    <3>2. a \in Of("realign") /\ a \in Request /\ Committed(a)
      BY <2>1 DEF AlignmentsOf, Below, Of, Visible
    <3>3. record \in ReqRecord /\ record.step = 4 /\ record.end = "none" /\ record.waits = FALSE
          /\ record.sess = req[r].sess /\ record.ref = a
      BY <3>1, <3>2 DEF ReqRecord
    <3>4. req' = [req EXCEPT ![r] = record]
      BY <2>3
    <3> HIDE DEF record
    <3>9. record.step = req[r].step + 1
      BY <2>1, <3>3
    <3>5. ReqType' /\ GoesOn(r) /\ req'[r] = record /\ Effect(r)
      BY <2>1, <2>3, <3>3, <3>4, <3>9, ReadFits
    <3>6. Committed(a)' /\ a \in Of("realign")
      BY <2>1, <3>2, <3>5 DEF GoesOn, Committed, Of
    <3>7. Picked(r)'
      BY <2>1, <3>3, <3>5, <3>6 DEF Picked, Of, Committed
    <3> QED
      BY <3>5, <3>7 DEF Fits
  <2> QED
    BY <1>3, <2>2, <2>3 DEF ReadAlignments
<1>4. ASSUME NEW sourced \in BOOLEAN, Insert(r, "insertFindings", req[r].ref, sourced)
      PROVE  Fits(r)
  <2>1. /\ Running(r) /\ Kind[r] = "analyse" /\ req[r].step = 4 /\ req[r].step # Last[Kind[r]]
        /\ req[r].step = InsertStep[Kind[r]]
        /\ req[r].ref \in Of("realign") /\ Committed(req[r].ref)
    BY <1>0, <1>4, Statements DEF Insert, At, Last, InsertStep, Picked
  <2>2. req[r].ref \in Row \ {r}
    BY <2>1 DEF Row, Of
  <2> QED
    BY <1>4, <2>1, <2>2, InsertFits
<1> QED
  BY <1>1, <1>2, <1>3, <1>4 DEF persistTajweedFindings

\* UPDATE of one status, or of no row.
LEMMA StatusFits ==
    ASSUME Base, NEW r \in Request, NEW statement, NEW x \in Row, NEW status,
           SetStatus(r, statement, x, status), status \in Statuses \ {"superseded"},
           req[r].step # Last[Kind[r]], req[r].step >= 2,
           Kind[r] = "review" \/ (Kind[r] = "send" /\ req[r].step = 2)
    PROVE  Fits(r)
<1>1. Running(r) /\ Go(r) /\ ~Locked(r, x)
  BY DEF SetStatus, At, ForNoKeyUpdate
<1>2. /\ ReqType' /\ GoesOn(r) /\ req'[r].step = req[r].step + 1
      /\ req'[r].sess = req[r].sess /\ req'[r].ref = req[r].ref
      /\ req'[r].decision = req[r].decision /\ req'[r].waits = FALSE
  BY <1>1, GoFits
<1>3. Picked(r)'
  BY <1>1, <1>2, StillPicked
<1>4. RowType
  BY DEF Base, TypeInv
<1>5. CASE ~Present(x)
  <2>1. row' = row
    BY <1>5 DEF SetStatus
  <2> QED
    BY <1>2, <1>3, <2>1 DEF Fits, Effect
<1>6. CASE Present(x)
  <2>1. row' = [row EXCEPT ![x].lock = r, ![x].change = status]
    BY <1>6 DEF SetStatus
  <2>2. row' = [row EXCEPT ![x] = [row[x] EXCEPT !.lock = r, !.change = status]]
    BY <1>4, <2>1 DEF RowType, RowRecord
  <2>3. Marks(r, {x}, status)
    BY <1>4, <2>2 DEF Marks, RowType
  <2>4. Kind[r] = "send" => req'[r].step = 3
    BY <1>2
  <2>5. status \in Changes \ {"superseded"} /\ status \notin {"delete", "detach"}
    BY DEF Changes, Statuses
  <2>6. MayMark(r, {x}, status)
    BY <1>1, <1>6, <2>4, <2>5 DEF MayMark, Locked
  <2> QED
    BY <1>2, <1>3, <2>3, <2>6 DEF Fits, Effect
<1> QED
  BY <1>5, <1>6

LEMMA ReviewFits ==
    ASSUME Base, NEW r \in Request, createTeacherReview(r)
    PROVE  Fits(r)
<1>0. ReqType /\ req[r].step \in Steps(r) /\ (Running(r) => Picked(r))
  BY DEF Base, TypeInv, ReqType, Picks
<1>1. CASE ReadFinding(r)
  <2>1. Running(r) /\ Kind[r] = "review" /\ req[r].step = 1 /\ req[r].step # Last[Kind[r]]
    BY <1>0, <1>1, Statements DEF ReadFinding, At, Last
  <2>2. CASE Refuse(r)
    BY <2>1, <2>2, RefuseFits
  <2>3. ASSUME NEW f \in Of("analyse"), NEW decision \in DOMAIN Promoted, Visible(r, f), row' = row,
               req' = [req EXCEPT ![r] = [Step(r) EXCEPT !.ref = f, !.decision = decision]]
        PROVE  Fits(r)
    <3> DEFINE record == [Step(r) EXCEPT !.ref = f, !.decision = decision]
               Decisions == DOMAIN Promoted
    <3>0. /\ Step(r) \in ReqRecord /\ Step(r).step = req[r].step + 1
          /\ Step(r).end = req[r].end /\ Step(r).waits = FALSE
      BY <1>0, <2>1, StepType
    <3>1. Step(r) \in ReqRecord /\ Step(r).step = 2 /\ Step(r).end = "none" /\ Step(r).waits = FALSE
      BY <2>1, <3>0 DEF Running
    <3>2. f \in Of("analyse") /\ f \in Request /\ Committed(f) /\ decision \in Decisions
      BY <2>1, <2>3 DEF Of, Visible
    <3> HIDE DEF Decisions
    <3>3. ReqRecord = [step : 1..7, end : {"none", "committed", "over"}, sess : Session \cup {None},
                       ref : Request \cup {None}, decision : Decisions \cup {"none"},
                       waits : BOOLEAN, seen : SUBSET Row, before : SUBSET Request,
                       receipt : SUBSET Row]
      BY DEF ReqRecord, Decisions
    <3>4. record \in ReqRecord /\ record.step = 2 /\ record.end = "none" /\ record.waits = FALSE
          /\ record.ref = f /\ record.decision = decision
      BY <3>1, <3>2, <3>3
    <3>5. req' = [req EXCEPT ![r] = record]
      BY <2>3
    <3> HIDE DEF record
    <3>6. record.step = req[r].step + 1
      BY <2>1, <3>4
    <3>7. ReqType' /\ GoesOn(r) /\ req'[r] = record /\ Effect(r)
      BY <2>1, <2>3, <3>4, <3>5, <3>6, ReadFits
    <3>8. req'[f].end = "committed" /\ f \in Of("analyse")
      BY <2>1, <3>2, <3>7 DEF GoesOn, Committed, Of
    <3>9. Picked(r)'
      BY <2>1, <3>2, <3>4, <3>7, <3>8 DEF Picked, Of, Committed, Decisions
    <3> QED
      BY <3>7, <3>9 DEF Fits
  <2> QED
    BY <1>1, <2>2, <2>3 DEF ReadFinding
<1>2. CASE Insert(r, "insertReview", req[r].ref, FALSE)
  <2>1. /\ Running(r) /\ Kind[r] = "review" /\ req[r].step = 2 /\ req[r].step # Last[Kind[r]]
        /\ req[r].step = InsertStep[Kind[r]]
        /\ req[r].ref \in Of("analyse") /\ Committed(req[r].ref)
    BY <1>0, <1>2, Statements DEF Insert, At, Last, InsertStep, Picked
  <2>2. req[r].ref \in Row \ {r}
    BY <2>1 DEF Row, Of
  <2> QED
    BY <1>2, <2>1, <2>2, InsertFits
<1>3. CASE Promote(r)
  <2>1. At(r, "promote")
    BY <1>3 DEF Promote
  <2>2. /\ Running(r) /\ Kind[r] = "review" /\ req[r].step = 3 /\ req[r].step # Last[Kind[r]]
        /\ req[r].ref \in Of("analyse") /\ req[r].decision \in DOMAIN Promoted
    BY <1>0, <2>1, Statements DEF At, Last, Picked
  <2>3. req[r].ref \in Row /\ req[r].step >= 2 /\ ~(Kind[r] = "analyse" /\ req[r].step = 3)
    BY <2>2 DEF Row, Of
  <2>4. CASE Go(r) /\ row' = row
    <3>1. /\ ReqType' /\ GoesOn(r) /\ req'[r].step = req[r].step + 1
          /\ req'[r].sess = req[r].sess /\ req'[r].ref = req[r].ref
          /\ req'[r].decision = req[r].decision /\ req'[r].waits = FALSE
      BY <2>2, <2>4, GoFits
    <3>2. Picked(r)'
      BY <2>2, <2>3, <3>1, StillPicked
    <3> QED
      BY <2>4, <3>1, <3>2 DEF Fits, Effect
  <2>5. ASSUME NEW status, status = Promoted[req[r].decision], status # "none",
               SetStatus(r, "promote", req[r].ref, status)
        PROVE  Fits(r)
    <3>1. status \in Statuses \ {"superseded"}
      BY <2>2, <2>5 DEF Promoted, Statuses
    <3> QED
      BY <2>2, <2>3, <2>5, <3>1, StatusFits
  <2> QED
    BY <1>3, <2>4, <2>5 DEF Promote
<1> QED
  BY <1>1, <1>2, <1>3 DEF createTeacherReview

LEMMA SendFits ==
    ASSUME Base, NEW r \in Request, requestTeacherReview(r)
    PROVE  Fits(r)
<1>0. ReqType /\ req[r].step \in Steps(r) /\ (Running(r) => Picked(r))
  BY DEF Base, TypeInv, ReqType, Picks
<1>1. CASE At(r, "readStatus") /\ Refuse(r)
  BY <1>1, RefuseFits DEF At
<1>2. CASE At(r, "readStatus") /\ Answer(r)
  <2>1. Running(r) /\ Kind[r] = "send" /\ req[r].step = 1
    BY <1>0, <1>2, Statements DEF At
  <2> QED
    BY <1>2, <2>1, AnswerFits
<1>3. ASSUME At(r, "readStatus"), NEW s \in Session, row' = row,
             req' = [req EXCEPT ![r] = [Step(r) EXCEPT !.sess = s]]
      PROVE  Fits(r)
  <2> DEFINE record == [Step(r) EXCEPT !.sess = s]
  <2>1. Running(r) /\ Kind[r] = "send" /\ req[r].step = 1 /\ req[r].step # Last[Kind[r]]
    BY <1>0, <1>3, Statements DEF At, Last
  <2>2. /\ Step(r) \in ReqRecord /\ Step(r).step = req[r].step + 1
        /\ Step(r).end = req[r].end /\ Step(r).waits = FALSE
    BY <1>0, <2>1, StepType
  <2>3. Step(r) \in ReqRecord /\ Step(r).step = 2 /\ Step(r).end = "none" /\ Step(r).waits = FALSE
    BY <2>1, <2>2 DEF Running
  <2>4. record \in ReqRecord /\ record.step = 2 /\ record.end = "none" /\ record.waits = FALSE
        /\ record.sess = s
    BY <2>3 DEF ReqRecord
  <2>5. req' = [req EXCEPT ![r] = record]
    BY <1>3
  <2> HIDE DEF record
  <2>6. record.step = req[r].step + 1
    BY <2>1, <2>4
  <2>7. ReqType' /\ GoesOn(r) /\ req'[r] = record /\ Effect(r)
    BY <1>3, <2>1, <2>4, <2>5, <2>6, ReadFits
  <2>8. Picked(r)'
    BY <2>1, <2>4, <2>7 DEF Picked
  <2> QED
    BY <2>7, <2>8 DEF Fits
<1>4. CASE SetStatus(r, "markSent", req[r].sess, "teacher-review-required")
  <2>1. At(r, "markSent")
    BY <1>4 DEF SetStatus
  <2>2. /\ Running(r) /\ Kind[r] = "send" /\ req[r].step = 2 /\ req[r].step # Last[Kind[r]]
        /\ req[r].sess \in Session
    BY <1>0, <2>1, Statements DEF At, Last, Picked
  <2>3. req[r].sess \in Row /\ req[r].step >= 2
    BY <2>2 DEF Row
  <2>4. "teacher-review-required" \in Statuses \ {"superseded"}
    BY DEF Statuses
  <2> QED
    BY <1>4, <2>2, <2>3, <2>4, StatusFits
<1> QED
  BY <1>1, <1>2, <1>3, <1>4 DEF requestTeacherReview

\* The rows an erasure is to name: what it sees of the learner's records.
Records(r) == Scope(r) \cup AlignmentsOf(r) \cup FindingsOf(r)

LEMMA RecordsAreRows ==
    ASSUME NEW r \in Request, Kind[r] = "erase"
    PROVE  Records(r) \subseteq Row /\ Scope(r) \subseteq Row
<1>1. Scope(r) \subseteq Session
  BY DEF Scope
<1> QED
  BY <1>1, RowsOf DEF Records, Row, Of

LEMMA ReadRecordsFits ==
    ASSUME Base, NEW r \in Request, At(r, "readRecords"), row' = row,
           req' = [req EXCEPT ![r] = [Step(r) EXCEPT !.receipt = Records(r)]]
    PROVE  /\ Fits(r) /\ GoesOn(r) /\ Kind[r] = "erase" /\ req[r].step = 2
           /\ req'[r].step = 3 /\ req'[r].receipt = Records(r) /\ req'[r].waits = FALSE
<1> DEFINE record == [Step(r) EXCEPT !.receipt = Records(r)]
<1>0. ReqType /\ req[r].step \in Steps(r)
  BY DEF Base, TypeInv, ReqType
<1>1. Running(r) /\ Kind[r] = "erase" /\ req[r].step = 2 /\ req[r].step # Last[Kind[r]]
  BY <1>0, Statements DEF At, Last
<1>2. /\ Step(r) \in ReqRecord /\ Step(r).step = req[r].step + 1
      /\ Step(r).end = req[r].end /\ Step(r).waits = FALSE
  BY <1>0, <1>1, StepType
<1>3. Step(r) \in ReqRecord /\ Step(r).step = 3 /\ Step(r).end = "none" /\ Step(r).waits = FALSE
  BY <1>1, <1>2 DEF Running
<1>4. Records(r) \in SUBSET Row
  BY <1>1, RecordsAreRows
<1>5. record \in ReqRecord /\ record.step = 3 /\ record.end = "none" /\ record.waits = FALSE
      /\ record.receipt = Records(r)
  BY <1>3, <1>4 DEF ReqRecord
<1>6. req' = [req EXCEPT ![r] = record]
  OBVIOUS
<1> HIDE DEF record
<1>7. record.step = req[r].step + 1
  BY <1>1, <1>5
<1>8. ReqType' /\ GoesOn(r) /\ req'[r] = record /\ Effect(r)
  BY <1>1, <1>5, <1>6, <1>7, ReadFits
<1>9. Picked(r)'
  BY <1>1, <1>5, <1>8 DEF Picked
<1> QED
  BY <1>1, <1>5, <1>8, <1>9 DEF Fits

LEMMA EraseFits ==
    ASSUME Base, NEW r \in Request, createPrivacyJob(r)
    PROVE  Fits(r)
<1>0. ReqType /\ req[r].step \in Steps(r)
  BY DEF Base, TypeInv, ReqType
<1>1. CASE eraseMlAudio(r)
  <2>1. /\ Running(r) /\ Kind[r] = "erase" /\ req[r].step = 1 /\ req[r].step # Last[Kind[r]]
    BY <1>0, <1>1, Statements DEF eraseMlAudio, At, Last
  <2>2. CASE Refuse(r)
    BY <2>1, <2>2, RefuseFits
  <2>3. CASE Go(r) /\ row' = row
    <3>1. /\ ReqType' /\ GoesOn(r) /\ req'[r].step = req[r].step + 1
          /\ req'[r].sess = req[r].sess /\ req'[r].ref = req[r].ref
          /\ req'[r].decision = req[r].decision /\ req'[r].waits = FALSE
      BY <2>1, <2>3, GoFits
    <3>2. ~(Kind[r] = "analyse" /\ req[r].step = 3) /\ Kind[r] = "erase"
      BY <2>1
    <3>3. Picked(r)'
      BY <2>1, <3>1, <3>2, StillPicked
    <3> QED
      BY <2>3, <3>1, <3>3 DEF Fits, Effect
  <2> QED
    BY <1>1, <2>2, <2>3 DEF eraseMlAudio
<1>2. CASE /\ At(r, "readRecords") /\ UNCHANGED row
           /\ req' = [req EXCEPT ![r] = [Step(r) EXCEPT
                        !.receipt = Scope(r) \cup AlignmentsOf(r) \cup FindingsOf(r)]]
  BY <1>2, ReadRecordsFits DEF Records
<1>3. CASE Change(r, "deleteReviews", ReviewsOf(r), "delete")
  <2>1. Kind[r] = "erase" /\ req[r].step = 3 /\ req[r].step # 7
    BY <1>0, <1>3, ChangeIs, Statements
  <2>2. ReviewsOf(r) \in SUBSET Row
    BY RowsOf DEF Kinds
  <2> QED
    BY <1>3, <2>1, <2>2, EraseDeletes
<1>4. CASE Change(r, "deleteSessions", Scope(r), "delete")
  <2>1. Kind[r] = "erase" /\ req[r].step = 6 /\ req[r].step # 7
    BY <1>0, <1>4, ChangeIs, Statements
  <2>2. Scope(r) \in SUBSET Row
    BY <2>1, RecordsAreRows
  <2> QED
    BY <1>4, <2>1, <2>2, EraseDeletes
<1> QED
  BY <1>1, <1>2, <1>3, <1>4 DEF createPrivacyJob

LEMMA DeleteFits ==
    ASSUME Base, NEW r \in Request, DeleteFindings(r) \/ DeleteAlignments(r)
    PROVE  Fits(r)
<1>0. ReqType /\ req[r].step \in Steps(r)
  BY DEF Base, TypeInv, ReqType
<1>1. CASE Kind[r] = "realign"
  BY <1>1, RealignDeletes
<1>2. FindingsOf(r) \in SUBSET Row /\ AlignmentsOf(r) \in SUBSET Row
  BY RowsOf DEF Kinds
<1>3. CASE Kind[r] = "erase" /\ DeleteFindings(r)
  <2>1. Change(r, "deleteFindings", FindingsOf(r), "delete")
    BY <1>3 DEF DeleteFindings
  <2>2. req[r].step # 7
    BY <1>0, <1>3, <2>1, ChangeIs, Statements
  <2> QED
    BY <1>2, <1>3, <2>1, <2>2, EraseDeletes
<1>4. CASE Kind[r] = "erase" /\ DeleteAlignments(r)
  <2>1. Change(r, "deleteAlignments", AlignmentsOf(r), "delete")
    BY <1>4 DEF DeleteAlignments
  <2>2. req[r].step # 7
    BY <1>0, <1>4, <2>1, ChangeIs, Statements
  <2> QED
    BY <1>2, <1>4, <2>1, <2>2, EraseDeletes
<1>5. Kind[r] = "realign" \/ Kind[r] = "erase"
  BY <1>0, ChangeIs, Statements DEF DeleteFindings, DeleteAlignments
<1> QED
  BY <1>1, <1>3, <1>4, <1>5

LEMMA CommitFits ==
    ASSUME Base, NEW r \in Request, Commit(r)
    PROVE  /\ Fits(r) /\ Commits(r) /\ Settles(r) /\ req[r].step = Last[Kind[r]]
           /\ req'[r].receipt = req[r].receipt /\ req'[r].before = req[r].before
<1> DEFINE record == [req[r] EXCEPT !.step = 1, !.end = "committed", !.sess = None, !.ref = None]
<1>0. ReqType /\ req[r].step \in Steps(r) /\ req[r] \in ReqRecord
  BY DEF Base, TypeInv, ReqType
<1>1. Running(r) /\ req[r].step = Last[Kind[r]]
  BY <1>0, Statements DEF Commit, At
<1>2. record \in ReqRecord /\ record.step = 1 /\ record.end = "committed"
      /\ record.receipt = req[r].receipt /\ record.before = req[r].before
  <2> DEFINE Decisions == DOMAIN Promoted \cup {"none"}
  <2>1. ReqRecord = [step : 1..7, end : {"none", "committed", "over"}, sess : Session \cup {None},
                     ref : Request \cup {None}, decision : Decisions, waits : BOOLEAN,
                     seen : SUBSET Row, before : SUBSET Request, receipt : SUBSET Row]
    BY DEF ReqRecord
  <2> HIDE DEF Decisions
  <2>2. \A q \in ReqRecord : \A n \in 1 .. 7 :
          LET over == [q EXCEPT !.step = n, !.end = "committed", !.sess = None, !.ref = None]
          IN  over \in ReqRecord /\ over.step = n /\ over.end = "committed"
              /\ over.receipt = q.receipt /\ over.before = q.before
    BY <2>1
  <2>3. 1 \in 1 .. 7
    OBVIOUS
  <2> QED
    BY <1>0, <2>2, <2>3
<1>3. req' = [req EXCEPT ![r] = record] /\ Settles(r) /\ 1 \in Steps(r)
  BY FirstStep DEF Commit, Settles
<1> HIDE DEF record
<1>4. ReqType' /\ req'[r] = record /\ \A q \in Request \ {r} : req'[q] = req[q]
  BY <1>0, <1>2, <1>3, OneRequest
<1>5. Commits(r) /\ ~Running(r)'
  BY <1>1, <1>2, <1>4 DEF Commits, Running
<1> QED
  BY <1>1, <1>2, <1>3, <1>4, <1>5 DEF Fits, Effect

\* Whatever a request does fits.
LEMMA HandleFits ==
    ASSUME Base, NEW r \in Request, Handle(r) \/ Fail(r)
    PROVE  Fits(r)
BY RealignFits, AnalyseFits, ReviewFits, SendFits, EraseFits, DeleteFits, CommitFits, RefuseFits
   DEF Handle, Fail

-----------------------------------------------------------------------------
(* The base is invariant.                                                    *)

LEMMA CreateKeeps ==
    ASSUME Base, NEW s \in Session, CreateSession(s)
    PROVE  Base' /\ Creates(s) /\ req' = req /\ row[s] = NoRow
<1>1. Creates(s) /\ req' = req /\ row[s] = NoRow
  BY DEF CreateSession, Creates
<1>2. Tables' /\ RowType'
  BY <1>1, CreatedTables, OfCreates DEF Base, TypeInv
<1>3. ReqType' /\ Picks'
  BY <1>1 DEF Base, TypeInv, ReqType, Picks, Picked, Running, Committed
<1> QED
  BY <1>1, <1>2, <1>3 DEF Base, TypeInv

LEMMA InitBase == Init => Base
<1> SUFFICES ASSUME Init PROVE Base
  OBVIOUS
<1>1. \A x \in Row : row[x] = NoRow
  BY DEF Init
<1>2. RowType
  BY NoRowType DEF Init, RowType
<1>3. \A r \in Request : req[r] \in ReqRecord /\ req[r].step = 1
  BY NoRequestType DEF Init
<1>4. ReqType
  <2>1. req \in [Request -> ReqRecord]
    BY <1>3 DEF Init
  <2> QED
    BY <1>3, <2>1, FirstStep DEF ReqType
<1>5. \A x \in Row : ~Present(x)
  BY <1>1 DEF Present, NoRow
<1>6. Refs /\ Family
  BY <1>5 DEF Refs, Family, Together, Row
<1>7. Locks
  BY <1>1 DEF Locks, LockOf, NoRow
<1>8. \A r \in Request : req[r].waits = FALSE
  BY DEF Init, NoRequest
<1>9. Picks
  BY <1>3, <1>8 DEF Picks, Picked
<1> QED
  BY <1>2, <1>4, <1>6, <1>7, <1>9 DEF Base, TypeInv, Tables

LEMMA SameBase == Base /\ UNCHANGED vars => Base'
BY DEF Base, TypeInv, RowType, ReqType, Tables, Refs, Refers, Locks, LockOf, Holds, Family,
       Together, Present, Deleting, Picks, Picked, Running, Committed, vars

LEMMA StepBase == Base /\ [Next]_vars => Base'
<1> SUFFICES ASSUME Base, [Next]_vars PROVE Base'
  OBVIOUS
<1>1. ASSUME NEW s \in Session, CreateSession(s) PROVE Base'
  BY <1>1, CreateKeeps
<1>2. ASSUME NEW r \in Request, Handle(r) \/ Fail(r) PROVE Base'
  BY <1>2, HandleFits, FitsBase
<1> QED
  BY <1>1, <1>2, SameBase DEF Next

LEMMA AlwaysBase == Spec => []Base
BY InitBase, StepBase, PTL DEF Spec

\* Whatever requests do together, the tables and the requests keep their types: no
\* statement meets a row, a lock or a status it has no name for.
THEOREM TypeCorrect == Spec => []TypeOK
<1>1. Base => TypeOK
  BY TypeImplies DEF Base
<1> QED
  BY <1>1, AlwaysBase, PTL

-----------------------------------------------------------------------------
(* What a request runs, by its kind.                                         *)

LEMMA HandleOf ==
    ASSUME Base, NEW r \in Request, Handle(r)
    PROVE  /\ Kind[r] = "realign" =>
                persistSessionAlignments(r) \/ DeleteFindings(r) \/ DeleteAlignments(r) \/ Commit(r)
           /\ Kind[r] = "analyse" => proxyMl(r) \/ persistTajweedFindings(r) \/ Commit(r)
           /\ Kind[r] = "review" => createTeacherReview(r) \/ Commit(r)
           /\ Kind[r] = "send" => requestTeacherReview(r) \/ Commit(r)
           /\ Kind[r] = "erase" =>
                createPrivacyJob(r) \/ DeleteFindings(r) \/ DeleteAlignments(r) \/ Commit(r)
<1>0. req[r].step \in Steps(r)
  BY DEF Base, TypeInv, ReqType
<1>1. persistSessionAlignments(r) => Kind[r] = "realign"
  BY <1>0, Statements, ChangeIs
     DEF persistSessionAlignments, ReadSession, DetachReviews, InsertAlignments, Insert
<1>2. proxyMl(r) \/ persistTajweedFindings(r) => Kind[r] = "analyse"
  BY <1>0, Statements
     DEF proxyMl, persistTajweedFindings, ReadExisting, ReadAlignments, Insert
<1>3. createTeacherReview(r) => Kind[r] = "review"
  BY <1>0, Statements DEF createTeacherReview, ReadFinding, Insert, Promote
<1>4. requestTeacherReview(r) => Kind[r] = "send"
  BY <1>0, Statements DEF requestTeacherReview, SetStatus
<1>5. createPrivacyJob(r) => Kind[r] = "erase"
  BY <1>0, Statements, ChangeIs DEF createPrivacyJob, eraseMlAudio
<1>6. DeleteFindings(r) \/ DeleteAlignments(r) => Kind[r] \in {"realign", "erase"}
  BY <1>0, Statements, ChangeIs DEF DeleteFindings, DeleteAlignments
<1> QED
  BY <1>1, <1>2, <1>3, <1>4, <1>5, <1>6 DEF Handle

-----------------------------------------------------------------------------
(* Reviews survive.  Until an erasure commits, a review that is inserted is   *)
(* there: only an erasure deletes one.                                        *)

NoErasure == \A e \in Of("erase") : ~Committed(e)
Written(v) == Committed(v) \/ (Running(v) /\ req[v].step >= 3)
Kept(v) == Kind[v] = "review" /\ Written(v) => Present(v)
Reviews == NoErasure => \A v \in Request : Kept(v)

\* A review that is there stays, whatever a request does short of erasing, if it
\* is not the review's own that ends.
LEMMA ReviewStays ==
    ASSUME Base, NEW r \in Request, Fits(r), NoErasure', NEW v \in Of("review"), Present(v),
           v = r => ~Stops(r)
    PROVE  Present(v)'
<1>1. RowType /\ Refs /\ Locks /\ v \in Row /\ v \in Request /\ r \in Row
  BY DEF Base, TypeInv, Tables, Of, Row
<1>2. Effect(r) /\ None \notin Row
  BY NamesDiffer DEF Fits
<1>3. CASE Stops(r) /\ Undoes(r)
  BY <1>1, <1>3, OfUndoes DEF Present
<1>4. CASE row' = row
  BY <1>4 DEF Present
<1>5. CASE Commits(r) /\ Settles(r)
  <2>1. row[v].lock = r => Holds(v, r)
    BY <1>1, NamesDiffer DEF Locks, LockOf
  <2>2. Kind[v] = "review"
    BY DEF Of
  <2>3. row[v].lock = r /\ row[v].change = "delete" => Kind[r] = "erase"
    BY <2>1, <2>2 DEF Holds, Of
  <2>4. Kind[r] # "erase"
    BY <1>5 DEF NoErasure, Commits, Committed, Of
  <2>5. CASE row[v].lock # r
    BY <1>1, <1>5, <2>5, OfSettles DEF Present
  <2>6. CASE row[v].lock = r /\ row[v].change = "detach"
    <3>1. row'[v] = [NoRow EXCEPT !.ref = v, !.status = "superseded"]
      BY <1>1, <1>5, <2>6, OfSettles
    <3> QED
      BY <1>1, <1>2, <3>1 DEF Present, NoRow
  <2>7. CASE row[v].lock = r /\ row[v].change \notin {"delete", "detach"}
    BY <1>1, <1>5, <2>7, OfSettles DEF Present
  <2> QED
    BY <2>3, <2>4, <2>5, <2>6, <2>7
<1>6. ASSUME NEW mine, NEW change, MayMark(r, mine, change), Marks(r, mine, change)
      PROVE  Present(v)'
  BY <1>1, <1>6, OfMarks DEF Present, MayMark
<1>7. ASSUME NEW parent, NEW sourced \in BOOLEAN, MayInsert(r, parent), Inserts(r, parent, sourced)
      PROVE  Present(v)'
  BY <1>1, <1>2, <1>7, OfInserts DEF Present, MayInsert
<1> QED
  BY <1>2, <1>3, <1>4, <1>5, <1>6, <1>7 DEF Effect, Nothing

\* A request becomes a written review by inserting it.
LEMMA BecomesWritten ==
    ASSUME Base, NEW r \in Request, Kind[r] = "review", Handle(r) \/ Fail(r), Written(r)',
           ~Present(r)'
    PROVE  Written(r) /\ ~Stops(r)
<1>0. ReqType /\ RowType /\ req[r].step \in Steps(r) /\ Kind[r] # "erase"
  BY DEF Base, TypeInv, ReqType
<1>1. ~Stops(r)
  BY DEF Stops, Written, Running, Committed
<1>2. ~(Running(r) /\ Refuse(r))
  BY <1>1, RefuseFits
<1>3. Handle(r)
  BY <1>2 DEF Fail
<1>4. CASE ReadFinding(r)
  <2>1. Running(r) /\ req[r].step = 1 /\ req[r].step # Last[Kind[r]]
    BY <1>0, <1>4, Statements DEF ReadFinding, At, Last
  <2>2. PICK f \in Of("analyse"), decision \in DOMAIN Promoted :
          req' = [req EXCEPT ![r] = [Step(r) EXCEPT !.ref = f, !.decision = decision]]
    BY <1>2, <1>4, <2>1 DEF ReadFinding
  <2>3. Step(r).step = req[r].step + 1 /\ Step(r).end = req[r].end /\ Step(r) \in ReqRecord
    BY <1>0, <2>1, StepType
  <2>4. req'[r].step = Step(r).step /\ req'[r].end = Step(r).end
    BY <1>0, <2>2, <2>3 DEF ReqType, ReqRecord
  <2> QED
    BY <2>1, <2>3, <2>4 DEF Written, Running, Committed
<1>5. CASE Insert(r, "insertReview", req[r].ref, FALSE)
  <2>1. Running(r) /\ Kind[r] = "review" /\ req[r].step = 2
    BY <1>0, <1>5, Statements DEF Insert, At
  <2>2. req[r].ref \in Request
    BY <2>1 DEF Base, Picks, Picked, Of
  <2>3. Inserts(r, req[r].ref, FALSE) /\ req[r].ref \in Row /\ FALSE \in BOOLEAN
    BY <1>2, <1>5, <2>1, <2>2 DEF Insert, Inserts, Row
  <2>4. row'[r].ref = req[r].ref
    BY <1>0, <2>3, OfInserts
  <2> QED
    BY <2>2, <2>4, NamesDiffer DEF Present, Row
<1>6. CASE Promote(r)
  <2>1. At(r, "promote")
    BY <1>6 DEF Promote, SetStatus
  <2> QED
    BY <1>0, <1>1, <2>1, Statements DEF At, Written
<1>7. CASE Commit(r)
  <2>1. Running(r) /\ req[r].step = 4
    BY <1>7, CommitFits DEF Commits, Last
  <2> QED
    BY <1>1, <2>1 DEF Written
<1> QED
  BY <1>0, <1>3, <1>4, <1>5, <1>6, <1>7, HandleOf DEF createTeacherReview

LEMMA StepReviews == Base /\ Reviews /\ [Next]_vars => Reviews'
<1> SUFFICES ASSUME Base, Reviews, [Next]_vars PROVE Reviews'
  OBVIOUS
<1>1. ASSUME NEW s \in Session, CreateSession(s) PROVE Reviews'
  <2>1. RowType /\ Creates(s) /\ req' = req
    BY <1>1, CreateKeeps DEF Base, TypeInv
  <2>2. \A v \in Request : v \in Row \ {s}
    BY NamesDiffer DEF Row
  <2>3. \A v \in Request : row'[v] = row[v]
    BY <2>1, <2>2, OfCreates
  <2> QED
    BY <2>1, <2>3 DEF Reviews, NoErasure, Kept, Written, Committed, Running, Present, Of
<1>2. ASSUME NEW r \in Request, Handle(r) \/ Fail(r) PROVE Reviews'
  <2>1. Fits(r)
    BY <1>2, HandleFits
  <2>2. \A q \in Request \ {r} : req'[q] = req[q]
    BY <2>1 DEF Fits, Effect, Stops, Commits, GoesOn
  <2>3. Running(r)
    BY <2>1 DEF Fits, Effect, Stops, Commits, GoesOn
  <2> SUFFICES ASSUME NoErasure', NEW v \in Request, Kind[v] = "review", Written(v)', ~Present(v)'
               PROVE  FALSE
    BY DEF Reviews, Kept
  <2>4. NoErasure
    BY <2>2, <2>3 DEF NoErasure, Committed, Running, Of
  <2>5. Written(v) /\ (v = r => ~Stops(r))
    <3>1. CASE v = r
      BY <1>2, <3>1, BecomesWritten
    <3>2. CASE v # r
      BY <2>2, <3>2 DEF Written, Running, Committed
    <3> QED
      BY <3>1, <3>2
  <2>6. Present(v)
    BY <2>4, <2>5 DEF Reviews, Kept
  <2> QED
    BY <2>1, <2>5, <2>6, ReviewStays DEF Of
<1>3. CASE UNCHANGED vars
  BY <1>3 DEF vars, Reviews, NoErasure, Kept, Written, Committed, Running, Present, Of
<1> QED
  BY <1>1, <1>2, <1>3 DEF Next

LEMMA InitReviews == Init => Reviews
BY DEF Init, Reviews, Kept, Written, Committed, Running, NoRequest

\* A committed review stays, attached or superseded, until an erasure commits, under
\* every interleaving of realignments, analyses and reviews (ADR-0031).
THEOREM ReviewsKept == Spec => []ReviewsSurvive
<1>1. Reviews => ReviewsSurvive
  BY DEF Reviews, NoErasure, ReviewsSurvive, Kept, Written, CommittedOf, Of
<1> QED
  BY <1>1, AlwaysBase, InitReviews, StepReviews, PTL DEF Spec

-----------------------------------------------------------------------------
(* What an erasure names is erased.  A record on its receipt was there; when  *)
(* the DELETE of its table is done it is gone, or in the erasure's hands.     *)

Table(x) == x \in Session \cup Of("realign") \cup Of("analyse")
Was(x) == /\ Table(x)
          /\ x \in Session => Present(x) \/ row[x].status = "gone"
          /\ x \in Request => Committed(x)
Gone(e, x) == ~Present(x) \/ (row[x].lock = e /\ Deleting(x))

\* The statement that deletes it.
Level(x) == IF x \in Session THEN 6 ELSE IF Kind[x] = "realign" THEN 5 ELSE 4

ErasingOf(e, x) ==
    /\ Running(e) /\ req[e].step > Level(x) => Gone(e, x)
    /\ Running(e) /\ req[e].step = Level(x) /\ req[e].waits => x \in req[e].seen \/ Gone(e, x)
    /\ Committed(e) => ~Present(x)
Erasing(e) ==
    \A x \in req[e].receipt :
      Committed(e) \/ (Running(e) /\ req[e].step >= 3) => Was(x) /\ ErasingOf(e, x)
Erasures == \A e \in Of("erase") : Erasing(e)

LEMMA WasRow ==
    ASSUME NEW x, Was(x)
    PROVE  /\ x \in Row /\ x \notin Of("review") /\ Level(x) \in {4, 5, 6}
           /\ x \in Request => Committed(x) /\ ~Running(x) /\ Kind[x] \in {"realign", "analyse"}
<1>1. CASE x \in Session
  <2>1. x \notin Request
    BY <1>1, NamesDiffer
  <2> QED
    BY <1>1, <2>1 DEF Row, Of, Level
<1>2. CASE x \in Of("realign") \cup Of("analyse")
  <2>1. x \in Request /\ Kind[x] \in {"realign", "analyse"} /\ x \notin Session /\ Committed(x)
    BY <1>2, NamesDiffer DEF Of, Was
  <2> QED
    BY <2>1 DEF Row, Of, Level, Committed, Running
<1> QED
  BY <1>1, <1>2 DEF Was, Table

\* What is there no more does not come back.
LEMMA WasStays ==
    ASSUME Base, NEW r \in Request, Fits(r), NEW x, Was(x)
    PROVE  Was(x)' /\ (~Present(x) => ~Present(x)')
<1>1. RowType /\ Locks /\ x \in Row /\ x # r /\ Running(r)
  BY WasRow DEF Base, TypeInv, Tables, Fits, Effect, Stops, Commits, GoesOn, Running, Committed
<1>2. Effect(r) /\ None \notin Row
  BY NamesDiffer DEF Fits
<1>3. \A q \in Request : Committed(q) => Committed(q)'
  BY <1>2 DEF Effect, Stops, Commits, GoesOn, Running, Committed
<1>4. ~Present(x) => row[x].lock # r
  BY <1>1, NamesDiffer DEF Locks, LockOf, Holds, Row
<1>5. x \notin Of("review")
  BY WasRow
<1>6. /\ Present(x) => Present(x)' \/ row'[x].status = "gone"
      /\ ~Present(x) => ~Present(x)' /\ row'[x].status = row[x].status
  <2>1. CASE Stops(r) /\ Undoes(r)
    BY <1>1, <2>1, OfUndoes DEF Present
  <2>2. CASE row' = row
    BY <2>2 DEF Present
  <2>3. CASE Commits(r) /\ Settles(r)
    <3>1. CASE row[x].lock # r
      BY <1>1, <2>3, <3>1, OfSettles DEF Present
    <3>2. CASE row[x].lock = r /\ row[x].change = "delete"
      <4>1. row'[x] = GoneRow
        BY <1>1, <2>3, <3>2, OfSettles
      <4> QED
        BY <1>4, <3>2, <4>1 DEF GoneRow, NoRow
    <3>3. row[x].change # "detach"
      BY <1>1, <1>5 DEF Locks, LockOf
    <3>4. CASE row[x].lock = r /\ row[x].change \notin {"delete", "detach"}
      BY <1>1, <1>4, <2>3, <3>4, OfSettles DEF Present
    <3> QED
      BY <3>1, <3>2, <3>3, <3>4
  <2>4. ASSUME NEW mine, NEW change, MayMark(r, mine, change), Marks(r, mine, change)
        PROVE  row'[x].ref = row[x].ref /\ row'[x].status = row[x].status
    BY <1>1, <2>4, OfMarks DEF MayMark
  <2>5. ASSUME NEW parent, NEW sourced \in BOOLEAN, MayInsert(r, parent), Inserts(r, parent, sourced)
        PROVE  row'[x] = row[x]
    BY <1>1, <2>5, OfInserts DEF MayInsert
  <2> QED
    BY <1>2, <2>1, <2>2, <2>3, <2>4, <2>5 DEF Effect, Nothing, Present
<1> QED
  BY <1>3, <1>6 DEF Was, Table, Of

\* What an erasure has deleted stays in its hands until it ends.
LEMMA GoneStays ==
    ASSUME Base, NEW r \in Request, Fits(r), NEW e \in Of("erase") \cup Of("realign"),
           NEW x, Was(x), Gone(e, x),
           r # e \/ GoesOn(r)
    PROVE  Gone(e, x)'
<1>1. RowType /\ Locks /\ x \in Row /\ x # r /\ Running(r) /\ e \in Request
  BY WasRow DEF Base, TypeInv, Tables, Fits, Effect, Stops, Commits, GoesOn, Running, Committed, Of
<1>2. Effect(r) /\ None \notin Row /\ e # None
  BY <1>1, NamesDiffer DEF Fits, Row
<1>3. CASE ~Present(x)
  BY <1>3, WasStays DEF Gone
<1>4. CASE row[x].lock = e /\ Deleting(x)
  <2>1. CASE Stops(r) /\ Undoes(r)
    <3>1. r # e
      BY <2>1 DEF Stops, GoesOn
    <3> QED
      BY <1>1, <1>4, <2>1, <3>1, OfUndoes DEF Gone, Deleting
  <2>2. CASE row' = row
    BY <1>4, <2>2 DEF Gone, Deleting
  <2>3. CASE Commits(r) /\ Settles(r)
    <3>1. r # e
      BY <2>3 DEF Commits, GoesOn
    <3> QED
      BY <1>1, <1>4, <2>3, <3>1, OfSettles DEF Gone, Deleting
  <2>4. ASSUME NEW mine, NEW change, MayMark(r, mine, change), Marks(r, mine, change)
        PROVE  Gone(e, x)'
    <3>1. change \in Changes
      BY <2>4 DEF MayMark
    <3>2. CASE x \notin mine
      BY <1>1, <1>4, <2>4, <3>1, <3>2, OfMarks DEF Gone, Deleting
    <3>3. CASE x \in mine
      <4>1. r = e
        BY <1>2, <1>4, <2>4, <3>3 DEF MayMark
      <4>2. change = "delete"
        BY <2>4, <3>3, <4>1, WasRow DEF MayMark, Of
      <4> QED
        BY <1>1, <2>4, <3>1, <3>3, <4>1, <4>2, OfMarks DEF Gone, Deleting
    <3> QED
      BY <3>2, <3>3
  <2>5. ASSUME NEW parent, NEW sourced \in BOOLEAN, MayInsert(r, parent), Inserts(r, parent, sourced)
        PROVE  row'[x] = row[x]
    BY <1>1, <2>5, OfInserts DEF MayInsert
  <2> QED
    BY <1>2, <1>4, <2>1, <2>2, <2>3, <2>4, <2>5 DEF Effect, Nothing, Gone, Deleting
<1> QED
  BY <1>3, <1>4 DEF Gone

\* A DELETE of the erasure finds what is on its receipt and not yet in its hands: the
\* rows above it are still there, or it would have gone with them.
LEMMA Finds ==
    ASSUME Base, NEW e \in Of("erase"), Running(e), NEW x, Was(x), ~Gone(e, x)
    PROVE  /\ Present(x) /\ row[x].status # "superseded" /\ Visible(e, x)
           /\ x \in Session => x \in Scope(e)
           /\ x \in Of("realign") => x \in AlignmentsOf(e)
           /\ x \in Of("analyse") => x \in FindingsOf(e)
<1>1. Refs /\ Locks /\ Family /\ x \in Row /\ x \notin Of("review") /\ Kind[e] = "erase"
      /\ None \notin Row
  BY WasRow, NamesDiffer DEF Base, Tables, Of
<1>2. Present(x) /\ Visible(e, x)
  BY DEF Gone, Visible, Was
<1>3. row[x].status # "superseded" /\ row[x].change # "detach"
  BY <1>1 DEF Locks, LockOf
<1>4. x \in Session => x \in Scope(e)
  BY <1>1, <1>2 DEF Scope
<1>5. ASSUME NEW c \in Request, c \in Of("realign") \cup Of("analyse"), Present(c), ~Gone(e, c),
             row[c].ref \in Row, row[c].ref # c, row[c].ref \in Request => Committed(row[c].ref)
      PROVE  Visible(e, row[c].ref) /\ ~Gone(e, row[c].ref)
  <2>1. Together(c) /\ LockOf(c)
    BY <1>1 DEF Family, Locks, Row
  <2>2. c \notin Of("review")
    BY <1>5 DEF Of
  <2>3. Present(row[c].ref)
    BY <1>5, <2>1 DEF Together
  <2>4. ~(row[row[c].ref].lock = e /\ Deleting(row[c].ref))
    BY <1>5, <2>1, <2>2 DEF Together, LockOf, Gone, Deleting
  <2> QED
    BY <1>5, <2>3, <2>4 DEF Visible, Gone
<1>6. ASSUME NEW a \in Of("realign"), Present(a), Visible(e, a), ~Gone(e, a)
      PROVE  a \in AlignmentsOf(e)
  <2>1. a \in Request /\ Kind[a] = "realign" /\ Refers(a)
    BY <1>1, <1>6 DEF Refs, Of, Row
  <2>2. row[a].ref \in Session /\ row[a].ref # a /\ row[a].ref \notin Request
    BY <2>1, NamesDiffer DEF Refers
  <2>3. Visible(e, row[a].ref)
    BY <1>5, <1>6, <2>1, <2>2 DEF Row
  <2> QED
    BY <1>1, <1>6, <2>2, <2>3 DEF AlignmentsOf, Below, Scope
<1>7. x \in Of("realign") => x \in AlignmentsOf(e)
  BY <1>2, <1>6
<1>8. ASSUME x \in Of("analyse") PROVE x \in FindingsOf(e)
  <2>1. x \in Request /\ Kind[x] = "analyse" /\ Refers(x)
    BY <1>1, <1>2, <1>8 DEF Refs, Of
  <2>2. row[x].ref \in Of("realign") /\ Committed(row[x].ref) /\ row[x].ref # x
        /\ row[x].ref \in Row
    BY <2>1 DEF Refers, Of, Row
  <2>3. Visible(e, row[x].ref) /\ ~Gone(e, row[x].ref)
    BY <1>2, <1>5, <1>8, <2>1, <2>2
  <2>4. row[x].ref \in AlignmentsOf(e)
    BY <1>6, <2>2, <2>3 DEF Visible
  <2> QED
    BY <1>2, <1>8, <2>4 DEF FindingsOf, Below
<1> QED
  BY <1>2, <1>3, <1>4, <1>7, <1>8

\* One DELETE of the erasure: while it waits, what it is to delete is among the rows
\* it has seen; when it has had the locks, it has it.
LEMMA DeleteErases ==
    ASSUME Base, NEW e \in Of("erase"), Erasing(e), NEW statement, NEW rows \in SUBSET Row,
           Change(e, statement, rows, "delete"), req[e].step \in 3 .. 6,
           \A x : Was(x) /\ Level(x) = req[e].step /\ ~Gone(e, x) => x \in rows
    PROVE  Erasing(e)'
<1>1. /\ e \in Request /\ Kind[e] = "erase" /\ Running(e)
      /\ Waits(e, rows) \/ Refuse(e) \/ Takes(e, rows, "delete")
  BY ChangeIs DEF Of
<1>2. req[e].step # Last[Kind[e]] /\ req[e].step \in Nat /\ RowType
  BY <1>1 DEF Last, Base, TypeInv
<1>3. req[e].waits => req[e].seen \subseteq Row
  BY <1>1 DEF Base, TypeInv, ReqType, ReqRecord
<1>4. req[e] \in ReqRecord
  BY <1>1 DEF Base, TypeInv, ReqType
<1>5. CASE Refuse(e)
  <2>1. req'[e].end = "over"
    BY <1>1, <1>5, RefuseFits DEF Stops
  <2> QED
    BY <2>1 DEF Erasing, Running, Committed
<1>6. CASE Waits(e, rows)
  <2>1. /\ Fits(e) /\ GoesOn(e) /\ row' = row
        /\ req'[e] = [req[e] EXCEPT !.waits = TRUE, !.seen = Mine(e, rows)]
    BY <1>1, <1>2, <1>6, WaitsFits
  <2>2. /\ req'[e].receipt = req[e].receipt /\ req'[e].step = req[e].step
        /\ req'[e].seen = Mine(e, rows) /\ req'[e].end = "none"
    BY <1>1, <1>4, <2>1 DEF ReqRecord, Running
  <2> SUFFICES ASSUME NEW x \in req[e].receipt PROVE Was(x)' /\ ErasingOf(e, x)'
    BY <2>2 DEF Erasing
  <2>3. Was(x) /\ ErasingOf(e, x)
    BY <1>1, <1>2 DEF Erasing
  <2>4. Was(x)'
    BY <1>1, <2>1, <2>3, WasStays
  <2>5. Gone(e, x)' <=> Gone(e, x)
    BY <2>1 DEF Gone, Present, Deleting
  <2>6. ASSUME req[e].step = Level(x), ~Gone(e, x) PROVE x \in Mine(e, rows)
    <3>1. x \in rows /\ ~req[e].waits
      BY <1>6, <2>3, <2>6 DEF Waits
    <3>2. Present(x) /\ row[x].status # "superseded"
      BY <1>1, <2>3, <2>6, Finds
    <3> QED
      BY <3>1, <3>2 DEF Mine
  <2>7. Level(x)' = Level(x) /\ ~Committed(e)'
    BY <2>2 DEF Level, Committed
  <2> QED
    BY <1>1, <2>2, <2>3, <2>4, <2>5, <2>6, <2>7 DEF ErasingOf
<1>7. CASE Takes(e, rows, "delete")
  <2>1. /\ Fits(e) /\ GoesOn(e) /\ MayMark(e, Mine(e, rows), "delete")
        /\ Go(e) /\ Marks(e, Mine(e, rows), "delete")
    <3>1. rows \subseteq Row /\ "delete" \in {"delete", "detach"} /\ Row \subseteq Row
      OBVIOUS
    <3> QED
      BY <1>1, <1>2, <1>3, <1>7, <3>1, TakesFits DEF Takes
  <2>2. /\ req'[e].receipt = req[e].receipt /\ req'[e].step = req[e].step + 1
        /\ req'[e].waits = FALSE /\ req'[e].end = "none"
    BY <1>1, <1>2, <2>1, GoFits DEF GoesOn
  <2> SUFFICES ASSUME NEW x \in req[e].receipt PROVE Was(x)' /\ ErasingOf(e, x)'
    BY <2>2 DEF Erasing
  <2>3. Was(x) /\ ErasingOf(e, x)
    BY <1>1, <1>2 DEF Erasing
  <2>4. Was(x)'
    BY <1>1, <2>1, <2>3, WasStays
  <2>5. Gone(e, x) => Gone(e, x)'
    BY <1>1, <2>1, <2>3, GoneStays
  <2>6. ASSUME req[e].step = Level(x), ~Gone(e, x) PROVE Gone(e, x)'
    <3>1. Present(x) /\ row[x].status # "superseded" /\ x \in Row
      BY <1>1, <2>3, <2>6, Finds, WasRow
    <3>2. x \in Mine(e, rows)
      BY <1>1, <2>3, <2>6, <3>1 DEF Mine, ErasingOf
    <3>3. "delete" \in Changes
      BY DEF Changes
    <3> QED
      BY <1>1, <1>2, <2>1, <3>1, <3>2, <3>3, OfMarks DEF Gone, Deleting
  <2>7. Level(x)' = Level(x) /\ ~Committed(e)' /\ Level(x) \in Nat
    BY <2>2, <2>3, WasRow DEF Level, Committed
  <2>8. req'[e].step > Level(x) => req[e].step > Level(x) \/ req[e].step = Level(x)
    BY <1>2, <2>2, <2>7
  <2> QED
    BY <1>1, <2>2, <2>3, <2>4, <2>5, <2>6, <2>7, <2>8 DEF ErasingOf
<1> QED
  BY <1>1, <1>5, <1>6, <1>7

\* The erasure's own steps.
LEMMA OwnErases ==
    ASSUME Base, NEW e \in Of("erase"), Erasing(e), Handle(e) \/ Fail(e)
    PROVE  Erasing(e)'
<1>0. e \in Request /\ Kind[e] = "erase" /\ ReqType /\ RowType /\ req[e].step \in Steps(e)
  BY DEF Base, TypeInv, ReqType, Of
<1>1. CASE Running(e) /\ Refuse(e)
  <2>1. req'[e].end = "over"
    BY <1>0, <1>1, RefuseFits DEF Stops
  <2> QED
    BY <2>1 DEF Erasing, Running, Committed
<1>2. CASE eraseMlAudio(e) /\ ~Refuse(e)
  <2>1. Running(e) /\ req[e].step = 1 /\ req[e].step # Last[Kind[e]] /\ Go(e)
    BY <1>0, <1>2, Statements DEF eraseMlAudio, At, Last
  <2>2. req'[e].step = req[e].step + 1 /\ req'[e].end = "none"
    BY <1>0, <2>1, GoFits DEF GoesOn
  <2>3. req'[e].step = 2
    BY <2>1, <2>2
  <2> QED
    BY <2>2, <2>3 DEF Erasing, Committed
<1>3. CASE /\ At(e, "readRecords") /\ UNCHANGED row
           /\ req' = [req EXCEPT ![e] = [Step(e) EXCEPT
                        !.receipt = Scope(e) \cup AlignmentsOf(e) \cup FindingsOf(e)]]
  <2>1. /\ Fits(e) /\ GoesOn(e) /\ req'[e].step = 3 /\ req'[e].receipt = Records(e)
        /\ req'[e].waits = FALSE
    BY <1>0, <1>3, ReadRecordsFits DEF Records
  <2> SUFFICES ASSUME NEW x \in Records(e) PROVE Was(x)' /\ ErasingOf(e, x)'
    BY <2>1 DEF Erasing
  <2>2. Visible(e, x) /\ Table(x) /\ x \notin {e}
    BY <1>0, NamesDiffer DEF Records, Scope, AlignmentsOf, FindingsOf, Below, Table, Of
  <2>3. Was(x)
    BY <2>2 DEF Was, Visible
  <2>4. Was(x)'
    BY <1>0, <2>1, <2>3, WasStays
  <2>5. Level(x)' = Level(x) /\ Level(x) \in {4, 5, 6} /\ ~Committed(e)'
    BY <2>1, <2>3, WasRow DEF Level, GoesOn, Committed
  <2> QED
    BY <2>1, <2>4, <2>5 DEF ErasingOf
<1>4. ASSUME NEW x, Was(x)
      PROVE  /\ Level(x) # 3
             /\ Level(x) = 4 => x \in Of("analyse")
             /\ Level(x) = 5 => x \in Of("realign")
             /\ Level(x) = 6 => x \in Session
  BY <1>4 DEF Was, Table, Level, Of
<1>5. CASE Change(e, "deleteReviews", ReviewsOf(e), "delete")
  <2>1. Running(e) /\ req[e].step = 3
    BY <1>0, <1>5, ChangeIs, Statements
  <2>2. ReviewsOf(e) \in SUBSET Row /\ req[e].step \in 3 .. 6
    BY <1>0, <2>1, RowsOf DEF Kinds
  <2> QED
    BY <1>4, <1>5, <2>1, <2>2, DeleteErases
<1>6. CASE DeleteFindings(e)
  <2>1. Change(e, "deleteFindings", FindingsOf(e), "delete")
    BY <1>6 DEF DeleteFindings
  <2>2. Running(e) /\ req[e].step = 4
    BY <1>0, <2>1, ChangeIs, Statements
  <2>3. FindingsOf(e) \in SUBSET Row /\ req[e].step \in 3 .. 6
    BY <1>0, <2>2, RowsOf DEF Kinds
  <2>4. \A x : Was(x) /\ Level(x) = req[e].step /\ ~Gone(e, x) => x \in FindingsOf(e)
    BY <1>4, <2>2, Finds
  <2> QED
    BY <2>1, <2>3, <2>4, DeleteErases
<1>7. CASE DeleteAlignments(e)
  <2>1. Change(e, "deleteAlignments", AlignmentsOf(e), "delete")
    BY <1>7 DEF DeleteAlignments
  <2>2. Running(e) /\ req[e].step = 5
    BY <1>0, <2>1, ChangeIs, Statements
  <2>3. AlignmentsOf(e) \in SUBSET Row /\ req[e].step \in 3 .. 6
    BY <1>0, <2>2, RowsOf DEF Kinds
  <2>4. \A x : Was(x) /\ Level(x) = req[e].step /\ ~Gone(e, x) => x \in AlignmentsOf(e)
    BY <1>4, <2>2, Finds
  <2> QED
    BY <2>1, <2>3, <2>4, DeleteErases
<1>8. CASE Change(e, "deleteSessions", Scope(e), "delete")
  <2>1. Running(e) /\ req[e].step = 6
    BY <1>0, <1>8, ChangeIs, Statements
  <2>2. Scope(e) \in SUBSET Row /\ req[e].step \in 3 .. 6
    BY <1>0, <2>1, RecordsAreRows
  <2>3. \A x : Was(x) /\ Level(x) = req[e].step /\ ~Gone(e, x) => x \in Scope(e)
    BY <1>4, <2>1, Finds
  <2> QED
    BY <1>8, <2>2, <2>3, DeleteErases
<1>9. CASE Commit(e)
  <2>1. /\ Fits(e) /\ Commits(e) /\ Settles(e) /\ req[e].step = 7 /\ Running(e)
        /\ req'[e].receipt = req[e].receipt
    BY <1>0, <1>9, CommitFits DEF Last, Commits
  <2> SUFFICES ASSUME NEW x \in req[e].receipt PROVE Was(x)' /\ ErasingOf(e, x)'
    BY <2>1 DEF Erasing
  <2>2. Was(x) /\ ErasingOf(e, x)
    BY <2>1 DEF Erasing
  <2>3. Was(x)' /\ (~Present(x) => ~Present(x)')
    BY <1>0, <2>1, <2>2, WasStays
  <2>4. Gone(e, x) /\ x \in Row
    BY <2>1, <2>2, WasRow DEF ErasingOf
  <2>5. row[x].lock = e /\ Deleting(x) => row'[x] = GoneRow
    BY <1>0, <2>1, <2>4, OfSettles DEF Deleting
  <2>6. ~Present(x)'
    BY <2>3, <2>4, <2>5 DEF Gone, GoneRow, NoRow, Present
  <2>7. ~Running(e)'
    BY <2>1 DEF Commits, Running
  <2> QED
    BY <2>3, <2>6, <2>7 DEF ErasingOf
<1> QED
  BY <1>0, <1>1, <1>2, <1>3, <1>5, <1>6, <1>7, <1>8, <1>9, HandleOf
     DEF createPrivacyJob, Fail, eraseMlAudio, At

\* The steps of others.
LEMMA OthersErase ==
    ASSUME Base, NEW e \in Of("erase"), Erasing(e), NEW r \in Request \ {e}, Fits(r)
    PROVE  Erasing(e)'
<1>1. req'[e] = req[e] /\ e \in Request
  BY DEF Fits, Effect, Stops, Commits, GoesOn, Of
<1>2. (Running(e)' <=> Running(e)) /\ (Committed(e)' <=> Committed(e))
  BY <1>1 DEF Running, Committed
<1> SUFFICES ASSUME NEW x \in req[e].receipt, Committed(e) \/ (Running(e) /\ req[e].step >= 3)
             PROVE  Was(x)' /\ ErasingOf(e, x)'
  BY <1>1, <1>2 DEF Erasing
<1>3. Was(x) /\ ErasingOf(e, x)
  BY DEF Erasing
<1>4. Was(x)' /\ (~Present(x) => ~Present(x)')
  BY <1>3, WasStays
<1>5. Gone(e, x) => Gone(e, x)'
  BY <1>3, GoneStays
<1> QED
  BY <1>1, <1>2, <1>3, <1>4, <1>5 DEF ErasingOf, Level

LEMMA StepErasures == Base /\ Erasures /\ [Next]_vars => Erasures'
<1> SUFFICES ASSUME Base, Erasures, [Next]_vars, NEW e \in Of("erase") PROVE Erasing(e)'
  BY DEF Erasures, Of
<1>0. Erasing(e)
  BY DEF Erasures
<1>1. ASSUME NEW s \in Session, CreateSession(s) PROVE Erasing(e)'
  <2>1. RowType /\ Creates(s) /\ req' = req /\ row[s] = NoRow
    BY <1>1, CreateKeeps DEF Base, TypeInv
  <2>2. \A x : Was(x) => x \in Row \ {s}
    BY <2>1, WasRow DEF Was, Present, NoRow
  <2>3. \A x : Was(x) => row'[x] = row[x]
    BY <2>1, <2>2, OfCreates
  <2> QED
    BY <1>0, <2>1, <2>3
       DEF Erasing, ErasingOf, Was, Table, Gone, Level, Present, Deleting, Committed, Running, Of
<1>2. ASSUME NEW r \in Request, Handle(r) \/ Fail(r) PROVE Erasing(e)'
  BY <1>0, <1>2, OwnErases, OthersErase, HandleFits
<1>3. CASE UNCHANGED vars
  BY <1>0, <1>3 DEF vars, Erasing, ErasingOf, Was, Table, Gone, Level, Present, Deleting,
                    Committed, Running, Of
<1> QED
  BY <1>1, <1>2, <1>3 DEF Next

LEMMA InitErasures == Init => Erasures
BY DEF Init, Erasures, Erasing, NoRequest, Of

\* What a committed erasure has on its receipt is gone for good, and nothing written
\* meanwhile or later hangs from it.
THEOREM ErasureHolds == Spec => []ErasedStaysErased
<1>1. Base /\ Erasures => ErasedStaysErased
  <2> SUFFICES ASSUME Base, Erasures, NEW e \in CommittedOf("erase"), NEW x \in req[e].receipt
               PROVE  ~Present(x) /\ \A c \in Children(x) : ~Committed(c)
    BY DEF ErasedStaysErased
  <2>1. Was(x) /\ ~Present(x) /\ x # None
    BY WasRow, NamesDiffer DEF Erasures, Erasing, ErasingOf, CommittedOf
  <2>2. ASSUME NEW c \in Children(x) PROVE FALSE
    <3>1. c \in Request /\ row[c].ref = x /\ Present(c)
      BY <2>1 DEF Children, Present
    <3>2. c # x
      BY <2>1, <3>1
    <3>3. Together(c)
      BY <3>1 DEF Base, Tables, Family
    <3> QED
      BY <2>1, <3>1, <3>2, <3>3 DEF Together
  <2> QED
    BY <2>1, <2>2
<1> QED
  BY <1>1, AlwaysBase, InitErasures, StepErasures, PTL DEF Spec

-----------------------------------------------------------------------------
(* Two sets come from overlap alone.  What a realignment found committed is   *)
(* gone from its session when it inserts; an analysis inserts only where it   *)
(* found none.                                                               *)

\* A row that is there stays where it is.
LEMMA RefStays ==
    ASSUME Base, NEW r \in Request, Fits(r), NEW x \in Of("realign") \cup Of("analyse"),
           x # r \/ Commits(r), Present(x)'
    PROVE  Present(x) /\ row'[x].ref = row[x].ref
<1>1. RowType /\ Locks /\ x \in Row /\ x \in Request /\ x \notin Of("review") /\ Running(r)
  BY DEF Base, TypeInv, Tables, Fits, Effect, Stops, Commits, GoesOn, Of, Row
<1>2. Effect(r)
  BY DEF Fits
<1>3. CASE Stops(r) /\ Undoes(r)
  <2>1. x # r
    BY <1>3 DEF Stops, Commits
  <2> QED
    BY <1>1, <1>3, <2>1, OfUndoes DEF Present
<1>4. CASE row' = row
  BY <1>4 DEF Present
<1>5. CASE Commits(r) /\ Settles(r)
  <2>1. row[x].change # "detach"
    BY <1>1 DEF Locks, LockOf
  <2>2. CASE row[x].lock = r /\ row[x].change = "delete"
    <3>1. row'[x] = GoneRow
      BY <1>1, <1>5, <2>2, OfSettles
    <3> QED
      BY <3>1 DEF Present, GoneRow, NoRow
  <2>3. CASE row[x].lock # r
    BY <1>1, <1>5, <2>3, OfSettles DEF Present
  <2>4. CASE row[x].lock = r /\ row[x].change \notin {"delete", "detach"}
    BY <1>1, <1>5, <2>4, OfSettles DEF Present
  <2> QED
    BY <2>1, <2>2, <2>3, <2>4
<1>6. ASSUME NEW mine, NEW change, MayMark(r, mine, change), Marks(r, mine, change)
      PROVE  row'[x].ref = row[x].ref
  BY <1>1, <1>6, OfMarks DEF MayMark
<1>7. ASSUME GoesOn(r), NEW parent, NEW sourced \in BOOLEAN, MayInsert(r, parent),
             Inserts(r, parent, sourced)
      PROVE  row'[x] = row[x]
  <2>1. x # r
    BY <1>7 DEF GoesOn, Commits
  <2> QED
    BY <1>1, <1>7, <2>1, OfInserts DEF MayInsert
<1> QED
  BY <1>2, <1>3, <1>4, <1>5, <1>6, <1>7 DEF Effect, Nothing, Present

\* A finding that is there stays below its session.
LEMMA SessionStays ==
    ASSUME Base, NEW r \in Request, Fits(r), NEW x \in Of("analyse"), x # r \/ Commits(r),
           Present(x)'
    PROVE  /\ Present(x) /\ Present(row[x].ref) /\ row[x].ref \in Of("realign")
           /\ row'[x].ref = row[x].ref /\ SessionOf(x)' = SessionOf(x)
<1>1. Present(x) /\ row'[x].ref = row[x].ref
  BY RefStays
<1>2. x \in Request /\ Kind[x] = "analyse" /\ x \in Row /\ Base' /\ Running(r)
  BY FitsBase DEF Of, Row, Fits, Effect, Stops, Commits, GoesOn
<1>3. row[x].ref \in Of("realign") /\ Committed(row[x].ref) /\ row[x].ref # x
  BY <1>1, <1>2 DEF Base, Tables, Refs, Refers, Of
<1>4. row[x].ref # r
  BY <1>2, <1>3 DEF Committed, Running
<1>5. Together(x) /\ Together(x)'
  BY <1>2 DEF Base, Tables, Family
<1>6. Present(row[x].ref) /\ row'[row[x].ref].ref # None
  BY <1>1, <1>2, <1>3, <1>5 DEF Together, Present
<1>7. row'[row[x].ref].ref = row[row[x].ref].ref
  <2> SUFFICES ASSUME NEW a \in Of("realign"), a = row[x].ref, a # r, row'[a].ref # None
               PROVE  row'[a].ref = row[a].ref
    BY <1>3, <1>4, <1>6
  <2>1. Present(a)'
    BY DEF Present
  <2> QED
    BY <2>1, RefStays
<1> QED
  BY <1>1, <1>2, <1>3, <1>6, <1>7 DEF SessionOf

-----------------------------------------------------------------------------
\* Realignments.
ReplacingOf(y, x) ==
    /\ x \in Of("realign") /\ Committed(x)
    /\ Running(y) /\ req[y].step >= 5 /\ row[x].ref = req[y].sess => Gone(y, x)
    /\ Running(y) /\ req[y].step = 4 /\ req[y].waits /\ row[x].ref = req[y].sess =>
         x \in req[y].seen \/ Gone(y, x)
    /\ Committed(y) /\ Present(x) /\ Present(y) => row[x].ref # row[y].ref
Replacing(y) ==
    /\ Running(y) /\ Present(y) => row[y].ref = req[y].sess
    /\ \A x \in req[y].before :
         Committed(y) \/ (Running(y) /\ req[y].step >= 2) => ReplacingOf(y, x)

LEMMA OthersReplace ==
    ASSUME Base, NEW y \in Of("realign"), Replacing(y), NEW r \in Request \ {y}, Fits(r)
    PROVE  Replacing(y)'
<1>1. req'[y] = req[y] /\ y \in Request
  BY DEF Fits, Effect, Stops, Commits, GoesOn, Of
<1>2. (Running(y)' <=> Running(y)) /\ (Committed(y)' <=> Committed(y))
  BY <1>1 DEF Running, Committed
<1>3. Present(y)' => Present(y) /\ row'[y].ref = row[y].ref
  BY RefStays
<1>4. ASSUME NEW x \in req[y].before, Committed(y) \/ (Running(y) /\ req[y].step >= 2)
      PROVE  ReplacingOf(y, x)'
  <2>1. ReplacingOf(y, x) /\ x \in Of("realign") /\ Committed(x)
    BY <1>4 DEF Replacing, ReplacingOf
  <2>2. x \in Request /\ Was(x) /\ x # r
    BY <2>1, NamesDiffer DEF Was, Table, Of, Fits, Effect, Stops, Commits, GoesOn, Running, Committed
  <2>3. Was(x)' /\ x \in Of("realign") /\ Committed(x)'
    BY <2>1, <2>2, WasStays DEF Was
  <2>4. Gone(y, x) => Gone(y, x)'
    BY <2>2, GoneStays
  <2>5. Present(x)' => Present(x) /\ row'[x].ref = row[x].ref
    BY <2>1, <2>2, RefStays
  <2>6. ~Present(x)' => Gone(y, x)'
    BY DEF Gone
  <2> QED
    BY <1>1, <1>2, <1>3, <2>1, <2>3, <2>4, <2>5, <2>6 DEF ReplacingOf, Of
<1> QED
  BY <1>1, <1>2, <1>3, <1>4 DEF Replacing

\* Its own DELETEs and its detaching UPDATE.
LEMMA ChangeReplaces ==
    ASSUME Base, NEW y \in Of("realign"), Replacing(y), NEW statement, NEW rows \in SUBSET Row,
           NEW change \in {"delete", "detach"},
           Change(y, statement, rows, change), Fits(y), req[y].step \in {2, 3, 4},
           req[y].step = 4 => rows = AlignmentsOf(y) /\ change = "delete"
    PROVE  Replacing(y)'
<1>1. /\ y \in Request /\ Kind[y] = "realign" /\ Running(y)
      /\ Waits(y, rows) \/ Refuse(y) \/ Takes(y, rows, change)
  BY ChangeIs DEF Of
<1>2. req[y].step # Last[Kind[y]] /\ req[y].step \in Nat /\ RowType /\ req[y] \in ReqRecord
  BY <1>1 DEF Last, Base, TypeInv, ReqType
<1>3. ~Present(y)
  <2>1. Present(y) => Refers(y) /\ y \in Request
    BY <1>1 DEF Base, Tables, Refs, Row
  <2>2. ~(req[y].step > InsertStep[Kind[y]]) /\ ~Committed(y)
    BY <1>1 DEF InsertStep, Running, Committed
  <2> QED
    BY <2>1, <2>2 DEF Refers
<1>4. CASE Refuse(y)
  <2>1. req'[y].end = "over"
    BY <1>1, <1>4, RefuseFits DEF Stops
  <2> QED
    BY <2>1 DEF Replacing, Running, Committed
<1>5. ASSUME NEW x \in req[y].before
      PROVE  /\ x \in Of("realign") /\ Committed(x) /\ Was(x) /\ x \in Row
             /\ req[y].step = 4 /\ req[y].waits /\ row[x].ref = req[y].sess =>
                  x \in req[y].seen \/ Gone(y, x)
  <2>1. ReplacingOf(y, x)
    BY <1>1, <1>2 DEF Replacing
  <2>2. x \in Of("realign") /\ Committed(x) /\ x \in Request
    BY <2>1 DEF ReplacingOf, Of
  <2>3. x \notin Session /\ x \in Row
    BY <2>2, NamesDiffer DEF Row
  <2>4. req[y].step = 4 /\ req[y].waits /\ row[x].ref = req[y].sess =>
          x \in req[y].seen \/ Gone(y, x)
    BY <1>1, <2>1 DEF ReplacingOf
  <2> QED
    BY <2>2, <2>3, <2>4 DEF Was, Table
<1>6. ASSUME req[y].step = 4, NEW x \in req[y].before, row[x].ref = req[y].sess, ~Gone(y, x)
      PROVE  x \in Mine(y, rows)
  <2>1. Present(x) /\ row[x].status # "superseded"
    BY <1>5, <1>6 DEF Gone, Base, Tables, Locks, LockOf, Of
  <2>2. Visible(y, x)
    BY <1>5, <1>6, <2>1 DEF Visible, Gone
  <2>3. x \in AlignmentsOf(y)
    BY <1>1, <1>5, <1>6, <2>2 DEF AlignmentsOf, Below, Scope
  <2> QED
    BY <1>5, <1>6, <2>1, <2>3 DEF Mine
<1>7. CASE Waits(y, rows)
  <2>1. row' = row /\ req' = [req EXCEPT ![y].waits = TRUE, ![y].seen = Mine(y, rows)]
    BY <1>7 DEF Waits
  <2>2. /\ req'[y].step = req[y].step /\ req'[y].sess = req[y].sess
        /\ req'[y].before = req[y].before /\ req'[y].seen = Mine(y, rows)
        /\ req'[y].end = req[y].end
        /\ \A q \in Request \ {y} : req'[q] = req[q]
    BY <1>1, <1>2, <2>1 DEF Base, TypeInv, ReqType, ReqRecord
  <2>3. ~Present(y)' /\ Running(y)' /\ ~Committed(y)'
    BY <1>1, <1>3, <2>1, <2>2 DEF Present, Running, Committed
  <2> SUFFICES ASSUME NEW x \in req[y].before PROVE ReplacingOf(y, x)'
    BY <2>2, <2>3 DEF Replacing
  <2>4. Committed(x)'
    BY <1>1, <1>5, <2>2 DEF Committed, Running, Of
  <2>5. (Gone(y, x)' <=> Gone(y, x)) /\ row'[x].ref = row[x].ref
    BY <2>1 DEF Gone, Present, Deleting
  <2> QED
    BY <1>2, <1>5, <1>6, <2>2, <2>3, <2>4, <2>5 DEF ReplacingOf, Of
<1>8. CASE Takes(y, rows, change)
  <2>1. Go(y) /\ Marks(y, Mine(y, rows), change)
    BY <1>8 DEF Takes
  <2>2. /\ req'[y].step = req[y].step + 1 /\ req'[y].sess = req[y].sess
        /\ req'[y].before = req[y].before /\ req'[y].waits = FALSE /\ GoesOn(y)
    BY <1>1, <1>2, <2>1, GoFits
  <2>3. change \in Changes
    BY DEF Changes
  <2>4. \A x \in Row : row'[x].ref = row[x].ref
    BY <1>1, <1>2, <2>1, <2>3, OfMarks
  <2>5. ~Present(y)' /\ Running(y)' /\ ~Committed(y)'
    BY <1>1, <1>3, <2>2, <2>4 DEF Present, Running, Committed, GoesOn, Row
  <2> SUFFICES ASSUME NEW x \in req[y].before PROVE ReplacingOf(y, x)'
    BY <2>2, <2>5 DEF Replacing
  <2>6. Committed(x)'
    BY <1>1, <1>5, <2>2 DEF Committed, Running, Of, GoesOn
  <2>7. ASSUME req[y].step = 4, row[x].ref = req[y].sess PROVE Gone(y, x)'
    <3>1. CASE Gone(y, x)
      <4>1. Was(x) /\ y \in Of("erase") \cup Of("realign")
        BY <1>5
      <4> QED
        BY <1>1, <2>2, <3>1, <4>1, GoneStays
    <3>2. CASE ~Gone(y, x)
      <4>1. x \in Mine(y, rows) /\ x \in Row /\ change = "delete"
        BY <1>5, <1>6, <2>7, <3>2
      <4> QED
        BY <1>1, <1>2, <2>1, <2>3, <4>1, OfMarks DEF Gone, Deleting
    <3> QED
      BY <3>1, <3>2
  <2>8. req'[y].step >= 5 => req[y].step = 4
    BY <1>2, <2>2
  <2> QED
    BY <1>5, <2>2, <2>4, <2>5, <2>6, <2>7, <2>8 DEF ReplacingOf, Of
<1> QED
  BY <1>1, <1>4, <1>7, <1>8

\* The realignment's own steps.
LEMMA OwnReplaces ==
    ASSUME Base, NEW y \in Of("realign"), Replacing(y), Handle(y) \/ Fail(y)
    PROVE  Replacing(y)'
<1>0. /\ y \in Request /\ Kind[y] = "realign" /\ ReqType /\ RowType /\ req[y].step \in Steps(y)
      /\ y \in Row /\ Fits(y) /\ (Running(y) => Picked(y))
  BY HandleFits DEF Base, TypeInv, ReqType, Of, Row, Picks
<1>1. CASE Running(y) /\ Refuse(y)
  <2>1. req'[y].end = "over"
    BY <1>0, <1>1, RefuseFits DEF Stops
  <2> QED
    BY <2>1 DEF Replacing, Running, Committed
<1>2. CASE ReadSession(y) /\ ~Refuse(y)
  <2>1. Running(y) /\ req[y].step = 1 /\ req[y].step # Last[Kind[y]]
    BY <1>0, <1>2, Statements DEF ReadSession, At, Last
  <2>2. PICK s \in Session :
          /\ row' = row
          /\ req' = [req EXCEPT ![y] = [Step(y) EXCEPT !.sess = s, !.before = CommittedOf("realign")]]
    BY <1>2 DEF ReadSession
  <2>3. Step(y).step = req[y].step + 1 /\ Step(y).end = req[y].end /\ Step(y) \in ReqRecord
    BY <1>0, <2>1, StepType
  <2>4. /\ req'[y].step = 2 /\ req'[y].end = "none" /\ req'[y].before = CommittedOf("realign")
        /\ \A q \in Request \ {y} : req'[q] = req[q]
    BY <1>0, <2>1, <2>2, <2>3 DEF ReqType, ReqRecord, Running
  <2>5. ~Present(y)
    BY <1>0, <2>1 DEF Base, Tables, Refs, Refers, InsertStep, Running, Committed
  <2>6. \A x \in CommittedOf("realign") : x \in Of("realign") /\ Committed(x)'
    BY <1>0, <2>1, <2>4 DEF CommittedOf, Of, Committed, Running
  <2> QED
    BY <2>2, <2>4, <2>5, <2>6 DEF Replacing, ReplacingOf, Present, Committed, Of
<1>3. CASE DetachReviews(y)
  <2>1. Change(y, "detachReviews", ReviewsOf(y), "detach")
    BY <1>3 DEF DetachReviews
  <2>2. req[y].step \in {2, 3, 4} /\ req[y].step # 4
    BY <1>0, <2>1, ChangeIs, Statements
  <2>3. ReviewsOf(y) \in SUBSET Row
    BY RowsOf, <1>0 DEF Kinds
  <2> QED
    BY <1>0, <2>1, <2>2, <2>3, ChangeReplaces
<1>4. CASE DeleteFindings(y)
  <2>1. Change(y, "deleteFindings", FindingsOf(y), "delete")
    BY <1>4 DEF DeleteFindings
  <2>2. req[y].step \in {2, 3, 4} /\ req[y].step # 4
    BY <1>0, <2>1, ChangeIs, Statements
  <2>3. FindingsOf(y) \in SUBSET Row
    BY RowsOf, <1>0 DEF Kinds
  <2> QED
    BY <1>0, <2>1, <2>2, <2>3, ChangeReplaces
<1>5. CASE DeleteAlignments(y)
  <2>1. Change(y, "deleteAlignments", AlignmentsOf(y), "delete")
    BY <1>5 DEF DeleteAlignments
  <2>2. req[y].step \in {2, 3, 4}
    BY <1>0, <2>1, ChangeIs, Statements
  <2>3. AlignmentsOf(y) \in SUBSET Row
    BY RowsOf, <1>0 DEF Kinds
  <2> QED
    BY <1>0, <2>1, <2>2, <2>3, ChangeReplaces
\* The row is inserted below the session the request has emptied.
<1>6. CASE InsertAlignments(y) /\ ~Refuse(y)
  <2>1. At(y, "insertAlignments")
    BY <1>6 DEF InsertAlignments, Insert
  <2>2. /\ Running(y) /\ req[y].step = 5 /\ req[y].step # Last[Kind[y]]
        /\ req[y].sess \in Session /\ req[y].sess \in Row
    BY <1>0, <2>1, Statements DEF At, Last, Picked, Row
  <2>3. Go(y)
    BY <1>6 DEF InsertAlignments, Insert
  <2>4. /\ GoesOn(y) /\ req'[y].step = 6 /\ req'[y].sess = req[y].sess
        /\ req'[y].before = req[y].before
    <3>1. /\ GoesOn(y) /\ req'[y].step = req[y].step + 1 /\ req'[y].sess = req[y].sess
          /\ req'[y].before = req[y].before
      BY <1>0, <2>2, <2>3, GoFits
    <3> QED
      BY <2>2, <3>1
  <2>5. /\ Present(y)' => row'[y].ref = req[y].sess
        /\ \A x \in Row \ {y} : row'[x] = row[x]
    <3>1. CASE row' = row
      BY <1>0, <2>2, <3>1 DEF Present, Base, Tables, Refs, Refers, InsertStep, Running, Committed
    <3>2. CASE Inserts(y, req[y].sess, FALSE)
      <4>1. FALSE \in BOOLEAN
        OBVIOUS
      <4> QED
        BY <1>0, <2>2, <3>2, <4>1, OfInserts
    <3> QED
      BY <1>6, <3>1, <3>2 DEF InsertAlignments, Insert, Inserts
  <2>6. ASSUME NEW x \in req[y].before PROVE ReplacingOf(y, x)'
    <3>1. ReplacingOf(y, x) /\ x \in Of("realign") /\ Committed(x) /\ x \in Request
      BY <2>2, <2>6 DEF Replacing, ReplacingOf, Of
    <3>2. x # y /\ x \in Row /\ row'[x] = row[x] /\ Committed(x)'
      BY <2>2, <2>4, <2>5, <3>1 DEF Committed, Running, GoesOn, Row
    <3>3. row[x].ref = req[y].sess => Gone(y, x)
      BY <2>2, <3>1 DEF ReplacingOf
    <3>4. Gone(y, x)' <=> Gone(y, x)
      BY <3>2 DEF Gone, Present, Deleting
    <3>5. ~Committed(y)'
      BY <2>4 DEF GoesOn, Committed
    <3> QED
      BY <2>4, <3>1, <3>2, <3>3, <3>4, <3>5 DEF ReplacingOf, Of
  <2> QED
    BY <2>4, <2>5, <2>6 DEF Replacing
\* What it has deleted goes, and nothing else under its session was there.
<1>7. CASE Commit(y)
  <2>1. /\ Commits(y) /\ Settles(y) /\ req[y].step = 6 /\ Running(y) /\ Running(y)' = FALSE
        /\ req'[y].before = req[y].before
    BY <1>0, <1>7, CommitFits DEF Last, Commits, Running
  <2>2. Present(y)' => Present(y) /\ row'[y].ref = row[y].ref /\ row[y].ref = req[y].sess
    BY <1>0, <2>1, RefStays DEF Replacing
  <2>3. ASSUME NEW x \in req[y].before PROVE ReplacingOf(y, x)'
    <3>1. ReplacingOf(y, x) /\ x \in Of("realign") /\ Committed(x) /\ x \in Row /\ x # y
      BY <2>1, <2>3 DEF Replacing, ReplacingOf, Of, Row, Committed, Running
    <3>2. Committed(x)'
      BY <2>1, <3>1 DEF Committed, Commits, Of
    <3>3. Present(x)' => Present(x) /\ row'[x].ref = row[x].ref
      BY <1>0, <2>1, <3>1, RefStays
    <3>4. row[x].lock = y /\ Deleting(x) => row'[x] = GoneRow
      BY <1>0, <2>1, <3>1, OfSettles DEF Deleting
    <3>5. Gone(y, x) => ~Present(x)'
      BY <3>3, <3>4 DEF Gone, GoneRow, NoRow, Present
    <3>6. row[x].ref = req[y].sess => Gone(y, x)
      BY <2>1, <3>1 DEF ReplacingOf
    <3> QED
      BY <2>1, <2>2, <3>1, <3>2, <3>3, <3>5, <3>6 DEF ReplacingOf, Of
  <2> QED
    BY <2>1, <2>3 DEF Replacing
<1> QED
  BY <1>0, <1>1, <1>2, <1>3, <1>4, <1>5, <1>6, <1>7, HandleOf
     DEF persistSessionAlignments, Fail, ReadSession, InsertAlignments, Insert, At

-----------------------------------------------------------------------------
\* Analyses.
AnalysingOf(y, x) ==
    /\ x \in Of("analyse") /\ Committed(x)
    /\ Running(y) /\ Present(x) => SessionOf(x) # req[y].sess
    /\ Committed(y) /\ Present(x) /\ Present(y) => SessionOf(x) # SessionOf(y)
Analysing(y) ==
    /\ Running(y) /\ Present(y) => SessionOf(y) = req[y].sess
    /\ Running(y) /\ req[y].step >= 4 /\ Present(req[y].ref) =>
         row[req[y].ref].ref = req[y].sess
    /\ \A x \in req[y].before :
         Committed(y) \/ (Running(y) /\ req[y].step >= 3) => AnalysingOf(y, x)

LEMMA OthersAnalyse ==
    ASSUME Base, NEW y \in Of("analyse"), Analysing(y), NEW r \in Request \ {y}, Fits(r)
    PROVE  Analysing(y)'
<1>1. req'[y] = req[y] /\ y \in Request /\ Kind[y] = "analyse" /\ Running(r)
  BY DEF Fits, Effect, Stops, Commits, GoesOn, Of
<1>2. (Running(y)' <=> Running(y)) /\ (Committed(y)' <=> Committed(y))
  BY <1>1 DEF Running, Committed
<1>3. Present(y)' => Present(y) /\ SessionOf(y)' = SessionOf(y)
  BY SessionStays
<1>4. ASSUME NEW x \in req[y].before, Committed(y) \/ (Running(y) /\ req[y].step >= 3)
      PROVE  AnalysingOf(y, x)'
  <2>1. AnalysingOf(y, x) /\ x \in Of("analyse") /\ Committed(x) /\ x \in Request /\ x # r
    BY <1>1, <1>4 DEF Analysing, AnalysingOf, Of, Running, Committed
  <2>2. Committed(x)'
    BY <2>1 DEF Fits, Effect, Stops, Commits, GoesOn, Committed
  <2>3. Present(x)' => Present(x) /\ SessionOf(x)' = SessionOf(x)
    BY <2>1, SessionStays
  <2> QED
    BY <1>1, <1>2, <1>3, <2>1, <2>2, <2>3 DEF AnalysingOf, Of
<1>5. ASSUME Running(y), req[y].step >= 4, Present(req[y].ref)'
      PROVE  row'[req[y].ref].ref = req[y].sess
  <2>1. Picked(y) /\ req[y].ref \in Of("realign") /\ Committed(req[y].ref)
    <3>1. Picked(y)
      BY <1>1, <1>5 DEF Base, Picks
    <3>2. req[y].step >= 2
      BY <1>1, <1>5 DEF Base, TypeInv, ReqType, ReqRecord
    <3> QED
      BY <1>1, <1>5, <3>1 DEF Picked
  <2> SUFFICES ASSUME NEW a \in Of("realign"), a = req[y].ref, Committed(a)
               PROVE  row'[a].ref = req[y].sess
    BY <2>1
  <2>2. a # r /\ Present(a)'
    BY <1>1, <1>5 DEF Committed, Running, Present
  <2>3. Present(a) /\ row'[a].ref = row[a].ref
    BY <2>2, RefStays
  <2> QED
    BY <1>5, <2>3 DEF Analysing
<1>6. Present(req[y].ref)' <=> row'[req'[y].ref].ref # None
  BY <1>1 DEF Present
<1> QED
  BY <1>1, <1>2, <1>3, <1>4, <1>5, <1>6 DEF Analysing, Present

\* A finding of the session would have been found.
LEMMA FindingSeen ==
    ASSUME Base, NEW y \in Of("analyse"), Running(y), ~Present(y),
           NEW x \in Of("analyse"), Committed(x), Present(x), SessionOf(x) = req[y].sess
    PROVE  x \in FindingsOf(y)
<1>1. x \in Request /\ Kind[x] = "analyse" /\ y \in Request /\ Kind[y] = "analyse" /\ x # y
      /\ x \in Row
  BY DEF Of, Row, Committed, Running
<1>2. row[x].ref \in Of("realign") /\ Committed(row[x].ref) /\ row[x].ref # x
  BY <1>1 DEF Base, Tables, Refs, Refers, Of
<1>3. Present(row[x].ref)
  BY <1>1, <1>2 DEF Base, Tables, Family, Together
<1>4. \A z \in Row : row[z].lock # y
  BY <1>1, NamesDiffer DEF Base, Tables, Locks, LockOf, Holds, Row
<1>5. row[x].ref \in Request /\ row[x].ref \in Row
  BY <1>2 DEF Of, Row
<1>6. Visible(y, x) /\ Visible(y, row[x].ref)
  BY <1>1, <1>2, <1>3, <1>4, <1>5 DEF Visible
<1>7. row[row[x].ref].ref = req[y].sess
  BY <1>1 DEF SessionOf
<1>8. row[x].ref \in AlignmentsOf(y)
  BY <1>1, <1>2, <1>6, <1>7 DEF AlignmentsOf, Below, Scope
<1> QED
  BY <1>6, <1>8 DEF FindingsOf, Below

\* The analysis's own steps.
LEMMA OwnAnalyses ==
    ASSUME Base, NEW y \in Of("analyse"), Analysing(y), Handle(y) \/ Fail(y)
    PROVE  Analysing(y)'
<1>0. /\ y \in Request /\ Kind[y] = "analyse" /\ ReqType /\ RowType /\ req[y].step \in Steps(y)
      /\ y \in Row /\ Fits(y) /\ (Running(y) => Picked(y))
  BY HandleFits DEF Base, TypeInv, ReqType, Of, Row, Picks
<1>1. ASSUME req'[y].end = "over" PROVE Analysing(y)'
  BY <1>1 DEF Analysing, Running, Committed
<1>2. Running(y) /\ Refuse(y) => req'[y].end = "over"
  BY <1>0, RefuseFits DEF Stops
<1>3. Answer(y) => req'[y].end = "over"
  BY <1>0, NoRequestType DEF Answer, Over, ReqType
<1>4. Running(y) /\ Present(y) => req[y].step > 4
  BY <1>0 DEF Base, Tables, Refs, Refers, InsertStep, Running, Committed
<1>5. CASE proxyMl(y) /\ ~Refuse(y) /\ ~Answer(y)
  <2>1. Running(y) /\ req[y].step = 1 /\ req[y].step # Last[Kind[y]]
    BY <1>0, <1>5, Statements DEF proxyMl, At, Last
  <2>2. PICK s \in Session : row' = row /\ req' = [req EXCEPT ![y] = [Step(y) EXCEPT !.sess = s]]
    BY <1>5 DEF proxyMl
  <2>3. Step(y).step = req[y].step + 1 /\ Step(y).end = req[y].end /\ Step(y) \in ReqRecord
    BY <1>0, <2>1, StepType
  <2>4. req'[y].step = 2 /\ req'[y].end = "none"
    BY <1>0, <2>1, <2>2, <2>3 DEF ReqType, ReqRecord, Running
  <2>5. ~Present(y)'
    BY <1>4, <2>1, <2>2 DEF Present
  <2> QED
    BY <2>4, <2>5 DEF Analysing, Committed
<1>6. CASE ReadExisting(y) /\ ~Answer(y)
  <2>1. Running(y) /\ req[y].step = 2 /\ req[y].step # Last[Kind[y]]
    BY <1>0, <1>6, Statements DEF ReadExisting, At, Last
  <2>2. /\ ~Analysed(y) /\ row' = row
        /\ req' = [req EXCEPT ![y] = [Step(y) EXCEPT !.before = CommittedOf("analyse")]]
    BY <1>6 DEF ReadExisting
  <2>3. /\ Step(y).step = req[y].step + 1 /\ Step(y).end = req[y].end /\ Step(y) \in ReqRecord
        /\ Step(y).sess = req[y].sess
    BY <1>0, <2>1, StepType
  <2>4. /\ req'[y].step = 3 /\ req'[y].end = "none" /\ req'[y].before = CommittedOf("analyse")
        /\ req'[y].sess = req[y].sess /\ \A q \in Request \ {y} : req'[q] = req[q]
    BY <1>0, <2>1, <2>2, <2>3 DEF ReqType, ReqRecord, Running
  <2>5. ~Present(y) /\ ~Present(y)'
    BY <1>4, <2>1, <2>2 DEF Present
  <2>6. ASSUME NEW x \in CommittedOf("analyse") PROVE AnalysingOf(y, x)'
    <3>1. x \in Of("analyse") /\ Committed(x) /\ Committed(x)'
      BY <1>0, <2>1, <2>4 DEF CommittedOf, Of, Committed, Running
    <3>2. Present(x) => SessionOf(x) # req[y].sess
      BY <2>1, <2>2, <2>5, <3>1, FindingSeen DEF Analysed
    <3>3. (Present(x)' <=> Present(x)) /\ SessionOf(x)' = SessionOf(x)
      BY <2>2 DEF Present, SessionOf
    <3> QED
      BY <2>4, <3>1, <3>2, <3>3 DEF AnalysingOf, Committed, Of
  <2> QED
    BY <2>4, <2>5, <2>6 DEF Analysing
<1>7. CASE ReadAlignments(y) /\ ~Answer(y)
  <2>1. Running(y) /\ req[y].step = 3 /\ req[y].step # Last[Kind[y]]
    BY <1>0, <1>7, Statements DEF ReadAlignments, At, Last
  <2>2. PICK a \in AlignmentsOf(y) : row' = row /\ req' = [req EXCEPT ![y] = [Step(y) EXCEPT !.ref = a]]
    BY <1>7 DEF ReadAlignments
  <2>3. /\ Step(y).step = req[y].step + 1 /\ Step(y).end = req[y].end /\ Step(y) \in ReqRecord
        /\ Step(y).sess = req[y].sess /\ Step(y).before = req[y].before
    BY <1>0, <2>1, StepType
  <2>4. /\ req'[y].step = 4 /\ req'[y].end = "none" /\ req'[y].before = req[y].before
        /\ req'[y].sess = req[y].sess /\ req'[y].ref = a
        /\ \A q \in Request \ {y} : req'[q] = req[q]
    BY <1>0, <2>1, <2>2, <2>3 DEF ReqType, ReqRecord, Running
  <2>5. ~Present(y)'
    BY <1>4, <2>1, <2>2 DEF Present
  <2>6. row[a].ref = req[y].sess
    BY <1>0 DEF AlignmentsOf, Below, Scope
  <2>7. ASSUME NEW x \in req[y].before PROVE AnalysingOf(y, x)'
    <3>1. AnalysingOf(y, x)
      BY <2>1, <2>7 DEF Analysing
    <3>2. x \in Of("analyse") /\ Committed(x) /\ Committed(x)'
      BY <2>1, <2>4, <3>1 DEF AnalysingOf, Of, Committed, Running
    <3>3. (Present(x)' <=> Present(x)) /\ SessionOf(x)' = SessionOf(x)
      BY <2>2 DEF Present, SessionOf
    <3> QED
      BY <2>1, <2>4, <3>1, <3>2, <3>3 DEF AnalysingOf, Committed, Of
  <2> QED
    BY <2>2, <2>4, <2>5, <2>6, <2>7 DEF Analysing
\* The rows are inserted below the session in which it found none.
<1>8. ASSUME NEW sourced \in BOOLEAN, Insert(y, "insertFindings", req[y].ref, sourced), ~Refuse(y)
      PROVE  Analysing(y)'
  <2>1. /\ Running(y) /\ req[y].step = 4 /\ req[y].step # Last[Kind[y]]
        /\ req[y].ref \in Of("realign") /\ Committed(req[y].ref)
    BY <1>0, <1>8, Statements DEF Insert, At, Last, Picked
  <2>2. Go(y) /\ Present(req[y].ref) /\ Inserts(y, req[y].ref, sourced)
    BY <1>8 DEF Insert, Inserts
  <2>3. /\ GoesOn(y) /\ req'[y].step = req[y].step + 1 /\ req'[y].sess = req[y].sess
        /\ req'[y].before = req[y].before /\ req'[y].ref = req[y].ref
    BY <1>0, <2>1, <2>2, GoFits
  <2>4. req[y].ref \in Row /\ req[y].ref # y
    BY <1>0, <2>1 DEF Of, Row
  <2>5. row'[y].ref = req[y].ref /\ \A x \in Row \ {y} : row'[x] = row[x]
    BY <1>0, <2>2, <2>4, OfInserts
  <2>6. row[req[y].ref].ref = req[y].sess /\ row'[req[y].ref].ref = req[y].sess
    BY <2>1, <2>2, <2>4, <2>5 DEF Analysing
  <2>7. SessionOf(y)' = req[y].sess
    BY <1>0, <2>5, <2>6 DEF SessionOf
  <2>8. ASSUME NEW x \in req[y].before PROVE AnalysingOf(y, x)'
    <3>1. AnalysingOf(y, x)
      BY <2>1, <2>8 DEF Analysing
    <3>2. x \in Of("analyse") /\ Committed(x) /\ Committed(x)' /\ x # y
      BY <2>1, <2>3, <3>1 DEF AnalysingOf, Of, Committed, Running, GoesOn
    <3>3. Present(x)' => Present(x) /\ SessionOf(x)' = SessionOf(x)
      BY <1>0, <3>2, SessionStays
    <3> QED
      BY <2>1, <2>3, <3>1, <3>2, <3>3 DEF AnalysingOf, Committed, GoesOn, Of
  <2>9. ~Committed(y)'
    BY <2>3 DEF GoesOn, Committed
  <2> QED
    BY <2>1, <2>3, <2>6, <2>7, <2>8, <2>9 DEF Analysing
<1>9. CASE Commit(y)
  <2>1. /\ Commits(y) /\ req[y].step = 5 /\ Running(y) /\ ~Running(y)'
        /\ req'[y].before = req[y].before
    BY <1>0, <1>9, CommitFits DEF Last, Commits, Running
  <2>2. Present(y)' => SessionOf(y)' = req[y].sess
    BY <1>0, <2>1, SessionStays DEF Analysing
  <2>3. ASSUME NEW x \in req[y].before PROVE AnalysingOf(y, x)'
    <3>1. AnalysingOf(y, x)
      BY <2>1, <2>3 DEF Analysing
    <3>2. x \in Of("analyse") /\ Committed(x) /\ Committed(x)' /\ x # y
      BY <2>1, <3>1 DEF AnalysingOf, Of, Committed, Running, Commits
    <3>3. Present(x)' => Present(x) /\ SessionOf(x)' = SessionOf(x)
      BY <1>0, <3>2, SessionStays
    <3> QED
      BY <2>1, <2>2, <3>1, <3>2, <3>3 DEF AnalysingOf, Of
  <2> QED
    BY <2>1, <2>3 DEF Analysing
<1>10. CASE Fail(y)
  BY <1>1, <1>2, <1>10 DEF Fail
<1>11. (proxyMl(y) \/ persistTajweedFindings(y)) /\ ~Commit(y) => Running(y)
  BY DEF proxyMl, persistTajweedFindings, ReadExisting, ReadAlignments, Insert, At
<1> QED
  BY <1>0, <1>1, <1>2, <1>3, <1>5, <1>6, <1>7, <1>8, <1>9, <1>10, <1>11, HandleOf
     DEF persistTajweedFindings

-----------------------------------------------------------------------------
Sets == /\ \A y \in Of("realign") : Replacing(y)
        /\ \A y \in Of("analyse") : Analysing(y)

LEMMA StepSets == Base /\ Sets /\ [Next]_vars => Sets'
<1> SUFFICES ASSUME Base, Sets, [Next]_vars PROVE Sets'
  OBVIOUS
<1>1. ASSUME NEW s \in Session, CreateSession(s) PROVE Sets'
  <2>1. RowType /\ Creates(s) /\ req' = req /\ row[s] = NoRow
    BY <1>1, CreateKeeps DEF Base, TypeInv
  <2>2. \A x \in Request : row'[x] = row[x]
    BY <2>1, NamesDiffer, OfCreates DEF Row
  <2>3. ASSUME NEW y \in Of("realign") PROVE Replacing(y)'
    BY <2>1, <2>2, <2>3
       DEF Sets, Replacing, ReplacingOf, Gone, Present, Deleting, Committed, Running, Of
  <2>4. ASSUME NEW x \in Of("analyse") PROVE Present(x) => SessionOf(x)' = SessionOf(x)
    <3>1. Present(x) => row[x].ref \in Request
      BY <2>4 DEF Base, Tables, Refs, Refers, Row, Of
    <3> QED
      BY <2>2, <2>4, <3>1 DEF SessionOf, Of
  <2>5. ASSUME NEW x \in Request PROVE Present(x)' <=> Present(x)
    BY <2>2 DEF Present
  <2>6. ASSUME NEW q \in Request
        PROVE  (Running(q)' <=> Running(q)) /\ (Committed(q)' <=> Committed(q))
    BY <2>1 DEF Running, Committed
  <2>7. ASSUME NEW y \in Of("analyse") PROVE Analysing(y)'
    <3>1. Analysing(y) /\ y \in Request
      BY DEF Sets, Of
    <3>2. Running(y) /\ req[y].step >= 4 => req[y].ref \in Request
      BY <2>7, <3>1 DEF Base, Picks, Picked, Of
    <3>3. Running(y)' /\ Present(y)' => SessionOf(y)' = req'[y].sess
      BY <2>1, <2>4, <2>5, <2>6, <3>1 DEF Analysing
    <3>4. ASSUME NEW x \in req[y].before, Committed(y) \/ (Running(y) /\ req[y].step >= 3)
          PROVE  AnalysingOf(y, x)'
      <4>1. AnalysingOf(y, x) /\ x \in Request /\ x \in Of("analyse")
        BY <3>1, <3>4 DEF Analysing, AnalysingOf, Of
      <4> QED
        BY <2>1, <2>4, <2>5, <2>6, <3>1, <4>1 DEF AnalysingOf, Of
    <3>5. /\ Running(y)' /\ req'[y].step >= 4 /\ row'[req'[y].ref].ref # None
          => row'[req'[y].ref].ref = req'[y].sess
      BY <2>1, <2>2, <2>6, <3>1, <3>2 DEF Analysing, Present
    <3> QED
      BY <2>1, <2>6, <3>1, <3>3, <3>4, <3>5 DEF Analysing, Present
  <2> QED
    BY <2>3, <2>7 DEF Sets, Of
<1>2. ASSUME NEW r \in Request, Handle(r) \/ Fail(r) PROVE Sets'
  <2>1. Fits(r)
    BY <1>2, HandleFits
  <2>2. ASSUME NEW y \in Of("realign") PROVE Replacing(y)'
    BY <1>2, <2>1, OwnReplaces, OthersReplace DEF Sets
  <2>3. ASSUME NEW y \in Of("analyse") PROVE Analysing(y)'
    BY <1>2, <2>1, OwnAnalyses, OthersAnalyse DEF Sets
  <2> QED
    BY <2>2, <2>3 DEF Sets, Of
<1>3. CASE UNCHANGED vars
  BY <1>3 DEF vars, Sets, Replacing, ReplacingOf, Analysing, AnalysingOf, SessionOf, Gone, Present,
              Deleting, Committed, Running, Of
<1> QED
  BY <1>1, <1>2, <1>3 DEF Next

LEMMA InitSets == Init => Sets
<1> SUFFICES ASSUME Init PROVE Sets
  OBVIOUS
<1>1. \A r \in Request : req[r].before = {} /\ req[r].step = 1
  BY DEF Init, NoRequest
<1>2. \A r \in Request : ~Present(r)
  BY DEF Init, Present, NoRow, Row
<1> QED
  BY <1>1, <1>2 DEF Sets, Replacing, Analysing, Of

\* Two realignments that both left alignments in a session, or two analyses that both
\* left findings there, overlapped: neither began after the other's commit.
THEOREM OneSetUnlessOverlap == Spec => []TwoSetsOnlyFromOverlap
<1>1. Sets => TwoSetsOnlyFromOverlap
  <2> SUFFICES ASSUME Sets, NEW kind \in {"realign", "analyse"},
                      NEW x \in CommittedOf(kind), NEW y \in CommittedOf(kind),
                      Present(x), Present(y), SessionOf(x) = SessionOf(y), x \in req[y].before
               PROVE  FALSE
    BY DEF TwoSetsOnlyFromOverlap
  <2>1. Committed(y) /\ Kind[x] = kind /\ Kind[y] = kind /\ y \in Of(kind)
    BY DEF CommittedOf, Of
  <2>2. CASE kind = "realign"
    BY <2>1, <2>2 DEF Sets, Replacing, ReplacingOf, SessionOf
  <2>3. CASE kind = "analyse"
    BY <2>1, <2>3 DEF Sets, Analysing, AnalysingOf
  <2> QED
    BY <2>2, <2>3
<1> QED
  BY <1>1, AlwaysBase, InitSets, StepSets, PTL DEF Spec

-----------------------------------------------------------------------------
(* A finding's status is a verdict.  What sets it is the review that holds    *)
(* its lock; and whoever takes a review away has its finding next: the        *)
(* review was found below it, and nothing can take the finding from under a   *)
(* review that is not in its own hands.                                       *)

ReviewStep(r) == IF Kind[r] = "realign" THEN 2 ELSE 3
Leaves(r, f) == row[f].lock = r /\ Deleting(f)
InSession(r, f) == Kind[r] = "realign" => SessionOf(f) = req[r].sess

\* A review that r takes away was committed, and its finding goes with the next
\* statement.
Taken(r, v) ==
    /\ Committed(v) /\ row[v].ref \in Of("analyse") /\ InSession(r, row[v].ref)
    /\ req[r].step > ReviewStep(r)
    /\ req[r].step = ReviewStep(r) + 1 /\ req[r].waits =>
         row[v].ref \in req[r].seen \/ Leaves(r, row[v].ref)
    /\ req[r].step > ReviewStep(r) + 1 => Leaves(r, row[v].ref)
Awaited(r) ==
    Running(r) /\ Kind[r] \in {"realign", "erase"} /\ req[r].waits =>
      /\ req[r].step = ReviewStep(r) =>
           \A v \in req[r].seen :
             /\ v \in Of("review") /\ Committed(v)
             /\ Present(v) /\ row[v].ref # v => InSession(r, row[v].ref)
      /\ req[r].step > ReviewStep(r) => req[r].seen \cap Of("review") = {}

\* What a lock is for.
InHand(r, x) ==
    row[x].lock = r =>
      /\ Kind[r] = "send" => x \in Session
      /\ Kind[r] = "review" => /\ req[r].step = 4 /\ x = req[r].ref
                               /\ row[x].change = Promoted[req[r].decision]
      /\ Kind[r] \in {"realign", "erase"} /\ x \in Of("review") => Taken(r, x)

\* A review on its way has its row below the finding it read, which has a source if
\* it is to be accepted.
Judging(v) ==
    Running(v) =>
      /\ req[v].step >= 3 => row[v].ref = req[v].ref
      /\ req[v].step >= 2 /\ req[v].decision = "accepted" /\ Present(req[v].ref) =>
           row[req[v].ref].sourced
Detached(v) == Present(v) /\ row[v].ref = v => row[v].status = "superseded"

Judged(f) ==
    Present(f) /\ row[f].status # "none" =>
      /\ \E v \in CommittedOf("review") :
           row[v].ref = f /\ Promoted[req[v].decision] = row[f].status
      /\ row[f].status = "teacher-reviewed" => row[f].sourced

Locking == \A r \in Request : Awaited(r) /\ \A x \in Row : InHand(r, x)
Reviewing == \A v \in Of("review") : Judging(v) /\ Detached(v)
Verdicts == Locking /\ Reviewing /\ \A f \in Of("analyse") : Judged(f)

-----------------------------------------------------------------------------
\* What a step leaves of the rows: of each, either nothing is changed that counts here,
\* or its own lock's request commits.
LEMMA RowStays ==
    ASSUME Base, NEW r \in Request, Fits(r), NEW x \in Row, x # r \/ Commits(r)
    PROVE  \/ /\ row'[x].ref = row[x].ref /\ row'[x].status = row[x].status
              /\ row'[x].sourced = row[x].sourced
           \/ Commits(r) /\ Settles(r) /\ row[x].lock = r
<1>1. RowType /\ Effect(r) /\ Running(r)
  BY DEF Base, TypeInv, Fits, Effect, Stops, Commits, GoesOn
<1>2. CASE Stops(r) /\ Undoes(r)
  <2>1. x # r
    BY <1>2 DEF Stops, Commits
  <2> QED
    BY <1>1, <1>2, <2>1, OfUndoes
<1>3. CASE row' = row
  BY <1>3
<1>4. CASE Commits(r) /\ Settles(r)
  BY <1>1, <1>4, OfSettles
<1>5. ASSUME NEW mine, NEW change, MayMark(r, mine, change), Marks(r, mine, change)
      PROVE  row'[x].ref = row[x].ref /\ row'[x].status = row[x].status
             /\ row'[x].sourced = row[x].sourced
  BY <1>1, <1>5, OfMarks DEF MayMark
<1>6. ASSUME GoesOn(r), NEW parent, NEW sourced \in BOOLEAN, MayInsert(r, parent),
             Inserts(r, parent, sourced)
      PROVE  row'[x] = row[x]
  <2>1. x # r
    BY <1>6 DEF GoesOn, Commits
  <2> QED
    BY <1>1, <1>6, <2>1, OfInserts DEF MayInsert
<1> QED
  BY <1>1, <1>2, <1>3, <1>4, <1>5, <1>6 DEF Effect, Nothing

\* A lock of another request is neither taken nor let go, nor what it does changed.
LEMMA OthersLock ==
    ASSUME Base, NEW r \in Request, Fits(r), NEW q \in Request \ {r}, NEW x \in Row
    PROVE  /\ row'[x].lock = q => row'[x] = row[x]
           /\ row[x].lock = q /\ x # r => row'[x] = row[x]
<1>1. RowType /\ Effect(r) /\ r # None /\ q # None /\ q # r
  BY NamesDiffer DEF Base, TypeInv, Fits, Row
<1>2. CASE Undoes(r)
  <2>1. x = r => row'[x].lock # q
    BY <1>1, <1>2, OfUndoes DEF NoRow
  <2> QED
    BY <1>1, <1>2, <2>1, OfUndoes
<1>3. CASE row' = row
  BY <1>3
<1>4. CASE Settles(r)
  <2>1. row[x].lock # r => row'[x] = row[x]
    BY <1>1, <1>4, OfSettles
  <2>2. row[x].lock = r => row'[x].lock = None
    <3>1. GoneRow.lock = None /\ [NoRow EXCEPT !.ref = x, !.status = "superseded"].lock = None
      BY DEF GoneRow, NoRow
    <3> QED
      BY <1>1, <1>4, <3>1, OfSettles
  <2> QED
    BY <1>1, <2>1, <2>2
<1>5. ASSUME NEW mine, NEW change, MayMark(r, mine, change), Marks(r, mine, change)
      PROVE  /\ row'[x].lock = q => row'[x] = row[x]
             /\ row[x].lock = q /\ x # r => row'[x] = row[x]
  BY <1>1, <1>5, OfMarks DEF MayMark
<1>6. ASSUME NEW parent, NEW sourced \in BOOLEAN, MayInsert(r, parent), Inserts(r, parent, sourced)
      PROVE  /\ row'[x].lock = q => row'[x] = row[x]
             /\ row[x].lock = q /\ x # r => row'[x] = row[x]
  BY <1>1, <1>6, OfInserts DEF MayInsert
<1> QED
  BY <1>1, <1>2, <1>3, <1>4, <1>5, <1>6 DEF Effect, Nothing

\* Of a finding that is still there, a commit may have set the status.
LEMMA FindingStays ==
    ASSUME Base, NEW r \in Request, Fits(r), NEW f \in Of("analyse"), f # r \/ Commits(r),
           Present(f)'
    PROVE  /\ Present(f) /\ row'[f].ref = row[f].ref /\ row'[f].sourced = row[f].sourced
           /\ \/ row'[f].status = row[f].status
              \/ /\ Commits(r) /\ Settles(r) /\ row[f].lock = r
                 /\ row[f].change \notin {"delete", "detach"}
                 /\ row'[f].status = row[f].change
<1>1. RowType /\ f \in Row /\ f \notin Of("review") /\ row[f].change # "detach"
  BY DEF Base, TypeInv, Tables, Locks, LockOf, Of, Row
<1>2. Present(f) /\ row'[f].ref = row[f].ref
  BY RefStays
<1>3. CASE Commits(r) /\ Settles(r) /\ row[f].lock = r
  <2>1. row[f].change # "delete"
    <3>1. row[f].change = "delete" => row'[f] = GoneRow
      BY <1>1, <1>3, OfSettles
    <3> QED
      BY <3>1 DEF Present, GoneRow, NoRow
  <2> QED
    BY <1>1, <1>2, <1>3, <2>1, OfSettles
<1> QED
  BY <1>1, <1>2, <1>3, RowStays

\* A committed review, or one on its way that another request meets, has its finding
\* where it had it.
LEMMA BelowStays ==
    ASSUME Base, NEW r \in Request, Fits(r), NEW v \in Of("review"), v # r \/ Commits(r),
           Present(v)', row'[v].ref # v
    PROVE  /\ Present(v) /\ row'[v].ref = row[v].ref
           /\ row[v].ref \in Of("analyse") /\ row[v].ref # r /\ row[v].ref \in Row
           /\ Committed(row[v].ref) /\ Present(row[v].ref) /\ Present(row[v].ref)'
           /\ SessionOf(row[v].ref)' = SessionOf(row[v].ref)
<1>1. RowType /\ v \in Row /\ v \in Request /\ Kind[v] = "review" /\ Running(r) /\ Base'
  BY FitsBase DEF Base, TypeInv, Of, Row, Fits, Effect, Stops, Commits, GoesOn
<1>2. Present(v) /\ row'[v].ref = row[v].ref
  <2>1. CASE Commits(r) /\ Settles(r) /\ row[v].lock = r
    <3>1. GoneRow.ref = None /\ [NoRow EXCEPT !.ref = v, !.status = "superseded"].ref = v
      BY DEF GoneRow, NoRow
    <3>2. row[v].change # "delete"
      BY <1>1, <2>1, <3>1, OfSettles DEF Present
    <3>3. row[v].change # "detach"
      BY <1>1, <2>1, <3>1, OfSettles
    <3> QED
      BY <1>1, <2>1, <3>2, <3>3, OfSettles DEF Present
  <2> QED
    BY <1>1, <2>1, RowStays DEF Present
<1>3. row[v].ref \in Of("analyse") /\ Committed(row[v].ref)
  BY <1>1, <1>2 DEF Base, Tables, Refs, Refers
<1>4. row[v].ref # r /\ row[v].ref \in Row /\ row[v].ref \in Request
  BY <1>1, <1>3 DEF Committed, Running, Of, Row
<1>5. Together(v)'
  BY <1>1 DEF Base, Tables, Family
<1>6. row'[row[v].ref].ref # None
  BY <1>2, <1>5 DEF Together, Present
<1>7. ASSUME NEW f \in Of("analyse"), f # r, Present(f)'
      PROVE  Present(f) /\ SessionOf(f)' = SessionOf(f)
  BY <1>7, SessionStays
<1>8. ASSUME NEW f, f = row[v].ref
      PROVE  Present(f) /\ Present(f)' /\ SessionOf(f)' = SessionOf(f)
  BY <1>3, <1>4, <1>6, <1>7, <1>8 DEF Present
<1> QED
  BY <1>2, <1>3, <1>4, <1>8 DEF Present, SessionOf

\* Only a commit commits.
LEMMA OnlyCommits ==
    ASSUME Base, NEW r \in Request, Handle(r) \/ Fail(r), req'[r].end = "committed"
    PROVE  Commit(r)
<1>1. req \in [Request -> ReqRecord] /\ Step(r).end = req[r].end
  BY DEF Base, TypeInv, ReqType, ReqRecord, Step
<1>2. Refuse(r) \/ Answer(r) => req'[r].end = "over"
  BY <1>1, NoRequestType DEF Refuse, Answer, Over
<1>3. Running(r) => ~Go(r)
  BY <1>1 DEF Go, Running
<1>4. /\ \A s : [Step(r) EXCEPT !.sess = s].end = req[r].end
      /\ \A a : [Step(r) EXCEPT !.ref = a].end = req[r].end
      /\ \A b : [Step(r) EXCEPT !.before = b].end = req[r].end
      /\ \A s, b : [Step(r) EXCEPT !.sess = s, !.before = b].end = req[r].end
      /\ \A f, d : [Step(r) EXCEPT !.ref = f, !.decision = d].end = req[r].end
  BY <1>1 DEF Step, ReqRecord
<1>5. \A record : record.end = req[r].end /\ Running(r) => req' # [req EXCEPT ![r] = record]
  BY <1>1 DEF Running
<1>6. ASSUME NEW statement, NEW rows, NEW change, Change(r, statement, rows, change)
      PROVE  FALSE
  <2>1. CASE Waits(r, rows)
    BY <1>1, <1>6, <2>1, ChangeIs DEF Waits, Running, ReqRecord
  <2> QED
    BY <1>2, <1>3, <1>6, <2>1, ChangeIs DEF Takes
<1>7. ~persistSessionAlignments(r)
  <2>1. ~ReadSession(r)
    <3>1. ASSUME NEW s, NEW b, Running(r),
                 req' = [req EXCEPT ![r] = [Step(r) EXCEPT !.sess = s, !.before = b]]
          PROVE  FALSE
      BY <1>4, <1>5, <3>1
    <3> QED
      BY <1>2, <3>1 DEF ReadSession, At
  <2> QED
    BY <1>2, <1>3, <1>6, <2>1 DEF persistSessionAlignments, DetachReviews, InsertAlignments, Insert, At
<1>8. ~proxyMl(r)
  BY <1>2, <1>4, <1>5 DEF proxyMl, At
<1>9. ~persistTajweedFindings(r)
  <2>1. ~ReadExisting(r) /\ ~ReadAlignments(r)
    BY <1>2, <1>4, <1>5 DEF ReadExisting, ReadAlignments, At
  <2> QED
    BY <1>2, <1>3, <2>1 DEF persistTajweedFindings, Insert, At
<1>10. ~createTeacherReview(r)
  <2>1. ~ReadFinding(r)
    <3>1. ASSUME NEW f, NEW d, Running(r),
                 req' = [req EXCEPT ![r] = [Step(r) EXCEPT !.ref = f, !.decision = d]]
          PROVE  FALSE
      BY <1>4, <1>5, <3>1
    <3> QED
      BY <1>2, <3>1 DEF ReadFinding, At
  <2> QED
    BY <1>2, <1>3, <2>1 DEF createTeacherReview, Insert, Promote, SetStatus, At
<1>11. ~requestTeacherReview(r)
  BY <1>2, <1>3, <1>4, <1>5 DEF requestTeacherReview, SetStatus, At
<1>12. ~createPrivacyJob(r)
  <2>1. ~eraseMlAudio(r)
    BY <1>2, <1>3 DEF eraseMlAudio, At
  <2>2. ~(/\ At(r, "readRecords")
          /\ req' = [req EXCEPT ![r] = [Step(r) EXCEPT
                       !.receipt = Scope(r) \cup AlignmentsOf(r) \cup FindingsOf(r)]])
    BY <1>1 DEF At, Running, Step, ReqRecord
  <2> QED
    BY <1>6, <2>1, <2>2 DEF createPrivacyJob
<1>13. ~DeleteFindings(r) /\ ~DeleteAlignments(r)
  BY <1>6 DEF DeleteFindings, DeleteAlignments
<1> QED
  BY <1>2, <1>7, <1>8, <1>9, <1>10, <1>11, <1>12, <1>13 DEF Handle, Fail

-----------------------------------------------------------------------------
(* Locks.                                                                     *)

\* The lock on a review is of who is about to take it away.
LEMMA ReviewLocks ==
    ASSUME Base, Locking, NEW v \in Of("review"), NEW r \in Request, row[v].lock = r
    PROVE  /\ Kind[r] \in {"realign", "erase"} /\ row[v].change \in {"delete", "detach"}
           /\ Taken(r, v) /\ Present(v) /\ Running(r)
<1>1. v \in Request /\ v \in Row /\ v \notin Session /\ InHand(r, v) /\ Kind[v] = "review"
  BY NamesDiffer DEF Of, Row, Locking
<1>2. Holds(v, r) /\ r # None
  BY <1>1, NamesDiffer DEF Base, Tables, Locks, LockOf, Row
<1>3. Kind[r] # "send" /\ Kind[r] # "analyse"
  BY <1>1, <1>2 DEF InHand, Holds
<1>4. Kind[r] # "review"
  <2>1. Kind[r] = "review" => req[r].step = 4 /\ v = req[r].ref
    BY <1>1 DEF InHand
  <2>2. Kind[r] = "review" /\ req[r].step = 4 => req[r].ref \in Of("analyse")
    BY <1>2 DEF Base, Picks, Picked, Holds
  <2> QED
    BY <1>1, <2>1, <2>2 DEF Of
<1>5. Kind[r] \in {"realign", "erase"}
  BY <1>3, <1>4, KindIsOne DEF Kinds
<1> QED
  BY <1>1, <1>2, <1>5 DEF Holds, InHand

\* The finding of a committed review that is there is there, and committed.
LEMMA FindingOf ==
    ASSUME Base, NEW v \in Of("review"), Present(v), row[v].ref # v
    PROVE  /\ row[v].ref \in Of("analyse") /\ Committed(row[v].ref) /\ Present(row[v].ref)
           /\ row[v].ref \in Row /\ row[v].ref \in Request
<1>1. v \in Request /\ v \in Row /\ Kind[v] = "review"
  BY DEF Of, Row
<1>2. row[v].ref \in Of("analyse") /\ Committed(row[v].ref)
  BY <1>1 DEF Base, Tables, Refs, Refers
<1> QED
  BY <1>1, <1>2 DEF Base, Tables, Family, Together, Of, Row

\* What others do leaves a request what it has in hand.
LEMMA OthersHold ==
    ASSUME Base, Locking, NEW r \in Request, Fits(r), NEW q \in Request \ {r}
    PROVE  Awaited(q)' /\ \A x \in Row : InHand(q, x)'
<1>1. req'[q] = req[q] /\ Running(r) /\ Base'
  BY FitsBase DEF Fits, Effect, Stops, Commits, GoesOn
<1>2. (Running(q)' <=> Running(q)) /\ \A v \in Request : Committed(v) => Committed(v)' /\ v # r
  BY <1>1 DEF Running, Committed, Fits, Effect, Stops, Commits, GoesOn
<1>3. ASSUME NEW v \in Of("review"), Committed(v), Present(v)', row'[v].ref # v
      PROVE  /\ Present(v) /\ row'[v].ref = row[v].ref
             /\ InSession(q, row[v].ref) => InSession(q, row[v].ref)'
  <2>1. v # r
    BY <1>2, <1>3 DEF Of
  <2> QED
    BY <1>1, <1>3, <2>1, BelowStays DEF InSession
<1>4. Awaited(q)'
  <2> SUFFICES ASSUME Running(q), Kind[q] \in {"realign", "erase"}, req[q].waits
               PROVE  Awaited(q)'
    BY <1>1, <1>2 DEF Awaited
  <2>1. Awaited(q)
    BY DEF Locking
  <2>2. ASSUME req[q].step = ReviewStep(q), NEW v \in req[q].seen
        PROVE  /\ v \in Of("review") /\ Committed(v)'
               /\ Present(v)' /\ row'[v].ref # v => InSession(q, row[v].ref)'
    <3>1. v \in Of("review") /\ Committed(v) /\ (Present(v) /\ row[v].ref # v => InSession(q, row[v].ref))
      BY <2>1, <2>2 DEF Awaited
    <3>2. ASSUME Present(v)', row'[v].ref # v PROVE InSession(q, row[v].ref)'
      <4>1. /\ Present(v) /\ row'[v].ref = row[v].ref
            /\ InSession(q, row[v].ref) => InSession(q, row[v].ref)'
        BY <1>3, <3>1, <3>2
      <4> QED
        BY <3>1, <3>2, <4>1 DEF InSession, SessionOf
    <3> QED
      BY <1>2, <3>1, <3>2 DEF Of
  <2>3. ReviewStep(q)' = ReviewStep(q) /\ \A k : Of(k)' = Of(k)
    BY DEF ReviewStep, Of
  <2> QED
    BY <1>1, <2>1, <2>2, <2>3 DEF Awaited, Of, ReviewStep
<1>5. ASSUME NEW x \in Row, row'[x].lock = q PROVE InHand(q, x)'
  <2>1. row'[x] = row[x] /\ InHand(q, x) /\ q # None
    BY <1>5, OthersLock, NamesDiffer DEF Locking, Row
  <2>2. Present(x) /\ Present(x)'
    BY <1>5, <2>1 DEF Base, Tables, Locks, LockOf, Holds, Present
  <2>3. ASSUME Kind[q] \in {"realign", "erase"}, x \in Of("review") PROVE Taken(q, x)'
    <3>1. Taken(q, x)
      BY <1>5, <2>1, <2>3, ReviewLocks
    <3>2. Committed(x) /\ Committed(x)' /\ row[x].ref # x
      BY <1>2, <2>3, <3>1 DEF Taken, Of
    <3>3. row[x].ref \in Of("analyse") /\ row[x].ref \in Row /\ row[x].ref # r
          /\ InSession(q, row[x].ref)' /\ InSession(q, row[x].ref)
      BY <1>2, <1>3, <2>1, <2>2, <2>3, <3>1, <3>2, FindingOf DEF Taken
    <3>4. Leaves(q, row[x].ref) => Leaves(q, row[x].ref)'
      <4>1. row[row[x].ref].lock = q => row'[row[x].ref] = row[row[x].ref]
        BY <3>3, OthersLock
      <4> QED
        BY <2>1, <4>1 DEF Leaves, Deleting
    <3> QED
      BY <1>1, <2>1, <3>1, <3>2, <3>3, <3>4 DEF Taken, ReviewStep, Of, InSession, SessionOf, Leaves, Deleting
  <2> QED
    BY <1>1, <1>5, <2>1, <2>3 DEF InHand
<1> QED
  BY <1>4, <1>5 DEF InHand

\* A request that has ended has nothing in hand.
LEMMA EndedHolds ==
    ASSUME Base', NEW r \in Request, ~Running(r)'
    PROVE  Awaited(r)' /\ \A x \in Row : InHand(r, x)'
<1>1. r # None
  BY NamesDiffer DEF Row
<1>2. \A x \in Row : row'[x].lock # r
  BY <1>1 DEF Base, Tables, Locks, LockOf, Holds
<1> QED
  BY <1>2 DEF Awaited, InHand

\* The findings and the reviews below the sessions that a request works on.
LEMMA FoundBelow ==
    ASSUME Base, NEW r \in Request, Running(r), Kind[r] \in {"realign", "erase"},
           NEW f \in Of("analyse"), Committed(f), Present(f), ~Leaves(r, f), InSession(r, f)
    PROVE  f \in FindingsOf(r) /\ row[f].status # "superseded"
<1>1. f \in Request /\ f \in Row /\ f \notin Session /\ f \notin Of("review") /\ Kind[f] = "analyse"
  BY NamesDiffer DEF Of, Row
<1>2. row[f].change # "detach" /\ row[f].status # "superseded"
  BY <1>1 DEF Base, Tables, Locks, LockOf
<1>3. CASE Kind[r] = "erase"
  <2>1. Was(f) /\ ~Gone(r, f) /\ r \in Of("erase")
    BY <1>1, <1>3 DEF Was, Table, Gone, Leaves, Of
  <2> QED
    BY <1>2, <2>1, Finds
<1>4. CASE Kind[r] = "realign"
  <2>1. row[f].ref \in Of("realign") /\ Committed(row[f].ref) /\ row[f].ref # f
    BY <1>1 DEF Base, Tables, Refs, Refers, Of
  <2>2. Present(row[f].ref)
        /\ (Deleting(row[f].ref) => /\ row[f].lock = row[row[f].ref].lock
                                    /\ row[f].change \in {"delete", "detach"})
    BY <1>1, <2>1 DEF Base, Tables, Family, Together
  <2>3. Visible(r, row[f].ref)
    BY <1>2, <2>1, <2>2 DEF Visible, Leaves, Deleting
  <2>4. row[row[f].ref].ref = req[r].sess
    BY <1>1, <1>4 DEF InSession, SessionOf
  <2>5. row[f].ref \in AlignmentsOf(r)
    BY <1>4, <2>1, <2>3, <2>4 DEF AlignmentsOf, Below, Scope
  <2>6. Visible(r, f)
    BY DEF Visible, Leaves
  <2> QED
    BY <1>2, <2>5, <2>6 DEF FindingsOf, Below
<1> QED
  BY <1>3, <1>4

LEMMA ReviewsBelow ==
    ASSUME NEW r \in Request, Kind[r] \in {"realign", "erase"}, NEW v \in ReviewsOf(r)
    PROVE  v \in Of("review") /\ Committed(v) /\ row[v].ref \in Of("analyse")
           /\ InSession(r, row[v].ref)
<1>1. v \in Of("review") /\ row[v].ref \in FindingsOf(r) /\ Visible(r, v)
  BY DEF ReviewsOf, Below
<1>2. Committed(v)
  BY <1>1 DEF Visible, Of
<1>3. row[v].ref \in Of("analyse") /\ row[row[v].ref].ref \in AlignmentsOf(r)
  BY <1>1 DEF FindingsOf, Below
<1>4. row[row[row[v].ref].ref].ref \in Scope(r)
  BY <1>3 DEF AlignmentsOf, Below
<1>5. Kind[r] = "realign" => SessionOf(row[v].ref) = req[r].sess
  BY <1>3, <1>4 DEF SessionOf, Scope, Of
<1> QED
  BY <1>1, <1>2, <1>3, <1>5 DEF InSession

\* Before its statement on reviews a request has taken none.
LEMMA NoneTaken ==
    ASSUME Base, Locking, NEW r \in Request, req[r].step <= ReviewStep(r),
           Kind[r] \in {"realign", "erase"}, NEW v \in Of("review")
    PROVE  row[v].lock # r
<1>1. req[r].step \in Nat /\ ReviewStep(r) \in Nat
  BY DEF Base, TypeInv, ReqType, ReqRecord, ReviewStep
<1>2. ~(req[r].step > ReviewStep(r))
  BY <1>1
<1> QED
  BY <1>2, ReviewLocks DEF Taken

\* While a statement waits, only what it has seen is new.
LEMMA WaitsRecord ==
    ASSUME Base, NEW r \in Request, NEW rows, Waits(r, rows)
    PROVE  /\ row' = row /\ ~req[r].waits /\ req'[r].waits = TRUE /\ req'[r].seen = Mine(r, rows)
           /\ req'[r].step = req[r].step /\ req'[r].end = req[r].end
           /\ req'[r].sess = req[r].sess /\ \A q \in Request \ {r} : req'[q] = req[q]
           /\ Mine(r, rows) \subseteq rows
<1>1. req \in [Request -> ReqRecord] /\ req[r] \in ReqRecord
  BY DEF Base, TypeInv, ReqType
<1>2. Mine(r, rows) \subseteq rows
  BY DEF Waits, Mine
<1> HIDE DEF Mine
<1>3. req' = [req EXCEPT ![r] = [req[r] EXCEPT !.waits = TRUE, !.seen = Mine(r, rows)]]
  BY <1>1 DEF Waits
<1>4. req'[r] = [req[r] EXCEPT !.waits = TRUE, !.seen = Mine(r, rows)]
  BY <1>1, <1>3
<1>5. ~req[r].waits /\ row' = row
  BY DEF Waits
<1> QED
  BY <1>1, <1>2, <1>3, <1>4, <1>5 DEF ReqRecord

\* The statement on reviews takes those whose findings it goes on to take.
LEMMA TakesReviews ==
    ASSUME Base, Locking, Reviewing, NEW r \in Request, Kind[r] \in {"realign", "erase"}, Fits(r),
           req[r].step = ReviewStep(r), NEW statement, NEW change \in {"delete", "detach"},
           Change(r, statement, ReviewsOf(r), change)
    PROVE  Awaited(r)' /\ \A x \in Row : InHand(r, x)'
<1> DEFINE mine == Mine(r, ReviewsOf(r))
<1>1. /\ Running(r) /\ Base' /\ RowType /\ req[r].step \in Nat /\ ReviewStep(r) \in Nat
      /\ req[r].step # Last[Kind[r]] /\ req[r].step <= ReviewStep(r)
      /\ Waits(r, ReviewsOf(r)) \/ Refuse(r) \/ Takes(r, ReviewsOf(r), change)
  BY ChangeIs, FitsBase DEF Base, TypeInv, ReqType, ReqRecord, ReviewStep, Last
<1>2. ASSUME NEW v \in mine
      PROVE  /\ v \in Of("review") /\ v \in Request /\ v \in Row /\ v # r /\ Committed(v) /\ Present(v)
             /\ row[v].ref # v /\ row[v].ref \in Of("analyse") /\ InSession(r, row[v].ref)
  <2>1. Present(v) /\ row[v].status # "superseded"
    BY DEF Mine
  <2>2. v \in Of("review") /\ Committed(v) /\ (row[v].ref # v => InSession(r, row[v].ref))
    <3>1. CASE req[r].waits
      <4>1. v \in req[r].seen
        BY <3>1 DEF Mine
      <4>2. Awaited(r)
        BY DEF Locking
      <4> QED
        BY <1>1, <2>1, <3>1, <4>1, <4>2 DEF Awaited
    <3>2. CASE ~req[r].waits
      <4>1. v \in ReviewsOf(r)
        BY <3>2 DEF Mine
      <4> QED
        BY <4>1, ReviewsBelow
    <3> QED
      BY <3>1, <3>2
  <2>3. row[v].ref # v
    BY <2>1, <2>2 DEF Reviewing, Detached
  <2> QED
    BY <1>1, <2>1, <2>2, <2>3, FindingOf DEF Of, Row, Committed, Running
<1> HIDE DEF mine
<1>3. CASE Refuse(r)
  <2>1. ~Running(r)'
    BY <1>1, <1>3, RefuseFits DEF Stops, Running
  <2> QED
    BY <1>1, <2>1, EndedHolds
<1>4. CASE Waits(r, ReviewsOf(r))
  <2>1. /\ row' = row /\ req'[r].seen = mine /\ req'[r].step = req[r].step
        /\ req'[r].sess = req[r].sess /\ \A q \in Request \ {r} : req'[q] = req[q]
    BY <1>4, WaitsRecord DEF mine
  <2>2. \A v \in mine : Committed(v)' /\ (Present(v)' /\ row'[v].ref # v => InSession(r, row[v].ref)')
    BY <1>2, <2>1 DEF Committed, InSession, SessionOf
  <2>3. Awaited(r)'
    BY <1>1, <1>2, <2>1, <2>2 DEF Awaited, ReviewStep, Of
  <2>4. \A v \in Of("review") : row'[v].lock # r
    BY <1>1, <2>1, NoneTaken
  <2> QED
    BY <2>3, <2>4 DEF InHand, Of
<1>5. CASE Takes(r, ReviewsOf(r), change)
  <2>1. Go(r) /\ Marks(r, mine, change) /\ change \in Changes
    BY <1>5 DEF Takes, mine, Changes
  <2>2. /\ req'[r].step = req[r].step + 1 /\ req'[r].sess = req[r].sess
        /\ req'[r].waits = FALSE /\ \A q \in Request \ {r} : req'[q] = req[q]
    BY <1>1, <2>1, GoFits DEF GoesOn
  <2>3. \A x \in Row : row'[x].ref = row[x].ref /\ (x \notin mine => row'[x] = row[x])
    BY <1>1, <2>1, OfMarks
  <2>4. ASSUME NEW x \in Of("review"), row'[x].lock = r PROVE Taken(r, x)'
    <3>1. x \in Row /\ x \in mine
      BY <1>1, <2>3, <2>4, NoneTaken DEF Of, Row
    <3>2. row'[x].ref = row[x].ref /\ Present(x)' /\ Committed(x)'
      BY <1>2, <2>2, <2>3, <3>1 DEF Present, Committed
    <3>3. SessionOf(row[x].ref)' = SessionOf(row[x].ref)
      BY <1>2, <2>4, <3>1, <3>2, BelowStays
    <3>4. InSession(r, row[x].ref)'
      BY <1>2, <2>2, <3>1, <3>3 DEF InSession
    <3>5. req'[r].step = ReviewStep(r) + 1 /\ ~(req'[r].step > ReviewStep(r) + 1)
          /\ req'[r].step > ReviewStep(r)
      BY <1>1, <2>2
    <3> QED
      BY <1>2, <2>2, <3>1, <3>2, <3>4, <3>5 DEF Taken, ReviewStep, Of, InSession, SessionOf
  <2>5. Awaited(r)'
    BY <2>2 DEF Awaited
  <2> QED
    BY <2>4, <2>5 DEF InHand, Of
<1> QED
  BY <1>1, <1>3, <1>4, <1>5

\* The statements after it leave reviews alone, and the first takes their findings.
LEMMA TakesOthers ==
    ASSUME Base, Locking, NEW r \in Request, Kind[r] \in {"realign", "erase"}, Fits(r),
           req[r].step > ReviewStep(r), req[r].step # Last[Kind[r]],
           NEW statement, NEW rows, Change(r, statement, rows, "delete"),
           rows \cap Of("review") = {}, req[r].step = ReviewStep(r) + 1 => rows = FindingsOf(r)
    PROVE  Awaited(r)' /\ \A x \in Row : InHand(r, x)'
<1> DEFINE mine == Mine(r, rows)
<1>1. /\ Running(r) /\ Base' /\ RowType /\ req[r].step \in Nat /\ ReviewStep(r) \in Nat
      /\ Waits(r, rows) \/ Refuse(r) \/ Takes(r, rows, "delete")
  BY ChangeIs, FitsBase DEF Base, TypeInv, ReqType, ReqRecord, ReviewStep
<1>2. mine \cap Of("review") = {}
  <2>1. Awaited(r)
    BY DEF Locking
  <2> QED
    BY <1>1, <2>1 DEF Awaited, Mine
<1>3. ASSUME NEW v \in Of("review"), row[v].lock = r
      PROVE  /\ Taken(r, v) /\ Present(v) /\ row[v].ref \in Of("analyse") /\ row[v].ref \in Row
             /\ Present(row[v].ref) /\ v \in Row /\ v # r /\ row[v].ref # v
             /\ Committed(v) /\ InSession(r, row[v].ref)
             /\ req[r].step = ReviewStep(r) + 1 => row[v].ref \in mine \/ Leaves(r, row[v].ref)
             /\ req[r].step # ReviewStep(r) + 1 => Leaves(r, row[v].ref)
  <2>1. Taken(r, v) /\ Present(v) /\ v \in Row /\ v # r
    BY <1>3, ReviewLocks DEF Of, Row
  <2>2. row[v].ref \in Of("analyse") /\ Committed(v) /\ InSession(r, row[v].ref) /\ row[v].ref # v
    BY <2>1 DEF Taken, Of
  <2>3. Present(row[v].ref) /\ Committed(row[v].ref) /\ row[v].ref \in Row
    BY <2>1, <2>2, FindingOf
  <2>4. row[row[v].ref].status # "superseded"
    BY <2>2, <2>3 DEF Base, Tables, Locks, LockOf, Of
  <2>5. ASSUME req[r].step = ReviewStep(r) + 1, ~Leaves(r, row[v].ref)
        PROVE  row[v].ref \in mine
    <3>1. CASE req[r].waits
      BY <2>1, <2>3, <2>4, <2>5, <3>1 DEF Taken, Mine
    <3>2. CASE ~req[r].waits
      <4>1. row[v].ref \in FindingsOf(r)
        BY <1>1, <2>2, <2>3, <2>5, FoundBelow
      <4> QED
        BY <2>3, <2>4, <2>5, <3>2, <4>1 DEF Mine
    <3> QED
      BY <3>1, <3>2
  <2>6. req[r].step # ReviewStep(r) + 1 => req[r].step > ReviewStep(r) + 1
    BY <1>1
  <2> QED
    BY <2>1, <2>2, <2>3, <2>5, <2>6 DEF Taken
<1> HIDE DEF mine
<1>4. CASE Refuse(r)
  <2>1. ~Running(r)'
    BY <1>1, <1>4, RefuseFits DEF Stops, Running
  <2> QED
    BY <1>1, <2>1, EndedHolds
<1>5. CASE Waits(r, rows)
  <2>1. /\ row' = row /\ req'[r].seen = mine /\ req'[r].step = req[r].step
        /\ req'[r].sess = req[r].sess /\ \A q \in Request \ {r} : req'[q] = req[q]
    BY <1>5, WaitsRecord DEF mine
  <2>2. Awaited(r)'
    <3>1. req'[r].step # ReviewStep(r)
      BY <1>1, <2>1
    <3> QED
      BY <1>2, <2>1, <3>1 DEF Awaited, ReviewStep, Of
  <2>3. ASSUME NEW x \in Of("review"), row'[x].lock = r PROVE Taken(r, x)'
    <3>1. row[x].lock = r /\ row'[x].ref = row[x].ref
      BY <2>1, <2>3
    <3>2. Committed(x)' /\ InSession(r, row[x].ref)'
      BY <1>3, <2>1, <2>3, <3>1 DEF Committed, InSession, SessionOf, Of
    <3>3. Leaves(r, row[x].ref) => Leaves(r, row[x].ref)'
      BY <2>1 DEF Leaves, Deleting
    <3>4. req[r].step > ReviewStep(r) + 1 => req[r].step # ReviewStep(r) + 1
      BY <1>1
    <3> QED
      BY <1>3, <2>1, <2>3, <3>1, <3>2, <3>3, <3>4
         DEF Taken, ReviewStep, Of, InSession, SessionOf, Leaves, Deleting
  <2> QED
    BY <2>2, <2>3 DEF InHand, Of
<1>6. CASE Takes(r, rows, "delete")
  <2>1. Go(r) /\ Marks(r, mine, "delete") /\ "delete" \in Changes
    BY <1>6 DEF Takes, mine, Changes
  <2>2. /\ req'[r].step = req[r].step + 1 /\ req'[r].sess = req[r].sess
        /\ req'[r].waits = FALSE /\ \A q \in Request \ {r} : req'[q] = req[q]
    BY <1>1, <2>1, GoFits DEF GoesOn
  <2>3. \A x \in Row : /\ row'[x].ref = row[x].ref /\ (x \notin mine => row'[x] = row[x])
                       /\ x \in mine => row'[x].lock = r /\ row'[x].change = "delete"
    BY <1>1, <2>1, OfMarks
  <2>4. ASSUME NEW x \in Of("review"), row'[x].lock = r PROVE Taken(r, x)'
    <3>1. x \in Row /\ x \notin mine /\ row'[x] = row[x] /\ row[x].lock = r
      BY <1>2, <2>3, <2>4 DEF Of, Row
    <3>2. Present(x)' /\ Committed(x)'
      BY <1>3, <2>2, <2>4, <3>1 DEF Present, Committed, Of
    <3>3. SessionOf(row[x].ref)' = SessionOf(row[x].ref)
      BY <1>3, <2>4, <3>1, <3>2, BelowStays
    <3>4. InSession(r, row[x].ref)'
      BY <1>3, <2>2, <2>4, <3>1, <3>3 DEF InSession
    <3>5. Leaves(r, row[x].ref)'
      <4>1. row[x].ref \in mine \/ Leaves(r, row[x].ref)
        BY <1>3, <2>4, <3>1
      <4> QED
        BY <1>3, <2>3, <2>4, <3>1, <4>1 DEF Leaves, Deleting
    <3>6. req'[r].step > ReviewStep(r)
      BY <1>1, <2>2
    <3> QED
      BY <1>3, <2>2, <2>4, <3>1, <3>2, <3>4, <3>5, <3>6
         DEF Taken, ReviewStep, Of, InSession, SessionOf, Leaves, Deleting
  <2>5. Awaited(r)'
    BY <2>2 DEF Awaited
  <2> QED
    BY <2>4, <2>5 DEF InHand, Of
<1> QED
  BY <1>1, <1>4, <1>5, <1>6

\* Reading, and inserting its own row, changes nothing of what it has in hand.
LEMMA StillHolds ==
    ASSUME Base, Locking, NEW r \in Request, Kind[r] \in {"realign", "erase"}, Fits(r),
           GoesOn(r), req'[r].waits = FALSE, row'[r].lock # r,
           \A x \in Row \ {r} : row'[x] = row[x],
           req[r].step > ReviewStep(r) =>
             req[r].step > ReviewStep(r) + 1 /\ req'[r].sess = req[r].sess
    PROVE  Awaited(r)' /\ \A x \in Row : InHand(r, x)'
<1>1. Running(r) /\ Base' /\ req[r].step \in Nat /\ ReviewStep(r) \in Nat /\ req'[r].step >= req[r].step
      /\ req'[r].step \in Nat
  BY FitsBase DEF Base, TypeInv, ReqType, ReqRecord, ReviewStep, GoesOn
<1>2. ASSUME NEW x \in Of("review"), row'[x].lock = r PROVE Taken(r, x)'
  <2>1. x \in Row /\ x # r /\ x \in Request /\ row'[x] = row[x] /\ row[x].lock = r
    BY <1>2 DEF Of, Row
  <2>2. Taken(r, x) /\ Present(x) /\ Present(x)'
    BY <2>1, ReviewLocks DEF Present
  <2>3. row[x].ref \in Of("analyse") /\ Committed(x) /\ InSession(r, row[x].ref) /\ row[x].ref # x
        /\ req[r].step > ReviewStep(r)
    BY <2>2 DEF Taken, Of
  <2>4. req[r].step > ReviewStep(r) + 1 /\ req'[r].sess = req[r].sess
    BY <2>3
  <2>5. row[x].ref \in Row /\ row[x].ref # r /\ Leaves(r, row[x].ref)
    BY <2>2, <2>3, <2>4, FindingOf DEF Taken, Of
  <2>6. Leaves(r, row[x].ref)'
    BY <2>1, <2>5 DEF Leaves, Deleting
  <2>7. SessionOf(row[x].ref)' = SessionOf(row[x].ref)
    BY <2>1, <2>2, <2>3, BelowStays
  <2>8. InSession(r, row[x].ref)' /\ Committed(x)'
    BY <2>1, <2>3, <2>4, <2>7 DEF InSession, Committed, GoesOn
  <2>9. req'[r].step > ReviewStep(r)
    BY <1>1, <2>3
  <2> QED
    BY <2>1, <2>3, <2>6, <2>8, <2>9 DEF Taken, ReviewStep, Of, InSession, SessionOf, Leaves, Deleting
<1>3. Awaited(r)'
  BY DEF Awaited
<1> QED
  BY <1>2, <1>3 DEF InHand, Of

\* A realignment and an erasure, statement by statement.
LEMMA RealignHolds ==
    ASSUME Base, Locking, Reviewing, NEW r \in Request, Kind[r] = "realign", Handle(r) \/ Fail(r)
    PROVE  Awaited(r)' /\ \A x \in Row : InHand(r, x)'
<1>0. /\ Fits(r) /\ Base' /\ ReqType /\ RowType /\ req[r].step \in Steps(r) /\ req[r].step \in Nat
      /\ ReviewStep(r) = 2 /\ r \in Row /\ (Running(r) => Picked(r)) /\ r # None
  BY HandleFits, FitsBase, NamesDiffer
     DEF Base, TypeInv, ReqType, ReqRecord, ReviewStep, Row, Picks
<1>1. CASE ~Running(r)'
  BY <1>0, <1>1, EndedHolds
<1>2. CASE Running(r)'
  <2>1. ~Fail(r) /\ ~Commit(r) /\ (Running(r) => ~Refuse(r))
    <3>1. ~(Running(r) /\ Refuse(r))
      BY <1>2, RefuseFits DEF Stops, Running
    <3>2. ~Commit(r)
      BY <1>2, CommitFits DEF Commits, Running
    <3> QED
      BY <3>1, <3>2 DEF Fail
  <2>2. persistSessionAlignments(r) \/ DeleteFindings(r) \/ DeleteAlignments(r)
    BY <2>1, HandleOf
  <2>3. CASE ReadSession(r)
    <3>1. Running(r) /\ req[r].step = 1 /\ req[r].step # Last[Kind[r]]
      BY <1>0, <2>3, Statements DEF ReadSession, At, Last
    <3>2. PICK s \in Session :
            row' = row /\ req' = [req EXCEPT ![r] = [Step(r) EXCEPT !.sess = s,
                                                                   !.before = CommittedOf("realign")]]
      BY <2>1, <2>3, <3>1 DEF ReadSession
    <3>3. Step(r) \in ReqRecord /\ Step(r).waits = FALSE /\ Step(r).step = req[r].step + 1
          /\ Step(r).end = req[r].end
      BY <1>0, <3>1, StepType
    <3>4. /\ req'[r].waits = FALSE /\ req'[r].step = 2 /\ req'[r].end = "none"
          /\ \A q \in Request \ {r} : req'[q] = req[q]
      BY <1>0, <3>1, <3>2, <3>3 DEF ReqType, ReqRecord, Running
    <3>5. GoesOn(r)
      BY <3>1, <3>4 DEF GoesOn
    <3>6. row'[r].lock # r
      BY <1>0, <3>1, <3>2, NamesDiffer
         DEF Base, Tables, Refs, Refers, Locks, LockOf, Holds, InsertStep, Committed, Running
    <3>7. ~(req[r].step > ReviewStep(r)) /\ \A x \in Row \ {r} : row'[x] = row[x]
      BY <1>0, <3>1, <3>2
    <3> QED
      BY <1>0, <3>4, <3>5, <3>6, <3>7, StillHolds
  <2>4. CASE DetachReviews(r)
    <3>1. Change(r, "detachReviews", ReviewsOf(r), "detach")
      BY <2>4 DEF DetachReviews
    <3>2. req[r].step = ReviewStep(r)
      BY <1>0, <3>1, ChangeIs, Statements
    <3> QED
      BY <1>0, <3>1, <3>2, TakesReviews
  <2>5. CASE DeleteFindings(r)
    <3>1. Change(r, "deleteFindings", FindingsOf(r), "delete")
      BY <2>5 DEF DeleteFindings
    <3>2. req[r].step = ReviewStep(r) + 1 /\ req[r].step # Last[Kind[r]] /\ req[r].step > ReviewStep(r)
      BY <1>0, <3>1, ChangeIs, Statements DEF Last
    <3>3. FindingsOf(r) \cap Of("review") = {}
      BY RowsOf DEF Of
    <3> QED
      BY <1>0, <3>1, <3>2, <3>3, TakesOthers
  <2>6. CASE DeleteAlignments(r)
    <3>1. Change(r, "deleteAlignments", AlignmentsOf(r), "delete")
      BY <2>6 DEF DeleteAlignments
    <3>2. req[r].step = 4 /\ req[r].step # Last[Kind[r]] /\ req[r].step > ReviewStep(r)
          /\ req[r].step # ReviewStep(r) + 1
      BY <1>0, <3>1, ChangeIs, Statements DEF Last
    <3>3. AlignmentsOf(r) \cap Of("review") = {}
      BY RowsOf DEF Of
    <3> QED
      BY <1>0, <3>1, <3>2, <3>3, TakesOthers
  <2>7. CASE InsertAlignments(r)
    <3>1. Running(r) /\ req[r].step = 5 /\ req[r].step # Last[Kind[r]]
          /\ req[r].sess \in Session /\ req[r].sess # r
      BY <1>0, <2>7, Statements, NamesDiffer DEF InsertAlignments, Insert, At, Last, Picked
    <3>2. Go(r) /\ (row' = row \/ Inserts(r, req[r].sess, FALSE))
      BY <2>1, <2>7, <3>1 DEF InsertAlignments, Insert, Inserts
    <3>3. GoesOn(r) /\ req'[r].waits = FALSE /\ req'[r].sess = req[r].sess
      BY <3>1, <3>2, GoFits
    <3>4. \A x \in Row \ {r} : row'[x] = row[x]
      BY <1>0, <3>1, <3>2, OfInserts DEF Row
    <3>5. row'[r].lock # r
      <4>1. CASE row' = row
        BY <1>0, <3>1, <4>1, NamesDiffer
           DEF Base, Tables, Refs, Refers, Locks, LockOf, Holds, InsertStep, Committed, Running
      <4>2. CASE Inserts(r, req[r].sess, FALSE)
        BY <1>0, <3>1, <4>2, OfInserts DEF Row
      <4> QED
        BY <3>2, <4>1, <4>2
    <3>6. req[r].step > ReviewStep(r) + 1
      BY <1>0, <3>1
    <3> QED
      BY <1>0, <3>3, <3>4, <3>5, <3>6, StillHolds
  <2> QED
    BY <2>2, <2>3, <2>4, <2>5, <2>6, <2>7 DEF persistSessionAlignments
<1> QED
  BY <1>1, <1>2

LEMMA EraseHolds ==
    ASSUME Base, Locking, Reviewing, NEW r \in Request, Kind[r] = "erase", Handle(r) \/ Fail(r)
    PROVE  Awaited(r)' /\ \A x \in Row : InHand(r, x)'
<1>0. /\ Fits(r) /\ Base' /\ ReqType /\ RowType /\ req[r].step \in Steps(r) /\ req[r].step \in Nat
      /\ ReviewStep(r) = 3 /\ r \in Row /\ r # None
  BY HandleFits, FitsBase, NamesDiffer
     DEF Base, TypeInv, ReqType, ReqRecord, ReviewStep, Row
<1>1. CASE ~Running(r)'
  BY <1>0, <1>1, EndedHolds
<1>2. CASE Running(r)'
  <2>1. ~Fail(r) /\ ~Commit(r) /\ (Running(r) => ~Refuse(r))
    <3>1. ~(Running(r) /\ Refuse(r))
      BY <1>2, RefuseFits DEF Stops, Running
    <3>2. ~Commit(r)
      BY <1>2, CommitFits DEF Commits, Running
    <3> QED
      BY <3>1, <3>2 DEF Fail
  <2>2. createPrivacyJob(r) \/ DeleteFindings(r) \/ DeleteAlignments(r)
    BY <2>1, HandleOf
  <2>3. Running(r) => row[r].lock # r
    BY <1>0 DEF Base, Tables, Refs, Refers, Locks, LockOf, Holds, Row
  <2>4. CASE eraseMlAudio(r)
    <3>1. Running(r) /\ req[r].step = 1 /\ req[r].step # Last[Kind[r]]
      BY <1>0, <2>4, Statements DEF eraseMlAudio, At, Last
    <3>2. Go(r) /\ row' = row
      BY <2>1, <2>4, <3>1 DEF eraseMlAudio
    <3>3. GoesOn(r) /\ req'[r].waits = FALSE
      BY <3>1, <3>2, GoFits
    <3>4. ~(req[r].step > ReviewStep(r)) /\ row'[r].lock # r /\ \A x \in Row \ {r} : row'[x] = row[x]
      BY <1>0, <2>3, <3>1, <3>2
    <3> QED
      BY <1>0, <3>3, <3>4, StillHolds
  <2>5. CASE /\ At(r, "readRecords")
             /\ req' = [req EXCEPT ![r] = [Step(r) EXCEPT !.receipt = Records(r)]]
             /\ row' = row
    <3>1. GoesOn(r) /\ req[r].step = 2 /\ req'[r].waits = FALSE /\ Running(r)
      BY <2>5, ReadRecordsFits DEF At
    <3>2. ~(req[r].step > ReviewStep(r)) /\ row'[r].lock # r /\ \A x \in Row \ {r} : row'[x] = row[x]
      BY <1>0, <2>3, <2>5, <3>1
    <3> QED
      BY <1>0, <3>1, <3>2, StillHolds
  <2>6. CASE Change(r, "deleteReviews", ReviewsOf(r), "delete")
    <3>1. req[r].step = ReviewStep(r)
      BY <1>0, <2>6, ChangeIs, Statements
    <3> QED
      BY <1>0, <2>6, <3>1, TakesReviews
  <2>7. CASE DeleteFindings(r)
    <3>1. Change(r, "deleteFindings", FindingsOf(r), "delete")
      BY <2>7 DEF DeleteFindings
    <3>2. req[r].step = ReviewStep(r) + 1 /\ req[r].step # Last[Kind[r]] /\ req[r].step > ReviewStep(r)
      BY <1>0, <3>1, ChangeIs, Statements DEF Last
    <3>3. FindingsOf(r) \cap Of("review") = {}
      BY RowsOf DEF Of
    <3> QED
      BY <1>0, <3>1, <3>2, <3>3, TakesOthers
  <2>8. CASE DeleteAlignments(r)
    <3>1. Change(r, "deleteAlignments", AlignmentsOf(r), "delete")
      BY <2>8 DEF DeleteAlignments
    <3>2. req[r].step = 5 /\ req[r].step # Last[Kind[r]] /\ req[r].step > ReviewStep(r)
          /\ req[r].step # ReviewStep(r) + 1
      BY <1>0, <3>1, ChangeIs, Statements DEF Last
    <3>3. AlignmentsOf(r) \cap Of("review") = {}
      BY RowsOf DEF Of
    <3> QED
      BY <1>0, <3>1, <3>2, <3>3, TakesOthers
  <2>9. CASE Change(r, "deleteSessions", Scope(r), "delete")
    <3>1. req[r].step = 6 /\ req[r].step # Last[Kind[r]] /\ req[r].step > ReviewStep(r)
          /\ req[r].step # ReviewStep(r) + 1
      BY <1>0, <2>9, ChangeIs, Statements DEF Last
    <3>2. Scope(r) \cap Of("review") = {}
      BY NamesDiffer DEF Scope, Of
    <3> QED
      BY <1>0, <2>9, <3>1, <3>2, TakesOthers
  <2> QED
    BY <2>2, <2>4, <2>5, <2>6, <2>7, <2>8, <2>9 DEF createPrivacyJob, Records
<1> QED
  BY <1>1, <1>2

\* A review has its finding locked when it has set the status its decision stands for.
LEMMA ReviewHolds ==
    ASSUME Base, Locking, NEW r \in Request, Kind[r] = "review", Handle(r) \/ Fail(r)
    PROVE  Awaited(r)' /\ \A x \in Row : InHand(r, x)'
<1>0. /\ Fits(r) /\ Base' /\ ReqType /\ RowType /\ req[r].step \in Steps(r) /\ req[r].step \in Nat
      /\ r \in Row /\ (Running(r) => Picked(r)) /\ r # None
  BY HandleFits, FitsBase, NamesDiffer DEF Base, TypeInv, ReqType, ReqRecord, Row, Picks
<1>1. CASE ~Running(r)'
  BY <1>0, <1>1, EndedHolds
<1>2. CASE Running(r)'
  <2>1. ~Fail(r) /\ ~Commit(r) /\ (Running(r) => ~Refuse(r))
    <3>1. ~(Running(r) /\ Refuse(r))
      BY <1>2, RefuseFits DEF Stops, Running
    <3>2. ~Commit(r)
      BY <1>2, CommitFits DEF Commits, Running
    <3> QED
      BY <3>1, <3>2 DEF Fail
  <2>2. ReadFinding(r) \/ Insert(r, "insertReview", req[r].ref, FALSE) \/ Promote(r)
    BY <2>1, HandleOf DEF createTeacherReview
  <2>3. \A x \in Row : row[x].lock = r => req[r].step = 4
    BY DEF Locking, InHand
  <2> SUFFICES \A x \in Row : row'[x].lock = r =>
                 /\ req'[r].step = 4 /\ x = req'[r].ref /\ row'[x].change = Promoted[req'[r].decision]
    BY DEF Awaited, InHand
  <2>4. CASE ReadFinding(r)
    <3>1. Running(r) /\ req[r].step = 1
      BY <1>0, <2>4, Statements DEF ReadFinding, At
    <3>2. row' = row
      BY <2>1, <2>4, <3>1 DEF ReadFinding
    <3> QED
      BY <2>3, <3>1, <3>2
  <2>5. CASE Insert(r, "insertReview", req[r].ref, FALSE)
    <3>1. Running(r) /\ req[r].step = 2 /\ req[r].ref \in Row
      BY <1>0, <2>5, Statements DEF Insert, At, Picked, Of, Row
    <3>2. Inserts(r, req[r].ref, FALSE)
      BY <2>1, <2>5, <3>1 DEF Insert, Inserts
    <3>3. row'[r].lock = None /\ \A x \in Row \ {r} : row'[x] = row[x]
      BY <1>0, <3>1, <3>2, OfInserts
    <3>4. \A x \in Row : row[x].lock # r
      BY <2>3, <3>1
    <3> QED
      BY <1>0, <3>3, <3>4
  <2>6. CASE Promote(r)
    <3>1. Running(r) /\ req[r].step = 3 /\ req[r].step # Last[Kind[r]] /\ req[r].ref \in Row
      BY <1>0, <2>6, Statements DEF Promote, SetStatus, At, Picked, Last, Of, Row
    <3>2. Go(r)
      BY <2>6 DEF Promote, SetStatus
    <3>3. /\ req'[r].step = req[r].step + 1 /\ req'[r].step = 4
          /\ req'[r].ref = req[r].ref /\ req'[r].decision = req[r].decision
      <4>1. /\ req'[r].step = req[r].step + 1
            /\ req'[r].ref = req[r].ref /\ req'[r].decision = req[r].decision
        BY <3>1, <3>2, GoFits
      <4> QED
        BY <3>1, <4>1
    <3>4. CASE row' = row
      BY <2>3, <3>1, <3>4
    <3>5. CASE row' = [row EXCEPT ![req[r].ref].lock = r,
                                  ![req[r].ref].change = Promoted[req[r].decision]]
      <4>1. \A x \in Row : x # req[r].ref => row'[x] = row[x]
        BY <1>0, <3>5 DEF RowType
      <4>2. row'[req[r].ref].change = Promoted[req[r].decision]
        BY <1>0, <3>1, <3>5 DEF RowType, RowRecord
      <4> QED
        BY <2>3, <3>1, <3>3, <4>1, <4>2
    <3> QED
      BY <2>6, <3>4, <3>5 DEF Promote, SetStatus
  <2> QED
    BY <2>2, <2>4, <2>5, <2>6
<1> QED
  BY <1>1, <1>2

\* A request to a teacher locks its session, an analysis nothing.
LEMMA SendHolds ==
    ASSUME Base, Locking, NEW r \in Request, Kind[r] \in {"send", "analyse"}, Handle(r) \/ Fail(r)
    PROVE  Awaited(r)' /\ \A x \in Row : InHand(r, x)'
<1>0. /\ Fits(r) /\ Base' /\ RowType /\ req[r].step \in Steps(r)
      /\ r \in Row /\ (Running(r) => Picked(r)) /\ r # None
  BY HandleFits, FitsBase, NamesDiffer DEF Base, TypeInv, ReqType, Row, Picks
<1>1. CASE ~Running(r)'
  BY <1>0, <1>1, EndedHolds
<1>2. CASE Kind[r] = "analyse"
  BY <1>2 DEF Awaited, InHand
<1>3. CASE Running(r)' /\ Kind[r] = "send"
  <2>1. ~Fail(r) /\ ~Commit(r) /\ (Running(r) => ~Refuse(r))
    <3>1. ~(Running(r) /\ Refuse(r))
      BY <1>3, RefuseFits DEF Stops, Running
    <3>2. ~Commit(r)
      BY <1>3, CommitFits DEF Commits, Running
    <3> QED
      BY <3>1, <3>2 DEF Fail
  <2>2. requestTeacherReview(r) /\ Running(r)
    BY <1>3, <2>1, HandleOf DEF requestTeacherReview, SetStatus, At
  <2>3. \A x \in Row : row[x].lock = r => x \in Session
    BY <1>3 DEF Locking, InHand
  <2> SUFFICES \A x \in Row : row'[x].lock = r => x \in Session
    BY <1>3 DEF Awaited, InHand
  <2>4. CASE row' = row
    BY <2>3, <2>4
  <2>5. CASE SetStatus(r, "markSent", req[r].sess, "teacher-review-required")
    <3>1. req[r].step = 2 /\ req[r].sess \in Session
      BY <1>0, <1>3, <2>2, <2>5, Statements DEF SetStatus, Picked
    <3>2. \A x \in Row : x # req[r].sess => row'[x] = row[x]
      BY <1>0, <2>5 DEF SetStatus, RowType
    <3> QED
      BY <2>3, <3>1, <3>2
  <2> QED
    BY <2>1, <2>2, <2>4, <2>5 DEF requestTeacherReview, Answer
<1> QED
  BY <1>1, <1>2, <1>3

LEMMA LockingKept ==
    ASSUME Base, Locking, Reviewing, NEW r \in Request, Handle(r) \/ Fail(r)
    PROVE  Locking'
<1>1. \A q \in Request \ {r} : Awaited(q)' /\ \A x \in Row : InHand(q, x)'
  BY HandleFits, OthersHold
<1>2. Awaited(r)' /\ \A x \in Row : InHand(r, x)'
  BY RealignHolds, EraseHolds, ReviewHolds, SendHolds, KindIsOne DEF Kinds
<1> QED
  BY <1>1, <1>2 DEF Locking

-----------------------------------------------------------------------------
(* Reviews.                                                                   *)

\* A review that is below nothing was superseded.
LEMMA DetachedKept ==
    ASSUME Base, Locking, NEW r \in Request, Fits(r), NEW v \in Of("review"), Detached(v)
    PROVE  Detached(v)'
<1> SUFFICES ASSUME Present(v)', row'[v].ref = v PROVE row'[v].status = "superseded"
  BY DEF Detached, Of
<1>1. RowType /\ Effect(r) /\ v \in Row /\ v # None
  BY NamesDiffer DEF Base, TypeInv, Fits, Of, Row
<1>2. CASE /\ row'[v].ref = row[v].ref /\ row'[v].status = row[v].status
  BY <1>1, <1>2 DEF Detached, Present
<1>3. CASE Commits(r) /\ Settles(r) /\ row[v].lock = r
  <2>1. row[v].change \in {"delete", "detach"}
    BY <1>3, ReviewLocks
  <2>2. row[v].change # "delete"
    <3>1. row[v].change = "delete" => row'[v] = GoneRow
      BY <1>1, <1>3, OfSettles
    <3> QED
      BY <1>1, <3>1 DEF GoneRow, NoRow
  <2>3. row'[v] = [NoRow EXCEPT !.ref = v, !.status = "superseded"]
    BY <1>1, <1>3, <2>1, <2>2, OfSettles
  <2> QED
    BY <2>3 DEF NoRow
<1>4. CASE v = r /\ ~Commits(r)
  <2>1. CASE Undoes(r)
    BY <1>1, <1>4, <2>1, OfUndoes DEF NoRow
  <2>2. CASE row' = row
    BY <1>2, <2>2
  <2>3. ASSUME NEW mine, NEW change, MayMark(r, mine, change), Marks(r, mine, change)
        PROVE  row'[v].ref = row[v].ref /\ row'[v].status = row[v].status
    BY <1>1, <2>3, OfMarks DEF MayMark
  <2>4. ASSUME NEW parent, NEW sourced \in BOOLEAN, MayInsert(r, parent), Inserts(r, parent, sourced)
        PROVE  FALSE
    BY <1>1, <1>4, <2>4, OfInserts DEF MayInsert
  <2> QED
    BY <1>1, <1>2, <1>4, <2>1, <2>2, <2>3, <2>4 DEF Effect, Nothing
<1> QED
  BY <1>1, <1>2, <1>3, <1>4, RowStays

\* What a review on its way has read of its finding stays so whatever others do.
LEMMA OthersJudge ==
    ASSUME Base, Locking, NEW r \in Request, Fits(r), NEW v \in Of("review") \ {r}, Judging(v)
    PROVE  Judging(v)'
<1> SUFFICES ASSUME Running(v) PROVE Judging(v)'
  BY DEF Judging, Running, Of, Fits, Effect, Stops, Commits, GoesOn
<1>1. /\ v \in Request /\ v \in Row /\ Kind[v] = "review" /\ req'[v] = req[v] /\ v # r
      /\ Running(r) /\ Picked(v) /\ req[v].step \in Nat
  BY DEF Of, Row, Fits, Effect, Stops, Commits, GoesOn, Base, Picks, TypeInv, ReqType, ReqRecord
<1>2. row'[v].ref = row[v].ref
  <2>1. row[v].lock # r
    BY ReviewLocks DEF Taken, Committed, Running
  <2> QED
    BY <1>1, <2>1, RowStays
<1>3. ASSUME req[v].step >= 2, row'[req[v].ref].ref # None
      PROVE  Present(req[v].ref) /\ row'[req[v].ref].sourced = row[req[v].ref].sourced
  <2>1. req[v].ref \in Of("analyse") /\ Committed(req[v].ref)
    BY <1>1, <1>3 DEF Picked
  <2> SUFFICES ASSUME NEW f \in Of("analyse"), f = req[v].ref
               PROVE  Present(f) /\ row'[f].sourced = row[f].sourced
    BY <2>1
  <2>2. f # r /\ Present(f)'
    BY <1>1, <1>3, <2>1 DEF Committed, Running, Present
  <2> QED
    BY <2>2, FindingStays
<1> QED
  BY <1>1, <1>2, <1>3 DEF Judging, Present

LEMMA OwnJudges ==
    ASSUME Base, NEW r \in Of("review"), Judging(r), Handle(r) \/ Fail(r)
    PROVE  Judging(r)'
<1>0. /\ r \in Request /\ r \in Row /\ Kind[r] = "review" /\ Fits(r) /\ RowType /\ ReqType
      /\ req[r].step \in Steps(r) /\ (Running(r) => Picked(r))
  BY HandleFits DEF Of, Row, Base, TypeInv, ReqType, Picks
<1> SUFFICES ASSUME Running(r)' PROVE Judging(r)'
  BY DEF Judging
<1>1. ~Fail(r) /\ ~Commit(r) /\ (Running(r) => ~Refuse(r))
  <2>1. ~(Running(r) /\ Refuse(r))
    BY <1>0, RefuseFits DEF Stops, Running
  <2>2. ~Commit(r)
    BY <1>0, CommitFits DEF Commits, Running
  <2> QED
    BY <2>1, <2>2 DEF Fail
<1>2. ReadFinding(r) \/ Insert(r, "insertReview", req[r].ref, FALSE) \/ Promote(r)
  BY <1>0, <1>1, HandleOf DEF createTeacherReview
<1>3. CASE ReadFinding(r)
  <2>1. Running(r) /\ req[r].step = 1 /\ req[r].step # Last[Kind[r]]
    BY <1>0, <1>3, Statements DEF ReadFinding, At, Last
  <2>2. PICK f \in Of("analyse"), decision \in DOMAIN Promoted :
          /\ Reviewable(f, decision) /\ row' = row
          /\ req' = [req EXCEPT ![r] = [Step(r) EXCEPT !.ref = f, !.decision = decision]]
    BY <1>1, <1>3, <2>1 DEF ReadFinding
  <2>3. Step(r) \in ReqRecord /\ Step(r).step = req[r].step + 1
    BY <1>0, <2>1, StepType
  <2>4. req'[r].step = 2 /\ req'[r].ref = f /\ req'[r].decision = decision
    BY <1>0, <2>1, <2>2, <2>3 DEF ReqType, ReqRecord
  <2> QED
    BY <2>2, <2>4 DEF Judging, Reviewable, Present
<1>4. CASE Insert(r, "insertReview", req[r].ref, FALSE)
  <2>1. /\ Running(r) /\ req[r].step = 2 /\ req[r].step # Last[Kind[r]]
        /\ req[r].ref \in Row /\ req[r].ref # r
    BY <1>0, <1>4, Statements DEF Insert, At, Last, Picked, Of, Row
  <2>2. Go(r) /\ Inserts(r, req[r].ref, FALSE)
    BY <1>1, <1>4, <2>1 DEF Insert, Inserts
  <2>3. req'[r].ref = req[r].ref /\ req'[r].decision = req[r].decision
    BY <1>0, <2>1, <2>2, GoFits
  <2>4. row'[r].ref = req[r].ref /\ row'[req[r].ref] = row[req[r].ref]
    BY <1>0, <2>1, <2>2, OfInserts
  <2> QED
    BY <2>1, <2>3, <2>4 DEF Judging, Present
<1>5. CASE Promote(r)
  <2>1. Running(r) /\ req[r].step = 3 /\ req[r].step # Last[Kind[r]] /\ req[r].ref \in Row
    BY <1>0, <1>5, Statements DEF Promote, SetStatus, At, Picked, Last, Of, Row
  <2>2. Go(r)
    BY <1>5 DEF Promote, SetStatus
  <2>3. req'[r].ref = req[r].ref /\ req'[r].decision = req[r].decision
    BY <1>0, <2>1, <2>2, GoFits
  <2>4. \A x \in Row : row'[x].ref = row[x].ref /\ row'[x].sourced = row[x].sourced
    <3>1. CASE row' = row
      BY <3>1
    <3>2. CASE row' = [row EXCEPT ![req[r].ref].lock = r,
                                  ![req[r].ref].change = Promoted[req[r].decision]]
      BY <1>0, <3>2 DEF RowType, RowRecord
    <3> QED
      BY <1>5, <3>1, <3>2 DEF Promote, SetStatus
  <2> QED
    BY <1>0, <2>1, <2>3, <2>4 DEF Judging, Present
<1> QED
  BY <1>2, <1>3, <1>4, <1>5

LEMMA ReviewingKept ==
    ASSUME Base, Locking, Reviewing, NEW r \in Request, Handle(r) \/ Fail(r)
    PROVE  Reviewing'
<1>1. Fits(r)
  BY HandleFits
<1>2. ASSUME NEW v \in Of("review") PROVE Judging(v)' /\ Detached(v)'
  BY <1>1, OthersJudge, OwnJudges, DetachedKept DEF Reviewing
<1> QED
  BY <1>2 DEF Reviewing, Of

-----------------------------------------------------------------------------
(* Verdicts.                                                                  *)

\* A committed review of a finding that is there stays, and stays a review of it.
LEMMA WitnessStays ==
    ASSUME Base, Locking, NEW r \in Request, Handle(r) \/ Fail(r), NEW f \in Of("analyse"),
           Present(f)', NEW v \in CommittedOf("review"), row[v].ref = f
    PROVE  v \in CommittedOf("review")' /\ row'[v].ref = f /\ req'[v] = req[v]
<1>1. /\ v \in Of("review") /\ Committed(v) /\ v \in Request /\ v \in Row /\ Fits(r) /\ Running(r)
      /\ v # r
  BY HandleFits
     DEF CommittedOf, Of, Row, Fits, Effect, Stops, Commits, GoesOn, Committed, Running
<1>2. req'[v] = req[v]
  BY <1>1 DEF Fits, Effect, Stops, Commits, GoesOn
<1>3. ~(Commits(r) /\ Settles(r) /\ row[v].lock = r)
  <2> SUFFICES ASSUME Commits(r), Settles(r), row[v].lock = r PROVE FALSE
    OBVIOUS
  <2>1. Kind[r] \in {"realign", "erase"} /\ Taken(r, v)
    BY <1>1, ReviewLocks
  <2>2. req[r].step = Last[Kind[r]]
    BY OnlyCommits, CommitFits DEF Commits
  <2>3. req[r].step > ReviewStep(r) + 1
    BY <2>1, <2>2 DEF Last, ReviewStep
  <2>4. row[f].lock = r /\ row[f].change = "delete" /\ f \in Row
    BY <2>1, <2>3 DEF Taken, Leaves, Deleting, Of, Row
  <2>5. row'[f] = GoneRow
    BY <2>4, OfSettles DEF Base, TypeInv
  <2> QED
    BY <2>5 DEF Present, GoneRow, NoRow
<1>4. row'[v].ref = row[v].ref
  BY <1>1, <1>3, RowStays
<1> QED
  BY <1>1, <1>2, <1>4 DEF CommittedOf, Of, Committed

\* A finding gets its status when a review of it commits, and from nothing else.
LEMMA JudgedKept ==
    ASSUME Base, Verdicts, NEW r \in Request, Handle(r) \/ Fail(r), NEW f \in Of("analyse")
    PROVE  Judged(f)'
<1> SUFFICES ASSUME Present(f)', row'[f].status # "none" PROVE Judged(f)'
  BY DEF Judged
<1>1. /\ Locking /\ Reviewing /\ Judged(f) /\ Fits(r) /\ RowType /\ f \in Row /\ f \in Request
      /\ Kind[f] = "analyse" /\ f \notin Of("review") /\ f \notin Session /\ r # None
  BY HandleFits, NamesDiffer DEF Verdicts, Base, TypeInv, Of, Row
\* Its status is what it was.
<1>2. ASSUME row'[f].status = row[f].status, row'[f].sourced = row[f].sourced, Present(f)
      PROVE  Judged(f)'
  <2>1. PICK v \in CommittedOf("review") : row[v].ref = f /\ Promoted[req[v].decision] = row[f].status
    BY <1>1, <1>2 DEF Judged
  <2>2. v \in CommittedOf("review")' /\ row'[v].ref = f /\ req'[v] = req[v]
    BY <1>1, <2>1, WitnessStays
  <2> QED
    BY <1>1, <1>2, <2>1, <2>2 DEF Judged
\* The request that had it locked commits.
<1>3. ASSUME Commits(r), Settles(r), row[f].lock = r, row[f].change \notin {"delete", "detach"},
             row'[f].status = row[f].change, row'[f].sourced = row[f].sourced, Present(f)
      PROVE  Judged(f)'
  <2>1. Holds(f, r) /\ InHand(r, f)
    BY <1>1, <1>3 DEF Base, Tables, Locks, LockOf, Locking
  <2>2. Kind[r] = "review"
    BY <1>1, <1>3, <2>1, KindIsOne DEF Holds, InHand, Kinds
  <2>3. req[r].step = 4 /\ f = req[r].ref /\ row[f].change = Promoted[req[r].decision]
        /\ Running(r) /\ r \in Of("review") /\ r \in Row /\ Picked(r)
    BY <1>3, <2>1, <2>2 DEF InHand, Holds, Of, Row, Base, Picks
  <2>4. row[r].ref = f /\ (req[r].decision = "accepted" => row[f].sourced)
    BY <1>1, <1>3, <2>3 DEF Reviewing, Judging
  <2>5. row[r].lock # r
    BY <1>1, <2>2, <2>3, ReviewLocks
  <2>6. row'[r] = row[r]
    BY <1>1, <1>3, <2>3, <2>5, OfSettles
  <2>7. req'[r].decision = req[r].decision
    <3>1. Commit(r)
      BY <1>3, OnlyCommits DEF Commits
    <3> QED
      BY <3>1 DEF Commit, Base, TypeInv, ReqType, ReqRecord
  <2>8. r \in CommittedOf("review")'
    BY <1>3, <2>3 DEF CommittedOf, Of, Commits, Committed
  <2>9. Promoted[req[r].decision] = "teacher-reviewed" => req[r].decision = "accepted"
    BY <2>2, <2>3 DEF Picked, Promoted
  <2> QED
    BY <1>3, <2>3, <2>4, <2>6, <2>7, <2>8, <2>9 DEF Judged
<1>4. CASE f # r \/ Commits(r)
  BY <1>1, <1>2, <1>3, <1>4, FindingStays
<1>5. CASE f = r /\ ~Commits(r)
  <2>1. CASE Undoes(r)
    BY <1>1, <1>5, <2>1, OfUndoes DEF Present, NoRow
  <2>2. CASE row' = row
    BY <1>2, <2>2 DEF Present
  <2>3. ASSUME NEW mine, NEW change, MayMark(r, mine, change)
        PROVE  FALSE
    BY <1>1, <1>5, <2>3 DEF MayMark
  <2>4. ASSUME NEW parent, NEW sourced \in BOOLEAN, MayInsert(r, parent), Inserts(r, parent, sourced)
        PROVE  FALSE
    BY <1>1, <1>5, <2>4, OfInserts DEF MayInsert
  <2> QED
    BY <1>1, <1>5, <2>1, <2>2, <2>3, <2>4 DEF Fits, Effect, Nothing
<1> QED
  BY <1>4, <1>5

LEMMA StepVerdicts == Base /\ Verdicts /\ [Next]_vars => Verdicts'
<1> SUFFICES ASSUME Base, Verdicts, [Next]_vars PROVE Verdicts'
  OBVIOUS
<1>1. ASSUME NEW r \in Request, Handle(r) \/ Fail(r) PROVE Verdicts'
  <2>1. Locking' /\ Reviewing'
    BY <1>1, LockingKept, ReviewingKept DEF Verdicts
  <2>2. \A f \in Of("analyse") : Judged(f)'
    BY <1>1, JudgedKept
  <2> QED
    BY <2>1, <2>2 DEF Verdicts, Of
\* A session that is opened has no row yet that could be below it.
<1>2. ASSUME NEW s \in Session, CreateSession(s) PROVE Verdicts'
  <2>1. Creates(s) /\ req' = req /\ row[s] = NoRow /\ RowType /\ s \in Row
    BY <1>2, CreateKeeps DEF Base, TypeInv, Row
  <2>2. row'[s].lock = None /\ \A x \in Row \ {s} : row'[x] = row[x]
    BY <2>1, OfCreates
  <2>3. \A x \in Request : row'[x] = row[x] /\ x \in Row /\ x # None
    BY <2>2, NamesDiffer DEF Row
  <2>4. \A k : Of(k)' = Of(k) /\ Of(k) \subseteq Request
    BY DEF Of
  <2>5. ASSUME NEW f \in Of("analyse"), Present(f) PROVE SessionOf(f)' = SessionOf(f)
    <3>1. f \in Request /\ f \in Row /\ Kind[f] = "analyse" /\ Refers(f)
      BY <2>5 DEF Of, Row, Base, Tables, Refs
    <3>2. row[f].ref \in Request
      BY <3>1 DEF Refers, Of
    <3> QED
      BY <2>3, <3>1, <3>2 DEF SessionOf
  <2>6. ASSUME NEW v \in Of("review"), Present(v), row[v].ref # v, NEW r \in Request,
               InSession(r, row[v].ref)
        PROVE  InSession(r, row[v].ref)'
    <3>1. SessionOf(row[v].ref)' = SessionOf(row[v].ref)
      BY <2>3, <2>4, <2>5, <2>6, FindingOf DEF SessionOf
    <3> QED
      BY <2>1, <2>6, <3>1 DEF InSession
  <2>7. ASSUME NEW r \in Request PROVE Awaited(r)'
    <3>1. Awaited(r)
      BY DEF Verdicts, Locking
    <3> QED
      BY <2>1, <2>3, <2>4, <2>6, <3>1
         DEF Awaited, Running, Committed, Present, ReviewStep, InSession, SessionOf
  <2>8. ASSUME NEW r \in Request, NEW x \in Row, row'[x].lock = r PROVE InHand(r, x)'
    <3>1. x # s /\ row'[x] = row[x] /\ InHand(r, x)
      BY <2>2, <2>3, <2>8 DEF Verdicts, Locking
    <3>2. ASSUME Kind[r] \in {"realign", "erase"}, x \in Of("review") PROVE Taken(r, x)'
      <4>1. Taken(r, x) /\ Present(x) /\ x \in Request
        BY <2>8, <3>1, <3>2, ReviewLocks DEF Verdicts, Of
      <4>2. row[x].ref \in Of("analyse") /\ InSession(r, row[x].ref) /\ row[x].ref # x
            /\ row[x].ref \in Request
        BY <3>2, <4>1 DEF Taken, Of
      <4>3. InSession(r, row[x].ref)' /\ row'[row[x].ref] = row[row[x].ref]
        BY <2>3, <2>6, <3>2, <4>1, <4>2
      <4> QED
        BY <2>1, <2>4, <3>1, <4>1, <4>2, <4>3
           DEF Taken, Committed, ReviewStep, InSession, SessionOf, Leaves, Deleting
    <3> QED
      BY <2>1, <2>4, <2>8, <3>1, <3>2 DEF InHand
  <2>9. Reviewing'
    <3>1. ASSUME NEW v \in Of("review") PROVE Judging(v)' /\ Detached(v)'
      <4>1. Judging(v) /\ Detached(v) /\ v \in Request
        BY DEF Verdicts, Reviewing, Of
      <4>2. Running(v) /\ req[v].step >= 2 => req[v].ref \in Request
        BY <4>1 DEF Base, Picks, Picked, Of
      <4> QED
        BY <2>1, <2>3, <4>1, <4>2 DEF Judging, Detached, Running, Present
    <3> QED
      BY <2>4, <3>1 DEF Reviewing
  <2>10. ASSUME NEW f \in Of("analyse") PROVE Judged(f)'
    <3>1. Judged(f) /\ f \in Request /\ CommittedOf("review")' = CommittedOf("review")
      BY <2>1 DEF Verdicts, Of, CommittedOf, Committed
    <3>2. CommittedOf("review") \subseteq Request
      BY DEF CommittedOf, Of
    <3> QED
      BY <2>1, <2>3, <3>1, <3>2 DEF Judged, Present
  <2> QED
    BY <2>4, <2>7, <2>8, <2>9, <2>10 DEF Verdicts, Locking, InHand
<1>3. CASE UNCHANGED vars
  <2>1. row' = row /\ req' = req
    BY <1>3 DEF vars
  <2>2. Locking'
    BY <2>1 DEF Verdicts, Locking, Awaited, InHand, Taken, InSession, SessionOf, Leaves, Deleting,
                Running, Committed, Present, ReviewStep, Of
  <2>3. Reviewing' /\ \A f \in Of("analyse") : Judged(f)'
    BY <2>1 DEF Verdicts, Reviewing, Judging, Detached, Judged, CommittedOf, Of, Running, Committed,
                Present
  <2> QED
    BY <2>2, <2>3 DEF Verdicts, Of
<1> QED
  BY <1>1, <1>2, <1>3 DEF Next

LEMMA InitVerdicts == Init => Verdicts
<1> SUFFICES ASSUME Init PROVE Verdicts
  OBVIOUS
<1>1. \A x \in Row : ~Present(x) /\ row[x].lock = None
  BY DEF Init, Present, NoRow
<1>2. \A r \in Request : req[r].step = 1 /\ req[r].waits = FALSE /\ r \in Row /\ r # None
  BY NamesDiffer DEF Init, NoRequest, Row
<1>3. Locking
  BY <1>1, <1>2 DEF Locking, Awaited, InHand
<1> QED
  BY <1>1, <1>2, <1>3 DEF Verdicts, Reviewing, Judging, Detached, Judged, Of

\* Whatever was reviewed, realigned and erased meanwhile, a finding that is there has
\* the status that a committed review of this very finding gave it, and one that was
\* accepted has a source.
THEOREM VerdictsHold == Spec => []StatusIsReviewed
<1>1. Verdicts => StatusIsReviewed
  BY DEF Verdicts, StatusIsReviewed, Judged, CommittedOf, Of
<1> QED
  BY <1>1, AlwaysBase, InitVerdicts, StepVerdicts, PTL DEF Spec

=============================================================================
