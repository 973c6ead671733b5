---------------------------- MODULE SessionRecords ----------------------------
(* The database records of one learner's recitation sessions, and the        *)
(* requests of services/node-api that write them: opening a session,         *)
(* replacing its alignments, storing an analysis, reviewing a finding,       *)
(* sending the session to a teacher, and erasing everything.                 *)
(*                                                                           *)
(* A request is one transaction of lib/db.mjs withTenant (READ COMMITTED):   *)
(* a list of statements, each its own snapshot, interleaved with those of    *)
(* other requests.  A batch of rows one request inserts (the alignments of a *)
(* recitation, the findings of an analysis) stands as one row, named after   *)
(* the request.  What Postgres does is external: a statement sees committed  *)
(* rows and its own; a deleted or updated row is locked until its            *)
(* transaction ends; an inserted row holds its parent's key; a statement     *)
(* that meets a lock waits and goes on with the rows it saw when it began;   *)
(* a foreign key refuses to lose a parent that has a child.                  *)
EXTENDS Naturals, Sequences, FiniteSets

CONSTANTS Session,    \* ids of sessions the learner may open
          Request,    \* requests; each names the row it inserts
          Kind,       \* what each request does
          Company,    \* the sets of requests that come together (a bound)
          None        \* no row, no request

Kinds == {"realign", "analyse", "review", "send", "erase"}

ASSUME KindAssumption == Kind \in [Request -> Kinds]
ASSUME CompanyAssumption == Company \subseteq SUBSET Request
ASSUME NameAssumption == Session \cap Request = {} /\ None \notin Session \cup Request

Row == Session \cup Request

VARIABLES row,    \* the four tables: sessions, and what each request inserted
          req     \* each request: where it is and what it has read

vars == <<row, req>>

-----------------------------------------------------------------------------
(* A row.  "ref" is its foreign key (a session refers to itself); "lock" is  *)
(* the open transaction that deletes, detaches or updates it and "change"    *)
(* what it does; "status" is review_status (for a review, whether it was     *)
(* superseded).                                                              *)
NoRow   == [ref |-> None, status |-> "none", sourced |-> FALSE, lock |-> None,
            change |-> "none"]
GoneRow == [NoRow EXCEPT !.status = "gone"]

(* A request.  "step" indexes Plan; "seen" is the row set of a statement     *)
(* that waits; "before" the requests of its kind committed when its          *)
(* transaction began; "receipt" what an erasure reports.                     *)
NoRequest == [step |-> 1, end |-> "none", sess |-> None, ref |-> None, decision |-> "none",
              waits |-> FALSE, seen |-> {}, before |-> {}, receipt |-> {}]

PlanOf(last) ==
  [realign |-> <<"readSession", "detachReviews", "deleteFindings", "deleteAlignments",
                 "insertAlignments", "commit">>,
   analyse |-> <<"predict", "readExisting", "readAlignments", "insertFindings", "commit">>,
   review  |-> <<"readFinding", "insertReview", "promote", "commit">>,
   send    |-> <<"readStatus", "markSent", "commit">>,
   erase   |-> <<"eraseAudio", "readRecords", "deleteReviews", "deleteFindings",
                 "deleteAlignments", last, "commit">>]

PlanKeepingSessions == PlanOf("commit")
Plan == PlanOf("deleteSessions")

PromotedEdited == [accepted |-> "teacher-reviewed", rejected |-> "blocked", edited |-> "edited"]
Promoted == [accepted |-> "teacher-reviewed", rejected |-> "blocked", edited |-> "none"]

Init == /\ row = [x \in Row |-> NoRow]
        /\ \E came \in Company :
             req = [r \in Request |-> IF r \in came THEN NoRequest
                                     ELSE [NoRequest EXCEPT !.end = "over"]]

-----------------------------------------------------------------------------
(* What a statement of request r sees, and what it must wait for.            *)

Running(r)   == req[r].end = "none"
Committed(r) == req[r].end = "committed"
At(r, statement) == Running(r) /\ Plan[Kind[r]][req[r].step] = statement

Of(kind) == {x \in Request : Kind[x] = kind}
CommittedOf(kind) == {x \in Of(kind) : Committed(x)}

Present(x) == row[x].ref # None
Deleting(x) == row[x].change = "delete"
Children(x) == {c \in Request : row[c].ref = x}

Visible(r, x) == /\ Present(x)
                 /\ x \in Request \ {r} => Committed(x)
                 /\ row[x].lock = r => ~Deleting(x)

Locked(r, x)  == row[x].lock \notin {None, r}
KeyHeld(r, x) == \E c \in Children(x) \ {r} : Running(c)

(* The committed children of x that r has not itself removed.                *)
Orphans(r, x) == {c \in Children(x) : Committed(c) /\ row[c].lock # r}

(* The rows r works on: those below its session, or below all of them.       *)
Scope(r) == IF Kind[r] = "erase" THEN {s \in Session : Visible(r, s)} ELSE {req[r].sess}
Below(r, kind, parents) == {x \in Of(kind) : row[x].ref \in parents /\ Visible(r, x)}
AlignmentsOf(r) == Below(r, "realign", Scope(r))
FindingsOf(r)   == Below(r, "analyse", AlignmentsOf(r))
ReviewsOf(r)    == Below(r, "review", FindingsOf(r))

-----------------------------------------------------------------------------
(* Ending a request: its changes take effect, or vanish with its row.        *)

Settled(x, r) ==
  IF row[x].lock # r THEN row[x]
  ELSE CASE row[x].change = "delete" -> GoneRow
         [] row[x].change = "detach" -> [NoRow EXCEPT !.ref = x, !.status = "superseded"]
         [] OTHER -> [row[x] EXCEPT !.status = row[x].change, !.lock = None, !.change = "none"]

Undone(x, r) ==
  IF x = r THEN NoRow
  ELSE IF row[x].lock = r THEN [row[x] EXCEPT !.lock = None, !.change = "none"]
  ELSE row[x]

(* The request is over and has written nothing: answered from what it read,  *)
(* or refused with an error that rolls its transaction back.                 *)
Over(r) == req' = [req EXCEPT ![r] = [NoRequest EXCEPT !.end = "over"]]
Answer(r) == Over(r) /\ UNCHANGED row
Refuse(r) == Over(r) /\ row' = [x \in Row |-> Undone(x, r)]

Commit(r) == /\ At(r, "commit")
             /\ req' = [req EXCEPT ![r] = [@ EXCEPT !.step = 1, !.end = "committed",
                                                    !.sess = None, !.ref = None]]
             /\ row' = [x \in Row |-> Settled(x, r)]

Step(r) == [req[r] EXCEPT !.step = @ + 1, !.waits = FALSE, !.seen = {}]
Go(r)   == req' = [req EXCEPT ![r] = Step(r)]

(* A connection lost, a statement timeout, a crash of the server, once there *)
(* is something to roll back.                                                *)
Fail(r) == /\ Running(r)
           /\ Present(r) \/ \E x \in Row : row[x].lock = r
           /\ Refuse(r)

-----------------------------------------------------------------------------
(* DELETE and the detaching UPDATE.  The rows are those of the statement's   *)
(* snapshot that are still there when the locks are had.                     *)

Change(r, statement, rows, change) ==
  LET mine == {x \in IF req[r].waits THEN req[r].seen ELSE rows :
                 Present(x) /\ row[x].status # "superseded"}
      blocked == \E x \in mine :
                   \/ Locked(r, x)
                   \/ change = "delete" /\ KeyHeld(r, x)
                   \/ change = "delete" /\ \E c \in Orphans(r, x) : Locked(r, c) /\ Deleting(c)
      violated == change = "delete" /\ \E x \in mine : Orphans(r, x) # {}
  IN  /\ At(r, statement)
      /\ \/ /\ blocked /\ ~req[r].waits
            /\ req' = [req EXCEPT ![r].waits = TRUE, ![r].seen = mine]
            /\ UNCHANGED row
         \/ /\ ~blocked /\ violated
            /\ Refuse(r)
         \/ /\ ~blocked /\ ~violated
            /\ row' = [x \in Row |->
                         IF x \in mine THEN [row[x] EXCEPT !.lock = r, !.change = change] ELSE row[x]]
            /\ Go(r)

(* INSERT of the request's row under a parent, whose key it holds from then. *)
Insert(r, statement, parent, sourced) ==
  /\ At(r, statement)
  /\ ~(Locked(r, parent) /\ Deleting(parent))
  /\ \/ /\ ~Present(parent)
        /\ Refuse(r)
     \/ /\ Present(parent)
        /\ row' = [row EXCEPT ![r] = [NoRow EXCEPT !.ref = parent, !.sourced = sourced]]
        /\ Go(r)

(* UPDATE of the status of one row by id: it does not mind those who hold    *)
(* the row's key.                                                            *)
ForUpdate(r, x) == Locked(r, x) \/ KeyHeld(r, x)
ForNoKeyUpdate(r, x) == Locked(r, x)

SetStatus(r, statement, x, status) ==
  /\ At(r, statement)
  /\ ~ForNoKeyUpdate(r, x)
  /\ row' = IF Present(x) THEN [row EXCEPT ![x].lock = r, ![x].change = status] ELSE row
  /\ Go(r)

-----------------------------------------------------------------------------
(* POST /v1/recitation-sessions: one transaction, nothing else touches its   *)
(* rows before it commits.                                                   *)
CreateSession(s) ==
  /\ row[s] = NoRow
  /\ row' = [row EXCEPT ![s] = [NoRow EXCEPT !.ref = s, !.status = "draft"]]
  /\ UNCHANGED req

(* POST /v1/recitation-sessions/{id}/alignments                              *)
ReadSession(r) ==
  /\ At(r, "readSession")
  /\ \E s \in Session :
       \/ /\ ~Visible(r, s)
          /\ Refuse(r)
       \/ /\ Visible(r, s)
          /\ req' = [req EXCEPT ![r] = [Step(r) EXCEPT !.sess = s, !.before = CommittedOf("realign")]]
          /\ UNCHANGED row

DeleteReviews(r)    == Change(r, "detachReviews", ReviewsOf(r), "delete")
DetachReviews(r)    == Change(r, "detachReviews", ReviewsOf(r), "detach")
DeleteFindings(r)   == Change(r, "deleteFindings", FindingsOf(r), "delete")
DeleteAlignments(r) == Change(r, "deleteAlignments", AlignmentsOf(r), "delete")

(* No usable word is "persisted: 0", and no row.                             *)
InsertAlignments(r) ==
  \/ Insert(r, "insertAlignments", req[r].sess, FALSE)
  \/ At(r, "insertAlignments") /\ Go(r) /\ UNCHANGED row

persistSessionAlignments(r) ==
  ReadSession(r) \/ DetachReviews(r) \/ InsertAlignments(r)

(* POST /v1/tajweed-findings:predict: the session's owner and consent, then  *)
(* the prediction, which may fail or find nothing.                           *)
proxyMl(r) ==
  /\ At(r, "predict")
  /\ \/ Refuse(r)
     \/ Answer(r)
     \/ \E s \in Session : /\ Visible(r, s)
                           /\ req' = [req EXCEPT ![r] = [Step(r) EXCEPT !.sess = s]]
                           /\ UNCHANGED row

NeverAnalysed(r) == FALSE
Analysed(r) == FindingsOf(r) # {}

ReadExisting(r) ==
  /\ At(r, "readExisting")
  /\ \/ /\ Analysed(r)
        /\ Answer(r)
     \/ /\ ~Analysed(r)
        /\ req' = [req EXCEPT ![r] = [Step(r) EXCEPT !.before = CommittedOf("analyse")]]
        /\ UNCHANGED row

ReadAlignments(r) ==
  /\ At(r, "readAlignments")
  /\ \/ /\ AlignmentsOf(r) = {}
        /\ Answer(r)
     \/ \E a \in AlignmentsOf(r) : /\ req' = [req EXCEPT ![r] = [Step(r) EXCEPT !.ref = a]]
                                   /\ UNCHANGED row

persistTajweedFindings(r) ==
  \/ ReadExisting(r)
  \/ ReadAlignments(r)
  \/ \E sourced \in BOOLEAN : Insert(r, "insertFindings", req[r].ref, sourced)

(* POST /v1/teacher-reviews                                                  *)
Acceptable(f, decision) == TRUE
Reviewable(f, decision) == decision = "accepted" => row[f].sourced

ReadFinding(r) ==
  /\ At(r, "readFinding")
  /\ \E f \in Of("analyse"), decision \in DOMAIN Promoted :
       \/ /\ ~(Visible(r, f) /\ Reviewable(f, decision))
          /\ Refuse(r)
       \/ /\ Visible(r, f) /\ Reviewable(f, decision)
          /\ req' = [req EXCEPT ![r] = [Step(r) EXCEPT !.ref = f, !.decision = decision]]
          /\ UNCHANGED row

Promote(r) ==
  /\ At(r, "promote")
  /\ LET status == Promoted[req[r].decision]
     IN  \/ status = "none" /\ Go(r) /\ UNCHANGED row
         \/ status # "none" /\ SetStatus(r, "promote", req[r].ref, status)

createTeacherReview(r) ==
  ReadFinding(r) \/ Insert(r, "insertReview", req[r].ref, FALSE) \/ Promote(r)

(* POST /v1/recitation-sessions/{id}/request-teacher-review                  *)
requestTeacherReview(r) ==
  \/ /\ At(r, "readStatus")
     /\ \E s \in Session :
          \/ ~Visible(r, s) /\ Refuse(r)
          \/ Visible(r, s) /\ row[s].status # "draft" /\ Answer(r)
          \/ /\ Visible(r, s) /\ row[s].status = "draft"
             /\ req' = [req EXCEPT ![r] = [Step(r) EXCEPT !.sess = s]]
             /\ UNCHANGED row
  \/ SetStatus(r, "markSent", req[r].sess, "teacher-review-required")

(* POST /v1/privacy/delete: ml-inference empties its store or the request    *)
(* fails; then the ids of what is there, and the cascade.                    *)
eraseMlAudio(r) == /\ At(r, "eraseAudio")
                   /\ \/ Refuse(r)
                      \/ Go(r) /\ UNCHANGED row

createPrivacyJob(r) ==
  \/ eraseMlAudio(r)
  \/ /\ At(r, "readRecords")
     /\ req' = [req EXCEPT ![r] = [Step(r) EXCEPT
                  !.receipt = Scope(r) \cup AlignmentsOf(r) \cup FindingsOf(r)]]
     /\ UNCHANGED row
  \/ Change(r, "deleteReviews", ReviewsOf(r), "delete")
  \/ Change(r, "deleteSessions", Scope(r), "delete")

-----------------------------------------------------------------------------
Handle(r) == \/ persistSessionAlignments(r)
             \/ proxyMl(r) \/ persistTajweedFindings(r)
             \/ createTeacherReview(r)
             \/ requestTeacherReview(r)
             \/ createPrivacyJob(r)
             \/ DeleteFindings(r) \/ DeleteAlignments(r)
             \/ Commit(r)

Next == \/ \E s \in Session : CreateSession(s)
        \/ \E r \in Request : Handle(r) \/ Fail(r)

Spec == Init /\ [][Next]_vars

(* Statements that can run are run; nothing is assumed of the timeouts and   *)
(* the deadlock detector that break a transaction.                           *)
FairSpec == Spec /\ WF_vars(\E r \in Request : Handle(r))

-----------------------------------------------------------------------------
Statuses == {"none", "draft", "teacher-review-required", "teacher-reviewed", "blocked",
             "superseded", "gone"}

TypeOK ==
  /\ row \in [Row -> [ref : Row \cup {None}, status : Statuses, sourced : BOOLEAN,
                      lock : Request \cup {None}, change : Statuses \cup {"delete", "detach"}]]
  /\ req \in [Request -> [step : 1..7, end : {"none", "committed", "over"},
                          sess : Session \cup {None}, ref : Request \cup {None},
                          decision : DOMAIN Promoted \cup {"none"}, waits : BOOLEAN,
                          seen : SUBSET Row, before : SUBSET Request, receipt : SUBSET Row]]

(* A teacher's judgement outlives the finding it was about (ADR-0031): once  *)
(* committed, a review is there, attached or superseded, until an erasure    *)
(* commits.                                                                  *)
ReviewsSurvive ==
  CommittedOf("erase") = {} => \A v \in CommittedOf("review") : Present(v)

(* A finding's status is what a committed review of that very finding made   *)
(* of it: what a learner may be shown was accepted, and it has a source      *)
(* (ADR-0027), whatever was realigned or decided meanwhile.                  *)
StatusIsReviewed ==
  \A f \in CommittedOf("analyse") :
    Present(f) /\ row[f].status # "none" =>
      /\ \E v \in CommittedOf("review") :
           row[v].ref = f /\ Promoted[req[v].decision] = row[f].status
      /\ row[f].status = "teacher-reviewed" => row[f].sourced

(* Replace-on-write and the already-analysed check keep one set of           *)
(* alignments and one set of findings per session; two sets are there only   *)
(* when their requests overlapped, neither having begun after the other's    *)
(* commit.                                                                   *)
SessionOf(x) == IF Kind[x] = "realign" THEN row[x].ref ELSE row[row[x].ref].ref
TwoSetsOnlyFromOverlap ==
  \A kind \in {"realign", "analyse"} : \A x, y \in CommittedOf(kind) :
    x # y /\ Present(x) /\ Present(y) /\ SessionOf(x) = SessionOf(y) =>
      x \notin req[y].before /\ y \notin req[x].before

(* After an erasure commits, whatever its receipt names is gone, and what    *)
(* requests in flight or yet to come do adds nothing to an erased session:   *)
(* no alignment, no finding, no attached review.                             *)
ErasedStaysErased ==
  \A e \in CommittedOf("erase") : \A x \in req[e].receipt :
    ~Present(x) /\ \A c \in Children(x) : ~Committed(c)

(* What the erasure's own test promises of reviews: "the subject's reviews   *)
(* go".  A superseded one does not.                                          *)
SubjectsReviewsGo ==
  CommittedOf("erase") # {} /\ (\A s \in Session : ~Present(s)) =>
    \A v \in CommittedOf("review") : ~Present(v)

(* Locks are taken in one order by every handler, so a request that keeps    *)
(* being run is answered: nobody waits on everybody.                         *)
EveryRequestEnds == []<>(\A r \in Request : Running(r) => req[r].step = 1)
=============================================================================
