----------------------------- MODULE ExamPaper ------------------------------
(***************************************************************************)
(* One exam as its staff change it (backend/src/exams/exam.service.ts) and *)
(* the cache of its paper, from which students are served                  *)
(* (backend/src/exams/exam-paper-cache.service.ts, as CacheAside).  All    *)
(* but the rewrite save the whole exam they loaded, questions included.    *)
(***************************************************************************)
EXTENDS Naturals, CacheAside

CONSTANTS
    Staff,          \* requests that change the exam at the same time
    MaxRequests     \* bound: changes; the papers are numbered by them

ASSUME PaperAssumption == MaxRequests \in Nat

VARIABLES
    exam,           \* the exam row with its questions
    begun,          \* has the start time come?
    staff,          \* what each request has loaded and where it is
    requests        \* counted to bound the model

paperVars == <<exam, begun, staff, requests, cacheVars>>

(* paper: what only the rewrite writes, questions and target_students; excluded:
   is a certain student among the excluded_students? *)
ExamRow == [paper : 0 .. MaxRequests, excluded : BOOLEAN, active : BOOLEAN, published : BOOLEAN]
NewExam == [paper |-> 0, excluded |-> FALSE, active |-> TRUE, published |-> FALSE]

(* What students are served from, and access is checked with. *)
View == [paper |-> exam.paper, excluded |-> exam.excluded, active |-> exam.active]

(* read, cleared: inside the rewrite's transaction, before its update and after its
   DEL; saved: before the DEL *)
NoRequest == [op |-> "none", pc |-> "none", paper |-> 0, row |-> NewExam]
Request == [op : {"rewrite", "switch", "exclude", "publish"}, pc : {"loaded", "read", "cleared", "saved"},
            paper : 1 .. MaxRequests, row : ExamRow]

PaperTypeOK ==
    /\ exam \in ExamRow
    /\ begun \in BOOLEAN
    /\ staff \in [Staff -> Request \cup {NoRequest}]
    /\ requests \in 0 .. MaxRequests
    /\ CacheTypeOK([paper : 0 .. MaxRequests, excluded : BOOLEAN, active : BOOLEAN])

PaperInit ==
    /\ exam = NewExam
    /\ begun = FALSE
    /\ staff = [e \in Staff |-> NoRequest]
    /\ requests = 0
    /\ CacheInit

-----------------------------------------------------------------------------
At(e, pc) == staff[e].pc = pc
MoveOn(e, pc) == staff' = [staff EXCEPT ![e].pc = pc]
Answer(e) == staff' = [staff EXCEPT ![e] = NoRequest]

(* The rewrite holds the exam's row from its update until it commits. *)
RowFree == \A e \in Staff : ~At(e, "cleared")

BeginExam ==
    /\ ~begun /\ begun' = TRUE
    /\ UNCHANGED <<exam, staff, requests, cacheVars>>

(* The exam is loaded and checked: "editable before start", not published yet. *)
LoadExam(e, op) ==
    /\ At(e, "none") /\ requests < MaxRequests
    /\ op \in {"rewrite", "switch"} => ~begun
    /\ op = "publish" => ~exam.published
    /\ requests' = requests + 1
    /\ staff' = [staff EXCEPT ![e] = [op |-> op, pc |-> "loaded", paper |-> requests + 1, row |-> exam]]
    /\ UNCHANGED <<exam, begun, cacheVars>>

(* updateFromWizard: the old questions are deleted, for which a rewrite waits for
   another's commit, and the exam is read again, ... *)
ReadForRewrite(e) ==
    /\ staff[e].op = "rewrite" /\ At(e, "loaded")
    /\ \A o \in Staff : ~At(o, "read") /\ ~At(o, "cleared")
    /\ staff' = [staff EXCEPT ![e].pc = "read", ![e].row = exam]
    /\ UNCHANGED <<exam, begun, requests, cacheVars>>

(* ... it is saved with new questions, and the DEL, which may fail, precedes the commit. *)
Rewrite(e) ==
    /\ At(e, "read")
    /\ MoveOn(e, "cleared")
    /\ Drop \/ UNCHANGED cacheVars
    /\ UNCHANGED <<exam, begun, requests>>

(* The exam as the transaction read it, with what the wizard sent: a switch or a
   publication that committed in between is overwritten.  A copy made while the
   transaction was open is old from now on. *)
CommitRewrite(e) ==
    /\ At(e, "cleared")
    /\ \E excluded \in BOOLEAN :
          exam' = [staff[e].row EXCEPT !.paper = staff[e].paper, !.excluded = excluded]
    /\ tainted' = (copy # NoCopy)
    /\ Answer(e)
    /\ UNCHANGED <<begun, requests, copy, loaded>>

RollBack(e) ==
    /\ At(e, "read") \/ At(e, "cleared")
    /\ Answer(e)
    /\ UNCHANGED <<exam, begun, requests, cacheVars>>

(* setExamActive, updateExcludedStudents, publishResult: save(exam) *)
ToSave(e) ==
    CASE staff[e].op = "switch" -> [staff[e].row EXCEPT !.active = ~@]
      [] staff[e].op = "exclude" -> [staff[e].row EXCEPT !.excluded = ~@]
      [] staff[e].op = "publish" -> [staff[e].row EXCEPT !.published = TRUE]

SaveExam(e) ==
    /\ staff[e].op \in {"switch", "exclude"} /\ At(e, "loaded") /\ RowFree
    /\ exam' = ToSave(e)
    /\ MoveOn(e, "saved")
    /\ UNCHANGED <<begun, requests, cacheVars>>

(* publishResult does not invalidate: an old paper that it saves is cached. *)
PublishResult(e) ==
    /\ staff[e].op = "publish" /\ At(e, "loaded") /\ RowFree
    /\ exam' = ToSave(e)
    /\ tainted' = (tainted \/ (copy # NoCopy /\ View' # View))
    /\ Answer(e)
    /\ UNCHANGED <<begun, requests, copy, loaded>>

BugInvalidateExam(e) ==     \* forgotten
    /\ At(e, "saved") /\ Answer(e) /\ UNCHANGED <<exam, begun, requests, cacheVars>>

InvalidateExam(e) ==
    /\ At(e, "saved") /\ Answer(e) /\ Drop
    /\ UNCHANGED <<exam, begun, requests>>

(* The DEL fails, or the request dies before it. *)
LoseInvalidation(e) ==
    /\ At(e, "saved") /\ Answer(e) /\ Miss
    /\ UNCHANGED <<exam, begun, requests>>

-----------------------------------------------------------------------------
(* getExamGraph *)
ReadPaper(r) == Load(r, View) /\ UNCHANGED <<exam, begun, staff, requests>>
StorePaper(r) == Fill(r, View) /\ UNCHANGED <<exam, begun, staff, requests>>
KeepPaper(r) == SkipFill(r) /\ UNCHANGED <<exam, begun, staff, requests>>
ExpirePaper == Expire /\ UNCHANGED <<exam, begun, staff, requests>>

PaperNext ==
    \/ BeginExam \/ ExpirePaper
    \/ \E e \in Staff :
          \/ \E op \in {"rewrite", "switch", "exclude", "publish"} : LoadExam(e, op)
          \/ ReadForRewrite(e) \/ Rewrite(e) \/ CommitRewrite(e) \/ RollBack(e)
          \/ SaveExam(e) \/ PublishResult(e) \/ InvalidateExam(e) \/ LoseInvalidation(e)
    \/ \E r \in Reader : ReadPaper(r) \/ StorePaper(r) \/ KeepPaper(r)

PaperSpec == PaperInit /\ [][PaperNext]_paperVars

-----------------------------------------------------------------------------
(* "Correctness relies primarily on explicit invalidation": the cached paper
   differs from the exam's only while a change is about to invalidate it, or
   if an invalidation was lost, came before the commit or before a slow
   reader's SET, or was never made for an old paper that publishing saved. *)
PaperExplained == Outdated(View) => tainted \/ \E e \in Staff : At(e, "saved")
=============================================================================
