------------------------------ MODULE MCSchool ------------------------------
(***************************************************************************)
(* AttendanceDay, Homework, FileUpload, ExamPaper, Grading and Enrolments  *)
(* checked together.  They share no state, so a behaviour works at one     *)
(* desk, chosen at the start, and the others rest: every behaviour of each *)
(* module is checked, and their interleavings, which are the same states   *)
(* over again, are not.                                                    *)
(***************************************************************************)
EXTENDS AttendanceDay, Homework, FileUpload, ExamPaper, Grading, Enrolments

VARIABLE desk       \* the module whose steps are taken

Desk == {"attendance", "homework", "files", "papers", "grading", "enrolments"}

SchoolTypeOK ==
    /\ desk \in Desk
    /\ DayTypeOK /\ HomeworkTypeOK /\ FileTypeOK /\ PaperTypeOK /\ GradingTypeOK /\ EnrolTypeOK

SchoolInit ==
    /\ desk \in Desk
    /\ DayInit /\ HomeworkInit /\ FileInit /\ PaperInit /\ GradingInit /\ EnrolInit
    /\ desk # "enrolments" => rows[2] = NoEnrolment      \* one start for the other desks

SchoolNext ==
    /\ \/ /\ desk = "attendance" /\ DayNext
          /\ UNCHANGED <<homeworkVars, fileVars, paperVars, gradingVars, enrolVars>>
       \/ /\ desk = "homework" /\ HomeworkNext
          /\ UNCHANGED <<dayVars, fileVars, paperVars, gradingVars, enrolVars>>
       \/ /\ desk = "files" /\ FileNext
          /\ UNCHANGED <<dayVars, homeworkVars, paperVars, gradingVars, enrolVars>>
       \/ /\ desk = "papers" /\ PaperNext
          /\ UNCHANGED <<dayVars, homeworkVars, fileVars, gradingVars, enrolVars>>
       \/ /\ desk = "grading" /\ GradingNext
          /\ UNCHANGED <<dayVars, homeworkVars, fileVars, paperVars, enrolVars>>
       \/ /\ desk = "enrolments" /\ EnrolNext
          /\ UNCHANGED <<dayVars, homeworkVars, fileVars, paperVars, gradingVars>>
    /\ UNCHANGED desk

(* The clock of the school runs, a request that was let through is answered,
   and the repeatable jobs start and go on (worker-scheduler.service.ts). *)
DayFairness ==
    /\ WF_dayVars(/\ desk = "attendance"
                  /\ TickDay \/ (\E s \in Student : SaveCheckIn(s)) \/ CancelClass \/ RestoreClass \/ CorrectRecord)
    /\ \A r \in Run : WF_dayVars(desk = "attendance" /\ RunGoesOn(r))

(* The job that publishes what is due is repeated every minute.  A hand-in that has
   locked the homework's row ends, and the database serves who waits for the lock. *)
HomeworkFairness ==
    /\ WF_homeworkVars(/\ desk = "homework"
                       /\ TickHomework \/ FindDue \/ \E t \in checked : SaveHandIn(t) \/ DropHandIn(t))
    /\ SF_homeworkVars(desk = "homework" /\ ClaimDue)

(* The queue is worked off and forgets old jobs, and the sweep is repeated. *)
FileFairness ==
    /\ WF_fileVars(/\ desk = "files"
                   /\ \/ \E f \in File : ForgetJob(f) \/ Requeue(f)
                      \/ \E w \in Worker, size \in 1 .. MaxSize : FinishJob(w, size))
    /\ SF_fileVars(desk = "files" /\ \E w \in Worker, f \in File : StartJob(w, f))

SchoolSpec ==
    /\ SchoolInit /\ [][SchoolNext]_<<desk, dayVars, homeworkVars, fileVars, paperVars,
                                         gradingVars, enrolVars>>
    /\ DayFairness /\ HomeworkFairness /\ FileFairness

(* The jobs of the worker catch up: whatever fails, stalls, is repeated or
   changed meanwhile, a moment comes again when every class that is over has
   ended, no homework waits for its time and no completed upload is PENDING. *)
JobsCatchUp == []<>(ClassesEnded /\ NoneScheduled /\ UploadsSettled)
=============================================================================
