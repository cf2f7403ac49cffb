---------------------------- MODULE MCExamAttempt ----------------------------
(* Instances of ExamAttempt for TLC. *)
EXTENDS ExamAttempt, TLC

StudentSymmetry == Permutations(Student) \cup Permutations(Request) \cup Permutations(Answers)
=============================================================================
