--------------------------- MODULE SessionProofs ---------------------------
(***************************************************************************)
(* What holds in every live session: MediaVerify's safety properties, for  *)
(* every period and every limit that meets Periods and MarginCovers, and    *)
(* LiveSession's, for any inputs and any number of attempts.               *)
(***************************************************************************)
EXTENDS MediaVerify, LiveSession, TLAPS

(* The variables start with their types and the strengthening holds. *)
LEMMA InitIInv == Init => IInv
<1> SUFFICES ASSUME Init PROVE IInv
  OBVIOUS
<1> USE Periods DEF Init
<1>1. TypeOK
  <2>1. 0 \in 0..(StartSec + StopSec) /\ 0 \in 0..MaxCalls
        /\ 0 \in 0..CallSec /\ 0 \in 0..UnansweredLimit
        /\ 0 \in 0..InactiveLimit
    OBVIOUS
  <2> QED
    BY <2>1, Zenon DEF TypeOK, Callers, Outcomes
<1>2. Gate
  BY DEF Gate, NoWriteWithoutVerdict
<1>3. Pace
  BY DEF Pace
<1> QED
  BY <1>1, <1>2, <1>3 DEF IInv

(* Every step keeps the types. *)
LEMMA StepType ==
  TypeOK /\ Pace /\ [Next]_vars => TypeOK'
<1> SUFFICES ASSUME TypeOK /\ Pace, [Next]_vars PROVE TypeOK'
  OBVIOUS
<1> USE Periods, MarginCovers DEF TypeOK, Callers, Outcomes, Pace,
      unitVars, waiterVars, sessionVars
<1>1. CASE StartJob
  <2>1. ran' \in 0..(StartSec + StopSec)
    BY <1>1 DEF StartJob
  <2>2. /\ job' \in BOOLEAN /\ unit' = "activating" /\ result' = "success"
        /\ UNCHANGED <<medium, metadata, verified, waiterVars, sessionVars>>
    BY <1>1, Zenon DEF StartJob
  <2> QED
    BY <2>1, <2>2
<1>2. CASE CheckEnds
  BY <1>2 DEF Readings, CheckEnds
<1>3. CASE CheckTimesOut
  BY <1>3 DEF CheckTimesOut
<1>4. CASE Stopped
  BY <1>4 DEF Stopped
<1>5. CASE TickIdle
  BY <1>5 DEF TimePasses, TickIdle
<1>6. CASE TickCall
  BY <1>6 DEF TimePasses, TickCall
<1>7. CASE Start
  BY <1>7 DEF Start
<1>8. CASE StartFails
  BY <1>8 DEF Return, StartFails
<1>9. CASE Answer
  BY <1>9 DEF Return, Meaning, Answer
<1>10. CASE NoAnswer
  BY <1>10 DEF Return, NoAnswer
<1>11. CASE Sleep
  BY <1>11 DEF TimePasses, Return, Limit, Sleep
<1>12. CASE Write
  BY <1>12 DEF Write
<1>13. ASSUME NEW c \in Callers, Call(c) PROVE TypeOK'
  <2>1. calls' \in 0..MaxCalls /\ elapsed' \in Nat /\ call' \in 0..CallSec
        /\ unanswered' \in 0..UnansweredLimit
        /\ inactive' \in 0..InactiveLimit
    BY <1>13 DEF Call
  <2>2. caller' \in Callers /\ slow' \in BOOLEAN
    BY <1>13, Zenon DEF Call
  <2>3. /\ stage' \in {"form", "partitioned", "installed"}
        /\ pc' \in {"idle", "start", "poll", "sleep", "passed"}
        /\ outcome' \in Outcomes
    BY <1>13 DEF Call, Return
  <2>4. UNCHANGED <<medium, metadata, unitVars, written>>
    BY <1>13, Zenon DEF Call
  <2> QED
    BY <2>1, <2>2, <2>3, <2>4
<1>14. CASE UNCHANGED vars
  BY <1>14 DEF vars
<1> QED
  BY <1>1, <1>2, <1>3, <1>4, <1>5, <1>6, <1>7, <1>8, <1>9,
     <1>10, <1>11, <1>12, <1>13, <1>14 DEF Next, Unit, Waiter

(* Every step keeps the gate: an active unit stays active. *)
LEMMA StepGate ==
  TypeOK /\ Gate /\ Pace /\ [Next]_vars => Gate'
<1> SUFFICES ASSUME TypeOK /\ Gate /\ Pace, [Next]_vars PROVE Gate'
  OBVIOUS
<1> USE Periods, MarginCovers DEF TypeOK, Gate, Pace, NoWriteWithoutVerdict,
      Callers, unitVars, waiterVars, sessionVars
<1>1. CASE StartJob
  BY <1>1 DEF StartJob
<1>2. CASE CheckEnds
  <2>1. PICK reading \in Readings[medium] :
          /\ result' = reading
          /\ unit' = IF reading = "success" THEN "active" ELSE "failed"
          /\ verified' = (verified \/ reading = "success")
    BY <1>2 DEF CheckEnds
  <2>2. reading = "success" => medium # "damaged"
    BY <2>1 DEF Readings
  <2> QED
    BY <1>2, <2>1, <2>2 DEF CheckEnds
<1>3. CASE CheckTimesOut
  BY <1>3 DEF CheckTimesOut
<1>4. CASE Stopped
  BY <1>4 DEF Stopped
<1>5. CASE TickIdle
  BY <1>5 DEF TimePasses, TickIdle
<1>6. CASE TickCall
  BY <1>6 DEF TimePasses, TickCall
<1>7. CASE Start
  BY <1>7 DEF Start
<1>8. CASE StartFails
  BY <1>8 DEF Return, StartFails
<1>9. CASE Answer
  BY <1>9 DEF Return, Meaning, Answer
<1>10. CASE NoAnswer
  BY <1>10 DEF Return, NoAnswer
<1>11. CASE Sleep
  BY <1>11 DEF TimePasses, Return, Limit, Sleep
<1>12. CASE Write
  BY <1>12 DEF Write
<1>13. ASSUME NEW c \in Callers, Call(c) PROVE Gate'
  BY <1>13 DEF Call, MayCall, Return
<1>14. CASE UNCHANGED vars
  BY <1>14 DEF vars
<1> QED
  BY <1>1, <1>2, <1>3, <1>4, <1>5, <1>6, <1>7, <1>8, <1>9,
     <1>10, <1>11, <1>12, <1>13, <1>14 DEF Next, Unit, Waiter

(* Every step keeps a prompt waiter within the unit's pace. *)
LEMMA StepPace ==
  TypeOK /\ Gate /\ Pace /\ [Next]_vars => Pace'
<1> SUFFICES ASSUME TypeOK /\ Gate /\ Pace, [Next]_vars PROVE Pace'
  OBVIOUS
<1> USE Periods, MarginCovers DEF TypeOK, Gate, Pace, Limit,
      unitVars, waiterVars, sessionVars
<1>1. CASE StartJob
  BY <1>1 DEF StartJob
<1>2. CASE CheckEnds
  BY <1>2 DEF Readings, CheckEnds
<1>3. CASE CheckTimesOut
  BY <1>3 DEF CheckTimesOut
<1>4. CASE Stopped
  BY <1>4 DEF Stopped
<1>5. CASE TickIdle
  BY <1>5 DEF TimePasses, TickIdle
<1>6. CASE TickCall
  BY <1>6 DEF TimePasses, TickCall
<1>7. CASE Start
  BY <1>7 DEF Start
<1>8. CASE StartFails
  BY <1>8 DEF Return, StartFails
<1>9. CASE Answer
  BY <1>9 DEF Return, Meaning, Answer
<1>10. CASE NoAnswer
  BY <1>10 DEF Return, NoAnswer
<1>11. CASE Sleep
  BY <1>11 DEF TimePasses, Return, Limit, Sleep
<1>12. CASE Write
  BY <1>12 DEF Write
<1>13. ASSUME NEW c \in Callers, Call(c) PROVE Pace'
  BY <1>13 DEF Call, MayCall, Return
<1>14. CASE UNCHANGED vars
  BY <1>14 DEF vars
<1> QED
  BY <1>1, <1>2, <1>3, <1>4, <1>5, <1>6, <1>7, <1>8, <1>9,
     <1>10, <1>11, <1>12, <1>13, <1>14 DEF Next, Unit, Waiter

(* The strengthening is an invariant. *)
THEOREM IInvInvariant == Spec => []IInv
<1>1. IInv /\ [Next]_vars => IInv'
  BY StepType, StepGate, StepPace DEF IInv
<1> QED
  BY InitIInv, <1>1, PTL DEF Spec

(* The variables keep their types. *)
THEOREM TypeCorrect == Spec => []TypeOK
<1>1. IInv => TypeOK
  BY DEF IInv
<1> QED
  BY IInvInvariant, <1>1, PTL

(* A disk is written only after a checksum run of this boot succeeded. *)
THEOREM WriteNeedsVerdict == Spec => []NoWriteWithoutVerdict
<1>1. IInv => NoWriteWithoutVerdict
  BY DEF IInv, Gate
<1> QED
  BY IInvInvariant, <1>1, PTL

(* After a good verdict no call blames the medium or the unit. *)
THEOREM Stands == Spec => GoodVerdictStands
<1> DEFINE A == verified /\ outcome' \in {"damaged", "no_verdict", "too_slow", "not_run"}
                  => outcome' = outcome
<1>1. IInv /\ [Next]_vars => [A]_vars
  <2> SUFFICES ASSUME IInv, Next PROVE A
    OBVIOUS
  <2> USE Periods, MarginCovers DEF IInv, TypeOK, Gate, Pace, Outcomes,
        unitVars, waiterVars, sessionVars
  <2>1. CASE StartJob
    BY <2>1 DEF StartJob
  <2>2. CASE CheckEnds
    BY <2>2 DEF Readings, CheckEnds
  <2>3. CASE CheckTimesOut
    BY <2>3 DEF CheckTimesOut
  <2>4. CASE Stopped
    BY <2>4 DEF Stopped
  <2>5. CASE TickIdle
    BY <2>5 DEF TimePasses, TickIdle
  <2>6. CASE TickCall
    BY <2>6 DEF TimePasses, TickCall
  <2>7. CASE Start
    BY <2>7 DEF Start
  <2>8. CASE StartFails
    BY <2>8 DEF Return, StartFails
  <2>9. CASE Answer
    BY <2>9 DEF Return, Meaning, Answer
  <2>10. CASE NoAnswer
    BY <2>10 DEF Return, NoAnswer
  <2>11. CASE Sleep
    BY <2>11 DEF TimePasses, Return, Limit, Sleep
  <2>12. CASE Write
    BY <2>12 DEF Write
  <2>13. ASSUME NEW c \in Callers, Call(c) PROVE A
    BY <2>13 DEF Call, MayCall, Return
  <2> QED
    BY <2>1, <2>2, <2>3, <2>4, <2>5, <2>6, <2>7, <2>8, <2>9,
       <2>10, <2>11, <2>12, <2>13 DEF Next, Unit, Waiter
<1> QED
  BY IInvInvariant, <1>1, PTL DEF GoodVerdictStands, Spec

(* A prompt waiter gives up on its own clock only after the unit has. *)
THEOREM Patient == Spec => GivesUpAfterTheUnit
<1> DEFINE A == outcome' = "timed_out" /\ outcome # "timed_out" /\ ~slow
                  => unit \in {"deactivating", "failed"}
<1>1. IInv /\ [Next]_vars => [A]_vars
  <2> SUFFICES ASSUME IInv, Next PROVE A
    OBVIOUS
  <2> USE Periods, MarginCovers DEF IInv, TypeOK, Gate, Pace, Limit,
        unitVars, waiterVars, sessionVars
  <2>1. CASE StartJob
    BY <2>1 DEF StartJob
  <2>2. CASE CheckEnds
    BY <2>2 DEF Readings, CheckEnds
  <2>3. CASE CheckTimesOut
    BY <2>3 DEF CheckTimesOut
  <2>4. CASE Stopped
    BY <2>4 DEF Stopped
  <2>5. CASE TickIdle
    BY <2>5 DEF TimePasses, TickIdle
  <2>6. CASE TickCall
    BY <2>6 DEF TimePasses, TickCall
  <2>7. CASE Start
    BY <2>7 DEF Start
  <2>8. CASE StartFails
    BY <2>8 DEF Return, StartFails
  <2>9. CASE Answer
    BY <2>9 DEF Return, Meaning, Answer
  <2>10. CASE NoAnswer
    BY <2>10 DEF Return, NoAnswer
  <2>11. CASE Sleep
    BY <2>11 DEF TimePasses, Return, Limit, Sleep
  <2>12. CASE Write
    BY <2>12 DEF Write
  <2>13. ASSUME NEW c \in Callers, Call(c) PROVE A
    BY <2>13 DEF Call, MayCall, Return
  <2> QED
    BY <2>1, <2>2, <2>3, <2>4, <2>5, <2>6, <2>7, <2>8, <2>9,
       <2>10, <2>11, <2>12, <2>13 DEF Next, Unit, Waiter
<1> QED
  BY IInvInvariant, <1>1, PTL DEF GivesUpAfterTheUnit, Spec

-----------------------------------------------------------------------------
(* LiveSession. *)

(* The first attempt finds an empty /root: the strengthening holds. *)
LEMMA SessionInitIInv == SessionInit => SessionIInv
<1> SUFFICES ASSUME SessionInit PROVE SessionIInv
  OBVIOUS
<1>1. SessionTypeOK
  <2>1. 0 \in 0..MaxAttempts
    BY SessionAssumption
  <2>2. file \in [Files -> 0..MaxAttempts]
    BY <2>1 DEF SessionInit
  <2> QED
    BY <2>1, <2>2 DEF SessionInit, SessionTypeOK
<1>2. Placed /\ Gathered
  BY DEF SessionInit, Placed, Gathered, Watched
<1> QED
  BY <1>1, <1>2 DEF SessionIInv

(* Every step of the script, the loader, the wizard, the dashboard and the
   installer keeps the types. *)
LEMMA SessionStepType ==
  SessionTypeOK /\ [SessionNext]_session => SessionTypeOK'
<1> SUFFICES ASSUME SessionTypeOK, [SessionNext]_session PROVE SessionTypeOK'
  OBVIOUS
<1> USE SessionAssumption DEF SessionTypeOK, Goto, inputs, screen, Files
<1>0. ASSUME NEW F, Writes(F)
      PROVE  /\ file' \in [Files -> 0..MaxAttempts]
             /\ broken' \subseteq Json /\ spoilt' \in BOOLEAN
  BY <1>0 DEF Writes
<1>1. CASE NoMedium
  BY <1>1 DEF NoMedium
<1>2. CASE Clear
  BY <1>2 DEF Clear
<1>3. CASE NotAutoinstall
  BY <1>3 DEF NotAutoinstall
<1>4. CASE Refuse
  BY <1>4 DEF Refuse
<1>5. CASE Copy
  <2>1. PICK d \in drive : /\ CopyOf(d, Given(d))
                           /\ broken' = Unsound(d) \cap Given(d)
    BY <1>5 DEF Copy
  <2>2. d.deferred \in BOOLEAN
    BY DEF Drives
  <2>3. file' \in [Files -> 0..MaxAttempts]
    BY <2>1 DEF CopyOf
  <2>4. conf' \in [mode : {"full_disk", "protected"}, deferred : BOOLEAN]
    BY <2>1, <2>2 DEF CopyOf
  <2>5. broken' \subseteq Json
    BY <2>1 DEF Unsound, Json
  <2> QED
    BY <1>5, <2>3, <2>4, <2>5 DEF Copy
<1>6. CASE CopyFails
  <2>1. PICK d \in drive : \E part \in SUBSET Given(d) :
          CopyOf(d, part) /\ broken' \in SUBSET (Json \cap part)
    BY <1>6 DEF CopyFails
  <2>2. d.deferred \in BOOLEAN
    BY DEF Drives
  <2>3. file' \in [Files -> 0..MaxAttempts]
    BY <2>1 DEF CopyOf
  <2>4. conf' \in [mode : {"full_disk", "protected"}, deferred : BOOLEAN]
    BY <2>1, <2>2 DEF CopyOf
  <2>5. broken' \subseteq Json
    BY <2>1
  <2> QED
    BY <1>6, <2>3, <2>4, <2>5 DEF CopyFails
<1>7. CASE Uncopy
  BY <1>7 DEF Uncopy
<1>8. CASE Flags
  BY <1>8 DEF Flags
<1>9. CASE Record
  BY <1>9 DEF Record
<1>10. CASE ChildFails
  BY <1>10 DEF ChildFails
<1>11. CASE ChildSucceeds
  BY <1>11 DEF ChildSucceeds
<1>12. CASE HandOver
  BY <1>12 DEF HandOver
<1>13. CASE Ended
  BY <1>13 DEF Ended
<1>14. CASE FailureExit
  BY <1>14 DEF FailureExit
<1>15. CASE FinishReboot
  BY <1>15 DEF FinishReboot
<1>16. CASE StopChild
  BY <1>16 DEF StopChild
<1>17. CASE Attach
  BY <1>17 DEF Attach
<1>18. CASE StartScript
  <2>1. attempt' \in 0..MaxAttempts
    BY <1>18 DEF StartScript
  <2> QED
    BY <1>18, <2>1 DEF StartScript
<1>19. CASE WizardUser
  BY <1>19, <1>0 DEF WizardUser
<1>20. CASE WizardConfig
  <2>1. PICK m \in {"full_disk", "protected"}, d \in BOOLEAN :
          ConfigWritten([mode |-> m, deferred |-> d])
    BY <1>20 DEF WizardConfig, WriteProtectedConfig, WriteFullDiskConfig
  <2> QED
    BY <2>1, <1>0 DEF ConfigWritten
<1>21. CASE WizardAborts
  BY <1>21 DEF WizardAborts
<1>22. CASE Break
  BY <1>22 DEF Break
<1>23. CASE Interrupt
  BY <1>23 DEF Interrupt
<1>24. CASE FailureMenu
  BY <1>24 DEF FailureMenu
<1>25. CASE FinishPrompt
  BY <1>25 DEF FinishPrompt
<1>26. CASE UNCHANGED session
  BY <1>26 DEF session
<1> QED
  BY <1>1, <1>2, <1>3, <1>4, <1>5, <1>6, <1>7, <1>8, <1>9,
     <1>10, <1>11, <1>12, <1>13, <1>14, <1>15, <1>16, <1>17,
     <1>18, <1>19, <1>20, <1>21, <1>22, <1>23, <1>24, <1>25,
     <1>26
    DEF SessionNext, Load, Child, Dashboard, User, Wizard

(* One drive at most, no installer without a dashboard that watches it, and
   the two files the failure screen reads are of this attempt or absent. *)
LEMMA SessionStepPlaced ==
  SessionTypeOK /\ Placed /\ [SessionNext]_session => Placed'
<1> SUFFICES ASSUME SessionTypeOK, Placed, [SessionNext]_session PROVE Placed'
  OBVIOUS
<1> USE SessionAssumption DEF SessionTypeOK, Placed, Watched, Goto, inputs,
        screen
<1>1. CASE NoMedium
  BY <1>1 DEF NoMedium
<1>2. CASE Clear
  BY <1>2 DEF Clear
<1>3. CASE NotAutoinstall
  BY <1>3 DEF NotAutoinstall
<1>4. CASE Refuse
  BY <1>4 DEF Refuse
<1>5. CASE Copy
  BY <1>5 DEF Copy, CopyOf
<1>6. CASE CopyFails
  BY <1>6 DEF CopyFails, CopyOf
<1>7. CASE Uncopy
  BY <1>7 DEF Uncopy
<1>8. CASE Flags
  BY <1>8 DEF Flags
<1>9. CASE Record
  BY <1>9 DEF Record
<1>10. CASE ChildFails
  BY <1>10 DEF ChildFails
<1>11. CASE ChildSucceeds
  BY <1>11 DEF ChildSucceeds
<1>12. CASE HandOver
  BY <1>12 DEF HandOver
<1>13. CASE Ended
  BY <1>13 DEF Ended
<1>14. CASE FailureExit
  BY <1>14 DEF FailureExit
<1>15. CASE FinishReboot
  BY <1>15 DEF FinishReboot
<1>16. CASE StopChild
  BY <1>16 DEF StopChild
<1>17. CASE Attach
  BY <1>17 DEF Attach
<1>18. CASE StartScript
  BY <1>18 DEF StartScript
<1>19. CASE WizardUser
  BY <1>19 DEF WizardUser
<1>20. CASE WizardConfig
  BY <1>20 DEF WizardConfig, WriteProtectedConfig, WriteFullDiskConfig,
      ConfigWritten
<1>21. CASE WizardAborts
  BY <1>21 DEF WizardAborts
<1>22. CASE Break
  BY <1>22 DEF Break
<1>23. CASE Interrupt
  BY <1>23 DEF Interrupt
<1>24. CASE FailureMenu
  BY <1>24 DEF FailureMenu
<1>25. CASE FinishPrompt
  BY <1>25 DEF FinishPrompt
<1>26. CASE UNCHANGED session
  BY <1>26 DEF session
<1> QED
  BY <1>1, <1>2, <1>3, <1>4, <1>5, <1>6, <1>7, <1>8, <1>9,
     <1>10, <1>11, <1>12, <1>13, <1>14, <1>15, <1>16, <1>17,
     <1>18, <1>19, <1>20, <1>21, <1>22, <1>23, <1>24, <1>25,
     <1>26
    DEF SessionNext, Load, Child, Dashboard, User, Wizard

(* What Copy or the wizard has written stays whole until the installer has
   read it; a copy that fails, or a wizard that is left, hands nothing over. *)
LEMMA SessionStepGathered ==
  SessionTypeOK /\ Placed /\ Gathered /\ [SessionNext]_session => Gathered'
<1> SUFFICES ASSUME SessionTypeOK, Placed, Gathered, [SessionNext]_session
             PROVE  Gathered'
  OBVIOUS
<1> USE SessionAssumption DEF SessionTypeOK, Placed, Gathered, Watched, Goto,
        inputs, screen,
      Deferred, Parses, Answered, Written, Files, Optional
<1>0. ASSUME NEW F \in SUBSET Files, Writes(F), attempt > 0
      PROVE  /\ \A f \in F : file'[f] \in {0, attempt}
             /\ ~spoilt' => ~spoilt
             /\ ~spoilt' => \A f \in F : file'[f] = attempt
             /\ ~spoilt' => F \cap broken' = {}
             /\ \A f \in Files \ F : file'[f] = file[f]
             /\ broken' \ F \subseteq broken
  <2>1. PICK whole, made \in SUBSET F :
          /\ whole \subseteq made /\ {f \in F : file[f] # 0} \subseteq made
          /\ file' = [f \in Files |-> IF f \in made THEN attempt ELSE file[f]]
          /\ broken' = (broken \ F) \cup (Json \cap (made \ whole))
          /\ spoilt' = (spoilt \/ whole # F)
    BY <1>0 DEF Writes
  <2>2. \A f \in Files : file'[f] = IF f \in made THEN attempt ELSE file[f]
    BY <2>1
  <2>3. ~spoilt' => ~spoilt /\ whole = F /\ made = F
    BY <2>1
  <2>4. ~spoilt' => F \cap broken' = {}
    BY <2>1, <2>3
  <2>5. broken' \ F \subseteq broken
    BY <2>1
  <2> QED
    BY <2>1, <2>2, <2>3, <2>4, <2>5
<1>1. CASE NoMedium
  BY <1>1 DEF NoMedium
<1>2. CASE Clear
  BY <1>2 DEF Clear
<1>3. CASE NotAutoinstall
  BY <1>3 DEF NotAutoinstall
<1>4. CASE Refuse
  BY <1>4 DEF Refuse
<1>5. CASE Copy
  <2>1. PICK d \in drive : /\ Pair(d) /\ Supported(d) /\ CopyOf(d, Given(d))
                           /\ broken' = Unsound(d) \cap Given(d)
    BY <1>5 DEF Copy
  <2>2. file' = [f \in Files |-> IF f \in Given(d) THEN attempt ELSE 0]
    BY <1>5, <2>1 DEF Copy, CopyOf
  <2>3. conf'.mode = "full_disk"
    BY <2>1 DEF CopyOf, Supported, Given
  <2> QED
    BY <1>5, <2>1, <2>2, <2>3 DEF Copy
<1>6. CASE CopyFails
  BY <1>6 DEF CopyFails, CopyOf
<1>7. CASE Uncopy
  BY <1>7 DEF Uncopy
<1>8. CASE Flags
  <2>1. ~(child = "starting")
    BY <1>8 DEF Flags
  <2>2. uiDefer' = Deferred
    BY <1>8 DEF Flags
  <2> QED
    BY <1>8, <2>1, <2>2 DEF Flags
<1>9. CASE Record
  BY <1>9 DEF Record
<1>10. CASE ChildFails
  BY <1>10 DEF ChildFails
<1>11. CASE ChildSucceeds
  BY <1>11 DEF ChildSucceeds
<1>12. CASE HandOver
  BY <1>12 DEF HandOver
<1>13. CASE Ended
  BY <1>13 DEF Ended
<1>14. CASE FailureExit
  BY <1>14 DEF FailureExit
<1>15. CASE FinishReboot
  BY <1>15 DEF FinishReboot
<1>16. CASE StopChild
  BY <1>16 DEF StopChild
<1>17. CASE Attach
  BY <1>17 DEF Attach
<1>18. CASE StartScript
  BY <1>18 DEF StartScript
<1>19. CASE WizardUser
  <2>1. attempt > 0 /\ child # "starting"
    BY <1>19 DEF WizardUser
  <2>2. Written \in SUBSET Files /\ Writes(Written)
    BY <1>19 DEF WizardUser
  <2>3. Answered(Written)'
    BY <1>19, <2>1, <2>2, <1>0 DEF WizardUser
  <2> QED
    BY <1>19, <2>1, <2>3 DEF WizardUser
<1>20. CASE WizardConfig
  <2>1. PICK c : ConfigWritten(c)
    BY <1>20 DEF WizardConfig, WriteProtectedConfig, WriteFullDiskConfig
  <2>2. attempt > 0 /\ child # "starting" /\ ~auto
    BY <2>1 DEF ConfigWritten
  <2>3. {"config"} \in SUBSET Files /\ Writes({"config"})
    BY <2>1 DEF ConfigWritten
  <2>4. Answered(Written)
    BY <2>1 DEF ConfigWritten
  <2>5. Answered(Written \cup {"config"})'
    BY <2>1, <2>2, <2>3, <2>4, <1>0 DEF ConfigWritten
  <2> QED
    BY <2>1, <2>2, <2>5 DEF ConfigWritten
<1>21. CASE WizardAborts
  BY <1>21 DEF WizardAborts
<1>22. CASE Break
  BY <1>22 DEF Break
<1>23. CASE Interrupt
  BY <1>23 DEF Interrupt
<1>24. CASE FailureMenu
  BY <1>24 DEF FailureMenu
<1>25. CASE FinishPrompt
  BY <1>25 DEF FinishPrompt
<1>26. CASE UNCHANGED session
  BY <1>26 DEF session
<1> QED
  BY <1>1, <1>2, <1>3, <1>4, <1>5, <1>6, <1>7, <1>8, <1>9,
     <1>10, <1>11, <1>12, <1>13, <1>14, <1>15, <1>16, <1>17,
     <1>18, <1>19, <1>20, <1>21, <1>22, <1>23, <1>24, <1>25,
     <1>26
    DEF SessionNext, Load, Child, Dashboard, User, Wizard

(* The strengthening is an invariant. *)
THEOREM SessionInvariant == SessionSpec => []SessionIInv
<1>1. SessionIInv /\ [SessionNext]_session => SessionIInv'
  BY SessionStepType, SessionStepPlaced, SessionStepGathered DEF SessionIInv
<1> QED
  BY SessionInitIInv, <1>1, PTL DEF SessionSpec

(* The variables of a live session keep their types. *)
THEOREM SessionTyped == SessionSpec => []SessionTypeOK
<1>1. SessionIInv => SessionTypeOK
  BY DEF SessionIInv
<1> QED
  BY SessionInvariant, <1>1, PTL

(* For any sets of inputs and any number of attempts, an automatic install
   reads exactly the files of its drive, and the wizard hands over answers its
   user has just given, all of them unless one of its writes failed. *)
THEOREM SessionInputs == SessionSpec => []InputsOfThisAttempt
<1>1. SessionIInv => InputsOfThisAttempt
  BY DEF SessionIInv, Placed, Gathered, Answered, InputsOfThisAttempt
<1> QED
  BY SessionInvariant, <1>1, PTL

(* from_env refuses what is handed over only for credentials that were broken
   on the drive or for a write of the wizard in this attempt that failed, and
   only the wizard hands over partitions of its own. *)
THEOREM SessionAccepted == SessionSpec => []HandoverAccepted
<1>1. SessionIInv => HandoverAccepted
  <2> SUFFICES ASSUME SessionIInv, child = "starting"
               PROVE  HandoverAccepted
    BY DEF HandoverAccepted
  <2> USE SessionAssumption DEF SessionIInv, SessionTypeOK, Placed, Gathered,
        HandoverAccepted, Accepts, Parses, Deferred, Watched, Written, Files,
        Optional
  <2>1. attempt > 0
    OBVIOUS
  <2>2. CASE auto
    <3>1. PICK d \in drive :
            /\ Pair(d) /\ broken = Unsound(d) \cap Given(d)
            /\ file = [f \in Files |-> IF f \in Given(d) THEN attempt ELSE 0]
      BY <2>2
    <3>2. Parses("config")
      BY <3>1, <2>1 DEF Given, Unsound
    <3>3. d.sound \/ "creds" \notin d.files => Accepts
      BY <3>1, <3>2, <2>1 DEF Given, Unsound, Pair
    <3> QED
      BY <2>2, <3>3
  <2>3. CASE ~auto
    BY <2>3, <2>1 DEF Answered
  <2> QED
    BY <2>2, <2>3
<1> QED
  BY SessionInvariant, <1>1, PTL

(* The screens agree with what from_env makes of the same files, and the
   failure screen tells of no earlier attempt. *)
THEOREM SessionScreens == SessionSpec => []ScreensAgree
<1>1. SessionIInv => ScreensAgree
  BY DEF SessionIInv, Placed, Gathered, ScreensAgree
<1> QED
  BY SessionInvariant, <1>1, PTL
=============================================================================
