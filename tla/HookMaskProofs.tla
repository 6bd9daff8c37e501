---------------------------- MODULE HookMaskProofs ----------------------------
(***************************************************************************)
(* HookMask's safety properties for any set of hooks, either root, any      *)
(* signals and any number of failed calls and restarts.                    *)
(***************************************************************************)
EXTENDS HookMask, TLAPS

Restored(h) == path[h] = "file" /\ backup[h] = "absent"

AsFound(h) == path[h] = orig[h] /\ backup[h] = "absent"

(***************************************************************************)
(* The inductive invariant adds to the properties what the two loops know   *)
(* of the hooks they have visited, and that only an install which passed    *)
(* the assertion reaches main's finally without having failed.             *)
(***************************************************************************)
LoopInv ==
  /\ pc = "mask" => \A h \in Hooks \ todo : path[h] = "null"
  /\ (pc = "unmask" /\ ~skipped) => \A h \in Hooks \ todo : AsFound(h)

OutcomeInv ==
  /\ status = "ok" => pc = "exit"
  /\ (root = "target" /\ pc = "unmask" /\ caller = "main" /\ status # "failed")
       => \A h \in Hooks : Restored(h)

IInv ==
  /\ TypeOK
  /\ HookNeverLost
  /\ LoopInv
  /\ CommandRunsMasked
  /\ CleanExitRestores
  /\ OutcomeInv
  /\ HandedOverUnmasked

\* Every step keeps the types.
LEMMA TypeOKStep == TypeOK /\ [Next]_vars => TypeOK'
<1> SUFFICES ASSUME TypeOK, [Next]_vars
             PROVE TypeOK'
  OBVIOUS
<1> USE HookMaskAssumption DEF TypeOK, Pcs, disk, found, vars
<1>1. ASSUME NEW h \in Hooks, MaskSkip(h) PROVE TypeOK'
  BY <1>1 DEF MaskSkip
<1>2. ASSUME NEW h \in Hooks, MaskRename(h) PROVE TypeOK'
  BY <1>2 DEF MaskRename
<1>3. ASSUME NEW h \in Hooks, MaskLink(h) PROVE TypeOK'
  BY <1>3 DEF MaskLink
<1>4. ASSUME NEW h \in Hooks, UnmaskUnlink(h) PROVE TypeOK'
  BY <1>4 DEF UnmaskUnlink
<1>5. ASSUME NEW h \in Hooks, UnmaskRename(h) PROVE TypeOK'
  BY <1>5 DEF UnmaskRename
<1>6. ASSUME NEW h \in Hooks, UnmaskNothing(h) PROVE TypeOK'
  BY <1>6 DEF UnmaskNothing
<1>7. ASSUME NEW h \in Hooks, UnmaskFails(h) PROVE TypeOK'
  BY <1>7 DEF UnmaskFails
<1>8. CASE MaskDone
  BY <1>8 DEF MaskDone
<1>9. CASE MaskFails
  <2>1. faults' \in 0..MaxFaults
    BY <1>9 DEF MaskFails
  <2>2. CASE root = "target"
    BY <1>9, <2>1, <2>2 DEF MaskFails, Raise, CallUnmask
  <2>3. CASE root # "target"
    BY <1>9, <2>1, <2>3 DEF MaskFails, Raise
  <2> QED
    BY <2>2, <2>3
<1>10. CASE CommandSucceeds
  BY <1>10 DEF CommandSucceeds, CallUnmask
<1>11. CASE CommandFails
  BY <1>11 DEF CommandFails, CallUnmask
<1>12. CASE UnmaskReturns
  BY <1>12 DEF UnmaskReturns, CallUnmask
<1>13. CASE LaterPhasesFail
  BY <1>13 DEF LaterPhasesFail, Raise, CallUnmask
<1>14. CASE Validate
  BY <1>14 DEF Validate, CallUnmask
<1>15. CASE AssertRestored
  BY <1>15 DEF AssertRestored, Raise, CallUnmask
<1>16. CASE Interrupt
  BY <1>16 DEF Interrupt, Raise, CallUnmask
<1>17. CASE Kill
  BY <1>17 DEF Kill
<1>18. CASE Restart
  <2>1. runs' \in 1..MaxRuns
    BY <1>18 DEF Restart
  <2>2. path' \in [Hooks -> {"absent", "file", "null"}]
          /\ backup' \in [Hooks -> {"absent", "file"}]
    BY <1>18 DEF Restart
  <2> QED
    BY <1>18, <2>1, <2>2 DEF Restart
<1>19. CASE UNCHANGED vars
  BY <1>19
<1> QED
  BY <1>1, <1>2, <1>3, <1>4, <1>5, <1>6, <1>7, <1>8, <1>9, <1>10, <1>11,
     <1>12, <1>13, <1>14, <1>15, <1>16, <1>17, <1>18, <1>19 DEF Next

\* No single file-system call, error, signal or restart loses or doubles a hook.
LEMMA HookNeverLostStep ==
  TypeOK /\ HookNeverLost /\ [Next]_vars => HookNeverLost'
<1> SUFFICES ASSUME TypeOK /\ HookNeverLost, [Next]_vars
             PROVE HookNeverLost'
  OBVIOUS
<1> USE HookMaskAssumption DEF TypeOK, HookNeverLost, disk, found, vars
<1>1. ASSUME NEW h \in Hooks, MaskSkip(h) PROVE HookNeverLost'
  BY <1>1 DEF MaskSkip
<1>2. ASSUME NEW h \in Hooks, MaskRename(h) PROVE HookNeverLost'
  BY <1>2 DEF MaskRename
<1>3. ASSUME NEW h \in Hooks, MaskLink(h) PROVE HookNeverLost'
  BY <1>3 DEF MaskLink
<1>4. ASSUME NEW h \in Hooks, UnmaskUnlink(h) PROVE HookNeverLost'
  BY <1>4 DEF UnmaskUnlink
<1>5. ASSUME NEW h \in Hooks, UnmaskRename(h) PROVE HookNeverLost'
  BY <1>5 DEF UnmaskRename
<1>6. ASSUME NEW h \in Hooks, UnmaskNothing(h) PROVE HookNeverLost'
  BY <1>6 DEF UnmaskNothing
<1>7. ASSUME NEW h \in Hooks, UnmaskFails(h) PROVE HookNeverLost'
  BY <1>7 DEF UnmaskFails
<1>8. CASE MaskDone
  BY <1>8 DEF MaskDone
<1>9. CASE MaskFails
  BY <1>9 DEF MaskFails, Raise, CallUnmask
<1>10. CASE CommandSucceeds
  BY <1>10 DEF CommandSucceeds, CallUnmask
<1>11. CASE CommandFails
  BY <1>11 DEF CommandFails, CallUnmask
<1>12. CASE UnmaskReturns
  BY <1>12 DEF UnmaskReturns, CallUnmask
<1>13. CASE LaterPhasesFail
  BY <1>13 DEF LaterPhasesFail, Raise, CallUnmask
<1>14. CASE Validate
  BY <1>14 DEF Validate, CallUnmask
<1>15. CASE AssertRestored
  BY <1>15 DEF AssertRestored, Raise, CallUnmask
<1>16. CASE Interrupt
  BY <1>16 DEF Interrupt, Raise, CallUnmask
<1>17. CASE Kill
  BY <1>17 DEF Kill
<1>18. CASE Restart
  BY <1>18 DEF Restart
<1>19. CASE UNCHANGED vars
  BY <1>19
<1> QED
  BY <1>1, <1>2, <1>3, <1>4, <1>5, <1>6, <1>7, <1>8, <1>9, <1>10, <1>11,
     <1>12, <1>13, <1>14, <1>15, <1>16, <1>17, <1>18, <1>19 DEF Next

\* A loop leaves the hooks it has visited as it should: masked, or as found.
LEMMA LoopInvStep ==
  TypeOK /\ HookNeverLost /\ LoopInv /\ [Next]_vars => LoopInv'
<1> SUFFICES ASSUME TypeOK /\ HookNeverLost /\ LoopInv, [Next]_vars
             PROVE LoopInv'
  OBVIOUS
<1> USE HookMaskAssumption DEF TypeOK, HookNeverLost, LoopInv, AsFound, disk, found, vars
<1>1. ASSUME NEW h \in Hooks, MaskSkip(h) PROVE LoopInv'
  BY <1>1 DEF MaskSkip
<1>2. ASSUME NEW h \in Hooks, MaskRename(h) PROVE LoopInv'
  BY <1>2 DEF MaskRename
<1>3. ASSUME NEW h \in Hooks, MaskLink(h) PROVE LoopInv'
  BY <1>3 DEF MaskLink
<1>4. ASSUME NEW h \in Hooks, UnmaskUnlink(h) PROVE LoopInv'
  BY <1>4 DEF UnmaskUnlink
<1>5. ASSUME NEW h \in Hooks, UnmaskRename(h) PROVE LoopInv'
  BY <1>5 DEF UnmaskRename
<1>6. ASSUME NEW h \in Hooks, UnmaskNothing(h) PROVE LoopInv'
  BY <1>6 DEF UnmaskNothing
<1>7. ASSUME NEW h \in Hooks, UnmaskFails(h) PROVE LoopInv'
  BY <1>7 DEF UnmaskFails
<1>8. CASE MaskDone
  BY <1>8 DEF MaskDone
<1>9. CASE MaskFails
  BY <1>9 DEF MaskFails, Raise, CallUnmask
<1>10. CASE CommandSucceeds
  BY <1>10 DEF CommandSucceeds, CallUnmask
<1>11. CASE CommandFails
  BY <1>11 DEF CommandFails, CallUnmask
<1>12. CASE UnmaskReturns
  BY <1>12 DEF UnmaskReturns, CallUnmask
<1>13. CASE LaterPhasesFail
  BY <1>13 DEF LaterPhasesFail, Raise, CallUnmask
<1>14. CASE Validate
  BY <1>14 DEF Validate, CallUnmask
<1>15. CASE AssertRestored
  BY <1>15 DEF AssertRestored, Raise, CallUnmask
<1>16. CASE Interrupt
  BY <1>16 DEF Interrupt, Raise, CallUnmask
<1>17. CASE Kill
  BY <1>17 DEF Kill
<1>18. CASE Restart
  BY <1>18 DEF Restart
<1>19. CASE UNCHANGED vars
  BY <1>19
<1> QED
  BY <1>1, <1>2, <1>3, <1>4, <1>5, <1>6, <1>7, <1>8, <1>9, <1>10, <1>11,
     <1>12, <1>13, <1>14, <1>15, <1>16, <1>17, <1>18, <1>19 DEF Next

\* An install exits with an unbroken last unmask only when that loop is done.
LEMMA CleanExitStep ==
  TypeOK /\ LoopInv /\ CleanExitRestores /\ [Next]_vars => CleanExitRestores'
<1> SUFFICES ASSUME TypeOK /\ LoopInv /\ CleanExitRestores, [Next]_vars
             PROVE CleanExitRestores'
  OBVIOUS
<1> USE HookMaskAssumption DEF TypeOK, LoopInv, AsFound, CleanExitRestores, disk, found, vars
<1>1. ASSUME NEW h \in Hooks, MaskSkip(h) PROVE CleanExitRestores'
  BY <1>1 DEF MaskSkip
<1>2. ASSUME NEW h \in Hooks, MaskRename(h) PROVE CleanExitRestores'
  BY <1>2 DEF MaskRename
<1>3. ASSUME NEW h \in Hooks, MaskLink(h) PROVE CleanExitRestores'
  BY <1>3 DEF MaskLink
<1>4. ASSUME NEW h \in Hooks, UnmaskUnlink(h) PROVE CleanExitRestores'
  BY <1>4 DEF UnmaskUnlink
<1>5. ASSUME NEW h \in Hooks, UnmaskRename(h) PROVE CleanExitRestores'
  BY <1>5 DEF UnmaskRename
<1>6. ASSUME NEW h \in Hooks, UnmaskNothing(h) PROVE CleanExitRestores'
  BY <1>6 DEF UnmaskNothing
<1>7. ASSUME NEW h \in Hooks, UnmaskFails(h) PROVE CleanExitRestores'
  BY <1>7 DEF UnmaskFails
<1>8. CASE MaskDone
  BY <1>8 DEF MaskDone
<1>9. CASE MaskFails
  BY <1>9 DEF MaskFails, Raise, CallUnmask
<1>10. CASE CommandSucceeds
  BY <1>10 DEF CommandSucceeds, CallUnmask
<1>11. CASE CommandFails
  BY <1>11 DEF CommandFails, CallUnmask
<1>12. CASE UnmaskReturns
  BY <1>12 DEF UnmaskReturns, CallUnmask
<1>13. CASE LaterPhasesFail
  BY <1>13 DEF LaterPhasesFail, Raise, CallUnmask
<1>14. CASE Validate
  BY <1>14 DEF Validate, CallUnmask
<1>15. CASE AssertRestored
  BY <1>15 DEF AssertRestored, Raise, CallUnmask
<1>16. CASE Interrupt
  BY <1>16 DEF Interrupt, Raise, CallUnmask
<1>17. CASE Kill
  BY <1>17 DEF Kill
<1>18. CASE Restart
  BY <1>18 DEF Restart
<1>19. CASE UNCHANGED vars
  BY <1>19
<1> QED
  BY <1>1, <1>2, <1>3, <1>4, <1>5, <1>6, <1>7, <1>8, <1>9, <1>10, <1>11,
     <1>12, <1>13, <1>14, <1>15, <1>16, <1>17, <1>18, <1>19 DEF Next

\* The command starts when the mask loop has visited every hook.
LEMMA CommandMaskedStep ==
  TypeOK /\ LoopInv /\ CommandRunsMasked /\ [Next]_vars => CommandRunsMasked'
<1> SUFFICES ASSUME TypeOK /\ LoopInv /\ CommandRunsMasked, [Next]_vars
             PROVE CommandRunsMasked'
  OBVIOUS
<1> USE HookMaskAssumption DEF TypeOK, LoopInv, CommandRunsMasked, disk, found, vars
<1>1. ASSUME NEW h \in Hooks, MaskSkip(h) PROVE CommandRunsMasked'
  BY <1>1 DEF MaskSkip
<1>2. ASSUME NEW h \in Hooks, MaskRename(h) PROVE CommandRunsMasked'
  BY <1>2 DEF MaskRename
<1>3. ASSUME NEW h \in Hooks, MaskLink(h) PROVE CommandRunsMasked'
  BY <1>3 DEF MaskLink
<1>4. ASSUME NEW h \in Hooks, UnmaskUnlink(h) PROVE CommandRunsMasked'
  BY <1>4 DEF UnmaskUnlink
<1>5. ASSUME NEW h \in Hooks, UnmaskRename(h) PROVE CommandRunsMasked'
  BY <1>5 DEF UnmaskRename
<1>6. ASSUME NEW h \in Hooks, UnmaskNothing(h) PROVE CommandRunsMasked'
  BY <1>6 DEF UnmaskNothing
<1>7. ASSUME NEW h \in Hooks, UnmaskFails(h) PROVE CommandRunsMasked'
  BY <1>7 DEF UnmaskFails
<1>8. CASE MaskDone
  BY <1>8 DEF MaskDone
<1>9. CASE MaskFails
  BY <1>9 DEF MaskFails, Raise, CallUnmask
<1>10. CASE CommandSucceeds
  BY <1>10 DEF CommandSucceeds, CallUnmask
<1>11. CASE CommandFails
  BY <1>11 DEF CommandFails, CallUnmask
<1>12. CASE UnmaskReturns
  BY <1>12 DEF UnmaskReturns, CallUnmask
<1>13. CASE LaterPhasesFail
  BY <1>13 DEF LaterPhasesFail, Raise, CallUnmask
<1>14. CASE Validate
  BY <1>14 DEF Validate, CallUnmask
<1>15. CASE AssertRestored
  BY <1>15 DEF AssertRestored, Raise, CallUnmask
<1>16. CASE Interrupt
  BY <1>16 DEF Interrupt, Raise, CallUnmask
<1>17. CASE Kill
  BY <1>17 DEF Kill
<1>18. CASE Restart
  BY <1>18 DEF Restart
<1>19. CASE UNCHANGED vars
  BY <1>19
<1> QED
  BY <1>1, <1>2, <1>3, <1>4, <1>5, <1>6, <1>7, <1>8, <1>9, <1>10, <1>11,
     <1>12, <1>13, <1>14, <1>15, <1>16, <1>17, <1>18, <1>19 DEF Next

\* Once the assertion has passed, main's own unmask finds nothing to undo.
LEMMA OutcomeStep ==
  TypeOK /\ OutcomeInv /\ HandedOverUnmasked /\ [Next]_vars => (OutcomeInv /\ HandedOverUnmasked)'
<1> SUFFICES ASSUME TypeOK /\ OutcomeInv /\ HandedOverUnmasked, [Next]_vars
             PROVE (OutcomeInv /\ HandedOverUnmasked)'
  OBVIOUS
<1> USE HookMaskAssumption DEF TypeOK, OutcomeInv, HandedOverUnmasked, Restored, disk, found, vars
<1>1. ASSUME NEW h \in Hooks, MaskSkip(h) PROVE (OutcomeInv /\ HandedOverUnmasked)'
  BY <1>1 DEF MaskSkip
<1>2. ASSUME NEW h \in Hooks, MaskRename(h) PROVE (OutcomeInv /\ HandedOverUnmasked)'
  BY <1>2 DEF MaskRename
<1>3. ASSUME NEW h \in Hooks, MaskLink(h) PROVE (OutcomeInv /\ HandedOverUnmasked)'
  BY <1>3 DEF MaskLink
<1>4. ASSUME NEW h \in Hooks, UnmaskUnlink(h) PROVE (OutcomeInv /\ HandedOverUnmasked)'
  BY <1>4 DEF UnmaskUnlink
<1>5. ASSUME NEW h \in Hooks, UnmaskRename(h) PROVE (OutcomeInv /\ HandedOverUnmasked)'
  BY <1>5 DEF UnmaskRename
<1>6. ASSUME NEW h \in Hooks, UnmaskNothing(h) PROVE (OutcomeInv /\ HandedOverUnmasked)'
  BY <1>6 DEF UnmaskNothing
<1>7. ASSUME NEW h \in Hooks, UnmaskFails(h) PROVE (OutcomeInv /\ HandedOverUnmasked)'
  BY <1>7 DEF UnmaskFails
<1>8. CASE MaskDone
  BY <1>8 DEF MaskDone
<1>9. CASE MaskFails
  BY <1>9 DEF MaskFails, Raise, CallUnmask
<1>10. CASE CommandSucceeds
  BY <1>10 DEF CommandSucceeds, CallUnmask
<1>11. CASE CommandFails
  BY <1>11 DEF CommandFails, CallUnmask
<1>12. CASE UnmaskReturns
  BY <1>12 DEF UnmaskReturns, CallUnmask
<1>13. CASE LaterPhasesFail
  BY <1>13 DEF LaterPhasesFail, Raise, CallUnmask
<1>14. CASE Validate
  BY <1>14 DEF Validate, CallUnmask
<1>15. CASE AssertRestored
  BY <1>15 DEF AssertRestored, Raise, CallUnmask
<1>16. CASE Interrupt
  BY <1>16 DEF Interrupt, Raise, CallUnmask
<1>17. CASE Kill
  BY <1>17 DEF Kill
<1>18. CASE Restart
  BY <1>18 DEF Restart
<1>19. CASE UNCHANGED vars
  BY <1>19
<1> QED
  BY <1>1, <1>2, <1>3, <1>4, <1>5, <1>6, <1>7, <1>8, <1>9, <1>10, <1>11,
     <1>12, <1>13, <1>14, <1>15, <1>16, <1>17, <1>18, <1>19 DEF Next

-----------------------------------------------------------------------------

\* The first install of the session starts in the invariant.
LEMMA InitIInv == Init => IInv
<1> SUFFICES ASSUME Init
             PROVE IInv
  OBVIOUS
<1> USE HookMaskAssumption DEF Init
<1>1. TypeOK
  <2>1. runs \in 1..MaxRuns /\ faults \in 0..MaxFaults
    OBVIOUS
  <2> QED
    BY <2>1 DEF TypeOK, Pcs
<1>2. HookNeverLost
  BY DEF HookNeverLost
<1>3. LoopInv /\ CommandRunsMasked /\ CleanExitRestores
  BY DEF LoopInv, CommandRunsMasked, CleanExitRestores
<1>4. OutcomeInv /\ HandedOverUnmasked
  BY DEF OutcomeInv, HandedOverUnmasked
<1> QED
  BY <1>1, <1>2, <1>3, <1>4 DEF IInv

\* IInv is an invariant of the mask under every interleaving of faults.
THEOREM IInvInvariant == Spec => []IInv
<1>1. IInv /\ [Next]_vars => IInv'
  BY TypeOKStep, HookNeverLostStep, LoopInvStep, CleanExitStep,
     CommandMaskedStep, OutcomeStep
  DEF IInv
<1> QED
  BY InitIInv, <1>1, PTL DEF Spec

\* The variables keep their types.
THEOREM TypeCorrect == Spec => []TypeOK
BY IInvInvariant, PTL DEF IInv

\* A hook that was there when the session began is always at exactly one of its
\* path and its backup, whatever fails, is interrupted or is started again.
THEOREM HookPreserved == Spec => []HookNeverLost
BY IInvInvariant, PTL DEF IInv

\* The install command runs with every hook of the list masked.
THEOREM MaskedWhileRunning == Spec => []CommandRunsMasked
BY IInvInvariant, PTL DEF IInv

\* A target handed over as a success has its real hook and no backup.
THEOREM HandOver == Spec => []HandedOverUnmasked
BY IInvInvariant, PTL DEF IInv

\* An install whose last unmask ran to its end left the hooks as it found them.
THEOREM ExitRestores == Spec => []CleanExitRestores
BY IInvInvariant, PTL DEF IInv

=============================================================================
