------------------------- MODULE WpsFirmwareProofs -------------------------
(***************************************************************************)
(* Proofs about the control program, for every set of parameter sets,      *)
(* every target and every window length, whether or not the comparator     *)
(* may fall with the switches off.                                         *)
(***************************************************************************)
EXTENDS WpsRequirements, TLAPS

\* The configurations that the code programs are well formed.
LEMMA ConfigsAreConfigs ==
    /\ NoConfig \in Configs /\ HvConfig \in Configs /\ EdgeConfig \in Configs
    /\ \A p \in ParamSets : IsoConfig(p) \in Configs
BY ConstantsAssumption DEF NoConfig, HvConfig, EdgeConfig, IsoConfig, Configs

(***************************************************************************)
(* Type correctness.  The Boolean variables go to Zenon, which tells FALSE *)
(* from a value that is no Boolean; the others to SMT.                     *)
(***************************************************************************)

\* No step of the program turns one of its flags into something else.
LEMMA FlagsStep == ASSUME FlagsOK, [Next]_vars PROVE FlagsOK'
<1> USE DEF FlagsOK
<1>1. CASE BootArm
  BY Zenon, <1>1 DEF BootArm, ctxVars, stageVars, faultVars, measured, pins, aside
<1>2. CASE BootHold
  BY Zenon, <1>2 DEF BootHold, StageSetup, ctxVars, stageVars, faultVars,
     measured, pins, aside
<1>3. CASE BootSweep
  BY Zenon, <1>3 DEF BootSweep, FaultTrip, Hidden, StageDisable, ctxVars, stageVars,
     faultVars, measured, pins, aside
<1>4. CASE BootDrop
  BY Zenon, <1>4 DEF BootDrop, StageDisable, ctxVars, stageVars, faultVars,
     measured, pins, aside
<1>5. CASE EnterHandler
  BY Zenon, <1>5 DEF EnterHandler, CutInHandler, StageDisable, ctxVars, stageVars,
     faultVars, measured, pins, aside
<1>6. CASE PmmPauseOver
  BY Zenon, <1>6 DEF PmmPauseOver, ctxVars, stageVars, faultVars, measured,
     pins, aside
<1>7. CASE PgoodBack
  BY Zenon, <1>7 DEF PgoodBack, ctxVars, stageVars, faultVars, measured, pins, aside
<1>8. CASE ClearFault
  BY Zenon, <1>8 DEF ClearFault, LowerFlag, ResetStats, ForgetPreparation,
     ctxVars, stageVars, faultVars, measured, pins, aside
<1>9. CASE EnterPoll
  BY Zenon, <1>9 DEF EnterPoll, ctxVars, stageVars, faultVars, measured, pins, aside
<1>10. CASE PollDone
  BY Zenon, <1>10 DEF PollDone, ctxVars, stageVars, faultVars, measured, pins, aside
<1>11. CASE PeriphSkip
  BY Zenon, <1>11 DEF PeriphSkip, ctxVars, stageVars, faultVars, measured,
     pins, aside
<1>12. CASE PeriphTick
  BY Zenon, <1>12 DEF PeriphTick, TickFeedback, FaultTrip, Hidden, StageDisable,
     ctxVars, stageVars, faultVars, measured, pins, aside
<1>13. CASE DispatchIdle
  BY Zenon, <1>13 DEF DispatchIdle, CutInIdle, StageDisable, ctxVars, stageVars,
     faultVars, measured, pins, aside
<1>14. CASE DispatchOperating
  BY Zenon, <1>14 DEF DispatchOperating, ctxVars, stageVars, faultVars,
     measured, pins, aside
<1>15. CASE Setup
  BY Zenon, <1>15 DEF Setup, FreshWindow, FaultTrip, Hidden, StageDisable,
     StageSetup, ctxVars, stageVars, faultVars, measured, pins, aside
<1>16. CASE Latch
  BY Zenon, <1>16 DEF Latch, ctxVars, stageVars, faultVars, measured, pins, aside
<1>17. CASE IsoTarget
  BY Zenon, <1>17 DEF IsoTarget, ctxVars, stageVars, faultVars, measured, pins,
     aside
<1>18. CASE IsoContinue
  BY Zenon, <1>18 DEF IsoContinue, ctxVars, stageVars, faultVars, measured,
     pins, aside
<1>19. CASE IsoWindow
  BY Zenon, <1>19 DEF IsoWindow, StageDisable, ctxVars, stageVars,
     faultVars, measured, pins, aside
<1>20. CASE RatePauseOver
  BY Zenon, <1>20 DEF RatePauseOver, Rearm, StageSetup, ctxVars, stageVars,
     faultVars, measured, pins, aside
<1>21. CASE PowerCheck
  BY Zenon, <1>21 DEF PowerCheck, StageDisable, ctxVars, stageVars,
     faultVars, measured, pins, aside
<1>22. CASE PowerPauseOver
  BY Zenon, <1>22 DEF PowerPauseOver, Rearm, StageSetup, ctxVars, stageVars,
     faultVars, measured, pins, aside
<1>23. CASE WindowClose
  BY Zenon, <1>23 DEF WindowClose, ResetWindow, ctxVars, stageVars, faultVars,
     measured, pins, aside
<1>24. CASE EdgeWait
  BY Zenon, <1>24 DEF EdgeWait, ctxVars, stageVars, faultVars, measured, pins, aside
<1>25. CASE EdgeReport
  BY Zenon, <1>25 DEF EdgeReport, ContactTone, ctxVars, stageVars, faultVars,
     measured, pins, aside
<1>26. CASE EdgeToneOver
  BY Zenon, <1>26 DEF EdgeToneOver, ctxVars, stageVars, faultVars, measured,
     pins, aside
<1>27. CASE EdgeQuietOver
  BY Zenon, <1>27 DEF EdgeQuietOver, ctxVars, stageVars, faultVars,
     measured, pins, aside
<1>28. CASE CmdReset
  BY Zenon, <1>28 DEF CmdReset, Reboot, ctxVars, stageVars, faultVars,
     measured, pins, aside
<1>29. CASE CmdFeedbackRatio
  BY Zenon, <1>29 DEF CmdFeedbackRatio, ctxVars, stageVars, faultVars,
     measured, pins, aside
<1>30. CASE PmmFalls
  BY Zenon, <1>30 DEF PmmFalls, FaultTrip, Hidden, StageDisable, ctxVars, stageVars,
     faultVars, measured, pins, aside
<1>31. CASE PgoodFalls
  BY Zenon, <1>31 DEF PgoodFalls, FaultTrip, Hidden, StageDisable, ctxVars,
     stageVars, faultVars, measured, pins, aside
<1>32. CASE IsoDischarge
  BY Zenon, <1>32 DEF IsoDischarge, ctxVars, stageVars, faultVars, measured,
     pins, aside
<1>33. CASE EdgeContact
  BY Zenon, <1>33 DEF EdgeContact, StageDisable, ctxVars, stageVars,
     faultVars, measured, pins, aside
<1>34. CASE FaultPinRises
  BY Zenon, <1>34 DEF FaultPinRises, ctxVars, stageVars, faultVars,
     measured, pins, aside
<1>35. CASE EnablePinMoves
  BY Zenon, <1>35 DEF EnablePinMoves, ctxVars, stageVars, faultVars,
     measured, pins, aside
<1>36. CASE ClockTick
  BY Zenon, <1>36 DEF ClockTick, ctxVars, stageVars, faultVars, measured, pins,
     aside
<1>37. ASSUME NEW p \in ParamSets, CmdSetParameters(p) PROVE FlagsOK'
  BY Zenon, <1>37 DEF CmdSetParameters, ForgetPreparation, Polling, ctxVars,
     stageVars, faultVars, measured, pins, aside
<1>38. ASSUME NEW m \in Modes, CmdMode(m) PROVE FlagsOK'
  BY Zenon, <1>38 DEF CmdMode, CutFirst, ForgetPreparation, Polling,
     StageDisable, ctxVars, stageVars, faultVars, measured, pins, aside
<1>39. CASE UNCHANGED vars
  BY Zenon, <1>39 DEF vars, ctxVars, stageVars, faultVars, measured, pins, aside
<1> QED
  BY <1>1, <1>2, <1>3, <1>4, <1>5, <1>6, <1>7, <1>8, <1>9, <1>10, <1>11,
     <1>12, <1>13, <1>14, <1>15, <1>16, <1>17, <1>18, <1>19, <1>20, <1>21,
     <1>22, <1>23, <1>24, <1>25, <1>26, <1>27, <1>28, <1>29, <1>30, <1>31,
     <1>32, <1>33, <1>34, <1>35, <1>36, <1>37, <1>38, <1>39
     DEF Next, MainThread, Boot, Handler, LoopHead, Prepare, RunIsofreq,
        RunEdge, Operator, Interrupts, Environment

\* No step takes any other variable out of its range.
LEMMA ValuesStep == ASSUME TypeOK, [Next]_vars PROVE ValuesOK'
<1> USE ConstantsAssumption
    DEF TypeOK, FlagsOK, ValuesOK, States, Modes, FaultTypes, Recoverable,
        NonRecoverable, BootPoints, HandlerPoints, LoopPoints, Currents, Feedbacks
<1>1. CASE BootArm
  BY <1>1 DEF BootArm, ctxVars, stageVars, faultVars, measured, pins, aside
<1>2. CASE BootHold
  BY ConfigsAreConfigs, <1>2 DEF BootHold, StageSetup, ctxVars, stageVars,
     faultVars, measured, pins, aside
<1>3. CASE BootSweep
  BY <1>3 DEF BootSweep, FaultTrip, StageDisable, ctxVars, stageVars,
     faultVars, measured, pins, aside
<1>4. CASE BootDrop
  BY <1>4 DEF BootDrop, StageDisable, ctxVars, stageVars, faultVars,
     measured, pins, aside
<1>5. CASE EnterHandler
  BY <1>5 DEF EnterHandler, CutInHandler, StageDisable, RecoveryPoint, ctxVars,
     stageVars, faultVars, measured, pins, aside
<1>6. CASE PmmPauseOver
  BY <1>6 DEF PmmPauseOver, ctxVars, stageVars, faultVars, measured, pins, aside
<1>7. CASE PgoodBack
  BY <1>7 DEF PgoodBack, ctxVars, stageVars, faultVars, measured, pins, aside
<1>8. CASE ClearFault
  BY <1>8 DEF ClearFault, LowerFlag, ResetStats, ForgetPreparation, ctxVars,
     stageVars, faultVars, measured, pins, aside
<1>9. CASE EnterPoll
  BY <1>9 DEF EnterPoll, ctxVars, stageVars, faultVars, measured, pins, aside
<1>10. CASE PollDone
  BY <1>10 DEF PollDone, ctxVars, stageVars, faultVars, measured, pins, aside
<1>11. CASE PeriphSkip
  BY <1>11 DEF PeriphSkip, ctxVars, stageVars, faultVars, measured, pins, aside
<1>12. CASE PeriphTick
  BY <1>12 DEF PeriphTick, TickFeedback, FaultTrip, StageDisable, OneSampleLater,
     StateFromPin, ctxVars, stageVars, faultVars, measured, pins, aside
<1>13. CASE DispatchIdle
  BY <1>13 DEF DispatchIdle, CutInIdle, StageDisable, ctxVars, stageVars, faultVars,
     measured, pins, aside
<1>14. CASE DispatchOperating
  BY <1>14 DEF DispatchOperating, ctxVars, stageVars, faultVars, measured,
     pins, aside
<1>15. CASE Setup
  BY ConfigsAreConfigs, <1>15 DEF Setup, FreshWindow, FaultTrip, StageDisable,
     StageSetup, ModeConfig, ctxVars, stageVars, faultVars, measured, pins, aside
<1>16. CASE Latch
  BY <1>16 DEF Latch, ctxVars, stageVars, faultVars, measured, pins, aside
<1>17. CASE IsoTarget
  BY <1>17 DEF IsoTarget, ctxVars, stageVars, faultVars, measured, pins, aside
<1>18. CASE IsoContinue
  BY <1>18 DEF IsoContinue, ctxVars, stageVars, faultVars, measured, pins, aside
<1>19. CASE IsoWindow
  BY <1>19 DEF IsoWindow, StageDisable, ctxVars, stageVars, faultVars,
     measured, pins, aside
<1>20. CASE RatePauseOver
  BY ConfigsAreConfigs, <1>20 DEF RatePauseOver, Rearm, StageSetup, ctxVars,
     stageVars, faultVars, measured, pins, aside
<1>21. CASE PowerCheck
  BY <1>21 DEF PowerCheck, StageDisable, ctxVars, stageVars, faultVars,
     measured, pins, aside
<1>22. CASE PowerPauseOver
  BY ConfigsAreConfigs, <1>22 DEF PowerPauseOver, Rearm, StageSetup,
     ctxVars, stageVars, faultVars, measured, pins, aside
<1>23. CASE WindowClose
  BY <1>23 DEF WindowClose, ResetWindow, ctxVars, stageVars, faultVars,
     measured, pins, aside
<1>24. CASE EdgeWait
  BY <1>24 DEF EdgeWait, ctxVars, stageVars, faultVars, measured, pins, aside
<1>25. CASE EdgeReport
  BY <1>25 DEF EdgeReport, ContactTone, ctxVars, stageVars, faultVars,
     measured, pins, aside
<1>26. CASE EdgeToneOver
  BY <1>26 DEF EdgeToneOver, ctxVars, stageVars, faultVars, measured, pins, aside
<1>27. CASE EdgeQuietOver
  BY <1>27 DEF EdgeQuietOver, ctxVars, stageVars, faultVars, measured, pins, aside
<1>28. CASE CmdReset
  BY ConfigsAreConfigs, <1>28 DEF CmdReset, Reboot, ctxVars, stageVars,
     faultVars, measured, pins, aside
<1>29. CASE CmdFeedbackRatio
  BY <1>29 DEF CmdFeedbackRatio, ctxVars, stageVars, faultVars, measured, pins,
     aside
<1>30. CASE PmmFalls
  BY <1>30 DEF PmmFalls, FaultTrip, StageDisable, ctxVars, stageVars,
     faultVars, measured, pins, aside
<1>31. CASE PgoodFalls
  BY <1>31 DEF PgoodFalls, FaultTrip, StageDisable, ctxVars, stageVars,
     faultVars, measured, pins, aside
<1>32. CASE IsoDischarge
  BY <1>32 DEF IsoDischarge, Counted, ctxVars, stageVars, faultVars,
     measured, pins, aside
<1>33. CASE EdgeContact
  BY <1>33 DEF EdgeContact, StageDisable, ctxVars, stageVars, faultVars,
     measured, pins, aside
<1>34. CASE FaultPinRises
  BY <1>34 DEF FaultPinRises, ctxVars, stageVars, faultVars, measured, pins, aside
<1>35. CASE EnablePinMoves
  BY <1>35 DEF EnablePinMoves, ctxVars, stageVars, faultVars, measured, pins, aside
<1>36. CASE ClockTick
  BY <1>36 DEF ClockTick, ctxVars, stageVars, faultVars, measured, pins, aside
<1>37. ASSUME NEW p \in ParamSets, CmdSetParameters(p) PROVE ValuesOK'
  BY <1>37 DEF CmdSetParameters, ForgetPreparation, Polling, ctxVars, stageVars,
     faultVars, measured, pins, aside
<1>38. ASSUME NEW m \in Modes, CmdMode(m) PROVE ValuesOK'
  BY <1>38 DEF CmdMode, CutFirst, ForgetPreparation, Polling, StageDisable,
     ctxVars, stageVars, faultVars, measured, pins, aside
<1>39. CASE UNCHANGED vars
  BY <1>39 DEF vars, ctxVars, stageVars, faultVars, measured, pins, aside
<1> QED
  BY <1>1, <1>2, <1>3, <1>4, <1>5, <1>6, <1>7, <1>8, <1>9, <1>10, <1>11,
     <1>12, <1>13, <1>14, <1>15, <1>16, <1>17, <1>18, <1>19, <1>20, <1>21,
     <1>22, <1>23, <1>24, <1>25, <1>26, <1>27, <1>28, <1>29, <1>30, <1>31,
     <1>32, <1>33, <1>34, <1>35, <1>36, <1>37, <1>38, <1>39
     DEF Next, MainThread, Boot, Handler, LoopHead, Prepare, RunIsofreq,
        RunEdge, Operator, Interrupts, Environment

\* Every variable keeps to its range, for every instance of the constants.
THEOREM TypeCorrect == Spec => []TypeOK
<1>1. Init => TypeOK
  BY ConstantsAssumption, ConfigsAreConfigs DEF Init, TypeOK, FlagsOK, ValuesOK,
     States, Modes, FaultTypes, Recoverable, NonRecoverable, BootPoints,
     Currents, Feedbacks
<1>2. TypeOK /\ [Next]_vars => TypeOK'
  BY FlagsStep, ValuesStep DEF TypeOK
<1>3. QED
  BY <1>1, <1>2, PTL DEF Spec

(***************************************************************************)
(* The inductive invariant.  The four safety properties are not inductive  *)
(* as they stand: a pause re-arms the output without looking at the mode,  *)
(* and the latch trusts the set-up before it.  Strengthening says what the *)
(* main thread's position implies.                                         *)
(***************************************************************************)

\* What the position of the main thread implies stays so.
LEMMA StrengtheningStep ==
    ASSUME TypeOK, Strengthening, [Next]_vars PROVE Strengthening'
<1> USE ConstantsAssumption
    DEF TypeOK, FlagsOK, ValuesOK, States, Modes, BootPoints, HandlerPoints,
        LoopPoints, Strengthening, PointMatchesState, OnlyOperatingIsLive,
        PausesAndPreparation, SetUpIsCurrent
<1>1. CASE BootArm
  BY <1>1 DEF BootArm, ctxVars, stageVars, faultVars, measured, pins, aside
<1>2. CASE BootHold
  BY <1>2 DEF BootHold, StageSetup, ctxVars, stageVars, faultVars, measured,
     pins, aside
<1>3. CASE BootSweep
  BY <1>3 DEF BootSweep, FaultTrip, StageDisable, ctxVars, stageVars,
     faultVars, measured, pins, aside
<1>4. CASE BootDrop
  BY <1>4 DEF BootDrop, StageDisable, ctxVars, stageVars, faultVars,
     measured, pins, aside
<1>5. CASE EnterHandler
  BY <1>5 DEF EnterHandler, CutInHandler, StageDisable, RecoveryPoint, FaultTypes,
     Recoverable, NonRecoverable, ctxVars, stageVars, faultVars, measured,
     pins, aside
<1>6. CASE PmmPauseOver
  BY <1>6 DEF PmmPauseOver, ctxVars, stageVars, faultVars, measured, pins, aside
<1>7. CASE PgoodBack
  BY <1>7 DEF PgoodBack, ctxVars, stageVars, faultVars, measured, pins, aside
<1>8. CASE ClearFault
  BY <1>8 DEF ClearFault, LowerFlag, ResetStats, ForgetPreparation, ctxVars,
     stageVars, faultVars, measured, pins, aside
<1>9. CASE EnterPoll
  BY <1>9 DEF EnterPoll, ctxVars, stageVars, faultVars, measured, pins, aside
<1>10. CASE PollDone
  BY <1>10 DEF PollDone, ctxVars, stageVars, faultVars, measured, pins, aside
<1>11. CASE PeriphSkip
  BY <1>11 DEF PeriphSkip, ctxVars, stageVars, faultVars, measured, pins, aside
<1>12. CASE PeriphTick
  BY <1>12 DEF PeriphTick, TickFeedback, FaultTrip, StageDisable, StateFromPin,
     ctxVars, stageVars, faultVars, measured, pins, aside
<1>13. CASE DispatchIdle
  BY <1>13 DEF DispatchIdle, CutInIdle, StageDisable, ctxVars, stageVars, faultVars,
     measured, pins, aside
<1>14. CASE DispatchOperating
  BY <1>14 DEF DispatchOperating, ctxVars, stageVars, faultVars, measured,
     pins, aside
<1>15. CASE Setup
  BY <1>15 DEF Setup, FreshWindow, FaultTrip, StageDisable, StageSetup, ModeConfig,
     ctxVars, stageVars, faultVars, measured, pins, aside
<1>16. CASE Latch
  BY <1>16 DEF Latch, ctxVars, stageVars, faultVars, measured, pins, aside
<1>17. CASE IsoTarget
  BY <1>17 DEF IsoTarget, ctxVars, stageVars, faultVars, measured, pins, aside
<1>18. CASE IsoContinue
  BY <1>18 DEF IsoContinue, ctxVars, stageVars, faultVars, measured, pins, aside
<1>19. CASE IsoWindow
  BY <1>19 DEF IsoWindow, StageDisable, ctxVars, stageVars, faultVars,
     measured, pins, aside
<1>20. CASE RatePauseOver
  BY <1>20 DEF RatePauseOver, Rearm, StageSetup, ctxVars, stageVars,
     faultVars, measured, pins, aside
<1>21. CASE PowerCheck
  BY <1>21 DEF PowerCheck, StageDisable, ctxVars, stageVars, faultVars,
     measured, pins, aside
<1>22. CASE PowerPauseOver
  BY <1>22 DEF PowerPauseOver, Rearm, StageSetup, ctxVars, stageVars,
     faultVars, measured, pins, aside
<1>23. CASE WindowClose
  BY <1>23 DEF WindowClose, ResetWindow, ctxVars, stageVars, faultVars,
     measured, pins, aside
<1>24. CASE EdgeWait
  BY <1>24 DEF EdgeWait, ctxVars, stageVars, faultVars, measured, pins, aside
<1>25. CASE EdgeReport
  BY <1>25 DEF EdgeReport, ContactTone, ctxVars, stageVars, faultVars,
     measured, pins, aside
<1>26. CASE EdgeToneOver
  BY <1>26 DEF EdgeToneOver, ctxVars, stageVars, faultVars, measured, pins, aside
<1>27. CASE EdgeQuietOver
  BY <1>27 DEF EdgeQuietOver, ctxVars, stageVars, faultVars, measured, pins, aside
<1>28. CASE CmdReset
  BY <1>28 DEF CmdReset, Reboot, Polling, ctxVars, stageVars, faultVars,
     measured, pins, aside
<1>29. CASE CmdFeedbackRatio
  BY <1>29 DEF CmdFeedbackRatio, Polling, ctxVars, stageVars, faultVars,
     measured, pins, aside
<1>30. CASE PmmFalls
  BY <1>30 DEF PmmFalls, FaultTrip, StageDisable, ctxVars, stageVars,
     faultVars, measured, pins, aside
<1>31. CASE PgoodFalls
  BY <1>31 DEF PgoodFalls, FaultTrip, StageDisable, ctxVars, stageVars,
     faultVars, measured, pins, aside
<1>32. CASE IsoDischarge
  BY <1>32 DEF IsoDischarge, Counted, ctxVars, stageVars, faultVars,
     measured, pins, aside
<1>33. CASE EdgeContact
  BY <1>33 DEF EdgeContact, StageDisable, ctxVars, stageVars, faultVars,
     measured, pins, aside
<1>34. CASE FaultPinRises
  BY <1>34 DEF FaultPinRises, ctxVars, stageVars, faultVars, measured, pins, aside
<1>35. CASE EnablePinMoves
  BY <1>35 DEF EnablePinMoves, ctxVars, stageVars, faultVars, measured, pins, aside
<1>36. CASE ClockTick
  BY <1>36 DEF ClockTick, ctxVars, stageVars, faultVars, measured, pins, aside
<1>37. ASSUME NEW p \in ParamSets, CmdSetParameters(p) PROVE Strengthening'
  BY <1>37 DEF CmdSetParameters, ForgetPreparation, Polling, ctxVars, stageVars,
     faultVars, measured, pins, aside
<1>38. ASSUME NEW m \in Modes, CmdMode(m) PROVE Strengthening'
  BY <1>38 DEF CmdMode, CutFirst, ForgetPreparation, Polling, StageDisable,
     ctxVars, stageVars, faultVars, measured, pins, aside
<1>39. CASE UNCHANGED vars
  BY <1>39 DEF vars, ctxVars, stageVars, faultVars, measured, pins, aside
<1> QED
  BY <1>1, <1>2, <1>3, <1>4, <1>5, <1>6, <1>7, <1>8, <1>9, <1>10, <1>11,
     <1>12, <1>13, <1>14, <1>15, <1>16, <1>17, <1>18, <1>19, <1>20, <1>21,
     <1>22, <1>23, <1>24, <1>25, <1>26, <1>27, <1>28, <1>29, <1>30, <1>31,
     <1>32, <1>33, <1>34, <1>35, <1>36, <1>37, <1>38, <1>39
     DEF Next, MainThread, Boot, Handler, LoopHead, Prepare, RunIsofreq,
        RunEdge, Operator, Interrupts, Environment

\* The four safety properties, step by step.
LEMMA SafetyStep ==
    ASSUME TypeOK, Strengthening, FaultCutBeforePoll, PulsesMatchMode,
           PreparationIsCurrent, RateCountsThisOperation, [Next]_vars
    PROVE  /\ FaultCutBeforePoll'
           /\ PulsesMatchMode'
           /\ PreparationIsCurrent'
           /\ RateCountsThisOperation'
<1> DEFINE Safety ==
        /\ FaultCutBeforePoll
        /\ PulsesMatchMode
        /\ PreparationIsCurrent
        /\ RateCountsThisOperation
<1> SUFFICES Safety'
  OBVIOUS
<1> USE ConstantsAssumption
    DEF TypeOK, FlagsOK, ValuesOK, States, Modes, BootPoints, HandlerPoints,
        LoopPoints, Strengthening, PointMatchesState, OnlyOperatingIsLive,
        PausesAndPreparation, SetUpIsCurrent, FaultCutBeforePoll, RearmWindow,
        PulsesMatchMode, PreparationIsCurrent, RateCountsThisOperation
<1>1. CASE BootArm
  BY <1>1 DEF BootArm, ctxVars, stageVars, faultVars, measured, pins, aside
<1>2. CASE BootHold
  BY <1>2 DEF BootHold, StageSetup, ctxVars, stageVars, faultVars, measured,
     pins, aside
<1>3. CASE BootSweep
  BY <1>3 DEF BootSweep, FaultTrip, StageDisable, ctxVars, stageVars,
     faultVars, measured, pins, aside
<1>4. CASE BootDrop
  BY <1>4 DEF BootDrop, StageDisable, ctxVars, stageVars, faultVars,
     measured, pins, aside
<1>5. CASE EnterHandler
  BY <1>5 DEF EnterHandler, CutInHandler, StageDisable, RecoveryPoint, ctxVars,
     stageVars, faultVars, measured, pins, aside
<1>6. CASE PmmPauseOver
  BY <1>6 DEF PmmPauseOver, ctxVars, stageVars, faultVars, measured, pins, aside
<1>7. CASE PgoodBack
  BY <1>7 DEF PgoodBack, ctxVars, stageVars, faultVars, measured, pins, aside
<1>8. CASE ClearFault
  BY <1>8 DEF ClearFault, LowerFlag, ResetStats, ForgetPreparation, ctxVars,
     stageVars, faultVars, measured, pins, aside
<1>9. CASE EnterPoll
  BY <1>9 DEF EnterPoll, ctxVars, stageVars, faultVars, measured, pins, aside
<1>10. CASE PollDone
  BY <1>10 DEF PollDone, ctxVars, stageVars, faultVars, measured, pins, aside
<1>11. CASE PeriphSkip
  BY <1>11 DEF PeriphSkip, ctxVars, stageVars, faultVars, measured, pins, aside
<1>12. CASE PeriphTick
  BY <1>12 DEF PeriphTick, TickFeedback, FaultTrip, StageDisable, StateFromPin,
     ctxVars, stageVars, faultVars, measured, pins, aside
<1>13. CASE DispatchIdle
  BY <1>13 DEF DispatchIdle, CutInIdle, StageDisable, ctxVars, stageVars, faultVars,
     measured, pins, aside
<1>14. CASE DispatchOperating
  BY <1>14 DEF DispatchOperating, ctxVars, stageVars, faultVars, measured,
     pins, aside
<1>15. CASE Setup
  BY <1>15 DEF Setup, FreshWindow, FaultTrip, StageDisable, StageSetup, ModeConfig,
     ctxVars, stageVars, faultVars, measured, pins, aside
<1>16. CASE Latch
  BY <1>16 DEF Latch, ctxVars, stageVars, faultVars, measured, pins, aside
<1>17. CASE IsoTarget
  BY <1>17 DEF IsoTarget, ctxVars, stageVars, faultVars, measured, pins, aside
<1>18. CASE IsoContinue
  BY <1>18 DEF IsoContinue, ctxVars, stageVars, faultVars, measured, pins, aside
<1>19. CASE IsoWindow
  BY <1>19 DEF IsoWindow, StageDisable, ctxVars, stageVars, faultVars,
     measured, pins, aside
<1>20. CASE RatePauseOver
  BY <1>20 DEF RatePauseOver, Rearm, StageSetup, ModeConfig, ctxVars,
     stageVars, faultVars, measured, pins, aside
<1>21. CASE PowerCheck
  BY <1>21 DEF PowerCheck, StageDisable, ctxVars, stageVars, faultVars,
     measured, pins, aside
<1>22. CASE PowerPauseOver
  BY <1>22 DEF PowerPauseOver, Rearm, StageSetup, ModeConfig, ctxVars,
     stageVars, faultVars, measured, pins, aside
<1>23. CASE WindowClose
  BY <1>23 DEF WindowClose, ResetWindow, ctxVars, stageVars, faultVars,
     measured, pins, aside
<1>24. CASE EdgeWait
  BY <1>24 DEF EdgeWait, ctxVars, stageVars, faultVars, measured, pins, aside
<1>25. CASE EdgeReport
  BY <1>25 DEF EdgeReport, ContactTone, ctxVars, stageVars, faultVars,
     measured, pins, aside
<1>26. CASE EdgeToneOver
  BY <1>26 DEF EdgeToneOver, ctxVars, stageVars, faultVars, measured, pins, aside
<1>27. CASE EdgeQuietOver
  BY <1>27 DEF EdgeQuietOver, ctxVars, stageVars, faultVars, measured, pins, aside
<1>28. CASE CmdReset
  BY <1>28 DEF CmdReset, Reboot, Polling, ctxVars, stageVars, faultVars,
     measured, pins, aside
<1>29. CASE CmdFeedbackRatio
  BY <1>29 DEF CmdFeedbackRatio, Polling, ctxVars, stageVars, faultVars,
     measured, pins, aside
<1>30. CASE PmmFalls
  BY <1>30 DEF PmmFalls, FaultTrip, StageDisable, ctxVars, stageVars,
     faultVars, measured, pins, aside
<1>31. CASE PgoodFalls
  BY <1>31 DEF PgoodFalls, FaultTrip, StageDisable, ctxVars, stageVars,
     faultVars, measured, pins, aside
<1>32. CASE IsoDischarge
  BY <1>32 DEF IsoDischarge, Counted, ctxVars, stageVars, faultVars,
     measured, pins, aside
<1>33. CASE EdgeContact
  BY <1>33 DEF EdgeContact, StageDisable, ctxVars, stageVars, faultVars,
     measured, pins, aside
<1>34. CASE FaultPinRises
  BY <1>34 DEF FaultPinRises, ctxVars, stageVars, faultVars, measured, pins, aside
<1>35. CASE EnablePinMoves
  BY <1>35 DEF EnablePinMoves, ctxVars, stageVars, faultVars, measured, pins, aside
<1>36. CASE ClockTick
  BY <1>36 DEF ClockTick, ctxVars, stageVars, faultVars, measured, pins, aside
<1>37. ASSUME NEW p \in ParamSets, CmdSetParameters(p) PROVE Safety'
  BY <1>37 DEF CmdSetParameters, ForgetPreparation, Polling, ModeConfig,
     IsoConfig, ctxVars, stageVars, faultVars, measured, pins, aside
<1>38. ASSUME NEW m \in Modes, CmdMode(m) PROVE Safety'
  BY <1>38 DEF CmdMode, CutFirst, ForgetPreparation, Polling, StageDisable,
     ctxVars, stageVars, faultVars, measured, pins, aside
<1>39. CASE UNCHANGED vars
  BY <1>39 DEF vars, ctxVars, stageVars, faultVars, measured, pins, aside
<1> QED
  BY <1>1, <1>2, <1>3, <1>4, <1>5, <1>6, <1>7, <1>8, <1>9, <1>10, <1>11,
     <1>12, <1>13, <1>14, <1>15, <1>16, <1>17, <1>18, <1>19, <1>20, <1>21,
     <1>22, <1>23, <1>24, <1>25, <1>26, <1>27, <1>28, <1>29, <1>30, <1>31,
     <1>32, <1>33, <1>34, <1>35, <1>36, <1>37, <1>38, <1>39
     DEF Next, MainThread, Boot, Handler, LoopHead, Prepare, RunIsofreq,
        RunEdge, Operator, Interrupts, Environment

(***************************************************************************)
(* What hides a low PGOOD, and where the feedback line is silent.  Only a  *)
(* few steps touch either; the others are taken together.                  *)
(***************************************************************************)

\* A low PGOOD is not lost but behind another fault, step by step.
LEMMA PgoodStep ==
    ASSUME TypeOK, UnmaskedIsAwaited, LowPgoodIsPendingOrMasked, [Next]_vars
    PROVE  UnmaskedIsAwaited' /\ LowPgoodIsPendingOrMasked'
<1> USE DEF UnmaskedIsAwaited, LowPgoodIsPendingOrMasked, Armed, HandlerPoints
<1>1. CASE BootArm
  BY <1>1, Zenon DEF BootArm, measured, pins, TypeOK, FlagsOK
<1>2. CASE BootSweep
  BY <1>2 DEF BootSweep, FaultTrip, Hidden, faultVars, pins
<1>3. CASE EnterHandler
  BY <1>3 DEF EnterHandler, RecoveryPoint, faultVars, pins, TypeOK, ValuesOK,
     FaultTypes, Recoverable, NonRecoverable
<1>4. CASE PmmPauseOver \/ PgoodBack
  BY <1>4 DEF PmmPauseOver, PgoodBack, aside, faultVars, pins
<1>5. CASE ClearFault
  BY <1>5 DEF ClearFault, LowerFlag, pins
<1>6. CASE PeriphTick
  BY <1>6 DEF PeriphTick, FaultTrip, Hidden, faultVars, pins
<1>7. CASE Setup
  BY <1>7 DEF Setup, FaultTrip, Hidden, faultVars, pins
<1>8. CASE CmdReset
  BY <1>8 DEF CmdReset, Reboot, pins
<1>9. CASE PmmFalls
  BY <1>9 DEF PmmFalls, FaultTrip, Hidden, faultVars
<1>10. CASE PgoodFalls
  BY <1>10 DEF PgoodFalls, FaultTrip, Hidden, faultVars
<1>11. CASE FaultPinRises
  BY <1>11 DEF FaultPinRises
<1>12. CASE \/ BootHold \/ BootDrop \/ EnterPoll \/ PollDone \/ PeriphSkip
            \/ DispatchIdle \/ DispatchOperating \/ Latch \/ RunIsofreq \/ RunEdge
  <2>1. /\ UNCHANGED <<pending, active, masked, pgood>>
        /\ pc \notin HandlerPoints /\ pc' \notin HandlerPoints /\ pc # "boot"
    BY <1>12 DEF BootHold, BootDrop, EnterPoll, PollDone, PeriphSkip,
       DispatchIdle, DispatchOperating, Latch, RunIsofreq, RunEdge, IsoTarget,
       IsoContinue, IsoWindow, RatePauseOver, PowerCheck, PowerPauseOver,
       WindowClose, EdgeWait, EdgeReport, EdgeToneOver, EdgeQuietOver, aside,
       faultVars, pins
  <2> QED
    BY <2>1
<1>13. CASE \/ CmdFeedbackRatio \/ IsoDischarge \/ EdgeContact
            \/ EnablePinMoves \/ ClockTick \/ UNCHANGED vars
            \/ (\E p \in ParamSets : CmdSetParameters(p)) \/ (\E m \in Modes : CmdMode(m))
  <2>1. UNCHANGED <<pc, pending, active, masked, pgood>>
    BY <1>13 DEF CmdFeedbackRatio, IsoDischarge, EdgeContact, EnablePinMoves,
       ClockTick, CmdSetParameters, CmdMode, vars, aside, faultVars, pins
  <2> QED
    BY <2>1
<1> QED
  BY <1>1, <1>2, <1>3, <1>4, <1>5, <1>6, <1>7, <1>8, <1>9, <1>10, <1>11, <1>12,
     <1>13 DEF Next, MainThread, Boot, Handler, LoopHead, Prepare, Operator,
     Interrupts, Environment

\* Only the operating state, and the operator, put a frequency on the line.
LEMMA SilenceStep ==
    ASSUME TypeOK, Strengthening, SilentUnlessOperating, [Next]_vars
    PROVE  SilentUnlessOperating'
<1> USE DEF SilentUnlessOperating, Strengthening, PointMatchesState, LoopPoints,
        BootPoints
<1>1. CASE EnterHandler \/ ClearFault
  BY <1>1 DEF EnterHandler, ClearFault, HandlerPoints
<1>2. CASE BootDrop
  BY <1>2 DEF BootDrop, aside
<1>3. CASE PeriphTick
  BY <1>3 DEF PeriphTick, TickFeedback, StateFromPin
<1>4. CASE IsoTarget \/ EdgeReport \/ EdgeToneOver
  BY <1>4 DEF IsoTarget, EdgeReport, EdgeToneOver, ctxVars
<1>5. CASE CmdReset \/ CmdFeedbackRatio
  BY <1>5 DEF CmdReset, Reboot, CmdFeedbackRatio
<1>6. CASE \/ BootArm \/ BootHold \/ BootSweep \/ PmmPauseOver \/ PgoodBack
           \/ EnterPoll \/ PollDone \/ PeriphSkip \/ Prepare
           \/ IsoContinue \/ IsoWindow \/ RatePauseOver \/ PowerCheck
           \/ PowerPauseOver \/ WindowClose \/ EdgeWait \/ EdgeQuietOver
           \/ (\E p \in ParamSets : CmdSetParameters(p)) \/ (\E m \in Modes : CmdMode(m))
           \/ Interrupts \/ Environment \/ UNCHANGED vars
  <2>1. UNCHANGED <<state, feedback>>
    BY <1>6 DEF BootArm, BootHold, BootSweep, PmmPauseOver, PgoodBack, EnterPoll,
       PollDone, PeriphSkip, Prepare, DispatchIdle, DispatchOperating, Setup,
       Latch, IsoContinue, IsoWindow, RatePauseOver, PowerCheck, PowerPauseOver,
       WindowClose, EdgeWait, EdgeQuietOver, CmdSetParameters, CmdMode,
       Interrupts, PmmFalls, PgoodFalls, IsoDischarge, EdgeContact, Environment,
       FaultPinRises, EnablePinMoves, ClockTick, vars, ctxVars, aside
  <2> QED
    BY <2>1
<1> QED
  BY <1>1, <1>2, <1>3, <1>4, <1>5, <1>6 DEF Next, MainThread, Boot, Handler,
     LoopHead, RunIsofreq, RunEdge, Operator

\* The inductive invariant holds throughout.
THEOREM Invariance == Spec => []IInv
<1>1. Init => IInv
  <2> SUFFICES ASSUME Init PROVE IInv
    OBVIOUS
  <2>1. TypeOK
    BY ConstantsAssumption, ConfigsAreConfigs
       DEF Init, TypeOK, FlagsOK, ValuesOK, States, Modes, FaultTypes, Recoverable,
           NonRecoverable, BootPoints, Currents, Feedbacks
  <2> QED
    BY <2>1 DEF Init, IInv, Strengthening, PointMatchesState, OnlyOperatingIsLive,
                PausesAndPreparation, SetUpIsCurrent, FaultCutBeforePoll,
                PulsesMatchMode, PreparationIsCurrent, RateCountsThisOperation,
                UnmaskedIsAwaited, LowPgoodIsPendingOrMasked, Armed,
                SilentUnlessOperating, BootPoints, HandlerPoints, LoopPoints
<1>2. IInv /\ [Next]_vars => IInv'
  BY FlagsStep, ValuesStep, StrengtheningStep, SafetyStep, PgoodStep,
     SilenceStep DEF IInv, TypeOK
<1>3. QED
  BY <1>1, <1>2, PTL DEF Spec

\* A fault that is pending never meets a live output where commands are read,
\* the periph tick runs, a mode body starts or a recovery waits.
THEOREM FaultIsCut == Spec => []FaultCutBeforePoll
BY Invariance, PTL DEF IInv

\* The pulses are always those of the selected mode.
THEOREM PulsesAreOfMode == Spec => []PulsesMatchMode
BY Invariance, PTL DEF IInv

\* A preparation that is latched is the one the current mode and parameters ask.
THEOREM PreparationCurrent == Spec => []PreparationIsCurrent
BY Invariance, PTL DEF IInv

\* The success rate never counts a discharge of before the operation began.
THEOREM RateIsOfThisOperation == Spec => []RateCountsThisOperation
BY Invariance, PTL DEF IInv

\* A low PGOOD without a pending fault has been masked, and how it can have been
\* is what Hidden says.
THEOREM PgoodNotLost == Spec => []LowPgoodIsPendingOrMasked
BY Invariance, PTL DEF IInv

\* The feedback line carries a frequency outside the operating state only if the
\* operator has put it there.
THEOREM FeedbackSilent == Spec => []SilentUnlessOperating
BY Invariance, PTL DEF IInv

(***************************************************************************)
(* Discharges are not forgotten while the output is on.                    *)
(***************************************************************************)

\* Counting never lowers a counter.
LEMMA CountedIsMore == ASSUME NEW n \in 0..MaxCount PROVE Counted(n) >= n
BY ConstantsAssumption DEF Counted

\* The running total falls only in a step that leaves the output off.
LEMMA TotalStep ==
    ASSUME IInv, [Next]_vars, live, live' PROVE total' >= total
<1> USE ConstantsAssumption DEF IInv, TypeOK, FlagsOK, ValuesOK
<1>1. CASE BootArm
  BY <1>1 DEF BootArm, ctxVars, stageVars, faultVars, measured, pins, aside
<1>2. CASE BootHold
  BY <1>2 DEF BootHold, StageSetup, ctxVars, stageVars, faultVars, measured,
     pins, aside
<1>3. CASE BootSweep
  BY <1>3 DEF BootSweep, FaultTrip, StageDisable, ctxVars, stageVars,
     faultVars, measured, pins, aside
<1>4. CASE BootDrop
  BY <1>4 DEF BootDrop, StageDisable, ctxVars, stageVars, faultVars,
     measured, pins, aside
<1>5. CASE EnterHandler
  BY <1>5 DEF EnterHandler, CutInHandler, StageDisable, ctxVars, stageVars,
     faultVars, measured, pins, aside
<1>6. CASE PmmPauseOver
  BY <1>6 DEF PmmPauseOver, ctxVars, stageVars, faultVars, measured, pins, aside
<1>7. CASE PgoodBack
  BY <1>7 DEF PgoodBack, ctxVars, stageVars, faultVars, measured, pins, aside
<1>8. CASE ClearFault
  BY <1>8 DEF ClearFault, LowerFlag, ResetStats, ForgetPreparation,
     Strengthening, PointMatchesState, HandlerPoints, ctxVars, stageVars,
     faultVars, measured, pins, aside
<1>9. CASE EnterPoll
  BY <1>9 DEF EnterPoll, ctxVars, stageVars, faultVars, measured, pins, aside
<1>10. CASE PollDone
  BY <1>10 DEF PollDone, ctxVars, stageVars, faultVars, measured, pins, aside
<1>11. CASE PeriphSkip
  BY <1>11 DEF PeriphSkip, ctxVars, stageVars, faultVars, measured, pins, aside
<1>12. CASE PeriphTick
  BY <1>12 DEF PeriphTick, TickFeedback, FaultTrip, StageDisable, ctxVars,
     stageVars, faultVars, measured, pins, aside
<1>13. CASE DispatchIdle
  BY <1>13 DEF DispatchIdle, CutInIdle, StageDisable, ctxVars, stageVars, faultVars,
     measured, pins, aside
<1>14. CASE DispatchOperating
  BY <1>14 DEF DispatchOperating, ctxVars, stageVars, faultVars, measured,
     pins, aside
<1>15. CASE Setup
  BY <1>15 DEF Setup, FreshWindow, FaultTrip, StageDisable, StageSetup, ctxVars,
     stageVars, faultVars, measured, pins, aside
<1>16. CASE Latch
  BY <1>16 DEF Latch, ctxVars, stageVars, faultVars, measured, pins, aside
<1>17. CASE IsoTarget
  BY <1>17 DEF IsoTarget, ctxVars, stageVars, faultVars, measured, pins, aside
<1>18. CASE IsoContinue
  BY <1>18 DEF IsoContinue, ctxVars, stageVars, faultVars, measured, pins, aside
<1>19. CASE IsoWindow
  BY <1>19 DEF IsoWindow, StageDisable, ctxVars, stageVars, faultVars,
     measured, pins, aside
<1>20. CASE RatePauseOver
  BY <1>20 DEF RatePauseOver, Rearm, StageSetup, ctxVars, stageVars,
     faultVars, measured, pins, aside
<1>21. CASE PowerCheck
  BY <1>21 DEF PowerCheck, StageDisable, ctxVars, stageVars, faultVars,
     measured, pins, aside
<1>22. CASE PowerPauseOver
  BY <1>22 DEF PowerPauseOver, Rearm, StageSetup, ctxVars, stageVars,
     faultVars, measured, pins, aside
<1>23. CASE WindowClose
  BY <1>23 DEF WindowClose, ResetWindow, ctxVars, stageVars, faultVars,
     measured, pins, aside
<1>24. CASE EdgeWait
  BY <1>24 DEF EdgeWait, ctxVars, stageVars, faultVars, measured, pins, aside
<1>25. CASE EdgeReport
  BY <1>25 DEF EdgeReport, ContactTone, ctxVars, stageVars, faultVars,
     measured, pins, aside
<1>26. CASE EdgeToneOver
  BY <1>26 DEF EdgeToneOver, ctxVars, stageVars, faultVars, measured, pins, aside
<1>27. CASE EdgeQuietOver
  BY <1>27 DEF EdgeQuietOver, ctxVars, stageVars, faultVars, measured, pins, aside
<1>28. CASE CmdReset
  BY <1>28 DEF CmdReset, Reboot, ctxVars, stageVars, faultVars, measured, pins,
     aside
<1>29. CASE CmdFeedbackRatio
  BY <1>29 DEF CmdFeedbackRatio, ctxVars, stageVars, faultVars, measured, pins,
     aside
<1>30. CASE PmmFalls
  BY <1>30 DEF PmmFalls, FaultTrip, StageDisable, ctxVars, stageVars,
     faultVars, measured, pins, aside
<1>31. CASE PgoodFalls
  BY <1>31 DEF PgoodFalls, FaultTrip, StageDisable, ctxVars, stageVars,
     faultVars, measured, pins, aside
<1>32. CASE IsoDischarge
  BY CountedIsMore, <1>32 DEF IsoDischarge, ctxVars, stageVars, faultVars,
     measured, pins, aside
<1>33. CASE EdgeContact
  BY <1>33 DEF EdgeContact, StageDisable, ctxVars, stageVars, faultVars,
     measured, pins, aside
<1>34. CASE FaultPinRises
  BY <1>34 DEF FaultPinRises, ctxVars, stageVars, faultVars, measured, pins, aside
<1>35. CASE EnablePinMoves
  BY <1>35 DEF EnablePinMoves, ctxVars, stageVars, faultVars, measured, pins, aside
<1>36. CASE ClockTick
  BY <1>36 DEF ClockTick, ctxVars, stageVars, faultVars, measured, pins, aside
<1>37. ASSUME NEW p \in ParamSets, CmdSetParameters(p) PROVE total' >= total
  BY <1>37 DEF CmdSetParameters, ForgetPreparation, Polling, ctxVars, stageVars,
     faultVars, measured, pins, aside
<1>38. ASSUME NEW m \in Modes, CmdMode(m) PROVE total' >= total
  BY <1>38 DEF CmdMode, CutFirst, ForgetPreparation, Polling, StageDisable,
     ctxVars, stageVars, faultVars, measured, pins, aside
<1>39. CASE UNCHANGED vars
  BY <1>39 DEF vars, ctxVars, stageVars, faultVars, measured, pins, aside
<1> QED
  BY <1>1, <1>2, <1>3, <1>4, <1>5, <1>6, <1>7, <1>8, <1>9, <1>10, <1>11,
     <1>12, <1>13, <1>14, <1>15, <1>16, <1>17, <1>18, <1>19, <1>20, <1>21,
     <1>22, <1>23, <1>24, <1>25, <1>26, <1>27, <1>28, <1>29, <1>30, <1>31,
     <1>32, <1>33, <1>34, <1>35, <1>36, <1>37, <1>38, <1>39
     DEF Next, MainThread, Boot, Handler, LoopHead, Prepare, RunIsofreq,
        RunEdge, Operator, Interrupts, Environment

\* While the output stays on, no discharge of the job is forgotten.
THEOREM TotalKept == Spec => TotalNeverFallsWhileLive
<1>1. IInv /\ [Next]_vars => [live /\ live' => total' >= total]_vars
  BY TotalStep
<1>2. QED
  BY <1>1, Invariance, PTL DEF Spec, TotalNeverFallsWhileLive

(***************************************************************************)
(* The program implements the abstract supervisor.                         *)
(***************************************************************************)

\* Every step of the program is a step of the supervisor, or changes neither
\* the phase nor whether the output may pulse.
LEMMA SupervisorStep ==
    ASSUME IInv, [Next]_vars
    PROVE  [Supervisor!SupervisorNext]_(Supervisor!supervisorVars)
<1> USE DEF IInv, TypeOK, FlagsOK, ValuesOK, States, Strengthening,
     PointMatchesState,
        OnlyOperatingIsLive, BootPoints, HandlerPoints, LoopPoints, Phase,
        Supervisor!SupervisorNext, Supervisor!supervisorVars, Supervisor!MayPulse,
        Supervisor!Energise, Supervisor!Cut, Supervisor!BootDone,
        Supervisor!Enter, Supervisor!Leave, Supervisor!Stopped,
        Supervisor!Recover, Supervisor!Resume, Supervisor!Reboot
<1>1. CASE BootArm
  BY <1>1 DEF BootArm, ctxVars, stageVars, faultVars, measured, pins, aside
<1>2. CASE BootHold
  BY <1>2 DEF BootHold, StageSetup, ctxVars, stageVars, faultVars, measured,
     pins, aside
<1>3. CASE BootSweep
  BY <1>3 DEF BootSweep, FaultTrip, StageDisable, ctxVars, stageVars,
     faultVars, measured, pins, aside
<1>4. CASE BootDrop
  BY <1>4 DEF BootDrop, StageDisable, ctxVars, stageVars, faultVars,
     measured, pins, aside
<1>5. CASE EnterHandler
  BY <1>5 DEF EnterHandler, CutInHandler, StageDisable, RecoveryPoint, FaultTypes,
     Recoverable, NonRecoverable, ctxVars, stageVars, faultVars, measured,
     pins, aside
<1>6. CASE PmmPauseOver
  BY <1>6 DEF PmmPauseOver, ctxVars, stageVars, faultVars, measured, pins, aside
<1>7. CASE PgoodBack
  BY <1>7 DEF PgoodBack, ctxVars, stageVars, faultVars, measured, pins, aside
<1>8. CASE ClearFault
  BY <1>8 DEF ClearFault, LowerFlag, ResetStats, ForgetPreparation, ctxVars,
     stageVars, faultVars, measured, pins, aside
<1>9. CASE EnterPoll
  BY <1>9 DEF EnterPoll, ctxVars, stageVars, faultVars, measured, pins, aside
<1>10. CASE PollDone
  BY <1>10 DEF PollDone, ctxVars, stageVars, faultVars, measured, pins, aside
<1>11. CASE PeriphSkip
  BY <1>11 DEF PeriphSkip, ctxVars, stageVars, faultVars, measured, pins, aside
<1>12. CASE PeriphTick
  BY <1>12 DEF PeriphTick, TickFeedback, FaultTrip, StageDisable, StateFromPin,
     ctxVars, stageVars, faultVars, measured, pins, aside
<1>13. CASE DispatchIdle
  BY <1>13 DEF DispatchIdle, CutInIdle, StageDisable, ctxVars, stageVars, faultVars,
     measured, pins, aside
<1>14. CASE DispatchOperating
  BY <1>14 DEF DispatchOperating, ctxVars, stageVars, faultVars, measured,
     pins, aside
<1>15. CASE Setup
  BY <1>15 DEF Setup, FreshWindow, FaultTrip, StageDisable, StageSetup, ctxVars,
     stageVars, faultVars, measured, pins, aside
<1>16. CASE Latch
  BY <1>16 DEF Latch, ctxVars, stageVars, faultVars, measured, pins, aside
<1>17. CASE IsoTarget
  BY <1>17 DEF IsoTarget, ctxVars, stageVars, faultVars, measured, pins, aside
<1>18. CASE IsoContinue
  BY <1>18 DEF IsoContinue, ctxVars, stageVars, faultVars, measured, pins, aside
<1>19. CASE IsoWindow
  BY <1>19 DEF IsoWindow, StageDisable, ctxVars, stageVars, faultVars,
     measured, pins, aside
<1>20. CASE RatePauseOver
  BY <1>20 DEF RatePauseOver, Rearm, StageSetup, ctxVars, stageVars,
     faultVars, measured, pins, aside
<1>21. CASE PowerCheck
  BY <1>21 DEF PowerCheck, StageDisable, ctxVars, stageVars, faultVars,
     measured, pins, aside
<1>22. CASE PowerPauseOver
  BY <1>22 DEF PowerPauseOver, Rearm, StageSetup, ctxVars, stageVars,
     faultVars, measured, pins, aside
<1>23. CASE WindowClose
  BY <1>23 DEF WindowClose, ResetWindow, ctxVars, stageVars, faultVars,
     measured, pins, aside
<1>24. CASE EdgeWait
  BY <1>24 DEF EdgeWait, ctxVars, stageVars, faultVars, measured, pins, aside
<1>25. CASE EdgeReport
  BY <1>25 DEF EdgeReport, ContactTone, ctxVars, stageVars, faultVars,
     measured, pins, aside
<1>26. CASE EdgeToneOver
  BY <1>26 DEF EdgeToneOver, ctxVars, stageVars, faultVars, measured, pins, aside
<1>27. CASE EdgeQuietOver
  BY <1>27 DEF EdgeQuietOver, ctxVars, stageVars, faultVars, measured, pins, aside
<1>28. CASE CmdReset
  BY <1>28 DEF CmdReset, Reboot, Polling, ctxVars, stageVars, faultVars,
     measured, pins, aside
<1>29. CASE CmdFeedbackRatio
  BY <1>29 DEF CmdFeedbackRatio, Polling, ctxVars, stageVars, faultVars,
     measured, pins, aside
<1>30. CASE PmmFalls
  BY <1>30 DEF PmmFalls, FaultTrip, StageDisable, ctxVars, stageVars,
     faultVars, measured, pins, aside
<1>31. CASE PgoodFalls
  BY <1>31 DEF PgoodFalls, FaultTrip, StageDisable, ctxVars, stageVars,
     faultVars, measured, pins, aside
<1>32. CASE IsoDischarge
  BY <1>32 DEF IsoDischarge, ctxVars, stageVars, faultVars, measured, pins, aside
<1>33. CASE EdgeContact
  BY <1>33 DEF EdgeContact, StageDisable, ctxVars, stageVars, faultVars,
     measured, pins, aside
<1>34. CASE FaultPinRises
  BY <1>34 DEF FaultPinRises, ctxVars, stageVars, faultVars, measured, pins, aside
<1>35. CASE EnablePinMoves
  BY <1>35 DEF EnablePinMoves, ctxVars, stageVars, faultVars, measured, pins, aside
<1>36. CASE ClockTick
  BY <1>36 DEF ClockTick, ctxVars, stageVars, faultVars, measured, pins, aside
<1>37. ASSUME NEW p \in ParamSets,
     CmdSetParameters(p) PROVE [Supervisor!SupervisorNext]_(Supervisor!supervisorVars)
  BY <1>37 DEF CmdSetParameters, ForgetPreparation, Polling, ctxVars, stageVars,
     faultVars, measured, pins, aside
<1>38. ASSUME NEW m \in Modes,
     CmdMode(m) PROVE [Supervisor!SupervisorNext]_(Supervisor!supervisorVars)
  BY <1>38 DEF CmdMode, CutFirst, ForgetPreparation, Polling, StageDisable,
     ctxVars, stageVars, faultVars, measured, pins, aside
<1>39. CASE UNCHANGED vars
  BY <1>39 DEF vars, ctxVars, stageVars, faultVars, measured, pins, aside
<1> QED
  BY <1>1, <1>2, <1>3, <1>4, <1>5, <1>6, <1>7, <1>8, <1>9, <1>10, <1>11,
     <1>12, <1>13, <1>14, <1>15, <1>16, <1>17, <1>18, <1>19, <1>20, <1>21,
     <1>22, <1>23, <1>24, <1>25, <1>26, <1>27, <1>28, <1>29, <1>30, <1>31,
     <1>32, <1>33, <1>34, <1>35, <1>36, <1>37, <1>38, <1>39
     DEF Next, MainThread, Boot, Handler, LoopHead, Prepare, RunIsofreq,
        RunEdge, Operator, Interrupts, Environment

\* Outside boot the output is on only while operating; it is cut on the way to
\* idle and into a recovery, and stays cut there.
THEOREM Implementation == Spec => ImplementsSupervisor
<1>1. Init => Supervisor!SupervisorInit
  BY DEF Init, Supervisor!SupervisorInit, Phase, BootPoints, HandlerPoints,
     LoopPoints
<1>2. IInv /\ [Next]_vars => [Supervisor!SupervisorNext]_(Supervisor!supervisorVars)
  BY SupervisorStep
<1>3. QED
  BY <1>1, <1>2, Invariance, PTL DEF Spec, ImplementsSupervisor,
     Supervisor!SupervisorSpec
============================================================================
