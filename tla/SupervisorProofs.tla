-------------------------- MODULE SupervisorProofs --------------------------
(* Theorems about Supervisor for every set of providers and slots, every     *)
(* MaxFailures, and every choice of the environment's freedoms.              *)
EXTENDS Supervisor, TLAPS

\* The waitCmd goroutine of the current child has not reported it yet.
Owned == cmd # NoPid => waiter[cmd] \in {"wait", "drain", "settle"}

\* Once cmd.Wait() has returned to waitCmd the child is not alive.
Waited == \A p \in Pid : status[p] = "alive" => waiter[p] \in {"none", "wait"}

IInv ==
  /\ TypeOK
  /\ CrashCountBounded
  /\ Owned
  /\ Waited
  /\ AtMostOneTunnel
  /\ RunningMatches

\* What the maxFailures block does to the four variables it writes.
LEMMA MaxFailuresBlockType ==
  ASSUME TypeOK, NEW fails \in {0, 1}, NEW crashes \in 0 .. MaxFailures + 1,
         MaxFailuresBlock(fails, crashes)
  PROVE  /\ provider' \in MaybeProvider
         /\ failures' \in {0, 1}
         /\ crashFailures' \in 0 .. MaxFailures + 1
         /\ loop' \in {"select", "remove"}
  BY SupervisorAssumption DEF MaxFailuresBlock, TypeOK, CoreType, MaybeProvider

\* No step breaks the types of the provider and of the counters.
LEMMA CoreStep ==
  ASSUME IInv, Next PROVE CoreType'
<1> USE SupervisorAssumption DEF IInv, TypeOK, CoreType, RestType,
        MaybeProvider, core
<1>1. CASE LoopKill
  BY <1>1, MaxFailuresBlockType DEF LoopKill
<1>2. CASE LoopYoung
  BY <1>2, MaxFailuresBlockType DEF LoopYoung
<1>3. CASE LoopStable
  BY <1>3, MaxFailuresBlockType DEF LoopStable
<1>4. CASE LoopIdle
  BY <1>4, MaxFailuresBlockType DEF LoopIdle
<1>5. ASSUME NEW p \in Pid, LoopStart(p) PROVE CoreType'
  BY <1>5, MaxFailuresBlockType DEF LoopStart
<1>6. CASE LoopStartFault
  BY <1>6 DEF LoopStartFault
<1>7. CASE LoopRemove
  BY <1>7 DEF LoopRemove
<1>8. CASE LoopWake
  BY <1>8 DEF LoopWake
<1>9. CASE LoopCheck
  BY <1>9 DEF LoopCheck
<1>10. CASE LoopBackoff
  BY <1>10 DEF LoopBackoff
<1>11. ASSUME NEW p \in Pid, WaitReturns(p) PROVE CoreType'
  BY <1>11 DEF WaitReturns
<1>12. ASSUME NEW p \in Pid, WaitDrain(p) PROVE CoreType'
  BY <1>12 DEF WaitDrain
<1>13. ASSUME NEW p \in Pid, SettleStale(p) PROVE CoreType'
  BY <1>13 DEF SettleStale, Reap
<1>14. ASSUME NEW p \in Pid, SettleClean(p) PROVE CoreType'
  BY <1>14 DEF SettleClean, Reap
<1>15. ASSUME NEW p \in Pid, SettleDefinitive(p) PROVE CoreType'
  BY <1>15 DEF SettleDefinitive, Reap
<1>16. ASSUME NEW p \in Pid, SettleTransient(p) PROVE CoreType'
  BY <1>16 DEF SettleTransient, Reap, CrashCountBounded
<1>17. ASSUME NEW p \in Pid, WaitRemove(p) PROVE CoreType'
  BY <1>17 DEF WaitRemove
<1>18. ASSUME NEW p \in Pid, WaitSignal(p) PROVE CoreType'
  BY <1>18 DEF WaitSignal
<1>19. ASSUME NEW p \in Pid, StreamLine(p) PROVE CoreType'
  BY <1>19 DEF StreamLine
<1>20. ASSUME NEW p \in Pid, StreamEnd(p) PROVE CoreType'
  BY <1>20 DEF StreamEnd
<1>21. ASSUME NEW p \in Pid, Emit(p) PROVE CoreType'
  BY <1>21 DEF Emit
<1>22. ASSUME NEW p \in Pid, Exit(p) PROVE CoreType'
  BY <1>22 DEF Exit
<1>23. ASSUME NEW p \in Pid, OrphanExit(p) PROVE CoreType'
  BY <1>23 DEF OrphanExit
<1>24. ASSUME NEW q \in Provider, SetProvider(q) PROVE CoreType'
  BY <1>24 DEF SetProvider, NewProvider
<1>25. CASE ClearProvider
  <2>1. restarting' \in BOOLEAN /\ savePending' \in BOOLEAN
    BY <1>25 DEF ClearProvider
  <2> QED
    BY <1>25, <2>1 DEF ClearProvider
<1>26. CASE Restart
  BY <1>26 DEF Restart
<1>27. CASE CallRemove
  BY <1>27 DEF CallRemove
<1>28. CASE CallSignal
  BY <1>28 DEF CallSignal
<1>29. CASE Cancel
  BY <1>29 DEF Cancel
<1>30. CASE Stop
  BY <1>30 DEF Stop
<1>31. CASE MainReturns
  <2>1. restarting' \in BOOLEAN /\ savePending' \in BOOLEAN
    BY <1>31 DEF MainReturns, Vanish
  <2> QED
    BY <1>31, <2>1 DEF MainReturns, Vanish
<1>32. CASE Crash
  <2>1. restarting' \in BOOLEAN /\ savePending' \in BOOLEAN
    BY <1>32 DEF Crash, Vanish
  <2> QED
    BY <1>32, <2>1 DEF Crash, Vanish
<1>33. CASE Boot
  BY <1>33 DEF Boot
<1>34. ASSUME NEW p \in Pid, SaveCut(p) PROVE CoreType'
  <2>1. /\ provider' = NoProvider /\ restarting' = FALSE /\ savePending' = FALSE
        /\ failures' = 0 /\ crashFailures' = 0
    BY <1>34 DEF SaveCut, Vanish
  <2>2. restarting' \in BOOLEAN /\ savePending' \in BOOLEAN
    BY <2>1, Zenon
  <2>3. 0 \in 0 .. MaxFailures + 1
    OBVIOUS
  <2> QED
    BY <2>1, <2>2, <2>3
<1>35. ASSUME NEW p \in Pid, StreamFault(p) PROVE CoreType'
  BY <1>35 DEF StreamFault
<1> QED
  BY <1>1, <1>2, <1>3, <1>4, <1>5, <1>6, <1>7, <1>8, <1>9, <1>10,
     <1>11, <1>12, <1>13, <1>14, <1>15, <1>16, <1>17, <1>18, <1>19, <1>20,
     <1>21, <1>22, <1>23, <1>24, <1>25, <1>26, <1>27, <1>28, <1>29, <1>30,
     <1>31, <1>32, <1>33, <1>34, <1>35
  DEF Next, Loop, Wait, Stream, Call, CallReturns, Environment

\* No step breaks the types of the slots.
LEMMA ChildStep ==
  ASSUME IInv, Next PROVE ChildType'
<1> USE SupervisorAssumption DEF IInv, TypeOK, CoreType, ChildType, RestType,
        MaybeProvider, Line, child
<1>1. CASE LoopKill
  BY <1>1 DEF LoopKill
<1>2. CASE LoopYoung
  BY <1>2 DEF LoopYoung
<1>3. CASE LoopStable
  BY <1>3 DEF LoopStable
<1>4. CASE LoopIdle
  BY <1>4 DEF LoopIdle
<1>5. ASSUME NEW p \in Pid, LoopStart(p) PROVE ChildType'
  BY <1>5 DEF LoopStart
<1>6. CASE LoopStartFault
  BY <1>6 DEF LoopStartFault
<1>7. CASE LoopRemove
  BY <1>7 DEF LoopRemove
<1>8. CASE LoopWake
  BY <1>8 DEF LoopWake
<1>9. CASE LoopCheck
  BY <1>9 DEF LoopCheck
<1>10. CASE LoopBackoff
  BY <1>10 DEF LoopBackoff
<1>11. ASSUME NEW p \in Pid, WaitReturns(p) PROVE ChildType'
  BY <1>11 DEF WaitReturns
<1>12. ASSUME NEW p \in Pid, WaitDrain(p) PROVE ChildType'
  BY <1>12 DEF WaitDrain
<1>13. ASSUME NEW p \in Pid, SettleStale(p) PROVE ChildType'
  BY <1>13 DEF SettleStale, Reap
<1>14. ASSUME NEW p \in Pid, SettleClean(p) PROVE ChildType'
  BY <1>14 DEF SettleClean, Reap
<1>15. ASSUME NEW p \in Pid, SettleDefinitive(p) PROVE ChildType'
  BY <1>15 DEF SettleDefinitive, Reap
<1>16. ASSUME NEW p \in Pid, SettleTransient(p) PROVE ChildType'
  BY <1>16 DEF SettleTransient, Reap
<1>17. ASSUME NEW p \in Pid, WaitRemove(p) PROVE ChildType'
  BY <1>17 DEF WaitRemove
<1>18. ASSUME NEW p \in Pid, WaitSignal(p) PROVE ChildType'
  BY <1>18 DEF WaitSignal
<1>19. ASSUME NEW p \in Pid, StreamLine(p) PROVE ChildType'
  BY <1>19 DEF StreamLine
<1>20. ASSUME NEW p \in Pid, StreamEnd(p) PROVE ChildType'
  BY <1>20 DEF StreamEnd
<1>21. ASSUME NEW p \in Pid, Emit(p) PROVE ChildType'
  BY <1>21 DEF Emit
<1>22. ASSUME NEW p \in Pid, Exit(p) PROVE ChildType'
  BY <1>22 DEF Exit
<1>23. ASSUME NEW p \in Pid, OrphanExit(p) PROVE ChildType'
  BY <1>23 DEF OrphanExit
<1>24. ASSUME NEW q \in Provider, SetProvider(q) PROVE ChildType'
  BY <1>24 DEF SetProvider, NewProvider
<1>25. CASE ClearProvider
  BY <1>25 DEF ClearProvider
<1>26. CASE Restart
  BY <1>26 DEF Restart
<1>27. CASE CallRemove
  BY <1>27 DEF CallRemove
<1>28. CASE CallSignal
  BY <1>28 DEF CallSignal
<1>29. CASE Cancel
  BY <1>29 DEF Cancel
<1>30. CASE Stop
  BY <1>30 DEF Stop
<1>31. CASE MainReturns
  BY <1>31 DEF MainReturns, Vanish
<1>32. CASE Crash
  BY <1>32 DEF Crash, Vanish
<1>33. CASE Boot
  BY <1>33 DEF Boot
<1>34. ASSUME NEW p \in Pid, SaveCut(p) PROVE ChildType'
  BY <1>34 DEF SaveCut, Vanish, FreeSlot
<1>35. ASSUME NEW p \in Pid, StreamFault(p) PROVE ChildType'
  BY <1>35 DEF StreamFault
<1> QED
  BY <1>1, <1>2, <1>3, <1>4, <1>5, <1>6, <1>7, <1>8, <1>9, <1>10,
     <1>11, <1>12, <1>13, <1>14, <1>15, <1>16, <1>17, <1>18, <1>19, <1>20,
     <1>21, <1>22, <1>23, <1>24, <1>25, <1>26, <1>27, <1>28, <1>29, <1>30,
     <1>31, <1>32, <1>33, <1>34, <1>35
  DEF Next, Loop, Wait, Stream, Call, CallReturns, Environment

\* No step breaks the types of the other variables.
LEMMA RestStep ==
  ASSUME IInv, Next PROVE RestType'
<1> USE SupervisorAssumption DEF IInv, TypeOK, CoreType, RestType,
        MaybeProvider, Line, core, disk
<1>1. CASE LoopKill
  BY <1>1, MaxFailuresBlockType DEF LoopKill
<1>2. CASE LoopYoung
  BY <1>2, MaxFailuresBlockType DEF LoopYoung
<1>3. CASE LoopStable
  BY <1>3, MaxFailuresBlockType DEF LoopStable
<1>4. CASE LoopIdle
  BY <1>4, MaxFailuresBlockType DEF LoopIdle
<1>5. ASSUME NEW p \in Pid, LoopStart(p) PROVE RestType'
  BY <1>5, MaxFailuresBlockType DEF LoopStart
<1>6. CASE LoopStartFault
  BY <1>6 DEF LoopStartFault
<1>7. CASE LoopRemove
  BY <1>7 DEF LoopRemove
<1>8. CASE LoopWake
  BY <1>8 DEF LoopWake
<1>9. CASE LoopCheck
  BY <1>9 DEF LoopCheck
<1>10. CASE LoopBackoff
  BY <1>10 DEF LoopBackoff
<1>11. ASSUME NEW p \in Pid, WaitReturns(p) PROVE RestType'
  BY <1>11 DEF WaitReturns
<1>12. ASSUME NEW p \in Pid, WaitDrain(p) PROVE RestType'
  BY <1>12 DEF WaitDrain
<1>13. ASSUME NEW p \in Pid, SettleStale(p) PROVE RestType'
  BY <1>13 DEF SettleStale, Reap
<1>14. ASSUME NEW p \in Pid, SettleClean(p) PROVE RestType'
  BY <1>14 DEF SettleClean, Reap
<1>15. ASSUME NEW p \in Pid, SettleDefinitive(p) PROVE RestType'
  BY <1>15 DEF SettleDefinitive, Reap
<1>16. ASSUME NEW p \in Pid, SettleTransient(p) PROVE RestType'
  BY <1>16 DEF SettleTransient, Reap
<1>17. ASSUME NEW p \in Pid, WaitRemove(p) PROVE RestType'
  BY <1>17 DEF WaitRemove
<1>18. ASSUME NEW p \in Pid, WaitSignal(p) PROVE RestType'
  BY <1>18 DEF WaitSignal
<1>19. ASSUME NEW p \in Pid, StreamLine(p) PROVE RestType'
  BY <1>19 DEF StreamLine, ChildType
<1>20. ASSUME NEW p \in Pid, StreamEnd(p) PROVE RestType'
  BY <1>20 DEF StreamEnd
<1>21. ASSUME NEW p \in Pid, Emit(p) PROVE RestType'
  BY <1>21 DEF Emit
<1>22. ASSUME NEW p \in Pid, Exit(p) PROVE RestType'
  BY <1>22 DEF Exit
<1>23. ASSUME NEW p \in Pid, OrphanExit(p) PROVE RestType'
  BY <1>23 DEF OrphanExit
<1>24. ASSUME NEW q \in Provider, SetProvider(q) PROVE RestType'
  BY <1>24 DEF SetProvider, NewProvider
<1>25. CASE ClearProvider
  BY <1>25 DEF ClearProvider
<1>26. CASE Restart
  BY <1>26 DEF Restart
<1>27. CASE CallRemove
  BY <1>27 DEF CallRemove
<1>28. CASE CallSignal
  BY <1>28 DEF CallSignal
<1>29. CASE Cancel
  BY <1>29 DEF Cancel
<1>30. CASE Stop
  BY <1>30 DEF Stop
<1>31. CASE MainReturns
  BY <1>31 DEF MainReturns, Vanish
<1>32. CASE Crash
  BY <1>32 DEF Crash, Vanish
<1>33. CASE Boot
  BY <1>33 DEF Boot
<1>34. ASSUME NEW p \in Pid, SaveCut(p) PROVE RestType'
  BY <1>34 DEF SaveCut, Vanish, FreeSlot
<1>35. ASSUME NEW p \in Pid, StreamFault(p) PROVE RestType'
  BY <1>35 DEF StreamFault
<1> QED
  BY <1>1, <1>2, <1>3, <1>4, <1>5, <1>6, <1>7, <1>8, <1>9, <1>10,
     <1>11, <1>12, <1>13, <1>14, <1>15, <1>16, <1>17, <1>18, <1>19, <1>20,
     <1>21, <1>22, <1>23, <1>24, <1>25, <1>26, <1>27, <1>28, <1>29, <1>30,
     <1>31, <1>32, <1>33, <1>34, <1>35
  DEF Next, Loop, Wait, Stream, Call, CallReturns, Environment

\* One crash is counted per start, and a start ends in the maxFailures block.
LEMMA CrashCountStep ==
  ASSUME IInv, Next PROVE CrashCountBounded'
<1> USE SupervisorAssumption DEF IInv, TypeOK, CoreType, RestType,
        CrashCountBounded, core
<1>1. CASE LoopKill
  BY <1>1 DEF LoopKill, MaxFailuresBlock
<1>2. CASE LoopYoung
  BY <1>2 DEF LoopYoung, MaxFailuresBlock
<1>3. CASE LoopStable
  BY <1>3 DEF LoopStable, MaxFailuresBlock
<1>4. CASE LoopIdle
  BY <1>4 DEF LoopIdle, MaxFailuresBlock
<1>5. ASSUME NEW p \in Pid, LoopStart(p) PROVE CrashCountBounded'
  BY <1>5 DEF LoopStart, MaxFailuresBlock
<1>6. CASE LoopStartFault
  BY <1>6 DEF LoopStartFault
<1>7. CASE LoopRemove
  BY <1>7 DEF LoopRemove
<1>8. CASE LoopWake
  BY <1>8 DEF LoopWake
<1>9. CASE LoopCheck
  BY <1>9 DEF LoopCheck
<1>10. CASE LoopBackoff
  BY <1>10 DEF LoopBackoff
<1>11. ASSUME NEW p \in Pid, WaitReturns(p) PROVE CrashCountBounded'
  BY <1>11 DEF WaitReturns
<1>12. ASSUME NEW p \in Pid, WaitDrain(p) PROVE CrashCountBounded'
  BY <1>12 DEF WaitDrain
<1>13. ASSUME NEW p \in Pid, SettleStale(p) PROVE CrashCountBounded'
  BY <1>13 DEF SettleStale, Reap
<1>14. ASSUME NEW p \in Pid, SettleClean(p) PROVE CrashCountBounded'
  BY <1>14 DEF SettleClean, Reap
<1>15. ASSUME NEW p \in Pid, SettleDefinitive(p) PROVE CrashCountBounded'
  BY <1>15 DEF SettleDefinitive, Reap
<1>16. ASSUME NEW p \in Pid, SettleTransient(p) PROVE CrashCountBounded'
  BY <1>16 DEF SettleTransient, Reap
<1>17. ASSUME NEW p \in Pid, WaitRemove(p) PROVE CrashCountBounded'
  BY <1>17 DEF WaitRemove
<1>18. ASSUME NEW p \in Pid, WaitSignal(p) PROVE CrashCountBounded'
  BY <1>18 DEF WaitSignal
<1>19. ASSUME NEW p \in Pid, StreamLine(p) PROVE CrashCountBounded'
  BY <1>19 DEF StreamLine
<1>20. ASSUME NEW p \in Pid, StreamEnd(p) PROVE CrashCountBounded'
  BY <1>20 DEF StreamEnd
<1>21. ASSUME NEW p \in Pid, Emit(p) PROVE CrashCountBounded'
  BY <1>21 DEF Emit
<1>22. ASSUME NEW p \in Pid, Exit(p) PROVE CrashCountBounded'
  BY <1>22 DEF Exit
<1>23. ASSUME NEW p \in Pid, OrphanExit(p) PROVE CrashCountBounded'
  BY <1>23 DEF OrphanExit
<1>24. ASSUME NEW q \in Provider, SetProvider(q) PROVE CrashCountBounded'
  BY <1>24 DEF SetProvider, NewProvider
<1>25. CASE ClearProvider
  BY <1>25 DEF ClearProvider
<1>26. CASE Restart
  BY <1>26 DEF Restart
<1>27. CASE CallRemove
  BY <1>27 DEF CallRemove
<1>28. CASE CallSignal
  BY <1>28 DEF CallSignal
<1>29. CASE Cancel
  BY <1>29 DEF Cancel
<1>30. CASE Stop
  BY <1>30 DEF Stop
<1>31. CASE MainReturns
  BY <1>31 DEF MainReturns, Vanish
<1>32. CASE Crash
  BY <1>32 DEF Crash, Vanish
<1>33. CASE Boot
  BY <1>33 DEF Boot
<1>34. ASSUME NEW p \in Pid, SaveCut(p) PROVE CrashCountBounded'
  BY <1>34 DEF SaveCut, Vanish, FreeSlot
<1>35. ASSUME NEW p \in Pid, StreamFault(p) PROVE CrashCountBounded'
  BY <1>35 DEF StreamFault
<1> QED
  BY <1>1, <1>2, <1>3, <1>4, <1>5, <1>6, <1>7, <1>8, <1>9, <1>10,
     <1>11, <1>12, <1>13, <1>14, <1>15, <1>16, <1>17, <1>18, <1>19, <1>20,
     <1>21, <1>22, <1>23, <1>24, <1>25, <1>26, <1>27, <1>28, <1>29, <1>30,
     <1>31, <1>32, <1>33, <1>34, <1>35
  DEF Next, Loop, Wait, Stream, Call, CallReturns, Environment

\* waitCmd gives cmd up in the step that reports the child.
LEMMA OwnedStep ==
  ASSUME IInv, Next PROVE Owned'
<1> USE SupervisorAssumption DEF IInv, TypeOK, ChildType, RestType, Owned,
        child
<1>1. CASE LoopKill
  BY <1>1 DEF LoopKill
<1>2. CASE LoopYoung
  BY <1>2 DEF LoopYoung
<1>3. CASE LoopStable
  BY <1>3 DEF LoopStable
<1>4. CASE LoopIdle
  BY <1>4 DEF LoopIdle
<1>5. ASSUME NEW p \in Pid, LoopStart(p) PROVE Owned'
  BY <1>5 DEF LoopStart
<1>6. CASE LoopStartFault
  BY <1>6 DEF LoopStartFault
<1>7. CASE LoopRemove
  BY <1>7 DEF LoopRemove
<1>8. CASE LoopWake
  BY <1>8 DEF LoopWake
<1>9. CASE LoopCheck
  BY <1>9 DEF LoopCheck
<1>10. CASE LoopBackoff
  BY <1>10 DEF LoopBackoff
<1>11. ASSUME NEW p \in Pid, WaitReturns(p) PROVE Owned'
  BY <1>11 DEF WaitReturns
<1>12. ASSUME NEW p \in Pid, WaitDrain(p) PROVE Owned'
  BY <1>12 DEF WaitDrain
<1>13. ASSUME NEW p \in Pid, SettleStale(p) PROVE Owned'
  BY <1>13 DEF SettleStale, Reap
<1>14. ASSUME NEW p \in Pid, SettleClean(p) PROVE Owned'
  BY <1>14 DEF SettleClean, Reap
<1>15. ASSUME NEW p \in Pid, SettleDefinitive(p) PROVE Owned'
  BY <1>15 DEF SettleDefinitive, Reap
<1>16. ASSUME NEW p \in Pid, SettleTransient(p) PROVE Owned'
  BY <1>16 DEF SettleTransient, Reap
<1>17. ASSUME NEW p \in Pid, WaitRemove(p) PROVE Owned'
  BY <1>17 DEF WaitRemove
<1>18. ASSUME NEW p \in Pid, WaitSignal(p) PROVE Owned'
  BY <1>18 DEF WaitSignal
<1>19. ASSUME NEW p \in Pid, StreamLine(p) PROVE Owned'
  BY <1>19 DEF StreamLine
<1>20. ASSUME NEW p \in Pid, StreamEnd(p) PROVE Owned'
  BY <1>20 DEF StreamEnd
<1>21. ASSUME NEW p \in Pid, Emit(p) PROVE Owned'
  BY <1>21 DEF Emit
<1>22. ASSUME NEW p \in Pid, Exit(p) PROVE Owned'
  BY <1>22 DEF Exit
<1>23. ASSUME NEW p \in Pid, OrphanExit(p) PROVE Owned'
  BY <1>23 DEF OrphanExit
<1>24. ASSUME NEW q \in Provider, SetProvider(q) PROVE Owned'
  BY <1>24 DEF SetProvider, NewProvider
<1>25. CASE ClearProvider
  BY <1>25 DEF ClearProvider
<1>26. CASE Restart
  BY <1>26 DEF Restart
<1>27. CASE CallRemove
  BY <1>27 DEF CallRemove
<1>28. CASE CallSignal
  BY <1>28 DEF CallSignal
<1>29. CASE Cancel
  BY <1>29 DEF Cancel
<1>30. CASE Stop
  BY <1>30 DEF Stop
<1>31. CASE MainReturns
  BY <1>31 DEF MainReturns, Vanish
<1>32. CASE Crash
  BY <1>32 DEF Crash, Vanish
<1>33. CASE Boot
  BY <1>33 DEF Boot
<1>34. ASSUME NEW p \in Pid, SaveCut(p) PROVE Owned'
  BY <1>34 DEF SaveCut, Vanish, FreeSlot
<1>35. ASSUME NEW p \in Pid, StreamFault(p) PROVE Owned'
  BY <1>35 DEF StreamFault
<1> QED
  BY <1>1, <1>2, <1>3, <1>4, <1>5, <1>6, <1>7, <1>8, <1>9, <1>10,
     <1>11, <1>12, <1>13, <1>14, <1>15, <1>16, <1>17, <1>18, <1>19, <1>20,
     <1>21, <1>22, <1>23, <1>24, <1>25, <1>26, <1>27, <1>28, <1>29, <1>30,
     <1>31, <1>32, <1>33, <1>34, <1>35
  DEF Next, Loop, Wait, Stream, Call, CallReturns, Environment

\* A child that waitCmd has waited for does not come back.
LEMMA WaitedStep ==
  ASSUME IInv, Next PROVE Waited'
<1> USE SupervisorAssumption DEF IInv, TypeOK, ChildType, RestType, Waited,
        child, FreeSlot
<1>1. CASE LoopKill
  BY <1>1 DEF LoopKill
<1>2. CASE LoopYoung
  BY <1>2 DEF LoopYoung
<1>3. CASE LoopStable
  BY <1>3 DEF LoopStable
<1>4. CASE LoopIdle
  BY <1>4 DEF LoopIdle
<1>5. ASSUME NEW p \in Pid, LoopStart(p) PROVE Waited'
  BY <1>5 DEF LoopStart
<1>6. CASE LoopStartFault
  BY <1>6 DEF LoopStartFault
<1>7. CASE LoopRemove
  BY <1>7 DEF LoopRemove
<1>8. CASE LoopWake
  BY <1>8 DEF LoopWake
<1>9. CASE LoopCheck
  BY <1>9 DEF LoopCheck
<1>10. CASE LoopBackoff
  BY <1>10 DEF LoopBackoff
<1>11. ASSUME NEW p \in Pid, WaitReturns(p) PROVE Waited'
  BY <1>11 DEF WaitReturns
<1>12. ASSUME NEW p \in Pid, WaitDrain(p) PROVE Waited'
  BY <1>12 DEF WaitDrain
<1>13. ASSUME NEW p \in Pid, SettleStale(p) PROVE Waited'
  BY <1>13 DEF SettleStale, Reap
<1>14. ASSUME NEW p \in Pid, SettleClean(p) PROVE Waited'
  BY <1>14 DEF SettleClean, Reap
<1>15. ASSUME NEW p \in Pid, SettleDefinitive(p) PROVE Waited'
  BY <1>15 DEF SettleDefinitive, Reap
<1>16. ASSUME NEW p \in Pid, SettleTransient(p) PROVE Waited'
  BY <1>16 DEF SettleTransient, Reap
<1>17. ASSUME NEW p \in Pid, WaitRemove(p) PROVE Waited'
  BY <1>17 DEF WaitRemove
<1>18. ASSUME NEW p \in Pid, WaitSignal(p) PROVE Waited'
  BY <1>18 DEF WaitSignal
<1>19. ASSUME NEW p \in Pid, StreamLine(p) PROVE Waited'
  BY <1>19 DEF StreamLine
<1>20. ASSUME NEW p \in Pid, StreamEnd(p) PROVE Waited'
  BY <1>20 DEF StreamEnd
<1>21. ASSUME NEW p \in Pid, Emit(p) PROVE Waited'
  BY <1>21 DEF Emit
<1>22. ASSUME NEW p \in Pid, Exit(p) PROVE Waited'
  BY <1>22 DEF Exit
<1>23. ASSUME NEW p \in Pid, OrphanExit(p) PROVE Waited'
  BY <1>23 DEF OrphanExit
<1>24. ASSUME NEW q \in Provider, SetProvider(q) PROVE Waited'
  BY <1>24 DEF SetProvider, NewProvider
<1>25. CASE ClearProvider
  BY <1>25 DEF ClearProvider
<1>26. CASE Restart
  BY <1>26 DEF Restart
<1>27. CASE CallRemove
  BY <1>27 DEF CallRemove
<1>28. CASE CallSignal
  BY <1>28 DEF CallSignal
<1>29. CASE Cancel
  BY <1>29 DEF Cancel
<1>30. CASE Stop
  BY <1>30 DEF Stop
<1>31. CASE MainReturns
  BY <1>31 DEF MainReturns, Vanish
<1>32. CASE Crash
  BY <1>32 DEF Crash, Vanish
<1>33. CASE Boot
  BY <1>33 DEF Boot
<1>34. ASSUME NEW p \in Pid, SaveCut(p) PROVE Waited'
  BY <1>34 DEF SaveCut, Vanish, FreeSlot
<1>35. ASSUME NEW p \in Pid, StreamFault(p) PROVE Waited'
  BY <1>35 DEF StreamFault
<1> QED
  BY <1>1, <1>2, <1>3, <1>4, <1>5, <1>6, <1>7, <1>8, <1>9, <1>10,
     <1>11, <1>12, <1>13, <1>14, <1>15, <1>16, <1>17, <1>18, <1>19, <1>20,
     <1>21, <1>22, <1>23, <1>24, <1>25, <1>26, <1>27, <1>28, <1>29, <1>30,
     <1>31, <1>32, <1>33, <1>34, <1>35
  DEF Next, Loop, Wait, Stream, Call, CallReturns, Environment

\* The loop starts a child only when cmd is nil, and makes cmd nil only when the
\* child is gone.
LEMMA OneTunnelStep ==
  ASSUME IInv, Next PROVE AtMostOneTunnel'
<1> USE SupervisorAssumption DEF IInv, TypeOK, ChildType, RestType, Owned,
        Waited, AtMostOneTunnel, Orphan, child
<1>1. CASE LoopKill
  BY <1>1 DEF LoopKill
<1>2. CASE LoopYoung
  BY <1>2 DEF LoopYoung
<1>3. CASE LoopStable
  BY <1>3 DEF LoopStable
<1>4. CASE LoopIdle
  BY <1>4 DEF LoopIdle
<1>5. ASSUME NEW p \in Pid, LoopStart(p) PROVE AtMostOneTunnel'
  BY <1>5 DEF LoopStart
<1>6. CASE LoopStartFault
  BY <1>6 DEF LoopStartFault
<1>7. CASE LoopRemove
  BY <1>7 DEF LoopRemove
<1>8. CASE LoopWake
  BY <1>8 DEF LoopWake
<1>9. CASE LoopCheck
  BY <1>9 DEF LoopCheck
<1>10. CASE LoopBackoff
  BY <1>10 DEF LoopBackoff
<1>11. ASSUME NEW p \in Pid, WaitReturns(p) PROVE AtMostOneTunnel'
  BY <1>11 DEF WaitReturns
<1>12. ASSUME NEW p \in Pid, WaitDrain(p) PROVE AtMostOneTunnel'
  BY <1>12 DEF WaitDrain
<1>13. ASSUME NEW p \in Pid, SettleStale(p) PROVE AtMostOneTunnel'
  BY <1>13 DEF SettleStale, Reap
<1>14. ASSUME NEW p \in Pid, SettleClean(p) PROVE AtMostOneTunnel'
  BY <1>14 DEF SettleClean, Reap
<1>15. ASSUME NEW p \in Pid, SettleDefinitive(p) PROVE AtMostOneTunnel'
  BY <1>15 DEF SettleDefinitive, Reap
<1>16. ASSUME NEW p \in Pid, SettleTransient(p) PROVE AtMostOneTunnel'
  BY <1>16 DEF SettleTransient, Reap
<1>17. ASSUME NEW p \in Pid, WaitRemove(p) PROVE AtMostOneTunnel'
  BY <1>17 DEF WaitRemove
<1>18. ASSUME NEW p \in Pid, WaitSignal(p) PROVE AtMostOneTunnel'
  BY <1>18 DEF WaitSignal
<1>19. ASSUME NEW p \in Pid, StreamLine(p) PROVE AtMostOneTunnel'
  BY <1>19 DEF StreamLine
<1>20. ASSUME NEW p \in Pid, StreamEnd(p) PROVE AtMostOneTunnel'
  BY <1>20 DEF StreamEnd
<1>21. ASSUME NEW p \in Pid, Emit(p) PROVE AtMostOneTunnel'
  BY <1>21 DEF Emit
<1>22. ASSUME NEW p \in Pid, Exit(p) PROVE AtMostOneTunnel'
  BY <1>22 DEF Exit
<1>23. ASSUME NEW p \in Pid, OrphanExit(p) PROVE AtMostOneTunnel'
  BY <1>23 DEF OrphanExit
<1>24. ASSUME NEW q \in Provider, SetProvider(q) PROVE AtMostOneTunnel'
  BY <1>24 DEF SetProvider, NewProvider
<1>25. CASE ClearProvider
  BY <1>25 DEF ClearProvider
<1>26. CASE Restart
  BY <1>26 DEF Restart
<1>27. CASE CallRemove
  BY <1>27 DEF CallRemove
<1>28. CASE CallSignal
  BY <1>28 DEF CallSignal
<1>29. CASE Cancel
  BY <1>29 DEF Cancel
<1>30. CASE Stop
  BY <1>30 DEF Stop
<1>31. CASE MainReturns
  BY <1>31 DEF MainReturns, Vanish
<1>32. CASE Crash
  BY <1>32 DEF Crash, Vanish
<1>33. CASE Boot
  BY <1>33 DEF Boot
<1>34. ASSUME NEW p \in Pid, SaveCut(p) PROVE AtMostOneTunnel'
  BY <1>34 DEF SaveCut, Vanish, FreeSlot
<1>35. ASSUME NEW p \in Pid, StreamFault(p) PROVE AtMostOneTunnel'
  BY <1>35 DEF StreamFault
<1> QED
  BY <1>1, <1>2, <1>3, <1>4, <1>5, <1>6, <1>7, <1>8, <1>9, <1>10,
     <1>11, <1>12, <1>13, <1>14, <1>15, <1>16, <1>17, <1>18, <1>19, <1>20,
     <1>21, <1>22, <1>23, <1>24, <1>25, <1>26, <1>27, <1>28, <1>29, <1>30,
     <1>31, <1>32, <1>33, <1>34, <1>35
  DEF Next, Loop, Wait, Stream, Call, CallReturns, Environment

\* A change of provider asks for a restart in the same critical section, and only
\* a start (or a pass with nothing to run) takes that request back.
LEMMA MatchStep ==
  ASSUME IInv, Next PROVE RunningMatches'
<1> USE SupervisorAssumption DEF IInv, TypeOK, CoreType, ChildType, RestType,
        Owned, Waited, RunningMatches, core, child
<1>1. CASE LoopKill
  BY <1>1 DEF LoopKill, MaxFailuresBlock
<1>2. CASE LoopYoung
  BY <1>2 DEF LoopYoung, MaxFailuresBlock
<1>3. CASE LoopStable
  BY <1>3 DEF LoopStable, MaxFailuresBlock
<1>4. CASE LoopIdle
  BY <1>4 DEF LoopIdle, MaxFailuresBlock
<1>5. ASSUME NEW p \in Pid, LoopStart(p) PROVE RunningMatches'
  BY <1>5 DEF LoopStart, MaxFailuresBlock
<1>6. CASE LoopStartFault
  BY <1>6 DEF LoopStartFault
<1>7. CASE LoopRemove
  BY <1>7 DEF LoopRemove
<1>8. CASE LoopWake
  BY <1>8 DEF LoopWake
<1>9. CASE LoopCheck
  BY <1>9 DEF LoopCheck
<1>10. CASE LoopBackoff
  BY <1>10 DEF LoopBackoff
<1>11. ASSUME NEW p \in Pid, WaitReturns(p) PROVE RunningMatches'
  BY <1>11 DEF WaitReturns
<1>12. ASSUME NEW p \in Pid, WaitDrain(p) PROVE RunningMatches'
  BY <1>12 DEF WaitDrain
<1>13. ASSUME NEW p \in Pid, SettleStale(p) PROVE RunningMatches'
  BY <1>13 DEF SettleStale, Reap
<1>14. ASSUME NEW p \in Pid, SettleClean(p) PROVE RunningMatches'
  BY <1>14 DEF SettleClean, Reap
<1>15. ASSUME NEW p \in Pid, SettleDefinitive(p) PROVE RunningMatches'
  BY <1>15 DEF SettleDefinitive, Reap
<1>16. ASSUME NEW p \in Pid, SettleTransient(p) PROVE RunningMatches'
  BY <1>16 DEF SettleTransient, Reap
<1>17. ASSUME NEW p \in Pid, WaitRemove(p) PROVE RunningMatches'
  BY <1>17 DEF WaitRemove
<1>18. ASSUME NEW p \in Pid, WaitSignal(p) PROVE RunningMatches'
  BY <1>18 DEF WaitSignal
<1>19. ASSUME NEW p \in Pid, StreamLine(p) PROVE RunningMatches'
  BY <1>19 DEF StreamLine
<1>20. ASSUME NEW p \in Pid, StreamEnd(p) PROVE RunningMatches'
  BY <1>20 DEF StreamEnd
<1>21. ASSUME NEW p \in Pid, Emit(p) PROVE RunningMatches'
  BY <1>21 DEF Emit
<1>22. ASSUME NEW p \in Pid, Exit(p) PROVE RunningMatches'
  BY <1>22 DEF Exit
<1>23. ASSUME NEW p \in Pid, OrphanExit(p) PROVE RunningMatches'
  BY <1>23 DEF OrphanExit
<1>24. ASSUME NEW q \in Provider, SetProvider(q) PROVE RunningMatches'
  BY <1>24 DEF SetProvider, NewProvider
<1>25. CASE ClearProvider
  BY <1>25 DEF ClearProvider
<1>26. CASE Restart
  BY <1>26 DEF Restart
<1>27. CASE CallRemove
  BY <1>27 DEF CallRemove
<1>28. CASE CallSignal
  BY <1>28 DEF CallSignal
<1>29. CASE Cancel
  BY <1>29 DEF Cancel
<1>30. CASE Stop
  BY <1>30 DEF Stop
<1>31. CASE MainReturns
  BY <1>31 DEF MainReturns, Vanish
<1>32. CASE Crash
  BY <1>32 DEF Crash, Vanish
<1>33. CASE Boot
  BY <1>33 DEF Boot
<1>34. ASSUME NEW p \in Pid, SaveCut(p) PROVE RunningMatches'
  BY <1>34 DEF SaveCut, Vanish, FreeSlot
<1>35. ASSUME NEW p \in Pid, StreamFault(p) PROVE RunningMatches'
  BY <1>35 DEF StreamFault
<1> QED
  BY <1>1, <1>2, <1>3, <1>4, <1>5, <1>6, <1>7, <1>8, <1>9, <1>10,
     <1>11, <1>12, <1>13, <1>14, <1>15, <1>16, <1>17, <1>18, <1>19, <1>20,
     <1>21, <1>22, <1>23, <1>24, <1>25, <1>26, <1>27, <1>28, <1>29, <1>30,
     <1>31, <1>32, <1>33, <1>34, <1>35
  DEF Next, Loop, Wait, Stream, Call, CallReturns, Environment

-----------------------------------------------------------------------------
(* NoLostWakeup and Forgotten, given IInv. *)

\* The loop may also be on its way to the select, removing the file.
Awake ==
  /\ loop \in {"remove", "select"}
  /\ restarting \/ (cmd = NoPid /\ provider # NoProvider)
  => SignalDue

\* Whoever makes work for the loop signals afterwards, and a signal that is due
\* stays due until the loop leaves the select.
LEMMA AwakeStep ==
  ASSUME IInv, Awake, Next PROVE Awake'
<1> USE SupervisorAssumption DEF IInv, TypeOK, CoreType, ChildType, RestType,
        Owned, Waited, Awake, SignalDue, core, child, disk, Calls
<1>1. CASE LoopKill
  BY <1>1 DEF LoopKill, MaxFailuresBlock, CrashCountBounded
<1>2. CASE LoopYoung
  BY <1>2 DEF LoopYoung, MaxFailuresBlock, CrashCountBounded
<1>3. CASE LoopStable
  BY <1>3 DEF LoopStable, MaxFailuresBlock, CrashCountBounded
<1>4. CASE LoopIdle
  BY <1>4 DEF LoopIdle, MaxFailuresBlock
<1>5. ASSUME NEW p \in Pid, LoopStart(p) PROVE Awake'
  BY <1>5 DEF LoopStart, MaxFailuresBlock
<1>6. CASE LoopStartFault
  BY <1>6 DEF LoopStartFault
<1>7. CASE LoopRemove
  BY <1>7 DEF LoopRemove
<1>8. CASE LoopWake
  BY <1>8 DEF LoopWake
<1>9. CASE LoopCheck
  BY <1>9 DEF LoopCheck
<1>10. CASE LoopBackoff
  BY <1>10 DEF LoopBackoff
<1>11. ASSUME NEW p \in Pid, WaitReturns(p) PROVE Awake'
  BY <1>11 DEF WaitReturns
<1>12. ASSUME NEW p \in Pid, WaitDrain(p) PROVE Awake'
  BY <1>12 DEF WaitDrain
<1>13. ASSUME NEW p \in Pid, SettleStale(p) PROVE Awake'
  BY <1>13 DEF SettleStale, Reap
<1>14. ASSUME NEW p \in Pid, SettleClean(p) PROVE Awake'
  BY <1>14 DEF SettleClean, Reap
<1>15. ASSUME NEW p \in Pid, SettleDefinitive(p) PROVE Awake'
  BY <1>15 DEF SettleDefinitive, Reap
<1>16. ASSUME NEW p \in Pid, SettleTransient(p) PROVE Awake'
  BY <1>16 DEF SettleTransient, Reap
<1>17. ASSUME NEW p \in Pid, WaitRemove(p) PROVE Awake'
  BY <1>17 DEF WaitRemove
<1>18. ASSUME NEW p \in Pid, WaitSignal(p) PROVE Awake'
  BY <1>18 DEF WaitSignal
<1>19. ASSUME NEW p \in Pid, StreamLine(p) PROVE Awake'
  BY <1>19 DEF StreamLine
<1>20. ASSUME NEW p \in Pid, StreamEnd(p) PROVE Awake'
  BY <1>20 DEF StreamEnd
<1>21. ASSUME NEW p \in Pid, Emit(p) PROVE Awake'
  BY <1>21 DEF Emit
<1>22. ASSUME NEW p \in Pid, Exit(p) PROVE Awake'
  BY <1>22 DEF Exit
<1>23. ASSUME NEW p \in Pid, OrphanExit(p) PROVE Awake'
  BY <1>23 DEF OrphanExit
<1>24. ASSUME NEW q \in Provider, SetProvider(q) PROVE Awake'
  BY <1>24 DEF SetProvider, NewProvider
<1>25. CASE ClearProvider
  BY <1>25 DEF ClearProvider
<1>26. CASE Restart
  BY <1>26 DEF Restart
<1>27. CASE CallRemove
  BY <1>27 DEF CallRemove
<1>28. CASE CallSignal
  BY <1>28 DEF CallSignal
<1>29. CASE Cancel
  BY <1>29 DEF Cancel
<1>30. CASE Stop
  BY <1>30 DEF Stop
<1>31. CASE MainReturns
  BY <1>31 DEF MainReturns, Vanish
<1>32. CASE Crash
  BY <1>32 DEF Crash, Vanish
<1>33. CASE Boot
  BY <1>33 DEF Boot
<1>34. ASSUME NEW p \in Pid, SaveCut(p) PROVE Awake'
  BY <1>34 DEF SaveCut, Vanish, FreeSlot
<1>35. ASSUME NEW p \in Pid, StreamFault(p) PROVE Awake'
  BY <1>35 DEF StreamFault
<1> QED
  BY <1>1, <1>2, <1>3, <1>4, <1>5, <1>6, <1>7, <1>8, <1>9, <1>10,
     <1>11, <1>12, <1>13, <1>14, <1>15, <1>16, <1>17, <1>18, <1>19, <1>20,
     <1>21, <1>22, <1>23, <1>24, <1>25, <1>26, <1>27, <1>28, <1>29, <1>30,
     <1>31, <1>32, <1>33, <1>34, <1>35
  DEF Next, Loop, Wait, Stream, Call, CallReturns, Environment

\* Whoever drops the provider removes the file afterwards, and only a start with
\* a provider writes it.
LEMMA ForgottenStep ==
  ASSUME IInv, Forgotten, Next PROVE Forgotten'
<1> USE SupervisorAssumption DEF IInv, TypeOK, CoreType, ChildType, RestType,
        MaybeProvider, Forgotten, RemoveDue, Running, core, child, disk, Calls
<1>1. CASE LoopKill
  BY <1>1 DEF LoopKill, MaxFailuresBlock
<1>2. CASE LoopYoung
  BY <1>2 DEF LoopYoung, MaxFailuresBlock
<1>3. CASE LoopStable
  BY <1>3 DEF LoopStable, MaxFailuresBlock
<1>4. CASE LoopIdle
  BY <1>4 DEF LoopIdle, MaxFailuresBlock
<1>5. ASSUME NEW p \in Pid, LoopStart(p) PROVE Forgotten'
  BY <1>5 DEF LoopStart, MaxFailuresBlock
<1>6. CASE LoopStartFault
  BY <1>6 DEF LoopStartFault
<1>7. CASE LoopRemove
  BY <1>7 DEF LoopRemove
<1>8. CASE LoopWake
  BY <1>8 DEF LoopWake
<1>9. CASE LoopCheck
  BY <1>9 DEF LoopCheck
<1>10. CASE LoopBackoff
  BY <1>10 DEF LoopBackoff
<1>11. ASSUME NEW p \in Pid, WaitReturns(p) PROVE Forgotten'
  BY <1>11 DEF WaitReturns
<1>12. ASSUME NEW p \in Pid, WaitDrain(p) PROVE Forgotten'
  BY <1>12 DEF WaitDrain
<1>13. ASSUME NEW p \in Pid, SettleStale(p) PROVE Forgotten'
  BY <1>13 DEF SettleStale, Reap
<1>14. ASSUME NEW p \in Pid, SettleClean(p) PROVE Forgotten'
  BY <1>14 DEF SettleClean, Reap
<1>15. ASSUME NEW p \in Pid, SettleDefinitive(p) PROVE Forgotten'
  BY <1>15 DEF SettleDefinitive, Reap
<1>16. ASSUME NEW p \in Pid, SettleTransient(p) PROVE Forgotten'
  BY <1>16 DEF SettleTransient, Reap
<1>17. ASSUME NEW p \in Pid, WaitRemove(p) PROVE Forgotten'
  BY <1>17 DEF WaitRemove
<1>18. ASSUME NEW p \in Pid, WaitSignal(p) PROVE Forgotten'
  BY <1>18 DEF WaitSignal
<1>19. ASSUME NEW p \in Pid, StreamLine(p) PROVE Forgotten'
  BY <1>19 DEF StreamLine
<1>20. ASSUME NEW p \in Pid, StreamEnd(p) PROVE Forgotten'
  BY <1>20 DEF StreamEnd
<1>21. ASSUME NEW p \in Pid, Emit(p) PROVE Forgotten'
  BY <1>21 DEF Emit
<1>22. ASSUME NEW p \in Pid, Exit(p) PROVE Forgotten'
  BY <1>22 DEF Exit
<1>23. ASSUME NEW p \in Pid, OrphanExit(p) PROVE Forgotten'
  BY <1>23 DEF OrphanExit
<1>24. ASSUME NEW q \in Provider, SetProvider(q) PROVE Forgotten'
  BY <1>24 DEF SetProvider, NewProvider
<1>25. CASE ClearProvider
  BY <1>25 DEF ClearProvider
<1>26. CASE Restart
  BY <1>26 DEF Restart
<1>27. CASE CallRemove
  BY <1>27 DEF CallRemove
<1>28. CASE CallSignal
  BY <1>28 DEF CallSignal
<1>29. CASE Cancel
  BY <1>29 DEF Cancel
<1>30. CASE Stop
  BY <1>30 DEF Stop
<1>31. CASE MainReturns
  BY <1>31 DEF MainReturns, Vanish
<1>32. CASE Crash
  BY <1>32 DEF Crash, Vanish
<1>33. CASE Boot
  BY <1>33 DEF Boot
<1>34. ASSUME NEW p \in Pid, SaveCut(p) PROVE Forgotten'
  BY <1>34 DEF SaveCut, Vanish, FreeSlot
<1>35. ASSUME NEW p \in Pid, StreamFault(p) PROVE Forgotten'
  BY <1>35 DEF StreamFault
<1> QED
  BY <1>1, <1>2, <1>3, <1>4, <1>5, <1>6, <1>7, <1>8, <1>9, <1>10,
     <1>11, <1>12, <1>13, <1>14, <1>15, <1>16, <1>17, <1>18, <1>19, <1>20,
     <1>21, <1>22, <1>23, <1>24, <1>25, <1>26, <1>27, <1>28, <1>29, <1>30,
     <1>31, <1>32, <1>33, <1>34, <1>35
  DEF Next, Loop, Wait, Stream, Call, CallReturns, Environment

-----------------------------------------------------------------------------
(* Remembered. *)

\* No removal is due that could hit the file of a saved provider, but that of a
\* rejection, which taken records.
NoLateRemoval ==
  /\ loop = "remove" => provider = NoProvider \/ savePending
  /\ api = "remove" => provider = NoProvider
  /\ life = "down" => api = "idle"

\* The save is made in the same pass as the start, and what is removed after it
\* was dropped before it.
LEMMA RememberedStep ==
  ASSUME IInv, Remembered, NoLateRemoval, Next PROVE (Remembered /\ NoLateRemoval)'
<1> USE SupervisorAssumption DEF IInv, TypeOK, CoreType, ChildType, RestType,
        MaybeProvider, Remembered, NoLateRemoval, core, child, disk, Calls,
        Running
<1>1. CASE LoopKill
  BY <1>1 DEF LoopKill, MaxFailuresBlock
<1>2. CASE LoopYoung
  BY <1>2 DEF LoopYoung, MaxFailuresBlock
<1>3. CASE LoopStable
  BY <1>3 DEF LoopStable, MaxFailuresBlock
<1>4. CASE LoopIdle
  BY <1>4 DEF LoopIdle, MaxFailuresBlock
<1>5. ASSUME NEW p \in Pid, LoopStart(p) PROVE (Remembered /\ NoLateRemoval)'
  BY <1>5 DEF LoopStart, MaxFailuresBlock
<1>6. CASE LoopStartFault
  BY <1>6 DEF LoopStartFault
<1>7. CASE LoopRemove
  BY <1>7 DEF LoopRemove
<1>8. CASE LoopWake
  BY <1>8 DEF LoopWake
<1>9. CASE LoopCheck
  BY <1>9 DEF LoopCheck
<1>10. CASE LoopBackoff
  BY <1>10 DEF LoopBackoff
<1>11. ASSUME NEW p \in Pid, WaitReturns(p) PROVE (Remembered /\ NoLateRemoval)'
  BY <1>11 DEF WaitReturns
<1>12. ASSUME NEW p \in Pid, WaitDrain(p) PROVE (Remembered /\ NoLateRemoval)'
  BY <1>12 DEF WaitDrain
<1>13. ASSUME NEW p \in Pid, SettleStale(p) PROVE (Remembered /\ NoLateRemoval)'
  BY <1>13 DEF SettleStale, Reap
<1>14. ASSUME NEW p \in Pid, SettleClean(p) PROVE (Remembered /\ NoLateRemoval)'
  BY <1>14 DEF SettleClean, Reap
<1>15. ASSUME NEW p \in Pid, SettleDefinitive(p) PROVE (Remembered /\ NoLateRemoval)'
  BY <1>15 DEF SettleDefinitive, Reap, Definitive, Line
<1>16. ASSUME NEW p \in Pid, SettleTransient(p) PROVE (Remembered /\ NoLateRemoval)'
  BY <1>16 DEF SettleTransient, Reap
<1>17. ASSUME NEW p \in Pid, WaitRemove(p) PROVE (Remembered /\ NoLateRemoval)'
  BY <1>17 DEF WaitRemove
<1>18. ASSUME NEW p \in Pid, WaitSignal(p) PROVE (Remembered /\ NoLateRemoval)'
  BY <1>18 DEF WaitSignal
<1>19. ASSUME NEW p \in Pid, StreamLine(p) PROVE (Remembered /\ NoLateRemoval)'
  BY <1>19 DEF StreamLine
<1>20. ASSUME NEW p \in Pid, StreamEnd(p) PROVE (Remembered /\ NoLateRemoval)'
  BY <1>20 DEF StreamEnd
<1>21. ASSUME NEW p \in Pid, Emit(p) PROVE (Remembered /\ NoLateRemoval)'
  BY <1>21 DEF Emit
<1>22. ASSUME NEW p \in Pid, Exit(p) PROVE (Remembered /\ NoLateRemoval)'
  BY <1>22 DEF Exit
<1>23. ASSUME NEW p \in Pid, OrphanExit(p) PROVE (Remembered /\ NoLateRemoval)'
  BY <1>23 DEF OrphanExit
<1>24. ASSUME NEW q \in Provider, SetProvider(q) PROVE (Remembered /\ NoLateRemoval)'
  BY <1>24 DEF SetProvider, NewProvider
<1>25. CASE ClearProvider
  BY <1>25 DEF ClearProvider
<1>26. CASE Restart
  BY <1>26 DEF Restart
<1>27. CASE CallRemove
  BY <1>27 DEF CallRemove
<1>28. CASE CallSignal
  BY <1>28 DEF CallSignal
<1>29. CASE Cancel
  BY <1>29 DEF Cancel
<1>30. CASE Stop
  BY <1>30 DEF Stop
<1>31. CASE MainReturns
  BY <1>31 DEF MainReturns, Vanish
<1>32. CASE Crash
  BY <1>32 DEF Crash, Vanish
<1>33. CASE Boot
  BY <1>33 DEF Boot
<1>34. ASSUME NEW p \in Pid, SaveCut(p) PROVE (Remembered /\ NoLateRemoval)'
  BY <1>34 DEF SaveCut, Vanish, FreeSlot
<1>35. ASSUME NEW p \in Pid, StreamFault(p) PROVE (Remembered /\ NoLateRemoval)'
  BY <1>35 DEF StreamFault
<1> QED
  BY <1>1, <1>2, <1>3, <1>4, <1>5, <1>6, <1>7, <1>8, <1>9, <1>10,
     <1>11, <1>12, <1>13, <1>14, <1>15, <1>16, <1>17, <1>18, <1>19, <1>20,
     <1>21, <1>22, <1>23, <1>24, <1>25, <1>26, <1>27, <1>28, <1>29, <1>30,
     <1>31, <1>32, <1>33, <1>34, <1>35
  DEF Next, Loop, Wait, Stream, Call, CallReturns, Environment

-----------------------------------------------------------------------------
(* The theorems. *)

\* The invariants hold when New and Start are done.
LEMMA InitInv == Init => IInv /\ Awake /\ Forgotten
<1> SUFFICES ASSUME Init PROVE IInv /\ Awake /\ Forgotten
  OBVIOUS
<1> USE SupervisorAssumption DEF Init
<1>1. CoreType
  <2>1. restarting \in BOOLEAN /\ savePending \in BOOLEAN
    BY Zenon
  <2> QED
    BY <2>1 DEF CoreType, MaybeProvider
<1>2. ChildType
  <2>1. stream \in [Pid -> BOOLEAN]
    BY Zenon
  <2>2. /\ status \in [Pid -> {"gone", "alive", "clean", "crash"}]
        /\ prov \in [Pid -> MaybeProvider]
        /\ pipe \in [Pid -> Line]
        /\ waiter \in [Pid -> {"none", "wait", "drain", "settle", "remove", "signal"}]
    BY DEF MaybeProvider, Line
  <2> QED
    BY <2>1, <2>2 DEF ChildType
<1>3. RestType
  <2>1. sig \in BOOLEAN /\ taken \in BOOLEAN
    BY Zenon
  <2> QED
    BY <2>1 DEF RestType, MaybeProvider, Line
<1>4. CrashCountBounded /\ Owned /\ RunningMatches
  BY DEF CrashCountBounded, Owned, RunningMatches
<1>5. Waited /\ AtMostOneTunnel
  BY DEF Waited, AtMostOneTunnel
<1>6. Awake /\ Forgotten
  BY DEF Awake, Forgotten
<1> QED
  BY <1>1, <1>2, <1>3, <1>4, <1>5, <1>6 DEF IInv, TypeOK

\* The invariant is inductive: no step of any actor breaks a part of it.
LEMMA StepInv == IInv /\ [Next]_vars => IInv'
<1> SUFFICES ASSUME IInv, [Next]_vars PROVE IInv'
  OBVIOUS
<1>1. CASE Next
  BY <1>1, CoreStep, ChildStep, RestStep, CrashCountStep, OwnedStep, WaitedStep,
     OneTunnelStep, MatchStep
  DEF IInv, TypeOK
<1>2. CASE UNCHANGED vars
  BY <1>2
  DEF vars, core, child, disk, IInv, TypeOK, CoreType, ChildType, RestType,
      CrashCountBounded, Owned, Waited, AtMostOneTunnel, Orphan, RunningMatches
<1> QED
  BY <1>1, <1>2

\* IInv holds in every reachable state.
THEOREM Invariance == Spec => []IInv
  BY InitInv, StepInv, PTL DEF Spec

\* Every variable keeps its type, and crashFailures never passes maxFailures + 1
\* although nothing in waitCmd looks at the limit (controller.go:473-481, 595).
THEOREM TypeCorrect == Spec => []TypeOK
<1>1. IInv => TypeOK
  BY DEF IInv
<1> QED
  BY <1>1, Invariance, PTL

\* Two tunnels never run side by side under one bot (controller.go:354-370, 396).
THEOREM OneTunnel == Spec => []AtMostOneTunnel
<1>1. IInv => AtMostOneTunnel
  BY DEF IInv
<1> QED
  BY <1>1, Invariance, PTL

\* The running tunnel is the current provider's (controller.go:159-183, 354-370).
THEOREM Matches == Spec => []RunningMatches
<1>1. IInv => RunningMatches
  BY DEF IInv
<1> QED
  BY <1>1, Invariance, PTL

\* While a tunnel runs, crashFailures is at most maxFailures
\* (controller.go:473-481, 595).
THEOREM CrashCount == Spec => []CrashCountBounded
<1>1. IInv => CrashCountBounded
  BY DEF IInv
<1> QED
  BY <1>1, Invariance, PTL

\* The loop never sleeps in its select on work that no signal announces
\* (controller.go:179-182, 490-499, 617-620).
THEOREM Wakeup == Spec => []NoLostWakeup
<1>1. IInv /\ Awake /\ [Next]_vars => Awake'
  BY AwakeStep DEF vars, core, child, disk, Awake, SignalDue
<1>2. Awake => NoLostWakeup
  BY DEF Awake, NoLostWakeup
<1> QED
  BY <1>1, <1>2, InitInv, Invariance, PTL DEF Spec

\* A provider that was dropped is forgotten on disk as well
\* (controller.go:186-209, 486-488, 613-615).
THEOREM StopForgets == Spec => []Forgotten
<1>1. IInv /\ Forgotten /\ [Next]_vars => Forgotten'
  BY ForgottenStep DEF vars, core, child, disk, Forgotten, RemoveDue, Running
<1> QED
  BY <1>1, InitInv, Invariance, PTL DEF Spec

\* The saved provider is never lost to anything but the removal after a
\* rejection (controller.go:460-465).
THEOREM ProviderRemembered == Spec => []Remembered
<1>1. Init => Remembered /\ NoLateRemoval
  BY DEF Init, Remembered, NoLateRemoval
<1>2. IInv /\ Remembered /\ NoLateRemoval /\ [Next]_vars
        => (Remembered /\ NoLateRemoval)'
  BY RememberedStep DEF vars, core, child, disk, Remembered, NoLateRemoval
<1> QED
  BY <1>1, <1>2, Invariance, PTL DEF Spec

\* However the bot ends, it leaves at most one more child running
\* (controller.go:133, 150-153, 365-369).
THEOREM OneOrphan == Spec => OneOrphanPerDeath
<1> DEFINE Fresh(p) == Orphan(p)' /\ ~Orphan(p)
<1> DEFINE Few == \A p, q \in Pid : Fresh(p) /\ Fresh(q) => p = q
<1>1. IInv /\ [Next]_vars => [life # "down" /\ life' = "down" => Few]_vars
  <2> SUFFICES ASSUME IInv, Next, life # "down", life' = "down",
                      NEW p \in Pid, NEW q \in Pid, Fresh(p), Fresh(q)
               PROVE  p = q
    BY DEF vars
  <2>1. MainReturns \/ Crash \/ \E r \in Pid : SaveCut(r)
    BY DEF Next, Loop, LoopKill, LoopYoung, LoopStable, LoopIdle, LoopStart,
       LoopStartFault, LoopRemove, LoopWake, LoopCheck, LoopBackoff, Wait,
       WaitReturns, WaitDrain, SettleStale, SettleClean, SettleDefinitive,
       SettleTransient, Reap, WaitRemove, WaitSignal, Stream, StreamLine,
       StreamEnd, StreamFault, Emit, Exit, OrphanExit, Call, SetProvider,
       NewProvider, ClearProvider, Restart, CallReturns, CallRemove,
       CallSignal, Environment, Cancel, Stop, Boot
  <2>2. CASE MainReturns \/ Crash
    <3>1. Fresh(p) => p = cmd
      BY <2>2 DEF MainReturns, Crash, Vanish, Orphan, IInv, AtMostOneTunnel
    <3>2. Fresh(q) => q = cmd
      BY <2>2 DEF MainReturns, Crash, Vanish, Orphan, IInv, AtMostOneTunnel
    <3> QED
      BY <3>1, <3>2
  <2>3. ASSUME NEW r \in Pid, SaveCut(r) PROVE p = q
    <3>1. \A s \in Pid : Fresh(s) => s = r
      BY <2>3, SupervisorAssumption
      DEF SaveCut, Vanish, Orphan, IInv, AtMostOneTunnel, TypeOK, ChildType
    <3> QED
      BY <3>1
  <2> QED
    BY <2>1, <2>2, <2>3
<1>2. [life # "down" /\ life' = "down" => Few]_vars
        <=> [life # "down" /\ life' = "down"
               => \A p, q \in Pid :
                    Orphan(p)' /\ ~Orphan(p) /\ Orphan(q)' /\ ~Orphan(q)
                      => p = q]_vars
  BY Zenon
<1> HIDE DEF Few
<1> QED
  BY <1>1, <1>2, Invariance, PTL DEF Spec, OneOrphanPerDeath
=============================================================================
