---------------------------- MODULE TunnelProofs ----------------------------
(* The supervisor implements Tunnel, for every set of providers and slots,   *)
(* every MaxFailures, and every freedom of the environment; and what it does *)
(* to a provider that is set: who may take its file, and when the safety net *)
(* gives it up.                                                              *)
EXTENDS SupervisorProofs

\* Who may still remove the file, and that a bot that is down does nothing.
\* A removal that is due belongs to a provider that is gone, or replaced by one
\* that is still to be saved, or it follows a rejection.
RemovalAllowed ==
  /\ \A p \in Pid : waiter[p] = "remove" => "definitive" \in Lines
  /\ loop = "remove" => provider = NoProvider \/ savePending
  /\ api = "remove" => provider = NoProvider
  /\ life = "down" =>
       /\ loop = "exited"
       /\ api = "idle"
       /\ \A p \in Pid : waiter[p] = "none" /\ ~stream[p]

\* A child that some waitCmd goroutine waits for.
Live(p) == status[p] = "alive" /\ waiter[p] # "none"

\* The abstract tunnels are the live children with their providers.
LEMMA SameTunnels ==
  ASSUME \A p \in Pid : Live(p)' <=> Live(p),
         \A p \in Pid : Live(p) => prov'[p] = prov[p]
  PROVE  Tunnels' = Tunnels
  BY DEF Tunnels, Live, Orphan

\* No live child, no tunnel.
LEMMA NoTunnels ==
  ASSUME \A p \in Pid : ~Live(p)
  PROVE  Tunnels = {}
  BY DEF Tunnels, Live, Orphan

\* Only the child that cmd points to is live, and while it is, the crash limit
\* has not tripped.
LEMMA LiveIsCmd ==
  ASSUME IInv, NEW p \in Pid, Live(p)
  PROVE  p = cmd /\ cmd # NoPid
  BY SupervisorAssumption DEF IInv, AtMostOneTunnel, Live, Orphan

\* A removal is decided in the step that drops the provider, and only a new
\* provider, whose save is due, can come before it.
LEMMA RemovalStep ==
  ASSUME IInv, RemovalAllowed, Next PROVE RemovalAllowed'
<1> USE SupervisorAssumption DEF IInv, TypeOK, CoreType, ChildType, RestType,
        MaybeProvider, RemovalAllowed, core, child, disk, Calls, Running
<1>1. CASE LoopKill
  BY <1>1 DEF LoopKill, MaxFailuresBlock
<1>2. CASE LoopYoung
  BY <1>2 DEF LoopYoung, MaxFailuresBlock
<1>3. CASE LoopStable
  BY <1>3 DEF LoopStable, MaxFailuresBlock
<1>4. CASE LoopIdle
  BY <1>4 DEF LoopIdle, MaxFailuresBlock
<1>5. ASSUME NEW p \in Pid, LoopStart(p) PROVE RemovalAllowed'
  BY <1>5 DEF LoopStart, MaxFailuresBlock, FreeSlot
<1>6. CASE LoopStartFault
  BY <1>6 DEF LoopStartFault
<1>7. CASE LoopRemove
  BY <1>7 DEF LoopRemove
<1>8. CASE LoopWake
  BY <1>8 DEF LoopWake
<1>9. CASE LoopCheck
  BY <1>9 DEF LoopCheck
<1>10. CASE LoopBackoff
  BY <1>10 DEF LoopBackoff
<1>11. ASSUME NEW p \in Pid, WaitReturns(p) PROVE RemovalAllowed'
  BY <1>11 DEF WaitReturns
<1>12. ASSUME NEW p \in Pid, WaitDrain(p) PROVE RemovalAllowed'
  BY <1>12 DEF WaitDrain
<1>13. ASSUME NEW p \in Pid, SettleStale(p) PROVE RemovalAllowed'
  BY <1>13 DEF SettleStale, Reap
<1>14. ASSUME NEW p \in Pid, SettleClean(p) PROVE RemovalAllowed'
  BY <1>14 DEF SettleClean, Reap
<1>15. ASSUME NEW p \in Pid, SettleDefinitive(p) PROVE RemovalAllowed'
  BY <1>15 DEF SettleDefinitive, Reap, Definitive, Line
<1>16. ASSUME NEW p \in Pid, SettleTransient(p) PROVE RemovalAllowed'
  BY <1>16 DEF SettleTransient, Reap
<1>17. ASSUME NEW p \in Pid, WaitRemove(p) PROVE RemovalAllowed'
  BY <1>17 DEF WaitRemove
<1>18. ASSUME NEW p \in Pid, WaitSignal(p) PROVE RemovalAllowed'
  BY <1>18 DEF WaitSignal
<1>19. ASSUME NEW p \in Pid, StreamLine(p) PROVE RemovalAllowed'
  BY <1>19 DEF StreamLine
<1>20. ASSUME NEW p \in Pid, StreamEnd(p) PROVE RemovalAllowed'
  BY <1>20 DEF StreamEnd
<1>21. ASSUME NEW p \in Pid, Emit(p) PROVE RemovalAllowed'
  BY <1>21 DEF Emit
<1>22. ASSUME NEW p \in Pid, Exit(p) PROVE RemovalAllowed'
  BY <1>22 DEF Exit
<1>23. ASSUME NEW p \in Pid, OrphanExit(p) PROVE RemovalAllowed'
  BY <1>23 DEF OrphanExit
<1>24. ASSUME NEW q \in Provider, SetProvider(q) PROVE RemovalAllowed'
  BY <1>24 DEF SetProvider, NewProvider
<1>25. CASE ClearProvider
  BY <1>25 DEF ClearProvider
<1>26. CASE Restart
  BY <1>26 DEF Restart
<1>27. CASE CallRemove
  BY <1>27 DEF CallRemove
<1>28. CASE CallSignal
  BY <1>28 DEF CallSignal
<1>29. CASE Cancel
  BY <1>29 DEF Cancel
<1>30. CASE Stop
  BY <1>30 DEF Stop
<1>31. CASE MainReturns
  BY <1>31 DEF MainReturns, Vanish
<1>32. CASE Crash
  BY <1>32 DEF Crash, Vanish
<1>33. CASE Boot
  BY <1>33 DEF Boot
<1>34. ASSUME NEW p \in Pid, SaveCut(p) PROVE RemovalAllowed'
  BY <1>34 DEF SaveCut, Vanish, FreeSlot
<1>35. ASSUME NEW p \in Pid, StreamFault(p) PROVE RemovalAllowed'
  BY <1>35 DEF StreamFault
<1> QED
  BY <1>1, <1>2, <1>3, <1>4, <1>5, <1>6, <1>7, <1>8, <1>9, <1>10,
     <1>11, <1>12, <1>13, <1>14, <1>15, <1>16, <1>17, <1>18, <1>19, <1>20,
     <1>21, <1>22, <1>23, <1>24, <1>25, <1>26, <1>27, <1>28, <1>29, <1>30,
     <1>31, <1>32, <1>33, <1>34, <1>35
  DEF Next, Loop, Wait, Stream, Call, CallReturns, Environment

\* Every step is a step of Tunnel, or none.
LEMMA PromiseStep ==
  ASSUME IInv, RemovalAllowed, Next PROVE [Promise!Next]_(Promise!vars)
<1> USE SupervisorAssumption DEF Promise!vars, disk
<1> DEFINE Same == UNCHANGED <<Running, provider, savePending, file, Tunnels>>
<1>0. Same => [Promise!Next]_(Promise!vars)
  OBVIOUS
<1> HIDE DEF Same
<1>1. CASE LoopKill
  <2>1. UNCHANGED <<Running, provider, savePending, file>>
    BY <1>1 DEF LoopKill, MaxFailuresBlock, core, Running, IInv, CrashCountBounded, TypeOK, CoreType
  <2>2. \A p_1 \in Pid : ~Live(p_1)'
    BY <1>1, LiveIsCmd DEF LoopKill, Live, IInv, TypeOK, ChildType, RestType
  <2>3. Tunnels' = {}
    BY <2>2, NoTunnels DEF Tunnels, Live, Orphan
  <2>4. CASE Tunnels = {}
    BY <2>1, <2>3, <2>4, <1>0 DEF Same
  <2>5. CASE Tunnels # {}
    <3>1. Promise!Close
      BY <2>1, <2>3, <2>5 DEF Promise!Close
    <3> QED
      BY <3>1 DEF Promise!Next
  <2> QED
    BY <2>4, <2>5
<1>2. CASE LoopYoung
  <2>1. Tunnels' = Tunnels
    BY <1>2, SameTunnels DEF LoopYoung, Live, child, IInv, Waited, TypeOK, ChildType
  <2>2. UNCHANGED <<Running, provider, savePending, file>>
    BY <1>2 DEF LoopYoung, MaxFailuresBlock, core, Running, IInv, CrashCountBounded, TypeOK, CoreType
  <2> QED
    BY <2>1, <2>2, <1>0 DEF Same
<1>3. CASE LoopStable
  <2>1. Tunnels' = Tunnels
    BY <1>3, SameTunnels DEF LoopStable, Live, child, IInv, Waited, TypeOK, ChildType
  <2>2. UNCHANGED <<Running, provider, savePending, file>>
    BY <1>3 DEF LoopStable, MaxFailuresBlock, core, Running, IInv, CrashCountBounded, TypeOK, CoreType
  <2> QED
    BY <2>1, <2>2, <1>0 DEF Same
<1>4. CASE LoopIdle
  <2>1. Tunnels' = Tunnels
    BY <1>4, SameTunnels DEF LoopIdle, Live, child, IInv, Waited, TypeOK, ChildType
  <2>2. Promise!GiveUp
    BY <1>4, <2>1 DEF Promise!GiveUp, LoopIdle, MaxFailuresBlock, RemovalAllowed, Running, Calls, core, IInv, TypeOK, RestType
  <2> QED
    BY <2>2 DEF Promise!Next
<1>5. ASSUME NEW p \in Pid, LoopStart(p) PROVE [Promise!Next]_(Promise!vars)
  <2>1. Tunnels = {}
    BY <1>5, LiveIsCmd, NoTunnels DEF LoopStart
  <2>2. \A r \in Pid : Live(r)' <=> r = p
    BY <1>5, LiveIsCmd DEF LoopStart, Live, IInv, TypeOK, ChildType
  <2>3. prov'[p] = provider
    BY <1>5 DEF LoopStart, IInv, TypeOK, ChildType
  <2>4. Tunnels' = {[slot |-> p, room |-> provider]}
    BY <2>2, <2>3 DEF Tunnels, Live, Orphan
  <2>5. Promise!Open
    BY <1>5, <2>1, <2>4 DEF Promise!Open, LoopStart, MaxFailuresBlock, Running, RemovalAllowed
  <2> QED
    BY <2>5 DEF Promise!Next
<1>6. CASE LoopStartFault
  <2>1. Tunnels' = Tunnels
    BY <1>6, SameTunnels DEF LoopStartFault, Live, child, IInv, Waited, TypeOK, ChildType
  <2>2. UNCHANGED <<Running, provider, savePending, file>>
    BY <1>6 DEF LoopStartFault, core, Running
  <2> QED
    BY <2>1, <2>2, <1>0 DEF Same
<1>7. CASE LoopRemove
  <2>1. Tunnels' = Tunnels
    BY <1>7, SameTunnels DEF LoopRemove, Live, child, IInv, Waited, TypeOK, ChildType
  <2>2. Promise!Forget
    BY <1>7, <2>1 DEF Promise!Forget, LoopRemove, RemovalAllowed, Running, Calls, core, IInv, TypeOK, RestType
  <2> QED
    BY <2>2 DEF Promise!Next
<1>8. CASE LoopWake
  <2>1. Tunnels' = Tunnels
    BY <1>8, SameTunnels DEF LoopWake, Live, child, IInv, Waited, TypeOK, ChildType
  <2>2. UNCHANGED <<Running, provider, savePending, file>>
    BY <1>8 DEF LoopWake, core, Running
  <2> QED
    BY <2>1, <2>2, <1>0 DEF Same
<1>9. CASE LoopCheck
  <2>1. Tunnels' = Tunnels
    BY <1>9, SameTunnels DEF LoopCheck, Live, child, IInv, Waited, TypeOK, ChildType
  <2>2. UNCHANGED <<Running, provider, savePending, file>>
    BY <1>9 DEF LoopCheck, core, Running
  <2> QED
    BY <2>1, <2>2, <1>0 DEF Same
<1>10. CASE LoopBackoff
  <2>1. Tunnels' = Tunnels
    BY <1>10, SameTunnels DEF LoopBackoff, Live, child, IInv, Waited, TypeOK, ChildType
  <2>2. UNCHANGED <<Running, provider, savePending, file>>
    BY <1>10 DEF LoopBackoff, core, Running
  <2> QED
    BY <2>1, <2>2, <1>0 DEF Same
<1>11. ASSUME NEW p \in Pid, WaitReturns(p) PROVE [Promise!Next]_(Promise!vars)
  <2>1. Tunnels' = Tunnels
    BY <1>11, SameTunnels DEF WaitReturns, Live, child, IInv, Waited, TypeOK, ChildType
  <2>2. UNCHANGED <<Running, provider, savePending, file>>
    BY <1>11 DEF WaitReturns, core, Running
  <2> QED
    BY <2>1, <2>2, <1>0 DEF Same
<1>12. ASSUME NEW p \in Pid, WaitDrain(p) PROVE [Promise!Next]_(Promise!vars)
  <2>1. Tunnels' = Tunnels
    BY <1>12, SameTunnels DEF WaitDrain, Live, child, IInv, Waited, TypeOK, ChildType
  <2>2. UNCHANGED <<Running, provider, savePending, file>>
    BY <1>12 DEF WaitDrain, core, Running
  <2> QED
    BY <2>1, <2>2, <1>0 DEF Same
<1>13. ASSUME NEW p \in Pid, SettleStale(p) PROVE [Promise!Next]_(Promise!vars)
  <2>1. Tunnels' = Tunnels
    BY <1>13, SameTunnels DEF SettleStale, Reap, Live, child, IInv, Waited, TypeOK, ChildType
  <2>2. UNCHANGED <<Running, provider, savePending, file>>
    BY <1>13 DEF SettleStale, Reap, core, Running
  <2> QED
    BY <2>1, <2>2, <1>0 DEF Same
<1>14. ASSUME NEW p \in Pid, SettleClean(p) PROVE [Promise!Next]_(Promise!vars)
  <2>1. Tunnels' = Tunnels
    BY <1>14, SameTunnels DEF SettleClean, Reap, Live, child, IInv, Waited, TypeOK, ChildType
  <2>2. UNCHANGED <<Running, provider, savePending, file>>
    BY <1>14 DEF SettleClean, Reap, core, Running
  <2> QED
    BY <2>1, <2>2, <1>0 DEF Same
<1>15. ASSUME NEW p \in Pid, SettleDefinitive(p) PROVE [Promise!Next]_(Promise!vars)
  <2>1. Tunnels' = Tunnels
    BY <1>15, SameTunnels DEF SettleDefinitive, Reap, Live, child, IInv, Waited, TypeOK, ChildType
  <2>2. Promise!GiveUp
    BY <1>15, <2>1 DEF Promise!GiveUp, SettleDefinitive, Reap, RemovalAllowed, Running, Calls, core, IInv, TypeOK, RestType
  <2> QED
    BY <2>2 DEF Promise!Next
<1>16. ASSUME NEW p \in Pid, SettleTransient(p) PROVE [Promise!Next]_(Promise!vars)
  <2>1. Tunnels' = Tunnels
    BY <1>16, SameTunnels DEF SettleTransient, Reap, Live, child, IInv, Waited, TypeOK, ChildType
  <2>2. UNCHANGED <<Running, provider, savePending, file>>
    BY <1>16 DEF SettleTransient, Reap, core, Running
  <2> QED
    BY <2>1, <2>2, <1>0 DEF Same
<1>17. ASSUME NEW p \in Pid, WaitRemove(p) PROVE [Promise!Next]_(Promise!vars)
  <2>1. Tunnels' = Tunnels
    BY <1>17, SameTunnels DEF WaitRemove, Live, child, IInv, Waited, TypeOK, ChildType
  <2>2. Promise!Forget
    BY <1>17, <2>1 DEF Promise!Forget, WaitRemove, RemovalAllowed, Running, Calls, core, IInv, TypeOK, RestType
  <2> QED
    BY <2>2 DEF Promise!Next
<1>18. ASSUME NEW p \in Pid, WaitSignal(p) PROVE [Promise!Next]_(Promise!vars)
  <2>1. Tunnels' = Tunnels
    BY <1>18, SameTunnels DEF WaitSignal, Live, child, IInv, Waited, TypeOK, ChildType
  <2>2. UNCHANGED <<Running, provider, savePending, file>>
    BY <1>18 DEF WaitSignal, core, Running
  <2> QED
    BY <2>1, <2>2, <1>0 DEF Same
<1>19. ASSUME NEW p \in Pid, StreamLine(p) PROVE [Promise!Next]_(Promise!vars)
  <2>1. Tunnels' = Tunnels
    BY <1>19, SameTunnels DEF StreamLine, Live, child, IInv, Waited, TypeOK, ChildType
  <2>2. UNCHANGED <<Running, provider, savePending, file>>
    BY <1>19 DEF StreamLine, core, Running
  <2> QED
    BY <2>1, <2>2, <1>0 DEF Same
<1>20. ASSUME NEW p \in Pid, StreamEnd(p) PROVE [Promise!Next]_(Promise!vars)
  <2>1. Tunnels' = Tunnels
    BY <1>20, SameTunnels DEF StreamEnd, Live, child, IInv, Waited, TypeOK, ChildType
  <2>2. UNCHANGED <<Running, provider, savePending, file>>
    BY <1>20 DEF StreamEnd, core, Running
  <2> QED
    BY <2>1, <2>2, <1>0 DEF Same
<1>21. ASSUME NEW p \in Pid, Emit(p) PROVE [Promise!Next]_(Promise!vars)
  <2>1. Tunnels' = Tunnels
    BY <1>21, SameTunnels DEF Emit, Live, child, IInv, Waited, TypeOK, ChildType
  <2>2. UNCHANGED <<Running, provider, savePending, file>>
    BY <1>21 DEF Emit, core, Running
  <2> QED
    BY <2>1, <2>2, <1>0 DEF Same
<1>22. ASSUME NEW p \in Pid, Exit(p) PROVE [Promise!Next]_(Promise!vars)
  <2>1. UNCHANGED <<Running, provider, savePending, file>>
    BY <1>22 DEF Exit, core, Running, IInv, CrashCountBounded, TypeOK, CoreType
  <2>2. \A p_1 \in Pid : ~Live(p_1)'
    BY <1>22, LiveIsCmd DEF Exit, Live, IInv, TypeOK, ChildType, RestType
  <2>3. Tunnels' = {}
    BY <2>2, NoTunnels DEF Tunnels, Live, Orphan
  <2>4. CASE Tunnels = {}
    BY <2>1, <2>3, <2>4, <1>0 DEF Same
  <2>5. CASE Tunnels # {}
    <3>1. Promise!Close
      BY <2>1, <2>3, <2>5 DEF Promise!Close
    <3> QED
      BY <3>1 DEF Promise!Next
  <2> QED
    BY <2>4, <2>5
<1>23. ASSUME NEW p \in Pid, OrphanExit(p) PROVE [Promise!Next]_(Promise!vars)
  <2>1. Tunnels' = Tunnels
    BY <1>23, SameTunnels DEF OrphanExit, Live, child, IInv, Waited, TypeOK, ChildType
  <2>2. UNCHANGED <<Running, provider, savePending, file>>
    BY <1>23 DEF OrphanExit, core, Running
  <2> QED
    BY <2>1, <2>2, <1>0 DEF Same
<1>24. ASSUME NEW q \in Provider, SetProvider(q) PROVE [Promise!Next]_(Promise!vars)
  <2>1. Tunnels' = Tunnels
    BY <1>24, SameTunnels DEF SetProvider, NewProvider, Live, child
  <2>2. Promise!Want
    BY <1>24, <2>1 DEF Promise!Want, SetProvider, NewProvider, Running, Calls
  <2> QED
    BY <2>2 DEF Promise!Next
<1>25. CASE ClearProvider
  <2>1. Tunnels' = Tunnels
    BY <1>25, SameTunnels DEF ClearProvider, Live, child, IInv, Waited, TypeOK, ChildType
  <2>2. Promise!GiveUp
    BY <1>25, <2>1 DEF Promise!GiveUp, ClearProvider, RemovalAllowed, Running, Calls, core, IInv, TypeOK, RestType
  <2> QED
    BY <2>2 DEF Promise!Next
<1>26. CASE Restart
  <2>1. Tunnels' = Tunnels
    BY <1>26, SameTunnels DEF Restart, Live, child, IInv, Waited, TypeOK, ChildType
  <2>2. UNCHANGED <<Running, provider, savePending, file>>
    BY <1>26 DEF Restart, core, Running
  <2> QED
    BY <2>1, <2>2, <1>0 DEF Same
<1>27. CASE CallRemove
  <2>1. Tunnels' = Tunnels
    BY <1>27, SameTunnels DEF CallRemove, Live, child, IInv, Waited, TypeOK, ChildType
  <2>2. Promise!Forget
    BY <1>27, <2>1 DEF Promise!Forget, CallRemove, RemovalAllowed, Running, Calls, core, IInv, TypeOK, RestType
  <2> QED
    BY <2>2 DEF Promise!Next
<1>28. CASE CallSignal
  <2>1. Tunnels' = Tunnels
    BY <1>28, SameTunnels DEF CallSignal, Live, child, IInv, Waited, TypeOK, ChildType
  <2>2. UNCHANGED <<Running, provider, savePending, file>>
    BY <1>28 DEF CallSignal, core, Running
  <2> QED
    BY <2>1, <2>2, <1>0 DEF Same
<1>29. CASE Cancel
  <2>1. Tunnels' = Tunnels
    BY <1>29, SameTunnels DEF Cancel, Live, child, IInv, Waited, TypeOK, ChildType
  <2>2. UNCHANGED <<Running, provider, savePending, file>>
    BY <1>29 DEF Cancel, core, Running
  <2> QED
    BY <2>1, <2>2, <1>0 DEF Same
<1>30. CASE Stop
  <2>1. UNCHANGED <<Running, provider, savePending, file>>
    BY <1>30 DEF Stop, core, Running
  <2>2. \A p \in Pid : ~Live(p)'
    BY <1>30, LiveIsCmd DEF Stop, Live, IInv, TypeOK, ChildType, RestType
  <2>3. Tunnels' = {}
    BY <2>2 DEF Tunnels, Live, Orphan
  <2>4. CASE Tunnels = {}
    BY <2>1, <2>3, <2>4, <1>0 DEF Same
  <2>5. CASE Tunnels # {}
    <3>1. Promise!Close
      BY <2>1, <2>3, <2>5 DEF Promise!Close
    <3> QED
      BY <3>1 DEF Promise!Next
  <2> QED
    BY <2>4, <2>5
<1>31. CASE MainReturns
  <2>1. \A p \in Pid : ~Live(p)'
    BY <1>31 DEF MainReturns, Vanish, Live
  <2>2. Tunnels' = {}
    BY <2>1 DEF Tunnels, Live, Orphan
  <2>3. Promise!Leave
    BY <1>31, <2>2 DEF Promise!Leave, MainReturns, Vanish, Running
  <2> QED
    BY <2>3 DEF Promise!Next
<1>32. CASE Crash
  <2>1. \A p \in Pid : ~Live(p)'
    BY <1>32 DEF Crash, Vanish, Live
  <2>2. Tunnels' = {}
    BY <2>1 DEF Tunnels, Live, Orphan
  <2>3. Promise!Leave
    BY <1>32, <2>2 DEF Promise!Leave, Crash, Vanish, Running
  <2> QED
    BY <2>3 DEF Promise!Next
<1>33. CASE Boot
  <2>1. Tunnels' = Tunnels
    BY <1>33, SameTunnels DEF Boot, Live, child, IInv, Waited, TypeOK, ChildType
  <2>2. Promise!Return
    BY <1>33, <2>1 DEF Promise!Return, Boot, RemovalAllowed, Running, Calls, core, IInv, TypeOK, RestType
  <2> QED
    BY <2>2 DEF Promise!Next
<1>34. ASSUME NEW p \in Pid, SaveCut(p) PROVE [Promise!Next]_(Promise!vars)
  <2>1. \A p_1 \in Pid : ~Live(p_1)'
    BY <1>34 DEF SaveCut, Vanish, Live
  <2>2. Tunnels' = {}
    BY <2>1 DEF Tunnels, Live, Orphan
  <2>3. Promise!Leave
    BY <1>34, <2>2 DEF Promise!Leave, SaveCut, Vanish, Running
  <2> QED
    BY <2>3 DEF Promise!Next
<1>35. ASSUME NEW p \in Pid, StreamFault(p) PROVE [Promise!Next]_(Promise!vars)
  <2>1. Tunnels' = Tunnels
    BY <1>35, SameTunnels DEF StreamFault, Live, child, IInv, Waited, TypeOK, ChildType
  <2>2. UNCHANGED <<Running, provider, savePending, file>>
    BY <1>35 DEF StreamFault, core, Running
  <2> QED
    BY <2>1, <2>2, <1>0 DEF Same
<1> QED
  BY <1>1, <1>2, <1>3, <1>4, <1>5, <1>6, <1>7, <1>8, <1>9, <1>10,
     <1>11, <1>12, <1>13, <1>14, <1>15, <1>16, <1>17, <1>18, <1>19, <1>20,
     <1>21, <1>22, <1>23, <1>24, <1>25, <1>26, <1>27, <1>28, <1>29, <1>30,
     <1>31, <1>32, <1>33, <1>34, <1>35
  DEF Next, Loop, Wait, Stream, Call, CallReturns, Environment

-----------------------------------------------------------------------------
\* RemovalAllowed holds in every reachable state.
LEMMA RemovalInvariance == Spec => []RemovalAllowed
<1>1. Init => RemovalAllowed
  BY DEF Init, RemovalAllowed
<1>2. IInv /\ RemovalAllowed /\ [Next]_vars => RemovalAllowed'
  BY RemovalStep DEF vars, core, child, disk, RemovalAllowed
<1> QED
  BY <1>1, <1>2, Invariance, PTL DEF Spec

\* The supervisor implements Tunnel (controller.go:159-223, 320-621 and
\* state.go): one tunnel, opened only to the wanted room, and a file that is
\* written and removed as Tunnel says, for every interleaving, crash and fault.
THEOREM Refinement == Spec => ImplementsTunnel
<1>1. Init => Promise!Init
  <2> SUFFICES ASSUME Init PROVE Promise!Init
    OBVIOUS
  <2>1. Tunnels = {}
    BY NoTunnels DEF Init, Live
  <2> QED
    BY <2>1 DEF Init, Promise!Init, Running, MaybeProvider
<1>2. IInv /\ RemovalAllowed /\ [Next]_vars => [Promise!Next]_(Promise!vars)
  <2>1. CASE UNCHANGED vars
    BY <2>1 DEF vars, core, child, disk, Promise!vars, Tunnels, Orphan, Running
  <2> QED
    BY <2>1, PromiseStep
<1> QED
  BY <1>1, <1>2, Invariance, RemovalInvariance, PTL
  DEF Spec, ImplementsTunnel, Promise!Spec

\* Only a rejection's removal takes the file of the provider that is set and
\* saved, for any number of providers and slots
\* (controller.go:186-209, 460-465, 486-488, 613-615).
THEOREM Kept == Spec => KeptUntilRejected
<1>1. IInv /\ RemovalAllowed /\ [Next]_vars
        => [provider # NoProvider /\ ~savePending /\ file = provider /\ file' # file
              => \E p \in Pid : waiter[p] = "remove" /\ waiter'[p] = "signal"]_vars
  <2> SUFFICES ASSUME IInv, RemovalAllowed, Next,
                      provider # NoProvider, ~savePending, file' # file
               PROVE  \E p \in Pid : waiter[p] = "remove" /\ waiter'[p] = "signal"
    BY DEF vars
  <2>1. ASSUME NEW p \in Pid, LoopStart(p) PROVE FALSE
    BY <2>1 DEF LoopStart, disk
  <2>2. CASE LoopRemove
    BY <2>2 DEF LoopRemove, RemovalAllowed
  <2>3. CASE CallRemove
    BY <2>3 DEF CallRemove, RemovalAllowed
  <2>4. ASSUME NEW p \in Pid, WaitRemove(p) PROVE waiter'[p] = "signal" /\ waiter[p] = "remove"
    BY <2>4 DEF WaitRemove, IInv, TypeOK, ChildType
  <2>5. LoopKill \/ LoopYoung \/ LoopStable \/ LoopIdle \/ LoopStartFault
          => UNCHANGED file
    BY DEF LoopKill, LoopYoung, LoopStable, LoopIdle, LoopStartFault, disk
  <2>6. LoopWake \/ LoopCheck \/ LoopBackoff => UNCHANGED file
    BY DEF LoopWake, LoopCheck, LoopBackoff, disk
  <2>7. ASSUME NEW p \in Pid, Wait(p), ~WaitRemove(p) PROVE UNCHANGED file
    BY <2>7 DEF Wait, WaitReturns, WaitDrain, SettleStale, SettleClean,
       SettleDefinitive, SettleTransient, Reap, WaitSignal, disk
  <2>8. ASSUME NEW p \in Pid, Stream(p) \/ Emit(p) \/ Exit(p) \/ OrphanExit(p)
                              \/ StreamFault(p)
        PROVE  UNCHANGED file
    BY <2>8 DEF Stream, StreamLine, StreamEnd, StreamFault, Emit, Exit,
       OrphanExit, disk
  <2>9. ASSUME NEW q \in Provider, SetProvider(q) PROVE UNCHANGED file
    BY <2>9 DEF SetProvider, NewProvider, disk
  <2>10. ClearProvider \/ Restart => UNCHANGED file
    BY DEF ClearProvider, Restart, disk
  <2>11. CallSignal => UNCHANGED file
    BY DEF CallSignal, disk
  <2>12. ASSUME NEW p \in Pid, SaveCut(p) PROVE FALSE
    BY <2>12 DEF SaveCut
  <2>13. Environment /\ ~(\E p \in Pid : SaveCut(p)) => UNCHANGED file
    BY DEF Environment, Cancel, Stop, MainReturns, Crash, Boot, disk
  <2> QED
    BY <2>1, <2>2, <2>3, <2>4, <2>5, <2>6, <2>7, <2>8, <2>9, <2>10, <2>11, <2>12, <2>13
    DEF Next, Loop, Call, CallReturns
<1> QED
  BY <1>1, Invariance, RemovalInvariance, PTL DEF Spec, KeptUntilRejected

-----------------------------------------------------------------------------
(* The safety net. *)

\* Without a provider no crash has been counted but the last child's, and a bot
\* that is down has counted none.
LowCount ==
  /\ provider = NoProvider => crashFailures <= IF cmd = NoPid THEN 1 ELSE 0
  /\ life = "down" => crashFailures = 0

\* A provider is dropped with its count, and without one no child is started.
LEMMA LowCountStep ==
  ASSUME IInv, RemovalAllowed, LowCount, Next PROVE LowCount'
<1> USE SupervisorAssumption DEF IInv, TypeOK, CoreType, RestType, RemovalAllowed,
        LowCount, core, disk, Calls, Running
<1>1. CASE LoopKill
  BY <1>1 DEF LoopKill, MaxFailuresBlock
<1>2. CASE LoopYoung
  BY <1>2 DEF LoopYoung, MaxFailuresBlock
<1>3. CASE LoopStable
  BY <1>3 DEF LoopStable, MaxFailuresBlock
<1>4. CASE LoopIdle
  BY <1>4 DEF LoopIdle, MaxFailuresBlock
<1>5. ASSUME NEW p \in Pid, LoopStart(p) PROVE LowCount'
  BY <1>5 DEF LoopStart, MaxFailuresBlock
<1>6. CASE LoopStartFault
  BY <1>6 DEF LoopStartFault
<1>7. CASE LoopRemove
  BY <1>7 DEF LoopRemove
<1>8. CASE LoopWake
  BY <1>8 DEF LoopWake
<1>9. CASE LoopCheck
  BY <1>9 DEF LoopCheck
<1>10. CASE LoopBackoff
  BY <1>10 DEF LoopBackoff
<1>11. ASSUME NEW p \in Pid, WaitReturns(p) PROVE LowCount'
  BY <1>11 DEF WaitReturns
<1>12. ASSUME NEW p \in Pid, WaitDrain(p) PROVE LowCount'
  BY <1>12 DEF WaitDrain
<1>13. ASSUME NEW p \in Pid, SettleStale(p) PROVE LowCount'
  BY <1>13 DEF SettleStale, Reap
<1>14. ASSUME NEW p \in Pid, SettleClean(p) PROVE LowCount'
  BY <1>14 DEF SettleClean, Reap
<1>15. ASSUME NEW p \in Pid, SettleDefinitive(p) PROVE LowCount'
  BY <1>15 DEF SettleDefinitive, Reap
<1>16. ASSUME NEW p \in Pid, SettleTransient(p) PROVE LowCount'
  BY <1>16 DEF SettleTransient, Reap
<1>17. ASSUME NEW p \in Pid, WaitRemove(p) PROVE LowCount'
  BY <1>17 DEF WaitRemove
<1>18. ASSUME NEW p \in Pid, WaitSignal(p) PROVE LowCount'
  BY <1>18 DEF WaitSignal
<1>19. ASSUME NEW p \in Pid, StreamLine(p) PROVE LowCount'
  BY <1>19 DEF StreamLine
<1>20. ASSUME NEW p \in Pid, StreamEnd(p) PROVE LowCount'
  BY <1>20 DEF StreamEnd
<1>21. ASSUME NEW p \in Pid, Emit(p) PROVE LowCount'
  BY <1>21 DEF Emit
<1>22. ASSUME NEW p \in Pid, Exit(p) PROVE LowCount'
  BY <1>22 DEF Exit
<1>23. ASSUME NEW p \in Pid, OrphanExit(p) PROVE LowCount'
  BY <1>23 DEF OrphanExit
<1>24. ASSUME NEW q \in Provider, SetProvider(q) PROVE LowCount'
  BY <1>24 DEF SetProvider, NewProvider
<1>25. CASE ClearProvider
  BY <1>25 DEF ClearProvider
<1>26. CASE Restart
  BY <1>26 DEF Restart
<1>27. CASE CallRemove
  BY <1>27 DEF CallRemove
<1>28. CASE CallSignal
  BY <1>28 DEF CallSignal
<1>29. CASE Cancel
  BY <1>29 DEF Cancel
<1>30. CASE Stop
  BY <1>30 DEF Stop
<1>31. CASE MainReturns
  BY <1>31 DEF MainReturns, Vanish
<1>32. CASE Crash
  BY <1>32 DEF Crash, Vanish
<1>33. CASE Boot
  BY <1>33 DEF Boot
<1>34. ASSUME NEW p \in Pid, SaveCut(p) PROVE LowCount'
  BY <1>34 DEF SaveCut, Vanish, FreeSlot
<1>35. ASSUME NEW p \in Pid, StreamFault(p) PROVE LowCount'
  BY <1>35 DEF StreamFault
<1> QED
  BY <1>1, <1>2, <1>3, <1>4, <1>5, <1>6, <1>7, <1>8, <1>9, <1>10,
     <1>11, <1>12, <1>13, <1>14, <1>15, <1>16, <1>17, <1>18, <1>19, <1>20,
     <1>21, <1>22, <1>23, <1>24, <1>25, <1>26, <1>27, <1>28, <1>29, <1>30,
     <1>31, <1>32, <1>33, <1>34, <1>35
  DEF Next, Loop, Wait, Stream, Call, CallReturns, Environment

\* LowCount holds in every reachable state.
LEMMA LowCountInvariance == Spec => []LowCount
<1>1. Init => LowCount
  BY DEF Init, LowCount
<1>2. IInv /\ RemovalAllowed /\ LowCount /\ [Next]_vars => LowCount'
  BY LowCountStep DEF vars, core, LowCount
<1> QED
  BY <1>1, <1>2, Invariance, RemovalInvariance, PTL DEF Spec

\* The safety net trips only in a pass that starts the provider once more, for
\* any limit but zero (maxFailures is 5): every other pass finds the count within
\* the limit (controller.go:396-466, 473-488, 595).
THEOREM Trips == ASSUME MaxFailures > 0 PROVE Spec => TripsOnAStart
<1>1. IInv /\ LowCount /\ [Next]_vars
        => [loop = "body" /\ loop' = "remove"
              => cmd = NoPid /\ cmd' # NoPid /\ prov'[cmd'] = provider]_vars
  <2> SUFFICES ASSUME IInv, LowCount, Next, loop = "body", loop' = "remove"
               PROVE  cmd = NoPid /\ cmd' # NoPid /\ prov'[cmd'] = provider
    BY DEF vars
  <2>1. CASE LoopKill \/ LoopYoung \/ LoopStable
    <3>1. crashFailures \in Nat /\ crashFailures <= MaxFailures /\ MaxFailures \in Nat
      BY <2>1, SupervisorAssumption DEF LoopKill, LoopYoung, LoopStable, IInv,
         CrashCountBounded, TypeOK, CoreType
    <3>2. CASE LoopKill \/ LoopYoung
      BY <3>1, <3>2 DEF LoopKill, LoopYoung, MaxFailuresBlock
    <3>3. CASE LoopStable
      BY <3>1, <3>3 DEF LoopStable, MaxFailuresBlock
    <3> QED
      BY <2>1, <3>2, <3>3
  <2>2. CASE LoopIdle
    BY <2>2, SupervisorAssumption DEF LoopIdle, MaxFailuresBlock, LowCount, IInv, TypeOK, CoreType
  <2>3. ASSUME NEW p \in Pid, LoopStart(p)
        PROVE  cmd = NoPid /\ cmd' # NoPid /\ prov'[cmd'] = provider
    BY <2>3, SupervisorAssumption DEF LoopStart, IInv, TypeOK, ChildType
  <2>4. CASE LoopStartFault \/ LoopRemove \/ LoopWake \/ LoopCheck \/ LoopBackoff
    BY <2>4 DEF LoopStartFault, LoopRemove, LoopWake, LoopCheck, LoopBackoff
  <2>5. ASSUME NEW p \in Pid, Wait(p) PROVE UNCHANGED loop
    BY <2>5 DEF Wait, WaitReturns, WaitDrain, SettleStale, SettleClean,
       SettleDefinitive, SettleTransient, Reap, WaitRemove, WaitSignal
  <2>6. ASSUME NEW p \in Pid, Stream(p) \/ Emit(p) \/ Exit(p) \/ OrphanExit(p)
                              \/ StreamFault(p)
        PROVE  UNCHANGED loop
    BY <2>6 DEF Stream, StreamLine, StreamEnd, StreamFault, Emit, Exit,
       OrphanExit
  <2>7. ASSUME NEW q \in Provider, SetProvider(q) PROVE UNCHANGED loop
    BY <2>7 DEF SetProvider, NewProvider
  <2>8. ClearProvider \/ Restart => UNCHANGED loop
    BY DEF ClearProvider, Restart
  <2>9. CallReturns => UNCHANGED loop
    BY DEF CallReturns, CallRemove, CallSignal
  <2>10. Environment => loop' # "remove" \/ UNCHANGED loop
    BY DEF Environment, Cancel, Stop, MainReturns, Vanish, Crash, Boot, SaveCut
  <2> QED
    BY <2>1, <2>2, <2>3, <2>4, <2>5, <2>6, <2>7, <2>8, <2>9, <2>10
    DEF Next, Loop, Call
<1> QED
  BY <1>1, Invariance, LowCountInvariance, PTL DEF Spec, TripsOnAStart
=============================================================================
