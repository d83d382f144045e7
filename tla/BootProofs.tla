----------------------------- MODULE BootProofs -----------------------------
(***************************************************************************)
(* What TLAPS proves of Boot, for every number of CPUs, every set of        *)
(* modules and whatever their handlers answer.                             *)
(*                                                                         *)
(* None of the three invariants is inductive by itself.  That a CPU finds   *)
(* its own stack needs to know who may be between the start-up message and  *)
(* its answer (StartInv); that the init sections are not freed too early    *)
(* needs ap_done_nr to be the number of CPUs past their levels, and those   *)
(* to be at MAIN_LVL (DoneInv); that a module is not loaded twice needs the *)
(* status kept for each CPU to agree with what was loaded (LoadInv).        *)
(***************************************************************************)
EXTENDS Boot, FiniteSetTheorems, TLAPS

(* Where a CPU may be. *)
BpPcs == {"levels", "start", "wait", "main_level", "main"}
ApPcs == {"off", "entry", "ap_main", "levels", "main_level", "main", "trap"}

(* Past the message and not yet CPU_RUNNING. *)
Coming == {"entry", "ap_main"}

(* Only the CPU that CPU 0 waits for is coming up, the word below the       *)
(* start-up code names it, and its status is still 0.                      *)
StartInv ==
    /\ pc[BP] \in BpPcs
    /\ \A c \in Aps :
          /\ pc[c] \in ApPcs
          /\ c > starting => pc[c] = "off"
          /\ pc[c] \in Coming =>
                /\ pc[BP] = "wait" /\ c = starting /\ slot = c
                /\ status[c] = 0
          /\ stack[c] \in {None, c}

Done == {c \in Aps : pc[c] \in {"main_level", "main"}}

(* ap_done_nr counts the CPUs that are past their levels, and a CPU leaves  *)
(* its levels only at MAIN_LVL.                                            *)
DoneInv ==
    /\ ap_done_nr = Cardinality(Done)
    /\ \A c \in Cpus : /\ pc[c] = "main_level" => level[c] = MAIN_LVL
                       /\ IF pc[c] = "main" THEN level[c] = MAIN_LVL + 1
                                            ELSE level[c] <= MAIN_LVL

(* percpu_status says what was loaded, which CPU 0 has loaded before. *)
LoadInv ==
    \A m \in Modules :
        /\ mstatus[m] = "LOADED" => loads[BP][m] >= 1
        /\ \A c \in Aps : /\ loads[c][m] = IF pstatus[c][m] = "LOADED" THEN 1 ELSE 0
                          /\ pstatus[c][m] = "LOADED" => mstatus[m] = "LOADED"

Inv == TypeOK /\ StartInv /\ DoneInv /\ InitMemoryKept /\ LoadInv

-----------------------------------------------------------------------------
(* Any set of application processors is finite, no larger than all of them, *)
(* and as large only if it is all of them.                                 *)
LEMMA ApCount ==
    ASSUME NEW S \in SUBSET Aps
    PROVE  /\ IsFiniteSet(S) /\ Cardinality(S) \in 0 .. N
           /\ Cardinality(S) = N => S = Aps
  <1>1. IsFiniteSet(Aps) /\ Cardinality(Aps) = N
    BY FS_Interval, BootAssumption DEF Aps
  <1>2. IsFiniteSet(S) /\ Cardinality(S) <= N /\ (Cardinality(S) = N => S = Aps)
    BY <1>1, FS_Subset
  <1>3. Cardinality(S) \in Nat
    BY <1>2, FS_CardinalityType
  <1> QED
    BY <1>2, <1>3, BootAssumption

(* CPU 0 and the application processors are the CPUs. *)
LEMMA CpuSets == /\ BP \in Cpus /\ BP \notin Aps /\ Aps \subseteq Cpus
                 /\ Cpus = Aps \cup {BP} /\ Cpus \subseteq Nat /\ N \in Nat
  BY BootAssumption DEF BP, Cpus, Aps

(* Before anything ran the invariant holds. *)
LEMMA InitInv == Init => Inv
  <1> SUFFICES ASSUME Init
               PROVE  Inv
    OBVIOUS
  <1>1. TypeOK
    <2>1. init_freed \in BOOLEAN /\ clk_fsecs \in BOOLEAN
      BY DEF Init
    <2>2. /\ pc \in [Cpus -> {"off", "entry", "ap_main", "levels", "start", "wait", "main_level",
                        "main", "trap"}]
          /\ mstatus \in [Modules -> {"INIT", "LOADED"}]
          /\ pstatus \in [Cpus -> [Modules -> {"INIT", "LOADED"}]]
      BY DEF Init
    <2> QED
      BY <2>1, <2>2, CpuSets, BootAssumption DEF Init, TypeOK, EARLY, MAIN_LVL, None, BP
  <1>2. StartInv
    BY CpuSets DEF Init, StartInv, BpPcs, ApPcs, Coming, None
  <1>3. DoneInv
    <2>1. Done = {}
      BY CpuSets DEF Init, Done
    <2> QED
      BY <2>1, FS_EmptySet, CpuSets DEF Init, DoneInv, EARLY, MAIN_LVL
  <1>4. InitMemoryKept /\ LoadInv
    BY CpuSets DEF Init, InitMemoryKept, LoadInv
  <1> QED
    BY <1>1, <1>2, <1>3, <1>4 DEF Inv

-----------------------------------------------------------------------------
(* The loads and the status of the modules agree after every step. *)
LEMMA LoadNext == Inv /\ [Next]_vars => LoadInv'
  <1> SUFFICES ASSUME Inv, [Next]_vars
               PROVE  LoadInv'
    OBVIOUS
  <1>1. CASE UNCHANGED modvars
    BY <1>1 DEF Inv, LoadInv, modvars
  <1>2. ASSUME NEW c \in Cpus, init_module_call(c)
        PROVE  LoadInv'
    <2>1. PICK answer \in [Round(c) -> Answers] :
              LET ok == {m \in Round(c) : answer[m] = "OK"}
              IN  /\ mstatus' = IF c = BP
                                THEN [m \in Modules |-> IF m \in ok THEN "LOADED" ELSE mstatus[m]]
                                ELSE mstatus
                  /\ pstatus' = IF c = BP THEN pstatus ELSE init_module_ap(c, ok)
                  /\ loads' = [loads EXCEPT ![c] =
                                   [m \in Modules |-> IF m \in ok /\ @[m] < 2 THEN @[m] + 1 ELSE @[m]]]
      BY <1>2 DEF init_module_call
    <2> DEFINE ok == {m \in Round(c) : answer[m] = "OK"}
    <2>2. ok \subseteq Round(c)
      OBVIOUS
    <2> HIDE DEF ok
    <2>3. CASE c = BP
      <3>1. ok \subseteq Modules
        BY <2>2 DEF Round
      <3>2. \A d \in Aps : loads'[d] = loads[d]
        BY <2>1, <2>3, CpuSets DEF Inv, TypeOK
      <3>3. \A m \in Modules : loads[BP][m] \in 0 .. 2
        BY CpuSets DEF Inv, TypeOK
      <3>4. \A m \in Modules :
               loads'[BP][m] = IF m \in ok /\ loads[BP][m] < 2 THEN loads[BP][m] + 1
                                                               ELSE loads[BP][m]
        BY <2>1, <2>3, CpuSets DEF Inv, TypeOK, ok
      <3>5. mstatus' = [m \in Modules |-> IF m \in ok THEN "LOADED" ELSE mstatus[m]]
        BY <2>1, <2>3 DEF ok
      <3>6. pstatus' = pstatus
        BY <2>1, <2>3
      <3> QED
        BY <3>2, <3>3, <3>4, <3>5, <3>6 DEF Inv, LoadInv
    <2>4. CASE c # BP
      <3>1. c \in Aps
        BY <2>4, CpuSets
      <3>2. \A m \in ok : m \in Modules /\ mstatus[m] = "LOADED" /\ pstatus[c][m] = "INIT"
        BY <2>2, <2>4 DEF Round
      <3>3. mstatus' = mstatus
        BY <2>1, <2>4
      <3>4. /\ loads'[BP] = loads[BP]
            /\ \A d \in Aps \ {c} : loads'[d] = loads[d] /\ pstatus'[d] = pstatus[d]
        BY <2>1, <2>4, CpuSets DEF Inv, TypeOK, init_module_ap
      <3>5. \A m \in Modules :
               /\ pstatus'[c][m] = IF m \in ok THEN "LOADED" ELSE pstatus[c][m]
               /\ loads'[c][m] = IF m \in ok /\ loads[c][m] < 2 THEN loads[c][m] + 1 ELSE loads[c][m]
        BY <2>1, <2>4 DEF Inv, TypeOK, init_module_ap, ok
      <3>6. \A m \in Modules : loads[c][m] = IF pstatus[c][m] = "LOADED" THEN 1 ELSE 0
        BY <3>1 DEF Inv, LoadInv
      <3>7. \A m \in Modules :
               /\ loads'[c][m] = IF pstatus'[c][m] = "LOADED" THEN 1 ELSE 0
               /\ pstatus'[c][m] = "LOADED" => mstatus'[m] = "LOADED"
        BY <3>1, <3>2, <3>3, <3>5, <3>6 DEF Inv, LoadInv
      <3> QED
        BY <3>3, <3>4, <3>7 DEF Inv, LoadInv
    <2> QED
      BY <2>3, <2>4
  <1> QED
    BY <1>1, <1>2 DEF Next, CpuStep, BpStep, vars, modvars, StartAp, ApStarted, AllStarted,
       kernel_init_freeable, init_apic_timer_second, do_initcall_level, ApDone, MainLevel,
       entry64mp, ap_main

(* bootup_aps lets one CPU come up at a time, in every step. *)
LEMMA StartNext == Inv /\ [Next]_vars => StartInv'
  <1> SUFFICES ASSUME Inv, [Next]_vars
               PROVE  StartInv'
    OBVIOUS
  <1> USE CpuSets DEF Inv, TypeOK, StartInv, BpPcs, ApPcs, Coming, Goto, smpvars
  <1>1. CASE StartAp
    <2>1. starting \in Nat /\ starting + 1 \in Aps
      BY <1>1 DEF StartAp, Aps
    <2>2. pc'[BP] = "wait" /\ pc'[starting + 1] = "entry"
      BY <1>1, <2>1 DEF StartAp
    <2>3. \A d \in Aps \ {starting + 1} : pc'[d] = pc[d] /\ pc[d] \notin Coming
      BY <1>1, <2>1 DEF StartAp
    <2>4. status'[starting + 1] = 0 /\ slot' = starting + 1 /\ starting' = starting + 1
      BY <1>1, <2>1 DEF StartAp
    <2>5. \A d \in Aps : d > starting' => d > starting /\ d # starting + 1
      BY <2>1, <2>4
    <2> QED
      BY <1>1, <2>1, <2>2, <2>3, <2>4, <2>5 DEF StartAp
  <1>2. CASE ApStarted
    BY <1>2 DEF ApStarted
  <1>3. CASE AllStarted
    BY <1>3 DEF AllStarted
  <1>4. CASE kernel_init_freeable
    BY <1>4 DEF kernel_init_freeable
  <1>5. ASSUME NEW c \in Cpus, init_module_call(c)
        PROVE  StartInv'
    BY <1>5 DEF init_module_call
  <1>6. ASSUME NEW c \in Cpus, init_apic_timer_second(c)
        PROVE  StartInv'
    <2>1. c = BP => pc'[BP] = "levels"
      <3>1. c = BP => clk_fsecs'
        BY <1>6 DEF init_apic_timer_second
      <3> QED
        BY <1>6, <3>1 DEF init_apic_timer_second
    <2>2. pc'[c] \in {"levels", "trap"} /\ pc[c] = "levels"
      BY <1>6 DEF init_apic_timer_second
    <2>3. \A d \in Cpus \ {c} : pc'[d] = pc[d]
      BY <1>6 DEF init_apic_timer_second
    <2> QED
      BY <1>6, <2>1, <2>2, <2>3 DEF init_apic_timer_second
  <1>7. ASSUME NEW c \in Cpus, do_initcall_level(c)
        PROVE  StartInv'
    BY <1>7 DEF do_initcall_level
  <1>8. ASSUME NEW c \in Cpus, ApDone(c)
        PROVE  StartInv'
    BY <1>8 DEF ApDone
  <1>9. ASSUME NEW c \in Cpus, MainLevel(c)
        PROVE  StartInv'
    BY <1>9 DEF MainLevel
  <1>10. ASSUME NEW c \in Cpus, entry64mp(c)
         PROVE  StartInv'
    BY <1>10 DEF entry64mp
  <1>11. ASSUME NEW c \in Cpus, ap_main(c)
         PROVE  StartInv'
    BY <1>11 DEF ap_main
  <1>12. CASE UNCHANGED vars
    BY <1>12 DEF vars
  <1> QED
    BY <1>1, <1>2, <1>3, <1>4, <1>5, <1>6, <1>7, <1>8, <1>9, <1>10, <1>11, <1>12
    DEF Next, CpuStep, BpStep

(* ap_done_nr stays the number of the CPUs that passed atomic_inc. *)
LEMMA DoneNext == Inv /\ [Next]_vars => DoneInv'
  <1> SUFFICES ASSUME Inv, [Next]_vars
               PROVE  DoneInv'
    OBVIOUS
  <1> USE CpuSets DEF Inv, TypeOK, StartInv, DoneInv, BpPcs, ApPcs, Coming, Goto,
                      EARLY, PURE, POSTCORE, MAIN_LVL
  <1> DEFINE Kept == \A d \in Aps : pc'[d] \in {"main_level", "main"} <=> pc[d] \in {"main_level", "main"}
  <1> DEFINE LevelsOK == \A d \in Cpus :
                 /\ pc'[d] = "main_level" => level'[d] = MAIN_LVL
                 /\ IF pc'[d] = "main" THEN level'[d] = MAIN_LVL + 1 ELSE level'[d] <= MAIN_LVL
  <1>1. ASSUME Kept, LevelsOK, ap_done_nr' = ap_done_nr
        PROVE  DoneInv'
    <2>1. Done' = Done
      BY <1>1 DEF Done
    <2> QED
      BY <1>1, <2>1
  <1>2. ASSUME NEW c \in Cpus, ApDone(c)
        PROVE  DoneInv'
    <2>1. c \in Aps /\ c \notin Done /\ pc' = [pc EXCEPT ![c] = "main_level"]
      BY <1>2 DEF ApDone, Done
    <2>2. Done' = Done \cup {c}
      BY <2>1 DEF Done
    <2>3. Done \in SUBSET Aps
      BY DEF Done
    <2>4. IsFiniteSet(Done) /\ Cardinality(Done) \in Nat
      BY <2>3, ApCount
    <2>5. Cardinality(Done') = Cardinality(Done) + 1
      BY <2>1, <2>2, <2>4, FS_AddElement
    <2>6. LevelsOK
      BY <1>2, <2>1 DEF ApDone
    <2> QED
      BY <1>2, <2>5, <2>6 DEF ApDone
  <1>3. CASE StartAp
    <2>1. starting \in Nat /\ starting + 1 \in Aps /\ pc[starting + 1] = "off"
      BY <1>3 DEF StartAp, Aps
    <2>2. pc' = [pc EXCEPT ![BP] = "wait", ![starting + 1] = "entry"]
      BY <1>3 DEF StartAp
    <2>3. Kept /\ LevelsOK
      BY <1>3, <2>1, <2>2 DEF StartAp
    <2> QED
      BY <1>1, <1>3, <2>3 DEF StartAp
  <1>4. CASE ApStarted
    BY <1>1, <1>4 DEF ApStarted
  <1>5. CASE AllStarted
    BY <1>1, <1>5 DEF AllStarted
  <1>6. CASE kernel_init_freeable
    BY <1>1, <1>6 DEF kernel_init_freeable
  <1>7. ASSUME NEW c \in Cpus, init_module_call(c)
        PROVE  DoneInv'
    <2>1. PICK n \in {PURE, PURE + 1} : level' = [level EXCEPT ![c] = n]
      BY <1>7 DEF init_module_call
    <2>2. Kept /\ LevelsOK
      BY <1>7, <2>1 DEF init_module_call
    <2> QED
      BY <1>1, <1>7, <2>2 DEF init_module_call
  <1>8. ASSUME NEW c \in Cpus, init_apic_timer_second(c)
        PROVE  DoneInv'
    <2>1. /\ pc[c] = "levels" /\ pc'[c] \in {"levels", "trap"}
          /\ \A d \in Cpus \ {c} : pc'[d] = pc[d] /\ level'[d] = level[d]
          /\ level'[c] = POSTCORE + 1
      BY <1>8 DEF init_apic_timer_second
    <2>2. Kept /\ LevelsOK
      BY <2>1
    <2> QED
      BY <1>1, <1>8, <2>2 DEF init_apic_timer_second
  <1>9. ASSUME NEW c \in Cpus, do_initcall_level(c)
        PROVE  DoneInv'
    <2>1. /\ pc[c] = "levels" /\ pc'[c] \in {"levels", "start"}
          /\ \A d \in Cpus \ {c} : pc'[d] = pc[d] /\ level'[d] = level[d]
          /\ level'[c] <= MAIN_LVL
      BY <1>9 DEF do_initcall_level
    <2>2. Kept /\ LevelsOK
      BY <2>1
    <2> QED
      BY <1>1, <1>9, <2>2 DEF do_initcall_level
  <1>10. ASSUME NEW c \in Cpus, MainLevel(c)
         PROVE  DoneInv'
    BY <1>1, <1>10 DEF MainLevel
  <1>11. ASSUME NEW c \in Cpus, entry64mp(c)
         PROVE  DoneInv'
    BY <1>1, <1>11 DEF entry64mp
  <1>12. ASSUME NEW c \in Cpus, ap_main(c)
         PROVE  DoneInv'
    BY <1>1, <1>12 DEF ap_main
  <1>13. CASE UNCHANGED vars
    BY <1>1, <1>13 DEF vars
  <1> QED
    BY <1>2, <1>3, <1>4, <1>5, <1>6, <1>7, <1>8, <1>9, <1>10, <1>11, <1>12, <1>13
    DEF Next, CpuStep, BpStep

(* Every variable keeps its type; ap_done_nr does because it counts. *)
LEMMA TypeNext == Inv /\ [Next]_vars /\ StartInv' /\ DoneInv' => TypeOK'
  <1> SUFFICES ASSUME Inv, [Next]_vars, StartInv', DoneInv'
               PROVE  TypeOK'
    OBVIOUS
  <1> USE CpuSets
  <1>1. (init_freed \in BOOLEAN)' /\ (clk_fsecs \in BOOLEAN)'
    <2>1. init_freed \in BOOLEAN /\ clk_fsecs \in BOOLEAN
      BY DEF Inv, TypeOK
    <2>2. init_freed' \in {init_freed, TRUE}
      BY DEF Next, CpuStep, BpStep, StartAp, ApStarted, AllStarted, kernel_init_freeable,
             init_module_call, init_apic_timer_second, do_initcall_level, ApDone, MainLevel,
             entry64mp, ap_main, vars
    <2>3. clk_fsecs' = clk_fsecs \/ \E c \in Cpus : clk_fsecs' = (clk_fsecs \/ c = BP)
      BY DEF Next, CpuStep, BpStep, StartAp, ApStarted, AllStarted, kernel_init_freeable,
             init_module_call, init_apic_timer_second, do_initcall_level, ApDone, MainLevel,
             entry64mp, ap_main, vars
    <2>4. clk_fsecs' \in BOOLEAN
      BY <2>1, <2>3
    <2> QED
      BY <2>1, <2>2, <2>4
  <1>2. ap_done_nr' \in 0 .. N
    <2>1. Done' \in SUBSET Aps
      BY DEF Done
    <2> QED
      BY <2>1, ApCount DEF DoneInv
  <1>3. (pc \in [Cpus -> {"off", "entry", "ap_main", "levels", "start", "wait", "main_level",
                         "main", "trap"}])'
    <2>1. pc \in [Cpus -> {"off", "entry", "ap_main", "levels", "start", "wait", "main_level",
                          "main", "trap"}]
      BY DEF Inv, TypeOK
    <2> QED
      BY <2>1 DEF Next, CpuStep, BpStep, StartAp, ApStarted, AllStarted, kernel_init_freeable,
             init_module_call, init_apic_timer_second, do_initcall_level, ApDone, MainLevel,
             entry64mp, ap_main, vars, Goto
  <1>4. (level \in [Cpus -> EARLY .. MAIN_LVL + 1])'
    <2>1. level \in [Cpus -> EARLY .. MAIN_LVL + 1]
      BY DEF Inv, TypeOK
    <2>2. CASE level' = level
      BY <2>1, <2>2
    <2>3. ASSUME NEW c \in Cpus, pc[c] # "main", level' = [level EXCEPT ![c] = @ + 1]
          PROVE  (level \in [Cpus -> EARLY .. MAIN_LVL + 1])'
      BY <2>1, <2>3 DEF Inv, DoneInv, EARLY, MAIN_LVL
    <2>4. ASSUME NEW c \in Cpus, NEW n \in {PURE, PURE + 1}, level' = [level EXCEPT ![c] = n]
          PROVE  (level \in [Cpus -> EARLY .. MAIN_LVL + 1])'
      BY <2>1, <2>4 DEF EARLY, MAIN_LVL, PURE
    <2>5. ASSUME NEW c \in Cpus, init_module_call(c)
          PROVE  \E n \in {PURE, PURE + 1} : level' = [level EXCEPT ![c] = n]
      BY <2>5 DEF init_module_call
    <2> QED
      BY <2>2, <2>3, <2>4, <2>5 DEF Next, CpuStep, BpStep, StartAp, ApStarted, AllStarted,
         kernel_init_freeable, init_apic_timer_second, do_initcall_level, ApDone, MainLevel,
         entry64mp, ap_main, vars
  <1>5. /\ starting' \in 0 .. N /\ slot' \in Aps \cup {None}
        /\ stack' \in [Cpus -> Cpus \cup {None}] /\ status' \in [Cpus -> {0, 1}]
    BY DEF Next, CpuStep, BpStep, StartAp, ApStarted, AllStarted, kernel_init_freeable,
           init_module_call, init_apic_timer_second, do_initcall_level, ApDone, MainLevel,
           entry64mp, ap_main, vars, smpvars, Inv, TypeOK, Aps
  <1>6. /\ (mstatus \in [Modules -> {"INIT", "LOADED"}])'
        /\ (pstatus \in [Cpus -> [Modules -> {"INIT", "LOADED"}]])'
        /\ (times \in [Cpus -> 0 .. MaxTimes])'
        /\ (loads \in [Cpus -> [Modules -> 0 .. 2]])'
    <2>1. CASE UNCHANGED modvars
      BY <2>1 DEF modvars, Inv, TypeOK
    <2>2. ASSUME NEW c \in Cpus, init_module_call(c)
          PROVE  /\ (mstatus \in [Modules -> {"INIT", "LOADED"}])'
                 /\ (pstatus \in [Cpus -> [Modules -> {"INIT", "LOADED"}]])'
                 /\ (times \in [Cpus -> 0 .. MaxTimes])'
                 /\ (loads \in [Cpus -> [Modules -> 0 .. 2]])'
      <3>1. \E ok : /\ mstatus' \in {mstatus, [m \in Modules |-> IF m \in ok THEN "LOADED" ELSE mstatus[m]]}
                    /\ pstatus' \in {pstatus, init_module_ap(c, ok)}
                    /\ loads' = [loads EXCEPT ![c] =
                           [m \in Modules |-> IF m \in ok /\ @[m] < 2 THEN @[m] + 1 ELSE @[m]]]
        <4>1. PICK answer \in [Round(c) -> Answers] :
                  LET set == {m \in Round(c) : answer[m] = "OK"}
                  IN  /\ mstatus' = IF c = BP
                                    THEN [m \in Modules |-> IF m \in set THEN "LOADED" ELSE mstatus[m]]
                                    ELSE mstatus
                      /\ pstatus' = IF c = BP THEN pstatus ELSE init_module_ap(c, set)
                      /\ loads' = [loads EXCEPT ![c] =
                             [m \in Modules |-> IF m \in set /\ @[m] < 2 THEN @[m] + 1 ELSE @[m]]]
          BY <2>2 DEF init_module_call
        <4> WITNESS {m \in Round(c) : answer[m] = "OK"}
        <4> QED
          BY <4>1
      <3>2. \E n \in {times[c] - 1, 0} : times' = [times EXCEPT ![c] = n]
        BY <2>2 DEF init_module_call
      <3>3. times[c] \in 0 .. MaxTimes /\ times[c] > 0 /\ MaxTimes \in Nat
        BY <2>2, BootAssumption DEF init_module_call, Inv, TypeOK
      <3>4. times' \in [Cpus -> 0 .. MaxTimes]
        BY <3>2, <3>3 DEF Inv, TypeOK
      <3>5. loads' \in [Cpus -> [Modules -> 0 .. 2]]
        BY <3>1 DEF Inv, TypeOK
      <3>6. /\ mstatus' \in [Modules -> {"INIT", "LOADED"}]
            /\ pstatus' \in [Cpus -> [Modules -> {"INIT", "LOADED"}]]
        BY <3>1 DEF Inv, TypeOK, init_module_ap
      <3> QED
        BY <3>4, <3>5, <3>6
    <2> QED
      BY <2>1, <2>2 DEF Next, CpuStep, BpStep, StartAp, ApStarted, AllStarted,
         kernel_init_freeable, init_apic_timer_second, do_initcall_level, ApDone, MainLevel,
         entry64mp, ap_main, vars, modvars
  <1> QED
    BY <1>1, <1>2, <1>3, <1>4, <1>5, <1>6 DEF TypeOK

(* The init sections are freed with every CPU at MAIN_LVL, and no CPU goes  *)
(* back to a lower level.                                                  *)
LEMMA MemoryNext == Inv /\ [Next]_vars /\ TypeOK' => InitMemoryKept'
  <1> SUFFICES ASSUME Inv, [Next]_vars, TypeOK'
               PROVE  InitMemoryKept'
    OBVIOUS
  <1> USE CpuSets DEF Inv, TypeOK, InitMemoryKept, EARLY, PURE, POSTCORE, MAIN_LVL
  <1>1. ASSUME \A d \in Cpus : level'[d] >= level[d], init_freed' = init_freed
        PROVE  InitMemoryKept'
    <2>1. level \in [Cpus -> -1 .. 9] /\ level' \in [Cpus -> -1 .. 9]
      OBVIOUS
    <2>2. \A d \in Cpus : level[d] \in Int /\ level'[d] \in Int
      BY ONLY <2>1
    <2> QED
      BY <1>1, <2>2
  <1>2. CASE kernel_init_freeable
    <2>1. Done \in SUBSET Aps
      BY DEF Done
    <2>2. Done = Aps
      BY <1>2, <2>1, ApCount DEF kernel_init_freeable, AllDone, DoneInv
    <2>3. \A c \in Aps : level[c] >= MAIN_LVL
      BY <2>2 DEF Done, DoneInv
    <2> QED
      BY <1>2, <2>3 DEF kernel_init_freeable
  <1>3. ASSUME NEW c \in Cpus, init_module_call(c)
        PROVE  InitMemoryKept'
    <2>1. PICK n \in {PURE, PURE + 1} : level' = [level EXCEPT ![c] = n]
      BY <1>3 DEF init_module_call
    <2>2. level[c] = PURE /\ init_freed' = init_freed
      BY <1>3 DEF init_module_call
    <2> QED
      BY <1>1, <2>1, <2>2
  <1>4. ASSUME NEW c \in Cpus, init_apic_timer_second(c) \/ do_initcall_level(c) \/ MainLevel(c)
        PROVE  InitMemoryKept'
    <2>1. level' = [level EXCEPT ![c] = @ + 1] /\ init_freed' = init_freed
      BY <1>4 DEF init_apic_timer_second, do_initcall_level, MainLevel
    <2> QED
      BY <1>1, <2>1
  <1>5. CASE UNCHANGED <<level, init_freed>>
    BY <1>1, <1>5
  <1> QED
    BY <1>2, <1>3, <1>4, <1>5
    DEF Next, CpuStep, BpStep, StartAp, ApStarted, AllStarted, ApDone, entry64mp, ap_main, vars

(* Every step of every CPU keeps the invariant. *)
LEMMA NextInv == Inv /\ [Next]_vars => Inv'
  BY LoadNext, StartNext, DoneNext, MemoryNext, TypeNext DEF Inv

-----------------------------------------------------------------------------
(* The variables of the start-up code keep their types: the counts of       *)
(* ap_done_nr, of the levels and of the rounds stay within their bounds.    *)
THEOREM TypeCorrect == Spec => []TypeOK
  <1>1. Inv => TypeOK
    BY DEF Inv
  <1> QED
    BY <1>1, InitInv, NextInv, PTL DEF Spec

(* No two CPUs ever start on the same stack, however long each takes to     *)
(* read the word that bootup_aps writes for all of them.                   *)
THEOREM StacksApart == Spec => []OwnStack
  <1>1. Inv => OwnStack
    BY DEF Inv, StartInv, OwnStack
  <1> QED
    BY <1>1, InitInv, NextInv, PTL DEF Spec

(* kernel_init_freeable gives back the init sections only when every CPU    *)
(* has run the initcalls of all levels before MAIN_LVL.                     *)
THEOREM InitSectionsKept == Spec => []InitMemoryKept
  <1>1. Inv => InitMemoryKept
    BY DEF Inv
  <1> QED
    BY <1>1, InitInv, NextInv, PTL DEF Spec

(* A CPU loads a module at most once, and only one CPU 0 has loaded.        *)
THEOREM LoadsInOrder == Spec => []LoadedInOrder
  <1>1. Inv => LoadedInOrder
    BY CpuSets DEF Inv, LoadInv, LoadedInOrder
  <1> QED
    BY <1>1, InitInv, NextInv, PTL DEF Spec
=============================================================================
