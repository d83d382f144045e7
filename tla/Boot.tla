-------------------------------- MODULE Boot --------------------------------
(***************************************************************************)
(* The start of all CPUs: kernel/main.c, kernel/smp.c, kernel/module.c and  *)
(* the parts of arch/x86_64 that start the application processors.         *)
(*                                                                         *)
(* CPU 0 runs the initcalls of the levels before PRE_SMP_ENDLVL and then    *)
(* starts the others one by one.  They find their stack in one word below  *)
(* the start-up code at 0x7000, which CPU 0 writes anew for each of them.   *)
(* From there on every CPU runs all levels on its own; the only meeting     *)
(* point is ap_done_nr, before CPU 0 gives back the init sections.         *)
(***************************************************************************)
EXTENDS Integers, FiniteSets

CONSTANTS
    N,           \* nr_cpu - 1: the processors CPU 0 starts, numbered from 1
    Modules,     \* the entries of the section .module_data
    Answers,     \* what their handlers return: "OK", "NEXTLOOP", "ERR" for any other
    MaxTimes     \* the rounds of loading: times, 10

ASSUME BootAssumption ==
    /\ N \in Nat /\ MaxTimes \in Nat \ {0}
    /\ Answers \subseteq {"OK", "NEXTLOOP", "ERR"} /\ Answers # {}

Cpus == 0 .. N
Aps == 1 .. N
BP == 0
None == -1

EARLY == -1
PRE_SMP_ENDLVL == 2
MAIN_LVL == 8

(* The levels whose initcalls do something the model knows. *)
PURE == 0
POSTCORE == 2

VARIABLES
    pc,          \* what a CPU does
    level,       \* the level of initcalls it runs or runs next
    starting,    \* i of bootup_aps
    slot,        \* the stack written below the start-up code, by its CPU
    stack,       \* the initial stack a CPU has taken
    status,      \* cpu_p->status
    ap_done_nr,
    init_freed,  \* the init sections are back in the heap
    mstatus,     \* all[i].status
    pstatus,     \* percpu_status
    times,       \* the rounds of loading left to a CPU
    loads,       \* history: how often a module was loaded on a CPU
    clk_fsecs    \* the clock of the local timers is known

vars == <<pc, level, starting, slot, stack, status, ap_done_nr, init_freed, mstatus, pstatus,
          times, loads, clk_fsecs>>
smpvars == <<starting, slot, stack, status>>
modvars == <<mstatus, pstatus, times, loads>>

Goto(c, l) == pc' = [pc EXCEPT ![c] = l]

-----------------------------------------------------------------------------
(* arch/x86_64: one CPU after the other *)

(* Mutant: CPU 0 does not wait for the one before. *)
StartAp_nowait ==
    /\ pc[BP] \in {"start", "wait"}
    /\ starting < N
    /\ pc' = [pc EXCEPT ![BP] = "wait", ![starting + 1] = "entry"]
    /\ starting' = starting + 1
    /\ slot' = starting + 1
    /\ status' = [status EXCEPT ![starting + 1] = 0]
    /\ UNCHANGED <<level, stack, ap_done_nr, init_freed, modvars, clk_fsecs>>

(* bootup_aps writes the word and sends the start-up message. *)
StartAp ==
    /\ pc[BP] = "start"
    /\ starting < N
    /\ pc' = [pc EXCEPT ![BP] = "wait", ![starting + 1] = "entry"]
    /\ starting' = starting + 1
    /\ slot' = starting + 1
    /\ status' = [status EXCEPT ![starting + 1] = 0]
    /\ UNCHANGED <<level, stack, ap_done_nr, init_freed, modvars, clk_fsecs>>

(* while (p->status == 0) *)
ApStarted ==
    /\ pc[BP] = "wait"
    /\ status[starting] # 0
    /\ Goto(BP, "start")
    /\ UNCHANGED <<level, smpvars, ap_done_nr, init_freed, modvars, clk_fsecs>>

AllStarted ==
    /\ pc[BP] = "start"
    /\ starting = N
    /\ Goto(BP, "levels")
    /\ UNCHANGED <<level, smpvars, ap_done_nr, init_freed, modvars, clk_fsecs>>

(* entry64mp takes its stack from the word. *)
entry64mp(c) ==
    /\ pc[c] = "entry"
    /\ stack' = [stack EXCEPT ![c] = slot]
    /\ Goto(c, "ap_main")
    /\ UNCHANGED <<level, starting, slot, status, ap_done_nr, init_freed, modvars, clk_fsecs>>

(* ap_main and bootup_cpu, up to status = CPU_RUNNING; start_kernel_ap. *)
ap_main(c) ==
    /\ pc[c] = "ap_main"
    /\ status' = [status EXCEPT ![c] = 1]
    /\ Goto(c, "levels")
    /\ UNCHANGED <<level, starting, slot, stack, ap_done_nr, init_freed, modvars, clk_fsecs>>

-----------------------------------------------------------------------------
(* kernel/module.c *)

(* The modules a round of loading calls on CPU c.  On CPU 0 the first      *)
(* round calls all of them, and later ones those that are loaded; on the   *)
(* others those that CPU 0 has loaded and this CPU has not.                *)
Round(c) ==
    IF c = BP THEN {m \in Modules : times[c] < MaxTimes => mstatus[m] = "LOADED"}
              ELSE {m \in Modules : mstatus[m] = "LOADED" /\ pstatus[c][m] = "INIT"}

(* Mutant: the CPU does not keep what it has loaded. *)
init_module_ap_forgets(c, ok) == pstatus

(* What is loaded on CPU c when ok have answered MOD_ERR_OK. *)
init_module_ap(c, ok) ==
    [pstatus EXCEPT ![c] = [m \in Modules |-> IF m \in ok THEN "LOADED" ELSE @[m]]]

(* One round; another follows if somebody asks for it, ten at most. *)
init_module_call(c) ==
    /\ pc[c] = "levels" /\ level[c] = PURE
    /\ times[c] > 0
    /\ \E answer \in [Round(c) -> Answers] :
           LET ok == {m \in Round(c) : answer[m] = "OK"}
               again == (\E m \in Round(c) : answer[m] = "NEXTLOOP") /\ times[c] > 1
           IN  /\ mstatus' = IF c = BP
                             THEN [m \in Modules |-> IF m \in ok THEN "LOADED" ELSE mstatus[m]]
                             ELSE mstatus
               /\ pstatus' = IF c = BP THEN pstatus ELSE init_module_ap(c, ok)
               /\ loads' = [loads EXCEPT ![c] =
                                [m \in Modules |-> IF m \in ok /\ @[m] < 2 THEN @[m] + 1 ELSE @[m]]]
               /\ times' = [times EXCEPT ![c] = IF again THEN @ - 1 ELSE 0]
               /\ level' = [level EXCEPT ![c] = IF again THEN PURE ELSE PURE + 1]
    /\ UNCHANGED <<pc, smpvars, ap_done_nr, init_freed, clk_fsecs>>

-----------------------------------------------------------------------------
(* arch/x86_64/apic_timer.c *)

(* init_apic_timer_second: CPU 0 measures the clock, and every CPU divides *)
(* by it to set up its own device.                                         *)
init_apic_timer_second(c) ==
    /\ pc[c] = "levels" /\ level[c] = POSTCORE
    /\ clk_fsecs' = (clk_fsecs \/ c = BP)
    /\ level' = [level EXCEPT ![c] = @ + 1]
    /\ Goto(c, IF clk_fsecs' THEN "levels" ELSE "trap")
    /\ UNCHANGED <<smpvars, ap_done_nr, init_freed, modvars>>

-----------------------------------------------------------------------------
(* kernel/main.c *)

(* The other levels.  Between the levels before PRE_SMP_ENDLVL and the     *)
(* rest, CPU 0 calls smp_init.                                             *)
do_initcall_level(c) ==
    /\ pc[c] = "levels"
    /\ level[c] \in EARLY .. MAIN_LVL - 1 /\ level[c] \notin {PURE, POSTCORE}
    /\ level' = [level EXCEPT ![c] = @ + 1]
    /\ Goto(c, IF c = BP /\ level[c] + 1 = PRE_SMP_ENDLVL THEN "start" ELSE "levels")
    /\ UNCHANGED <<smpvars, ap_done_nr, init_freed, modvars, clk_fsecs>>

(* atomic_inc(&ap_done_nr) *)
ApDone(c) ==
    /\ c # BP /\ pc[c] = "levels" /\ level[c] = MAIN_LVL
    /\ ap_done_nr' = ap_done_nr + 1
    /\ Goto(c, "main_level")
    /\ UNCHANGED <<level, smpvars, init_freed, modvars, clk_fsecs>>

(* Mutant: one CPU too few. *)
AllDone_off_by_one == ap_done_nr >= N - 1

(* Mutant: CPU 0 counts itself. *)
AllDone_self == ap_done_nr = N + 1

AllDone == ap_done_nr = N

kernel_init_freeable ==
    /\ pc[BP] = "levels" /\ level[BP] = MAIN_LVL
    /\ AllDone
    /\ init_freed' = TRUE
    /\ Goto(BP, "main_level")
    /\ UNCHANGED <<level, smpvars, ap_done_nr, modvars, clk_fsecs>>

(* The initcalls of MAIN_LVL, then the loop around can_main_run. *)
MainLevel(c) ==
    /\ pc[c] = "main_level"
    /\ level' = [level EXCEPT ![c] = @ + 1]
    /\ Goto(c, "main")
    /\ UNCHANGED <<smpvars, ap_done_nr, init_freed, modvars, clk_fsecs>>

Init ==
    /\ pc = [c \in Cpus |-> IF c = BP THEN "levels" ELSE "off"]
    /\ level = [c \in Cpus |-> EARLY]
    /\ starting = 0
    /\ slot = None
    /\ stack = [c \in Cpus |-> IF c = BP THEN BP ELSE None]
    /\ status = [c \in Cpus |-> IF c = BP THEN 1 ELSE 0]
    /\ ap_done_nr = 0
    /\ init_freed = FALSE
    /\ mstatus = [m \in Modules |-> "INIT"]
    /\ pstatus = [c \in Cpus |-> [m \in Modules |-> "INIT"]]
    /\ times = [c \in Cpus |-> MaxTimes]
    /\ loads = [c \in Cpus |-> [m \in Modules |-> 0]]
    /\ clk_fsecs = FALSE

BpStep == StartAp \/ ApStarted \/ AllStarted \/ kernel_init_freeable

CpuStep(c) ==
    \/ init_module_call(c) \/ init_apic_timer_second(c) \/ do_initcall_level(c)
    \/ ApDone(c) \/ MainLevel(c)
    \/ entry64mp(c) \/ ap_main(c)
    \/ c = BP /\ BpStep

Next == \E c \in Cpus : CpuStep(c)

(* A CPU that was started executes its code; a level ends. *)
Spec == Init /\ [][Next]_vars /\ \A c \in Cpus : WF_vars(CpuStep(c))

-----------------------------------------------------------------------------
(* Properties *)

TypeOK ==
    /\ pc \in [Cpus -> {"off", "entry", "ap_main", "levels", "start", "wait", "main_level",
                        "main", "trap"}]
    /\ level \in [Cpus -> EARLY .. MAIN_LVL + 1]
    /\ starting \in 0 .. N
    /\ slot \in Aps \cup {None}
    /\ stack \in [Cpus -> Cpus \cup {None}]
    /\ status \in [Cpus -> {0, 1}]
    /\ ap_done_nr \in 0 .. N
    /\ init_freed \in BOOLEAN
    /\ mstatus \in [Modules -> {"INIT", "LOADED"}]
    /\ pstatus \in [Cpus -> [Modules -> {"INIT", "LOADED"}]]
    /\ times \in [Cpus -> 0 .. MaxTimes]
    /\ loads \in [Cpus -> [Modules -> 0 .. 2]]
    /\ clk_fsecs \in BOOLEAN

(* Every CPU starts on its own stack, although all of them find it in the   *)
(* same word: CPU 0 writes the next one only after the last was taken.     *)
OwnStack == \A c \in Aps : stack[c] \in {None, c}

(* The init sections are given back only when no CPU has initcalls of the   *)
(* levels before MAIN_LVL still to run, or has not even begun.             *)
InitMemoryKept == init_freed => \A c \in Cpus : level[c] >= MAIN_LVL

(* A CPU loads a module after CPU 0 has, and does not load one again that   *)
(* it has loaded, however many rounds others ask for.                      *)
LoadedInOrder ==
    \A c \in Aps : \A m \in Modules :
        /\ loads[c][m] <= 1
        /\ loads[c][m] = 1 => loads[BP][m] >= 1

(* Nobody waits for ever: all CPUs get to their main loop, unless one of    *)
(* them met a clock that was not measured yet, and trapped.                *)
BootEnds ==
    \/ <>[](\A c \in Cpus : pc[c] = "main")
    \/ <>(\E c \in Cpus : pc[c] = "trap")
=============================================================================
