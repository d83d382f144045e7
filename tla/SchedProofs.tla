---------------------------- MODULE SchedProofs ----------------------------
(***************************************************************************)
(* What TLAPS proves of Sched, for every set of softirqs, every restart     *)
(* budget and every nesting bound.  ChainComplete and SoftirqExclusive are  *)
(* not inductive by themselves: ThreadInv says which threads can have       *)
(* activations on their stacks and FrameInv where on the chain of parents   *)
(* the unfinished softirq can be.                                          *)
(***************************************************************************)
EXTENDS Sched, TLAPS

Stacks == [Threads -> Seq(Frame)]

(* Position i of thread t's stack is a softirq activation. *)
SoftAt(F, t, i) == i \in 1 .. Len(F[t]) /\ F[t][i].kind = "softirq"

HasSoftirq(t) == \E i \in Nat : SoftAt(frames, t, i)

(* A thread that runs has a parent, one not yet started is not suspended,   *)
(* and neither a suspended thread nor one not yet started has activations   *)
(* on its stack.  Until the tasklet thread is started the main thread runs. *)
ThreadInv ==
    /\ \A t \in Threads : state[t] = "RUN" => parent[t] \in Threads
    /\ \A t \in Threads : state[t] = "INIT" => ~suspended[t]
    /\ \A t \in Threads : suspended[t] \/ state[t] = "INIT" => frames[t] = << >>
    /\ pc["kmain"] = "boot" =>
           /\ state["taskletd"] = "INIT" /\ current = "kmain"
           /\ frames["idle"] = << >>

(* While the tasklet thread is on the chain, an unfinished softirq is on    *)
(* its own stack or on that of the main thread above it: never below.       *)
FrameInv ==
    \A u \in Threads : HasSoftirq(u) /\ state["taskletd"] = "RUN" /\ ~suspended["taskletd"]
        => u = "taskletd" \/ (u = "kmain" /\ parent["kmain"] = "taskletd")

Inv == /\ TypeOK
       /\ ThreadInv
       /\ ChainComplete
       /\ SoftirqExclusive
       /\ FrameInv
       /\ SleeperHasTimer
-----------------------------------------------------------------------------
(* Operations on a stack *)

(* Pushing an activation keeps the stacks well typed and adds a softirq     *)
(* activation only if it is one.                                           *)
LEMMA PushStack ==
    ASSUME NEW F \in Stacks, NEW c \in Threads, NEW f \in Frame
    PROVE  LET G == [F EXCEPT ![c] = Append(@, f)]
           IN  /\ G \in Stacks
               /\ \A t \in Threads, i \in Nat :
                      SoftAt(G, t, i) <=>
                          SoftAt(F, t, i) \/ (t = c /\ i = Len(F[c]) + 1 /\ f.kind = "softirq")
  <1> DEFINE G == [F EXCEPT ![c] = Append(@, f)]
  <1>1. F[c] \in Seq(Frame)  BY DEF Stacks
  <1>2. Append(F[c], f) \in Seq(Frame) /\ Len(Append(F[c], f)) = Len(F[c]) + 1
    BY <1>1
  <1>3. \A i \in 1 .. Len(F[c]) : Append(F[c], f)[i] = F[c][i]
    BY <1>1
  <1>4. Append(F[c], f)[Len(F[c]) + 1] = f
    BY <1>1
  <1>5. G \in Stacks  BY <1>2 DEF Stacks
  <1>6. ASSUME NEW t \in Threads, NEW i \in Nat
        PROVE  SoftAt(G, t, i) <=>
                   SoftAt(F, t, i) \/ (t = c /\ i = Len(F[c]) + 1 /\ f.kind = "softirq")
    <2>1. CASE t # c
      BY <2>1 DEF SoftAt, Stacks
    <2>2. CASE t = c
      <3>1. G[c] = Append(F[c], f)  BY DEF Stacks
      <3>2. Len(F[c]) \in Nat  BY <1>1
      <3> QED  BY <2>2, <3>1, <3>2, <1>2, <1>3, <1>4 DEF SoftAt
    <2> QED  BY <2>1, <2>2
  <1> QED  BY <1>5, <1>6

(* Popping takes the top activation away. *)
LEMMA PopStack ==
    ASSUME NEW F \in Stacks, NEW c \in Threads, Len(F[c]) > 0
    PROVE  LET G == [F EXCEPT ![c] = SubSeq(@, 1, Len(@) - 1)]
           IN  /\ G \in Stacks
               /\ \A t \in Threads, i \in Nat :
                      SoftAt(G, t, i) <=> SoftAt(F, t, i) /\ ~(t = c /\ i = Len(F[c]))
  <1> DEFINE G == [F EXCEPT ![c] = SubSeq(@, 1, Len(@) - 1)]
  <1>1. F[c] \in Seq(Frame) /\ Len(F[c]) \in Nat  BY DEF Stacks
  <1> DEFINE s == SubSeq(F[c], 1, Len(F[c]) - 1)
  <1>2. s \in Seq(Frame) /\ Len(s) = Len(F[c]) - 1
    BY <1>1
  <1>3. \A i \in 1 .. Len(F[c]) - 1 : s[i] = F[c][i]
    BY <1>1
  <1>4. G \in Stacks  BY <1>2 DEF Stacks
  <1>5. ASSUME NEW t \in Threads, NEW i \in Nat
        PROVE  SoftAt(G, t, i) <=> SoftAt(F, t, i) /\ ~(t = c /\ i = Len(F[c]))
    <2>1. CASE t # c
      BY <2>1 DEF SoftAt, Stacks
    <2>2. CASE t = c
      <3>1. G[c] = s  BY DEF Stacks
      <3> HIDE DEF s, G
      <3> QED  BY <2>2, <3>1, <1>1, <1>2, <1>3 DEF SoftAt
    <2> QED  BY <2>1, <2>2
  <1> QED  BY <1>4, <1>5

(* Replacing the top by an activation of the same kind changes no kind. *)
LEMMA ReplaceStack ==
    ASSUME NEW F \in Stacks, NEW c \in Threads, NEW f \in Frame, Len(F[c]) > 0,
           f.kind = F[c][Len(F[c])].kind
    PROVE  LET G == [F EXCEPT ![c] = [@ EXCEPT ![Len(@)] = f]]
           IN  /\ G \in Stacks
               /\ \A t \in Threads, i \in Nat : SoftAt(G, t, i) <=> SoftAt(F, t, i)
  <1> DEFINE G == [F EXCEPT ![c] = [@ EXCEPT ![Len(@)] = f]]
  <1> DEFINE s == [F[c] EXCEPT ![Len(F[c])] = f]
  <1>1. F[c] \in Seq(Frame) /\ Len(F[c]) \in Nat  BY DEF Stacks
  <1>2. s \in Seq(Frame) /\ Len(s) = Len(F[c])
    BY <1>1
  <1>3. \A i \in 1 .. Len(F[c]) : s[i] = IF i = Len(F[c]) THEN f ELSE F[c][i]
    BY <1>1
  <1>4. G \in Stacks  BY <1>2 DEF Stacks
  <1>5. ASSUME NEW t \in Threads, NEW i \in Nat
        PROVE  SoftAt(G, t, i) <=> SoftAt(F, t, i)
    <2>1. CASE t # c
      BY <2>1 DEF SoftAt, Stacks
    <2>2. CASE t = c
      <3>1. G[c] = s  BY DEF Stacks
      <3> HIDE DEF s, G
      <3> QED  BY <2>2, <3>1, <1>1, <1>2, <1>3 DEF SoftAt
    <2> QED  BY <2>1, <2>2
  <1> QED  BY <1>4, <1>5

-----------------------------------------------------------------------------
(* What a step does to the stacks *)

(* No softirq activation comes or goes. *)
StackSame ==
    /\ frames' \in Stacks
    /\ \A t \in Threads, i \in Nat : SoftAt(frames', t, i) <=> SoftAt(frames, t, i)
    /\ tasklet_count' = tasklet_count
    /\ \A t \in Threads : t # current => frames'[t] = frames[t]

(* A softirq activation appears on the running stack; there was none. *)
StackAdd ==
    /\ frames' \in Stacks
    /\ tasklet_count < 0
    /\ \E k \in Nat : \A t \in Threads, i \in Nat :
           SoftAt(frames', t, i) <=> SoftAt(frames, t, i) \/ (t = current /\ i = k)
    /\ tasklet_count' = tasklet_count + 1
    /\ \A t \in Threads : t # current => frames'[t] = frames[t]

(* A softirq activation of the running stack is over. *)
StackDel ==
    /\ frames' \in Stacks
    /\ \E k \in Nat :
           /\ SoftAt(frames, current, k)
           /\ \A t \in Threads, i \in Nat :
                  SoftAt(frames', t, i) <=> SoftAt(frames, t, i) /\ ~(t = current /\ i = k)
    /\ tasklet_count' = tasklet_count - 1
    /\ \A t \in Threads : t # current => frames'[t] = frames[t]

(* SoftirqExclusive in terms of SoftAt. *)
Exclusive(F, n) ==
    /\ \A t, u \in Threads, i, j \in Nat : SoftAt(F, t, i) /\ SoftAt(F, u, j) => t = u /\ i = j
    /\ n = IF \E t \in Threads, i \in Nat : SoftAt(F, t, i) THEN 0 ELSE -1

(* SoftirqExclusive in terms of positions: two softirq activations are one. *)
LEMMA ExclusiveSoftAt ==
    ASSUME frames \in Stacks
    PROVE  SoftirqExclusive <=> Exclusive(frames, tasklet_count)
  <1>1. \A t \in Threads : DOMAIN frames[t] = 1 .. Len(frames[t]) /\ Len(frames[t]) \in Nat
    BY DEF Stacks
  <1>2. \A t \in Threads : \A i : IsSoftirqFrame(t, i) <=> i \in Nat /\ SoftAt(frames, t, i)
    BY <1>1 DEF IsSoftirqFrame, SoftAt
  <1>3. \A t \in Threads : \A i : IsSoftirqFrame(t, i) => i \in DOMAIN frames[t]
    BY DEF IsSoftirqFrame
  <1> QED  BY <1>2, <1>3 DEF SoftirqExclusive, Exclusive

(* Whatever a step does to the stacks keeps SoftirqExclusive. *)
LEMMA ExclusiveKept ==
    ASSUME TypeOK, SoftirqExclusive, StackSame \/ StackAdd \/ StackDel
    PROVE  SoftirqExclusive'
  <1>1. frames \in Stacks /\ frames' \in Stacks /\ current \in Threads
    BY DEF TypeOK, Stacks, StackSame, StackAdd, StackDel
  <1>2. Exclusive(frames, tasklet_count)
    BY <1>1, ExclusiveSoftAt
  <1>3. Exclusive(frames', tasklet_count')
    <2>1. CASE StackSame
      BY <1>2, <2>1 DEF StackSame, Exclusive
    <2>2. CASE StackAdd
      <3>1. PICK k \in Nat : \A t \in Threads, i \in Nat :
                SoftAt(frames', t, i) <=> SoftAt(frames, t, i) \/ (t = current /\ i = k)
        BY <2>2 DEF StackAdd
      <3>2. \A t \in Threads, i \in Nat : ~SoftAt(frames, t, i)
        BY <1>2, <2>2 DEF StackAdd, Exclusive
      <3>3. tasklet_count = -1 /\ tasklet_count' = 0
        BY <1>2, <3>2, <2>2 DEF StackAdd, Exclusive
      <3> QED  BY <1>1, <3>1, <3>2, <3>3 DEF Exclusive
    <2>3. CASE StackDel
      <3>1. PICK k \in Nat :
                /\ SoftAt(frames, current, k)
                /\ \A t \in Threads, i \in Nat :
                     SoftAt(frames', t, i) <=> SoftAt(frames, t, i) /\ ~(t = current /\ i = k)
        BY <2>3 DEF StackDel
      <3>2. \A t \in Threads, i \in Nat : ~SoftAt(frames', t, i)
        BY <1>1, <1>2, <3>1 DEF Exclusive
      <3>3. tasklet_count = 0 /\ tasklet_count' = -1
        BY <1>1, <1>2, <3>1, <2>3 DEF StackDel, Exclusive
      <3> QED  BY <3>2, <3>3 DEF Exclusive
    <2> QED  BY <2>1, <2>2, <2>3
  <1>4. (SoftirqExclusive <=> Exclusive(frames, tasklet_count))'
    <2>1. \A t \in Threads : DOMAIN frames'[t] = 1 .. Len(frames'[t]) /\ Len(frames'[t]) \in Nat
      BY <1>1 DEF Stacks
    <2>2. \A t \in Threads : \A i : IsSoftirqFrame(t, i)' <=> i \in Nat /\ SoftAt(frames', t, i)
      BY <2>1 DEF IsSoftirqFrame, SoftAt
    <2>3. \A t \in Threads : \A i : IsSoftirqFrame(t, i)' => i \in DOMAIN frames'[t]
      BY DEF IsSoftirqFrame
    <2> QED  BY <2>2, <2>3 DEF SoftirqExclusive, Exclusive
  <1> QED  BY <1>3, <1>4

-----------------------------------------------------------------------------
(* The chain of parents.  Each lemma takes what a step does to the threads  *)
(* and to the stacks and gives back the parts of Inv about them.            *)

ChainParts == ThreadInv /\ ChainComplete /\ FrameInv

(* The running thread is started and not suspended. *)
LEMMA CurrentRuns ==
    ASSUME TypeOK, ChainComplete
    PROVE  /\ state[current] = "RUN" /\ ~suspended[current]
           /\ state["idle"] = "RUN" /\ ~suspended["idle"]
  BY DEF TypeOK, ChainComplete, OnChain, Threads

(* There are three threads, so the chain has one of these five shapes. *)
LEMMA ChainShapes ==
    ASSUME TypeOK, ThreadInv, ChainComplete
    PROVE  \/ current = "idle"
           \/ current \in {"kmain", "taskletd"} /\ parent[current] = "idle"
           \/ current = "kmain" /\ parent["kmain"] = "taskletd" /\ parent["taskletd"] = "idle"
           \/ current = "taskletd" /\ parent["taskletd"] = "kmain" /\ parent["kmain"] = "idle"
  <1>1. state[current] = "RUN"  BY CurrentRuns
  <1>2. current \in Threads /\ parent[current] \in Threads
    BY <1>1 DEF TypeOK, ThreadInv
  <1> QED  BY <1>2 DEF ChainComplete, OnChain, Threads

(* A step that switches no thread. *)
LEMMA KeptBySameThread ==
    ASSUME Inv, UNCHANGED threadvars, StackSame \/ StackAdd \/ StackDel,
           pc'["kmain"] = "boot" => pc["kmain"] = "boot"
    PROVE  ChainParts'
  <1>1. TypeOK /\ ThreadInv /\ ChainComplete /\ FrameInv  BY DEF Inv
  <1>2. /\ current' = current /\ parent' = parent
        /\ state' = state /\ suspended' = suspended
    BY DEF threadvars
  <1>3. \A t \in Threads : t # current => frames'[t] = frames[t]
    BY DEF StackSame, StackAdd, StackDel
  <1>4. state[current] = "RUN" /\ ~suspended[current] /\ current \in Threads
    BY <1>1, CurrentRuns DEF TypeOK
  <1>5. ThreadInv'
    BY <1>1, <1>2, <1>3, <1>4 DEF ThreadInv, Threads
  <1>6. ChainComplete'
    BY <1>1, <1>2 DEF ChainComplete, OnChain
  <1>7. FrameInv'
    <2>1. \A u \in Threads : HasSoftirq(u)' => HasSoftirq(u) \/ u = current
      <3>1. ASSUME NEW u \in Threads, u # current, HasSoftirq(u)'  PROVE HasSoftirq(u)
        BY <3>1, <1>3 DEF HasSoftirq, SoftAt
      <3> QED  BY <3>1
    <2>2. state["taskletd"] = "RUN" /\ ~suspended["taskletd"] =>
              current = "taskletd" \/ (current = "kmain" /\ parent["kmain"] = "taskletd")
      <3>1. ASSUME state["taskletd"] = "RUN", ~suspended["taskletd"]
            PROVE  current = "taskletd" \/ (current = "kmain" /\ parent["kmain"] = "taskletd")
        <4>1. OnChain("taskletd")  BY <1>1, <3>1 DEF ChainComplete, Threads
        <4> QED  BY <1>1, <4>1, ChainShapes DEF OnChain
      <3> QED  BY <3>1
    <2> QED  BY <1>1, <1>2, <2>1, <2>2 DEF FrameInv
  <1> QED  BY <1>5, <1>6, <1>7 DEF ChainParts

(* A step in which the main thread is woken and switched to. *)
LEMMA KeptByWakingKmain ==
    ASSUME Inv, WakeSwitches("kmain"), wake_up_thread("kmain"), StackSame, pc' = pc
    PROVE  ChainParts'
  <1>1. TypeOK /\ ThreadInv /\ ChainComplete /\ FrameInv  BY DEF Inv
  <1>2. /\ current' = "kmain" /\ parent' = [parent EXCEPT !["kmain"] = current]
        /\ state' = state /\ suspended' = [suspended EXCEPT !["kmain"] = FALSE]
    BY DEF wake_up_thread
  <1>3. state["kmain"] = "RUN" /\ suspended["kmain"] /\ current # "kmain"
    BY <1>1 DEF WakeSwitches, TypeOK, Threads
  <1>4. ~OnChain("kmain")  BY <1>1, <1>3 DEF ChainComplete, Threads
  <1>5. current = "idle" \/ (current = "taskletd" /\ parent["taskletd"] = "idle")
    BY <1>1, <1>3, <1>4, ChainShapes DEF OnChain
  <1>6. state[current] = "RUN" /\ ~suspended[current]  BY <1>1, CurrentRuns
  <1>7. frames["kmain"] = << >> /\ pc["kmain"] # "boot"
    BY <1>1, <1>3 DEF ThreadInv, Threads
  <1>8. parent'["kmain"] = current /\ parent'["taskletd"] = parent["taskletd"]
        /\ parent'["idle"] = parent["idle"]
    BY <1>1, <1>2 DEF TypeOK, Threads
  <1>9. ~suspended'["kmain"] /\ suspended'["taskletd"] = suspended["taskletd"]
        /\ suspended'["idle"] = suspended["idle"]
    BY <1>1, <1>2 DEF TypeOK, Threads
  <1>10. ThreadInv'
    <2>1. \A t \in Threads : t # current => frames'[t] = frames[t]  BY DEF StackSame
    <2>2. \A t \in Threads : state[t] = "RUN" => parent'[t] \in Threads
      BY <1>1, <1>5, <1>8 DEF ThreadInv, Threads
    <2>3. \A t \in Threads : state[t] = "INIT" => ~suspended'[t]
      BY <1>1, <1>9 DEF ThreadInv, Threads
    <2>4. \A t \in Threads : suspended'[t] \/ state[t] = "INIT" => frames'[t] = << >>
      BY <1>1, <1>3, <1>6, <1>9, <2>1 DEF ThreadInv, Threads
    <2> QED  BY <1>2, <1>7, <2>2, <2>3, <2>4 DEF ThreadInv
  <1>11. ChainComplete'
    <2>1. OnChain("taskletd") <=> current = "taskletd"  BY <1>5 DEF OnChain
    <2>2. current = "taskletd" <=> (state["taskletd"] = "RUN" /\ ~suspended["taskletd"])
      BY <1>1, <2>1 DEF ChainComplete, Threads
    <2>3. state["idle"] = "RUN" /\ ~suspended["idle"]  BY <1>1, CurrentRuns
    <2> QED  BY <1>2, <1>3, <1>5, <1>8, <1>9, <2>2, <2>3 DEF ChainComplete, OnChain, Threads
  <1>12. FrameInv'
    <2>1. \A u \in Threads : HasSoftirq(u)' <=> HasSoftirq(u)
      BY DEF StackSame, HasSoftirq
    <2>2. ~HasSoftirq("kmain")  BY <1>7 DEF HasSoftirq, SoftAt
    <2> QED  BY <1>1, <1>2, <1>9, <2>1, <2>2 DEF FrameInv, Threads
  <1> QED  BY <1>10, <1>11, <1>12 DEF ChainParts

(* A step that ends a softirq by switching to the tasklet thread. *)
LEMMA KeptByWakingTaskletd ==
    ASSUME Inv, WakeSwitches("taskletd"), wake_up_thread("taskletd"), StackDel, pc' = pc
    PROVE  ChainParts'
  <1>1. TypeOK /\ ThreadInv /\ ChainComplete /\ SoftirqExclusive  BY DEF Inv
  <1>2. /\ current' = "taskletd" /\ parent' = [parent EXCEPT !["taskletd"] = current]
        /\ state' = state /\ suspended' = [suspended EXCEPT !["taskletd"] = FALSE]
    BY DEF wake_up_thread
  <1>3. state["taskletd"] = "RUN" /\ suspended["taskletd"] /\ current # "taskletd"
    BY <1>1 DEF WakeSwitches, TypeOK, Threads
  <1>4. ~OnChain("taskletd")  BY <1>1, <1>3 DEF ChainComplete, Threads
  <1>5. current = "idle" \/ (current = "kmain" /\ parent["kmain"] = "idle")
    BY <1>1, <1>3, <1>4, ChainShapes DEF OnChain
  <1>6. state[current] = "RUN" /\ ~suspended[current]  BY <1>1, CurrentRuns
  <1>7. pc["kmain"] # "boot"  BY <1>1, <1>3 DEF ThreadInv
  <1>8. parent'["taskletd"] = current /\ parent'["kmain"] = parent["kmain"]
        /\ parent'["idle"] = parent["idle"]
    BY <1>1, <1>2 DEF TypeOK, Threads
  <1>9. ~suspended'["taskletd"] /\ suspended'["kmain"] = suspended["kmain"]
        /\ suspended'["idle"] = suspended["idle"]
    BY <1>1, <1>2 DEF TypeOK, Threads
  <1>10. ThreadInv'
    <2>1. \A t \in Threads : t # current => frames'[t] = frames[t]  BY DEF StackDel
    <2>2. \A t \in Threads : state[t] = "RUN" => parent'[t] \in Threads
      BY <1>1, <1>5, <1>8 DEF ThreadInv, Threads
    <2>3. \A t \in Threads : state[t] = "INIT" => ~suspended'[t]
      BY <1>1, <1>9 DEF ThreadInv, Threads
    <2>4. \A t \in Threads : suspended'[t] \/ state[t] = "INIT" => frames'[t] = << >>
      BY <1>1, <1>3, <1>6, <1>9, <2>1 DEF ThreadInv, Threads
    <2> QED  BY <1>2, <1>7, <2>2, <2>3, <2>4 DEF ThreadInv
  <1>11. ChainComplete'
    <2>1. OnChain("kmain") <=> current = "kmain"  BY <1>5 DEF OnChain
    <2>2. current = "kmain" <=> (state["kmain"] = "RUN" /\ ~suspended["kmain"])
      BY <1>1, <2>1 DEF ChainComplete, Threads
    <2>3. state["idle"] = "RUN" /\ ~suspended["idle"]  BY <1>1, CurrentRuns
    <2> QED  BY <1>2, <1>3, <1>5, <1>8, <1>9, <2>2, <2>3 DEF ChainComplete, OnChain, Threads
  <1>12. FrameInv'
    <2>1. Exclusive(frames, tasklet_count)
      BY <1>1, ExclusiveSoftAt DEF TypeOK, Stacks
    <2>2. PICK k \in Nat :
              /\ SoftAt(frames, current, k)
              /\ \A t \in Threads, i \in Nat :
                   SoftAt(frames', t, i) <=> SoftAt(frames, t, i) /\ ~(t = current /\ i = k)
      BY DEF StackDel
    <2>3. \A t \in Threads, i \in Nat : ~SoftAt(frames', t, i)
      BY <1>1, <2>1, <2>2 DEF Exclusive, TypeOK
    <2>4. \A u \in Threads : ~HasSoftirq(u)'  BY <2>3 DEF HasSoftirq
    <2> QED  BY <2>4 DEF FrameInv
  <1> QED  BY <1>10, <1>11, <1>12 DEF ChainParts

(* A step in which the running thread suspends, from its own code. *)
LEMMA KeptBySuspend ==
    ASSUME Inv, suspend_thread, current \in {"kmain", "taskletd"},
           frames[current] = << >>, frames' = frames, pc["kmain"] # "boot",
           pc'["kmain"] # "boot"
    PROVE  ChainParts' /\ current' \in Threads /\ state' = state
  <1>1. TypeOK /\ ThreadInv /\ ChainComplete /\ FrameInv  BY DEF Inv
  <1>2. OnChain(parent[current]) /\ parent[current] \in Threads
    BY <1>1, CurrentRuns DEF OnChain, ThreadInv, Threads
  <1>3. state[parent[current]] = "RUN" /\ ~suspended[parent[current]]
    BY <1>1, <1>2 DEF ChainComplete
  <1>4. /\ current' = parent[current] /\ parent' = parent
        /\ suspended' = [suspended EXCEPT ![current] = TRUE]
        /\ state' = [state EXCEPT ![parent[current]] = "RUN"]
    BY <1>3 DEF suspend_thread, Resumable
  <1>5. state' = state  BY <1>1, <1>3, <1>4 DEF TypeOK
  <1>6. \A t \in Threads : suspended'[t] = IF t = current THEN TRUE ELSE suspended[t]
    BY <1>1, <1>4 DEF TypeOK
  <1>7. state[current] = "RUN" /\ ~suspended[current]  BY <1>1, CurrentRuns
  <1>8. ThreadInv'
    BY <1>1, <1>4, <1>5, <1>6, <1>7 DEF ThreadInv
  <1>9. ChainComplete'
    <2>1. OnChain("idle")  BY <1>1 DEF ChainComplete
    <2>2. \A t \in Threads : OnChain(t) <=> (state[t] = "RUN" /\ ~suspended[t])
      BY <1>1 DEF ChainComplete
    <2>3. CASE parent[current] = "idle"
      BY <1>4, <1>5, <1>6, <2>2, <2>3 DEF ChainComplete, OnChain, Threads
    <2>4. CASE current = "kmain" /\ parent["kmain"] = "taskletd" /\ parent["taskletd"] = "idle"
      BY <1>4, <1>5, <1>6, <2>2, <2>4 DEF ChainComplete, OnChain, Threads
    <2>5. CASE current = "taskletd" /\ parent["taskletd"] = "kmain" /\ parent["kmain"] = "idle"
      BY <1>4, <1>5, <1>6, <2>2, <2>5 DEF ChainComplete, OnChain, Threads
    <2> QED  BY <1>1, <2>3, <2>4, <2>5, ChainShapes
  <1>10. FrameInv'
    <2>1. \A u \in Threads : HasSoftirq(u)' <=> HasSoftirq(u)
      BY DEF HasSoftirq
    <2>2. ~HasSoftirq(current)  BY DEF HasSoftirq, SoftAt
    <2> QED  BY <1>1, <1>4, <1>5, <1>6, <2>1, <2>2 DEF FrameInv, Threads
  <1> QED  BY <1>2, <1>4, <1>5, <1>8, <1>9, <1>10 DEF ChainParts

(* The step that starts the tasklet thread. *)
LEMMA KeptByStart ==
    ASSUME Inv, StartTaskletd
    PROVE  ChainParts'
  <1>1. TypeOK /\ ThreadInv /\ ChainComplete  BY DEF Inv
  <1>2. /\ current = "kmain" /\ frames["kmain"] = << >> /\ pc["kmain"] = "boot"
        /\ frames' = frames
    BY DEF StartTaskletd, AtThreadLevel
  <1>3. /\ current' = "taskletd" /\ parent' = [parent EXCEPT !["taskletd"] = "kmain"]
        /\ state' = [state EXCEPT !["taskletd"] = "RUN"] /\ suspended' = suspended
    BY <1>2 DEF StartTaskletd, resume_new_thread
  <1>4. state["taskletd"] = "INIT" /\ ~suspended["taskletd"]
    BY <1>1, <1>2 DEF ThreadInv, Threads
  <1>5. parent["kmain"] = "idle"
    BY <1>1, <1>2, <1>4, ChainShapes DEF ChainComplete, OnChain, Threads
  <1>6. \A t \in Threads : frames[t] = << >>
    BY <1>1, <1>2, <1>4 DEF ThreadInv, Threads
  <1>7. /\ state["kmain"] = "RUN" /\ ~suspended["kmain"]
        /\ state["idle"] = "RUN" /\ ~suspended["idle"]
    BY <1>1, <1>2, CurrentRuns
  <1>8. /\ parent'["taskletd"] = "kmain" /\ parent'["kmain"] = "idle"
        /\ parent'["idle"] = parent["idle"]
        /\ state'["taskletd"] = "RUN" /\ state'["kmain"] = "RUN" /\ state'["idle"] = "RUN"
    BY <1>1, <1>3, <1>5, <1>7 DEF TypeOK, Threads
  <1>9. pc'["kmain"] = "loop"
    BY <1>1 DEF StartTaskletd, TypeOK, Threads
  <1>10. ThreadInv'
    BY <1>1, <1>2, <1>3, <1>6, <1>7, <1>8, <1>9 DEF ThreadInv, Threads
  <1>11. ChainComplete'
    BY <1>3, <1>4, <1>7, <1>8 DEF ChainComplete, OnChain, Threads
  <1>12. FrameInv'
    BY <1>2, <1>6 DEF FrameInv, HasSoftirq, SoftAt
  <1> QED  BY <1>10, <1>11, <1>12 DEF ChainParts
-----------------------------------------------------------------------------
(* Each action *)

(* What one step has to show. *)
Kept == TypeOK' /\ ChainParts' /\ SoftirqExclusive' /\ SleeperHasTimer'

(* The activations __do_softirq and the handlers push are well typed. *)
LEMMA FrameTypes ==
    /\ IrqFrame \in Frame /\ IrqFrame.kind = "irq"
    /\ \A S \in SUBSET Softirqs, n \in 0 .. MaxRestart :
           SoftirqFrame(S, n) \in Frame /\ SoftirqFrame(S, n).kind = "softirq"
  BY RestartAssumption DEF IrqFrame, SoftirqFrame, Frame

(* irq_exit adds at most one softirq activation, and none if one is         *)
(* unfinished.  F are the stacks once the handler is off them.              *)
LEMMA IrqExitEffect ==
    ASSUME TypeOK, NEW P \in SUBSET Softirqs, NEW F \in Stacks, irq_exit(P, F),
           \A t \in Threads, i \in Nat : SoftAt(F, t, i) <=> SoftAt(frames, t, i),
           \A t \in Threads : t # current => F[t] = frames[t]
    PROVE  (StackSame \/ StackAdd) /\ pending' \in SUBSET Softirqs /\ tasklet_count' \in Int
  <1>1. current \in Threads /\ tasklet_count \in Int  BY DEF TypeOK
  <1>2. CASE ~in_tasklet /\ P # {}
    <2> DEFINE f == SoftirqFrame(P, MaxRestart)
               G == [F EXCEPT ![current] = Append(@, f)]
    <2>1. MaxRestart \in 0 .. MaxRestart  BY RestartAssumption
    <2>2. f \in Frame /\ f.kind = "softirq"  BY <2>1, FrameTypes
    <2>3. frames' = G /\ tasklet_count' = tasklet_count + 1 /\ pending' = {}
      BY <1>2 DEF irq_exit, EnterSoftirq
    <2> HIDE DEF f
    <2>4. /\ G \in Stacks
          /\ \A t \in Threads, i \in Nat :
               SoftAt(G, t, i) <=>
                   SoftAt(F, t, i) \/ (t = current /\ i = Len(F[current]) + 1 /\ f.kind = "softirq")
      BY <1>1, <2>2, PushStack
    <2>5. Len(F[current]) + 1 \in Nat  BY <1>1 DEF Stacks
    <2>6. \A t \in Threads : t # current => G[t] = frames[t]  BY DEF Stacks
    <2>7. tasklet_count < 0  BY <1>1, <1>2 DEF in_tasklet
    <2> HIDE DEF G
    <2>8. \A t \in Threads, i \in Nat :
               SoftAt(G, t, i) <=>
                   SoftAt(frames, t, i) \/ (t = current /\ i = Len(F[current]) + 1)
      BY <2>2, <2>4
    <2>9. StackAdd  BY <2>3, <2>4, <2>5, <2>6, <2>7, <2>8 DEF StackAdd
    <2> QED  BY <1>1, <2>3, <2>9
  <1>3. CASE ~(~in_tasklet /\ P # {})
    <2>1. frames' = F /\ pending' = P /\ tasklet_count' = tasklet_count
      BY <1>3 DEF irq_exit
    <2> QED  BY <1>1, <2>1 DEF StackSame
  <1> QED  BY <1>2, <1>3

(* The interrupts that switch no thread. *)
LEMMA KeptByIrq ==
    ASSUME Inv, LapicIrq \/ (\E s \in Softirqs : DeviceIrq(s))
    PROVE  Kept
  <1>1. TypeOK /\ SoftirqExclusive /\ SleeperHasTimer  BY DEF Inv
  <1>2. PICK P \in SUBSET Softirqs : irq_exit(P, frames)
    <2>1. pending \in SUBSET Softirqs /\ HRTIMER \in Softirqs
      BY <1>1, SoftirqAssumption DEF TypeOK
    <2>2. CASE LapicIrq
      <3>1. irq_exit(pending \cup {HRTIMER}, frames)  BY <2>2 DEF LapicIrq
      <3> QED  BY <2>1, <3>1
    <2>3. CASE \E s \in Softirqs : DeviceIrq(s)
      <3>1. PICK s \in Softirqs : irq_exit(pending \cup {s}, frames)
        BY <2>3 DEF DeviceIrq
      <3> QED  BY <2>1, <3>1
    <2> QED  BY <2>2, <2>3
  <1>3. frames \in Stacks  BY <1>1 DEF TypeOK, Stacks
  <1>4. (StackSame \/ StackAdd) /\ pending' \in SUBSET Softirqs /\ tasklet_count' \in Int
    BY <1>1, <1>2, <1>3, IrqExitEffect
  <1>5. /\ UNCHANGED threadvars /\ pc' = pc /\ sleep_timer' = sleep_timer
        /\ blk' = blk /\ hung' = hung /\ lapic' \in BOOLEAN
    BY <1>1 DEF LapicIrq, DeviceIrq, workvars, TypeOK
  <1>6. ChainParts'  BY <1>4, <1>5, KeptBySameThread
  <1>7. SoftirqExclusive'  BY <1>1, <1>4, ExclusiveKept
  <1>8. TypeOK'
    BY <1>1, <1>4, <1>5 DEF TypeOK, threadvars, StackSame, StackAdd, Stacks
  <1>9. SleeperHasTimer'  BY <1>1, <1>5 DEF SleeperHasTimer, threadvars
  <1> QED  BY <1>6, <1>7, <1>8, <1>9 DEF Kept

(* The threads' part of TypeOK after a wake-up. *)
LEMMA WakeTypes ==
    ASSUME TypeOK, NEW p \in Threads, wake_up_thread(p)
    PROVE  /\ current' \in Threads
           /\ parent' \in [Threads -> Threads \cup {"none"}]
           /\ state' \in [Threads -> {"INIT", "RUN"}]
           /\ suspended' \in [Threads -> BOOLEAN]
           /\ hung \in BOOLEAN /\ hung' \in BOOLEAN
  <1>1. CASE WakeSwitches(p)
    BY <1>1 DEF wake_up_thread, TypeOK
  <1>2. CASE ~WakeSwitches(p)
    <2>1. UNCHANGED threadvars /\ hung' = (WakeWalks(p) /\ ~WalkEnds(current))
      BY <1>2 DEF wake_up_thread
    <2>2. hung' \in BOOLEAN  BY <2>1
    <2> QED  BY <2>1, <2>2 DEF threadvars, TypeOK
  <1> QED  BY <1>1, <1>2

(* A completion of the disk, which may wake the main thread, keeps Inv. *)
LEMMA KeptByBlkIrq ==
    ASSUME Inv, BlkIrq
    PROVE  Kept
  <1>1. TypeOK /\ SoftirqExclusive /\ SleeperHasTimer  BY DEF Inv
  <1>2. /\ wake_up_thread("kmain") /\ pc' = pc /\ blk' = "none"
        /\ lapic' = lapic /\ sleep_timer' = sleep_timer
    BY DEF BlkIrq
  <1>3. frames \in Stacks /\ current \in Threads /\ "kmain" \in Threads
    BY <1>1 DEF TypeOK, Stacks, Threads
  <1>4. pending \in SUBSET Softirqs  BY <1>1 DEF TypeOK
  <1>5. CASE WakeSwitches("kmain")
    <2>1. /\ frames' = [frames EXCEPT ![current] = Append(@, IrqFrame)]
          /\ tasklet_count' = tasklet_count /\ pending' = pending
      BY <1>5 DEF BlkIrq, Push
    <2>2. /\ frames' \in Stacks
          /\ \A t \in Threads, i \in Nat : SoftAt(frames', t, i) <=> SoftAt(frames, t, i)
      BY <1>3, <2>1, FrameTypes, PushStack
    <2>3. \A t \in Threads : t # current => frames'[t] = frames[t]
      BY <1>3, <2>1 DEF Stacks
    <2>4. StackSame  BY <2>1, <2>2, <2>3 DEF StackSame
    <2>5. ChainParts'  BY <1>2, <1>5, <2>4, KeptByWakingKmain
    <2>6. SoftirqExclusive'  BY <1>1, <2>4, ExclusiveKept
    <2>7. TypeOK'
      BY <1>1, <1>2, <1>3, <2>1, <2>2, WakeTypes DEF TypeOK, Stacks
    <2>8. ~suspended'["kmain"]
      BY <1>1, <1>2, <1>3, <1>5 DEF wake_up_thread, TypeOK
    <2>9. SleeperHasTimer'  BY <2>8 DEF SleeperHasTimer
    <2> QED  BY <2>5, <2>6, <2>7, <2>9 DEF Kept
  <1>6. CASE ~WakeSwitches("kmain")
    <2>1. irq_exit(pending, frames)  BY <1>6 DEF BlkIrq
    <2>2. (StackSame \/ StackAdd) /\ pending' \in SUBSET Softirqs /\ tasklet_count' \in Int
      BY <1>1, <1>3, <1>4, <2>1, IrqExitEffect
    <2>3. UNCHANGED threadvars  BY <1>2, <1>6 DEF wake_up_thread
    <2>4. ChainParts'  BY <1>2, <2>2, <2>3, KeptBySameThread
    <2>5. SoftirqExclusive'  BY <1>1, <2>2, ExclusiveKept
    <2>6. TypeOK'
      BY <1>1, <1>2, <1>3, <2>2, WakeTypes DEF TypeOK, StackSame, StackAdd, Stacks
    <2>7. SleeperHasTimer'  BY <1>1, <1>2, <2>3 DEF SleeperHasTimer, threadvars
    <2> QED  BY <2>4, <2>5, <2>6, <2>7 DEF Kept
  <1> QED  BY <1>5, <1>6

(* The return from a device handler, irq_exit included, keeps Inv. *)
LEMMA KeptByIrqReturn ==
    ASSUME Inv, IrqReturn
    PROVE  Kept
  <1>1. TypeOK /\ SoftirqExclusive /\ SleeperHasTimer  BY DEF Inv
  <1>2. frames \in Stacks /\ current \in Threads /\ pending \in SUBSET Softirqs
    BY <1>1 DEF TypeOK, Stacks
  <1>3. Len(frames[current]) > 0 /\ frames[current][Len(frames[current])].kind = "irq"
    BY DEF IrqReturn, Running, Depth, Top
  <1>4. /\ UNCHANGED threadvars /\ pc' = pc /\ lapic' = lapic
        /\ sleep_timer' = sleep_timer /\ blk' = blk /\ hung' = hung
    BY DEF IrqReturn, workvars
  <1>5. /\ Pop \in Stacks
        /\ \A t \in Threads, i \in Nat :
             SoftAt(Pop, t, i) <=> SoftAt(frames, t, i) /\ ~(t = current /\ i = Len(frames[current]))
    BY <1>2, <1>3, PopStack DEF Pop
  <1>6. \A t \in Threads, i \in Nat : SoftAt(Pop, t, i) <=> SoftAt(frames, t, i)
    BY <1>3, <1>5 DEF SoftAt
  <1>7. \A t \in Threads : t # current => Pop[t] = frames[t]
    BY <1>2 DEF Pop, Stacks
  <1>8. irq_exit(pending, Pop)  BY DEF IrqReturn
  <1>9. (StackSame \/ StackAdd) /\ pending' \in SUBSET Softirqs /\ tasklet_count' \in Int
    BY <1>1, <1>2, <1>5, <1>6, <1>7, <1>8, IrqExitEffect
  <1>10. ChainParts'  BY <1>4, <1>9, KeptBySameThread
  <1>11. SoftirqExclusive'  BY <1>1, <1>9, ExclusiveKept
  <1>12. TypeOK'
    BY <1>1, <1>4, <1>9 DEF TypeOK, threadvars, StackSame, StackAdd, Stacks
  <1>13. SleeperHasTimer'  BY <1>1, <1>4 DEF SleeperHasTimer, threadvars
  <1> QED  BY <1>10, <1>11, <1>12, <1>13 DEF Kept

(* sleep_callback, which switches to the sleeper, keeps Inv. *)
LEMMA KeptBySleepCallback ==
    ASSUME Inv, SleepCallback
    PROVE  Kept
  <1>1. TypeOK /\ SoftirqExclusive  BY DEF Inv
  <1>2. /\ wake_up_thread("kmain") /\ pc' = pc /\ frames' = frames
        /\ tasklet_count' = tasklet_count /\ pending' = pending
        /\ lapic' = lapic /\ blk' = blk /\ sleep_timer' = FALSE
    BY DEF SleepCallback
  <1>3. frames \in Stacks /\ current \in Threads /\ "kmain" \in Threads
    BY <1>1 DEF TypeOK, Stacks, Threads
  <1>4. StackSame  BY <1>2, <1>3 DEF StackSame
  <1>5. TypeOK'  BY <1>1, <1>2, <1>3, WakeTypes DEF TypeOK
  <1>6. SoftirqExclusive'  BY <1>1, <1>4, ExclusiveKept
  <1>7. CASE WakeSwitches("kmain")
    <2>1. ChainParts'  BY <1>2, <1>4, <1>7, KeptByWakingKmain
    <2>2. ~suspended'["kmain"]
      BY <1>1, <1>2, <1>3, <1>7 DEF wake_up_thread, TypeOK
    <2> QED  BY <1>5, <1>6, <2>1, <2>2 DEF Kept, SleeperHasTimer
  <1>8. CASE ~WakeSwitches("kmain")
    <2>1. UNCHANGED threadvars  BY <1>2, <1>8 DEF wake_up_thread
    <2>2. ChainParts'  BY <1>2, <1>4, <2>1, KeptBySameThread
    (* The main thread is running or is below the running one: it is not
       suspended, so there is no sleeper left without a timer. *)
    <2>3. ~suspended["kmain"]
      <3>1. CASE current = "kmain"
        BY <3>1, CurrentRuns DEF Inv
      <3>2. CASE current # "kmain"
        <4>1. state["kmain"] = "INIT" => ~suspended["kmain"]
          BY <1>3 DEF Inv, ThreadInv
        <4> QED  BY <1>8, <3>2, <4>1 DEF WakeSwitches
      <3> QED  BY <3>1, <3>2
    <2> QED  BY <1>5, <1>6, <2>1, <2>2, <2>3 DEF Kept, SleeperHasTimer, threadvars
  <1> QED  BY <1>7, <1>8

(* The steps of a softirq that neither end it nor switch threads. *)
LEMMA KeptByTickCallback ==
    ASSUME Inv, TickCallback
    PROVE  Kept
  <1>1. TypeOK /\ SoftirqExclusive /\ SleeperHasTimer  BY DEF Inv
  <1>2. /\ UNCHANGED threadvars /\ pc' = pc /\ frames' = frames
        /\ tasklet_count' = tasklet_count /\ pending' = pending \cup {TIMER}
        /\ lapic' = TRUE /\ sleep_timer' = sleep_timer /\ blk' = blk /\ hung' = hung
    BY DEF TickCallback
  <1>3. StackSame  BY <1>1, <1>2 DEF StackSame, TypeOK, Stacks
  <1>4. ChainParts'  BY <1>2, <1>3, KeptBySameThread
  <1>5. SoftirqExclusive'  BY <1>1, <1>3, ExclusiveKept
  <1>6. TypeOK'  BY <1>1, <1>2, SoftirqAssumption DEF TypeOK, threadvars
  <1>7. SleeperHasTimer'  BY <1>1, <1>2 DEF SleeperHasTimer, threadvars
  <1> QED  BY <1>4, <1>5, <1>6, <1>7 DEF Kept

(* Replacing the running softirq's activation by one with other locals. *)
LEMMA ReplaceEffect ==
    ASSUME TypeOK, Running("softirq"), NEW f \in Frame, f.kind = "softirq",
           frames' = Replace(f), tasklet_count' = tasklet_count
    PROVE  StackSame
  <1>1. frames \in Stacks /\ current \in Threads  BY DEF TypeOK, Stacks
  <1>2. Len(frames[current]) > 0 /\ frames[current][Len(frames[current])].kind = "softirq"
    BY DEF Running, Depth, Top
  <1>3. frames' = [frames EXCEPT ![current] = [@ EXCEPT ![Len(@)] = f]]  BY DEF Replace
  <1>4. /\ frames' \in Stacks
        /\ \A t \in Threads, i \in Nat : SoftAt(frames', t, i) <=> SoftAt(frames, t, i)
    <2>1. /\ Replace(f) \in Stacks
          /\ \A t \in Threads, i \in Nat : SoftAt(Replace(f), t, i) <=> SoftAt(frames, t, i)
      BY ONLY f \in Frame, f.kind = "softirq", <1>1, <1>2, ReplaceStack DEF Replace
    <2> QED  BY ONLY <2>1, frames' = Replace(f)
  <1>5. \A t \in Threads : t # current => frames'[t] = frames[t]
    BY <1>1, <1>3 DEF Stacks
  <1> QED  BY <1>4, <1>5 DEF StackSame

(* The activation on top of a stack is well typed. *)
LEMMA TopIsFrame ==
    ASSUME TypeOK, Depth > 0
    PROVE  Top \in Frame
  BY DEF TypeOK, Depth, Top

(* The end of one softirq action keeps Inv. *)
LEMMA KeptByFinishAction ==
    ASSUME Inv, FinishAction
    PROVE  Kept
  <1>1. TypeOK /\ SoftirqExclusive /\ SleeperHasTimer  BY DEF Inv
  <1> DEFINE f == [Top EXCEPT !.todo = @ \ {NextAction}]
  <1>2. /\ UNCHANGED threadvars /\ pc' = pc /\ tasklet_count' = tasklet_count
        /\ sleep_timer' = sleep_timer /\ blk' = blk /\ hung' = hung
        /\ frames' = Replace(f) /\ Running("softirq")
    BY DEF FinishAction, InAction
  <1>3. Top \in Frame /\ Top.kind = "softirq"  BY <1>1, <1>2, TopIsFrame DEF Running
  <1>4. f \in Frame /\ f.kind = "softirq"  BY <1>3 DEF Frame
  <1>5. pending' \in SUBSET Softirqs /\ lapic' \in BOOLEAN
    BY <1>1, SoftirqAssumption DEF FinishAction, tasklet_action_again, TimerLeftArmed, TypeOK
  <1> HIDE DEF f
  <1>6. StackSame  BY <1>1, <1>2, <1>4, ReplaceEffect
  <1>7. ChainParts'  BY <1>2, <1>6, KeptBySameThread
  <1>8. SoftirqExclusive'  BY <1>1, <1>6, ExclusiveKept
  <1>9. TypeOK'  BY <1>1, <1>2, <1>5, <1>6 DEF TypeOK, threadvars, StackSame, Stacks
  <1>10. SleeperHasTimer'  BY <1>1, <1>2 DEF SleeperHasTimer, threadvars
  <1> QED  BY <1>7, <1>8, <1>9, <1>10 DEF Kept

(* The restart of __do_softirq for what was raised keeps Inv. *)
LEMMA KeptBySoftirqRestart ==
    ASSUME Inv, SoftirqRestart
    PROVE  Kept
  <1>1. TypeOK /\ SoftirqExclusive /\ SleeperHasTimer  BY DEF Inv
  <1> DEFINE f == SoftirqFrame(pending, Top.left - 1)
  <1>2. /\ UNCHANGED threadvars /\ pc' = pc /\ tasklet_count' = tasklet_count
        /\ UNCHANGED workvars /\ hung' = hung /\ pending' = {}
        /\ frames' = Replace(f) /\ Running("softirq") /\ Top.left > 1
    BY DEF SoftirqRestart
  <1>3. Top \in Frame  BY <1>1, <1>2, TopIsFrame DEF Running
  <1>4. Top.left - 1 \in 0 .. MaxRestart  BY <1>2, <1>3, RestartAssumption DEF Frame
  <1>5. f \in Frame /\ f.kind = "softirq"  BY <1>1, <1>4, FrameTypes DEF TypeOK
  <1> HIDE DEF f
  <1>6. StackSame  BY <1>1, <1>2, <1>5, ReplaceEffect
  <1>7. ChainParts'  BY <1>2, <1>6, KeptBySameThread
  <1>8. SoftirqExclusive'  BY <1>1, <1>6, ExclusiveKept
  <1>9. TypeOK'  BY <1>1, <1>2, <1>6 DEF TypeOK, threadvars, workvars, StackSame, Stacks
  <1>10. SleeperHasTimer'  BY <1>1, <1>2 DEF SleeperHasTimer, threadvars, workvars
  <1> QED  BY <1>7, <1>8, <1>9, <1>10 DEF Kept

(* Both ends of __do_softirq take its activation off the running stack. *)
LEMMA PopEffect ==
    ASSUME TypeOK, Running("softirq"), frames' = Pop, tasklet_count' = tasklet_count - 1
    PROVE  StackDel
  <1>1. frames \in Stacks /\ current \in Threads  BY DEF TypeOK, Stacks
  <1>2. Len(frames[current]) > 0 /\ frames[current][Len(frames[current])].kind = "softirq"
        /\ Len(frames[current]) \in Nat
    BY <1>1 DEF Running, Depth, Top, Stacks
  <1>3. frames' = [frames EXCEPT ![current] = SubSeq(@, 1, Len(@) - 1)]  BY DEF Pop
  <1>4. /\ frames' \in Stacks
        /\ \A t \in Threads, i \in Nat :
             SoftAt(frames', t, i) <=>
                 SoftAt(frames, t, i) /\ ~(t = current /\ i = Len(frames[current]))
    <2>1. /\ Pop \in Stacks
          /\ \A t \in Threads, i \in Nat :
               SoftAt(Pop, t, i) <=>
                   SoftAt(frames, t, i) /\ ~(t = current /\ i = Len(frames[current]))
      BY ONLY <1>1, <1>2, PopStack DEF Pop
    <2> QED  BY ONLY <2>1, frames' = Pop
  <1>5. SoftAt(frames, current, Len(frames[current]))  BY <1>2 DEF SoftAt
  <1>6. \A t \in Threads : t # current => frames'[t] = frames[t]
    BY <1>1, <1>3 DEF Stacks
  <1> QED  BY <1>2, <1>4, <1>5, <1>6 DEF StackDel

(* The end of __do_softirq with nothing pending keeps Inv. *)
LEMMA KeptBySoftirqDone ==
    ASSUME Inv, SoftirqDone
    PROVE  Kept
  <1>1. TypeOK /\ SoftirqExclusive /\ SleeperHasTimer  BY DEF Inv
  <1>2. /\ UNCHANGED threadvars /\ pc' = pc /\ tasklet_count' = tasklet_count - 1
        /\ UNCHANGED workvars /\ hung' = hung /\ pending' = pending
        /\ frames' = Pop /\ Running("softirq")
    BY DEF SoftirqDone
  <1>3. StackDel  BY <1>1, <1>2, PopEffect
  <1>4. ChainParts'  BY <1>2, <1>3, KeptBySameThread
  <1>5. SoftirqExclusive'  BY <1>1, <1>3, ExclusiveKept
  <1>6. TypeOK'  BY <1>1, <1>2, <1>3 DEF TypeOK, threadvars, workvars, StackDel, Stacks
  <1>7. SleeperHasTimer'  BY <1>1, <1>2 DEF SleeperHasTimer, threadvars, workvars
  <1> QED  BY <1>4, <1>5, <1>6, <1>7 DEF Kept

(* The hand-over to the tasklet thread keeps Inv. *)
LEMMA KeptBySoftirqGiveUp ==
    ASSUME Inv, SoftirqGiveUp
    PROVE  Kept
  <1>1. TypeOK /\ SoftirqExclusive /\ SleeperHasTimer  BY DEF Inv
  <1>2. /\ pc' = pc /\ tasklet_count' = tasklet_count - 1
        /\ UNCHANGED workvars /\ pending' = pending
        /\ frames' = Pop /\ Running("softirq") /\ wakeup_taskletd
    BY DEF SoftirqGiveUp
  <1>3. StackDel  BY <1>1, <1>2, PopEffect
  <1>4. SoftirqExclusive'  BY <1>1, <1>3, ExclusiveKept
  <1>5. "taskletd" \in Threads  BY DEF Threads
  <1>6. CASE suspended["taskletd"] /\ WakeSwitches("taskletd")
    <2>1. wake_up_thread("taskletd")  BY <1>2, <1>6 DEF wakeup_taskletd
    <2>2. ChainParts'  BY <1>2, <1>3, <1>6, <2>1, KeptByWakingTaskletd
    <2>3. TypeOK'
      BY <1>1, <1>2, <1>3, <1>5, <2>1, WakeTypes DEF TypeOK, workvars, StackDel, Stacks
    <2>4. suspended'["kmain"] = suspended["kmain"]
      BY <1>1, <1>6, <2>1 DEF wake_up_thread, TypeOK, Threads
    <2>5. SleeperHasTimer'  BY <1>1, <1>2, <2>4 DEF SleeperHasTimer, workvars
    <2> QED  BY <1>4, <2>2, <2>3, <2>5 DEF Kept
  <1>7. CASE ~(suspended["taskletd"] /\ WakeSwitches("taskletd"))
    <2>1. UNCHANGED threadvars  BY <1>2, <1>7 DEF wakeup_taskletd, wake_up_thread
    <2>2. hung' \in BOOLEAN
      BY <1>1, <1>2, <1>5, WakeTypes DEF wakeup_taskletd, TypeOK
    <2>3. ChainParts'  BY <1>2, <1>3, <2>1, KeptBySameThread
    <2>4. TypeOK'
      BY <1>1, <1>2, <1>3, <2>1, <2>2 DEF TypeOK, threadvars, workvars, StackDel, Stacks
    <2>5. SleeperHasTimer'  BY <1>1, <1>2, <2>1 DEF SleeperHasTimer, threadvars, workvars
    <2> QED  BY <1>4, <2>3, <2>4, <2>5 DEF Kept
  <1> QED  BY <1>6, <1>7

(* The steps that move a program counter only. *)
LEMMA KeptByCounter ==
    ASSUME Inv, TaskletdCheck \/ BlkSubmit \/ BlockingReturn
    PROVE  Kept
  <1>1. TypeOK /\ SoftirqExclusive /\ SleeperHasTimer  BY DEF Inv
  <1>2. /\ UNCHANGED threadvars /\ frames' = frames /\ tasklet_count' = tasklet_count
        /\ pending' = pending /\ lapic' = lapic /\ sleep_timer' = sleep_timer
        /\ blk' \in {"none", "queued"} /\ hung' = hung
    BY <1>1 DEF TaskletdCheck, BlkSubmit, BlockingReturn, workvars, TypeOK
  <1>3. /\ pc' \in [Threads -> {"boot", "loop", "nsleep", "submitted", "blkread",
                                "check", "fn", "suspend"}]
        /\ pc'["kmain"] = pc["kmain"] \/ pc'["kmain"] \in {"loop", "submitted"}
    BY <1>1 DEF TaskletdCheck, BlkSubmit, BlockingReturn, TypeOK, Threads
  <1>4. StackSame  BY <1>1, <1>2 DEF StackSame, TypeOK, Stacks
  <1>5. ChainParts'  BY <1>2, <1>3, <1>4, KeptBySameThread
  <1>6. SoftirqExclusive'  BY <1>1, <1>4, ExclusiveKept
  <1>7. TypeOK'  BY <1>1, <1>2, <1>3 DEF TypeOK, threadvars
  <1>8. SleeperHasTimer'  BY <1>1, <1>2, <1>3 DEF SleeperHasTimer, threadvars
  <1> QED  BY <1>5, <1>6, <1>7, <1>8 DEF Kept

(* run_ksoftirqd does not ask in_tasklet, and need not: when the tasklet    *)
(* thread runs its own code, FrameInv leaves no stack an unfinished softirq *)
(* can be on.                                                              *)
LEMMA TaskletdHasNoSoftirq ==
    ASSUME Inv, AtThreadLevel("taskletd")
    PROVE  tasklet_count = -1
  <1>1. TypeOK /\ ThreadInv /\ ChainComplete /\ SoftirqExclusive /\ FrameInv  BY DEF Inv
  <1>2. current = "taskletd" /\ frames["taskletd"] = << >>  BY DEF AtThreadLevel
  <1>3. state["taskletd"] = "RUN" /\ ~suspended["taskletd"]  BY <1>1, <1>2, CurrentRuns
  <1>4. ~HasSoftirq("taskletd")  BY <1>2 DEF HasSoftirq, SoftAt
  <1>5. parent["kmain"] = "taskletd" => frames["kmain"] = << >>
    <2>1. SUFFICES ASSUME parent["kmain"] = "taskletd"
                   PROVE  frames["kmain"] = << >>
      OBVIOUS
    <2>2. ~OnChain("kmain")
      BY <1>1, <1>2, <2>1, ChainShapes DEF OnChain
    <2>3. suspended["kmain"] \/ state["kmain"] = "INIT"
      BY <1>1, <2>2 DEF ChainComplete, TypeOK, Threads
    <2> QED  BY <1>1, <2>3 DEF ThreadInv, Threads
  <1>6. \A u \in Threads : ~HasSoftirq(u)
    <2>1. parent["kmain"] = "taskletd" => ~HasSoftirq("kmain")
      BY <1>5 DEF HasSoftirq, SoftAt
    <2> QED  BY <1>1, <1>3, <1>4, <2>1 DEF FrameInv
  <1>7. Exclusive(frames, tasklet_count)  BY <1>1, ExclusiveSoftAt DEF TypeOK, Stacks
  <1> QED  BY <1>6, <1>7 DEF Exclusive, HasSoftirq

(* The softirq the tasklet thread starts keeps Inv. *)
LEMMA KeptByRunKsoftirqd ==
    ASSUME Inv, run_ksoftirqd
    PROVE  Kept
  <1>1. TypeOK /\ SoftirqExclusive /\ SleeperHasTimer  BY DEF Inv
  <1>2. /\ UNCHANGED threadvars /\ UNCHANGED workvars /\ hung' = hung
        /\ AtThreadLevel("taskletd")
        /\ pc' = [pc EXCEPT !["taskletd"] = "suspend"]
    BY DEF run_ksoftirqd
  <1>3. pc'["kmain"] = pc["kmain"]  BY <1>1, <1>2 DEF TypeOK, Threads
  <1>4. frames \in Stacks /\ current \in Threads /\ pending \in SUBSET Softirqs
    BY <1>1 DEF TypeOK, Stacks
  <1>5. (StackSame \/ StackAdd) /\ pending' \in SUBSET Softirqs /\ tasklet_count' \in Int
    <2>1. CASE pending = {}
      BY <1>1, <1>4, <2>1 DEF run_ksoftirqd, StackSame, TypeOK
    <2>2. CASE pending # {}
      <3> DEFINE f == SoftirqFrame(pending, MaxRestart)
                 G == [frames EXCEPT ![current] = Append(@, f)]
      <3>1. MaxRestart \in 0 .. MaxRestart  BY RestartAssumption
      <3>2. f \in Frame /\ f.kind = "softirq"  BY <1>4, <3>1, FrameTypes
      <3>3. frames' = G /\ tasklet_count' = tasklet_count + 1 /\ pending' = {}
        BY <2>2 DEF run_ksoftirqd, EnterSoftirq, Push
      <3> HIDE DEF f
      <3>4. /\ G \in Stacks
            /\ \A t \in Threads, i \in Nat :
                 SoftAt(G, t, i) <=> SoftAt(frames, t, i)
                     \/ (t = current /\ i = Len(frames[current]) + 1 /\ f.kind = "softirq")
        BY ONLY <1>4, <3>2, PushStack
      <3>5. Len(frames[current]) + 1 \in Nat  BY <1>4 DEF Stacks
      <3>6. \A t \in Threads : t # current => G[t] = frames[t]  BY <1>4 DEF Stacks
      <3>7. tasklet_count = -1  BY <1>2, TaskletdHasNoSoftirq
      <3> HIDE DEF G
      <3>8. \A t \in Threads, i \in Nat :
                 SoftAt(G, t, i) <=>
                     SoftAt(frames, t, i) \/ (t = current /\ i = Len(frames[current]) + 1)
        BY <3>2, <3>4
      <3>9. tasklet_count < 0 /\ tasklet_count' \in Int  BY <3>3, <3>7
      <3>10. StackAdd  BY <3>3, <3>4, <3>5, <3>6, <3>8, <3>9 DEF StackAdd
      <3> QED  BY <3>3, <3>9, <3>10
    <2> QED  BY <2>1, <2>2
  <1>6. ChainParts'  BY <1>2, <1>3, <1>5, KeptBySameThread
  <1>7. SoftirqExclusive'  BY <1>1, <1>5, ExclusiveKept
  <1>8. TypeOK'
    BY <1>1, <1>2, <1>5 DEF TypeOK, threadvars, workvars, StackSame, StackAdd, Stacks
  <1>9. SleeperHasTimer'  BY <1>1, <1>2, <1>3 DEF SleeperHasTimer, threadvars, workvars
  <1> QED  BY <1>6, <1>7, <1>8, <1>9 DEF Kept

(* The three steps in which a thread suspends. *)
LEMMA KeptBySuspending ==
    ASSUME Inv, TaskletdSuspend \/ nsleep \/ BlkSuspend
    PROVE  Kept
  <1>1. TypeOK /\ ThreadInv /\ SoftirqExclusive /\ SleeperHasTimer  BY DEF Inv
  <1>2. /\ suspend_thread /\ frames' = frames /\ tasklet_count' = tasklet_count
        /\ pending' = pending /\ lapic' = lapic /\ blk' = blk /\ hung' = hung
        /\ sleep_timer' \in BOOLEAN
    BY <1>1 DEF TaskletdSuspend, nsleep, BlkSuspend, workvars, TypeOK
  <1>3. current \in {"kmain", "taskletd"} /\ frames[current] = << >>
    BY DEF TaskletdSuspend, nsleep, BlkSuspend, AtThreadLevel
  <1>4. pc["kmain"] # "boot"
    BY <1>1 DEF TaskletdSuspend, nsleep, BlkSuspend, AtThreadLevel, ThreadInv
  <1>5. /\ pc' \in [Threads -> {"boot", "loop", "nsleep", "submitted", "blkread",
                                "check", "fn", "suspend"}]
        /\ \/ TaskletdSuspend /\ pc'["kmain"] = pc["kmain"]
           \/ nsleep /\ pc'["kmain"] = "nsleep"
           \/ BlkSuspend /\ pc'["kmain"] = "blkread"
    BY <1>1 DEF TaskletdSuspend, nsleep, BlkSuspend, TypeOK, Threads
  <1>6. ChainParts' /\ current' \in Threads /\ state' = state
    BY <1>2, <1>3, <1>4, <1>5, KeptBySuspend
  <1>7. StackSame  BY <1>1, <1>2 DEF StackSame, TypeOK, Stacks
  <1>8. SoftirqExclusive'  BY <1>1, <1>7, ExclusiveKept
  <1>9. /\ parent' = parent /\ suspended' = [suspended EXCEPT ![current] = TRUE]
    BY <1>2 DEF suspend_thread
  <1>10. TypeOK'  BY <1>1, <1>2, <1>5, <1>6, <1>9 DEF TypeOK
  <1>11. SleeperHasTimer'
    <2>1. CASE TaskletdSuspend
      <3>1. current = "taskletd" /\ sleep_timer' = sleep_timer
        BY <2>1 DEF TaskletdSuspend, AtThreadLevel, workvars
      <3>2. pc'["kmain"] = pc["kmain"]
        BY <1>1, <2>1 DEF TaskletdSuspend, TypeOK, Threads
      <3>3. suspended'["kmain"] = suspended["kmain"]
        BY <1>1, <1>9, <3>1 DEF TypeOK, Threads
      <3> QED  BY <1>1, <3>1, <3>2, <3>3 DEF SleeperHasTimer
    <2>2. CASE nsleep
      BY <2>2 DEF nsleep, SleeperHasTimer
    <2>3. CASE BlkSuspend
      <3>1. pc'["kmain"] = "blkread"
        BY <1>1, <2>3 DEF BlkSuspend, TypeOK, Threads
      <3> QED  BY <3>1 DEF SleeperHasTimer
    <2> QED  BY <1>5, <2>1, <2>2, <2>3
  <1> QED  BY <1>6, <1>8, <1>10, <1>11 DEF Kept

(* The start of the tasklet thread at boot keeps Inv. *)
LEMMA KeptByStartTaskletd ==
    ASSUME Inv, StartTaskletd
    PROVE  Kept
  <1>1. TypeOK /\ SoftirqExclusive  BY DEF Inv
  <1>2. ChainParts'  BY KeptByStart
  <1>3. /\ current = "kmain" /\ frames' = frames /\ tasklet_count' = tasklet_count
        /\ pending' = pending /\ sleep_timer' = sleep_timer /\ blk' = blk /\ hung' = hung
        /\ lapic' = TRUE /\ resume_new_thread("taskletd")
        /\ pc' = [pc EXCEPT !["kmain"] = "loop", !["taskletd"] = "suspend"]
    BY DEF StartTaskletd, AtThreadLevel
  <1>4. StackSame  BY <1>1, <1>3 DEF StackSame, TypeOK, Stacks
  <1>5. SoftirqExclusive'  BY <1>1, <1>4, ExclusiveKept
  <1>6. TypeOK'  BY <1>1, <1>3 DEF TypeOK, resume_new_thread, Threads
  <1>7. pc'["kmain"] = "loop"  BY <1>1, <1>3 DEF TypeOK, Threads
  <1>8. SleeperHasTimer'  BY <1>7 DEF SleeperHasTimer
  <1> QED  BY <1>2, <1>5, <1>6, <1>8 DEF Kept

-----------------------------------------------------------------------------
(* The theorems *)

(* Inv holds when the main thread starts. *)
LEMMA InitInv == Init => Inv
  <1> SUFFICES ASSUME Init PROVE Inv  OBVIOUS
  <1>1. /\ current = "kmain" /\ parent["kmain"] = "idle" /\ parent["idle"] = "kmain"
        /\ parent["taskletd"] = "none"
        /\ state["kmain"] = "RUN" /\ state["idle"] = "RUN" /\ state["taskletd"] = "INIT"
        /\ \A t \in Threads : ~suspended[t] /\ frames[t] = << >>
        /\ pc["kmain"] = "boot" /\ tasklet_count = -1
    BY DEF Init, Threads
  <1>2. TypeOK
    <2>1. << >> \in Seq(Frame)  OBVIOUS
    <2>2. frames \in [Threads -> Seq(Frame)]  BY <2>1 DEF Init
    <2>3. parent \in [Threads -> Threads \cup {"none"}]  BY DEF Init, Threads
    <2>4. state \in [Threads -> {"INIT", "RUN"}] /\ suspended \in [Threads -> BOOLEAN]
      BY DEF Init, Threads
    <2>5. pc \in [Threads -> {"boot", "loop", "nsleep", "submitted", "blkread",
                              "check", "fn", "suspend"}]
      BY DEF Init
    <2>6. tasklet_count \in Int /\ pending \in SUBSET Softirqs /\ blk \in {"none", "queued"}
      BY DEF Init
    <2>7. current \in Threads  BY DEF Init, Threads
    <2>8. lapic \in BOOLEAN /\ sleep_timer \in BOOLEAN /\ hung \in BOOLEAN
      BY Zenon DEF Init
    <2> QED  BY <2>2, <2>3, <2>4, <2>5, <2>6, <2>7, <2>8 DEF TypeOK
  <1>3. ThreadInv  BY <1>1 DEF ThreadInv, Threads
  <1>4. ChainComplete  BY <1>1 DEF ChainComplete, OnChain, Threads
  <1>5. SoftirqExclusive  BY <1>1 DEF SoftirqExclusive, IsSoftirqFrame
  <1>6. FrameInv  BY <1>1 DEF FrameInv
  <1>7. SleeperHasTimer  BY <1>1 DEF SleeperHasTimer, Threads
  <1> QED  BY <1>2, <1>3, <1>4, <1>5, <1>6, <1>7 DEF Inv

(* Every step of Sched keeps Inv. *)
LEMMA NextInv == Inv /\ [Next]_vars => Inv'
  <1> SUFFICES ASSUME Inv, [Next]_vars PROVE Inv'  OBVIOUS
  <1>1. CASE UNCHANGED vars
    <2>1. TypeOK'  BY <1>1 DEF Inv, TypeOK, vars
    <2>2. ThreadInv'  BY <1>1 DEF Inv, ThreadInv, vars
    <2>3. ChainComplete'  BY <1>1 DEF Inv, ChainComplete, OnChain, vars
    <2>4. SoftirqExclusive'  BY <1>1 DEF Inv, SoftirqExclusive, IsSoftirqFrame, vars
    <2>5. FrameInv'  BY <1>1 DEF Inv, FrameInv, HasSoftirq, vars
    <2>6. SleeperHasTimer'  BY <1>1 DEF Inv, SleeperHasTimer, vars
    <2> QED  BY <2>1, <2>2, <2>3, <2>4, <2>5, <2>6 DEF Inv
  <1>2. CASE Next
    <2>1. Kept
      <3>1. CASE LapicIrq \/ \E s \in Softirqs \ {HRTIMER, TIMER} : DeviceIrq(s)
        BY <3>1, KeptByIrq
      <3>2. CASE BlkIrq  BY <3>2, KeptByBlkIrq
      <3>3. CASE IrqReturn  BY <3>3, KeptByIrqReturn
      <3>4. CASE SoftirqStep
        BY <3>4, KeptBySleepCallback, KeptByTickCallback, KeptByFinishAction,
           KeptBySoftirqRestart, KeptBySoftirqGiveUp, KeptBySoftirqDone DEF SoftirqStep
      <3>5. CASE TaskletdStep
        BY <3>5, KeptByCounter, KeptByRunKsoftirqd, KeptBySuspending DEF TaskletdStep
      <3>6. CASE KmainStep
        BY <3>6, KeptByStartTaskletd, KeptByCounter, KeptBySuspending DEF KmainStep
      <3> QED  BY <1>2, <3>1, <3>2, <3>3, <3>4, <3>5, <3>6 DEF Next
    <2> QED  BY <2>1 DEF Kept, ChainParts, Inv
  <1> QED  BY <1>1, <1>2

(* The inductive invariant holds of every behaviour. *)
THEOREM Invariance == Spec => []Inv
  BY InitInv, NextInv, PTL DEF Spec

(* The per-CPU thread and softirq state stays well typed; in particular the *)
(* restart budget of __do_softirq (softirq.c 96-98) stays within its range. *)
THEOREM TypeCorrect == Spec => []TypeOK
  <1>1. Inv => TypeOK  BY DEF Inv
  <1> QED  BY <1>1, Invariance, PTL

(* However interrupts, the tasklet thread and woken threads interleave, at  *)
(* most one __do_softirq is unfinished on the CPU, and in_tasklet tells.    *)
THEOREM OneSoftirq == Spec => []SoftirqExclusive
  <1>1. Inv => SoftirqExclusive  BY DEF Inv
  <1> QED  BY <1>1, Invariance, PTL

(* suspend_thread always finds a thread to resume, and every thread that    *)
(* was started and is not suspended is resumed by some suspend.             *)
THEOREM NoThreadStranded == Spec => []ChainComplete
  <1>1. Inv => ChainComplete  BY DEF Inv
  <1> QED  BY <1>1, Invariance, PTL

(* nsleep never waits for a timer that has already fired. *)
THEOREM NoLostSleep == Spec => []SleeperHasTimer
  <1>1. Inv => SleeperHasTimer  BY DEF Inv
  <1> QED  BY <1>1, Invariance, PTL
=============================================================================
